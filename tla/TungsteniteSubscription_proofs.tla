------------------- MODULE TungsteniteSubscription_proofs -------------------
(***************************************************************************)
(* Proofs about the retry loops of the tungstenite client, for every       *)
(* max_attempts, and about one subscription, for every max_attempts below  *)
(* u8::MAX and every number of notifications.                              *)
(*                                                                         *)
(* ControlInv ties the thread's phase, the position in subscribe_to_server *)
(* and the counters of the retry loops together; the type invariant, the   *)
(* bound on the requests and the reasons to stop follow from it.           *)
(***************************************************************************)
EXTENDS TungsteniteSubscription, TLAPS

-----------------------------------------------------------------------------
(* ConnectionAttempts: its loops on their own, for every max_attempts and  *)
(* every width of the counters.  That the counters stay in range needs     *)
(* LoopInv.  That the dials are bounded needs DialsInv, which counts them: *)
(* max_attempts + 1 for every round of the outer loop that is over, and    *)
(* one for every failed dial of this one.                                  *)

\* The safety part of ThreadSpec.
Loops == ThreadInit /\ [][ThreadNext]_threadVars

\* While the thread runs, both counters have passed the test of their loop.
LoopInv ==
  /\ ThreadTypeOK
  /\ phase # "stopped" => thread_attempt <= MaxAttempts /\ connect_attempt <= MaxAttempts

\* The dials the counters account for.
Accounted == thread_attempt * (MaxAttempts + 1) + connect_attempt

DialsInv ==
  /\ LoopInv
  /\ phase = "connecting" => dials <= Accounted
  /\ phase \in {"connected", "failed"} => dials <= Accounted + 1
  /\ dials <= DialLimit

\* Increment adds one as long as the result fits, and stays in range.
LEMMA IncrementFits ==
  ASSUME NEW attempt \in 0..U8Max
  PROVE  /\ Increment(attempt) \in 0..U8Max
         /\ attempt < U8Max => Increment(attempt) = attempt + 1
         /\ attempt = U8Max => Increment(attempt) = 0
BY AttemptsAssumption DEF Increment

\* The bound on the dials is a natural number.
LEMMA DialLimitIsNat == DialLimit \in Nat
BY AttemptsAssumption DEF DialLimit

\* The saturating history grows by at most one, and not above its range.
LEMMA CountDialGrowsByOne ==
  ASSUME CountDial, dials \in 0..(DialLimit + 1)
  PROVE  dials' \in 0..(DialLimit + 1) /\ dials' <= dials + 1
BY DialLimitIsNat DEF CountDial

\* Both loop counters and the history stay in range (client.rs:106-117 and
\* 165-178), for every max_attempts, wrapping counters included.
LEMMA LoopInvariant == Loops => []LoopInv
<1> USE AttemptsAssumption
<1>1. ThreadInit => LoopInv
  BY DialLimitIsNat DEF ThreadInit, LoopInv, ThreadTypeOK, Phase
<1>2. LoopInv /\ [ThreadNext]_threadVars => LoopInv'
  <2> SUFFICES ASSUME LoopInv, [ThreadNext]_threadVars PROVE LoopInv'
    OBVIOUS
  <2> USE DEF LoopInv, ThreadTypeOK, Phase
  <2>1. CASE ConnectionOpens
    BY <2>1, CountDialGrowsByOne DEF ConnectionOpens
  <2>2. CASE ConnectionRefused
    <3>1. dials' \in 0..(DialLimit + 1)
      BY <2>2, CountDialGrowsByOne DEF ConnectionRefused
    <3>2. phase = "connecting" /\ connect_attempt \in 0..MaxAttempts
      BY <2>2 DEF ConnectionRefused
    <3>3. connect_attempt' \in 0..(MaxAttempts + 1)
      BY <2>2, <3>2, IncrementFits DEF ConnectionRefused
    <3>4. /\ phase' \in {"connecting", "failed", "stopped"}
          /\ connect_attempt' <= MaxAttempts \/ phase' = "stopped"
      BY <2>2, <3>2 DEF ConnectionRefused, WithinAttempts, ReturnError, do_reconnect
    <3> QED
      BY <2>2, <3>1, <3>2, <3>3, <3>4 DEF ConnectionRefused
  <2>3. ASSUME NEW error \in SessionError, SessionEnds(error) PROVE LoopInv'
    BY <2>3 DEF SessionEnds, ReturnError
  <2>4. CASE ThreadReconnects
    <3>1. phase = "failed" /\ thread_attempt \in 0..MaxAttempts
      BY <2>4 DEF ThreadReconnects
    <3>2. thread_attempt' \in 0..(MaxAttempts + 1)
      BY <2>4, <3>1, IncrementFits DEF ThreadReconnects
    <3> QED
      BY <2>4, <3>1, <3>2 DEF ThreadReconnects, WithinAttempts
  <2>5. CASE UNCHANGED threadVars
    BY <2>5 DEF threadVars
  <2> QED
    BY <2>1, <2>2, <2>3, <2>4, <2>5 DEF ThreadNext
<1> QED
  BY <1>1, <1>2, PTL DEF Loops

\* The type invariant, for every max_attempts and every width of the counters.
THEOREM RetryCountersStayInRange == ThreadSpec => []ThreadTypeOK
<1>1. LoopInv => ThreadTypeOK
  BY DEF LoopInv
<1> QED
  BY <1>1, LoopInvariant, PTL DEF ThreadSpec, Loops

\* Rounds of the outer loop that fit below the limit leave room for one more.
LEMMA RoundFits ==
  ASSUME NEW t \in 0..MaxAttempts
  PROVE  t * (MaxAttempts + 1) + (MaxAttempts + 1) <= DialLimit
<1> USE AttemptsAssumption DEF DialLimit
<1>1. t * (MaxAttempts + 1) + (MaxAttempts + 1) = (t + 1) * (MaxAttempts + 1)
  OBVIOUS
<1>2. (t + 1) * (MaxAttempts + 1) <= (MaxAttempts + 1) * (MaxAttempts + 1)
  <2> DEFINE m == MaxAttempts + 1
             k == m - (t + 1)
  <2>1. m \in Nat /\ k \in Nat /\ t + 1 = m - k
    OBVIOUS
  <2>2. m * m = (t + 1) * m + k * m
    BY <2>1
  <2>3. k * m \in Nat /\ (t + 1) * m \in Nat
    BY <2>1
  <2> QED
    BY <2>2, <2>3
<1> QED
  BY <1>1, <1>2

\* DialsInv is inductive as long as no counter wraps.
LEMMA DialsInvariant ==
  ASSUME NoWrap
  PROVE  Loops => []DialsInv
<1> USE AttemptsAssumption
<1>1. ThreadInit => DialsInv
  BY DialLimitIsNat DEF ThreadInit, DialsInv, LoopInv, ThreadTypeOK, Phase, Accounted
<1>2. DialsInv /\ LoopInv' /\ [ThreadNext]_threadVars => DialsInv'
  <2> SUFFICES ASSUME DialsInv, LoopInv', [ThreadNext]_threadVars PROVE DialsInv'
    OBVIOUS
  <2> DEFINE rounds == thread_attempt * (MaxAttempts + 1)
  <2>1. /\ dials \in 0..(DialLimit + 1) /\ dials' \in 0..(DialLimit + 1)
        /\ thread_attempt \in Nat /\ connect_attempt \in Nat
        /\ thread_attempt' \in Nat /\ connect_attempt' \in Nat
        /\ DialLimit \in Nat /\ rounds \in Nat
        /\ Accounted = rounds + connect_attempt
    BY DialLimitIsNat DEF DialsInv, LoopInv, ThreadTypeOK, Accounted
  <2>2. phase # "stopped" =>
          /\ thread_attempt \in 0..MaxAttempts /\ connect_attempt \in 0..MaxAttempts
          /\ rounds + (MaxAttempts + 1) <= DialLimit
    BY <2>1, RoundFits DEF DialsInv, LoopInv
  <2> HIDE DEF rounds
  <2>3. CASE ConnectionOpens
    <3>1. phase = "connecting" /\ phase' = "connected" /\ dials' <= dials + 1
      BY <2>1, <2>3, CountDialGrowsByOne DEF ConnectionOpens
    <3>2. Accounted' = Accounted
      BY <2>3 DEF ConnectionOpens, Accounted
    <3>3. dials' <= Accounted + 1
      BY <3>1, <2>1 DEF DialsInv
    <3>4. dials' <= DialLimit
      BY <3>1, <3>3, <2>1, <2>2
    <3> QED
      BY <3>1, <3>2, <3>3, <3>4 DEF DialsInv
  <2>4. CASE ConnectionRefused
    <3>1. phase = "connecting" /\ dials' <= dials + 1
      BY <2>1, <2>4, CountDialGrowsByOne DEF ConnectionRefused
    <3>2. dials' <= rounds + connect_attempt + 1
      BY <3>1, <2>1 DEF DialsInv
    <3>3. dials' <= DialLimit
      BY <3>2, <3>1, <2>1, <2>2
    <3>4. connect_attempt' = connect_attempt + 1
      <4>1. connect_attempt \in 0..U8Max /\ connect_attempt < U8Max
        BY <3>1, <2>2, NoWrap DEF NoWrap
      <4> QED
        BY <2>4, <4>1, IncrementFits DEF ConnectionRefused
    <3>5. thread_attempt' = thread_attempt /\ phase' \in {"connecting", "stopped"}
      BY <2>4, <3>1 DEF ConnectionRefused, ReturnError, do_reconnect
    <3>6. Accounted' = rounds + connect_attempt + 1
      BY <3>4, <3>5, <2>1 DEF Accounted, rounds
    <3> QED
      BY <3>2, <3>3, <3>5, <3>6 DEF DialsInv
  <2>5. ASSUME NEW error \in SessionError, SessionEnds(error) PROVE DialsInv'
    BY <2>5 DEF SessionEnds, ReturnError, DialsInv, Accounted
  <2>6. CASE ThreadReconnects
    <3>1. phase = "failed" /\ dials' = dials /\ dials <= rounds + connect_attempt + 1
      BY <2>6, <2>1 DEF ThreadReconnects, DialsInv
    <3>2. thread_attempt' = thread_attempt + 1
      <4>1. thread_attempt \in 0..U8Max /\ thread_attempt < U8Max
        BY <3>1, <2>2, NoWrap DEF NoWrap
      <4> QED
        BY <2>6, <4>1, IncrementFits DEF ThreadReconnects
    <3>3. connect_attempt' = 0 /\ phase' \in {"connecting", "stopped"}
      BY <2>6 DEF ThreadReconnects
    <3>4. Accounted' = rounds + (MaxAttempts + 1)
      BY <3>2, <3>3, <2>1 DEF Accounted, rounds
    <3> QED
      BY <3>1, <3>3, <3>4, <2>1, <2>2 DEF DialsInv
  <2>7. CASE UNCHANGED threadVars
    BY <2>7 DEF threadVars, DialsInv, Accounted
  <2> QED
    BY <2>3, <2>4, <2>5, <2>6, <2>7 DEF ThreadNext
<1> QED
  BY <1>1, <1>2, LoopInvariant, PTL DEF Loops

\* Without a wrapped counter the two loops never dial the node more than
\* (max_attempts + 1)^2 times, however its sessions end.
THEOREM DialsAreBounded ==
  ASSUME NoWrap
  PROVE  ThreadSpec => []DialsBounded
<1>1. DialsInv => DialsBounded
  BY DEF DialsInv, DialsBounded
<1> QED
  BY <1>1, DialsInvariant, PTL DEF ThreadSpec, Loops

-----------------------------------------------------------------------------
(* The subscription, whose counters do not wrap.                           *)

USE AttemptsAssumption, SubscriptionAssumption, CountersFit DEF NoWrap

\* While the thread runs, its counters have passed the test of their loop
\* and count the connections opened.
CountersInv ==
  /\ phase # "stopped" => thread_attempt <= MaxAttempts /\ connect_attempt <= MaxAttempts
  /\ phase = "connecting" => session = thread_attempt
  /\ phase \in {"connected", "failed"} => session = thread_attempt + 1

\* A socket exists exactly while the thread is connected, and a message is
\* held exactly while it is being handed over.
SocketInv ==
  /\ phase = "connected" <=> step # "none"
  /\ phase # "connected" => link = "closed" /\ wire = <<>>
  /\ step # "forward" => held = NoFrame
  /\ step = "forward" => held.kind \in {"notification", "answer", "malformed"}

ControlInv ==
  /\ TypeOK
  /\ CountersInv
  /\ SocketInv
  /\ NoneOnlyAtTheEnd
  /\ StopsForAReason

-----------------------------------------------------------------------------
(* The steps of the retry loops.                                           *)

\* Below u8::MAX the counters of the loops just count.
LEMMA IncrementAddsOne ==
  ASSUME NEW attempt \in 0..MaxAttempts
  PROVE  Increment(attempt) = attempt + 1
BY IncrementFits

\* What a connection that opens does to the thread.
LEMMA OpensStep ==
  ASSUME TypeOK, CountersInv, ConnectionOpens
  PROVE  /\ ThreadTypeOK'
         /\ phase = "connecting" /\ phase' = "connected"
         /\ UNCHANGED <<thread_attempt, connect_attempt>>
BY CountDialGrowsByOne DEF TypeOK, ThreadTypeOK, ConnectionOpens, Phase

\* What a failed dial does: one more, or the end of the thread.
LEMMA RefusedStep ==
  ASSUME TypeOK, CountersInv, ConnectionRefused
  PROVE  /\ ThreadTypeOK'
         /\ phase = "connecting" /\ UNCHANGED thread_attempt
         /\ \/ phase' = "connecting" /\ connect_attempt' <= MaxAttempts
            \/ phase' = "stopped" /\ connect_attempt' > MaxAttempts
<1>1. /\ phase = "connecting" /\ UNCHANGED thread_attempt
      /\ connect_attempt \in 0..MaxAttempts
      /\ thread_attempt \in 0..(MaxAttempts + 1)
      /\ dials' \in 0..(DialLimit + 1)
  BY CountDialGrowsByOne DEF TypeOK, ThreadTypeOK, CountersInv, ConnectionRefused
<1>2. /\ connect_attempt' = connect_attempt + 1
      /\ IF connect_attempt' <= MaxAttempts THEN UNCHANGED phase ELSE phase' = "stopped"
  BY <1>1, IncrementAddsOne
  DEF ConnectionRefused, WithinAttempts, ReturnError, do_reconnect
<1> QED
  BY <1>1, <1>2 DEF ThreadTypeOK, Phase

\* What the next round of the outer loop does, or its end.
LEMMA ReconnectStep ==
  ASSUME TypeOK, CountersInv, ThreadReconnects
  PROVE  /\ ThreadTypeOK'
         /\ phase = "failed"
         /\ thread_attempt' = thread_attempt + 1 /\ connect_attempt' = 0
         /\ \/ phase' = "connecting" /\ thread_attempt' <= MaxAttempts
            \/ phase' = "stopped" /\ thread_attempt' > MaxAttempts
<1>1. /\ phase = "failed" /\ UNCHANGED dials
      /\ dials \in 0..(DialLimit + 1)
      /\ thread_attempt \in 0..MaxAttempts
  BY DEF TypeOK, ThreadTypeOK, CountersInv, ThreadReconnects
<1>2. /\ thread_attempt' = thread_attempt + 1 /\ connect_attempt' = 0
      /\ phase' = IF thread_attempt' <= MaxAttempts THEN "connecting" ELSE "stopped"
  BY <1>1, IncrementAddsOne DEF ThreadReconnects, WithinAttempts
<1> QED
  BY <1>1, <1>2 DEF ThreadTypeOK, Phase

\* What an error of the session does to the thread: only a send that fails
\* stops it.
LEMMA EndsStep ==
  ASSUME TypeOK, CountersInv, NEW error \in {"Serde", "ConnectionClosed", "Client", "Send"},
         SessionEnds(error)
  PROVE  /\ ThreadTypeOK'
         /\ phase = "connected" /\ UNCHANGED <<thread_attempt, connect_attempt>>
         /\ phase' = IF error = "Send" THEN "stopped" ELSE "failed"
BY DEF TypeOK, ThreadTypeOK, Phase, SessionEnds, ReturnError,
       do_reconnect

-----------------------------------------------------------------------------
(* ControlInv is inductive.                                                *)

\* A message that was sent keeps the wire a sequence of frames.
LEMMA SendTypes ==
  ASSUME TypeOK, NEW frame \in Frame, Send(frame)
  PROVE  wire' \in Seq(Frame)
BY DEF TypeOK, Send

\* The messages of the node are frames.
LEMMA Frames ==
  /\ \A kind \in Kind \ {"notification"} : Message(kind) \in Frame
  /\ \A n \in 1..MaxNotifications : Numbered(n) \in Frame
BY DEF Message, Numbered, Frame, Kind

\* The first of the messages on the wire is a frame, and the rest still are.
LEMMA ReadTypes ==
  ASSUME TypeOK, wire # <<>>
  PROVE  Head(wire) \in Frame /\ Tail(wire) \in Seq(Frame)
BY DEF TypeOK

\* What is left of the wire after a loss is a sequence of frames.
LEMMA PrefixTypes ==
  ASSUME TypeOK, NEW k \in 0..Len(wire)
  PROVE  SubSeq(wire, 1, k) \in Seq(Frame)
BY DEF TypeOK

LEMMA ControlInit == Init => ControlInv
<1> SUFFICES ASSUME Init PROVE ControlInv
  OBVIOUS
<1>1. ThreadTypeOK
  BY DialLimitIsNat DEF Init, ThreadInit, ThreadTypeOK, Phase
<1>2. Stream!TypeOK
  <2>1. (phase = "stopped") \in BOOLEAN
    OBVIOUS
  <2>2. /\ queue = <<>> /\ taken = <<>>
        /\ caller = "idle" /\ sawEnd = FALSE
    BY DEF Init
  <2>3. <<>> \in Seq(Element)
    OBVIOUS
  <2> QED
    BY <2>1, <2>2, <2>3 DEF Stream!TypeOK
<1>3. TypeOK
  BY <1>1, <1>2 DEF Init, TypeOK
<1>4. CountersInv /\ SocketInv /\ NoneOnlyAtTheEnd /\ StopsForAReason
  BY DEF Init, ThreadInit, CountersInv, SocketInv, NoneOnlyAtTheEnd, StopsForAReason
<1> QED
  BY <1>3, <1>4 DEF ControlInv

\* No step of the node or the network disturbs the thread.
LEMMA NodeKeepsControl ==
  ASSUME ControlInv, Node
  PROVE  ControlInv'
<1> USE DEF ControlInv
<1>1. /\ wire' \in Seq(Frame) /\ sent' \in 0..MaxNotifications /\ noise' \in 0..MaxNoise
      /\ link \in {"open", "closing"} /\ link' \in {"open", "closing", "broken"}
      /\ node' \in {"idle", "asked", "serving", "rejected"}
      /\ UNCHANGED <<threadVars, sessionVars, callerVars, session>>
  <2>1. CASE NodeAccepts \/ NodeRejects
    BY <2>1, SendTypes, Frames DEF NodeAccepts, NodeRejects, TypeOK, Kind
  <2>2. CASE NodeNotifies
    <3>1. sent' \in 1..MaxNotifications
      BY <2>2 DEF NodeNotifies, TypeOK
    <3> QED
      BY <2>2, <3>1, SendTypes, Frames DEF NodeNotifies, TypeOK
  <2>3. ASSUME NEW kind \in {"malformed", "control"}, NodeSendsNoise(kind) PROVE <1>1
    BY <2>3, SendTypes, Frames DEF NodeSendsNoise, TypeOK, Kind
  <2>4. CASE NodeCloses
    BY <2>4, SendTypes, Frames DEF NodeCloses, TypeOK, Kind
  <2>5. CASE ConnectionBreaks
    BY <2>5, PrefixTypes DEF ConnectionBreaks, TypeOK
  <2> QED
    BY <2>1, <2>2, <2>3, <2>4, <2>5 DEF Node
<1>2. TypeOK'
  BY <1>1 DEF TypeOK, ThreadTypeOK, Stream!TypeOK, threadVars, sessionVars, callerVars
<1>3. CountersInv' /\ SocketInv' /\ NoneOnlyAtTheEnd' /\ StopsForAReason'
  BY <1>1 DEF TypeOK, CountersInv, SocketInv, NoneOnlyAtTheEnd, StopsForAReason,
              threadVars, sessionVars, callerVars
<1> QED
  BY <1>2, <1>3

\* A session that fails, with any error: a failed send means the caller left.
LEMMA FailureKeepsControl ==
  ASSUME ControlInv, NEW error \in {"Serde", "ConnectionClosed", "Client", "Send"},
         SessionFails(error), error = "Send" => caller = "gone"
  PROVE  ControlInv'
<1> USE DEF ControlInv
<1>1. /\ ThreadTypeOK' /\ phase = "connected"
      /\ phase' = IF error = "Send" THEN "stopped" ELSE "failed"
      /\ UNCHANGED <<thread_attempt, connect_attempt>>
      /\ step' = "none" /\ held' = NoFrame
      /\ link' = "closed" /\ node' = "idle" /\ wire' = <<>>
      /\ UNCHANGED <<session, sent, noise, callerVars>>
  BY EndsStep DEF SessionFails
<1>2. TypeOK'
  BY <1>1 DEF TypeOK, Stream!TypeOK, callerVars
<1>3. CountersInv' /\ SocketInv' /\ NoneOnlyAtTheEnd' /\ StopsForAReason'
  BY <1>1 DEF TypeOK, CountersInv, SocketInv, NoneOnlyAtTheEnd, StopsForAReason, callerVars
<1> QED
  BY <1>2, <1>3

\* A step of the thread.
LEMMA WorkerKeepsControl ==
  ASSUME ControlInv, Worker
  PROVE  ControlInv'
<1> USE DEF ControlInv
<1>1. CASE Connect
  <2>1. /\ ThreadTypeOK' /\ phase = "connecting" /\ phase' = "connected"
        /\ UNCHANGED <<thread_attempt, connect_attempt>>
    BY <1>1, OpensStep DEF Connect
  <2>2. session' = session + 1 /\ session' \in 0..(MaxAttempts + 1)
    BY <1>1, <2>1 DEF Connect, CountersInv, TypeOK, ThreadTypeOK
  <2>3. TypeOK'
    BY <1>1, <2>1, <2>2 DEF Connect, TypeOK, Stream!TypeOK, callerVars
  <2>4. CountersInv' /\ SocketInv' /\ NoneOnlyAtTheEnd' /\ StopsForAReason'
    BY <1>1, <2>1, <2>2
    DEF Connect, CountersInv, SocketInv, NoneOnlyAtTheEnd, StopsForAReason, callerVars
  <2> QED
    BY <2>3, <2>4
<1>2. CASE ConnectFails
  <2>1. /\ ThreadTypeOK' /\ phase = "connecting" /\ UNCHANGED thread_attempt
        /\ \/ phase' = "connecting" /\ connect_attempt' <= MaxAttempts
           \/ phase' = "stopped" /\ connect_attempt' > MaxAttempts
    BY <1>2, RefusedStep DEF ConnectFails
  <2>2. TypeOK'
    BY <1>2, <2>1 DEF ConnectFails, TypeOK, Stream!TypeOK, sessionVars, nodeVars, callerVars
  <2>3. CountersInv' /\ SocketInv' /\ NoneOnlyAtTheEnd' /\ StopsForAReason'
    BY <1>2, <2>1
    DEF ConnectFails, TypeOK, ThreadTypeOK, CountersInv, SocketInv, NoneOnlyAtTheEnd,
        StopsForAReason, sessionVars, nodeVars, callerVars
  <2> QED
    BY <2>2, <2>3
<1>3. CASE WriteRequest
  <2>1. TypeOK'
    BY <1>3 DEF WriteRequest, TypeOK, ThreadTypeOK, Stream!TypeOK, threadVars, callerVars
  <2>2. CountersInv' /\ SocketInv' /\ NoneOnlyAtTheEnd' /\ StopsForAReason'
    BY <1>3
    DEF WriteRequest, CountersInv, SocketInv, NoneOnlyAtTheEnd, StopsForAReason, threadVars,
        callerVars
  <2> QED
    BY <2>1, <2>2
<1>4. CASE WriteFails \/ ReadFails
  BY <1>4, FailureKeepsControl DEF WriteFails, ReadFails
<1>5. CASE ReadMessage
  <2> DEFINE frame == Head(wire)
  <2>1. frame \in Frame /\ Tail(wire) \in Seq(Frame) /\ step = "read"
    BY <1>5, ReadTypes DEF ReadMessage
  <2>2. CASE frame.kind = "close"
    BY <1>5, <2>2, FailureKeepsControl DEF ReadMessage
  <2>3. CASE frame.kind # "close"
    <3>1. /\ wire' = Tail(wire)
          /\ UNCHANGED <<threadVars, session, link, node, sent, noise, callerVars>>
          /\ \/ UNCHANGED sessionVars
             \/ held' = frame /\ step' = "forward" /\ frame.kind # "control"
      BY <1>5, <2>3 DEF ReadMessage
    <3>2. frame.kind # "control" => frame.kind \in {"notification", "answer", "malformed"}
      BY <2>1, <2>3 DEF Frame, Kind
    <3>3. TypeOK'
      BY <2>1, <3>1 DEF TypeOK, ThreadTypeOK, Stream!TypeOK, threadVars, sessionVars, callerVars
    <3>4. CountersInv' /\ SocketInv' /\ NoneOnlyAtTheEnd' /\ StopsForAReason'
      BY <2>1, <3>1, <3>2
      DEF CountersInv, SocketInv, NoneOnlyAtTheEnd, StopsForAReason, threadVars, sessionVars,
          callerVars
    <3> QED
      BY <3>3, <3>4
  <2> QED
    BY <2>2, <2>3
<1>6. CASE SendMessageToClient
  <2>1. CASE held.kind = "malformed"
    BY <1>6, <2>1, FailureKeepsControl DEF SendMessageToClient
  <2>2. CASE held.kind = "notification" /\ caller = "gone"
    BY <1>6, <2>2, FailureKeepsControl DEF SendMessageToClient, SendFails
  <2>3. CASE held.kind = "answer" \/ (held.kind = "notification" /\ caller # "gone")
    <3>1. /\ step = "forward" /\ step' = "read" /\ held' = NoFrame
          /\ UNCHANGED <<threadVars, nodeVars, taken, caller, sawEnd>>
      BY <1>6, <2>3 DEF SendMessageToClient, Forwarded
    <3>2. phase = "connected" /\ session \in 1..(MaxAttempts + 1)
      BY <3>1 DEF SocketInv, CountersInv, TypeOK, ThreadTypeOK
    <3>3. held.kind = "notification" => held.n \in 1..MaxNotifications
      BY DEF TypeOK, Frame, NoFrame
    <3>4. queue' \in Seq(Element)
      <4>1. queue \in Seq(Element)
        BY DEF TypeOK, Stream!TypeOK
      <4>2. held.kind = "notification" => [session |-> session, n |-> held.n] \in Element
        BY <3>2, <3>3 DEF Element
      <4>3. UNCHANGED queue \/ (held.kind = "notification"
                               /\ queue' = Append(queue, [session |-> session, n |-> held.n]))
        BY <1>6, <2>3 DEF SendMessageToClient, Enqueue
      <4> QED
        BY <4>1, <4>2, <4>3
    <3>5. TypeOK'
      BY <3>1, <3>4 DEF TypeOK, ThreadTypeOK, Stream!TypeOK, threadVars, nodeVars
    <3>6. CountersInv' /\ SocketInv' /\ NoneOnlyAtTheEnd' /\ StopsForAReason'
      BY <3>1, <3>2
      DEF CountersInv, SocketInv, NoneOnlyAtTheEnd, StopsForAReason, threadVars, nodeVars
    <3> QED
      BY <3>5, <3>6
  <2> QED
    BY <1>6, <2>1, <2>2, <2>3 DEF SendMessageToClient
<1>7. CASE Reconnect
  <2>1. /\ ThreadTypeOK' /\ phase = "failed"
        /\ thread_attempt' = thread_attempt + 1 /\ connect_attempt' = 0
        /\ \/ phase' = "connecting" /\ thread_attempt' <= MaxAttempts
           \/ phase' = "stopped" /\ thread_attempt' > MaxAttempts
    BY <1>7, ReconnectStep DEF Reconnect
  <2>2. TypeOK'
    BY <1>7, <2>1 DEF Reconnect, TypeOK, Stream!TypeOK, sessionVars, nodeVars, callerVars
  <2>3. CountersInv' /\ SocketInv' /\ NoneOnlyAtTheEnd' /\ StopsForAReason'
    BY <1>7, <2>1
    DEF Reconnect, CountersInv, SocketInv, NoneOnlyAtTheEnd, StopsForAReason, sessionVars,
        nodeVars, callerVars
  <2> QED
    BY <2>2, <2>3
<1> QED
  BY <1>1, <1>2, <1>3, <1>4, <1>5, <1>6, <1>7 DEF Worker

\* A step of the caller.
LEMMA CallerKeepsControl ==
  ASSUME ControlInv, Caller
  PROVE  ControlInv'
<1> USE DEF ControlInv
<1>1. UNCHANGED <<threadVars, sessionVars, nodeVars>>
  BY DEF Caller, CallNext, NextSome, NextNone, Unsubscribe
<1>2. queue \in Seq(Element) /\ taken \in Seq(Element)
  BY DEF TypeOK, Stream!TypeOK
<1>3. /\ queue' \in Seq(Element) /\ taken' \in Seq(Element)
      /\ caller' \in {"idle", "waiting", "gone"}
      /\ sawEnd' \in BOOLEAN
      /\ caller = "gone" => caller' = "gone"
      /\ sawEnd' => sawEnd \/ (phase = "stopped" /\ queue = <<>>)
      /\ queue = <<>> => queue' = <<>>
  <2>1. CASE CallNext
    BY <1>2, <2>1 DEF CallNext, Stream!CallNext, TypeOK, Stream!TypeOK
  <2>2. CASE NextSome
    <3>1. /\ queue # <<>> /\ queue' = Tail(queue) /\ taken' = Append(taken, Head(queue))
          /\ caller' = "idle" /\ caller = "waiting" /\ sawEnd' = sawEnd
      BY <2>2 DEF NextSome, Stream!NextSome
    <3>2. queue' \in Seq(Element) /\ taken' \in Seq(Element)
      <4> QED
        BY <1>2, <3>1
    <3>3. sawEnd \in BOOLEAN
      BY DEF TypeOK, Stream!TypeOK
    <3> QED
      BY <3>1, <3>2, <3>3
  <2>3. CASE NextNone
    BY <1>2, <2>3 DEF NextNone, Stream!NextNone, TypeOK, Stream!TypeOK
  <2>4. CASE Unsubscribe
    BY <1>2, <2>4 DEF Unsubscribe, Stream!Unsubscribe, TypeOK, Stream!TypeOK
  <2> QED
    BY <2>1, <2>2, <2>3, <2>4 DEF Caller
<1>4. TypeOK'
  BY <1>1, <1>3 DEF TypeOK, ThreadTypeOK, Stream!TypeOK, threadVars, sessionVars, nodeVars
<1>5. CountersInv' /\ SocketInv' /\ NoneOnlyAtTheEnd' /\ StopsForAReason'
  BY <1>1, <1>3
  DEF CountersInv, SocketInv, NoneOnlyAtTheEnd, StopsForAReason, threadVars, sessionVars, nodeVars
<1> QED
  BY <1>4, <1>5

\* The control part of the model is what ControlInv says, for ever.
LEMMA ControlInvariant == Spec => []ControlInv
<1>1. ControlInv /\ [Next]_vars => ControlInv'
  <2> SUFFICES ASSUME ControlInv, [Next]_vars PROVE ControlInv'
    OBVIOUS
  <2>1. CASE UNCHANGED vars
    BY <2>1
    DEF vars, threadVars, sessionVars, nodeVars, callerVars, ControlInv, TypeOK, ThreadTypeOK,
        Stream!TypeOK, CountersInv, SocketInv, NoneOnlyAtTheEnd, StopsForAReason
  <2> QED
    BY <2>1, NodeKeepsControl, WorkerKeepsControl, CallerKeepsControl DEF Next
<1> QED
  BY <1>1, ControlInit, PTL DEF Spec

-----------------------------------------------------------------------------
\* Types: every counter, channel and wire stays in its domain, for every
\* max_attempts below u8::MAX.
THEOREM TypeCorrect == Spec => []TypeOK
<1>1. ControlInv => TypeOK
  BY DEF ControlInv
<1> QED
  BY <1>1, ControlInvariant, PTL

\* next (subscription.rs:38-45) returns None only once the thread has ended
\* and everything it forwarded has been taken.
THEOREM NoneMeansTheEnd == Spec => []NoneOnlyAtTheEnd
<1>1. ControlInv => NoneOnlyAtTheEnd
  BY DEF ControlInv
<1> QED
  BY <1>1, ControlInvariant, PTL

\* The request goes out at most max_attempts + 1 times (client.rs:106-117).
THEOREM RequestsAreBounded == Spec => []RequestsBounded
<1>1. ControlInv => RequestsBounded
  BY DEF ControlInv, TypeOK, RequestsBounded
<1> QED
  BY <1>1, ControlInvariant, PTL

\* The thread ends only because the caller left or its attempts are used up
\* (client.rs:109-116 and 166-177).
THEOREM ThreadStopsForAReason == Spec => []StopsForAReason
<1>1. ControlInv => StopsForAReason
  BY DEF ControlInv
<1> QED
  BY <1>1, ControlInvariant, PTL

-----------------------------------------------------------------------------
(***************************************************************************)
(* Order.  The invariant follows the notifications of a session from the   *)
(* wire into the stream: what the stream has ends at `last', the held one  *)
(* is the next, the wire goes on from `received' without a gap, and while  *)
(* the connection is healthy it goes on up to the last one sent.           *)
(***************************************************************************)

\* The last notification of this session in the caller's stream.
last ==
  IF stream # <<>> /\ stream[Len(stream)].session = session THEN stream[Len(stream)].n ELSE 0

\* The last notification of this session read from the wire.
received == IF held.kind = "notification" THEN held.n ELSE last

\* The notifications on the wire w are r + 1, r + 2, ... in this order, and
\* none after s.
WireFollows(w, r, s) ==
  /\ \A i \in 1..Len(w) : w[i].kind = "notification" => w[i].n \in (r + 1)..s
  /\ \A i, j \in 1..Len(w) :
       i < j /\ w[i].kind = "notification" /\ w[j].kind = "notification" => w[i].n < w[j].n
  /\ \A j \in 1..Len(w) : w[j].kind = "notification" =>
       \A m \in (r + 1)..(w[j].n - 1) :
         \E i \in 1..Len(w) : i < j /\ w[i].kind = "notification" /\ w[i].n = m

\* All of r + 1, ..., s are on the wire w.
WireComplete(w, r, s) ==
  \A m \in (r + 1)..s : \E i \in 1..Len(w) : w[i].kind = "notification" /\ w[i].n = m

\* What the session that is up owes a caller who listens.
SessionInv ==
  /\ received \in 0..sent
  /\ held.kind = "notification" => held.n = last + 1
  /\ \A k \in 1..last : \E i \in 1..Len(stream) : stream[i] = [session |-> session, n |-> k]
  /\ WireFollows(wire, received, sent)
  /\ link = "open" => WireComplete(wire, received, sent)

OrderInv ==
  /\ InOrderWithoutGaps
  /\ \A i \in 1..Len(stream) : stream[i].session <= session
  /\ phase = "connected" /\ caller # "gone" => SessionInv

\* Elements of an appended, a shortened and a cut wire.
LEMMA AppendElements ==
  ASSUME NEW S, NEW w \in Seq(S), NEW x \in S
  PROVE  /\ Append(w, x) \in Seq(S) /\ Len(Append(w, x)) = Len(w) + 1
         /\ \A i \in 1..Len(w) : Append(w, x)[i] = w[i]
         /\ Append(w, x)[Len(w) + 1] = x
OBVIOUS

LEMMA TailElements ==
  ASSUME NEW S, NEW w \in Seq(S), w # <<>>
  PROVE  /\ Tail(w) \in Seq(S) /\ Len(Tail(w)) = Len(w) - 1 /\ Len(w) \in Nat \ {0}
         /\ \A i \in 1..Len(Tail(w)) : Tail(w)[i] = w[i + 1]
         /\ Head(w) = w[1]
OBVIOUS

LEMMA PrefixElements ==
  ASSUME NEW S, NEW w \in Seq(S), NEW k \in 0..Len(w)
  PROVE  /\ SubSeq(w, 1, k) \in Seq(S) /\ Len(SubSeq(w, 1, k)) = k
         /\ \A i \in 1..k : SubSeq(w, 1, k)[i] = w[i]
OBVIOUS

\* A wire's notifications have numbers from 1 on.
LEMMA NotificationNumbers ==
  ASSUME NEW frame \in Frame, frame.kind = "notification"
  PROVE  frame.n \in 1..MaxNotifications
BY DEF Frame

\* The node sends a message that is not a notification.
LEMMA SendOther ==
  ASSUME NEW w \in Seq(Frame), NEW r \in Nat, NEW s \in Nat, NEW frame \in Frame,
         frame.kind # "notification", WireFollows(w, r, s)
  PROVE  /\ WireFollows(Append(w, frame), r, s)
         /\ WireComplete(w, r, s) => WireComplete(Append(w, frame), r, s)
<1> DEFINE v == Append(w, frame)
<1>1. /\ Len(v) = Len(w) + 1 /\ Len(w) \in Nat
      /\ \A i \in 1..Len(w) : v[i] = w[i]
      /\ v[Len(w) + 1] = frame
  BY AppendElements
<1> HIDE DEF v
<1>2. \A i \in 1..Len(v) : v[i].kind = "notification" => i \in 1..Len(w)
  BY <1>1
<1>3. ASSUME NEW j \in 1..Len(v), v[j].kind = "notification"
      PROVE  /\ v[j].n \in (r + 1)..s
             /\ \A m \in (r + 1)..(v[j].n - 1) :
                  \E i \in 1..Len(v) : i < j /\ v[i].kind = "notification" /\ v[i].n = m
  <2>1. j \in 1..Len(w) /\ w[j] = v[j]
    BY <1>1, <1>2, <1>3
  <2>2. ASSUME NEW m \in (r + 1)..(v[j].n - 1)
        PROVE  \E i \in 1..Len(v) : i < j /\ v[i].kind = "notification" /\ v[i].n = m
    <3>1. PICK i \in 1..Len(w) : i < j /\ w[i].kind = "notification" /\ w[i].n = m
      BY <1>3, <2>1, <2>2 DEF WireFollows
    <3> QED
      BY <1>1, <3>1
  <2> QED
    BY <1>3, <2>1, <2>2 DEF WireFollows
<1>4. \A i, j \in 1..Len(v) :
        i < j /\ v[i].kind = "notification" /\ v[j].kind = "notification" => v[i].n < v[j].n
  BY <1>1, <1>2 DEF WireFollows
<1>5. WireComplete(w, r, s) => WireComplete(v, r, s)
  BY <1>1 DEF WireComplete
<1>6. WireFollows(v, r, s)
  BY <1>3, <1>4 DEF WireFollows
<1> QED
  BY <1>5, <1>6 DEF v

\* The node sends the next notification on a healthy connection.
LEMMA SendNext ==
  ASSUME NEW w \in Seq(Frame), NEW r \in Nat, NEW s \in Nat, r <= s, s < MaxNotifications,
         WireFollows(w, r, s), WireComplete(w, r, s)
  PROVE  /\ WireFollows(Append(w, Numbered(s + 1)), r, s + 1)
         /\ WireComplete(Append(w, Numbered(s + 1)), r, s + 1)
<1> DEFINE v == Append(w, Numbered(s + 1))
           l == Len(w)
<1>1. Numbered(s + 1) \in Frame /\ Numbered(s + 1).kind = "notification" /\ Numbered(s + 1).n = s + 1
  BY Frames DEF Numbered
<1>2. /\ Len(v) = l + 1 /\ l \in Nat
      /\ \A i \in 1..l : v[i] = w[i]
      /\ v[l + 1].kind = "notification" /\ v[l + 1].n = s + 1
  BY <1>1, AppendElements
<1> HIDE DEF v, l
<1>3. \A i \in 1..l : w[i].kind = "notification" => w[i].n \in (r + 1)..s
  BY DEF WireFollows, l
<1>4. \A m \in (r + 1)..s : \E i \in 1..l : w[i].kind = "notification" /\ w[i].n = m
  BY DEF WireComplete, l
<1>5. ASSUME NEW i \in 1..Len(v), v[i].kind = "notification"
      PROVE  v[i].n \in (r + 1)..(s + 1)
  BY <1>2, <1>3, <1>5
<1>6. ASSUME NEW i \in 1..Len(v), NEW j \in 1..Len(v), i < j,
             v[i].kind = "notification", v[j].kind = "notification"
      PROVE  v[i].n < v[j].n
  <2>1. i \in 1..l /\ v[i] = w[i]
    BY <1>2, <1>6
  <2>2. CASE j = l + 1
    BY <1>2, <1>3, <1>6, <2>1, <2>2
  <2>3. CASE j \in 1..l
    BY <1>2, <1>6, <2>1, <2>3 DEF WireFollows, l
  <2> QED
    BY <1>2, <2>2, <2>3
<1>7. ASSUME NEW j \in 1..Len(v), v[j].kind = "notification", NEW m \in (r + 1)..(v[j].n - 1)
      PROVE  \E i \in 1..Len(v) : i < j /\ v[i].kind = "notification" /\ v[i].n = m
  <2>1. CASE j = l + 1
    <3>1. m \in (r + 1)..s
      BY <1>2, <1>7, <2>1
    <3>2. PICK i \in 1..l : w[i].kind = "notification" /\ w[i].n = m
      BY <1>4, <3>1
    <3> QED
      BY <1>2, <2>1, <3>2
  <2>2. CASE j \in 1..l
    <3>1. PICK i \in 1..l : i < j /\ w[i].kind = "notification" /\ w[i].n = m
      BY <1>2, <1>7, <2>2 DEF WireFollows, l
    <3> QED
      BY <1>2, <3>1
  <2> QED
    BY <1>2, <2>1, <2>2
<1>8. WireFollows(v, r, s + 1)
  BY <1>5, <1>6, <1>7 DEF WireFollows
<1>9. ASSUME NEW m \in (r + 1)..(s + 1)
      PROVE  \E i \in 1..Len(v) : v[i].kind = "notification" /\ v[i].n = m
  <2>1. CASE m = s + 1
    BY <1>2, <2>1
  <2>2. CASE m \in (r + 1)..s
    BY <1>2, <1>4, <2>2
  <2> QED
    BY <2>1, <2>2
<1>10. WireComplete(v, r, s + 1)
  BY <1>9 DEF WireComplete
<1> QED
  BY <1>8, <1>10 DEF v

\* The client reads a message that is not a notification.
LEMMA ReadOther ==
  ASSUME NEW w \in Seq(Frame), w # <<>>, NEW r \in Nat, NEW s \in Nat,
         Head(w).kind # "notification", WireFollows(w, r, s)
  PROVE  /\ WireFollows(Tail(w), r, s)
         /\ WireComplete(w, r, s) => WireComplete(Tail(w), r, s)
<1> DEFINE v == Tail(w)
           l == Len(w)
<1>1. /\ Len(v) = l - 1 /\ l \in Nat \ {0}
      /\ \A i \in 1..Len(v) : v[i] = w[i + 1] /\ i + 1 \in 1..l
      /\ w[1].kind # "notification"
  BY TailElements
<1> HIDE DEF v, l
<1>2. ASSUME NEW i \in 1..l, w[i].kind = "notification"
      PROVE  i - 1 \in 1..Len(v) /\ v[i - 1] = w[i]
  <2>1. i # 1
    BY <1>1, <1>2
  <2> QED
    BY <1>1, <2>1
<1>3. \A i \in 1..Len(v) : v[i].kind = "notification" => v[i].n \in (r + 1)..s
  <2>1. \A i \in 1..l : w[i].kind = "notification" => w[i].n \in (r + 1)..s
    BY DEF WireFollows, l
  <2> QED
    BY <1>1, <2>1
<1>4. ASSUME NEW i \in 1..Len(v), NEW j \in 1..Len(v), i < j,
             v[i].kind = "notification", v[j].kind = "notification"
      PROVE  v[i].n < v[j].n
  <2>1. \A g, k \in 1..l :
          g < k /\ w[g].kind = "notification" /\ w[k].kind = "notification" => w[g].n < w[k].n
    BY DEF WireFollows, l
  <2>2. /\ i + 1 \in 1..l /\ j + 1 \in 1..l /\ i + 1 < j + 1
        /\ v[i] = w[i + 1] /\ v[j] = w[j + 1]
    BY <1>1, <1>4
  <2> QED
    BY <1>4, <2>1, <2>2
<1>5. ASSUME NEW j \in 1..Len(v), v[j].kind = "notification", NEW m \in (r + 1)..(v[j].n - 1)
      PROVE  \E i \in 1..Len(v) : i < j /\ v[i].kind = "notification" /\ v[i].n = m
  <2>1. \A k \in 1..l : w[k].kind = "notification" =>
          \A g \in (r + 1)..(w[k].n - 1) :
            \E i \in 1..l : i < k /\ w[i].kind = "notification" /\ w[i].n = g
    BY DEF WireFollows, l
  <2>2. j + 1 \in 1..l /\ v[j] = w[j + 1]
    BY <1>1
  <2>3. PICK i \in 1..l : i < j + 1 /\ w[i].kind = "notification" /\ w[i].n = m
    BY <1>5, <2>1, <2>2
  <2>4. i - 1 \in 1..Len(v) /\ v[i - 1] = w[i]
    BY <1>2, <2>3
  <2>5. i - 1 < j
    BY <2>3
  <2> QED
    BY <2>3, <2>4, <2>5
<1>6. WireComplete(w, r, s) => WireComplete(v, r, s)
  <2> SUFFICES ASSUME WireComplete(w, r, s), NEW m \in (r + 1)..s
               PROVE  \E i \in 1..Len(v) : v[i].kind = "notification" /\ v[i].n = m
    BY DEF WireComplete
  <2>1. PICK i \in 1..l : w[i].kind = "notification" /\ w[i].n = m
    BY DEF WireComplete, l
  <2> QED
    BY <1>2, <2>1
<1>7. WireFollows(v, r, s)
  BY <1>3, <1>4, <1>5 DEF WireFollows
<1> QED
  BY <1>6, <1>7 DEF v

\* The client reads a notification: it is the next one.
LEMMA ReadNext ==
  ASSUME NEW w \in Seq(Frame), w # <<>>, NEW r \in Nat, NEW s \in Nat,
         Head(w).kind = "notification", WireFollows(w, r, s)
  PROVE  /\ Head(w).n = r + 1 /\ r + 1 <= s
         /\ WireFollows(Tail(w), r + 1, s)
         /\ WireComplete(w, r, s) => WireComplete(Tail(w), r + 1, s)
<1> DEFINE v == Tail(w)
           l == Len(w)
<1>1. /\ Len(v) = l - 1 /\ l \in Nat \ {0}
      /\ \A i \in 1..Len(v) : v[i] = w[i + 1] /\ i + 1 \in 1..l
      /\ w[1].kind = "notification" /\ w[1] = Head(w)
  BY TailElements
<1> HIDE DEF v, l
<1>2. w[1].n = r + 1 /\ r + 1 <= s
  <2>1. w[1].n \in (r + 1)..s
    BY <1>1 DEF WireFollows, l
  <2>2. ~ (r + 1 \in (r + 1)..(w[1].n - 1))
    <3>1. SUFFICES ASSUME r + 1 \in (r + 1)..(w[1].n - 1) PROVE FALSE
      OBVIOUS
    <3>2. PICK i \in 1..l : i < 1
      BY <1>1, <3>1 DEF WireFollows, l
    <3> QED
      BY <1>1, <3>2
  <2> QED
    BY <2>1, <2>2
<1>3. ASSUME NEW i \in 1..l, w[i].kind = "notification", w[i].n # r + 1
      PROVE  i - 1 \in 1..Len(v) /\ v[i - 1] = w[i]
  <2>1. i # 1
    BY <1>2, <1>3
  <2> QED
    BY <1>1, <2>1
<1>4. ASSUME NEW i \in 1..Len(v), v[i].kind = "notification"
      PROVE  v[i].n \in (r + 2)..s
  <2>1. v[i] = w[i + 1] /\ i + 1 \in 1..l /\ 1 \in 1..l /\ 1 < i + 1
    BY <1>1
  <2>2. w[1].n < w[i + 1].n
    BY <1>1, <1>4, <2>1 DEF WireFollows, l
  <2>3. w[i + 1].n \in (r + 1)..s
    BY <1>4, <2>1 DEF WireFollows, l
  <2> QED
    BY <1>2, <2>1, <2>2, <2>3
<1>5. \A i, j \in 1..Len(v) :
        i < j /\ v[i].kind = "notification" /\ v[j].kind = "notification" => v[i].n < v[j].n
  <2> SUFFICES ASSUME NEW i \in 1..Len(v), NEW j \in 1..Len(v), i < j,
                      v[i].kind = "notification", v[j].kind = "notification"
               PROVE  v[i].n < v[j].n
    OBVIOUS
  <2>1. /\ v[i] = w[i + 1] /\ i + 1 \in 1..l
        /\ v[j] = w[j + 1] /\ j + 1 \in 1..l
    BY <1>1
  <2>2. i + 1 < j + 1
    BY <1>1
  <2>3. w[i + 1].kind = "notification" /\ w[j + 1].kind = "notification"
    BY <2>1
  <2>4. w[i + 1].n < w[j + 1].n
    BY <2>1, <2>2, <2>3 DEF WireFollows, l
  <2> QED
    BY <2>1, <2>4
<1>6. ASSUME NEW j \in 1..Len(v), v[j].kind = "notification", NEW m \in (r + 2)..(v[j].n - 1)
      PROVE  \E i \in 1..Len(v) : i < j /\ v[i].kind = "notification" /\ v[i].n = m
  <2>1. v[j] = w[j + 1] /\ j + 1 \in 1..l /\ m \in (r + 1)..(w[j + 1].n - 1)
    BY <1>1, <1>4, <1>6
  <2>2. PICK i \in 1..l : i < j + 1 /\ w[i].kind = "notification" /\ w[i].n = m
    BY <1>6, <2>1 DEF WireFollows, l
  <2>3. i - 1 \in 1..Len(v) /\ v[i - 1] = w[i] /\ i - 1 < j
    BY <1>3, <2>2
  <2> QED
    BY <2>2, <2>3
<1>7. WireComplete(w, r, s) => WireComplete(v, r + 1, s)
  <2> SUFFICES ASSUME WireComplete(w, r, s), NEW m \in (r + 2)..s
               PROVE  \E i \in 1..Len(v) : v[i].kind = "notification" /\ v[i].n = m
    BY DEF WireComplete
  <2>1. PICK i \in 1..l : w[i].kind = "notification" /\ w[i].n = m
    BY DEF WireComplete, l
  <2> QED
    BY <1>3, <2>1
<1>8. WireFollows(v, r + 1, s)
  BY <1>4, <1>5, <1>6 DEF WireFollows
<1> QED
  BY <1>1, <1>2, <1>7, <1>8 DEF v

\* The connection loses the end of the wire.
LEMMA LosePrefix ==
  ASSUME NEW w \in Seq(Frame), NEW k \in 0..Len(w), NEW r \in Nat, NEW s \in Nat,
         WireFollows(w, r, s)
  PROVE  WireFollows(SubSeq(w, 1, k), r, s)
<1> DEFINE v == SubSeq(w, 1, k)
<1>1. Len(v) = k /\ \A i \in 1..k : v[i] = w[i] /\ i \in 1..Len(w)
  BY PrefixElements
<1> HIDE DEF v
<1>2. ASSUME NEW j \in 1..Len(v), v[j].kind = "notification", NEW m \in (r + 1)..(v[j].n - 1)
      PROVE  \E i \in 1..Len(v) : i < j /\ v[i].kind = "notification" /\ v[i].n = m
  <2>1. PICK i \in 1..Len(w) : i < j /\ w[i].kind = "notification" /\ w[i].n = m
    BY <1>1, <1>2 DEF WireFollows
  <2>2. i \in 1..Len(v)
    BY <1>1, <2>1
  <2> QED
    BY <1>1, <2>1, <2>2
<1> QED
  BY <1>1, <1>2 DEF WireFollows, v

-----------------------------------------------------------------------------
(* The stream: what the caller has taken and what waits in the channel.    *)

\* Elements of two sequences put together.
LEMMA ConcatElements ==
  ASSUME NEW S, NEW t \in Seq(S), NEW q \in Seq(S)
  PROVE  /\ t \o q \in Seq(S) /\ Len(t \o q) = Len(t) + Len(q)
         /\ \A i \in 1..Len(t) : (t \o q)[i] = t[i]
         /\ t \o <<>> = t
OBVIOUS

\* Taking the head of the channel leaves the stream as it is.
LEMMA TakingKeepsStream ==
  ASSUME NEW S, NEW t \in Seq(S), NEW q \in Seq(S), q # <<>>
  PROVE  Append(t, Head(q)) \o Tail(q) = t \o q
OBVIOUS

\* Enqueueing puts the element at the end of the stream.
LEMMA EnqueueingExtendsStream ==
  ASSUME NEW S, NEW t \in Seq(S), NEW q \in Seq(S), NEW x \in S
  PROVE  t \o Append(q, x) = Append(t \o q, x)
OBVIOUS

\* The stream is a sequence of elements, and `last' a number.
LEMMA StreamTypes ==
  ASSUME TypeOK
  PROVE  /\ queue \in Seq(Element) /\ taken \in Seq(Element) /\ stream \in Seq(Element)
         /\ Len(stream) \in Nat /\ last \in Nat
         /\ \A i \in 1..Len(stream) :
              stream[i].session \in Nat /\ stream[i].n \in Nat /\ stream[i] \in Element
         /\ wire \in Seq(Frame) /\ sent \in Nat /\ session \in Nat
<1>1. queue \in Seq(Element) /\ taken \in Seq(Element)
  BY DEF TypeOK, Stream!TypeOK
<1>2. stream \in Seq(Element)
  BY <1>1, ConcatElements DEF stream
<1>3. /\ Len(stream) \in Nat
      /\ stream # <<>> => Len(stream) \in 1..Len(stream)
      /\ \A i \in 1..Len(stream) : stream[i] \in Element
  BY <1>2
<1>4. \A e \in Element : e.session \in Nat /\ e.n \in Nat
  BY DEF Element
<1>5. last \in Nat
  BY <1>3, <1>4 DEF last
<1> QED
  BY <1>1, <1>2, <1>3, <1>4, <1>5 DEF TypeOK

\* A step that leaves the stream and the session alone keeps the order, if
\* the session goes on owing the caller what it did.
LEMMA SameStream ==
  ASSUME OrderInv, UNCHANGED <<queue, taken, session>>,
         phase' = "connected" /\ caller' # "gone" => SessionInv'
  PROVE  OrderInv'
BY DEF OrderInv, InOrderWithoutGaps, stream

\* A step of the node or the network only lengthens or cuts the wire.
LEMMA OrderNode ==
  ASSUME ControlInv, OrderInv, Node
  PROVE  OrderInv'
<1>1. phase = "connected" /\ UNCHANGED <<threadVars, sessionVars, callerVars, session>>
  BY DEF Node, NodeAccepts, NodeRejects, NodeNotifies, NodeSendsNoise, NodeCloses,
         ConnectionBreaks, ControlInv, SocketInv
<1>2. UNCHANGED <<stream, last, received, held, queue, taken, session, caller>>
  BY <1>1 DEF stream, last, received, sessionVars, callerVars
<1> SUFFICES ASSUME SessionInv PROVE SessionInv'
  BY <1>1, <1>2, SameStream DEF OrderInv, threadVars
<1>4. wire \in Seq(Frame) /\ sent \in Nat /\ received \in Nat /\ received <= sent
  BY StreamTypes DEF ControlInv, SessionInv
<1> DEFINE WireGoesOn == /\ sent' \in Nat /\ sent <= sent'
                         /\ WireFollows(wire', received, sent')
                         /\ link' = "open" => WireComplete(wire', received, sent')
<1>5. WireGoesOn => SessionInv'
  BY <1>2, <1>4 DEF SessionInv
<1>6. ASSUME NEW frame \in Frame, frame.kind # "notification", wire' = Append(wire, frame),
             UNCHANGED sent, link' = "open" => link = "open"
      PROVE  WireGoesOn
  BY <1>4, <1>6, SendOther DEF SessionInv
<1>7. ASSUME NodeAccepts \/ NodeRejects PROVE WireGoesOn
  <2>1. Message("answer") \in Frame /\ Message("answer").kind # "notification"
    BY Frames DEF Message, Kind
  <2> QED
    BY <1>6, <1>7, <2>1 DEF NodeAccepts, NodeRejects, Send
<1>8. ASSUME NodeNotifies PROVE WireGoesOn
  <2>1. link = "open" /\ sent' = sent + 1 /\ sent < MaxNotifications
        /\ wire' = Append(wire, Numbered(sent + 1))
    BY <1>8 DEF NodeNotifies, Send
  <2> QED
    BY <1>4, <2>1, SendNext DEF SessionInv
<1>9. ASSUME NEW kind \in {"malformed", "control"}, NodeSendsNoise(kind) PROVE WireGoesOn
  <2>1. Message(kind) \in Frame /\ Message(kind).kind # "notification"
    BY Frames DEF Message, Kind
  <2> QED
    BY <1>6, <1>9, <2>1 DEF NodeSendsNoise, Send
<1>10. ASSUME NodeCloses PROVE WireGoesOn
  <2>1. Message("close") \in Frame /\ Message("close").kind # "notification"
    BY Frames DEF Message, Kind
  <2> QED
    BY <1>6, <1>10, <2>1 DEF NodeCloses, Send
<1>11. ASSUME ConnectionBreaks PROVE WireGoesOn
  <2>1. PICK k \in 0..Len(wire) : wire' = SubSeq(wire, 1, k)
    BY <1>11 DEF ConnectionBreaks
  <2> QED
    BY <1>4, <1>11, <2>1, LosePrefix DEF ConnectionBreaks, SessionInv
<1>12. WireGoesOn
  BY <1>7, <1>8, <1>9, <1>10, <1>11 DEF Node
<1> QED
  BY <1>5, <1>12

\* A step of the thread moves notifications from the wire to its hands and
\* from there to the stream.
LEMMA OrderWorker ==
  ASSUME ControlInv, ControlInv', OrderInv, Worker
  PROVE  OrderInv'
<1> USE DEF ControlInv
<1>1. /\ stream \in Seq(Element) /\ Len(stream) \in Nat /\ last \in Nat
      /\ queue \in Seq(Element) /\ taken \in Seq(Element)
      /\ wire \in Seq(Frame) /\ sent \in Nat /\ session \in Nat
      /\ \A i \in 1..Len(stream) : stream[i].session \in Nat /\ stream[i].n \in Nat
  BY StreamTypes
<1>2. ASSUME NEW error \in {"Serde", "ConnectionClosed", "Client", "Send"}, SessionFails(error)
      PROVE  OrderInv'
  <2>1. phase' # "connected" /\ UNCHANGED <<queue, taken, session>>
    BY <1>2, EndsStep DEF SessionFails, callerVars
  <2> QED
    BY <2>1, SameStream
<1>3. ASSUME Connect PROVE OrderInv'
  <2>1. /\ session' = session + 1 /\ sent' = 0 /\ wire' = <<>> /\ held' = NoFrame
        /\ UNCHANGED <<queue, taken, caller>>
    BY <1>3, OpensStep DEF Connect, SocketInv, callerVars
  <2>2. stream' = stream
    BY <2>1 DEF stream
  <2>3. stream # <<>> => stream[Len(stream)].session # session + 1
    BY <1>1 DEF OrderInv
  <2>4. last' = 0 /\ received' = 0
    BY <2>1, <2>2, <2>3 DEF last, received, NoFrame
  <2>5. SessionInv'
    BY <2>1, <2>4 DEF SessionInv, WireFollows, WireComplete, NoFrame
  <2>6. InOrderWithoutGaps'
    BY <2>2 DEF OrderInv, InOrderWithoutGaps
  <2>7. ASSUME NEW i \in 1..Len(stream) PROVE stream[i].session <= session + 1
    <3>1. stream[i].session <= session /\ stream[i].session \in Nat
      BY <1>1 DEF OrderInv
    <3> QED
      BY <1>1, <3>1
  <2>8. \A i \in 1..Len(stream') : stream'[i].session <= session'
    BY <2>1, <2>2, <2>7
  <2> QED
    BY <2>5, <2>6, <2>8 DEF OrderInv
<1>4. ASSUME ConnectFails \/ Reconnect PROVE OrderInv'
  <2>1. phase' # "connected" /\ UNCHANGED <<queue, taken, session>>
    BY <1>4, RefusedStep, ReconnectStep DEF ConnectFails, Reconnect, callerVars, nodeVars
  <2> QED
    BY <2>1, SameStream
<1>5. ASSUME WriteRequest PROVE OrderInv'
  <2>1. UNCHANGED <<phase, held, session, link, wire, sent, queue, taken, caller>>
    BY <1>5 DEF WriteRequest, threadVars, callerVars
  <2>2. UNCHANGED <<stream, last, received>>
    BY <2>1 DEF stream, last, received
  <2>3. SessionInv => SessionInv'
    BY <2>1, <2>2 DEF SessionInv
  <2> QED
    BY <2>1, <2>3, SameStream DEF OrderInv
<1>6. ASSUME ReadMessage PROVE OrderInv'
  <2> DEFINE frame == Head(wire)
  <2>1. frame \in Frame /\ wire # <<>> /\ step = "read" /\ held = NoFrame
    BY <1>6, ReadTypes DEF ReadMessage, SocketInv
  <2>2. CASE frame.kind = "close"
    BY <1>2, <1>6, <2>2 DEF ReadMessage
  <2>3. CASE frame.kind # "close"
    <3>1. /\ wire' = Tail(wire)
          /\ UNCHANGED <<phase, session, link, sent, queue, taken, caller>>
          /\ \/ UNCHANGED held /\ frame.kind = "control"
             \/ held' = frame
      BY <1>6, <2>3 DEF ReadMessage, threadVars, sessionVars, callerVars
    <3>2. stream' = stream /\ last' = last /\ received = last
      BY <2>1, <3>1 DEF stream, last, received, NoFrame
    <3>3. SessionInv => SessionInv'
      <4> SUFFICES ASSUME SessionInv PROVE SessionInv'
        OBVIOUS
      <4>1. /\ last \in 0..sent /\ WireFollows(wire, last, sent)
            /\ link = "open" => WireComplete(wire, last, sent)
        BY <3>2 DEF SessionInv
      <4>2. CASE frame.kind = "notification"
        <5>1. held' = frame /\ received' = frame.n
          BY <3>1, <3>2, <4>2 DEF received
        <5>2. /\ frame.n = last + 1 /\ last + 1 <= sent
              /\ WireFollows(wire', last + 1, sent)
              /\ link = "open" => WireComplete(wire', last + 1, sent)
          BY <1>1, <2>1, <3>1, <4>1, <4>2, ReadNext
        <5> QED
          BY <1>1, <3>1, <3>2, <5>1, <5>2 DEF SessionInv
      <4>3. CASE frame.kind # "notification"
        <5>1. held'.kind # "notification" /\ received' = last
          BY <2>1, <3>1, <3>2, <4>3 DEF received, NoFrame
        <5>2. /\ WireFollows(wire', last, sent)
              /\ link = "open" => WireComplete(wire', last, sent)
          BY <1>1, <2>1, <3>1, <4>1, <4>3, ReadOther
        <5> QED
          BY <3>1, <3>2, <4>1, <5>1, <5>2 DEF SessionInv
      <4> QED
        BY <4>2, <4>3
    <3> QED
      BY <3>1, <3>3, SameStream DEF OrderInv
  <2> QED
    BY <2>2, <2>3
<1>7. ASSUME SendMessageToClient PROVE OrderInv'
  <2>1. step = "forward" /\ phase = "connected"
    BY <1>7 DEF SendMessageToClient, SocketInv
  <2>2. CASE held.kind = "malformed" \/ (held.kind = "notification" /\ caller = "gone")
    BY <1>2, <1>7, <2>2 DEF SendMessageToClient, SendFails
  <2>3. CASE held.kind = "answer"
    <3>1. /\ held' = NoFrame
          /\ UNCHANGED <<phase, session, link, wire, sent, queue, taken, caller>>
      BY <1>7, <2>3 DEF SendMessageToClient, Forwarded, threadVars, nodeVars
    <3>2. UNCHANGED <<stream, last, received>>
      BY <2>3, <3>1 DEF stream, last, received, NoFrame
    <3>3. SessionInv => SessionInv'
      BY <3>1, <3>2 DEF SessionInv, NoFrame
    <3> QED
      BY <3>1, <3>3, SameStream DEF OrderInv
  <2>4. CASE held.kind = "notification" /\ caller # "gone"
    <3> DEFINE new == [session |-> session, n |-> held.n]
               l == Len(stream)
    <3>1. /\ held' = NoFrame /\ queue' = Append(queue, new)
          /\ UNCHANGED <<phase, session, link, wire, sent, taken, caller>>
      BY <1>7, <2>4 DEF SendMessageToClient, Forwarded, Enqueue, threadVars, nodeVars
    <3>2. SessionInv /\ received = held.n /\ held.n = last + 1 /\ held.n \in Nat
      BY <1>1, <2>1, <2>4 DEF OrderInv, SessionInv, received
    <3>3. new \in Element
      <4>1. held.n \in 1..MaxNotifications
        BY <2>4 DEF TypeOK, Frame, NoFrame
      <4>2. session \in 1..(MaxAttempts + 1)
        BY <2>1 DEF TypeOK, ThreadTypeOK, CountersInv
      <4> QED
        BY <4>1, <4>2 DEF Element
    <3>4. stream' = Append(stream, new)
      <4> HIDE DEF new
      <4> QED
        BY <1>1, <3>1, <3>3, EnqueueingExtendsStream DEF stream
    <3>5. /\ Len(stream') = l + 1 /\ l \in Nat
          /\ \A i \in 1..l : stream'[i] = stream[i]
          /\ stream'[l + 1] = new
      <4> HIDE DEF new
      <4> QED
        BY <1>1, <3>3, <3>4, AppendElements
    <3>6. new.session = session /\ new.n = held.n
      OBVIOUS
    <3>7. stream' # <<>> /\ stream # <<>> <=> l # 0
      BY <1>1, <3>3, <3>4
    <3> HIDE DEF new
    <3>8. last' = held.n /\ received' = held.n
      BY <3>1, <3>5, <3>6, <3>7 DEF last, received, NoFrame
    <3>9. Follows(stream[l], new) \/ l = 0
      <4> SUFFICES ASSUME l # 0 PROVE Follows(stream[l], new)
        OBVIOUS
      <4>1. l \in 1..l /\ stream[l].session <= session
        BY <1>1 DEF OrderInv
      <4>2. CASE stream[l].session = session
        BY <3>2, <3>6, <3>7, <4>2 DEF Follows, last
      <4>3. CASE stream[l].session # session
        BY <1>1, <3>2, <3>6, <4>1, <4>3 DEF Follows, last
      <4> QED
        BY <4>2, <4>3
    <3>10. l = 0 => new.n = 1
      BY <3>2, <3>6, <3>7 DEF last
    <3>11. InOrderWithoutGaps'
      <4>1. stream'[1].n = 1
        BY <1>1, <3>5, <3>7, <3>10 DEF OrderInv, InOrderWithoutGaps
      <4>2. ASSUME NEW i \in 1..(Len(stream') - 1)
            PROVE  Follows(stream'[i], stream'[i + 1])
        <5>1. CASE i = l
          BY <3>5, <3>9, <4>2, <5>1
        <5>2. CASE i # l
          <6>1. i \in 1..(l - 1) /\ i \in 1..l /\ i + 1 \in 1..l
            BY <3>5, <4>2, <5>2
          <6> QED
            BY <3>5, <6>1 DEF OrderInv, InOrderWithoutGaps
        <5> QED
          BY <5>1, <5>2
      <4> QED
        BY <4>1, <4>2 DEF InOrderWithoutGaps
    <3>12. \A i \in 1..Len(stream') : stream'[i].session <= session'
      <4> SUFFICES ASSUME NEW i \in 1..Len(stream') PROVE stream'[i].session <= session'
        OBVIOUS
      <4>1. CASE i = l + 1
        BY <1>1, <3>1, <3>5, <3>6, <4>1
      <4>2. CASE i \in 1..l
        BY <3>1, <3>5, <4>2 DEF OrderInv
      <4> QED
        BY <3>5, <4>1, <4>2
    <3>13. \A k \in 1..last' :
             \E i \in 1..Len(stream') : stream'[i] = [session |-> session', n |-> k]
      <4> SUFFICES ASSUME NEW k \in 1..(last + 1)
                   PROVE  \E i \in 1..Len(stream') : stream'[i] = [session |-> session, n |-> k]
        BY <3>1, <3>2, <3>8
      <4>1. CASE k = last + 1
        BY <3>2, <3>5, <4>1 DEF new
      <4>2. CASE k \in 1..last
        <5>1. PICK i \in 1..l : stream[i] = [session |-> session, n |-> k]
          BY <3>2, <4>2 DEF SessionInv
        <5> QED
          BY <3>5, <5>1
      <4> QED
        BY <1>1, <4>1, <4>2
    <3>14. SessionInv'
      BY <3>1, <3>2, <3>8, <3>13 DEF SessionInv, NoFrame
    <3> QED
      BY <3>11, <3>12, <3>14 DEF OrderInv
  <2> QED
    BY <1>7, <2>2, <2>3, <2>4 DEF SendMessageToClient
<1> QED
  BY <1>2, <1>3, <1>4, <1>5, <1>6, <1>7 DEF Worker, WriteFails, ReadFails

\* A step of the caller takes from the channel, or drops it.
LEMMA OrderCaller ==
  ASSUME ControlInv, OrderInv, Caller
  PROVE  OrderInv'
<1>1. /\ queue \in Seq(Element) /\ taken \in Seq(Element)
      /\ stream \in Seq(Element)
  BY StreamTypes DEF ControlInv
<1>2. UNCHANGED <<phase, held, session, link, wire, sent>>
  BY DEF Caller, CallNext, NextSome, NextNone, Unsubscribe, threadVars, sessionVars, nodeVars
<1>3. CASE CallNext \/ NextSome \/ NextNone
  <2>1. stream' = stream /\ (caller' # "gone" => caller # "gone")
    <3>1. CASE CallNext \/ NextNone
      BY <3>1 DEF CallNext, Stream!CallNext, NextNone, Stream!NextNone, stream
    <3>2. CASE NextSome
      BY <1>1, <3>2, TakingKeepsStream DEF NextSome, Stream!NextSome, stream
    <3> QED
      BY <1>3, <3>1, <3>2
  <2>2. UNCHANGED <<last, received>>
    BY <1>2, <2>1 DEF last, received
  <2> QED
    BY <1>2, <2>1, <2>2 DEF OrderInv, InOrderWithoutGaps, SessionInv
<1>4. CASE Unsubscribe
  <2>1. caller' = "gone" /\ stream' = taken
    BY <1>1, <1>4, ConcatElements DEF Unsubscribe, Stream!Unsubscribe, stream
  <2>2. /\ Len(stream) = Len(taken) + Len(queue) /\ Len(taken) \in Nat /\ Len(queue) \in Nat
        /\ \A i \in 1..Len(taken) : stream[i] = taken[i] /\ i \in 1..Len(stream)
        /\ taken # <<>> <=> Len(taken) # 0
        /\ stream # <<>> <=> Len(stream) # 0
    BY <1>1, ConcatElements DEF stream
  <2>3. InOrderWithoutGaps'
    <3>1. taken # <<>> => taken[1].n = 1
      BY <2>2 DEF OrderInv, InOrderWithoutGaps
    <3>2. ASSUME NEW i \in 1..(Len(taken) - 1) PROVE Follows(taken[i], taken[i + 1])
      <4>1. i \in 1..(Len(stream) - 1) /\ i \in 1..Len(taken) /\ i + 1 \in 1..Len(taken)
        BY <2>2, <3>2
      <4> QED
        BY <2>2, <4>1 DEF OrderInv, InOrderWithoutGaps
    <3> QED
      BY <2>1, <3>1, <3>2 DEF InOrderWithoutGaps
  <2> QED
    BY <1>2, <2>1, <2>2, <2>3 DEF OrderInv
<1> QED
  BY <1>3, <1>4 DEF Caller

\* Order and completeness hold for ever.
LEMMA OrderInvariant == Spec => []OrderInv
<1>1. Init => OrderInv
  BY DEF Init, ThreadInit, OrderInv, InOrderWithoutGaps, stream
<1>2. ControlInv /\ ControlInv' /\ OrderInv /\ [Next]_vars => OrderInv'
  <2> SUFFICES ASSUME ControlInv, ControlInv', OrderInv, [Next]_vars PROVE OrderInv'
    OBVIOUS
  <2>1. CASE UNCHANGED vars
    <3>1. UNCHANGED <<phase, held, session, link, wire, sent, queue, taken, caller>>
      BY <2>1 DEF vars, threadVars, sessionVars, nodeVars, callerVars
    <3>2. UNCHANGED <<stream, last, received>>
      BY <3>1 DEF stream, last, received
    <3> QED
      BY <3>1, <3>2 DEF OrderInv, InOrderWithoutGaps, SessionInv
  <2> QED
    BY <2>1, OrderNode, OrderWorker, OrderCaller DEF Next
<1> QED
  BY <1>1, <1>2, ControlInvariant, PTL DEF Spec

-----------------------------------------------------------------------------
\* The caller sees every session's notifications in order and without a gap,
\* however many sessions, notifications and lost connections there are.
THEOREM StreamInOrderWithoutGaps == Spec => []InOrderWithoutGaps
<1>1. OrderInv => InOrderWithoutGaps
  BY DEF OrderInv
<1> QED
  BY <1>1, OrderInvariant, PTL

\* While the connection is healthy no notification the node has sent is
\* missing from the stream, the thread's hands and the wire together.
THEOREM NoNotificationLost == Spec => []NothingLostWhileConnected
<1>1. ControlInv /\ OrderInv => NothingLostWhileConnected
  <2> SUFFICES ASSUME ControlInv, OrderInv, phase = "connected", link = "open", caller # "gone",
                      NEW k \in 1..sent
               PROVE  \/ \E i \in 1..Len(stream) : stream[i] = [session |-> session, n |-> k]
                      \/ held = Numbered(k)
                      \/ \E i \in 1..Len(wire) : wire[i] = Numbered(k)
    BY DEF NothingLostWhileConnected
  <2>1. /\ SessionInv /\ last \in Nat /\ sent \in Nat /\ received \in Nat
        /\ held \in Frame \cup {NoFrame}
        /\ \A i \in 1..Len(wire) : wire[i] \in Frame
    BY StreamTypes DEF ControlInv, OrderInv, SessionInv, TypeOK
  <2>2. \A f \in Frame : f.kind = "notification" => f = Numbered(f.n)
    BY DEF Frame, Numbered
  <2>3. CASE k \in 1..last
    BY <2>1, <2>3 DEF SessionInv
  <2>4. CASE k > received
    <3>1. PICK i \in 1..Len(wire) : wire[i].kind = "notification" /\ wire[i].n = k
      BY <2>1, <2>4 DEF SessionInv, WireComplete
    <3> QED
      BY <2>1, <2>2, <3>1
  <2>5. CASE k > last /\ k <= received
    <3>1. held.kind = "notification" /\ held.n = k
      BY <2>1, <2>5 DEF received, SessionInv
    <3> QED
      BY <2>1, <2>2, <3>1 DEF NoFrame
  <2> QED
    BY <2>1, <2>3, <2>4, <2>5
<1> QED
  BY <1>1, ControlInvariant, OrderInvariant, PTL

-----------------------------------------------------------------------------
(* What the detailed specification implements, safety only: fairness and   *)
(* with it ImplementsStream and ImplementsConnectionAttempts stay with TLC. *)

\* What leaves the thread's phase and the caller's end alone is a stutter.
LEMMA QuietStutters ==
  ASSUME UNCHANGED phase, UNCHANGED callerVars
  PROVE  UNCHANGED Stream!vars
BY DEF callerVars, Stream!vars

\* A change of phase alone is Close or a stutter.
LEMMA PhaseCloses ==
  ASSUME phase # "stopped", UNCHANGED callerVars
  PROVE  [Stream!Next]_(Stream!vars)
<1>1. CASE phase' = "stopped"
  BY <1>1 DEF callerVars, Stream!Next, Stream!Close
<1>2. CASE phase' # "stopped"
  BY <1>2 DEF callerVars, Stream!vars
<1> QED
  BY <1>1, <1>2

\* A session that fails at most closes the stream.
LEMMA FailureCloses ==
  ASSUME NEW error \in {"Serde", "ConnectionClosed", "Client", "Send"}, SessionFails(error)
  PROVE  [Stream!Next]_(Stream!vars)
BY PhaseCloses DEF SessionFails, SessionEnds

\* A step of the thread is a Produce, a Close or a stutter of the stream.
LEMMA WorkerImplementsStream ==
  ASSUME ControlInv, Worker
  PROVE  [Stream!Next]_(Stream!vars)
<1>1. CASE Connect \/ ConnectFails \/ Reconnect
  BY <1>1, PhaseCloses
  DEF Connect, ConnectFails, Reconnect, ConnectionOpens, ConnectionRefused,
      ThreadReconnects
<1>2. CASE WriteRequest
  BY <1>2, QuietStutters DEF WriteRequest, threadVars
<1>3. CASE WriteFails \/ ReadFails
  BY <1>3, FailureCloses DEF WriteFails, ReadFails
<1>4. CASE ReadMessage
  <2>1. CASE Head(wire).kind = "close"
    BY <1>4, <2>1, FailureCloses DEF ReadMessage
  <2>2. CASE Head(wire).kind # "close"
    BY <1>4, <2>2, QuietStutters DEF ReadMessage, threadVars
  <2> QED
    BY <2>1, <2>2
<1>5. CASE SendMessageToClient
  <2>1. CASE held.kind = "malformed" \/ (held.kind = "notification" /\ caller = "gone")
    BY <1>5, <2>1, FailureCloses DEF SendMessageToClient, SendFails
  <2>2. CASE held.kind = "answer"
    BY <1>5, <2>2, QuietStutters DEF SendMessageToClient, Forwarded, threadVars, callerVars
  <2>3. CASE held.kind = "notification" /\ caller # "gone"
    <3> DEFINE element == [session |-> session, n |-> held.n]
    <3>1. phase = "connected" /\ session \in 1..(MaxAttempts + 1)
      BY <1>5 DEF SendMessageToClient, ControlInv, SocketInv, CountersInv, TypeOK, ThreadTypeOK
    <3>2. element \in Element
      BY <2>3, <3>1 DEF Element, ControlInv, TypeOK, Frame, NoFrame
    <3>3. queue' = Append(queue, element) /\ UNCHANGED <<phase, taken, caller, sawEnd>>
      BY <1>5, <2>3 DEF SendMessageToClient, Forwarded, Enqueue, threadVars
    <3>4. Stream!Produce(element)
      BY <2>3, <3>1, <3>3 DEF Stream!Produce
    <3> QED
      BY <3>2, <3>4 DEF Stream!Next
  <2> QED
    BY <1>5, <2>1, <2>2, <2>3 DEF SendMessageToClient
<1> QED
  BY <1>1, <1>2, <1>3, <1>4, <1>5 DEF Worker

\* The subscription takes only the steps HandleSubscription allows: the thread
\* produces into the channel or drops its sender, the caller takes in order,
\* sees the end only at the end, and leaves.
THEOREM StreamIsImplemented == Spec => Stream!Init /\ [][Stream!Next]_(Stream!vars)
<1>1. Init => Stream!Init
  BY DEF Init, ThreadInit, Stream!Init
<1>2. ControlInv /\ [Next]_vars => [Stream!Next]_(Stream!vars)
  <2> SUFFICES ASSUME ControlInv, [Next]_vars PROVE [Stream!Next]_(Stream!vars)
    OBVIOUS
  <2>1. CASE UNCHANGED vars
    BY <2>1, QuietStutters DEF vars, threadVars
  <2>2. CASE Node
    BY <2>2, QuietStutters
    DEF Node, NodeAccepts, NodeRejects, NodeNotifies, NodeSendsNoise, NodeCloses,
        ConnectionBreaks, threadVars
  <2>3. CASE Caller
    BY <2>3 DEF Caller, CallNext, NextSome, NextNone, Unsubscribe, Stream!Next
  <2> QED
    BY <2>1, <2>2, <2>3, WorkerImplementsStream DEF Next
<1> QED
  BY <1>1, <1>2, ControlInvariant, PTL DEF Spec

\* Whatever happens in a session, the thread goes through the retry loops of
\* ConnectionAttempts, whose bound on the dials therefore holds here.
THEOREM RetryLoopsAreImplemented == Spec => ThreadInit /\ [][ThreadNext]_threadVars
<1>1. Init => ThreadInit
  BY DEF Init
<1>2. [Next]_vars => [ThreadNext]_threadVars
  <2> SUFFICES ASSUME [Next]_vars PROVE [ThreadNext]_threadVars
    OBVIOUS
  <2>1. ASSUME NEW error \in {"Serde", "ConnectionClosed", "Client", "Send"}, SessionFails(error)
        PROVE  ThreadNext
    BY <2>1 DEF SessionFails, ThreadNext, SessionError, RpcClientError
  <2>2. CASE UNCHANGED vars
    BY <2>2 DEF vars
  <2>3. CASE Node
    BY <2>3
    DEF Node, NodeAccepts, NodeRejects, NodeNotifies, NodeSendsNoise, NodeCloses, ConnectionBreaks
  <2>4. CASE Caller
    BY <2>4 DEF Caller, CallNext, NextSome, NextNone, Unsubscribe
  <2>5. CASE Connect \/ ConnectFails \/ Reconnect
    BY <2>5 DEF Connect, ConnectFails, Reconnect, ThreadNext
  <2>6. CASE WriteRequest
    BY <2>6 DEF WriteRequest
  <2>7. CASE WriteFails \/ ReadFails
    BY <2>1, <2>7 DEF WriteFails, ReadFails
  <2>8. CASE ReadMessage
    BY <2>1, <2>8 DEF ReadMessage
  <2>9. CASE SendMessageToClient
    BY <2>1, <2>9 DEF SendMessageToClient, SendFails, Forwarded
  <2> QED
    BY <2>2, <2>3, <2>4, <2>5, <2>6, <2>7, <2>8, <2>9 DEF Next, Worker
<1> QED
  BY <1>1, <1>2, PTL DEF Spec

(***************************************************************************)
(* Under one subscription, however often it reconnects, the node is dialed *)
(* at most (max_attempts + 1)^2 times: what holds of the loops on their    *)
(* own holds of them around sessions.                                      *)
(***************************************************************************)
THEOREM SubscriptionDialsAreBounded == Spec => []DialsBounded
<1>1. NoWrap
  BY CountersFit
<1>2. Loops => []DialsInv
  BY <1>1, DialsInvariant
<1>3. DialsInv => DialsBounded
  BY DEF DialsInv, DialsBounded
<1> QED
  BY <1>2, <1>3, RetryLoopsAreImplemented, PTL DEF Loops
=============================================================================
