----------------------- MODULE WsSubscription_proofs ------------------------
(***************************************************************************)
(* A subscription of the ws client keeps the promise of HandleSubscription *)
(* (but for its liveness), for any number of messages.                     *)
(*                                                                         *)
(* The invariant follows the notifications from the connection through the *)
(* channel to the caller.  On the connection (OnTheWire) each comes after  *)
(* the one of the number before, unless that one has been handed on; and   *)
(* as long as the connection is there nothing that was sent is missing     *)
(* (Complete).                                                             *)
(***************************************************************************)
EXTENDS WsSubscription, TLAPS

USE DEF Stream!Init, Stream!Produce, Stream!Close, Stream!CallNext, Stream!NextSome,
        Stream!NextNone, Stream!Unsubscribe

Types ==
  /\ loop \in {"connecting", "open", "ended"}
  /\ wire \in Seq(Frame)
  /\ sent \in 0..MaxNotifications
  /\ queue \in Seq(1..MaxNotifications)
  /\ taken \in Seq(1..MaxNotifications)
  /\ caller \in {"idle", "waiting", "gone"}

Got == Len(taken) + Len(queue)
Notifies(i) == wire[i].kind = "notification"

\* InOrderWithoutGaps, for the two parts of what the caller gets.
Numbered ==
  /\ Got <= sent
  /\ \A i \in DOMAIN taken : taken[i] = i
  /\ \A i \in DOMAIN queue : queue[i] = Len(taken) + i

OnTheWire ==
  \A i \in DOMAIN wire : Notifies(i) =>
    /\ wire[i].n \in (Got + 1)..sent
    /\ wire[i].n = Got + 1 \/ \E j \in 1..(i - 1) : Notifies(j) /\ wire[j].n = wire[i].n - 1
    /\ \A j \in 1..(i - 1) : Notifies(j) => wire[j].n < wire[i].n

Complete ==
  loop = "open" /\ link # "broken" =>
    sent = Got \/ \E i \in DOMAIN wire : Notifies(i) /\ wire[i].n = sent

IInv ==
  /\ Types
  /\ Numbered
  /\ loop = "connecting" => sent = 0 /\ wire = <<>>
  /\ caller # "gone" => OnTheWire /\ Complete
  /\ caller = "gone" => queue = <<>>

-----------------------------------------------------------------------------
\* What Append and Tail keep of a sequence.
LEMMA Appended ==
  ASSUME NEW S, NEW s \in Seq(S), NEW x \in S
  PROVE  /\ Append(s, x) \in Seq(S)
         /\ Len(Append(s, x)) = Len(s) + 1 /\ Append(s, x)[Len(s) + 1] = x
         /\ DOMAIN s = 1..Len(s) /\ DOMAIN Append(s, x) = 1..(Len(s) + 1)
         /\ \A i \in DOMAIN s : Append(s, x)[i] = s[i]
OBVIOUS

LEMMA TakenOff ==
  ASSUME NEW S, NEW s \in Seq(S), s # <<>>
  PROVE  /\ Head(s) \in S /\ Head(s) = s[1] /\ Len(s) >= 1
         /\ Tail(s) \in Seq(S) /\ Len(Tail(s)) = Len(s) - 1
         /\ DOMAIN s = 1..Len(s) /\ DOMAIN Tail(s) = 1..(Len(s) - 1)
         /\ \A i \in 1..(Len(s) - 1) : Tail(s)[i] = s[i + 1]
OBVIOUS

LEMMA Empty == \A S : <<>> \in Seq(S) /\ Len(<<>>) = 0 /\ DOMAIN <<>> = {}
OBVIOUS

\* The parts of a message.
LEMMA Frames ==
  /\ \A frame \in Frame : frame.kind = "notification" => frame.n \in 1..MaxNotifications
  /\ \A kind \in Kind \ {"notification"} : Message(kind) \in Frame /\ Message(kind).kind = kind
  /\ \A n \in 1..MaxNotifications : [kind |-> "notification", n |-> n] \in Frame
BY DEF Frame, Message, Kind

LEMMA Initially == Init => IInv
BY Empty, WsAssumption DEF Init, IInv, Types, Numbered, Got, OnTheWire, Complete

-----------------------------------------------------------------------------
\* A message on its way: the next notification, or something else.
LEMMA Sent ==
  ASSUME IInv, NEW frame \in Frame, Send(frame), link' \in {"up", "closing"},
         \/ frame.kind # "notification" /\ sent' = sent
         \/ frame.kind = "notification" /\ frame.n = sent' /\ sent' = sent + 1 /\ sent < MaxNotifications
  PROVE  IInv'
<1> USE DEF IInv
<1>1. /\ loop = "open" /\ link = "up" /\ wire' = Append(wire, frame)
      /\ UNCHANGED <<loop, queue, taken, caller>>
  BY DEF Send, loopVars, callerVars
<1>2. /\ wire' \in Seq(Frame) /\ wire'[Len(wire) + 1] = frame
      /\ DOMAIN wire = 1..Len(wire) /\ DOMAIN wire' = 1..(Len(wire) + 1) /\ Len(wire) \in Nat
      /\ \A i \in DOMAIN wire : wire'[i] = wire[i]
  BY <1>1, Appended DEF Types
<1>3. Got' = Got /\ Got \in Nat /\ sent \in Nat
  BY <1>1 DEF Got, Types
<1>4. Types'
  BY <1>1, <1>2, WsAssumption DEF Types
<1>5. Numbered'
  BY <1>1, <1>3 DEF Numbered
<1>6. ASSUME caller # "gone" PROVE OnTheWire' /\ Complete'
  <2>1. OnTheWire /\ Complete
    BY <1>6
  <2>2. \A i \in DOMAIN wire : Notifies(i)' <=> Notifies(i)
    BY <1>2 DEF Notifies
  <2>3. OnTheWire'
    <3> SUFFICES ASSUME NEW i \in DOMAIN wire', Notifies(i)'
                 PROVE  /\ wire'[i].n \in (Got + 1)..sent'
                        /\ wire'[i].n = Got + 1 \/ \E j \in 1..(i - 1) : Notifies(j)' /\ wire'[j].n = wire'[i].n - 1
                        /\ \A j \in 1..(i - 1) : Notifies(j)' => wire'[j].n < wire'[i].n
      BY <1>3 DEF OnTheWire
    <3>1. CASE i \in DOMAIN wire
      <4>1. /\ wire[i].n \in (Got + 1)..sent
            /\ wire[i].n = Got + 1 \/ \E j \in 1..(i - 1) : Notifies(j) /\ wire[j].n = wire[i].n - 1
            /\ \A j \in 1..(i - 1) : Notifies(j) => wire[j].n < wire[i].n
        BY <2>1, <2>2, <3>1 DEF OnTheWire
      <4>2. 1..(i - 1) \subseteq DOMAIN wire
        BY <1>2, <3>1
      <4>3. wire'[i] = wire[i] /\ \A j \in 1..(i - 1) : wire'[j] = wire[j] /\ (Notifies(j)' <=> Notifies(j))
        BY <4>2, <1>2, <2>2, <3>1
      <4>4. sent <= sent' /\ sent' \in Nat
        BY <1>3
      <4>5. wire'[i].n \in (Got + 1)..sent'
        BY <4>1, <4>3, <4>4, <1>3
      <4>6. \A j \in 1..(i - 1) : Notifies(j)' => wire'[j].n < wire'[i].n
        BY <4>1, <4>3
      <4>7. wire'[i].n = Got + 1 \/ \E j \in 1..(i - 1) : Notifies(j)' /\ wire'[j].n = wire'[i].n - 1
        BY <4>1, <4>3
      <4>8. QED
        BY <4>5, <4>6, <4>7
    <3>2. CASE i = Len(wire) + 1
      <4>1. frame.kind = "notification" /\ wire'[i].n = sent + 1 /\ sent' = sent + 1
        BY <1>2, <3>2 DEF Notifies
      <4>2. 1..(i - 1) = DOMAIN wire
        BY <1>2, <3>2
      <4>3. sent = Got \/ \E j \in DOMAIN wire : Notifies(j) /\ wire[j].n = sent
        BY <1>1, <2>1 DEF Complete
      <4>4. \A j \in DOMAIN wire : Notifies(j) => wire[j].n \in (Got + 1)..sent
        BY <2>1 DEF OnTheWire
      <4>5. Got <= sent
        BY DEF Numbered
      <4>6. \A j \in 1..(i - 1) : wire'[j] = wire[j] /\ (Notifies(j)' <=> Notifies(j))
        BY <4>2, <1>2, <2>2
      <4>7. \A j \in 1..(i - 1) : Notifies(j)' => wire'[j].n < wire'[i].n
        <5>1. \A j \in DOMAIN wire : Notifies(j) => wire[j].n < sent + 1
          BY <4>4, <1>3
        <5>2. QED
          BY <4>1, <4>2, <4>6, <5>1
      <4>8. wire'[i].n = Got + 1 \/ \E j \in 1..(i - 1) : Notifies(j)' /\ wire'[j].n = wire'[i].n - 1
        <5>1. sent = wire'[i].n - 1
          BY <4>1, <1>3
        <5>2. CASE sent = Got
          BY <4>1, <5>2
        <5>3. CASE \E j \in DOMAIN wire : Notifies(j) /\ wire[j].n = sent
          BY <4>2, <4>6, <5>1, <5>3
        <5>4. QED
          BY <4>3, <5>2, <5>3
      <4>9. QED
        BY <4>1, <4>5, <4>7, <4>8, <1>3
    <3>3. QED
      BY <3>1, <3>2, <1>2
  <2>4. Complete'
    <3>1. CASE sent' = sent
      BY <3>1, <1>1, <1>2, <1>3, <2>1, <2>2 DEF Complete
    <3>2. CASE sent' = sent + 1
      BY <3>2, <1>2, <1>3 DEF Complete, Notifies
    <3>3. QED
      BY <3>1, <3>2
  <2>5. QED
    BY <2>3, <2>4
<1>7. QED
  BY <1>1, <1>4, <1>5, <1>6

LEMMA NodeSteps ==
  ASSUME IInv, Node
  PROVE  IInv'
<1>1. CASE NodeAnswers
  BY <1>1, Sent, Frames DEF NodeAnswers, Send, Kind
<1>2. CASE NodeNotifies
  <2>1. sent + 1 \in 1..MaxNotifications /\ sent \in Nat /\ sent' = sent + 1
    BY <1>2, WsAssumption DEF NodeNotifies, IInv, Types
  <2>2. [kind |-> "notification", n |-> sent'] \in Frame
    BY <2>1, Frames
  <2>3. QED
    BY <1>2, <2>1, <2>2, Sent DEF NodeNotifies, Send
<1>3. CASE NodeSendsNoise
  BY <1>3, Sent, Frames DEF NodeSendsNoise, Send, Kind
<1>4. CASE NodeCloses
  BY <1>4, Sent, Frames DEF NodeCloses, Send, Kind
<1>5. CASE ConnectionBreaks
  <2>1. PICK k \in 0..Len(wire) : wire' = SubSeq(wire, 1, k)
    BY <1>5 DEF ConnectionBreaks
  <2>2. /\ loop = "open" /\ link' = "broken"
        /\ UNCHANGED <<loop, sent, queue, taken, caller>>
    BY <1>5 DEF ConnectionBreaks, loopVars, callerVars
  <2>3. /\ wire' \in Seq(Frame) /\ DOMAIN wire' = 1..k /\ DOMAIN wire = 1..Len(wire)
        /\ \A i \in 1..k : wire'[i] = wire[i]
    BY <2>1 DEF IInv, Types
  <2>4. Got' = Got
    BY <2>2 DEF Got
  <2>5. OnTheWire => OnTheWire'
    <3>1. \A i \in DOMAIN wire' : i \in DOMAIN wire /\ 1..(i - 1) \subseteq DOMAIN wire'
      BY <2>1, <2>3 DEF IInv, Types
    <3>2. QED
      BY <2>2, <2>3, <2>4, <3>1 DEF OnTheWire, Notifies
  <2>6. QED
    BY <2>2, <2>3, <2>4, <2>5 DEF IInv, Types, Numbered, Complete
<1>6. QED
  BY <1>1, <1>2, <1>3, <1>4, <1>5 DEF Node

-----------------------------------------------------------------------------
LEMMA LoopEndsPreserves ==
  ASSUME IInv, LoopEnds
  PROVE  IInv'
<1>1. loop' = "ended" /\ wire' = <<>> /\ UNCHANGED <<sent, queue, taken, caller>>
  BY DEF LoopEnds, callerVars
<1>2. QED
  BY <1>1, Empty DEF IInv, Types, Numbered, Got, OnTheWire, Complete

\* The first message is taken from the connection.
LEMMA Handled ==
  ASSUME IInv, loop = "open", wire # <<>>, wire' = Tail(wire),
         UNCHANGED <<loop, link, sent, taken, caller>>,
         \/ /\ UNCHANGED queue
            /\ caller = "gone" \/ Head(wire).kind # "notification"
         \/ /\ caller # "gone" /\ Head(wire).kind = "notification"
            /\ queue' = Append(queue, Head(wire).n)
  PROVE  IInv'
<1> USE DEF IInv
<1>1. /\ Head(wire) \in Frame /\ Head(wire) = wire[1] /\ Len(wire) >= 1 /\ Len(wire) \in Nat
      /\ wire' \in Seq(Frame)
      /\ DOMAIN wire = 1..Len(wire) /\ DOMAIN wire' = 1..(Len(wire) - 1)
      /\ \A i \in 1..(Len(wire) - 1) : wire'[i] = wire[i + 1]
  BY TakenOff DEF Types
<1>2. Got \in Nat /\ sent \in Nat /\ Len(taken) \in Nat /\ Len(queue) \in Nat
  BY DEF Got, Types
<1>3. CASE caller = "gone"
  <2>1. queue' = queue
    BY <1>3
  <2>2. QED
    BY <1>1, <1>3, <2>1 DEF Types, Numbered, Got
<1>4. CASE caller # "gone" /\ Head(wire).kind # "notification"
  <2>1. queue' = queue /\ Got' = Got /\ OnTheWire /\ Complete /\ ~Notifies(1)
    BY <1>1, <1>4 DEF Got, Notifies
  <2>2. \A i \in DOMAIN wire' : i + 1 \in DOMAIN wire /\ (Notifies(i)' <=> Notifies(i + 1)) /\ wire'[i].n = wire[i + 1].n
    BY <1>1 DEF Notifies
  <2>3. OnTheWire'
    <3> SUFFICES ASSUME NEW i \in DOMAIN wire', Notifies(i)'
                 PROVE  /\ wire'[i].n \in (Got + 1)..sent
                        /\ wire'[i].n = Got + 1 \/ \E j \in 1..(i - 1) : Notifies(j)' /\ wire'[j].n = wire'[i].n - 1
                        /\ \A j \in 1..(i - 1) : Notifies(j)' => wire'[j].n < wire'[i].n
      BY <2>1 DEF OnTheWire
    <3>1. /\ wire[i + 1].n \in (Got + 1)..sent
          /\ wire[i + 1].n = Got + 1 \/ \E j \in 1..i : Notifies(j) /\ wire[j].n = wire[i + 1].n - 1
          /\ \A j \in 1..i : Notifies(j) => wire[j].n < wire[i + 1].n
      BY <1>1, <2>1, <2>2 DEF OnTheWire
    <3>2. \A j \in 1..(i - 1) : j \in DOMAIN wire' /\ j + 1 \in 1..i
      BY <1>1
    <3>3. \A j \in 1..i : Notifies(j) => j - 1 \in 1..(i - 1) /\ (j - 1) + 1 = j
      BY <2>1, <1>1
    <3>4. wire'[i].n = Got + 1 \/ \E j \in 1..(i - 1) : Notifies(j)' /\ wire'[j].n = wire'[i].n - 1
      <4>1. SUFFICES ASSUME NEW j \in 1..i, Notifies(j), wire[j].n = wire[i + 1].n - 1
                     PROVE  \E h \in 1..(i - 1) : Notifies(h)' /\ wire'[h].n = wire'[i].n - 1
        BY <3>1, <2>2
      <4>2. j - 1 \in 1..(i - 1) /\ j - 1 \in DOMAIN wire' /\ (j - 1) + 1 = j
        BY <4>1, <3>2, <3>3
      <4>3. Notifies(j - 1)' /\ wire'[j - 1].n = wire'[i].n - 1
        BY <4>1, <4>2, <2>2
      <4>4. QED
        BY <4>2, <4>3
    <3>5. \A j \in 1..(i - 1) : Notifies(j)' => wire'[j].n < wire'[i].n
      BY <3>1, <3>2, <2>2
    <3>6. QED
      BY <3>1, <3>4, <3>5, <2>2
  <2>4. Complete'
    <3>1. \A j \in DOMAIN wire : Notifies(j) => j - 1 \in DOMAIN wire' /\ (j - 1) + 1 = j
      BY <2>1, <1>1
    <3>2. QED
      BY <2>1, <2>2, <3>1 DEF Complete
  <2>5. QED
    BY <1>1, <2>1, <2>3, <2>4, <1>4 DEF Types, Numbered
<1>5. CASE caller # "gone" /\ Head(wire).kind = "notification"
  <2>1. OnTheWire /\ Complete /\ Notifies(1) /\ queue' = Append(queue, wire[1].n)
    BY <1>1, <1>5 DEF Notifies
  <2>2. wire[1].n = Got + 1 /\ Got + 1 <= sent
    BY <1>1, <1>2, <2>1 DEF OnTheWire
  <2>3. wire[1].n \in 1..MaxNotifications
    BY <1>1, <1>5, Frames
  <2>4. /\ queue' \in Seq(1..MaxNotifications) /\ Len(queue') = Len(queue) + 1
        /\ DOMAIN queue' = 1..(Len(queue) + 1) /\ DOMAIN queue = 1..Len(queue)
        /\ queue'[Len(queue) + 1] = Got + 1
        /\ \A i \in DOMAIN queue : queue'[i] = queue[i]
    BY <2>1, <2>2, <2>3, Appended DEF Types
  <2>5. Got' = Got + 1
    BY <2>4, <1>2 DEF Got
  <2>6. Numbered'
    <3>1. Got' <= sent' /\ (\A i \in DOMAIN taken : taken[i] = i)'
      BY <2>2, <2>5 DEF Numbered
    <3>2. \A i \in DOMAIN queue : queue'[i] = Len(taken) + i
      BY <2>4 DEF Numbered
    <3>3. queue'[Len(queue) + 1] = Len(taken) + (Len(queue) + 1)
      BY <2>4, <1>2 DEF Got
    <3>4. \A i \in DOMAIN queue' : i \in DOMAIN queue \/ i = Len(queue) + 1
      BY <2>4, <1>2
    <3>5. \A i \in DOMAIN queue' : queue'[i] = Len(taken') + i
      BY <3>2, <3>3, <3>4
    <3>6. QED
      BY <3>1, <3>5 DEF Numbered
  <2>7. \A i \in DOMAIN wire' : i + 1 \in DOMAIN wire /\ (Notifies(i)' <=> Notifies(i + 1)) /\ wire'[i].n = wire[i + 1].n
    BY <1>1 DEF Notifies
  <2>8. OnTheWire'
    <3> SUFFICES ASSUME NEW i \in DOMAIN wire', Notifies(i)'
                 PROVE  /\ wire'[i].n \in (Got + 2)..sent
                        /\ wire'[i].n = Got + 2 \/ \E j \in 1..(i - 1) : Notifies(j)' /\ wire'[j].n = wire'[i].n - 1
                        /\ \A j \in 1..(i - 1) : Notifies(j)' => wire'[j].n < wire'[i].n
      <4>1. Got' + 1 = Got + 2
        BY <2>5, <1>2
      <4>2. QED
        BY <4>1 DEF OnTheWire
    <3>1. /\ wire[i + 1].n \in (Got + 1)..sent
          /\ wire[i + 1].n = Got + 1 \/ \E j \in 1..i : Notifies(j) /\ wire[j].n = wire[i + 1].n - 1
          /\ \A j \in 1..i : Notifies(j) => wire[j].n < wire[i + 1].n
      BY <1>1, <2>1, <2>7 DEF OnTheWire
    <3>2. 1 \in 1..i /\ wire[i + 1].n > Got + 1
      BY <1>1, <1>2, <2>1, <2>2, <3>1
    <3>3. \A j \in 1..(i - 1) : j \in DOMAIN wire' /\ j + 1 \in 1..i
      BY <1>1
    <3>4. \A j \in 1..i : j = 1 \/ (j - 1 \in 1..(i - 1) /\ (j - 1) + 1 = j)
      BY <1>1
    <3>5. wire'[i].n = Got + 2 \/ \E j \in 1..(i - 1) : Notifies(j)' /\ wire'[j].n = wire'[i].n - 1
      <4>1. PICK j \in 1..i : Notifies(j) /\ wire[j].n = wire[i + 1].n - 1
        <5>1. wire[i + 1].n # Got + 1
          BY <3>1, <3>2, <1>2
        <5>2. QED
          BY <3>1, <5>1
      <4>2. CASE j = 1
        <5>1. Got + 1 = wire[i + 1].n - 1
          BY <4>1, <4>2, <2>2
        <5>2. wire'[i].n = Got + 2
          BY <5>1, <2>7, <3>1, <1>2
        <5>3. QED
          BY <5>2
      <4>3. CASE j # 1
        <5>1. j - 1 \in 1..(i - 1) /\ (j - 1) + 1 = j /\ j - 1 \in DOMAIN wire'
          BY <4>3, <3>3, <3>4
        <5>2. Notifies(j - 1)' /\ wire'[j - 1].n = wire'[i].n - 1
          BY <4>1, <5>1, <2>7
        <5>3. QED
          BY <5>1, <5>2
      <4>4. QED
        BY <4>2, <4>3
    <3>6. \A j \in 1..(i - 1) : Notifies(j)' => wire'[j].n < wire'[i].n
      BY <3>1, <3>3, <2>7
    <3>7. wire'[i].n \in (Got + 2)..sent
      BY <3>1, <3>2, <2>7, <1>2
    <3>8. QED
      BY <3>5, <3>6, <3>7
  <2>9. Complete'
    <3>1. \A j \in DOMAIN wire : j = 1 \/ (j - 1 \in DOMAIN wire' /\ (j - 1) + 1 = j)
      BY <1>1
    <3>2. ASSUME link # "broken", sent # Got + 1 PROVE \E j \in DOMAIN wire : j # 1 /\ Notifies(j) /\ wire[j].n = sent
      BY <3>2, <2>1, <2>2, <1>2 DEF Complete
    <3>3. QED
      BY <3>1, <3>2, <2>5, <2>7 DEF Complete
  <2>10. QED
    BY <1>1, <1>5, <2>4, <2>6, <2>8, <2>9 DEF Types
<1>6. QED
  BY <1>3, <1>4, <1>5

LEMMA LoopSteps ==
  ASSUME IInv, Loop
  PROVE  IInv'
<1>1. CASE OnOpen
  <2>1. /\ loop = "connecting" /\ loop' = "open"
        /\ UNCHANGED <<link, wire, sent, queue, taken, caller>>
    BY <1>1 DEF OnOpen, callerVars
  <2>2. sent = Got
    BY <2>1 DEF IInv, Types, Numbered, Got
  <2>3. QED
    BY <2>1, <2>2 DEF IInv, Types, Numbered, Got, OnTheWire, Complete, Notifies
<1>2. CASE OnMessage
  <2> DEFINE frame == Head(wire)
  <2>1. loop = "open" /\ wire # <<>>
    BY <1>2 DEF OnMessage
  <2>2. CASE frame.kind = "close" /\ LoopEnds
    BY <2>2, LoopEndsPreserves
  <2>3. CASE wire' = Tail(wire) /\ UNCHANGED <<loop, link, sent, callerVars>> /\ frame.kind # "notification"
    BY <2>1, <2>3, Handled DEF callerVars
  <2>4. CASE /\ wire' = Tail(wire) /\ UNCHANGED <<loop, link, sent, callerVars>>
             /\ frame.kind = "notification" /\ caller = "gone"
    BY <2>1, <2>4, Handled DEF callerVars
  <2>5. CASE /\ wire' = Tail(wire) /\ UNCHANGED <<loop, link, sent, taken, caller, sawEnd>>
             /\ frame.kind = "notification" /\ caller # "gone" /\ Enqueue(frame.n)
    BY <2>1, <2>5, Handled DEF Enqueue
  <2>6. QED
    BY <1>2, <2>2, <2>3, <2>4, <2>5 DEF OnMessage
<1>3. QED
  BY <1>1, <1>2, LoopEndsPreserves DEF Loop, ConnectionRefused, ConnectionFails, ObeyShutdown, ObeyClose

-----------------------------------------------------------------------------
LEMMA CallerSteps ==
  ASSUME IInv, Caller
  PROVE  IInv'
<1>1. CASE CallNext \/ NextNone
  <2>1. /\ UNCHANGED <<loop, link, wire, sent, queue, taken>>
        /\ caller # "gone" /\ caller' \in {"idle", "waiting"}
    BY <1>1 DEF CallNext, NextNone, nodeVars, loopVars
  <2>2. QED
    BY <2>1 DEF IInv, Types, Numbered, Got, OnTheWire, Complete, Notifies
<1>2. CASE NextSome
  <2>1. /\ UNCHANGED <<loop, link, wire, sent>> /\ caller = "waiting" /\ caller' = "idle"
        /\ queue # <<>> /\ taken' = Append(taken, Head(queue)) /\ queue' = Tail(queue)
    BY <1>2 DEF NextSome, nodeVars, loopVars
  <2>2. queue \in Seq(1..MaxNotifications) /\ taken \in Seq(1..MaxNotifications)
    BY DEF IInv, Types
  <2> DEFINE S == 1..MaxNotifications
  <2> HIDE DEF S
  <2>3. queue \in Seq(S) /\ taken \in Seq(S)
    BY <2>2 DEF S
  <2>4. /\ queue' \in Seq(S) /\ Len(queue) >= 1 /\ Len(queue') = Len(queue) - 1
        /\ Head(queue) \in S /\ Head(queue) = queue[1] /\ Len(queue) \in Nat
        /\ DOMAIN queue = 1..Len(queue) /\ DOMAIN queue' = 1..(Len(queue) - 1)
        /\ \A i \in 1..(Len(queue) - 1) : queue'[i] = queue[i + 1]
    BY <2>1, <2>3, TakenOff
  <2>5. /\ taken' \in Seq(S) /\ Len(taken') = Len(taken) + 1 /\ Len(taken) \in Nat
        /\ taken'[Len(taken) + 1] = Head(queue)
        /\ DOMAIN taken = 1..Len(taken) /\ DOMAIN taken' = 1..(Len(taken) + 1)
        /\ \A i \in DOMAIN taken : taken'[i] = taken[i]
    BY <2>1, <2>3, <2>4, Appended
  <2>6. Got' = Got
    BY <2>4, <2>5 DEF Got
  <2>7. Numbered'
    <3>1. queue[1] = Len(taken) + 1
      BY <2>4 DEF IInv, Numbered
    <3>2. \A i \in DOMAIN taken' : taken'[i] = i
      BY <2>4, <2>5, <3>1 DEF IInv, Numbered
    <3>3. \A i \in DOMAIN queue' : queue'[i] = Len(taken') + i
      <4>1. \A i \in 1..(Len(queue) - 1) : i + 1 \in DOMAIN queue
        BY <2>4
      <4>2. \A i \in 1..(Len(queue) - 1) : queue[i + 1] = Len(taken) + (i + 1)
        BY <4>1 DEF IInv, Numbered
      <4>3. QED
        BY <2>4, <2>5, <4>2
    <3>4. QED
      BY <2>1, <2>6, <3>2, <3>3 DEF IInv, Numbered
  <2>8. QED
    BY <2>1, <2>4, <2>5, <2>6, <2>7 DEF S, IInv, Types, OnTheWire, Complete, Notifies
<1>3. CASE Unsubscribe
  BY <1>3 DEF Unsubscribe, nodeVars, callerVars, IInv, Types, Numbered, Got, OnTheWire, Complete, Notifies
<1>4. CASE Drop
  <2>1. UNCHANGED <<loop, link, wire, sent, taken>> /\ caller' = "gone" /\ queue' = <<>>
    BY <1>4 DEF Drop, nodeVars
  <2>2. Got' <= Got /\ Got \in Nat /\ Got' \in Nat
    BY <2>1, Empty DEF IInv, Types, Got
  <2>3. QED
    BY <2>1, <2>2, Empty DEF IInv, Types, Numbered
<1>5. QED
  BY <1>1, <1>2, <1>3, <1>4 DEF Caller

LEMMA Invariance == Spec => []IInv
<1>1. IInv /\ [Next]_vars => IInv'
  <2>1. IInv /\ UNCHANGED vars => IInv'
    BY DEF IInv, Types, Numbered, Got, OnTheWire, Complete, Notifies, vars, nodeVars, loopVars, callerVars
  <2>2. QED
    BY <2>1, NodeSteps, LoopSteps, CallerSteps DEF Next
<1>2. QED
  BY <1>1, Initially, PTL DEF Spec

\* What the caller gets from next are the node's notifications, from the first on
\* and in order, for any number of them and of other messages.
THEOREM StreamInOrderWithoutGaps == Spec => []InOrderWithoutGaps
<1>1. IInv => InOrderWithoutGaps
  <2> SUFFICES ASSUME IInv PROVE InOrderWithoutGaps
    OBVIOUS
  <2>1. queue \in Seq(1..MaxNotifications) /\ taken \in Seq(1..MaxNotifications)
    BY DEF IInv, Types
  <2>2. /\ Len(taken \o queue) = Got /\ DOMAIN (taken \o queue) = 1..Got
        /\ Len(taken) \in Nat /\ Len(queue) \in Nat
        /\ DOMAIN taken = 1..Len(taken) /\ DOMAIN queue = 1..Len(queue)
        /\ \A i \in 1..Got : (taken \o queue)[i] = IF i <= Len(taken) THEN taken[i] ELSE queue[i - Len(taken)]
    BY <2>1 DEF Got
  <2>3. \A i \in 1..Got : i <= Len(taken) \/ (i - Len(taken)) \in DOMAIN queue
    BY <2>2 DEF Got
  <2>4. \A i \in 1..Got : (taken \o queue)[i] = i
    BY <2>2, <2>3 DEF IInv, Numbered
  <2>5. QED
    BY <2>2, <2>4 DEF IInv, Numbered, InOrderWithoutGaps
<1>2. QED
  BY <1>1, Invariance, PTL

\* The safety half of ImplementsStream: every step of the loop and of the caller is a
\* step that SubscriptionStream allows, or none it sees.
THEOREM StreamIsImplemented == Spec => Stream!Init /\ [][Stream!Next]_(Stream!vars)
<1>1. Init => Stream!Init
  BY DEF Init
<1>2. IInv /\ [Next]_vars => [Stream!Next]_(Stream!vars)
  <2> SUFFICES ASSUME IInv, [Next]_vars PROVE [Stream!Next]_(Stream!vars)
    OBVIOUS
  <2>1. CASE UNCHANGED vars
    BY <2>1 DEF vars, loopVars, callerVars, Stream!vars
  <2>2. CASE Node
    BY <2>2 DEF Node, NodeAnswers, NodeNotifies, NodeSendsNoise, NodeCloses, ConnectionBreaks, Send,
                loopVars, callerVars, Stream!vars
  <2>3. ASSUME LoopEnds, loop # "ended" PROVE Stream!Close
    BY <2>3 DEF LoopEnds, callerVars
  <2>4. CASE OnMessage
    <3>1. loop = "open" /\ wire # <<>> /\ Head(wire) \in Frame
      BY <2>4, TakenOff DEF OnMessage, IInv, Types
    <3>2. CASE LoopEnds
      BY <2>3, <3>1, <3>2 DEF Stream!Next
    <3>3. CASE UNCHANGED <<loop, callerVars>>
      BY <3>3 DEF callerVars, Stream!vars
    <3>4. CASE /\ Head(wire).kind = "notification" /\ caller # "gone" /\ Enqueue(Head(wire).n)
               /\ UNCHANGED <<loop, taken, caller, sawEnd>>
      <4>1. Head(wire).n \in 1..MaxNotifications
        BY <3>1, <3>4, Frames
      <4>2. Stream!Produce(Head(wire).n)
        BY <3>1, <3>4 DEF Enqueue
      <4>3. QED
        BY <4>1, <4>2 DEF Stream!Next
    <3>5. QED
      BY <2>4, <3>2, <3>3, <3>4 DEF OnMessage
  <2>5. CASE OnOpen
    BY <2>5 DEF OnOpen, callerVars, Stream!vars
  <2>6. CASE ConnectionRefused \/ ConnectionFails \/ ObeyShutdown \/ ObeyClose
    BY <2>3, <2>6 DEF ConnectionRefused, ConnectionFails, ObeyShutdown, ObeyClose, Stream!Next
  <2>7. CASE Caller
    BY <2>7 DEF Caller, CallNext, NextSome, NextNone, Unsubscribe, Drop, loopVars, callerVars,
                Stream!Next, Stream!vars
  <2>8. QED
    BY <2>1, <2>2, <2>4, <2>5, <2>6, <2>7 DEF Next, Loop
<1>3. QED
  BY <1>1, <1>2, Invariance, PTL DEF Spec
=============================================================================
