----------------------- MODULE SubmitAndWatch_proofs ------------------------
(***************************************************************************)
(* What an Ok of submit_and_watch_extrinsic_until means, for any number of *)
(* statuses, blocks and reconnections.                                     *)
(*                                                                         *)
(* The invariant has two halves.  Every status "Finalized" on its way to   *)
(* the caller is the truth at the node and stays it, which makes an Ok     *)
(* after waiting for finality final (Truth).  And while the loop runs it   *)
(* has passed over no status that reaches what was asked for (Passed),     *)
(* which holds because as_u8 and XtStatus agree on everything but InBlock: *)
(* a call that waits for that is left out by assumption.                   *)
(***************************************************************************)
EXTENDS SubmitAndWatch, TLAPS

USE DEF Stream!Init, Stream!Produce, Stream!Close, Stream!CallNext, Stream!NextSome,
        Stream!NextNone, Stream!Unsubscribe, Stream!TypeOK

\* What is known of a message that says "Finalized".
True(s) == s.status = "Finalized" => pool = "Finalized" /\ s.hash = block

Truth ==
  /\ pool \in {"InBlock", "FinalityTimeout", "Finalized"} => block # NoHash
  /\ \A i \in DOMAIN queue : True(queue[i])
  /\ \A i \in DOMAIN taken : True(taken[i])

\* Where the call is and what it has.
Control ==
  /\ pc # "done" => result.kind = "none"
  /\ pc = "check" => taken # <<>>

\* The statuses that the loop went on after, and the one that it stopped at.
Passed ==
  /\ StopsWhenReached
  /\ pc \in {"next", "waiting"} => \A i \in DOMAIN taken : ~Reaches(taken[i].status)
  /\ ResultMatchesLastStatus

IInv == TypeOK /\ Truth /\ Control /\ FinalizedMeansFinal

-----------------------------------------------------------------------------
\* The empty sequence is a sequence of anything and has no element.
LEMMA Empty == \A S : <<>> \in Seq(S) /\ DOMAIN <<>> = {}
OBVIOUS

\* Appending to a sequence, and taking its head, keeps what is known of its messages.
LEMMA Appended ==
  ASSUME NEW S, NEW s \in Seq(S), NEW x \in S
  PROVE  /\ Append(s, x) \in Seq(S)
         /\ Len(Append(s, x)) = Len(s) + 1 /\ Append(s, x)[Len(s) + 1] = x
         /\ \A i \in DOMAIN s : Append(s, x)[i] = s[i]
         /\ \A i \in DOMAIN Append(s, x) : Append(s, x)[i] = x \/ \E j \in DOMAIN s : i = j /\ Append(s, x)[i] = s[j]
OBVIOUS

LEMMA TakenOff ==
  ASSUME NEW S, NEW s \in Seq(S), s # <<>>
  PROVE  /\ Head(s) \in S /\ 1 \in DOMAIN s /\ Head(s) = s[1]
         /\ Tail(s) \in Seq(S)
         /\ \A i \in DOMAIN Tail(s) : \E j \in DOMAIN s : Tail(s)[i] = s[j]
OBVIOUS

\* The last message of a sequence that is not empty.
LEMMA LastIn ==
  ASSUME NEW S, NEW s \in Seq(S), s # <<>>
  PROVE  Len(s) \in DOMAIN s /\ s[Len(s)] \in S
OBVIOUS

-----------------------------------------------------------------------------
LEMMA Initially == Init => IInv
<1> SUFFICES ASSUME Init PROVE IInv
  OBVIOUS
<1>1. TypeOK
  <2>1. queue \in Seq(Status) /\ taken \in Seq(Status)
    BY Empty DEF Init
  <2>2. updates \in 0..MaxUpdates /\ reconnects \in 0..MaxReconnects
    BY WatchAssumption DEF Init
  <2>3. QED
    BY <2>1, <2>2 DEF Init, TypeOK
<1>2. Truth
  BY Empty DEF Init, Truth
<1>3. Control /\ FinalizedMeansFinal
  BY DEF Init, Control, FinalizedMeansFinal
<1>4. QED
  BY <1>1, <1>2, <1>3 DEF IInv

-----------------------------------------------------------------------------
\* A status that the pool gives: Finalized only in a known block, and for good.
LEMMA PoolStep ==
  ASSUME IInv, PoolMoves
  PROVE  IInv'
<1> PICK status \in Successors(pool), h \in Hash \cup {NoHash} :
      /\ CASE status = "InBlock" -> h \in Hash
           [] status \in {"Retracted", "FinalityTimeout", "Finalized"} -> h = block
           [] OTHER -> h = NoHash
      /\ updates < MaxUpdates
      /\ updates' = updates + 1
      /\ pool' = status
      /\ block' = IF status = "Retracted" THEN NoHash
                  ELSE IF status = "InBlock" THEN h ELSE block
      /\ Notify([status |-> status, hash |-> h])
      /\ UNCHANGED <<request, reconnects, callVars>>
  BY DEF PoolMoves
<1> DEFINE s == [status |-> status, hash |-> h]
<1>1. /\ status \in TransactionStatus /\ pool # "Finalized"
      /\ status \in {"FinalityTimeout", "Finalized"} => pool = "InBlock"
  BY DEF IInv, TypeOK, Successors, TransactionStatus
<1>2. s \in Status
  BY <1>1 DEF Status
<1>3. UNCHANGED <<taken, closed, caller, sawEnd>> /\ queue' \in {queue, Append(queue, s)}
  BY DEF Notify, streamVars
<1>4. queue' \in Seq(Status)
  <2>1. queue \in Seq(Status)
    BY DEF IInv, TypeOK
  <2>2. Append(queue, s) \in Seq(Status)
    BY <1>2, <2>1, Appended
  <2>3. QED
    BY <1>3, <2>1, <2>2
<1>5. TypeOK'
  <2>1. pool' \in TransactionStatus /\ block' \in Hash \cup {NoHash} /\ updates' \in 0..MaxUpdates
    BY <1>1, WatchAssumption DEF IInv, TypeOK
  <2>2. QED
    BY <1>3, <1>4, <2>1 DEF IInv, TypeOK, callVars
<1>6. pool' \in {"InBlock", "FinalityTimeout", "Finalized"} => block' # NoHash
  BY <1>1, WatchAssumption DEF IInv, Truth
<1>7. True(s)'
  BY <1>1 DEF True
<1>8. \A x : True(x) => True(x)'
  BY <1>1 DEF True
<1>9. \A i \in DOMAIN queue' : True(queue[i])'
  <2>1. \A i \in DOMAIN queue' : queue'[i] = s \/ \E j \in DOMAIN queue : queue'[i] = queue[j]
    <3>1. CASE queue' = queue
      BY <3>1
    <3>2. CASE queue' = Append(queue, s)
      BY <1>2, <3>2, Appended DEF IInv, TypeOK
    <3>3. QED
      BY <1>3, <3>1, <3>2
  <2>2. QED
    BY <2>1, <1>7, <1>8 DEF IInv, Truth, True
<1>10. Truth'
  BY <1>3, <1>6, <1>8, <1>9 DEF IInv, Truth, True
<1>11. Control' /\ FinalizedMeansFinal'
  BY <1>1, <1>3 DEF IInv, Control, FinalizedMeansFinal, callVars
<1>12. QED
  BY <1>5, <1>10, <1>11 DEF IInv

\* A notification that cannot be decoded says nothing of finality.
LEMMA UndecodableStep ==
  ASSUME IInv, NodeSendsUndecodable
  PROVE  IInv'
<1> DEFINE s == [status |-> "Undecodable", hash |-> NoHash]
<1>1. /\ queue' = Append(queue, s)
      /\ UNCHANGED <<taken, closed, caller, sawEnd, poolVars, callVars>>
  BY DEF NodeSendsUndecodable
<1>2. s \in Status
  BY DEF Status
<1>3. queue' \in Seq(Status)
      /\ \A i \in DOMAIN queue' : queue'[i] = s \/ \E j \in DOMAIN queue : queue'[i] = queue[j]
  BY <1>1, <1>2, Appended DEF IInv, TypeOK
<1>4. TypeOK'
  BY <1>1, <1>3 DEF IInv, TypeOK, poolVars, callVars
<1>5. Truth'
  BY <1>1, <1>3 DEF IInv, Truth, True, poolVars
<1>6. QED
  BY <1>1, <1>4, <1>5 DEF IInv, Control, FinalizedMeansFinal, poolVars, callVars

\* The other steps of the node and of the client's thread move no message; the
\* extrinsic cannot be taken again once it is in a block.
LEMMA OtherEnvironmentSteps ==
  ASSUME IInv, NodeAccepts \/ NodeRejects \/ SessionLost \/ StreamCloses
  PROVE  IInv'
<1>1. TypeOK'
  <2>1. CASE NodeAccepts
    BY <2>1 DEF IInv, TypeOK, NodeAccepts, streamVars, callVars
  <2>2. CASE NodeRejects
    BY <2>2 DEF IInv, TypeOK, NodeRejects, streamVars, callVars
  <2>3. CASE SessionLost
    BY <2>3, WatchAssumption DEF IInv, TypeOK, SessionLost, streamVars, callVars
  <2>4. CASE StreamCloses
    BY <2>4 DEF IInv, TypeOK, StreamCloses, poolVars, callVars
  <2>5. QED
    BY <2>1, <2>2, <2>3, <2>4
<1>2. Truth'
  BY DEF IInv, Truth, True, NodeAccepts, NodeRejects, SessionLost, StreamCloses,
    poolVars, streamVars, callVars
<1>3. Control' /\ FinalizedMeansFinal'
  BY DEF IInv, Control, FinalizedMeansFinal, NodeAccepts, NodeRejects, SessionLost, StreamCloses,
    poolVars, streamVars, callVars
<1>4. QED
  BY <1>1, <1>2, <1>3 DEF IInv

-----------------------------------------------------------------------------
\* next hands out the head of the queue.
LEMMA NextSomeStep ==
  ASSUME IInv, NextSome
  PROVE  IInv'
<1>1. /\ queue # <<>> /\ taken' = Append(taken, Head(queue)) /\ queue' = Tail(queue)
      /\ caller' = "idle" /\ pc' = "check"
      /\ UNCHANGED <<closed, sawEnd, poolVars, watch_until, result>>
  BY DEF NextSome
<1>2. /\ queue' \in Seq(Status) /\ Head(queue) \in Status /\ True(Head(queue))
      /\ \A i \in DOMAIN queue' : \E j \in DOMAIN queue : queue'[i] = queue[j]
  BY <1>1, TakenOff DEF IInv, TypeOK, Truth
<1>3. /\ taken' \in Seq(Status) /\ taken' # <<>>
      /\ \A i \in DOMAIN taken' : taken'[i] = Head(queue) \/ \E j \in DOMAIN taken : taken'[i] = taken[j]
  <2>1. taken \in Seq(Status)
    BY DEF IInv, TypeOK
  <2>2. taken' \in Seq(Status) /\ Len(taken') = Len(taken) + 1
    BY <1>1, <1>2, <2>1, Appended
  <2>3. taken' # <<>>
    BY <2>1, <2>2
  <2>4. QED
    BY <1>1, <1>2, <2>1, <2>2, <2>3, Appended
<1>4. TypeOK'
  BY <1>1, <1>2, <1>3 DEF IInv, TypeOK, poolVars
<1>5. Truth'
  BY <1>1, <1>2, <1>3 DEF IInv, Truth, True, poolVars
<1>6. Control' /\ FinalizedMeansFinal'
  BY <1>1, <1>3 DEF IInv, TypeOK, Control, FinalizedMeansFinal, poolVars, NextSome
<1>7. QED
  BY <1>4, <1>5, <1>6 DEF IInv

LEMMA NextSteps ==
  ASSUME IInv, CallNext \/ NextNone
  PROVE  IInv'
<1>1. TypeOK'
  <2>1. CASE CallNext
    BY <2>1 DEF IInv, TypeOK, CallNext, poolVars
  <2>2. CASE NextNone
    BY <2>2 DEF IInv, TypeOK, NextNone, Return, poolVars
  <2>3. QED
    BY <2>1, <2>2
<1>2. Truth'
  BY DEF IInv, Truth, True, CallNext, NextNone, poolVars
<1>3. Control' /\ FinalizedMeansFinal'
  BY DEF IInv, Control, FinalizedMeansFinal, CallNext, NextNone, Return, poolVars
<1>4. QED
  BY <1>1, <1>2, <1>3 DEF IInv

\* The loop's body returns Ok for finality only on a status Finalized.
LEMMA CheckStep ==
  ASSUME IInv, CheckStatus
  PROVE  IInv'
<1>1. current \in Status /\ True(current)
  BY LastIn DEF IInv, TypeOK, Control, Truth, CheckStatus, current
<1>2. /\ pc = "check" /\ UNCHANGED <<pool, block, updates, request, reconnects, taken, closed, sawEnd, watch_until>>
      /\ queue' \in {queue, <<>>} /\ caller' \in {caller, "gone"}
      /\ pc' \in {"next", "done"}
      /\ pc' = "next" => UNCHANGED result
  BY DEF CheckStatus, RejectStatus, UnsubscribeAndReturn, Return, poolVars, streamVars
<1>3. result' = result \/ \E kind \in {"Ok", "RpcClient", "Extrinsic"}, h \in Hash \cup {NoHash} :
        /\ result' = [kind |-> kind, hash |-> h]
        /\ kind = "Ok" => /\ is_supported(current.status) /\ IsReached(current.status)
                          /\ h = return_block_hash_if_available(current)
  <2>1. return_block_hash_if_available(current) \in Hash \cup {NoHash}
    BY <1>1 DEF return_block_hash_if_available, Status
  <2>2. QED
    BY <2>1 DEF CheckStatus, RejectStatus, UnsubscribeAndReturn, Return
<1>4. TypeOK'
  <2>1. queue' \in Seq(Status)
    BY <1>2, Empty DEF IInv, TypeOK
  <2>2. result' \in [kind : {"none", "Ok", "NoStream", "RpcClient", "Extrinsic"}, hash : Hash \cup {NoHash}]
    BY <1>3 DEF IInv, TypeOK
  <2>3. QED
    BY <1>2, <2>1, <2>2 DEF IInv, TypeOK
<1>5. Truth'
  BY <1>2 DEF IInv, Truth, True
<1>6. Control'
  BY <1>2 DEF IInv, Control
<1>7. FinalizedMeansFinal'
  <2> SUFFICES ASSUME watch_until = "Finalized", result'.kind = "Ok"
               PROVE  pool = "Finalized" /\ result'.hash = block /\ block # NoHash
    BY <1>2 DEF FinalizedMeansFinal
  <2>1. result # result'
    BY <1>2 DEF IInv, Control
  <2>2. /\ is_supported(current.status) /\ IsReached(current.status)
        /\ result'.hash = return_block_hash_if_available(current)
    BY <1>3, <2>1
  <2>3. current.status = "Finalized"
    BY <2>2 DEF is_supported, IsReached, as_u8, XtStatus
  <2>4. pool = "Finalized" /\ result'.hash = block
    BY <1>1, <2>2, <2>3 DEF True, return_block_hash_if_available
  <2>5. QED
    BY <2>4 DEF IInv, Truth
<1>8. QED
  BY <1>4, <1>5, <1>6, <1>7 DEF IInv

LEMMA Steps == IInv /\ [Next]_vars => IInv'
<1> SUFFICES ASSUME IInv, [Next]_vars PROVE IInv'
  OBVIOUS
<1>1. CASE UNCHANGED vars
  BY <1>1 DEF vars, poolVars, streamVars, callVars, IInv, TypeOK, Truth, True, Control,
    FinalizedMeansFinal
<1>2. CASE Environment
  BY <1>2, PoolStep, UndecodableStep, OtherEnvironmentSteps DEF Environment
<1>3. CASE Call
  BY <1>3, NextSomeStep, NextSteps, CheckStep DEF Call
<1>4. QED
  BY <1>1, <1>2, <1>3 DEF Next

-----------------------------------------------------------------------------
LEMMA Invariance == Spec => []IInv
BY Initially, Steps, PTL DEF Spec

(***************************************************************************)
(* Each variable keeps its type: no more statuses than the bound, and what *)
(* the channel and the call hold is a status or a result.                  *)
(***************************************************************************)
THEOREM TypeCorrect == Spec => []TypeOK
<1>1. IInv => TypeOK
  BY DEF IInv
<1>2. QED
  BY Invariance, <1>1, PTL

(***************************************************************************)
(* An Ok of a call that waited for finality names the block that has the   *)
(* extrinsic and is final, whatever was lost or sent twice on the way.     *)
(***************************************************************************)
THEOREM OkAfterFinalityIsFinal == Spec => []FinalizedMeansFinal
<1>1. IInv => FinalizedMeansFinal
  BY DEF IInv
<1>2. QED
  BY Invariance, <1>1, PTL

-----------------------------------------------------------------------------
\* What the loop compares is what the names mean, unless it waits for InBlock.
LEMMA ComparisonIsRight ==
  ASSUME "InBlock" \notin WatchUntil, TypeOK, NEW status \in TransactionStatus
  PROVE  Reaches(status) <=> is_supported(status) /\ IsReached(status)
<1>1. watch_until \in {"Ready", "Broadcast", "Finalized"}
  BY WatchAssumption DEF TypeOK
<1>2. CASE watch_until = "Ready"
  BY <1>2 DEF TransactionStatus, Reaches, is_supported, IsReached, as_u8, XtStatus
<1>3. CASE watch_until = "Broadcast"
  BY <1>3 DEF TransactionStatus, Reaches, is_supported, IsReached, as_u8, XtStatus
<1>4. CASE watch_until = "Finalized"
  BY <1>4 DEF TransactionStatus, Reaches, is_supported, IsReached, as_u8, XtStatus
<1>5. QED
  BY <1>1, <1>2, <1>3, <1>4

\* A step that takes nothing and does not return leaves Passed alone.
LEMMA PassedKept ==
  ASSUME Passed, UNCHANGED <<taken, watch_until, result>>,
         pc' \in {"next", "waiting"} => pc \in {"next", "waiting"}
  PROVE  Passed'
BY DEF Passed, StopsWhenReached, ResultMatchesLastStatus, Reaches, current

LEMMA PassedNextSome ==
  ASSUME IInv, Passed, NextSome
  PROVE  Passed'
<1>1. /\ pc = "waiting" /\ pc' = "check" /\ queue # <<>>
      /\ taken' = Append(taken, Head(queue)) /\ UNCHANGED <<watch_until, result>>
  BY DEF NextSome
<1>2. taken \in Seq(Status) /\ Head(queue) \in Status /\ result.kind = "none"
  BY <1>1, TakenOff DEF IInv, TypeOK, Control
<1>3. Len(taken') = Len(taken) + 1 /\ \A i \in DOMAIN taken : taken'[i] = taken[i]
  BY <1>1, <1>2, Appended
<1>4. StopsWhenReached'
  <2> SUFFICES ASSUME NEW i \in 1..(Len(taken') - 1) PROVE (~Reaches(taken[i].status))'
    BY DEF StopsWhenReached
  <2>1. i \in DOMAIN taken /\ taken'[i] = taken[i]
    BY <1>2, <1>3
  <2>2. ~Reaches(taken[i].status)
    BY <1>1, <2>1 DEF Passed
  <2>3. QED
    BY <1>1, <2>1, <2>2 DEF Reaches
<1>5. QED
  BY <1>1, <1>2, <1>4 DEF Passed, ResultMatchesLastStatus

LEMMA PassedNextNone ==
  ASSUME IInv, Passed, NextNone
  PROVE  Passed'
<1>1. /\ pc = "waiting" /\ pc' = "done" /\ UNCHANGED <<taken, watch_until>>
      /\ result' = [kind |-> "NoStream", hash |-> NoHash]
  BY DEF NextNone, Return
<1>2. taken # <<>> => ~Reaches(current.status)
  BY <1>1, LastIn DEF IInv, TypeOK, Passed, current
<1>3. QED
  BY <1>1, <1>2 DEF Passed, StopsWhenReached, ResultMatchesLastStatus, Reaches, current

\* The body of the loop goes on only past a status that does not reach.
LEMMA PassedCheck ==
  ASSUME "InBlock" \notin WatchUntil, IInv, Passed, CheckStatus
  PROVE  Passed'
<1>1. /\ UNCHANGED <<taken, watch_until>>
      /\ pc = "check" /\ taken # <<>> /\ taken \in Seq(Status)
      /\ pc' \in {"next", "done"}
  BY DEF CheckStatus, RejectStatus, UnsubscribeAndReturn, Return, IInv, TypeOK, Control, streamVars
<1>2. current \in Status
  BY <1>1, LastIn DEF current
<1>3. current.status # "Undecodable" =>
        (Reaches(current.status) <=> is_supported(current.status) /\ IsReached(current.status))
  BY <1>2, ComparisonIsRight DEF Status, IInv
<1>4. ASSUME pc' = "next"
      PROVE  ~Reaches(current.status) /\ result'.kind = "none"
  BY <1>1, <1>3, <1>4 DEF CheckStatus, RejectStatus, UnsubscribeAndReturn, Return, IInv, Control
<1>5. /\ result'.kind = "Ok" => Reaches(current.status)
      /\ result'.kind \in {"Extrinsic", "NoStream"} => ~Reaches(current.status)
  BY <1>1, <1>3 DEF CheckStatus, RejectStatus, UnsubscribeAndReturn, Return, IInv, Control
<1>6. \A status : Reaches(status)' <=> Reaches(status)
  BY <1>1 DEF Reaches
<1>7. StopsWhenReached' /\ ResultMatchesLastStatus'
  BY <1>1, <1>5 DEF Passed, StopsWhenReached, ResultMatchesLastStatus, Reaches, current
<1>8. pc' = "next" => \A i \in DOMAIN taken : ~Reaches(taken[i].status)
  <2> SUFFICES ASSUME pc' = "next", NEW i \in DOMAIN taken PROVE ~Reaches(taken[i].status)
    OBVIOUS
  <2>1. CASE i = Len(taken)
    BY <1>4, <2>1 DEF current
  <2>2. CASE i # Len(taken)
    BY <1>1, <2>2 DEF Passed, StopsWhenReached
  <2>3. QED
    BY <2>1, <2>2
<1>9. QED
  BY <1>1, <1>7, <1>8 DEF Passed, Reaches

LEMMA PassedInvariance ==
  ASSUME "InBlock" \notin WatchUntil
  PROVE  Spec => []Passed
<1>1. Init => Passed
  BY Empty DEF Init, Passed, StopsWhenReached, ResultMatchesLastStatus
<1>2. IInv /\ Passed /\ [Next]_vars => Passed'
  <2> SUFFICES ASSUME IInv, Passed, [Next]_vars PROVE Passed'
    OBVIOUS
  <2>1. CASE UNCHANGED vars
    BY <2>1, PassedKept DEF vars, streamVars, callVars
  <2>2. CASE Environment
    <3>1. UNCHANGED <<taken, watch_until, result, pc>>
      BY <2>2 DEF Environment, NodeAccepts, NodeRejects, PoolMoves, Notify, NodeSendsUndecodable,
        SessionLost, StreamCloses, streamVars, callVars
    <3>2. QED
      BY <3>1, PassedKept
  <2>3. CASE CallNext
    BY <2>3, PassedKept DEF CallNext
  <2>4. CASE NextSome
    BY <2>4, PassedNextSome
  <2>5. CASE NextNone
    BY <2>5, PassedNextNone
  <2>6. CASE CheckStatus
    BY <2>6, PassedCheck
  <2>7. QED
    BY <2>1, <2>2, <2>3, <2>4, <2>5, <2>6 DEF Next, Call
<1>3. QED
  BY <1>1, <1>2, Invariance, PTL DEF Spec

(***************************************************************************)
(* A call that does not wait for InBlock takes no status after one that    *)
(* reaches what it waits for (author.rs:66-67).                            *)
(***************************************************************************)
THEOREM StopsInTime ==
  ASSUME "InBlock" \notin WatchUntil
  PROVE  Spec => []StopsWhenReached
<1>1. Passed => StopsWhenReached
  BY DEF Passed
<1>2. QED
  BY PassedInvariance, <1>1, PTL

(***************************************************************************)
(* And what it returns agrees with the last status that it took.           *)
(***************************************************************************)
THEOREM ResultIsRight ==
  ASSUME "InBlock" \notin WatchUntil
  PROVE  Spec => []ResultMatchesLastStatus
<1>1. Passed => ResultMatchesLastStatus
  BY DEF Passed
<1>2. QED
  BY PassedInvariance, <1>1, PTL
=============================================================================
