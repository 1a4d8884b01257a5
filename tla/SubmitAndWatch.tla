--------------------------- MODULE SubmitAndWatch ---------------------------
(***************************************************************************)
(* Api::submit_and_watch_extrinsic_until (src/api/rpc_api/author.rs) over  *)
(* a subscription to author_submitAndWatchExtrinsic: the caller takes the  *)
(* status notifications of its extrinsic one by one and stops at the first *)
(* one that decides.  The subscription is SubscriptionStream; the node's   *)
(* transaction pool, which is not part of the repository, drives it.       *)
(***************************************************************************)
EXTENDS Integers, Sequences

CONSTANTS
  Hash,               \* block hashes
  NoHash,             \* None
  WatchUntil,         \* the values of watch_until that are looked at
  MaxUpdates,         \* bound: statuses the pool gives the extrinsic
  MaxReconnects       \* bound: how often the client's thread reconnects

ASSUME WatchAssumption ==
  /\ NoHash \notin Hash
  /\ WatchUntil \subseteq {"Ready", "Broadcast", "InBlock", "Finalized"}
  /\ MaxUpdates \in Nat
  /\ MaxReconnects \in Nat

VARIABLES
  pool,         \* the extrinsic's status at the node, "unknown" before it is there
  block,        \* the block that includes the extrinsic, or NoHash
  updates,      \* statuses given so far
  request,      \* the request of the current session: "asked", "watched", "rejected"
  reconnects,   \* sessions lost so far
  queue, taken, closed, caller, sawEnd,   \* see SubscriptionStream
  watch_until,  \* the argument of the call
  pc,           \* the call: "next", "waiting", "check" or "done"
  result        \* what it has returned

poolVars == <<pool, block, updates, request, reconnects>>
streamVars == <<queue, taken, closed, caller, sawEnd>>
callVars == <<watch_until, pc, result>>
vars == <<poolVars, streamVars, callVars>>

TransactionStatus ==
  {"Future", "Ready", "Broadcast", "InBlock", "Retracted", "FinalityTimeout",
   "Finalized", "Usurped", "Dropped", "Invalid"}

\* A status as the caller gets it.  "Undecodable" is a notification that
\* serde_json cannot turn into a TransactionStatus.
Status == [status : TransactionStatus \cup {"Undecodable"}, hash : Hash \cup {NoHash}]

Stream == INSTANCE SubscriptionStream WITH Notification <- Status

-----------------------------------------------------------------------------
(* The statuses.                                                           *)

\* enum XtStatus
XtStatus == [Ready |-> 1, Broadcast |-> 2, InBlock |-> 4, Finalized |-> 6]

\* Variant of as_u8 that ranks a finality timeout with finality.
TimeoutRanksAsFinal(status) ==
  CASE status = "Ready" -> 1 [] status = "Broadcast" -> 2 [] status = "InBlock" -> 3
    [] status \in {"FinalityTimeout", "Finalized"} -> 6 [] OTHER -> 0

\* TransactionStatus::as_u8
as_u8(status) ==
  CASE status = "Future" -> 0
    [] status = "Ready" -> 1
    [] status = "Broadcast" -> 2
    [] status = "InBlock" -> 3
    [] status = "Retracted" -> 4
    [] status = "FinalityTimeout" -> 5
    [] status = "Finalized" -> 6
    [] status = "Usurped" -> 7
    [] status = "Dropped" -> 8
    [] status = "Invalid" -> 9

\* Variant of is_supported that lets a transaction dropped by the pool through.
DroppedIsSupported(status) == status \notin {"Future", "Usurped", "Retracted", "Invalid"}

\* TransactionStatus::is_supported
is_supported(status) ==
  status \in {"Ready", "Broadcast", "InBlock", "FinalityTimeout", "Finalized"}

\* Variant of the comparison in the loop that demands more than was asked for.
LaterThanRequested(status) == as_u8(status) > XtStatus[watch_until]

\* transaction_status.as_u8() >= watch_until as u8
IsReached(status) == as_u8(status) >= XtStatus[watch_until]

\* return_block_hash_if_available, for a status with a hash field
return_block_hash_if_available(s) ==
  IF s.status \in {"InBlock", "Retracted", "FinalityTimeout", "Finalized"} THEN s.hash ELSE NoHash

-----------------------------------------------------------------------------
Init ==
  /\ pool = "unknown" /\ block = NoHash /\ updates = 0
  /\ request = "asked" /\ reconnects = 0
  /\ Stream!Init
  /\ watch_until \in WatchUntil
  /\ pc = "next"
  /\ result = [kind |-> "none", hash |-> NoHash]

-----------------------------------------------------------------------------
(* The node, its transaction pool and the client's thread.                 *)

\* The node takes the extrinsic, for the first time or again after a
\* reconnection, which sends the request once more.
NodeAccepts ==
  /\ request = "asked"
  /\ pool \notin {"InBlock", "FinalityTimeout", "Finalized"}
  /\ request' = "watched"
  /\ pool' = "submitted"
  /\ UNCHANGED <<block, updates, reconnects, streamVars, callVars>>

\* The node answers with an error: the extrinsic is invalid, already in the
\* pool or outdated.  The client's thread skips every answer with an id.
NodeRejects ==
  /\ request = "asked"
  /\ request' = "rejected"
  /\ UNCHANGED <<pool, block, updates, reconnects, streamVars, callVars>>

\* The statuses the pool can give after another one; none after a final one.
Successors(status) ==
  CASE status = "submitted" -> {"Future", "Ready"}
    [] status = "Future" -> {"Ready", "Usurped", "Dropped", "Invalid"}
    [] status = "Ready" -> {"Future", "Broadcast", "InBlock", "Usurped", "Dropped", "Invalid"}
    [] status = "Broadcast" -> {"InBlock", "Usurped", "Dropped", "Invalid"}
    [] status = "InBlock" -> {"Retracted", "FinalityTimeout", "Finalized"}
    [] status = "Retracted" -> {"Future", "Ready", "InBlock", "Dropped", "Invalid"}
    [] OTHER -> {}

\* A status reaches the channel if the node serves the subscription, the
\* thread lives and the caller has not left; otherwise it is lost.
Notify(s) ==
  IF request = "watched" /\ ~closed /\ caller # "gone"
    THEN Stream!Produce(s)
    ELSE UNCHANGED streamVars

PoolMoves ==
  \E status \in Successors(pool), h \in Hash \cup {NoHash} :
    /\ CASE status = "InBlock" -> h \in Hash
         [] status \in {"Retracted", "FinalityTimeout", "Finalized"} -> h = block
         [] OTHER -> h = NoHash
    /\ updates < MaxUpdates
    /\ updates' = updates + 1
    /\ pool' = status
    /\ block' = IF status = "Retracted" THEN NoHash
                ELSE IF status = "InBlock" THEN h ELSE block
    /\ Notify([status |-> status, hash |-> h])
    /\ UNCHANGED <<request, reconnects, callVars>>

\* A notification the caller cannot decode (bound: one in a run).
NodeSendsUndecodable ==
  /\ request = "watched" /\ ~closed /\ caller # "gone"
  /\ \A i \in 1..Len(taken \o queue) : (taken \o queue)[i].status # "Undecodable"
  /\ Stream!Produce([status |-> "Undecodable", hash |-> NoHash])
  /\ UNCHANGED <<poolVars, callVars>>

\* The session fails and the client's thread reconnects and asks again.
SessionLost ==
  /\ ~closed
  /\ reconnects < MaxReconnects
  /\ reconnects' = reconnects + 1
  /\ request' = "asked"
  /\ UNCHANGED <<pool, block, updates, streamVars, callVars>>

\* The client's thread ends.
StreamCloses ==
  /\ Stream!Close
  /\ UNCHANGED <<poolVars, callVars>>

Environment ==
  \/ NodeAccepts
  \/ NodeRejects
  \/ PoolMoves
  \/ NodeSendsUndecodable
  \/ SessionLost
  \/ StreamCloses

-----------------------------------------------------------------------------
(* submit_and_watch_extrinsic_until.                                       *)

Return(kind, hash) ==
  /\ pc' = "done"
  /\ result' = [kind |-> kind, hash |-> hash]
  /\ UNCHANGED watch_until

\* while let Some(_) = subscription.next()
CallNext ==
  /\ pc = "next"
  /\ Stream!CallNext
  /\ pc' = "waiting"
  /\ UNCHANGED <<poolVars, watch_until, result>>

NextSome ==
  /\ pc = "waiting"
  /\ Stream!NextSome
  /\ pc' = "check"
  /\ UNCHANGED <<poolVars, watch_until, result>>

\* Variant that asks the ended stream again instead of leaving the loop.
AskAgainAtTheEnd ==
  /\ pc = "waiting"
  /\ Stream!NextNone
  /\ pc' = "next"
  /\ UNCHANGED <<poolVars, watch_until, result>>

\* The loop ends: Err(NoStream).
NextNone ==
  /\ pc = "waiting"
  /\ Stream!NextNone
  /\ Return("NoStream", NoHash)
  /\ UNCHANGED poolVars

current == taken[Len(taken)]

\* unsubscribe()? with the result to return when it succeeds.  It can fail,
\* with the ws client, once the event loop has ended; the subscription is
\* gone either way.
UnsubscribeAndReturn(kind, hash) ==
  /\ Stream!Unsubscribe
  /\ \/ Return(kind, hash)
     \/ /\ closed
        /\ Return("RpcClient", NoHash)

\* A status that is not supported ends the call with an error of its own.
RejectStatus == UnsubscribeAndReturn("Extrinsic", NoHash)

\* The body of the loop.  An undecodable status returns without unsubscribing
\* and drops the subscription.
CheckStatus ==
  /\ pc = "check"
  /\ UNCHANGED poolVars
  /\ \/ /\ current.status = "Undecodable"
        /\ Stream!Unsubscribe
        /\ Return("RpcClient", NoHash)
     \/ /\ current.status # "Undecodable" /\ is_supported(current.status)
        /\ IsReached(current.status)
        /\ UnsubscribeAndReturn("Ok", return_block_hash_if_available(current))
     \/ /\ current.status # "Undecodable" /\ is_supported(current.status)
        /\ ~IsReached(current.status)
        /\ pc' = "next"
        /\ UNCHANGED <<streamVars, watch_until, result>>
     \/ /\ current.status # "Undecodable" /\ ~is_supported(current.status)
        /\ RejectStatus

Call ==
  \/ CallNext
  \/ NextSome
  \/ NextNone
  \/ CheckStatus

-----------------------------------------------------------------------------
Next == Environment \/ Call

\* The call runs whenever next lets it; nothing makes the node answer.
Spec == Init /\ [][Next]_vars /\ WF_vars(Call)

-----------------------------------------------------------------------------
TypeOK ==
  /\ pool \in TransactionStatus \cup {"unknown", "submitted"}
  /\ block \in Hash \cup {NoHash}
  /\ updates \in 0..MaxUpdates
  /\ request \in {"asked", "watched", "rejected"}
  /\ reconnects \in 0..MaxReconnects
  /\ Stream!TypeOK
  /\ watch_until \in WatchUntil
  /\ pc \in {"next", "waiting", "check", "done"}
  /\ result \in [kind : {"none", "Ok", "NoStream", "RpcClient", "Extrinsic"},
                 hash : Hash \cup {NoHash}]

\* When the caller asked for finality and got Ok(Some(hash)), the node has
\* finalized the extrinsic in that very block.
FinalizedMeansFinal ==
  watch_until = "Finalized" /\ result.kind = "Ok" =>
    pool = "Finalized" /\ result.hash = block /\ block # NoHash

\* What the caller of submit_and_watch_extrinsic_until waits for, by the
\* meaning of the names and not of their numbers.
Reaches(status) ==
  CASE watch_until = "Ready" -> status \in {"Ready", "Broadcast", "InBlock", "FinalityTimeout", "Finalized"}
    [] watch_until = "Broadcast" -> status \in {"Broadcast", "InBlock", "FinalityTimeout", "Finalized"}
    [] watch_until = "InBlock" -> status \in {"InBlock", "FinalityTimeout", "Finalized"}
    [] watch_until = "Finalized" -> status = "Finalized"

\* author.rs:66-67: the extrinsic is watched "until the desired status is
\* reached": the call takes no further status after one that reaches it.
StopsWhenReached == \A i \in 1..(Len(taken) - 1) : ~Reaches(taken[i].status)

\* However the call ends, it has taken the status it ends with: an Ok means
\* the last status reaches what was asked for, and an Err does not hide it
\* unless unsubscribe failed.
ResultMatchesLastStatus ==
  /\ result.kind = "Ok" => Reaches(current.status)
  /\ result.kind \in {"Extrinsic", "NoStream"} =>
       (taken # <<>> => ~Reaches(current.status))

\* The statuses after which the pool gives no other, without FinalityTimeout
\* for a call that waits for more.
Final ==
  {"Finalized", "Usurped", "Dropped", "Invalid"}
    \cup (IF watch_until = "Finalized" THEN {} ELSE {"FinalityTimeout"})

\* What ends the call whatever it waits for (author.rs:66-67, "This method is
\* blocking"): the end of the stream, and the last status that the pool gives of
\* an extrinsic, once it is in the channel.  (The refusal of the request does not.)
CallEnds ==
  (closed \/ \E i \in 1..Len(queue) : queue[i].status \in Final) ~> pc = "done"
=============================================================================
