------------------------- MODULE SubscriptionStream -------------------------
(***************************************************************************)
(* What a subscription promises its caller (trait HandleSubscription,      *)
(* src/rpc/mod.rs), independent of the websocket library behind it: one    *)
(* producer, a queue, and one caller who takes notifications with next     *)
(* and finally unsubscribes.                                               *)
(*                                                                         *)
(*   - next hands out, in order and once each, what the producer put in;   *)
(*   - next returns None only when the producer is gone and nothing is     *)
(*     left, and then always;                                              *)
(*   - a caller blocked in next is not left there once there is something  *)
(*     to return, a notification or the end.                               *)
(*                                                                         *)
(* TungsteniteSubscription implements it, WsSubscription does too, and     *)
(* SubmitAndWatch runs on top of it.                                       *)
(***************************************************************************)
EXTENDS Sequences

CONSTANT Notification

VARIABLES
  queue,   \* produced and not yet taken: the content of the mpsc channel
  taken,   \* history: what next has handed out, in order
  closed,  \* no producer is left: the last Sender has been dropped
  caller,  \* "idle", "waiting" in next, or "gone" (unsubscribed or dropped)
  sawEnd   \* next has returned None

vars == <<queue, taken, closed, caller, sawEnd>>

Init ==
  /\ queue = <<>>
  /\ taken = <<>>
  /\ closed = FALSE
  /\ caller = "idle"
  /\ sawEnd = FALSE

\* A notification is put into the channel; impossible once the caller is gone.
Produce(notification) ==
  /\ ~closed
  /\ caller # "gone"
  /\ queue' = Append(queue, notification)
  /\ UNCHANGED <<taken, closed, caller, sawEnd>>

\* The producer ends.
Close ==
  /\ ~closed
  /\ closed' = TRUE
  /\ UNCHANGED <<queue, taken, caller, sawEnd>>

\* The caller enters next.
CallNext ==
  /\ caller = "idle"
  /\ caller' = "waiting"
  /\ UNCHANGED <<queue, taken, closed, sawEnd>>

\* next returns Some.
NextSome ==
  /\ caller = "waiting"
  /\ queue # <<>>
  /\ taken' = Append(taken, Head(queue))
  /\ queue' = Tail(queue)
  /\ caller' = "idle"
  /\ UNCHANGED <<closed, sawEnd>>

\* next returns None.
NextNone ==
  /\ caller = "waiting"
  /\ queue = <<>>
  /\ closed
  /\ caller' = "idle"
  /\ sawEnd' = TRUE
  /\ UNCHANGED <<queue, taken, closed>>

\* unsubscribe consumes the subscription, and so does dropping it: the
\* receiver goes, with what was still in the channel.
Unsubscribe ==
  /\ caller = "idle"
  /\ caller' = "gone"
  /\ queue' = <<>>
  /\ UNCHANGED <<taken, closed, sawEnd>>

Next ==
  \/ \E notification \in Notification : Produce(notification)
  \/ Close
  \/ CallNext
  \/ NextSome
  \/ NextNone
  \/ Unsubscribe

\* A blocked recv wakes up.
Fairness == WF_vars(NextSome) /\ WF_vars(NextNone)

Spec == Init /\ [][Next]_vars /\ Fairness

-----------------------------------------------------------------------------
TypeOK ==
  /\ queue \in Seq(Notification)
  /\ taken \in Seq(Notification)
  /\ closed \in BOOLEAN
  /\ caller \in {"idle", "waiting", "gone"}
  /\ sawEnd \in BOOLEAN
=============================================================================
