--------------------------- MODULE WsSubscription ---------------------------
(***************************************************************************)
(* One subscription of the ws client: WsRpcClient::subscribe               *)
(* (src/rpc/ws_client/client.rs), the callbacks RpcClient::on_open and     *)
(* on_message with SubscriptionHandler (ws_client/mod.rs), and             *)
(* WsSubscriptionWrapper (ws_client/subscription.rs).                      *)
(*                                                                         *)
(* The spawned thread runs the event loop of the ws library, which is not  *)
(* part of the repository: it calls the handler for every message, obeys   *)
(* a shutdown sent through a ws::Sender, and ends with its connection.     *)
(* When it ends, the last sender of the mpsc channel goes with it.         *)
(* Messages are reduced to what the handler tells apart, as in             *)
(* TungsteniteSubscription; there is one session and no reconnection.      *)
(***************************************************************************)
EXTENDS Integers, Sequences

CONSTANTS
  MaxNotifications,  \* bound: notifications the node sends
  MaxNoise           \* bound: malformed messages and control frames

ASSUME WsAssumption == MaxNotifications \in Nat /\ MaxNoise \in Nat

VARIABLES
  loop,      \* the event loop: "connecting", "open" or "ended"
  node,      \* "idle", "asked", "serving" or "rejected"
  link,      \* "up", "closing" once the node closes, or "broken"
  wire,      \* messages sent by the node and not yet seen by the loop
  sent,      \* notifications sent so far
  noise,     \* malformed messages and control frames sent so far
  shutdown,  \* a shutdown is in the loop's command queue
  closing,   \* a close is in the loop's command queue
  leaving,   \* the caller is inside unsubscribe
  outcome,   \* what unsubscribe has returned, "none" before
  queue, taken, caller, sawEnd   \* see SubscriptionStream

nodeVars == <<node, link, wire, sent, noise>>
loopVars == <<loop, shutdown, closing>>
leaveVars == <<leaving, outcome>>
callerVars == <<queue, taken, caller, sawEnd>>
vars == <<nodeVars, loopVars, leaveVars, callerVars>>

Stream == INSTANCE SubscriptionStream WITH
            Notification <- 1..MaxNotifications,
            closed <- loop = "ended"

Kind == {"notification", "answer", "malformed", "control", "close"}
Frame == [kind : Kind \ {"notification"}, n : {0}] \cup [kind : {"notification"}, n : 1..MaxNotifications]
Message(kind) == [kind |-> kind, n |-> 0]

-----------------------------------------------------------------------------
\* subscribe has built the socket, queued the connection, kept a broadcaster
\* and spawned the thread.
Init ==
  /\ loop = "connecting" /\ shutdown = FALSE /\ closing = FALSE
  /\ node = "idle" /\ link = "up" /\ wire = <<>> /\ sent = 0 /\ noise = 0
  /\ leaving = FALSE /\ outcome = "none"
  /\ queue = <<>> /\ taken = <<>> /\ caller = "idle" /\ sawEnd = FALSE

-----------------------------------------------------------------------------
(* The node and the network.                                               *)

Send(frame) ==
  /\ loop = "open" /\ link = "up"
  /\ wire' = Append(wire, frame)
  /\ UNCHANGED <<loopVars, leaveVars, callerVars>>

\* The node answers the request, with a subscription or with an error.
NodeAnswers ==
  /\ node = "asked"
  /\ node' \in {"serving", "rejected"}
  /\ Send(Message("answer"))
  /\ UNCHANGED <<link, sent, noise>>

NodeNotifies ==
  /\ node = "serving" /\ sent < MaxNotifications
  /\ sent' = sent + 1
  /\ Send([kind |-> "notification", n |-> sent'])
  /\ UNCHANGED <<node, link, noise>>

NodeSendsNoise ==
  /\ noise < MaxNoise
  /\ noise' = noise + 1
  /\ \E kind \in {"malformed", "control"} : Send(Message(kind))
  /\ UNCHANGED <<node, link, sent>>

NodeCloses ==
  /\ Send(Message("close"))
  /\ link' = "closing"
  /\ UNCHANGED <<node, sent, noise>>

ConnectionBreaks ==
  /\ loop = "open" /\ link \in {"up", "closing"}
  /\ link' = "broken"
  /\ \E k \in 0..Len(wire) : wire' = SubSeq(wire, 1, k)
  /\ UNCHANGED <<node, sent, noise, loopVars, leaveVars, callerVars>>

Node ==
  \/ NodeAnswers
  \/ NodeNotifies
  \/ NodeSendsNoise
  \/ NodeCloses
  \/ ConnectionBreaks

-----------------------------------------------------------------------------
(* The event loop and the handler.                                         *)

\* The thread returns from run: the connection, its handler and the factory
\* are dropped, and with them every sender of the channel.
LoopEnds ==
  /\ loop' = "ended"
  /\ wire' = <<>>
  /\ UNCHANGED <<shutdown, closing, node, link, sent, noise, leaveVars, callerVars>>

\* on_open sends the request.
OnOpen ==
  /\ loop = "connecting"
  /\ loop' = "open"
  /\ node' = "asked"
  /\ UNCHANGED <<shutdown, closing, link, wire, sent, noise, leaveVars, callerVars>>

ConnectionRefused == loop = "connecting" /\ LoopEnds

\* Variant of the channel that has room for one message and drops what does not fit.
TryEnqueue(n) == queue' = IF queue = <<>> THEN <<n>> ELSE queue

\* result.send on an unbounded mpsc channel.
Enqueue(n) == queue' = Append(queue, n)

\* One message, given to on_message and handle_message.  A notification for a
\* caller who has left asks the loop to close.  What the library does about a
\* malformed one is its own affair: it goes on or closes the connection.
OnMessage ==
  /\ loop = "open" /\ wire # <<>>
  /\ LET frame == Head(wire)
         Skipped == wire' = Tail(wire) /\ UNCHANGED <<node, link, sent, noise, leaveVars, loop, shutdown>>
     IN  \/ /\ frame.kind \in {"answer", "control", "malformed"}
            /\ Skipped
            /\ UNCHANGED <<closing, callerVars>>
         \/ /\ frame.kind = "malformed"
            /\ Skipped
            /\ closing' = TRUE
            /\ UNCHANGED callerVars
         \/ /\ frame.kind = "notification" /\ caller # "gone"
            /\ Skipped
            /\ Enqueue(frame.n)
            /\ UNCHANGED <<closing, taken, caller, sawEnd>>
         \/ /\ frame.kind = "notification" /\ caller = "gone"
            /\ Skipped
            /\ closing' = TRUE
            /\ UNCHANGED callerVars
         \/ /\ frame.kind = "close"
            /\ LoopEnds

\* The loop notices the broken connection after the last message it got.
ConnectionFails == loop = "open" /\ link = "broken" /\ wire = <<>> /\ LoopEnds

\* The loop takes a shutdown or a close from its command queue.
ObeyShutdown == loop # "ended" /\ shutdown /\ LoopEnds
ObeyClose == loop = "open" /\ closing /\ LoopEnds

Loop ==
  \/ OnOpen
  \/ ConnectionRefused
  \/ OnMessage
  \/ ConnectionFails
  \/ ObeyShutdown
  \/ ObeyClose

-----------------------------------------------------------------------------
(* The caller.                                                             *)

CallNext ==
  /\ ~leaving
  /\ UNCHANGED <<nodeVars, loopVars, leaveVars>>
  /\ Stream!CallNext

NextSome == UNCHANGED <<nodeVars, loopVars, leaveVars>> /\ Stream!NextSome

\* Variant of next that does not wait for the senders to be dropped (try_recv).
NextNoneIfEmpty ==
  /\ caller = "waiting" /\ queue = <<>>
  /\ caller' = "idle" /\ sawEnd' = TRUE
  /\ UNCHANGED <<nodeVars, loopVars, leaveVars, queue, taken>>

NextNone == UNCHANGED <<nodeVars, loopVars, leaveVars>> /\ Stream!NextNone

\* Variant of shutdown on a sender that only drops the receiver.
NoShutdown == UNCHANGED shutdown

\* ws_sender.shutdown(): the command is queued, or refused by an ended loop.
SendShutdown == shutdown' = (shutdown \/ loop # "ended")

\* unsubscribe: shutdown()?, and then, or on the error, the wrapper is dropped.
Unsubscribe ==
  /\ caller = "idle" /\ ~leaving
  /\ leaving' = TRUE
  /\ outcome' = IF loop # "ended" THEN "Ok" ELSE "Err"
  /\ SendShutdown
  /\ UNCHANGED <<nodeVars, loop, closing, callerVars>>

\* The wrapper's Drop shuts down (once more after unsubscribe, then its error
\* is only logged), and the receiver is dropped after it.
Drop ==
  /\ UNCHANGED <<nodeVars, loop, closing, outcome>>
  /\ leaving' = FALSE
  /\ SendShutdown
  /\ Stream!Unsubscribe

Caller ==
  \/ CallNext
  \/ NextSome
  \/ NextNone
  \/ Unsubscribe
  \/ Drop

-----------------------------------------------------------------------------
Next == Node \/ Loop \/ Caller

\* The loop runs and takes the commands it is given, a blocked next wakes up,
\* and unsubscribe gets to its end.
Fairness ==
  /\ WF_vars(Loop)
  /\ WF_vars(ObeyShutdown)
  /\ WF_vars(NextSome)
  /\ WF_vars(NextNone)
  /\ WF_vars(leaving /\ Drop)

Spec == Init /\ [][Next]_vars /\ Fairness

-----------------------------------------------------------------------------
\* What the caller has got, or can still get from the channel, are the node's
\* notifications from the first on, in the order they were sent: whatever else
\* came over the connection, none is left out, repeated or overtaken.
InOrderWithoutGaps ==
  LET got == taken \o queue
  IN  /\ Len(got) <= sent
      /\ \A i \in DOMAIN got : got[i] = i

\* The subscription keeps the promise of HandleSubscription.
ImplementsStream == Stream!Spec

\* subscription.rs:50-61: however the caller lets go of the subscription, the
\* event loop, its thread and its connection end, whatever the node does.
UnsubscribeEndsLoop == caller = "gone" ~> loop = "ended"
=============================================================================
