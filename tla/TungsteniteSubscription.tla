---------------------- MODULE TungsteniteSubscription ----------------------
(***************************************************************************)
(* One subscription of the tungstenite client: TungsteniteRpcClient::      *)
(* subscribe (src/rpc/tungstenite_client/client.rs) and                    *)
(* TungsteniteSubscriptionWrapper (tungstenite_client/subscription.rs).    *)
(*                                                                         *)
(* Three actors run concurrently:                                          *)
(*   - the thread spawned by start_rpc_client_thread, whose retry loops    *)
(*     are ConnectionAttempts and whose session is modelled here: write    *)
(*     the request, read a message, hand it over, read again;              *)
(*   - the caller, who holds the receiving end of the mpsc channel;        *)
(*   - the node and the network, which are not part of the repository.     *)
(*                                                                         *)
(* A message is reduced to what the client tells apart.  Those it hands    *)
(* to the caller carry their number in the session that sent them; a       *)
(* payload that does not deserialise is such a message too, next returns   *)
(* it as Some(Err(_)) at its place in the stream.                          *)
(***************************************************************************)
EXTENDS ConnectionAttempts, Sequences

CONSTANTS
  MaxNotifications,  \* bound: notifications the node sends in a session
  MaxNoise           \* bound: malformed messages and control frames in a run

ASSUME SubscriptionAssumption ==
  /\ MaxNotifications \in Nat
  /\ MaxNoise \in Nat

\* Below u8::MAX the counters of the retry loops do not overflow.
ASSUME CountersFit == NoWrap

VARIABLES
  step,     \* where subscribe_to_server is once connected
  held,     \* the message read_until_text_message has returned
  session,  \* the number of connections opened so far
  link,     \* the websocket as the network has it
  node,     \* what the node makes of this connection
  wire,     \* messages sent by the node and not yet read
  sent,     \* notifications the node has sent in this session
  noise,    \* malformed messages and control frames sent so far
  queue, taken, caller, sawEnd                     \* see SubscriptionStream

sessionVars == <<step, held>>
nodeVars == <<session, link, node, wire, sent, noise>>
callerVars == <<queue, taken, caller, sawEnd>>
vars == <<threadVars, sessionVars, nodeVars, callerVars>>

\* What the caller's channel carries: the n-th notification of a session.
Element == [session : 1..(MaxAttempts + 1), n : 1..MaxNotifications]

\* The channel's senders are dropped when the thread ends.
Stream == INSTANCE SubscriptionStream WITH Notification <- Element, closed <- phase = "stopped"

\* "answer" is a text message whose id is a string: the response to the
\* request, a result or an error.  "control" stands for Binary, Ping, Pong
\* and Frame.
Kind == {"notification", "answer", "malformed", "control", "close"}
Frame == [kind : Kind \ {"notification"}, n : {0}] \cup [kind : {"notification"}, n : 1..MaxNotifications]
NoFrame == [kind |-> "none", n |-> 0]
Message(kind) == [kind |-> kind, n |-> 0]
Numbered(n) == [kind |-> "notification", n |-> n]

-----------------------------------------------------------------------------
Init ==
  /\ ThreadInit
  /\ step = "none" /\ held = NoFrame
  /\ session = 0
  /\ link = "closed" /\ node = "idle"
  /\ wire = <<>> /\ sent = 0 /\ noise = 0
  /\ queue = <<>> /\ taken = <<>> /\ caller = "idle" /\ sawEnd = FALSE

-----------------------------------------------------------------------------
(* The node and the network.                                               *)

Send(frame) == wire' = Append(wire, frame)

\* The node answers the request and serves the subscription...
NodeAccepts ==
  /\ link = "open" /\ node = "asked"
  /\ node' = "serving"
  /\ Send(Message("answer"))
  /\ UNCHANGED <<threadVars, sessionVars, callerVars, session, link, sent, noise>>

\* ... or answers with an error.
NodeRejects ==
  /\ link = "open" /\ node = "asked"
  /\ node' = "rejected"
  /\ Send(Message("answer"))
  /\ UNCHANGED <<threadVars, sessionVars, callerVars, session, link, sent, noise>>

NodeNotifies ==
  /\ link = "open" /\ node = "serving"
  /\ sent < MaxNotifications
  /\ sent' = sent + 1
  /\ Send(Numbered(sent'))
  /\ UNCHANGED <<threadVars, sessionVars, callerVars, session, link, node, noise>>

NodeSendsNoise(kind) ==
  /\ link = "open"
  /\ noise < MaxNoise
  /\ noise' = noise + 1
  /\ Send(Message(kind))
  /\ UNCHANGED <<threadVars, sessionVars, callerVars, session, link, node, sent>>

\* The node sends a close frame, after everything it has sent before.
NodeCloses ==
  /\ link = "open"
  /\ link' = "closing"
  /\ Send(Message("close"))
  /\ UNCHANGED <<threadVars, sessionVars, callerVars, session, node, sent, noise>>

\* The connection is lost, with some of what was in flight.
ConnectionBreaks ==
  /\ link \in {"open", "closing"}
  /\ link' = "broken"
  /\ \E k \in 0..Len(wire) : wire' = SubSeq(wire, 1, k)
  /\ UNCHANGED <<threadVars, sessionVars, callerVars, session, node, sent, noise>>

Node ==
  \/ NodeAccepts
  \/ NodeRejects
  \/ NodeNotifies
  \/ \E kind \in {"malformed", "control"} : NodeSendsNoise(kind)
  \/ NodeCloses
  \/ ConnectionBreaks

-----------------------------------------------------------------------------
(* The thread.                                                             *)

\* subscribe_to_server returns Err(error), and its socket is dropped.
SessionFails(error) ==
  /\ SessionEnds(error)
  /\ step' = "none" /\ held' = NoFrame
  /\ link' = "closed" /\ node' = "idle" /\ wire' = <<>>
  /\ UNCHANGED <<session, sent, noise, callerVars>>

\* attempt_connection_until returns a socket.
Connect ==
  /\ ConnectionOpens
  /\ step' = "write"
  /\ session' = session + 1
  /\ link' = "open"
  /\ sent' = 0
  /\ UNCHANGED <<held, node, wire, noise, callerVars>>

\* A dial fails, and the last one makes attempt_connection_until give up.
ConnectFails ==
  /\ ConnectionRefused
  /\ UNCHANGED <<sessionVars, nodeVars, callerVars>>

\* The request goes out, again in every session.  A node that is closing the
\* connection does not look at it any more.
WriteRequest ==
  /\ step = "write" /\ link \in {"open", "closing"}
  /\ step' = "read"
  /\ node' = IF link = "open" THEN "asked" ELSE node
  /\ UNCHANGED <<threadVars, held, session, link, wire, sent, noise, callerVars>>

WriteFails ==
  /\ step = "write" /\ link = "broken"
  /\ SessionFails("Client")

\* read_until_text_message: other messages are skipped, Close is an error.
ReadMessage ==
  /\ step = "read" /\ wire # <<>>
  /\ CASE Head(wire).kind = "close" -> SessionFails("ConnectionClosed")
       [] Head(wire).kind = "control" ->
            /\ wire' = Tail(wire)
            /\ UNCHANGED <<threadVars, sessionVars, session, link, node, sent, noise, callerVars>>
       [] OTHER ->
            /\ wire' = Tail(wire)
            /\ held' = Head(wire)
            /\ step' = "forward"
            /\ UNCHANGED <<threadVars, session, link, node, sent, noise, callerVars>>

ReadFails ==
  /\ step = "read" /\ wire = <<>> /\ link = "broken"
  /\ SessionFails("Client")

\* Variant of the channel that refuses to grow, as a bounded one would.
EnqueueIfRoom(notification) ==
  queue' = IF Len(queue) < 1 THEN Append(queue, notification) ELSE queue

\* result_in.send on an unbounded mpsc channel.
Enqueue(notification) == queue' = Append(queue, notification)

\* send_message_to_client, then back to reading.
Forwarded ==
  /\ step' = "read" /\ held' = NoFrame
  /\ UNCHANGED <<threadVars, nodeVars, taken, caller, sawEnd>>

\* Variant of send_message_to_client that does not look at what send returns.
IgnoreSendError == Forwarded /\ UNCHANGED queue

\* result_in.send once the receiver is gone: its error ends the session.
SendFails == SessionFails("Send")

SendMessageToClient ==
  /\ step = "forward"
  /\ \/ /\ held.kind = "malformed"
        /\ SessionFails("Serde")
     \/ /\ held.kind = "answer"
        /\ Forwarded
        /\ UNCHANGED queue
     \/ /\ held.kind = "notification" /\ caller # "gone"
        /\ Forwarded
        /\ Enqueue([session |-> session, n |-> held.n])
     \/ /\ held.kind = "notification" /\ caller = "gone"
        /\ SendFails

\* Variant of the thread's loop that starts its count over after a session.
ReconnectFromZero ==
  /\ phase = "failed"
  /\ phase' = "connecting"
  /\ thread_attempt' = 0 /\ connect_attempt' = 0
  /\ UNCHANGED <<dials, sessionVars, nodeVars, callerVars>>

\* The next round of the thread's loop.
Reconnect ==
  /\ ThreadReconnects
  /\ UNCHANGED <<sessionVars, nodeVars, callerVars>>

Worker ==
  \/ Connect
  \/ ConnectFails
  \/ WriteRequest
  \/ WriteFails
  \/ ReadMessage
  \/ ReadFails
  \/ SendMessageToClient
  \/ Reconnect

-----------------------------------------------------------------------------
(* The caller, on the receiving end of the channel.                        *)

CallNext == UNCHANGED <<threadVars, sessionVars, nodeVars>> /\ Stream!CallNext

NextSome == UNCHANGED <<threadVars, sessionVars, nodeVars>> /\ Stream!NextSome

\* Variant of next that does not wait for the sender to be dropped (try_recv).
NextNoneIfEmpty ==
  /\ caller = "waiting" /\ queue = <<>>
  /\ caller' = "idle" /\ sawEnd' = TRUE
  /\ UNCHANGED <<threadVars, sessionVars, nodeVars, queue, taken>>

\* recv fails when the channel is empty and its senders are gone.
NextNone == UNCHANGED <<threadVars, sessionVars, nodeVars>> /\ Stream!NextNone

\* unsubscribe, or any other end of the wrapper: the receiver is dropped.
\* Nothing is said to the thread or to the node.
Unsubscribe == UNCHANGED <<threadVars, sessionVars, nodeVars>> /\ Stream!Unsubscribe

Caller ==
  \/ CallNext
  \/ NextSome
  \/ NextNone
  \/ Unsubscribe

-----------------------------------------------------------------------------
Next == Node \/ Worker \/ Caller

\* The thread runs while it can, and a blocked next wakes up.  The node, the
\* network and the caller's code owe nothing.
Fairness ==
  /\ WF_vars(Worker)
  /\ WF_vars(NextSome)
  /\ WF_vars(NextNone)

Spec == Init /\ [][Next]_vars /\ Fairness

-----------------------------------------------------------------------------
TypeOK ==
  /\ ThreadTypeOK
  /\ step \in {"none", "write", "read", "forward"}
  /\ held \in Frame \cup {NoFrame}
  /\ session \in 0..(MaxAttempts + 1)
  /\ link \in {"closed", "open", "closing", "broken"}
  /\ node \in {"idle", "asked", "serving", "rejected"}
  /\ wire \in Seq(Frame)
  /\ sent \in 0..MaxNotifications
  /\ noise \in 0..MaxNoise
  /\ Stream!TypeOK

\* Everything handed to the caller so far, and what waits for it.
stream == taken \o queue

\* b may come right after a: the next one of the same session, or the first
\* one of a later session.
Follows(a, b) ==
  \/ b.session = a.session /\ b.n = a.n + 1
  \/ b.session > a.session /\ b.n = 1

\* The caller sees each session's notifications from the first, in order,
\* without a gap or a repetition, whatever sessions break in between; only
\* the end of a session can be missing.
InOrderWithoutGaps ==
  /\ stream # <<>> => stream[1].n = 1
  /\ \A i \in 1..(Len(stream) - 1) : Follows(stream[i], stream[i + 1])

\* While a session is up and the caller listens, every notification the node
\* has sent is in the caller's stream, in the thread's hands or on the wire.
NothingLostWhileConnected ==
  phase = "connected" /\ link = "open" /\ caller # "gone" =>
    \A k \in 1..sent :
      \/ \E i \in 1..Len(stream) : stream[i] = [session |-> session, n |-> k]
      \/ held = Numbered(k)
      \/ \E i \in 1..Len(wire) : wire[i] = Numbered(k)

\* next returns None only after the thread has ended and everything it had
\* forwarded has been taken (subscription.rs:41, "no further messages are to
\* be expected").
NoneOnlyAtTheEnd == sawEnd => phase = "stopped" /\ queue = <<>>

\* The request, and with author_submitAndWatchExtrinsic the extrinsic, goes
\* out at most max_attempts + 1 times, once for each connection opened.
RequestsBounded == session <= MaxAttempts + 1

\* The thread gives up only for a reason: the caller has left, an inner loop
\* has used up its dials, or the outer loop its sessions.
StopsForAReason ==
  phase = "stopped" =>
    \/ caller = "gone"
    \/ connect_attempt > MaxAttempts
    \/ thread_attempt > MaxAttempts

\* The subscription keeps the promise of HandleSubscription, liveness included.
ImplementsStream == Stream!Spec

\* The thread's retry loops are those of ConnectionAttempts, whatever a
\* session does.
ImplementsConnectionAttempts == ThreadSpec

InStream(s, k) == \E i \in 1..Len(stream) : stream[i] = [session |-> s, n |-> k]

\* A notification that reached the client's end of a healthy connection gets
\* into the caller's stream, unless the session fails or the caller leaves.
EveryNotificationIsForwarded ==
  \A s \in 1..(MaxAttempts + 1), k \in 1..MaxNotifications :
    (session = s /\ sent >= k /\ link = "open")
      ~> (InStream(s, k) \/ session # s \/ phase # "connected" \/ link # "open" \/ caller = "gone")

\* When the caller has left, the next notification on the wire ends the
\* thread, unless the session fails before it is read.
UnsubscribeStopsAtNextNotification ==
  \A s \in 1..(MaxAttempts + 1) :
    (caller = "gone" /\ session = s /\ \E i \in 1..Len(wire) : wire[i].kind = "notification")
      ~> (phase \in {"stopped", "failed"} \/ session # s)
=============================================================================
