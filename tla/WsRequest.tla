----------------------------- MODULE WsRequest -----------------------------
(***************************************************************************)
(* WsRpcClient::direct_rpc_request (src/rpc/ws_client/client.rs) with the  *)
(* callbacks RpcClient::on_open and on_message and RequestHandler          *)
(* (ws_client/mod.rs).                                                     *)
(*                                                                         *)
(* Every call opens a connection of its own and runs the library's event   *)
(* loop inside connect, on the calling thread.  The handler sends what it  *)
(* makes of the answer through an mpsc channel, and once connect has       *)
(* returned the caller takes it with recv.  The closure given to connect   *)
(* borrows the function's own sender, so that sender lives as long as the  *)
(* function: recv can wait for a message nobody is left to send.           *)
(*                                                                         *)
(* Calls run concurrently on clones of the client.  All requests carry the *)
(* same id, so only the connection tells whose answer one is.              *)
(***************************************************************************)
EXTENDS Integers, Sequences, FiniteSets

CONSTANTS
  Calls,       \* calls of direct_rpc_request
  MaxFrames    \* bound: messages the node sends on a connection

ASSUME RequestAssumption == MaxFrames \in Nat

VARIABLES
  pc,        \* per call: "looping" in connect, "receiving" in recv, "returned"
  link,      \* its connection: "dialing", "open", "closing", "down"
  processed, \* history: how often the node has dealt with its request
  wire,      \* what the node has sent on its connection and was not yet seen
  sent,      \* how much that is and was
  channel,   \* its mpsc channel
  result     \* what the call returned

vars == <<pc, link, processed, wire, sent, channel, result>>

\* A message as the handler tells them apart.  "answer" is the response to the
\* request of a call, a result or an error: of an error the handler takes the
\* result that is not there, and sends Ok("null").  "malformed" is text that is
\* not JSON; "binary" is not text; "close" is a close frame.
Message == [kind : {"answer", "malformed", "binary", "close"}, call : Calls]

\* What goes through the channel: the result, or a Serde error.
RpcMessage == [kind : {"Ok", "Serde"}, call : Calls]

None == [kind |-> "none"]

-----------------------------------------------------------------------------
Init ==
  /\ pc = [c \in Calls |-> "looping"]
  /\ link = [c \in Calls |-> "dialing"]
  /\ processed = [c \in Calls |-> 0]
  /\ wire = [c \in Calls |-> <<>>]
  /\ sent = [c \in Calls |-> 0]
  /\ channel = [c \in Calls |-> <<>>]
  /\ result = [c \in Calls |-> None]

-----------------------------------------------------------------------------
(* The node and the network.                                               *)

\* The node deals with the request it was sent, or refuses to, and answers it.
NodeAnswers(c) ==
  /\ link[c] \in {"open", "closing"}
  /\ processed[c] = 0
  /\ sent[c] < MaxFrames
  /\ processed' = [processed EXCEPT ![c] = 1]
  /\ sent' = [sent EXCEPT ![c] = @ + 1]
  /\ wire' = [wire EXCEPT ![c] = Append(@, [kind |-> "answer", call |-> c])]
  /\ UNCHANGED <<pc, link, channel, result>>

\* The node sends something else.
NodeSends(c, kind) ==
  /\ link[c] \in {"open", "closing"}
  /\ sent[c] < MaxFrames
  /\ sent' = [sent EXCEPT ![c] = @ + 1]
  /\ wire' = [wire EXCEPT ![c] = Append(@, [kind |-> kind, call |-> c])]
  /\ UNCHANGED <<pc, link, processed, channel, result>>

-----------------------------------------------------------------------------
(* The event loop inside connect.                                          *)

\* on_open sends the request.
OnOpen(c) ==
  /\ pc[c] = "looping" /\ link[c] = "dialing"
  /\ link' = [link EXCEPT ![c] = "open"]
  /\ UNCHANGED <<pc, processed, wire, sent, channel, result>>

\* The loop is left: connect returns, and the handler with its sender is gone.
LeaveLoop(c) ==
  /\ pc' = [pc EXCEPT ![c] = "receiving"]
  /\ link' = [link EXCEPT ![c] = "down"]
  /\ wire' = [wire EXCEPT ![c] = <<>>]

\* The node refuses the connection, or it is lost: the library calls on_error,
\* which the client does not implement, and leaves the loop.
ConnectionLost(c) ==
  /\ pc[c] = "looping"
  /\ LeaveLoop(c)
  /\ UNCHANGED <<processed, sent, channel, result>>

\* connect itself fails, before its loop runs: the ? returns the error.
ConnectFails(c) ==
  /\ pc[c] = "looping" /\ link[c] = "dialing"
  /\ pc' = [pc EXCEPT ![c] = "returned"]
  /\ link' = [link EXCEPT ![c] = "down"]
  /\ result' = [result EXCEPT ![c] = [kind |-> "Client"]]
  /\ UNCHANGED <<processed, wire, sent, channel>>

\* Variant in which all calls share one channel.
SendToEveryone(c, message) == channel' = [d \in Calls |-> Append(channel[d], message)]

\* result.send, on the channel of the call
SendResult(c, message) == channel' = [channel EXCEPT ![c] = Append(@, message)]

\* Variant of the handler that hands the text over as it is.
ForwardText(c, frame) == SendResult(c, frame)

\* as_text()? returns early on binary data; text is parsed, and its result or
\* the Serde error is sent.
Forward(c, frame) ==
  CASE frame.kind = "answer" -> SendResult(c, [kind |-> "Ok", call |-> frame.call])
    [] frame.kind = "malformed" -> SendResult(c, [kind |-> "Serde", call |-> frame.call])
    [] frame.kind = "binary" -> UNCHANGED channel

\* Variant of handle_message that keeps the connection.
KeepOpen(c) == UNCHANGED link

\* out.close: a close frame is queued, and the loop goes on.
AskForClose(c) == link' = [link EXCEPT ![c] = "closing"]

\* handle_message asks for the close first.
OnMessage(c) ==
  /\ pc[c] = "looping" /\ wire[c] # <<>>
  /\ LET frame == Head(wire[c])
     IN  \/ /\ frame.kind # "close"
            /\ wire' = [wire EXCEPT ![c] = Tail(@)]
            /\ AskForClose(c)
            /\ Forward(c, frame)
            /\ UNCHANGED pc
         \/ /\ frame.kind = "close"
            /\ LeaveLoop(c)
            /\ UNCHANGED channel
  /\ UNCHANGED <<processed, sent, result>>

\* The node has closed too, and the library leaves the loop.  It waits for the
\* node without a timeout.
CloseDone(c) ==
  /\ pc[c] = "looping" /\ link[c] = "closing"
  /\ LeaveLoop(c)
  /\ UNCHANGED <<processed, sent, channel, result>>

-----------------------------------------------------------------------------
(* The call after connect.                                                 *)

\* result_out.recv()? with a message in the channel.  Without one it blocks:
\* result_in, which lives until the function returns, keeps the channel open.
Receive(c) ==
  /\ pc[c] = "receiving" /\ channel[c] # <<>>
  /\ pc' = [pc EXCEPT ![c] = "returned"]
  /\ result' = [result EXCEPT ![c] = Head(channel[c])]
  /\ channel' = [channel EXCEPT ![c] = Tail(@)]
  /\ UNCHANGED <<link, processed, wire, sent>>

-----------------------------------------------------------------------------
Node(c) == NodeAnswers(c) \/ \E kind \in {"malformed", "binary", "close"} : NodeSends(c, kind)

Client(c) ==
  \/ OnOpen(c)
  \/ ConnectionLost(c)
  \/ ConnectFails(c)
  \/ OnMessage(c)
  \/ CloseDone(c)
  \/ Receive(c)

Next == \E c \in Calls : Node(c) \/ Client(c)

\* The calling thread runs: its loop handles what has come, and recv takes what
\* is in the channel.  The node owes nothing: OnOpen and CloseDone, which end a
\* handshake with it, may never happen.
Fairness ==
  \A c \in Calls :
    /\ WF_vars(OnMessage(c))
    /\ WF_vars(Receive(c))

Spec == Init /\ [][Next]_vars /\ Fairness

-----------------------------------------------------------------------------
TypeOK ==
  /\ pc \in [Calls -> {"looping", "receiving", "returned"}]
  /\ link \in [Calls -> {"dialing", "open", "closing", "down"}]
  /\ processed \in [Calls -> 0..1]
  /\ wire \in [Calls -> Seq(Message)]
  /\ sent \in [Calls -> 0..MaxFrames]
  /\ channel \in [Calls -> Seq(RpcMessage)]
  /\ result \in [Calls -> RpcMessage \cup {None, [kind |-> "Client"]}]

\* A call that returns Ok returns the answer to its own request, although all
\* requests carry the same id, and only after the node has processed it.
OkIsOwnAnswer ==
  \A c \in Calls :
    result[c].kind = "Ok" => result[c].call = c /\ processed[c] = 1

\* error.rs:30-31: a call whose handler can send no more does not stay in recv,
\* it returns an answer or "ChannelReceiveError, sender is disconnected".
RecvReturns == \A c \in Calls : pc[c] = "receiving" ~> pc[c] = "returned"

\* The node does its part in the close the handler asks for, or the connection
\* is lost: it does not stay half closed.
CloseEnds(c) == []<>(link[c] # "closing")

\* mod.rs:102: the handler asks for the close because that gets the thread out of
\* connect and on to recv.  Once a result or an error is in the channel the call
\* returns, whatever comes in besides, unless the node never answers the close.
AnswerEndsCall ==
  \A c \in Calls : CloseEnds(c) => (channel[c] # <<>> ~> pc[c] = "returned")
=============================================================================
