-------------------------- MODULE WsRequest_proofs --------------------------
(***************************************************************************)
(* A request over the ws client returns its own answer, for any number of  *)
(* concurrent calls, although all of them carry the same id.               *)
(*                                                                         *)
(* The invariant follows an answer on its way: from the wire of a          *)
(* connection through the channel of the call to its result, it is the     *)
(* answer of that call and the node has dealt with the request.              *)
(***************************************************************************)
EXTENDS WsRequest, TLAPS

\* A message that may be on the connection, or in the channel, of call c.
OwnMessage(c, message) == message.kind \in {"answer", "Ok"} => message.call = c /\ processed[c] = 1

OwnWire == \A c \in Calls : \A i \in DOMAIN wire[c] : OwnMessage(c, wire[c][i])
OwnChannel == \A c \in Calls : \A i \in DOMAIN channel[c] : OwnMessage(c, channel[c][i])

IInv == TypeOK /\ OwnWire /\ OwnChannel /\ OkIsOwnAnswer

LEMMA Initially == Init => IInv
BY RequestAssumption DEF Init, IInv, TypeOK, OwnWire, OwnChannel, OkIsOwnAnswer, None

\* Taking a message from the front of a sequence, or appending one, keeps what is
\* known of all its messages.
LEMMA Appended ==
  ASSUME NEW S, NEW s \in Seq(S), NEW x \in S
  PROVE  /\ Append(s, x) \in Seq(S)
         /\ \A i \in DOMAIN Append(s, x) : Append(s, x)[i] = x \/ \E j \in DOMAIN s : Append(s, x)[i] = s[j]
OBVIOUS

LEMMA Taken ==
  ASSUME NEW S, NEW s \in Seq(S), s # <<>>
  PROVE  /\ Head(s) \in S /\ 1 \in DOMAIN s /\ Head(s) = s[1]
         /\ Tail(s) \in Seq(S)
         /\ \A i \in DOMAIN Tail(s) : \E j \in DOMAIN s : Tail(s)[i] = s[j]
OBVIOUS

\* The node's steps: an answer on the wire is to the request it has just dealt with.
LEMMA NodeSteps ==
  ASSUME IInv, NEW c \in Calls, Node(c)
  PROVE  IInv'
<1> USE DEF IInv
<1>1. CASE NodeAnswers(c)
  <2> DEFINE answer == [kind |-> "answer", call |-> c]
  <2>1. answer \in Message /\ wire[c] \in Seq(Message)
    BY DEF TypeOK, Message
  <2>2. wire' = [wire EXCEPT ![c] = Append(wire[c], answer)]
    BY <1>1 DEF NodeAnswers
  <2>3. Append(wire[c], answer) \in Seq(Message)
    BY <2>1, Appended
  <2>4. TypeOK'
    <3>1. wire' \in [Calls -> Seq(Message)]
      BY <2>2, <2>3 DEF TypeOK
    <3>2. sent' \in [Calls -> 0..MaxFrames]
      BY <1>1, RequestAssumption DEF NodeAnswers, TypeOK
    <3>3. processed' \in [Calls -> 0..1]
      BY <1>1 DEF NodeAnswers, TypeOK
    <3>4. QED
      BY <1>1, <3>1, <3>2, <3>3 DEF NodeAnswers, TypeOK
  <2>5. \A d \in Calls : processed[d] = 1 => processed'[d] = 1
    BY <1>1 DEF NodeAnswers, TypeOK
  <2>6. processed'[c] = 1
    BY <1>1 DEF NodeAnswers, TypeOK
  <2>7. OwnWire'
    <3> SUFFICES ASSUME NEW d \in Calls, NEW i \in DOMAIN wire'[d]
                 PROVE  OwnMessage(d, wire[d][i])'
      BY DEF OwnWire
    <3>1. CASE d = c
      <4>1. wire'[d] = Append(wire[c], answer)
        BY <2>2, <3>1 DEF TypeOK
      <4>2. wire'[d][i] = answer \/ \E j \in DOMAIN wire[c] : wire'[d][i] = wire[c][j]
        BY <2>1, <4>1, Appended
      <4>3. QED
        BY <2>5, <2>6, <3>1, <4>2 DEF OwnWire, OwnMessage
    <3>2. CASE d # c
      <4>1. wire'[d] = wire[d]
        BY <2>2, <3>2 DEF TypeOK
      <4>2. QED
        BY <2>5, <4>1 DEF OwnWire, OwnMessage
    <3>3. QED
      BY <3>1, <3>2
  <2>8. OwnChannel' /\ OkIsOwnAnswer'
    BY <1>1, <2>5 DEF NodeAnswers, OwnChannel, OwnMessage, OkIsOwnAnswer
  <2>9. QED
    BY <2>4, <2>7, <2>8
<1>2. CASE \E kind \in {"malformed", "binary", "close"} : NodeSends(c, kind)
  <2> PICK kind \in {"malformed", "binary", "close"} : NodeSends(c, kind)
    BY <1>2
  <2> DEFINE other == [kind |-> kind, call |-> c]
  <2>1. other \in Message /\ wire[c] \in Seq(Message)
    BY DEF TypeOK, Message
  <2>2. wire' = [wire EXCEPT ![c] = Append(wire[c], other)]
    BY DEF NodeSends
  <2>3. Append(wire[c], other) \in Seq(Message)
    BY <2>1, Appended
  <2>4. TypeOK'
    <3>1. wire' \in [Calls -> Seq(Message)]
      BY <2>2, <2>3 DEF TypeOK
    <3>2. sent' \in [Calls -> 0..MaxFrames]
      BY RequestAssumption DEF NodeSends, TypeOK
    <3>3. QED
      BY <3>1, <3>2 DEF NodeSends, TypeOK
  <2>5. OwnWire'
    <3> SUFFICES ASSUME NEW d \in Calls, NEW i \in DOMAIN wire'[d]
                 PROVE  OwnMessage(d, wire[d][i])'
      BY DEF OwnWire
    <3>0. processed' = processed
      BY DEF NodeSends
    <3>1. CASE d = c
      <4>1. wire'[d] = Append(wire[c], other)
        BY <2>2, <3>1 DEF TypeOK
      <4>2. wire'[d][i] = other \/ \E j \in DOMAIN wire[c] : wire'[d][i] = wire[c][j]
        BY <2>1, <4>1, Appended
      <4>3. QED
        BY <3>0, <3>1, <4>2 DEF OwnWire, OwnMessage
    <3>2. CASE d # c
      BY <2>2, <3>0, <3>2 DEF TypeOK, OwnWire, OwnMessage
    <3>3. QED
      BY <3>1, <3>2
  <2>6. OwnChannel' /\ OkIsOwnAnswer'
    BY DEF NodeSends, OwnChannel, OwnMessage, OkIsOwnAnswer
  <2>7. QED
    BY <2>4, <2>5, <2>6
<1>3. QED
  BY <1>1, <1>2 DEF Node

\* Leaving the loop empties the wire of the call and touches no message.
LEMMA Leaving ==
  ASSUME IInv, NEW c \in Calls, LeaveLoop(c), UNCHANGED <<processed, sent, channel, result>>
  PROVE  IInv'
<1>1. TypeOK'
  BY DEF IInv, TypeOK, LeaveLoop
<1>2. OwnWire'
  BY DEF IInv, TypeOK, LeaveLoop, OwnWire, OwnMessage
<1>3. OwnChannel' /\ OkIsOwnAnswer'
  BY DEF IInv, OwnChannel, OwnMessage, OkIsOwnAnswer
<1>4. QED
  BY <1>1, <1>2, <1>3 DEF IInv

\* The handler: what it puts into the channel of a call is what came for that call.
LEMMA HandlerStep ==
  ASSUME IInv, NEW c \in Calls, OnMessage(c)
  PROVE  IInv'
<1> DEFINE frame == Head(wire[c])
<1>1. /\ frame \in Message /\ OwnMessage(c, frame)
      /\ Tail(wire[c]) \in Seq(Message)
      /\ \A i \in DOMAIN Tail(wire[c]) : OwnMessage(c, Tail(wire[c])[i])
  <2>1. wire[c] \in Seq(Message) /\ wire[c] # <<>>
    BY DEF IInv, TypeOK, OnMessage
  <2>2. QED
    BY <2>1, Taken DEF IInv, OwnWire
<1>2. CASE frame.kind = "close"
  BY <1>2, Leaving DEF OnMessage
<1>3. CASE frame.kind # "close"
  <2>1. /\ wire' = [wire EXCEPT ![c] = Tail(wire[c])]
        /\ link' = [link EXCEPT ![c] = "closing"]
        /\ Forward(c, frame)
        /\ UNCHANGED <<pc, processed, sent, result>>
    BY <1>3 DEF OnMessage, AskForClose
  <2>2. OwnWire' /\ wire' \in [Calls -> Seq(Message)]
    BY <1>1, <2>1 DEF IInv, TypeOK, OwnWire, OwnMessage
  <2>3. PICK messages \in Seq(RpcMessage) :
          /\ channel' = [channel EXCEPT ![c] = messages]
          /\ \A i \in DOMAIN messages : OwnMessage(c, messages[i])
    <3>1. channel[c] \in Seq(RpcMessage) /\ \A i \in DOMAIN channel[c] : OwnMessage(c, channel[c][i])
      BY DEF IInv, TypeOK, OwnChannel
    <3>2. ASSUME NEW message \in RpcMessage, OwnMessage(c, message), SendResult(c, message)
          PROVE  \E messages \in Seq(RpcMessage) :
                   /\ channel' = [channel EXCEPT ![c] = messages]
                   /\ \A i \in DOMAIN messages : OwnMessage(c, messages[i])
      <4>1. Append(channel[c], message) \in Seq(RpcMessage)
            /\ \A i \in DOMAIN Append(channel[c], message) : OwnMessage(c, Append(channel[c], message)[i])
        BY <3>1, <3>2, Appended
      <4>2. channel' = [channel EXCEPT ![c] = Append(channel[c], message)]
        BY <3>2 DEF SendResult
      <4>3. QED
        BY <4>1, <4>2
    <3>3. CASE frame.kind = "answer"
      <4>1. SendResult(c, [kind |-> "Ok", call |-> frame.call])
        BY <2>1, <3>3 DEF Forward
      <4>2. [kind |-> "Ok", call |-> frame.call] \in RpcMessage
            /\ OwnMessage(c, [kind |-> "Ok", call |-> frame.call])
        BY <1>1, <3>3 DEF Message, RpcMessage, OwnMessage
      <4>3. QED
        BY <3>2, <4>1, <4>2
    <3>4. CASE frame.kind = "malformed"
      <4>1. SendResult(c, [kind |-> "Serde", call |-> frame.call])
        BY <2>1, <3>4 DEF Forward
      <4>2. [kind |-> "Serde", call |-> frame.call] \in RpcMessage
            /\ OwnMessage(c, [kind |-> "Serde", call |-> frame.call])
        BY <1>1 DEF Message, RpcMessage, OwnMessage
      <4>3. QED
        BY <3>2, <4>1, <4>2
    <3>5. CASE frame.kind = "binary"
      <4>1. channel' = [channel EXCEPT ![c] = channel[c]]
        BY <2>1, <3>5 DEF Forward, IInv, TypeOK
      <4>2. QED
        BY <3>1, <4>1
    <3>6. QED
      BY <1>1, <1>3, <3>3, <3>4, <3>5 DEF Message
  <2>4. OwnChannel' /\ channel' \in [Calls -> Seq(RpcMessage)]
    BY <2>1, <2>3 DEF IInv, TypeOK, OwnChannel, OwnMessage
  <2>5. TypeOK' /\ OkIsOwnAnswer'
    BY <2>1, <2>2, <2>4 DEF IInv, TypeOK, OkIsOwnAnswer
  <2>6. QED
    BY <2>2, <2>4, <2>5 DEF IInv
<1>4. QED
  BY <1>2, <1>3

\* recv takes the first message of the call's own channel.
LEMMA ReceiveStep ==
  ASSUME IInv, NEW c \in Calls, Receive(c)
  PROVE  IInv'
<1> DEFINE message == Head(channel[c])
<1>1. /\ message \in RpcMessage /\ OwnMessage(c, message)
      /\ Tail(channel[c]) \in Seq(RpcMessage)
      /\ \A i \in DOMAIN Tail(channel[c]) : OwnMessage(c, Tail(channel[c])[i])
  <2>1. channel[c] \in Seq(RpcMessage) /\ channel[c] # <<>>
    BY DEF IInv, TypeOK, Receive
  <2>2. QED
    BY <2>1, Taken DEF IInv, OwnChannel
<1>2. /\ channel' = [channel EXCEPT ![c] = Tail(channel[c])]
      /\ result' = [result EXCEPT ![c] = message]
      /\ pc' = [pc EXCEPT ![c] = "returned"]
      /\ UNCHANGED <<link, processed, wire, sent>>
  BY DEF Receive
<1>3. TypeOK'
  BY <1>1, <1>2 DEF IInv, TypeOK
<1>4. OwnWire' /\ OwnChannel'
  BY <1>1, <1>2 DEF IInv, TypeOK, OwnWire, OwnChannel, OwnMessage
<1>5. OkIsOwnAnswer'
  BY <1>1, <1>2 DEF IInv, TypeOK, OkIsOwnAnswer, OwnMessage
<1>6. QED
  BY <1>3, <1>4, <1>5 DEF IInv

\* Every step keeps the invariant.
LEMMA Steps == IInv /\ [Next]_vars => IInv'
<1> SUFFICES ASSUME IInv, [Next]_vars PROVE IInv'
  OBVIOUS
<1>1. CASE UNCHANGED vars
  BY <1>1 DEF vars, IInv, TypeOK, OwnWire, OwnChannel, OwnMessage, OkIsOwnAnswer
<1>2. CASE Next
  <2> PICK c \in Calls : Node(c) \/ Client(c)
    BY <1>2 DEF Next
  <2>1. CASE Node(c)
    BY <2>1, NodeSteps
  <2>2. CASE OnOpen(c)
    <3>1. TypeOK'
      BY <2>2 DEF OnOpen, IInv, TypeOK
    <3>2. QED
      BY <2>2, <3>1 DEF OnOpen, IInv, OwnWire, OwnChannel, OwnMessage, OkIsOwnAnswer
  <2>3. CASE ConnectionLost(c)
    BY <2>3, Leaving DEF ConnectionLost
  <2>4. CASE ConnectFails(c)
    <3>1. TypeOK'
      BY <2>4 DEF ConnectFails, IInv, TypeOK
    <3>2. OkIsOwnAnswer'
      BY <2>4 DEF ConnectFails, IInv, TypeOK, OkIsOwnAnswer
    <3>3. QED
      BY <2>4, <3>1, <3>2 DEF ConnectFails, IInv, OwnWire, OwnChannel, OwnMessage
  <2>5. CASE OnMessage(c)
    BY <2>5, HandlerStep
  <2>6. CASE CloseDone(c)
    BY <2>6, Leaving DEF CloseDone
  <2>7. CASE Receive(c)
    BY <2>7, ReceiveStep
  <2>8. QED
    BY <2>1, <2>2, <2>3, <2>4, <2>5, <2>6, <2>7 DEF Client
<1>3. QED
  BY <1>1, <1>2

\* The state of every call is of its type (ws_client/client.rs, mod.rs).
THEOREM TypeCorrect == Spec => []TypeOK
<1>1. IInv => TypeOK
  BY DEF IInv
<1>2. QED
  BY Initially, Steps, <1>1, PTL DEF Spec

\* A call that returns Ok returns the answer to its own request, which the node has
\* processed, however many calls there are and whatever else the node sends.
THEOREM OkIsTheOwnAnswer == Spec => []OkIsOwnAnswer
<1>1. IInv => OkIsOwnAnswer
  BY DEF IInv
<1>2. QED
  BY Initially, Steps, <1>1, PTL DEF Spec
=============================================================================
