------------------------------ MODULE EventWatch ----------------------------
(***************************************************************************)
(* Api::wait_for_event_details (src/api/rpc_api/subscribe_events.rs) over  *)
(* a subscription to the storage entry System.Events: the caller waits, as *)
(* often as it likes and on one subscription, for the next event of some   *)
(* type, while the node makes blocks, is upgraded and loses connections.   *)
(*                                                                         *)
(* The subscription is SubscriptionStream.  An event is known by what it   *)
(* is: "failed" is System.ExtrinsicFailed, the others are event types.     *)
(* How the bytes of events are read is RuntimeEvents' subject; here, an    *)
(* Api whose metadata is of another runtime reads them as anything.        *)
(***************************************************************************)
EXTENDS Integers, Sequences

CONSTANTS
  Event,           \* the event types
  Wanted,          \* those that are waited for
  BlockEvents,     \* the sequences of events that a block may have
  MaxBlocks,       \* bound: blocks of the chain
  MaxWaits,        \* bound: waits on the subscription
  MaxReconnects    \* bound: how often the client's thread reconnects

ASSUME EventAssumption ==
  /\ "failed" \in Event /\ "undecodable" \notin Event
  /\ Wanted \subseteq Event \ {"failed"}
  /\ BlockEvents \subseteq Seq(Event)
  /\ MaxBlocks \in Nat /\ MaxWaits \in Nat /\ MaxReconnects \in Nat

VARIABLES
  chain,        \* the best blocks in the order of their import: [events, runtime]
  serving,      \* the node serves the subscription of the current session
  reconnects,   \* sessions lost so far
  queue, taken, closed, caller, sawEnd,   \* see SubscriptionStream
  metadata,     \* the runtime that the metadata of the Api is from
  wanted,       \* Ev of the wait
  since,        \* how much was taken before it began
  waits,        \* waits begun
  returned,     \* history: the <<block, position>> of the events handed out
  pc,           \* the wait: "idle", "next", "waiting" or "check"
  result        \* what the last wait has returned

nodeVars == <<chain, serving, reconnects>>
streamVars == <<queue, taken, closed, caller, sawEnd>>
callVars == <<metadata, wanted, since, waits, returned, pc, result>>
vars == <<nodeVars, streamVars, callVars>>

Runtime == {1, 2}

\* A change set as the caller gets it: with the events of a block, without a value
\* (or without a change), or not to be read by serde_json.
ChangeSet == [kind : {"changes", "no_value", "garbled"}, block : 0..MaxBlocks]

Stream == INSTANCE SubscriptionStream WITH Notification <- ChangeSet

Init ==
  /\ chain = <<>> /\ serving = FALSE /\ reconnects = 0
  /\ Stream!Init
  /\ metadata = 1
  /\ wanted \in Wanted /\ since = 0 /\ waits = 0 /\ returned = <<>>
  /\ pc = "idle" /\ result = "none"

-----------------------------------------------------------------------------
(* The node and the client's thread. *)

\* The value of System.Events after a number of blocks; genesis has none.
ValueAt(n) == [kind |-> IF n = 0 THEN "no_value" ELSE "changes", block |-> n]

Deliver(changes) ==
  IF closed \/ caller = "gone" THEN UNCHANGED streamVars ELSE Stream!Produce(changes)

\* The node takes the request, for the first time or after a reconnection, and
\* sends at once what is stored at its best block.
NodeSubscribes ==
  /\ ~serving
  /\ serving' = TRUE
  /\ Deliver(ValueAt(Len(chain)))
  /\ UNCHANGED <<chain, reconnects, callVars>>

RuntimeNow == IF chain = <<>> THEN 1 ELSE chain[Len(chain)].runtime

\* A new best block, perhaps the first of a new runtime.
NodeBlock ==
  /\ Len(chain) < MaxBlocks
  /\ \E events \in BlockEvents, runtime \in {r \in Runtime : r >= RuntimeNow} :
       chain' = Append(chain, [events |-> events, runtime |-> runtime])
  /\ IF serving THEN Deliver(ValueAt(Len(chain'))) ELSE UNCHANGED streamVars
  /\ UNCHANGED <<serving, reconnects, callVars>>

\* A message that serde_json cannot read (bound: one in a run).
NodeSendsGarbled ==
  /\ serving /\ ~closed /\ caller # "gone"
  /\ \A i \in 1..Len(taken \o queue) : (taken \o queue)[i].kind # "garbled"
  /\ Stream!Produce([kind |-> "garbled", block |-> Len(chain)])
  /\ UNCHANGED <<nodeVars, callVars>>

\* The session fails; the client's thread reconnects and asks again.
SessionLost ==
  /\ ~closed /\ serving
  /\ reconnects < MaxReconnects
  /\ reconnects' = reconnects + 1
  /\ serving' = FALSE
  /\ UNCHANGED <<chain, streamVars, callVars>>

\* The client's thread ends.
StreamCloses ==
  /\ Stream!Close
  /\ UNCHANGED <<nodeVars, callVars>>

Environment ==
  \/ NodeSubscribes
  \/ NodeBlock
  \/ NodeSendsGarbled
  \/ SessionLost
  \/ StreamCloses

-----------------------------------------------------------------------------
(* wait_for_event_details. *)

\* The caller waits for an event with the subscription it holds.
Wait ==
  /\ pc = "idle" /\ result # "Panic" /\ caller = "idle"
  /\ waits < MaxWaits
  /\ wanted' \in Wanted
  /\ since' = Len(taken)
  /\ waits' = waits + 1
  /\ pc' = "next" /\ result' = "none"
  /\ UNCHANGED <<nodeVars, streamVars, metadata, returned>>

\* update_runtime needs the Api for itself: never during a wait.  What the last
\* wait has returned is done with.
UpdateRuntime ==
  /\ pc = "idle" /\ result # "Panic" /\ metadata # RuntimeNow
  /\ metadata' = RuntimeNow /\ result' = "none"
  /\ UNCHANGED <<nodeVars, streamVars, wanted, since, waits, returned, pc>>

\* The caller lets go of the subscription.
Unsubscribe ==
  /\ pc = "idle"
  /\ Stream!Unsubscribe
  /\ UNCHANGED <<nodeVars, callVars>>

Return(kind) ==
  /\ pc' = "idle" /\ result' = kind
  /\ UNCHANGED <<metadata, wanted, since, waits>>

\* while let Some(change_set) = subscription.next()
CallNext ==
  /\ pc = "next"
  /\ Stream!CallNext
  /\ pc' = "waiting"
  /\ UNCHANGED <<nodeVars, metadata, wanted, since, waits, returned, result>>

\* Variant of NextSome that leaves what it reads in the channel.
PeekNext ==
  /\ pc = "waiting" /\ queue # <<>>
  /\ taken' = Append(taken, Head(queue))
  /\ caller' = "idle" /\ pc' = "check"
  /\ UNCHANGED <<queue, closed, sawEnd, nodeVars, metadata, wanted, since, waits, returned, result>>

NextSome ==
  /\ pc = "waiting"
  /\ Stream!NextSome
  /\ pc' = "check"
  /\ UNCHANGED <<nodeVars, metadata, wanted, since, waits, returned, result>>

\* Variant of NextNone that asks the ended stream again.
AskAgainAtTheEnd ==
  /\ pc = "waiting"
  /\ Stream!NextNone
  /\ pc' = "next"
  /\ UNCHANGED <<nodeVars, metadata, wanted, since, waits, returned, result>>

\* The loop ends: Err(NoStream).
NextNone ==
  /\ pc = "waiting"
  /\ Stream!NextNone
  /\ Return("NoStream")
  /\ UNCHANGED <<nodeVars, returned>>

current == taken[Len(taken)]

\* What the iterator can make of the events of a block: what they are, if the
\* metadata is of the block's runtime, else anything up to an undecodable one.
Readings(block) ==
  IF block.runtime = metadata THEN {block.events}
  ELSE [DOMAIN block.events -> Event \cup {"undecodable"}]

\* Variant of Decides that goes by the wanted event alone.
OnlyTheWanted(event) == event = wanted

\* An event that ends the loop over the events of a block.
Decides(event) == event \in {"undecodable", "failed", wanted}

\* The body of the loop: the first event that decides ends the wait, and with it
\* go the rest of the change set; as_event may then fail on a foreign layout.
CheckEvents ==
  \E events \in Readings(chain[current.block]) :
    \/ /\ \A i \in DOMAIN events : ~Decides(events[i])
       /\ pc' = "next"
       /\ UNCHANGED <<metadata, wanted, since, waits, returned, result>>
    \/ \E i \in DOMAIN events :
         /\ Decides(events[i]) /\ \A j \in 1..(i - 1) : ~Decides(events[j])
         /\ \/ /\ events[i] = "undecodable"
               /\ Return("NodeApi") /\ UNCHANGED returned
            \/ /\ events[i] = "failed"
               /\ Return("Dispatch") /\ UNCHANGED returned
            \/ /\ events[i] = wanted
               /\ Return("Ok")
               /\ returned' = Append(returned, <<current.block, i>>)
            \/ /\ events[i] = wanted /\ chain[current.block].runtime # metadata
               /\ Return("NodeApi") /\ UNCHANGED returned

Check ==
  /\ pc = "check"
  /\ \/ current.kind = "garbled" /\ Return("RpcClient") /\ UNCHANGED returned
     \/ current.kind = "no_value" /\ Return("Panic") /\ UNCHANGED returned
     \/ current.kind = "changes" /\ CheckEvents
  /\ UNCHANGED <<nodeVars, streamVars>>

Call ==
  \/ CallNext
  \/ NextSome
  \/ NextNone
  \/ Check

-----------------------------------------------------------------------------
Next ==
  \/ Environment
  \/ Wait
  \/ UpdateRuntime
  \/ Unsubscribe
  \/ Call

\* A wait that has begun runs whenever next lets it.
Spec == Init /\ [][Next]_vars /\ WF_vars(Call)

-----------------------------------------------------------------------------
(* Properties. *)

\* The events of what the current wait has taken, where the Api reads them rightly.
Taken == (since + 1)..Len(taken)
Readable(i) == taken[i].kind = "changes" /\ chain[taken[i].block].runtime = metadata
EventsOf(i) == chain[taken[i].block].events
Has(i, event) == Readable(i) /\ \E p \in DOMAIN EventsOf(i) : EventsOf(i)[p] = event
Before(i, event, other) ==
  \E p \in DOMAIN EventsOf(i) :
    EventsOf(i)[p] = event /\ \A q \in 1..p : EventsOf(i)[q] # other

\* A wait ends with the first event of the chain, among those it was given, that is
\* the wanted one or a failed extrinsic, whoever's that is: no earlier one was
\* passed over, in an earlier block or in the same.  Without such an event it ends
\* because the stream did, or at a change set it could not read.
FirstDecisiveEvent ==
  pc = "idle" /\ result # "none" =>
    /\ \A i \in Taken \ {Len(taken)} : ~Has(i, wanted) /\ ~Has(i, "failed")
    /\ result = "NoStream" =>
         sawEnd /\ \A i \in Taken : ~Has(i, wanted) /\ ~Has(i, "failed")
    /\ taken # <<>> /\ Readable(Len(taken)) =>
         /\ result = "Ok" => Before(Len(taken), wanted, "failed")
         /\ result = "Dispatch" => Before(Len(taken), "failed", wanted)
    /\ result \in {"RpcClient", "Panic", "NodeApi"} => ~Readable(Len(taken))

\* Change sets that were taken one after the other, but for garbled messages.
Successive(i, j) ==
  i < j /\ \A k \in i..j : taken[k].kind = "garbled" <=> k \notin {i, j}

\* What a wait looks at when it is due: while no session is lost the blocks
\* come one after the other, none left out and none twice.  (A reconnection repeats
\* the last block or leaves out those in between.)  The events that successive
\* waits return are therefore of ever later blocks, one of each at most: what
\* follows a returned event in its block is never seen.
EventsComeInOrder ==
  /\ \A i, j \in DOMAIN taken : Successive(i, j) =>
       \/ taken[j].block = taken[i].block + 1
       \/ reconnects > 0 /\ taken[j].block >= taken[i].block
  /\ \A i, j \in DOMAIN returned :
       i < j => \/ returned[i][1] < returned[j][1]
                \/ reconnects > 0 /\ returned[i][1] = returned[j][1]

\* A wait ends when something that must end it is in the channel, or when the
\* client's thread has ended.
MustEnd(c) ==
  \/ c.kind # "changes"
  \/ /\ chain[c.block].runtime = metadata
     /\ \E p \in DOMAIN chain[c.block].events : chain[c.block].events[p] \in {"failed", wanted}

DecisiveEventEndsWait ==
  (pc # "idle" /\ (closed \/ \E i \in DOMAIN queue : MustEnd(queue[i]))) ~> pc = "idle"
=============================================================================
