-------------------------- MODULE EventWatch_proofs -------------------------
(***************************************************************************)
(* A wait for an event ends with the first event that decides, for any     *)
(* number of blocks, waits and reconnections and any events in the blocks. *)
(*                                                                         *)
(* The invariant says the same of a wait that has not ended: of what it    *)
(* has taken, but for what it is looking at, nothing decides.  That stays  *)
(* so because the chain only grows and what was taken is of a block of it, *)
(* and because the metadata changes between waits only.                    *)
(***************************************************************************)
EXTENDS EventWatch, TLAPS

USE DEF Stream!Init, Stream!Produce, Stream!Close, Stream!CallNext, Stream!NextSome,
        Stream!NextNone, Stream!Unsubscribe

Block == [events : BlockEvents, runtime : Runtime]

\* The types of what the invariant speaks of.
Types ==
  /\ chain \in Seq(Block) /\ Len(chain) <= MaxBlocks
  /\ queue \in Seq(ChangeSet)
  /\ taken \in Seq(ChangeSet)
  /\ wanted \in Wanted
  /\ since \in 0..Len(taken)
  /\ pc \in {"idle", "next", "waiting", "check"}

\* A change set is of a block of the chain.
Known(c) == c.kind = "changes" => c.block \in DOMAIN chain
OfTheChain ==
  /\ \A i \in DOMAIN queue : Known(queue[i])
  /\ \A i \in DOMAIN taken : Known(taken[i])

\* Nothing in change set i ends the wait.
Clean(i) == ~Has(i, wanted) /\ ~Has(i, "failed")

Running ==
  /\ pc # "idle" => result = "none"
  /\ result \notin {"none", "NoStream"} => taken # <<>>
  /\ pc \in {"next", "waiting"} => \A i \in Taken : Clean(i)
  /\ pc = "check" => since < Len(taken) /\ \A i \in Taken \ {Len(taken)} : Clean(i)

IInv == Types /\ OfTheChain /\ Running /\ FirstDecisiveEvent

-----------------------------------------------------------------------------
\* The empty sequence is a sequence of anything and has no element.
LEMMA Empty == \A S : <<>> \in Seq(S) /\ DOMAIN <<>> = {} /\ Len(<<>>) = 0
OBVIOUS

\* What Append and Tail keep of a sequence.
LEMMA Appended ==
  ASSUME NEW S, NEW s \in Seq(S), NEW x \in S
  PROVE  /\ Append(s, x) \in Seq(S)
         /\ Len(Append(s, x)) = Len(s) + 1 /\ Append(s, x)[Len(s) + 1] = x
         /\ DOMAIN s \subseteq DOMAIN Append(s, x)
         /\ \A i \in DOMAIN s : Append(s, x)[i] = s[i]
         /\ \A i \in DOMAIN Append(s, x) : i = Len(s) + 1 \/ i \in DOMAIN s
OBVIOUS

LEMMA TakenOff ==
  ASSUME NEW S, NEW s \in Seq(S), s # <<>>
  PROVE  /\ Head(s) \in S /\ 1 \in DOMAIN s /\ Head(s) = s[1]
         /\ Tail(s) \in Seq(S)
         /\ \A i \in DOMAIN Tail(s) : i + 1 \in DOMAIN s /\ Tail(s)[i] = s[i + 1]
OBVIOUS

LEMMA Initially == Init => IInv
<1> SUFFICES ASSUME Init PROVE IInv
  OBVIOUS
<1>1. Types
  BY Empty, EventAssumption DEF Init, Types
<1>2. OfTheChain
  BY Empty DEF Init, OfTheChain
<1>3. Running /\ FirstDecisiveEvent
  BY DEF Init, Running, FirstDecisiveEvent
<1>4. QED
  BY <1>1, <1>2, <1>3 DEF IInv

-----------------------------------------------------------------------------
\* The blocks so far stay what they are.
ChainGrows == \A b \in DOMAIN chain : b \in DOMAIN chain' /\ chain'[b] = chain[b]

\* While the chain grows, what the Api reads in a change set stays the same.
LEMMA ReadingStays ==
  ASSUME OfTheChain, ChainGrows, metadata' = metadata,
         NEW i \in DOMAIN taken, taken'[i] = taken[i]
  PROVE  /\ Readable(i)' <=> Readable(i)
         /\ Readable(i) => EventsOf(i)' = EventsOf(i)
         /\ \A e : Has(i, e)' <=> Has(i, e)
BY DEF OfTheChain, Known, ChainGrows, Readable, EventsOf, Has

\* Steps that leave the call alone.
LEMMA CallUntouched ==
  ASSUME IInv, ChainGrows, UNCHANGED <<taken, sawEnd, callVars>>
  PROVE  Running' /\ FirstDecisiveEvent'
<1>1. \A i \in DOMAIN taken : /\ Readable(i)' <=> Readable(i)
                              /\ Readable(i) => EventsOf(i)' = EventsOf(i)
                              /\ \A e : Has(i, e)' <=> Has(i, e)
  BY ReadingStays DEF IInv, callVars
<1>2. Taken \subseteq DOMAIN taken /\ Taken' = Taken
  BY DEF IInv, Types, Taken, callVars
<1>3. Running'
  BY <1>1, <1>2 DEF IInv, Running, Clean, callVars
<1>4. taken # <<>> => Len(taken) \in DOMAIN taken
  BY DEF IInv, Types
<1>5. \A e, f : taken # <<>> /\ Readable(Len(taken)) /\ Before(Len(taken), e, f) => Before(Len(taken), e, f)'
  BY <1>1, <1>4 DEF Before
<1>6. FirstDecisiveEvent'
  <2> SUFFICES ASSUME pc = "idle", result # "none"
               PROVE  FirstDecisiveEvent'
    BY DEF FirstDecisiveEvent, callVars
  <2>1. \A i \in Taken \ {Len(taken)} : (~Has(i, wanted) /\ ~Has(i, "failed"))'
    BY <1>1, <1>2 DEF IInv, FirstDecisiveEvent, callVars
  <2>2. result = "NoStream" => (sawEnd /\ \A i \in Taken : (~Has(i, wanted) /\ ~Has(i, "failed"))')
    BY <1>1, <1>2 DEF IInv, FirstDecisiveEvent, callVars
  <2>3. (taken # <<>> /\ Readable(Len(taken)))' =>
           /\ result = "Ok" => Before(Len(taken), wanted, "failed")'
           /\ result = "Dispatch" => Before(Len(taken), "failed", wanted)'
    BY <1>1, <1>4, <1>5 DEF IInv, FirstDecisiveEvent, callVars
  <2>4. result \in {"RpcClient", "Panic", "NodeApi"} => (~Readable(Len(taken)))'
    BY <1>1, <1>4 DEF IInv, Running, FirstDecisiveEvent, callVars
  <2>5. QED
    BY <1>2, <2>1, <2>2, <2>3, <2>4 DEF FirstDecisiveEvent, callVars
<1>7. QED
  BY <1>3, <1>6

\* The steps of the node and of the client's thread.
LEMMA EnvironmentStep ==
  ASSUME IInv, Environment
  PROVE  IInv'
<1>1. /\ UNCHANGED <<taken, sawEnd, callVars>>
      /\ ChainGrows /\ chain' \in Seq(Block) /\ Len(chain') <= MaxBlocks
      /\ \/ queue' = queue
         \/ \E c \in ChangeSet : queue' = Append(queue, c) /\ (c.kind = "changes" => c.block \in DOMAIN chain')
  <2>1. CASE NodeSubscribes
    <3>1. ValueAt(Len(chain)) \in ChangeSet
      BY EventAssumption DEF ValueAt, ChangeSet, IInv, Types
    <3>2. ValueAt(Len(chain)).kind = "changes" => ValueAt(Len(chain)).block \in DOMAIN chain
      BY DEF ValueAt, IInv, Types
    <3>3. QED
      BY <2>1, <3>1, <3>2 DEF NodeSubscribes, Deliver, streamVars, ChainGrows, IInv, Types
  <2>2. CASE NodeBlock
    <3>1. PICK events \in BlockEvents, runtime \in {r \in Runtime : r >= RuntimeNow} :
            chain' = Append(chain, [events |-> events, runtime |-> runtime])
      BY <2>2 DEF NodeBlock
    <3>2. [events |-> events, runtime |-> runtime] \in Block
      BY DEF Block
    <3>3. /\ chain' \in Seq(Block) /\ Len(chain') = Len(chain) + 1 /\ ChainGrows
          /\ Len(chain') <= MaxBlocks
      BY <2>2, <3>1, <3>2, Appended, EventAssumption DEF NodeBlock, ChainGrows, IInv, Types
    <3>4. ValueAt(Len(chain')) \in ChangeSet
      BY <3>3, EventAssumption DEF ValueAt, ChangeSet, IInv, Types
    <3>5. ValueAt(Len(chain')).kind = "changes" => ValueAt(Len(chain')).block \in DOMAIN chain'
      BY <3>3 DEF ValueAt, IInv, Types
    <3>6. QED
      BY <2>2, <3>3, <3>4, <3>5 DEF NodeBlock, Deliver, streamVars
  <2>3. CASE NodeSendsGarbled
    <3>1. [kind |-> "garbled", block |-> Len(chain)] \in ChangeSet
      BY EventAssumption DEF ChangeSet, IInv, Types
    <3>2. QED
      BY <2>3, <3>1 DEF NodeSendsGarbled, nodeVars, ChainGrows, IInv, Types
  <2>4. CASE SessionLost \/ StreamCloses
    BY <2>4 DEF SessionLost, StreamCloses, nodeVars, streamVars, ChainGrows, IInv, Types
  <2>5. QED
    BY <2>1, <2>2, <2>3, <2>4 DEF Environment
<1>2. queue' \in Seq(ChangeSet)
  <2>1. queue \in Seq(ChangeSet)
    BY DEF IInv, Types
  <2>2. \A c \in ChangeSet : Append(queue, c) \in Seq(ChangeSet)
    BY <2>1, Appended
  <2>3. QED
    BY <1>1, <2>1, <2>2
<1>3. Types'
  BY <1>1, <1>2 DEF IInv, Types, callVars
<1>4. \A c : Known(c) => Known(c)'
  BY <1>1 DEF Known, ChainGrows
<1>5. \A i \in DOMAIN queue' : Known(queue[i])'
  <2>1. CASE queue' = queue
    BY <1>4, <2>1 DEF IInv, OfTheChain, Known
  <2>2. CASE queue' # queue
    <3>1. PICK c \in ChangeSet : queue' = Append(queue, c) /\ (c.kind = "changes" => c.block \in DOMAIN chain')
      BY <1>1, <2>2
    <3>2. /\ queue'[Len(queue) + 1] = c
          /\ \A i \in DOMAIN queue : queue'[i] = queue[i]
          /\ \A i \in DOMAIN queue' : i = Len(queue) + 1 \/ i \in DOMAIN queue
      BY <3>1, Appended DEF IInv, Types
    <3>3. QED
      BY <1>4, <3>1, <3>2 DEF IInv, OfTheChain, Known
  <2>3. QED
    BY <2>1, <2>2
<1>6. OfTheChain'
  BY <1>1, <1>4, <1>5 DEF IInv, OfTheChain, Known
<1>7. QED
  BY <1>1, <1>3, <1>6, CallUntouched DEF IInv

-----------------------------------------------------------------------------
\* Between waits.
LEMMA BetweenWaits ==
  ASSUME IInv, Wait \/ UpdateRuntime \/ Unsubscribe
  PROVE  IInv'
<1>1. CASE Wait
  <2>1. /\ UNCHANGED <<chain, queue, taken>> /\ wanted' \in Wanted
        /\ since' = Len(taken) /\ pc' = "next" /\ result' = "none"
    BY <1>1 DEF Wait, nodeVars, streamVars
  <2>2. Types' /\ OfTheChain' /\ FirstDecisiveEvent'
    BY <2>1 DEF IInv, Types, OfTheChain, Known, FirstDecisiveEvent
  <2>3. Taken' = {}
    BY <2>1 DEF Taken, IInv, Types
  <2>4. QED
    BY <2>1, <2>2, <2>3 DEF IInv, Running
<1>2. CASE UpdateRuntime
  BY <1>2 DEF UpdateRuntime, nodeVars, streamVars, IInv, Types, OfTheChain, Known, Running,
    FirstDecisiveEvent
<1>3. CASE Unsubscribe
  <2>1. queue' = <<>> /\ UNCHANGED <<taken, sawEnd, chain, callVars>>
    BY <1>3 DEF Unsubscribe, nodeVars
  <2>2. Types' /\ OfTheChain'
    BY <2>1, Empty DEF IInv, Types, OfTheChain, Known, callVars
  <2>3. QED
    BY <2>1, <2>2, CallUntouched DEF IInv, ChainGrows
<1>4. QED
  BY <1>1, <1>2, <1>3

-----------------------------------------------------------------------------
\* The steps of a wait.
LEMMA CallNextStep ==
  ASSUME IInv, CallNext
  PROVE  IInv'
<1>1. /\ UNCHANGED <<taken, queue, sawEnd, chain, metadata, wanted, since, result>>
      /\ pc = "next" /\ pc' = "waiting"
  BY DEF CallNext, nodeVars
<1>2. Types' /\ OfTheChain'
  BY <1>1 DEF IInv, Types, OfTheChain, Known
<1>3. Running' /\ FirstDecisiveEvent'
  BY <1>1 DEF IInv, Running, FirstDecisiveEvent, Taken, Clean, Has, Readable, EventsOf
<1>4. QED
  BY <1>2, <1>3 DEF IInv

LEMMA NextSomeStep ==
  ASSUME IInv, NextSome
  PROVE  IInv'
<1>1. /\ UNCHANGED <<sawEnd, chain, metadata, wanted, since, result>>
      /\ queue # <<>> /\ queue' = Tail(queue) /\ taken' = Append(taken, Head(queue))
      /\ pc = "waiting" /\ pc' = "check"
  BY DEF NextSome, nodeVars
<1>2. /\ queue' \in Seq(ChangeSet) /\ Head(queue) \in ChangeSet /\ Known(Head(queue))
      /\ \A i \in DOMAIN queue' : i + 1 \in DOMAIN queue /\ queue'[i] = queue[i + 1]
  BY <1>1, TakenOff DEF IInv, Types, OfTheChain
<1>3. /\ taken' \in Seq(ChangeSet) /\ Len(taken') = Len(taken) + 1
      /\ taken'[Len(taken) + 1] = Head(queue)
      /\ \A i \in DOMAIN taken : taken'[i] = taken[i]
      /\ \A i \in DOMAIN taken' : i = Len(taken) + 1 \/ i \in DOMAIN taken
  BY <1>1, <1>2, Appended DEF IInv, Types
<1>4. Types'
  BY <1>1, <1>2, <1>3 DEF IInv, Types
<1>5. OfTheChain'
  BY <1>1, <1>2, <1>3 DEF IInv, OfTheChain, Known
<1>6. Running'
  <2>1. since' < Len(taken') /\ taken' # <<>>
    BY <1>1, <1>3 DEF IInv, Types
  <2>2. \A i \in (Taken \ {Len(taken)})' : Clean(i)'
    <3> SUFFICES ASSUME NEW i \in (Taken \ {Len(taken)})' PROVE Clean(i)'
      OBVIOUS
    <3>1. i \in Taken /\ i \in DOMAIN taken
      BY <1>1, <1>3 DEF Taken, IInv, Types
    <3>2. Clean(i)
      BY <1>1, <3>1 DEF IInv, Running
    <3>3. \A e : Has(i, e)' <=> Has(i, e)
      BY <1>1, <1>3, <3>1, ReadingStays DEF ChainGrows, IInv
    <3>4. QED
      BY <1>1, <3>2, <3>3 DEF Clean
  <2>3. QED
    BY <1>1, <2>1, <2>2 DEF IInv, Running
<1>7. QED
  BY <1>1, <1>4, <1>5, <1>6 DEF IInv, Running, FirstDecisiveEvent

LEMMA NextNoneStep ==
  ASSUME IInv, NextNone
  PROVE  IInv'
<1>1. /\ UNCHANGED <<taken, queue, chain, metadata, wanted, since>>
      /\ pc = "waiting" /\ pc' = "idle" /\ result' = "NoStream" /\ sawEnd'
  BY DEF NextNone, Return, nodeVars
<1>2. Types' /\ OfTheChain'
  BY <1>1 DEF IInv, Types, OfTheChain, Known
<1>3. Running'
  BY <1>1 DEF IInv, Running
<1>4. \A i \in Taken : (~Has(i, wanted) /\ ~Has(i, "failed"))'
  BY <1>1 DEF IInv, Running, Clean, Has, Readable, EventsOf
<1>5. Taken' = Taken
  BY <1>1 DEF Taken
<1>6. FirstDecisiveEvent'
  BY <1>1, <1>4, <1>5 DEF FirstDecisiveEvent
<1>7. QED
  BY <1>2, <1>3, <1>6 DEF IInv

\* The events of a change set that the Api reads rightly, one after another: the wait
\* goes on only if none decides, and it ends with the first one that does.
LEMMA EventsStep ==
  ASSUME IInv, pc = "check", current.kind = "changes", CheckEvents,
         UNCHANGED <<taken, chain>>
  PROVE  /\ pc' = "next" => result' = result /\ Clean(Len(taken))
         /\ pc' = "idle" =>
              /\ result' \in {"NodeApi", "Dispatch", "Ok"}
              /\ Readable(Len(taken)) =>
                   /\ result' = "Ok" => Before(Len(taken), wanted, "failed")
                   /\ result' = "Dispatch" => Before(Len(taken), "failed", wanted)
                   /\ result' # "NodeApi"
         /\ pc' \in {"next", "idle"} /\ UNCHANGED <<metadata, wanted, since>>
<1> DEFINE n == Len(taken)
<1>1. n \in DOMAIN taken /\ current = taken[n] /\ current.block \in DOMAIN chain
  BY DEF IInv, Types, Running, current, OfTheChain, Known
<1>2. PICK events \in Readings(chain[current.block]) :
    \/ /\ \A i \in DOMAIN events : ~Decides(events[i])
       /\ pc' = "next"
       /\ UNCHANGED <<metadata, wanted, since, waits, returned, result>>
    \/ \E i \in DOMAIN events :
         /\ Decides(events[i]) /\ \A j \in 1..(i - 1) : ~Decides(events[j])
         /\ \/ /\ events[i] = "undecodable"
               /\ Return("NodeApi") /\ UNCHANGED returned
            \/ /\ events[i] = "failed"
               /\ Return("Dispatch") /\ UNCHANGED returned
            \/ /\ events[i] = wanted
               /\ Return("Ok")
               /\ returned' = Append(returned, <<current.block, i>>)
            \/ /\ events[i] = wanted /\ chain[current.block].runtime # metadata
               /\ Return("NodeApi") /\ UNCHANGED returned
  BY DEF CheckEvents
<1>3. pc' \in {"next", "idle"} /\ UNCHANGED <<metadata, wanted, since>>
  BY <1>2 DEF Return
<1>4. ASSUME Readable(n)
      PROVE  /\ events = EventsOf(n) /\ events \in Seq(Event)
             /\ chain[current.block].runtime = metadata
  <2>1. chain[current.block] \in Block /\ chain[current.block].runtime = metadata
    BY <1>1, <1>4 DEF IInv, Types, Readable
  <2>2. QED
    BY <1>1, <1>4, <2>1, EventAssumption DEF Readings, EventsOf, Block
<1>5. ASSUME pc' = "next"
      PROVE  result' = result /\ Clean(n)
  <2>1. result' = result /\ \A i \in DOMAIN events : ~Decides(events[i])
    BY <1>2, <1>5 DEF Return
  <2>2. QED
    BY <1>4, <2>1 DEF Clean, Has, Decides
<1>6. ASSUME pc' = "idle"
      PROVE  /\ result' \in {"NodeApi", "Dispatch", "Ok"}
             /\ Readable(n) =>
                   /\ result' = "Ok" => Before(n, wanted, "failed")
                   /\ result' = "Dispatch" => Before(n, "failed", wanted)
                   /\ result' # "NodeApi"
  <2>1. PICK i \in DOMAIN events :
         /\ Decides(events[i]) /\ \A j \in 1..(i - 1) : ~Decides(events[j])
         /\ \/ events[i] = "undecodable" /\ result' = "NodeApi"
            \/ events[i] = "failed" /\ result' = "Dispatch"
            \/ events[i] = wanted /\ result' = "Ok"
            \/ chain[current.block].runtime # metadata /\ result' = "NodeApi"
    BY <1>2, <1>6 DEF Return
  <2>2. result' \in {"NodeApi", "Dispatch", "Ok"}
    BY <2>1
  <2>3. ASSUME Readable(n)
        PROVE  /\ result' = "Ok" => Before(n, wanted, "failed")
               /\ result' = "Dispatch" => Before(n, "failed", wanted)
               /\ result' # "NodeApi"
    <3>1. /\ events = EventsOf(n) /\ events \in Seq(Event)
          /\ chain[current.block].runtime = metadata
      BY <1>4, <2>3
    <3>2. wanted # "failed" /\ wanted # "undecodable" /\ events[i] # "undecodable"
      BY <2>1, <3>1, EventAssumption DEF IInv, Types
    <3>3. result' # "NodeApi"
      BY <2>1, <3>1, <3>2
    <3>4. \A q \in 1..i : q = i \/ q \in 1..(i - 1)
      BY <2>1, <3>1
    <3>5. result' = "Ok" => Before(n, wanted, "failed")
      BY <2>1, <3>1, <3>2, <3>4 DEF Before, Decides
    <3>6. result' = "Dispatch" => Before(n, "failed", wanted)
      BY <2>1, <3>1, <3>2, <3>4 DEF Before, Decides
    <3>7. QED
      BY <3>3, <3>5, <3>6
  <2>4. QED
    BY <2>2, <2>3
<1>7. QED
  BY <1>3, <1>5, <1>6

\* The body of the loop.
LEMMA CheckStep ==
  ASSUME IInv, Check
  PROVE  IInv'
<1> DEFINE n == Len(taken)
<1>1. /\ pc = "check" /\ UNCHANGED <<taken, queue, sawEnd, chain>>
      /\ since < n /\ taken # <<>>
  BY DEF Check, nodeVars, streamVars, IInv, Types, Running
<1>2. /\ pc' \in {"next", "idle"} /\ UNCHANGED <<metadata, wanted, since>>
      /\ pc' = "next" => result' = result /\ Clean(n)
      /\ pc' = "idle" =>
           /\ result' \in {"NodeApi", "Dispatch", "Ok", "RpcClient", "Panic"}
           /\ Readable(n) =>
                /\ result' = "Ok" => Before(n, wanted, "failed")
                /\ result' = "Dispatch" => Before(n, "failed", wanted)
                /\ result' \in {"Ok", "Dispatch"}
  <2>1. CASE current.kind = "changes" /\ CheckEvents
    BY <1>1, <2>1, EventsStep
  <2>2. CASE current.kind # "changes" /\ (Return("RpcClient") \/ Return("Panic"))
    <3>1. ~Readable(n)
      BY <2>2 DEF Readable, current
    <3>2. QED
      BY <2>2, <3>1 DEF Return
  <2>3. QED
    BY <2>1, <2>2 DEF Check
<1>3. Types' /\ OfTheChain'
  BY <1>1, <1>2 DEF IInv, Types, OfTheChain, Known
<1>4. Taken' = Taken /\ n \in Taken
  BY <1>1, <1>2 DEF Taken, IInv, Types
<1>5. /\ \A i : Clean(i)' <=> Clean(i)
      /\ \A i, e, f : Before(i, e, f)' <=> Before(i, e, f)
      /\ \A i : Readable(i)' <=> Readable(i)
  BY <1>1, <1>2 DEF Clean, Has, Before, Readable, EventsOf
<1>6. \A i \in Taken \ {n} : Clean(i)
  BY <1>1 DEF IInv, Running
<1>7. Running'
  BY <1>1, <1>2, <1>4, <1>5, <1>6 DEF IInv, Running
<1>8. FirstDecisiveEvent'
  <2> SUFFICES ASSUME pc' = "idle"
               PROVE  FirstDecisiveEvent'
    BY DEF FirstDecisiveEvent
  <2>1. \A i \in Taken' \ {Len(taken')} : (~Has(i, wanted) /\ ~Has(i, "failed"))'
    BY <1>1, <1>4, <1>5, <1>6 DEF Clean
  <2>2. result' # "NoStream" /\ (result' \in {"RpcClient", "Panic", "NodeApi"} => ~Readable(n)')
    BY <1>1, <1>2 DEF Readable
  <2>3. Readable(n)' => /\ result' = "Ok" => Before(n, wanted, "failed")'
                        /\ result' = "Dispatch" => Before(n, "failed", wanted)'
    BY <1>1, <1>2, <1>5 DEF Before, EventsOf
  <2>4. QED
    BY <1>1, <2>1, <2>2, <2>3 DEF FirstDecisiveEvent
<1>9. QED
  BY <1>3, <1>7, <1>8 DEF IInv

-----------------------------------------------------------------------------
LEMMA Steps == IInv /\ [Next]_vars => IInv'
<1> SUFFICES ASSUME IInv, [Next]_vars PROVE IInv'
  OBVIOUS
<1>1. CASE UNCHANGED vars
  <2>1. UNCHANGED <<taken, sawEnd, callVars, chain, queue>>
    BY <1>1 DEF vars, nodeVars, streamVars
  <2>2. Types' /\ OfTheChain'
    BY <2>1 DEF IInv, Types, OfTheChain, Known, callVars
  <2>3. QED
    BY <2>1, <2>2, CallUntouched DEF IInv, ChainGrows
<1>2. CASE Environment
  BY <1>2, EnvironmentStep
<1>3. CASE Wait \/ UpdateRuntime \/ Unsubscribe
  BY <1>3, BetweenWaits
<1>4. CASE Call
  BY <1>4, CallNextStep, NextSomeStep, NextNoneStep, CheckStep DEF Call
<1>5. QED
  BY <1>1, <1>2, <1>3, <1>4 DEF Next

(***************************************************************************)
(* wait_for_event_details passes over no event that ends the wait, in an   *)
(* earlier block or in the same, and ends for a reason.                    *)
(***************************************************************************)
THEOREM FirstDecisiveEventDecides == Spec => []FirstDecisiveEvent
<1>1. IInv => FirstDecisiveEvent
  BY DEF IInv
<1>2. QED
  BY Initially, Steps, <1>1, PTL DEF Spec
-----------------------------------------------------------------------------
(***************************************************************************)
(* Order.  What the subscription has delivered, taken or not, is of ever   *)
(* later blocks (Ascending); without a reconnection it is each block from  *)
(* the first one on (Gapless) up to the best one (UpToDate).  An event     *)
(* that was returned is of a block that was taken before the change set    *)
(* that is being looked at (Returned).                                     *)
(***************************************************************************)
Delivered == taken \o queue
IsBlock(i) == Delivered[i].kind # "garbled"

Ascending ==
  \A i, j \in DOMAIN Delivered : i < j /\ IsBlock(i) /\ IsBlock(j) =>
    \/ Delivered[i].block < Delivered[j].block
    \/ reconnects > 0 /\ Delivered[i].block = Delivered[j].block

Gapless ==
  reconnects = 0 =>
    \A j \in DOMAIN Delivered : IsBlock(j) =>
      \/ \A i \in 1..(j - 1) : ~IsBlock(i)
      \/ \E i \in 1..(j - 1) : IsBlock(i) /\ Delivered[j].block = Delivered[i].block + 1

UpToDate ==
  /\ \A i \in DOMAIN Delivered : Delivered[i].block <= Len(chain)
  /\ serving /\ ~closed /\ caller # "gone" =>
       \E i \in DOMAIN Delivered : IsBlock(i) /\ Delivered[i].block = Len(chain)
  /\ ~serving /\ reconnects = 0 => Delivered = <<>>

Returned ==
  /\ \A e \in DOMAIN returned : \E i \in DOMAIN taken :
       /\ taken[i].kind # "garbled" /\ returned[e][1] = taken[i].block
       /\ pc = "check" => i < Len(taken)
  /\ \A d, e \in DOMAIN returned :
       d < e => \/ returned[d][1] < returned[e][1]
                \/ reconnects > 0 /\ returned[d][1] = returned[e][1]

OrderInv ==
  /\ Types
  /\ pc = "check" => taken # <<>>
  /\ returned \in Seq(Nat \X Nat) /\ reconnects \in Nat
  /\ Ascending /\ Gapless /\ UpToDate /\ Returned

LEMMA Joined ==
  ASSUME NEW S, NEW s \in Seq(S), NEW t \in Seq(S)
  PROVE  /\ s \o t \in Seq(S) /\ Len(s \o t) = Len(s) + Len(t)
         /\ DOMAIN (s \o t) = 1..(Len(s) + Len(t)) /\ DOMAIN s = 1..Len(s)
         /\ \A i \in 1..Len(s) : (s \o t)[i] = s[i]
         /\ \A i \in 1..Len(t) : (s \o t)[Len(s) + i] = t[i]
OBVIOUS

LEMMA OnlyTheEmptyOne ==
  ASSUME NEW S, NEW s \in Seq(S), Len(s) = 0
  PROVE  s = <<>>
OBVIOUS

\* What goes into the channel is delivered next; taking it changes nothing.
LEMMA DeliveredSeq ==
  ASSUME Types
  PROVE  /\ Delivered \in Seq(ChangeSet) /\ DOMAIN Delivered = 1..Len(Delivered)
         /\ \A i \in DOMAIN Delivered : Delivered[i].block \in Nat
         /\ \A i \in DOMAIN taken : i \in DOMAIN Delivered /\ Delivered[i] = taken[i]
<1>1. taken \in Seq(ChangeSet) /\ queue \in Seq(ChangeSet)
  BY DEF Types
<1>2. /\ Delivered \in Seq(ChangeSet) /\ DOMAIN Delivered = 1..Len(Delivered)
      /\ Len(Delivered) = Len(taken) + Len(queue)
  BY <1>1, Joined DEF Delivered
<1>3. \A c \in ChangeSet : c.block \in Nat
  BY EventAssumption DEF ChangeSet
<1>4. \A i \in DOMAIN taken : i \in DOMAIN Delivered /\ Delivered[i] = taken[i]
  BY <1>1, <1>2, Joined DEF Delivered
<1>5. \A i \in DOMAIN Delivered : Delivered[i] \in ChangeSet
  BY <1>2
<1>6. QED
  BY <1>2, <1>3, <1>4, <1>5

LEMMA DeliveredNext ==
  ASSUME NEW c \in ChangeSet, Types, taken' = taken, queue' = Append(queue, c)
  PROVE  /\ Delivered' = Append(Delivered, c)
         /\ DOMAIN Delivered' = 1..(Len(Delivered) + 1)
         /\ Delivered'[Len(Delivered) + 1] = c
         /\ \A i \in DOMAIN Delivered : Delivered'[i] = Delivered[i]
<1>1. taken \in Seq(ChangeSet) /\ queue \in Seq(ChangeSet)
  BY DEF Types
<1>2. taken \o Append(queue, c) = Append(taken \o queue, c)
  BY <1>1
<1>3. Delivered' = Append(Delivered, c) /\ Delivered \in Seq(ChangeSet)
  BY <1>1, <1>2, Joined DEF Delivered
<1>4. QED
  BY <1>3, Appended

LEMMA TakingDelivers ==
  ASSUME Types, queue # <<>>, taken' = Append(taken, Head(queue)), queue' = Tail(queue)
  PROVE  Delivered' = Delivered
<1>1. taken \in Seq(ChangeSet) /\ queue \in Seq(ChangeSet)
  BY DEF Types
<1>2. Append(taken, Head(queue)) \o Tail(queue) = taken \o queue
  BY <1>1
<1>3. QED
  BY <1>2 DEF Delivered

\* The order of what was delivered, in a step that delivers nothing.
LEMMA NothingDelivered ==
  ASSUME OrderInv, Delivered' = Delivered, reconnects' \in Nat, reconnects <= reconnects',
         Len(chain') \in Nat, Len(chain) <= Len(chain'), Len(chain) \in Nat,
         serving' /\ ~closed' /\ caller' # "gone" =>
           serving /\ ~closed /\ caller # "gone" /\ Len(chain') = Len(chain),
         ~serving' /\ reconnects' = 0 => ~serving
  PROVE  Ascending' /\ Gapless' /\ UpToDate'
<1>1. reconnects \in Nat /\ Ascending /\ Gapless /\ UpToDate
  BY DEF OrderInv
<1>2. \A i : IsBlock(i)' <=> IsBlock(i)
  BY DEF IsBlock
<1>3. Ascending'
  BY <1>1, <1>2 DEF Ascending
<1>4. Gapless'
  BY <1>1, <1>2 DEF Gapless
<1>5. \A i \in DOMAIN Delivered : Delivered[i].block \in Nat
  BY DeliveredSeq DEF OrderInv
<1>6. UpToDate'
  BY <1>1, <1>2, <1>5 DEF UpToDate
<1>7. QED
  BY <1>3, <1>4, <1>6

\* One change set more.
LEMMA Delivers ==
  ASSUME OrderInv, NEW c \in ChangeSet, taken' = taken, queue' = Append(queue, c),
         Len(chain) \in Nat, Len(chain') \in Nat, Len(chain) <= Len(chain'),
         serving', reconnects' = reconnects, c.block = Len(chain'),
         \/ /\ c.kind = "garbled" /\ chain' = chain
            /\ serving /\ ~closed /\ caller # "gone"
         \/ /\ c.kind # "garbled"
            /\ \/ reconnects > 0
               \/ Delivered = <<>>
               \/ serving /\ ~closed /\ caller # "gone" /\ Len(chain') = Len(chain) + 1
  PROVE  Ascending' /\ Gapless' /\ UpToDate'
<1>1. /\ reconnects \in Nat /\ Ascending /\ Gapless /\ UpToDate
      /\ Types
  BY DEF OrderInv
<1>n. PICK n \in Nat : n = Len(Delivered)
  <2>1. Delivered \in Seq(ChangeSet)
    BY <1>1, DeliveredSeq
  <2>2. QED
    BY <2>1
<1>2. /\ n \in Nat /\ DOMAIN Delivered = 1..n
      /\ \A i \in 1..n : Delivered[i].block \in Nat /\ Delivered[i].block <= Len(chain)
  <2>1. DOMAIN Delivered = 1..n /\ \A i \in DOMAIN Delivered : Delivered[i].block \in Nat
    BY <1>n, <1>1, DeliveredSeq
  <2>2. \A i \in DOMAIN Delivered : Delivered[i].block <= Len(chain)
    BY <1>1 DEF UpToDate
  <2>3. QED
    BY <2>1, <2>2
<1>3. /\ DOMAIN Delivered' = 1..(n + 1) /\ Delivered'[n + 1] = c
      /\ \A i \in 1..n : Delivered'[i] = Delivered[i]
  BY <1>n, <1>1, <1>2, DeliveredNext
<1>4. /\ \A i \in 1..n : IsBlock(i)' <=> IsBlock(i)
      /\ IsBlock(n + 1)' <=> c.kind # "garbled"
  BY <1>3 DEF IsBlock
<1>5. \A i \in 1..(n + 1) : i \in 1..n \/ i = n + 1
  BY <1>2
<1>6. ASSUME c.kind # "garbled"
      PROVE  \A i \in 1..n : IsBlock(i) =>
               Delivered[i].block < c.block \/ (reconnects > 0 /\ Delivered[i].block = c.block)
  <2>1. CASE reconnects > 0
    BY <1>2, <2>1
  <2>2. CASE Delivered = <<>>
    BY <1>n, <1>2, <2>2
  <2>3. CASE Len(chain') = Len(chain) + 1
    BY <1>2, <2>3
  <2>4. QED
    BY <1>6, <2>1, <2>2, <2>3
<1>7. Ascending'
  <2> SUFFICES ASSUME NEW i \in 1..(n + 1), NEW j \in 1..(n + 1), i < j, IsBlock(i)', IsBlock(j)'
               PROVE  \/ Delivered'[i].block < Delivered'[j].block
                      \/ reconnects > 0 /\ Delivered'[i].block = Delivered'[j].block
    BY <1>3 DEF Ascending
  <2>1. i \in 1..n
    BY <1>2
  <2>2. CASE j \in 1..n
    <3>1. IsBlock(i) /\ IsBlock(j)
      BY <1>4, <2>1, <2>2
    <3>2. \/ Delivered[i].block < Delivered[j].block
          \/ reconnects > 0 /\ Delivered[i].block = Delivered[j].block
      BY <1>1, <1>2, <2>1, <2>2, <3>1 DEF Ascending
    <3>3. Delivered'[i] = Delivered[i] /\ Delivered'[j] = Delivered[j]
      BY <1>3, <2>1, <2>2
    <3>4. QED
      BY <3>2, <3>3
  <2>3. CASE j = n + 1
    <3>1. IsBlock(i) /\ c.kind # "garbled"
      BY <1>4, <2>1, <2>3
    <3>2. Delivered'[i] = Delivered[i] /\ Delivered'[j] = c
      BY <1>3, <2>1, <2>3
    <3>3. Delivered[i].block < c.block \/ (reconnects > 0 /\ Delivered[i].block = c.block)
      BY <1>6, <2>1, <3>1
    <3>4. QED
      BY <3>2, <3>3
  <2>4. QED
    BY <1>5, <2>2, <2>3
<1>8. Gapless'
  <2> SUFFICES ASSUME reconnects = 0, NEW j \in 1..(n + 1), IsBlock(j)'
               PROVE  \/ \A i \in 1..(j - 1) : ~IsBlock(i)'
                      \/ \E i \in 1..(j - 1) : IsBlock(i)' /\ Delivered'[j].block = Delivered'[i].block + 1
    BY <1>3 DEF Gapless
  <2>1. CASE j \in 1..n
    <3>1. \A i \in 1..(j - 1) : i \in 1..n
      BY <1>2, <2>1
    <3>2. \/ \A i \in 1..(j - 1) : ~IsBlock(i)
          \/ \E i \in 1..(j - 1) : IsBlock(i) /\ Delivered[j].block = Delivered[i].block + 1
      BY <1>1, <1>2, <1>4, <2>1 DEF Gapless
    <3>3. QED
      BY <1>3, <1>4, <2>1, <3>1, <3>2
  <2>2. CASE j = n + 1
    <3>1. c.kind # "garbled" /\ 1..(j - 1) = 1..n
      BY <1>2, <1>4, <2>2
    <3>2. CASE Delivered = <<>>
      BY <1>n, <1>2, <3>1, <3>2
    <3>3. CASE serving /\ ~closed /\ caller # "gone" /\ Len(chain') = Len(chain) + 1
      <4>1. PICK i \in 1..n : IsBlock(i) /\ Delivered[i].block = Len(chain)
        BY <1>1, <1>2, <3>3 DEF UpToDate
      <4>2. IsBlock(i)' /\ Delivered'[j].block = Delivered'[i].block + 1
        BY <1>3, <1>4, <2>2, <3>3, <4>1
      <4>3. QED
        BY <3>1, <4>1, <4>2
    <3>4. QED
      BY <3>1, <3>2, <3>3
  <2>3. QED
    BY <1>5, <2>1, <2>2
<1>9. UpToDate'
  <2>1. \A i \in 1..(n + 1) : Delivered'[i].block <= Len(chain')
    BY <1>2, <1>3, <1>5
  <2>2. serving' /\ ~closed' /\ caller' # "gone" =>
          \E i \in 1..(n + 1) : IsBlock(i)' /\ Delivered'[i].block = Len(chain')
    <3>1. CASE c.kind # "garbled"
      BY <1>2, <1>3, <1>4, <3>1
    <3>2. CASE c.kind = "garbled"
      <4>1. PICK i \in 1..n : IsBlock(i) /\ Delivered[i].block = Len(chain)
        BY <1>1, <1>2, <3>2 DEF UpToDate
      <4>2. IsBlock(i)' /\ Delivered'[i].block = Len(chain') /\ i \in 1..(n + 1)
        BY <1>2, <1>3, <1>4, <3>2, <4>1
      <4>3. QED
        BY <4>2
    <3>3. QED
      BY <3>1, <3>2
  <2>3. QED
    BY <1>3, <2>1, <2>2 DEF UpToDate
<1>10. QED
  BY <1>7, <1>8, <1>9

\* The channel goes with what was in it.
LEMMA CallerLeaves ==
  ASSUME OrderInv, taken' = taken, queue' = <<>>, caller' = "gone",
         UNCHANGED <<chain, serving, reconnects>>
  PROVE  Ascending' /\ Gapless' /\ UpToDate'
<1>1. Types /\ Ascending /\ Gapless /\ UpToDate
  BY DEF OrderInv
<1>n. PICK n \in Nat : n = Len(taken)
  BY <1>1 DEF Types
<1>2. /\ DOMAIN Delivered' = 1..n /\ 1..n \subseteq DOMAIN Delivered
      /\ \A i \in 1..n : Delivered'[i] = Delivered[i]
  <2>1. taken \in Seq(ChangeSet) /\ taken \o <<>> = taken
    BY <1>1 DEF Types
  <2>2. Delivered' = taken
    BY <2>1 DEF Delivered
  <2>3. DOMAIN taken = 1..n
    BY <1>n, <2>1
  <2>4. QED
    BY <1>1, <2>2, <2>3, DeliveredSeq
<1>3. \A i \in 1..n : IsBlock(i)' <=> IsBlock(i)
  BY <1>2 DEF IsBlock
<1>4. Ascending'
  BY <1>1, <1>2, <1>3 DEF Ascending
<1>5. Gapless'
  <2> SUFFICES ASSUME reconnects = 0, NEW j \in 1..n, IsBlock(j)'
               PROVE  \/ \A i \in 1..(j - 1) : ~IsBlock(i)'
                      \/ \E i \in 1..(j - 1) : IsBlock(i)' /\ Delivered'[j].block = Delivered'[i].block + 1
    BY <1>2 DEF Gapless
  <2>1. \A i \in 1..(j - 1) : i \in 1..n
    OBVIOUS
  <2>2. \/ \A i \in 1..(j - 1) : ~IsBlock(i)
        \/ \E i \in 1..(j - 1) : IsBlock(i) /\ Delivered[j].block = Delivered[i].block + 1
    BY <1>1, <1>2, <1>3 DEF Gapless
  <2>3. QED
    BY <1>2, <1>3, <2>1, <2>2
<1>6. UpToDate'
  <2>1. ~serving /\ reconnects = 0 => n = 0
    BY <1>1, <1>2 DEF UpToDate
  <2>2. n = 0 => Delivered' = <<>>
    <3>1. taken \in Seq(ChangeSet) /\ taken \o <<>> = taken
      BY <1>1 DEF Types
    <3>2. Delivered' = taken
      BY <3>1 DEF Delivered
    <3>3. n = 0 => taken = <<>>
      BY <1>n, <3>1, OnlyTheEmptyOne
    <3>4. QED
      BY <3>2, <3>3
  <2>3. QED
    BY <1>1, <1>2, <2>1, <2>2 DEF UpToDate
<1>7. QED
  BY <1>4, <1>5, <1>6

-----------------------------------------------------------------------------
\* Steps that return no event.
LEMMA ReturnedStays ==
  ASSUME OrderInv, returned' = returned, reconnects' \in Nat, reconnects <= reconnects',
         Len(taken) <= Len(taken'), \A i \in DOMAIN taken : i \in DOMAIN taken' /\ taken'[i] = taken[i],
         pc' = "check" => pc = "check" \/ Len(taken') = Len(taken) + 1
  PROVE  Returned'
<1>1. Types /\ reconnects \in Nat /\ Returned
  BY DEF OrderInv
<1>2. Len(taken) \in Nat /\ DOMAIN taken = 1..Len(taken)
  BY <1>1 DEF Types
<1>3. \A e \in DOMAIN returned : \E i \in DOMAIN taken' :
       /\ taken'[i].kind # "garbled" /\ returned[e][1] = taken'[i].block
       /\ pc' = "check" => i < Len(taken')
  <2> SUFFICES ASSUME NEW e \in DOMAIN returned
               PROVE  \E i \in DOMAIN taken' :
                        /\ taken'[i].kind # "garbled" /\ returned[e][1] = taken'[i].block
                        /\ pc' = "check" => i < Len(taken')
    OBVIOUS
  <2>1. PICK i \in DOMAIN taken :
          /\ taken[i].kind # "garbled" /\ returned[e][1] = taken[i].block
          /\ pc = "check" => i < Len(taken)
    BY <1>1 DEF Returned
  <2>2. pc' = "check" => i < Len(taken')
    BY <1>2, <2>1
  <2>3. QED
    BY <2>1, <2>2
<1>4. \A d, e \in DOMAIN returned :
       d < e => \/ returned[d][1] < returned[e][1]
                \/ reconnects' > 0 /\ returned[d][1] = returned[e][1]
  BY <1>1 DEF Returned
<1>5. QED
  BY <1>3, <1>4 DEF Returned

\* An event of the change set that is being looked at is returned.
LEMMA ReturnsEvent ==
  ASSUME OrderInv, pc = "check", current.kind # "garbled", NEW p \in Nat,
         returned' = Append(returned, <<current.block, p>>), pc' = "idle",
         UNCHANGED <<taken, reconnects>>
  PROVE  Returned' /\ returned' \in Seq(Nat \X Nat)
<1>1. Types /\ reconnects \in Nat /\ Returned /\ Ascending /\ returned \in Seq(Nat \X Nat) /\ taken # <<>>
  BY DEF OrderInv
<1>n. PICK n \in Nat : n = Len(taken)
  BY <1>1 DEF Types
<1>2. n \in DOMAIN taken /\ DOMAIN taken = 1..n /\ current = taken[n] /\ current.block \in Nat
  <2>1. n \in DOMAIN taken /\ DOMAIN taken = 1..n /\ current = taken[n]
    BY <1>1, <1>n DEF Types, current
  <2>2. QED
    BY <1>1, <2>1, DeliveredSeq
<1>3. <<current.block, p>> \in Nat \X Nat
  BY <1>2
<1>m. PICK m \in Nat : m = Len(returned)
  BY <1>1
<1>4. /\ returned' \in Seq(Nat \X Nat) /\ DOMAIN returned = 1..m
      /\ DOMAIN returned' = 1..(m + 1) /\ returned'[m + 1] = <<current.block, p>>
      /\ \A e \in 1..m : returned'[e] = returned[e]
  BY <1>1, <1>3, <1>m
<1>5. \A e \in 1..m :
        \/ returned[e][1] < current.block
        \/ reconnects > 0 /\ returned[e][1] = current.block
  <2> SUFFICES ASSUME NEW e \in 1..m
               PROVE  \/ returned[e][1] < current.block
                      \/ reconnects > 0 /\ returned[e][1] = current.block
    OBVIOUS
  <2>1. PICK i \in DOMAIN taken :
          taken[i].kind # "garbled" /\ returned[e][1] = taken[i].block /\ i < n
    BY <1>1, <1>n, <1>4 DEF Returned
  <2>2. /\ i \in DOMAIN Delivered /\ n \in DOMAIN Delivered
        /\ Delivered[i] = taken[i] /\ Delivered[n] = taken[n]
    BY <1>1, <1>2, DeliveredSeq
  <2>3. IsBlock(i) /\ IsBlock(n)
    BY <1>2, <2>1, <2>2 DEF IsBlock
  <2>4. QED
    BY <1>1, <1>2, <2>1, <2>2, <2>3 DEF Ascending
<1>6. \A e \in DOMAIN returned' : \E i \in DOMAIN taken :
         taken[i].kind # "garbled" /\ returned'[e][1] = taken[i].block
  <2>1. \A e \in 1..m : \E i \in DOMAIN taken :
         taken[i].kind # "garbled" /\ returned[e][1] = taken[i].block
    BY <1>1, <1>4 DEF Returned
  <2>2. taken[n].kind # "garbled" /\ returned'[m + 1][1] = taken[n].block
    BY <1>2, <1>4
  <2>3. \A e \in 1..(m + 1) : e \in 1..m \/ e = m + 1
    OBVIOUS
  <2> SUFFICES ASSUME NEW e \in 1..(m + 1)
               PROVE  \E i \in DOMAIN taken :
                        taken[i].kind # "garbled" /\ returned'[e][1] = taken[i].block
    BY <1>4
  <2>4. CASE e \in 1..m
    <3>1. returned'[e][1] = returned[e][1]
      BY <1>4, <2>4
    <3>2. QED
      BY <2>1, <2>4, <3>1
  <2>5. CASE e = m + 1
    <3>1. n \in DOMAIN taken
      BY <1>2
    <3>2. QED
      BY <2>2, <2>5, <3>1
  <2>6. QED
    BY <2>3, <2>4, <2>5
<1>7. \A d, e \in DOMAIN returned' :
       d < e => \/ returned'[d][1] < returned'[e][1]
                \/ reconnects > 0 /\ returned'[d][1] = returned'[e][1]
  <2> SUFFICES ASSUME NEW d \in 1..(m + 1), NEW e \in 1..(m + 1), d < e
               PROVE  \/ returned'[d][1] < returned'[e][1]
                      \/ reconnects > 0 /\ returned'[d][1] = returned'[e][1]
    BY <1>4
  <2>1. d \in 1..m /\ returned'[d][1] = returned[d][1]
    <3>1. d \in 1..m
      OBVIOUS
    <3>2. QED
      BY <1>4, <3>1
  <2>2. CASE e \in 1..m
    <3>1. returned'[e][1] = returned[e][1]
      BY <1>4, <2>2
    <3>2. \/ returned[d][1] < returned[e][1]
          \/ reconnects > 0 /\ returned[d][1] = returned[e][1]
      BY <1>1, <1>4, <2>1, <2>2 DEF Returned
    <3>3. QED
      BY <2>1, <3>1, <3>2
  <2>3. CASE e = m + 1
    <3>1. returned'[e][1] = current.block
      BY <1>4, <2>3
    <3>2. QED
      BY <1>5, <2>1, <3>1
  <2>4. e \in 1..m \/ e = m + 1
    OBVIOUS
  <2>5. QED
    BY <2>2, <2>3, <2>4
<1>8. Returned'
  BY <1>6, <1>7 DEF Returned
<1>9. QED
  BY <1>4, <1>8

-----------------------------------------------------------------------------
LEMMA OrderStarts == Init => OrderInv
<1> SUFFICES ASSUME Init PROVE OrderInv
  OBVIOUS
<1>1. Types
  BY Initially DEF IInv
<1>2. /\ taken = <<>> /\ queue = <<>> /\ pc = "idle" /\ returned = <<>> /\ reconnects = 0
      /\ chain = <<>> /\ ~serving
  BY DEF Init
<1>3. Delivered = <<>>
  <2>1. \A s : s = <<>> => s \o s = <<>>
    OBVIOUS
  <2>2. QED
    BY <1>2, <2>1 DEF Delivered
<1>4. Ascending /\ Gapless /\ UpToDate
  BY <1>2, <1>3, Empty DEF Ascending, Gapless, UpToDate
<1>5. Returned /\ returned \in Seq(Nat \X Nat)
  BY <1>2, Empty DEF Returned
<1>6. QED
  BY <1>1, <1>2, <1>4, <1>5 DEF OrderInv

LEMMA SentIsAChangeSet ==
  \A n \in 0..MaxBlocks : /\ ValueAt(n) \in ChangeSet
                          /\ [kind |-> "garbled", block |-> n] \in ChangeSet
BY DEF ValueAt, ChangeSet

\* What a step of the node or of the client's thread delivers is in order.
LEMMA OrderOfTheEnvironment ==
  ASSUME OrderInv, Environment
  PROVE  Ascending' /\ Gapless' /\ UpToDate' /\ reconnects' \in Nat /\ reconnects <= reconnects'
<1>1. Types /\ reconnects \in Nat /\ UpToDate
  BY DEF OrderInv
<1>2. Len(chain) \in Nat /\ Len(chain) \in 0..MaxBlocks /\ MaxBlocks \in Nat
  BY <1>1, EventAssumption DEF Types
<1>3. CASE NodeSubscribes
  <2>1. ~serving /\ serving' /\ UNCHANGED <<chain, reconnects>>
    BY <1>3 DEF NodeSubscribes
  <2>2. CASE closed \/ caller = "gone"
    <3>1. UNCHANGED <<queue, taken, closed, caller>>
      BY <1>3, <2>2 DEF NodeSubscribes, Deliver, streamVars
    <3>2. Delivered' = Delivered
      BY <3>1 DEF Delivered
    <3>3. QED
      BY <1>1, <1>2, <2>1, <2>2, <3>1, <3>2, NothingDelivered
  <2>3. CASE ~(closed \/ caller = "gone")
    <3>1. PICK c \in ChangeSet : c = ValueAt(Len(chain))
      BY <1>2, SentIsAChangeSet
    <3>2. c.block = Len(chain') /\ c.kind # "garbled"
      BY <2>1, <3>1 DEF ValueAt
    <3>3. taken' = taken /\ queue' = Append(queue, c)
      BY <1>3, <2>3, <3>1 DEF NodeSubscribes, Deliver
    <3>4. reconnects > 0 \/ Delivered = <<>>
      BY <1>1, <2>1 DEF UpToDate
    <3>5. QED
      BY <1>1, <1>2, <2>1, <3>2, <3>3, <3>4, Delivers
  <2>4. QED
    BY <2>2, <2>3
<1>4. CASE NodeBlock
  <2>1. UNCHANGED <<serving, reconnects>> /\ Len(chain) < MaxBlocks
    BY <1>4 DEF NodeBlock
  <2>2. Len(chain') = Len(chain) + 1
    <3>1. PICK b : chain' = Append(chain, b)
      BY <1>4 DEF NodeBlock
    <3>2. chain \in Seq(Block)
      BY <1>1 DEF Types
    <3>3. QED
      BY <3>1, <3>2
  <2>3. CASE ~serving \/ closed \/ caller = "gone"
    <3>1. UNCHANGED <<queue, taken, closed, caller>>
      BY <1>4, <2>3 DEF NodeBlock, Deliver, streamVars
    <3>2. Delivered' = Delivered
      BY <3>1 DEF Delivered
    <3>3. QED
      BY <1>1, <1>2, <2>1, <2>2, <2>3, <3>1, <3>2, NothingDelivered
  <2>4. CASE serving /\ ~closed /\ caller # "gone"
    <3>0. Len(chain') \in 0..MaxBlocks
      BY <1>2, <2>1, <2>2
    <3>1. PICK c \in ChangeSet : c = ValueAt(Len(chain'))
      BY <3>0, SentIsAChangeSet
    <3>2. c.block = Len(chain') /\ c.kind # "garbled"
      BY <3>1 DEF ValueAt
    <3>3. taken' = taken /\ queue' = Append(queue, c)
      BY <1>4, <2>4, <3>1 DEF NodeBlock, Deliver
    <3>4. QED
      BY <1>1, <1>2, <2>1, <2>2, <2>4, <3>2, <3>3, Delivers
  <2>5. QED
    BY <2>3, <2>4
<1>5. CASE NodeSendsGarbled
  <2>1. PICK c \in ChangeSet : c = [kind |-> "garbled", block |-> Len(chain)]
    BY <1>2, SentIsAChangeSet
  <2>2. /\ serving /\ ~closed /\ caller # "gone" /\ UNCHANGED <<chain, serving, reconnects>>
        /\ taken' = taken /\ queue' = Append(queue, c)
    BY <1>5, <2>1 DEF NodeSendsGarbled, nodeVars
  <2>3. c.block = Len(chain') /\ c.kind = "garbled"
    BY <2>1, <2>2
  <2>4. QED
    BY <1>1, <1>2, <2>2, <2>3, Delivers
<1>6. CASE SessionLost
  <2>1. /\ UNCHANGED <<chain, queue, taken, closed, caller>>
        /\ ~serving' /\ reconnects' = reconnects + 1
    BY <1>6 DEF SessionLost, streamVars
  <2>2. Delivered' = Delivered
    BY <2>1 DEF Delivered
  <2>3. QED
    BY <1>1, <1>2, <2>1, <2>2, NothingDelivered
<1>7. CASE StreamCloses
  <2>1. UNCHANGED <<chain, serving, reconnects, queue, taken, caller>> /\ closed'
    BY <1>7 DEF StreamCloses, nodeVars
  <2>2. Delivered' = Delivered
    BY <2>1 DEF Delivered
  <2>3. QED
    BY <1>1, <1>2, <2>1, <2>2, NothingDelivered
<1>8. QED
  BY <1>3, <1>4, <1>5, <1>6, <1>7 DEF Environment

\* The caller takes what was delivered, or leaves it.
LEMMA OrderOfTheCaller ==
  ASSUME OrderInv, Wait \/ UpdateRuntime \/ Unsubscribe \/ Call
  PROVE  Ascending' /\ Gapless' /\ UpToDate' /\ UNCHANGED <<chain, reconnects>>
<1>1. Types /\ reconnects \in Nat
  BY DEF OrderInv
<1>2. Len(chain) \in Nat
  BY <1>1 DEF Types
<1>3. UNCHANGED <<chain, serving, reconnects>>
  BY DEF Wait, UpdateRuntime, Unsubscribe, Call, CallNext, NextSome, NextNone, Check, nodeVars
<1>4. CASE Unsubscribe
  BY <1>3, <1>4, CallerLeaves DEF Unsubscribe
<1>5. CASE Wait \/ UpdateRuntime \/ Call
  <2>2. Delivered' = Delivered
    <3>1. CASE NextSome
      BY <1>1, <3>1, TakingDelivers DEF NextSome
    <3>2. CASE Wait \/ UpdateRuntime \/ CallNext \/ NextNone \/ Check
      <4>1. UNCHANGED <<queue, taken>>
        BY <3>2 DEF Wait, UpdateRuntime, CallNext, NextNone, Check, streamVars
      <4>2. QED
        BY <4>1 DEF Delivered
    <3>3. QED
      BY <1>5, <3>1, <3>2 DEF Call
  <2>3. closed' = closed /\ (caller' # "gone" => caller # "gone")
    BY <1>5 DEF Wait, UpdateRuntime, Call, CallNext, NextSome, NextNone, Check, streamVars
  <2>4. QED
    BY <1>1, <1>2, <1>3, <2>2, <2>3, NothingDelivered
<1>6. QED
  BY <1>4, <1>5

\* An event is returned by Check alone.
LEMMA ReturnedInOrder ==
  ASSUME IInv, OrderInv, Next, reconnects' \in Nat, reconnects <= reconnects'
  PROVE  Returned' /\ returned' \in Seq(Nat \X Nat)
<1>1. Types /\ returned \in Seq(Nat \X Nat) /\ taken \in Seq(ChangeSet)
  BY DEF OrderInv, Types
<1>2. Len(taken) \in Nat
  BY <1>1
<1>3. CASE NextSome
  <2>1. /\ queue # <<>> /\ taken' = Append(taken, Head(queue))
        /\ pc' = "check" /\ returned' = returned
    BY <1>3 DEF NextSome
  <2>2. Head(queue) \in ChangeSet
    BY <1>1, <2>1, TakenOff DEF Types
  <2>3. /\ Len(taken') = Len(taken) + 1
        /\ \A i \in DOMAIN taken : i \in DOMAIN taken' /\ taken'[i] = taken[i]
    BY <1>1, <2>1, <2>2, Appended
  <2>4. QED
    BY <1>1, <1>2, <2>1, <2>3, ReturnedStays
<1>4. CASE Environment \/ Wait \/ UpdateRuntime \/ Unsubscribe \/ CallNext \/ NextNone
  <2>1. UNCHANGED <<taken, returned>>
    BY <1>4 DEF Environment, NodeSubscribes, NodeBlock, NodeSendsGarbled, SessionLost, StreamCloses,
      Deliver, Wait, UpdateRuntime, Unsubscribe, CallNext, NextNone, streamVars, callVars
  <2>2. pc' = "check" => pc = "check"
    BY <1>4 DEF Environment, NodeSubscribes, NodeBlock, NodeSendsGarbled, SessionLost, StreamCloses,
      Wait, UpdateRuntime, Unsubscribe, CallNext, NextNone, Return, callVars
  <2>3. QED
    BY <1>1, <1>2, <2>1, <2>2, ReturnedStays
<1>5. CASE Check
  <2>1. pc = "check" /\ pc' # "check" /\ UNCHANGED <<taken, reconnects>>
    BY <1>5 DEF Check, CheckEvents, Return, nodeVars, streamVars
  <2>2. CASE returned' = returned
    BY <1>1, <1>2, <2>1, <2>2, ReturnedStays
  <2>3. CASE returned' # returned
    <3>1. current.kind = "changes" /\ CheckEvents
      BY <1>5, <2>3 DEF Check
    <3>2. PICK events \in Readings(chain[current.block]) : \E i \in DOMAIN events :
             returned' = Append(returned, <<current.block, i>>) /\ pc' = "idle"
      BY <2>3, <3>1 DEF CheckEvents, Return
    <3>3. DOMAIN events \subseteq Nat
      <4>1. current.block \in DOMAIN chain
        <5>1. Len(taken) \in DOMAIN taken
          BY <1>1, <2>1 DEF OrderInv
        <5>2. QED
          BY <3>1, <5>1 DEF IInv, OfTheChain, Known, current
      <4>2. chain[current.block].events \in Seq(Event)
        <5>1. \A b \in DOMAIN chain : chain[b] \in Block
          BY <1>1 DEF Types
        <5>2. chain[current.block].events \in BlockEvents
          BY <4>1, <5>1 DEF Block
        <5>3. QED
          BY <5>2, EventAssumption
      <4>3. DOMAIN events = DOMAIN chain[current.block].events
        BY DEF Readings
      <4>4. QED
        BY <4>2, <4>3
    <3>4. PICK i \in Nat : returned' = Append(returned, <<current.block, i>>) /\ pc' = "idle"
      BY <3>2, <3>3
    <3>5. QED
      BY <2>1, <3>1, <3>4, ReturnsEvent
  <2>4. QED
    BY <2>2, <2>3
<1>6. QED
  BY <1>3, <1>4, <1>5 DEF Next, Call

LEMMA OrderSteps == IInv /\ OrderInv /\ IInv' /\ [Next]_vars => OrderInv'
<1> SUFFICES ASSUME IInv, OrderInv, IInv', [Next]_vars PROVE OrderInv'
  OBVIOUS
<1>1. Types' /\ (pc' = "check" => taken' # <<>>)
  <2>1. Types' /\ (pc' = "check" => since' < Len(taken'))
    BY DEF IInv, Running
  <2>2. taken' = <<>> => Len(taken') = 0
    BY Empty
  <2>3. QED
    BY <2>1, <2>2 DEF Types
<1>2. CASE Next
  <2>1. Ascending' /\ Gapless' /\ UpToDate' /\ reconnects' \in Nat /\ reconnects <= reconnects'
    <3>1. CASE Environment
      BY <3>1, OrderOfTheEnvironment
    <3>2. CASE Wait \/ UpdateRuntime \/ Unsubscribe \/ Call
      BY <3>2, OrderOfTheCaller DEF OrderInv
    <3>3. QED
      BY <1>2, <3>1, <3>2 DEF Next
  <2>2. QED
    BY <1>1, <1>2, <2>1, ReturnedInOrder DEF OrderInv
<1>3. CASE UNCHANGED vars
  <2>1. UNCHANGED <<chain, serving, reconnects, queue, taken, closed, caller, returned, pc>>
    BY <1>3 DEF vars, nodeVars, streamVars, callVars
  <2>2. Delivered' = Delivered
    BY <2>1 DEF Delivered
  <2>3. \A i : IsBlock(i)' <=> IsBlock(i)
    BY <2>2 DEF IsBlock
  <2>4. Ascending' /\ Gapless' /\ UpToDate' /\ Returned'
    BY <2>1, <2>2, <2>3 DEF OrderInv, Ascending, Gapless, UpToDate, Returned
  <2>5. QED
    BY <1>1, <2>1, <2>4 DEF OrderInv
<1>4. QED
  BY <1>2, <1>3

LEMMA OrderIsOrder == OrderInv => EventsComeInOrder
<1> SUFFICES ASSUME OrderInv PROVE EventsComeInOrder
  OBVIOUS
<1>1. Types /\ reconnects \in Nat /\ Ascending /\ Gapless /\ Returned
  BY DEF OrderInv
<1>2. ASSUME NEW i \in DOMAIN taken, NEW j \in DOMAIN taken, Successive(i, j)
      PROVE  \/ taken[j].block = taken[i].block + 1
             \/ reconnects > 0 /\ taken[j].block >= taken[i].block
  <2>1. i \in Nat /\ j \in Nat /\ i \in 1..Len(taken) /\ j \in 1..Len(taken) /\ DOMAIN taken = 1..Len(taken) /\ Len(taken) \in Nat
    BY <1>1 DEF Types
  <2>2. \A k \in DOMAIN taken : k \in DOMAIN Delivered /\ Delivered[k] = taken[k] /\ taken[k].block \in Nat
    BY <1>1, DeliveredSeq
  <2>3. i < j /\ \A k \in i..j : IsBlock(k) <=> k \in {i, j}
    BY <1>2, <2>1, <2>2 DEF Successive, IsBlock
  <2>4. IsBlock(i) /\ IsBlock(j)
    BY <2>1, <2>3
  <2>5. \/ taken[i].block < taken[j].block
        \/ reconnects > 0 /\ taken[i].block = taken[j].block
    BY <1>1, <2>2, <2>3, <2>4 DEF Ascending
  <2>6. CASE reconnects > 0
    BY <2>2, <2>5, <2>6
  <2>7. CASE reconnects = 0
    <3>1. PICK k \in 1..(j - 1) : IsBlock(k) /\ Delivered[j].block = Delivered[k].block + 1
      BY <1>1, <2>1, <2>2, <2>3, <2>4, <2>7 DEF Gapless
    <3>2. k \in DOMAIN taken
      BY <2>1
    <3>3. ~(k > i)
      BY <2>1, <2>3, <3>1
    <3>4. ~(k < i)
      <4>1. k < i => taken[k].block < taken[i].block
        BY <1>1, <2>2, <2>4, <2>7, <3>1, <3>2 DEF Ascending
      <4>2. QED
        BY <2>2, <2>5, <2>7, <3>1, <3>2, <4>1
    <3>5. k = i
      BY <2>1, <3>3, <3>4
    <3>6. QED
      BY <2>2, <3>1, <3>5
  <2>8. QED
    BY <1>1, <2>6, <2>7
<1>3. QED
  BY <1>1, <1>2 DEF EventsComeInOrder, Returned

(***************************************************************************)
(* While no session is lost, wait_for_event_details looks at the blocks    *)
(* one after the other, and successive waits return events of ever later   *)
(* blocks.                                                                 *)
(***************************************************************************)
THEOREM EventsAreInOrder == Spec => []EventsComeInOrder
<1>1. Init => IInv /\ OrderInv
  BY Initially, OrderStarts
<1>2. (IInv /\ OrderInv) /\ [Next]_vars => (IInv /\ OrderInv)'
  BY Steps, OrderSteps
<1>3. QED
  BY <1>1, <1>2, OrderIsOrder, PTL DEF Spec
=============================================================================
