----------------------------- MODULE EventReading ---------------------------
(***************************************************************************)
(* Reading the events of a block: the runtime has written them to          *)
(* System.Events, and the client, whose metadata may be of another         *)
(* runtime, goes through them with the iterator of Events (iter) and looks *)
(* for a static event type (find).  A step is one call of the iterator's   *)
(* closure.  What an event says is then asked of EventDetails, and an      *)
(* ExtrinsicFailed is made a DispatchError, as wait_for_event_details does.*)
(*                                                                         *)
(* The runtime is not in this repository; it is modelled from what the     *)
(* client expects of it.  An event is a record: its phase, the place at    *)
(* which the runtime's metadata declares it (number of the pallet, number  *)
(* of the variant), the bytes of its fields and the values these stand     *)
(* for, how many topics it has, and, of a failure, the place of the error. *)
(***************************************************************************)
EXTENDS RuntimeEvents

CONSTANTS
  RawMetadata,      \* sequence of the raw metadata of the successive runtimes
  Holders,          \* for each runtime: those whose metadata a client of it may still, or already, hold
  EventBlocks,      \* for each runtime: the sequences of events that its blocks may have
  StaticEvents      \* what find is called with: [pallet, event, tys]

VARIABLES
  maker,     \* the runtime that made the block
  held,      \* the runtime whose metadata the client holds
  events,    \* the block's events
  sought,    \* the static event type of find
  stage,     \* made, stored, reading or done
  wire,      \* the value of System.Events
  num,       \* the number of events the client expects
  pos,       \* the iterator: bytes behind it
  index,     \* and events behind it
  got,       \* what the iterator has given
  found      \* what find has given

exchange == <<maker, held, events, sought>>
readingVars == <<exchange, stage, wire, num, pos, index, got, found>>

Tables == [r \in DOMAIN RawMetadata |-> MetadataFrom(RawMetadata[r])]
api == Tables[held]

-----------------------------------------------------------------------------
(* The runtime. *)

PalletAt(raw, at) == raw.pallets[at[1]]

\* Where the pallets declare variants, of the enums of one kind (events or errors).
Places(raw, part(_)) ==
  UNION {{<<i, j>> : j \in DOMAIN raw.types[part(raw.pallets[i])].variants} :
           i \in {i \in DOMAIN raw.pallets : part(raw.pallets[i]) # None}}

EventPlaces(raw) == Places(raw, LAMBDA p : p.event)
ErrorPlaces(raw) == Places(raw, LAMBDA p : p.error)
EventAt(raw, at) == raw.types[PalletAt(raw, at).event].variants[at[2]]
ErrorAt(raw, at) == raw.types[PalletAt(raw, at).error].variants[at[2]]

\* The two bytes that stand for an event, and for an error.
EventKey(raw, at) == <<PalletAt(raw, at).index, EventAt(raw, at).index>>
ErrorKey(raw, at) == <<PalletAt(raw, at).index, ErrorAt(raw, at).index>>

IsNamedAs(raw, at, E) == PalletAt(raw, at).name = E.pallet /\ EventAt(raw, at).name = E.event

\* An event as the runtime writes it: phase, indexes, fields and topics.
PhaseBytes(phase) == IF phase[1] = 0 THEN <<0>> \o LittleEndian(phase[2], 4) ELSE phase
TopicBytes(n) == CompactBytes(n) \o [i \in 1 .. HashBytes * n |-> 0]
EventBytes(raw, e) ==
  PhaseBytes(e.phase) \o EventKey(raw, e.at) \o e.fields \o TopicBytes(e.topics)

\* The last events of a block, by how many they are, and all of them behind their number.
LastEvents(raw, b) ==
  LET last[n \in 0 .. Len(b)] ==
        IF n = 0 THEN <<>> ELSE EventBytes(raw, b[Len(b) - n + 1]) \o last[n - 1]
  IN  last
StoredEvents(raw, b) == CompactBytes(Len(b)) \o LastEvents(raw, b)[Len(b)]

-----------------------------------------------------------------------------
(* What the runtimes guarantee. *)

\* Metadata that the client accepts, in which an index is a byte.
ASSUME RawMetadataAssumption ==
  /\ IsASeq(RawMetadata)
  /\ \A r \in DOMAIN RawMetadata :
       LET raw == RawMetadata[r] IN
       /\ InvalidMetadata(raw) = ""
       /\ IsASeq(raw.pallets)
       /\ \A i \in DOMAIN raw.pallets :
            LET p == raw.pallets[i] IN
            /\ p.index \in Byte
            /\ p.event # None => IsASeq(raw.types[p.event].variants)
            /\ p.error # None => IsASeq(raw.types[p.error].variants)
       /\ \A at \in EventPlaces(raw) : EventAt(raw, at).index \in Byte
       /\ \A at \in ErrorPlaces(raw) : ErrorAt(raw, at).index \in Byte

\* The indexes that DispatchError gives to an error of a pallet.
ModuleIndexes(raw) ==
  LET variants == raw.types["DispatchError"].variants
  IN  {variants[i].index : i \in {i \in DOMAIN variants : variants[i].name = "Module"}}

\* Runtimes that go together may add and drop events and errors, but an index is
\* never used for two; and an error of a pallet is always told by the same index.
ASSUME CompatibleAssumption ==
  \A r \in DOMAIN RawMetadata : Holders[r] \subseteq DOMAIN RawMetadata /\ \A c \in Holders[r] \cup {r} :
    LET raw == RawMetadata[r]
        other == RawMetadata[c]
    IN  /\ \A at \in EventPlaces(raw), place \in EventPlaces(other) :
             EventKey(raw, at) = EventKey(other, place) =>
               /\ PalletAt(raw, at).name = PalletAt(other, place).name
               /\ EventAt(raw, at) = EventAt(other, place)
        /\ \A at \in ErrorPlaces(raw), place \in ErrorPlaces(other) :
             ErrorKey(raw, at) = ErrorKey(other, place) =>
               /\ PalletAt(raw, at).name = PalletAt(other, place).name
               /\ ErrorAt(raw, at).name = ErrorAt(other, place).name
        /\ "DispatchError" \in DOMAIN other.types /\ other.types["DispatchError"].def = "Variant"
        /\ IsASeq(other.types["DispatchError"].variants)
        /\ ModuleIndexes(other) # {}
        /\ \A x \in ModuleIndexes(raw), y \in ModuleIndexes(other) : x = y

\* What is in a block, and where.
ASSUME EventBlocksAssumption ==
  \A r \in DOMAIN RawMetadata : \A b \in EventBlocks[r] :
    /\ IsASeq(b) /\ IsU32(Len(b))
    /\ \A k \in DOMAIN b :
         /\ \/ Len(b[k].phase) = 2 /\ b[k].phase = <<0, b[k].phase[2]>> /\ IsU32(b[k].phase[2])
            \/ b[k].phase \in {<<1>>, <<2>>}
         /\ b[k].at \in EventPlaces(RawMetadata[r])
         /\ b[k].fields \in Seq(Byte)
         /\ IsU32(b[k].topics)

\* decode_as_type gives back the values of the fields and takes their bytes only,
\* whatever follows them: the topics and the events behind, or nothing.
ASSUME DecodeAssumption ==
  \A r \in DOMAIN RawMetadata : \A b \in EventBlocks[r] : \A k \in DOMAIN b :
    LET tys == EventAt(RawMetadata[r], b[k].at).tys
    IN  \A rest \in {<<>>, TopicBytes(b[k].topics) \o LastEvents(RawMetadata[r], b)[Len(b) - k]} :
          DecodeFields(b[k].fields \o rest, tys) = Read(b[k].vals, rest)

\* A static type has the fields of the event that it stands for.
ASSUME StaticEventsAssumption ==
  \A E \in StaticEvents : \A r \in DOMAIN RawMetadata : \A at \in EventPlaces(RawMetadata[r]) :
    IsNamedAs(RawMetadata[r], at, E) => E.tys = EventAt(RawMetadata[r], at).tys

\* The fields of System.ExtrinsicFailed begin with the DispatchError: for an error
\* of a pallet, its index, the pallet's and the error's.
ExtrinsicFailed == [pallet |-> "System", event |-> "ExtrinsicFailed"]

ASSUME FailuresAssumption ==
  \A r \in DOMAIN RawMetadata : \A b \in EventBlocks[r] : \A k \in DOMAIN b :
    LET raw == RawMetadata[r] IN
    IsNamedAs(raw, b[k].at, ExtrinsicFailed) =>
      IF b[k].failure = <<>>
      THEN b[k].fields # <<>> /\ b[k].fields[1] \notin ModuleIndexes(raw)
      ELSE /\ b[k].failure[1] \in ErrorPlaces(raw)
           /\ Len(b[k].fields) >= 3
           /\ b[k].fields[1] \in ModuleIndexes(raw)
           /\ <<b[k].fields[2], b[k].fields[3]>> = ErrorKey(raw, b[k].failure[1])

-----------------------------------------------------------------------------

ReadingInit ==
  /\ maker \in DOMAIN RawMetadata /\ held \in Holders[maker]
  /\ events \in EventBlocks[maker]
  /\ sought \in StaticEvents
  /\ stage = "made" /\ wire = <<>>
  /\ num = 0 /\ pos = 0 /\ index = 0
  /\ got = <<>> /\ found = <<>>

StoreEvents ==
  /\ stage = "made"
  /\ wire' = StoredEvents(RawMetadata[maker], events)
  /\ stage' = "stored"
  /\ UNCHANGED <<exchange, num, pos, index, got, found>>

-----------------------------------------------------------------------------
(* The client. *)

\* Events::new
NewEvents ==
  /\ stage = "stored"
  /\ pos' = Events(wire).start /\ num' = Events(wire).num
  /\ stage' = "reading"
  /\ UNCHANGED <<exchange, wire, index, got, found>>

Exhausted == Len(wire) <= pos \/ num = index

\* The iterator gives item, and find what it makes of it.
Give(item) ==
  /\ got' = Append(got, item)
  /\ found' = found \o FoundIn(api, wire, item, sought)
  /\ UNCHANGED <<exchange, stage, wire, num>>

NextEvent ==
  /\ stage = "reading" /\ ~Exhausted
  /\ LET item == EventDetails(api, wire, pos, index)
     IN  /\ item.err = ""
         /\ Give(item)
         /\ pos' = pos + (item.end - item.start)
         /\ index' = index + 1

\* Variant of StopReading that goes on behind the byte it could not read at.
GoOnReading == pos' = pos + 1 /\ UNCHANGED index

\* The end of the bytes: from now on there is nothing more.
StopReading == pos' = Len(wire) /\ UNCHANGED index

NextError ==
  /\ stage = "reading" /\ ~Exhausted
  /\ LET item == EventDetails(api, wire, pos, index)
     IN  item.err # "" /\ Give(item)
  /\ StopReading

NoMoreEvents ==
  /\ stage = "reading" /\ Exhausted
  /\ stage' = "done"
  /\ UNCHANGED <<exchange, wire, num, pos, index, got, found>>

ReadingNext == StoreEvents \/ NewEvents \/ NextEvent \/ NextError \/ NoMoreEvents

ReadingSpec == ReadingInit /\ [][ReadingNext]_readingVars

\* subscribe_events.rs: the events that are taken for a failure.
extrinsic_has_failed(m, bytes, ev) ==
  LET md == event_metadata(m, bytes, ev) IN md.pallet = "System" /\ md.event = "ExtrinsicFailed"

-----------------------------------------------------------------------------
(* Properties. *)

made == RawMetadata[maker]
hold == RawMetadata[held]

\* The client's metadata has an event, and an error, under the index it came with.
KnownEvent(e) == \E place \in EventPlaces(hold) : EventKey(hold, place) = EventKey(made, e.at)
KnownError(at) == \E place \in ErrorPlaces(hold) : ErrorKey(hold, place) = ErrorKey(made, at)

\* Event i and all before it are known.
Legible(i) == \A j \in 1 .. i : KnownEvent(events[j])

\* What was read, ev, is the i-th event of the block.
IsEvent(i, ev) ==
  LET e == events[i]
      declared == EventAt(made, e.at)
  IN  /\ ev.err = "" /\ ev.index = i - 1 /\ ev.phase = e.phase
      /\ event_metadata(api, wire, ev) =
           [pallet |-> PalletAt(made, e.at).name, event |-> declared.name,
            names |-> declared.names, tys |-> declared.tys]
      /\ field_values(api, wire, ev) = Read([names |-> declared.names, vals |-> e.vals], <<>>)

\* The events of the sought type among the first n.
Matches(n) == {i \in 1 .. n : Legible(i) /\ IsNamedAs(made, events[i].at, sought)}

\* The iterator gives the events of the block, each with its phase, its names and
\* the content of its fields, up to the first that the client's metadata does
\* not know; for that it gives one error, and after the error nothing.  A static
\* event type finds each of its events among them, in order, and the error.
EventsAreRead ==
  /\ \A i \in DOMAIN got :
       /\ Legible(i) => IsEvent(i, got[i])
       /\ ~Legible(i) => i = Len(got) /\ Legible(i - 1) /\ got[i].err = "EventNotFound"
  /\ Len(got) <= Len(events)
  /\ stage = "done" => Len(got) = Len(events) \/ ~Legible(Len(got))
  /\ Len(found) = Cardinality(Matches(Len(got))) + (IF Legible(Len(got)) THEN 0 ELSE 1)
  /\ \A i \in Matches(Len(got)) :
       found[Cardinality(Matches(i))] = [err |-> "", val |-> events[i].vals]
  /\ ~Legible(Len(got)) => found[Len(found)].err = "EventNotFound"

\* In both layouts the error of a pallet gets the name it has at the runtime that
\* made the block.  One that the metadata lacks gets no name, hence not another
\* error's; what is left of its bytes is not said here (the code drops the first
\* one, against error.rs:87-89).  An error that is no pallet's is never taken for
\* one, and comes as its raw bytes.
ErrorsAreNamed ==
  \A i \in DOMAIN got :
    got[i].err = "" /\ extrinsic_has_failed(api, wire, got[i]) =>
      LET out == DispatchErrorFrom(field_bytes(wire, got[i]), api)
          failure == events[i].failure
      IN  IF failure = <<>> THEN out = Other(events[i].fields)
          ELSE IF KnownError(failure[1])
          THEN /\ out.kind = "Module"
               /\ out.pallet = PalletAt(made, failure[1]).name
               /\ out.error = ErrorAt(made, failure[1]).name
          ELSE out.kind = "Other"
=============================================================================
