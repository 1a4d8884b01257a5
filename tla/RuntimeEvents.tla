---------------------------- MODULE RuntimeEvents ---------------------------
(***************************************************************************)
(* The events of a block, each read from the bytes of System.Events along  *)
(* the metadata (node-api, events.rs), and the dispatch error that         *)
(* System.ExtrinsicFailed carries (node-api, error.rs).  m is metadata     *)
(* that has been taken in; bytes are the value of System.Events, which all *)
(* the events of a block share.                                            *)
(***************************************************************************)
EXTENDS Scale, Metadata

CONSTANTS
  HashBytes,             \* bytes of a topic (H256: 32 in the code)
  DecodeFields(_, _)     \* decode_as_type for one type after another: bytes, types

ASSUME HashBytesAssumption == HashBytes \in Nat \ {0}

\* Phase::decode, of frame_system: the extrinsic's number follows a 0.
ReadPhase(bs) ==
  Then(Take(bs, 1), LAMBDA tag, rest :
    CASE tag[1] = 0 -> AsValue(ReadInteger(rest, "U32"), LAMBDA n : <<0, n>>)
      [] tag[1] \in {1, 2} -> Read(tag, rest)
      [] OTHER -> ReadError("InvalidPhase", bs))

\* Vec::<H256>::decode, whose result is thrown away.
ReadTopics(bs) ==
  Then(ReadCompact(bs, "U32"), LAMBDA n, rest : Take(rest, HashBytes * n))

\* Events::new: bytes without a length count as no event.
Events(bytes) ==
  LET n == ReadCompact(bytes, "U32")
  IN  [start |-> Len(bytes) - Len(n.rest), num |-> IF n.err = "" THEN n.val ELSE 0]

\* EventDetails::decode_from: places in the bytes are counted from 0.
EventDetails(m, bytes, start, index) ==
  LET at(rest) == Len(bytes) - Len(rest) IN
  Then(ReadPhase(SubSeq(bytes, start + 1, Len(bytes))), LAMBDA phase, r1 :
    Then(Take(r1, 2), LAMBDA head, r2 :                   \* pallet and variant index
      AndThen(event(m, head[1], head[2]), LAMBDA entry :
        Then(DecodeFields(r2, entry.tys), LAMBDA fields, r3 :
          Then(ReadTopics(r3), LAMBDA topics, r4 :
            [err |-> "", phase |-> phase, index |-> index, start |-> start,
             fields_start |-> at(r2), fields_end |-> at(r3), end |-> at(r4)])))))

field_bytes(bytes, ev) == SubSeq(bytes, ev.fields_start + 1, ev.fields_end)

\* The two bytes before the fields are the indexes.
event_metadata(m, bytes, ev) ==
  event(m, bytes[ev.fields_start - 1], bytes[ev.fields_start]).val
field_values(m, bytes, ev) ==
  LET md == event_metadata(m, bytes, ev)
  IN  AsValue(DecodeFields(field_bytes(bytes, ev), md.tys),
              LAMBDA vals : [names |-> md.names, vals |-> vals])

\* as_event: E is a static event with the types of its fields.  The result is an
\* Option: <<>>, or <<the values>>.
as_event(m, bytes, ev, E) ==
  LET md == event_metadata(m, bytes, ev)
  IN  IF md.pallet = E.pallet /\ md.event = E.event
      THEN AsValue(DecodeFields(field_bytes(bytes, ev), E.tys), LAMBDA vals : <<vals>>)
      ELSE Read(<<>>, <<>>)

\* What find makes of an item of the iterator, with E: the item if it is an error,
\* the event if it is of that type, else nothing.
FoundIn(m, bytes, item, E) ==
  IF item.err # "" THEN <<item>>
  ELSE LET ev == as_event(m, bytes, item, E) IN
       IF ev.err # "" THEN <<ev>>
       ELSE IF ev.val = <<>> THEN <<>> ELSE <<[err |-> "", val |-> ev.val[1]]>>

-----------------------------------------------------------------------------

Other(bs) == [kind |-> "Other", bytes |-> bs]

\* Variant of ErrorData that takes the pallet's index for the first byte.
ErrorDataFromIndex(rest) ==
  IF Len(rest) >= 5 THEN SubSeq(rest, 1, 4) ELSE <<rest[1], 0, 0, 0>>

\* The error bytes behind the pallet's index, in the new layout or in the old one.
ErrorData(rest) ==
  IF Len(rest) >= 5 THEN SubSeq(rest, 2, 5) ELSE <<rest[2], 0, 0, 0>>

\* DispatchError::decode_from, with panicking an outcome: bytes[0] of no bytes.
\* A module error is an index and four bytes, or an index and one byte; of both
\* the first byte names the error.
DispatchErrorFrom(bs, m) ==
  LET ty == m.types[m.dispatch_error_ty]
      Module == SelectInSeq(ty.variants, LAMBDA v : v.name = "Module")     \* 0: there is none
      rest == Tail(bs)
      data == ErrorData(rest)
      entry == error(m, rest[1], data[1])
  IN  IF m.dispatch_error_ty = None \/ ty.def # "Variant" \/ Module = 0 THEN Other(bs)
      ELSE IF bs = <<>> THEN [kind |-> "Panic"]
      ELSE IF bs[1] # ty.variants[Module].index THEN Other(bs)
      ELSE IF Len(rest) < 2 \/ entry.err # "" THEN Other(rest)
      ELSE [kind |-> "Module", pallet |-> entry.val.pallet, error |-> entry.val.error,
            pallet_index |-> rest[1], data |-> data]
=============================================================================
