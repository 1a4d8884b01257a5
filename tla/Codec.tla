-------------------------------- MODULE Codec -------------------------------
(***************************************************************************)
(* What the client and the node exchange as bytes.  A behaviour is one     *)
(* exchange: the sender encodes its input, the bytes arrive, whole, with   *)
(* others after them or cut, and the receiver decodes them.                *)
(*   value      the client encodes a value along a type and decodes it     *)
(*   extrinsic  the client composes a ready-made call; the node decodes it *)
(* The node's side is not in this repository: it takes the extrinsic apart *)
(* as the client's own Decode does, and the call along the types that the  *)
(* runtime declares.                                                       *)
(***************************************************************************)
EXTENDS Extrinsic

CONSTANTS
  RawMetadata,       \* the runtime's metadata; its types are the registry
  Values,            \* values that the client encodes
  Tails,             \* bytes that may follow an encoded value
  CallInputs,        \* [op, args, meant]: a ready-made call, its arguments as the client
                     \* has them, and as the runtime's call has them
  ParamInputs,       \* [from, signature, nonce, other]; from is <<>> in an unsigned extrinsic
  SizesOfType,       \* what size_of may say of the type of an extrinsic
  Chain              \* [spec_version, transaction_version, genesis_hash]

VARIABLES
  input,    \* what is sent
  stage,    \* start, failed, sent, arrived or done
  wire,     \* the bytes under way
  signed,   \* the payload that was signed, of an extrinsic
  change,   \* whole, longer or shorter: what became of the bytes
  out       \* what the receiver made of them

vars == <<input, stage, wire, signed, change, out>>

metadata == MetadataFrom(RawMetadata)

Inputs ==
  [of : {"value"}, ty : DOMAIN Registry, value : Values]
    \cup [of : {"extrinsic"}, call : CallInputs, params : ParamInputs, size : SizesOfType]

Init ==
  /\ input \in Inputs
  /\ stage = "start"
  /\ wire = <<>>
  /\ signed = <<>>
  /\ change = "whole"
  /\ out = <<>>

-----------------------------------------------------------------------------

\* encode_as_type
EncodeValue ==
  /\ stage = "start" /\ input.of = "value"
  /\ LET r == encode_value_as_type(input.value, input.ty)
     IN  /\ wire' = r.bytes
         /\ stage' = IF r.err = "" THEN "sent" ELSE "failed"
  /\ UNCHANGED <<input, signed, change, out>>

\* compose_extrinsic_offline of a ready-made call.
ComposeExtrinsic ==
  /\ stage = "start" /\ input.of = "extrinsic"
  /\ LET call == ComposeCall(metadata, input.call.op, input.call.args).val
         p    == Params(Chain.spec_version, Chain.transaction_version, input.params.nonce,
                        Chain.genesis_hash, input.params.other)
         by   == input.params.from
     IN  /\ signed' = IF by = <<>> THEN <<>> ELSE <<SignedPayload(call, p)>>
         /\ wire' = EncodeExtrinsic(
              [signature |-> IF by = <<>> THEN <<>>
                             ELSE <<by[1], input.params.signature, SignedExtra(p)>>,
               function  |-> call], input.size)
  /\ stage' = "sent"
  /\ UNCHANGED <<input, change, out>>

Arrive ==
  /\ stage = "sent"
  /\ stage' = "arrived"
  /\ \/ UNCHANGED <<wire, change>>
     \/ /\ input.of = "value"
        /\ \E tail \in Tails : wire' = wire \o tail
        /\ change' = "longer"
     \/ /\ input.of = "value"
        /\ \E n \in 0 .. Len(wire) - 1 : wire' = SubSeq(wire, 1, n)
        /\ change' = "shorter"
  /\ UNCHANGED <<input, signed, out>>

\* decode_as_type
DecodeValue ==
  /\ stage = "arrived" /\ input.of = "value"
  /\ out' = decode_value_as_type(wire, input.ty)
  /\ stage' = "done"
  /\ UNCHANGED <<input, wire, signed, change>>

\* The node takes the extrinsic apart, and its call along the runtime's types.
NodeDecodes ==
  /\ stage = "arrived" /\ input.of = "extrinsic"
  /\ out' = AsValue(DecodeExtrinsic(wire, input.params.other.tip.kind), LAMBDA xt :
              [xt |-> xt, call |-> decode_value_as_type(xt.function, "RuntimeCall")])
  /\ stage' = "done"
  /\ UNCHANGED <<input, wire, signed, change>>

Next ==
  \/ EncodeValue \/ ComposeExtrinsic
  \/ Arrive
  \/ DecodeValue \/ NodeDecodes

Spec == Init /\ [][Next]_vars

-----------------------------------------------------------------------------
(* Properties. *)

\* A value that was encoded (v) and what decoding made of it (d): the numbers,
\* characters and bits are the same at the same fields, and a variant has kept
\* its name.  d has the shape of the type: it may wrap a value into composites
\* of one field, or give the fields in another order under the same names.  (The
\* name of an only field is not compared: a compact number has no regard for it.)
RECURSIVE Same(_, _)
SameFields(v, d) ==
  /\ Len(v.vals) = Len(d.vals)
  /\ IF IsNamed(v) /\ IsNamed(d) /\ Len(d.vals) > 1
     THEN /\ ToSet(v.names) = ToSet(d.names)
          /\ \A i \in DOMAIN d.vals : Same(v.vals[FirstNamed(v, d.names[i])], d.vals[i])
     ELSE \A i \in DOMAIN d.vals : Same(v.vals[i], d.vals[i])
Same(v, d) ==
  CASE v.kind = "Primitive" /\ d.kind = "Primitive" -> v.v = d.v
    [] v.kind = "Composite" /\ d.kind = "Primitive" ->
         Len(v.vals) = 1 /\ Same(v.vals[1], d)
    [] v.kind = "Composite" /\ d.kind = "Composite" -> SameFields(v, d)
    [] v.kind = "Variant" /\ d.kind = "Variant" -> v.name = d.name /\ SameFields(v, d)
    [] v.kind = "Composite" /\ d.kind = "BitSequence" ->
         d.bits = [i \in DOMAIN v.vals |-> v.vals[i].v[1]]
    [] v.kind = "BitSequence" /\ d.kind = "BitSequence" -> v.bits = d.bits
    [] d.kind = "Composite" /\ Len(d.vals) = 1 -> Same(v, d.vals[1])
    [] Is256(v) /\ d.kind = "Composite" -> SameFields(Unnamed(BytesAsValues(v)), d)
    [] OTHER -> FALSE

\* A compact number inside a tuple is encoded by the one side and refused by the other.
TupleInCompact(id) ==
  Registry[id].def = "Compact" /\ Registry[Registry[id].ty].def = "Tuple"

Received(kind) == stage = "done" /\ input.of = kind

\* What encode_as_type accepts, decode_as_type reads back: the same content, to
\* its last byte and no further, and encoding it again gives the same bytes.
RoundTrip ==
  (Received("value") /\ change # "shorter") =>
    LET sent == encode_value_as_type(input.value, input.ty).bytes
    IN  IF TupleInCompact(input.ty) THEN out.err = "CannotDecodeCompactIntoType"
        ELSE /\ out.err = ""
             /\ sent \o out.rest = wire
             /\ Same(input.value, out.val)
             /\ encode_value_as_type(out.val, input.ty) = Encoded(sent)

\* Bytes that have lost their end are never taken for another, shorter value.
CutIsNoticed == (Received("value") /\ change = "shorter") => out.err # ""

\* Ready-made calls whose argument has not the type that the staking pallet
\* declares: an address for a RewardDestination, in set_payee (staking.rs:198-200)
\* and inside the Account of bond (49), where the pallet has an account; four bytes
\* for a compact number, in set_validator_count (203-208).
Misfit(call) ==
  \/ call.op \in {"set_payee", "set_validator_count"}
  \/ call.op = "staking_bond" /\ call.args[3].name = "Account"

\* The node reads from an extrinsic the sender and the parameters that the client
\* meant, behind a prefix that is the true length, and from what it has read and
\* its own chain it makes the very payload that was signed.  It reads the call
\* that was meant, to the last byte, unless an argument has another type than the
\* runtime's; of those calls nothing is said.
NodeReadsWhatWasMeant ==
  Received("extrinsic") =>
    LET ready == ReadyMade[input.call.op]
        by    == input.params.from
        other == input.params.other
        length == ReadCompact(wire, "U32")
        xt    == out.val.xt
        call  == out.val.call
        extra == xt.signature[3]
        checked == Params(Chain.spec_version, Chain.transaction_version, extra.nonce,
                          Chain.genesis_hash, [other EXCEPT !.era = extra.era, !.tip = extra.tip])
    IN  /\ out.err = ""
        /\ length.val = Len(length.rest)
        /\ ~Misfit(input.call) =>
             /\ call.err = "" /\ call.rest = <<>>
             /\ Same(Variant(ready.pallet, <<>>,
                             <<Variant(ready.function, <<>>, input.call.meant)>>), call.val)
        /\ (xt.signature = <<>>) = (by = <<>>)
        /\ by # <<>> =>
             /\ Same(by[1], xt.signature[1])
             /\ Same(input.params.signature, xt.signature[2])
             /\ extra = [era |-> other.era, nonce |-> input.params.nonce, tip |-> other.tip]
             /\ signed = <<SignedPayload(xt.function, checked)>>
=============================================================================
