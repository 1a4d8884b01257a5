---------------------------- MODULE DynamicValue ----------------------------
(***************************************************************************)
(* Values whose type is only known at run time: encoded to SCALE bytes and *)
(* decoded from them along a type of the registry that comes with the      *)
(* node's metadata (node-api, module decoder).                             *)
(*                                                                         *)
(* A value is a record.  A composite has names <<>> when it is unnamed; a  *)
(* variant is a composite with a name; a primitive holds its number, its   *)
(* characters or its bytes as the sequence v; the context of a value (the  *)
(* type it was decoded along) is left out.  The registry is a function     *)
(* from type ids to definitions; an id outside its domain is a type that   *)
(* the registry lacks.                                                     *)
(***************************************************************************)
EXTENDS Scale, FiniteSets

CONSTANTS
  Registry,      \* type id -> type definition
  BytesOf256     \* bytes of a U256 or I256 (32 in the code)

ASSUME BytesOf256Assumption == BytesOf256 \in Nat \ {0}

-----------------------------------------------------------------------------
(* Values. *)

Named(names, vals) == [kind |-> "Composite", names |-> names, vals |-> vals]
Unnamed(vals) == Named(<<>>, vals)
Variant(name, names, vals) ==
  [kind |-> "Variant", name |-> name, names |-> names, vals |-> vals]
BitSequence(bits) == [kind |-> "BitSequence", bits |-> bits]
Primitive(prim, v) == [kind |-> "Primitive", prim |-> prim, v |-> v]
UInt(n) == Primitive("U128", <<n>>)
SInt(n) == Primitive("I128", <<n>>)

IsNamed(c) == c.names # <<>>
Is256(value) == value.kind = "Primitive" /\ value.prim \in {"U256", "I256"}
BytesAsValues(value) == [i \in DOMAIN value.v |-> UInt(value.v[i])]

-----------------------------------------------------------------------------
(* Encoding.  The result holds what was appended to the caller's buffer,   *)
(* which an error leaves there.                                            *)

Encoded(bytes) == [err |-> "", bytes |-> bytes]
EncodeError(e, bytes) == [err |-> e, bytes |-> bytes]
Prepend(bytes, r) == [r EXCEPT !.bytes = bytes \o @]

\* char::from_u32
IsChar(n) == n \in 0..55295 \/ n \in 57344..1114111

primitive_to_integer(value, p) ==
  IF value.prim \in {"U128", "I128", "Char"} /\ Fits(p, value.v[1])
  THEN Encoded(LittleEndian(value.v[1], Width[p]))
  ELSE EncodeError("WrongShape", <<>>)

encode_primitive_value(value, p) ==
  CASE value.kind # "Primitive" -> EncodeError("WrongShape", <<>>)
    [] p \in IntegerTypes -> primitive_to_integer(value, p)
    [] p # value.prim -> EncodeError("WrongShape", <<>>)
    [] p = "Bool" -> Encoded(value.v)
    [] p = "Char" -> Encoded(LittleEndian(value.v[1], 4))
    [] p = "String" -> Encoded(VecBytes(value.v))
    [] OTHER -> Encoded(value.v)

\* The integer type inside wrappers of one field, or the error.
RECURSIVE CompactType(_)
CompactType(id) ==
  IF id \notin DOMAIN Registry THEN "TypeIdNotFound"
  ELSE LET ty == Registry[id] IN
       CASE ty.def \in {"Composite", "Tuple"} /\ Len(ty.tys) = 1 -> CompactType(ty.tys[1])
         [] ty.def = "Primitive" /\ ty.prim \in Unsigned -> ty.prim
         [] OTHER -> "CannotCompactEncode"

\* The value inside composites of one value.
RECURSIVE Innermost(_)
Innermost(value) ==
  IF value.kind = "Composite" /\ Len(value.vals) = 1 THEN Innermost(value.vals[1]) ELSE value

encode_compact_value(value, id) ==
  LET p == CompactType(id)
      v == Innermost(value)
  IN  CASE p \notin Unsigned -> EncodeError(p, <<>>)
        [] v.kind # "Primitive" -> EncodeError("WrongShape", <<>>)
        [] primitive_to_integer(v, p).err # "" -> EncodeError("WrongShape", <<>>)
        [] OTHER -> Encoded(CompactBytes(v.v[1]))

\* What can be wrong with the store integer and the bit order of a bit sequence;
\* the error names are the ones the code returns.
StoreBytes == [U8 |-> 1, U16 |-> 2, U32 |-> 4, U64 |-> 8]
get_bitsequence_details(ty) ==
  CASE ty.store \notin DOMAIN Registry -> "BitStoreTypeNotFound"
    [] ty.order \notin DOMAIN Registry -> "BitOrderTypeNotFound"
    [] "ident" \notin DOMAIN Registry[ty.order] -> "NoBitOrderIdent"
    [] Registry[ty.store].def # "Primitive" -> "OrderTypeNotSupported"
    [] Registry[ty.store].prim \notin DOMAIN StoreBytes -> "OrderTypeNotSupported"
    [] Registry[ty.order].ident \notin {"Lsb0", "Msb0"} -> "StoreTypeNotSupported"
    [] OTHER -> ""

\* The place in a bit sequence of bit j of byte k, all counted from 0, and the
\* bytes that n bits need when they are kept in integers of w bytes.
BitPlace(k, j, w, order) ==
  IF order = "Lsb0" THEN 8 * k + j
  ELSE 8 * w * (k \div w) + 8 * (w - 1 - (k % w)) + 7 - j
BitBytes(n, w) == w * ((n + 8 * w - 1) \div (8 * w))

PackBits(bits, w, order) ==
  LET bit(i) == IF i < Len(bits) THEN bits[i + 1] ELSE 0
      byte(k) == FoldLeft(LAMBDA sum, j : sum + 2^j * bit(BitPlace(k, j, w, order)),
                          0, [j \in 1..8 |-> j - 1])
  IN  CompactBytes(Len(bits)) \o [k \in 1..BitBytes(Len(bits), w) |-> byte(k - 1)]

encode_bitsequence_value(value, ty) ==
  LET bools == IF value.kind = "BitSequence" THEN value.bits
               ELSE [i \in DOMAIN value.vals |-> value.vals[i].v[1]]
      details == get_bitsequence_details(ty)
  IN  CASE value.kind \notin {"BitSequence", "Composite"} -> EncodeError("WrongShape", <<>>)
        [] value.kind = "Composite"
             /\ (\/ IsNamed(value)
                 \/ \E i \in DOMAIN value.vals : value.vals[i].kind # "Primitive"
                 \/ \E i \in DOMAIN value.vals : value.vals[i].prim # "Bool") ->
             EncodeError("WrongShape", <<>>)
        [] details # "" -> EncodeError(details, <<>>)
        [] OTHER -> Encoded(PackBits(bools, StoreBytes[Registry[ty.store].prim],
                                     Registry[ty.order].ident))

\* Names and types of the fields decide how the values of a composite or of a
\* variant are matched; values[position] is the first one with the field's name.
\* (A matched value is removed by swap_remove.  That matters only among values of
\* one name, and then the lengths leave a field without a value: an error.)
FirstNamed(c, name) == CHOOSE i \in DOMAIN c.names :
  c.names[i] = name /\ \A j \in 1 .. i - 1 : c.names[j] # name

RECURSIVE encode_value_as_type(_, _)

\* Encode each value along its type, up to the first error.
EncodeEach(vals, tys) ==
  FoldLeft(LAMBDA done, i : IF done.err # "" THEN done
                            ELSE Prepend(done.bytes, encode_value_as_type(vals[i], tys[i])),
           Encoded(<<>>), [i \in DOMAIN vals |-> i])

\* Variant of encode_composite_fields that takes the values in the order given.
EncodeInValueOrder(c, names, tys) ==
  IF Len(tys) # Len(c.vals) THEN EncodeError("CompositeIsWrongLength", <<>>)
  ELSE EncodeEach(c.vals, tys)

encode_composite_fields(c, names, tys) ==
  LET present == {i \in DOMAIN names : names[i] \in ToSet(c.names)}
      found == CHOOSE n \in 0 .. Len(names) :   \* fields before the first one that is missing
                 1 .. n \subseteq present /\ n + 1 \notin present
      matched == EncodeEach([i \in 1 .. found |-> c.vals[FirstNamed(c, names[i])]], tys)
  IN  CASE Len(tys) # Len(c.vals) -> EncodeError("CompositeIsWrongLength", <<>>)
        [] c.vals = <<>> -> Encoded(<<>>)
        [] IsNamed(c) # (names # <<>>) -> EncodeError("CompositeIsWrongShape", <<>>)
        [] ~IsNamed(c) -> EncodeEach(c.vals, tys)
        [] matched.err = "" /\ found < Len(names) ->
             EncodeError("CompositeFieldIsMissing", matched.bytes)
        [] OTHER -> matched

\* The elements of a sequence or of an array, in a composite or a 256 bit number.
EncodeElements(value, ty) ==
  LET vals == IF Is256(value) THEN BytesAsValues(value) ELSE value.vals
      r    == EncodeEach(vals, [i \in DOMAIN vals |-> ty])
  IN  IF Is256(value) /\ r.err # "" THEN EncodeError("WrongShape", r.bytes) ELSE r

encode_sequence_value(value, ty) ==
  IF value.kind # "Composite" /\ ~Is256(value) THEN EncodeError("WrongShape", <<>>)
  ELSE Prepend(CompactBytes(Len(IF Is256(value) THEN value.v ELSE value.vals)),
               EncodeElements(value, ty.ty))

encode_array_value(value, ty) ==
  CASE value.kind = "Composite" /\ Len(value.vals) # ty.len ->
         EncodeError("CompositeIsWrongLength", <<>>)
    [] value.kind = "Composite" -> EncodeElements(value, ty.ty)
    [] Is256(value) /\ Len(value.v) = ty.len -> EncodeElements(value, ty.ty)
    [] OTHER -> EncodeError("WrongShape", <<>>)

\* A value that is no composite may stand for the only field of its type.
EncodeOnlyField(value, tys) ==
  IF Len(tys) = 1 THEN encode_value_as_type(value, tys[1]) ELSE EncodeError("WrongShape", <<>>)

encode_composite_value(value, ty) ==
  IF value.kind = "Composite" THEN encode_composite_fields(value, ty.names, ty.tys)
  ELSE EncodeOnlyField(value, ty.tys)

\* The names of the values do not matter to a tuple.
encode_tuple_value(value, ty) ==
  CASE value.kind # "Composite" -> EncodeOnlyField(value, ty.tys)
    [] Len(value.vals) # Len(ty.tys) -> EncodeError("CompositeIsWrongLength", <<>>)
    [] OTHER -> EncodeEach(value.vals, ty.tys)

encode_variant_value(value, ty) ==
  IF value.kind # "Variant" THEN EncodeError("WrongShape", <<>>)
  ELSE LET Is(v) == v.name = value.name
           v == SelectSeq(ty.variants, Is)
       IN  IF v = <<>> THEN EncodeError("VariantNotFound", <<>>)
           ELSE Prepend(<<v[1].index>>, encode_composite_fields(value, v[1].names, v[1].tys))

encode_value_as_type(value, id) ==
  IF id \notin DOMAIN Registry THEN EncodeError("TypeIdNotFound", <<>>)
  ELSE LET ty == Registry[id] IN
       CASE ty.def = "Composite"   -> encode_composite_value(value, ty)
         [] ty.def = "Sequence"    -> encode_sequence_value(value, ty)
         [] ty.def = "Array"       -> encode_array_value(value, ty)
         [] ty.def = "Tuple"       -> encode_tuple_value(value, ty)
         [] ty.def = "Variant"     -> encode_variant_value(value, ty)
         [] ty.def = "Primitive"   -> encode_primitive_value(value, ty.prim)
         [] ty.def = "Compact"     -> encode_compact_value(value, ty.ty)
         [] ty.def = "BitSequence" -> encode_bitsequence_value(value, ty)

-----------------------------------------------------------------------------
(* Decoding: a reader of Scale whose val is a value. *)

decode_primitive_value(bs, p) ==
  CASE p = "Bool" -> Then(Take(bs, 1), LAMBDA b, rest :
         IF b[1] > 1 THEN ReadError("InvalidBool", bs) ELSE Read(Primitive("Bool", b), rest))
    [] p = "Char" -> Then(ReadInteger(bs, "U32"), LAMBDA n, rest :
         IF ~IsChar(n) THEN ReadError("InvalidChar", bs) ELSE Read(Primitive("Char", <<n>>), rest))
    [] p = "String" -> AsValue(ReadVec(bs), LAMBDA s : Primitive("String", s))
    [] p \in Unsigned -> AsValue(ReadInteger(bs, p), UInt)
    [] p \in IntegerTypes -> AsValue(ReadInteger(bs, p), SInt)
    [] OTHER -> AsValue(Take(bs, BytesOf256), LAMBDA b : Primitive(p, b))

\* A compact integer, in composites of one field; tuples are refused here.
RECURSIVE decode_compact(_, _)
decode_compact(bs, id) ==
  IF id \notin DOMAIN Registry THEN ReadError("TypeIdNotFound", bs)
  ELSE LET ty == Registry[id] IN
       CASE ty.def = "Primitive" /\ ty.prim \in Unsigned -> AsValue(ReadCompact(bs, ty.prim), UInt)
         [] ty.def = "Composite" /\ Len(ty.tys) = 1 ->
              AsValue(decode_compact(bs, ty.tys[1]), LAMBDA v : Named(ty.names, <<v>>))
         [] OTHER -> ReadError("CannotDecodeCompactIntoType", bs)

\* The first n bits in the bytes of the store.
UnpackBits(store, n, w, order) ==
  LET bit(k, j) == (store[k + 1] \div 2^j) % 2
      at(i) == CHOOSE p \in (0 .. Len(store) - 1) \X (0 .. 7) :
                 BitPlace(p[1], p[2], w, order) = i - 1
  IN  [i \in 1 .. n |-> bit(at(i)[1], at(i)[2])]

decode_bit_sequence_value(bs, ty) ==
  LET w == StoreBytes[Registry[ty.store].prim] IN
  IF get_bitsequence_details(ty) # "" THEN ReadError(get_bitsequence_details(ty), bs)
  ELSE Then(ReadCompact(bs, "U32"), LAMBDA n, r1 :
         Then(Take(r1, BitBytes(n, w)), LAMBDA store, r2 :
           Read(BitSequence(UnpackBits(store, n, w, Registry[ty.order].ident)), r2)))

RECURSIVE decode_value_as_type(_, _)

\* Values of the types one after another, up to the first error.
DecodeEach(bs, tys) ==
  FoldLeft(LAMBDA done, ty :
             IF done.err # "" THEN done
             ELSE AsValue(decode_value_as_type(done.rest, ty), LAMBDA v : Append(done.val, v)),
           Read(<<>>, bs), tys)

decode_fields(bs, names, tys) == AsValue(DecodeEach(bs, tys), LAMBDA vals : Named(names, vals))

\* Variant of decode_sequence_value that makes do with the elements there are.
DecodeAvailable(bs, ty) ==
  Then(ReadCompact(bs, "U64"), LAMBDA n, rest :
    AsValue(DecodeEach(rest, [i \in 1 .. Min({n, Len(rest)}) |-> ty.ty]), Unnamed))

decode_sequence_value(bs, ty) ==
  Then(ReadCompact(bs, "U64"), LAMBDA n, rest :
    AsValue(DecodeEach(rest, [i \in 1 .. n |-> ty.ty]), Unnamed))

decode_variant_value(bs, ty) ==
  LET Is(v) == v.index = bs[1]
      v == SelectSeq(ty.variants, Is)
  IN  CASE bs = <<>> -> ReadError("Eof", bs)
        [] v = <<>> -> ReadError("VariantNotFound", bs)
        [] OTHER -> AsValue(DecodeEach(Tail(bs), v[1].tys),
                            LAMBDA vals : Variant(v[1].name, v[1].names, vals))

decode_value_as_type(bs, id) ==
  IF id \notin DOMAIN Registry THEN ReadError("TypeIdNotFound", bs)
  ELSE LET ty == Registry[id] IN
       CASE ty.def = "Composite"   -> decode_fields(bs, ty.names, ty.tys)
         [] ty.def = "Sequence"    -> decode_sequence_value(bs, ty)
         [] ty.def = "Array"       -> AsValue(DecodeEach(bs, [i \in 1 .. ty.len |-> ty.ty]), Unnamed)
         [] ty.def = "Tuple"       -> AsValue(DecodeEach(bs, ty.tys), Unnamed)
         [] ty.def = "Variant"     -> decode_variant_value(bs, ty)
         [] ty.def = "Primitive"   -> decode_primitive_value(bs, ty.prim)
         [] ty.def = "Compact"     -> decode_compact(bs, ty.ty)
         [] ty.def = "BitSequence" -> decode_bit_sequence_value(bs, ty)
=============================================================================
