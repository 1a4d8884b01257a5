------------------------------- MODULE Scale --------------------------------
(***************************************************************************)
(* The part of the SCALE codec (crate parity-scale-codec, which is not in  *)
(* this repository) that the client calls: fixed-width integers, compact   *)
(* integers and byte vectors, as sequences of bytes.                       *)
(*                                                                         *)
(* A reader takes the remaining input and returns a record: err is "" or   *)
(* the error, val the value read, rest the input that is left.  TLC's      *)
(* integers have 31 bits, so a type of four bytes or more holds every      *)
(* number that is modelled; the numbers above are left out.                *)
(***************************************************************************)
EXTENDS Integers, SequencesExt

Byte == 0 .. 255

\* The numbers of 32 bits, below 256^4.
IsU32(n) == n \in Nat /\ n \div 16777216 < 256

Read(val, rest) == [err |-> "", val |-> val, rest |-> rest]
ReadError(e, bs) == [err |-> e, val |-> <<>>, rest |-> bs]

\* Read one part after another; Next gets the value and the rest of the input.
Then(r, Next(_, _)) == IF r.err # "" THEN r ELSE Next(r.val, r.rest)

\* Turn what a reader has read into a value.
AsValue(r, Make(_)) == IF r.err = "" THEN Read(Make(r.val), r.rest) ELSE r

Take(bs, n) ==
  IF Len(bs) < n THEN ReadError("Eof", bs)
  ELSE Read(SubSeq(bs, 1, n), SubSeq(bs, n + 1, Len(bs)))

\* The w low bytes of n, least significant first (two's complement when n < 0).
LittleEndian(n, w) ==
  LET high[i \in 1 .. w] == IF i = 1 THEN n ELSE high[i - 1] \div 256
  IN  [i \in 1 .. w |-> high[i] % 256]

\* The number whose little-endian bytes are bs; the last byte carries the sign.
FromLittleEndian(bs, signed) ==
  LET top == IF signed /\ Last(bs) >= 128 THEN -1 ELSE 0
      from[i \in 1 .. Len(bs) + 1] == IF i > Len(bs) THEN top ELSE bs[i] + 256 * from[i + 1]
  IN  from[1]

\* The width in bytes and the signedness of the integer types.
Width ==
  [U8 |-> 1, U16 |-> 2, U32 |-> 4, U64 |-> 8, U128 |-> 16,
   I8 |-> 1, I16 |-> 2, I32 |-> 4, I64 |-> 8, I128 |-> 16]
Unsigned == {"U8", "U16", "U32", "U64", "U128"}
IntegerTypes == DOMAIN Width

\* The integer type p can hold n.
Fits(p, n) ==
  LET w == Width[p]
  IN  IF p \in Unsigned THEN n >= 0 /\ (w < 4 => n < 256^w)
      ELSE w < 4 => n \in -(128 * 256^(w - 1)) .. 128 * 256^(w - 1) - 1

ReadInteger(bs, p) ==
  Then(Take(bs, Width[p]), LAMBDA bytes, rest :
    Read(FromLittleEndian(bytes, p \notin Unsigned), rest))

\* Compact<T> has four forms: one, two or four bytes, or a length and the bytes of
\* the number.  Their sizes, and the least number of each: a form is accepted only
\* for the numbers that the shorter forms cannot hold.
CompactSize  == <<1, 2, 4, 5>>
CompactLeast == <<0, 64, 16384, 1073741824>>

CompactBytes(n) ==
  IF n < CompactLeast[2] THEN <<4 * n>>
  ELSE IF n < CompactLeast[3] THEN LittleEndian(4 * n + 1, 2)
  ELSE IF n < CompactLeast[4] THEN <<4 * (n % 64) + 2>> \o LittleEndian(n \div 64, 3)
  ELSE <<3>> \o LittleEndian(n, 4)

CompactNumber(form, bytes) ==
  IF form = 4 THEN FromLittleEndian(Tail(bytes), FALSE)
  ELSE bytes[1] \div 4 + 64 * FromLittleEndian(Tail(bytes), FALSE)

InRange(n, least, p, rest) ==
  IF n < least \/ ~Fits(p, n) THEN ReadError("OutOfRange", rest) ELSE Read(n, rest)

ReadCompact(bs, p) ==
  IF bs = <<>> THEN ReadError("Eof", bs)
  ELSE LET form == (bs[1] % 4) + 1
       IN  Then(Take(bs, CompactSize[form]), LAMBDA bytes, rest :
             IF form = 4 /\ bs[1] # 3 THEN ReadError("TooLarge", bs)
             ELSE InRange(CompactNumber(form, bytes), CompactLeast[form], p, rest))

\* Vec<u8> and String: the compact length, then the bytes.
VecBytes(s) == CompactBytes(Len(s)) \o s
ReadVec(bs) ==
  Then(ReadCompact(bs, "U32"), LAMBDA n, rest : Take(rest, n))
=============================================================================
