------------------------- MODULE NodeReading_proofs -------------------------
(***************************************************************************)
(* Proofs about what a client reads from a node with the metadata it       *)
(* holds: the one-shot queries of an Api (NodeQueries) and the events of a *)
(* block (EventReading).                                                   *)
(*                                                                         *)
(* Queries: storage keys are keys of one entry only, the chain stays a     *)
(* tree with its finalized branch, and what a request may be answered with *)
(* is what its query may return.  Events: what the runtime writes is read  *)
(* back part by part, the tables made of the metadata have exactly what it *)
(* declares, and so the iterator stands between the bytes of two events as *)
(* long as it reads, which is what its inductive invariant says.           *)
(*                                                                         *)
(* Induction and what FlattenSeq computes come first: both are stated for  *)
(* sets and functions, which need no operator as a parameter.              *)
(***************************************************************************)
EXTENDS NodeQueries, EventReading, TLAPS, WellFoundedInduction, FiniteSetTheorems

-----------------------------------------------------------------------------
(* Induction over the natural numbers, for sets of them.                   *)

LEMMA LeastElement == \A T \in SUBSET Nat : T # {} => \E m \in T : \A k \in T : m <= k
<1> SUFFICES ASSUME NEW T \in SUBSET Nat, T # {}
             PROVE  \E m \in T : \A k \in T : m <= k
  OBVIOUS
<1> DEFINE R == OpToRel(<, Nat)
<1>1. IsWellFoundedOn(R, Nat)
  BY NatLessThanWellFounded
<1>2. \A i, j \in Nat : i < j => <<i, j>> \in R
  BY DEF OpToRel
<1> HIDE DEF R
<1>3. PICK m \in T : \A k \in T : <<k, m>> \notin R
  BY <1>1, WFMin, Zenon
<1>4. \A k \in T : ~(k < m) /\ k \in Nat /\ m \in Nat
  BY <1>2, <1>3
<1>5. QED
  BY <1>3, <1>4

LEMMA Induction ==
  ASSUME NEW S \in SUBSET Nat, 0 \in S, \A n \in S : n + 1 \in S
  PROVE  S = Nat
<1> SUFFICES ASSUME Nat \ S # {} PROVE FALSE
  OBVIOUS
<1>1. PICK m \in Nat \ S : \A k \in Nat \ S : m <= k
  BY LeastElement
<1>2. m # 0 /\ m - 1 \in Nat
  BY <1>1
<1>3. m - 1 \in S
  BY <1>1, <1>2
<1>4. m - 1 + 1 = m
  BY <1>1
<1>5. QED
  BY <1>1, <1>3, <1>4

-----------------------------------------------------------------------------
(* FlattenSeq.  Its prefixes are g[0] = <<>>, g[1], g[2], ...              *)

\* g[i] is what the first i elements of s are together.
Flattens(g, s) ==
  /\ g[0] = <<>>
  /\ \A i \in 1..Len(s) : g[i] = g[i - 1] \o s[i]

\* As FlattenSeq defines it.
KeyPrefixes(s, g) ==
  g = [i \in 1..Len(s) |-> IF i = 1 THEN s[i] ELSE g[i - 1] \o s[i]]

LEMMA FlattenSeqDef ==
  ASSUME NEW s, Len(s) # 0, \E g : KeyPrefixes(s, g)
  PROVE  \E g : KeyPrefixes(s, g) /\ FlattenSeq(s) = g[Len(s)]
<1> DEFINE G == CHOOSE g : KeyPrefixes(s, g)
<1>1. KeyPrefixes(s, G)
  OBVIOUS
<1>2. FlattenSeq(s) = G[Len(s)]
  BY DEF FlattenSeq, KeyPrefixes
<1>3. QED
  BY <1>1, <1>2

LEMMA Concatenated ==
  ASSUME NEW T, NEW a \in Seq(T), NEW b \in Seq(T)
  PROVE  /\ a \o b \in Seq(T) /\ Len(a \o b) = Len(a) + Len(b)
         /\ DOMAIN (a \o b) = 1..(Len(a) + Len(b))
         /\ \A i \in 1..Len(a) : (a \o b)[i] = a[i]
         /\ \A i \in 1..Len(b) : (a \o b)[Len(a) + i] = b[i]
         /\ <<>> \o b = b /\ b \o <<>> = b
OBVIOUS

LEMMA PrefixesExist ==
  ASSUME NEW T, NEW s \in Seq(Seq(T))
  PROVE  \E g \in [1..Len(s) -> Seq(T)] : KeyPrefixes(s, g)
<1> DEFINE L == Len(s)
           Upto(g, n) == \A i \in 1..n : g[i] = IF i = 1 THEN s[i] ELSE g[i - 1] \o s[i]
           P(n) == n <= L => \E g \in [1..n -> Seq(T)] : Upto(g, n)
           S == {n \in Nat : P(n)}
<1>1. L \in Nat /\ \A i \in 1..L : s[i] \in Seq(T)
  OBVIOUS
<1> HIDE DEF L
<1>2. P(0)
  <2> DEFINE g == [i \in 1..0 |-> <<>>]
  <2>1. g \in [1..0 -> Seq(T)]
    OBVIOUS
  <2>2. Upto(g, 0)
    OBVIOUS
  <2> HIDE DEF g
  <2>3. QED
    BY <2>1, <2>2
<1>3. ASSUME NEW n \in Nat, P(n) PROVE P(n + 1)
  <2> SUFFICES ASSUME n + 1 <= L
               PROVE  \E h \in [1..(n + 1) -> Seq(T)] : Upto(h, n + 1)
    OBVIOUS
  <2>1. PICK g \in [1..n -> Seq(T)] : Upto(g, n)
    BY <1>1, <1>3
  <2> DEFINE x == IF n = 0 THEN s[n + 1] ELSE g[n] \o s[n + 1]
             h == [i \in 1..(n + 1) |-> IF i = n + 1 THEN x ELSE g[i]]
  <2>2. s[n + 1] \in Seq(T) /\ (n # 0 => g[n] \in Seq(T))
    BY <1>1
  <2>3. x \in Seq(T)
    BY <2>2, Concatenated
  <2> HIDE DEF x
  <2>4. \A i \in 1..(n + 1) : i # n + 1 => i \in 1..n
    OBVIOUS
  <2>5. h \in [1..(n + 1) -> Seq(T)]
    BY <2>3, <2>4
  <2>6. h[n + 1] = x /\ \A i \in 1..n : h[i] = g[i]
    OBVIOUS
  <2> HIDE DEF h
  <2>7. ASSUME NEW i \in 1..(n + 1)
        PROVE  h[i] = IF i = 1 THEN s[i] ELSE h[i - 1] \o s[i]
    <3>1. CASE i = n + 1
      <4>1. n # 0 => h[n] = g[n]
        BY <2>6
      <4>2. n = 0 <=> i = 1
        BY <3>1
      <4>3. i - 1 = n
        BY <3>1
      <4>4. QED
        BY <2>6, <3>1, <4>1, <4>2, <4>3 DEF x
    <3>2. CASE i # n + 1
      <4>1. i \in 1..n /\ (i # 1 => i - 1 \in 1..n)
        BY <3>2
      <4>2. QED
        BY <2>1, <2>6, <4>1
    <3>3. QED
      BY <3>1, <3>2
  <2>8. QED
    BY <2>5, <2>7
<1> HIDE DEF P
<1>4. S \in SUBSET Nat /\ 0 \in S /\ \A n \in S : n + 1 \in S
  BY <1>2, <1>3
<1> HIDE DEF S
<1>5. S = Nat
  BY <1>4, Induction
<1>6. P(L)
  BY <1>1, <1>5 DEF S
<1>7. PICK g \in [1..L -> Seq(T)] : Upto(g, L)
  <2>1. L <= L
    BY <1>1
  <2>2. QED
    BY <1>6, <2>1, Zenon DEF P
<1>8. g = [i \in 1..L |-> IF i = 1 THEN s[i] ELSE g[i - 1] \o s[i]]
  BY <1>7
<1>9. KeyPrefixes(s, g)
  BY <1>8 DEF KeyPrefixes, L
<1>10. QED
  BY <1>7, <1>9 DEF L

\* What FlattenSeq is, for as many sequences as there are.
LEMMA Flattening ==
  ASSUME NEW T, NEW s \in Seq(Seq(T))
  PROVE  \E g \in [0..Len(s) -> Seq(T)] : Flattens(g, s) /\ FlattenSeq(s) = g[Len(s)]
<1> DEFINE L == Len(s)
<1>1. L \in Nat /\ \A i \in 1..L : s[i] \in Seq(T)
  OBVIOUS
<1>2. <<>> \in Seq(T) /\ (L = 0 => s = <<>>)
  OBVIOUS
<1>3. CASE L = 0
  <2> DEFINE g == [i \in 0..0 |-> <<>>]
  <2>1. FlattenSeq(s) = <<>>
    BY <1>2, <1>3 DEF FlattenSeq
  <2>2. g \in [0..0 -> Seq(T)] /\ g[0] = <<>>
    BY <1>2
  <2> HIDE DEF g
  <2>3. g \in [0..L -> Seq(T)] /\ FlattenSeq(s) = g[L]
    BY <1>3, <2>1, <2>2
  <2>4. Flattens(g, s)
    BY <1>3, <2>2 DEF Flattens
  <2>5. QED
    BY <2>3, <2>4
<1>4. CASE L # 0
  <2>1. PICK f : KeyPrefixes(s, f) /\ FlattenSeq(s) = f[L]
    BY <1>4, PrefixesExist, FlattenSeqDef
  <2> HIDE DEF L
  <2>2. f = [i \in 1..L |-> IF i = 1 THEN s[i] ELSE f[i - 1] \o s[i]]
    BY <2>1 DEF KeyPrefixes, L
  <2>3. /\ f[1] = s[1]
        /\ \A i \in 1..L : i # 1 => f[i] = f[i - 1] \o s[i]
    <3>1. \A i \in 1..L : f[i] = IF i = 1 THEN s[i] ELSE f[i - 1] \o s[i]
      BY <2>2, Zenon
    <3>2. 1 \in 1..L
      BY <1>1, <1>4
    <3>3. QED
      BY <3>1, <3>2, Zenon
  <2> DEFINE P(n) == n \in 1..L => f[n] \in Seq(T)
             S == {n \in Nat : P(n)}
  <2>4. \A n \in 1..L : f[n] \in Seq(T)
    <3>1. P(0)
      OBVIOUS
    <3>2. ASSUME NEW n \in Nat, P(n) PROVE P(n + 1)
      <4> SUFFICES ASSUME n + 1 \in 1..L PROVE f[n + 1] \in Seq(T)
        OBVIOUS
      <4>1. CASE n = 0
        BY <1>1, <2>3, <4>1
      <4>2. CASE n # 0
        <5>1. n \in 1..L /\ n + 1 # 1 /\ n + 1 - 1 = n
          BY <1>1, <4>2
        <5>2. f[n] \in Seq(T) /\ s[n + 1] \in Seq(T)
          BY <1>1, <3>2, <5>1
        <5>3. f[n + 1] = f[n] \o s[n + 1]
          <6>1. PICK m \in 1..L : m = n + 1 /\ m # 1 /\ m - 1 = n
            BY <5>1
          <6>2. f[m] = f[m - 1] \o s[m]
            BY <2>3, <6>1
          <6>3. QED
            BY <6>1, <6>2
        <5>4. QED
          BY <5>2, <5>3, Concatenated
      <4>3. QED
        BY <4>1, <4>2
    <3> HIDE DEF P
    <3>3. S \in SUBSET Nat /\ 0 \in S /\ \A n \in S : n + 1 \in S
      BY <3>1, <3>2
    <3> HIDE DEF S
    <3>4. S = Nat
      BY <3>3, Induction
    <3>5. \A n \in Nat : P(n)
      BY <3>4 DEF S
    <3>6. QED
      BY <1>1, <3>5 DEF P
  <2> DEFINE g == [i \in 0..L |-> IF i = 0 THEN <<>> ELSE f[i]]
  <2>5. g \in [0..L -> Seq(T)]
    BY <1>1, <1>2, <2>4
  <2>6. g[0] = <<>> /\ \A i \in 1..L : g[i] = f[i]
    BY <1>1
  <2> HIDE DEF g
  <2>7. ASSUME NEW i \in 1..L PROVE g[i] = g[i - 1] \o s[i]
    <3>1. CASE i = 1
      <4>1. <<>> \o s[i] = s[i]
        BY <1>1
      <4>2. i - 1 = 0
        BY <3>1
      <4>3. QED
        BY <2>3, <2>6, <3>1, <4>1, <4>2
    <3>2. CASE i # 1
      <4>1. i - 1 \in 1..L
        BY <1>1, <3>2
      <4>2. QED
        BY <2>3, <2>6, <3>2, <4>1
    <3>3. QED
      BY <3>1, <3>2
  <2>8. Flattens(g, s)
    BY <2>6, <2>7 DEF Flattens, L
  <2>9. FlattenSeq(s) = g[L]
    BY <1>1, <1>4, <2>1, <2>6
  <2>10. QED
    BY <2>5, <2>8, <2>9 DEF L
<1>5. QED
  BY <1>3, <1>4

\* The i-th element of s is in F from behind o[i - 1] to o[i].
SplitsAt(F, s, o) ==
  /\ o[0] = 0 /\ o[Len(s)] = Len(F)
  /\ \A i \in 1..Len(s) :
       /\ o[i] = o[i - 1] + Len(s[i]) /\ o[i] <= Len(F)
       /\ \A k \in 1..Len(s[i]) : F[o[i - 1] + k] = s[i][k]

Extended(t, a) == Len(a) <= Len(t) /\ \A k \in 1..Len(a) : t[k] = a[k]

LEMMA ExtendedStep ==
  ASSUME NEW T, NEW a \in Seq(T), NEW t \in Seq(T), NEW x \in Seq(T), Extended(t, a)
  PROVE  Extended(t \o x, a)
<1>1. /\ Len(a) \in Nat /\ Len(t) \in Nat /\ Len(x) \in Nat /\ Len(t \o x) = Len(t) + Len(x)
      /\ \A k \in 1..Len(t) : (t \o x)[k] = t[k]
  BY Concatenated
<1>2. Len(a) <= Len(t) /\ \A k \in 1..Len(a) : t[k] = a[k] /\ k \in 1..Len(t)
  BY <1>1 DEF Extended
<1>3. QED
  BY <1>1, <1>2 DEF Extended

\* Every prefix of the whole is one of it as it grows.
LEMMA PrefixesStay ==
  ASSUME NEW T, NEW s \in Seq(Seq(T)), NEW g \in [0..Len(s) -> Seq(T)], Flattens(g, s),
         NEW i \in 0..Len(s)
  PROVE  Extended(g[Len(s)], g[i])
<1> DEFINE L == Len(s)
           P(j) == j \in i..L => Extended(g[j], g[i])
           S == {j \in Nat : P(j)}
<1>1. L \in Nat /\ i \in Nat /\ i <= L /\ \A j \in 1..L : s[j] \in Seq(T)
  OBVIOUS
<1>2. \A j \in 0..L : g[j] \in Seq(T)
  OBVIOUS
<1>3. \A j \in 1..L : g[j] = g[j - 1] \o s[j]
  BY DEF Flattens
<1> HIDE DEF L
<1>4. Extended(g[i], g[i])
  <2>1. g[i] \in Seq(T)
    BY <1>1, <1>2
  <2>2. QED
    BY <2>1 DEF Extended
<1>5. P(0)
  BY <1>1, <1>4
<1>6. ASSUME NEW j \in Nat, P(j) PROVE P(j + 1)
  <2> SUFFICES ASSUME j + 1 \in i..L PROVE Extended(g[j + 1], g[i])
    OBVIOUS
  <2>1. CASE j + 1 = i
    BY <1>4, <2>1
  <2>2. CASE j + 1 # i
    <3>1. j \in i..L /\ j \in 0..L /\ i \in 0..L
      BY <1>1, <2>2
    <3>2. PICK m \in 1..L : m = j + 1 /\ m - 1 = j
      BY <1>1, <2>2
    <3>3. g[j + 1] = g[j] \o s[m] /\ s[m] \in Seq(T)
      BY <1>1, <1>3, <3>2
    <3>4. g[i] \in Seq(T) /\ g[j] \in Seq(T) /\ Extended(g[j], g[i])
      BY <1>2, <1>6, <3>1
    <3>5. QED
      BY <3>3, <3>4, ExtendedStep
  <2>3. QED
    BY <2>1, <2>2
<1> HIDE DEF P
<1>7. S \in SUBSET Nat /\ 0 \in S /\ \A j \in S : j + 1 \in S
  BY <1>5, <1>6
<1> HIDE DEF S
<1>8. S = Nat
  BY <1>7, Induction
<1>9. P(L) /\ L \in i..L
  BY <1>1, <1>8 DEF S
<1>10. QED
  BY <1>9 DEF P, L

LEMMA FlattenSeqSplits ==
  ASSUME NEW T, NEW s \in Seq(Seq(T))
  PROVE  /\ FlattenSeq(s) \in Seq(T)
         /\ \E o \in [0..Len(s) -> Nat] : SplitsAt(FlattenSeq(s), s, o)
<1> DEFINE L == Len(s)
           F == FlattenSeq(s)
<1>1. L \in Nat /\ \A j \in 1..L : s[j] \in Seq(T)
  OBVIOUS
<1>2. PICK g \in [0..L -> Seq(T)] : Flattens(g, s) /\ F = g[L]
  BY Flattening
<1>3. \A i \in 0..L : Extended(F, g[i])
  BY <1>2, PrefixesStay
<1>4. g[0] = <<>> /\ \A j \in 1..L : g[j] = g[j - 1] \o s[j]
  BY <1>2 DEF Flattens
<1> HIDE DEF L, F
<1> DEFINE o == [i \in 0..L |-> Len(g[i])]
<1>5. \A i \in 0..L : g[i] \in Seq(T) /\ Len(g[i]) \in Nat
  BY <1>2
<1>6. o \in [0..L -> Nat] /\ \A i \in 0..L : o[i] = Len(g[i])
  BY <1>5
<1>7. F \in Seq(T)
  BY <1>1, <1>2, <1>5
<1> HIDE DEF o
<1>8. ASSUME NEW i \in 1..L
      PROVE  /\ o[i] = o[i - 1] + Len(s[i]) /\ o[i] <= Len(F)
             /\ \A k \in 1..Len(s[i]) : F[o[i - 1] + k] = s[i][k]
  <2>1. i \in 0..L /\ i - 1 \in 0..L
    BY <1>1
  <2>2. g[i - 1] \in Seq(T) /\ s[i] \in Seq(T) /\ g[i] = g[i - 1] \o s[i]
    BY <1>1, <1>4, <1>5, <2>1
  <2>3. /\ Len(g[i]) = Len(g[i - 1]) + Len(s[i])
        /\ \A k \in 1..Len(s[i]) : g[i][Len(g[i - 1]) + k] = s[i][k]
    <3>1. PICK a \in Seq(T), b \in Seq(T) : a = g[i - 1] /\ b = s[i] /\ g[i] = a \o b
      BY <2>2
    <3>2. /\ Len(a \o b) = Len(a) + Len(b)
          /\ \A k \in 1..Len(b) : (a \o b)[Len(a) + k] = b[k]
      BY Concatenated
    <3>3. QED
      BY <3>1, <3>2
  <2>4. Len(g[i]) <= Len(F) /\ \A k \in 1..Len(g[i]) : F[k] = g[i][k]
    BY <1>3, <2>1 DEF Extended
  <2>5. \A k \in 1..Len(s[i]) : Len(g[i - 1]) + k \in 1..Len(g[i])
    BY <1>5, <2>1, <2>2, <2>3
  <2>6. o[i] = Len(g[i]) /\ o[i - 1] = Len(g[i - 1])
    BY <1>6, <2>1
  <2>7. QED
    BY <2>3, <2>4, <2>5, <2>6
<1>9. o[0] = 0 /\ o[L] = Len(F)
  BY <1>1, <1>2, <1>4, <1>6
<1>10. SplitsAt(F, s, o)
  BY <1>8, <1>9 DEF SplitsAt, L
<1>11. QED
  BY <1>6, <1>7, <1>10 DEF L, F

-----------------------------------------------------------------------------
(* The parts of a storage key.                                             *)

LEMMA Hashers ==
  Hasher = {"Identity", "Blake2_128", "Blake2_128Concat", "Blake2_256", "Twox128", "Twox256",
            "Twox64Concat"}
BY DEF Hasher, RuntimeHash

\* What the first part that a hasher gives is marked with, and the hashers that give
\* a second one, the key itself.
Mark == [Identity |-> "raw", Blake2_128 |-> "Blake2_128", Blake2_128Concat |-> "Blake2_128",
         Blake2_256 |-> "Blake2_256", Twox128 |-> "Twox128", Twox256 |-> "Twox256",
         Twox64Concat |-> "Twox64"]
Marks == {"raw", "Blake2_128", "Blake2_256", "Twox128", "Twox256", "Twox64"}
Concat == {"Blake2_128Concat", "Twox64Concat"}

Parts(keys, hashers) == [i \in DOMAIN keys |-> RuntimeHash(keys[i])[hashers[i]]]

\* The key under an Identity hasher behind a Blake2_128 hash can be taken for the
\* second part of Blake2_128Concat.
Unambiguous(hashers) ==
  \A i \in 1..(Len(hashers) - 1) : hashers[i] = "Blake2_128" => hashers[i + 1] # "Identity"

\* The client hashes as the runtime does.
LEMMA ClientHashes ==
  ASSUME NEW key, NEW h \in Hasher
  PROVE  key_hash(key, h) = RuntimeHash(key)[h]
BY Hashers DEF key_hash, RuntimeHash

LEMMA OneOrTwo ==
  ASSUME NEW S, NEW x \in S, NEW y \in S
  PROVE  /\ <<x>> \in Seq(S) /\ Len(<<x>>) = 1 /\ <<x>>[1] = x
         /\ <<x, y>> \in Seq(S) /\ Len(<<x, y>>) = 2 /\ <<x, y>>[1] = x /\ <<x, y>>[2] = y
OBVIOUS

LEMMA HashParts ==
  ASSUME NEW K, NEW key \in K, NEW h \in Hasher
  PROVE  /\ RuntimeHash(key)[h] \in Seq(Marks \X K)
         /\ Len(RuntimeHash(key)[h]) = IF h \in Concat THEN 2 ELSE 1
         /\ RuntimeHash(key)[h][1] = <<Mark[h], key>>
         /\ h \in Concat => RuntimeHash(key)[h][2] = <<"raw", key>>
<1>1. ASSUME h \notin Concat PROVE RuntimeHash(key)[h] = <<<<Mark[h], key>>>>
  BY <1>1, Hashers DEF RuntimeHash, Concat, Mark, Raw, Hashed
<1>2. ASSUME h \in Concat PROVE RuntimeHash(key)[h] = <<<<Mark[h], key>>, <<"raw", key>>>>
  BY <1>2, Hashers DEF RuntimeHash, Concat, Mark, Raw, Hashed
<1>3. Mark[h] \in Marks /\ "raw" \in Marks
  BY Hashers DEF Mark, Marks
<1>4. PICK x \in Marks \X K, y \in Marks \X K : x = <<Mark[h], key>> /\ y = <<"raw", key>>
  BY <1>3
<1>5. CASE h \notin Concat
  <2>1. RuntimeHash(key)[h] = <<x>>
    BY <1>1, <1>4, <1>5
  <2>2. QED
    BY <1>4, <1>5, <2>1, OneOrTwo
<1>6. CASE h \in Concat
  <2>1. RuntimeHash(key)[h] = <<x, y>>
    BY <1>2, <1>4, <1>6
  <2>2. QED
    BY <1>4, <1>6, <2>1, OneOrTwo
<1>7. QED
  BY <1>5, <1>6

LEMMA PartsAreParts ==
  ASSUME NEW K, NEW a \in Seq(K), NEW h \in Seq(Hasher), Len(a) <= Len(h)
  PROVE  /\ Parts(a, h) \in Seq(Seq(Marks \X K)) /\ Len(Parts(a, h)) = Len(a)
         /\ \A i \in 1..Len(a) :
              /\ a[i] \in K /\ h[i] \in Hasher
              /\ Parts(a, h)[i] = RuntimeHash(a[i])[h[i]]
<1>1. DOMAIN a = 1..Len(a) /\ Len(a) \in Nat
  OBVIOUS
<1>2. \A i \in 1..Len(a) : a[i] \in K /\ h[i] \in Hasher
  OBVIOUS
<1>3. \A i \in 1..Len(a) : Parts(a, h)[i] = RuntimeHash(a[i])[h[i]]
  BY <1>1 DEF Parts
<1>4. ASSUME NEW i \in 1..Len(a) PROVE Parts(a, h)[i] \in Seq(Marks \X K)
  <2>1. PICK x \in K, y \in Hasher : Parts(a, h)[i] = RuntimeHash(x)[y]
    BY <1>2, <1>3
  <2>2. RuntimeHash(x)[y] \in Seq(Marks \X K)
    BY HashParts
  <2>3. QED
    BY <2>1, <2>2
<1>5. Parts(a, h) = [i \in 1..Len(a) |-> Parts(a, h)[i]]
  BY <1>1, <1>3 DEF Parts
<1>6. Parts(a, h) \in [1..Len(a) -> Seq(Marks \X K)]
  BY <1>4, <1>5
<1>7. Parts(a, h) \in Seq(Seq(Marks \X K)) /\ Len(Parts(a, h)) = Len(a)
  BY <1>1, <1>6
<1>8. QED
  BY <1>2, <1>3, <1>7

\* The parts of the keys a are in F, those of the i-th behind o[i - 1].
Reads(F, a, h, o) ==
  /\ o \in [0..Len(a) -> Nat] /\ o[0] = 0 /\ o[Len(a)] = Len(F)
  /\ \A i \in 1..Len(a) :
       /\ o[i] = o[i - 1] + (IF h[i] \in Concat THEN 2 ELSE 1) /\ o[i] <= Len(F)
       /\ F[o[i - 1] + 1] = <<Mark[h[i]], a[i]>>
       /\ h[i] \in Concat => F[o[i - 1] + 2] = <<"raw", a[i]>>

LEMMA PartsRead ==
  ASSUME NEW K, NEW a \in Seq(K), NEW h \in Seq(Hasher), Len(a) <= Len(h)
  PROVE  /\ FlattenSeq(Parts(a, h)) \in Seq(Marks \X K)
         /\ \E o : Reads(FlattenSeq(Parts(a, h)), a, h, o)
<1>0. /\ Parts(a, h) \in Seq(Seq(Marks \X K)) /\ Len(Parts(a, h)) = Len(a)
      /\ \A i \in 1..Len(a) :
           /\ a[i] \in K /\ h[i] \in Hasher
           /\ Parts(a, h)[i] = RuntimeHash(a[i])[h[i]]
  BY PartsAreParts
<1>1. PICK s \in Seq(Seq(Marks \X K)) : s = Parts(a, h)
  BY <1>0
<1>2. Len(s) = Len(a) /\ Len(a) \in Nat
  BY <1>0, <1>1
<1>3. PICK F : F = FlattenSeq(s)
  OBVIOUS
<1>4. F \in Seq(Marks \X K) /\ \E o \in [0..Len(s) -> Nat] : SplitsAt(F, s, o)
  BY <1>3, FlattenSeqSplits
<1>5. PICK o \in [0..Len(s) -> Nat] : SplitsAt(F, s, o)
  BY <1>4
<1>6. ASSUME NEW i \in 1..Len(a)
      PROVE  /\ o[i] = o[i - 1] + (IF h[i] \in Concat THEN 2 ELSE 1) /\ o[i] <= Len(F)
             /\ F[o[i - 1] + 1] = <<Mark[h[i]], a[i]>>
             /\ h[i] \in Concat => F[o[i - 1] + 2] = <<"raw", a[i]>>
  <2>1. /\ o[i] = o[i - 1] + Len(s[i]) /\ o[i] <= Len(F)
        /\ \A k \in 1..Len(s[i]) : F[o[i - 1] + k] = s[i][k]
    BY <1>2, <1>5 DEF SplitsAt
  <2>2. PICK x \in K, y \in Hasher : x = a[i] /\ y = h[i] /\ s[i] = RuntimeHash(x)[y]
    BY <1>0, <1>1
  <2>3. /\ Len(s[i]) = IF y \in Concat THEN 2 ELSE 1
        /\ s[i][1] = <<Mark[y], x>> /\ (y \in Concat => s[i][2] = <<"raw", x>>)
    <3>1. /\ Len(RuntimeHash(x)[y]) = IF y \in Concat THEN 2 ELSE 1
          /\ RuntimeHash(x)[y][1] = <<Mark[y], x>>
          /\ y \in Concat => RuntimeHash(x)[y][2] = <<"raw", x>>
      BY HashParts
    <3>2. s[i] = RuntimeHash(x)[y]
      BY <2>2
    <3>3. QED
      BY <3>1, <3>2, Zenon
  <2>4. 1 \in 1..Len(s[i]) /\ (y \in Concat => 2 \in 1..Len(s[i]))
    BY <2>3
  <2>5. F[o[i - 1] + 1] = s[i][1] /\ (y \in Concat => F[o[i - 1] + 2] = s[i][2])
    BY <2>1, <2>4
  <2>6. QED
    BY <2>1, <2>2, <2>3, <2>5
<1>7. Reads(F, a, h, o)
  BY <1>2, <1>5, <1>6 DEF Reads, SplitsAt
<1>8. QED
  BY <1>1, <1>3, <1>4, <1>7

LEMMA Marked ==
  \A h, e \in Hasher :
    /\ Mark[h] = Mark[e] /\ h \in Concat /\ e \notin Concat => e = "Blake2_128"
    /\ Mark[h] = "raw" => h = "Identity"
BY Hashers DEF Mark, Concat

\* Two readings of the same parts that have come to the same place go on together.
LEMMA ReadTogether ==
  ASSUME NEW K, NEW a \in Seq(K), NEW b \in Seq(K), NEW h \in Seq(Hasher), NEW e \in Seq(Hasher),
         Len(a) <= Len(h), Len(b) <= Len(e), Unambiguous(e),
         NEW F, Len(F) \in Nat, NEW o, NEW q, Reads(F, a, h, o), Reads(F, b, e, q),
         NEW i \in Nat, i < Len(a), i < Len(b), o[i] = q[i]
  PROVE  a[i + 1] = b[i + 1] /\ (h[i + 1] \in Concat => e[i + 1] \in Concat)
<1>1. PICK j \in Nat : j = i + 1 /\ j - 1 = i
  OBVIOUS
<1>2. /\ j \in 1..Len(a) /\ j \in 1..Len(b) /\ Len(a) \in Nat /\ Len(b) \in Nat /\ Len(e) \in Nat
      /\ h[j] \in Hasher /\ e[j] \in Hasher
  BY <1>1
<1>3. /\ o[i] \in Nat /\ F[o[i] + 1] = <<Mark[h[j]], a[j]>>
      /\ h[j] \in Concat => F[o[i] + 2] = <<"raw", a[j]>> /\ o[i] + 2 <= Len(F)
  <2>1. /\ o[j] = o[j - 1] + (IF h[j] \in Concat THEN 2 ELSE 1) /\ o[j] <= Len(F)
        /\ F[o[j - 1] + 1] = <<Mark[h[j]], a[j]>>
        /\ h[j] \in Concat => F[o[j - 1] + 2] = <<"raw", a[j]>>
    BY <1>2 DEF Reads
  <2>2. o \in [0..Len(a) -> Nat] /\ i \in 0..Len(a)
    BY <1>2 DEF Reads
  <2>3. QED
    BY <1>1, <2>1, <2>2
<1>4. F[q[i] + 1] = <<Mark[e[j]], b[j]>> /\ (e[j] \notin Concat => q[j] = q[i] + 1)
  BY <1>1, <1>2 DEF Reads
<1>5. Mark[h[j]] = Mark[e[j]] /\ a[j] = b[j]
  BY <1>3, <1>4
<1>6. ASSUME h[j] \in Concat, e[j] \notin Concat PROVE FALSE
  <2>1. e[j] = "Blake2_128"
    BY <1>2, <1>5, <1>6, Marked
  <2>2. q[j] = o[i] + 1 /\ o[i] + 2 <= Len(F) /\ F[o[i] + 2] = <<"raw", a[j]>>
    BY <1>3, <1>4, <1>6
  <2>3. j # Len(b)
    <3>1. q[Len(b)] = Len(F)
      BY DEF Reads
    <3>2. QED
      BY <1>3, <2>2, <3>1
  <2>4. PICK k \in Nat : k = j + 1 /\ k - 1 = j /\ k \in 1..Len(b) /\ k \in 1..Len(e) /\ j \in 1..(Len(e) - 1)
    BY <1>2, <2>3
  <2>5. F[q[j] + 1] = <<Mark[e[k]], b[k]>>
    BY <2>4 DEF Reads
  <2>6. q[j] + 1 = o[i] + 2
    BY <1>3, <2>2
  <2>7. Mark[e[k]] = "raw" /\ e[k] \in Hasher
    BY <2>2, <2>4, <2>5, <2>6
  <2>8. e[k] = "Identity"
    BY <2>7, Marked
  <2>9. QED
    BY <2>1, <2>4, <2>8 DEF Unambiguous
<1>7. QED
  BY <1>1, <1>5, <1>6

\* A reading that is at the end has read all keys.
LEMMA NoKeyIsLeft ==
  ASSUME NEW K, NEW b \in Seq(K), NEW e, NEW F, Len(F) \in Nat, NEW q, Reads(F, b, e, q)
  PROVE  \A i \in Nat : i <= Len(b) /\ q[i] = Len(F) => i = Len(b)
<1> SUFFICES ASSUME NEW i \in Nat, i <= Len(b), q[i] = Len(F), i # Len(b) PROVE FALSE
  OBVIOUS
<1>1. Len(b) \in Nat
  OBVIOUS
<1>2. PICK j \in 1..Len(b) : j = i + 1 /\ j - 1 = i
  BY <1>1
<1>3. q[j] = q[j - 1] + (IF e[j] \in Concat THEN 2 ELSE 1) /\ q[j] <= Len(F)
  BY <1>2 DEF Reads
<1>4. QED
  BY <1>2, <1>3

(***************************************************************************)
(* key_hash: two entries of maps whose keys are hashed to the same storage *)
(* key have the same keys, even if they are hashed by different hashers,   *)
(* as the client's metadata and the runtime may have it.                   *)
(***************************************************************************)
THEOREM KeysAreUnambiguous ==
  ASSUME NEW K, NEW a \in Seq(K), NEW b \in Seq(K), NEW h \in Seq(Hasher), NEW e \in Seq(Hasher),
         Len(a) <= Len(h), Len(b) <= Len(e), Unambiguous(h), Unambiguous(e),
         FlattenSeq(Parts(a, h)) = FlattenSeq(Parts(b, e))
  PROVE  a = b
<1>1. PICK F : F = FlattenSeq(Parts(a, h)) /\ F = FlattenSeq(Parts(b, e))
  OBVIOUS
<1>2. Len(F) \in Nat
  <2>1. F \in Seq(Marks \X K)
    BY <1>1, PartsRead
  <2>2. QED
    BY <2>1
<1>3. PICK o : Reads(F, a, h, o)
  BY <1>1, PartsRead
<1>4. PICK q : Reads(F, b, e, q)
  BY <1>1, PartsRead
<1> DEFINE P(i) == i <= Len(a) /\ i <= Len(b) => o[i] = q[i] /\ \A k \in 1..i : a[k] = b[k]
           S == {i \in Nat : P(i)}
<1>5. Len(a) \in Nat /\ Len(b) \in Nat
  OBVIOUS
<1>6. P(0)
  BY <1>3, <1>4 DEF Reads
<1>7. ASSUME NEW i \in Nat, P(i) PROVE P(i + 1)
  <2> SUFFICES ASSUME i + 1 <= Len(a), i + 1 <= Len(b)
               PROVE  o[i + 1] = q[i + 1] /\ \A k \in 1..(i + 1) : a[k] = b[k]
    OBVIOUS
  <2>1. i < Len(a) /\ i < Len(b) /\ o[i] = q[i] /\ \A k \in 1..i : a[k] = b[k]
    BY <1>5, <1>7
  <2>2. a[i + 1] = b[i + 1] /\ (h[i + 1] \in Concat => e[i + 1] \in Concat)
    BY <1>2, <1>3, <1>4, <2>1, ReadTogether
  <2>3. e[i + 1] \in Concat => h[i + 1] \in Concat
    BY <1>2, <1>3, <1>4, <2>1, ReadTogether
  <2>4. PICK j \in Nat : j = i + 1 /\ j - 1 = i /\ j \in 1..Len(a) /\ j \in 1..Len(b)
    BY <1>5
  <2>5. /\ o[j] = o[j - 1] + (IF h[j] \in Concat THEN 2 ELSE 1)
        /\ q[j] = q[j - 1] + (IF e[j] \in Concat THEN 2 ELSE 1)
    BY <1>3, <1>4, <2>4 DEF Reads
  <2>6. o[j] = q[j]
    BY <2>1, <2>2, <2>3, <2>4, <2>5
  <2>7. \A k \in 1..(i + 1) : k \in 1..i \/ k = i + 1
    OBVIOUS
  <2>8. QED
    BY <2>1, <2>2, <2>4, <2>6, <2>7
<1> HIDE DEF P
<1>8. S \in SUBSET Nat /\ 0 \in S /\ \A i \in S : i + 1 \in S
  BY <1>6, <1>7
<1> HIDE DEF S
<1>9. S = Nat
  BY <1>8, Induction
<1>10. \A i \in Nat : P(i)
  BY <1>9 DEF S
<1>11. o[Len(a)] = Len(F) /\ q[Len(b)] = Len(F)
  BY <1>3, <1>4 DEF Reads
<1>12. Len(a) = Len(b)
  <2>1. \A i \in Nat : i <= Len(b) /\ q[i] = Len(F) => i = Len(b)
    BY <1>2, <1>4, NoKeyIsLeft
  <2>2. \A i \in Nat : i <= Len(a) /\ o[i] = Len(F) => i = Len(a)
    BY <1>2, <1>3, NoKeyIsLeft
  <2>3. P(Len(a)) /\ P(Len(b))
    BY <1>5, <1>10
  <2>4. CASE Len(a) <= Len(b)
    <3>1. q[Len(a)] = Len(F)
      BY <1>5, <1>11, <2>3, <2>4 DEF P
    <3>2. QED
      BY <1>5, <2>1, <2>4, <3>1
  <2>5. CASE Len(b) <= Len(a)
    <3>1. o[Len(b)] = Len(F)
      BY <1>5, <1>11, <2>3, <2>5 DEF P
    <3>2. QED
      BY <1>5, <2>2, <2>5, <3>1
  <2>6. QED
    BY <1>5, <2>4, <2>5
<1>13. \A k \in 1..Len(a) : a[k] = b[k]
  BY <1>5, <1>10, <1>12 DEF P
<1>14. QED
  BY <1>12, <1>13

-----------------------------------------------------------------------------
(* Sequences: prefixes, and messages of any kind in a row.                 *)

LEMMA PrefixIsExtended ==
  ASSUME NEW T, NEW s \in Seq(T), NEW t \in Seq(T)
  PROVE  IsPrefix(s, t) <=> Extended(t, s)
<1>1. Len(s) \in Nat /\ Len(t) \in Nat
  OBVIOUS
<1>2. ASSUME Len(s) <= Len(t)
      PROVE  /\ SubSeq(s, 1, Len(s)) \in Seq(T) /\ Len(SubSeq(s, 1, Len(s))) = Len(s)
             /\ SubSeq(t, 1, Len(s)) \in Seq(T) /\ Len(SubSeq(t, 1, Len(s))) = Len(s)
             /\ \A k \in 1..Len(s) : SubSeq(s, 1, Len(s))[k] = s[k] /\ SubSeq(t, 1, Len(s))[k] = t[k]
  BY <1>1, <1>2
<1>3. ASSUME IsPrefix(s, t) PROVE Extended(t, s)
  BY <1>2, <1>3 DEF IsPrefix, Extended
<1>4. ASSUME Extended(t, s) PROVE IsPrefix(s, t)
  <2>1. Len(s) <= Len(t) /\ \A k \in 1..Len(s) : t[k] = s[k]
    BY <1>4 DEF Extended
  <2>2. PICK u \in Seq(T), v \in Seq(T) : u = SubSeq(s, 1, Len(s)) /\ v = SubSeq(t, 1, Len(s))
    BY <1>2, <2>1
  <2>3. Len(u) = Len(v) /\ \A k \in 1..Len(u) : u[k] = v[k]
    BY <1>2, <2>1, <2>2
  <2>4. u = v
    BY <2>3
  <2>5. QED
    BY <2>1, <2>2, <2>4 DEF IsPrefix
<1>5. QED
  BY <1>3, <1>4

LEMMA PrefixOfPrefix ==
  ASSUME NEW T, NEW s \in Seq(T), NEW t \in Seq(T), NEW u \in Seq(T), IsPrefix(s, t), IsPrefix(t, u)
  PROVE  IsPrefix(s, u)
<1>1. Extended(t, s) /\ Extended(u, t)
  BY PrefixIsExtended
<1>2. Len(s) \in Nat /\ Len(t) \in Nat /\ Len(u) \in Nat
  OBVIOUS
<1>3. Extended(u, s)
  BY <1>1, <1>2 DEF Extended
<1>4. QED
  BY <1>3, PrefixIsExtended

\* The first n elements.
LEMMA FirstElements ==
  ASSUME NEW T, NEW s \in Seq(T), NEW n \in 0..Len(s)
  PROVE  /\ SubSeq(s, 1, n) \in Seq(T) /\ Len(SubSeq(s, 1, n)) = n
         /\ \A k \in 1..n : SubSeq(s, 1, n)[k] = s[k]
         /\ n = Len(s) => SubSeq(s, 1, n) = s
         /\ IsPrefix(SubSeq(s, 1, n), s)
<1>1. /\ SubSeq(s, 1, n) \in Seq(T) /\ Len(SubSeq(s, 1, n)) = n
      /\ \A k \in 1..n : SubSeq(s, 1, n)[k] = s[k]
  OBVIOUS
<1>2. n = Len(s) => SubSeq(s, 1, n) = s
  OBVIOUS
<1>3. Extended(s, SubSeq(s, 1, n))
  BY <1>1 DEF Extended
<1>4. QED
  BY <1>1, <1>2, <1>3, PrefixIsExtended

\* A sequence and one that it is a prefix of begin alike.
LEMMA SameBeginning ==
  ASSUME NEW T, NEW s \in Seq(T), NEW t \in Seq(T), IsPrefix(s, t), NEW n \in 0..Len(s)
  PROVE  n \in 0..Len(t) /\ SubSeq(s, 1, n) = SubSeq(t, 1, n)
<1>1. Len(s) <= Len(t) /\ \A k \in 1..Len(s) : t[k] = s[k]
  BY PrefixIsExtended DEF Extended
<1>2. n \in 0..Len(t)
  BY <1>1
<1>3. PICK u \in Seq(T), v \in Seq(T) : u = SubSeq(s, 1, n) /\ v = SubSeq(t, 1, n)
  BY <1>2, FirstElements
<1>4. Len(u) = n /\ Len(v) = n /\ \A k \in 1..n : u[k] = s[k] /\ v[k] = t[k]
  BY <1>2, <1>3, FirstElements
<1>5. u = v
  BY <1>1, <1>4
<1>6. QED
  BY <1>2, <1>3, <1>5

LEMMA LastElement == ASSUME NEW T, NEW s \in Seq(T), s # <<>> PROVE Last(s) \in T
<1>1. Len(s) \in Nat /\ (Len(s) = 0 => s = <<>>)
  OBVIOUS
<1>2. Len(s) \in 1..Len(s)
  BY <1>1
<1>3. QED
  BY <1>2 DEF Last

Elements(s) == {s[i] : i \in DOMAIN s}

LEMMA Rows ==
  /\ IsASeq(<<>>) /\ Elements(<<>>) = {}
  /\ \A s, m : IsASeq(s) => IsASeq(Append(s, m)) /\ Elements(Append(s, m)) = Elements(s) \cup {m}
  /\ \A s : IsASeq(s) /\ s # <<>> =>
       /\ Head(s) \in Elements(s)
       /\ IsASeq(Tail(s)) /\ Elements(Tail(s)) \subseteq Elements(s)
<1>1. IsASeq(<<>>) /\ Elements(<<>>) = {}
  BY DEF IsASeq, Elements
<1>2. ASSUME NEW s, NEW m, IsASeq(s)
      PROVE  IsASeq(Append(s, m)) /\ Elements(Append(s, m)) = Elements(s) \cup {m}
  <2>1. PICK T : T = Elements(s) \cup {m} /\ m \in T /\ s \in Seq(T)
    <3>1. s \in Seq(Elements(s))
      BY <1>2 DEF IsASeq, Elements
    <3>2. s \in Seq(Elements(s) \cup {m})
      BY <3>1
    <3>3. QED
      BY <3>2
  <2>2. PICK t \in Seq(T) : t = Append(s, m)
    <3>1. Append(s, m) \in Seq(T)
      BY <2>1
    <3>2. QED
      BY <3>1
  <2>3. /\ Len(s) \in Nat /\ DOMAIN t = 1..(Len(s) + 1) /\ DOMAIN s = 1..Len(s)
        /\ t[Len(s) + 1] = m /\ \A i \in 1..Len(s) : t[i] = s[i]
    BY <2>1, <2>2
  <2>4. Elements(t) = Elements(s) \cup {m}
    <3>1. ASSUME NEW x \in Elements(t) PROVE x \in Elements(s) \cup {m}
      <4>1. PICK i \in 1..(Len(s) + 1) : x = t[i]
        BY <2>3 DEF Elements
      <4>2. i = Len(s) + 1 \/ i \in 1..Len(s)
        BY <2>3
      <4>3. QED
        BY <2>3, <4>1, <4>2 DEF Elements
    <3>2. m \in Elements(t)
      <4>1. Len(s) + 1 \in DOMAIN t
        BY <2>3
      <4>2. QED
        BY <2>3, <4>1 DEF Elements
    <3>3. ASSUME NEW x \in Elements(s) PROVE x \in Elements(t)
      <4>1. PICK i \in 1..Len(s) : x = s[i]
        BY <2>3, <3>3 DEF Elements
      <4>2. i \in DOMAIN t /\ t[i] = x
        BY <2>3, <4>1
      <4>3. QED
        BY <4>2 DEF Elements
    <3>4. QED
      BY <3>1, <3>2, <3>3
  <2>5. t \in Seq(Elements(t))
    BY <2>1, <2>4
  <2>6. QED
    BY <2>2, <2>4, <2>5 DEF IsASeq, Elements
<1>3. ASSUME NEW s, IsASeq(s), s # <<>>
      PROVE  /\ Head(s) \in Elements(s)
             /\ IsASeq(Tail(s)) /\ Elements(Tail(s)) \subseteq Elements(s)
  <2>1. PICK T : T = Elements(s) /\ s \in Seq(T)
    BY <1>3 DEF IsASeq, Elements
  <2>2. Head(s) \in T
    BY <1>3, <2>1
  <2>3. PICK t \in Seq(T) : t = Tail(s)
    <3>1. Tail(s) \in Seq(T)
      BY <1>3, <2>1
    <3>2. QED
      BY <3>1
  <2>4. t \in Seq({t[i] : i \in DOMAIN t})
    <3>1. PICK E : E = {t[i] : i \in DOMAIN t}
      OBVIOUS
    <3>2. \A i \in 1..Len(t) : t[i] \in E
      BY <3>1
    <3>3. t \in Seq(E)
      BY <3>2
    <3>4. QED
      BY <3>1, <3>3
  <2>5. Elements(t) \subseteq T
    BY DEF Elements
  <2>6. QED
    BY <2>1, <2>2, <2>3, <2>4, <2>5 DEF IsASeq
<1>4. QED
  BY <1>1, <1>2, <1>3

-----------------------------------------------------------------------------
(* The invariant.                                                          *)

\* No runtime has the ambiguity that Unambiguous speaks of.
UnambiguousRuntimes ==
  \A version \in DOMAIN Runtimes : \A p \in DOMAIN Runtimes[version].pallets :
    LET entries == Runtimes[version].pallets[p].storage
    IN  \A name \in DOMAIN entries : Unambiguous(entries[name].hashers)

Blocks == Seq([label : Labels, spec : 1..Len(Runtimes)])

\* The chain: every block has its ancestors, the heads are on one chain, and so are
\* all best blocks since a query was asked with the block that was final then.
Chain ==
  /\ blocks \subseteq Blocks
  /\ \A b \in blocks : \A n \in 0..Len(b) : SubSeq(b, 1, n) \in blocks
  /\ best \in blocks /\ finalized \in Blocks /\ settled \in Blocks
  /\ IsPrefix(finalized, best) /\ IsPrefix(settled, finalized)
  /\ known \in DOMAIN Runtimes
  /\ bests \subseteq blocks /\ \A b \in bests : IsPrefix(settled, b)
  /\ pc # "idle" => best \in bests

\* What a query by number may get to its first and to its second request.
HashAnswer(h) ==
  LET n == query.number
  IN  IF n = Nothing THEN h # Nothing /\ h[1] \in bests
      ELSE \/ \E b \in bests : n[1] <= Len(b) /\ h = Some(SubSeq(b, 1, n[1]))
           \/ h = Nothing /\ \E b \in bests : Len(b) < n[1]

BlockAnswer(t) ==
  /\ t # Nothing
  /\ LET block == t[1]
         n     == query.number
     IN  IF n # Nothing /\ n[1] <= Len(settled) THEN block = SubSeq(settled, 1, n[1])
         ELSE IF n = Nothing THEN block \in bests
         ELSE \/ \E b \in bests : n[1] <= Len(b) /\ block = SubSeq(b, 1, n[1])
              \/ block \in bests /\ \E b \in bests : Len(b) < n[1]

\* What a query for an entry, or for the keys of a map, may get.
EntryAnswer(t) ==
  /\ t # Nothing => IsAsked(t[1].of) /\ t[1].at \in AskedAt
  /\ t = Nothing /\ ~refused =>
       \E block \in AskedAt : \/ ~\E s \in StoredAt(block) : IsAsked(s)
                             \/ Layout(SpecAt(block)) # Layout(known)

KeysAnswer(t) ==
  t # Nothing =>
    \E block \in AskedAt :
      t[1] = {s \in StoredAt(block) : s.pallet = query.pallet /\ s.name = query.name}

\* What the last request of a query may get, as far as the properties tell.
GoodAnswer(t) ==
  /\ query.op = "block_by_num" /\ ~refused => BlockAnswer(t)
  /\ UnambiguousRuntimes /\ query.op \in StorageReads => EntryAnswer(t)
  /\ query.op = "map_keys" => KeysAnswer(t)

AsksForHash == request.method = "chain_getBlockHash"

Message(m) ==
  /\ "text" \in DOMAIN m => IF AsksForHash THEN HashAnswer(m.text) ELSE GoodAnswer(m.text)
  /\ "error" \in DOMAIN m => refused

Request ==
  \/ request = FirstRequest(query).val
  \/ /\ query.op = "block_by_num"
     /\ \E h : request = GetSignedBlock(h) /\ (~refused => HashAnswer(h))

Waiting ==
  pc = "waiting" =>
    /\ query \in Queries /\ query.op # "constant" /\ FirstRequest(query).err = ""
    /\ query.op \in KeyQueries \cup {"block", "header"} =>
         query.at = Nothing \/ At(query.at) \in blocks
    /\ Request
    /\ IsASeq(line) /\ \A m \in Elements(line) : Message(m)

Done ==
  pc = "done" /\ result.err = "" /\ query.op \notin {"constant", "fee_details"} =>
    GoodAnswer(result.val)

\* What was read of an answer about fees is what was made of it.
FeesDone ==
  /\ pc = "idle" => line = <<>>
  /\ pc = "done" /\ query.op = "fee_details" /\ line # <<>> /\ DOMAIN Head(line) = {"text"} =>
       result = Converted(Head(line).text)

IInv == Chain /\ Waiting /\ Done /\ FeesDone
-----------------------------------------------------------------------------
(* The chain.                                                              *)

LEMMA SpecInRange == ASSUME NEW b \in Blocks PROVE SpecAt(b) \in DOMAIN Runtimes
<1>1. Len(Runtimes) \in Nat /\ 1 <= Len(Runtimes) /\ DOMAIN Runtimes = 1..Len(Runtimes)
  BY RuntimesAssumption DEF IsASeq
<1>2. CASE b = Genesis
  BY <1>1, <1>2 DEF SpecAt
<1>3. CASE b # Genesis
  <2>1. Last(b) \in [label : Labels, spec : 1..Len(Runtimes)]
    BY <1>3, LastElement DEF Blocks, Genesis
  <2>2. QED
    BY <1>1, <1>3, <2>1 DEF SpecAt
<1>4. QED
  BY <1>2, <1>3

\* A block is added on top of one that is there.
LEMMA ChildBlock ==
  ASSUME Chain, NEW parent \in blocks, NEW label \in Labels, NEW spec \in 1..Len(Runtimes)
  PROVE  LET block == Append(parent, [label |-> label, spec |-> spec])
         IN  /\ block \in Blocks
             /\ \A n \in 0..Len(block) : SubSeq(block, 1, n) \in blocks \cup {block}
<1> DEFINE B == [label : Labels, spec : 1..Len(Runtimes)]
           r == [label |-> label, spec |-> spec]
<1>1. r \in B /\ parent \in Seq(B)
  BY DEF Chain, Blocks
<1>2. \A n \in 0..Len(parent) : SubSeq(parent, 1, n) \in blocks
  BY DEF Chain
<1>3. Blocks = Seq(B)
  BY DEF Blocks
<1> HIDE DEF B, r
<1>4. Append(parent, r) \in Seq(B)
  BY <1>1
<1>5. PICK block \in Seq(B) : block = Append(parent, r)
  BY <1>4
<1>6. Len(block) = Len(parent) + 1 /\ Len(parent) \in Nat /\ \A k \in 1..Len(parent) : block[k] = parent[k]
  BY <1>1, <1>5
<1>7. IsPrefix(parent, block)
  BY <1>1, <1>6, PrefixIsExtended DEF Extended
<1>8. ASSUME NEW n \in 0..Len(block) PROVE SubSeq(block, 1, n) \in blocks \cup {block}
  <2>1. CASE n = Len(block)
    BY <2>1, FirstElements
  <2>2. CASE n # Len(block)
    <3>1. n \in 0..Len(parent)
      BY <1>6, <2>2
    <3>2. SubSeq(parent, 1, n) = SubSeq(block, 1, n)
      BY <1>1, <1>7, <3>1, SameBeginning
    <3>3. QED
      BY <1>2, <3>1, <3>2
  <2>3. QED
    BY <2>1, <2>2
<1>9. QED
  BY <1>3, <1>5, <1>8 DEF r

LEMMA ChainKeeps ==
  ASSUME Chain, UNCHANGED <<blocks, best, finalized, known>>,
         settled' \in Blocks, IsPrefix(settled', finalized), bests' \subseteq blocks,
         \A b \in bests' : IsPrefix(settled', b), pc' # "idle" => best \in bests'
  PROVE  Chain'
BY DEF Chain

LEMMA ChainAtNewBlock == Chain /\ NewBlock => Chain'
<1> SUFFICES ASSUME Chain, NewBlock PROVE Chain'
  OBVIOUS
<1>1. PICK parent \in blocks, label \in Labels, upgrade \in {0, 1} :
        LET spec  == SpecAt(parent) + upgrade
            block == Append(parent, [label |-> label, spec |-> spec])
        IN  /\ Len(parent) < MaxHeight /\ spec <= Len(Runtimes)
            /\ IsPrefix(finalized, block) /\ block \notin blocks
            /\ blocks' = blocks \cup {block}
            /\ best' \in IF Len(block) > Len(best) THEN {block} ELSE {best, block}
            /\ bests' = IF pc = "idle" THEN {} ELSE bests \cup {best'}
  BY DEF NewBlock
<1> DEFINE spec  == SpecAt(parent) + upgrade
           block == Append(parent, [label |-> label, spec |-> spec])
<1>2. spec \in 1..Len(Runtimes)
  <2>1. parent \in Blocks
    BY DEF Chain
  <2>2. SpecAt(parent) \in DOMAIN Runtimes
    BY <2>1, SpecInRange
  <2>3. DOMAIN Runtimes = 1..Len(Runtimes) /\ Len(Runtimes) \in Nat
    BY RuntimesAssumption DEF IsASeq
  <2>4. QED
    BY <1>1, <2>2, <2>3
<1>3. block \in Blocks /\ \A n \in 0..Len(block) : SubSeq(block, 1, n) \in blocks \cup {block}
  <2>1. PICK v \in 1..Len(Runtimes) : v = spec
    BY <1>2
  <2>2. LET b == Append(parent, [label |-> label, spec |-> v])
        IN  b \in Blocks /\ \A n \in 0..Len(b) : SubSeq(b, 1, n) \in blocks \cup {b}
    BY ChildBlock
  <2>3. QED
    BY <2>1, <2>2
<1>4. /\ IsPrefix(finalized, block) /\ blocks' = blocks \cup {block}
      /\ best' \in {best, block} /\ bests' = IF pc = "idle" THEN {} ELSE bests \cup {best'}
  BY <1>1
<1>5. UNCHANGED <<finalized, known, settled, pc>>
  BY DEF NewBlock
<1> HIDE DEF block
<1>6. IsPrefix(finalized, best') /\ best' \in blocks' /\ best' \in Blocks
  BY <1>3, <1>4 DEF Chain
<1>7. IsPrefix(settled, best')
  <2>1. settled \in Blocks /\ finalized \in Blocks /\ IsPrefix(settled, finalized)
    BY DEF Chain
  <2>2. QED
    BY <1>6, <2>1, PrefixOfPrefix DEF Blocks
<1>8. blocks' \subseteq Blocks /\ \A b \in blocks' : \A n \in 0..Len(b) : SubSeq(b, 1, n) \in blocks'
  BY <1>3, <1>4 DEF Chain
<1>9. bests' \subseteq blocks' /\ (\A b \in bests' : IsPrefix(settled, b)) /\ (pc # "idle" => best' \in bests')
  BY <1>4, <1>6, <1>7 DEF Chain
<1>10. QED
  BY <1>5, <1>6, <1>8, <1>9 DEF Chain

LEMMA ChainAtFinalize == Chain /\ Finalize => Chain'
<1> SUFFICES ASSUME Chain, Finalize PROVE Chain'
  OBVIOUS
<1>1. /\ finalized' = SubSeq(best, 1, Len(finalized) + 1) /\ Len(finalized) < Len(best)
      /\ UNCHANGED <<blocks, best, known, pc, settled, bests>>
  BY DEF Finalize
<1>2. best \in Blocks /\ finalized \in Blocks /\ settled \in Blocks /\ IsPrefix(settled, finalized) /\ IsPrefix(finalized, best)
  BY DEF Chain
<1>3. PICK n \in 0..Len(best) : n = Len(finalized) + 1
  BY <1>1, <1>2 DEF Blocks
<1>4. PICK f \in Blocks : f = finalized'
  BY <1>1, <1>2, <1>3, FirstElements DEF Blocks
<1>5. Len(f) = n /\ (\A k \in 1..n : f[k] = best[k]) /\ IsPrefix(f, best)
  BY <1>1, <1>2, <1>3, <1>4, FirstElements DEF Blocks
<1>6. IsPrefix(finalized, f)
  <2>1. Len(finalized) \in Nat /\ \A k \in 1..Len(finalized) : best[k] = finalized[k]
    BY <1>2, PrefixIsExtended DEF Blocks, Extended
  <2>2. Extended(f, finalized)
    BY <1>3, <1>5, <2>1 DEF Extended
  <2>3. QED
    BY <1>2, <2>2, PrefixIsExtended DEF Blocks
<1>7. IsPrefix(settled, f)
  BY <1>2, <1>6, PrefixOfPrefix DEF Blocks
<1>8. QED
  BY <1>1, <1>4, <1>5, <1>7 DEF Chain

LEMMA ChainIsKept == Chain /\ [Next]_vars => Chain'
<1> SUFFICES ASSUME Chain, [Next]_vars PROVE Chain'
  OBVIOUS
<1>1. CASE NewBlock
  BY <1>1, ChainAtNewBlock
<1>2. CASE Finalize
  BY <1>2, ChainAtFinalize
<1>3. CASE Ask
  <2>1. /\ UNCHANGED <<blocks, best, finalized, known>>
        /\ settled' = finalized /\ bests' = {best}
    BY <1>3 DEF Ask
  <2>2. IsPrefix(finalized, finalized) /\ finalized \in Blocks /\ IsPrefix(finalized, best) /\ best \in blocks
    BY DEF Chain, IsPrefix, Blocks
  <2>3. QED
    BY <2>1, <2>2, ChainKeeps
<1>4. CASE UpdateRuntime
  <2>1. SpecAt(best) \in DOMAIN Runtimes
    BY SpecInRange DEF Chain
  <2>2. QED
    BY <1>4, <2>1 DEF UpdateRuntime, Chain
<1>5. CASE TakeResult
  <2>1. /\ UNCHANGED <<blocks, best, finalized, known>> /\ settled' = <<>> /\ bests' = {} /\ pc' = "idle"
    BY <1>5 DEF TakeResult, Genesis
  <2>2. <<>> \in Blocks /\ IsPrefix(<<>>, finalized)
    <3>1. <<>> \in Blocks /\ finalized \in Blocks
      BY DEF Chain, Blocks
    <3>2. Len(finalized) \in Nat /\ Len(<<>>) = 0
      BY <3>1 DEF Blocks
    <3>3. Extended(finalized, <<>>)
      BY <3>2 DEF Extended
    <3>4. QED
      BY <3>1, <3>3, PrefixIsExtended DEF Blocks
  <2>3. QED
    BY <2>1, <2>2, ChainKeeps
<1>6. ASSUME UNCHANGED <<blocks, best, finalized, known, settled, bests>>, pc' # "idle" => pc # "idle"
      PROVE  Chain'
  BY <1>6 DEF Chain
<1>7. CASE NodeAnswers \/ NodeSendsFrame \/ Receive
  BY <1>6, <1>7 DEF NodeAnswers, NodeSendsFrame, Receive, SkipFrame, ReadLoss, ReadHash, ReadAnswer, Send, Return
<1>8. CASE UNCHANGED vars
  BY <1>6, <1>8 DEF vars
<1>9. QED
  BY <1>1, <1>2, <1>3, <1>4, <1>5, <1>7, <1>8 DEF Next

-----------------------------------------------------------------------------
(* The keys of queries and of what is stored.                              *)

LEMMA Lookups ==
  /\ \A x : Found(x).err = "" /\ Found(x).val = x
  /\ \A e : NotFound(e).err = e
BY DEF Found, NotFound

LEMMA Layouts ==
  ASSUME NEW version \in DOMAIN Runtimes, NEW prefix, NEW name,
         LayoutIn(version, prefix, name).err = ""
  PROVE  /\ LayoutIn(version, prefix, name).val.name = name
         /\ LayoutIn(version, prefix, name).val.hashers \in Seq(Hasher)
         /\ UnambiguousRuntimes => Unambiguous(LayoutIn(version, prefix, name).val.hashers)
<1>0. PICK layout : layout = LayoutIn(version, prefix, name) /\ layout.err = ""
  OBVIOUS
<1>1. PICK M : M = Runtimes[version]
  OBVIOUS
<1>2. PICK P : P = pallet(M, prefix)
  OBVIOUS
<1>3. layout = IF P.err # "" THEN P ELSE storage(P.val, name)
  BY <1>0, <1>1, <1>2 DEF LayoutIn, AndThen
<1>4. P.err = ""
  BY <1>0, <1>3
<1>5. prefix \in DOMAIN M.pallets /\ P.val = M.pallets[prefix]
  BY <1>2, <1>4 DEF pallet, Lookup, Found, NotFound
<1>6. PICK entries : entries = M.pallets[prefix].storage
  OBVIOUS
<1>7. layout = Lookup(entries, name, "StorageNotFound")
  BY <1>3, <1>4, <1>5, <1>6 DEF storage
<1>8. name \in DOMAIN entries /\ layout.val = entries[name]
  <2>1. ASSUME name \notin DOMAIN entries PROVE FALSE
    <3>1. layout = NotFound("StorageNotFound")
      BY <1>7, <2>1, Zenon DEF Lookup
    <3>2. layout.err = "StorageNotFound"
      BY <3>1, Lookups, Zenon
    <3>3. QED
      BY <1>0, <3>2
  <2>2. layout = Found(entries[name])
    BY <1>7, <2>1, Zenon DEF Lookup
  <2>3. QED
    BY <2>1, <2>2, Lookups, Zenon
<1>9. entries[name].name = name /\ entries[name].hashers \in Seq(Hasher)
  BY <1>1, <1>5, <1>6, <1>8, RuntimesAssumption, Zenon
<1>10. UnambiguousRuntimes => Unambiguous(entries[name].hashers)
  BY <1>1, <1>5, <1>6, <1>8 DEF UnambiguousRuntimes
<1>11. QED
  BY <1>0, <1>8, <1>9, <1>10, Zenon

\* A storage key of the client is made from the layout in its metadata.
LEMMA KeysOfLayouts ==
  ASSUME NEW prefix, NEW name
  PROVE  /\ storage_value_key(metadata, prefix, name) =
              IF LayoutIn(known, prefix, name).err # "" THEN LayoutIn(known, prefix, name)
              ELSE get_value(LayoutIn(known, prefix, name).val, prefix)
         /\ storage_map_key_prefix(metadata, prefix, name) =
              IF LayoutIn(known, prefix, name).err # "" THEN LayoutIn(known, prefix, name)
              ELSE get_map_prefix(LayoutIn(known, prefix, name).val, prefix)
         /\ \A k : storage_map_key(metadata, prefix, name, k) =
              IF LayoutIn(known, prefix, name).err # "" THEN LayoutIn(known, prefix, name)
              ELSE get_map(LayoutIn(known, prefix, name).val, prefix, k)
         /\ \A k, l : storage_double_map_key(metadata, prefix, name, k, l) =
              IF LayoutIn(known, prefix, name).err # "" THEN LayoutIn(known, prefix, name)
              ELSE get_double_map(LayoutIn(known, prefix, name).val, prefix, k, l)
<1>0. PICK layout : layout = LayoutIn(known, prefix, name)
  OBVIOUS
<1>1. PICK P : P = pallet(metadata, prefix)
  OBVIOUS
<1>2. PICK S : S = storage(P.val, name)
  OBVIOUS
<1>3. layout = IF P.err # "" THEN P ELSE S
  BY <1>0, <1>1, <1>2 DEF LayoutIn, AndThen, metadata
<1>4. storage_value_key(metadata, prefix, name) =
        IF P.err # "" THEN P ELSE IF S.err # "" THEN S ELSE get_value(S.val, prefix)
  BY <1>1, <1>2 DEF storage_value_key, KeyOf, AndThen
<1>5. storage_map_key_prefix(metadata, prefix, name) =
        IF P.err # "" THEN P ELSE IF S.err # "" THEN S ELSE get_map_prefix(S.val, prefix)
  BY <1>1, <1>2 DEF storage_map_key_prefix, KeyOf, AndThen
<1>6. \A k : storage_map_key(metadata, prefix, name, k) =
        IF P.err # "" THEN P ELSE IF S.err # "" THEN S ELSE get_map(S.val, prefix, k)
  BY <1>1, <1>2 DEF storage_map_key, KeyOf, AndThen
<1>7. \A k, l : storage_double_map_key(metadata, prefix, name, k, l) =
        IF P.err # "" THEN P ELSE IF S.err # "" THEN S ELSE get_double_map(S.val, prefix, k, l)
  BY <1>1, <1>2 DEF storage_double_map_key, KeyOf, AndThen
<1>8. QED
  BY <1>0, <1>3, <1>4, <1>5, <1>6, <1>7, Zenon

LEMMA SequenceFacts ==
  ASSUME NEW T, NEW s \in Seq(T)
  PROVE  Len(s) \in Nat /\ DOMAIN s = 1..Len(s) /\ \A i \in 1..Len(s) : s[i] \in T
OBVIOUS

LEMMA ShortSequences ==
  ASSUME NEW T, NEW s \in Seq(T)
  PROVE  /\ Len(s) = 0 => <<>> = s
         /\ Len(s) = 1 => <<s[1]>> = s
         /\ Len(s) = 2 => <<s[1], s[2]>> = s
OBVIOUS

LEMMA LongEnough ==
  ASSUME NEW T, NEW U, NEW s \in Seq(T), NEW t \in Seq(U), Len(s) <= Len(t)
  PROVE  \A i \in DOMAIN s : t[i] \in U
<1>1. Len(s) \in Nat /\ DOMAIN s = 1..Len(s) /\ Len(t) \in Nat
  BY SequenceFacts
<1>2. \A i \in DOMAIN s : i \in 1..Len(t)
  BY <1>1
<1>3. QED
  BY <1>2, SequenceFacts

LEMMA NoParts == ASSUME NEW h \in Seq(Hasher) PROVE FlattenSeq(Parts(<<>>, h)) = <<>>
<1>1. PICK K : K = {}
  OBVIOUS
<1>2. PICK a \in Seq(K) : a = <<>> /\ Len(a) = 0
  <2>1. <<>> \in Seq(K) /\ Len(<<>>) = 0
    OBVIOUS
  <2>2. QED
    BY <2>1
<1>3. PICK s \in Seq(Seq(Marks \X K)) : s = Parts(<<>>, h) /\ Len(s) = 0
  <2>1. Len(h) \in Nat
    BY SequenceFacts
  <2>2. Len(a) <= Len(h)
    BY <1>2, <2>1
  <2>3. Parts(a, h) \in Seq(Seq(Marks \X K)) /\ Len(Parts(a, h)) = Len(a)
    BY <2>2, PartsAreParts
  <2>4. QED
    BY <1>2, <2>3
<1>4. s = <<>>
  BY <1>3
<1>5. FlattenSeq(s) = s
  BY <1>3 DEF FlattenSeq
<1>6. QED
  BY <1>3, <1>4, <1>5

LEMMA PrefixParts ==
  ASSUME NEW prefix, NEW name
  PROVE  /\ storage_key(prefix, name) \in Seq(Marks \X {prefix, name})
         /\ Len(storage_key(prefix, name)) = 2
<1>1. /\ <<"Twox128", prefix>> \in Marks \X {prefix, name}
      /\ <<"Twox128", name>> \in Marks \X {prefix, name}
  BY DEF Marks
<1>2. storage_key(prefix, name) = <<<<"Twox128", prefix>>, <<"Twox128", name>>>>
  BY DEF storage_key, Hashed
<1>3. /\ <<<<"Twox128", prefix>>, <<"Twox128", name>>>> \in Seq(Marks \X {prefix, name})
      /\ Len(<<<<"Twox128", prefix>>, <<"Twox128", name>>>>) = 2
  BY <1>1, OneOrTwo
<1>4. QED
  BY <1>2, <1>3, Zenon

\* The key of an entry of a map, as the client makes it.
LEMMA EntryKeys ==
  ASSUME NEW prefix, NEW entry, entry.hashers \in Seq(Hasher), NEW T, NEW keys \in Seq(T),
         NEW key, key = EntryKey(prefix, entry, keys), key.err = ""
  PROVE  /\ Len(keys) <= Len(entry.hashers)
         /\ key.val = storage_key(prefix, entry.name) \o FlattenSeq(Parts(keys, entry.hashers))
<1>0. PICK val : val = storage_key(prefix, entry.name)
                       \o FlattenSeq([i \in DOMAIN keys |-> key_hash(keys[i], entry.hashers[i])])
  OBVIOUS
<1>1. IsMap(entry) /\ Len(keys) <= Len(entry.hashers)
  BY DEF EntryKey, NotFound
<1>2. key = Found(val)
  BY <1>0, <1>1, Zenon DEF EntryKey
<1>3. key.val = val
  BY <1>2, Lookups, Zenon
<1>4. \A i \in DOMAIN keys : entry.hashers[i] \in Hasher
  BY <1>1, LongEnough
<1>5. \A i \in DOMAIN keys :
        key_hash(keys[i], entry.hashers[i]) = RuntimeHash(keys[i])[entry.hashers[i]]
  BY <1>4, ClientHashes
<1>6. [i \in DOMAIN keys |-> key_hash(keys[i], entry.hashers[i])] = Parts(keys, entry.hashers)
  BY <1>5, Zenon DEF Parts
<1>7. QED
  BY <1>0, <1>1, <1>3, <1>6, Zenon

\* The layout of the entry that a query asks for, and its keys.
LEMMA ReadKeys ==
  ASSUME known \in DOMAIN Runtimes, NEW q \in Queries, q.op \in StorageReads
  PROVE  \A layout, key :
           layout = LayoutIn(known, q.pallet, q.name) /\ key = QueryKey(q) /\ key.err = "" =>
             /\ layout.err = "" /\ IsASeq(q.keys) /\ Len(q.keys) <= Len(layout.val.hashers)
             /\ key.val = storage_key(q.pallet, q.name)
                            \o FlattenSeq(Parts(q.keys, layout.val.hashers))
<1>0. SUFFICES ASSUME NEW layout, NEW key,
                      layout = LayoutIn(known, q.pallet, q.name), key = QueryKey(q), key.err = ""
               PROVE  /\ layout.err = "" /\ IsASeq(q.keys) /\ Len(q.keys) <= Len(layout.val.hashers)
                      /\ key.val = storage_key(q.pallet, q.name)
                                     \o FlattenSeq(Parts(q.keys, layout.val.hashers))
  BY Zenon
<1>e. key.err = ""
  BY <1>0
<1>1. /\ IsASeq(q.keys)
      /\ Len(q.keys) = CASE q.op = "value" -> 0 [] q.op = "double_map" -> 2 [] OTHER -> 1
      /\ q.op = "account_info" => q.pallet = "System" /\ q.name = "Account"
  BY QueriesAssumption, Zenon
<1> PICK T : q.keys \in Seq(T)
  BY <1>1 DEF IsASeq
<1>2. PICK keys \in Seq(T) : keys = q.keys
  OBVIOUS
<1>3. PICK entry, p, n :
        entry = layout.val /\ p = q.pallet /\ n = q.name /\ layout = LayoutIn(known, p, n)
  BY <1>0, Zenon
<1>4. key = IF q.op = "value" THEN storage_value_key(metadata, p, n)
            ELSE IF q.op = "double_map" THEN storage_double_map_key(metadata, p, n, keys[1], keys[2])
            ELSE storage_map_key(metadata, p, n, keys[1])
  <2>1. CASE q.op = "account_info"
    BY <1>0, <1>1, <1>2, <1>3, <2>1 DEF QueryKey
  <2>2. CASE q.op # "account_info"
    BY <1>0, <1>2, <1>3, <2>2 DEF QueryKey, StorageReads
  <2>3. QED
    BY <2>1, <2>2
<1>5. /\ storage_value_key(metadata, p, n) =
           IF layout.err # "" THEN layout ELSE get_value(layout.val, p)
      /\ \A k : storage_map_key(metadata, p, n, k) =
           IF layout.err # "" THEN layout ELSE get_map(layout.val, p, k)
      /\ \A k, l : storage_double_map_key(metadata, p, n, k, l) =
           IF layout.err # "" THEN layout ELSE get_double_map(layout.val, p, k, l)
  <2>1. layout = LayoutIn(known, p, n)
    BY <1>3
  <2>2. storage_value_key(metadata, p, n) =
          IF layout.err # "" THEN layout ELSE get_value(layout.val, p)
    BY <2>1, KeysOfLayouts, Zenon
  <2>3. ASSUME NEW k
        PROVE  storage_map_key(metadata, p, n, k) =
                 IF layout.err # "" THEN layout ELSE get_map(layout.val, p, k)
    <3>1. storage_map_key(metadata, p, n, k) =
            IF LayoutIn(known, p, n).err # "" THEN LayoutIn(known, p, n)
            ELSE get_map(LayoutIn(known, p, n).val, p, k)
      BY KeysOfLayouts
    <3>2. QED
      BY <2>1, <3>1, Zenon
  <2>4. ASSUME NEW k, NEW l
        PROVE  storage_double_map_key(metadata, p, n, k, l) =
                 IF layout.err # "" THEN layout ELSE get_double_map(layout.val, p, k, l)
    <3>1. storage_double_map_key(metadata, p, n, k, l) =
            IF LayoutIn(known, p, n).err # "" THEN LayoutIn(known, p, n)
            ELSE get_double_map(LayoutIn(known, p, n).val, p, k, l)
      BY KeysOfLayouts
    <3>2. QED
      BY <2>1, <3>1, Zenon
  <2>5. QED
    BY <2>2, <2>3, <2>4
<1>6. layout.err = ""
  BY <1>e, <1>4, <1>5, Zenon
<1>7. entry.name = n /\ entry.hashers \in Seq(Hasher)
  <2>1. PICK v \in DOMAIN Runtimes : v = known
    OBVIOUS
  <2>2. LayoutIn(v, p, n).err = ""
    BY <1>3, <1>6, <2>1, Zenon
  <2>3. LayoutIn(v, p, n).val.name = n /\ LayoutIn(v, p, n).val.hashers \in Seq(Hasher)
    BY <2>2, Layouts, Zenon
  <2>4. QED
    BY <1>3, <2>1, <2>3, Zenon
<1>8. Len(keys) = CASE q.op = "value" -> 0 [] q.op = "double_map" -> 2 [] OTHER -> 1
  BY <1>1, <1>2, Zenon
<1>9. CASE q.op = "value"
  <2>1. keys = <<>> /\ Len(keys) = 0
    BY <1>8, <1>9, ShortSequences
  <2>2. key = get_value(entry, p)
    BY <1>3, <1>4, <1>5, <1>6, <1>9, Zenon
  <2>3. ~IsMap(entry)
    <3>1. ASSUME IsMap(entry) PROVE FALSE
      <4>1. key = NotFound("StorageTypeError")
        BY <2>2, <3>1, Zenon DEF get_value
      <4>2. key.err = "StorageTypeError"
        BY <4>1, Lookups, Zenon
      <4>3. QED
        BY <1>e, <4>2
    <3>2. QED
      BY <3>1
  <2>4. key.val = storage_key(p, n)
    <3>1. key = Found(storage_key(p, n))
      BY <1>7, <2>2, <2>3, Zenon DEF get_value
    <3>2. QED
      BY <3>1, Lookups, Zenon
  <2>5. PICK h \in Seq(Hasher) : h = entry.hashers
    BY <1>7
  <2>6. FlattenSeq(Parts(keys, h)) = <<>> /\ Len(keys) <= Len(h)
    <3>1. FlattenSeq(Parts(<<>>, h)) = <<>>
      BY NoParts
    <3>2. Len(h) \in Nat
      BY SequenceFacts
    <3>3. FlattenSeq(Parts(keys, h)) = <<>>
      BY <2>1, <3>1, Zenon
    <3>4. Len(keys) <= Len(h)
      <4>1. Len(keys) = 0
        BY <2>1
      <4>2. \A m \in Nat : 0 <= m
        OBVIOUS
      <4>3. QED
        BY <3>2, <4>1, <4>2, Zenon
    <3>5. QED
      BY <3>3, <3>4
  <2>7. storage_key(p, n) \o <<>> = storage_key(p, n)
    <3>1. PICK k \in Seq(Marks \X {p, n}) : k = storage_key(p, n)
      BY PrefixParts
    <3>2. k \o <<>> = k
      BY Concatenated
    <3>3. QED
      BY <3>1, <3>2
  <2>8. QED
    BY <1>1, <1>2, <1>3, <1>6, <2>4, <2>5, <2>6, <2>7, Zenon
<1>10. CASE q.op # "value"
  <2>1. key = EntryKey(p, entry, keys)
    <3>1. CASE q.op = "double_map"
      <4>1. <<keys[1], keys[2]>> = keys
        BY <1>8, <3>1, ShortSequences
      <4>2. key = get_double_map(entry, p, keys[1], keys[2])
        BY <1>3, <1>4, <1>5, <1>6, <1>10, <3>1, Zenon
      <4>3. QED
        BY <4>1, <4>2, Zenon DEF get_double_map
    <3>2. CASE q.op # "double_map"
      <4>1. <<keys[1]>> = keys
        BY <1>8, <1>10, <3>2, ShortSequences
      <4>2. key = get_map(entry, p, keys[1])
        BY <1>3, <1>4, <1>5, <1>6, <1>10, <3>2, Zenon
      <4>3. QED
        BY <4>1, <4>2, Zenon DEF get_map
    <3>3. QED
      BY <3>1, <3>2
  <2>2. /\ Len(keys) <= Len(entry.hashers)
        /\ key.val = storage_key(p, entry.name) \o FlattenSeq(Parts(keys, entry.hashers))
    <3>1. PICK val : val = EntryKey(p, entry, keys) /\ val = key /\ val.err = ""
      BY <1>e, <2>1, Zenon
    <3>2. QED
      BY <1>7, <3>1, EntryKeys, Zenon
  <2>3. QED
    BY <1>1, <1>2, <1>3, <1>6, <1>7, <2>2, Zenon
<1>11. QED
  BY <1>9, <1>10

\* The node's key of what is stored, from the layout that its runtime has.
LEMMA NodeKeys ==
  ASSUME NEW block, NEW s \in StoredAt(block)
  PROVE  \A layout :
           layout = LayoutIn(SpecAt(block), s.pallet, s.name) =>
             /\ layout.err = "" /\ layout.val.hashers \in Seq(Hasher)
             /\ UnambiguousRuntimes => Unambiguous(layout.val.hashers)
             /\ IsASeq(s.keys) /\ Len(s.keys) = Len(layout.val.hashers)
             /\ NodeKey(block, s) = storage_key(s.pallet, s.name)
                                      \o FlattenSeq(Parts(s.keys, layout.val.hashers))
<1>1. PICK version, p, n : version = SpecAt(block) /\ p = s.pallet /\ n = s.name
  OBVIOUS
<1>2. s \in Stored /\ version \in s.in
  BY <1>1 DEF StoredAt
<1>3. /\ IsASeq(s.keys) /\ version \in DOMAIN Runtimes /\ LayoutIn(version, p, n).err = ""
      /\ Len(s.keys) = Len(LayoutIn(version, p, n).val.hashers)
  BY <1>1, <1>2, StoredAssumption, Zenon
<1>4. /\ LayoutIn(version, p, n).val.hashers \in Seq(Hasher)
      /\ UnambiguousRuntimes => Unambiguous(LayoutIn(version, p, n).val.hashers)
  BY <1>3, Layouts, Zenon
<1>5. NodeKey(block, s) =
        storage_key(p, n) \o FlattenSeq(Parts(s.keys, LayoutIn(version, p, n).val.hashers))
  BY <1>1, Zenon DEF NodeKey, storage_key, Parts
<1>6. QED
  BY <1>1, <1>3, <1>4, <1>5, Zenon

Cancels(s, F, t, G) == s \o F = t \o G => s = t /\ F = G

LEMMA SameElements ==
  ASSUME NEW T, NEW a \in Seq(T), NEW b \in Seq(T), Len(a) = Len(b), \A i \in 1..Len(a) : a[i] = b[i]
  PROVE  a = b
  OBVIOUS

LEMMA SameTails ==
  ASSUME NEW T, NEW s \in Seq(T), NEW t \in Seq(T), NEW F \in Seq(T), NEW G \in Seq(T), Len(s) = Len(t)
  PROVE  Cancels(s, F, t, G)
<1> SUFFICES ASSUME s \o F = t \o G PROVE s = t /\ F = G
  BY Zenon DEF Cancels
<1>1. PICK u \in Seq(T) : u = s \o F /\ u = t \o G
  <2>1. s \o F \in Seq(T)
    BY Concatenated
  <2>2. QED
    BY <2>1
<1>2. PICK n \in Nat : n = Len(s) /\ n = Len(t)
  BY SequenceFacts
<1>3. Len(u) = n + Len(F) /\ Len(u) = n + Len(G) /\ Len(F) \in Nat /\ Len(G) \in Nat
  <2>1. Len(s \o F) = Len(s) + Len(F)
    BY Concatenated
  <2>2. Len(t \o G) = Len(t) + Len(G)
    BY Concatenated
  <2>3. QED
    BY <1>1, <1>2, <2>1, <2>2
<1>4. /\ \A i \in 1..n : u[i] = s[i] /\ u[i] = t[i]
      /\ \A i \in 1..Len(F) : u[n + i] = F[i]
      /\ \A i \in 1..Len(G) : u[n + i] = G[i]
  <2>1. \A i \in 1..Len(s) : (s \o F)[i] = s[i]
    BY Concatenated
  <2>2. \A i \in 1..Len(t) : (t \o G)[i] = t[i]
    BY Concatenated
  <2>3. \A i \in 1..Len(F) : (s \o F)[Len(s) + i] = F[i]
    BY Concatenated
  <2>4. \A i \in 1..Len(G) : (t \o G)[Len(t) + i] = G[i]
    BY Concatenated
  <2>5. QED
    BY <1>1, <1>2, <2>1, <2>2, <2>3, <2>4
<1>5. F = G
  <2>1. Len(F) = Len(G)
    BY <1>3
  <2>2. \A i \in 1..Len(F) : F[i] = G[i]
    BY <1>4, <2>1, Zenon
  <2>3. QED
    BY <2>1, <2>2, SameElements
<1>6. s = t
  <2>1. Len(s) = Len(t) /\ \A i \in 1..Len(s) : s[i] = t[i]
    BY <1>2, <1>4, Zenon
  <2>2. QED
    BY <2>1, SameElements
<1>7. QED
  BY <1>5, <1>6, Zenon

\* The two parts for the pallet and the entry, and what lies behind.
SameKey(p, n, A, r, m, B) ==
  storage_key(p, n) \o A = storage_key(r, m) \o B => p = r /\ n = m /\ A = B

LEMMA SplitStorageKeys ==
  ASSUME NEW p, NEW n, NEW r, NEW m, NEW K, NEW A \in Seq(Marks \X K), NEW B \in Seq(Marks \X K)
  PROVE  SameKey(p, n, A, r, m, B)
<1> PICK T : T = Marks \X (K \cup {p, n, r, m})
  OBVIOUS
<1>1. PICK F \in Seq(T), G \in Seq(T) : F = A /\ G = B
  <2>1. A \in Seq(T) /\ B \in Seq(T)
    BY SMT
  <2>2. QED
    BY <2>1
<1>2. PICK u \in Seq(T), v \in Seq(T) :
        u = storage_key(p, n) /\ v = storage_key(r, m) /\ Len(u) = Len(v)
  <2>1. storage_key(p, n) \in Seq(Marks \X {p, n}) /\ Len(storage_key(p, n)) = 2
    BY PrefixParts
  <2>2. storage_key(r, m) \in Seq(Marks \X {r, m}) /\ Len(storage_key(r, m)) = 2
    BY PrefixParts
  <2>3. Marks \X {p, n} \subseteq T /\ Marks \X {r, m} \subseteq T
    OBVIOUS
  <2>4. QED
    BY <2>1, <2>2, <2>3
<1>3. Cancels(u, F, v, G)
  BY <1>2, SameTails
<1>4. storage_key(p, n) = storage_key(r, m) => p = r /\ n = m
  BY DEF storage_key, Hashed
<1>5. QED
  BY <1>1, <1>2, <1>3, <1>4, Zenon DEF Cancels, SameKey

\* Equal keys are keys of the same entry, with the same map keys.
SameEntry(p, n, a, h, r, m, b, e) ==
  storage_key(p, n) \o FlattenSeq(Parts(a, h)) = storage_key(r, m) \o FlattenSeq(Parts(b, e)) =>
    p = r /\ n = m /\ a = b

LEMMA SameStorageKeys ==
  ASSUME NEW p, NEW n, NEW a, IsASeq(a), NEW h \in Seq(Hasher), Len(a) <= Len(h), Unambiguous(h),
         NEW r, NEW m, NEW b, IsASeq(b), NEW e \in Seq(Hasher), Len(b) <= Len(e), Unambiguous(e)
  PROVE  SameEntry(p, n, a, h, r, m, b, e)
<1>1. PICK K : K = Elements(a) \cup Elements(b)
  OBVIOUS
<1>2. a \in Seq(K) /\ b \in Seq(K)
  <2>1. a \in Seq(Elements(a)) /\ b \in Seq(Elements(b))
    BY DEF IsASeq, Elements
  <2>2. Elements(a) \subseteq K /\ Elements(b) \subseteq K
    BY <1>1
  <2>3. QED
    BY <2>1, <2>2
<1>3. PICK F \in Seq(Marks \X K), G \in Seq(Marks \X K) :
        F = FlattenSeq(Parts(a, h)) /\ G = FlattenSeq(Parts(b, e))
  <2>1. FlattenSeq(Parts(a, h)) \in Seq(Marks \X K)
    BY <1>2, PartsRead
  <2>2. FlattenSeq(Parts(b, e)) \in Seq(Marks \X K)
    BY <1>2, PartsRead
  <2>3. QED
    BY <2>1, <2>2
<1>4. SameKey(p, n, F, r, m, G)
  BY SplitStorageKeys
<1>5. FlattenSeq(Parts(a, h)) = FlattenSeq(Parts(b, e)) => a = b
  BY <1>2, KeysAreUnambiguous
<1>6. QED
  BY <1>3, <1>4, <1>5, Zenon DEF SameKey, SameEntry

-----------------------------------------------------------------------------
(* The node's answers.                                                     *)

IsOf(s, q) == s.pallet = q.pallet /\ s.name = q.name /\ s.keys = q.keys
SameLayout(block, q) == LayoutIn(SpecAt(block), q.pallet, q.name) = LayoutIn(known, q.pallet, q.name)

\* The client's key is the node's key of the entry that is asked for, if the runtime
\* keeps the entry as the metadata says, and of no other one.
LEMMA KeyOfTheEntry ==
  ASSUME UnambiguousRuntimes, known \in DOMAIN Runtimes, NEW q \in Queries, q.op \in StorageReads,
         NEW block, NEW s \in StoredAt(block)
  PROVE  \A key : key = QueryKey(q) /\ key.err = "" =>
           /\ NodeKey(block, s) = key.val => IsOf(s, q)
           /\ IsOf(s, q) /\ SameLayout(block, q) => NodeKey(block, s) = key.val
<1>1. SUFFICES ASSUME NEW key, key = QueryKey(q), key.err = ""
               PROVE  /\ NodeKey(block, s) = key.val => IsOf(s, q)
                      /\ IsOf(s, q) /\ SameLayout(block, q) => NodeKey(block, s) = key.val
  BY Zenon
<1>2. PICK layout, own : /\ layout = LayoutIn(known, q.pallet, q.name)
                         /\ own = LayoutIn(SpecAt(block), s.pallet, s.name)
  OBVIOUS
<1>3. /\ layout.err = "" /\ IsASeq(q.keys) /\ Len(q.keys) <= Len(layout.val.hashers)
      /\ key.val = storage_key(q.pallet, q.name) \o FlattenSeq(Parts(q.keys, layout.val.hashers))
  <2>1. \A l, k :
          l = LayoutIn(known, q.pallet, q.name) /\ k = QueryKey(q) /\ k.err = "" =>
            /\ l.err = "" /\ IsASeq(q.keys) /\ Len(q.keys) <= Len(l.val.hashers)
            /\ k.val = storage_key(q.pallet, q.name) \o FlattenSeq(Parts(q.keys, l.val.hashers))
    BY ReadKeys
  <2>2. QED
    BY <1>1, <1>2, <2>1, Zenon
<1>4. layout.val.hashers \in Seq(Hasher) /\ Unambiguous(layout.val.hashers)
  <2>1. PICK v, p, n : v \in DOMAIN Runtimes /\ v = known /\ p = q.pallet /\ n = q.name
    OBVIOUS
  <2>2. LayoutIn(v, p, n).err = "" =>
          LayoutIn(v, p, n).val.hashers \in Seq(Hasher) /\ Unambiguous(LayoutIn(v, p, n).val.hashers)
    BY <2>1, Layouts, Zenon
  <2>3. QED
    BY <1>2, <1>3, <2>1, <2>2, Zenon
<1>5. /\ own.err = "" /\ own.val.hashers \in Seq(Hasher) /\ Unambiguous(own.val.hashers)
      /\ IsASeq(s.keys) /\ Len(s.keys) = Len(own.val.hashers)
      /\ NodeKey(block, s) = storage_key(s.pallet, s.name) \o FlattenSeq(Parts(s.keys, own.val.hashers))
  <2>1. \A l : l = LayoutIn(SpecAt(block), s.pallet, s.name) =>
          /\ l.err = "" /\ l.val.hashers \in Seq(Hasher)
          /\ UnambiguousRuntimes => Unambiguous(l.val.hashers)
          /\ IsASeq(s.keys) /\ Len(s.keys) = Len(l.val.hashers)
          /\ NodeKey(block, s) = storage_key(s.pallet, s.name) \o FlattenSeq(Parts(s.keys, l.val.hashers))
    BY NodeKeys
  <2>2. QED
    BY <1>2, <2>1, Zenon
<1>6. PICK h, e, a, b :
        /\ h \in Seq(Hasher) /\ e \in Seq(Hasher)
        /\ h = layout.val.hashers /\ e = own.val.hashers /\ a = q.keys /\ b = s.keys
        /\ IsASeq(a) /\ IsASeq(b) /\ Len(a) <= Len(h) /\ Len(b) = Len(e)
        /\ Unambiguous(h) /\ Unambiguous(e)
  BY <1>3, <1>4, <1>5, Zenon
<1>7. PICK p, n, r, m : p = q.pallet /\ n = q.name /\ r = s.pallet /\ m = s.name
  OBVIOUS
<1>8. Len(b) <= Len(e)
  <2>1. Len(e) \in Nat
    BY SequenceFacts
  <2>2. QED
    BY <1>6, <2>1
<1>9. SameEntry(p, n, a, h, r, m, b, e)
  BY <1>6, <1>8, SameStorageKeys
<1>10. NodeKey(block, s) = key.val => IsOf(s, q)
  BY <1>3, <1>5, <1>6, <1>7, <1>9, Zenon DEF SameEntry, IsOf
<1>11. ASSUME IsOf(s, q), SameLayout(block, q) PROVE NodeKey(block, s) = key.val
  <2>1. own = layout
    BY <1>2, <1>11, Zenon DEF IsOf, SameLayout
  <2>2. QED
    BY <1>3, <1>5, <1>11, <2>1, Zenon DEF IsOf
<1>12. QED
  BY <1>10, <1>11

\* What Some holds.
LEMMA SomeIs ==
  ASSUME NEW x
  PROVE  Some(x)[1] = x
BY DEF Some

\* The two parts of Ok.
LEMMA OkIs == \A x : Ok(x).err = "" /\ Ok(x).val = x
BY DEF Ok

\* The first requests of the queries that the properties are about.
LEMMA FirstRequests ==
  ASSUME NEW q
  PROVE  /\ q.op \in StorageReads =>
              FirstRequest(q) = IF QueryKey(q).err # "" THEN QueryKey(q)
                                ELSE Ok([method |-> "state_getStorage", params |-> <<QueryKey(q).val, q.at>>])
         /\ q.op = "map_keys" =>
              FirstRequest(q) = IF QueryKey(q).err # "" THEN QueryKey(q)
                                ELSE Ok([method |-> "state_getKeys", params |-> <<QueryKey(q).val, q.at>>])
         /\ q.op = "block_by_num" =>
              FirstRequest(q) = Ok([method |-> "chain_getBlockHash", params |-> <<q.number>>])
<1>1. CASE q.op \in StorageReads
  <2>1. q.op \notin StorageProofs \cup {"map_keys", "block_by_num", "block", "header",
                                     "finalized_head", "fee_details"}
    BY <1>1 DEF StorageReads, StorageProofs
  <2>2. q.op # "map_keys" /\ q.op # "block_by_num"
    BY <2>1
  <2>3. FirstRequest(q) = AndThen(QueryKey(q), LAMBDA key : Ok([method |-> "state_getStorage", params |-> <<key, q.at>>]))
    BY <1>1, <2>1, Zenon DEF FirstRequest
  <2>4. QED
    BY <1>1, <2>2, <2>3, Zenon DEF AndThen
<1>2. CASE q.op = "map_keys"
  <2>1. q.op \notin StorageReads /\ q.op \notin StorageProofs /\ q.op # "block_by_num"
    BY <1>2 DEF StorageReads, StorageProofs
  <2>2. FirstRequest(q) = AndThen(QueryKey(q), LAMBDA key : Ok([method |-> "state_getKeys", params |-> <<key, q.at>>]))
    BY <1>2, <2>1 DEF FirstRequest
  <2>3. QED
    BY <1>2, <2>1, <2>2, Zenon DEF AndThen
<1>3. CASE q.op = "block_by_num"
  <2>1. q.op \notin StorageReads /\ q.op \notin StorageProofs /\ q.op # "map_keys"
    BY <1>3 DEF StorageReads, StorageProofs
  <2>2. FirstRequest(q) = Ok([method |-> "chain_getBlockHash", params |-> <<q.number>>])
    BY <1>3, <2>1 DEF FirstRequest
  <2>3. QED
    BY <1>3, <2>1, <2>2, Zenon
<1>4. QED
  BY <1>1, <1>2, <1>3

\* Only a query by number asks for a hash.
LEMMA OtherRequests ==
  ASSUME NEW q \in Queries, q.op # "constant", q.op # "block_by_num"
  PROVE  FirstRequest(q).err = "" => FirstRequest(q).val.method # "chain_getBlockHash"
<1>1. PICK f, k : f = FirstRequest(q) /\ k = QueryKey(q)
  OBVIOUS
<1>2. q.op \in Operations
  BY QueriesAssumption, Zenon
<1>3. /\ "state_getStorage" # "chain_getBlockHash" /\ "state_getKeys" # "chain_getBlockHash"
      /\ "state_getReadProof" # "chain_getBlockHash"
  OBVIOUS
<1>4. \E r : r.method # "chain_getBlockHash" /\ (f = Ok(r) \/ f = IF k.err # "" THEN k ELSE Ok(r))
  <2>1. CASE q.op \in StorageReads
    <3>1. PICK r : r = [method |-> "state_getStorage", params |-> <<k.val, q.at>>]
      OBVIOUS
    <3>2. r.method = "state_getStorage"
      BY <3>1
    <3>3. f = IF k.err # "" THEN k ELSE Ok(r)
      BY <1>1, <2>1, <3>1, FirstRequests, Zenon
    <3>4. QED
      BY <1>3, <3>2, <3>3, Zenon
  <2>2. CASE q.op = "map_keys"
    <3>1. PICK r : r = [method |-> "state_getKeys", params |-> <<k.val, q.at>>]
      OBVIOUS
    <3>2. r.method = "state_getKeys"
      BY <3>1
    <3>3. f = IF k.err # "" THEN k ELSE Ok(r)
      BY <1>1, <2>2, <3>1, FirstRequests, Zenon
    <3>4. QED
      BY <1>3, <3>2, <3>3, Zenon
  <2>3. CASE q.op \in StorageProofs
    <3>1. q.op \notin StorageReads \cup {"map_keys", "block_by_num", "block", "header",
                                        "finalized_head", "fee_details"}
      BY <2>3 DEF StorageReads, StorageProofs
    <3>2. FirstRequest(q) = AndThen(QueryKey(q), LAMBDA key : Ok([method |-> "state_getReadProof", params |-> <<{key}, q.at>>]))
      BY <2>3, <3>1, Zenon DEF FirstRequest
    <3>3. PICK r : r = [method |-> "state_getReadProof", params |-> <<{k.val}, q.at>>]
      OBVIOUS
    <3>4. r.method = "state_getReadProof"
      BY <3>3
    <3>5. f = IF k.err # "" THEN k ELSE Ok(r)
      BY <1>1, <3>2, <3>3, Zenon DEF AndThen
    <3>6. QED
      BY <1>3, <3>4, <3>5, Zenon
  <2>4. CASE q.op \in {"block", "header", "finalized_head", "fee_details"}
    <3>1. q.op \notin StorageReads /\ q.op \notin StorageProofs
      BY <2>4 DEF StorageReads, StorageProofs
    <3>2. \E method \in {"chain_getBlock", "chain_getHeader", "chain_getFinalizedHead", "payment_queryFeeDetails"} :
            \E params : f = Ok([method |-> method, params |-> params])
      BY <1>1, <2>4, <3>1 DEF FirstRequest
    <3>3. QED
      BY <3>2
  <2>5. QED
    BY <1>2, <2>1, <2>2, <2>3, <2>4 DEF Operations, KeyQueries
<1>5. PICK r : r.method # "chain_getBlockHash" /\ (f = Ok(r) \/ f = IF k.err # "" THEN k ELSE Ok(r))
  BY <1>4
<1>6. f.err = "" => f.val = r
  BY <1>5, OkIs, Zenon
<1>7. QED
  BY <1>1, <1>5, <1>6, Zenon


\* What the request of a query asks for.
LEMMA Requests ==
  ASSUME pc = "waiting", Waiting
  PROVE  /\ query.op \in StorageReads =>
              \E k : /\ k = QueryKey(query) /\ k.err = ""
                     /\ request = [method |-> "state_getStorage", params |-> <<k.val, query.at>>]
         /\ query.op = "map_keys" =>
              \E k : /\ k = QueryKey(query) /\ k.err = ""
                     /\ request = [method |-> "state_getKeys", params |-> <<k.val, query.at>>]
         /\ query.op = "block_by_num" =>
              \/ request = [method |-> "chain_getBlockHash", params |-> <<query.number>>]
              \/ \E h : /\ request = [method |-> "chain_getBlock", params |-> <<h>>]
                        /\ ~refused => HashAnswer(h)
         /\ AsksForHash => query.op = "block_by_num"
<1>1. PICK f, k, q : f = FirstRequest(query) /\ k = QueryKey(query) /\ q = query
  OBVIOUS
<1>2. /\ q \in Queries /\ q.op # "constant" /\ f.err = ""
      /\ \/ request = f.val
         \/ q.op = "block_by_num" /\ \E h : request = GetSignedBlock(h) /\ (~refused => HashAnswer(h))
  BY <1>1, Zenon DEF Waiting, Request
<1>3. ASSUME NEW r, f = IF k.err # "" THEN k ELSE Ok(r) PROVE k.err = "" /\ f.val = r
  BY <1>2, <1>3, OkIs, Zenon
<1>4. CASE q.op \in StorageReads
  <2>1. q.op # "block_by_num" /\ q.op # "map_keys"
    BY <1>4 DEF StorageReads
  <2>2. PICK r : r = [method |-> "state_getStorage", params |-> <<k.val, q.at>>]
    OBVIOUS
  <2>3. f = IF k.err # "" THEN k ELSE Ok(r)
    BY <1>1, <1>4, <2>2, FirstRequests, Zenon
  <2>4. k.err = "" /\ request = r
    BY <1>2, <1>3, <2>1, <2>3, Zenon
  <2>5. r.method # "chain_getBlockHash"
    BY <2>2
  <2>6. QED
    BY <1>1, <1>4, <2>1, <2>2, <2>4, <2>5, Zenon DEF AsksForHash
<1>5. CASE q.op = "map_keys"
  <2>1. q.op # "block_by_num" /\ q.op \notin StorageReads
    BY <1>5 DEF StorageReads
  <2>2. PICK r : r = [method |-> "state_getKeys", params |-> <<k.val, q.at>>]
    OBVIOUS
  <2>3. f = IF k.err # "" THEN k ELSE Ok(r)
    BY <1>1, <1>5, <2>2, FirstRequests, Zenon
  <2>4. k.err = "" /\ request = r
    BY <1>2, <1>3, <2>1, <2>3, Zenon
  <2>5. r.method # "chain_getBlockHash"
    BY <2>2
  <2>6. QED
    BY <1>1, <1>5, <2>1, <2>2, <2>4, <2>5, Zenon DEF AsksForHash
<1>6. CASE q.op = "block_by_num"
  <2>1. q.op # "map_keys" /\ q.op \notin StorageReads
    BY <1>6 DEF StorageReads
  <2>2. PICK r : r = [method |-> "chain_getBlockHash", params |-> <<q.number>>]
    OBVIOUS
  <2>3. f.val = r
    <3>1. f = Ok(r)
      BY <1>1, <1>6, <2>2, FirstRequests, Zenon
    <3>2. QED
      BY <3>1, OkIs, Zenon
  <2>4. QED
    BY <1>1, <1>2, <1>6, <2>1, <2>2, <2>3, Zenon DEF GetSignedBlock
<1>7. CASE q.op \notin StorageReads \cup {"map_keys", "block_by_num"}
  <2>1. q.op \notin StorageReads /\ q.op # "map_keys" /\ q.op # "block_by_num"
    BY <1>7
  <2>2. f.val.method # "chain_getBlockHash"
    BY <1>1, <1>2, <2>1, OtherRequests, Zenon
  <2>3. ~AsksForHash
    BY <1>2, <2>1, <2>2, Zenon DEF AsksForHash
  <2>4. QED
    BY <1>1, <2>1, <2>3, Zenon
<1>8. QED
  BY <1>4, <1>5, <1>6, <1>7


LEMMA Asked ==
  ASSUME Chain, pc = "waiting"
  PROVE  At(query.at) \in AskedAt
BY DEF Chain, At, AskedAt

\* A read for the key of a query is answered with the entry that is asked for.
LEMMA EntryAnswers ==
  ASSUME UnambiguousRuntimes, Chain, pc = "waiting", query \in Queries, query.op \in StorageReads
  PROVE  \A k : k = QueryKey(query) /\ k.err = "" =>
           EntryAnswer(Answer("state_getStorage", <<k.val, query.at>>))
<1>1. SUFFICES ASSUME NEW k, k = QueryKey(query), k.err = ""
               PROVE  EntryAnswer(Answer("state_getStorage", <<k.val, query.at>>))
  BY Zenon
<1>2. PICK block, key, params : block = At(query.at) /\ key = k.val /\ params = <<key, query.at>>
  OBVIOUS
<1>3. block \in AskedAt
  BY <1>2, Asked, Zenon
<1>4. PICK S : S = {s \in StoredAt(At(params[2])) : NodeKey(At(params[2]), s) = params[1]}
  OBVIOUS
<1>p. params[1] = key /\ params[2] = query.at
  BY <1>2
<1>b. At(params[2]) = block
  BY <1>2, <1>p, Zenon
<1>s. \A s : s \in S <=> s \in StoredAt(block) /\ NodeKey(block, s) = key
  <2>1. \A s : s \in S <=> s \in StoredAt(At(params[2])) /\ NodeKey(At(params[2]), s) = params[1]
    BY <1>4, Zenon
  <2>2. QED
    BY <1>p, <1>b, <2>1, Zenon
<1>5. Answer("state_getStorage", params) =
        IF S = {} THEN Nothing ELSE Some([of |-> CHOOSE s \in S : TRUE, at |-> block])
  <2>1. Answer("state_getStorage", params) =
          IF S = {} THEN Nothing ELSE Some([of |-> CHOOSE s \in S : TRUE, at |-> At(params[2])])
    BY <1>4, SMT DEF Answer, Found1
  <2>2. QED
    BY <1>b, <2>1, Zenon
<1>6. known \in DOMAIN Runtimes
  BY DEF Chain
<1>7. ASSUME NEW s \in StoredAt(block)
      PROVE  /\ s \in S => IsOf(s, query)
             /\ IsOf(s, query) /\ SameLayout(block, query) => s \in S
  <2>1. \A x : x = QueryKey(query) /\ x.err = "" =>
          /\ NodeKey(block, s) = x.val => IsOf(s, query)
          /\ IsOf(s, query) /\ SameLayout(block, query) => NodeKey(block, s) = x.val
    BY <1>6, KeyOfTheEntry
  <2>2. QED
    BY <1>1, <1>2, <1>s, <2>1, Zenon
<1>8. CASE S = {}
  <2>1. PICK t : t = Answer("state_getStorage", params)
    OBVIOUS
  <2>2. t = Nothing
    BY <1>5, <1>8, <2>1, Zenon
  <2>3. \/ ~\E s \in StoredAt(block) : IsAsked(s)
        \/ Layout(SpecAt(block)) # Layout(known)
    BY <1>7, <1>8, Zenon DEF IsAsked, IsOf, Layout, SameLayout
  <2>4. EntryAnswer(t)
    BY <1>3, <2>2, <2>3, Zenon DEF EntryAnswer
  <2>5. QED
    BY <1>2, <2>1, <2>4, Zenon
<1>9. CASE S # {}
  <2>1. PICK s : s = (CHOOSE x \in S : TRUE)
    OBVIOUS
  <2>2. s \in S
    BY <1>9, <2>1, Zenon
  <2>3. IsAsked(s)
    BY <1>s, <1>7, <2>2, Zenon DEF IsAsked, IsOf
  <2>4. PICK t : t = Answer("state_getStorage", params)
    OBVIOUS
  <2>5. t = Some([of |-> s, at |-> block])
    BY <1>5, <1>9, <2>1, <2>4, Zenon
  <2>6. t # Nothing /\ t[1].of = s /\ t[1].at = block
    BY <2>5 DEF Some, Nothing
  <2>7. EntryAnswer(t)
    BY <1>3, <2>3, <2>6, Zenon DEF EntryAnswer
  <2>8. QED
    BY <1>2, <2>4, <2>7, Zenon
<1>10. QED
  BY <1>8, <1>9

\* The keys under the prefix of a map are those of that map.
LEMMA PrefixOfKey ==
  ASSUME NEW p, NEW n, NEW r, NEW m, NEW T, NEW F \in Seq(T)
  PROVE  IsPrefix(storage_key(p, n), storage_key(r, m) \o F) <=> p = r /\ n = m
<1>1. PICK U : U = T \cup (Marks \X {p, n, r, m})
  OBVIOUS
<1>2. PICK s \in Seq(U), t \in Seq(U), G \in Seq(U) :
        s = storage_key(p, n) /\ t = storage_key(r, m) /\ G = F /\ Len(s) = 2 /\ Len(t) = 2
  <2>1. storage_key(p, n) \in Seq(Marks \X {p, n}) /\ Len(storage_key(p, n)) = 2
    BY PrefixParts
  <2>2. storage_key(r, m) \in Seq(Marks \X {r, m}) /\ Len(storage_key(r, m)) = 2
    BY PrefixParts
  <2>3. Marks \X {p, n} \subseteq U /\ Marks \X {r, m} \subseteq U /\ T \subseteq U
    BY <1>1
  <2>4. F \in Seq(U) /\ storage_key(p, n) \in Seq(U) /\ storage_key(r, m) \in Seq(U)
    BY <2>1, <2>2, <2>3
  <2>5. QED
    BY <2>1, <2>2, <2>4
<1>3. PICK u \in Seq(U) : u = t \o G /\ Len(u) = 2 + Len(G) /\ u[1] = t[1] /\ u[2] = t[2]
  <2>1. t \o G \in Seq(U) /\ Len(t \o G) = Len(t) + Len(G) /\ \A i \in 1..Len(t) : (t \o G)[i] = t[i]
    BY Concatenated
  <2>2. 1 \in 1..Len(t) /\ 2 \in 1..Len(t)
    BY <1>2
  <2>3. QED
    BY <1>2, <2>1, <2>2
<1>4. IsPrefix(s, u) <=> Extended(u, s)
  BY PrefixIsExtended
<1>5. Extended(u, s) <=> u[1] = s[1] /\ u[2] = s[2]
  <2>1. Len(G) \in Nat
    BY SequenceFacts
  <2>2. QED
    BY <1>2, <1>3, <2>1 DEF Extended
<1>6. /\ s[1] = <<"Twox128", p>> /\ s[2] = <<"Twox128", n>>
      /\ t[1] = <<"Twox128", r>> /\ t[2] = <<"Twox128", m>>
  BY <1>2 DEF storage_key, Hashed
<1>7. (u[1] = s[1] /\ u[2] = s[2]) <=> (p = r /\ n = m)
  BY <1>3, <1>6
<1>8. QED
  BY <1>2, <1>3, <1>4, <1>5, <1>7, Zenon


LEMMA NodeKeysUnderPrefix ==
  ASSUME NEW block, NEW s \in StoredAt(block), NEW p, NEW n
  PROVE  IsPrefix(storage_key(p, n), NodeKey(block, s)) <=> p = s.pallet /\ n = s.name
<1>1. PICK layout, r, m, b :
        layout = LayoutIn(SpecAt(block), s.pallet, s.name) /\ r = s.pallet /\ m = s.name /\ b = s.keys
  OBVIOUS
<1>2. /\ layout.val.hashers \in Seq(Hasher) /\ IsASeq(b) /\ Len(b) = Len(layout.val.hashers)
      /\ NodeKey(block, s) = storage_key(r, m) \o FlattenSeq(Parts(b, layout.val.hashers))
  <2>1. \A l : l = LayoutIn(SpecAt(block), s.pallet, s.name) =>
          /\ l.err = "" /\ l.val.hashers \in Seq(Hasher)
          /\ UnambiguousRuntimes => Unambiguous(l.val.hashers)
          /\ IsASeq(s.keys) /\ Len(s.keys) = Len(l.val.hashers)
          /\ NodeKey(block, s) = storage_key(s.pallet, s.name) \o FlattenSeq(Parts(s.keys, l.val.hashers))
    BY NodeKeys
  <2>2. QED
    BY <1>1, <2>1, Zenon
<1>3. PICK h \in Seq(Hasher) : h = layout.val.hashers /\ Len(b) = Len(h)
  BY <1>2
<1>4. b \in Seq(Elements(b)) /\ Len(b) <= Len(h)
  <2>1. Len(h) \in Nat
    BY SequenceFacts
  <2>2. QED
    BY <1>2, <1>3, <2>1 DEF IsASeq, Elements
<1>5. FlattenSeq(Parts(b, h)) \in Seq(Marks \X Elements(b))
  BY <1>4, PartsRead
<1>6. IsPrefix(storage_key(p, n), storage_key(r, m) \o FlattenSeq(Parts(b, h))) <=> p = r /\ n = m
  BY <1>5, PrefixOfKey
<1>7. QED
  BY <1>1, <1>2, <1>3, <1>6, Zenon

LEMMA KeyOfTheMap ==
  ASSUME known \in DOMAIN Runtimes, NEW q, q.op = "map_keys"
  PROVE  \A k : k = QueryKey(q) /\ k.err = "" => k.val = storage_key(q.pallet, q.name)
<1>1. SUFFICES ASSUME NEW k, k = QueryKey(q), k.err = "" PROVE k.val = storage_key(q.pallet, q.name)
  BY Zenon
<1>e. k.err = ""
  BY <1>1
<1>2. PICK p, n, layout, entry :
        p = q.pallet /\ n = q.name /\ layout = LayoutIn(known, p, n) /\ entry = layout.val
  OBVIOUS
<1>3. k = storage_map_key_prefix(metadata, p, n)
  <2>1. QueryKey(q) = storage_map_key_prefix(metadata, q.pallet, q.name)
    BY DEF QueryKey
  <2>2. QED
    BY <1>1, <1>2, <2>1, Zenon
<1>4. k = IF layout.err # "" THEN layout ELSE get_map_prefix(entry, p)
  <2>1. storage_map_key_prefix(metadata, p, n) =
          IF LayoutIn(known, p, n).err # "" THEN LayoutIn(known, p, n)
          ELSE get_map_prefix(LayoutIn(known, p, n).val, p)
    BY KeysOfLayouts
  <2>2. QED
    BY <1>2, <1>3, <2>1, Zenon
<1>5. layout.err = ""
  BY <1>e, <1>4, Zenon
<1>6. entry.name = n
  <2>1. PICK v \in DOMAIN Runtimes : v = known
    OBVIOUS
  <2>2. LayoutIn(v, p, n).err = ""
    BY <1>2, <1>5, <2>1, Zenon
  <2>3. LayoutIn(v, p, n).err = "" =>
          /\ LayoutIn(v, p, n).val.name = n
          /\ LayoutIn(v, p, n).val.hashers \in Seq(Hasher)
          /\ UnambiguousRuntimes => Unambiguous(LayoutIn(v, p, n).val.hashers)
    BY Layouts, Zenon
  <2>4. QED
    BY <1>2, <2>1, <2>2, <2>3, Zenon
<1>7. k = get_map_prefix(entry, p)
  BY <1>4, <1>5, Zenon
<1>8. IsMap(entry)
  <2>1. ASSUME ~IsMap(entry) PROVE FALSE
    <3>1. k = NotFound("StorageTypeError")
      BY <1>7, <2>1, Zenon DEF get_map_prefix
    <3>2. k.err = "StorageTypeError"
      BY <3>1, Lookups, Zenon
    <3>3. QED
      BY <1>e, <3>2
  <2>2. QED
    BY <2>1
<1>9. k = Found(storage_key(p, n))
  BY <1>6, <1>7, <1>8, Zenon DEF get_map_prefix
<1>10. QED
  BY <1>2, <1>9, Lookups, Zenon

LEMMA KeysAnswers ==
  ASSUME Chain, pc = "waiting", query.op = "map_keys"
  PROVE  \A k : k = QueryKey(query) /\ k.err = "" =>
           KeysAnswer(Answer("state_getKeys", <<k.val, query.at>>))
<1>1. SUFFICES ASSUME NEW k, k = QueryKey(query), k.err = ""
               PROVE  KeysAnswer(Answer("state_getKeys", <<k.val, query.at>>))
  BY Zenon
<1>2. PICK block, key, params, p, n :
        /\ block = At(query.at) /\ key = k.val /\ params = <<key, query.at>>
        /\ p = query.pallet /\ n = query.name
  OBVIOUS
<1>3. block \in AskedAt
  BY <1>2, Asked, Zenon
<1>4. params[1] = key /\ params[2] = query.at
  BY <1>2
<1>5. At(params[2]) = block
  BY <1>2, <1>4, Zenon
<1>6. key = storage_key(p, n)
  <2>1. known \in DOMAIN Runtimes
    BY DEF Chain
  <2>2. PICK q : q = query /\ q.op = "map_keys"
    OBVIOUS
  <2>3. \A x : x = QueryKey(q) /\ x.err = "" => x.val = storage_key(q.pallet, q.name)
    BY <2>1, <2>2, KeyOfTheMap
  <2>4. QED
    BY <1>1, <1>2, <2>2, <2>3, Zenon
<1>7. PICK S : S = {s \in StoredAt(At(params[2])) : IsPrefix(params[1], NodeKey(At(params[2]), s))}
  OBVIOUS
<1>8. Answer("state_getKeys", params) = Some(S)
  <2>1. "state_getStorage" # "state_getKeys" /\ "state_getReadProof" # "state_getKeys"
    OBVIOUS
  <2>2. Answer("state_getKeys", params) =
          Some({s \in StoredAt(At(params[2])) : IsPrefix(params[1], NodeKey(At(params[2]), s))})
    BY <2>1, Zenon DEF Answer, Found1
  <2>3. QED
    BY <1>7, <2>2, Zenon
<1>9. \A s : s \in S <=> s \in StoredAt(block) /\ s.pallet = p /\ s.name = n
  <2>1. \A s : s \in S <=> s \in StoredAt(block) /\ IsPrefix(storage_key(p, n), NodeKey(block, s))
    BY <1>4, <1>5, <1>6, <1>7, Zenon
  <2>2. \A s \in StoredAt(block) : IsPrefix(storage_key(p, n), NodeKey(block, s)) <=> p = s.pallet /\ n = s.name
    BY NodeKeysUnderPrefix
  <2>3. QED
    BY <2>1, <2>2, Zenon
<1>10. S = {s \in StoredAt(block) : s.pallet = query.pallet /\ s.name = query.name}
  <2>1. \A s : s \in S <=> s \in {t \in StoredAt(block) : t.pallet = query.pallet /\ t.name = query.name}
    BY <1>2, <1>9, Zenon
  <2>2. QED
    BY <2>1, Zenon
<1>11. PICK t : t = Answer("state_getKeys", params) /\ t[1] = S
  BY <1>8 DEF Some
<1>12. KeysAnswer(t)
  BY <1>3, <1>10, <1>11, Zenon DEF KeysAnswer
<1>13. QED
  BY <1>2, <1>11, <1>12, Zenon


\* The hash of the block with a number, and the block behind the hash, by when the
\* chain may be another one.
LEMMA HashAnswers ==
  ASSUME Chain, pc = "waiting", query \in Queries, query.op = "block_by_num"
  PROVE  HashAnswer(ChainAnswer("chain_getBlockHash", query.number))
<1>1. PICK n : n = query.number
  OBVIOUS
<1>2. best \in bests /\ best \in Blocks
  BY DEF Chain
<1>3. PICK h : h = ChainAnswer("chain_getBlockHash", n)
  OBVIOUS
<1>4. h = IF n = Nothing THEN Some(best)
          ELSE IF n[1] <= Len(best) THEN Some(SubSeq(best, 1, n[1])) ELSE Nothing
  BY <1>3 DEF ChainAnswer
<1>5. CASE n = Nothing
  <2>1. h # Nothing /\ h[1] = best
    BY <1>4, <1>5 DEF Some, Nothing
  <2>2. HashAnswer(h)
    BY <1>1, <1>2, <1>5, <2>1, Zenon DEF HashAnswer
  <2>3. QED
    BY <1>1, <1>3, <2>2, Zenon
<1>6. CASE n # Nothing
  <2>1. n[1] \in Nat /\ Len(best) \in Nat
    <3>1. n[1] \in Nat
      BY <1>1, <1>6, QueriesAssumption, Zenon
    <3>2. QED
      BY <1>2, <3>1 DEF Blocks
  <2>2. \/ n[1] <= Len(best) /\ h = Some(SubSeq(best, 1, n[1]))
        \/ h = Nothing /\ Len(best) < n[1]
    BY <1>4, <1>6, <2>1
  <2>3. HashAnswer(h)
    BY <1>1, <1>2, <1>6, <2>2, Zenon DEF HashAnswer
  <2>4. QED
    BY <1>1, <1>3, <2>3, Zenon
<1>7. QED
  BY <1>5, <1>6

LEMMA BlockAnswers ==
  ASSUME Chain, pc = "waiting", query \in Queries, query.op = "block_by_num", NEW h, HashAnswer(h)
  PROVE  BlockAnswer(ChainAnswer("chain_getBlock", h))
<1>1. PICK n : n = query.number
  OBVIOUS
<1>2. /\ best \in bests /\ settled \in Blocks /\ bests \subseteq blocks
      /\ \A b \in bests : b \in Blocks /\ IsPrefix(settled, b)
      /\ \A b \in bests : \A i \in 0..Len(b) : SubSeq(b, 1, i) \in blocks
  BY DEF Chain
<1>3. IF n = Nothing THEN h # Nothing /\ h[1] \in bests
      ELSE \/ \E b \in bests : n[1] <= Len(b) /\ h = Some(SubSeq(b, 1, n[1]))
           \/ h = Nothing /\ \E b \in bests : Len(b) < n[1]
  BY <1>1, Zenon DEF HashAnswer
<1>4. n # Nothing => n[1] \in Nat
  BY <1>1, QueriesAssumption, Zenon
<1>5. \A b \in bests : Len(b) \in Nat /\ Len(settled) \in Nat /\ Len(settled) <= Len(b)
  <2>1. ASSUME NEW b \in bests PROVE Len(b) \in Nat /\ Len(settled) \in Nat /\ Len(settled) <= Len(b)
    <3>1. b \in Blocks /\ IsPrefix(settled, b) /\ settled \in Blocks
      BY <1>2
    <3>2. Extended(b, settled)
      BY <3>1, PrefixIsExtended DEF Blocks
    <3>3. QED
      BY <3>1, <3>2 DEF Extended, Blocks
  <2>2. QED
    BY <2>1
<1>6. PICK block : block = At(h)
  OBVIOUS
<1>7. \/ n = Nothing /\ block \in bests
      \/ n # Nothing /\ \E b \in bests : n[1] <= Len(b) /\ block = SubSeq(b, 1, n[1])
      \/ n # Nothing /\ block \in bests /\ \E b \in bests : Len(b) < n[1]
  <2>1. block = IF h = Nothing THEN best ELSE h[1]
    BY <1>6 DEF At
  <2>2. \A x : Some(x) # Nothing /\ Some(x)[1] = x
    BY DEF Some, Nothing
  <2>3. QED
    BY <1>2, <1>3, <2>1, <2>2, Zenon
<1>8. block \in blocks
  <2>1. ASSUME NEW b \in bests, n # Nothing, n[1] <= Len(b), block = SubSeq(b, 1, n[1]) PROVE block \in blocks
    <3>1. PICK i \in 0..Len(b) : i = n[1]
      BY <1>4, <1>5, <2>1
    <3>2. QED
      BY <1>2, <2>1, <3>1
  <2>2. QED
    BY <1>2, <1>7, <2>1
<1>9. n # Nothing /\ n[1] <= Len(settled) => block = SubSeq(settled, 1, n[1])
  <2>1. SUFFICES ASSUME n # Nothing, n[1] <= Len(settled) PROVE block = SubSeq(settled, 1, n[1])
    OBVIOUS
  <2>2. ~\E b \in bests : Len(b) < n[1]
    BY <1>4, <1>5, <2>1
  <2>3. PICK b \in bests : n[1] <= Len(b) /\ block = SubSeq(b, 1, n[1])
    BY <1>7, <2>1, <2>2
  <2>4. PICK i \in 0..Len(settled) : i = n[1]
    BY <1>4, <1>5, <2>1
  <2>5. b \in Blocks /\ settled \in Blocks /\ IsPrefix(settled, b)
    BY <1>2
  <2>6. SubSeq(settled, 1, i) = SubSeq(b, 1, i)
    BY <2>5, SameBeginning DEF Blocks
  <2>7. QED
    BY <2>3, <2>4, <2>6
<1>10. PICK t : t = ChainAnswer("chain_getBlock", h)
  OBVIOUS
<1>11. t # Nothing /\ t[1] = block
  <2>1. t = IF At(h) \in blocks THEN Some(At(h)) ELSE Nothing
    BY <1>10 DEF ChainAnswer
  <2>2. t = Some(block)
    BY <1>6, <1>8, <2>1, Zenon
  <2>3. QED
    BY <2>2 DEF Some, Nothing
<1>12. BlockAnswer(t)
  BY <1>1, <1>7, <1>9, <1>11, Zenon DEF BlockAnswer
<1>13. QED
  BY <1>10, <1>12, Zenon


\* The node answers the request that was sent.
LEMMA AnswersAreGood ==
  ASSUME Chain, Waiting, pc = "waiting"
  PROVE  /\ request.method \in {"state_getStorage", "state_getReadProof", "state_getKeys"} =>
              ~AsksForHash /\ GoodAnswer(Answer(request.method, request.params))
         /\ request.method \in {"chain_getBlockHash", "chain_getBlock", "chain_getHeader",
                                "chain_getFinalizedHead"} =>
              IF AsksForHash THEN HashAnswer(ChainAnswer(request.method, request.params[1]))
              ELSE GoodAnswer(ChainAnswer(request.method, request.params[1]))
         /\ request.method = "payment_queryFeeDetails" =>
              ~AsksForHash /\ \A t : GoodAnswer(t)
<1>1. PICK op : op = query.op /\ query \in Queries
  BY Zenon DEF Waiting
<1>2. CASE op \in StorageReads
  <2>1. PICK k : /\ k = QueryKey(query) /\ k.err = ""
                 /\ request = [method |-> "state_getStorage", params |-> <<k.val, query.at>>]
    BY <1>1, <1>2, Requests, Zenon
  <2>2. PICK params : params = <<k.val, query.at>> /\ request = [method |-> "state_getStorage", params |-> params]
    BY <2>1, Zenon
  <2>3. request.method = "state_getStorage" /\ request.params = params
    BY <2>2
  <2>4. PICK t : t = Answer("state_getStorage", params)
    OBVIOUS
  <2>5. UnambiguousRuntimes => EntryAnswer(t)
    <3>1. SUFFICES ASSUME UnambiguousRuntimes PROVE EntryAnswer(t)
      OBVIOUS
    <3>2. query.op \in StorageReads
      BY <1>1, <1>2
    <3>3. \A x : x = QueryKey(query) /\ x.err = "" =>
            EntryAnswer(Answer("state_getStorage", <<x.val, query.at>>))
      BY <1>1, <3>1, <3>2, EntryAnswers
    <3>4. QED
      BY <2>1, <2>2, <2>4, <3>3, Zenon
  <2>6. op # "block_by_num" /\ op # "map_keys"
    BY <1>2 DEF StorageReads
  <2>7. GoodAnswer(t)
    BY <1>1, <2>5, <2>6, Zenon DEF GoodAnswer
  <2>8. ~AsksForHash
    BY <2>3 DEF AsksForHash
  <2>9. QED
    BY <2>3, <2>4, <2>7, <2>8
<1>3. CASE op = "map_keys"
  <2>1. PICK k : /\ k = QueryKey(query) /\ k.err = ""
                 /\ request = [method |-> "state_getKeys", params |-> <<k.val, query.at>>]
    BY <1>1, <1>3, Requests, Zenon
  <2>2. PICK params : params = <<k.val, query.at>> /\ request = [method |-> "state_getKeys", params |-> params]
    BY <2>1, Zenon
  <2>3. request.method = "state_getKeys" /\ request.params = params
    BY <2>2
  <2>4. PICK t : t = Answer("state_getKeys", params)
    OBVIOUS
  <2>5. KeysAnswer(t)
    <3>1. query.op = "map_keys"
      BY <1>1, <1>3
    <3>2. \A x : x = QueryKey(query) /\ x.err = "" => KeysAnswer(Answer("state_getKeys", <<x.val, query.at>>))
      BY <3>1, KeysAnswers
    <3>3. QED
      BY <2>1, <2>2, <2>4, <3>2, Zenon
  <2>6. op # "block_by_num" /\ op \notin StorageReads
    BY <1>3 DEF StorageReads
  <2>7. GoodAnswer(t)
    BY <1>1, <2>5, <2>6, Zenon DEF GoodAnswer
  <2>8. ~AsksForHash
    BY <2>3 DEF AsksForHash
  <2>9. QED
    BY <2>3, <2>4, <2>7, <2>8
<1>4. CASE op = "block_by_num"
  <2>1. query.op = "block_by_num" /\ op # "map_keys" /\ op \notin StorageReads
    BY <1>1, <1>4 DEF StorageReads
  <2>2. CASE request = [method |-> "chain_getBlockHash", params |-> <<query.number>>]
    <3>1. request.method = "chain_getBlockHash" /\ request.params[1] = query.number
      BY <2>2
    <3>2. HashAnswer(ChainAnswer("chain_getBlockHash", query.number))
      BY <1>1, <2>1, HashAnswers
    <3>3. AsksForHash
      BY <3>1 DEF AsksForHash
    <3>4. QED
      BY <3>1, <3>2, <3>3
  <2>3. CASE \E h : /\ request = [method |-> "chain_getBlock", params |-> <<h>>]
                    /\ ~refused => HashAnswer(h)
    <3>1. PICK h : /\ request = [method |-> "chain_getBlock", params |-> <<h>>]
                   /\ ~refused => HashAnswer(h)
      BY <2>3
    <3>2. request.method = "chain_getBlock" /\ request.params[1] = h
      BY <3>1
    <3>3. PICK t : t = ChainAnswer("chain_getBlock", h)
      OBVIOUS
    <3>4. ~refused => BlockAnswer(t)
      BY <1>1, <2>1, <3>1, <3>3, BlockAnswers
    <3>5. GoodAnswer(t)
      BY <1>1, <2>1, <3>4, Zenon DEF GoodAnswer
    <3>6. ~AsksForHash
      BY <3>2 DEF AsksForHash
    <3>7. QED
      BY <3>2, <3>3, <3>5, <3>6
  <2>4. QED
    BY <2>1, <2>2, <2>3, Requests, Zenon
<1>5. CASE op \notin StorageReads /\ op # "map_keys" /\ op # "block_by_num"
  <2>1. \A t : GoodAnswer(t)
    BY <1>1, <1>5, Zenon DEF GoodAnswer
  <2>2. ~AsksForHash
    BY <1>1, <1>5, Requests, Zenon
  <2>3. QED
    BY <2>1, <2>2
<1>6. QED
  BY <1>2, <1>3, <1>4, <1>5

\* What an answer has to be does not change while the query is under way.
LEMMA AnswersStay ==
  ASSUME UNCHANGED <<query, request, known, settled>>, bests \subseteq bests', refused => refused', NEW t
  PROVE  /\ HashAnswer(t) => HashAnswer(t)'
         /\ GoodAnswer(t) => GoodAnswer(t)'
<1>1. HashAnswer(t) => HashAnswer(t)'
  BY DEF HashAnswer
<1>2. BlockAnswer(t) => BlockAnswer(t)'
  BY DEF BlockAnswer
<1>3. \A b : b \in AskedAt => b \in AskedAt'
  BY DEF AskedAt
<1>4. EntryAnswer(t) => EntryAnswer(t)'
  BY <1>3 DEF EntryAnswer, IsAsked, Layout
<1>5. KeysAnswer(t) => KeysAnswer(t)'
  BY <1>3 DEF KeysAnswer
<1>6. QED
  BY <1>1, <1>2, <1>4, <1>5 DEF GoodAnswer

LEMMA MessagesStay ==
  ASSUME UNCHANGED <<query, request, known, settled>>, bests \subseteq bests', refused => refused', NEW m, Message(m)
  PROVE  Message(m)'
<1>1. PICK t : t = m.text
  OBVIOUS
<1>2. /\ HashAnswer(t) => HashAnswer(t)'
      /\ GoodAnswer(t) => GoodAnswer(t)'
  BY AnswersStay
<1>3. AsksForHash' <=> AsksForHash
  BY DEF AsksForHash
<1>4. QED
  BY <1>1, <1>2, <1>3, Zenon DEF Message


LEMMA FirstRequestsStay ==
  ASSUME NEW q, query' = q, UNCHANGED known
  PROVE  FirstRequest(query)' = FirstRequest(q)
<1>1. QueryKey(query)' = QueryKey(q)
  <2>1. PICK M : M = metadata /\ M = metadata'
    BY DEF metadata
  <2>2. QED
    BY <2>1, Zenon DEF QueryKey
<1>2. PICK k : k = QueryKey(query)' /\ k = QueryKey(q)
  BY <1>1
<1>3. QED
  BY <1>2, Zenon DEF FirstRequest, AndThen

LEMMA WaitingStays ==
  ASSUME Waiting, UNCHANGED <<query, request, known, settled>>, blocks \subseteq blocks',
         bests \subseteq bests', refused => refused', pc' = "waiting" => pc = "waiting",
         IsASeq(line'), \A m \in Elements(line') : m \in Elements(line) \/ Message(m)'
  PROVE  Waiting'
<1>1. SUFFICES ASSUME pc' = "waiting" PROVE Waiting'
  BY DEF Waiting
<1>2. PICK q, f : q = query /\ f = FirstRequest(q)
  OBVIOUS
<1>3. FirstRequest(query)' = f
  BY <1>2, FirstRequestsStay
<1>4. /\ q \in Queries /\ q.op # "constant" /\ f.err = ""
      /\ q.op \in KeyQueries \cup {"block", "header"} => q.at = Nothing \/ At(q.at) \in blocks
      /\ \/ request = f.val
         \/ q.op = "block_by_num" /\ \E h : request = GetSignedBlock(h) /\ (~refused => HashAnswer(h))
      /\ \A m \in Elements(line) : Message(m)
  BY <1>1, <1>2, Zenon DEF Waiting, Request
<1>5. q.at = Nothing \/ At(q.at) \in blocks => q.at = Nothing \/ At(q.at)' \in blocks'
  BY DEF At
<1>6. \A m \in Elements(line') : Message(m)'
  <2>1. ASSUME NEW m, Message(m) PROVE Message(m)'
    BY <2>1, MessagesStay
  <2>2. QED
    BY <1>4, <2>1
<1>7. Request'
  <2>1. ASSUME NEW h, HashAnswer(h) PROVE HashAnswer(h)'
    BY <2>1, AnswersStay
  <2>2. (request = f.val)' <=> request = f.val
    BY <1>2
  <2>3. QED
    BY <1>2, <1>3, <1>4, <2>1, Zenon DEF Request, GetSignedBlock
<1>8. QED
  BY <1>1, <1>2, <1>3, <1>4, <1>5, <1>6, <1>7, Zenon DEF Waiting


\* Every message of the node, of whatever kind, is good.
LEMMA NewMessages ==
  ASSUME Chain, Waiting, NodeAnswers
  PROVE  \E m : line' = Append(line, m) /\ Message(m)'
<1>1. /\ pc = "waiting"
      /\ UNCHANGED <<blocks, best, finalized, known, query, request, pc, result, settled, bests>>
      /\ refused => refused'
  BY DEF NodeAnswers
<1>2. bests \subseteq bests'
  BY <1>1
<1>3. ASSUME NEW m, Message(m), line' = Append(line, m) PROVE \E n : line' = Append(line, n) /\ Message(n)'
  <2>1. Message(m)'
    BY <1>1, <1>2, <1>3, MessagesStay
  <2>2. QED
    BY <1>3, <2>1
<1>4. ASSUME NEW t, line' = Append(line, [text |-> t]), IF AsksForHash THEN HashAnswer(t) ELSE GoodAnswer(t)
      PROVE  \E m : line' = Append(line, m) /\ Message(m)'
  <2>1. PICK m : m = [text |-> t]
    OBVIOUS
  <2>2. m.text = t /\ "error" \notin DOMAIN m
    BY <2>1
  <2>3. Message(m)
    BY <1>4, <2>2, Zenon DEF Message
  <2>4. QED
    BY <1>3, <1>4, <2>1, <2>3, Zenon
<1>5. CASE /\ request.method \in {"state_getStorage", "state_getReadProof", "state_getKeys"}
           /\ line' = Append(line, [text |-> Answer(request.method, request.params)])
  <2>1. ~AsksForHash /\ GoodAnswer(Answer(request.method, request.params))
    BY <1>1, <1>5, AnswersAreGood
  <2>2. QED
    BY <1>4, <1>5, <2>1, Zenon
<1>6. CASE /\ request.method \in {"chain_getBlockHash", "chain_getBlock", "chain_getHeader",
                                  "chain_getFinalizedHead"}
           /\ line' = Append(line, [text |-> ChainAnswer(request.method, request.params[1])])
  <2>1. IF AsksForHash THEN HashAnswer(ChainAnswer(request.method, request.params[1]))
        ELSE GoodAnswer(ChainAnswer(request.method, request.params[1]))
    BY <1>1, <1>6, AnswersAreGood
  <2>2. QED
    BY <1>4, <1>6, <2>1, Zenon
<1>7. CASE /\ request.method = "payment_queryFeeDetails"
           /\ \E details \in FeeAnswers : line' = Append(line, [text |-> Some(details)])
  <2>1. ~AsksForHash /\ \A t : GoodAnswer(t)
    BY <1>1, <1>7, AnswersAreGood
  <2>2. QED
    BY <1>4, <1>7, <2>1, Zenon
<1>8. CASE line' = Append(line, [error |-> "refused"]) /\ refused' = TRUE
  <2>1. PICK m : m = [error |-> "refused"]
    OBVIOUS
  <2>2. "text" \notin DOMAIN m
    BY <2>1
  <2>3. Message(m)'
    BY <1>8, <2>2, Zenon DEF Message
  <2>4. QED
    BY <1>8, <2>1, <2>3, Zenon
<1>9. CASE line' = Append(line, [lost |-> TRUE])
  <2>1. PICK m : m = [lost |-> TRUE]
    OBVIOUS
  <2>2. "text" \notin DOMAIN m /\ "error" \notin DOMAIN m
    BY <2>1
  <2>3. Message(m)'
    BY <2>2, Zenon DEF Message
  <2>4. QED
    BY <1>9, <2>1, <2>3, Zenon
<1>10. QED
  BY <1>5, <1>6, <1>7, <1>8, <1>9, Zenon DEF NodeAnswers

\* A query that is asked, and the second request of one by number.
LEMMA WaitingAtAsk == Ask => Waiting'
<1>1. SUFFICES ASSUME Ask, pc' = "waiting" PROVE Waiting'
  BY DEF Waiting
<1>2. PICK q \in Queries :
        /\ q.op \in KeyQueries \cup {"block", "header"} => q.at = Nothing \/ At(q.at) \in blocks
        /\ query' = q
        /\ q.op # "constant" /\ FirstRequest(q).err = "" /\ Send(FirstRequest(q).val)
  <2>1. "done" # "waiting"
    OBVIOUS
  <2>2. QED
    BY <1>1, <2>1, Zenon DEF Ask, Return
<1>3. UNCHANGED <<blocks, best, known>>
  BY <1>1 DEF Ask
<1>4. PICK f : f = FirstRequest(q)
  OBVIOUS
<1>5. FirstRequest(query)' = f
  BY <1>2, <1>3, <1>4, FirstRequestsStay
<1>6. request' = f.val /\ line' = <<>> /\ f.err = ""
  BY <1>2, <1>4, Zenon DEF Send
<1>7. At(q.at)' = At(q.at)
  BY <1>3 DEF At
<1>8. IsASeq(line') /\ \A m \in Elements(line') : Message(m)'
  <2>1. IsASeq(line') /\ Elements(line') = {}
    BY <1>6, Rows, Zenon
  <2>2. QED
    BY <2>1
<1>9. Request'
  BY <1>5, <1>6, Zenon DEF Request
<1>10. q.op \in KeyQueries \cup {"block", "header"} => q.at = Nothing \/ At(q.at)' \in blocks'
  BY <1>2, <1>3, <1>7, Zenon
<1>11. QED
  BY <1>2, <1>5, <1>6, <1>8, <1>9, <1>10, Zenon DEF Waiting

LEMMA WaitingAtReadHash == Waiting /\ ReadHash => Waiting'
<1>1. SUFFICES ASSUME Waiting, ReadHash, pc' = "waiting" PROVE Waiting'
  BY DEF Waiting
<1>2. /\ pc = "waiting" /\ line # <<>> /\ DOMAIN Head(line) \in {{"text"}, {"error"}}
      /\ AsksForHash /\ Send(GetSignedBlock(ResultOf(Head(line))))
      /\ UNCHANGED <<blocks, best, finalized, known, query, settled, bests, refused>>
  BY <1>1 DEF ReadHash, AsksForHash, Return
<1>3. PICK q, f, a, h :
        q = query /\ f = FirstRequest(q) /\ a = Head(line) /\ h = ResultOf(a)
  OBVIOUS
<1>4. /\ q \in Queries /\ q.op # "constant" /\ f.err = ""
      /\ q.op \in KeyQueries \cup {"block", "header"} => q.at = Nothing \/ At(q.at) \in blocks
      /\ IsASeq(line) /\ \A m \in Elements(line) : Message(m)
  BY <1>1, <1>2, <1>3, Zenon DEF Waiting
<1>5. q.op = "block_by_num"
  BY <1>1, <1>2, <1>3, Requests, Zenon
<1>6. Message(a)
  BY <1>2, <1>3, <1>4, Rows, Zenon
<1>7. ~refused => HashAnswer(h)
  <2>1. "text" \in DOMAIN a \/ "error" \in DOMAIN a
    BY <1>2, <1>3
  <2>2. CASE "text" \in DOMAIN a
    BY <1>2, <1>3, <1>6, <2>2, Zenon DEF Message, ResultOf
  <2>3. CASE "error" \in DOMAIN a
    BY <1>6, <2>3, Zenon DEF Message
  <2>4. QED
    BY <2>1, <2>2, <2>3
<1>8. request' = GetSignedBlock(h) /\ line' = <<>>
  BY <1>2, <1>3, Zenon DEF Send
<1>9. /\ bests \subseteq bests'
      /\ (~refused => HashAnswer(h)) => (~refused' => HashAnswer(h)')
  BY <1>2 DEF HashAnswer
<1>10. FirstRequest(query)' = f
  BY <1>2, <1>3, FirstRequestsStay
<1>11. At(q.at)' = At(q.at)
  BY <1>2 DEF At
<1>12. IsASeq(line') /\ \A m \in Elements(line') : Message(m)'
  <2>1. IsASeq(line') /\ Elements(line') = {}
    BY <1>8, Rows, Zenon
  <2>2. QED
    BY <2>1
<1>13. query' = q
  BY <1>2, <1>3
<1>14. Request'
  BY <1>5, <1>7, <1>8, <1>9, <1>13, Zenon DEF Request, GetSignedBlock
<1>15. q.op \in KeyQueries \cup {"block", "header"} => q.at = Nothing \/ At(q.at)' \in blocks'
  BY <1>2, <1>4, <1>11
<1>16. QED
  BY <1>4, <1>10, <1>12, <1>13, <1>14, <1>15, Zenon DEF Waiting


LEMMA WaitingIsKept == Chain /\ Waiting /\ [Next]_vars => Waiting'
<1>1. SUFFICES ASSUME Chain, Waiting, [Next]_vars, pc' = "waiting" PROVE Waiting'
  BY DEF Waiting
<1>2. CASE Ask
  BY <1>2, WaitingAtAsk
<1>3. CASE ReadHash
  BY <1>1, <1>3, WaitingAtReadHash
<1>4. CASE ReadLoss \/ ReadAnswer \/ UpdateRuntime \/ TakeResult
  BY <1>1, <1>4 DEF ReadLoss, ReadAnswer, UpdateRuntime, TakeResult, Return
<1>5. ASSUME pc = "waiting" PROVE IsASeq(line) /\ \A m \in Elements(line) : Message(m)
  BY <1>1, <1>5, Zenon DEF Waiting
<1>6. CASE NodeAnswers
  <2>1. PICK m : line' = Append(line, m) /\ Message(m)'
    BY <1>1, <1>6, NewMessages
  <2>2. /\ pc = "waiting" /\ UNCHANGED <<query, request, known, settled, blocks, bests>>
        /\ refused => refused'
    BY <1>6 DEF NodeAnswers
  <2>3. IsASeq(line') /\ \A n \in Elements(line') : n \in Elements(line) \/ Message(n)'
    <3>1. IsASeq(line') /\ Elements(line') = Elements(line) \cup {m}
      BY <1>5, <2>1, <2>2, Rows, Zenon
    <3>2. QED
      BY <2>1, <3>1
  <2>4. QED
    BY <1>1, <2>2, <2>3, WaitingStays
<1>7. CASE NodeSendsFrame
  <2>1. PICK m : m = [frame |-> TRUE]
    OBVIOUS
  <2>2. /\ pc = "waiting" /\ line' = Append(line, m)
        /\ UNCHANGED <<query, request, known, settled, blocks, bests, refused>>
    BY <1>7, <2>1 DEF NodeSendsFrame
  <2>3. Message(m)'
    <3>1. "text" \notin DOMAIN m /\ "error" \notin DOMAIN m
      BY <2>1
    <3>2. QED
      BY <3>1, Zenon DEF Message
  <2>4. IsASeq(line') /\ \A n \in Elements(line') : n \in Elements(line) \/ Message(n)'
    <3>1. IsASeq(line') /\ Elements(line') = Elements(line) \cup {m}
      BY <1>5, <2>2, Rows, Zenon
    <3>2. QED
      BY <2>3, <3>1
  <2>5. QED
    BY <1>1, <2>2, <2>4, WaitingStays
<1>8. CASE SkipFrame
  <2>1. /\ pc = "waiting" /\ line # <<>> /\ line' = Tail(line)
        /\ UNCHANGED <<query, request, known, settled, blocks, bests, refused>>
    BY <1>8 DEF SkipFrame
  <2>2. IsASeq(line') /\ \A n \in Elements(line') : n \in Elements(line) \/ Message(n)'
    <3>1. IsASeq(line') /\ Elements(line') \subseteq Elements(line)
      BY <1>5, <2>1, Rows, Zenon
    <3>2. QED
      BY <3>1
  <2>3. QED
    BY <1>1, <2>1, <2>2, WaitingStays
<1>9. CASE NewBlock
  <2>1. /\ UNCHANGED <<query, request, known, settled, refused, line, pc>>
        /\ blocks \subseteq blocks'
    BY <1>9 DEF NewBlock
  <2>2. bests \subseteq bests'
    <3>1. pc # "idle"
      BY <1>1, <2>1
    <3>2. \E b : bests' = bests \cup {b}
      BY <1>9, <3>1 DEF NewBlock
    <3>3. QED
      BY <3>2
  <2>3. IsASeq(line') /\ \A n \in Elements(line') : n \in Elements(line) \/ Message(n)'
    BY <1>1, <1>5, <2>1
  <2>4. QED
    BY <1>1, <2>1, <2>2, <2>3, WaitingStays
<1>10. CASE Finalize \/ UNCHANGED vars
  <2>1. UNCHANGED <<query, request, known, settled, refused, line, pc, blocks, bests>>
    BY <1>10 DEF Finalize, vars
  <2>2. IsASeq(line') /\ \A n \in Elements(line') : n \in Elements(line) \/ Message(n)'
    BY <1>1, <1>5, <2>1
  <2>3. QED
    BY <1>1, <2>1, <2>2, WaitingStays
<1>11. QED
  BY <1>1, <1>2, <1>3, <1>4, <1>6, <1>7, <1>8, <1>9, <1>10 DEF Next, Receive

-----------------------------------------------------------------------------
(* What queries return.                                                    *)

\* The error of Err.
LEMMA ErrIs == \A e : Err(e).err = e
BY DEF Err

\* The first request of a query that cannot be asked is an error.
LEMMA DoneAtAsk == Ask => Done'
<1>1. SUFFICES ASSUME Ask, pc' = "done" PROVE Done'
  BY DEF Done
<1>2. PICK q \in Queries :
        /\ query' = q
        /\ \/ q.op = "constant" /\ Return(get_constant(q))
           \/ FirstRequest(q).err # "" /\ Return(FirstRequest(q))
           \/ Return(Err("ConnectionAttemptsExceeded"))
  <2>1. "done" # "waiting"
    OBVIOUS
  <2>2. QED
    BY <1>1, <2>1, Zenon DEF Ask, Send
<1>3. CASE q.op = "constant"
  <2>1. query'.op \in {"constant", "fee_details"} /\ query'.op # "fee_details"
    BY <1>2, <1>3
  <2>2. QED
    BY <2>1, Zenon DEF Done
<1>4. CASE FirstRequest(q).err # "" /\ Return(FirstRequest(q))
  <2>1. result'.err # ""
    BY <1>4, Zenon DEF Return
  <2>2. QED
    BY <2>1, Zenon DEF Done
<1>5. CASE Return(Err("ConnectionAttemptsExceeded"))
  <2>1. result'.err = "ConnectionAttemptsExceeded"
    BY <1>5, ErrIs, Zenon DEF Return
  <2>2. QED
    BY <2>1 DEF Done
<1>6. QED
  BY <1>2, <1>3, <1>4, <1>5

\* The answer to the last request becomes what the query returns.
LEMMA DoneAtReadAnswer == Waiting /\ ReadAnswer => Done'
<1>1. SUFFICES ASSUME Waiting, ReadAnswer, result'.err = "" PROVE Done'
  BY Zenon DEF Done
<1>2. /\ pc = "waiting" /\ line # <<>> /\ DOMAIN Head(line) \in {{"text"}, {"error"}}
      /\ ~AsksForHash /\ result' = Converted(ResultOf(Head(line)))
      /\ UNCHANGED <<blocks, best, finalized, known, query, settled, bests, refused, request, line>>
  BY <1>1 DEF ReadAnswer, AsksForHash, Return
<1>3. PICK q, a, r, x :
        q = query /\ a = Head(line) /\ r = ResultOf(a) /\ x = result' /\ x = Converted(r)
  BY <1>2
<1>4. Message(a)
  <2>1. IsASeq(line) /\ \A m \in Elements(line) : Message(m)
    BY <1>1, <1>2, Zenon DEF Waiting
  <2>2. QED
    BY <1>2, <1>3, <2>1, Rows, Zenon
<1>5. "text" \in DOMAIN a \/ ("text" \notin DOMAIN a /\ "error" \in DOMAIN a)
  <2>1. DOMAIN a \in {{"text"}, {"error"}}
    BY <1>2, <1>3, Zenon
  <2>2. QED
    BY <2>1
<1>6. GoodAnswer(r)
  <2>1. CASE "text" \in DOMAIN a
    BY <1>2, <1>3, <1>4, <2>1, Zenon DEF Message, ResultOf
  <2>2. CASE "text" \notin DOMAIN a /\ "error" \in DOMAIN a
    <3>1. refused /\ r = Nothing
      BY <1>3, <1>4, <2>2, Zenon DEF Message, ResultOf
    <3>2. QED
      BY <3>1, Zenon DEF GoodAnswer, EntryAnswer, KeysAnswer
  <2>3. QED
    BY <1>5, <2>1, <2>2
<1>7. x.err = "" /\ query' = q /\ line' = line
  BY <1>1, <1>2, <1>3
<1>8. CASE q.op # "fee_details"
  <2>1. x = Ok(r)
    BY <1>3, <1>8, Zenon DEF Converted
  <2>2. x.val = r
    BY <2>1, OkIs, Zenon
  <2>3. GoodAnswer(r)'
    <3>1. UNCHANGED <<query, request, known, settled>> /\ bests \subseteq bests' /\ (refused => refused')
      BY <1>2
    <3>2. QED
      BY <1>6, <3>1, AnswersStay
  <2>4. PICK y : y = x.val
    OBVIOUS
  <2>5. GoodAnswer(result.val)'
    BY <1>3, <2>2, <2>3, Zenon DEF GoodAnswer, BlockAnswer, EntryAnswer, KeysAnswer
  <2>6. QED
    BY <1>7, <1>8, <2>5, Zenon DEF Done
<1>9. CASE q.op = "fee_details"
  BY <1>1, <1>3, <1>7, <1>9, Zenon DEF Done
<1>10. QED
  BY <1>8, <1>9


LEMMA DoneIsKept == Waiting /\ Done /\ [Next]_vars => Done'
<1>1. SUFFICES ASSUME Waiting, Done, [Next]_vars PROVE Done'
  OBVIOUS
<1>2. CASE Ask
  BY <1>2, DoneAtAsk
<1>3. CASE ReadAnswer
  BY <1>1, <1>3, DoneAtReadAnswer
<1>4. CASE ReadLoss
  <2>1. result'.err = "ConnectionClosed"
    BY <1>4, ErrIs, Zenon DEF ReadLoss, Return
  <2>2. QED
    BY <2>1 DEF Done
<1>5. CASE ReadHash
  <2>1. CASE Send(GetSignedBlock(ResultOf(Head(line))))
    <3>1. pc' = "waiting"
      BY <2>1 DEF Send
    <3>2. QED
      BY <3>1 DEF Done
  <2>2. CASE Return(Err("ConnectionAttemptsExceeded"))
    <3>1. result'.err = "ConnectionAttemptsExceeded"
      BY <2>2, ErrIs, Zenon DEF Return
    <3>2. QED
      BY <3>1 DEF Done
  <2>3. QED
    BY <1>5, <2>1, <2>2 DEF ReadHash
<1>6. CASE NodeAnswers \/ NodeSendsFrame \/ SkipFrame \/ NewBlock \/ Finalize \/ UpdateRuntime \/ TakeResult
  <2>1. pc' # "done"
    BY <1>6 DEF NodeAnswers, NodeSendsFrame, SkipFrame, NewBlock, Finalize, UpdateRuntime, TakeResult
  <2>2. QED
    BY <2>1 DEF Done
<1>7. CASE UNCHANGED vars
  <2>1. /\ UNCHANGED <<query, request, known, settled, bests, refused, result, line, pc>>
        /\ bests \subseteq bests'
    BY <1>7 DEF vars
  <2>2. PICK t : t = result.val
    OBVIOUS
  <2>3. GoodAnswer(t) => GoodAnswer(t)'
    BY <2>1, AnswersStay
  <2>4. GoodAnswer(result.val) => GoodAnswer(result.val)'
    BY <2>1, <2>2, <2>3, Zenon DEF GoodAnswer, BlockAnswer, EntryAnswer, KeysAnswer
  <2>5. QED
    BY <1>1, <2>1, <2>4, Zenon DEF Done
<1>8. QED
  BY <1>1, <1>2, <1>3, <1>4, <1>5, <1>6, <1>7 DEF Next, Receive

\* A fee query asks for no hash.
LEMMA FeesAskForNoHash ==
  ASSUME Waiting, pc = "waiting", query.op = "fee_details" PROVE ~AsksForHash
<1>1. CASE request = FirstRequest(query).val
  <2>1. PICK q : q = query /\ q.op = "fee_details"
    OBVIOUS
  <2>2. FirstRequest(q) = Ok([method |-> "payment_queryFeeDetails", params |-> <<Nothing>>])
    BY <2>1 DEF FirstRequest, StorageReads, StorageProofs
  <2> DEFINE r == [method |-> "payment_queryFeeDetails", params |-> <<Nothing>>]
  <2>3. r.method = "payment_queryFeeDetails" /\ Ok(r).val = r
    BY OkIs
  <2>4. FirstRequest(q) = Ok(r)
    BY <2>2
  <2> HIDE DEF r
  <2>5. request = r
    BY <1>1, <2>1, <2>3, <2>4, Zenon
  <2>6. request.method # "chain_getBlockHash"
    BY <2>3, <2>5
  <2>7. QED
    BY <2>6, Zenon DEF AsksForHash
<1>2. CASE query.op = "block_by_num"
  BY <1>2
<1>3. QED
  BY <1>1, <1>2 DEF Waiting, Request

LEMMA FeesDoneIsKept == Waiting /\ FeesDone /\ [Next]_vars => FeesDone'
<1>1. SUFFICES ASSUME Waiting, FeesDone, [Next]_vars PROVE FeesDone'
  OBVIOUS
<1>2. CASE Ask
  <2>1. line' = <<>> /\ pc' # "idle"
    BY <1>1, <1>2 DEF Ask, Send, Return, FeesDone
  <2>2. QED
    BY <2>1, Zenon DEF FeesDone
<1>3. CASE ReadAnswer
  <2>1. PICK q, a : q = query /\ a = Head(line) /\ result' = Converted(ResultOf(a))
    BY <1>3 DEF ReadAnswer, Return
  <2>2. query' = q /\ Head(line') = a /\ pc' # "idle"
    BY <1>3, <2>1 DEF ReadAnswer, Return
  <2>3. DOMAIN a = {"text"} => ResultOf(a) = a.text
    BY DEF ResultOf
  <2>4. PICK x : x = result' /\ x = Converted(ResultOf(a))
    BY <2>1
  <2>5. DOMAIN a = {"text"} => x = Converted(a.text)'
    BY <2>1, <2>2, <2>3, <2>4, Zenon DEF Converted
  <2>6. QED
    BY <2>2, <2>4, <2>5, Zenon DEF FeesDone
<1>4. CASE ReadLoss
  <2>1. "lost" \in DOMAIN Head(line) /\ line' = line /\ pc' # "idle"
    BY <1>4 DEF ReadLoss, Return
  <2>2. DOMAIN Head(line') # {"text"}
    BY <2>1
  <2>3. QED
    BY <2>1, <2>2, Zenon DEF FeesDone
<1>5. CASE ReadHash
  <2>1. CASE Send(GetSignedBlock(ResultOf(Head(line))))
    <3>1. pc' = "waiting"
      BY <2>1 DEF Send
    <3>2. QED
      BY <3>1 DEF FeesDone
  <2>2. CASE Return(Err("ConnectionAttemptsExceeded"))
    <3>1. pc = "waiting" /\ AsksForHash /\ query' = query /\ pc' # "idle"
      BY <1>5, <2>2 DEF ReadHash, Return, AsksForHash
    <3>2. query'.op # "fee_details"
      BY <1>1, <3>1, FeesAskForNoHash
    <3>3. QED
      BY <3>1, <3>2, Zenon DEF FeesDone
  <2>3. QED
    BY <1>5, <2>1, <2>2 DEF ReadHash
<1>6. CASE NodeAnswers \/ NodeSendsFrame \/ SkipFrame
  <2>1. pc' = "waiting"
    BY <1>6 DEF NodeAnswers, NodeSendsFrame, SkipFrame
  <2>2. QED
    BY <2>1 DEF FeesDone
<1>7. CASE NewBlock \/ Finalize \/ UpdateRuntime
  <2>1. pc' # "done" /\ pc' = pc /\ line' = line
    BY <1>7 DEF NewBlock, Finalize, UpdateRuntime
  <2>2. QED
    BY <1>1, <2>1 DEF FeesDone
<1>8. CASE TakeResult
  <2>1. pc' # "done" /\ line' = <<>>
    BY <1>8 DEF TakeResult
  <2>2. QED
    BY <2>1 DEF FeesDone
<1>9. CASE UNCHANGED vars
  <2>1. UNCHANGED <<pc, query, line, result>>
    BY <1>9 DEF vars
  <2>2. QED
    BY <1>1, <2>1, Zenon DEF FeesDone, Converted
<1>10. QED
  BY <1>1, <1>2, <1>3, <1>4, <1>5, <1>6, <1>7, <1>8, <1>9 DEF Next, Receive

-----------------------------------------------------------------------------
(* The theorems.                                                           *)

LEMMA InvariantAtFirst == Init => IInv
<1>1. SUFFICES ASSUME Init PROVE IInv
  OBVIOUS
<1>2. Chain
  <2>1. <<>> \in Blocks /\ Len(<<>>) = 0
    BY DEF Blocks
  <2>2. PICK g \in Blocks : g = <<>> /\ Len(g) = 0
    BY <2>1
  <2>3. SubSeq(g, 1, 0) = g
    BY <2>2 DEF Blocks
  <2>4. IsPrefix(g, g)
    BY DEF IsPrefix, Blocks
  <2>5. 1 \in DOMAIN Runtimes
    BY RuntimesAssumption DEF IsASeq
  <2>6. \A n \in 0..Len(g) : SubSeq(g, 1, n) = g
    BY <2>2, <2>3
  <2>7. QED
    BY <1>1, <2>2, <2>4, <2>5, <2>6 DEF Init, Chain, Genesis
<1>3. pc = "idle"
  BY <1>1 DEF Init
<1>4. QED
  BY <1>1, <1>2, <1>3 DEF IInv, Waiting, Done, FeesDone, Init

\* The chain, the messages under way on a connection of direct_rpc_request, and the
\* results of all queries.
THEOREM QueriesAreAnswered == Spec => []IInv
<1>1. IInv /\ [Next]_vars => IInv'
  BY ChainIsKept, WaitingIsKept, DoneIsKept, FeesDoneIsKept DEF IInv
<1>2. QED
  BY <1>1, InvariantAtFirst, PTL DEF Spec

(***************************************************************************)
(* get_storage_value, get_storage_map, get_storage_double_map and          *)
(* get_account_info give the value of the very entry that was asked for,   *)
(* at the block that was asked for, and get_keys gives the keys of that    *)
(* map, however old the metadata is.  The hypothesis is needed: a client   *)
(* that believes an entry is hashed by Blake2_128 and then Identity makes, *)
(* for the keys a and a, the key of a in a map with Blake2_128Concat.      *)
(***************************************************************************)
THEOREM ReadsGiveTheEntry == ASSUME UnambiguousRuntimes PROVE Spec => []ReadIsTheEntry
<1>1. IInv => ReadIsTheEntry
  <2>1. SUFFICES ASSUME IInv PROVE ReadIsTheEntry
    OBVIOUS
  <2>2. ASSUME pc = "done", result.err = "", query.op \in StorageReads \cup {"map_keys"}
        PROVE  GoodAnswer(result.val)
    <3>1. query.op \notin {"constant", "fee_details"}
      BY <2>2 DEF StorageReads
    <3>2. QED
      BY <2>1, <2>2, <3>1, Zenon DEF IInv, Done
  <2>3. Returned(StorageReads) => EntryAnswer(result.val)
    BY <2>2, Zenon DEF Returned, GoodAnswer
  <2>4. Returned({"map_keys"}) => KeysAnswer(result.val)
    <3>1. SUFFICES ASSUME Returned({"map_keys"}) PROVE KeysAnswer(result.val)
      OBVIOUS
    <3>2. query.op = "map_keys" /\ pc = "done" /\ result.err = ""
      BY <3>1, Zenon DEF Returned
    <3>3. QED
      BY <2>2, <3>2, Zenon DEF GoodAnswer
  <2>5. QED
    BY <2>3, <2>4, Zenon DEF ReadIsTheEntry, EntryAnswer, KeysAnswer
<1>2. QED
  BY <1>1, QueriesAreAnswered, PTL

(***************************************************************************)
(* get_signed_block_by_num gives the block of that number although the     *)
(* chain moves between its two requests; only a number that no block had   *)
(* yet gives another one.                                                  *)
(***************************************************************************)
THEOREM BlocksHaveTheirNumbers == Spec => []BlockHasItsNumber
<1>1. IInv => BlockHasItsNumber
  <2>1. SUFFICES ASSUME IInv, Returned({"block_by_num"}), ~refused PROVE BlockAnswer(result.val)
    BY Zenon DEF BlockHasItsNumber, BlockAnswer
  <2>2. query.op = "block_by_num" /\ pc = "done" /\ result.err = ""
    BY <2>1, Zenon DEF Returned
  <2>3. query.op \notin {"constant", "fee_details"}
    BY <2>2
  <2>4. GoodAnswer(result.val)
    BY <2>1, <2>2, <2>3, Zenon DEF IInv, Done
  <2>5. QED
    BY <2>1, <2>2, <2>4, Zenon DEF GoodAnswer
<1>2. QED
  BY <1>1, QueriesAreAnswered, PTL


\* The sum that final_fee makes of numbers of the balance type is exact up to the
\* largest balance, however the additions saturate on the way.
LEMMA FinalFee ==
  ASSUME NEW fee, fee # <<>> => fee[1] \in InclusionFee(Balance), NEW tip \in Balance
  PROVE  final_fee([inclusion_fee |-> fee, tip |-> tip]) = Capped(InclusionTotal(fee) + tip)
<1>1. final_fee([inclusion_fee |-> fee, tip |-> tip]) =
        saturating_add(IF fee = <<>> THEN 0 ELSE inclusion_fee(fee[1]), tip)
  BY DEF final_fee
<1>2. CASE fee = <<>>
  <2>1. /\ final_fee([inclusion_fee |-> fee, tip |-> tip]) = saturating_add(0, tip)
        /\ InclusionTotal(fee) = 0
    BY <1>1, <1>2, Zenon DEF InclusionTotal
  <2>2. QED
    BY <2>1, MaxBalanceAssumption DEF saturating_add, Balance, Capped
<1>3. CASE fee # <<>>
  <2>1. PICK f \in InclusionFee(Balance) : f = fee[1]
    BY <1>3, Zenon
  <2>2. PICK a, b, c : a = f.base_fee /\ b = f.len_fee /\ c = f.adjusted_weight_fee
    OBVIOUS
  <2>3. a \in Balance /\ b \in Balance /\ c \in Balance
    BY <2>1, <2>2 DEF InclusionFee
  <2>4. final_fee([inclusion_fee |-> fee, tip |-> tip]) =
          saturating_add(saturating_add(saturating_add(a, b), c), tip)
    BY <1>1, <1>3, <2>1, <2>2, Zenon DEF inclusion_fee
  <2>5. InclusionTotal(fee) = a + b + c
    BY <1>3, <2>1, <2>2, Zenon DEF InclusionTotal
  <2>6. QED
    BY <2>3, <2>4, <2>5, MaxBalanceAssumption DEF saturating_add, Balance, Capped
<1>4. QED
  BY <1>2, <1>3

(***************************************************************************)
(* get_fee_details reports the inclusion fee of the node's answer, capped  *)
(* at the largest balance, or an error if a part is wider than a balance,  *)
(* and only then.  There is no tip in it: the answer has none.             *)
(***************************************************************************)
THEOREM FeesAreTheInclusionFees == Spec => []FeeIsTheInclusionFee
<1>1. IInv => FeeIsTheInclusionFee
  <2>1. SUFFICES ASSUME IInv, pc = "done", query.op = "fee_details", line # <<>>,
                        DOMAIN Head(line) = {"text"}, Head(line).text # Nothing,
                        NEW fee, fee = Head(line).text[1].inclusion_fee
                 PROVE  IF fee # <<>> /\ fee[1] \notin InclusionFee(Balance) THEN result.err # ""
                        ELSE result.err = "" /\ final_fee(result.val[1]) = Capped(InclusionTotal(fee))
    BY Zenon DEF FeeIsTheInclusionFee
  <2> DEFINE details == [inclusion_fee |-> fee, tip |-> 0]
  <2>2. FromJson(Head(line).text[1]) = details
    BY <2>1, Zenon DEF FromJson
  <2>3. result = Converted(Head(line).text)
    BY <2>1, Zenon DEF IInv, FeesDone
  <2>4. details.inclusion_fee = fee /\ details.tip = 0
    OBVIOUS
  <2>5. final_fee(details) = final_fee([inclusion_fee |-> fee, tip |-> 0])
    OBVIOUS
  <2> HIDE DEF details
  <2>6. result = IF Converts(details) THEN Ok(Some(details)) ELSE Err("TryFromIntError")
    BY <2>1, <2>2, <2>3, Zenon DEF Converted
  <2>7. 0 \in Balance
    BY MaxBalanceAssumption DEF Balance
  <2>8. CASE fee # <<>> /\ fee[1] \notin InclusionFee(Balance)
    <3>1. ~Converts(details)
      BY <2>4, <2>8, Zenon DEF Converts
    <3>2. result = Err("TryFromIntError")
      BY <2>6, <3>1, Zenon
    <3>3. result.err = "TryFromIntError"
      BY <3>2, ErrIs, Zenon
    <3>4. QED
      BY <2>8, <3>3
  <2>9. CASE ~(fee # <<>> /\ fee[1] \notin InclusionFee(Balance))
    <3>1. Converts(details)
      BY <2>4, <2>7, <2>9, Zenon DEF Converts
    <3>2. result = Ok(Some(details))
      BY <2>6, <3>1, Zenon
    <3>3. result.err = "" /\ result.val = Some(details)
      BY <3>2, OkIs, Zenon
    <3>4. result.val[1] = details
      BY <3>3, SomeIs, Zenon
    <3>5. final_fee(details) = Capped(InclusionTotal(fee) + 0)
      <4>1. fee # <<>> => fee[1] \in InclusionFee(Balance)
        BY <2>9, Zenon
      <4>2. final_fee([inclusion_fee |-> fee, tip |-> 0]) = Capped(InclusionTotal(fee) + 0)
        BY <2>7, <4>1, FinalFee, Zenon
      <4>3. QED
        BY <2>5, <4>2, Zenon
    <3>6. InclusionTotal(fee) + 0 = InclusionTotal(fee)
      <4>1. CASE fee = <<>>
        <5>1. InclusionTotal(fee) = 0
          BY <4>1, Zenon DEF InclusionTotal
        <5>2. QED
          BY <5>1
      <4>2. CASE fee # <<>>
        <5>1. PICK f \in InclusionFee(Balance) : f = fee[1]
          BY <2>9, <4>2, Zenon
        <5>2. f.base_fee \in Balance /\ f.len_fee \in Balance /\ f.adjusted_weight_fee \in Balance
          BY DEF InclusionFee
        <5>3. InclusionTotal(fee) = f.base_fee + f.len_fee + f.adjusted_weight_fee
          BY <4>2, <5>1, Zenon DEF InclusionTotal
        <5>4. QED
          BY <5>2, <5>3, MaxBalanceAssumption DEF Balance
      <4>3. QED
        BY <4>1, <4>2
    <3>7. QED
      BY <2>9, <3>3, <3>4, <3>5, <3>6, Zenon
  <2>10. QED
    BY <2>8, <2>9
<1>2. QED
  BY <1>1, QueriesAreAnswered, PTL

-----------------------------------------------------------------------------
(* EventReading: numbers as bytes.                                         *)

\* Both parts of two sequences one after the other.
LEMMA Slices ==
  ASSUME NEW T, NEW a \in Seq(T), NEW t \in Seq(T)
  PROVE  /\ a \o t \in Seq(T) /\ Len(a \o t) = Len(a) + Len(t)
         /\ SubSeq(a \o t, 1, Len(a)) = a
         /\ SubSeq(a \o t, Len(a) + 1, Len(a \o t)) = t
<1> DEFINE s == a \o t
<1>1. /\ s \in Seq(T) /\ Len(s) = Len(a) + Len(t) /\ Len(a) \in Nat /\ Len(t) \in Nat
      /\ \A i \in 1..Len(a) : s[i] = a[i]
      /\ \A i \in 1..Len(t) : s[Len(a) + i] = t[i]
  BY Concatenated
<1> HIDE DEF s
<1>2. SubSeq(s, 1, Len(a)) = a
  <2>1. PICK u \in Seq(T) : /\ u = SubSeq(s, 1, Len(a)) /\ Len(u) = Len(a)
                            /\ \A i \in 1..Len(a) : u[i] = s[i]
    BY <1>1
  <2>2. u = a
    <3>1. Len(u) = Len(a) /\ \A i \in 1..Len(u) : u[i] = a[i]
      BY <1>1, <2>1, Zenon
    <3>2. QED
      BY <3>1, SameElements
  <2>3. QED
    BY <2>1, <2>2
<1>3. SubSeq(s, Len(a) + 1, Len(s)) = t
  <2>1. PICK u \in Seq(T) : /\ u = SubSeq(s, Len(a) + 1, Len(s)) /\ Len(u) = Len(t)
                            /\ \A i \in 1..Len(t) : u[i] = s[Len(a) + i]
    BY <1>1
  <2>2. u = t
    <3>1. Len(u) = Len(t) /\ \A i \in 1..Len(u) : u[i] = t[i]
      BY <1>1, <2>1, Zenon
    <3>2. QED
      BY <3>1, SameElements
  <2>3. QED
    BY <2>1, <2>2
<1>4. QED
  BY <1>1, <1>2, <1>3 DEF s

\* What a successful read says.
LEMMA ReadIs == \A v, rest : Read(v, rest).err = "" /\ Read(v, rest).val = v /\ Read(v, rest).rest = rest
BY DEF Read

\* Taking as many bytes as the first sequence has gives it, and leaves the second.
LEMMA TakesTheFirst ==
  ASSUME NEW T, NEW a \in Seq(T), NEW t \in Seq(T)
  PROVE  Take(a \o t, Len(a)) = Read(a, t)
<1> DEFINE s == a \o t
<1>1. /\ s \in Seq(T) /\ Len(s) = Len(a) + Len(t)
      /\ SubSeq(s, 1, Len(a)) = a /\ SubSeq(s, Len(a) + 1, Len(s)) = t
  BY Slices
<1>2. Len(a) \in Nat /\ Len(t) \in Nat
  BY SequenceFacts
<1> HIDE DEF s
<1>3. ~(Len(s) < Len(a))
  BY <1>1, <1>2
<1>4. Take(s, Len(a)) = Read(a, t)
  BY <1>1, <1>3, Zenon DEF Take
<1>5. QED
  BY <1>4 DEF s


\* g[k] is what is left of n above its low k bytes.
HighBytes(n, w, g) ==
  g = [i \in 1..w |-> IF i = 1 THEN n ELSE g[i - 1] \div 256]

\* As LittleEndian defines it.
LEMMA LittleEndianDef ==
  ASSUME NEW n, NEW w, \E g : HighBytes(n, w, g)
  PROVE  \E g : HighBytes(n, w, g) /\ LittleEndian(n, w) = [i \in 1..w |-> g[i] % 256]
<1> DEFINE G == CHOOSE g : HighBytes(n, w, g)
<1>1. HighBytes(n, w, G)
  OBVIOUS
<1>2. LittleEndian(n, w) = [i \in 1..w |-> G[i] % 256]
  BY DEF LittleEndian, HighBytes
<1>3. QED
  BY <1>1, <1>2

\* The low four bytes of a number, and what they make.
B0(n) == n % 256
B1(n) == (n \div 256) % 256
B2(n) == ((n \div 256) \div 256) % 256
B3(n) == (((n \div 256) \div 256) \div 256) % 256
Three(n) == B0(n) + 256 * (B1(n) + 256 * B2(n))
Four(n) == B0(n) + 256 * (B1(n) + 256 * (B2(n) + 256 * B3(n)))

\* What LittleEndian writes, byte by byte.
LEMMA LowBytes ==
  ASSUME NEW n \in Int, NEW w \in 1..4
  PROVE  /\ LittleEndian(n, w) \in Seq(Byte) /\ Len(LittleEndian(n, w)) = w
         /\ LittleEndian(n, w)[1] = B0(n)
         /\ w >= 2 => LittleEndian(n, w)[2] = B1(n)
         /\ w >= 3 => LittleEndian(n, w)[3] = B2(n)
         /\ w >= 4 => LittleEndian(n, w)[4] = B3(n)
<1> DEFINE h == [i \in 1..w |-> IF i = 1 THEN n ELSE IF i = 2 THEN n \div 256
                                ELSE IF i = 3 THEN (n \div 256) \div 256
                                ELSE ((n \div 256) \div 256) \div 256]
<1>1. h = [i \in 1..w |-> IF i = 1 THEN n ELSE h[i - 1] \div 256]
  <2>1. \A i \in 1..w : h[i] = IF i = 1 THEN n ELSE h[i - 1] \div 256
    OBVIOUS
  <2>2. QED
    BY <2>1
<1> HIDE DEF h
<1>10. HighBytes(n, w, h)
  BY <1>1, Zenon DEF HighBytes
<1>2. PICK g : HighBytes(n, w, g) /\ LittleEndian(n, w) = [i \in 1..w |-> g[i] % 256]
  <2>1. \E g : HighBytes(n, w, g)
    BY <1>10, Zenon
  <2>2. QED
    BY <2>1, LittleEndianDef
<1>3. \A i \in 1..w : g[i] = IF i = 1 THEN n ELSE g[i - 1] \div 256
  BY <1>2 DEF HighBytes
<1>4. /\ g[1] = n
      /\ w >= 2 => g[2] = n \div 256
      /\ w >= 3 => g[3] = (n \div 256) \div 256
      /\ w >= 4 => g[4] = ((n \div 256) \div 256) \div 256
  BY <1>3
<1>5. \A i \in 1..w : g[i] \in Int
  <2>1. \A i \in 1..w : i \in {1, 2, 3, 4}
    OBVIOUS
  <2>2. QED
    BY <1>4, <2>1
<1>6. \A i \in 1..w : g[i] % 256 \in Byte
  BY <1>5 DEF Byte
<1>7. LittleEndian(n, w) \in Seq(Byte) /\ Len(LittleEndian(n, w)) = w
      /\ \A i \in 1..w : LittleEndian(n, w)[i] = g[i] % 256
  BY <1>2, <1>6
<1>8. QED
  BY <1>4, <1>7 DEF B0, B1, B2, B3

\* g[i] is the number the bytes from i on are.
Sums(bs, g) ==
  g = [i \in 1..(Len(bs) + 1) |-> IF i > Len(bs) THEN 0 ELSE bs[i] + 256 * g[i + 1]]

\* As FromLittleEndian defines it.
LEMMA FromLittleEndianDef ==
  ASSUME NEW bs, \E g : Sums(bs, g)
  PROVE  \E g : Sums(bs, g) /\ FromLittleEndian(bs, FALSE) = g[1]
<1> DEFINE G == CHOOSE g : Sums(bs, g)
<1>1. Sums(bs, G)
  OBVIOUS
<1>2. FromLittleEndian(bs, FALSE) = G[1]
  BY DEF FromLittleEndian, Sums
<1>3. QED
  BY <1>1, <1>2

\* v is the number the bytes bs are, the lowest first.
IsSumOf(bs, v) ==
  /\ Len(bs) = 0 => v = 0
  /\ Len(bs) = 1 => v = bs[1]
  /\ Len(bs) = 2 => v = bs[1] + 256 * bs[2]
  /\ Len(bs) = 3 => v = bs[1] + 256 * (bs[2] + 256 * bs[3])
  /\ Len(bs) = 4 => v = bs[1] + 256 * (bs[2] + 256 * (bs[3] + 256 * bs[4]))

\* What FromLittleEndian reads, of at most four bytes.
LEMMA SumOfBytes ==
  ASSUME NEW bs \in Seq(Byte), Len(bs) <= 4
  PROVE  IsSumOf(bs, FromLittleEndian(bs, FALSE))
<1> DEFINE L == Len(bs)
           b(i) == IF i > L THEN 0 ELSE bs[i]
           b4 == b(4)
           b3 == IF L < 3 THEN 0 ELSE bs[3] + 256 * b4
           b2 == IF L < 2 THEN 0 ELSE bs[2] + 256 * b3
           b1 == IF L < 1 THEN 0 ELSE bs[1] + 256 * b2
           h == [i \in 1..(L + 1) |-> IF i = 1 THEN b1 ELSE IF i = 2 THEN b2
                                      ELSE IF i = 3 THEN b3 ELSE IF i = 4 THEN b4 ELSE 0]
<1>1. L \in {0, 1, 2, 3, 4} /\ \A i \in 1..L : bs[i] \in Int
  <2>1. Len(bs) \in Nat /\ \A i \in 1..Len(bs) : bs[i] \in Int
    <3>1. \A x \in Byte : x \in Int
      BY DEF Byte
    <3>2. QED
      BY <3>1, SequenceFacts
  <2>2. \A n \in Nat : n <= 4 => n \in {0, 1, 2, 3, 4}
    OBVIOUS
  <2>5. Len(bs) \in {0, 1, 2, 3, 4}
    BY <2>1, <2>2
  <2>3. QED
    BY <2>1, <2>5
<1>2. Sums(bs, h)
  <2>1. \A i \in 1..(L + 1) : i \in {1, 2, 3, 4, 5}
    BY <1>1
  <2> HIDE DEF L
  <2>2. b4 \in Int /\ (4 > L => b4 = 0) /\ (~(4 > L) => b4 = bs[4] + 256 * 0)
    BY <1>1
  <2> HIDE DEF b4
  <2>3. \A i \in 1..(L + 1) : h[i] = IF i > L THEN 0 ELSE bs[i] + 256 * h[i + 1]
    <3> SUFFICES ASSUME NEW i \in 1..(L + 1)
                 PROVE  h[i] = IF i > L THEN 0 ELSE bs[i] + 256 * h[i + 1]
      OBVIOUS
    <3>1. CASE i > L
      BY <1>1, <2>1, <2>2, <3>1
    <3>2. CASE ~(i > L)
      <4>1. i + 1 \in 1..(L + 1)
        BY <1>1, <3>2
      <4>2. h[i + 1] = IF i = 1 THEN b2 ELSE IF i = 2 THEN b3 ELSE IF i = 3 THEN b4 ELSE 0
        BY <2>1, <4>1, <3>2, <1>1
      <4>3. i # 5 /\ h[i] = IF i = 1 THEN b1 ELSE IF i = 2 THEN b2 ELSE IF i = 3 THEN b3 ELSE b4
        BY <1>1, <2>1, <3>2
      <4> HIDE DEF h
      <4>4. CASE i = 4
        BY <1>1, <2>2, <3>2, <4>2, <4>3, <4>4
      <4>5. CASE i = 3
        BY <1>1, <2>2, <3>2, <4>2, <4>3, <4>5
      <4>6. CASE i = 2
        BY <1>1, <2>2, <3>2, <4>2, <4>3, <4>6
      <4>7. CASE i = 1
        BY <1>1, <2>2, <3>2, <4>2, <4>3, <4>7
      <4>8. QED
        BY <2>1, <4>3, <4>4, <4>5, <4>6, <4>7
    <3>3. QED
      BY <3>1, <3>2
  <2>4. h = [i \in 1..(L + 1) |-> IF i > L THEN 0 ELSE bs[i] + 256 * h[i + 1]]
    BY <2>3
  <2> HIDE DEF h
  <2>5. QED
    BY <2>4, Zenon DEF Sums, L
<1> HIDE DEF h
<1>3. PICK g : Sums(bs, g) /\ FromLittleEndian(bs, FALSE) = g[1]
  BY <1>2, FromLittleEndianDef, Zenon
<1>4. g = [i \in 1..(L + 1) |-> IF i > L THEN 0 ELSE bs[i] + 256 * g[i + 1]]
  BY <1>3, Zenon DEF Sums
<1> HIDE DEF L, b4, b3, b2, b1
<1>5. \A i \in 1..(L + 1) : g[i] = IF i > L THEN 0 ELSE bs[i] + 256 * g[i + 1]
  BY <1>4
<1>6. /\ L = 0 => g[1] = 0
      /\ L >= 1 => g[1] = bs[1] + 256 * g[2]
      /\ L >= 2 => g[2] = bs[2] + 256 * g[3]
      /\ L >= 3 => g[3] = bs[3] + 256 * g[4]
      /\ L >= 4 => g[4] = bs[4] + 256 * g[5]
      /\ g[L + 1] = 0
  BY <1>1, <1>5
<1>7. L = 1 => g[1] = bs[1]
  BY <1>1, <1>6
<1>8. L = 2 => g[1] = bs[1] + 256 * bs[2]
  BY <1>1, <1>6
<1>9. L = 3 => g[1] = bs[1] + 256 * (bs[2] + 256 * bs[3])
  BY <1>1, <1>6
<1>10. L = 4 => g[1] = bs[1] + 256 * (bs[2] + 256 * (bs[3] + 256 * bs[4]))
  BY <1>1, <1>6
<1> DEFINE v == FromLittleEndian(bs, FALSE)
<1>11. v = g[1]
  BY <1>3, Zenon
<1> HIDE DEF v
<1>12. /\ L = 0 => v = 0
       /\ L = 1 => v = bs[1]
       /\ L = 2 => v = bs[1] + 256 * bs[2]
       /\ L = 3 => v = bs[1] + 256 * (bs[2] + 256 * bs[3])
       /\ L = 4 => v = bs[1] + 256 * (bs[2] + 256 * (bs[3] + 256 * bs[4]))
  <2>1. L = 0 => v = 0
    BY <1>6, <1>11, Zenon
  <2>2. L = 1 => v = bs[1]
    BY <1>7, <1>11, Zenon
  <2>3. L = 2 => v = bs[1] + 256 * bs[2]
    BY <1>8, <1>11, Zenon
  <2>4. L = 3 => v = bs[1] + 256 * (bs[2] + 256 * bs[3])
    BY <1>9, <1>11, Zenon
  <2>5. L = 4 => v = bs[1] + 256 * (bs[2] + 256 * (bs[3] + 256 * bs[4]))
    BY <1>10, <1>11, Zenon
  <2>6. QED
    BY <2>1, <2>2, <2>3, <2>4, <2>5, Zenon
<1>13. QED
  BY <1>12, Zenon DEF L, v, IsSumOf

LEMMA Singletons == \A T : \A x \in T : <<x>> \in Seq(T) /\ Len(<<x>>) = 1 /\ <<x>>[1] = x
OBVIOUS

LEMMA NotEmpty == \A s : Len(s) # 0 => s # <<>>
<1>1. Len(<<>>) = 0
  OBVIOUS
<1>2. QED
  BY <1>1, Zenon

LEMMA Tails ==
  ASSUME NEW T, NEW s \in Seq(T), s # <<>>
  PROVE  /\ Tail(s) \in Seq(T) /\ Len(Tail(s)) = Len(s) - 1
         /\ \A i \in 1..(Len(s) - 1) : Tail(s)[i] = s[i + 1]
OBVIOUS

\* A number below 2^32 is made of its low bytes again, as in each form of compact numbers.
LEMMA CompactNumbers ==
  ASSUME NEW n \in Nat
  PROVE  /\ n < CompactLeast[2] => 4 * n \in Byte /\ (4 * n) % 4 = 0 /\ (4 * n) \div 4 = n
         /\ n < CompactLeast[3] => /\ B0(4 * n + 1) % 4 = 1
                                   /\ B0(4 * n + 1) \div 4 + 64 * B1(4 * n + 1) = n
         /\ LET c == 4 * (n % 64) + 2
            IN  c \in Byte /\ c % 4 = 2 /\ c \div 4 = n % 64
         /\ n < CompactLeast[4] => (n % 64) + 64 * Three(n \div 64) = n
         /\ IsU32(n) => Four(n) = n
<1>1. n < CompactLeast[2] => 4 * n \in Byte /\ (4 * n) % 4 = 0 /\ (4 * n) \div 4 = n
  BY SMT DEF Byte, CompactLeast
<1>2. ASSUME n < CompactLeast[3]
      PROVE  /\ B0(4 * n + 1) % 4 = 1
             /\ B0(4 * n + 1) \div 4 + 64 * B1(4 * n + 1) = n
  <2>1. n < 16384
    BY <1>2, SMT DEF CompactLeast
  <2>2. QED
    BY <2>1, SMT DEF B0, B1
<1>3. LET c == 4 * (n % 64) + 2
      IN  c \in Byte /\ c % 4 = 2 /\ c \div 4 = n % 64
  BY DEF Byte
<1>4. ASSUME n < CompactLeast[4]
      PROVE  (n % 64) + 64 * Three(n \div 64) = n
  <2>0. n < 1073741824
    BY <1>4, SMT DEF CompactLeast
  <2>1. PICK k \in Nat : k = n \div 64 /\ n = (n % 64) + 64 * k /\ k < 16777216
    BY <2>0, SMT
  <2>2. PICK k1 \in Nat : k1 = k \div 256 /\ k = (k % 256) + 256 * k1 /\ k1 < 65536
    BY <2>1, SMT
  <2>3. PICK k2 \in Nat : k2 = k1 \div 256 /\ k1 = (k1 % 256) + 256 * k2 /\ k2 < 256
    BY <2>2, SMT
  <2>4. k2 % 256 = k2
    BY <2>3, SMT
  <2>5. QED
    BY <2>1, <2>2, <2>3, <2>4, SMT DEF Three, B0, B1, B2
<1>5. ASSUME IsU32(n)
      PROVE  Four(n) = n
  <2>1. PICK k1 \in Nat : k1 = n \div 256 /\ n = (n % 256) + 256 * k1
    BY SMT
  <2>2. PICK k2 \in Nat : k2 = k1 \div 256 /\ k1 = (k1 % 256) + 256 * k2
    BY <2>1, SMT
  <2>3. PICK k3 \in Nat : k3 = k2 \div 256 /\ k2 = (k2 % 256) + 256 * k3
    BY <2>2, SMT
  <2>4. n \div 16777216 = k3
    BY <2>1, <2>2, <2>3, SMT
  <2>5. k3 % 256 = k3
    BY <1>5, <2>3, <2>4, SMT DEF IsU32
  <2>6. QED
    BY <2>1, <2>2, <2>3, <2>5, SMT DEF Four, B0, B1, B2, B3
<1>6. QED
  BY <1>1, <1>2, <1>3, <1>4, <1>5, Zenon

\* A form of compact numbers, with its bytes: it is read back.
Form(f, n, c) ==
  /\ c \in Seq(Byte) /\ Len(c) = CompactSize[f]
  /\ (c[1] % 4) + 1 = f /\ (f = 4 => c[1] = 3)
  /\ CompactNumber(f, c) = n /\ ~(n < CompactLeast[f])

LEMMA Joined ==
  ASSUME NEW T, NEW b \in T, NEW s \in Seq(T)
  PROVE  /\ <<b>> \o s \in Seq(T) /\ Len(<<b>> \o s) = 1 + Len(s)
         /\ (<<b>> \o s)[1] = b /\ \A i \in 1..Len(s) : (<<b>> \o s)[1 + i] = s[i]
<1>1. <<b>> \in Seq(T) /\ Len(<<b>>) = 1 /\ <<b>>[1] = b
  BY Singletons
<1>2. QED
  BY <1>1, Concatenated

\* c is s behind b.
Prefixed(c, b, s) ==
  Len(c) = 1 + Len(s) /\ \A i \in 1..Len(s) : c[1 + i] = s[i]

LEMMA JoinedBytes ==
  ASSUME NEW b \in Byte, NEW s \in Seq(Byte)
  PROVE  Prefixed(<<b>> \o s, b, s)
<1> DEFINE c == <<b>> \o s
<1>1. Len(c) = 1 + Len(s) /\ \A i \in 1..Len(s) : c[1 + i] = s[i]
  BY Joined
<1>2. QED
  BY <1>1, Zenon DEF Prefixed, c

\* What CompactNumber makes of the bytes c, by their number.
NumbersOf(c) ==
  /\ Len(c) = 1 => CompactNumber(1, c) = c[1] \div 4
  /\ Len(c) = 2 => CompactNumber(2, c) = c[1] \div 4 + 64 * c[2]
  /\ Len(c) = 4 => CompactNumber(3, c) = c[1] \div 4 + 64 * (c[2] + 256 * (c[3] + 256 * c[4]))
  /\ Len(c) = 5 => CompactNumber(4, c) = c[2] + 256 * (c[3] + 256 * (c[4] + 256 * c[5]))

\* CompactNumber, of the bytes of each form.
LEMMA NumberOfForm ==
  ASSUME NEW c \in Seq(Byte), c # <<>>, Len(c) <= 5
  PROVE  NumbersOf(c)
<1>1. Len(c) \in Nat /\ \A i \in 1..Len(c) : c[i] \in Byte
  BY SequenceFacts
<1>2. \A x \in Byte : x \in Int
  BY DEF Byte
<1>3. PICK t \in Seq(Byte) : t = Tail(c)
  BY Tails
<1>4. Len(t) = Len(c) - 1 /\ \A i \in 1..(Len(c) - 1) : t[i] = c[i + 1]
  BY <1>3, Tails
<1>5. Len(t) \in Nat /\ Len(t) <= 4
  BY <1>1, <1>4
<1>13. /\ Len(c) = 2 => t[1] = c[2]
       /\ Len(c) = 4 => t[1] = c[2] /\ t[2] = c[3] /\ t[3] = c[4]
       /\ Len(c) = 5 => t[1] = c[2] /\ t[2] = c[3] /\ t[3] = c[4] /\ t[4] = c[5]
  BY <1>4
<1>14. 1 # 4 /\ 2 # 4 /\ 3 # 4
  OBVIOUS
<1>6. /\ Len(c) = 1 => FromLittleEndian(t, FALSE) = 0
      /\ Len(c) = 2 => FromLittleEndian(t, FALSE) = t[1]
      /\ Len(c) = 4 => FromLittleEndian(t, FALSE) = t[1] + 256 * (t[2] + 256 * t[3])
      /\ Len(c) = 5 => FromLittleEndian(t, FALSE) = t[1] + 256 * (t[2] + 256 * (t[3] + 256 * t[4]))
  <2>1. /\ Len(c) = 1 => Len(t) = 0
        /\ Len(c) = 2 => Len(t) = 1
        /\ Len(c) = 4 => Len(t) = 3
        /\ Len(c) = 5 => Len(t) = 4
    BY <1>4
  <2>2. QED
    <3>1. IsSumOf(t, FromLittleEndian(t, FALSE))
      BY <1>3, <1>5, SumOfBytes
    <3>2. QED
      BY <2>1, <3>1, Zenon DEF IsSumOf
<1> DEFINE v == FromLittleEndian(t, FALSE)
<1>7. \A f : CompactNumber(f, c) = IF f = 4 THEN v ELSE c[1] \div 4 + 64 * v
  BY <1>3, Zenon DEF CompactNumber
<1> HIDE DEF v
<1>15. /\ CompactNumber(1, c) = c[1] \div 4 + 64 * v
       /\ CompactNumber(2, c) = c[1] \div 4 + 64 * v
       /\ CompactNumber(3, c) = c[1] \div 4 + 64 * v
       /\ CompactNumber(4, c) = v
  BY <1>7
<1>8. Len(c) = 1 => CompactNumber(1, c) = c[1] \div 4
  <2>1. Len(c) = 1 => c[1] \div 4 + 64 * 0 = c[1] \div 4
    BY <1>1, <1>2
  <2>2. QED
    BY <1>6, <1>15, <2>1, Zenon DEF v
<1>9. Len(c) = 2 => CompactNumber(2, c) = c[1] \div 4 + 64 * c[2]
  BY <1>6, <1>13, <1>15, Zenon DEF v
<1>10. ASSUME Len(c) = 4
       PROVE  CompactNumber(3, c) = c[1] \div 4 + 64 * (c[2] + 256 * (c[3] + 256 * c[4]))
  <2>1. v = t[1] + 256 * (t[2] + 256 * t[3])
    BY <1>6, <1>10, Zenon DEF v
  <2>2. t[1] = c[2] /\ t[2] = c[3] /\ t[3] = c[4]
    BY <1>10, <1>13, Zenon
  <2>3. CompactNumber(3, c) = c[1] \div 4 + 64 * v
    BY <1>15, Zenon
  <2>4. QED
    BY <2>1, <2>2, <2>3, Zenon
<1>11. ASSUME Len(c) = 5
       PROVE  CompactNumber(4, c) = c[2] + 256 * (c[3] + 256 * (c[4] + 256 * c[5]))
  <2>1. v = t[1] + 256 * (t[2] + 256 * (t[3] + 256 * t[4]))
    BY <1>6, <1>11, Zenon DEF v
  <2>2. t[1] = c[2] /\ t[2] = c[3] /\ t[3] = c[4] /\ t[4] = c[5]
    BY <1>11, <1>13, Zenon
  <2>3. CompactNumber(4, c) = v
    BY <1>15, Zenon
  <2>4. QED
    BY <2>1, <2>2, <2>3, Zenon
<1>12. QED
  BY <1>8, <1>9, <1>10, <1>11, Zenon DEF NumbersOf

\* What CompactBytes writes is one of the four forms, with the number in it.
LEMMA CompactForms ==
  ASSUME NEW n, IsU32(n)
  PROVE  \E f \in 1..4 : Form(f, n, CompactBytes(n))
<1> DEFINE least(f) == CompactLeast[f]
           c == CompactBytes(n)
<1>1. n \in Nat
  BY DEF IsU32
<1>2. /\ CompactSize[1] = 1 /\ CompactSize[2] = 2 /\ CompactSize[3] = 4 /\ CompactSize[4] = 5
  BY DEF CompactSize
<1>3. ~(n < least(1))
  BY <1>1, SMT DEF CompactLeast
<1> HIDE DEF least
<1>4. CASE n < least(2)
  <2>1. c = <<4 * n>>
    BY <1>4, Zenon DEF CompactBytes, least
  <2>2. 4 * n \in Byte /\ (4 * n) % 4 = 0 /\ (4 * n) \div 4 = n
    BY <1>1, <1>4, CompactNumbers, Zenon DEF least
  <2>3. c \in Seq(Byte) /\ Len(c) = 1 /\ c[1] = 4 * n
    BY <2>1, <2>2, Singletons, Zenon
  <2> HIDE DEF c
  <2>4. CompactNumber(1, c) = c[1] \div 4
    <3>1. c # <<>> /\ Len(c) <= 5
      BY <2>3
    <3>2. NumbersOf(c)
      BY <2>3, <3>1, NumberOfForm
    <3>3. QED
      BY <2>3, <3>2, Zenon DEF NumbersOf
  <2>5. Form(1, n, c)
    BY <1>2, <1>3, <2>2, <2>3, <2>4 DEF Form, least
  <2>6. QED
    BY <2>5 DEF c
<1>5. CASE ~(n < least(2)) /\ n < least(3)
  <2>1. c = LittleEndian(4 * n + 1, 2)
    BY <1>5, Zenon DEF CompactBytes, least
  <2>2. c \in Seq(Byte) /\ Len(c) = 2 /\ c[1] = B0(4 * n + 1) /\ c[2] = B1(4 * n + 1)
    BY <1>1, <2>1, LowBytes
  <2>3. B0(4 * n + 1) % 4 = 1 /\ B0(4 * n + 1) \div 4 + 64 * B1(4 * n + 1) = n
    BY <1>1, <1>5, CompactNumbers, Zenon DEF least
  <2> HIDE DEF c
  <2>4. CompactNumber(2, c) = c[1] \div 4 + 64 * c[2]
    <3>1. c # <<>> /\ Len(c) <= 5
      BY <2>2
    <3>2. NumbersOf(c)
      BY <2>2, <3>1, NumberOfForm
    <3>3. QED
      BY <2>2, <3>2, Zenon DEF NumbersOf
  <2>5. Form(2, n, c)
    BY <1>2, <1>5, <2>2, <2>3, <2>4 DEF Form, least
  <2>6. QED
    BY <2>5 DEF c
<1>6. CASE ~(n < least(2)) /\ ~(n < least(3)) /\ n < least(4)
  <2> DEFINE k == n \div 64
             b == 4 * (n % 64) + 2
             t == LittleEndian(k, 3)
  <2>1. c = <<b>> \o t
    BY <1>6, Zenon DEF CompactBytes, least
  <2>2. t \in Seq(Byte) /\ Len(t) = 3 /\ t[1] = B0(k) /\ t[2] = B1(k) /\ t[3] = B2(k)
    BY <1>1, LowBytes
  <2>3. b \in Byte /\ b % 4 = 2 /\ b \div 4 = n % 64
    BY <1>1, CompactNumbers, Zenon
  <2>4. (n % 64) + 64 * Three(k) = n
    BY <1>1, <1>6, CompactNumbers, Zenon DEF least
  <2> HIDE DEF b, k, t, c
  <2>5. c \in Seq(Byte) /\ c[1] = b
    BY <2>1, <2>2, <2>3, Joined
  <2>6. Len(c) = 4 /\ c[2] = B0(k) /\ c[3] = B1(k) /\ c[4] = B2(k)
    <3>1. Prefixed(<<b>> \o t, b, t)
      BY <2>2, <2>3, JoinedBytes
    <3>2. Len(c) = 1 + Len(t) /\ \A i \in 1..Len(t) : c[1 + i] = t[i]
      BY <2>1, <3>1, Zenon DEF Prefixed
    <3>3. QED
      BY <2>2, <3>2
  <2>7. CompactNumber(3, c) = c[1] \div 4 + 64 * (c[2] + 256 * (c[3] + 256 * c[4]))
    <3>1. c # <<>> /\ Len(c) <= 5
      BY <2>6, NotEmpty
    <3>2. NumbersOf(c)
      BY <2>5, <2>6, <3>1, NumberOfForm
    <3>3. QED
      BY <2>6, <3>2, Zenon DEF NumbersOf
  <2>8. CompactNumber(3, c) = n
    BY <2>3, <2>4, <2>5, <2>6, <2>7, Zenon DEF Three
  <2>9. Form(3, n, c)
    BY <1>2, <1>6, <2>3, <2>5, <2>6, <2>8 DEF Form, least
  <2>10. QED
    BY <2>9 DEF c
<1>7. CASE ~(n < least(2)) /\ ~(n < least(3)) /\ ~(n < least(4))
  <2> DEFINE t == LittleEndian(n, 4)
  <2>1. c = <<3>> \o t
    BY <1>7, Zenon DEF CompactBytes, least
  <2>2. t \in Seq(Byte) /\ Len(t) = 4 /\ t[1] = B0(n) /\ t[2] = B1(n) /\ t[3] = B2(n) /\ t[4] = B3(n)
    BY <1>1, LowBytes
  <2>3. Four(n) = n
    BY <1>1, CompactNumbers, Zenon
  <2>4. 3 \in Byte
    BY DEF Byte
  <2> HIDE DEF t, c
  <2>5. c \in Seq(Byte) /\ c[1] = 3
    BY <2>1, <2>2, <2>4, Joined
  <2>6. Len(c) = 5 /\ c[2] = B0(n) /\ c[3] = B1(n) /\ c[4] = B2(n) /\ c[5] = B3(n)
    <3>1. Prefixed(<<3>> \o t, 3, t)
      BY <2>2, <2>4, JoinedBytes
    <3>2. Len(c) = 1 + Len(t) /\ \A i \in 1..Len(t) : c[1 + i] = t[i]
      BY <2>1, <3>1, Zenon DEF Prefixed
    <3>3. QED
      BY <2>2, <3>2
  <2>7. CompactNumber(4, c) = c[2] + 256 * (c[3] + 256 * (c[4] + 256 * c[5]))
    <3>1. c # <<>> /\ Len(c) <= 5
      BY <2>6, NotEmpty
    <3>2. NumbersOf(c)
      BY <2>5, <2>6, <3>1, NumberOfForm
    <3>3. QED
      BY <2>6, <3>2, Zenon DEF NumbersOf
  <2>8. CompactNumber(4, c) = n
    BY <2>3, <2>6, <2>7, Zenon DEF Four
  <2>9. Form(4, n, c)
    BY <1>2, <1>7, <2>5, <2>6, <2>8 DEF Form, least
  <2>10. QED
    BY <2>9 DEF c
<1>8. QED
  BY <1>4, <1>5, <1>6, <1>7, Zenon

\* The number of events of a block, and the number of an event's topics, come back from
\* Compact::<u32>::decode as the runtime has written them, of every size and whatever
\* follows, and no byte behind them is taken (Events::new, EventDetails::decode_from).
THEOREM CompactIsRead ==
  ASSUME NEW n, IsU32(n), NEW t \in Seq(Byte)
  PROVE  /\ CompactBytes(n) \in Seq(Byte) /\ CompactBytes(n) # <<>>
         /\ ReadCompact(CompactBytes(n) \o t, "U32") = Read(n, t)
<1>1. PICK f \in 1..4, c \in Seq(Byte) : c = CompactBytes(n) /\ Form(f, n, c)
  BY CompactForms DEF Form
<1>2. Len(c) \in 1..5 /\ Len(c) = CompactSize[f]
  <2>1. CompactSize[1] = 1 /\ CompactSize[2] = 2 /\ CompactSize[3] = 4 /\ CompactSize[4] = 5
    BY DEF CompactSize
  <2>2. f \in {1, 2, 3, 4}
    OBVIOUS
  <2>3. QED
    BY <1>1, <2>1, <2>2 DEF Form
<1> DEFINE s == c \o t
           r == Take(s, CompactSize[f])
<1>3. s \in Seq(Byte) /\ Len(s) = Len(c) + Len(t) /\ s[1] = c[1]
  BY <1>2, Concatenated
<1>4. Take(s, CompactSize[f]) = Read(c, t)
  BY <1>2, TakesTheFirst
<1> HIDE DEF s, r
<1>5. s # <<>> /\ c # <<>>
  BY <1>2, <1>3
<1>6. (s[1] % 4) + 1 = f /\ (f = 4 => s[1] = 3)
  BY <1>1, <1>3 DEF Form
<1>7. Fits("U32", n)
  <2>1. n \in Nat
    BY DEF IsU32
  <2>2. n >= 0
    BY <2>1
  <2>3. Width["U32"] = 4 /\ "U32" \in Unsigned
    BY DEF Width, Unsigned
  <2>4. QED
    BY <2>2, <2>3 DEF Fits
<1>8. InRange(CompactNumber(f, c), CompactLeast[f], "U32", t) = Read(n, t)
  BY <1>1, <1>7, Zenon DEF InRange, Form
<1>9. ReadCompact(s, "U32") =
        IF r.err # "" THEN r
        ELSE IF f = 4 /\ s[1] # 3 THEN ReadError("TooLarge", s)
        ELSE InRange(CompactNumber(f, r.val), CompactLeast[f], "U32", r.rest)
  BY <1>5, <1>6, Zenon DEF ReadCompact, Then, r
<1>12. r.err = "" /\ r.val = c /\ r.rest = t
  <2>1. Read(c, t).err = "" /\ Read(c, t).val = c /\ Read(c, t).rest = t
    BY ReadIs
  <2>2. QED
    BY <1>4, <2>1 DEF r
<1>10. ReadCompact(s, "U32") = Read(n, t)
  BY <1>6, <1>8, <1>9, <1>12, Zenon
<1>11. QED
  BY <1>1, <1>5, <1>10 DEF s

-----------------------------------------------------------------------------
(* An event as it is written and read.                                     *)

\* Three sequences one after the other, however they are put together.
Associates(a, b, c) == (a \o b) \o c = a \o (b \o c)

LEMMA Associative ==
  ASSUME NEW T, NEW a \in Seq(T), NEW b \in Seq(T), NEW c \in Seq(T)
  PROVE  Associates(a, b, c)
<1> DEFINE u == (a \o b) \o c
           v == a \o (b \o c)
           A == Len(a)
           B == Len(b)
           C == Len(c)
<1>1. A \in Nat /\ B \in Nat /\ C \in Nat
  BY SequenceFacts
<1>2. a \o b \in Seq(T) /\ Len(a \o b) = A + B /\ b \o c \in Seq(T) /\ Len(b \o c) = B + C
  BY Concatenated
<1>3. u \in Seq(T) /\ v \in Seq(T) /\ Len(u) = (A + B) + C /\ Len(v) = A + (B + C)
  BY <1>2, Concatenated
<1>4. ASSUME NEW i \in 1..A PROVE u[i] = v[i]
  <2>1. i \in 1..(A + B)
    BY <1>1
  <2>2. u[i] = (a \o b)[i]
    BY <1>2, <2>1, Concatenated
  <2>3. (a \o b)[i] = a[i]
    BY Concatenated
  <2>4. v[i] = a[i]
    BY <1>2, Concatenated
  <2>5. QED
    BY <2>2, <2>3, <2>4
<1>5. ASSUME NEW i \in 1..B PROVE u[A + i] = v[A + i]
  <2>1. A + i \in 1..(A + B) /\ i \in 1..(B + C)
    BY <1>1
  <2>2. u[A + i] = (a \o b)[A + i]
    BY <1>2, <2>1, Concatenated
  <2>3. (a \o b)[A + i] = b[i]
    BY Concatenated
  <2>4. v[A + i] = (b \o c)[i]
    BY <1>2, <2>1, Concatenated
  <2>5. (b \o c)[i] = b[i]
    BY Concatenated
  <2>6. QED
    BY <2>2, <2>3, <2>4, <2>5
<1>6. ASSUME NEW i \in 1..C PROVE u[A + B + i] = v[A + B + i]
  <2>1. B + i \in 1..(B + C) /\ A + (B + i) = A + B + i
    BY <1>1
  <2>2. u[A + B + i] = c[i]
    BY <1>2, Concatenated
  <2>3. v[A + (B + i)] = (b \o c)[B + i]
    BY <1>2, <2>1, Concatenated
  <2>4. (b \o c)[B + i] = c[i]
    BY Concatenated
  <2>5. QED
    BY <2>1, <2>2, <2>3, <2>4
<1> HIDE DEF u, v, A, B, C
<1>7. ASSUME NEW i \in 1..(A + B + C) PROVE u[i] = v[i]
  <2>1. CASE i <= A
    BY <1>1, <1>4, <2>1
  <2>2. CASE i > A /\ i <= A + B
    <3>1. i - A \in 1..B /\ A + (i - A) = i
      BY <1>1, <2>2
    <3>2. QED
      BY <1>5, <3>1
  <2>3. CASE i > A + B
    <3>1. i - (A + B) \in 1..C /\ A + B + (i - (A + B)) = i
      BY <1>1, <2>3
    <3>2. QED
      BY <1>6, <3>1
  <2>4. QED
    BY <1>1, <2>1, <2>2, <2>3
<1>8. u = v
  BY <1>1, <1>3, <1>7
<1>9. QED
  BY <1>8, Zenon DEF u, v, Associates

\* Phase::ApplyExtrinsic with the extrinsic's index, Finalization or Initialization.
IsPhase(phase) ==
  \/ Len(phase) = 2 /\ phase = <<0, phase[2]>> /\ IsU32(phase[2])
  \/ phase \in {<<1>>, <<2>>}

\* A u32 is read back, and nothing behind it is taken.
LEMMA IntegerIsRead ==
  ASSUME NEW n, IsU32(n), NEW t \in Seq(Byte)
  PROVE  /\ LittleEndian(n, 4) \in Seq(Byte)
         /\ ReadInteger(LittleEndian(n, 4) \o t, "U32") = Read(n, t)
<1> DEFINE l == LittleEndian(n, 4)
           r == Take(l \o t, 4)
<1>1. n \in Nat
  BY DEF IsU32
<1>2. l \in Seq(Byte) /\ Len(l) = 4 /\ l[1] = B0(n) /\ l[2] = B1(n) /\ l[3] = B2(n) /\ l[4] = B3(n)
  BY <1>1, LowBytes
<1>3. Four(n) = n
  BY <1>1, CompactNumbers, Zenon
<1> HIDE DEF l
<1>4. FromLittleEndian(l, FALSE) = l[1] + 256 * (l[2] + 256 * (l[3] + 256 * l[4]))
  <2>1. Len(l) <= 4
    BY <1>2
  <2>2. QED
    <3>1. IsSumOf(l, FromLittleEndian(l, FALSE))
      BY <1>2, <2>1, SumOfBytes
    <3>2. QED
      BY <1>2, <3>1, Zenon DEF IsSumOf
<1>5. FromLittleEndian(l, FALSE) = n
  BY <1>2, <1>3, <1>4, Zenon DEF Four
<1>6. r = Read(l, t)
  BY <1>2, TakesTheFirst
<1>7. r.err = "" /\ r.val = l /\ r.rest = t
  <2>1. Read(l, t).err = "" /\ Read(l, t).val = l /\ Read(l, t).rest = t
    BY ReadIs
  <2>2. QED
    BY <1>6, <2>1
<1>8. Width["U32"] = 4 /\ ("U32" \notin Unsigned) = FALSE
  BY DEF Width, Unsigned
<1> HIDE DEF r
<1>9. ReadInteger(l \o t, "U32") = IF r.err # "" THEN r ELSE Read(FromLittleEndian(r.val, FALSE), r.rest)
  BY <1>8, Zenon DEF ReadInteger, Then, r
<1>10. QED
  BY <1>2, <1>5, <1>7, <1>9, Zenon DEF l

\* Phase::decode gives back the phase of an event, the extrinsic's index included, and
\* stops where the pallet's index begins.
THEOREM PhaseIsRead ==
  ASSUME NEW phase, IsPhase(phase), NEW t \in Seq(Byte)
  PROVE  /\ PhaseBytes(phase) \in Seq(Byte) /\ PhaseBytes(phase) # <<>>
         /\ ReadPhase(PhaseBytes(phase) \o t) = Read(phase, t)
<1>1. 0 \in Byte /\ 1 \in Byte /\ 2 \in Byte
  BY DEF Byte
<1>2. ASSUME NEW x \in {0, 1, 2}, NEW u \in Seq(Byte)
      PROVE  /\ <<x>> \in Seq(Byte) /\ Len(<<x>>) = 1 /\ <<x>>[1] = x
             /\ Take(<<x>> \o u, 1) = Read(<<x>>, u)
  <2>1. x \in Byte
    BY <1>1
  <2>2. <<x>> \in Seq(Byte) /\ Len(<<x>>) = 1 /\ <<x>>[1] = x
    BY <2>1, Singletons, Zenon
  <2>3. Take(<<x>> \o u, Len(<<x>>)) = Read(<<x>>, u)
    BY <2>2, TakesTheFirst, Zenon
  <2>4. QED
    BY <2>2, <2>3, Zenon
<1>3. ASSUME NEW n, IsU32(n), phase = <<0, n>>
      PROVE  /\ PhaseBytes(phase) \in Seq(Byte) /\ PhaseBytes(phase) # <<>>
             /\ ReadPhase(PhaseBytes(phase) \o t) = Read(phase, t)
  <2>1. PICK l : l = LittleEndian(n, 4) /\ l \in Seq(Byte) /\ ReadInteger(l \o t, "U32") = Read(n, t)
    BY <1>3, IntegerIsRead
  <2>2. PhaseBytes(phase) = <<0>> \o l
    <3>1. phase[1] = 0 /\ phase[2] = n
      BY <1>3
    <3>2. QED
      BY <2>1, <3>1, Zenon DEF PhaseBytes
  <2>3. PICK u \in Seq(Byte) : u = l \o t
    BY <2>1, Concatenated
  <2>4. 0 \in {0, 1, 2}
    OBVIOUS
  <2>5. <<0>> \in Seq(Byte) /\ Len(<<0>>) = 1 /\ <<0>>[1] = 0 /\ Take(<<0>> \o u, 1) = Read(<<0>>, u)
    BY <1>2, <2>4, Zenon
  <2>6. (<<0>> \o l) \o t = <<0>> \o u
    <3>1. <<0>> \in Seq(Byte)
      BY <2>5
    <3>2. Associates(<<0>>, l, t)
      BY <2>1, <3>1, Associative
    <3>3. QED
      BY <2>3, <3>2, Zenon DEF Associates
  <2>7. <<0>> \o l \in Seq(Byte) /\ Len(<<0>> \o l) = 1 + Len(l) /\ Len(l) \in Nat
    BY <1>1, <2>1, Joined, SequenceFacts, Zenon
  <2>8. \A o : o = <<0>> \o l => o # <<>>
    BY <2>7
  <2> DEFINE r == Take(<<0>> \o u, 1)
             q == ReadInteger(u, "U32")
  <2>9. r.err = "" /\ r.val = <<0>> /\ r.rest = u
    <3>1. Read(<<0>>, u).err = "" /\ Read(<<0>>, u).val = <<0>> /\ Read(<<0>>, u).rest = u
      BY ReadIs
    <3>2. QED
      BY <2>5, <3>1
  <2>10. q.err = "" /\ q.val = n /\ q.rest = t
    <3>1. Read(n, t).err = "" /\ Read(n, t).val = n /\ Read(n, t).rest = t
      BY ReadIs
    <3>2. QED
      BY <2>1, <2>3, <3>1
  <2>11. AsValue(q, LAMBDA k : <<0, k>>) = Read(phase, t)
    BY <1>3, <2>10, Zenon DEF AsValue
  <2>12. 0 \notin {1, 2}
    OBVIOUS
  <2> HIDE DEF r, q
  <2>13. Then(r, LAMBDA tag, rest :
           CASE tag[1] = 0 -> AsValue(ReadInteger(rest, "U32"), LAMBDA k : <<0, k>>)
             [] tag[1] \in {1, 2} -> Read(tag, rest)
             [] OTHER -> ReadError("InvalidPhase", <<0>> \o u)) = Read(phase, t)
    BY <2>5, <2>9, <2>11, <2>12, Zenon DEF Then, q
  <2>14. ReadPhase(<<0>> \o u) = Read(phase, t)
    BY <2>13, Zenon DEF ReadPhase, r
  <2>15. QED
    BY <2>2, <2>6, <2>7, <2>8, <2>14, Zenon
<1>4. ASSUME NEW n \in {1, 2}, phase = <<n>>
      PROVE  /\ PhaseBytes(phase) \in Seq(Byte) /\ PhaseBytes(phase) # <<>>
             /\ ReadPhase(PhaseBytes(phase) \o t) = Read(phase, t)
  <2>1. n \in {0, 1, 2} /\ n # 0
    OBVIOUS
  <2>2. phase \in Seq(Byte) /\ Len(phase) = 1 /\ phase[1] = n /\ Take(phase \o t, 1) = Read(phase, t)
    BY <1>2, <1>4, <2>1, Zenon
  <2>3. PhaseBytes(phase) = phase
    BY <2>1, <2>2, Zenon DEF PhaseBytes
  <2>4. phase # <<>>
    <3>1. Len(phase) # 0
      BY <2>2
    <3>2. QED
      BY <3>1, NotEmpty, Zenon
  <2> DEFINE r == Take(phase \o t, 1)
  <2>5. r.err = "" /\ r.val = phase /\ r.rest = t
    <3>1. Read(phase, t).err = "" /\ Read(phase, t).val = phase /\ Read(phase, t).rest = t
      BY ReadIs
    <3>2. QED
      BY <2>2, <3>1
  <2> HIDE DEF r
  <2>6. Then(r, LAMBDA tag, rest :
          CASE tag[1] = 0 -> AsValue(ReadInteger(rest, "U32"), LAMBDA k : <<0, k>>)
            [] tag[1] \in {1, 2} -> Read(tag, rest)
            [] OTHER -> ReadError("InvalidPhase", phase \o t)) = Read(phase, t)
    BY <2>1, <2>2, <2>5, Zenon DEF Then
  <2>7. ReadPhase(phase \o t) = Read(phase, t)
    BY <2>6, Zenon DEF ReadPhase, r
  <2>8. QED
    BY <2>2, <2>3, <2>4, <2>7, Zenon
<1>5. QED
  BY <1>3, <1>4 DEF IsPhase

\* The content of topics, which nothing here depends on.
Zeros(n) == [i \in 1..n |-> 0]

LEMMA ZerosAreBytes == ASSUME NEW n \in Nat PROVE Zeros(n) \in Seq(Byte) /\ Len(Zeros(n)) = n
<1>1. 0 \in Byte
  BY DEF Byte
<1>2. QED
  BY <1>1 DEF Zeros

\* Vec::<Hash>::decode takes the topics of an event, however many, and stops where the
\* next event begins.
THEOREM TopicsAreRead ==
  ASSUME NEW n, IsU32(n), NEW t \in Seq(Byte)
  PROVE  /\ TopicBytes(n) \in Seq(Byte)
         /\ ReadTopics(TopicBytes(n) \o t) = Read(Zeros(HashBytes * n), t)
<1> DEFINE h == HashBytes * n
           z == Zeros(h)
           c == CompactBytes(n)
           u == z \o t
           r == ReadCompact(c \o u, "U32")
<1>1. n \in Nat /\ HashBytes \in Nat
  BY HashBytesAssumption DEF IsU32
<1>2. h \in Nat
  BY <1>1
<1>3. z \in Seq(Byte) /\ Len(z) = h
  BY <1>2, ZerosAreBytes
<1>4. TopicBytes(n) = c \o z
  BY DEF TopicBytes, Zeros
<1> HIDE DEF h, z, c
<1>5. c \in Seq(Byte) /\ c # <<>>
  BY CompactIsRead DEF c
<1>6. u \in Seq(Byte) /\ (c \o z) \o t = c \o u /\ c \o z \in Seq(Byte)
  <2>1. z \in Seq(Byte) /\ c \in Seq(Byte)
    BY <1>3, <1>5
  <2>2. (c \o z) \o t = c \o (z \o t)
    <3>1. Associates(c, z, t)
      BY <2>1, Associative
    <3>2. QED
      BY <3>1, Zenon DEF Associates
  <2>3. z \o t \in Seq(Byte) /\ c \o z \in Seq(Byte)
    BY <2>1, Concatenated
  <2>4. QED
    BY <2>2, <2>3
<1> HIDE DEF u
<1>7. r = Read(n, u)
  BY <1>6, CompactIsRead, Zenon DEF c
<1>8. Take(u, h) = Read(z, t)
  BY <1>3, TakesTheFirst, Zenon DEF u
<1>9. r.err = "" /\ r.val = n /\ r.rest = u
  <2>1. Read(n, u).err = "" /\ Read(n, u).val = n /\ Read(n, u).rest = u
    BY ReadIs
  <2>2. QED
    BY <1>7, <2>1
<1> HIDE DEF r
<1>10. ReadTopics(c \o u) = IF r.err # "" THEN r ELSE Take(r.rest, HashBytes * r.val)
  BY Zenon DEF ReadTopics, Then, r
<1>11. QED
  BY <1>4, <1>6, <1>8, <1>9, <1>10, Zenon DEF h, z

-----------------------------------------------------------------------------
(* The tables that are made of the metadata.                               *)

\* The last index at which something holds.
LEMMA GreatestElement ==
  ASSUME NEW L \in Nat, NEW S \in SUBSET (1..L), S # {}
  PROVE  Max(S) \in S
<1> DEFINE D == {L - i : i \in S}
<1>0. \A i \in S : i \in 1..L /\ i \in Nat /\ i <= L /\ L - i \in Nat
  OBVIOUS
<1>1. D \in SUBSET Nat /\ D # {}
  BY <1>0
<1>2. PICK d \in D : \A k \in D : d <= k
  BY <1>1, LeastElement
<1>3. PICK m \in S : d = L - m
  BY <1>2
<1>4. ASSUME NEW i \in S PROVE m >= i
  <2>1. L - m <= L - i /\ i \in Nat /\ m \in Nat
    BY <1>0, <1>2, <1>3
  <2>2. QED
    BY <1>0, <2>1
<1> HIDE DEF D
<1>5. QED
  BY <1>4 DEF Max

\* x is an element of one of the sequences of s.
Within(x, s) == \E i \in 1..Len(s) : \E j \in 1..Len(s[i]) : s[i][j] = x

\* Where an element is in the second of two sequences.
LEMMA PastTheFirst ==
  \A a, b \in Nat : \A c \in 1..(a + b) : ~(c <= a) => c - a \in 1..b /\ a + (c - a) = c
  OBVIOUS

\* Where an element is in all, from where its sequence begins.
LEMMA BelowTheNext ==
  \A a, b, c, d \in Nat : \A j \in 1..b : c = a + b /\ c <= d => a + j \in 1..d
  OBVIOUS

\* FlattenSeq has the elements of its sequences, and no others.
LEMMA ElementsOfAll ==
  ASSUME NEW T, NEW s \in Seq(Seq(T))
  PROVE  \A x : (\E k \in 1..Len(FlattenSeq(s)) : FlattenSeq(s)[k] = x) <=> Within(x, s)
<1> DEFINE L == Len(s)
           F == FlattenSeq(s)
<1>1. L \in Nat /\ \A j \in 1..L : s[j] \in Seq(T)
  BY SequenceFacts
<1>2. PICK g \in [0..L -> Seq(T)] : Flattens(g, s) /\ F = g[L]
  BY Flattening
<1>3. g[0] = <<>> /\ \A j \in 1..L : g[j] = g[j - 1] \o s[j]
  BY <1>2 DEF Flattens
<1>4. F \in Seq(T) /\ \E o \in [0..L -> Nat] : SplitsAt(F, s, o)
  BY FlattenSeqSplits
<1>5. ASSUME NEW x, Within(x, s)
      PROVE  \E k \in 1..Len(F) : F[k] = x
  <2>1. PICK i \in 1..L : \E j \in 1..Len(s[i]) : s[i][j] = x
    BY <1>5 DEF Within
  <2>2. PICK j \in 1..Len(s[i]) : s[i][j] = x
    BY <2>1
  <2>3. PICK o \in [0..L -> Nat] : SplitsAt(F, s, o)
    BY <1>4
  <2>4. /\ o[i] = o[i - 1] + Len(s[i]) /\ o[i] <= Len(F)
        /\ F[o[i - 1] + j] = s[i][j]
    BY <2>3 DEF SplitsAt
  <2> HIDE DEF F, L
  <2>5. o[i] \in Nat /\ o[i - 1] \in Nat
    BY <1>1
  <2>6. Len(F) \in Nat /\ Len(s[i]) \in Nat
    BY <1>1, <1>4, SequenceFacts
  <2>7. o[i - 1] + j \in 1..Len(F)
    BY <2>2, <2>4, <2>5, <2>6, BelowTheNext, Zenon
  <2>8. QED
    BY <2>2, <2>4, <2>7
<1> DEFINE P(n) == n <= L => \A k \in 1..Len(g[n]) : \E i \in 1..n : \E j \in 1..Len(s[i]) : s[i][j] = g[n][k]
           S == {n \in Nat : P(n)}
<1> HIDE DEF L, F
<1>6. P(0)
  <2>1. Len(g[0]) = 0
    BY <1>3
  <2>2. QED
    BY <2>1
<1>7. ASSUME NEW n \in Nat, P(n) PROVE P(n + 1)
  <2> SUFFICES ASSUME n + 1 <= L, NEW k \in 1..Len(g[n + 1])
               PROVE  \E i \in 1..(n + 1) : \E j \in 1..Len(s[i]) : s[i][j] = g[n + 1][k]
    OBVIOUS
  <2>1. n + 1 \in 1..L /\ (n + 1) - 1 = n /\ n \in 0..L /\ n <= L
    BY <1>1
  <2>2. g[n] \in Seq(T) /\ s[n + 1] \in Seq(T) /\ g[n + 1] = g[n] \o s[n + 1]
    BY <1>1, <1>2, <1>3, <2>1
  <2>3. Len(g[n]) \in Nat /\ Len(s[n + 1]) \in Nat /\ Len(g[n + 1]) = Len(g[n]) + Len(s[n + 1])
    BY <2>2, Concatenated, SequenceFacts
  <2>4. CASE k <= Len(g[n])
    <3>1. k \in 1..Len(g[n]) /\ g[n + 1][k] = g[n][k]
      BY <2>2, <2>3, <2>4, Concatenated
    <3>2. PICK i \in 1..n : \E j \in 1..Len(s[i]) : s[i][j] = g[n][k]
      BY <1>7, <2>1, <3>1
    <3>3. i \in 1..(n + 1)
      OBVIOUS
    <3>4. QED
      BY <3>1, <3>2, <3>3
  <2>5. CASE ~(k <= Len(g[n]))
    <3>0. k \in 1..(Len(g[n]) + Len(s[n + 1]))
      BY <2>3, Zenon
    <3>1. k - Len(g[n]) \in 1..Len(s[n + 1]) /\ Len(g[n]) + (k - Len(g[n])) = k
      BY <2>3, <2>5, <3>0, PastTheFirst, Zenon
    <3>2. g[n + 1][k] = s[n + 1][k - Len(g[n])]
      BY <2>2, <3>1, Concatenated
    <3>3. n + 1 \in 1..(n + 1)
      OBVIOUS
    <3>4. QED
      BY <3>1, <3>2, <3>3
  <2>6. QED
    BY <2>4, <2>5
<1> HIDE DEF P
<1>8. S \in SUBSET Nat /\ 0 \in S /\ \A n \in S : n + 1 \in S
  BY <1>6, <1>7
<1> HIDE DEF S
<1>9. S = Nat
  BY <1>8, Induction
<1>10. P(L) /\ L <= L
  BY <1>1, <1>9 DEF S
<1>11. ASSUME NEW k \in 1..Len(F)
       PROVE  Within(F[k], s)
  BY <1>2, <1>10 DEF P, Within, L
<1>12. QED
  BY <1>5, <1>11 DEF F

\* The map of a sequence of pairs has the keys of the pairs, each with a value it is paired with.
LEMMA MapOfPairs ==
  ASSUME NEW T, NEW pairs \in Seq(T)
  PROVE  /\ \A key : key \in DOMAIN MapOf(pairs) <=> \E i \in 1..Len(pairs) : pairs[i][1] = key
         /\ \A key \in DOMAIN MapOf(pairs) :
              \E i \in 1..Len(pairs) : pairs[i][1] = key /\ MapOf(pairs)[key] = pairs[i][2]
<1> DEFINE L == Len(pairs)
           at(key) == {i \in 1..L : pairs[i][1] = key}
           M == MapOf(pairs)
<1>1. L \in Nat /\ DOMAIN pairs = 1..L
  BY SequenceFacts
<1>2. M = [key \in {pairs[i][1] : i \in 1..L} |-> pairs[Max(at(key))][2]]
  BY <1>1 DEF MapOf
<1> HIDE DEF M, L
<1>3. \A key : key \in DOMAIN M <=> \E i \in 1..L : pairs[i][1] = key
  BY <1>2
<1>4. ASSUME NEW key \in DOMAIN M
      PROVE  \E i \in 1..L : pairs[i][1] = key /\ M[key] = pairs[i][2]
  <2>1. at(key) \in SUBSET (1..L) /\ at(key) # {}
    BY <1>3
  <2>2. Max(at(key)) \in at(key)
    BY <1>1, <2>1, GreatestElement
  <2>3. M[key] = pairs[Max(at(key))][2]
    BY <1>2
  <2>4. QED
    BY <2>2, <2>3
<1>5. QED
  BY <1>3, <1>4 DEF M, L

\* s holds pairs, in sequences that may be empty.
LEMMA MapOfAll ==
  ASSUME NEW T, NEW s \in Seq(Seq(T)), NEW M, M = MapOf(FlattenSeq(s))
  PROVE  /\ \A key : key \in DOMAIN M <=> \E x \in T : Within(x, s) /\ x[1] = key
         /\ \A key \in DOMAIN M : \E x \in T : Within(x, s) /\ x[1] = key /\ M[key] = x[2]
<1>1. \A x : Within(x, s) => x \in T
  <2> SUFFICES ASSUME NEW x, Within(x, s) PROVE x \in T
    OBVIOUS
  <2>1. PICK i \in 1..Len(s) : \E j \in 1..Len(s[i]) : s[i][j] = x
    BY DEF Within
  <2>2. s[i] \in Seq(T)
    BY SequenceFacts
  <2>3. QED
    BY <2>1, <2>2, SequenceFacts
<1>2. PICK F \in Seq(T) : F = FlattenSeq(s)
  BY FlattenSeqSplits
<1>3. \A x : (\E k \in 1..Len(F) : F[k] = x) <=> Within(x, s)
  BY <1>2, ElementsOfAll, Zenon
<1>4. M = MapOf(F)
  BY <1>2
<1>5. /\ \A key : key \in DOMAIN M <=> \E k \in 1..Len(F) : F[k][1] = key
      /\ \A key \in DOMAIN M : \E k \in 1..Len(F) : F[k][1] = key /\ M[key] = F[k][2]
  <2>1. /\ \A key : key \in DOMAIN MapOf(F) <=> \E k \in 1..Len(F) : F[k][1] = key
        /\ \A key \in DOMAIN MapOf(F) :
             \E k \in 1..Len(F) : F[k][1] = key /\ MapOf(F)[key] = F[k][2]
    BY MapOfPairs
  <2>2. QED
    BY <1>4, <2>1, Zenon
<1>6. ASSUME NEW key
      PROVE  (\E k \in 1..Len(F) : F[k][1] = key) <=> \E x \in T : Within(x, s) /\ x[1] = key
  <2>1. ASSUME NEW k \in 1..Len(F), F[k][1] = key
        PROVE  \E x \in T : Within(x, s) /\ x[1] = key
    <3>1. Within(F[k], s)
      BY <1>3, Zenon
    <3>2. QED
      BY <1>1, <2>1, <3>1, Zenon
  <2>2. ASSUME NEW x, Within(x, s), x[1] = key
        PROVE  \E k \in 1..Len(F) : F[k][1] = key
    <3>1. PICK k \in 1..Len(F) : F[k] = x
      BY <1>3, <2>2, Zenon
    <3>2. QED
      BY <2>2, <3>1, Zenon
  <2>3. QED
    BY <2>1, <2>2, Zenon
<1>7. ASSUME NEW key \in DOMAIN M
      PROVE  \E x \in T : Within(x, s) /\ x[1] = key /\ M[key] = x[2]
  <2>1. PICK k \in 1..Len(F) : F[k][1] = key /\ M[key] = F[k][2]
    BY <1>5, Zenon
  <2>2. Within(F[k], s)
    BY <1>3, Zenon
  <2>3. QED
    BY <1>1, <2>1, <2>2, Zenon
<1>8. QED
  BY <1>5, <1>6, <1>7, Zenon

\* A function on 1..n is a sequence.
LEMMA Listed ==
  ASSUME NEW T, NEW n \in Nat, NEW f \in [1..n -> T]
  PROVE  f \in Seq(T) /\ Len(f) = n
<1>1. f = [i \in 1..n |-> f[i]] /\ \A i \in 1..n : f[i] \in T
  OBVIOUS
<1> DEFINE g == [i \in 1..n |-> f[i]]
<1>2. g \in Seq(T) /\ Len(g) = n
  BY <1>1
<1> HIDE DEF g
<1>3. f = g
  BY <1>1 DEF g
<1>4. QED
  BY <1>2, <1>3

\* What IsASeq means.
LEMMA SequencesAre ==
  ASSUME NEW s, IsASeq(s)
  PROVE  Len(s) \in Nat /\ DOMAIN s = 1..Len(s)
<1>1. PICK T : s \in Seq(T)
  BY DEF IsASeq
<1>2. QED
  BY <1>1, SequenceFacts

\* What is assumed of the metadata of a runtime.
LEMMA RawMetadataIs ==
  ASSUME NEW r \in DOMAIN RawMetadata, NEW raw, raw = RawMetadata[r]
  PROVE  /\ InvalidMetadata(raw) = ""
         /\ IsASeq(raw.pallets)
         /\ \A i \in DOMAIN raw.pallets :
              /\ raw.pallets[i].event # None => IsASeq(raw.types[raw.pallets[i].event].variants)
              /\ raw.pallets[i].error # None => IsASeq(raw.types[raw.pallets[i].error].variants)
         /\ \A at \in EventPlaces(raw) : PalletAt(raw, at).index \in Byte /\ EventAt(raw, at).index \in Byte
<1>1. /\ InvalidMetadata(raw) = "" /\ IsASeq(raw.pallets)
      /\ \A i \in DOMAIN raw.pallets :
            LET p == raw.pallets[i] IN
            /\ p.index \in Byte
            /\ p.event # None => IsASeq(raw.types[p.event].variants)
            /\ p.error # None => IsASeq(raw.types[p.error].variants)
      /\ \A at \in EventPlaces(raw) : EventAt(raw, at).index \in Byte
  BY RawMetadataAssumption, Zenon
<1>2. ASSUME NEW at \in EventPlaces(raw) PROVE PalletAt(raw, at).index \in Byte
  <2>1. PICK i, j : i \in DOMAIN raw.pallets /\ at = <<i, j>>
    BY DEF EventPlaces, Places
  <2>2. at[1] = i
    BY <2>1
  <2>3. QED
    BY <1>1, <2>1, <2>2, Zenon DEF PalletAt
<1>3. QED
  BY <1>1, <1>2, Zenon

\* What the tables of events and errors have under a key.
EventEntry(raw, at) ==
  [pallet |-> PalletAt(raw, at).name, event |-> EventAt(raw, at).name,
   names |-> EventAt(raw, at).names, tys |-> EventAt(raw, at).tys]
ErrorEntry(raw, at) == [pallet |-> PalletAt(raw, at).name, error |-> ErrorAt(raw, at).name]

\* The places of events, pallet by pallet.
LEMMA EventPlacesAre ==
  ASSUME NEW raw
  PROVE  /\ \A at \in EventPlaces(raw) :
              \E i \in DOMAIN raw.pallets :
                /\ raw.pallets[i].event # None
                /\ \E j \in DOMAIN raw.types[raw.pallets[i].event].variants : at = <<i, j>>
         /\ \A i \in DOMAIN raw.pallets : raw.pallets[i].event # None =>
              \A j \in DOMAIN raw.types[raw.pallets[i].event].variants : <<i, j>> \in EventPlaces(raw)
         /\ \A i, j : /\ PalletAt(raw, <<i, j>>) = raw.pallets[i]
                      /\ EventAt(raw, <<i, j>>) = raw.types[raw.pallets[i].event].variants[j]
BY DEF EventPlaces, Places, PalletAt, EventAt

\* The table of events that Metadata::try_from makes has the pairs of bytes that stand
\* for an event of a pallet, and no others, and under each the pallet, the name and the
\* fields of such an event.
THEOREM EventTable ==
  ASSUME NEW r \in DOMAIN RawMetadata, NEW raw, raw = RawMetadata[r], NEW m, m = MetadataFrom(raw)
  PROVE  /\ \A key : key \in DOMAIN m.events <=> \E at \in EventPlaces(raw) : EventKey(raw, at) = key
         /\ \A key \in DOMAIN m.events :
              \E at \in EventPlaces(raw) : EventKey(raw, at) = key /\ m.events[key] = EventEntry(raw, at)
<1> DEFINE vs(i) == IF raw.pallets[i].event = None THEN <<>> ELSE raw.types[raw.pallets[i].event].variants
           pair(i, j) == <<<<raw.pallets[i].index, vs(i)[j].index>>,
                           [pallet |-> raw.pallets[i].name, event |-> vs(i)[j].name,
                            names |-> vs(i)[j].names, tys |-> vs(i)[j].tys]>>
           row(i) == [j \in DOMAIN vs(i) |-> pair(i, j)]
           s == [i \in DOMAIN raw.pallets |-> row(i)]
           x(at) == <<EventKey(raw, at), EventEntry(raw, at)>>
           T == {x(at) : at \in EventPlaces(raw)}
<1>1. InvalidMetadata(raw) = ""
  BY RawMetadataIs
<1>2. m.events = MapOf(FlattenSeq(s))
  BY <1>1 DEF MetadataFrom, VariantTable
<1>3. DOMAIN raw.pallets = 1..Len(raw.pallets) /\ Len(raw.pallets) \in Nat
  BY RawMetadataIs, SequencesAre
<1>4. \A i \in DOMAIN raw.pallets : DOMAIN vs(i) = 1..Len(vs(i)) /\ Len(vs(i)) \in Nat
  <2> SUFFICES ASSUME NEW i \in DOMAIN raw.pallets
               PROVE  DOMAIN vs(i) = 1..Len(vs(i)) /\ Len(vs(i)) \in Nat
    OBVIOUS
  <2>1. CASE raw.pallets[i].event = None
    BY <2>1
  <2>2. CASE raw.pallets[i].event # None
    <3>1. IsASeq(vs(i))
      BY <2>2, RawMetadataIs
    <3> HIDE DEF vs
    <3>2. QED
      BY <3>1, SequencesAre
  <2>3. QED
    BY <2>1, <2>2
<1>5. \A i \in DOMAIN raw.pallets : \A j \in DOMAIN vs(i) :
        <<i, j>> \in EventPlaces(raw) /\ pair(i, j) = x(<<i, j>>)
  <2> SUFFICES ASSUME NEW i \in DOMAIN raw.pallets, NEW j \in DOMAIN vs(i)
               PROVE  <<i, j>> \in EventPlaces(raw) /\ pair(i, j) = x(<<i, j>>)
    OBVIOUS
  <2>1. raw.pallets[i].event # None
    OBVIOUS
  <2>2. vs(i) = raw.types[raw.pallets[i].event].variants
    BY <2>1
  <2> HIDE DEF vs
  <2>3. /\ <<i, j>> \in EventPlaces(raw) /\ PalletAt(raw, <<i, j>>) = raw.pallets[i]
        /\ EventAt(raw, <<i, j>>) = vs(i)[j]
    BY <2>1, <2>2, EventPlacesAre
  <2>4. QED
    BY <2>3 DEF EventKey, EventEntry
<1>6. \A at \in EventPlaces(raw) :
        \E i \in DOMAIN raw.pallets : \E j \in DOMAIN vs(i) : pair(i, j) = x(at)
  <2> SUFFICES ASSUME NEW at \in EventPlaces(raw)
               PROVE  \E i \in DOMAIN raw.pallets : \E j \in DOMAIN vs(i) : pair(i, j) = x(at)
    OBVIOUS
  <2>1. PICK i \in DOMAIN raw.pallets :
          /\ raw.pallets[i].event # None
          /\ \E j \in DOMAIN raw.types[raw.pallets[i].event].variants : at = <<i, j>>
    BY EventPlacesAre
  <2>2. \E j \in DOMAIN vs(i) : at = <<i, j>>
    BY <2>1
  <2> HIDE DEF vs, pair, x
  <2>3. QED
    BY <1>5, <2>2
<1> HIDE DEF vs, pair, x
<1>7. \A i \in DOMAIN raw.pallets : row(i) \in Seq(T) /\ Len(row(i)) = Len(vs(i))
  <2> SUFFICES ASSUME NEW i \in DOMAIN raw.pallets PROVE row(i) \in Seq(T) /\ Len(row(i)) = Len(vs(i))
    OBVIOUS
  <2>1. \A j \in DOMAIN vs(i) : pair(i, j) \in T
    BY <1>5
  <2> HIDE DEF T
  <2>2. row(i) \in [1..Len(vs(i)) -> T] /\ Len(vs(i)) \in Nat
    BY <1>4, <2>1
  <2>3. QED
    BY <2>2, Listed
<1>8. \A i \in DOMAIN raw.pallets : \A j \in DOMAIN vs(i) : row(i)[j] = pair(i, j)
  OBVIOUS
<1> HIDE DEF row, T
<1>9. s \in Seq(Seq(T)) /\ Len(s) = Len(raw.pallets) /\ \A i \in DOMAIN raw.pallets : s[i] = row(i)
  <2>1. s \in [1..Len(raw.pallets) -> Seq(T)]
    BY <1>3, <1>7
  <2>2. QED
    BY <1>3, <2>1, Listed
<1> HIDE DEF s
<1>10. \A y : Within(y, s) <=> \E at \in EventPlaces(raw) : x(at) = y
  <2>1. ASSUME NEW y, Within(y, s) PROVE \E at \in EventPlaces(raw) : x(at) = y
    <3>1. PICK i \in DOMAIN raw.pallets : \E j \in 1..Len(row(i)) : row(i)[j] = y
      BY <1>3, <1>9, <2>1 DEF Within
    <3>2. PICK j \in DOMAIN vs(i) : pair(i, j) = y
      BY <1>4, <1>7, <1>8, <3>1
    <3>3. QED
      BY <1>5, <3>1, <3>2
  <2>2. ASSUME NEW at \in EventPlaces(raw) PROVE Within(x(at), s)
    <3>1. PICK i \in DOMAIN raw.pallets : \E j \in DOMAIN vs(i) : pair(i, j) = x(at)
      BY <1>6
    <3>2. i \in 1..Len(s) /\ s[i] = row(i) /\ DOMAIN vs(i) = 1..Len(row(i))
      BY <1>3, <1>4, <1>7, <1>9, <3>1
    <3>3. QED
      BY <1>8, <3>1, <3>2 DEF Within
  <2>3. QED
    BY <2>1, <2>2
<1>11. \A at : x(at)[1] = EventKey(raw, at) /\ x(at)[2] = EventEntry(raw, at)
  BY DEF x
<1>12. \A y \in T : \E at \in EventPlaces(raw) : x(at) = y
  BY DEF T
<1> DEFINE M == m.events
<1>13. /\ \A key : key \in DOMAIN M <=> \E y \in T : Within(y, s) /\ y[1] = key
       /\ \A key \in DOMAIN M : \E y \in T : Within(y, s) /\ y[1] = key /\ M[key] = y[2]
  BY <1>2, <1>9, MapOfAll
<1>14. \A at \in EventPlaces(raw) : x(at) \in T
  BY DEF T
<1> HIDE DEF M
<1>15. ASSUME NEW key
       PROVE  key \in DOMAIN M <=> \E at \in EventPlaces(raw) : EventKey(raw, at) = key
  <2>1. ASSUME key \in DOMAIN M PROVE \E at \in EventPlaces(raw) : EventKey(raw, at) = key
    <3>1. PICK y \in T : Within(y, s) /\ y[1] = key
      BY <1>13, <2>1, Zenon
    <3>2. PICK at \in EventPlaces(raw) : x(at) = y
      BY <1>10, <3>1, Zenon
    <3>3. QED
      BY <1>11, <3>1, <3>2
  <2>2. ASSUME NEW at \in EventPlaces(raw), EventKey(raw, at) = key PROVE key \in DOMAIN M
    <3>1. x(at) \in T /\ Within(x(at), s) /\ x(at)[1] = key
      BY <1>10, <1>11, <1>14, <2>2
    <3>2. QED
      BY <1>13, <3>1, Zenon
  <2>3. QED
    BY <2>1, <2>2
<1>16. ASSUME NEW key \in DOMAIN M
       PROVE  \E at \in EventPlaces(raw) : EventKey(raw, at) = key /\ M[key] = EventEntry(raw, at)
  <2>1. PICK y \in T : Within(y, s) /\ y[1] = key /\ M[key] = y[2]
    BY <1>13, Zenon
  <2>2. PICK at \in EventPlaces(raw) : x(at) = y
    BY <1>10, <2>1, Zenon
  <2>3. QED
    BY <1>11, <2>1, <2>2
<1>17. QED
  BY <1>15, <1>16 DEF M

\* The places of errors, pallet by pallet.
LEMMA ErrorPlacesAre ==
  ASSUME NEW raw
  PROVE  /\ \A at \in ErrorPlaces(raw) :
              \E i \in DOMAIN raw.pallets :
                /\ raw.pallets[i].error # None
                /\ \E j \in DOMAIN raw.types[raw.pallets[i].error].variants : at = <<i, j>>
         /\ \A i \in DOMAIN raw.pallets : raw.pallets[i].error # None =>
              \A j \in DOMAIN raw.types[raw.pallets[i].error].variants : <<i, j>> \in ErrorPlaces(raw)
         /\ \A i, j : /\ PalletAt(raw, <<i, j>>) = raw.pallets[i]
                      /\ ErrorAt(raw, <<i, j>>) = raw.types[raw.pallets[i].error].variants[j]
BY DEF ErrorPlaces, Places, PalletAt, ErrorAt

\* The same of the table of errors: every pair of pallet index and error index that
\* the metadata declares is found, with the names of such an error.
THEOREM ErrorTable ==
  ASSUME NEW r \in DOMAIN RawMetadata, NEW raw, raw = RawMetadata[r], NEW m, m = MetadataFrom(raw)
  PROVE  /\ \A key : key \in DOMAIN m.errors <=> \E at \in ErrorPlaces(raw) : ErrorKey(raw, at) = key
         /\ \A key \in DOMAIN m.errors :
              \E at \in ErrorPlaces(raw) : ErrorKey(raw, at) = key /\ m.errors[key] = ErrorEntry(raw, at)
<1> DEFINE vs(i) == IF raw.pallets[i].error = None THEN <<>> ELSE raw.types[raw.pallets[i].error].variants
           pair(i, j) == <<<<raw.pallets[i].index, vs(i)[j].index>>,
                           [pallet |-> raw.pallets[i].name, error |-> vs(i)[j].name]>>
           row(i) == [j \in DOMAIN vs(i) |-> pair(i, j)]
           s == [i \in DOMAIN raw.pallets |-> row(i)]
           x(at) == <<ErrorKey(raw, at), ErrorEntry(raw, at)>>
           T == {x(at) : at \in ErrorPlaces(raw)}
<1>1. InvalidMetadata(raw) = ""
  BY RawMetadataIs
<1>2. m.errors = MapOf(FlattenSeq(s))
  BY <1>1 DEF MetadataFrom, VariantTable
<1>3. DOMAIN raw.pallets = 1..Len(raw.pallets) /\ Len(raw.pallets) \in Nat
  BY RawMetadataIs, SequencesAre
<1>4. \A i \in DOMAIN raw.pallets : DOMAIN vs(i) = 1..Len(vs(i)) /\ Len(vs(i)) \in Nat
  <2> SUFFICES ASSUME NEW i \in DOMAIN raw.pallets
               PROVE  DOMAIN vs(i) = 1..Len(vs(i)) /\ Len(vs(i)) \in Nat
    OBVIOUS
  <2>1. CASE raw.pallets[i].error = None
    BY <2>1
  <2>2. CASE raw.pallets[i].error # None
    <3>1. IsASeq(vs(i))
      BY <2>2, RawMetadataIs
    <3> HIDE DEF vs
    <3>2. QED
      BY <3>1, SequencesAre
  <2>3. QED
    BY <2>1, <2>2
<1>5. \A i \in DOMAIN raw.pallets : \A j \in DOMAIN vs(i) :
        <<i, j>> \in ErrorPlaces(raw) /\ pair(i, j) = x(<<i, j>>)
  <2> SUFFICES ASSUME NEW i \in DOMAIN raw.pallets, NEW j \in DOMAIN vs(i)
               PROVE  <<i, j>> \in ErrorPlaces(raw) /\ pair(i, j) = x(<<i, j>>)
    OBVIOUS
  <2>1. raw.pallets[i].error # None
    OBVIOUS
  <2>2. vs(i) = raw.types[raw.pallets[i].error].variants
    BY <2>1
  <2> HIDE DEF vs
  <2>3. /\ <<i, j>> \in ErrorPlaces(raw) /\ PalletAt(raw, <<i, j>>) = raw.pallets[i]
        /\ ErrorAt(raw, <<i, j>>) = vs(i)[j]
    BY <2>1, <2>2, ErrorPlacesAre
  <2>4. QED
    BY <2>3 DEF ErrorKey, ErrorEntry
<1>6. \A at \in ErrorPlaces(raw) :
        \E i \in DOMAIN raw.pallets : \E j \in DOMAIN vs(i) : pair(i, j) = x(at)
  <2> SUFFICES ASSUME NEW at \in ErrorPlaces(raw)
               PROVE  \E i \in DOMAIN raw.pallets : \E j \in DOMAIN vs(i) : pair(i, j) = x(at)
    OBVIOUS
  <2>1. PICK i \in DOMAIN raw.pallets :
          /\ raw.pallets[i].error # None
          /\ \E j \in DOMAIN raw.types[raw.pallets[i].error].variants : at = <<i, j>>
    BY ErrorPlacesAre
  <2>2. \E j \in DOMAIN vs(i) : at = <<i, j>>
    BY <2>1
  <2> HIDE DEF vs, pair, x
  <2>3. QED
    BY <1>5, <2>2
<1> HIDE DEF vs, pair, x
<1>7. \A i \in DOMAIN raw.pallets : row(i) \in Seq(T) /\ Len(row(i)) = Len(vs(i))
  <2> SUFFICES ASSUME NEW i \in DOMAIN raw.pallets PROVE row(i) \in Seq(T) /\ Len(row(i)) = Len(vs(i))
    OBVIOUS
  <2>1. \A j \in DOMAIN vs(i) : pair(i, j) \in T
    BY <1>5
  <2> HIDE DEF T
  <2>2. row(i) \in [1..Len(vs(i)) -> T] /\ Len(vs(i)) \in Nat
    BY <1>4, <2>1
  <2>3. QED
    BY <2>2, Listed
<1>8. \A i \in DOMAIN raw.pallets : \A j \in DOMAIN vs(i) : row(i)[j] = pair(i, j)
  OBVIOUS
<1> HIDE DEF row, T
<1>9. s \in Seq(Seq(T)) /\ Len(s) = Len(raw.pallets) /\ \A i \in DOMAIN raw.pallets : s[i] = row(i)
  <2>1. s \in [1..Len(raw.pallets) -> Seq(T)]
    BY <1>3, <1>7
  <2>2. QED
    BY <1>3, <2>1, Listed
<1> HIDE DEF s
<1>10. \A y : Within(y, s) <=> \E at \in ErrorPlaces(raw) : x(at) = y
  <2>1. ASSUME NEW y, Within(y, s) PROVE \E at \in ErrorPlaces(raw) : x(at) = y
    <3>1. PICK i \in DOMAIN raw.pallets : \E j \in 1..Len(row(i)) : row(i)[j] = y
      BY <1>3, <1>9, <2>1 DEF Within
    <3>2. PICK j \in DOMAIN vs(i) : pair(i, j) = y
      BY <1>4, <1>7, <1>8, <3>1
    <3>3. QED
      BY <1>5, <3>1, <3>2
  <2>2. ASSUME NEW at \in ErrorPlaces(raw) PROVE Within(x(at), s)
    <3>1. PICK i \in DOMAIN raw.pallets : \E j \in DOMAIN vs(i) : pair(i, j) = x(at)
      BY <1>6
    <3>2. i \in 1..Len(s) /\ s[i] = row(i) /\ DOMAIN vs(i) = 1..Len(row(i))
      BY <1>3, <1>4, <1>7, <1>9, <3>1
    <3>3. QED
      BY <1>8, <3>1, <3>2 DEF Within
  <2>3. QED
    BY <2>1, <2>2
<1>11. \A at : x(at)[1] = ErrorKey(raw, at) /\ x(at)[2] = ErrorEntry(raw, at)
  BY DEF x
<1>12. \A y \in T : \E at \in ErrorPlaces(raw) : x(at) = y
  BY DEF T
<1> DEFINE M == m.errors
<1>13. /\ \A key : key \in DOMAIN M <=> \E y \in T : Within(y, s) /\ y[1] = key
       /\ \A key \in DOMAIN M : \E y \in T : Within(y, s) /\ y[1] = key /\ M[key] = y[2]
  BY <1>2, <1>9, MapOfAll
<1>14. \A at \in ErrorPlaces(raw) : x(at) \in T
  BY DEF T
<1> HIDE DEF M
<1>15. ASSUME NEW key
       PROVE  key \in DOMAIN M <=> \E at \in ErrorPlaces(raw) : ErrorKey(raw, at) = key
  <2>1. ASSUME key \in DOMAIN M PROVE \E at \in ErrorPlaces(raw) : ErrorKey(raw, at) = key
    <3>1. PICK y \in T : Within(y, s) /\ y[1] = key
      BY <1>13, <2>1, Zenon
    <3>2. PICK at \in ErrorPlaces(raw) : x(at) = y
      BY <1>10, <3>1, Zenon
    <3>3. QED
      BY <1>11, <3>1, <3>2
  <2>2. ASSUME NEW at \in ErrorPlaces(raw), ErrorKey(raw, at) = key PROVE key \in DOMAIN M
    <3>1. x(at) \in T /\ Within(x(at), s) /\ x(at)[1] = key
      BY <1>10, <1>11, <1>14, <2>2
    <3>2. QED
      BY <1>13, <3>1, Zenon
  <2>3. QED
    BY <2>1, <2>2
<1>16. ASSUME NEW key \in DOMAIN M
       PROVE  \E at \in ErrorPlaces(raw) : ErrorKey(raw, at) = key /\ M[key] = ErrorEntry(raw, at)
  <2>1. PICK y \in T : Within(y, s) /\ y[1] = key /\ M[key] = y[2]
    BY <1>13, Zenon
  <2>2. PICK at \in ErrorPlaces(raw) : x(at) = y
    BY <1>10, <2>1, Zenon
  <2>3. QED
    BY <1>11, <2>1, <2>2
<1>17. QED
  BY <1>15, <1>16 DEF M


-----------------------------------------------------------------------------
(* The events of a block in a row, and what is read at the start of one.   *)

\* g[n] is what the first n elements of s are together, the last of them first.
AddsUp(L, s, g) == g = [n \in 0..L |-> IF n = 0 THEN <<>> ELSE s[n] \o g[n - 1]]

\* There is such a g (the events of a block are written by a recursive function).
LEMMA Accumulated ==
  ASSUME NEW T, NEW L \in Nat, NEW s \in [1..L -> Seq(T)]
  PROVE  \E g \in [0..L -> Seq(T)] : AddsUp(L, s, g)
<1> DEFINE Upto(g, k) == \A n \in 0..k : g[n] = IF n = 0 THEN <<>> ELSE s[n] \o g[n - 1]
           P(k) == k <= L => \E g \in [0..k -> Seq(T)] : Upto(g, k)
           S == {k \in Nat : P(k)}
<1>1. P(0)
  <2> DEFINE g == [n \in 0..0 |-> <<>>]
  <2>1. <<>> \in Seq(T)
    OBVIOUS
  <2>2. g \in [0..0 -> Seq(T)]
    BY <2>1
  <2>3. Upto(g, 0)
    OBVIOUS
  <2> HIDE DEF g
  <2>4. QED
    BY <2>2, <2>3
<1>2. ASSUME NEW k \in Nat, P(k) PROVE P(k + 1)
  <2> SUFFICES ASSUME k + 1 <= L PROVE \E h \in [0..(k + 1) -> Seq(T)] : Upto(h, k + 1)
    OBVIOUS
  <2>1. PICK g \in [0..k -> Seq(T)] : Upto(g, k)
    <3>1. k <= L
      OBVIOUS
    <3>2. QED
      BY <1>2, <3>1
  <2> DEFINE x == s[k + 1] \o g[k]
             h == [n \in 0..(k + 1) |-> IF n = k + 1 THEN x ELSE g[n]]
  <2>2. s[k + 1] \in Seq(T) /\ g[k] \in Seq(T)
    BY <2>1
  <2>3. x \in Seq(T)
    BY <2>2, Concatenated
  <2> HIDE DEF x
  <2>4. \A n \in 0..(k + 1) : n # k + 1 => n \in 0..k
    OBVIOUS
  <2>5. h \in [0..(k + 1) -> Seq(T)]
    BY <2>1, <2>3, <2>4
  <2>6. h[k + 1] = x /\ \A n \in 0..k : h[n] = g[n]
    OBVIOUS
  <2> HIDE DEF h
  <2>7. ASSUME NEW n \in 0..(k + 1)
        PROVE  h[n] = IF n = 0 THEN <<>> ELSE s[n] \o h[n - 1]
    <3>1. CASE n = k + 1
      <4>1. n # 0 /\ n - 1 = k /\ k \in 0..k
        BY <3>1
      <4>2. QED
        BY <2>6, <3>1, <4>1 DEF x
    <3>2. CASE n # k + 1
      <4>1. n \in 0..k /\ (n # 0 => n - 1 \in 0..k)
        BY <3>2
      <4>2. QED
        BY <2>1, <2>6, <4>1
    <3>3. QED
      BY <3>1, <3>2
  <2>8. QED
    BY <2>5, <2>7
<1> HIDE DEF P
<1>3. S \in SUBSET Nat /\ 0 \in S /\ \A k \in S : k + 1 \in S
  BY <1>1, <1>2
<1> HIDE DEF S
<1>4. S = Nat
  BY <1>3, Induction
<1>5. P(L) /\ L <= L
  BY <1>4 DEF S
<1>6. PICK g \in [0..L -> Seq(T)] : Upto(g, L)
  BY <1>5, Zenon DEF P
<1>7. g = [n \in 0..L |-> IF n = 0 THEN <<>> ELSE s[n] \o g[n - 1]]
  BY <1>6
<1>8. AddsUp(L, s, g)
  BY <1>7, Zenon DEF AddsUp
<1>9. QED
  BY <1>6, <1>8, Zenon

\* What is behind p in s, and behind a in it.
LEMMA Behind ==
  ASSUME NEW T, NEW s \in Seq(T), NEW p \in 0..Len(s), NEW a \in Seq(T), NEW t \in Seq(T),
         SubSeq(s, p + 1, Len(s)) = a \o t
  PROVE  /\ p + Len(a) \in 0..Len(s) /\ p + Len(a) = Len(s) - Len(t)
         /\ SubSeq(s, p + Len(a) + 1, Len(s)) = t
         /\ SubSeq(s, p + 1, p + Len(a)) = a
         /\ \A i \in 1..Len(a) : s[p + i] = a[i]
<1> DEFINE u == a \o t
           A == Len(a)
           L == Len(s)
<1>1. u \in Seq(T) /\ Len(u) = A + Len(t) /\ A \in Nat /\ Len(t) \in Nat /\ L \in Nat
  BY Concatenated, SequenceFacts
<1>2. \A i \in 1..A : u[i] = a[i]
  BY Concatenated
<1>3. \A i \in 1..Len(t) : u[A + i] = t[i]
  BY Concatenated
<1>4. Len(u) = L - p /\ \A i \in 1..(L - p) : u[i] = s[p + i]
  <2>1. /\ Len(SubSeq(s, p + 1, L)) = L - p
        /\ \A i \in 1..(L - p) : SubSeq(s, p + 1, L)[i] = s[p + i]
    OBVIOUS
  <2>2. QED
    BY <2>1
<1> HIDE DEF u, A, L
<1>5. p \in Nat /\ p <= L
  BY <1>1 DEF L
<1>6. p + A \in 0..L /\ p + A = L - Len(t)
  <2>1. A + Len(t) = L - p /\ A \in Nat /\ Len(t) \in Nat /\ L \in Nat
    BY <1>1, <1>4
  <2> HIDE DEF A, L
  <2>2. QED
    BY <1>5, <2>1
<1>7. \A i \in 1..A : s[p + i] = a[i]
  <2>1. \A i \in 1..A : i \in 1..(L - p)
    <3>1. A + Len(t) = L - p
      BY <1>1, <1>4
    <3>2. \A i \in 1..A : i \in 1..(A + Len(t))
      BY <1>1
    <3>3. QED
      BY <3>1, <3>2, Zenon
  <2>2. QED
    BY <1>2, <1>4, <2>1, Zenon
<1>8. \A i \in 1..Len(t) : s[p + A + i] = t[i]
  <2> SUFFICES ASSUME NEW i \in 1..Len(t) PROVE s[p + A + i] = t[i]
    OBVIOUS
  <2>1. A + i \in 1..(L - p) /\ p + (A + i) = p + A + i
    BY <1>1, <1>4, <1>5
  <2>2. QED
    BY <1>3, <1>4, <2>1
<1>9. ASSUME NEW q \in 0..L, NEW k \in 0..L, q <= k
      PROVE  /\ SubSeq(s, q + 1, k) \in Seq(T) /\ Len(SubSeq(s, q + 1, k)) = k - q
             /\ \A i \in 1..(k - q) : SubSeq(s, q + 1, k)[i] = s[q + i]
  BY <1>1, <1>9 DEF L
<1>10. SubSeq(s, p + A + 1, L) = t
  <2> DEFINE v == SubSeq(s, p + A + 1, L)
  <2>0. L \in 0..L /\ p + A <= L /\ L - (p + A) = Len(t)
    BY <1>1, <1>5, <1>6
  <2>1. v \in Seq(T) /\ Len(v) = Len(t) /\ \A i \in 1..Len(t) : v[i] = s[p + A + i]
    BY <1>6, <1>9, <2>0
  <2> HIDE DEF v
  <2>2. v = t
    <3>1. t \in Seq(T) /\ v \in Seq(T) /\ Len(v) = Len(t) /\ \A i \in 1..Len(t) : v[i] = t[i]
      BY <1>8, <2>1
    <3>2. QED
      BY <3>1, SequenceFacts
  <2>3. QED
    BY <2>2 DEF v
<1>11. SubSeq(s, p + 1, p + A) = a
  <2> DEFINE v == SubSeq(s, p + 1, p + A)
  <2>0. p \in 0..L /\ p <= p + A /\ (p + A) - p = A
    BY <1>1, <1>5
  <2>1. v \in Seq(T) /\ Len(v) = A /\ \A i \in 1..A : v[i] = s[p + i]
    BY <1>6, <1>9, <2>0
  <2> HIDE DEF v
  <2>2. v = a
    BY <1>7, <2>1 DEF A
  <2>3. QED
    BY <2>2 DEF v
<1>12. QED
  BY <1>6, <1>7, <1>10, <1>11 DEF A, L

\* s is a, b, c and d in a row.
InARow(T, s, a, b, c, d) ==
  /\ s \in Seq(T) /\ Len(s) = Len(a) + Len(b) + Len(c) + Len(d)
  /\ \A t \in Seq(T) : s \o t = a \o (b \o (c \o (d \o t)))

\* Four sequences put together are in a row, whatever follows.
LEMMA FourParts ==
  ASSUME NEW T, NEW a \in Seq(T), NEW b \in Seq(T), NEW c \in Seq(T), NEW d \in Seq(T)
  PROVE  InARow(T, a \o b \o c \o d, a, b, c, d)
<1> DEFINE x == a \o b
           y == x \o c
<1>1. x \in Seq(T) /\ Len(x) = Len(a) + Len(b)
  BY Concatenated
<1>2. \A u \in Seq(T) : x \o u = a \o (b \o u)
  <2>1. \A u \in Seq(T) : Associates(a, b, u)
    BY Associative
  <2>2. QED
    BY <2>1, Zenon DEF Associates
<1> HIDE DEF x
<1>3. y \in Seq(T) /\ Len(y) = Len(x) + Len(c)
  BY <1>1, Concatenated
<1>4. \A u \in Seq(T) : y \o u = x \o (c \o u) /\ c \o u \in Seq(T)
  <2>1. ASSUME NEW u \in Seq(T) PROVE (x \o c) \o u = x \o (c \o u)
    <3>1. Associates(x, c, u)
      BY <1>1, Associative
    <3>2. QED
      BY <3>1, Zenon DEF Associates
  <2>2. \A u \in Seq(T) : c \o u \in Seq(T)
    BY Concatenated
  <2>3. QED
    BY <2>1, <2>2, Zenon DEF y
<1> HIDE DEF y
<1>5. y \o d \in Seq(T) /\ Len(y \o d) = Len(y) + Len(d)
  BY <1>3, Concatenated
<1>6. \A t \in Seq(T) : (y \o d) \o t = y \o (d \o t) /\ d \o t \in Seq(T)
  <2>1. ASSUME NEW t \in Seq(T) PROVE (y \o d) \o t = y \o (d \o t)
    <3>1. Associates(y, d, t)
      BY <1>3, Associative
    <3>2. QED
      BY <3>1, Zenon DEF Associates
  <2>2. \A t \in Seq(T) : d \o t \in Seq(T)
    BY Concatenated
  <2>3. QED
    BY <2>1, <2>2, Zenon
<1>7. \A t \in Seq(T) : (y \o d) \o t = a \o (b \o (c \o (d \o t)))
  BY <1>2, <1>4, <1>6, Zenon
<1>8. Len(y \o d) = Len(a) + Len(b) + Len(c) + Len(d)
  BY <1>1, <1>3, <1>5
<1>9. QED
  BY <1>5, <1>7, <1>8, Zenon DEF x, y, InARow

\* An event that the runtime with this metadata may write.
IsWritable(raw, e) ==
  /\ IsPhase(e.phase) /\ e.at \in EventPlaces(raw) /\ e.fields \in Seq(Byte) /\ IsU32(e.topics)

\* The metadata of the runtimes.
Metadatas == {RawMetadata[r] : r \in DOMAIN RawMetadata}

\* An event is written with the index of its pallet and its own.
LEMMA KeysAreTwoBytes ==
  ASSUME NEW raw \in Metadatas, NEW at \in EventPlaces(raw)
  PROVE  /\ EventKey(raw, at) \in Seq(Byte) /\ Len(EventKey(raw, at)) = 2
         /\ EventKey(raw, at) = <<EventKey(raw, at)[1], EventKey(raw, at)[2]>>
<1>1. PalletAt(raw, at).index \in Byte /\ EventAt(raw, at).index \in Byte
  <2>1. PICK r \in DOMAIN RawMetadata : raw = RawMetadata[r]
    BY DEF Metadatas
  <2>2. QED
    BY <2>1, RawMetadataIs
<1>2. \A p, q \in Byte : <<p, q>> \in Seq(Byte) /\ Len(<<p, q>>) = 2 /\ <<p, q>> = <<<<p, q>>[1], <<p, q>>[2]>>
  OBVIOUS
<1>3. QED
  BY <1>1, <1>2, Zenon DEF EventKey

\* What the runtime writes for an event: its four parts in a row.
LEMMA EventBytesAre ==
  ASSUME NEW raw \in Metadatas, NEW e, IsWritable(raw, e)
  PROVE  /\ EventBytes(raw, e) \in Seq(Byte) /\ Len(EventBytes(raw, e)) > 0
         /\ \A t \in Seq(Byte) :
              EventBytes(raw, e) \o t =
                PhaseBytes(e.phase) \o (EventKey(raw, e.at) \o (e.fields \o (TopicBytes(e.topics) \o t)))
<1> DEFINE a == PhaseBytes(e.phase)
           b == EventKey(raw, e.at)
           c == e.fields
           d == TopicBytes(e.topics)
<1>1. <<>> \in Seq(Byte)
  OBVIOUS
<1>2. a \in Seq(Byte) /\ d \in Seq(Byte)
  BY <1>1, PhaseIsRead, TopicsAreRead, Zenon DEF IsWritable
<1>3. b \in Seq(Byte) /\ Len(b) = 2
  BY KeysAreTwoBytes DEF IsWritable
<1>4. c \in Seq(Byte)
  BY DEF IsWritable
<1>5. EventBytes(raw, e) = a \o b \o c \o d
  BY DEF EventBytes
<1> HIDE DEF a, b, c, d
<1> DEFINE u == a \o b \o c \o d
<1>6. /\ u \in Seq(Byte) /\ Len(u) = Len(a) + Len(b) + Len(c) + Len(d)
      /\ \A t \in Seq(Byte) : u \o t = a \o (b \o (c \o (d \o t)))
  <2>1. a \in Seq(Byte) /\ b \in Seq(Byte) /\ c \in Seq(Byte) /\ d \in Seq(Byte)
    BY <1>2, <1>3, <1>4
  <2>2. InARow(Byte, u, a, b, c, d)
    BY <2>1, FourParts
  <2>3. QED
    BY <2>2, Zenon DEF InARow
<1> HIDE DEF u
<1>7. Len(a) \in Nat /\ Len(c) \in Nat /\ Len(d) \in Nat
  BY <1>2, <1>4, SequenceFacts
<1>8. Len(u) > 0
  BY <1>3, <1>6, <1>7
<1>9. QED
  BY <1>5, <1>6, <1>8, Zenon DEF a, b, c, d, u

\* The events of a block can be written.
LEMMA BlockIs ==
  ASSUME NEW r \in DOMAIN RawMetadata, NEW raw, raw = RawMetadata[r], NEW b \in EventBlocks[r]
  PROVE  /\ Len(b) \in Nat /\ IsU32(Len(b)) /\ DOMAIN b = 1..Len(b)
         /\ \A k \in 1..Len(b) : IsWritable(raw, b[k])
<1>1. /\ IsASeq(b) /\ IsU32(Len(b))
      /\ \A k \in DOMAIN b :
         /\ \/ Len(b[k].phase) = 2 /\ b[k].phase = <<0, b[k].phase[2]>> /\ IsU32(b[k].phase[2])
            \/ b[k].phase \in {<<1>>, <<2>>}
         /\ b[k].at \in EventPlaces(RawMetadata[r])
         /\ b[k].fields \in Seq(Byte)
         /\ IsU32(b[k].topics)
  BY EventBlocksAssumption, Zenon
<1>2. Len(b) \in Nat /\ DOMAIN b = 1..Len(b)
  BY <1>1, SequencesAre, Zenon
<1>3. ASSUME NEW k \in 1..Len(b) PROVE IsPhase(b[k].phase)
  BY <1>1, <1>2, Zenon DEF IsPhase
<1>4. QED
  BY <1>1, <1>2, <1>3, Zenon DEF IsWritable

\* The last events of a block are the first of them and then the others.
LEMMA LastEventsAre ==
  ASSUME NEW r \in DOMAIN RawMetadata, NEW raw, raw = RawMetadata[r], NEW b \in EventBlocks[r]
  PROVE  /\ \A n \in 0..Len(b) : LastEvents(raw, b)[n] \in Seq(Byte)
         /\ LastEvents(raw, b)[0] = <<>>
         /\ \A n \in 0..Len(b) : n # 0 =>
              LastEvents(raw, b)[n] = EventBytes(raw, b[Len(b) - n + 1]) \o LastEvents(raw, b)[n - 1]
<1> DEFINE L == Len(b)
           s == [n \in 1..L |-> EventBytes(raw, b[L - n + 1])]
           Is(g) == g = [n \in 0..L |-> IF n = 0 THEN <<>> ELSE EventBytes(raw, b[L - n + 1]) \o g[n - 1]]
           G == CHOOSE g : Is(g)
<1>1. L \in Nat /\ \A k \in 1..L : EventBytes(raw, b[k]) \in Seq(Byte)
  <2>1. raw \in Metadatas
    BY DEF Metadatas
  <2>2. L \in Nat /\ \A k \in 1..L : IsWritable(raw, b[k])
    BY BlockIs, Zenon
  <2>3. QED
    BY <2>1, <2>2, EventBytesAre, Zenon
<1> HIDE DEF L
<1>2. s \in [1..L -> Seq(Byte)]
  <2>1. \A n \in 1..L : L - n + 1 \in 1..L
    BY <1>1
  <2>2. QED
    BY <1>1, <2>1
<1>3. PICK g \in [0..L -> Seq(Byte)] : AddsUp(L, s, g)
  <2> HIDE DEF s
  <2>1. QED
    BY <1>1, <1>2, Accumulated
<1>4. \A n \in 0..L : n # 0 => n \in 1..L
  BY <1>1
<1>5. Is(g)
  <2>1. \A n \in 0..L : n # 0 => s[n] = EventBytes(raw, b[L - n + 1])
    BY <1>4
  <2> HIDE DEF s
  <2>2. \A n \in 0..L : (IF n = 0 THEN <<>> ELSE s[n] \o g[n - 1]) = (IF n = 0 THEN <<>> ELSE EventBytes(raw, b[L - n + 1]) \o g[n - 1])
    BY <2>1
  <2>3. [n \in 0..L |-> IF n = 0 THEN <<>> ELSE s[n] \o g[n - 1]] = [n \in 0..L |-> IF n = 0 THEN <<>> ELSE EventBytes(raw, b[L - n + 1]) \o g[n - 1]]
    BY <2>2, Zenon
  <2>4. QED
    BY <1>3, <2>3, Zenon DEF AddsUp
<1>6. Is(G)
  <2> HIDE DEF Is
  <2>1. QED
    BY <1>5, Zenon
<1>7. LastEvents(raw, b) = G
  BY DEF LastEvents, L
<1> HIDE DEF G
<1>8. G[0] = <<>> /\ \A n \in 0..L : n # 0 => G[n] = EventBytes(raw, b[L - n + 1]) \o G[n - 1]
  <2>1. 0 \in 0..L
    BY <1>1
  <2>2. QED
    BY <1>6, <2>1, Zenon
<1> HIDE DEF Is
<1>9. \A n \in 0..L : G[n] \in Seq(Byte)
  <2> DEFINE S == {n \in Nat : n <= L => G[n] \in Seq(Byte)}
  <2>1. 0 \in S
    <3>1. <<>> \in Seq(Byte)
      OBVIOUS
    <3>2. G[0] \in Seq(Byte)
      BY <1>8, <3>1
    <3>3. QED
      BY <3>2
  <2>2. ASSUME NEW n \in S PROVE n + 1 \in S
    <3> SUFFICES ASSUME n + 1 <= L PROVE G[n + 1] \in Seq(Byte)
      OBVIOUS
    <3>1. n \in Nat /\ n <= L /\ n + 1 \in 0..L /\ n + 1 # 0 /\ (n + 1) - 1 = n
      BY <1>1
    <3>2. G[n] \in Seq(Byte)
      BY <3>1
    <3>3. G[n + 1] = EventBytes(raw, b[L - (n + 1) + 1]) \o G[n]
      BY <1>8, <3>1
    <3>4. L - (n + 1) + 1 \in 1..L
      BY <1>1, <3>1
    <3>5. QED
      BY <1>1, <3>2, <3>3, <3>4, Concatenated
  <2> HIDE DEF S
  <2>3. S = Nat
    <3>1. S \in SUBSET Nat
      BY DEF S
    <3>2. QED
      BY <2>1, <2>2, <3>1, Induction
  <2>4. \A n \in S : n <= L => G[n] \in Seq(Byte)
    BY DEF S
  <2>5. \A n \in 0..L : n \in Nat /\ n <= L
    BY <1>1
  <2>6. QED
    BY <2>3, <2>4, <2>5, Zenon
<1>10. QED
  BY <1>7, <1>8, <1>9, Zenon DEF L

\* What EventDetails reads where the bytes of an event begin, with metadata m.
DetailsAre(raw, e, t, m, bytes, start, ix) ==
  LET key == EventKey(raw, e.at)
      behind == TopicBytes(e.topics) \o t
  IN  /\ key \notin DOMAIN m.events =>
           EventDetails(m, bytes, start, ix) = NotFound("EventNotFound")
      /\ /\ key \in DOMAIN m.events
         /\ DecodeFields(e.fields \o behind, m.events[key].tys) = Read(e.vals, behind)
         => EventDetails(m, bytes, start, ix) =
              [err |-> "", phase |-> e.phase, index |-> ix, start |-> start,
               fields_start |-> Len(bytes) - Len(e.fields \o behind),
               fields_end |-> Len(bytes) - Len(behind), end |-> Len(bytes) - Len(t)]

\* EventDetails::decode_from, at the first byte of an event and with the metadata of any
\* runtime, either fails with EventNotFound, when its table lacks the pair of bytes, or
\* notes the phase, the index and the places of the fields and of the end of the event.
THEOREM EventDetailsAre ==
  ASSUME NEW raw \in Metadatas, NEW e, IsWritable(raw, e),
         NEW t \in Seq(Byte), NEW m, NEW bytes, NEW start, NEW ix,
         SubSeq(bytes, start + 1, Len(bytes)) = EventBytes(raw, e) \o t
  PROVE  DetailsAre(raw, e, t, m, bytes, start, ix)
<1> DEFINE key == EventKey(raw, e.at)
           t3 == TopicBytes(e.topics) \o t
           t2 == e.fields \o t3
           t1 == key \o t2
           Rec(phase, x2, x3, x4) ==
             [err |-> "", phase |-> phase, index |-> ix, start |-> start,
              fields_start |-> Len(bytes) - Len(x2),
              fields_end |-> Len(bytes) - Len(x3), end |-> Len(bytes) - Len(x4)]
           F3(phase, x2, x3) == Then(ReadTopics(x3), LAMBDA topics, x4 : Rec(phase, x2, x3, x4))
           F2(phase, x2, entry) ==
             Then(DecodeFields(x2, entry.tys), LAMBDA fields, x3 : F3(phase, x2, x3))
           F1(phase, x1) ==
             Then(Take(x1, 2), LAMBDA head, x2 :
               AndThen(event(m, head[1], head[2]), LAMBDA entry : F2(phase, x2, entry)))
           q1 == ReadPhase(SubSeq(bytes, start + 1, Len(bytes)))
           q2 == Take(t1, 2)
           q4 == ReadTopics(t3)
           found1 == event(m, key[1], key[2])
<1>1. EventDetails(m, bytes, start, ix) = Then(q1, LAMBDA phase, x1 : F1(phase, x1))
  BY Zenon DEF EventDetails
<1>2. t3 \in Seq(Byte) /\ ReadTopics(t3) = Read(Zeros(HashBytes * e.topics), t)
  <2>1. TopicBytes(e.topics) \in Seq(Byte) /\ ReadTopics(TopicBytes(e.topics) \o t) = Read(Zeros(HashBytes * e.topics), t)
    BY TopicsAreRead, Zenon DEF IsWritable
  <2>2. QED
    BY <2>1, Concatenated
<1> HIDE DEF t3
<1>3. t2 \in Seq(Byte)
  BY <1>2, Concatenated DEF IsWritable
<1> HIDE DEF t2
<1>4. key \in Seq(Byte) /\ Len(key) = 2 /\ <<key[1], key[2]>> = key
  BY KeysAreTwoBytes, Zenon DEF IsWritable
<1> HIDE DEF key
<1>5. t1 \in Seq(Byte)
  BY <1>3, <1>4, Concatenated
<1>6. q2 = Read(key, t2)
  BY <1>3, <1>4, TakesTheFirst
<1> HIDE DEF t1
<1>7. q1 = Read(e.phase, t1)
  <2>1. SubSeq(bytes, start + 1, Len(bytes)) = PhaseBytes(e.phase) \o t1
    <3>1. EventBytes(raw, e) \o t =
            PhaseBytes(e.phase) \o (EventKey(raw, e.at) \o (e.fields \o (TopicBytes(e.topics) \o t)))
      BY EventBytesAre, Zenon
    <3>2. QED
      BY <3>1, Zenon DEF t1, t2, t3, key
  <2>2. ReadPhase(PhaseBytes(e.phase) \o t1) = Read(e.phase, t1)
    BY <1>5, PhaseIsRead, Zenon DEF IsWritable
  <2>3. QED
    BY <2>1, <2>2, Zenon
<1> HIDE DEF q1, q2, F1, F2, F3, Rec
<1>8. q1.err = "" /\ q1.val = e.phase /\ q1.rest = t1
  <2>1. Read(e.phase, t1).err = "" /\ Read(e.phase, t1).val = e.phase /\ Read(e.phase, t1).rest = t1
    BY ReadIs
  <2>2. QED
    BY <1>7, <2>1
<1>9. q2.err = "" /\ q2.val = key /\ q2.rest = t2
  <2>1. Read(key, t2).err = "" /\ Read(key, t2).val = key /\ Read(key, t2).rest = t2
    BY ReadIs
  <2>2. QED
    BY <1>6, <2>1
<1>10. EventDetails(m, bytes, start, ix) = F1(e.phase, t1)
  BY <1>1, <1>8, Zenon DEF Then
<1>11. F1(e.phase, t1) = Then(q2, LAMBDA head, x2 :
               AndThen(event(m, head[1], head[2]), LAMBDA entry : F2(e.phase, x2, entry)))
  BY Zenon DEF F1, q2
<1>12. F1(e.phase, t1) = AndThen(found1, LAMBDA entry : F2(e.phase, t2, entry))
  <2>1. F1(e.phase, t1) =
          AndThen(event(m, q2.val[1], q2.val[2]), LAMBDA entry : F2(e.phase, q2.rest, entry))
    BY <1>9, <1>11, Zenon DEF Then
  <2>2. event(m, q2.val[1], q2.val[2]) = found1
    BY <1>9, Zenon
  <2> DEFINE f == event(m, q2.val[1], q2.val[2])
             G(g, x2) == AndThen(g, LAMBDA entry : F2(e.phase, x2, entry))
  <2>3. F1(e.phase, t1) = G(f, q2.rest)
    BY <2>1
  <2> HIDE DEF G, f, found1
  <2>4. G(f, q2.rest) = G(found1, t2)
    BY <1>9, <2>2, Zenon DEF f
  <2>5. QED
    BY <2>3, <2>4, Zenon DEF G
<1>13. found1 = IF key \in DOMAIN m.events THEN Found(m.events[key]) ELSE NotFound("EventNotFound")
  BY <1>4, Zenon DEF event, Lookup
<1> HIDE DEF found1
<1>14. ASSUME key \notin DOMAIN m.events
       PROVE  EventDetails(m, bytes, start, ix) = NotFound("EventNotFound")
  <2>1. found1 = NotFound("EventNotFound")
    BY <1>13, <1>14, Zenon
  <2>2. found1.err # ""
    <3>1. NotFound("EventNotFound").err # ""
      BY DEF NotFound
    <3>2. QED
      BY <2>1, <3>1, Zenon
  <2>3. QED
    BY <1>10, <1>12, <2>1, <2>2, Zenon DEF AndThen
<1>15. ASSUME key \in DOMAIN m.events,
              DecodeFields(t2, m.events[key].tys) = Read(e.vals, t3)
       PROVE  EventDetails(m, bytes, start, ix) = Rec(e.phase, t2, t3, t)
  <2>1. found1 = Found(m.events[key])
    BY <1>13, <1>15, Zenon
  <2>2. found1.err = "" /\ found1.val = m.events[key]
    <3>1. Found(m.events[key]).err = "" /\ Found(m.events[key]).val = m.events[key]
      BY DEF Found
    <3>2. QED
      BY <2>1, <3>1, Zenon
  <2>3. F1(e.phase, t1) = F2(e.phase, t2, m.events[key])
    BY <1>12, <2>2, Zenon DEF AndThen
  <2> DEFINE q3 == DecodeFields(t2, m.events[key].tys)
  <2>4. q3.err = "" /\ q3.val = e.vals /\ q3.rest = t3
    <3>1. Read(e.vals, t3).err = "" /\ Read(e.vals, t3).val = e.vals /\ Read(e.vals, t3).rest = t3
      BY ReadIs
    <3>2. QED
      BY <1>15, <3>1
  <2>5. F2(e.phase, t2, m.events[key]) = Then(q3, LAMBDA fields, x3 : F3(e.phase, t2, x3))
    BY Zenon DEF F2
  <2> HIDE DEF q3
  <2>6. F2(e.phase, t2, m.events[key]) = F3(e.phase, t2, t3)
    BY <2>4, <2>5, Zenon DEF Then
  <2>7. q4.err = "" /\ q4.rest = t
    <3> DEFINE z == Zeros(HashBytes * e.topics)
    <3>1. Read(z, t).err = "" /\ Read(z, t).rest = t
      BY ReadIs
    <3>2. QED
      BY <1>2, <3>1
  <2>8. F3(e.phase, t2, t3) = Then(q4, LAMBDA topics, x4 : Rec(e.phase, t2, t3, x4))
    BY Zenon DEF F3
  <2> HIDE DEF q4
  <2>9. F3(e.phase, t2, t3) = Rec(e.phase, t2, t3, t)
    BY <2>7, <2>8, Zenon DEF Then
  <2>10. QED
    BY <1>10, <2>3, <2>6, <2>9, Zenon
<1>16. QED
  BY <1>14, <1>15, Zenon DEF DetailsAre, Rec, key, t2, t3

\* The places that it notes lead back to the parts of the event.
LeadBack(raw, e, t, bytes, fs, fe) ==
  /\ bytes[fs - 1] = EventKey(raw, e.at)[1] /\ bytes[fs] = EventKey(raw, e.at)[2]
  /\ SubSeq(bytes, fs + 1, fe) = e.fields
  /\ Len(bytes) - Len(t) \in 0..Len(bytes)
  /\ SubSeq(bytes, Len(bytes) - Len(t) + 1, Len(bytes)) = t

\* The places that it notes lead field_bytes to exactly the bytes of the fields,
\* pallet_index and variant_index to the pair of bytes, and the iterator to the next event.
THEOREM PlacesLeadBack ==
  ASSUME NEW raw \in Metadatas, NEW e, IsWritable(raw, e),
         NEW t \in Seq(Byte), NEW bytes \in Seq(Byte), NEW start \in 0..Len(bytes),
         SubSeq(bytes, start + 1, Len(bytes)) = EventBytes(raw, e) \o t,
         NEW fs, fs = Len(bytes) - Len(e.fields \o (TopicBytes(e.topics) \o t)),
         NEW fe, fe = Len(bytes) - Len(TopicBytes(e.topics) \o t)
  PROVE  LeadBack(raw, e, t, bytes, fs, fe)
<1> DEFINE L == Len(bytes)
           a == PhaseBytes(e.phase)
           key == EventKey(raw, e.at)
           c == e.fields
           d == TopicBytes(e.topics)
           t3 == d \o t
           t2 == c \o t3
           t1 == key \o t2
           p1 == start + Len(a)
           p2 == p1 + 2
           p3 == p2 + Len(c)
           p4 == p3 + Len(d)
<1>1. /\ a \in Seq(Byte) /\ d \in Seq(Byte) /\ c \in Seq(Byte) /\ key \in Seq(Byte) /\ Len(key) = 2
  <2>1. <<>> \in Seq(Byte)
    OBVIOUS
  <2>2. QED
    BY <2>1, PhaseIsRead, TopicsAreRead, KeysAreTwoBytes, Zenon DEF IsWritable
<1>2. SubSeq(bytes, start + 1, L) = a \o t1
  <2>1. EventBytes(raw, e) \o t = PhaseBytes(e.phase) \o (EventKey(raw, e.at) \o (e.fields \o (TopicBytes(e.topics) \o t)))
    <3>1. \A u \in Seq(Byte) :
            EventBytes(raw, e) \o u =
              PhaseBytes(e.phase) \o (EventKey(raw, e.at) \o (e.fields \o (TopicBytes(e.topics) \o u)))
      BY EventBytesAre, Zenon
    <3>2. QED
      BY <3>1, Zenon
  <2>2. QED
    BY <2>1, Zenon
<1> HIDE DEF a, key, c, d
<1>3. t3 \in Seq(Byte)
  BY <1>1, Concatenated
<1> HIDE DEF t3
<1>4. t2 \in Seq(Byte)
  BY <1>1, <1>3, Concatenated
<1> HIDE DEF t2
<1>5. t1 \in Seq(Byte)
  BY <1>1, <1>4, Concatenated
<1> HIDE DEF t1
<1>6. L \in Nat /\ start \in Nat /\ Len(a) \in Nat /\ Len(c) \in Nat /\ Len(d) \in Nat
  BY <1>1, SequenceFacts
<1> DEFINE IsBehind(p, x, y) ==
             /\ p + Len(x) \in 0..L /\ p + Len(x) = L - Len(y)
             /\ SubSeq(bytes, p + Len(x) + 1, L) = y
             /\ SubSeq(bytes, p + 1, p + Len(x)) = x
             /\ \A i \in 1..Len(x) : bytes[p + i] = x[i]
<1>0. ASSUME NEW p \in 0..L, NEW x \in Seq(Byte), NEW y \in Seq(Byte), SubSeq(bytes, p + 1, L) = x \o y
      PROVE  IsBehind(p, x, y)
  BY <1>0, Behind, Zenon
<1>7. /\ p1 \in 0..L /\ p1 = L - Len(t1)
      /\ SubSeq(bytes, p1 + 1, L) = t1
  <2>1. IsBehind(start, a, t1)
    <3> HIDE DEF L, IsBehind
    <3>1. start \in 0..L
      BY DEF L
    <3>2. QED
      BY <1>0, <1>1, <1>2, <1>5, <3>1, Zenon
  <2>2. QED
    BY <2>1, Zenon
<1> HIDE DEF p1
<1>8. /\ p2 \in 0..L /\ p2 = L - Len(t2)
      /\ SubSeq(bytes, p2 + 1, L) = t2
      /\ bytes[p1 + 1] = key[1] /\ bytes[p1 + 2] = key[2]
  <2>1. t1 = key \o t2
    BY Zenon DEF t1
  <2>2. /\ p1 + Len(key) \in 0..L /\ p1 + Len(key) = L - Len(t2)
        /\ SubSeq(bytes, p1 + Len(key) + 1, L) = t2
        /\ \A i \in 1..Len(key) : bytes[p1 + i] = key[i]
    <3>1. IsBehind(p1, key, t2)
      <4> HIDE DEF L, IsBehind
      <4>1. QED
        BY <1>0, <1>1, <1>4, <1>7, <2>1, Zenon
    <3>2. QED
      BY <3>1, Zenon
  <2>3. 1 \in 1..Len(key) /\ 2 \in 1..Len(key)
    BY <1>1
  <2>4. QED
    BY <1>1, <2>2, <2>3
<1> DEFINE q == p2
<1>9. q - 1 = p1 + 1 /\ q = p1 + 2 /\ p1 \in Nat
  BY <1>6, <1>7
<1> HIDE DEF p2
<1>10. /\ p3 \in 0..L /\ p3 = L - Len(t3)
       /\ SubSeq(bytes, p3 + 1, L) = t3
       /\ SubSeq(bytes, p2 + 1, p3) = c
  <2>1. t2 = c \o t3
    BY Zenon DEF t2
  <2>2. QED
    <3>1. IsBehind(p2, c, t3)
      <4> HIDE DEF L, IsBehind
      <4>1. QED
        BY <1>0, <1>1, <1>3, <1>8, <2>1, Zenon
    <3>2. QED
      BY <3>1, Zenon DEF p3
<1> HIDE DEF p3
<1>11. /\ p4 \in 0..L /\ p4 = L - Len(t)
       /\ SubSeq(bytes, p4 + 1, L) = t
  <2>1. t3 = d \o t
    BY Zenon DEF t3
  <2>2. QED
    <3>1. IsBehind(p3, d, t)
      <4> HIDE DEF L, IsBehind
      <4>1. QED
        BY <1>0, <1>1, <1>10, <2>1, Zenon
    <3>2. QED
      BY <3>1, Zenon DEF p4
<1> HIDE DEF p4
<1>12. fs = p2 /\ fe = p3
  <2>1. fs = L - Len(t2) /\ fe = L - Len(t3)
    BY Zenon DEF t2, t3, c, d
  <2>2. QED
    BY <1>8, <1>10, <2>1
<1>13. bytes[p2 - 1] = key[1] /\ bytes[p2] = key[2]
  BY <1>8, <1>9
<1>14. QED
  BY <1>10, <1>11, <1>12, <1>13, Zenon DEF LeadBack, L, key, c

-----------------------------------------------------------------------------
(* The state of a reading.                                                 *)

\* The runtime, the client's metadata, the block and the static type stay as they are.
Exchanged ==
  /\ maker \in DOMAIN RawMetadata /\ held \in Holders[maker]
  /\ events \in EventBlocks[maker] /\ sought \in StaticEvents

\* The bytes of the events behind the first i.
Left(i) == LastEvents(made, events)[Len(events) - i]

\* ev is what EventDetails makes of the i-th event of the block.
IsRead(i, ev) ==
  /\ ev.err = "" /\ ev.index = i - 1 /\ ev.phase = events[i].phase
  /\ event_metadata(api, wire, ev) = EventEntry(made, events[i].at)
  /\ field_bytes(wire, ev) = events[i].fields

\* The metadata of both sides is that of runtimes.
LEMMA MetadataOfExchange ==
  ASSUME Exchanged
  PROVE  /\ maker \in DOMAIN RawMetadata /\ made = RawMetadata[maker]
         /\ held \in DOMAIN RawMetadata /\ hold = RawMetadata[held] /\ api = MetadataFrom(hold)
<1>1. Holders[maker] \subseteq DOMAIN RawMetadata
  BY CompatibleAssumption, Zenon DEF Exchanged
<1>2. held \in DOMAIN RawMetadata
  BY <1>1 DEF Exchanged
<1>3. api = MetadataFrom(RawMetadata[held])
  BY <1>2 DEF api, Tables
<1>4. QED
  BY <1>2, <1>3 DEF Exchanged, made, hold

\* The client's metadata has an event exactly if its table does, and has it right.
LEMMA KnownEvents ==
  ASSUME Exchanged, NEW e, e.at \in EventPlaces(made)
  PROVE  /\ KnownEvent(e) <=> EventKey(made, e.at) \in DOMAIN api.events
         /\ KnownEvent(e) => api.events[EventKey(made, e.at)] = EventEntry(made, e.at)
<1> DEFINE key == EventKey(made, e.at)
<1>1. /\ \A k : k \in DOMAIN api.events <=> \E at \in EventPlaces(hold) : EventKey(hold, at) = k
      /\ \A k \in DOMAIN api.events :
           \E at \in EventPlaces(hold) : EventKey(hold, at) = k /\ api.events[k] = EventEntry(hold, at)
  <2> DEFINE raw == hold
             m == api
  <2>1. held \in DOMAIN RawMetadata /\ raw = RawMetadata[held] /\ m = MetadataFrom(raw)
    BY MetadataOfExchange, Zenon
  <2> HIDE DEF raw, m
  <2>2. /\ \A k : k \in DOMAIN m.events <=> \E at \in EventPlaces(raw) : EventKey(raw, at) = k
        /\ \A k \in DOMAIN m.events :
             \E at \in EventPlaces(raw) : EventKey(raw, at) = k /\ m.events[k] = EventEntry(raw, at)
    BY <2>1, EventTable
  <2>3. QED
    BY <2>2, Zenon DEF raw, m
<1>2. KnownEvent(e) <=> key \in DOMAIN api.events
  BY <1>1, Zenon DEF KnownEvent
<1>3. ASSUME key \in DOMAIN api.events PROVE api.events[key] = EventEntry(made, e.at)
  <2>1. PICK at \in EventPlaces(hold) : EventKey(hold, at) = key /\ api.events[key] = EventEntry(hold, at)
    BY <1>1, <1>3, Zenon
  <2>2. \A x \in EventPlaces(made), place \in EventPlaces(hold) :
             EventKey(made, x) = EventKey(hold, place) =>
               /\ PalletAt(made, x).name = PalletAt(hold, place).name
               /\ EventAt(made, x) = EventAt(hold, place)
    BY CompatibleAssumption, Zenon DEF Exchanged, made, hold
  <2>3. /\ PalletAt(made, e.at).name = PalletAt(hold, at).name
        /\ EventAt(made, e.at) = EventAt(hold, at)
    BY <2>1, <2>2, Zenon
  <2>4. EventEntry(hold, at) = EventEntry(made, e.at)
    BY <2>3, Zenon DEF EventEntry
  <2>5. QED
    BY <2>1, <2>4, Zenon
<1>4. QED
  BY <1>2, <1>3, Zenon

\* The block of the exchange can be written.
LEMMA BlockOfExchange ==
  ASSUME Exchanged
  PROVE  /\ Len(events) \in Nat /\ IsU32(Len(events)) /\ DOMAIN events = 1..Len(events)
         /\ \A k \in 1..Len(events) :
              /\ IsWritable(made, events[k])
              /\ \A rest \in {<<>>, TopicBytes(events[k].topics) \o Left(k)} :
                   DecodeFields(events[k].fields \o rest, EventAt(made, events[k].at).tys)
                     = Read(events[k].vals, rest)
         /\ Left(Len(events)) = <<>>
         /\ \A k \in 0..Len(events) : Left(k) \in Seq(Byte)
         /\ \A k \in 1..Len(events) :
              Left(k - 1) = EventBytes(made, events[k]) \o Left(k)
<1> DEFINE L == Len(events)
           last == LastEvents(made, events)
<1>1. events \in EventBlocks[maker] /\ maker \in DOMAIN RawMetadata /\ made = RawMetadata[maker]
  BY DEF Exchanged, made
<1>2. L \in Nat /\ IsU32(L) /\ DOMAIN events = 1..L /\ \A k \in 1..L : IsWritable(made, events[k])
  BY <1>1, BlockIs, Zenon
<1>3. /\ \A n \in 0..L : last[n] \in Seq(Byte)
      /\ last[0] = <<>>
      /\ \A n \in 0..L : n # 0 => last[n] = EventBytes(made, events[L - n + 1]) \o last[n - 1]
  BY <1>1, LastEventsAre, Zenon
<1>4. \A k \in 1..L : \A rest \in {<<>>, TopicBytes(events[k].topics) \o last[L - k]} :
        DecodeFields(events[k].fields \o rest, EventAt(made, events[k].at).tys) = Read(events[k].vals, rest)
  BY <1>1, <1>2, DecodeAssumption, Zenon
<1> HIDE DEF L, last
<1>5. /\ \A k \in 0..L : L - k \in 0..L
      /\ \A k \in 1..L : /\ L - (k - 1) \in 0..L /\ L - (k - 1) # 0
                         /\ L - (L - (k - 1)) + 1 = k /\ (L - (k - 1)) - 1 = L - k
      /\ L - L = 0
  BY <1>2
<1>6. \A k : Left(k) = last[L - k]
  BY DEF Left, last, L
<1>7. Left(L) = <<>> /\ \A k \in 0..L : Left(k) \in Seq(Byte)
  BY <1>3, <1>5, <1>6
<1>8. \A k \in 1..L : Left(k - 1) = EventBytes(made, events[k]) \o Left(k)
  <2> SUFFICES ASSUME NEW k \in 1..L PROVE Left(k - 1) = EventBytes(made, events[k]) \o Left(k)
    OBVIOUS
  <2>1. last[L - (k - 1)] = EventBytes(made, events[L - (L - (k - 1)) + 1]) \o last[(L - (k - 1)) - 1]
    BY <1>3, <1>5, Zenon
  <2>2. QED
    BY <1>5, <1>6, <2>1, Zenon
<1>9. QED
  BY <1>2, <1>4, <1>6, <1>7, <1>8, Zenon DEF L

\* One call of the iterator's closure, at the bytes of event i.
LEMMA ReadAtEvent ==
  ASSUME Exchanged, wire \in Seq(Byte), NEW start \in 0..Len(wire), NEW i \in 1..Len(events),
         SubSeq(wire, start + 1, Len(wire)) = Left(i - 1),
         NEW item, item = EventDetails(api, wire, start, i - 1)
  PROVE  /\ ~KnownEvent(events[i]) => item = NotFound("EventNotFound")
         /\ KnownEvent(events[i]) =>
              /\ IsRead(i, item)
              /\ start + (item.end - item.start) \in 0..Len(wire)
              /\ SubSeq(wire, start + (item.end - item.start) + 1, Len(wire)) = Left(i)
<1> DEFINE e == events[i]
           raw == made
           m == api
           bytes == wire
           ix == i - 1
           t == Left(i)
           key == EventKey(raw, e.at)
           behind == TopicBytes(e.topics) \o t
           fs == Len(bytes) - Len(e.fields \o behind)
           fe == Len(bytes) - Len(behind)
           Rec == [err |-> "", phase |-> e.phase, index |-> ix, start |-> start,
                   fields_start |-> fs, fields_end |-> fe, end |-> Len(bytes) - Len(t)]
<1>1. raw \in Metadatas
  BY MetadataOfExchange DEF Metadatas
<1>2. Len(events) \in Nat
  BY BlockOfExchange
<1>3. IsWritable(raw, e) /\ t \in Seq(Byte) /\ Left(ix) = EventBytes(raw, e) \o t
  <2>1. i \in 0..Len(events)
    BY <1>2
  <2>2. QED
    BY <2>1, BlockOfExchange, Zenon
<1>4. DecodeFields(e.fields \o behind, EventAt(raw, e.at).tys) = Read(e.vals, behind)
  BY BlockOfExchange, Zenon
<1>5. e.at \in EventPlaces(raw)
  BY <1>3 DEF IsWritable
<1>6. /\ KnownEvent(e) <=> key \in DOMAIN m.events
      /\ KnownEvent(e) => m.events[key] = EventEntry(raw, e.at)
  BY <1>5, KnownEvents, Zenon
<1>7. SubSeq(bytes, start + 1, Len(bytes)) = EventBytes(raw, e) \o t
  BY <1>3, Zenon
<1>8. item = EventDetails(m, bytes, start, ix) /\ bytes \in Seq(Byte) /\ start \in 0..Len(bytes)
  OBVIOUS
<1> HIDE DEF e, raw, m, bytes, ix, t
<1>15. fs = Len(bytes) - Len(e.fields \o behind) /\ fe = Len(bytes) - Len(behind)
  OBVIOUS
<1>9. /\ key \notin DOMAIN m.events => item = NotFound("EventNotFound")
      /\ key \in DOMAIN m.events /\ DecodeFields(e.fields \o behind, m.events[key].tys) = Read(e.vals, behind)
         => item = Rec
  <2>1. /\ key \notin DOMAIN m.events => EventDetails(m, bytes, start, ix) = NotFound("EventNotFound")
        /\ key \in DOMAIN m.events /\ DecodeFields(e.fields \o behind, m.events[key].tys) = Read(e.vals, behind)
           => EventDetails(m, bytes, start, ix) = Rec
    <3>1. DetailsAre(raw, e, t, m, bytes, start, ix)
      BY <1>1, <1>3, <1>7, EventDetailsAre
    <3>2. QED
      BY <3>1, Zenon DEF DetailsAre
  <2>2. QED
    BY <1>8, <2>1, Zenon
<1>10. /\ bytes[fs - 1] = key[1] /\ bytes[fs] = key[2]
       /\ SubSeq(bytes, fs + 1, fe) = e.fields
       /\ Len(bytes) - Len(t) \in 0..Len(bytes)
       /\ SubSeq(bytes, Len(bytes) - Len(t) + 1, Len(bytes)) = t
  <2> HIDE DEF fs, fe
  <2>1. LeadBack(raw, e, t, bytes, fs, fe)
    BY <1>1, <1>3, <1>7, <1>8, <1>15, PlacesLeadBack
  <2>2. QED
    BY <2>1, Zenon DEF LeadBack, key
<1>11. <<key[1], key[2]>> = key
  BY <1>1, <1>5, KeysAreTwoBytes, Zenon
<1> HIDE DEF key, behind, fs, fe
<1>12. ASSUME KnownEvent(e)
       PROVE  /\ IsRead(i, item)
              /\ start + (item.end - item.start) \in 0..Len(bytes)
              /\ SubSeq(bytes, start + (item.end - item.start) + 1, Len(bytes)) = t
  <2>1. m.events[key].tys = EventAt(raw, e.at).tys
    <3>1. EventEntry(raw, e.at).tys = EventAt(raw, e.at).tys
      BY DEF EventEntry
    <3>2. QED
      BY <1>6, <1>12, <3>1, Zenon
  <2>2. item = Rec
    BY <1>4, <1>6, <1>9, <1>12, <2>1, Zenon
  <2>3. /\ item.err = "" /\ item.phase = e.phase /\ item.index = ix /\ item.start = start
        /\ item.fields_start = fs /\ item.fields_end = fe /\ item.end = Len(bytes) - Len(t)
    <3> DEFINE en == Len(bytes) - Len(t)
               phase1 == e.phase
    <3> HIDE DEF en, phase1
    <3>1. item = [err |-> "", phase |-> phase1, index |-> ix, start |-> start,
                  fields_start |-> fs, fields_end |-> fe, end |-> en]
      BY <2>2, Zenon DEF en, phase1
    <3> DEFINE x == [err |-> "", phase |-> phase1, index |-> ix, start |-> start,
                     fields_start |-> fs, fields_end |-> fe, end |-> en]
    <3>2. /\ x.err = "" /\ x.phase = phase1 /\ x.index = ix /\ x.start = start
          /\ x.fields_start = fs /\ x.fields_end = fe /\ x.end = en
      OBVIOUS
    <3> HIDE DEF x
    <3>3. item = x
      BY <3>1, Zenon DEF x
    <3>4. QED
      BY <3>2, <3>3, Zenon DEF en, phase1
  <2>4. field_bytes(bytes, item) = e.fields
    BY <1>10, <2>3, Zenon DEF field_bytes
  <2>5. event_metadata(m, bytes, item) = EventEntry(raw, e.at)
    <3>1. event_metadata(m, bytes, item) = event(m, key[1], key[2]).val
      BY <1>10, <2>3, Zenon DEF event_metadata
    <3>2. event(m, key[1], key[2]) = Found(m.events[key])
      BY <1>6, <1>11, <1>12, Zenon DEF event, Lookup
    <3>3. Found(m.events[key]).val = m.events[key]
      BY DEF Found
    <3>4. QED
      BY <1>6, <1>12, <3>1, <3>2, <3>3, Zenon
  <2>6. IsRead(i, item)
    BY <2>3, <2>4, <2>5, Zenon DEF IsRead, e, raw, m, bytes, ix
  <2>7. start + (item.end - item.start) = Len(bytes) - Len(t)
    <3>1. start \in Nat /\ Len(bytes) - Len(t) \in Int
      BY <1>8, <1>10
    <3> DEFINE en == Len(bytes) - Len(t)
    <3>2. item.start = start /\ item.end = en
      BY <2>3
    <3> HIDE DEF en
    <3>3. start + (en - start) = en
      BY <3>1 DEF en
    <3>4. QED
      BY <3>2, <3>3, Zenon DEF en
  <2>8. QED
    BY <1>10, <2>6, <2>7, Zenon
<1>13. QED
  BY <1>6, <1>9, <1>12, Zenon DEF e, bytes, t

\* What the event then says of itself.
LEMMA ReadEventIs ==
  ASSUME Exchanged, NEW i \in 1..Len(events), NEW ev, IsRead(i, ev)
  PROVE  /\ IsEvent(i, ev)
         /\ FoundIn(api, wire, ev, sought) =
              IF IsNamedAs(made, events[i].at, sought) THEN <<[err |-> "", val |-> events[i].vals]>>
              ELSE <<>>
<1> DEFINE e == events[i]
           entry == EventEntry(made, e.at)
           declared == EventAt(made, e.at)
           name == PalletAt(made, e.at).name
           decoded == DecodeFields(e.fields, declared.tys)
<1>1. e.at \in EventPlaces(made) /\ e.fields \in Seq(Byte)
  BY BlockOfExchange, Zenon DEF IsWritable
<1>2. decoded = Read(e.vals, <<>>)
  <2>1. DecodeFields(e.fields \o <<>>, declared.tys) = Read(e.vals, <<>>)
    BY BlockOfExchange, Zenon
  <2>2. e.fields \o <<>> = e.fields
    BY <1>1
  <2>3. QED
    BY <2>1, <2>2, Zenon
<1>3. event_metadata(api, wire, ev) = entry /\ field_bytes(wire, ev) = e.fields /\ ev.err = ""
  BY Zenon DEF IsRead
<1>4. entry.pallet = name /\ entry.event = declared.name /\ entry.names = declared.names /\ entry.tys = declared.tys
  BY DEF EventEntry
<1>5. decoded.err = "" /\ decoded.val = e.vals /\ decoded.rest = <<>>
  <2>1. Read(e.vals, <<>>).err = "" /\ Read(e.vals, <<>>).val = e.vals /\ Read(e.vals, <<>>).rest = <<>>
    BY ReadIs
  <2>2. QED
    BY <1>2, <2>1, Zenon
<1> DEFINE decoded2 == DecodeFields(field_bytes(wire, ev), event_metadata(api, wire, ev).tys)
<1>6. decoded2 = decoded
  BY <1>3, <1>4, Zenon
<1>7. field_values(api, wire, ev) =
        IF decoded2.err = ""
        THEN Read([names |-> event_metadata(api, wire, ev).names, vals |-> decoded2.val], decoded2.rest)
        ELSE decoded2
  BY Zenon DEF field_values, AsValue
<1> HIDE DEF decoded, decoded2
<1>8. field_values(api, wire, ev) = Read([names |-> declared.names, vals |-> e.vals], <<>>)
  BY <1>3, <1>4, <1>5, <1>6, <1>7, Zenon
<1>9. IsEvent(i, ev)
  BY <1>3, <1>8, Zenon DEF IsEvent, IsRead, EventEntry
<1> DEFINE named == name = sought.pallet /\ declared.name = sought.event
           option == as_event(api, wire, ev, sought)
           found1 == [err |-> "", val |-> e.vals]
<1>10. named => sought.tys = declared.tys
  BY <1>1, StaticEventsAssumption, Zenon DEF Exchanged, made, IsNamedAs
<1>11. option = IF event_metadata(api, wire, ev).pallet = sought.pallet /\ event_metadata(api, wire, ev).event = sought.event
                THEN AsValue(DecodeFields(field_bytes(wire, ev), sought.tys), LAMBDA vals : <<vals>>)
                ELSE Read(<<>>, <<>>)
  BY Zenon DEF as_event
<1>12. FoundIn(api, wire, ev, sought) =
         IF option.err # "" THEN <<option>>
         ELSE IF option.val = <<>> THEN <<>> ELSE <<[err |-> "", val |-> option.val[1]]>>
  BY <1>3, Zenon DEF FoundIn
<1> HIDE DEF option
<1>13. ASSUME named PROVE FoundIn(api, wire, ev, sought) = <<found1>>
  <2>1. DecodeFields(field_bytes(wire, ev), sought.tys) = decoded
    BY <1>3, <1>10, <1>13, Zenon DEF decoded
  <2>2. option = AsValue(decoded, LAMBDA vals : <<vals>>)
    BY <1>3, <1>4, <1>11, <1>13, <2>1, Zenon
  <2>3. option = Read(<<e.vals>>, <<>>)
    BY <1>5, <2>2, Zenon DEF AsValue
  <2>4. option.err = "" /\ option.val = <<e.vals>>
    <3>1. Read(<<e.vals>>, <<>>).err = "" /\ Read(<<e.vals>>, <<>>).val = <<e.vals>>
      BY ReadIs
    <3>2. QED
      BY <2>3, <3>1, Zenon
  <2>5. \A x : <<x>> # <<>> /\ <<x>>[1] = x
    OBVIOUS
  <2>6. option.val # <<>> /\ option.val[1] = e.vals
    BY <2>4, <2>5, Zenon
  <2>7. QED
    BY <1>12, <2>4, <2>6, Zenon
<1>14. ASSUME ~named PROVE FoundIn(api, wire, ev, sought) = <<>>
  <2>1. option = Read(<<>>, <<>>)
    BY <1>3, <1>4, <1>11, <1>14, Zenon
  <2>2. option.err = "" /\ option.val = <<>>
    <3>1. Read(<<>>, <<>>).err = "" /\ Read(<<>>, <<>>).val = <<>>
      BY ReadIs
    <3>2. QED
      BY <2>1, <3>1, Zenon
  <2>3. QED
    BY <1>12, <2>2, Zenon
<1>15. QED
  BY <1>9, <1>13, <1>14, Zenon DEF IsNamedAs

LEMMA IsOfItsElements ==
  ASSUME NEW T, NEW s \in Seq(T)
  PROVE  IsASeq(s)
<1> DEFINE U == {s[i] : i \in DOMAIN s}
<1>1. Len(s) \in Nat /\ DOMAIN s = 1..Len(s) /\ s \in [1..Len(s) -> T]
  OBVIOUS
<1>2. \A i \in 1..Len(s) : s[i] \in U
  BY <1>1
<1> HIDE DEF U
<1>3. s \in [1..Len(s) -> U]
  BY <1>1, <1>2
<1>4. s \in Seq(U)
  BY <1>1, <1>3, Listed
<1>5. QED
  BY <1>4, Zenon DEF IsASeq, U

\* One more element, whatever it is.
LEMMA OneMore ==
  ASSUME NEW s, IsASeq(s), NEW x
  PROVE  /\ Len(s) \in Nat /\ IsASeq(Append(s, x)) /\ Len(Append(s, x)) = Len(s) + 1
         /\ \A i \in 1..Len(s) : Append(s, x)[i] = s[i]
         /\ Append(s, x)[Len(s) + 1] = x
         /\ s \o <<>> = s /\ s \o <<x>> = Append(s, x)
<1> DEFINE U == {s[i] : i \in DOMAIN s}
           T == U \cup {x}
<1>1. s \in Seq(U)
  BY DEF IsASeq
<1> HIDE DEF U
<1>2. s \in Seq(T)
  BY <1>1
<1>3. x \in T
  OBVIOUS
<1> HIDE DEF T
<1>4. /\ Append(s, x) \in Seq(T) /\ Len(Append(s, x)) = Len(s) + 1 /\ Len(s) \in Nat
      /\ \A i \in 1..Len(s) : Append(s, x)[i] = s[i]
      /\ Append(s, x)[Len(s) + 1] = x
  BY <1>2, <1>3
<1>5. s \o <<>> = s
  BY <1>2
<1>6. s \o <<x>> = Append(s, x)
  <2>1. <<x>> \in Seq(T)
    BY <1>3
  <2>2. QED
    BY <1>2, <1>3, <2>1
<1>7. IsASeq(Append(s, x))
  BY <1>4, IsOfItsElements
<1>8. QED
  BY <1>4, <1>5, <1>6, <1>7

\* Counting a set of numbers, one number after another.
LEMMA Counting ==
  ASSUME NEW S, NEW n \in Nat
  PROVE  LET upto(k) == {i \in 1..k : i \in S}
         IN  /\ Cardinality(upto(n)) \in Nat
             /\ Cardinality(upto(n + 1)) = Cardinality(upto(n)) + (IF n + 1 \in S THEN 1 ELSE 0)
             /\ \A i \in upto(n) : Cardinality(upto(i)) \in 1..Cardinality(upto(n))
<1> DEFINE upto(k) == {i \in 1..k : i \in S}
<1>1. ASSUME NEW k \in Nat PROVE IsFiniteSet(upto(k)) /\ Cardinality(upto(k)) \in Nat
  <2>1. IsFiniteSet(1..k)
    BY FS_Interval
  <2>2. upto(k) \subseteq 1..k
    OBVIOUS
  <2>3. IsFiniteSet(upto(k))
    BY <2>1, <2>2, FS_Subset
  <2>4. QED
    BY <2>3, FS_CardinalityType
<1>2. Cardinality(upto(n + 1)) = Cardinality(upto(n)) + (IF n + 1 \in S THEN 1 ELSE 0)
  <2>1. CASE n + 1 \in S
    <3>1. upto(n + 1) = upto(n) \cup {n + 1}
      BY <2>1
    <3>2. n + 1 \notin upto(n)
      OBVIOUS
    <3>3. Cardinality(upto(n) \cup {n + 1}) = Cardinality(upto(n)) + 1
      <4> DEFINE u == upto(n)
                 x == n + 1
      <4>1. IsFiniteSet(u) /\ x \notin u
        BY <1>1, <3>2
      <4> HIDE DEF u, x
      <4>2. Cardinality(u \cup {x}) = Cardinality(u) + 1
        BY <4>1, FS_AddElement
      <4>3. QED
        BY <4>2, Zenon DEF u, x
    <3>4. QED
      BY <2>1, <3>1, <3>3
  <2>2. CASE n + 1 \notin S
    <3>1. upto(n + 1) = upto(n)
      BY <2>2
    <3>2. Cardinality(upto(n)) \in Nat
      BY <1>1
    <3> HIDE DEF upto
    <3>3. QED
      BY <2>2, <3>1, <3>2
  <2>3. QED
    BY <2>1, <2>2
<1>3. ASSUME NEW i \in upto(n) PROVE Cardinality(upto(i)) \in 1..Cardinality(upto(n))
  <2>1. i \in 1..n /\ i \in Nat /\ i \in upto(i) /\ upto(i) \subseteq upto(n)
    OBVIOUS
  <2> HIDE DEF upto
  <2>2. IsFiniteSet(upto(i)) /\ IsFiniteSet(upto(n)) /\ Cardinality(upto(i)) \in Nat /\ Cardinality(upto(n)) \in Nat
    BY <1>1, <2>1
  <2>3. Cardinality(upto(i)) <= Cardinality(upto(n))
    BY <2>1, <2>2, FS_Subset
  <2>4. Cardinality(upto(i)) # 0
    <3>1. upto(i) # {}
      BY <2>1
    <3>2. QED
      BY <2>2, <3>1, FS_EmptySet
  <2>5. QED
    BY <2>2, <2>3, <2>4
<1>4. QED
  BY <1>1, <1>2, <1>3

\* The matches among one event more.
LEMMA MatchesAre ==
  ASSUME NEW n \in Nat
  PROVE  LET isMatch == Legible(n + 1) /\ IsNamedAs(made, events[n + 1].at, sought)
         IN  /\ Cardinality(Matches(n)) \in Nat
             /\ Cardinality(Matches(n + 1)) = Cardinality(Matches(n)) + (IF isMatch THEN 1 ELSE 0)
             /\ \A i \in Matches(n) : Cardinality(Matches(i)) \in 1..Cardinality(Matches(n))
             /\ \A i \in Matches(n + 1) : i \in Matches(n) \/ (i = n + 1 /\ isMatch)
<1> DEFINE Is(i) == Legible(i) /\ IsNamedAs(made, events[i].at, sought)
           S == {i \in Nat : Is(i)}
           upto(k) == {i \in 1..k : i \in S}
<1>1. ASSUME NEW k PROVE Matches(k) = upto(k)
  <2> HIDE DEF Is
  <2>1. Matches(k) = {i \in 1..k : Is(i)}
    BY Zenon DEF Matches, Is
  <2>2. {i \in 1..k : Is(i)} = upto(k)
    OBVIOUS
  <2>3. QED
    BY <2>1, <2>2, Zenon
<1>2. n + 1 \in S <=> Is(n + 1)
  <2> HIDE DEF Is
  <2>1. QED
    OBVIOUS
<1>3. \A i \in upto(n + 1) : i \in upto(n) \/ (i = n + 1 /\ i \in S)
  <2> HIDE DEF S
  <2>1. QED
    OBVIOUS
<1> HIDE DEF S
<1>4. /\ Cardinality(upto(n)) \in Nat
      /\ Cardinality(upto(n + 1)) = Cardinality(upto(n)) + (IF n + 1 \in S THEN 1 ELSE 0)
      /\ \A i \in upto(n) : Cardinality(upto(i)) \in 1..Cardinality(upto(n))
  BY Counting
<1> HIDE DEF upto, Is
<1>5. QED
  BY <1>1, <1>2, <1>3, <1>4, Zenon DEF Is

\* The iterator at p, ix has given g: the first events, or these and the error.
ReadSoFar(g, p, ix) ==
  /\ IsASeq(g) /\ ix \in 0..Len(events) /\ Legible(ix)
  /\ \A i \in 1..ix : IsRead(i, g[i])
  /\ \/ Len(g) = ix /\ SubSeq(wire, p + 1, Len(wire)) = Left(ix)
     \/ /\ Len(g) = ix + 1 /\ ix < Len(events) /\ ~KnownEvent(events[ix + 1])
        /\ p = Len(wire) /\ g[ix + 1].err = "EventNotFound"

\* f is what find has made of g.
FoundSoFar(g, f) ==
  /\ IsASeq(f)
  /\ Len(f) = Cardinality(Matches(Len(g))) + (IF Legible(Len(g)) THEN 0 ELSE 1)
  /\ \A i \in Matches(Len(g)) :
       f[Cardinality(Matches(i))] = [err |-> "", val |-> events[i].vals]
  /\ ~Legible(Len(g)) => f[Len(f)].err = "EventNotFound"

\* One event more is legible if it is known.
LEMMA OneMoreLegible ==
  ASSUME NEW n \in Nat, Legible(n)
  PROVE  Legible(n + 1) <=> KnownEvent(events[n + 1])
<1>1. n + 1 \in 1..(n + 1) /\ \A j \in 1..(n + 1) : j \in 1..n \/ j = n + 1
  OBVIOUS
<1>2. QED
  BY <1>1, Zenon DEF Legible

\* find takes up an event.
LEMMA FoundOneMore ==
  ASSUME Exchanged, NEW g, IsASeq(g), NEW f, FoundSoFar(g, f), Legible(Len(g)), Len(g) \in Nat,
         Len(g) + 1 \in 1..Len(events), KnownEvent(events[Len(g) + 1]),
         NEW item, IsRead(Len(g) + 1, item)
  PROVE  FoundSoFar(Append(g, item), f \o FoundIn(api, wire, item, sought))
<1> DEFINE n == Len(g)
           N == n + 1
           named == IsNamedAs(made, events[N].at, sought)
           C(i) == Cardinality(Matches(i))
           y == [err |-> "", val |-> events[N].vals]
           h == f \o FoundIn(api, wire, item, sought)
<1>1. Len(Append(g, item)) = N /\ Legible(N)
  BY OneMore, OneMoreLegible
<1>2. FoundIn(api, wire, item, sought) = IF named THEN <<y>> ELSE <<>>
  BY ReadEventIs, Zenon
<1>3. n \in Nat
  OBVIOUS
<1>4. /\ IsASeq(f) /\ Len(f) = C(n)
      /\ \A i \in Matches(n) : f[C(i)] = [err |-> "", val |-> events[i].vals]
  <2>1. /\ IsASeq(f) /\ Len(f) = C(n) + (IF Legible(n) THEN 0 ELSE 1)
        /\ \A i \in Matches(n) : f[C(i)] = [err |-> "", val |-> events[i].vals]
    BY Zenon DEF FoundSoFar
  <2>2. C(n) \in Nat
    BY MatchesAre, Zenon
  <2> HIDE DEF C
  <2>3. (IF Legible(n) THEN 0 ELSE 1) = 0 /\ \A x \in Nat : x + 0 = x
    OBVIOUS
  <2>5. Len(f) = C(n)
    BY <2>1, <2>2, <2>3, Zenon
  <2>4. QED
    BY <2>1, <2>5, Zenon
<1> HIDE DEF n
<1>5. /\ C(n) \in Nat
      /\ C(N) = C(n) + (IF named THEN 1 ELSE 0)
      /\ \A i \in Matches(n) : C(i) \in 1..C(n)
      /\ \A i \in Matches(N) : i \in Matches(n) \/ (i = N /\ named)
  BY <1>1, <1>3, MatchesAre, Zenon
<1> HIDE DEF C, y, named, N
<1>6. IsASeq(h) /\ Len(h) = C(N) /\ (\A i \in 1..C(n) : h[i] = f[i]) /\ (named => h[C(N)] = y)
  <2>1. CASE named
    <3>1. h = Append(f, y)
      BY <1>2, <1>4, <2>1, OneMore
    <3>2. C(N) = Len(f) + 1
      BY <1>4, <1>5, <2>1
    <3>3. /\ IsASeq(Append(f, y)) /\ Len(Append(f, y)) = Len(f) + 1
          /\ \A i \in 1..Len(f) : Append(f, y)[i] = f[i]
          /\ Append(f, y)[Len(f) + 1] = y
      BY <1>4, OneMore
    <3> HIDE DEF h
    <3>4. QED
      BY <1>4, <3>1, <3>2, <3>3, Zenon
  <2>2. CASE ~named
    <3>1. h = f
      BY <1>2, <1>4, <2>2, OneMore
    <3>2. C(N) = C(n)
      BY <1>5, <2>2
    <3> HIDE DEF h
    <3>3. QED
      BY <1>4, <2>2, <3>1, <3>2, Zenon
  <2>3. QED
    BY <2>1, <2>2
<1> HIDE DEF h
<1>7. \A i \in Matches(N) : h[C(i)] = [err |-> "", val |-> events[i].vals]
  <2> SUFFICES ASSUME NEW i \in Matches(N) PROVE h[C(i)] = [err |-> "", val |-> events[i].vals]
    OBVIOUS
  <2>1. CASE i \in Matches(n)
    BY <1>4, <1>5, <1>6, <2>1, Zenon
  <2>2. CASE i = N /\ named
    BY <1>6, <2>2, Zenon DEF y
  <2>3. QED
    BY <1>5, <2>1, <2>2
<1>8. Len(h) = C(N) + (IF Legible(N) THEN 0 ELSE 1)
  <2>1. C(N) \in Nat
    BY <1>5
  <2>2. QED
    BY <1>1, <1>6, <2>1
<1>9. QED
  BY <1>1, <1>6, <1>7, <1>8, Zenon DEF FoundSoFar, C, h

\* find takes up the error.
LEMMA FoundTheError ==
  ASSUME Exchanged, NEW g, IsASeq(g), NEW f, FoundSoFar(g, f), Legible(Len(g)), Len(g) \in Nat,
         ~KnownEvent(events[Len(g) + 1]), NEW item, item = NotFound("EventNotFound")
  PROVE  FoundSoFar(Append(g, item), f \o FoundIn(api, wire, item, sought))
<1> DEFINE n == Len(g)
           N == n + 1
           C(i) == Cardinality(Matches(i))
           h == f \o FoundIn(api, wire, item, sought)
<1>1. Len(Append(g, item)) = N /\ ~Legible(N)
  BY OneMore, OneMoreLegible
<1>2. item.err = "EventNotFound" /\ item.err # ""
  BY DEF NotFound
<1>3. FoundIn(api, wire, item, sought) = <<item>>
  BY <1>2, Zenon DEF FoundIn
<1>4. n \in Nat
  OBVIOUS
<1>5. /\ IsASeq(f) /\ Len(f) = C(n)
      /\ \A i \in Matches(n) : f[C(i)] = [err |-> "", val |-> events[i].vals]
  <2>1. /\ IsASeq(f) /\ Len(f) = C(n) + (IF Legible(n) THEN 0 ELSE 1)
        /\ \A i \in Matches(n) : f[C(i)] = [err |-> "", val |-> events[i].vals]
    BY Zenon DEF FoundSoFar
  <2>2. C(n) \in Nat
    BY MatchesAre, Zenon
  <2> HIDE DEF C
  <2>3. (IF Legible(n) THEN 0 ELSE 1) = 0 /\ \A x \in Nat : x + 0 = x
    OBVIOUS
  <2>5. Len(f) = C(n)
    BY <2>1, <2>2, <2>3, Zenon
  <2>4. QED
    BY <2>1, <2>5, Zenon
<1> HIDE DEF n
<1>6. /\ C(n) \in Nat
      /\ C(N) = C(n)
      /\ \A i \in Matches(n) : C(i) \in 1..C(n)
      /\ \A i \in Matches(N) : i \in Matches(n)
  <2> DEFINE isMatch == Legible(N) /\ IsNamedAs(made, events[N].at, sought)
  <2>1. /\ C(n) \in Nat
        /\ C(N) = C(n) + (IF isMatch THEN 1 ELSE 0)
        /\ \A i \in Matches(n) : C(i) \in 1..C(n)
        /\ \A i \in Matches(N) : i \in Matches(n) \/ (i = N /\ isMatch)
    BY <1>4, MatchesAre, Zenon
  <2>2. ~isMatch
    BY <1>1
  <2> HIDE DEF isMatch, C
  <2>3. \A x \in Nat : x + 0 = x
    OBVIOUS
  <2>4. C(N) = C(n) + 0
    BY <2>1, <2>2, Zenon
  <2>5. C(N) = C(n)
    BY <2>1, <2>3, <2>4, Zenon
  <2>6. QED
    BY <2>1, <2>2, <2>5, Zenon
<1> HIDE DEF C, N
<1>7. /\ IsASeq(h) /\ Len(h) = C(n) + 1 /\ (\A i \in 1..C(n) : h[i] = f[i]) /\ h[C(n) + 1] = item
  <2>1. h = Append(f, item)
    BY <1>3, <1>5, OneMore
  <2>2. /\ IsASeq(Append(f, item)) /\ Len(Append(f, item)) = Len(f) + 1
        /\ \A i \in 1..Len(f) : Append(f, item)[i] = f[i]
        /\ Append(f, item)[Len(f) + 1] = item
    BY <1>5, OneMore
  <2> HIDE DEF h
  <2>3. QED
    BY <1>5, <2>1, <2>2, Zenon
<1> HIDE DEF h
<1>8. \A i \in Matches(N) : h[C(i)] = [err |-> "", val |-> events[i].vals]
  BY <1>5, <1>6, <1>7, Zenon
<1>9. Len(h) = C(N) + (IF Legible(N) THEN 0 ELSE 1)
  BY <1>1, <1>6, <1>7
<1>10. h[Len(h)].err = "EventNotFound"
  BY <1>2, <1>7, Zenon
<1>11. QED
  BY <1>1, <1>7, <1>8, <1>9, <1>10, Zenon DEF FoundSoFar, C, h

\* What is given next is an event, behind which the iterator goes on, or the error.
GivesNext(g, f, p, ix, item) ==
  LET h == f \o FoundIn(api, wire, item, sought)
      q == p + (item.end - item.start)
  IN  /\ item.err = "" =>
           /\ q \in 0..Len(wire)
           /\ ReadSoFar(Append(g, item), q, ix + 1) /\ FoundSoFar(Append(g, item), h)
      /\ item.err # "" => ReadSoFar(Append(g, item), Len(wire), ix) /\ FoundSoFar(Append(g, item), h)

\* The iterator's closure, once.
LEMMA OneMoreItem ==
  ASSUME Exchanged, wire \in Seq(Byte), NEW g, NEW f, NEW p \in 0..Len(wire), NEW ix,
         ReadSoFar(g, p, ix), FoundSoFar(g, f), p < Len(wire), ix # Len(events),
         NEW item, item = EventDetails(api, wire, p, ix)
  PROVE  GivesNext(g, f, p, ix, item)
<1> DEFINE L == Len(events)
           q == p + (item.end - item.start)
           a == Append(g, item)
           h == f \o FoundIn(api, wire, item, sought)
<1>1. L \in Nat /\ Len(wire) \in Nat /\ p \in Nat /\ p # Len(wire) /\ ix # L
  BY BlockOfExchange
<1>2. /\ IsASeq(g) /\ ix \in 0..L /\ Legible(ix) /\ Len(g) = ix
      /\ \A i \in 1..ix : IsRead(i, g[i])
      /\ SubSeq(wire, p + 1, Len(wire)) = Left(ix)
  BY <1>1, Zenon DEF ReadSoFar
<1> HIDE DEF L
<1>3. PICK i \in 1..L : i = ix + 1 /\ ix = i - 1 /\ ix \in Nat /\ i \in 0..L /\ i \in Nat
  <2>1. L \in Nat /\ ix \in 0..L /\ ix # L
    BY <1>1, <1>2
  <2>2. ix + 1 \in 1..L
    BY <2>1
  <2>3. QED
    BY <2>1, <2>2
<1>4. /\ ~KnownEvent(events[i]) => item = NotFound("EventNotFound")
      /\ KnownEvent(events[i]) =>
           /\ IsRead(i, item)
           /\ q \in 0..Len(wire)
           /\ SubSeq(wire, q + 1, Len(wire)) = Left(i)
  <2>1. SubSeq(wire, p + 1, Len(wire)) = Left(i - 1) /\ item = EventDetails(api, wire, p, i - 1)
    BY <1>2, <1>3, Zenon
  <2>2. QED
    BY <2>1, ReadAtEvent, Zenon DEF L
<1>5. Legible(i) <=> KnownEvent(events[i])
  BY <1>2, <1>3, OneMoreLegible, Zenon
<1>6. IsASeq(a) /\ Len(a) = i /\ (\A k \in 1..ix : a[k] = g[k]) /\ a[i] = item
  BY <1>2, <1>3, OneMore
<1> HIDE DEF q
<1>7. ASSUME KnownEvent(events[i])
      PROVE  /\ item.err = "" /\ q \in 0..Len(wire)
             /\ ReadSoFar(a, q, i) /\ FoundSoFar(a, h)
  <2>1. IsRead(i, item) /\ q \in 0..Len(wire) /\ SubSeq(wire, q + 1, Len(wire)) = Left(i)
    BY <1>4, <1>7, Zenon
  <2>2. item.err = ""
    BY <2>1, Zenon DEF IsRead
  <2>3. FoundSoFar(a, h)
    <3>1. Len(g) + 1 = i /\ Legible(Len(g)) /\ Len(g) \in Nat
      BY <1>2, <1>3, Zenon
    <3>2. QED
      BY <1>2, <1>3, <1>7, <2>1, <3>1, FoundOneMore, Zenon DEF L
  <2>4. \A k \in 1..i : IsRead(k, a[k])
    <3>1. \A k \in 1..i : k \in 1..ix \/ k = i
      BY <1>3
    <3>2. QED
      BY <1>2, <1>6, <2>1, <3>1, Zenon
  <2> HIDE DEF a
  <2>5. ReadSoFar(a, q, i)
    BY <1>3, <1>5, <1>6, <1>7, <2>1, <2>4, Zenon DEF ReadSoFar, L
  <2>6. QED
    BY <2>1, <2>2, <2>3, <2>5
<1>8. ASSUME ~KnownEvent(events[i])
      PROVE  item.err # "" /\ ReadSoFar(a, Len(wire), ix) /\ FoundSoFar(a, h)
  <2>1. item = NotFound("EventNotFound")
    BY <1>4, <1>8, Zenon
  <2>2. item.err = "EventNotFound" /\ item.err # ""
    <3>1. NotFound("EventNotFound").err = "EventNotFound"
      BY DEF NotFound
    <3>2. QED
      BY <2>1, <3>1
  <2>3. FoundSoFar(a, h)
    <3>1. Len(g) + 1 = i /\ Legible(Len(g)) /\ Len(g) \in Nat
      BY <1>2, <1>3, Zenon
    <3>2. QED
      BY <1>2, <1>8, <2>1, <3>1, FoundTheError, Zenon
  <2>4. \A k \in 1..ix : IsRead(k, a[k])
    BY <1>2, <1>6, Zenon
  <2>5. ix < L
    BY <1>1, <1>3
  <2> HIDE DEF a
  <2>6. ReadSoFar(a, Len(wire), ix)
    BY <1>2, <1>3, <1>6, <1>8, <2>2, <2>4, <2>5, Zenon DEF ReadSoFar, L
  <2>7. QED
    BY <2>2, <2>3, <2>6, Zenon
<1>9. QED
  BY <1>3, <1>7, <1>8, Zenon DEF GivesNext, a, q

-----------------------------------------------------------------------------
(* The invariant of a reading, and the steps that keep it.                 *)

\* The inductive invariant: what has been written, where the iterator stands between
\* the bytes of two events, and what it and find have given so far.
ReadingInv ==
  /\ Exchanged
  /\ stage \in {"made", "stored", "reading", "done"}
  /\ stage \in {"made", "stored"} => got = <<>> /\ found = <<>> /\ index = 0
  /\ stage # "made" => wire = StoredEvents(made, events)
  /\ stage \in {"reading", "done"} =>
       /\ num = Len(events) /\ pos \in 0..Len(wire)
       /\ ReadSoFar(got, pos, index) /\ FoundSoFar(got, found)
  /\ stage = "done" => Exhausted

\* The number of the events, and the events.
LEMMA StoredIs ==
  ASSUME Exchanged, NEW w, w = StoredEvents(made, events)
  PROVE  /\ w \in Seq(Byte)
         /\ Events(w).num = Len(events) /\ Events(w).start \in 0..Len(w)
         /\ SubSeq(w, Events(w).start + 1, Len(w)) = Left(0)
<1> DEFINE L == Len(events)
           c == CompactBytes(L)
           t == Left(0)
           n == ReadCompact(w, "U32")
<1>1. L \in Nat /\ IsU32(L) /\ t \in Seq(Byte)
  <2>1. 0 \in 0..L
    BY BlockOfExchange
  <2>2. QED
    BY <2>1, BlockOfExchange, Zenon
<1>2. w = c \o t
  <2>1. L - 0 = L
    BY <1>1
  <2>2. QED
    BY <2>1, Zenon DEF StoredEvents, Left
<1> HIDE DEF L, t
<1>3. c \in Seq(Byte) /\ ReadCompact(c \o t, "U32") = Read(L, t)
  BY <1>1, CompactIsRead, Zenon
<1> HIDE DEF c
<1>4. n.err = "" /\ n.val = L /\ n.rest = t
  <2>1. Read(L, t).err = "" /\ Read(L, t).val = L /\ Read(L, t).rest = t
    BY ReadIs
  <2>2. QED
    BY <1>2, <1>3, <2>1, Zenon
<1>5. Events(w) = [start |-> Len(w) - Len(n.rest), num |-> IF n.err = "" THEN n.val ELSE 0]
  BY Zenon DEF Events
<1> HIDE DEF n
<1>6. Events(w).start = Len(w) - Len(t) /\ Events(w).num = L
  <2> DEFINE s == Len(w) - Len(n.rest)
             k == IF n.err = "" THEN n.val ELSE 0
  <2>1. k = L /\ s = Len(w) - Len(t)
    BY <1>4, Zenon
  <2> HIDE DEF s, k
  <2>2. Events(w) = [start |-> s, num |-> k]
    BY <1>5, Zenon DEF s, k
  <2>3. Events(w).start = s /\ Events(w).num = k
    BY <2>2
  <2>4. QED
    BY <2>1, <2>3, Zenon
<1>7. w \in Seq(Byte) /\ Len(w) = Len(c) + Len(t) /\ SubSeq(w, Len(c) + 1, Len(w)) = t
  BY <1>1, <1>2, <1>3, Slices
<1>8. Len(c) \in Nat /\ Len(t) \in Nat
  BY <1>1, <1>3, SequenceFacts
<1>9. Events(w).start = Len(c) /\ Len(c) \in 0..Len(w)
  BY <1>6, <1>7, <1>8
<1>10. QED
  BY <1>6, <1>7, <1>9, Zenon DEF L, t

\* find begins with nothing.
LEMMA NothingFoundYet == Legible(0) /\ FoundSoFar(<<>>, <<>>)
<1>1. Len(<<>>) = 0 /\ IsASeq(<<>>)
  BY DEF IsASeq
<1>2. \A i \in 1..0 : FALSE
  OBVIOUS
<1>3. Legible(0)
  BY <1>2, Zenon DEF Legible
<1>4. Matches(0) = {}
  BY DEF Matches
<1>5. Cardinality(Matches(0)) + 0 = 0
  BY <1>4, FS_EmptySet
<1>6. FoundSoFar(<<>>, <<>>)
  BY <1>1, <1>3, <1>4, <1>5, Zenon DEF FoundSoFar
<1>7. QED
  BY <1>3, <1>6

\* The iterator begins at the first event with nothing given.
LEMMA NothingReadYet ==
  ASSUME NEW p, SubSeq(wire, p + 1, Len(wire)) = Left(0), Len(events) \in Nat
  PROVE  ReadSoFar(<<>>, p, 0)
<1>1. Len(<<>>) = 0 /\ IsASeq(<<>>) /\ 0 \in 0..Len(events)
  BY DEF IsASeq
<1>2. \A i \in 1..0 : FALSE
  OBVIOUS
<1>3. QED
  BY <1>1, <1>2, NothingFoundYet, Zenon DEF ReadSoFar

\* What depends on the exchange and the stored bytes only stays.
LEMMA ReadingStays ==
  ASSUME UNCHANGED exchange, UNCHANGED wire
  PROVE  /\ Exchanged => Exchanged'
         /\ made' = made /\ hold' = hold /\ api' = api /\ events' = events /\ sought' = sought
         /\ \A i : Legible(i) <=> Legible(i)'
         /\ \A i : Matches(i)' = Matches(i)
         /\ \A g, p, ix : ReadSoFar(g, p, ix) => ReadSoFar(g, p, ix)'
         /\ \A g, f : FoundSoFar(g, f) => FoundSoFar(g, f)'
<1>1. maker' = maker /\ held' = held /\ events' = events /\ sought' = sought /\ wire' = wire
  BY DEF exchange
<1>2. Exchanged => Exchanged'
  BY <1>1 DEF Exchanged
<1>3. made' = made /\ hold' = hold /\ api' = api
  BY <1>1, Zenon DEF made, hold, api
<1>4. ASSUME NEW e PROVE KnownEvent(e) <=> KnownEvent(e)'
  BY <1>3 DEF KnownEvent
<1>5. ASSUME NEW i PROVE Legible(i) <=> Legible(i)'
  <2>1. ASSUME NEW j PROVE KnownEvent(events[j]) <=> KnownEvent(events[j])'
    <3>1. PICK e : e = events[j]
      OBVIOUS
    <3>2. KnownEvent(e) <=> KnownEvent(e)'
      BY <1>4
    <3>3. e = events'[j]
      BY <1>1, <3>1
    <3>4. QED
      BY <3>1, <3>2, <3>3, Zenon DEF KnownEvent
  <2>2. QED
    BY <2>1, Zenon DEF Legible
<1>6. ASSUME NEW i PROVE Matches(i)' = Matches(i)
  <2>1. ASSUME NEW j
        PROVE  (Legible(j) /\ IsNamedAs(made, events[j].at, sought)) <=>
               (Legible(j)' /\ IsNamedAs(made', events'[j].at, sought'))
    <3>1. Legible(j) <=> Legible(j)'
      BY <1>5
    <3>2. QED
      BY <1>1, <1>3, <3>1, Zenon
  <2>2. QED
    BY <2>1 DEF Matches
<1>7. ASSUME NEW i, NEW ev, IsRead(i, ev) PROVE IsRead(i, ev)'
  BY <1>1, <1>3, <1>7, Zenon DEF IsRead
<1>8. ASSUME NEW i PROVE Left(i)' = Left(i)
  BY <1>1, <1>3, Zenon DEF Left
<1>9. ASSUME NEW g, NEW p, NEW ix, ReadSoFar(g, p, ix) PROVE ReadSoFar(g, p, ix)'
  <2>1. Legible(ix) <=> Legible(ix)'
    BY <1>5
  <2>2. Left(ix)' = Left(ix)
    BY <1>8
  <2>3. KnownEvent(events[ix + 1]) <=> KnownEvent(events[ix + 1])'
    <3>1. PICK e : e = events[ix + 1]
      OBVIOUS
    <3>2. KnownEvent(e) <=> KnownEvent(e)'
      BY <1>4
    <3>3. e = events'[ix + 1]
      BY <1>1, <3>1
    <3>4. QED
      BY <3>1, <3>2, <3>3, Zenon DEF KnownEvent
  <2>4. ASSUME NEW i \in 1..ix PROVE IsRead(i, g[i])'
    <3>1. IsRead(i, g[i])
      BY <1>9, Zenon DEF ReadSoFar
    <3>2. PICK ev : ev = g[i]
      OBVIOUS
    <3>3. IsRead(i, ev)
      BY <3>1, <3>2, Zenon
    <3>4. IsRead(i, ev)'
      BY <1>7, <3>3
    <3>5. QED
      BY <3>2, <3>4, Zenon
  <2>5. QED
    BY <1>1, <1>9, <2>1, <2>2, <2>3, <2>4, Zenon DEF ReadSoFar
<1>10. ASSUME NEW g, NEW f, FoundSoFar(g, f) PROVE FoundSoFar(g, f)'
  <2>1. PICK n : n = Len(g)
    OBVIOUS
  <2>2. (Legible(n) <=> Legible(n)') /\ Matches(n)' = Matches(n)
    BY <1>5, <1>6
  <2>3. ASSUME NEW i \in Matches(n)'
        PROVE  f[Cardinality(Matches(i)')] = [err |-> "", val |-> events'[i].vals]
    <3>1. Matches(i)' = Matches(i) /\ i \in Matches(n)
      BY <1>6, <2>2
    <3>2. f[Cardinality(Matches(i))] = [err |-> "", val |-> events[i].vals]
      BY <1>10, <2>1, <3>1, Zenon DEF FoundSoFar
    <3>3. QED
      BY <1>1, <3>1, <3>2, Zenon
  <2>4. /\ IsASeq(f)
        /\ Len(f) = Cardinality(Matches(n)) + (IF Legible(n) THEN 0 ELSE 1)
        /\ ~Legible(n) => f[Len(f)].err = "EventNotFound"
    BY <1>10, <2>1, Zenon DEF FoundSoFar
  <2>5. /\ Len(f) = Cardinality(Matches(n)') + (IF Legible(n)' THEN 0 ELSE 1)
        /\ ~Legible(n)' => f[Len(f)].err = "EventNotFound"
    BY <2>2, <2>4, Zenon
  <2>6. QED
    BY <2>1, <2>3, <2>4, <2>5, Zenon DEF FoundSoFar
<1>11. QED
  BY <1>1, <1>2, <1>3, <1>5, <1>6, <1>9, <1>10, Zenon

\* The invariant holds in every initial state,
LEMMA ReadingInvAtFirst == ReadingInit => ReadingInv
BY DEF ReadingInit, ReadingInv, Exchanged

\* when the runtime stores the events,
LEMMA ReadingInvAtStoreEvents == ReadingInv /\ StoreEvents => ReadingInv'
<1> SUFFICES ASSUME ReadingInv, StoreEvents PROVE ReadingInv'
  OBVIOUS
<1>1. UNCHANGED exchange /\ UNCHANGED <<got, found, index>> /\ stage = "made" /\ stage' = "stored"
  BY DEF StoreEvents
<1>2. Exchanged'
  BY <1>1 DEF Exchanged, exchange, ReadingInv
<1>3. wire' = StoredEvents(made, events)'
  BY <1>1 DEF StoreEvents, made, exchange
<1>4. got = <<>> /\ found = <<>> /\ index = 0
  BY <1>1 DEF ReadingInv
<1>5. QED
  BY <1>1, <1>2, <1>3, <1>4 DEF ReadingInv

\* when Events::new reads their number,
LEMMA ReadingInvAtNewEvents == ReadingInv /\ NewEvents => ReadingInv'
<1> SUFFICES ASSUME ReadingInv, NewEvents PROVE ReadingInv'
  OBVIOUS
<1>1. /\ UNCHANGED exchange /\ UNCHANGED wire /\ UNCHANGED <<got, found, index>>
      /\ stage = "stored" /\ stage' = "reading"
      /\ pos' = Events(wire).start /\ num' = Events(wire).num
  BY DEF NewEvents
<1>2. Exchanged /\ wire = StoredEvents(made, events) /\ got = <<>> /\ found = <<>> /\ index = 0
  BY <1>1 DEF ReadingInv
<1>3. /\ Exchanged'
      /\ made' = made /\ events' = events
      /\ \A g, p, ix : ReadSoFar(g, p, ix) => ReadSoFar(g, p, ix)'
      /\ \A g, f : FoundSoFar(g, f) => FoundSoFar(g, f)'
  BY <1>1, <1>2, ReadingStays
<1>4. /\ Events(wire).num = Len(events) /\ Events(wire).start \in 0..Len(wire)
      /\ SubSeq(wire, Events(wire).start + 1, Len(wire)) = Left(0)
  BY <1>2, StoredIs
<1>5. PICK p : p = Events(wire).start
  OBVIOUS
<1>6. ReadSoFar(<<>>, p, 0) /\ FoundSoFar(<<>>, <<>>)
  <2>1. Len(events) \in Nat
    BY <1>2, BlockOfExchange
  <2>2. QED
    BY <1>4, <1>5, <2>1, NothingReadYet, NothingFoundYet
<1>7. ReadSoFar(<<>>, p, 0)' /\ FoundSoFar(<<>>, <<>>)'
  BY <1>3, <1>6
<1>8. got' = <<>> /\ found' = <<>> /\ index' = 0 /\ pos' = p /\ wire' = wire
  BY <1>1, <1>2, <1>5
<1>9. ReadSoFar(got, pos, index)' /\ FoundSoFar(got, found)'
  BY <1>7, <1>8, Zenon DEF ReadSoFar, FoundSoFar
<1>10. wire' = StoredEvents(made, events)' /\ num' = Len(events') /\ pos' \in 0..Len(wire')
  BY <1>1, <1>2, <1>3, <1>4, Zenon
<1>11. QED
  BY <1>1, <1>3, <1>9, <1>10, Zenon DEF ReadingInv

\* Numbers up to a limit.
LEMMA UpTo == \A l \in Nat : l \in 0..l /\ \A k \in 0..l : ~(l <= k) => k < l
OBVIOUS

\* A call of the closure that is not at the end.
LEMMA GivenItem ==
  ASSUME ReadingInv, stage = "reading", ~Exhausted, NEW item, item = EventDetails(api, wire, pos, index),
         Give(item),
         \/ item.err = "" /\ pos' = pos + (item.end - item.start) /\ index' = index + 1
         \/ item.err # "" /\ pos' = Len(wire) /\ index' = index
  PROVE  ReadingInv'
<1>1. /\ UNCHANGED exchange /\ UNCHANGED wire /\ stage' = "reading" /\ num' = num
      /\ got' = Append(got, item) /\ found' = found \o FoundIn(api, wire, item, sought)
  BY DEF Give
<1>2. /\ Exchanged /\ wire = StoredEvents(made, events)
      /\ num = Len(events) /\ pos \in 0..Len(wire)
      /\ ReadSoFar(got, pos, index) /\ FoundSoFar(got, found)
  BY DEF ReadingInv
<1>3. wire \in Seq(Byte)
  BY <1>2, StoredIs
<1>4. Len(wire) \in Nat
  BY <1>3, SequenceFacts
<1>5. pos < Len(wire) /\ index # Len(events)
  <2>1. ~(Len(wire) <= pos) /\ num # index
    BY Zenon DEF Exhausted
  <2>2. PICK l, k : l = Len(wire) /\ k = pos
    OBVIOUS
  <2>3. k < l
    BY <1>2, <1>4, <2>1, <2>2, UpTo, Zenon
  <2>4. QED
    BY <1>2, <2>1, <2>2, <2>3, Zenon
<1>6. PICK g, f, p, ix : g = got /\ f = found /\ p = pos /\ ix = index
  OBVIOUS
<1>7. PICK a, h : a = Append(g, item) /\ h = f \o FoundIn(api, wire, item, sought)
  OBVIOUS
<1>8. PICK q : q = p + (item.end - item.start)
  OBVIOUS
<1>9. /\ item.err = "" =>
           q \in 0..Len(wire) /\ ReadSoFar(a, q, ix + 1) /\ FoundSoFar(a, h)
      /\ item.err # "" => ReadSoFar(a, Len(wire), ix) /\ FoundSoFar(a, h)
  <2>1. /\ p \in 0..Len(wire) /\ ReadSoFar(g, p, ix) /\ FoundSoFar(g, f) /\ p < Len(wire) /\ ix # Len(events)
        /\ item = EventDetails(api, wire, p, ix)
    BY <1>2, <1>5, <1>6, Zenon
  <2>2. GivesNext(g, f, p, ix, item)
    BY <1>2, <1>3, <2>1, OneMoreItem
  <2>3. QED
    BY <1>7, <1>8, <2>2, Zenon DEF GivesNext
<1>10. /\ Exchanged'
       /\ made' = made /\ events' = events
       /\ \A x, y, z : ReadSoFar(x, y, z) => ReadSoFar(x, y, z)'
       /\ \A x, y : FoundSoFar(x, y) => FoundSoFar(x, y)'
  BY <1>1, <1>2, ReadingStays
<1>11. got' = a /\ found' = h /\ wire' = wire
  BY <1>1, <1>6, <1>7, Zenon
<1>12. PICK v, w : v = pos' /\ w = index'
  OBVIOUS
<1>13. v \in 0..Len(wire) /\ ReadSoFar(a, v, w) /\ FoundSoFar(a, h)
  <2>1. Len(wire) \in 0..Len(wire)
    BY <1>4, UpTo, Zenon
  <2>2. CASE item.err = "" /\ v = q /\ w = ix + 1
    BY <1>9, <2>2, Zenon
  <2>3. CASE item.err # "" /\ v = Len(wire) /\ w = ix
    BY <1>9, <2>1, <2>3, Zenon
  <2>4. QED
    BY <1>6, <1>8, <1>12, <2>2, <2>3, Zenon
<1>14. ReadSoFar(a, v, w)' /\ FoundSoFar(a, h)'
  BY <1>10, <1>13
<1>15. ReadSoFar(got, pos, index)' /\ FoundSoFar(got, found)'
  BY <1>11, <1>12, <1>14, Zenon DEF ReadSoFar, FoundSoFar
<1>16. wire' = StoredEvents(made, events)' /\ num' = Len(events') /\ pos' \in 0..Len(wire')
  BY <1>1, <1>2, <1>10, <1>12, <1>13, Zenon
<1>17. QED
  BY <1>1, <1>10, <1>15, <1>16, Zenon DEF ReadingInv

\* when the iterator has come to its end,
LEMMA ReadingInvAtNoMoreEvents == ReadingInv /\ NoMoreEvents => ReadingInv'
<1> SUFFICES ASSUME ReadingInv, NoMoreEvents PROVE ReadingInv'
  OBVIOUS
<1>1. /\ UNCHANGED exchange /\ UNCHANGED wire /\ UNCHANGED <<num, pos, got, found, index>>
      /\ stage = "reading" /\ stage' = "done" /\ Exhausted
  BY DEF NoMoreEvents
<1>2. /\ Exchanged /\ wire = StoredEvents(made, events)
      /\ num = Len(events) /\ pos \in 0..Len(wire)
      /\ ReadSoFar(got, pos, index) /\ FoundSoFar(got, found)
  BY <1>1 DEF ReadingInv
<1>3. /\ Exchanged'
      /\ made' = made /\ events' = events
      /\ \A x, y, z : ReadSoFar(x, y, z) => ReadSoFar(x, y, z)'
      /\ \A x, y : FoundSoFar(x, y) => FoundSoFar(x, y)'
  BY <1>1, <1>2, ReadingStays
<1>4. PICK g, f, p, ix : g = got /\ f = found /\ p = pos /\ ix = index
  OBVIOUS
<1>5. ReadSoFar(g, p, ix)' /\ FoundSoFar(g, f)'
  BY <1>2, <1>3, <1>4, Zenon
<1>6. ReadSoFar(got, pos, index)' /\ FoundSoFar(got, found)'
  BY <1>1, <1>4, <1>5, Zenon DEF ReadSoFar, FoundSoFar
<1>7. Exhausted'
  BY <1>1 DEF Exhausted
<1>8. wire' = StoredEvents(made, events)' /\ num' = Len(events') /\ pos' \in 0..Len(wire')
  BY <1>1, <1>2, <1>3, Zenon
<1>9. QED
  BY <1>1, <1>3, <1>6, <1>7, <1>8, Zenon DEF ReadingInv

\* and when nothing happens.
LEMMA ReadingInvWhenNothingHappens == ReadingInv /\ UNCHANGED readingVars => ReadingInv'
<1> SUFFICES ASSUME ReadingInv, UNCHANGED readingVars PROVE ReadingInv'
  OBVIOUS
<1>1. UNCHANGED exchange /\ UNCHANGED wire /\ UNCHANGED <<stage, num, pos, got, found, index>>
  BY DEF readingVars
<1>2. /\ Exchanged => Exchanged'
      /\ made' = made /\ events' = events
      /\ \A x, y, z : ReadSoFar(x, y, z) => ReadSoFar(x, y, z)'
      /\ \A x, y : FoundSoFar(x, y) => FoundSoFar(x, y)'
  BY <1>1, ReadingStays
<1>3. PICK g, f, p, ix : g = got /\ f = found /\ p = pos /\ ix = index
  OBVIOUS
<1>4. ReadSoFar(got, pos, index) /\ FoundSoFar(got, found) =>
        ReadSoFar(got, pos, index)' /\ FoundSoFar(got, found)'
  <2> SUFFICES ASSUME ReadSoFar(got, pos, index) /\ FoundSoFar(got, found)
               PROVE  ReadSoFar(got, pos, index)' /\ FoundSoFar(got, found)'
    OBVIOUS
  <2>1. ReadSoFar(g, p, ix)' /\ FoundSoFar(g, f)'
    BY <1>2, <1>3, Zenon
  <2>2. QED
    BY <1>1, <1>3, <2>1, Zenon DEF ReadSoFar, FoundSoFar
<1>5. Exhausted => Exhausted'
  BY <1>1 DEF Exhausted
<1>6. QED
  BY <1>1, <1>2, <1>4, <1>5, Zenon DEF ReadingInv

\* The invariant is inductive.
LEMMA ReadingInvIsKept == ReadingInv /\ [ReadingNext]_readingVars => ReadingInv'
<1> SUFFICES ASSUME ReadingInv, [ReadingNext]_readingVars PROVE ReadingInv'
  OBVIOUS
<1>1. ASSUME StoreEvents PROVE ReadingInv'
  BY <1>1, ReadingInvAtStoreEvents
<1>2. ASSUME NewEvents PROVE ReadingInv'
  BY <1>2, ReadingInvAtNewEvents
<1>3. ASSUME NextEvent PROVE ReadingInv'
  <2>1. PICK item : item = EventDetails(api, wire, pos, index)
    OBVIOUS
  <2>2. /\ stage = "reading" /\ ~Exhausted /\ Give(item)
        /\ item.err = "" /\ pos' = pos + (item.end - item.start) /\ index' = index + 1
    BY <1>3, <2>1, Zenon DEF NextEvent
  <2>3. QED
    BY <2>1, <2>2, GivenItem
<1>4. ASSUME NextError PROVE ReadingInv'
  <2>1. PICK item : item = EventDetails(api, wire, pos, index)
    OBVIOUS
  <2>2. /\ stage = "reading" /\ ~Exhausted /\ Give(item)
        /\ item.err # "" /\ pos' = Len(wire) /\ index' = index
    BY <1>4, <2>1, Zenon DEF NextError, StopReading
  <2>3. QED
    BY <2>1, <2>2, GivenItem
<1>5. ASSUME NoMoreEvents PROVE ReadingInv'
  BY <1>5, ReadingInvAtNoMoreEvents
<1>6. ASSUME UNCHANGED readingVars PROVE ReadingInv'
  BY <1>6, ReadingInvWhenNothingHappens
<1>7. QED
  BY <1>1, <1>2, <1>3, <1>4, <1>5, <1>6 DEF ReadingNext

\* With an event, those before it are legible.
LEMMA FirstOnesAreLegible ==
  ASSUME NEW n \in Nat, Legible(n), NEW i \in 1..n
  PROVE  Legible(i)
<1>1. \A j \in 1..i : j \in 1..n
  OBVIOUS
<1>2. QED
  BY <1>1, Zenon DEF Legible

\* What ReadSoFar says of the items.
LEMMA ItemsOfReading ==
  ASSUME Exchanged, NEW g, NEW p, NEW ix, ReadSoFar(g, p, ix)
  PROVE  /\ DOMAIN g = 1..Len(g) /\ Len(g) \in Nat /\ ix \in Nat
         /\ \A i \in DOMAIN g :
              /\ Legible(i) => i \in 1..ix /\ IsRead(i, g[i]) /\ IsEvent(i, g[i])
              /\ ~Legible(i) => i = Len(g) /\ Legible(i - 1) /\ g[i].err = "EventNotFound"
         /\ Len(g) <= Len(events)
         /\ Len(g) # ix => ~Legible(Len(g))
<1> DEFINE L == Len(events)
           n == Len(g)
<1>1. L \in Nat
  BY BlockOfExchange
<1>2. /\ IsASeq(g) /\ ix \in 0..L /\ Legible(ix)
      /\ \A i \in 1..ix : IsRead(i, g[i])
      /\ \/ n = ix
         \/ n = ix + 1 /\ ix < L /\ ~KnownEvent(events[ix + 1]) /\ g[ix + 1].err = "EventNotFound"
  BY Zenon DEF ReadSoFar
<1>3. DOMAIN g = 1..n /\ n \in Nat
  BY <1>2, SequencesAre, Zenon
<1> HIDE DEF n, L
<1>4. ix \in Nat /\ ix <= L /\ (\A i \in 1..ix : i \in 1..L)
  BY <1>1, <1>2
<1>5. CASE n = ix
  <2>1. ASSUME NEW i \in 1..n PROVE Legible(i) /\ IsRead(i, g[i]) /\ IsEvent(i, g[i])
    <3>1. i \in 1..ix /\ i \in 1..L
      BY <1>4, <1>5
    <3>2. Legible(i) /\ IsRead(i, g[i])
      BY <1>2, <1>4, <3>1, FirstOnesAreLegible, Zenon
    <3>3. IsEvent(i, g[i])
      BY <3>1, <3>2, ReadEventIs, Zenon DEF L
    <3>4. QED
      BY <3>2, <3>3
  <2>2. QED
    BY <1>3, <1>4, <1>5, <2>1, Zenon DEF n, L
<1>6. CASE n = ix + 1 /\ ix < L /\ ~KnownEvent(events[ix + 1]) /\ g[ix + 1].err = "EventNotFound"
  <2>1. ~Legible(n)
    BY <1>2, <1>4, <1>6, OneMoreLegible, Zenon
  <2>2. /\ \A i \in 1..n : i \in 1..ix \/ i = n
        /\ n <= L /\ n - 1 = ix /\ n # ix
    BY <1>1, <1>4, <1>6
  <2>3. ASSUME NEW i \in 1..ix PROVE Legible(i) /\ IsRead(i, g[i]) /\ IsEvent(i, g[i])
    <3>1. Legible(i) /\ IsRead(i, g[i])
      BY <1>2, <1>4, FirstOnesAreLegible, Zenon
    <3>2. IsEvent(i, g[i])
      BY <1>4, <3>1, ReadEventIs, Zenon DEF L
    <3>3. QED
      BY <3>1, <3>2
  <2>4. g[n].err = "EventNotFound" /\ Legible(n - 1)
    BY <1>2, <1>6, <2>2, Zenon
  <2>5. QED
    BY <1>3, <1>4, <2>1, <2>2, <2>3, <2>4, Zenon DEF n, L
<1>7. QED
  BY <1>2, <1>5, <1>6, Zenon

\* As long as events are left, bytes are.
LEMMA BytesAreLeft ==
  ASSUME Exchanged, wire \in Seq(Byte), NEW p \in 0..Len(wire), NEW ix \in 0..Len(events),
         SubSeq(wire, p + 1, Len(wire)) = Left(ix), Len(wire) <= p
  PROVE  ix = Len(events)
<1> DEFINE L == Len(events)
<1>1. L \in Nat /\ Len(wire) \in Nat /\ p = Len(wire)
  BY BlockOfExchange
<1> HIDE DEF L
<1>2. SUFFICES ASSUME ix # L PROVE FALSE
  BY DEF L
<1>3. PICK k \in 1..L : k = ix + 1 /\ ix = k - 1 /\ k \in 0..L
  <2>1. ix \in 0..L
    BY DEF L
  <2>2. ix + 1 \in 1..L
    BY <1>1, <1>2, <2>1
  <2>3. QED
    BY <1>1, <2>1, <2>2
<1>4. Left(ix) = EventBytes(made, events[k]) \o Left(k) /\ Left(k) \in Seq(Byte)
  BY <1>3, BlockOfExchange, Zenon DEF L
<1>5. EventBytes(made, events[k]) \in Seq(Byte) /\ Len(EventBytes(made, events[k])) > 0
  <2>1. made \in Metadatas
    BY MetadataOfExchange DEF Metadatas
  <2>2. IsWritable(made, events[k])
    BY <1>3, BlockOfExchange, Zenon DEF L
  <2>3. QED
    BY <2>1, <2>2, EventBytesAre, Zenon
<1> DEFINE u == EventBytes(made, events[k])
           v == Left(k)
           w == SubSeq(wire, p + 1, Len(wire))
<1>6. Len(w) = 0
  BY <1>1
<1>7. w = u \o v
  BY <1>4, Zenon
<1>8. u \in Seq(Byte) /\ Len(u) > 0 /\ v \in Seq(Byte)
  BY <1>4, <1>5
<1> HIDE DEF u, v, w
<1>9. Len(u \o v) = Len(u) + Len(v) /\ Len(u) \in Nat /\ Len(v) \in Nat
  BY <1>8, Concatenated, SequenceFacts
<1>10. Len(u) + Len(v) = 0
  BY <1>6, <1>7, <1>9, Zenon
<1>11. QED
  BY <1>8, <1>9, <1>10

\* The invariant implies the property.
LEMMA EventsAreReadThen == ReadingInv => EventsAreRead
<1> SUFFICES ASSUME ReadingInv PROVE EventsAreRead
  OBVIOUS
<1>1. Exchanged
  BY DEF ReadingInv
<1>2. CASE stage \in {"made", "stored"}
  <2>1. got = <<>> /\ found = <<>> /\ stage # "done"
    BY <1>2 DEF ReadingInv
  <2>2. PICK g, f : g = <<>> /\ f = <<>>
    OBVIOUS
  <2>3. FoundSoFar(g, f) /\ Legible(0)
    BY <2>2, NothingFoundYet, Zenon
  <2>4. DOMAIN g = {} /\ Len(g) = 0
    BY <2>2
  <2>5. 0 <= Len(events)
    BY <1>1, BlockOfExchange
  <2>6. g = got /\ f = found
    BY <2>1, <2>2
  <2>7. \A i \in DOMAIN g : FALSE
    BY <2>4
  <2>8. /\ Len(g) <= Len(events)
        /\ Len(f) = Cardinality(Matches(Len(g))) + (IF Legible(Len(g)) THEN 0 ELSE 1)
        /\ \A i \in Matches(Len(g)) :
             f[Cardinality(Matches(i))] = [err |-> "", val |-> events[i].vals]
        /\ ~Legible(Len(g)) => f[Len(f)].err = "EventNotFound"
    BY <2>3, <2>4, <2>5, Zenon DEF FoundSoFar
  <2>9. QED
    BY <2>1, <2>6, <2>7, <2>8, Zenon DEF EventsAreRead
<1>3. CASE stage \in {"reading", "done"}
  <2>1. /\ wire = StoredEvents(made, events) /\ num = Len(events) /\ pos \in 0..Len(wire)
        /\ ReadSoFar(got, pos, index) /\ FoundSoFar(got, found)
        /\ stage = "done" => Exhausted
    BY <1>3 DEF ReadingInv
  <2>2. PICK g, p, ix : g = got /\ p = pos /\ ix = index
    OBVIOUS
  <2>3. /\ \A i \in DOMAIN g :
              /\ Legible(i) => IsEvent(i, g[i])
              /\ ~Legible(i) => i = Len(g) /\ Legible(i - 1) /\ g[i].err = "EventNotFound"
        /\ Len(g) <= Len(events)
        /\ Len(g) # ix => ~Legible(Len(g))
    BY <1>1, <2>1, <2>2, ItemsOfReading, Zenon
  <2>4. ASSUME stage = "done" PROVE Len(g) = Len(events) \/ ~Legible(Len(g))
    <3>1. Len(wire) <= pos \/ num = index
      BY <2>1, <2>4, Zenon DEF Exhausted
    <3>2. CASE Len(g) # ix
      BY <2>3, <3>2, Zenon
    <3>3. CASE Len(g) = ix
      <4>1. ix \in 0..Len(events) /\ (ix # ix + 1) /\ ReadSoFar(g, p, ix)
        <5>1. ReadSoFar(g, p, ix)
          BY <2>1, <2>2, Zenon
        <5>2. ix \in 0..Len(events)
          BY <5>1, Zenon DEF ReadSoFar
        <5>3. QED
          BY <5>1, <5>2
      <4>2. SubSeq(wire, p + 1, Len(wire)) = Left(ix)
        BY <3>3, <4>1, Zenon DEF ReadSoFar
      <4>3. wire \in Seq(Byte)
        BY <1>1, <2>1, StoredIs
      <4>4. CASE Len(wire) <= pos
        BY <1>1, <2>1, <2>2, <3>3, <4>1, <4>2, <4>3, <4>4, BytesAreLeft, Zenon
      <4>5. CASE num = index
        BY <2>1, <2>2, <3>3, <4>5, Zenon
      <4>6. QED
        BY <3>1, <4>4, <4>5
    <3>4. QED
      BY <3>2, <3>3
  <2>5. /\ Len(found) = Cardinality(Matches(Len(got))) + (IF Legible(Len(got)) THEN 0 ELSE 1)
        /\ \A i \in Matches(Len(got)) :
             found[Cardinality(Matches(i))] = [err |-> "", val |-> events[i].vals]
        /\ ~Legible(Len(got)) => found[Len(found)].err = "EventNotFound"
    BY <2>1, Zenon DEF FoundSoFar
  <2>6. QED
    BY <2>2, <2>3, <2>4, <2>5, Zenon DEF EventsAreRead
<1>4. QED
  BY <1>2, <1>3 DEF ReadingInv

\* The invariant of a reading.
LEMMA ReadingInvHolds == ReadingSpec => []ReadingInv
<1>1. QED
  BY ReadingInvAtFirst, ReadingInvIsKept, PTL DEF ReadingSpec

\* The iterator of Events (iter) gives the events of a block, each with its phase, its
\* names and the content of its fields, up to the first that the client's metadata does
\* not know; for that it gives one error, EventNotFound, and after the error nothing.
\* find gives the events of its static type among them, in order, and the error.  For
\* any number of runtimes, any blocks and any metadata that the assumptions allow, and
\* with the metadata of another runtime than the block's.
THEOREM EveryEventIsRead == ReadingSpec => []EventsAreRead
<1>1. QED
  BY ReadingInvHolds, EventsAreReadThen, PTL

-----------------------------------------------------------------------------
(* The dispatch errors of failed extrinsics.                               *)

\* The type and the errors that the client's metadata has come from its raw metadata.
LEMMA TablesOfDispatchErrors ==
  ASSUME NEW r \in DOMAIN RawMetadata, NEW raw, raw = RawMetadata[r], NEW m, m = MetadataFrom(raw),
         "DispatchError" \in DOMAIN raw.types
  PROVE  m.types[m.dispatch_error_ty] = raw.types["DispatchError"] /\ m.dispatch_error_ty # None
<1>1. InvalidMetadata(raw) = ""
  BY RawMetadataIs
<1>2. m.types = raw.types
  BY <1>1 DEF MetadataFrom
<1>3. m.dispatch_error_ty = "DispatchError"
  BY <1>1 DEF MetadataFrom
<1>4. "DispatchError" # None
  BY DEF None
<1>5. QED
  BY <1>2, <1>3, <1>4, Zenon

\* The variant of DispatchError with the errors of pallets.
LEMMA ModuleVariant ==
  ASSUME NEW vs, IsASeq(vs), \E i \in DOMAIN vs : vs[i].name = "Module",
         NEW M, M = SelectInSeq(vs, LAMBDA v : v.name = "Module")
  PROVE  M \in DOMAIN vs /\ M # 0 /\ vs[M].name = "Module"
<1> DEFINE I == {i \in 1..Len(vs) : vs[i].name = "Module"}
<1>1. Len(vs) \in Nat /\ DOMAIN vs = 1..Len(vs)
  BY SequencesAre
<1>2. I # {} /\ I \in SUBSET Nat /\ I \subseteq 1..Len(vs)
  BY <1>1
<1>3. M = IF I # {} THEN Min(I) ELSE 0
  BY Zenon DEF SelectInSeq
<1>4. \A i \in I : i \in DOMAIN vs /\ i # 0 /\ vs[i].name = "Module"
  BY <1>1
<1> HIDE DEF I
<1>5. PICK k \in I : \A j \in I : k <= j
  BY <1>2, LeastElement
<1>6. Min(I) \in I
  BY <1>5, Zenon DEF Min
<1>7. QED
  BY <1>2, <1>3, <1>4, <1>6, Zenon

\* What the client's metadata says of DispatchError.
LEMMA HeldDispatchError ==
  ASSUME Exchanged
  PROVE  LET ty == api.types[api.dispatch_error_ty]
             Module == SelectInSeq(ty.variants, LAMBDA v : v.name = "Module")
         IN  /\ api.dispatch_error_ty # None /\ ty.def = "Variant" /\ Module # 0
             /\ \A x : x \in ModuleIndexes(made) <=> x = ty.variants[Module].index
<1> DEFINE ty == api.types[api.dispatch_error_ty]
           M == SelectInSeq(ty.variants, LAMBDA v : v.name = "Module")
<1>1. /\ "DispatchError" \in DOMAIN hold.types /\ hold.types["DispatchError"].def = "Variant"
      /\ IsASeq(hold.types["DispatchError"].variants)
      /\ ModuleIndexes(hold) # {}
      /\ \A x \in ModuleIndexes(made), y \in ModuleIndexes(hold) : x = y
  <2>1. held \in Holders[maker] \cup {maker} /\ maker \in DOMAIN RawMetadata
    BY DEF Exchanged
  <2>2. QED
    BY <2>1, CompatibleAssumption, Zenon DEF made, hold
<1>2. ModuleIndexes(made) # {}
  <2>1. maker \in Holders[maker] \cup {maker} /\ maker \in DOMAIN RawMetadata
    BY DEF Exchanged
  <2>2. QED
    BY <2>1, CompatibleAssumption, Zenon DEF made
<1>3. ty = hold.types["DispatchError"] /\ api.dispatch_error_ty # None
  <2>1. held \in DOMAIN RawMetadata /\ hold = RawMetadata[held] /\ api = MetadataFrom(hold)
    BY MetadataOfExchange
  <2>2. QED
    BY <1>1, <2>1, TablesOfDispatchErrors
<1> HIDE DEF ty
<1>4. M \in DOMAIN ty.variants /\ M # 0 /\ ty.variants[M].name = "Module"
  <2>1. \E i \in DOMAIN ty.variants : ty.variants[i].name = "Module"
    BY <1>1, <1>3, Zenon DEF ModuleIndexes
  <2>2. PICK vs : vs = ty.variants
    OBVIOUS
  <2>3. IsASeq(vs)
    BY <1>1, <1>3, <2>2, Zenon
  <2>4. PICK k : k = SelectInSeq(vs, LAMBDA v : v.name = "Module")
    OBVIOUS
  <2>5. k \in DOMAIN vs /\ k # 0 /\ vs[k].name = "Module"
    BY <2>1, <2>2, <2>3, <2>4, ModuleVariant
  <2>6. QED
    BY <2>2, <2>4, <2>5, Zenon
<1> HIDE DEF M
<1>5. ty.variants[M].index \in ModuleIndexes(hold)
  BY <1>3, <1>4, Zenon DEF ModuleIndexes
<1>6. \A x : x \in ModuleIndexes(made) <=> x = ty.variants[M].index
  BY <1>1, <1>2, <1>5, Zenon
<1>7. ty.def = "Variant"
  BY <1>1, <1>3, Zenon
<1>8. QED
  BY <1>3, <1>4, <1>6, <1>7, Zenon DEF ty, M

\* The client's metadata has an error exactly if its table does, and has it right.
LEMMA KnownErrors ==
  ASSUME Exchanged, NEW at \in ErrorPlaces(made)
  PROVE  /\ KnownError(at) <=> ErrorKey(made, at) \in DOMAIN api.errors
         /\ KnownError(at) => api.errors[ErrorKey(made, at)] = ErrorEntry(made, at)
<1> DEFINE key == ErrorKey(made, at)
<1>1. /\ \A k : k \in DOMAIN api.errors <=> \E place \in ErrorPlaces(hold) : ErrorKey(hold, place) = k
      /\ \A k \in DOMAIN api.errors :
           \E place \in ErrorPlaces(hold) : ErrorKey(hold, place) = k /\ api.errors[k] = ErrorEntry(hold, place)
  <2> DEFINE raw == hold
             m == api
  <2>1. held \in DOMAIN RawMetadata /\ raw = RawMetadata[held] /\ m = MetadataFrom(raw)
    BY MetadataOfExchange, Zenon
  <2> HIDE DEF raw, m
  <2>2. /\ \A k : k \in DOMAIN m.errors <=> \E place \in ErrorPlaces(raw) : ErrorKey(raw, place) = k
        /\ \A k \in DOMAIN m.errors :
             \E place \in ErrorPlaces(raw) : ErrorKey(raw, place) = k /\ m.errors[k] = ErrorEntry(raw, place)
    BY <2>1, ErrorTable
  <2>3. QED
    BY <2>2, Zenon DEF raw, m
<1>2. KnownError(at) <=> key \in DOMAIN api.errors
  BY <1>1, Zenon DEF KnownError
<1>3. ASSUME key \in DOMAIN api.errors PROVE api.errors[key] = ErrorEntry(made, at)
  <2>1. PICK place \in ErrorPlaces(hold) : ErrorKey(hold, place) = key /\ api.errors[key] = ErrorEntry(hold, place)
    BY <1>1, <1>3, Zenon
  <2>2. \A x \in ErrorPlaces(made), y \in ErrorPlaces(hold) :
             ErrorKey(made, x) = ErrorKey(hold, y) =>
               /\ PalletAt(made, x).name = PalletAt(hold, y).name
               /\ ErrorAt(made, x).name = ErrorAt(hold, y).name
    BY CompatibleAssumption, Zenon DEF Exchanged, made, hold
  <2>3. /\ PalletAt(made, at).name = PalletAt(hold, place).name
        /\ ErrorAt(made, at).name = ErrorAt(hold, place).name
    BY <2>1, <2>2, Zenon
  <2>4. ErrorEntry(hold, place) = ErrorEntry(made, at)
    BY <2>3, Zenon DEF ErrorEntry
  <2>5. QED
    BY <2>1, <2>4, Zenon
<1>4. QED
  BY <1>2, <1>3, Zenon

\* DispatchErrorFrom, once it has found that the bytes are not empty.
ErrorOf(bs, m, ix) ==
  LET rest == Tail(bs)
      data == ErrorData(rest)
      entry == error(m, rest[1], data[1])
  IN  IF bs[1] # ix THEN Other(bs)
      ELSE IF Len(rest) < 2 \/ entry.err # "" THEN Other(rest)
      ELSE [kind |-> "Module", pallet |-> entry.val.pallet, error |-> entry.val.error,
            pallet_index |-> rest[1], data |-> data]

\* DispatchErrorFrom decides by the index that the maker of the block gives to the
\* variant of the errors of pallets.
LEMMA DispatchErrorIs ==
  ASSUME Exchanged, NEW bs, bs # <<>>
  PROVE  \E ix : /\ \A x : x \in ModuleIndexes(made) <=> x = ix
                 /\ DispatchErrorFrom(bs, api) = ErrorOf(bs, api, ix)
<1> DEFINE ty == api.types[api.dispatch_error_ty]
           M == SelectInSeq(ty.variants, LAMBDA v : v.name = "Module")
           ix == ty.variants[M].index
<1>1. /\ api.dispatch_error_ty # None /\ ty.def = "Variant" /\ M # 0
      /\ \A x : x \in ModuleIndexes(made) <=> x = ix
  BY HeldDispatchError, Zenon
<1>2. DispatchErrorFrom(bs, api) = ErrorOf(bs, api, ix)
  BY <1>1, Zenon DEF DispatchErrorFrom, ErrorOf
<1>3. QED
  BY <1>1, <1>2, Zenon

\* The first three of the bytes of a failure.
LEMMA ThreeBytes ==
  ASSUME NEW bs \in Seq(Byte), Len(bs) >= 3
  PROVE  /\ bs # <<>> /\ Len(Tail(bs)) >= 2
         /\ Tail(bs)[1] = bs[2] /\ ErrorData(Tail(bs))[1] = bs[3]
<1> DEFINE rest == Tail(bs)
<1>1. Len(bs) \in Nat
  BY SequenceFacts
<1>2. bs # <<>>
  BY <1>1, NotEmpty
<1>3. rest \in Seq(Byte) /\ Len(rest) = Len(bs) - 1 /\ \A i \in 1..(Len(bs) - 1) : rest[i] = bs[i + 1]
  BY <1>2, Tails
<1>4. rest[1] = bs[2] /\ rest[2] = bs[3] /\ Len(rest) >= 2
  <2>1. 1 \in 1..(Len(bs) - 1) /\ 2 \in 1..(Len(bs) - 1) /\ 1 + 1 = 2 /\ 2 + 1 = 3
    BY <1>1
  <2>2. rest[1] = bs[1 + 1] /\ rest[2] = bs[2 + 1]
    BY <1>3, <2>1, Zenon
  <2>3. QED
    BY <1>1, <1>3, <2>1, <2>2
<1> HIDE DEF rest
<1>5. ErrorData(rest)[1] = rest[2]
  <2>1. CASE Len(rest) >= 5
    <3>1. SubSeq(rest, 2, 5)[1] = rest[2]
      BY <1>3, <2>1
    <3>2. QED
      BY <2>1, <3>1 DEF ErrorData
  <2>2. CASE ~(Len(rest) >= 5)
    BY <2>2 DEF ErrorData
  <2>3. QED
    BY <2>1, <2>2
<1>6. QED
  BY <1>2, <1>4, <1>5, Zenon DEF rest

\* Numbers within bounds.
LEMMA InBounds == /\ \A l \in Nat : \A k \in 0..l : \A j \in 1..k : j \in 1..l
                /\ \A l \in Nat : l >= 2 => ~(l < 2)
  OBVIOUS

\* Nothing given yet.
LEMMA EmptyDomain == DOMAIN <<>> = {}
  OBVIOUS

\* What the error of a pallet says.
LEMMA ModuleFields ==
  ASSUME NEW p, NEW q, NEW r, NEW d
  PROVE  LET x == [kind |-> "Module", pallet |-> p, error |-> q, pallet_index |-> r, data |-> d]
         IN  x.kind = "Module" /\ x.pallet = p /\ x.error = q
  OBVIOUS

\* The invariant implies that, too.
LEMMA ErrorsAreNamedThen == ReadingInv => ErrorsAreNamed
<1> SUFFICES ASSUME ReadingInv, NEW i \in DOMAIN got, got[i].err = "",
                    extrinsic_has_failed(api, wire, got[i]),
                    NEW out, out = DispatchErrorFrom(field_bytes(wire, got[i]), api)
             PROVE  LET failure == events[i].failure
                    IN  IF failure = <<>> THEN out = Other(events[i].fields)
                        ELSE IF KnownError(failure[1])
                        THEN /\ out.kind = "Module"
                             /\ out.pallet = PalletAt(made, failure[1]).name
                             /\ out.error = ErrorAt(made, failure[1]).name
                        ELSE out.kind = "Other"
  BY Zenon DEF ErrorsAreNamed
<1>1. Exchanged
  BY DEF ReadingInv
<1>2. stage \in {"reading", "done"}
  <2>1. stage \in {"made", "stored"} => DOMAIN got = {}
    <3>1. stage \in {"made", "stored"} => got = <<>>
      BY DEF ReadingInv
    <3>2. DOMAIN <<>> = {}
      BY EmptyDomain, Zenon
    <3>3. QED
      BY <3>1, <3>2, Zenon
  <2>2. QED
    BY <2>1 DEF ReadingInv
<1>3. ReadSoFar(got, pos, index)
  BY <1>2 DEF ReadingInv
<1>4. i \in 1..Len(events) /\ IsRead(i, got[i])
  <2>1. PICK g, p, ix : g = got /\ p = pos /\ ix = index
    OBVIOUS
  <2>2. ReadSoFar(g, p, ix) /\ i \in DOMAIN g /\ g[i].err = "" /\ ("" # "EventNotFound")
    BY <1>3, <2>1
  <2>3. i \in 1..ix /\ IsRead(i, g[i])
    BY <1>1, <2>2, ItemsOfReading, Zenon
  <2>4. ix \in 0..Len(events) /\ Len(events) \in Nat
    <3>1. ix \in 0..Len(events)
      BY <2>2, Zenon DEF ReadSoFar
    <3>2. QED
      BY <1>1, <3>1, BlockOfExchange
  <2>5. i \in 1..Len(events)
    BY <2>3, <2>4, InBounds, Zenon
  <2>6. QED
    BY <2>1, <2>3, <2>5, Zenon
<1> DEFINE e == events[i]
           failure == e.failure
           bs == e.fields
<1>5. IsNamedAs(made, e.at, ExtrinsicFailed)
  <2>1. event_metadata(api, wire, got[i]) = EventEntry(made, e.at)
    BY <1>4, Zenon DEF IsRead
  <2>2. EventEntry(made, e.at).pallet = "System" /\ EventEntry(made, e.at).event = "ExtrinsicFailed"
    BY <2>1, Zenon DEF extrinsic_has_failed
  <2>3. /\ EventEntry(made, e.at).pallet = PalletAt(made, e.at).name
        /\ EventEntry(made, e.at).event = EventAt(made, e.at).name
    BY DEF EventEntry
  <2>4. ExtrinsicFailed.pallet = "System" /\ ExtrinsicFailed.event = "ExtrinsicFailed"
    BY DEF ExtrinsicFailed
  <2>5. QED
    BY <2>2, <2>3, <2>4, Zenon DEF IsNamedAs
<1>6. out = DispatchErrorFrom(bs, api)
  BY <1>4, Zenon DEF IsRead
<1>7. bs \in Seq(Byte)
  BY <1>1, <1>4, BlockOfExchange, Zenon DEF IsWritable
<1>8. IF failure = <<>>
      THEN bs # <<>> /\ bs[1] \notin ModuleIndexes(made)
      ELSE /\ failure[1] \in ErrorPlaces(made)
           /\ Len(bs) >= 3
           /\ bs[1] \in ModuleIndexes(made)
           /\ <<bs[2], bs[3]>> = ErrorKey(made, failure[1])
  <2>1. i \in DOMAIN events
    BY <1>1, <1>4, BlockOfExchange, Zenon
  <2>2. maker \in DOMAIN RawMetadata /\ events \in EventBlocks[maker] /\ made = RawMetadata[maker]
    BY <1>1 DEF Exchanged, made
  <2>3. QED
    BY <1>5, <2>1, <2>2, FailuresAssumption, Zenon
<1> HIDE DEF e, failure, bs
<1>9. ASSUME failure = <<>> PROVE out = Other(bs)
  <2>1. bs # <<>> /\ bs[1] \notin ModuleIndexes(made)
    BY <1>8, <1>9, Zenon
  <2>2. PICK ix : (\A x : x \in ModuleIndexes(made) <=> x = ix) /\ DispatchErrorFrom(bs, api) = ErrorOf(bs, api, ix)
    BY <1>1, <2>1, DispatchErrorIs
  <2>3. bs[1] # ix
    BY <2>1, <2>2, Zenon
  <2>4. QED
    BY <1>6, <2>2, <2>3, Zenon DEF ErrorOf
<1>10. ASSUME failure # <<>>
       PROVE  /\ KnownError(failure[1]) =>
                   /\ out.kind = "Module"
                   /\ out.pallet = PalletAt(made, failure[1]).name
                   /\ out.error = ErrorAt(made, failure[1]).name
              /\ ~KnownError(failure[1]) => out.kind = "Other"
  <2> DEFINE at == failure[1]
             key == ErrorKey(made, at)
             rest == Tail(bs)
             data == ErrorData(rest)
             entry == error(api, rest[1], data[1])
  <2>1. /\ at \in ErrorPlaces(made) /\ Len(bs) >= 3 /\ bs[1] \in ModuleIndexes(made)
        /\ <<bs[2], bs[3]>> = key
    BY <1>8, <1>10, Zenon
  <2>2. bs # <<>> /\ Len(rest) >= 2 /\ rest[1] = bs[2] /\ data[1] = bs[3]
    BY <1>7, <2>1, ThreeBytes
  <2>3. PICK ix : (\A x : x \in ModuleIndexes(made) <=> x = ix) /\ DispatchErrorFrom(bs, api) = ErrorOf(bs, api, ix)
    BY <1>1, <2>2, DispatchErrorIs
  <2>4. bs[1] = ix
    BY <2>1, <2>3, Zenon
  <2>5. ~(Len(rest) < 2)
    <3>1. Len(rest) \in Nat
      <4>1. rest \in Seq(Byte)
        BY <1>7, <2>2, Tails
      <4>2. QED
        BY <4>1, SequenceFacts
    <3>2. QED
      BY <2>2, <3>1, InBounds, Zenon
  <2>6. out = IF entry.err # "" THEN Other(rest)
              ELSE [kind |-> "Module", pallet |-> entry.val.pallet, error |-> entry.val.error,
                    pallet_index |-> rest[1], data |-> data]
    BY <1>6, <2>3, <2>4, <2>5, Zenon DEF ErrorOf
  <2>7. entry = IF key \in DOMAIN api.errors THEN Found(api.errors[key]) ELSE NotFound("ErrorNotFound")
    BY <2>1, <2>2, Zenon DEF error, Lookup
  <2>8. /\ KnownError(at) <=> key \in DOMAIN api.errors
        /\ KnownError(at) => api.errors[key] = ErrorEntry(made, at)
    BY <1>1, <2>1, KnownErrors, Zenon
  <2> HIDE DEF at, key, rest, data, entry
  <2>9. ASSUME KnownError(at)
        PROVE  /\ out.kind = "Module" /\ out.pallet = PalletAt(made, at).name
               /\ out.error = ErrorAt(made, at).name
    <3>1. entry = Found(ErrorEntry(made, at))
      BY <2>7, <2>8, <2>9, Zenon
    <3>2. entry.err = "" /\ entry.val = ErrorEntry(made, at)
      <4>1. Found(ErrorEntry(made, at)).err = "" /\ Found(ErrorEntry(made, at)).val = ErrorEntry(made, at)
        BY DEF Found
      <4>2. QED
        BY <3>1, <4>1, Zenon
    <3> DEFINE p == entry.val.pallet
               q == entry.val.error
    <3>3. p = PalletAt(made, at).name /\ q = ErrorAt(made, at).name
      <4>1. /\ ErrorEntry(made, at).pallet = PalletAt(made, at).name
            /\ ErrorEntry(made, at).error = ErrorAt(made, at).name
        BY DEF ErrorEntry
      <4>2. QED
        BY <3>2, <4>1, Zenon
    <3>4. out = [kind |-> "Module", pallet |-> p, error |-> q, pallet_index |-> rest[1], data |-> data]
      BY <2>6, <3>2, Zenon
    <3> HIDE DEF p, q
    <3> DEFINE x == [kind |-> "Module", pallet |-> p, error |-> q, pallet_index |-> rest[1], data |-> data]
    <3>5. x.kind = "Module" /\ x.pallet = p /\ x.error = q
      BY ModuleFields
    <3>6. out = x
      BY <3>4, Zenon
    <3> HIDE DEF x
    <3>7. out.kind = "Module" /\ out.pallet = p /\ out.error = q
      BY <3>5, <3>6, Zenon
    <3>8. QED
      BY <3>3, <3>7, Zenon
  <2>10. ASSUME ~KnownError(at) PROVE out.kind = "Other"
    <3>1. entry = NotFound("ErrorNotFound")
      BY <2>7, <2>8, <2>10, Zenon
    <3>2. NotFound("ErrorNotFound").err # ""
      BY DEF NotFound
    <3>3. out = Other(rest)
      BY <2>6, <3>1, <3>2, Zenon
    <3>4. Other(rest).kind = "Other"
      BY DEF Other
    <3>5. QED
      BY <3>3, <3>4, Zenon
  <2>11. QED
    BY <2>9, <2>10, Zenon DEF at
<1>11. QED
  BY <1>9, <1>10, Zenon DEF e, failure, bs

\* wait_for_event_details makes a DispatchError of the ExtrinsicFailed that it was given:
\* in both layouts of a module error (error index of one byte or of four) the error of a
\* pallet gets its name, if the client's metadata has it at all, even when the block was
\* made by another runtime; if the metadata lacks it, it gets no name; and an error that
\* is not a pallet's is never taken for one and comes as its raw bytes.
THEOREM EveryErrorIsNamed == ReadingSpec => []ErrorsAreNamed
<1>1. QED
  BY ReadingInvHolds, ErrorsAreNamedThen, PTL
=============================================================================
