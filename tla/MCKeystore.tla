----------------------------- MODULE MCKeystore -----------------------------
(***************************************************************************)
(* Keystore with two threads in one process and a third one in another.    *)
(***************************************************************************)
EXTENDS Keystore, TLC

CONSTANTS s1, s2, t1, t2, t3

MCStores == {s1, s2}
MCThreads == {t1, t2, t3}
MCStoreOf == (t1 :> s1) @@ (t2 :> s1) @@ (t3 :> s2)

\* Keys, and the two threads of the first process, are interchangeable.
MCSymmetry == Permutations(Keys) \cup Permutations({t1, t2})
=============================================================================
