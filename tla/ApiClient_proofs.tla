-------------------------- MODULE ApiClient_proofs --------------------------
(***************************************************************************)
(* Proofs about the Api cache and the extrinsics composed from it, for any *)
(* number of Api values, runtimes and extrinsics.                          *)
(*                                                                         *)
(* The invariant follows a runtime number from the request that fetched it *)
(* into the cache, from there into extrinsics, and from there into what    *)
(* the node executes; each stage inherits what the one before it knows.    *)
(***************************************************************************)
EXTENDS ApiClient, TLAPS

USE ApiAssumption

\* What is there at which point of the caller's program.
StageInv ==
  \A a \in Apis :
    /\ pc[a] = "version" <=> fetched[a] # NoApi
    /\ pc[a] \in {"idle", "nonce", "submit"} => cache[a] # NoApi
    /\ pc[a] \in {"nonce", "submit"} => xt[a] # NoApi

\* Half an update: unless an upgrade came in between, its metadata is current.
FetchedInv ==
  \A a \in Apis : fetched[a] # NoApi =>
    /\ fetched[a].began <= fetched[a].metadata
    /\ fetched[a].metadata <= runtime
    /\ ~fetched[a].torn => fetched[a].metadata = runtime

\* An extrinsic whose cache was not torn is signed for its own metadata.
Consistent(x) == x.torn \/ x.metadata = x.spec_version

ExtrinsicInv ==
  /\ \A a \in Apis : xt[a] # NoApi => Consistent(xt[a])
  /\ \A x \in pool : Consistent(x)
  /\ \A e \in executed : Consistent(e.extrinsic) /\ e.extrinsic.spec_version = e.runtime

CacheInv ==
  /\ TypeOK
  /\ StageInv
  /\ FetchedInv
  /\ CacheIsWhole
  /\ ExtrinsicInv
  /\ NonceNotAhead

-----------------------------------------------------------------------------
\* None is not a value of the fields it stands in for.
LEMMA Distinct ==
  /\ \A c \in Cache : c # NoApi
  /\ \A f \in Fetched : f # NoApi
  /\ \A x \in Extrinsic : x # NoApi
OBVIOUS

\* The node's steps: the runtime and the nonce only grow, and what is executed
\* comes from the pool.
LEMMA NodeKeepsCache ==
  ASSUME CacheInv, Node
  PROVE  CacheInv'
<1> USE DEF CacheInv
<1>1. CASE NodeUpgrade
  <2>1. /\ runtime \in Runtime /\ runtime' = runtime + 1 /\ runtime' \in Runtime
        /\ UNCHANGED <<nonce, pool, executed, cache, pc, xt>>
    BY <1>1 DEF NodeUpgrade, TypeOK, Runtime
  <2>2. \A a \in Apis :
          fetched'[a] = IF pc[a] = "version" THEN [fetched[a] EXCEPT !.torn = TRUE] ELSE fetched[a]
    BY <1>1 DEF NodeUpgrade
  <2>3. ASSUME NEW a \in Apis
        PROVE  /\ fetched'[a] \in Fetched \cup {NoApi}
               /\ pc[a] = "version" <=> fetched'[a] # NoApi
               /\ fetched'[a] # NoApi =>
                    /\ fetched'[a].began <= fetched'[a].metadata
                    /\ fetched'[a].metadata <= runtime'
                    /\ fetched'[a].torn
    <3>1. CASE pc[a] = "version"
      <4>1. fetched[a] \in Fetched /\ fetched'[a] = [fetched[a] EXCEPT !.torn = TRUE]
        BY <2>2, <3>1 DEF StageInv, TypeOK
      <4>2. /\ fetched'[a].began = fetched[a].began /\ fetched'[a].metadata = fetched[a].metadata
            /\ fetched'[a].torn
        BY <4>1 DEF Fetched
      <4>4. fetched'[a] \in Fetched /\ fetched'[a] # NoApi
        BY <4>1, Distinct DEF Fetched
      <4>5. fetched[a].metadata \in Nat
        BY <4>1 DEF Fetched, Runtime
      <4>3. fetched[a].began <= fetched[a].metadata /\ fetched[a].metadata <= runtime
        BY <3>1 DEF StageInv, FetchedInv
      <4> QED
        BY <2>1, <3>1, <4>2, <4>3, <4>4, <4>5 DEF Runtime
    <3>2. CASE pc[a] # "version"
      BY <2>2, <3>2 DEF StageInv
    <3> QED
      BY <3>1, <3>2
  <2>4. fetched' \in [Apis -> Fetched \cup {NoApi}]
    BY <1>1, <2>3 DEF NodeUpgrade
  <2>5. TypeOK'
    BY <2>1, <2>4 DEF TypeOK
  <2>6. StageInv' /\ FetchedInv'
    BY <2>1, <2>3 DEF StageInv, FetchedInv
  <2>7. CacheIsWhole'
    BY <2>1 DEF CacheIsWhole, TypeOK, Cache, Runtime
  <2>8. ExtrinsicInv' /\ NonceNotAhead'
    BY <2>1 DEF ExtrinsicInv, NonceNotAhead
  <2> QED
    BY <2>5, <2>6, <2>7, <2>8
<1>2. ASSUME NEW x \in pool, NodeExecutes(x) PROVE CacheInv'
  <2>1. /\ x \in Extrinsic /\ x.spec_version = runtime
        /\ nonce \in Nonce /\ nonce' = nonce + 1 /\ nonce' \in Nonce
        /\ pool' = pool \ {x}
        /\ executed' = executed \cup {[extrinsic |-> x, runtime |-> runtime]}
        /\ UNCHANGED <<runtime, cache, pc, fetched, xt>>
    BY <1>2 DEF NodeExecutes, Valid, TypeOK, Nonce, apiVars
  <2>2. TypeOK'
    BY <2>1 DEF TypeOK
  <2>3. StageInv' /\ FetchedInv' /\ CacheIsWhole'
    BY <2>1 DEF StageInv, FetchedInv, CacheIsWhole
  <2>4. ExtrinsicInv'
    BY <2>1 DEF ExtrinsicInv
  <2>5. NonceNotAhead'
    BY <2>1 DEF NonceNotAhead, TypeOK, Extrinsic, Nonce
  <2> QED
    BY <2>2, <2>3, <2>4, <2>5
<1>3. ASSUME NEW x \in pool, NodeDrops(x) PROVE CacheInv'
  <2>1. pool' = pool \ {x} /\ UNCHANGED <<runtime, nonce, executed, cache, pc, fetched, xt>>
    BY <1>3 DEF NodeDrops, apiVars
  <2>2. TypeOK' /\ StageInv' /\ FetchedInv' /\ CacheIsWhole'
    BY <2>1 DEF TypeOK, StageInv, FetchedInv, CacheIsWhole
  <2>3. ExtrinsicInv' /\ NonceNotAhead'
    BY <2>1 DEF ExtrinsicInv, NonceNotAhead
  <2> QED
    BY <2>2, <2>3
<1> QED
  BY <1>1, <1>2, <1>3 DEF Node

\* new and update_runtime.
LEMMA UpdateKeepsCache ==
  ASSUME CacheInv, NEW a \in Apis,
         GetGenesisHash(a) \/ UpdateRuntime(a) \/ GetMetadata(a) \/ GetRuntimeVersion(a)
           \/ RequestFails(a)
  PROVE  CacheInv'
<1> USE DEF CacheInv
<1>1. /\ UNCHANGED <<runtime, nonce, pool, executed, xt>>
      /\ pc \in [Apis -> PC] /\ fetched \in [Apis -> Fetched \cup {NoApi}]
      /\ cache \in [Apis -> Cache \cup {NoApi}]
      /\ runtime \in Runtime /\ runtime \in Nat
  BY DEF TypeOK, GetGenesisHash, UpdateRuntime, GetMetadata, GetRuntimeVersion, RequestFails,
         nodeVars, Runtime
<1>2. ExtrinsicInv' /\ NonceNotAhead'
  BY <1>1 DEF ExtrinsicInv, NonceNotAhead
<1>3. CASE GetGenesisHash(a) \/ UpdateRuntime(a)
  <2>1. /\ pc' = [pc EXCEPT ![a] = "metadata"] /\ pc[a] \in {"new", "idle"}
        /\ UNCHANGED <<cache, fetched>>
    BY <1>3 DEF GetGenesisHash, UpdateRuntime, Goto
  <2>2. TypeOK' /\ StageInv' /\ FetchedInv' /\ CacheIsWhole'
    BY <1>1, <2>1 DEF TypeOK, PC, StageInv, FetchedInv, CacheIsWhole
  <2> QED
    BY <1>2, <2>2
<1>4. CASE GetMetadata(a)
  <2> DEFINE half == [metadata |-> runtime, began |-> runtime, torn |-> FALSE]
  <2>1. /\ pc' = [pc EXCEPT ![a] = "version"] /\ pc[a] = "metadata"
        /\ fetched' = [fetched EXCEPT ![a] = half]
        /\ UNCHANGED cache
    BY <1>4 DEF GetMetadata, Goto, KeepNothing
  <2>2. half \in Fetched /\ half # NoApi
    <3>1. half \in Fetched
      BY <1>1 DEF Fetched
    <3> QED
      BY <3>1, Distinct
  <2>3. TypeOK'
    BY <1>1, <2>1, <2>2 DEF TypeOK, PC
  <2>4. StageInv'
    BY <1>1, <2>1, <2>2 DEF StageInv
  <2>5. FetchedInv'
    <3>1. \A b \in Apis : fetched'[b] = IF b = a THEN half ELSE fetched[b]
      BY <1>1, <2>1
    <3> QED
      BY <1>1, <3>1 DEF FetchedInv
  <2>6. CacheIsWhole'
    BY <1>1, <2>1 DEF CacheIsWhole
  <2> QED
    BY <1>2, <2>3, <2>4, <2>5, <2>6
<1>5. CASE GetRuntimeVersion(a)
  <2> DEFINE new == KeepBoth(a)
  <2>1. /\ pc' = [pc EXCEPT ![a] = "idle"] /\ pc[a] = "version"
        /\ cache' = [cache EXCEPT ![a] = new]
        /\ fetched' = [fetched EXCEPT ![a] = NoApi]
    BY <1>5 DEF GetRuntimeVersion, Goto
  <2>2. /\ fetched[a] \in Fetched
        /\ fetched[a].began <= fetched[a].metadata
        /\ fetched[a].metadata <= runtime
        /\ ~fetched[a].torn => fetched[a].metadata = runtime
    BY <1>1, <2>1 DEF StageInv, FetchedInv
  <2>3. /\ new \in Cache /\ new # NoApi
        /\ new.began = fetched[a].began /\ new.metadata = fetched[a].metadata
        /\ new.runtime_version = runtime /\ new.torn = fetched[a].torn
    BY <1>1, <2>2 DEF KeepBoth, Cache, Fetched
  <2> HIDE DEF new
  <2>4. \A b \in Apis : /\ cache'[b] = IF b = a THEN new ELSE cache[b]
                        /\ fetched'[b] = IF b = a THEN NoApi ELSE fetched[b]
                        /\ pc'[b] = IF b = a THEN "idle" ELSE pc[b]
    BY <1>1, <2>1
  <2>5. TypeOK'
    BY <1>1, <2>1, <2>3 DEF TypeOK, PC
  <2>6. StageInv'
    BY <1>1, <2>1, <2>3, <2>4 DEF StageInv
  <2>7. FetchedInv'
    BY <1>1, <2>4 DEF FetchedInv
  <2>8. CacheIsWhole'
    BY <1>1, <2>2, <2>3, <2>4 DEF CacheIsWhole
  <2> QED
    BY <1>2, <2>5, <2>6, <2>7, <2>8
<1>6. CASE RequestFails(a)
  <2>1. /\ pc[a] \in {"metadata", "version"}
        /\ pc' = [pc EXCEPT ![a] = IF cache[a] = NoApi THEN "new" ELSE "idle"]
        /\ fetched' = [fetched EXCEPT ![a] = NoApi]
        /\ UNCHANGED cache
    BY <1>6 DEF RequestFails, Goto
  <2>2. TypeOK'
    BY <1>1, <2>1 DEF TypeOK, PC
  <2>3. StageInv' /\ FetchedInv' /\ CacheIsWhole'
    BY <1>1, <2>1 DEF StageInv, FetchedInv, CacheIsWhole
  <2> QED
    BY <1>2, <2>2, <2>3
<1> QED
  BY <1>3, <1>4, <1>5, <1>6

\* compose_extrinsic! and submit_extrinsic.
LEMMA ComposeKeepsCache ==
  ASSUME CacheInv, NEW a \in Apis,
         ComposeCall(a) \/ GetNonce(a) \/ GetNoncePanics(a) \/ SubmitExtrinsic(a) \/ GiveUp(a)
  PROVE  CacheInv'
<1> USE DEF CacheInv
<1>1. /\ UNCHANGED <<runtime, nonce, executed, cache, fetched>>
      /\ pc \in [Apis -> PC] /\ xt \in [Apis -> Extrinsic \cup {NoApi}]
      /\ cache \in [Apis -> Cache \cup {NoApi}]
      /\ nonce \in Nonce /\ 0 \in Nonce
  BY DEF TypeOK, ComposeCall, GetNonce, GetNoncePanics, SubmitExtrinsic, GiveUp, nodeVars, Nonce
<1>2. FetchedInv' /\ CacheIsWhole'
  BY <1>1 DEF FetchedInv, CacheIsWhole
<1>3. CASE ComposeCall(a)
  <2> DEFINE x == [metadata |-> cache[a].metadata, spec_version |-> cache[a].runtime_version,
                   nonce |-> 0, torn |-> cache[a].torn]
  <2>1. /\ pc[a] = "idle" /\ pc' = [pc EXCEPT ![a] = "nonce"]
        /\ xt' = [xt EXCEPT ![a] = x] /\ UNCHANGED pool
    BY <1>3 DEF ComposeCall, Goto, nodeVars
  <2>2. cache[a] \in Cache /\ cache[a] # NoApi
    BY <1>1, <2>1 DEF StageInv
  <2>3. x \in Extrinsic /\ x # NoApi /\ x.nonce = 0
    BY <1>1, <2>2 DEF Extrinsic, Cache
  <2>4. Consistent(x)
    BY <2>2 DEF Consistent, CacheIsWhole
  <2> HIDE DEF x
  <2>5. \A b \in Apis : /\ xt'[b] = IF b = a THEN x ELSE xt[b]
                        /\ pc'[b] = IF b = a THEN "nonce" ELSE pc[b]
    BY <1>1, <2>1
  <2>6. TypeOK'
    BY <1>1, <2>1, <2>3 DEF TypeOK, PC
  <2>7. StageInv'
    BY <1>1, <2>2, <2>3, <2>5, <2>1 DEF StageInv
  <2>8. ExtrinsicInv'
    BY <1>1, <2>1, <2>4, <2>5 DEF ExtrinsicInv
  <2>9. NonceNotAhead'
    BY <1>1, <2>1, <2>3, <2>5 DEF NonceNotAhead, Nonce
  <2> QED
    BY <1>2, <2>6, <2>7, <2>8, <2>9
<1>4. CASE GetNonce(a)
  <2>1. PICK n \in {AccountNonce, 0} : xt' = [xt EXCEPT ![a].nonce = n]
    BY <1>4 DEF GetNonce
  <2> DEFINE x == [xt[a] EXCEPT !.nonce = n]
  <2>2. /\ pc[a] = "nonce" /\ pc' = [pc EXCEPT ![a] = "submit"]
        /\ xt' = [xt EXCEPT ![a] = x] /\ UNCHANGED pool
    BY <1>4, <2>1 DEF GetNonce, Goto, nodeVars
  <2>3. xt[a] \in Extrinsic /\ xt[a] # NoApi /\ n \in Nonce /\ n <= nonce
    BY <1>1, <2>1, <2>2 DEF StageInv, AccountNonce, Nonce
  <2>4. /\ x \in Extrinsic /\ x # NoApi /\ x.nonce = n
        /\ x.torn = xt[a].torn /\ x.metadata = xt[a].metadata
        /\ x.spec_version = xt[a].spec_version
    BY <2>3 DEF Extrinsic
  <2>5. Consistent(x)
    BY <2>3, <2>4 DEF Consistent, ExtrinsicInv
  <2> HIDE DEF x
  <2>6. \A b \in Apis : /\ xt'[b] = IF b = a THEN x ELSE xt[b]
                        /\ pc'[b] = IF b = a THEN "submit" ELSE pc[b]
    BY <1>1, <2>2
  <2>7. TypeOK'
    BY <1>1, <2>2, <2>4 DEF TypeOK, PC
  <2>8. StageInv'
    BY <1>1, <2>2, <2>4, <2>6 DEF StageInv
  <2>9. ExtrinsicInv'
    BY <1>1, <2>2, <2>5, <2>6 DEF ExtrinsicInv
  <2>10. NonceNotAhead'
    BY <1>1, <2>2, <2>3, <2>4, <2>6 DEF NonceNotAhead
  <2> QED
    BY <1>2, <2>7, <2>8, <2>9, <2>10
<1>5. CASE GetNoncePanics(a)
  <2>1. /\ pc[a] = "nonce" /\ pc' = [pc EXCEPT ![a] = "panicked"] /\ UNCHANGED <<pool, xt>>
    BY <1>5 DEF GetNoncePanics, Goto, nodeVars
  <2>2. TypeOK' /\ StageInv' /\ ExtrinsicInv' /\ NonceNotAhead'
    BY <1>1, <2>1 DEF TypeOK, PC, StageInv, ExtrinsicInv, NonceNotAhead
  <2> QED
    BY <1>2, <2>2
<1>6. CASE SubmitExtrinsic(a) \/ GiveUp(a)
  <2>1. /\ pc[a] = "submit"
        /\ \/ UNCHANGED <<pc, xt>>
           \/ pc' = [pc EXCEPT ![a] = "idle"] /\ xt' = [xt EXCEPT ![a] = NoApi]
        /\ \/ UNCHANGED pool
           \/ pool' = pool \cup {xt[a]}
    <3>1. CASE GiveUp(a)
      BY <3>1 DEF GiveUp, Goto, nodeVars
    <3>2. CASE SubmitExtrinsic(a)
      <4>1. pc[a] = "submit" /\ (UNCHANGED pool \/ pool' = pool \cup {xt[a]})
        BY <3>2 DEF SubmitExtrinsic
      <4>2. CASE pc' = pc
        <5>1. pc'[a] # "idle"
          BY <4>1, <4>2
        <5> QED
          BY <3>2, <4>1, <4>2, <5>1 DEF SubmitExtrinsic
      <4>3. CASE pc' = [pc EXCEPT ![a] = "idle"]
        <5>1. pc'[a] = "idle"
          BY <1>1, <4>3
        <5> QED
          BY <3>2, <4>1, <4>3, <5>1 DEF SubmitExtrinsic
      <4> QED
        BY <3>2, <4>2, <4>3 DEF SubmitExtrinsic
    <3> QED
      BY <1>6, <3>1, <3>2
  <2>2. xt[a] \in Extrinsic /\ xt[a] # NoApi /\ Consistent(xt[a]) /\ xt[a].nonce <= nonce
    BY <1>1, <2>1 DEF StageInv, ExtrinsicInv, NonceNotAhead
  <2>3. TypeOK'
    BY <1>1, <2>1, <2>2 DEF TypeOK, PC
  <2>4. StageInv'
    BY <1>1, <2>1 DEF StageInv
  <2>5. ExtrinsicInv' /\ NonceNotAhead'
    BY <1>1, <2>1, <2>2 DEF ExtrinsicInv, NonceNotAhead
  <2> QED
    BY <1>2, <2>3, <2>4, <2>5
<1> QED
  BY <1>3, <1>4, <1>5, <1>6

\* CacheInv holds for ever.
LEMMA CacheInvariant == Spec => []CacheInv
<1>1. Init => CacheInv
  BY DEF Init, CacheInv, TypeOK, StageInv, FetchedInv, CacheIsWhole, ExtrinsicInv, NonceNotAhead,
         PC, Runtime, Nonce
<1>2. CacheInv /\ [Next]_vars => CacheInv'
  <2> SUFFICES ASSUME CacheInv, [Next]_vars PROVE CacheInv'
    OBVIOUS
  <2>1. CASE UNCHANGED vars
    BY <2>1
    DEF vars, nodeVars, apiVars, CacheInv, TypeOK, StageInv, FetchedInv, CacheIsWhole,
        ExtrinsicInv, NonceNotAhead
  <2>2. ASSUME NEW a \in Apis, Api(a) PROVE CacheInv'
    BY <2>2, UpdateKeepsCache, ComposeKeepsCache DEF Api
  <2> QED
    BY <2>1, <2>2, NodeKeepsCache DEF Next
<1> QED
  BY <1>1, <1>2, PTL DEF Spec

-----------------------------------------------------------------------------
\* Type correctness, for any number of Api values sharing a signer.
THEOREM TypeCorrect == Spec => []TypeOK
<1>1. CacheInv => TypeOK
  BY DEF CacheInv
<1> QED
  BY <1>1, CacheInvariant, PTL

\* Whatever update_runtime is interrupted by, an Api's metadata and version
\* are from one update, and the metadata is not the newer of the two.
THEOREM CachesAreWhole == Spec => []CacheIsWhole
<1>1. CacheInv => CacheIsWhole
  BY DEF CacheInv
<1> QED
  BY <1>1, CacheInvariant, PTL

\* A signed call is executed under the runtime its indexes are from, unless
\* its Api's last update was torn by an upgrade.
THEOREM CallsAreExecutedAsMeant == Spec => []ExecutedAsMeant
<1>1. CacheInv => ExecutedAsMeant
  BY DEF CacheInv, ExtrinsicInv, Consistent, ExecutedAsMeant
<1> QED
  BY <1>1, CacheInvariant, PTL

\* However many clones compose for the same signer, no nonce is ahead.
THEOREM NoncesAreNotAhead == Spec => []NonceNotAhead
<1>1. CacheInv => NonceNotAhead
  BY DEF CacheInv
<1> QED
  BY <1>1, CacheInvariant, PTL
=============================================================================
