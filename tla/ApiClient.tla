----------------------------- MODULE ApiClient -----------------------------
(***************************************************************************)
(* The Api struct (src/api/api_client.rs) between a node that upgrades its *)
(* runtime and callers that compose and submit signed extrinsics.          *)
(*                                                                         *)
(* An Api caches the metadata and the runtime version it has fetched with  *)
(* two separate requests.  compose_extrinsic! takes the call's indexes     *)
(* from the cached metadata, fetches the signer's nonce and signs with the *)
(* cached version; the node checks that version and the nonce, and decodes *)
(* the call under the runtime it has by then.                              *)
(*                                                                         *)
(* Each Api is used by one thread; all have the same signer and node.  A   *)
(* runtime is identified by a number that stands for its metadata and its  *)
(* spec_version.  A call that the metadata lacks, a missing signer and a   *)
(* request that fails in compose_extrinsic! panic in an unwrap.            *)
(***************************************************************************)
EXTENDS Integers, FiniteSets

CONSTANTS
  Apis,           \* values of Api
  NoApi,          \* no Api value yet, new has not succeeded
  MaxRuntime,     \* bound: the last runtime of the node
  MaxExtrinsics   \* bound: extrinsics of the signer the node executes

VARIABLES
  runtime,   \* the node's runtime
  nonce,     \* the signer's nonce in the node's state
  pool,      \* extrinsics the node has accepted and not yet executed
  executed,  \* history: extrinsics the node has executed, with their runtime
  cache,     \* per Api: metadata and runtime_version, or NoApi
  pc,        \* per Api: what its caller is doing
  fetched,   \* per Api: the metadata of an unfinished new or update_runtime
  xt         \* per Api: the extrinsic being composed or submitted

nodeVars == <<runtime, nonce, pool, executed>>
apiVars == <<cache, pc, fetched, xt>>
vars == <<nodeVars, apiVars>>

Runtime == 1..MaxRuntime
Nonce == 0..MaxExtrinsics

\* A signed extrinsic, reduced to what decides its fate: the metadata its call
\* indexes are taken from, the spec_version in its signature and its nonce.
\* "torn" is history: whether an upgrade came between the two requests its cache
\* is from.
Extrinsic == [metadata : Runtime, spec_version : Runtime, nonce : Nonce, torn : BOOLEAN]

\* "began" and "torn" are history too: the runtime when the update began, and
\* as above.
Cache == [metadata : Runtime, runtime_version : Runtime, began : Runtime, torn : BOOLEAN]
Fetched == [metadata : Runtime, began : Runtime, torn : BOOLEAN]

ASSUME ApiAssumption ==
  /\ MaxRuntime \in Nat \ {0}
  /\ MaxExtrinsics \in Nat
  /\ NoApi \notin Cache \cup Fetched \cup Extrinsic

PC == {"new", "metadata", "version", "idle", "nonce", "submit", "panicked"}

-----------------------------------------------------------------------------
Init ==
  /\ runtime = 1 /\ nonce = 0
  /\ pool = {} /\ executed = {}
  /\ cache = [a \in Apis |-> NoApi]
  /\ pc = [a \in Apis |-> "new"]
  /\ fetched = [a \in Apis |-> NoApi]
  /\ xt = [a \in Apis |-> NoApi]

-----------------------------------------------------------------------------
(* The node.                                                               *)

\* An upgrade tears the update of every Api that is between its two requests.
NodeUpgrade ==
  /\ runtime < MaxRuntime
  /\ runtime' = runtime + 1
  /\ fetched' = [a \in Apis |-> IF pc[a] = "version" THEN [fetched[a] EXCEPT !.torn = TRUE]
                                ELSE fetched[a]]
  /\ UNCHANGED <<nonce, pool, executed, cache, pc, xt>>

Valid(x) == x.spec_version = runtime /\ x.nonce >= nonce

NodeExecutes(x) ==
  /\ x \in pool
  /\ Valid(x) /\ x.nonce = nonce /\ nonce < MaxExtrinsics
  /\ nonce' = nonce + 1
  /\ pool' = pool \ {x}
  /\ executed' = executed \cup {[extrinsic |-> x, runtime |-> runtime]}
  /\ UNCHANGED <<runtime, apiVars>>

NodeDrops(x) ==
  /\ x \in pool
  /\ pool' = pool \ {x}
  /\ UNCHANGED <<runtime, nonce, executed, apiVars>>

Node == NodeUpgrade \/ \E x \in pool : NodeExecutes(x) \/ NodeDrops(x)

-----------------------------------------------------------------------------
(* new and update_runtime.                                                 *)

Goto(a, where) == pc' = [pc EXCEPT ![a] = where]

\* new: the genesis hash, which never changes, is there.
GetGenesisHash(a) ==
  /\ pc[a] = "new"
  /\ Goto(a, "metadata")
  /\ UNCHANGED <<nodeVars, cache, fetched, xt>>

UpdateRuntime(a) ==
  /\ pc[a] = "idle"
  /\ Goto(a, "metadata")
  /\ UNCHANGED <<nodeVars, cache, fetched, xt>>

\* Variant of update_runtime that keeps the metadata at once.
KeepMetadataAtOnce(a) ==
  cache' = IF cache[a] = NoApi THEN cache ELSE [cache EXCEPT ![a].metadata = runtime]

\* Between the requests of update_runtime the struct stays as it is.
KeepNothing(a) == UNCHANGED cache

GetMetadata(a) ==
  /\ pc[a] = "metadata"
  /\ Goto(a, "version")
  /\ fetched' = [fetched EXCEPT ![a] = [metadata |-> runtime, began |-> runtime, torn |-> FALSE]]
  /\ KeepNothing(a)
  /\ UNCHANGED <<nodeVars, xt>>

\* Variant of update_runtime that forgets the metadata it has fetched.
KeepVersionOnly(a) ==
  [metadata |-> IF cache[a] = NoApi THEN fetched[a].metadata ELSE cache[a].metadata,
   runtime_version |-> runtime, began |-> fetched[a].began, torn |-> fetched[a].torn]

\* self.metadata = metadata; self.runtime_version = runtime_version
KeepBoth(a) ==
  [metadata |-> fetched[a].metadata, runtime_version |-> runtime,
   began |-> fetched[a].began, torn |-> fetched[a].torn]

GetRuntimeVersion(a) ==
  /\ pc[a] = "version"
  /\ Goto(a, "idle")
  /\ cache' = [cache EXCEPT ![a] = KeepBoth(a)]
  /\ fetched' = [fetched EXCEPT ![a] = NoApi]
  /\ UNCHANGED <<nodeVars, xt>>

\* One of the requests fails, or is answered with an error (null is neither
\* metadata nor a version): new and update_runtime return it.
RequestFails(a) ==
  /\ pc[a] \in {"metadata", "version"}
  /\ Goto(a, IF cache[a] = NoApi THEN "new" ELSE "idle")
  /\ fetched' = [fetched EXCEPT ![a] = NoApi]
  /\ UNCHANGED <<nodeVars, cache, xt>>

-----------------------------------------------------------------------------
(* compose_extrinsic! and submit_extrinsic.                                *)

\* compose_call! with a clone of the cached metadata.
ComposeCall(a) ==
  /\ pc[a] = "idle"
  /\ Goto(a, "nonce")
  /\ xt' = [xt EXCEPT ![a] = [metadata |-> cache[a].metadata,
                              spec_version |-> cache[a].runtime_version,
                              nonce |-> 0, torn |-> cache[a].torn]]
  /\ UNCHANGED <<nodeVars, cache, fetched>>

\* Variant of get_nonce that counts on the extrinsics in the pool.
NonceAfterPool == (nonce + Cardinality(pool)) % (MaxExtrinsics + 1)

\* The signer's account as the node has it.
AccountNonce == nonce

\* get_nonce, then the extrinsic is signed.  An account that is not there, and
\* an error answer, whose result is null like None, have nonce 0.
GetNonce(a) ==
  /\ pc[a] = "nonce"
  /\ Goto(a, "submit")
  /\ \E n \in {AccountNonce, 0} : xt' = [xt EXCEPT ![a].nonce = n]
  /\ UNCHANGED <<nodeVars, cache, fetched>>

\* get_nonce().unwrap() on an error.
GetNoncePanics(a) ==
  /\ pc[a] = "nonce"
  /\ Goto(a, "panicked")
  /\ UNCHANGED <<nodeVars, cache, fetched, xt>>

\* The request reaches the node, which takes the extrinsic or refuses it; an
\* answer that is lost makes submit_extrinsic return an error, and the caller
\* may submit the same extrinsic again.
SubmitExtrinsic(a) ==
  /\ pc[a] = "submit"
  /\ pool' = IF Valid(xt[a]) THEN pool \cup {xt[a]} ELSE pool
  /\ pc' \in {[pc EXCEPT ![a] = "idle"], pc}
  /\ xt' = IF pc'[a] = "idle" THEN [xt EXCEPT ![a] = NoApi] ELSE xt
  /\ UNCHANGED <<runtime, nonce, executed, cache, fetched>>

\* submit_extrinsic returns an error, and the caller gives up on the extrinsic.
GiveUp(a) ==
  /\ pc[a] = "submit"
  /\ Goto(a, "idle")
  /\ xt' = [xt EXCEPT ![a] = NoApi]
  /\ UNCHANGED <<nodeVars, cache, fetched>>

Api(a) ==
  \/ GetGenesisHash(a)
  \/ UpdateRuntime(a)
  \/ GetMetadata(a)
  \/ GetRuntimeVersion(a)
  \/ RequestFails(a)
  \/ ComposeCall(a)
  \/ GetNonce(a)
  \/ GetNoncePanics(a)
  \/ SubmitExtrinsic(a)
  \/ GiveUp(a)

-----------------------------------------------------------------------------
Next == Node \/ \E a \in Apis : Api(a)

Spec == Init /\ [][Next]_vars

-----------------------------------------------------------------------------
TypeOK ==
  /\ runtime \in Runtime /\ nonce \in Nonce
  /\ pool \subseteq Extrinsic
  /\ executed \subseteq [extrinsic : Extrinsic, runtime : Runtime]
  /\ cache \in [Apis -> Cache \cup {NoApi}]
  /\ pc \in [Apis -> PC]
  /\ fetched \in [Apis -> Fetched \cup {NoApi}]
  /\ xt \in [Apis -> Extrinsic \cup {NoApi}]

\* What an Api caches is from one update, whole: its metadata is at least as
\* new as the runtime when that update began and at most as new as its runtime
\* version, also when later updates fail half-way (api_client.rs:208-218).
CacheIsWhole ==
  \A a \in Apis : cache[a] # NoApi =>
    /\ cache[a].began <= cache[a].metadata
    /\ cache[a].metadata <= cache[a].runtime_version
    /\ cache[a].runtime_version <= runtime
    /\ ~cache[a].torn => cache[a].metadata = cache[a].runtime_version

\* The node executes a signed call as it was meant: under the runtime whose
\* metadata its indexes are from, unless an upgrade came between the two
\* requests the cache is from.  Stale caches are caught by the signed version.
ExecutedAsMeant ==
  \A e \in executed : e.extrinsic.metadata = e.runtime \/ e.extrinsic.torn

\* No extrinsic, in whatever hands, is ahead of the signer's nonce: none waits
\* in the pool as a future one for another that may never come.
NonceNotAhead ==
  /\ \A x \in pool : x.nonce <= nonce
  /\ \A a \in Apis : xt[a] # NoApi => xt[a].nonce <= nonce
=============================================================================
