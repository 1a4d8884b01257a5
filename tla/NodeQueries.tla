------------------------------ MODULE NodeQueries ---------------------------
(***************************************************************************)
(* One-shot queries of an Api: storage, keys and proofs (state.rs), blocks *)
(* by hash or by number (chain.rs), accounts (frame_system.rs), constants  *)
(* and fees, each by requests over a tungstenite connection of its own     *)
(* (direct_rpc_request), while the chain grows, forks and is upgraded.     *)
(*                                                                         *)
(* A block is the sequence of the blocks that lead to it, itself included, *)
(* each of them a record of a label, which tells forks apart, and of the   *)
(* version of the runtime it leaves behind; a block is its own hash.  The  *)
(* metadata that the Api holds is known by the version it came with.       *)
(***************************************************************************)
EXTENDS StorageKeys, Fees, FiniteSets

CONSTANTS
  Runtimes,     \* sequence of the metadata of the successive runtimes (MetadataFrom)
  Stored,       \* what is stored in every block: [pallet, name, keys, in], in the runtimes that have it
  Queries,      \* what callers ask
  FeeAnswers,   \* the fee details a node may answer with: [inclusion_fee]
  Labels,       \* names of the blocks of one height
  MaxHeight,    \* bound: the height of the chain
  MaxBlocks,    \* bound: the blocks there are
  MaxFrames     \* bound: the messages without text in one connection

VARIABLES
  blocks,       \* the blocks the node has
  best,         \* the head of its best chain
  finalized,    \* the head of its finalized chain
  known,        \* the version of the Api's metadata
  query,        \* the query under way, or the last one
  request,      \* its current request: <<method, parameter, ...>>
  pc,           \* idle, waiting (for the answer to request) or done
  line,         \* messages of the node that the client has not read, oldest first
  answered,     \* the node has answered the request or given up the connection
  result,       \* what the query returned
  settled,      \* the head of the finalized chain when the query was asked
  bests,        \* the best blocks since then
  refused       \* a request of the query was answered with an error

vars == <<blocks, best, finalized, known, query, request, pc, line, answered,
          result, settled, bests, refused>>

Genesis == <<>>
SpecAt(block) == IF block = Genesis THEN 1 ELSE Last(block).spec
metadata == Runtimes[known]

Ok(val) == [err |-> "", val |-> val]
Err(e) == [err |-> e]
Some(x) == <<x>>
Nothing == <<>>      \* Option's None, and JSON's null

-----------------------------------------------------------------------------
(* The node.  It looks a key up among the keys its own runtime gives to    *)
(* what is stored; a parameter Nothing means the best block.               *)

StoredAt(block) == {s \in Stored : SpecAt(block) \in s.in}

\* The hashers as the runtime defines them.
RuntimeHash(key) ==
  [Identity         |-> <<Raw(key)>>,
   Blake2_128       |-> <<Hashed("Blake2_128", key)>>,
   Blake2_128Concat |-> <<Hashed("Blake2_128", key), Raw(key)>>,
   Blake2_256       |-> <<Hashed("Blake2_256", key)>>,
   Twox128          |-> <<Hashed("Twox128", key)>>,
   Twox256          |-> <<Hashed("Twox256", key)>>,
   Twox64Concat     |-> <<Hashed("Twox64", key), Raw(key)>>]

Hasher == DOMAIN RuntimeHash("")

\* How a runtime keeps an entry.
LayoutIn(version, prefix, name) ==
  AndThen(pallet(Runtimes[version], prefix), LAMBDA p : storage(p, name))

\* Runtimes are known to give every entry its own name, and what is stored is stored
\* under as many keys as its entry has hashers.
ASSUME RuntimesAssumption ==
  /\ IsASeq(Runtimes) /\ Runtimes # <<>>
  /\ \A version \in DOMAIN Runtimes : \A p \in DOMAIN Runtimes[version].pallets :
       LET entries == Runtimes[version].pallets[p].storage
       IN  \A name \in DOMAIN entries :
             entries[name].name = name /\ entries[name].hashers \in Seq(Hasher)

ASSUME StoredAssumption ==
  \A s \in Stored :
    /\ IsASeq(s.keys) /\ s.in \subseteq DOMAIN Runtimes
    /\ \A version \in s.in :
         LET layout == LayoutIn(version, s.pallet, s.name)
         IN  layout.err = "" /\ Len(s.keys) = Len(layout.val.hashers)

NodeKey(block, s) ==
  LET entry == LayoutIn(SpecAt(block), s.pallet, s.name).val
  IN  <<Hashed("Twox128", s.pallet), Hashed("Twox128", s.name)>>
        \o FlattenSeq([i \in DOMAIN s.keys |-> RuntimeHash(s.keys[i])[entry.hashers[i]]])

At(hash) == IF hash = Nothing THEN best ELSE hash[1]
Found1(S, Make(_)) == IF S = {} THEN Nothing ELSE Some(Make(CHOOSE x \in S : TRUE))

Answer(method, params) ==
  LET block == At(params[2])
  IN  CASE method = "state_getStorage" ->
             Found1({s \in StoredAt(block) : NodeKey(block, s) = params[1]},
                    LAMBDA s : [of |-> s, at |-> block])
        [] method = "state_getReadProof" ->
             Some([keys |-> params[1], at |-> block])
        [] method = "state_getKeys" ->
             Some({s \in StoredAt(block) : IsPrefix(params[1], NodeKey(block, s))})

\* The answers to the methods about blocks.
ChainAnswer(method, param) ==
  CASE method = "chain_getBlockHash" ->
         IF param = Nothing THEN Some(best)
         ELSE IF param[1] <= Len(best) THEN Some(SubSeq(best, 1, param[1])) ELSE Nothing
    [] method \in {"chain_getBlock", "chain_getHeader"} ->
         IF At(param) \in blocks THEN Some(At(param)) ELSE Nothing
    [] method = "chain_getFinalizedHead" -> Some(finalized)

NodeAnswers ==
  /\ pc = "waiting" /\ ~answered
  /\ answered' = TRUE
  /\ \/ /\ request.method \in {"state_getStorage", "state_getReadProof", "state_getKeys"}
        /\ line' = Append(line, [text |-> Answer(request.method, request.params)])
        /\ UNCHANGED refused
     \/ /\ request.method \in {"chain_getBlockHash", "chain_getBlock", "chain_getHeader",
                               "chain_getFinalizedHead"}
        /\ line' = Append(line, [text |-> ChainAnswer(request.method, request.params[1])])
        /\ UNCHANGED refused
     \/ /\ request.method = "payment_queryFeeDetails"
        /\ \E details \in FeeAnswers : line' = Append(line, [text |-> Some(details)])
        /\ UNCHANGED refused
     \/ /\ line' = Append(line, [error |-> "refused"])
        /\ refused' = TRUE
     \/ /\ line' = Append(line, [lost |-> TRUE])
        /\ UNCHANGED refused
  /\ UNCHANGED <<blocks, best, finalized, known, query, request, pc, result, settled, bests>>

\* A message without text: binary, ping, pong or frame.
NodeSendsFrame ==
  /\ pc = "waiting" /\ ~answered /\ Len(line) < MaxFrames
  /\ line' = Append(line, [frame |-> TRUE])
  /\ UNCHANGED <<blocks, best, finalized, known, query, request, pc, answered, result,
                 settled, bests, refused>>

\* A block on top of one that does not undo finality, perhaps with an upgrade; it
\* is the new best block, or stands beside it.  (The chain rests while a caller
\* takes a result: that changes nothing in either.)
NewBlock ==
  /\ pc # "done" /\ Cardinality(blocks) < MaxBlocks
  /\ \E parent \in blocks, label \in Labels, upgrade \in {0, 1} :
       LET spec  == SpecAt(parent) + upgrade
           block == Append(parent, [label |-> label, spec |-> spec])
       IN  /\ Len(parent) < MaxHeight /\ spec <= Len(Runtimes)
           /\ IsPrefix(finalized, block) /\ block \notin blocks
           /\ blocks' = blocks \cup {block}
           /\ best' \in IF Len(block) > Len(best) THEN {block} ELSE {best, block}
           /\ bests' = IF pc = "idle" THEN {} ELSE bests \cup {best'}
  /\ UNCHANGED <<finalized, known, query, request, pc, line, answered, result, settled, refused>>

Finalize ==
  /\ pc # "done" /\ Len(finalized) < Len(best)
  /\ finalized' = SubSeq(best, 1, Len(finalized) + 1)
  /\ UNCHANGED <<blocks, best, known, query, request, pc, line, answered, result, settled, bests, refused>>

-----------------------------------------------------------------------------
(* The client. *)

\* The storage key that a query starts with, or the MetadataError.
QueryKey(q) ==
  CASE q.op \in {"value", "value_proof"} -> storage_value_key(metadata, q.pallet, q.name)
    [] q.op \in {"map", "map_proof"} -> storage_map_key(metadata, q.pallet, q.name, q.keys[1])
    [] q.op \in {"double_map", "double_map_proof"} ->
         storage_double_map_key(metadata, q.pallet, q.name, q.keys[1], q.keys[2])
    [] q.op = "map_keys" -> storage_map_key_prefix(metadata, q.pallet, q.name)
    [] q.op = "account_info" -> storage_map_key(metadata, "System", "Account", q.keys[1])

StorageReads == {"value", "map", "double_map", "account_info"}
StorageProofs == {"value_proof", "map_proof", "double_map_proof"}
KeyQueries == StorageReads \cup StorageProofs \cup {"map_keys"}
Operations == KeyQueries \cup {"constant", "block_by_num", "block", "header", "finalized_head",
                              "fee_details"}

\* A query gives as many keys as its function takes.
ASSUME QueriesAssumption ==
  \A q \in Queries :
    /\ q.op \in Operations
    /\ q.op \in StorageReads =>
         /\ IsASeq(q.keys)
         /\ Len(q.keys) = CASE q.op = "value" -> 0 [] q.op = "double_map" -> 2 [] OTHER -> 1
    /\ q.op = "account_info" => q.pallet = "System" /\ q.name = "Account"
    /\ q.op = "block_by_num" /\ q.number # Nothing => q.number[1] \in Nat

\* The first request of a query, or the error or the value it ends with at once.
FirstRequest(q) ==
  LET Req(method, params) == Ok([method |-> method, params |-> params])
  IN  CASE q.op \in StorageReads ->
             AndThen(QueryKey(q), LAMBDA key : Req("state_getStorage", <<key, q.at>>))
        [] q.op \in StorageProofs ->
             AndThen(QueryKey(q), LAMBDA key : Req("state_getReadProof", <<{key}, q.at>>))
        [] q.op = "map_keys" ->
             AndThen(QueryKey(q), LAMBDA key : Req("state_getKeys", <<key, q.at>>))
        [] q.op = "block_by_num" -> Req("chain_getBlockHash", <<q.number>>)
        [] q.op = "block" -> Req("chain_getBlock", <<q.at>>)
        [] q.op = "header" -> Req("chain_getHeader", <<q.at>>)
        [] q.op = "finalized_head" -> Req("chain_getFinalizedHead", <<Nothing>>)
        [] q.op = "fee_details" -> Req("payment_queryFeeDetails", <<Nothing>>)

get_constant(q) ==
  AndThen(pallet(metadata, q.pallet), LAMBDA p :
    AndThen(constant(p, q.name), LAMBDA value : Ok(value)))

\* A new connection: the request is written, and nothing has come yet.
Send(r) ==
  /\ request' = r /\ pc' = "waiting" /\ line' = <<>> /\ answered' = FALSE
  /\ result' = Ok(Nothing)
Return(r) == result' = r /\ pc' = "done" /\ UNCHANGED <<request, line, answered>>

\* A block to read from is one the caller has heard of.
Ask ==
  /\ pc = "idle"
  /\ \E q \in Queries :
       /\ q.op \in KeyQueries \cup {"block", "header"} =>
            q.at = Nothing \/ At(q.at) \in blocks
       /\ query' = q
       /\ \/ /\ q.op = "constant"
             /\ Return(get_constant(q))
          \/ /\ q.op # "constant" /\ FirstRequest(q).err # ""
             /\ Return(FirstRequest(q))
          \/ /\ q.op # "constant" /\ FirstRequest(q).err = ""
             /\ Send(FirstRequest(q).val)
          \/ /\ q.op # "constant" /\ FirstRequest(q).err = ""
             /\ Return(Err("ConnectionAttemptsExceeded"))
  /\ settled' = finalized
  /\ bests' = {best}
  /\ refused' = FALSE
  /\ UNCHANGED <<blocks, best, finalized, known>>

\* update_runtime between two queries (ApiClient has its steps).
UpdateRuntime ==
  /\ pc = "idle" /\ known # SpecAt(best)
  /\ known' = SpecAt(best)
  /\ UNCHANGED <<blocks, best, finalized, query, request, pc, line, answered, result, settled, bests, refused>>

\* read_until_text_message: what carries no text is passed over.
SkipFrame ==
  /\ pc = "waiting" /\ line # <<>> /\ "frame" \in DOMAIN Head(line)
  /\ line' = Tail(line)
  /\ UNCHANGED <<blocks, best, finalized, known, query, request, pc, answered, result,
                 settled, bests, refused>>

\* Variant of ReadLoss that reads on after a close frame.
ReadOnAfterClose ==
  /\ pc = "waiting" /\ line # <<>> /\ "lost" \in DOMAIN Head(line)
  /\ line' = Tail(line)
  /\ UNCHANGED <<blocks, best, finalized, known, query, request, pc, answered, result,
                 settled, bests, refused>>

ReadLoss ==
  /\ pc = "waiting" /\ line # <<>> /\ "lost" \in DOMAIN Head(line)
  /\ Return(Err("ConnectionClosed"))
  /\ UNCHANGED <<blocks, best, finalized, known, query, settled, bests, refused>>

\* The "result" of the answer: an error has none, and indexing gives null.
ResultOf(answer) == IF "text" \in DOMAIN answer THEN answer.text ELSE Nothing

\* Variant of get_signed_block_by_num that asks for the latest block.
LatestBlock(hash) == [method |-> "chain_getBlock", params |-> <<Nothing>>]

\* get_signed_block_by_num: whatever the first request gave is the hash of the next.
GetSignedBlock(hash) == [method |-> "chain_getBlock", params |-> <<hash>>]

ReadHash ==
  /\ pc = "waiting" /\ line # <<>> /\ DOMAIN Head(line) \in {{"text"}, {"error"}}
  /\ request.method = "chain_getBlockHash"
  /\ \/ Send(GetSignedBlock(ResultOf(Head(line))))
     \/ Return(Err("ConnectionAttemptsExceeded"))
  /\ UNCHANGED <<blocks, best, finalized, known, query, settled, bests, refused>>

\* What a query makes of the result of its last request.
Converted(r) ==
  IF query.op # "fee_details" \/ r = Nothing THEN Ok(r)
  ELSE LET details == FromJson(r[1])
       IN  IF Converts(details) THEN Ok(Some(details)) ELSE Err("TryFromIntError")

ReadAnswer ==
  /\ pc = "waiting" /\ line # <<>> /\ DOMAIN Head(line) \in {{"text"}, {"error"}}
  /\ request.method # "chain_getBlockHash"
  /\ Return(Converted(ResultOf(Head(line))))
  /\ UNCHANGED <<blocks, best, finalized, known, query, settled, bests, refused>>

\* No query: nothing of the last one is kept.
NoQuery ==
  [query |-> [op |-> "none"], request |-> [method |-> "none", params |-> <<>>]]

\* The caller has its result.
TakeResult ==
  /\ pc = "done"
  /\ pc' = "idle" /\ query' = NoQuery.query /\ request' = NoQuery.request
  /\ line' = <<>> /\ answered' = FALSE /\ result' = Ok(Nothing)
  /\ settled' = Genesis /\ bests' = {} /\ refused' = FALSE
  /\ UNCHANGED <<blocks, best, finalized, known>>

Init ==
  /\ blocks = {Genesis}
  /\ best = Genesis /\ finalized = Genesis
  /\ known = 1
  /\ pc = "idle" /\ query = NoQuery.query /\ request = NoQuery.request
  /\ line = <<>> /\ answered = FALSE /\ result = Ok(Nothing)
  /\ settled = Genesis /\ bests = {} /\ refused = FALSE

Receive == SkipFrame \/ ReadLoss \/ ReadHash \/ ReadAnswer

Next ==
  \/ NodeAnswers \/ NodeSendsFrame \/ NewBlock \/ Finalize
  \/ Ask \/ UpdateRuntime \/ TakeResult
  \/ Receive

\* The caller's thread reads what has come.
Spec == Init /\ [][Next]_vars /\ WF_vars(Receive)

-----------------------------------------------------------------------------
(* Properties. *)

Returned(ops) == pc = "done" /\ query.op \in ops /\ result.err = ""

\* The blocks a query is about: the one it names, or those that were the best.
AskedAt == IF query.at = Nothing THEN bests ELSE {query.at[1]}

IsAsked(s) == s.pallet = query.pallet /\ s.name = query.name /\ s.keys = query.keys

\* How a runtime keeps the entry that is asked for.
Layout(version) == LayoutIn(version, query.pallet, query.name)

\* A read gives the value of the very entry that was asked for, at the block that
\* was asked for, however old the Api's metadata is.  Nothing is given only if
\* nothing is stored there, if that runtime keeps the entry in another way than
\* the metadata says, or if the node refused, which looks the same to the caller.
\* The keys under the prefix of a map are those of that map and of no other
\* entry, whatever hashers the metadata gives it.
ReadIsTheEntry ==
  /\ Returned(StorageReads) /\ result.val # Nothing =>
       IsAsked(result.val[1].of) /\ result.val[1].at \in AskedAt
  /\ Returned(StorageReads) /\ result.val = Nothing /\ ~refused =>
       \E block \in AskedAt : \/ ~\E s \in StoredAt(block) : IsAsked(s)
                             \/ Layout(SpecAt(block)) # Layout(known)
  /\ Returned({"map_keys"}) /\ result.val # Nothing =>
       \E block \in AskedAt :
         result.val[1] = {s \in StoredAt(block) : s.pallet = query.pallet /\ s.name = query.name}

\* The block of a number that was final when it was asked for is the final one,
\* although the chain may change between the request for its hash and the
\* request for the block.  The block of a higher number was on the best chain
\* during the call.  A number no block had yet gives a best block, never None, and
\* by the time of the second request that can be a block of a higher number.
BlockHasItsNumber ==
  Returned({"block_by_num"}) /\ ~refused =>
    /\ result.val # Nothing
    /\ LET block == result.val[1]
           n     == query.number
       IN  IF n # Nothing /\ n[1] <= Len(settled) THEN block = SubSeq(settled, 1, n[1])
           ELSE IF n = Nothing THEN block \in bests
           ELSE \/ \E b \in bests : n[1] <= Len(b) /\ block = SubSeq(b, 1, n[1])
                \/ block \in bests /\ \E b \in bests : Len(b) < n[1]

\* The fee of an answer is its inclusion fee, the sum of the parts capped at the
\* largest balance; an answer with a part that no balance can hold is an error,
\* and no other answer is.  The tip, which types.rs:85 and 102 add on top, is not
\* in the answer and so not in the fee.
FeeIsTheInclusionFee ==
  pc = "done" /\ query.op = "fee_details" /\ line # <<>> /\ DOMAIN Head(line) = {"text"}
    /\ Head(line).text # Nothing =>
    LET fee == Head(line).text[1].inclusion_fee
    IN  IF fee # <<>> /\ fee[1] \notin InclusionFee(Balance) THEN result.err # ""
        ELSE result.err = "" /\ final_fee(result.val[1]) = Capped(InclusionTotal(fee))

\* A request whose answer has been sent, or whose connection has been given up, does
\* not keep the caller blocked, whatever else came through the connection before.
AnswerEndsRequest == (pc = "waiting" /\ answered) ~> (pc = "done" \/ ~answered)
=============================================================================
