# A TLA+ model of substrate-api-client

This directory holds TLA+ modules for the parts of `substrate-api-client` that
have state, wait, retry or race, the TLC configurations that check them on
small instances, and proofs, checked by TLAPS, of the most important results
for every instance. `PROJECT.json` maps every definition to the lines of the
code it stands for and lists the runs, the hazards, the findings, the
theorems, and for every property a plausible bug that the property catches
(the operators commented "Variant of ..." in the modules).

Paths below are relative to the root of the repository.

## 1. The system

The library lets a Rust program talk to a Substrate node over JSON-RPC on a
websocket. An `Api` value sits on one of three interchangeable clients:

    caller ── Api (src/api) ── Request / Subscribe (src/rpc/mod.rs) ──┬─ tungstenite client
               │   cached metadata, runtime version, genesis hash     ├─ ws client
               │                                                      └─ jsonrpsee client
               ├── compose_call!, compose_extrinsic! (compose-macros)
               ├── node-api: metadata, storage keys, events, errors, SCALE values
               └── primitives: extrinsics, signed extensions, parameters, types
    LocalKeystore (client-keystore): beside all this, for signing keys

Nothing here is asynchronous Rust: a call blocks its thread. Concurrency comes
from the thread each subscription spawns, from callers that use clones of an
`Api` or of a client at the same time, from the node, from the network, and,
for the keystore, from other processes on the same directory.

| component | state it keeps | operations | talks to | what is hard | what makes it correct |
|---|---|---|---|---|---|
| tungstenite subscription (`src/rpc/tungstenite_client`) | per subscription: a thread, two retry counters, a socket, an mpsc channel | `subscribe`, `next`, `unsubscribe`; thread: dial, write, read, forward, reconnect | node by websocket, caller by channel | lost connections with messages in flight, nested retries, a caller who leaves, u8 counters | in order, gapless, nothing read is lost, `None` only at the end, bounded retries, a reason for every end |
| tungstenite request (same) | a socket for the call | `request` | node | answers that never come, any text taken for the answer | the answer returned is the request's |
| ws subscription (`src/rpc/ws_client`) | event loop thread, handler, channel, broadcaster | `subscribe`, `next`, `unsubscribe`, `Drop`, callbacks | ws library, caller | shutdown, close, messages and drop in every order | as above, and leaving ends the loop |
| ws request (same) | event loop on the caller's thread, handler, channel | `request` and callbacks | ws library | a channel that never closes, one id for all requests | own answer, and an answer ends the call if the node closes |
| jsonrpsee client | none of its own | `request`, `subscribe`, `next`, `unsubscribe` | jsonrpsee library | that library | passes through |
| `Api` (`src/api/api_client.rs`) | signer, genesis hash, metadata, runtime version, parameters, client | `new`, `update_runtime`, setters, `get_nonce`, extrinsic parameters | node by request | runtime upgrades between requests and after caching, partial failure, clones with one signer | cached pair from one update, calls executed as meant, nonces never ahead |
| author (`rpc_api/author.rs`, `api/mod.rs`) | none (the loop of one call) | `submit_extrinsic`, `submit_and_watch_extrinsic(_until)` | a subscription | status sequences with retractions, two hand-written orders of statuses, ends of the stream | an `Ok` means what it says, the call ends |
| event subscription (`rpc_api/subscribe_events.rs`) | none (the loop of one wait) | `subscribe_events`, `wait_for_event(_details)` | a subscription, event decoding, the cached metadata | failed extrinsics of others, the rest of a block, blocks of another runtime, change sets without a value | the first event that decides ends the wait, and none is passed over |
| node queries (`rpc_api/{chain,state,frame_system,...}.rs`) | none | getters of storage, proofs, keys, constants, accounts, blocks, headers, fees | node by request, storage keys, fees | two-request getters, forks and upgrades between or since, errors that read as nothing, frames without text | the entry or block that was asked for, or an honest reason for none |
| extrinsic composition (`compose-macros`) | none | `compose_call!`, `compose_extrinsic!` | `Api` | see `Api` | see `Api` |
| ready-made extrinsics (`src/extrinsic`), extrinsic V4 (`primitives/{extrinsics,extrinsic_params}.rs`) | parameters, tip and era under construction | one method per call, extra, additional signed, `encode`/`decode` | metadata, SCALE, the node | length prefix spliced in afterwards, payloads hashed when long, argument types written by hand | the node reads the call, sender and parameters that were meant, and checks the payload that was signed |
| fees (`primitives/types.rs`, `pallet_transaction_payment.rs`) | none | `inclusion_fee`, `final_fee`, conversion | node queries | saturating sums, narrow balances, a tip that JSON leaves out | the capped inclusion fee, or an error |
| metadata and storage keys (`node-api/metadata.rs`, `storage.rs`) | immutable tables | lookups, storage keys | all that compose or decode | gaps in the metadata, hashers that change | the key is the runtime's own |
| events and dispatch errors (`node-api/{events,error}.rs`) | the iterator's position | `Events::{new, iter, find}`, `DispatchError::decode_from` | metadata, SCALE | fields are skipped by decoding them, foreign metadata, two layouts of an error | every event up to the first unknown one, each error named |
| dynamic values (`node-api/decoder`) | none | `encode_as_type`, `decode_as_type` | the type registry | eight kinds of types, names against positions, one-field wrappers, compact numbers, bit orders | what was encoded is decoded, to its last byte, and a cut is noticed |
| request parameters (`primitives/rpc_params.rs`) | a string | `insert`, `build` | | wording only | |
| local keystore (`client-keystore`) | RwLock around phrases in memory, a directory of files, a password | `open`, `in_memory`, `generate`, seeds, `insert_unknown`, `has_keys`, `public_keys`, `key_pair`, signing | file system, other processes | crash in a write, other processes, guards given back between keys | generated keys are found, no half-written file is seen |

`PROJECT.json` has the same list with sources and status under `components`.

## 2. The modules

    SubscriptionStream            what a subscription promises (abstract)
      ^ implemented by   TungsteniteSubscription, WsSubscription
      ^ instantiated by  SubmitAndWatch, EventWatch (MCEventWatch)
    ConnectionAttempts            the two retry loops of the tungstenite client
      ^ extended and implemented by TungsteniteSubscription
    WsRequest, ApiClient, Keystore (MCKeystore)   stand alone

    Scale <- DynamicValue         bytes, and values along the types of the runtime
    Metadata                      the tables and their lookups
    Extrinsic                     extends DynamicValue, Metadata
    Codec (MCCodec)               extends Extrinsic
    RuntimeEvents                 extends Scale, Metadata; decode_as_type is a constant
    EventReading (MCEventReading) extends RuntimeEvents; its runs give DynamicValue's
                                  DecodeEach for the constant
    StorageKeys                   extends Metadata
    Fees
    NodeQueries (MCNodeQueries)   extends StorageKeys, Fees

    X_proofs, for X = TungsteniteSubscription (with ConnectionAttempts),
    WsSubscription, WsRequest, SubmitAndWatch, EventWatch, ApiClient, Keystore
    NodeReading_proofs            for NodeQueries and EventReading

**ConnectionAttempts** (`tungstenite_client/client.rs` 100-121 and 165-178).
Its names begin with `Thread` where the subscription has names of its own.
`phase` is where the spawned thread is, `thread_attempt` and `connect_attempt`
are the two `current_attempt` variables, `dials` counts the calls of `connect`.
A session ends with any error `subscribe_to_server` can return; `do_reconnect`
decides. Increments wrap at `U8Max`, as the `u8` of a release build does (with
overflow checks the addition panics and the thread ends instead).

**SubscriptionStream** (trait `HandleSubscription`). A queue, its producer and
one caller. It is the abstract specification of both websocket clients:
`next` gives what was produced, in order and once; `None` only when the
producer is gone and nothing is left; a blocked `next` wakes up.

**TungsteniteSubscription** (`tungstenite_client/{client,subscription}.rs`).
Thread, caller and node/network as three sets of actions. The thread's actions
are those of ConnectionAttempts joined with what happens inside a session:
`WriteRequest`, `ReadMessage` (`read_until_text_message`, which skips control
frames and turns Close into an error), `SendMessageToClient` (skips any answer
with an id, fails on malformed text, fails once the receiver is gone). Its
`queue` is the channel; a session number is put on every notification so that
properties can speak of reconnections. A payload that does not deserialise is
a notification like any other: `next` returns it as `Some(Err(_))` at its place.

**WsSubscription** (`ws_client/{client,mod,subscription}.rs`). The event loop of
the ws library is external: it hands messages to `on_message`, and leaves on a
shutdown, a close or a lost connection. `unsubscribe` and `Drop` are separate
steps, since `unsubscribe` shuts down and then drops the wrapper, which shuts
down again. `outcome` is what `unsubscribe` returned.

**WsRequest** (`ws_client/client.rs` 112-131, `mod.rs` 67-113). Every call runs
its own loop inside `connect` and then blocks in `recv`. The function's own
sender, which the closure only borrows, keeps the channel open, so `Receive` is
only possible with a message in it. `AskForClose` only queues a close frame: the loop
goes on until the node has closed (`CloseDone`) or the connection is lost. An error
answer is an answer too.

**SubmitAndWatch** (`rpc_api/author.rs` 82-119, `api/mod.rs` 46-109). The loop of
`submit_and_watch_extrinsic_until` over a SubscriptionStream. The transaction
pool is external: `Successors` gives the order in which it reports statuses.
`XtStatus`, `as_u8` and `is_supported` are the code's three tables. The call
may be made over a client that reconnects (`SessionLost`), which submits the
request again.

**EventWatch** (`rpc_api/subscribe_events.rs`, `api_client.rs` 206-218). The loop of
`wait_for_event_details` over a SubscriptionStream, as often as the caller likes.
`chain` is the node's best blocks with their events and runtimes; a reconnection
(`SessionLost`) subscribes again, and the node then sends the value at its best
block, which repeats a block or leaves some out. `CheckEvents` is the body of the
loop: the first event that decides (undecodable, `ExtrinsicFailed`, or the wanted
one) returns, and the rest of the change set goes. With metadata of another runtime
the events may be read as anything (`Readings`). A change set without a value is the
`unwrap` that panics. `UpdateRuntime` needs the `Api` exclusively and so happens
between waits.

**ApiClient** (`api_client.rs`, `compose-macros/src/lib.rs`, `author.rs` 38-52,
`frame_system.rs` 56-68). Several `Api` values of one signer; `pc` is where each
caller is, `fetched` what an unfinished `update_runtime` has, `cache` what the
struct holds. Composing takes three steps, as the macros do: indexes from the
cached metadata, nonce from the node, signature with the cached version. The
node, external, checks spec_version and nonce and executes under the runtime it
has by then.

**Keystore** (`client-keystore/src/lib.rs`). `call` is where each thread is;
being in "create" or "write" is having the write guard. `write_to_file` is two
steps, so that a crash, a full disk or another process comes in between.
`has_keys` takes the guard once per key (for a single key it is one read and has no
action). Reads (`key_phrase_by_type`, `key_pair_by_type`, `raw_public_keys`) are
operators on the state. A phrase is known by its key and by the passwords with which
`Pair::from_string` makes that key of it (`Suri`): words with one password, a hex seed with
any, a suri with a password inside with that one or with none given.

**NodeQueries** (`rpc_api/{state,chain,frame_system,pallet_balances,
pallet_transaction_payment}.rs` over `tungstenite_client/client.rs` 63-98). A query is
`Ask`, then for each of its requests a connection of its own (`Send`) whose messages
are read one by one (`SkipFrame`, `ReadLoss`, `ReadHash`, `ReadAnswer`) until one has
text; `get_signed_block_by_num` makes a second request out of the answer to its
first. The node has a tree of blocks, `best` and `finalized` heads, and a runtime
per block; blocks come, win and become final between any two steps. The
answer's `"result"` is taken by indexing, so an error gives `Nothing` (`ResultOf`).
StorageKeys and Fees are its pure halves.

**StorageKeys** (`node-api/storage.rs`, `metadata.rs`). A key is a sequence of hashed
and raw parts, and two keys are equal when their parts are; hash functions are taken
to be injective. **Metadata** (`node-api/metadata.rs`) builds the tables and has every
lookup with its error. **Fees** has the saturating sums, the conversion, and what serde
skips (`FromJson`).

**Scale**, **DynamicValue** (`node-api/decoder`). Bytes are numbers 0..255 and a reader
is an operator from bytes to `[val, rest]` or an error; `Then` chains readers and
stops at the first error. `encode_value_as_type` and `decode_value_as_type` go along the
registry's eight kinds of types, each case in the order of the code's. Numbers
stay below 2^31, TLC's limit; wider types are encoded in their full width.

**Extrinsic** (`primitives/{extrinsics,extrinsic_params}.rs`, `src/extrinsic/*.rs`). The
table `ReadyMade` has pallet, function and argument types of every ready-made call, as
the client's Rust types encode; what the pallets declare is a table of its own, of the
runtime (`RuntimeTypes` in MCCodec);
`EncodeExtrinsic` reserves room for the length from the size of the type and splices
the true prefix in, as the code does; `SignedPayload` hashes what is longer than
`PayloadLimit`. **Codec** puts values and extrinsics to use. A behaviour is one exchange:
encode, arrive (whole, with something after it, or cut), decode.

**RuntimeEvents** (`node-api/{events,error}.rs`). `EventDetails` decodes the fields of an
event to find where they end and notes places in the bytes; the accessors go back there.
`FoundIn` is what `find` makes of an item, and `DispatchErrorFrom` has both layouts. The
decoding of fields is the constant `DecodeFields`.

**EventReading** is the machine around them: the runtime stores the events of a block
(`StoreEvents`), `NewEvents` is `Events::new`, and each further step is a call of the
iterator's closure (`NextEvent`, `NextError`, `NoMoreEvents`), with `pos` and `index` its
two variables. `got` and `found` are what `iter` and `find` have given. The client may hold
the metadata of another runtime than the one that made the block (`Holders`).

The side of the node is external in both, modelled from what the client expects.

Abstractions made throughout: payloads, names, JSON and bytes are reduced to what
the code branches on (in Codec and EventReading, bytes are the subject and are kept); logging and
sleeping are left out, the sleep before a retry is part of the retry's step. History
variables and fields (`taken`, `dials`, `session`, `executed`, `torn`, `floor`, `began`,
`made`, `generated`, `seeded`, `overwritten`, `broken`, `since`, `returned`, `settled`,
`bests`, `refused`) are named as such in the modules and guard no code action. The
exceptions are in Keystore, where a generated pair is new and its phrase is told to
nobody, so `made`, `seeded` and `overwritten` limit which key is generated or seeded;
that is a fact about random keys.

## 3. The runs

| run | expects | asks | bounds, and why they are enough |
|---|---|---|---|
| `TungsteniteSubscription` | pass | dials bounded, thread stops or settles, order, loss, retries, reasons, both refinements, forwarding, unsubscribe | two sessions (`MaxAttempts = 1`: a first one and a reconnection), so two rounds of each of the two loops and every split of failures over them, four dials at most; two notifications in each session (a gap or a swap needs two), one malformed or control message |
| `WsSubscription` | pass | order, refinement, leaving ends the loop | three notifications and two other messages around shutdown, close and loss |
| `WsRequest` | pass | own answer, an answer ends the call unless the close is never answered | two concurrent calls, two messages on each connection (an answer and something before or after it) |
| `WsRequest_recv` | violation of `RecvReturns` | the call ends when its loop has | one call, one message |
| `SubmitAndWatch` | pass | meaning of `Ok`, first status that reaches, end of the call | two blocks and five statuses: included, retracted, included elsewhere, finalized; one reconnection; `watch_until` = Ready, Broadcast, Finalized |
| `SubmitAndWatch_inblock` | violation of `StopsWhenReached` | the same for InBlock | four statuses |
| `EventWatch` (module `MCEventWatch`) | pass | which event ends a wait, what is passed over, that the wait ends | two blocks of up to two events, one upgrade, two waits, one lost session, one garbled message: an event before, behind or in another block than a failed one, and a second wait after each |
| `ApiClient` | pass | caches, calls, nonces | two `Api` values, two runtimes (one upgrade tears an update or makes a cache stale), two executed extrinsics (one overtakes another) |
| `NodeQueries` (module `MCNodeQueries`) | pass | the entry asked for, the block asked for, the inclusion fee, that an answer ends the request | two runtimes that differ in a hasher, a map's depth and an entry; three blocks of height up to two with two labels (a fork, one of its sides final); one frame without text; fees up to just above a largest balance of 7 |
| `Keystore` (module `MCKeystore`) | pass | found keys, half-written files, `has_keys`, seeds | two processes, two threads in one of them, two keys, one password beside none, hence every kind of phrase (words for either, a hex seed, a password inside), two writes: two writers of one file, or a writer and its successor; `MaxSeeds = 1`, as seeds of different keys never meet |
| `Codec` (module `MCCodec`) | pass | encode and decode agree, cuts are noticed, the node reads what was meant | 42 values along every type of a registry with all eight kinds, right and wrong; all 22 ready-made calls (101 choices of arguments, with all five forms of an address and of a payee), unsigned and with signatures of the three kinds, eras and both tips; the runtime reads them along the pallets' declarations. `BytesOf256 = 2` stands for 32, `PayloadLimit = 40` for 256, so that payloads fall on both sides |
| `EventReading` (module `MCEventReading`) | pass | every event up to the first unknown one, what `find` picks, the names of errors | blocks of up to three events (one before and one behind an unknown one), of all phases, with none to two topics; three runtimes, of which the first writes errors in the old layout and the third adds an event, an error and a pallet, each pair read both ways where they go together. `HashBytes = 2` stands for 32 |

`CHECK_DEADLOCK FALSE` is set in all of them because each system really may stop:
threads end, callers leave, an exchange is over, and a bounded environment runs out of
things to do. The Keystore run uses symmetry of the keys and of the two threads of the
first process; it checks no liveness.

### What a passing run shows

* *TungsteniteSubscription.* Whatever breaks when: `InOrderWithoutGaps` (each
  session's notifications from the first, in order, none skipped or repeated),
  `NothingLostWhileConnected` (a notification sent is on the wire, in the thread's
  hands or in the caller's stream), `RequestsBounded` (an extrinsic goes out at most
  `max_attempts + 1` times), `StopsForAReason`. Two properties are those of
  ConnectionAttempts, whose loops the run contains: `DialsBounded` (no more dials than
  the two nested loops allow, whatever fails where) and `StopsOrSettles` (the thread
  does not try for ever). `ImplementsStream` and
  `ImplementsConnectionAttempts` are refinements with fairness.
  `EveryNotificationIsForwarded` and `UnsubscribeStopsAtNextNotification` are its own
  liveness.
* *WsSubscription.* The same order and the same promise with the other library, and
  `UnsubscribeEndsLoop`: every way of letting go ends the loop and its connection.
* *WsRequest.* `OkIsOwnAnswer`: all requests carry the id "1", but a
  connection of its own per call keeps answers apart. An answer may be an error, so `Ok`
  means that the node has dealt with the request. `AnswerEndsCall`: once there is a message
  in its channel a call returns, unless the close that the client asks for stays
  unanswered (`CloseEnds`); nobody but the node can end that wait.
* *SubmitAndWatch.* `FinalizedMeansFinal`, `StopsWhenReached`, `ResultMatchesLastStatus`,
  and `CallEnds`: the call ends with its stream and with the pool's last status.
* *EventWatch.* `FirstDecisiveEvent`: a wait ends with the first event that is wanted or
  a failed extrinsic, whoever's it is, and no earlier one was passed over; otherwise
  the stream has ended or a change set was unreadable. `EventsComeInOrder`: successive
  waits return events of ever later blocks, so what follows a returned event in its
  block is never seen. `DecisiveEventEndsWait`.
* *ApiClient.* `CacheIsWhole`: the cached pair is from one update, also after
  half-failed ones. `ExecutedAsMeant`: the signed spec_version saves every stale
  cache; only an upgrade between the two requests of one update can make the
  node decode a call by other indexes than it was made with (the history field
  `torn` marks those). `NonceNotAhead`: no clone runs ahead of the account.
* *NodeQueries.* `ReadIsTheEntry`: old metadata never makes a read return another entry;
  nothing is returned if nothing is there, if the runtime keeps the entry in
  another way than the metadata says, or if the node refused. `BlockHasItsNumber`: a
  number that was final gives the final block although two requests were made; a number
  without a block gives a best block. `FeeIsTheInclusionFee`: the parts of the answer but
  for the tip, which its JSON does not carry, added and capped; a part too wide for the
  balance type gives an error, and nothing else does. `AnswerEndsRequest`.
* *Keystore.* `GeneratedKeysAreFound` survives crashes and failing writes of anyone,
  `PartialFilesAreExplained` says whom a half-written file can be seen by,
  `HasKeysHolds` that an answer assembled under several guards is still true,
  `MemoryKeysAreUsable` that no file gets in the way of a key in memory: it can be used
  when the keystore has no password, or one that its phrase goes with, and is a
  "PublicKeyMismatch" otherwise; `SeedsStayInMemory` that seeds do not reach the disk.
* *Codec.* `RoundTrip`: what `encode_as_type` accepts, `decode_as_type` reads back with the
  same content, to its last byte, and encoding it again gives the same bytes;
  `CutIsNoticed`; `NodeReadsWhatWasMeant`: sender, parameters, length prefix and
  signed payload of every composed extrinsic, and its call, to the last byte, unless
  the client gives an argument another type than the pallet does (`Misfit`, see below).
* *EventReading.* `EventsAreRead`: the iterator gives every event of the block, with its
  phase, names and content, up to the first that the client's metadata lacks, one error
  for that and nothing after; `find` gives the events of its type among them, in order.
  `ErrorsAreNamed`: a failed extrinsic's error gets the names it has at the runtime that
  made the block, in both layouts, or no name if the client's metadata lacks it.

### What a violation shows

Each is a disagreement between the code and its own words, quoted in
`PROJECT.json` under `findings`:

1. `recv` in the ws request cannot report a disconnected sender, since the sender is
   its own; a refused or lost connection blocks the call for ever.
2. `XtStatus::InBlock` is 4 and `as_u8` of InBlock is 3, so waiting for InBlock goes on
   past InBlock.

### Observed while modelling, without a run

Requests:
* A request over the ws client asks for a close once it has its answer, and waits for the
  node to close. A node that answers and falls silent keeps `connect` (`ws_client/client.rs`
  124) and the call blocked, with the answer in its channel: nothing there has a timeout.

Subscriptions and watching:
* With `max_attempts = 255` the counter wraps before the test and the client dials for
  ever (`tungstenite_client/client.rs` 174); the runs and the theorems stay below.
* `unsubscribe` of the tungstenite client only drops the receiver, so with a quiet node
  the thread and its connection stay (`subscription.rs` 47-51;
  `UnsubscribeStopsAtNextNotification` says what does hold).
* An error answer to a subscription request is dropped as if it were the
  confirmation, and the caller of a refused extrinsic waits for ever (`client.rs` 154).
* A `FinalityTimeout` leaves a call that waits for Finalized blocked (`Final` in
  SubmitAndWatch leaves it out for that reason); `unsubscribe()?` in `author.rs` 104 turns
  a reached status into an error when the ws event loop has ended.
* `wait_for_event_details` panics on a change set without a value, for example the one of
  genesis; events behind the returned one in its block are never seen.

Queries:
* An error answer reads as nothing: an account query that failed is an account with
  nonce 0 (`api_client.rs` 240), and a block number whose hash request failed gives the
  latest block. A number with no block yet gives the latest block too, never `None`.
* The map getter on a double map builds the key of one key only, which finds nothing
  and reports no error.
* `tip` of the fee details is skipped by serde, at the node as here, so after a query
  `final_fee` is the inclusion fee, where `primitives/types.rs` 85 and 102 add the tip.

Bytes:
* `get_bitsequence_details` reports OrderTypeNotSupported for a bad store type and the
  other way round.
* `DispatchError::decode_from` says that it returns the raw bytes of what it cannot decode
  (`error.rs` 87-89); of a module error that it cannot read, or that the metadata lacks, it
  returns them without the first (158, 169). `ErrorsAreNamed` asks only that such an error
  gets no name.
* `encode_as_type` accepts a compact number in a one-field tuple, which `decode_as_type`
  refuses; a compact number ignores the name of a one-field composite; after an error of
  `encode_as_type_to` the caller's buffer keeps part of the value.
* Three ready-made calls of the staking pallet (`src/extrinsic/staking.rs`) have an argument
  that is not encoded as the pallet declares it. `set_payee` sends an address for a
  `RewardDestination`: the address of an account reads as `Staked`, with the account left
  over. `staking_bond` to `Account` sends an address for the account: its first byte shifts
  the account by one. `set_validator_count` sends four bytes for a compact number: 256 reads
  as 0, with three bytes left over.
* `as_root_event` decodes `bytes()`, which begin with the phase, where `events.rs` 306-309
  says it decodes the root event.

Keystore: one with a password cannot use the keys it makes from words
(`key_pair_by_type` gives "PublicKeyMismatch"); it can use those from a hex seed, which
makes the same key with any password, and those whose suri has the password inside.

## 4. Fairness

* The operating system runs threads that can run: `WF` on the tungstenite thread, on
  the ws loop, on the calling thread of a request, of `submit_and_watch`, of a wait for
  an event (`Call` in EventWatch) and of a query (`Receive` in NodeQueries).
* A blocked `recv` wakes up when there is something to receive or the last sender is
  gone: `WF` on `NextSome` and `NextNone`, one by one, since the caller may come back
  with another call in between.
* A dial returns, with or without a connection: `WF` on `ConnectionOpens \/
  ConnectionRefused` together. Nothing says which.
* The ws loop takes a shutdown from its command queue even while messages keep
  coming (`WF` on `ObeyShutdown`), and a caller inside `unsubscribe` gets to its end.
* A message that has come is handed to `on_message` (`WF` on it, per call, in WsRequest).
  That the close handshake or a connection attempt ends is not assumed there.
* The node, the network and the transaction pool owe nothing, and no caller has to
  call `next`, `unsubscribe` or `wait_for_event`. Liveness is stated so that it does not
  need them.
* ApiClient, Keystore, Codec and EventReading have safety properties only, and no
  fairness: the caller of `next` may stop at any item.

## 5. The proofs

The theorems are of the form `Spec => []P` (or a refinement of the safety part), but for
those about operators: `KeysAreUnambiguous`, on storage keys, and the ones on the bytes of
events and the tables of the metadata. They hold for every value of the constants that
meets the module's assumptions.

**TungsteniteSubscription_proofs.** From `AttemptsAssumption`
(`MaxAttempts` is a possible `u8`), `SubscriptionAssumption` and `CountersFit`
(`MaxAttempts < U8Max`; at 255 the counter wraps, see above). First the retry loops alone
(`ThreadSpec` of ConnectionAttempts): `RetryCountersStayInRange`, which does not
use `CountersFit`, and `DialsAreBounded`, which holds under `NoWrap`. `DialsBounded` is not
inductive: the invariant adds that so far each finished round of the outer loop has used
at most `MaxAttempts + 1` dials, so `dials` is at most `thread_attempt * (MaxAttempts + 1)`
plus the dials of the current round. `SubscriptionDialsAreBounded` carries the bound over
to the whole subscription by the refinement.

Then the subscription. `ControlInv` ties the thread's place to its session,
link and counters, and gives `NoneMeansTheEnd`, `RequestsAreBounded` and
`ThreadStopsForAReason`. `OrderInv` says that the notifications of the session
that are forwarded, held and on the wire are consecutive numbers, from the first, in
this order; it gives `StreamInOrderWithoutGaps` and `NoNotificationLost`.
`StreamIsImplemented` and `RetryLoopsAreImplemented` show that every step is a step of
SubscriptionStream and of ConnectionAttempts or leaves them unchanged.

**WsSubscription_proofs.** `OnTheWire` says that each notification on the connection
comes behind the one of the number before, unless that one has been handed on,
and `Complete` that an unbroken connection misses none; together they make the next
one handed on the right one (`StreamInOrderWithoutGaps`). `StreamIsImplemented` as above.

**WsRequest_proofs.** `OkIsTheOwnAnswer`: an answer on the wire of a call, or in its
channel, is to that call's request, and the node has dealt with it.

**SubmitAndWatch_proofs.** `OkAfterFinalityIsFinal` rests on `Truth`: a status Finalized on
its way to the caller is true at the node and stays true. `StopsInTime` and
`ResultIsRight` rest on `Passed`: while the loop runs it has passed over no status
that reaches what it waits for. These two assume `"InBlock" \notin WatchUntil`; with
InBlock they are false, as run `SubmitAndWatch_inblock` shows.

**EventWatch_proofs.** `FirstDecisiveEventDecides`: nothing that a running wait has taken,
but for the change set it looks at, decides. This survives because the chain only
grows, what was taken is of a block of it, and the metadata stays during a wait.
`EventsAreInOrder` is about all change sets delivered, those in the channel included:
`Ascending` (a later one is of a later block, or of the same after a reconnection) and
`Gapless` (before the first reconnection each block has its predecessor in front of it);
`Returned` ties the history of results to them.

**ApiClient_proofs.** For any set of `Api` values and any number of upgrades.
`CacheInv` carries `CacheIsWhole` over the unfinished update and the extrinsics in
hands, pool and history: an extrinsic's metadata is at most as new as its
version, and equal unless torn. `CachesAreWhole`, `CallsAreExecutedAsMeant` and
`NoncesAreNotAhead` follow.

**Keystore_proofs.** For any number of processes, threads, keys and passwords. `Guarded`
is the RwLock: one writer per process, in a keystore that is open and has a path.
`Origins` follows a file to its writer: a generated key, by one thread, or
`insert_unknown`. `Fresh` is the heart of `GeneratedIsFound`: nobody but its own thread
touches the file of a generated key, unless told to overwrite it, so the write that
returns Ok has not been mixed with another. `Kept` is what `has_keys` relies on between
two keys: phrases in memory stay and files do not go away. The other theorems
(`PartialFilesHaveAReason`, `HasKeysAnswerHolds`, `KeysInMemoryAreUsable`,
`SeedsStayOffTheDisk`) follow from the same invariant.

**NodeReading_proofs, queries.** For every tree of blocks, every storage and all metadata that meet
the assumptions: `RuntimesAssumption` (a runtime's entries are listed under their own
names, with hashers the format has), `StoredAssumption` (what is stored has an entry in
the runtimes that keep it, and one key per hasher) and `QueriesAssumption` (a query gives
as many keys as the function's parameters); TLC evaluates them on the instance. The
invariant has three parts. `Chain`: every block has its ancestors, the finalized head is on
the best chain, and every block that was best during a query extends what was final when
it was asked. `Waiting`: each message on the connection is one that the query may end with
(`GoodAnswer`, or `HashAnswer` for the first request of two). This is stable while the
chain moves, since the blocks that were best only become more. `Done`: so is the result.
From it follow `BlocksHaveTheirNumbers`, `FeesAreTheInclusionFees` (with the
lemma `FinalFee`: saturating at every addition is the same as capping the sum) and
`ReadsGiveTheEntry`. That one rests on `KeysAreUnambiguous`, an induction over the map keys: the parts of a key that
differ in their hasher or in their text differ, so equal keys are keys of one entry,
even if client and runtime use different hashers. It takes the hypothesis
`UnambiguousRuntimes`: no entry has an Identity hasher right behind Blake2_128. Without it
the statement is false (the two parts of Blake2_128Concat are then those of two keys); the
hashers of `MCNodeQueries` meet it.

The library's induction theorems cannot be used, for they take an operator. The proofs
use induction over sets of numbers instead (`Induction`, from the well-foundedness of <),
and `FlattenSeq` is unfolded along a function of its prefixes, which `PrefixesExist` shows
to exist.

**NodeReading_proofs, events.** `EveryEventIsRead` and `EveryErrorIsNamed` are the two
properties of EventReading, for any number of runtimes, any metadata, blocks of any length
and events of any content that meet the assumptions of that module, all of them facts
about the runtime's side:

* `RawMetadataAssumption`: the metadata is accepted by the client and its indexes are bytes.
* `CompatibleAssumption`: two runtimes whose metadata a client may mix up never use a pair
  of indexes for two different events or errors, and tell a pallet's error by the same
  index in `DispatchError`. Events and errors may come and go.
* `EventBlocksAssumption`: phases, numbers of 32 bits, and events that the runtime declares.
* `DecodeAssumption`: along the right types, decoding the fields of an event gives back
  their values and stops at their end, before the topics and events that follow.
  This is what run `Codec` checks of DynamicValue (`RoundTrip`).
* `StaticEventsAssumption` and `FailuresAssumption`: a static event type has the fields of
  the event of that name, and the fields of `ExtrinsicFailed` begin with the dispatch error.

TLC evaluates all of them on the instance. The argument goes upwards. Numbers first:
`LittleEndian` and `FromLittleEndian` are recursive functions, unfolded for up to four
bytes, and `CompactIsRead` shows for every number of 32 bits that its compact form, of
whichever of the four sizes, is read back and nothing behind it is taken; `PhaseIsRead` and
`TopicsAreRead` are the other parts of an event. Then tables: `EventTable` and `ErrorTable`
say what `MetadataFrom` makes of the variants of all pallets. `EventDetailsAre` puts these
together for one event with anything behind it and any metadata (either of the two
runtimes'), and `PlacesLeadBack` shows that the noted places lead back to its parts.

`EventsAreRead` is not inductive, for it does not say where the iterator stands. The
invariant `ReadingInv` adds that: the bytes from `pos` on are those of the events behind
the first `index`, all of which are known, or else the iterator is behind the last byte
and the item it gave last is the error for event `index + 1`. An event
given is `IsRead`: its phase and index, the metadata found for it and the bytes of its
fields are those of the event written, from which `ReadEventIs` derives what the other
accessors return. `FoundSoFar` counts the matches among the
items, so that the next match is the next element of `found`. At the end, `BytesAreLeft`
excludes that the iterator stops early: every event has at least one byte.
`EveryErrorIsNamed` uses the same invariant: the fields of a given failure are those the
runtime wrote, the index of the pallets' errors is the same in both metadata, and
`KnownErrors` says what the lookup gives.

These theorems share a module with those on NodeQueries because both rest on the lemmas
about sequences, `FlattenSeq` and induction that come first there.

Only model-checked: everything about liveness, hence the fairness parts of the
refinements and all leads-to properties (out of TLAPS's reach), and the three properties
of Codec, whose modules follow the recursion of the types with RECURSIVE operators. Every
safety invariant of the other passing runs is stated by a theorem.

## 6. Not modelled

* The jsonrpsee client keeps no state of its own and passes every call to a library.
* `RpcParams` writes a JSON array into a string, and nothing depends on more than that.
* Signing, hashing, hex and JSON text: pure functions of libraries.
* Decoding along a static Rust type (parity-scale-codec), and `as_root_event`, which is
  only that.
* `print_metadata.rs`, examples, and the traits that only name types; the types in
  `primitives/types.rs` that only hold data for serde.
* The setters of `Api`, and unsigned extrinsics over a node: assignments and a request
  that nothing races with.
* `get_payment_info`, one request without conversion, and the head and state
  subscriptions, whose streams are those of section 2.
* Faults beyond the ones the code meets: a connection delivers its bytes in order or
  breaks (TCP), so frames are lost at its end only; a node does not lie, but it may
  refuse, close, fall silent or send malformed text.

## 7. What is left

Beyond the above, in order of what it would add:

1. `RoundTrip` for every value: an induction over the type of a value, which needs the
   recursion of DynamicValue written as functions on a set of types and values.
2. One abstract request (at most one answer, one's own) that both WsRequest and the
   requests of NodeQueries implement.
3. A composition of SubmitAndWatch with TungsteniteSubscription in place of the abstract
   stream, to see one extrinsic submitted twice by a reconnection in a single module.
4. EventWatch over EventReading: a wait for an event on the bytes of change sets, in place
   of events that are taken for decoded.

Bounds are two of everything that can be confused, one failure more than what is
retried, and just above each limit.
