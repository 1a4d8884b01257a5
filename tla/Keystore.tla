------------------------------ MODULE Keystore ------------------------------
(***************************************************************************)
(* LocalKeystore (client-keystore/src/lib.rs): key phrases in memory and   *)
(* in a directory with one file per key.                                   *)
(*                                                                         *)
(* A LocalKeystore guards its state with one RwLock, and the threads of a  *)
(* process share it.  Several processes can have a keystore open on the    *)
(* same directory, and no lock is between those.  A write of a key file is *)
(* two steps here, File::create, which truncates, and the write of the     *)
(* phrase; the first can be the last one, when the disk is full or the     *)
(* process dies.  Reading a file takes one step.                           *)
(*                                                                         *)
(* A key stands for a key type with a public key.  A phrase is known by    *)
(* the key and the passwords Pair::from_string makes that key with: given  *)
(* another one it makes some key that nobody asks for.                     *)
(***************************************************************************)
EXTENDS Integers, FiniteSets

CONSTANTS
  Stores,       \* processes with a LocalKeystore, all on the same directory
  Threads,      \* their threads
  StoreOf,      \* the process of each thread
  Keys,
  Passwords,    \* passwords, without None
  NoPassword,   \* None
  MaxWrites,    \* bound: key files written in a run
  MaxSeeds      \* bound: keys inserted from a seed in a run

ASSUME KeystoreAssumption ==
  /\ StoreOf \in [Threads -> Stores]
  /\ NoPassword \notin Passwords
  /\ Keys \cap {"none", "invalid", "missing", "partial"} = {}
  /\ MaxWrites \in Nat /\ MaxSeeds \in Nat

VARIABLES
  opened,       \* per process: its LocalKeystore, or Closed
  memory,       \* per process and key: the phrase in "additional", or NoPhrase
  file,         \* per key: its file in the directory
  call,         \* per thread: the call it is in, or the last one's result
  writes,       \* key files written so far
  made,         \* history: keys whose pair generate has made
  generated,    \* history: what generate has returned Ok for, with a path
  seeded,       \* history: keys inserted from a seed
  overwritten,  \* history: keys that insert_unknown was called for
  broken        \* history: keys whose last write failed or died half-way

historyVars == <<writes, made, generated, seeded, overwritten, broken>>
vars == <<opened, memory, file, call, historyVars>>

Password == Passwords \cup {NoPassword}

\* Pair::from_string: words make a key with one password; the seed in hex makes
\* the same key whatever password it is given; a password written into the suri
\* counts when none is given.
Words == {{p} : p \in Password}
HexSeed == Password
WithPassword == {{NoPassword, p} : p \in Passwords}
Suri == Words \cup {HexSeed} \cup WithPassword

Phrase == [key : Keys, passwords : Suri]

\* A suri given to insert_unknown that makes no key at all.
NotASuri == [key |-> "invalid", passwords |-> {}]
NoPhrase == [key |-> "none", passwords |-> {}]

\* A file that does not exist, or that holds less than its JSON string.
Missing == [key |-> "missing", passwords |-> {}]
Partial == [key |-> "partial", passwords |-> {}]

Closed == [open |-> FALSE, path |-> FALSE, password |-> NoPassword]
Keystore == [open : {TRUE}, path : BOOLEAN, password : Password]

\* "create" and "write" are the two steps of write_to_file, "has" is has_keys.
Call ==
  [op : {"idle", "create", "write", "has"}, kind : {"none", "generate", "insert"},
   phrase : Phrase \cup {NotASuri, NoPhrase}, keys : SUBSET Keys, left : SUBSET Keys,
   result : BOOLEAN]
Idle == [op |-> "idle", kind |-> "none", phrase |-> NoPhrase, keys |-> {}, left |-> {}, result |-> FALSE]

-----------------------------------------------------------------------------
(* Reading, under the read guard.                                          *)

Writing(t) == call[t].op \in {"create", "write"}
WritesTo(t, k) == call[t].op = "write" /\ k \in call[t].keys

\* Variant of the read guard that a writer does not keep out.
NoGuard(s) == opened[s].open

\* self.0.read() returns: no thread of the process has the write guard.
ReadGuard(s) == opened[s].open /\ \A t \in Threads : StoreOf[t] = s => ~Writing(t)

\* self.0.write() returns.  Readers hold their guard for one step only.
WriteGuard(t) == call[t].op = "idle" /\ ReadGuard(StoreOf[t])

\* Variant of key_phrase_by_type that asks the disk first.
DiskFirst(s, k) ==
  IF opened[s].path /\ file[k] # Missing THEN file[k] ELSE memory[s][k]

\* key_phrase_by_type: NoPhrase is Ok(None), Partial is Err(_).
key_phrase_by_type(s, k) ==
  IF memory[s][k] # NoPhrase THEN memory[s][k]
  ELSE IF opened[s].path /\ file[k] # Missing THEN file[k] ELSE NoPhrase

\* Pair::from_string(phrase, password), and the comparison of the public key.
key_pair_by_type(s, k) ==
  LET phrase == key_phrase_by_type(s, k)
  IN  CASE phrase = NoPhrase -> "None"
        [] phrase = Partial -> "Serde"
        [] phrase = NotASuri -> "InvalidPhrase"
        [] OTHER -> IF phrase.key = k /\ opened[s].password \in phrase.passwords
                      THEN "Some" ELSE "PublicKeyMismatch"

\* key_phrase_by_type(..).ok().flatten().is_some()
HasPhrase(s, k) == key_phrase_by_type(s, k) \notin {NoPhrase, Partial}

\* The keys in memory, and those that have a file, whatever is in it.
raw_public_keys(s) ==
  {k \in Keys : memory[s][k] # NoPhrase \/ (opened[s].path /\ file[k] # Missing)}

-----------------------------------------------------------------------------
Init ==
  /\ opened = [s \in Stores |-> Closed]
  /\ memory = [s \in Stores |-> [k \in Keys |-> NoPhrase]]
  /\ file = [k \in Keys |-> Missing]
  /\ call = [t \in Threads |-> Idle]
  /\ writes = 0
  /\ made = {} /\ generated = {} /\ seeded = {} /\ overwritten = {} /\ broken = {}

\* open on the directory, or in_memory, which has no password.
Open(s) ==
  /\ ~opened[s].open
  /\ \E keystore \in Keystore :
       /\ keystore.path \/ keystore.password = NoPassword
       /\ opened' = [opened EXCEPT ![s] = keystore]
  /\ UNCHANGED <<memory, file, call, historyVars>>

\* The process ends, in the middle of whatever its threads do.
Crash(s) ==
  /\ opened[s].open
  /\ opened' = [opened EXCEPT ![s] = Closed]
  /\ memory' = [memory EXCEPT ![s] = [k \in Keys |-> NoPhrase]]
  /\ call' = [t \in Threads |-> IF StoreOf[t] = s THEN Idle ELSE call[t]]
  /\ broken' = broken \cup {k \in Keys : \E t \in Threads : StoreOf[t] = s /\ WritesTo(t, k)}
  /\ UNCHANGED <<file, writes, made, generated, seeded, overwritten>>

Forget(t) == call' = [call EXCEPT ![t] = Idle]

\* A call with the write guard that writes the file of a key.
StartWriting(t, kind, k, phrase) ==
  /\ writes < MaxWrites
  /\ writes' = writes + 1
  /\ call' = [call EXCEPT ![t] = [Idle EXCEPT !.op = "create", !.kind = kind,
                                              !.phrase = phrase, !.keys = {k}]]

\* insert_ephemeral_pair
insert_ephemeral_pair(s, k, phrase) == memory' = [memory EXCEPT ![s][k] = phrase]

\* Variant of generate_by_type that keeps every new key in memory.
KeepInMemory(t, k, phrase) ==
  /\ insert_ephemeral_pair(StoreOf[t], k, phrase)
  /\ Forget(t)
  /\ generated' = generated \cup {phrase}
  /\ UNCHANGED writes

\* generate_by_type with the new pair: to a file, if there is a path.
KeepPhrase(t, k, phrase) ==
  \/ /\ opened[StoreOf[t]].path
     /\ StartWriting(t, "generate", k, phrase)
     /\ UNCHANGED <<memory, generated>>
  \/ /\ ~opened[StoreOf[t]].path
     /\ insert_ephemeral_pair(StoreOf[t], k, phrase)
     /\ Forget(t)
     /\ UNCHANGED <<writes, generated>>

\* generate, and *_generate_new without a seed: new words for the keystore's
\* password.  The pair is new: nobody has its public key before.
GenerateByType(t) ==
  /\ WriteGuard(t)
  /\ \E k \in Keys \ (made \cup seeded \cup overwritten) :
       /\ made' = made \cup {k}
       /\ KeepPhrase(t, k, [key |-> k, passwords |-> {opened[StoreOf[t]].password}])
  /\ UNCHANGED <<opened, file, seeded, overwritten, broken>>

\* Variant of insert_ephemeral_from_seed_by_type that goes through the file.
SeedToFile(t, k, phrase) ==
  /\ StartWriting(t, "insert", k, phrase)
  /\ UNCHANGED memory

\* insert_ephemeral_pair(&pair, seed, key_type)
KeepSeed(t, k, phrase) ==
  /\ insert_ephemeral_pair(StoreOf[t], k, phrase)
  /\ Forget(t)
  /\ UNCHANGED writes

\* *_generate_new with a seed, any suri, which from_string makes its key of
\* without a password.  It is no pair that generate has made: nobody is told
\* those phrases.
InsertFromSeed(t) ==
  /\ WriteGuard(t)
  /\ \E k \in Keys \ made : \E passwords \in {ps \in Suri : NoPassword \in ps} :
       /\ Cardinality(seeded \cup {k}) <= MaxSeeds
       /\ KeepSeed(t, k, [key |-> k, passwords |-> passwords])
       /\ seeded' = seeded \cup {k}
  /\ UNCHANGED <<opened, file, made, generated, overwritten, broken>>

\* insert_unknown, with a suri that makes the key with some passwords, or that
\* makes no key at all; without a path it does nothing.
InsertUnknown(t) ==
  /\ WriteGuard(t)
  /\ \E k \in Keys : \E phrase \in {[key |-> k, passwords |-> ps] : ps \in Suri} \cup {NotASuri} :
       /\ opened[StoreOf[t]].path
       /\ StartWriting(t, "insert", k, phrase)
       /\ overwritten' = overwritten \cup {k}
  /\ UNCHANGED <<opened, memory, file, made, generated, seeded, broken>>

-----------------------------------------------------------------------------
(* write_to_file, with the write guard held.                               *)

\* File::create truncates what is there.
CreateFile(t) ==
  /\ call[t].op = "create"
  /\ call' = [call EXCEPT ![t].op = "write"]
  /\ file' = [k \in Keys |-> IF k \in call[t].keys THEN Partial ELSE file[k]]
  /\ broken' = broken \ call[t].keys
  /\ UNCHANGED <<opened, memory, writes, made, generated, seeded, overwritten>>

CreateFails(t) ==
  /\ call[t].op = "create"
  /\ Forget(t)
  /\ UNCHANGED <<opened, memory, file, historyVars>>

\* Since CreateFile another process has been writing the same file: it still
\* does, it has finished, or it has failed.
Mixed(t, k) == (\E u \in Threads \ {t} : WritesTo(u, k)) \/ file[k] # Partial \/ k \in broken

\* The phrase is written, and the call returns Ok.  Its last bytes can land in
\* a file that another process has truncated, or written, in between.
WriteFile(t) ==
  /\ call[t].op = "write"
  /\ Forget(t)
  /\ \E k \in call[t].keys :
       /\ \E content \in {call[t].phrase} \cup (IF Mixed(t, k) THEN {file[k], Partial} ELSE {}) :
            /\ file' = [file EXCEPT ![k] = content]
            /\ broken' = IF content = Partial THEN broken \cup {k} ELSE broken \ {k}
       /\ generated' = generated \cup (IF call[t].kind = "generate" THEN {call[t].phrase} ELSE {})
  /\ UNCHANGED <<opened, memory, writes, made, seeded, overwritten>>

\* set_permissions or the write fails, and the call returns the error.
WriteFails(t) ==
  /\ call[t].op = "write"
  /\ Forget(t)
  /\ broken' = broken \cup call[t].keys
  /\ UNCHANGED <<opened, memory, file, writes, made, generated, seeded, overwritten>>

-----------------------------------------------------------------------------
(* has_keys takes the read guard anew for every key.  For one key it is one *)
(* read, and is left out.                                                  *)

HasKeys(t) ==
  /\ call[t].op = "idle" /\ opened[StoreOf[t]].open
  /\ \E keys \in {ks \in SUBSET Keys : Cardinality(ks) > 1} :
       call' = [call EXCEPT ![t] = [Idle EXCEPT !.op = "has", !.keys = keys, !.left = keys]]
  /\ UNCHANGED <<opened, memory, file, historyVars>>

\* Variant of the loop that is content with one key.
AnyKey(t, k) == HasPhrase(StoreOf[t], k)

\* all() stops at the first key without a phrase.
AllKeys(t, k) == HasPhrase(StoreOf[t], k) /\ call[t].left = {k}

HasKey(t) ==
  /\ call[t].op = "has" /\ ReadGuard(StoreOf[t])
  /\ \E k \in call[t].left :
       call' = [call EXCEPT ![t] =
         IF AllKeys(t, k) THEN [Idle EXCEPT !.keys = call[t].keys, !.result = TRUE]
         ELSE IF HasPhrase(StoreOf[t], k) THEN [call[t] EXCEPT !.left = @ \ {k}]
         ELSE Idle]
  /\ UNCHANGED <<opened, memory, file, historyVars>>

-----------------------------------------------------------------------------
Thread(t) ==
  \/ GenerateByType(t)
  \/ InsertFromSeed(t)
  \/ InsertUnknown(t)
  \/ CreateFile(t)
  \/ CreateFails(t)
  \/ WriteFile(t)
  \/ WriteFails(t)
  \/ HasKeys(t)
  \/ HasKey(t)

Next ==
  \/ \E s \in Stores : Open(s) \/ Crash(s)
  \/ \E t \in Threads : Thread(t)

Spec == Init /\ [][Next]_vars

-----------------------------------------------------------------------------
TypeOK ==
  /\ opened \in [Stores -> Keystore \cup {Closed}]
  /\ memory \in [Stores -> [Keys -> Phrase \cup {NoPhrase}]]
  /\ file \in [Keys -> Phrase \cup {NotASuri, Missing, Partial}]
  /\ call \in [Threads -> Call]
  /\ writes \in 0..MaxWrites
  /\ made \subseteq Keys
  /\ generated \subseteq Phrase
  /\ seeded \subseteq Keys /\ overwritten \subseteq Keys /\ broken \subseteq Keys

\* lib.rs:448-461: a key that generate returned from a keystore with a path is
\* listed and found again by every keystore opened on that directory with the same
\* password, whatever crashed since, unless insert_unknown wrote its file.
GeneratedKeysAreFound ==
  \A phrase \in generated, s \in Stores :
    opened[s].path /\ opened[s].password \in phrase.passwords /\ phrase.key \notin overwritten =>
      phrase.key \in raw_public_keys(s) /\ key_pair_by_type(s, phrase.key) = "Some"

\* The RwLock keeps half-written files from the readers of the same keystore:
\* who gets the guard and sees one sees the remains of a write that failed or
\* died, or the work of another process.
PartialFilesAreExplained ==
  \A s \in Stores, k \in Keys :
    ReadGuard(s) /\ file[k] = Partial =>
      k \in broken \/ \E t \in Threads : StoreOf[t] # s /\ WritesTo(t, k)

\* A true answer of has_keys still holds for all the keys together when it is
\* there, although the guard was given back after each: a phrase goes away only
\* when its file is written again, with or without success.
HasKeysHolds ==
  \A t \in Threads : call[t].result =>
    \A k \in call[t].keys :
      \/ HasPhrase(StoreOf[t], k)
      \/ k \in broken
      \/ \E u \in Threads : WritesTo(u, k)

\* lib.rs:60-63, "Ok(Some(_)) if the key exists": a key in memory can be used,
\* whatever file lies in the directory under its name, in every keystore without
\* a password.  In one with a password only if its suri makes the key with that
\* password too, as a hex seed does: the key was made without a password, and
\* key_pair_by_type makes it again with the keystore's.
MemoryKeysAreUsable ==
  \A s \in Stores, k \in Keys :
    memory[s][k] # NoPhrase =>
      key_pair_by_type(s, k) =
        IF opened[s].password \in {NoPassword} \cup memory[s][k].passwords
          THEN "Some" ELSE "PublicKeyMismatch"

\* lib.rs:478-480, "Does not place it into the file system store": a key from a
\* seed has a file only if insert_unknown was called for it.
SeedsStayInMemory == \A k \in seeded : file[k] # Missing => k \in overwritten
=============================================================================
