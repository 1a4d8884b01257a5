--------------------------- MODULE Keystore_proofs --------------------------
(***************************************************************************)
(* What is found in a keystore, for any number of processes, threads and   *)
(* keys on one directory, and whatever crashes or fails.                   *)
(*                                                                         *)
(* The invariant follows a key from where its phrase comes to where it is  *)
(* kept.  Guarded is the RwLock.  Origins says that a file is written for  *)
(* a generated key, by one thread only, or by insert_unknown; Fresh, that  *)
(* nobody but its own thread touches the file of a generated key.  Kept is *)
(* what has_keys relies on between two keys: a phrase in memory stays, and *)
(* a file does not go away.                                                *)
(***************************************************************************)
EXTENDS Keystore, TLAPS

\* The RwLock, and that a process that has ended runs no thread.
Guarded ==
  /\ \A t \in Threads : ~opened[StoreOf[t]].open => call[t] = Idle
  /\ \A t \in Threads : Writing(t) => opened[StoreOf[t]].path
  /\ \A t, u \in Threads : Writing(t) /\ Writing(u) /\ StoreOf[t] = StoreOf[u] => t = u

\* What is in memory makes its key without a password, and a keystore without a
\* path has none.
InMemory ==
  /\ \A s \in Stores, k \in Keys : memory[s][k] # NoPhrase =>
       /\ memory[s][k].key = k /\ NoPassword \in memory[s][k].passwords
       /\ opened[s].open /\ k \in made \cup seeded
  /\ \A s \in Stores : ~opened[s].path => opened[s].password = NoPassword

\* A thread writes the phrase p of key k for one of two reasons.
Inserts(t, k) == call[t].kind = "insert" /\ k \in overwritten
Generates(t, k) == call[t].kind = "generate" /\ k \in made /\ call[t].phrase \in Phrase /\ call[t].phrase.key = k

Origins ==
  /\ made \cap seeded = {}
  /\ \A t \in Threads : Writing(t) =>
       /\ \E k \in Keys : call[t].keys = {k} /\ (Inserts(t, k) \/ Generates(t, k))
       /\ call[t].phrase \in Phrase \cup {NotASuri}
  /\ \A k \in Keys : file[k] # Missing => k \in made \cup overwritten

\* A half-written file is being written, or its last write failed.
Partials ==
  \A k \in Keys : file[k] = Partial => k \in broken \/ \E t \in Threads : WritesTo(t, k)

\* The file of a generated key, while it is written and after.
BeingGenerated(t, k) ==
  /\ \A s \in Stores : memory[s][k] = NoPhrase
  /\ \A phrase \in generated : phrase.key # k
  /\ \A u \in Threads : u # t /\ Writing(u) /\ k \in call[u].keys => call[u].kind = "insert"
  /\ call[t].op = "write" /\ k \notin overwritten => file[k] = Partial /\ k \notin broken

Fresh ==
  /\ \A t \in Threads : Writing(t) /\ call[t].kind = "generate" =>
       \A k \in call[t].keys : BeingGenerated(t, k)
  /\ \A phrase \in generated :
       /\ phrase.key \in made
       /\ \A s \in Stores : memory[s][phrase.key] = NoPhrase
       /\ phrase.key \notin overwritten => file[phrase.key] = phrase

\* What has_keys has seen is still there.
Kept(s, k) == memory[s][k] # NoPhrase \/ (opened[s].path /\ file[k] # Missing)
Seen ==
  /\ \A t \in Threads, k \in Keys : WritesTo(t, k) => file[k] # Missing
  /\ \A t \in Threads : call[t].op = "has" => \A k \in call[t].keys \ call[t].left : Kept(StoreOf[t], k)
  /\ \A t \in Threads : call[t].result => \A k \in call[t].keys : Kept(StoreOf[t], k)

IInv == TypeOK /\ Guarded /\ InMemory /\ Origins /\ Partials /\ Fresh /\ Seen

-----------------------------------------------------------------------------
\* What stands for no phrase is none, and one differs from the other.
LEMMA Distinct ==
  /\ NoPhrase \notin Phrase /\ NotASuri \notin Phrase /\ Missing \notin Phrase /\ Partial \notin Phrase
  /\ NoPhrase # NotASuri /\ NoPhrase # Missing /\ NoPhrase # Partial
  /\ NotASuri # Missing /\ NotASuri # Partial /\ Missing # Partial
BY KeystoreAssumption DEF Phrase, NoPhrase, NotASuri, Missing, Partial

\* The types of a call's parts.
LEMMA CallParts ==
  ASSUME NEW c \in Call
  PROVE  /\ c.op \in {"idle", "create", "write", "has"}
         /\ c.kind \in {"none", "generate", "insert"}
         /\ c.keys \in SUBSET Keys /\ c.left \in SUBSET Keys /\ c.result \in BOOLEAN
         /\ c.phrase \in Phrase \cup {NotASuri, NoPhrase}
BY DEF Call

LEMMA Initially == Init => IInv
<1> SUFFICES ASSUME Init PROVE IInv
  OBVIOUS
<1>1. TypeOK
  <2>1. Idle \in Call
    BY DEF Idle, Call
  <2>2. QED
    BY <2>1, KeystoreAssumption DEF Init, TypeOK
<1>2. \A t \in Threads : call[t] = Idle /\ ~Writing(t)
  BY DEF Init, Idle, Writing
<1>3. Guarded /\ Origins
  BY <1>2 DEF Init, Guarded, Origins
<1>4. InMemory
  BY KeystoreAssumption DEF Init, InMemory, Closed
<1>5. Partials
  BY Distinct DEF Init, Partials
<1>6. Fresh
  BY <1>2 DEF Init, Fresh
<1>7. Seen
  BY <1>2 DEF Init, Seen, Idle, WritesTo
<1>8. QED
  BY <1>1, <1>3, <1>4, <1>5, <1>6, <1>7 DEF IInv

-----------------------------------------------------------------------------
\* What a step of one thread leaves to the others.
LEMMA OneCall ==
  ASSUME TypeOK, NEW t \in Threads, NEW c \in Call, call' = [call EXCEPT ![t] = c]
  PROVE  /\ call' \in [Threads -> Call]
         /\ call'[t] = c
         /\ \A u \in Threads : u # t => call'[u] = call[u]
BY DEF TypeOK

LEMMA OpenPreserves ==
  ASSUME IInv, NEW s \in Stores, Open(s)
  PROVE  IInv'
<1> USE DEF IInv
<1>1. PICK keystore \in Keystore :
        /\ keystore.path \/ keystore.password = NoPassword
        /\ opened' = [opened EXCEPT ![s] = keystore]
  BY DEF Open
<1>2. /\ ~opened[s].open /\ opened'[s] = keystore /\ keystore.open
      /\ \A r \in Stores : r # s => opened'[r] = opened[r]
      /\ UNCHANGED <<memory, file, call, writes, made, generated, seeded, overwritten, broken>>
  BY <1>1 DEF Open, TypeOK, Keystore, historyVars
<1>3. \A t \in Threads : StoreOf[t] \in Stores /\ (StoreOf[t] = s => call[t] = Idle)
  BY <1>2, KeystoreAssumption DEF Guarded
<1>4. \A k \in Keys : memory[s][k] = NoPhrase
  BY <1>2 DEF InMemory
<1>5. TypeOK'
  BY <1>1, <1>2 DEF TypeOK
<1>6. Guarded'
  <2>1. \A t \in Threads : Writing(t)' => StoreOf[t] # s /\ Writing(t)
    BY <1>2, <1>3 DEF Writing, Idle
  <2>2. \A t \in Threads : ~opened'[StoreOf[t]].open => call'[t] = Idle
    BY <1>2, <1>3 DEF Guarded
  <2>3. \A t \in Threads : Writing(t)' => opened'[StoreOf[t]].path
    BY <2>1, <1>2, <1>3 DEF Guarded
  <2>4. QED
    BY <2>1, <2>2, <2>3, <1>2 DEF Guarded
<1>7. InMemory'
  BY <1>1, <1>2, <1>4 DEF InMemory
<1>8. Origins' /\ Partials' /\ Fresh'
  BY <1>2 DEF Origins, Inserts, Generates, Writing, Partials, WritesTo, Fresh, BeingGenerated
<1>9. Seen'
  BY <1>2, <1>3 DEF Seen, Kept, WritesTo, Idle
<1>10. QED
  BY <1>5, <1>6, <1>7, <1>8, <1>9

LEMMA CrashPreserves ==
  ASSUME IInv, NEW s \in Stores, Crash(s)
  PROVE  IInv'
<1> USE DEF IInv
<1>1. /\ opened' = [opened EXCEPT ![s] = Closed]
      /\ opened'[s] = Closed /\ ~Closed.open /\ ~Closed.path /\ Closed.password = NoPassword
      /\ \A r \in Stores : r # s => opened'[r] = opened[r]
  BY DEF Crash, TypeOK, Closed
<1>2. /\ memory' = [memory EXCEPT ![s] = [k \in Keys |-> NoPhrase]]
      /\ \A k \in Keys : memory'[s][k] = NoPhrase
      /\ \A r \in Stores : r # s => memory'[r] = memory[r]
  BY DEF Crash, TypeOK
<1>3. \A t \in Threads :
        /\ StoreOf[t] \in Stores
        /\ StoreOf[t] = s => call'[t] = Idle
        /\ StoreOf[t] # s => call'[t] = call[t]
  BY KeystoreAssumption DEF Crash, TypeOK
<1>4. /\ UNCHANGED <<file, writes, made, generated, seeded, overwritten>>
      /\ broken' = broken \cup {k \in Keys : \E t \in Threads : StoreOf[t] = s /\ WritesTo(t, k)}
  BY DEF Crash
<1>5. Idle \in Call /\ Idle.op = "idle" /\ ~Idle.result
  BY DEF Idle, Call
<1>6. TypeOK'
  <2>1. call' \in [Threads -> Call]
    BY <1>5 DEF Crash, TypeOK
  <2>2. QED
    BY <1>1, <1>2, <1>4, <2>1 DEF TypeOK
<1>7. Guarded'
  <2>1. \A t \in Threads : Writing(t)' => StoreOf[t] # s /\ Writing(t)
    BY <1>3, <1>5 DEF Writing
  <2>2. \A t \in Threads : ~opened'[StoreOf[t]].open => call'[t] = Idle
    BY <1>1, <1>3 DEF Guarded
  <2>3. \A t \in Threads : Writing(t)' => opened'[StoreOf[t]].path
    BY <2>1, <1>1, <1>3 DEF Guarded
  <2>4. QED
    BY <2>1, <2>2, <2>3, <1>1 DEF Guarded
<1>8. InMemory'
  BY <1>1, <1>2, <1>4 DEF InMemory
<1>9. Origins'
  BY <1>3, <1>4, <1>5 DEF Origins, Inserts, Generates, Writing
<1>10. Partials'
  BY <1>3, <1>4 DEF Partials, WritesTo
<1>11. Fresh'
  <2>1. ASSUME NEW t \in Threads, Writing(t)', call'[t].kind = "generate", NEW k \in call'[t].keys
        PROVE  BeingGenerated(t, k)'
    <3>1. StoreOf[t] # s /\ call'[t] = call[t] /\ BeingGenerated(t, k) /\ k \in Keys
      BY <1>3, <1>5, <2>1, CallParts DEF Writing, Fresh, TypeOK
    <3>2. ASSUME k \notin overwritten, call[t].op = "write" PROVE k \notin broken'
      <4>1. \A u \in Threads : u # t => ~WritesTo(u, k)
        <5> SUFFICES ASSUME NEW u \in Threads, u # t, WritesTo(u, k) PROVE FALSE
          OBVIOUS
        <5>1. call[u].kind = "insert" /\ Writing(u)
          BY <3>1 DEF BeingGenerated, WritesTo, Writing
        <5>2. QED
          BY <5>1, <3>2 DEF Origins, Inserts, Generates, WritesTo
      <4>2. QED
        BY <3>1, <3>2, <4>1, <1>4 DEF BeingGenerated
    <3>3. QED
      BY <3>1, <3>2, <1>2, <1>3, <1>4, <1>5 DEF BeingGenerated, Writing
  <2>2. QED
    BY <2>1, <1>2, <1>4 DEF Fresh, TypeOK, Phrase
<1>12. Seen'
  BY <1>1, <1>2, <1>3, <1>4, <1>5 DEF Seen, Kept, WritesTo
<1>13. QED
  BY <1>6, <1>7, <1>8, <1>9, <1>10, <1>11, <1>12

\* A thread gets the write guard, and keeps it to write the file of a key.
LEMMA StartPreserves ==
  ASSUME IInv, NEW t \in Threads, NEW k \in Keys, NEW kind \in {"generate", "insert"},
         NEW phrase \in Phrase \cup {NotASuri},
         WriteGuard(t), opened[StoreOf[t]].path, StartWriting(t, kind, k, phrase),
         UNCHANGED <<opened, memory, file, generated, seeded, broken>>,
         made \subseteq made', overwritten \subseteq overwritten',
         made' \subseteq Keys, overwritten' \subseteq Keys, made' \cap seeded = {},
         \/ kind = "insert" /\ k \in overwritten'
         \/ /\ kind = "generate" /\ phrase \in Phrase /\ phrase.key = k /\ k \in made'
            /\ k \notin made \cup seeded \cup overwritten
  PROVE  IInv'
<1> USE DEF IInv
<1> DEFINE c == [Idle EXCEPT !.op = "create", !.kind = kind, !.phrase = phrase, !.keys = {k}]
<1>1. /\ c \in Call /\ c.op = "create" /\ c.kind = kind /\ c.phrase = phrase
      /\ c.keys = {k} /\ ~c.result
  BY DEF Idle, Call
<1>2. /\ call' \in [Threads -> Call] /\ call'[t] = c
      /\ \A u \in Threads : u # t => call'[u] = call[u]
  BY <1>1, OneCall DEF StartWriting
<1>3. /\ call[t].op = "idle" /\ opened[StoreOf[t]].open
      /\ \A u \in Threads : StoreOf[u] = StoreOf[t] => ~Writing(u)
  BY DEF WriteGuard, ReadGuard
<1> HIDE DEF c
<1>4. TypeOK'
  <2>1. writes' \in 0..MaxWrites
    BY KeystoreAssumption DEF TypeOK, StartWriting
  <2>2. QED
    BY <2>1, <1>2 DEF TypeOK
<1>5. Guarded'
  <2>1. \A u \in Threads : Writing(u)' => u = t \/ (Writing(u) /\ StoreOf[u] # StoreOf[t])
    BY <1>2, <1>3 DEF Writing
  <2>2. \A u \in Threads : Writing(u)' => opened'[StoreOf[u]].path
    BY <2>1 DEF Guarded
  <2>3. \A u \in Threads : ~opened'[StoreOf[u]].open => call'[u] = Idle
    BY <1>2, <1>3 DEF Guarded
  <2>4. QED
    BY <2>1, <2>2, <2>3 DEF Guarded
<1>6. InMemory'
  BY DEF InMemory
<1>7. Origins'
  <2>1. ASSUME NEW u \in Threads, Writing(u)'
        PROVE  /\ \E j \in Keys : call'[u].keys = {j} /\ (Inserts(u, j) \/ Generates(u, j))'
               /\ call'[u].phrase \in Phrase \cup {NotASuri}
    <3>1. CASE u = t
      BY <3>1, <1>1, <1>2 DEF Inserts, Generates
    <3>2. CASE u # t
      BY <3>2, <2>1, <1>2 DEF Origins, Inserts, Generates, Writing
    <3>3. QED
      BY <3>1, <3>2
  <2>2. QED
    BY <2>1 DEF Origins
<1>8. Partials'
  BY <1>2, <1>3 DEF Partials, WritesTo
<1>9. Fresh'
  <2>1. ASSUME NEW u \in Threads, Writing(u), NEW j \in call[u].keys, kind = "generate"
        PROVE  j # k
    BY <2>1 DEF Origins, Inserts, Generates
  <2>2. ASSUME NEW u \in Threads, Writing(u)', call'[u].kind = "generate", NEW j \in call'[u].keys
        PROVE  BeingGenerated(u, j)'
    <3>1. CASE u = t
      <4>1. j = k /\ kind = "generate" /\ call'[u].op = "create"
        BY <3>1, <2>2, <1>1, <1>2
      <4>2. \A s \in Stores : memory[s][k] = NoPhrase
        BY <4>1 DEF InMemory
      <4>3. \A p \in generated : p.key # k
        BY <4>1 DEF Fresh
      <4>4. \A v \in Threads : v # u /\ Writing(v)' => k \notin call'[v].keys
        BY <3>1, <2>1, <4>1, <1>2 DEF Writing
      <4>5. QED
        BY <4>1, <4>2, <4>3, <4>4 DEF BeingGenerated
    <3>2. CASE u # t
      <4>1. call'[u] = call[u] /\ Writing(u) /\ BeingGenerated(u, j)
        BY <3>2, <2>2, <1>2 DEF Writing, Fresh
      <4>2. kind = "generate" => j # k
        BY <4>1, <2>1, <2>2
      <4>3. QED
        BY <4>1, <4>2, <1>1, <1>2 DEF BeingGenerated, Writing
    <3>3. QED
      BY <3>1, <3>2
  <2>3. QED
    BY <2>2 DEF Fresh
<1>10. Seen'
  BY <1>1, <1>2 DEF Seen, Kept, WritesTo
<1>11. QED
  BY <1>4, <1>5, <1>6, <1>7, <1>8, <1>9, <1>10

\* A thread with the write guard puts a key into memory.
LEMMA RememberPreserves ==
  ASSUME IInv, NEW t \in Threads, NEW k \in Keys, WriteGuard(t),
         NEW phrase \in Phrase, phrase.key = k, NoPassword \in phrase.passwords,
         insert_ephemeral_pair(StoreOf[t], k, phrase), Forget(t),
         UNCHANGED <<opened, file, writes, generated, overwritten, broken>>,
         made \subseteq made', seeded \subseteq seeded',
         made' \subseteq Keys, seeded' \subseteq Keys, made' \cap seeded' = {},
         k \notin made, k \in made' \cup seeded'
  PROVE  IInv'
<1> USE DEF IInv
<1>1. StoreOf[t] \in Stores
  BY KeystoreAssumption
<1>2. /\ memory' \in [Stores -> [Keys -> Phrase \cup {NoPhrase}]]
      /\ \A s \in Stores, j \in Keys : memory'[s][j] = IF s = StoreOf[t] /\ j = k THEN phrase ELSE memory[s][j]
  BY <1>1 DEF insert_ephemeral_pair, TypeOK
<1>3. Idle \in Call /\ Idle.op = "idle" /\ ~Idle.result
  BY DEF Idle, Call
<1>4. /\ call' \in [Threads -> Call] /\ call'[t] = Idle
      /\ \A u \in Threads : u # t => call'[u] = call[u]
  BY <1>3, OneCall DEF Forget
<1>5. call[t].op = "idle" /\ opened[StoreOf[t]].open
  BY DEF WriteGuard, ReadGuard
<1>6. \A u \in Threads : Writing(u)' => u # t /\ Writing(u) /\ call'[u] = call[u]
  BY <1>3, <1>4 DEF Writing
<1>7. TypeOK'
  BY <1>2, <1>4 DEF TypeOK
<1>8. Guarded'
  BY <1>4, <1>6 DEF Guarded
<1>9. InMemory'
  BY <1>2, <1>5 DEF InMemory
<1>10. Origins'
  BY <1>6 DEF Origins, Inserts, Generates
<1>11. Partials'
  BY <1>4, <1>5 DEF Partials, WritesTo
<1>12. Fresh'
  <2>1. ASSUME NEW u \in Threads, Writing(u)', call'[u].kind = "generate", NEW j \in call'[u].keys
        PROVE  BeingGenerated(u, j)'
    <3>1. u # t /\ Writing(u) /\ call'[u] = call[u] /\ BeingGenerated(u, j)
      BY <1>6, <2>1 DEF Fresh
    <3>2. j \in made
      BY <3>1, <2>1 DEF Origins, Inserts, Generates
    <3>3. QED
      BY <3>1, <3>2, <1>2, <1>6 DEF BeingGenerated, TypeOK
  <2>2. \A p \in generated : p.key \in made' /\ \A s \in Stores : memory'[s][p.key] = NoPhrase
    BY <1>2 DEF Fresh, TypeOK
  <2>3. QED
    BY <2>1, <2>2 DEF Fresh
<1>13. Seen'
  <2>1. NoPhrase # phrase
    BY <1>1, Distinct
  <2>2. \A s \in Stores, j \in Keys : Kept(s, j) => Kept(s, j)'
    BY <2>1, <1>2 DEF Kept
  <2>3. \A u \in Threads, j \in Keys : WritesTo(u, j)' => WritesTo(u, j)
    BY <1>3, <1>4 DEF WritesTo
  <2>4. \A u \in Threads : StoreOf[u] \in Stores /\ call[u] \in Call
    BY KeystoreAssumption DEF TypeOK
  <2>5. QED
    BY <2>2, <2>3, <2>4, <1>3, <1>4, CallParts DEF Seen
<1>14. QED
  BY <1>7, <1>8, <1>9, <1>10, <1>11, <1>12, <1>13

LEMMA GeneratePreserves ==
  ASSUME IInv, NEW t \in Threads, GenerateByType(t)
  PROVE  IInv'
<1> DEFINE phrase(k) == [key |-> k, passwords |-> {opened[StoreOf[t]].password}]
<1>1. PICK k \in Keys \ (made \cup seeded \cup overwritten) :
        made' = made \cup {k} /\ KeepPhrase(t, k, phrase(k))
  BY DEF GenerateByType
<1>2. /\ WriteGuard(t) /\ StoreOf[t] \in Stores
      /\ UNCHANGED <<opened, file, seeded, overwritten, broken>>
  BY KeystoreAssumption DEF GenerateByType
<1>3. opened[StoreOf[t]].password \in Password
  <2>1. opened[StoreOf[t]] \in Keystore \cup {Closed}
    BY <1>2 DEF IInv, TypeOK
  <2>2. \A keystore \in Keystore : keystore.password \in Password
    BY DEF Keystore
  <2>3. Closed.password \in Password
    BY DEF Closed, Password
  <2>4. QED
    BY <2>1, <2>2, <2>3
<1>4. made' \subseteq Keys /\ made' \cap seeded = {} /\ seeded \subseteq Keys /\ overwritten \subseteq Keys
  BY <1>1 DEF IInv, TypeOK, Origins
<1>5. phrase(k) \in Phrase /\ phrase(k).key = k /\ phrase(k).passwords = {opened[StoreOf[t]].password}
  <2>1. {opened[StoreOf[t]].password} \in Suri
    BY <1>3 DEF Suri, Words
  <2>2. QED
    BY <1>1, <2>1 DEF Phrase
<1>6. CASE opened[StoreOf[t]].path
  <2>1. phrase(k) \in Phrase /\ phrase(k).key = k
    BY <1>1, <1>5
  <2>2. StartWriting(t, "generate", k, phrase(k)) /\ UNCHANGED <<memory, generated>>
    BY <1>1, <1>6 DEF KeepPhrase
  <2> HIDE DEF phrase
  <2>3. QED
    BY <1>1, <1>2, <1>4, <1>6, <2>1, <2>2, StartPreserves
<1>7. CASE ~opened[StoreOf[t]].path
  <2>1. phrase(k) \in Phrase /\ phrase(k).key = k /\ NoPassword \in phrase(k).passwords
    BY <1>2, <1>7, <1>5 DEF IInv, InMemory
  <2>2. /\ insert_ephemeral_pair(StoreOf[t], k, phrase(k)) /\ Forget(t)
        /\ UNCHANGED <<writes, generated>>
    BY <1>1, <1>7 DEF KeepPhrase
  <2> HIDE DEF phrase
  <2>3. QED
    BY <1>1, <1>2, <1>4, <2>1, <2>2, RememberPreserves
<1>8. QED
  BY <1>6, <1>7

LEMMA SeedPreserves ==
  ASSUME IInv, NEW t \in Threads, InsertFromSeed(t)
  PROVE  IInv'
<1>1. PICK k \in Keys \ made : \E passwords \in {ps \in Suri : NoPassword \in ps} :
        KeepSeed(t, k, [key |-> k, passwords |-> passwords]) /\ seeded' = seeded \cup {k}
  BY DEF InsertFromSeed
<1>2. PICK passwords \in {ps \in Suri : NoPassword \in ps} :
        KeepSeed(t, k, [key |-> k, passwords |-> passwords]) /\ seeded' = seeded \cup {k}
  BY <1>1
<1> DEFINE phrase == [key |-> k, passwords |-> passwords]
<1>3. phrase \in Phrase /\ phrase.key = k /\ NoPassword \in phrase.passwords
  BY <1>2 DEF Phrase
<1>4. KeepSeed(t, k, phrase) /\ seeded' = seeded \cup {k}
  BY <1>2
<1> HIDE DEF phrase
<1>5. made \subseteq Keys /\ seeded' \subseteq Keys /\ made \cap seeded' = {}
  BY <1>4 DEF IInv, TypeOK, Origins
<1>6. /\ WriteGuard(t)
      /\ UNCHANGED <<opened, file, made, generated, overwritten, broken>>
  BY DEF InsertFromSeed
<1>7. QED
  BY <1>3, <1>4, <1>5, <1>6, RememberPreserves DEF KeepSeed

LEMMA InsertUnknownPreserves ==
  ASSUME IInv, NEW t \in Threads, InsertUnknown(t)
  PROVE  IInv'
<1>1. PICK k \in Keys : \E phrase \in {[key |-> k, passwords |-> ps] : ps \in Suri} \cup {NotASuri} :
        /\ opened[StoreOf[t]].path
        /\ StartWriting(t, "insert", k, phrase)
        /\ overwritten' = overwritten \cup {k}
  BY DEF InsertUnknown
<1>2. PICK phrase \in {[key |-> k, passwords |-> ps] : ps \in Suri} \cup {NotASuri} :
        /\ opened[StoreOf[t]].path
        /\ StartWriting(t, "insert", k, phrase)
        /\ overwritten' = overwritten \cup {k}
  BY <1>1
<1>3. phrase \in Phrase \cup {NotASuri}
  BY <1>2 DEF Phrase
<1>4. made \subseteq Keys /\ overwritten' \subseteq Keys /\ made \cap seeded = {}
  BY <1>2 DEF IInv, TypeOK, Origins
<1>5. QED
  BY <1>2, <1>3, <1>4, StartPreserves DEF InsertUnknown

-----------------------------------------------------------------------------
\* Who else writes the file of a key that a thread generates was told to
\* overwrite it.
LEMMA OtherWriters ==
  ASSUME IInv, NEW t \in Threads, NEW u \in Threads, u # t, NEW k \in call[t].keys,
         Writing(t), call[t].kind = "generate", Writing(u), k \in call[u].keys
  PROVE  k \in overwritten
<1>1. BeingGenerated(t, k)
  BY DEF IInv, Fresh
<1>2. call[u].kind = "insert"
  BY <1>1 DEF BeingGenerated
<1>3. QED
  BY <1>2 DEF IInv, Origins, Inserts, Generates

\* Nobody writes the file of a key that generate has returned, unless told to
\* overwrite it.
LEMMA LaterWriters ==
  ASSUME IInv, NEW phrase \in generated, NEW u \in Threads, Writing(u), phrase.key \in call[u].keys
  PROVE  phrase.key \in overwritten
<1>1. call[u].kind # "generate"
  BY DEF IInv, Fresh, BeingGenerated
<1>2. QED
  BY <1>1 DEF IInv, Origins, Inserts, Generates

LEMMA CreatePreserves ==
  ASSUME IInv, NEW t \in Threads, CreateFile(t)
  PROVE  IInv'
<1> USE DEF IInv
<1> DEFINE c == [call[t] EXCEPT !.op = "write"]
<1>1. call[t].op = "create" /\ Writing(t) /\ call[t] \in Call
  BY DEF CreateFile, Writing, TypeOK
<1>2. PICK k \in Keys : call[t].keys = {k} /\ (Inserts(t, k) \/ Generates(t, k))
  BY <1>1 DEF Origins
<1>3. /\ c \in Call /\ c.op = "write" /\ c.kind = call[t].kind /\ c.phrase = call[t].phrase
      /\ c.keys = {k} /\ c.result = call[t].result
  BY <1>1, <1>2 DEF Call
<1>4. /\ call' \in [Threads -> Call] /\ call'[t] = c
      /\ \A u \in Threads : u # t => call'[u] = call[u]
  BY <1>3, OneCall DEF CreateFile
<1> HIDE DEF c
<1>5. /\ file'[k] = Partial /\ \A j \in Keys : j # k => file'[j] = file[j]
      /\ file' \in [Keys -> Phrase \cup {NotASuri, Missing, Partial}]
      /\ broken' = broken \ {k}
      /\ UNCHANGED <<opened, memory, writes, made, generated, seeded, overwritten>>
  BY <1>2 DEF CreateFile, TypeOK
<1>6. \A u \in Threads : Writing(u)' => Writing(u) /\ call'[u].keys = call[u].keys /\ call'[u].kind = call[u].kind
  BY <1>1, <1>2, <1>3, <1>4 DEF Writing
<1>7. TypeOK'
  BY <1>4, <1>5 DEF TypeOK
<1>8. Guarded'
  <2>1. \A u \in Threads : ~opened[StoreOf[u]].open => call'[u] = Idle
    BY <1>1, <1>4 DEF Guarded, Idle
  <2>2. QED
    BY <2>1, <1>5, <1>6 DEF Guarded
<1>9. InMemory'
  BY <1>5 DEF InMemory
<1>10. Origins'
  <2>1. \A u \in Threads : call'[u].phrase = call[u].phrase
    BY <1>3, <1>4
  <2>2. \A u \in Threads, j \in Keys : Writing(u)' => (Inserts(u, j)' <=> Inserts(u, j)) /\ (Generates(u, j)' <=> Generates(u, j))
    BY <2>1, <1>5, <1>6 DEF Inserts, Generates
  <2>3. k \in made \cup overwritten
    BY <1>2 DEF Inserts, Generates
  <2>4. QED
    BY <2>1, <2>2, <2>3, <1>5, <1>6 DEF Origins
<1>11. Partials'
  <2>1. \A u \in Threads, j \in Keys : WritesTo(u, j) => WritesTo(u, j)'
    BY <1>1, <1>4 DEF WritesTo
  <2>2. WritesTo(t, k)'
    BY <1>3, <1>4 DEF WritesTo
  <2>3. QED
    BY <2>1, <2>2, <1>5 DEF Partials
<1>12. Fresh'
  <2>1. ASSUME NEW u \in Threads, Writing(u)', call'[u].kind = "generate", NEW j \in call'[u].keys
        PROVE  BeingGenerated(u, j)'
    <3>1. Writing(u) /\ call[u].kind = "generate" /\ j \in call[u].keys /\ BeingGenerated(u, j)
      BY <1>6, <2>1 DEF Fresh
    <3>2. j \in Keys
      BY <3>1, CallParts DEF TypeOK
    <3>3. ASSUME call'[u].op = "write", j \notin overwritten PROVE file'[j] = Partial /\ j \notin broken'
      <4>1. CASE u = t
        BY <4>1, <3>1, <1>2, <1>5
      <4>2. CASE u # t
        <5>1. j # k
          BY <4>2, <3>1, <3>3, <1>1, <1>2, OtherWriters
        <5>2. call[u].op = "write"
          BY <4>2, <3>3, <1>4
        <5>3. QED
          BY <5>1, <5>2, <3>1, <3>2, <3>3, <1>5 DEF BeingGenerated
      <4>3. QED
        BY <4>1, <4>2
    <3>4. QED
      BY <3>1, <3>3, <1>5, <1>6 DEF BeingGenerated
  <2>2. ASSUME NEW phrase \in generated, phrase.key \notin overwritten
        PROVE  file'[phrase.key] = phrase
    <3>1. phrase.key # k
      BY <2>2, <1>1, <1>2, LaterWriters
    <3>2. phrase.key \in Keys /\ file[phrase.key] = phrase
      BY <2>2 DEF Fresh, TypeOK
    <3>3. QED
      BY <3>1, <3>2, <1>5
  <2>3. QED
    BY <2>1, <2>2, <1>5 DEF Fresh
<1>13. Seen'
  <2>1. Partial # Missing
    BY Distinct
  <2>2. \A s \in Stores, j \in Keys : Kept(s, j) => Kept(s, j)'
    BY <2>1, <1>5 DEF Kept
  <2>3. \A u \in Threads, j \in Keys : WritesTo(u, j)' => j = k \/ WritesTo(u, j)
    BY <1>3, <1>4 DEF WritesTo
  <2>4. \A u \in Threads : StoreOf[u] \in Stores /\ call[u] \in Call
    BY KeystoreAssumption DEF TypeOK
  <2>5. \A u \in Threads, j \in Keys : WritesTo(u, j)' => file'[j] # Missing
    BY <2>1, <2>3, <1>5 DEF Seen
  <2>6. \A u \in Threads : call'[u].op = "has" => call'[u] = call[u]
    BY <1>3, <1>4
  <2>7. \A u \in Threads : call'[u].result = call[u].result /\ call'[u].keys = call[u].keys
    BY <1>2, <1>3, <1>4
  <2>8. \A u \in Threads : call[u].keys \subseteq Keys
    BY <2>4, CallParts
  <2>9. QED
    BY <2>2, <2>4, <2>5, <2>6, <2>7, <2>8 DEF Seen
<1>14. QED
  BY <1>7, <1>8, <1>9, <1>10, <1>11, <1>12, <1>13

\* A thread gives the write guard back: what that means for the others.
LEMMA Released ==
  ASSUME IInv, NEW t \in Threads, Writing(t), Forget(t)
  PROVE  /\ call' \in [Threads -> Call] /\ call'[t] = Idle
         /\ \A u \in Threads : u # t => call'[u] = call[u]
         /\ \A u \in Threads : Writing(u)' => u # t /\ Writing(u)
         /\ \A u \in Threads, k \in Keys : WritesTo(u, k)' <=> (u # t /\ WritesTo(u, k))
         /\ \A u \in Threads : StoreOf[u] \in Stores /\ call[u].keys \subseteq Keys
<1>1. Idle \in Call /\ Idle.op = "idle"
  BY DEF Idle, Call
<1>2. /\ call' \in [Threads -> Call] /\ call'[t] = Idle
      /\ \A u \in Threads : u # t => call'[u] = call[u]
  BY <1>1, OneCall DEF Forget, IInv
<1>3. \A u \in Threads : call[u].keys \subseteq Keys
  BY CallParts DEF IInv, TypeOK
<1>4. QED
  BY <1>1, <1>2, <1>3, KeystoreAssumption DEF Writing, WritesTo

LEMMA ReleasePreserves ==
  ASSUME IInv, NEW t \in Threads, NEW k \in Keys, Writing(t), Forget(t), call[t].keys = {k},
         UNCHANGED <<opened, memory, writes, made, seeded, overwritten>>,
         \* the file of k, if it has been written
         file' \in [Keys -> Phrase \cup {NotASuri, Missing, Partial}],
         \A j \in Keys : j # k => file'[j] = file[j],
         file[k] # Missing => file'[k] # Missing,
         file'[k] # Missing => k \in made \cup overwritten,
         \* and whether its last write has failed
         broken' \subseteq Keys, \A j \in Keys : j # k => (j \in broken' <=> j \in broken),
         file'[k] = Partial => k \in broken' \/ \E u \in Threads \ {t} : WritesTo(u, k),
         \* what generate has returned Ok for
         \/ UNCHANGED generated
         \/ /\ call[t].kind = "generate" /\ call[t].phrase \in Phrase /\ call[t].phrase.key = k
            /\ generated' = generated \cup {call[t].phrase}
            /\ k \notin overwritten => file'[k] = call[t].phrase
  PROVE  IInv'
<1> USE DEF IInv
<1>1. /\ call' \in [Threads -> Call] /\ call'[t] = Idle
      /\ \A u \in Threads : u # t => call'[u] = call[u]
      /\ \A u \in Threads : Writing(u)' => u # t /\ Writing(u)
      /\ \A u \in Threads, j \in Keys : WritesTo(u, j)' <=> (u # t /\ WritesTo(u, j))
      /\ \A u \in Threads : StoreOf[u] \in Stores /\ call[u].keys \subseteq Keys
  BY Released
<1>2. \A u \in Threads \ {t} : Writing(u) /\ call[u].kind = "generate" => k \notin call[u].keys \/ k \in overwritten
  <2> SUFFICES ASSUME NEW u \in Threads \ {t}, Writing(u), call[u].kind = "generate", k \in call[u].keys
               PROVE  k \in overwritten
    OBVIOUS
  <2>1. call[t].kind = "insert"
    BY DEF Fresh, BeingGenerated
  <2>2. QED
    BY <2>1 DEF Origins, Inserts, Generates
<1>3. TypeOK'
  BY <1>1 DEF TypeOK
<1>4. Guarded'
  BY <1>1 DEF Guarded
<1>5. InMemory'
  BY DEF InMemory
<1>6. Origins'
  <2>1. ASSUME NEW u \in Threads, Writing(u)'
        PROVE  /\ \E j \in Keys : call'[u].keys = {j} /\ (Inserts(u, j) \/ Generates(u, j))'
               /\ call'[u].phrase \in Phrase \cup {NotASuri}
    BY <2>1, <1>1 DEF Origins, Inserts, Generates
  <2>2. QED
    BY <2>1 DEF Origins
<1>7. Partials'
  <2>1. ASSUME NEW j \in Keys, file'[j] = Partial
        PROVE  j \in broken' \/ \E u \in Threads : WritesTo(u, j)'
    <3>1. CASE j = k
      BY <3>1, <2>1, <1>1
    <3>2. CASE j # k
      <4>1. ~WritesTo(t, j)
        BY <3>2 DEF WritesTo
      <4>2. QED
        BY <3>2, <4>1, <2>1, <1>1 DEF Partials
    <3>3. QED
      BY <3>1, <3>2
  <2>2. QED
    BY <2>1 DEF Partials
<1>8. \A phrase \in generated' \ generated : phrase = call[t].phrase
  OBVIOUS
<1>9. Fresh'
  <2>1. ASSUME NEW u \in Threads, Writing(u)', call'[u].kind = "generate", NEW j \in call'[u].keys
        PROVE  BeingGenerated(u, j)'
    <3>1. u # t /\ call'[u] = call[u] /\ Writing(u) /\ BeingGenerated(u, j) /\ j \in Keys
      BY <2>1, <1>1 DEF Fresh
    <3>2. \A phrase \in generated' : phrase.key # j
      <4>1. call[t].kind = "generate" => k # j
        BY <3>1, <2>1 DEF BeingGenerated
      <4>2. QED
        BY <4>1, <3>1, <1>8 DEF BeingGenerated
    <3>3. j \notin overwritten => j # k
      BY <3>1, <2>1, <1>2
    <3>4. QED
      BY <3>1, <3>2, <3>3, <1>1 DEF BeingGenerated
  <2>2. ASSUME NEW phrase \in generated
        PROVE  /\ phrase.key \in made
               /\ \A s \in Stores : memory[s][phrase.key] = NoPhrase
               /\ phrase.key \notin overwritten => file'[phrase.key] = phrase
    <3>1. phrase.key = k => k \in overwritten
      BY LaterWriters
    <3>2. QED
      BY <3>1 DEF Fresh, TypeOK
  <2>3. ASSUME NEW phrase \in generated' \ generated
        PROVE  /\ phrase.key \in made
               /\ \A s \in Stores : memory[s][phrase.key] = NoPhrase
               /\ phrase.key \notin overwritten => file'[phrase.key] = phrase
    <3>1. phrase.key = k /\ call[t].kind = "generate" /\ (k \notin overwritten => file'[k] = phrase)
      BY <2>3, <1>8
    <3>2. k \in made /\ BeingGenerated(t, k)
      BY <3>1 DEF Origins, Inserts, Generates, Fresh
    <3>3. QED
      BY <3>1, <3>2 DEF BeingGenerated
  <2>4. QED
    BY <2>1, <2>2, <2>3 DEF Fresh
<1>10. Seen'
  <2>1. \A j \in Keys : file[j] # Missing => file'[j] # Missing
    OBVIOUS
  <2>2. \A s \in Stores, j \in Keys : Kept(s, j) => Kept(s, j)'
    BY <2>1 DEF Kept
  <2>3. Idle.op = "idle" /\ ~Idle.result
    BY DEF Idle
  <2>4. QED
    BY <2>1, <2>2, <2>3, <1>1 DEF Seen
<1>11. QED
  BY <1>3, <1>4, <1>5, <1>6, <1>7, <1>9, <1>10

LEMMA CreateFailsPreserves ==
  ASSUME IInv, NEW t \in Threads, CreateFails(t)
  PROVE  IInv'
<1>1. Writing(t) /\ ~\E k \in Keys : WritesTo(t, k)
  BY DEF CreateFails, Writing, WritesTo
<1>2. PICK k \in Keys : call[t].keys = {k}
  BY <1>1 DEF IInv, Origins
<1>3. file[k] = Partial => k \in broken \/ \E u \in Threads \ {t} : WritesTo(u, k)
  BY <1>1 DEF IInv, Partials
<1>4. file[k] # Missing => k \in made \cup overwritten
  BY DEF IInv, Origins
<1>5. QED
  BY <1>1, <1>2, <1>3, <1>4, ReleasePreserves DEF CreateFails, historyVars, IInv, TypeOK

LEMMA WriteFailsPreserves ==
  ASSUME IInv, NEW t \in Threads, WriteFails(t)
  PROVE  IInv'
<1>1. Writing(t)
  BY DEF WriteFails, Writing
<1>2. PICK k \in Keys : call[t].keys = {k}
  BY <1>1 DEF IInv, Origins
<1>3. broken' = broken \cup {k}
  BY <1>2 DEF WriteFails
<1>4. file[k] # Missing => k \in made \cup overwritten
  BY DEF IInv, Origins
<1>5. QED
  BY <1>1, <1>2, <1>3, <1>4, ReleasePreserves DEF WriteFails, IInv, TypeOK

LEMMA WritePreserves ==
  ASSUME IInv, NEW t \in Threads, WriteFile(t)
  PROVE  IInv'
<1>1. Writing(t) /\ call[t].op = "write" /\ Forget(t) /\ UNCHANGED <<opened, memory, writes, made, seeded, overwritten>>
  BY DEF WriteFile, Writing
<1>2. PICK k \in Keys : call[t].keys = {k} /\ (Inserts(t, k) \/ Generates(t, k))
  BY <1>1 DEF IInv, Origins
<1>3. PICK content \in {call[t].phrase} \cup (IF Mixed(t, k) THEN {file[k], Partial} ELSE {}) :
        /\ file' = [file EXCEPT ![k] = content]
        /\ broken' = IF content = Partial THEN broken \cup {k} ELSE broken \ {k}
  BY <1>2 DEF WriteFile
<1>4. generated' = generated \cup (IF call[t].kind = "generate" THEN {call[t].phrase} ELSE {})
  BY <1>2 DEF WriteFile
<1>5. call[t].phrase \in Phrase \cup {NotASuri} /\ file[k] # Missing
  BY <1>1, <1>2 DEF IInv, Origins, Seen, WritesTo
<1>6. content \in Phrase \cup {NotASuri, Partial}
  BY <1>3, <1>5 DEF IInv, TypeOK
<1>7. /\ file' \in [Keys -> Phrase \cup {NotASuri, Missing, Partial}]
      /\ file'[k] = content /\ \A j \in Keys : j # k => file'[j] = file[j]
  BY <1>3, <1>6 DEF IInv, TypeOK
<1>8. content # Missing
  BY <1>6, Distinct
<1>9. k \in made \cup overwritten
  BY <1>2 DEF Inserts, Generates
<1>10. call[t].kind = "generate" /\ k \notin overwritten => content = call[t].phrase
  <2> SUFFICES ASSUME call[t].kind = "generate", k \notin overwritten PROVE ~Mixed(t, k)
    BY <1>3
  <2>1. BeingGenerated(t, k)
    BY <1>1, <1>2 DEF IInv, Fresh
  <2>2. file[k] = Partial /\ k \notin broken
    BY <2>1, <1>1 DEF BeingGenerated
  <2>3. \A u \in Threads \ {t} : ~WritesTo(u, k)
    BY <1>1, <1>2, OtherWriters DEF WritesTo, Writing
  <2>4. QED
    BY <2>2, <2>3 DEF Mixed
<1>11. \/ UNCHANGED generated
       \/ /\ call[t].kind = "generate" /\ call[t].phrase \in Phrase /\ call[t].phrase.key = k
          /\ generated' = generated \cup {call[t].phrase}
          /\ k \notin overwritten => file'[k] = call[t].phrase
  BY <1>2, <1>4, <1>7, <1>10 DEF Inserts, Generates
<1>12. broken' \subseteq Keys /\ (\A j \in Keys : j # k => (j \in broken' <=> j \in broken))
  BY <1>3 DEF IInv, TypeOK
<1>13. file'[k] = Partial => k \in broken'
  BY <1>3, <1>7
<1>14. QED
  BY <1>1, <1>2, <1>5, <1>7, <1>8, <1>9, <1>11, <1>12, <1>13, ReleasePreserves

-----------------------------------------------------------------------------
\* What key_phrase_by_type returns is there.
LEMMA HasPhraseIsKept ==
  ASSUME TypeOK, NEW s \in Stores, NEW k \in Keys, HasPhrase(s, k)
  PROVE  Kept(s, k)
BY DEF HasPhrase, key_phrase_by_type, Kept

\* A step of has_keys, which changes nothing but the call.
LEMMA HasPreserves ==
  ASSUME IInv, NEW t \in Threads, NEW c \in Call, call' = [call EXCEPT ![t] = c],
         UNCHANGED <<opened, memory, file, historyVars>>,
         ~Writing(t), opened[StoreOf[t]].open, c.op \in {"idle", "has"},
         c.op = "has" => \A k \in c.keys \ c.left : Kept(StoreOf[t], k),
         c.result => \A k \in c.keys : Kept(StoreOf[t], k)
  PROVE  IInv'
<1> USE DEF IInv
<1>1. /\ call' \in [Threads -> Call] /\ call'[t] = c
      /\ \A u \in Threads : u # t => call'[u] = call[u]
  BY OneCall
<1>2. \A u \in Threads : Writing(u)' => u # t /\ Writing(u)
  BY <1>1 DEF Writing
<1>3. \A u \in Threads, k \in Keys : WritesTo(u, k)' <=> WritesTo(u, k)
  BY <1>1 DEF WritesTo, Writing
<1>4. TypeOK' /\ Guarded' /\ InMemory'
  BY <1>1, <1>2 DEF TypeOK, Guarded, InMemory, historyVars
<1>5. Origins' /\ Partials'
  BY <1>1, <1>2, <1>3 DEF Origins, Inserts, Generates, Partials, historyVars
<1>6. Fresh'
  BY <1>1, <1>2 DEF Fresh, BeingGenerated, historyVars
<1>7. Seen'
  BY <1>1, <1>3 DEF Seen, Kept
<1>8. QED
  BY <1>4, <1>5, <1>6, <1>7

LEMMA HasKeysPreserves ==
  ASSUME IInv, NEW t \in Threads, HasKeys(t)
  PROVE  IInv'
<1>1. PICK keys \in SUBSET Keys :
        call' = [call EXCEPT ![t] = [Idle EXCEPT !.op = "has", !.keys = keys, !.left = keys]]
  BY DEF HasKeys
<1> DEFINE c == [Idle EXCEPT !.op = "has", !.keys = keys, !.left = keys]
<1>2. c \in Call /\ c.op = "has" /\ c.keys = keys /\ c.left = keys /\ ~c.result
  BY DEF Idle, Call
<1>3. /\ ~Writing(t) /\ opened[StoreOf[t]].open /\ call' = [call EXCEPT ![t] = c]
      /\ UNCHANGED <<opened, memory, file, historyVars>>
  BY <1>1 DEF HasKeys, Writing
<1> HIDE DEF c
<1>4. QED
  BY <1>2, <1>3, HasPreserves

LEMMA HasKeyPreserves ==
  ASSUME IInv, NEW t \in Threads, HasKey(t)
  PROVE  IInv'
<1>1. /\ call[t].op = "has" /\ call[t] \in Call /\ call[t].keys \subseteq Keys /\ call[t].left \subseteq Keys
      /\ StoreOf[t] \in Stores /\ opened[StoreOf[t]].open /\ ~Writing(t)
      /\ UNCHANGED <<opened, memory, file, historyVars>>
  BY CallParts, KeystoreAssumption DEF HasKey, ReadGuard, IInv, TypeOK, Writing
<1>2. /\ \A k \in call[t].keys \ call[t].left : Kept(StoreOf[t], k)
      /\ call[t].result => \A k \in call[t].keys : Kept(StoreOf[t], k)
  BY <1>1 DEF IInv, Seen
<1>3. PICK k \in call[t].left :
        call' = [call EXCEPT ![t] =
          IF AllKeys(t, k) THEN [Idle EXCEPT !.keys = call[t].keys, !.result = TRUE]
          ELSE IF HasPhrase(StoreOf[t], k) THEN [call[t] EXCEPT !.left = @ \ {k}]
          ELSE Idle]
  BY DEF HasKey
<1>4. HasPhrase(StoreOf[t], k) => Kept(StoreOf[t], k)
  BY <1>1, HasPhraseIsKept DEF IInv
<1>5. CASE AllKeys(t, k)
  <2> DEFINE c == [Idle EXCEPT !.keys = call[t].keys, !.result = TRUE]
  <2>1. c \in Call /\ c.op = "idle" /\ c.keys = call[t].keys
    BY <1>1 DEF Idle, Call
  <2>2. \A j \in c.keys : Kept(StoreOf[t], j)
    BY <2>1, <1>2, <1>4, <1>5 DEF AllKeys
  <2>3. call' = [call EXCEPT ![t] = c]
    BY <1>3, <1>5
  <2> HIDE DEF c
  <2>4. QED
    BY <2>1, <2>2, <2>3, <1>1, HasPreserves
<1>6. CASE ~AllKeys(t, k) /\ HasPhrase(StoreOf[t], k)
  <2> DEFINE c == [call[t] EXCEPT !.left = @ \ {k}]
  <2>1. /\ c \in Call /\ c.op = "has" /\ c.keys = call[t].keys /\ c.left = call[t].left \ {k}
        /\ c.result = call[t].result
    BY <1>1 DEF Call
  <2>2. \A j \in c.keys \ c.left : Kept(StoreOf[t], j)
    BY <2>1, <1>2, <1>4, <1>6
  <2>3. call' = [call EXCEPT ![t] = c]
    BY <1>3, <1>6
  <2> HIDE DEF c
  <2>4. QED
    BY <2>1, <2>2, <2>3, <1>1, <1>2, HasPreserves
<1>7. CASE ~AllKeys(t, k) /\ ~HasPhrase(StoreOf[t], k)
  <2>1. Idle \in Call /\ Idle.op = "idle" /\ ~Idle.result
    BY DEF Idle, Call
  <2>2. QED
    BY <2>1, <1>1, <1>3, <1>7, HasPreserves
<1>8. QED
  BY <1>5, <1>6, <1>7

-----------------------------------------------------------------------------
LEMMA Steps == IInv /\ [Next]_vars => IInv'
<1> SUFFICES ASSUME IInv, [Next]_vars PROVE IInv'
  OBVIOUS
<1>1. CASE UNCHANGED vars
  BY <1>1 DEF vars, historyVars, IInv, TypeOK, Guarded, InMemory, Origins, Partials, Fresh, Seen,
              BeingGenerated, Inserts, Generates, Writing, WritesTo, Kept
<1>2. CASE \E s \in Stores : Open(s) \/ Crash(s)
  BY <1>2, OpenPreserves, CrashPreserves
<1>3. ASSUME NEW t \in Threads, Thread(t) PROVE IInv'
  BY <1>3, GeneratePreserves, SeedPreserves, InsertUnknownPreserves, CreatePreserves, CreateFailsPreserves,
     WritePreserves, WriteFailsPreserves, HasKeysPreserves, HasKeyPreserves DEF Thread
<1>4. QED
  BY <1>1, <1>2, <1>3 DEF Next

LEMMA Invariance == Spec => []IInv
BY Initially, Steps, PTL DEF Spec

\* Type correctness of the keystores on a directory, for any number of
\* processes, threads, keys and passwords.
THEOREM TypeCorrect == Spec => []TypeOK
BY Invariance, PTL DEF IInv

\* lib.rs:448-461: what generate returned Ok for is found again, after any crash
\* and by any process, unless insert_unknown has written over it.
THEOREM GeneratedIsFound == Spec => []GeneratedKeysAreFound
<1>1. ASSUME IInv, NEW phrase \in generated, NEW s \in Stores,
             opened[s].path, opened[s].password \in phrase.passwords, phrase.key \notin overwritten
      PROVE  phrase.key \in raw_public_keys(s) /\ key_pair_by_type(s, phrase.key) = "Some"
  <2>1. phrase \in Phrase /\ phrase.key \in Keys
    BY <1>1 DEF IInv, TypeOK, Phrase
  <2>2. memory[s][phrase.key] = NoPhrase /\ file[phrase.key] = phrase
    BY <1>1 DEF IInv, Fresh
  <2>3. phrase \notin {NoPhrase, NotASuri, Missing, Partial}
    BY <2>1, Distinct
  <2>4. key_phrase_by_type(s, phrase.key) = phrase
    BY <1>1, <2>2, <2>3 DEF key_phrase_by_type
  <2>5. QED
    BY <1>1, <2>1, <2>2, <2>3, <2>4 DEF raw_public_keys, key_pair_by_type
<1>2. IInv => GeneratedKeysAreFound
  BY <1>1 DEF GeneratedKeysAreFound
<1>3. QED
  BY <1>2, Invariance, PTL

\* The RwLock keeps the half-written files of a keystore from its own readers.
THEOREM PartialFilesHaveAReason == Spec => []PartialFilesAreExplained
<1>1. IInv => PartialFilesAreExplained
  BY DEF IInv, Partials, PartialFilesAreExplained, ReadGuard, WritesTo, Writing
<1>2. QED
  BY <1>1, Invariance, PTL

\* What has_keys has answered holds for all its keys together.
THEOREM HasKeysAnswerHolds == Spec => []HasKeysHolds
<1>1. ASSUME IInv, NEW t \in Threads, call[t].result, NEW k \in call[t].keys
      PROVE  HasPhrase(StoreOf[t], k) \/ k \in broken \/ \E u \in Threads : WritesTo(u, k)
  <2>1. k \in Keys /\ StoreOf[t] \in Stores
    BY <1>1, CallParts, KeystoreAssumption DEF IInv, TypeOK
  <2>2. Kept(StoreOf[t], k)
    BY <1>1 DEF IInv, Seen
  <2>3. /\ \A s \in Stores, j \in Keys : memory[s][j] \in Phrase \cup {NoPhrase}
        /\ \A j \in Keys : file[j] \in Phrase \cup {NotASuri, Missing, Partial}
    BY <1>1 DEF IInv, TypeOK
  <2>4. CASE memory[StoreOf[t]][k] # NoPhrase
    <3>1. memory[StoreOf[t]][k] \in Phrase
      BY <2>3, <2>1, <2>4
    <3>2. QED
      BY <2>4, <3>1, Distinct DEF HasPhrase, key_phrase_by_type
  <2>5. CASE memory[StoreOf[t]][k] = NoPhrase /\ file[k] # Partial
    <3>1. file[k] \notin {Missing, NoPhrase, Partial} /\ opened[StoreOf[t]].path
      BY <2>3, <2>1, <2>2, <2>5, Distinct DEF Kept
    <3>2. QED
      BY <2>5, <3>1 DEF HasPhrase, key_phrase_by_type
  <2>6. CASE file[k] = Partial
    BY <1>1, <2>1, <2>6 DEF IInv, Partials
  <2>7. QED
    BY <2>4, <2>5, <2>6
<1>2. IInv => HasKeysHolds
  BY <1>1 DEF HasKeysHolds
<1>3. QED
  BY <1>2, Invariance, PTL

\* lib.rs:60-63: a key in memory can be used in a keystore without a password,
\* and in one with a password exactly if its suri makes the key with that too.
THEOREM KeysInMemoryAreUsable == Spec => []MemoryKeysAreUsable
<1>1. ASSUME IInv, NEW s \in Stores, NEW k \in Keys, memory[s][k] # NoPhrase
      PROVE  key_pair_by_type(s, k) =
               IF opened[s].password \in {NoPassword} \cup memory[s][k].passwords
                 THEN "Some" ELSE "PublicKeyMismatch"
  <2>1. memory[s][k].key = k /\ NoPassword \in memory[s][k].passwords
    BY <1>1 DEF IInv, InMemory
  <2>2. memory[s][k] \in Phrase
    BY <1>1 DEF IInv, TypeOK
  <2>3. key_phrase_by_type(s, k) = memory[s][k]
    BY <1>1 DEF key_phrase_by_type
  <2>4. memory[s][k] \notin {NoPhrase, Partial, NotASuri}
    BY <1>1, <2>2, Distinct
  <2>5. QED
    BY <2>1, <2>3, <2>4 DEF key_pair_by_type
<1>2. IInv => MemoryKeysAreUsable
  BY <1>1 DEF MemoryKeysAreUsable
<1>3. QED
  BY <1>2, Invariance, PTL

\* lib.rs:478-480: a key from a seed has no file, but for insert_unknown.
THEOREM SeedsStayOffTheDisk == Spec => []SeedsStayInMemory
<1>1. IInv => SeedsStayInMemory
  BY DEF IInv, TypeOK, Origins, SeedsStayInMemory
<1>2. QED
  BY <1>1, Invariance, PTL
=============================================================================
