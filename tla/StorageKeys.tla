------------------------------ MODULE StorageKeys ---------------------------
(***************************************************************************)
(* The keys of the runtime's storage, made from the metadata that the      *)
(* client holds (node-api, storage.rs and the end of metadata.rs).         *)
(*                                                                         *)
(* A storage key is a sequence of parts <<hasher, text>>, a part that is   *)
(* not hashed being <<"raw", text>>: hashes are taken to be free of        *)
(* collisions.  An entry of the metadata is a record [name, hashers]; a    *)
(* plain value has no hasher.                                              *)
(***************************************************************************)
EXTENDS Metadata

Hashed(hasher, text) == <<hasher, text>>
Raw(text) == <<"raw", text>>

\* Variant of key_hash that leaves the key itself out behind its hash.
HashOnly(key, hasher) ==
  CASE hasher = "Identity"         -> <<Raw(key)>>
    [] hasher = "Blake2_128Concat" -> <<Hashed("Blake2_128", key)>>
    [] hasher = "Twox64Concat"     -> <<Hashed("Twox64", key)>>
    [] OTHER                       -> <<Hashed(hasher, key)>>

key_hash(key, hasher) ==
  CASE hasher = "Identity"         -> <<Raw(key)>>
    [] hasher = "Blake2_128Concat" -> <<Hashed("Blake2_128", key), Raw(key)>>
    [] hasher = "Twox64Concat"     -> <<Hashed("Twox64", key), Raw(key)>>
    [] OTHER                       -> <<Hashed(hasher, key)>>

\* utils.rs, and the beginning of every other key.
storage_key(module, name) == <<Hashed("Twox128", module), Hashed("Twox128", name)>>

IsMap(entry) == entry.hashers # <<>>

\* The key of an entry of a map, from as many hashers as there are map keys: what
\* lies behind the last of them is not looked at.
EntryKey(prefix, entry, keys) ==
  IF IsMap(entry) /\ Len(keys) <= Len(entry.hashers)
  THEN Found(storage_key(prefix, entry.name)
               \o FlattenSeq([i \in DOMAIN keys |-> key_hash(keys[i], entry.hashers[i])]))
  ELSE NotFound("StorageTypeError")

get_value(entry, prefix) ==
  IF IsMap(entry) THEN NotFound("StorageTypeError") ELSE Found(storage_key(prefix, entry.name))
get_map(entry, prefix, key) == EntryKey(prefix, entry, <<key>>)
get_double_map(entry, prefix, key1, key2) == EntryKey(prefix, entry, <<key1, key2>>)

get_map_prefix(entry, prefix) ==
  IF IsMap(entry) THEN Found(storage_key(prefix, entry.name)) ELSE NotFound("StorageTypeError")

\* The key of the entry name of a pallet, whose name is also the prefix.
KeyOf(m, prefix, name, Get(_)) ==
  AndThen(pallet(m, prefix), LAMBDA p : AndThen(storage(p, name), Get))

storage_value_key(m, prefix, name) == KeyOf(m, prefix, name, LAMBDA e : get_value(e, prefix))
storage_map_key(m, prefix, name, key) ==
  KeyOf(m, prefix, name, LAMBDA e : get_map(e, prefix, key))
storage_map_key_prefix(m, prefix, name) ==
  KeyOf(m, prefix, name, LAMBDA e : get_map_prefix(e, prefix))
storage_double_map_key(m, prefix, name, first, second) ==
  KeyOf(m, prefix, name, LAMBDA e : get_double_map(e, prefix, first, second))
=============================================================================
