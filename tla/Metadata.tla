------------------------------ MODULE Metadata ------------------------------
(***************************************************************************)
(* The metadata of a runtime as the node sends it (raw) and the tables the *)
(* client makes of it (node-api, metadata.rs), with which it finds calls,  *)
(* events, errors and storage by name or by index.                         *)
(*                                                                         *)
(* raw is a record: prefix and version, the pallets in their order, and    *)
(* the types, a function from type ids to definitions as in DynamicValue.  *)
(* A type id None stands for a part that a pallet does not have.  Metadata *)
(* that has been taken in is a record of tables (functions); its err is "" *)
(* or the InvalidMetadataError.                                            *)
(***************************************************************************)
EXTENDS Naturals, SequencesExt

None == "None"

IsASeq(s) == s \in Seq({s[i] : i \in DOMAIN s})

\* A BTreeMap from pairs: a later pair replaces an earlier one with its key.
MapOf(pairs) ==
  [key \in {pairs[i][1] : i \in DOMAIN pairs} |->
     pairs[Max({i \in DOMAIN pairs : pairs[i][1] = key})][2]]

\* get_type_def_variant: the error, if the type is not there or is no enum.
VariantError(types, id) ==
  IF id \notin DOMAIN types THEN "MissingType"
  ELSE IF types[id].def # "Variant" THEN "TypeDefNotVariant" ELSE ""

\* The error of the first type that is not an enum: calls, then events, then errors.
InvalidMetadata(raw) ==
  LET ids(part(_)) == SelectSeq([i \in DOMAIN raw.pallets |-> part(raw.pallets[i])],
                                LAMBDA id : id # None)
      all == ids(LAMBDA p : p.calls) \o ids(LAMBDA p : p.event) \o ids(LAMBDA p : p.error)
      wrong == SelectSeq([i \in DOMAIN all |-> VariantError(raw.types, all[i])],
                         LAMBDA e : e # "")
  IN  IF ~raw.prefix THEN "InvalidPrefix"
      ELSE IF raw.version # 14 THEN "InvalidVersion"
      ELSE IF wrong # <<>> THEN Head(wrong) ELSE ""

\* The variants of the pallets' enums of one kind, by pallet and variant index.
VariantTable(raw, part(_), Entry(_, _)) ==
  LET variants(p) == IF part(p) = None THEN <<>> ELSE raw.types[part(p)].variants
      pairs(p) == [i \in DOMAIN variants(p) |->
                     <<<<p.index, variants(p)[i].index>>, Entry(p, variants(p)[i])>>]
  IN  MapOf(FlattenSeq([i \in DOMAIN raw.pallets |-> pairs(raw.pallets[i])]))

\* The tables of one pallet, by name.
ByName(entries, Entry(_)) ==
  MapOf([i \in DOMAIN entries |-> <<entries[i].name, Entry(entries[i])>>])

PalletMetadata(raw, p) ==
  [index        |-> p.index,
   call_indexes |-> IF p.calls = None THEN <<>>
                    ELSE ByName(raw.types[p.calls].variants, LAMBDA v : v.index),
   storage      |-> ByName(p.storage, LAMBDA entry : entry),
   constants    |-> ByName(p.constants, LAMBDA constant : constant.value)]

\* TryFrom<RuntimeMetadataPrefixed> for Metadata
MetadataFrom(raw) ==
  IF InvalidMetadata(raw) # "" THEN [err |-> InvalidMetadata(raw)]
  ELSE [err     |-> "",
        types   |-> raw.types,
        pallets |-> ByName(raw.pallets, LAMBDA p : PalletMetadata(raw, p)),
        events  |-> VariantTable(raw, LAMBDA p : p.event, LAMBDA p, v :
                      [pallet |-> p.name, event |-> v.name, names |-> v.names, tys |-> v.tys]),
        errors  |-> VariantTable(raw, LAMBDA p : p.error, LAMBDA p, v :
                      [pallet |-> p.name, error |-> v.name]),
        dispatch_error_ty |-> IF "DispatchError" \in DOMAIN raw.types THEN "DispatchError" ELSE None]

-----------------------------------------------------------------------------
(* Lookups: the entry, or a MetadataError. *)

Found(val) == [err |-> "", val |-> val]
NotFound(e) == [err |-> e]
Lookup(table, key, e) == IF key \in DOMAIN table THEN Found(table[key]) ELSE NotFound(e)

\* A lookup in what another lookup has found.
AndThen(r, Next(_)) == IF r.err # "" THEN r ELSE Next(r.val)

pallet(m, name) == Lookup(m.pallets, name, "PalletNotFound")
event(m, p, v) == Lookup(m.events, <<p, v>>, "EventNotFound")
error(m, p, e) == Lookup(m.errors, <<p, e>>, "ErrorNotFound")
call_index(p, function) == Lookup(p.call_indexes, function, "CallNotFound")
storage(p, key) == Lookup(p.storage, key, "StorageNotFound")
constant(p, key) == Lookup(p.constants, key, "ConstantNotFound")

\* The two bytes that a call starts with.
CallIndex(m, name, function) ==
  AndThen(pallet(m, name), LAMBDA p :
    AndThen(call_index(p, function), LAMBDA i : Found(<<p.index, i>>)))
=============================================================================
