---------------------------- MODULE MCEventReading --------------------------
(* Three runtimes.  The first writes module errors in the old layout, the     *)
(* others in the new one; the third has an event, an error and a pallet that  *)
(* the second does not have.  Fields are decoded along the types of Registry. *)
EXTENDS EventReading, DynamicValue

Prim(p) == [def |-> "Primitive", prim |-> p]
Struct(names, tys) == [def |-> "Composite", names |-> names, tys |-> tys]
VariantOf(name, ix, names, tys) == [name |-> name, index |-> ix, names |-> names, tys |-> tys]
Enum(variants) == [def |-> "Variant", variants |-> variants]
ArrayOf(len, ty) == [def |-> "Array", len |-> len, ty |-> ty]

DispatchErrorOf(module) ==
  Enum(<<VariantOf("Other", 0, <<>>, <<>>), VariantOf("Module", 3, <<>>, <<module>>)>>)
TransferEvent == VariantOf("Transfer", 2, <<"from", "to", "amount">>, <<"Hash", "Hash", "U64">>)

MCRegistry ==
  [U8 |-> Prim("U8"), U64 |-> Prim("U64"),
   Hash |-> ArrayOf(2, "U8"), Four |-> ArrayOf(4, "U8"),
   Bytes |-> [def |-> "Sequence", ty |-> "U8"],
   OldModule |-> Struct(<<"index", "error">>, <<"U8", "U8">>),
   NewModule |-> Struct(<<"index", "error">>, <<"U8", "Four">>),
   OldError |-> DispatchErrorOf("OldModule"),
   NewError |-> DispatchErrorOf("NewModule"),
   Balances1 |-> Enum(<<TransferEvent>>),
   Balances2 |-> Enum(<<TransferEvent, VariantOf("Minted", 3, <<"who">>, <<"Hash">>)>>),
   Assets    |-> Enum(<<VariantOf("Noted", 0, <<>>, <<"Bytes">>)>>),
   Errors1   |-> Enum(<<VariantOf("InsufficientBalance", 2, <<>>, <<>>)>>),
   Errors2   |-> Enum(<<VariantOf("InsufficientBalance", 2, <<>>, <<>>),
                        VariantOf("KeepAlive", 4, <<>>, <<>>)>>)]

\* System has its own events: its failures carry the runtime's DispatchError.
SystemEvents(errorTy) ==
  Enum(<<VariantOf("ExtrinsicSuccess", 0, <<>>, <<"U8">>),
         VariantOf("ExtrinsicFailed", 1, <<"dispatch_error", "info">>, <<errorTy, "U8">>),
         VariantOf("CodeUpdated", 2, <<>>, <<>>)>>)

PalletOf(name, ix, event_, error_) ==
  [name |-> name, index |-> ix, calls |-> None, event |-> event_, error |-> error_,
   storage |-> <<>>, constants |-> <<>>]
RawOf(errorTy, balances, errors_, others) ==
  [prefix |-> TRUE, version |-> 14,
   types |-> [SystemEvent |-> SystemEvents(errorTy), DispatchError |-> MCRegistry[errorTy]]
               @@ MCRegistry,
   pallets |-> <<PalletOf("System", 0, "SystemEvent", None),
                 PalletOf("Balances", 5, balances, errors_)>> \o others]
MCRawMetadata ==
  <<RawOf("OldError", "Balances1", "Errors1", <<>>),
    RawOf("NewError", "Balances1", "Errors1", <<>>),
    RawOf("NewError", "Balances2", "Errors2", <<PalletOf("Assets", 9, "Assets", None)>>)>>
MCHolders == <<{1}, {2, 3}, {2, 3}>>

\* An event of runtime r by its names, if the runtime has it.
Ev(r, name, event_, phase, vals, topics, failure) ==
  LET raw == MCRawMetadata[r]
      E == [pallet |-> name, event |-> event_]
  IN  {[phase |-> phase, at |-> at, vals |-> vals, topics |-> topics, failure |-> failure,
        fields |-> EncodeEach(vals, EventAt(raw, at).tys).bytes] :
         at \in {at \in EventPlaces(raw) : IsNamedAs(raw, at, E)}}

Data(n) == Unnamed([i \in 1 .. n |-> UInt(i % 256)])
AnError(p, bytes) ==
  Variant("Module", <<>>, <<Named(<<"index", "error">>, <<UInt(p), bytes>>)>>)
Failed(r, at, p, e) ==
  Ev(r, "System", "ExtrinsicFailed", <<0, 300>>,
     <<AnError(p, IF r = 1 THEN UInt(e)
                  ELSE Unnamed(<<UInt(e), UInt(0), UInt(0), UInt(0)>>)), UInt(7)>>, 0, at)

EventsOfRuntime(r) ==
  Ev(r, "System", "ExtrinsicSuccess", <<0, 1>>, <<UInt(9)>>, 0, <<>>)
    \cup Ev(r, "System", "CodeUpdated", <<1>>, <<>>, 2, <<>>)
    \cup Ev(r, "Balances", "Transfer", <<0, 65536>>, <<Data(2), Data(2), UInt(500)>>, 1, <<>>)
    \cup Ev(r, "Balances", "Minted", <<2>>, <<Data(2)>>, 1, <<>>)
    \cup Ev(r, "Assets", "Noted", <<2>>, <<Data(64)>>, 0, <<>>)
    \cup Ev(r, "System", "ExtrinsicFailed", <<0, 2>>, <<Variant("Other", <<>>, <<>>), UInt(3)>>, 0, <<>>)
    \cup Failed(r, <<<<2, 1>>>>, 5, 2)
    \cup (IF r = 3 THEN Failed(r, <<<<2, 2>>>>, 5, 4) ELSE {})

MCEventBlocks == [r \in 1 .. 3 |-> SeqOf(EventsOfRuntime(r), 3)]
MCStaticEvents ==
  {[pallet |-> "Balances", event |-> "Transfer", tys |-> TransferEvent.tys],
   [pallet |-> "Assets", event |-> "Noted", tys |-> <<"Bytes">>]}
=============================================================================
