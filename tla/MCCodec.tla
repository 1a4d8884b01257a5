------------------------------- MODULE MCCodec ------------------------------
(***************************************************************************)
(* A runtime of four pallets, and values for every kind of type.           *)
(***************************************************************************)
EXTENDS Codec

IntTypes == <<"U8", "U16", "U32", "U64", "U128", "I8", "I16", "I32", "I64", "I128">>
Prim(p) == [def |-> "Primitive", prim |-> p]
Struct(names, tys) == [def |-> "Composite", names |-> names, tys |-> tys]
OfVariant(name, index, names, tys) ==
  [name |-> name, index |-> index, names |-> names, tys |-> tys]
Enum(variants) == [def |-> "Variant", variants |-> variants]
Tuple(tys) == [def |-> "Tuple", tys |-> tys]
SequenceOf(ty) == [def |-> "Sequence", ty |-> ty]
ArrayOf(len, ty) == [def |-> "Array", len |-> len, ty |-> ty]
CompactOf(ty) == [def |-> "Compact", ty |-> ty]
Bits(store, order) == [def |-> "BitSequence", store |-> store, order |-> order]

\* The types of the values.
PlainTypes ==
  [p \in ToSet(IntTypes) \cup {"Bool", "Char", "String", "U256", "I256"} |-> Prim(p)] @@
  [Unit      |-> Struct(<<>>, <<>>),
   Wrap      |-> Struct(<<>>, <<"U16">>),
   WrapNamed |-> Struct(<<"n">>, <<"Wrap">>),
   Pair      |-> Struct(<<"a", "b">>, <<"U8", "Bool">>),
   Swapped   |-> Struct(<<"b", "a">>, <<"Bool", "U8">>),
   Broken    |-> Struct(<<"a", "b">>, <<"U8", "Nowhere">>),
   Tup1      |-> Tuple(<<"U8">>),
   Tup2      |-> Tuple(<<"U8", "Bool">>),
   Vec8      |-> SequenceOf("U8"),
   VecPair   |-> SequenceOf("Pair"),
   Arr2      |-> ArrayOf(2, "U8"),
   Option    |-> Enum(<<OfVariant("None", 0, <<>>, <<>>), OfVariant("Some", 1, <<>>, <<"Pair">>)>>),
   Choice    |-> Enum(<<OfVariant("None", 3, <<>>, <<>>),
                        OfVariant("Both", 7, <<"b", "a">>, <<"Bool", "U8">>)>>),
   CompactU8   |-> CompactOf("U8"),
   CompactU32  |-> CompactOf("U32"),
   CompactWrap |-> CompactOf("WrapNamed"),
   CompactTup1 |-> CompactOf("Tup1"),
   CompactBool |-> CompactOf("Bool"),
   CompactPair |-> CompactOf("Pair"),
   BitsL8    |-> Bits("U8", "Lsb0"),
   BitsM16   |-> Bits("U16", "Msb0"),
   BitsBool  |-> Bits("Bool", "Lsb0"),
   BitsUnit  |-> Bits("U8", "Unit"),
   Lsb0      |-> Struct(<<>>, <<>>) @@ [ident |-> "Lsb0"],
   Msb0      |-> Struct(<<>>, <<>>) @@ [ident |-> "Msb0"]]

RewardDestinationOf(account) ==
  Enum(<<OfVariant("Staked", 0, <<>>, <<>>), OfVariant("Stash", 1, <<>>, <<>>),
         OfVariant("Controller", 2, <<>>, <<>>), OfVariant("Account", 3, <<>>, <<account>>),
         OfVariant("None", 4, <<>>, <<>>)>>)

\* The types of the client's calls, and of addresses and signatures.
ClientTypes ==
  [AccountId      |-> ArrayOf(2, "U8"),
   Hash           |-> ArrayOf(2, "U8"),
   Ecdsa          |-> ArrayOf(3, "U8"),
   Address20      |-> ArrayOf(1, "U8"),
   Bytes          |-> SequenceOf("U8"),
   CompactBalance |-> CompactOf("U128"),
   CompactGas     |-> CompactOf("U64"),
   GenericAddress |-> Enum(<<OfVariant("Id", 0, <<>>, <<"AccountId">>),
                             OfVariant("Index", 1, <<>>, <<"CompactU32">>),
                             OfVariant("Raw", 2, <<>>, <<"Bytes">>),
                             OfVariant("Address32", 3, <<>>, <<"Hash">>),
                             OfVariant("Address20", 4, <<>>, <<"Address20">>)>>),
   VecGenericAddress |-> SequenceOf("GenericAddress"),
   MultiSignature |-> Enum(<<OfVariant("Ed25519", 0, <<>>, <<"Hash">>),
                             OfVariant("Sr25519", 1, <<>>, <<"Hash">>),
                             OfVariant("Ecdsa", 2, <<>>, <<"Ecdsa">>)>>),
   RewardDestinationOfAddress |-> RewardDestinationOf("GenericAddress"),
   PayoutStakers  |-> Struct(<<"validator_stash", "era">>, <<"AccountId", "U32">>),
   ForceEra       |-> Struct(<<>>, <<>>),
   Batch          |-> Struct(<<"calls">>, <<"RuntimeCalls">>)]

\* The runtime's calls, as the pallets declare them.  (Contracts has changed its
\* calls from version to version; this is one that has them as contracts.rs does.)
Calls(tys) == Enum([i \in DOMAIN tys |-> OfVariant(tys[i][1], i - 1, <<>>, tys[i][2])])
RuntimeTypes ==
  [RewardDestination |-> RewardDestinationOf("AccountId"),
   BalancesCall |-> Calls(
     <<<<"transfer", <<"GenericAddress", "CompactBalance">>>>,
       <<"set_balance", <<"GenericAddress", "CompactBalance", "CompactBalance">>>>>>),
   StakingCall |-> Calls(
     <<<<"bond", <<"GenericAddress", "CompactBalance", "RewardDestination">>>>,
       <<"bond_extra", <<"CompactBalance">>>>, <<"unbond", <<"CompactBalance">>>>,
       <<"rebond", <<"CompactBalance">>>>, <<"withdraw_unbonded", <<"U32">>>>,
       <<"nominate", <<"VecGenericAddress">>>>, <<"chill", <<>>>>,
       <<"set_payee", <<"RewardDestination">>>>, <<"set_controller", <<"GenericAddress">>>>,
       <<"set_validator_count", <<"CompactU32">>>>,
       <<"force_no_era", <<>>>>, <<"force_new_era", <<>>>>, <<"force_new_era_always", <<>>>>,
       <<"payout_stakers", <<"AccountId", "U32">>>>>>),
   ContractsCall |-> Calls(
     <<<<"put_code", <<"CompactGas", "Bytes">>>>,
       <<"call", <<"GenericAddress", "CompactBalance", "CompactGas", "Bytes">>>>,
       <<"instantiate", <<"CompactBalance", "CompactGas", "Hash", "Bytes">>>>,
       <<"instantiate_with_code", <<"CompactBalance", "CompactGas", "Bytes", "Bytes", "Bytes">>>>>>),
   UtilityCall |-> Calls(<<<<"batch", <<"RuntimeCalls">>>>, <<"force_batch", <<"RuntimeCalls">>>>>>),
   RuntimeCalls |-> SequenceOf("RuntimeCall"),
   RuntimeCall  |-> Enum(<<OfVariant("Balances", 5, <<>>, <<"BalancesCall">>),
                           OfVariant("Staking", 6, <<>>, <<"StakingCall">>),
                           OfVariant("Contracts", 7, <<>>, <<"ContractsCall">>),
                           OfVariant("Utility", 8, <<>>, <<"UtilityCall">>)>>)]

MCRegistry == PlainTypes @@ ClientTypes @@ RuntimeTypes

Pallet(name, index, calls) ==
  [name |-> name, index |-> index, calls |-> calls, event |-> None, error |-> None,
   storage |-> <<>>, constants |-> <<>>]
MCRawMetadata ==
  [prefix |-> TRUE, version |-> 14, types |-> MCRegistry,
   pallets |-> <<Pallet("Balances", 5, "BalancesCall"), Pallet("Staking", 6, "StakingCall"),
                 Pallet("Contracts", 7, "ContractsCall"), Pallet("Utility", 8, "UtilityCall")>>]

-----------------------------------------------------------------------------

Numbers == {0, 63, 64, 255, 256, 16383, 16384, 65536, 1073741824}
Bool(b) == Primitive("Bool", <<b>>)
AB(n, b) == Named(<<"a", "b">>, <<UInt(n), Bool(b)>>)
MCValues ==
  {UInt(n) : n \in Numbers} \cup {SInt(n) : n \in {-129, -128, -1, 127, 32768}}
    \cup {Bool(1), Primitive("Char", <<97>>), Primitive("Char", <<8364>>),
          Primitive("String", <<>>), Primitive("String", <<104, 105>>),
          Primitive("U256", <<1, 2>>), Primitive("I256", <<3, 255>>),
          Unnamed(<<>>), Unnamed(<<UInt(7)>>), Unnamed(<<Unnamed(<<UInt(300)>>)>>),
          Named(<<"n">>, <<UInt(8)>>), Named(<<"c">>, <<UInt(8)>>),
          Unnamed(<<UInt(1), Bool(1)>>), Unnamed(<<Bool(1), Bool(0)>>), Unnamed(<<UInt(1), UInt(2)>>),
          AB(4, 1), Named(<<"b", "a">>, <<Bool(0), UInt(9)>>), Named(<<"a", "c">>, <<UInt(4), Bool(1)>>),
          Unnamed(<<AB(1, 0), AB(2, 1)>>),
          Variant("None", <<>>, <<>>), Variant("Some", <<>>, <<AB(5, 1)>>),
          Variant("Both", <<"a", "b">>, <<UInt(1), Bool(1)>>), Variant("Both", <<>>, <<Bool(1), UInt(1)>>),
          Variant("Neither", <<>>, <<>>),
          Unnamed([i \in 1 .. 64 |-> UInt(i)]),
          BitSequence(<<>>), BitSequence(<<1, 1, 0>>), BitSequence(<<1, 0, 0, 1, 0, 0, 0, 1, 1>>)}
MCTails == {<<0>>, <<255, 1>>}

Data(n) == Unnamed([i \in 1 .. n |-> UInt(i % 256)])
Just(name) == Variant(name, <<>>, <<>>)
One(name, value) == Variant(name, <<>>, <<value>>)

Id(n) == One("Id", Unnamed(<<UInt(n), UInt(n)>>))
Addresses ==
  {Id(2), One("Index", UInt(64)), One("Raw", Data(3)), One("Address32", Data(2)),
   One("Address20", Unnamed(<<UInt(1)>>))}
Transfer(n) == One("Balances", Variant("transfer", <<>>, <<Id(2), UInt(n)>>))

\* Calls whose arguments are the same to the runtime, and those where the client
\* has a structure for several, for one or for none.
Plain(op, args) == [op |-> op, args |-> args, meant |-> args]
AsStruct(op, names, meant) == [op |-> op, args |-> <<Named(names, meant)>>, meant |-> meant]
PlainCalls ==
  {Plain("balance_transfer", <<Id(2), UInt(n)>>) : n \in {0, 64, 16384}}
    \cup {Plain("balance_transfer", <<to, UInt(1)>>) : to \in Addresses}
    \cup {Plain("contract_call", <<Id(3), UInt(0), UInt(500), Data(n)>>) : n \in 0 .. 64}
    \cup {Plain("staking_bond", <<Id(4), UInt(63), Just(payee)>>) :
             payee \in {"Staked", "Stash", "Controller", "None"}}
    \cup {Plain(op, <<UInt(n)>>) :
             op \in {"staking_bond_extra", "staking_unbond", "staking_rebond",
                     "staking_withdraw_unbonded"}, n \in {1, 64}}
    \cup {Plain("balance_set_balance", <<Id(2), UInt(1), UInt(64)>>),
          Plain("staking_nominate", <<Unnamed(<<Id(1), One("Index", UInt(0))>>)>>),
          Plain("staking_chill", <<>>),
          Plain("staking_set_controller", <<Id(1)>>),
          Plain("contract_put_code", <<UInt(1), Data(3)>>),
          Plain("contract_instantiate", <<UInt(64), UInt(2), Data(2), Data(1)>>),
          Plain("contract_instantiate_with_code", <<UInt(1), UInt(2), Data(2), Data(1), Data(0)>>)}
StructCalls ==
  {AsStruct(op, <<>>, <<>>) : op \in {"force_new_era", "force_new_era_always", "force_no_era"}}
    \cup {AsStruct("payout_stakers", <<"validator_stash", "era">>, <<Data(2), UInt(3)>>),
          AsStruct("batch", <<"calls">>, <<Unnamed(<<Transfer(1), Transfer(64)>>)>>),
          AsStruct("force_batch", <<"calls">>, <<Unnamed(<<>>)>>)}

\* Calls with arguments of another type than the runtime's.
MisfitCalls ==
  {[op |-> "staking_bond", args |-> <<Id(4), UInt(63), One("Account", Id(5))>>,
    meant |-> <<Id(4), UInt(63), One("Account", Unnamed(<<UInt(5), UInt(5)>>))>>],
   [op |-> "set_payee", args |-> <<Id(1)>>,
    meant |-> <<One("Account", Unnamed(<<UInt(1), UInt(1)>>))>>],
   Plain("set_validator_count", <<UInt(256)>>)}
MCCallInputs == PlainCalls \cup StructCalls \cup MisfitCalls

Signature == One("Sr25519", Data(2))
Signer(from, nonce, other) ==
  [from |-> from, signature |-> Signature, nonce |-> nonce, other |-> other]
Mortal(params) == WithEra(params, <<37, 2>>, <<8, 8>>)
MCParamInputs ==
  {Signer(<<>>, 0, DefaultParams(PlainTip(0)))}
    \cup {Signer(<<Id(7)>>, n, DefaultParams(PlainTip(0))) : n \in {0, 64}}
    \cup {[Signer(<<Id(7)>>, 3, DefaultParams(PlainTip(1))) EXCEPT !.signature = signature] :
             signature \in {One("Ed25519", Data(2)), One("Ecdsa", Data(3))}}
    \cup {Signer(<<Id(7)>>, 1, Mortal(WithTip(DefaultParams(PlainTip(0)), PlainTip(100)))),
          Signer(<<Id(7)>>, 1, DefaultParams(AssetTip(5))),
          Signer(<<Id(7)>>, 2, Mortal(DefaultParams(of_asset(AssetTip(64), 9))))}
MCSizesOfType == {24, 64, 20000}

MCChain == [spec_version |-> 100, transaction_version |-> 4, genesis_hash |-> <<1, 2>>]
=============================================================================
