------------------------------ MODULE Extrinsic -----------------------------
(***************************************************************************)
(* Extrinsics of version 4 as bytes: the call, the parameters that are     *)
(* signed with it, the payload that is signed, and the encoding that the   *)
(* node is sent (primitives, extrinsics.rs and extrinsic_params.rs), for   *)
(* the calls that the client offers ready-made (extrinsic/*.rs).           *)
(*                                                                         *)
(* The arguments of a call are values of DynamicValue, each with the type  *)
(* that the code gives it, which the registry describes: a static type and *)
(* its description have the same SCALE encoding.  What type the runtime    *)
(* has in that place is another matter: nothing in the code looks it up.   *)
(***************************************************************************)
EXTENDS DynamicValue, Metadata

CONSTANT PayloadLimit    \* longest payload that is signed as it is (256 in the code)

ASSUME PayloadLimitAssumption == PayloadLimit \in Nat

-----------------------------------------------------------------------------
(* The ready-made calls: pallet, function and the types of the arguments. *)

Call(name, function, tys) == [pallet |-> name, function |-> function, tys |-> tys]

BalancesCalls ==
  [balance_transfer    |-> Call("Balances", "transfer", <<"GenericAddress", "CompactBalance">>),
   balance_set_balance |-> Call("Balances", "set_balance",
                                <<"GenericAddress", "CompactBalance", "CompactBalance">>)]

StakingCalls ==
  [staking_bond              |-> Call("Staking", "bond",
                                   <<"GenericAddress", "CompactBalance", "RewardDestinationOfAddress">>),
   staking_bond_extra        |-> Call("Staking", "bond_extra", <<"CompactBalance">>),
   staking_unbond            |-> Call("Staking", "unbond", <<"CompactBalance">>),
   staking_rebond            |-> Call("Staking", "rebond", <<"CompactBalance">>),
   staking_withdraw_unbonded |-> Call("Staking", "withdraw_unbonded", <<"U32">>),
   staking_nominate          |-> Call("Staking", "nominate", <<"VecGenericAddress">>),
   staking_chill             |-> Call("Staking", "chill", <<>>),
   staking_set_controller    |-> Call("Staking", "set_controller", <<"GenericAddress">>),
   payout_stakers            |-> Call("Staking", "payout_stakers", <<"PayoutStakers">>),
   force_new_era             |-> Call("Staking", "force_new_era", <<"ForceEra">>),
   force_new_era_always      |-> Call("Staking", "force_new_era_always", <<"ForceEra">>),
   force_no_era              |-> Call("Staking", "force_no_era", <<"ForceEra">>),
   set_payee                 |-> Call("Staking", "set_payee", <<"GenericAddress">>),
   set_validator_count       |-> Call("Staking", "set_validator_count", <<"U32">>)]

ContractsCalls ==
  [contract_put_code |-> Call("Contracts", "put_code", <<"CompactGas", "Bytes">>),
   contract_instantiate |-> Call("Contracts", "instantiate",
                              <<"CompactBalance", "CompactGas", "Hash", "Bytes">>),
   contract_instantiate_with_code |-> Call("Contracts", "instantiate_with_code",
                              <<"CompactBalance", "CompactGas", "Bytes", "Bytes", "Bytes">>),
   contract_call |-> Call("Contracts", "call",
                              <<"GenericAddress", "CompactBalance", "CompactGas", "Bytes">>)]

UtilityCalls ==
  [batch       |-> Call("Utility", "batch", <<"Batch">>),
   force_batch |-> Call("Utility", "force_batch", <<"Batch">>)]

ReadyMade == BalancesCalls @@ StakingCalls @@ ContractsCalls @@ UtilityCalls

\* compose_call: the indexes from the metadata, then the arguments.
ComposeCall(m, op, args) ==
  AndThen(CallIndex(m, ReadyMade[op].pallet, ReadyMade[op].function), LAMBDA index :
    Found(index \o EncodeEach(args, ReadyMade[op].tys).bytes))

-----------------------------------------------------------------------------
(* The parameters.  An era is the bytes of its encoding, <<0>> when it is  *)
(* immortal; asset is <<>> or the asset a tip is paid in; kind tells a     *)
(* PlainTip, which has no asset, from an AssetTip.                         *)

Immortal == <<0>>
PlainTip(amount) == [kind |-> "Plain", amount |-> amount, asset |-> <<>>]
AssetTip(amount) == [kind |-> "Asset", amount |-> amount, asset |-> <<>>]
of_asset(tip, asset) == [tip EXCEPT !.asset = <<asset>>]

\* The builder; checkpoint is <<>> until era is called.
DefaultParams(tip) == [era |-> Immortal, checkpoint |-> <<>>, tip |-> tip]
WithEra(params, era, checkpoint) == [params EXCEPT !.era = era, !.checkpoint = <<checkpoint>>]
WithTip(params, tip) == [params EXCEPT !.tip = tip]

\* BaseExtrinsicParams::new
Params(spec_version, transaction_version, nonce, genesis_hash, other) ==
  [era |-> other.era, tip |-> other.tip, nonce |-> nonce,
   spec_version |-> spec_version, transaction_version |-> transaction_version,
   genesis_hash |-> genesis_hash,
   mortality_checkpoint |-> IF other.checkpoint = <<>> THEN genesis_hash
                            ELSE other.checkpoint[1]]

TipBytes(tip) ==
  CompactBytes(tip.amount)
    \o CASE tip.kind = "Plain" -> <<>>
         [] tip.asset = <<>>   -> <<0>>
         [] OTHER              -> <<1>> \o LittleEndian(tip.asset[1], 4)

SignedExtra(p) == [era |-> p.era, nonce |-> p.nonce, tip |-> p.tip]
ExtraBytes(extra) == extra.era \o CompactBytes(extra.nonce) \o TipBytes(extra.tip)

AdditionalSigned(p) ==
  LittleEndian(p.spec_version, 4) \o LittleEndian(p.transaction_version, 4)
    \o p.genesis_hash \o p.mortality_checkpoint

\* What is signed: SignedPayload::using_encoded.
SignedPayload(call, p) ==
  LET payload == call \o ExtraBytes(SignedExtra(p)) \o AdditionalSigned(p)
  IN  [hashed |-> Len(payload) > PayloadLimit, bytes |-> payload]

-----------------------------------------------------------------------------
(* UncheckedExtrinsicV4.  signature is <<>> or the sender's address, the   *)
(* signature and the extra; function is the bytes of the call.  The address*)
(* and the signature are values.                                           *)

V4 == 4
Signed == 128     \* the bit of the version byte

\* Variant that writes the prefix over the room made for it, however long it is.
OverwritePrefix(body, size) ==
  LET reserve == CASE size < 64 -> 1 [] size < 2^14 -> 2 [] OTHER -> 4
      v == [i \in 1 .. reserve |-> 0] \o body
      prefix == CompactBytes(Len(body))
  IN  prefix \o SubSeq(v, Len(prefix) + 1, Len(v))

\* The buffer starts with room for the prefix, guessed from the size of the
\* type; the splice puts the true length in its place.
encode_with_vec_prefix(body, size) ==
  LET reserve == CASE size < 64 -> 1 [] size < 2^14 -> 2 [] OTHER -> 4
      v == [i \in 1 .. reserve |-> 0] \o body
  IN  CompactBytes(Len(v) - reserve) \o SubSeq(v, reserve + 1, Len(v))

EncodeExtrinsic(xt, size) ==
  encode_with_vec_prefix(
    (IF xt.signature = <<>> THEN <<V4>>
     ELSE <<V4 + Signed>> \o encode_value_as_type(xt.signature[1], "GenericAddress").bytes
            \o encode_value_as_type(xt.signature[2], "MultiSignature").bytes
            \o ExtraBytes(xt.signature[3]))
      \o xt.function, size)

ReadEra(bs) == IF bs # <<>> /\ bs[1] = 0 THEN Take(bs, 1) ELSE Take(bs, 2)
ReadTip(bs, kind) ==
  Then(ReadCompact(bs, "U128"), LAMBDA amount, rest :
    IF kind = "Plain" THEN Read(PlainTip(amount), rest)
    ELSE Then(Take(rest, 1), LAMBDA some, after :
           IF some[1] = 0 THEN Read(AssetTip(amount), after)
           ELSE AsValue(ReadInteger(after, "U32"), LAMBDA a : of_asset(AssetTip(amount), a))))
ReadExtra(bs, kind) ==
  Then(ReadEra(bs), LAMBDA era, r1 :
    Then(ReadCompact(r1, "U32"), LAMBDA nonce, r2 :
      AsValue(ReadTip(r2, kind), LAMBDA tip : [era |-> era, nonce |-> nonce, tip |-> tip])))

\* Decode: the prefix is read as the length of a vector of nothing and not used.
\* The call is left as the bytes that remain.
DecodeExtrinsic(bs, kind) ==
  Then(ReadCompact(bs, "U32"), LAMBDA length, r1 :
    Then(Take(r1, 1), LAMBDA version, r2 :
      CASE version[1] % Signed # V4 -> ReadError("Invalid transaction version", bs)
        [] version[1] < Signed -> Read([signature |-> <<>>, function |-> r2], <<>>)
        [] OTHER ->
             Then(decode_value_as_type(r2, "GenericAddress"), LAMBDA address, r3 :
               Then(decode_value_as_type(r3, "MultiSignature"), LAMBDA signature, r4 :
                 Then(ReadExtra(r4, kind), LAMBDA extra, function :
                   Read([signature |-> <<address, signature, extra>>,
                         function  |-> function], <<>>))))))
=============================================================================
