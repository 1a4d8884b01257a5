--------------------------------- MODULE Fees -------------------------------
(***************************************************************************)
(* The fees of an extrinsic (primitives, types.rs) and their conversion    *)
(* from the numbers of the node's answer, which may be wider than the      *)
(* balance type of the runtime (pallet_transaction_payment.rs).            *)
(***************************************************************************)
EXTENDS Integers

CONSTANT MaxBalance     \* the largest value of the balance type

ASSUME MaxBalanceAssumption == MaxBalance \in Nat

Balance == 0 .. MaxBalance

saturating_add(a, b) == IF a + b > MaxBalance THEN MaxBalance ELSE a + b

\* FeeDetails are records [inclusion_fee, tip]; inclusion_fee is <<>> for a call
\* that is free of it, else <<f>> with such an f.
InclusionFee(B) == [base_fee : B, len_fee : B, adjusted_weight_fee : B]

\* Variant of inclusion_fee that wraps around.
WrappingFee(f) == (f.base_fee + f.len_fee + f.adjusted_weight_fee) % (MaxBalance + 1)

inclusion_fee(f) ==
  saturating_add(saturating_add(f.base_fee, f.len_fee), f.adjusted_weight_fee)

final_fee(details) ==
  saturating_add(IF details.inclusion_fee = <<>> THEN 0 ELSE inclusion_fee(details.inclusion_fee[1]),
                 details.tip)

\* convert_fee_details: fails when a number is not of the balance type.
Converts(details) ==
  /\ details.inclusion_fee # <<>> => details.inclusion_fee[1] \in InclusionFee(Balance)
  /\ details.tip \in Balance

\* The JSON of FeeDetails has no tip (serde(skip), here and at the node): read
\* back, the tip is Default.
FromJson(answer) == [inclusion_fee |-> answer.inclusion_fee, tip |-> 0]

\* The sum of the parts of an inclusion fee, and the limit of the type.
InclusionTotal(fee) ==
  IF fee = <<>> THEN 0 ELSE fee[1].base_fee + fee[1].len_fee + fee[1].adjusted_weight_fee
Capped(n) == IF n > MaxBalance THEN MaxBalance ELSE n
=============================================================================
