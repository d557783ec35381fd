----------------------------- MODULE P2wshFunding -----------------------------
(***************************************************************************)
(* The money of a P2WSH file: create_funding_transaction pays one output   *)
(* per input of the spending transaction, the fee of the spending          *)
(* transaction on top of the first; create_spending_transaction collects   *)
(* them again.                                                             *)
(***************************************************************************)
EXTENDS Funding, Sequences

CONSTANTS
  DUST_THRESHOLD,
  MAX_STANDARD_TX_WEIGHT,
  Wallets,            (* the UTXO values list_unspent may return, sorted:  *)
                      (* the largest first                                 *)
  MaxInputs,          (* bound on the inputs the file needs                *)
  FundingWeights(_, _), (* the weights signing may give a transaction of   *)
                      (* that many wallet inputs and P2WSH outputs         *)
  SpendingWeights(_)  (* and one that spends that many P2WSH outputs       *)

ASSUME P2wshFundingAssumption ==
  /\ DUST_THRESHOLD \in Nat /\ MAX_STANDARD_TX_WEIGHT \in Nat
  /\ FeeRates \subseteq Nat /\ MaxInputs \in Nat
  /\ \A w \in Wallets :
       w \in Seq(Nat) /\ \A i \in 1 .. Len(w) - 1 : w[i] >= w[i + 1]
  /\ \A n \in 1 .. MaxInputs :
       /\ SpendingWeights(n) \subseteq Nat /\ IsFiniteSet(SpendingWeights(n))
       /\ \A w \in Wallets : \A s \in 0 .. Len(w) : FundingWeights(s, n) \subseteq Nat

VARIABLES
  wallet,      (* the values of the UTXOs, the largest first               *)
  inputs,      (* inputs of the spending transaction                       *)
  selected,    (* the number of UTXOs selected, the largest ones           *)
  first,       (* output_amounts[0]; the other outputs hold DUST_THRESHOLD *)
  change,      (* the change of the funding transaction                    *)
  fundingPaid, (* its fee                                                  *)
  spendingPaid, returned  (* the spending transaction's fee and output     *)

walletVars == <<fee_rate, wallet, inputs>>
fundingVars == <<selected, first, change, fundingPaid>>
spendingVars == <<spendingPaid, returned, weight>>
p2wshVars == <<status, walletVars, fundingVars, spendingVars>>

SelectedAmount(n) == SumFunction(SubSeq(wallet, 1, n))

P2wshInit ==
  /\ status = "select"
  /\ fee_rate \in FeeRates /\ wallet \in Wallets
  /\ inputs \in 1 .. MaxInputs
  /\ selected = 0 /\ first = 0 /\ change = 0 /\ fundingPaid = 0
  /\ spendingPaid = 0 /\ returned = 0 /\ weight = 0

(* select_utxos_by_amount: the fewest of the largest UTXOs that reach the  *)
(* target, which is the rough estimate of create_funding_transaction.      *)
SelectUtxos ==
  LET target_amount == inputs * DUST_THRESHOLD + fee_rate * 100
      enough == {n \in 1 .. Len(wallet) : SelectedAmount(n) >= target_amount}
  IN /\ status = "select"
     /\ IF enough = {} THEN status' = "insufficient" /\ UNCHANGED selected
        ELSE status' = "fund" /\ selected' = Min(enough)
     /\ UNCHANGED <<walletVars, first, change, fundingPaid, spendingVars>>

(* Mutant of Fund: the first output does not get the spending fee. *)
FundOnlyDust(fundingWeight, spendingWeight) ==
  LET fee       == CalculateFee(fundingWeight, fee_rate)
      total_out == inputs * DUST_THRESHOLD + fee
  IN /\ status = "fund"
     /\ IF total_out > SelectedAmount(selected)
        THEN status' = "insufficient" /\ UNCHANGED <<first, change, fundingPaid>>
        ELSE /\ status' = "spend"
             /\ first' = DUST_THRESHOLD
             /\ change' = SelectedAmount(selected) - total_out
             /\ fundingPaid' = fee
     /\ UNCHANGED <<walletVars, selected, spendingVars>>

(* The rest of create_funding_transaction: both transactions are signed to *)
(* be weighed.                                                             *)
Fund(fundingWeight, spendingWeight) ==
  LET fee          == CalculateFee(fundingWeight, fee_rate)
      spending_fee == CalculateFee(spendingWeight, fee_rate)
      total_out    == inputs * DUST_THRESHOLD + spending_fee + fee
  IN /\ status = "fund"
     /\ IF total_out > SelectedAmount(selected)
        THEN status' = "insufficient" /\ UNCHANGED <<first, change, fundingPaid>>
        ELSE /\ status' = "spend"
             /\ first' = DUST_THRESHOLD + spending_fee
             /\ change' = SelectedAmount(selected) - total_out
             /\ fundingPaid' = fee
     /\ UNCHANGED <<walletVars, selected, spendingVars>>

(* Mutant of Spend: the first output is counted twice. *)
SpendTwice(estimated, signed) ==
  LET total_input_amount == first + inputs * DUST_THRESHOLD
      fee == CalculateFee(estimated, fee_rate)
  IN /\ status = "spend"
     /\ status' = IF signed > MAX_STANDARD_TX_WEIGHT THEN "too_heavy" ELSE "spent"
     /\ returned' = total_input_amount - fee
     /\ spendingPaid' = fee
     /\ weight' = signed
     /\ UNCHANGED <<walletVars, fundingVars>>

(* create_spending_transaction: weighed again, then signed for good; and   *)
(* validate_transaction_weight.                                            *)
Spend(estimated, signed) ==
  LET total_input_amount == first + (inputs - 1) * DUST_THRESHOLD
      fee == CalculateFee(estimated, fee_rate)
  IN /\ status = "spend"
     /\ IF fee > total_input_amount
        THEN status' = "insufficient" /\ UNCHANGED spendingVars
        ELSE /\ status' = IF signed > MAX_STANDARD_TX_WEIGHT THEN "too_heavy" ELSE "spent"
             /\ returned' = total_input_amount - fee
             /\ spendingPaid' = fee
             /\ weight' = signed
     /\ UNCHANGED <<walletVars, fundingVars>>

P2wshNext ==
  \/ SelectUtxos
  \/ \E f \in FundingWeights(selected, inputs), s \in SpendingWeights(inputs) : Fund(f, s)
  \/ \E e, s \in SpendingWeights(inputs) : Spend(e, s)

-----------------------------------------------------------------------------

(* Types: the amounts are never negative, as u64 has it.                   *)
P2wshTypeOK ==
  /\ status \in {"select", "fund", "spend", "insufficient", "too_heavy", "spent"}
  /\ selected \in 0 .. Len(wallet)
  /\ \A n \in {first, change, fundingPaid, spendingPaid, returned, weight} : n \in Nat

(* The most by which two estimates of the spending fee differ. *)
SpendingSpread == Spread(SpendingWeights(inputs))

(* Whatever the signatures weigh, the spending transaction gives back the  *)
(* dust of all the outputs, to within one estimate: the fee that was put   *)
(* on the first output is the one that is taken off the sum.               *)
DustComesBack ==
  status \in {"spent", "too_heavy"} =>
    /\ returned + SpendingSpread >= inputs * DUST_THRESHOLD
    /\ returned <= inputs * DUST_THRESHOLD + SpendingSpread

(* Once the funding transaction can be made, its outputs cover the         *)
(* spending transaction: encode does not fail for funds after that, unless *)
(* the fee rate is so high that two estimates differ by more than the dust *)
(* of all the outputs.                                                     *)
FundedIsSpendable ==
  status = "insufficient" /\ SpendingSpread <= inputs * DUST_THRESHOLD => first = 0

=============================================================================
