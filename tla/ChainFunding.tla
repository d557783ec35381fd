----------------------------- MODULE ChainFunding -----------------------------
(***************************************************************************)
(* The money of a chain of OP_RETURN transactions: what encode,            *)
(* create_first_tx and create_next_tx put into output 1 of each            *)
(* transaction, and what they believe to have put there.                   *)
(***************************************************************************)
EXTENDS Funding

CONSTANTS
  CONTINUATION_AMOUNT,
  MAX_CHAINED_TRANSACTIONS,
  DustLimit,     (* the least value of an output that nodes relay          *)
  Coins,         (* the values the wallet's largest UTXO may have          *)
  SingleWeights, (* the weights that signing may give a transaction: the   *)
  FirstWeights,  (* only one of a chain, the first, and a later one        *)
  NextWeights

WeightSets == {SingleWeights, FirstWeights, NextWeights}

ASSUME FundingAssumption ==
  /\ CONTINUATION_AMOUNT \in Nat /\ MAX_CHAINED_TRANSACTIONS \in Nat \ {0}
  /\ DustLimit \in Nat /\ FeeRates \subseteq Nat /\ Coins \subseteq Nat
  /\ \A W \in WeightSets : W \subseteq Nat /\ IsFiniteSet(W)

VARIABLES
  coin,         (* the value of the UTXO that pays for the chain           *)
  total,        (* the number of chunks                                    *)
  made,         (* the transactions made so far                            *)
  continuation_amount,
  output1,      (* the value of output 1 of the last of them               *)
  paid          (* its fee: the value of its input less its outputs        *)

vars == <<status, fee_rate, coin, total, made, continuation_amount, output1, paid, weight>>

Init ==
  /\ status = "encoding"
  /\ fee_rate \in FeeRates /\ coin \in Coins
  /\ total \in 1 .. MAX_CHAINED_TRANSACTIONS
  /\ made = 0
  /\ continuation_amount = CONTINUATION_AMOUNT
  /\ output1 = 0 /\ paid = 0 /\ weight = 0

Fail ==
  /\ status' = "failed"
  /\ UNCHANGED <<fee_rate, coin, total, made, continuation_amount, output1, paid, weight>>

(* Mutants of Made: the fee is taken off twice, or not at all. *)
MadeTwice(w) ==
  /\ weight' = w
  /\ made' = made + 1
  /\ IF made + 1 = total
     THEN status' = "done" /\ UNCHANGED continuation_amount
     ELSE LET fee == 2 * CalculateFee(w, fee_rate)
          IN IF fee > continuation_amount
             THEN status' = "failed" /\ UNCHANGED continuation_amount
             ELSE /\ continuation_amount' = continuation_amount - fee
                  /\ UNCHANGED status
  /\ UNCHANGED <<fee_rate, coin, total>>

MadeForFree(w) ==
  /\ weight' = w
  /\ made' = made + 1
  /\ status' = IF made + 1 = total THEN "done" ELSE status
  /\ UNCHANGED <<fee_rate, coin, total, continuation_amount>>

(* encode after a transaction of weight w: the fee it should have is taken *)
(* off the continuation, if another transaction is to follow.              *)
Made(w) ==
  /\ weight' = w
  /\ made' = made + 1
  /\ IF made + 1 = total
     THEN status' = "done" /\ UNCHANGED continuation_amount
     ELSE LET fee == CalculateFee(w, fee_rate)
          IN IF fee > continuation_amount
             THEN status' = "failed" /\ UNCHANGED continuation_amount
             ELSE /\ continuation_amount' = continuation_amount - fee
                  /\ UNCHANGED status
  /\ UNCHANGED <<fee_rate, coin, total>>

(* create_first_tx: the continuation and the fee come out of the coin, and *)
(* the rest is change - output 1 if there is no continuation.              *)
FirstTx(estimated, signed) ==
  LET fee   == CalculateFee(estimated, fee_rate)
      total_out == fee + IF total > 1 THEN CONTINUATION_AMOUNT ELSE 0
  IN /\ status = "encoding" /\ made = 0
     /\ IF total_out > coin THEN Fail
        ELSE /\ output1' = IF total > 1 THEN CONTINUATION_AMOUNT ELSE coin - total_out
             /\ paid' = fee
             /\ Made(signed)

(* Mutants of NextTx: weight units are taken for virtual bytes, or the     *)
(* subtraction is not guarded.                                             *)
NextTxUnits(estimated, signed) ==
  LET fee == CalculateFee(estimated \div 4, fee_rate)
  IN /\ status = "encoding" /\ made > 0
     /\ IF fee > continuation_amount THEN Fail
        ELSE /\ output1' = continuation_amount - fee
             /\ paid' = output1 - (continuation_amount - fee)
             /\ Made(signed)

NextTxUnchecked(estimated, signed) ==
  LET fee == CalculateFee(estimated, fee_rate)
  IN /\ status = "encoding" /\ made > 0
     /\ output1' = continuation_amount - fee
     /\ paid' = output1 - (continuation_amount - fee)
     /\ Made(signed)

(* create_next_tx: it spends output 1 of the one before, and its own is    *)
(* what encode believes that output to hold, less the fee.                 *)
NextTx(estimated, signed) ==
  LET fee == CalculateFee(estimated, fee_rate)
  IN /\ status = "encoding" /\ made > 0
     /\ IF fee > continuation_amount THEN Fail
        ELSE /\ output1' = continuation_amount - fee
             /\ paid' = output1 - (continuation_amount - fee)
             /\ Made(signed)

FirstOrOnly == IF total = 1 THEN SingleWeights ELSE FirstWeights

Next ==
  \/ \E estimated, signed \in FirstOrOnly : FirstTx(estimated, signed)
  \/ \E estimated, signed \in NextWeights : NextTx(estimated, signed)

-----------------------------------------------------------------------------

(* Types: the amounts are never negative, as u64 has it.                   *)
TypeOK ==
  /\ status \in {"encoding", "done", "failed"}
  /\ total \in 1 .. MAX_CHAINED_TRANSACTIONS /\ made \in 0 .. total
  /\ continuation_amount \in Nat /\ output1 \in Nat /\ weight \in Nat

(* From the second transaction on, encode knows what output 1 holds to     *)
(* within one estimate: the errors of the transactions do not add up.      *)
BookkeepingTracks ==
  made >= 2 /\ status = "encoding" =>
    /\ continuation_amount <= output1 + Spread(NextWeights)
    /\ output1 <= continuation_amount + Spread(NextWeights)

(* No transaction of the chain pays less for its weight than the fee rate  *)
(* asks, but for what the estimates of two transactions may be off.        *)
FeeNearRate ==
  made >= 2 => paid + 2 * Spread(NextWeights) >= CalculateFee(weight, fee_rate)

(* The fee of the dearest transaction of the chain. *)
Dearest == Max(Fees(UNION WeightSets))

(* A chain whose fees the continuation amount covers, with DustLimit left  *)
(* over, never fails for lack of funds if the coin covers the first        *)
(* transaction, and none of its outputs is too small to be relayed: what   *)
(* encode returns can be broadcast to the end.                             *)
AffordableEncodes ==
  /\ total * Dearest + DustLimit <= CONTINUATION_AMOUNT
  /\ coin >= CONTINUATION_AMOUNT + Dearest
  => /\ status # "failed"
     /\ made > 0 => output1 >= DustLimit

=============================================================================
