------------------------------- MODULE Funding --------------------------------
(***************************************************************************)
(* What the money of the two encoders has in common.  A transaction is     *)
(* signed twice: once with placeholder amounts, to learn its weight and    *)
(* from it the fee, and once for good.  Signatures differ in length, so    *)
(* the two weights may differ.  All amounts are in satoshis.               *)
(***************************************************************************)
EXTENDS Integers, FiniteSetsExt

CONSTANT FeeRates   (* the values of --fee-rate *)

VARIABLES
  status,    (* the step encode takes next, or how it ended                *)
  fee_rate,  (* --fee-rate                                                 *)
  weight     (* of the last transaction made                               *)

CalculateFee(w, rate) == ((w + 3) \div 4) * rate

Fees(W) == {CalculateFee(w, fee_rate) : w \in W}

(* The most by which two estimates of one fee differ. *)
Spread(W) == Max(Fees(W)) - Min(Fees(W))
=============================================================================
