----------------------------- MODULE EncodeFunding -----------------------------
(***************************************************************************)
(* The money of one run of encode: Technique::encode hands the file, the   *)
(* wallet and the fee rate to one of the two techniques, and its status    *)
(* tells which. The variables of the other technique stay as they are.     *)
(***************************************************************************)
EXTENDS ChainFunding, P2wshFunding

chainOnly == <<coin, total, made, continuation_amount, output1, paid>>
p2wshOnly == <<wallet, inputs, selected, first, change, fundingPaid, spendingPaid, returned>>

ChainIdle ==
  coin = 0 /\ total = 0 /\ made = 0 /\ continuation_amount = 0 /\ output1 = 0 /\ paid = 0

P2wshIdle ==
  /\ wallet = <<>> /\ inputs = 0 /\ selected = 0 /\ first = 0
  /\ change = 0 /\ fundingPaid = 0 /\ spendingPaid = 0 /\ returned = 0

EncodeInit ==
  \/ Init /\ P2wshIdle
  \/ P2wshInit /\ ChainIdle

EncodeNext ==
  \/ Next /\ UNCHANGED p2wshOnly
  \/ P2wshNext /\ UNCHANGED chainOnly

EncodeSpec == EncodeInit /\ [][EncodeNext]_<<vars, p2wshVars>>

-----------------------------------------------------------------------------

(* Types: with either technique no amount is ever negative, as u64 has it. *)
EncodeTypeOK ==
  \/ P2wshIdle /\ TypeOK
  \/ ChainIdle /\ P2wshTypeOK

=============================================================================
