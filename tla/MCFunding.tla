------------------------------- MODULE MCFunding -------------------------------
(***************************************************************************)
(* EncodeFunding with the weights of P2WPKH wallet inputs (272 WU, or 271  *)
(* with a shorter signature), of P2WSH inputs with a full script (926 WU   *)
(* or 925) and of the outputs (172 WU for P2WSH, 124 for the change).      *)
(***************************************************************************)
EXTENDS EncodeFunding

MCFundingWeights(ins, outs) ==
  {42 + ins * 272 + outs * 172 + 124 - short : short \in 0 .. ins}
MCSpendingWeights(ins) == {42 + ins * 926 + 124 - short : short \in 0 .. ins}

MCWallets == {<<1000000>>, <<6000, 5000, 400>>, <<1500, 1500, 1500, 1500, 1500>>, <<900>>, <<>>}
=============================================================================
