---------------------------- MODULE MCPublisher ----------------------------
(***************************************************************************)
(* Publisher with a chain of two transactions, one of three that ends in   *)
(* dust, one of a single transaction, and a P2WSH file, in a wallet of two *)
(* coins, the second too small for some of them.                           *)
(***************************************************************************)
EXTENDS Publisher, TLC

CONSTANTS pair, dusty, single, p2wsh

MCSize == pair :> 2 @@ dusty :> 3 @@ single :> 1 @@ p2wsh :> 1
MCPurse == <<15, 7>>
=============================================================================
