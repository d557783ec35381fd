----------------------------- MODULE MCOrdiknots -----------------------------
(***************************************************************************)
(* Ordiknots with a file a of two chunks and a file b of one, which the    *)
(* wallet funds with the output 1 that the end of a leaves.  Chunks hold 1 *)
(* byte of the file in the head and 3 afterwards.                          *)
(***************************************************************************)
EXTENDS Ordiknots

CONSTANTS a1, a2, b1

MCInputs == [t \in Tx |-> CASE t = a1 -> {<<"coin", 0>>}
                            [] t = a2 -> {<<a1, 1>>}
                            [] t = b1 -> {<<a2, 1>>}]
MCKnotworks == {[txs |-> <<a1, a2>>, file |-> <<11, 12, 13>>],
                [txs |-> <<b1>>, file |-> <<21>>]}
=============================================================================
