--------------------------- MODULE MCChainDecoder ---------------------------
(***************************************************************************)
(* ChainDecoder with two files: a of three chunks and b of one.  Chunks    *)
(* hold 1 byte of the file in the head and 3 afterwards.  The output 1     *)
(* that the last transaction of a leaves belongs to the wallet, which      *)
(* funds b with it.                                                        *)
(***************************************************************************)
EXTENDS ChainDecoder

CONSTANTS a1, a2, a3, b1

MCInputs == (a1 :> {<<"coin", 0>>}) @@ (a2 :> {<<a1, 1>>}) @@ (a3 :> {<<a2, 1>>})
              @@ (b1 :> {<<a3, 1>>})
MCKnotworks == {[txs |-> <<a1, a2, a3>>, file |-> <<11, 12, 13, 14, 15>>],
                [txs |-> <<b1>>, file |-> <<21>>]}
=============================================================================
