------------------------------ MODULE MCFormats ------------------------------
(***************************************************************************)
(* Formats with the sizes of the program: 40 bytes in an OP_RETURN, keys   *)
(* of 33 bytes, 20 to a script, and files that reach into a third input.   *)
(***************************************************************************)
EXTENDS Formats

MCRealPubkey == [i \in 1 .. DATA_BYTES_PER_PUBKEY + 1 |-> IF i = 1 THEN 2 ELSE 9]
=============================================================================
