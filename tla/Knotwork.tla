------------------------------- MODULE Knotwork -------------------------------
(***************************************************************************)
(* What the two techniques have in common: the prefix that marks the bytes *)
(* of a knotwork, the answers of a decoder, and the arithmetic of cutting  *)
(* a file into pieces.                                                     *)
(*                                                                         *)
(* A file is a sequence of byte values.  A byte of a file is only ever     *)
(* copied, so a model may use any distinct values for it.                  *)
(***************************************************************************)
EXTENDS Integers, Sequences, SequencesExt

ORDIKNOT_PREFIX == <<52, 52, 52>>   \* the bytes of "444"

Success(data) == [ok |-> TRUE, data |-> data]
Refused == [ok |-> FALSE, data |-> <<>>]

DivCeil(a, b) == (a + b - 1) \div b
Least(a, b) == IF a <= b THEN a ELSE b
=============================================================================
