------------------------------ MODULE MCIndexer ------------------------------
(***************************************************************************)
(* Indexer with transactions that spend nothing of each other: a knotwork  *)
(* k1, and a transaction fp that looks like one.                           *)
(***************************************************************************)
EXTENDS Indexer

CONSTANTS k1, fp

MCInputs == [t \in Tx |-> {}]
MCDetected == Tx
MCGenuine == Tx \ {fp}
=============================================================================
