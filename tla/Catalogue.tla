------------------------------ MODULE Catalogue ------------------------------
(***************************************************************************)
(* What the index promises to those who read it, whatever becomes of the   *)
(* process that fills it: entries are found in the chain, and the last     *)
(* block is only moved over blocks that are accounted for.  There is no    *)
(* program counter here, no restart and no retry; Indexer implements this, *)
(* and Server reads from it.                                               *)
(***************************************************************************)
EXTENDS BitcoinNode

CONSTANTS
  Detected,   (* the transactions for which detect_technique is Some       *)
  NoEntry     (* no entry in KNOTWORKS_TABLE                               *)

(* The value of a KNOTWORKS_TABLE entry; the technique and the file size   *)
(* depend on the transaction alone and are left out.                       *)
Entry == [height : Nat, shiny : BOOLEAN]

ASSUME CatalogueAssumption ==
  /\ Detected \subseteq Tx
  /\ NoEntry \notin Entry

VARIABLES
  table,      (* KNOTWORKS_TABLE                                           *)
  lastBlock,  (* last_block of STATUS_TABLE; 0 when it is absent           *)
  failed,     (* transactions that were given up with a warning            *)
  passedOver, (* heights that the index was made to pass over              *)
  moved       (* transactions of blocks that a reorganisation replaced,    *)
              (* and of the blocks that took their place                   *)

catalogueVars == <<nodeVars, table, lastBlock, failed, passedOver, moved>>

Indexed(t) == table[t] # NoEntry

(* Every detected transaction of the block is in the index, was given up,  *)
(* or has been moved by a reorganisation.                                  *)
Covered(h) ==
  \A t \in chain[h].txs \cap Detected : Indexed(t) \/ t \in failed \cup moved

-----------------------------------------------------------------------------

CatalogueInit ==
  /\ NodeInit
  /\ table = [t \in Tx |-> NoEntry]
  /\ lastBlock = 0
  /\ failed = {} /\ passedOver = {} /\ moved = {}

(* An entry is written.  It says where the transaction is, unless a        *)
(* reorganisation has moved it.                                            *)
Find(t, h, s) ==
  /\ \/ t \in moved
     \/ t \in chain[h].txs /\ s = chain[h].ocean
  /\ table' = [table EXCEPT ![t] = [height |-> h, shiny |-> s]]
  /\ UNCHANGED <<nodeVars, lastBlock, failed, passedOver, moved>>

(* A transaction of the chain is given up. *)
GiveUp(t) ==
  /\ t \in Confirmed \cup moved
  /\ failed' = failed \cup {t}
  /\ UNCHANGED <<nodeVars, table, lastBlock, passedOver, moved>>

(* The last block becomes h, with the heights of S passed over on the way. *)
Claim(h, S) ==
  /\ S \subseteq passedOver \cup (lastBlock + 1 .. h)
  /\ \A g \in (1 .. h) \ S : Covered(g)
  /\ lastBlock' = h
  /\ passedOver' = S
  /\ UNCHANGED <<nodeVars, table, failed, moved>>

(* The node goes its own way. *)
Drift ==
  /\ NodeNext
  /\ moved' = moved \cup Displaced
  /\ UNCHANGED <<table, lastBlock, failed, passedOver>>

CatalogueNext ==
  \/ \E t \in Detected, h \in DOMAIN chain, s \in BOOLEAN : Find(t, h, s)
  \/ \E t \in Detected : GiveUp(t)
  \/ \E h \in 0 .. Len(chain) :
       \E S \in SUBSET (passedOver \cup (lastBlock + 1 .. h)) : Claim(h, S)
  \/ Drift

CatalogueSpec == CatalogueInit /\ [][CatalogueNext]_catalogueVars
=============================================================================
