----------------------------- MODULE BitcoinNode -----------------------------
(***************************************************************************)
(* The Bitcoin Knots node behind bitcoincore_rpc::Client, as far as the    *)
(* program sees it: the active chain, the mempool, and the transactions    *)
(* that get_raw_transaction can return (the node runs with -txindex, see   *)
(* docker-compose.knots.regtest.yml).  The node is external code: it is    *)
(* modelled from the calls the program makes and the answers it relies on. *)
(*                                                                         *)
(* chain[h] is the block at height h.  The genesis block, height 0, holds  *)
(* nothing of interest and is left out, so Len(chain) is what              *)
(* get_block_count returns.                                                *)
(***************************************************************************)
EXTENDS Naturals, Sequences

CONSTANTS
  Tx,         (* the transactions that may ever be published               *)
  Inputs,     (* Inputs[t]: the outpoints <<transaction, vout>> t spends   *)
  OceanMarks, (* the values a block's OCEAN marker may take                *)
  MaxHeight,  (* bound on the height of the chain                          *)
  MaxReorgs   (* bound on the number of chain reorganisations              *)

ASSUME NodeAssumption ==
  /\ DOMAIN Inputs = Tx
  /\ OceanMarks \subseteq BOOLEAN
  /\ MaxHeight \in Nat
  /\ MaxReorgs \in Nat

VARIABLES
  chain,      (* the blocks of the active chain, by height                 *)
  mempool,    (* the unconfirmed transactions                              *)
  reorgs      (* the number of reorganisations so far                      *)

nodeVars == <<chain, mempool, reorgs>>

(* A block: its transactions, and whether its coinbase carries the marker  *)
(* of the OCEAN pool.                                                      *)
Block == [txs : SUBSET Tx, ocean : OceanMarks]

Confirmed == UNION {chain[h].txs : h \in DOMAIN chain}

(* The transactions get_raw_transaction answers for. *)
Known == mempool \cup Confirmed

Parents(t) == {o[1] : o \in Inputs[t]} \cap Tx

(* The transactions of S that spend outpoint o. *)
SpendersIn(S, o) == {t \in S : o \in Inputs[t]}

(* The txs of a block come after everything they spend. *)
Minable(S, before) == \A t \in S : Parents(t) \subseteq before \cup S

-----------------------------------------------------------------------------

NodeInit ==
  /\ chain = <<>>
  /\ mempool = {}
  /\ reorgs = 0

(* send_raw_transaction succeeds: the parents are known and none of the    *)
(* outputs it spends is spent already.                                     *)
Submit(t) ==
  /\ t \notin Known
  /\ Parents(t) \subseteq Known
  /\ \A o \in Inputs[t] : SpendersIn(Known, o) = {}
  /\ mempool' = mempool \cup {t}
  /\ UNCHANGED <<chain, reorgs>>

Mine(b) ==
  /\ Len(chain) < MaxHeight
  /\ b.txs \subseteq mempool
  /\ Minable(b.txs, Confirmed)
  /\ chain' = Append(chain, b)
  /\ mempool' = mempool \ b.txs
  /\ UNCHANGED reorgs

(* The tip is replaced by a branch of two blocks.  The node switches       *)
(* branches under one lock, so no caller sees the shorter chain; the       *)
(* transactions of the old tip that the new branch does not hold go back   *)
(* to the mempool.                                                         *)
Reorg(b1, b2) ==
  /\ reorgs < MaxReorgs
  /\ chain # <<>>
  /\ Len(chain) < MaxHeight
  /\ LET tip   == Len(chain)
         pool  == mempool \cup chain[tip].txs
         below == UNION {chain[h].txs : h \in 1 .. tip - 1}
     IN /\ b1.txs \subseteq pool
        /\ b2.txs \subseteq pool \ b1.txs
        /\ Minable(b1.txs, below)
        /\ Minable(b2.txs, below \cup b1.txs)
        /\ chain' = Append([chain EXCEPT ![tip] = b1], b2)
        /\ mempool' = pool \ (b1.txs \cup b2.txs)
  /\ reorgs' = reorgs + 1

NodeNext ==
  \/ \E t \in Tx : Submit(t)
  \/ \E b \in Block : Mine(b)
  \/ \E b1, b2 \in Block : Reorg(b1, b2)

(* The transactions of the block that a step of the node replaces, and of  *)
(* the block it puts there.                                                *)
Displaced ==
  IF reorgs' = reorgs THEN {} ELSE chain[Len(chain)].txs \cup chain'[Len(chain)].txs

NodeTypeOK ==
  /\ chain \in Seq(Block)
  /\ mempool \subseteq Tx
  /\ reorgs \in Nat
=============================================================================
