------------------------------ MODULE NodeProofs ------------------------------
(***************************************************************************)
(* What every proof about a part of the program needs to know of the node  *)
(* beside it: types, what a new block and a reorganisation leave in place, *)
(* and that the ledger stays one - no transaction is in it twice, no       *)
(* output is spent twice, and parents come no later than their children.   *)
(***************************************************************************)
EXTENDS BitcoinNode, TLAPS

(* What a block appended to the chain changes. *)
LEMMA AppendBlock ==
  ASSUME chain \in Seq(Block), NEW b \in Block
  PROVE  /\ Append(chain, b) \in Seq(Block)
         /\ Len(Append(chain, b)) = Len(chain) + 1
         /\ \A h \in 1 .. Len(chain) : Append(chain, b)[h] = chain[h]
         /\ Append(chain, b)[Len(chain) + 1] = b
  OBVIOUS

(* What a reorganisation makes of the chain. *)
LEMMA ReplaceTip ==
  ASSUME chain \in Seq(Block), chain # <<>>, NEW b1 \in Block, NEW b2 \in Block
  PROVE  /\ Append([chain EXCEPT ![Len(chain)] = b1], b2) \in Seq(Block)
         /\ Len(Append([chain EXCEPT ![Len(chain)] = b1], b2)) = Len(chain) + 1
         /\ Append([chain EXCEPT ![Len(chain)] = b1], b2)[Len(chain)] = b1
         /\ Append([chain EXCEPT ![Len(chain)] = b1], b2)[Len(chain) + 1] = b2
         /\ \A h \in 1 .. Len(chain) - 1 :
              Append([chain EXCEPT ![Len(chain)] = b1], b2)[h] = chain[h]
<1> DEFINE c == [chain EXCEPT ![Len(chain)] = b1]
<1>1. /\ c \in Seq(Block)
      /\ Len(c) = Len(chain) /\ Len(chain) \in Nat \ {0}
      /\ c[Len(chain)] = b1
      /\ \A h \in 1 .. Len(chain) - 1 : c[h] = chain[h]
  OBVIOUS
<1> HIDE DEF c
<1>2. /\ Append(c, b2) \in Seq(Block)
      /\ Len(Append(c, b2)) = Len(c) + 1
      /\ Append(c, b2)[Len(c) + 1] = b2
      /\ \A h \in 1 .. Len(c) : Append(c, b2)[h] = c[h]
  BY <1>1
<1>3. /\ Append(c, b2) \in Seq(Block)
      /\ Len(Append(c, b2)) = Len(chain) + 1
      /\ Append(c, b2)[Len(chain)] = b1
      /\ Append(c, b2)[Len(chain) + 1] = b2
      /\ \A h \in 1 .. Len(chain) - 1 : Append(c, b2)[h] = chain[h]
  BY <1>1, <1>2
<1> QED
  BY <1>3, Zenon DEF c

-----------------------------------------------------------------------------
(* Types *)

LEMMA NodeTypes ==
  ASSUME NodeTypeOK, NodeNext
  PROVE  NodeTypeOK' /\ Len(chain') \in Nat /\ Len(chain') >= Len(chain)
<1>1. ASSUME NEW t \in Tx, Submit(t)
      PROVE  NodeTypeOK' /\ Len(chain') \in Nat /\ Len(chain') >= Len(chain)
  BY <1>1 DEF Submit, NodeTypeOK
<1>2. ASSUME NEW b \in Block, Mine(b)
      PROVE  NodeTypeOK' /\ Len(chain') \in Nat /\ Len(chain') >= Len(chain)
  <2>1. chain' = Append(chain, b) /\ mempool' \subseteq Tx /\ reorgs' \in Nat
    BY <1>2 DEF Mine, NodeTypeOK
  <2> QED
    BY <2>1, AppendBlock DEF NodeTypeOK
<1>3. ASSUME NEW b1 \in Block, NEW b2 \in Block, Reorg(b1, b2)
      PROVE  NodeTypeOK' /\ Len(chain') \in Nat /\ Len(chain') >= Len(chain)
  <2>1. /\ chain # <<>> /\ chain \in Seq(Block)
        /\ chain' = Append([chain EXCEPT ![Len(chain)] = b1], b2)
        /\ reorgs' \in Nat
    BY <1>3 DEF Reorg, NodeTypeOK
  <2>2. chain[Len(chain)] \in Block
    BY <2>1
  <2>3. mempool' \subseteq Tx
    BY <1>3, <2>2 DEF Reorg, NodeTypeOK, Block
  <2> QED
    BY <2>1, <2>3, ReplaceTip DEF NodeTypeOK
<1> QED
  BY <1>1, <1>2, <1>3 DEF NodeNext

(* A step of the node that is no reorganisation displaces nothing; one     *)
(* that is replaces the tip, whatever the transactions of both blocks.     *)
LEMMA NodeCases ==
  ASSUME NodeTypeOK, NodeNext
  PROVE  \/ \E t \in Tx : Submit(t) /\ Displaced = {}
         \/ \E b \in Block : Mine(b) /\ Displaced = {}
         \/ \E b1, b2 \in Block :
              /\ Reorg(b1, b2)
              /\ Displaced = chain[Len(chain)].txs \cup chain'[Len(chain)].txs
<1>1. ASSUME NEW t \in Tx, Submit(t)
      PROVE  Displaced = {}
  BY <1>1 DEF Submit, Displaced
<1>2. ASSUME NEW b \in Block, Mine(b)
      PROVE  Displaced = {}
  BY <1>2 DEF Mine, Displaced
<1>3. ASSUME NEW b1 \in Block, NEW b2 \in Block, Reorg(b1, b2)
      PROVE  Displaced = chain[Len(chain)].txs \cup chain'[Len(chain)].txs
  BY <1>3 DEF Reorg, Displaced, NodeTypeOK
<1> QED
  BY <1>1, <1>2, <1>3 DEF NodeNext

LEMMA DisplacedTypes ==
  ASSUME NodeTypeOK, NodeNext
  PROVE  Displaced \subseteq Tx
<1>1. NodeTypeOK'
  BY NodeTypes
<1>2. CASE Displaced = {}
  BY <1>2
<1>3. ASSUME NEW b1 \in Block, NEW b2 \in Block, Reorg(b1, b2),
             Displaced = chain[Len(chain)].txs \cup chain'[Len(chain)].txs
      PROVE  Displaced \subseteq Tx
  <2>1. /\ chain # <<>> /\ chain \in Seq(Block) /\ chain' \in Seq(Block)
        /\ chain' = Append([chain EXCEPT ![Len(chain)] = b1], b2)
    BY <1>1, <1>3 DEF Reorg, NodeTypeOK
  <2>2. Len(chain) \in DOMAIN chain /\ Len(chain) \in DOMAIN chain'
    BY <2>1, ReplaceTip
  <2>3. chain[Len(chain)] \in Block /\ chain'[Len(chain)] \in Block
    BY <2>1, <2>2
  <2> QED
    BY <1>3, <2>3 DEF Block
<1> QED
  BY <1>2, <1>3, NodeCases

(* A block of the chain, as the indexer reads it. *)
LEMMA BlockTypes ==
  ASSUME NodeTypeOK, NEW h \in 1 .. Len(chain)
  PROVE  chain[h].txs \subseteq Tx /\ chain[h].ocean \in BOOLEAN
<1>1. chain[h] \in Block
  BY DEF NodeTypeOK
<1> QED
  BY <1>1, NodeAssumption DEF Block

-----------------------------------------------------------------------------
(* The ledger *)

(* No transaction is confirmed twice, or confirmed and in the mempool. *)
OnceOnly ==
  /\ \A h \in DOMAIN chain : chain[h].txs \cap mempool = {}
  /\ \A g, h \in DOMAIN chain : g # h => chain[g].txs \cap chain[h].txs = {}

(* Every block stays, or is replaced and its transactions are displaced. *)
BlocksKept ==
  /\ Len(chain') >= Len(chain)
  /\ \A h \in 1 .. Len(chain) :
       \/ chain'[h] = chain[h]
       \/ chain[h].txs \cup chain'[h].txs \subseteq Displaced

LEMMA SubmitKeeps ==
  ASSUME NodeTypeOK, OnceOnly, NEW t \in Tx, Submit(t)
  PROVE  OnceOnly' /\ BlocksKept
<1>1. chain' = chain /\ mempool' = mempool \cup {t}
  BY DEF Submit
<1>2. \A h \in DOMAIN chain : t \notin chain[h].txs
  BY DEF Submit, Known, Confirmed
<1>3. chain \in Seq(Block)
  BY DEF NodeTypeOK
<1> QED
  BY <1>1, <1>2, <1>3 DEF OnceOnly, BlocksKept

LEMMA MineKeeps ==
  ASSUME NodeTypeOK, OnceOnly, NEW b \in Block, Mine(b)
  PROVE  OnceOnly' /\ BlocksKept
<1>1. /\ chain' = Append(chain, b) /\ b.txs \subseteq mempool
      /\ mempool' = mempool \ b.txs
  BY DEF Mine
<1>2. /\ chain \in Seq(Block)
      /\ DOMAIN chain = 1 .. Len(chain)
      /\ DOMAIN chain' = 1 .. Len(chain) + 1
      /\ Len(chain') = Len(chain) + 1
      /\ \A h \in 1 .. Len(chain) : chain'[h] = chain[h]
      /\ chain'[Len(chain) + 1] = b
  BY <1>1, AppendBlock DEF NodeTypeOK
<1>3. BlocksKept
  BY <1>2 DEF BlocksKept
<1>4. \A h \in DOMAIN chain' : chain'[h].txs \cap mempool' = {}
  BY <1>1, <1>2 DEF OnceOnly
<1>5. \A h \in DOMAIN chain : chain'[h].txs \cap b.txs = {}
  BY <1>1, <1>2 DEF OnceOnly
<1>6. \A g, h \in DOMAIN chain' : g # h => chain'[g].txs \cap chain'[h].txs = {}
  BY <1>2, <1>5 DEF OnceOnly
<1> QED
  BY <1>3, <1>4, <1>6 DEF OnceOnly

LEMMA ReorgKeeps ==
  ASSUME NodeTypeOK, OnceOnly, NEW b1 \in Block, NEW b2 \in Block, Reorg(b1, b2),
         Displaced = chain[Len(chain)].txs \cup chain'[Len(chain)].txs
  PROVE  OnceOnly' /\ BlocksKept
<1> DEFINE tip  == Len(chain)
           pool == mempool \cup chain[tip].txs
<1>1. /\ chain # <<>> /\ chain \in Seq(Block)
      /\ chain' = Append([chain EXCEPT ![tip] = b1], b2)
      /\ b1.txs \subseteq pool /\ b2.txs \subseteq pool \ b1.txs
      /\ mempool' = pool \ (b1.txs \cup b2.txs)
  BY DEF Reorg, NodeTypeOK
<1>2. /\ tip \in Nat \ {0}
      /\ DOMAIN chain = 1 .. tip /\ DOMAIN chain' = 1 .. tip + 1
      /\ Len(chain') = tip + 1
      /\ \A h \in 1 .. tip - 1 : chain'[h] = chain[h]
      /\ chain'[tip] = b1 /\ chain'[tip + 1] = b2
  BY <1>1, ReplaceTip
<1>3. \A h \in 1 .. tip - 1 : chain[h].txs \cap pool = {}
  BY <1>2 DEF OnceOnly
<1> HIDE DEF tip, pool
<1>4. BlocksKept
  <2>1. Len(chain') >= Len(chain)
    BY <1>2 DEF tip
  <2>2. ASSUME NEW h \in 1 .. tip
        PROVE  \/ chain'[h] = chain[h]
               \/ chain[h].txs \cup chain'[h].txs \subseteq Displaced
    <3>1. CASE h = tip
      BY <3>1 DEF tip
    <3>2. CASE h # tip
      BY <1>2, <3>2
    <3> QED
      BY <3>1, <3>2
  <2> QED
    BY <2>1, <2>2 DEF BlocksKept, tip
<1>5. \A h \in DOMAIN chain' : h \in 1 .. tip - 1 \/ h = tip \/ h = tip + 1
  BY <1>2
<1>6. \A h \in DOMAIN chain' : chain'[h].txs \cap mempool' = {}
  BY <1>1, <1>2, <1>3, <1>5
<1>7. \A g, h \in 1 .. tip - 1 : g # h => chain'[g].txs \cap chain'[h].txs = {}
  BY <1>2 DEF OnceOnly
<1>8. b1.txs \cap b2.txs = {}
  BY <1>1
<1>9. \A h \in 1 .. tip - 1 : chain'[h].txs \cap b1.txs = {} /\ chain'[h].txs \cap b2.txs = {}
  BY <1>1, <1>2, <1>3
<1>10. \A g, h \in DOMAIN chain' : g # h => chain'[g].txs \cap chain'[h].txs = {}
  BY <1>2, <1>5, <1>7, <1>8, <1>9
<1> QED
  BY <1>4, <1>6, <1>10 DEF OnceOnly

LEMMA NodeKeeps ==
  ASSUME NodeTypeOK, OnceOnly, NodeNext
  PROVE  OnceOnly' /\ BlocksKept
  BY NodeCases, SubmitKeeps, MineKeeps, ReorgKeeps

(* What a new block, and a reorganisation, make of the confirmed           *)
(* transactions: nothing that the node knows is forgotten.                 *)
LEMMA MineConfirms ==
  ASSUME NodeTypeOK, NEW b \in Block, Mine(b)
  PROVE  Confirmed' = Confirmed \cup b.txs /\ Known' = Known
<1>1. /\ chain' = Append(chain, b) /\ b.txs \subseteq mempool
      /\ mempool' = mempool \ b.txs
  BY DEF Mine
<1>2. /\ Len(chain) \in Nat
      /\ DOMAIN chain = 1 .. Len(chain)
      /\ DOMAIN chain' = 1 .. Len(chain) + 1
      /\ \A h \in 1 .. Len(chain) : chain'[h] = chain[h]
      /\ chain'[Len(chain) + 1] = b
  BY <1>1, AppendBlock DEF NodeTypeOK
<1>3. Confirmed' = Confirmed \cup b.txs
  <2>1. Confirmed' \subseteq Confirmed \cup b.txs
    <3>1. \A h \in DOMAIN chain' : h \in DOMAIN chain \/ h = Len(chain) + 1
      BY <1>2
    <3> QED
      BY <1>2, <3>1 DEF Confirmed
  <2>2. Confirmed \cup b.txs \subseteq Confirmed'
    <3>1. DOMAIN chain \subseteq DOMAIN chain' /\ Len(chain) + 1 \in DOMAIN chain'
      BY <1>2
    <3> QED
      BY <1>2, <3>1 DEF Confirmed
  <2> QED
    BY <2>1, <2>2
<1> QED
  BY <1>1, <1>3 DEF Known

LEMMA ReorgConfirms ==
  ASSUME NodeTypeOK, NEW b1 \in Block, NEW b2 \in Block, Reorg(b1, b2)
  PROVE  Known' = Known
<1> DEFINE tip   == Len(chain)
           pool  == mempool \cup chain[tip].txs
           below == UNION {chain[h].txs : h \in 1 .. tip - 1}
<1>1. /\ chain # <<>> /\ chain \in Seq(Block)
      /\ chain' = Append([chain EXCEPT ![tip] = b1], b2)
      /\ b1.txs \subseteq pool /\ b2.txs \subseteq pool \ b1.txs
      /\ mempool' = pool \ (b1.txs \cup b2.txs)
  BY DEF Reorg, NodeTypeOK
<1>2. /\ tip \in Nat \ {0}
      /\ DOMAIN chain = 1 .. tip /\ DOMAIN chain' = 1 .. tip + 1
      /\ \A h \in 1 .. tip - 1 : chain'[h] = chain[h]
      /\ chain'[tip] = b1 /\ chain'[tip + 1] = b2
  BY <1>1, ReplaceTip
<1>3. /\ DOMAIN chain = (1 .. tip - 1) \cup {tip}
      /\ DOMAIN chain' = (1 .. tip - 1) \cup {tip, tip + 1}
  BY <1>2, SMTT(60)
<1>4. Confirmed = below \cup chain[tip].txs
  BY <1>3 DEF Confirmed
<1>5. Confirmed' = below \cup b1.txs \cup b2.txs
  <2>1. Confirmed' \subseteq below \cup b1.txs \cup b2.txs
    BY <1>2, <1>3 DEF Confirmed
  <2>2. below \subseteq Confirmed'
    BY <1>2, <1>3 DEF Confirmed
  <2>3. b1.txs \subseteq Confirmed' /\ b2.txs \subseteq Confirmed'
    BY <1>2, <1>3 DEF Confirmed
  <2> QED
    BY <2>1, <2>2, <2>3
<1> HIDE DEF below, tip
<1> QED
  BY <1>1, <1>4, <1>5 DEF Known

LEMMA KnownGrows ==
  ASSUME NodeTypeOK, NodeNext
  PROVE  Known \subseteq Known'
<1>1. ASSUME NEW t \in Tx, Submit(t)
      PROVE  Known \subseteq Known'
  BY <1>1 DEF Submit, Known, Confirmed
<1> QED
  BY <1>1, MineConfirms, ReorgConfirms DEF NodeNext

(* No output is spent by two transactions, whatever the chain does. *)
SpentOnce == \A t, u \in Known : \A o \in Inputs[t] : o \in Inputs[u] => t = u

LEMMA StaysSpentOnce ==
  ASSUME NodeTypeOK, SpentOnce, NodeNext
  PROVE  SpentOnce'
<1>1. ASSUME NEW t \in Tx, Submit(t)
      PROVE  SpentOnce'
  <2>1. Known' = Known \cup {t}
    BY <1>1 DEF Submit, Known, Confirmed
  <2>2. \A u \in Known : \A o \in Inputs[t] : o \notin Inputs[u]
    BY <1>1 DEF Submit, SpendersIn
  <2> QED
    BY <2>1, <2>2 DEF SpentOnce
<1>2. CASE Known' = Known
  BY <1>2 DEF SpentOnce
<1> QED
  BY <1>1, <1>2, MineConfirms, ReorgConfirms DEF NodeNext

(* What a confirmed transaction spends is confirmed, no later than itself. *)
ParentsBelow ==
  \A h \in DOMAIN chain : \A t \in chain[h].txs :
    \A p \in Parents(t) : \E g \in 1 .. h : p \in chain[g].txs

LEMMA StaysBelow ==
  ASSUME NodeTypeOK, ParentsBelow, NodeNext
  PROVE  ParentsBelow'
<1> SUFFICES ASSUME NEW h \in DOMAIN chain', NEW t \in chain'[h].txs, NEW p \in Parents(t)
             PROVE  \E g \in 1 .. h : p \in chain'[g].txs
  BY DEF ParentsBelow, Parents
<1>1. ASSUME NEW u \in Tx, Submit(u)
      PROVE  \E g \in 1 .. h : p \in chain'[g].txs
  BY <1>1 DEF Submit, ParentsBelow
<1>2. ASSUME NEW b \in Block, Mine(b)
      PROVE  \E g \in 1 .. h : p \in chain'[g].txs
  <2>1. /\ chain' = Append(chain, b) /\ Minable(b.txs, Confirmed)
    BY <1>2 DEF Mine
  <2>2. /\ Len(chain) \in Nat
        /\ DOMAIN chain = 1 .. Len(chain)
        /\ DOMAIN chain' = 1 .. Len(chain) + 1
        /\ \A g \in 1 .. Len(chain) : chain'[g] = chain[g]
        /\ chain'[Len(chain) + 1] = b
    BY <2>1, AppendBlock DEF NodeTypeOK
  <2>3. CASE h \in DOMAIN chain
    <3>1. PICK g \in 1 .. h : p \in chain[g].txs
      BY <2>2, <2>3 DEF ParentsBelow
    <3> QED
      BY <2>2, <2>3, <3>1
  <2>4. CASE h = Len(chain) + 1
    <3>1. p \in Confirmed \/ p \in b.txs
      BY <2>1, <2>2, <2>4 DEF Minable
    <3>2. CASE p \in Confirmed
      <4>1. PICK g \in DOMAIN chain : p \in chain[g].txs
        BY <3>2 DEF Confirmed
      <4> QED
        BY <2>2, <2>4, <4>1
    <3>3. CASE p \in b.txs
      BY <2>2, <2>4, <3>3
    <3> QED
      BY <3>1, <3>2, <3>3
  <2> QED
    BY <2>2, <2>3, <2>4
<1>3. ASSUME NEW b1 \in Block, NEW b2 \in Block, Reorg(b1, b2)
      PROVE  \E g \in 1 .. h : p \in chain'[g].txs
  <2> DEFINE tip   == Len(chain)
             below == UNION {chain[g].txs : g \in 1 .. tip - 1}
  <2>1. /\ chain # <<>> /\ chain \in Seq(Block)
        /\ chain' = Append([chain EXCEPT ![tip] = b1], b2)
        /\ Minable(b1.txs, below)
        /\ Minable(b2.txs, below \cup b1.txs)
    BY <1>3 DEF Reorg, NodeTypeOK
  <2>2. /\ tip \in Nat \ {0}
        /\ DOMAIN chain = 1 .. tip /\ DOMAIN chain' = 1 .. tip + 1
        /\ \A g \in 1 .. tip - 1 : chain'[g] = chain[g]
        /\ chain'[tip] = b1 /\ chain'[tip + 1] = b2
    BY <2>1, ReplaceTip
  <2>3. \A q \in below : \E g \in 1 .. tip - 1 : q \in chain'[g].txs
    BY <2>2
  <2>4. CASE h \in 1 .. tip - 1
    <3>1. PICK g \in 1 .. h : p \in chain[g].txs
      BY <2>2, <2>4 DEF ParentsBelow
    <3> QED
      BY <2>2, <2>4, <3>1
  <2> HIDE DEF below, tip
  <2>5. CASE h = tip
    <3>1. p \in below \/ p \in b1.txs
      BY <2>1, <2>2, <2>5 DEF Minable
    <3> QED
      BY <2>2, <2>3, <2>5, <3>1
  <2>6. CASE h = tip + 1
    <3>1. p \in below \/ p \in b1.txs \/ p \in b2.txs
      BY <2>1, <2>2, <2>6 DEF Minable
    <3> QED
      BY <2>2, <2>3, <2>6, <3>1
  <2> QED
    BY <2>2, <2>4, <2>5, <2>6
<1> QED
  BY <1>1, <1>2, <1>3 DEF NodeNext

(* The ledger is one. *)
Ledger == OnceOnly /\ SpentOnce /\ ParentsBelow

LEMMA InitLedger == NodeInit => NodeTypeOK /\ Ledger
  BY DEF NodeInit, NodeTypeOK, Ledger, OnceOnly, SpentOnce, ParentsBelow, Known, Confirmed

LEMMA StepLedger ==
  ASSUME NodeTypeOK, Ledger, NodeNext
  PROVE  NodeTypeOK' /\ Ledger'
  BY NodeTypes, NodeKeeps, StaysSpentOnce, StaysBelow DEF Ledger
=============================================================================
