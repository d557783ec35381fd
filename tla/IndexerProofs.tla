---------------------------- MODULE IndexerProofs ----------------------------
(***************************************************************************)
(* Proofs about Indexer, for every set of transactions, every height of    *)
(* the chain and every bound.  The inductive invariant comes in layers:    *)
(* the types, then the control of the loops, then what the database says   *)
(* about the chain.  All of it holds through reorganisations.              *)
(***************************************************************************)
EXTENDS Indexer, NodeProofs

LEMMA InitTypes == Init => TypeOK
<1> SUFFICES ASSUME Init PROVE TypeOK
  OBVIOUS
<1>1. NodeTypeOK
  BY DEF Init, NodeInit, NodeTypeOK
<1>2. table \in [Tx -> Entry \cup {NoEntry}]
  BY DEF Init, IndexerInit
<1> QED
  BY <1>1, <1>2 DEF Init, IndexerInit, TypeOK, PCs

(* FetchBlock is the one step whose types rest on the control: the height  *)
(* is that of a block.                                                     *)
InRange == pc \in {"fetch", "txs", "store"} => cur \in 1 .. Len(chain)

LEMMA StepTypes ==
  ASSUME TypeOK, InRange, [Next]_vars
  PROVE  TypeOK'
<1> USE DEF TypeOK, PCs
<1>len. Len(chain) \in Nat
  BY DEF NodeTypeOK
<1>1. ASSUME NEW f \in FromOptions, Start(f)
      PROVE  TypeOK'
  BY <1>1, IndexerAssumption DEF Start, nodeVars, dbVars, historyVars, boundVars, NodeTypeOK
<1>2. CASE LoadStatus
  BY <1>2, <1>len DEF LoadStatus, LoopFrom, nodeVars, dbVars, historyVars, boundVars, NodeTypeOK
<1>3. CASE FetchBlock
  <2>1. chain[cur].ocean \in BOOLEAN
    BY <1>3, BlockTypes DEF FetchBlock, InRange
  <2> QED
    BY <1>3, <2>1 DEF FetchBlock, nodeVars, dbVars, historyVars, boundVars, NodeTypeOK
<1>4. ASSUME NEW t \in Tx, DecodeOk(t)
      PROVE  TypeOK'
  BY <1>4 DEF DecodeOk, nodeVars, dbVars, historyVars, boundVars, NodeTypeOK
<1>5. ASSUME NEW t \in Tx, DecodeErr(t)
      PROVE  TypeOK'
  BY <1>5 DEF DecodeErr, nodeVars, dbVars, boundVars, NodeTypeOK
<1>6. CASE Store
  <2>1. table' \in [Tx -> Entry \cup {NoEntry}]
    BY <1>6 DEF Store, Entry
  <2> QED
    BY <1>6, <2>1 DEF Store, nodeVars, historyVars, boundVars, NodeTypeOK
<1>7. CASE Advance
  BY <1>7 DEF Advance, SetLastBlock, LoopFrom, PassedOver, nodeVars, boundVars, NodeTypeOK
<1>8. CASE Final
  BY <1>8 DEF Final, SetLastBlock, PassedOver, nodeVars, boundVars, NodeTypeOK
<1>9. CASE Poll
  BY <1>9, <1>len DEF Poll, LoopFrom, nodeVars, dbVars, historyVars, boundVars, NodeTypeOK
<1>10. CASE BlockFault
  BY <1>10 DEF BlockFault, Fault, nodeVars, dbVars, historyVars, NodeTypeOK
<1>11. CASE StatusFault
  BY <1>11 DEF StatusFault, Fault, nodeVars, dbVars, localVars, historyVars, NodeTypeOK
<1>12. CASE Crash
  BY <1>12 DEF Crash, nodeVars, dbVars, localVars, historyVars, NodeTypeOK
<1>13. CASE NodeStep
  BY <1>13, NodeTypes, DisplacedTypes DEF NodeStep, dbVars, localVars, boundVars
<1>14. CASE UNCHANGED vars
  BY <1>14 DEF vars, nodeVars, indexerVars, dbVars, localVars, historyVars, boundVars, NodeTypeOK
<1> QED
  BY <1>1, <1>2, <1>3, <1>4, <1>5, <1>6, <1>7, <1>8, <1>9, <1>10, <1>11, <1>12,
     <1>13, <1>14 DEF Next, IndexerStep

-----------------------------------------------------------------------------
(* Control *)

InBlock == pc \in {"fetch", "txs", "store"}

(* Every height from the one after last_block up to h was passed over. *)
OnlyPassedOver(h) == \A g \in lastBlock + 1 .. h : from # NoFrom /\ g <= from

(* The loops never leave the chain, and the listener's loop and the status *)
(* move together.                                                          *)
ControlInv ==
  /\ lastBlock <= Len(chain) /\ target <= Len(chain)
  /\ InBlock => cur \in 1 .. target
  /\ pc = "store" => \E t \in todo : cand = {t}
  /\ pc = "txs" => cand = {}
  /\ pc = "fetch" => cand = {}
  /\ pc \in {"init", "final"} => mode = "sync" /\ cand = {}
  /\ pc = "poll" => mode = "listen" /\ lastHeight = lastBlock /\ cand = {}
  /\ InBlock /\ mode = "listen" => lastHeight = lastBlock
  /\ InBlock /\ (mode = "listen" \/ from = NoFrom) => cur = lastBlock + 1
  /\ pc = "final" /\ from = NoFrom => target = lastBlock
  /\ InBlock => OnlyPassedOver(cur - 1)
  /\ pc = "final" => OnlyPassedOver(target)

LEMMA InitControl == Init => ControlInv
  BY DEF Init, NodeInit, IndexerInit, ControlInv, InBlock

LEMMA ControlInRange == TypeOK /\ ControlInv => InRange
  BY DEF TypeOK, NodeTypeOK, ControlInv, InBlock, InRange

LEMMA StepControl ==
  ASSUME TypeOK, ControlInv, [Next]_vars
  PROVE  ControlInv'
<1> USE DEF ControlInv, InBlock, OnlyPassedOver
<1>types. /\ Len(chain) \in Nat /\ lastBlock \in Nat /\ target \in Nat
          /\ cur \in Nat /\ lastHeight \in Nat
          /\ from = NoFrom \/ from \in Nat
  BY DEF TypeOK, NodeTypeOK
<1>1. ASSUME NEW f \in FromOptions, Start(f)
      PROVE  ControlInv'
  BY <1>1, <1>types DEF Start, nodeVars, dbVars
<1>2. CASE LoadStatus
  BY <1>2, <1>types, IndexerAssumption DEF LoadStatus, LoopFrom, nodeVars, dbVars
<1>3. CASE FetchBlock
  BY <1>3, <1>types DEF FetchBlock, nodeVars, dbVars
<1>4. ASSUME NEW t \in Tx, DecodeOk(t)
      PROVE  ControlInv'
  BY <1>4, <1>types DEF DecodeOk, nodeVars, dbVars
<1>5. ASSUME NEW t \in Tx, DecodeErr(t)
      PROVE  ControlInv'
  BY <1>5, <1>types DEF DecodeErr, nodeVars, dbVars
<1>6. CASE Store
  BY <1>6, <1>types DEF Store, nodeVars
<1>7. CASE Advance
  BY <1>7, <1>types DEF Advance, SetLastBlock, LoopFrom, nodeVars, TypeOK
<1>8. CASE Final
  BY <1>8, <1>types DEF Final, SetLastBlock, nodeVars
<1>9. CASE Poll
  BY <1>9, <1>types DEF Poll, LoopFrom, nodeVars, dbVars
<1>10. CASE BlockFault
  BY <1>10, <1>types DEF BlockFault, nodeVars, dbVars, TypeOK
<1>11. CASE StatusFault
  BY <1>11, <1>types DEF StatusFault, nodeVars, dbVars, localVars
<1>12. CASE Crash
  BY <1>12, <1>types DEF Crash, nodeVars, dbVars, localVars
<1>13. CASE NodeStep
  <2>1. Len(chain') \in Nat /\ Len(chain') >= Len(chain)
    BY <1>13, NodeTypes DEF NodeStep, TypeOK
  <2> QED
    BY <1>13, <1>types, <2>1 DEF NodeStep, dbVars, localVars
<1>14. CASE UNCHANGED vars
  BY <1>14 DEF vars, nodeVars, indexerVars, dbVars, localVars
<1> QED
  BY <1>1, <1>2, <1>3, <1>4, <1>5, <1>6, <1>7, <1>8, <1>9, <1>10, <1>11, <1>12,
     <1>13, <1>14 DEF Next, IndexerStep

(* The variables keep their types, and the loops their control, through    *)
(* crashes, restarts, failed calls and reorganisations.                    *)
LEMMA Controlled == Spec => [](TypeOK /\ ControlInv)
<1>1. Init => TypeOK /\ ControlInv
  BY InitTypes, InitControl
<1>2. TypeOK /\ ControlInv /\ [Next]_vars => (TypeOK /\ ControlInv)'
  BY ControlInRange, StepTypes, StepControl
<1> QED
  BY <1>1, <1>2, PTL DEF Spec

(* Type correctness of the indexer and its node.                           *)
THEOREM TypeCorrect == Spec => []TypeOK
  BY Controlled, PTL

(* When the listener sleeps, the database says what the listener believes. *)
THEOREM ListenerAndStatusAgree == Spec => []ListenerMatchesStatus
<1>1. ControlInv => ListenerMatchesStatus
  BY DEF ControlInv, ListenerMatchesStatus
<1> QED
  BY <1>1, Controlled, PTL

(* Without --from no block is passed over and none is given up again: the  *)
(* status only takes steps of one block.                                   *)
THEOREM StatusNeverJumps == Spec => StatusStepsByOne
<1>1. TypeOK /\ ControlInv /\ [Next]_vars =>
        [from = NoFrom => lastBlock' \in {lastBlock, lastBlock + 1}]_vars
  <2> SUFFICES ASSUME TypeOK, ControlInv, [Next]_vars, from = NoFrom
               PROVE  lastBlock' \in {lastBlock, lastBlock + 1}
    OBVIOUS
  <2>1. CASE Advance
    BY <2>1 DEF Advance, SetLastBlock, ControlInv, InBlock
  <2>2. CASE Final
    BY <2>2 DEF Final, SetLastBlock, ControlInv
  <2>3. CASE ~Advance /\ ~Final
    BY <2>3 DEF Next, IndexerStep, Start, LoadStatus, FetchBlock, DecodeOk, DecodeErr,
         Store, Poll, BlockFault, StatusFault, Crash, NodeStep, vars, indexerVars, dbVars
  <2> QED
    BY <2>1, <2>2, <2>3
<1> QED
  BY <1>1, Controlled, PTL DEF Spec, StatusStepsByOne

-----------------------------------------------------------------------------
(* Content *)

(* Every block stays, or is replaced and its transactions are noted. *)
Kept ==
  /\ Len(chain') >= Len(chain)
  /\ reorged \subseteq reorged'
  /\ \A h \in 1 .. Len(chain) :
       \/ chain'[h] = chain[h]
       \/ chain[h].txs \cup chain'[h].txs \subseteq reorged'

LEMMA StepKeeps ==
  ASSUME NodeTypeOK, OnceOnly, NodeStep
  PROVE  OnceOnly' /\ Kept
<1>1. OnceOnly' /\ BlocksKept
  BY NodeKeeps DEF NodeStep
<1>2. reorged' = reorged \cup Displaced
  BY DEF NodeStep
<1> HIDE DEF Displaced
<1> QED
  BY <1>1, <1>2 DEF Kept, BlocksKept

(* The block in hand: what is still to be decoded is in the block, and     *)
(* what is not has been dealt with - but for what a reorganisation moved   *)
(* after the block was fetched.                                            *)
InHand ==
  pc \in {"txs", "store"} =>
    /\ \A t \in todo \ reorged : t \in chain[cur].txs /\ shiny = chain[cur].ocean
    /\ \A t \in chain[cur].txs \cap Detected :
         t \in todo \/ Indexed(t) \/ t \in warned \cup reorged

ContentInv == OnceOnly /\ InHand /\ NoSilentLoss /\ EntryAccurate

Inv == TypeOK /\ ControlInv /\ ContentInv

(* What was covered stays so while the status does not move. *)
LEMMA StaysCovered ==
  ASSUME TypeOK, ControlInv, NoSilentLoss, Kept,
         lastBlock' = lastBlock, skipped' = skipped, warned \subseteq warned',
         \A t \in Tx : Indexed(t) => Indexed(t)'
  PROVE  NoSilentLoss'
<1> SUFFICES ASSUME NEW h \in (1 .. lastBlock) \ skipped
             PROVE  Covered(h)'
  BY DEF NoSilentLoss
<1>1. h \in 1 .. Len(chain)
  BY DEF TypeOK, NodeTypeOK, ControlInv
<1>2. Covered(h)
  BY DEF NoSilentLoss
<1>3. CASE chain'[h] = chain[h]
  BY <1>2, <1>3, IndexerAssumption DEF Covered, Kept
<1>4. CASE chain'[h].txs \subseteq reorged'
  BY <1>4 DEF Covered
<1> QED
  BY <1>1, <1>3, <1>4 DEF Kept

(* What the entries say stays true while they are not written. *)
LEMMA StaysAccurate ==
  ASSUME NodeTypeOK, NodeTypeOK', EntryAccurate, Kept, table' = table
  PROVE  EntryAccurate'
<1> SUFFICES ASSUME NEW t \in Tx \ reorged', Indexed(t)
             PROVE  /\ table[t].height \in DOMAIN chain'
                    /\ t \in chain'[table[t].height].txs
                    /\ table[t].shiny = chain'[table[t].height].ocean
  BY DEF EntryAccurate, Indexed
<1>1. /\ DOMAIN chain = 1 .. Len(chain) /\ DOMAIN chain' = 1 .. Len(chain')
      /\ Len(chain) \in Nat /\ Len(chain') \in Nat
  BY DEF NodeTypeOK
<1>2. /\ table[t].height \in 1 .. Len(chain)
      /\ t \in chain[table[t].height].txs
      /\ table[t].shiny = chain[table[t].height].ocean
  BY <1>1 DEF EntryAccurate, Kept
<1>3. chain'[table[t].height] = chain[table[t].height]
  BY <1>2 DEF Kept
<1> QED
  BY <1>1, <1>2, <1>3 DEF Kept

(* An entry that Store writes over is the one it writes. *)
LEMMA StoreAgain ==
  ASSUME Inv, Store, NEW t \in Tx \ reorged, Indexed(t)
  PROVE  table'[t] = table[t]
<1>1. CASE t \in cand
  <2>1. /\ t \in todo /\ t \in chain[cur].txs
        /\ shiny = chain[cur].ocean /\ cur \in DOMAIN chain
    BY <1>1 DEF Inv, ContentInv, ControlInv, InBlock, InHand, Store, TypeOK, NodeTypeOK
  <2>2. /\ table[t].height \in DOMAIN chain
        /\ t \in chain[table[t].height].txs
        /\ table[t].shiny = chain[table[t].height].ocean
    BY DEF Inv, ContentInv, EntryAccurate
  <2>3. table[t].height = cur
    BY <1>1, <2>1, <2>2 DEF Inv, ContentInv, OnceOnly
  <2>4. table[t] \in Entry
    BY DEF Inv, TypeOK, Indexed
  <2>5. table'[t] = [height |-> cur, shiny |-> shiny]
    BY <1>1 DEF Store
  <2> QED
    BY <2>1, <2>2, <2>3, <2>4, <2>5 DEF Entry
<1>2. CASE t \notin cand
  BY <1>2 DEF Store
<1> QED
  BY <1>1, <1>2

(* A step that touches neither the node nor the database nor the history,  *)
(* and does not open a block, leaves the content as it is.                 *)
LEMMA Untouched ==
  ASSUME Inv, UNCHANGED <<chain, mempool, table, lastBlock, historyVars>>, InHand'
  PROVE  ContentInv'
  BY DEF Inv, ContentInv, OnceOnly, NoSilentLoss, Covered, EntryAccurate, Indexed,
         historyVars

LEMMA StepContent ==
  ASSUME Inv, [Next]_vars, TypeOK'
  PROVE  ContentInv'
<1> USE DEF InHand
<1>inv. TypeOK /\ NodeTypeOK /\ ControlInv /\ OnceOnly /\ NoSilentLoss /\ EntryAccurate
  BY DEF Inv, ContentInv, TypeOK
<1>inhand. InHand
  BY DEF Inv, ContentInv
<1>1. ASSUME NEW f \in FromOptions, Start(f)
      PROVE  ContentInv'
  BY <1>1, Untouched DEF Start, nodeVars, dbVars, historyVars
<1>2. CASE LoadStatus
  BY <1>2, Untouched DEF LoadStatus, LoopFrom, nodeVars, dbVars, historyVars
<1>3. CASE FetchBlock
  BY <1>3, Untouched DEF FetchBlock, nodeVars, dbVars, historyVars
<1>4. ASSUME NEW t \in Tx, DecodeOk(t)
      PROVE  ContentInv'
  BY <1>4, <1>inhand, Untouched DEF DecodeOk, nodeVars, dbVars, historyVars, Indexed
<1>5. ASSUME NEW t \in Tx, DecodeErr(t)
      PROVE  ContentInv'
  <2>1. /\ UNCHANGED <<chain, mempool, table, lastBlock, skipped, reorged, cur, shiny, pc>>
        /\ todo' = todo \ {t} /\ warned' = warned \cup {t} /\ pc = "txs"
    BY <1>5 DEF DecodeErr, nodeVars, dbVars, boundVars
  <2>2. Kept
    BY <2>1, <1>inv DEF Kept, NodeTypeOK
  <2>3. NoSilentLoss'
    BY <2>1, <2>2, <1>inv, StaysCovered DEF Indexed
  <2>4. EntryAccurate'
    BY <2>1 , <1>inv DEF EntryAccurate, Indexed
  <2>5. InHand'
    BY <2>1, <1>inhand DEF Indexed
  <2> QED
    BY <2>1, <2>3, <2>4, <2>5, <1>inv DEF ContentInv, OnceOnly
<1>6. CASE Store
  <2>1. /\ UNCHANGED <<chain, mempool, lastBlock, skipped, reorged, warned, cur, shiny>>
        /\ table' = [t \in Tx |-> IF t \in cand THEN [height |-> cur, shiny |-> shiny]
                                                 ELSE table[t]]
        /\ todo' = todo \ cand
        /\ pc = "store" /\ pc' = "txs"
    BY <1>6 DEF Store, nodeVars, historyVars
  <2>2. /\ cur \in DOMAIN chain /\ cur \in Nat
        /\ \A t \in cand \ reorged : t \in chain[cur].txs /\ shiny = chain[cur].ocean
    BY <2>1, <1>inv, <1>inhand DEF ControlInv, InBlock, TypeOK, NodeTypeOK
  <2>3. \A t \in Tx : t \in cand => Indexed(t)'
    <3>1. [height |-> cur, shiny |-> shiny] \in Entry
      BY <2>2, <1>inv DEF Entry, TypeOK
    <3> QED
      BY <2>1, <3>1, IndexerAssumption DEF Indexed
  <2>4. \A t \in Tx : Indexed(t) => Indexed(t)'
    BY <2>1, <2>3 DEF Indexed
  <2>5. NoSilentLoss'
    <3>1. Kept
      BY <2>1, <1>inv DEF Kept, NodeTypeOK
    <3> QED
      BY <2>1, <2>4, <3>1, <1>inv, StaysCovered
  <2>6. EntryAccurate'
    BY <2>1, <2>2, <1>inv DEF EntryAccurate, Indexed
  <2>7. InHand'
    BY <2>1, <2>3, <2>4, <1>inhand, IndexerAssumption
  <2> QED
    BY <2>1, <2>5, <2>6, <2>7, <1>inv DEF ContentInv, OnceOnly
<1>7. CASE Advance
  <2>1. /\ UNCHANGED <<chain, mempool, table, warned, reorged>>
        /\ lastBlock' = cur
        /\ skipped' = (skipped \cup ((lastBlock + 1 .. cur) \cap PassedOver)) \ {cur}
        /\ pc = "txs" /\ todo = {} /\ pc' \in {"fetch", "poll", "final"}
    BY <1>7 DEF Advance, SetLastBlock, LoopFrom, nodeVars
  <2>2. Covered(cur)
    BY <2>1, <1>inhand DEF Covered
  <2>3. ASSUME NEW h \in (1 .. cur) \ skipped'
        PROVE  Covered(h)
    <3>types. cur \in Nat /\ lastBlock \in Nat /\ h \in Nat /\ (from = NoFrom \/ from \in Nat)
      BY <1>inv DEF TypeOK
    <3>1. CASE h = cur
      BY <3>1, <2>2
    <3>2. CASE h # cur /\ h <= lastBlock
      BY <3>2, <3>types, <2>1, <1>inv DEF NoSilentLoss
    <3>3. CASE h # cur /\ h > lastBlock
      <4>1. h \in lastBlock + 1 .. cur - 1
        BY <3>3, <3>types
      <4>2. from # NoFrom /\ h <= from
        BY <4>1, <2>1, <1>inv DEF ControlInv, InBlock, OnlyPassedOver
      <4>3. h \in PassedOver
        BY <4>2, <3>types DEF PassedOver
      <4> QED
        BY <3>3, <4>1, <4>3, <3>types, <2>1
    <3> QED
      BY <3>1, <3>2, <3>3, <3>types
  <2>4. NoSilentLoss'
    BY <2>1, <2>3 DEF NoSilentLoss, Covered, Indexed
  <2> QED
    BY <2>1, <2>4, <1>inv DEF ContentInv, OnceOnly, EntryAccurate, Indexed
<1>8. CASE Final
  <2>1. /\ UNCHANGED <<chain, mempool, table, warned, reorged>>
        /\ lastBlock' = target
        /\ skipped' = (skipped \cup ((lastBlock + 1 .. target) \cap PassedOver)) \ {}
        /\ pc = "final" /\ pc' = "poll"
    BY <1>8 DEF Final, SetLastBlock, nodeVars
  <2>2. ASSUME NEW h \in (1 .. target) \ skipped'
        PROVE  Covered(h)
    <3>types. target \in Nat /\ lastBlock \in Nat /\ h \in Nat /\ (from = NoFrom \/ from \in Nat)
      BY <1>inv DEF TypeOK
    <3>1. CASE h <= lastBlock
      BY <3>1, <3>types, <2>1, <1>inv DEF NoSilentLoss
    <3>2. CASE h > lastBlock
      <4>1. h \in lastBlock + 1 .. target
        BY <3>2, <3>types
      <4>2. from # NoFrom /\ h <= from
        BY <4>1, <2>1, <1>inv DEF ControlInv, OnlyPassedOver
      <4>3. h \in PassedOver
        BY <4>2, <3>types DEF PassedOver
      <4> QED
        BY <4>1, <4>3, <2>1
    <3> QED
      BY <3>1, <3>2, <3>types
  <2>3. NoSilentLoss'
    BY <2>1, <2>2 DEF NoSilentLoss, Covered, Indexed
  <2> QED
    BY <2>1, <2>3, <1>inv DEF ContentInv, OnceOnly, EntryAccurate, Indexed
<1>9. CASE Poll
  BY <1>9, <1>inhand, Untouched DEF Poll, LoopFrom, nodeVars, dbVars, historyVars
<1>10. CASE BlockFault
  BY <1>10, Untouched DEF BlockFault, nodeVars, dbVars, historyVars
<1>11. CASE StatusFault
  BY <1>11, Untouched DEF StatusFault, nodeVars, dbVars, historyVars
<1>12. CASE Crash
  BY <1>12, Untouched DEF Crash, nodeVars, dbVars, historyVars
<1>13. CASE NodeStep
  <2>1. OnceOnly' /\ Kept
    BY <1>13, <1>inv, StepKeeps
  <2>2. UNCHANGED <<table, lastBlock, pc, cur, todo, shiny, warned, skipped>>
    BY <1>13 DEF NodeStep, dbVars, localVars
  <2>3. NoSilentLoss'
    BY <2>1, <2>2, <1>inv, StaysCovered DEF Indexed
  <2>4. EntryAccurate'
    BY <2>1, <2>2, <1>inv, StaysAccurate DEF TypeOK
  <2>5. InHand'
    <3> SUFFICES ASSUME pc \in {"txs", "store"}
                 PROVE  InHand'
      BY <2>2
    <3>1. cur \in 1 .. Len(chain)
      BY <1>inv, SMTT(60) DEF ControlInv, InBlock, TypeOK, NodeTypeOK
    <3>2. CASE chain'[cur] = chain[cur]
      BY <2>1, <2>2, <3>2, <1>inhand DEF Kept, Indexed
    <3>3. CASE chain[cur].txs \cup chain'[cur].txs \subseteq reorged'
      BY <2>1, <2>2, <3>3, <1>inhand DEF Kept
    <3> QED
      BY <2>1, <3>1, <3>2, <3>3 DEF Kept
  <2> QED
    BY <2>1, <2>3, <2>4, <2>5 DEF ContentInv
<1>14. CASE UNCHANGED vars
  BY <1>14, <1>inhand, Untouched DEF vars, nodeVars, indexerVars, dbVars, localVars,
     historyVars, Indexed
<1> QED
  BY <1>1, <1>2, <1>3, <1>4, <1>5, <1>6, <1>7, <1>8, <1>9, <1>10, <1>11, <1>12,
     <1>13, <1>14 DEF Next, IndexerStep

LEMMA InitInv ==
  ASSUME Init
  PROVE  Inv
<1>1. ContentInv
  BY DEF Init, NodeInit, IndexerInit, ContentInv, OnceOnly, InHand, NoSilentLoss,
         EntryAccurate, Indexed
<1> QED
  BY <1>1, InitTypes, InitControl DEF Inv

LEMMA StepInv ==
  ASSUME Inv, [Next]_vars
  PROVE  Inv'
  BY ControlInRange, StepTypes, StepControl, StepContent DEF Inv

LEMMA Invariant == Spec => []Inv
<1>1. Init => Inv
  BY InitInv
<1>2. Inv /\ [Next]_vars => Inv'
  BY StepInv
<1> QED
  BY <1>1, <1>2, PTL DEF Spec

(* No block that the status claims has a detected transaction that is      *)
(* neither indexed nor warned about, unless a reorganisation moved it: a   *)
(* reorganisation does no harm beyond the block it replaces.               *)
THEOREM NothingLostSilently == Spec => []NoSilentLoss
<1>1. Inv => NoSilentLoss
  BY DEF Inv, ContentInv
<1> QED
  BY <1>1, Invariant, PTL

(* An entry tells the height and the marker of its transaction's block.    *)
THEOREM EntriesAccurate == Spec => []EntryAccurate
<1>1. Inv => EntryAccurate
  BY DEF Inv, ContentInv
<1> QED
  BY <1>1, Invariant, PTL

(* Processing a block again changes no entry.                              *)
THEOREM RedoIsHarmless == Spec => RedoHarmless
<1>1. Inv /\ [Next]_vars => [\A t \in Tx \ reorged : Indexed(t) => table'[t] = table[t]]_vars
  <2> SUFFICES ASSUME Inv, [Next]_vars, NEW t \in Tx \ reorged, Indexed(t)
               PROVE  table'[t] = table[t]
    OBVIOUS
  <2>1. CASE Store
    BY <2>1, StoreAgain
  <2>2. CASE ~Store
    BY <2>2 DEF Next, IndexerStep, Start, LoadStatus, FetchBlock, DecodeOk, DecodeErr,
         Advance, Final, Poll, BlockFault, StatusFault, Crash, NodeStep, vars, indexerVars, dbVars
  <2> QED
    BY <2>1, <2>2
<1> QED
  BY <1>1, Invariant, PTL DEF Spec, RedoHarmless
-----------------------------------------------------------------------------
(* Refinement *)

(* The catalogue's view of a step that leaves the database and the history *)
(* alone.                                                                  *)
LEMMA Stutters ==
  ASSUME UNCHANGED <<nodeVars, dbVars, historyVars>>
  PROVE  UNCHANGED Cat!catalogueVars
  BY DEF nodeVars, dbVars, historyVars, Cat!catalogueVars, Cat!nodeVars

(* When the last block moves, what it moves over is covered: that is the   *)
(* invariant, after the step.                                              *)
LEMMA Claims ==
  ASSUME Inv, Inv', UNCHANGED <<nodeVars, table, warned, reorged>>,
         NEW h \in Nat, h <= Len(chain), lastBlock' = h,
         skipped' \subseteq skipped \cup (lastBlock + 1 .. h)
  PROVE  Cat!CatalogueNext
<1>1. h \in 0 .. Len(chain)
  BY DEF Inv, TypeOK, NodeTypeOK
<1>2. skipped' \in SUBSET (skipped \cup (lastBlock + 1 .. h))
  OBVIOUS
<1>3. \A g \in (1 .. h) \ skipped' : Cat!Covered(g)
  <2>1. \A g \in (1 .. h) \ skipped' : Covered(g)'
    BY DEF Inv, ContentInv, NoSilentLoss
  <2> QED
    BY <2>1 DEF Covered, Indexed, Cat!Covered, Cat!Indexed, nodeVars
<1>4. Cat!Claim(h, skipped')
  BY <1>3 DEF Cat!Claim, Cat!nodeVars, nodeVars
<1> QED
  BY <1>1, <1>2, <1>4 DEF Cat!CatalogueNext

LEMMA StepRefines ==
  ASSUME Inv, Inv', [Next]_vars
  PROVE  [Cat!CatalogueNext]_(Cat!catalogueVars)
<1>inv. TypeOK /\ ControlInv /\ InHand /\ Len(chain) \in Nat
  BY DEF Inv, ContentInv, TypeOK, NodeTypeOK
<1>1. ASSUME NEW f \in FromOptions, Start(f)
      PROVE  UNCHANGED <<nodeVars, dbVars, historyVars>>
  BY <1>1 DEF Start
<1>2. CASE LoadStatus \/ FetchBlock \/ Poll \/ BlockFault \/ StatusFault \/ Crash
  <2>1. UNCHANGED <<nodeVars, dbVars, historyVars>>
    BY <1>2 DEF LoadStatus, FetchBlock, Poll, BlockFault, StatusFault, Crash
  <2> QED
    BY <2>1, Stutters
<1>3. ASSUME NEW t \in Tx, DecodeOk(t)
      PROVE  UNCHANGED <<nodeVars, dbVars, historyVars>>
  BY <1>3 DEF DecodeOk
<1>4. ASSUME NEW t \in Tx, DecodeErr(t)
      PROVE  Cat!CatalogueNext
  <2>1. t \in Detected
    BY <1>4, <1>inv DEF DecodeErr, TypeOK
  <2>2. t \in Cat!Confirmed \cup reorged
    <3>1. cur \in DOMAIN chain /\ (t \in reorged \/ t \in chain[cur].txs)
      BY <1>4, <1>inv DEF DecodeErr, InHand, ControlInv, InBlock, TypeOK, NodeTypeOK
    <3> QED
      BY <3>1 DEF Cat!Confirmed
  <2>3. Cat!GiveUp(t)
    BY <1>4, <2>2 DEF DecodeErr, Cat!GiveUp, Cat!nodeVars, nodeVars, dbVars
  <2> QED
    BY <2>1, <2>3 DEF Cat!CatalogueNext
<1>5. CASE Store
  <2>1. PICK t \in todo : cand = {t}
    BY <1>5, <1>inv DEF Store, ControlInv
  <2>2. /\ cur \in DOMAIN chain /\ shiny \in BOOLEAN /\ t \in Detected
    BY <1>5, <1>inv DEF Store, ControlInv, InBlock, TypeOK, NodeTypeOK
  <2>3. \/ t \in reorged
        \/ t \in chain[cur].txs /\ shiny = chain[cur].ocean
    BY <1>5, <1>inv DEF Store, InHand
  <2>4. table' = [table EXCEPT ![t] = [height |-> cur, shiny |-> shiny]]
    BY <1>5, <2>1, <1>inv DEF Store, TypeOK
  <2>5. Cat!Find(t, cur, shiny)
    BY <1>5, <2>3, <2>4 DEF Store, Cat!Find, Cat!nodeVars, nodeVars, historyVars
  <2> QED
    BY <2>2, <2>5 DEF Cat!CatalogueNext
<1>6. CASE Advance
  <2>1. /\ UNCHANGED <<nodeVars, table, warned, reorged>> /\ lastBlock' = cur
        /\ skipped' \subseteq skipped \cup (lastBlock + 1 .. cur)
    BY <1>6 DEF Advance, SetLastBlock
  <2>2. cur \in Nat /\ cur <= Len(chain)
    BY <1>6, <1>inv DEF Advance, ControlInv, InBlock, TypeOK
  <2> QED
    BY <2>1, <2>2, Claims
<1>7. CASE Final
  <2>1. /\ UNCHANGED <<nodeVars, table, warned, reorged>> /\ lastBlock' = target
        /\ skipped' \subseteq skipped \cup (lastBlock + 1 .. target)
    BY <1>7 DEF Final, SetLastBlock
  <2>2. target \in Nat /\ target <= Len(chain)
    BY <1>inv DEF ControlInv, TypeOK
  <2> QED
    BY <2>1, <2>2, Claims
<1>8. CASE NodeStep
  <2>1. NodeNext /\ reorged' = reorged \cup Displaced
        /\ UNCHANGED <<table, lastBlock, warned, skipped>>
    BY <1>8 DEF NodeStep, dbVars
  <2>2. Cat!NodeNext
    BY <2>1 DEF NodeNext, Submit, Mine, Reorg, Block, Known, Confirmed, Parents, SpendersIn,
         Minable, Cat!NodeNext, Cat!Submit, Cat!Mine, Cat!Reorg, Cat!Block, Cat!Known,
         Cat!Confirmed, Cat!Parents, Cat!SpendersIn, Cat!Minable
  <2>3. Cat!Drift
    BY <2>1, <2>2 DEF Cat!Drift, Displaced, Cat!Displaced
  <2> QED
    BY <2>3 DEF Cat!CatalogueNext
<1>9. CASE UNCHANGED vars
  BY <1>9, Stutters DEF vars, indexerVars
<1> QED
  BY <1>1, <1>2, <1>3, <1>4, <1>5, <1>6, <1>7, <1>8, <1>9, Stutters
     DEF Next, IndexerStep

(* The indexer, with its loops, its two commits per block, its retries and *)
(* restarts, implements the catalogue, for every chain and every bound.    *)
THEOREM IndexerImplementsCatalogue == Spec => ImplementsCatalogue
<1>1. Init => Cat!CatalogueInit
  BY DEF Init, NodeInit, IndexerInit, Cat!CatalogueInit, Cat!NodeInit
<1>2. Inv /\ Inv' /\ [Next]_vars => [Cat!CatalogueNext]_(Cat!catalogueVars)
  BY StepRefines
<1> QED
  BY <1>1, <1>2, Invariant, PTL DEF Spec, ImplementsCatalogue, Cat!CatalogueSpec
=============================================================================
