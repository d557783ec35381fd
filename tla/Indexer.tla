------------------------------- MODULE Indexer -------------------------------
(***************************************************************************)
(* The indexer: sync catches up with the chain block by block and then     *)
(* listens for new blocks.  It runs against a node whose chain moves, in a *)
(* process that may be killed between any two of its steps; only the redb  *)
(* database (table, lastBlock) outlives the process.                       *)
(*                                                                         *)
(* The decoding of one transaction is a single step here; ChainDecoder     *)
(* takes it apart.                                                         *)
(***************************************************************************)
EXTENDS BitcoinNode

CONSTANTS
  Detected,     (* the transactions for which detect_technique is Some     *)
  Genuine,      (* those among them that are knotworks; decoding any other *)
                (* one fails                                               *)
  FromOptions,  (* the values of the --from option; NoFrom: not given      *)
  NoFrom,
  NoEntry,      (* no entry in KNOTWORKS_TABLE                             *)
  MaxFaults,    (* bound on the failed RPC and database calls              *)
  MaxCrashes    (* bound on the crashes of the process                     *)

(* The value of a KNOTWORKS_TABLE entry; the technique and the file size   *)
(* depend on the transaction alone and are left out.                       *)
Entry == [height : Nat, shiny : BOOLEAN]

ASSUME IndexerAssumption ==
  /\ Detected \subseteq Tx
  /\ Genuine \subseteq Detected
  /\ NoFrom \notin Nat
  /\ FromOptions \subseteq Nat \cup {NoFrom}
  /\ NoEntry \notin Entry
  /\ MaxFaults \in Nat
  /\ MaxCrashes \in Nat

VARIABLES
  table,       (* KNOTWORKS_TABLE                                          *)
  lastBlock,   (* last_block of STATUS_TABLE; 0 when it is absent          *)
  pc,          (* what the indexer does next                               *)
  mode,        (* "sync": in the loop of sync, "listen": in the listener   *)
  from,        (* the --from of this run                                   *)
  cur,         (* height: the block being processed                        *)
  target,      (* current_height, new_height: the last block of the loop   *)
  lastHeight,  (* last_height of the listener                              *)
  todo,        (* the detected transactions of the block still to decode   *)
  cand,        (* of these, the one just decoded: all or none of one       *)
  shiny,       (* is_shiny of the block                                    *)
  warned,      (* history: transactions with a "decode failed" warning     *)
  skipped,     (* history: heights that a --from made the index pass over  *)
  reorged,     (* history: transactions of blocks that a reorganisation    *)
               (* replaced, and of the blocks that took their place        *)
  faults, crashes

dbVars == <<table, lastBlock>>
localVars == <<mode, from, cur, target, lastHeight, todo, cand, shiny>>
historyVars == <<warned, skipped, reorged>>
boundVars == <<faults, crashes>>
indexerVars == <<dbVars, pc, localVars, historyVars, boundVars>>
vars == <<nodeVars, indexerVars>>

PCs == {"down", "init", "fetch", "txs", "store", "final", "poll", "dead"}

(* The heights that the loop of sync passes over because of --from. Block  *)
(* N of --from=N is one of them, although the help text of the option says *)
(* that indexing starts there; see StartsAtFrom.                           *)
PassedOver == IF from = NoFrom THEN {} ELSE 1 .. from

-----------------------------------------------------------------------------

IndexerInit ==
  /\ table = [t \in Tx |-> NoEntry]
  /\ lastBlock = 0
  /\ pc = "down"
  /\ mode = "sync" /\ from = NoFrom
  /\ cur = 0 /\ target = 0 /\ lastHeight = 0
  /\ todo = {} /\ cand = {} /\ shiny = FALSE
  /\ warned = {} /\ skipped = {} /\ reorged = {}
  /\ faults = 0 /\ crashes = 0

(* The operator starts the program. *)
Start(f) ==
  /\ pc = "down"
  /\ pc' = "init"
  /\ mode' = "sync" /\ from' = f
  /\ cur' = 0 /\ target' = 0 /\ lastHeight' = 0
  /\ todo' = {} /\ cand' = {} /\ shiny' = FALSE
  /\ UNCHANGED <<nodeVars, dbVars, historyVars, boundVars>>

(* A for loop over the heights h .. top goes on, or is at its end. *)
LoopFrom(h, top, atEnd) ==
  /\ cur' = h
  /\ pc' = IF h <= top THEN "fetch" ELSE atEnd

(* Mutant of LoadStatus: the loop begins a block late. *)
LoadStatusLate ==
  /\ pc = "init"
  /\ target' = Len(chain)
  /\ LoopFrom((IF from = NoFrom THEN lastBlock ELSE from) + 2, Len(chain), "final")
  /\ UNCHANGED <<nodeVars, dbVars, historyVars, boundVars>>
  /\ UNCHANGED <<mode, from, lastHeight, todo, cand, shiny>>

(* sync up to its loop. *)
LoadStatus ==
  /\ pc = "init"
  /\ target' = Len(chain)
  /\ LoopFrom((IF from = NoFrom THEN lastBlock ELSE from) + 1, Len(chain), "final")
  /\ UNCHANGED <<nodeVars, dbVars, historyVars, boundVars>>
  /\ UNCHANGED <<mode, from, lastHeight, todo, cand, shiny>>

(* get_block_hash, get_block, is_ocean_pool_block and the detections. *)
FetchBlock ==
  /\ pc = "fetch"
  /\ pc' = "txs"
  /\ todo' = chain[cur].txs \cap Detected
  /\ shiny' = chain[cur].ocean
  /\ UNCHANGED <<nodeVars, dbVars, historyVars, boundVars>>
  /\ UNCHANGED <<mode, from, cur, target, lastHeight, cand>>

DecodeOk(t) ==
  /\ pc = "txs"
  /\ t \in todo \cap Genuine
  /\ pc' = "store"
  /\ cand' = {t}
  /\ UNCHANGED <<nodeVars, dbVars, historyVars, boundVars>>
  /\ UNCHANGED <<mode, from, cur, target, lastHeight, todo, shiny>>

(* decode returns an error: always for a false positive, and for a         *)
(* knotwork when a call fails or not all of it is there.  A warning, and   *)
(* on with the block.                                                      *)
DecodeErr(t) ==
  /\ pc = "txs"
  /\ t \in todo
  /\ todo' = todo \ {t}
  /\ warned' = warned \cup {t}
  /\ UNCHANGED <<nodeVars, dbVars, pc, skipped, reorged, boundVars>>
  /\ UNCHANGED <<mode, from, cur, target, lastHeight, cand, shiny>>

(* Mutants of Store: the entry gets another height than the block's. *)
StoreTarget ==
  /\ pc = "store"
  /\ table' = [t \in Tx |-> IF t \in cand THEN [height |-> target, shiny |-> shiny]
                                          ELSE table[t]]
  /\ todo' = todo \ cand
  /\ cand' = {}
  /\ pc' = "txs"
  /\ UNCHANGED <<nodeVars, lastBlock, historyVars, boundVars>>
  /\ UNCHANGED <<mode, from, cur, target, lastHeight, shiny>>

StoreNext ==
  /\ pc = "store"
  /\ table' = [t \in Tx |-> IF t \in cand THEN [height |-> lastBlock + 1, shiny |-> shiny]
                                          ELSE table[t]]
  /\ todo' = todo \ cand
  /\ cand' = {}
  /\ pc' = "txs"
  /\ UNCHANGED <<nodeVars, lastBlock, historyVars, boundVars>>
  /\ UNCHANGED <<mode, from, cur, target, lastHeight, shiny>>

(* store_transaction commits. *)
Store ==
  /\ pc = "store"
  /\ table' = [t \in Tx |-> IF t \in cand THEN [height |-> cur, shiny |-> shiny]
                                          ELSE table[t]]
  /\ todo' = todo \ cand
  /\ cand' = {}
  /\ pc' = "txs"
  /\ UNCHANGED <<nodeVars, lastBlock, historyVars, boundVars>>
  /\ UNCHANGED <<mode, from, cur, target, lastHeight, shiny>>

(* Mutant of SetLastBlock: the end of the loop is recorded. *)
SetLastBlockTarget(h, done) ==
  /\ lastBlock' = target
  /\ skipped' = (skipped \cup ((lastBlock + 1 .. h) \cap PassedOver)) \ done

(* Mutant of SetLastBlock: the block before is recorded. *)
SetLastBlockBefore(h, done) ==
  /\ lastBlock' = h - 1
  /\ UNCHANGED skipped

(* update_last_indexed_block commits, the blocks in done processed. *)
SetLastBlock(h, done) ==
  /\ lastBlock' = h
  /\ skipped' = (skipped \cup ((lastBlock + 1 .. h) \cap PassedOver)) \ done

(* process_block has returned Ok. *)
Advance ==
  /\ pc = "txs" /\ todo = {}
  /\ SetLastBlock(cur, {cur})
  /\ lastHeight' = IF mode = "listen" THEN cur ELSE lastHeight
  /\ LoopFrom(cur + 1, target, IF mode = "listen" THEN "poll" ELSE "final")
  /\ UNCHANGED <<nodeVars, table, warned, reorged, boundVars>>
  /\ UNCHANGED <<mode, from, target, todo, cand, shiny>>

(* Mutant of Final: the listener starts at the tip of now. *)
FinalAtTip ==
  /\ pc = "final"
  /\ SetLastBlock(target, {})
  /\ lastHeight' = Len(chain)
  /\ mode' = "listen"
  /\ pc' = "poll"
  /\ UNCHANGED <<nodeVars, table, warned, reorged, boundVars>>
  /\ UNCHANGED <<from, cur, target, todo, cand, shiny>>

(* sync after its loop: the status jumps to the height that was the tip    *)
(* when sync began, and the listener starts there.                         *)
Final ==
  /\ pc = "final"
  /\ SetLastBlock(target, {})
  /\ lastHeight' = target
  /\ mode' = "listen"
  /\ pc' = "poll"
  /\ UNCHANGED <<nodeVars, table, warned, reorged, boundVars>>
  /\ UNCHANGED <<from, cur, target, todo, cand, shiny>>

(* Mutant of Poll: a single new block is not noticed. *)
PollPairs ==
  /\ pc = "poll"
  /\ IF Len(chain) > lastHeight + 1
     THEN target' = Len(chain) /\ LoopFrom(lastHeight + 1, Len(chain), "poll")
     ELSE UNCHANGED <<target, cur, pc>>
  /\ UNCHANGED <<nodeVars, dbVars, historyVars, boundVars>>
  /\ UNCHANGED <<mode, from, lastHeight, todo, cand, shiny>>

(* One turn of the listener's loop; it does nothing when there is no new   *)
(* block, or when get_block_count fails.                                   *)
Poll ==
  /\ pc = "poll"
  /\ IF Len(chain) > lastHeight
     THEN target' = Len(chain) /\ LoopFrom(lastHeight + 1, Len(chain), "poll")
     ELSE UNCHANGED <<target, cur, pc>>
  /\ UNCHANGED <<nodeVars, dbVars, historyVars, boundVars>>
  /\ UNCHANGED <<mode, from, lastHeight, todo, cand, shiny>>

Fault ==
  /\ faults < MaxFaults
  /\ faults' = faults + 1
  /\ UNCHANGED crashes

(* Mutant of BlockFault: the listener gives the block up for good. *)
BlockFaultSkips ==
  /\ pc \in {"fetch", "store"}
  /\ Fault
  /\ pc' = IF mode = "sync" THEN "dead" ELSE "poll"
  /\ todo' = {} /\ cand' = {}
  /\ lastHeight' = IF mode = "sync" THEN lastHeight ELSE cur
  /\ UNCHANGED <<nodeVars, dbVars, historyVars>>
  /\ UNCHANGED <<mode, from, cur, target, shiny>>

(* process_block returns Err, for a block that cannot be fetched or an     *)
(* entry that cannot be stored: sync returns the error and the indexer is  *)
(* gone, the listener leaves its inner loop and polls again.               *)
BlockFault ==
  /\ pc \in {"fetch", "store"}
  /\ Fault
  /\ pc' = IF mode = "sync" THEN "dead" ELSE "poll"
  /\ todo' = {} /\ cand' = {}
  /\ UNCHANGED <<nodeVars, dbVars, historyVars>>
  /\ UNCHANGED <<mode, from, cur, target, lastHeight, shiny>>

(* Reading or writing the status fails, or the first get_block_count: the  *)
(* error leaves sync, and the listener as well.                            *)
StatusFault ==
  /\ \/ pc \in {"init", "final"}
     \/ pc = "txs" /\ todo = {}
  /\ Fault
  /\ pc' = "dead"
  /\ UNCHANGED <<nodeVars, dbVars, localVars, historyVars>>

(* The process is killed; the operator may also end one whose indexer died. *)
Crash ==
  /\ pc # "down"
  /\ crashes < MaxCrashes
  /\ crashes' = crashes + 1
  /\ pc' = "down"
  /\ UNCHANGED <<nodeVars, dbVars, localVars, historyVars, faults>>

IndexerStep ==
  \/ LoadStatus \/ FetchBlock
  \/ \E t \in Tx : DecodeOk(t) \/ DecodeErr(t)
  \/ Store \/ Advance \/ Final \/ Poll

Init == NodeInit /\ IndexerInit

(* The node moves, whatever the indexer is doing. *)
NodeStep ==
  /\ NodeNext
  /\ reorged' = reorged \cup Displaced
  /\ UNCHANGED <<dbVars, pc, localVars, warned, skipped, boundVars>>

Next ==
  \/ \E f \in FromOptions : Start(f)
  \/ IndexerStep
  \/ BlockFault \/ StatusFault \/ Crash
  \/ NodeStep

Spec == Init /\ [][Next]_vars

(* The indexer is one thread that nothing in the program stops: its loop   *)
(* runs, and the operator starts the program.  Nobody owes it a block, and *)
(* no call has to fail.                                                    *)
FairSpec ==
  /\ Spec
  /\ WF_vars(IndexerStep)
  /\ WF_vars(\E f \in FromOptions : Start(f))

-----------------------------------------------------------------------------

(* Types, the node's included: heights count from 0 and the work at hand   *)
(* is with detected transactions.                                          *)
TypeOK ==
  /\ NodeTypeOK
  /\ table \in [Tx -> Entry \cup {NoEntry}]
  /\ lastBlock \in Nat
  /\ pc \in PCs
  /\ mode \in {"sync", "listen"}
  /\ from \in Nat \cup {NoFrom}
  /\ cur \in Nat /\ target \in Nat /\ lastHeight \in Nat
  /\ todo \subseteq Detected /\ cand \subseteq Detected
  /\ shiny \in BOOLEAN
  /\ warned \subseteq Detected
  /\ skipped \subseteq Nat
  /\ reorged \subseteq Tx
  /\ faults \in Nat /\ crashes \in Nat

Indexed(t) == table[t] # NoEntry

(* Every detected transaction of the block is in the index or was warned   *)
(* about, unless a reorganisation has moved it.                            *)
Covered(h) ==
  \A t \in chain[h].txs \cap Detected : Indexed(t) \/ t \in warned \cup reorged

(* The status never claims a block whose knotworks are missing: whatever   *)
(* the order of crashes, restarts, retries and --from options, a detected  *)
(* transaction of a block up to last_block is in the table, unless its     *)
(* decoding failed with a warning, a --from passed over its block, or it   *)
(* is one of those that a reorganisation put into a replaced block, which  *)
(* the listener does not notice: a reorganisation does no harm beyond the  *)
(* block it replaces.  This excuses block N of --from=N with those below   *)
(* it, as the code passes over it; that it should not is StartsAtFrom.     *)
NoSilentLoss == \A h \in (1 .. lastBlock) \ skipped : Covered(h)

(* An entry tells the block the transaction is in, and whether that block  *)
(* is one of OCEAN's ("shiny"), but for transactions that a reorganisation *)
(* has moved.                                                              *)
EntryAccurate ==
  \A t \in Tx \ reorged : Indexed(t) =>
    /\ table[t].height \in DOMAIN chain
    /\ t \in chain[table[t].height].txs
    /\ table[t].shiny = chain[table[t].height].ocean

(* While the listener sleeps, its last_height is the last_block of the     *)
(* database: a restart goes on exactly where the listener would have.      *)
ListenerMatchesStatus == pc = "poll" => lastHeight = lastBlock

(* Processing a block again, after a crash or because of --from, leaves    *)
(* the entries that are there as they are; only a transaction that a       *)
(* reorganisation has moved may get another entry.                         *)
RedoHarmless ==
  [][\A t \in Tx \ reorged : Indexed(t) => table'[t] = table[t]]_vars

(* Without --from, the status moves forward one block at a time.           *)
StatusStepsByOne ==
  [][from = NoFrom => lastBlock' \in {lastBlock, lastBlock + 1}]_vars

(* Every block that the node has is indexed in the end, although calls     *)
(* fail, the listener gives blocks up for a while and the process is       *)
(* killed - unless an error has ended the indexer in a process that goes   *)
(* on.                                                                     *)
CatchesUp ==
  \A h \in 1 .. MaxHeight :
    Len(chain) >= h ~> pc = "dead" \/ (pc = "poll" /\ lastHeight >= h)

-----------------------------------------------------------------------------
(* What the documentation says and the code does not do. *)

(* main.rs, of --from: "Starting block height to index from"; the README:  *)
(* "Index starting from block 924,000" of --from=924000.  A program that   *)
(* was started with --from=N and has caught up has indexed block N.        *)
StartsAtFrom ==
  pc = "poll" /\ from # NoFrom /\ from \in 1 .. lastBlock => Covered(from)

-----------------------------------------------------------------------------
(* Refinement *)

Cat == INSTANCE Catalogue WITH failed <- warned, passedOver <- skipped, moved <- reorged

(* Whatever the loops, retries, restarts and --from options do, a reader   *)
(* of the database sees the catalogue: entries that are found where they   *)
(* say, and a last block that moves over blocks that are accounted for.    *)
ImplementsCatalogue == Cat!CatalogueSpec
=============================================================================
