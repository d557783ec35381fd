------------------------------ MODULE Ordiknots ------------------------------
(***************************************************************************)
(* The indexer with the decoder inside: process_block calls decode for a   *)
(* detected transaction, decode makes its RPC calls one by one, and        *)
(* meanwhile the node goes on.  What is one step in Indexer, DecodeOk or   *)
(* DecodeErr, is a walk along the chain of transactions here.              *)
(*                                                                         *)
(* pc, cur and faults are ChainDecoder's; ipc, icur and ifaults are what   *)
(* Indexer calls by these names.                                           *)
(***************************************************************************)
EXTENDS ChainDecoder

CONSTANTS FromOptions, NoFrom, NoEntry, MaxCrashes,   (* as in Indexer     *)
          MaxTroubles   (* bound on what goes wrong altogether             *)

VARIABLES
  table, lastBlock, ipc, mode, from, icur, target, lastHeight, todo, cand, shiny,
  warned, skipped, reorged, ifaults, crashes,
             (* the variables of Indexer                                   *)
  unsure     (* history: heads of knotworks that were not all published    *)
             (* when their decode began, or that a failed call or a        *)
             (* reorganisation may have hidden from it (whole is FALSE)    *)

(* What Indexer takes as constants the codec defines. *)
Heads == {Head(k.txs) : k \in Knotworks}

Ix == INSTANCE Indexer WITH
  pc <- ipc, cur <- icur, faults <- ifaults,
  Genuine <- Heads

(* Of the constants of Indexer, those that are constants here too. *)
ASSUME SystemAssumption ==
  /\ NoFrom \notin Nat
  /\ FromOptions \subseteq Nat \cup {NoFrom}
  /\ NoEntry \notin Ix!Entry
  /\ MaxCrashes \in Nat

indexerVars == <<table, lastBlock, ipc, mode, from, icur, target, lastHeight, todo, cand,
                 shiny, warned, skipped, reorged, ifaults, crashes>>
systemVars == <<nodeVars, indexerVars, decoderVars, unsure>>

-----------------------------------------------------------------------------

SystemInit ==
  /\ Ix!Init
  /\ DecoderInit
  /\ start = CHOOSE t \in Detected : TRUE
  /\ unsure = {}

(* The locals of decode are gone when it has returned. *)
WalkOver ==
  /\ pc' = "idle"
  /\ chunks' = <<>> /\ snapshot' = {} /\ height' = 0 /\ last' = 0
  /\ result' = Refused /\ whole' = FALSE
  /\ UNCHANGED <<start, cur, faults>>

(* process_block calls decode for the next detected transaction. *)
DecodeBegin(t) ==
  /\ ipc = "txs" /\ t \in todo
  /\ pc = "idle"
  /\ Begin(t)
  /\ UNCHANGED <<nodeVars, indexerVars, unsure>>

(* decode goes on by one call. *)
DecodeStep == DecoderStep /\ UNCHANGED <<nodeVars, indexerVars, unsure>>

DecodeFault == RpcFault /\ UNCHANGED <<nodeVars, indexerVars, unsure>>

(* Mutant of DecodeReturn: an error ends the processing of the block.      *)
DecodeReturnStrict ==
  /\ pc = "done"
  /\ IF result.ok THEN Ix!DecodeOk(start)
     ELSE /\ ipc' = IF mode = "sync" THEN "dead" ELSE "poll"
          /\ todo' = {}
          /\ UNCHANGED <<nodeVars, table, lastBlock, warned, skipped, reorged>>
          /\ UNCHANGED <<mode, from, icur, target, lastHeight, cand, shiny, ifaults, crashes>>
  /\ unsure' = IF whole THEN unsure ELSE unsure \cup {start}
  /\ WalkOver

(* decode returns: an entry to store, or a warning. *)
DecodeReturn ==
  /\ pc = "done"
  /\ IF result.ok THEN Ix!DecodeOk(start) ELSE Ix!DecodeErr(start)
  /\ unsure' = IF whole THEN unsure ELSE unsure \cup {start}
  /\ WalkOver

(* The steps of the indexer outside decode. *)
OutsideDecode ==
  /\ \/ Ix!LoadStatus \/ Ix!FetchBlock \/ Ix!Store
     \/ Ix!Advance \/ Ix!Final \/ Ix!Poll
  /\ UNCHANGED <<decoderVars, unsure>>

ProgramStep ==
  \/ OutsideDecode
  \/ \E t \in Tx : DecodeBegin(t)
  \/ DecodeStep \/ DecodeReturn

Restart ==
  /\ \E f \in FromOptions : Ix!Start(f)
  /\ UNCHANGED <<decoderVars, unsure>>

SystemFault ==
  /\ Ix!BlockFault \/ Ix!StatusFault
  /\ UNCHANGED <<decoderVars, unsure>>

SystemCrash == Ix!Crash /\ WalkOver /\ UNCHANGED unsure

SystemNode == Ix!NodeStep /\ NodeMoves /\ UNCHANGED unsure

(* Failed calls, crashes and reorganisations. *)
Troubles == faults + ifaults + crashes + reorgs

SystemNext ==
  /\ \/ ProgramStep
     \/ Restart
     \/ DecodeFault \/ SystemFault \/ SystemCrash
     \/ SystemNode
  /\ Troubles' <= MaxTroubles

(* As in Indexer: the program is one thread that goes on. *)
SystemSpec ==
  /\ SystemInit /\ [][SystemNext]_systemVars
  /\ WF_systemVars(ProgramStep)
  /\ WF_systemVars(Restart)

-----------------------------------------------------------------------------

(* Types, and that a decode is under way only while a block is processed.  *)
SystemTypeOK ==
  /\ Ix!TypeOK /\ TypeOK
  /\ pc # "idle" => ipc = "txs" /\ start \in todo

(* Decoding in many calls, with the node moving between them, is as good   *)
(* as Indexer's single step, and ends: every behaviour is one of Indexer,  *)
(* fairness included.                                                      *)
ImplementsIndexer == Ix!FairSpec

(* Every block is indexed in the end although decode walks through a node  *)
(* that moves, but for an indexer that an error has ended.                 *)
CatchesUp == Ix!CatchesUp

(* Nothing is indexed that is not all there: an entry's knotwork was       *)
(* published to its last chunk.                                            *)
IndexedIsPublished == \A t \in Tx : Ix!Indexed(t) => Published(t)

(* A reorganisation has moved one of the transactions of the knotwork. *)
Disturbed(t) ==
  \E k \in Knotworks : Head(k.txs) = t /\ ToSet(k.txs) \cap reorged # {}

(* No published knotwork is missing: the head in a block that the status   *)
(* claims is indexed if all its chunks were on the node when the indexer   *)
(* came by, wherever they were and went meanwhile - but for what the       *)
(* decoder cannot see: a last output that is spent, a gap beyond the scan, *)
(* a failed call and a reorganisation, which may have closed the gap.      *)
PublishedIsIndexed ==
  \A h \in (1 .. lastBlock) \ skipped :
    \A t \in chain[h].txs \cap Heads :
      \/ Ix!Indexed(t)
      \/ t \in unsure \/ Disturbed(t)
      \/ TailSpent(t) \/ WideGap(t)

-----------------------------------------------------------------------------
(* What the documentation says and the code does not do. *)

(* README: "Scan the entire blockchain to discover all knotworks".  When   *)
(* all chunks of a knotwork are in blocks that the status claims, it is in *)
(* the index.                                                              *)
AllKnotworksFound ==
  \A k \in Knotworks :
    (\A t \in ToSet(k.txs) : \E h \in (1 .. lastBlock) \ skipped : t \in chain[h].txs)
      => Ix!Indexed(Head(k.txs))
=============================================================================
