---------------------------- MODULE ChainDecoder ----------------------------
(***************************************************************************)
(* decode::decode of the chained OP_RETURN technique as a process that     *)
(* makes one RPC call at a time, against a node whose mempool and chain    *)
(* move between the calls.  follow_chain walks from transaction to         *)
(* transaction; find_continuation_output looks for the spender of output 1 *)
(* in the mempool first and then, through the transaction's own block, in  *)
(* the blocks from there on.                                               *)
(***************************************************************************)
EXTENDS BitcoinNode, ChunkCodec

CONSTANTS
  Knotworks,           (* the encoded files: [txs |-> the transactions in  *)
                       (* chain order, file |-> the bytes encoded]         *)
  MAX_BLOCKS_TO_SCAN,  (* how far past its own block a spender is sought   *)
  MaxFaults            (* bound on the RPC calls that fail                 *)

(* The position of the continuation output. *)
CONTINUATION_OUTPUT_INDEX == 1

(* The outputs create_first_tx and create_next_tx give a transaction.  The *)
(* first has change at the end; a later one always gets output 1, the last *)
(* of the chain too.                                                       *)
FirstOutputs(hasContinuation) ==
  IF hasContinuation THEN <<"op_return", "continuation", "change">>
                     ELSE <<"op_return", "change">>
NextOutputs == <<"op_return", "continuation">>

(* encode cuts the file into the chunks and gives each a transaction; the  *)
(* transaction after the first spends the output 1 of the one before.      *)
EncodedAs(k) ==
  /\ k.file \in Seq(0 .. 255) /\ ~TooLarge(Len(k.file))
  /\ k.txs \in Seq(Tx) /\ Len(k.txs) = Len(ChunkData(k.file))
  /\ \A i \in 2 .. Len(k.txs) :
       Inputs[k.txs[i]] = {<<k.txs[i - 1], CONTINUATION_OUTPUT_INDEX>>}

(* A transaction carries one chunk, of one file: encode never makes the    *)
(* same transaction twice, since each spends outputs of its own.           *)
OneChunkEach ==
  \A k, l \in Knotworks : \A i \in DOMAIN k.txs, j \in DOMAIN l.txs :
    k.txs[i] = l.txs[j] => k = l /\ i = j

ASSUME DecoderAssumption ==
  /\ \A k \in Knotworks : EncodedAs(k)
  /\ OneChunkEach
  /\ MAX_BLOCKS_TO_SCAN \in Nat
  /\ MaxFaults \in Nat

EncodedTx == UNION {ToSet(k.txs) : k \in Knotworks}

(* The OP_RETURN script of a transaction, <<>> if it has none. *)
Script == [t \in Tx |->
  IF t \in EncodedTx
  THEN LET k == CHOOSE k \in Knotworks : t \in ToSet(k.txs)
           i == CHOOSE i \in DOMAIN k.txs : k.txs[i] = t
       IN OpReturnScript(EncodeChunk(ChunkData(k.file)[i]))
  ELSE <<>>]

(* Its outputs, if it carries a chunk. *)
Outputs == [t \in EncodedTx |->
  LET k == CHOOSE k \in Knotworks : t \in ToSet(k.txs)
  IN IF t = Head(k.txs) THEN FirstOutputs(Len(k.txs) > 1) ELSE NextOutputs]

(* What extract_chunk_from_tx makes of it. *)
ChunkIn == [t \in Tx |-> ExtractChunk(Script[t])]

(* Every caller of decode has detected the technique before. *)
Detected == {t \in Tx : Detect(Script[t])}

VARIABLES
  pc,        (* the RPC call the decoder makes next, "idle" or "done"      *)
  start,     (* the txid decode was called with                            *)
  cur,       (* current_txid of follow_chain                               *)
  chunks,    (* the chunks collected so far                                *)
  snapshot,  (* the answer of get_raw_mempool                              *)
  height,    (* the next height to scan                                    *)
  last,      (* the last height to scan                                    *)
  result,    (* what decode returned                                       *)
  faults,    (* failed RPC calls                                           *)
  whole      (* history: the file was published when the decode began, no  *)
             (* RPC call of the decode has failed, and no reorganisation   *)
             (* has come between its readings of mempool and blocks        *)

decoderVars == <<pc, start, cur, chunks, snapshot, height, last, result, faults, whole>>
vars == <<nodeVars, decoderVars>>

Working == {"fetch", "mempool", "scan_mempool", "info", "count", "scan_blocks"}

HeightOf(t) == CHOOSE h \in DOMAIN chain : t \in chain[h].txs
Continuation == <<cur, CONTINUATION_OUTPUT_INDEX>>
HasOutput1(t) == Len(Outputs[t]) >= 2 /\ Outputs[t][2] # "op_return"

(* All the transactions of the knotwork that t heads are known. *)
Published(t) == \E k \in Knotworks : Head(k.txs) = t /\ ToSet(k.txs) \subseteq Known

-----------------------------------------------------------------------------

Return(r) ==
  /\ pc' = "done"
  /\ result' = r

(* follow_chain has come to its end: decode puts the chunks together. *)
EndOfChain(collected) == Return(Assemble(collected))

Begin(t) ==
  /\ pc \notin Working
  /\ pc' = "fetch"
  /\ start' = t
  /\ cur' = t
  /\ chunks' = <<>>
  /\ snapshot' = {}
  /\ height' = 0
  /\ last' = 0
  /\ result' = Refused
  /\ whole' = Published(t)
  /\ UNCHANGED faults

(* get_raw_transaction, extract_chunk_from_tx, and the test for an output  *)
(* that could be spent by a continuation.                                  *)
FetchTx ==
  /\ pc = "fetch"
  /\ IF cur \notin Known \/ ChunkIn[cur] = NoChunk
     THEN Return(Refused) /\ UNCHANGED chunks
     ELSE /\ chunks' = Append(chunks, ChunkIn[cur])
          /\ IF HasOutput1(cur) THEN pc' = "mempool" /\ UNCHANGED result
                                ELSE EndOfChain(chunks')
  /\ UNCHANGED <<start, cur, snapshot, height, last, faults, whole>>

GetRawMempool ==
  /\ pc = "mempool"
  /\ pc' = "scan_mempool"
  /\ snapshot' = mempool
  /\ UNCHANGED <<start, cur, chunks, height, last, result, faults, whole>>

(* The spender has been found: the loop of follow_chain goes on with it. *)
FollowTo(t) ==
  /\ cur' = t
  /\ pc' = "fetch"
  /\ UNCHANGED result

(* Every transaction of the snapshot is fetched; one that the node no      *)
(* longer knows is passed over.                                            *)
ScanMempool ==
  /\ pc = "scan_mempool"
  /\ LET spenders == SpendersIn(snapshot \cap Known, Continuation)
     IN IF spenders # {} THEN \E t \in spenders : FollowTo(t)
        ELSE pc' = "info" /\ UNCHANGED <<cur, result>>
  /\ UNCHANGED <<start, chunks, snapshot, height, last, faults, whole>>

(* Mutant of GetTransactionInfo: the scan begins after the block. *)
GetTransactionInfoAfter ==
  /\ pc = "info"
  /\ IF cur \notin Known THEN Return(Refused) /\ UNCHANGED height
     ELSE IF cur \in mempool THEN EndOfChain(chunks) /\ UNCHANGED height
     ELSE height' = HeightOf(cur) + 1 /\ pc' = "count" /\ UNCHANGED result
  /\ UNCHANGED <<start, cur, chunks, snapshot, last, faults, whole>>

(* get_raw_transaction_info and get_block_header_info: an unconfirmed      *)
(* transaction whose spender is not in the mempool ends the chain.  The    *)
(* second call depends only on the block hash that the first returned, so  *)
(* nothing can come between them that matters.                             *)
GetTransactionInfo ==
  /\ pc = "info"
  /\ IF cur \notin Known THEN Return(Refused) /\ UNCHANGED height
     ELSE IF cur \in mempool THEN EndOfChain(chunks) /\ UNCHANGED height
     ELSE height' = HeightOf(cur) /\ pc' = "count" /\ UNCHANGED result
  /\ UNCHANGED <<start, cur, chunks, snapshot, last, faults, whole>>

(* Mutant of GetBlockCount: the scan is not cut off at the tip. *)
GetBlockCountUncapped ==
  /\ pc = "count"
  /\ pc' = "scan_blocks"
  /\ last' = height + MAX_BLOCKS_TO_SCAN
  /\ UNCHANGED <<start, cur, chunks, snapshot, height, result, faults, whole>>

(* get_block_count: the last height to scan, which the chain must have. *)
GetBlockCount ==
  /\ pc = "count"
  /\ pc' = "scan_blocks"
  /\ last' = Least(Len(chain), height + MAX_BLOCKS_TO_SCAN)
  /\ UNCHANGED <<start, cur, chunks, snapshot, height, result, faults, whole>>

(* Mutant of ScanBlock: the height is not counted up. *)
ScanBlockAgain ==
  /\ pc = "scan_blocks"
  /\ IF height > last THEN EndOfChain(chunks) /\ UNCHANGED cur
     ELSE LET spenders == SpendersIn(chain[height].txs, Continuation)
          IN IF spenders # {} THEN \E t \in spenders : FollowTo(t)
             ELSE UNCHANGED <<pc, cur, result>>
  /\ UNCHANGED <<height, start, chunks, snapshot, last, faults, whole>>

(* get_block_hash and get_block for one height of the range; again the     *)
(* block is fixed by the first call.                                       *)
ScanBlock ==
  /\ pc = "scan_blocks"
  /\ IF height > last THEN EndOfChain(chunks) /\ UNCHANGED <<cur, height>>
     ELSE LET spenders == SpendersIn(chain[height].txs, Continuation)
          IN IF spenders # {} THEN (\E t \in spenders : FollowTo(t)) /\ UNCHANGED height
             ELSE height' = height + 1 /\ UNCHANGED <<pc, cur, result>>
  /\ UNCHANGED <<start, chunks, snapshot, last, faults, whole>>

(* A call fails and decode returns the error; a failure while the mempool  *)
(* is scanned only makes it pass over a transaction.                       *)
RpcFault ==
  /\ pc \in Working
  /\ faults < MaxFaults
  /\ faults' = faults + 1
  /\ whole' = FALSE
  /\ IF pc = "scan_mempool" THEN pc' = "info" /\ UNCHANGED result
                            ELSE Return(Refused)
  /\ UNCHANGED <<start, cur, chunks, snapshot, height, last>>

DecoderStep ==
  \/ FetchTx \/ GetRawMempool \/ ScanMempool
  \/ GetTransactionInfo \/ GetBlockCount \/ ScanBlock

DecoderNext ==
  \/ \E t \in Detected : Begin(t)
  \/ DecoderStep
  \/ RpcFault

DecoderInit ==
  /\ pc = "idle"
  /\ start \in Detected
  /\ cur = start
  /\ chunks = <<>> /\ snapshot = {} /\ height = 0 /\ last = 0
  /\ result = Refused /\ faults = 0 /\ whole = FALSE

Init == NodeInit /\ DecoderInit

(* What a step of the node means to the walk: a reorganisation after the   *)
(* mempool was read may have hidden a transaction.                         *)
NodeMoves ==
  /\ whole' = (whole /\ (reorgs' = reorgs \/ pc \in {"fetch", "mempool"}))
  /\ UNCHANGED <<pc, start, cur, chunks, snapshot, height, last, result, faults>>

Next ==
  \/ DecoderNext /\ UNCHANGED nodeVars
  \/ NodeNext /\ NodeMoves

Spec == Init /\ [][Next]_vars

(* The decoder is a loop in one thread: it keeps running.  The node owes   *)
(* it nothing but answers, which are part of the decoder's steps.          *)
FairSpec == Spec /\ WF_vars(DecoderStep /\ UNCHANGED nodeVars)

-----------------------------------------------------------------------------

(* Types, and that the scan only asks for heights the node has. *)
TypeOK ==
  /\ NodeTypeOK
  /\ pc \in Working \cup {"idle", "done"}
  /\ start \in Detected /\ cur \in Tx
  /\ snapshot \subseteq Tx
  /\ height \in Nat /\ last \in Nat
  /\ pc = "scan_blocks" => height \in 1 .. last + 1 /\ last <= Len(chain)
  /\ faults \in 0 .. MaxFaults
  /\ result.ok \in BOOLEAN /\ whole \in BOOLEAN

(* decode never returns anything but the file that was encoded, all of     *)
(* whose transactions are on the node, however the chain and the mempool   *)
(* moved while it walked and whatever calls failed.                        *)
OkIsTheFile ==
  pc = "done" /\ result.ok =>
    \E k \in Knotworks : /\ Head(k.txs) = start
                         /\ result.data = k.file
                         /\ ToSet(k.txs) \subseteq Known

(* Something spends output 1 of the last transaction of the knotwork. *)
TailSpent(t) ==
  \E k \in Knotworks :
    /\ Head(k.txs) = t
    /\ SpendersIn(Known, <<Last(k.txs), CONTINUATION_OUTPUT_INDEX>>) # {}

(* Two transactions of the knotwork are further apart than the scan goes. *)
WideGap(t) ==
  \E k \in Knotworks : \E i \in 2 .. Len(k.txs) :
    /\ Head(k.txs) = t
    /\ {k.txs[i - 1], k.txs[i]} \subseteq Confirmed
    /\ HeightOf(k.txs[i]) > HeightOf(k.txs[i - 1]) + MAX_BLOCKS_TO_SCAN

(* A published knotwork whose last output is unspent decodes, even while   *)
(* its transactions move from the mempool into blocks under the decoder:   *)
(* looking in the mempool before the blocks misses none of them.  Only a   *)
(* reorganisation between the two may hide one: it can put a transaction   *)
(* back into the mempool after the mempool has been read.                  *)
PublishedDecodes ==
  pc = "done" /\ whole /\ ~WideGap(start) /\ ~TailSpent(start) => result.ok

(* The same without the condition on the last output, which by the diagram *)
(* of the README ("TX3 (spends vout1) -> [OP_RETURN chunk 2]") does not    *)
(* exist.                                                                  *)
PublishedDecodesWhateverIsSpent ==
  pc = "done" /\ whole /\ ~WideGap(start) => result.ok

(* Every decode ends, though the chain may grow while it scans. *)
DecodeEnds == pc \in Working ~> pc = "done"
=============================================================================
