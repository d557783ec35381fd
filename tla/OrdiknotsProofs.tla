---------------------------- MODULE OrdiknotsProofs ----------------------------
(***************************************************************************)
(* Proofs about the decoder and about the whole system, for every set of   *)
(* files, size of a chunk, height of the chain, bound, history of the node *)
(* and sequence of failed calls.  First the walk of follow_chain over a    *)
(* ledger that moves under it, from what FormatsProofs shows of the        *)
(* chunks.  Then the indexer with the decoder inside: what IndexerProofs   *)
(* shows of the indexer alone holds of it, because each of its steps is a  *)
(* step of Indexer or none, and what is shown of a walk holds of every     *)
(* walk that the indexer begins.                                           *)
(***************************************************************************)
EXTENDS Ordiknots, FormatsProofs, NodeProofs

-----------------------------------------------------------------------------
(* Types *)

ChunkValue == {ChunkIn[t] : t \in Tx}

(* The types, and what GetBlockCount needs: the height of a block.         *)
Typed ==
  /\ TypeOK
  /\ chunks \in Seq(ChunkValue)
  /\ pc = "count" => height \in 1 .. Len(chain)

LEMMA Answers == Refused.ok = FALSE /\ \A d : Success(d).ok = TRUE /\ Success(d).data = d
  BY DEF Refused, Success

LEMMA Assembled ==
  ASSUME NEW chs
  PROVE  Assemble(chs).ok \in BOOLEAN
<1> DEFINE r == Assemble(chs)
<1>1. r = Refused \/ \E d : r = Success(d)
  BY Zenon DEF Assemble
<1> HIDE DEF r
<1>2. r.ok \in BOOLEAN
  BY <1>1, Answers
<1> QED
  BY <1>2 DEF r

LEMMA HeightFound ==
  ASSUME NEW t \in Confirmed
  PROVE  HeightOf(t) \in DOMAIN chain /\ t \in chain[HeightOf(t)].txs
  BY DEF Confirmed, HeightOf

LEMMA DetectedInTx == Detected \subseteq Tx
  BY DEF Detected

LEMMA InitTyped ==
  ASSUME NodeInit, DecoderInit
  PROVE  Typed
<1>1. NodeTypeOK
  BY InitLedger
<1>2. chunks \in Seq(ChunkValue)
  BY DEF DecoderInit
<1>3. 0 \in 0 .. MaxFaults
  BY DecoderAssumption
<1> QED
  BY <1>1, <1>2, <1>3, DetectedInTx, Answers
     DEF DecoderInit, Typed, TypeOK, Working

LEMMA BeginTyped ==
  ASSUME Typed, NEW t \in Detected, Begin(t), UNCHANGED nodeVars
  PROVE  Typed'
<1>1. NodeTypeOK'
  BY DEF Typed, TypeOK, NodeTypeOK, nodeVars
<1>2. chunks' \in Seq(ChunkValue)
  BY DEF Begin
<1>3. Published(t) \in BOOLEAN
  BY DEF Published
<1> QED
  BY <1>1, <1>2, <1>3, DetectedInTx, Answers DEF Begin, Typed, TypeOK, Working

LEMMA StepTyped ==
  ASSUME Typed, DecoderStep, UNCHANGED nodeVars
  PROVE  Typed'
<1> USE DEF Typed, TypeOK, Working
<1>1. NodeTypeOK' /\ chain' = chain /\ mempool' = mempool /\ Len(chain) \in Nat
  BY DEF NodeTypeOK, nodeVars
<1>2. CASE FetchTx
  <2>1. CASE cur \notin Known \/ ChunkIn[cur] = NoChunk
    BY <1>1, <1>2, <2>1, Answers DEF FetchTx, Return
  <2>2. CASE ~(cur \notin Known \/ ChunkIn[cur] = NoChunk)
    <3>1. ChunkIn[cur] \in ChunkValue /\ chunks' = Append(chunks, ChunkIn[cur])
      BY <1>2, <2>2 DEF FetchTx, ChunkValue
    <3>2. chunks' \in Seq(ChunkValue)
      BY <3>1
    <3>3. pc' \in {"mempool", "done"} /\ result'.ok \in BOOLEAN
      BY <1>2, <2>2, Assembled DEF FetchTx, EndOfChain, Return
    <3> QED
      BY <1>1, <1>2, <3>2, <3>3 DEF FetchTx
  <2> QED
    BY <2>1, <2>2
<1>3. CASE GetRawMempool
  BY <1>1, <1>3 DEF GetRawMempool, NodeTypeOK
<1>4. CASE ScanMempool
  <2>1. snapshot \cap Known \subseteq Tx
    OBVIOUS
  <2>2. pc' \in {"info", "fetch"} /\ cur' \in Tx /\ UNCHANGED result
    BY <1>4, <2>1 DEF ScanMempool, FollowTo, SpendersIn
  <2> QED
    BY <1>1, <1>4, <2>2 DEF ScanMempool
<1>5. CASE GetTransactionInfo
  <2>1. CASE cur \notin Known \/ cur \in mempool
    BY <1>1, <1>5, <2>1, Assembled, Answers DEF GetTransactionInfo, EndOfChain, Return
  <2>2. CASE ~(cur \notin Known \/ cur \in mempool)
    <3>1. HeightOf(cur) \in 1 .. Len(chain)
      BY <1>1, <2>2, HeightFound DEF Known, NodeTypeOK
    <3> QED
      BY <1>1, <1>5, <2>2, <3>1 DEF GetTransactionInfo
  <2> QED
    BY <2>1, <2>2
<1>6. CASE GetBlockCount
  <2>1. /\ last' = Least(Len(chain), height + MAX_BLOCKS_TO_SCAN)
        /\ height' = height /\ height \in 1 .. Len(chain) /\ pc' = "scan_blocks"
    BY <1>6 DEF GetBlockCount
  <2>2. last' \in Nat /\ last' <= Len(chain) /\ height' \in 1 .. last' + 1
    BY <1>1, <2>1, DecoderAssumption DEF Least
  <2> QED
    BY <1>1, <1>6, <2>2 DEF GetBlockCount
<1>7. CASE ScanBlock
  <2>1. CASE height > last
    BY <1>1, <1>7, <2>1, Assembled DEF ScanBlock, EndOfChain, Return
  <2>2. CASE ~(height > last)
    <3>1. height \in 1 .. Len(chain) /\ height \in 1 .. last
      BY <1>1, <1>7, <2>2 DEF ScanBlock
    <3>2. chain[height].txs \subseteq Tx
      BY <3>1, BlockTypes
    <3>3. CASE SpendersIn(chain[height].txs, Continuation) # {}
      BY <1>1, <1>7, <2>2, <3>2, <3>3 DEF ScanBlock, FollowTo, SpendersIn
    <3>4. CASE ~(SpendersIn(chain[height].txs, Continuation) # {})
      BY <1>1, <1>7, <2>2, <3>1, <3>4 DEF ScanBlock
    <3> QED
      BY <3>3, <3>4
  <2> QED
    BY <2>1, <2>2
<1> QED
  BY <1>2, <1>3, <1>4, <1>5, <1>6, <1>7 DEF DecoderStep

LEMMA FaultTyped ==
  ASSUME Typed, RpcFault, UNCHANGED nodeVars
  PROVE  Typed'
<1>1. NodeTypeOK' /\ chain' = chain
  BY DEF NodeTypeOK, nodeVars, Typed, TypeOK
<1>2. faults' \in 0 .. MaxFaults
  BY DecoderAssumption DEF RpcFault, Typed, TypeOK
<1> QED
  BY <1>1, <1>2, Answers DEF RpcFault, Return, Typed, TypeOK, Working

LEMMA NodeTyped ==
  ASSUME Typed, NodeNext, NodeMoves
  PROVE  Typed'
<1>1. NodeTypeOK' /\ Len(chain') \in Nat /\ Len(chain') >= Len(chain) /\ Len(chain) \in Nat
  BY NodeTypes DEF Typed, TypeOK, NodeTypeOK
<1>2. whole' \in BOOLEAN
  BY DEF NodeMoves, Typed, TypeOK
<1> QED
  BY <1>1, <1>2 DEF NodeMoves, Typed, TypeOK, Working

-----------------------------------------------------------------------------
(* What the transactions carry *)

LEMMA Knots ==
  ASSUME NEW k \in Knotworks
  PROVE  /\ Fits(k.file)
         /\ k.txs \in Seq(Tx) /\ Len(k.txs) = Count(k.file)
         /\ Len(k.txs) \in Nat /\ Len(k.txs) >= 1
         /\ Head(k.txs) = k.txs[1]
         /\ \A i \in 2 .. Len(k.txs) :
              Inputs[k.txs[i]] = {<<k.txs[i - 1], CONTINUATION_OUTPUT_INDEX>>}
<1>1. EncodedAs(k)
  BY DecoderAssumption
<1>2. Fits(k.file) /\ k.txs \in Seq(Tx) /\ Len(k.txs) = Len(ChunkData(k.file))
  <2>1. k.file \in Seq(0 .. 255) /\ ~TooLarge(Len(k.file)) /\ k.txs \in Seq(Tx)
        /\ Len(k.txs) = Len(ChunkData(k.file))
    BY <1>1, Zenon DEF EncodedAs
  <2>2. 0 .. 255 \subseteq Bytes
    BY DEF Bytes
  <2>3. k.file \in Seq(Bytes)
    BY <2>1, <2>2, SeqMonotonic, Zenon
  <2> QED
    BY <2>1, <2>3, Zenon DEF Fits
<1>3. Len(k.txs) = Count(k.file) /\ Count(k.file) \in 1 .. 255
  BY <1>2, Chunks, CountBounds
<1>4. Len(k.txs) \in Nat /\ Len(k.txs) >= 1
  <2>1. \A n \in 1 .. 255 : n \in Nat /\ n >= 1
    OBVIOUS
  <2> QED
    BY <1>3, <2>1
<1>5. Head(k.txs) = k.txs[1]
  BY <1>2, <1>4
<1> QED
  BY <1>1, <1>2, <1>3, <1>4, <1>5 DEF EncodedAs

(* A transaction of a knotwork carries its chunk, and is detected if it is *)
(* the head.                                                               *)
LEMMA Carries ==
  ASSUME NEW k \in Knotworks, NEW i \in 1 .. Len(k.txs), NEW t, t = k.txs[i]
  PROVE  /\ t \in Tx /\ t \in EncodedTx
         /\ Script[t] = OpReturnScript(EncodeChunk(ChunkData(k.file)[i]))
         /\ ChunkIn[t] = ChunkData(k.file)[i]
         /\ ChunkIn[t].index = i - 1 /\ ChunkIn[t].total_chunks = Len(k.txs)
         /\ ChunkIn[t].file_size = IF i = 1 THEN Len(k.file) ELSE NoSize
         /\ ChunkIn[t] # NoChunk
         /\ t \in Detected <=> i = 1
<1>1. /\ Fits(k.file) /\ k.txs \in Seq(Tx) /\ Len(k.txs) = Count(k.file)
      /\ Len(k.txs) \in Nat
  BY Knots
<1>2. t \in Tx /\ DOMAIN k.txs = 1 .. Len(k.txs) /\ i \in 1 .. Count(k.file)
  BY <1>1
<1>3. t \in ToSet(k.txs)
  BY <1>2 DEF ToSet
<1>4. t \in EncodedTx
  BY <1>3 DEF EncodedTx
<1>5. \A l \in Knotworks : t \in ToSet(l.txs) => l = k
  <2> SUFFICES ASSUME NEW l \in Knotworks, NEW j \in DOMAIN l.txs, t = l.txs[j]
               PROVE  l = k
    BY DEF ToSet
  <2> QED
    BY <1>2, DecoderAssumption DEF OneChunkEach
<1>6. (CHOOSE l \in Knotworks : t \in ToSet(l.txs)) = k
  BY <1>3, <1>5
<1>7. (CHOOSE j \in DOMAIN k.txs : k.txs[j] = t) = i
  BY <1>2, DecoderAssumption DEF OneChunkEach
<1> DEFINE c == ChunkData(k.file)[i]
<1> HIDE DEF c
<1>8. Script[t] = OpReturnScript(EncodeChunk(c))
  BY <1>2, <1>4, <1>6, <1>7, Zenon DEF Script, c
<1>9. /\ ExtractChunk(OpReturnScript(EncodeChunk(c))) = c
      /\ Detect(OpReturnScript(EncodeChunk(c))) <=> i = 1
      /\ c.index = i - 1 /\ c.total_chunks = Count(k.file)
      /\ c.file_size = IF i = 1 THEN Len(k.file) ELSE NoSize
  BY <1>1, <1>2, FileChunks DEF c
<1>10. ChunkIn[t] = c
  BY <1>2, <1>8, <1>9 DEF ChunkIn
<1>11. c # NoChunk
  <2>1. NoChunk.index = -1
    BY DEF NoChunk
  <2>2. i - 1 # -1
    BY <1>1
  <2> QED
    BY <1>9, <2>1, <2>2
<1>12. t \in Detected <=> i = 1
  BY <1>2, <1>8, <1>9 DEF Detected
<1> QED
  BY <1>1, <1>2, <1>4, <1>8, <1>9, <1>10, <1>11, <1>12 DEF c

LEMMA CarriesNothing ==
  ASSUME NEW t \in Tx, t \notin EncodedTx
  PROVE  ChunkIn[t] = NoChunk /\ t \notin Detected
<1>1. Script[t] = <<>>
  BY DEF Script
<1>2. ExtractOpReturnData(<<>>) = Refused
  BY DEF ExtractOpReturnData
<1>3. ~Refused.ok
  BY Answers
<1>4. ExtractChunk(<<>>) = NoChunk /\ ~Detect(<<>>)
  BY <1>2, <1>3, Zenon DEF ExtractChunk, Detect
<1> QED
  BY <1>1, <1>4 DEF ChunkIn, Detected

(* A transaction with a chunk is somewhere in a knotwork. *)
LEMMA Placed ==
  ASSUME NEW t \in Tx, ChunkIn[t] # NoChunk \/ t \in Detected
  PROVE  \E k \in Knotworks : \E i \in 1 .. Len(k.txs) : t = k.txs[i]
<1>1. t \in EncodedTx
  BY CarriesNothing
<1>2. PICK k \in Knotworks : t \in ToSet(k.txs)
  BY <1>1 DEF EncodedTx
<1>3. DOMAIN k.txs = 1 .. Len(k.txs)
  BY Knots
<1> QED
  BY <1>2, <1>3 DEF ToSet

(* The technique is detected at the heads, and nowhere else. *)
LEMMA HeadsDetected ==
  /\ \A t \in Detected : \E k \in Knotworks : Head(k.txs) = t
  /\ \A k \in Knotworks : Head(k.txs) \in Detected
<1>1. ASSUME NEW t \in Detected
      PROVE  \E k \in Knotworks : Head(k.txs) = t
  <2>1. t \in Tx
    BY DetectedInTx
  <2>2. PICK k \in Knotworks : \E i \in 1 .. Len(k.txs) : t = k.txs[i]
    BY <2>1, Placed
  <2>3. PICK i \in 1 .. Len(k.txs) : t = k.txs[i]
    BY <2>2
  <2>4. i = 1
    BY <2>3, Carries
  <2> QED
    BY <2>3, <2>4, Knots
<1>2. ASSUME NEW k \in Knotworks
      PROVE  Head(k.txs) \in Detected
  <2>1. 1 \in 1 .. Len(k.txs) /\ Head(k.txs) = k.txs[1]
    BY Knots
  <2> QED
    BY <2>1, Carries
<1> QED
  BY <1>1, <1>2

LEMMA OneHead ==
  ASSUME NEW k \in Knotworks, NEW l \in Knotworks, Head(k.txs) = Head(l.txs)
  PROVE  k = l
<1>1. /\ 1 \in DOMAIN k.txs /\ 1 \in DOMAIN l.txs
      /\ k.txs[1] = l.txs[1]
  BY Knots
<1> QED
  BY <1>1, DecoderAssumption DEF OneChunkEach

(* What spends the output 1 of a transaction of a knotwork is the next of  *)
(* its transactions, or carries no chunk, or is the head of another.       *)
LEMMA Continues ==
  ASSUME NEW k \in Knotworks, NEW m \in 1 .. Len(k.txs), NEW t \in Tx,
         <<k.txs[m], CONTINUATION_OUTPUT_INDEX>> \in Inputs[t], ChunkIn[t] # NoChunk
  PROVE  \/ m < Len(k.txs) /\ t = k.txs[m + 1]
         \/ ChunkIn[t].index = 0
<1>1. PICK l \in Knotworks : \E i \in 1 .. Len(l.txs) : t = l.txs[i]
  BY Placed
<1>2. PICK i \in 1 .. Len(l.txs) : t = l.txs[i]
  BY <1>1
<1>3. Len(k.txs) \in Nat /\ Len(l.txs) \in Nat
  BY Knots
<1>4. CASE i = 1
  <2>1. ChunkIn[t].index = i - 1
    BY <1>2, Carries
  <2> QED
    BY <1>4, <2>1
<1>5. CASE i # 1
  <2>1. i \in 2 .. Len(l.txs) /\ i - 1 \in 1 .. Len(l.txs)
    BY <1>3, <1>5
  <2>2. Inputs[t] = {<<l.txs[i - 1], CONTINUATION_OUTPUT_INDEX>>}
    BY <1>2, <2>1, Knots
  <2>3. k.txs[m] = l.txs[i - 1]
    BY <2>2
  <2>4. DOMAIN k.txs = 1 .. Len(k.txs) /\ DOMAIN l.txs = 1 .. Len(l.txs)
    BY Knots
  <2>5. k = l /\ m = i - 1
    BY <2>1, <2>3, <2>4, DecoderAssumption DEF OneChunkEach
  <2> QED
    BY <1>2, <1>3, <2>1, <2>5
<1> QED
  BY <1>4, <1>5

-----------------------------------------------------------------------------
(* The walk *)

(* The chunks collected are the first of the knotwork, and the walk is at  *)
(* the last of their transactions, or at one that spends its output 1.     *)
OnTrack(k) ==
  /\ Len(chunks) <= Len(k.txs)
  /\ \A i \in 1 .. Len(chunks) : chunks[i] = ChunkIn[k.txs[i]] /\ k.txs[i] \in Known
  /\ pc = "fetch" =>
       IF Len(chunks) = 0 THEN cur = k.txs[1]
       ELSE <<k.txs[Len(chunks)], CONTINUATION_OUTPUT_INDEX>> \in Inputs[cur]
  /\ pc \in Working \ {"fetch"} => Len(chunks) >= 1 /\ cur = k.txs[Len(chunks)]

(* The walk has gone over into another knotwork, and has two heads.        *)
Strayed ==
  /\ Len(chunks) >= 2 /\ chunks[1].index = 0
  /\ \E j \in 2 .. Len(chunks) : chunks[j].index = 0

Walked ==
  pc \in Working => \E k \in Knotworks : Head(k.txs) = start /\ (OnTrack(k) \/ Strayed)

(* What decode makes of the chunks that a walk has collected. *)
LEMMA Outcome ==
  ASSUME NEW k \in Knotworks, NEW chs \in Seq(ChunkValue),
         Len(chs) <= Len(k.txs),
         \A i \in 1 .. Len(chs) : chs[i] = ChunkIn[k.txs[i]]
  PROVE  /\ Assemble(chs).ok => Assemble(chs).data = k.file /\ Len(chs) = Len(k.txs)
         /\ Len(chs) = Len(k.txs) => Assemble(chs).ok
<1>1. /\ Fits(k.file) /\ Len(k.txs) = Count(k.file)
      /\ Len(k.txs) \in Nat /\ Len(k.txs) >= 1 /\ Len(chs) \in Nat
  BY Knots
<1>2. CASE Len(chs) = Len(k.txs)
  <2>1. \A i \in 1 .. Count(k.file) : chs[i] = ChunkData(k.file)[i]
    BY <1>1, <1>2, Carries
  <2>2. Len(chs) = Count(k.file)
    BY <1>1, <1>2
  <2>3. Assemble(chs) = Success(k.file)
    BY <1>1, <2>1, <2>2, AssembleWhole
  <2> QED
    BY <1>2, <2>3, Answers
<1>3. CASE Len(chs) # Len(k.txs)
  <2>1. Len(chs) = 0 \/ Len(chs) # chs[1].total_chunks
    <3>1. ASSUME Len(chs) # 0
          PROVE  Len(chs) # chs[1].total_chunks
      <4>1. 1 \in 1 .. Len(chs) /\ 1 \in 1 .. Len(k.txs)
        BY <1>1, <3>1
      <4>2. chs[1] = ChunkIn[k.txs[1]] /\ ChunkIn[k.txs[1]].total_chunks = Len(k.txs)
        BY <4>1, Carries
      <4> QED
        BY <1>3, <4>2
    <3> QED
      BY <3>1
  <2>2. Assemble(chs) = Refused
    BY <2>1, AssemblePart
  <2> QED
    BY <1>3, <2>2, Answers
<1> QED
  BY <1>2, <1>3

LEMMA TwoHeadsFail ==
  ASSUME NEW chs \in Seq(ChunkValue), Len(chs) >= 2, chs[1].index = 0,
         \E j \in 2 .. Len(chs) : chs[j].index = 0
  PROVE  Assemble(chs) = Refused
<1>1. PICK j \in 2 .. Len(chs) : chs[j].index = 0
  OBVIOUS
<1>2. Len(chs) \in Nat
  OBVIOUS
<1> QED
  BY <1>1, <1>2, AssembleTwoHeads

LEMMA StrayedFails ==
  ASSUME Strayed, chunks \in Seq(ChunkValue)
  PROVE  ~Assemble(chunks).ok
  BY TwoHeadsFail, Answers DEF Strayed

(* At its end, decode returns the file of the knotwork or an error.        *)
LEMMA EndIsTheFile ==
  ASSUME chunks \in Seq(ChunkValue), pc' = "done", result' = Assemble(chunks),
         start' = start, Known \subseteq Known',
         NEW k \in Knotworks, Head(k.txs) = start, OnTrack(k) \/ Strayed
  PROVE  OkIsTheFile'
<1> SUFFICES ASSUME Assemble(chunks).ok
             PROVE  Assemble(chunks).data = k.file /\ ToSet(k.txs) \subseteq Known'
  BY DEF OkIsTheFile
<1>1. OnTrack(k)
  BY StrayedFails
<1>2. Assemble(chunks).data = k.file /\ Len(chunks) = Len(k.txs)
  BY <1>1, Outcome DEF OnTrack
<1>3. \A i \in 1 .. Len(k.txs) : k.txs[i] \in Known
  BY <1>1, <1>2 DEF OnTrack
<1>4. ToSet(k.txs) \subseteq Known
  BY <1>3, Knots DEF ToSet
<1> QED
  BY <1>2, <1>4

(* FetchTx adds the next chunk of the knotwork, or the head of another.    *)
LEMMA Collects ==
  ASSUME Typed, NEW k \in Knotworks, Head(k.txs) = start, OnTrack(k) \/ Strayed,
         pc = "fetch", cur \in Known, ChunkIn[cur] # NoChunk,
         NEW chs, chs = Append(chunks, ChunkIn[cur])
  PROVE  \/ /\ OnTrack(k)
            /\ Len(chs) = Len(chunks) + 1 /\ Len(chs) <= Len(k.txs)
            /\ cur = k.txs[Len(chs)]
            /\ \A i \in 1 .. Len(chs) : chs[i] = ChunkIn[k.txs[i]] /\ k.txs[i] \in Known
         \/ /\ Len(chs) >= 2 /\ chs[1].index = 0
            /\ \E j \in 2 .. Len(chs) : chs[j].index = 0
<1> DEFINE m == Len(chunks)
<1>1. /\ m \in Nat /\ Len(chs) = m + 1 /\ chs[m + 1] = ChunkIn[cur]
      /\ \A i \in 1 .. m : chs[i] = chunks[i]
  BY DEF Typed
<1>2. Len(k.txs) \in Nat /\ Len(k.txs) >= 1 /\ cur \in Tx
  BY Knots DEF Typed, TypeOK
<1> HIDE DEF m
<1>3. CASE Strayed
  <2>1. m >= 2 /\ chunks[1].index = 0 /\ \E j \in 2 .. m : chunks[j].index = 0
    BY <1>3 DEF Strayed, m
  <2> QED
    BY <1>1, <2>1
<1>4. CASE OnTrack(k)
  <2>1. CASE m = 0
    <3>1. cur = k.txs[1]
      BY <1>4, <2>1 DEF OnTrack, m
    <3> QED
      BY <1>1, <1>2, <1>4, <2>1, <3>1
  <2>2. CASE m # 0
    <3>1. /\ m \in 1 .. Len(k.txs)
          /\ <<k.txs[m], CONTINUATION_OUTPUT_INDEX>> \in Inputs[cur]
          /\ \A i \in 1 .. m : chunks[i] = ChunkIn[k.txs[i]] /\ k.txs[i] \in Known
      BY <1>1, <1>2, <1>4, <2>2 DEF OnTrack, m
    <3>2. CASE m < Len(k.txs) /\ cur = k.txs[m + 1]
      <4>1. \A i \in 1 .. m + 1 : i \in 1 .. m \/ i = m + 1
        BY <1>1
      <4> QED
        BY <1>1, <1>2, <1>4, <3>1, <3>2, <4>1
    <3>3. CASE ChunkIn[cur].index = 0
      <4>1. chunks[1] = ChunkIn[k.txs[1]] /\ ChunkIn[k.txs[1]].index = 1 - 1
        BY <1>1, <1>2, <3>1, Carries
      <4> QED
        BY <1>1, <2>2, <3>1, <3>3, <4>1
    <3> QED
      BY <1>2, <3>1, <3>2, <3>3, Continues
  <2> QED
    BY <2>1, <2>2
<1> QED
  BY <1>3, <1>4

LEMMA BeginWalks ==
  ASSUME NEW t \in Detected, Begin(t)
  PROVE  Walked' /\ OkIsTheFile'
<1>1. PICK k \in Knotworks : Head(k.txs) = t
  BY HeadsDetected
<1>2. Len(k.txs) >= 0 /\ Head(k.txs) = k.txs[1]
  BY <1>1, Knots
<1>3. pc' = "fetch" /\ start' = t /\ cur' = t /\ chunks' = <<>>
  BY DEF Begin
<1>4. OnTrack(k)'
  BY <1>1, <1>2, <1>3 DEF OnTrack, Working
<1> QED
  BY <1>1, <1>3, <1>4 DEF Walked, OkIsTheFile, Working

(* The walk stays on track when the transaction it is at stays.            *)
LEMMA StaysAt ==
  ASSUME NEW k \in Knotworks, OnTrack(k), pc \in Working \ {"fetch"},
         pc' \in Working \ {"fetch"}, cur' = cur, chunks' = chunks, Known \subseteq Known'
  PROVE  OnTrack(k)'
  BY DEF OnTrack, Working

(* It stays on track when it goes on to what spends the continuation.      *)
LEMMA GoesOn ==
  ASSUME NEW k \in Knotworks, OnTrack(k), Typed, pc \in Working \ {"fetch"},
         pc' = "fetch", chunks' = chunks, Known \subseteq Known',
         Continuation \in Inputs[cur']
  PROVE  OnTrack(k)'
<1>1. Len(chunks) \in Nat /\ Len(chunks) >= 1 /\ cur = k.txs[Len(chunks)]
  BY DEF OnTrack, Typed
<1>2. <<k.txs[Len(chunks)], CONTINUATION_OUTPUT_INDEX>> \in Inputs[cur']
  BY <1>1 DEF Continuation
<1> QED
  BY <1>1, <1>2 DEF OnTrack, Working

LEMMA SameStrayed ==
  ASSUME Strayed, chunks' = chunks
  PROVE  Strayed'
  BY DEF Strayed

LEMMA StepWalks ==
  ASSUME Typed, Walked, DecoderStep, UNCHANGED nodeVars
  PROVE  Walked' /\ OkIsTheFile'
<1>1. Known' = Known
  BY DEF nodeVars, Known, Confirmed
<1>2. pc \in Working /\ start' = start /\ chunks \in Seq(ChunkValue)
  BY DEF DecoderStep, FetchTx, GetRawMempool, ScanMempool, GetTransactionInfo,
         GetBlockCount, ScanBlock, Working, Typed
<1>3. PICK k \in Knotworks : Head(k.txs) = start /\ (OnTrack(k) \/ Strayed)
  BY <1>2 DEF Walked
<1>4. ASSUME pc' = "done", result' = Refused
      PROVE  Walked' /\ OkIsTheFile'
  BY <1>4, Answers DEF Walked, OkIsTheFile, Working
<1>5. ASSUME pc' = "done", result' = Assemble(chunks)
      PROVE  Walked' /\ OkIsTheFile'
  <2>1. OkIsTheFile'
    BY <1>1, <1>2, <1>3, <1>5, EndIsTheFile
  <2> QED
    BY <2>1, <1>5 DEF Walked, Working
<1>6. ASSUME pc \in Working \ {"fetch"}, chunks' = chunks,
             \/ pc' \in Working \ {"fetch"} /\ cur' = cur
             \/ pc' = "fetch" /\ Continuation \in Inputs[cur']
      PROVE  Walked' /\ OkIsTheFile'
  <2>1. OnTrack(k)' \/ Strayed'
    BY <1>1, <1>3, <1>6, StaysAt, GoesOn, SameStrayed
  <2>2. pc' \in Working
    BY <1>6 DEF Working
  <2> QED
    BY <1>2, <1>3, <2>1, <2>2 DEF Walked, OkIsTheFile, Working
<1>7. CASE FetchTx
  <2>1. CASE cur \notin Known \/ ChunkIn[cur] = NoChunk
    BY <1>4, <1>7, <2>1 DEF FetchTx, Return
  <2>2. CASE ~(cur \notin Known \/ ChunkIn[cur] = NoChunk)
    <3>1. chunks' = Append(chunks, ChunkIn[cur]) /\ pc = "fetch" /\ cur' = cur
      BY <1>7, <2>2 DEF FetchTx
    <3>2. \/ /\ Len(chunks') = Len(chunks) + 1 /\ Len(chunks') <= Len(k.txs)
             /\ cur = k.txs[Len(chunks')]
             /\ \A i \in 1 .. Len(chunks') : chunks'[i] = ChunkIn[k.txs[i]] /\ k.txs[i] \in Known
          \/ Strayed'
      BY <1>3, <2>2, <3>1, Collects DEF Strayed
    <3>3. \/ pc' = "mempool"
          \/ pc' = "done" /\ result' = Assemble(chunks')
      BY <1>7, <2>2 DEF FetchTx, EndOfChain, Return
    <3>4. chunks' \in Seq(ChunkValue) /\ Len(chunks) \in Nat
      <4>1. cur \in Tx /\ ChunkIn[cur] \in ChunkValue
        BY DEF Typed, TypeOK, ChunkValue
      <4> QED
        BY <1>2, <3>1, <4>1
    <3>5. CASE pc' = "mempool"
      <4>1. OnTrack(k)' \/ Strayed'
        BY <1>1, <3>1, <3>2, <3>4, <3>5 DEF OnTrack, Working
      <4> QED
        BY <1>2, <1>3, <3>5, <4>1 DEF Walked, OkIsTheFile, Working
    <3>6. CASE pc' = "done" /\ result' = Assemble(chunks')
      <4>1. ASSUME Assemble(chunks').ok
            PROVE  Assemble(chunks').data = k.file /\ ToSet(k.txs) \subseteq Known
        <5>1. ~Strayed'
          <6>1. ASSUME Strayed'
                PROVE  FALSE
            <7>1. /\ Len(chunks') >= 2 /\ chunks'[1].index = 0
                  /\ \E j \in 2 .. Len(chunks') : chunks'[j].index = 0
              BY <6>1 DEF Strayed
            <7>2. Assemble(chunks') = Refused
              BY <3>4, <7>1, TwoHeadsFail
            <7> QED
              BY <4>1, <7>2, Answers
          <6> QED
            BY <6>1
        <5>2. /\ Len(chunks') <= Len(k.txs)
              /\ \A i \in 1 .. Len(chunks') : chunks'[i] = ChunkIn[k.txs[i]] /\ k.txs[i] \in Known
          BY <3>2, <5>1
        <5>3. Assemble(chunks').data = k.file /\ Len(chunks') = Len(k.txs)
          BY <3>4, <4>1, <5>2, Outcome
        <5>4. ToSet(k.txs) \subseteq Known
          BY <5>2, <5>3, Knots DEF ToSet
        <5> QED
          BY <5>3, <5>4
      <4> QED
        BY <1>1, <1>2, <1>3, <3>6, <4>1 DEF Walked, OkIsTheFile, Working
    <3> QED
      BY <3>3, <3>5, <3>6
  <2> QED
    BY <2>1, <2>2
<1>8. CASE GetRawMempool
  BY <1>6, <1>8 DEF GetRawMempool, Working
<1>9. CASE ScanMempool
  BY <1>6, <1>9 DEF ScanMempool, FollowTo, SpendersIn, Working
<1>10. CASE GetTransactionInfo
  BY <1>4, <1>5, <1>6, <1>10 DEF GetTransactionInfo, EndOfChain, Return, Working
<1>11. CASE GetBlockCount
  BY <1>6, <1>11 DEF GetBlockCount, Working
<1>12. CASE ScanBlock
  BY <1>5, <1>6, <1>12 DEF ScanBlock, FollowTo, EndOfChain, Return, SpendersIn, Working
<1> QED
  BY <1>7, <1>8, <1>9, <1>10, <1>11, <1>12 DEF DecoderStep

LEMMA FaultWalks ==
  ASSUME Walked, RpcFault, UNCHANGED nodeVars
  PROVE  Walked' /\ OkIsTheFile'
<1>1. /\ pc \in Working /\ start' = start /\ chunks' = chunks /\ cur' = cur
      /\ Known' = Known
  BY DEF RpcFault, nodeVars, Known, Confirmed
<1>2. CASE pc = "scan_mempool"
  <2>1. pc' = "info"
    BY <1>2 DEF RpcFault
  <2>2. PICK k \in Knotworks : Head(k.txs) = start /\ (OnTrack(k) \/ Strayed)
    BY <1>1 DEF Walked
  <2>3. OnTrack(k)' \/ Strayed'
    BY <1>1, <1>2, <2>1, <2>2, StaysAt, SameStrayed DEF Working
  <2> QED
    BY <1>1, <2>1, <2>2, <2>3 DEF Walked, OkIsTheFile
<1>3. CASE pc # "scan_mempool"
  BY <1>3, Answers DEF RpcFault, Return, Walked, OkIsTheFile, Working
<1> QED
  BY <1>2, <1>3

LEMMA NodeWalks ==
  ASSUME NodeTypeOK, Walked, OkIsTheFile, NodeNext, NodeMoves
  PROVE  Walked' /\ OkIsTheFile'
<1>1. Known \subseteq Known'
  BY KnownGrows
<1>2. UNCHANGED <<pc, start, cur, chunks, result>>
  BY DEF NodeMoves
<1>3. \A k \in Knotworks : OnTrack(k) => OnTrack(k)'
  BY <1>1, <1>2 DEF OnTrack
<1>4. Strayed => Strayed'
  BY <1>2 DEF Strayed
<1> QED
  BY <1>1, <1>2, <1>3, <1>4 DEF Walked, OkIsTheFile

-----------------------------------------------------------------------------
(* The specification *)

WalkInv == Typed /\ Walked /\ OkIsTheFile

LEMMA InitWalkInv ==
  ASSUME Init
  PROVE  WalkInv
<1>1. Typed
  BY InitTyped DEF Init
<1> QED
  BY <1>1 DEF Init, DecoderInit, WalkInv, Walked, OkIsTheFile, Working

LEMMA StepWalkInv ==
  ASSUME WalkInv, [Next]_vars
  PROVE  WalkInv'
<1> USE DEF WalkInv
<1>1. CASE DecoderNext /\ UNCHANGED nodeVars
  BY <1>1, BeginTyped, StepTyped, FaultTyped, BeginWalks, StepWalks, FaultWalks
     DEF DecoderNext
<1>2. CASE NodeNext /\ NodeMoves
  BY <1>2, NodeTyped, NodeWalks DEF Typed, TypeOK
<1>3. CASE UNCHANGED vars
  <2>1. UNCHANGED nodeVars /\ UNCHANGED decoderVars /\ Known' = Known
    BY <1>3 DEF vars, nodeVars, Known, Confirmed
  <2>2. NodeTypeOK'
    BY <2>1 DEF nodeVars, NodeTypeOK, Typed, TypeOK
  <2>3. Typed'
    BY <2>1, <2>2 DEF nodeVars, decoderVars, Typed, TypeOK
  <2>4. (\A k \in Knotworks : OnTrack(k) => OnTrack(k)') /\ (Strayed => Strayed')
    BY <2>1 DEF decoderVars, OnTrack, Strayed
  <2> QED
    BY <2>1, <2>3, <2>4 DEF decoderVars, Walked, OkIsTheFile
<1> QED
  BY <1>1, <1>2, <1>3 DEF Next

LEMMA WalkInvHolds == Spec => []WalkInv
<1>1. Init => WalkInv
  BY InitWalkInv
<1>2. WalkInv /\ [Next]_vars => WalkInv'
  BY StepWalkInv
<1> QED
  BY <1>1, <1>2, PTL DEF Spec

(* The decoder's types; above all, it never asks the node for a height     *)
(* that the chain does not have.                                           *)
THEOREM SpecTypeOK == Spec => []TypeOK
<1>1. WalkInv => TypeOK
  BY DEF WalkInv, Typed
<1> QED
  BY <1>1, WalkInvHolds, PTL

(* What decode returns is the file that was encoded, and all of it was on  *)
(* the node: for every file, size of a chunk, node and order of its steps. *)
THEOREM SpecOkIsTheFile == Spec => []OkIsTheFile
<1>1. WalkInv => OkIsTheFile
  BY DEF WalkInv
<1> QED
  BY <1>1, WalkInvHolds, PTL

-----------------------------------------------------------------------------
(* What is published decodes *)

LEMMA HeightIs ==
  ASSUME OnceOnly, NEW h \in DOMAIN chain, NEW t \in chain[h].txs
  PROVE  HeightOf(t) = h
<1>1. \A g \in DOMAIN chain : t \in chain[g].txs => g = h
  BY DEF OnceOnly
<1> QED
  BY <1>1 DEF HeightOf

(* What a confirmed transaction spends is confirmed, no later than it.     *)
LEMMA ParentHeight ==
  ASSUME NodeTypeOK, Ledger, NEW t \in Confirmed, NEW p \in Parents(t)
  PROVE  /\ p \in Confirmed /\ HeightOf(p) \in 1 .. Len(chain)
         /\ HeightOf(t) \in 1 .. Len(chain) /\ HeightOf(p) <= HeightOf(t)
<1>1. DOMAIN chain = 1 .. Len(chain) /\ Len(chain) \in Nat
  BY DEF NodeTypeOK
<1>2. HeightOf(t) \in 1 .. Len(chain) /\ t \in chain[HeightOf(t)].txs
  BY <1>1, HeightFound
<1>3. PICK g \in 1 .. HeightOf(t) : p \in chain[g].txs
  BY <1>1, <1>2 DEF Ledger, ParentsBelow
<1>4. g \in DOMAIN chain
  BY <1>1, <1>2, <1>3
<1>5. HeightOf(p) = g /\ p \in Confirmed
  BY <1>3, <1>4, HeightIs DEF Ledger, Confirmed
<1> QED
  BY <1>1, <1>2, <1>3, <1>4, <1>5

(* Without a reorganisation, blocks stay where they are.                   *)
LEMMA HeightStays ==
  ASSUME NodeTypeOK, Ledger, NodeNext, reorgs' = reorgs
  PROVE  /\ Confirmed \subseteq Confirmed'
         /\ \A t \in Confirmed : HeightOf(t)' = HeightOf(t)
<1>1. OnceOnly' /\ BlocksKept /\ NodeTypeOK'
  BY NodeKeeps, NodeTypes DEF Ledger
<1>2. Displaced = {}
  BY DEF Displaced
<1>3. /\ DOMAIN chain = 1 .. Len(chain) /\ Len(chain) \in Nat
      /\ DOMAIN chain' = 1 .. Len(chain') /\ Len(chain') \in Nat
  BY <1>1 DEF NodeTypeOK
<1>4. ASSUME NEW h \in DOMAIN chain
      PROVE  h \in DOMAIN chain' /\ chain'[h].txs = chain[h].txs
  <2>1. h \in DOMAIN chain'
    BY <1>1, <1>3 DEF BlocksKept
  <2>2. chain'[h] = chain[h] \/ chain[h].txs \cup chain'[h].txs \subseteq {}
    BY <1>1, <1>2, <1>3 DEF BlocksKept
  <2>3. chain[h].txs \cup chain'[h].txs \subseteq {} => chain'[h].txs = chain[h].txs
    OBVIOUS
  <2> QED
    BY <2>1, <2>2, <2>3
<1>5. ASSUME NEW t \in Confirmed
      PROVE  t \in Confirmed' /\ HeightOf(t)' = HeightOf(t)
  <2> DEFINE h == HeightOf(t)
  <2>1. h \in DOMAIN chain /\ t \in chain[h].txs
    BY HeightFound
  <2>2. h \in DOMAIN chain' /\ t \in chain'[h].txs
    BY <1>4, <2>1
  <2>3. t \in Confirmed'
    BY <2>2 DEF Confirmed
  <2> HIDE DEF h
  <2>4. \A g \in DOMAIN chain' : t \in chain'[g].txs => g = h
    BY <1>1, <2>2 DEF OnceOnly
  <2>5. HeightOf(t)' = h
    BY <2>2, <2>4 DEF HeightOf
  <2> QED
    BY <2>3, <2>5 DEF h
<1> QED
  BY <1>5

LEMMA GapStays ==
  ASSUME NodeTypeOK, Ledger, NodeNext, reorgs' = reorgs, NEW t, WideGap(t)
  PROVE  WideGap(t)'
<1>1. PICK k \in Knotworks : \E i \in 2 .. Len(k.txs) :
        /\ Head(k.txs) = t
        /\ {k.txs[i - 1], k.txs[i]} \subseteq Confirmed
        /\ HeightOf(k.txs[i]) > HeightOf(k.txs[i - 1]) + MAX_BLOCKS_TO_SCAN
  BY DEF WideGap
<1>2. PICK i \in 2 .. Len(k.txs) :
        /\ Head(k.txs) = t
        /\ {k.txs[i - 1], k.txs[i]} \subseteq Confirmed
        /\ HeightOf(k.txs[i]) > HeightOf(k.txs[i - 1]) + MAX_BLOCKS_TO_SCAN
  BY <1>1
<1> DEFINE a == k.txs[i - 1]
           b == k.txs[i]
<1> HIDE DEF a, b
<1>3. {a, b} \subseteq Confirmed /\ HeightOf(b) > HeightOf(a) + MAX_BLOCKS_TO_SCAN
  BY <1>2 DEF a, b
<1>4. {a, b} \subseteq Confirmed' /\ HeightOf(b)' > HeightOf(a)' + MAX_BLOCKS_TO_SCAN
  BY <1>3, HeightStays
<1> QED
  BY <1>2, <1>4 DEF WideGap, a, b

(* Every transaction of a knotwork has an output 1 for its continuation.   *)
LEMMA Continuable ==
  ASSUME NEW t \in EncodedTx
  PROVE  HasOutput1(t)
<1>1. /\ FirstOutputs(TRUE) = <<"op_return", "continuation", "change">>
      /\ FirstOutputs(FALSE) = <<"op_return", "change">>
      /\ NextOutputs = <<"op_return", "continuation">>
  BY DEF FirstOutputs, NextOutputs
<1>2. \/ Outputs[t] = FirstOutputs(TRUE) \/ Outputs[t] = FirstOutputs(FALSE)
      \/ Outputs[t] = NextOutputs
  <2> DEFINE k == CHOOSE k \in Knotworks : t \in ToSet(k.txs)
  <2>1. Outputs[t] = IF t = Head(k.txs) THEN FirstOutputs(Len(k.txs) > 1) ELSE NextOutputs
    BY DEF Outputs
  <2>2. (Len(k.txs) > 1) \in BOOLEAN
    OBVIOUS
  <2> HIDE DEF k
  <2>3. (Len(k.txs) > 1) = TRUE \/ (Len(k.txs) > 1) = FALSE
    BY <2>2
  <2> QED
    BY <2>1, <2>3
<1> DEFINE o == Outputs[t]
<1>3. Len(o) >= 2 /\ o[2] # "op_return"
  <2>1. CASE o = <<"op_return", "continuation", "change">>
    <3>1. Len(o) = 3 /\ o[2] = "continuation"
      BY <2>1
    <3> QED
      BY <3>1
  <2>2. CASE o = <<"op_return", "change">>
    <3>1. Len(o) = 2 /\ o[2] = "change"
      BY <2>2
    <3> QED
      BY <3>1
  <2>3. CASE o = <<"op_return", "continuation">>
    <3>1. Len(o) = 2 /\ o[2] = "continuation"
      BY <2>3
    <3> QED
      BY <3>1
  <2> QED
    BY <1>1, <1>2, <2>1, <2>2, <2>3
<1> QED
  BY <1>3 DEF HasOutput1

(* The end of the knotwork's chain is spent.                               *)
Spent(k) == SpendersIn(Known, <<Last(k.txs), CONTINUATION_OUTPUT_INDEX>>) # {}

NextOf(k) == k.txs[Len(chunks) + 1]

(* The next transaction of the knotwork is still ahead of the walk.        *)
Ahead(k) ==
  /\ pc = "fetch" => Len(chunks) < Len(k.txs) /\ cur = NextOf(k)
  /\ pc = "count" => cur \in Confirmed /\ height = HeightOf(cur)
  /\ Len(chunks) < Len(k.txs) =>
       /\ pc = "scan_mempool" => NextOf(k) \in snapshot \cup Confirmed
       /\ pc \in {"info", "count", "scan_blocks"} => NextOf(k) \in Confirmed
       /\ pc = "scan_blocks" =>
            /\ HeightOf(NextOf(k)) >= height
            /\ HeightOf(NextOf(k)) <= last \/ WideGap(start)

(* While nothing has gone wrong, the walk has the rest of the knotwork     *)
(* ahead of it, and ends with the file.                                    *)
GoesWell(k) ==
  \/ Spent(k)
  \/ pc \in Working /\ OnTrack(k) /\ Ahead(k)
  \/ pc = "done" /\ (result.ok \/ WideGap(start))

WholeInv ==
  whole => \E k \in Knotworks :
    /\ Head(k.txs) = start /\ ToSet(k.txs) \subseteq Known
    /\ GoesWell(k)

LEMMA BeginWhole ==
  ASSUME NEW t \in Detected, Begin(t), UNCHANGED nodeVars
  PROVE  WholeInv'
<1>1. Known' = Known
  BY DEF nodeVars, Known, Confirmed
<1>2. SUFFICES ASSUME Published(t)
               PROVE  WholeInv'
  BY DEF Begin, WholeInv
<1>3. PICK k \in Knotworks : Head(k.txs) = t /\ ToSet(k.txs) \subseteq Known
  BY <1>2 DEF Published
<1>4. Len(k.txs) \in Nat /\ Len(k.txs) >= 1 /\ Head(k.txs) = k.txs[1]
  BY <1>3, Knots
<1>5. pc' = "fetch" /\ start' = t /\ cur' = t /\ chunks' = <<>>
  BY DEF Begin
<1>6. OnTrack(k)' /\ Ahead(k)'
  BY <1>3, <1>4, <1>5 DEF OnTrack, Ahead, NextOf, Working
<1> QED
  BY <1>1, <1>3, <1>5, <1>6 DEF WholeInv, GoesWell, Working

(* The walk of a step: what spends the continuation of a knotwork whose    *)
(* last output is unspent is its next transaction.                         *)
LEMMA NextSpender ==
  ASSUME NodeTypeOK, SpentOnce, NEW k \in Knotworks, ToSet(k.txs) \subseteq Known, ~Spent(k),
         NEW m \in 1 .. Len(k.txs), NEW t \in Known,
         <<k.txs[m], CONTINUATION_OUTPUT_INDEX>> \in Inputs[t]
  PROVE  m < Len(k.txs) /\ t = k.txs[m + 1]
<1>1. Len(k.txs) \in Nat /\ k.txs \in Seq(Tx) /\ DOMAIN k.txs = 1 .. Len(k.txs)
  BY Knots
<1>2. m < Len(k.txs)
  <2> SUFFICES ASSUME m = Len(k.txs)
               PROVE  FALSE
    BY <1>1
  <2>1. Last(k.txs) = k.txs[m]
    BY DEF Last
  <2>2. t \in SpendersIn(Known, <<Last(k.txs), CONTINUATION_OUTPUT_INDEX>>)
    BY <2>1 DEF SpendersIn
  <2> QED
    BY <2>2 DEF Spent
<1>3. m + 1 \in 2 .. Len(k.txs) /\ (m + 1) - 1 = m
  BY <1>1, <1>2
<1>4. <<k.txs[m], CONTINUATION_OUTPUT_INDEX>> \in Inputs[k.txs[m + 1]]
  BY <1>3, Knots
<1>5. k.txs[m + 1] \in Known
  BY <1>1, <1>3 DEF ToSet
<1> QED
  BY <1>2, <1>4, <1>5 DEF SpentOnce

LEMMA StepGoesWell ==
  ASSUME Typed, Ledger, DecoderStep, UNCHANGED nodeVars, pc \in Working,
         NEW k \in Knotworks, Head(k.txs) = start, ToSet(k.txs) \subseteq Known,
         ~Spent(k), OnTrack(k), Ahead(k)
  PROVE  GoesWell(k)'
<1> DEFINE m == Len(chunks)
           n == Len(k.txs)
<1>1. /\ Known' = Known /\ Confirmed' = Confirmed /\ chain' = chain
      /\ \A t : HeightOf(t)' = HeightOf(t)
  BY DEF nodeVars, Known, Confirmed, HeightOf
<1>2. start' = start /\ chunks \in Seq(ChunkValue) /\ m \in Nat
  BY DEF DecoderStep, FetchTx, GetRawMempool, ScanMempool, GetTransactionInfo,
         GetBlockCount, ScanBlock, Typed
<1>3. n \in Nat /\ n >= 1 /\ k.txs \in Seq(Tx) /\ DOMAIN k.txs = 1 .. n
  BY Knots
<1>4. NodeTypeOK /\ SpentOnce /\ OnceOnly
  BY DEF Typed, TypeOK, Ledger
<1>5. pc # "fetch" => m \in 1 .. n /\ cur = k.txs[m] /\ cur \in Known
  BY <1>2, <1>3 DEF OnTrack
<1>6. m < n => NextOf(k) \in Known /\ NextOf(k) = k.txs[m + 1] /\ m + 1 \in 1 .. n
  BY <1>2, <1>3 DEF NextOf, ToSet
<1>7. pc # "fetch" /\ m < n => Continuation \in Inputs[NextOf(k)]
  <2> SUFFICES ASSUME pc # "fetch", m < n
               PROVE  Continuation \in Inputs[NextOf(k)]
    OBVIOUS
  <2>1. m + 1 \in 2 .. n /\ (m + 1) - 1 = m
    BY <1>2, <1>3, <1>5
  <2>2. Inputs[k.txs[m + 1]] = {<<k.txs[m], CONTINUATION_OUTPUT_INDEX>>}
    BY <2>1, Knots
  <2> QED
    BY <1>5, <1>6, <2>2 DEF Continuation
<1>8. ASSUME pc' = "done", result' = Assemble(chunks), m = n
      PROVE  GoesWell(k)'
  <2>1. Assemble(chunks).ok
    BY <1>2, <1>8, Outcome DEF OnTrack
  <2> QED
    BY <1>8, <2>1 DEF GoesWell
<1>9. ASSUME pc # "fetch", pc' = "fetch", chunks' = chunks,
             cur' \in Known, Continuation \in Inputs[cur']
      PROVE  GoesWell(k)'
  <2>1. <<k.txs[m], CONTINUATION_OUTPUT_INDEX>> \in Inputs[cur']
    BY <1>5, <1>9 DEF Continuation
  <2>2. m < n /\ cur' = k.txs[m + 1]
    BY <1>4, <1>5, <1>9, <2>1, NextSpender
  <2>3. OnTrack(k)'
    BY <1>1, <1>9, GoesOn
  <2>4. Ahead(k)'
    BY <1>9, <2>2 DEF Ahead, NextOf
  <2> QED
    BY <1>9, <2>3, <2>4 DEF GoesWell, Working
<1>10. ASSUME pc # "fetch", pc' \in Working \ {"fetch"}, cur' = cur, chunks' = chunks, Ahead(k)'
       PROVE  GoesWell(k)'
  <2>1. OnTrack(k)'
    BY <1>1, <1>10, StaysAt
  <2> QED
    BY <1>10, <2>1 DEF GoesWell
<1> HIDE DEF m, n
<1>11. CASE FetchTx
  <2>1. pc = "fetch" /\ m < n /\ cur = NextOf(k) /\ cur' = cur
    BY <1>11 DEF Ahead, FetchTx, m, n
  <2>2. cur \in Known /\ cur \in EncodedTx /\ ChunkIn[cur] # NoChunk
    BY <1>6, <2>1, Carries DEF n
  <2>3. chunks' = Append(chunks, ChunkIn[cur]) /\ pc' = "mempool"
    BY <1>11, <2>2, Continuable DEF FetchTx
  <2>4. ~Strayed'
    <3>1. ASSUME NEW j \in 1 .. m + 1
          PROVE  chunks'[j] = ChunkIn[k.txs[j]] /\ j \in 1 .. n
      <4>1. /\ j \in 1 .. m => chunks'[j] = chunks[j]
            /\ j = m + 1 => chunks'[j] = ChunkIn[cur]
        BY <1>2, <2>3 DEF m
      <4> QED
        BY <1>2, <1>3, <1>6, <2>1, <4>1, SMTT(60) DEF OnTrack, m
    <3>2. Len(chunks') = m + 1
      BY <1>2, <2>3 DEF m
    <3>3. ASSUME NEW j \in 2 .. m + 1
          PROVE  chunks'[j].index # 0
      <4>1. j \in 1 .. m + 1 /\ j \in Int /\ j - 1 # 0
        BY <1>2
      <4>2. chunks'[j] = ChunkIn[k.txs[j]] /\ j \in 1 .. n
        BY <3>1, <4>1
      <4>3. ChunkIn[k.txs[j]].index = j - 1
        BY <4>2, Carries DEF n
      <4> QED
        BY <4>1, <4>2, <4>3
    <3> QED
      BY <3>2, <3>3 DEF Strayed
  <2>5. OnTrack(k)'
    <3>1. \/ /\ Len(chunks') = m + 1 /\ Len(chunks') <= n
             /\ cur = k.txs[Len(chunks')]
             /\ \A i \in 1 .. Len(chunks') : chunks'[i] = ChunkIn[k.txs[i]] /\ k.txs[i] \in Known
          \/ Strayed'
      BY <2>1, <2>2, <2>3, Collects DEF Strayed, m, n
    <3> QED
      BY <1>1, <1>2, <2>1, <2>3, <2>4, <3>1 DEF OnTrack, Working, n
  <2>6. Ahead(k)'
    BY <2>3 DEF Ahead
  <2> QED
    BY <2>3, <2>5, <2>6 DEF GoesWell, Working
<1>12. CASE GetRawMempool
  <2>1. /\ pc # "fetch" /\ pc' = "scan_mempool" /\ snapshot' = mempool
        /\ cur' = cur /\ chunks' = chunks
    BY <1>12 DEF GetRawMempool
  <2>2. m < n => NextOf(k) \in snapshot' \cup Confirmed
    BY <1>6, <2>1 DEF Known
  <2>3. Ahead(k)'
    BY <1>1, <2>1, <2>2 DEF Ahead, NextOf, m, n
  <2> QED
    BY <1>10, <2>1, <2>3 DEF Working
<1>13. CASE ScanMempool
  <2>1. pc = "scan_mempool" /\ chunks' = chunks /\ snapshot' = snapshot
    BY <1>13 DEF ScanMempool
  <2>2. CASE SpendersIn(snapshot \cap Known, Continuation) # {}
    <3>1. pc' = "fetch" /\ cur' \in SpendersIn(snapshot \cap Known, Continuation)
      BY <1>13, <2>2 DEF ScanMempool, FollowTo
    <3>2. cur' \in Known /\ Continuation \in Inputs[cur']
      BY <3>1 DEF SpendersIn
    <3> QED
      BY <1>9, <2>1, <3>1, <3>2
  <2>3. CASE SpendersIn(snapshot \cap Known, Continuation) = {}
    <3>1. pc' = "info" /\ cur' = cur
      BY <1>13, <2>3 DEF ScanMempool
    <3>2. m < n => NextOf(k) \in Confirmed
      <4> SUFFICES ASSUME m < n
                   PROVE  NextOf(k) \in Confirmed
        OBVIOUS
      <4>1. NextOf(k) \in snapshot \cup Confirmed
        BY <2>1 DEF Ahead, m, n
      <4>2. NextOf(k) \notin snapshot
        BY <1>6, <1>7, <2>1, <2>3 DEF SpendersIn
      <4> QED
        BY <4>1, <4>2
    <3>3. Ahead(k)'
      BY <1>1, <2>1, <3>1, <3>2 DEF Ahead, NextOf, m, n
    <3> QED
      BY <1>10, <2>1, <3>1, <3>3 DEF Working
  <2> QED
    BY <2>2, <2>3
<1>14. CASE GetTransactionInfo
  <2>1. pc = "info" /\ chunks' = chunks /\ cur' = cur /\ cur \in Known
    BY <1>5, <1>14 DEF GetTransactionInfo
  <2>2. m < n => NextOf(k) \in Confirmed
    BY <2>1 DEF Ahead, m, n
  <2>3. CASE cur \in mempool
    <3>1. pc' = "done" /\ result' = Assemble(chunks)
      BY <1>14, <2>1, <2>3 DEF GetTransactionInfo, EndOfChain, Return
    <3>2. m = n
      <4> SUFFICES ASSUME m < n
                   PROVE  FALSE
        BY <1>3, <1>5, <2>1
      <4>1. NextOf(k) \in Confirmed /\ cur \in Parents(NextOf(k))
        <5>1. cur \in Tx /\ Continuation[1] = cur
          BY DEF Typed, TypeOK, Continuation
        <5> QED
          BY <1>7, <2>1, <2>2, <5>1 DEF Parents
      <4>2. cur \in Confirmed
        BY <1>4, <4>1, ParentHeight
      <4> QED
        BY <1>4, <2>3, <4>2 DEF OnceOnly, Confirmed
    <3> QED
      BY <1>8, <3>1, <3>2
  <2>4. CASE cur \notin mempool
    <3>1. pc' = "count" /\ height' = HeightOf(cur) /\ cur \in Confirmed
      BY <1>14, <2>1, <2>4 DEF GetTransactionInfo, Known
    <3>2. Ahead(k)'
      BY <1>1, <2>1, <2>2, <3>1 DEF Ahead, NextOf, m, n
    <3> QED
      BY <1>10, <2>1, <3>1, <3>2 DEF Working
  <2> QED
    BY <2>3, <2>4
<1>15. CASE GetBlockCount
  <2>1. /\ pc = "count" /\ pc' = "scan_blocks" /\ chunks' = chunks /\ cur' = cur
        /\ height' = height /\ height = HeightOf(cur) /\ cur \in Confirmed
        /\ last' = Least(Len(chain), height + MAX_BLOCKS_TO_SCAN)
    BY <1>15 DEF GetBlockCount, Ahead
  <2>2. ASSUME m < n
        PROVE  /\ NextOf(k) \in Confirmed /\ HeightOf(NextOf(k)) >= height
               /\ HeightOf(NextOf(k)) <= last' \/ WideGap(start)
    <3> DEFINE g == HeightOf(NextOf(k))
    <3>1. NextOf(k) \in Confirmed
      BY <2>1, <2>2 DEF Ahead, m, n
    <3>2. cur \in Parents(NextOf(k))
      <4>1. cur \in Tx /\ Continuation[1] = cur
        BY DEF Typed, TypeOK, Continuation
      <4> QED
        BY <1>7, <2>1, <2>2, <4>1 DEF Parents
    <3>3. g \in 1 .. Len(chain) /\ height \in 1 .. Len(chain) /\ height <= g
      BY <1>4, <2>1, <3>1, <3>2, ParentHeight
    <3>4. g > height + MAX_BLOCKS_TO_SCAN => WideGap(start)
      <4>1. m + 1 \in 2 .. n /\ (m + 1) - 1 = m
        BY <1>2, <1>3, <1>5, <2>1, <2>2
      <4>2. k.txs[(m + 1) - 1] = cur /\ k.txs[m + 1] = NextOf(k)
        BY <1>5, <1>6, <2>1, <2>2, <4>1
      <4> QED
        BY <2>1, <3>1, <4>1, <4>2 DEF WideGap, n
    <3> HIDE DEF g
    <3>5. g <= last' \/ g > height + MAX_BLOCKS_TO_SCAN
      BY <1>4, <2>1, <3>3, DecoderAssumption DEF Least, NodeTypeOK
    <3> QED
      BY <3>1, <3>3, <3>4, <3>5 DEF g
  <2>3. WideGap(start)' <=> WideGap(start)
    BY <1>1, <1>2 DEF WideGap
  <2>4. Ahead(k)'
    BY <1>1, <2>1, <2>2, <2>3 DEF Ahead, NextOf, m, n
  <2> QED
    BY <1>10, <2>1, <2>4 DEF Working
<1>16. CASE ScanBlock
  <2>1. pc = "scan_blocks" /\ chunks' = chunks /\ last' = last
    BY <1>16 DEF ScanBlock
  <2>2. WideGap(start)' <=> WideGap(start)
    BY <1>1, <1>2 DEF WideGap
  <2>3. m < n => /\ NextOf(k) \in Confirmed /\ HeightOf(NextOf(k)) >= height
                 /\ HeightOf(NextOf(k)) <= last \/ WideGap(start)
    BY <2>1 DEF Ahead, m, n
  <2>4. height \in Nat /\ last \in Nat
    BY DEF Typed, TypeOK
  <2>5. NextOf(k) \in Confirmed =>
          /\ HeightOf(NextOf(k)) \in Nat
          /\ NextOf(k) \in chain[HeightOf(NextOf(k))].txs
    BY <1>4, HeightFound DEF NodeTypeOK
  <2>6. CASE height > last
    <3>1. pc' = "done" /\ result' = Assemble(chunks)
      BY <1>16, <2>6 DEF ScanBlock, EndOfChain, Return
    <3>2. CASE m < n
      <4>1. WideGap(start)
        BY <2>3, <2>4, <2>5, <2>6, <3>2
      <4> QED
        BY <2>2, <3>1, <4>1 DEF GoesWell
    <3>3. CASE ~(m < n)
      <4>1. m = n
        BY <1>3, <1>5, <2>1, <3>3
      <4> QED
        BY <1>8, <3>1, <4>1
    <3> QED
      BY <3>2, <3>3
  <2>7. CASE ~(height > last) /\ SpendersIn(chain[height].txs, Continuation) # {}
    <3>1. pc' = "fetch" /\ cur' \in SpendersIn(chain[height].txs, Continuation)
      BY <1>16, <2>7 DEF ScanBlock, FollowTo
    <3>2. height \in DOMAIN chain
      BY <1>4, <2>1, <2>4, <2>7 DEF Typed, TypeOK, NodeTypeOK
    <3>3. cur' \in Known /\ Continuation \in Inputs[cur']
      BY <3>1, <3>2 DEF SpendersIn, Known, Confirmed
    <3> QED
      BY <1>9, <2>1, <3>1, <3>3
  <2>8. CASE ~(height > last) /\ SpendersIn(chain[height].txs, Continuation) = {}
    <3>1. height' = height + 1 /\ pc' = pc /\ cur' = cur
      BY <1>16, <2>8 DEF ScanBlock
    <3>2. m < n => HeightOf(NextOf(k)) # height
      BY <1>7, <2>1, <2>3, <2>5, <2>8 DEF SpendersIn
    <3>3. m < n => HeightOf(NextOf(k)) >= height'
      BY <2>3, <2>4, <2>5, <3>1, <3>2
    <3>4. Ahead(k)'
      BY <1>1, <2>1, <2>2, <2>3, <3>1, <3>3 DEF Ahead, NextOf, m, n
    <3> QED
      BY <1>10, <2>1, <3>1, <3>4 DEF Working
  <2> QED
    BY <2>6, <2>7, <2>8
<1> QED
  BY <1>11, <1>12, <1>13, <1>14, <1>15, <1>16 DEF DecoderStep

LEMMA StepWhole ==
  ASSUME Typed, Ledger, WholeInv, DecoderStep, UNCHANGED nodeVars
  PROVE  WholeInv'
<1>1. Known' = Known
  BY DEF nodeVars, Known, Confirmed
<1>2. pc \in Working /\ start' = start /\ whole' = whole
  BY DEF DecoderStep, FetchTx, GetRawMempool, ScanMempool, GetTransactionInfo,
         GetBlockCount, ScanBlock, Working
<1>3. SUFFICES ASSUME whole
               PROVE  WholeInv'
  BY <1>2 DEF WholeInv
<1>4. PICK k \in Knotworks : Head(k.txs) = start /\ ToSet(k.txs) \subseteq Known /\ GoesWell(k)
  BY <1>3 DEF WholeInv
<1>5. CASE Spent(k)
  <2>1. Spent(k)'
    BY <1>1, <1>5 DEF Spent, SpendersIn
  <2> QED
    BY <1>1, <1>2, <1>4, <2>1 DEF WholeInv, GoesWell
<1>6. CASE ~Spent(k)
  <2>1. OnTrack(k) /\ Ahead(k)
    BY <1>2, <1>4, <1>6 DEF GoesWell, Working
  <2>2. GoesWell(k)'
    BY <1>2, <1>4, <1>6, <2>1, StepGoesWell
  <2> QED
    BY <1>1, <1>2, <1>4, <2>2 DEF WholeInv
<1> QED
  BY <1>5, <1>6

LEMMA FaultWhole ==
  ASSUME RpcFault
  PROVE  WholeInv'
  BY DEF RpcFault, WholeInv

LEMMA NodeWhole ==
  ASSUME Typed, Ledger, WholeInv, NodeNext, NodeMoves
  PROVE  WholeInv'
<1>1. NodeTypeOK /\ Known \subseteq Known'
  BY KnownGrows DEF Typed, TypeOK
<1>2. /\ UNCHANGED <<pc, start, cur, chunks, snapshot, height, last, result>>
      /\ whole' => whole /\ (reorgs' = reorgs \/ pc \in {"fetch", "mempool"})
  BY DEF NodeMoves
<1>3. SUFFICES ASSUME whole, reorgs' = reorgs \/ pc \in {"fetch", "mempool"}
               PROVE  WholeInv'
  BY <1>2 DEF WholeInv
<1>4. PICK k \in Knotworks : Head(k.txs) = start /\ ToSet(k.txs) \subseteq Known /\ GoesWell(k)
  BY <1>3 DEF WholeInv
<1>5. CASE Spent(k)
  <2>1. Spent(k)'
    BY <1>1, <1>5 DEF Spent, SpendersIn
  <2> QED
    BY <1>1, <1>2, <1>4, <2>1 DEF WholeInv, GoesWell
<1>6. CASE ~Spent(k) /\ pc \in Working
  <2>1. OnTrack(k) /\ Ahead(k)
    BY <1>4, <1>6 DEF GoesWell, Working
  <2>2. OnTrack(k)'
    BY <1>1, <1>2, <2>1 DEF OnTrack
  <2>3. NextOf(k)' = NextOf(k)
    BY <1>2 DEF NextOf
  <2>4. CASE pc \in {"fetch", "mempool"}
    <3>1. Ahead(k)'
      BY <1>2, <2>1, <2>3, <2>4 DEF Ahead
    <3> QED
      BY <1>1, <1>2, <1>4, <1>6, <2>2, <3>1 DEF WholeInv, GoesWell
  <2>5. CASE pc \notin {"fetch", "mempool"}
    <3>1. /\ Confirmed \subseteq Confirmed'
          /\ \A t \in Confirmed : HeightOf(t)' = HeightOf(t)
          /\ WideGap(start) => WideGap(start)'
      BY <1>1, <1>2, <1>3, <2>5, HeightStays, GapStays DEF WideGap
    <3>2. pc' # "fetch" /\ (pc = "count" => cur \in Confirmed /\ height = HeightOf(cur))
      BY <1>2, <2>1, <2>5 DEF Ahead
    <3>3. (pc = "count" => cur \in Confirmed /\ height = HeightOf(cur))'
      <4>1. ASSUME pc = "count"
            PROVE  (cur \in Confirmed /\ height = HeightOf(cur))'
        <5>1. cur \in Confirmed' /\ height = (CHOOSE h \in DOMAIN chain' : cur \in chain'[h].txs)
          BY <3>1, <3>2, <4>1 DEF HeightOf
        <5> QED
          BY <1>2, <5>1 DEF HeightOf
      <4> QED
        BY <1>2, <4>1
    <3>4. ASSUME Len(chunks) < Len(k.txs)
          PROVE  /\ pc = "scan_mempool" => NextOf(k) \in snapshot \cup Confirmed'
                 /\ pc \in {"info", "count", "scan_blocks"} => NextOf(k) \in Confirmed'
                 /\ pc = "scan_blocks" =>
                      /\ HeightOf(NextOf(k))' >= height
                      /\ HeightOf(NextOf(k))' <= last \/ WideGap(start)'
      <4>1. /\ pc = "scan_mempool" => NextOf(k) \in snapshot \cup Confirmed
            /\ pc \in {"info", "count", "scan_blocks"} => NextOf(k) \in Confirmed
            /\ pc = "scan_blocks" =>
                 /\ HeightOf(NextOf(k)) >= height
                 /\ HeightOf(NextOf(k)) <= last \/ WideGap(start)
        BY <2>1, <3>4 DEF Ahead
      <4>2. pc = "scan_blocks" => HeightOf(NextOf(k))' = HeightOf(NextOf(k))
        <5>1. pc = "scan_blocks" => NextOf(k) \in Confirmed
          BY <4>1
        <5>2. pc = "scan_blocks" =>
                (CHOOSE h \in DOMAIN chain' : NextOf(k) \in chain'[h].txs) = HeightOf(NextOf(k))
          BY <3>1, <5>1 DEF HeightOf
        <5> QED
          BY <2>3, <5>2 DEF HeightOf
      <4> QED
        BY <3>1, <4>1, <4>2
    <3>5. (Len(chunks) < Len(k.txs) =>
             /\ pc = "scan_mempool" => NextOf(k) \in snapshot \cup Confirmed
             /\ pc \in {"info", "count", "scan_blocks"} => NextOf(k) \in Confirmed
             /\ pc = "scan_blocks" =>
                  /\ HeightOf(NextOf(k)) >= height
                  /\ HeightOf(NextOf(k)) <= last \/ WideGap(start))'
      BY <1>2, <2>3, <3>4
    <3>6. Ahead(k)'
      BY <3>2, <3>3, <3>5 DEF Ahead
    <3> QED
      BY <1>1, <1>2, <1>4, <1>6, <2>2, <3>6 DEF WholeInv, GoesWell
  <2> QED
    BY <2>4, <2>5
<1>7. CASE ~Spent(k) /\ pc \notin Working
  <2>1. pc = "done" /\ (result.ok \/ WideGap(start)) /\ reorgs' = reorgs
    BY <1>3, <1>4, <1>7 DEF GoesWell, Working
  <2>2. WideGap(start) => WideGap(start)'
    BY <1>1, <1>2, <2>1, GapStays DEF WideGap
  <2> QED
    BY <1>1, <1>2, <1>4, <2>1, <2>2 DEF WholeInv, GoesWell
<1> QED
  BY <1>5, <1>6, <1>7

DecoderInv == WalkInv /\ Ledger /\ WholeInv

LEMMA StepDecoderInv ==
  ASSUME DecoderInv, [Next]_vars
  PROVE  DecoderInv'
<1> USE DEF DecoderInv
<1>1. WalkInv' /\ Typed /\ NodeTypeOK
  BY StepWalkInv DEF WalkInv, Typed, TypeOK
<1>2. CASE UNCHANGED nodeVars
  <2>1. Ledger'
    BY <1>2 DEF nodeVars, Ledger, OnceOnly, SpentOnce, ParentsBelow, Known, Confirmed
  <2>2. CASE DecoderNext
    BY <1>1, <1>2, <2>1, <2>2, BeginWhole, StepWhole, FaultWhole DEF DecoderNext
  <2>3. CASE UNCHANGED decoderVars
    <3>1. Known' = Known /\ Confirmed' = Confirmed /\ \A t : HeightOf(t)' = HeightOf(t)
      BY <1>2 DEF nodeVars, Known, Confirmed, HeightOf
    <3>2. \A k : /\ Spent(k)' <=> Spent(k)
                 /\ OnTrack(k)' <=> OnTrack(k)
      BY <2>3, <3>1 DEF decoderVars, Spent, SpendersIn, OnTrack
    <3>3. WideGap(start)' <=> WideGap(start)
      BY <2>3, <3>1 DEF decoderVars, WideGap
    <3>4. \A k : Ahead(k)' <=> Ahead(k)
      BY <2>3, <3>1, <3>3 DEF decoderVars, Ahead, NextOf
    <3> QED
      BY <1>1, <2>1, <2>3, <3>1, <3>2, <3>3, <3>4 DEF decoderVars, WholeInv, GoesWell
  <2>4. CASE NodeNext /\ NodeMoves
    BY <1>1, <2>1, <2>4, NodeWhole
  <2> QED
    BY <1>2, <2>2, <2>3, <2>4 DEF Next, vars
<1>3. CASE ~UNCHANGED nodeVars
  <2>1. NodeNext /\ NodeMoves
    BY <1>3 DEF Next, vars
  <2>2. Ledger'
    BY <1>1, <2>1, StepLedger
  <2> QED
    BY <1>1, <2>1, <2>2, NodeWhole
<1> QED
  BY <1>2, <1>3

LEMMA WholeIsDecoded ==
  ASSUME WholeInv
  PROVE  PublishedDecodes
<1> SUFFICES ASSUME pc = "done", whole, ~WideGap(start), ~TailSpent(start)
             PROVE  result.ok
  BY DEF PublishedDecodes
<1>1. PICK k \in Knotworks : Head(k.txs) = start /\ GoesWell(k)
  BY DEF WholeInv
<1>2. ~Spent(k)
  BY <1>1 DEF Spent, TailSpent
<1> QED
  BY <1>1, <1>2 DEF GoesWell, Working

(* A knotwork that is all published when decode begins is decoded, however *)
(* its transactions are mined meanwhile and whatever comes between two     *)
(* calls: only a failed call, a reorganisation after the mempool was read, *)
(* a gap wider than the scan and a spent last output can keep it from it.  *)
THEOREM SpecPublishedDecodes == Spec => []PublishedDecodes
<1>1. Init => DecoderInv
  <2> SUFFICES ASSUME Init
               PROVE  DecoderInv
    OBVIOUS
  <2>1. WalkInv /\ Ledger
    BY InitWalkInv, InitLedger DEF Init
  <2> QED
    BY <2>1 DEF DecoderInv, Init, DecoderInit, WholeInv
<1>2. DecoderInv /\ [Next]_vars => DecoderInv'
  BY StepDecoderInv
<1>3. DecoderInv => PublishedDecodes
  BY WholeIsDecoded DEF DecoderInv
<1> QED
  BY <1>1, <1>2, <1>3, PTL DEF Spec

-----------------------------------------------------------------------------
(* The system *)

IxP == INSTANCE IndexerProofs WITH
  pc <- ipc, cur <- icur, faults <- ifaults,
  Genuine <- Heads

LEMMA HeadsAreDetected == Heads = Detected
  BY HeadsDetected DEF Heads

(* What Indexer assumes about its constants is true of those it is given.  *)
LEMMA Assumed ==
  /\ /\ Detected \subseteq Tx
     /\ Heads \subseteq Detected
     /\ NoFrom \notin Nat
     /\ FromOptions \subseteq Nat \cup {NoFrom}
     /\ NoEntry \notin IxP!Entry
     /\ MaxFaults \in Nat
     /\ MaxCrashes \in Nat
  /\ /\ DOMAIN Inputs = Tx
     /\ OceanMarks \subseteq BOOLEAN
     /\ MaxHeight \in Nat
     /\ MaxReorgs \in Nat
<1>1. NoEntry \notin IxP!Entry
  BY SystemAssumption DEF Ix!Entry, IxP!Entry
<1> QED
  BY <1>1, NodeAssumption, DecoderAssumption, SystemAssumption, HeadsAreDetected, DetectedInTx

-----------------------------------------------------------------------------
(* IndexerProofs speaks of the same steps as Indexer *)

LEMMA SameNode ==
  /\ NodeInit <=> IxP!NodeInit
  /\ Ix!NodeInit <=> IxP!NodeInit
  /\ NodeTypeOK <=> IxP!NodeTypeOK
  /\ NodeNext <=> IxP!NodeNext
  /\ Ix!NodeNext <=> IxP!NodeNext
  /\ Displaced = IxP!Displaced /\ Ix!Displaced = IxP!Displaced
<1>1. /\ NodeInit <=> IxP!NodeInit
      /\ Ix!NodeInit <=> IxP!NodeInit
  BY DEF NodeInit, Ix!NodeInit, IxP!NodeInit
<1>2. Block = IxP!Block /\ Ix!Block = IxP!Block
  BY DEF Block, Ix!Block, IxP!Block
<1>3. NodeTypeOK <=> IxP!NodeTypeOK
  BY <1>2 DEF NodeTypeOK, IxP!NodeTypeOK
<1>4. Displaced = IxP!Displaced /\ Ix!Displaced = IxP!Displaced
  BY DEF Displaced, Ix!Displaced, IxP!Displaced
<1>5. /\ Confirmed = IxP!Confirmed /\ Ix!Confirmed = IxP!Confirmed
  BY DEF Confirmed, Ix!Confirmed, IxP!Confirmed
<1>6. /\ Known = IxP!Known /\ Ix!Known = IxP!Known
  BY <1>5 DEF Known, Ix!Known, IxP!Known
<1>7. \A t, S, o : /\ Parents(t) = IxP!Parents(t) /\ Ix!Parents(t) = IxP!Parents(t)
                   /\ SpendersIn(S, o) = IxP!SpendersIn(S, o)
                   /\ Ix!SpendersIn(S, o) = IxP!SpendersIn(S, o)
  BY DEF Parents, Ix!Parents, IxP!Parents, SpendersIn, Ix!SpendersIn, IxP!SpendersIn
<1>8. \A S, R : /\ Minable(S, R) <=> IxP!Minable(S, R)
                /\ Ix!Minable(S, R) <=> IxP!Minable(S, R)
  BY <1>7 DEF Minable, Ix!Minable, IxP!Minable
<1>9. \A t : /\ Submit(t) <=> IxP!Submit(t)
             /\ Ix!Submit(t) <=> IxP!Submit(t)
  BY <1>6, <1>7 DEF Submit, Ix!Submit, IxP!Submit
<1>10. \A b : /\ Mine(b) <=> IxP!Mine(b)
              /\ Ix!Mine(b) <=> IxP!Mine(b)
  BY <1>5, <1>8 DEF Mine, Ix!Mine, IxP!Mine
<1>11. \A b1, b2 : /\ Reorg(b1, b2) <=> IxP!Reorg(b1, b2)
                   /\ Ix!Reorg(b1, b2) <=> IxP!Reorg(b1, b2)
  BY <1>8 DEF Reorg, Ix!Reorg, IxP!Reorg
<1>12. /\ NodeNext <=> IxP!NodeNext
       /\ Ix!NodeNext <=> IxP!NodeNext
  BY <1>2, <1>9, <1>10, <1>11 DEF NodeNext, Ix!NodeNext, IxP!NodeNext
<1> QED
  BY <1>1, <1>3, <1>4, <1>12

LEMMA SameSteps ==
  /\ \A f : Ix!Start(f) <=> IxP!Start(f)
  /\ Ix!LoadStatus <=> IxP!LoadStatus
  /\ Ix!FetchBlock <=> IxP!FetchBlock
  /\ \A t : Ix!DecodeOk(t) <=> IxP!DecodeOk(t)
  /\ \A t : Ix!DecodeErr(t) <=> IxP!DecodeErr(t)
  /\ Ix!Store <=> IxP!Store
  /\ Ix!Advance <=> IxP!Advance
  /\ Ix!Final <=> IxP!Final
  /\ Ix!Poll <=> IxP!Poll
  /\ Ix!BlockFault <=> IxP!BlockFault
  /\ Ix!StatusFault <=> IxP!StatusFault
  /\ Ix!Crash <=> IxP!Crash
  /\ Ix!NodeStep <=> IxP!NodeStep
<1> USE DEF Ix!dbVars, IxP!dbVars, Ix!localVars, IxP!localVars,
            Ix!historyVars, IxP!historyVars, Ix!boundVars, IxP!boundVars,
            Ix!nodeVars, IxP!nodeVars
<1>1. \A f : Ix!Start(f) <=> IxP!Start(f)
  BY DEF Ix!Start, IxP!Start
<1>2. \A h, top, atEnd : Ix!LoopFrom(h, top, atEnd) <=> IxP!LoopFrom(h, top, atEnd)
  BY DEF Ix!LoopFrom, IxP!LoopFrom
<1>3. \A h, S : Ix!SetLastBlock(h, S) <=> IxP!SetLastBlock(h, S)
  BY DEF Ix!SetLastBlock, IxP!SetLastBlock, Ix!PassedOver, IxP!PassedOver
<1>4. Ix!Fault <=> IxP!Fault
  BY DEF Ix!Fault, IxP!Fault
<1>5. Ix!LoadStatus <=> IxP!LoadStatus
  BY <1>2 DEF Ix!LoadStatus, IxP!LoadStatus
<1>6. Ix!FetchBlock <=> IxP!FetchBlock
  BY DEF Ix!FetchBlock, IxP!FetchBlock
<1>7. \A t : Ix!DecodeOk(t) <=> IxP!DecodeOk(t)
  BY DEF Ix!DecodeOk, IxP!DecodeOk
<1>8. \A t : Ix!DecodeErr(t) <=> IxP!DecodeErr(t)
  BY DEF Ix!DecodeErr, IxP!DecodeErr
<1>9. Ix!Store <=> IxP!Store
  BY DEF Ix!Store, IxP!Store
<1>10. Ix!Advance <=> IxP!Advance
  BY <1>2, <1>3 DEF Ix!Advance, IxP!Advance
<1>11. Ix!Final <=> IxP!Final
  BY <1>3 DEF Ix!Final, IxP!Final
<1>12. Ix!Poll <=> IxP!Poll
  BY <1>2 DEF Ix!Poll, IxP!Poll
<1>13. Ix!BlockFault <=> IxP!BlockFault
  BY <1>4 DEF Ix!BlockFault, IxP!BlockFault
<1>14. Ix!StatusFault <=> IxP!StatusFault
  BY <1>4 DEF Ix!StatusFault, IxP!StatusFault
<1>15. Ix!Crash <=> IxP!Crash
  BY DEF Ix!Crash, IxP!Crash
<1>16. Ix!NodeStep <=> IxP!NodeStep
  BY SameNode DEF Ix!NodeStep, IxP!NodeStep
<1> QED
  BY <1>1, <1>5, <1>6, <1>7, <1>8, <1>9, <1>10, <1>11, <1>12, <1>13, <1>14, <1>15, <1>16

LEMMA SameNext ==
  /\ Ix!Init <=> IxP!Init
  /\ [Ix!Next]_(Ix!vars) <=> [IxP!Next]_(IxP!vars)
<1>1. Ix!Init <=> IxP!Init
  BY SameNode DEF Ix!Init, IxP!Init, Ix!IndexerInit, IxP!IndexerInit
<1>2. Ix!IndexerStep <=> IxP!IndexerStep
  BY SameSteps DEF Ix!IndexerStep, IxP!IndexerStep
<1>3. Ix!Next <=> IxP!Next
  BY <1>2, SameSteps DEF Ix!Next, IxP!Next
<1> QED
  BY <1>1, <1>3 DEF Ix!vars, IxP!vars, Ix!nodeVars, IxP!nodeVars,
                   Ix!indexerVars, IxP!indexerVars, Ix!dbVars, IxP!dbVars,
                   Ix!localVars, IxP!localVars, Ix!historyVars, IxP!historyVars,
                   Ix!boundVars, IxP!boundVars

LEMMA SameSpec == Ix!Spec => IxP!Spec
  BY SameNext, PTL DEF Ix!Spec, IxP!Spec

-----------------------------------------------------------------------------
(* Every step is one of the indexer, of the decoder, or of the node *)

LEMMA StepIndexes ==
  ASSUME start \in Tx, [SystemNext]_systemVars
  PROVE  [Ix!Next]_(Ix!vars)
<1>1. UNCHANGED <<nodeVars, indexerVars>> => UNCHANGED Ix!vars
  BY DEF nodeVars, indexerVars, Ix!vars, Ix!nodeVars, Ix!indexerVars, Ix!dbVars,
         Ix!localVars, Ix!historyVars, Ix!boundVars
<1>2. CASE OutsideDecode
  BY <1>2 DEF OutsideDecode, Ix!Next, Ix!IndexerStep
<1>3. CASE \/ \E t \in Tx : DecodeBegin(t)
           \/ DecodeStep \/ DecodeFault
  <2>1. UNCHANGED <<nodeVars, indexerVars>>
    BY <1>3 DEF DecodeBegin, DecodeStep, DecodeFault
  <2> QED
    BY <1>1, <2>1
<1>4. CASE DecodeReturn
  BY <1>4 DEF DecodeReturn, Ix!Next, Ix!IndexerStep
<1>5. CASE Restart \/ SystemFault \/ SystemCrash \/ SystemNode
  BY <1>5 DEF Restart, SystemFault, SystemCrash, SystemNode, Ix!Next
<1>6. CASE UNCHANGED systemVars
  <2>1. UNCHANGED <<nodeVars, indexerVars>>
    BY <1>6 DEF systemVars
  <2> QED
    BY <1>1, <2>1
<1> QED
  BY <1>2, <1>3, <1>4, <1>5, <1>6 DEF SystemNext, ProgramStep

(* The program's steps leave the node alone. *)
LEMMA OwnSteps ==
  /\ OutsideDecode \/ DecodeReturn \/ Restart \/ SystemFault \/ SystemCrash
       => UNCHANGED nodeVars
  /\ (\E t \in Tx : DecodeBegin(t)) \/ DecodeStep \/ DecodeFault
       => UNCHANGED nodeVars /\ UNCHANGED indexerVars /\ unsure' = unsure
<1>1. OutsideDecode => UNCHANGED nodeVars
  BY DEF OutsideDecode, Ix!LoadStatus, Ix!FetchBlock, Ix!Store, Ix!Advance, Ix!Final,
         Ix!Poll, Ix!nodeVars, nodeVars
<1>2. DecodeReturn => UNCHANGED nodeVars
  BY DEF DecodeReturn, Ix!DecodeOk, Ix!DecodeErr, Ix!nodeVars, nodeVars
<1>3. Restart \/ SystemFault \/ SystemCrash => UNCHANGED nodeVars
  BY DEF Restart, SystemFault, SystemCrash, Ix!Start, Ix!BlockFault, Ix!StatusFault,
         Ix!Crash, Ix!nodeVars, nodeVars
<1>4. (\E t \in Tx : DecodeBegin(t)) \/ DecodeStep \/ DecodeFault
        => UNCHANGED nodeVars /\ UNCHANGED indexerVars /\ unsure' = unsure
  BY DEF DecodeBegin, DecodeStep, DecodeFault
<1> QED
  BY <1>1, <1>2, <1>3, <1>4

LEMMA NodeStepMoves ==
  ASSUME SystemNode
  PROVE  /\ NodeNext /\ NodeMoves /\ unsure' = unsure
         /\ reorged' = reorged \cup Displaced
         /\ UNCHANGED <<table, lastBlock, ipc, todo, cand, warned, skipped>>
<1>1. Ix!NodeStep /\ NodeMoves /\ unsure' = unsure
  BY DEF SystemNode
<1>2. Ix!NodeNext /\ reorged' = reorged \cup Ix!Displaced
  BY <1>1 DEF Ix!NodeStep
<1>3. UNCHANGED <<table, lastBlock, ipc, todo, cand, warned, skipped>>
  BY <1>1 DEF Ix!NodeStep, Ix!dbVars, Ix!localVars
<1> QED
  BY <1>1, <1>2, <1>3, SameNode

LEMMA StepDecodes ==
  ASSUME [SystemNext]_systemVars, todo \subseteq Detected
  PROVE  \/ [Next]_vars
         \/ WalkOver /\ UNCHANGED nodeVars
<1>1. CASE OutsideDecode \/ Restart \/ SystemFault
  <2>1. UNCHANGED nodeVars /\ UNCHANGED decoderVars
    BY <1>1, OwnSteps DEF OutsideDecode, Restart, SystemFault
  <2> QED
    BY <2>1 DEF vars
<1>2. CASE DecodeReturn \/ SystemCrash
  BY <1>2, OwnSteps DEF DecodeReturn, SystemCrash
<1>3. CASE \E t \in Tx : DecodeBegin(t)
  BY <1>3 DEF DecodeBegin, Next, DecoderNext
<1>4. CASE DecodeStep \/ DecodeFault
  BY <1>4 DEF DecodeStep, DecodeFault, Next, DecoderNext
<1>5. CASE SystemNode
  BY <1>5, NodeStepMoves DEF Next
<1>6. CASE UNCHANGED systemVars
  BY <1>6 DEF systemVars, vars
<1> QED
  BY <1>1, <1>2, <1>3, <1>4, <1>5, <1>6 DEF SystemNext, ProgramStep

LEMMA WalkOverKeeps ==
  ASSUME DecoderInv, WalkOver, UNCHANGED nodeVars
  PROVE  DecoderInv'
<1>1. NodeTypeOK' /\ Ledger'
  BY DEF DecoderInv, WalkInv, Typed, TypeOK, NodeTypeOK, nodeVars, Ledger, OnceOnly,
         SpentOnce, ParentsBelow, Known, Confirmed
<1>2. chunks' \in Seq(ChunkValue)
  BY DEF WalkOver
<1>3. Typed'
  BY <1>1, <1>2, Answers DEF WalkOver, DecoderInv, WalkInv, Typed, TypeOK, Working
<1> QED
  BY <1>1, <1>3 DEF WalkOver, DecoderInv, WalkInv, Walked, OkIsTheFile, WholeInv, Working

-----------------------------------------------------------------------------
(* The invariant *)

(* A decode is under way only for a transaction of the block in hand. *)
InDecode == pc # "idle" => ipc = "txs" /\ start \in todo

(* What is about to be stored was published. *)
HandPublished == \A t \in cand : Published(t)

(* Every warning has its reason. *)
Explained ==
  \A t \in warned : t \in unsure \/ Disturbed(t) \/ TailSpent(t) \/ WideGap(t)

SystemInv ==
  /\ DecoderInv /\ IxP!Inv
  /\ InDecode /\ HandPublished /\ IndexedIsPublished /\ Explained

LEMMA StepInDecode ==
  ASSUME InDecode, [SystemNext]_systemVars
  PROVE  InDecode'
<1>1. CASE OutsideDecode
  <2>1. pc' = pc
    BY <1>1 DEF OutsideDecode, decoderVars
  <2>2. ipc # "txs" \/ todo = {}
    BY <1>1 DEF OutsideDecode, Ix!LoadStatus, Ix!FetchBlock, Ix!Store, Ix!Advance,
                Ix!Final, Ix!Poll
  <2> QED
    BY <2>1, <2>2 DEF InDecode
<1>2. CASE DecodeReturn \/ SystemCrash
  BY <1>2 DEF DecodeReturn, SystemCrash, WalkOver, InDecode
<1>3. CASE \E t \in Tx : DecodeBegin(t)
  BY <1>3 DEF DecodeBegin, Begin, indexerVars, InDecode
<1>4. CASE DecodeStep
  <2>1. pc \in Working /\ start' = start
    BY <1>4 DEF DecodeStep, DecoderStep, FetchTx, GetRawMempool, ScanMempool,
                GetTransactionInfo, GetBlockCount, ScanBlock, Working
  <2> QED
    BY <1>4, <2>1 DEF DecodeStep, indexerVars, InDecode, Working
<1>5. CASE DecodeFault
  BY <1>5 DEF DecodeFault, RpcFault, indexerVars, InDecode, Working
<1>6. CASE Restart \/ SystemFault
  <2>1. pc' = pc
    BY <1>6 DEF Restart, SystemFault, decoderVars
  <2>2. ipc # "txs" \/ todo = {}
    BY <1>6 DEF Restart, SystemFault, Ix!Start, Ix!BlockFault, Ix!StatusFault
  <2> QED
    BY <2>1, <2>2 DEF InDecode
<1>7. CASE SystemNode
  BY <1>7, NodeStepMoves DEF NodeMoves, InDecode
<1>8. CASE UNCHANGED systemVars
  BY <1>8 DEF systemVars, indexerVars, decoderVars, InDecode
<1> QED
  BY <1>1, <1>2, <1>3, <1>4, <1>5, <1>6, <1>7, <1>8 DEF SystemNext, ProgramStep

(* What is published stays so.                                             *)
LEMMA StaysPublished ==
  ASSUME NodeTypeOK, UNCHANGED nodeVars \/ NodeNext
  PROVE  /\ Known \subseteq Known'
         /\ \A t : Published(t) => Published(t)'
         /\ \A t : TailSpent(t) => TailSpent(t)'
<1>1. Known \subseteq Known'
  <2>1. UNCHANGED nodeVars => Known' = Known
    BY DEF nodeVars, Known, Confirmed
  <2> QED
    BY <2>1, KnownGrows
<1>2. \A t : Published(t) => Published(t)'
  BY <1>1 DEF Published
<1>3. \A t : TailSpent(t) => TailSpent(t)'
  BY <1>1 DEF TailSpent, SpendersIn
<1> QED
  BY <1>1, <1>2, <1>3

LEMMA StepNode ==
  ASSUME [SystemNext]_systemVars
  PROVE  UNCHANGED nodeVars \/ NodeNext
<1>1. UNCHANGED systemVars => UNCHANGED nodeVars
  BY DEF systemVars
<1>2. CASE OutsideDecode \/ DecodeReturn \/ Restart \/ SystemFault \/ SystemCrash
  BY <1>2, OwnSteps
<1>3. CASE \/ \E t \in Tx : DecodeBegin(t)
           \/ DecodeStep \/ DecodeFault
  BY <1>3, OwnSteps
<1>4. CASE SystemNode
  BY <1>4, NodeStepMoves
<1> QED
  BY <1>1, <1>2, <1>3, <1>4 DEF SystemNext, ProgramStep

(* What comes to the hand is what decode has returned.                     *)
LEMMA StepHand ==
  ASSUME SystemInv, [SystemNext]_systemVars
  PROVE  \A t \in cand' : t \in cand \/ (t = start /\ Published(t))
<1>1. CASE DecodeReturn
  <2>1. CASE result.ok
    <3>1. Published(start)
      BY <1>1, <2>1 DEF DecodeReturn, SystemInv, DecoderInv, WalkInv, OkIsTheFile, Published
    <3>2. cand' = {start}
      BY <1>1, <2>1 DEF DecodeReturn, Ix!DecodeOk
    <3> QED
      BY <3>1, <3>2
  <2>2. CASE ~result.ok
    BY <1>1, <2>2 DEF DecodeReturn, Ix!DecodeErr
  <2> QED
    BY <2>1, <2>2
<1>2. CASE OutsideDecode
  BY <1>2 DEF OutsideDecode, Ix!LoadStatus, Ix!FetchBlock, Ix!Store, Ix!Advance,
              Ix!Final, Ix!Poll
<1>3. CASE \/ \E t \in Tx : DecodeBegin(t)
           \/ DecodeStep \/ DecodeFault
  <2>1. UNCHANGED indexerVars
    BY <1>3, OwnSteps
  <2> QED
    BY <2>1 DEF indexerVars
<1>4. CASE Restart \/ SystemFault \/ SystemCrash
  BY <1>4 DEF Restart, SystemFault, SystemCrash, Ix!Start, Ix!BlockFault, Ix!StatusFault,
              Ix!Crash, Ix!localVars
<1>5. CASE SystemNode
  BY <1>5, NodeStepMoves
<1>6. CASE UNCHANGED systemVars
  BY <1>6 DEF systemVars, indexerVars
<1> QED
  BY <1>1, <1>2, <1>3, <1>4, <1>5, <1>6 DEF SystemNext, ProgramStep

(* An entry that was not there is the one in hand.                         *)
LEMMA StepTable ==
  ASSUME [SystemNext]_systemVars, NEW t \in Tx, Ix!Indexed(t)'
  PROVE  Ix!Indexed(t) \/ t \in cand
<1> SUFFICES ASSUME table'[t] # table[t]
             PROVE  t \in cand
  BY DEF Ix!Indexed
<1>1. CASE OutsideDecode
  BY <1>1 DEF OutsideDecode, Ix!LoadStatus, Ix!FetchBlock, Ix!Store, Ix!Advance,
              Ix!Final, Ix!Poll, Ix!dbVars
<1>2. CASE DecodeReturn
  BY <1>2 DEF DecodeReturn, Ix!DecodeOk, Ix!DecodeErr, Ix!dbVars
<1>3. CASE \/ \E u \in Tx : DecodeBegin(u)
           \/ DecodeStep \/ DecodeFault
  <2>1. UNCHANGED indexerVars
    BY <1>3, OwnSteps
  <2> QED
    BY <2>1 DEF indexerVars
<1>4. CASE Restart \/ SystemFault \/ SystemCrash
  BY <1>4 DEF Restart, SystemFault, SystemCrash, Ix!Start, Ix!BlockFault, Ix!StatusFault,
              Ix!Crash, Ix!dbVars
<1>5. CASE SystemNode
  BY <1>5, NodeStepMoves
<1>6. CASE UNCHANGED systemVars
  BY <1>6 DEF systemVars, indexerVars
<1> QED
  BY <1>1, <1>2, <1>3, <1>4, <1>5, <1>6 DEF SystemNext, ProgramStep

LEMMA StepPublished ==
  ASSUME SystemInv, [SystemNext]_systemVars
  PROVE  HandPublished' /\ IndexedIsPublished'
<1>1. \A t : Published(t) => Published(t)'
  BY StepNode, StaysPublished DEF SystemInv, DecoderInv, WalkInv, Typed, TypeOK
<1>2. HandPublished'
  BY <1>1, StepHand DEF SystemInv, HandPublished
<1>3. ASSUME NEW t \in Tx, Ix!Indexed(t)'
      PROVE  Published(t)'
  BY <1>1, <1>3, StepTable DEF SystemInv, HandPublished, IndexedIsPublished
<1> QED
  BY <1>2, <1>3 DEF IndexedIsPublished

(* The histories only grow, and a new warning is for the transaction that  *)
(* decode has failed on.                                                   *)
LEMMA StepHistory ==
  ASSUME [SystemNext]_systemVars
  PROVE  /\ unsure \subseteq unsure' /\ reorged \subseteq reorged'
         /\ \A t \in warned' :
              \/ t \in warned
              \/ /\ t = start /\ pc = "done" /\ ~result.ok
                 /\ whole \/ t \in unsure'
         /\ \/ UNCHANGED nodeVars
            \/ NodeNext /\ reorged' = reorged \cup Displaced
<1>1. CASE DecodeReturn
  <2>1. unsure \subseteq unsure' /\ (whole \/ start \in unsure') /\ pc = "done"
    BY <1>1 DEF DecodeReturn
  <2>2. CASE result.ok
    BY <1>1, <2>1, <2>2, OwnSteps DEF DecodeReturn, Ix!DecodeOk, Ix!historyVars
  <2>3. CASE ~result.ok
    BY <1>1, <2>1, <2>3, OwnSteps DEF DecodeReturn, Ix!DecodeErr
  <2> QED
    BY <2>2, <2>3
<1>2. CASE OutsideDecode
  <2>1. warned' = warned /\ reorged' = reorged
    BY <1>2 DEF OutsideDecode, Ix!LoadStatus, Ix!FetchBlock, Ix!Store, Ix!Advance,
                Ix!Final, Ix!Poll, Ix!historyVars
  <2> QED
    BY <1>2, <2>1, OwnSteps DEF OutsideDecode
<1>3. CASE \/ \E t \in Tx : DecodeBegin(t)
           \/ DecodeStep \/ DecodeFault
  <2>1. UNCHANGED nodeVars /\ UNCHANGED indexerVars /\ unsure' = unsure
    BY <1>3, OwnSteps
  <2> QED
    BY <2>1 DEF indexerVars
<1>4. CASE Restart \/ SystemFault \/ SystemCrash
  <2>1. warned' = warned /\ reorged' = reorged
    BY <1>4 DEF Restart, SystemFault, SystemCrash, Ix!Start, Ix!BlockFault, Ix!StatusFault,
                Ix!Crash, Ix!historyVars
  <2> QED
    BY <1>4, <2>1, OwnSteps DEF Restart, SystemFault, SystemCrash
<1>5. CASE SystemNode
  BY <1>5, NodeStepMoves
<1>6. CASE UNCHANGED systemVars
  BY <1>6 DEF systemVars, indexerVars
<1> QED
  BY <1>1, <1>2, <1>3, <1>4, <1>5, <1>6 DEF SystemNext, ProgramStep

(* A wide gap stays, unless a reorganisation moves one of its ends.        *)
LEMMA GapOrDisturbed ==
  ASSUME NodeTypeOK, Ledger, NodeNext, reorged' = reorged \cup Displaced,
         NEW t, WideGap(t)
  PROVE  WideGap(t)' \/ Disturbed(t)'
<1>1. OnceOnly' /\ BlocksKept /\ NodeTypeOK'
  BY NodeKeeps, NodeTypes DEF Ledger
<1>2. PICK k \in Knotworks : \E i \in 2 .. Len(k.txs) :
        /\ Head(k.txs) = t
        /\ {k.txs[i - 1], k.txs[i]} \subseteq Confirmed
        /\ HeightOf(k.txs[i]) > HeightOf(k.txs[i - 1]) + MAX_BLOCKS_TO_SCAN
  BY DEF WideGap
<1>3. PICK i \in 2 .. Len(k.txs) :
        /\ Head(k.txs) = t
        /\ {k.txs[i - 1], k.txs[i]} \subseteq Confirmed
        /\ HeightOf(k.txs[i]) > HeightOf(k.txs[i - 1]) + MAX_BLOCKS_TO_SCAN
  BY <1>2
<1>4. {k.txs[i - 1], k.txs[i]} \subseteq ToSet(k.txs)
  <2>1. Len(k.txs) \in Nat /\ DOMAIN k.txs = 1 .. Len(k.txs)
    BY Knots
  <2>2. i - 1 \in DOMAIN k.txs /\ i \in DOMAIN k.txs
    BY <2>1
  <2> QED
    BY <2>2 DEF ToSet
<1>5. ASSUME NEW u \in Confirmed, u \notin reorged'
      PROVE  u \in Confirmed' /\ HeightOf(u)' = HeightOf(u)
  <2> DEFINE h == HeightOf(u)
  <2>1. h \in DOMAIN chain /\ u \in chain[h].txs
    BY HeightFound
  <2> HIDE DEF h
  <2>2. /\ DOMAIN chain = 1 .. Len(chain) /\ Len(chain) \in Nat
        /\ DOMAIN chain' = 1 .. Len(chain') /\ Len(chain') \in Nat
    BY <1>1 DEF NodeTypeOK
  <2>3. h \in DOMAIN chain' /\ u \in chain'[h].txs
    BY <1>1, <1>5, <2>1, <2>2 DEF BlocksKept
  <2>4. u \in Confirmed'
    BY <2>3 DEF Confirmed
  <2>5. \A g \in DOMAIN chain' : u \in chain'[g].txs => g = h
    BY <1>1, <2>3 DEF OnceOnly
  <2>6. HeightOf(u)' = h
    BY <2>3, <2>5 DEF HeightOf
  <2> QED
    BY <2>4, <2>6 DEF h
<1>6. CASE k.txs[i - 1] \in reorged' \/ k.txs[i] \in reorged'
  BY <1>3, <1>4, <1>6 DEF Disturbed
<1>7. CASE ~(k.txs[i - 1] \in reorged' \/ k.txs[i] \in reorged')
  <2> DEFINE a == k.txs[i - 1]
             b == k.txs[i]
  <2>1. {a, b} \subseteq Confirmed /\ HeightOf(b) > HeightOf(a) + MAX_BLOCKS_TO_SCAN
    BY <1>3
  <2>2. a \notin reorged' /\ b \notin reorged'
    BY <1>7
  <2> HIDE DEF a, b
  <2>3. {a, b} \subseteq Confirmed' /\ HeightOf(b)' > HeightOf(a)' + MAX_BLOCKS_TO_SCAN
    BY <1>5, <2>1, <2>2
  <2> QED
    BY <1>3, <2>3 DEF WideGap, a, b
<1> QED
  BY <1>6, <1>7

LEMMA StepExplained ==
  ASSUME SystemInv, [SystemNext]_systemVars
  PROVE  Explained'
<1>1. NodeTypeOK /\ Ledger /\ PublishedDecodes
  BY WholeIsDecoded DEF SystemInv, DecoderInv, WalkInv, Typed, TypeOK
<1>2. \A t : TailSpent(t) => TailSpent(t)'
  BY <1>1, StepNode, StaysPublished
<1>3. \A t : Disturbed(t) => Disturbed(t)'
  BY StepHistory DEF Disturbed
<1>4. \A t : WideGap(t) => WideGap(t)' \/ Disturbed(t)'
  <2>1. UNCHANGED nodeVars => \A t : WideGap(t)' <=> WideGap(t)
    BY DEF nodeVars, WideGap, Confirmed, HeightOf
  <2> QED
    BY <1>1, <2>1, StepHistory, GapOrDisturbed
<1>5. ASSUME NEW t \in warned'
      PROVE  t \in unsure' \/ Disturbed(t)' \/ TailSpent(t)' \/ WideGap(t)'
  <2>1. \/ t \in warned
        \/ t = start /\ pc = "done" /\ ~result.ok /\ (whole \/ t \in unsure')
    BY StepHistory
  <2>2. t \in warned => t \in unsure \/ Disturbed(t) \/ TailSpent(t) \/ WideGap(t)
    BY DEF SystemInv, Explained
  <2>3. unsure \subseteq unsure'
    BY StepHistory
  <2>4. t = start /\ pc = "done" /\ ~result.ok /\ whole => TailSpent(t) \/ WideGap(t)
    BY <1>1 DEF PublishedDecodes
  <2> QED
    BY <1>2, <1>3, <1>4, <2>1, <2>2, <2>3, <2>4
<1> QED
  BY <1>5 DEF Explained

-----------------------------------------------------------------------------
(* The specification *)

LEMMA InitSystemInv ==
  ASSUME SystemInit, IxP!Inv
  PROVE  SystemInv
<1>1. NodeInit /\ DecoderInit
  BY SameNode DEF SystemInit, Ix!Init
<1>2. WalkInv /\ Ledger
  BY <1>1, InitWalkInv, InitLedger DEF Init
<1>3. DecoderInv
  BY <1>1, <1>2 DEF DecoderInit, DecoderInv, WholeInv
<1>4. \A t \in Tx : ~Ix!Indexed(t)
  BY DEF SystemInit, Ix!Init, Ix!IndexerInit, Ix!Indexed
<1>5. cand = {} /\ warned = {}
  BY DEF SystemInit, Ix!Init, Ix!IndexerInit
<1>6. pc = "idle"
  BY <1>1 DEF DecoderInit
<1> QED
  BY <1>3, <1>4, <1>5, <1>6 DEF SystemInv, InDecode, HandPublished, IndexedIsPublished, Explained

LEMMA StepSystemInv ==
  ASSUME SystemInv, IxP!Inv', [SystemNext]_systemVars
  PROVE  SystemInv'
<1>1. todo \subseteq Detected
  BY DEF SystemInv, IxP!Inv, IxP!TypeOK
<1>2. DecoderInv'
  BY <1>1, StepDecodes, StepDecoderInv, WalkOverKeeps DEF SystemInv
<1> QED
  BY <1>2, StepInDecode, StepPublished, StepExplained DEF SystemInv

LEMMA IndexerInit == Ix!Init => IxP!Inv
<1>1. IxP!Init => IxP!Inv
  BY Assumed, IxP!InitInv
<1> QED
  BY <1>1, SameNext

LEMMA IndexerStep == IxP!Inv /\ [Ix!Next]_(Ix!vars) => IxP!Inv'
<1>1. IxP!Inv /\ [IxP!Next]_(IxP!vars) => IxP!Inv'
  BY Assumed, IxP!StepInv
<1> QED
  BY <1>1, SameNext

LEMMA StartTyped == SystemInv => start \in Tx
  BY DetectedInTx DEF SystemInv, DecoderInv, WalkInv, Typed, TypeOK

LEMMA SystemInvHolds == SystemSpec => []SystemInv
<1>1. SystemInit => SystemInv
  BY InitSystemInv, IndexerInit DEF SystemInit
<1>2. SystemInv /\ [SystemNext]_systemVars => SystemInv'
  <2> SUFFICES ASSUME SystemInv, [SystemNext]_systemVars
               PROVE  SystemInv'
    OBVIOUS
  <2>1. [Ix!Next]_(Ix!vars)
    BY StartTyped, StepIndexes
  <2>2. IxP!Inv'
    BY <2>1, IndexerStep DEF SystemInv
  <2> QED
    BY <2>2, StepSystemInv
<1> QED
  BY <1>1, <1>2, PTL DEF SystemSpec

(* The system, decode's many calls included, is an indexer that decodes in *)
(* one step: every step is one of Indexer's, or changes nothing of it.     *)
(* (That decode also ends, the fairness of ImplementsIndexer, is checked   *)
(* and not proved.)                                                        *)
THEOREM SystemImplementsIndexer == SystemSpec => Ix!Spec
<1>1. SystemInit => Ix!Init
  BY DEF SystemInit
<1>2. SystemInv /\ [SystemNext]_systemVars => [Ix!Next]_(Ix!vars)
  BY StartTyped, StepIndexes
<1> QED
  BY <1>1, <1>2, SystemInvHolds, PTL DEF SystemSpec, Ix!Spec

(* A reader of the database of the whole system, the real decoder          *)
(* included, sees no more than the abstract catalogue lets it: entries     *)
(* found, transactions given up and blocks accounted for.                  *)
THEOREM SystemIsACatalogue == SystemSpec => IxP!ImplementsCatalogue
<1>1. IxP!Spec => IxP!ImplementsCatalogue
  BY Assumed, IxP!IndexerImplementsCatalogue
<1> QED
  BY <1>1, SystemImplementsIndexer, SameSpec, PTL

(* When decode returns the file, the indexer has an entry to store for it: *)
(* DecodeReturn never waits for Indexer's DecodeOk.                        *)
THEOREM DecodedIsStored ==
  SystemSpec => [](pc = "done" => ipc = "txs" /\ start \in todo \cap Heads)
<1>1. SystemInv => (pc = "done" => ipc = "txs" /\ start \in todo \cap Heads)
  BY HeadsAreDetected DEF SystemInv, InDecode, DecoderInv, WalkInv, Typed, TypeOK
<1> QED
  BY <1>1, SystemInvHolds, PTL

(* The types of the indexer, of the decoder and of the node, and that a    *)
(* decode is under way only for a transaction of the block in hand.        *)
THEOREM SystemTypes == SystemSpec => []SystemTypeOK
<1>1. IxP!TypeOK => Ix!TypeOK
  BY SameNode DEF IxP!TypeOK, Ix!TypeOK, IxP!NodeTypeOK, Ix!NodeTypeOK, IxP!Block, Ix!Block,
                  IxP!Entry, Ix!Entry, IxP!PCs, Ix!PCs
<1>2. SystemInv => SystemTypeOK
  BY <1>1 DEF SystemInv, SystemTypeOK, IxP!Inv, DecoderInv, WalkInv, Typed, InDecode
<1> QED
  BY <1>2, SystemInvHolds, PTL

LEMMA NoLoss == SystemInv => Ix!NoSilentLoss /\ Ix!EntryAccurate
<1>1. SystemInv => IxP!NoSilentLoss /\ IxP!EntryAccurate
  BY DEF SystemInv, IxP!Inv, IxP!ContentInv
<1>2. IxP!NoSilentLoss => Ix!NoSilentLoss
  BY DEF IxP!NoSilentLoss, Ix!NoSilentLoss, IxP!Covered, Ix!Covered, IxP!Indexed, Ix!Indexed
<1>3. IxP!EntryAccurate => Ix!EntryAccurate
  BY DEF IxP!EntryAccurate, Ix!EntryAccurate, IxP!Indexed, Ix!Indexed
<1> QED
  BY <1>1, <1>2, <1>3

(* The index of the system with the real decoder loses no block's          *)
(* knotworks without a warning, and its entries say where they are.        *)
THEOREM SystemIndexIsTrue == SystemSpec => [](Ix!NoSilentLoss /\ Ix!EntryAccurate)
  BY NoLoss, SystemInvHolds, PTL

(* Nothing is in the index that was not published to its last chunk.       *)
THEOREM OnlyPublishedIsIndexed == SystemSpec => []IndexedIsPublished
<1>1. SystemInv => IndexedIsPublished
  BY DEF SystemInv
<1> QED
  BY <1>1, SystemInvHolds, PTL

(* A published knotwork in a block that the status claims is in the index, *)
(* whatever the node, the calls and the process did: what may keep it out  *)
(* is that decode began before all of it was there, a failed call or a     *)
(* reorganisation while it ran or of its transactions, a spent last output *)
(* or a gap that the scan does not reach over.                             *)
THEOREM AllPublishedIsIndexed == SystemSpec => []PublishedIsIndexed
<1>1. ASSUME SystemInv, NEW h \in (1 .. lastBlock) \ skipped, NEW t \in chain[h].txs \cap Heads
      PROVE  \/ Ix!Indexed(t)
             \/ t \in unsure \/ Disturbed(t)
             \/ TailSpent(t) \/ WideGap(t)
  <2>1. Ix!Indexed(t) \/ t \in warned \cup reorged
    BY <1>1, NoLoss, HeadsAreDetected DEF Ix!NoSilentLoss, Ix!Covered
  <2>2. t \in warned => t \in unsure \/ Disturbed(t) \/ TailSpent(t) \/ WideGap(t)
    BY <1>1 DEF SystemInv, Explained
  <2>3. ASSUME t \in reorged
        PROVE  Disturbed(t)
    <3>1. PICK k \in Knotworks : Head(k.txs) = t
      BY DEF Heads
    <3>2. t \in ToSet(k.txs)
      BY <3>1, Knots DEF ToSet
    <3> QED
      BY <2>3, <3>1, <3>2 DEF Disturbed
  <2> QED
    BY <2>1, <2>2, <2>3
<1>2. SystemInv => PublishedIsIndexed
  BY <1>1 DEF PublishedIsIndexed
<1> QED
  BY <1>2, SystemInvHolds, PTL
================================================================================
