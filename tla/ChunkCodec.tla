------------------------------ MODULE ChunkCodec ------------------------------
(***************************************************************************)
(* The chained OP_RETURN format: how chunk_data cuts a file into chunks,   *)
(* how Chunk::encode and the OP_RETURN push lay a chunk out in an output   *)
(* script, and how the decoder reads scripts back into a file.  Everything *)
(* here is a pure function; the processes that call them are in other      *)
(* modules.                                                                *)
(***************************************************************************)
EXTENDS Knotwork

CONSTANTS
  MAX_OP_RETURN_SIZE,       (* bytes of payload per OP_RETURN              *)
  MIN_LAST_CHUNK_SIZE,      (* the last chunk is padded to this many bytes *)
  MAX_CHAINED_TRANSACTIONS  (* unconfirmed ancestors the node relays       *)

METADATA_SIZE == 5
FIRST_CHUNK_METADATA_SIZE == 7

(* A payload of 256 bytes needs a push that the decoder does not read.     *)
ASSUME CodecAssumption ==
  /\ MAX_OP_RETURN_SIZE \in FIRST_CHUNK_METADATA_SIZE + 1 .. 255
  /\ MIN_LAST_CHUNK_SIZE \in 0 .. MAX_OP_RETURN_SIZE - METADATA_SIZE
  /\ MAX_CHAINED_TRANSACTIONS \in Nat \ {0}

MAX_DATA_PER_CHUNK == MAX_OP_RETURN_SIZE - METADATA_SIZE
FIRST_CHUNK_MAX_DATA == MAX_OP_RETURN_SIZE - FIRST_CHUNK_METADATA_SIZE

NoSize == -1   \* file_size: None

-----------------------------------------------------------------------------
(* Encoder *)

(* Mutant of ChunksNeeded: a last chunk that is not full is forgotten. *)
ChunksNeededFloor(size) ==
  1 + (size - Least(FIRST_CHUNK_MAX_DATA, size)) \div MAX_DATA_PER_CHUNK

ChunksNeeded(size) ==
  1 + DivCeil(size - Least(FIRST_CHUNK_MAX_DATA, size), MAX_DATA_PER_CHUNK)

(* The sizes chunk_data refuses. *)
TooLarge(size) ==
  \/ size > 65535
  \/ ChunksNeeded(size) > MAX_CHAINED_TRANSACTIONS
  \/ ChunksNeeded(size) > 255

(* Mutant of Slice: the offset forgets that the first chunk is shorter. *)
SliceSkips(file, i) ==
  IF i = 1 THEN SubSeq(file, 1, Least(FIRST_CHUNK_MAX_DATA, Len(file)))
  ELSE LET offset == (i - 1) * MAX_DATA_PER_CHUNK
       IN SubSeq(file, offset + 1, Least(offset + MAX_DATA_PER_CHUNK, Len(file)))

(* The file bytes that chunk i carries; the first chunk is number 1 here   *)
(* and has index 0 in the format.                                          *)
Slice(file, i) ==
  IF i = 1 THEN SubSeq(file, 1, Least(FIRST_CHUNK_MAX_DATA, Len(file)))
  ELSE LET offset == FIRST_CHUNK_MAX_DATA + (i - 2) * MAX_DATA_PER_CHUNK
       IN SubSeq(file, offset + 1, Least(offset + MAX_DATA_PER_CHUNK, Len(file)))

(* Mutant of Pad: none. *)
NoPad(data, size) == data

Pad(data, size) ==
  IF Len(data) < size THEN data \o [k \in 1 .. size - Len(data) |-> 0] ELSE data

(* The chunks of a file that is not TooLarge.  index and total_chunks are  *)
(* u8, file_size is a u16.  Only a chunk after the first is padded.        *)
ChunkData(file) ==
  LET total == ChunksNeeded(Len(file))
  IN [i \in 1 .. total |->
        [index        |-> (i - 1) % 256,
         total_chunks |-> total % 256,
         file_size    |-> IF i = 1 THEN Len(file) % 65536 ELSE NoSize,
         data         |-> IF i > 1 /\ i = total
                          THEN Pad(Slice(file, i), MIN_LAST_CHUNK_SIZE)
                          ELSE Slice(file, i)]]

LittleEndian16(n) == <<n % 256, n \div 256>>

(* Chunk::encode *)
EncodeChunk(chunk) ==
  ORDIKNOT_PREFIX \o <<chunk.index, chunk.total_chunks>>
    \o (IF chunk.file_size = NoSize THEN <<>> ELSE LittleEndian16(chunk.file_size))
    \o chunk.data

(* create_op_return_output: the bitcoin library puts OP_RETURN (106) and   *)
(* the shortest push of the payload in the script.                         *)
OpReturnScript(payload) ==
  LET n == Len(payload)
      push == IF n < 76 THEN <<n>>
              ELSE IF n < 256 THEN <<76, n>>
              ELSE IF n < 65536 THEN <<77>> \o LittleEndian16(n)
              ELSE <<78>> \o LittleEndian16(n % 65536) \o LittleEndian16(n \div 65536)
  IN <<106>> \o push \o payload

-----------------------------------------------------------------------------
(* Decoder *)

NoChunk == [index |-> -1, total_chunks |-> 0, file_size |-> NoSize, data |-> <<>>]

(* The sizes decode.rs declares for itself; they must match the encoder's. *)
DECODER_METADATA_SIZE == 5
DECODER_FIRST_CHUNK_METADATA_SIZE == 7

(* The number of bytes pushed after OP_RETURN, and the position of the     *)
(* last length byte that was skipped: script[pos + 1] is taken to be the   *)
(* first byte of the payload.                                              *)
PushLength(s) ==
  LET op == s[2]
  IN CASE op = 76 /\ Len(s) >= 3 -> [pos |-> 3, len |-> s[3]]
       [] op = 77 /\ Len(s) >= 4 -> [pos |-> 3, len |-> s[3] + 256 * s[4]]
       [] op = 78 /\ Len(s) >= 6 ->
            [pos |-> 3, len |-> s[3] + 256 * s[4] + 65536 * (s[5] + 256 * s[6])]
       [] op <= 75 -> [pos |-> 2, len |-> op]
       [] OTHER -> [pos |-> Len(s), len |-> 1]   \* None

ExtractOpReturnData(s) ==
  IF Len(s) < 2 \/ s[1] # 106 THEN Refused
  ELSE LET push == PushLength(s)
       IN IF push.pos + push.len > Len(s) THEN Refused
          ELSE Success(SubSeq(s, push.pos + 1, push.pos + push.len))

(* Mutant of Detect: any chunk will do. *)
DetectAny(s) ==
  LET payload == ExtractOpReturnData(s)
  IN payload.ok /\ Len(payload.data) >= 5 /\ SubSeq(payload.data, 1, 3) = ORDIKNOT_PREFIX

(* detect: the output is the head of a knotwork. *)
Detect(s) ==
  LET payload == ExtractOpReturnData(s)
  IN /\ payload.ok
     /\ Len(payload.data) >= 5
     /\ SubSeq(payload.data, 1, 3) = ORDIKNOT_PREFIX
     /\ payload.data[4] = 0

(* extract_chunk_from_tx on the first OP_RETURN output of a transaction. *)
ExtractChunk(s) ==
  LET payload == ExtractOpReturnData(s)
      d       == payload.data
      header  == IF d[4] = 0 THEN DECODER_FIRST_CHUNK_METADATA_SIZE
                             ELSE DECODER_METADATA_SIZE
  IN IF \/ ~payload.ok
        \/ Len(d) < DECODER_METADATA_SIZE
        \/ SubSeq(d, 1, 3) # ORDIKNOT_PREFIX
        \/ Len(d) < header
     THEN NoChunk
     ELSE [index        |-> d[4],
           total_chunks |-> d[5],
           file_size    |-> IF d[4] = 0 THEN d[6] + 256 * d[7] ELSE NoSize,
           data         |-> SubSeq(d, header + 1, Len(d))]

(* Mutant of Assemble: what there is of the file is taken for the file. *)
AssembleLenient(chunks) ==
  LET data == FlattenSeq([i \in DOMAIN chunks |-> chunks[i].data])
  IN IF chunks = <<>> \/ chunks[1].file_size = NoSize THEN Refused
     ELSE Success(SubSeq(data, 1, Least(chunks[1].file_size, Len(data))))

(* decode, once follow_chain has returned its chunks in chain order.  The  *)
(* chunks sorted by index must be numbered 0, 1, 2, ...: there is one for  *)
(* each number, and sorting puts it in its place.                          *)
Assemble(chunks) ==
  LET n     == Len(chunks)
      at(i) == CHOOSE k \in 1 .. n : chunks[k].index = i - 1
      data  == FlattenSeq([i \in 1 .. n |-> chunks[at(i)].data])
      size  == chunks[1].file_size
  IN IF \/ n = 0
        \/ n # chunks[1].total_chunks
        \/ size = NoSize
        \/ \E i \in 1 .. n : ~\E k \in 1 .. n : chunks[k].index = i - 1
        \/ \E k \in 1 .. n : chunks[k].total_chunks # chunks[1].total_chunks
        \/ Len(data) < size
     THEN Refused
     ELSE Success(SubSeq(data, 1, size))
=============================================================================
