-------------------------------- MODULE Formats --------------------------------
(***************************************************************************)
(* The techniques applied to files of every length up to MaxFile: a body   *)
(* of distinct bytes, none of them zero, and up to MaxNulls zeros after    *)
(* it.  Byte p of the body is the value 256 + p, which no constant of the  *)
(* formats equals: a byte lost, moved or duplicated shows.                 *)
(***************************************************************************)
EXTENDS Techniques

CONSTANTS MaxFile, MaxNulls

(* The number of chunks is one byte: with a chain longer than 255 the      *)
(* message of chunk_data would state a limit it does not reach.  The       *)
(* program has 25.                                                         *)
ASSUME FormatsAssumption ==
  /\ MaxFile \in Nat /\ MaxNulls \in Nat
  /\ MAX_CHAINED_TRANSACTIONS <= 255

VARIABLES body, nulls
formatsVars == <<body, nulls>>

FormatsInit == body = <<>> /\ nulls = 0

GrowBody ==
  /\ Len(body) < MaxFile /\ nulls = 0
  /\ body' = Append(body, 257 + Len(body))
  /\ UNCHANGED nulls

AddNull ==
  /\ nulls < MaxNulls
  /\ nulls' = nulls + 1
  /\ UNCHANGED body

FormatsNext == GrowBody \/ AddNull
FormatsSpec == FormatsInit /\ [][FormatsNext]_formatsVars

File == body \o [i \in 1 .. nulls |-> 0]
Chunkable == ~TooLarge(Len(File))
DecodedAgain(encoded) == DecodeCommand(encoded[1], encoded[2])

-----------------------------------------------------------------------------

(* A file that chunk_data accepts comes back byte for byte, zeros at its   *)
(* end included: what tests/integration_test.rs asserts of one file.       *)
ChainedRoundTrip == Chunkable => DecodedAgain(EncodeChained(File)) = Success(File)

(* decode never takes a chain that lost a chunk, at its end or inside, for *)
(* a complete file.                                                        *)
LostChunkRefused ==
  Chunkable =>
    LET txs == EncodeChained(File)[1]
    IN \A i \in DOMAIN txs : i > 1 =>
         /\ ~DecodeCommand(RemoveAt(txs, i), 1).ok
         /\ ~DecodeCommand(SubSeq(txs, 1, i - 1), 1).ok

(* The limit that the error message of chunk_data states is the exact one. *)
AdvertisedLimit ==
  Chunkable <=>
    Len(File) <= FIRST_CHUNK_MAX_DATA
                   + (MAX_CHAINED_TRANSACTIONS - 1) * MAX_DATA_PER_CHUNK

(* The opcodes before a full payload: OP_RETURN and the push. *)
PushOverhead == IF MAX_OP_RETURN_SIZE < 76 THEN 2 ELSE 3

(* The scriptPubKey of every chunk but the last is exactly PushOverhead    *)
(* bytes above MAX_OP_RETURN_SIZE, and none is longer: the constant is the *)
(* size of the payload and not, as the comment at encode.rs:9 has it, "the *)
(* total scriptPubKey size, including OP_RETURN opcode and push opcode".   *)
(* A node has to relay 42 bytes for a chain to get through.  At the other  *)
(* end, a chunk after the first has MIN_LAST_CHUNK_SIZE bytes of data at   *)
(* least, so that its transaction is not too small.                        *)
RelayableChunks ==
  Chunkable =>
    LET chunks  == ChunkData(File)
        size(i) == Len(OpReturnScript(EncodeChunk(chunks[i])))
    IN \A i \in DOMAIN chunks :
         /\ size(i) <= MAX_OP_RETURN_SIZE + PushOverhead
         /\ i < Len(chunks) => size(i) = MAX_OP_RETURN_SIZE + PushOverhead
         /\ i > 1 => Len(chunks[i].data) >= MIN_LAST_CHUNK_SIZE

(* A P2WSH file comes back without the zeros at its end, and nothing else  *)
(* is lost, added or moved, wherever the ends of keys and inputs fall.     *)
OnlyTrailingZerosLost == DecodedAgain(EncodeP2wsh(File)) = Success(body)

(* A file becomes as many inputs as calculate_inputs_needed announces, and *)
(* no input needs more public keys than CHECKMULTISIG takes.               *)
InputsAsAnnounced ==
  LET chunks == SplitDataForInputs(File)
  IN /\ Len(chunks) = CalculateInputsNeeded(Len(File))
     /\ \A i \in DOMAIN chunks : ~TooManyPubkeys(EncodeDataAsFakePubkeys(chunks[i]))

(* Of all the transactions a file is published in, exactly the one that    *)
(* decode is told about is detected, as the technique it was written with: *)
(* the index has one entry for each knotwork (detect.rs: "to avoid         *)
(* treating every chunk in the chain as a new knotwork").                  *)
DetectedAsWritten ==
  \A technique \in {Chained, P2wsh} :
    (technique = Chained => Chunkable) =>
      LET encoded == EncodeWith(technique, File)
      IN \A i \in DOMAIN encoded[1] :
           DetectTechnique(encoded[1][i])
             = IF i = encoded[2] THEN technique ELSE NoTechnique

-----------------------------------------------------------------------------
(* What a test says and the code does not do. *)

(* tests/integration_test.rs: "File contents don't match" - the decoded    *)
(* file is the original one.                                               *)
P2wshRoundTrip == DecodedAgain(EncodeP2wsh(File)) = Success(File)
=============================================================================
