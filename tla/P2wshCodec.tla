------------------------------ MODULE P2wshCodec ------------------------------
(***************************************************************************)
(* The P2WSH fake-multisig format: how encode cuts a file into the chunks  *)
(* of the inputs, hides a chunk in the public keys of a 1-of-N multisig    *)
(* script, and how decode reads the scripts of a transaction back.  A file *)
(* and a script are sequences of byte values; a file byte is only copied,  *)
(* and the one bit the encoder looks at is bit 7.                          *)
(***************************************************************************)
EXTENDS Knotwork

CONSTANTS
  MAX_PUBKEYS_PER_MULTISIG,   (* of CHECKMULTISIG, by consensus            *)
  DATA_BYTES_PER_PUBKEY,      (* file bytes in a fake public key           *)
  RealPubkey                  (* the bytes of the signing key              *)

ASSUME P2wshAssumption ==
  /\ DATA_BYTES_PER_PUBKEY \in 3 .. 74
  /\ MAX_PUBKEYS_PER_MULTISIG \in 2 .. 20
  /\ RealPubkey \in Seq(0 .. 255) /\ Len(RealPubkey) = DATA_BYTES_PER_PUBKEY + 1

MAX_DATA_PER_INPUT ==
  (MAX_PUBKEYS_PER_MULTISIG - 1) * DATA_BYTES_PER_PUBKEY - Len(ORDIKNOT_PREFIX)
BYTES_PER_ADDITIONAL_INPUT == MAX_DATA_PER_INPUT + Len(ORDIKNOT_PREFIX)

(* The pieces of s of length n each, the last one perhaps shorter. *)
Pieces(s, n) ==
  [i \in 1 .. DivCeil(Len(s), n) |-> SubSeq(s, (i - 1) * n + 1, Least(i * n, Len(s)))]

-----------------------------------------------------------------------------
(* Encoder *)

(* Mutant of CalculateInputsNeeded: every input holds as much as the first. *)
CalculateInputsEvenly(size) ==
  IF size <= MAX_DATA_PER_INPUT THEN 1
  ELSE 1 + DivCeil(size - MAX_DATA_PER_INPUT, MAX_DATA_PER_INPUT)

CalculateInputsNeeded(size) ==
  IF size <= MAX_DATA_PER_INPUT THEN 1
  ELSE 1 + DivCeil(size - MAX_DATA_PER_INPUT, BYTES_PER_ADDITIONAL_INPUT)

SplitDataForInputs(data) ==
  LET first == Least(MAX_DATA_PER_INPUT, Len(data))
  IN <<ORDIKNOT_PREFIX \o SubSeq(data, 1, first)>>
       \o Pieces(SubSeq(data, first + 1, Len(data)), BYTES_PER_ADDITIONAL_INPUT)

HighBit(byte) == (byte \div 128) % 2 = 1

FakePubkey(piece) ==
  <<IF HighBit(piece[1]) THEN 3 ELSE 2>> \o piece
    \o [i \in 1 .. DATA_BYTES_PER_PUBKEY - Len(piece) |-> 0]

EncodeDataAsFakePubkeys(chunk) ==
  LET pieces == Pieces(chunk, DATA_BYTES_PER_PUBKEY)
  IN [i \in DOMAIN pieces |-> FakePubkey(pieces[i])]

Push(bytes) == <<Len(bytes)>> \o bytes

(* OP_1, the keys, their number (OP_1 .. OP_16, a one-byte push above 16)  *)
(* and OP_CHECKMULTISIG.                                                   *)
WitnessScript(fakes) ==
  LET n == 1 + Len(fakes)
  IN <<81>> \o Push(RealPubkey)
       \o FlattenSeq([i \in DOMAIN fakes |-> Push(fakes[i])])
       \o (IF n <= 16 THEN <<80 + n>> ELSE Push(<<n>>)) \o <<174>>

(* build_multisig_witnessscript refuses more keys than CHECKMULTISIG takes.*)
TooManyPubkeys(fakes) == 1 + Len(fakes) > MAX_PUBKEYS_PER_MULTISIG

(* The witness scripts of the inputs of the spending transaction. *)
Encode(data) ==
  LET chunks == SplitDataForInputs(data)
  IN [i \in DOMAIN chunks |-> WitnessScript(EncodeDataAsFakePubkeys(chunks[i]))]

-----------------------------------------------------------------------------
(* Decoder *)

(* One step of the loop over a script: the bytes pushed at or after        *)
(* position pos, the pushes of another length than a key's left out.       *)
(* scan[q] is what the loop makes of the script from q on.                 *)
ScanStep(script, scan, pos) ==
  IF pos > Len(script) THEN Success(<<>>)
  ELSE LET opcode == script[pos]
           end    == pos + opcode
       IN CASE opcode = 174 \/ opcode \in 81 .. 96 -> Success(<<>>)
            [] opcode \in 1 .. 75 ->
                 IF end > Len(script) THEN Refused
                 ELSE LET rest == scan[end + 1]
                          push == SubSeq(script, pos + 1, end)
                      IN IF rest.ok /\ opcode = DATA_BYTES_PER_PUBKEY + 1
                         THEN Success(<<push>> \o rest.data) ELSE rest
            [] OTHER -> Refused

PubkeysFrom(script) ==
  LET scan[pos \in 2 .. Len(script) + 1] == ScanStep(script, scan, pos) IN scan[2]

(* The fake keys: all but the first, the signing key. *)
ExtractFakePubkeys(script) ==
  IF script = <<>> THEN Refused
  ELSE LET keys == PubkeysFrom(script)
       IN IF ~keys.ok \/ keys.data = <<>> THEN Refused ELSE Success(Tail(keys.data))

DecodeFakePubkeys(fakes) ==
  IF \E i \in DOMAIN fakes : fakes[i][1] \notin {2, 3} THEN Refused
  ELSE Success(FlattenSeq([i \in DOMAIN fakes |-> Tail(fakes[i])]))

(* Mutant of StripTrailingNulls: nothing is removed. *)
StripNothing(data) == data

(* What is left after the zeros at the end are removed; at least a byte. *)
StripTrailingNulls(data) ==
  SubSeq(data, 1, CHOOSE n \in 0 .. Len(data) :
    /\ n <= 1 \/ data[n] # 0
    /\ \A k \in n + 1 .. Len(data) : k > 1 /\ data[k] = 0
    /\ n = 0 => data = <<>>)

(* decode, of the witness scripts of a transaction's inputs. *)
Decode(scripts) ==
  LET fakes == [i \in DOMAIN scripts |-> ExtractFakePubkeys(scripts[i])]
      parts == [i \in DOMAIN scripts |-> DecodeFakePubkeys(fakes[i].data)]
      data  == StripTrailingNulls(FlattenSeq([i \in DOMAIN scripts |-> parts[i].data]))
  IN IF \/ scripts = <<>>
        \/ \E i \in DOMAIN scripts : ~fakes[i].ok \/ ~parts[i].ok
        \/ Len(data) < Len(ORDIKNOT_PREFIX)
        \/ SubSeq(data, 1, Len(ORDIKNOT_PREFIX)) # ORDIKNOT_PREFIX
     THEN Refused
     ELSE Success(SubSeq(data, Len(ORDIKNOT_PREFIX) + 1, Len(data)))

(* detect looks for the prefix anywhere in the first input's script. *)
DetectScript(script) ==
  \E i \in 1 .. Len(script) - 2 : SubSeq(script, i, i + 2) = ORDIKNOT_PREFIX
=============================================================================
