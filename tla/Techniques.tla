------------------------------ MODULE Techniques ------------------------------
(***************************************************************************)
(* The two techniques behind one interface: what each makes of a file, as  *)
(* the transactions that encode publishes, which technique a transaction   *)
(* is detected as, and what the decode command makes of what was           *)
(* published.  Of a transaction, the scripts of its outputs and the        *)
(* witnesses of its inputs are kept.                                       *)
(***************************************************************************)
EXTENDS ChunkCodec, P2wshCodec, FiniteSetsExt

Chained == "chained-op-return"
P2wsh == "p2wsh-fake-multisig"
TechniqueIter == <<Chained, P2wsh>>
NoTechnique == "none"

Transaction(outs, witnesses) == [outs |-> outs, witnesses |-> witnesses]

(* What the wallet's own inputs and outputs look like, and those that pay  *)
(* to a P2WSH address; none of the bytes matters.                          *)
Signature == <<48>>
WalletWitness == <<Signature, RealPubkey>>
WalletScript == <<0, 20>>
P2wshScript == <<0, 32>>

-----------------------------------------------------------------------------
(* encode, without the coins: that is ChainFunding and P2wshFunding.  The  *)
(* first element is the transactions, the second the one that decode is    *)
(* told about.                                                             *)

EncodeChained(file) ==
  LET chunks == ChunkData(file)
      tx(i)  == Transaction(<<OpReturnScript(EncodeChunk(chunks[i])), WalletScript>>
                              \o (IF i = 1 /\ Len(chunks) > 1 THEN <<WalletScript>> ELSE <<>>),
                            <<WalletWitness>>)
  IN <<[i \in DOMAIN chunks |-> tx(i)], 1>>

EncodeP2wsh(file) ==
  LET scripts == Encode(file)
      funding == Transaction([i \in DOMAIN scripts |-> P2wshScript] \o <<WalletScript>>,
                             <<WalletWitness>>)
      spending == Transaction(<<WalletScript>>,
                              [i \in DOMAIN scripts |-> <<<<>>, Signature, scripts[i]>>])
  IN <<<<funding, spending>>, 2>>

EncodeWith(technique, file) ==
  IF technique = Chained THEN EncodeChained(file) ELSE EncodeP2wsh(file)

-----------------------------------------------------------------------------

DetectWith(technique, tx) ==
  \/ /\ technique = Chained
     /\ \E i \in DOMAIN tx.outs : Detect(tx.outs[i])
  \/ /\ technique = P2wsh
     /\ tx.witnesses # <<>> /\ Len(tx.witnesses[1]) >= 3
     /\ DetectScript(Last(tx.witnesses[1]))

(* detect_technique: the first technique that recognises the transaction. *)
DetectTechnique(tx) ==
  LET detected == {i \in DOMAIN TechniqueIter : DetectWith(TechniqueIter[i], tx)}
  IN IF detected = {} THEN NoTechnique ELSE TechniqueIter[Min(detected)]

(* The decoders, of the transactions they find: for a chain, all from the  *)
(* head on (ChainDecoder finds them), for P2WSH the one it is given.       *)
DecodeChained(txs) ==
  Assemble([i \in DOMAIN txs |-> ExtractChunk(txs[i].outs[1])])

DecodeP2wsh(tx) ==
  IF tx.witnesses = <<>> \/ \E i \in DOMAIN tx.witnesses : Len(tx.witnesses[i]) < 3
  THEN Refused
  ELSE Decode([i \in DOMAIN tx.witnesses |-> Last(tx.witnesses[i])])

(* The decode command: detect, then decode with the technique detected. *)
DecodeCommand(txs, named) ==
  LET technique == DetectTechnique(txs[named])
  IN CASE technique = Chained -> DecodeChained(SubSeq(txs, named, Len(txs)))
       [] technique = P2wsh -> DecodeP2wsh(txs[named])
       [] OTHER -> Refused
=============================================================================
