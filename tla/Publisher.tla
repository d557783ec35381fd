------------------------------ MODULE Publisher ------------------------------
(***************************************************************************)
(* ordiknots encode --broadcast, run several times over one wallet and one *)
(* node: each run builds all the transactions of its file, from a coin     *)
(* that nothing locks, and then submits them one by one, while the others  *)
(* do the same, blocks are mined, calls fail and processes end.            *)
(*                                                                         *)
(* Transaction i of run r is <<r, i>> and its output v, counted from 0, is *)
(* <<r, i, v>>.  Every transaction pays the same Fee here; ChainFunding    *)
(* and P2wshFunding compute fees from weights.                             *)
(***************************************************************************)
EXTENDS Integers, Sequences, FiniteSets, FiniteSetsExt

CONSTANTS
  Runs,
  Chained,                  (* the runs with --type=chained-op-return; the *)
                            (* others use P2WSH                            *)
  Size,                     (* Size[r]: the chunks of its file, or the     *)
                            (* inputs it needs                             *)
  Mint,                     (* the wallet's first coins: the outputs of    *)
  Purse,                    (* <<Mint, 1>>, output v of value Purse[v + 1] *)
  CONTINUATION_AMOUNT, DUST_THRESHOLD, MAX_CHAINED_TRANSACTIONS,
  Fee,
  EstimatedFee,             (* fee_rate * 100: what coins are chosen for   *)
  DustLimit,                (* of the node, for outputs it relays          *)
  AncestorLimit,            (* of the node, for unconfirmed chains         *)
  MaxFaults, MaxCrashes     (* bounds on failed calls and killed runs      *)

ASSUME PublisherAssumption ==
  /\ Chained \subseteq Runs /\ {Mint, "wallet", "nobody"} \cap Runs = {}
  /\ Size \in [Runs -> Nat \ {0}]
  /\ Purse \in Seq(Nat)
  /\ {CONTINUATION_AMOUNT, DUST_THRESHOLD, Fee, EstimatedFee, DustLimit} \subseteq Nat
  /\ {MAX_CHAINED_TRANSACTIONS, AncestorLimit} \subseteq Nat
  /\ MAX_CHAINED_TRANSACTIONS <= AncestorLimit /\ 2 <= AncestorLimit
  /\ DustLimit <= DUST_THRESHOLD

VARIABLES
  tx,        (* tx[r]: the transactions the run has built                  *)
  phase,     (* what the run does, or how it ended                         *)
  sent,      (* the number of its transactions it knows to be broadcast    *)
  mempool, confirmed, (* the transactions the node has                     *)
  faults, crashes

nodeVars == <<mempool, confirmed>>
boundVars == <<faults, crashes>>
vars == <<tx, phase, sent, nodeVars, boundVars>>

(* "failed": encode returned an error; "refused": the node did, for one of *)
(* the transactions; "stopped": a call failed or the process was killed.   *)
Phases == {"start", "sending", "done", "failed", "refused", "stopped"}

(* Who can spend an output: the wallet, the key a P2WSH run keeps in       *)
(* memory, or nobody.                                                      *)
Output(value, key) == [value |-> value, key |-> key]
Wallet == "wallet"
OpReturn == Output(0, "nobody")
AfterOpReturn(outs) == [v \in 0 .. Len(outs) |-> IF v = 0 THEN OpReturn ELSE outs[v]]

Known == mempool \cup confirmed
The(id) == tx[id[1]][id[2]]
Source(o) == <<o[1], o[2]>>
OutputAt(o) == The(Source(o)).outs[o[3]]
SpendersIn(ids, o) == {id \in ids : o \in The(id).ins}
Worth(os) == SumFunction([o \in os |-> OutputAt(o).value])

OutputsOf(ids) == UNION {{<<id[1], id[2], v>> : v \in DOMAIN The(id).outs} : id \in ids}

-----------------------------------------------------------------------------
(* The node *)

(* The unconfirmed transactions that transaction id descends from. *)
Ancestors(id) ==
  LET Up(S) == S \cup ({Source(o) : o \in UNION {The(i).ins : i \in S}} \cap mempool)
      up[n \in 0 .. AncestorLimit] == IF n = 0 THEN {id} ELSE Up(up[n - 1])
  IN up[AncestorLimit] \ {id}

Descendants(a) == {id \in mempool : a \in Ancestors(id)}

(* The node's limits on unconfirmed transactions that hang together. *)
WithinLimits(id) ==
  /\ Cardinality(Ancestors(id)) < AncestorLimit
  /\ \A a \in Ancestors(id) : Cardinality(Descendants(a)) + 1 < AncestorLimit

(* send_raw_transaction takes the transaction: its inputs exist, are not   *)
(* spent and can be spent by who signed, and no output is dust.            *)
Acceptable(id) ==
  /\ \A o \in The(id).ins :
       /\ Source(o) \in Known
       /\ SpendersIn(Known, o) = {}
       /\ OutputAt(o).key = The(id).signer
  /\ \A v \in DOMAIN The(id).outs :
       The(id).outs[v] = OpReturn \/ The(id).outs[v].value >= DustLimit
  /\ WithinLimits(id)

(* A block: whatever it holds comes after what it spends. *)
Confirm(ids) ==
  /\ ids # {} /\ ids \subseteq mempool
  /\ \A id \in ids : Ancestors(id) \subseteq ids
  /\ mempool' = mempool \ ids
  /\ confirmed' = confirmed \cup ids
  /\ UNCHANGED <<tx, phase, sent, boundVars>>

-----------------------------------------------------------------------------
(* The wallet *)

(* Mutant of ListUnspent: unconfirmed outputs are offered as well. *)
ListUnspentZeroConf ==
  {o \in OutputsOf(Known) : OutputAt(o).key = Wallet /\ SpendersIn(Known, o) = {}}

(* list_unspent with its default minconf of 1: confirmed outputs of the    *)
(* wallet that no transaction spends, be it an unconfirmed one.            *)
ListUnspent ==
  {o \in OutputsOf(confirmed) : OutputAt(o).key = Wallet /\ SpendersIn(Known, o) = {}}

LargestUtxo(o) == \A p \in ListUnspent : OutputAt(o).value >= OutputAt(p).value

(* select_utxos_by_amount: the largest coins, no more than it takes. *)
UtxosByAmount(target, S) ==
  /\ \A o \in S, p \in ListUnspent \ S : OutputAt(o).value >= OutputAt(p).value
  /\ Worth(S) >= target
  /\ \E o \in S : Worth(S \ {o}) < target /\ \A p \in S : OutputAt(p).value >= OutputAt(o).value

-----------------------------------------------------------------------------
(* The encoders *)

Built(r, txs) ==
  /\ tx' = [tx EXCEPT ![r] = txs]
  /\ phase' = [phase EXCEPT ![r] = "sending"]
  /\ UNCHANGED <<sent, nodeVars, boundVars>>

EncodeFails(r) ==
  /\ phase' = [phase EXCEPT ![r] = "failed"]
  /\ UNCHANGED <<tx, sent, nodeVars, boundVars>>

(* create_first_tx: the head of a chain of n, with its change; output 1 is *)
(* the continuation, if there is one.                                      *)
FirstTx(o, n) ==
  LET change == Output(OutputAt(o).value - Fee - IF n > 1 THEN CONTINUATION_AMOUNT ELSE 0, Wallet)
  IN [ins |-> {o}, signer |-> Wallet,
      outs |-> AfterOpReturn(IF n > 1 THEN <<Output(CONTINUATION_AMOUNT, Wallet), change>>
                             ELSE <<change>>)]

(* Mutant of NextTx: it spends the last output of the one before. *)
NextTxOnChange(r, i) ==
  [ins |-> {<<r, i - 1, IF i = 2 THEN 2 ELSE 1>>}, signer |-> Wallet,
   outs |-> AfterOpReturn(<<Output(CONTINUATION_AMOUNT - i * Fee, Wallet)>>)]

(* create_next_tx: transaction i spends the continuation of the one before *)
(* it.  What encode passes as continuation_amount is short of the fees of  *)
(* all i - 1 transactions before it, of the first one's too, although its  *)
(* coin has paid that; and its own fee comes off here.                     *)
NextTx(r, i) ==
  [ins |-> {<<r, i - 1, 1>>}, signer |-> Wallet,
   outs |-> AfterOpReturn(<<Output(CONTINUATION_AMOUNT - i * Fee, Wallet)>>)]

(* Mutant of CoversFirst: the change is not checked. *)
CoversFirstAlways(o, n) == TRUE

(* The checked subtraction of create_first_tx. *)
CoversFirst(o, n) ==
  OutputAt(o).value >= Fee + IF n > 1 THEN CONTINUATION_AMOUNT ELSE 0

(* The checked subtractions of encode and create_next_tx. *)
CoversChain(n) == n > 1 => CONTINUATION_AMOUNT >= n * Fee

EncodeChained(r) ==
  /\ r \in Chained /\ phase[r] = "start"
  /\ \/ /\ ListUnspent = {} \/ Size[r] > MAX_CHAINED_TRANSACTIONS
        /\ EncodeFails(r)
     \/ /\ Size[r] <= MAX_CHAINED_TRANSACTIONS
        /\ \E o \in ListUnspent :
             /\ LargestUtxo(o)
             /\ IF CoversFirst(o, Size[r]) /\ CoversChain(Size[r])
                THEN Built(r, [i \in 1 .. Size[r] |->
                                 IF i = 1 THEN FirstTx(o, Size[r]) ELSE NextTx(r, i)])
                ELSE EncodeFails(r)

(* create_funding_transaction: an output for each of n inputs, the first   *)
(* with the spending fee on top, and the change after them.                *)
FundingTx(S, n, r) ==
  [ins |-> S, signer |-> Wallet,
   outs |-> [v \in 0 .. n |->
               IF v = n THEN Output(Worth(S) - n * DUST_THRESHOLD - 2 * Fee, Wallet)
               ELSE Output(IF v = 0 THEN DUST_THRESHOLD + Fee ELSE DUST_THRESHOLD, r)]]

(* Mutant of SpendingTx: the outputs are counted from 1. *)
SpendingTxFromOne(n, r) ==
  [ins |-> {<<r, 1, v>> : v \in 1 .. n}, signer |-> r,
   outs |-> [v \in {0} |-> Output(n * DUST_THRESHOLD, Wallet)]]

(* create_spending_transaction: it spends all of them, with the key that   *)
(* only this process has.                                                  *)
SpendingTx(n, r) ==
  [ins |-> {<<r, 1, v>> : v \in 0 .. n - 1}, signer |-> r,
   outs |-> [v \in {0} |-> Output(n * DUST_THRESHOLD, Wallet)]]

EncodeP2wsh(r) ==
  LET n == Size[r]
      target_amount == n * DUST_THRESHOLD + EstimatedFee
  IN /\ r \notin Chained /\ phase[r] = "start"
     /\ \/ Worth(ListUnspent) < target_amount /\ EncodeFails(r)
        \/ \E S \in SUBSET ListUnspent :
             /\ UtxosByAmount(target_amount, S)
             /\ IF Worth(S) >= n * DUST_THRESHOLD + 2 * Fee
                THEN Built(r, <<FundingTx(S, n, r), SpendingTx(n, r)>>)
                ELSE EncodeFails(r)

-----------------------------------------------------------------------------
(* The broadcast *)

Sent(r) ==
  /\ sent' = [sent EXCEPT ![r] = @ + 1]
  /\ phase' = [phase EXCEPT ![r] = IF sent[r] + 1 = Len(tx[r]) THEN "done" ELSE "sending"]

(* Mutant of Broadcast: the loop goes on after an error. *)
BroadcastOn(r) ==
  LET id == <<r, sent[r] + 1>>
  IN /\ phase[r] = "sending"
     /\ mempool' = IF Acceptable(id) THEN mempool \cup {id} ELSE mempool
     /\ Sent(r)
     /\ UNCHANGED <<tx, confirmed, boundVars>>

(* One turn of main's loop; an error ends the program. *)
Broadcast(r) ==
  LET id == <<r, sent[r] + 1>>
  IN /\ phase[r] = "sending"
     /\ IF Acceptable(id)
        THEN mempool' = mempool \cup {id} /\ Sent(r)
        ELSE phase' = [phase EXCEPT ![r] = "refused"] /\ UNCHANGED <<mempool, sent>>
     /\ UNCHANGED <<tx, confirmed, boundVars>>

Stop(r) ==
  /\ phase' = [phase EXCEPT ![r] = "stopped"]
  /\ UNCHANGED <<tx, sent, confirmed>>

(* The call fails, before the node has the transaction or after. *)
BroadcastFault(r) ==
  /\ phase[r] = "sending"
  /\ faults < MaxFaults /\ faults' = faults + 1
  /\ \/ UNCHANGED mempool
     \/ Acceptable(<<r, sent[r] + 1>>) /\ mempool' = mempool \cup {<<r, sent[r] + 1>>}
  /\ Stop(r)
  /\ UNCHANGED crashes

Kill(r) ==
  /\ phase[r] \in {"start", "sending"}
  /\ crashes < MaxCrashes /\ crashes' = crashes + 1
  /\ Stop(r)
  /\ UNCHANGED <<mempool, faults>>

-----------------------------------------------------------------------------

Init ==
  /\ tx = [r \in Runs \cup {Mint} |->
             IF r = Mint
             THEN <<[ins |-> {}, signer |-> Mint,
                     outs |-> [v \in 0 .. Len(Purse) - 1 |-> Output(Purse[v + 1], Wallet)]]>>
             ELSE <<>>]
  /\ phase = [r \in Runs |-> "start"]
  /\ sent = [r \in Runs |-> 0]
  /\ mempool = {} /\ confirmed = {<<Mint, 1>>}
  /\ faults = 0 /\ crashes = 0

Next ==
  \/ \E r \in Runs :
       EncodeChained(r) \/ EncodeP2wsh(r) \/ Broadcast(r) \/ BroadcastFault(r) \/ Kill(r)
  \/ \E ids \in SUBSET mempool : Confirm(ids)

Spec == Init /\ [][Next]_vars

-----------------------------------------------------------------------------

Ids == {<<r, i>> : r \in DOMAIN tx, i \in 1 .. AncestorLimit}

(* Types; no output of a transaction that was built is worth less than     *)
(* nothing, which is what the checked subtractions of the encoders are for.*)
TypeOK ==
  /\ phase \in [Runs -> Phases]
  /\ sent \in [Runs -> 0 .. AncestorLimit]
  /\ Known \subseteq Ids /\ mempool \cap confirmed = {}
  /\ \A r \in DOMAIN tx : \A i \in DOMAIN tx[r] : \A v \in DOMAIN tx[r][i].outs :
       tx[r][i].outs[v].value \in Nat

Published(r) == {id \in Known : id[1] = r}
Torn(r) == phase[r] = "refused" /\ Published(r) # {}

(* A run that ends well, and prints the txid for decode, has published all *)
(* of its file, whatever the other runs did in between.                    *)
AnnouncedIsPublished ==
  \A r \in Runs : phase[r] = "done" => Cardinality(Published(r)) = Len(tx[r])

(* A chain is refused in its middle for two reasons only: another run took *)
(* its continuation for a coin, which takes a block between two of its     *)
(* broadcasts, or its last output has become dust.  The choice of one coin *)
(* by two runs is not among them: the loser publishes nothing.             *)
TornChainExplained ==
  \A r \in Chained : Torn(r) =>
    LET last == <<r, sent[r]>>
        next == <<r, sent[r] + 1>>
    IN \/ last \in confirmed /\ \E id \in Known : id[1] # r /\ <<r, sent[r], 1>> \in The(id).ins
       \/ The(next).outs[1].value < DustLimit

(* Nothing the other runs do comes between the two transactions of a P2WSH *)
(* file: the outputs that only the run's key can spend are stuck only if   *)
(* the run itself is interrupted.                                          *)
FundedIsSpent ==
  \A r \in Runs \ Chained : ~Torn(r)

(* No transaction is refused for the length of the unconfirmed chain it is *)
(* in: MAX_CHAINED_TRANSACTIONS is counted from a confirmed coin, and no   *)
(* other run builds on a chain before it is confirmed.                     *)
ChainWithinLimits ==
  \A r \in Runs : phase[r] = "sending" => WithinLimits(<<r, sent[r] + 1>>)
=============================================================================
