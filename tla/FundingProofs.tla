----------------------------- MODULE FundingProofs -----------------------------
(***************************************************************************)
(* Proofs about EncodeFunding, for every finite set of weights that        *)
(* signing may give: first the steps of ChainFunding, for all amounts, fee *)
(* rates and coins, then those of P2wshFunding, for all wallets, fee rates *)
(* and numbers of inputs, and at the end the two together.                 *)
(***************************************************************************)
EXTENDS EncodeFunding, ProofLemmas

-----------------------------------------------------------------------------
(* Fees *)

LEMMA FeeIsNat ==
  ASSUME NEW w \in Nat, NEW rate \in Nat
  PROVE  CalculateFee(w, rate) \in Nat
<1>1. (w + 3) \div 4 \in Nat
  OBVIOUS
<1> DEFINE q == (w + 3) \div 4
<1> HIDE DEF q
<1>2. q * rate \in Nat
  BY <1>1 DEF q
<1> QED
  BY <1>2 DEF CalculateFee, q

LEMMA FeesAreFinite ==
  ASSUME fee_rate \in Nat, NEW W \in SUBSET Nat, IsFiniteSet(W), W # {}
  PROVE  Fees(W) \in SUBSET Nat /\ Fees(W) # {} /\ IsFiniteSet(Fees(W))
<1> DEFINE f == [w \in W |-> CalculateFee(w, fee_rate)]
<1>1. IsFiniteSet({f[w] : w \in W})
  BY FiniteImage
<1>2. {f[w] : w \in W} = Fees(W)
  BY DEF Fees
<1>3. Fees(W) \in SUBSET Nat /\ Fees(W) # {}
  BY FeeIsNat DEF Fees
<1> QED
  BY <1>1, <1>2, <1>3

(* Two estimates of one fee differ by the spread at most. *)
LEMMA SpreadBounds ==
  ASSUME fee_rate \in Nat, NEW W \in SUBSET Nat, IsFiniteSet(W),
         NEW v \in W, NEW w \in W
  PROVE  /\ Spread(W) \in Nat
         /\ CalculateFee(v, fee_rate) <= CalculateFee(w, fee_rate) + Spread(W)
<1> DEFINE fv == CalculateFee(v, fee_rate)
           fw == CalculateFee(w, fee_rate)
<1>1. fv \in Fees(W) /\ fw \in Fees(W)
  BY DEF Fees
<1>2. /\ Fees(W) \in SUBSET Nat
      /\ Max(Fees(W)) \in Fees(W) /\ fv <= Max(Fees(W))
      /\ Min(Fees(W)) \in Fees(W) /\ Min(Fees(W)) <= fw
      /\ Min(Fees(W)) <= Max(Fees(W))
  BY <1>1, FeesAreFinite, MaxIsGreatest, MinIsLeast
<1> HIDE DEF fv, fw
<1>3. Spread(W) \in Nat /\ fv <= fw + Spread(W)
  BY <1>1, <1>2 DEF Spread
<1> QED
  BY <1>3 DEF fv, fw

(* No fee is greater than the dearest. *)
LEMMA DearestBounds ==
  ASSUME FundingAssumption, fee_rate \in Nat, NEW W \in WeightSets, NEW w \in W
  PROVE  Dearest \in Nat /\ CalculateFee(w, fee_rate) <= Dearest
<1> DEFINE U == UNION WeightSets
<1>1. U = SingleWeights \cup (FirstWeights \cup NextWeights)
  BY DEF WeightSets
<1>2. U \in SUBSET Nat /\ w \in U
  BY DEF WeightSets, FundingAssumption
<1>3. IsFiniteSet(U)
  <2>1. IsFiniteSet(SingleWeights) /\ IsFiniteSet(FirstWeights) /\ IsFiniteSet(NextWeights)
    BY DEF WeightSets, FundingAssumption
  <2>2. IsFiniteSet(FirstWeights \cup NextWeights)
    BY <2>1, FS_Union
  <2> QED
    BY <1>1, <2>1, <2>2, FS_Union
<1>4. CalculateFee(w, fee_rate) \in Fees(U)
  BY <1>2 DEF Fees
<1> HIDE DEF U
<1>5. /\ Max(Fees(U)) \in Nat
      /\ \A f \in Fees(U) : f <= Max(Fees(U))
  BY <1>2, <1>3, FeesAreFinite, MaxIsGreatest
<1> QED
  BY <1>4, <1>5 DEF Dearest, U

-----------------------------------------------------------------------------
(* Types *)

(* The types, and what stays as Init chose it. *)
Typed ==
  /\ TypeOK
  /\ fee_rate \in Nat /\ coin \in Nat
  /\ made > 0 => paid \in Int
  /\ made = 0 => continuation_amount = CONTINUATION_AMOUNT
  /\ status = "encoding" => made < total

LEMMA InitTyped ==
  ASSUME FundingAssumption, Init
  PROVE  Typed
BY DEF FundingAssumption, Init, Typed, TypeOK

(* What encode does with a transaction of weight w keeps the types. *)
LEMMA MadeTyped ==
  ASSUME Typed, status = "encoding", NEW w \in Nat, Made(w),
         output1' \in Nat, paid' \in Int
  PROVE  Typed'
<1>1. CalculateFee(w, fee_rate) \in Nat
  BY FeeIsNat DEF Typed
<1> DEFINE fee == CalculateFee(w, fee_rate)
<1> HIDE DEF fee
<1>2. /\ weight' = w /\ made' = made + 1
      /\ UNCHANGED <<fee_rate, coin, total>>
      /\ made' \in 0 .. total
      /\ status' = "encoding" => made' < total
      /\ status' \in {"encoding", "done", "failed"}
      /\ continuation_amount' \in Nat
  BY <1>1 DEF Made, Typed, TypeOK, fee
<1> QED
  BY <1>2 DEF Typed, TypeOK

LEMMA FirstTxTyped ==
  ASSUME FundingAssumption, Typed,
         NEW e \in FirstOrOnly, NEW s \in FirstOrOnly, FirstTx(e, s)
  PROVE  Typed'
<1>1. e \in Nat /\ s \in Nat
  BY DEF FundingAssumption, FirstOrOnly, WeightSets
<1>2. CalculateFee(e, fee_rate) \in Nat
  BY <1>1, FeeIsNat DEF Typed
<1>3. CASE Fail
  BY <1>3 DEF Fail, Typed, TypeOK, FirstTx
<1>4. CASE ~Fail
  <2>1. /\ Made(s) /\ status = "encoding"
        /\ output1' \in Nat /\ paid' \in Int
    BY <1>2, <1>4 DEF FirstTx, FundingAssumption, Typed
  <2> QED
    BY <1>1, <2>1, MadeTyped
<1> QED
  BY <1>3, <1>4

LEMMA NextTxTyped ==
  ASSUME FundingAssumption, Typed,
         NEW e \in NextWeights, NEW s \in NextWeights, NextTx(e, s)
  PROVE  Typed'
<1>1. e \in Nat /\ s \in Nat
  BY DEF FundingAssumption, WeightSets
<1>2. CalculateFee(e, fee_rate) \in Nat
  BY <1>1, FeeIsNat DEF Typed
<1>3. CASE Fail
  BY <1>3 DEF Fail, Typed, TypeOK, NextTx
<1>4. CASE ~Fail
  <2>1. /\ Made(s) /\ status = "encoding"
        /\ output1' \in Nat /\ paid' \in Int
    BY <1>2, <1>4 DEF NextTx, FundingAssumption, Typed, TypeOK
  <2> QED
    BY <1>1, <2>1, MadeTyped
<1> QED
  BY <1>3, <1>4

LEMMA StepTyped ==
  ASSUME FundingAssumption, Typed, [Next]_vars
  PROVE  Typed'
<1>1. CASE UNCHANGED vars
  BY <1>1 DEF vars, Typed, TypeOK
<1> QED
  BY <1>1, FirstTxTyped, NextTxTyped DEF Next

-----------------------------------------------------------------------------
(* Bookkeeping *)

(* After the first transaction, output 1 holds what encode thinks it does  *)
(* and the fee besides.                                                    *)
Tracked ==
  /\ BookkeepingTracks
  /\ made = 1 /\ status = "encoding" => continuation_amount <= output1

LEMMA SameSpread ==
  ASSUME UNCHANGED fee_rate, NEW W
  PROVE  Spread(W)' = Spread(W)
BY DEF Spread, Fees

LEMMA FirstTxTracked ==
  ASSUME FundingAssumption, Typed,
         NEW e \in FirstOrOnly, NEW s \in FirstOrOnly, FirstTx(e, s)
  PROVE  Tracked' /\ FeeNearRate'
<1>1. CASE Fail
  BY <1>1 DEF Fail, FirstTx, Tracked, BookkeepingTracks, FeeNearRate
<1>2. CASE ~Fail
  <2>1. s \in Nat /\ CalculateFee(s, fee_rate) \in Nat
    BY FeeIsNat DEF FundingAssumption, FirstOrOnly, WeightSets, Typed
  <2>2. /\ made = 0 /\ made' = 1 /\ total' = total
        /\ Made(s)
        /\ total > 1 => output1' = CONTINUATION_AMOUNT
    BY <1>2 DEF FirstTx, Made
  <2>3. status' = "encoding" => total > 1 /\ continuation_amount' <= continuation_amount
    BY <2>1, <2>2 DEF Made, Typed, TypeOK
  <2> QED
    BY <2>2, <2>3 DEF Typed, Tracked, BookkeepingTracks, FeeNearRate
<1> QED
  BY <1>1, <1>2

LEMMA NextTxTracked ==
  ASSUME FundingAssumption, Typed, Tracked, FeeNearRate,
         NEW e \in NextWeights, NEW s \in NextWeights, NextTx(e, s)
  PROVE  Tracked' /\ FeeNearRate'
<1>1. UNCHANGED fee_rate
  BY DEF NextTx, Fail, Made
<1>2. Spread(NextWeights)' = Spread(NextWeights)
  BY <1>1, SameSpread
<1>3. CASE Fail
  BY <1>2, <1>3 DEF Fail, Tracked, BookkeepingTracks, FeeNearRate
<1>4. CASE ~Fail
  <2> DEFINE fe == CalculateFee(e, fee_rate)
             fs == CalculateFee(s, fee_rate)
             d == Spread(NextWeights)
  <2>1. NextWeights \in SUBSET Nat /\ IsFiniteSet(NextWeights) /\ e \in Nat /\ s \in Nat
    BY DEF FundingAssumption, WeightSets
  <2>2. fe \in Nat /\ fs \in Nat
    BY <2>1, FeeIsNat DEF Typed
  <2>3. d \in Nat /\ fe <= fs + d /\ fs <= fe + d
    BY <2>1, SpreadBounds DEF Typed
  <2>4. /\ status = "encoding" /\ made > 0 /\ made' = made + 1 /\ made \in Nat
        /\ output1' = continuation_amount - fe
        /\ paid' = output1 - (continuation_amount - fe)
        /\ weight' = s
        /\ status' = "encoding" => continuation_amount' = continuation_amount - fs
    BY <1>4 DEF NextTx, Made, Typed, TypeOK
  <2>5. continuation_amount \in Nat /\ output1 \in Nat
    BY DEF Typed, TypeOK
  <2>6. CalculateFee(weight, fee_rate)' = fs
    BY <1>1, <2>4 DEF CalculateFee
  <2>7. continuation_amount <= output1 + d
    <3>1. CASE made = 1
      BY <2>3, <2>4, <2>5, <3>1 DEF Tracked
    <3>2. CASE made # 1
      BY <2>4, <3>2 DEF Tracked, BookkeepingTracks
    <3> QED
      BY <3>1, <3>2
  <2> HIDE DEF fe, fs, d
  <2>8. Tracked'
    BY <1>2, <2>2, <2>3, <2>4, <2>5 DEF Tracked, BookkeepingTracks, d
  <2>9. paid' + 2 * d >= fs
    BY <2>2, <2>3, <2>4, <2>5, <2>7
  <2> QED
    BY <1>2, <2>6, <2>8, <2>9 DEF FeeNearRate, d
<1> QED
  BY <1>3, <1>4

LEMMA StepTracked ==
  ASSUME FundingAssumption, Typed, Tracked, FeeNearRate, [Next]_vars
  PROVE  Tracked' /\ FeeNearRate'
<1>1. CASE UNCHANGED vars
  <2>1. Spread(NextWeights)' = Spread(NextWeights)
    BY <1>1, SameSpread DEF vars
  <2> QED
    BY <1>1, <2>1 DEF vars, Tracked, BookkeepingTracks, FeeNearRate, CalculateFee
<1> QED
  BY <1>1, FirstTxTracked, NextTxTracked DEF Next

-----------------------------------------------------------------------------
(* Affordable chains *)

(* The condition under which a chain must not fail. *)
Affordable ==
  /\ total * Dearest + DustLimit <= CONTINUATION_AMOUNT
  /\ coin >= CONTINUATION_AMOUNT + Dearest

(* Every transaction so far has cost the dearest fee at most. *)
Afforded ==
  Affordable =>
    /\ status # "failed"
    /\ made > 0 => output1 >= DustLimit
    /\ status = "encoding" /\ made > 0 =>
         continuation_amount + made * Dearest >= CONTINUATION_AMOUNT

LEMMA SameDearest ==
  ASSUME UNCHANGED fee_rate
  PROVE  Dearest' = Dearest
BY DEF Dearest, Fees

LEMMA FirstTxAfforded ==
  ASSUME FundingAssumption, Typed,
         NEW e \in FirstOrOnly, NEW s \in FirstOrOnly, FirstTx(e, s)
  PROVE  Afforded'
<1> DEFINE fe == CalculateFee(e, fee_rate)
           fs == CalculateFee(s, fee_rate)
           D == Dearest
<1>1. FirstOrOnly \in WeightSets /\ UNCHANGED <<fee_rate, coin, total>>
  BY DEF FirstOrOnly, WeightSets, FirstTx, Fail, Made
<1>2. D' = D
  BY <1>1, SameDearest
<1>3. fe \in Nat /\ fs \in Nat /\ D \in Nat /\ fe <= D /\ fs <= D
  BY <1>1, FeeIsNat, DearestBounds DEF FundingAssumption, Typed
<1>4. /\ total \in Nat /\ total >= 1 /\ coin \in Nat /\ DustLimit \in Nat
      /\ CONTINUATION_AMOUNT \in Nat /\ continuation_amount = CONTINUATION_AMOUNT
      /\ made = 0 /\ status = "encoding"
  BY DEF Typed, TypeOK, FundingAssumption, FirstTx
<1> SUFFICES ASSUME Affordable PROVE Afforded'
  BY <1>1, <1>2 DEF Afforded, Affordable
<1>5. D <= total * D
  BY <1>3, <1>4
<1>6. DustLimit + D <= CONTINUATION_AMOUNT /\ CONTINUATION_AMOUNT + D <= coin
  BY <1>3, <1>4, <1>5 DEF Affordable
<1> HIDE DEF fe, fs, D
<1>7. ~(fe + (IF total > 1 THEN CONTINUATION_AMOUNT ELSE 0) > coin)
  BY <1>3, <1>4, <1>6
<1>8. /\ output1' = IF total > 1 THEN CONTINUATION_AMOUNT
                     ELSE coin - (fe + (IF total > 1 THEN CONTINUATION_AMOUNT ELSE 0))
      /\ Made(s)
  BY <1>7 DEF FirstTx, fe
<1>9. output1' >= DustLimit
  BY <1>3, <1>4, <1>6, <1>8
<1>10. /\ made' = 1 /\ status' # "failed"
       /\ status' = "encoding" => continuation_amount' = CONTINUATION_AMOUNT - fs
  BY <1>3, <1>4, <1>6, <1>8 DEF Made, fs
<1>11. status' = "encoding" => continuation_amount' + made' * D >= CONTINUATION_AMOUNT
  BY <1>3, <1>4, <1>10
<1> QED
  BY <1>2, <1>9, <1>10, <1>11 DEF Afforded, D

LEMMA NextTxAfforded ==
  ASSUME FundingAssumption, Typed, Afforded,
         NEW e \in NextWeights, NEW s \in NextWeights, NextTx(e, s)
  PROVE  Afforded'
<1> DEFINE fe == CalculateFee(e, fee_rate)
           fs == CalculateFee(s, fee_rate)
           D == Dearest
<1>1. UNCHANGED <<fee_rate, coin, total>>
  BY DEF NextTx, Fail, Made
<1>2. D' = D
  BY <1>1, SameDearest
<1>3. fe \in Nat /\ fs \in Nat /\ D \in Nat /\ fe <= D /\ fs <= D
  BY FeeIsNat, DearestBounds DEF FundingAssumption, WeightSets, Typed
<1>4. /\ total \in Nat /\ made \in Nat /\ made < total /\ made > 0
      /\ status = "encoding"
      /\ continuation_amount \in Nat /\ CONTINUATION_AMOUNT \in Nat /\ DustLimit \in Nat
  BY DEF Typed, TypeOK, FundingAssumption, NextTx
<1> SUFFICES ASSUME Affordable PROVE Afforded'
  BY <1>1, <1>2 DEF Afforded, Affordable
<1> HIDE DEF fe, fs, D
<1>5. (made + 1) * D = made * D + D
  BY <1>3, <1>4
<1>6. (made + 1) * D <= total * D
  BY <1>3, <1>4
<1>7. total * D + DustLimit <= CONTINUATION_AMOUNT
  BY DEF Affordable, D
<1>8. continuation_amount + made * D >= CONTINUATION_AMOUNT
  BY <1>4 DEF Afforded, D
<1>9. made * D \in Nat /\ total * D \in Nat
  BY <1>3, <1>4
<1>10. continuation_amount >= D + DustLimit
  BY <1>3, <1>4, <1>5, <1>6, <1>7, <1>8, <1>9
<1>11. Made(s) /\ output1' = continuation_amount - fe
  BY <1>3, <1>4, <1>10 DEF NextTx, fe
<1>12. output1' >= DustLimit
  BY <1>3, <1>4, <1>10, <1>11
<1>13. /\ made' = made + 1 /\ status' # "failed"
       /\ status' = "encoding" => continuation_amount' = continuation_amount - fs
  BY <1>3, <1>4, <1>10, <1>11 DEF Made, fs
<1>14. status' = "encoding" => continuation_amount' + made' * D >= CONTINUATION_AMOUNT
  BY <1>3, <1>4, <1>5, <1>8, <1>9, <1>13
<1> QED
  BY <1>2, <1>12, <1>13, <1>14 DEF Afforded, D

LEMMA StepAfforded ==
  ASSUME FundingAssumption, Typed, Afforded, [Next]_vars
  PROVE  Afforded'
<1>1. CASE UNCHANGED vars
  BY <1>1, SameDearest DEF vars, Afforded, Affordable
<1> QED
  BY <1>1, FirstTxAfforded, NextTxAfforded DEF Next

-----------------------------------------------------------------------------
(* The outputs of a P2WSH file: amounts *)

(* The selected UTXOs are worth a number. *)
LEMMA SelectedIsNat ==
  ASSUME wallet \in Seq(Nat), NEW n \in 0 .. Len(wallet)
  PROVE  SelectedAmount(n) \in Nat
<1> DEFINE s == SubSeq(wallet, 1, n)
<1>1. s \in [1 .. n -> Nat]
  <2>1. n \in Nat /\ \A i \in 1 .. n : i \in 1 .. Len(wallet) /\ wallet[i] \in Nat
    OBVIOUS
  <2>2. s = [i \in 1 .. n |-> wallet[i]]
    BY <2>1
  <2> HIDE DEF s
  <2> QED
    BY <2>1, <2>2
<1>2. IsFiniteSet(1 .. n)
  <2>1. n \in Int /\ 1 \in Int
    OBVIOUS
  <2> QED
    BY <2>1, FS_Interval
<1> HIDE DEF s
<1>3. SumFunction(s) \in Nat
  BY <1>1, <1>2, SumIsNat
<1> QED
  BY <1>3 DEF SelectedAmount, s

(* Two estimates of the spending fee differ by the spread at most. *)
LEMMA SpendingSpreadBounds ==
  ASSUME P2wshFundingAssumption, fee_rate \in Nat, inputs \in 1 .. MaxInputs,
         NEW v \in SpendingWeights(inputs), NEW w \in SpendingWeights(inputs)
  PROVE  /\ SpendingSpread \in Nat
         /\ CalculateFee(v, fee_rate) \in Nat
         /\ CalculateFee(w, fee_rate) \in Nat
         /\ CalculateFee(v, fee_rate) <= CalculateFee(w, fee_rate) + SpendingSpread
<1> DEFINE W == SpendingWeights(inputs)
<1>1. W \in SUBSET Nat /\ IsFiniteSet(W) /\ v \in W /\ w \in W
  BY DEF P2wshFundingAssumption
<1>2. CalculateFee(v, fee_rate) \in Nat /\ CalculateFee(w, fee_rate) \in Nat
  BY <1>1, FeeIsNat
<1> HIDE DEF W
<1>3. Spread(W) \in Nat /\ CalculateFee(v, fee_rate) <= CalculateFee(w, fee_rate) + Spread(W)
  BY <1>1, SpreadBounds
<1> QED
  BY <1>2, <1>3 DEF SpendingSpread, W

-----------------------------------------------------------------------------
(* The inductive invariant: the first output holds one estimate of the     *)
(* spending fee over its dust, and another one was taken off the sum.      *)

P2wshTyped ==
  /\ P2wshTypeOK
  /\ fee_rate \in FeeRates /\ wallet \in Wallets /\ inputs \in 1 .. MaxInputs

SpendingFee(w) == CalculateFee(w, fee_rate)

FirstHoldsAFee ==
  /\ status \in {"select", "fund"} => first = 0
  /\ status \in {"spend", "too_heavy", "spent"} \/ first # 0 =>
       \E s \in SpendingWeights(inputs) : first = DUST_THRESHOLD + SpendingFee(s)

FeeIsTakenOff ==
  status \in {"too_heavy", "spent"} =>
    \E s, e \in SpendingWeights(inputs) :
      returned = inputs * DUST_THRESHOLD + SpendingFee(s) - SpendingFee(e)

OnlySpreadFails ==
  status = "insufficient" /\ first # 0 =>
    \E s, e \in SpendingWeights(inputs) :
      SpendingFee(e) > inputs * DUST_THRESHOLD + SpendingFee(s)

P2wshIInv == P2wshTyped /\ FirstHoldsAFee /\ FeeIsTakenOff /\ OnlySpreadFails

LEMMA InitIInv ==
  ASSUME P2wshFundingAssumption, P2wshInit
  PROVE  P2wshIInv
BY DEF P2wshFundingAssumption, P2wshInit, P2wshIInv, P2wshTyped, P2wshTypeOK,
       FirstHoldsAFee, FeeIsTakenOff, OnlySpreadFails

LEMMA SelectKeeps ==
  ASSUME P2wshFundingAssumption, P2wshIInv, SelectUtxos
  PROVE  P2wshIInv'
<1> DEFINE target == inputs * DUST_THRESHOLD + fee_rate * 100
           enough == {n \in 1 .. Len(wallet) : SelectedAmount(n) >= target}
<1>1. wallet \in Seq(Nat)
  BY DEF P2wshFundingAssumption, P2wshIInv, P2wshTyped
<1>2. IsFiniteSet(enough) /\ enough \in SUBSET Int
  <2>1. IsFiniteSet(1 .. Len(wallet))
    BY <1>1, FS_Interval
  <2> QED
    BY <2>1, FS_Subset
<1>3. enough # {} => Min(enough) \in enough
  <2> HIDE DEF enough
  <2> QED
    BY <1>2, MinIsLeast
<1>4. /\ status = "select"
      /\ status' \in {"insufficient", "fund"} /\ selected' \in 0 .. Len(wallet)
      /\ UNCHANGED <<walletVars, first, change, fundingPaid, spendingVars>>
  <2>1. /\ status = "select"
        /\ IF enough = {} THEN status' = "insufficient" /\ UNCHANGED selected
           ELSE status' = "fund" /\ selected' = Min(enough)
        /\ UNCHANGED <<walletVars, first, change, fundingPaid, spendingVars>>
    BY DEF SelectUtxos
  <2>2. selected \in 0 .. Len(wallet) /\ enough \subseteq 0 .. Len(wallet)
    BY <1>1 DEF P2wshIInv, P2wshTyped, P2wshTypeOK
  <2> HIDE DEF enough
  <2> QED
    BY <1>3, <2>1, <2>2
<1> HIDE DEF enough
<1>5. P2wshTyped'
  BY <1>4 DEF P2wshIInv, P2wshTyped, P2wshTypeOK, walletVars, spendingVars
<1>6. first' = 0
  BY <1>4 DEF P2wshIInv, FirstHoldsAFee
<1> QED
  BY <1>4, <1>5, <1>6
  DEF P2wshIInv, FirstHoldsAFee, FeeIsTakenOff, OnlySpreadFails, walletVars, spendingVars

LEMMA FundKeeps ==
  ASSUME P2wshFundingAssumption, P2wshIInv,
         NEW f \in FundingWeights(selected, inputs), NEW s \in SpendingWeights(inputs),
         Fund(f, s)
  PROVE  P2wshIInv'
<1> DEFINE fee == CalculateFee(f, fee_rate)
           spending_fee == CalculateFee(s, fee_rate)
           total_out == inputs * DUST_THRESHOLD + spending_fee + fee
<1>1. f \in Nat /\ s \in Nat /\ fee_rate \in Nat /\ wallet \in Seq(Nat)
  BY DEF P2wshFundingAssumption, P2wshIInv, P2wshTyped, P2wshTypeOK
<1>2. fee \in Nat /\ spending_fee \in Nat /\ SelectedAmount(selected) \in Nat
  BY <1>1, FeeIsNat, SelectedIsNat DEF P2wshIInv, P2wshTyped, P2wshTypeOK
<1>3. inputs * DUST_THRESHOLD \in Nat /\ total_out \in Nat
  <2>1. inputs \in Nat /\ DUST_THRESHOLD \in Nat
    BY DEF P2wshFundingAssumption, P2wshIInv, P2wshTyped
  <2>2. inputs * DUST_THRESHOLD \in Nat
    BY <2>1
  <2> HIDE DEF fee, spending_fee
  <2> QED
    BY <1>2, <2>2
<1>4. /\ status = "fund"
      /\ UNCHANGED <<walletVars, selected, spendingVars>>
      /\ \/ status' = "insufficient" /\ UNCHANGED <<first, change, fundingPaid>>
         \/ /\ total_out <= SelectedAmount(selected)
            /\ status' = "spend"
            /\ first' = DUST_THRESHOLD + spending_fee
            /\ change' = SelectedAmount(selected) - total_out
            /\ fundingPaid' = fee
  <2> HIDE DEF fee, spending_fee
  <2>1. Fund(f, s) =>
          /\ status = "fund"
          /\ UNCHANGED <<walletVars, selected, spendingVars>>
          /\ IF total_out > SelectedAmount(selected)
             THEN status' = "insufficient" /\ UNCHANGED <<first, change, fundingPaid>>
             ELSE /\ status' = "spend"
                  /\ first' = DUST_THRESHOLD + spending_fee
                  /\ change' = SelectedAmount(selected) - total_out
                  /\ fundingPaid' = fee
    BY DEF Fund, fee, spending_fee
  <2> HIDE DEF total_out
  <2> QED
    BY <1>2, <1>3, <2>1
<1>5. spending_fee = SpendingFee(s) /\ SpendingFee(s)' = SpendingFee(s)
  BY <1>4 DEF SpendingFee, walletVars
<1> HIDE DEF fee, spending_fee, total_out
<1>6. P2wshTyped'
  <2>1. status' \in {"insufficient", "spend"}
    BY <1>4
  <2>2. first' \in Nat
    BY <1>2, <1>4 DEF P2wshFundingAssumption, P2wshIInv, P2wshTyped, P2wshTypeOK
  <2>3. change' \in Nat /\ fundingPaid' \in Nat
    <3> DEFINE A == SelectedAmount(selected)
    <3>1. A \in Nat /\ (total_out <= A => A - total_out \in Nat)
      BY <1>2, <1>3
    <3>2. change \in Nat /\ fundingPaid \in Nat
      BY DEF P2wshIInv, P2wshTyped, P2wshTypeOK
    <3>3. \/ change' = change /\ fundingPaid' = fundingPaid
          \/ total_out <= A /\ change' = A - total_out /\ fundingPaid' = fee
      BY <1>4
    <3> HIDE DEF A
    <3> QED
      BY <1>2, <3>1, <3>2, <3>3
  <2> QED
    BY <1>4, <2>1, <2>2, <2>3 DEF P2wshIInv, P2wshTyped, P2wshTypeOK, walletVars, spendingVars
<1>7. first = 0
  BY <1>4 DEF P2wshIInv, FirstHoldsAFee
<1>8. FirstHoldsAFee'
  BY <1>4, <1>5, <1>7 DEF FirstHoldsAFee, walletVars
<1> QED
  BY <1>4, <1>6, <1>7, <1>8 DEF P2wshIInv, FeeIsTakenOff, OnlySpreadFails

LEMMA SpendKeeps ==
  ASSUME P2wshFundingAssumption, P2wshIInv,
         NEW e \in SpendingWeights(inputs), NEW signed \in SpendingWeights(inputs),
         Spend(e, signed)
  PROVE  P2wshIInv'
<1>1. /\ e \in Nat /\ signed \in Nat /\ fee_rate \in Nat
      /\ inputs \in Nat /\ DUST_THRESHOLD \in Nat /\ first \in Nat
  <2>1. inputs \in 1 .. MaxInputs /\ fee_rate \in FeeRates /\ first \in Nat
    BY DEF P2wshIInv, P2wshTyped, P2wshTypeOK
  <2>2. FeeRates \subseteq Nat /\ DUST_THRESHOLD \in Nat /\ SpendingWeights(inputs) \subseteq Nat
    BY <2>1 DEF P2wshFundingAssumption
  <2>3. \A n \in 1 .. MaxInputs : n \in Nat
    BY DEF P2wshFundingAssumption
  <2> QED
    BY <2>1, <2>2, <2>3
<1>2. status = "spend" /\ UNCHANGED <<walletVars, fundingVars>>
  BY DEF Spend
<1>3. PICK s \in SpendingWeights(inputs) : first = DUST_THRESHOLD + SpendingFee(s)
  BY <1>2 DEF P2wshIInv, FirstHoldsAFee
<1>4. SpendingFee(e) \in Nat /\ SpendingFee(s) \in Nat
  <2>1. s \in Nat
    BY DEF P2wshFundingAssumption, P2wshIInv, P2wshTyped
  <2> QED
    BY <1>1, <2>1, FeeIsNat DEF SpendingFee
<1> DEFINE dust == inputs * DUST_THRESHOLD
<1>5. dust \in Nat /\ (inputs - 1) * DUST_THRESHOLD = dust - DUST_THRESHOLD
  BY <1>1
<1> HIDE DEF dust
<1> DEFINE sum == first + (inputs - 1) * DUST_THRESHOLD
           fee == SpendingFee(e)
<1>6. sum = dust + SpendingFee(s)
  <2> DEFINE rest == (inputs - 1) * DUST_THRESHOLD
  <2>1. rest = dust - DUST_THRESHOLD
    BY <1>5
  <2> HIDE DEF rest
  <2>2. first + rest = dust + SpendingFee(s)
    BY <1>1, <1>3, <1>4, <1>5, <2>1
  <2> QED
    BY <2>2 DEF rest
<1>7. IF fee > sum
      THEN status' = "insufficient" /\ UNCHANGED spendingVars
      ELSE /\ status' = IF signed > MAX_STANDARD_TX_WEIGHT THEN "too_heavy" ELSE "spent"
           /\ returned' = sum - fee
           /\ spendingPaid' = fee /\ weight' = signed
  BY DEF Spend, SpendingFee
<1>8. \/ /\ SpendingFee(e) > dust + SpendingFee(s)
         /\ status' = "insufficient" /\ UNCHANGED spendingVars
      \/ /\ SpendingFee(e) <= dust + SpendingFee(s)
         /\ status' \in {"too_heavy", "spent"}
         /\ returned' = dust + SpendingFee(s) - SpendingFee(e)
         /\ spendingPaid' = SpendingFee(e) /\ weight' = signed
  <2> HIDE DEF sum
  <2> QED
    BY <1>4, <1>5, <1>6, <1>7
<1>9. \A w : SpendingFee(w)' = SpendingFee(w)
  BY <1>2 DEF SpendingFee, walletVars
<1>10. P2wshTyped'
  <2>1. status' \in {"insufficient", "too_heavy", "spent"}
    BY <1>8
  <2>2. returned' \in Nat /\ spendingPaid' \in Nat /\ weight' \in Nat
    <3> DEFINE fs == SpendingFee(s)
    <3>1. fee \in Nat /\ fs \in Nat /\ (fee <= dust + fs => dust + fs - fee \in Nat)
      BY <1>4, <1>5
    <3>2. spendingPaid \in Nat /\ returned \in Nat /\ weight \in Nat
      BY DEF P2wshIInv, P2wshTyped, P2wshTypeOK
    <3>3. \/ spendingPaid' = spendingPaid /\ returned' = returned /\ weight' = weight
          \/ /\ fee <= dust + fs /\ returned' = dust + fs - fee
             /\ spendingPaid' = fee /\ weight' = signed
      BY <1>8 DEF spendingVars
    <3> HIDE DEF fee, fs
    <3> QED
      BY <1>1, <3>1, <3>2, <3>3
  <2> QED
    BY <1>2, <2>1, <2>2 DEF P2wshIInv, P2wshTyped, P2wshTypeOK, walletVars, fundingVars
<1>11. inputs' = inputs /\ dust = inputs * DUST_THRESHOLD /\ first' = first
  BY <1>2 DEF dust, walletVars, fundingVars
<1>12. FirstHoldsAFee'
  BY <1>3, <1>8, <1>9, <1>11 DEF FirstHoldsAFee
<1>13. FeeIsTakenOff' /\ OnlySpreadFails'
  BY <1>8, <1>9, <1>11 DEF FeeIsTakenOff, OnlySpreadFails
<1> QED
  BY <1>10, <1>12, <1>13 DEF P2wshIInv

LEMMA NextKeeps ==
  ASSUME P2wshFundingAssumption, P2wshIInv, [P2wshNext]_p2wshVars
  PROVE  P2wshIInv'
<1>1. CASE SelectUtxos
  BY <1>1, SelectKeeps
<1>2. ASSUME NEW f \in FundingWeights(selected, inputs), NEW s \in SpendingWeights(inputs),
             Fund(f, s)
      PROVE  P2wshIInv'
  BY <1>2, FundKeeps
<1>3. ASSUME NEW e \in SpendingWeights(inputs), NEW signed \in SpendingWeights(inputs),
             Spend(e, signed)
      PROVE  P2wshIInv'
  BY <1>3, SpendKeeps
<1>4. CASE UNCHANGED p2wshVars
  BY <1>4 DEF p2wshVars, walletVars, fundingVars, spendingVars, P2wshIInv, P2wshTyped, P2wshTypeOK,
     FirstHoldsAFee, FeeIsTakenOff, OnlySpreadFails, SpendingFee
<1> QED
  BY <1>1, <1>2, <1>3, <1>4 DEF P2wshNext

(* Two fees of the invariant are no further apart than the spread. *)
LEMMA IInvProperties ==
  ASSUME P2wshFundingAssumption, P2wshIInv
  PROVE  P2wshTypeOK /\ DustComesBack /\ FundedIsSpendable
<1>1. P2wshTypeOK
  BY DEF P2wshIInv, P2wshTyped
<1> DEFINE dust == inputs * DUST_THRESHOLD
<1>2. /\ fee_rate \in Nat /\ inputs \in 1 .. MaxInputs /\ dust \in Nat
  BY DEF P2wshFundingAssumption, P2wshIInv, P2wshTyped
<1>3. \A s, e \in SpendingWeights(inputs) :
        /\ SpendingSpread \in Nat /\ SpendingFee(s) \in Nat /\ SpendingFee(e) \in Nat
        /\ SpendingFee(s) <= SpendingFee(e) + SpendingSpread
        /\ SpendingFee(e) <= SpendingFee(s) + SpendingSpread
  BY <1>2, SpendingSpreadBounds DEF SpendingFee
<1> HIDE DEF dust
<1>4. ASSUME status \in {"spent", "too_heavy"}
      PROVE  returned + SpendingSpread >= dust /\ returned <= dust + SpendingSpread
  <2>1. PICK s, e \in SpendingWeights(inputs) :
          returned = dust + SpendingFee(s) - SpendingFee(e)
    BY <1>4 DEF P2wshIInv, FeeIsTakenOff, dust
  <2> QED
    BY <1>2, <1>3, <2>1
<1>5. ASSUME SpendingSpread <= dust, status = "insufficient"
      PROVE  first = 0
  <2> SUFFICES ASSUME first # 0 PROVE FALSE
    OBVIOUS
  <2>1. PICK s, e \in SpendingWeights(inputs) : SpendingFee(e) > dust + SpendingFee(s)
    BY <1>5 DEF P2wshIInv, OnlySpreadFails, dust
  <2> QED
    BY <1>2, <1>3, <1>5, <2>1
<1> QED
  BY <1>1, <1>4, <1>5 DEF DustComesBack, FundedIsSpendable, dust

-----------------------------------------------------------------------------

(* One run of encode: the status tells the technique, and the variables of *)
(* the other one stay as they are.                                         *)

ChainRun == P2wshIdle /\ Typed /\ Tracked /\ FeeNearRate /\ Afforded

P2wshRun == ChainIdle /\ P2wshIInv

EncodeIInv == ChainRun \/ P2wshRun

LEMMA EncodeInitIInv == EncodeInit => EncodeIInv
<1>1. ASSUME Init, P2wshIdle
      PROVE  ChainRun
  <2>1. Typed
    BY <1>1, FundingAssumption, InitTyped
  <2> QED
    BY <1>1, <2>1 DEF ChainRun, Init, Tracked, BookkeepingTracks, FeeNearRate, Afforded
<1>2. ASSUME P2wshInit, ChainIdle
      PROVE  P2wshRun
  BY <1>2, P2wshFundingAssumption, InitIInv DEF P2wshRun
<1> QED
  BY <1>1, <1>2 DEF EncodeInit, EncodeIInv

LEMMA ChainRunStep == ChainRun /\ [EncodeNext]_<<vars, p2wshVars>> => ChainRun'
<1> SUFFICES ASSUME ChainRun, [EncodeNext]_<<vars, p2wshVars>>
             PROVE  ChainRun'
  OBVIOUS
<1>1. status \in {"encoding", "done", "failed"}
  BY DEF ChainRun, Typed, TypeOK
<1>2. ~P2wshNext
  BY <1>1 DEF P2wshNext, SelectUtxos, Fund, Spend
<1>3. [Next]_vars /\ UNCHANGED p2wshOnly
  BY <1>2 DEF EncodeNext, p2wshVars, p2wshOnly, walletVars, fundingVars, spendingVars
<1>4. P2wshIdle'
  BY <1>3 DEF ChainRun, P2wshIdle, p2wshOnly
<1>5. Typed' /\ Tracked' /\ FeeNearRate' /\ Afforded'
  BY <1>3, FundingAssumption, StepTyped, StepTracked, StepAfforded DEF ChainRun
<1> QED
  BY <1>4, <1>5 DEF ChainRun

LEMMA P2wshRunStep == P2wshRun /\ [EncodeNext]_<<vars, p2wshVars>> => P2wshRun'
<1> SUFFICES ASSUME P2wshRun, [EncodeNext]_<<vars, p2wshVars>>
             PROVE  P2wshRun'
  OBVIOUS
<1>1. status # "encoding"
  BY DEF P2wshRun, P2wshIInv, P2wshTyped, P2wshTypeOK
<1>2. ~Next
  BY <1>1 DEF Next, FirstTx, NextTx
<1>3. [P2wshNext]_p2wshVars /\ UNCHANGED chainOnly
  BY <1>2 DEF EncodeNext, vars, chainOnly
<1>4. ChainIdle'
  BY <1>3 DEF P2wshRun, ChainIdle, chainOnly
<1>5. P2wshIInv'
  BY <1>3, P2wshFundingAssumption, NextKeeps DEF P2wshRun
<1> QED
  BY <1>4, <1>5 DEF P2wshRun

LEMMA SpecIInv == EncodeSpec => []EncodeIInv
<1>1. EncodeIInv /\ [EncodeNext]_<<vars, p2wshVars>> => EncodeIInv'
  BY ChainRunStep, P2wshRunStep DEF EncodeIInv
<1> QED
  BY <1>1, EncodeInitIInv, PTL DEF EncodeSpec

(* With either technique no amount is ever negative: no subtraction of the *)
(* encoders goes below zero, whatever the wallet holds and signing makes   *)
(* of the weights.                                                         *)
THEOREM SpecTypeOK == EncodeSpec => []EncodeTypeOK
<1>1. EncodeIInv => EncodeTypeOK
  BY DEF EncodeIInv, ChainRun, P2wshRun, Typed, P2wshIInv, P2wshTyped, EncodeTypeOK
<1> QED
  BY <1>1, SpecIInv, PTL

(* What encode believes output 1 to hold and what it holds do not drift    *)
(* apart, however long the chain.                                          *)
THEOREM SpecBookkeepingTracks == EncodeSpec => []BookkeepingTracks
<1>1. EncodeIInv => BookkeepingTracks
  BY DEF EncodeIInv, ChainRun, P2wshRun, Tracked, ChainIdle, BookkeepingTracks
<1> QED
  BY <1>1, SpecIInv, PTL

(* The fee paid by each transaction of a chain is close to the rate that   *)
(* was asked for, for its final weight.                                    *)
THEOREM SpecFeeNearRate == EncodeSpec => []FeeNearRate
<1>1. EncodeIInv => FeeNearRate
  BY DEF EncodeIInv, ChainRun, P2wshRun, ChainIdle, FeeNearRate
<1> QED
  BY <1>1, SpecIInv, PTL

(* A chain that is affordable is made, and nodes relay all of it, whatever *)
(* signing makes of the weights of its transactions.                       *)
THEOREM SpecAffordableEncodes == EncodeSpec => []AffordableEncodes
<1>1. ChainRun => AffordableEncodes
  BY DEF ChainRun, Afforded, Affordable, AffordableEncodes
<1>2. P2wshRun => AffordableEncodes
  BY DEF P2wshRun, P2wshIInv, P2wshTyped, P2wshTypeOK, ChainIdle, AffordableEncodes
<1> QED
  BY <1>1, <1>2, SpecIInv, PTL DEF EncodeIInv

(* The dust of all the P2WSH outputs comes back, to within one estimate of *)
(* the spending fee.                                                       *)
THEOREM SpecDustComesBack == EncodeSpec => []DustComesBack
<1>1. ChainRun => DustComesBack
  BY DEF ChainRun, Typed, TypeOK, DustComesBack
<1>2. P2wshRun => DustComesBack
  BY P2wshFundingAssumption, IInvProperties DEF P2wshRun
<1> QED
  BY <1>1, <1>2, SpecIInv, PTL DEF EncodeIInv

(* A file that can be funded can be spent, as long as two estimates of the *)
(* spending fee are no further apart than the dust of all the outputs.     *)
THEOREM SpecFundedIsSpendable == EncodeSpec => []FundedIsSpendable
<1>1. ChainRun => FundedIsSpendable
  BY DEF ChainRun, Typed, TypeOK, FundedIsSpendable
<1>2. P2wshRun => FundedIsSpendable
  BY P2wshFundingAssumption, IInvProperties DEF P2wshRun
<1> QED
  BY <1>1, <1>2, SpecIInv, PTL DEF EncodeIInv
=============================================================================
