--------------------------- MODULE PublisherProofs ---------------------------
(***************************************************************************)
(* Proofs about Publisher: for any number of runs, of files of any size,   *)
(* over a wallet of any coins, and without the bounds on faults and kills. *)
(***************************************************************************)
EXTENDS Publisher, ProofLemmas

-----------------------------------------------------------------------------
(* Unconfirmed ancestors *)

(* A set of unconfirmed transactions that has all unconfirmed parents of   *)
(* id, and of each of its own, has all unconfirmed ancestors of id.        *)
LEMMA AncestorsWithin ==
  ASSUME PublisherAssumption, NEW id, NEW S \in SUBSET mempool,
         \A a \in S \cup {id} : \A o \in The(a).ins : Source(o) \in mempool => Source(o) \in S
  PROVE  Ancestors(id) \subseteq S
<1> DEFINE V == SUBSET (mempool \cup {id})
           Up(T) == T \cup ({Source(o) : o \in UNION {The(i).ins : i \in T}} \cap mempool)
           g == [T \in V |-> Up(T)]
           Ups(up) == up = [n \in 0 .. AncestorLimit |-> IF n = 0 THEN {id} ELSE Up(up[n - 1])]
           it == CHOOSE up : Ups(up)
<1>1. AncestorLimit \in Nat
  BY DEF PublisherAssumption
<1>2. {id} \in V /\ g \in [V -> V]
  OBVIOUS
<1>3. PICK up \in [0 .. AncestorLimit -> V] : Iterates(up, AncestorLimit, {id}, g)
  <2> HIDE DEF V, g
  <2> QED
    BY <1>1, <1>2, IterateExists
<1>4. \A n \in 0 .. AncestorLimit : n # 0 => g[up[n - 1]] = Up(up[n - 1])
  <2>1. \A n \in 0 .. AncestorLimit : n # 0 => n - 1 \in 0 .. AncestorLimit
    BY <1>1
  <2>2. \A n \in 0 .. AncestorLimit : n # 0 => up[n - 1] \in V
    BY <2>1
  <2>3. \A T \in V : g[T] = Up(T)
    OBVIOUS
  <2> HIDE DEF V, g, Up
  <2> QED
    BY <2>2, <2>3
<1>5. Ups(up)
  <2>1. up = [n \in 0 .. AncestorLimit |-> IF n = 0 THEN {id} ELSE g[up[n - 1]]]
    BY <1>3 DEF Iterates
  <2> HIDE DEF g, Up
  <2> QED
    BY <1>4, <2>1
<1>6. Ups(it)
  <2> HIDE DEF Ups
  <2> QED
    BY <1>5
<1>7. Ancestors(id) = it[AncestorLimit] \ {id}
  BY Zenon DEF Ancestors
<1> HIDE DEF it
<1> DEFINE T == {n \in Nat : n <= AncestorLimit => it[n] \subseteq S \cup {id}}
<1>8. 0 \in T
  BY <1>1, <1>6
<1>9. ASSUME NEW n \in Nat, n \in T
      PROVE  n + 1 \in T
  <2> SUFFICES ASSUME n + 1 <= AncestorLimit PROVE it[n + 1] \subseteq S \cup {id}
    OBVIOUS
  <2>1. it[n] \subseteq S \cup {id}
    BY <1>1, <1>9
  <2>2. it[n + 1] = Up(it[n])
    <3>1. n + 1 \in 0 .. AncestorLimit /\ n + 1 # 0 /\ (n + 1) - 1 = n
      BY <1>1
    <3> HIDE DEF Up
    <3> QED
      BY <1>6, <3>1
  <2>3. Up(it[n]) \subseteq S \cup {id}
    BY <2>1, SMTT(60)
  <2> QED
    BY <2>2, <2>3
<1>10. AncestorLimit \in T
  <2> HIDE DEF T
  <2>1. Nat \subseteq T
    BY <1>8, <1>9, NatSetInduction
  <2> QED
    BY <1>1, <2>1
<1> QED
  BY <1>7, <1>10

-----------------------------------------------------------------------------
(* The inductive invariant *)

Everyone == Runs \cup {Mint}
Keys == Runs \cup {Wallet, "nobody"}
Outputs == [value : Nat, key : Keys]
Points == Everyone \X Nat \X Nat
Transactions ==
  [ins : SUBSET Points, signer : Everyone \cup {Wallet},
   outs : UNION {[0 .. n - 1 -> Outputs] : n \in Nat}]

Typed ==
  /\ tx \in [Everyone -> Seq(Transactions)]
  /\ phase \in [Runs -> Phases] /\ sent \in [Runs -> Nat]
  /\ mempool \cap confirmed = {} /\ IsFiniteSet(Known)

(* The node has nothing but what was built, and the wallet's first coins   *)
(* from the beginning.                                                     *)
KnownIsBuilt ==
  /\ \A id \in Known : \E r \in Everyone : \E i \in 1 .. Len(tx[r]) : id = <<r, i>>
  /\ <<Mint, 1>> \in confirmed /\ Len(tx[Mint]) = 1 /\ tx[Mint][1].ins = {}

(* A run that is not interrupted knows exactly what of its transactions    *)
(* the node has: the first sent[r].                                        *)
SentIsKnown(r) ==
  /\ tx[r] # <<>>
  /\ \A i \in 1 .. Len(tx[r]) : <<r, i>> \in Known <=> i <= sent[r]

Progress ==
  \A r \in Runs :
    /\ phase[r] \in {"start", "failed"} => tx[r] = <<>> /\ sent[r] = 0
    /\ phase[r] \in {"sending", "refused"} => SentIsKnown(r) /\ sent[r] < Len(tx[r])
    /\ phase[r] = "done" => SentIsKnown(r) /\ sent[r] = Len(tx[r])

(* What the encoders build: each transaction after the first spends the    *)
(* one before it.                                                          *)
IsChain(r) ==
  /\ Len(tx[r]) = Size[r] /\ Size[r] <= MAX_CHAINED_TRANSACTIONS
  /\ Size[r] > 1 => 1 \in DOMAIN tx[r][1].outs /\ tx[r][1].outs[1].key = Wallet
  /\ \A i \in 2 .. Size[r] : tx[r][i] = NextTx(r, i)

IsPair(r) ==
  /\ Len(tx[r]) = 2
  /\ \A v \in 0 .. Size[r] - 1 : v \in DOMAIN tx[r][1].outs /\ tx[r][1].outs[v].key = r
  /\ tx[r][2] = SpendingTx(Size[r], r)

Shaped == \A r \in Runs : tx[r] # <<>> => IF r \in Chained THEN IsChain(r) ELSE IsPair(r)

(* And the first spends confirmed outputs of the wallet, of other runs.    *)
SpendsConfirmed ==
  \A r \in Runs : tx[r] # <<>> =>
    \A o \in tx[r][1].ins :
      o \in OutputsOf(confirmed) /\ OutputAt(o).key = Wallet /\ o[1] # r

IInv == Typed /\ KnownIsBuilt /\ Progress /\ Shaped /\ SpendsConfirmed

-----------------------------------------------------------------------------
(* What transactions spend *)

LEMMA OutputsAreOf ==
  ASSUME IInv, NEW ids \in SUBSET Known, NEW o \in OutputsOf(ids)
  PROVE  /\ Source(o) \in ids /\ o = <<o[1], o[2], o[3]>>
         /\ o[1] \in Everyone /\ o[2] \in 1 .. Len(tx[o[1]])
         /\ o[3] \in DOMAIN tx[o[1]][o[2]].outs /\ OutputAt(o) = tx[o[1]][o[2]].outs[o[3]]
<1>1. PICK id \in ids : \E v \in DOMAIN The(id).outs : o = <<id[1], id[2], v>>
  BY DEF OutputsOf
<1>2. PICK v \in DOMAIN The(id).outs : o = <<id[1], id[2], v>>
  BY <1>1
<1>3. PICK r \in Everyone : \E i \in 1 .. Len(tx[r]) : id = <<r, i>>
  BY DEF IInv, KnownIsBuilt
<1>4. PICK i \in 1 .. Len(tx[r]) : id = <<r, i>>
  BY <1>3
<1>5. o = <<r, i, v>> /\ The(id) = tx[r][i]
  BY <1>2, <1>4 DEF The
<1> QED
  BY <1>2, <1>4, <1>5 DEF Source, OutputAt, The

(* The first transaction of a run spends confirmed outputs of the wallet   *)
(* that others made; a later one spends the transaction before it.         *)
LEMMA Inputs ==
  ASSUME PublisherAssumption, IInv, NEW r \in Everyone, NEW i \in 1 .. Len(tx[r]),
         NEW o \in tx[r][i].ins
  PROVE  /\ r \in Runs
         /\ i = 1 => Source(o) \in confirmed /\ OutputAt(o).key = Wallet /\ o[1] # r
         /\ i # 1 => Source(o) = <<r, i - 1>> /\ o[1] = r
<1>1. r \in Runs
  BY DEF IInv, KnownIsBuilt, Everyone
<1>2. tx[r] \in Seq(Transactions) /\ Len(tx[r]) \in Nat /\ tx[r] # <<>>
  BY <1>1 DEF IInv, Typed, Everyone
<1>3. CASE i = 1
  <2>1. o \in OutputsOf(confirmed) /\ OutputAt(o).key = Wallet /\ o[1] # r
    BY <1>1, <1>2, <1>3 DEF IInv, SpendsConfirmed
  <2>2. Source(o) \in confirmed
    BY <2>1, OutputsAreOf DEF Known
  <2> QED
    BY <1>1, <1>3, <2>1, <2>2
<1>4. CASE i # 1 /\ r \in Chained
  <2>1. IsChain(r) /\ i \in 2 .. Size[r]
    BY <1>1, <1>2, <1>4, SMTT(60) DEF IInv, Shaped, IsChain
  <2>2. tx[r][i] = NextTx(r, i)
    BY <2>1 DEF IsChain
  <2>3. o = <<r, i - 1, 1>>
    BY <2>2 DEF NextTx
  <2> QED
    BY <1>1, <1>4, <2>3 DEF Source
<1>5. CASE i # 1 /\ r \notin Chained
  <2>1. IsPair(r)
    BY <1>1, <1>2, <1>5 DEF IInv, Shaped
  <2> i = 2
    BY <1>5, <2>1 DEF IsPair
  <2>2. o \in {<<r, 1, v>> : v \in 0 .. Size[r] - 1}
    BY <2>1 DEF IsPair, SpendingTx
  <2>3. Source(o) = <<r, 1>> /\ o[1] = r
    BY <2>2 DEF Source
  <2> QED
    BY <1>1, <2>1, <2>3
<1> QED
  BY <1>3, <1>4, <1>5

-----------------------------------------------------------------------------
(* The limits of the node *)

Own(r, k) == {<<r, j>> : j \in 1 .. k}

LEMMA OwnCount ==
  ASSUME NEW r, NEW k \in Nat
  PROVE  IsFiniteSet(Own(r, k)) /\ Cardinality(Own(r, k)) = k
<1> DEFINE f == [j \in 1 .. k |-> <<r, j>>]
<1>1. f \in Bijection(1 .. k, Own(r, k))
  BY DEF Bijection, Injection, Surjection, IsInjective, Own
<1>2. IsFiniteSet(1 .. k) /\ Cardinality(1 .. k) = k
  BY FS_Interval
<1> HIDE DEF f
<1>3. ExistsBijection(1 .. k, Own(r, k))
  BY <1>1 DEF ExistsBijection
<1> QED
  BY <1>2, <1>3, FS_Bijection, Zenon

(* All unconfirmed ancestors of a transaction are of its own run. *)
LEMMA OwnAncestors ==
  ASSUME PublisherAssumption, IInv, NEW r \in Everyone, NEW i \in 1 .. Len(tx[r])
  PROVE  Ancestors(<<r, i>>) \subseteq Own(r, i - 1)
<1> DEFINE S == Own(r, i - 1) \cap mempool
<1>1. tx[r] \in Seq(Transactions) /\ Len(tx[r]) \in Nat
  BY DEF IInv, Typed
<1>2. ASSUME NEW a \in S \cup {<<r, i>>}, NEW o \in The(a).ins, Source(o) \in mempool
      PROVE  Source(o) \in S
  <2>1. PICK j \in 1 .. i : a = <<r, j>>
    BY DEF Own
  <2>2. j \in 1 .. Len(tx[r]) /\ o \in tx[r][j].ins
    BY <1>1, <2>1 DEF The
  <2>3. j = 1 => Source(o) \in confirmed
    BY <2>2, Inputs
  <2>4. j # 1 => Source(o) = <<r, j - 1>> /\ j - 1 \in 1 .. i - 1
    BY <2>2, Inputs, SMTT(60)
  <2>5. mempool \cap confirmed = {}
    BY DEF IInv, Typed
  <2>6. j # 1
    BY <1>2, <2>3, <2>5
  <2> QED
    BY <1>2, <2>4, <2>6 DEF Own
<1>3. S \in SUBSET mempool
  OBVIOUS
<1> HIDE DEF S
<1>4. Ancestors(<<r, i>>) \subseteq S
  BY <1>2, <1>3, AncestorsWithin
<1> QED
  BY <1>4 DEF S

LEMMA FileFits ==
  ASSUME PublisherAssumption, IInv, NEW r \in Runs, tx[r] # <<>>
  PROVE  Len(tx[r]) \in Nat \ {0} /\ Len(tx[r]) <= AncestorLimit
<1>1. tx[r] \in Seq(Transactions)
  BY DEF IInv, Typed, Everyone
<1>2. /\ MAX_CHAINED_TRANSACTIONS \in Nat /\ AncestorLimit \in Nat
      /\ MAX_CHAINED_TRANSACTIONS <= AncestorLimit /\ 2 <= AncestorLimit
      /\ Size[r] \in Nat
  BY DEF PublisherAssumption
<1>3. \/ Len(tx[r]) = Size[r] /\ Size[r] <= MAX_CHAINED_TRANSACTIONS
      \/ Len(tx[r]) = 2
  BY DEF IInv, Shaped, IsChain, IsPair
<1> DEFINE n == Len(tx[r])
<1>4. n \in Nat \ {0}
  BY <1>1
<1> HIDE DEF n
<1>5. n <= AncestorLimit
  <2> DEFINE size == Size[r]
  <2>1. size \in Nat /\ ((n = size /\ size <= MAX_CHAINED_TRANSACTIONS) \/ n = 2)
    BY <1>2, <1>3 DEF n
  <2> HIDE DEF size
  <2> QED
    BY <1>2, <1>4, <2>1
<1> QED
  BY <1>4, <1>5 DEF n

LEMMA NextWithinLimits ==
  ASSUME PublisherAssumption, IInv, NEW r \in Runs, phase[r] = "sending"
  PROVE  WithinLimits(<<r, sent[r] + 1>>)
<1> DEFINE n == sent[r]
<1>1. n \in Nat /\ n < Len(tx[r]) /\ SentIsKnown(r)
  BY DEF IInv, Typed, Progress
<1>2. Len(tx[r]) \in Nat /\ Len(tx[r]) <= AncestorLimit /\ AncestorLimit \in Nat
  BY <1>1, FileFits DEF SentIsKnown, PublisherAssumption
<1>3. n + 1 \in 1 .. Len(tx[r]) /\ n < AncestorLimit /\ (n + 1) - 1 = n
  BY <1>1, <1>2, SMTT(60)
<1> HIDE DEF n
<1>4. Ancestors(<<r, n + 1>>) \subseteq Own(r, n)
  BY <1>3, OwnAncestors DEF Everyone
<1>5. Cardinality(Ancestors(<<r, n + 1>>)) < AncestorLimit
  <2>1. IsFiniteSet(Own(r, n)) /\ Cardinality(Own(r, n)) = n
    BY <1>1, OwnCount
  <2>2. /\ Cardinality(Ancestors(<<r, n + 1>>)) <= n
        /\ Cardinality(Ancestors(<<r, n + 1>>)) \in Nat
    BY <1>4, <2>1, FS_Subset, FS_CardinalityType
  <2> QED
    BY <1>1, <1>2, <1>3, <2>2
<1>6. ASSUME NEW a \in Ancestors(<<r, n + 1>>)
      PROVE  Cardinality(Descendants(a)) + 1 < AncestorLimit
  <2>1. PICK j \in 1 .. n : a = <<r, j>>
    BY <1>4, <1>6 DEF Own
  <2> DEFINE Later == Own(r, n) \ {<<r, 1>>}
  <2>2. ASSUME NEW d \in Descendants(a)
        PROVE  d \in Later
    <3>1. d \in mempool /\ a \in Ancestors(d)
      BY <2>2 DEF Descendants
    <3>2. PICK s \in Everyone : \E k \in 1 .. Len(tx[s]) : d = <<s, k>>
      BY <3>1 DEF IInv, KnownIsBuilt, Known
    <3>3. PICK k \in 1 .. Len(tx[s]) : d = <<s, k>>
      BY <3>2
    <3>4. a \in Own(s, k - 1)
      BY <3>1, <3>3, OwnAncestors
    <3>5. s = r /\ j \in 1 .. k - 1
      BY <2>1, <3>4 DEF Own
    <3>6. k <= n /\ k # 1
      BY <3>1, <3>3, <3>5, <1>1 DEF SentIsKnown, Known, n
    <3> QED
      BY <1>1, <3>3, <3>5, <3>6 DEF Own
  <2>3. IsFiniteSet(Own(r, n)) /\ Cardinality(Own(r, n)) = n /\ <<r, 1>> \in Own(r, n)
    <3>1. 1 \in 1 .. n
      BY <1>1, <2>1
    <3>2. <<r, 1>> \in Own(r, n)
      BY <3>1 DEF Own
    <3> QED
      BY <1>1, <3>2, OwnCount
  <2>4. IsFiniteSet(Later) /\ Cardinality(Later) = n - 1
    <3> DEFINE O == Own(r, n)
               head == <<r, 1>>
    <3>1. IsFiniteSet(O) /\ Cardinality(O) = n /\ head \in O
      BY <2>3
    <3> HIDE DEF O, head
    <3>2. IsFiniteSet(O \ {head}) /\ Cardinality(O \ {head}) = n - 1
      BY <3>1, FS_RemoveElement
    <3> QED
      BY <3>2 DEF O, head
  <2> HIDE DEF Later
  <2>5. Cardinality(Descendants(a)) <= n - 1 /\ Cardinality(Descendants(a)) \in Nat
    <3>1. Descendants(a) \subseteq Later
      BY <2>2
    <3> QED
      BY <2>4, <3>1, FS_Subset, FS_CardinalityType
  <2> DEFINE c == Cardinality(Descendants(a))
  <2>6. c \in Nat /\ c <= n - 1
    BY <2>5
  <2> HIDE DEF c
  <2>7. c + 1 < AncestorLimit
    BY <1>1, <1>2, <1>3, <2>6
  <2> QED
    BY <2>7 DEF c
<1> QED
  BY <1>5, <1>6 DEF WithinLimits, n

-----------------------------------------------------------------------------
(* What the node makes of the next transaction of a run *)

(* Who spends what the next transaction is to spend is another run, to     *)
(* which it was a confirmed coin.                                          *)
LEMMA OnlyOthersSpend ==
  ASSUME PublisherAssumption, IInv, NEW r \in Runs, phase[r] = "sending", sent[r] # 0,
         NEW o \in tx[r][sent[r] + 1].ins, NEW id \in Known, o \in The(id).ins
  PROVE  /\ id[1] # r
         /\ <<r, sent[r]>> \in confirmed /\ OutputAt(o).key = Wallet
<1> DEFINE n == sent[r]
<1>1. n \in Nat /\ n # 0 /\ n < Len(tx[r]) /\ SentIsKnown(r) /\ Len(tx[r]) \in Nat /\ r \in Everyone
  BY FileFits DEF IInv, Typed, Progress, SentIsKnown, Everyone
<1>2. n + 1 \in 1 .. Len(tx[r]) /\ n + 1 # 1 /\ (n + 1) - 1 = n
  <2>1. \A a, b \in Nat : a # 0 /\ a < b => a + 1 \in 1 .. b /\ a + 1 # 1 /\ (a + 1) - 1 = a
    OBVIOUS
  <2> HIDE DEF n
  <2> QED
    BY <1>1, <2>1
<1>3. o \in tx[r][n + 1].ins
  OBVIOUS
<1> HIDE DEF n
<1>4. Source(o) = <<r, n>> /\ o[1] = r
  <2> DEFINE m == n + 1
  <2>1. m \in 1 .. Len(tx[r]) /\ m # 1 /\ m - 1 = n /\ o \in tx[r][m].ins
    BY <1>2, <1>3
  <2> HIDE DEF m
  <2> QED
    BY <1>1, <2>1, Inputs
<1>5. PICK s \in Everyone : \E k \in 1 .. Len(tx[s]) : id = <<s, k>>
  BY DEF IInv, KnownIsBuilt
<1>6. PICK k \in 1 .. Len(tx[s]) : id = <<s, k>>
  BY <1>5
<1>7. o \in tx[s][k].ins /\ id[1] = s
  BY <1>6 DEF The
<1>8. CASE k = 1
  <2>1. Source(o) \in confirmed /\ OutputAt(o).key = Wallet /\ o[1] # s
    BY <1>7, <1>8, Inputs
  <2> QED
    BY <1>4, <1>7, <2>1 DEF n
<1>9. CASE k # 1
  <2>1. Source(o) = <<s, k - 1>> /\ o[1] = s
    BY <1>7, <1>9, Inputs, SMTT(60)
  <2>2. s = r /\ k - 1 = n
    BY <1>4, <2>1
  <2>3. k = n + 1 /\ <<r, n + 1>> \in Known
    BY <1>1, <1>6, <2>2
  <2>4. n + 1 <= n
    BY <1>1, <1>2, <2>3 DEF SentIsKnown, n
  <2> QED
    BY <1>1, <2>4
<1> QED
  BY <1>8, <1>9

(* The node takes the spending transaction of a P2WSH file. *)
LEMMA PairIsTaken ==
  ASSUME PublisherAssumption, IInv, NEW r \in Runs \ Chained, phase[r] = "sending",
         sent[r] # 0
  PROVE  Acceptable(<<r, sent[r] + 1>>)
<1> DEFINE next == <<r, 2>>
<1>1. SentIsKnown(r) /\ sent[r] < Len(tx[r]) /\ sent[r] \in Nat
  BY DEF IInv, Typed, Progress
<1>2. IsPair(r) /\ Len(tx[r]) = 2
  BY <1>1 DEF IInv, Shaped, SentIsKnown, IsPair
<1>3. sent[r] = 1
  BY <1>1, <1>2
<1>4. The(next) = SpendingTx(Size[r], r) /\ tx[r][sent[r] + 1] = SpendingTx(Size[r], r)
  BY <1>2, <1>3 DEF The, IsPair
<1>5. <<r, 1>> \in Known
  BY <1>1, <1>2, <1>3 DEF SentIsKnown
<1>6. Size[r] \in Nat \ {0} /\ r # Wallet
  BY DEF PublisherAssumption, Wallet
<1>7. ASSUME NEW o \in The(next).ins
      PROVE  /\ Source(o) \in Known
             /\ SpendersIn(Known, o) = {}
             /\ OutputAt(o).key = The(next).signer
  <2>1. PICK v \in 0 .. Size[r] - 1 : o = <<r, 1, v>>
    BY <1>4, <1>7 DEF SpendingTx
  <2>2. Source(o) = <<r, 1>> /\ OutputAt(o) = tx[r][1].outs[v]
    BY <2>1 DEF Source, OutputAt, The
  <2>3. OutputAt(o).key = r /\ The(next).signer = r
    BY <1>2, <1>4, <2>2 DEF IsPair, SpendingTx
  <2>4. o \in tx[r][sent[r] + 1].ins
    BY <1>4, <1>7
  <2>5. \A id \in Known : o \notin The(id).ins
    BY <1>6, <2>3, <2>4, OnlyOthersSpend
  <2> QED
    BY <1>5, <2>2, <2>3, <2>5 DEF SpendersIn
<1>8. ASSUME NEW v \in DOMAIN The(next).outs
      PROVE  The(next).outs[v].value >= DustLimit
  <2>1. The(next).outs[v].value = Size[r] * DUST_THRESHOLD
    BY <1>4, <1>8 DEF SpendingTx, Output
  <2>2. DUST_THRESHOLD \in Nat /\ DustLimit \in Nat /\ DustLimit <= DUST_THRESHOLD
    BY DEF PublisherAssumption
  <2>3. \A n \in Nat \ {0} : n * DUST_THRESHOLD >= DUST_THRESHOLD /\ n * DUST_THRESHOLD \in Nat
    BY <2>2
  <2> DEFINE all == Size[r] * DUST_THRESHOLD
  <2>4. all >= DUST_THRESHOLD /\ all \in Nat
    BY <1>6, <2>3
  <2> HIDE DEF all
  <2>5. all >= DustLimit
    BY <2>2, <2>4
  <2> QED
    BY <2>1, <2>5 DEF all
<1>9. WithinLimits(next)
  BY <1>3, NextWithinLimits
<1> HIDE DEF next
<1>10. Acceptable(next)
  BY <1>7, <1>8, <1>9 DEF Acceptable
<1> QED
  BY <1>3, <1>10 DEF next

Explained(r) ==
  \/ /\ <<r, sent[r]>> \in confirmed
     /\ \E id \in Known : id[1] # r /\ <<r, sent[r], 1>> \in The(id).ins
  \/ The(<<r, sent[r] + 1>>).outs[1].value < DustLimit

(* It takes the next transaction of a chain, unless someone has its coin,  *)
(* or it pays too little.                                                  *)
LEMMA RefusalExplained ==
  ASSUME PublisherAssumption, IInv, NEW r \in Chained, phase[r] = "sending", sent[r] # 0,
         ~ Acceptable(<<r, sent[r] + 1>>)
  PROVE  Explained(r)
<1> DEFINE n == sent[r]
           next == <<r, n + 1>>
           coin == <<r, n, 1>>
<1>0. r \in Runs
  BY DEF PublisherAssumption
<1>1. /\ SentIsKnown(r) /\ n < Len(tx[r]) /\ n \in Nat /\ n # 0
      /\ IsChain(r) /\ Size[r] = Len(tx[r]) /\ Len(tx[r]) \in Nat
  BY <1>0, FileFits DEF IInv, Typed, Progress, Shaped, SentIsKnown, IsChain
<1>2. n + 1 \in 2 .. Size[r] /\ n \in 1 .. Len(tx[r]) /\ (n + 1) - 1 = n
  <2>1. \A a, b \in Nat :
          a # 0 /\ a < b => a + 1 \in 2 .. b /\ a \in 1 .. b /\ (a + 1) - 1 = a
    OBVIOUS
  <2> HIDE DEF n
  <2> QED
    BY <1>1, <2>1
<1>3. tx[r][n + 1] = NextTx(r, n + 1) /\ The(next) = NextTx(r, n + 1)
  BY <1>1, <1>2 DEF IsChain, The
<1>4. The(next).ins = {coin} /\ The(next).signer = Wallet
  <2>1. NextTx(r, n + 1).ins = {<<r, (n + 1) - 1, 1>>} /\ NextTx(r, n + 1).signer = Wallet
    BY DEF NextTx
  <2> HIDE DEF n
  <2> QED
    BY <1>2, <1>3, <2>1
<1>5. Source(coin) \in Known
  BY <1>1, <1>2, SMTT(60) DEF SentIsKnown, Source
<1>6. OutputAt(coin).key = Wallet
  <2>1. OutputAt(coin) = tx[r][n].outs[1]
    BY DEF OutputAt, Source, The
  <2>2. CASE n = 1
    BY <1>1, <2>1, <2>2 DEF IsChain
  <2>3. CASE n # 1
    <3>1. n \in 2 .. Size[r]
      BY <1>1, <2>3
    <3>2. tx[r][n] = NextTx(r, n)
      BY <1>1, <3>1 DEF IsChain
    <3>3. tx[r][n].outs[1] = Output(CONTINUATION_AMOUNT - n * Fee, Wallet)
      BY <3>2 DEF NextTx, AfterOpReturn
    <3> QED
      BY <2>1, <3>3 DEF Output
  <2> QED
    BY <2>2, <2>3
<1>7. CASE SpendersIn(Known, coin) # {}
  <2>1. PICK id \in Known : coin \in The(id).ins
    BY <1>7 DEF SpendersIn
  <2>2. coin \in tx[r][n + 1].ins
    BY <1>3, <1>4
  <2> QED
    BY <1>0, <1>1, <2>1, <2>2, OnlyOthersSpend DEF Explained
<1>8. CASE SpendersIn(Known, coin) = {}
  <2>1. WithinLimits(next)
    BY <1>0, NextWithinLimits
  <2>2. DOMAIN The(next).outs = 0 .. 1 /\ The(next).outs[0] = OpReturn
    BY <1>3 DEF NextTx, AfterOpReturn
  <2>3. ~(The(next).outs[1].value >= DustLimit)
    <3> SUFFICES ASSUME The(next).outs[1].value >= DustLimit PROVE Acceptable(next)
      OBVIOUS
    <3>1. \A v \in DOMAIN The(next).outs : v = 0 \/ v = 1
      BY <2>2, SMTT(60)
    <3> HIDE DEF next, coin
    <3> QED
      BY <1>4, <1>5, <1>6, <1>8, <2>1, <2>2, <3>1 DEF Acceptable
  <2>4. The(next).outs[1].value = CONTINUATION_AMOUNT - (n + 1) * Fee
    BY <1>2, <1>3 DEF NextTx, AfterOpReturn, Output
  <2>5. (n + 1) * Fee \in Nat /\ CONTINUATION_AMOUNT \in Nat /\ DustLimit \in Nat
    BY <1>1 DEF PublisherAssumption
  <2>6. The(next).outs[1].value < DustLimit
    BY <2>3, <2>4, <2>5, SMTT(60)
  <2> QED
    BY <2>6 DEF Explained
<1> QED
  BY <1>7, <1>8

-----------------------------------------------------------------------------
(* Coins *)

(* What the wallet lists is confirmed and worth something. *)
LEMMA Listed ==
  ASSUME IInv, NEW o \in ListUnspent
  PROVE  /\ o \in OutputsOf(confirmed) /\ OutputAt(o).key = Wallet
         /\ OutputAt(o).value \in Nat /\ o \in Points /\ Source(o) \in confirmed
<1>1. o \in OutputsOf(confirmed) /\ OutputAt(o).key = Wallet
  BY DEF ListUnspent
<1>2. /\ Source(o) \in confirmed /\ o = <<o[1], o[2], o[3]>>
      /\ o[1] \in Everyone /\ o[2] \in 1 .. Len(tx[o[1]])
      /\ o[3] \in DOMAIN tx[o[1]][o[2]].outs /\ OutputAt(o) = tx[o[1]][o[2]].outs[o[3]]
  BY <1>1, OutputsAreOf DEF Known
<1>3. tx[o[1]] \in Seq(Transactions) /\ Len(tx[o[1]]) \in Nat
  BY <1>2 DEF IInv, Typed
<1>4. tx[o[1]][o[2]] \in Transactions
  BY <1>2, <1>3
<1>5. PICK n \in Nat : tx[o[1]][o[2]].outs \in [0 .. n - 1 -> Outputs]
  BY <1>4 DEF Transactions
<1>6. o[3] \in Nat /\ OutputAt(o) \in Outputs
  BY <1>2, <1>5
<1>7. o[2] \in Nat
  BY <1>2, <1>3
<1> QED
  BY <1>1, <1>2, <1>6, <1>7 DEF Points, Outputs

(* It lists finitely many coins. *)
LEMMA ListedFinite ==
  ASSUME IInv
  PROVE  IsFiniteSet(ListUnspent)
<1> DEFINE Outs == [id \in confirmed |-> {<<id[1], id[2], v>> : v \in DOMAIN The(id).outs}]
<1>1. IsFiniteSet(confirmed)
  BY FS_Subset DEF IInv, Typed, Known
<1>2. IsFiniteSet({Outs[id] : id \in confirmed})
  BY <1>1, FiniteImage
<1>3. ASSUME NEW id \in confirmed
      PROVE  IsFiniteSet(Outs[id])
  <2>1. PICK r \in Everyone : \E i \in 1 .. Len(tx[r]) : id = <<r, i>>
    BY DEF IInv, KnownIsBuilt, Known
  <2>2. PICK i \in 1 .. Len(tx[r]) : id = <<r, i>>
    BY <2>1
  <2>3. tx[r] \in Seq(Transactions)
    BY DEF IInv, Typed
  <2>4. The(id) \in Transactions
    BY <2>2, <2>3 DEF The
  <2>5. PICK n \in Nat : The(id).outs \in [0 .. n - 1 -> Outputs]
    BY <2>4 DEF Transactions
  <2> DEFINE f == [v \in 0 .. n - 1 |-> <<id[1], id[2], v>>]
  <2>6. IsFiniteSet(0 .. n - 1)
    BY FS_Interval
  <2>7. IsFiniteSet({f[v] : v \in 0 .. n - 1})
    BY <2>6, FiniteImage
  <2>8. Outs[id] = {f[v] : v \in 0 .. n - 1}
    BY <2>5
  <2> QED
    BY <2>7, <2>8
<1>4. OutputsOf(confirmed) = UNION {Outs[id] : id \in confirmed}
  BY DEF OutputsOf
<1>5. IsFiniteSet(UNION {Outs[id] : id \in confirmed})
  <2> DEFINE F == {Outs[id] : id \in confirmed}
  <2>1. \A T \in F : IsFiniteSet(T)
    BY <1>3
  <2> HIDE DEF F, Outs
  <2>2. IsFiniteSet(F)
    BY <1>2 DEF F
  <2>3. IsFiniteSet(UNION F)
    BY <2>1, <2>2, FS_UNION
  <2> QED
    BY <2>3 DEF F
<1> QED
  BY <1>4, <1>5, FS_Subset DEF ListUnspent

LEMMA CoinsWorth ==
  ASSUME IInv, NEW S \in SUBSET ListUnspent
  PROVE  Worth(S) \in Nat
<1>1. IsFiniteSet(S)
  BY ListedFinite, FS_Subset
<1> DEFINE f == [o \in S |-> OutputAt(o).value]
<1>2. f \in [S -> Nat]
  BY Listed
<1> HIDE DEF f
<1>3. SumFunction(f) \in Nat
  BY <1>1, <1>2, SumIsNat
<1> QED
  BY <1>3 DEF Worth, f

-----------------------------------------------------------------------------
(* What the encoders build *)

LEMMA OutputTyped ==
  ASSUME NEW v \in Nat, NEW k \in Keys
  PROVE  Output(v, k) \in Outputs /\ Output(v, k).key = k
BY DEF Output, Outputs

LEMMA AfterOpReturnTyped ==
  ASSUME NEW outs \in Seq(Outputs)
  PROVE  /\ AfterOpReturn(outs) \in [0 .. Len(outs) -> Outputs]
         /\ Len(outs) \in Nat
         /\ \A v \in 1 .. Len(outs) : AfterOpReturn(outs)[v] = outs[v]
<1>1. OpReturn \in Outputs
  BY OutputTyped DEF OpReturn, Keys
<1> QED
  BY <1>1 DEF AfterOpReturn

LEMMA TransactionTyped ==
  ASSUME NEW ins \in SUBSET Points, NEW signer \in Everyone \cup {Wallet},
         NEW n \in Nat, NEW outs \in [0 .. n -> Outputs]
  PROVE  [ins |-> ins, signer |-> signer, outs |-> outs] \in Transactions
<1>1. n + 1 \in Nat /\ 0 .. n = 0 .. (n + 1) - 1
  OBVIOUS
<1>2. outs \in UNION {[0 .. k - 1 -> Outputs] : k \in Nat}
  BY <1>1
<1> QED
  BY <1>2 DEF Transactions

LEMMA FirstTxTyped ==
  ASSUME PublisherAssumption, IInv, NEW o \in ListUnspent, NEW n \in Nat, CoversFirst(o, n)
  PROVE  /\ FirstTx(o, n) \in Transactions /\ FirstTx(o, n).ins = {o}
         /\ n > 1 => 1 \in DOMAIN FirstTx(o, n).outs /\ FirstTx(o, n).outs[1].key = Wallet
<1> DEFINE value == OutputAt(o).value
           rest == value - Fee - IF n > 1 THEN CONTINUATION_AMOUNT ELSE 0
           change == Output(rest, Wallet)
           next == Output(CONTINUATION_AMOUNT, Wallet)
           outs == IF n > 1 THEN <<next, change>> ELSE <<change>>
<1>1. value \in Nat /\ o \in Points
  BY Listed
<1>2. Fee \in Nat /\ CONTINUATION_AMOUNT \in Nat
  BY DEF PublisherAssumption
<1>3. value >= Fee + IF n > 1 THEN CONTINUATION_AMOUNT ELSE 0
  BY DEF CoversFirst
<1>4. FirstTx(o, n) = [ins |-> {o}, signer |-> Wallet, outs |-> AfterOpReturn(outs)]
  BY DEF FirstTx
<1>5. rest \in Nat
  <2> HIDE DEF value
  <2> QED
    BY <1>1, <1>2, <1>3
<1>6. change \in Outputs /\ next \in Outputs /\ next.key = Wallet
  <2> HIDE DEF rest
  <2> QED
    BY <1>2, <1>5, OutputTyped DEF Keys
<1> HIDE DEF change, next
<1>7. outs \in Seq(Outputs) /\ (n > 1 => Len(outs) = 2 /\ outs[1] = next)
  BY <1>6
<1> HIDE DEF outs
<1>8. /\ AfterOpReturn(outs) \in [0 .. Len(outs) -> Outputs] /\ Len(outs) \in Nat
      /\ \A v \in 1 .. Len(outs) : AfterOpReturn(outs)[v] = outs[v]
  BY <1>7, AfterOpReturnTyped
<1>9. FirstTx(o, n) \in Transactions
  <2> DEFINE ins == {o}
             all == AfterOpReturn(outs)
             k == Len(outs)
  <2>1. ins \in SUBSET Points /\ k \in Nat /\ all \in [0 .. k -> Outputs]
    BY <1>1, <1>8
  <2> HIDE DEF ins, all, k
  <2>2. [ins |-> ins, signer |-> Wallet, outs |-> all] \in Transactions
    BY <2>1, TransactionTyped
  <2> QED
    BY <1>4, <2>2 DEF ins, all
<1> QED
  BY <1>4, <1>6, <1>7, <1>8, <1>9

LEMMA NextTxTyped ==
  ASSUME PublisherAssumption, NEW r \in Runs, NEW n \in Nat, NEW i \in 2 .. n,
         CONTINUATION_AMOUNT >= n * Fee
  PROVE  NextTx(r, i) \in Transactions
<1> DEFINE rest == CONTINUATION_AMOUNT - i * Fee
           out == Output(rest, Wallet)
<1>1. Fee \in Nat /\ CONTINUATION_AMOUNT \in Nat
  BY DEF PublisherAssumption
<1>2. rest \in Nat
  <2>1. \A a, b \in Nat : a <= b => a * Fee \in Nat /\ b * Fee \in Nat /\ a * Fee <= b * Fee
    BY <1>1
  <2> DEFINE low == i * Fee
             high == n * Fee
  <2>2. low \in Nat /\ high \in Nat /\ low <= high /\ CONTINUATION_AMOUNT >= high
    <3>1. i \in Nat /\ n \in Nat /\ i <= n
      OBVIOUS
    <3> QED
      BY <2>1, <3>1
  <2> HIDE DEF low, high
  <2>3. CONTINUATION_AMOUNT - low \in Nat
    BY <1>1, <2>2
  <2> QED
    BY <2>3 DEF low
<1> HIDE DEF rest
<1>3. out \in Outputs
  BY <1>2, OutputTyped DEF Keys
<1> HIDE DEF out
<1>4. AfterOpReturn(<<out>>) \in [0 .. 1 -> Outputs]
  <2>1. <<out>> \in Seq(Outputs) /\ Len(<<out>>) = 1
    BY <1>3
  <2> QED
    BY <2>1, AfterOpReturnTyped
<1>5. NextTx(r, i) = [ins |-> {<<r, i - 1, 1>>}, signer |-> Wallet, outs |-> AfterOpReturn(<<out>>)]
  BY DEF NextTx, out, rest
<1>6. <<r, i - 1, 1>> \in Points
  BY DEF Points, Everyone
<1> DEFINE ins == {<<r, i - 1, 1>>}
           outs == AfterOpReturn(<<out>>)
<1>7. ins \in SUBSET Points /\ 1 \in Nat /\ outs \in [0 .. 1 -> Outputs]
  BY <1>4, <1>6
<1> HIDE DEF ins, outs
<1>8. [ins |-> ins, signer |-> Wallet, outs |-> outs] \in Transactions
  BY <1>7, TransactionTyped
<1> QED
  BY <1>5, <1>8 DEF ins, outs

LEMMA FundingTxTyped ==
  ASSUME PublisherAssumption, IInv, NEW r \in Runs, NEW S \in SUBSET ListUnspent,
         Worth(S) >= Size[r] * DUST_THRESHOLD + 2 * Fee
  PROVE  LET t == FundingTx(S, Size[r], r)
         IN /\ t \in Transactions /\ t.ins = S
            /\ \A v \in 0 .. Size[r] - 1 : v \in DOMAIN t.outs /\ t.outs[v].key = r
<1> DEFINE n == Size[r]
           worth == Worth(S)
           all == n * DUST_THRESHOLD
           outs == FundingTx(S, n, r).outs
<1>1. n \in Nat \ {0} /\ DUST_THRESHOLD \in Nat /\ Fee \in Nat
  BY DEF PublisherAssumption
<1>2. worth \in Nat
  BY CoinsWorth
<1>3. all \in Nat
  <2>1. \A a \in Nat : a * DUST_THRESHOLD \in Nat
    BY <1>1
  <2> HIDE DEF n
  <2> QED
    BY <1>1, <2>1
<1>4. worth >= all + 2 * Fee
  OBVIOUS
<1>5. worth - all - 2 * Fee \in Nat
  <2> HIDE DEF worth, all
  <2> QED
    BY <1>1, <1>2, <1>3, <1>4
<1> HIDE DEF n, worth
<1>6. outs = [v \in 0 .. n |->
               IF v = n THEN Output(worth - all - 2 * Fee, Wallet)
               ELSE Output(IF v = 0 THEN DUST_THRESHOLD + Fee ELSE DUST_THRESHOLD, r)]
  BY DEF FundingTx, worth
<1> HIDE DEF all
<1>7. /\ Output(worth - all - 2 * Fee, Wallet) \in Outputs
      /\ Output(DUST_THRESHOLD + Fee, r) \in Outputs /\ Output(DUST_THRESHOLD, r) \in Outputs
      /\ Output(DUST_THRESHOLD + Fee, r).key = r /\ Output(DUST_THRESHOLD, r).key = r
  <2>1. DUST_THRESHOLD + Fee \in Nat /\ r \in Keys /\ Wallet \in Keys
    BY <1>1 DEF Keys
  <2> QED
    BY <1>1, <1>5, <2>1, OutputTyped
<1> HIDE DEF outs
<1>8. outs \in [0 .. n -> Outputs]
  BY <1>6, <1>7
<1>9. \A v \in 0 .. n - 1 : v \in DOMAIN outs /\ outs[v].key = r
  <2>1. \A v \in 0 .. n - 1 : v \in 0 .. n /\ v # n
    BY <1>1
  <2> QED
    BY <1>6, <1>7, <2>1
<1>10. S \in SUBSET Points
  BY Listed
<1>11. /\ FundingTx(S, n, r).ins = S /\ FundingTx(S, n, r).signer = Wallet
       /\ FundingTx(S, n, r) = [ins |-> S, signer |-> Wallet, outs |-> outs]
  BY DEF FundingTx, outs
<1>12. FundingTx(S, n, r) \in Transactions
  BY <1>1, <1>8, <1>10, <1>11 DEF Transactions
<1> QED
  BY <1>9, <1>11, <1>12 DEF n, outs

LEMMA SpendingTxTyped ==
  ASSUME PublisherAssumption, NEW r \in Runs
  PROVE  SpendingTx(Size[r], r) \in Transactions
<1> DEFINE n == Size[r]
           all == n * DUST_THRESHOLD
           outs == [v \in {0} |-> Output(all, Wallet)]
<1>1. n \in Nat \ {0} /\ DUST_THRESHOLD \in Nat
  BY DEF PublisherAssumption
<1>2. all \in Nat
  <2>1. \A a \in Nat : a * DUST_THRESHOLD \in Nat
    BY <1>1
  <2> HIDE DEF n
  <2> QED
    BY <1>1, <2>1
<1> HIDE DEF n
<1>3. SpendingTx(n, r) = [ins |-> {<<r, 1, v>> : v \in 0 .. n - 1}, signer |-> r, outs |-> outs]
  BY DEF SpendingTx
<1> HIDE DEF all
<1>4. Output(all, Wallet) \in Outputs
  BY <1>2, OutputTyped DEF Keys
<1>5. outs \in [0 .. 0 -> Outputs]
  <2>1. {0} = 0 .. 0
    OBVIOUS
  <2> QED
    BY <1>4, <2>1
<1> HIDE DEF outs
<1>6. {<<r, 1, v>> : v \in 0 .. n - 1} \in SUBSET Points
  BY <1>1 DEF Points, Everyone
<1>7. SpendingTx(n, r) \in Transactions
  <2> DEFINE ins == {<<r, 1, v>> : v \in 0 .. n - 1}
  <2>1. ins \in SUBSET Points /\ r \in Everyone /\ 0 \in Nat
    BY <1>6 DEF Everyone
  <2> HIDE DEF ins
  <2>2. [ins |-> ins, signer |-> r, outs |-> outs] \in Transactions
    BY <1>5, <2>1, TransactionTyped
  <2> QED
    BY <1>3, <2>2 DEF ins
<1> QED
  BY <1>7 DEF n

-----------------------------------------------------------------------------
(* Every step keeps the invariant *)

(* What the node has, it keeps, and what was built stays as it is. *)
Keeps ==
  /\ \A r \in Everyone : tx[r] # <<>> => tx'[r] = tx[r]
  /\ confirmed \subseteq confirmed' /\ Known \subseteq Known'

LEMMA CoinsStay ==
  ASSUME IInv, Keeps, NEW o \in OutputsOf(confirmed)
  PROVE  o \in OutputsOf(confirmed)' /\ OutputAt(o)' = OutputAt(o)
<1>1. /\ Source(o) \in confirmed /\ o = <<o[1], o[2], o[3]>>
      /\ o[1] \in Everyone /\ o[2] \in 1 .. Len(tx[o[1]])
      /\ o[3] \in DOMAIN tx[o[1]][o[2]].outs
  BY OutputsAreOf DEF Known
<1>2. tx[o[1]] \in Seq(Transactions)
  BY <1>1 DEF IInv, Typed
<1>3. tx[o[1]] # <<>>
  BY <1>1, <1>2
<1>4. tx'[o[1]] = tx[o[1]]
  BY <1>1, <1>3 DEF Keeps
<1>5. OutputAt(o)' = OutputAt(o)
  BY <1>4 DEF OutputAt, The, Source
<1>6. <<o[1], o[2]>> \in confirmed' /\ o[3] \in DOMAIN The(<<o[1], o[2]>>)'.outs
  BY <1>1, <1>4 DEF Keeps, The, Source
<1>7. <<o[1], o[2], o[3]>> \in OutputsOf(confirmed)'
  BY <1>6 DEF OutputsOf
<1> QED
  BY <1>1, <1>5, <1>7

(* Steps that build nothing. *)
LEMMA UnbuiltKeeps ==
  ASSUME IInv, UNCHANGED tx, confirmed \subseteq confirmed', Known \subseteq Known',
         Typed', \A id \in Known' : id \in Known \/ \E r \in Everyone : \E i \in 1 .. Len(tx[r]) : id = <<r, i>>,
         Progress'
  PROVE  IInv' /\ Keeps
<1>1. Keeps
  BY DEF Keeps
<1>2. KnownIsBuilt'
  BY DEF IInv, KnownIsBuilt
<1>3. Shaped'
  BY DEF IInv, Shaped, IsChain, IsPair
<1>4. SpendsConfirmed'
  BY <1>1, CoinsStay DEF IInv, SpendsConfirmed
<1> QED
  BY <1>1, <1>2, <1>3, <1>4 DEF IInv

(* A run builds its transactions. *)
LEMMA BuiltKeeps ==
  ASSUME PublisherAssumption, IInv, NEW r \in Runs, phase[r] = "start",
         NEW txs \in Seq(Transactions), txs # <<>>, txs[1].ins \subseteq ListUnspent,
         Built(r, txs), IF r \in Chained THEN IsChain(r)' ELSE IsPair(r)'
  PROVE  IInv' /\ Keeps
<1>1. tx[r] = <<>> /\ sent[r] = 0 /\ sent[r] \in Nat
  BY DEF IInv, Progress, Typed
<1>2. /\ tx' = [tx EXCEPT ![r] = txs] /\ phase' = [phase EXCEPT ![r] = "sending"]
      /\ sent' = sent /\ mempool' = mempool /\ confirmed' = confirmed /\ Known' = Known
  BY DEF Built, nodeVars, Known
<1>3. r \in Everyone /\ tx \in [Everyone -> Seq(Transactions)] /\ phase \in [Runs -> Phases]
  BY DEF IInv, Typed, Everyone
<1>4. tx'[r] = txs /\ \A s \in Everyone : s # r => tx'[s] = tx[s]
  BY <1>2, <1>3
<1>5. Keeps
  BY <1>1, <1>2, <1>4 DEF Keeps
<1>6. Typed'
  BY <1>2, <1>3 DEF IInv, Typed, Phases
<1>7. ASSUME NEW id \in Known
      PROVE  id[1] # r /\ \E s \in Everyone : \E i \in 1 .. Len(tx'[s]) : id = <<s, i>>
  <2>1. PICK s \in Everyone : \E i \in 1 .. Len(tx[s]) : id = <<s, i>>
    BY DEF IInv, KnownIsBuilt
  <2>2. s # r
    BY <1>1, <2>1
  <2> QED
    BY <1>4, <2>1, <2>2
<1>8. KnownIsBuilt'
  <2>1. Mint \in Everyone /\ Mint # r
    BY DEF PublisherAssumption, Everyone
  <2> QED
    BY <1>2, <1>4, <1>7, <2>1 DEF IInv, KnownIsBuilt
<1>9. ASSUME NEW s \in Runs
      PROVE  /\ phase'[s] \in {"start", "failed"} => tx'[s] = <<>> /\ sent'[s] = 0
             /\ phase'[s] \in {"sending", "refused"} => SentIsKnown(s)' /\ sent'[s] < Len(tx'[s])
             /\ phase'[s] = "done" => SentIsKnown(s)' /\ sent'[s] = Len(tx'[s])
  <2>1. CASE s = r
    <3>1. phase'[r] = "sending" /\ sent'[r] = 0 /\ Len(txs) \in Nat \ {0}
      BY <1>1, <1>2, <1>3
    <3>2. \A i \in 1 .. Len(txs) : <<r, i>> \notin Known /\ ~(i <= 0)
      BY <1>7
    <3>3. SentIsKnown(r)' /\ 0 < Len(txs)
      BY <1>2, <1>4, <3>1, <3>2 DEF SentIsKnown
    <3> QED
      BY <1>4, <2>1, <3>1, <3>3
  <2>2. CASE s # r
    <3>1. phase'[s] = phase[s] /\ tx'[s] = tx[s] /\ sent'[s] = sent[s]
      BY <1>2, <1>3, <1>4, <2>2 DEF Everyone
    <3>2. SentIsKnown(s) => SentIsKnown(s)'
      BY <1>2, <3>1 DEF SentIsKnown
    <3> QED
      BY <3>1, <3>2 DEF IInv, Progress
  <2> QED
    BY <2>1, <2>2
<1>10. Progress'
  BY <1>9 DEF Progress
<1>11. Shaped'
  <2>1. \A s \in Runs : s # r => tx'[s] = tx[s]
    BY <1>4 DEF Everyone
  <2>2. \A s \in Runs : s # r => (IsChain(s) => IsChain(s)') /\ (IsPair(s) => IsPair(s)')
    BY <2>1 DEF IsChain, IsPair
  <2> QED
    BY <2>1, <2>2 DEF IInv, Shaped
<1>12. SpendsConfirmed'
  <2>1. ASSUME NEW o \in txs[1].ins
        PROVE  o \in OutputsOf(confirmed) /\ OutputAt(o).key = Wallet /\ o[1] # r
    <3>1. o \in OutputsOf(confirmed) /\ OutputAt(o).key = Wallet /\ Source(o) \in confirmed
      BY Listed
    <3>2. o[1] # r
      BY <1>7, <3>1 DEF Known, Source
    <3> QED
      BY <3>1, <3>2
  <2>2. ASSUME NEW s \in Runs, tx'[s] # <<>>, NEW o \in tx'[s][1].ins
        PROVE  o \in OutputsOf(confirmed) /\ OutputAt(o).key = Wallet /\ o[1] # s
    BY <1>4, <2>1, <2>2 DEF IInv, SpendsConfirmed, Everyone
  <2> QED
    BY <1>5, <2>2, CoinsStay DEF SpendsConfirmed
<1> QED
  BY <1>5, <1>6, <1>8, <1>10, <1>11, <1>12 DEF IInv

LEMMA EncodeChainedKeeps ==
  ASSUME PublisherAssumption, IInv, NEW r \in Runs, EncodeChained(r), ~ EncodeFails(r)
  PROVE  IInv' /\ Keeps
<1> DEFINE n == Size[r]
<1>1. n \in Nat \ {0} /\ r \in Chained /\ phase[r] = "start" /\ n <= MAX_CHAINED_TRANSACTIONS
  BY DEF PublisherAssumption, EncodeChained
<1>2. PICK o \in ListUnspent :
        /\ CoversFirst(o, n) /\ CoversChain(n)
        /\ Built(r, [i \in 1 .. n |-> IF i = 1 THEN FirstTx(o, n) ELSE NextTx(r, i)])
  BY DEF EncodeChained
<1> DEFINE txs == [i \in 1 .. n |-> IF i = 1 THEN FirstTx(o, n) ELSE NextTx(r, i)]
<1>3. /\ FirstTx(o, n) \in Transactions /\ FirstTx(o, n).ins = {o}
      /\ n > 1 => 1 \in DOMAIN FirstTx(o, n).outs /\ FirstTx(o, n).outs[1].key = Wallet
  <2> HIDE DEF n
  <2> QED
    BY <1>1, <1>2, FirstTxTyped
<1>4. \A i \in 2 .. n : NextTx(r, i) \in Transactions
  <2>1. n > 1 => CONTINUATION_AMOUNT >= n * Fee
    BY <1>2 DEF CoversChain
  <2> HIDE DEF n
  <2> QED
    BY <1>1, <2>1, NextTxTyped
<1> HIDE DEF n
<1>5. txs \in Seq(Transactions) /\ Len(txs) = n
  <2>1. \A i \in 1 .. n : i # 1 => i \in 2 .. n
    BY <1>1
  <2>2. \A i \in 1 .. n : txs[i] \in Transactions
    BY <1>3, <1>4, <2>1
  <2> QED
    BY <1>1, <2>2
<1>6. txs # <<>> /\ txs[1] = FirstTx(o, n) /\ \A i \in 2 .. n : txs[i] = NextTx(r, i)
  BY <1>1
<1> HIDE DEF txs
<1>7. txs[1].ins \subseteq ListUnspent
  BY <1>3, <1>6
<1>8. Built(r, txs)
  BY <1>2 DEF txs
<1>9. tx'[r] = txs
  BY <1>8 DEF Built, IInv, Typed, Everyone
<1>10. IsChain(r)'
  BY <1>1, <1>3, <1>5, <1>6, <1>9 DEF IsChain, n
<1> QED
  BY <1>1, <1>5, <1>6, <1>7, <1>8, <1>10, BuiltKeeps

LEMMA EncodeP2wshKeeps ==
  ASSUME PublisherAssumption, IInv, NEW r \in Runs, EncodeP2wsh(r), ~ EncodeFails(r)
  PROVE  IInv' /\ Keeps
<1> DEFINE n == Size[r]
<1>1. r \notin Chained /\ phase[r] = "start"
  BY DEF EncodeP2wsh
<1>2. PICK S \in SUBSET ListUnspent :
        /\ Worth(S) >= n * DUST_THRESHOLD + 2 * Fee
        /\ Built(r, <<FundingTx(S, n, r), SpendingTx(n, r)>>)
  BY DEF EncodeP2wsh
<1> DEFINE txs == <<FundingTx(S, n, r), SpendingTx(n, r)>>
<1>3. /\ FundingTx(S, n, r) \in Transactions /\ FundingTx(S, n, r).ins = S
      /\ \A v \in 0 .. n - 1 :
           v \in DOMAIN FundingTx(S, n, r).outs /\ FundingTx(S, n, r).outs[v].key = r
      /\ SpendingTx(n, r) \in Transactions
  BY <1>2, FundingTxTyped, SpendingTxTyped
<1> HIDE DEF n
<1>4. /\ txs \in Seq(Transactions) /\ Len(txs) = 2 /\ txs # <<>>
      /\ txs[1] = FundingTx(S, n, r) /\ txs[2] = SpendingTx(n, r)
  BY <1>3
<1> HIDE DEF txs
<1>5. txs[1].ins \subseteq ListUnspent /\ Built(r, txs)
  BY <1>2, <1>3, <1>4 DEF txs
<1>6. tx'[r] = txs
  BY <1>5 DEF Built, IInv, Typed, Everyone
<1>7. IsPair(r)'
  BY <1>3, <1>4, <1>6 DEF IsPair, n
<1> QED
  BY <1>1, <1>4, <1>5, <1>7, BuiltKeeps

(* A run that has its transactions goes on, and may submit the next one. *)
LEMMA RunKeeps ==
  ASSUME IInv, NEW r \in Runs, NEW p \in Phases, UNCHANGED <<tx, confirmed>>,
         phase' = [phase EXCEPT ![r] = p],
         sent' \in [Runs -> Nat], \A s \in Runs \ {r} : sent'[s] = sent[s],
         \/ mempool' = mempool
         \/ phase[r] = "sending" /\ mempool' = mempool \cup {<<r, sent[r] + 1>>},
         p \in {"start", "failed"} => tx[r] = <<>> /\ sent'[r] = 0,
         p \in {"sending", "refused"} => SentIsKnown(r)' /\ sent'[r] < Len(tx[r]),
         p = "done" => SentIsKnown(r)' /\ sent'[r] = Len(tx[r])
  PROVE  IInv' /\ Keeps
<1> DEFINE next == <<r, sent[r] + 1>>
<1>1. /\ phase' \in [Runs -> Phases] /\ phase'[r] = p
      /\ \A s \in Runs \ {r} : phase'[s] = phase[s]
  BY DEF IInv, Typed
<1>2. \/ Known' = Known
      \/ phase[r] = "sending" /\ Known' = Known \cup {next}
  BY DEF Known
<1>3. phase[r] = "sending" =>
        /\ next \notin Known /\ r \in Everyone /\ sent[r] + 1 \in 1 .. Len(tx[r])
  <2>1. tx[r] \in Seq(Transactions) /\ sent[r] \in Nat
    BY DEF IInv, Typed, Everyone
  <2>2. phase[r] = "sending" => SentIsKnown(r) /\ sent[r] < Len(tx[r])
    BY DEF IInv, Progress
  <2>3. phase[r] = "sending" => sent[r] + 1 \in 1 .. Len(tx[r]) /\ ~(sent[r] + 1 <= sent[r])
    BY <2>1, <2>2
  <2> QED
    BY <2>2, <2>3 DEF SentIsKnown, Everyone
<1> HIDE DEF next
<1>4. Typed'
  <2>1. IsFiniteSet(Known')
    <3>1. IsFiniteSet(Known)
      BY DEF IInv, Typed
    <3>2. IsFiniteSet(Known \cup {next})
      BY <3>1, FS_AddElement
    <3> QED
      BY <1>2, <3>1, <3>2
  <2>2. mempool' \cap confirmed' = {}
    BY <1>3 DEF IInv, Typed, Known, next
  <2> QED
    BY <1>1, <2>1, <2>2 DEF IInv, Typed
<1>5. \A id \in Known' :
        id \in Known \/ \E s \in Everyone : \E i \in 1 .. Len(tx[s]) : id = <<s, i>>
  BY <1>2, <1>3 DEF next
<1>6. ASSUME NEW s \in Runs
      PROVE  /\ phase'[s] \in {"start", "failed"} => tx'[s] = <<>> /\ sent'[s] = 0
             /\ phase'[s] \in {"sending", "refused"} => SentIsKnown(s)' /\ sent'[s] < Len(tx'[s])
             /\ phase'[s] = "done" => SentIsKnown(s)' /\ sent'[s] = Len(tx'[s])
  <2>1. CASE s = r
    BY <1>1, <2>1
  <2>2. CASE s # r
    <3>1. \A i : <<s, i>> \in Known' <=> <<s, i>> \in Known
      BY <1>2, <2>2 DEF next
    <3>2. phase'[s] = phase[s] /\ sent'[s] = sent[s] /\ tx'[s] = tx[s]
      BY <1>1, <2>2
    <3>3. SentIsKnown(s) => SentIsKnown(s)'
      BY <3>1, <3>2 DEF SentIsKnown
    <3> QED
      BY <3>2, <3>3 DEF IInv, Progress
  <2> QED
    BY <2>1, <2>2
<1>7. Progress'
  BY <1>6 DEF Progress
<1>8. Known \subseteq Known' /\ confirmed \subseteq confirmed'
  BY <1>2
<1> QED
  BY <1>4, <1>5, <1>7, <1>8, UnbuiltKeeps

LEMMA EncodeFailsKeeps ==
  ASSUME IInv, NEW r \in Runs, phase[r] = "start", EncodeFails(r)
  PROVE  IInv' /\ Keeps
<1>1. /\ UNCHANGED <<tx, sent, mempool, confirmed>>
      /\ phase' = [phase EXCEPT ![r] = "failed"]
  BY DEF EncodeFails, nodeVars
<1>2. tx[r] = <<>> /\ sent[r] = 0 /\ sent \in [Runs -> Nat]
  BY DEF IInv, Progress, Typed
<1>3. sent' \in [Runs -> Nat] /\ sent'[r] = 0 /\ \A s \in Runs \ {r} : sent'[s] = sent[s]
  BY <1>1, <1>2
<1>4. "failed" \in Phases
  BY DEF Phases
<1> QED
  BY <1>1, <1>2, <1>3, <1>4, RunKeeps

LEMMA BroadcastKeeps ==
  ASSUME PublisherAssumption, IInv, NEW r \in Runs, Broadcast(r)
  PROVE  IInv' /\ Keeps
<1> DEFINE n == sent[r]
           next == <<r, n + 1>>
<1>1. phase[r] = "sending" /\ UNCHANGED <<tx, confirmed>>
  BY DEF Broadcast
<1>2. SentIsKnown(r) /\ n < Len(tx[r]) /\ n \in Nat /\ sent \in [Runs -> Nat]
  BY <1>1 DEF IInv, Typed, Progress
<1>3. Len(tx[r]) \in Nat
  BY <1>2, FileFits DEF SentIsKnown
<1>4. CASE Acceptable(next)
  <2> DEFINE p == IF n + 1 = Len(tx[r]) THEN "done" ELSE "sending"
  <2>1. /\ mempool' = mempool \cup {next}
        /\ sent' = [sent EXCEPT ![r] = @ + 1] /\ phase' = [phase EXCEPT ![r] = p]
    BY <1>4 DEF Broadcast, Sent
  <2>2. /\ sent' \in [Runs -> Nat] /\ sent'[r] = n + 1
        /\ \A s \in Runs \ {r} : sent'[s] = sent[s]
    BY <1>2, <2>1
  <2>3. p \in {"done", "sending"} /\ p \in Phases
    BY DEF Phases
  <2>4. Known' = Known \cup {next}
    BY <1>1, <2>1 DEF Known
  <2>5. SentIsKnown(r)'
    <3>1. \A i \in 1 .. Len(tx[r]) : i = n + 1 \/ i <= n <=> i <= n + 1
      BY <1>2, <1>3
    <3>2. \A i \in 1 .. Len(tx[r]) : <<r, i>> \in Known' <=> i <= n + 1
      BY <1>2, <2>4, <3>1 DEF SentIsKnown
    <3> QED
      BY <1>1, <1>2, <2>2, <3>2 DEF SentIsKnown
  <2>6. p = "sending" => n + 1 < Len(tx[r])
    BY <1>2, <1>3
  <2>7. p = "done" => n + 1 = Len(tx[r])
    OBVIOUS
  <2> HIDE DEF p
  <2> QED
    BY <1>1, <2>1, <2>2, <2>3, <2>5, <2>6, <2>7, RunKeeps
<1>5. CASE ~ Acceptable(next)
  <2>1. /\ UNCHANGED <<mempool, sent>>
        /\ phase' = [phase EXCEPT ![r] = "refused"]
    BY <1>5 DEF Broadcast
  <2>2. SentIsKnown(r)'
    BY <1>1, <1>2, <2>1 DEF SentIsKnown, Known
  <2>3. "refused" \in Phases
    BY DEF Phases
  <2>4. sent' \in [Runs -> Nat] /\ sent'[r] < Len(tx[r]) /\ \A s \in Runs \ {r} : sent'[s] = sent[s]
    BY <1>2, <2>1
  <2> QED
    BY <1>1, <2>1, <2>2, <2>3, <2>4, RunKeeps
<1> QED
  BY <1>4, <1>5

LEMMA StopKeeps ==
  ASSUME IInv, NEW r \in Runs, Stop(r),
         \/ mempool' = mempool
         \/ phase[r] = "sending" /\ mempool' = mempool \cup {<<r, sent[r] + 1>>}
  PROVE  IInv' /\ Keeps
<1>1. UNCHANGED <<tx, sent, confirmed>> /\ phase' = [phase EXCEPT ![r] = "stopped"]
  BY DEF Stop
<1>2. "stopped" \in Phases
  BY DEF Phases
<1>3. sent' \in [Runs -> Nat] /\ \A s \in Runs \ {r} : sent'[s] = sent[s]
  BY <1>1 DEF IInv, Typed
<1> QED
  BY <1>1, <1>2, <1>3, RunKeeps

LEMMA ConfirmKeeps ==
  ASSUME IInv, NEW ids \in SUBSET mempool, Confirm(ids)
  PROVE  IInv' /\ Keeps
<1>1. /\ UNCHANGED <<tx, phase, sent>>
      /\ mempool' = mempool \ ids /\ confirmed' = confirmed \cup ids
  BY DEF Confirm
<1>2. Known' = Known
  BY <1>1 DEF Known
<1>3. Typed'
  BY <1>1, <1>2 DEF IInv, Typed
<1>4. Progress'
  BY <1>1, <1>2 DEF IInv, Progress, SentIsKnown
<1> QED
  BY <1>1, <1>2, <1>3, <1>4, UnbuiltKeeps

LEMMA StepKeeps ==
  ASSUME PublisherAssumption, IInv, [Next]_vars
  PROVE  IInv' /\ Keeps
<1>1. ASSUME NEW r \in Runs, EncodeChained(r)
      PROVE  IInv' /\ Keeps
  BY <1>1, EncodeChainedKeeps, EncodeFailsKeeps DEF EncodeChained
<1>2. ASSUME NEW r \in Runs, EncodeP2wsh(r)
      PROVE  IInv' /\ Keeps
  BY <1>2, EncodeP2wshKeeps, EncodeFailsKeeps DEF EncodeP2wsh
<1>3. ASSUME NEW r \in Runs, Broadcast(r)
      PROVE  IInv' /\ Keeps
  BY <1>3, BroadcastKeeps
<1>4. ASSUME NEW r \in Runs, BroadcastFault(r)
      PROVE  IInv' /\ Keeps
  BY <1>4, StopKeeps DEF BroadcastFault
<1>5. ASSUME NEW r \in Runs, Kill(r)
      PROVE  IInv' /\ Keeps
  BY <1>5, StopKeeps DEF Kill
<1>6. ASSUME NEW ids \in SUBSET mempool, Confirm(ids)
      PROVE  IInv' /\ Keeps
  BY <1>6, ConfirmKeeps
<1>7. CASE UNCHANGED vars
  <2>1. UNCHANGED <<tx, phase, sent, mempool, confirmed>> /\ Known' = Known
    BY <1>7 DEF vars, nodeVars, Known
  <2>2. Typed' /\ Progress'
    BY <2>1 DEF IInv, Typed, Progress, SentIsKnown
  <2> QED
    BY <2>1, <2>2, UnbuiltKeeps
<1> QED
  BY <1>1, <1>2, <1>3, <1>4, <1>5, <1>6, <1>7 DEF Next

LEMMA InitIInv ==
  ASSUME PublisherAssumption, Init
  PROVE  IInv
<1> DEFINE first == [ins |-> {}, signer |-> Mint,
                     outs |-> [v \in 0 .. Len(Purse) - 1 |-> Output(Purse[v + 1], Wallet)]]
<1>1. /\ tx = [r \in Everyone |-> IF r = Mint THEN <<first>> ELSE <<>>]
      /\ phase = [r \in Runs |-> "start"] /\ sent = [r \in Runs |-> 0]
      /\ mempool = {} /\ confirmed = {<<Mint, 1>>} /\ Known = {<<Mint, 1>>}
  BY DEF Init, Everyone, Known
<1>2. Mint \in Everyone /\ Mint \notin Runs
  BY DEF PublisherAssumption, Everyone
<1>3. first \in Transactions
  <2> DEFINE n == Len(Purse)
             outs == [v \in 0 .. n - 1 |-> Output(Purse[v + 1], Wallet)]
  <2>1. n \in Nat /\ \A v \in 0 .. n - 1 : Purse[v + 1] \in Nat
    BY DEF PublisherAssumption
  <2> HIDE DEF n
  <2>2. outs \in [0 .. n - 1 -> Outputs]
    BY <2>1, OutputTyped DEF Keys
  <2>3. first = [ins |-> {}, signer |-> Mint, outs |-> outs]
    BY DEF n
  <2> HIDE DEF outs, first
  <2>4. outs \in UNION {[0 .. k - 1 -> Outputs] : k \in Nat}
    BY <2>1, <2>2
  <2> QED
    BY <1>2, <2>3, <2>4 DEF Transactions
<1> HIDE DEF first
<1>4. Typed
  <2>1. IsFiniteSet(Known)
    BY <1>1, FS_Singleton
  <2>2. <<first>> \in Seq(Transactions) /\ <<>> \in Seq(Transactions)
    BY <1>3
  <2> HIDE DEF Transactions
  <2>3. tx \in [Everyone -> Seq(Transactions)]
    BY <1>1, <2>2
  <2> QED
    BY <1>1, <2>1, <2>3 DEF Typed, Phases
<1>5. KnownIsBuilt
  BY <1>1, <1>2 DEF KnownIsBuilt, first
<1>6. Progress /\ Shaped /\ SpendsConfirmed
  BY <1>1, <1>2 DEF Progress, Shaped, SpendsConfirmed, Everyone
<1> QED
  BY <1>4, <1>5, <1>6 DEF IInv

-----------------------------------------------------------------------------
(* Runs that are refused *)

Fits == \A r \in Runs : tx[r] # <<>> => Len(tx[r]) \in Nat /\ Len(tx[r]) <= AncestorLimit

Counted == \A r \in Runs : sent[r] <= AncestorLimit

(* No P2WSH run is refused in its middle, and for each chain that is there *)
(* is an explanation.                                                      *)
Story == \A r \in Runs : phase[r] = "refused" /\ sent[r] # 0 => r \in Chained /\ Explained(r)

LEMMA RefusedOrBefore ==
  ASSUME IInv, [Next]_vars, NEW r \in Runs, phase'[r] \in {"refused", "stopped"}
  PROVE  \/ sent'[r] = sent[r] /\ phase'[r] = "stopped"
         \/ sent'[r] = sent[r] /\ phase[r] = "refused"
         \/ /\ phase[r] = "sending" /\ ~ Acceptable(<<r, sent[r] + 1>>)
            /\ UNCHANGED <<tx, sent, mempool, confirmed>>
<1>1. phase \in [Runs -> Phases] /\ sent \in [Runs -> Nat]
  BY DEF IInv, Typed
<1>2. ASSUME NEW s \in Runs, EncodeChained(s) \/ EncodeP2wsh(s)
      PROVE  sent' = sent /\ phase'[r] = phase[r]
  <2>1. /\ sent' = sent
        /\ \/ phase' = [phase EXCEPT ![s] = "sending"]
           \/ phase' = [phase EXCEPT ![s] = "failed"]
    BY <1>2 DEF EncodeChained, EncodeP2wsh, Built, EncodeFails
  <2> QED
    BY <1>1, <2>1
<1>3. ASSUME NEW s \in Runs, Broadcast(s)
      PROVE  \/ sent'[r] = sent[r] /\ phase'[r] = phase[r]
             \/ /\ phase[r] = "sending" /\ ~ Acceptable(<<r, sent[r] + 1>>)
                /\ UNCHANGED <<tx, sent, mempool, confirmed>>
  <2>1. CASE Acceptable(<<s, sent[s] + 1>>)
    <3>1. sent' = [sent EXCEPT ![s] = @ + 1]
      BY <1>3, <2>1 DEF Broadcast, Sent
    <3>2. \/ phase' = [phase EXCEPT ![s] = "done"]
          \/ phase' = [phase EXCEPT ![s] = "sending"]
      BY <1>3, <2>1 DEF Broadcast, Sent
    <3> QED
      BY <1>1, <3>1, <3>2
  <2>2. CASE ~ Acceptable(<<s, sent[s] + 1>>)
    <3>1. /\ phase[s] = "sending" /\ UNCHANGED <<tx, sent, mempool, confirmed>>
          /\ phase' = [phase EXCEPT ![s] = "refused"]
      BY <1>3, <2>2 DEF Broadcast
    <3> QED
      BY <1>1, <2>2, <3>1
  <2> QED
    BY <2>1, <2>2
<1>4. ASSUME NEW s \in Runs, BroadcastFault(s) \/ Kill(s)
      PROVE  sent'[r] = sent[r] /\ (phase'[r] = "stopped" \/ phase'[r] = phase[r])
  <2>1. sent' = sent /\ phase' = [phase EXCEPT ![s] = "stopped"]
    BY <1>4 DEF BroadcastFault, Kill, Stop
  <2> QED
    BY <1>1, <2>1
<1>5. ASSUME NEW ids \in SUBSET mempool, Confirm(ids)
      PROVE  sent'[r] = sent[r] /\ phase'[r] = phase[r]
  BY <1>5 DEF Confirm
<1>6. CASE UNCHANGED vars
  BY <1>6 DEF vars
<1> QED
  BY <1>2, <1>3, <1>4, <1>5, <1>6 DEF Next

LEMMA StepCounted ==
  ASSUME PublisherAssumption, IInv, Counted, [Next]_vars, Fits'
  PROVE  Counted'
<1>1. IInv'
  BY StepKeeps
<1> SUFFICES ASSUME NEW r \in Runs PROVE sent'[r] <= AncestorLimit
  BY DEF Counted
<1>2. AncestorLimit \in Nat /\ sent'[r] \in Nat /\ phase'[r] \in Phases
  BY <1>1 DEF PublisherAssumption, IInv, Typed
<1>3. CASE phase'[r] = "stopped"
  <2>1. sent'[r] = sent[r]
    BY <1>3, RefusedOrBefore
  <2> QED
    BY <2>1 DEF Counted
<1>4. CASE phase'[r] \in {"start", "failed"}
  BY <1>1, <1>2, <1>4 DEF IInv, Progress
<1>5. CASE phase'[r] \in {"sending", "refused", "done"}
  <2>1. tx'[r] # <<>> /\ (sent'[r] < Len(tx'[r]) \/ sent'[r] = Len(tx'[r]))
    BY <1>1, <1>5 DEF IInv, Progress, SentIsKnown
  <2>2. Len(tx'[r]) \in Nat /\ Len(tx'[r]) <= AncestorLimit
    BY <2>1 DEF Fits
  <2> QED
    BY <1>2, <2>1, <2>2
<1> QED
  BY <1>2, <1>3, <1>4, <1>5 DEF Phases

LEMMA StepStory ==
  ASSUME PublisherAssumption, IInv, Story, [Next]_vars
  PROVE  Story'
<1>1. IInv' /\ Keeps
  BY StepKeeps
<1> SUFFICES ASSUME NEW r \in Runs, phase'[r] = "refused", sent'[r] # 0
             PROVE  r \in Chained /\ Explained(r)'
  BY DEF Story
<1>2. CASE sent'[r] = sent[r] /\ phase[r] = "refused"
  <2>1. r \in Chained /\ Explained(r)
    BY <1>2 DEF Story
  <2>2. tx[r] # <<>> /\ r \in Everyone
    BY <1>2 DEF IInv, Progress, SentIsKnown, Everyone
  <2>3. tx'[r] = tx[r] /\ sent'[r] = sent[r]
    BY <1>1, <1>2, <2>2 DEF Keeps
  <2>4. ASSUME NEW id \in Known
        PROVE  id \in Known' /\ The(id)' = The(id)
    <3>1. PICK s \in Everyone : \E i \in 1 .. Len(tx[s]) : id = <<s, i>>
      BY DEF IInv, KnownIsBuilt
    <3>2. tx[s] \in Seq(Transactions)
      BY DEF IInv, Typed
    <3>3. tx[s] # <<>> /\ id[1] = s
      BY <3>1, <3>2
    <3> QED
      BY <1>1, <3>3 DEF Keeps, The
  <2>5. The(<<r, sent[r] + 1>>)' = The(<<r, sent[r] + 1>>)
    BY <2>3 DEF The
  <2>6. confirmed \subseteq confirmed'
    BY <1>1 DEF Keeps
  <2> QED
    BY <2>1, <2>3, <2>4, <2>5, <2>6 DEF Explained
<1>3. CASE /\ phase[r] = "sending" /\ ~ Acceptable(<<r, sent[r] + 1>>)
           /\ UNCHANGED <<tx, sent, mempool, confirmed>>
  <2>1. sent[r] # 0
    BY <1>3
  <2>2. r \in Chained
    BY <1>3, <2>1, PairIsTaken
  <2>3. Explained(r)
    BY <1>3, <2>1, <2>2, RefusalExplained
  <2>4. Known' = Known /\ \A id : The(id)' = The(id)
    BY <1>3 DEF Known, The
  <2> QED
    BY <1>3, <2>2, <2>3, <2>4 DEF Explained
<1> QED
  BY <1>2, <1>3, RefusedOrBefore

-----------------------------------------------------------------------------

LEMMA SpecInvariants == Spec => [](IInv /\ Counted /\ Story)
<1>1. Init => IInv /\ Counted /\ Story
  BY PublisherAssumption, InitIInv DEF Init, Counted, Story, PublisherAssumption
<1>2. IInv => Fits
  BY PublisherAssumption, FileFits DEF Fits
<1>3. IInv /\ [Next]_vars => IInv'
  BY PublisherAssumption, StepKeeps
<1>4. IInv /\ Counted /\ Fits' /\ [Next]_vars => Counted'
  BY PublisherAssumption, StepCounted
<1>5. IInv /\ Story /\ [Next]_vars => Story'
  BY PublisherAssumption, StepStory
<1> QED
  BY <1>1, <1>2, <1>3, <1>4, <1>5, PTL DEF Spec

(* The types; in particular none of the outputs an encoder builds, the     *)
(* change, the continuations, the dust, is ever worth less than nothing.   *)
THEOREM SpecTypeOK == Spec => []TypeOK
<1>1. IInv /\ Counted => TypeOK
  <2> SUFFICES ASSUME IInv, Counted PROVE TypeOK
    OBVIOUS
  <2>1. AncestorLimit \in Nat /\ 2 <= AncestorLimit
    BY PublisherAssumption DEF PublisherAssumption
  <2>2. phase \in [Runs -> Phases] /\ mempool \cap confirmed = {}
    BY DEF IInv, Typed
  <2>3. sent \in [Runs -> 0 .. AncestorLimit]
    BY <2>1 DEF IInv, Typed, Counted
  <2>4. DOMAIN tx = Everyone
    BY DEF IInv, Typed
  <2>5. ASSUME NEW id \in Known PROVE id \in Ids
    <3>1. PICK r \in Everyone : \E i \in 1 .. Len(tx[r]) : id = <<r, i>>
      BY DEF IInv, KnownIsBuilt
    <3>2. PICK i \in 1 .. Len(tx[r]) : id = <<r, i>>
      BY <3>1
    <3>3. tx[r] \in Seq(Transactions) /\ Len(tx[r]) \in Nat
      BY DEF IInv, Typed
    <3>4. Len(tx[r]) <= AncestorLimit
      <4>1. CASE r = Mint
        <5>1. Len(tx[r]) = 1
          BY <4>1 DEF IInv, KnownIsBuilt
        <5> QED
          BY <2>1, <5>1
      <4>2. CASE r \in Runs
        <5>1. tx[r] # <<>>
          BY <3>2, <3>3
        <5> QED
          BY <4>2, <5>1, PublisherAssumption, FileFits
      <4> QED
        BY <4>1, <4>2 DEF Everyone
    <3>5. i \in 1 .. AncestorLimit
      BY <2>1, <3>3, <3>4
    <3> QED
      BY <2>4, <3>2, <3>5 DEF Ids
  <2>6. ASSUME NEW r \in DOMAIN tx, NEW i \in DOMAIN tx[r], NEW v \in DOMAIN tx[r][i].outs
        PROVE  tx[r][i].outs[v].value \in Nat
    <3>1. tx[r] \in Seq(Transactions)
      BY DEF IInv, Typed
    <3>2. tx[r][i] \in Transactions
      BY <3>1
    <3>3. PICK n \in Nat : tx[r][i].outs \in [0 .. n - 1 -> Outputs]
      BY <3>2 DEF Transactions
    <3>4. tx[r][i].outs[v] \in Outputs
      BY <3>3
    <3> QED
      BY <3>4 DEF Outputs
  <2> QED
    BY <2>2, <2>3, <2>5, <2>6 DEF TypeOK
<1> QED
  BY <1>1, SpecInvariants, PTL

(* A run that ends well has published all of its file, whatever the other  *)
(* runs, the node and the failures of calls did in between.                *)
THEOREM SpecAnnouncedIsPublished == Spec => []AnnouncedIsPublished
<1>1. IInv => AnnouncedIsPublished
  <2> SUFFICES ASSUME IInv, NEW r \in Runs, phase[r] = "done"
               PROVE  Cardinality(Published(r)) = Len(tx[r])
    BY DEF AnnouncedIsPublished
  <2>1. SentIsKnown(r) /\ sent[r] = Len(tx[r]) /\ Len(tx[r]) \in Nat
    BY PublisherAssumption, FileFits DEF IInv, Progress, SentIsKnown
  <2>2. \A i \in 1 .. Len(tx[r]) : <<r, i>> \in Known
    BY <2>1 DEF SentIsKnown
  <2>3. \A id \in Published(r) : \E i \in 1 .. Len(tx[r]) : id = <<r, i>>
    BY DEF IInv, KnownIsBuilt, Published
  <2>4. Published(r) = Own(r, Len(tx[r]))
    BY <2>2, <2>3 DEF Published, Own
  <2> QED
    BY <2>1, <2>4, OwnCount
<1> QED
  BY <1>1, SpecInvariants, PTL

LEMMA TornHasSent ==
  ASSUME IInv, NEW r \in Runs, Torn(r)
  PROVE  phase[r] = "refused" /\ sent[r] # 0
<1>1. phase[r] = "refused" /\ SentIsKnown(r)
  BY DEF Torn, IInv, Progress
<1>2. PICK id \in Known : id[1] = r
  BY DEF Torn, Published
<1>3. PICK s \in Everyone : \E i \in 1 .. Len(tx[s]) : id = <<s, i>>
  BY DEF IInv, KnownIsBuilt
<1>4. PICK i \in 1 .. Len(tx[r]) : <<r, i>> \in Known
  BY <1>2, <1>3
<1>5. tx[r] \in Seq(Transactions)
  BY DEF IInv, Typed, Everyone
<1>6. i <= sent[r] /\ i # 0 /\ i >= 1
  BY <1>1, <1>4, <1>5 DEF SentIsKnown
<1> QED
  BY <1>1, <1>6

(* A chain torn in its middle lost its coin to another run after a block,  *)
(* or its next output has become dust: there is no third way.              *)
THEOREM SpecTornChainExplained == Spec => []TornChainExplained
<1>1. IInv /\ Story => TornChainExplained
  <2> SUFFICES ASSUME IInv, Story, NEW r \in Chained, Torn(r)
               PROVE  Explained(r)
    BY DEF TornChainExplained, Explained
  <2>1. r \in Runs
    BY PublisherAssumption DEF PublisherAssumption
  <2> QED
    BY <2>1, TornHasSent DEF Story
<1> QED
  BY <1>1, SpecInvariants, PTL

(* The node never refuses the spending transaction of a P2WSH file whose   *)
(* funding transaction it took.                                            *)
THEOREM SpecFundedIsSpent == Spec => []FundedIsSpent
<1>1. IInv /\ Story => FundedIsSpent
  BY TornHasSent DEF FundedIsSpent, Story
<1> QED
  BY <1>1, SpecInvariants, PTL

(* No transaction of any run ever exceeds the limits on unconfirmed        *)
(* chains, so long as no file has more transactions than they allow.       *)
THEOREM SpecChainWithinLimits == Spec => []ChainWithinLimits
<1>1. IInv => ChainWithinLimits
  BY PublisherAssumption, NextWithinLimits DEF ChainWithinLimits
<1> QED
  BY <1>1, SpecInvariants, PTL
=============================================================================
