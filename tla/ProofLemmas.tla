----------------------------- MODULE ProofLemmas -----------------------------
(***************************************************************************)
(* Facts the proofs of several modules need and that no component owns:    *)
(* induction, the greatest element of a finite set, and sequences.         *)
(*                                                                         *)
(* Induction is stated over a set instead of a predicate: to show that P   *)
(* holds for every natural number, take the set of those for which it      *)
(* does.  No operator has to be instantiated, so a step can cite it.       *)
(***************************************************************************)
EXTENDS Integers, Sequences, SequencesExt, FiniteSetsExt, FiniteSetTheorems,
        SequenceTheorems, TLAPS

(* Every set of natural numbers that is not empty has a least element. *)
LEMMA LeastNat ==
  ASSUME NEW S \in SUBSET Nat, S # {}
  PROVE  \E m \in S : \A n \in S : m <= n
<1>1. IsWellFoundedOn(OpToRel(<, Nat), Nat)
  BY NatLessThanWellFounded
<1>2. PICK m \in S : \A n \in S : ~(<<n, m>> \in OpToRel(<, Nat))
  BY <1>1, WFMin, Zenon
<1>3. \A n \in S : ~(n < m)
  BY <1>2 DEF OpToRel
<1> QED
  BY <1>3

(* A set that has 0, and with every number the next, has them all. *)
LEMMA NatSetInduction ==
  ASSUME NEW S, 0 \in S, \A n \in Nat : n \in S => n + 1 \in S
  PROVE  Nat \subseteq S
<1> SUFFICES ASSUME Nat \ S # {} PROVE FALSE
  OBVIOUS
<1>1. PICK m \in Nat \ S : \A n \in Nat \ S : m <= n
  BY LeastNat
<1> QED
  BY <1>1

(* Among parts of a finite set there is one that has no other within it. *)
LEMMA LeastPart ==
  ASSUME NEW S, IsFiniteSet(S), NEW T \in SUBSET SUBSET S, T # {}
  PROVE  \E U \in T : \A V \in T : V \subseteq U => V = U
<1>1. IsWellFoundedOn(StrictSubsetOrdering(S), FiniteSubsetsOf(S))
  BY FS_StrictSubsetOrderingWellFounded
<1>2. T \subseteq FiniteSubsetsOf(S)
  BY FS_FiniteSubsetsOfFinite
<1>3. PICK U \in T : \A V \in T : ~(<<V, U>> \in StrictSubsetOrdering(S))
  BY <1>1, <1>2, WFMin, Zenon
<1> QED
  BY <1>3 DEF StrictSubsetOrdering

(* A family that has a part of the finite set S whenever it has all the    *)
(* smaller ones within it, has all parts of S.                             *)
LEMMA PartsInduction ==
  ASSUME NEW S, IsFiniteSet(S), NEW T,
         \A U \in SUBSET S : (\A V \in SUBSET U : V # U => V \in T) => U \in T
  PROVE  SUBSET S \subseteq T
<1> DEFINE Bad == (SUBSET S) \ T
<1> SUFFICES ASSUME Bad # {} PROVE FALSE
  OBVIOUS
<1>1. Bad \in SUBSET SUBSET S
  OBVIOUS
<1> HIDE DEF Bad
<1>2. PICK U \in Bad : \A V \in Bad : V \subseteq U => V = U
  BY <1>1, LeastPart
<1> QED
  BY <1>2 DEF Bad

(* A family that has the empty set, and with every part of S the parts     *)
(* with one element more, has the finite set S.                            *)
LEMMA FiniteSetInduction ==
  ASSUME NEW S, IsFiniteSet(S), NEW T, {} \in T,
         \A U \in SUBSET S : \A x \in S \ U : U \in T => U \cup {x} \in T
  PROVE  S \in T
<1>1. ASSUME NEW U \in SUBSET S, \A V \in SUBSET U : V # U => V \in T
      PROVE  U \in T
  <2>1. CASE U = {}
    BY <2>1
  <2>2. CASE U # {}
    <3>1. PICK x \in S : x \in U
      BY <2>2
    <3>2. /\ U \ {x} \in SUBSET S /\ U \ {x} \in SUBSET U /\ U \ {x} # U
          /\ x \in S \ (U \ {x}) /\ (U \ {x}) \cup {x} = U
      BY <3>1
    <3>3. U \ {x} \in T
      BY <1>1, <3>2
    <3>4. (U \ {x}) \cup {x} \in T
      BY <3>2, <3>3
    <3> QED
      BY <3>2, <3>4
  <2> QED
    BY <2>1, <2>2
<1> QED
  BY <1>1, PartsInduction

(* What folds over finite sets are made of: a function on the parts of S   *)
(* that takes an element out of each, by pick, and goes on with the rest.  *)
FoldsParts(g, S, base, pick, step) ==
  g = [U \in SUBSET S |->
         IF U = {} THEN base ELSE step[<<pick[U], g[U \ {pick[U]}]>>]]

LEMMA FoldExists ==
  ASSUME NEW S, IsFiniteSet(S), NEW V, NEW base \in V, NEW step \in [S \X V -> V],
         NEW pick, \A U \in SUBSET S : U # {} => pick[U] \in U
  PROVE  \E g \in [SUBSET S -> V] : FoldsParts(g, S, base, pick, step)
<1> DEFINE Small(n) == {U \in SUBSET S : Cardinality(U) <= n}
           Rec(g, U) == IF U = {} THEN base ELSE step[<<pick[U], g[U \ {pick[U]}]>>]
           T == {n \in Nat : \E g \in [Small(n) -> V] : \A U \in Small(n) : g[U] = Rec(g, U)}
<1>1. \A U \in SUBSET S : IsFiniteSet(U) /\ Cardinality(U) \in Nat
  BY FS_Subset, FS_CardinalityType
<1>2. \A U \in SUBSET S : U # {} =>
        /\ pick[U] \in S /\ U \ {pick[U]} \in SUBSET S
        /\ Cardinality(U \ {pick[U]}) = Cardinality(U) - 1
  BY <1>1, FS_RemoveElement
<1>3. 0 \in T
  <2> DEFINE g == [U \in Small(0) |-> base]
  <2>1. \A U \in Small(0) : U = {}
    BY <1>1, FS_EmptySet
  <2>2. g \in [Small(0) -> V] /\ \A U \in Small(0) : g[U] = Rec(g, U)
    BY <2>1
  <2> QED
    BY <2>2
<1>4. ASSUME NEW n \in Nat, n \in T
      PROVE  n + 1 \in T
  <2>1. PICK g \in [Small(n) -> V] : \A U \in Small(n) : g[U] = Rec(g, U)
    BY <1>4
  <2> DEFINE h == [U \in Small(n + 1) |-> IF U \in Small(n) THEN g[U] ELSE Rec(g, U)]
  <2>2. \A U \in Small(n + 1) : U # {} => pick[U] \in S /\ U \ {pick[U]} \in Small(n)
    BY <1>1, <1>2
  <2>3. \A U \in Small(n) : U \in Small(n + 1)
    BY <1>1
  <2> HIDE DEF Small
  <2>4. \A U \in Small(n + 1) : Rec(g, U) \in V
    BY <2>2
  <2>5. h \in [Small(n + 1) -> V]
    BY <2>4
  <2>6. \A U \in Small(n + 1) : U # {} => h[U \ {pick[U]}] = g[U \ {pick[U]}]
    BY <2>2, <2>3
  <2>7. \A U \in Small(n + 1) : h[U] = Rec(g, U)
    BY <2>1
  <2>8. \A U \in Small(n + 1) : h[U] = Rec(h, U)
    BY <2>6, <2>7
  <2> HIDE DEF h, Rec
  <2>9. \E f \in [Small(n + 1) -> V] : \A U \in Small(n + 1) : f[U] = Rec(f, U)
    BY <2>5, <2>8
  <2> QED
    BY <2>9
<1>5. Cardinality(S) \in T /\ Cardinality(S) \in Nat
  <2> HIDE DEF T
  <2>1. Nat \subseteq T
    BY <1>3, <1>4, NatSetInduction
  <2> QED
    BY <1>1, <2>1
<1>6. Small(Cardinality(S)) = SUBSET S
  BY FS_Subset
<1>7. PICK g \in [SUBSET S -> V] : \A U \in SUBSET S : g[U] = Rec(g, U)
  BY <1>5, <1>6
<1>8. g = [U \in SUBSET S |-> g[U]]
  OBVIOUS
<1>9. g = [U \in SUBSET S |-> Rec(g, U)]
  BY <1>7, <1>8
<1> QED
  BY <1>9, Zenon DEF FoldsParts

(* Such a function has its values where the step leads. *)
LEMMA FoldTyped ==
  ASSUME NEW S, IsFiniteSet(S), NEW V, NEW base \in V, NEW step \in [S \X V -> V],
         NEW pick, \A U \in SUBSET S : U # {} => pick[U] \in U,
         NEW g, FoldsParts(g, S, base, pick, step)
  PROVE  g \in [SUBSET S -> V]
<1> DEFINE T == {U \in SUBSET S : g[U] \in V}
<1>1. ASSUME NEW U \in SUBSET S, \A W \in SUBSET U : W # U => W \in T
      PROVE  U \in T
  <2>1. CASE U = {}
    BY <2>1 DEF FoldsParts
  <2>2. CASE U # {}
    <3>1. pick[U] \in S /\ U \ {pick[U]} \in SUBSET U /\ U \ {pick[U]} # U
      BY <2>2
    <3>2. g[U \ {pick[U]}] \in V
      BY <1>1, <3>1
    <3>3. g[U] = step[<<pick[U], g[U \ {pick[U]}]>>]
      BY <2>2 DEF FoldsParts
    <3> QED
      BY <3>1, <3>2, <3>3
  <2> QED
    BY <2>1, <2>2
<1>2. SUBSET S \subseteq T
  <2> HIDE DEF T
  <2> QED
    BY <1>1, PartsInduction
<1> QED
  BY <1>2 DEF FoldsParts

(* The sum of the values of a function is a number. *)
LEMMA SumIsNat ==
  ASSUME NEW S, IsFiniteSet(S), NEW f \in [S -> Nat]
  PROVE  SumFunction(f) \in Nat
<1> DEFINE Pick(U) == CHOOSE x \in U : TRUE
           Sums(g) == g = [U \in SUBSET S |->
                             IF U = {} THEN 0 ELSE f[Pick(U)] + g[U \ {Pick(U)}]]
<1>1. \E g : Sums(g)
  <2> DEFINE pick == [U \in SUBSET S |-> Pick(U)]
             step == [p \in S \X Nat |-> f[p[1]] + p[2]]
  <2>1. \A U \in SUBSET S : U # {} => Pick(U) \in U /\ pick[U] = Pick(U)
    OBVIOUS
  <2>2. step \in [S \X Nat -> Nat]
    OBVIOUS
  <2>3. \A U \in SUBSET S : U # {} => pick[U] \in U
    BY <2>1
  <2>4. PICK g \in [SUBSET S -> Nat] : FoldsParts(g, S, 0, pick, step)
    <3> HIDE DEF pick, step, Sums
    <3> QED
      BY <2>2, <2>3, FoldExists
  <2>5. \A x \in S, n \in Nat : step[<<x, n>>] = f[x] + n
    OBVIOUS
  <2>6. \A U \in SUBSET S : U # {} =>
          step[<<pick[U], g[U \ {pick[U]}]>>] = f[Pick(U)] + g[U \ {Pick(U)}]
    <3> SUFFICES ASSUME NEW U \in SUBSET S, U # {}
                 PROVE  step[<<pick[U], g[U \ {pick[U]}]>>] = f[Pick(U)] + g[U \ {Pick(U)}]
      OBVIOUS
    <3>1. Pick(U) \in S /\ pick[U] = Pick(U)
      BY <2>1
    <3>2. U \ {pick[U]} \in SUBSET S
      OBVIOUS
    <3> HIDE DEF pick, step, Pick
    <3>3. g[U \ {pick[U]}] \in Nat
      BY <3>2
    <3> QED
      BY <2>5, <3>1, <3>3
  <2>7. g = [U \in SUBSET S |-> IF U = {} THEN 0 ELSE step[<<pick[U], g[U \ {pick[U]}]>>]]
    BY <2>4 DEF FoldsParts
  <2>8. Sums(g)
    <3> HIDE DEF pick, step, Pick
    <3> QED
      BY <2>6, <2>7
  <2> QED
    BY <2>8
<1> DEFINE it == CHOOSE g : Sums(g)
<1>2. SumFunction(f) = it[S]
  BY Zenon DEF SumFunction, SumFunctionOnSet, FoldFunctionOnSet, MapThenFoldSet
<1>3. Sums(it)
  BY <1>1, Zenon
<1> HIDE DEF it
<1>4. \A U \in SUBSET S : U # {} => Pick(U) \in U
  OBVIOUS
<1> HIDE DEF Pick
<1> DEFINE T == {U \in SUBSET S : it[U] \in Nat}
<1>5. ASSUME NEW U \in SUBSET S, \A V \in SUBSET U : V # U => V \in T
      PROVE  U \in T
  <2>1. CASE U = {}
    BY <1>3, <2>1
  <2>2. CASE U # {}
    <3>1. Pick(U) \in S /\ U \ {Pick(U)} \in SUBSET U /\ U \ {Pick(U)} # U
      BY <1>4, <2>2
    <3>2. it[U \ {Pick(U)}] \in Nat
      BY <1>5, <3>1
    <3>3. it[U] = f[Pick(U)] + it[U \ {Pick(U)}]
      BY <1>3, <2>2
    <3> QED
      BY <3>1, <3>2, <3>3
  <2> QED
    BY <2>1, <2>2
<1>6. SUBSET S \subseteq T
  <2> HIDE DEF T
  <2> QED
    BY <1>5, PartsInduction
<1> QED
  BY <1>2, <1>6

(* A function that starts at base and applies g from one number to the     *)
(* next, up to N, is what a recursive definition of that form denotes.     *)
Iterates(it, N, base, g) ==
  it = [n \in 0 .. N |-> IF n = 0 THEN base ELSE g[it[n - 1]]]

LEMMA IterateExists ==
  ASSUME NEW V, NEW base \in V, NEW g \in [V -> V], NEW N \in Nat
  PROVE  \E it \in [0 .. N -> V] : Iterates(it, N, base, g)
<1> DEFINE Rec(it, k) == IF k = 0 THEN base ELSE g[it[k - 1]]
           T == {n \in Nat : \E it \in [0 .. n -> V] : \A k \in 0 .. n : it[k] = Rec(it, k)}
<1>1. 0 \in T
  <2> DEFINE it == [n \in 0 .. 0 |-> base]
  <2>1. it \in [0 .. 0 -> V] /\ \A k \in 0 .. 0 : it[k] = Rec(it, k)
    OBVIOUS
  <2> QED
    BY <2>1
<1>2. ASSUME NEW n \in Nat, n \in T
      PROVE  n + 1 \in T
  <2>1. PICK it \in [0 .. n -> V] : \A k \in 0 .. n : it[k] = Rec(it, k)
    BY <1>2
  <2> DEFINE next == [k \in 0 .. n + 1 |-> IF k <= n THEN it[k] ELSE g[it[n]]]
  <2>2. next \in [0 .. n + 1 -> V]
    OBVIOUS
  <2>3. \A k \in 0 .. n : next[k] = it[k]
    OBVIOUS
  <2>4. next[n + 1] = g[it[n]]
    OBVIOUS
  <2> HIDE DEF next
  <2>5. \A k \in 0 .. n + 1 : next[k] = Rec(next, k)
    <3> SUFFICES ASSUME NEW k \in 0 .. n + 1 PROVE next[k] = Rec(next, k)
      OBVIOUS
    <3>1. CASE k = n + 1
      BY <2>3, <2>4, <3>1
    <3>2. CASE k # n + 1
      <4>1. k \in 0 .. n /\ (k # 0 => k - 1 \in 0 .. n)
        BY <3>2
      <4> QED
        BY <2>1, <2>3, <4>1
    <3> QED
      BY <3>1, <3>2
  <2> QED
    BY <2>2, <2>5
<1>3. N \in T
  <2> HIDE DEF T
  <2>1. Nat \subseteq T
    BY <1>1, <1>2, NatSetInduction
  <2> QED
    BY <2>1
<1>4. PICK it \in [0 .. N -> V] : \A k \in 0 .. N : it[k] = Rec(it, k)
  BY <1>3
<1>5. it = [k \in 0 .. N |-> Rec(it, k)]
  BY <1>4
<1> QED
  BY <1>4, <1>5 DEF Iterates

(* A finite set of integers that is not empty has a greatest element. *)
LEMMA GreatestInt ==
  ASSUME NEW S \in SUBSET Int, IsFiniteSet(S), S # {}
  PROVE  \E m \in S : \A n \in S : n <= m
<1> DEFINE T == {U \in SUBSET S : U # {} => \E m \in U : \A n \in U : n <= m}
<1>1. {} \in T
  OBVIOUS
<1>2. ASSUME NEW U \in SUBSET S, NEW x \in S \ U, U \in T
      PROVE  U \cup {x} \in T
  <2>1. CASE U = {}
    BY <2>1
  <2>2. CASE U # {}
    <3>1. PICK m \in U : \A n \in U : n <= m
      BY <1>2, <2>2
    <3>2. CASE x <= m
      BY <3>1, <3>2
    <3>3. CASE ~(x <= m)
      <4>1. \A n \in U \cup {x} : n <= x
        BY <3>1, <3>3
      <4> QED
        BY <4>1
    <3> QED
      BY <3>2, <3>3
  <2> QED
    BY <2>1, <2>2
<1> HIDE DEF T
<1>3. S \in T
  BY <1>1, <1>2, FiniteSetInduction
<1> QED
  BY <1>3 DEF T

(* The values of a function on a finite set are finitely many. *)
LEMMA FiniteImage ==
  ASSUME NEW S, IsFiniteSet(S), NEW f, DOMAIN f = S, f = [x \in S |-> f[x]]
  PROVE  IsFiniteSet({f[x] : x \in S})
<1> DEFINE R == {f[x] : x \in S}
<1>1. f \in Surjection(S, R)
  BY DEF Surjection
<1> QED
  BY <1>1, FS_Surjection

(* Max and Min of a finite set of integers that is not empty are in it,    *)
(* and bound it.                                                           *)
LEMMA MaxIsGreatest ==
  ASSUME NEW S \in SUBSET Int, IsFiniteSet(S), S # {}
  PROVE  Max(S) \in S /\ \A n \in S : n <= Max(S)
<1>1. PICK m \in S : \A n \in S : m >= n
  BY GreatestInt
<1>2. Max(S) \in S /\ \A n \in S : Max(S) >= n
  BY <1>1 DEF Max
<1> QED
  BY <1>2

LEMMA MinIsLeast ==
  ASSUME NEW S \in SUBSET Int, IsFiniteSet(S), S # {}
  PROVE  Min(S) \in S /\ \A n \in S : Min(S) <= n
<1> DEFINE neg == [n \in S |-> -n]
           N == {neg[n] : n \in S}
<1>1. IsFiniteSet(N)
  BY FiniteImage
<1>2. N \in SUBSET Int /\ N # {}
  <2>1. \A n \in S : neg[n] \in Int
    OBVIOUS
  <2> HIDE DEF neg
  <2> QED
    BY <2>1
<1>3. PICK k \in N : \A n \in N : n <= k
  BY <1>1, <1>2, GreatestInt
<1>4. PICK m \in S : k = -m
  BY <1>3
<1>5. \A n \in S : -n \in N
  OBVIOUS
<1>6. \A n \in S : m <= n
  BY <1>3, <1>4, <1>5
<1>7. Min(S) \in S /\ \A n \in S : Min(S) <= n
  BY <1>6 DEF Min
<1> QED
  BY <1>7

(* A sequence of sequences, joined one by one. *)
LEMMA Flatten ==
  ASSUME NEW V, NEW seqs, Len(seqs) \in Nat, Len(seqs) >= 1,
         NEW f \in [1 .. Len(seqs) -> V],
         f[1] = seqs[1],
         \A i \in 2 .. Len(seqs) : f[i] = f[i - 1] \o seqs[i]
  PROVE  FlattenSeq(seqs) = f[Len(seqs)]
<1> DEFINE Joins(g) ==
             g = [i \in 1 .. Len(seqs) |-> IF i = 1 THEN seqs[i] ELSE g[i - 1] \o seqs[i]]
           h == CHOOSE g : Joins(g)
<1>1. Joins(f)
  <2> DEFINE e == [i \in 1 .. Len(seqs) |-> IF i = 1 THEN seqs[i] ELSE f[i - 1] \o seqs[i]]
  <2>1. \A i \in 1 .. Len(seqs) : i = 1 \/ (i \in 2 .. Len(seqs) /\ i # 1)
    OBVIOUS
  <2>2. \A i \in 1 .. Len(seqs) : f[i] = e[i]
    BY <2>1
  <2> HIDE DEF e
  <2>3. e = [i \in 1 .. Len(seqs) |-> e[i]]
    BY DEF e
  <2>4. f = e
    BY <2>2, <2>3
  <2> QED
    BY <2>4 DEF e
<1>2. Joins(h)
  BY <1>1
<1>3. FlattenSeq(seqs) = h[Len(seqs)]
  <2>1. ~(Len(seqs) = 0)
    OBVIOUS
  <2> QED
    BY <2>1, Zenon DEF FlattenSeq
<1> HIDE DEF h
<1> DEFINE n == Len(seqs)
           T == {i \in Nat : i + 1 \in 1 .. n => h[i + 1] = f[i + 1]}
<1>4. 0 \in T
  BY <1>2
<1>5. \A i \in Nat : i \in T => i + 1 \in T
  <2> SUFFICES ASSUME NEW i \in Nat, i \in T, (i + 1) + 1 \in 1 .. n
               PROVE  h[(i + 1) + 1] = f[(i + 1) + 1]
    OBVIOUS
  <2>1. h[i + 1] = f[i + 1] /\ i + 2 \in 2 .. n /\ (i + 2) - 1 = i + 1 /\ (i + 1) + 1 = i + 2
    OBVIOUS
  <2>2. h[i + 2] = h[(i + 2) - 1] \o seqs[i + 2]
    BY <1>2, <2>1
  <2> QED
    BY <2>1, <2>2
<1> HIDE DEF T
<1>6. Nat \subseteq T
  BY <1>4, <1>5, NatSetInduction
<1>7. n - 1 \in T
  BY <1>6
<1>8. h[n] = f[n]
  BY <1>7 DEF T
<1> QED
  BY <1>3, <1>8

(* A sequence of sequences is joined by appending one after the other. *)
LEMMA FlattenJoins ==
  ASSUME NEW V, NEW seqs \in Seq(Seq(V)), seqs # <<>>
  PROVE  \E f \in [1 .. Len(seqs) -> Seq(V)] :
           /\ f[1] = seqs[1]
           /\ \A i \in 2 .. Len(seqs) : f[i] = f[i - 1] \o seqs[i]
           /\ FlattenSeq(seqs) = f[Len(seqs)]
<1> DEFINE N == Len(seqs)
           Joins(f, m) == f[1] = seqs[1] /\ \A i \in 2 .. m : f[i] = f[i - 1] \o seqs[i]
           T == {n \in Nat : n + 1 <= N => \E f \in [1 .. n + 1 -> Seq(V)] : Joins(f, n + 1)}
<1>1. N \in Nat /\ N >= 1 /\ \A i \in 1 .. N : seqs[i] \in Seq(V)
  OBVIOUS
<1> HIDE DEF N
<1>2. 0 \in T
  <2> DEFINE f == [i \in 1 .. 0 + 1 |-> seqs[1]]
  <2>1. f \in [1 .. 0 + 1 -> Seq(V)] /\ Joins(f, 0 + 1)
    BY <1>1
  <2> QED
    BY <2>1
<1>3. ASSUME NEW n \in Nat, n \in T
      PROVE  n + 1 \in T
  <2> HIDE DEF Joins
  <2> SUFFICES ASSUME (n + 1) + 1 <= N
               PROVE  \E f \in [1 .. (n + 1) + 1 -> Seq(V)] : Joins(f, (n + 1) + 1)
    OBVIOUS
  <2>0. n + 1 <= N
    BY <1>1
  <2>1. PICK f \in [1 .. n + 1 -> Seq(V)] : Joins(f, n + 1)
    BY <1>3, <2>0
  <2> USE DEF Joins
  <2> DEFINE k == n + 2
             g == [i \in 1 .. k |-> IF i = k THEN f[n + 1] \o seqs[k] ELSE f[i]]
  <2>2. k \in Nat /\ k \in 1 .. N /\ k - 1 = n + 1 /\ n + 1 \in 1 .. n + 1
        /\ \A i \in 1 .. k : i # k => i \in 1 .. n + 1 /\ (i # 1 => i \in 2 .. n + 1 /\ i - 1 # k)
    BY <1>1
  <2>3. f[n + 1] \o seqs[k] \in Seq(V)
    BY <1>1, <2>2, ConcatProperties
  <2>4. g \in [1 .. k -> Seq(V)]
    BY <2>2, <2>3
  <2>5. g[1] = seqs[1]
    BY <2>1, <2>2, SMTT(60)
  <2>6. \A i \in 2 .. k : g[i] = g[i - 1] \o seqs[i]
    <3> SUFFICES ASSUME NEW i \in 2 .. k PROVE g[i] = g[i - 1] \o seqs[i]
      OBVIOUS
    <3>1. CASE i = k
      <4>1. k \in 1 .. k /\ k - 1 \in 1 .. k /\ k - 1 # k /\ k - 1 = n + 1
        BY <2>2
      <4>2. g[k] = f[n + 1] \o seqs[k] /\ g[k - 1] = f[n + 1]
        BY <4>1
      <4> HIDE DEF g, k
      <4> QED
        BY <3>1, <4>2
    <3>2. CASE i # k
      <4>1. i \in 1 .. k /\ i - 1 \in 1 .. k /\ i - 1 # k /\ i \in 2 .. n + 1
        BY <2>2, <3>2
      <4>2. g[i] = f[i] /\ g[i - 1] = f[i - 1]
        BY <3>2, <4>1
      <4> HIDE DEF g
      <4> QED
        BY <2>1, <4>1, <4>2
    <3> QED
      BY <3>1, <3>2
  <2> HIDE DEF g
  <2>7. k = (n + 1) + 1
    OBVIOUS
  <2> QED
    BY <2>4, <2>5, <2>6, <2>7
<1> HIDE DEF T, Joins
<1>4. Nat \subseteq T
  BY <1>2, <1>3, NatSetInduction
<1>5. N - 1 \in T /\ (N - 1) + 1 = N
  BY <1>1, <1>4
<1>6. PICK f \in [1 .. N -> Seq(V)] : Joins(f, N)
  BY <1>1, <1>5 DEF T
<1>7. FlattenSeq(seqs) = f[N]
  BY <1>1, <1>6, Flatten DEF N, Joins
<1> QED
  BY <1>6, <1>7 DEF N, Joins

LEMMA FlattenEmpty == FlattenSeq(<<>>) = <<>>
  BY DEF FlattenSeq

(* Sequences of one length W, joined: where the elements of each are. *)
LEMMA FlattenUniform ==
  ASSUME NEW V, NEW seqs \in Seq(Seq(V)), NEW W \in Nat,
         \A i \in 1 .. Len(seqs) : Len(seqs[i]) = W
  PROVE  /\ FlattenSeq(seqs) \in Seq(V)
         /\ Len(FlattenSeq(seqs)) = Len(seqs) * W
         /\ \A i \in 1 .. Len(seqs) : \A k \in 1 .. W :
              FlattenSeq(seqs)[(i - 1) * W + k] = seqs[i][k]
<1> DEFINE N == Len(seqs)
<1>1. N \in Nat /\ \A i \in 1 .. N : seqs[i] \in Seq(V) /\ Len(seqs[i]) = W
  OBVIOUS
<1>2. CASE seqs = <<>>
  <2>1. N = 0 /\ FlattenSeq(seqs) = <<>> /\ 0 * W = 0
    BY <1>2, FlattenEmpty
  <2> QED
    BY <2>1
<1>3. CASE seqs # <<>>
  <2>1. PICK f \in [1 .. N -> Seq(V)] :
           /\ f[1] = seqs[1]
           /\ \A i \in 2 .. N : f[i] = f[i - 1] \o seqs[i]
           /\ FlattenSeq(seqs) = f[N]
    BY <1>3, FlattenJoins
  <2>2. N >= 1
    BY <1>3
  <2> HIDE DEF N
  <2> DEFINE Placed(m) ==
               /\ Len(f[m]) = m * W
               /\ \A i \in 1 .. m : \A k \in 1 .. W : f[m][(i - 1) * W + k] = seqs[i][k]
             T == {n \in Nat : n + 1 <= N => Placed(n + 1)}
  <2>3. 0 \in T
    <3>1. 1 * W = W /\ (1 - 1) * W = 0
      OBVIOUS
    <3>2. Len(f[1]) = 1 * W
      BY <1>1, <2>1, <2>2, <3>1
    <3>3. \A i \in 1 .. 1 : \A k \in 1 .. W : f[1][(i - 1) * W + k] = seqs[i][k]
      BY <2>1, <3>1
    <3> QED
      BY <3>2, <3>3
  <2>4. ASSUME NEW n \in Nat, n \in T
        PROVE  n + 1 \in T
    <3> DEFINE m == n + 1
               base == m * W
    <3> SUFFICES ASSUME m + 1 <= N PROVE Placed(m + 1)
      OBVIOUS
    <3>1. m \in Nat /\ m \in 1 .. N /\ m + 1 \in 2 .. N /\ (m + 1) - 1 = m
      BY <1>1
    <3>2. Placed(m)
      BY <2>4, <3>1
    <3>3. f[m + 1] = f[m] \o seqs[m + 1] /\ f[m] \in Seq(V)
          /\ seqs[m + 1] \in Seq(V) /\ Len(seqs[m + 1]) = W
      <4> HIDE DEF m, Placed, T, base
      <4>1. m + 1 \in 1 .. N
        BY <1>1, <3>1
      <4>2. f[m + 1] = f[m] \o seqs[m + 1]
        BY <2>1, <3>1
      <4> QED
        BY <1>1, <3>1, <4>1, <4>2
    <3>4. base \in Nat /\ (m + 1) * W = base + W
      <4>1. \A a, w \in Nat : a * w \in Nat /\ (a + 1) * w = a * w + w
        OBVIOUS
      <4> QED
        BY <3>1, <4>1
    <3>5. Len(f[m]) = base
      BY <3>2
    <3>6. /\ Len(f[m + 1]) = base + W
          /\ \A p \in 1 .. base + W :
               f[m + 1][p] = IF p <= base THEN f[m][p] ELSE seqs[m + 1][p - base]
      <4> HIDE DEF m, Placed, T, base
      <4>1. /\ Len(f[m] \o seqs[m + 1]) = Len(f[m]) + Len(seqs[m + 1])
            /\ \A p \in 1 .. Len(f[m]) + Len(seqs[m + 1]) :
                 (f[m] \o seqs[m + 1])[p]
                   = IF p <= Len(f[m]) THEN f[m][p] ELSE seqs[m + 1][p - Len(f[m])]
        BY <3>3, ConcatProperties, Zenon
      <4> QED
        BY <3>3, <3>5, <4>1
    <3>7. ASSUME NEW i \in 1 .. m + 1, NEW k \in 1 .. W
          PROVE  f[m + 1][(i - 1) * W + k] = seqs[i][k]
      <4> DEFINE b == (i - 1) * W
      <4>1. CASE i = m + 1
        <5>1. b = base
          BY <3>1, <4>1
        <5> HIDE DEF b, base
        <5>2. b + k \in 1 .. base + W /\ ~(b + k <= base) /\ (b + k) - base = k
          BY <3>4, <5>1
        <5>3. f[m + 1][b + k] = seqs[m + 1][k]
          BY <3>6, <5>2
        <5> QED
          BY <4>1, <5>3 DEF b
      <4>2. CASE i # m + 1
        <5>1. i \in 1 .. m
          BY <3>1, <4>2
        <5>2. b \in Nat /\ b + W <= base
          <6>1. \A a, c, w \in Nat : a + 1 <= c => a * w \in Nat /\ a * w + w <= c * w
            <7>1. \A a, c, w \in Nat : a <= c => a * w <= c * w /\ a * w \in Nat /\ c * w \in Nat
              OBVIOUS
            <7>2. \A a, w \in Nat : (a + 1) * w = a * w + w /\ a + 1 \in Nat
              OBVIOUS
            <7> QED
              BY <7>1, <7>2
          <6>2. i - 1 \in Nat /\ (i - 1) + 1 <= m
            BY <5>1
          <6> QED
            BY <3>1, <6>1, <6>2
        <5>3. f[m][b + k] = seqs[i][k]
          BY <3>2, <5>1
        <5> HIDE DEF b, base
        <5>4. b + k \in 1 .. base + W /\ b + k <= base
          BY <3>4, <5>2
        <5> QED
          BY <3>6, <5>3, <5>4 DEF b
      <4> QED
        BY <4>1, <4>2
    <3> HIDE DEF base
    <3>8. Len(f[m + 1]) = (m + 1) * W
      BY <3>4, <3>6
    <3> QED
      BY <3>7, <3>8
  <2>5. Nat \subseteq T
    <3> HIDE DEF T
    <3> QED
      BY <2>3, <2>4, NatSetInduction
  <2>6. N - 1 \in T /\ (N - 1) + 1 = N
    <3> HIDE DEF T
    <3> QED
      BY <1>1, <2>2, <2>5
  <2>7. Placed(N)
    <3> HIDE DEF Placed
    <3> QED
      BY <1>1, <2>6
  <2>8. N \in 1 .. N
    BY <1>1, <2>2
  <2> QED
    BY <2>1, <2>7, <2>8 DEF N
<1> QED
  BY <1>2, <1>3

(* A sequence that was cut at the places up, with something more after the *)
(* last part, and joined again.                                            *)
LEMMA JoinPieces ==
  ASSUME NEW V, NEW s \in Seq(V), NEW pad \in Seq(V), NEW n \in Nat, n >= 1,
         NEW up \in [0 .. n -> 0 .. Len(s)], up[0] = 0, up[n] = Len(s),
         \A i \in 1 .. n : up[i - 1] <= up[i],
         NEW parts, Len(parts) = n,
         \A i \in 1 .. n : i < n => parts[i] = SubSeq(s, up[i - 1] + 1, up[i]),
         parts[n] = SubSeq(s, up[n - 1] + 1, up[n]) \o pad
  PROVE  FlattenSeq(parts) = s \o pad
<1> DEFINE piece(i) == SubSeq(s, up[i - 1] + 1, up[i])
           front(i) == SubSeq(s, 1, up[i])
           f == [i \in 1 .. n |-> IF i = n THEN s \o pad ELSE front(i)]
<1>1. \A i \in 1 .. n :
        /\ i - 1 \in 0 .. n /\ up[i] \in 0 .. Len(s) /\ up[i - 1] \in 0 .. up[i]
        /\ piece(i) \in Seq(V) /\ front(i) \in Seq(V) /\ front(i - 1) \in Seq(V)
        /\ front(i - 1) \o piece(i) = front(i)
  <2> SUFFICES ASSUME NEW i \in 1 .. n
               PROVE  /\ i - 1 \in 0 .. n /\ up[i] \in 0 .. Len(s) /\ up[i - 1] \in 0 .. up[i]
                      /\ piece(i) \in Seq(V) /\ front(i) \in Seq(V) /\ front(i - 1) \in Seq(V)
                      /\ front(i - 1) \o piece(i) = front(i)
    OBVIOUS
  <2>1. i - 1 \in 0 .. n /\ i \in 0 .. n
    OBVIOUS
  <2> DEFINE a == up[i - 1]
             b == up[i]
  <2>2. a \in 0 .. Len(s) /\ b \in 0 .. Len(s) /\ a <= b
    BY <2>1
  <2> HIDE DEF a, b
  <2>3. Len(s) \in Nat /\ 1 \in 1 .. Len(s) + 1 /\ a \in 1 - 1 .. Len(s) /\ b \in a .. Len(s)
    BY <2>2
  <2>4. SubSeq(s, 1, a) \o SubSeq(s, a + 1, b) = SubSeq(s, 1, b)
    BY <2>3, ConcatAdjacentSubSeq
  <2>5. SubSeq(s, 1, a) \in Seq(V) /\ SubSeq(s, a + 1, b) \in Seq(V) /\ SubSeq(s, 1, b) \in Seq(V)
    BY <2>3, SMTT(60)
  <2>6. a \in 0 .. b
    BY <2>2
  <2> QED
    BY <2>1, <2>2, <2>4, <2>5, <2>6 DEF a, b
<1>2. front(n) = s
  BY SubSeqFull
<1>3. front(0) = <<>>
  BY DEF front
<1> HIDE DEF piece, front
<1>4. s \o pad \in Seq(V)
  BY ConcatProperties
<1>5. f \in [1 .. n -> Seq(V)]
  BY <1>1, <1>4
<1>6. \A i \in 1 .. n : i < n => parts[i] = piece(i)
  BY DEF piece
<1>7. parts[n] = piece(n) \o pad
  BY DEF piece
<1>8. ASSUME NEW i \in 1 .. n
      PROVE  f[i] = front(i - 1) \o parts[i]
  <2>1. CASE i = n
    <3>1. n \in 1 .. n
      OBVIOUS
    <3>2. front(n - 1) \o (piece(n) \o pad) = (front(n - 1) \o piece(n)) \o pad
      <4>1. front(n - 1) \in Seq(V) /\ piece(n) \in Seq(V)
        BY <1>1, <3>1
      <4> DEFINE t == front(n - 1)
                 u == piece(n)
      <4>2. t \in Seq(V) /\ u \in Seq(V) /\ pad \in Seq(V)
        BY <4>1
      <4> HIDE DEF t, u
      <4>3. (t \o u) \o pad = t \o (u \o pad)
        BY ONLY <4>2, ConcatAssociative, SMTT(60)
      <4> QED
        BY <4>3 DEF t, u
    <3> QED
      BY <1>1, <1>2, <1>7, <2>1, <3>1, <3>2
  <2>2. CASE i # n
    <3>1. i < n
      BY <2>2
    <3> QED
      BY <1>1, <1>6, <2>2, <3>1
  <2> QED
    BY <2>1, <2>2
<1>9. 1 \in 1 .. n /\ 1 - 1 = 0
  OBVIOUS
<1>10. parts[1] \in Seq(V)
  <2>1. CASE n = 1
    <3>1. piece(n) \in Seq(V)
      BY <1>1, <1>9, <2>1
    <3> QED
      <4>1. piece(n) \o pad \in Seq(V)
        BY <3>1, ConcatProperties, Zenon
      <4> QED
        BY <1>7, <2>1, <4>1
  <2>2. CASE n # 1
    <3>1. 1 < n
      BY <2>2
    <3> QED
      BY <1>1, <1>6, <1>9, <3>1
  <2> QED
    BY <2>1, <2>2
<1>11. f[1] = parts[1]
  <2>1. f[1] = <<>> \o parts[1]
    BY <1>3, <1>8, <1>9
  <2>2. <<>> \o parts[1] = parts[1]
    BY <1>10, ConcatEmptySeq
  <2> QED
    BY <2>1, <2>2
<1>12. \A i \in 2 .. n : f[i] = f[i - 1] \o parts[i]
  <2> SUFFICES ASSUME NEW i \in 2 .. n PROVE f[i] = f[i - 1] \o parts[i]
    OBVIOUS
  <2>1. i \in 1 .. n /\ i - 1 \in 1 .. n /\ i - 1 # n
    OBVIOUS
  <2>2. f[i - 1] = front(i - 1)
    BY <2>1
  <2> QED
    BY <1>8, <2>1, <2>2
<1>13. f[n] = s \o pad
  OBVIOUS
<1> HIDE DEF f
<1>14. FlattenSeq(parts) = f[n]
  BY <1>5, <1>11, <1>12, Flatten
<1> QED
  BY <1>13, <1>14

(* A set that has the empty sequence, and with every sequence those with   *)
(* one element more, has them all.                                         *)
LEMMA SeqSetInduction ==
  ASSUME NEW V, NEW T, <<>> \in T,
         \A s \in Seq(V) : \A e \in V : s \in T => Append(s, e) \in T
  PROVE  Seq(V) \subseteq T
<1> DEFINE N == {n \in Nat : \A s \in Seq(V) : Len(s) = n => s \in T}
<1>1. 0 \in N
  BY EmptySeq
<1>2. ASSUME NEW n \in Nat, n \in N
      PROVE  n + 1 \in N
  <2> SUFFICES ASSUME NEW s \in Seq(V), Len(s) = n + 1
               PROVE  s \in T
    OBVIOUS
  <2>1. s # <<>>
    OBVIOUS
  <2>2. PICK r \in Seq(V), e \in V : s = Append(r, e)
    BY <2>1, SequenceEmptyOrAppend
  <2>3. Len(r) = n
    BY <2>2
  <2> QED
    BY <1>2, <2>2, <2>3
<1> HIDE DEF N
<1>3. Nat \subseteq N
  BY <1>1, <1>2, NatSetInduction
<1> QED
  BY <1>3 DEF N

(* Joining one sequence more appends it. *)
LEMMA FlattenAppend ==
  ASSUME NEW V, NEW seqs \in Seq(Seq(V)), NEW s \in Seq(V)
  PROVE  /\ FlattenSeq(seqs) \in Seq(V)
         /\ FlattenSeq(Append(seqs, s)) = FlattenSeq(seqs) \o s
<1> DEFINE more == Append(seqs, s)
           n == Len(seqs)
<1>1. /\ n \in Nat /\ more \in Seq(Seq(V)) /\ more # <<>> /\ Len(more) = n + 1
      /\ more[n + 1] = s /\ \A i \in 1 .. n : more[i] = seqs[i]
  BY LenProperties, AppendProperties
<1> HIDE DEF more
<1>2. PICK f \in [1 .. Len(more) -> Seq(V)] :
        /\ f[1] = more[1]
        /\ \A i \in 2 .. Len(more) : f[i] = f[i - 1] \o more[i]
        /\ FlattenSeq(more) = f[Len(more)]
  BY <1>1, FlattenJoins
<1>3. CASE seqs = <<>>
  <2>1. n = 0 /\ FlattenSeq(more) = s
    BY <1>1, <1>2, <1>3
  <2>2. FlattenSeq(seqs) = <<>>
    BY <1>3, FlattenEmpty
  <2> QED
    BY <2>1, <2>2, ConcatEmptySeq DEF more
<1>4. CASE seqs # <<>>
  <2>1. n >= 1 /\ (n + 1) - 1 = n /\ n + 1 \in 2 .. n + 1
    BY <1>1, <1>4
  <2> DEFINE g == [i \in 1 .. n |-> f[i]]
  <2>2. \A i \in 1 .. n : i \in 1 .. Len(more)
    BY <1>1
  <2>3. g \in [1 .. n -> Seq(V)]
    BY <2>2
  <2>4. g[1] = seqs[1] /\ n \in 1 .. n /\ g[n] = f[n]
    BY <1>1, <1>2, <2>1
  <2>5. \A i \in 2 .. n : g[i] = g[i - 1] \o seqs[i]
    <3> SUFFICES ASSUME NEW i \in 2 .. n PROVE g[i] = g[i - 1] \o seqs[i]
      OBVIOUS
    <3>1. i \in 1 .. n /\ i - 1 \in 1 .. n /\ i \in 2 .. Len(more)
      BY <1>1
    <3> QED
      BY <1>1, <1>2, <3>1
  <2> HIDE DEF g
  <2>6. FlattenSeq(seqs) = g[n]
    BY <1>1, <2>1, <2>3, <2>4, <2>5, Flatten
  <2>7. f[n + 1] = f[n] \o s /\ f[n] \in Seq(V)
    <3>1. n + 1 \in 2 .. Len(more) /\ n \in 1 .. Len(more)
      BY <1>1, <2>1
    <3> QED
      BY <1>1, <1>2, <2>1, <3>1
  <2> QED
    BY <1>1, <1>2, <2>4, <2>6, <2>7 DEF more
<1> QED
  BY <1>3, <1>4

(* Joining the sequences of a and then those of b. *)
LEMMA FlattenConcat ==
  ASSUME NEW V, NEW a, NEW b, a \in Seq(Seq(V)), b \in Seq(Seq(V))
  PROVE  /\ FlattenSeq(a) \in Seq(V) /\ FlattenSeq(b) \in Seq(V)
         /\ FlattenSeq(a \o b) = FlattenSeq(a) \o FlattenSeq(b)
<1> DEFINE T == {t \in Seq(Seq(V)) : FlattenSeq(a \o t) = FlattenSeq(a) \o FlattenSeq(t)}
<1>1. \A t \in Seq(Seq(V)) : FlattenSeq(t) \in Seq(V)
  <2>1. <<>> \in Seq(V)
    OBVIOUS
  <2> QED
    BY <2>1, FlattenAppend
<1>2. <<>> \in T
  BY <1>1, FlattenEmpty, ConcatEmptySeq
<1>3. ASSUME NEW t, NEW e, t \in Seq(Seq(V)), e \in Seq(V), t \in T
      PROVE  Append(t, e) \in T
  <2>1. Append(t, e) \in Seq(Seq(V)) /\ a \o t \in Seq(Seq(V))
    BY <1>3, AppendProperties, ConcatProperties
  <2>2. a \o Append(t, e) = Append(a \o t, e)
    <3>1. /\ Append(t, e) = t \o <<e>> /\ Append(a \o t, e) = (a \o t) \o <<e>>
          /\ <<e>> \in Seq(Seq(V))
      BY <1>3, <2>1, AppendIsConcat
    <3> QED
      BY <1>3, <3>1, ConcatAssociative
  <2>3. /\ FlattenSeq(Append(t, e)) = FlattenSeq(t) \o e
        /\ FlattenSeq(Append(a \o t, e)) = FlattenSeq(a \o t) \o e
    BY <1>3, <2>1, FlattenAppend
  <2>4. (FlattenSeq(a) \o FlattenSeq(t)) \o e = FlattenSeq(a) \o (FlattenSeq(t) \o e)
    <3>1. \A x, y, z \in Seq(V) : (x \o y) \o z = x \o (y \o z)
      BY ONLY ConcatAssociative
    <3>2. FlattenSeq(a) \in Seq(V) /\ FlattenSeq(t) \in Seq(V) /\ e \in Seq(V)
      BY <1>1, <1>3
    <3> QED
      BY <3>1, <3>2, Zenon
  <2> QED
    BY <1>3, <2>1, <2>2, <2>3, <2>4
<1> HIDE DEF T
<1>4. Seq(Seq(V)) \subseteq T
  BY <1>2, <1>3, SeqSetInduction
<1> QED
  BY <1>1, <1>4 DEF T
=============================================================================
