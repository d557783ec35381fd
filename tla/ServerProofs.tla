----------------------------- MODULE ServerProofs -----------------------------
(***************************************************************************)
(* Proofs about Server, for all transactions and keys, any number of       *)
(* requests, any bounds, and all files.                                    *)
(***************************************************************************)
EXTENDS Server, NodeProofs, ProofLemmas

-----------------------------------------------------------------------------
(* Escaping a text, and what a browser makes of it.                        *)

(* What Replace makes of a character, and of each one of a text. *)
Piece(v, c) == IF v = c THEN <<AMP, 1000 + c>> ELSE <<v>>
Pieces(text, c) == [i \in DOMAIN text |-> IF text[i] = c THEN <<AMP, 1000 + c>> ELSE <<text[i]>>]

LEMMA PieceType ==
  ASSUME NEW v \in Nat, NEW c \in Nat
  PROVE  Piece(v, c) \in Seq(Nat)
  BY DEF Piece, AMP

LEMMA PiecesType ==
  ASSUME NEW text \in Seq(Nat), NEW c \in Nat
  PROVE  Pieces(text, c) \in Seq(Seq(Nat))
<1>1. Len(text) \in Nat /\ Pieces(text, c) = [i \in 1 .. Len(text) |-> Piece(text[i], c)]
  BY DEF Piece, Pieces
<1>2. \A i \in 1 .. Len(text) : Piece(text[i], c) \in Seq(Nat)
  <2> SUFFICES ASSUME NEW i \in 1 .. Len(text) PROVE Piece(text[i], c) \in Seq(Nat)
    OBVIOUS
  <2> DEFINE v == text[i]
  <2>1. v \in Nat /\ c \in Nat
    OBVIOUS
  <2> HIDE DEF v
  <2>2. Piece(v, c) \in Seq(Nat)
    BY ONLY <2>1, PieceType
  <2> QED
    BY <2>2 DEF v
<1> QED
  BY <1>1, <1>2

LEMMA ReplaceType ==
  ASSUME NEW text \in Seq(Nat), NEW c \in Nat
  PROVE  Replace(text, c) \in Seq(Nat)
<1>1. Replace(text, c) = FlattenSeq(Pieces(text, c))
  BY Zenon DEF Replace, Pieces
<1>2. Pieces(text, c) \in Seq(Seq(Nat)) /\ <<>> \in Seq(Nat)
  BY PiecesType
<1>3. FlattenSeq(Pieces(text, c)) \in Seq(Nat)
  BY ONLY <1>2, FlattenAppend
<1> QED
  BY <1>1, <1>3

(* Replace treats one character after another. *)
LEMMA ReplaceAppend ==
  ASSUME NEW text \in Seq(Nat), NEW c \in Nat, NEW v \in Nat
  PROVE  Replace(Append(text, v), c) = Replace(text, c) \o Piece(v, c)
<1> DEFINE n == Len(text)
           more == Append(text, v)
           p == Pieces(text, c)
           q == Pieces(more, c)
           r == Append(p, Piece(v, c))
<1>1. /\ n \in Nat /\ DOMAIN text = 1 .. n /\ DOMAIN more = 1 .. n + 1
      /\ more[n + 1] = v /\ \A i \in 1 .. n : more[i] = text[i]
  OBVIOUS
<1> HIDE DEF more
<1>2. /\ p = [i \in 1 .. n |-> Piece(text[i], c)]
      /\ q = [i \in 1 .. n + 1 |-> Piece(more[i], c)]
  BY <1>1 DEF Pieces, Piece
<1>3. p \in Seq(Seq(Nat)) /\ Piece(v, c) \in Seq(Nat)
  BY PiecesType, PieceType
<1>4. Replace(more, c) = FlattenSeq(q) /\ Replace(text, c) = FlattenSeq(p)
  BY Zenon DEF Replace, Pieces
<1> HIDE DEF p, q
<1>5. r = [i \in 1 .. n + 1 |-> IF i <= n THEN p[i] ELSE Piece(v, c)]
  BY <1>1, <1>2
<1>6. ASSUME NEW i \in 1 .. n + 1
      PROVE  q[i] = IF i <= n THEN p[i] ELSE Piece(v, c)
  <2>1. i \in 1 .. n \/ (i = n + 1 /\ ~(i <= n))
    BY <1>1
  <2>2. q[i] = Piece(more[i], c)
    BY <1>2
  <2> QED
    BY <1>1, <1>2, <2>1, <2>2
<1>7. q = r
  BY <1>2, <1>5, <1>6
<1>8. FlattenSeq(r) = FlattenSeq(p) \o Piece(v, c)
  BY ONLY <1>3, FlattenAppend
<1> QED
  BY <1>4, <1>7, <1>8 DEF more

(* It leaves every character alone but the one it is for ... *)
LEMMA ReplaceOther ==
  ASSUME NEW text \in Seq(Nat), NEW c \in Nat, NEW x \in Nat, x # c
  PROVE  Replace(Append(text, x), c) = Append(Replace(text, c), x)
<1> DEFINE rest == Replace(text, c)
<1>1. Replace(Append(text, x), c) = rest \o <<x>>
  <2>1. Piece(x, c) = <<x>>
    BY DEF Piece
  <2>2. Replace(Append(text, x), c) = Replace(text, c) \o Piece(x, c)
    BY ReplaceAppend
  <2> QED
    BY <2>1, <2>2
<1>2. rest \in Seq(Nat)
  BY ReplaceType
<1> HIDE DEF rest
<1>3. rest \o <<x>> = Append(rest, x)
  BY <1>2
<1> QED
  BY <1>1, <1>3 DEF rest

(* ... which becomes its entity. *)
LEMMA ReplaceIt ==
  ASSUME NEW text \in Seq(Nat), NEW c \in Nat
  PROVE  Replace(Append(text, c), c) = Append(Append(Replace(text, c), AMP), 1000 + c)
<1> DEFINE rest == Replace(text, c)
<1>1. Replace(Append(text, c), c) = rest \o <<AMP, 1000 + c>>
  <2>1. Piece(c, c) = <<AMP, 1000 + c>>
    BY DEF Piece
  <2>2. Replace(Append(text, c), c) = Replace(text, c) \o Piece(c, c)
    BY ReplaceAppend
  <2> QED
    BY <2>1, <2>2
<1>2. rest \in Seq(Nat)
  BY ReplaceType
<1> HIDE DEF rest
<1>3. rest \o <<AMP, 1000 + c>> = Append(Append(rest, AMP), 1000 + c)
  BY <1>2 DEF AMP
<1> QED
  BY <1>1, <1>3 DEF rest

(* The text after the first i replacements of HtmlEscape. *)
Stage1(text) == Replace(text, AMP)
Stage2(text) == Replace(Stage1(text), LT)
Stage3(text) == Replace(Stage2(text), GT)
Stage4(text) == Replace(Stage3(text), QUOT)

(* The characters HtmlEscape replaces, and what it makes of a character. *)
Special == {AMP, LT, GT, QUOT, APOS}
Appended(shown, x) == IF x \in Special THEN Append(Append(shown, AMP), 1000 + x) ELSE Append(shown, x)

(* A character is escaped without regard to those around it. *)
LEMMA EscapeAppend ==
  ASSUME NEW text \in Seq(Nat), NEW x \in 0 .. 255
  PROVE  /\ HtmlEscape(text) \in Seq(Nat)
         /\ HtmlEscape(Append(text, x)) = Appended(HtmlEscape(text), x)
<1>1. /\ AMP \in Nat /\ LT \in Nat /\ GT \in Nat /\ QUOT \in Nat /\ APOS \in Nat
      /\ AMP # LT /\ AMP # GT /\ AMP # QUOT /\ AMP # APOS
      /\ LT # GT /\ LT # QUOT /\ LT # APOS /\ GT # QUOT /\ GT # APOS /\ QUOT # APOS
      /\ \A c \in Special, d \in {LT, GT, QUOT, APOS} : 1000 + c \in Nat /\ 1000 + c # d
      /\ x \in Nat
  BY DEF AMP, LT, GT, QUOT, APOS, Special
<1>2. \A t \in Seq(Nat), y \in Nat : Append(t, y) \in Seq(Nat)
  OBVIOUS
<1>3. \A t \in Seq(Nat), c \in Nat : Replace(t, c) \in Seq(Nat)
  BY ONLY ReplaceType
<1>o. \A t \in Seq(Nat), c \in Nat, y \in Nat :
        y # c => Replace(Append(t, y), c) = Append(Replace(t, c), y)
  BY ONLY ReplaceOther
<1>r. \A t \in Seq(Nat), c \in Nat :
        Replace(Append(t, c), c) = Append(Append(Replace(t, c), AMP), 1000 + c)
  BY ONLY ReplaceIt, SMTT(60)
<1>4. /\ Stage1(text) \in Seq(Nat) /\ Stage2(text) \in Seq(Nat) /\ Stage3(text) \in Seq(Nat)
      /\ Stage4(text) \in Seq(Nat)
  <2>1. Stage1(text) \in Seq(Nat)
    BY <1>1, <1>3 DEF Stage1
  <2>2. Stage2(text) \in Seq(Nat)
    BY <2>1, <1>1, <1>3 DEF Stage2
  <2>3. Stage3(text) \in Seq(Nat)
    BY <2>2, <1>1, <1>3 DEF Stage3
  <2>4. Stage4(text) \in Seq(Nat)
    BY <2>3, <1>1, <1>3 DEF Stage4
  <2> QED
    BY <2>1, <2>2, <2>3, <2>4
<1>5. \A t : HtmlEscape(t) = Replace(Stage4(t), APOS)
  BY Zenon DEF Stage1, Stage2, Stage3, Stage4, HtmlEscape
<1>6. HtmlEscape(text) \in Seq(Nat)
  BY <1>1, <1>3, <1>4, <1>5
<1> DEFINE Pair(t, d) == Append(Append(t, AMP), 1000 + d)
           Single(t) == Append(t, x)
<1>7. ASSUME NEW t \in Seq(Nat), NEW c \in {LT, GT, QUOT, APOS}, NEW d \in Special
      PROVE  Replace(Pair(t, d), c) = Pair(Replace(t, c), d)
  <2>0. c \in Nat /\ AMP \in Nat /\ AMP # c
    BY <1>1, <1>7
  <2>4. 1000 + d \in Nat /\ 1000 + d # c
    BY <1>7 DEF Special, AMP, LT, GT, QUOT, APOS
  <2>1. Append(t, AMP) \in Seq(Nat)
    BY <2>0, <1>7
  <2>2. Replace(Append(t, AMP), c) = Append(Replace(t, c), AMP)
    BY <2>0, <1>o, <1>7
  <2>3. Replace(Append(Append(t, AMP), 1000 + d), c) = Append(Replace(Append(t, AMP), c), 1000 + d)
    <3> DEFINE u == Append(t, AMP)
               v == 1000 + d
    <3>1. u \in Seq(Nat) /\ v \in Nat /\ v # c /\ c \in Nat
      BY <2>0, <2>1, <2>4
    <3> HIDE DEF u, v
    <3>2. Replace(Append(u, v), c) = Append(Replace(u, c), v)
      BY ONLY <3>1, ReplaceOther
    <3> QED
      BY <3>2 DEF u, v
  <2> QED
    BY <2>2, <2>3
<1>8. ASSUME NEW t \in Seq(Nat), NEW c \in Special, c # x
      PROVE  Replace(Single(t), c) = Single(Replace(t, c))
  <2>1. c \in Nat
    BY <1>1, <1>8 DEF Special
  <2> QED
    BY <2>1, <1>1, <1>o, <1>8
<1>9. ASSUME NEW t \in Seq(Nat), x \in Special
      PROVE  Replace(Single(t), x) = Pair(Replace(t, x), x)
  BY <1>1, <1>r, <1>9
<1> DEFINE more == Single(text)
           alone == x \notin Special
<1>10. /\ x = AMP => Stage1(more) = Pair(Stage1(text), x)
       /\ x # AMP => Stage1(more) = Single(Stage1(text))
  BY <1>8, <1>9 DEF Stage1, Special
<1> HIDE DEF more, Pair, Single
<1>11. /\ \A t \in Seq(Nat), c \in {LT, GT, QUOT, APOS} :
             x \in Special => Replace(Pair(t, x), c) = Pair(Replace(t, c), x)
       /\ \A t \in Seq(Nat), c \in Special :
             c # x => Replace(Single(t), c) = Single(Replace(t, c))
       /\ \A t \in Seq(Nat) : x \in Special => Replace(Single(t), x) = Pair(Replace(t, x), x)
  BY <1>7, <1>8, <1>9
<1>12. /\ x \in {AMP, LT} => Stage2(more) = Pair(Stage2(text), x)
       /\ x \notin {AMP, LT} => Stage2(more) = Single(Stage2(text))
  BY ONLY <1>1, <1>4, <1>11, <1>10 DEF Stage2, Special
<1>13. /\ x \in {AMP, LT, GT} => Stage3(more) = Pair(Stage3(text), x)
       /\ x \notin {AMP, LT, GT} => Stage3(more) = Single(Stage3(text))
  BY ONLY <1>1, <1>4, <1>11, <1>12 DEF Stage3, Special
<1>14. /\ x \in {AMP, LT, GT, QUOT} => Stage4(more) = Pair(Stage4(text), x)
       /\ x \notin {AMP, LT, GT, QUOT} => Stage4(more) = Single(Stage4(text))
  BY ONLY <1>1, <1>4, <1>11, <1>13 DEF Stage4, Special
<1>15. /\ x \in Special => HtmlEscape(more) = Pair(HtmlEscape(text), x)
       /\ x \notin Special => HtmlEscape(more) = Single(HtmlEscape(text))
  BY ONLY <1>1, <1>4, <1>5, <1>11, <1>14 DEF Special
<1> QED
  BY <1>6, <1>15, Zenon DEF Appended, more, Pair, Single

(* The pieces that a browser makes of the characters of an escaped text. *)
EntityAt(shown, i) == shown[i] = AMP /\ i < Len(shown) /\ shown[i + 1] > 1000
Glyph(shown, i) ==
  IF EntityAt(shown, i) THEN <<shown[i + 1] - 1000>>
  ELSE IF i > 1 /\ EntityAt(shown, i - 1) THEN <<>> ELSE <<shown[i]>>
Glyphs(shown) == [i \in DOMAIN shown |-> Glyph(shown, i)]

(* Append and others under names of their own: to a step that does not     *)
(* expand them, no more than what the lemmas say of them.  Escaped texts,  *)
(* characters as they are, those that may have an entity, and its name.    *)
Shown == Seq(Nat)
Plain == 0 .. 1000
Coded == 1 .. 255
Name(c) == 1000 + c
Then(s, x) == Append(s, x)
One(x) == <<x>>
None == <<>>

LEMMA DisplayedGlyphs ==
  ASSUME NEW shown
  PROVE  Displayed(shown) = FlattenSeq(Glyphs(shown))
  BY DEF Displayed, Glyphs, Glyph, EntityAt

LEMMA GlyphsType ==
  ASSUME NEW shown \in Seq(Nat)
  PROVE  Glyphs(shown) \in Seq(Seq(Nat))
<1>1. Len(shown) \in Nat /\ Glyphs(shown) = [i \in 1 .. Len(shown) |-> Glyph(shown, i)]
  BY DEF Glyphs
<1>2. ASSUME NEW i \in 1 .. Len(shown)
      PROVE  Glyph(shown, i) \in Seq(Nat)
  <2>1. shown[i] \in Nat /\ <<shown[i]>> \in Seq(Nat) /\ <<>> \in Seq(Nat)
    BY <1>2
  <2>2. EntityAt(shown, i) => <<shown[i + 1] - 1000>> \in Seq(Nat)
    <3>1. EntityAt(shown, i) => shown[i + 1] \in Nat /\ shown[i + 1] > 1000
      BY <1>1, <1>2 DEF EntityAt
    <3> QED
      BY <3>1
  <2> QED
    BY <2>1, <2>2, Zenon DEF Glyph
<1> QED
  BY <1>1, <1>2

LEMMA DisplayedType ==
  ASSUME NEW shown \in Seq(Nat)
  PROVE  Displayed(shown) \in Seq(Nat)
<1>1. Glyphs(shown) \in Seq(Seq(Nat)) /\ <<>> \in Seq(Nat)
  BY GlyphsType
<1>2. FlattenSeq(Glyphs(shown)) \in Seq(Nat)
  BY ONLY <1>1, FlattenAppend
<1> QED
  BY <1>2, DisplayedGlyphs

(* A character that is not the name of an entity changes nothing before it. *)
LEMMA GlyphsAppend ==
  ASSUME NEW shown, NEW x, shown \in Shown, x \in Plain
  PROVE  Glyphs(Then(shown, x)) = Then(Glyphs(shown), One(x))
<1> DEFINE n == Len(shown)
           more == Then(shown, x)
           w == One(x)
<1>1. /\ n \in Nat /\ DOMAIN shown = 1 .. n /\ DOMAIN more = 1 .. n + 1 /\ Len(more) = n + 1
      /\ more[n + 1] = x /\ \A i \in 1 .. n : more[i] = shown[i]
  BY DEF Then, Shown, Plain
<1>a. ~(x > 1000) /\ ~(n < n) /\ ~(n + 1 < n + 1)
  BY <1>1 DEF Plain
<1> HIDE DEF more
<1>4. ~EntityAt(more, n) /\ ~EntityAt(shown, n)
  BY <1>1, <1>a DEF EntityAt
<1> HIDE DEF n
<1>2. \A i \in 1 .. n : EntityAt(more, i) <=> EntityAt(shown, i)
  <2> SUFFICES ASSUME NEW i \in 1 .. n PROVE EntityAt(more, i) <=> EntityAt(shown, i)
    OBVIOUS
  <2>1. CASE i < n
    <3>1. i + 1 \in 1 .. n /\ i < n + 1
      BY <1>1, <2>1
    <3> QED
      BY <1>1, <2>1, <3>1 DEF EntityAt, n
  <2>2. CASE i = n
    BY <1>4, <2>2
  <2>3. i < n \/ i = n
    BY <1>1
  <2> QED
    BY ONLY <2>1, <2>2, <2>3
<1>3. ~EntityAt(more, n + 1)
  BY <1>1 DEF EntityAt
<1>5. Glyph(more, n + 1) = w
  BY <1>1, <1>3, <1>4 DEF Glyph, One
<1> HIDE DEF w
<1>6. ASSUME NEW i \in 1 .. n
      PROVE  Glyph(more, i) = Glyph(shown, i)
  <2>1. EntityAt(more, i) <=> EntityAt(shown, i)
    BY <1>2
  <2>2. i > 1 => (EntityAt(more, i - 1) <=> EntityAt(shown, i - 1))
    <3>1. i > 1 => i - 1 \in 1 .. n
      BY <1>1, <1>6
    <3> QED
      BY <1>2, <3>1
  <2>3. more[i] = shown[i]
    BY <1>1
  <2>4. EntityAt(shown, i) => more[i + 1] = shown[i + 1]
    <3>1. EntityAt(shown, i) => i + 1 \in 1 .. n
      BY <1>1 DEF EntityAt, n
    <3> QED
      BY <1>1, <3>1
  <2> QED
    BY <2>1, <2>2, <2>3, <2>4 DEF Glyph
<1> DEFINE p == Glyphs(shown)
           q == Glyphs(more)
           r == Then(p, w)
<1>7. p = [i \in 1 .. n |-> Glyph(shown, i)] /\ q = [i \in 1 .. n + 1 |-> Glyph(more, i)]
  BY <1>1 DEF Glyphs
<1> HIDE DEF p, q
<1>8. r = [i \in 1 .. n + 1 |-> IF i <= n THEN p[i] ELSE w]
  BY <1>1, <1>7 DEF Then
<1>9. ASSUME NEW i \in 1 .. n + 1
      PROVE  q[i] = IF i <= n THEN p[i] ELSE w
  <2>1. i \in 1 .. n \/ (i = n + 1 /\ ~(i <= n))
    BY <1>1
  <2>2. q[i] = Glyph(more, i)
    BY <1>7
  <2> QED
    BY <1>1, <1>5, <1>6, <1>7, <2>1, <2>2
<1> HIDE DEF r
<1>10. q = r
  BY ONLY <1>7, <1>8, <1>9
<1> QED
  BY ONLY <1>10 DEF p, q, r, w, more

(* An entity is shown as the character it stands for. *)
LEMMA GlyphsEntity ==
  ASSUME NEW shown, NEW c, shown \in Shown, c \in Coded
  PROVE  Glyphs(Then(Then(shown, AMP), Name(c))) = Then(Then(Glyphs(shown), One(c)), None)
<1> DEFINE n == Len(shown)
           more == Then(Then(shown, AMP), Name(c))
           one == One(c)
           none == None
<1>1. /\ n \in Nat /\ DOMAIN shown = 1 .. n /\ DOMAIN more = 1 .. n + 2 /\ Len(more) = n + 2
      /\ more[n + 1] = AMP /\ more[n + 2] = 1000 + c /\ \A i \in 1 .. n : more[i] = shown[i]
  BY DEF AMP, Then, Shown, Coded, Name
<1>2. /\ ~(AMP > 1000) /\ AMP # 1000 + c /\ 1000 + c > 1000 /\ (1000 + c) - 1000 = c
      /\ ~(n < n) /\ ~(n + 2 < n + 2) /\ n + 1 < n + 2 /\ n + 1 + 1 = n + 2 /\ n + 2 - 1 = n + 1
      /\ n + 2 > 1
  BY <1>1 DEF AMP, Coded
<1> HIDE DEF more
<1>3. ~EntityAt(more, n) /\ ~EntityAt(shown, n)
  BY <1>1, <1>2 DEF EntityAt
<1>4. EntityAt(more, n + 1) /\ ~EntityAt(more, n + 2)
  BY <1>1, <1>2 DEF EntityAt
<1>5. Glyph(more, n + 1) = one
  BY <1>1, <1>2, <1>4 DEF Glyph, One
<1>6. Glyph(more, n + 2) = none
  BY <1>1, <1>2, <1>4 DEF Glyph, None
<1> HIDE DEF one, none
<1> HIDE DEF n
<1>7. \A i \in 1 .. n : EntityAt(more, i) <=> EntityAt(shown, i)
  <2> SUFFICES ASSUME NEW i \in 1 .. n PROVE EntityAt(more, i) <=> EntityAt(shown, i)
    OBVIOUS
  <2>1. CASE i < n
    <3>1. i + 1 \in 1 .. n /\ i < n + 2
      BY <1>1, <2>1
    <3> QED
      BY <1>1, <2>1, <3>1 DEF EntityAt, n
  <2>2. CASE i = n
    BY <1>3, <2>2
  <2>3. i < n \/ i = n
    BY <1>1
  <2> QED
    BY ONLY <2>1, <2>2, <2>3
<1>8. ASSUME NEW i \in 1 .. n
      PROVE  Glyph(more, i) = Glyph(shown, i)
  <2>1. EntityAt(more, i) <=> EntityAt(shown, i)
    BY <1>7
  <2>2. i > 1 => (EntityAt(more, i - 1) <=> EntityAt(shown, i - 1))
    <3>1. i > 1 => i - 1 \in 1 .. n
      BY <1>1, <1>8
    <3> QED
      BY <1>7, <3>1
  <2>3. more[i] = shown[i]
    BY <1>1
  <2>4. EntityAt(shown, i) => more[i + 1] = shown[i + 1]
    <3>1. EntityAt(shown, i) => i + 1 \in 1 .. n
      BY <1>1 DEF EntityAt, n
    <3> QED
      BY <1>1, <3>1
  <2> QED
    BY <2>1, <2>2, <2>3, <2>4 DEF Glyph
<1> DEFINE p == Glyphs(shown)
           q == Glyphs(more)
           r == Then(Then(p, one), none)
           A(i) == IF i <= n THEN p[i] ELSE IF i = n + 1 THEN one ELSE none
<1>9. p = [i \in 1 .. n |-> Glyph(shown, i)] /\ q = [i \in 1 .. n + 2 |-> Glyph(more, i)]
  BY <1>1 DEF Glyphs
<1> HIDE DEF p, q
<1>10. r = [i \in 1 .. n + 2 |-> A(i)]
  BY <1>1, <1>9 DEF Then
<1>11. ASSUME NEW i \in 1 .. n + 2
      PROVE  q[i] = A(i)
  <2>1. \/ i \in 1 .. n /\ i <= n
        \/ i = n + 1 /\ ~(i <= n)
        \/ i = n + 2 /\ ~(i <= n) /\ i # n + 1
    BY <1>1
  <2>2. q[i] = Glyph(more, i)
    BY <1>9
  <2> QED
    BY <1>1, <1>5, <1>6, <1>8, <1>9, <2>1, <2>2
<1> HIDE DEF r
<1>12. q = r
  BY ONLY <1>9, <1>10, <1>11
<1> QED
  BY ONLY <1>12 DEF p, q, r, one, none, more

LEMMA FlattenSnoc ==
  ASSUME NEW V, NEW seqs, NEW s, seqs \in Seq(Seq(V)), s \in Seq(V)
  PROVE  FlattenSeq(Then(seqs, s)) = FlattenSeq(seqs) \o s
  BY FlattenAppend DEF Then

LEMMA DisplayedOther ==
  ASSUME NEW shown, NEW x, shown \in Shown, x \in Plain
  PROVE  Displayed(Then(shown, x)) = Then(Displayed(shown), x)
<1> DEFINE p == Glyphs(shown)
           d == Displayed(shown)
           w == One(x)
<1>1. p \in Seq(Seq(Nat)) /\ w \in Seq(Nat)
  BY GlyphsType DEF One, Shown, Plain
<1>2. d \in Seq(Nat)
  BY DisplayedType DEF Shown
<1>3. d \o w = Then(d, x)
  BY <1>2 DEF Then, One, Plain
<1>4. Displayed(Then(shown, x)) = FlattenSeq(Then(p, w)) /\ d = FlattenSeq(p)
  <2>1. Glyphs(Then(shown, x)) = Then(p, w)
    BY GlyphsAppend
  <2>2. \A t : Displayed(t) = FlattenSeq(Glyphs(t))
    BY ONLY DisplayedGlyphs
  <2> QED
    BY ONLY <2>1, <2>2
<1> HIDE DEF p, d, w
<1>5. FlattenSeq(Then(p, w)) = FlattenSeq(p) \o w
  BY ONLY <1>1, FlattenSnoc
<1> QED
  BY <1>3, <1>4, <1>5 DEF d

LEMMA DisplayedEntity ==
  ASSUME NEW shown, NEW c, shown \in Shown, c \in Coded
  PROVE  Displayed(Then(Then(shown, AMP), Name(c))) = Then(Displayed(shown), c)
<1> DEFINE p == Glyphs(shown)
           d == Displayed(shown)
           one == One(c)
           none == None
           e == Then(p, one)
<1>1. p \in Seq(Seq(Nat)) /\ one \in Seq(Nat) /\ none \in Seq(Nat)
  BY GlyphsType DEF One, None, Shown, Coded
<1>2. d \in Seq(Nat)
  BY DisplayedType DEF Shown
<1>5. d \o one = Then(d, c) /\ Then(d, c) \in Seq(Nat) /\ Then(d, c) \o none = Then(d, c)
  BY <1>2 DEF Then, One, None, Coded
<1>3. Displayed(Then(Then(shown, AMP), Name(c))) = FlattenSeq(Then(e, none)) /\ d = FlattenSeq(p)
  <2>1. Glyphs(Then(Then(shown, AMP), Name(c))) = Then(e, none)
    BY GlyphsEntity
  <2>2. \A t : Displayed(t) = FlattenSeq(Glyphs(t))
    BY ONLY DisplayedGlyphs
  <2> HIDE DEF e
  <2> QED
    BY ONLY <2>1, <2>2
<1> HIDE DEF p, d, one, none
<1>4. FlattenSeq(e) = FlattenSeq(p) \o one
  BY ONLY <1>1, FlattenSnoc
<1>6. e \in Seq(Seq(Nat))
  BY <1>1 DEF Then
<1> HIDE DEF e
<1>7. FlattenSeq(Then(e, none)) = FlattenSeq(e) \o none
  BY ONLY <1>1, <1>6, FlattenSnoc
<1>8. FlattenSeq(e) = Then(d, c)
  BY ONLY <1>3, <1>4, <1>5
<1>9. Displayed(Then(Then(shown, AMP), Name(c))) = Then(d, c)
  BY ONLY <1>3, <1>5, <1>7, <1>8
<1> QED
  BY <1>9 DEF d

(* A browser shows an escaped text as it was, and takes no character of it *)
(* for markup.                                                             *)
LEMMA EscapedShows ==
  ASSUME NEW text \in Seq(0 .. 255)
  PROVE  /\ HtmlEscape(text) \in Seq(Nat)
         /\ Displayed(HtmlEscape(text)) = text
         /\ \A c \in {LT, GT, QUOT, APOS} : \A i \in DOMAIN HtmlEscape(text) : HtmlEscape(text)[i] # c
<1> DEFINE Clean(s) == \A c \in {LT, GT, QUOT, APOS} : \A i \in DOMAIN s : s[i] # c
           T == {t \in Seq(0 .. 255) : /\ HtmlEscape(t) \in Seq(Nat)
                                       /\ Displayed(HtmlEscape(t)) = t
                                       /\ Clean(HtmlEscape(t))}
<1>1. <<>> \in T
  <2>1. \A c \in Nat : Replace(<<>>, c) = <<>>
    BY FlattenEmpty DEF Replace
  <2>2. HtmlEscape(<<>>) = <<>>
    BY <2>1 DEF HtmlEscape, AMP, LT, GT, QUOT, APOS
  <2>3. Glyphs(<<>>) = <<>>
    BY DEF Glyphs
  <2>4. Displayed(<<>>) = <<>>
    BY <2>3, FlattenEmpty, DisplayedGlyphs
  <2>5. Clean(<<>>)
    OBVIOUS
  <2>6. <<>> \in Seq(0 .. 255) /\ <<>> \in Seq(Nat)
    OBVIOUS
  <2> HIDE DEF Clean
  <2> QED
    BY <2>2, <2>4, <2>5, <2>6, Zenon
<1>2. ASSUME NEW t, NEW x, t \in Seq(0 .. 255), x \in 0 .. 255, t \in T
      PROVE  Append(t, x) \in T
  <2> DEFINE h == HtmlEscape(t)
             more == Append(t, x)
             g == HtmlEscape(more)
  <2>1. h \in Seq(Nat) /\ Displayed(h) = t /\ Clean(h)
    BY <1>2
  <2>2. g = Appended(h, x)
    <3>1. t \in Seq(Nat)
      <4> DEFINE B == 0 .. 255
      <4>1. t \in Seq(B) /\ B \subseteq Nat
        BY <1>2
      <4> HIDE DEF B
      <4> QED
        BY ONLY <4>1, SeqMonotonic
    <3> QED
      BY <1>2, <3>1, EscapeAppend
  <2>3. more \in Seq(0 .. 255)
    BY <1>2
  <2> HIDE DEF h, g
  <2>4. CASE x \in Special
    <3>1. g = Append(Append(h, AMP), 1000 + x)
      BY <2>2, <2>4 DEF Appended
    <3>2. x \in 1 .. 255 /\ AMP \in Nat /\ 1000 + x \in Nat
      BY <1>2, <2>4 DEF Special, AMP, LT, GT, QUOT, APOS
    <3>3. Displayed(g) = more
      <4>1. g = Then(Then(h, AMP), Name(x)) /\ more = Then(t, x)
        BY <3>1 DEF Then, Name
      <4>2. Displayed(Then(Then(h, AMP), Name(x))) = Then(Displayed(h), x)
        <5>1. h \in Shown /\ x \in Coded
          BY <2>1, <3>2 DEF Shown, Coded
        <5> HIDE DEF Clean, T, more
        <5> QED
          BY ONLY <5>1, DisplayedEntity
      <4> HIDE DEF Clean, T, more
      <4> QED
        BY ONLY <2>1, <4>1, <4>2
    <3>4. g \in Seq(Nat)
      BY <2>1, <3>1, <3>2
    <3>5. Clean(g)
      <4>1. \A c \in {LT, GT, QUOT, APOS} : AMP # c /\ 1000 + x # c
        BY <3>2 DEF AMP, LT, GT, QUOT, APOS
      <4>2. \A i \in DOMAIN g : g[i] \in {AMP, 1000 + x} \/ (i \in DOMAIN h /\ g[i] = h[i])
        <5> DEFINE v == 1000 + x
        <5>1. v \in Nat
          BY <3>2
        <5> HIDE DEF v
        <5>2. \A i \in DOMAIN Append(Append(h, AMP), v) :
                \/ Append(Append(h, AMP), v)[i] \in {AMP, v}
                \/ i \in DOMAIN h /\ Append(Append(h, AMP), v)[i] = h[i]
          BY <2>1, <3>2, <5>1
        <5> QED
          BY ONLY <3>1, <5>2 DEF v
      <4> QED
        BY <2>1, <4>1, <4>2
    <3> HIDE DEF Clean
    <3> QED
      BY <2>3, <3>3, <3>4, <3>5 DEF g
  <2>5. CASE x \notin Special
    <3>1. g = Append(h, x)
      BY <2>2, <2>5 DEF Appended
    <3>2. x \in 0 .. 1000 /\ x \in Nat
      BY <1>2
    <3>3. Displayed(g) = more
      <4>1. g = Then(h, x) /\ more = Then(t, x)
        BY <3>1 DEF Then
      <4>2. Displayed(Then(h, x)) = Then(Displayed(h), x)
        <5>1. h \in Shown /\ x \in Plain
          BY <2>1, <3>2 DEF Shown, Plain
        <5> HIDE DEF Clean, T, more
        <5> QED
          BY ONLY <5>1, DisplayedOther
      <4> HIDE DEF Clean, T, more
      <4> QED
        BY ONLY <2>1, <4>1, <4>2
    <3>4. g \in Seq(Nat)
      BY <2>1, <3>1, <3>2
    <3>5. Clean(g)
      <4>1. \A c \in {LT, GT, QUOT, APOS} : x # c
        BY <2>5 DEF Special
      <4>2. \A i \in DOMAIN g : g[i] = x \/ (i \in DOMAIN h /\ g[i] = h[i])
        BY <2>1, <3>1, <3>2
      <4> QED
        BY <2>1, <4>1, <4>2
    <3> HIDE DEF Clean
    <3> QED
      BY <2>3, <3>3, <3>4, <3>5 DEF g
  <2> QED
    BY <2>4, <2>5
<1> HIDE DEF T
<1>3. Seq(0 .. 255) \subseteq T
  BY <1>1, <1>2, SeqSetInduction
<1>4. text \in T
  BY <1>3
<1> QED
  BY <1>4 DEF T

-----------------------------------------------------------------------------
(* What a card shows.                                                      *)

(* A file that is taken for an image has the type of one. *)
LEMMA ImageHasMime ==
  ASSUME NEW data \in Seq(0 .. 255), IsImage(data)
  PROVE  DetectImageMime(data) # "octet-stream"
<1>1. \/ IsPrefix(PNG, data) \/ IsPrefix(JPEG, data) \/ IsPrefix(GIF, data)
      \/ Len(data) > 12 /\ SubSeq(data, 9, 12) = WEBP
  <2>1. ASSUME NEW a \in 0 .. 255, NEW b \in 0 .. 255, NEW c \in 0 .. 255,
               IsPrefix(GIF \o <<a, b, c>>, data)
        PROVE  IsPrefix(GIF, data)
    <3> DEFINE v == GIF \o <<a, b, c>>
    <3>1. v \in Seq(Nat) /\ Len(v) = 6 /\ v[1] = GIF[1] /\ v[2] = GIF[2] /\ v[3] = GIF[3]
      BY DEF GIF
    <3>2. Len(v) <= Len(data) /\ SubSeq(v, 1, Len(v)) = SubSeq(data, 1, Len(v))
      BY <2>1, Zenon DEF IsPrefix
    <3> HIDE DEF v
    <3>3. SubSeq(v, 1, 6) = SubSeq(data, 1, 6) /\ 6 <= Len(data)
      BY <3>1, <3>2
    <3>4. \A i \in 1 .. 6 : SubSeq(v, 1, 6)[i] = v[i] /\ SubSeq(data, 1, 6)[i] = data[i]
      BY <3>1, <3>3
    <3>5. data[1] = GIF[1] /\ data[2] = GIF[2] /\ data[3] = GIF[3]
      <4>1. 1 \in 1 .. 6 /\ 2 \in 1 .. 6 /\ 3 \in 1 .. 6
        OBVIOUS
      <4> QED
        BY <3>1, <3>3, <3>4, <4>1
    <3> DEFINE x == SubSeq(data, 1, 3)
               y == SubSeq(GIF, 1, 3)
    <3>6. x \in Seq(Nat) /\ Len(x) = 3 /\ \A i \in 1 .. 3 : x[i] = data[i]
      <4> DEFINE B == 0 .. 255
      <4>1. data \in Seq(B) /\ 1 \in 1 .. Len(data) /\ 3 \in 1 .. Len(data) /\ B \subseteq Nat
        BY <3>3
      <4> HIDE DEF B
      <4>2. x \in Seq(B) /\ Len(x) = 3 /\ \A i \in 1 .. 3 : x[i] = data[i]
        BY ONLY <4>1 DEF x
      <4> QED
        BY ONLY <4>1, <4>2, SeqMonotonic
    <3>7. y \in Seq(Nat) /\ Len(y) = 3 /\ Len(GIF) = 3 /\ \A i \in 1 .. 3 : y[i] = GIF[i]
      BY DEF GIF
    <3> HIDE DEF x, y
    <3>8. \A i \in 1 .. 3 : x[i] = y[i]
      BY <3>5, <3>6, <3>7
    <3>9. x = y
      BY ONLY <3>6, <3>7, <3>8, SeqEqual
    <3>10. Len(GIF) <= Len(data) /\ Len(GIF) = 3
      BY <3>3, <3>7
    <3> QED
      BY <3>9, <3>10 DEF IsPrefix, x, y
  <2>2. \/ \E magic \in {PNG, JPEG} \cup GIFVersions : IsPrefix(magic, data)
        \/ Len(data) > 12 /\ SubSeq(data, 9, 12) = WEBP
    BY Zenon DEF IsImage
  <2>3. ASSUME NEW magic \in GIFVersions, IsPrefix(magic, data)
        PROVE  IsPrefix(GIF, data)
    <3>1. CASE magic = GIF \o <<56, 55, 97>>
      <4>1. 56 \in 0 .. 255 /\ 55 \in 0 .. 255 /\ 97 \in 0 .. 255
        OBVIOUS
      <4> QED
        BY <2>1, <2>3, <3>1, <4>1, Zenon
    <3>2. CASE magic = GIF \o <<56, 57, 97>>
      <4>1. 56 \in 0 .. 255 /\ 57 \in 0 .. 255 /\ 97 \in 0 .. 255
        OBVIOUS
      <4> QED
        BY <2>1, <2>3, <3>2, <4>1, Zenon
    <3> QED
      BY <2>3, <3>1, <3>2, Zenon DEF GIFVersions
  <2> QED
    BY <2>2, <2>3, Zenon
<1> QED
  BY <1>1 DEF DetectImageMime

(* The beginning of a text is shown. *)
LEMMA PreviewOf ==
  ASSUME NEW data \in Seq(0 .. 255)
  PROVE  /\ Preview(data) \in Seq(0 .. 255)
         /\ \/ Preview(data) = data
            \/ /\ Len(data) > PREVIEW_SIZE
               /\ Preview(data) = SubSeq(data, 1, PREVIEW_SIZE) \o <<46, 46, 46>>
<1> DEFINE B == 0 .. 255
<1>1. data \in Seq(B) /\ 46 \in B
  OBVIOUS
<1> HIDE DEF B
<1>2. CASE Len(data) > PREVIEW_SIZE
  <2>1. SubSeq(data, 1, PREVIEW_SIZE) \in Seq(B)
    BY <1>1, <1>2, RenderingAssumption
  <2>2. <<46, 46, 46>> \in Seq(B)
    BY <1>1
  <2>3. SubSeq(data, 1, PREVIEW_SIZE) \o <<46, 46, 46>> \in Seq(B)
    BY ONLY <2>1, <2>2, ConcatProperties
  <2> QED
    BY <1>2, <2>3 DEF Preview, B
<1>3. CASE ~(Len(data) > PREVIEW_SIZE)
  BY <1>1, <1>3 DEF Preview
<1> QED
  BY <1>2, <1>3

(* What the server puts on a card shows the file. *)
LEMMA RenderedShows ==
  ASSUME NEW data \in Seq(0 .. 255)
  PROVE  Shows(RenderContent(data), data)
<1>1. CASE IsImage(data)
  <2>1. RenderContent(data) = Content("image", DetectImageMime(data), data)
    BY <1>1 DEF RenderContent
  <2> QED
    BY <1>1, <2>1, ImageHasMime DEF Content, Shows
<1>2. CASE ~IsImage(data) /\ IsText(data) /\ IsUtf8(data)
  <2> DEFINE text == Preview(data)
             shown == HtmlEscape(text)
  <2>1. RenderContent(data) = Content("text", "", shown)
    BY <1>2 DEF RenderContent
  <2>2. text \in Seq(0 .. 255)
    BY PreviewOf
  <2>3. \/ text = data
        \/ Len(data) > PREVIEW_SIZE /\ text = SubSeq(data, 1, PREVIEW_SIZE) \o <<46, 46, 46>>
    BY PreviewOf
  <2> HIDE DEF text
  <2>4. /\ Displayed(shown) = text
        /\ \A c \in {LT, GT, QUOT, APOS} : \A i \in DOMAIN shown : shown[i] # c
    BY <2>2, EscapedShows
  <2> HIDE DEF shown
  <2>5. \A c \in {LT, GT, QUOT, APOS} : c \notin ToSet(shown)
    BY <2>4, Zenon DEF ToSet
  <2> DEFINE content == RenderContent(data)
  <2>6. content = [kind |-> "text", mime |-> "", shown |-> shown]
    BY <2>1 DEF Content
  <2> HIDE DEF content
  <2>7. content.kind # "image" /\ content.shown = shown
    BY ONLY <2>6
  <2>8. Shows(content, data)
    BY <2>3, <2>4, <2>5, <2>7, Zenon DEF Shows
  <2> QED
    BY <2>8 DEF content
<1>3. CASE ~(IsImage(data) \/ (IsText(data) /\ IsUtf8(data)))
  <2>1. RenderContent(data) = Binary
    BY <1>3 DEF RenderContent
  <2>2. Binary.kind # "image" /\ Binary.kind # "text"
    BY DEF Binary, Content
  <2> QED
    BY <2>1, <2>2, Zenon DEF Shows
<1> QED
  BY <1>1, <1>2, <1>3

LEMMA UndecodedShows ==
  ASSUME NEW data
  PROVE  Shows(Undecoded, data)
  BY DEF Undecoded, Content, Shows

-----------------------------------------------------------------------------
(* Sorting the cards.                                                      *)

(* The card at i belongs before the one at j; where the one at j belongs. *)
Before(cards, i, j) ==
  \/ cards[i].height > cards[j].height
  \/ cards[i].height = cards[j].height /\ i < j
Place(cards, j) == 1 + Cardinality({i \in DOMAIN cards : Before(cards, i, j)})

LEMMA NewestFirstAt ==
  ASSUME NEW cards
  PROVE  NewestFirst(cards) =
           [k \in DOMAIN cards |-> cards[CHOOSE j \in DOMAIN cards : Place(cards, j) = k]]
  BY DEF NewestFirst, Place, Before

(* Every place is taken by one card, later places by cards that belong     *)
(* later.                                                                  *)
LEMMA Places ==
  ASSUME NEW cards, NEW n \in Nat, DOMAIN cards = 1 .. n,
         \A i \in 1 .. n : cards[i].height \in Nat
  PROVE  /\ \A j \in 1 .. n : Place(cards, j) \in 1 .. n
         /\ \A i, j \in 1 .. n : Before(cards, i, j) => Place(cards, i) < Place(cards, j)
         /\ \A i, j \in 1 .. n : Place(cards, i) = Place(cards, j) => i = j
         /\ \A k \in 1 .. n : \E j \in 1 .. n : Place(cards, j) = k
<1> DEFINE S == 1 .. n
           R(j) == {i \in S : Before(cards, i, j)}
<1>1. IsFiniteSet(S) /\ Cardinality(S) = n
  BY FS_Interval
<1>2. \A i, j \in S : i # j => Before(cards, i, j) \/ Before(cards, j, i)
  BY DEF Before
<1>3. \A i \in S : ~Before(cards, i, i)
  BY DEF Before
<1>4. \A i, j, k \in S : Before(cards, i, j) /\ Before(cards, j, k) => Before(cards, i, k)
  BY DEF Before
<1>5. \A j : Place(cards, j) = 1 + Cardinality(R(j))
  BY DEF Place
<1> HIDE DEF S
<1>6. ASSUME NEW j \in S
      PROVE  IsFiniteSet(R(j)) /\ Cardinality(R(j)) \in Nat
  <2>1. R(j) \in SUBSET S
    OBVIOUS
  <2>2. IsFiniteSet(R(j))
    BY <1>1, <2>1, FS_Subset
  <2> QED
    BY <2>2, FS_CardinalityType
<1>7. ASSUME NEW j \in S
      PROVE  Cardinality(R(j)) < n
  <2>1. R(j) \in SUBSET S /\ R(j) # S
    BY <1>3
  <2>2. Cardinality(R(j)) <= Cardinality(S) /\ Cardinality(S) # Cardinality(R(j))
    BY <1>1, <2>1, FS_Subset
  <2> QED
    BY <1>1, <1>6, <2>2
<1>8. ASSUME NEW i \in S, NEW j \in S, Before(cards, i, j)
      PROVE  Cardinality(R(i)) < Cardinality(R(j))
  <2>1. R(i) \in SUBSET R(j) /\ R(i) # R(j)
    BY <1>3, <1>4, <1>8
  <2>2. Cardinality(R(i)) <= Cardinality(R(j)) /\ Cardinality(R(j)) # Cardinality(R(i))
    BY <1>6, <2>1, FS_Subset
  <2>3. Cardinality(R(i)) \in Nat /\ Cardinality(R(j)) \in Nat
    BY <1>6
  <2> HIDE DEF R
  <2> QED
    BY <2>2, <2>3
<1> HIDE DEF R
<1>9. ASSUME NEW j \in S
      PROVE  Place(cards, j) \in S
  <2>1. Cardinality(R(j)) \in Nat /\ Cardinality(R(j)) < n
    BY <1>6, <1>7
  <2>2. Place(cards, j) \in Nat /\ 1 <= Place(cards, j) /\ Place(cards, j) <= n
    BY ONLY <1>5, <2>1, n \in Nat
  <2> QED
    BY <2>2 DEF S
<1>10. ASSUME NEW i \in S, NEW j \in S, Before(cards, i, j)
       PROVE  Place(cards, i) < Place(cards, j)
  <2>1. Cardinality(R(i)) \in Nat /\ Cardinality(R(j)) \in Nat
    BY <1>6
  <2>2. Cardinality(R(i)) < Cardinality(R(j))
    BY <1>8, <1>10
  <2> QED
    BY ONLY <1>5, <2>1, <2>2
<1> DEFINE place == [j \in S |-> Place(cards, j)]
<1>11. \A i, j \in S : i # j => Place(cards, i) # Place(cards, j)
  BY <1>2, <1>9, <1>10, SMTT(60) DEF S
<1>12. place \in Injection(S, S)
  BY <1>9, <1>11 DEF Injection, IsInjective
<1>13. place \in Surjection(S, S)
  BY <1>1, <1>12, FS_Injection
<1>14. \A k \in S : \E j \in S : Place(cards, j) = k
  BY <1>13 DEF Surjection
<1> QED
  BY <1>9, <1>10, <1>11, <1>14, Zenon DEF S

(* The sorted cards are the cards in another order, the newest first.      *)
LEMMA Sorted ==
  ASSUME NEW cards, NEW n \in Nat, DOMAIN cards = 1 .. n,
         \A i \in 1 .. n : cards[i].height \in Nat
  PROVE  \E p \in [1 .. n -> 1 .. n] :
           /\ \A i, j \in 1 .. n : p[i] = p[j] => i = j
           /\ \A j \in 1 .. n : \E i \in 1 .. n : p[i] = j
           /\ NewestFirst(cards) = [k \in 1 .. n |-> cards[p[k]]]
           /\ \A k \in 1 .. n - 1 : cards[p[k]].height >= cards[p[k + 1]].height
<1> DEFINE p == [k \in DOMAIN cards |-> CHOOSE j \in DOMAIN cards : Place(cards, j) = k]
<1>1. /\ \A j \in 1 .. n : Place(cards, j) \in 1 .. n
      /\ \A i, j \in 1 .. n : Before(cards, i, j) => Place(cards, i) < Place(cards, j)
      /\ \A i, j \in 1 .. n : Place(cards, i) = Place(cards, j) => i = j
      /\ \A k \in 1 .. n : \E j \in 1 .. n : Place(cards, j) = k
  BY Places
<1>2. \A k \in 1 .. n : p[k] \in 1 .. n /\ Place(cards, p[k]) = k
  <2> SUFFICES ASSUME NEW k \in DOMAIN cards
               PROVE  p[k] \in DOMAIN cards /\ Place(cards, p[k]) = k
    OBVIOUS
  <2>1. \E j \in DOMAIN cards : Place(cards, j) = k
    BY <1>1
  <2> QED
    BY <2>1
<1>3. p \in [1 .. n -> 1 .. n]
  BY <1>2
<1>4. NewestFirst(cards) = [k \in 1 .. n |-> cards[p[k]]]
  <2>1. NewestFirst(cards) =
          [k \in DOMAIN cards |-> cards[CHOOSE j \in DOMAIN cards : Place(cards, j) = k]]
    BY NewestFirstAt, Zenon
  <2>2. NewestFirst(cards) = [k \in DOMAIN cards |-> cards[p[k]]]
    BY <2>1
  <2> QED
    BY <2>2
<1> HIDE DEF p
<1>5. \A i, j \in 1 .. n : p[i] = p[j] => i = j
  BY <1>2
<1>6. ASSUME NEW j \in 1 .. n
      PROVE  \E i \in 1 .. n : p[i] = j
  <2> DEFINE i == Place(cards, j)
  <2>1. i \in 1 .. n
    BY <1>1
  <2>2. p[i] \in 1 .. n /\ Place(cards, p[i]) = i
    BY <1>2, <2>1
  <2>3. p[i] = j
    BY <1>1, <2>2
  <2> QED
    BY <2>1, <2>3
<1>7. ASSUME NEW k \in 1 .. n - 1
      PROVE  cards[p[k]].height >= cards[p[k + 1]].height
  <2>1. k \in 1 .. n /\ k + 1 \in 1 .. n /\ k + 1 # k /\ ~(k + 1 < k)
    OBVIOUS
  <2>2. p[k] # p[k + 1] /\ p[k] \in 1 .. n /\ p[k + 1] \in 1 .. n
    BY <1>2, <1>5, <2>1
  <2>3. ~Before(cards, p[k + 1], p[k])
    <3>1. Place(cards, p[k + 1]) = k + 1 /\ Place(cards, p[k]) = k
      BY <1>2, <2>1
    <3>2. Before(cards, p[k + 1], p[k]) => Place(cards, p[k + 1]) < Place(cards, p[k])
      <4>1. \A i, j \in 1 .. n : Before(cards, i, j) => Place(cards, i) < Place(cards, j)
        BY <1>1
      <4> QED
        BY ONLY <2>2, <4>1
    <3> QED
      BY <2>1, <3>1, <3>2
  <2>4. Before(cards, p[k], p[k + 1])
    <3>1. \A i, j \in 1 .. n : i # j => Before(cards, i, j) \/ Before(cards, j, i)
      BY DEF Before
    <3> QED
      BY <2>2, <2>3, <3>1, Zenon
  <2>5. cards[p[k]].height \in Nat /\ cards[p[k + 1]].height \in Nat
    BY <2>2
  <2> QED
    BY <2>4, <2>5 DEF Before
<1> QED
  BY <1>3, <1>4, <1>5, <1>6, <1>7

-----------------------------------------------------------------------------
(* The page of a request: what it says of the table its reader sees, and   *)
(* how far it goes.                                                        *)

Tables == [Tx -> Entry \cup {NoEntry}]
Contents == {RenderContent(data) : data \in Seq(0 .. 255)} \cup {Undecoded}
Cards == [tx : Detected, height : Nat, shiny : BOOLEAN, content : Contents]

(* Card c is that of an entry of table T. *)
CardIn(T, c) == /\ T[c.tx] # NoEntry
                /\ c.height = T[c.tx].height
                /\ c.shiny = T[c.tx].shiny

(* The cards of the entries of T before position pos, one for each. *)
PageOf(cards, T, pos) ==
  /\ \A i \in 1 .. Len(cards) : CardIn(T, cards[i])
  /\ \A i, j \in 1 .. Len(cards) : cards[i].tx = cards[j].tx => i = j
  /\ \A i \in 1 .. Len(cards) : \E k \in 1 .. pos - 1 : cards[i].tx = Keys[k]
  /\ \A k \in 1 .. pos - 1 :
       T[Keys[k]] # NoEntry => \E i \in 1 .. Len(cards) : cards[i].tx = Keys[k]
  /\ Len(cards) < pos

ShownIn(files, cards) == \A i \in 1 .. Len(cards) : Shows(cards[i].content, files[cards[i].tx])

Descending(cards) == \A i \in 1 .. Len(cards) - 1 : cards[i].height >= cards[i + 1].height

LEMMA KeysAre ==
  /\ Len(Keys) \in Nat /\ DOMAIN Keys = 1 .. Len(Keys)
  /\ \A k \in 1 .. Len(Keys) : Keys[k] \in Detected /\ Keys[k] \in Tx
  /\ \A t \in Detected : \E k \in 1 .. Len(Keys) : t = Keys[k]
  /\ \A i, j \in 1 .. Len(Keys) : Keys[i] = Keys[j] => i = j
<1>1. /\ Keys \in Seq(Tx) /\ ToSet(Keys) = Detected
      /\ \A i, j \in DOMAIN Keys : Keys[i] = Keys[j] => i = j
  BY ServerAssumption
<1>2. Len(Keys) \in Nat /\ DOMAIN Keys = 1 .. Len(Keys)
  BY <1>1
<1>3. \A k \in 1 .. Len(Keys) : Keys[k] \in Detected /\ Keys[k] \in Tx
  BY <1>1, <1>2 DEF ToSet
<1>4. \A t \in Detected : \E k \in 1 .. Len(Keys) : t = Keys[k]
  BY <1>1, <1>2, Zenon DEF ToSet
<1> QED
  BY <1>1, <1>2, <1>3, <1>4

(* The card of the next entry makes the page go one entry further. *)
LEMMA PageGrows ==
  ASSUME NEW cards, NEW T, NEW pos, NEW i, NEW c,
         cards \in Seq(Cards), pos \in 1 .. Len(Keys) + 1, PageOf(cards, T, pos),
         i \in pos .. Len(Keys), T[Keys[i]] # NoEntry,
         \A l \in pos .. Len(Keys) : T[Keys[l]] # NoEntry => i <= l,
         c \in Cards, c.tx = Keys[i], CardIn(T, c)
  PROVE  PageOf(Append(cards, c), T, i + 1)
<1> DEFINE n == Len(cards)
           more == Append(cards, c)
<1>1. /\ n \in Nat /\ Len(more) = n + 1 /\ more[n + 1] = c
      /\ \A j \in 1 .. n : more[j] = cards[j]
  OBVIOUS
<1>2. /\ pos \in Nat /\ i \in Nat /\ pos <= i /\ (i + 1) - 1 = i /\ n < pos
      /\ i \in 1 .. Len(Keys) /\ \A k \in 1 .. pos - 1 : k \in 1 .. i /\ k \in 1 .. Len(Keys) /\ k # i
      /\ \A k \in 1 .. i : k \in 1 .. pos - 1 \/ k = i \/ (k \in pos .. Len(Keys) /\ ~(i <= k))
  BY KeysAre DEF PageOf
<1> HIDE DEF more, n
<1>3. \A j \in 1 .. n + 1 : (j \in 1 .. n /\ j # n + 1) \/ j = n + 1
  BY <1>1
<1>4. /\ \A j \in 1 .. n : CardIn(T, cards[j])
      /\ \A j, l \in 1 .. n : cards[j].tx = cards[l].tx => j = l
      /\ \A j \in 1 .. n : \E k \in 1 .. pos - 1 : cards[j].tx = Keys[k]
      /\ \A k \in 1 .. pos - 1 :
           T[Keys[k]] # NoEntry => \E j \in 1 .. n : cards[j].tx = Keys[k]
  BY Zenon DEF PageOf, n
<1>5. \A j \in 1 .. n : cards[j].tx # c.tx
  <2> SUFFICES ASSUME NEW j \in 1 .. n PROVE cards[j].tx # c.tx
    OBVIOUS
  <2>1. PICK k \in 1 .. pos - 1 : cards[j].tx = Keys[k]
    BY <1>4
  <2>2. Keys[k] # Keys[i]
    BY <1>2, KeysAre
  <2> QED
    BY <2>1, <2>2
<1>6. \A j \in 1 .. n + 1 : CardIn(T, more[j])
  BY <1>1, <1>3, <1>4
<1>7. \A j, l \in 1 .. n + 1 : more[j].tx = more[l].tx => j = l
  BY <1>1, <1>3, <1>4, <1>5
<1>8. \A j \in 1 .. n + 1 : \E k \in 1 .. i : more[j].tx = Keys[k]
  <2>1. ASSUME NEW j \in 1 .. n
        PROVE  \E k \in 1 .. i : more[j].tx = Keys[k]
    <3>1. PICK k \in 1 .. pos - 1 : cards[j].tx = Keys[k]
      BY <1>4
    <3>2. k \in 1 .. i
      BY <1>2
    <3>3. more[j].tx = Keys[k]
      BY <1>1, <3>1
    <3> QED
      BY <3>2, <3>3
  <2>2. i \in 1 .. i
    BY <1>2
  <2>3. \E k \in 1 .. i : more[n + 1].tx = Keys[k]
    BY <1>1, <2>2
  <2> QED
    BY <1>3, <2>1, <2>3
<1>9. ASSUME NEW k \in 1 .. i, T[Keys[k]] # NoEntry
      PROVE  \E j \in 1 .. n + 1 : more[j].tx = Keys[k]
  <2>1. CASE k \in 1 .. pos - 1
    <3>1. PICK j \in 1 .. n : cards[j].tx = Keys[k]
      BY <1>4, <1>9, <2>1
    <3>2. j \in 1 .. n + 1
      BY <1>1
    <3> QED
      BY <1>1, <3>1, <3>2
  <2>2. CASE k = i
    <3>1. n + 1 \in 1 .. n + 1
      BY <1>1
    <3> QED
      BY <1>1, <2>2, <3>1
  <2>3. CASE k \in pos .. Len(Keys) /\ ~(i <= k)
    BY <1>9, <2>3
  <2> QED
    BY <1>2, <2>1, <2>2, <2>3
<1>10. n + 1 < i + 1
  BY <1>1, <1>2
<1>11. Len(more) = n + 1 /\ (i + 1) - 1 = i
  BY <1>1, <1>2
<1>12. \A k \in 1 .. i : T[Keys[k]] # NoEntry => \E j \in 1 .. n + 1 : more[j].tx = Keys[k]
  BY <1>9
<1>13. PageOf(more, T, i + 1)
  BY ONLY <1>11, <1>6, <1>7, <1>8, <1>12, <1>10 DEF PageOf
<1> QED
  BY <1>13 DEF more

(* Sorting changes the order of the cards, and nothing else. *)
LEMMA PageSorted ==
  ASSUME NEW files, NEW cards, NEW T, NEW pos,
         cards \in Seq(Cards), PageOf(cards, T, pos), ShownIn(files, cards)
  PROVE  /\ NewestFirst(cards) \in Seq(Cards) /\ PageOf(NewestFirst(cards), T, pos)
         /\ ShownIn(files, NewestFirst(cards)) /\ Descending(NewestFirst(cards))
<1> DEFINE n == Len(cards)
           S == 1 .. n
           sorted == NewestFirst(cards)
<1>1. n \in Nat /\ DOMAIN cards = 1 .. n /\ \A i \in S : cards[i] \in Cards
  OBVIOUS
<1>2. \A i \in 1 .. n : cards[i].height \in Nat
  BY <1>1 DEF Cards
<1>3. PICK p \in [1 .. n -> 1 .. n] :
        /\ \A i, j \in 1 .. n : p[i] = p[j] => i = j
        /\ \A j \in 1 .. n : \E i \in 1 .. n : p[i] = j
        /\ NewestFirst(cards) = [k \in 1 .. n |-> cards[p[k]]]
        /\ \A k \in 1 .. n - 1 : cards[p[k]].height >= cards[p[k + 1]].height
  BY <1>1, <1>2, Sorted
<1>4. \A k \in S : p[k] \in S /\ sorted[k] = cards[p[k]]
  BY <1>3
<1>5. sorted \in Seq(Cards) /\ Len(sorted) = n
  BY <1>1, <1>3, <1>4
<1>6. \A k \in 1 .. n - 1 : k \in S /\ k + 1 \in S
  BY <1>1
<1>7. \A k \in 1 .. n - 1 : sorted[k].height >= sorted[k + 1].height
  <2> SUFFICES ASSUME NEW k \in 1 .. n - 1
               PROVE  sorted[k].height >= sorted[k + 1].height
    OBVIOUS
  <2>1. sorted[k] = cards[p[k]] /\ sorted[k + 1] = cards[p[k + 1]]
    BY <1>4, <1>6
  <2> QED
    BY <1>3, <2>1
<1> HIDE DEF sorted
<1>8. ShownIn(files, sorted)
  BY <1>4, <1>5 DEF ShownIn
<1>9. PageOf(sorted, T, pos)
  <2>1. /\ \A i \in S : CardIn(T, cards[i])
        /\ \A i, j \in S : cards[i].tx = cards[j].tx => i = j
        /\ \A i \in S : \E k \in 1 .. pos - 1 : cards[i].tx = Keys[k]
        /\ \A k \in 1 .. pos - 1 :
             T[Keys[k]] # NoEntry => \E i \in S : cards[i].tx = Keys[k]
        /\ Len(cards) < pos
    BY Zenon DEF PageOf
  <2> HIDE DEF S
  <2>2. \A i \in S : CardIn(T, sorted[i])
    BY <1>4, <2>1
  <2>3. \A i, j \in S : sorted[i].tx = sorted[j].tx => i = j
    <3> SUFFICES ASSUME NEW i \in S, NEW j \in S, sorted[i].tx = sorted[j].tx
                 PROVE  i = j
      OBVIOUS
    <3>1. p[i] \in S /\ p[j] \in S /\ sorted[i] = cards[p[i]] /\ sorted[j] = cards[p[j]]
      BY <1>4
    <3>2. p[i] = p[j]
      BY <2>1, <3>1
    <3>3. \A k, l \in S : p[k] = p[l] => k = l
      BY <1>3 DEF S
    <3> QED
      BY <3>2, <3>3
  <2>4. \A i \in S : \E k \in 1 .. pos - 1 : sorted[i].tx = Keys[k]
    BY <1>4, <2>1
  <2>5. ASSUME NEW k \in 1 .. pos - 1, T[Keys[k]] # NoEntry
        PROVE  \E i \in S : sorted[i].tx = Keys[k]
    <3>1. PICK j \in S : cards[j].tx = Keys[k]
      BY <2>1, <2>5
    <3>2. PICK i \in S : p[i] = j
      BY <1>3 DEF S
    <3> QED
      BY <1>4, <3>1, <3>2
  <2> QED
    BY <1>5, <2>1, <2>2, <2>3, <2>4, <2>5 DEF PageOf, S
<1> QED
  BY <1>5, <1>7, <1>8, <1>9 DEF sorted, Descending

-----------------------------------------------------------------------------
(* The index behind the server.                                            *)

(* Only detected transactions have an entry. *)
TableOK(T) == T \in Tables /\ \A t \in Tx : T[t] # NoEntry => t \in Detected

(* What the index says is true: everything in a block up to the last one   *)
(* is accounted for.                                                       *)
IndexInv ==
  /\ NodeTypeOK
  /\ OnceOnly
  /\ TableOK(table)
  /\ lastBlock \in 0 .. Len(chain)
  /\ \A h \in (1 .. lastBlock) \ passedOver : Covered(h)

(* No entry is ever taken away. *)
EntriesStay == \A t \in Tx : table[t] # NoEntry => table'[t] # NoEntry

LEMMA IndexInit == CatalogueInit => IndexInv
<1> SUFFICES ASSUME CatalogueInit PROVE IndexInv
  OBVIOUS
<1>1. NodeTypeOK /\ OnceOnly
  BY InitLedger DEF CatalogueInit, Ledger
<1>2. table = [t \in Tx |-> NoEntry] /\ lastBlock = 0
  BY DEF CatalogueInit
<1>3. chain \in Seq(Block)
  BY <1>1 DEF NodeTypeOK
<1>4. lastBlock \in 0 .. Len(chain) /\ 1 .. lastBlock = {}
  BY <1>2, <1>3
<1>5. TableOK(table)
  BY <1>2 DEF TableOK, Tables
<1> QED
  BY <1>1, <1>4, <1>5 DEF IndexInv

(* What is covered stays so while entries are added, transactions given up *)
(* or moved, and the chain stays or displaces what it replaces.            *)
LEMMA CoveredStays ==
  ASSUME NodeTypeOK, NEW h \in 1 .. Len(chain), Covered(h), EntriesStay, failed \subseteq failed',
         moved \subseteq moved',
         chain'[h] = chain[h] \/ chain'[h].txs \subseteq moved'
  PROVE  Covered(h)'
<1> QED
  BY CatalogueAssumption DEF Covered, Indexed, EntriesStay

LEMMA FindStep ==
  ASSUME IndexInv, NEW t \in Detected, NEW h \in DOMAIN chain, NEW s \in BOOLEAN, Find(t, h, s)
  PROVE  IndexInv' /\ EntriesStay
<1>1. /\ table' = [table EXCEPT ![t] = [height |-> h, shiny |-> s]]
      /\ UNCHANGED <<chain, mempool, reorgs, lastBlock, failed, passedOver, moved>>
  BY DEF Find, nodeVars
<1>2. h \in Nat /\ DOMAIN chain = 1 .. Len(chain) /\ Len(chain) \in Nat
  BY DEF IndexInv, NodeTypeOK
<1>3. t \in Tx /\ [height |-> h, shiny |-> s] \in Entry /\ NoEntry \notin Entry
  BY <1>2, CatalogueAssumption DEF Entry
<1> DEFINE e == [height |-> h, shiny |-> s]
<1>4. table' = [table EXCEPT ![t] = e] /\ e \in Entry /\ e # NoEntry
  BY <1>1, <1>3
<1> HIDE DEF e
<1>5. table \in Tables /\ \A u \in Tx : table[u] # NoEntry => u \in Detected
  BY DEF IndexInv, TableOK
<1>6. table' \in Tables /\ \A u \in Tx : table'[u] = IF u = t THEN e ELSE table[u]
  BY <1>3, <1>4, <1>5 DEF Tables
<1>7. TableOK(table')
  BY <1>5, <1>6 DEF TableOK
<1>8. EntriesStay
  BY <1>4, <1>6 DEF EntriesStay
<1>9. NodeTypeOK /\ OnceOnly /\ lastBlock \in 0 .. Len(chain)
      /\ \A g \in (1 .. lastBlock) \ passedOver : Covered(g)
  BY DEF IndexInv
<1>10. ASSUME NEW g \in (1 .. lastBlock) \ passedOver
       PROVE  Covered(g)'
  <2>1. g \in 1 .. Len(chain) /\ Covered(g)
    BY <1>2, <1>9
  <2> QED
    BY <1>1, <1>8, <1>9, <2>1, CoveredStays
<1>11. NodeTypeOK' /\ OnceOnly' /\ (lastBlock \in 0 .. Len(chain))'
  BY <1>1, <1>9 DEF NodeTypeOK, OnceOnly
<1> QED
  BY <1>1, <1>7, <1>8, <1>10, <1>11 DEF IndexInv

LEMMA GiveUpStep ==
  ASSUME IndexInv, NEW t \in Detected, GiveUp(t)
  PROVE  IndexInv' /\ EntriesStay
<1>1. /\ failed \subseteq failed'
      /\ UNCHANGED <<chain, mempool, reorgs, table, lastBlock, passedOver, moved>>
  BY DEF GiveUp, nodeVars
<1>2. /\ NodeTypeOK /\ OnceOnly /\ lastBlock \in 0 .. Len(chain) /\ TableOK(table)
      /\ \A g \in (1 .. lastBlock) \ passedOver : Covered(g)
  BY DEF IndexInv
<1>3. EntriesStay
  BY <1>1 DEF EntriesStay
<1>4. ASSUME NEW g \in (1 .. lastBlock) \ passedOver
      PROVE  Covered(g)'
  <2>1. g \in 1 .. Len(chain) /\ Covered(g)
    BY <1>2 DEF NodeTypeOK
  <2> QED
    BY <1>1, <1>2, <1>3, <2>1, CoveredStays
<1>5. NodeTypeOK' /\ OnceOnly' /\ (lastBlock \in 0 .. Len(chain))' /\ TableOK(table')
  BY <1>1, <1>2 DEF NodeTypeOK, OnceOnly
<1> QED
  BY <1>1, <1>3, <1>4, <1>5 DEF IndexInv

LEMMA ClaimStep ==
  ASSUME IndexInv, NEW h \in 0 .. Len(chain), NEW S, Claim(h, S)
  PROVE  IndexInv' /\ EntriesStay
<1>1. /\ lastBlock' = h /\ passedOver' = S /\ \A g \in (1 .. h) \ S : Covered(g)
      /\ UNCHANGED <<chain, mempool, reorgs, table, failed, moved>>
  BY DEF Claim, nodeVars
<1>2. NodeTypeOK /\ OnceOnly /\ TableOK(table)
  BY DEF IndexInv
<1>3. EntriesStay
  BY <1>1 DEF EntriesStay
<1>4. \A g \in (1 .. h) \ S : Covered(g)'
  BY <1>1 DEF Covered, Indexed
<1>5. NodeTypeOK' /\ OnceOnly' /\ (lastBlock \in 0 .. Len(chain))' /\ TableOK(table')
  BY <1>1, <1>2 DEF NodeTypeOK, OnceOnly
<1> QED
  BY <1>1, <1>3, <1>4, <1>5 DEF IndexInv

LEMMA DriftStep ==
  ASSUME IndexInv, Drift
  PROVE  IndexInv' /\ EntriesStay
<1>1. /\ NodeNext /\ moved' = moved \cup Displaced
      /\ UNCHANGED <<table, lastBlock, failed, passedOver>>
  BY DEF Drift
<1>2. /\ NodeTypeOK /\ OnceOnly /\ lastBlock \in 0 .. Len(chain) /\ TableOK(table)
      /\ \A g \in (1 .. lastBlock) \ passedOver : Covered(g)
  BY DEF IndexInv
<1>3. EntriesStay
  BY <1>1 DEF EntriesStay
<1>4. NodeTypeOK' /\ Len(chain') \in Nat /\ OnceOnly' /\ BlocksKept
  BY <1>1, <1>2, NodeTypes, NodeKeeps
<1>5. ASSUME NEW g \in (1 .. lastBlock) \ passedOver
      PROVE  Covered(g)'
  <2>1. g \in 1 .. Len(chain) /\ Covered(g)
    BY <1>2 DEF NodeTypeOK
  <2>2. chain'[g] = chain[g] \/ chain[g].txs \cup chain'[g].txs \subseteq Displaced
    BY <1>4, <2>1 DEF BlocksKept
  <2> HIDE DEF Displaced
  <2>3. chain'[g] = chain[g] \/ chain'[g].txs \subseteq moved'
    BY <1>1, <2>2
  <2> QED
    BY <1>1, <1>2, <1>3, <2>1, <2>3, CoveredStays
<1>6. lastBlock' \in 0 .. Len(chain')
  BY <1>1, <1>2, <1>4 DEF BlocksKept, NodeTypeOK
<1> QED
  BY <1>1, <1>2, <1>3, <1>4, <1>5, <1>6 DEF IndexInv

LEMMA IndexStep ==
  ASSUME IndexInv, CatalogueNext
  PROVE  IndexInv' /\ EntriesStay
  BY FindStep, GiveUpStep, ClaimStep, DriftStep DEF CatalogueNext

(* What the index vouches for is in it. *)
LEMMA VouchedIndexed ==
  ASSUME IndexInv
  PROVE  Vouched \subseteq Detected /\ \A t \in Vouched : table[t] # NoEntry
  BY DEF IndexInv, Vouched, Covered, Indexed

-----------------------------------------------------------------------------
(* A page whose reader has come to the end of the table.                   *)

RowOf(c) == [tx |-> c.tx, height |-> c.height, shiny |-> c.shiny]
EntryOf(T, t) == [tx |-> t, height |-> T[t].height, shiny |-> T[t].shiny]

(* Every entry of the table has a card. *)
LEMMA EveryEntryShown ==
  ASSUME NEW cards, NEW T, NEW pos, TableOK(T), pos \in 1 .. Len(Keys) + 1, PageOf(cards, T, pos),
         \A k \in pos .. Len(Keys) : T[Keys[k]] = NoEntry,
         NEW t, t \in Tx, T[t] # NoEntry
  PROVE  \E i \in 1 .. Len(cards) : cards[i].tx = t
<1>1. t \in Detected
  BY DEF TableOK
<1>2. PICK k \in 1 .. Len(Keys) : t = Keys[k]
  BY <1>1, KeysAre
<1>3. k \in 1 .. pos - 1
  <2>1. k \in 1 .. pos - 1 \/ k \in pos .. Len(Keys)
    BY <1>2, KeysAre
  <2> QED
    BY <1>2, <2>1
<1>4. \A l \in 1 .. pos - 1 : T[Keys[l]] # NoEntry => \E i \in 1 .. Len(cards) : cards[i].tx = Keys[l]
  BY ZenonT(60) DEF PageOf
<1> QED
  BY <1>2, <1>3, <1>4

LEMMA PageWhole ==
  ASSUME NEW cards, NEW T, NEW pos, cards \in Seq(Cards), TableOK(T), pos \in 1 .. Len(Keys) + 1,
         PageOf(cards, T, pos), \A k \in pos .. Len(Keys) : T[Keys[k]] = NoEntry
  PROVE  /\ Rows(cards) = EntriesOf(T)
         /\ Len(cards) = Cardinality(Rows(cards))
         /\ \A t \in Tx : T[t] # NoEntry => t \in {c.tx : c \in ToSet(cards)}
<1> DEFINE n == Len(cards)
           S == 1 .. n
           R == {RowOf(cards[i]) : i \in S}
<1>1. n \in Nat /\ DOMAIN cards = S /\ \A i \in S : cards[i] \in Cards
  OBVIOUS
<1>2. \A i \in S : CardIn(T, cards[i])
  BY DEF PageOf
<1>3. \A i, j \in S : cards[i].tx = cards[j].tx => i = j
  BY DEF PageOf
<1>4. \A t \in Tx : T[t] # NoEntry => \E i \in S : cards[i].tx = t
  BY EveryEntryShown
<1>5. IsFiniteSet(S) /\ Cardinality(S) = n
  <2>1. n \in Nat /\ 1 \in Int /\ n \in Int /\ (1 > n => n = 0) /\ n - 1 + 1 = n
    BY <1>1
  <2> HIDE DEF n
  <2>2. IsFiniteSet(1 .. n) /\ Cardinality(1 .. n) = IF 1 > n THEN 0 ELSE n - 1 + 1
    BY ONLY <2>1, FS_Interval
  <2> QED
    BY <2>1, <2>2
<1> HIDE DEF S, n
<1>6. ToSet(cards) = {cards[i] : i \in S}
  BY <1>1 DEF ToSet
<1>7. Rows(cards) = {RowOf(c) : c \in ToSet(cards)}
  BY Zenon DEF Rows, RowOf
<1>8. Rows(cards) = R
  BY <1>6, <1>7
<1>9. EntriesOf(T) = {EntryOf(T, t) : t \in {u \in Tx : T[u] # NoEntry}}
  BY Zenon DEF EntriesOf, EntryOf
<1>10. ASSUME NEW i \in S
       PROVE  /\ cards[i].tx \in {u \in Tx : T[u] # NoEntry}
              /\ RowOf(cards[i]) = EntryOf(T, cards[i].tx)
  <2>1. cards[i].tx \in Tx
    BY <1>1, CatalogueAssumption DEF Cards
  <2> QED
    BY <1>2, <2>1 DEF CardIn, RowOf, EntryOf
<1>11. R \subseteq EntriesOf(T)
  BY <1>9, <1>10
<1>12. EntriesOf(T) \subseteq R
  <2> SUFFICES ASSUME NEW t \in Tx, T[t] # NoEntry PROVE EntryOf(T, t) \in R
    BY <1>9
  <2>1. PICK i \in S : cards[i].tx = t
    BY <1>4
  <2> QED
    BY <1>10, <2>1
<1>13. \A i, j \in S : RowOf(cards[i]) = RowOf(cards[j]) => i = j
  BY <1>3 DEF RowOf
<1>14. Cardinality(R) = n
  <2> DEFINE f == [i \in S |-> RowOf(cards[i])]
  <2>1. f \in Bijection(S, R)
    BY <1>13 DEF Bijection, Injection, Surjection, IsInjective
  <2>2. ExistsBijection(S, R)
    BY <2>1 DEF ExistsBijection
  <2> QED
    BY <1>5, <2>2, FS_Bijection
<1>15. \A t \in Tx : T[t] # NoEntry => t \in {c.tx : c \in ToSet(cards)}
  BY <1>4, <1>6
<1> QED
  BY <1>8, <1>11, <1>12, <1>14, <1>15 DEF n

-----------------------------------------------------------------------------
(* The requests.                                                           *)

(* The inductive invariant of one request, over its values, the table now  *)
(* and the files: its page is                                              *)
(* made of the entries that its reader sees before its position, and what  *)
(* its reader sees is a table of the time since it was made, with          *)
(* everything that was promised.                                           *)
RequestOK(now, files, s, T, pos, cards, tables, due) ==
  /\ s \in States /\ TableOK(T) /\ pos \in 1 .. Len(Keys) + 1 /\ cards \in Seq(Cards)
  /\ tables \subseteq Tables /\ due \subseteq Detected
  /\ PageOf(cards, T, pos) /\ ShownIn(files, cards)
  /\ s \in {"idle", "asked"} => pos = 1 /\ cards = <<>>
  /\ s = "asked" => now \in tables /\ \A t \in due : now[t] # NoEntry
  /\ s \in {"reading", "answered"} => T \in tables /\ \A t \in due : T[t] # NoEntry
  /\ s = "answered" => Descending(cards) /\ \A k \in pos .. Len(Keys) : T[Keys[k]] = NoEntry

RequestsOK ==
  \A r \in Requests :
    RequestOK(table, file, state[r], snapshot[r], position[r], page[r], asked[r], promised[r])

RequestTypes ==
  /\ state \in [Requests -> States]
  /\ snapshot \in [Requests -> Tables]
  /\ position \in [Requests -> 1 .. Len(Keys) + 1]
  /\ page \in [Requests -> Seq(Cards)]
  /\ asked \in [Requests -> SUBSET Tables]
  /\ promised \in [Requests -> SUBSET Detected]

FilesOK == file \in [Detected -> Seq(0 .. 255)]

(* The inductive invariant. *)
ServerInv == IndexInv /\ FilesOK /\ RequestTypes /\ RequestsOK

LEMMA EmptyPage ==
  /\ TableOK(EmptyTable) /\ 1 \in 1 .. Len(Keys) + 1 /\ <<>> \in Seq(Cards)
  /\ \A T, files : PageOf(<<>>, T, 1) /\ ShownIn(files, <<>>)
<1>1. TableOK(EmptyTable)
  BY DEF TableOK, Tables, EmptyTable
<1>2. 1 \in 1 .. Len(Keys) + 1 /\ <<>> \in Seq(Cards)
  BY KeysAre
<1>3. Len(<<>>) = 0 /\ 1 .. 0 = {} /\ 1 - 1 = 0 /\ 0 < 1
  OBVIOUS
<1>4. \A T : PageOf(<<>>, T, 1)
  BY <1>3 DEF PageOf
<1>5. \A files : ShownIn(files, <<>>)
  BY <1>3 DEF ShownIn
<1> QED
  BY <1>1, <1>2, <1>4, <1>5

(* Nothing has happened to a request yet, or it is over. *)
LEMMA IdleOK ==
  ASSUME NEW now, NEW files
  PROVE  RequestOK(now, files, "idle", EmptyTable, 1, <<>>, {}, {})
  BY EmptyPage DEF RequestOK, States

LEMMA ServerInitOK == Init => ServerInv
<1> SUFFICES ASSUME Init PROVE ServerInv
  OBVIOUS
<1>1. IndexInv
  BY IndexInit DEF Init
<1>2. FilesOK
  BY ServerAssumption DEF Init, ServerInit, FilesOK
<1>3. /\ state = [r \in Requests |-> "idle"]
      /\ snapshot = [r \in Requests |-> EmptyTable]
      /\ position = [r \in Requests |-> 1]
      /\ page = [r \in Requests |-> <<>>]
      /\ asked = [r \in Requests |-> {}]
      /\ promised = [r \in Requests |-> {}]
  BY DEF Init, ServerInit
<1>4. EmptyTable \in Tables /\ 1 \in 1 .. Len(Keys) + 1 /\ <<>> \in Seq(Cards) /\ "idle" \in States
  BY EmptyPage DEF TableOK, States
<1> HIDE DEF EmptyTable
<1>5. RequestTypes
  BY <1>3, <1>4 DEF RequestTypes
<1>6. RequestsOK
  BY <1>3, IdleOK DEF RequestsOK
<1> QED
  BY <1>1, <1>2, <1>5, <1>6 DEF ServerInv

(* A step of one request that leaves the index and the files alone. *)
LEMMA OneRequest ==
  ASSUME ServerInv, NEW r \in Requests, NEW s, NEW T, NEW pos, NEW cards, NEW tables, NEW due,
         UNCHANGED <<catalogueVars, file>>,
         state' = [state EXCEPT ![r] = s],
         snapshot' = [snapshot EXCEPT ![r] = T],
         position' = [position EXCEPT ![r] = pos],
         page' = [page EXCEPT ![r] = cards],
         asked' = [asked EXCEPT ![r] = tables],
         promised' = [promised EXCEPT ![r] = due],
         RequestOK(table, file, s, T, pos, cards, tables, due)
  PROVE  ServerInv'
<1>1. IndexInv'
  BY DEF ServerInv, IndexInv, NodeTypeOK, OnceOnly, Covered, Indexed, catalogueVars, nodeVars
<1>2. FilesOK'
  BY DEF ServerInv, FilesOK
<1>3. RequestTypes
  BY DEF ServerInv
<1>4. /\ s \in States /\ T \in Tables /\ pos \in 1 .. Len(Keys) + 1 /\ cards \in Seq(Cards)
      /\ tables \in SUBSET Tables /\ due \in SUBSET Detected
  BY DEF RequestOK, TableOK
<1>5. RequestTypes'
  <2>1. state' \in [Requests -> States] /\ snapshot' \in [Requests -> Tables]
    BY <1>3, <1>4 DEF RequestTypes
  <2>2. position' \in [Requests -> 1 .. Len(Keys) + 1] /\ page' \in [Requests -> Seq(Cards)]
    BY <1>3, <1>4 DEF RequestTypes
  <2>3. asked' \in [Requests -> SUBSET Tables] /\ promised' \in [Requests -> SUBSET Detected]
    BY <1>3, <1>4 DEF RequestTypes
  <2> QED
    BY <2>1, <2>2, <2>3 DEF RequestTypes
<1>6. /\ state'[r] = s /\ snapshot'[r] = T /\ position'[r] = pos /\ page'[r] = cards
      /\ asked'[r] = tables /\ promised'[r] = due
  BY <1>3 DEF RequestTypes
<1>7. \A q \in Requests : q # r =>
        /\ state'[q] = state[q] /\ snapshot'[q] = snapshot[q] /\ position'[q] = position[q]
        /\ page'[q] = page[q] /\ asked'[q] = asked[q] /\ promised'[q] = promised[q]
  BY <1>3 DEF RequestTypes
<1>8. table' = table /\ file' = file
  BY DEF catalogueVars
<1>9. ASSUME NEW q \in Requests
      PROVE  RequestOK(table', file', state'[q], snapshot'[q], position'[q], page'[q], asked'[q],
                       promised'[q])
  <2>1. CASE q = r
    BY <1>6, <1>8, <2>1
  <2>2. CASE q # r
    <3>1. RequestOK(table, file, state[q], snapshot[q], position[q], page[q], asked[q], promised[q])
      BY DEF ServerInv, RequestsOK
    <3> QED
      BY <1>7, <1>8, <2>2, <3>1
  <2> QED
    BY <2>1, <2>2
<1>10. RequestsOK'
  BY <1>9 DEF RequestsOK
<1> QED
  BY <1>1, <1>2, <1>5, <1>10 DEF ServerInv

(* What is known of a request before its step. *)
LEMMA BeforeStep ==
  ASSUME ServerInv, NEW r \in Requests
  PROVE  /\ RequestOK(table, file, state[r], snapshot[r], position[r], page[r], asked[r], promised[r])
         /\ TableOK(table)
         /\ state = [state EXCEPT ![r] = state[r]]
         /\ snapshot = [snapshot EXCEPT ![r] = snapshot[r]]
         /\ position = [position EXCEPT ![r] = position[r]]
         /\ page = [page EXCEPT ![r] = page[r]]
         /\ asked = [asked EXCEPT ![r] = asked[r]]
         /\ promised = [promised EXCEPT ![r] = promised[r]]
<1>1. RequestTypes
  BY DEF ServerInv
<1>2. /\ state = [state EXCEPT ![r] = state[r]]
      /\ snapshot = [snapshot EXCEPT ![r] = snapshot[r]]
      /\ position = [position EXCEPT ![r] = position[r]]
  BY <1>1 DEF RequestTypes
<1>3. /\ page = [page EXCEPT ![r] = page[r]]
      /\ asked = [asked EXCEPT ![r] = asked[r]]
      /\ promised = [promised EXCEPT ![r] = promised[r]]
  BY <1>1 DEF RequestTypes
<1> QED
  BY <1>2, <1>3 DEF ServerInv, RequestsOK, IndexInv

LEMMA AskStep ==
  ASSUME ServerInv, NEW r \in Requests, Ask(r)
  PROVE  ServerInv'
<1> DEFINE T == snapshot[r]
           pos == position[r]
           cards == page[r]
<1>1. /\ RequestOK(table, file, state[r], T, pos, cards, asked[r], promised[r])
      /\ TableOK(table)
      /\ snapshot = [snapshot EXCEPT ![r] = T]
      /\ position = [position EXCEPT ![r] = pos]
      /\ page = [page EXCEPT ![r] = cards]
  BY BeforeStep
<1>2. /\ state[r] = "idle" /\ state' = [state EXCEPT ![r] = "asked"]
      /\ asked' = [asked EXCEPT ![r] = {table}]
      /\ promised' = [promised EXCEPT ![r] = Vouched]
      /\ UNCHANGED <<catalogueVars, file, snapshot, position, page>>
  BY DEF Ask, Becomes
<1>3. Vouched \subseteq Detected /\ \A t \in Vouched : table[t] # NoEntry
  BY VouchedIndexed DEF ServerInv
<1> HIDE DEF T, pos, cards
<1>4. RequestOK(table, file, "asked", T, pos, cards, {table}, Vouched)
  BY <1>1, <1>2, <1>3 DEF RequestOK, States, TableOK
<1>5. /\ snapshot' = [snapshot EXCEPT ![r] = T]
      /\ position' = [position EXCEPT ![r] = pos]
      /\ page' = [page EXCEPT ![r] = cards]
      /\ UNCHANGED <<catalogueVars, file>>
  BY <1>1, <1>2
<1> QED
  BY ONLY ServerInv, <1>2, <1>4, <1>5, OneRequest

LEMMA BeginReadStep ==
  ASSUME ServerInv, NEW r \in Requests, BeginRead(r)
  PROVE  ServerInv'
<1> DEFINE pos == position[r]
           cards == page[r]
           tables == asked[r]
           due == promised[r]
<1>1. /\ RequestOK(table, file, state[r], snapshot[r], pos, cards, tables, due)
      /\ TableOK(table)
      /\ position = [position EXCEPT ![r] = pos]
      /\ page = [page EXCEPT ![r] = cards]
      /\ asked = [asked EXCEPT ![r] = tables]
      /\ promised = [promised EXCEPT ![r] = due]
  BY BeforeStep
<1>2. /\ state[r] = "asked" /\ state' = [state EXCEPT ![r] = "reading"]
      /\ snapshot' = [snapshot EXCEPT ![r] = table]
      /\ UNCHANGED <<catalogueVars, file, position, page, asked, promised>>
  BY DEF BeginRead, Becomes
<1> HIDE DEF pos, cards, tables, due
<1>3. RequestOK(table, file, "reading", table, pos, cards, tables, due)
  <2>1. pos = 1 /\ cards = <<>>
    BY <1>1, <1>2 DEF RequestOK
  <2>2. PageOf(cards, table, pos)
    BY <2>1, EmptyPage
  <2> QED
    BY <1>1, <1>2, <2>2 DEF RequestOK, States
<1>4. /\ UNCHANGED <<catalogueVars, file>>
      /\ state' = [state EXCEPT ![r] = "reading"]
      /\ snapshot' = [snapshot EXCEPT ![r] = table]
      /\ position' = [position EXCEPT ![r] = pos]
      /\ page' = [page EXCEPT ![r] = cards]
      /\ asked' = [asked EXCEPT ![r] = tables]
      /\ promised' = [promised EXCEPT ![r] = due]
  BY <1>1, <1>2
<1> QED
  BY ONLY ServerInv, <1>3, <1>4, OneRequest

LEMMA ReadErrorStep ==
  ASSUME ServerInv, NEW r \in Requests, ReadError(r)
  PROVE  ServerInv'
<1> DEFINE T == snapshot[r]
           pos == position[r]
           cards == page[r]
           tables == asked[r]
           due == promised[r]
<1>1. /\ RequestOK(table, file, state[r], T, pos, cards, tables, due)
      /\ snapshot = [snapshot EXCEPT ![r] = T]
      /\ position = [position EXCEPT ![r] = pos]
      /\ page = [page EXCEPT ![r] = cards]
      /\ asked = [asked EXCEPT ![r] = tables]
      /\ promised = [promised EXCEPT ![r] = due]
  BY BeforeStep
<1>2. /\ state' = [state EXCEPT ![r] = "error"]
      /\ UNCHANGED <<catalogueVars, file, snapshot, position, page, asked, promised>>
  BY DEF ReadError, Becomes
<1> HIDE DEF T, pos, cards, tables, due
<1>3. RequestOK(table, file, "error", T, pos, cards, tables, due)
  BY <1>1 DEF RequestOK, States
<1>4. /\ UNCHANGED <<catalogueVars, file>>
      /\ state' = [state EXCEPT ![r] = "error"]
      /\ snapshot' = [snapshot EXCEPT ![r] = T]
      /\ position' = [position EXCEPT ![r] = pos]
      /\ page' = [page EXCEPT ![r] = cards]
      /\ asked' = [asked EXCEPT ![r] = tables]
      /\ promised' = [promised EXCEPT ![r] = due]
  BY <1>1, <1>2
<1> QED
  BY ONLY ServerInv, <1>3, <1>4, OneRequest

LEMMA AnswerStep ==
  ASSUME ServerInv, NEW r \in Requests, Answer(r)
  PROVE  ServerInv'
<1> DEFINE T == snapshot[r]
           pos == position[r]
           cards == page[r]
           tables == asked[r]
           due == promised[r]
<1>1. /\ RequestOK(table, file, state[r], T, pos, cards, tables, due)
      /\ snapshot = [snapshot EXCEPT ![r] = T]
      /\ position = [position EXCEPT ![r] = pos]
      /\ asked = [asked EXCEPT ![r] = tables]
      /\ promised = [promised EXCEPT ![r] = due]
  BY BeforeStep
<1>2. /\ state[r] = "reading" /\ state' = [state EXCEPT ![r] = "answered"]
      /\ ToRead(r) = {}
      /\ page' = [page EXCEPT ![r] = NewestFirst(cards)]
      /\ UNCHANGED <<catalogueVars, file, snapshot, position, asked, promised>>
  BY DEF Answer, Becomes
<1>3. \A k \in pos .. Len(Keys) : T[Keys[k]] = NoEntry
  BY <1>2 DEF ToRead, Seen
<1> HIDE DEF T, pos, cards, tables, due
<1>4. cards \in Seq(Cards) /\ PageOf(cards, T, pos) /\ ShownIn(file, cards)
  BY <1>1 DEF RequestOK
<1> DEFINE sorted == NewestFirst(cards)
<1>5. /\ sorted \in Seq(Cards) /\ PageOf(sorted, T, pos) /\ ShownIn(file, sorted)
      /\ Descending(sorted)
  BY ONLY <1>4, PageSorted
<1>6. page' = [page EXCEPT ![r] = sorted]
  BY <1>2
<1> HIDE DEF sorted
<1>7. RequestOK(table, file, "answered", T, pos, sorted, tables, due)
  BY <1>1, <1>2, <1>3, <1>5 DEF RequestOK, States
<1>8. /\ UNCHANGED <<catalogueVars, file>>
      /\ state' = [state EXCEPT ![r] = "answered"]
      /\ snapshot' = [snapshot EXCEPT ![r] = T]
      /\ position' = [position EXCEPT ![r] = pos]
      /\ page' = [page EXCEPT ![r] = sorted]
      /\ asked' = [asked EXCEPT ![r] = tables]
      /\ promised' = [promised EXCEPT ![r] = due]
  BY <1>1, <1>2, <1>6
<1> QED
  BY ONLY ServerInv, <1>7, <1>8, OneRequest

LEMMA CloseStep ==
  ASSUME ServerInv, NEW r \in Requests, Close(r)
  PROVE  ServerInv'
<1>1. /\ state' = [state EXCEPT ![r] = "idle"]
      /\ snapshot' = [snapshot EXCEPT ![r] = EmptyTable]
      /\ position' = [position EXCEPT ![r] = 1]
      /\ page' = [page EXCEPT ![r] = <<>>]
      /\ asked' = [asked EXCEPT ![r] = {}]
      /\ promised' = [promised EXCEPT ![r] = {}]
      /\ UNCHANGED <<catalogueVars, file>>
  BY DEF Close, Becomes
<1>2. RequestOK(table, file, "idle", EmptyTable, 1, <<>>, {}, {})
  BY IdleOK
<1> QED
  BY ONLY ServerInv, <1>1, <1>2, OneRequest

(* The index goes on: what was asked for remains, and grows. *)
LEMMA MeanwhileStep ==
  ASSUME ServerInv, Meanwhile
  PROVE  ServerInv'
<1>1. /\ CatalogueNext
      /\ asked' = [r \in Requests |->
                     IF state[r] \in {"asked", "reading"} THEN asked[r] \cup {table'} ELSE asked[r]]
      /\ UNCHANGED <<file, state, snapshot, position, page, promised>>
  BY DEF Meanwhile, requestVars
<1>2. IndexInv /\ FilesOK /\ RequestTypes /\ RequestsOK
  BY DEF ServerInv
<1>3. IndexInv' /\ EntriesStay
  BY <1>1, <1>2, IndexStep
<1>4. table' \in Tables
  BY <1>3 DEF IndexInv, TableOK
<1>5. RequestTypes'
  <2>1. asked' \in [Requests -> SUBSET Tables]
    BY <1>1, <1>2, <1>4 DEF RequestTypes
  <2> QED
    BY <1>1, <1>2, <2>1 DEF RequestTypes
<1>6. ASSUME NEW r \in Requests
      PROVE  RequestOK(table', file', state'[r], snapshot'[r], position'[r], page'[r], asked'[r],
                       promised'[r])
  <2> DEFINE s == state[r]
             T == snapshot[r]
             pos == position[r]
             cards == page[r]
             tables == asked[r]
             more == asked'[r]
             due == promised[r]
  <2>1. RequestOK(table, file, s, T, pos, cards, tables, due)
    BY <1>2 DEF RequestsOK
  <2>2. /\ tables \subseteq more /\ more \subseteq Tables
        /\ s = "asked" => table' \in more
    BY <1>1, <1>5, <2>1 DEF RequestTypes
  <2>3. /\ file' = file /\ state'[r] = s /\ snapshot'[r] = T /\ position'[r] = pos
        /\ page'[r] = cards /\ promised'[r] = due
    BY <1>1
  <2>4. \A t \in Detected : table[t] # NoEntry => table'[t] # NoEntry
    BY <1>3, CatalogueAssumption DEF EntriesStay
  <2> HIDE DEF s, T, pos, cards, tables, more, due
  <2>5. RequestOK(table', file, s, T, pos, cards, more, due)
    BY <2>1, <2>2, <2>4 DEF RequestOK
  <2> QED
    BY <2>3, <2>5 DEF more
<1>7. RequestsOK'
  BY <1>6 DEF RequestsOK
<1> QED
  BY <1>1, <1>2, <1>3, <1>5, <1>7 DEF ServerInv, FilesOK

(* The entry that is read next. *)
NextEntry(r) == CHOOSE k \in ToRead(r) : \A l \in ToRead(r) : k <= l

LEMMA NextEntryIs ==
  ASSUME NEW r, ToRead(r) # {}, position[r] \in 1 .. Len(Keys) + 1
  PROVE  /\ NextEntry(r) \in position[r] .. Len(Keys)
         /\ snapshot[r][Keys[NextEntry(r)]] # NoEntry
         /\ \A l \in position[r] .. Len(Keys) :
              snapshot[r][Keys[l]] # NoEntry => NextEntry(r) <= l
<1> DEFINE S == ToRead(r)
<1>1. S = {k \in position[r] .. Len(Keys) : snapshot[r][Keys[k]] # NoEntry}
  BY Zenon DEF ToRead, Seen
<1>2. S \in SUBSET Nat
  BY <1>1, KeysAre
<1>3. S # {}
  OBVIOUS
<1> HIDE DEF S
<1>4. \E m \in S : \A n \in S : m <= n
  BY ONLY <1>2, <1>3, LeastNat
<1>5. NextEntry(r) \in S /\ \A l \in S : NextEntry(r) <= l
  BY <1>4 DEF NextEntry, S
<1> QED
  BY <1>1, <1>5

LEMMA ReadEntryStep ==
  ASSUME ServerInv, NEW r \in Requests, ReadEntry(r)
  PROVE  ServerInv'
<1> DEFINE T == snapshot[r]
           pos == position[r]
           cards == page[r]
           tables == asked[r]
           due == promised[r]
           i == NextEntry(r)
           t == Keys[i]
           Made(decoded) == Card(r, t, IF decoded THEN RenderContent(file[t]) ELSE Undecoded)
<1>1. /\ RequestOK(table, file, state[r], T, pos, cards, tables, due)
      /\ state = [state EXCEPT ![r] = state[r]]
      /\ snapshot = [snapshot EXCEPT ![r] = T]
      /\ position = [position EXCEPT ![r] = pos]
      /\ page = [page EXCEPT ![r] = cards]
      /\ asked = [asked EXCEPT ![r] = tables]
      /\ promised = [promised EXCEPT ![r] = due]
  BY BeforeStep
<1>2. /\ state[r] = "reading" /\ ToRead(r) # {}
      /\ UNCHANGED <<catalogueVars, file, snapshot, asked, promised>>
  BY DEF ReadEntry
<1>3. PICK decoded \in BOOLEAN :
        IF decoded /\ RenderPanics(file[t])
        THEN state' = [state EXCEPT ![r] = "lost"] /\ UNCHANGED <<position, page>>
        ELSE /\ page' = [page EXCEPT ![r] = Append(@, Made(decoded))]
             /\ position' = [position EXCEPT ![r] = i + 1]
             /\ UNCHANGED state
  BY Zenon DEF ReadEntry, Becomes, NextPosition, NextEntry
<1>4. CASE state' = [state EXCEPT ![r] = "lost"] /\ UNCHANGED <<position, page>>
  <2> HIDE DEF T, pos, cards, tables, due
  <2>1. RequestOK(table, file, "lost", T, pos, cards, tables, due)
    BY <1>1 DEF RequestOK, States
  <2>2. /\ UNCHANGED <<catalogueVars, file>>
        /\ state' = [state EXCEPT ![r] = "lost"]
        /\ snapshot' = [snapshot EXCEPT ![r] = T]
        /\ position' = [position EXCEPT ![r] = pos]
        /\ page' = [page EXCEPT ![r] = cards]
        /\ asked' = [asked EXCEPT ![r] = tables]
        /\ promised' = [promised EXCEPT ![r] = due]
    BY <1>1, <1>2, <1>4
  <2> QED
    BY ONLY ServerInv, <2>1, <2>2, OneRequest
<1>5. CASE /\ page' = [page EXCEPT ![r] = Append(cards, Made(decoded))]
           /\ position' = [position EXCEPT ![r] = i + 1]
           /\ UNCHANGED state
  <2> DEFINE c == Made(decoded)
             more == Append(cards, c)
  <2>1. /\ TableOK(T) /\ pos \in 1 .. Len(Keys) + 1 /\ cards \in Seq(Cards)
        /\ PageOf(cards, T, pos) /\ ShownIn(file, cards)
    BY <1>1, Zenon DEF RequestOK
  <2>2. /\ i \in pos .. Len(Keys) /\ T[t] # NoEntry
        /\ \A l \in pos .. Len(Keys) : T[Keys[l]] # NoEntry => i <= l
    BY <1>2, <2>1, NextEntryIs
  <2>3. i \in 1 .. Len(Keys) /\ i + 1 \in 1 .. Len(Keys) + 1
        /\ (\A k \in i + 1 .. Len(Keys) : k \in pos .. Len(Keys))
    BY <2>1, <2>2, KeysAre
  <2>4. t \in Detected /\ t \in Tx
    BY <2>3, KeysAre
  <2>5. T[t] \in Entry /\ T \in Tables
    BY <2>1, <2>2, <2>4 DEF TableOK, Tables
  <2>6. /\ c.tx = t /\ c.height = T[t].height /\ c.shiny = T[t].shiny
        /\ c.content = IF decoded THEN RenderContent(file[t]) ELSE Undecoded
        /\ c = [tx |-> t, height |-> T[t].height, shiny |-> T[t].shiny,
                content |-> IF decoded THEN RenderContent(file[t]) ELSE Undecoded]
    BY DEF Card, Seen
  <2>7. file[t] \in Seq(0 .. 255)
    BY <2>4 DEF ServerInv, FilesOK
  <2>8. c.content \in Contents
    BY <2>6, <2>7 DEF Contents
  <2>9. T[t].height \in Nat /\ T[t].shiny \in BOOLEAN
    BY <2>5 DEF Entry
  <2> HIDE DEF c, T, t
  <2>10. c \in Cards
    BY <2>4, <2>6, <2>8, <2>9 DEF Cards
  <2>11. Shows(c.content, file[c.tx])
    BY <2>6, <2>7, RenderedShows, UndecodedShows
  <2>12. CardIn(T, c)
    BY <2>2, <2>6 DEF CardIn
  <2> HIDE DEF pos, cards, tables, due, i
  <2>13. PageOf(more, T, i + 1)
    BY <2>1, <2>2, <2>6, <2>10, <2>12, PageGrows DEF t
  <2>14. more \in Seq(Cards)
    BY <2>1, <2>10
  <2>15. ShownIn(file, more)
    BY <2>1, <2>10, <2>11 DEF ShownIn
  <2>16. page' = [page EXCEPT ![r] = more]
    BY <1>5 DEF c
  <2> DEFINE next == i + 1
  <2>17. /\ position' = [position EXCEPT ![r] = next] /\ next \in 1 .. Len(Keys) + 1
         /\ PageOf(more, T, next)
    BY <1>5, <2>3, <2>13
  <2> HIDE DEF more, next
  <2>18. RequestOK(table, file, "reading", T, next, more, tables, due)
    BY <1>1, <1>2, <2>14, <2>15, <2>17 DEF RequestOK, States
  <2>19. /\ UNCHANGED <<catalogueVars, file>>
         /\ state' = [state EXCEPT ![r] = "reading"]
         /\ snapshot' = [snapshot EXCEPT ![r] = T]
         /\ position' = [position EXCEPT ![r] = next]
         /\ page' = [page EXCEPT ![r] = more]
         /\ asked' = [asked EXCEPT ![r] = tables]
         /\ promised' = [promised EXCEPT ![r] = due]
    BY <1>1, <1>2, <1>5, <2>16, <2>17
  <2> QED
    BY ONLY ServerInv, <2>18, <2>19, OneRequest
<1> QED
  BY <1>3, <1>4, <1>5

-----------------------------------------------------------------------------
(* The theorems *)

LEMMA ServerStep ==
  ASSUME ServerInv, [Next]_vars
  PROVE  ServerInv'
<1>1. CASE UNCHANGED vars
  BY <1>1 DEF vars, serverVars, requestVars, catalogueVars, nodeVars, ServerInv, IndexInv, NodeTypeOK,
              OnceOnly, Covered, Indexed, FilesOK, RequestTypes, RequestsOK
<1>2. ASSUME NEW r \in Requests, Ask(r) \/ HandlerStep(r) \/ ReadError(r) \/ Close(r)
      PROVE  ServerInv'
  BY <1>2, AskStep, BeginReadStep, ReadEntryStep, AnswerStep, ReadErrorStep, CloseStep
     DEF HandlerStep
<1>3. CASE Meanwhile
  BY <1>3, MeanwhileStep
<1> QED
  BY <1>1, <1>2, <1>3 DEF Next

LEMMA ServerAlways == Spec => []ServerInv
<1>1. Init => ServerInv
  BY ServerInitOK
<1>2. ServerInv /\ [Next]_vars => ServerInv'
  BY ServerStep
<1> QED
  BY <1>1, <1>2, PTL DEF Spec

(* The types of the server's state: a request is in one of its states, its *)
(* reader sees a table, its position is in the table or behind its end,    *)
(* and its page never has more cards than the table has keys.              *)
THEOREM SpecTypeOK == Spec => []TypeOK
<1>1. ASSUME ServerInv PROVE TypeOK
  <2>1. RequestTypes /\ Len(Keys) \in Nat
    BY <1>1, KeysAre DEF ServerInv
  <2>2. ASSUME NEW r \in Requests
        PROVE  /\ position[r] \in 1 .. Len(Keys) + 1 /\ Len(page[r]) <= Len(Keys)
               /\ promised[r] \subseteq Detected
    <3>1. RequestOK(table, file, state[r], snapshot[r], position[r], page[r], asked[r], promised[r])
      BY <1>1 DEF ServerInv, RequestsOK
    <3>2. position[r] \in 1 .. Len(Keys) + 1 /\ promised[r] \subseteq Detected
      BY <3>1 DEF RequestOK
    <3>3. Len(page[r]) < position[r] /\ page[r] \in Seq(Cards)
      BY <3>1 DEF RequestOK, PageOf
    <3> QED
      BY <2>1, <3>2, <3>3
  <2> QED
    BY <2>1, <2>2 DEF RequestTypes, TypeOK, Tables
<1> QED
  BY <1>1, ServerAlways, PTL

(* What is known of a page that has been answered. *)
LEMMA AnsweredPage ==
  ASSUME ServerInv, NEW r \in Requests, state[r] = "answered"
  PROVE  /\ snapshot[r] \in asked[r]
         /\ Rows(page[r]) = EntriesOf(snapshot[r])
         /\ Len(page[r]) = Cardinality(Rows(page[r]))
         /\ Descending(page[r])
         /\ promised[r] \subseteq {c.tx : c \in ToSet(page[r])}
<1> DEFINE T == snapshot[r]
           pos == position[r]
           cards == page[r]
           due == promised[r]
<1>1. RequestOK(table, file, "answered", T, pos, cards, asked[r], due)
  BY DEF ServerInv, RequestsOK
<1> HIDE DEF T, pos, cards, due
<1>2. /\ cards \in Seq(Cards) /\ TableOK(T) /\ pos \in 1 .. Len(Keys) + 1 /\ PageOf(cards, T, pos)
      /\ \A k \in pos .. Len(Keys) : T[Keys[k]] = NoEntry
      /\ T \in asked[r] /\ Descending(cards)
      /\ due \subseteq Detected /\ \A t \in due : T[t] # NoEntry
  BY <1>1 DEF RequestOK
<1>3. /\ Rows(cards) = EntriesOf(T)
      /\ Len(cards) = Cardinality(Rows(cards))
      /\ \A t \in Tx : T[t] # NoEntry => t \in {c.tx : c \in ToSet(cards)}
  BY <1>2, PageWhole
<1>4. due \subseteq {c.tx : c \in ToSet(cards)}
  BY <1>2, <1>3, CatalogueAssumption
<1> QED
  BY <1>2, <1>3, <1>4 DEF T, cards, due

(* A page that was answered is the index of one moment between the request *)
(* and the answer, all of it and nothing else, each entry once and the     *)
(* newest block first, whatever the indexer and the node did meanwhile.    *)
THEOREM SpecPageIsOneMoment == Spec => []PageIsOneMoment
<1>1. ASSUME ServerInv PROVE PageIsOneMoment
  BY <1>1, AnsweredPage DEF PageIsOneMoment, Descending
<1> QED
  BY <1>1, ServerAlways, PTL

(* A page that was answered has everything on it that the index vouched    *)
(* for when the page was asked for.                                        *)
THEOREM SpecPageIsComplete == Spec => []PageIsComplete
<1>1. ASSUME ServerInv PROVE PageIsComplete
  BY <1>1, AnsweredPage DEF PageIsComplete
<1> QED
  BY <1>1, ServerAlways, PTL

(* Every card shows the file of its transaction: an image under the type   *)
(* of an image, a text or its beginning exactly as it is in the file, with *)
(* no character of it taken for markup - for every file of bytes.          *)
THEOREM SpecCardsShowTheFiles == Spec => []CardsShowTheFiles
<1>1. ASSUME ServerInv PROVE CardsShowTheFiles
  <2> SUFFICES ASSUME NEW r \in Requests, NEW i \in DOMAIN page[r]
               PROVE  Shows(page[r][i].content, file[page[r][i].tx])
    BY DEF CardsShowTheFiles
  <2>1. RequestOK(table, file, state[r], snapshot[r], position[r], page[r], asked[r], promised[r])
    BY <1>1 DEF ServerInv, RequestsOK
  <2>2. page[r] \in Seq(Cards) /\ ShownIn(file, page[r])
    BY <2>1 DEF RequestOK
  <2>3. i \in 1 .. Len(page[r])
    BY <2>2
  <2> QED
    BY <2>2, <2>3, Zenon DEF ShownIn
<1> QED
  BY <1>1, ServerAlways, PTL
=============================================================================
