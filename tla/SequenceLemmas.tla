--------------------------- MODULE SequenceLemmas ---------------------------
(***************************************************************************)
(* Facts about sequences: induction over the numbers and over sequences,   *)
(* for a set of them in place of a formula; the pieces of a sequence,      *)
(* SubSeq with bounds that may leave it empty; and FlattenSeq of the       *)
(* community modules.                                                      *)
(***************************************************************************)
EXTENDS Integers, Sequences, SequencesExt, SequenceTheorems, WellFoundedInduction,
        TLAPS

\* Induction, for the numbers of which something is true taken as a set.
LEMMA SetInduction ==
  ASSUME NEW S, 0 \in S, \A n \in Nat : n \in S => n + 1 \in S
  PROVE  \A n \in Nat : n \in S
<1>. DEFINE R == {ss \in Nat \X Nat : ss[1] < ss[2]}
            T == Nat \ S
<1>. SUFFICES ASSUME T # {}
              PROVE  FALSE
  OBVIOUS
<1>1. IsWellFoundedOn(R, Nat)
  BY NatLessThanWellFounded DEF OpToRel
<1>2. \E x \in T : \A y \in T : ~(<<y, x>> \in R)
  <2>1. T \subseteq Nat
    OBVIOUS
  <2>. HIDE DEF R, T
  <2>. QED  BY <1>1, <2>1, WFMin, Zenon
<1>3. PICK x \in T : \A y \in T : ~(y < x)
  BY <1>2
<1>4. x # 0 /\ x - 1 \in Nat
  OBVIOUS
<1>5. x - 1 \in S
  BY <1>3, <1>4
<1>. QED  BY <1>4, <1>5

\* Two functions that start alike, and go on alike as long as they are alike.
LEMMA SameSteps ==
  ASSUME NEW n \in Nat, NEW f, NEW g, f[0] = g[0],
         \A i \in 1 .. n : f[i - 1] = g[i - 1] => f[i] = g[i]
  PROVE  \A i \in 0 .. n : f[i] = g[i]
<1>. DEFINE S == {i \in Nat : i <= n => f[i] = g[i]}
<1>1. 0 \in S
  OBVIOUS
<1>2. ASSUME NEW i \in Nat, i \in S
      PROVE  i + 1 \in S
  <2>1. CASE i + 1 <= n
    <3>1. i + 1 \in 1 .. n /\ (i + 1) - 1 = i /\ f[i] = g[i]
      BY <1>2, <2>1
    <3>. QED  BY <3>1
  <2>2. CASE ~(i + 1 <= n)
    BY <2>2
  <2>. QED  BY <2>1, <2>2
<1>3. \A i \in Nat : i \in S
  <2>. HIDE DEF S
  <2>. QED  BY <1>1, <1>2, SetInduction
<1>. QED  BY <1>3

\* Induction over the sequences of a set, from the empty one by appending.
LEMMA SeqInduction ==
  ASSUME NEW S, NEW P, <<>> \in P,
         \A s \in Seq(S), e \in S : s \in P => Append(s, e) \in P
  PROVE  \A s \in Seq(S) : s \in P
<1>. DEFINE N == {n \in Nat : \A s \in Seq(S) : Len(s) = n => s \in P}
<1>1. 0 \in N
  <2>1. \A s \in Seq(S) : Len(s) = 0 => s = <<>>
    BY EmptySeq
  <2>. QED  BY <2>1
<1>2. ASSUME NEW n \in Nat, n \in N
      PROVE  n + 1 \in N
  <2>1. ASSUME NEW s \in Seq(S), Len(s) = n + 1
        PROVE  s \in P
    <3>1. s # <<>>
      BY <2>1
    <3>2. PICK r \in Seq(S), e \in S : s = Append(r, e)
      BY <3>1, SequenceEmptyOrAppend
    <3>3. Len(r) \in Nat /\ Len(s) = Len(r) + 1
      BY <3>2, AppendProperties, LenProperties
    <3>4. r \in P
      BY <1>2, <2>1, <3>3
    <3>. QED  BY <3>2, <3>4
  <2>. QED  BY <2>1
<1>3. \A n \in Nat : n \in N
  <2>. HIDE DEF N
  <2>. QED  BY <1>1, <1>2, SetInduction
<1>. QED  BY <1>3, LenProperties

-----------------------------------------------------------------------------
(* Pieces.                                                                 *)

\* A piece of a sequence, with bounds that may make it empty.
LEMMA Piece ==
  ASSUME NEW S, NEW s \in Seq(S), NEW a \in Nat, NEW b \in Nat, a <= b, b <= Len(s)
  PROVE  /\ SubSeq(s, a + 1, b) \in Seq(S)
         /\ Len(SubSeq(s, a + 1, b)) = b - a
         /\ \A i \in 1..(b - a) : SubSeq(s, a + 1, b)[i] = s[a + i]
<1>1. \A i \in (a + 1)..b : s[i] \in S
  BY ElementOfSeq
<1>2. /\ SubSeq(s, a + 1, b) \in Seq(S)
      /\ Len(SubSeq(s, a + 1, b)) = IF a + 1 <= b THEN b - (a + 1) + 1 ELSE 0
      /\ \A i \in 1 .. b - (a + 1) + 1 : SubSeq(s, a + 1, b)[i] = s[a + 1 + i - 1]
  BY <1>1, SubSeqProperties
<1>. QED  BY <1>2

\* Two adjacent pieces make one.
LEMMA AdjacentPieces ==
  ASSUME NEW S, NEW s \in Seq(S), NEW a \in Nat, NEW b \in Nat, NEW c \in Nat,
         a <= b, b <= c, c <= Len(s)
  PROVE  SubSeq(s, a + 1, b) \o SubSeq(s, b + 1, c) = SubSeq(s, a + 1, c)
<1>1. a + 1 \in 1..(Len(s) + 1) /\ b \in (a + 1) - 1 .. Len(s) /\ c \in b..Len(s)
  BY LenProperties
<1>. QED  BY <1>1, ConcatAdjacentSubSeq

\* A piece of a piece.
LEMMA PieceOfPiece ==
  ASSUME NEW S, NEW s \in Seq(S), NEW a \in Nat, NEW b \in Nat,
         a <= b, b <= Len(s),
         NEW i \in Nat, NEW j \in Nat, i <= j, j <= b - a
  PROVE  SubSeq(SubSeq(s, a + 1, b), i + 1, j) = SubSeq(s, a + i + 1, a + j)
<1>. DEFINE p == SubSeq(s, a + 1, b)
            l == SubSeq(p, i + 1, j)
            r == SubSeq(s, (a + i) + 1, a + j)
<1>1. p \in Seq(S) /\ Len(p) = b - a /\ \A k \in 1..(b - a) : p[k] = s[a + k]
  BY Piece
<1>2. l \in Seq(S) /\ Len(l) = j - i /\ \A k \in 1..(j - i) : l[k] = p[i + k]
  <2>. HIDE DEF p
  <2>. QED  BY <1>1, Piece
<1>3. r \in Seq(S) /\ Len(r) = j - i /\ \A k \in 1..(j - i) : r[k] = s[a + i + k]
  <2>1. a + i \in Nat /\ a + j \in Nat /\ a + i <= a + j /\ a + j <= Len(s)
    BY LenProperties
  <2>. QED  BY <2>1, Piece
<1>4. ASSUME NEW k \in 1..Len(l)
      PROVE  l[k] = r[k]
  <2>. HIDE DEF p, l, r
  <2>1. k \in 1..(j - i) /\ i + k \in 1..(b - a)
    BY <1>2
  <2>2. l[k] = p[i + k] /\ p[i + k] = s[a + (i + k)] /\ r[k] = s[a + i + k]
    BY <1>1, <1>2, <1>3, <2>1
  <2>. QED  BY <2>1, <2>2
<1>5. l = r
  <2>. HIDE DEF p, l, r
  <2>. QED  BY <1>2, <1>3, <1>4, SeqEqual
<1>. QED  BY <1>5

\* What is written later does not change a piece of what was.
LEMMA PieceOfConcat ==
  ASSUME NEW S, NEW s \in Seq(S), NEW t \in Seq(S),
         NEW a \in Nat, NEW b \in Nat, a <= b, b <= Len(s)
  PROVE  SubSeq(s \o t, a + 1, b) = SubSeq(s, a + 1, b)
<1>. DEFINE st == s \o t
            l == SubSeq(st, a + 1, b)
            r == SubSeq(s, a + 1, b)
<1>1. st \in Seq(S) /\ Len(st) = Len(s) + Len(t) /\ \A k \in 1..Len(s) : st[k] = s[k]
  BY ConcatProperties
<1>2. b <= Len(st)
  BY <1>1, LenProperties
<1>3. l \in Seq(S) /\ Len(l) = b - a /\ \A k \in 1..(b - a) : l[k] = st[a + k]
  <2>. HIDE DEF st
  <2>. QED  BY <1>1, <1>2, Piece
<1>4. r \in Seq(S) /\ Len(r) = b - a /\ \A k \in 1..(b - a) : r[k] = s[a + k]
  BY Piece
<1>5. ASSUME NEW k \in 1..Len(l)
      PROVE  l[k] = r[k]
  <2>. HIDE DEF st, l, r
  <2>1. k \in 1..(b - a) /\ Len(s) \in Nat
    BY <1>3, LenProperties
  <2>2. a + k \in 1..Len(s)
    BY <2>1
  <2>. QED  BY <1>1, <1>3, <1>4, <2>1, <2>2
<1>6. l = r
  <2>. HIDE DEF st, l, r
  <2>. QED  BY <1>3, <1>4, <1>5, SeqEqual
<1>. QED  BY <1>6

\* The last piece of a concatenation is what was put there.
LEMMA PieceAppended ==
  ASSUME NEW S, NEW s \in Seq(S), NEW t \in Seq(S)
  PROVE  SubSeq(s \o t, Len(s) + 1, Len(s) + Len(t)) = t
<1>. DEFINE st == s \o t
            l == SubSeq(st, Len(s) + 1, Len(s) + Len(t))
<1>1. st \in Seq(S) /\ Len(st) = Len(s) + Len(t)
      /\ \A k \in (Len(s)+1)..(Len(s) + Len(t)) : st[k] = t[k - Len(s)]
  BY ConcatProperties
<1>2. Len(s) \in Nat /\ Len(t) \in Nat
  BY LenProperties
<1>3. l \in Seq(S) /\ Len(l) = Len(t) /\ \A k \in 1..Len(t) : l[k] = st[Len(s) + k]
  <2>. HIDE DEF st
  <2>. QED  BY <1>1, <1>2, Piece, Len(s) + Len(t) \in Nat
<1>4. ASSUME NEW k \in 1..Len(l)
      PROVE  l[k] = t[k]
  <2>. HIDE DEF st, l
  <2>1. k \in 1..Len(t) /\ Len(s) + k \in (Len(s) + 1)..(Len(s) + Len(t))
    BY <1>2, <1>3
  <2>2. st[Len(s) + k] = t[Len(s) + k - Len(s)]
    BY <1>1, <2>1
  <2>. QED  BY <1>2, <1>3, <2>1, <2>2
<1>5. l = t
  <2>. HIDE DEF st, l
  <2>. QED  BY <1>3, <1>4, SeqEqual
<1>. QED  BY <1>5

-----------------------------------------------------------------------------
(* FlattenSeq.                                                             *)

\* The recursive function in FlattenSeq's definition: its right-hand side.
Flattening(s, f) ==
  [i \in 1 .. Len(s) |-> IF i = 1 THEN s[i] ELSE f[i - 1] \o s[i]]

\* The recursion of FlattenSeq has a solution, however many sequences it runs
\* through.
LEMMA FlatteningExists ==
  ASSUME NEW s, Len(s) \in Nat
  PROVE  \E f : f = Flattening(s, f)
<1>. DEFINE Rhs(f, n) == [i \in 1 .. n |-> IF i = 1 THEN s[i] ELSE f[i - 1] \o s[i]]
            N == {n \in Nat : \E f : f = Rhs(f, n)}
<1>1. 0 \in N
  <2>1. Rhs(<<>>, 0) = Rhs(Rhs(<<>>, 0), 0)
    OBVIOUS
  <2>. QED  BY <2>1
<1>2. ASSUME NEW n \in Nat, n \in N
      PROVE  n + 1 \in N
  <2>1. PICK f : f = Rhs(f, n)
    BY <1>2
  <2>. DEFINE g == [i \in 1 .. n + 1 |->
                      IF i = n + 1 THEN IF i = 1 THEN s[i] ELSE f[n] \o s[i] ELSE f[i]]
  <2>2. ASSUME NEW i \in 1 .. n + 1
        PROVE  g[i] = IF i = 1 THEN s[i] ELSE g[i - 1] \o s[i]
    <3>1. CASE i = n + 1
      BY <3>1
    <3>2. CASE i # n + 1
      <4>1. i \in 1 .. n /\ g[i] = f[i]
        BY <3>2
      <4>2. f[i] = IF i = 1 THEN s[i] ELSE f[i - 1] \o s[i]
        BY <2>1, <4>1
      <4>3. i # 1 => g[i - 1] = f[i - 1]
        BY <4>1
      <4>. QED  BY <4>1, <4>2, <4>3
    <3>. QED  BY <3>1, <3>2
  <2>3. g = Rhs(g, n + 1)
    <3>. DEFINE h == Rhs(g, n + 1)
    <3>1. DOMAIN g = 1 .. n + 1 /\ DOMAIN h = 1 .. n + 1
      OBVIOUS
    <3>2. \A i \in 1 .. n + 1 : g[i] = h[i]
      BY <2>2
    <3>3. g = [i \in 1 .. n + 1 |-> g[i]] /\ h = [i \in 1 .. n + 1 |-> h[i]]
      OBVIOUS
    <3>4. g = h
      <4>. HIDE DEF g, h
      <4>. QED  BY <3>1, <3>2, <3>3
    <3>. QED  BY <3>4
  <2>4. \E h : h = Rhs(h, n + 1)
    <3>. HIDE DEF g, Rhs
    <3>. QED  BY <2>3
  <2>5. n + 1 \in Nat
    OBVIOUS
  <2>. HIDE DEF Rhs
  <2>. QED  BY <2>4, <2>5
<1>3. \A n \in Nat : n \in N
  <2>. HIDE DEF N
  <2>. QED  BY <1>1, <1>2, SetInduction
<1>4. \E f : f = Rhs(f, Len(s))
  BY <1>3
<1>. QED  BY <1>4 DEF Flattening

LEMMA FlatteningChosen ==
  ASSUME NEW s, Len(s) \in Nat \ {0}
  PROVE  \E f : f = Flattening(s, f) /\ FlattenSeq(s) = f[Len(s)]
<1>. DEFINE f == CHOOSE g : g = Flattening(s, g)
<1>1. f = Flattening(s, f)
  BY FlatteningExists, Zenon
<1>2. FlattenSeq(s) = f[Len(s)]
  BY DEF FlattenSeq, Flattening
<1>. HIDE DEF f
<1>. QED  BY <1>1, <1>2

\* One sequence more.
LEMMA FlattenLonger ==
  ASSUME NEW s, NEW t, Len(s) \in Nat \ {0}, Len(t) = Len(s) + 1,
         \A i \in 1 .. Len(s) : t[i] = s[i]
  PROVE  FlattenSeq(t) = FlattenSeq(s) \o t[Len(t)]
<1>1. PICK f : f = Flattening(s, f) /\ FlattenSeq(s) = f[Len(s)]
  BY FlatteningChosen
<1>2. PICK g : g = Flattening(t, g) /\ FlattenSeq(t) = g[Len(t)]
  BY FlatteningChosen
<1>3. \A i \in 1 .. Len(s) : f[i] = IF i = 1 THEN s[i] ELSE f[i - 1] \o s[i]
  BY <1>1 DEF Flattening
<1>4. \A i \in 1 .. Len(t) : g[i] = IF i = 1 THEN t[i] ELSE g[i - 1] \o t[i]
  BY <1>2 DEF Flattening
<1>. DEFINE N == {n \in Nat : n \in 1 .. Len(s) => f[n] = g[n]}
<1>5. 0 \in N
  OBVIOUS
<1>6. ASSUME NEW n \in Nat, n \in N
      PROVE  n + 1 \in N
  <2>. SUFFICES ASSUME n + 1 \in 1 .. Len(s)
                PROVE  f[n + 1] = g[n + 1]
    OBVIOUS
  <2>1. f[n + 1] = IF n + 1 = 1 THEN s[n + 1] ELSE f[n] \o s[n + 1]
    BY <1>3
  <2>2. g[n + 1] = IF n + 1 = 1 THEN t[n + 1] ELSE g[n] \o t[n + 1]
    BY <1>4
  <2>3. n # 0 => f[n] = g[n]
    BY <1>6
  <2>. QED  BY <2>1, <2>2, <2>3
<1>7. \A n \in Nat : n \in N
  <2>. HIDE DEF N
  <2>. QED  BY <1>5, <1>6, SetInduction
<1>8. f[Len(s)] = g[Len(s)]
  BY <1>7
<1>9. g[Len(t)] = g[Len(s)] \o t[Len(t)]
  <2>1. Len(t) \in 1 .. Len(t) /\ Len(t) # 1 /\ Len(t) - 1 = Len(s)
    OBVIOUS
  <2>. QED  BY <1>4, <2>1
<1>. QED  BY <1>1, <1>2, <1>8, <1>9

LEMMA FlattenEmpty == FlattenSeq(<<>>) = <<>>
BY DEF FlattenSeq

LEMMA FlattenOne ==
  ASSUME NEW x
  PROVE  FlattenSeq(<<x>>) = x
<1>. DEFINE s == <<x>>
<1>1. Len(s) = 1 /\ s[1] = x
  OBVIOUS
<1>2. PICK f : f = Flattening(s, f) /\ FlattenSeq(s) = f[Len(s)]
  <2>1. Len(s) \in Nat \ {0}
    BY <1>1
  <2>. HIDE DEF s
  <2>. QED  BY <2>1, FlatteningChosen
<1>3. f[1] = x
  BY <1>1, <1>2 DEF Flattening
<1>. QED  BY <1>1, <1>2, <1>3

LEMMA FlattenAppend ==
  ASSUME NEW S, NEW s \in Seq(Seq(S)), NEW x \in Seq(S)
  PROVE  FlattenSeq(Append(s, x)) = FlattenSeq(s) \o x
<1>1. CASE s = <<>>
  <2>1. Append(s, x) = <<x>>
    BY <1>1
  <2>2. <<>> \o x = x
    BY ConcatEmptySeq
  <2>. QED  BY <1>1, <2>1, <2>2, FlattenOne, FlattenEmpty
<1>2. CASE s # <<>>
  <2>. DEFINE t == Append(s, x)
  <2>1. /\ Len(s) \in Nat \ {0} /\ Len(t) = Len(s) + 1
        /\ \A i \in 1 .. Len(s) : t[i] = s[i]
        /\ t[Len(t)] = x
    BY <1>2, AppendProperties, EmptySeq
  <2>. HIDE DEF t
  <2>2. FlattenSeq(t) = FlattenSeq(s) \o t[Len(t)]
    BY <2>1, FlattenLonger
  <2>3. FlattenSeq(t) = FlattenSeq(s) \o x
    BY <2>1, <2>2
  <2>. QED  BY <2>3 DEF t
<1>. QED  BY <1>1, <1>2

\* A sequence of sequences is flattened to a sequence.
LEMMA FlattenType ==
  ASSUME NEW S
  PROVE  \A s \in Seq(Seq(S)) : FlattenSeq(s) \in Seq(S)
<1>. DEFINE P == {s \in Seq(Seq(S)) : FlattenSeq(s) \in Seq(S)}
<1>1. <<>> \in P
  BY FlattenEmpty, EmptySeq
<1>2. ASSUME NEW s \in Seq(Seq(S)), NEW x \in Seq(S), s \in P
      PROVE  Append(s, x) \in P
  <2>1. FlattenSeq(s) \o x \in Seq(S)
    BY <1>2, ConcatProperties
  <2>2. Append(s, x) \in Seq(Seq(S))
    BY AppendProperties
  <2>. QED  BY <2>1, <2>2, FlattenAppend
<1>3. \A s \in Seq(Seq(S)) : s \in P
  <2>. HIDE DEF P
  <2>. QED  BY <1>1, <1>2, SeqInduction
<1>. QED  BY <1>3

LEMMA ConcatRegroup ==
  ASSUME NEW S
  PROVE  \A r, t, u \in Seq(S) : (r \o t) \o u = r \o (t \o u)
BY ConcatAssociative

\* Flattening distributes over concatenation.
LEMMA FlattenConcat ==
  ASSUME NEW S, NEW a \in Seq(Seq(S))
  PROVE  \A b \in Seq(Seq(S)) : FlattenSeq(a \o b) = FlattenSeq(a) \o FlattenSeq(b)
<1>. DEFINE P == {b \in Seq(Seq(S)) : FlattenSeq(a \o b) = FlattenSeq(a) \o FlattenSeq(b)}
<1>0. FlattenSeq(a) \in Seq(S)
  BY FlattenType
<1>1. <<>> \in P
  <2>1. a \o <<>> = a /\ FlattenSeq(a) \o <<>> = FlattenSeq(a)
    BY <1>0, ConcatEmptySeq
  <2>. QED  BY <2>1, FlattenEmpty, EmptySeq
<1>2. ASSUME NEW b \in Seq(Seq(S)), NEW x \in Seq(S), b \in P
      PROVE  Append(b, x) \in P
  <2>1. a \o Append(b, x) = Append(a \o b, x)
    <3>1. Append(b, x) = b \o <<x>> /\ <<x>> \in Seq(Seq(S))
      BY AppendIsConcat
    <3>2. (a \o b) \o <<x>> = a \o (b \o <<x>>)
      BY <3>1, ConcatAssociative
    <3>3. a \o b \in Seq(Seq(S))
      BY ConcatProperties
    <3>4. Append(a \o b, x) = (a \o b) \o <<x>>
      BY <3>3, AppendIsConcat
    <3>. QED  BY <3>1, <3>2, <3>4
  <2>2. a \o b \in Seq(Seq(S)) /\ Append(b, x) \in Seq(Seq(S))
    BY ConcatProperties, AppendProperties
  <2>3. FlattenSeq(Append(a \o b, x)) = FlattenSeq(a \o b) \o x
    BY <2>2, FlattenAppend
  <2>4. FlattenSeq(Append(b, x)) = FlattenSeq(b) \o x /\ FlattenSeq(b) \in Seq(S)
    BY FlattenAppend, FlattenType
  <2>5. (FlattenSeq(a) \o FlattenSeq(b)) \o x = FlattenSeq(a) \o (FlattenSeq(b) \o x)
    <3>1. FlattenSeq(b) \in Seq(S)
      BY <2>4
    <3>. QED  BY <1>0, <3>1, ConcatRegroup
  <2>6. FlattenSeq(a \o b) = FlattenSeq(a) \o FlattenSeq(b)
    BY <1>2
  <2>7. FlattenSeq(a \o Append(b, x)) = FlattenSeq(a) \o FlattenSeq(Append(b, x))
    BY <2>1, <2>3, <2>4, <2>5, <2>6
  <2>. QED  BY <2>2, <2>7
<1>3. \A b \in Seq(Seq(S)) : b \in P
  <2>. HIDE DEF P
  <2>. QED  BY <1>1, <1>2, SeqInduction
<1>. QED  BY <1>3

\* Where one of the sequences lies in the whole.
LEMMA FlattenSplit ==
  ASSUME NEW S, NEW s \in Seq(Seq(S)), NEW k \in 1 .. Len(s)
  PROVE  /\ SubSeq(s, 1, k - 1) \in Seq(Seq(S))
         /\ SubSeq(s, k + 1, Len(s)) \in Seq(Seq(S))
         /\ FlattenSeq(SubSeq(s, 1, k)) = FlattenSeq(SubSeq(s, 1, k - 1)) \o s[k]
         /\ FlattenSeq(s) = FlattenSeq(SubSeq(s, 1, k)) \o FlattenSeq(SubSeq(s, k + 1, Len(s)))
<1>. DEFINE a == SubSeq(s, 1, k - 1)
            b == SubSeq(s, k + 1, Len(s))
            ak == SubSeq(s, 1, k)
<1>0. Len(s) \in Nat /\ k \in Int /\ \A i \in 1 .. Len(s) : s[i] \in Seq(S)
  BY LenProperties
<1>1. a \in Seq(Seq(S)) /\ b \in Seq(Seq(S)) /\ ak \in Seq(Seq(S))
  <2>1. /\ \A i \in 1 .. k - 1 : s[i] \in Seq(S)
        /\ \A i \in k + 1 .. Len(s) : s[i] \in Seq(S)
        /\ \A i \in 1 .. k : s[i] \in Seq(S)
    BY <1>0
  <2>2. a \in Seq(Seq(S))
    BY <1>0, <2>1, SubSeqProperties
  <2>3. b \in Seq(Seq(S))
    BY <1>0, <2>1, SubSeqProperties
  <2>4. ak \in Seq(Seq(S))
    BY <1>0, <2>1, SubSeqProperties
  <2>. QED  BY <2>2, <2>3, <2>4
<1>2. ak = Append(a, s[k])
  <2>1. ak = a \o <<s[k]>>
    BY <1>0, SubSeqRecursiveSecond
  <2>2. Append(a, s[k]) = a \o <<s[k]>>
    BY <1>0, <1>1, AppendIsConcat
  <2>. QED  BY <2>1, <2>2
<1>3. s = ak \o b
  <2>1. SubSeq(s, 1, k) \o SubSeq(s, k + 1, Len(s)) = SubSeq(s, 1, Len(s))
    BY <1>0, ConcatAdjacentSubSeq
  <2>. QED  BY <2>1, SubSeqFull
<1>. HIDE DEF a, b, ak
<1>4. FlattenSeq(ak) = FlattenSeq(a) \o s[k]
  BY <1>0, <1>1, <1>2, FlattenAppend
<1>5. FlattenSeq(ak \o b) = FlattenSeq(ak) \o FlattenSeq(b)
  BY <1>1, FlattenConcat
<1>. QED  BY <1>1, <1>3, <1>4, <1>5 DEF a, b, ak

\* Each element of each sequence, where it is in the whole.
LEMMA FlattenAt ==
  ASSUME NEW S, NEW s \in Seq(Seq(S)), NEW k \in 1 .. Len(s)
  PROVE  LET before == Len(FlattenSeq(SubSeq(s, 1, k - 1)))
         IN  /\ before \in Nat
             /\ Len(FlattenSeq(SubSeq(s, 1, k))) = before + Len(s[k])
             /\ before + Len(s[k]) <= Len(FlattenSeq(s))
             /\ \A i \in 1 .. Len(s[k]) : FlattenSeq(s)[before + i] = s[k][i]
<1>. DEFINE a == FlattenSeq(SubSeq(s, 1, k - 1))
            b == FlattenSeq(SubSeq(s, k + 1, Len(s)))
            ax == a \o s[k]
<1>1. a \in Seq(S) /\ b \in Seq(S) /\ s[k] \in Seq(S)
  BY FlattenSplit, FlattenType, ElementOfSeq
<1>2. FlattenSeq(SubSeq(s, 1, k)) = ax /\ FlattenSeq(s) = ax \o b
  BY FlattenSplit
<1>. HIDE DEF a, b
<1>3. /\ ax \in Seq(S) /\ Len(ax) = Len(a) + Len(s[k])
      /\ \A i \in 1 .. Len(a) + Len(s[k]) :
           ax[i] = IF i <= Len(a) THEN a[i] ELSE s[k][i - Len(a)]
  BY <1>1, ConcatProperties
<1>. HIDE DEF ax
<1>4. /\ Len(ax \o b) = Len(ax) + Len(b)
      /\ \A i \in 1 .. Len(ax) + Len(b) :
           (ax \o b)[i] = IF i <= Len(ax) THEN ax[i] ELSE b[i - Len(ax)]
  <2>1. ax \in Seq(S) /\ b \in Seq(S)
    BY <1>1, <1>3
  <2>. QED  BY <2>1, ConcatProperties
<1>5. Len(a) \in Nat /\ Len(b) \in Nat /\ Len(s[k]) \in Nat
  BY <1>1, LenProperties
<1>6. ASSUME NEW i \in 1 .. Len(s[k])
      PROVE  (ax \o b)[Len(a) + i] = s[k][i]
  <2>1. Len(a) + i \in 1 .. Len(a) + Len(s[k]) /\ ~(Len(a) + i <= Len(a))
    BY <1>5
  <2>2. Len(a) + i \in 1 .. Len(ax) + Len(b) /\ Len(a) + i <= Len(ax)
    BY <1>3, <1>5, <2>1
  <2>3. (ax \o b)[Len(a) + i] = ax[Len(a) + i]
    BY <1>4, <2>2
  <2>4. ax[Len(a) + i] = s[k][(Len(a) + i) - Len(a)]
    BY <1>3, <2>1
  <2>5. (Len(a) + i) - Len(a) = i
    BY <1>5
  <2>. QED  BY <2>3, <2>4, <2>5
<1>7. /\ Len(FlattenSeq(SubSeq(s, 1, k))) = Len(a) + Len(s[k])
      /\ Len(a) + Len(s[k]) <= Len(FlattenSeq(s))
      /\ \A i \in 1 .. Len(s[k]) : FlattenSeq(s)[Len(a) + i] = s[k][i]
  BY <1>2, <1>3, <1>4, <1>5, <1>6
<1>. QED  BY <1>5, <1>7 DEF a

\* When one of the sequences gets longer, so does the whole.
LEMMA FlattenGrows ==
  ASSUME NEW S, NEW s \in Seq(Seq(S)), NEW t \in Seq(Seq(S)), Len(s) = Len(t),
         NEW k \in 1 .. Len(s), NEW n \in Int,
         \A i \in 1 .. Len(s) : i # k => s[i] = t[i],
         Len(t[k]) = Len(s[k]) + n
  PROVE  Len(FlattenSeq(t)) = Len(FlattenSeq(s)) + n
<1>0. Len(s) \in Nat /\ k \in Int /\ k \in 1 .. Len(t)
  BY LenProperties
<1>1. SubSeq(s, 1, k - 1) = SubSeq(t, 1, k - 1)
  BY <1>0
<1>2. SubSeq(s, k + 1, Len(s)) = SubSeq(t, k + 1, Len(t))
  BY <1>0
<1>. DEFINE a == FlattenSeq(SubSeq(s, 1, k - 1))
            b == FlattenSeq(SubSeq(s, k + 1, Len(s)))
<1>3. a \in Seq(S) /\ b \in Seq(S) /\ s[k] \in Seq(S) /\ t[k] \in Seq(S)
  BY <1>0, FlattenSplit, FlattenType, ElementOfSeq
<1>4. FlattenSeq(s) = (a \o s[k]) \o b
  BY FlattenSplit
<1>5. FlattenSeq(t) = (a \o t[k]) \o b
  BY <1>0, <1>1, <1>2, FlattenSplit
<1>. HIDE DEF a, b
<1>6. ASSUME NEW x \in Seq(S)
      PROVE  Len((a \o x) \o b) = Len(a) + Len(x) + Len(b)
  <2>1. a \o x \in Seq(S) /\ Len(a \o x) = Len(a) + Len(x)
    BY <1>3, ConcatProperties
  <2>2. Len((a \o x) \o b) = Len(a \o x) + Len(b)
    BY <1>3, <2>1, ConcatProperties
  <2>. QED  BY <2>1, <2>2
<1>7. /\ Len((a \o s[k]) \o b) = Len(a) + Len(s[k]) + Len(b)
      /\ Len((a \o t[k]) \o b) = Len(a) + Len(t[k]) + Len(b)
  BY <1>3, <1>6
<1>8. Len(a) \in Nat /\ Len(b) \in Nat /\ Len(s[k]) \in Nat
  BY <1>3, LenProperties
<1>. QED  BY <1>4, <1>5, <1>7, <1>8

\* Sequences of one element each, and empty ones.
LEMMA FlattenSingletons ==
  ASSUME NEW S
  PROVE  \A s \in Seq(S) : FlattenSeq([i \in 1 .. Len(s) |-> <<s[i]>>]) = s
<1>. DEFINE Ones(s) == [i \in 1 .. Len(s) |-> <<s[i]>>]
            P == {s \in Seq(S) : FlattenSeq(Ones(s)) = s}
<1>1. <<>> \in P
  <2>1. Ones(<<>>) = <<>>
    OBVIOUS
  <2>. QED  BY <2>1, FlattenEmpty, EmptySeq
<1>2. ASSUME NEW s \in Seq(S), NEW x \in S, s \in P
      PROVE  Append(s, x) \in P
  <2>1. Ones(s) \in Seq(Seq(S)) /\ <<x>> \in Seq(S)
    BY LenProperties, ElementOfSeq
  <2>2. Ones(Append(s, x)) = Append(Ones(s), <<x>>)
    BY LenProperties
  <2>3. Append(s, x) = s \o <<x>> /\ Append(s, x) \in Seq(S)
    BY AppendIsConcat, AppendProperties
  <2>4. FlattenSeq(Ones(s)) = s
    BY <1>2
  <2>. HIDE DEF Ones
  <2>5. FlattenSeq(Append(Ones(s), <<x>>)) = FlattenSeq(Ones(s)) \o <<x>>
    BY <2>1, FlattenAppend
  <2>. QED  BY <2>2, <2>3, <2>4, <2>5
<1>3. \A s \in Seq(S) : s \in P
  <2>. HIDE DEF P
  <2>. QED  BY <1>1, <1>2, SeqInduction
<1>. QED  BY <1>3

LEMMA FlattenEmpties ==
  \A n \in Nat : FlattenSeq([i \in 1 .. n |-> <<>>]) = <<>>
<1>. DEFINE Nones(n) == [i \in 1 .. n |-> <<>>]
            N == {n \in Nat : FlattenSeq(Nones(n)) = <<>>}
<1>1. 0 \in N
  <2>1. Nones(0) = <<>>
    OBVIOUS
  <2>. QED  BY <2>1, FlattenEmpty
<1>2. ASSUME NEW n \in Nat, n \in N
      PROVE  n + 1 \in N
  <2>1. Nones(n) \in Seq(Seq({})) /\ <<>> \in Seq({})
    BY EmptySeq
  <2>2. Nones(n + 1) = Append(Nones(n), <<>>)
    OBVIOUS
  <2>3. FlattenSeq(Nones(n)) = <<>>
    BY <1>2
  <2>. HIDE DEF Nones
  <2>4. FlattenSeq(Append(Nones(n), <<>>)) = FlattenSeq(Nones(n)) \o <<>>
    BY <2>1, FlattenAppend
  <2>5. <<>> \o <<>> = <<>>
    BY ConcatEmptySeq, <2>1
  <2>6. FlattenSeq(Append(Nones(n), <<>>)) = <<>>
    BY <2>3, <2>4, <2>5, Zenon
  <2>7. FlattenSeq(Nones(n + 1)) = <<>>
    BY <2>2, <2>6, Zenon
  <2>. QED  BY <2>7
<1>3. \A n \in Nat : n \in N
  <2>. HIDE DEF N
  <2>. QED  BY <1>1, <1>2, SetInduction
<1>. QED  BY <1>3
=============================================================================
