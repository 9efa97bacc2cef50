----------------------------- MODULE SpanProofs -----------------------------
(***************************************************************************)
(* Spans of any number of dimensions: an iterator, moved in any way, is as *)
(* far from the first element as its pointer says and never outside; a     *)
(* loop over a span meets its end just behind the last element; and what   *)
(* is computed with offsets and strides is what View promises of shapes.   *)
(***************************************************************************)
EXTENDS Span, FiniteSetTheorems, SequenceTheorems, TLAPS

Lemmas == INSTANCE SequenceLemmas

-----------------------------------------------------------------------------
(* Two functions that begin with the same and go through the same steps.   *)

Alike(f, g, n) == f[0] = g[0] /\ \A i \in 1 .. n : f[i - 1] = g[i - 1] => f[i] = g[i]

Same(f, g, n) == \A i \in 0 .. n : f[i] = g[i]

LEMMA AlikeSame ==
  ASSUME NEW n \in Nat, NEW f, NEW g, Alike(f, g, n)
  PROVE  Same(f, g, n)
<1>1. f[0] = g[0] /\ \A i \in 1 .. n : f[i - 1] = g[i - 1] => f[i] = g[i]
  BY DEF Alike
<1>2. \A i \in 0 .. n : f[i] = g[i]
  BY <1>1, Lemmas!SameSteps
<1>. QED  BY <1>2 DEF Same

-----------------------------------------------------------------------------
(* Folds over the components of a sequence.  FoldFunction takes them in    *)
(* whatever order CHOOSE has; for an operation that commutes any order     *)
(* gives the same.  An operation on numbers is a function here, as lemmas  *)
(* cannot have operators for parameters.                                   *)

Any(t) == CHOOSE x \in t : TRUE

LEMMA AnyIs ==
  ASSUME NEW t, t # {}
  PROVE  Any(t) \in t
BY DEF Any

LEMMA SubsetSize ==
  ASSUME NEW n \in Nat, NEW t \in SUBSET (1 .. n)
  PROVE  /\ Cardinality(t) \in Nat /\ (Cardinality(t) = 0 <=> t = {})
         /\ \A x \in t : Cardinality(t \ {x}) = Cardinality(t) - 1
<1>1. IsFiniteSet(1 .. n)
  BY FS_Interval
<1>2. IsFiniteSet(t)
  BY <1>1, FS_Subset
<1>. QED  BY <1>2, FS_CardinalityType, FS_EmptySet, FS_RemoveElement

\* Induction over the subsets, for a set of those that have something.
LEMMA SubsetInduction ==
  ASSUME NEW n \in Nat, NEW P, {} \in P,
         \A t \in SUBSET (1 .. n) : t # {} /\ (\A x \in t : t \ {x} \in P) => t \in P
  PROVE  \A t \in SUBSET (1 .. n) : t \in P
<1>. DEFINE N == {k \in Nat : \A t \in SUBSET (1 .. n) : Cardinality(t) = k => t \in P}
<1>1. 0 \in N
  BY SubsetSize
<1>2. ASSUME NEW k \in Nat, k \in N
      PROVE  k + 1 \in N
  <2>1. ASSUME NEW t \in SUBSET (1 .. n), Cardinality(t) = k + 1
        PROVE  t \in P
    <3>1. t # {}
      BY <2>1, SubsetSize
    <3>2. ASSUME NEW x \in t
          PROVE  t \ {x} \in P
      <4>1. t \ {x} \in SUBSET (1 .. n)
        OBVIOUS
      <4>2. Cardinality(t \ {x}) = k
        BY SMTT(30), <2>1, SubsetSize
      <4>. QED  BY <1>2, <4>1, <4>2
    <3>. QED  BY <3>1, <3>2
  <2>. QED  BY <2>1
<1>3. \A k \in Nat : k \in N
  <2>. HIDE DEF N
  <2>. QED  BY <1>1, <1>2, Lemmas!SetInduction
<1>. QED  BY <1>3, SubsetSize

Operation == [Int -> [Int -> Int]]

Commutes(op) == \A x, y, z \in Int : op[x][op[y][z]] = op[y][op[x][z]]

LEMMA OperationType ==
  ASSUME NEW op \in Operation, NEW x \in Int, NEW y \in Int
  PROVE  op[x][y] \in Int
<1>1. op[x] \in [Int -> Int]
  BY DEF Operation
<1>. QED  BY <1>1

\* h is the fold over the subsets, with the order that CHOOSE has.
Folds(h, n, op, base, f) ==
  /\ h[{}] = base
  /\ \A t \in SUBSET (1 .. n) : t # {} => h[t] = op[f[Any(t)]][h[t \ {Any(t)}]]

LEMMA FoldExists ==
  ASSUME NEW n \in Nat, NEW op \in Operation, NEW base \in Int, NEW f \in [1 .. n -> Int]
  PROVE  \E h \in [SUBSET (1 .. n) -> Int] : Folds(h, n, op, base, f)
<1>. DEFINE H == [SUBSET (1 .. n) -> Int]
            Upto(h, k) ==
              /\ h[{}] = base
              /\ \A t \in SUBSET (1 .. n) :
                   t # {} /\ Cardinality(t) <= k => h[t] = op[f[Any(t)]][h[t \ {Any(t)}]]
            N == {k \in Nat : \E h \in H : Upto(h, k)}
<1>1. 0 \in N
  <2>. DEFINE h == [t \in SUBSET (1 .. n) |-> base]
  <2>1. h \in H
    OBVIOUS
  <2>2. h[{}] = base
    OBVIOUS
  <2>3. ASSUME NEW t \in SUBSET (1 .. n), t # {}
        PROVE  ~(Cardinality(t) <= 0)
    <3>. DEFINE c == Cardinality(t)
    <3>1. c \in Nat /\ c # 0
      BY <2>3, SubsetSize
    <3>. HIDE DEF c
    <3>2. ~(c <= 0)
      BY <3>1
    <3>. QED  BY <3>2 DEF c
  <2>. HIDE DEF h
  <2>4. Upto(h, 0)
    BY <2>2, <2>3
  <2>. QED  BY <2>1, <2>4
<1>2. ASSUME NEW k \in Nat, k \in N
      PROVE  k + 1 \in N
  <2>1. PICK h \in H : Upto(h, k)
    BY <1>2
  <2>. DEFINE Step(t) == op[f[Any(t)]][h[t \ {Any(t)}]]
              g == [t \in SUBSET (1 .. n) |-> IF t = {} THEN base ELSE Step(t)]
  <2>2. ASSUME NEW t \in SUBSET (1 .. n), t # {}
        PROVE  /\ Any(t) \in t /\ Any(t) \in 1 .. n /\ t \ {Any(t)} \in SUBSET (1 .. n)
               /\ Step(t) \in Int
    <3>1. Any(t) \in t
      BY <2>2, AnyIs
    <3>2. Any(t) \in 1 .. n /\ t \ {Any(t)} \in SUBSET (1 .. n)
      BY <3>1
    <3>3. f[Any(t)] \in Int /\ h[t \ {Any(t)}] \in Int
      BY <3>2
    <3>4. Step(t) \in Int
      BY <3>3, OperationType
    <3>. QED  BY <3>1, <3>2, <3>4
  <2>3. g \in H
    BY <2>2
  <2>4. ASSUME NEW t \in SUBSET (1 .. n), t # {}, Cardinality(t) <= k + 1
        PROVE  g[t] = op[f[Any(t)]][g[t \ {Any(t)}]]
    <3>. DEFINE r == t \ {Any(t)}
    <3>1. r \in SUBSET (1 .. n) /\ Any(t) \in t
      BY <2>2, <2>4
    <3>2. Cardinality(r) <= k
      <4>. DEFINE c == Cardinality(t)
                  d == Cardinality(r)
                  x == Any(t)
      <4>. HIDE DEF x
      <4>1. x \in t
        BY <3>1 DEF x
      <4>2. c \in Nat /\ Cardinality(t \ {x}) = c - 1
        BY <4>1, SubsetSize
      <4>3. d = c - 1 /\ c <= k + 1
        BY <2>4, <4>2 DEF x
      <4>. HIDE DEF c, d
      <4>4. d <= k
        BY <4>2, <4>3
      <4>. QED  BY <4>4 DEF d
    <3>3. g[r] = h[r]
      <4>1. CASE r = {}
        BY <2>1, <3>1, <4>1
      <4>2. CASE r # {}
        BY <2>1, <3>1, <3>2, <4>2
      <4>. QED  BY <4>1, <4>2
    <3>4. g[t] = op[f[Any(t)]][h[r]]
      BY <2>4
    <3>. QED  BY <3>3, <3>4
  <2>5. g[{}] = base
    OBVIOUS
  <2>. HIDE DEF g
  <2>6. Upto(g, k + 1)
    BY <2>4, <2>5
  <2>7. k + 1 \in Nat
    OBVIOUS
  <2>. HIDE DEF Upto
  <2>. QED  BY <2>3, <2>6, <2>7
<1>3. \A k \in Nat : k \in N
  <2>. HIDE DEF N
  <2>. QED  BY <1>1, <1>2, Lemmas!SetInduction
<1>4. PICK h \in H : Upto(h, n)
  BY <1>3
<1>5. ASSUME NEW t \in SUBSET (1 .. n)
      PROVE  Cardinality(t) <= n
  <2>. DEFINE S == 1 .. n
  <2>1. IsFiniteSet(S) /\ Cardinality(S) = n
    BY FS_Interval
  <2>2. t \in SUBSET S
    OBVIOUS
  <2>. HIDE DEF S
  <2>. QED  BY <2>1, <2>2, FS_Subset
<1>. QED  BY <1>4, <1>5 DEF Folds

\* The same with an operation that commutes: any component may be taken first.
FoldsFreely(h, n, op, base, f) ==
  /\ n \in Nat /\ op \in Operation /\ Commutes(op) /\ base \in Int /\ f \in [1 .. n -> Int]
  /\ h \in [SUBSET (1 .. n) -> Int] /\ Folds(h, n, op, base, f)

Freely(h, n, op, f) ==
  \A t \in SUBSET (1 .. n) : \A x \in t : h[t] = op[f[x]][h[t \ {x}]]

LEMMA FoldTakes ==
  ASSUME NEW n, NEW op, NEW base, NEW f, NEW h, FoldsFreely(h, n, op, base, f)
  PROVE  Freely(h, n, op, f)
<1>0. /\ n \in Nat /\ op \in Operation /\ Commutes(op) /\ f \in [1 .. n -> Int]
      /\ h \in [SUBSET (1 .. n) -> Int] /\ Folds(h, n, op, base, f)
  BY DEF FoldsFreely
<1>. DEFINE P == {t \in SUBSET (1 .. n) : \A x \in t : h[t] = op[f[x]][h[t \ {x}]]}
<1>1. {} \in P
  OBVIOUS
<1>2. ASSUME NEW t \in SUBSET (1 .. n), t # {}, \A x \in t : t \ {x} \in P
      PROVE  t \in P
  <2>. DEFINE c == Any(t)
  <2>1. c \in t /\ h[t] = op[f[c]][h[t \ {c}]]
    BY <1>0, <1>2, AnyIs DEF Folds
  <2>. HIDE DEF c
  <2>2. ASSUME NEW x \in t, x # c
        PROVE  h[t] = op[f[x]][h[t \ {x}]]
    <3>. DEFINE r == t \ {c, x}
    <3>1. t \ {c} \in P /\ t \ {x} \in P /\ x \in t \ {c} /\ c \in t \ {x}
      BY <1>2, <2>1, <2>2
    <3>2. (t \ {c}) \ {x} = r /\ (t \ {x}) \ {c} = r /\ r \in SUBSET (1 .. n)
      OBVIOUS
    <3>3. h[t \ {c}] = op[f[x]][h[r]] /\ h[t \ {x}] = op[f[c]][h[r]]
      BY <3>1, <3>2
    <3>4. f[x] \in Int /\ f[c] \in Int /\ h[r] \in Int
      BY <1>0, <2>1, <3>2
    <3>. HIDE DEF r
    <3>5. op[f[c]][op[f[x]][h[r]]] = op[f[x]][op[f[c]][h[r]]]
      BY <1>0, <3>4 DEF Commutes
    <3>. QED  BY <2>1, <3>3, <3>5
  <2>. QED  BY <2>1, <2>2
<1>3. \A t \in SUBSET (1 .. n) : t \in P
  <2>. HIDE DEF P
  <2>. QED  BY <1>0, <1>1, <1>2, SubsetInduction
<1>. QED  BY <1>3 DEF Freely

\* So the components may be taken one after another.
InOrder(p, h, n, op, base, f) ==
  p[0] = base /\ (\A k \in 1 .. n : p[k] = op[f[k]][p[k - 1]]) /\ h[1 .. n] = p[n]

LEMMA FoldInOrder ==
  ASSUME NEW n, NEW op, NEW base, NEW f, NEW h, FoldsFreely(h, n, op, base, f)
  PROVE  \E p \in [0 .. n -> Int] : InOrder(p, h, n, op, base, f)
<1>. DEFINE p == [k \in 0 .. n |-> h[1 .. k]]
<1>0. /\ \A t \in SUBSET (1 .. n) : \A x \in t : h[t] = op[f[x]][h[t \ {x}]]
      /\ n \in Nat /\ h \in [SUBSET (1 .. n) -> Int] /\ Folds(h, n, op, base, f)
  <2>1. \A t \in SUBSET (1 .. n) : \A x \in t : h[t] = op[f[x]][h[t \ {x}]]
    <3>1. Freely(h, n, op, f)
      BY FoldTakes
    <3>. QED  BY <3>1 DEF Freely
  <2>2. n \in Nat /\ h \in [SUBSET (1 .. n) -> Int] /\ Folds(h, n, op, base, f)
    BY DEF FoldsFreely
  <2>. QED  BY <2>1, <2>2
<1>1. \A k \in 0 .. n : 1 .. k \in SUBSET (1 .. n)
  BY <1>0
<1>2. p \in [0 .. n -> Int]
  BY <1>0, <1>1
<1>3. p[0] = base
  <2>1. 1 .. 0 = {}
    OBVIOUS
  <2>. QED  BY <1>0, <2>1 DEF Folds
<1>4. ASSUME NEW k \in 1 .. n
      PROVE  p[k] = op[f[k]][p[k - 1]]
  <2>1. k \in 1 .. k /\ (1 .. k) \ {k} = 1 .. (k - 1) /\ k \in 0 .. n /\ k - 1 \in 0 .. n
    BY <1>0
  <2>2. h[1 .. k] = op[f[k]][h[(1 .. k) \ {k}]]
    BY <1>0, <1>1, <2>1
  <2>. QED  BY <2>1, <2>2
<1>5. p[n] = h[1 .. n]
  BY <1>0
<1>. HIDE DEF p
<1>. QED  BY <1>2, <1>3, <1>4, <1>5 DEF InOrder

\* The fold of Sum, and that of Product, as the libraries define it.
SumStep(f, h) ==
  [s \in SUBSET DOMAIN f |-> IF s = {} THEN 0 ELSE f[Any(s)] + h[s \ {Any(s)}]]

ProductStep(f, h) ==
  [s \in SUBSET DOMAIN f |-> IF s = {} THEN 1 ELSE f[Any(s)] * h[s \ {Any(s)}]]

LEMMA SumChosen ==
  ASSUME NEW f
  PROVE  Sum(f) = (CHOOSE h : h = SumStep(f, h))[DOMAIN f]
BY DEF Sum, FoldFunction, FoldFunctionOnSet, MapThenFoldSet, SumStep, Any

LEMMA ProductChosen ==
  ASSUME NEW f
  PROVE  Product(f) = (CHOOSE h : h = ProductStep(f, h))[DOMAIN f]
BY DEF Product, FoldFunction, FoldFunctionOnSet, MapThenFoldSet, ProductStep, Any

\* Numbers are added up one after another.
LEMMA SumIs ==
  ASSUME NEW n \in Nat, NEW f \in [1 .. n -> Int]
  PROVE  \E p \in [0 .. n -> Int] :
           p[0] = 0 /\ (\A k \in 1 .. n : p[k] = p[k - 1] + f[k]) /\ Sum(f) = p[n]
<1>. DEFINE op == [x \in Int |-> [y \in Int |-> x + y]]
            g == CHOOSE h : h = SumStep(f, h)
            base == 0
<1>1. op \in Operation /\ \A x, y \in Int : op[x][y] = x + y
  BY DEF Operation
<1>2. Commutes(op)
  BY DEF Commutes
<1>0. base \in Int
  OBVIOUS
<1>. HIDE DEF op, base
<1>3. PICK h \in [SUBSET (1 .. n) -> Int] : Folds(h, n, op, base, f)
  BY <1>0, <1>1, FoldExists
<1>4. ASSUME NEW t \in SUBSET (1 .. n), t # {}
      PROVE  /\ t \ {Any(t)} \in SUBSET (1 .. n) /\ Any(t) \in 1 .. n /\ Any(t) \in t
             /\ h[t] = f[Any(t)] + h[t \ {Any(t)}]
  <2>1. Any(t) \in t
    BY <1>4, AnyIs
  <2>2. t \ {Any(t)} \in SUBSET (1 .. n) /\ Any(t) \in 1 .. n
    BY <2>1
  <2>3. h[t] = op[f[Any(t)]][h[t \ {Any(t)}]]
    BY <1>3, <1>4 DEF Folds
  <2>4. f[Any(t)] \in Int /\ h[t \ {Any(t)}] \in Int
    BY <2>2
  <2>. QED  BY <1>1, <2>1, <2>2, <2>3, <2>4
<1>5. h[{}] = 0
  BY <1>3 DEF Folds, base
<1>6. h = SumStep(f, h)
  <2>1. \A t \in SUBSET (1 .. n) : h[t] = IF t = {} THEN 0 ELSE f[Any(t)] + h[t \ {Any(t)}]
    BY <1>4, <1>5
  <2>. QED  BY <2>1 DEF SumStep
<1>7. g = SumStep(f, g)
  BY <1>6, Zenon
<1>8. Sum(f) = g[1 .. n]
  BY SumChosen
<1>. HIDE DEF g
<1>9. \A t \in SUBSET (1 .. n) : g[t] = IF t = {} THEN 0 ELSE f[Any(t)] + g[t \ {Any(t)}]
  BY <1>7 DEF SumStep
<1>10. \A t \in SUBSET (1 .. n) : g[t] = h[t]
  <2>. DEFINE P == {t \in SUBSET (1 .. n) : g[t] = h[t]}
  <2>1. {} \in P
    BY <1>5, <1>9
  <2>2. ASSUME NEW t \in SUBSET (1 .. n), t # {}, \A x \in t : t \ {x} \in P
        PROVE  t \in P
    <3>1. g[t \ {Any(t)}] = h[t \ {Any(t)}]
      BY <1>4, <2>2
    <3>. QED  BY <1>4, <1>9, <2>2, <3>1
  <2>3. \A t \in SUBSET (1 .. n) : t \in P
    <3>. HIDE DEF P
    <3>. QED  BY <2>1, <2>2, SubsetInduction
  <2>. QED  BY <2>3
<1>11. FoldsFreely(h, n, op, base, f)
  BY <1>0, <1>1, <1>2, <1>3 DEF FoldsFreely
<1>b. PICK p \in [0 .. n -> Int] : InOrder(p, h, n, op, base, f)
  BY <1>11, FoldInOrder
<1>12. p[0] = base /\ (\A k \in 1 .. n : p[k] = op[f[k]][p[k - 1]]) /\ h[1 .. n] = p[n]
  BY <1>b DEF InOrder
<1>13. ASSUME NEW k \in 1 .. n
       PROVE  p[k] = p[k - 1] + f[k]
  <2>. DEFINE x == f[k]
              y == p[k - 1]
  <2>1. k - 1 \in 0 .. n /\ k \in 0 .. n
    OBVIOUS
  <2>2. x \in Int /\ y \in Int
    BY <2>1
  <2>3. p[k] = op[x][y]
    BY <1>12
  <2>. HIDE DEF x, y
  <2>4. op[x][y] = x + y
    BY <1>1, <2>2
  <2>5. p[k] = y + x
    BY <2>2, <2>3, <2>4
  <2>. QED  BY <2>5 DEF x, y
<1>14. Sum(f) = p[n]
  BY <1>8, <1>10, <1>12
<1>. QED  BY <1>12, <1>13, <1>14 DEF base

\* And multiplied.
LEMMA ProductIs ==
  ASSUME NEW n \in Nat, NEW f \in [1 .. n -> Int]
  PROVE  \E p \in [0 .. n -> Int] :
           p[0] = 1 /\ (\A k \in 1 .. n : p[k] = p[k - 1] * f[k]) /\ Product(f) = p[n]
<1>. DEFINE op == [x \in Int |-> [y \in Int |-> x * y]]
            g == CHOOSE h : h = ProductStep(f, h)
            base == 1
<1>1. op \in Operation /\ \A x, y \in Int : op[x][y] = x * y
  BY DEF Operation
<1>2. Commutes(op)
  BY DEF Commutes
<1>0. base \in Int
  OBVIOUS
<1>. HIDE DEF op, base
<1>3. PICK h \in [SUBSET (1 .. n) -> Int] : Folds(h, n, op, base, f)
  BY <1>0, <1>1, FoldExists
<1>4. ASSUME NEW t \in SUBSET (1 .. n), t # {}
      PROVE  /\ t \ {Any(t)} \in SUBSET (1 .. n) /\ Any(t) \in 1 .. n /\ Any(t) \in t
             /\ h[t] = f[Any(t)] * h[t \ {Any(t)}]
  <2>1. Any(t) \in t
    BY <1>4, AnyIs
  <2>2. t \ {Any(t)} \in SUBSET (1 .. n) /\ Any(t) \in 1 .. n
    BY <2>1
  <2>3. h[t] = op[f[Any(t)]][h[t \ {Any(t)}]]
    BY <1>3, <1>4 DEF Folds
  <2>4. f[Any(t)] \in Int /\ h[t \ {Any(t)}] \in Int
    BY <2>2
  <2>. QED  BY <1>1, <2>1, <2>2, <2>3, <2>4
<1>5. h[{}] = 1
  BY <1>3 DEF Folds, base
<1>6. h = ProductStep(f, h)
  <2>1. \A t \in SUBSET (1 .. n) : h[t] = IF t = {} THEN 1 ELSE f[Any(t)] * h[t \ {Any(t)}]
    BY <1>4, <1>5
  <2>. QED  BY <2>1 DEF ProductStep
<1>7. g = ProductStep(f, g)
  BY <1>6, Zenon
<1>8. Product(f) = g[1 .. n]
  BY ProductChosen
<1>. HIDE DEF g
<1>9. \A t \in SUBSET (1 .. n) : g[t] = IF t = {} THEN 1 ELSE f[Any(t)] * g[t \ {Any(t)}]
  BY <1>7 DEF ProductStep
<1>10. \A t \in SUBSET (1 .. n) : g[t] = h[t]
  <2>. DEFINE P == {t \in SUBSET (1 .. n) : g[t] = h[t]}
  <2>1. {} \in P
    BY <1>5, <1>9
  <2>2. ASSUME NEW t \in SUBSET (1 .. n), t # {}, \A x \in t : t \ {x} \in P
        PROVE  t \in P
    <3>1. g[t \ {Any(t)}] = h[t \ {Any(t)}]
      BY <1>4, <2>2
    <3>. QED  BY <1>4, <1>9, <2>2, <3>1
  <2>3. \A t \in SUBSET (1 .. n) : t \in P
    <3>. HIDE DEF P
    <3>. QED  BY <2>1, <2>2, SubsetInduction
  <2>. QED  BY <2>3
<1>11. FoldsFreely(h, n, op, base, f)
  BY <1>0, <1>1, <1>2, <1>3 DEF FoldsFreely
<1>b. PICK p \in [0 .. n -> Int] : InOrder(p, h, n, op, base, f)
  BY <1>11, FoldInOrder
<1>12. p[0] = base /\ (\A k \in 1 .. n : p[k] = op[f[k]][p[k - 1]]) /\ h[1 .. n] = p[n]
  BY <1>b DEF InOrder
<1>13. ASSUME NEW k \in 1 .. n
       PROVE  p[k] = p[k - 1] * f[k]
  <2>. DEFINE x == f[k]
              y == p[k - 1]
  <2>1. k - 1 \in 0 .. n /\ k \in 0 .. n
    OBVIOUS
  <2>2. x \in Int /\ y \in Int
    BY <2>1
  <2>3. p[k] = op[x][y]
    BY <1>12
  <2>. HIDE DEF x, y
  <2>4. op[x][y] = x * y
    BY <1>1, <2>2
  <2>5. p[k] = y * x
    BY <2>2, <2>3, <2>4
  <2>. QED  BY <2>5 DEF x, y
<1>14. Product(f) = p[n]
  BY <1>8, <1>10, <1>12
<1>. QED  BY <1>12, <1>13, <1>14 DEF base

\* Whatever else goes through the same steps ends at the sum.
LEMMA SumBy ==
  ASSUME NEW n \in Nat, NEW f \in [1 .. n -> Int], NEW q,
         q[0] = 0, \A k \in 1 .. n : q[k] = q[k - 1] + f[k]
  PROVE  Sum(f) = q[n]
<1>1. PICK p \in [0 .. n -> Int] :
        p[0] = 0 /\ (\A k \in 1 .. n : p[k] = p[k - 1] + f[k]) /\ Sum(f) = p[n]
  BY SumIs
<1>2. Alike(p, q, n)
  BY <1>1 DEF Alike
<1>3. Same(p, q, n)
  BY <1>2, AlikeSame
<1>. QED  BY <1>1, <1>3 DEF Same

LEMMA ProductType ==
  ASSUME NEW n \in Nat, NEW f \in [1 .. n -> Nat]
  PROVE  Product(f) \in Nat /\ ((\A k \in 1 .. n : f[k] # 0) => Product(f) # 0)
<1>1. f \in [1 .. n -> Int]
  OBVIOUS
<1>2. PICK p \in [0 .. n -> Int] :
        p[0] = 1 /\ (\A k \in 1 .. n : p[k] = p[k - 1] * f[k]) /\ Product(f) = p[n]
  BY <1>1, ProductIs
<1>. DEFINE S == {k \in Nat : k <= n => p[k] \in Nat /\ ((\A j \in 1 .. n : f[j] # 0) => p[k] # 0)}
<1>3. 0 \in S
  BY <1>2
<1>4. ASSUME NEW k \in Nat, k \in S
      PROVE  k + 1 \in S
  <2>1. CASE k + 1 <= n
    <3>. DEFINE x == p[k]
                y == f[k + 1]
                z == p[k + 1]
    <3>1. k + 1 \in 1 .. n /\ (k + 1) - 1 = k /\ k <= n
      BY <2>1
    <3>2. z = x * y /\ x \in Nat /\ y \in Nat
      BY <1>2, <1>4, <3>1
    <3>3. (\A j \in 1 .. n : f[j] # 0) => x # 0 /\ y # 0
      BY <1>4, <3>1
    <3>. HIDE DEF x, y, z
    <3>4. z \in Nat /\ (x # 0 /\ y # 0 => z # 0)
      BY <3>2
    <3>. QED  BY <3>3, <3>4 DEF z
  <2>2. CASE ~(k + 1 <= n)
    BY <2>2
  <2>. QED  BY <2>1, <2>2
<1>5. \A k \in Nat : k \in S
  <2>. HIDE DEF S
  <2>. QED  BY <1>3, <1>4, Lemmas!SetInduction
<1>. QED  BY <1>2, <1>5

-----------------------------------------------------------------------------
(* Strides.                                                                *)

\* The product of the extents behind dimension i - 1: what that dimension strides.
Behind(e, i) == Product(SubSeq(e, i, Len(e)))

LEMMA BehindStep ==
  ASSUME NEW e \in Seq(Nat), NEW i \in 1 .. Len(e)
  PROVE  Behind(e, i) = e[i] * Behind(e, i + 1)
<1>. DEFINE n == Len(e)
            q == SubSeq(e, i, n)
            r == SubSeq(e, i + 1, n)
            m == n - i
<1>1. n \in Nat /\ i \in 1 .. n /\ m \in Nat
  BY LenProperties
<1>2. q \in [1 .. m + 1 -> Nat] /\ \A k \in 1 .. m + 1 : q[k] = e[k + i - 1]
  <2>1. q = [k \in 1 .. m + 1 |-> e[k + i - 1]]
    <3>1. 1 + n - i = m + 1
      BY <1>1
    <3>. QED  BY <3>1
  <2>. QED  BY <1>1, <2>1
<1>3. r \in [1 .. m -> Nat] /\ \A k \in 1 .. m : r[k] = e[k + i]
  <2>1. r = [k \in 1 .. m |-> e[k + i]]
    <3>1. 1 + n - (i + 1) = m /\ \A k \in 1 .. m : k + (i + 1) - 1 = k + i
      BY <1>1
    <3>. QED  BY <1>1, <3>1
  <2>2. \A k \in 1 .. m : k + i \in 1 .. n
    BY <1>1
  <2>3. \A k \in 1 .. n : e[k] \in Nat
    BY LenProperties
  <2>4. \A k \in 1 .. m : e[k + i] \in Nat
    BY <2>2, <2>3
  <2>. HIDE DEF r
  <2>. QED  BY <2>1, <2>4
<1>. DEFINE b == e[i]
<1>4. b \in Nat /\ q[1] = b /\ \A k \in 1 .. m : r[k] = q[k + 1] /\ r[k] \in Nat
  BY <1>1, <1>2, <1>3
<1>. HIDE DEF n, q, r, m, b
<1>5. PICK p \in [0 .. m + 1 -> Int] :
        p[0] = 1 /\ (\A k \in 1 .. m + 1 : p[k] = p[k - 1] * q[k]) /\ Product(q) = p[m + 1]
  <2>1. q \in [1 .. m + 1 -> Int] /\ m + 1 \in Nat
    BY <1>1, <1>2
  <2>. QED  BY <2>1, ProductIs
<1>6. PICK s \in [0 .. m -> Int] :
        s[0] = 1 /\ (\A k \in 1 .. m : s[k] = s[k - 1] * r[k]) /\ Product(r) = s[m]
  <2>1. r \in [1 .. m -> Int]
    BY <1>3
  <2>. QED  BY <1>1, <2>1, ProductIs
<1>. DEFINE u == [k \in 0 .. m |-> p[k + 1]]
            v == [k \in 0 .. m |-> b * s[k]]
<1>7. u[0] = v[0]
  <2>1. p[1] = p[0] * q[1]
    BY <1>1, <1>5
  <2>. QED  BY <1>1, <1>4, <1>5, <1>6, <2>1
<1>8. ASSUME NEW k \in 1 .. m, u[k - 1] = v[k - 1]
      PROVE  u[k] = v[k]
  <2>. DEFINE x == s[k - 1]
              y == r[k]
              z == p[k]
  <2>1. p[k + 1] = z * q[k + 1] /\ q[k + 1] = y
    <3>1. k + 1 \in 1 .. m + 1 /\ (k + 1) - 1 = k
      BY <1>1
    <3>. QED  BY <1>4, <1>5, <3>1
  <2>2. z = b * x
    <3>1. k - 1 \in 0 .. m /\ (k - 1) + 1 = k
      BY <1>1
    <3>. QED  BY <1>8, <3>1
  <2>3. s[k] = x * y
    BY <1>6
  <2>4. x \in Int /\ y \in Nat
    <3>1. k - 1 \in 0 .. m
      BY <1>1
    <3>. QED  BY <1>4, <3>1
  <2>5. u[k] = p[k + 1] /\ v[k] = b * s[k]
    BY <1>1
  <2>. HIDE DEF x, y, z, u, v
  <2>6. (b * x) * y = b * (x * y)
    BY <1>4, <2>4
  <2>. QED  BY <2>1, <2>2, <2>3, <2>5, <2>6
<1>9. u[m] = v[m]
  <2>. HIDE DEF u, v
  <2>1. Alike(u, v, m)
    BY <1>7, <1>8 DEF Alike
  <2>2. Same(u, v, m)
    BY <1>1, <2>1, AlikeSame
  <2>. QED  BY <1>1, <2>2 DEF Same
<1>10. Product(q) = b * Product(r)
  BY <1>1, <1>5, <1>6, <1>9
<1>. QED  BY <1>10 DEF Behind, n, q, r, b

LEMMA BehindType ==
  ASSUME NEW e \in Seq(Nat), NEW i \in 1 .. Len(e) + 1
  PROVE  /\ Behind(e, i) \in Nat
         /\ (\A k \in i .. Len(e) : e[k] # 0) => Behind(e, i) # 0
         /\ i = Len(e) + 1 => Behind(e, i) = 1
<1>. DEFINE n == Len(e)
            q == SubSeq(e, i, n)
            m == n + 1 - i
<1>1. n \in Nat /\ i \in 1 .. n + 1 /\ m \in Nat
  BY LenProperties
<1>2. q \in [1 .. m -> Nat] /\ \A k \in 1 .. m : q[k] = e[k + i - 1] /\ k + i - 1 \in i .. n
  <2>1. q = [k \in 1 .. m |-> e[k + i - 1]]
    <3>1. 1 + n - i = m
      BY <1>1
    <3>. QED  BY <3>1
  <2>. QED  BY <1>1, <2>1
<1>. HIDE DEF n, q, m
<1>3. Product(q) \in Nat /\ ((\A k \in 1 .. m : q[k] # 0) => Product(q) # 0)
  BY <1>1, <1>2, ProductType
<1>4. i = n + 1 => Product(q) = 1
  <2>1. SUFFICES ASSUME i = n + 1
                 PROVE  Product(q) = 1
    OBVIOUS
  <2>2. m = 0 /\ q \in [1 .. m -> Int]
    BY <1>1, <1>2, <2>1 DEF m
  <2>. QED  BY <1>1, <2>2, ProductIs
<1>5. (\A k \in i .. n : e[k] # 0) => Product(q) # 0
  BY <1>2, <1>3
<1>. QED  BY <1>3, <1>4, <1>5 DEF Behind, n, q

(* A span has an extent for each dimension, and none but the first is 0:   *)
(* it may have no rows, and no row is without elements.                    *)
GoodExtents(e) ==
  e \in Seq(Nat) /\ e # <<>> /\ \A i \in DOMAIN e : i > 1 => e[i] # 0

Stride(e) == [i \in 0 .. Len(e) |-> Behind(e, i + 1)]

IsStride(e, n, b) ==
  /\ n \in Nat \ {0} /\ e \in [1 .. n -> Nat] /\ b \in [0 .. n -> Nat]
  /\ b[n] = 1 /\ \A i \in 1 .. n : b[i - 1] = e[i] * b[i]
  /\ Size(e) = b[0]
  /\ MakeStride(e) = [i \in 1 .. n |-> b[i]]

\* What the strides of any extents have in common.
LEMMA AnyStride ==
  ASSUME NEW e \in Seq(Nat), e # <<>>
  PROVE  IsStride(e, Len(e), Stride(e))
<1>. DEFINE n == Len(e)
            b == Stride(e)
<1>1. n \in Nat \ {0} /\ e \in [1 .. n -> Nat] /\ DOMAIN e = 1 .. n
  <2>1. n \in Nat /\ e \in [1 .. n -> Nat] /\ DOMAIN e = 1 .. n
    BY LenProperties
  <2>2. n # 0
    BY EmptySeq
  <2>. QED  BY <2>1, <2>2
<1>2. b = [i \in 0 .. n |-> Behind(e, i + 1)]
  BY DEF Stride
<1>. HIDE DEF n, b
<1>3. ASSUME NEW i \in 0 .. n
      PROVE  b[i] = Behind(e, i + 1) /\ b[i] \in Nat
  <2>1. i + 1 \in 1 .. Len(e) + 1
    BY <1>1 DEF n
  <2>. QED  BY <1>1, <1>2, <2>1, BehindType
<1>4. b \in [0 .. n -> Nat]
  <2>1. b = [i \in 0 .. n |-> b[i]]
    BY <1>2
  <2>. QED  BY <1>3, <2>1
<1>5. b[n] = 1
  <2>1. n + 1 \in 1 .. Len(e) + 1 /\ n + 1 = Len(e) + 1
    BY <1>1 DEF n
  <2>2. Behind(e, n + 1) = 1
    BY <1>1, <2>1, BehindType
  <2>. QED  BY <1>1, <1>3, <2>2
<1>6. ASSUME NEW i \in 1 .. n
      PROVE  b[i - 1] = e[i] * b[i]
  <2>1. i - 1 \in 0 .. n /\ i \in 0 .. n /\ (i - 1) + 1 = i /\ i \in 1 .. Len(e)
    BY <1>1 DEF n
  <2>2. Behind(e, i) = e[i] * Behind(e, i + 1)
    BY <1>1, <2>1, BehindStep
  <2>3. b[i - 1] = Behind(e, i) /\ b[i] = Behind(e, i + 1)
    BY <1>3, <2>1
  <2>. QED  BY <2>2, <2>3
<1>7. Size(e) = b[0]
  <2>1. SubSeq(e, 1, n) = e
    <3>1. SubSeq(e, 1, n) = [k \in 1 .. n |-> e[k]]
      <4>1. 1 + n - 1 = n /\ \A k \in 1 .. n : k + 1 - 1 = k
        BY <1>1
      <4>. QED  BY <1>1, <4>1
    <3>. QED  BY <1>1, <3>1
  <2>2. Behind(e, 1) = Product(e)
    BY <2>1 DEF Behind, n
  <2>3. 0 \in 0 .. n /\ 0 + 1 = 1
    BY <1>1
  <2>4. b[0] = Behind(e, 1)
    BY <1>3, <2>3
  <2>. QED  BY <2>2, <2>4 DEF Size
<1>8. MakeStride(e) = [i \in 1 .. n |-> b[i]]
  <2>1. MakeStride(e) = [i \in 1 .. n |-> Behind(e, i + 1)]
    BY <1>1 DEF MakeStride, Behind
  <2>2. \A i \in 1 .. n : b[i] = Behind(e, i + 1)
    <3>1. \A i \in 1 .. n : i \in 0 .. n
      BY <1>1
    <3>. QED  BY <1>3, <3>1
  <2>. QED  BY <2>1, <2>2
<1>9. IsStride(e, n, b)
  BY <1>1, <1>4, <1>5, <1>6, <1>7, <1>8 DEF IsStride
<1>. QED  BY <1>9 DEF n, b

\* No row is without elements: none of the strides is 0.
Positive(e, n, b) == \A i \in 1 .. n : b[i] # 0 /\ (i > 1 => e[i] # 0)

LEMMA StrideIs ==
  ASSUME NEW e, GoodExtents(e)
  PROVE  IsStride(e, Len(e), Stride(e)) /\ Positive(e, Len(e), Stride(e))
<1>. DEFINE n == Len(e)
            b == Stride(e)
<1>1. e \in Seq(Nat) /\ e # <<>> /\ DOMAIN e = 1 .. n /\ n \in Nat
      /\ \A i \in 1 .. n : i > 1 => e[i] # 0
  BY LenProperties DEF GoodExtents
<1>2. IsStride(e, n, b)
  BY <1>1, AnyStride
<1>3. b = [i \in 0 .. n |-> Behind(e, i + 1)]
  BY DEF Stride
<1>. HIDE DEF n, b
<1>4. ASSUME NEW i \in 1 .. n
      PROVE  b[i] # 0
  <2>1. i \in 0 .. n /\ i + 1 \in 1 .. Len(e) + 1
    BY <1>1 DEF n
  <2>2. \A k \in i + 1 .. Len(e) : e[k] # 0
    <3>1. \A k \in i + 1 .. n : k \in 1 .. n /\ k > 1
      BY <1>1
    <3>. QED  BY <1>1, <3>1 DEF n
  <2>3. Behind(e, i + 1) # 0
    BY <1>1, <2>1, <2>2, BehindType
  <2>. QED  BY <1>3, <2>1, <2>3
<1>5. Positive(e, n, b)
  BY <1>1, <1>4 DEF Positive
<1>. QED  BY <1>2, <1>5 DEF n, b

-----------------------------------------------------------------------------
(* How far an index is from the first one.                                 *)

Terms(b, a) == [i \in DOMAIN a |-> a[i] * b[i]]

Offset(b, a) == Sum(Terms(b, a))

Steps(p, a, b, n) == p[0] = 0 /\ \A k \in 1 .. n : p[k] = p[k - 1] + a[k] * b[k]

\* Numbers an index is weighed with, one for each dimension.
Weights(b, n) == n \in Nat /\ \A i \in 1 .. n : b[i] \in Nat

LEMMA StrideWeights ==
  ASSUME NEW e, NEW n, NEW b, IsStride(e, n, b)
  PROVE  Weights(b, n)
<1>1. n \in Nat /\ b \in [0 .. n -> Nat] /\ \A i \in 1 .. n : i \in 0 .. n
  BY DEF IsStride
<1>. QED  BY <1>1 DEF Weights

AreTerms(f, a, b, n) ==
  f \in [1 .. n -> Int] /\ \A k \in 1 .. n : f[k] = a[k] * b[k]

LEMMA OffsetType ==
  ASSUME NEW n, NEW b, Weights(b, n), NEW a \in [1 .. n -> Int]
  PROVE  AreTerms(Terms(b, a), a, b, n)
<1>1. n \in Nat /\ \A i \in 1 .. n : b[i] \in Nat
  BY DEF Weights
<1>2. ASSUME NEW i \in 1 .. n
      PROVE  a[i] * b[i] \in Int
  <2>. DEFINE x == a[i]
              y == b[i]
  <2>1. x \in Int /\ y \in Nat
    BY <1>1
  <2>. HIDE DEF x, y
  <2>2. x * y \in Int
    BY <2>1
  <2>. QED  BY <2>2 DEF x, y
<1>. QED  BY <1>2 DEF Terms, AreTerms

\* It is added up dimension by dimension, and by nothing else.
LEMMA OffsetSteps ==
  ASSUME NEW n, NEW b, Weights(b, n), NEW a \in [1 .. n -> Int]
  PROVE  \E p \in [0 .. n -> Int] : Steps(p, a, b, n) /\ Offset(b, a) = p[n]
<1>. DEFINE f == Terms(b, a)
<1>1. n \in Nat
  BY DEF Weights
<1>2. f \in [1 .. n -> Int] /\ \A k \in 1 .. n : f[k] = a[k] * b[k]
  <2>1. AreTerms(f, a, b, n)
    BY OffsetType
  <2>. QED  BY <2>1 DEF AreTerms
<1>3. Offset(b, a) = Sum(f)
  BY DEF Offset
<1>. HIDE DEF f
<1>4. PICK p \in [0 .. n -> Int] :
        p[0] = 0 /\ (\A k \in 1 .. n : p[k] = p[k - 1] + f[k]) /\ Sum(f) = p[n]
  BY <1>1, <1>2, SumIs
<1>5. Steps(p, a, b, n)
  BY <1>2, <1>4 DEF Steps
<1>. QED  BY <1>3, <1>4, <1>5

LEMMA OffsetBy ==
  ASSUME NEW n, NEW b, Weights(b, n), NEW a \in [1 .. n -> Int],
         NEW q, Steps(q, a, b, n)
  PROVE  Offset(b, a) = q[n]
<1>. DEFINE f == Terms(b, a)
<1>1. n \in Nat
  BY DEF Weights
<1>2. f \in [1 .. n -> Int] /\ \A k \in 1 .. n : f[k] = a[k] * b[k]
  <2>1. AreTerms(f, a, b, n)
    BY OffsetType
  <2>. QED  BY <2>1 DEF AreTerms
<1>3. Offset(b, a) = Sum(f)
  BY DEF Offset
<1>. HIDE DEF f
<1>4. q[0] = 0 /\ \A k \in 1 .. n : q[k] = q[k - 1] + f[k]
  BY <1>2 DEF Steps
<1>. QED  BY <1>1, <1>2, <1>3, <1>4, SumBy

LEMMA OffsetNat ==
  ASSUME NEW n, NEW b, Weights(b, n), NEW a \in [1 .. n -> Nat]
  PROVE  Offset(b, a) \in Nat
<1>1. n \in Nat /\ \A i \in 1 .. n : b[i] \in Nat
  BY DEF Weights
<1>2. a \in [1 .. n -> Int]
  OBVIOUS
<1>3. PICK p \in [0 .. n -> Int] : Steps(p, a, b, n) /\ Offset(b, a) = p[n]
  BY <1>2, OffsetSteps
<1>. DEFINE S == {k \in Nat : k <= n => p[k] \in Nat}
<1>4. 0 \in S
  BY <1>3 DEF Steps
<1>5. ASSUME NEW k \in Nat, k \in S
      PROVE  k + 1 \in S
  <2>1. SUFFICES ASSUME k + 1 <= n
                 PROVE  p[k + 1] \in Nat
    OBVIOUS
  <2>. DEFINE x == p[k]
              y == p[k + 1]
              c == a[k + 1]
              d == b[k + 1]
  <2>2. k + 1 \in 1 .. n /\ (k + 1) - 1 = k
    BY <1>1, <2>1
  <2>3. x \in Nat /\ c \in Nat /\ d \in Nat /\ y = x + c * d
    BY <1>1, <1>3, <1>5, <2>1, <2>2 DEF Steps
  <2>. HIDE DEF x, y, c, d
  <2>4. y \in Nat
    BY <2>3
  <2>. QED  BY <2>4 DEF y
<1>6. \A k \in Nat : k \in S
  <2>. HIDE DEF S
  <2>. QED  BY <1>4, <1>5, Lemmas!SetInduction
<1>. QED  BY <1>1, <1>3, <1>6

\* The components of an index in range.
Within(e, a) == \A i \in DOMAIN e : a[i] < e[i]

\* Past the last row, where += goes.
PastRows(e) == [i \in DOMAIN e |-> IF i = 1 THEN e[1] ELSE 0]

Less1(e) == [i \in DOMAIN e |-> e[i] - 1]

LEMMA ZeroOffset ==
  ASSUME NEW e, NEW n, NEW b, IsStride(e, n, b)
  PROVE  Zero(e) \in [1 .. n -> Nat] /\ Offset(b, Zero(e)) = 0
<1>. DEFINE a == Zero(e)
            q == [k \in 0 .. n |-> 0]
<1>1. n \in Nat /\ DOMAIN e = 1 .. n /\ b \in [0 .. n -> Nat]
  BY DEF IsStride
<1>2. a = [i \in 1 .. n |-> 0]
  BY <1>1 DEF Zero
<1>3. a \in [1 .. n -> Nat] /\ a \in [1 .. n -> Int]
  BY <1>2
<1>4. Steps(q, a, b, n)
  <2>1. ASSUME NEW k \in 1 .. n
        PROVE  q[k] = q[k - 1] + a[k] * b[k]
    <3>1. k \in 0 .. n /\ k - 1 \in 0 .. n
      BY <1>1
    <3>2. b[k] \in Nat
      BY <1>1, <3>1
    <3>. QED  BY <1>2, <3>1, <3>2
  <2>. QED  BY <1>1, <2>1 DEF Steps
<1>5. q[n] = 0
  BY <1>1
<1>. HIDE DEF a, q
<1>6. Offset(b, a) = q[n]
  BY <1>3, <1>4, StrideWeights, OffsetBy
<1>. QED  BY <1>3, <1>5, <1>6 DEF a

\* The last index is one short of the size.
LEMMA LastOffset ==
  ASSUME NEW e, NEW n, NEW b, IsStride(e, n, b)
  PROVE  Less1(e) \in [1 .. n -> Int] /\ Offset(b, Less1(e)) = b[0] - 1
<1>. DEFINE a == Less1(e)
            q == [k \in 0 .. n |-> b[0] - b[k]]
<1>1. n \in Nat /\ DOMAIN e = 1 .. n /\ b \in [0 .. n -> Nat] /\ e \in [1 .. n -> Nat]
      /\ b[n] = 1 /\ \A i \in 1 .. n : b[i - 1] = e[i] * b[i]
  BY DEF IsStride
<1>2. a = [i \in 1 .. n |-> e[i] - 1]
  BY <1>1 DEF Less1
<1>3. a \in [1 .. n -> Int]
  <2>1. \A i \in 1 .. n : e[i] - 1 \in Int
    BY <1>1
  <2>. QED  BY <1>2, <2>1
<1>4. Steps(q, a, b, n)
  <2>1. ASSUME NEW k \in 1 .. n
        PROVE  q[k] = q[k - 1] + a[k] * b[k]
    <3>. DEFINE x == b[k]
                y == b[k - 1]
                z == b[0]
                w == e[k]
    <3>1. k \in 0 .. n /\ k - 1 \in 0 .. n /\ 0 \in 0 .. n
      BY <1>1
    <3>2. x \in Nat /\ y \in Nat /\ z \in Nat /\ w \in Nat /\ y = w * x
      BY <1>1, <3>1
    <3>3. q[k] = z - x /\ q[k - 1] = z - y /\ a[k] = w - 1
      BY <1>2, <3>1
    <3>. HIDE DEF x, y, z, w, q, a
    <3>4. z - x = z - y + (w - 1) * x
      BY <3>2
    <3>. QED  BY <3>3, <3>4 DEF x
  <2>2. q[0] = 0
    BY <1>1
  <2>. HIDE DEF q, a
  <2>. QED  BY <2>1, <2>2 DEF Steps
<1>5. q[n] = b[0] - 1
  BY <1>1
<1>. HIDE DEF a, q
<1>6. Offset(b, a) = q[n]
  BY <1>3, <1>4, StrideWeights, OffsetBy
<1>. QED  BY <1>3, <1>5, <1>6 DEF a

\* Past the last row is the size.
LEMMA PastRowsOffset ==
  ASSUME NEW e, NEW n, NEW b, IsStride(e, n, b)
  PROVE  PastRows(e) \in [1 .. n -> Nat] /\ Offset(b, PastRows(e)) = b[0]
<1>. DEFINE a == PastRows(e)
            q == [k \in 0 .. n |-> IF k = 0 THEN 0 ELSE b[0]]
<1>1. n \in Nat \ {0} /\ DOMAIN e = 1 .. n /\ b \in [0 .. n -> Nat] /\ e \in [1 .. n -> Nat]
      /\ \A i \in 1 .. n : b[i - 1] = e[i] * b[i]
  BY DEF IsStride
<1>2. a = [i \in 1 .. n |-> IF i = 1 THEN e[1] ELSE 0] /\ e[1] \in Nat
  BY <1>1 DEF PastRows
<1>3. a \in [1 .. n -> Nat] /\ a \in [1 .. n -> Int]
  BY <1>2
<1>4. Steps(q, a, b, n)
  <2>1. ASSUME NEW k \in 1 .. n
        PROVE  q[k] = q[k - 1] + a[k] * b[k]
    <3>. DEFINE x == b[k]
                z == b[0]
                w == e[1]
    <3>1. k \in 0 .. n /\ k - 1 \in 0 .. n /\ 0 \in 0 .. n /\ (k - 1 = 0 <=> k = 1) /\ k # 0
      BY <1>1
    <3>2. x \in Nat /\ z \in Nat /\ w \in Nat
      BY <1>1, <1>2, <3>1
    <3>3. q[k] = z /\ q[k - 1] = (IF k = 1 THEN 0 ELSE z) /\ a[k] = (IF k = 1 THEN w ELSE 0)
      BY <1>2, <3>1
    <3>4. k = 1 => z = w * x
      BY <1>1
    <3>. HIDE DEF x, z, w, q, a
    <3>5. 0 + w * x = w * x /\ z + 0 * x = z
      BY <3>2
    <3>. QED  BY <3>3, <3>4, <3>5 DEF x
  <2>2. q[0] = 0
    BY <1>1
  <2>. HIDE DEF q, a
  <2>. QED  BY <2>1, <2>2 DEF Steps
<1>5. q[n] = b[0]
  BY <1>1
<1>. HIDE DEF a, q
<1>6. Offset(b, a) = q[n]
  BY <1>3, <1>4, StrideWeights, OffsetBy
<1>. QED  BY <1>3, <1>5, <1>6 DEF a

\* An index in range is before the end.
LEMMA OffsetWithin ==
  ASSUME NEW e, NEW n, NEW b, IsStride(e, n, b), NEW a \in [1 .. n -> Nat], Within(e, a)
  PROVE  Offset(b, a) \in Nat /\ Offset(b, a) < b[0]
<1>1. n \in Nat /\ DOMAIN e = 1 .. n /\ b \in [0 .. n -> Nat] /\ e \in [1 .. n -> Nat]
      /\ b[n] = 1 /\ \A i \in 1 .. n : b[i - 1] = e[i] * b[i]
  BY DEF IsStride
<1>2. a \in [1 .. n -> Int]
  OBVIOUS
<1>3. PICK p \in [0 .. n -> Int] : Steps(p, a, b, n) /\ Offset(b, a) = p[n]
  BY <1>2, StrideWeights, OffsetSteps
<1>. DEFINE S == {k \in Nat : k <= n => p[k] \in Nat /\ p[k] + b[k] <= b[0]}
<1>4. 0 \in S
  BY <1>1, <1>3 DEF Steps
<1>5. ASSUME NEW k \in Nat, k \in S
      PROVE  k + 1 \in S
  <2>1. SUFFICES ASSUME k + 1 <= n
                 PROVE  p[k + 1] \in Nat /\ p[k + 1] + b[k + 1] <= b[0]
    OBVIOUS
  <2>. DEFINE x == p[k]
              y == p[k + 1]
              u == b[k]
              v == b[k + 1]
              z == b[0]
              c == a[k + 1]
              d == e[k + 1]
  <2>2. k + 1 \in 1 .. n /\ (k + 1) - 1 = k /\ k \in 0 .. n /\ k + 1 \in 0 .. n /\ 0 \in 0 .. n
    BY <1>1, <2>1
  <2>3. /\ x \in Nat /\ x + u <= z /\ u \in Nat /\ v \in Nat /\ z \in Nat
        /\ c \in Nat /\ d \in Nat /\ c < d /\ y = x + c * v /\ u = d * v
    BY SMTT(30), <1>1, <1>3, <1>5, <2>1, <2>2 DEF Steps, Within
  <2>. HIDE DEF x, y, u, v, z, c, d
  <2>4. c * v \in Nat /\ c * v + v <= d * v
    <3>. DEFINE g == d - c - 1
    <3>1. g \in Nat /\ d = c + 1 + g
      BY <2>3
    <3>. HIDE DEF g
    <3>2. d * v = c * v + v + g * v /\ g * v \in Nat /\ c * v \in Nat
      BY <2>3, <3>1
    <3>. QED  BY <2>3, <3>2
  <2>5. y \in Nat /\ y + v <= z
    <3>. DEFINE h == c * v
    <3>1. h \in Nat /\ h + v <= u /\ y = x + h
      BY <2>3, <2>4
    <3>. HIDE DEF h
    <3>. QED  BY <2>3, <3>1
  <2>. QED  BY <2>5 DEF y, v, z
<1>6. \A k \in Nat : k \in S
  <2>. HIDE DEF S
  <2>. QED  BY <1>4, <1>5, Lemmas!SetInduction
<1>7. p[n] \in Nat /\ p[n] + 1 <= b[0]
  BY <1>1, <1>6
<1>8. b[0] \in Nat
  BY <1>1
<1>. QED  BY <1>3, <1>7, <1>8

\* The next index, with the carries that reset what is behind dimension m.
Follows(c, a, e, n, m) ==
  /\ a \in [1 .. n -> Int] /\ c \in [1 .. n -> Int] /\ m \in 1 .. n
  /\ \A i \in 1 .. n : c[i] = IF i < m THEN a[i] ELSE IF i = m THEN a[i] + 1 ELSE 0
  /\ \A i \in 1 .. n : i > m => a[i] = e[i] - 1

LEMMA OffsetSuccessor ==
  ASSUME NEW e, NEW n, NEW b, IsStride(e, n, b), NEW a, NEW c, NEW m, Follows(c, a, e, n, m)
  PROVE  Offset(b, c) = Offset(b, a) + 1
<1>0. /\ a \in [1 .. n -> Int] /\ c \in [1 .. n -> Int] /\ m \in 1 .. n
      /\ \A i \in 1 .. n : c[i] = IF i < m THEN a[i] ELSE IF i = m THEN a[i] + 1 ELSE 0
      /\ \A i \in 1 .. n : i > m => a[i] = e[i] - 1
  BY DEF Follows
<1>1. n \in Nat /\ b \in [0 .. n -> Nat] /\ e \in [1 .. n -> Nat]
      /\ b[n] = 1 /\ \A i \in 1 .. n : b[i - 1] = e[i] * b[i]
  BY DEF IsStride
<1>2. PICK p \in [0 .. n -> Int] : Steps(p, a, b, n) /\ Offset(b, a) = p[n]
  BY <1>0, StrideWeights, OffsetSteps
<1>. DEFINE q == [k \in 0 .. n |-> IF k < m THEN p[k] ELSE p[k] + b[k]]
<1>3. Steps(q, c, b, n)
  <2>1. q[0] = 0
    BY <1>0, <1>1, <1>2 DEF Steps
  <2>2. ASSUME NEW k \in 1 .. n
        PROVE  q[k] = q[k - 1] + c[k] * b[k]
    <3>. DEFINE x == p[k - 1]
                y == p[k]
                u == b[k - 1]
                v == b[k]
                f == a[k]
                g == c[k]
                d == e[k]
    <3>1. k \in 0 .. n /\ k - 1 \in 0 .. n
      BY <1>1
    <3>2. /\ x \in Int /\ y \in Int /\ u \in Nat /\ v \in Nat /\ f \in Int /\ d \in Nat
          /\ y = x + f * v /\ u = d * v
      BY <1>0, <1>1, <1>2, <3>1 DEF Steps
    <3>3. /\ q[k] = (IF k < m THEN y ELSE y + v)
          /\ q[k - 1] = (IF k - 1 < m THEN x ELSE x + u)
      BY <3>1
    <3>4. /\ k < m => g = f
          /\ k = m => g = f + 1
          /\ k > m => g = 0 /\ f = d - 1
      BY <1>0
    <3>. HIDE DEF x, y, u, v, f, g, d, q
    <3>5. CASE k < m
      <4>1. q[k] = y /\ q[k - 1] = x /\ g = f
        BY <1>0, <3>3, <3>4, <3>5
      <4>. QED  BY <3>2, <4>1 DEF g, v
    <3>6. CASE k = m
      <4>1. q[k] = y + v /\ q[k - 1] = x /\ g = f + 1
        BY <1>0, <3>3, <3>4, <3>6
      <4>2. (x + f * v) + v = x + (f + 1) * v
        BY <3>2
      <4>. QED  BY <3>2, <4>1, <4>2 DEF g, v
    <3>7. CASE k > m
      <4>1. q[k] = y + v /\ q[k - 1] = x + u /\ g = 0 /\ f = d - 1
        BY <1>0, <3>3, <3>4, <3>7
      <4>2. (x + (d - 1) * v) + v = (x + d * v) + 0 * v
        BY <3>2
      <4>3. q[k] = q[k - 1] + g * v
        BY <3>2, <4>1, <4>2
      <4>. QED  BY <4>3 DEF g, v
    <3>. QED  BY <1>0, <3>5, <3>6, <3>7
  <2>. HIDE DEF q
  <2>. QED  BY <2>1, <2>2 DEF Steps
<1>4. q[n] = p[n] + 1
  BY <1>0, <1>1
<1>. HIDE DEF q
<1>5. Offset(b, c) = q[n]
  BY <1>0, <1>3, StrideWeights, OffsetBy
<1>. QED  BY <1>2, <1>4, <1>5

-----------------------------------------------------------------------------
(* The places of an iterator.                                              *)

LEMMA Remainder ==
  ASSUME NEW x \in Nat, NEW d \in Nat \ {0}
  PROVE  /\ x \div d \in Nat /\ x % d \in Nat /\ x % d < d
         /\ (x \div d) * d = x - (x % d)
OBVIOUS

LEMMA RemainderOfSum ==
  ASSUME NEW m \in Nat, NEW r \in Nat, NEW d \in Nat \ {0}
  PROVE  (m * d + r) % d = r % d /\ (m * d) \div d = m /\ (m * d) % d = 0
<1>1. (m * d + r) \div d = m + (r \div d) /\ (m * d + 0) \div d = m + (0 \div d) /\ 0 \div d = 0
  OBVIOUS
<1>. DEFINE x == m * d + r
            y == m * d
<1>2. x \in Nat /\ y \in Nat /\ x \div d = m + (r \div d) /\ y \div d = m /\ x = y + r
  BY <1>1
<1>. HIDE DEF x, y
<1>3. /\ (x \div d) * d = x - (x % d) /\ (r \div d) * d = r - (r % d)
      /\ (y \div d) * d = y - (y % d)
      /\ r \div d \in Nat /\ x % d \in Nat /\ r % d \in Nat /\ y % d \in Nat
  BY <1>2, Remainder
<1>. DEFINE w == r \div d
            u == x % d
            v == r % d
            z == y % d
<1>4. /\ (m + w) * d = x - u /\ w * d = r - v /\ m * d = y - z
      /\ w \in Nat /\ u \in Nat /\ v \in Nat /\ z \in Nat /\ y = m * d
  BY <1>2, <1>3 DEF y
<1>. HIDE DEF w, u, v, z
<1>5. (m + w) * d = m * d + w * d
  BY <1>4
<1>6. u = v /\ z = 0
  BY <1>2, <1>4, <1>5
<1>. QED  BY <1>2, <1>6 DEF u, v, x, y, z

LEMMA QuotientBelow ==
  ASSUME NEW x \in Nat, NEW d \in Nat \ {0}, NEW m \in Nat, x < m * d
  PROVE  x \div d < m
<1>. DEFINE q == x \div d
            r == x % d
<1>1. q \in Nat /\ r \in Nat /\ q * d = x - r
  BY Remainder
<1>. HIDE DEF q, r
<1>2. SUFFICES ASSUME m <= q
               PROVE  FALSE
  BY <1>1 DEF q
<1>. DEFINE g == q - m
<1>3. g \in Nat /\ q = m + g
  BY <1>1, <1>2
<1>. HIDE DEF g
<1>4. q * d = m * d + g * d /\ g * d \in Nat /\ m * d \in Nat
  BY <1>1, <1>3
<1>. QED  BY <1>1, <1>4

LEMMA MaxIs ==
  ASSUME NEW n \in Nat, NEW t \in SUBSET (1 .. n), t # {}
  PROVE  Max(t) \in t /\ \A x \in t : x <= Max(t)
<1>. DEFINE P == {s \in SUBSET (1 .. n) : s = {} \/ \E x \in s : \A y \in s : x >= y}
<1>1. {} \in P
  OBVIOUS
<1>2. ASSUME NEW s \in SUBSET (1 .. n), s # {}, \A x \in s : s \ {x} \in P
      PROVE  s \in P
  <2>1. PICK x \in s : TRUE
    BY <1>2
  <2>2. CASE s \ {x} = {}
    <3>1. \A y \in s : x >= y
      BY <2>2
    <3>. QED  BY <3>1
  <2>3. CASE s \ {x} # {}
    <3>1. PICK z \in s \ {x} : \A y \in s \ {x} : z >= y
      BY <1>2, <2>1, <2>3
    <3>2. CASE x >= z
      <4>1. \A y \in s : x >= y
        BY <3>1, <3>2
      <4>. QED  BY <2>1, <4>1
    <3>3. CASE ~(x >= z)
      <4>1. \A y \in s : z >= y
        BY <3>1, <3>3
      <4>. QED  BY <3>1, <4>1
    <3>. QED  BY <3>2, <3>3
  <2>. QED  BY <2>2, <2>3
<1>3. t \in P
  <2>. HIDE DEF P
  <2>. QED  BY <1>1, <1>2, SubsetInduction
<1>4. \E x \in t : \A y \in t : x >= y
  BY <1>3
<1>5. Max(t) = CHOOSE x \in t : \A y \in t : x >= y
  BY DEF Max
<1>6. Max(t) \in t /\ \A y \in t : Max(t) >= y
  BY <1>4, <1>5
<1>. QED  BY <1>6

\* The distance from begin, and past the end as well.
LEMMA LinearIndexIs ==
  ASSUME NEW e, NEW n, NEW b, IsStride(e, n, b), NEW a \in [1 .. n -> Int]
  PROVE  LinearIndex(e, a) =
           IF Less(a, e) THEN Offset(b, a) ELSE 1 + Offset(b, Less1(a))
<1>. DEFINE mul == MakeStride(e)
            c == Less1(a)
<1>1. mul = [i \in 1 .. n |-> b[i]] /\ DOMAIN a = 1 .. n
  BY DEF IsStride
<1>2. [i \in DOMAIN a |-> a[i] * mul[i]] = Terms(b, a)
  <2>. HIDE DEF mul
  <2>. QED  BY <1>1 DEF Terms
<1>3. [i \in DOMAIN a |-> (a[i] - 1) * mul[i]] = Terms(b, c)
  <2>. HIDE DEF mul
  <2>1. DOMAIN c = 1 .. n /\ \A i \in 1 .. n : c[i] = a[i] - 1
    BY <1>1 DEF Less1
  <2>. HIDE DEF c
  <2>. QED  BY <1>1, <2>1 DEF Terms
<1>. HIDE DEF c
<1>4. LinearIndex(e, a) = IF Less(a, e) THEN Sum([i \in DOMAIN a |-> a[i] * mul[i]])
                                        ELSE 1 + Sum([i \in DOMAIN a |-> (a[i] - 1) * mul[i]])
  BY DEF LinearIndex
<1>. HIDE DEF mul
<1>5. LinearIndex(e, a) = IF Less(a, e) THEN Sum(Terms(b, a)) ELSE 1 + Sum(Terms(b, c))
  BY <1>2, <1>3, <1>4
<1>. QED  BY <1>5 DEF Offset, c

\* A place: an index in range, or the end, which has two names.
IsPlace(e, a) ==
  a \in [DOMAIN e -> Nat] /\ (Within(e, a) \/ a = e \/ a = PastRows(e))

LEMMA PlaceOffset ==
  ASSUME NEW e, NEW n, NEW b, IsStride(e, n, b), Positive(e, n, b), NEW a, IsPlace(e, a)
  PROVE  /\ LinearIndex(e, a) \in 0 .. b[0]
         /\ Within(e, a) => LinearIndex(e, a) = Offset(b, a) /\ LinearIndex(e, a) < b[0]
         /\ ~Within(e, a) => LinearIndex(e, a) = b[0]
<1>1. n \in Nat \ {0} /\ DOMAIN e = 1 .. n /\ b \in [0 .. n -> Nat] /\ e \in [1 .. n -> Nat]
      /\ b[0] \in Nat
  BY DEF IsStride
<1>2. a \in [1 .. n -> Nat] /\ a \in [1 .. n -> Int] /\ DOMAIN a = 1 .. n
  BY <1>1 DEF IsPlace
<1>3. LinearIndex(e, a) =
        IF Less(a, e) THEN Offset(b, a) ELSE 1 + Offset(b, Less1(a))
  BY <1>2, LinearIndexIs
<1>4. ASSUME Within(e, a)
      PROVE  LinearIndex(e, a) = Offset(b, a) /\ LinearIndex(e, a) < b[0]
             /\ LinearIndex(e, a) \in Nat
  <2>1. Less(a, e)
    BY <1>1, <1>2, <1>4 DEF Less, Within
  <2>. QED  BY <1>2, <1>3, <1>4, <2>1, OffsetWithin
<1>5. ASSUME a = e
      PROVE  LinearIndex(e, a) = b[0]
  <2>1. ~Less(a, e)
    BY <1>1, <1>5 DEF Less
  <2>3. Offset(b, Less1(e)) = b[0] - 1
    BY LastOffset
  <2>4. LinearIndex(e, a) = 1 + Offset(b, Less1(e))
    BY <1>3, <1>5, <2>1
  <2>. QED  BY <1>1, <2>3, <2>4
<1>6. ASSUME a = PastRows(e)
      PROVE  LinearIndex(e, a) = b[0]
  <2>1. CASE n = 1
    <3>1. a = e
      <4>1. \A i \in 1 .. n : i = 1
        BY <2>1
      <4>. QED  BY <1>1, <1>6, <4>1 DEF PastRows
    <3>. QED  BY <1>5, <3>1
  <2>2. CASE n # 1
    <3>1. 2 \in 1 .. n /\ e[2] # 0 /\ a[2] = 0
      <4>1. 2 \in 1 .. n /\ n > 1
        BY <1>1, <2>2
      <4>. QED  BY <1>1, <1>6, <4>1 DEF PastRows, Positive
    <3>2. a[2] < e[2]
      BY <1>1, <3>1
    <3>3. Less(a, e)
      BY <1>2, <3>1, <3>2 DEF Less
    <3>4. Offset(b, a) = b[0]
      BY <1>6, PastRowsOffset
    <3>. QED  BY <1>3, <3>3, <3>4
  <2>. QED  BY <2>1, <2>2
<1>7. CASE Within(e, a)
  BY <1>1, <1>4, <1>7
<1>8. CASE ~Within(e, a)
  <2>1. LinearIndex(e, a) = b[0]
    BY <1>5, <1>6, <1>8 DEF IsPlace
  <2>. QED  BY <1>1, <1>8, <2>1
<1>. QED  BY <1>7, <1>8

\* Where an iterator is tells how far it has come.
LEMMA PlaceIndex ==
  ASSUME NEW e, GoodExtents(e), NEW a, IsPlace(e, a)
  PROVE  /\ Size(e) \in Nat /\ LinearIndex(e, a) \in 0 .. Size(e)
         /\ LinearIndex(e, a) < Size(e) <=> Within(e, a)
         /\ ~Within(e, a) => LinearIndex(e, a) = Size(e)
<1>. DEFINE n == Len(e)
            b == Stride(e)
<1>1. IsStride(e, n, b) /\ Positive(e, n, b)
  BY StrideIs
<1>. HIDE DEF n, b
<1>2. Size(e) = b[0] /\ b[0] \in Nat
  BY <1>1 DEF IsStride
<1>3. /\ LinearIndex(e, a) \in 0 .. b[0]
      /\ Within(e, a) => LinearIndex(e, a) = Offset(b, a) /\ LinearIndex(e, a) < b[0]
      /\ ~Within(e, a) => LinearIndex(e, a) = b[0]
  BY <1>1, PlaceOffset
<1>. QED  BY <1>2, <1>3

LEMMA EndPlace ==
  ASSUME NEW e, GoodExtents(e)
  PROVE  IsPlace(e, e) /\ LinearIndex(e, e) = Size(e)
<1>. DEFINE n == Len(e)
            b == Stride(e)
<1>1. IsStride(e, n, b) /\ Positive(e, n, b)
  BY StrideIs
<1>. HIDE DEF n, b
<1>2. n \in Nat \ {0} /\ DOMAIN e = 1 .. n /\ e \in [1 .. n -> Nat]
  BY <1>1 DEF IsStride
<1>3. IsPlace(e, e)
  BY <1>2 DEF IsPlace
<1>4. ~Within(e, e)
  <2>1. 1 \in DOMAIN e /\ e[1] \in Nat
    BY <1>2
  <2>. QED  BY <2>1 DEF Within
<1>. QED  BY <1>3, <1>4, PlaceIndex

LEMMA BeginPlace ==
  ASSUME NEW e, GoodExtents(e)
  PROVE  IsPlace(e, Zero(e)) /\ LinearIndex(e, Zero(e)) = 0
<1>. DEFINE n == Len(e)
            b == Stride(e)
            a == Zero(e)
<1>1. IsStride(e, n, b) /\ Positive(e, n, b)
  BY StrideIs
<1>. HIDE DEF n, b
<1>2. /\ n \in Nat \ {0} /\ DOMAIN e = 1 .. n /\ e \in [1 .. n -> Nat] /\ b \in [0 .. n -> Nat]
      /\ \A i \in 1 .. n : b[i - 1] = e[i] * b[i]
      /\ \A i \in 1 .. n : i > 1 => e[i] # 0
  BY <1>1 DEF IsStride, Positive
<1>3. a = [i \in 1 .. n |-> 0] /\ a \in [DOMAIN e -> Nat]
  BY <1>2 DEF Zero
<1>4. Offset(b, a) = 0
  BY <1>1, ZeroOffset
<1>. HIDE DEF a
<1>5. CASE \A i \in 1 .. n : e[i] # 0
  <2>1. Within(e, a)
    BY <1>2, <1>3, <1>5 DEF Within
  <2>2. IsPlace(e, a)
    BY <1>3, <2>1 DEF IsPlace
  <2>. QED  BY <1>1, <1>4, <2>1, <2>2, PlaceOffset DEF a
<1>6. CASE ~(\A i \in 1 .. n : e[i] # 0)
  <2>1. e[1] = 0
    BY <1>2, <1>6
  <2>2. a = PastRows(e) /\ IsPlace(e, a)
    <3>1. a = PastRows(e)
      BY <1>2, <1>3, <2>1 DEF PastRows
    <3>. QED  BY <1>3, <3>1 DEF IsPlace
  <2>3. b[0] = 0
    <3>1. b[1] \in Nat /\ b[1 - 1] = e[1] * b[1]
      BY <1>2
    <3>. QED  BY <2>1, <3>1
  <2>4. ~Within(e, a)
    <3>1. 1 \in DOMAIN e /\ ~(a[1] < e[1])
      BY <1>2, <1>3, <2>1
    <3>. QED  BY <3>1 DEF Within
  <2>. QED  BY <1>1, <2>2, <2>3, <2>4, PlaceOffset DEF a
<1>. QED  BY <1>5, <1>6

\* ++ goes one further, and from the last index to the end that is compared with.
LEMMA IncrementedPlace ==
  ASSUME NEW e, GoodExtents(e), NEW a, IsPlace(e, a), LinearIndex(e, a) < Size(e)
  PROVE  /\ IsPlace(e, Incremented(e, a))
         /\ LinearIndex(e, Incremented(e, a)) = LinearIndex(e, a) + 1
         /\ Within(e, Incremented(e, a)) \/ Incremented(e, a) = e
<1>. DEFINE n == Len(e)
            b == Stride(e)
            c == Incremented(e, a)
            room == {i \in DOMAIN a : a[i] < e[i] - 1}
            m == Max(room)
<1>1. IsStride(e, n, b) /\ Positive(e, n, b)
  BY StrideIs
<1>. HIDE DEF n, b
<1>2. n \in Nat \ {0} /\ DOMAIN e = 1 .. n /\ e \in [1 .. n -> Nat] /\ b \in [0 .. n -> Nat]
      /\ Size(e) = b[0]
  BY <1>1 DEF IsStride
<1>3. a \in [1 .. n -> Nat] /\ a \in [1 .. n -> Int] /\ DOMAIN a = 1 .. n
  BY <1>2 DEF IsPlace
<1>4. Within(e, a)
  BY PlaceIndex
<1>5. LinearIndex(e, a) = Offset(b, a)
  BY <1>1, <1>4, PlaceOffset
<1>6. CASE room = {}
  <2>1. c = e
    BY <1>6 DEF Incremented
  <2>2. a = Less1(e)
    <3>1. ASSUME NEW i \in 1 .. n
          PROVE  a[i] = e[i] - 1
      <4>1. a[i] < e[i] /\ ~(a[i] < e[i] - 1) /\ a[i] \in Nat /\ e[i] \in Nat
        BY <1>2, <1>3, <1>4, <1>6 DEF Within
      <4>. QED  BY <4>1
    <3>. QED  BY <1>2, <1>3, <3>1 DEF Less1
  <2>3. Offset(b, a) = b[0] - 1
    BY <1>1, <2>2, LastOffset
  <2>4. IsPlace(e, c) /\ LinearIndex(e, c) = Size(e)
    BY <2>1, EndPlace
  <2>5. b[0] \in Nat
    BY <1>2
  <2>6. LinearIndex(e, c) = LinearIndex(e, a) + 1
    BY <1>2, <1>5, <2>3, <2>4, <2>5
  <2>. QED  BY <2>1, <2>4, <2>6
<1>7. CASE room # {}
  <2>1. c = [i \in DOMAIN a |-> CASE i < m -> a[i]
                                  [] i = m -> a[i] + 1
                                  [] OTHER -> 0]
    BY <1>7 DEF Incremented
  <2>2. m \in room /\ \A x \in room : x <= m
    <3>1. room \in SUBSET (1 .. n)
      BY <1>3
    <3>. HIDE DEF room
    <3>. QED  BY <1>2, <1>7, <3>1, MaxIs
  <2>3. m \in 1 .. n /\ a[m] < e[m] - 1
    BY <1>3, <2>2
  <2>4. ASSUME NEW i \in 1 .. n, i > m
        PROVE  a[i] = e[i] - 1
    <3>1. i \notin room
      BY <2>2, <2>3, <2>4
    <3>2. a[i] < e[i] /\ ~(a[i] < e[i] - 1) /\ a[i] \in Nat /\ e[i] \in Nat
      BY <1>2, <1>3, <1>4, <3>1 DEF Within
    <3>. QED  BY <3>2
  <2>. HIDE DEF c, m, room
  <2>5. \A i \in 1 .. n : c[i] = IF i < m THEN a[i] ELSE IF i = m THEN a[i] + 1 ELSE 0
    BY <1>3, <2>1, <2>3
  <2>6. DOMAIN c = 1 .. n /\ c = [i \in 1 .. n |-> c[i]]
    BY <1>3, <2>1
  <2>7. ASSUME NEW i \in 1 .. n
        PROVE  c[i] \in Nat /\ c[i] < e[i]
    <3>. DEFINE x == a[i]
                y == e[i]
                z == c[i]
    <3>1. x \in Nat /\ y \in Nat /\ x < y
      BY <1>2, <1>3, <1>4 DEF Within
    <3>2. z = (IF i < m THEN x ELSE IF i = m THEN x + 1 ELSE 0) /\ (i = m => x < y - 1)
      BY <2>3, <2>5
    <3>. HIDE DEF x, y, z
    <3>3. z \in Nat /\ z < y
      BY <3>1, <3>2
    <3>. QED  BY <3>3 DEF y, z
  <2>8. c \in [1 .. n -> Nat] /\ c \in [1 .. n -> Int]
    BY <2>6, <2>7
  <2>9. Within(e, c)
    BY <1>2, <2>7 DEF Within
  <2>10. IsPlace(e, c)
    BY <1>2, <2>8, <2>9 DEF IsPlace
  <2>11. Offset(b, c) = Offset(b, a) + 1
    <3>1. Follows(c, a, e, n, m)
      BY <1>3, <2>3, <2>4, <2>5, <2>8 DEF Follows
    <3>. QED  BY <1>1, <3>1, OffsetSuccessor
  <2>12. LinearIndex(e, c) = Offset(b, c)
    BY <1>1, <2>9, <2>10, PlaceOffset
  <2>13. LinearIndex(e, c) = LinearIndex(e, a) + 1
    BY <1>5, <2>11, <2>12
  <2>. QED  BY <2>9, <2>10, <2>13 DEF c
<1>. QED  BY <1>6, <1>7

\* -- goes back by one, from either name of the end to the last index.
LEMMA DecrementedPlace ==
  ASSUME NEW e, GoodExtents(e), NEW a, IsPlace(e, a), LinearIndex(e, a) > 0
  PROVE  /\ IsPlace(e, Decremented(e, a))
         /\ LinearIndex(e, Decremented(e, a)) = LinearIndex(e, a) - 1
<1>. DEFINE n == Len(e)
            b == Stride(e)
            c == Decremented(e, a)
            room == {i \in DOMAIN a : a[i] >= 1}
            m == Max(room)
<1>1. IsStride(e, n, b) /\ Positive(e, n, b)
  BY StrideIs
<1>. HIDE DEF n, b
<1>2. /\ n \in Nat \ {0} /\ DOMAIN e = 1 .. n /\ e \in [1 .. n -> Nat] /\ b \in [0 .. n -> Nat]
      /\ \A i \in 1 .. n : b[i - 1] = e[i] * b[i]
      /\ \A i \in 1 .. n : i > 1 => e[i] # 0
      /\ Size(e) = b[0]
  BY <1>1 DEF IsStride, Positive
<1>3. a \in [1 .. n -> Nat] /\ a \in [1 .. n -> Int] /\ DOMAIN a = 1 .. n
  BY SMTT(30), <1>2 DEF IsPlace
<1>4. LinearIndex(e, a) \in 0 .. Size(e) /\ Size(e) \in Nat
  BY PlaceIndex
<1>5. \A i \in 1 .. n : e[i] # 0
  <2>1. Size(e) # 0
    BY <1>4
  <2>2. b[1] \in Nat /\ b[1 - 1] = e[1] * b[1] /\ e[1] \in Nat
    BY <1>2
  <2>3. e[1] # 0
    BY <1>2, <2>1, <2>2
  <2>. QED  BY <1>2, <2>3
<1>6. ASSUME NEW d, d \in [1 .. n -> Nat], Within(e, d)
      PROVE  IsPlace(e, d) /\ LinearIndex(e, d) = Offset(b, d)
  <2>1. IsPlace(e, d)
    BY <1>2, <1>6 DEF IsPlace
  <2>. QED  BY <1>1, <1>6, <2>1, PlaceOffset
<1>7. CASE ~Less(a, e)
  <2>1. c = [i \in DOMAIN a |-> e[i] - 1]
    BY <1>7 DEF Decremented
  <2>2. c = Less1(e)
    BY <1>2, <1>3, <2>1 DEF Less1
  <2>3. \A i \in 1 .. n : c[i] = e[i] - 1 /\ c[i] \in Nat /\ c[i] < e[i]
    <3>1. ASSUME NEW i \in 1 .. n
          PROVE  e[i] - 1 \in Nat /\ e[i] - 1 < e[i]
      BY SMTT(30), <1>2, <1>5
    <3>. QED  BY <1>3, <2>1, <3>1
  <2>4. DOMAIN c = 1 .. n /\ c = [i \in 1 .. n |-> c[i]]
    BY <1>3, <2>1
  <2>. HIDE DEF c
  <2>5. c \in [1 .. n -> Nat] /\ Within(e, c)
    BY <1>2, <2>3, <2>4 DEF Within
  <2>6. Offset(b, c) = b[0] - 1
    BY <1>1, <2>2, LastOffset
  <2>7. ~Within(e, a)
    BY <1>2, <1>3, <1>7 DEF Within, Less
  <2>8. LinearIndex(e, a) = b[0]
    BY <1>2, <2>7, PlaceIndex
  <2>9. IsPlace(e, c) /\ LinearIndex(e, c) = Offset(b, c)
    BY <1>6, <2>5
  <2>10. LinearIndex(e, c) = LinearIndex(e, a) - 1
    BY <2>6, <2>8, <2>9
  <2>. QED  BY <2>9, <2>10 DEF c
<1>8. CASE Less(a, e)
  <2>1. c = [i \in DOMAIN a |-> CASE i < m -> a[i]
                                  [] i = m -> a[i] - 1
                                  [] OTHER -> [j \in DOMAIN a |-> e[j] - 1][i]]
    BY <1>8 DEF Decremented
  <2>2. Within(e, a) \/ a = PastRows(e)
    <3>1. a # e
      BY <1>2, <1>8 DEF Less
    <3>. QED  BY <3>1 DEF IsPlace
  <2>3. LinearIndex(e, a) = Offset(b, a)
    <3>1. CASE Within(e, a)
      BY <1>1, <3>1, PlaceOffset
    <3>2. CASE ~Within(e, a)
      <4>1. LinearIndex(e, a) = b[0]
        BY <1>1, <3>2, PlaceOffset
      <4>2. Offset(b, a) = b[0]
        BY <1>1, <2>2, <3>2, PastRowsOffset
      <4>. QED  BY <4>1, <4>2
    <3>. QED  BY <3>1, <3>2
  <2>4. room # {}
    <3>1. SUFFICES ASSUME room = {}
                   PROVE  FALSE
      OBVIOUS
    <3>2. ASSUME NEW i \in 1 .. n
          PROVE  a[i] = 0
      <4>1. ~(a[i] >= 1) /\ a[i] \in Nat
        BY <1>3, <3>1
      <4>. QED  BY <4>1
    <3>3. a = Zero(e)
      BY <1>2, <1>3, <3>2 DEF Zero
    <3>4. LinearIndex(e, a) = 0
      BY <3>3, BeginPlace
    <3>. QED  BY <3>4
  <2>5. m \in room /\ \A x \in room : x <= m
    <3>1. room \in SUBSET (1 .. n)
      BY <1>3
    <3>. HIDE DEF room
    <3>. QED  BY <1>2, <2>4, <3>1, MaxIs
  <2>6. m \in 1 .. n /\ a[m] >= 1
    BY <1>3, <2>5
  <2>7. ASSUME NEW i \in 1 .. n, i > m
        PROVE  a[i] = 0
    <3>1. i \notin room
      BY <2>5, <2>6, <2>7
    <3>2. ~(a[i] >= 1) /\ a[i] \in Nat
      BY <1>3, <3>1
    <3>. QED  BY <3>2
  <2>. HIDE DEF c, m, room
  <2>8. \A i \in 1 .. n : c[i] = IF i < m THEN a[i] ELSE IF i = m THEN a[i] - 1 ELSE e[i] - 1
    BY <1>3, <2>1, <2>6
  <2>9. DOMAIN c = 1 .. n /\ c = [i \in 1 .. n |-> c[i]]
    BY <1>3, <2>1
  <2>10. ASSUME NEW i \in 1 .. n
         PROVE  /\ c[i] \in Nat /\ c[i] < e[i]
                /\ a[i] = IF i < m THEN c[i] ELSE IF i = m THEN c[i] + 1 ELSE 0
                /\ i > m => c[i] = e[i] - 1
    <3>. DEFINE x == a[i]
                y == e[i]
                z == c[i]
    <3>1. x \in Nat /\ y \in Nat /\ y # 0
      BY <1>2, <1>3, <1>5
    <3>2. z = (IF i < m THEN x ELSE IF i = m THEN x - 1 ELSE y - 1) /\ (i = m => x >= 1)
          /\ (i > m => x = 0)
      BY <2>6, <2>7, <2>8
    <3>3. i <= m => x <= y /\ (i < m => x < y)
      <4>1. CASE Within(e, a)
        BY <1>2, <1>3, <4>1 DEF Within
      <4>2. CASE a = PastRows(e)
        <5>1. m = 1
          <6>1. m # 1 => a[m] = 0
            BY <1>2, <2>6, <4>2 DEF PastRows
          <6>. QED  BY <2>6, <6>1
        <5>2. i <= m => i = 1
          BY <5>1
        <5>3. a[1] = e[1]
          BY <1>2, <4>2 DEF PastRows
        <5>. QED  BY <3>1, <5>1, <5>2, <5>3
      <4>. QED  BY <2>2, <4>1, <4>2
    <3>4. m \in Int /\ i \in Int
      BY <2>6
    <3>. HIDE DEF x, y, z
    <3>5. z \in Nat /\ z < y
          /\ x = (IF i < m THEN z ELSE IF i = m THEN z + 1 ELSE 0) /\ (i > m => z = y - 1)
      BY <3>1, <3>2, <3>3, <3>4
    <3>. QED  BY <3>5 DEF x, y, z
  <2>11. c \in [1 .. n -> Nat] /\ c \in [1 .. n -> Int]
    BY <2>9, <2>10
  <2>12. Within(e, c)
    BY <1>2, <2>10 DEF Within
  <2>13. IsPlace(e, c) /\ LinearIndex(e, c) = Offset(b, c)
    BY <1>6, <2>11, <2>12
  <2>14. Offset(b, a) = Offset(b, c) + 1
    <3>1. Follows(a, c, e, n, m)
      BY <1>3, <2>6, <2>10, <2>11 DEF Follows
    <3>. QED  BY <1>1, <3>1, OffsetSuccessor
  <2>15. LinearIndex(e, c) = LinearIndex(e, a) - 1
    <3>. DEFINE x == LinearIndex(e, c)
                y == LinearIndex(e, a)
    <3>1. y = x + 1 /\ y \in Nat
      BY <1>4, <2>3, <2>13, <2>14
    <3>2. x \in Nat
      <4>1. LinearIndex(e, c) \in 0 .. Size(e)
        BY <2>13, PlaceIndex
      <4>. QED  BY <1>4, <4>1
    <3>. HIDE DEF x, y
    <3>3. x = y - 1
      BY <3>1, <3>2
    <3>. QED  BY <3>3 DEF x, y
  <2>. QED  BY <2>13, <2>15 DEF c
<1>. QED  BY <1>7, <1>8

\* What a row strides divides what all rows do.
LEMMA Divides ==
  ASSUME NEW e, NEW n, NEW b, IsStride(e, n, b)
  PROVE  \A k \in 0 .. n : \E f \in Nat : b[0] = f * b[k]
<1>1. /\ n \in Nat \ {0} /\ e \in [1 .. n -> Nat] /\ b \in [0 .. n -> Nat]
      /\ \A i \in 1 .. n : b[i - 1] = e[i] * b[i]
  BY DEF IsStride
<1>. DEFINE S == {k \in Nat : k <= n => \E f \in Nat : b[0] = f * b[k]}
<1>2. 0 \in S
  <2>1. b[0] = 1 * b[0] /\ 1 \in Nat
    BY <1>1
  <2>. QED  BY <2>1
<1>3. ASSUME NEW k \in Nat, k \in S
      PROVE  k + 1 \in S
  <2>1. SUFFICES ASSUME k + 1 <= n
                 PROVE  \E f \in Nat : b[0] = f * b[k + 1]
    OBVIOUS
  <2>2. PICK f \in Nat : b[0] = f * b[k]
    BY <1>1, <1>3, <2>1
  <2>. DEFINE x == b[k]
              y == b[k + 1]
              d == e[k + 1]
  <2>3. x = d * y /\ d \in Nat /\ y \in Nat
    <3>1. k + 1 \in 1 .. n /\ (k + 1) - 1 = k /\ k + 1 \in 0 .. n
      BY <1>1, <2>1
    <3>. QED  BY <1>1, <3>1
  <2>4. b[0] = f * x
    BY <2>2
  <2>. HIDE DEF x, y, d
  <2>5. f * x = (f * d) * y /\ f * d \in Nat
    BY <2>3
  <2>. QED  BY <2>4, <2>5 DEF y
<1>4. \A k \in Nat : k \in S
  <2>. HIDE DEF S
  <2>. QED  BY <1>2, <1>3, Lemmas!SetInduction
<1>. QED  BY <1>1, <1>4

\* += goes as far as asked, and from the last index past the last row.
LEMMA AdvancedPlace ==
  ASSUME NEW e, GoodExtents(e), NEW a, IsPlace(e, a), NEW d \in Int,
         LinearIndex(e, a) + d \in 0 .. Size(e)
  PROVE  /\ IsPlace(e, Advanced(e, a, d))
         /\ LinearIndex(e, Advanced(e, a, d)) = LinearIndex(e, a) + d
<1>. DEFINE n == Len(e)
            b == Stride(e)
            c == Advanced(e, a, d)
            l == LinearIndex(e, a) + d
            mul == MakeStride(e)
            Rest(i) == IF i = 1 THEN l ELSE l % b[i - 1]
<1>1. IsStride(e, n, b) /\ Positive(e, n, b)
  BY StrideIs
<1>. HIDE DEF n, b
<1>2. /\ n \in Nat \ {0} /\ DOMAIN e = 1 .. n /\ e \in [1 .. n -> Nat] /\ b \in [0 .. n -> Nat]
      /\ b[n] = 1 /\ \A i \in 1 .. n : b[i - 1] = e[i] * b[i] /\ b[i] # 0
      /\ Size(e) = b[0] /\ mul = [i \in 1 .. n |-> b[i]]
  BY <1>1 DEF IsStride, Positive
<1>3. a \in [1 .. n -> Nat] /\ DOMAIN a = 1 .. n
  BY <1>2 DEF IsPlace
<1>4. l \in Nat /\ l <= b[0]
  BY <1>2, PlaceIndex
<1>5. c = [i \in 1 .. n |-> Rest(i) \div b[i]]
  <2>1. c = [i \in DOMAIN a |-> (IF i = 1 THEN l ELSE l % mul[i - 1]) \div mul[i]]
    BY DEF Advanced
  <2>. HIDE DEF c, l, mul
  <2>2. ASSUME NEW i \in 1 .. n
        PROVE  mul[i] = b[i] /\ (i # 1 => mul[i - 1] = b[i - 1])
    <3>1. i # 1 => i - 1 \in 1 .. n
      BY <1>2
    <3>. QED  BY <1>2, <3>1
  <2>. QED  BY <1>3, <2>1, <2>2
<1>. HIDE DEF c, mul, l
<1>6. ASSUME NEW i \in 1 .. n
      PROVE  b[i] \in Nat \ {0} /\ e[i] \in Nat /\ (i # 1 => b[i - 1] \in Nat \ {0})
             /\ b[i - 1] = e[i] * b[i] /\ i - 1 \in 0 .. n /\ i \in 0 .. n
  <2>1. i \in 0 .. n /\ i - 1 \in 0 .. n /\ (i # 1 => i - 1 \in 1 .. n)
    BY <1>2
  <2>. QED  BY <1>2, <2>1
<1>7. ASSUME NEW i \in 1 .. n
      PROVE  Rest(i) \in Nat /\ c[i] \in Nat /\ c[i] = Rest(i) \div b[i]
  <2>1. Rest(i) \in Nat
    BY <1>4, <1>6, Remainder
  <2>2. c[i] = Rest(i) \div b[i]
    BY <1>5
  <2>. HIDE DEF Rest
  <2>. QED  BY <1>6, <2>1, <2>2, Remainder
<1>8. c \in [1 .. n -> Nat] /\ c \in [1 .. n -> Int]
  <2>1. c = [i \in 1 .. n |-> c[i]]
    BY <1>5
  <2>. QED  BY <1>7, <2>1
<1>9. ASSUME l < b[0]
      PROVE  Within(e, c)
  <2>1. ASSUME NEW i \in 1 .. n
        PROVE  c[i] < e[i]
    <3>. DEFINE x == b[i]
                y == e[i]
                r == Rest(i)
    <3>1. x \in Nat \ {0} /\ y \in Nat /\ r \in Nat /\ c[i] = r \div x
      BY <1>6, <1>7
    <3>2. r < y * x
      <4>1. CASE i = 1
        BY <1>6, <1>9, <4>1
      <4>2. CASE i # 1
        <5>1. l % b[i - 1] < b[i - 1]
          BY <1>4, <1>6, <4>2, Remainder
        <5>. QED  BY <1>6, <4>2, <5>1
      <4>. QED  BY <4>1, <4>2
    <3>. HIDE DEF x, y, r
    <3>3. r \div x < y
      BY <3>1, <3>2, QuotientBelow
    <3>. QED  BY <3>1, <3>3 DEF y
  <2>. QED  BY <1>2, <2>1 DEF Within
<1>10. ASSUME l = b[0]
       PROVE  c = PastRows(e)
  <2>1. ASSUME NEW i \in 1 .. n
        PROVE  c[i] = IF i = 1 THEN e[1] ELSE 0
    <3>1. CASE i = 1
      <4>. DEFINE x == b[1]
                  y == e[1]
      <4>1. x \in Nat \ {0} /\ y \in Nat /\ l = y * x /\ c[1] = l \div x
        BY <1>6, <1>7, <1>10, <3>1
      <4>. HIDE DEF x, y
      <4>2. (y * x) \div x = y
        BY <4>1, RemainderOfSum
      <4>3. c[1] = y
        BY <4>1, <4>2
      <4>. QED  BY <3>1, <4>3 DEF y
    <3>2. CASE i # 1
      <4>. DEFINE x == b[i - 1]
      <4>1. x \in Nat \ {0} /\ i - 1 \in 0 .. n
        BY <1>6, <3>2
      <4>2. PICK f \in Nat : b[0] = f * x
        BY <1>1, <4>1, Divides
      <4>. HIDE DEF x
      <4>3. (f * x) % x = 0
        BY <4>1, <4>2, RemainderOfSum
      <4>4. Rest(i) = 0
        BY <1>10, <3>2, <4>2, <4>3 DEF x
      <4>5. 0 \div b[i] = 0
        BY <1>6
      <4>6. c[i] = 0
        BY <1>7, <4>4, <4>5
      <4>. QED  BY <3>2, <4>6
    <3>. QED  BY <3>1, <3>2
  <2>. QED  BY <1>2, <1>5, <2>1 DEF PastRows
<1>11. Offset(b, c) = l
  <2>. DEFINE q == [k \in 0 .. n |-> IF k = 0 THEN 0 ELSE l - (l % b[k])]
  <2>1. q[0] = 0
    BY <1>2
  <2>2. ASSUME NEW k \in 1 .. n
        PROVE  q[k] = q[k - 1] + c[k] * b[k]
    <3>. DEFINE x == b[k]
                y == e[k]
                r == Rest(k)
    <3>1. x \in Nat \ {0} /\ y \in Nat /\ r \in Nat /\ c[k] = r \div x /\ b[k - 1] = y * x
      BY <1>6, <1>7
    <3>2. q[k] = l - (l % x) /\ (k # 1 => q[k - 1] = l - (l % b[k - 1]))
          /\ (k = 1 => q[k - 1] = 0)
      <4>1. k \in 0 .. n /\ k - 1 \in 0 .. n /\ k # 0 /\ (k # 1 => k - 1 # 0)
        BY <1>2
      <4>. QED  BY <4>1
    <3>3. (r \div x) * x = r - (r % x) /\ r \div x \in Nat /\ r % x \in Nat
      <4>. HIDE DEF x, r
      <4>. QED  BY <3>1, Remainder
    <3>4. CASE k = 1
      <4>1. r = l
        BY <3>4
      <4>2. q[k] = l - (l % x) /\ q[k - 1] = 0 /\ c[k] * x = l - (l % x) /\ l % x \in Nat
        BY <3>1, <3>2, <3>3, <3>4, <4>1
      <4>. HIDE DEF q, x
      <4>3. l - (l % x) = 0 + (l - (l % x))
        BY <1>4, <4>2
      <4>. QED  BY <4>2, <4>3 DEF x
    <3>5. CASE k # 1
      <4>. DEFINE z == b[k - 1]
                  w == l \div z
      <4>1. z \in Nat \ {0} /\ r = l % z /\ z = y * x
        BY <1>6, <3>1, <3>5
      <4>2. w \in Nat /\ w * z = l - r
        <5>. HIDE DEF z, r
        <5>. QED  BY <1>4, <4>1, Remainder
      <4>3. q[k] = l - (l % x) /\ q[k - 1] = l - r /\ c[k] * x = r - (r % x) /\ r % x \in Nat
        BY <3>1, <3>2, <3>3, <3>5, <4>1
      <4>. HIDE DEF q, x, y, r, z, w
      <4>4. w * z = (w * y) * x /\ w * y \in Nat
        BY <3>1, <4>1, <4>2
      <4>5. l = (w * y) * x + r
        BY <1>4, <3>1, <4>2, <4>4
      <4>6. l % x = r % x
        <5>. DEFINE g == w * y
        <5>1. g \in Nat /\ l = g * x + r
          BY <4>4, <4>5
        <5>. HIDE DEF g
        <5>. QED  BY <3>1, <5>1, RemainderOfSum
      <4>7. l - (r % x) = (l - r) + (r - (r % x))
        BY <1>4, <3>1, <4>3
      <4>8. q[k] = q[k - 1] + c[k] * x
        BY <4>3, <4>6, <4>7
      <4>. QED  BY <4>8 DEF x
    <3>. QED  BY <3>4, <3>5
  <2>3. q[n] = l
    <3>1. l % 1 = 0
      BY <1>4
    <3>2. n \in 0 .. n /\ n # 0
      BY <1>2
    <3>. QED  BY <1>2, <1>4, <3>1, <3>2
  <2>. HIDE DEF q
  <2>4. Steps(q, c, b, n)
    BY <2>1, <2>2 DEF Steps
  <2>5. Offset(b, c) = q[n]
    BY <1>1, <1>8, <2>4, StrideWeights, OffsetBy
  <2>. QED  BY <2>3, <2>5
<1>12. CASE l < b[0]
  <2>1. IsPlace(e, c)
    BY <1>2, <1>8, <1>9, <1>12 DEF IsPlace
  <2>2. LinearIndex(e, c) = l
    BY <1>1, <1>9, <1>11, <1>12, <2>1, PlaceOffset
  <2>. QED  BY <2>1, <2>2 DEF c, l
<1>13. CASE ~(l < b[0])
  <2>1. b[0] \in Nat
    BY <1>2
  <2>2. l = b[0]
    BY <1>4, <1>13, <2>1
  <2>3. c = PastRows(e)
    BY <1>10, <2>2
  <2>4. IsPlace(e, c)
    BY <1>2, <1>8, <2>3 DEF IsPlace
  <2>5. ~Within(e, c)
    <3>1. 1 \in DOMAIN e /\ c[1] = e[1] /\ e[1] \in Nat
      BY <1>2, <2>3 DEF PastRows
    <3>. QED  BY <3>1 DEF Within
  <2>6. LinearIndex(e, c) = l
    BY <1>1, <2>2, <2>4, <2>5, PlaceOffset
  <2>. QED  BY <2>4, <2>6 DEF c, l
<1>. QED  BY <1>12, <1>13

-----------------------------------------------------------------------------
(* Extents of which one is 0.                                              *)

LEMMA NoElements ==
  ASSUME NEW e \in Seq(Nat), NEW i \in DOMAIN e, e[i] = 0
  PROVE  /\ Size(e) = 0 /\ Indices(e) = {}
         /\ LinearIndex(e, Zero(e)) = 0 /\ LinearIndex(e, e) = 0
<1>. DEFINE n == Len(e)
            b == Stride(e)
<1>1. DOMAIN e = 1 .. n /\ e # <<>>
  BY LenProperties, EmptySeq
<1>2. IsStride(e, n, b)
  BY <1>1, AnyStride
<1>. HIDE DEF n, b
<1>3. /\ n \in Nat \ {0} /\ e \in [1 .. n -> Nat] /\ b \in [0 .. n -> Nat]
      /\ \A k \in 1 .. n : b[k - 1] = e[k] * b[k]
      /\ Size(e) = b[0]
  BY <1>2 DEF IsStride
<1>. DEFINE S == {k \in Nat : k < i => b[i - 1 - k] = 0}
<1>4. 0 \in S
  <2>1. b[i - 1] = e[i] * b[i] /\ b[i] \in Nat /\ i - 1 - 0 = i - 1
    BY <1>1, <1>3
  <2>2. b[i - 1] = 0
    BY <2>1
  <2>. QED  BY <2>1, <2>2
<1>5. ASSUME NEW k \in Nat, k \in S
      PROVE  k + 1 \in S
  <2>1. SUFFICES ASSUME k + 1 < i
                 PROVE  b[i - 1 - (k + 1)] = 0
    OBVIOUS
  <2>2. i - 1 - k \in 1 .. n /\ i - 1 - (k + 1) = (i - 1 - k) - 1 /\ k < i
    BY <1>1, <1>3, <2>1
  <2>3. b[i - 1 - k] = 0
    BY <1>5, <2>2
  <2>4. b[(i - 1 - k) - 1] = e[i - 1 - k] * 0 /\ e[i - 1 - k] \in Nat
    BY <1>3, <2>2, <2>3
  <2>. QED  BY <2>2, <2>4
<1>6. \A k \in Nat : k \in S
  <2>. HIDE DEF S
  <2>. QED  BY <1>4, <1>5, Lemmas!SetInduction
<1>7. b[0] = 0
  <2>1. i - 1 \in Nat /\ i - 1 < i /\ i - 1 - (i - 1) = 0
    BY <1>1, <1>3
  <2>. QED  BY <1>6, <2>1
<1>8. LinearIndex(e, e) = 0
  <2>1. ~Less(e, e)
    BY <1>1, <1>3 DEF Less
  <2>2. e \in [1 .. n -> Int]
    BY <1>3
  <2>3. LinearIndex(e, e) = 1 + Offset(b, Less1(e))
    BY <1>2, <2>1, <2>2, LinearIndexIs
  <2>4. Offset(b, Less1(e)) = b[0] - 1
    BY <1>2, LastOffset
  <2>. QED  BY <1>7, <2>3, <2>4
<1>9. LinearIndex(e, Zero(e)) = 0
  <2>1. CASE Zero(e) = e
    BY <1>8, <2>1
  <2>2. CASE Zero(e) # e
    <3>1. /\ Zero(e) \in [1 .. n -> Nat] /\ Zero(e) \in [1 .. n -> Int]
          /\ \A k \in 1 .. n : Zero(e)[k] = 0
      BY <1>1 DEF Zero
    <3>2. PICK k \in 1 .. n : Zero(e)[k] # e[k]
      BY <1>3, <2>2, <3>1
    <3>3. Less(Zero(e), e)
      <4>1. k \in DOMAIN Zero(e) /\ Zero(e)[k] = 0 /\ e[k] \in Nat /\ e[k] # 0
        BY <1>3, <3>1, <3>2
      <4>2. Zero(e)[k] < e[k]
        BY <4>1
      <4>. QED  BY <4>1, <4>2 DEF Less
    <3>4. Offset(b, Zero(e)) = 0
      BY <1>2, ZeroOffset
    <3>. QED  BY <1>2, <3>1, <3>3, <3>4, LinearIndexIs
  <2>. QED  BY <2>1, <2>2
<1>10. Indices(e) = {}
  <2>1. ASSUME NEW idx \in Indices(e)
        PROVE  FALSE
    <3>1. idx \in [DOMAIN e -> 0 .. Max({1} \cup Range(e)) - 1] /\ idx[i] < e[i]
      BY DEF Indices
    <3>2. idx[i] >= 0
      BY <3>1
    <3>. QED  BY <3>1, <3>2
  <2>. QED  BY <2>1
<1>. QED  BY <1>3, <1>7, <1>8, <1>9, <1>10

\* The iterators of a section with rows of no elements.
LEMMA EmptyPlaces ==
  ASSUME NEW e \in Seq(Nat), ~RowsHaveElements(e)
  PROVE  /\ Size(e) = 0 /\ Indices(e) = {}
         /\ LinearIndex(e, Zero(e)) = 0 /\ LinearIndex(e, e) = 0
<1>1. PICK i \in DOMAIN e : e[i] = 0
  BY DEF RowsHaveElements
<1>. QED  BY <1>1, NoElements

-----------------------------------------------------------------------------
(* The inductive invariant: a view has an extent and a stride for each     *)
(* dimension; its iterator is at an index in range or at the end, with the *)
(* end's two names told apart by how it got there; and the pointer of a    *)
(* span is as far from the first cell as the index is.  A section with     *)
(* rows of no elements has an iterator that is at one of its two ends.     *)

Fates == {"running", "refused", "astray"}

GoodView(v) ==
  /\ v \in [data : Nat, extents : Seq(Nat), strides : Seq(Nat \ {0}), contiguous : BOOLEAN]
  /\ GoodExtents(v.extents) /\ Len(v.strides) = Len(v.extents)

EmptySection(v) ==
  /\ v \in [data : Nat, extents : Seq(Nat), strides : Seq(Nat \ {0}), contiguous : BOOLEAN]
  /\ ~v.contiguous /\ v.extents # <<>> /\ Len(v.strides) = Len(v.extents)
  /\ ~RowsHaveElements(v.extents)

Placed ==
  /\ GoodView(view)
  /\ IsPlace(view.extents, at)
  /\ call.op \in {"end", "next"} => Within(view.extents, at) \/ at = view.extents
  /\ view.contiguous => ptr = view.data + difference

PlacedInEmpty ==
  /\ EmptySection(view)
  /\ at = Zero(view.extents) \/ at = view.extents
  /\ call.op \in {"end", "next"} => at = view.extents

SpanInv ==
  /\ Placed \/ PlacedInEmpty
  /\ call.op = "begin" => at = Zero(view.extents)
  /\ fate \in Fates

LEMMA GoodSpan ==
  ASSUME NEW data \in Nat, NEW e, GoodExtents(e)
  PROVE  GoodView(SpanAt(data, e))
<1>. DEFINE n == Len(e)
            b == Stride(e)
            s == MakeStride(e)
<1>1. IsStride(e, n, b) /\ Positive(e, n, b)
  BY StrideIs
<1>. HIDE DEF b
<1>2. n \in Nat /\ b \in [0 .. n -> Nat] /\ (\A i \in 1 .. n : b[i] # 0)
      /\ s = [i \in 1 .. n |-> b[i]]
  BY <1>1 DEF IsStride, Positive
<1>3. e \in Seq(Nat)
  BY DEF GoodExtents
<1>. HIDE DEF n, s
<1>4. \A i \in 1 .. n : b[i] \in Nat \ {0}
  BY <1>2
<1>5. s \in Seq(Nat \ {0}) /\ Len(s) = n
  BY <1>2, <1>4
<1>. QED  BY <1>3, <1>5 DEF SpanAt, GoodView, n, s

LEMMA GoodRow ==
  ASSUME NEW k \in Nat
  PROVE  GoodExtents(<<k>>)
<1>1. <<k>> \in Seq(Nat) /\ <<k>> # <<>> /\ Len(<<k>>) = 1
  OBVIOUS
<1>. QED  BY <1>1 DEF GoodExtents

LEMMA SizeType ==
  ASSUME NEW e, GoodExtents(e)
  PROVE  Size(e) \in Nat
BY EndPlace, PlaceIndex

LEMMA GoodTail ==
  ASSUME NEW e, GoodExtents(e), Len(e) > 1
  PROVE  GoodExtents(Tail(e)) /\ Len(Tail(e)) = Len(e) - 1
<1>. DEFINE n == Len(e)
            t == Tail(e)
<1>1. e \in Seq(Nat) /\ e # <<>> /\ n \in Nat /\ n > 1 /\ DOMAIN e = 1 .. n
      /\ \A i \in 1 .. n : i > 1 => e[i] # 0
  BY LenProperties DEF GoodExtents
<1>2. t \in Seq(Nat) /\ Len(t) = n - 1 /\ \A i \in 1 .. Len(t) : t[i] = e[i + 1]
  BY <1>1, HeadTailProperties
<1>3. DOMAIN t = 1 .. (n - 1)
  BY <1>2, LenProperties
<1>. HIDE DEF n, t
<1>4. \A i \in DOMAIN t : t[i] # 0
  <2>1. \A i \in 1 .. (n - 1) : i + 1 \in 1 .. n /\ i + 1 > 1
    BY <1>1
  <2>. QED  BY <1>1, <1>2, <1>3, <2>1
<1>5. t # <<>>
  BY <1>1, <1>2, EmptySeq
<1>. QED  BY <1>2, <1>4, <1>5 DEF GoodExtents, n, t

LEMMA GoodWeights ==
  ASSUME NEW v, GoodView(v)
  PROVE  /\ Weights(v.strides, Len(v.extents))
         /\ \A i \in 1 .. Len(v.extents) : v.strides[i] # 0
         /\ DOMAIN v.extents = 1 .. Len(v.extents) /\ Len(v.extents) \in Nat \ {0}
         /\ v.extents \in [1 .. Len(v.extents) -> Nat]
<1>1. /\ v.extents \in Seq(Nat) /\ v.strides \in Seq(Nat \ {0}) /\ v.extents # <<>>
      /\ Len(v.strides) = Len(v.extents)
  BY DEF GoodView, GoodExtents
<1>2. Len(v.extents) \in Nat /\ Len(v.extents) # 0
  BY <1>1, EmptySeq, LenProperties
<1>3. \A i \in 1 .. Len(v.extents) : v.strides[i] \in Nat \ {0}
  BY <1>1
<1>4. DOMAIN v.extents = 1 .. Len(v.extents) /\ v.extents \in [1 .. Len(v.extents) -> Nat]
  BY <1>1, LenProperties
<1>. QED  BY <1>2, <1>3, <1>4 DEF Weights

\* Where a section starts is in the view's block.
LEMMA LinearizeType ==
  ASSUME NEW v, GoodView(v), NEW idx \in [DOMAIN v.extents -> Nat]
  PROVE  Linearize(v, idx) = Offset(v.strides, idx) /\ Linearize(v, idx) \in Nat
<1>1. Linearize(v, idx) = Offset(v.strides, idx)
  BY DEF Linearize, Offset, Terms
<1>2. Weights(v.strides, Len(v.extents)) /\ DOMAIN v.extents = 1 .. Len(v.extents)
  BY GoodWeights
<1>. QED  BY <1>1, <1>2, OffsetNat

LEMMA GoodShape ==
  ASSUME NEW e \in Shape
  PROVE  GoodExtents(e)
BY SpanAssumption DEF GoodExtents

\* What a call leaves alone, takes or moves.
LEMMA Looked ==
  ASSUME SpanInv, view' = view, ptr' = ptr, at' = at, fate' \in Fates,
         call'.op \notin {"begin", "end", "next"}
  PROVE  SpanInv'
BY DEF SpanInv, Placed, PlacedInEmpty, difference

LEMMA Taken ==
  ASSUME GoodView(view') \/ EmptySection(view'), ptr' = view'.data,
         at' = Zero(view'.extents), fate' \in Fates, call'.op \notin {"begin", "end", "next"}
  PROVE  SpanInv'
<1>1. CASE GoodView(view')
  <2>1. GoodExtents(view'.extents) /\ view'.data \in Nat
    BY <1>1 DEF GoodView
  <2>2. IsPlace(view'.extents, at') /\ LinearIndex(view'.extents, at') = 0
    BY <2>1, BeginPlace
  <2>3. view'.data = view'.data + LinearIndex(view'.extents, at')
    BY <2>1, <2>2
  <2>. QED  BY <1>1, <2>2, <2>3 DEF SpanInv, Placed, difference
<1>2. CASE EmptySection(view')
  BY <1>2 DEF SpanInv, PlacedInEmpty
<1>. QED  BY <1>1, <1>2

LEMMA Moved ==
  ASSUME Placed, view' = view, fate' \in Fates, IsPlace(view.extents, at'),
         view.contiguous => ptr' = view.data + LinearIndex(view.extents, at'),
         call'.op \in {"end", "next"} => Within(view.extents, at') \/ at' = view.extents,
         call'.op = "begin" => at' = Zero(view.extents)
  PROVE  SpanInv'
BY DEF SpanInv, Placed, difference

LEMMA SpanInitInv == Init => SpanInv
<1>. SUFFICES ASSUME Init
              PROVE  SpanInv
  OBVIOUS
<1>1. PICK e \in Shape : view = SpanAt(0, e) /\ at = Zero(e)
  BY DEF Init
<1>2. GoodExtents(e)
  BY GoodShape
<1>3. GoodView(view) /\ view.extents = e /\ view.data = 0
  BY <1>1, <1>2, GoodSpan DEF SpanAt
<1>4. IsPlace(e, at) /\ LinearIndex(e, at) = 0
  BY <1>1, <1>2, BeginPlace
<1>5. ptr = 0 /\ fate \in Fates /\ call.op \notin {"begin", "end", "next"}
  BY DEF Init, Fates
<1>. QED  BY <1>3, <1>4, <1>5 DEF SpanInv, Placed, difference

\* View's definitions of shapes and indices are those of Span: both are Bounds.
LEMMA SameDefinitions ==
  /\ \A e : Promise!Size(e) = Size(e)
  /\ \A e : Promise!Indices(e) = Indices(e)
  /\ \A e, x : Promise!Position(e, x) = Position(e, x)
  /\ \A e, k : Promise!Nth(e, k) = Nth(e, k)
<1>1. \A e : Promise!Size(e) = Size(e)
  BY DEF Size, Product, FoldFunction, FoldFunctionOnSet, MapThenFoldSet,
         Promise!Size, Promise!Product, Promise!FoldFunction, Promise!FoldFunctionOnSet,
         Promise!MapThenFoldSet
<1>2. \A e : Promise!Indices(e) = Indices(e)
  BY DEF Promise!Indices, Indices, Promise!Max, Max, Promise!Range, Range
<1>3. \A a, c : Promise!Precedes(a, c) <=> Precedes(a, c)
  BY DEF Promise!Precedes, Precedes
<1>4. \A e, x : Promise!Position(e, x) = Position(e, x)
  BY <1>2, <1>3 DEF Promise!Position, Position, Promise!Cardinality, Cardinality,
                   Promise!IsFiniteSet, IsFiniteSet
<1>5. \A e, k : Promise!Nth(e, k) = Nth(e, k)
  BY <1>2, <1>4 DEF Promise!Nth, Nth
<1>. QED  BY <1>1, <1>2, <1>4, <1>5

\* Of a section with rows of no elements, begin and end are all there is to get.
LEMMA EmptyCalls ==
  ASSUME PlacedInEmpty, Next
  PROVE  \/ Begin \/ End
         \/ /\ view' = view /\ ptr' = ptr /\ at' = at /\ got' = got
            /\ call'.op \notin {"begin", "end", "next"} /\ ~Promise!Legal(call')
            /\ \/ fate' = "refused"
               \/ fate' = "astray" /\ Promise!Unchecked(call')
<1>. DEFINE e == view.extents
            failed == /\ view' = view /\ ptr' = ptr /\ at' = at /\ got' = got
                      /\ call'.op \notin {"begin", "end", "next"} /\ ~Promise!Legal(call')
                      /\ \/ fate' = "refused"
                         \/ fate' = "astray" /\ Promise!Unchecked(call')
<1>1. /\ e \in Seq(Nat) /\ ~RowsHaveElements(e) /\ ~view.contiguous
      /\ at = Zero(e) \/ at = e
      /\ \A idx : Linearizes(view, idx) <=> StridedLinearizes(view, idx)
  BY DEF PlacedInEmpty, EmptySection, Linearizes
<1>2. /\ size = 0 /\ difference = 0 /\ Promise!Size(e) = 0
      /\ Promise!Indices(e) = {}
  BY <1>1, EmptyPlaces, SameDefinitions DEF size, difference
<1>3. PICK i \in DOMAIN e : i > 1 /\ e[i] = 0
  BY <1>1 DEF RowsHaveElements
<1>4. ASSUME NEW idx \in Index, Len(idx) = Len(e), Linearizes(view, idx)
      PROVE  ~Natural(idx) /\ \A k \in DOMAIN e : idx[k] < e[k]
  <2>1. idx \in Seq(Int) /\ DOMAIN idx = DOMAIN e
    BY <1>1, <1>4, LenProperties, SpanAssumption
  <2>2. \A k \in DOMAIN e : idx[k] < e[k]
    BY <1>1, <1>4, <2>1 DEF StridedLinearizes
  <2>3. idx[i] < 0 /\ idx[i] \in Int
    BY <1>3, <2>1, <2>2
  <2>. QED  BY <1>3, <2>1, <2>2, <2>3 DEF Natural
<1>. HIDE DEF e
<1>5. ASSUME NEW n \in Number, First(n) \/ Last(n) \/ SubToTheEnd(n)
      PROVE  failed
  BY <1>1, <1>5 DEF First, Last, SubToTheEnd
<1>6. ASSUME NEW n \in Number, NEW offset \in Number, Sub(offset, n)
      PROVE  failed
  BY <1>1, <1>6 DEF Sub
<1>7. ASSUME NEW extents \in Shape, AsSpan(extents)
      PROVE  failed
  BY <1>1, <1>7 DEF AsSpan
<1>8. ASSUME NEW idx \in Number, Slice(idx)
      PROVE  failed
  <2>1. call' = [op |-> "slice", idx |-> idx] /\ idx \in Int
    BY <1>8, SpanAssumption DEF Slice, Take
  <2>2. ~Promise!Legal(call')
    BY <1>2, <2>1 DEF Promise!Legal, e
  <2>3. ~(idx < size /\ idx >= 0)
    BY <1>2, <2>1
  <2>4. idx < size => Promise!Unchecked(call')
    BY <1>2, <2>1 DEF Promise!Unchecked
  <2>. QED  BY <1>8, <2>1, <2>2, <2>3, <2>4 DEF Slice, Take, Terminate, GoAstray
<1>9. ASSUME NEW origin \in Index, NEW extents \in Index, Section(origin, extents)
      PROVE  failed
  <2>1. call' = [op |-> "section", origin |-> origin, extents |-> extents]
        /\ Len(origin) = Len(e)
    BY <1>9 DEF Section, Take, e
  <2>2. ~Promise!Legal(call')
    BY <1>2, <2>1 DEF Promise!Legal, e
  <2>3. Linearizes(view, origin) => Promise!Unchecked(call') /\ ~Natural(origin)
    BY <1>4, <2>1 DEF Promise!Unchecked, e
  <2>. QED  BY <1>9, <2>1, <2>2, <2>3 DEF Section, Take, Terminate, GoAstray
<1>10. ASSUME NEW idx \in Index, ElementAt(idx)
       PROVE  failed
  <2>1. call' = [op |-> "at", idx |-> idx] /\ Len(idx) = Len(e)
    BY <1>10 DEF ElementAt, Read, e
  <2>2. ~Promise!Legal(call')
    BY <1>2, <2>1 DEF Promise!Legal, e
  <2>3. Linearizes(view, idx) => Promise!Unchecked(call') /\ ~Natural(idx)
    BY <1>4, <2>1 DEF Promise!Unchecked, e
  <2>. QED  BY <1>10, <2>1, <2>2, <2>3 DEF ElementAt, Read, Terminate, GoAstray
<1>11. CASE Dereference
  <2>1. call' = [op |-> "read"]
    BY <1>11 DEF Dereference, Read
  <2>2. ~Promise!Legal(call')
    BY <1>2, <2>1 DEF Promise!Legal, e
  <2>3. ~Linearizes(view, at)
    <3>1. i \in DOMAIN at /\ at[i] = 0
      BY <1>1, <1>3 DEF Zero
    <3>2. ~(at[i] < e[i])
      BY <1>3, <3>1
    <3>. QED  BY <1>1, <3>1, <3>2 DEF StridedLinearizes, e
  <2>. QED  BY <1>11, <2>1, <2>2, <2>3 DEF Dereference, Read, Terminate
<1>12. ~Increment /\ ~Decrement
  BY <1>2 DEF Increment, Decrement
<1>13. ASSUME NEW n \in Number, Advance(n)
       PROVE  failed
  <2>1. call' = [op |-> "advance", n |-> n]
    BY <1>13 DEF Advance, Move
  <2>2. ~Promise!Legal(call')
    BY <1>3, <2>1 DEF Promise!Legal, e
  <2>. QED  BY <1>1, <1>13, <2>1, <2>2 DEF Advance, Move, Terminate, e
<1>. QED
  BY <1>5, <1>6, <1>7, <1>8, <1>9, <1>10, <1>11, <1>12, <1>13 DEF Next

LEMMA NaturalIs ==
  ASSUME NEW s \in Seq(Int), Natural(s)
  PROVE  s \in Seq(Nat) /\ s \in [1 .. Len(s) -> Nat] /\ DOMAIN s = 1 .. Len(s)
<1>. DEFINE n == Len(s)
<1>1. n \in Nat /\ DOMAIN s = 1 .. n /\ s = [i \in 1 .. n |-> s[i]]
  BY LenProperties
<1>2. \A i \in 1 .. n : s[i] \in Nat
  BY <1>1 DEF Natural
<1>. HIDE DEF n
<1>3. s \in [1 .. n -> Nat]
  BY <1>1, <1>2
<1>. QED  BY <1>1, <1>3 DEF n

\* Every call leaves an iterator at a place of the view it leaves.
LEMMA PlacedNext ==
  ASSUME SpanInv, Placed, Next
  PROVE  SpanInv'
<1>0. /\ GoodView(view) /\ GoodExtents(view.extents) /\ IsPlace(view.extents, at)
      /\ view.data \in Nat /\ size \in Nat /\ fate \in Fates
      /\ view.contiguous => ptr = view.data + difference
      /\ Number \subseteq Int /\ "refused" \in Fates /\ "astray" \in Fates
  <2>1. GoodView(view) /\ GoodExtents(view.extents) /\ view.data \in Nat
    BY DEF Placed, GoodView
  <2>2. size \in Nat
    BY <2>1, SizeType DEF size
  <2>. QED  BY <2>1, <2>2, SpanAssumption DEF SpanInv, Placed, Fates
<1>1. ASSUME NEW n \in Number, First(n)
      PROVE  SpanInv'
  <2>. DEFINE passes == n <= size /\ 0 <= n
  <2>1. CASE passes
    <3>1. /\ view' = SpanAt(view.data, <<n>>) /\ ptr' = view'.data /\ at' = Zero(view'.extents)
          /\ fate' = fate /\ call'.op = "first"
      BY <1>1, <2>1 DEF First, Take
    <3>2. GoodView(view')
      BY <1>0, <2>1, <3>1, GoodRow, GoodSpan
    <3>. QED  BY <1>0, <3>1, <3>2, Taken
  <2>2. CASE ~passes
    BY <1>0, <1>1, <2>2, Looked DEF First, Take, Terminate
  <2>. QED  BY <2>1, <2>2
<1>2. ASSUME NEW n \in Number, Last(n)
      PROVE  SpanInv'
  <2>. DEFINE passes == n <= size /\ 0 <= n
  <2>1. CASE passes
    <3>1. /\ view' = SpanAt(view.data + size - n, <<n>>) /\ ptr' = view'.data
          /\ at' = Zero(view'.extents) /\ fate' = fate /\ call'.op = "last"
      BY <1>2, <2>1 DEF Last, Take
    <3>2. view.data + size - n \in Nat
      BY <1>0, <2>1
    <3>3. GoodView(view')
      BY <1>0, <2>1, <3>1, <3>2, GoodRow, GoodSpan
    <3>. QED  BY <1>0, <3>1, <3>3, Taken
  <2>2. CASE ~passes
    BY <1>0, <1>2, <2>2, Looked DEF Last, Take, Terminate
  <2>. QED  BY <2>1, <2>2
<1>3. ASSUME NEW offset \in Number, NEW n \in Number, Sub(offset, n)
      PROVE  SpanInv'
  <2>. DEFINE passes == /\ (offset = 0 \/ offset <= size) /\ offset + n <= size /\ 0 <= n
                        /\ offset >= 0
  <2>1. CASE passes
    <3>1. /\ view' = SpanAt(view.data + offset, <<n>>) /\ ptr' = view'.data
          /\ at' = Zero(view'.extents) /\ fate' = fate /\ call'.op = "sub"
      BY <1>3, <2>1 DEF Sub, Take
    <3>2. view.data + offset \in Nat
      BY <1>0, <2>1
    <3>3. GoodView(view')
      BY <1>0, <2>1, <3>1, <3>2, GoodRow, GoodSpan
    <3>. QED  BY <1>0, <3>1, <3>3, Taken
  <2>2. CASE ~passes
    BY <1>0, <1>3, <2>2, Looked DEF Sub, Take, Terminate, GoAstray
  <2>. QED  BY <2>1, <2>2
<1>4. ASSUME NEW offset \in Number, SubToTheEnd(offset)
      PROVE  SpanInv'
  <2>. DEFINE passes == (offset = 0 \/ offset <= size) /\ offset >= 0
  <2>1. CASE passes
    <3>1. /\ view' = SpanAt(view.data + offset, <<size - offset>>) /\ ptr' = view'.data
          /\ at' = Zero(view'.extents) /\ fate' = fate /\ call'.op = "rest"
      BY <1>4, <2>1 DEF SubToTheEnd, Take
    <3>2. view.data + offset \in Nat /\ size - offset \in Nat
      BY <1>0, <2>1
    <3>3. GoodView(view')
      BY <1>0, <2>1, <3>1, <3>2, GoodRow, GoodSpan
    <3>. QED  BY <1>0, <3>1, <3>3, Taken
  <2>2. CASE ~passes
    BY <1>0, <1>4, <2>2, Looked DEF SubToTheEnd, Take, Terminate, GoAstray
  <2>. QED  BY <2>1, <2>2
<1>5. ASSUME NEW extents \in Shape, AsSpan(extents)
      PROVE  SpanInv'
  <2>1. CASE size = Size(extents)
    <3>1. /\ view' = SpanAt(view.data, extents) /\ ptr' = view'.data
          /\ at' = Zero(view'.extents) /\ fate' = fate /\ call'.op = "reshape"
      BY <1>5, <2>1 DEF AsSpan, Take
    <3>2. GoodExtents(extents)
      BY GoodShape
    <3>3. GoodView(view')
      BY <1>0, <3>1, <3>2, GoodSpan
    <3>. QED  BY <1>0, <3>1, <3>3, Taken
  <2>2. CASE ~(size = Size(extents))
    BY <1>0, <1>5, <2>2, Looked DEF AsSpan, Take, Terminate
  <2>. QED  BY <2>1, <2>2
<1>6. ASSUME NEW idx \in Number, Slice(idx)
      PROVE  SpanInv'
  <2>. DEFINE ridx == idx * view.strides[1]
              passes == idx < size /\ ridx < TotalSize(view) /\ idx >= 0
  <2>1. CASE passes
    <3>1. /\ view' = [SliceBounds(view) EXCEPT !.data = @ + ridx] /\ ptr' = view'.data
          /\ at' = Zero(view'.extents) /\ fate' = fate /\ call'.op = "slice"
          /\ Len(view.extents) > 1
      BY <1>6, <2>1 DEF Slice, Take
    <3>2. /\ view \in [data : Nat, extents : Seq(Nat), strides : Seq(Nat \ {0}), contiguous : BOOLEAN]
          /\ Len(view.strides) = Len(view.extents)
      BY <1>0 DEF GoodView
    <3>3. view.strides # <<>> /\ view.strides[1] \in Nat
      <4>1. view.strides \in Seq(Nat \ {0}) /\ view.extents \in Seq(Nat)
            /\ Len(view.strides) = Len(view.extents)
        BY <3>2
      <4>2. Len(view.strides) \in Nat /\ Len(view.strides) > 1
        BY <3>1, <4>1, LenProperties
      <4>. QED  BY <4>1, <4>2
    <3>4. ridx \in Nat
      <4>. DEFINE x == view.strides[1]
      <4>1. x \in Nat /\ idx \in Nat
        BY <1>0, <2>1, <3>3
      <4>. HIDE DEF x
      <4>2. idx * x \in Nat
        BY <4>1
      <4>. QED  BY <4>2 DEF x
    <3>5. GoodExtents(Tail(view.extents)) /\ Len(Tail(view.extents)) = Len(view.extents) - 1
      BY <1>0, <3>1, GoodTail
    <3>6. Tail(view.strides) \in Seq(Nat \ {0}) /\ Len(Tail(view.strides)) = Len(view.strides) - 1
      BY <3>2, <3>3, HeadTailProperties
    <3>. HIDE DEF ridx
    <3>7. view' = [data |-> view.data + ridx, extents |-> Tail(view.extents),
                   strides |-> Tail(view.strides), contiguous |-> view.contiguous]
      BY <3>1, <3>2 DEF SliceBounds
    <3>8. Tail(view.extents) \in Seq(Nat)
      BY <3>5 DEF GoodExtents
    <3>9. GoodView(view')
      BY <3>2, <3>4, <3>5, <3>6, <3>7, <3>8 DEF GoodView
    <3>. QED  BY <1>0, <3>1, <3>9, Taken
  <2>2. CASE ~passes
    BY <1>0, <1>6, <2>2, Looked DEF Slice, Take, Terminate, GoAstray
  <2>. QED  BY <2>1, <2>2
<1>7. ASSUME NEW origin \in Index, NEW extents \in Index, Section(origin, extents)
      PROVE  SpanInv'
  <2>. DEFINE newView == StridedSpanAt(view.data + Linearize(view, origin), extents, view.strides)
              n == Len(view.extents)
              passes == /\ Linearizes(view, origin)
                        /\ Size(extents) >= 0
                        /\ TotalSize(newView) <= TotalSize(view) - Linearize(view, origin)
                        /\ Natural(origin) /\ Natural(extents) /\ Fits(origin, extents)
  <2>1. /\ view.strides \in Seq(Nat \ {0}) /\ Len(view.strides) = n /\ n \in Nat \ {0}
        /\ DOMAIN view.extents = 1 .. n
    BY <1>0, GoodWeights DEF GoodView
  <2>2. /\ origin \in Seq(Int) /\ extents \in Seq(Int) /\ Len(origin) = n /\ Len(extents) = n
    BY <1>7, SpanAssumption DEF Section
  <2>3. CASE passes
    <3>1. /\ view' = newView /\ ptr' = view'.data
          /\ at' = Zero(view'.extents) /\ fate' = fate /\ call'.op = "section"
      BY <1>7, <2>3 DEF Section, Take
    <3>2. Natural(origin) /\ Natural(extents)
      BY <2>3
    <3>. HIDE DEF n, newView, passes
    <3>3. origin \in [1 .. n -> Nat] /\ extents \in Seq(Nat) /\ DOMAIN extents = 1 .. n
          /\ extents # <<>>
      BY <2>1, <2>2, <3>2, NaturalIs, EmptySeq
    <3>4. Linearize(view, origin) \in Nat
      BY <1>0, <2>1, <3>3, LinearizeType
    <3>5. view' \in [data : Nat, extents : Seq(Nat), strides : Seq(Nat \ {0}), contiguous : BOOLEAN]
          /\ ~view'.contiguous /\ view'.extents = extents /\ view'.strides = view.strides
      BY <1>0, <2>1, <3>1, <3>3, <3>4 DEF StridedSpanAt, newView
    <3>6. GoodView(view') \/ EmptySection(view')
      BY <2>1, <2>2, <3>3, <3>5 DEF GoodView, EmptySection, GoodExtents, RowsHaveElements
    <3>. QED  BY <1>0, <3>1, <3>6, Taken
  <2>4. CASE ~passes
    BY <1>0, <1>7, <2>4, Looked DEF Section, Take, Terminate, GoAstray
  <2>. QED  BY <2>3, <2>4
<1>8. ASSUME NEW idx \in Index, ElementAt(idx)
      PROVE  SpanInv'
  BY <1>0, <1>8, Looked DEF ElementAt, Read, Terminate, GoAstray
<1>9. CASE Dereference
  BY <1>0, <1>9, Looked DEF Dereference, Read, Terminate, GoAstray
<1>10. CASE Begin
  <2>1. /\ view' = view /\ fate' = fate /\ call'.op = "begin" /\ at' = Zero(view.extents)
        /\ view.contiguous => ptr' = view.data
    BY <1>10 DEF Begin, Move
  <2>2. IsPlace(view.extents, at') /\ LinearIndex(view.extents, at') = 0
    BY <1>0, <2>1, BeginPlace
  <2>3. view.data = view.data + LinearIndex(view.extents, at')
    BY <1>0, <2>2
  <2>. QED  BY <1>0, <2>1, <2>2, <2>3, Moved
<1>11. CASE End
  <2>1. /\ view' = view /\ fate' = fate /\ at' = view.extents /\ call'.op = "end"
        /\ view.contiguous => ptr' = view.data + size
    BY <1>11 DEF End, Move
  <2>2. IsPlace(view.extents, at') /\ LinearIndex(view.extents, at') = size
    BY <1>0, <2>1, EndPlace DEF size
  <2>. QED  BY <1>0, <2>1, <2>2, Moved
<1>12. CASE Increment
  <2>1. /\ view' = view /\ fate' = fate /\ at' = Incremented(view.extents, at)
        /\ call'.op = "next"
        /\ view.contiguous => ptr' = ptr + 1
        /\ difference < size
    BY <1>12 DEF Increment, Move
  <2>2. /\ IsPlace(view.extents, at')
        /\ LinearIndex(view.extents, at') = difference + 1
        /\ Within(view.extents, at') \/ at' = view.extents
    BY <1>0, <2>1, IncrementedPlace DEF difference, size
  <2>3. difference \in Nat
    <3>1. difference \in 0 .. size
      BY <1>0, PlaceIndex DEF difference, size
    <3>. QED  BY <1>0, <3>1
  <2>4. (view.data + difference) + 1 = view.data + (difference + 1)
    <3>. HIDE DEF difference
    <3>. QED  BY <1>0, <2>3
  <2>5. view.contiguous => ptr' = view.data + LinearIndex(view.extents, at')
    BY <1>0, <2>1, <2>2, <2>4
  <2>. QED  BY <1>0, <2>1, <2>2, <2>5, Moved
<1>13. CASE Decrement
  <2>1. /\ view' = view /\ fate' = fate /\ at' = Decremented(view.extents, at)
        /\ view.contiguous => ptr' = ptr - 1
        /\ call'.op = "previous" /\ difference > 0
    BY <1>13 DEF Decrement, Move
  <2>2. IsPlace(view.extents, at') /\ LinearIndex(view.extents, at') = difference - 1
    BY <1>0, <2>1, DecrementedPlace DEF difference
  <2>3. difference \in Nat
    <3>1. difference \in 0 .. size
      BY <1>0, PlaceIndex DEF difference, size
    <3>. QED  BY <1>0, <3>1
  <2>4. (view.data + difference) - 1 = view.data + (difference - 1)
    BY <1>0, <2>3
  <2>5. view.contiguous => ptr' = view.data + LinearIndex(view.extents, at')
    BY <1>0, <2>1, <2>2, <2>4
  <2>. QED  BY <1>0, <2>1, <2>2, <2>5, Moved
<1>14. ASSUME NEW n \in Number, Advance(n)
       PROVE  SpanInv'
  <2>. DEFINE newAt == Advanced(view.extents, at, n)
              passes == RowsHaveElements(view.extents) /\ AdvancePasses(view.extents, newAt)
  <2>1. CASE passes
    <3>1. /\ view' = view /\ fate' = fate /\ at' = newAt
          /\ view.contiguous => ptr' = ptr + n
          /\ call'.op = "advance" /\ difference + n \in 0 .. size
      BY <1>14, <2>1 DEF Advance, Move
    <3>2. IsPlace(view.extents, at') /\ LinearIndex(view.extents, at') = difference + n
      BY <1>0, <3>1, AdvancedPlace DEF difference, size
    <3>3. difference \in Nat
      <4>1. difference \in 0 .. size
        BY <1>0, PlaceIndex DEF difference, size
      <4>. QED  BY <1>0, <4>1
    <3>4. (view.data + difference) + n = view.data + (difference + n)
      BY <1>0, <3>3
    <3>5. view.contiguous => ptr' = view.data + LinearIndex(view.extents, at')
      BY <1>0, <3>1, <3>2, <3>4
    <3>. QED  BY <1>0, <3>1, <3>2, <3>5, Moved
  <2>2. CASE ~passes
    BY <1>0, <1>14, <2>2, Looked DEF Advance, Move, Terminate
  <2>. QED  BY <2>1, <2>2
<1>. QED
  BY <1>1, <1>2, <1>3, <1>4, <1>5, <1>6, <1>7, <1>8, <1>9, <1>10, <1>11, <1>12, <1>13, <1>14
     DEF Next

\* And so do begin and end of a section with rows of no elements.
LEMMA EmptyNext ==
  ASSUME SpanInv, PlacedInEmpty, Next
  PROVE  SpanInv'
<1>1. CASE Begin
  BY <1>1 DEF Begin, Move, SpanInv, PlacedInEmpty
<1>2. CASE End
  BY <1>2 DEF End, Move, SpanInv, PlacedInEmpty
<1>3. CASE /\ view' = view /\ ptr' = ptr /\ at' = at /\ fate' \in Fates
           /\ call'.op \notin {"begin", "end", "next"}
  BY <1>3, Looked
<1>. QED  BY <1>1, <1>2, <1>3, EmptyCalls DEF Fates

LEMMA SpanNextInv == SpanInv /\ [Next]_vars => SpanInv'
<1>1. ASSUME SpanInv, Next
      PROVE  SpanInv'
  BY <1>1, PlacedNext, EmptyNext DEF SpanInv
<1>2. ASSUME SpanInv, UNCHANGED vars
      PROVE  SpanInv'
  BY <1>2 DEF vars, SpanInv, Placed, PlacedInEmpty, difference
<1>. QED  BY <1>1, <1>2

LEMMA SpanInductive == Spec => []SpanInv
BY SpanInitInv, SpanNextInv, PTL DEF Spec

-----------------------------------------------------------------------------
(* What follows.                                                           *)

\* The places of a view are numbered from begin to end.
LEMMA PlacedIndex ==
  ASSUME SpanInv
  PROVE  /\ view.extents \in Seq(Nat) /\ size \in Nat /\ difference \in 0 .. size
         /\ LinearIndex(view.extents, Zero(view.extents)) = 0
         /\ LinearIndex(view.extents, view.extents) = size
<1>1. CASE Placed
  <2>1. GoodExtents(view.extents) /\ IsPlace(view.extents, at)
    BY <1>1 DEF Placed, GoodView
  <2>. QED  BY <2>1, PlaceIndex, BeginPlace, EndPlace DEF GoodExtents, difference, size
<1>2. CASE PlacedInEmpty
  <2>1. /\ view.extents \in Seq(Nat) /\ ~RowsHaveElements(view.extents)
        /\ at = Zero(view.extents) \/ at = view.extents
    BY <1>2 DEF PlacedInEmpty, EmptySection
  <2>2. size = 0 /\ difference = 0
    BY <2>1, EmptyPlaces DEF difference, size
  <2>. QED  BY <2>1, <2>2, EmptyPlaces
<1>. QED  BY <1>1, <1>2 DEF SpanInv

\* An iterator's index stays within the bounds of its view or at their end
\* (bounds_iterator, span.h:791) and a span's pointer within its cells or behind the last
\* (contiguous_span_iterator, span.h:1786), whatever the calls and their numbers.
THEOREM SpanTypeCorrect == Spec => []TypeOK
<1>1. ASSUME SpanInv
      PROVE  TypeOK
  <2>. DEFINE e == view.extents
  <2>1. /\ view \in [data : Nat, extents : Seq(Nat), strides : Seq(Nat \ {0}), contiguous : BOOLEAN]
        /\ Len(view.strides) = Len(e) /\ fate \in Fates
    BY <1>1 DEF SpanInv, Placed, PlacedInEmpty, GoodView, EmptySection
  <2>2. \A i \in DOMAIN e : e[i] \in Nat /\ view.strides[i] \in Nat \ {0}
    BY <2>1, LenProperties
  <2>3. difference \in 0 .. size /\ size \in Nat
    BY <1>1, PlacedIndex
  <2>4. view.contiguous => ptr \in view.data .. view.data + size
    <3>1. SUFFICES ASSUME view.contiguous
                   PROVE  ptr \in view.data .. view.data + size
      OBVIOUS
    <3>2. ptr = view.data + difference
      BY <1>1, <3>1 DEF SpanInv, Placed, PlacedInEmpty, EmptySection
    <3>. HIDE DEF difference, size
    <3>. QED  BY <2>1, <2>3, <3>2
  <2>5. DOMAIN at = DOMAIN e /\ \A i \in DOMAIN e : at[i] \in 0 .. e[i]
    <3>1. at = Zero(e) \/ at = e \/ at = PastRows(e) \/ (at \in [DOMAIN e -> Nat] /\ Within(e, at))
      BY <1>1 DEF SpanInv, Placed, PlacedInEmpty, IsPlace
    <3>2. CASE at = Zero(e)
      BY <2>2, <3>2 DEF Zero
    <3>3. CASE at = e
      BY <2>2, <3>3
    <3>4. CASE at = PastRows(e)
      <4>1. DOMAIN at = DOMAIN e /\ \A i \in DOMAIN e : at[i] = IF i = 1 THEN e[i] ELSE 0
        BY <3>4 DEF PastRows
      <4>. QED  BY <2>2, <4>1
    <3>5. CASE at \in [DOMAIN e -> Nat] /\ Within(e, at)
      <4>1. \A i \in DOMAIN e : at[i] \in Nat /\ at[i] < e[i]
        BY <3>5 DEF Within
      <4>. QED  BY <2>2, <3>5, <4>1
    <3>. QED  BY <3>1, <3>2, <3>3, <3>4, <3>5
  <2>. QED  BY <2>1, <2>2, <2>4, <2>5 DEF TypeOK, Fates
<1>. QED  BY <1>1, SpanInductive, PTL

\* A loop over a view that has elements starts before end and meets it behind the last element,
\* not before and not later; of an empty view, begin is end only if all its extents are 0.
THEOREM LoopsMeetTheEnd == Spec => []LoopsEnd
<1>1. ASSUME SpanInv
      PROVE  LoopsEnd
  <2>. DEFINE e == view.extents
  <2>1. /\ e \in Seq(Nat) /\ size \in Nat
        /\ LinearIndex(e, Zero(e)) = 0 /\ LinearIndex(e, e) = size
    BY <1>1, PlacedIndex
  <2>2. at = e => difference = size
    BY <2>1 DEF difference
  <2>3. ASSUME difference = size, call.op \in {"end", "next"} \/ Len(e) = 1
        PROVE  at = e
    <3>1. CASE PlacedInEmpty
      <4>1. Len(e) # 1
        <5>1. ~RowsHaveElements(e) /\ DOMAIN e = 1 .. Len(e)
          BY <2>1, <3>1, LenProperties DEF PlacedInEmpty, EmptySection
        <5>. QED  BY <5>1 DEF RowsHaveElements
      <4>. QED  BY <2>3, <3>1, <4>1 DEF PlacedInEmpty
    <3>2. CASE Placed
      <4>1. /\ GoodExtents(e) /\ IsPlace(e, at)
            /\ call.op \in {"end", "next"} => Within(e, at) \/ at = e
        BY <3>2 DEF Placed, GoodView
      <4>2. ~Within(e, at)
        <5>1. difference < size <=> Within(e, at)
          BY <4>1, PlaceIndex DEF difference, size
        <5>. QED  BY <2>1, <2>3, <5>1
      <4>3. CASE Len(e) = 1
        <5>1. at = e \/ at = PastRows(e)
          BY <4>1, <4>2 DEF IsPlace
        <5>2. DOMAIN e = 1 .. 1 /\ e = [i \in 1 .. 1 |-> e[i]] /\ \A i \in 1 .. 1 : i = 1
          BY <2>1, <4>3, LenProperties
        <5>3. PastRows(e) = e
          BY <5>2 DEF PastRows
        <5>. QED  BY <5>1, <5>3
      <4>. QED  BY <2>3, <4>1, <4>2, <4>3
    <3>. QED  BY <1>1, <3>1, <3>2 DEF SpanInv
  <2>4. ASSUME call.op = "begin"
        PROVE  /\ difference = 0
               /\ size # 0 => at # e
               /\ at = e <=> \A i \in DOMAIN e : e[i] = 0
    <3>1. at = Zero(e)
      BY <1>1, <2>4 DEF SpanInv
    <3>2. difference = 0
      BY <2>1, <3>1 DEF difference
    <3>3. e = [i \in DOMAIN e |-> e[i]]
      BY <2>1, LenProperties
    <3>4. at = e <=> \A i \in DOMAIN e : e[i] = 0
      BY <3>1, <3>3 DEF Zero
    <3>. QED  BY <2>2, <3>2, <3>4
  <2>. QED  BY <2>2, <2>3, <2>4 DEF LoopsEnd
<1>. QED  BY <1>1, SpanInductive, PTL

-----------------------------------------------------------------------------
(* The row-major order.                                                    *)

\* A function on 0 .. n that never falls.
LEMMA Rises ==
  ASSUME NEW n \in Nat, NEW f, \A k \in 0 .. n : f[k] \in Int,
         \A k \in 1 .. n : f[k - 1] <= f[k]
  PROVE  \A i \in 0 .. n : \A k \in i .. n : f[i] <= f[k]
<1>. DEFINE S == {k \in Nat : k <= n => \A i \in 0 .. k : f[i] <= f[k]}
<1>1. 0 \in S
  OBVIOUS
<1>2. ASSUME NEW k \in Nat, k \in S
      PROVE  k + 1 \in S
  <2>1. SUFFICES ASSUME k + 1 <= n, NEW i \in 0 .. k + 1
                 PROVE  f[i] <= f[k + 1]
    OBVIOUS
  <2>2. k + 1 \in 1 .. n /\ (k + 1) - 1 = k /\ k \in 0 .. n /\ k + 1 \in 0 .. n /\ i \in 0 .. n
    BY <2>1
  <2>3. f[k] <= f[k + 1] /\ f[k] \in Int /\ f[k + 1] \in Int /\ f[i] \in Int
    BY <2>2
  <2>4. CASE i = k + 1
    BY <2>3, <2>4
  <2>5. CASE i # k + 1
    <3>1. i \in 0 .. k
      BY <2>5
    <3>2. f[i] <= f[k]
      BY <1>2, <2>1, <3>1
    <3>. QED  BY <2>3, <3>2
  <2>. QED  BY <2>4, <2>5
<1>3. \A k \in Nat : k \in S
  <2>. HIDE DEF S
  <2>. QED  BY <1>1, <1>2, Lemmas!SetInduction
<1>. QED  BY <1>3

\* Indices in the order of rows have offsets in that order.
LEMMA PrecedesOffset ==
  ASSUME NEW e, NEW n, NEW b, IsStride(e, n, b), NEW a \in [1 .. n -> Nat],
         NEW c \in [1 .. n -> Nat], Within(e, a), Precedes(a, c)
  PROVE  Offset(b, a) < Offset(b, c)
<1>1. /\ n \in Nat /\ DOMAIN e = 1 .. n /\ b \in [0 .. n -> Nat] /\ e \in [1 .. n -> Nat]
      /\ b[n] = 1 /\ \A k \in 1 .. n : b[k - 1] = e[k] * b[k]
  BY DEF IsStride
<1>2. a \in [1 .. n -> Int] /\ c \in [1 .. n -> Int] /\ Weights(b, n)
  BY StrideWeights
<1>3. PICK p \in [0 .. n -> Int] : Steps(p, a, b, n) /\ Offset(b, a) = p[n]
  BY <1>2, OffsetSteps
<1>4. PICK q \in [0 .. n -> Int] : Steps(q, c, b, n) /\ Offset(b, c) = q[n]
  BY <1>2, OffsetSteps
<1>5. PICK i \in 1 .. n : a[i] < c[i] /\ \A j \in 1 .. i - 1 : a[j] = c[j]
  BY DEF Precedes
<1>6. i - 1 \in Nat /\ i - 1 \in 0 .. n /\ i \in 0 .. n /\ \A k \in 1 .. i - 1 : k \in 1 .. n
  BY <1>1
<1>7. p[i - 1] = q[i - 1]
  <2>1. ASSUME NEW k \in 1 .. i - 1, p[k - 1] = q[k - 1]
        PROVE  p[k] = q[k]
    <3>1. k \in 1 .. n /\ a[k] = c[k]
      BY <1>5, <1>6
    <3>2. p[k] = p[k - 1] + a[k] * b[k] /\ q[k] = q[k - 1] + c[k] * b[k]
      BY <1>3, <1>4, <3>1 DEF Steps
    <3>. QED  BY <2>1, <3>1, <3>2
  <2>2. p[0] = q[0]
    BY <1>3, <1>4 DEF Steps
  <2>3. Alike(p, q, i - 1)
    BY <2>1, <2>2 DEF Alike
  <2>4. Same(p, q, i - 1)
    BY <1>6, <2>3, AlikeSame
  <2>. QED  BY <1>6, <2>4 DEF Same
<1>8. p[i] + b[i] <= q[i]
  <2>. DEFINE x == p[i - 1]
              y == p[i]
              z == q[i]
              u == a[i]
              v == c[i]
              w == b[i]
  <2>1. x \in Int /\ u \in Nat /\ v \in Nat /\ w \in Nat /\ u < v /\ y = x + u * w /\ z = x + v * w
    BY <1>1, <1>3, <1>4, <1>5, <1>6, <1>7 DEF Steps
  <2>. HIDE DEF x, y, z, u, v, w
  <2>. DEFINE g == v - u - 1
  <2>2. g \in Nat /\ v = u + 1 + g
    BY <2>1
  <2>. HIDE DEF g
  <2>3. v * w = u * w + w + g * w /\ g * w \in Nat /\ u * w \in Nat
    BY <2>1, <2>2
  <2>4. y + w <= z
    <3>. DEFINE h == g * w
                l == u * w
    <3>1. v * w = l + w + h /\ h \in Nat /\ l \in Nat /\ y = x + l
      BY <2>1, <2>3
    <3>. HIDE DEF h, l
    <3>. QED  BY <2>1, <3>1
  <2>. QED  BY <2>4 DEF y, z, w
<1>9. q[i] <= q[n]
  <2>1. ASSUME NEW k \in 1 .. n
        PROVE  q[k - 1] <= q[k]
    <3>. DEFINE x == q[k - 1]
                y == q[k]
                v == c[k]
                w == b[k]
    <3>1. x \in Int /\ v \in Nat /\ w \in Nat /\ y = x + v * w
      <4>1. k - 1 \in 0 .. n /\ k \in 0 .. n
        BY <1>1
      <4>. QED  BY <1>1, <1>4, <4>1 DEF Steps
    <3>. HIDE DEF x, y, v, w
    <3>2. v * w \in Nat
      BY <3>1
    <3>3. x <= y
      BY <3>1, <3>2
    <3>. QED  BY <3>3 DEF x, y
  <2>2. \A k \in 0 .. n : q[k] \in Int
    OBVIOUS
  <2>3. \A j \in 0 .. n : \A k \in j .. n : q[j] <= q[k]
    BY <1>1, <2>1, <2>2, Rises
  <2>4. n \in i .. n
    BY <1>1
  <2>. QED  BY <1>6, <2>3, <2>4
<1>10. p[n] + b[n] <= p[i] + b[i]
  <2>. DEFINE f == [k \in 0 .. n |-> 0 - (p[k] + b[k])]
  <2>1. \A k \in 0 .. n : p[k] \in Int /\ b[k] \in Nat
    BY <1>1
  <2>2. ASSUME NEW k \in 1 .. n
        PROVE  f[k - 1] <= f[k]
    <3>. DEFINE x == p[k - 1]
                y == p[k]
                u == a[k]
                d == e[k]
                w == b[k]
                z == b[k - 1]
    <3>1. k - 1 \in 0 .. n /\ k \in 0 .. n
      BY <1>1
    <3>2. /\ x \in Int /\ u \in Nat /\ d \in Nat /\ w \in Nat /\ u < d
          /\ y = x + u * w /\ z = d * w
      BY <1>1, <1>3, <2>1, <3>1 DEF Steps, Within
    <3>3. f[k - 1] = 0 - (x + z) /\ f[k] = 0 - (y + w)
      BY <3>1
    <3>. HIDE DEF x, y, u, d, w, z, f
    <3>. DEFINE g == d - u - 1
    <3>4. g \in Nat /\ d = u + 1 + g
      BY <3>2
    <3>. HIDE DEF g
    <3>5. d * w = u * w + w + g * w /\ g * w \in Nat /\ u * w \in Nat
      BY <3>2, <3>4
    <3>6. y + w <= x + z /\ y \in Int /\ z \in Int
      <4>. DEFINE h == g * w
                  l == u * w
      <4>1. z = l + w + h /\ h \in Nat /\ l \in Nat /\ y = x + l
        BY <3>2, <3>5
      <4>. HIDE DEF h, l
      <4>. QED  BY <3>2, <4>1
    <3>. QED  BY <3>2, <3>3, <3>6
  <2>3. \A k \in 0 .. n : f[k] \in Int /\ f[k] = 0 - (p[k] + b[k])
    BY <2>1
  <2>. HIDE DEF f
  <2>4. \A j \in 0 .. n : \A k \in j .. n : f[j] <= f[k]
    BY <1>1, <2>2, <2>3, Rises
  <2>5. n \in i .. n /\ n \in 0 .. n
    BY <1>1
  <2>6. f[i] <= f[n]
    BY <1>6, <2>4, <2>5
  <2>. DEFINE x == p[i] + b[i]
              y == p[n] + b[n]
  <2>7. x \in Int /\ y \in Int
    BY <1>6, <2>1, <2>5
  <2>8. f[i] = 0 - x /\ f[n] = 0 - y
    BY <1>6, <2>3, <2>5
  <2>. HIDE DEF x, y
  <2>9. y <= x
    BY <2>6, <2>7, <2>8
  <2>. QED  BY <2>9 DEF x, y
<1>11. p[n] \in Int /\ q[n] \in Int /\ p[i] \in Int /\ q[i] \in Int /\ b[i] \in Nat
  BY SMTT(30), <1>1, <1>6
<1>. QED  BY <1>1, <1>3, <1>4, <1>8, <1>9, <1>10, <1>11

\* Of two indices one comes first.
LEMMA OneFirst ==
  ASSUME NEW n \in Nat, NEW a \in [1 .. n -> Nat], NEW c \in [1 .. n -> Nat]
  PROVE  a = c \/ Precedes(a, c) \/ Precedes(c, a)
<1>. DEFINE S == {k \in Nat : k <= n =>
                    (\A j \in 1 .. k : a[j] = c[j]) \/ Precedes(a, c) \/ Precedes(c, a)}
<1>1. 0 \in S
  OBVIOUS
<1>2. ASSUME NEW k \in Nat, k \in S
      PROVE  k + 1 \in S
  <2>1. SUFFICES ASSUME k + 1 <= n, \A j \in 1 .. k : a[j] = c[j], a[k + 1] # c[k + 1]
                 PROVE  Precedes(a, c) \/ Precedes(c, a)
    BY SMTT(30), <1>2
  <2>2. k + 1 \in 1 .. n /\ (k + 1) - 1 = k
    BY <2>1
  <2>3. a[k + 1] < c[k + 1] \/ c[k + 1] < a[k + 1]
    BY <2>1, <2>2
  <2>4. DOMAIN a = 1 .. n /\ DOMAIN c = 1 .. n
    OBVIOUS
  <2>5. CASE a[k + 1] < c[k + 1]
    <3>1. \A j \in 1 .. (k + 1) - 1 : a[j] = c[j]
      BY <2>1, <2>2
    <3>. QED  BY <2>2, <2>4, <2>5, <3>1 DEF Precedes
  <2>6. CASE c[k + 1] < a[k + 1]
    <3>1. \A j \in 1 .. (k + 1) - 1 : c[j] = a[j]
      BY <2>1, <2>2
    <3>. QED  BY <2>2, <2>4, <2>6, <3>1 DEF Precedes
  <2>. QED  BY <2>3, <2>5, <2>6
<1>3. \A k \in Nat : k \in S
  <2>. HIDE DEF S
  <2>. QED  BY <1>1, <1>2, Lemmas!SetInduction
<1>. QED  BY SMTT(30), <1>3

\* Indices are what lies below the extents; the bound in their definition is no other.
LEMMA IndicesAre ==
  ASSUME NEW e, GoodExtents(e)
  PROVE  \A x : x \in Indices(e) <=> x \in [DOMAIN e -> Nat] /\ Within(e, x)
<1>. DEFINE n == Len(e)
            T == {1} \cup Range(e)
            P(k) == \E x \in {1} \cup {e[i] : i \in 1 .. k} :
                      \A y \in {1} \cup {e[i] : i \in 1 .. k} : x >= y
            S == {k \in Nat : k <= n => P(k)}
<1>1. n \in Nat /\ DOMAIN e = 1 .. n /\ e \in [1 .. n -> Nat]
  BY LenProperties DEF GoodExtents
<1>. HIDE DEF n
<1>2. 0 \in S
  <2>1. {1} \cup {e[i] : i \in 1 .. 0} = {1}
    OBVIOUS
  <2>. QED  BY <2>1
<1>3. ASSUME NEW k \in Nat, k \in S
      PROVE  k + 1 \in S
  <2>1. SUFFICES ASSUME k + 1 <= n
                 PROVE  P(k + 1)
    OBVIOUS
  <2>. DEFINE A == {1} \cup {e[i] : i \in 1 .. k}
              B == {1} \cup {e[i] : i \in 1 .. k + 1}
              d == e[k + 1]
  <2>2. A \subseteq Nat /\ d \in Nat /\ B = A \cup {d}
    <3>1. k + 1 \in 1 .. n /\ 1 .. k + 1 = (1 .. k) \cup {k + 1} /\ \A i \in 1 .. k : i \in 1 .. n
      BY <1>1, <2>1
    <3>. QED  BY <1>1, <3>1
  <2>3. PICK x \in A : \A y \in A : x >= y
    BY <1>1, <1>3, <2>1
  <2>. HIDE DEF A, B, d
  <2>4. CASE x >= d
    <3>1. x \in B /\ \A y \in B : x >= y
      BY <2>2, <2>3, <2>4
    <3>. QED  BY <3>1 DEF B
  <2>5. CASE ~(x >= d)
    <3>1. \A y \in A : x \in Nat /\ y \in Nat /\ x >= y
      BY <2>2, <2>3
    <3>2. d \in B /\ \A y \in B : d >= y
      BY <2>2, <2>5, <3>1
    <3>. QED  BY <3>2 DEF B
  <2>. QED  BY <2>4, <2>5
<1>4. P(n)
  <2>1. \A k \in Nat : k \in S
    <3>. HIDE DEF S
    <3>. QED  BY <1>2, <1>3, Lemmas!SetInduction
  <2>2. n \in S
    <3>. HIDE DEF S
    <3>. QED  BY <1>1, <2>1
  <2>3. n <= n
    BY <1>1
  <2>. HIDE DEF P
  <2>. QED  BY <2>2, <2>3
<1>5. T = {1} \cup {e[i] : i \in 1 .. n}
  BY <1>1 DEF Range
<1>6. \E x \in T : \A y \in T : x >= y
  BY <1>4, <1>5
<1>7. Max(T) = CHOOSE x \in T : \A y \in T : x >= y
  BY DEF Max
<1>. DEFINE m == Max(T)
<1>8. m \in T /\ \A y \in T : m >= y
  BY <1>6, <1>7
<1>9. m \in Nat /\ \A i \in 1 .. n : e[i] <= m
  <2>. HIDE DEF m, T
  <2>1. m \in Nat
    BY <1>1, <1>5, <1>8
  <2>2. ASSUME NEW i \in 1 .. n
        PROVE  e[i] <= m
    <3>1. e[i] \in T
      BY <1>5
    <3>2. m >= e[i] /\ e[i] \in Nat
      BY <1>1, <1>8, <3>1
    <3>. QED  BY <2>1, <3>2
  <2>. QED  BY <2>1, <2>2
<1>10. Indices(e) = {x \in [1 .. n -> 0 .. m - 1] : \A i \in 1 .. n : x[i] < e[i]}
  BY <1>1 DEF Indices
<1>. HIDE DEF m, T
<1>11. ASSUME NEW x, x \in [1 .. n -> Nat], \A i \in 1 .. n : x[i] < e[i]
       PROVE  x \in [1 .. n -> 0 .. m - 1]
  <2>1. ASSUME NEW i \in 1 .. n
        PROVE  x[i] \in 0 .. m - 1
    <3>1. x[i] \in Nat /\ x[i] < e[i] /\ e[i] <= m /\ e[i] \in Nat
      BY <1>1, <1>9, <1>11
    <3>. QED  BY <1>9, <3>1
  <2>. QED  BY <1>11, <2>1
<1>12. ASSUME NEW x, x \in [1 .. n -> 0 .. m - 1]
       PROVE  x \in [1 .. n -> Nat]
  BY <1>9, <1>12
<1>. QED  BY <1>1, <1>10, <1>11, <1>12 DEF Within

\* Two indices are as far from the first one only if they are the same.
LEMMA SameOffset ==
  ASSUME NEW e, GoodExtents(e), NEW a \in Indices(e), NEW c \in Indices(e),
         Offset(Stride(e), a) = Offset(Stride(e), c)
  PROVE  a = c
<1>. DEFINE n == Len(e)
            b == Stride(e)
<1>1. IsStride(e, n, b) /\ Positive(e, n, b)
  BY StrideIs
<1>. HIDE DEF n, b
<1>2. n \in Nat /\ DOMAIN e = 1 .. n
  BY <1>1 DEF IsStride
<1>3. a \in [1 .. n -> Nat] /\ c \in [1 .. n -> Nat] /\ Within(e, a) /\ Within(e, c)
  BY <1>2, IndicesAre
<1>4. Offset(b, a) \in Nat /\ Offset(b, c) = Offset(b, a)
  BY <1>1, <1>3, OffsetWithin DEF b
<1>5. ~Precedes(a, c) /\ ~Precedes(c, a)
  <2>1. Precedes(a, c) => Offset(b, a) < Offset(b, c)
    BY <1>1, <1>3, PrecedesOffset
  <2>2. Precedes(c, a) => Offset(b, c) < Offset(b, a)
    BY <1>1, <1>3, PrecedesOffset
  <2>. QED  BY <1>4, <2>1, <2>2
<1>. QED  BY <1>2, <1>3, <1>5, OneFirst

\* An index at every distance.
IndexAt(e, k) == Advanced(e, Zero(e), k)

LEMMA IndexAtIs ==
  ASSUME NEW e, GoodExtents(e), NEW k \in Nat, k < Size(e)
  PROVE  IndexAt(e, k) \in Indices(e) /\ Offset(Stride(e), IndexAt(e, k)) = k
<1>. DEFINE n == Len(e)
            b == Stride(e)
            z == Zero(e)
            c == IndexAt(e, k)
<1>1. IsStride(e, n, b) /\ Positive(e, n, b)
  BY StrideIs
<1>. HIDE DEF n, b
<1>2. IsPlace(e, z) /\ LinearIndex(e, z) = 0 /\ Size(e) \in Nat
  BY BeginPlace, SizeType
<1>3. k \in Int /\ LinearIndex(e, z) + k \in 0 .. Size(e) /\ LinearIndex(e, z) + k = k
  BY <1>2
<1>. HIDE DEF z
<1>4. IsPlace(e, Advanced(e, z, k)) /\ LinearIndex(e, Advanced(e, z, k)) = k
  BY <1>2, <1>3, AdvancedPlace
<1>5. IsPlace(e, c) /\ LinearIndex(e, c) = k
  BY <1>4 DEF IndexAt, z
<1>. HIDE DEF c
<1>6. Within(e, c)
  BY <1>5, PlaceIndex
<1>7. c \in Indices(e)
  BY <1>5, <1>6, IndicesAre DEF IsPlace
<1>8. Offset(b, c) = k
  BY <1>1, <1>5, <1>6, PlaceOffset
<1>. QED  BY <1>7, <1>8 DEF b, c

\* So the place of an index in the order is its offset.
LEMMA PositionIs ==
  ASSUME NEW e, GoodExtents(e), NEW x \in Indices(e)
  PROVE  /\ Position(e, x) = Offset(Stride(e), x)
         /\ Position(e, x) \in Nat /\ Position(e, x) < Size(e)
<1>. DEFINE n == Len(e)
            b == Stride(e)
            l == Offset(b, x)
            F == {j \in Indices(e) : Precedes(j, x)}
            g == [i \in 1 .. l |-> IndexAt(e, i - 1)]
<1>1. IsStride(e, n, b) /\ Positive(e, n, b)
  BY StrideIs
<1>. HIDE DEF n, b
<1>2. n \in Nat /\ DOMAIN e = 1 .. n /\ Size(e) = b[0] /\ Size(e) \in Nat
  BY <1>1, SizeType DEF IsStride
<1>3. \A j \in Indices(e) : j \in [1 .. n -> Nat] /\ Within(e, j)
  BY <1>2, IndicesAre
<1>4. l \in Nat /\ l < Size(e)
  BY <1>1, <1>2, <1>3, OffsetWithin
<1>5. ASSUME NEW j \in Indices(e)
      PROVE  Precedes(j, x) <=> Offset(b, j) < l
  <2>1. Precedes(j, x) => Offset(b, j) < l
    BY <1>1, <1>3, PrecedesOffset
  <2>2. Precedes(x, j) => l < Offset(b, j)
    BY <1>1, <1>3, PrecedesOffset
  <2>3. j = x \/ Precedes(j, x) \/ Precedes(x, j)
    BY <1>2, <1>3, OneFirst
  <2>4. j = x => Offset(b, j) = l
    OBVIOUS
  <2>5. Offset(b, j) \in Nat
    BY <1>1, <1>3, OffsetWithin
  <2>. HIDE DEF l
  <2>. QED  BY <1>4, <2>1, <2>2, <2>3, <2>4, <2>5
<1>. HIDE DEF l
<1>6. ASSUME NEW i \in 1 .. l
      PROVE  g[i] \in F /\ Offset(b, g[i]) = i - 1
  <2>1. i - 1 \in Nat /\ i - 1 < Size(e) /\ i - 1 < l
    BY <1>2, <1>4
  <2>2. IndexAt(e, i - 1) \in Indices(e) /\ Offset(b, IndexAt(e, i - 1)) = i - 1
    BY <2>1, IndexAtIs DEF b
  <2>. QED  BY <1>5, <2>1, <2>2
<1>7. ASSUME NEW i \in 1 .. l, NEW j \in 1 .. l, g[i] = g[j]
      PROVE  i = j
  <2>1. i - 1 = j - 1
    BY <1>6, <1>7
  <2>. QED  BY <1>4, <2>1
<1>8. ASSUME NEW t \in F
      PROVE  \E i \in 1 .. l : g[i] = t
  <2>. DEFINE k == Offset(b, t)
  <2>1. t \in Indices(e) /\ k < l
    BY <1>5
  <2>2. k \in Nat
    BY <1>1, <1>3, <2>1, OffsetWithin
  <2>3. k + 1 \in 1 .. l /\ (k + 1) - 1 = k
    BY <1>4, <2>1, <2>2
  <2>4. g[k + 1] \in F /\ Offset(b, g[k + 1]) = k
    <3>. HIDE DEF k, g
    <3>. QED  BY <1>6, <2>3
  <2>5. g[k + 1] = t
    <3>1. g[k + 1] \in Indices(e)
      BY <2>4
    <3>. HIDE DEF g
    <3>. QED  BY <2>1, <2>4, <3>1, SameOffset DEF b
  <2>. QED  BY <2>3, <2>5
<1>9. g \in [1 .. l -> F]
  <2>1. g = [i \in 1 .. l |-> g[i]]
    OBVIOUS
  <2>. HIDE DEF g, F
  <2>. QED  BY <1>6, <2>1
<1>. HIDE DEF g, F
<1>10. g \in Bijection(1 .. l, F)
  <2>1. g \in Injection(1 .. l, F)
    BY <1>7, <1>9 DEF Injection, IsInjective
  <2>2. g \in Surjection(1 .. l, F)
    BY <1>8, <1>9 DEF Surjection
  <2>. QED  BY <2>1, <2>2 DEF Bijection
<1>11. Cardinality(F) = l
  <2>1. ExistsBijection(1 .. l, F)
    BY <1>10 DEF ExistsBijection
  <2>. QED  BY <1>4, <2>1, FS_CountingElements
<1>12. Position(e, x) = l
  BY <1>11 DEF Position, F
<1>. QED  BY <1>4, <1>12 DEF l, b

LEMMA NthIs ==
  ASSUME NEW e, GoodExtents(e)
  PROVE  /\ \A x \in Indices(e) : Nth(e, Offset(Stride(e), x)) = x
         /\ \A k \in Nat : k < Size(e) => /\ Nth(e, k) \in Indices(e)
                                          /\ Offset(Stride(e), Nth(e, k)) = k
<1>1. ASSUME NEW x \in Indices(e)
      PROVE  Nth(e, Offset(Stride(e), x)) = x
  <2>. DEFINE k == Offset(Stride(e), x)
  <2>1. Position(e, x) = k
    BY PositionIs
  <2>2. ASSUME NEW y \in Indices(e), Position(e, y) = k
        PROVE  y = x
    <3>1. Offset(Stride(e), y) = k
      BY <2>2, PositionIs
    <3>. QED  BY <3>1, SameOffset
  <2>. HIDE DEF k
  <2>3. Nth(e, k) = x
    BY <2>1, <2>2 DEF Nth
  <2>. QED  BY <2>3 DEF k
<1>2. ASSUME NEW k \in Nat, k < Size(e)
      PROVE  Nth(e, k) \in Indices(e) /\ Offset(Stride(e), Nth(e, k)) = k
  <2>1. IndexAt(e, k) \in Indices(e) /\ Offset(Stride(e), IndexAt(e, k)) = k
    BY <1>2, IndexAtIs
  <2>. QED  BY <1>1, <2>1
<1>. QED  BY <1>1, <1>2

-----------------------------------------------------------------------------
(* What a view promises.                                                   *)

\* A span strides as its extents say.
LEMMA SpanOffset ==
  ASSUME NEW e, GoodExtents(e), NEW a, DOMAIN a = DOMAIN e
  PROVE  Offset(MakeStride(e), a) = Offset(Stride(e), a)
<1>. DEFINE b == Stride(e)
<1>1. IsStride(e, Len(e), b)
  BY StrideIs
<1>. HIDE DEF b
<1>2. DOMAIN e = 1 .. Len(e) /\ MakeStride(e) = [i \in 1 .. Len(e) |-> b[i]]
  BY <1>1 DEF IsStride
<1>3. \A i \in DOMAIN a : a[i] * MakeStride(e)[i] = a[i] * b[i]
  BY <1>2
<1>4. Terms(MakeStride(e), a) = Terms(b, a)
  BY <1>3 DEF Terms
<1>. QED  BY <1>4 DEF Offset, b

Plus(a, c) == [i \in DOMAIN c |-> a[i] + c[i]]

LEMMA OffsetPlus ==
  ASSUME NEW n, NEW b, Weights(b, n), NEW a \in [1 .. n -> Int], NEW c \in [1 .. n -> Int]
  PROVE  /\ Plus(a, c) \in [1 .. n -> Int]
         /\ Offset(b, Plus(a, c)) = Offset(b, a) + Offset(b, c)
<1>1. n \in Nat /\ \A i \in 1 .. n : b[i] \in Nat
  BY DEF Weights
<1>2. PICK p \in [0 .. n -> Int] : Steps(p, a, b, n) /\ Offset(b, a) = p[n]
  BY OffsetSteps
<1>3. PICK q \in [0 .. n -> Int] : Steps(q, c, b, n) /\ Offset(b, c) = q[n]
  BY OffsetSteps
<1>4. Plus(a, c) \in [1 .. n -> Int] /\ \A i \in 1 .. n : Plus(a, c)[i] = a[i] + c[i]
  BY DEF Plus
<1>. DEFINE r == [k \in 0 .. n |-> p[k] + q[k]]
<1>5. ASSUME NEW k \in 1 .. n
      PROVE  r[k] = r[k - 1] + Plus(a, c)[k] * b[k]
  <2>. DEFINE x == p[k - 1]
              y == q[k - 1]
              u == a[k]
              v == c[k]
              w == b[k]
  <2>1. k - 1 \in 0 .. n /\ k \in 0 .. n
    BY <1>1
  <2>2. /\ x \in Int /\ y \in Int /\ u \in Int /\ v \in Int /\ w \in Nat
        /\ p[k] = x + u * w /\ q[k] = y + v * w
    BY <1>1, <1>2, <1>3, <2>1 DEF Steps
  <2>3. r[k] = p[k] + q[k] /\ r[k - 1] = x + y /\ Plus(a, c)[k] = u + v /\ b[k] = w
    BY <1>4, <2>1
  <2>. HIDE DEF x, y, u, v, w, r
  <2>. DEFINE g == u * w
              h == v * w
  <2>4. (u + v) * w = g + h /\ g \in Int /\ h \in Int
    BY <2>2
  <2>5. p[k] = x + g /\ q[k] = y + h
    BY <2>2
  <2>6. Plus(a, c)[k] * b[k] = g + h
    BY <2>3, <2>4
  <2>. HIDE DEF g, h
  <2>. QED  BY <2>2, <2>3, <2>4, <2>5, <2>6
<1>6. r[0] = 0 /\ r[n] = p[n] + q[n]
  BY <1>1, <1>2, <1>3 DEF Steps
<1>7. Steps(r, Plus(a, c), b, n)
  BY <1>5, <1>6 DEF Steps
<1>. HIDE DEF r
<1>8. Offset(b, Plus(a, c)) = r[n]
  BY <1>4, <1>7, OffsetBy
<1>. QED  BY <1>2, <1>3, <1>4, <1>6, <1>8

\* The greater the components the farther, and by what the dimensions add.
Nearer(a, c, n) ==
  a \in [1 .. n -> Int] /\ c \in [1 .. n -> Int] /\ \A i \in 1 .. n : a[i] <= c[i]

LEMMA StepsNearer ==
  ASSUME NEW n, NEW b, Weights(b, n), NEW a, NEW c, Nearer(a, c, n),
         NEW p \in [0 .. n -> Int], NEW q \in [0 .. n -> Int], Steps(p, a, b, n), Steps(q, c, b, n)
  PROVE  \A i \in 0 .. n : p[n] - p[i] <= q[n] - q[i]
<1>1. n \in Nat /\ \A i \in 1 .. n : b[i] \in Nat
  BY DEF Weights
<1>. DEFINE f == [k \in 0 .. n |-> q[k] - p[k]]
<1>2. ASSUME NEW k \in 1 .. n
      PROVE  f[k - 1] <= f[k]
  <2>. DEFINE x == p[k - 1]
              y == q[k - 1]
              u == a[k]
              w == b[k]
              g == c[k] - a[k]
  <2>1. k - 1 \in 0 .. n /\ k \in 0 .. n
    BY <1>1
  <2>2. /\ x \in Int /\ y \in Int /\ w \in Nat
        /\ p[k] = x + u * w /\ q[k] = y + c[k] * w
    BY <1>1, <2>1 DEF Steps
  <2>3. a[k] \in Int /\ c[k] \in Int /\ a[k] <= c[k]
    BY DEF Nearer
  <2>4. u \in Int /\ g \in Nat /\ c[k] = u + g
    BY <2>3
  <2>5. f[k] = q[k] - p[k] /\ f[k - 1] = y - x
    BY <2>1
  <2>. HIDE DEF x, y, u, g, w, f
  <2>. DEFINE h == u * w
              l == g * w
  <2>6. (u + g) * w = h + l /\ h \in Int /\ l \in Nat
    BY <2>2, <2>4
  <2>7. p[k] = x + h /\ q[k] = y + (h + l)
    BY <2>2, <2>6, <2>4
  <2>. HIDE DEF h, l
  <2>. QED  BY <2>2, <2>5, <2>6, <2>7
<1>3. \A k \in 0 .. n : f[k] \in Int /\ f[k] = q[k] - p[k] /\ q[k] \in Int /\ p[k] \in Int
  OBVIOUS
<1>. HIDE DEF f
<1>4. \A i \in 0 .. n : \A k \in i .. n : f[i] <= f[k]
  BY <1>1, <1>2, <1>3, Rises
<1>5. ASSUME NEW i \in 0 .. n
      PROVE  p[n] - p[i] <= q[n] - q[i]
  <2>1. n \in i .. n /\ n \in 0 .. n
    BY <1>1
  <2>2. f[i] <= f[n]
    BY <1>4, <2>1
  <2>. QED  BY <1>3, <2>1, <2>2
<1>. QED  BY <1>5

LEMMA OffsetNearer ==
  ASSUME NEW n, NEW b, Weights(b, n), NEW a, NEW c, Nearer(a, c, n)
  PROVE  Offset(b, a) \in Int /\ Offset(b, c) \in Int /\ Offset(b, a) <= Offset(b, c)
<1>1. n \in Nat /\ 0 \in 0 .. n /\ n \in 0 .. n /\ a \in [1 .. n -> Int] /\ c \in [1 .. n -> Int]
  BY DEF Weights, Nearer
<1>2. PICK p \in [0 .. n -> Int] : Steps(p, a, b, n) /\ Offset(b, a) = p[n]
  BY <1>1, OffsetSteps
<1>3. PICK q \in [0 .. n -> Int] : Steps(q, c, b, n) /\ Offset(b, c) = q[n]
  BY <1>1, OffsetSteps
<1>4. p[n] - p[0] <= q[n] - q[0]
  BY <1>1, <1>2, <1>3, StepsNearer
<1>5. p[0] = 0 /\ q[0] = 0 /\ p[n] \in Int /\ q[n] \in Int
  BY <1>1, <1>2, <1>3 DEF Steps
<1>. QED  BY <1>2, <1>3, <1>4, <1>5

\* An index of a row, and the row.
LEMMA InRow ==
  ASSUME NEW m \in Nat, NEW k \in Nat, NEW x \in [1 .. m -> Nat]
  PROVE  /\ <<k>> \o x \in [1 .. m + 1 -> Nat]
         /\ (<<k>> \o x)[1] = k /\ \A i \in 1 .. m : (<<k>> \o x)[i + 1] = x[i]
<1>1. x \in Seq(Nat) /\ Len(x) = m
  <2>1. x \in Seq(Nat)
    BY SeqDef
  <2>. QED  BY <2>1, LenProperties
<1>2. <<k>> \in Seq(Nat) /\ Len(<<k>>) = 1 /\ <<k>>[1] = k
  OBVIOUS
<1>3. /\ <<k>> \o x \in Seq(Nat) /\ Len(<<k>> \o x) = m + 1
      /\ \A i \in 1 .. m + 1 : (<<k>> \o x)[i] = IF i <= 1 THEN <<k>>[i] ELSE x[i - 1]
  <2>. DEFINE h == <<k>>
  <2>1. h \in Seq(Nat) /\ Len(h) = 1
    BY <1>2
  <2>. HIDE DEF h
  <2>. QED  BY <1>1, <2>1, ConcatProperties DEF h
<1>4. <<k>> \o x \in [1 .. m + 1 -> Nat]
  BY <1>3, LenProperties
<1>. QED  BY <1>2, <1>3, <1>4

LEMMA OffsetInRow ==
  ASSUME NEW m \in Nat, NEW s \in Seq(Nat), Len(s) = m + 1, NEW k \in Nat,
         NEW x \in [1 .. m -> Nat]
  PROVE  /\ Weights(s, m + 1) /\ Weights(Tail(s), m)
         /\ Offset(s, <<k>> \o x) = k * s[1] + Offset(Tail(s), x)
<1>. DEFINE y == <<k>> \o x
            t == Tail(s)
<1>1. y \in [1 .. m + 1 -> Nat] /\ y[1] = k /\ \A i \in 1 .. m : y[i + 1] = x[i]
  BY InRow
<1>2. t \in Seq(Nat) /\ Len(t) = m /\ \A i \in 1 .. m : t[i] = s[i + 1]
  BY HeadTailProperties
<1>. HIDE DEF y, t
<1>3. Weights(s, m + 1) /\ Weights(t, m)
  <2>1. s \in [1 .. m + 1 -> Nat] /\ t \in [1 .. m -> Nat] /\ m + 1 \in Nat
    BY <1>2, LenProperties
  <2>. QED  BY <2>1 DEF Weights
<1>4. x \in [1 .. m -> Int] /\ y \in [1 .. m + 1 -> Int]
  BY <1>1
<1>5. PICK p \in [0 .. m -> Int] : Steps(p, x, t, m) /\ Offset(t, x) = p[m]
  BY <1>3, <1>4, OffsetSteps
<1>. DEFINE h == k * s[1]
            q == [i \in 0 .. m + 1 |-> IF i = 0 THEN 0 ELSE h + p[i - 1]]
<1>6. h \in Nat /\ s[1] \in Nat
  BY ElementOfSeq
<1>7. /\ q[0] = 0 /\ q[1] = h + p[0] /\ q[m + 1] = h + p[m]
      /\ \A i \in 1 .. m : q[i] = h + p[i - 1] /\ q[i + 1] = h + p[i]
  <2>. HIDE DEF h
  <2>1. ASSUME NEW i \in 1 .. m + 1 PROVE q[i] = h + p[i - 1]
    BY <2>1
  <2>2. q[0] = 0 /\ q[1] = h + p[0] /\ q[m + 1] = h + p[m]
    <3>1. 0 \in 0 .. m + 1 /\ 1 \in 1 .. m + 1 /\ m + 1 \in 1 .. m + 1
      OBVIOUS
    <3>. QED  BY <2>1, <3>1
  <2>3. ASSUME NEW i \in 1 .. m PROVE q[i] = h + p[i - 1] /\ q[i + 1] = h + p[i]
    <3>1. i \in 1 .. m + 1 /\ i + 1 \in 1 .. m + 1 /\ (i + 1) - 1 = i
      OBVIOUS
    <3>2. q[i] = h + p[i - 1] /\ q[i + 1] = h + p[(i + 1) - 1]
      BY <2>1, <3>1
    <3>. QED  BY <3>1, <3>2
  <2>. QED  BY <2>2, <2>3
<1>8. p[0] = 0 /\ \A i \in 1 .. m : p[i - 1] \in Int /\ p[i] = p[i - 1] + x[i] * t[i]
  BY <1>5 DEF Steps
<1>9. ASSUME NEW i \in 1 .. m + 1
      PROVE  q[i] = q[i - 1] + y[i] * s[i]
  <2>1. CASE i = 1
    <3>. HIDE DEF q
    <3>. QED  BY SMTT(30), <1>1, <1>6, <1>7, <1>8, <2>1
  <2>2. CASE i # 1
    <3>. DEFINE j == i - 1
    <3>1. j \in 1 .. m /\ i = j + 1
      BY <2>2
    <3>. HIDE DEF j, q, h
    <3>2. i - 1 = j
      BY <3>1
    <3>3. q[i] = h + p[j] /\ q[i - 1] = h + p[j - 1]
      BY <1>7, <3>1, <3>2
    <3>4. y[i] = x[j] /\ s[i] = t[j] /\ x[j] \in Nat
      BY <1>1, <1>2, <3>1
    <3>5. p[j] = p[j - 1] + x[j] * t[j] /\ p[j - 1] \in Int
      BY <1>8, <3>1
    <3>6. t[j] \in Nat
      BY <1>3, <3>1 DEF Weights
    <3>7. /\ q[i] = h + p[j] /\ q[i - 1] = h + p[j - 1] /\ y[i] = x[j] /\ s[i] = t[j]
          /\ p[j] = p[j - 1] + x[j] * t[j] /\ p[j - 1] \in Int /\ x[j] \in Nat /\ t[j] \in Nat
      BY <3>3, <3>4, <3>5, <3>6
    <3>. DEFINE z == x[j] * t[j]
    <3>8. z \in Nat
      BY SMTT(30), <3>7
    <3>9. q[i] = h + (p[j - 1] + z) /\ q[i - 1] + y[i] * s[i] = (h + p[j - 1]) + z
      BY <3>7
    <3>. HIDE DEF z
    <3>. QED  BY SMTT(30), <1>6, <3>7, <3>8, <3>9 DEF h
  <2>. QED  BY <2>1, <2>2
<1>10. Steps(q, y, s, m + 1)
  <2>. HIDE DEF q, h
  <2>. QED  BY <1>7, <1>9 DEF Steps
<1>. HIDE DEF q
<1>11. Offset(s, y) = q[m + 1]
  BY <1>3, <1>4, <1>10, OffsetBy
<1>. QED  BY <1>3, <1>5, <1>7, <1>11 DEF h, y, t

-----------------------------------------------------------------------------
(* Rows do not overlap.  What the assertions of section and operator[]     *)
(* compare are offsets; they tell what lies within a view because the      *)
(* dimensions behind another one reach less far than that one strides.     *)

Nested(v) ==
  \E p \in [0 .. Len(v.extents) -> Int] :
    /\ Steps(p, Less1(v.extents), v.strides, Len(v.extents))
    /\ \A i \in 1 .. Len(v.extents) : p[Len(v.extents)] - p[i] < v.strides[i]

Regular(v) ==
  /\ GoodView(v)
  /\ Nested(v)
  /\ v.contiguous => v.strides = MakeStride(v.extents)

LEMMA RegularSpan ==
  ASSUME NEW data \in Nat, NEW e, GoodExtents(e)
  PROVE  Regular(SpanAt(data, e))
<1>. DEFINE v == SpanAt(data, e)
            n == Len(e)
            b == Stride(e)
            p == [k \in 0 .. n |-> b[0] - b[k]]
<1>1. GoodView(v) /\ v.extents = e /\ v.strides = MakeStride(e)
  BY GoodSpan DEF SpanAt
<1>2. IsStride(e, n, b)
  BY StrideIs
<1>. HIDE DEF v, n, b
<1>3. /\ n \in Nat \ {0} /\ e \in [1 .. n -> Nat] /\ b \in [0 .. n -> Nat] /\ b[n] = 1
      /\ \A i \in 1 .. n : b[i - 1] = e[i] * b[i]
      /\ MakeStride(e) = [i \in 1 .. n |-> b[i]]
  BY <1>2 DEF IsStride
<1>4. /\ p \in [0 .. n -> Int] /\ p[0] = 0
      /\ \A k \in 0 .. n : p[k] = b[0] - b[k] /\ b[k] \in Nat
  BY <1>3
<1>. HIDE DEF p
<1>5. ASSUME NEW k \in 1 .. n
      PROVE  p[k] = p[k - 1] + Less1(e)[k] * MakeStride(e)[k]
  <2>. DEFINE x == e[k]
              y == b[k]
              z == b[k - 1]
  <2>1. k \in 0 .. n /\ k - 1 \in 0 .. n /\ 0 \in 0 .. n
    BY <1>3
  <2>2. x \in Nat /\ y \in Nat /\ z = x * y /\ b[0] \in Nat
    BY <1>3, <1>4, <2>1
  <2>3. p[k] = b[0] - y /\ p[k - 1] = b[0] - z /\ Less1(e)[k] = x - 1 /\ MakeStride(e)[k] = y
    BY <1>3, <1>4, <2>1 DEF Less1
  <2>. HIDE DEF x, y, z
  <2>4. (x - 1) * y = x * y - y
    BY <2>2
  <2>. DEFINE h == x * y
  <2>5. h \in Nat /\ z = h /\ (x - 1) * y = h - y
    BY <2>2, <2>4
  <2>6. Less1(e)[k] * MakeStride(e)[k] = h - y
    BY <2>3, <2>5
  <2>. HIDE DEF h
  <2>. QED  BY <2>2, <2>3, <2>5, <2>6
<1>6. ASSUME NEW i \in 1 .. n
      PROVE  p[n] - p[i] < MakeStride(e)[i]
  <2>1. n \in 0 .. n /\ i \in 0 .. n /\ 0 \in 0 .. n
    BY <1>3
  <2>2. p[n] = b[0] - 1 /\ p[i] = b[0] - b[i] /\ b[i] \in Nat /\ b[0] \in Nat
    BY <1>3, <1>4, <2>1
  <2>3. MakeStride(e)[i] = b[i]
    BY <1>3
  <2>4. (b[0] - 1) - (b[0] - b[i]) < b[i]
    BY <2>2
  <2>. QED  BY <2>2, <2>3, <2>4
<1>7. Nested(v)
  <2>1. Steps(p, Less1(e), MakeStride(e), n)
    BY <1>4, <1>5 DEF Steps
  <2>. QED  BY <1>1, <1>4, <1>6, <2>1 DEF Nested, n
<1>. QED  BY <1>1, <1>7 DEF Regular, v

\* The strides of the rows of a span are those of a span.
LEMMA TailStrides ==
  ASSUME NEW e, GoodExtents(e), Len(e) > 1
  PROVE  Tail(MakeStride(e)) = MakeStride(Tail(e))
<1>. DEFINE n == Len(e)
            t == Tail(e)
            s == MakeStride(e)
<1>1. e \in Seq(Nat) /\ e # <<>> /\ n \in Nat /\ n > 1 /\ DOMAIN e = 1 .. n
  BY LenProperties DEF GoodExtents
<1>2. /\ t \in Seq(Nat) /\ Len(t) = n - 1 /\ DOMAIN t = 1 .. (n - 1)
      /\ \A i \in 1 .. n - 1 : t[i] = e[i + 1]
  <2>1. t \in Seq(Nat) /\ Len(t) = n - 1 /\ \A i \in 1 .. Len(t) : t[i] = e[i + 1]
    BY <1>1, HeadTailProperties
  <2>. QED  BY <2>1, LenProperties
<1>3. s \in Seq(Nat) /\ Len(s) = n /\ \A i \in 1 .. n : s[i] = Behind(e, i + 1)
  <2>1. \A i \in 1 .. n : Behind(e, i + 1) \in Nat
    BY <1>1, BehindType
  <2>2. s = [i \in 1 .. n |-> Behind(e, i + 1)]
    BY <1>1 DEF MakeStride, Behind
  <2>3. s \in [1 .. n -> Nat]
    BY <2>1, <2>2
  <2>. HIDE DEF n, s
  <2>4. s \in Seq(Nat)
    BY <1>1, <2>3, SeqDef
  <2>. QED  BY <1>1, <2>2, <2>3, <2>4, LenProperties
<1>4. MakeStride(t) = [i \in 1 .. n - 1 |-> Behind(t, i + 1)]
  BY <1>2 DEF MakeStride, Behind
<1>. HIDE DEF n, t, s
<1>5. ASSUME NEW i \in 1 .. n - 1
      PROVE  Behind(t, i + 1) = Behind(e, i + 2)
  <2>. DEFINE x == SubSeq(t, i + 1, n - 1)
              y == SubSeq(e, i + 2, n)
              m == n - 1 - i
  <2>1. m \in Nat /\ i + 1 \in Int /\ i + 2 \in Int /\ n - 1 \in Int /\ n \in Int
    BY <1>1
  <2>2. \A j \in i + 1 .. n - 1 : t[j] \in Nat
    <3>1. \A j \in i + 1 .. n - 1 : j \in 1 .. Len(t)
      BY <1>1, <1>2
    <3>. QED  BY <1>2, <3>1, ElementOfSeq
  <2>3. \A j \in i + 2 .. n : e[j] \in Nat
    <3>1. \A j \in i + 2 .. n : j \in 1 .. Len(e)
      BY <1>1 DEF n
    <3>. QED  BY <1>1, <3>1, ElementOfSeq
  <2>4. x \in Seq(Nat) /\ Len(x) = m /\ \A j \in 1 .. m : x[j] = t[i + j]
    <3>1. /\ x \in Seq(Nat)
          /\ Len(x) = IF i + 1 <= n - 1 THEN (n - 1) - (i + 1) + 1 ELSE 0
          /\ \A j \in 1 .. (n - 1) - (i + 1) + 1 : x[j] = t[(i + 1) + j - 1]
      BY <2>1, <2>2, SubSeqProperties
    <3>2. (n - 1) - (i + 1) + 1 = m /\ (i + 1 <= n - 1 <=> m # 0)
      BY <1>1, <2>1
    <3>3. \A j \in 1 .. m : (i + 1) + j - 1 = i + j
      BY <2>1
    <3>. HIDE DEF x, m
    <3>. QED  BY <3>1, <3>2, <3>3
  <2>5. y \in Seq(Nat) /\ Len(y) = m /\ \A j \in 1 .. m : y[j] = e[(i + j) + 1]
    <3>1. /\ y \in Seq(Nat)
          /\ Len(y) = IF i + 2 <= n THEN n - (i + 2) + 1 ELSE 0
          /\ \A j \in 1 .. n - (i + 2) + 1 : y[j] = e[(i + 2) + j - 1]
      BY <2>1, <2>3, SubSeqProperties
    <3>2. n - (i + 2) + 1 = m /\ (i + 2 <= n <=> m # 0)
      BY <1>1, <2>1
    <3>3. \A j \in 1 .. m : (i + 2) + j - 1 = (i + j) + 1
      BY <2>1
    <3>. HIDE DEF y, m
    <3>. QED  BY <3>1, <3>2, <3>3
  <2>6. \A j \in 1 .. m : t[i + j] = e[(i + j) + 1]
    <3>1. \A j \in 1 .. m : i + j \in 1 .. n - 1
      BY <1>1, <2>1
    <3>. QED  BY <1>2, <3>1
  <2>7. x = y
    <3>. HIDE DEF x, y, m
    <3>. QED  BY <2>4, <2>5, <2>6, SeqEqual
  <2>8. (i + 1) + 1 = i + 2
    BY <1>1
  <2>. QED  BY <1>2, <2>7, <2>8 DEF Behind, n
<1>6. /\ Tail(s) \in Seq(Nat) /\ Len(Tail(s)) = n - 1
      /\ \A i \in 1 .. n - 1 : Tail(s)[i] = Behind(e, i + 2)
  <2>1. s # <<>>
    BY <1>1, <1>3, EmptySeq
  <2>2. /\ Tail(s) \in Seq(Nat) /\ Len(Tail(s)) = n - 1
        /\ \A i \in 1 .. n - 1 : Tail(s)[i] = s[i + 1]
    BY <1>3, <2>1, HeadTailProperties
  <2>3. \A i \in 1 .. n - 1 : i + 1 \in 1 .. n /\ (i + 1) + 1 = i + 2
    BY <1>1
  <2>. QED  BY <1>3, <2>2, <2>3
<1>7. Tail(s) = [i \in 1 .. n - 1 |-> Behind(e, i + 2)]
  <2>1. DOMAIN Tail(s) = 1 .. n - 1 /\ Tail(s) = [i \in DOMAIN Tail(s) |-> Tail(s)[i]]
    BY <1>6, LenProperties
  <2>. QED  BY <1>6, <2>1
<1>. QED  BY <1>4, <1>5, <1>7 DEF s, t

\* The cells a view names.
Cells(v) == [idx \in Indices(v.extents) |-> v.data + Linearize(v, idx)]

LEMMA CellIs ==
  ASSUME NEW v, GoodView(v), NEW idx, idx \in Indices(v.extents)
  PROVE  /\ Cells(v)[idx] = v.data + Offset(v.strides, idx)
         /\ idx \in [1 .. Len(v.extents) -> Nat] /\ Within(v.extents, idx)
<1>1. GoodExtents(v.extents) /\ DOMAIN v.extents = 1 .. Len(v.extents)
  BY GoodWeights DEF GoodView
<1>2. idx \in [DOMAIN v.extents -> Nat] /\ Within(v.extents, idx)
  BY <1>1, IndicesAre
<1>3. Linearize(v, idx) = Offset(v.strides, idx)
  BY <1>2, LinearizeType
<1>. QED  BY <1>1, <1>2, <1>3 DEF Cells

\* The slice of a view at idx.
SliceOf(v, idx) == [SliceBounds(v) EXCEPT !.data = @ + idx * v.strides[1]]

LEMMA SliceIs ==
  ASSUME NEW v, GoodView(v), Len(v.extents) > 1, NEW idx \in Nat
  PROVE  /\ SliceOf(v, idx) = [data |-> v.data + idx * v.strides[1], extents |-> Tail(v.extents),
                               strides |-> Tail(v.strides), contiguous |-> v.contiguous]
         /\ GoodView(SliceOf(v, idx)) /\ idx * v.strides[1] \in Nat
         /\ Len(Tail(v.extents)) = Len(v.extents) - 1
<1>. DEFINE n == Len(v.extents)
            x == v.strides[1]
            e == Tail(v.extents)
            s == Tail(v.strides)
<1>1. /\ v \in [data : Nat, extents : Seq(Nat), strides : Seq(Nat \ {0}), contiguous : BOOLEAN]
      /\ Len(v.strides) = n /\ GoodExtents(v.extents)
  BY DEF GoodView
<1>2. n \in Nat /\ n > 1 /\ v.strides \in Seq(Nat \ {0})
  BY <1>1, LenProperties
<1>3. v.strides # <<>> /\ x \in Nat
  <2>1. 1 \in 1 .. Len(v.strides)
    BY <1>1, <1>2
  <2>. QED  BY <1>1, <1>2, <2>1, EmptySeq, ElementOfSeq
<1>4. GoodExtents(e) /\ Len(e) = n - 1 /\ e \in Seq(Nat)
  BY <1>1, GoodTail DEF GoodExtents
<1>5. s \in Seq(Nat \ {0}) /\ Len(s) = n - 1
  BY <1>1, <1>2, <1>3, HeadTailProperties
<1>. DEFINE ridx == idx * x
<1>6. ridx \in Nat
  <2>. HIDE DEF x
  <2>. QED  BY <1>3
<1>. HIDE DEF ridx
<1>7. [SliceBounds(v) EXCEPT !.data = @ + ridx] =
        [data |-> v.data + ridx, extents |-> e, strides |-> s, contiguous |-> v.contiguous]
  <2>. DEFINE u == [SliceBounds(v) EXCEPT !.data = @ + ridx]
  <2>1. v \in [data : Nat, extents : Seq(Nat), strides : Seq(Nat \ {0}), contiguous : BOOLEAN]
    BY <1>1
  <2>2. u = [SliceBounds(v) EXCEPT !.data = @ + ridx]
    OBVIOUS
  <2>. HIDE DEF u
  <2>3. u = [data |-> v.data + ridx, extents |-> Tail(v.extents),
             strides |-> Tail(v.strides), contiguous |-> v.contiguous]
    BY <2>1, <2>2 DEF SliceBounds
  <2>. QED  BY <2>3 DEF u
<1>. DEFINE w == [data |-> v.data + ridx, extents |-> e, strides |-> s, contiguous |-> v.contiguous]
<1>8. GoodView(w)
  <2>1. v.data + ridx \in Nat
    BY <1>1, <1>6
  <2>. HIDE DEF e, s
  <2>. QED  BY <1>1, <1>4, <1>5, <2>1 DEF GoodView
<1>. QED  BY <1>4, <1>6, <1>7, <1>8 DEF SliceOf, ridx

LEMMA RegularSlice ==
  ASSUME NEW v, Regular(v), Len(v.extents) > 1, NEW idx \in Nat
  PROVE  Regular(SliceOf(v, idx))
<1>. DEFINE n == Len(v.extents)
            m == n - 1
            w == SliceOf(v, idx)
            e == v.extents
            s == v.strides
<1>1. /\ GoodView(v) /\ GoodView(w) /\ w.extents = Tail(e) /\ w.strides = Tail(s)
      /\ w.contiguous = v.contiguous /\ Len(Tail(e)) = m
      /\ n \in Nat \ {0} /\ n > 1 /\ GoodExtents(e)
  <2>1. GoodView(v)
    BY DEF Regular
  <2>2. /\ w = [data |-> v.data + idx * v.strides[1], extents |-> Tail(e),
                strides |-> Tail(s), contiguous |-> v.contiguous]
        /\ GoodView(w) /\ Len(Tail(e)) = m
    BY <2>1, SliceIs
  <2>3. n \in Nat \ {0} /\ n > 1 /\ GoodExtents(e)
    BY <2>1, GoodWeights DEF GoodView
  <2>. HIDE DEF w
  <2>. QED  BY <2>1, <2>2, <2>3
<1>2. /\ Len(s) = n /\ s \in Seq(Nat) /\ e \in Seq(Nat) /\ s # <<>> /\ e # <<>>
      /\ \A i \in 1 .. n : e[i] \in Nat /\ s[i] \in Nat
  <2>1. Len(s) = n /\ s \in Seq(Nat \ {0}) /\ e \in Seq(Nat) /\ e # <<>>
    BY <1>1 DEF GoodView, GoodExtents
  <2>2. \A i \in 1 .. n : e[i] \in Nat /\ s[i] \in Nat
    BY <2>1, ElementOfSeq
  <2>3. s \in Seq(Nat)
    BY <2>1, SeqMonotonic
  <2>. QED  BY <1>1, <2>1, <2>2, <2>3, EmptySeq
<1>3. PICK p \in [0 .. n -> Int] : /\ Steps(p, Less1(e), s, n)
                                   /\ \A i \in 1 .. n : p[n] - p[i] < s[i]
  BY DEF Regular, Nested
<1>. HIDE DEF n, w, e, s
<1>4. /\ m \in Nat
      /\ \A i \in 1 .. m : Tail(e)[i] = e[i + 1] /\ Tail(s)[i] = s[i + 1] /\ i + 1 \in 1 .. n
  <2>1. m \in Nat /\ \A i \in 1 .. m : i + 1 \in 1 .. n
    BY <1>1
  <2>2. /\ \A i \in 1 .. Len(Tail(e)) : Tail(e)[i] = e[i + 1]
        /\ \A i \in 1 .. Len(Tail(s)) : Tail(s)[i] = s[i + 1]
        /\ Len(Tail(s)) = m
    BY <1>2, HeadTailProperties
  <2>. QED  BY <1>1, <2>1, <2>2
<1>. HIDE DEF m
<1>5. n = m + 1
  BY <1>1 DEF m
<1>. DEFINE q == [k \in 0 .. m |-> p[k + 1] - p[1]]
<1>6. \A k \in 0 .. m : k + 1 \in 0 .. n /\ p[k + 1] \in Int /\ q[k] = p[k + 1] - p[1]
  BY <1>4, <1>5
<1>7. p[1] \in Int /\ q \in [0 .. m -> Int]
  <2>1. p[1] \in Int
    BY <1>4, <1>5
  <2>. QED  BY <1>6, <2>1
<1>. HIDE DEF q
<1>8. ASSUME NEW k \in 1 .. m
      PROVE  q[k] = q[k - 1] + Less1(Tail(e))[k] * Tail(s)[k]
  <2>. DEFINE y == Less1(e)[k + 1] * s[k + 1]
  <2>1. k \in 0 .. m /\ k - 1 \in 0 .. m /\ k + 1 \in 1 .. n /\ (k - 1) + 1 = k /\ (k + 1) - 1 = k
    BY <1>4, <1>5
  <2>2. p[k + 1] = p[k] + y
    BY <1>3, <2>1 DEF Steps
  <2>3. Less1(Tail(e))[k] = Tail(e)[k] - 1 /\ Less1(e)[k + 1] = e[k + 1] - 1
    <3>1. DOMAIN e = 1 .. n /\ DOMAIN Tail(e) = 1 .. m
      <4>1. Tail(e) \in Seq(Nat)
        BY <1>2, HeadTailProperties
      <4>. QED  BY <1>1, <1>2, <4>1, LenProperties DEF n, m, e
    <3>. QED  BY <2>1, <3>1 DEF Less1
  <2>4. Less1(Tail(e))[k] * Tail(s)[k] = y
    BY <1>4, <2>3
  <2>5. y \in Int
    <3>1. e[k + 1] - 1 \in Int /\ s[k + 1] \in Int
      BY <1>2, <2>1
    <3>. DEFINE x == e[k + 1] - 1
                z == s[k + 1]
    <3>. HIDE DEF x, z
    <3>2. x * z \in Int
      BY <3>1 DEF x, z
    <3>. QED  BY <2>3, <3>2 DEF x, z
  <2>6. q[k] = p[k + 1] - p[1] /\ q[k - 1] = p[k] - p[1] /\ p[k] \in Int
    BY <1>6, <2>1
  <2>7. q[k] = q[k - 1] + y
    <3>. HIDE DEF y
    <3>. DEFINE a == p[k + 1]
                c == p[k]
                d == p[1]
    <3>1. q[k] = a - d /\ q[k - 1] = c - d /\ a = c + y /\ c \in Int /\ d \in Int /\ y \in Int
      BY <1>7, <2>2, <2>5, <2>6
    <3>. HIDE DEF a, c, d
    <3>. QED  BY <3>1
  <2>. QED  BY <2>4, <2>7
<1>9. q[0] = 0
  <2>1. 0 \in 0 .. m /\ 0 + 1 = 1
    BY <1>4
  <2>2. q[0] = p[1] - p[1]
    BY <1>6, <2>1
  <2>. QED  BY <1>7, <2>2
<1>10. ASSUME NEW i \in 1 .. m
       PROVE  q[m] - q[i] < Tail(s)[i]
  <2>1. m \in 0 .. m /\ i \in 0 .. m /\ i + 1 \in 1 .. n /\ n \in 0 .. n
    BY <1>4, <1>5
  <2>2. q[m] = p[n] - p[1] /\ q[i] = p[i + 1] - p[1] /\ p[n] \in Int /\ p[i + 1] \in Int
    BY <1>5, <1>6, <2>1
  <2>3. p[n] - p[i + 1] < s[i + 1] /\ s[i + 1] \in Nat /\ Tail(s)[i] = s[i + 1]
    BY <1>2, <1>3, <1>4, <2>1
  <2>. DEFINE a == p[n]
              c == p[i + 1]
              d == p[1]
              z == Tail(s)[i]
  <2>4. /\ q[m] = a - d /\ q[i] = c - d /\ a - c < z
        /\ a \in Int /\ c \in Int /\ d \in Int /\ z \in Nat
    BY <1>7, <2>2, <2>3
  <2>. HIDE DEF a, c, d, z
  <2>5. q[m] - q[i] < z
    BY <2>4
  <2>. QED  BY <2>5 DEF z
<1>11. Nested(w)
  <2>1. Steps(q, Less1(Tail(e)), Tail(s), m)
    BY <1>8, <1>9 DEF Steps
  <2>. QED  BY <1>1, <1>7, <1>10, <2>1 DEF Nested
<1>12. w.contiguous => w.strides = MakeStride(w.extents)
  <2>1. v.contiguous => s = MakeStride(e)
    BY DEF Regular, s, e
  <2>2. Tail(MakeStride(e)) = MakeStride(Tail(e))
    BY <1>1, TailStrides DEF n, e
  <2>. QED  BY <1>1, <2>1, <2>2
<1>. QED  BY <1>1, <1>11, <1>12 DEF Regular, w

LEMMA Less1Type ==
  ASSUME NEW n \in Nat, NEW e \in [1 .. n -> Nat]
  PROVE  Less1(e) \in [1 .. n -> Int] /\ \A i \in 1 .. n : Less1(e)[i] = e[i] - 1
BY DEF Less1

LEMMA SectionSize ==
  ASSUME NEW v, ~v.contiguous
  PROVE  TotalSize(v) = 1 + Offset(v.strides, Less1(v.extents))
<1>. DEFINE e == v.extents
<1>1. TotalSize(v) = 1 + Sum([i \in DOMAIN e |-> (e[i] - 1) * v.strides[i]])
  BY DEF TotalSize
<1>2. [i \in DOMAIN e |-> (e[i] - 1) * v.strides[i]] = Terms(v.strides, Less1(e))
  BY DEF Terms, Less1
<1>. QED  BY <1>1, <1>2 DEF Offset

\* One more than the offset of the last index, with the strides of either kind.
LEMMA TotalSizeIs ==
  ASSUME NEW v, GoodView(v), v.contiguous => v.strides = MakeStride(v.extents)
  PROVE  TotalSize(v) = 1 + Offset(v.strides, Less1(v.extents))
<1>. DEFINE e == v.extents
            b == Stride(e)
<1>1. GoodExtents(e)
  BY DEF GoodView
<1>2. CASE v.contiguous
  <2>1. IsStride(e, Len(e), b)
    BY <1>1, StrideIs
  <2>. HIDE DEF b
  <2>2. b[0] \in Nat /\ Size(e) = b[0]
    BY <2>1 DEF IsStride
  <2>3. Offset(b, Less1(e)) = b[0] - 1
    BY <2>1, LastOffset
  <2>4. DOMAIN Less1(e) = DOMAIN e
    BY DEF Less1
  <2>5. Offset(v.strides, Less1(e)) = b[0] - 1
    <3>. HIDE DEF e
    <3>1. Offset(MakeStride(e), Less1(e)) = Offset(b, Less1(e))
      BY <1>1, <2>4, SpanOffset DEF b
    <3>. QED  BY <1>2, <2>3, <3>1 DEF e
  <2>6. TotalSize(v) = Size(e)
    BY <1>2 DEF TotalSize
  <2>. HIDE DEF e
  <2>7. b[0] = 1 + (b[0] - 1)
    BY <2>2
  <2>. QED  BY <2>2, <2>5, <2>6, <2>7 DEF e
<1>3. CASE ~v.contiguous
  BY <1>3, SectionSize
<1>. QED  BY <1>2, <1>3

\* Both assertions of linearize ask for the components to be below the extents.
LEMMA LinearizesIs ==
  ASSUME NEW v, GoodView(v), NEW idx \in [DOMAIN v.extents -> Int]
  PROVE  Linearizes(v, idx) <=> Within(v.extents, idx)
<1>1. /\ DOMAIN v.extents = 1 .. Len(v.extents) /\ v.extents \in [1 .. Len(v.extents) -> Nat]
      /\ \A i \in 1 .. Len(v.extents) : v.strides[i] \in Nat /\ v.strides[i] # 0
  BY GoodWeights DEF Weights
<1>2. ASSUME NEW i \in DOMAIN v.extents
      PROVE  idx[i] * v.strides[i] < v.extents[i] * v.strides[i] <=> idx[i] < v.extents[i]
  <2>. DEFINE x == idx[i]
              y == v.extents[i]
              w == v.strides[i]
  <2>1. x \in Int /\ y \in Nat /\ w \in Nat /\ w # 0
    BY <1>1
  <2>. HIDE DEF x, y, w
  <2>2. ASSUME x < y
        PROVE  x * w < y * w
    <3>. DEFINE g == y - x - 1
    <3>1. g \in Nat /\ y = x + 1 + g
      BY <2>1, <2>2
    <3>. HIDE DEF g
    <3>2. y * w = x * w + w + g * w /\ g * w \in Nat /\ x * w \in Int
      BY <2>1, <3>1
    <3>. QED  BY <2>1, <3>2
  <2>3. ASSUME ~(x < y)
        PROVE  ~(x * w < y * w)
    <3>. DEFINE g == x - y
    <3>1. g \in Nat /\ x = y + g
      BY <2>1, <2>3
    <3>. HIDE DEF g
    <3>2. x * w = y * w + g * w /\ g * w \in Nat /\ y * w \in Nat
      BY <2>1, <3>1
    <3>. QED  BY <2>1, <3>2
  <2>. QED  BY <2>2, <2>3 DEF x, y, w
<1>3. DOMAIN idx = DOMAIN v.extents
  OBVIOUS
<1>. QED  BY <1>2, <1>3 DEF Linearizes, StaticLinearizes, StridedLinearizes, Within

\* A box of indices of a view, as large as ext and beginning at origin.
Box(v, origin, ext) ==
  /\ origin \in [1 .. Len(v.extents) -> Nat] /\ ext \in [1 .. Len(v.extents) -> Nat]
  /\ Within(v.extents, origin)
  /\ \A i \in 1 .. Len(v.extents) : origin[i] + ext[i] <= v.extents[i]

SectionOf(v, origin, ext) == StridedSpanAt(v.data + Linearize(v, origin), ext, v.strides)

LEMMA SectionIs ==
  ASSUME NEW v, GoodView(v), NEW origin, NEW ext, Box(v, origin, ext)
  PROVE  /\ RowsHaveElements(ext) => GoodView(SectionOf(v, origin, ext))
         /\ ~RowsHaveElements(ext) => EmptySection(SectionOf(v, origin, ext))
         /\ Linearize(v, origin) = Offset(v.strides, origin) /\ Linearize(v, origin) \in Nat
         /\ Len(ext) = Len(v.extents) /\ ext \in Seq(Nat) /\ Size(ext) \in Nat
         /\ SectionOf(v, origin, ext).extents = ext /\ SectionOf(v, origin, ext).strides = v.strides
         /\ SectionOf(v, origin, ext).data = v.data + Linearize(v, origin)
         /\ ~SectionOf(v, origin, ext).contiguous
<1>. DEFINE n == Len(v.extents)
<1>1. /\ n \in Nat \ {0} /\ DOMAIN v.extents = 1 .. n /\ v.data \in Nat
      /\ v.strides \in Seq(Nat \ {0}) /\ Len(v.strides) = n
  BY GoodWeights DEF GoodView
<1>2. origin \in [1 .. n -> Nat] /\ ext \in [1 .. n -> Nat]
  BY DEF Box
<1>3. Linearize(v, origin) = Offset(v.strides, origin) /\ Linearize(v, origin) \in Nat
  BY <1>1, <1>2, LinearizeType
<1>. HIDE DEF n
<1>4. ext \in Seq(Nat) /\ Len(ext) = n /\ DOMAIN ext = 1 .. n /\ ext # <<>>
  <2>1. ext \in Seq(Nat)
    BY <1>1, <1>2, SeqDef
  <2>. QED  BY <1>1, <1>2, <2>1, LenProperties, EmptySeq
<1>5. RowsHaveElements(ext) <=> GoodExtents(ext)
  BY <1>4 DEF RowsHaveElements, GoodExtents
<1>6. Size(ext) \in Nat
  <2>1. IsStride(ext, Len(ext), Stride(ext))
    BY <1>4, AnyStride
  <2>2. 0 \in 0 .. Len(ext)
    BY <1>1, <1>4
  <2>. QED  BY <2>1, <2>2 DEF IsStride
<1>. DEFINE d == v.data + Linearize(v, origin)
            w == [data |-> d, extents |-> ext, strides |-> v.strides, contiguous |-> FALSE]
<1>7. d \in Nat
  BY <1>1, <1>3
<1>. HIDE DEF d
<1>8. RowsHaveElements(ext) => GoodView(w)
  BY <1>1, <1>4, <1>5, <1>7 DEF GoodView
<1>9. ~RowsHaveElements(ext) => EmptySection(w)
  BY <1>1, <1>4, <1>7 DEF EmptySection
<1>. QED  BY <1>3, <1>4, <1>6, <1>8, <1>9 DEF SectionOf, StridedSpanAt, n, d

LEMMA BoxNearer ==
  ASSUME NEW v, GoodView(v), NEW origin, NEW ext, Box(v, origin, ext)
  PROVE  /\ Nearer(Less1(ext), Less1(v.extents), Len(v.extents))
         /\ Nearer(Plus(Less1(ext), origin), Less1(v.extents), Len(v.extents))
<1>. DEFINE n == Len(v.extents)
            e == v.extents
<1>1. n \in Nat /\ e \in [1 .. n -> Nat]
  BY GoodWeights
<1>. HIDE DEF n, e
<1>2. /\ origin \in [1 .. n -> Nat] /\ ext \in [1 .. n -> Nat]
      /\ \A i \in 1 .. n : origin[i] + ext[i] <= e[i]
  BY DEF Box, n, e
<1>3. /\ Less1(ext) \in [1 .. n -> Int] /\ \A i \in 1 .. n : Less1(ext)[i] = ext[i] - 1
      /\ Less1(e) \in [1 .. n -> Int] /\ \A i \in 1 .. n : Less1(e)[i] = e[i] - 1
  BY <1>1, <1>2, Less1Type
<1>4. /\ Plus(Less1(ext), origin) \in [1 .. n -> Int]
      /\ \A i \in 1 .. n : Plus(Less1(ext), origin)[i] = Less1(ext)[i] + origin[i]
  BY <1>2, <1>3 DEF Plus
<1>5. ASSUME NEW i \in 1 .. n
      PROVE  Less1(ext)[i] <= Less1(e)[i] /\ Plus(Less1(ext), origin)[i] <= Less1(e)[i]
  <2>1. /\ origin[i] \in Nat /\ ext[i] \in Nat /\ e[i] \in Nat /\ origin[i] + ext[i] <= e[i]
    BY <1>1, <1>2
  <2>2. /\ Less1(ext)[i] = ext[i] - 1 /\ Less1(e)[i] = e[i] - 1
        /\ Plus(Less1(ext), origin)[i] = (ext[i] - 1) + origin[i]
    BY <1>3, <1>4
  <2>. QED  BY <2>1, <2>2
<1>. QED  BY <1>3, <1>4, <1>5 DEF Nearer, n, e

LEMMA RegularSection ==
  ASSUME NEW v, Regular(v), NEW origin, NEW ext, Box(v, origin, ext), RowsHaveElements(ext)
  PROVE  Regular(SectionOf(v, origin, ext))
<1>. DEFINE n == Len(v.extents)
            s == v.strides
            w == SectionOf(v, origin, ext)
<1>1. GoodView(v)
  BY DEF Regular
<1>2. /\ GoodView(w) /\ Len(ext) = n /\ w.extents = ext /\ w.strides = s /\ ~w.contiguous
  BY <1>1, SectionIs
<1>3. PICK p \in [0 .. n -> Int] : /\ Steps(p, Less1(v.extents), s, n)
                                   /\ \A i \in 1 .. n : p[n] - p[i] < s[i]
  BY DEF Regular, Nested
<1>4. Weights(s, n) /\ n \in Nat /\ \A i \in 1 .. n : s[i] \in Nat
  BY <1>1, GoodWeights DEF Weights
<1>5. Nearer(Less1(ext), Less1(v.extents), n)
  BY <1>1, BoxNearer
<1>. HIDE DEF n, s, w
<1>6. Less1(ext) \in [1 .. n -> Int]
  BY <1>5 DEF Nearer
<1>7. PICK q \in [0 .. n -> Int] : Steps(q, Less1(ext), s, n)
  BY <1>4, <1>6, OffsetSteps
<1>8. \A i \in 0 .. n : q[n] - q[i] <= p[n] - p[i]
  BY <1>3, <1>4, <1>5, <1>7, StepsNearer
<1>9. ASSUME NEW i \in 1 .. n
      PROVE  q[n] - q[i] < s[i]
  <2>1. i \in 0 .. n /\ n \in 0 .. n
    BY <1>4
  <2>2. q[n] - q[i] <= p[n] - p[i] /\ p[n] - p[i] < s[i]
    BY <1>3, <1>8, <2>1
  <2>3. q[n] \in Int /\ q[i] \in Int /\ p[n] \in Int /\ p[i] \in Int /\ s[i] \in Nat
    BY <1>4, <2>1
  <2>. QED  BY <2>2, <2>3
<1>10. Nested(w)
  BY <1>2, <1>7, <1>9 DEF Nested
<1>. QED  BY <1>2, <1>10 DEF Regular, w

\* What lies within its rows fits into the memory of a view: section lets it pass.
LEMMA SectionPasses ==
  ASSUME NEW v, Regular(v), NEW origin, NEW ext, Box(v, origin, ext)
  PROVE  /\ Linearizes(v, origin) /\ Size(ext) >= 0
         /\ TotalSize(SectionOf(v, origin, ext)) <= TotalSize(v) - Linearize(v, origin)
<1>. DEFINE n == Len(v.extents)
            s == v.strides
            w == SectionOf(v, origin, ext)
<1>1. GoodView(v) /\ (v.contiguous => v.strides = MakeStride(v.extents))
  BY DEF Regular
<1>2. /\ w.extents = ext /\ w.strides = s /\ ~w.contiguous
      /\ Linearize(v, origin) = Offset(s, origin) /\ Size(ext) \in Nat
  BY <1>1, SectionIs
<1>3. Weights(s, n) /\ DOMAIN v.extents = 1 .. n /\ v.extents \in [1 .. n -> Nat]
  BY <1>1, GoodWeights
<1>4. origin \in [1 .. n -> Nat] /\ Within(v.extents, origin)
  BY DEF Box
<1>5. Linearizes(v, origin) /\ Size(ext) >= 0
  <2>1. origin \in [DOMAIN v.extents -> Int]
    BY <1>3, <1>4
  <2>. QED  BY <1>1, <1>2, <1>4, <2>1, LinearizesIs
<1>6. TotalSize(v) = 1 + Offset(s, Less1(v.extents))
  BY <1>1, TotalSizeIs
<1>7. /\ Nearer(Less1(ext), Less1(v.extents), n)
      /\ Nearer(Plus(Less1(ext), origin), Less1(v.extents), n)
  BY <1>1, BoxNearer
<1>. HIDE DEF n, s, w
<1>8. TotalSize(w) = 1 + Offset(s, Less1(ext))
  BY <1>2, SectionSize
<1>9. Less1(ext) \in [1 .. n -> Int] /\ origin \in [1 .. n -> Int]
  BY <1>4, <1>7 DEF Nearer
<1>10. Offset(s, Plus(Less1(ext), origin)) = Offset(s, Less1(ext)) + Offset(s, origin)
  BY <1>3, <1>9, OffsetPlus
<1>11. /\ Offset(s, Plus(Less1(ext), origin)) <= Offset(s, Less1(v.extents))
       /\ Offset(s, Less1(v.extents)) \in Int /\ Offset(s, Less1(ext)) \in Int
  BY <1>3, <1>7, OffsetNearer
<1>12. Offset(s, origin) \in Nat
  BY <1>3, <1>4, OffsetNat
<1>13. TotalSize(w) <= TotalSize(v) - Linearize(v, origin)
  BY <1>2, <1>6, <1>8, <1>10, <1>11, <1>12
<1>. QED  BY <1>5, <1>13 DEF w

\* operator[] takes a row if there is one: the rows behind another reach less far than it strides.
LEMMA SlicePasses ==
  ASSUME NEW v, Regular(v), Len(v.extents) > 1, NEW idx \in Nat
  PROVE  idx < Size(v.extents) /\ idx * v.strides[1] < TotalSize(v) <=> idx < v.extents[1]
<1>. SUFFICES ASSUME v.extents[1] # 0
              PROVE  idx < Size(v.extents) /\ idx * v.strides[1] < TotalSize(v)
                       <=> idx < v.extents[1]
  <2>1. v.extents \in Seq(Nat) /\ 1 \in DOMAIN v.extents
    BY GoodWeights DEF Regular, GoodView
  <2>2. v.extents[1] = 0 => Size(v.extents) = 0
    BY <2>1, NoElements
  <2>. QED  BY <2>2
<1>. DEFINE e == v.extents
            n == Len(e)
            s == v.strides
            b == Stride(e)
<1>1. GoodView(v) /\ GoodExtents(e) /\ (v.contiguous => s = MakeStride(e))
  BY DEF Regular, GoodView
<1>2. Weights(s, n) /\ n \in Nat /\ n > 1 /\ e \in [1 .. n -> Nat]
      /\ \A i \in 1 .. n : s[i] \in Nat /\ s[i] # 0
  BY <1>1, GoodWeights DEF Weights
<1>3. TotalSize(v) = 1 + Offset(s, Less1(e))
  BY <1>1, TotalSizeIs
<1>4. IsStride(e, n, b) /\ Positive(e, n, b) /\ e[1] # 0
  BY <1>1, StrideIs
<1>5. PICK p \in [0 .. n -> Int] : Steps(p, Less1(e), s, n) /\ \A i \in 1 .. n : p[n] - p[i] < s[i]
  BY DEF Regular, Nested
<1>. HIDE DEF e, n, s, b
<1>6. Less1(e) \in [1 .. n -> Int] /\ \A i \in 1 .. n : Less1(e)[i] = e[i] - 1
  BY <1>2, Less1Type
<1>7. Offset(s, Less1(e)) = p[n]
  BY <1>2, <1>5, <1>6, OffsetBy
<1>8. /\ \A i \in 1 .. n : e[i] # 0 /\ b[i] # 0 /\ b[i] \in Nat
      /\ Size(e) = b[0] /\ b[0] = e[1] * b[1]
  <2>1. 1 \in 1 .. n /\ 1 - 1 = 0 /\ \A i \in 1 .. n : i \in 0 .. n /\ (i = 1 \/ i > 1)
    BY <1>2
  <2>. QED  BY <1>2, <1>4, <2>1 DEF IsStride, Positive
<1>9. p[1] <= p[n] /\ p[1] \in Int /\ p[n] \in Int
  <2>1. ASSUME NEW k \in 1 .. n
        PROVE  p[k - 1] <= p[k]
    <3>. DEFINE x == p[k - 1]
                y == e[k] - 1
                z == s[k]
    <3>1. k - 1 \in 0 .. n /\ x \in Int /\ z \in Nat
      BY <1>2
    <3>2. y \in Nat
      BY <1>2, <1>8
    <3>3. p[k] = x + y * z
      BY <1>5, <1>6 DEF Steps
    <3>. HIDE DEF y, z
    <3>4. y * z \in Nat
      BY <3>1, <3>2
    <3>. DEFINE h == y * z
    <3>5. h \in Nat /\ p[k] = x + h
      BY <3>3, <3>4
    <3>. HIDE DEF h, x
    <3>6. x <= p[k]
      BY <3>1, <3>5
    <3>. QED  BY <3>6 DEF x
  <2>2. \A k \in 0 .. n : p[k] \in Int
    OBVIOUS
  <2>3. \A i \in 0 .. n : \A k \in i .. n : p[i] <= p[k]
    BY <1>2, <2>1, <2>2, Rises
  <2>4. 1 \in 0 .. n /\ n \in 1 .. n /\ n \in 0 .. n
    BY <1>2
  <2>. QED  BY <2>2, <2>3, <2>4
<1>. DEFINE f == e[1]
            r == s[1]
            y == p[1]
            z == p[n]
            c == b[1]
<1>10. /\ f \in Nat /\ f # 0 /\ r \in Nat /\ r # 0 /\ c \in Nat /\ c # 0 /\ y \in Int /\ z \in Int
       /\ y <= z /\ z - y < r /\ y = (f - 1) * r /\ Size(e) = f * c /\ TotalSize(v) = 1 + z
  <2>1. 1 \in 1 .. n /\ 1 - 1 = 0
    BY <1>2
  <2>2. p[1] = p[0] + Less1(e)[1] * s[1] /\ p[0] = 0
    BY <1>5, <2>1 DEF Steps
  <2>3. y = 0 + (f - 1) * r
    BY <1>6, <2>1, <2>2
  <2>4. f \in Nat /\ r \in Nat /\ f # 0 /\ r # 0 /\ c \in Nat /\ c # 0
    BY <1>2, <1>8, <2>1
  <2>5. (f - 1) * r \in Int
    <3>. HIDE DEF f, r
    <3>. QED  BY <2>4
  <2>6. y = (f - 1) * r
    BY <2>3, <2>5
  <2>7. z - y < r
    BY <1>5, <2>1
  <2>. QED  BY <1>3, <1>7, <1>8, <1>9, <2>4, <2>6, <2>7
<1>. HIDE DEF f, r, y, z, c
<1>11. ASSUME idx < f
       PROVE  idx < Size(e) /\ idx * r < TotalSize(v)
  <2>. DEFINE g == f - 1 - idx
              d == c - 1
  <2>1. g \in Nat /\ d \in Nat /\ f - 1 = idx + g /\ c = 1 + d
    BY <1>10, <1>11
  <2>. HIDE DEF g, d
  <2>2. y = idx * r + g * r /\ idx * r \in Nat /\ g * r \in Nat
    BY <1>10, <2>1
  <2>3. Size(e) = f + f * d /\ f * d \in Nat
    BY <1>10, <2>1
  <2>4. idx < Size(e)
    <3>. DEFINE h == f * d
    <3>1. Size(e) = f + h /\ h \in Nat
      BY <2>3
    <3>. HIDE DEF h
    <3>. QED  BY <1>10, <1>11, <3>1
  <2>5. idx * r < TotalSize(v)
    <3>. DEFINE h == idx * r
                l == g * r
    <3>1. y = h + l /\ h \in Nat /\ l \in Nat
      BY <2>2
    <3>. HIDE DEF h, l
    <3>2. h < TotalSize(v)
      BY <1>10, <3>1
    <3>. QED  BY <3>2 DEF h
  <2>. QED  BY <2>4, <2>5
<1>12. ASSUME ~(idx < f)
       PROVE  ~(idx * r < TotalSize(v))
  <2>. DEFINE g == idx - f
  <2>1. g \in Nat /\ idx = (f - 1) + 1 + g /\ f - 1 \in Nat
    BY <1>10, <1>12
  <2>. HIDE DEF g
  <2>2. idx * r = y + r + g * r /\ g * r \in Nat
    BY <1>10, <2>1
  <2>. DEFINE h == g * r
              l == idx * r
  <2>3. l = y + r + h /\ h \in Nat
    BY <2>2
  <2>. HIDE DEF h, l
  <2>4. ~(l < TotalSize(v))
    BY <1>10, <2>3
  <2>. QED  BY <2>4 DEF l
<1>. QED  BY <1>11, <1>12 DEF f, r, e, s

LEMMA SliceCells ==
  ASSUME NEW v, Regular(v), Len(v.extents) > 1, NEW idx \in Nat, idx < v.extents[1]
  PROVE  Cells(SliceOf(v, idx)) = [x \in Indices(Tail(v.extents)) |-> Cells(v)[<<idx>> \o x]]
<1>. DEFINE e == v.extents
            n == Len(e)
            m == n - 1
            s == v.strides
            t == Tail(e)
            w == SliceOf(v, idx)
<1>1. GoodView(v) /\ GoodExtents(e) /\ GoodExtents(t)
  BY GoodTail DEF Regular, GoodView
<1>2. /\ w = [data |-> v.data + idx * s[1], extents |-> t, strides |-> Tail(s),
              contiguous |-> v.contiguous]
      /\ GoodView(w) /\ Len(t) = m /\ idx * s[1] \in Nat
  BY <1>1, SliceIs
<1>3. /\ n \in Nat /\ n > 1 /\ m \in Nat /\ n = m + 1 /\ DOMAIN e = 1 .. n /\ v.data \in Nat
      /\ e \in Seq(Nat) /\ e # <<>> /\ s \in Seq(Nat) /\ Len(s) = n
  <2>1. s \in Seq(Nat \ {0}) /\ Len(s) = n /\ v.data \in Nat /\ e \in Seq(Nat) /\ e # <<>>
    BY <1>1 DEF GoodView, GoodExtents
  <2>2. s \in Seq(Nat)
    BY <2>1, SeqMonotonic
  <2>3. n \in Nat /\ n > 1 /\ DOMAIN e = 1 .. n
    BY <2>1, LenProperties
  <2>. HIDE DEF n
  <2>. QED  BY <2>1, <2>2, <2>3
<1>. HIDE DEF w
<1>4. w.extents = t /\ w.strides = Tail(s) /\ w.data = v.data + idx * s[1]
  BY <1>2
<1>5. DOMAIN t = 1 .. m /\ \A i \in 1 .. m : t[i] = e[i + 1]
  <2>1. \A i \in 1 .. Len(t) : t[i] = e[i + 1]
    BY <1>3, HeadTailProperties
  <2>2. t \in Seq(Nat)
    BY <1>1 DEF GoodExtents
  <2>. QED  BY <1>2, <2>1, <2>2, LenProperties
<1>. HIDE DEF e, n, m, s, t
<1>6. ASSUME NEW x \in Indices(t)
      PROVE  Cells(w)[x] = Cells(v)[<<idx>> \o x]
  <2>. DEFINE y == <<idx>> \o x
  <2>1. /\ Cells(w)[x] = w.data + Offset(Tail(s), x)
        /\ x \in [1 .. m -> Nat] /\ Within(t, x)
    BY <1>2, <1>4, CellIs
  <2>2. y \in [1 .. n -> Nat] /\ y[1] = idx /\ \A i \in 1 .. m : y[i + 1] = x[i]
    BY ZenonT(30), <1>3, <2>1, InRow
  <2>3. Offset(s, y) = idx * s[1] + Offset(Tail(s), x) /\ Weights(Tail(s), m)
    BY <1>3, <2>1, OffsetInRow
  <2>. HIDE DEF y
  <2>4. Within(e, y)
    <3>1. ASSUME NEW i \in 1 .. n
          PROVE  y[i] < e[i]
      <4>1. CASE i = 1
        BY <2>2, <4>1 DEF e
      <4>2. CASE i # 1
        <5>. DEFINE j == i - 1
        <5>1. j \in 1 .. m /\ i = j + 1
          BY <1>3, <4>2
        <5>. HIDE DEF j
        <5>2. y[i] = x[j] /\ e[i] = t[j] /\ x[j] < t[j]
          BY <1>5, <2>1, <2>2, <5>1 DEF Within
        <5>. QED  BY <5>2
      <4>. QED  BY <4>1, <4>2
    <3>. QED  BY <1>3, <3>1 DEF Within
  <2>5. y \in Indices(e)
    BY <1>1, <1>3, <2>2, <2>4, IndicesAre
  <2>6. Cells(v)[y] = v.data + Offset(s, y)
    BY <1>1, <2>5, CellIs DEF e, s
  <2>7. Offset(Tail(s), x) \in Nat
    BY <2>1, <2>3, OffsetNat
  <2>. DEFINE h == idx * s[1]
              l == Offset(Tail(s), x)
  <2>8. Cells(w)[x] = (v.data + h) + l /\ Cells(v)[y] = v.data + (h + l)
        /\ h \in Nat /\ l \in Nat
    BY <1>2, <1>4, <2>1, <2>3, <2>6, <2>7
  <2>. HIDE DEF h, l
  <2>9. Cells(w)[x] = Cells(v)[y]
    BY <1>3, <2>8
  <2>. QED  BY <2>9 DEF y
<1>7. Cells(w) = [x \in Indices(t) |-> Cells(w)[x]]
  BY <1>4 DEF Cells
<1>8. Cells(w) = [x \in Indices(t) |-> Cells(v)[<<idx>> \o x]]
  BY <1>6, <1>7
<1>. QED  BY <1>8 DEF w, t, e

LEMMA SectionCells ==
  ASSUME NEW v, Regular(v), NEW origin, NEW ext, Box(v, origin, ext)
  PROVE  Cells(SectionOf(v, origin, ext)) = [x \in Indices(ext) |-> Cells(v)[Plus(origin, x)]]
<1>. DEFINE e == v.extents
            n == Len(e)
            s == v.strides
            w == SectionOf(v, origin, ext)
<1>1. GoodView(v) /\ GoodExtents(e) /\ v.data \in Nat
  BY DEF Regular, GoodView
<1>2. /\ RowsHaveElements(ext) => GoodView(w)
      /\ Len(ext) = n /\ w.extents = ext /\ w.strides = s /\ ext \in Seq(Nat)
      /\ w.data = v.data + Offset(s, origin)
  BY <1>1, SectionIs
<1>3. Weights(s, n) /\ DOMAIN e = 1 .. n /\ n \in Nat /\ e \in [1 .. n -> Nat]
  BY <1>1, GoodWeights
<1>4. /\ origin \in [1 .. n -> Nat] /\ ext \in [1 .. n -> Nat]
      /\ \A i \in 1 .. n : origin[i] + ext[i] <= e[i]
  BY DEF Box
<1>. HIDE DEF e, n, s, w
<1>5. ASSUME NEW x \in Indices(ext)
      PROVE  Cells(w)[x] = Cells(v)[Plus(origin, x)]
  <2>. DEFINE y == Plus(origin, x)
  <2>0. GoodView(w)
    BY <1>2, EmptyPlaces
  <2>1. /\ Cells(w)[x] = w.data + Offset(s, x)
        /\ x \in [1 .. n -> Nat] /\ Within(ext, x)
    BY <1>2, <2>0, CellIs
  <2>2. origin \in [1 .. n -> Int] /\ x \in [1 .. n -> Int]
    BY <1>4, <2>1
  <2>3. Offset(s, y) = Offset(s, origin) + Offset(s, x)
    <3>1. Weights(s, n)
      BY <1>3
    <3>. QED  BY <2>2, <3>1, OffsetPlus
  <2>4. y = [i \in 1 .. n |-> origin[i] + x[i]]
    BY <2>1 DEF Plus
  <2>. HIDE DEF y
  <2>5. y \in [1 .. n -> Nat]
    BY <1>4, <2>1, <2>4
  <2>6. Within(e, y)
    <3>1. ASSUME NEW i \in 1 .. n
          PROVE  y[i] < e[i]
      <4>1. /\ origin[i] \in Nat /\ x[i] \in Nat /\ ext[i] \in Nat /\ e[i] \in Nat
            /\ origin[i] + ext[i] <= e[i] /\ y[i] = origin[i] + x[i]
        BY <1>3, <1>4, <2>1, <2>4
      <4>2. x[i] < ext[i]
        BY <1>4, <2>1 DEF Within
      <4>. QED  BY <4>1, <4>2
    <3>. QED  BY <1>3, <3>1 DEF Within
  <2>7. y \in Indices(e)
    BY <1>1, <1>3, <2>5, <2>6, IndicesAre
  <2>8. Cells(v)[y] = v.data + Offset(s, y)
    BY <1>1, <2>7, CellIs DEF e, s
  <2>9. Offset(s, origin) \in Nat /\ Offset(s, x) \in Nat
    BY <1>3, <1>4, <2>1, OffsetNat
  <2>10. Cells(w)[x] = Cells(v)[y]
    BY <1>1, <1>2, <2>1, <2>3, <2>8, <2>9
  <2>. QED  BY <2>10 DEF y
<1>6. Cells(w) = [x \in Indices(ext) |-> Cells(w)[x]]
  BY <1>2 DEF Cells
<1>7. Cells(w) = [x \in Indices(ext) |-> Cells(v)[Plus(origin, x)]]
  BY <1>5, <1>6
<1>. QED  BY <1>7 DEF w

\* The cells of a span follow one another, in the order of its indices.
Dense(v) == Regular(v) /\ v.contiguous

LEMMA SpanCell ==
  ASSUME NEW v, Dense(v), NEW k \in Nat, k < Size(v.extents)
  PROVE  Nth(v.extents, k) \in Indices(v.extents) /\ Cells(v)[Nth(v.extents, k)] = v.data + k
<1>. DEFINE e == v.extents
            x == Nth(e, k)
<1>1. GoodView(v) /\ GoodExtents(e) /\ v.strides = MakeStride(e)
  BY DEF Dense, Regular, GoodView
<1>. HIDE DEF e
<1>2. x \in Indices(e) /\ Offset(Stride(e), x) = k
  BY <1>1, NthIs DEF e
<1>. HIDE DEF x
<1>3. Cells(v)[x] = v.data + Offset(v.strides, x)
  BY <1>1, <1>2, CellIs DEF e
<1>4. Offset(MakeStride(e), x) = Offset(Stride(e), x)
  <2>1. DOMAIN x = DOMAIN e
    BY <1>1, <1>2, IndicesAre
  <2>. QED  BY <1>1, <2>1, SpanOffset
<1>. QED  BY <1>1, <1>2, <1>3, <1>4 DEF e, x

\* And so do those of a span made of as many of them.
LEMMA SpanCells ==
  ASSUME NEW v, Dense(v), NEW d \in Nat, NEW f, GoodExtents(f), d + Size(f) <= Size(v.extents)
  PROVE  /\ Regular(SpanAt(v.data + d, f))
         /\ Cells(SpanAt(v.data + d, f)) =
              [x \in Indices(f) |-> Cells(v)[Nth(v.extents, d + Position(f, x))]]
<1>. DEFINE w == SpanAt(v.data + d, f)
<1>1. GoodView(v) /\ v.data \in Nat /\ v.data + d \in Nat /\ Size(v.extents) \in Nat
  BY SizeType DEF Dense, Regular, GoodView
<1>2. Regular(w) /\ Size(f) \in Nat
  BY <1>1, RegularSpan, SizeType
<1>3. w.extents = f /\ w.data = v.data + d /\ w.contiguous /\ GoodView(w)
  BY <1>2 DEF SpanAt, Regular
<1>. HIDE DEF w
<1>4. Dense(w)
  BY <1>2, <1>3 DEF Dense
<1>5. ASSUME NEW x \in Indices(f)
      PROVE  Cells(w)[x] = Cells(v)[Nth(v.extents, d + Position(f, x))]
  <2>. DEFINE k == Position(f, x)
  <2>1. k = Offset(Stride(f), x) /\ k \in Nat /\ k < Size(f)
    BY PositionIs
  <2>2. Nth(f, k) = x
    BY <2>1, NthIs
  <2>. HIDE DEF k
  <2>3. Cells(w)[x] = (v.data + d) + k
    BY <1>3, <1>4, <2>1, <2>2, SpanCell
  <2>4. d + k \in Nat /\ d + k < Size(v.extents)
    BY <1>1, <1>2, <2>1
  <2>5. Cells(v)[Nth(v.extents, d + k)] = v.data + (d + k)
    BY <2>4, SpanCell
  <2>6. Cells(w)[x] = Cells(v)[Nth(v.extents, d + k)]
    BY <1>1, <2>1, <2>3, <2>5
  <2>. QED  BY <2>6 DEF k
<1>6. Cells(w) = [x \in Indices(f) |-> Cells(w)[x]]
  BY <1>3 DEF Cells
<1>7. Cells(w) = [x \in Indices(f) |-> Cells(v)[Nth(v.extents, d + Position(f, x))]]
  BY <1>5, <1>6
<1>. QED  BY <1>2, <1>7 DEF w

\* A row of n is as long as it says, and its indices are the numbers below.
LEMMA RowIs ==
  ASSUME NEW n \in Nat
  PROVE  /\ GoodExtents(<<n>>) /\ Size(<<n>>) = n
         /\ \A x \in Indices(<<n>>) : Position(<<n>>, x) = x[1]
<1>. DEFINE e == <<n>>
            b == Stride(e)
<1>1. GoodExtents(e) /\ Len(e) = 1 /\ e[1] = n
  BY GoodRow
<1>2. IsStride(e, 1, b)
  BY <1>1, StrideIs
<1>. HIDE DEF e, b
<1>3. b[1] = 1 /\ b[0] = n /\ Size(e) = n
  <2>1. b[1] = 1 /\ Size(e) = b[0] /\ b[1 - 1] = e[1] * b[1]
    BY <1>2 DEF IsStride
  <2>2. 1 - 1 = 0 /\ e[1] * 1 = n
    BY <1>1
  <2>. QED  BY <2>1, <2>2
<1>4. ASSUME NEW x \in Indices(e)
      PROVE  Position(e, x) = x[1]
  <2>1. Position(e, x) = Offset(b, x)
    BY <1>1, PositionIs DEF b
  <2>2. x \in [1 .. 1 -> Nat]
    <3>1. DOMAIN e = 1 .. 1
      BY <1>2 DEF IsStride
    <3>. QED  BY <1>1, <3>1, IndicesAre
  <2>3. x \in [1 .. 1 -> Int] /\ Weights(b, 1) /\ x[1] \in Nat
    BY <1>2, <2>2, StrideWeights
  <2>4. PICK p \in [0 .. 1 -> Int] : Steps(p, x, b, 1) /\ Offset(b, x) = p[1]
    BY <2>3, OffsetSteps
  <2>5. p[1] = p[1 - 1] + x[1] * b[1] /\ p[0] = 0
    BY <2>4 DEF Steps
  <2>6. 1 - 1 = 0 /\ x[1] * 1 = x[1]
    BY <2>3
  <2>7. p[1] = x[1]
    BY <1>3, <2>3, <2>5, <2>6
  <2>. QED  BY <2>1, <2>4, <2>7
<1>. QED  BY <1>1, <1>3, <1>4 DEF e

LEMMA RowIndex ==
  ASSUME NEW n \in Nat
  PROVE  \A x \in Indices(<<n>>) : x[1] \in Nat
BY RowIs, PositionIs

LEMMA RowCells ==
  ASSUME NEW v, Dense(v), NEW d \in Nat, NEW n \in Nat, d + n <= Size(v.extents)
  PROVE  /\ Regular(SpanAt(v.data + d, <<n>>))
         /\ Cells(SpanAt(v.data + d, <<n>>)) =
              [x \in Indices(<<n>>) |-> Cells(v)[Nth(v.extents, d + x[1])]]
<1>. DEFINE e == <<n>>
<1>1. GoodExtents(e) /\ Size(e) = n /\ \A x \in Indices(e) : Position(e, x) = x[1]
  BY RowIs
<1>. HIDE DEF e
<1>2. /\ Regular(SpanAt(v.data + d, e))
      /\ Cells(SpanAt(v.data + d, e)) =
           [x \in Indices(e) |-> Cells(v)[Nth(v.extents, d + Position(e, x))]]
  BY <1>1, SpanCells
<1>3. Cells(SpanAt(v.data + d, e)) = [x \in Indices(e) |-> Cells(v)[Nth(v.extents, d + x[1])]]
  BY <1>1, <1>2
<1>. QED  BY <1>2, <1>3 DEF e

\* An iterator reads the element of its place.
LEMMA PlaceCell ==
  ASSUME NEW v, Regular(v), NEW a, IsPlace(v.extents, a), Within(v.extents, a)
  PROVE  /\ a \in Indices(v.extents) /\ a \in [DOMAIN v.extents -> Nat]
         /\ Nth(v.extents, LinearIndex(v.extents, a)) = a
         /\ v.contiguous => Cells(v)[a] = v.data + LinearIndex(v.extents, a)
<1>. DEFINE e == v.extents
            b == Stride(e)
<1>1. GoodView(v) /\ GoodExtents(e) /\ (v.contiguous => v.strides = MakeStride(e))
  BY DEF Regular, GoodView
<1>2. IsStride(e, Len(e), b) /\ Positive(e, Len(e), b)
  BY <1>1, StrideIs
<1>3. a \in [DOMAIN e -> Nat] /\ DOMAIN a = DOMAIN e
  BY DEF IsPlace
<1>. HIDE DEF e, b
<1>4. a \in Indices(e)
  BY <1>1, <1>3, IndicesAre DEF e
<1>5. LinearIndex(e, a) = Offset(b, a)
  <2>1. IsPlace(e, a) /\ Within(e, a)
    BY DEF e
  <2>. QED  BY <1>2, <2>1, PlaceOffset
<1>6. Nth(e, Offset(b, a)) = a
  BY <1>1, <1>4, NthIs DEF b
<1>7. Cells(v)[a] = v.data + Offset(v.strides, a)
  BY <1>1, <1>4, CellIs DEF e
<1>8. Offset(MakeStride(e), a) = Offset(b, a)
  BY <1>1, <1>3, SpanOffset DEF b
<1>. QED  BY <1>1, <1>3, <1>4, <1>5, <1>6, <1>7, <1>8 DEF e

-----------------------------------------------------------------------------
(* What the calls do to the view that is promised.                         *)

\* An iterator that stays between begin and end never is refused to go there.
LEMMA PlacePasses ==
  ASSUME NEW e, GoodExtents(e), NEW a, IsPlace(e, a)
  PROVE  AdvancePasses(e, a)
<1>1. e \in [DOMAIN e -> Nat] /\ a \in [DOMAIN e -> Nat]
  BY LenProperties DEF GoodExtents, IsPlace
<1>2. ASSUME NEW i \in DOMAIN e
      PROVE  a[i] >= 0 /\ a[i] <= e[i]
  <2>1. a[i] \in Nat /\ e[i] \in Nat
    BY <1>1
  <2>2. CASE Within(e, a)
    BY <2>1, <2>2 DEF Within
  <2>3. CASE a = e
    BY <2>1, <2>3
  <2>4. CASE a = PastRows(e)
    <3>1. a[i] = IF i = 1 THEN e[1] ELSE 0
      BY <2>4 DEF PastRows
    <3>. QED  BY <2>1, <3>1
  <2>. QED  BY <2>2, <2>3, <2>4 DEF IsPlace
<1>3. \A i \in DOMAIN e : ~(a[i] < 0) /\ ~(e[i] < a[i])
  BY <1>1, <1>2
<1>4. DOMAIN a = DOMAIN e /\ Zero(a) = [i \in DOMAIN e |-> 0]
  BY <1>1 DEF Zero
<1>. QED  BY <1>3, <1>4 DEF AdvancePasses, Less

Proper(v) == Regular(v) \/ EmptySection(v)

ViewInv == SpanInv /\ Proper(view)

Views == {"first", "last", "sub", "rest", "slice", "section", "reshape"}

\* A view is taken.
LEMMA ViewTaken ==
  ASSUME Promise!Legal(call'), call'.op \in Views, Proper(view'),
         view'.extents = Promise!NewExtents(call'),
         Cells(view') =
           [idx \in Indices(view'.extents) |-> Cells(view)[Promise!Original(call', idx)]],
         at' = Zero(view'.extents), got' = {}, fate = "running", fate' = fate
  PROVE  Promise!Next
<1>1. Promise!TakeView(call')
  <2>1. LinearIndex(view'.extents, at') = 0
    <3>1. CASE Regular(view')
      <4>1. GoodExtents(view'.extents)
        BY <3>1 DEF Regular, GoodView
      <4>. QED  BY <4>1, BeginPlace
    <3>2. CASE EmptySection(view')
      <4>1. view'.extents \in Seq(Nat) /\ ~RowsHaveElements(view'.extents)
        BY <3>2 DEF EmptySection
      <4>. QED  BY <4>1, EmptyPlaces
    <3>. QED  BY <3>1, <3>2 DEF Proper
  <2>2. difference' = 0
    BY <2>1 DEF difference
  <2>3. [idx \in Indices(view.extents) |-> view.data + Linearize(view, idx)] = Cells(view)
    BY DEF Cells
  <2>4. [idx \in Indices(view'.extents) |-> view'.data + Linearize(view', idx)] = Cells(view')
    BY DEF Cells
  <2>5. Promise!Indices(view'.extents) = Indices(view'.extents)
    BY SameDefinitions
  <2>. QED  BY <2>2, <2>3, <2>4, <2>5 DEF Promise!TakeView, Views
<1>. QED  BY <1>1 DEF Promise!Next, Promise!Obey

\* A call asks for more than the view has.
LEMMA ViewFails ==
  ASSUME ~Promise!Legal(call'), view' = view, at' = at, got' = got, fate = "running",
         fate' = "refused" \/ (fate' = "astray" /\ Promise!Unchecked(call'))
  PROVE  Promise!Next
<1>1. Promise!Fail(call')
  BY DEF Promise!Fail, difference
<1>. QED  BY <1>1 DEF Promise!Next

\* The iterator is moved.
LEMMA ViewMoved ==
  ASSUME Promise!Legal(call'), view' = view, got' = {}, fate = "running", fate' = fate,
         difference' \in 0 .. size,
         \/ call'.op = "begin"    /\ difference' = 0
         \/ call'.op = "end"      /\ difference' = size
         \/ call'.op = "next"     /\ difference' = difference + 1
         \/ call'.op = "previous" /\ difference' = difference - 1
         \/ call'.op = "advance"  /\ difference' = difference + call'.n
  PROVE  Promise!Next
<1>1. Promise!Move(call')
  <2>1. Promise!Size(view.extents) = size
    BY SameDefinitions DEF size
  <2>2. [idx \in Indices(view.extents) |-> view.data + Linearize(view, idx)] =
        [idx \in Indices(view'.extents) |-> view'.data + Linearize(view', idx)]
    OBVIOUS
  <2>. QED  BY <2>1, <2>2 DEF Promise!Move
<1>. QED  BY <1>1 DEF Promise!Next, Promise!Obey

\* An element is read.
LEMMA ViewRead ==
  ASSUME Promise!Legal(call'), view' = view, at' = at, fate = "running", fate' = fate,
         \/ call'.op = "at"   /\ got' = {Cells(view)[call'.idx]}
         \/ call'.op = "read" /\ got' = {Cells(view)[Promise!Nth(view.extents, difference)]}
  PROVE  Promise!Next
<1>1. Promise!Look(call')
  <2>1. [idx \in Indices(view.extents) |-> view.data + Linearize(view, idx)] = Cells(view)
    BY DEF Cells
  <2>2. /\ [idx \in Indices(view.extents) |-> view.data + Linearize(view, idx)] =
           [idx \in Indices(view'.extents) |-> view'.data + Linearize(view', idx)]
        /\ difference' = difference
    BY DEF difference
  <2>. QED  BY <2>1, <2>2 DEF Promise!Look
<1>. QED  BY <1>1 DEF Promise!Next, Promise!Obey

LEMMA ViewInitInv == Init => ViewInv /\ Promise!Init
<1>. SUFFICES ASSUME Init
              PROVE  ViewInv /\ Promise!Init
  OBVIOUS
<1>1. PICK e \in Shape : view = SpanAt(0, e) /\ at = Zero(e)
  BY DEF Init
<1>2. GoodExtents(e) /\ 0 \in Nat
  BY GoodShape
<1>3. Regular(view) /\ view.extents = e /\ view.contiguous /\ view.data = 0
  BY <1>1, <1>2, RegularSpan DEF SpanAt
<1>4. difference = 0
  BY <1>1, <1>2, <1>3, BeginPlace DEF difference
<1>5. Dense(view)
  BY <1>3 DEF Dense
<1>6. ASSUME NEW idx \in Indices(e)
      PROVE  Cells(view)[idx] = Promise!Position(e, idx)
  <2>. DEFINE k == Position(e, idx)
  <2>1. k \in Nat /\ k < Size(e) /\ k = Offset(Stride(e), idx) /\ Promise!Position(e, idx) = k
    BY <1>2, PositionIs, SameDefinitions
  <2>2. Nth(e, k) = idx
    BY <1>2, <2>1, NthIs
  <2>. HIDE DEF k
  <2>3. Cells(view)[idx] = 0 + k
    BY <1>3, <1>5, <2>1, <2>2, SpanCell
  <2>. QED  BY <2>1, <2>3
<1>7. Cells(view) = [idx \in Indices(e) |-> Promise!Position(e, idx)]
  <2>1. Cells(view) = [idx \in Indices(e) |-> Cells(view)[idx]]
    BY <1>3 DEF Cells
  <2>. QED  BY <1>6, <2>1
<1>8. Promise!Indices(e) = Indices(e)
  BY SameDefinitions
<1>9. Promise!Init
  <2>1. [idx \in Indices(view.extents) |-> view.data + Linearize(view, idx)] = Cells(view)
    BY DEF Cells
  <2>2. call = [op |-> "view"] /\ got = {} /\ fate = "running"
    BY DEF Init
  <2>. QED  BY <1>3, <1>4, <1>7, <1>8, <2>1, <2>2 DEF Promise!Init
<1>. QED  BY <1>3, <1>9, SpanInitInv DEF ViewInv, Proper

\* first, last and subspan: n cells, the first of them d behind that of the view.
RowCall(d, n) ==
  /\ call'.op \in Views /\ Promise!Legal(call') /\ Promise!NewExtents(call') = <<n>>
  /\ \A idx \in Indices(<<n>>) :
       Promise!Original(call', idx) = Promise!Nth(view.extents, d + idx[1])

LEMMA ViewRow ==
  ASSUME Regular(view), view.contiguous, NEW d \in Nat, NEW n \in Nat, d + n <= size,
         RowCall(d, n), fate = "running", Take(call', TRUE, TRUE, SpanAt(view.data + d, <<n>>))
  PROVE  Promise!Next /\ Proper(view')
<1>1. Dense(view)
  BY DEF Dense
<1>2. /\ view' = SpanAt(view.data + d, <<n>>) /\ at' = Zero(view'.extents) /\ got' = {}
      /\ fate' = fate
  BY DEF Take
<1>3. /\ Regular(view')
      /\ Cells(view') = [x \in Indices(<<n>>) |-> Cells(view)[Nth(view.extents, d + x[1])]]
  BY <1>1, <1>2, RowCells DEF size
<1>4. view'.extents = <<n>>
  BY <1>2 DEF SpanAt
<1>5. \A x \in Indices(<<n>>) : Promise!Original(call', x) = Nth(view.extents, d + x[1])
  BY SameDefinitions DEF RowCall
<1>6. Cells(view') =
        [x \in Indices(view'.extents) |-> Cells(view)[Promise!Original(call', x)]]
  BY <1>3, <1>4, <1>5
<1>. QED  BY <1>2, <1>3, <1>4, <1>6, ViewTaken DEF RowCall, Proper

\* A call that asks for more leaves the view as it was.
LEMMA ViewEnds ==
  ASSUME Proper(view), ~Promise!Legal(call'), fate = "running",
         Terminate \/ (GoAstray /\ Promise!Unchecked(call'))
  PROVE  Promise!Next /\ Proper(view')
BY ViewFails DEF Proper, Terminate, GoAstray

\* What every call does that meets a view with elements in its rows.
LEMMA RegularNext ==
  ASSUME SpanInv, Placed, Regular(view), Next
  PROVE  Promise!Next /\ Proper(view')
<1>0. /\ GoodView(view) /\ GoodExtents(view.extents) /\ IsPlace(view.extents, at)
      /\ view.data \in Nat /\ size \in Nat /\ fate = "running" /\ Proper(view)
      /\ difference \in 0 .. size
      /\ view.contiguous => ptr = view.data + difference
      /\ Promise!Size(view.extents) = size /\ Promise!Indices(view.extents) = Indices(view.extents)
      /\ Number \subseteq Int /\ Index \subseteq Seq(Int)
  <2>1. GoodView(view) /\ GoodExtents(view.extents) /\ view.data \in Nat
    BY DEF Placed, GoodView
  <2>2. size \in Nat /\ difference \in 0 .. size
    BY PlacedIndex
  <2>3. Promise!Size(view.extents) = size /\ Promise!Indices(view.extents) = Indices(view.extents)
    BY SameDefinitions DEF size
  <2>. QED  BY <2>1, <2>2, <2>3, SpanAssumption DEF Placed, Next, Proper
<1>1. ASSUME NEW n \in Number, First(n)
      PROVE  Promise!Next /\ Proper(view')
  <2>. DEFINE passes == n <= size /\ 0 <= n
  <2>1. n \in Int /\ call' = [op |-> "first", n |-> n] /\ view.contiguous
    BY <1>0, <1>1 DEF First, Take
  <2>2. Promise!Legal(call') <=> passes
    <3>1. Promise!Legal(call') <=> n \in 0 .. size
      BY <1>0, <2>1 DEF Promise!Legal
    <3>. QED  BY <1>0, <2>1, <3>1
  <2>3. CASE passes
    <3>1. RowCall(0, n) /\ n \in Nat
      <4>1. n \in Nat
        BY <2>1, <2>3
      <4>2. \A idx \in Indices(<<n>>) : idx[1] = 0 + idx[1]
        BY <4>1, RowIndex
      <4>. QED  BY <2>1, <2>2, <2>3, <4>1, <4>2
                   DEF RowCall, Views, Promise!NewExtents, Promise!Original
    <3>2. Take(call', TRUE, TRUE, SpanAt(view.data + 0, <<n>>)) /\ 0 + n <= size
      <4>1. view.data + 0 = view.data /\ 0 + n = n
        BY <1>0, <2>1
      <4>2. Take(call', TRUE, TRUE, SpanAt(view.data, <<n>>))
        BY <1>1, <2>1, <2>3 DEF First, Take
      <4>. QED  BY <2>3, <4>1, <4>2
    <3>. QED  BY <1>0, <2>1, <3>1, <3>2, ViewRow
  <2>4. CASE ~passes
    BY <1>0, <1>1, <2>2, <2>4, ViewEnds DEF First, Take
  <2>. QED  BY <2>3, <2>4
<1>2. ASSUME NEW n \in Number, Last(n)
      PROVE  Promise!Next /\ Proper(view')
  <2>. DEFINE passes == n <= size /\ 0 <= n
  <2>1. n \in Int /\ call' = [op |-> "last", n |-> n] /\ view.contiguous
    BY <1>0, <1>2 DEF Last, Take
  <2>2. Promise!Legal(call') <=> passes
    <3>1. Promise!Legal(call') <=> n \in 0 .. size
      BY <1>0, <2>1 DEF Promise!Legal
    <3>. QED  BY <1>0, <2>1, <3>1
  <2>3. CASE passes
    <3>1. RowCall(size - n, n)
      BY <1>0, <2>1, <2>2, <2>3 DEF RowCall, Views, Promise!NewExtents, Promise!Original
    <3>2. /\ view.data + size - n = view.data + (size - n)
          /\ size - n \in Nat /\ (size - n) + n <= size /\ n \in Nat
      BY <1>0, <2>1, <2>3
    <3>3. Take(call', TRUE, TRUE, SpanAt(view.data + (size - n), <<n>>))
      <4>1. Take(call', TRUE, TRUE, SpanAt(view.data + size - n, <<n>>))
        BY <1>2, <2>1, <2>3 DEF Last, Take
      <4>. QED  BY <3>2, <4>1
    <3>. QED  BY <1>0, <2>1, <3>1, <3>2, <3>3, ViewRow
  <2>4. CASE ~passes
    BY <1>0, <1>2, <2>2, <2>4, ViewEnds DEF Last, Take
  <2>. QED  BY <2>3, <2>4
<1>3. ASSUME NEW offset \in Number, NEW n \in Number, Sub(offset, n)
      PROVE  Promise!Next /\ Proper(view')
  <2>. DEFINE passes == (offset = 0 \/ offset <= size) /\ offset + n <= size /\ 0 <= n
  <2>1. /\ offset \in Int /\ n \in Int /\ view.contiguous
        /\ call' = [op |-> "sub", offset |-> offset, n |-> n]
    BY <1>0, <1>3 DEF Sub, Take
  <2>2. Promise!Legal(call') <=> passes /\ offset >= 0
    <3>1. Promise!Legal(call') <=> offset >= 0 /\ n >= 0 /\ offset + n <= size
      BY <1>0, <2>1 DEF Promise!Legal
    <3>2. offset + n <= size /\ n >= 0 => offset <= size
      BY <1>0, <2>1
    <3>. QED  BY <2>1, <3>1, <3>2
  <2>3. CASE passes /\ offset >= 0
    <3>1. RowCall(offset, n)
      BY <1>0, <2>1, <2>2, <2>3 DEF RowCall, Views, Promise!NewExtents, Promise!Original
    <3>2. Take(call', TRUE, TRUE, SpanAt(view.data + offset, <<n>>))
      BY <1>3, <2>1, <2>3 DEF Sub, Take
    <3>3. offset \in Nat /\ n \in Nat
      BY <2>1, <2>3
    <3>. QED  BY <1>0, <2>1, <2>3, <3>1, <3>2, <3>3, ViewRow
  <2>4. CASE ~(passes /\ offset >= 0)
    <3>1. ~(offset >= 0) => Promise!Unchecked(call')
      BY <2>1 DEF Promise!Unchecked
    <3>. QED  BY <1>0, <1>3, <2>2, <2>4, <3>1, ViewEnds DEF Sub, Take
  <2>. QED  BY <2>3, <2>4
<1>4. ASSUME NEW offset \in Number, SubToTheEnd(offset)
      PROVE  Promise!Next /\ Proper(view')
  <2>. DEFINE passes == offset = 0 \/ offset <= size
  <2>1. offset \in Int /\ view.contiguous /\ call' = [op |-> "rest", offset |-> offset]
    BY <1>0, <1>4 DEF SubToTheEnd, Take
  <2>2. (Promise!Legal(call') <=> passes /\ offset >= 0) /\ (passes => offset <= size)
    <3>1. Promise!Legal(call') <=> offset \in 0 .. size
      BY <1>0, <2>1 DEF Promise!Legal
    <3>. QED  BY <1>0, <2>1, <3>1
  <2>3. CASE passes /\ offset >= 0
    <3>1. RowCall(offset, size - offset)
      BY <1>0, <2>1, <2>2, <2>3 DEF RowCall, Views, Promise!NewExtents, Promise!Original
    <3>2. Take(call', TRUE, TRUE, SpanAt(view.data + offset, <<size - offset>>))
      BY <1>4, <2>1, <2>3 DEF SubToTheEnd, Take
    <3>3. offset \in Nat /\ size - offset \in Nat /\ offset + (size - offset) <= size
      BY <1>0, <2>1, <2>2, <2>3
    <3>. QED  BY <1>0, <2>1, <3>1, <3>2, <3>3, ViewRow
  <2>4. CASE ~(passes /\ offset >= 0)
    <3>1. ~(offset >= 0) => Promise!Unchecked(call')
      BY <2>1 DEF Promise!Unchecked
    <3>. QED  BY <1>0, <1>4, <2>2, <2>4, <3>1, ViewEnds DEF SubToTheEnd, Take
  <2>. QED  BY <2>3, <2>4
<1>5. ASSUME NEW extents \in Shape, AsSpan(extents)
      PROVE  Promise!Next /\ Proper(view')
  <2>1. view.contiguous /\ call' = [op |-> "reshape", extents |-> extents]
    BY <1>5 DEF AsSpan, Take
  <2>2. Promise!Legal(call') <=> size = Size(extents)
    <3>1. Promise!Size(extents) = Size(extents)
      BY SameDefinitions
    <3>. QED  BY <1>0, <2>1, <3>1 DEF Promise!Legal
  <2>3. CASE size = Size(extents)
    <3>. DEFINE w == SpanAt(view.data, extents)
    <3>1. /\ view' = w /\ at' = Zero(view'.extents) /\ got' = {} /\ fate' = fate
      BY <1>5, <2>1, <2>3 DEF AsSpan, Take
    <3>2. GoodExtents(extents) /\ view.data + 0 = view.data /\ 0 + Size(extents) <= Size(view.extents)
      <4>1. GoodExtents(extents)
        BY GoodShape
      <4>. QED  BY <1>0, <2>3, <4>1 DEF size
    <3>3. /\ Regular(SpanAt(view.data + 0, extents))
          /\ Cells(SpanAt(view.data + 0, extents)) =
               [x \in Indices(extents) |-> Cells(view)[Nth(view.extents, 0 + Position(extents, x))]]
      <4>1. Dense(view) /\ 0 \in Nat
        BY <1>0, <2>1 DEF Dense
      <4>. QED  BY <3>2, <4>1, SpanCells
    <3>4. w.extents = extents
      BY DEF SpanAt
    <3>5. ASSUME NEW x \in Indices(extents)
          PROVE  Promise!Original(call', x) = Nth(view.extents, 0 + Position(extents, x))
      <4>1. 0 + Position(extents, x) = Position(extents, x)
        BY <3>2, PositionIs
      <4>2. Promise!Original(call', x) = Promise!Nth(view.extents, Promise!Position(extents, x))
        BY <2>1 DEF Promise!Original
      <4>. QED  BY <4>1, <4>2, SameDefinitions
    <3>6. Cells(w) = [x \in Indices(extents) |-> Cells(view)[Promise!Original(call', x)]]
      BY <3>2, <3>3, <3>5
    <3>7. Promise!NewExtents(call') = extents /\ call'.op \in Views
      BY <2>1 DEF Promise!NewExtents, Views
    <3>8. Regular(w)
      BY <3>2, <3>3
    <3>. HIDE DEF w
    <3>. QED  BY <1>0, <2>2, <2>3, <3>1, <3>4, <3>6, <3>7, <3>8, ViewTaken DEF Proper
  <2>4. CASE ~(size = Size(extents))
    BY <1>0, <1>5, <2>2, <2>4, ViewEnds DEF AsSpan, Take
  <2>. QED  BY <2>3, <2>4
<1>6. ASSUME NEW idx \in Number, Slice(idx)
      PROVE  Promise!Next /\ Proper(view')
  <2>. DEFINE passes == idx < size /\ idx * view.strides[1] < TotalSize(view)
  <2>1. idx \in Int /\ Len(view.extents) > 1 /\ call' = [op |-> "slice", idx |-> idx]
    BY <1>0, <1>6 DEF Slice, Take
  <2>2. /\ Promise!Legal(call') <=> passes /\ idx >= 0
        /\ passes /\ idx >= 0 => idx < view.extents[1]
    <3>1. Promise!Legal(call') <=> size > 0 /\ idx \in 0 .. view.extents[1] - 1
      BY <1>0, <2>1 DEF Promise!Legal
    <3>2. idx \in Nat => (passes <=> idx < view.extents[1])
      BY <2>1, SlicePasses DEF size
    <3>3. view.extents[1] \in Nat
      BY <1>0, GoodWeights
    <3>4. idx >= 0 => idx \in Nat
      BY <2>1
    <3>5. idx >= 0 /\ idx < size => size > 0
      BY <1>0, <2>1
    <3>6. idx \in 0 .. view.extents[1] - 1 <=> idx >= 0 /\ idx < view.extents[1]
      BY <2>1, <3>3
    <3>. QED  BY <3>1, <3>2, <3>4, <3>5, <3>6
  <2>3. CASE passes /\ idx >= 0
    <3>. DEFINE w == SliceOf(view, idx)
    <3>1. /\ view' = w /\ at' = Zero(view'.extents) /\ got' = {} /\ fate' = fate
      BY <1>6, <2>1, <2>3 DEF Slice, Take, SliceOf
    <3>2. idx < view.extents[1] /\ idx \in Nat
      BY <2>1, <2>2, <2>3
    <3>3. Regular(w) /\ w.extents = Tail(view.extents)
      <4>1. w = [data |-> view.data + idx * view.strides[1], extents |-> Tail(view.extents),
                 strides |-> Tail(view.strides), contiguous |-> view.contiguous]
        BY <1>0, <2>1, <3>2, SliceIs
      <4>2. Regular(w)
        BY <2>1, <3>2, RegularSlice
      <4>. HIDE DEF w
      <4>. QED  BY <4>1, <4>2
    <3>4. Cells(w) = [x \in Indices(Tail(view.extents)) |-> Cells(view)[<<idx>> \o x]]
      BY <2>1, <3>2, SliceCells
    <3>. HIDE DEF w
    <3>5. \A x : Promise!Original(call', x) = <<idx>> \o x
      BY <2>1 DEF Promise!Original
    <3>6. Promise!NewExtents(call') = Tail(view.extents) /\ call'.op \in Views
      BY <2>1 DEF Promise!NewExtents, Views
    <3>7. Cells(w) = [x \in Indices(w.extents) |-> Cells(view)[Promise!Original(call', x)]]
      BY <3>3, <3>4, <3>5
    <3>. QED  BY <1>0, <2>2, <2>3, <3>1, <3>3, <3>6, <3>7, ViewTaken DEF Proper
  <2>4. CASE ~(passes /\ idx >= 0)
    <3>1. ~(idx >= 0) => Promise!Unchecked(call')
      BY <2>1 DEF Promise!Unchecked
    <3>. QED  BY <1>0, <1>6, <2>2, <2>4, <3>1, ViewEnds DEF Slice, Take
  <2>. QED  BY <2>3, <2>4
<1>7. ASSUME NEW origin \in Index, NEW ext \in Index, Section(origin, ext)
      PROVE  Promise!Next /\ Proper(view')
  <2>. DEFINE n == Len(view.extents)
              w == SectionOf(view, origin, ext)
              passes == /\ Linearizes(view, origin) /\ Size(ext) >= 0
                        /\ TotalSize(w) <= TotalSize(view) - Linearize(view, origin)
              inside == Natural(origin) /\ Natural(ext) /\ Fits(origin, ext)
  <2>1. n \in Nat /\ DOMAIN view.extents = 1 .. n /\ view.extents \in [1 .. n -> Nat]
    BY <1>0, GoodWeights
  <2>2. /\ call' = [op |-> "section", origin |-> origin, extents |-> ext]
        /\ Len(origin) = n /\ Len(ext) = n /\ Take(call', passes, inside, w)
    BY <1>7 DEF Section, SectionOf, Take
  <2>3. origin \in [1 .. n -> Int] /\ ext \in [1 .. n -> Int]
    <3>1. origin \in Seq(Int) /\ ext \in Seq(Int)
      BY <1>0
    <3>. HIDE DEF n
    <3>. QED  BY <2>2, <3>1, LenProperties
  <2>. HIDE DEF n, w
  <2>4. Linearizes(view, origin) <=> Within(view.extents, origin)
    BY <1>0, <2>1, <2>3, LinearizesIs
  <2>5. Promise!Legal(call') <=> Box(view, origin, ext)
    <3>1. Promise!Legal(call') <=> /\ origin \in [1 .. n -> Nat] /\ Within(view.extents, origin)
                                   /\ \A i \in 1 .. n : ext[i] \in 0 .. view.extents[i] - origin[i]
      <4>1. origin \in Indices(view.extents)
              <=> origin \in [1 .. n -> Nat] /\ Within(view.extents, origin)
        BY <1>0, <2>1, IndicesAre
      <4>2. Promise!Legal(call') <=>
              /\ origin \in Indices(view.extents)
              /\ \A i \in DOMAIN view.extents : ext[i] \in 0 .. view.extents[i] - origin[i]
        BY <1>0, <2>2 DEF Promise!Legal
      <4>. QED  BY <2>1, <4>1, <4>2
    <3>2. ASSUME origin \in [1 .. n -> Nat]
          PROVE  (\A i \in 1 .. n : ext[i] \in 0 .. view.extents[i] - origin[i])
                   <=> /\ ext \in [1 .. n -> Nat]
                       /\ \A i \in 1 .. n : origin[i] + ext[i] <= view.extents[i]
      <4>1. ASSUME NEW i \in 1 .. n
            PROVE  ext[i] \in 0 .. view.extents[i] - origin[i]
                     <=> ext[i] \in Nat /\ origin[i] + ext[i] <= view.extents[i]
        <5>1. ext[i] \in Int /\ origin[i] \in Nat /\ view.extents[i] \in Nat
          BY <2>1, <2>3, <3>2
        <5>. QED  BY <5>1
      <4>2. ext \in [1 .. n -> Nat] <=> \A i \in 1 .. n : ext[i] \in Nat
        BY <2>3
      <4>. QED  BY <4>1, <4>2
    <3>. QED  BY <3>1, <3>2 DEF Box, n
  <2>6. Box(view, origin, ext) <=> passes /\ inside
    <3>1. Box(view, origin, ext) => passes
      BY SectionPasses DEF w
    <3>2. inside <=> /\ origin \in [1 .. n -> Nat] /\ ext \in [1 .. n -> Nat]
                     /\ \A i \in 1 .. n : origin[i] + ext[i] <= view.extents[i]
      <4>1. DOMAIN origin = 1 .. n /\ DOMAIN ext = 1 .. n
        BY <2>3
      <4>2. Natural(origin) <=> origin \in [1 .. n -> Nat]
        <5>1. \A i \in 1 .. n : origin[i] >= 0 <=> origin[i] \in Nat
          BY <2>3
        <5>. QED  BY <2>3, <4>1, <5>1 DEF Natural
      <4>3. Natural(ext) <=> ext \in [1 .. n -> Nat]
        <5>1. \A i \in 1 .. n : ext[i] >= 0 <=> ext[i] \in Nat
          BY <2>3
        <5>. QED  BY <2>3, <4>1, <5>1 DEF Natural
      <4>. QED  BY <2>1, <4>2, <4>3 DEF Fits
    <3>3. Box(view, origin, ext) <=> inside /\ Within(view.extents, origin)
      BY <3>2 DEF Box, n
    <3>. QED  BY <2>4, <3>1, <3>3
  <2>7. CASE passes /\ inside
    <3>1. /\ view' = w /\ at' = Zero(view'.extents) /\ got' = {} /\ fate' = fate
      BY <2>2, <2>7 DEF Take
    <3>2. Box(view, origin, ext) /\ Promise!Legal(call')
      BY <2>5, <2>6, <2>7
    <3>3. /\ w.extents = ext /\ Proper(w)
          /\ Cells(w) = [x \in Indices(ext) |-> Cells(view)[Plus(origin, x)]]
      BY <1>0, <3>2, RegularSection, SectionIs, SectionCells DEF Proper, w
    <3>4. \A x : Promise!Original(call', x) = Plus(origin, x)
      BY <2>2 DEF Promise!Original, Plus
    <3>5. Promise!NewExtents(call') = ext /\ call'.op \in Views
      BY <2>2 DEF Promise!NewExtents, Views
    <3>6. Cells(w) = [x \in Indices(w.extents) |-> Cells(view)[Promise!Original(call', x)]]
      BY <3>3, <3>4
    <3>. QED  BY <1>0, <3>1, <3>2, <3>3, <3>5, <3>6, ViewTaken
  <2>8. CASE ~(passes /\ inside)
    <3>1. ~Promise!Legal(call')
      BY <2>5, <2>6, <2>8
    <3>2. passes => Promise!Unchecked(call')
      BY <2>2, <2>4 DEF Promise!Unchecked, Within
    <3>3. Terminate \/ (GoAstray /\ passes)
      BY <2>2, <2>8 DEF Take
    <3>. QED  BY <1>0, <3>1, <3>2, <3>3, ViewEnds
  <2>. QED  BY <2>7, <2>8
<1>8. ASSUME NEW idx \in Index, ElementAt(idx)
      PROVE  Promise!Next /\ Proper(view')
  <2>1. /\ call' = [op |-> "at", idx |-> idx] /\ Len(idx) = Len(view.extents)
        /\ DOMAIN view.extents = 1 .. Len(view.extents)
        /\ idx \in Seq(Int)
    BY <1>0, <1>8, GoodWeights DEF ElementAt, Read
  <2>2. idx \in [DOMAIN view.extents -> Int] /\ DOMAIN idx = DOMAIN view.extents
    BY <2>1, LenProperties
  <2>3. Linearizes(view, idx) <=> Within(view.extents, idx)
    BY <1>0, <2>2, LinearizesIs
  <2>4. Natural(idx) <=> idx \in [DOMAIN view.extents -> Nat]
    <3>1. \A i \in DOMAIN view.extents : idx[i] >= 0 <=> idx[i] \in Nat
      BY <2>2
    <3>. QED  BY <2>2, <3>1 DEF Natural
  <2>5. idx \in Indices(view.extents) <=> Linearizes(view, idx) /\ Natural(idx)
    BY <1>0, <2>3, <2>4, IndicesAre
  <2>6. Promise!Legal(call') <=> Linearizes(view, idx) /\ Natural(idx)
    BY <1>0, <2>1, <2>5 DEF Promise!Legal
  <2>7. CASE Linearizes(view, idx) /\ Natural(idx)
    <3>1. /\ got' = {view.data + Linearize(view, idx)}
          /\ view' = view /\ at' = at /\ fate' = fate
      BY <1>8, <2>7 DEF ElementAt, Read
    <3>2. Cells(view)[idx] = view.data + Linearize(view, idx)
      BY <2>5, <2>7 DEF Cells
    <3>3. call'.op = "at" /\ got' = {Cells(view)[call'.idx]}
      BY <2>1, <3>1, <3>2
    <3>. QED  BY <1>0, <2>6, <2>7, <3>1, <3>3, ViewRead
  <2>8. CASE ~(Linearizes(view, idx) /\ Natural(idx))
    <3>1. Linearizes(view, idx) => Promise!Unchecked(call')
      BY <2>1, <2>3 DEF Promise!Unchecked, Within
    <3>2. Terminate \/ (GoAstray /\ Linearizes(view, idx))
      BY <1>8, <2>8 DEF ElementAt, Read
    <3>. QED  BY <1>0, <2>6, <2>8, <3>1, <3>2, ViewEnds
  <2>. QED  BY <2>7, <2>8
<1>9. ASSUME Dereference
      PROVE  Promise!Next /\ Proper(view')
  <2>. DEFINE passes == Linearizes(view, at) /\ (view.contiguous => ValidateThis)
  <2>1. call' = [op |-> "read"] /\ at \in [DOMAIN view.extents -> Nat]
    BY <1>0, <1>9 DEF Dereference, Read, IsPlace
  <2>2. /\ difference \in Nat /\ (difference < size <=> Within(view.extents, at))
        /\ Linearizes(view, at) <=> Within(view.extents, at)
    <3>1. /\ difference \in 0 .. size /\ (difference < size <=> Within(view.extents, at))
      BY <1>0, PlaceIndex DEF difference, size
    <3>2. difference \in Nat
      BY <1>0, <3>1
    <3>3. at \in [DOMAIN view.extents -> Int]
      BY <2>1
    <3>. QED  BY <1>0, <3>1, <3>2, <3>3, LinearizesIs
  <2>3. Within(view.extents, at) => (view.contiguous => ValidateThis)
    <3>1. SUFFICES ASSUME Within(view.extents, at), view.contiguous
                   PROVE  ValidateThis
      OBVIOUS
    <3>2. ptr = view.data + difference /\ difference < size
      BY <1>0, <2>2, <3>1
    <3>3. ptr >= view.data /\ ptr < view.data + size
      <4>. HIDE DEF difference, size
      <4>. QED  BY <1>0, <2>2, <3>2
    <3>. QED  BY <3>3 DEF ValidateThis
  <2>4. passes <=> Within(view.extents, at)
    BY <2>2, <2>3
  <2>5. Promise!Legal(call') <=> passes
    <3>1. Promise!Legal(call') <=> difference < size
      BY <1>0, <2>1 DEF Promise!Legal
    <3>. QED  BY <2>2, <2>4, <3>1
  <2>6. CASE passes
    <3>1. /\ got' = {view.data + Linearize(view, at)} \cup (IF view.contiguous THEN {ptr} ELSE {})
          /\ view' = view /\ at' = at /\ fate' = fate
      BY <1>9, <2>6 DEF Dereference, Read
    <3>2. /\ at \in Indices(view.extents) /\ Nth(view.extents, difference) = at
          /\ view.contiguous => Cells(view)[at] = view.data + difference
      BY <1>0, <2>4, <2>6, PlaceCell DEF difference
    <3>3. Cells(view)[at] = view.data + Linearize(view, at)
      BY <3>2 DEF Cells
    <3>4. view.contiguous => ptr = Cells(view)[at]
      BY <1>0, <3>2
    <3>5. got' = {Cells(view)[at]}
      <4>1. CASE view.contiguous
        BY <3>1, <3>3, <3>4, <4>1
      <4>2. CASE ~view.contiguous
        BY <3>1, <3>3, <4>2
      <4>. QED  BY <4>1, <4>2
    <3>6. Promise!Nth(view.extents, difference) = at
      BY <3>2, SameDefinitions
    <3>7. call'.op = "read" /\ got' = {Cells(view)[Promise!Nth(view.extents, difference)]}
      BY <2>1, <3>5, <3>6
    <3>. QED  BY <1>0, <2>5, <2>6, <3>1, <3>7, ViewRead
  <2>7. CASE ~passes
    BY <1>0, <1>9, <2>5, <2>7, ViewEnds DEF Dereference, Read
  <2>. QED  BY <2>6, <2>7
<1>10. ASSUME Begin
       PROVE  Promise!Next /\ Proper(view')
  <2>1. /\ view' = view /\ fate' = fate /\ call' = [op |-> "begin"]
        /\ at' = Zero(view.extents) /\ got' = {}
    BY <1>10 DEF Begin, Move
  <2>2. difference' = 0 /\ difference' \in 0 .. size
    BY <1>0, <2>1, BeginPlace DEF difference
  <2>3. Promise!Legal(call')
    BY <2>1 DEF Promise!Legal
  <2>. QED  BY <1>0, <2>1, <2>2, <2>3, ViewMoved
<1>11. ASSUME End
       PROVE  Promise!Next /\ Proper(view')
  <2>1. /\ view' = view /\ fate' = fate /\ call' = [op |-> "end"]
        /\ at' = view.extents /\ got' = {}
    BY <1>11 DEF End, Move
  <2>2. difference' = size /\ difference' \in 0 .. size
    BY <1>0, <2>1, EndPlace DEF difference, size
  <2>3. Promise!Legal(call')
    BY <2>1 DEF Promise!Legal
  <2>. QED  BY <1>0, <2>1, <2>2, <2>3, ViewMoved
<1>12. ASSUME Increment
       PROVE  Promise!Next /\ Proper(view')
  <2>1. /\ view' = view /\ fate' = fate /\ call' = [op |-> "next"]
        /\ at' = Incremented(view.extents, at) /\ got' = {} /\ difference < size
    BY <1>12 DEF Increment, Move
  <2>2. difference' = difference + 1 /\ difference' \in 0 .. size
    <3>1. difference' = difference + 1
      BY <1>0, <2>1, IncrementedPlace DEF difference, size
    <3>. QED  BY <1>0, <2>1, <3>1
  <2>3. Promise!Legal(call')
    BY <2>1 DEF Promise!Legal
  <2>. QED  BY <1>0, <2>1, <2>2, <2>3, ViewMoved
<1>13. ASSUME Decrement
       PROVE  Promise!Next /\ Proper(view')
  <2>1. /\ view' = view /\ fate' = fate /\ call' = [op |-> "previous"]
        /\ at' = Decremented(view.extents, at) /\ got' = {} /\ difference > 0
    BY <1>13 DEF Decrement, Move
  <2>2. difference' = difference - 1 /\ difference' \in 0 .. size
    <3>1. difference' = difference - 1
      BY <1>0, <2>1, DecrementedPlace DEF difference
    <3>. QED  BY <1>0, <2>1, <3>1
  <2>3. Promise!Legal(call')
    BY <2>1 DEF Promise!Legal
  <2>. QED  BY <1>0, <2>1, <2>2, <2>3, ViewMoved
<1>14. ASSUME NEW n \in Number, Advance(n)
       PROVE  Promise!Next /\ Proper(view')
  <2>. DEFINE newAt == Advanced(view.extents, at, n)
  <2>1. call' = [op |-> "advance", n |-> n] /\ difference + n \in 0 .. size /\ n \in Int
    BY <1>0, <1>14 DEF Advance, Move
  <2>2. IsPlace(view.extents, newAt) /\ LinearIndex(view.extents, newAt) = difference + n
    BY <1>0, <2>1, AdvancedPlace DEF difference, size
  <2>. HIDE DEF newAt
  <2>3. RowsHaveElements(view.extents) /\ AdvancePasses(view.extents, newAt)
    BY <1>0, <2>2, PlacePasses DEF GoodExtents, RowsHaveElements
  <2>4. view' = view /\ fate' = fate /\ at' = newAt /\ got' = {}
    BY <1>14, <2>3 DEF Advance, Move, newAt
  <2>5. difference' = difference + n
    BY <2>2, <2>4 DEF difference
  <2>6. Promise!Legal(call')
    BY <2>1, <2>3 DEF Promise!Legal, RowsHaveElements
  <2>7. call'.op = "advance" /\ difference' = difference + call'.n /\ difference' \in 0 .. size
    BY <2>1, <2>5
  <2>. QED  BY <1>0, <2>4, <2>6, <2>7, ViewMoved
<1>. QED
  BY <1>1, <1>2, <1>3, <1>4, <1>5, <1>6, <1>7, <1>8, <1>9, <1>10, <1>11, <1>12, <1>13, <1>14 DEF Next

\* And one with none.
LEMMA EmptyViewNext ==
  ASSUME PlacedInEmpty, Next
  PROVE  Promise!Next /\ Proper(view')
<1>1. /\ fate = "running" /\ EmptySection(view) /\ Proper(view)
      /\ view.extents \in Seq(Nat) /\ ~RowsHaveElements(view.extents)
  BY DEF PlacedInEmpty, EmptySection, Proper, Next
<1>2. CASE Begin \/ End
  <2>1. /\ view' = view /\ fate' = fate /\ got' = {}
        /\ \/ call' = [op |-> "begin"] /\ at' = Zero(view.extents)
           \/ call' = [op |-> "end"]   /\ at' = view.extents
    BY <1>2 DEF Begin, End, Move
  <2>2. size = 0 /\ difference' = 0
    BY <1>1, <2>1, EmptyPlaces DEF size, difference
  <2>3. Promise!Legal(call')
    BY <2>1 DEF Promise!Legal
  <2>. QED  BY <1>1, <2>1, <2>2, <2>3, ViewMoved
<1>3. CASE /\ view' = view /\ at' = at /\ got' = got /\ ~Promise!Legal(call')
           /\ fate' = "refused" \/ (fate' = "astray" /\ Promise!Unchecked(call'))
  BY <1>1, <1>3, ViewFails
<1>. QED  BY <1>2, <1>3, EmptyCalls

LEMMA ViewNext == ViewInv /\ Next => Promise!Next /\ Proper(view')
<1>. SUFFICES ASSUME ViewInv, Next
              PROVE  Promise!Next /\ Proper(view')
  OBVIOUS
<1>1. CASE Placed
  <2>1. ~EmptySection(view)
    BY <1>1 DEF Placed, GoodView, GoodExtents, EmptySection, RowsHaveElements
  <2>. QED  BY <1>1, <2>1, RegularNext DEF ViewInv, Proper
<1>2. CASE PlacedInEmpty
  BY <1>2, EmptyViewNext
<1>. QED  BY <1>1, <1>2 DEF ViewInv, SpanInv

\* Spans and sections of any shape, and all that is taken from them, name the cells that the
\* view they were taken from names for those indices; iterators go through them row by row;
\* and a call that asks for something outside of the view ends the program (fail_fast_assert
\* of span.h), but for negative offsets and indices and for sections that do not fit, which
\* may pass.
THEOREM ViewRefinement == Spec => ImplementsView
<1>1. Init => ViewInv /\ Promise!Init
  BY ViewInitInv
<1>2. ViewInv /\ [Next]_vars => ViewInv' /\ [Promise!Next]_(Promise!vars)
  <2>1. ASSUME ViewInv, Next
        PROVE  ViewInv' /\ [Promise!Next]_(Promise!vars)
    <3>1. SpanInv'
      BY <2>1, SpanNextInv DEF ViewInv
    <3>. QED  BY <2>1, <3>1, ViewNext DEF ViewInv
  <2>2. ASSUME ViewInv, UNCHANGED vars
        PROVE  ViewInv' /\ [Promise!Next]_(Promise!vars)
    <3>1. SpanInv'
      BY <2>2, SpanNextInv DEF ViewInv
    <3>2. Proper(view')
      BY <2>2 DEF ViewInv, Proper, vars
    <3>3. UNCHANGED Promise!vars
      BY <2>2 DEF vars, Promise!vars, difference
    <3>. QED  BY <3>1, <3>2, <3>3 DEF ViewInv
  <2>. QED  BY <2>1, <2>2
<1>. QED  BY <1>1, <1>2, PTL DEF Spec, ImplementsView, Promise!Spec
=============================================================================
