---------------------------- MODULE BrokerProofs ----------------------------
(***************************************************************************)
(* The broker, from the recursion to the table of subscriptions, for any   *)
(* filters, topics and subscribers:                                        *)
(*   - the nodes of the closed form are those whose filters match,         *)
(*   - publishImpl publishes to the nodes of the closed form, each once,   *)
(*   - the tree keeps every subscription where a walk finds it, the cache  *)
(*     says what a walk would say, and the broker implements PubSub.       *)
(***************************************************************************)
EXTENDS Broker, TopicWalk, SequenceLemmas, FiniteSetTheorems

-----------------------------------------------------------------------------
(* The nodes a publish reaches in a tree that is closed under prefixes.    *)

Levels == Name \cup Wildcard

\* A prefix of a sequence, level by level.
LEMMA PrefixFacts ==
  ASSUME NEW S, NEW s \in Seq(S), NEW k \in 0..Len(s)
  PROVE  /\ SubSeq(s, 1, k) \in Seq(S)
         /\ Len(SubSeq(s, 1, k)) = k
         /\ \A i \in 1..k : SubSeq(s, 1, k)[i] = s[i]
<1>1. Len(s) \in Nat /\ k \in Nat /\ k <= Len(s)
  BY LenProperties
<1>2. /\ SubSeq(s, 0 + 1, k) \in Seq(S)
      /\ Len(SubSeq(s, 0 + 1, k)) = k - 0
      /\ \A i \in 1..(k - 0) : SubSeq(s, 0 + 1, k)[i] = s[0 + i]
  BY ONLY <1>1, Piece, s \in Seq(S), 0 \in Nat
<1>. QED  BY <1>1, <1>2

\* The prefixes of a prefix are prefixes.
LEMMA PrefixOfPrefix ==
  ASSUME NEW S, NEW s \in Seq(S), NEW k \in 0..Len(s), NEW i \in 0..k
  PROVE  SubSeq(SubSeq(s, 1, k), 1, i) = SubSeq(s, 1, i)
<1>1. Len(s) \in Nat /\ k \in Nat /\ k <= Len(s) /\ i \in Nat /\ i <= k
  BY LenProperties
<1>2. SubSeq(SubSeq(s, 0 + 1, k), 0 + 1, i) = SubSeq(s, 0 + 0 + 1, 0 + i)
  BY ONLY <1>1, PieceOfPiece, s \in Seq(S), 0 \in Nat, 0 <= k, k - 0 = k, 0 <= i
<1>. QED  BY <1>1, <1>2

LEMMA FilterFacts ==
  ASSUME NEW f \in Filter
  PROVE  /\ f \in Seq(Levels) /\ Len(f) \in Nat \ {0}
         /\ \A i \in 1..(Len(f) - 1) : f[i] # "#"
         /\ f = SubSeq(f, 1, Len(f))
<1>1. IsFilter(f)
  BY FilterAssumption
<1>2. f \in Seq(Levels) /\ f # <<>> /\ \A i \in 1..(Len(f) - 1) : f[i] # "#"
  BY <1>1 DEF IsFilter, Levels
<1>. QED  BY <1>2, EmptySeq, SubSeqFull

LEMMA TopicFacts ==
  ASSUME NEW t \in Topic
  PROVE  t \in Seq(Name) /\ Len(t) \in Nat \ {0}
<1>1. t \in Seq(Name) /\ t # <<>>
  BY TopicAssumption DEF IsTopic
<1>. QED  BY <1>1, EmptySeq

\* Whether publishImpl gets down to a prefix of a filter is a question of its
\* levels alone.
LEMMA VisitedPrefix ==
  ASSUME NEW N, NEW f \in Filter, Prefixes(f) \subseteq N, NEW t \in Topic,
         NEW k \in 1..Len(f)
  PROVE  SubSeq(f, 1, k) \in Visited(N, t)
           <=> k <= Len(t) /\ \A i \in 1..k : f[i] \in Alternatives(t[i])
<1>. DEFINE p == SubSeq(f, 1, k)
<1>1. f \in Seq(Levels) /\ Len(f) \in Nat /\ k \in 0..Len(f) /\ k \in Nat /\ Len(t) \in Nat
  BY FilterFacts, TopicFacts
<1>2. Len(p) = k /\ \A i \in 1..k : p[i] = f[i]
  BY <1>1, PrefixFacts
<1>3. ASSUME NEW i \in 0..k
      PROVE  SubSeq(f, 1, i) \in N
  <2>1. i \in 0..Len(f)
    BY <1>1
  <2>. QED  BY <2>1 DEF Prefixes
<1>4. ASSUME NEW i \in 1..k
      PROVE  SubSeq(p, 1, i) \in N
  <2>1. i \in 0..k
    BY <1>1
  <2>2. SubSeq(p, 1, i) = SubSeq(f, 1, i)
    BY <2>1, <1>1, PrefixOfPrefix
  <2>. QED  BY <2>1, <2>2, <1>3
<1>5. p \in N
  BY <1>1, <1>3, k \in 0..k
<1>. HIDE DEF p
<1>6. p \in Visited(N, t) <=> k <= Len(t) /\ \A i \in 1..k : f[i] \in Alternatives(t[i])
  BY <1>1, <1>2, <1>4, <1>5 DEF Visited
<1>. QED  BY <1>6 DEF p

LEMMA FrontIsPrefix ==
  ASSUME NEW f \in Filter
  PROVE  Front(f) = SubSeq(f, 1, Len(f) - 1) /\ Last(f) = f[Len(f)]
BY DEF Front, Last

\* publishNode is called on a filter's node exactly when the filter matches.
THEOREM PublishedMatches ==
  ASSUME NEW N, NEW f \in Filter, Prefixes(f) \subseteq N, NEW t \in Topic
  PROVE  f \in PublishedNodes(N, t) <=> Matches(f, t)
<1>. DEFINE n == Len(f)
            m == Len(t)
            Fits(k) == \A i \in 1..k : f[i] \in Alternatives(t[i])
<1>1. /\ f \in Seq(Levels) /\ n \in Nat \ {0} /\ m \in Nat \ {0}
      /\ \A i \in 1..(n - 1) : f[i] # "#"
      /\ f = SubSeq(f, 1, n)
  BY FilterFacts, TopicFacts
<1>2. f \in N
  BY <1>1 DEF Prefixes
<1>3. f \in Visited(N, t) <=> n <= m /\ Fits(n)
  <2>1. n \in 1..Len(f)
    BY <1>1
  <2>2. SubSeq(f, 1, n) \in Visited(N, t) <=> n <= m /\ Fits(n)
    BY <2>1, VisitedPrefix
  <2>. QED  BY <1>1, <2>2
<1>4. f \in Published(N, t) <=> n <= m /\ Fits(n) /\ (n = m \/ f[n] = "#")
  BY <1>3, FrontIsPrefix DEF Published
<1>5. f \in PublishedBelow(N, t) <=> n = m + 1 /\ f[n] = "#" /\ Fits(n - 1)
  <2>1. ASSUME n = m + 1
        PROVE  Front(f) \in Visited(N, t) <=> Fits(n - 1)
    <3>1. n - 1 \in 1..n /\ n - 1 <= m
      BY <1>1, <2>1
    <3>2. SubSeq(f, 1, n - 1) \in Visited(N, t) <=> n - 1 <= m /\ Fits(n - 1)
      BY <3>1, VisitedPrefix
    <3>. QED  BY <3>1, <3>2, FrontIsPrefix
  <2>. QED  BY <1>2, <2>1, FrontIsPrefix DEF PublishedBelow
<1>6. ASSUME NEW i \in 1..(n - 1)
      PROVE  f[i] \in Alternatives(t[i]) <=> LevelMatches(f[i], t[i])
  BY <1>1 DEF Alternatives, LevelMatches
<1>7. f[n] \in Alternatives(t[n]) <=> f[n] = "#" \/ LevelMatches(f[n], t[n])
  BY DEF Alternatives, LevelMatches
<1>8. Fits(n) <=> Fits(n - 1) /\ f[n] \in Alternatives(t[n])
  <2>1. \A i : i \in 1..n <=> i \in 1..(n - 1) \/ i = n
    BY <1>1
  <2>. QED  BY <2>1
<1>9. (\A i \in 1..n : LevelMatches(f[i], t[i]))
        <=> (\A i \in 1..(n - 1) : LevelMatches(f[i], t[i])) /\ LevelMatches(f[n], t[n])
  <2>1. \A i : i \in 1..n <=> i \in 1..(n - 1) \/ i = n
    BY <1>1
  <2>. QED  BY <2>1
<1>10. Fits(n - 1) <=> \A i \in 1..(n - 1) : LevelMatches(f[i], t[i])
  BY <1>6
<1>11. Matches(f, t) <=>
         /\ Fits(n - 1)
         /\ \/ n = m /\ LevelMatches(f[n], t[n])
            \/ f[n] = "#" /\ n - 1 <= m
  BY <1>9, <1>10, FrontIsPrefix DEF Matches
<1>12. f \in PublishedNodes(N, t) <=>
         \/ n <= m /\ Fits(n) /\ (n = m \/ f[n] = "#")
         \/ n = m + 1 /\ f[n] = "#" /\ Fits(n - 1)
  BY <1>4, <1>5 DEF PublishedNodes
<1>. DEFINE Below == Fits(n - 1)
            Level == LevelMatches(f[n], t[n])
            Hash == f[n] = "#"
<1>13. Fits(n) <=> Below /\ (Hash \/ Level)
  BY <1>7, <1>8
<1>14. ASSUME NEW i \in Nat, NEW j \in Nat
       PROVE  /\ i <= j <=> i = j \/ i < j
              /\ i - 1 <= j <=> i < j \/ i = j \/ i = j + 1
  OBVIOUS
<1>15. /\ n <= m <=> n = m \/ n < m
       /\ n - 1 <= m <=> n < m \/ n = m \/ n = m + 1
  BY <1>1, <1>14
<1>16. /\ f \in PublishedNodes(N, t) <=>
           \/ n <= m /\ Below /\ (Hash \/ Level) /\ (n = m \/ Hash)
           \/ n = m + 1 /\ Hash /\ Below
       /\ Matches(f, t) <=> Below /\ ((n = m /\ Level) \/ (Hash /\ n - 1 <= m))
  BY <1>11, <1>12, <1>13
<1>. HIDE DEF Below, Level, Hash, n, m
<1>. QED  BY <1>15, <1>16

-----------------------------------------------------------------------------
(* The walk.                                                               *)

\* Every node is a sequence of levels that hangs from the root.
TreeShape(N) ==
  /\ <<>> \in N
  /\ \A n \in N : n \in Seq(Levels) /\ \A k \in 0..Len(n) : SubSeq(n, 1, k) \in N

\* The node whose call publishes to n: n itself, or the last of the topic above
\* a "#".
Source(n) == IF Len(n) > Len(topic) THEN Front(n) ELSE n

\* Some loop in progress has still to come to the way down to v.
Ahead(v) ==
  \E k \in 1..Len(next) :
    /\ k <= Len(v)
    /\ \A i \in 1..(k - 1) : v[i] = path[i]
    /\ \E j \in next[k]..3 : v[k] = Parts(topic[k])[j]

\* A call is made from the iteration before the one its caller is to do next.
OnTheWay ==
  /\ Len(path) < Len(topic)
  /\ \A i \in 1..Len(path) : next[i] >= 2 /\ path[i] = Parts(topic[i])[next[i] - 1]

\* Published to once: the nodes of the closed form that no loop has still to
\* come to.
Counted ==
  \A n \in tree :
    published[n] = IF n \in PublishedNodes(tree, topic) /\ ~Ahead(Source(n)) THEN 1 ELSE 0

WalkIInv == WalkTypeOK /\ OnTheWay /\ Counted

-----------------------------------------------------------------------------
(* Sequences and trees.                                                    *)

LEMMA FrontFacts ==
  ASSUME NEW S, NEW s \in Seq(S), Len(s) > 0
  PROVE  /\ Front(s) \in Seq(S) /\ Len(Front(s)) = Len(s) - 1
         /\ \A i \in 1..(Len(s) - 1) : Front(s)[i] = s[i]
         /\ Last(s) \in S /\ s = Append(Front(s), Last(s))
<1>1. Len(s) - 1 \in 0..Len(s) /\ Len(s) \in 1..Len(s) /\ Len(s) \in Nat
  BY LenProperties
<1>2. /\ Front(s) \in Seq(S) /\ Len(Front(s)) = Len(s) - 1
      /\ \A i \in 1..(Len(s) - 1) : Front(s)[i] = s[i]
  BY <1>1, PrefixFacts DEF Front
<1>3. Last(s) \in S /\ Last(s) = s[Len(s)]
  BY <1>1, ElementOfSeq DEF Last
<1>4. s = Append(Front(s), Last(s))
  <2>. DEFINE a == Append(Front(s), Last(s))
  <2>1. a \in Seq(S) /\ Len(a) = Len(s)
    BY <1>1, <1>2, <1>3, AppendProperties
  <2>2. \A i \in 1..Len(s) : a[i] = s[i]
    BY <1>1, <1>2, <1>3, AppendProperties
  <2>. HIDE DEF a
  <2>3. a = s
    BY <2>1, <2>2, SeqEqual
  <2>. QED  BY <2>3 DEF a
<1>. QED  BY <1>2, <1>3, <1>4

LEMMA FrontOfAppend ==
  ASSUME NEW S, NEW s \in Seq(S), NEW e \in S
  PROVE  Front(Append(s, e)) = s /\ Last(Append(s, e)) = e
<1>. DEFINE a == Append(s, e)
<1>1. a \in Seq(S) /\ Len(a) = Len(s) + 1 /\ a[Len(s) + 1] = e
      /\ \A i \in 1..Len(s) : a[i] = s[i]
  BY AppendProperties
<1>2. Len(s) \in Nat
  BY LenProperties
<1>. HIDE DEF a
<1>3. Front(a) \in Seq(S) /\ Len(Front(a)) = Len(s) /\ \A i \in 1..Len(s) : Front(a)[i] = a[i]
  BY <1>1, <1>2, FrontFacts
<1>4. Front(a) = s
  BY <1>1, <1>3, SeqEqual
<1>5. Last(a) = e
  BY <1>1 DEF Last
<1>. QED  BY <1>4, <1>5 DEF a

LEMMA TreesShape ==
  ASSUME NEW N \in Trees
  PROVE  TreeShape(N)
<1>1. PICK F \in SUBSET Filter : N = UNION {AddPath(EmptyTree, f) : f \in F \cup {<<>>}}
  BY DEF Trees
<1>2. <<>> \in N
  BY <1>1 DEF AddPath, EmptyTree
<1>3. ASSUME NEW n \in N
      PROVE  n \in Seq(Levels) /\ \A k \in 0..Len(n) : SubSeq(n, 1, k) \in N
  <2>1. PICK f \in F \cup {<<>>} : n \in {<<>>} \cup Prefixes(f)
    BY <1>1, <1>3 DEF AddPath, EmptyTree
  <2>2. f \in Seq(Levels)
    BY FilterFacts, EmptySeq
  <2>3. Prefixes(f) \subseteq N
    BY <1>1 DEF AddPath
  <2>4. PICK k \in 0..Len(f) : n = SubSeq(f, 1, k)
    <3>1. CASE n \in Prefixes(f)
      BY <3>1 DEF Prefixes
    <3>2. CASE n = <<>>
      BY <2>2, <3>2, LenProperties, SubSeqEmpty
    <3>. QED  BY <2>1, <3>1, <3>2
  <2>5. n \in Seq(Levels) /\ Len(n) = k
    BY <2>2, <2>4, PrefixFacts
  <2>6. ASSUME NEW i \in 0..Len(n)
        PROVE  SubSeq(n, 1, i) \in N
    <3>1. SubSeq(n, 1, i) = SubSeq(f, 1, i)
      BY <2>2, <2>4, <2>5, PrefixOfPrefix
    <3>2. i \in 0..Len(f)
      BY <2>2, <2>5, LenProperties
    <3>3. SubSeq(f, 1, i) \in Prefixes(f)
      BY <3>2 DEF Prefixes
    <3>. QED  BY <2>3, <3>1, <3>3
  <2>. QED  BY <2>5, <2>6
<1>. QED  BY <1>2, <1>3 DEF TreeShape

\* In a tree, publishImpl gets to a node by its levels alone.
LEMMA VisitedLevels ==
  ASSUME NEW N, TreeShape(N), NEW n \in N, NEW t \in Topic
  PROVE  n \in Visited(N, t)
           <=> Len(n) \in 1..Len(t) /\ \A i \in 1..Len(n) : n[i] \in Alternatives(t[i])
<1>1. \A i \in 1..Len(n) : SubSeq(n, 1, i) \in N
  BY DEF TreeShape
<1>. QED  BY <1>1 DEF Visited

\* The three parts to try are the ways down, and they differ.
LEMMA PartsDiffer ==
  ASSUME NEW t \in Topic, NEW k \in 1..Len(t)
  PROVE  /\ \A j \in 1..3 : Parts(t[k])[j] \in Levels
         /\ \A i, j \in 1..3 : Parts(t[k])[i] = Parts(t[k])[j] => i = j
         /\ \A v : v \in Alternatives(t[k]) <=> \E j \in 1..3 : v = Parts(t[k])[j]
         /\ t[k] \notin Wildcard
<1>1. t[k] \in Name /\ t[k] # "+" /\ t[k] # "#"
  BY TopicFacts, ElementOfSeq, NameAssumption DEF Wildcard
<1>2. Parts(t[k])[1] = t[k] /\ Parts(t[k])[2] = "#" /\ Parts(t[k])[3] = "+"
  BY DEF Parts
<1>3. \A j : j \in 1..3 <=> j = 1 \/ j = 2 \/ j = 3
  OBVIOUS
<1>4. \A j \in 1..3 : Parts(t[k])[j] \in Levels
  BY <1>1, <1>2, <1>3 DEF Levels, Wildcard
<1>5. \A i, j \in 1..3 : Parts(t[k])[i] = Parts(t[k])[j] => i = j
  BY <1>1, <1>2, <1>3
<1>6. \A v : v \in Alternatives(t[k]) <=> \E j \in 1..3 : v = Parts(t[k])[j]
  BY <1>2, <1>3 DEF Alternatives
<1>. QED  BY <1>1, <1>4, <1>5, <1>6 DEF Wildcard

-----------------------------------------------------------------------------
(* One iteration of a loop.                                                *)

\* The iteration that Try does.
Here == Len(next)
Part == Parts(topic[Here])[next[Here]]
Child == Append(path, Part)

\* The call in progress.
LEMMA InCall ==
  ASSUME WalkTypeOK, OnTheWay, next # <<>>
  PROVE  /\ Here \in 1..Len(topic) /\ Here = Len(path) + 1
         /\ path \in Seq(Levels) /\ topic \in Topic /\ TreeShape(tree)
         /\ next \in Seq(1..4) /\ Here \in Nat
         /\ \A i \in 1..Len(path) :
              next[i] \in 2..4 /\ path[i] = Parts(topic[i])[next[i] - 1]
<1>1. next \in Seq(1..4) /\ Len(next) = Len(path) + 1 /\ topic \in Topic /\ TreeShape(tree)
  BY TreesShape DEF WalkTypeOK
<1>2. path \in Seq(Levels)
  BY <1>1 DEF WalkTypeOK, TreeShape
<1>3. Len(path) \in Nat /\ Len(topic) \in Nat
  BY <1>1, <1>2, LenProperties, TopicFacts
<1>4. \A i \in 1..Len(path) : next[i] \in 1..4
  BY <1>1, <1>3, ElementOfSeq
<1>. QED  BY <1>1, <1>2, <1>3, <1>4 DEF OnTheWay, Here

LEMMA ChildLevels ==
  ASSUME WalkTypeOK, OnTheWay, next # <<>>, next[Here] <= 3
  PROVE  /\ next[Here] \in 1..3 /\ Part \in Levels
         /\ Child \in Seq(Levels) /\ Len(Child) = Here /\ Child[Here] = Part
         /\ \A i \in 1..(Here - 1) : Child[i] = path[i]
         /\ \A i \in 1..Here : Child[i] \in Alternatives(topic[i])
         /\ \A i \in 1..(Here - 1) : \A j \in next[i]..3 : Child[i] # Parts(topic[i])[j]
<1>1. /\ Here \in 1..Len(topic) /\ Here = Len(path) + 1 /\ Here \in Nat
      /\ path \in Seq(Levels) /\ topic \in Topic /\ next \in Seq(1..4)
      /\ \A i \in 1..Len(path) : next[i] \in 2..4 /\ path[i] = Parts(topic[i])[next[i] - 1]
  BY InCall
<1>2. next[Here] \in 1..3
  <2>1. next[Here] \in 1..4
    BY <1>1, ElementOfSeq DEF Here
  <2>. QED  BY <2>1
<1>3. Part \in Levels /\ Part \in Alternatives(topic[Here])
  BY <1>1, <1>2, PartsDiffer DEF Part
<1>4. /\ Child \in Seq(Levels) /\ Len(Child) = Here /\ Child[Here] = Part
      /\ \A i \in 1..(Here - 1) : Child[i] = path[i]
  BY <1>1, <1>3, AppendProperties DEF Child
<1>5. ASSUME NEW i \in 1..(Here - 1)
      PROVE  /\ Child[i] \in Alternatives(topic[i])
             /\ \A j \in next[i]..3 : Child[i] # Parts(topic[i])[j]
  <2>1. i \in 1..Len(topic) /\ i \in 1..Len(path)
    BY <1>1
  <2>2. next[i] \in 2..4 /\ Child[i] = Parts(topic[i])[next[i] - 1] /\ next[i] - 1 \in 1..3
    BY <1>1, <1>4, <2>1
  <2>3. Child[i] \in Alternatives(topic[i])
    BY <1>1, <2>1, <2>2, PartsDiffer
  <2>4. ASSUME NEW j \in next[i]..3
        PROVE  Child[i] # Parts(topic[i])[j]
    <3>1. j \in 1..3 /\ j # next[i] - 1
      BY <2>2
    <3>. QED  BY <1>1, <2>1, <2>2, <3>1, PartsDiffer
  <2>. QED  BY <2>3, <2>4
<1>6. \A i \in 1..Here : i \in 1..(Here - 1) \/ i = Here
  BY <1>1
<1>. QED  BY <1>2, <1>3, <1>4, <1>5, <1>6

\* What Try does to the calls in progress.
LEMMA TryCalls ==
  ASSUME WalkTypeOK, OnTheWay, Try
  PROVE  /\ next # <<>> /\ next[Here] <= 3 /\ UNCHANGED <<tree, topic>>
         /\ \A i \in 1..(Here - 1) : next'[i] = next[i]
         /\ next'[Here] = next[Here] + 1
         /\ next' \in Seq(1..4)
         /\ \/ /\ Len(next') = Here /\ path' = path
               /\ Child \notin tree \/ Here = Len(topic)
            \/ /\ Len(next') = Here + 1 /\ next'[Here + 1] = 1 /\ path' = Child
               /\ Child \in tree /\ Here < Len(topic)
<1>1. next # <<>> /\ next[Here] <= 3 /\ UNCHANGED <<tree, topic>>
  BY DEF Try, Here
<1>2. next \in Seq(1..4) /\ Here \in 1..Len(topic) /\ Here \in Nat /\ Here = Len(next)
  BY <1>1, InCall DEF Here
<1>3. next[Here] \in 1..3
  BY <1>1, ChildLevels
<1>. DEFINE a == Advanced(Here)
<1>4. /\ a \in Seq(1..4) /\ Len(a) = Here /\ a[Here] = next[Here] + 1
      /\ \A i \in 1..(Here - 1) : a[i] = next[i]
  <2>1. next[Here] + 1 \in 1..4 /\ Here \in 1..Len(next)
    BY <1>2, <1>3
  <2>2. a = [next EXCEPT ![Here] = next[Here] + 1]
    BY DEF Advanced
  <2>3. \A i \in 1..(Here - 1) : i \in 1..Len(next) /\ i # Here
    BY <1>2
  <2>. QED  BY <1>2, <2>1, <2>2, <2>3, ExceptSeq
<1>5. CASE Child \notin tree \/ Here = Len(topic)
  <2>1. next' = a /\ path' = path
    BY <1>5 DEF Try, Here, Child, Part
  <2>. QED  BY <1>1, <1>4, <1>5, <2>1
<1>6. CASE Child \in tree /\ Here # Len(topic)
  <2>1. next' = Append(a, 1) /\ path' = Child
    BY <1>6 DEF Try, Here, Child, Part
  <2>. HIDE DEF a
  <2>2. 1 \in 1..4
    OBVIOUS
  <2>3. /\ Append(a, 1) \in Seq(1..4) /\ Len(Append(a, 1)) = Here + 1
        /\ \A i \in 1..Here : Append(a, 1)[i] = a[i]
        /\ Append(a, 1)[Here + 1] = 1
    BY <1>4, <2>2, AppendProperties
  <2>4. /\ \A i \in 1..(Here - 1) : next'[i] = next[i]
        /\ next'[Here] = next[Here] + 1
    BY <1>2, <1>4, <2>1, <2>3
  <2>5. Here < Len(topic)
    BY <1>2, <1>6, TopicFacts DEF WalkTypeOK
  <2>. QED  BY <1>1, <1>6, <2>1, <2>3, <2>4, <2>5
<1>. QED  BY <1>5, <1>6

\* The loops in progress come to Child now and not again, and with the call on
\* Child are ahead of the same other nodes as before.
LEMMA TryAhead ==
  ASSUME WalkTypeOK, OnTheWay, Try, NEW v \in Visited(tree, topic)
  PROVE  /\ v = Child => Ahead(v) /\ ~Ahead(v)'
         /\ v # Child => (Ahead(v)' <=> Ahead(v))
<1>1. /\ next # <<>> /\ next[Here] <= 3 /\ topic' = topic
      /\ \A i \in 1..(Here - 1) : next'[i] = next[i]
      /\ next'[Here] = next[Here] + 1
      /\ \/ /\ Len(next') = Here /\ path' = path
            /\ Child \notin tree \/ Here = Len(topic)
         \/ /\ Len(next') = Here + 1 /\ next'[Here + 1] = 1 /\ path' = Child
            /\ Child \in tree /\ Here < Len(topic)
  BY TryCalls
<1>2. /\ Here \in 1..Len(topic) /\ Here \in Nat /\ topic \in Topic
      /\ TreeShape(tree) /\ Here = Len(next) /\ Len(topic) \in Nat
  BY <1>1, InCall, TopicFacts DEF Here
<1>3. /\ next[Here] \in 1..3
      /\ Child \in Seq(Levels) /\ Len(Child) = Here /\ Child[Here] = Part
      /\ \A i \in 1..(Here - 1) : Child[i] = path[i]
      /\ \A i \in 1..(Here - 1) : \A j \in next[i]..3 : Child[i] # Parts(topic[i])[j]
  BY <1>1, ChildLevels
<1>4. /\ v \in tree /\ v \in Seq(Levels) /\ Len(v) \in 1..Len(topic)
      /\ \A i \in 1..Len(v) : v[i] \in Alternatives(topic[i])
  <2>1. v \in tree
    BY DEF Visited
  <2>2. v \in Seq(Levels)
    BY <1>2, <2>1 DEF TreeShape
  <2>. QED  BY <1>2, <2>1, <2>2, VisitedLevels
<1>. DEFINE Waits(k) == /\ k <= Len(v)
                        /\ \A i \in 1..(k - 1) : v[i] = path[i]
                        /\ \E j \in next[k]..3 : v[k] = Parts(topic[k])[j]
            WillWait(k) == /\ k <= Len(v)
                           /\ \A i \in 1..(k - 1) : v[i] = path'[i]
                           /\ \E j \in next'[k]..3 : v[k] = Parts(topic[k])[j]
            Below == Here <= Len(v) /\ \A i \in 1..Here : v[i] = Child[i]
<1>5. /\ Ahead(v) <=> \E k \in 1..Here : Waits(k)
      /\ Ahead(v)' <=> \E k \in 1..Len(next') : WillWait(k)
  BY <1>1, <1>2 DEF Ahead
<1>6. ASSUME NEW k \in 1..(Here - 1)
      PROVE  WillWait(k) <=> Waits(k)
  <2>1. k - 1 <= Here - 1 /\ next'[k] = next[k]
    BY <1>1, <1>2
  <2>2. \A i \in 1..(k - 1) : path'[i] = path[i]
    BY <1>1, <1>2, <1>3
  <2>. QED  BY <2>1, <2>2
<1>7. Waits(Here) <=> WillWait(Here) \/ Below
  <2>1. \A i \in 1..(Here - 1) : path'[i] = path[i]
    BY <1>1, <1>2, <1>3
  <2>2. \A j : j \in next[Here]..3 <=> j \in next'[Here]..3 \/ j = next[Here]
    BY <1>1, <1>3
  <2>3. Below <=> /\ Here <= Len(v)
                  /\ \A i \in 1..(Here - 1) : v[i] = path[i]
                  /\ v[Here] = Parts(topic[Here])[next[Here]]
    <3>1. \A i : i \in 1..Here <=> i \in 1..(Here - 1) \/ i = Here
      BY <1>2
    <3>. QED  BY <1>3, <3>1 DEF Part
  <2>. QED  BY <2>1, <2>2, <2>3
<1>8. Below <=> v = Child \/ (WillWait(Here + 1) /\ Len(next') = Here + 1)
  <2>1. CASE Len(v) = Here
    <3>1. Below <=> v = Child
      BY <1>3, <1>4, <2>1, SeqEqual
    <3>. QED  BY <1>2, <2>1, <3>1
  <2>2. CASE Len(v) # Here
    <3>1. v # Child
      BY <1>3, <2>2
    <3>2. ASSUME Below
          PROVE  WillWait(Here + 1) /\ Len(next') = Here + 1
      <4>1. Here + 1 <= Len(v) /\ Here < Len(topic)
        BY <1>2, <1>4, <2>2, <3>2
      <4>2. Child \in tree
        <5>1. Here \in 0..Len(v)
          BY <1>2, <1>4, <4>1
        <5>2. SubSeq(v, 1, Here) \in tree
          BY <1>2, <1>4, <5>1 DEF TreeShape
        <5>3. SubSeq(v, 1, Here) = Child
          <6>1. /\ SubSeq(v, 1, Here) \in Seq(Levels) /\ Len(SubSeq(v, 1, Here)) = Here
                /\ \A i \in 1..Here : SubSeq(v, 1, Here)[i] = v[i]
            BY <1>4, <5>1, PrefixFacts
          <6>. QED  BY <1>3, <3>2, <6>1, SeqEqual
        <5>. QED  BY <5>2, <5>3
      <4>3. Len(next') = Here + 1 /\ next'[Here + 1] = 1 /\ path' = Child
        BY <1>1, <1>2, <4>1, <4>2
      <4>4. \E j \in 1..3 : v[Here + 1] = Parts(topic[Here + 1])[j]
        <5>1. Here + 1 \in 1..Len(topic) /\ Here + 1 \in 1..Len(v)
          BY <1>2, <1>4, <4>1
        <5>2. v[Here + 1] \in Alternatives(topic[Here + 1])
          BY <1>4, <5>1
        <5>3. \A w : w \in Alternatives(topic[Here + 1])
                     => \E j \in 1..3 : w = Parts(topic[Here + 1])[j]
          BY SMTT(30), <1>2, <5>1, PartsDiffer
        <5>. QED  BY <5>2, <5>3
      <4>. QED  BY <1>2, <3>2, <4>1, <4>3, <4>4
    <3>3. ASSUME WillWait(Here + 1), Len(next') = Here + 1
          PROVE  Below
      <4>1. path' = Child
        BY <1>1, <1>2, <3>3
      <4>. QED  BY <1>2, <1>4, <3>3, <4>1
    <3>. QED  BY <3>1, <3>2, <3>3
  <2>. QED  BY <2>1, <2>2
<1>9. v = Child => /\ \A k \in 1..(Here - 1) : ~Waits(k)
                   /\ ~WillWait(Here) /\ ~WillWait(Here + 1)
  <2>. SUFFICES ASSUME v = Child
                PROVE  /\ \A k \in 1..(Here - 1) : ~Waits(k)
                       /\ ~WillWait(Here) /\ ~WillWait(Here + 1)
    OBVIOUS
  <2>1. \A k \in 1..(Here - 1) : ~Waits(k)
    BY <1>3
  <2>2. ~WillWait(Here)
    <3>1. ASSUME NEW j \in next'[Here]..3
          PROVE  v[Here] # Parts(topic[Here])[j]
      <4>1. j \in 1..3 /\ j # next[Here]
        BY <1>1, <1>3
      <4>. QED  BY <1>2, <1>3, <4>1, PartsDiffer DEF Part
    <3>. QED  BY <3>1
  <2>3. ~WillWait(Here + 1)
    BY <1>2, <1>3
  <2>. QED  BY <2>1, <2>2, <2>3
<1>. HIDE DEF Waits, WillWait, Below
<1>10. Ahead(v) <=> (\E k \in 1..(Here - 1) : Waits(k)) \/ Waits(Here)
  <2>1. \A k : k \in 1..Here <=> k \in 1..(Here - 1) \/ k = Here
    BY <1>2
  <2>. QED  BY <1>5, <2>1
<1>11. Ahead(v)' <=> \/ \E k \in 1..(Here - 1) : WillWait(k)
                     \/ WillWait(Here)
                     \/ WillWait(Here + 1) /\ Len(next') = Here + 1
  <2>1. CASE Len(next') = Here
    <3>1. \A k : k \in 1..Len(next') <=> k \in 1..(Here - 1) \/ k = Here
      BY <1>2, <2>1
    <3>. QED  BY <1>2, <1>5, <2>1, <3>1
  <2>2. CASE Len(next') = Here + 1
    <3>1. \A k : k \in 1..Len(next') <=> k \in 1..(Here - 1) \/ k = Here \/ k = Here + 1
      BY <1>2, <2>2
    <3>. QED  BY <1>5, <2>2, <3>1
  <2>. QED  BY <1>1, <2>1, <2>2
<1>12. (\E k \in 1..(Here - 1) : WillWait(k)) <=> (\E k \in 1..(Here - 1) : Waits(k))
  BY <1>6
<1>13. v = Child => ~(\E k \in 1..(Here - 1) : WillWait(k))
  BY <1>9, <1>12
<1>. QED  BY <1>7, <1>8, <1>9, <1>10, <1>11, <1>12, <1>13

LEMMA SourceVisited ==
  ASSUME WalkTypeOK, NEW n \in PublishedNodes(tree, topic)
  PROVE  Source(n) \in Visited(tree, topic)
<1>1. Len(topic) \in Nat
  BY TopicFacts DEF WalkTypeOK
<1>2. CASE n \in Published(tree, topic)
  BY <1>1, <1>2 DEF Published, Visited, Source
<1>3. CASE n \in PublishedBelow(tree, topic)
  BY <1>1, <1>3 DEF PublishedBelow, Source
<1>. QED  BY <1>2, <1>3 DEF PublishedNodes

\* The iteration on a child publishes to the nodes whose source it is.
LEMMA TryPublishes ==
  ASSUME WalkTypeOK, OnTheWay, next # <<>>, next[Here] <= 3, Child \in tree, NEW n \in tree
  PROVE  n \in PublishedHere(Child, Part, Here = Len(topic))
           <=> n \in PublishedNodes(tree, topic) /\ Source(n) = Child
<1>1. /\ Here \in 1..Len(topic) /\ topic \in Topic /\ TreeShape(tree) /\ Len(topic) \in Nat
  BY InCall, TopicFacts
<1>2. /\ Child \in Seq(Levels) /\ Len(Child) = Here /\ Last(Child) = Part
      /\ \A i \in 1..Here : Child[i] \in Alternatives(topic[i])
  BY ChildLevels DEF Last
<1>3. Child \in Visited(tree, topic)
  BY <1>1, <1>2, VisitedLevels
<1>4. "#" \in Levels
  BY DEF Levels, Wildcard
<1>. DEFINE a == Append(Child, "#")
<1>5. Len(a) = Here + 1 /\ Front(a) = Child /\ Last(a) = "#"
  BY <1>2, <1>4, AppendProperties, FrontOfAppend
<1>. HIDE DEF a
<1>6. ASSUME n \in PublishedHere(Child, Part, Here = Len(topic))
      PROVE  n \in PublishedNodes(tree, topic) /\ Source(n) = Child
  <2>1. CASE n = Child /\ (Here = Len(topic) \/ Part = "#")
    BY <1>1, <1>2, <1>3, <2>1 DEF PublishedNodes, Published, Source
  <2>2. CASE n = a /\ Here = Len(topic)
    BY <1>1, <1>3, <1>5, <2>2 DEF PublishedNodes, PublishedBelow, Source
  <2>. QED  BY <1>6, <2>1, <2>2 DEF PublishedHere, a
<1>7. ASSUME n \in PublishedNodes(tree, topic), Source(n) = Child
      PROVE  n \in PublishedHere(Child, Part, Here = Len(topic))
  <2>1. CASE n \in Published(tree, topic)
    <3>1. n = Child
      BY <1>1, <1>7, <2>1 DEF Published, Visited, Source
    <3>. QED  BY <1>2, <2>1, <3>1 DEF Published, PublishedHere
  <2>2. CASE n \in PublishedBelow(tree, topic)
    <3>1. Front(n) = Child /\ Last(n) = "#" /\ Len(n) = Len(topic) + 1 /\ n \in Seq(Levels)
      BY <1>1, <1>7, <2>2 DEF PublishedBelow, Source, TreeShape
    <3>2. n = a /\ Len(Front(n)) = Len(n) - 1
      BY <1>1, <3>1, FrontFacts DEF a
    <3>3. Here = Len(topic)
      BY <1>1, <1>2, <3>1, <3>2
    <3>. QED  BY <3>2, <3>3 DEF PublishedHere, a
  <2>. QED  BY <1>7, <2>1, <2>2 DEF PublishedNodes
<1>. QED  BY <1>6, <1>7

-----------------------------------------------------------------------------
(* The invariant.                                                          *)

LEMMA WalkInitInv == WalkInit => WalkIInv
<1>. SUFFICES ASSUME WalkInit PROVE WalkIInv
  OBVIOUS
<1>1. topic \in Topic /\ Len(topic) \in Nat \ {0} /\ TreeShape(tree)
  BY TopicFacts, TreesShape DEF WalkInit
<1>2. next = <<1>> /\ Len(next) = 1 /\ next[1] = 1 /\ next # <<>> /\ next \in Seq(1..4)
      /\ path = <<>> /\ Len(path) = 0
  BY DEF WalkInit
<1>3. WalkTypeOK
  BY <1>1, <1>2 DEF WalkInit, WalkTypeOK, TreeShape
<1>4. OnTheWay
  BY <1>1, <1>2 DEF OnTheWay
<1>5. ASSUME NEW n \in tree, n \in PublishedNodes(tree, topic)
      PROVE  Ahead(Source(n))
  <2>. DEFINE v == Source(n)
  <2>1. v \in Visited(tree, topic)
    BY <1>3, <1>5, SourceVisited
  <2>. HIDE DEF v
  <2>2. v \in tree /\ 1 \in 1..Len(v) /\ 1 <= Len(v) /\ 1 \in 1..Len(topic)
    BY <1>1, <2>1 DEF Visited
  <2>3. v[1] \in Alternatives(topic[1])
    BY <1>1, <2>1, <2>2, VisitedLevels
  <2>4. \E j \in 1..3 : v[1] = Parts(topic[1])[j]
    <3>1. \A w : w \in Alternatives(topic[1]) => \E j \in 1..3 : w = Parts(topic[1])[j]
      BY <1>1, <2>2, PartsDiffer
    <3>. QED  BY <2>3, <3>1
  <2>5. Ahead(v)
    BY <1>2, <2>2, <2>4 DEF Ahead
  <2>. QED  BY <2>5 DEF v
<1>6. Counted
  BY <1>5 DEF Counted, WalkInit
<1>. QED  BY <1>3, <1>4, <1>6 DEF WalkIInv

LEMMA TryInv ==
  ASSUME WalkIInv, Try
  PROVE  WalkIInv'
<1>. USE DEF WalkIInv
<1>1. /\ next # <<>> /\ next[Here] <= 3 /\ tree' = tree /\ topic' = topic
      /\ \A i \in 1..(Here - 1) : next'[i] = next[i]
      /\ next'[Here] = next[Here] + 1
      /\ next' \in Seq(1..4)
      /\ \/ /\ Len(next') = Here /\ path' = path
            /\ Child \notin tree \/ Here = Len(topic)
         \/ /\ Len(next') = Here + 1 /\ next'[Here + 1] = 1 /\ path' = Child
            /\ Child \in tree /\ Here < Len(topic)
  BY TryCalls
<1>2. /\ Here \in 1..Len(topic) /\ Here = Len(path) + 1 /\ Here \in Nat
      /\ path \in Seq(Levels) /\ topic \in Topic /\ Len(topic) \in Nat
      /\ \A i \in 1..Len(path) : next[i] \in 2..4 /\ path[i] = Parts(topic[i])[next[i] - 1]
  BY <1>1, InCall, TopicFacts
<1>3. /\ next[Here] \in 1..3 /\ Len(Child) = Here /\ Child[Here] = Part
      /\ \A i \in 1..(Here - 1) : Child[i] = path[i]
  BY <1>1, ChildLevels
<1>4. published' \in [tree -> Nat] /\
      \A n \in tree : published'[n] = published[n] +
        (IF Child \in tree /\ n \in PublishedHere(Child, Part, Here = Len(topic)) THEN 1 ELSE 0)
  <2>1. published \in [tree -> Nat]
    BY DEF WalkTypeOK
  <2>2. CASE Child \notin tree
    <3>1. published' = published
      BY <2>2 DEF Try, Here, Child, Part
    <3>. QED  BY <2>1, <2>2, <3>1
  <2>3. CASE Child \in tree
    <3>1. PublishAll(PublishedHere(Child, Part, Here = Len(topic)))
      BY <2>3 DEF Try, Here, Child, Part
    <3>. QED  BY <2>1, <2>3, <3>1 DEF PublishAll
  <2>. QED  BY <2>2, <2>3
<1>5. WalkTypeOK'
  <2>1. tree' \in Trees /\ topic' \in Topic /\ path' \in tree' /\ Len(next') = Len(path') + 1
    BY <1>1, <1>2, <1>3 DEF WalkTypeOK
  <2>2. next' # <<>>
    BY <1>1, <1>2
  <2>. QED  BY <1>1, <1>4, <2>1, <2>2 DEF WalkTypeOK
<1>6. OnTheWay'
  <2>1. CASE path' = path
    <3>1. \A i \in 1..Len(path) : i \in 1..(Here - 1)
      BY <1>2
    <3>2. \A i \in 1..Len(path) : next'[i] = next[i]
      BY <1>1, <3>1
    <3>. QED  BY <1>1, <1>2, <2>1, <3>2 DEF OnTheWay
  <2>2. CASE path' = Child /\ Here < Len(topic)
    <3>1. ASSUME NEW i \in 1..Here
          PROVE  next'[i] >= 2 /\ Child[i] = Parts(topic[i])[next'[i] - 1]
      <4>1. CASE i = Here
        BY <1>1, <1>3, <4>1 DEF Part
      <4>2. CASE i # Here
        <5>1. i \in 1..(Here - 1) /\ i \in 1..Len(path)
          BY <1>2, <4>2
        <5>. QED  BY <1>1, <1>2, <1>3, <5>1
      <4>. QED  BY <4>1, <4>2
    <3>. QED  BY <1>1, <1>3, <2>2, <3>1 DEF OnTheWay
  <2>. QED  BY <1>1, <2>1, <2>2
<1>7. ASSUME NEW n \in tree
      PROVE  published'[n] =
               IF n \in PublishedNodes(tree, topic) /\ ~Ahead(Source(n))' THEN 1 ELSE 0
  <2>. DEFINE Here1 == Child \in tree /\ n \in PublishedHere(Child, Part, Here = Len(topic))
  <2>1. published[n] = IF n \in PublishedNodes(tree, topic) /\ ~Ahead(Source(n)) THEN 1 ELSE 0
    BY DEF Counted
  <2>2. published'[n] = published[n] + (IF Here1 THEN 1 ELSE 0)
    BY <1>4
  <2>3. Here1 <=> n \in PublishedNodes(tree, topic) /\ Source(n) = Child
    <3>1. n \in PublishedNodes(tree, topic) => Source(n) \in tree
      BY SourceVisited DEF Visited
    <3>. QED  BY <1>1, <3>1, TryPublishes
  <2>4. ASSUME n \in PublishedNodes(tree, topic)
        PROVE  /\ Source(n) = Child => Ahead(Source(n)) /\ ~Ahead(Source(n))'
               /\ Source(n) # Child => (Ahead(Source(n))' <=> Ahead(Source(n)))
    <3>1. PICK v \in Visited(tree, topic) : v = Source(n)
      BY <2>4, SourceVisited
    <3>2. Source(n)' = Source(n)
      BY <1>1 DEF Source
    <3>3. /\ v = Child => Ahead(v) /\ ~Ahead(v)'
          /\ v # Child => (Ahead(v)' <=> Ahead(v))
      BY TryAhead
    <3>4. (Ahead(Source(n))' <=> Ahead(v)') /\ (Ahead(Source(n)) <=> Ahead(v))
      BY <3>1, <3>2 DEF Ahead
    <3>. QED  BY <3>1, <3>3, <3>4
  <2>. HIDE DEF Here1
  <2>. QED  BY <2>1, <2>2, <2>3, <2>4
<1>8. Counted'
  BY <1>1, <1>7 DEF Counted
<1>. QED  BY <1>5, <1>6, <1>8

LEMMA ReturnInv ==
  ASSUME WalkIInv, Return
  PROVE  WalkIInv'
<1>. USE DEF WalkIInv
<1>1. /\ next # <<>> /\ next[Here] = 4 /\ next' = Front(next) /\ path' = CallersNode
      /\ tree' = tree /\ topic' = topic /\ published' = published
  BY DEF Return, Here
<1>2. /\ Here \in 1..Len(topic) /\ Here = Len(path) + 1 /\ Here \in Nat /\ Here = Len(next)
      /\ path \in Seq(Levels) /\ topic \in Topic /\ Len(topic) \in Nat
      /\ next \in Seq(1..4) /\ TreeShape(tree)
  BY <1>1, InCall, TopicFacts DEF Here
<1>3. /\ next' \in Seq(1..4) /\ Len(next') = Here - 1
      /\ \A i \in 1..(Here - 1) : next'[i] = next[i]
  <2>1. Len(next) > 0
    BY <1>2
  <2>2. /\ Front(next) \in Seq(1..4) /\ Len(Front(next)) = Len(next) - 1
        /\ \A i \in 1..(Len(next) - 1) : Front(next)[i] = next[i]
    BY <1>2, <2>1, FrontFacts
  <2>. QED  BY <1>1, <1>2, <2>2
<1>4. CASE Here = 1
  <2>1. path' = <<>> /\ next' = <<>> /\ path = <<>>
    BY <1>1, <1>2, <1>3, <1>4, EmptySeq DEF CallersNode
  <2>2. WalkTypeOK'
    BY <1>1, <1>2, <1>3, <2>1 DEF WalkTypeOK, TreeShape
  <2>3. OnTheWay'
    BY <1>1, <1>2, <2>1 DEF OnTheWay
  <2>4. ASSUME NEW v
        PROVE  Ahead(v)' <=> Ahead(v)
    BY <1>1, <1>2, <1>3, <1>4 DEF Ahead
  <2>5. \A n : Ahead(Source(n))' <=> Ahead(Source(n))
    BY <1>1, <2>4 DEF Source
  <2>6. Counted'
    BY <1>1, <2>5 DEF Counted
  <2>. QED  BY <2>2, <2>3, <2>6
<1>5. CASE Here # 1
  <2>1. /\ path' \in Seq(Levels) /\ Len(path') = Here - 2 /\ path' \in tree
        /\ \A i \in 1..(Here - 2) : path'[i] = path[i]
    <3>1. path # <<>> /\ Len(path) > 0
      BY <1>2, <1>5
    <3>2. path' = Front(path) /\ path' = SubSeq(path, 1, Len(path) - 1)
      BY <1>1, <3>1 DEF CallersNode, Front
    <3>3. path' \in tree
      BY <1>2, <3>1, <3>2 DEF TreeShape, WalkTypeOK
    <3>4. /\ Front(path) \in Seq(Levels) /\ Len(Front(path)) = Len(path) - 1
          /\ \A i \in 1..(Len(path) - 1) : Front(path)[i] = path[i]
      BY <1>2, <3>1, FrontFacts
    <3>. QED  BY <1>2, <3>2, <3>3, <3>4
  <2>2. next' # <<>> /\ Len(next') = Len(path') + 1
    BY <1>2, <1>3, <1>5, <2>1
  <2>3. WalkTypeOK'
    BY <1>1, <1>3, <2>1, <2>2 DEF WalkTypeOK
  <2>4. OnTheWay'
    <3>1. ASSUME NEW i \in 1..Len(path')
          PROVE  next'[i] >= 2 /\ path'[i] = Parts(topic[i])[next'[i] - 1]
      <4>1. i \in 1..(Here - 2) /\ i \in 1..(Here - 1) /\ i \in 1..Len(path)
        BY <1>2, <2>1
      <4>. QED  BY <1>3, <2>1, <4>1 DEF OnTheWay
    <3>. QED  BY <1>1, <1>2, <2>1, <3>1 DEF OnTheWay
  <2>5. ASSUME NEW v
        PROVE  Ahead(v)' <=> Ahead(v)
    <3>1. ASSUME NEW k \in 1..(Here - 1)
          PROVE  /\ next'[k] = next[k] /\ k \in 1..Len(next) /\ k \in 1..Len(next')
                 /\ \A i \in 1..(k - 1) : path'[i] = path[i]
      <4>1. \A i \in 1..(k - 1) : i \in 1..(Here - 2)
        BY <1>2
      <4>2. k \in 1..Len(next) /\ k \in 1..Len(next')
        BY <1>2, <1>3
      <4>. QED  BY <1>3, <2>1, <4>1, <4>2
    <3>2. \A k \in 1..Len(next) : k \in 1..(Here - 1) \/ k = Here
      BY <1>2
    <3>3. next[Here]..3 = {}
      BY <1>1
    <3>4. \A k \in 1..Len(next') : k \in 1..(Here - 1)
      BY <1>2, <1>3
    <3>. DEFINE Waits(k) == /\ k <= Len(v)
                            /\ \A i \in 1..(k - 1) : v[i] = path[i]
                            /\ \E j \in next[k]..3 : v[k] = Parts(topic[k])[j]
                WillWait(k) == /\ k <= Len(v)
                               /\ \A i \in 1..(k - 1) : v[i] = path'[i]
                               /\ \E j \in next'[k]..3 : v[k] = Parts(topic[k])[j]
    <3>5. \A k \in 1..(Here - 1) : WillWait(k) <=> Waits(k)
      BY <3>1
    <3>6. ~Waits(Here)
      BY <3>3
    <3>7. /\ Ahead(v) <=> \E k \in 1..Len(next) : Waits(k)
          /\ Ahead(v)' <=> \E k \in 1..Len(next') : WillWait(k)
      BY <1>1 DEF Ahead
    <3>. HIDE DEF Waits, WillWait
    <3>. QED  BY <3>1, <3>2, <3>4, <3>5, <3>6, <3>7
  <2>6. \A n : Ahead(Source(n))' <=> Ahead(Source(n))
    BY <1>1, <2>5 DEF Source
  <2>7. Counted'
    BY <1>1, <2>6 DEF Counted
  <2>. QED  BY <2>3, <2>4, <2>7
<1>. QED  BY <1>4, <1>5

LEMMA WalkInvariance == WalkSpec => []WalkIInv
<1>1. WalkIInv /\ [WalkNext]_walkVars => WalkIInv'
  <2>. SUFFICES ASSUME WalkIInv, [WalkNext]_walkVars PROVE WalkIInv'
    OBVIOUS
  <2>1. CASE UNCHANGED walkVars
    BY <2>1 DEF walkVars, WalkIInv, WalkTypeOK, OnTheWay, Counted, Ahead, Source
  <2>. QED  BY <2>1, TryInv, ReturnInv DEF WalkNext
<1>. QED  BY <1>1, WalkInitInv, PTL DEF WalkSpec

-----------------------------------------------------------------------------
(* The theorems.                                                           *)

\* The calls in progress stay within the tree and their loops within the parts.
THEOREM WalkTypeCorrect == WalkSpec => []WalkTypeOK
<1>1. WalkIInv => WalkTypeOK
  BY DEF WalkIInv
<1>. QED  BY <1>1, WalkInvariance, PTL

\* publishImpl calls publishNode on no node twice, for any filters and any topic
\* without wildcards (TopicAssumption): then its three ways down never meet.
THEOREM PublishesNoneTwice == WalkSpec => []NoneTwice
<1>1. WalkIInv => NoneTwice
  BY DEF WalkIInv, Counted, NoneTwice
<1>. QED  BY <1>1, WalkInvariance, PTL

\* publishImpl publishes to the nodes of the closed form only, and when it has
\* returned to all of them.
THEOREM WalksTheClosedForm == WalkSpec => []ReachesPublishedNodes
<1>1. WalkIInv => ReachesPublishedNodes
  <2>. SUFFICES ASSUME WalkIInv PROVE ReachesPublishedNodes
    OBVIOUS
  <2>1. PublishedNodes(tree, topic) \subseteq tree
    BY DEF PublishedNodes, Published, PublishedBelow, Visited
  <2>2. Returned => \A v : ~Ahead(v)
    BY DEF Returned, Ahead
  <2>. QED  BY <2>1, <2>2 DEF WalkIInv, Counted, ReachesPublishedNodes
<1>. QED  BY <1>1, WalkInvariance, PTL

\* When publishImpl has returned it has published to a filter's node exactly if
\* the filter matches, by the matching rule of the broker's tests.
THEOREM WalksTheMatches == WalkSpec => []ReachesMatches
<1>1. WalkIInv => ReachesMatches
  <2>. SUFFICES ASSUME WalkIInv, Returned, NEW f \in tree \cap Filter
                PROVE  published[f] > 0 <=> Matches(f, topic)
    BY DEF ReachesMatches
  <2>1. ~Ahead(Source(f))
    BY DEF Returned, Ahead
  <2>2. published[f] > 0 <=> f \in PublishedNodes(tree, topic)
    BY <2>1 DEF WalkIInv, Counted
  <2>3. Prefixes(f) \subseteq tree
    BY TreesShape DEF WalkIInv, WalkTypeOK, TreeShape, Prefixes
  <2>4. topic \in Topic
    BY DEF WalkIInv, WalkTypeOK
  <2>. QED  BY <2>2, <2>3, <2>4, PublishedMatches
<1>. QED  BY <1>1, WalkInvariance, PTL

-----------------------------------------------------------------------------
(* The broker.                                                             *)

IInv == TypeOK /\ TreeWellFormed /\ CacheCoherent

Paths == UNION {Prefixes(f) : f \in Filter \cup {<<>>}}

-----------------------------------------------------------------------------

LEMMA OccurrencesNat ==
  ASSUME NEW fs \in Request, NEW f
  PROVE  Occurrences(fs, f) \in Nat
<1>1. PICK n \in 0..MaxRequest : fs \in [1..n -> Filter]
  BY DEF Request
<1>2. IsFiniteSet(1..n)
  BY <1>1, FS_Interval, MaxRequestAssumption
<1>3. {i \in DOMAIN fs : fs[i] = f} \subseteq 1..n
  BY <1>1
<1>4. IsFiniteSet({i \in DOMAIN fs : fs[i] = f})
  BY <1>2, <1>3, FS_Subset
<1>. QED  BY <1>4, FS_CardinalityType DEF Occurrences

LEMMA RequestFilters ==
  ASSUME NEW fs \in Request, NEW i \in DOMAIN fs
  PROVE  fs[i] \in Filter
BY DEF Request

\* A filter whose subscription is counted is one of the request's.
LEMMA OccursInRequest ==
  ASSUME NEW fs \in Request, NEW f, Occurrences(fs, f) # 0
  PROVE  \E i \in DOMAIN fs : fs[i] = f
<1>. SUFFICES ASSUME {i \in DOMAIN fs : fs[i] = f} = {} PROVE FALSE
  OBVIOUS
<1>. QED  BY FS_EmptySet DEF Occurrences

LEMMA NoCopiesType == NoCopies \in Copies /\ NothingSent.copies = NoCopies
BY DEF NoCopies, Copies, NothingSent

\* The root and the filter itself are on a filter's path, and the path of any
\* node of it is part of it.
LEMMA PathFacts ==
  ASSUME NEW f \in Filter
  PROVE  /\ <<>> \in Prefixes(f) /\ f \in Prefixes(f)
         /\ \A p \in Prefixes(f) : Prefixes(p) \subseteq Prefixes(f)
<1>1. f \in Seq(Levels) /\ Len(f) \in Nat \ {0} /\ f = SubSeq(f, 1, Len(f))
  BY FilterFacts
<1>2. SubSeq(f, 1, 0) = <<>>
  BY SubSeqEmpty
<1>3. 0 \in 0..Len(f) /\ Len(f) \in 0..Len(f)
  BY <1>1
<1>4. <<>> \in Prefixes(f) /\ f \in Prefixes(f)
  BY <1>1, <1>2, <1>3 DEF Prefixes
<1>5. ASSUME NEW k \in 0..Len(f)
      PROVE  Prefixes(SubSeq(f, 1, k)) \subseteq Prefixes(f)
  <2>. DEFINE p == SubSeq(f, 1, k)
  <2>1. Len(p) = k
    BY <1>1, PrefixFacts
  <2>2. ASSUME NEW i \in 0..k
        PROVE  SubSeq(p, 1, i) \in Prefixes(f)
    <3>1. SubSeq(p, 1, i) = SubSeq(f, 1, i)
      BY <1>1, PrefixOfPrefix
    <3>2. i \in 0..Len(f)
      BY <1>1
    <3>. QED  BY <3>1, <3>2 DEF Prefixes
  <2>. HIDE DEF p
  <2>3. Prefixes(p) \subseteq Prefixes(f)
    BY <2>1, <2>2 DEF Prefixes
  <2>. QED  BY <2>3 DEF p
<1>. QED  BY <1>4, <1>5 DEF Prefixes

\* The walk of the tree sends what the matching rule says.
LEMMA WalkMatches ==
  ASSUME TypeOK, TreeWellFormed, NEW t \in Topic
  PROVE  /\ Walk(t) = [x \in Filter \X Subscriber |->
                         IF Matches(x[1], t) THEN leaves[x] ELSE 0]
         /\ Walk(t) \in Copies
<1>1. ASSUME NEW x \in Filter \X Subscriber
      PROVE  (IF x[1] \in PublishedNodes(nodes, t) THEN leaves[x] ELSE 0)
               = IF Matches(x[1], t) THEN leaves[x] ELSE 0
  <2>1. leaves[x] \in Nat /\ x[1] \in Filter
    BY DEF TypeOK, Copies
  <2>2. CASE x[1] \in nodes
    <3>1. Prefixes(x[1]) \subseteq nodes
      BY <2>2 DEF TreeWellFormed
    <3>. QED  BY <2>1, <3>1, PublishedMatches
  <2>3. CASE x[1] \notin nodes
    <3>1. leaves[x] = 0
      BY <2>1, <2>3 DEF TreeWellFormed
    <3>. QED  BY <3>1
  <2>. QED  BY <2>2, <2>3
<1>2. Walk(t) = [x \in Filter \X Subscriber |->
                   IF Matches(x[1], t) THEN leaves[x] ELSE 0]
  BY <1>1 DEF Walk
<1>3. Walk(t) \in Copies
  BY DEF Walk, Copies, TypeOK
<1>. QED  BY <1>2, <1>3

-----------------------------------------------------------------------------
(* The invariant holds at first and every step keeps it.                   *)

LEMMA InitIInv == Init => IInv
<1>. SUFFICES ASSUME Init PROVE IInv
  OBVIOUS
<1>1. nodes = {<<>>}
  BY DEF Init, EmptyTree
<1>2. Prefixes(<<>>) = {<<>>}
  <2>1. Len(<<>>) = 0 /\ 0..0 = {0}
    BY EmptySeq
  <2>2. SubSeq(<<>>, 1, 0) = <<>>
    BY SubSeqEmpty
  <2>. QED  BY <2>1, <2>2 DEF Prefixes
<1>3. TypeOK
  <2>1. nodes \subseteq Paths
    BY <1>1, <1>2 DEF Paths
  <2>2. cache \in [Topic -> Copies]
    BY NoCopiesType DEF Init, EmptyCache
  <2>3. sent \in [topic : Topic \cup {<<>>}, copies : Copies]
    BY NoCopiesType DEF Init, NothingSent
  <2>. QED  BY <2>1, <2>2, <2>3, NoCopiesType DEF Init, TypeOK, Paths
<1>4. TreeWellFormed
  BY <1>1, <1>2 DEF Init, TreeWellFormed, NoCopies
<1>5. CacheCoherent
  BY DEF Init, CacheCoherent, EmptyCache
<1>. QED  BY <1>3, <1>4, <1>5 DEF IInv

\* Emptying the cache makes it coherent, and without the cache there is
\* nothing to empty.
LEMMA InvalidatedCache ==
  ASSUME IInv, InvalidateCache, UNCHANGED useCache
  PROVE  CacheCoherent' /\ cache' \in [Topic -> Copies]
<1>1. CASE useCache
  BY <1>1, NoCopiesType DEF InvalidateCache, CacheCoherent, EmptyCache
<1>2. CASE ~useCache
  BY <1>2 DEF IInv, TypeOK, InvalidateCache, CacheCoherent
<1>. QED  BY <1>1, <1>2

LEMMA SubscribeIInv ==
  ASSUME IInv, NEW s \in Subscriber, NEW fs \in Request, Subscribe(s, fs)
  PROVE  IInv'
<1>1. /\ InvalidateCache /\ UNCHANGED useCache /\ sent' = NothingSent
      /\ nodes' = nodes \cup UNION {AddPath(nodes, fs[i]) : i \in DOMAIN fs}
      /\ leaves' = [x \in Filter \X Subscriber |->
                      leaves[x] + IF x[2] = s THEN Occurrences(fs, x[1]) ELSE 0]
  BY DEF Subscribe
<1>2. \A n : n \in nodes' <=> n \in nodes \/ \E i \in DOMAIN fs : n \in Prefixes(fs[i])
  BY <1>1 DEF AddPath
<1>3. TypeOK /\ TreeWellFormed
  BY DEF IInv
<1>4. leaves' \in Copies
  <2>1. \A x \in Filter \X Subscriber : leaves[x] \in Nat /\ Occurrences(fs, x[1]) \in Nat
    BY <1>3, OccurrencesNat DEF TypeOK, Copies
  <2>. QED  BY <1>1, <2>1 DEF Copies
<1>5. TypeOK'
  <2>1. nodes' \subseteq Paths
    BY <1>2, <1>3, RequestFilters DEF TypeOK, Paths
  <2>2. sent' \in [topic : Topic \cup {<<>>}, copies : Copies]
    BY <1>1, NoCopiesType DEF NothingSent
  <2>3. cache' \in [Topic -> Copies]
    BY <1>1, InvalidatedCache
  <2>4. useCache' \in BOOLEAN
    BY <1>1, <1>3 DEF TypeOK
  <2>. QED  BY <1>4, <2>1, <2>2, <2>3, <2>4 DEF TypeOK, Paths
<1>6. TreeWellFormed'
  <2>1. <<>> \in nodes'
    BY <1>2, <1>3 DEF TreeWellFormed
  <2>2. ASSUME NEW n \in nodes'
        PROVE  Prefixes(n) \subseteq nodes'
    <3>1. CASE n \in nodes
      BY <3>1, <1>2, <1>3 DEF TreeWellFormed
    <3>2. CASE \E i \in DOMAIN fs : n \in Prefixes(fs[i])
      BY <3>2, <1>2, RequestFilters, PathFacts
    <3>. QED  BY <3>1, <3>2, <1>2
  <2>3. ASSUME NEW x \in Filter \X Subscriber, leaves'[x] > 0
        PROVE  x[1] \in nodes'
    <3>1. leaves[x] \in Nat /\ Occurrences(fs, x[1]) \in Nat
      BY <1>3, OccurrencesNat DEF TypeOK, Copies
    <3>2. leaves[x] > 0 \/ Occurrences(fs, x[1]) # 0
      BY <1>1, <2>3, <3>1
    <3>3. CASE leaves[x] > 0
      BY <3>3, <1>2, <1>3 DEF TreeWellFormed
    <3>4. CASE Occurrences(fs, x[1]) # 0
      <4>1. PICK i \in DOMAIN fs : fs[i] = x[1]
        BY <3>4, OccursInRequest
      <4>2. x[1] \in Prefixes(fs[i])
        BY <4>1, PathFacts, x[1] \in Filter
      <4>. QED  BY <4>2, <1>2
    <3>. QED  BY <3>2, <3>3, <3>4
  <2>. QED  BY <2>1, <2>2, <2>3 DEF TreeWellFormed
<1>7. CacheCoherent'
  BY <1>1, InvalidatedCache
<1>. QED  BY <1>5, <1>6, <1>7 DEF IInv

LEMMA UnsubscribeIInv ==
  ASSUME IInv, NEW s \in Subscriber, NEW fs \in Request, Unsubscribe(s, fs)
  PROVE  IInv'
<1>1. /\ InvalidateCache /\ UNCHANGED <<useCache, nodes>> /\ sent' = NothingSent
      /\ leaves' = [x \in Filter \X Subscriber |->
                      IF x[1] \in nodes /\ IsSubscriber(x, s, fs) THEN 0 ELSE leaves[x]]
  BY DEF Unsubscribe
<1>2. TypeOK /\ TreeWellFormed
  BY DEF IInv
<1>3. TypeOK'
  <2>1. leaves' \in Copies
    BY <1>1, <1>2 DEF TypeOK, Copies
  <2>2. sent' \in [topic : Topic \cup {<<>>}, copies : Copies]
    BY <1>1, NoCopiesType DEF NothingSent
  <2>3. cache' \in [Topic -> Copies]
    BY <1>1, InvalidatedCache
  <2>4. useCache' \in BOOLEAN
    BY <1>1, <1>2 DEF TypeOK
  <2>. QED  BY <1>1, <1>2, <2>1, <2>2, <2>3, <2>4 DEF TypeOK
<1>4. TreeWellFormed'
  BY <1>1, <1>2 DEF TreeWellFormed, TypeOK, Copies
<1>5. CacheCoherent'
  BY <1>1, InvalidatedCache
<1>. QED  BY <1>3, <1>4, <1>5 DEF IInv

LEMMA PublishIInv ==
  ASSUME IInv, NEW t \in Topic, Publish(t)
  PROVE  IInv'
<1>1. UNCHANGED <<useCache, nodes, leaves>>
  BY DEF Publish, PublishCached, PublishWalk
<1>2. TypeOK /\ TreeWellFormed /\ CacheCoherent
  BY DEF IInv
<1>3. Walk(t) \in Copies
  BY <1>2, WalkMatches
<1>4. \A u \in Topic : Walk(u)' = Walk(u)
  BY <1>1 DEF Walk
<1>5. TreeWellFormed'
  BY <1>1, <1>2 DEF TreeWellFormed
<1>6. useCache' \in BOOLEAN
  BY <1>1, <1>2 DEF TypeOK
<1>7. CASE PublishCached(t)
  <2>1. cache' = cache /\ sent' = [topic |-> t, copies |-> cache[t]]
    BY <1>7 DEF PublishCached
  <2>2. TypeOK'
    BY <1>1, <1>2, <1>6, <2>1 DEF TypeOK
  <2>3. CacheCoherent'
    BY <1>1, <1>2, <1>4, <2>1 DEF CacheCoherent
  <2>. QED  BY <1>5, <2>2, <2>3 DEF IInv
<1>8. CASE PublishWalk(t)
  <2>1. /\ sent' = [topic |-> t, copies |-> Walk(t)]
        /\ cache' = IF useCache THEN [cache EXCEPT ![t] = Walk(t)] ELSE cache
    BY <1>8 DEF PublishWalk
  <2>2. cache' \in [Topic -> Copies]
    BY <1>2, <1>3, <2>1 DEF TypeOK
  <2>3. sent' \in [topic : Topic \cup {<<>>}, copies : Copies]
    BY <1>3, <2>1
  <2>4. TypeOK'
    BY <1>1, <1>2, <1>6, <2>2, <2>3 DEF TypeOK
  <2>5. CacheCoherent'
    BY <1>1, <1>2, <1>4, <2>1 DEF CacheCoherent, TypeOK
  <2>. QED  BY <1>5, <2>4, <2>5 DEF IInv
<1>. QED  BY <1>7, <1>8 DEF Publish

LEMMA NextIInv == IInv /\ [Next]_vars => IInv'
<1>. SUFFICES ASSUME IInv, [Next]_vars PROVE IInv'
  OBVIOUS
<1>1. CASE \E s \in Subscriber, fs \in Request : Subscribe(s, fs)
  BY <1>1, SubscribeIInv
<1>2. CASE \E s \in Subscriber, fs \in Request : Unsubscribe(s, fs)
  BY <1>2, UnsubscribeIInv
<1>3. CASE \E t \in Topic : Publish(t)
  BY <1>3, PublishIInv
<1>4. CASE UNCHANGED vars
  BY <1>4 DEF vars, IInv, TypeOK, TreeWellFormed, CacheCoherent, Walk
<1>. QED  BY <1>1, <1>2, <1>3, <1>4 DEF Next

LEMMA Invariance == Spec => []IInv
<1>. QED  BY InitIInv, NextIInv, PTL DEF Spec

-----------------------------------------------------------------------------

\* The broker's state is well typed: counts never go below zero and every
\* node of the tree lies on the path of a filter.
THEOREM TypeCorrect == Spec => []TypeOK
<1>1. IInv => TypeOK
  BY DEF IInv
<1>. QED  BY <1>1, Invariance, PTL

\* addOrFindNode and unsubscribeImpl leave no leaf where a walk from the root
\* would not get to.
THEOREM TreeStaysWellFormed == Spec => []TreeWellFormed
<1>1. IInv => TreeWellFormed
  BY DEF IInv
<1>. QED  BY <1>1, Invariance, PTL

\* A publish answered from _cache sends what publishImpl would have sent.
THEOREM CacheStaysCoherent == Spec => []CacheCoherent
<1>1. IInv => CacheCoherent
  BY DEF IInv
<1>. QED  BY <1>1, Invariance, PTL

-----------------------------------------------------------------------------
(* The refinement of PubSub.                                               *)

LEMMA SameDefinitions ==
  /\ PS!NothingSent = NothingSent
  /\ PS!NoCopies = NoCopies
  /\ PS!Request = Request
  /\ \A fs, f : PS!Occurrences(fs, f) = Occurrences(fs, f)
  /\ \A f, t : PS!Matches(f, t) <=> Matches(f, t)
<1>1. PS!NoCopies = NoCopies /\ PS!NothingSent = NothingSent
  BY DEF PS!NothingSent, PS!NoCopies, NothingSent, NoCopies
<1>2. PS!Request = Request
  BY DEF PS!Request, Request
<1>3. \A fs, f : PS!Occurrences(fs, f) = Occurrences(fs, f)
  BY DEF PS!Occurrences, Occurrences, PS!Cardinality, Cardinality, PS!IsFiniteSet, IsFiniteSet
<1>4. \A f, t : PS!Matches(f, t) <=> Matches(f, t)
  BY DEF PS!Matches, Matches, PS!LevelMatches, LevelMatches, PS!Last, Last
<1>. QED  BY <1>1, <1>2, <1>3, <1>4

LEMMA UnsubscribeRefines ==
  ASSUME IInv, NEW s \in Subscriber, NEW fs \in Request, Unsubscribe(s, fs)
  PROVE  PS!Unsubscribe(s, fs)
<1>1. ASSUME NEW x \in Filter \X Subscriber
      PROVE  (IF x[1] \in nodes /\ IsSubscriber(x, s, fs) THEN 0 ELSE leaves[x])
               = IF x[2] = s /\ PS!Named(fs, x[1]) THEN 0 ELSE leaves[x]
  <2>1. IsSubscriber(x, s, fs) <=> x[2] = s /\ PS!Named(fs, x[1])
    BY DEF IsSubscriber, PS!Named
  <2>2. x[1] \notin nodes => leaves[x] = 0
    BY DEF IInv, TreeWellFormed, TypeOK, Copies
  <2>. QED  BY <2>1, <2>2
<1>. QED  BY <1>1, SameDefinitions DEF Unsubscribe, PS!Unsubscribe

LEMMA PublishRefines ==
  ASSUME IInv, NEW t \in Topic, Publish(t)
  PROVE  PS!Publish(t)
<1>1. TypeOK /\ TreeWellFormed /\ CacheCoherent
  BY DEF IInv
<1>2. sent' = [topic |-> t, copies |-> Walk(t)]
  <2>1. CASE PublishCached(t)
    BY <2>1, <1>1 DEF PublishCached, CacheCoherent
  <2>2. CASE PublishWalk(t)
    BY <2>2 DEF PublishWalk
  <2>. QED  BY <2>1, <2>2 DEF Publish
<1>3. leaves' = leaves
  BY DEF Publish, PublishCached, PublishWalk
<1>4. Walk(t) = [x \in Filter \X Subscriber |->
                   IF PS!Matches(x[1], t) THEN leaves[x] ELSE 0]
  BY <1>1, WalkMatches, SameDefinitions
<1>. QED  BY <1>2, <1>3, <1>4 DEF PS!Publish

\* Tree and cache implement a table of subscriptions and the matching rule.
THEOREM Refinement == Spec => ImplementsPubSub
<1>1. Init => PS!Init
  BY SameDefinitions DEF Init, PS!Init
<1>2. IInv /\ [Next]_vars => [PS!Next]_(PS!vars)
  <2>. SUFFICES ASSUME IInv, [Next]_vars PROVE [PS!Next]_(PS!vars)
    OBVIOUS
  <2>1. CASE \E s \in Subscriber, fs \in Request : Subscribe(s, fs)
    <3>1. PICK s \in Subscriber, fs \in Request : Subscribe(s, fs)
      BY <2>1
    <3>2. PS!Subscribe(s, fs)
      BY <3>1, SameDefinitions DEF Subscribe, PS!Subscribe
    <3>. QED  BY <3>2, SameDefinitions DEF PS!Next
  <2>2. CASE \E s \in Subscriber, fs \in Request : Unsubscribe(s, fs)
    BY <2>2, UnsubscribeRefines, SameDefinitions DEF PS!Next
  <2>3. CASE \E t \in Topic : Publish(t)
    BY <2>3, PublishRefines DEF PS!Next
  <2>4. CASE UNCHANGED vars
    BY <2>4 DEF vars, PS!vars
  <2>. QED  BY <2>1, <2>2, <2>3, <2>4 DEF Next
<1>. QED  BY <1>1, <1>2, Invariance, PTL DEF Spec, ImplementsPubSub, PS!Spec
=============================================================================
