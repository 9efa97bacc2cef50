--------------------------- MODULE OutboundProofs ---------------------------
(***************************************************************************)
(* Proofs of what the runs check of Outbound, for any messages, replies,   *)
(* buffer size and room of the socket.                                     *)
(***************************************************************************)
EXTENDS Outbound, SequenceLemmas

-----------------------------------------------------------------------------
(* The inductive invariant.                                                *)

P == Len(Publishes)
Messages == [m \in 1 .. P |-> BytesOf(m)]

\* How much of the publisher's stream the messages it has published take.
Offset == Len(FlattenSeq(SubSeq(Messages, 1, published)))

\* Where what is read and not yet published lies, and how much it is.
From == IF reader = "waits" THEN 0 ELSE slice.from
Kept == IF reader = "waits" THEN begin ELSE slice.upto - slice.from

\* The publisher holds exactly the next bytes of its stream.
PublisherInv ==
  /\ memory \in [0 .. BufferSize - 1 -> ToSet(Stream) \cup {Junk}]
  /\ begin \in 0 .. BufferSize
  /\ reader \in {"waits", "ready", "runs"}
  /\ slice \in [from : 0 .. BufferSize, upto : 0 .. BufferSize]
  /\ slice.from <= slice.upto
  /\ published \in 0 .. P
  /\ read \in 0 .. Len(Stream) /\ read = Offset + Kept
  /\ \A i \in 0 .. Kept - 1 : memory[From + i] = Stream[Offset + 1 + i]

\* Each message is handed over once, and those of each kind in order.
HandedInv ==
  /\ replied \in 0 .. Len(Replies)
  /\ handed \in Seq(Id) /\ Len(handed) = published + replied
  /\ \A j, k \in 1 .. Len(handed) : handed[j] = handed[k] => j = k
  /\ ToSet(handed) = 1 .. published \cup P + 1 .. P + replied

\* Where the bytes of m may be.
Place == [in : {"freed", "static", "vector", "stream"}, at : 0 .. BufferSize]

PlaceOK(m, place) ==
  /\ place \in Place
  /\ m <= P => place.in = "stream" /\ place.at + Length(m) <= BufferSize
  /\ m > P => place.in # "stream" /\ (Replies[m - P] = "static" => place.in = "static")

WritesInv ==
  /\ DOMAIN writes \subseteq ToSet(handed)
  /\ writes \in [DOMAIN writes -> [place : Place, sent : Nat]]
  /\ \A m \in DOMAIN writes : PlaceOK(m, writes[m].place) /\ writes[m].sent <= Length(m)
  /\ queue \in Seq(DOMAIN writes)

Byte == (0 .. P + Len(Replies)) \X Nat

\* As long as there was room for everything nothing waits.
WireInv ==
  /\ wire \in Seq(Byte)
  /\ received \in Nat /\ Len(wire) - received \in 0 .. Room
  /\ short \in BOOLEAN
  /\ ~short => queue = <<>> /\ \A m \in DOMAIN writes : writes[m].sent = Length(m)

\* How far m is sent, and the messages as far as they are, one behind the
\* other: the wire is as long.
Started(m) == IF m \in ToSet(handed) THEN SentOf(m) ELSE 0
Parts == [k \in 1 .. Len(handed) |-> SubSeq(BytesOf(handed[k]), 1, SentOf(handed[k]))]
CountInv == Len(wire) = Len(FlattenSeq(Parts))

\* Of a reply kept in a static array the wire has a prefix, none of it before
\* it is handed over.
StaticInv ==
  \A k \in 1 .. Len(Replies) :
    Replies[k] = "static" => TakenOf(P + k) = SubSeq(BytesOf(P + k), 1, Started(P + k))

IInv ==
  /\ PublisherInv /\ HandedInv /\ WritesInv /\ WireInv
  /\ RightWithRoom /\ CountInv /\ StaticInv

-----------------------------------------------------------------------------
(* The messages and their bytes.                                           *)

LEMMA Lengths ==
  /\ P \in Nat /\ Len(Replies) \in Nat /\ Id = 1 .. P + Len(Replies)
  /\ BufferSize \in Nat \ {0} /\ Room \in Nat \ {0}
  /\ \A m \in Id : Length(m) \in Nat \ {0}
  /\ \A m \in 1 .. P : Length(m) <= BufferSize
<1>1. P \in Nat /\ Len(Replies) \in Nat
  BY OutboundAssumption, LenProperties DEF P
<1>2. \A m \in 1 .. P : Publishes[m] \in 1 .. BufferSize
  BY OutboundAssumption, ElementOfSeq DEF P
<1>3. BufferSize \in Nat \ {0} /\ Room \in Nat \ {0} /\ ReplyLength \in Nat \ {0}
  BY OutboundAssumption
<1>. QED  BY <1>1, <1>2, <1>3 DEF Id, Length, P

LEMMA Bytes ==
  ASSUME NEW m \in Id
  PROVE  /\ BytesOf(m) \in Seq({m} \X Nat) /\ BytesOf(m) \in Seq(Byte)
         /\ Len(BytesOf(m)) = Length(m)
         /\ \A i \in 1 .. Length(m) : BytesOf(m)[i] = <<m, i>>
<1>1. Length(m) \in Nat /\ m \in 0 .. P + Len(Replies)
  BY Lengths
<1>. QED  BY <1>1 DEF BytesOf, Byte

\* The bytes of a message in the publisher's stream.
LEMMA StreamAt ==
  /\ Stream \in Seq((1 .. P) \X Nat)
  /\ ToSet(Stream) \cup {Junk} \subseteq Byte
  /\ \A x \in ToSet(Stream) \cup {Junk} : x[1] \in 0 .. P
  /\ FlattenSeq(SubSeq(Messages, 1, 0)) = <<>>
  /\ \A m \in 1 .. P :
       LET before == Len(FlattenSeq(SubSeq(Messages, 1, m - 1)))
       IN  /\ before \in Nat
           /\ Len(FlattenSeq(SubSeq(Messages, 1, m))) = before + Length(m)
           /\ before + Length(m) <= Len(Stream)
           /\ \A i \in 1 .. Length(m) : Stream[before + i] = <<m, i>>
<1>. DEFINE S == (1 .. P) \X Nat
<1>1. Stream = FlattenSeq(Messages)
  BY DEF Stream, Messages, P
<1>2. P \in Nat /\ Len(Replies) \in Nat /\ \A m \in 1 .. P : m \in Id
  BY Lengths
<1>3. \A m \in 1 .. P : BytesOf(m) \in Seq(S)
  <2>. SUFFICES ASSUME NEW m \in 1 .. P
                PROVE  BytesOf(m) \in Seq(S)
    OBVIOUS
  <2>1. Length(m) \in Nat
    BY <1>2, Lengths
  <2>. QED  BY <2>1 DEF BytesOf
<1>4. Messages \in Seq(Seq(S)) /\ Len(Messages) = P
  BY <1>2, <1>3 DEF Messages
<1>5. Stream \in Seq(S)
  <2>. HIDE DEF S
  <2>. QED  BY <1>1, <1>4, FlattenType
<1>6. \A x \in ToSet(Stream) : x \in S
  BY <1>5, ElementOfSeq, LenProperties DEF ToSet
<1>7. SubSeq(Messages, 1, 0) = <<>>
  BY SubSeqEmpty
<1>8. ASSUME NEW m \in 1 .. P
      PROVE  LET before == Len(FlattenSeq(SubSeq(Messages, 1, m - 1)))
             IN  /\ before \in Nat
                 /\ Len(FlattenSeq(SubSeq(Messages, 1, m))) = before + Length(m)
                 /\ before + Length(m) <= Len(Stream)
                 /\ \A i \in 1 .. Length(m) : Stream[before + i] = <<m, i>>
  <2>. DEFINE before == Len(FlattenSeq(SubSeq(Messages, 1, m - 1)))
  <2>1. Messages[m] = BytesOf(m) /\ m \in 1 .. Len(Messages)
    BY <1>4 DEF Messages
  <2>2. /\ before \in Nat
        /\ Len(FlattenSeq(SubSeq(Messages, 1, m))) = before + Len(Messages[m])
        /\ before + Len(Messages[m]) <= Len(FlattenSeq(Messages))
        /\ \A i \in 1 .. Len(Messages[m]) : FlattenSeq(Messages)[before + i] = Messages[m][i]
    <3>. HIDE DEF S
    <3>. QED  BY <1>4, <2>1, FlattenAt
  <2>3. Len(BytesOf(m)) = Length(m) /\ \A i \in 1 .. Length(m) : BytesOf(m)[i] = <<m, i>>
    BY <1>2, Bytes
  <2>. HIDE DEF before
  <2>4. /\ before \in Nat
        /\ Len(FlattenSeq(SubSeq(Messages, 1, m))) = before + Length(m)
        /\ before + Length(m) <= Len(Stream)
        /\ \A i \in 1 .. Length(m) : Stream[before + i] = <<m, i>>
    BY <1>1, <2>1, <2>2, <2>3
  <2>. QED  BY <2>4 DEF before
<1>9. \A x \in ToSet(Stream) \cup {Junk} : x \in Byte /\ x[1] \in 0 .. P
  <2>1. \A x \in S : x \in Byte /\ x[1] \in 0 .. P
    BY <1>2 DEF Byte
  <2>2. Junk \in Byte /\ Junk[1] = 0 /\ 0 \in 0 .. P
    BY <1>2 DEF Byte, Junk
  <2>. QED  BY <1>6, <2>1, <2>2
<1>. HIDE DEF S
<1>. QED  BY <1>5, <1>7, <1>8, <1>9, FlattenEmpty DEF S

-----------------------------------------------------------------------------
(* What is selected of the wire.                                           *)

Select(m, w) == FlattenSeq([i \in 1 .. Len(w) |-> IF w[i][1] = m THEN <<w[i]>> ELSE <<>>])

LEMMA SelectConcat ==
  ASSUME NEW S, NEW v \in Seq(S), NEW w \in Seq(S), NEW m
  PROVE  Select(m, v \o w) = Select(m, v) \o Select(m, w)
<1>. DEFINE Each(x) == [i \in 1 .. Len(x) |-> IF x[i][1] = m THEN <<x[i]>> ELSE <<>>]
<1>1. \A x \in Seq(S) : Each(x) \in Seq(Seq(S))
  <2>. SUFFICES ASSUME NEW x \in Seq(S)
                PROVE  Each(x) \in Seq(Seq(S))
    OBVIOUS
  <2>1. \A i \in 1 .. Len(x) : Each(x)[i] \in Seq(S)
    BY ElementOfSeq, EmptySeq
  <2>. QED  BY <2>1, LenProperties
<1>2. Each(v \o w) = Each(v) \o Each(w)
  BY LenProperties
<1>3. Each(v) \in Seq(Seq(S)) /\ Each(w) \in Seq(Seq(S))
  BY <1>1
<1>. HIDE DEF Each
<1>4. FlattenSeq(Each(v \o w)) = FlattenSeq(Each(v)) \o FlattenSeq(Each(w))
  BY <1>2, <1>3, FlattenConcat
<1>. QED  BY <1>4 DEF Select, Each

LEMMA SelectNone ==
  ASSUME NEW w, Len(w) \in Nat, NEW m, \A i \in 1 .. Len(w) : w[i][1] # m
  PROVE  Select(m, w) = <<>>
<1>1. [i \in 1 .. Len(w) |-> IF w[i][1] = m THEN <<w[i]>> ELSE <<>>]
      = [i \in 1 .. Len(w) |-> <<>>]
  OBVIOUS
<1>. QED  BY <1>1, FlattenEmpties DEF Select

LEMMA SelectAll ==
  ASSUME NEW S, NEW w \in Seq(S), NEW m, \A i \in 1 .. Len(w) : w[i][1] = m
  PROVE  Select(m, w) = w
<1>1. [i \in 1 .. Len(w) |-> IF w[i][1] = m THEN <<w[i]>> ELSE <<>>]
      = [i \in 1 .. Len(w) |-> <<w[i]>>]
  OBVIOUS
<1>. QED  BY <1>1, FlattenSingletons DEF Select

-----------------------------------------------------------------------------
(* One write_some.                                                         *)

\* The bytes that are taken from a buffer.
LEMMA BufferedBytes ==
  ASSUME PublisherInv, NEW m \in Id, NEW place, PlaceOK(m, place),
         NEW sent \in Nat, NEW n \in Nat, sent + n <= Length(m)
  PROVE  /\ Buffered(m, place, sent, n) \in Seq(Byte)
         /\ Len(Buffered(m, place, sent, n)) = n
         /\ \A i \in 1 .. n : Buffered(m, place, sent, n)[i][1] \in {m} \cup 0 .. P
         /\ place.in = "static" =>
              Buffered(m, place, sent, n) = SubSeq(BytesOf(m), sent + 1, sent + n)
<1>. DEFINE b == Buffered(m, place, sent, n)
<1>0. P \in Nat /\ Len(Replies) \in Nat /\ Length(m) \in Nat /\ m \in 1 .. P + Len(Replies)
  BY Lengths
<1>1. ASSUME NEW i \in 1 .. n
      PROVE  b[i] \in Byte /\ b[i][1] \in {m} \cup 0 .. P
  <2>1. CASE place.in = "freed"
    <3>1. b[i] = Junk
      BY <2>1 DEF Buffered
    <3>. QED  BY <1>0, <3>1, StreamAt DEF Junk
  <2>2. CASE place.in \in {"static", "vector"}
    <3>1. b[i] = <<m, sent + i>>
      BY <2>2 DEF Buffered
    <3>. QED  BY <1>0, <3>1 DEF Byte
  <2>3. CASE place.in = "stream"
    <3>1. b[i] = memory[place.at + sent + i - 1]
      BY <2>3 DEF Buffered
    <3>2. m <= P /\ place.at \in Nat /\ place.at + Length(m) <= BufferSize
      BY <1>0, <2>3 DEF PlaceOK, Place
    <3>3. place.at + sent + i - 1 \in 0 .. BufferSize - 1
      <4>1. i \in Nat /\ 1 <= i /\ i <= n
        OBVIOUS
      <4>2. BufferSize \in Nat
        BY Lengths
      <4>3. place.at \in Nat /\ place.at + Length(m) <= BufferSize
        BY <3>2
      <4>. QED  BY <1>0, <4>1, <4>2, <4>3
    <3>4. b[i] \in ToSet(Stream) \cup {Junk}
      BY <3>1, <3>3 DEF PublisherInv
    <3>. QED  BY <3>4, StreamAt
  <2>. QED  BY <2>1, <2>2, <2>3 DEF PlaceOK, Place
<1>2. b \in Seq(Byte) /\ Len(b) = n
  <2>. DEFINE e(i) == CASE place.in = "freed"                -> Junk
                        [] place.in \in {"static", "vector"} -> <<m, sent + i>>
                        [] place.in = "stream" -> memory[place.at + sent + i - 1]
  <2>1. b = [i \in 1 .. n |-> e(i)]
    BY DEF Buffered
  <2>. HIDE DEF b, e
  <2>2. \A i \in 1 .. n : e(i) \in Byte
    BY <1>1, <2>1
  <2>. QED  BY <2>1, <2>2
<1>3. ASSUME place.in = "static"
      PROVE  b = SubSeq(BytesOf(m), sent + 1, sent + n)
  <2>. DEFINE c == SubSeq(BytesOf(m), sent + 1, sent + n)
  <2>1. \A i \in 1 .. n : b[i] = <<m, sent + i>>
    BY <1>3 DEF Buffered
  <2>2. /\ c \in Seq(Byte) /\ Len(c) = n
        /\ \A i \in 1 .. n : c[i] = BytesOf(m)[sent + i]
    <3>0. BytesOf(m) \in Seq(Byte) /\ Len(BytesOf(m)) = Length(m)
      BY Bytes
    <3>1. /\ sent + n \in Nat /\ sent <= sent + n /\ sent + n <= Length(m)
          /\ (sent + n) - sent = n
      BY <1>0
    <3>. HIDE DEF c
    <3>2. /\ SubSeq(BytesOf(m), sent + 1, sent + n) \in Seq(Byte)
          /\ Len(SubSeq(BytesOf(m), sent + 1, sent + n)) = (sent + n) - sent
          /\ \A i \in 1 .. (sent + n) - sent :
               SubSeq(BytesOf(m), sent + 1, sent + n)[i] = BytesOf(m)[sent + i]
      BY <3>0, <3>1, Piece
    <3>. QED  BY <3>1, <3>2 DEF c
  <2>3. \A i \in 1 .. n : c[i] = <<m, sent + i>>
    <3>1. \A i \in 1 .. n : sent + i \in 1 .. Length(m)
      BY <1>0
    <3>2. \A j \in 1 .. Length(m) : BytesOf(m)[j] = <<m, j>>
      BY Bytes
    <3>. HIDE DEF c
    <3>. QED  BY <2>2, <3>1, <3>2
  <2>. HIDE DEF b, c
  <2>4. b = c
    BY <1>2, <2>1, <2>2, <2>3, SeqEqual
  <2>. QED  BY <2>4 DEF c
<1>. QED  BY <1>1, <1>2, <1>3

\* What it does to the wire.
LEMMA TransferStep ==
  ASSUME PublisherInv, WireInv, NEW m \in Id, NEW place, PlaceOK(m, place),
         NEW sent \in Nat, NEW n \in Nat, sent + n <= Length(m),
         Transfer(m, place, sent, n)
  PROVE  /\ wire' \in Seq(Byte) /\ Len(wire') = Len(wire) + n
         /\ \A k \in P + 1 .. P + Len(Replies) : k # m => TakenOf(k)' = TakenOf(k)
         /\ place.in = "static" =>
              TakenOf(m)' = TakenOf(m) \o SubSeq(BytesOf(m), sent + 1, sent + n)
<1>. DEFINE b == Buffered(m, place, sent, n)
<1>0. P \in Nat /\ Len(Replies) \in Nat
  BY Lengths
<1>1. /\ b \in Seq(Byte) /\ Len(b) = n
      /\ \A i \in 1 .. n : b[i][1] \in {m} \cup 0 .. P
      /\ place.in = "static" => b = SubSeq(BytesOf(m), sent + 1, sent + n)
  BY BufferedBytes
<1>2. place.in = "static" => \A i \in 1 .. n : b[i][1] = m
  BY DEF Buffered
<1>3. wire' = wire \o b /\ wire \in Seq(Byte)
  BY DEF Transfer, WireInv
<1>. HIDE DEF b
<1>4. wire' \in Seq(Byte) /\ Len(wire') = Len(wire) + n
  BY <1>1, <1>3, ConcatProperties
<1>5. \A k : TakenOf(k) = Select(k, wire) /\ TakenOf(k)' = Select(k, wire')
  BY DEF TakenOf, Select
<1>6. \A k : Select(k, wire') = Select(k, wire) \o Select(k, b)
  BY <1>1, <1>3, SelectConcat
<1>7. ASSUME NEW k \in P + 1 .. P + Len(Replies), k # m
      PROVE  TakenOf(k)' = TakenOf(k)
  <2>1. \A i \in 1 .. Len(b) : b[i][1] # k
    BY <1>0, <1>1, <1>7
  <2>2. Select(k, b) = <<>>
    <3>1. Len(b) \in Nat
      BY <1>1
    <3>. QED  BY <2>1, <3>1, SelectNone
  <2>3. Select(k, wire) \in Seq(Byte)
    <3>. DEFINE e == [i \in 1 .. Len(wire) |-> IF wire[i][1] = k THEN <<wire[i]>> ELSE <<>>]
    <3>1. \A i \in 1 .. Len(wire) : e[i] \in Seq(Byte)
      BY <1>3, ElementOfSeq, EmptySeq
    <3>2. e \in Seq(Seq(Byte))
      BY <1>3, <3>1, LenProperties
    <3>. HIDE DEF e
    <3>3. FlattenSeq(e) \in Seq(Byte)
      BY <3>2, FlattenType
    <3>. QED  BY <3>3 DEF Select, e
  <2>. QED  BY <1>5, <1>6, <2>2, <2>3, ConcatEmptySeq
<1>8. ASSUME place.in = "static"
      PROVE  TakenOf(m)' = TakenOf(m) \o SubSeq(BytesOf(m), sent + 1, sent + n)
  <2>1. Select(m, b) = b
    BY <1>1, <1>2, <1>8, SelectAll
  <2>. QED  BY <1>1, <1>5, <1>6, <1>8, <2>1
<1>. QED  BY <1>4, <1>7, <1>8

\* The part of the invariant that is about the writes.
SocketInv == WritesInv /\ WireInv /\ CountInv /\ StaticInv

\* Once n more bytes of m are taken, or its first n, all of it holds again.
LEMMA WriteStep ==
  ASSUME PublisherInv, HandedInv, HandedInv', SocketInv,
         NEW m \in Id, NEW place, NEW later, PlaceOK(m, place), PlaceOK(m, later),
         m > P /\ Replies[m - P] = "static" => place.in = "static",
         NEW n \in Nat, Started(m) + n <= Length(m), n <= FreeRoom,
         m \in ToSet(handed) => m \in DOMAIN writes,
         handed' = IF m \in ToSet(handed) THEN handed ELSE Append(handed, m),
         Transfer(m, place, Started(m), n),
         writes' = [k \in DOMAIN writes \cup {m} |->
                      IF k = m THEN [place |-> later, sent |-> Started(m) + n] ELSE writes[k]],
         queue' \in Seq(DOMAIN writes \cup {m}),
         ~short' => queue' = <<>>,
         received' = received
  PROVE  SocketInv'
<1>0. P \in Nat /\ Len(Replies) \in Nat /\ Length(m) \in Nat /\ m \in 1 .. P + Len(Replies)
      /\ Room \in Nat
  BY Lengths
<1>1. Started(m) \in Nat
  BY DEF Started, SentOf, SocketInv, WritesInv
<1>2. /\ wire' \in Seq(Byte) /\ Len(wire') = Len(wire) + n
      /\ \A k \in P + 1 .. P + Len(Replies) : k # m => TakenOf(k)' = TakenOf(k)
      /\ place.in = "static" =>
           TakenOf(m)' = TakenOf(m) \o SubSeq(BytesOf(m), Started(m) + 1, Started(m) + n)
  <2>. DEFINE sent == Started(m)
  <2>1. sent \in Nat /\ sent + n <= Length(m) /\ Transfer(m, place, sent, n) /\ WireInv
    BY <1>1 DEF SocketInv
  <2>. HIDE DEF sent
  <2>2. /\ wire' \in Seq(Byte) /\ Len(wire') = Len(wire) + n
        /\ \A k \in P + 1 .. P + Len(Replies) : k # m => TakenOf(k)' = TakenOf(k)
        /\ place.in = "static" =>
             TakenOf(m)' = TakenOf(m) \o SubSeq(BytesOf(m), sent + 1, sent + n)
    BY <2>1, TransferStep
  <2>. QED  BY <2>2 DEF sent
<1>3. handed \in Seq(Id) /\ handed' \in Seq(Id) /\ Len(handed) \in Nat
  BY LenProperties DEF HandedInv
<1>4. ToSet(handed') = ToSet(handed) \cup {m}
  <2>1. CASE m \in ToSet(handed)
    BY <2>1
  <2>2. CASE m \notin ToSet(handed)
    <3>1. handed' = Append(handed, m)
      BY <2>2
    <3>2. /\ DOMAIN handed = 1 .. Len(handed) /\ DOMAIN handed' = 1 .. Len(handed) + 1
          /\ \A i \in 1 .. Len(handed) : handed'[i] = handed[i]
          /\ handed'[Len(handed) + 1] = m
      BY <1>3, <3>1, LenProperties, AppendProperties
    <3>. QED  BY <1>3, <3>2 DEF ToSet
  <2>. QED  BY <2>1, <2>2
<1>5. WritesInv'
  <2>1. DOMAIN writes' = DOMAIN writes \cup {m}
    OBVIOUS
  <2>2. (DOMAIN writes \subseteq ToSet(handed))'
    BY <1>4, <2>1 DEF SocketInv, WritesInv
  <2>3. ASSUME NEW k \in DOMAIN writes'
        PROVE  /\ writes'[k] \in [place : Place, sent : Nat]
               /\ PlaceOK(k, writes'[k].place) /\ writes'[k].sent <= Length(k)
    <3>1. CASE k = m
      <4>1. writes'[k] = [place |-> later, sent |-> Started(m) + n] /\ later \in Place
        BY <3>1 DEF PlaceOK
      <4>. QED  BY <1>1, <3>1, <4>1
    <3>2. CASE k # m
      <4>1. k \in DOMAIN writes /\ writes'[k] = writes[k]
        BY <2>1, <3>2
      <4>. QED  BY <4>1 DEF SocketInv, WritesInv
    <3>. QED  BY <3>1, <3>2
  <2>4. (writes \in [DOMAIN writes -> [place : Place, sent : Nat]])'
    BY <2>1, <2>3
  <2>5. (\A k \in DOMAIN writes : PlaceOK(k, writes[k].place) /\ writes[k].sent <= Length(k))'
    BY <2>3 DEF PlaceOK
  <2>6. (queue \in Seq(DOMAIN writes))'
    BY <2>1
  <2>. QED  BY <2>2, <2>4, <2>5, <2>6 DEF WritesInv
<1>6. WireInv'
  <2>0. short' = (short \/ Started(m) + n < Length(m)) /\ short \in BOOLEAN
    BY DEF Transfer, SocketInv, WireInv
  <2>a. short' \in BOOLEAN /\ (~short' => ~short /\ ~(Started(m) + n < Length(m)))
    BY <2>0, Zenon
  <2>1. short' \in BOOLEAN /\ (~short' => ~short /\ Started(m) + n = Length(m))
    BY <1>0, <1>1, <2>a
  <2>2. ~short' => \A k \in DOMAIN writes' : writes'[k].sent = Length(k)
    BY <2>1 DEF SocketInv, WireInv
  <2>3. Len(wire) \in Nat /\ received \in Nat /\ Len(wire) - received \in 0 .. Room
    BY LenProperties DEF SocketInv, WireInv
  <2>4. (Len(wire) - received \in 0 .. Room)'
    BY <1>0, <1>2, <2>3 DEF FreeRoom
  <2>. QED  BY <1>2, <2>1, <2>2, <2>3, <2>4 DEF WireInv
<1>7. \A k \in Id : Started(k)' = IF k = m THEN Started(m) + n ELSE Started(k)
  <2>1. DOMAIN writes' = DOMAIN writes \cup {m}
    OBVIOUS
  <2>2. \A k : k # m => (k \in DOMAIN writes' <=> k \in DOMAIN writes)
                      /\ (k \in DOMAIN writes => writes'[k] = writes[k])
    BY <2>1
  <2>3. writes'[m].sent = Started(m) + n /\ m \in ToSet(handed') /\ m \in DOMAIN writes'
    BY <1>4, <2>1
  <2>. QED  BY <1>4, <2>2, <2>3 DEF Started, SentOf
<1>8. CountInv'
  <2>. DEFINE Part(x, sent) == SubSeq(BytesOf(x), 1, sent)
              NewSent(x) == IF x \in DOMAIN writes' THEN writes'[x].sent ELSE Length(x)
  <2>1. \A x \in ToSet(handed) : Started(x) = SentOf(x) /\ Started(x)' = NewSent(x)
    BY <1>4 DEF Started, SentOf, Length
  <2>2. \A x \in ToSet(handed) : x \in Id /\ SentOf(x) \in 0 .. Length(x)
    <3>1. \A x \in ToSet(handed) : x \in Id
      BY <1>3, ElementOfSeq, LenProperties DEF ToSet
    <3>2. \A x \in Id : Length(x) \in Nat
      BY Lengths
    <3>. QED  BY <3>1, <3>2 DEF SentOf, SocketInv, WritesInv
  <2>3. \A x \in Id, sent \in Nat : sent <= Length(x) =>
           Part(x, sent) \in Seq(Byte) /\ Len(Part(x, sent)) = sent
    <3>. SUFFICES ASSUME NEW x \in Id, NEW sent \in Nat, sent <= Length(x)
                  PROVE  Part(x, sent) \in Seq(Byte) /\ Len(Part(x, sent)) = sent
      OBVIOUS
    <3>0. BytesOf(x) \in Seq(Byte) /\ Len(BytesOf(x)) = Length(x)
      BY Bytes
    <3>1. 0 + 1 = 1 /\ sent - 0 = sent /\ 0 <= sent /\ 0 \in Nat
      OBVIOUS
    <3>2. SubSeq(BytesOf(x), 0 + 1, sent) \in Seq(Byte)
          /\ Len(SubSeq(BytesOf(x), 0 + 1, sent)) = sent - 0
      BY <3>0, <3>1, Piece
    <3>. QED  BY <3>1, <3>2
  <2>4. \A k \in 1 .. Len(handed) : handed[k] \in ToSet(handed)
    BY <1>3, LenProperties DEF ToSet
  <2>5. Parts = [k \in 1 .. Len(handed) |-> Part(handed[k], SentOf(handed[k]))]
    BY DEF Parts
  <2>6. Parts' = [k \in 1 .. Len(handed') |-> Part(handed'[k], NewSent(handed'[k]))]
    BY DEF Parts, SentOf, BytesOf, Length
  <2>10. NewSent(m) = Started(m) + n
    OBVIOUS
  <2>. HIDE DEF Part, NewSent
  <2>7. Parts \in Seq(Seq(Byte)) /\ Len(Parts) = Len(handed)
    BY <1>3, <2>2, <2>3, <2>4, <2>5
  <2>8. CASE m \notin ToSet(handed)
    <3>1. /\ Len(handed') = Len(handed) + 1 /\ handed'[Len(handed) + 1] = m
          /\ \A k \in 1 .. Len(handed) : handed'[k] = handed[k] /\ handed[k] # m
      BY <1>3, <2>4, <2>8, AppendProperties
    <3>2. Started(m) = 0 /\ NewSent(m) = n
      BY <2>8, <2>10 DEF Started
    <3>3. \A k \in 1 .. Len(handed) : NewSent(handed[k]) = SentOf(handed[k])
      BY <1>7, <2>1, <2>2, <2>4, <3>1
    <3>4. Part(m, n) \in Seq(Byte) /\ Len(Part(m, n)) = n
      BY <2>3, <3>2
    <3>5. Parts' = Append(Parts, Part(m, n))
      <4>. DEFINE new == Append(Parts, Part(m, n))
      <4>1. /\ new \in Seq(Seq(Byte)) /\ Len(new) = Len(handed) + 1
            /\ \A k \in 1 .. Len(handed) : new[k] = Parts[k]
            /\ new[Len(handed) + 1] = Part(m, n)
        BY <1>3, <2>7, <3>4, AppendProperties
      <4>2. \A k \in 1 .. Len(handed) : Parts[k] = Part(handed'[k], NewSent(handed'[k]))
        BY <2>5, <3>1, <3>3
      <4>. HIDE DEF new
      <4>3. ASSUME NEW k \in 1 .. Len(handed')
            PROVE  new[k] = Part(handed'[k], NewSent(handed'[k]))
        <5>1. CASE k = Len(handed) + 1
          BY <3>1, <3>2, <4>1, <5>1
        <5>2. CASE k # Len(handed) + 1
          <6>1. k \in 1 .. Len(handed)
            BY <1>3, <3>1, <5>2
          <6>. QED  BY <4>1, <4>2, <6>1
        <5>. QED  BY <5>1, <5>2
      <4>4. new = [k \in 1 .. Len(handed') |-> new[k]]
        BY <3>1, <4>1, LenProperties
      <4>5. new = Parts'
        BY <2>6, <4>3, <4>4
      <4>. QED  BY <4>5 DEF new
    <3>6. FlattenSeq(Parts') = FlattenSeq(Parts) \o Part(m, n) /\ FlattenSeq(Parts) \in Seq(Byte)
      BY <2>7, <3>4, <3>5, FlattenAppend, FlattenType
    <3>7. Len(FlattenSeq(Parts')) = Len(FlattenSeq(Parts)) + n
      <4>. DEFINE f == FlattenSeq(Parts)
                  p == Part(m, n)
      <4>1. f \in Seq(Byte) /\ p \in Seq(Byte) /\ Len(p) = n
        BY <3>4, <3>6
      <4>. HIDE DEF f, p
      <4>2. Len(f \o p) = Len(f) + n
        BY <4>1, ConcatProperties
      <4>. QED  BY <3>6, <4>2 DEF f, p
    <3>. QED  BY <1>2, <3>7 DEF CountInv, SocketInv
  <2>9. CASE m \in ToSet(handed)
    <3>1. PICK k \in 1 .. Len(handed) : handed[k] = m
      BY <1>3, <2>9, LenProperties DEF ToSet
    <3>2. \A i \in 1 .. Len(handed) : i # k => handed[i] # m
      BY <3>1 DEF HandedInv
    <3>3. handed' = handed
      BY <2>9
    <3>4. \A i \in 1 .. Len(handed) :
             NewSent(handed[i]) = IF i = k THEN SentOf(m) + n ELSE SentOf(handed[i])
      BY <1>7, <2>1, <2>2, <2>4, <2>9, <3>1, <3>2
    <3>5. SentOf(m) + n <= Length(m) /\ SentOf(m) \in Nat /\ SentOf(m) + n \in Nat
      BY <1>1, <2>1, <2>9
    <3>6. /\ Parts' = [i \in 1 .. Len(handed) |-> Part(handed[i], NewSent(handed[i]))]
          /\ Parts'[k] = Part(m, SentOf(m) + n)
          /\ \A i \in 1 .. Len(handed) : i # k => Parts'[i] = Parts[i]
      BY <2>5, <2>6, <3>1, <3>3, <3>4
    <3>7. Parts[k] = Part(m, SentOf(m)) /\ Len(Parts[k]) = SentOf(m)
      BY <2>2, <2>3, <2>5, <2>9, <3>1
    <3>8. Parts'[k] = Part(m, SentOf(m) + n) /\ Len(Parts'[k]) = SentOf(m) + n
      BY <2>3, <3>5, <3>6
    <3>9. Parts' \in Seq(Seq(Byte)) /\ Len(Parts') = Len(Parts)
          /\ \A i \in 1 .. Len(Parts) : i # k => Parts[i] = Parts'[i]
      <4>1. \A i \in 1 .. Len(handed) : Parts'[i] \in Seq(Byte)
        BY <2>2, <2>3, <2>7, <2>9, <3>5, <3>6, ElementOfSeq
      <4>. QED  BY <1>3, <2>7, <3>6, <4>1
    <3>10. Len(FlattenSeq(Parts')) = Len(FlattenSeq(Parts)) + n
      <4>1. Len(Parts'[k]) = Len(Parts[k]) + n /\ k \in 1 .. Len(Parts) /\ n \in Int
        BY <2>7, <3>7, <3>8
      <4>. QED  BY <2>7, <3>9, <4>1, FlattenGrows
    <3>. QED  BY <1>2, <3>10 DEF CountInv, SocketInv
  <2>. QED  BY <2>8, <2>9
<1>9. StaticInv'
  <2>. SUFFICES ASSUME NEW k \in 1 .. Len(Replies), Replies[k] = "static"
                PROVE  (TakenOf(P + k) = SubSeq(BytesOf(P + k), 1, Started(P + k)))'
    BY DEF StaticInv
  <2>1. P + k \in Id /\ P + k \in P + 1 .. P + Len(Replies)
    BY <1>0, Lengths
  <2>2. TakenOf(P + k) = SubSeq(BytesOf(P + k), 1, Started(P + k))
    BY DEF SocketInv, StaticInv
  <2>3. CASE P + k # m
    <3>1. TakenOf(P + k)' = TakenOf(P + k) /\ Started(P + k)' = Started(P + k)
      BY <1>2, <1>7, <2>1, <2>3
    <3>2. BytesOf(P + k)' = BytesOf(P + k)
      BY DEF BytesOf, Length
    <3>. QED  BY <2>2, <3>1, <3>2
  <2>4. CASE P + k = m
    <3>1. place.in = "static"
      BY <1>0, <2>1, <2>4
    <3>2. TakenOf(m)' = SubSeq(BytesOf(m), 1, Started(m))
                          \o SubSeq(BytesOf(m), Started(m) + 1, Started(m) + n)
      BY <1>2, <2>2, <2>4, <3>1
    <3>3. BytesOf(m) \in Seq(Byte) /\ Len(BytesOf(m)) = Length(m)
      BY Bytes
    <3>4. SubSeq(BytesOf(m), 0 + 1, Started(m)) \o SubSeq(BytesOf(m), Started(m) + 1, Started(m) + n)
          = SubSeq(BytesOf(m), 0 + 1, Started(m) + n)
      <4>1. /\ 0 \in Nat /\ Started(m) + n \in Nat /\ 0 <= Started(m)
            /\ Started(m) <= Started(m) + n /\ Started(m) + n <= Length(m)
        BY <1>0, <1>1
      <4>. QED  BY <1>1, <3>3, <4>1, AdjacentPieces
    <3>5. Started(m)' = Started(m) + n /\ BytesOf(m)' = BytesOf(m)
      BY <1>7 DEF BytesOf, Length
    <3>6. 0 + 1 = 1
      OBVIOUS
    <3>. QED  BY <2>4, <3>2, <3>4, <3>5, <3>6
  <2>. QED  BY <2>3, <2>4
<1>. QED  BY <1>5, <1>6, <1>8, <1>9 DEF SocketInv

\* What is left of a write never exceeds what the socket takes of it.
LEMMA TakenBounds ==
  ASSUME WireInv, NEW m \in Id, NEW sent \in Nat, sent <= Length(m)
  PROVE  /\ FreeRoom \in Nat /\ Taken(m, sent) \in Nat
         /\ sent + Taken(m, sent) <= Length(m) /\ Taken(m, sent) <= FreeRoom
<1>1. Length(m) \in Nat /\ Room \in Nat
  BY Lengths
<1>2. Len(wire) \in Nat
  BY LenProperties DEF WireInv
<1>3. FreeRoom \in Nat
  BY <1>1, <1>2 DEF FreeRoom, WireInv
<1>. HIDE DEF FreeRoom
<1>. QED  BY <1>1, <1>3 DEF Taken

\* A write_some, as it is started for a new message and for the rest of one.
LEMMA WriteSomeStep ==
  ASSUME PublisherInv, HandedInv, HandedInv', SocketInv,
         NEW m \in Id, NEW place, NEW later, PlaceOK(m, place), PlaceOK(m, later),
         m > P /\ Replies[m - P] = "static" => place.in = "static",
         m \in ToSet(handed) => m \in DOMAIN writes,
         handed' = IF m \in ToSet(handed) THEN handed ELSE Append(handed, m),
         Started(m) < Length(m), WriteSome(m, place, later, Started(m)),
         received' = received
  PROVE  /\ SocketInv'
         /\ ~short' => ~short /\ wire' = wire \o Buffered(m, place, Started(m), Length(m) - Started(m))
<1>. DEFINE n == IF Waits THEN 0 ELSE Taken(m, Started(m))
<1>0. Length(m) \in Nat
  BY Lengths
<1>1. Started(m) \in Nat /\ Started(m) <= Length(m)
  BY <1>0 DEF Started, SentOf, SocketInv, WritesInv
<1>2. /\ FreeRoom \in Nat /\ Taken(m, Started(m)) \in Nat
      /\ Started(m) + Taken(m, Started(m)) <= Length(m) /\ Taken(m, Started(m)) <= FreeRoom
  <2>. DEFINE sent == Started(m)
  <2>1. sent \in Nat /\ sent <= Length(m) /\ WireInv
    BY <1>1 DEF SocketInv
  <2>. HIDE DEF sent
  <2>2. /\ FreeRoom \in Nat /\ Taken(m, sent) \in Nat
        /\ sent + Taken(m, sent) <= Length(m) /\ Taken(m, sent) <= FreeRoom
    BY <2>1, TakenBounds
  <2>. QED  BY <2>2 DEF sent
<1>3. n \in Nat /\ Started(m) + n <= Length(m) /\ n <= FreeRoom
  BY <1>0, <1>1, <1>2
<1>4. /\ Transfer(m, place, Started(m), n)
      /\ writes' = [k \in DOMAIN writes \cup {m} |->
                      IF k = m THEN [place |-> later, sent |-> Started(m) + n] ELSE writes[k]]
      /\ queue' = IF Waits THEN Append(queue, m) ELSE queue
  BY DEF WriteSome
<1>5. queue \in Seq(DOMAIN writes \cup {m})
  <2>1. queue \in Seq(DOMAIN writes)
    BY DEF SocketInv, WritesInv
  <2>. QED  BY <2>1, SeqMonotonic
<1>6. queue' \in Seq(DOMAIN writes \cup {m})
  BY <1>4, <1>5, AppendProperties
<1>7. short' = (short \/ Started(m) + n < Length(m)) /\ short \in BOOLEAN
      /\ wire' = wire \o Buffered(m, place, Started(m), n)
  BY <1>4 DEF Transfer, SocketInv, WireInv
<1>8. ASSUME ~short'
      PROVE  ~short /\ n = Length(m) - Started(m) /\ queue' = <<>>
  <2>. HIDE DEF n
  <2>1. ~short /\ ~(Started(m) + n < Length(m))
    BY <1>7, <1>8, Zenon
  <2>2. Started(m) + n = Length(m) /\ n # 0 /\ queue = <<>>
    BY <1>0, <1>1, <1>3, <2>1 DEF SocketInv, WireInv
  <2>3. ~Waits
    BY <2>2 DEF n
  <2>. QED  BY <1>0, <1>1, <1>3, <1>4, <2>1, <2>2, <2>3
<1>. HIDE DEF n
<1>9. SocketInv'
  BY <1>3, <1>4, <1>6, <1>8, WriteStep
<1>. QED  BY <1>7, <1>8, <1>9

-----------------------------------------------------------------------------
(* Initially, and from step to step.                                       *)

\* What a new message makes of the history and of the wire.
LEMMA InOrderAppend ==
  ASSUME handed \in Seq(Id), NEW m \in Id, handed' = Append(handed, m)
  PROVE  InOrder' = InOrder \o BytesOf(m)
<1>. DEFINE Each(h) == [k \in 1 .. Len(h) |-> BytesOf(h[k])]
<1>1. \A x \in Id : BytesOf(x) \in Seq(Byte)
  BY Bytes
<1>2. Each(handed) \in Seq(Seq(Byte))
  BY <1>1, LenProperties, ElementOfSeq
<1>3. Each(handed') = Append(Each(handed), BytesOf(m))
  BY LenProperties, AppendProperties
<1>4. InOrder = FlattenSeq(Each(handed))
  BY DEF InOrder
<1>5. InOrder' = FlattenSeq(Each(handed'))
  BY DEF InOrder, BytesOf, Length
<1>. HIDE DEF Each
<1>6. FlattenSeq(Append(Each(handed), BytesOf(m))) = FlattenSeq(Each(handed)) \o BytesOf(m)
  BY <1>1, <1>2, FlattenAppend
<1>. QED  BY <1>3, <1>4, <1>5, <1>6

LEMMA InitInv == Init => IInv
<1>. SUFFICES ASSUME Init
              PROVE  IInv
  OBVIOUS
<1>0. P \in Nat /\ Len(Replies) \in Nat /\ BufferSize \in Nat /\ Room \in Nat
  BY Lengths
<1>1. PublisherInv
  <2>1. Len(Stream) \in Nat /\ Offset = 0
    BY StreamAt, LenProperties DEF Offset, Init
  <2>2. memory \in [0 .. BufferSize - 1 -> ToSet(Stream) \cup {Junk}]
    BY DEF Init
  <2>3. slice = [from |-> 0, upto |-> 0] /\ published = 0 /\ begin = 0 /\ read = 0
        /\ reader = "waits"
    BY DEF Init
  <2>. QED  BY <1>0, <2>1, <2>2, <2>3 DEF PublisherInv, From, Kept
<1>2. HandedInv
  BY <1>0 DEF Init, HandedInv, ToSet
<1>3. WritesInv
  BY DEF Init, WritesInv
<1>4. WireInv
  <2>1. wire = <<>> /\ queue = <<>> /\ received = 0 /\ short = FALSE /\ DOMAIN writes = {}
    BY DEF Init
  <2>2. wire \in Seq(Byte) /\ Len(wire) = 0
    BY <2>1, EmptySeq
  <2>3. received \in Nat /\ Len(wire) - received \in 0 .. Room
    BY <1>0, <2>1, <2>2
  <2>. QED  BY <2>1, <2>2, <2>3 DEF WireInv
<1>5. RightWithRoom
  <2>1. [k \in 1 .. Len(handed) |-> BytesOf(handed[k])] = <<>>
    BY DEF Init
  <2>. QED  BY <2>1, FlattenEmpty DEF Init, RightWithRoom, InOrder
<1>6. CountInv
  <2>1. Parts = <<>>
    BY DEF Init, Parts
  <2>. QED  BY <2>1, FlattenEmpty DEF Init, CountInv
<1>7. StaticInv
  <2>. SUFFICES ASSUME NEW k \in 1 .. Len(Replies)
                PROVE  TakenOf(P + k) = SubSeq(BytesOf(P + k), 1, Started(P + k))
    BY DEF StaticInv
  <2>1. Started(P + k) = 0
    BY DEF Init, Started, ToSet
  <2>2. Len(wire) = 0
    BY DEF Init
  <2>3. TakenOf(P + k) = <<>>
    <3>1. Select(P + k, wire) = <<>>
      BY <2>2, SelectNone
    <3>. QED  BY <3>1 DEF TakenOf, Select
  <2>4. SubSeq(BytesOf(P + k), 1, 0) = <<>>
    BY SubSeqEmpty
  <2>. QED  BY <2>1, <2>3, <2>4
<1>. QED  BY <1>1, <1>2, <1>3, <1>4, <1>5, <1>6, <1>7 DEF IInv

\* What the publisher's own steps leave alone.
LEMMA SocketUnchanged ==
  ASSUME HandedInv, SocketInv, RightWithRoom,
         UNCHANGED <<published, replied, handed, socket, received>>
  PROVE  HandedInv' /\ SocketInv' /\ RightWithRoom'
<1>. USE DEF socket
<1>1. HandedInv'
  BY DEF HandedInv, Id
<1>2. RightWithRoom'
  BY DEF RightWithRoom, InOrder, BytesOf, Length
<1>3. WritesInv'
  BY DEF SocketInv, WritesInv, PlaceOK, Place, Length
<1>4. WireInv'
  BY DEF SocketInv, WireInv, Byte, Length
<1>5. CountInv'
  BY DEF SocketInv, CountInv, Parts, SentOf, BytesOf, Length
<1>6. StaticInv'
  BY DEF SocketInv, StaticInv, TakenOf, Started, SentOf, BytesOf, Length
<1>. QED  BY <1>1, <1>2, <1>3, <1>4, <1>5, <1>6 DEF SocketInv

LEMMA PublisherUnchanged ==
  ASSUME PublisherInv, UNCHANGED publisher
  PROVE  PublisherInv'
BY DEF publisher, PublisherInv, Offset, From, Kept

\* The messages that follow in the stream.
LEMMA OffsetFacts ==
  ASSUME published \in 0 .. P
  PROVE  /\ Offset \in Nat
         /\ published < P =>
              /\ Len(FlattenSeq(SubSeq(Messages, 1, published + 1))) = Offset + Length(published + 1)
              /\ \A i \in 1 .. Length(published + 1) : Stream[Offset + i] = <<published + 1, i>>
<1>0. P \in Nat /\ published \in Nat
  BY Lengths
<1>1. CASE published < P
  <2>. DEFINE m == published + 1
  <2>1. m \in 1 .. P /\ m - 1 = published
    BY <1>0, <1>1
  <2>. HIDE DEF m
  <2>2. LET before == Len(FlattenSeq(SubSeq(Messages, 1, m - 1)))
        IN  /\ before \in Nat
            /\ Len(FlattenSeq(SubSeq(Messages, 1, m))) = before + Length(m)
            /\ before + Length(m) <= Len(Stream)
            /\ \A i \in 1 .. Length(m) : Stream[before + i] = <<m, i>>
    BY <2>1, StreamAt
  <2>3. /\ Offset \in Nat
        /\ Len(FlattenSeq(SubSeq(Messages, 1, m))) = Offset + Length(m)
        /\ \A i \in 1 .. Length(m) : Stream[Offset + i] = <<m, i>>
    BY <2>1, <2>2 DEF Offset
  <2>. QED  BY <2>3 DEF m
<1>2. CASE published = P /\ P = 0
  <2>1. Offset = Len(FlattenSeq(SubSeq(Messages, 1, 0)))
    BY <1>2 DEF Offset
  <2>. QED  BY <1>2, <2>1, StreamAt
<1>3. CASE published = P /\ P # 0
  <2>1. P \in 1 .. P
    BY <1>0, <1>3
  <2>2. LET before == Len(FlattenSeq(SubSeq(Messages, 1, P - 1)))
        IN  /\ before \in Nat
            /\ Len(FlattenSeq(SubSeq(Messages, 1, P))) = before + Length(P)
    BY <2>1, StreamAt
  <2>3. Length(P) \in Nat
    BY <1>0, <2>1, Lengths
  <2>. QED  BY <1>3, <2>2, <2>3 DEF Offset
<1>. QED  BY <1>0, <1>1, <1>2, <1>3

LEMMA ReadStep ==
  ASSUME PublisherInv, NEW numBytes \in 1 .. BufferSize, Read(numBytes)
  PROVE  PublisherInv'
<1>0. BufferSize \in Nat /\ begin \in Nat /\ numBytes \in Nat
      /\ read \in Nat /\ Len(Stream) \in Nat /\ Stream \in Seq((1 .. P) \X Nat)
  BY Lengths, StreamAt, LenProperties DEF PublisherInv
<1>1. /\ reader = "waits" /\ begin + numBytes <= BufferSize /\ read + numBytes <= Len(Stream)
      /\ memory' = [i \in DOMAIN memory |->
                      IF i \in begin .. begin + numBytes - 1
                        THEN Stream[read + 1 + i - begin] ELSE memory[i]]
      /\ read' = read + numBytes /\ reader' = "ready"
      /\ slice' = [from |-> 0, upto |-> begin + numBytes]
      /\ begin' = begin /\ published' = published
  BY DEF Read
<1>2. memory \in [0 .. BufferSize - 1 -> ToSet(Stream) \cup {Junk}]
  BY DEF PublisherInv
<1>3. read = Offset + begin /\ \A i \in 0 .. begin - 1 : memory[i] = Stream[Offset + 1 + i]
  <2>1. From = 0 /\ Kept = begin
    BY <1>1 DEF From, Kept
  <2>. QED  BY <1>0, <2>1 DEF PublisherInv
<1>4. Offset' = Offset /\ Offset \in Nat
  BY <1>1, OffsetFacts DEF Offset, PublisherInv
<1>5. From' = 0 /\ Kept' = begin + numBytes
  BY <1>0, <1>1 DEF From, Kept
<1>6. ASSUME NEW i \in 0 .. begin + numBytes - 1
      PROVE  memory'[i] = Stream[Offset + 1 + i]
  <2>1. i \in DOMAIN memory
    BY <1>0, <1>1, <1>2
  <2>2. CASE i < begin
    <3>1. memory'[i] = memory[i] /\ i \in 0 .. begin - 1
      BY <1>0, <1>1, <2>1, <2>2
    <3>. QED  BY <1>3, <3>1
  <2>3. CASE i >= begin
    <3>1. memory'[i] = Stream[read + 1 + i - begin]
      BY <1>0, <1>1, <2>1, <2>3
    <3>2. read + 1 + i - begin = Offset + 1 + i
      BY <1>0, <1>3, <1>4
    <3>. QED  BY <3>1, <3>2
  <2>. QED  BY <1>0, <2>2, <2>3
<1>7. memory' \in [0 .. BufferSize - 1 -> ToSet(Stream) \cup {Junk}]
  <2>1. \A j \in 1 .. Len(Stream) : Stream[j] \in ToSet(Stream)
    BY <1>0, LenProperties DEF ToSet
  <2>2. ASSUME NEW i \in 0 .. BufferSize - 1
        PROVE  memory'[i] \in ToSet(Stream) \cup {Junk}
    <3>1. CASE i \in begin .. begin + numBytes - 1
      <4>1. memory'[i] = Stream[read + 1 + i - begin]
        BY <1>1, <1>2, <3>1
      <4>2. read + 1 + i - begin \in 1 .. Len(Stream)
        BY <1>0, <1>1, <3>1
      <4>. QED  BY <2>1, <4>1, <4>2
    <3>2. CASE i \notin begin .. begin + numBytes - 1
      BY <1>1, <1>2, <3>2
    <3>. QED  BY <3>1, <3>2
  <2>3. memory' = [i \in 0 .. BufferSize - 1 |-> memory'[i]]
    BY <1>1, <1>2
  <2>. QED  BY <2>2, <2>3
<1>8. read' \in 0 .. Len(Stream) /\ read' = Offset' + Kept'
  BY <1>0, <1>1, <1>3, <1>4, <1>5
<1>9. slice' \in [from : 0 .. BufferSize, upto : 0 .. BufferSize] /\ slice'.from <= slice'.upto
  BY <1>0, <1>1
<1>10. ASSUME NEW i \in 0 .. Kept' - 1
       PROVE  memory'[From' + i] = Stream[Offset' + 1 + i]
  <2>1. From' + i = i /\ i \in 0 .. begin + numBytes - 1
    <3>1. i \in 0 .. begin + numBytes - 1
      BY <1>0, <1>5
    <3>. QED  BY <1>0, <1>5, <3>1
  <2>. QED  BY <1>4, <1>6, <2>1
<1>11. begin' \in 0 .. BufferSize /\ published' \in 0 .. P /\ reader' \in {"waits", "ready", "runs"}
  BY <1>1 DEF PublisherInv
<1>. QED  BY <1>7, <1>8, <1>9, <1>10, <1>11 DEF PublisherInv

LEMMA RunReadStep ==
  ASSUME PublisherInv, RunRead
  PROVE  PublisherInv'
<1>1. From' = From /\ Kept' = Kept /\ Offset' = Offset
  BY DEF RunRead, From, Kept, Offset
<1>. QED  BY <1>1 DEF RunRead, PublisherInv

LEMMA PublishStep ==
  ASSUME PublisherInv, Publish
  PROVE  /\ PublisherInv'
         /\ published + 1 \in 1 .. P /\ PlaceOK(published + 1, InStream(slice.from))
         /\ Buffered(published + 1, InStream(slice.from), 0, Length(published + 1))
              = BytesOf(published + 1)
<1>. DEFINE m == published + 1
<1>0. P \in Nat /\ published \in 0 .. P /\ BufferSize \in Nat
  BY Lengths DEF PublisherInv
<1>1. /\ reader = "runs" /\ published < P /\ slice.upto - slice.from >= Length(m)
      /\ slice' = [slice EXCEPT !.from = @ + Length(m)]
      /\ published' = m
      /\ UNCHANGED <<memory, begin, read, reader>>
  BY DEF Publish, Handling, HasMessage, P
<1>2. m \in 1 .. P /\ m \in Id /\ Length(m) \in Nat
  BY <1>0, <1>1, Lengths
<1>3. /\ slice.from \in 0 .. BufferSize /\ slice.upto \in 0 .. BufferSize
      /\ slice.from + Length(m) <= slice.upto
      /\ slice'.from = slice.from + Length(m) /\ slice'.upto = slice.upto
      /\ slice' \in [from : 0 .. BufferSize, upto : 0 .. BufferSize]
  <2>1. slice \in [from : 0 .. BufferSize, upto : 0 .. BufferSize]
    BY DEF PublisherInv
  <2>. HIDE DEF m
  <2>2. slice.from \in 0 .. BufferSize /\ slice.upto \in 0 .. BufferSize
    BY <2>1
  <2>3. slice.from + Length(m) <= slice.upto
    BY <1>1, <1>2, <2>2
  <2>4. slice.from + Length(m) \in 0 .. BufferSize
    BY <1>0, <1>2, <2>2, <2>3
  <2>. QED  BY <1>1, <2>1, <2>2, <2>3, <2>4
<1>4. /\ Offset \in Nat /\ Offset' = Offset + Length(m)
      /\ \A i \in 1 .. Length(m) : Stream[Offset + i] = <<m, i>>
  BY <1>0, <1>1, OffsetFacts DEF Offset
<1>. HIDE DEF m
<1>5. From = slice.from /\ Kept = slice.upto - slice.from
  BY <1>1 DEF From, Kept
<1>6. From' = From + Length(m) /\ Kept' = Kept - Length(m)
  BY <1>1, <1>2, <1>3, <1>5 DEF From, Kept
<1>7. From \in Nat /\ Kept \in Nat /\ Length(m) <= Kept
  BY <1>2, <1>3, <1>5
<1>8. \A i \in 0 .. Kept - 1 : memory[From + i] = Stream[Offset + 1 + i]
  BY DEF PublisherInv
<1>9. PublisherInv'
  <2>1. ASSUME NEW i \in 0 .. Kept' - 1
        PROVE  memory'[From' + i] = Stream[Offset' + 1 + i]
    <3>1. i + Length(m) \in 0 .. Kept - 1 /\ From + (i + Length(m)) = From' + i
          /\ Offset + 1 + (i + Length(m)) = Offset' + 1 + i
      BY <1>2, <1>4, <1>6, <1>7
    <3>2. memory[From + (i + Length(m))] = Stream[Offset + 1 + (i + Length(m))]
      BY <1>8, <3>1
    <3>. QED  BY <1>1, <3>1, <3>2
  <2>2. read' = Offset' + Kept'
    BY <1>1, <1>2, <1>4, <1>6, <1>7 DEF PublisherInv
  <2>3. published' \in 0 .. P
    BY <1>0, <1>1, <1>2
  <2>. QED  BY <1>1, <1>3, <2>1, <2>2, <2>3 DEF PublisherInv
<1>10. PlaceOK(m, InStream(slice.from))
  BY <1>0, <1>2, <1>3 DEF PlaceOK, Place, InStream
<1>11. Buffered(m, InStream(slice.from), 0, Length(m)) = BytesOf(m)
  <2>1. ASSUME NEW i \in 1 .. Length(m)
        PROVE  memory[slice.from + 0 + i - 1] = <<m, i>>
    <3>1. i - 1 \in 0 .. Kept - 1 /\ From + (i - 1) = slice.from + 0 + i - 1
          /\ Offset + 1 + (i - 1) = Offset + i
      BY <1>2, <1>3, <1>4, <1>5, <1>7
    <3>. QED  BY <1>4, <1>8, <3>1
  <2>2. Buffered(m, InStream(slice.from), 0, Length(m))
          = [i \in 1 .. Length(m) |-> memory[slice.from + 0 + i - 1]]
    BY DEF Buffered, InStream
  <2>. QED  BY <2>1, <2>2 DEF BytesOf
<1>. QED  BY <1>2, <1>9, <1>10, <1>11 DEF m

LEMMA ShiftStep ==
  ASSUME PublisherInv, Shift
  PROVE  PublisherInv'
<1>0. BufferSize \in Nat /\ slice.from \in 0 .. BufferSize /\ slice.upto \in 0 .. BufferSize
      /\ slice.from <= slice.upto
  BY Lengths DEF PublisherInv
<1>1. /\ reader = "runs" /\ begin' = slice.upto - slice.from
      /\ memory' = [i \in DOMAIN memory |->
                      IF i < begin' THEN memory[slice.from + i] ELSE memory[i]]
      /\ reader' = "waits" /\ slice' = [from |-> 0, upto |-> 0]
      /\ read' = read /\ published' = published
  BY DEF Shift, Handling
<1>2. memory \in [0 .. BufferSize - 1 -> ToSet(Stream) \cup {Junk}]
  BY DEF PublisherInv
<1>3. From = slice.from /\ Kept = slice.upto - slice.from /\ From' = 0 /\ Kept' = Kept
      /\ Offset' = Offset
  BY <1>1 DEF From, Kept, Offset
<1>4. begin' \in 0 .. BufferSize /\ slice.from + begin' <= BufferSize
  BY <1>0, <1>1
<1>5. \A i \in 0 .. BufferSize - 1 : i < begin' => slice.from + i \in 0 .. BufferSize - 1
  BY <1>0, <1>4
<1>6. memory' \in [0 .. BufferSize - 1 -> ToSet(Stream) \cup {Junk}]
  BY <1>1, <1>2, <1>5
<1>7. ASSUME NEW i \in 0 .. Kept' - 1
      PROVE  memory'[From' + i] = Stream[Offset' + 1 + i]
  <2>1. i \in 0 .. Kept - 1 /\ i \in 0 .. BufferSize - 1 /\ i < begin' /\ From' + i = i
    BY <1>0, <1>1, <1>3, <1>4
  <2>2. memory'[i] = memory[From + i]
    BY <1>1, <1>2, <1>3, <2>1
  <2>3. memory[From + i] = Stream[Offset + 1 + i]
    BY <2>1 DEF PublisherInv
  <2>. QED  BY <1>3, <2>1, <2>2, <2>3
<1>8. slice' \in [from : 0 .. BufferSize, upto : 0 .. BufferSize] /\ slice'.from <= slice'.upto
  BY <1>0, <1>1
<1>9. read' = Offset' + Kept' /\ read' \in 0 .. Len(Stream) /\ published' \in 0 .. P
  BY <1>1, <1>3 DEF PublisherInv
<1>. QED  BY <1>1, <1>4, <1>6, <1>7, <1>8, <1>9 DEF PublisherInv

\* Connection::newMessage with a message that was not handed over before.
LEMMA NewMessageStep ==
  ASSUME PublisherInv, HandedInv, HandedInv', SocketInv, RightWithRoom,
         NEW m \in Id, m \notin ToSet(handed),
         NEW place, NEW later, PlaceOK(m, place), PlaceOK(m, later),
         Buffered(m, place, 0, Length(m)) = BytesOf(m),
         m > P /\ Replies[m - P] = "static" => place.in = "static",
         NewMessage(m, place, later)
  PROVE  SocketInv' /\ RightWithRoom'
<1>1. handed' = Append(handed, m) /\ received' = received /\ WriteSome(m, place, later, 0)
  BY DEF NewMessage
<1>2. Started(m) = 0 /\ Length(m) \in Nat \ {0}
  BY Lengths DEF Started
<1>3. /\ SocketInv'
      /\ ~short' => ~short /\ wire' = wire \o Buffered(m, place, Started(m), Length(m) - Started(m))
  <2>1. Started(m) < Length(m) /\ WriteSome(m, place, later, Started(m))
    BY <1>1, <1>2
  <2>2. handed' = IF m \in ToSet(handed) THEN handed ELSE Append(handed, m)
    BY <1>1
  <2>. QED  BY <1>1, <2>1, <2>2, WriteSomeStep
<1>4. RightWithRoom'
  <2>1. Length(m) - 0 = Length(m)
    BY <1>2
  <2>2. InOrder' = InOrder \o BytesOf(m)
    BY <1>1, InOrderAppend DEF HandedInv
  <2>. QED  BY <1>2, <1>3, <2>1, <2>2 DEF RightWithRoom
<1>. QED  BY <1>3, <1>4

LEMMA HandedAppend ==
  ASSUME HandedInv, published \in 0 .. P,
         NEW m \in Id, m \notin ToSet(handed), handed' = Append(handed, m),
         \/ m = published + 1 /\ published' = m /\ replied' = replied
         \/ m = P + replied + 1 /\ replied' = replied + 1 /\ published' = published
  PROVE  HandedInv'
<1>0. P \in Nat /\ Len(Replies) \in Nat /\ Id = 1 .. P + Len(Replies)
  BY Lengths
<1>1. /\ handed' \in Seq(Id) /\ Len(handed') = Len(handed) + 1 /\ handed'[Len(handed) + 1] = m
      /\ \A i \in 1 .. Len(handed) : handed'[i] = handed[i]
      /\ Len(handed) \in Nat /\ DOMAIN handed = 1 .. Len(handed)
      /\ DOMAIN handed' = 1 .. Len(handed) + 1
  BY AppendProperties, LenProperties DEF HandedInv
<1>2. ToSet(handed') = ToSet(handed) \cup {m}
  BY <1>1 DEF ToSet
<1>3. \A j, k \in 1 .. Len(handed') : handed'[j] = handed'[k] => j = k
  <2>1. \A j \in 1 .. Len(handed) : handed[j] # m
    BY <1>1 DEF ToSet
  <2>2. \A j \in 1 .. Len(handed') : j \in 1 .. Len(handed) \/ j = Len(handed) + 1
    BY <1>1
  <2>. QED  BY <1>1, <2>1, <2>2 DEF HandedInv
<1>4. ToSet(handed') = 1 .. published' \cup P + 1 .. P + replied'
  <2>1. ToSet(handed) = 1 .. published \cup P + 1 .. P + replied /\ replied \in Nat
    BY <1>0 DEF HandedInv
  <2>2. CASE m = published + 1 /\ published' = m /\ replied' = replied
    <3>1. 1 .. published' = 1 .. published \cup {m}
      BY <1>0, <2>2
    <3>. QED  BY <1>2, <2>1, <2>2, <3>1
  <2>3. CASE m = P + replied + 1 /\ replied' = replied + 1 /\ published' = published
    <3>1. P + 1 .. P + replied' = (P + 1 .. P + replied) \cup {m}
      BY <1>0, <2>1, <2>3
    <3>. QED  BY <1>2, <2>1, <2>3, <3>1
  <2>. QED  BY <2>2, <2>3
<1>5. replied' \in 0 .. Len(Replies) /\ Len(handed') = published' + replied'
  BY <1>0, <1>1 DEF HandedInv
<1>6. Id' = Id /\ P' = P
  BY DEF Id, P
<1>. QED  BY <1>1, <1>3, <1>4, <1>5, <1>6 DEF HandedInv

LEMMA ReplyStep ==
  ASSUME IInv, Reply
  PROVE  HandedInv' /\ SocketInv' /\ RightWithRoom'
<1>. DEFINE m == P + replied + 1
            kind == Replies[replied + 1]
            place == [in |-> kind, at |-> 0]
            later == [in |-> IF kind = "static" THEN "static" ELSE "freed", at |-> 0]
<1>0. P \in Nat /\ Len(Replies) \in Nat /\ Id = 1 .. P + Len(Replies)
      /\ replied \in 0 .. Len(Replies) /\ published \in 0 .. P /\ BufferSize \in Nat
  BY Lengths DEF IInv, HandedInv, PublisherInv
<1>1. replied < Len(Replies) /\ replied' = replied + 1 /\ published' = published
  BY DEF Reply, publisher
<1>2. m \in Id /\ m > P /\ m - P = replied + 1 /\ Len(Publishes) + replied' = m
  BY <1>0, <1>1 DEF P
<1>3. m \notin ToSet(handed)
  BY <1>0 DEF IInv, HandedInv
<1>4. NewMessage(m, place, later)
  BY DEF Reply, P, In, PlaceAfter
<1>5. Length(m) \in Nat
  BY <1>2, Lengths
<1>6. PlaceOK(m, place) /\ PlaceOK(m, later)
  <2>1. Replies[replied + 1] \in {"static", "vector"} /\ replied + 1 = m - P
    BY <1>0, <1>1, <1>2, OutboundAssumption
  <2>. QED  BY <1>0, <1>2, <2>1 DEF PlaceOK, Place
<1>7. Buffered(m, place, 0, Length(m)) = BytesOf(m)
  <2>1. Buffered(m, place, 0, Length(m)) = [i \in 1 .. Length(m) |-> <<m, 0 + i>>]
    <3>1. Replies[replied + 1] \in {"static", "vector"}
      BY <1>0, <1>1, OutboundAssumption
    <3>. QED  BY <3>1 DEF Buffered
  <2>2. \A i \in 1 .. Length(m) : 0 + i = i
    BY <1>5
  <2>. QED  BY <2>1, <2>2 DEF BytesOf
<1>8. Replies[m - P] = "static" => place.in = "static"
  BY <1>2
<1>. HIDE DEF place, later
<1>9. HandedInv'
  <2>1. handed' = Append(handed, m)
    BY <1>4 DEF NewMessage
  <2>. QED  BY <1>0, <1>1, <1>2, <1>3, <2>1, HandedAppend DEF IInv
<1>10. SocketInv' /\ RightWithRoom'
  <2>. HIDE DEF m
  <2>. QED  BY <1>2, <1>3, <1>4, <1>6, <1>7, <1>8, <1>9, NewMessageStep DEF IInv, SocketInv
<1>. QED  BY <1>9, <1>10

\* The same when the publisher hands over its next message.
LEMMA PublishedStep ==
  ASSUME IInv, Publish
  PROVE  HandedInv' /\ SocketInv' /\ RightWithRoom'
<1>. DEFINE m == published + 1
            place == InStream(slice.from)
<1>0. P \in Nat /\ Len(Replies) \in Nat /\ Id = 1 .. P + Len(Replies)
      /\ replied \in 0 .. Len(Replies) /\ published \in 0 .. P
  BY Lengths DEF IInv, HandedInv, PublisherInv
<1>1. m \in 1 .. P /\ PlaceOK(m, place) /\ Buffered(m, place, 0, Length(m)) = BytesOf(m)
  BY PublishStep DEF IInv
<1>2. m \in Id /\ m \notin ToSet(handed) /\ ~(m > P)
  BY <1>0, <1>1 DEF IInv, HandedInv
<1>3. NewMessage(m, place, place) /\ published' = m /\ replied' = replied
  BY DEF Publish
<1>. HIDE DEF place
<1>4. HandedInv'
  <2>1. handed' = Append(handed, m)
    BY <1>3 DEF NewMessage
  <2>. QED  BY <1>0, <1>2, <1>3, <2>1, HandedAppend DEF IInv
<1>5. SocketInv' /\ RightWithRoom'
  <2>. HIDE DEF m
  <2>. QED  BY <1>1, <1>2, <1>3, <1>4, NewMessageStep DEF IInv, SocketInv
<1>. QED  BY <1>4, <1>5

\* The rest of a write.
LEMMA HandedUnchanged ==
  ASSUME HandedInv, UNCHANGED <<published, replied, handed>>
  PROVE  HandedInv'
BY DEF HandedInv, Id, P

LEMMA PerformStep ==
  ASSUME IInv, Perform
  PROVE  SocketInv' /\ RightWithRoom'
<1>. DEFINE m == Head(queue)
            place == writes[m].place
            n == Taken(m, writes[m].sent)
<1>1. /\ queue # <<>> /\ queue \in Seq(DOMAIN writes)
      /\ Transfer(m, place, writes[m].sent, n)
      /\ writes' = [writes EXCEPT ![m].sent = @ + n]
      /\ queue' = Tail(queue)
      /\ UNCHANGED <<published, replied, handed, received>>
  BY DEF Perform, IInv, WritesInv, publisher
<1>2. m \in DOMAIN writes /\ Tail(queue) \in Seq(DOMAIN writes)
  BY <1>1, HeadTailProperties
<1>3. m \in ToSet(handed) /\ m \in Id
  BY <1>2, LenProperties, ElementOfSeq DEF IInv, WritesInv, HandedInv, ToSet
<1>4. Started(m) = writes[m].sent /\ Started(m) \in Nat /\ Started(m) <= Length(m)
      /\ PlaceOK(m, place) /\ writes[m] = [place |-> place, sent |-> Started(m)]
  BY <1>2, <1>3 DEF Started, SentOf, IInv, WritesInv
<1>5. n \in Nat /\ Started(m) + n <= Length(m) /\ n <= FreeRoom
  <2>. DEFINE sent == Started(m)
  <2>1. sent \in Nat /\ sent <= Length(m) /\ n = Taken(m, sent)
    BY <1>4
  <2>. HIDE DEF sent, n, m
  <2>2. /\ Taken(m, sent) \in Nat /\ sent + Taken(m, sent) <= Length(m)
        /\ Taken(m, sent) <= FreeRoom
    BY <1>3, <2>1, TakenBounds DEF IInv
  <2>. QED  BY <2>1, <2>2 DEF sent
<1>6. writes' = [k \in DOMAIN writes \cup {m} |->
                   IF k = m THEN [place |-> place, sent |-> Started(m) + n] ELSE writes[k]]
  <2>1. writes \in [DOMAIN writes -> [place : Place, sent : Nat]] /\ DOMAIN writes \cup {m} = DOMAIN writes
    BY <1>2 DEF IInv, WritesInv
  <2>. HIDE DEF n, m
  <2>2. [writes[m] EXCEPT !.sent = @ + n] = [place |-> place, sent |-> Started(m) + n]
    BY <1>4
  <2>3. [writes EXCEPT ![m].sent = @ + n]
        = [k \in DOMAIN writes |-> IF k = m THEN [writes[m] EXCEPT !.sent = @ + n] ELSE writes[k]]
    BY <2>1
  <2>. QED  BY <1>1, <2>1, <2>2, <2>3
<1>7. short /\ short'
  <2>1. short
    BY <1>1 DEF IInv, WireInv
  <2>. QED  BY <1>1, <2>1, Zenon DEF Transfer
<1>8. queue' \in Seq(DOMAIN writes \cup {m})
  <2>1. DOMAIN writes \cup {m} = DOMAIN writes
    BY <1>2
  <2>. QED  BY <1>1, <1>2, <2>1
<1>9. HandedInv'
  BY <1>1, HandedUnchanged DEF IInv
<1>10. m > P /\ Replies[m - P] = "static" => place.in = "static"
  BY <1>4 DEF PlaceOK
<1>11. SocketInv'
  <2>1. handed' = IF m \in ToSet(handed) THEN handed ELSE Append(handed, m)
    BY <1>1, <1>3
  <2>2. Transfer(m, place, Started(m), n)
    BY <1>1, <1>4
  <2>3. ~short' => queue' = <<>>
    BY <1>7
  <2>4. PublisherInv /\ HandedInv /\ SocketInv
    BY DEF IInv, SocketInv
  <2>5. PlaceOK(m, place) /\ received' = received
    BY <1>1, <1>4
  <2>. HIDE DEF m, place, n
  <2>. QED  BY <1>2, <1>3, <1>5, <1>6, <1>8, <1>9, <1>10, <2>1, <2>2, <2>3, <2>4, <2>5, WriteStep
<1>12. RightWithRoom'
  BY <1>7 DEF RightWithRoom
<1>. QED  BY <1>11, <1>12

LEMMA HandleWrittenStep ==
  ASSUME IInv, NEW m \in DOMAIN writes, HandleWritten(m)
  PROVE  SocketInv' /\ RightWithRoom'
<1>1. m \in ToSet(handed) /\ m \in Id /\ Length(m) \in Nat
  <2>1. m \in ToSet(handed)
    BY DEF IInv, WritesInv
  <2>2. m \in Id
    BY <2>1, LenProperties, ElementOfSeq DEF IInv, HandedInv, ToSet
  <2>. QED  BY <2>1, <2>2, Lengths
<1>2. Started(m) = writes[m].sent /\ Started(m) \in Nat /\ Started(m) <= Length(m)
      /\ PlaceOK(m, writes[m].place)
  BY <1>1 DEF Started, SentOf, IInv, WritesInv
<1>3. m \notin ToSet(queue) /\ UNCHANGED <<published, replied, handed, received>>
  BY DEF HandleWritten, Written, publisher
<1>4. CASE writes[m].sent = Length(m)
  <2>1. /\ writes' = [k \in DOMAIN writes \ {m} |-> writes[k]]
        /\ UNCHANGED <<queue, wire, short>>
    BY <1>4 DEF HandleWritten, Written
  <2>2. DOMAIN writes' = DOMAIN writes \ {m}
    BY <2>1
  <2>3. \A x \in Id : SentOf(x)' = SentOf(x)
    BY <1>4, <2>1 DEF SentOf, Length
  <2>4. WritesInv'
    <3>1. queue \in Seq(DOMAIN writes) /\ \A i \in 1 .. Len(queue) : queue[i] # m
      BY <1>3, LenProperties DEF IInv, WritesInv, ToSet
    <3>2. queue \in Seq(DOMAIN writes \ {m})
      <4>1. \A i \in 1 .. Len(queue) : queue[i] \in DOMAIN writes \ {m}
        BY <3>1, ElementOfSeq
      <4>. QED  BY <3>1, <4>1, LenProperties
    <3>3. writes' \in [DOMAIN writes' -> [place : Place, sent : Nat]]
      BY <2>1 DEF IInv, WritesInv
    <3>4. \A k \in DOMAIN writes' : PlaceOK(k, writes'[k].place) /\ writes'[k].sent <= Length(k)
      BY <2>1 DEF IInv, WritesInv
    <3>5. DOMAIN writes' \subseteq ToSet(handed')
      BY <1>3, <2>2 DEF IInv, WritesInv
    <3>. QED  BY <2>1, <2>2, <3>2, <3>3, <3>4, <3>5 DEF WritesInv, PlaceOK, Place, Length
  <2>5. WireInv'
    BY <1>3, <2>1 DEF IInv, WireInv
  <2>6. \A k \in 1 .. Len(handed) : handed[k] \in Id
    BY ElementOfSeq DEF IInv, HandedInv
  <2>7. CountInv'
    <3>1. Parts' = Parts
      <4>. DEFINE NewSent(x) == IF x \in DOMAIN writes' THEN writes'[x].sent ELSE Length(x)
      <4>1. Parts' = [k \in 1 .. Len(handed) |-> SubSeq(BytesOf(handed[k]), 1, NewSent(handed[k]))]
        BY <1>3 DEF Parts, SentOf, BytesOf, Length
      <4>2. \A x \in Id : NewSent(x) = SentOf(x)
        BY <2>3 DEF SentOf, Length
      <4>. HIDE DEF NewSent
      <4>. QED  BY <2>6, <4>1, <4>2 DEF Parts
    <3>. QED  BY <2>1, <3>1 DEF IInv, CountInv
  <2>8. StaticInv'
    <3>. SUFFICES ASSUME NEW k \in 1 .. Len(Replies), Replies[k] = "static"
                  PROVE  (TakenOf(P + k) = SubSeq(BytesOf(P + k), 1, Started(P + k)))'
      BY DEF StaticInv
    <3>1. P + k \in Id
      BY Lengths
    <3>2. Started(P + k)' = Started(P + k)
      BY <1>3, <2>3, <3>1 DEF Started
    <3>3. TakenOf(P + k)' = TakenOf(P + k) /\ BytesOf(P + k)' = BytesOf(P + k)
      BY <2>1 DEF TakenOf, BytesOf, Length
    <3>. QED  BY <3>2, <3>3 DEF IInv, StaticInv
  <2>9. RightWithRoom'
    BY <1>3, <2>1 DEF IInv, RightWithRoom, InOrder, BytesOf, Length
  <2>. QED  BY <2>4, <2>5, <2>7, <2>8, <2>9 DEF SocketInv
<1>5. CASE writes[m].sent # Length(m)
  <2>. DEFINE place == writes[m].place
  <2>1. WriteSome(m, place, place, Started(m)) /\ Started(m) < Length(m)
    BY <1>1, <1>2, <1>5 DEF HandleWritten, Written
  <2>2. HandedInv'
    BY <1>3, HandedUnchanged DEF IInv
  <2>3. m > P /\ Replies[m - P] = "static" => place.in = "static"
    BY <1>2 DEF PlaceOK
  <2>4. handed' = IF m \in ToSet(handed) THEN handed ELSE Append(handed, m)
    BY <1>1, <1>3
  <2>5. SocketInv' /\ (~short' => ~short)
    <3>. HIDE DEF place
    <3>0. PlaceOK(m, place)
      BY <1>2 DEF place
    <3>. QED  BY <1>1, <1>3, <2>1, <2>2, <2>3, <2>4, <3>0, WriteSomeStep DEF IInv, SocketInv
  <2>6. short
    BY <1>5 DEF IInv, WireInv
  <2>7. RightWithRoom'
    BY <2>5, <2>6 DEF RightWithRoom
  <2>. QED  BY <2>5, <2>7
<1>. QED  BY <1>4, <1>5

LEMMA ReceiveStep ==
  ASSUME IInv, Receive
  PROVE  HandedInv' /\ SocketInv' /\ RightWithRoom'
<1>1. received' \in received + 1 .. Len(wire) /\ UNCHANGED <<publisher, replied, handed, socket>>
  BY DEF Receive
<1>. USE DEF socket
<1>2. HandedInv'
  BY <1>1, HandedUnchanged DEF IInv, publisher
<1>3. RightWithRoom'
  BY <1>1 DEF IInv, RightWithRoom, InOrder, BytesOf, Length
<1>4. WritesInv'
  BY <1>1 DEF IInv, WritesInv, PlaceOK, Place, Length
<1>5. WireInv'
  <2>1. Room \in Nat /\ Len(wire) \in Nat
    BY Lengths, LenProperties DEF IInv, WireInv
  <2>2. received' \in Nat /\ Len(wire) - received' \in 0 .. Room
    BY <1>1, <2>1 DEF IInv, WireInv
  <2>. QED  BY <1>1, <2>2 DEF IInv, WireInv, Byte, Length
<1>6. CountInv'
  BY <1>1 DEF IInv, CountInv, Parts, SentOf, BytesOf, Length
<1>7. StaticInv'
  BY <1>1 DEF IInv, StaticInv, TakenOf, Started, SentOf, BytesOf, Length
<1>. QED  BY <1>2, <1>3, <1>4, <1>5, <1>6, <1>7 DEF SocketInv

LEMMA NextInv ==
  ASSUME IInv, [Next]_vars
  PROVE  IInv'
<1>. SUFFICES PublisherInv' /\ HandedInv' /\ SocketInv' /\ RightWithRoom'
  BY DEF IInv, SocketInv
<1>. USE DEF IInv, SocketInv
<1>1. CASE \E numBytes \in 1 .. BufferSize : Read(numBytes)
  <2>. HIDE DEF IInv
  <2>1. PublisherInv'
    BY <1>1, ReadStep DEF IInv
  <2>2. UNCHANGED <<published, replied, handed, socket, received>>
    BY <1>1 DEF Read
  <2>. QED  BY <2>1, <2>2, SocketUnchanged DEF IInv
<1>2. CASE RunRead
  <2>1. UNCHANGED <<published, replied, handed, socket, received>>
    BY <1>2 DEF RunRead
  <2>. QED  BY <1>2, <2>1, RunReadStep, SocketUnchanged
<1>3. CASE Publish
  <2>. HIDE DEF IInv, SocketInv
  <2>1. PublisherInv'
    BY <1>3, PublishStep DEF IInv
  <2>. QED  BY <1>3, <2>1, PublishedStep
<1>4. CASE Shift
  <2>1. UNCHANGED <<published, replied, handed, socket, received>>
    BY <1>4 DEF Shift
  <2>. QED  BY <1>4, <2>1, ShiftStep, SocketUnchanged
<1>5. CASE Reply
  <2>1. PublisherInv'
    BY <1>5, PublisherUnchanged DEF Reply
  <2>. HIDE DEF IInv, SocketInv
  <2>. QED  BY <1>5, <2>1, ReplyStep
<1>6. CASE Perform
  <2>1. PublisherInv' /\ HandedInv'
    BY <1>6, PublisherUnchanged, HandedUnchanged DEF Perform, publisher
  <2>. HIDE DEF IInv, SocketInv
  <2>. QED  BY <1>6, <2>1, PerformStep
<1>7. CASE \E m \in DOMAIN writes : HandleWritten(m)
  <2>1. PublisherInv' /\ HandedInv'
    BY <1>7, PublisherUnchanged, HandedUnchanged DEF HandleWritten, Written, publisher
  <2>. HIDE DEF IInv, SocketInv
  <2>. QED  BY <1>7, <2>1, HandleWrittenStep
<1>8. CASE Receive
  <2>1. PublisherInv'
    BY <1>8, PublisherUnchanged DEF Receive
  <2>. HIDE DEF IInv, SocketInv
  <2>. QED  BY <1>8, <2>1, ReceiveStep
<1>9. CASE UNCHANGED vars
  <2>1. UNCHANGED publisher /\ UNCHANGED <<published, replied, handed, socket, received>>
    BY <1>9 DEF vars, publisher
  <2>. QED  BY <2>1, PublisherUnchanged, SocketUnchanged
<1>. HIDE DEF IInv, SocketInv
<1>. QED  BY <1>1, <1>2, <1>3, <1>4, <1>5, <1>6, <1>7, <1>8, <1>9 DEF Next

LEMMA Invariant == Spec => []IInv
<1>1. IInv /\ [Next]_vars => IInv'
  BY NextInv
<1>. QED  BY <1>1, InitInv, PTL DEF Spec

-----------------------------------------------------------------------------
(* The theorems.                                                           *)

\* Whatever is handed over, kept, taken or read stays within its bounds: the
\* buffer of the publisher, the length of a message, the room of the socket.
THEOREM OutboundTypeOK == Spec => []TypeOK
<1>1. IInv => TypeOK
  <2>. SUFFICES ASSUME IInv
                PROVE  TypeOK
    OBVIOUS
  <2>1. ToSet(queue) \subseteq DOMAIN writes
    BY LenProperties, ElementOfSeq DEF IInv, WritesInv, ToSet
  <2>2. slice.from \in 0 .. slice.upto /\ slice.upto <= BufferSize
    BY Lengths DEF IInv, PublisherInv
  <2>. QED  BY <2>1, <2>2 DEF IInv, PublisherInv, HandedInv, WritesInv, WireInv, TypeOK
<1>. QED  BY <1>1, Invariant, PTL

\* While the socket has had room for every write at once, the wire is the
\* messages of Connection::newMessage, whole and in the order of the calls.
THEOREM OutboundRightWithRoom == Spec => []RightWithRoom
<1>1. IInv => RightWithRoom
  BY DEF IInv
<1>. QED  BY <1>1, Invariant, PTL

\* A reply whose bytes stay where they are is sent whole and in order, each
\* byte once, however its write is cut up and whatever lies between.
THEOREM OutboundStaticSentInOrder == Spec => []StaticSentInOrder
<1>1. IInv => StaticSentInOrder
  <2>. SUFFICES ASSUME IInv, NEW k \in 1 .. replied, Replies[k] = "static"
                PROVE  TakenOf(P + k) = SubSeq(BytesOf(P + k), 1, SentOf(P + k))
    BY DEF StaticSentInOrder, P
  <2>1. k \in 1 .. Len(Replies) /\ P + k \in ToSet(handed)
    BY Lengths DEF IInv, HandedInv
  <2>. QED  BY <2>1 DEF IInv, StaticInv, Started
<1>. QED  BY <1>1, Invariant, PTL

\* Once no write is under way, exactly as many bytes are sent as the messages
\* handed over have.
THEOREM OutboundAllBytesCounted == Spec => []AllBytesCounted
<1>1. IInv => AllBytesCounted
  <2>. SUFFICES ASSUME IInv, DOMAIN writes = {}
                PROVE  Len(wire) = Len(InOrder)
    BY DEF AllBytesCounted
  <2>1. \A x \in Id : SubSeq(BytesOf(x), 1, SentOf(x)) = BytesOf(x)
    BY Bytes, SubSeqFull DEF SentOf
  <2>2. \A k \in 1 .. Len(handed) : handed[k] \in Id
    BY ElementOfSeq DEF IInv, HandedInv
  <2>3. Parts = [k \in 1 .. Len(handed) |-> BytesOf(handed[k])]
    BY <2>1, <2>2 DEF Parts
  <2>. QED  BY <2>3 DEF IInv, CountInv, InOrder
<1>. QED  BY <1>1, Invariant, PTL
=============================================================================
