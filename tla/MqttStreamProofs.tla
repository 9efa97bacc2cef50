-------------------------- MODULE MqttStreamProofs --------------------------
(***************************************************************************)
(* MqttStream keeps its place in the byte stream, never runs out of room   *)
(* and implements Channel, for any set of messages and any buffer they fit *)
(* in.                                                                     *)
(***************************************************************************)
EXTENDS MqttStream, SequenceLemmas

-----------------------------------------------------------------------------
(* The inductive invariant.                                                *)

\* The facts of SequenceLemmas, about the bytes of the stream.
LEMMA CutOut ==
  ASSUME NEW s \in Seq(Byte), NEW a \in Nat, NEW b \in Nat, a <= b, b <= Len(s)
  PROVE  SubSeq(s, a + 1, b) \in Seq(Byte) /\ Len(SubSeq(s, a + 1, b)) = b - a
BY Piece

LEMMA Joined ==
  ASSUME NEW s \in Seq(Byte), NEW a \in Nat, NEW b \in Nat, NEW c \in Nat,
         a <= b, b <= c, c <= Len(s)
  PROVE  SubSeq(s, a + 1, b) \o SubSeq(s, b + 1, c) = SubSeq(s, a + 1, c)
BY AdjacentPieces

LEMMA KeptBehind ==
  ASSUME NEW s \in Seq(Byte), NEW t \in Seq(Byte),
         NEW a \in Nat, NEW b \in Nat, a <= b, b <= Len(s)
  PROVE  SubSeq(s \o t, a + 1, b) = SubSeq(s, a + 1, b)
BY PieceOfConcat

\* Every two neighbours in ends enclose one message of the client.
Cut ==
  \A i \in 1..Len(ends) :
    /\ StartOf(i) \in Nat
    /\ ends[i] <= Len(stream)
    /\ ends[i] - StartOf(i) \in HeaderSize..BufferSize
    /\ ends[i] = StartOf(i) + HeaderSize + stream[StartOf(i) + 2]

\* The messages follow one another and fill the stream.
Ordered == \A i, j \in 1..Len(ends) : i <= j => ends[i] <= ends[j]
Filled == StartOf(Len(ends) + 1) = Len(stream)

ReadBehind == read <= Len(stream)

\* What is kept between reads is no whole message.
Incomplete == ~handling => Len(buffer) < TotalLength(buffer)

HandledInOrder ==
  \A i \in 1..Len(handled) : handled[i] = SubSeq(stream, StartOf(i) + 1, ends[i])

IInv ==
  TypeOK /\ Cut /\ Ordered /\ Filled /\ ReadBehind /\ InStep /\ Incomplete /\ HandledInOrder

\* Where the first message not handled yet starts.
Start == StartOf(Len(handled) + 1)

-----------------------------------------------------------------------------

LEMMA MessageFacts ==
  ASSUME NEW m \in Message
  PROVE  /\ m \in Seq(Byte) /\ Len(m) \in Nat
         /\ Len(m) \in HeaderSize..BufferSize
         /\ m[2] \in Nat
         /\ Len(m) = HeaderSize + m[2]
<1>1. IsMessage(m)
  BY MessageAssumption
<1>2. m \in Seq(Byte) /\ Len(m) \in HeaderSize..BufferSize /\ Len(m) = HeaderSize + m[2]
  BY <1>1 DEF IsMessage
<1>3. Len(m) \in Nat
  BY <1>2, LenProperties
<1>4. 2 \in 1..Len(m)
  BY <1>2, <1>3, BufferAssumption DEF HeaderSize
<1>5. m[2] \in Nat
  BY <1>2, <1>4, ElementOfSeq, ByteAssumption
<1>. QED  BY <1>2, <1>3, <1>5

\* The place where the next message starts, from the invariant.
LEMMA StartFacts ==
  ASSUME IInv
  PROVE  /\ Len(ends) \in Nat /\ Len(handled) \in Nat /\ Len(stream) \in Nat
         /\ Len(handled) <= Len(ends)
         /\ Start \in Nat /\ Start <= read /\ read \in Nat /\ read <= Len(stream)
         /\ Held \in Seq(Byte) /\ Len(Held) \in Nat
         /\ Len(Held) = read - Start
         /\ Held = SubSeq(stream, Start + 1, read)
         /\ \A i \in 1..(read - Start) : Held[i] = stream[Start + i]
         /\ Len(handled) = Len(ends) => Start = read
<1>1. TypeOK /\ Cut /\ Filled /\ ReadBehind /\ InStep
  BY DEF IInv
<1>2. Len(ends) \in Nat /\ Len(handled) \in Nat /\ Len(stream) \in Nat
  BY <1>1, LenProperties DEF TypeOK
<1>3. Len(handled) <= Len(ends) /\ Start + Len(Held) = read /\ Held = SubSeq(stream, Start + 1, read)
  BY <1>1 DEF InStep, Start
<1>4. Held \in Seq(Byte) /\ Len(Held) \in Nat
  BY <1>1, LenProperties DEF TypeOK, Held
<1>5. Start \in Nat
  <2>1. CASE Len(handled) = Len(ends)
    BY <2>1, <1>1, <1>2 DEF Filled, Start
  <2>2. CASE Len(handled) < Len(ends)
    <3>1. Len(handled) + 1 \in 1..Len(ends)
      BY <2>2, <1>2
    <3>. QED  BY <3>1, <1>1 DEF Cut, Start
  <2>. QED  BY <2>1, <2>2, <1>2, <1>3
<1>6. read \in Nat /\ read <= Len(stream)
  BY <1>1 DEF TypeOK, ReadBehind
<1>7. Start <= read /\ Len(Held) = read - Start
  BY <1>3, <1>4, <1>5, <1>6
<1>8. \A i \in 1..(read - Start) : Held[i] = stream[Start + i]
  BY <1>1, <1>3, <1>5, <1>6, <1>7, Piece DEF TypeOK
<1>9. Len(handled) = Len(ends) => Start = read
  BY <1>1, <1>2, <1>5, <1>6, <1>7 DEF Filled, Start
<1>. QED  BY <1>2, <1>3, <1>4, <1>5, <1>6, <1>7, <1>8, <1>9

\* A whole message at hand is the client's next message.
LEMMA HeldMessage ==
  ASSUME IInv, Len(Held) >= TotalLength(Held)
  PROVE  /\ Len(handled) < Len(ends)
         /\ Len(handled) + 1 \in 1..Len(ends)
         /\ ends[Len(handled) + 1] \in Nat
         /\ TotalLength(Held) = ends[Len(handled) + 1] - Start
         /\ TotalLength(Held) \in Nat /\ TotalLength(Held) > 0
<1>. DEFINE n == Len(handled) + 1
<1>1. Len(Held) >= HeaderSize
  <2>1. CASE Len(Held) < HeaderSize
    BY <2>1, StartFacts DEF TotalLength, HeaderSize
  <2>. QED  BY <2>1, StartFacts DEF HeaderSize
<1>2. Len(handled) < Len(ends) /\ n \in 1..Len(ends)
  BY <1>1, StartFacts DEF HeaderSize
<1>3. ends[n] \in Nat
  BY <1>2, ElementOfSeq DEF IInv, TypeOK
<1>4. ends[n] = Start + HeaderSize + stream[Start + 2] /\ ends[n] - Start \in HeaderSize..BufferSize
  BY <1>2 DEF IInv, Cut, Start
<1>5. Held[2] = stream[Start + 2]
  BY <1>1, StartFacts DEF HeaderSize
<1>6. stream[Start + 2] \in Nat
  <2>1. Start + 2 \in 1..Len(stream)
    BY <1>1, StartFacts DEF HeaderSize
  <2>. QED  BY <2>1, ElementOfSeq, ByteAssumption DEF IInv, TypeOK
<1>7. TotalLength(Held) = stream[Start + 2] + HeaderSize
  BY <1>1, <1>5 DEF TotalLength
<1>8. Start \in Nat
  BY StartFacts
<1>9. TotalLength(Held) = ends[n] - Start
  BY <1>4, <1>6, <1>7, <1>8 DEF HeaderSize
<1>10. TotalLength(Held) \in Nat /\ TotalLength(Held) > 0
  BY <1>6, <1>7 DEF HeaderSize
<1>. QED  BY <1>2, <1>3, <1>9, <1>10

\* Bytes that are no whole message fall short of the client's next message.
LEMMA HeldIncomplete ==
  ASSUME IInv, Len(Held) < TotalLength(Held), Len(handled) < Len(ends)
  PROVE  /\ Len(handled) + 1 \in 1..Len(ends)
         /\ ends[Len(handled) + 1] \in Nat
         /\ read < ends[Len(handled) + 1]
         /\ ends[Len(handled) + 1] - Start <= BufferSize
<1>. DEFINE n == Len(handled) + 1
<1>1. n \in 1..Len(ends)
  BY StartFacts
<1>2. ends[n] \in Nat
  BY <1>1, ElementOfSeq DEF IInv, TypeOK
<1>3. /\ ends[n] = Start + HeaderSize + stream[Start + 2]
      /\ ends[n] - Start \in HeaderSize..BufferSize
  BY <1>1 DEF IInv, Cut, Start
<1>4. Start \in Nat /\ Len(Held) = read - Start /\ read \in Nat
  BY StartFacts
<1>5. ASSUME Len(Held) < HeaderSize
      PROVE  read < ends[n]
  BY <1>2, <1>3, <1>4, <1>5, BufferAssumption DEF HeaderSize
<1>6. ASSUME Len(Held) >= HeaderSize
      PROVE  read < ends[n]
  <2>1. Held[2] = stream[Start + 2]
    BY <1>6, StartFacts DEF HeaderSize
  <2>2. Start + 2 \in 1..Len(stream)
    BY <1>6, StartFacts DEF HeaderSize
  <2>3. stream[Start + 2] \in Nat
    BY <2>2, ElementOfSeq, ByteAssumption DEF IInv, TypeOK
  <2>4. TotalLength(Held) = stream[Start + 2] + HeaderSize
    BY <1>6, <2>1 DEF TotalLength
  <2>. QED  BY <1>2, <1>3, <1>4, <2>3, <2>4 DEF HeaderSize
<1>7. read < ends[n]
  BY <1>4, <1>5, <1>6 DEF HeaderSize
<1>8. ends[n] - Start <= BufferSize
  BY <1>2, <1>3, <1>4, BufferAssumption DEF HeaderSize
<1>. QED  BY <1>1, <1>2, <1>7, <1>8

-----------------------------------------------------------------------------

LEMMA InitIInv == Init => IInv
<1>. SUFFICES ASSUME Init PROVE IInv
  OBVIOUS
<1>. USE DEF Init
<1>2. Len(<<>>) = 0 /\ <<>> \in Seq(Byte) /\ <<>> \in Seq(Nat) /\ <<>> \in Seq(Seq(Byte))
  BY EmptySeq
<1>1. TypeOK
  <2>1. 0 <= BufferSize
    BY BufferAssumption
  <2>. QED  BY <1>2, <2>1 DEF TypeOK
<1>3. Cut /\ Ordered /\ HandledInOrder
  BY <1>2 DEF Cut, Ordered, HandledInOrder
<1>4. Filled /\ ReadBehind
  BY <1>2 DEF Filled, ReadBehind, StartOf
<1>5. InStep
  <2>1. SubSeq(<<>>, 1, 0) = <<>>
    BY SubSeqEmpty
  <2>. QED  BY <1>2, <2>1 DEF InStep, Held, StartOf
<1>6. Incomplete
  BY <1>2 DEF Incomplete, TotalLength, HeaderSize
<1>. QED  BY <1>1, <1>3, <1>4, <1>5, <1>6 DEF IInv

\* The client writes one more message: all that was there stays in place.
LEMMA SendIInv ==
  ASSUME IInv, NEW m \in Message, Send(m)
  PROVE  IInv'
<1>. DEFINE n == Len(ends)
<1>1. /\ stream' = stream \o m
      /\ ends' = Append(ends, Len(stream) + Len(m))
      /\ UNCHANGED <<read, buffer, handling, slice, handled>>
  BY DEF Send
<1>2. /\ m \in Seq(Byte) /\ Len(m) \in Nat /\ Len(m) \in HeaderSize..BufferSize
      /\ m[2] \in Nat /\ Len(m) = HeaderSize + m[2]
  BY MessageFacts
<1>3. TypeOK /\ n \in Nat /\ Len(stream) \in Nat
  BY StartFacts DEF IInv
<1>4. /\ stream' \in Seq(Byte)
      /\ Len(stream') = Len(stream) + Len(m)
      /\ \A i \in 1..Len(stream) : stream'[i] = stream[i]
      /\ \A i \in 1..Len(m) : stream'[Len(stream) + i] = m[i]
  <2>1. /\ stream' \in Seq(Byte)
        /\ Len(stream') = Len(stream) + Len(m)
        /\ \A i \in 1..(Len(stream) + Len(m)) :
             stream'[i] = IF i <= Len(stream) THEN stream[i] ELSE m[i - Len(stream)]
    BY <1>1, <1>2, <1>3, ConcatProperties DEF TypeOK
  <2>2. ASSUME NEW i \in 1..Len(stream)
        PROVE  stream'[i] = stream[i]
    <3>1. i \in 1..(Len(stream) + Len(m)) /\ i <= Len(stream)
      BY <1>2, <1>3
    <3>. QED  BY <2>1, <3>1
  <2>3. ASSUME NEW i \in 1..Len(m)
        PROVE  stream'[Len(stream) + i] = m[i]
    <3>1. Len(stream) + i \in 1..(Len(stream) + Len(m)) /\ ~(Len(stream) + i <= Len(stream))
      BY <1>2, <1>3
    <3>2. Len(stream) + i - Len(stream) = i
      BY <1>3
    <3>. QED  BY <2>1, <3>1, <3>2
  <2>. QED  BY <2>1, <2>2, <2>3
<1>5. /\ ends' \in Seq(Nat) /\ Len(ends') = n + 1
      /\ \A i \in 1..n : ends'[i] = ends[i]
      /\ ends'[n + 1] = Len(stream) + Len(m)
  BY <1>1, <1>2, <1>3, AppendProperties, Len(stream) + Len(m) \in Nat DEF TypeOK
<1>6. \A i \in 1..(n + 1) : StartOf(i)' = StartOf(i)
  BY <1>3, <1>5 DEF StartOf
<1>7. StartOf(n + 1) = Len(stream)
  BY DEF IInv, Filled
<1>8. \A i \in 1..n : ends[i] \in Nat /\ ends[i] <= Len(stream) /\ StartOf(i) \in Nat
  BY <1>3, ElementOfSeq DEF IInv, Cut, TypeOK
<1>9. TypeOK'
  BY <1>1, <1>3, <1>4, <1>5 DEF TypeOK
<1>10. Cut'
  <2>. SUFFICES ASSUME NEW i \in 1..(n + 1)
                PROVE  /\ StartOf(i) \in Nat
                       /\ ends'[i] <= Len(stream')
                       /\ ends'[i] - StartOf(i) \in HeaderSize..BufferSize
                       /\ ends'[i] = StartOf(i) + HeaderSize + stream'[StartOf(i) + 2]
    BY <1>5, <1>6 DEF Cut
  <2>1. CASE i = n + 1
    <3>1. 2 \in 1..Len(m)
      BY <1>2 DEF HeaderSize
    <3>2. stream'[Len(stream) + 2] = m[2]
      BY <1>4, <3>1
    <3>3. StartOf(i) = Len(stream) /\ ends'[i] = Len(stream) + Len(m)
      BY <2>1, <1>5, <1>7
    <3>4. ends'[i] - StartOf(i) = Len(m)
      BY <3>3, <1>2, <1>3
    <3>5. ends'[i] = StartOf(i) + HeaderSize + stream'[StartOf(i) + 2]
      BY <3>2, <3>3, <1>2, <1>3 DEF HeaderSize
    <3>. QED  BY <3>3, <3>4, <3>5, <1>2, <1>3, <1>4
  <2>2. CASE i \in 1..n
    <3>1. /\ StartOf(i) \in Nat /\ ends[i] <= Len(stream)
          /\ ends[i] - StartOf(i) \in HeaderSize..BufferSize
          /\ ends[i] = StartOf(i) + HeaderSize + stream[StartOf(i) + 2]
      BY <2>2 DEF IInv, Cut
    <3>2. ends[i] \in Nat
      BY <2>2, <1>8
    <3>3. StartOf(i) + 2 \in 1..Len(stream)
      BY <3>1, <3>2, <1>3, BufferAssumption DEF HeaderSize
    <3>4. stream'[StartOf(i) + 2] = stream[StartOf(i) + 2]
      BY <3>3, <1>4
    <3>5. ends'[i] = ends[i]
      BY <2>2, <1>5
    <3>6. ends[i] <= Len(stream')
      <4>1. Len(stream') = Len(stream) + Len(m)
        BY <1>4
      <4>. QED  BY ONLY <3>1, <3>2, <4>1, <1>2, <1>3
    <3>. QED  BY <3>1, <3>4, <3>5, <3>6
  <2>. QED  BY <2>1, <2>2, <1>3
<1>11. Ordered'
  <2>. SUFFICES ASSUME NEW i \in 1..(n + 1), NEW j \in 1..(n + 1), i <= j
                PROVE  ends'[i] <= ends'[j]
    BY <1>5 DEF Ordered
  <2>1. CASE j = n + 1
    <3>1. CASE i = n + 1
      BY <2>1, <3>1, <1>2, <1>3, <1>5
    <3>2. CASE i \in 1..n
      <4>1. ends[i] \in Nat /\ ends[i] <= Len(stream) /\ ends'[i] = ends[i]
        BY <3>2, <1>5, <1>8
      <4>. QED  BY <4>1, <2>1, <1>2, <1>3, <1>5
    <3>. QED  BY <3>1, <3>2, <1>3
  <2>2. CASE j \in 1..n
    <3>1. i \in 1..n
      BY <2>2, <1>3
    <3>. QED  BY <2>2, <3>1, <1>5 DEF IInv, Ordered
  <2>. QED  BY <2>1, <2>2, <1>3
<1>12. Filled'
  BY <1>3, <1>4, <1>5 DEF Filled, StartOf
<1>13. ReadBehind'
  BY <1>1, <1>2, <1>3, <1>4 DEF IInv, ReadBehind, TypeOK
<1>14. InStep'
  <2>1. /\ Len(handled) \in Nat /\ Len(handled) <= n /\ Start \in Nat
        /\ Start <= read /\ read \in Nat /\ read <= Len(stream)
        /\ Len(Held) \in Nat /\ Len(Held) = read - Start
        /\ Held = SubSeq(stream, Start + 1, read)
    BY StartFacts
  <2>2. Held' = Held /\ handled' = handled /\ read' = read
    BY <1>1 DEF Held
  <2>3. StartOf(Len(handled) + 1)' = Start
    BY <1>6, <2>1, <2>2, Len(handled) + 1 \in 1..(n + 1) DEF Start
  <2>4. SubSeq(stream \o m, Start + 1, read) = SubSeq(stream, Start + 1, read)
    <3>1. stream \in Seq(Byte)
      BY <1>3 DEF TypeOK
    <3>. QED  BY ONLY <1>2, <2>1, <3>1, PieceOfConcat
  <2>5. Start + Len(Held) = read
    BY <2>1
  <2>6. Len(handled)' <= Len(ends)'
    BY <2>1, <2>2, <1>3, <1>5
  <2>7. Held' = SubSeq(stream', Start + 1, read)
    BY <1>1, <2>1, <2>2, <2>4
  <2>. QED  BY <2>2, <2>3, <2>5, <2>6, <2>7 DEF InStep
<1>15. Incomplete'
  BY <1>1 DEF IInv, Incomplete, TotalLength
<1>16. HandledInOrder'
  <2>. SUFFICES ASSUME NEW i \in 1..Len(handled)
                PROVE  handled[i] = SubSeq(stream', StartOf(i)' + 1, ends'[i])
    BY <1>1 DEF HandledInOrder
  <2>1. i \in 1..n
    BY StartFacts
  <2>2. StartOf(i) \in Nat /\ ends[i] \in Nat /\ ends[i] <= Len(stream) /\ StartOf(i) <= ends[i]
    BY <2>1, <1>8, BufferAssumption DEF IInv, Cut, HeaderSize
  <2>3. SubSeq(stream \o m, StartOf(i) + 1, ends[i]) = SubSeq(stream, StartOf(i) + 1, ends[i])
    <3>1. stream \in Seq(Byte)
      BY <1>3 DEF TypeOK
    <3>. QED  BY ONLY <1>2, <2>2, <3>1, KeptBehind
  <2>4. StartOf(i)' = StartOf(i) /\ ends'[i] = ends[i]
    BY <2>1, <1>3, <1>5, <1>6
  <2>. QED  BY <1>1, <2>3, <2>4 DEF IInv, HandledInOrder
<1>. QED  BY <1>9, <1>10, <1>11, <1>12, <1>13, <1>14, <1>15, <1>16 DEF IInv

\* A read completes: what was kept and what came is one piece of the stream.
LEMMA ReadIInv ==
  ASSUME IInv, NEW numBytes \in 1..BufferSize, Read(numBytes)
  PROVE  IInv'
<1>1. /\ ~handling /\ numBytes <= ReadableDataSize /\ read + numBytes <= Len(stream)
      /\ slice' = buffer \o SubSeq(stream, read + 1, read + numBytes)
      /\ read' = read + numBytes
      /\ handling' = TRUE
      /\ UNCHANGED <<stream, ends, buffer, handled>>
  BY DEF Read
<1>2. TypeOK /\ stream \in Seq(Byte) /\ buffer \in Seq(Byte) /\ Held = buffer
  BY <1>1 DEF IInv, TypeOK, Held
<1>3. /\ Len(stream) \in Nat /\ Start \in Nat /\ read \in Nat /\ Start <= read
      /\ Len(handled) <= Len(ends) /\ Len(buffer) \in Nat
      /\ buffer = SubSeq(stream, Start + 1, read) /\ Len(buffer) = read - Start
  BY <1>2, StartFacts
<1>4. read + numBytes \in Nat /\ read <= read + numBytes
  BY <1>3, BufferAssumption
<1>5. slice' = SubSeq(stream, Start + 1, read + numBytes)
  <2>. DEFINE now == read + numBytes
  <2>1. now \in Nat /\ read <= now /\ now <= Len(stream)
    BY <1>1, <1>4
  <2>2. SubSeq(stream, Start + 1, read) \o SubSeq(stream, read + 1, now)
          = SubSeq(stream, Start + 1, now)
    <3>. HIDE DEF now
    <3>. QED  BY ONLY <1>2, <1>3, <2>1, Joined
  <2>. QED  BY ONLY <1>1, <1>3, <2>2, Zenon
<1>6. slice' \in Seq(Byte) /\ Len(slice') = read + numBytes - Start
  <2>1. Start <= read + numBytes
    BY <1>3, <1>4
  <2>. QED  BY <1>1, <1>2, <1>3, <1>4, <1>5, <2>1, Piece
<1>7. Len(slice') <= BufferSize
  BY <1>1, <1>3, <1>6, BufferAssumption DEF ReadableDataSize
<1>8. TypeOK'
  BY <1>1, <1>2, <1>4, <1>6, <1>7 DEF TypeOK
<1>9. Cut' /\ Ordered' /\ Filled' /\ HandledInOrder'
  BY <1>1 DEF IInv, Cut, Ordered, Filled, HandledInOrder, StartOf
<1>10. ReadBehind'
  BY <1>1 DEF ReadBehind
<1>11. InStep'
  <2>1. Held' = slice' /\ StartOf(Len(handled) + 1)' = Start
    BY <1>1 DEF Held, StartOf, Start
  <2>2. Start + Len(slice') = read'
    BY <1>1, <1>3, <1>4, <1>6
  <2>. QED  BY <1>1, <1>3, <1>5, <2>1, <2>2 DEF InStep
<1>12. Incomplete'
  BY <1>1 DEF Incomplete
<1>. QED  BY <1>8, <1>9, <1>10, <1>11, <1>12 DEF IInv

\* What one iteration of the loop does: it handles the client's next message.
LEMMA DispatchFacts ==
  ASSUME IInv, Dispatch
  PROVE  /\ Len(handled) + 1 \in 1..Len(ends)
         /\ ends[Len(handled) + 1] \in Nat
         /\ Start <= ends[Len(handled) + 1] /\ ends[Len(handled) + 1] <= read
         /\ handled' = Append(handled, SubSeq(stream, Start + 1, ends[Len(handled) + 1]))
         /\ slice' = SubSeq(stream, ends[Len(handled) + 1] + 1, read)
<1>. DEFINE e == ends[Len(handled) + 1]
            total == TotalLength(slice)
<1>1. handling /\ Held = slice /\ Len(slice) >= total
  BY DEF Dispatch, HasMessage, Held
<1>2. /\ Len(handled) + 1 \in 1..Len(ends) /\ e \in Nat
      /\ total = e - Start /\ total \in Nat /\ total > 0
  BY <1>1, HeldMessage
<1>3. /\ Start \in Nat /\ read \in Nat /\ Start <= read /\ read <= Len(stream)
      /\ Len(stream) \in Nat /\ Len(slice) = read - Start
      /\ slice = SubSeq(stream, Start + 1, read) /\ stream \in Seq(Byte)
  BY <1>1, StartFacts DEF IInv, TypeOK
<1>4. Start <= e /\ e <= read /\ total <= read - Start
  BY <1>1, <1>2, <1>3
<1>5. SubSeq(slice, 1, total) = SubSeq(stream, Start + 1, e)
  <2>1. SubSeq(SubSeq(stream, Start + 1, read), 0 + 1, total)
          = SubSeq(stream, Start + 0 + 1, Start + total)
    <3>. HIDE DEF total
    <3>. QED  BY <1>2, <1>3, <1>4, PieceOfPiece
  <2>2. Start + 0 + 1 = Start + 1 /\ 0 + 1 = 1 /\ Start + total = e
    BY <1>2, <1>3
  <2>. QED  BY <1>3, <2>1, <2>2
<1>6. SubSeq(slice, total + 1, Len(slice)) = SubSeq(stream, e + 1, read)
  <2>1. SubSeq(SubSeq(stream, Start + 1, read), total + 1, read - Start)
          = SubSeq(stream, Start + total + 1, Start + (read - Start))
    <3>. DEFINE j == read - Start
    <3>1. j \in Nat /\ total <= j /\ j <= read - Start
      BY <1>2, <1>3, <1>4
    <3>2. total \in Nat
      BY <1>2
    <3>. HIDE DEF total, j
    <3>3. SubSeq(SubSeq(stream, Start + 1, read), total + 1, j)
            = SubSeq(stream, Start + total + 1, Start + j)
      BY ONLY <3>1, <3>2, <1>3, PieceOfPiece
    <3>. QED  BY <3>3 DEF j
  <2>2. Start + total = e /\ Start + (read - Start) = read
    BY <1>2, <1>3
  <2>. QED  BY <1>3, <2>1, <2>2
<1>. QED  BY <1>2, <1>4, <1>5, <1>6 DEF Dispatch

LEMMA DispatchIInv ==
  ASSUME IInv, Dispatch
  PROVE  IInv'
<1>. DEFINE n == Len(handled) + 1
            e == ends[n]
<1>1. /\ n \in 1..Len(ends) /\ e \in Nat /\ Start <= e /\ e <= read
      /\ handled' = Append(handled, SubSeq(stream, Start + 1, e))
      /\ slice' = SubSeq(stream, e + 1, read)
  BY DispatchFacts
<1>2. handling /\ UNCHANGED <<stream, ends, read, buffer, handling>>
  BY DEF Dispatch
<1>3. /\ stream \in Seq(Byte) /\ Len(stream) \in Nat /\ Len(ends) \in Nat
      /\ Len(handled) \in Nat /\ handled \in Seq(Seq(Byte))
      /\ Start \in Nat /\ read \in Nat /\ read <= Len(stream)
      /\ Len(slice) = read - Start /\ Len(slice) <= BufferSize
  BY <1>2, StartFacts DEF IInv, TypeOK, Held
<1>4. SubSeq(stream, Start + 1, e) \in Seq(Byte)
  BY <1>1, <1>3, Piece
<1>5. /\ handled' \in Seq(Seq(Byte)) /\ Len(handled') = n
      /\ \A i \in 1..Len(handled) : handled'[i] = handled[i]
      /\ handled'[n] = SubSeq(stream, Start + 1, e)
  BY <1>1, <1>3, <1>4, AppendProperties
<1>6. slice' \in Seq(Byte) /\ Len(slice') = read - e
  BY ONLY <1>1, <1>3, CutOut
<1>7. TypeOK'
  <2>1. Len(slice') <= BufferSize
    BY <1>1, <1>3, <1>6, BufferAssumption
  <2>. QED  BY <1>2, <1>5, <1>6, <2>1 DEF IInv, TypeOK
<1>8. Cut' /\ Ordered' /\ Filled' /\ ReadBehind' /\ Incomplete'
  BY <1>2 DEF IInv, Cut, Ordered, Filled, ReadBehind, Incomplete, StartOf
<1>9. InStep'
  <2>1. StartOf(Len(handled) + 1)' = e
    BY <1>1, <1>2, <1>3, <1>5 DEF StartOf
  <2>2. Held' = slice'
    BY <1>2 DEF Held
  <2>3. e + Len(slice') = read
    BY <1>1, <1>3, <1>6
  <2>4. Len(handled)' <= Len(ends)'
    BY <1>1, <1>2, <1>3, <1>5
  <2>. QED  BY <1>1, <1>2, <2>1, <2>2, <2>3, <2>4 DEF InStep
<1>10. HandledInOrder'
  <2>. SUFFICES ASSUME NEW i \in 1..n
                PROVE  handled'[i] = SubSeq(stream, StartOf(i) + 1, ends[i])
    BY <1>2, <1>5 DEF HandledInOrder, StartOf
  <2>1. CASE i = n
    BY <2>1, <1>5 DEF Start
  <2>2. CASE i \in 1..Len(handled)
    BY <2>2, <1>5 DEF IInv, HandledInOrder
  <2>. QED  BY <2>1, <2>2, <1>3
<1>. QED  BY <1>7, <1>8, <1>9, <1>10 DEF IInv

LEMMA FinishIInv ==
  ASSUME IInv, Finish
  PROVE  IInv'
<1>1. /\ handling /\ ~(Len(slice) >= TotalLength(slice))
      /\ buffer' = slice /\ slice' = <<>> /\ handling' = FALSE
      /\ UNCHANGED <<stream, ends, read, handled>>
  BY DEF Finish, HasMessage
<1>2. Held = slice /\ Held' = buffer'
  BY <1>1 DEF Held
<1>3. TypeOK'
  <2>1. slice' \in Seq(Byte) /\ Len(slice') <= BufferSize
    BY <1>1, EmptySeq, BufferAssumption
  <2>2. handling' \in BOOLEAN
    BY <1>1
  <2>. QED  BY <1>1, <2>1, <2>2 DEF IInv, TypeOK
<1>4. Cut' /\ Ordered' /\ Filled' /\ ReadBehind' /\ HandledInOrder'
  BY <1>1 DEF IInv, Cut, Ordered, Filled, ReadBehind, HandledInOrder, StartOf
<1>5. InStep'
  BY <1>1, <1>2 DEF IInv, InStep, StartOf
<1>6. Incomplete'
  <2>1. slice \in Seq(Byte) /\ Len(slice) \in Nat
    BY LenProperties DEF IInv, TypeOK
  <2>2. TotalLength(slice) \in Nat
    <3>1. CASE Len(slice) >= HeaderSize
      <4>1. 2 \in 1..Len(slice)
        BY <3>1, <2>1 DEF HeaderSize
      <4>2. slice[2] \in Nat
        BY <4>1, <2>1, ElementOfSeq, ByteAssumption
      <4>. QED  BY <3>1, <4>2 DEF TotalLength, HeaderSize
    <3>2. CASE ~(Len(slice) >= HeaderSize)
      BY <3>2 DEF TotalLength, HeaderSize
    <3>. QED  BY <3>1, <3>2
  <2>3. Len(slice) < TotalLength(slice)
    BY <1>1, <2>1, <2>2
  <2>. QED  BY <1>1, <2>3 DEF Incomplete, TotalLength
<1>. QED  BY <1>3, <1>4, <1>5, <1>6 DEF IInv

LEMMA StutterIInv ==
  ASSUME IInv, UNCHANGED vars
  PROVE  IInv'
BY DEF IInv, vars, TypeOK, Cut, Ordered, Filled, ReadBehind, InStep, Incomplete,
       HandledInOrder, StartOf, Held, TotalLength

\* Every step keeps the invariant.
LEMMA NextIInv == IInv /\ [Next]_vars => IInv'
<1>. SUFFICES ASSUME IInv, [Next]_vars PROVE IInv'
  OBVIOUS
<1>1. CASE \E m \in Message : Send(m)
  BY <1>1, SendIInv
<1>2. CASE \E numBytes \in 1..BufferSize : Read(numBytes)
  BY <1>2, ReadIInv
<1>3. CASE Dispatch
  BY <1>3, DispatchIInv
<1>4. CASE Finish
  BY <1>4, FinishIInv
<1>5. CASE UNCHANGED vars
  BY <1>5, StutterIInv
<1>. QED  BY <1>1, <1>2, <1>3, <1>4, <1>5 DEF Next

LEMMA Invariance == Spec => []IInv
<1>. QED  BY InitIInv, NextIInv, PTL DEF Spec

-----------------------------------------------------------------------------
(* What follows from the invariant.                                        *)

\* The bytes kept and the bytes looked at always fit the vector _buffer.
THEOREM TypeCorrect == Spec => []TypeOK
<1>1. IInv => TypeOK
  BY DEF IInv
<1>. QED  BY <1>1, Invariance, PTL

\* handleMessages always cuts the stream where the client's messages start.
THEOREM StaysInStep == Spec => []InStep
<1>1. IInv => InStep
  BY DEF IInv
<1>. QED  BY <1>1, Invariance, PTL

\* doRead never starts a read that has no room for a byte.
THEOREM AlwaysRoomToRead == Spec => []RoomToRead
<1>1. IInv => RoomToRead
  <2>. SUFFICES ASSUME IInv, ~handling PROVE ReadableDataSize > 0
    BY DEF RoomToRead
  <2>1. Held = buffer /\ Len(Held) < TotalLength(Held)
    BY DEF IInv, Incomplete, Held
  <2>2. Len(Held) \in Nat /\ Start \in Nat /\ read \in Nat /\ Len(Held) = read - Start
    BY StartFacts
  <2>3. CASE Len(handled) = Len(ends)
    BY <2>1, <2>2, <2>3, StartFacts, BufferAssumption DEF ReadableDataSize
  <2>4. CASE Len(handled) < Len(ends)
    <3>1. /\ ends[Len(handled) + 1] \in Nat
          /\ read < ends[Len(handled) + 1]
          /\ ends[Len(handled) + 1] - Start <= BufferSize
      BY <2>1, <2>4, HeldIncomplete
    <3>2. Len(buffer) < BufferSize
      BY <2>1, <2>2, <3>1, BufferAssumption
    <3>. QED  BY <2>1, <2>2, <3>2, BufferAssumption DEF ReadableDataSize
  <2>5. Len(handled) \in Nat /\ Len(ends) \in Nat /\ Len(handled) <= Len(ends)
    BY StartFacts
  <2>. QED  BY <2>3, <2>4, <2>5
<1>. QED  BY <1>1, Invariance, PTL

\* handleMessages returns only when it has handled every message that has
\* been read to its end.
THEOREM WithholdsNothing == Spec => []NothingWithheld
<1>1. IInv => NothingWithheld
  <2>. SUFFICES ASSUME IInv, ~handling, NEW i \in 1..Len(ends), ends[i] <= read
                PROVE  i <= Len(handled)
    BY DEF NothingWithheld
  <2>1. Len(Held) < TotalLength(Held)
    BY DEF IInv, Incomplete, Held
  <2>2. Len(handled) \in Nat /\ Len(ends) \in Nat /\ read \in Nat
    BY StartFacts
  <2>3. SUFFICES ASSUME i > Len(handled) PROVE FALSE
    BY <2>2
  <2>4. Len(handled) < Len(ends) /\ Len(handled) + 1 <= i
    BY <2>2, <2>3
  <2>5. /\ Len(handled) + 1 \in 1..Len(ends)
        /\ ends[Len(handled) + 1] \in Nat
        /\ read < ends[Len(handled) + 1]
    BY <2>1, <2>4, HeldIncomplete
  <2>6. ends[Len(handled) + 1] <= ends[i]
    BY <2>4, <2>5 DEF IInv, Ordered
  <2>7. ends[i] \in Nat
    BY ElementOfSeq DEF IInv, TypeOK
  <2>. QED  BY <2>2, <2>5, <2>6, <2>7
<1>. QED  BY <1>1, Invariance, PTL

-----------------------------------------------------------------------------
(* The refinement of Channel.                                              *)

\* The messages the client has written are sequences of bytes.
SentTyped ==
  /\ SentMessages \in Seq(Seq(Byte))
  /\ Len(SentMessages) = Len(ends)
  /\ Len(ends) \in Nat
  /\ \A i \in 1..Len(ends) :
       SentMessages[i] = SubSeq(stream, StartOf(i) + 1, ends[i])

LEMMA SentFacts == IInv => SentTyped
<1>. SUFFICES ASSUME IInv PROVE SentTyped
  OBVIOUS
<1>1. Len(ends) \in Nat /\ stream \in Seq(Byte)
  BY StartFacts DEF IInv, TypeOK
<1>2. ASSUME NEW i \in 1..Len(ends)
      PROVE  SubSeq(stream, StartOf(i) + 1, ends[i]) \in Seq(Byte)
  <2>1. ends[i] \in Nat
    BY ElementOfSeq DEF IInv, TypeOK
  <2>2. /\ StartOf(i) \in Nat /\ ends[i] <= Len(stream)
        /\ ends[i] - StartOf(i) \in HeaderSize..BufferSize
    BY DEF IInv, Cut
  <2>3. StartOf(i) <= ends[i]
    BY <2>1, <2>2, BufferAssumption DEF HeaderSize
  <2>. QED  BY <1>1, <2>1, <2>2, <2>3, Piece
<1>3. SentMessages \in [1..Len(ends) -> Seq(Byte)]
  BY <1>2 DEF SentMessages
<1>4. SentMessages \in Seq(Seq(Byte)) /\ Len(SentMessages) = Len(ends)
  <2>1. SentMessages \in Seq(Seq(Byte))
    BY <1>1, <1>3, SeqDef
  <2>2. DOMAIN SentMessages = 1..Len(ends) /\ DOMAIN SentMessages = 1..Len(SentMessages)
    BY <1>3, <2>1, LenProperties
  <2>3. Len(SentMessages) \in Nat
    BY <2>1, LenProperties
  <2>. QED  BY <1>1, <2>1, <2>2, <2>3
<1>. QED  BY <1>1, <1>4 DEF SentMessages, SentTyped

LEMMA SentFactsNext == IInv' => SentTyped'
BY SentFacts, PTL

\* A message the client writes is sent on the channel.
LEMMA SendRefines ==
  ASSUME IInv, IInv', NEW m \in Message, Send(m)
  PROVE  Ch!Send(m)
<1>. DEFINE n == Len(ends)
            abstract == Append(SentMessages, m)
<1>1. /\ stream' = stream \o m /\ ends' = Append(ends, Len(stream) + Len(m))
      /\ handled' = handled
  BY DEF Send
<1>2. /\ m \in Seq(Byte) /\ Len(m) \in Nat /\ stream \in Seq(Byte) /\ ends \in Seq(Nat)
      /\ n \in Nat /\ Len(stream) \in Nat
  BY MessageFacts, StartFacts DEF IInv, TypeOK
<1>3. /\ Len(ends') = n + 1 /\ ends'[n + 1] = Len(stream) + Len(m)
      /\ \A i \in 1..n : ends'[i] = ends[i]
  BY <1>1, <1>2, AppendProperties, Len(stream) + Len(m) \in Nat
<1>4. /\ SentMessages \in Seq(Seq(Byte)) /\ Len(SentMessages) = n
      /\ \A i \in 1..n : SentMessages[i] = SubSeq(stream, StartOf(i) + 1, ends[i])
  BY SentFacts DEF SentTyped
<1>5. /\ SentMessages' \in Seq(Seq(Byte)) /\ Len(SentMessages') = n + 1
      /\ \A i \in 1..(n + 1) : SentMessages'[i] = SubSeq(stream', StartOf(i)' + 1, ends'[i])
  <2>1. /\ SentMessages' \in Seq(Seq(Byte)) /\ Len(SentMessages') = Len(ends')
        /\ \A i \in 1..Len(ends') :
             SentMessages'[i] = SubSeq(stream', StartOf(i)' + 1, ends'[i])
    BY SentFactsNext DEF SentTyped
  <2>. QED  BY <2>1, <1>3
<1>6. /\ abstract \in Seq(Seq(Byte)) /\ Len(abstract) = n + 1 /\ abstract[n + 1] = m
      /\ \A i \in 1..n : abstract[i] = SentMessages[i]
  BY <1>2, <1>4, AppendProperties
<1>7. ASSUME NEW i \in 1..(n + 1)
      PROVE  SentMessages'[i] = abstract[i]
  <2>1. CASE i = n + 1
    <3>1. StartOf(i)' = Len(stream)
      <4>1. StartOf(n + 1) = Len(stream)
        BY DEF IInv, Filled
      <4>. QED  BY <4>1, <2>1, <1>2, <1>3 DEF StartOf
    <3>2. SubSeq(stream \o m, Len(stream) + 1, Len(stream) + Len(m)) = m
      BY <1>2, PieceAppended
    <3>. QED  BY <1>1, <1>3, <1>5, <1>6, <2>1, <3>1, <3>2
  <2>2. CASE i \in 1..n
    <3>1. ends[i] \in Nat
      BY <2>2, <1>2, ElementOfSeq
    <3>2. /\ StartOf(i) \in Nat /\ ends[i] <= Len(stream)
          /\ ends[i] - StartOf(i) \in HeaderSize..BufferSize
      BY <2>2 DEF IInv, Cut
    <3>3. StartOf(i) <= ends[i]
      BY <3>1, <3>2, BufferAssumption DEF HeaderSize
    <3>4. SubSeq(stream \o m, StartOf(i) + 1, ends[i]) = SubSeq(stream, StartOf(i) + 1, ends[i])
      BY ONLY <1>2, <3>1, <3>2, <3>3, KeptBehind
    <3>5. StartOf(i)' = StartOf(i)
      BY <2>2, <1>2, <1>3 DEF StartOf
    <3>6. i \in 1..(n + 1) /\ ends'[i] = ends[i]
      BY <2>2, <1>2, <1>3
    <3>7. SentMessages'[i] = SubSeq(stream', StartOf(i)' + 1, ends'[i])
      BY <1>5, <3>6
    <3>8. abstract[i] = SubSeq(stream, StartOf(i) + 1, ends[i])
      BY <1>4, <1>6, <2>2
    <3>. QED  BY <1>1, <3>4, <3>5, <3>6, <3>7, <3>8
  <2>3. i = n + 1 \/ i \in 1..n
    BY <1>2
  <2>. QED  BY <2>1, <2>2, <2>3
<1>8. SentMessages' = abstract
  <2>. HIDE DEF abstract
  <2>. QED  BY <1>5, <1>6, <1>7, SeqEqual
<1>. QED  BY <1>1, <1>8 DEF Ch!Send

\* A message dispatched is the next one of the channel.
LEMMA DispatchRefines ==
  ASSUME IInv, Dispatch
  PROVE  Ch!Handle
<1>1. /\ Len(handled) + 1 \in 1..Len(ends)
      /\ handled' = Append(handled, SubSeq(stream, Start + 1, ends[Len(handled) + 1]))
  BY DispatchFacts
<1>2. SentMessages' = SentMessages
  BY DEF Dispatch, SentMessages, StartOf
<1>3. Len(SentMessages) = Len(ends) /\ Len(ends) \in Nat /\ Len(handled) \in Nat
  BY SentFacts, StartFacts DEF SentTyped
<1>4. SentMessages[Len(handled) + 1] = SubSeq(stream, Start + 1, ends[Len(handled) + 1])
  BY <1>1, SentFacts DEF Start, SentTyped
<1>. QED  BY <1>1, <1>2, <1>3, <1>4 DEF Ch!Handle

\* Whatever pieces the bytes arrive in, the server handles the messages the
\* client wrote, whole, once and in order.
THEOREM Refinement == Spec => ImplementsChannel
<1>1. Init => Ch!Init
  <2>. SUFFICES ASSUME Init PROVE SentMessages = <<>> /\ handled = <<>>
    BY DEF Ch!Init
  <2>1. IInv /\ Len(ends) = 0
    BY InitIInv, EmptySeq DEF Init
  <2>2. SentMessages \in Seq(Seq(Byte)) /\ Len(SentMessages) = 0
    BY <2>1, SentFacts DEF SentTyped
  <2>. QED  BY <2>2, EmptySeq DEF Init
<1>2. IInv /\ IInv' /\ [Next]_vars => [Ch!Next]_(Ch!vars)
  <2>. SUFFICES ASSUME IInv, IInv', [Next]_vars PROVE [Ch!Next]_(Ch!vars)
    OBVIOUS
  <2>1. CASE \E m \in Message : Send(m)
    BY <2>1, SendRefines DEF Ch!Next
  <2>2. CASE \E numBytes \in 1..BufferSize : Read(numBytes)
    BY <2>2 DEF Read, SentMessages, StartOf, Ch!vars
  <2>3. CASE Dispatch
    BY <2>3, DispatchRefines DEF Ch!Next
  <2>4. CASE Finish
    BY <2>4 DEF Finish, SentMessages, StartOf, Ch!vars
  <2>5. CASE UNCHANGED vars
    BY <2>5 DEF vars, SentMessages, StartOf, Ch!vars
  <2>. QED  BY <2>1, <2>2, <2>3, <2>4, <2>5 DEF Next
<1>. QED  BY <1>1, <1>2, Invariance, PTL DEF Spec, ImplementsChannel, Ch!Spec
=============================================================================
