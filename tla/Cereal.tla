------------------------------- MODULE Cereal -------------------------------
(***************************************************************************)
(* The serialisation library: a Cerealiser packs bit fields and bytes into *)
(* a vector, a Decerealiser takes them out again.  A writer and a reader   *)
(* are records of the class's members, and an operation is an operator     *)
(* from the record before to the record after; one that reads also says    *)
(* which value it read.                                                    *)
(*                                                                         *)
(* Fields are at most nine bits wide, as all are in the repository, and a  *)
(* value fits its field.                                                   *)
(***************************************************************************)
EXTENDS Integers, Sequences

BitsInByte == 8
MaxBits == 9
Byte == 0..255

\* Bit i of a number, and the bits of one byte or another.
Bit(x, i) == (x \div 2^i) % 2

a | b ==
  LET either(i) == IF Bit(a, i) = 1 \/ Bit(b, i) = 1 THEN 2^i ELSE 0
  IN  either(0) + either(1) + either(2) + either(3)
        + either(4) + either(5) + either(6) + either(7)

-----------------------------------------------------------------------------
(* Cerealiser                                                              *)

Writer == [bytes : Seq(Byte), currentByte : Byte, bitIndex : 0..BitsInByte]

EmptyWriter == [bytes |-> <<>>, currentByte |-> 0, bitIndex |-> 0]

\* grainByte looks at no bits that wait to be written.
WriteByte(w, val) == [w EXCEPT !.bytes = Append(@, val)]

\* (Mutant: the byte written stays the current one.)
FilledKeepsByte(w, thisByteValue) ==
  LET byte == w.currentByte | thisByteValue
  IN  [bytes |-> Append(w.bytes, byte), currentByte |-> byte, bitIndex |-> 0]

\* The current byte is completed and written.
Filled(w, thisByteValue) ==
  [bytes |-> Append(w.bytes, w.currentByte | thisByteValue),
   currentByte |-> 0,
   bitIndex |-> 0]

\* (Mutant: the mask is one bit too narrow.)
CarriedNarrow(value, remainingBits) ==
  IF remainingBits > BitsInByte THEN 0 ELSE value % 2^(remainingBits - 1)

\* The bits of value that do not fit the current byte.  A field of nine bits
\* behind a full byte carries all of them over, for which the code shifts by -1:
\* that is undefined; with the shift by 31 that x86 makes of it nothing is left.
Carried(value, remainingBits) ==
  IF remainingBits > BitsInByte THEN 0 ELSE value % 2^remainingBits

\* (Mutant: the bits that are there already are not counted.)
PendingAtStart(w, value, bits) ==
  [w EXCEPT !.currentByte = @ | (value * 2^(BitsInByte - bits)),
            !.bitIndex = @ + bits]

\* _currentByte |= value << ..., _bitIndex += bits
Pending(w, value, bits) ==
  [w EXCEPT !.currentByte = @ | (value * 2^(BitsInByte - bits - w.bitIndex)),
            !.bitIndex = @ + bits]

\* A field that fills the byte exactly leaves nothing to carry over, and the
\* code goes on as if it had yet to be written.
WriteBits(w, value, bits) ==
  LET writeBits[c \in [writer : Writer, value : Nat, bits : 1..MaxBits]] ==
        LET remainingBits == c.writer.bitIndex + c.bits - BitsInByte
            filled == Filled(c.writer, c.value \div 2^remainingBits)
        IN  IF remainingBits < 0 THEN Pending(c.writer, c.value, c.bits)
            ELSE IF remainingBits = 0 THEN Pending(filled, c.value, c.bits)
            ELSE writeBits[[writer |-> filled,
                            value  |-> Carried(c.value, remainingBits),
                            bits   |-> remainingBits]]
  IN  writeBits[[writer |-> w, value |-> value, bits |-> bits]]

WriteShort(w, val) == WriteByte(WriteByte(w, val \div 256), val % 256)

WriteBytes(w, vals) == [w EXCEPT !.bytes = @ \o vals]

\* A string is its characters behind their number.
WriteString(w, chars) == WriteBytes(WriteShort(w, Len(chars)), chars)

-----------------------------------------------------------------------------
(* Decerealiser                                                            *)

ReaderState ==
  [bytes : Seq(Byte), iterator : Nat \ {0}, currentByte : Byte, bitIndex : 0..BitsInByte]

Reader(bytes) ==
  [bytes |-> bytes, iterator |-> 1, currentByte |-> 0, bitIndex |-> 0]

BytesLeft(r) == Len(r.bytes) + 1 - r.iterator

\* Nothing stops a reader at the end of its bytes.  What lies behind them is
\* undefined, and no module here reads that far; it is taken to be zeros.
ByteAt(r, i) == IF i <= Len(r.bytes) THEN r.bytes[i] ELSE 0

ReadByte(r) ==
  [value |-> ByteAt(r, r.iterator), reader |-> [r EXCEPT !.iterator = @ + 1]]

\* The next byte becomes the current one.
Loaded(r) ==
  [r EXCEPT !.currentByte = ByteAt(r, r.iterator), !.iterator = @ + 1, !.bitIndex = 0]

ReadBitsHelper(r, bits) ==
  LET readBitsHelper[c \in [reader : ReaderState, bits : 0..MaxBits]] ==
        LET bitIndex == c.reader.bitIndex + c.bits
            shift == c.reader.currentByte \div 2^(BitsInByte - bitIndex)
            bits1stTime == BitsInByte - c.reader.bitIndex
            bits2ndTime == bitIndex - BitsInByte
            first == readBitsHelper[[reader |-> c.reader, bits |-> bits1stTime]]
            second == readBitsHelper[[reader |-> Loaded(first.reader), bits |-> bits2ndTime]]
        IN  IF bitIndex > BitsInByte
            THEN [value  |-> first.value * 2^bits2ndTime + second.value,
                  reader |-> second.reader]
            ELSE [value  |-> shift % 2^c.bits,
                  reader |-> [c.reader EXCEPT !.bitIndex = bitIndex]]
  IN  readBitsHelper[[reader |-> r, bits |-> bits]]

\* A byte that is used up stays the current one until more bits are wanted.
ReadBits(r, bits) ==
  ReadBitsHelper(IF r.bitIndex = 0 THEN Loaded(r) ELSE r, bits)

ReadShort(r) ==
  LET high == ReadByte(r)
      low == ReadByte(high.reader)
  IN  [value |-> high.value * 256 + low.value, reader |-> low.reader]

ReadBytes(r, num) ==
  [value |-> [i \in 1..num |-> ByteAt(r, r.iterator + i - 1)],
   reader |-> [r EXCEPT !.iterator = @ + num]]

ReadString(r) ==
  LET num == ReadShort(r) IN ReadBytes(num.reader, num.value)

\* (A mutant: one member is forgotten.)
ResetKeepsIndex(r) == [r EXCEPT !.currentByte = 0, !.iterator = 1]

Reset(r) == [r EXCEPT !.currentByte = 0, !.iterator = 1, !.bitIndex = 0]
=============================================================================
