--------------------------- MODULE CerealSession ---------------------------
(***************************************************************************)
(* Some fields are written with one Cerealiser, then read from its bytes   *)
(* with one Decerealiser, as the library's tests do: each with the width   *)
(* it was written with, and from the start again after a reset.            *)
(***************************************************************************)
EXTENDS Cereal, SequencesExt

CONSTANTS
  Field,     \* the fields to write: a value and its width, or a whole byte
  MaxFields  \* bound: fields in one session

IsField(f) ==
  /\ f.bits \in 1..MaxBits /\ f.value \in 0..(2^f.bits - 1)
  /\ f.whole \in BOOLEAN /\ (f.whole => f.bits = BitsInByte)

ASSUME FieldAssumption == \A f \in Field : IsField(f)
ASSUME MaxFieldsAssumption == MaxFields \in Nat

VARIABLES
  writer,
  written,  \* the fields given to the writer
  reading,  \* the bytes have been taken over by ...
  reader,   \* ... the reader
  got       \* the values it has read since the start

sessionVars == <<writer, written, reading, reader, got>>

\* The bits of the current byte that are not written yet are zero: |= adds to
\* them and changes no others.
SessionTypeOK ==
  /\ writer.bytes \in Seq(Byte) /\ writer.currentByte \in Byte
  /\ writer.bitIndex \in 0..BitsInByte
  /\ writer.currentByte % 2^(BitsInByte - writer.bitIndex) = 0
  /\ written \in Seq(Field) /\ Len(written) <= MaxFields
  /\ reading \in BOOLEAN
  /\ reader.iterator \in 1..(Len(reader.bytes) + 1)
  /\ reader.bitIndex \in 0..BitsInByte
  /\ got \in Seq(Nat) /\ Len(got) <= Len(written)

SessionInit ==
  /\ writer = EmptyWriter
  /\ written = <<>>
  /\ reading = FALSE
  /\ reader = Reader(<<>>)
  /\ got = <<>>

\* The bits of a number, and those of a sequence of numbers one after another.
Bits(value, n) == [i \in 1..n |-> (value \div 2^(n - i)) % 2]
BitsOf(fields) ==
  FlattenSeq([i \in 1..Len(fields) |-> Bits(fields[i].value, fields[i].bits)])
BitsOfBytes(bytes) ==
  FlattenSeq([i \in 1..Len(bytes) |-> Bits(bytes[i], BitsInByte)])

\* How many bits the first n fields have.
Width(n) == Len(BitsOf(SubSeq(written, 1, n)))

\* grainBits, or grain of a byte; whole bytes come at the start of a byte.
WriteField(f) ==
  /\ ~reading
  /\ Len(written) < MaxFields
  /\ f.whole => Width(Len(written)) % BitsInByte = 0
  /\ writer' = IF f.whole THEN WriteByte(writer, f.value)
                          ELSE WriteBits(writer, f.value, f.bits)
  /\ written' = Append(written, f)
  /\ UNCHANGED <<reading, reader, got>>

\* Decerealiser cereal(cerealiser.getBytes())
StartReading ==
  /\ ~reading
  /\ reading' = TRUE
  /\ reader' = Reader(writer.bytes)
  /\ UNCHANGED <<writer, written, got>>

\* The bits ahead of the reader.
Ahead ==
  BitsInByte * BytesLeft(reader)
    + IF reader.bitIndex = 0 THEN 0 ELSE BitsInByte - reader.bitIndex

\* The next field, when it has been written in full.
ReadField ==
  /\ reading /\ Len(got) < Len(written)
  /\ LET f == written[Len(got) + 1]
         r == IF f.whole THEN ReadByte(reader) ELSE ReadBits(reader, f.bits)
     IN  /\ f.bits <= Ahead
         /\ got' = Append(got, r.value)
         /\ reader' = r.reader
  /\ UNCHANGED <<writer, written, reading>>

ReadAgain ==
  /\ reading
  /\ reader' = Reset(reader)
  /\ got' = <<>>
  /\ UNCHANGED <<writer, written, reading>>

SessionNext ==
  \/ \E f \in Field : WriteField(f)
  \/ StartReading
  \/ ReadField
  \/ ReadAgain

SessionSpec == SessionInit /\ [][SessionNext]_sessionVars

-----------------------------------------------------------------------------

\* The reader gives every bit of the bytes once and in order, however the
\* fields lie across the bytes and however often it starts again.
ReadsInOrder ==
  LET values == [i \in 1..Len(got) |->
                   [value |-> got[i], bits |-> written[i].bits]]
  IN  IsPrefix(BitsOf(values), BitsOfBytes(reader.bytes))

\* Some bits were written after a field of bits had filled a byte exactly.
WrittenPastFullByte ==
  \E i, j \in 1..Len(written) :
    /\ i < j /\ ~written[i].whole /\ ~written[j].whole
    /\ Width(i) % BitsInByte = 0

\* Until then the writer's bytes are the bits it was given, in order, but for
\* those of an incomplete last byte.
WritesInOrder ==
  ~WrittenPastFullByte =>
    /\ IsPrefix(BitsOfBytes(writer.bytes), BitsOf(written))
    /\ Width(Len(written)) - BitsInByte * Len(writer.bytes) \in 0..(BitsInByte - 1)

\* Until then every field is read back as the number that was written, whether
\* it lies in one byte, in two or in three: what is left of the last byte, which
\* the reader never sees, takes no bit of a field that can be read.
ReadBack ==
  ~WrittenPastFullByte => \A i \in 1..Len(got) : got[i] = written[i].value

\* What is read is what was written, as long as that is whole bytes.
RoundTrip ==
  Width(Len(written)) % BitsInByte = 0 =>
    \A i \in 1..Len(got) : got[i] = written[i].value
=============================================================================
