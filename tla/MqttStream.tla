----------------------------- MODULE MqttStream -----------------------------
(***************************************************************************)
(* MqttStream and the read that feeds it: bytes arrive in pieces of any    *)
(* size behind those already buffered, handleMessages hands every complete *)
(* message to the server and moves the rest to the front of the buffer.    *)
(*                                                                         *)
(* A message is its bytes.  Its second byte is the number of bytes after   *)
(* the fixed header: remainingLength "cheats" and reads no other byte of   *)
(* the length, so the model holds for messages with fewer than 128 bytes   *)
(* after the header and says nothing of longer ones.                       *)
(***************************************************************************)
EXTENDS Naturals, Sequences

CONSTANTS
  Byte,
  Message,     \* the messages the client may write
  BufferSize,  \* the size the stream is made with
  MaxSent      \* bound: messages the client writes

HeaderSize == 2  \* MqttFixedHeader::SIZE

\* A whole message, that fits the buffer.
IsMessage(m) ==
  /\ m \in Seq(Byte)
  /\ Len(m) \in HeaderSize..BufferSize
  /\ Len(m) = HeaderSize + m[2]

ASSUME ByteAssumption == Byte \subseteq Nat
ASSUME BufferAssumption == BufferSize \in Nat \ {0}
ASSUME MessageAssumption == \A m \in Message : IsMessage(m)
ASSUME MaxSentAssumption == MaxSent \in Nat

VARIABLES
  stream,    \* every byte the client has written
  ends,      \* where in the stream each of its messages ends
  read,      \* how many bytes of the stream the server has read
  buffer,    \* the bytes of _buffer before _begin
  handling,  \* the server is in handleMessages ...
  slice,     \* ... with these bytes still to look at
  handled    \* the messages given to MqttServer::newMessage

vars == <<stream, ends, read, buffer, handling, slice, handled>>

\* What is kept and what is looked at never outgrows the vector behind it.
TypeOK ==
  /\ stream \in Seq(Byte)
  /\ ends \in Seq(Nat)
  /\ read \in Nat
  /\ buffer \in Seq(Byte) /\ Len(buffer) <= BufferSize
  /\ handling \in BOOLEAN
  /\ slice \in Seq(Byte) /\ Len(slice) <= BufferSize
  /\ handled \in Seq(Seq(Byte))

Init ==
  /\ stream = <<>> /\ ends = <<>> /\ read = 0
  /\ buffer = <<>> /\ handling = FALSE /\ slice = <<>>
  /\ handled = <<>>

\* The client writes one more message.
Send(m) ==
  /\ Len(ends) < MaxSent
  /\ stream' = stream \o m
  /\ ends' = Append(ends, Len(stream) + Len(m))
  /\ UNCHANGED <<read, buffer, handling, slice, handled>>

\* (Mutant: the bytes kept are forgotten.)
WholeBuffer == BufferSize

\* The bytes async_read_some may fill: _begin to the end of the buffer.
ReadableDataSize == BufferSize - Len(buffer)

\* A read completes with some of the bytes on their way and handleMessages
\* looks at them behind those it had kept.
Read(numBytes) ==
  /\ ~handling
  /\ numBytes <= ReadableDataSize
  /\ read + numBytes <= Len(stream)
  /\ slice' = buffer \o SubSeq(stream, read + 1, read + numBytes)
  /\ read' = read + numBytes
  /\ handling' = TRUE
  /\ UNCHANGED <<stream, ends, buffer, handled>>

\* The length of the message that starts here, or the least it can be.
TotalLength(bytes) ==
  IF Len(bytes) >= HeaderSize THEN bytes[2] + HeaderSize ELSE HeaderSize

\* (Mutant: the loop asks for more than the message.)
HasMoreThanMessage == Len(slice) > TotalLength(slice)

\* The loop condition: the slice starts with a whole message.
HasMessage == Len(slice) >= TotalLength(slice)

\* (Mutant: all the rest is handed over as one message.)
DispatchRest ==
  /\ handling /\ HasMessage
  /\ handled' = Append(handled, slice)
  /\ slice' = SubSeq(slice, TotalLength(slice) + 1, Len(slice))
  /\ UNCHANGED <<stream, ends, read, buffer, handling>>

\* One iteration of the loop: the message at the front of the slice.
Dispatch ==
  /\ handling /\ HasMessage
  /\ handled' = Append(handled, SubSeq(slice, 1, TotalLength(slice)))
  /\ slice' = SubSeq(slice, TotalLength(slice) + 1, Len(slice))
  /\ UNCHANGED <<stream, ends, read, buffer, handling>>

\* (Mutant: the rest is not kept.)
FinishDropsRest ==
  /\ handling /\ ~HasMessage
  /\ buffer' = <<>>
  /\ slice' = <<>>
  /\ handling' = FALSE
  /\ UNCHANGED <<stream, ends, read, handled>>

\* No whole message is left: the rest is kept at the front of the buffer.
Finish ==
  /\ handling /\ ~HasMessage
  /\ buffer' = slice
  /\ slice' = <<>>
  /\ handling' = FALSE
  /\ UNCHANGED <<stream, ends, read, handled>>

Next ==
  \/ \E m \in Message : Send(m)
  \/ \E numBytes \in 1..BufferSize : Read(numBytes)
  \/ Dispatch
  \/ Finish

Spec == Init /\ [][Next]_vars

\* The network delivers what was written and the server goes on reading.
FairSpec ==
  /\ Spec
  /\ WF_vars(\E numBytes \in 1..BufferSize : Read(numBytes))
  /\ WF_vars(Dispatch \/ Finish)

-----------------------------------------------------------------------------

\* Where the i-th message starts and the messages the client wrote.
StartOf(i) == IF i = 1 THEN 0 ELSE ends[i - 1]
SentMessages == [i \in 1..Len(ends) |-> SubSeq(stream, StartOf(i) + 1, ends[i])]

\* The read and unhandled bytes.
Held == IF handling THEN slice ELSE buffer

\* The stream never loses its place: what it holds starts where a message of
\* the client starts, right behind the last one handled, and runs up to the
\* last byte read.
InStep ==
  /\ Len(handled) <= Len(ends)
  /\ StartOf(Len(handled) + 1) + Len(Held) = read
  /\ Held = SubSeq(stream, StartOf(Len(handled) + 1) + 1, read)

\* Whenever the server waits for bytes there is room for one at least: a read
\* into no room would complete at once with no bytes, for ever.
RoomToRead == ~handling => ReadableDataSize > 0

\* Between reads no message is withheld: what is buffered is incomplete.
NothingWithheld ==
  ~handling => \A i \in 1..Len(ends) : ends[i] <= read => i <= Len(handled)

Ch == INSTANCE Channel WITH sent <- SentMessages

\* The messages are handled whole, once and in the order they were written:
\* the stream implements a reliable channel of messages.
ImplementsChannel == Ch!Spec

\* Each message written is handled in the end, whatever comes behind it.
HandlesEverything ==
  \A i \in 1..MaxSent : Len(ends) >= i ~> Len(handled) >= i
=============================================================================
