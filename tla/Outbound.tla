------------------------------ MODULE Outbound ------------------------------
(***************************************************************************)
(* What one client is sent, byte by byte.  Connection::newMessage starts   *)
(* an async_write and returns: the socket takes what it has room for at    *)
(* once, the rest is written when there is room again, and other writes    *)
(* may be started meanwhile.  A write never copies its bytes.  They are in *)
(*   - the stream buffer of the connection whose client published them,    *)
(*     which handleMessages shifts and the next read fills again,          *)
(*   - a vector of MqttServer::newMessage, gone when the call returns, or  *)
(*   - a static array.                                                     *)
(* One other client publishes; the lengths of its messages are given and   *)
(* their framing is left to MqttStream.  Byte i of message m is <<m, i>>.  *)
(***************************************************************************)
EXTENDS Integers, Sequences, FiniteSets, SequencesExt

CONSTANTS
  Publishes,   \* the lengths of the messages the other client publishes
  Replies,     \* where the answers to this client's own requests are kept
  ReplyLength,
  BufferSize,  \* the size of the publisher's stream buffer
  Room         \* the bytes the socket holds for a client that does not read

ASSUME OutboundAssumption ==
  /\ Publishes \in Seq(1 .. BufferSize)
  /\ Replies \in Seq({"static", "vector"})
  /\ {ReplyLength, BufferSize, Room} \subseteq Nat \ {0}

Junk == <<0, 0>>  \* whatever is in memory that was freed or never written

Id == 1 .. Len(Publishes) + Len(Replies)
Length(m) == IF m <= Len(Publishes) THEN Publishes[m] ELSE ReplyLength
BytesOf(m) == [i \in 1 .. Length(m) |-> <<m, i>>]
Stream == FlattenSeq([m \in 1 .. Len(Publishes) |-> BytesOf(m)])

VARIABLES
  memory,     \* the publisher's _buffer
  begin,      \* its _begin: how many bytes it has kept
  read,       \* how many bytes of the publisher's stream have been read
  reader,     \* its read: waits for data, is ready to be handled, or its
              \* handler runs
  slice,      \* the part of the buffer that handler has still to look at
  published,  \* how many messages it has handed to the server
  replied,    \* how many requests of this client are answered
  handed,     \* history: the messages given to newMessage
  writes,     \* the async_writes under way
  queue,      \* those of them that wait for the socket to have room
  wire,       \* every byte the socket has taken
  received,   \* how many of these the client has read
  short       \* history: the socket has had too little room for a write

publisher == <<memory, begin, read, reader, slice, published>>
socket == <<writes, queue, wire, short>>
vars == <<publisher, replied, handed, socket, received>>

\* What is handed over, kept and taken is within its bounds.
TypeOK ==
  /\ memory \in [0 .. BufferSize - 1 -> ToSet(Stream) \cup {Junk}]
  /\ begin \in 0 .. BufferSize
  /\ read \in 0 .. Len(Stream)
  /\ slice.from \in 0 .. slice.upto /\ slice.upto <= BufferSize
  /\ reader \in {"waits", "ready", "runs"}
  /\ handed \in Seq(Id) /\ Len(handed) = published + replied
  /\ DOMAIN writes \subseteq ToSet(handed)
  /\ \A m \in DOMAIN writes : writes[m].sent <= Length(m)
  /\ ToSet(queue) \subseteq DOMAIN writes
  /\ Len(wire) - received \in 0 .. Room
  /\ short \in BOOLEAN

Init ==
  /\ memory = [i \in 0 .. BufferSize - 1 |-> Junk]
  /\ begin = 0 /\ read = 0 /\ published = 0
  /\ reader = "waits" /\ slice = [from |-> 0, upto |-> 0]
  /\ replied = 0
  /\ handed = <<>>
  /\ writes = <<>> /\ queue = <<>> /\ wire = <<>> /\ short = FALSE
  /\ received = 0

-----------------------------------------------------------------------------
(* The socket.  write_some takes what there is room for from where the     *)
(* bytes are now, and waits in the queue if there is no room or another    *)
(* one waits already.                                                      *)

FreeRoom == Room - (Len(wire) - received)

Waits == FreeRoom = 0 \/ queue # <<>>

In(what)     == [in |-> what, at |-> 0]
InStream(at) == [in |-> "stream", at |-> at]

\* How many of the bytes of m that are left the socket takes.
Taken(m, sent) ==
  IF Length(m) - sent < FreeRoom THEN Length(m) - sent ELSE FreeRoom

\* The n bytes behind the first `sent' of m, from its buffer.
Buffered(m, place, sent, n) ==
  [i \in 1 .. n |->
     CASE place.in = "freed"                -> Junk
       [] place.in \in {"static", "vector"} -> <<m, sent + i>>
       [] place.in = "stream"               -> memory[place.at + sent + i - 1]]

Transfer(m, place, sent, n) ==
  /\ wire' = wire \o Buffered(m, place, sent, n)
  /\ short' = (short \/ sent + n < Length(m))

\* boost::asio::async_write of m, from its start and from its own handler.
\* `place' is where the bytes are while the call lasts, `later' where a
\* write that is continued finds them.
WriteSome(m, place, later, sent) ==
  LET n == IF Waits THEN 0 ELSE Taken(m, sent)
  IN  /\ Transfer(m, place, sent, n)
      /\ writes' = [k \in DOMAIN writes \cup {m} |->
                      IF k = m THEN [place |-> later, sent |-> sent + n] ELSE writes[k]]
      /\ queue' = IF Waits THEN Append(queue, m) ELSE queue

\* Connection::newMessage.
NewMessage(m, place, later) ==
  /\ handed' = Append(handed, m)
  /\ WriteSome(m, place, later, 0)
  /\ UNCHANGED received

-----------------------------------------------------------------------------
(* The publisher's connection.                                             *)

Handling == reader = "runs"

\* async_read_some fills the buffer behind what was kept.
Read(numBytes) ==
  /\ reader = "waits"
  /\ begin + numBytes <= BufferSize /\ read + numBytes <= Len(Stream)
  /\ memory' = [i \in DOMAIN memory |->
                  IF i \in begin .. begin + numBytes - 1
                    THEN Stream[read + 1 + i - begin] ELSE memory[i]]
  /\ read' = read + numBytes
  /\ reader' = "ready"
  /\ slice' = [from |-> 0, upto |-> begin + numBytes]
  /\ UNCHANGED <<begin, published, replied, handed, socket, received>>

\* Its handler calls handleMessages.
RunRead ==
  /\ reader = "ready"
  /\ reader' = "runs"
  /\ UNCHANGED <<memory, begin, read, slice, published, replied, handed, socket, received>>

\* (Mutant: a message is published a byte too soon.)
HasMessageTooSoon ==
  published < Len(Publishes) /\ slice.upto - slice.from >= Length(published + 1) - 1

HasMessage ==
  published < Len(Publishes) /\ slice.upto - slice.from >= Length(published + 1)

\* A whole message is published and sent to this client as it lies there.
Publish ==
  /\ Handling /\ HasMessage
  /\ NewMessage(published + 1, InStream(slice.from), InStream(slice.from))
  /\ slice' = [slice EXCEPT !.from = @ + Length(published + 1)]
  /\ published' = published + 1
  /\ UNCHANGED <<memory, begin, read, reader, replied>>

\* The rest is shifted to the front, over what is being written or not.
Shift ==
  /\ Handling /\ ~HasMessage
  /\ begin' = slice.upto - slice.from
  /\ memory' = [i \in DOMAIN memory |->
                  IF i < begin' THEN memory[slice.from + i] ELSE memory[i]]
  /\ reader' = "waits"
  /\ slice' = [from |-> 0, upto |-> 0]
  /\ UNCHANGED <<read, published, replied, handed, socket, received>>

\* (Mutant: the arrays are not declared static.)
PlaceAfterNowhere(kind) == In("freed")

\* Where the bytes of an answer are once newMessage has returned.
PlaceAfter(kind) == In(IF kind = "static" THEN "static" ELSE "freed")

\* This client's own read handler answers a request of its client.
Reply ==
  /\ ~Handling
  /\ replied < Len(Replies)
  /\ replied' = replied + 1
  /\ LET kind == Replies[replied + 1]
     IN  NewMessage(Len(Publishes) + replied + 1, In(kind), PlaceAfter(kind))
  /\ UNCHANGED publisher

-----------------------------------------------------------------------------
(* The rest of a write.  Nothing of it runs inside another handler.        *)

\* There is room again: the first write that waits goes on.
Perform ==
  /\ ~Handling /\ queue # <<>> /\ FreeRoom > 0
  /\ LET m == Head(queue)
         w == writes[m]
     IN  /\ Transfer(m, w.place, w.sent, Taken(m, w.sent))
         /\ writes' = [writes EXCEPT ![m].sent = @ + Taken(m, w.sent)]
  /\ queue' = Tail(queue)
  /\ UNCHANGED <<publisher, replied, handed, received>>

\* The handler of a write_some: it was the last of its write, or the next
\* one is started for what is left.
Written(m, done, sent) ==
  /\ ~Handling /\ m \notin ToSet(queue)
  /\ IF done
       THEN /\ writes' = [k \in DOMAIN writes \ {m} |-> writes[k]]
            /\ UNCHANGED <<queue, wire, short>>
       ELSE WriteSome(m, writes[m].place, writes[m].place, sent)
  /\ UNCHANGED <<publisher, replied, handed, received>>

\* (Mutants: a write ends after its first write_some; it never
\* finds that it is done.)
HandleWrittenOnce(m)    == Written(m, TRUE, writes[m].sent)
HandleWrittenForever(m) == Written(m, writes[m].sent > Length(m), writes[m].sent)

HandleWritten(m) == Written(m, writes[m].sent = Length(m), writes[m].sent)

\* The client reads some of what has reached it.
Receive ==
  /\ received' \in received + 1 .. Len(wire)
  /\ UNCHANGED <<publisher, replied, handed, socket>>

Next ==
  \/ \E numBytes \in 1 .. BufferSize : Read(numBytes)
  \/ RunRead
  \/ Publish
  \/ Shift
  \/ Reply
  \/ Perform
  \/ \E m \in DOMAIN writes : HandleWritten(m)
  \/ Receive

Spec == Init /\ [][Next]_vars

\* The io_service runs the handlers that are ready, and a client that has
\* something to read reads.
FairSpec ==
  /\ Spec
  /\ WF_vars(RunRead \/ Publish \/ Shift)
  /\ WF_vars(Perform)
  /\ \A m \in Id : WF_vars(m \in DOMAIN writes /\ HandleWritten(m))
  /\ WF_vars(Receive)

-----------------------------------------------------------------------------

\* The messages handed over, one behind the other.
InOrder == FlattenSeq([k \in 1 .. Len(handed) |-> BytesOf(handed[k])])

\* As long as the socket has room for every write at once, the client is
\* sent the messages whole and in the order they were handed over: nothing
\* of a buffer is needed later.
RightWithRoom == ~short => wire = InOrder

\* What the socket has taken of m.
TakenOf(m) == FlattenSeq([i \in 1 .. Len(wire) |-> IF wire[i][1] = m THEN <<wire[i]>> ELSE <<>>])

\* How many of the bytes of m that is.
SentOf(m) == IF m \in DOMAIN writes THEN writes[m].sent ELSE Length(m)

\* A reply kept in a static array is sent whole, each byte once and in order,
\* though bytes of other messages may lie between: the rest of a write goes
\* on where it stopped, however many writes there are.
StaticSentInOrder ==
  \A k \in 1 .. replied :
    LET m == Len(Publishes) + k
    IN  Replies[k] = "static" => TakenOf(m) = SubSeq(BytesOf(m), 1, SentOf(m))

\* Once no write is under way as many bytes are sent as the messages have,
\* whatever became of these bytes.
AllBytesCounted == DOMAIN writes = {} => Len(wire) = Len(InOrder)

\* Every write is completed in the end, for a client that reads.
WritesComplete == \A m \in Id : m \in DOMAIN writes ~> m \notin DOMAIN writes

\* A client that has been sent everything has received each message that was
\* published to it.
ReceivesPublishes ==
  DOMAIN writes = {} =>
    \A m \in ToSet(handed) : m <= Len(Publishes) =>
      \E k \in 0 .. Len(wire) - Length(m) : SubSeq(wire, k + 1, k + Length(m)) = BytesOf(m)
=============================================================================
