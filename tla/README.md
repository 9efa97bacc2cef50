# A TLA+ model of mqttcpp

mqttcpp is an MQTT broker in C++ on top of boost::asio: one process, one thread that
runs the `io_service`, any number of TCP clients. This directory holds TLA+ modules
for the parts of it that have state, TLC configurations that model-check them on small
instances, and proofs of the theorems about them that TLAPS can check.

## The system

| Part | State | Operations |
|---|---|---|
| `MqttBroker` (`src/src/broker.hpp`) | `_tree`: nodes by topic level, with leaves (subscriber pointer, topic); `_cache`: topic to subscribers; `_useCache` | `subscribe`, `unsubscribe`, `publish` |
| `MqttStream` (`src/src/stream.hpp`) | `_buffer`, `_begin`: the bytes of an incomplete message | `readableData`, `readableDataSize`, `handleMessages` |
| `MqttServer` (`src/src/server.hpp`) | the broker | `newMessage`: a switch over the message type |
| `Connection` (`src/src/boost/connection.cpp`) | `_socket`, `_connected`, its `MqttStream` | `start`, `stop`, `doRead` and its handler, `newMessage`, `disconnect` |
| `ConnectionManager` (`src/src/boost/connection_manager.cpp`) | `_connections`: shared pointers | `start`, `stop`, `stopAll` |
| `MqttTcpServer` (`src/src/boost/mqtt_tcp_server.cpp`) | acceptor, signal set, socket being accepted | `doAccept`, `doAwaitStop`, `run` |
| messages (`src/src/message.cpp`) and cereal (`src/cereal`) | a cursor, a partly written byte | encoding and decoding |
| gsl's spans (`src/gsl/include/span.h`) | a pointer, extents and strides; an iterator's pointer and index | views of views, element access, iteration |

How they interact. A read completes and the `io_service` runs the connection's handler.
The handler calls `MqttStream::handleMessages`, which calls `MqttServer::newMessage` once
for every whole message in the buffer; that calls the broker and, for the reply, the
connection; the broker calls `newMessage` of every subscriber it reaches, which starts an
`async_write`. When all messages are handled `doRead` starts the next read. A read that
fails makes the manager drop and close the connection; a DISCONNECT ends its subscriptions
and closes it. A signal closes the acceptor and every connection, after which the
`io_service` runs out of work and `run` returns.

Who owns what. A `Connection` is kept alive by the manager and by the handlers that
captured `self`. The broker keeps a plain pointer, and so does the cache.

What is hard here. A cache that must be dropped at the right moments. A recursion whose
three branches overlap. A stream that may be cut anywhere. Object lifetime: a connection
may be closed, aborted, disconnected or dropped with a read and writes under way, and the
broker is told in one of these cases only. Writes that go on after the call that started
them, from buffers that belong to others. Shutdown, with handlers of any kind already
waiting to run. `PROJECT.json` lists each of these hazards with its line and with the
properties that cover it, or the reason why none does.

What makes each part correct:

* the broker: a publish sends each subscriber one copy for every matching subscription
  that it holds at that moment, with or without the cache;
* the walk: it ends, and reaches the nodes of the filters that match, once each;
* the stream: the messages are handled whole, in order, once, and all of them, however
  the bytes arrive, and there is always room for the next byte;
* the server: an open connection is listened to and managed, a signal ends everything, the broker
  knows live connections and those that left a subscription behind, and a publish is sent to the
  clients that hold a subscription to its topic;
* the writes to a client: each of its bytes once and in order, and all of them in the end;
* messages and cereal: what is read is what was written, and the places the server looks at
  without decoding (type, length, topic) are the right ones;
* spans: a view of a view names the cells one would expect, an iterator goes through all of
  them and stops, and what lies outside is refused, but for the calls nothing checks.

## The modules

| Module | What it is | Source |
|---|---|---|
| `Topics` | topics, filters, requests and the matching rule of the tests | `broker.hpp`, `tests/broker.cpp:123-155` |
| `PubSub` | abstract: a table of subscriptions and a publish | what the broker promises |
| `TopicTree` | the tree as a set of paths, and in closed form the nodes the recursions visit | `broker.hpp:77-125` |
| `TopicWalk` | `publishImpl` one loop iteration at a time | `broker.hpp:104-133` |
| `Broker` | the broker: tree, leaves and cache | `broker.hpp` |
| `Channel` | abstract: messages handled in the order they are sent | what the stream promises |
| `MqttStream` | `handleMessages` one loop iteration at a time, and the reads | `stream.hpp`, `connection.cpp:30-34` |
| `TcpServer` | accept loop, manager, connections, dispatch, signal, on top of `PubSub` | `boost/*.cpp`, `server.hpp` |
| `Outbound` | what one client is sent, byte by byte: the composed writes, where their bytes are, the socket's room | `connection.cpp:44-52`, `stream.hpp`, `server.hpp` |
| `Cereal` | cereal's writer and reader as operators | `cereal/src` |
| `CerealSession` | fields written with one writer, then read with one reader, any number of times | `cereal/src`, and its tests for how it is used |
| `MqttMessages` | fixed header, CONNECT, PUBLISH, SUBSCRIBE and UNSUBSCRIBE as bytes: written by a client, taken up and answered by the server, and the answers read | `message.cpp`, `server.hpp:25-77` |
| `Bounds` | spans' index arithmetic, and the row-major order of indices without any arithmetic | `span.h` |
| `View` | abstract: a view is a function from indices to cells | what spans promise |
| `Span` | sections, slices, reshapes, element access and both kinds of iterator, with offsets and strides | `span.h` |
| `MC*` | the constants of the runs | |
| `BrokerProofs`, `MqttStreamProofs`, `TcpServerProofs`, `OutboundProofs`, `CerealProofs`, `MqttMessagesProofs`, `SpanProofs` | the theorems about the module in the name, and their proofs; `BrokerProofs` also has those about `TopicTree` and `TopicWalk`, `CerealProofs` those about `CerealSession`, `SpanProofs` those about `Bounds` | |
| `SequenceLemmas` | what these need about pieces of sequences, `FlattenSeq`, and induction over numbers and sequences | |

How they fit together. `Broker` takes a whole publish as one step, since nothing else runs
on the thread meanwhile, and uses the closed form `PublishedNodes`. `TopicWalk` shows that
the recursion computes that form, and the theorem `PublishedMatches` that the form is the
matching rule. `Broker` implements `PubSub`, so `TcpServer` takes `PubSub` for its broker.
`MqttStream` implements `Channel`, so `TcpServer` gives a read handler whole messages.
`Outbound` takes over where `TcpServer` has a flag for the writes under way: it follows each
write through the socket and through the buffers, with the stream's framing left to
`MqttStream`. `Span` implements `View`; the other modules take spans for the sequences they
show.

### Correspondence and abstractions

* A topic is the sequence of its levels: `boost::split` on `/` keeps empty parts and is a
  bijection. A tree is the set of the paths of its nodes: `AddPath` adds the prefixes of a
  filter, the child of `n` at part `p` is `Append(n, p)`. Leaves are counted by filter and
  subscriber: the topic a leaf stores is the path of its node, and the order of the leaves
  of a node shows only in the order of the calls of one publish.
* Topics have no wildcards and `#` stands only at the end of a filter. MQTT asks this of
  clients, the broker does not check it, and the constants assume it
  (`TopicAssumption`, `FilterAssumption`).
* In `MqttStream` bytes are small numbers and a message is its bytes, the second of which
  is the number of bytes behind the fixed header. `remainingLength` reads that byte and no
  other, so the model is of messages with fewer than 128 bytes behind the header, and says
  nothing of longer ones (`MessageAssumption`).
* In `TcpServer` a `Connection` is its address. `Alive` says whether something keeps the
  object at that address; a new connection may be allocated wherever none is alive. A call
  on an object that is gone is undefined: it passes unnoticed or the process crashes
  (`running = Crashed`, after which nothing runs).
* The `io_service` promises no order among the handlers that are ready, and the model takes
  any. A handler is one step, but for the read handler, which takes one step per message;
  no other handler runs between these (`running`), though clients and the operating
  system act. `close` aborts an operation that waits and leaves one that has completed
  alone, so its handler still runs with what it read.
* Clients are not restricted: they close with subscriptions they have not ended, and send what they
  like behind a DISCONNECT. Three history variables say what has become of their requests: `asked`,
  the filters a client holds subscriptions to; `left`, the filters whose subscriptions were left
  behind at an address, by a client that closed without a DISCONNECT, by a signal, or by a
  SUBSCRIBE that is handled when the socket is closed already; and `received`, how many publishes
  a client has been sent. No property is restricted to clients that behave: `SubscribersLive`,
  `DisconnectedForgotten` and `SentAsSubscribed` say that what goes wrong is due to what is in `left`
  and to nothing else.
* `accept`, `readOp` and `signal` are the asynchronous operations: waiting, ready with one
  of their outcomes, or none. All writes of a connection under way are the one flag
  `writing`, as their handler does nothing.
* In `Outbound` byte `i` of message `m` is `<<m, i>>`, so that bytes in the wrong place show.
  A write takes its bytes from where they are when the socket takes them: the publisher's
  stream buffer, a vector of `newMessage`, freed when it returns, or a static array. The
  socket takes what it has room for; a write that finds none waits in the queue that
  boost::asio has for the socket, and goes on when it is its turn. No handler runs inside
  another one.
* `Cereal` and `MqttMessages` take bytes as numbers and compute with them as the code does
  (shifts as products and quotients of powers of two, `|` as the sum of the bits that are set in
  one byte or the other). A writer or a reader is the record of the class's members. `writeBits`
  and `readBitsHelper` call themselves, and so do the functions of that name in `WriteBits` and
  `ReadBitsHelper`, whose domains are all the calls there can be: fields of up to nine bits
  (`MaxBits`), as all are in the repository. One case is undefined in the code, a field of nine
  bits behind a full byte: the mask's shift is by -1 (`Cerealiser.cpp:22`). `Carried` gives what
  x86 makes of it. What a reader finds behind its bytes is
  undefined in the code; the models only read what was written, and have zeros there so that
  every operator has a value. In `MqttMessages` loops are recursive functions: the digits of the
  remaining length when they are written, and, of how many rounds there were, when they are read;
  things that follow one another (`ReadMany`); and the flags of a CONNECT. A raw array ends after the
  first number of elements that leaves no bytes (`ReadRawArray`). Messages are as long as MQTT lets
  them be: strings of up to 65535 characters, and up to `MaxRemaining`, four digits, behind the header
  (`MessageAssumption`).
* A span is an offset, extents, strides and its kind (contiguous or strided). The program may pass any
  numbers, indices and extents, negative ones among them, as `ptrdiff_t` is signed. What
  `fail_fast_assert` refuses ends the program (`fate = "refused"`). What it does not look at may pass: a
  negative offset in `sub` as long as its end is inside, a negative index in `operator[]`, a negative
  component, and a section that reaches over the end of its view's rows (`Fits`), since the
  constructor compares sizes of memory only. Such a call gets something that is not the view's; the
  program goes on with it, the model stops there (`fate = "astray"`). `View!Unchecked` lists
  these calls, so `ImplementsView` has no other.
* Views may be empty: blocks in their first extent, sections in any. Extents are
  known at run time, and a block of these with a 0 further back is the one thing left out
  (`SpanAssumption`): `elementNum` divides by the size of a row. A section like that exists; `+=` on its iterators
  divides by the stride 0, which ends the program too, and `begin` is not `end` unless all extents are
  0 (`LoopsEnd`), so a loop over it reads before it stops and is refused there.
* An iterator of a contiguous span is a pointer, a `bounds_iterator` an index; `Span` moves the two
  together, so that they can be compared. To stay between begin and end is the caller's part (the
  guards of `Increment`, `Decrement` and `Advance`). The program itself uses spans of one dimension
  only; the rest of `span.h` is the vendored library's own.
* The five strings of a CONNECT are members of their own, as in `message.cpp:83-88`, and each group is
  read behind the guard of its own flag; the flags and the strings are independent of one another in the
  specification, so one taken for another, or read in another order, shows.
* Messages are well formed and as MQTT has them: a PUBLISH has an id exactly when it has a
  quality of service. `MqttMessages` says how the bytes of whole messages are understood;
  `MqttStream` how the stream is cut into messages. Its `IsMessage` is the condition that
  `CutRight` shows to be right, a second byte below 128.
* Operators marked "(Mutant: ...)" are variants of the definition behind them with a
  plausible mistake. No specification uses them; each is there to show that a property
  notices the mistake.

## The runs

| Run | Instance | States | Shows |
|---|---|---|---|
| `broker` | 3 filters (exact, `+`, `#`), 3 topics, 2 subscribers, requests of 0 to 2 filters, 2 equal subscriptions | 16 thousand | types, tree, cache, and `Broker` implements `PubSub` |
| `topic_walk` | 10 overlapping filters of up to 3 levels, all 1024 sets of them, 5 topics | 14 thousand | the walk ends, at exactly the matching nodes, once each |
| `stream` | messages of 2, 3 and 5 bytes, 4 of them sent, buffer of 5, reads of 1 to 5 bytes | 8 thousand | stream position, room, nothing withheld, `Channel` implemented, everything handled |
| `tcp_server` | 2 addresses, 3 accepts, 2 filters, 2 reads of up to 2 messages: PINGREQ, DISCONNECT, unknown ones, PUBLISH, SUBSCRIBE, UNSUBSCRIBE of one topic or of all | 1.1 million | connections listened to and managed, shutdown, the pointers the broker keeps, who is sent a publish |
| `tcp_server_reuse` | the same | | a disagreement, below |
| `outbound` | publishes of 2 and 3 bytes, a static and a vector reply of 2, stream buffer of 3, room for 3 | 166 thousand | overlapping writes: each byte once and in order, all of them in the end, whole messages as long as there is room |
| `outbound_whole` | the same | | a disagreement, below |
| `cereal` | fields of 1, 3, 4, 8 and 9 bits and whole bytes, up to 5 in a row | 32 thousand | the reader is right, and the writer until a byte is filled exactly and bits follow; until then every field is read back |
| `cereal_round_trip` | the same, up to 4 | | a disagreement, below |
| `messages` | 743 messages: lengths around 7, 128, 256 and 16384, 0 to 2 topics, CONNECTs with every choice of flags | 3 thousand | messages and answers are read as written; the shortcuts are right for lengths of one byte and no others |
| `messages_no_id` | the same | | a disagreement, below |
| `span` | blocks of 0 and 4 cells, 0x2, 2x3, 2x2 and 2x1x2, numbers from -2 to 5, all indices and extents of two dimensions from -1 to 3 | 596 thousand | loops end, and `Span` implements `View` |

Why the bounds are enough. In `broker` every kind of filter overlaps with another on some
topic, a subscriber can hold two copies, and a request can name one filter twice, several,
or none. The filters of `topic_walk` cover every combination of a name, `+` and `#` that
leads to one node over several branches, and three levels are one more than the walk's
special case, at the end of the topic, looks at. In `stream` the buffer is as long as the
longest message, so it is filled to the last byte, and a read can end anywhere, in the
header as well. In `tcp_server` two addresses and three accepts make one address be used
again while the other publishes; two reads of two messages are enough for a client to subscribe,
publish to itself, unsubscribe and publish again, or for a SUBSCRIBE behind a DISCONNECT. One filter
matches the topic and one does not. A CONNECT is answered as a PINGREQ is, by one case of the model, and is
left out of the instance; the proofs have both. In `outbound` the socket holds fewer bytes than any two
of the messages, so that writes stop in the middle, wait in a queue and overtake one another's
rest, and the stream buffer is shifted and filled a second time under a write.
In `cereal` five fields fill up to five bytes, and the widths meet a byte's end from every side.
The lengths of `messages` lie next to each other around every place where the code or the encoding
changes, but for 2097152, which has the same form as 16384. In `span` views of views are as deep as
they can get smaller, the numbers reach from behind to beyond every row, sections of no elements in
either or both directions are taken, and three blocks have the same size in different shapes. The bounds
are `MaxFields`, `MaxRequest`, `MaxCopies`, `MaxSent`, `MaxAccepts`, `MaxReads` and `MaxBatch`, the
sets `Number` and `Index`, and the lengths of `Publishes` and `Replies`.

Deadlock is checked in `broker` and in `cereal`. The others may stop: a message is written and read
once, a walk returns, a client that has sent `MaxSent` messages is silent, all messages are sent, a
refused call ends the program and one gone astray the model, and a server that got a signal is meant to stop.

### Where code and documents disagree

`tcp_server_reuse` finds the behaviour behind the README's "running it for long enough will
cause it to corrupt memory and crash". A client subscribes and its connection breaks. The
read handler makes the manager drop and close the connection
(`connection_manager.cpp:12-15`), the object is destroyed, and the broker keeps its address
(`broker.hpp:167`). A new client's `Connection` is allocated at that address. It publishes
and is sent its own message without ever having subscribed, which
`features/publish.feature:6-9` says does not happen.

`cereal_round_trip`: `Cerealiser::writeBits` goes on after a field that has filled a byte exactly as
if it had still to be written (`Cerealiser.cpp:21-28`). What follows stands behind a second copy of
it. `WritesInOrder`, which holds, says that this is the only way to get wrong bytes. A fixed
header ends in such a field, so two headers written with one `Cerealiser`, or the flags of a CONNECT
behind its header, come out wrong, where the library's tests (`cereal/test/unit_tests.cpp:22-30`)
expect what is written to be read back. The server writes its replies without the library and is
not concerned.

`messages_no_id`: a PUBLISH with an id and a remaining length below 7 is reported as one with
"no message ID" (`message.cpp:139-140`). A topic of one character, an id and no payload make 5: such a
message has an id, and its two bytes are read as payload. `PublishReadBack`, which holds, says
that all other messages are read right.

`outbound_whole`: `Connection::newMessage` gives `async_write` a pointer to bytes it does not own
(`connection.cpp:48`) and starts it whether another write of the socket is under way or not. A
subscriber reads slowly and its socket has room for a part of a publish. The publisher's
`handleMessages` shifts its buffer (`stream.hpp:45`) and the next read fills it, and the write
goes on with what lies there then; or the rest comes behind bytes of a second write. The client
has been sent everything and the message is not there, where `features/publish.feature:11-15` says a
subscriber receives it. `RightWithRoom`, which holds, says that this needs a socket without room.

Two comments are close to what the runs show and are not the whole of it. "let's cheat and assume
small messages" (`stream.hpp:57`): `CutRight` has the exact limit. "won't work if there's a msg id
and the size is < 128 bytes" (`message.cpp:226`): `TopicWhereItIs` shows that it works just then,
with an id or without, and does not from 128 bytes on.

### Fairness

* `TopicWalk!FairWalkSpec`: weak fairness of the recursion, which is sequential code.
* `MqttStream!FairSpec`: weak fairness of `handleMessages`, sequential code again, and of
  the read: TCP delivers what was written, and the handler always starts the next read.
* `Outbound!FairSpec`: weak fairness of the publisher's handler and of each write's, which the
  `io_service` runs when they are ready, of the socket's turn to the write that waits first, and
  of the client: one that has something to read reads. Without the last a write may wait for ever,
  as it may in the program.
* `TcpServer!FairSpec`: weak fairness of running some handler, as `io_service::run` goes on
  while a handler is ready. There is none for a particular handler, for clients or for the
  operating system: an `accept` or a read that waits may do so for ever. `Drains` needs no
  more because every operation is aborted or has completed once the signal handler has run;
  that it runs, with new connections and data coming in, follows from the bounds on these.

## What is proved

37 theorems, all for every value of the constants that satisfies the named assumptions. They state
every invariant, every action property and every refinement that the passing runs check. Each
inductive invariant was checked by TLC on the constants of the component's run before it was proved.

* `BrokerProofs`, of the tree: `PublishedMatches`. In a tree whose nodes hang from the root, the
  filters `PublishedNodes` reaches are those that match. The proof follows a path's prefixes from
  both ends, by the two ways to match: same length, or a `#` at the end.
* `BrokerProofs`, of the broker: `TypeCorrect`, `TreeStaysWellFormed`, `CacheStaysCoherent` and
  `Refinement`. The inductive invariant is the conjunction of the first three properties:
  that the cache is coherent after a walk needs the types, that an unsubscribe reaches every
  leaf needs the tree. `Refinement` maps `leaves` to `subs`; a publish from the cache sends
  what a walk would, by coherence, and a walk what the matching rule says, by
  `PublishedMatches`.
* `BrokerProofs`, of the walk: `WalkTypeCorrect`, `PublishesNoneTwice`, `WalksTheClosedForm` and
  `WalksTheMatches`. The inductive invariant counts: a node has been published to once if it is one of
  `PublishedNodes` and no loop in progress is still ahead of the way down to it (`Ahead`), and
  otherwise not at all. That needs to be known of the stack: each call was made from the
  iteration before the one its caller does next (`OnTheWay`). One iteration passes exactly one child
  (`TryAhead`: the three parts differ, as topics have no wildcards), publishes to exactly the nodes of
  which it is the source (`TryPublishes`), and a return passes none. `WalksTheMatches` adds
  `PublishedMatches`. With `Refinement` of the broker this closes the way from the recursion to
  the plain table of subscriptions, for any filters and for all topics without wildcards. With a wildcard
  in the topic `PublishesNoneTwice` would be wrong: the walk then takes two of its parts to one child.
* `MqttStreamProofs`: `TypeCorrect`, `StaysInStep`, `AlwaysRoomToRead`, `WithholdsNothing`
  and `Refinement`. The inductive invariant `IInv` adds to types and `InStep` that the stream
  is cut by `ends` into messages of `Message`, that the messages handled are the first ones
  sent, and that what is kept between reads holds no whole message. With it a dispatch cuts
  off exactly the next message sent: the slice starts where that message starts, so its
  second byte is that message's length.
* `TcpServerProofs`: `TypeCorrect`, `AlwaysListens`, `ManagesTheOpen`, `PointersAccounted`,
  `ForgetsTheDisconnected` and `SendsToSubscribers`, for any number of connections and reads. The
  inductive invariant has two parts besides the types and the properties. `OperationsApart`: a running
  handler has no other read under way, and a read that can only fail is one of a closed socket;
  `NeverDeaf` and `OpenIsManaged` need it. `Account`, of each address: the broker has every subscription
  its client holds, and none but these and those left behind there; and once the client can no
  longer end what it holds, as its socket is closed or its side has ended, that is left behind too. So
  a subscription that is not left behind means an open socket, that a managed and so a live object.
  `SendsToSubscribers` is about every publish, not only the first one a client is sent, and in both directions:
  a client that is connected and holds a matching subscription is sent it, once, and nobody else is, but
  where a matching one was left behind. The first needs `Account` from clients to broker, the
  second from broker to clients.

* `OutboundProofs`: `OutboundTypeOK`, `OutboundRightWithRoom`, `OutboundStaticSentInOrder` and
  `OutboundAllBytesCounted`, for any messages and replies, any buffer that holds the longest of
  them, and any room. The inductive invariant `IInv`:
  * `PublisherInv`: what the publisher's buffer holds at `_begin`, or at the slice its handler looks
    at, are the bytes of its stream that come next. Without it a publish could be started at a
    place where its bytes are not. A `Shift` keeps it because the copy is of exactly this part.
  * `HandedInv`: the messages handed over are the first `published` publishes and the first
    `replied` replies, once each, so a write under way belongs to one message only.
  * `WritesInv`: where the bytes of a write may be. A publish lies within the buffer, and a static
    reply stays static: only then do its bytes outlast the call.
  * `WireInv`: the socket holds no more than its room; and as long as it was never short nothing is
    queued and every write under way has sent its last byte. So `RightWithRoom` is kept by the
    handlers of writes: none of them sends anything.
  * `CountInv`: the wire is as long as the parts sent of the messages handed over. A step adds the
    same number to one part and to the wire (`CountInv` holds with wrong bytes as well, which
    is why `AllBytesCounted` needs no room and `RightWithRoom` does).
  * `StaticInv`: what is selected of the wire for a static reply is the part of it that was sent,
    nothing before it is handed over. The property names replies that are, the invariant needs
    the others too, as a reply is handed over at some step.
* `CerealProofs`: `CerealTypeOK`, `CerealReadsInOrder`, `CerealWritesInOrder` and
  `CerealReadBack`, for any fields of up to nine bits and sessions of any length. The argument has
  four parts:
  * `writeBits` and `readBitsHelper` are recursive, and a recursive function has the value one
    expects only if its equation has a solution. A call of nine bits or fewer calls itself at most
    twice in a row, so the equation put into itself often enough is one (`WriteBitsExists`,
    `ReadBitsExists`).
  * One call of `writeBits` appends the bits of its value to those written and waiting, or it ends
    just behind a full byte with the extra copy (`WriteBitsRight`). One call of `readBitsHelper` gives
    the number whose bits come next, over up to three bytes (`ReadBitsHelperRight`). Both rest
    on `|` being a sum where no bit is set twice (`OrAdds`), which is why the bits not yet written have
    to be zero (`WriterOK`).
  * The invariant says where the bits are. Of the writer: all bits of the fields are in the bytes or
    wait in the current one, fewer than eight (`Waiting`), or a field of bits has just filled its byte
    and they are all in the bytes (`JustFilled`); once another field of bits follows that, it says
    nothing more (`Past`). Of the reader: it stands as many bits from the start as the fields it has
    read are wide, and the values read have just these bits. `got` alone would not do, as
    `ReadsInOrder` does not say where the reader goes on.
  * A field that the reader has enough bytes for lies whole in the bytes the writer has finished, so
    its bits there are those of the field written (`FieldAmongBits`), and a number that fits its width
    is known by its bits (`BitsInjective`): `ReadBack`.
* `MqttMessagesProofs`: `MessagesTypeCorrect`, `RequestsReadBack`, `AnswersReadBack`,
  `PublishesReadBack`, `TopicsWhereTheyAre` and `MessagesCutRight`, for every message of every
  length. The inductive invariant `IInv` says what each step leaves behind: the bytes are
  `Written(sent)`, what is taken of them is `TakenOf(sent)`, the answer is `Answer(taken)`. That
  it is preserved is the statement that reading undoes writing, and rests on these:
  * The bytes of a message are one byte of type and flags, one to four digits, and a body as long as
    the digits say (`FrameRight`). The digits are given by two recursive functions, one that writes
    them and one that reads them, and each is shown to have an equation with a solution
    (`DigitsSolve`, `RoundsSolve`) before its values are used.
  * `Has(s, p, piece)` says that `piece` stands in `s` behind position `p`. Every reading operator has a
    lemma that gives its value at such a place and the place it leaves the reader at
    (`ReadByteHas`, `ReadShortHas`, `ReadStringHas`, `ReadTopicHas`, `ReadFlagsHas`, `ReadHeaderHas`), and a
    body is the concatenation of the pieces that its parts write.
  * Pieces that follow one another are read one by one, and each leaves fewer bytes. So a raw array,
    which has no count and reads as long as there are bytes, ends where its pieces do
    (`RawStringsAre`, `RawTopicsAre`).
  * `MessagesCutRight` and `TopicsWhereTheyAre` compare places: both are off by the number of digits
    less one, so they are right exactly if there is one digit, a remaining length below 128.
* `SpanProofs`: `SpanTypeCorrect`, `LoopsMeetTheEnd` and `ViewRefinement`, for blocks of any shape, any
  number of dimensions, and any numbers passed, negative ones as well. `Sum` and `Product` are folds that
  take the components in an order nobody knows, by `CHOOSE`; as the operations commute the order makes
  no difference (`FoldTakes`), and they may be taken from the first dimension to the last (`SumIs`,
  `ProductIs`). The rest is about the partial sums of an index times its strides.
  * `SpanInv` has two cases. `Placed`, of a view whose rows have elements: an iterator is at a place
    (`IsPlace`), which is an index in range or one of two names of the end, the extents and the index
    behind the last row; its pointer is as far from the view's first cell as the index says; and
    after `end()` or `++` it is not the second name. `++` goes to an offset one greater because the
    dimensions behind the one that grows are reset from their last index (`OffsetSuccessor`), `+=`
    because a number is the quotient times the stride and the remainder (`AdvancedPlace`).
    `PlacedInEmpty`, of a section whose rows have none: an iterator is at `begin` or at `end`, and
    both count as the place 0 (`EmptyPlaces`).
  * Indices in row-major order are those with growing offsets (`PrecedesOffset`), and there is one
    for every offset below the size, so the place of an index in the order, which `View` has as
    the number of indices before it, is its offset (`PositionIs`).
  * `ViewInv` adds `Proper`: a view is such a section, or it is `Regular`: a contiguous one strides as its
    extents say, and rows do not overlap (`Nested`): what the dimensions behind another one reach is
    less than what that one strides. The assertions of `operator[]` and `section` compare offsets and
    numbers of cells, where `View` asks whether there is such a row; without `Nested` a strided view
    could be sliced behind its last row (`SlicePasses`). Slices and sections keep it
    (`RegularSlice`, `RegularSection`).
  * A call that `View` does not allow is refused, or is one that `Unchecked` lists (`ViewFails`). For
    signed components `LinearizesIs` says what the two assertions let pass: anything below the
    extents.

The library's induction theorems take an operator as a parameter and cannot be cited here.
`SequenceLemmas` has `SetInduction` and `SeqInduction`, which say the same of a set: one that holds
0 and with each number the next one holds them all, and one that holds the empty sequence and with each
sequence all that are one longer. They are proved from `WellFoundedInduction`. With them `FlattenSeq` of a
concatenation is the concatenation of the two, which is what `Outbound`, `CerealSession` and
`MqttMessages` need.

Only model-checked, and why:

* the liveness properties (`Terminates`, `HandlesEverything`, `Drains`, `WritesComplete`): fairness
  and `ENABLED` are out of the prover's reach;
* that the writer goes wrong behind a full byte, and the other disagreements above: these are
  behaviours, shown by one.

## What is not modelled

* Writing a CONNECT or an acknowledgement with `cerealise`, which nothing in the repository does;
  malformed messages, a PUBLISH too short for its topic among them (`message.cpp:217`); the parts of
  cereal no message uses: wider and signed numbers, doubles, vectors with a length.
* What the stream makes of messages with 128 bytes and more behind the header. `CutRight` says
  exactly which messages those are; behind the first of them the stream has lost its place.
* Topics that contain wildcards, which make two of the walk's three parts equal.
* Of gsl: conversions between element types, null pointers and comparisons of spans, `not_null`,
  `narrow`, `final_act`, `ensure_z` and the other string helpers, which keep nothing from one call to the next.
  What a program does with a view it should not have got is not followed.
  Five things about spans show in the models and are no disagreement with anything
  written down: `less` on indices of several dimensions is no order (`span.h:962`), an iterator moved to the end
  with `+=` does not equal `end()` when there are several dimensions, a loop over a section of no
  elements does not stop before the first one (both `LoopsEnd`), negative offsets, indices and components
  pass, and a section may pass that reaches over the end of its rows (`Unchecked`).
* Logging, `main`'s output and exit code, the tests and features, which are read for what they expect.
* The order of the leaves of one node, and of the children in an `unordered_map`.

## Plan

1. Done: `Topics`, `PubSub`, `TopicTree`, `Broker`, `TopicWalk`; `Channel`, `MqttStream`;
   `TcpServer`; `Outbound`; `Cereal`, `CerealSession`, `MqttMessages`; `Bounds`, `View`, `Span`; the proofs above.
2. What the stream makes of long messages, with the broker and the connection behind it.
3. Topics that contain wildcards: the walk as a bag of nodes, and the copies it sends.
4. Messages too short for what they should contain, with the undefined reads this leads to.
