------------------------------ MODULE TcpServer ------------------------------
(***************************************************************************)
(* The boost::asio server: MqttTcpServer accepts connections, the          *)
(* ConnectionManager owns them, each Connection reads, hands its messages  *)
(* to MqttServer and writes what the broker and the server send it, and a  *)
(* signal stops it all.  The broker is the PubSub it implements.           *)
(*                                                                         *)
(* One thread runs the io_service, so handlers do not overlap: running is  *)
(* the connection whose read handler is under way, one message at a time,  *)
(* and no other handler starts meanwhile.  In which order the io_service   *)
(* runs the handlers that are ready is not specified and any order is      *)
(* taken.  Clients and the operating system act at any time.               *)
(*                                                                         *)
(* A Connection is known by its address.  The broker keeps the address of  *)
(* a subscriber and owns nothing, so an object may be gone while the       *)
(* broker still knows its address, and a later object may be made there.   *)
(***************************************************************************)
EXTENDS Topics

CONSTANTS
  Address,      \* where Connection objects may be allocated
  Message,      \* the messages clients send
  MaxAccepts,   \* bound: connections accepted
  MaxReads,     \* bound: reads completed with data
  MaxBatch      \* bound: messages in the data of one read

NoOne == "no one"   \* no read handler is running
Crashed == "crashed"  \* the process is gone

AnyMessage ==
  [type : {"CONNECT", "PINGREQ", "DISCONNECT", "OTHER"}]
    \cup [type : {"PUBLISH"}, topic : Topic]
    \cup [type : {"SUBSCRIBE", "UNSUBSCRIBE"}, topics : Request]

ASSUME MessageAssumption == Message \subseteq AnyMessage
ASSUME AddressAssumption == {NoOne, Crashed} \cap Address = {}
ASSUME BoundsAssumption == {MaxAccepts, MaxReads, MaxBatch} \subseteq Nat

\* What the data of one read holds: whole messages, as MqttStream cuts them.
Batch == UNION {[1..n -> Message] : n \in 1..MaxBatch}

VARIABLES
  subs, sent,  \* the broker: its subscriptions and its last delivery
  accept,      \* the async_accept: pending, ready, failed, aborted or none
  listening,   \* _acceptor.is_open()
  signal,      \* the async_wait for a signal: waiting, ready or done
  managed,     \* ConnectionManager::_connections
  connected,   \* Connection::_connected
  open,        \* Connection::_socket is open
  readOp,      \* the async_read_some of a connection
  batch,       \* the messages it has read and not handled
  writing,     \* some async_write of the connection is not completed
  running,     \* the connection whose read handler runs
  asked,       \* history: filters the client holds subscriptions to
  left,        \* history: filters whose subscriptions have been left behind at
               \* the address, by a connection closed with them or before it
               \* subscribed
  received,    \* history: how many publishes the client has been sent
  accepts, reads  \* history: completed accepts and reads with data

broker == <<subs, sent>>
history == <<asked, left, received, accepts, reads>>
objects == <<managed, connected, open, readOp, batch, writing>>
vars == <<broker, accept, listening, signal, objects, running, history>>

PS == INSTANCE PubSub WITH Subscriber <- Address

\* Who keeps a Connection alive: the manager, and the handlers that captured
\* self, waiting or running.
Alive(c) == c \in managed \/ readOp[c] # "none" \/ writing[c] \/ running = c

\* Messages are there to be handled only while a read handler has them.
TypeOK ==
  /\ subs \in [Filter \X Address -> Nat]
  /\ sent \in [topic : Topic \cup {<<>>}, copies : [Filter \X Address -> Nat]]
  /\ accept \in {"pending", "ready", "failed", "aborted", "none"}
  /\ listening \in BOOLEAN
  /\ signal \in {"waiting", "ready", "done"}
  /\ managed \subseteq Address
  /\ connected \in [Address -> BOOLEAN]
  /\ open \in [Address -> BOOLEAN]
  /\ readOp \in [Address -> {"none", "pending", "ready", "eof", "aborted", "badfd"}]
  /\ batch \in [Address -> Seq(Message)]
  /\ \A c \in Address :
       /\ Len(batch[c]) <= MaxBatch
       /\ batch[c] # <<>> => readOp[c] = "ready" \/ running \in {c, Crashed}
  /\ writing \in [Address -> BOOLEAN]
  /\ running \in Address \cup {NoOne, Crashed}
  /\ asked \in [Address -> SUBSET Filter]
  /\ left \in [Address -> SUBSET Filter]
  /\ received \in [Address -> Nat]
  /\ accepts \in 0..MaxAccepts /\ reads \in 0..MaxReads

\* The constructor: it waits for a signal and for a first connection.
Init ==
  /\ PS!Init
  /\ accept = "pending" /\ listening = TRUE /\ signal = "waiting"
  /\ managed = {}
  /\ connected = [c \in Address |-> FALSE]
  /\ open = [c \in Address |-> FALSE]
  /\ readOp = [c \in Address |-> "none"]
  /\ batch = [c \in Address |-> <<>>]
  /\ writing = [c \in Address |-> FALSE]
  /\ running = NoOne
  /\ asked = [c \in Address |-> {}]
  /\ left = [c \in Address |-> {}]
  /\ received = [c \in Address |-> 0]
  /\ accepts = 0 /\ reads = 0

-----------------------------------------------------------------------------
(* Clients and the operating system.                                       *)

\* A connection is there to be accepted.
AcceptCompletes ==
  /\ accept = "pending" /\ listening
  /\ accepts < MaxAccepts /\ \E c \in Address : ~Alive(c)
  /\ accept' = "ready"
  /\ accepts' = accepts + 1
  /\ UNCHANGED <<broker, listening, signal, objects, running, asked, left, received, reads>>

\* A connection was lost before it could be accepted.
AcceptFails ==
  /\ accept = "pending" /\ listening
  /\ accepts < MaxAccepts
  /\ accept' = "failed"
  /\ accepts' = accepts + 1
  /\ UNCHANGED <<broker, listening, signal, objects, running, asked, left, received, reads>>

SignalArrives ==
  /\ signal = "waiting"
  /\ signal' = "ready"
  /\ UNCHANGED <<broker, accept, listening, objects, running, history>>

ReadCompletes(c, b) ==
  /\ readOp[c] = "pending" /\ open[c]
  /\ reads < MaxReads
  /\ readOp' = [readOp EXCEPT ![c] = "ready"]
  /\ batch' = [batch EXCEPT ![c] = b]
  /\ reads' = reads + 1
  /\ UNCHANGED <<broker, accept, listening, signal, managed, connected, open,
                 writing, running, asked, left, received, accepts>>

\* The client closes, or its connection breaks.
ReadEnds(c) ==
  /\ readOp[c] = "pending" /\ open[c]
  /\ left' = [left EXCEPT ![c] = @ \cup asked[c]]
  /\ readOp' = [readOp EXCEPT ![c] = "eof"]
  /\ UNCHANGED <<broker, accept, listening, signal, managed, connected, open,
                 batch, writing, running, asked, received, accepts, reads>>

-----------------------------------------------------------------------------
(* The handlers.                                                           *)

\* doRead, once the object and its socket are as the primed variables say.
\* A read of a closed socket completes at once with an error.
ReadStarted(c) ==
  CASE ~connected'[c] -> "none"
    [] connected'[c] /\ open'[c] -> "pending"
    [] OTHER -> "badfd"

\* (Mutant: the acceptor is not asked whether it is still open.)
MayStartAlways == accept = "ready"

\* There is a new connection and the server still listens.
MayStart == listening /\ accept = "ready"

\* The accept handler: a server that has stopped listening does nothing more,
\* otherwise the new connection is started and the next one awaited.
RunAccept ==
  /\ running = NoOne
  /\ accept \in {"ready", "failed", "aborted"}
  /\ IF MayStart
     THEN \E c \in Address :
            /\ ~Alive(c)
            /\ managed' = managed \cup {c}
            /\ connected' = [connected EXCEPT ![c] = TRUE]
            /\ open' = [open EXCEPT ![c] = TRUE]
            /\ readOp' = [readOp EXCEPT ![c] = ReadStarted(c)]
            /\ batch' = [batch EXCEPT ![c] = <<>>]
            /\ asked' = [asked EXCEPT ![c] = {}]
            /\ received' = [received EXCEPT ![c] = 0]
     ELSE UNCHANGED <<managed, connected, open, readOp, batch, asked, received>>
  /\ accept' = IF listening THEN "pending" ELSE "none"
  /\ UNCHANGED <<broker, listening, signal, writing, running, left, accepts, reads>>

\* Closing a socket or an acceptor aborts the operation that waits on it.
Aborted(op) == IF op = "pending" THEN "aborted" ELSE op

\* Connection::stop on each connection of C.
Stop(C) ==
  /\ open' = [c \in Address |-> open[c] /\ c \notin C]
  /\ readOp' = [c \in Address |-> IF c \in C THEN Aborted(readOp[c]) ELSE readOp[c]]

\* The signal handler: close the acceptor and stop every connection.
RunSignal ==
  /\ running = NoOne
  /\ signal = "ready"
  /\ signal' = "done"
  /\ listening' = FALSE
  /\ accept' = Aborted(accept)
  /\ Stop(managed)
  /\ managed' = {}
  /\ left' = [c \in Address |-> left[c] \cup (IF c \in managed THEN asked[c] ELSE {})]
  /\ UNCHANGED <<broker, connected, batch, writing, running, asked, received, accepts, reads>>

\* The read handler with data.
RunRead(c) ==
  /\ running = NoOne
  /\ readOp[c] = "ready"
  /\ running' = c
  /\ readOp' = [readOp EXCEPT ![c] = "none"]
  /\ UNCHANGED <<broker, accept, listening, signal, managed, connected, open,
                 batch, writing, history>>

\* (Mutant: the loop may stop early.)
StopsAnywhere(c) == TRUE

AllHandled(c) == batch[c] = <<>>

\* It has handled all its messages and goes on reading.
FinishRead(c) ==
  /\ running = c /\ AllHandled(c)
  /\ running' = NoOne
  /\ UNCHANGED <<connected, open>>
  /\ readOp' = [readOp EXCEPT ![c] = ReadStarted(c)]
  /\ UNCHANGED <<broker, accept, listening, signal, managed, batch, writing, history>>

\* The read handler with an error: the manager lets go of the connection and
\* closes it.  The broker is not told.
RunReadError(c) ==
  /\ running = NoOne
  /\ readOp[c] \in {"eof", "badfd"}
  /\ readOp' = [readOp EXCEPT ![c] = "none"]
  /\ managed' = managed \ {c}
  /\ open' = [open EXCEPT ![c] = FALSE]
  /\ UNCHANGED <<broker, accept, listening, signal, connected, batch, writing, running, history>>

\* The read handler of a read that was aborted only writes to the log.
RunReadAborted(c) ==
  /\ running = NoOne
  /\ readOp[c] = "aborted"
  /\ readOp' = [readOp EXCEPT ![c] = "none"]
  /\ UNCHANGED <<broker, accept, listening, signal, managed, connected, open,
                 batch, writing, running, history>>

\* The write handler does nothing, whatever became of the write.
WritesComplete(c) ==
  /\ running = NoOne
  /\ writing[c]
  /\ writing' = [writing EXCEPT ![c] = FALSE]
  /\ UNCHANGED <<broker, accept, listening, signal, managed, connected, open,
                 readOp, batch, running, history>>

-----------------------------------------------------------------------------
(* MqttServer::newMessage, called by the running read handler.             *)

\* Connection::newMessage on each connection of C: one that is disconnected
\* writes nothing.  What a call on an object that is gone does is undefined:
\* it passes unnoticed or the process crashes.
NewMessage(C) ==
  /\ writing' = [c \in Address |-> writing[c] \/ (c \in C /\ Alive(c) /\ connected[c])]
  /\ running' \in {running} \cup {Crashed : c \in {d \in C : ~Alive(d)}}

\* (Mutant: the broker is not told.)
BrokerUnsubscribeNothing(c, fs) == UNCHANGED broker

BrokerUnsubscribe(c, fs) == PS!Unsubscribe(c, fs)

\* (Mutant: the flag is cleared and the socket left alone.)
ConnectionDisconnectFlagOnly(c) ==
  /\ connected' = [connected EXCEPT ![c] = FALSE]
  /\ UNCHANGED <<open, readOp>>

ConnectionDisconnect(c) ==
  /\ connected' = [connected EXCEPT ![c] = FALSE]
  /\ Stop({c})

\* The next message of the running handler.
Handling(c, type) == running = c /\ batch[c] # <<>> /\ Head(batch[c]).type = type

MessageTaken(c) == batch' = [batch EXCEPT ![c] = Tail(@)]

Unmoved == UNCHANGED <<accept, listening, signal, managed, accepts, reads>>

\* CONNECT is always accepted and PINGREQ answered.
HandleConnectOrPing(c) ==
  /\ Handling(c, "CONNECT") \/ Handling(c, "PINGREQ")
  /\ NewMessage({c})
  /\ MessageTaken(c)
  /\ Unmoved /\ UNCHANGED <<broker, connected, open, readOp, asked, left, received>>

HandlePublish(c) ==
  /\ Handling(c, "PUBLISH")
  /\ PS!Publish(Head(batch[c]).topic)
  /\ LET receivers == {x[2] : x \in {y \in Filter \X Address : sent'.copies[y] > 0}}
     IN  /\ NewMessage(receivers)
         /\ received' = [d \in Address |->
                           IF d \in receivers /\ Alive(d) /\ connected[d]
                             THEN received[d] + 1 ELSE received[d]]
  /\ MessageTaken(c)
  /\ Unmoved /\ UNCHANGED <<connected, open, readOp, asked, left>>

HandleSubscribe(c) ==
  /\ Handling(c, "SUBSCRIBE")
  /\ PS!Subscribe(c, Head(batch[c]).topics)
  /\ asked' = [asked EXCEPT ![c] = @ \cup ToSet(Head(batch[c]).topics)]
  /\ left' = [left EXCEPT ![c] = IF open[c] THEN @ ELSE @ \cup ToSet(Head(batch[c]).topics)]
  /\ NewMessage({c})
  /\ MessageTaken(c)
  /\ Unmoved /\ UNCHANGED <<connected, open, readOp, received>>

HandleUnsubscribe(c) ==
  LET fs == Head(batch[c]).topics
  IN  /\ Handling(c, "UNSUBSCRIBE")
      /\ BrokerUnsubscribe(c, fs)
      /\ asked' = [asked EXCEPT ![c] = {f \in @ : ~PS!Named(fs, f)}]
      /\ left' = [left EXCEPT ![c] = {f \in @ : ~PS!Named(fs, f)}]
      /\ NewMessage({c})
      /\ MessageTaken(c)
      /\ Unmoved /\ UNCHANGED <<connected, open, readOp, received>>

\* The subscriptions end and the socket is closed; the manager keeps the
\* connection, and messages behind this one are still handled.
HandleDisconnect(c) ==
  /\ Handling(c, "DISCONNECT")
  /\ BrokerUnsubscribe(c, <<>>)
  /\ asked' = [asked EXCEPT ![c] = {}]
  /\ left' = [left EXCEPT ![c] = {}]
  /\ ConnectionDisconnect(c)
  /\ MessageTaken(c)
  /\ Unmoved /\ UNCHANGED <<writing, running, received>>

HandleOther(c) ==
  /\ Handling(c, "OTHER")
  /\ MessageTaken(c)
  /\ Unmoved /\ UNCHANGED <<broker, connected, open, readOp, writing, running, asked, left, received>>

HandleMessage(c) ==
  \/ HandleConnectOrPing(c)
  \/ HandlePublish(c)
  \/ HandleSubscribe(c)
  \/ HandleUnsubscribe(c)
  \/ HandleDisconnect(c)
  \/ HandleOther(c)

-----------------------------------------------------------------------------

Environment ==
  \/ AcceptCompletes
  \/ AcceptFails
  \/ SignalArrives
  \/ \E c \in Address, b \in Batch : ReadCompletes(c, b)
  \/ \E c \in Address : ReadEnds(c)

RunHandler ==
  \/ RunAccept
  \/ RunSignal
  \/ \E c \in Address :
       \/ RunRead(c)
       \/ HandleMessage(c)
       \/ FinishRead(c)
       \/ RunReadError(c)
       \/ RunReadAborted(c)
       \/ WritesComplete(c)

Next == Environment \/ RunHandler

Spec == Init /\ [][Next]_vars

\* io_service::run goes on as long as a handler is ready.
FairSpec == Spec /\ WF_vars(RunHandler)

-----------------------------------------------------------------------------

\* A connection whose client may still send is listened to: it has a read
\* under way, or its handler will start the next one.
NeverDeaf ==
  \A c \in Address :
    open[c] => connected[c] /\ (readOp[c] # "none" \/ running \in {c, Crashed})

\* The manager knows every connection with an open socket, so that a signal
\* closes them all; when it has, none is opened any more.
OpenIsManaged ==
  /\ \A c \in Address : open[c] => c \in managed
  /\ signal = "done" => ~listening /\ managed = {}

\* After a signal the io_service runs out of work and run returns, whatever
\* was under way, unless the process has crashed before.
OutOfWork ==
  /\ accept = "none" /\ running = NoOne
  /\ \A c \in Address : readOp[c] = "none" /\ ~writing[c]
Drains == signal = "ready" ~> (OutOfWork \/ running = Crashed)

\* The broker knows the address of a connection only if it is that of a live
\* object whose own client asked for just this filter, or a connection left
\* the subscription behind there: its client closed without a DISCONNECT, the
\* server was stopped, or it subscribed when its socket was closed already.
SubscribersLive ==
  \A f \in Filter, c \in Address :
    subs[<<f, c>>] > 0 => (Alive(c) /\ f \in asked[c]) \/ f \in left[c]

\* A client that has disconnected is forgotten by the broker, with whatever
\* was left at its address before: the only subscriptions it can have are
\* those of a SUBSCRIBE behind the DISCONNECT.
DisconnectedForgotten ==
  \A f \in Filter, c \in Address :
    Alive(c) /\ ~connected[c] /\ subs[<<f, c>>] > 0 => f \in left[c]

\* The client of c has been sent the publish that is being handled, so some
\* filter of fs has to be one for its topic.
SentOnlyFor(c, fs) ==
  received'[c] > received[c] => \E f \in fs : Matches(f, Head(batch[running]).topic)

\* Nobody is sent a publish without a subscription to its topic: neither a
\* client that never asked nor one that has ended what it asked for.
OnlySubscribersReceive == [][\A c \in Address : SentOnlyFor(c, asked[c])]_vars

\* The running handler takes a PUBLISH off its messages.
PublishHandled ==
  /\ running \in Address /\ batch[running] # <<>>
  /\ Head(batch[running]).type = "PUBLISH"
  /\ batch'[running] # batch[running]

\* It is sent to the client of c, if that is connected and asked for it.
SentIfFor(c, fs) ==
  PublishHandled /\ open[c] /\ (\E f \in fs : Matches(f, Head(batch[running]).topic))
    => received'[c] = received[c] + 1

\* A publish is sent to every client that is connected and holds a subscription
\* to its topic; and what one is sent that it has not asked for, or no longer,
\* comes of a subscription left behind at its address, and of nothing else.
SentAsSubscribed ==
  [][\A c \in Address :
       SentIfFor(c, asked[c]) /\ SentOnlyFor(c, asked[c] \cup left[c])]_vars
=============================================================================
