-------------------------- MODULE TcpServerProofs --------------------------
(***************************************************************************)
(* The server's invariants, for any number of clients, any filters, topics *)
(* and messages and data of any length: connections are listened to and    *)
(* managed, the broker knows subscriptions of live clients and those that  *)
(* were left behind, whatever clients do, and nobody is sent a publish for *)
(* any other reason.                                                       *)
(***************************************************************************)
EXTENDS TcpServer, FiniteSetTheorems, SequenceTheorems, TLAPS

Copies == [Filter \X Address -> Nat]

\* A running handler has no other read under way, and a read that can only
\* fail is one of a closed socket.
OperationsApart ==
  \A c \in Address :
    /\ running = c => readOp[c] = "none"
    /\ readOp[c] \in {"aborted", "badfd"} => ~open[c]

\* What the broker has of a connection its client asked for or it was left
\* behind, and it has all that the client asked for; once the client cannot
\* end it any more, it is left behind.
Account(c) ==
  /\ \A f \in asked[c] : subs[<<f, c>>] > 0
  /\ \A f \in Filter : subs[<<f, c>>] > 0 => f \in asked[c] \cup left[c]
  /\ asked[c] \subseteq left[c] \/ (open[c] /\ readOp[c] # "eof")

AllAccounted == \A c \in Address : Account(c)

Control == NeverDeaf /\ OpenIsManaged /\ OperationsApart

IInv == TypeOK /\ Control /\ AllAccounted

-----------------------------------------------------------------------------
(* Messages, and the broker's variables.                                   *)

LEMMA MessageFields ==
  ASSUME NEW m \in Message
  PROVE  /\ m.type = "PUBLISH" => m.topic \in Topic
         /\ m.type \in {"SUBSCRIBE", "UNSUBSCRIBE"} => m.topics \in Request
BY MessageAssumption DEF AnyMessage

LEMMA NextMessage ==
  ASSUME TypeOK, NEW c \in Address, batch[c] # <<>>
  PROVE  /\ Head(batch[c]) \in Message
         /\ Tail(batch[c]) \in Seq(Message)
         /\ Len(Tail(batch[c])) = Len(batch[c]) - 1
BY DEF TypeOK

LEMMA OccurrencesNat ==
  ASSUME NEW fs \in Request, NEW f
  PROVE  PS!Occurrences(fs, f) \in Nat
<1>1. PICK n \in 0..MaxRequest : fs \in [1..n -> Filter]
  BY DEF Request
<1>2. IsFiniteSet(1..n)
  BY <1>1, FS_Interval, MaxRequestAssumption
<1>3. {i \in DOMAIN fs : fs[i] = f} \subseteq 1..n
  BY <1>1
<1>4. IsFiniteSet({i \in DOMAIN fs : fs[i] = f})
  BY <1>2, <1>3, FS_Subset
<1>5. PS!Occurrences(fs, f) = Cardinality({i \in DOMAIN fs : fs[i] = f})
  BY DEF PS!Occurrences, PS!Cardinality, Cardinality, PS!IsFiniteSet, IsFiniteSet
<1>. QED  BY <1>4, <1>5, FS_CardinalityType

BrokerTypes ==
  /\ subs \in Copies
  /\ sent \in [topic : Topic \cup {<<>>}, copies : Copies]

LEMMA NothingSentType == PS!NothingSent \in [topic : Topic \cup {<<>>}, copies : Copies]
BY DEF PS!NothingSent, PS!NoCopies, Copies

LEMMA SubscribeTypes ==
  ASSUME BrokerTypes, NEW c \in Address, NEW fs \in Request, PS!Subscribe(c, fs)
  PROVE  BrokerTypes'
<1>1. ASSUME NEW x \in Filter \X Address
      PROVE  subs[x] + (IF x[2] = c THEN PS!Occurrences(fs, x[1]) ELSE 0) \in Nat
  BY OccurrencesNat DEF BrokerTypes, Copies
<1>2. subs' \in Copies
  BY <1>1 DEF PS!Subscribe, Copies
<1>. QED  BY <1>2, NothingSentType DEF PS!Subscribe, BrokerTypes

LEMMA UnsubscribeTypes ==
  ASSUME BrokerTypes, NEW c, NEW fs, PS!Unsubscribe(c, fs)
  PROVE  BrokerTypes'
<1>1. subs' \in Copies
  BY DEF PS!Unsubscribe, BrokerTypes, Copies
<1>. QED  BY <1>1, NothingSentType DEF PS!Unsubscribe, BrokerTypes

LEMMA PublishTypes ==
  ASSUME BrokerTypes, NEW t \in Topic, PS!Publish(t)
  PROVE  BrokerTypes'
<1>1. sent'.copies \in Copies /\ sent' = [topic |-> t, copies |-> sent'.copies]
  BY DEF PS!Publish, BrokerTypes, Copies
<1>. QED  BY <1>1 DEF PS!Publish, BrokerTypes

-----------------------------------------------------------------------------
(* What the cases of newMessage have in common.                            *)

LEMMA Handled ==
  ASSUME TypeOK, NEW c \in Address, HandleMessage(c)
  PROVE  /\ running = c /\ batch[c] # <<>>
         /\ batch' = [batch EXCEPT ![c] = Tail(batch[c])]
         /\ running' \in {c, Crashed}
         /\ UNCHANGED <<accept, listening, signal, managed, accepts, reads>>
BY DEF HandleMessage, HandleConnectOrPing, HandlePublish, HandleSubscribe, HandleUnsubscribe,
       HandleDisconnect, HandleOther, Handling, MessageTaken, Unmoved, NewMessage

LEMMA HandledTypes ==
  ASSUME TypeOK, NEW c \in Address, HandleMessage(c)
  PROVE  /\ BrokerTypes'
         /\ connected' \in [Address -> BOOLEAN]
         /\ open' \in [Address -> BOOLEAN]
         /\ readOp' \in [Address -> {"none", "pending", "ready", "eof", "aborted", "badfd"}]
         /\ \A d \in Address : readOp'[d] = readOp[d] \/ (readOp[d] = "pending" /\ readOp'[d] = "aborted")
         /\ writing' \in [Address -> BOOLEAN]
         /\ asked' \in [Address -> SUBSET Filter]
         /\ left' \in [Address -> SUBSET Filter]
         /\ received' \in [Address -> Nat]
<1>. DEFINE m == Head(batch[c])
<1>1. /\ m \in Message
      /\ m.type = "PUBLISH" => m.topic \in Topic
      /\ m.type \in {"SUBSCRIBE", "UNSUBSCRIBE"} => m.topics \in Request
  BY Handled, NextMessage, MessageFields
<1>2. BrokerTypes
  BY DEF TypeOK, BrokerTypes, Copies
<1>3. ASSUME NEW C, NewMessage(C) PROVE writing' \in [Address -> BOOLEAN]
  BY <1>3 DEF NewMessage, TypeOK, Alive
<1>4. CASE HandleConnectOrPing(c) \/ HandleOther(c)
  BY <1>2, <1>3, <1>4 DEF HandleConnectOrPing, HandleOther, TypeOK, BrokerTypes, broker
<1>5. CASE HandlePublish(c)
  <2>1. BrokerTypes'
    BY <1>1, <1>2, <1>5, PublishTypes DEF HandlePublish, Handling
  <2>2. received' \in [Address -> Nat]
    BY <1>5 DEF HandlePublish, TypeOK, Alive
  <2>. QED  BY <1>3, <1>5, <2>1, <2>2 DEF HandlePublish, TypeOK
<1>6. CASE HandleSubscribe(c)
  <2>1. BrokerTypes'
    BY <1>1, <1>2, <1>6, SubscribeTypes DEF HandleSubscribe, Handling
  <2>2. asked' \in [Address -> SUBSET Filter] /\ left' \in [Address -> SUBSET Filter]
    <3>1. ToSet(m.topics) \subseteq Filter
      BY <1>1, <1>6 DEF HandleSubscribe, Handling, Request, ToSet
    <3>. QED  BY <1>6, <3>1 DEF HandleSubscribe, TypeOK
  <2>. QED  BY <1>3, <1>6, <2>1, <2>2 DEF HandleSubscribe, TypeOK
<1>7. CASE HandleUnsubscribe(c)
  <2>1. BrokerTypes'
    BY <1>2, <1>7, UnsubscribeTypes DEF HandleUnsubscribe, BrokerUnsubscribe
  <2>2. asked' \in [Address -> SUBSET Filter] /\ left' \in [Address -> SUBSET Filter]
    BY <1>7 DEF HandleUnsubscribe, TypeOK
  <2>. QED  BY <1>3, <1>7, <2>1, <2>2 DEF HandleUnsubscribe, TypeOK
<1>8. CASE HandleDisconnect(c)
  <2>1. BrokerTypes'
    BY <1>2, <1>8, UnsubscribeTypes DEF HandleDisconnect, BrokerUnsubscribe
  <2>2. asked' \in [Address -> SUBSET Filter] /\ left' \in [Address -> SUBSET Filter]
    BY <1>8 DEF HandleDisconnect, TypeOK
  <2>3. /\ connected' \in [Address -> BOOLEAN]
        /\ open' \in [Address -> BOOLEAN]
        /\ readOp' \in [Address -> {"none", "pending", "ready", "eof", "aborted", "badfd"}]
        /\ \A d \in Address : readOp'[d] = readOp[d] \/ (readOp[d] = "pending" /\ readOp'[d] = "aborted")
    BY <1>8 DEF HandleDisconnect, ConnectionDisconnect, Stop, Aborted, TypeOK
  <2>. QED  BY <1>8, <2>1, <2>2, <2>3 DEF HandleDisconnect, TypeOK
<1>. QED  BY <1>4, <1>5, <1>6, <1>7, <1>8 DEF HandleMessage
-----------------------------------------------------------------------------
(* The type invariant.                                                     *)

LEMMA InitTypes == Init => TypeOK
<1>. SUFFICES ASSUME Init PROVE TypeOK
  OBVIOUS
<1>1. subs \in Copies /\ sent \in [topic : Topic \cup {<<>>}, copies : Copies]
  BY NothingSentType DEF Init, PS!Init, PS!NoCopies, Copies
<1>2. <<>> \in Seq(Message) /\ Len(<<>>) = 0 /\ {0, MaxBatch, MaxAccepts, MaxReads} \subseteq Nat
  BY BoundsAssumption
<1>3. \A c \in Address : batch[c] = <<>>
  BY DEF Init
<1>4. \A c \in Address : Len(batch[c]) <= MaxBatch /\ batch[c] = <<>>
  BY <1>2, <1>3
<1>5. batch \in [Address -> Seq(Message)]
  BY <1>2 DEF Init
<1>6. /\ accept = "pending" /\ listening \in BOOLEAN /\ signal = "waiting" /\ managed \subseteq Address
      /\ connected \in [Address -> BOOLEAN] /\ open \in [Address -> BOOLEAN]
      /\ readOp \in [Address -> {"none", "pending", "ready", "eof", "aborted", "badfd"}]
  BY DEF Init
<1>7. /\ writing \in [Address -> BOOLEAN] /\ running = NoOne
      /\ asked \in [Address -> SUBSET Filter] /\ left \in [Address -> SUBSET Filter]
      /\ received \in [Address -> Nat]
  BY DEF Init
<1>8. accepts \in 0..MaxAccepts /\ reads \in 0..MaxReads
  BY BoundsAssumption DEF Init
<1>. QED  BY <1>1, <1>4, <1>5, <1>6, <1>7, <1>8 DEF TypeOK, Copies

\* The messages of a handler that runs, and of no other, are taken off.
LEMMA BatchTypes ==
  ASSUME TypeOK, NEW c \in Address, HandleMessage(c), NEW d \in Address
  PROVE  /\ batch'[d] \in Seq(Message) /\ Len(batch'[d]) <= MaxBatch
         /\ batch'[d] # <<>> => readOp'[d] = "ready" \/ running' \in {d, Crashed}
<1>1. /\ running = c /\ batch[c] # <<>> /\ running' \in {c, Crashed}
      /\ batch'[d] = IF d = c THEN Tail(batch[c]) ELSE batch[d]
  <2>1. /\ running = c /\ batch[c] # <<>> /\ running' \in {c, Crashed}
        /\ batch' = [batch EXCEPT ![c] = Tail(batch[c])]
    BY Handled
  <2>. QED  BY <2>1 DEF TypeOK
<1>2. batch[d] \in Seq(Message) /\ Len(batch[d]) \in Nat /\ Len(batch[d]) <= MaxBatch
  BY DEF TypeOK
<1>3. CASE d = c
  BY <1>1, <1>2, <1>3, NextMessage, BoundsAssumption
<1>4. CASE d # c
  <2>1. batch[d] # <<>> => readOp[d] = "ready" \/ running = Crashed
    BY <1>1, <1>4 DEF TypeOK
  <2>2. running # Crashed
    BY <1>1, AddressAssumption
  <2>3. readOp[d] = "ready" => readOp'[d] = "ready"
    BY HandledTypes
  <2>. QED  BY <1>1, <1>2, <1>4, <2>1, <2>2, <2>3
<1>. QED  BY <1>3, <1>4

LEMMA NextTypes ==
  ASSUME TypeOK, [Next]_vars
  PROVE  TypeOK'
<1>. USE DEF Copies
<1>1. CASE AcceptCompletes
  BY <1>1, BoundsAssumption DEF AcceptCompletes, TypeOK, broker, objects
<1>2. CASE AcceptFails
  BY <1>2, BoundsAssumption DEF AcceptFails, TypeOK, broker, objects
<1>3. CASE SignalArrives
  BY <1>3 DEF SignalArrives, TypeOK, broker, objects, history
<1>4. ASSUME NEW c \in Address, NEW b \in Batch, ReadCompletes(c, b)
      PROVE  TypeOK'
  <2>1. b \in Seq(Message) /\ Len(b) <= MaxBatch
    BY BoundsAssumption DEF Batch
  <2>. QED  BY <1>4, <2>1, BoundsAssumption DEF ReadCompletes, TypeOK, broker
<1>5. ASSUME NEW c \in Address, ReadEnds(c)
      PROVE  TypeOK'
  BY <1>5 DEF ReadEnds, TypeOK, broker
<1>6. CASE RunAccept
  <2>1. CASE MayStart
    <3>1. PICK c \in Address :
            /\ managed' = managed \cup {c}
            /\ connected' = [connected EXCEPT ![c] = TRUE]
            /\ open' = [open EXCEPT ![c] = TRUE]
            /\ readOp' = [readOp EXCEPT ![c] = ReadStarted(c)]
            /\ batch' = [batch EXCEPT ![c] = <<>>]
            /\ asked' = [asked EXCEPT ![c] = {}]
            /\ received' = [received EXCEPT ![c] = 0]
      BY <1>6, <2>1 DEF RunAccept
    <3>2. ReadStarted(c) \in {"none", "pending", "badfd"}
      BY DEF ReadStarted
    <3>3. \A d \in Address :
            /\ batch'[d] \in Seq(Message) /\ Len(batch'[d]) <= MaxBatch
            /\ batch'[d] # <<>> => readOp'[d] = "ready" \/ running' \in {d, Crashed}
      <4>. SUFFICES ASSUME NEW d \in Address
                    PROVE  /\ batch'[d] \in Seq(Message) /\ Len(batch'[d]) <= MaxBatch
                           /\ batch'[d] # <<>> => readOp'[d] = "ready" \/ running' \in {d, Crashed}
        OBVIOUS
      <4>1. CASE d = c
        <5>1. batch'[d] = <<>>
          BY <3>1, <4>1 DEF TypeOK
        <5>. QED  BY <5>1, BoundsAssumption
      <4>2. CASE d # c
        <5>1. batch'[d] = batch[d] /\ readOp'[d] = readOp[d] /\ running' = running
          BY <1>6, <3>1, <4>2 DEF RunAccept, TypeOK
        <5>. QED  BY <5>1 DEF TypeOK
      <4>. QED  BY <4>1, <4>2
    <3>. QED  BY <1>6, <3>1, <3>2, <3>3 DEF RunAccept, TypeOK, broker
  <2>2. CASE ~MayStart
    BY <1>6, <2>2 DEF RunAccept, TypeOK, broker
  <2>. QED  BY <2>1, <2>2
<1>7. CASE RunSignal
  BY <1>7 DEF RunSignal, Stop, Aborted, TypeOK, broker, history
<1>8. ASSUME NEW c \in Address, RunRead(c)
      PROVE  TypeOK'
  BY <1>8, AddressAssumption DEF RunRead, TypeOK, broker, history, NoOne, Crashed
<1>9. ASSUME NEW c \in Address, HandleMessage(c)
      PROVE  TypeOK'
  BY <1>9, Handled, HandledTypes, BatchTypes DEF TypeOK, BrokerTypes
<1>10. ASSUME NEW c \in Address, FinishRead(c)
       PROVE  TypeOK'
  BY <1>10, AddressAssumption DEF FinishRead, AllHandled, ReadStarted, TypeOK, broker, history, NoOne, Crashed
<1>11. ASSUME NEW c \in Address, RunReadError(c)
       PROVE  TypeOK'
  BY <1>11, AddressAssumption DEF RunReadError, TypeOK, broker, history, NoOne, Crashed
<1>12. ASSUME NEW c \in Address, RunReadAborted(c)
       PROVE  TypeOK'
  BY <1>12, AddressAssumption DEF RunReadAborted, TypeOK, broker, history, NoOne, Crashed
<1>13. ASSUME NEW c \in Address, WritesComplete(c)
       PROVE  TypeOK'
  BY <1>13 DEF WritesComplete, TypeOK, broker, history
<1>14. CASE UNCHANGED vars
  BY <1>14 DEF TypeOK, vars, broker, objects, history
<1>. QED  BY <1>1, <1>2, <1>3, <1>4, <1>5, <1>6, <1>7, <1>8, <1>9, <1>10, <1>11, <1>12,
             <1>13, <1>14 DEF Next, Environment, RunHandler

-----------------------------------------------------------------------------
(* Connections are listened to and managed.                                *)

\* A handler leaves connections alone, except that a DISCONNECT ends its own.
LEMMA HandledObjects ==
  ASSUME TypeOK, NEW c \in Address, HandleMessage(c), NEW d \in Address
  PROVE  \/ connected'[d] = connected[d] /\ open'[d] = open[d] /\ readOp'[d] = readOp[d]
         \/ d = c /\ ~connected'[d] /\ ~open'[d] /\ readOp'[d] = Aborted(readOp[d])
<1>1. CASE HandleDisconnect(c)
  BY <1>1 DEF HandleDisconnect, ConnectionDisconnect, Stop, TypeOK
<1>2. CASE ~HandleDisconnect(c)
  BY <1>2 DEF HandleMessage, HandleConnectOrPing, HandlePublish, HandleSubscribe,
              HandleUnsubscribe, HandleOther
<1>. QED  BY <1>1, <1>2

\* What an accepted connection is like, and that the others stay as they are.
LEMMA Accepted ==
  ASSUME TypeOK, RunAccept, MayStart
  PROVE  \E c \in Address :
           /\ ~Alive(c) /\ managed' = managed \cup {c}
           /\ connected'[c] /\ open'[c] /\ readOp'[c] = "pending" /\ batch'[c] = <<>>
           /\ asked'[c] = {}
           /\ \A d \in Address \ {c} :
                /\ connected'[d] = connected[d] /\ open'[d] = open[d] /\ readOp'[d] = readOp[d]
                /\ batch'[d] = batch[d] /\ asked'[d] = asked[d] /\ received'[d] = received[d]
           /\ received'[c] = 0
<1>1. PICK c \in Address :
        /\ ~Alive(c)
        /\ managed' = managed \cup {c}
        /\ connected' = [connected EXCEPT ![c] = TRUE]
        /\ open' = [open EXCEPT ![c] = TRUE]
        /\ readOp' = [readOp EXCEPT ![c] = ReadStarted(c)]
        /\ batch' = [batch EXCEPT ![c] = <<>>]
        /\ asked' = [asked EXCEPT ![c] = {}]
        /\ received' = [received EXCEPT ![c] = 0]
  BY DEF RunAccept
<1>2. connected'[c] /\ open'[c]
  BY <1>1 DEF TypeOK
<1>3. ReadStarted(c) = "pending"
  BY <1>2 DEF ReadStarted
<1>. QED  BY <1>1, <1>2, <1>3 DEF TypeOK

LEMMA InitControl == Init => Control
BY AddressAssumption DEF Init, Control, NeverDeaf, OpenIsManaged, OperationsApart, NoOne

LEMMA NextControl ==
  ASSUME TypeOK, Control, [Next]_vars
  PROVE  Control'
<1>. USE DEF Control, NeverDeaf, OpenIsManaged, OperationsApart
<1>1. CASE AcceptCompletes \/ AcceptFails
  BY <1>1 DEF AcceptCompletes, AcceptFails, objects
<1>2. CASE SignalArrives
  BY <1>2 DEF SignalArrives, objects
<1>3. ASSUME NEW c \in Address, NEW b \in Batch, ReadCompletes(c, b)
      PROVE  Control'
  BY <1>3 DEF ReadCompletes, TypeOK
<1>4. ASSUME NEW c \in Address, ReadEnds(c)
      PROVE  Control'
  BY <1>4 DEF ReadEnds, TypeOK
<1>5. CASE RunAccept
  <2>1. CASE MayStart
    <3>1. running' = running /\ signal' = signal /\ listening' = listening /\ listening
      BY <1>5, <2>1 DEF RunAccept, MayStart
    <3>2. signal # "done"
      BY <3>1
    <3>3. PICK c \in Address :
            /\ ~Alive(c) /\ managed' = managed \cup {c}
            /\ connected'[c] /\ open'[c] /\ readOp'[c] = "pending"
            /\ \A d \in Address \ {c} :
                 connected'[d] = connected[d] /\ open'[d] = open[d] /\ readOp'[d] = readOp[d]
      BY <1>5, <2>1, Accepted
    <3>4. running # c
      BY <3>3 DEF Alive
    <3>5. NeverDeaf'
      BY <3>1, <3>3
    <3>6. OpenIsManaged'
      BY <3>1, <3>2, <3>3
    <3>7. OperationsApart'
      BY <3>1, <3>3, <3>4
    <3>. QED  BY <3>5, <3>6, <3>7
  <2>2. CASE ~MayStart
    BY <1>5, <2>2 DEF RunAccept
  <2>. QED  BY <2>1, <2>2
<1>6. CASE RunSignal
  <2>1. \A d \in Address : ~open'[d]
    BY <1>6 DEF RunSignal, Stop
  <2>2. \A d \in Address : running' = d => readOp'[d] = "none"
    BY <1>6 DEF RunSignal, Stop, Aborted
  <2>3. listening' = FALSE /\ managed' = {}
    BY <1>6 DEF RunSignal
  <2>4. NeverDeaf'
    BY <2>1
  <2>5. OpenIsManaged'
    BY <2>1, <2>3
  <2>6. OperationsApart'
    BY <2>1, <2>2
  <2>. QED  BY <2>4, <2>5, <2>6
<1>7. ASSUME NEW c \in Address, RunRead(c)
      PROVE  Control'
  <2>1. \A d \in Address :
          /\ open'[d] = open[d] /\ connected'[d] = connected[d]
          /\ readOp'[d] = IF d = c THEN "none" ELSE readOp[d]
          /\ running # d /\ running # Crashed
    BY <1>7, AddressAssumption DEF RunRead, TypeOK, NoOne, Crashed
  <2>2. running' = c
    BY <1>7 DEF RunRead
  <2>3. NeverDeaf'
    BY <2>1, <2>2
  <2>4. OpenIsManaged'
    BY <1>7 DEF RunRead
  <2>5. OperationsApart'
    BY <2>1, <2>2
  <2>. QED  BY <2>3, <2>4, <2>5
<1>8. ASSUME NEW c \in Address, HandleMessage(c)
      PROVE  Control'
  <2>1. /\ running = c /\ running' \in {c, Crashed}
        /\ signal' = signal /\ listening' = listening /\ managed' = managed
    BY <1>8, Handled
  <2>2. running # Crashed
    BY <2>1, AddressAssumption
  <2>3. ASSUME NEW d \in Address
        PROVE  \/ connected'[d] = connected[d] /\ open'[d] = open[d] /\ readOp'[d] = readOp[d]
               \/ d = c /\ ~connected'[d] /\ ~open'[d] /\ readOp'[d] = Aborted(readOp[d])
    BY <1>8, HandledObjects
  <2>4. NeverDeaf'
    BY <2>1, <2>2, <2>3
  <2>5. OpenIsManaged'
    BY <2>1, <2>3
  <2>6. OperationsApart'
    BY <2>1, <2>3, AddressAssumption DEF Aborted
  <2>. QED  BY <2>4, <2>5, <2>6
<1>9. ASSUME NEW c \in Address, FinishRead(c)
      PROVE  Control'
  BY <1>9, AddressAssumption DEF FinishRead, ReadStarted, TypeOK, NoOne, Crashed
<1>10. ASSUME NEW c \in Address, RunReadError(c)
       PROVE  Control'
  BY <1>10, AddressAssumption DEF RunReadError, TypeOK, NoOne, Crashed
<1>11. ASSUME NEW c \in Address, RunReadAborted(c)
       PROVE  Control'
  <2>1. ~open[c]
    BY <1>11 DEF RunReadAborted
  <2>. QED  BY <1>11, <2>1 DEF RunReadAborted, TypeOK
<1>12. ASSUME NEW c \in Address, WritesComplete(c)
       PROVE  Control'
  BY <1>12 DEF WritesComplete
<1>13. CASE UNCHANGED vars
  BY <1>13 DEF vars, objects
<1>. QED  BY <1>1, <1>2, <1>3, <1>4, <1>5, <1>6, <1>7, <1>8, <1>9, <1>10, <1>11, <1>12,
             <1>13 DEF Next, Environment, RunHandler

-----------------------------------------------------------------------------
(* Every subscription is accounted for.                                    *)

LEMMA NotRequested ==
  ASSUME NEW fs, NEW f, f \notin ToSet(fs)
  PROVE  PS!Occurrences(fs, f) = 0
<1>1. {i \in DOMAIN fs : fs[i] = f} = {}
  BY DEF ToSet
<1>2. PS!Occurrences(fs, f) = Cardinality({i \in DOMAIN fs : fs[i] = f})
  BY DEF PS!Occurrences, PS!Cardinality, Cardinality, PS!IsFiniteSet, IsFiniteSet
<1>. QED  BY <1>1, <1>2, FS_EmptySet

LEMMA Requested ==
  ASSUME NEW fs \in Request, NEW f \in ToSet(fs)
  PROVE  PS!Occurrences(fs, f) > 0
<1>1. PICK n \in 0..MaxRequest : fs \in [1..n -> Filter]
  BY DEF Request
<1>2. PICK i \in DOMAIN fs : fs[i] = f
  BY DEF ToSet
<1>3. IsFiniteSet({j \in DOMAIN fs : fs[j] = f})
  <2>1. IsFiniteSet(1..n)
    BY <1>1, FS_Interval, MaxRequestAssumption
  <2>2. {j \in DOMAIN fs : fs[j] = f} \subseteq 1..n
    BY <1>1
  <2>. QED  BY <2>1, <2>2, FS_Subset
<1>4. Cardinality({j \in DOMAIN fs : fs[j] = f}) # 0
  BY <1>2, <1>3, FS_EmptySet
<1>5. PS!Occurrences(fs, f) = Cardinality({j \in DOMAIN fs : fs[j] = f})
  BY DEF PS!Occurrences, PS!Cardinality, Cardinality, PS!IsFiniteSet, IsFiniteSet
<1>. QED  BY <1>3, <1>4, <1>5, FS_CardinalityType

\* What a step does not touch, or only leaves behind, stays accounted for.
LEMMA AccountKept ==
  ASSUME NEW d \in Address, Account(d),
         asked'[d] = asked[d], left[d] \subseteq left'[d],
         open[d] /\ readOp[d] # "eof" => open'[d] /\ readOp'[d] # "eof",
         asked[d] \subseteq Filter, \A f \in Filter : subs'[<<f, d>>] = subs[<<f, d>>]
  PROVE  Account(d)'
BY DEF Account

\* A handler changes the subscriptions and the history of its own client only.
LEMMA HandledSubscriptions ==
  ASSUME TypeOK, NEW c \in Address, HandleMessage(c), NEW d \in Address, d # c
  PROVE  /\ asked'[d] = asked[d] /\ left'[d] = left[d]
         /\ \A f \in Filter : subs'[<<f, d>>] = subs[<<f, d>>]
<1>1. subs \in Copies /\ asked \in [Address -> SUBSET Filter] /\ left \in [Address -> SUBSET Filter]
  BY DEF TypeOK, Copies
<1>2. CASE HandleConnectOrPing(c) \/ HandleOther(c) \/ HandlePublish(c)
  BY <1>2 DEF HandleConnectOrPing, HandleOther, HandlePublish, PS!Publish, broker
<1>3. CASE HandleSubscribe(c)
  <2>1. asked'[d] = asked[d] /\ left'[d] = left[d]
    BY <1>1, <1>3 DEF HandleSubscribe
  <2>2. \A f \in Filter : subs'[<<f, d>>] = subs[<<f, d>>] + 0
    BY <1>3 DEF HandleSubscribe, PS!Subscribe
  <2>3. \A f \in Filter : subs[<<f, d>>] \in Nat
    BY <1>1 DEF Copies
  <2>. QED  BY <2>1, <2>2, <2>3
<1>4. CASE HandleUnsubscribe(c) \/ HandleDisconnect(c)
  BY <1>1, <1>4 DEF HandleUnsubscribe, HandleDisconnect, BrokerUnsubscribe, PS!Unsubscribe
<1>. QED  BY <1>2, <1>3, <1>4 DEF HandleMessage

LEMMA HandledAccount ==
  ASSUME TypeOK, Control, NEW c \in Address, Account(c), HandleMessage(c)
  PROVE  Account(c)'
<1>. DEFINE m == Head(batch[c])
<1>1. readOp[c] = "none"
  BY Handled DEF Control, OperationsApart
<1>2. subs \in Copies /\ asked \in [Address -> SUBSET Filter] /\ left \in [Address -> SUBSET Filter]
  BY DEF TypeOK, Copies
<1>3. CASE HandleConnectOrPing(c) \/ HandleOther(c) \/ HandlePublish(c)
  BY <1>3 DEF HandleConnectOrPing, HandleOther, HandlePublish, PS!Publish, broker, Account
<1>4. CASE HandleSubscribe(c)
  <2>1. /\ asked'[c] = asked[c] \cup ToSet(m.topics)
        /\ left'[c] = IF open[c] THEN left[c] ELSE left[c] \cup ToSet(m.topics)
        /\ open' = open /\ readOp' = readOp
    BY <1>2, <1>4 DEF HandleSubscribe
  <2>2. ASSUME NEW f \in Filter, f \notin asked'[c] \cup left'[c]
        PROVE  ~(subs'[<<f, c>>] > 0)
    <3>1. f \notin asked[c] \cup left[c] /\ f \notin ToSet(m.topics)
      BY <2>1, <2>2
    <3>2. subs'[<<f, c>>] = subs[<<f, c>>] + 0
      <4>1. PS!Occurrences(m.topics, f) = 0
        BY <3>1, NotRequested
      <4>. QED  BY <1>4, <4>1 DEF HandleSubscribe, PS!Subscribe
    <3>3. subs[<<f, c>>] \in Nat
      BY <1>2 DEF Copies
    <3>. QED  BY <3>1, <3>2, <3>3 DEF Account
  <2>3. asked'[c] \subseteq left'[c] \/ (open'[c] /\ readOp'[c] # "eof")
    BY <1>1, <2>1 DEF Account
  <2>4. ASSUME NEW f \in asked'[c]
        PROVE  subs'[<<f, c>>] > 0
    <3>1. f \in Filter /\ m.topics \in Request
      BY <1>2, <1>4, <2>1, <2>4, NextMessage, MessageFields, HandledTypes, Handled
         DEF HandleSubscribe, Handling
    <3>2. /\ subs[<<f, c>>] \in Nat /\ PS!Occurrences(m.topics, f) \in Nat
          /\ subs'[<<f, c>>] = subs[<<f, c>>] + PS!Occurrences(m.topics, f)
      BY <1>2, <1>4, <3>1, OccurrencesNat DEF HandleSubscribe, PS!Subscribe, Copies
    <3>3. CASE f \in asked[c]
      BY <3>2, <3>3 DEF Account
    <3>4. CASE f \in ToSet(m.topics)
      BY <3>1, <3>2, <3>4, Requested
    <3>. QED  BY <2>1, <3>3, <3>4
  <2>. QED  BY <2>2, <2>3, <2>4 DEF Account
<1>5. CASE HandleUnsubscribe(c)
  <2>1. /\ asked'[c] = {f \in asked[c] : ~PS!Named(m.topics, f)}
        /\ left'[c] = {f \in left[c] : ~PS!Named(m.topics, f)}
        /\ open' = open /\ readOp' = readOp
    BY <1>2, <1>5 DEF HandleUnsubscribe
  <2>2. \A f \in Filter :
          subs'[<<f, c>>] = IF PS!Named(m.topics, f) THEN 0 ELSE subs[<<f, c>>]
    BY <1>5 DEF HandleUnsubscribe, BrokerUnsubscribe, PS!Unsubscribe
  <2>3. asked[c] \subseteq Filter
    BY <1>2
  <2>4. /\ \A f \in asked'[c] : subs'[<<f, c>>] > 0
        /\ \A f \in Filter : subs'[<<f, c>>] > 0 => f \in asked'[c] \cup left'[c]
    BY <2>1, <2>2, <2>3 DEF Account
  <2>5. asked'[c] \subseteq left'[c] \/ (open'[c] /\ readOp'[c] # "eof")
    BY <2>1 DEF Account
  <2>. QED  BY <2>4, <2>5 DEF Account
<1>6. CASE HandleDisconnect(c)
  <2>1. asked'[c] = {} /\ left'[c] = {}
    BY <1>2, <1>6 DEF HandleDisconnect
  <2>2. \A f \in Filter : subs'[<<f, c>>] = 0
    BY <1>6 DEF HandleDisconnect, BrokerUnsubscribe, PS!Unsubscribe, PS!Named
  <2>. QED  BY <2>1, <2>2 DEF Account
<1>. QED  BY <1>3, <1>4, <1>5, <1>6 DEF HandleMessage

LEMMA InitAccounts == Init => AllAccounted
BY DEF Init, PS!Init, PS!NoCopies, AllAccounted, Account

LEMMA NextAccounts ==
  ASSUME IInv, [Next]_vars
  PROVE  AllAccounted'
<1>. SUFFICES ASSUME NEW d \in Address
              PROVE  Account(d)'
  BY DEF AllAccounted
<1>. USE DEF IInv
<1>1. Account(d) /\ left \in [Address -> SUBSET Filter] /\ asked \in [Address -> SUBSET Filter]
  BY DEF AllAccounted, TypeOK
<1>2. CASE AcceptCompletes \/ AcceptFails \/ SignalArrives
  BY <1>1, <1>2, AccountKept DEF AcceptCompletes, AcceptFails, SignalArrives, broker, objects, history
<1>3. ASSUME NEW c \in Address, NEW b \in Batch, ReadCompletes(c, b)
      PROVE  Account(d)'
  BY <1>1, <1>3, AccountKept DEF ReadCompletes, TypeOK, broker
<1>4. ASSUME NEW c \in Address, ReadEnds(c)
      PROVE  Account(d)'
  <2>1. asked' = asked /\ left'[d] = (IF d = c THEN left[d] \cup asked[d] ELSE left[d])
    BY <1>1, <1>4 DEF ReadEnds
  <2>2. CASE d # c
    BY <1>1, <1>4, <2>1, <2>2, AccountKept DEF ReadEnds, TypeOK, broker
  <2>3. CASE d = c
    BY <1>1, <1>4, <2>1, <2>3 DEF ReadEnds, Account, broker
  <2>. QED  BY <2>2, <2>3
<1>5. CASE RunAccept
  <2>1. CASE MayStart
    <3>1. PICK c \in Address :
            /\ ~Alive(c)
            /\ open'[c] /\ readOp'[c] = "pending" /\ asked'[c] = {}
            /\ \A e \in Address \ {c} :
                 open'[e] = open[e] /\ readOp'[e] = readOp[e] /\ asked'[e] = asked[e]
      BY <1>5, <2>1, Accepted
    <3>2. subs' = subs /\ left' = left
      BY <1>5 DEF RunAccept, broker
    <3>3. CASE d # c
      BY <1>1, <3>1, <3>2, <3>3, AccountKept
    <3>4. CASE d = c
      <4>1. asked[c] \subseteq left[c]
        BY <1>1, <3>1, <3>4 DEF Account, Alive, Control, OpenIsManaged
      <4>. QED  BY <1>1, <3>1, <3>2, <3>4, <4>1 DEF Account
    <3>. QED  BY <3>3, <3>4
  <2>2. CASE ~MayStart
    BY <1>1, <1>5, <2>2, AccountKept DEF RunAccept, broker
  <2>. QED  BY <2>1, <2>2
<1>6. CASE RunSignal
  <2>1. /\ subs' = subs /\ asked' = asked
        /\ left'[d] = left[d] \cup (IF d \in managed THEN asked[d] ELSE {})
    BY <1>6 DEF RunSignal, broker
  <2>2. d \notin managed => asked[d] \subseteq left[d]
    BY <1>1 DEF Account, Control, OpenIsManaged
  <2>. QED  BY <1>1, <2>1, <2>2 DEF Account
<1>7. ASSUME NEW c \in Address, RunRead(c)
      PROVE  Account(d)'
  BY <1>1, <1>7, AccountKept DEF RunRead, TypeOK, broker, history
<1>8. ASSUME NEW c \in Address, HandleMessage(c)
      PROVE  Account(d)'
  <2>1. CASE d = c
    BY <1>1, <1>8, <2>1, HandledAccount
  <2>2. CASE d # c
    <3>1. open'[d] = open[d] /\ readOp'[d] = readOp[d]
      BY <1>8, <2>2, HandledObjects
    <3>. QED  BY <1>1, <1>8, <2>2, <3>1, HandledSubscriptions, AccountKept
  <2>. QED  BY <2>1, <2>2
<1>9. ASSUME NEW c \in Address, FinishRead(c)
      PROVE  Account(d)'
  BY <1>1, <1>9, AccountKept DEF FinishRead, ReadStarted, TypeOK, broker, history
<1>10. ASSUME NEW c \in Address, RunReadError(c)
       PROVE  Account(d)'
  <2>1. subs' = subs /\ asked' = asked /\ left' = left
    BY <1>10 DEF RunReadError, broker, history
  <2>2. CASE d # c
    BY <1>1, <1>10, <2>1, <2>2, AccountKept DEF RunReadError, TypeOK
  <2>3. CASE d = c
    <3>1. asked[c] \subseteq left[c]
      BY <1>1, <1>10, <2>3 DEF RunReadError, Account, Control, OperationsApart
    <3>. QED  BY <1>1, <2>1, <2>3, <3>1 DEF Account
  <2>. QED  BY <2>2, <2>3
<1>11. ASSUME NEW c \in Address, RunReadAborted(c)
       PROVE  Account(d)'
  BY <1>1, <1>11, AccountKept DEF RunReadAborted, TypeOK, broker, history
<1>12. ASSUME NEW c \in Address, WritesComplete(c)
       PROVE  Account(d)'
  BY <1>1, <1>12, AccountKept DEF WritesComplete, broker, history
<1>13. CASE UNCHANGED vars
  BY <1>1, <1>13, AccountKept DEF vars, broker, objects, history
<1>. QED  BY <1>2, <1>3, <1>4, <1>5, <1>6, <1>7, <1>8, <1>9, <1>10, <1>11, <1>12,
             <1>13 DEF Next, Environment, RunHandler

\* Messages are taken off a running handler's batch by the handler of their
\* type only.
LEMMA OnlyPublishHandled ==
  ASSUME TypeOK, Control, [Next]_vars, PublishHandled
  PROVE  HandlePublish(running)
<1>. USE DEF PublishHandled
<1>1. running # NoOne /\ readOp[running] = "none"
  BY AddressAssumption DEF Control, OperationsApart
<1>2. ASSUME NEW c \in Address, HandleMessage(c)
      PROVE  HandlePublish(running)
  BY <1>2 DEF HandleMessage, HandleConnectOrPing, HandlePublish, HandleSubscribe,
              HandleUnsubscribe, HandleDisconnect, HandleOther, Handling
<1>3. CASE Environment
  <2>1. ASSUME NEW c \in Address, NEW b \in Batch, ReadCompletes(c, b)
        PROVE  batch'[running] = batch[running]
    BY <1>1, <2>1 DEF ReadCompletes, TypeOK
  <2>. QED  BY <1>3, <2>1 DEF Environment, AcceptCompletes, AcceptFails, SignalArrives,
                              ReadEnds, objects
<1>4. CASE RunAccept \/ RunSignal
  BY <1>1, <1>4 DEF RunAccept, RunSignal
<1>5. ASSUME NEW c \in Address,
             RunRead(c) \/ FinishRead(c) \/ RunReadError(c) \/ RunReadAborted(c) \/ WritesComplete(c)
      PROVE  HandlePublish(running)
  BY <1>5 DEF RunRead, FinishRead, RunReadError, RunReadAborted, WritesComplete
<1>6. CASE UNCHANGED vars
  BY <1>6 DEF vars, objects
<1>. QED  BY <1>2, <1>3, <1>4, <1>5, <1>6 DEF Next, RunHandler

-----------------------------------------------------------------------------
(* The theorems.                                                           *)

LEMMA Invariance == Spec => []IInv
<1>1. Init => IInv
  BY InitTypes, InitControl, InitAccounts DEF IInv
<1>2. IInv /\ [Next]_vars => IInv'
  BY NextTypes, NextControl, NextAccounts DEF IInv
<1>. QED  BY <1>1, <1>2, PTL DEF Spec

\* The server's variables keep their types, and messages are there to be
\* handled only while a read handler has them.
THEOREM TypeCorrect == Spec => []TypeOK
<1>1. IInv => TypeOK
  BY DEF IInv
<1>. QED  BY <1>1, Invariance, PTL

\* doRead and its handler: a connection whose client may still send is
\* listened to, whatever handlers run in whatever order.
THEOREM AlwaysListens == Spec => []NeverDeaf
<1>1. IInv => NeverDeaf
  BY DEF IInv, Control
<1>. QED  BY <1>1, Invariance, PTL

\* ConnectionManager: every open connection is managed, and none is open or
\* accepted once the signal handler has run.
THEOREM ManagesTheOpen == Spec => []OpenIsManaged
<1>1. IInv => OpenIsManaged
  BY DEF IInv, Control
<1>. QED  BY <1>1, Invariance, PTL

\* The pointers in the broker: each is of a live connection whose own client
\* asked for the filter, or was left behind there.
THEOREM PointersAccounted == Spec => []SubscribersLive
<1>1. IInv => SubscribersLive
  <2>. SUFFICES ASSUME IInv, NEW f \in Filter, NEW c \in Address,
                       subs[<<f, c>>] > 0, f \notin left[c]
                PROVE  Alive(c) /\ f \in asked[c]
    BY DEF SubscribersLive
  <2>1. f \in asked[c] /\ open[c]
    BY DEF IInv, AllAccounted, Account
  <2>. QED  BY <2>1 DEF IInv, Control, OpenIsManaged, Alive
<1>. QED  BY <1>1, Invariance, PTL

\* Connection::disconnect comes with a broker.unsubscribe: what a disconnected
\* client has of subscriptions it asked for behind its DISCONNECT.
THEOREM ForgetsTheDisconnected == Spec => []DisconnectedForgotten
<1>1. IInv => DisconnectedForgotten
  BY DEF IInv, AllAccounted, Account, Control, NeverDeaf, DisconnectedForgotten
<1>. QED  BY <1>1, Invariance, PTL

\* MqttServer::newMessage, for a PUBLISH: every one, the first a client is sent
\* and any other, goes to all connected clients that hold a subscription to its
\* topic, and besides them only where a matching one was left behind.
THEOREM SendsToSubscribers == Spec => SentAsSubscribed
<1>1. ASSUME IInv, [Next]_vars, NEW d \in Address, received'[d] > received[d]
      PROVE  \E f \in asked[d] \cup left[d] : Matches(f, Head(batch[running]).topic)
  <2>1. received[d] \in Nat
    BY <1>1 DEF IInv, TypeOK
  <2>2. ASSUME NEW c \in Address, HandlePublish(c)
        PROVE  \E f \in asked[d] \cup left[d] : Matches(f, Head(batch[running]).topic)
    <3>1. PICK x \in Filter \X Address : sent'.copies[x] > 0 /\ x[2] = d
      BY <1>1, <2>1, <2>2 DEF HandlePublish, IInv, TypeOK
    <3>2. subs[x] > 0 /\ Matches(x[1], Head(batch[c]).topic)
      <4>1. sent'.copies[x] = IF PS!Matches(x[1], Head(batch[c]).topic) THEN subs[x] ELSE 0
        BY <2>2, <3>1 DEF HandlePublish, PS!Publish
      <4>2. PS!Matches(x[1], Head(batch[c]).topic)
        BY <3>1, <4>1
      <4>3. Matches(x[1], Head(batch[c]).topic)
        BY <4>2 DEF PS!Matches, Matches, PS!LevelMatches, LevelMatches, PS!Last, Last
      <4>. QED  BY <3>1, <4>1, <4>2, <4>3
    <3>3. x = <<x[1], d>> /\ x[1] \in Filter
      BY <3>1
    <3>4. running = c
      BY <2>2 DEF HandlePublish, Handling
    <3>. QED  BY <1>1, <3>2, <3>3, <3>4 DEF IInv, AllAccounted, Account
  <2>3. CASE RunAccept
    <3>1. MayStart
      BY <1>1, <2>1, <2>3 DEF RunAccept
    <3>2. received'[d] = received[d] \/ received'[d] = 0
      BY <1>1, <2>3, <3>1, Accepted DEF IInv
    <3>. QED  BY <1>1, <2>1, <3>2
  <2>4. ASSUME ~RunAccept, \A c \in Address : ~HandlePublish(c)
        PROVE  received' = received
    BY <1>1, <2>4 DEF Next, Environment, RunHandler, AcceptCompletes, AcceptFails,
       SignalArrives, ReadCompletes, ReadEnds, RunSignal, RunRead, FinishRead, RunReadError,
       RunReadAborted, WritesComplete, HandleMessage, HandleConnectOrPing, HandleSubscribe,
       HandleUnsubscribe, HandleDisconnect, HandleOther, history, vars
  <2>. QED  BY <1>1, <2>1, <2>2, <2>3, <2>4
<1>2. ASSUME IInv, [Next]_vars, NEW d \in Address, PublishHandled, open[d],
             NEW f \in asked[d], Matches(f, Head(batch[running]).topic)
      PROVE  received'[d] = received[d] + 1
  <2>. DEFINE t == Head(batch[running]).topic
  <2>1. HandlePublish(running)
    BY <1>2, OnlyPublishHandled DEF IInv
  <2>2. <<f, d>> \in Filter \X Address /\ subs[<<f, d>>] > 0
    BY <1>2 DEF IInv, TypeOK, AllAccounted, Account
  <2>3. sent'.copies[<<f, d>>] = IF PS!Matches(f, t) THEN subs[<<f, d>>] ELSE 0
    BY <2>1, <2>2 DEF HandlePublish, PS!Publish
  <2>4. PS!Matches(f, t)
    BY <1>2 DEF PS!Matches, Matches, PS!LevelMatches, LevelMatches, PS!Last, Last
  <2>5. d \in {x[2] : x \in {y \in Filter \X Address : sent'.copies[y] > 0}}
    BY <2>2, <2>3, <2>4
  <2>6. Alive(d) /\ connected[d]
    BY <1>2 DEF IInv, Control, NeverDeaf, OpenIsManaged, Alive
  <2>. QED  BY <2>1, <2>5, <2>6 DEF HandlePublish
<1>3. IInv /\ [Next]_vars =>
        [\A c \in Address :
           SentIfFor(c, asked[c]) /\ SentOnlyFor(c, asked[c] \cup left[c])]_vars
  BY <1>1, <1>2 DEF SentOnlyFor, SentIfFor
<1>. QED  BY <1>3, Invariance, PTL DEF Spec, SentAsSubscribed
=============================================================================
