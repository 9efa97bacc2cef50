---------------------------- MODULE MqttMessages ----------------------------
(***************************************************************************)
(* The MQTT messages as bytes: a message is written (MqttX::cerealise with *)
(* a Cerealiser, the way a client would), and the server takes it up: it   *)
(* finds its type and length, decodes it (MqttX::cerealise with a          *)
(* Decerealiser), for a PUBLISH looks for the topic in the bytes, and      *)
(* answers with bytes that MqttX::cerealise makes a message of again.      *)
(*                                                                         *)
(* Characters are bytes.  The messages are well-formed ones, as clients    *)
(* send; what is read of others is not modelled.  The server answers a     *)
(* CONNECT and forwards a PUBLISH without decoding them; here they are     *)
(* decoded too, as the message classes are there to do.                    *)
(***************************************************************************)
EXTENDS Cereal, SequencesExt

CONSTANT Message  \* the messages clients write

\* The lengths MQTT has: of a string in two bytes, and of what is behind a fixed
\* header in four digits of seven bits.
MaxDigits == 4
MaxRemaining == 128^MaxDigits - 1

Strings == {s \in Seq(Byte) : Len(s) <= 65535}
Shorts == 0..65535
TypeCode ==
  [CONNECT |-> 1, CONNACK |-> 2, PUBLISH |-> 3, SUBSCRIBE |-> 8, SUBACK |-> 9,
   UNSUBSCRIBE |-> 10, UNSUBACK |-> 11, PINGREQ |-> 12, PINGRESP |-> 13]

\* The flags of a CONNECT in their order - user name, password, will retain,
\* will QoS, will, clear, reserved - with their widths.
FlagWidths == <<1, 1, 1, 2, 1, 1, 1>>

\* A string that the flags say is not there is empty in the decoded message.
IsConnect(m) ==
  /\ m.type = "CONNECT"
  /\ m \in [type : {"CONNECT"}, protoName : Strings, protoVersion : Byte,
            flags : [1..7 -> 0..3], keepAlive : Shorts, clientId : Strings,
            willTopic : Strings, willMessage : Strings, userName : Strings, password : Strings]
  /\ \A i \in 1..7 : m.flags[i] < 2^FlagWidths[i]
  /\ m.flags[5] = 0 => m.willTopic = <<>> /\ m.willMessage = <<>>
  /\ m.flags[1] = 0 => m.userName = <<>>
  /\ m.flags[2] = 0 => m.password = <<>>

\* The strings a CONNECT ends with, in the order MQTT has them.
StringsOf(m) ==
  <<m.clientId>> \o (IF m.flags[5] = 1 THEN <<m.willTopic, m.willMessage>> ELSE <<>>)
                 \o (IF m.flags[1] = 1 THEN <<m.userName>> ELSE <<>>)
                 \o (IF m.flags[2] = 1 THEN <<m.password>> ELSE <<>>)

\* A message with no quality of service has no id.
IsPublish(m) ==
  /\ m.type = "PUBLISH"
  /\ m \in [type : {"PUBLISH"}, dup : 0..1, qos : 0..2, retain : 0..1,
            topic : Strings, payload : Seq(Byte), msgId : Shorts]
  /\ m.qos = 0 => m.msgId = 0

IsSubscribe(m) ==
  /\ m.type = "SUBSCRIBE"
  /\ m \in [type : {"SUBSCRIBE"}, msgId : Shorts,
            topics : Seq([topic : Strings, qos : 0..2])]

IsUnsubscribe(m) ==
  /\ m.type = "UNSUBSCRIBE"
  /\ m \in [type : {"UNSUBSCRIBE"}, msgId : Shorts, topics : Seq(Strings)]

IsMessage(m) ==
  \/ IsConnect(m)
  \/ IsPublish(m)
  \/ IsSubscribe(m)
  \/ IsUnsubscribe(m)
  \/ m = [type |-> "PINGREQ"]

\* The bytes MQTT has behind the fixed header of each message.
SumOf(lengths) ==
  LET sum[i \in 0..Len(lengths)] == IF i = 0 THEN 0 ELSE sum[i - 1] + lengths[i]
  IN  sum[Len(lengths)]
Remaining(m) ==
  CASE m.type = "CONNECT" ->
         6 + Len(m.protoName)
           + SumOf([i \in 1..Len(StringsOf(m)) |-> Len(StringsOf(m)[i]) + 2])
    [] m.type = "PINGREQ" -> 0
    [] m.type = "PUBLISH" ->
         2 + Len(m.topic) + (IF m.qos = 0 THEN 0 ELSE 2) + Len(m.payload)
    [] m.type = "SUBSCRIBE" ->
         2 + SumOf([i \in 1..Len(m.topics) |-> Len(m.topics[i].topic) + 3])
    [] m.type = "UNSUBSCRIBE" ->
         2 + SumOf([i \in 1..Len(m.topics) |-> Len(m.topics[i]) + 2])

ASSUME MessageAssumption ==
  \A m \in Message : IsMessage(m) /\ Remaining(m) <= MaxRemaining

-----------------------------------------------------------------------------
(* MqttFixedHeader                                                         *)

\* Seven bits of the length, and whether more follow.
Digit(x) == IF x \div 128 > 0 THEN (x % 128) | 128 ELSE x % 128

SetRemainingSize(w, remaining) ==
  LET digits[x \in 0..MaxRemaining] ==
        <<Digit(x)>> \o (IF x \div 128 > 0 THEN digits[x \div 128] ELSE <<>>)
  IN  WriteBytes(w, digits[remaining])

\* What there is after so many rounds of the do loop.
GetRemainingSize(r) ==
  LET rounds[n \in 0..MaxDigits] ==
        IF n = 0 THEN [value |-> 0, multiplier |-> 1, more |-> TRUE, reader |-> r]
        ELSE LET last == rounds[n - 1]
                 digit == ReadByte(last.reader)
             IN  IF last.more
                 THEN [value      |-> last.value + (digit.value % 128) * last.multiplier,
                       multiplier |-> last.multiplier * 128,
                       more       |-> digit.value \div 128 = 1,
                       reader     |-> digit.reader]
                 ELSE last
  IN  rounds[MaxDigits]

WriteHeader(w, h) ==
  LET type == WriteBits(w, TypeCode[h.type], 4)
      dup == WriteBits(type, h.dup, 1)
      qos == WriteBits(dup, h.qos, 2)
      retain == WriteBits(qos, h.retain, 1)
  IN  SetRemainingSize(retain, h.remaining)

ReadHeader(r) ==
  LET type == ReadBits(r, 4)
      dup == ReadBits(type.reader, 1)
      qos == ReadBits(dup.reader, 2)
      retain == ReadBits(qos.reader, 1)
      remaining == GetRemainingSize(retain.reader)
  IN  [value |-> [type |-> type.value, dup |-> dup.value, qos |-> qos.value,
                  retain |-> retain.value, remaining |-> remaining.value],
       reader |-> remaining.reader]

-----------------------------------------------------------------------------
(* MqttConnect                                                             *)

\* n things, one after another, read by Read(_) from r on.
ReadMany(Read(_), r, n) ==
  LET reads[i \in 0..n] ==
        IF i = 0 THEN [value |-> <<>>, reader |-> r]
        ELSE LET so_far == reads[i - 1]
                 one == Read(so_far.reader)
             IN  [value |-> Append(so_far.value, one.value), reader |-> one.reader]
  IN  reads[n]

ReadFlags(r) ==
  LET reads[i \in 0..7] ==
        IF i = 0 THEN [value |-> <<>>, reader |-> r]
        ELSE LET so_far == reads[i - 1]
                 one == ReadBits(so_far.reader, FlagWidths[i])
             IN  [value |-> Append(so_far.value, one.value), reader |-> one.reader]
  IN  reads[7]

\* A string that is read only if it is there; otherwise it stays as it was made.
ReadIf(there, r) == IF there THEN ReadString(r) ELSE [value |-> <<>>, reader |-> r]

\* The flags of the strings, as MqttConnect has them in three members.
HasUserName(flags) == flags[1] = 1
HasPassword(flags) == flags[2] = 1
HasWill(flags) == flags[5] = 1

\* (Mutant: the password is read first.)
ReadLoginPasswordFirst(flags, r) ==
  LET password == ReadIf(HasPassword(flags), r)
      userName == ReadIf(HasUserName(flags), password.reader)
  IN  [userName |-> userName.value, password |-> password.value]

ReadLogin(flags, r) ==
  LET userName == ReadIf(HasUserName(flags), r)
      password == ReadIf(HasPassword(flags), userName.reader)
  IN  [userName |-> userName.value, password |-> password.value]

ReadConnect(r) ==
  LET header       == ReadHeader(r)
      protoName    == ReadString(header.reader)
      protoVersion == ReadByte(protoName.reader)
      flags        == ReadFlags(protoVersion.reader)
      keepAlive    == ReadShort(flags.reader)
      clientId     == ReadString(keepAlive.reader)
      willTopic    == ReadIf(HasWill(flags.value), clientId.reader)
      willMessage  == ReadIf(HasWill(flags.value), willTopic.reader)
      login        == ReadLogin(flags.value, willMessage.reader)
  IN  [type |-> "CONNECT", protoName |-> protoName.value,
       protoVersion |-> protoVersion.value, flags |-> flags.value,
       keepAlive |-> keepAlive.value, clientId |-> clientId.value,
       willTopic |-> willTopic.value, willMessage |-> willMessage.value,
       userName |-> login.userName, password |-> login.password]

\* Strings, or a list of topics, written one behind the other.
WriteMany(w, pieces) == WriteBytes(w, FlattenSeq(pieces))

StringBytes(chars) == WriteString(EmptyWriter, chars).bytes

\* The client's part: the bits of the flags are those of one byte.
WriteConnect(m) ==
  LET f         == m.flags
      flags     == 128 * f[1] + 64 * f[2] + 32 * f[3] + 8 * f[4] + 4 * f[5] + 2 * f[6] + f[7]
      protocol  == WriteByte(WriteString(EmptyWriter, m.protoName), m.protoVersion)
      keepAlive == WriteShort(WriteByte(protocol, flags), m.keepAlive)
      strings   == [i \in 1..Len(StringsOf(m)) |-> StringBytes(StringsOf(m)[i])]
      rest      == WriteMany(keepAlive, strings).bytes
      header    == [type |-> "CONNECT", dup |-> 0, qos |-> 0, retain |-> 0,
                    remaining |-> Len(rest)]
  IN  WriteBytes(WriteHeader(EmptyWriter, header), rest).bytes

-----------------------------------------------------------------------------
(* MqttPublish                                                             *)

\* The constructor's computation.
PublishRemaining(m) ==
  LET topicLen == Len(m.topic) + 2
  IN  (IF m.qos # 0 THEN topicLen + 2 ELSE topicLen) + Len(m.payload)

WritePublish(m) ==
  LET header == [type |-> "PUBLISH", dup |-> m.dup, qos |-> m.qos,
                 retain |-> m.retain, remaining |-> PublishRemaining(m)]
      topic == WriteString(WriteHeader(EmptyWriter, header), m.topic)
      msgId == IF m.qos # 0 THEN WriteShort(topic, m.msgId) ELSE topic
  IN  WriteBytes(msgId, m.payload).bytes

\* A message with a quality of service and too short to have an id, by what
\* the reader takes for too short.
SaidToHaveNoId(h) == h.qos # 0 /\ h.remaining < 7

\* (Mutant: the quality of service is not looked at.)
HasIdWhenLong(h) == h.remaining >= 7

HasId(h) == h.qos # 0 /\ ~SaidToHaveNoId(h)

\* (Mutant: an id is taken off whether there is one or not.)
PayloadLenBehindId(h, topic) == h.remaining - (Len(topic) + 2) - 2

PayloadLen(h, topic) ==
  LET behindTopic == h.remaining - (Len(topic) + 2)
  IN  IF HasId(h) THEN behindTopic - 2 ELSE behindTopic

ReadPublish(r) ==
  LET header == ReadHeader(r)
      h == header.value
      topic == ReadString(header.reader)
      msgId == IF HasId(h)
               THEN ReadShort(topic.reader)
               ELSE [value |-> 0, reader |-> topic.reader]
      payload == ReadBytes(msgId.reader, PayloadLen(h, topic.value))
  IN  [type |-> "PUBLISH", dup |-> h.dup, qos |-> h.qos, retain |-> h.retain,
       topic |-> topic.value, payload |-> payload.value, msgId |-> msgId.value]

-----------------------------------------------------------------------------
(* MqttSubscribe and MqttUnsubscribe                                       *)

WriteTopic(w, t) == WriteByte(WriteString(w, t.topic), t.qos)
ReadTopic(r) ==
  LET topic == ReadString(r)
      qos == ReadByte(topic.reader)
  IN  [value |-> [topic |-> topic.value, qos |-> qos.value], reader |-> qos.reader]

\* grainRawArray: element after element while there are bytes left.
ReadRawArray(Read(_), r) ==
  LET left(n) == BytesLeft(ReadMany(Read, r, n).reader)
      end == CHOOSE n \in 0..BytesLeft(r) : left(n) = 0 /\ \A m \in 0..(n - 1) : left(m) > 0
  IN  ReadMany(Read, r, end).value

\* The client's part, with the quality of service MQTT asks for here.  The
\* length behind the fixed header is that of the bytes behind it.
WriteRequest(m) ==
  LET msgId == WriteShort(EmptyWriter, m.msgId)
      piece(t) == IF m.type = "SUBSCRIBE" THEN WriteTopic(EmptyWriter, t).bytes
                                          ELSE StringBytes(t)
      rest == WriteMany(msgId, [i \in 1..Len(m.topics) |-> piece(m.topics[i])]).bytes
      header == [type |-> m.type, dup |-> 0, qos |-> 1, retain |-> 0,
                 remaining |-> Len(rest)]
  IN  WriteBytes(WriteHeader(EmptyWriter, header), rest).bytes

\* newMessage reads the header for the constructor, resets the Decerealiser
\* and reads the message, header included.
ReadRequest(type, r) ==
  LET again == ReadHeader(Reset(ReadHeader(r).reader))
      msgId == ReadShort(again.reader)
  IN  [type |-> type, msgId |-> msgId.value,
       topics |-> IF type = "SUBSCRIBE" THEN ReadRawArray(ReadTopic, msgId.reader)
                                        ELSE ReadRawArray(ReadString, msgId.reader)]

-----------------------------------------------------------------------------
(* The answers: the bytes newMessage writes, and how MqttConnack,          *)
(* MqttSuback and MqttUnsuback read them.  A PINGRESP is a header only.    *)

\* (Mutant: the halves of the id are swapped.)
IdBytesSwapped(msgId) == <<msgId % 256, msgId \div 256>>

IdBytes(msgId) == <<msgId \div 256, msgId % 256>>

Answer(m) ==
  CASE m.type = "CONNECT"     -> <<32, 2, 0, 0>>
    [] m.type = "PINGREQ"     -> <<208, 0>>
    [] m.type = "SUBSCRIBE"   -> <<144, 3>> \o IdBytes(m.msgId) \o <<0>>
    [] m.type = "UNSUBSCRIBE" -> <<176, 2>> \o IdBytes(m.msgId)

ReadConnack(r) ==
  LET reserved == ReadByte(r) IN [code |-> ReadByte(reserved.reader).value]

ReadSuback(r) ==
  LET msgId == ReadShort(r)
  IN  [msgId |-> msgId.value,
       qos |-> ReadMany(ReadByte, msgId.reader, BytesLeft(msgId.reader)).value]

ReadUnsuback(r) == [msgId |-> ReadShort(r).value]

ReadAnswer(r) ==
  LET header == ReadHeader(r)
      code   == header.value.type
  IN  [header |-> header.value,
       body   |-> CASE code = TypeCode.CONNACK  -> ReadConnack(header.reader)
                    [] code = TypeCode.SUBACK   -> ReadSuback(header.reader)
                    [] code = TypeCode.UNSUBACK -> ReadUnsuback(header.reader)
                    [] code = TypeCode.PINGRESP -> [nothing |-> 0]]

-----------------------------------------------------------------------------
(* What the server does without decoding.                                  *)

GetMessageType(bytes) ==
  CHOOSE type \in DOMAIN TypeCode : TypeCode[type] = bytes[1] \div 16

NoSpan == [start |-> 1, length |-> 0]

\* (Mutant: the bytes of the length are taken for characters.)
GetPublishTopicAtLength(bytes) == [start |-> 3, length |-> bytes[3] * 256 + bytes[4]]

\* Where the topic is: its first byte, and its length.
GetPublishTopic(bytes) ==
  IF Len(bytes) < 4 THEN NoSpan
  ELSE [start |-> 5, length |-> bytes[3] * 256 + bytes[4]]

\* (Mutant: the fixed header is not counted.)
TotalLengthBehindHeader(bytes) == bytes[2]

\* MqttStream::totalLength, once the fixed header is there.
TotalLength(bytes) == bytes[2] + 2

-----------------------------------------------------------------------------

VARIABLES
  sent,   \* the message
  bytes,  \* its bytes, once it is written
  taken,  \* what is read of them
  answer  \* the bytes the server answers with

vars == <<sent, bytes, taken, answer>>

Nothing == [type |-> "nothing"]

\* What the server takes up is a message again, as a client could have sent.
TypeOK ==
  /\ sent \in Message
  /\ bytes \in Seq(Byte)
  /\ taken # Nothing => bytes # <<>> /\ IsMessage(taken)
  /\ answer \in Seq(Byte)

Init == sent \in Message /\ bytes = <<>> /\ taken = Nothing /\ answer = <<>>

Write ==
  /\ bytes = <<>>
  /\ bytes' = CASE sent.type = "CONNECT" -> WriteConnect(sent)
                [] sent.type = "PINGREQ" -> <<192, 0>>
                [] sent.type = "PUBLISH" -> WritePublish(sent)
                [] OTHER                 -> WriteRequest(sent)
  /\ UNCHANGED <<sent, taken, answer>>

\* newMessage's switch chooses how the bytes are read.
Take ==
  /\ bytes # <<>> /\ taken = Nothing
  /\ LET type == GetMessageType(bytes)
     IN  taken' = CASE type = "CONNECT" -> ReadConnect(Reader(bytes))
                    [] type = "PINGREQ" -> [type |-> type]
                    [] type = "PUBLISH" -> ReadPublish(Reader(bytes))
                    [] OTHER            -> ReadRequest(type, Reader(bytes))
  /\ UNCHANGED <<sent, bytes, answer>>

\* newMessage answers what it has read; a PUBLISH is not answered.
Reply ==
  /\ taken # Nothing /\ taken.type # "PUBLISH" /\ answer = <<>>
  /\ answer' = Answer(taken)
  /\ UNCHANGED <<sent, bytes, taken>>

Next == Write \/ Take \/ Reply

Spec == Init /\ [][Next]_vars

-----------------------------------------------------------------------------

\* A SUBSCRIBE or UNSUBSCRIBE is read as it was written, whatever its length:
\* its topics end where its bytes do.  So is a CONNECT: whichever of its strings
\* are there, each is read as the one it is.
RequestReadBack == taken # Nothing /\ sent.type # "PUBLISH" => taken = sent

\* Every answer is read as the answer to its message: it has the right type,
\* as many bytes as it says, the id of a request, and it accepts a CONNECT.
AnswerReadBack ==
  answer # <<>> =>
    LET a == ReadAnswer(Reader(answer))
    IN  /\ a.header.type = TypeCode[sent.type] + 1
        /\ a.header.remaining = Len(answer) - 2
        /\ sent.type = "CONNECT" => a.body.code = 0
        /\ sent.type \in {"SUBSCRIBE", "UNSUBSCRIBE"} => a.body.msgId = sent.msgId

\* A PUBLISH is read as it was written, with a length of one byte or several,
\* unless the reader takes it to be too short for its id.
PublishReadBack ==
  taken # Nothing /\ sent.type = "PUBLISH" =>
    taken = sent \/ (sent.qos # 0 /\ Remaining(sent) < 7)

\* The topic is looked for in the right place exactly when the length of the
\* message takes one byte, whether or not there is an id.
TopicWhereItIs ==
  bytes # <<>> /\ sent.type = "PUBLISH" =>
    (GetPublishTopic(bytes)
       = [start |-> Len(bytes) - Remaining(sent) + 3, length |-> Len(sent.topic)]
     <=> Remaining(sent) < 128)

\* The stream cuts a message right exactly when its length takes one byte.
CutRight ==
  bytes # <<>> => (TotalLength(bytes) = Len(bytes) <=> Remaining(sent) < 128)

\* A PUBLISH said to have a quality of service "but no message ID" has none.
NoIdMeansNone ==
  taken # Nothing /\ sent.type = "PUBLISH" =>
    (SaidToHaveNoId(ReadHeader(Reader(bytes)).value) =>
       Remaining(sent) < 2 + Len(sent.topic) + 2)
=============================================================================
