--------------------------- MODULE MCMqttMessages ---------------------------
(* Lengths on both sides of 7, where a PUBLISH is taken to be too short, and *)
(* of 128, 256 and 16384, where the length takes another form, and requests  *)
(* with no topics, one, several and a long one; CONNECTs with every choice   *)
(* of flags, strings that differ, and an id of one, 120 and 300 characters.  *)
EXTENDS MqttMessages

Zeros(n) == [i \in 1..n |-> 0]
Numbered(n) == [i \in 1..n |-> i % 256]

MCLength == (0..6) \cup {119, 120, 121, 122, 123, 124, 249, 250, 251, 252, 16378, 16379, 16380}

MCPublish ==
  {[type |-> "PUBLISH", dup |-> qos % 2, qos |-> qos, retain |-> retain,
    topic |-> topic, payload |-> Numbered(n), msgId |-> IF qos = 0 THEN 0 ELSE 515] :
     qos \in 0..2, retain \in {0, 1}, topic \in {Zeros(1), Numbered(2), Numbered(3)},
     n \in MCLength}

MCString == {<<47>>, <<97, 47, 35>>, Numbered(121), Numbered(130)}

MCSubscribe ==
  {[type |-> "SUBSCRIBE", msgId |-> 258, topics |-> topics] :
     topics \in UNION {[1..n -> [topic : MCString, qos : {0, 2}]] : n \in 0..2}}

MCUnsubscribe ==
  {[type |-> "UNSUBSCRIBE", msgId |-> 65535, topics |-> topics] :
     topics \in UNION {[1..n -> MCString] : n \in 0..2}}

MCConnect ==
  {[type |-> "CONNECT", protoName |-> <<77, 81>>, protoVersion |-> 3,
    flags |-> <<user, password, retain, willQos, will, clear, 0>>, keepAlive |-> 515,
    clientId |-> Numbered(idLength),
    willTopic |-> IF will = 1 THEN <<116>> ELSE <<>>,
    willMessage |-> IF will = 1 THEN <<109, 0>> ELSE <<>>,
    userName |-> IF user = 1 THEN <<117>> ELSE <<>>,
    password |-> IF password = 1 THEN <<112, 119>> ELSE <<>>] :
     user, password, retain, will, clear \in {0, 1}, willQos \in 0..2, idLength \in {1, 120, 300}}

MCMessage == {[type |-> "PINGREQ"]} \cup MCConnect \cup MCPublish \cup MCSubscribe \cup MCUnsubscribe
=============================================================================
