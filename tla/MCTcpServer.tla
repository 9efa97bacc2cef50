----------------------------- MODULE MCTcpServer -----------------------------
(* A topic, a filter it matches and one that it does not, and a message of  *)
(* every kind, with PINGREQ for CONNECT too, as both are only answered.     *)
(* Two addresses: one object's may be used again while another one          *)
(* publishes.  Two messages in a read and two reads are enough for a client to  *)
(* subscribe, publish to itself, unsubscribe and publish again.             *)
EXTENDS TcpServer

MCName == {"t", "u"}
MCFilter == {<<"t">>, <<"u">>}
MCTopic == {<<"t">>}
MCMessage ==
  [type : {"PINGREQ", "DISCONNECT", "OTHER"}]
    \cup [type : {"PUBLISH"}, topic : Topic]
    \cup [type : {"SUBSCRIBE"}, topics : {<<f>> : f \in Filter}]
    \cup [type : {"UNSUBSCRIBE"}, topics : {<<>>, <<<<"t">>>>}]
=============================================================================
