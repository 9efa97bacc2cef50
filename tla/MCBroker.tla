------------------------------ MODULE MCBroker ------------------------------
(* Three filters, one of each kind, that overlap on the topics. *)
EXTENDS Broker

MCName == {"finance", "ibm"}
MCFilter == {<<"finance", "ibm">>, <<"+">>, <<"finance", "#">>}
MCTopic == {<<"finance">>, <<"finance", "ibm">>, <<"ibm">>}
=============================================================================
