------------------------------- MODULE Channel -------------------------------
(***************************************************************************)
(* What MqttStream promises: the messages a client writes are handled      *)
(* whole, once and in the order they were written, however the network     *)
(* cuts the bytes up.                                                      *)
(***************************************************************************)
EXTENDS Naturals, Sequences

CONSTANT Message

VARIABLES
  sent,    \* the messages the client has written
  handled  \* the messages the server has handled

vars == <<sent, handled>>

Init == sent = <<>> /\ handled = <<>>

Send(m) == sent' = Append(sent, m) /\ UNCHANGED handled

Handle ==
  /\ Len(handled) < Len(sent)
  /\ handled' = Append(handled, sent[Len(handled) + 1])
  /\ UNCHANGED sent

Next == Handle \/ \E m \in Message : Send(m)

Spec == Init /\ [][Next]_vars
=============================================================================
