----------------------------- MODULE MCTopicWalk -----------------------------
(* Ten filters of up to three levels, with each wildcard first, in the      *)
(* middle and last, in every combination, and topics that match several of  *)
(* them, one of them or none of the longest.                                *)
EXTENDS TopicWalk

MCName == {"a", "b"}
MCFilter ==
  {<<"a">>, <<"+">>, <<"#">>, <<"a", "b">>, <<"a", "+">>, <<"+", "b">>,
   <<"a", "#">>, <<"+", "#">>, <<"a", "+", "b">>, <<"+", "+", "#">>}
MCTopic == {<<"a">>, <<"b">>, <<"a", "b">>, <<"b", "a">>, <<"a", "b", "b">>}
=============================================================================
