------------------------------- MODULE MCSpan -------------------------------
(* Blocks of four to six cells in one, two and three dimensions, and empty *)
(* ones of one and of two; shapes of the same size, so that a span can     *)
(* take the other's.  The indices of two dimensions are all those from     *)
(* behind to beyond a block; of three there are some of each kind.         *)
EXTENDS Span

MCShape == {<<0>>, <<4>>, <<0, 2>>, <<2, 3>>, <<2, 2>>, <<2, 1, 2>>}

MCNumber == -2 .. 5

MCIndex ==
  [1 .. 1 -> -1 .. 4] \cup [1 .. 2 -> -1 .. 3] \cup
  {<<0, 0, 0>>, <<1, 0, 1>>, <<1, 1, 1>>, <<1, 1, 2>>, <<2, 1, 1>>, <<1, 0, 0>>,
   <<-1, 0, 1>>, <<0, 1, -1>>}
=============================================================================
