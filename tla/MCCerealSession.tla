-------------------------- MODULE MCCerealSession --------------------------
(* Widths that reach the end of a byte, fall short of it and go over it, and *)
(* values that differ when a bit is lost, doubled or moved.                  *)
EXTENDS CerealSession

MCField ==
  {[value |-> 1, bits |-> 1, whole |-> FALSE],
   [value |-> 5, bits |-> 3, whole |-> FALSE],
   [value |-> 9, bits |-> 4, whole |-> FALSE],
   [value |-> 166, bits |-> 8, whole |-> FALSE],
   [value |-> 317, bits |-> 9, whole |-> FALSE],
   [value |-> 77, bits |-> 8, whole |-> TRUE]}
=============================================================================
