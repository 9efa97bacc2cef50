-------------------------------- MODULE View --------------------------------
(***************************************************************************)
(* What a view of a block of cells promises, whatever it is built from: it *)
(* has a shape and names a cell for each index of the shape, a view taken  *)
(* from it names cells of its own by indices of their own, an iterator     *)
(* goes through the indices row by row, and a call that asks for something *)
(* outside of the view ends the program: unless it does so in one of the   *)
(* ways that nothing checks.  Span implements it with an offset, strides   *)
(* and checks on offsets.                                                  *)
(***************************************************************************)
EXTENDS Bounds

CONSTANT
  Shape      \* the extents a block may have

VARIABLES
  call,      \* the last call
  extents,   \* the shape of the view
  cells,     \* the cell each index names
  pos,       \* the place of the iterator in the row-major order of indices
  got,       \* the cells the last call has read
  fate       \* "running", "refused" after a call that ended the program, or
             \* "astray" after one that got what is not the view's

vars == <<call, extents, cells, pos, got, fate>>

Init ==
  /\ call = [op |-> "view"]
  /\ extents \in Shape
  /\ cells = [idx \in Indices(extents) |-> Position(extents, idx)]
  /\ pos = 0
  /\ got = {}
  /\ fate = "running"

(* What c may ask for of the view there is.  An iterator cannot be moved   *)
(* with += where a row has no elements.                                    *)
Legal(c) ==
  CASE c.op \in {"first", "last"} -> c.n \in 0 .. Size(extents)
    [] c.op = "sub"     -> c.offset >= 0 /\ c.n >= 0 /\ c.offset + c.n <= Size(extents)
    [] c.op = "rest"    -> c.offset \in 0 .. Size(extents)
    [] c.op = "slice"   -> Size(extents) > 0 /\ c.idx \in 0 .. extents[1] - 1
    [] c.op = "section" -> /\ c.origin \in Indices(extents)
                           /\ \A i \in DOMAIN extents :
                                c.extents[i] \in 0 .. extents[i] - c.origin[i]
    [] c.op = "reshape" -> Size(c.extents) = Size(extents)
    [] c.op = "at"      -> c.idx \in Indices(extents)
    [] c.op = "read"    -> pos < Size(extents)
    [] c.op = "advance" -> \A i \in DOMAIN extents : i > 1 => extents[i] # 0
    [] OTHER            -> TRUE

(* What may not be noticed when c asks for more: that an offset or an      *)
(* index is negative, and where a section ends in its rows.                *)
Unchecked(c) ==
  \/ c.op \in {"sub", "rest"} /\ c.offset < 0
  \/ c.op = "slice"           /\ c.idx < 0
  \/ c.op = "section"         /\ \A i \in DOMAIN extents : c.origin[i] < extents[i]
  \/ c.op = "at"              /\ \A i \in DOMAIN extents : c.idx[i] < extents[i]

(* The view that c takes: its shape, and the index each of its indices     *)
(* stands for.                                                             *)
NewExtents(c) ==
  CASE c.op \in {"first", "last", "sub"} -> <<c.n>>
    [] c.op = "rest"                     -> <<Size(extents) - c.offset>>
    [] c.op = "slice"                    -> Tail(extents)
    [] c.op \in {"section", "reshape"}   -> c.extents

Original(c, idx) ==
  CASE c.op = "first"           -> Nth(extents, idx[1])
    [] c.op = "last"            -> Nth(extents, Size(extents) - c.n + idx[1])
    [] c.op \in {"sub", "rest"} -> Nth(extents, c.offset + idx[1])
    [] c.op = "slice"           -> <<c.idx>> \o idx
    [] c.op = "section"         -> [i \in DOMAIN idx |-> c.origin[i] + idx[i]]
    [] c.op = "reshape"         -> Nth(extents, Position(c.extents, idx))

TakeView(c) ==
  /\ c.op \in {"first", "last", "sub", "rest", "slice", "section", "reshape"}
  /\ extents' = NewExtents(c)
  /\ cells' = [idx \in Indices(extents') |-> cells[Original(c, idx)]]
  /\ pos' = 0
  /\ got' = {}

Move(c) ==
  /\ \/ c.op = "begin"    /\ pos' = 0
     \/ c.op = "end"      /\ pos' = Size(extents)
     \/ c.op = "next"     /\ pos' = pos + 1
     \/ c.op = "previous" /\ pos' = pos - 1
     \/ c.op = "advance"  /\ pos' = pos + c.n
  /\ pos' \in 0 .. Size(extents)
  /\ got' = {}
  /\ UNCHANGED <<extents, cells>>

Look(c) ==
  /\ \/ c.op = "at"   /\ got' = {cells[c.idx]}
     \/ c.op = "read" /\ got' = {cells[Nth(extents, pos)]}
  /\ UNCHANGED <<extents, cells, pos>>

Obey(c) ==
  /\ Legal(c)
  /\ TakeView(c) \/ Move(c) \/ Look(c)
  /\ fate' = fate

Fail(c) ==
  /\ ~Legal(c)
  /\ \/ fate' = "refused"
     \/ Unchecked(c) /\ fate' = "astray"
  /\ UNCHANGED <<extents, cells, pos, got>>

Next == fate = "running" /\ (Obey(call') \/ Fail(call'))

Spec == Init /\ [][Next]_vars
=============================================================================
