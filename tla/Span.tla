-------------------------------- MODULE Span --------------------------------
(***************************************************************************)
(* span and strided_span of src/gsl/include/span.h: a view of a block of   *)
(* cells 0, 1, 2 ... is the offset of its first cell, extents and strides. *)
(* The program takes views of views, reads through them and moves an       *)
(* iterator, with numbers that may be negative.  A span has two kinds of   *)
(* iterator, a pointer and the index of its bounds; they are moved         *)
(* together here.  A strided_span has only the second.  Each call is an    *)
(* action: what fail_fast_assert lets pass takes effect, anything else     *)
(* ends the program.  A call may pass that takes what is not in the view;  *)
(* the model says so and follows the program no further.                   *)
(***************************************************************************)
EXTENDS Bounds

CONSTANTS
  Shape,     \* the extents a block may have
  Number,    \* the numbers the program passes
  Index      \* the indices, and the extents of sections, it passes

(* Only the first extent of a span may be 0: elementNum divides by the size *)
(* of a row.  (A section may have any.)                                     *)
ASSUME SpanAssumption ==
  /\ \A e \in Shape : e \in Seq(Nat) /\ e # <<>> /\ \A i \in DOMAIN e : i > 1 => e[i] # 0
  /\ Number \subseteq Int
  /\ Index \subseteq Seq(Int)

VARIABLES
  call,      \* the last call
  view,      \* the view: offset, extents, strides and its kind
  ptr,       \* contiguous_span_iterator::m_pdata
  at,        \* bounds_iterator::curr
  got,       \* the cells the last call has read
  fate       \* "running", "refused" when an assertion has failed, or "astray"

vars == <<call, view, ptr, at, got, fate>>

size == Size(view.extents)

SpanAt(data, extents) ==
  [data |-> data, extents |-> extents, strides |-> MakeStride(extents), contiguous |-> TRUE]

StridedSpanAt(data, extents, strides) ==
  [data |-> data, extents |-> extents, strides |-> strides, contiguous |-> FALSE]

Init ==
  /\ call = [op |-> "view"]
  /\ \E extents \in Shape : view = SpanAt(0, extents) /\ at = Zero(extents)
  /\ ptr = 0
  /\ got = {}
  /\ fate = "running"

-----------------------------------------------------------------------------
(* Calls that take a view.                                                 *)

Terminate == fate' = "refused" /\ UNCHANGED <<view, ptr, at, got>>
GoAstray  == fate' = "astray"  /\ UNCHANGED <<view, ptr, at, got>>

(* passes is what the assertions test, inside what the call would have to  *)
(* keep to besides.                                                        *)
Take(c, passes, inside, newView) ==
  /\ call' = c
  /\ \/ /\ passes /\ inside
        /\ view' = newView
        /\ ptr' = newView.data
        /\ at' = Zero(newView.extents)
        /\ got' = {}
        /\ UNCHANGED fate
     \/ passes /\ ~inside /\ GoAstray
     \/ ~passes /\ Terminate

(* BoundsRanges asserts that the number of cells of the new span is not    *)
(* negative.                                                               *)
First(n) ==
  /\ view.contiguous
  /\ Take([op |-> "first", n |-> n], n <= size /\ 0 <= n, TRUE, SpanAt(view.data, <<n>>))

Last(n) ==
  /\ view.contiguous
  /\ Take([op |-> "last", n |-> n],
          n <= size /\ 0 <= n, TRUE, SpanAt(view.data + size - n, <<n>>))

dynamic_range == -1

Sub(offset, n) ==
  /\ view.contiguous
  /\ n # dynamic_range
  /\ Take([op |-> "sub", offset |-> offset, n |-> n],
          (offset = 0 \/ offset <= size) /\ offset + n <= size /\ 0 <= n,
          offset >= 0,
          SpanAt(view.data + offset, <<n>>))

SubToTheEnd(offset) ==
  /\ view.contiguous
  /\ Take([op |-> "rest", offset |-> offset],
          offset = 0 \/ offset <= size,
          offset >= 0,
          SpanAt(view.data + offset, <<size - offset>>))

AsSpan(extents) ==
  /\ view.contiguous
  /\ Take([op |-> "reshape", extents |-> extents],
          size = Size(extents), TRUE, SpanAt(view.data, extents))

Slice(idx) ==
  /\ Len(view.extents) > 1
  /\ LET ridx == idx * view.strides[1]
     IN  Take([op |-> "slice", idx |-> idx],
              idx < size /\ ridx < TotalSize(view),
              idx >= 0,
              [SliceBounds(view) EXCEPT !.data = @ + ridx])

Natural(idx) == \A i \in DOMAIN idx : idx[i] >= 0

(* That the section lies within the view is left to the caller: the        *)
(* assertion of strided_span knows how many cells follow, not where a row  *)
(* ends.                                                                   *)
Fits(origin, extents) ==
  \A i \in DOMAIN view.extents : origin[i] + extents[i] <= view.extents[i]

Section(origin, extents) ==
  LET newView == StridedSpanAt(view.data + Linearize(view, origin), extents, view.strides)
  IN  /\ Len(origin) = Len(view.extents) /\ Len(extents) = Len(view.extents)
      /\ Take([op |-> "section", origin |-> origin, extents |-> extents],
              /\ Linearizes(view, origin)
              /\ Size(extents) >= 0
              /\ TotalSize(newView) <= TotalSize(view) - Linearize(view, origin),
              Natural(origin) /\ Natural(extents) /\ Fits(origin, extents),
              newView)

-----------------------------------------------------------------------------
(* Calls that read, and the iterators.  To stay between begin and end is   *)
(* the caller's part.                                                      *)

difference == LinearIndex(view.extents, at)

Read(c, passes, inside, read) ==
  /\ call' = c
  /\ \/ passes /\ inside /\ got' = read /\ UNCHANGED <<view, ptr, at, fate>>
     \/ passes /\ ~inside /\ GoAstray
     \/ ~passes /\ Terminate

ElementAt(idx) ==
  /\ Len(idx) = Len(view.extents)
  /\ Read([op |-> "at", idx |-> idx],
          Linearizes(view, idx), Natural(idx), {view.data + Linearize(view, idx)})

ValidateThis == ptr >= view.data /\ ptr < view.data + size

Dereference ==
  Read([op |-> "read"],
       Linearizes(view, at) /\ (view.contiguous => ValidateThis),
       TRUE,
       {view.data + Linearize(view, at)} \cup (IF view.contiguous THEN {ptr} ELSE {}))

Move(c, passes, newPtr, newAt) ==
  /\ call' = c
  /\ \/ /\ passes
        /\ ptr' = IF view.contiguous THEN newPtr ELSE ptr
        /\ at' = newAt
        /\ got' = {}
        /\ UNCHANGED <<view, fate>>
     \/ ~passes /\ Terminate

Begin == Move([op |-> "begin"], TRUE, view.data, Zero(view.extents))

End == Move([op |-> "end"], TRUE, view.data + size, view.extents)

Increment ==
  /\ difference < size
  /\ Move([op |-> "next"], TRUE, ptr + 1, Incremented(view.extents, at))

Decrement ==
  /\ difference > 0
  /\ Move([op |-> "previous"], TRUE, ptr - 1, Decremented(view.extents, at))

(* A row of no elements has a stride of 0, which += divides by: that ends  *)
(* the program as well.                                                    *)
RowsHaveElements(extents) == \A i \in DOMAIN extents : i > 1 => extents[i] # 0

Advance(n) ==
  /\ difference + n \in 0 .. size
  /\ LET newAt == Advanced(view.extents, at, n)
     IN  Move([op |-> "advance", n |-> n],
              RowsHaveElements(view.extents) /\ AdvancePasses(view.extents, newAt),
              ptr + n,
              newAt)

-----------------------------------------------------------------------------
Next ==
  /\ fate = "running"
  /\ \/ \E n \in Number : First(n) \/ Last(n) \/ SubToTheEnd(n) \/ Slice(n)
     \/ \E offset, n \in Number : Sub(offset, n)
     \/ \E extents \in Shape : AsSpan(extents)
     \/ \E origin, extents \in Index : Section(origin, extents)
     \/ \E idx \in Index : ElementAt(idx)
     \/ Dereference
     \/ Begin \/ End \/ Increment \/ Decrement
     \/ \E n \in Number : Advance(n)

Spec == Init /\ [][Next]_vars

-----------------------------------------------------------------------------
(* Type invariant: an offset, an extent and a stride for each dimension,   *)
(* an index within the bounds or at their end, and a pointer between the   *)
(* first cell of a span and the one behind it.                             *)
TypeOK ==
  /\ view.data \in Nat
  /\ Len(view.extents) = Len(view.strides)
  /\ \A i \in DOMAIN view.extents : view.extents[i] \in Nat /\ view.strides[i] \in Nat \ {0}
  /\ DOMAIN at = DOMAIN view.extents
  /\ \A i \in DOMAIN view.extents : at[i] \in 0 .. view.extents[i]
  /\ view.contiguous => ptr \in view.data .. view.data + size
  /\ fate \in {"running", "refused", "astray"}

(* A loop from begin that increments until it meets end stops behind the   *)
(* last element and not before.  There are two exceptions: an iterator     *)
(* that was moved to the end with += is as far from begin, but different   *)
(* from end when there are several dimensions; and begin of an empty view  *)
(* is end only if all extents are 0, so that a loop over the section       *)
(* {0, 3} of a table does not stop before the first element, which is      *)
(* refused when it is read.                                                *)
LoopsEnd ==
  /\ at = view.extents => difference = size
  /\ difference = size /\ (call.op \in {"end", "next"} \/ Len(view.extents) = 1)
       => at = view.extents
  /\ call.op = "begin" =>
       /\ difference = 0
       /\ size # 0 => at # view.extents
       /\ size = 0 => (at = view.extents <=> \A i \in DOMAIN view.extents : view.extents[i] = 0)

(* Views name the cells that the view they were taken from names, for all  *)
(* their indices; iterators go through them row by row; and a call that    *)
(* asks for something outside of the view ends the program, but for        *)
(* negative offsets and indices and for sections that do not fit, which    *)
(* may pass.                                                               *)
Promise ==
  INSTANCE View WITH
    extents <- view.extents,
    cells   <- [idx \in Indices(view.extents) |-> view.data + Linearize(view, idx)],
    pos     <- difference

ImplementsView == Promise!Spec
=============================================================================
