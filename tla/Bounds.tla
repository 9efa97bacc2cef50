------------------------------- MODULE Bounds -------------------------------
(***************************************************************************)
(* The index arithmetic of src/gsl/include/span.h: how an index of several *)
(* components becomes an offset (static_bounds, strided_bounds) and how    *)
(* bounds_iterator goes through all indices.  An index and the extents of  *)
(* a span are sequences of numbers, one for each dimension.  The first     *)
(* part is what the rest is held against: the order of the indices,        *)
(* defined without any arithmetic on offsets.                              *)
(***************************************************************************)
EXTENDS Integers, Sequences, FiniteSets, FiniteSetsExt, Functions

Product(s) == FoldFunction(LAMBDA x, y : x * y, 1, s)
Sum(s)     == FoldFunction(LAMBDA x, y : x + y, 0, s)

-----------------------------------------------------------------------------
(* The reference: indices and their row-major order.                       *)

Indices(extents) ==
  {idx \in [DOMAIN extents -> 0 .. Max({1} \cup Range(extents)) - 1] :
     \A i \in DOMAIN extents : idx[i] < extents[i]}

Precedes(a, b) ==
  \E i \in DOMAIN a : a[i] < b[i] /\ \A j \in 1 .. i - 1 : a[j] = b[j]

Position(extents, idx) == Cardinality({j \in Indices(extents) : Precedes(j, idx)})

Nth(extents, n) == CHOOSE idx \in Indices(extents) : Position(extents, idx) = n

-----------------------------------------------------------------------------
(* Bounds: extents with a stride for each, and whether they are the        *)
(* static_bounds of a contiguous span or the strided_bounds of a section.  *)

Size(extents) == Product(extents)

MakeStride(extents) ==
  [i \in DOMAIN extents |-> Product(SubSeq(extents, i + 1, Len(extents)))]

TotalSize(b) ==
  IF b.contiguous
    THEN Size(b.extents)
    ELSE 1 + Sum([i \in DOMAIN b.extents |-> (b.extents[i] - 1) * b.strides[i]])

(* What the assertions of the two linearize functions let pass: the        *)
(* contiguous one compares offsets, the other one components.  Neither     *)
(* looks whether a component is negative.                                  *)
StaticLinearizes(b, idx) ==
  \A i \in DOMAIN idx : idx[i] * b.strides[i] < b.extents[i] * b.strides[i]

StridedLinearizes(b, idx) == \A i \in DOMAIN idx : idx[i] < b.extents[i]

Linearizes(b, idx) ==
  IF b.contiguous THEN StaticLinearizes(b, idx) ELSE StridedLinearizes(b, idx)

Linearize(b, idx) == Sum([i \in DOMAIN idx |-> idx[i] * b.strides[i]])

(* Mutant of SliceBounds: the strides are not shifted with the extents. *)
SliceBoundsKeepsStrides(b) == [b EXCEPT !.extents = Tail(@)]

SliceBounds(b) == [b EXCEPT !.extents = Tail(@), !.strides = Tail(@)]

-----------------------------------------------------------------------------
(* bounds_iterator: an index curr that goes through the indices below      *)
(* boundary, which stands for the end.                                     *)

Zero(boundary) == [i \in DOMAIN boundary |-> 0]

Less(one, other) == \E i \in DOMAIN one : one[i] < other[i]

(* Mutant of LinearIndex: the place past the end counts as any other index. *)
LinearIndexInside(boundary, idx) ==
  Sum([i \in DOMAIN idx |-> idx[i] * MakeStride(boundary)[i]])

LinearIndex(boundary, idx) ==
  LET multiplier == MakeStride(boundary)
  IN  IF Less(idx, boundary)
        THEN Sum([i \in DOMAIN idx |-> idx[i] * multiplier[i]])
        ELSE 1 + Sum([i \in DOMAIN idx |-> (idx[i] - 1) * multiplier[i]])

Incremented(boundary, curr) ==
  LET room == {i \in DOMAIN curr : curr[i] < boundary[i] - 1}
  IN  IF room = {}
        THEN boundary
        ELSE [i \in DOMAIN curr |-> CASE i < Max(room) -> curr[i]
                                      [] i = Max(room) -> curr[i] + 1
                                      [] OTHER         -> 0]

(* Mutant of Decremented: past the end there is no case of its own. *)
DecrementedComponent(boundary, curr) ==
  LET room == {i \in DOMAIN curr : curr[i] >= 1}
  IN  [i \in DOMAIN curr |-> CASE i < Max(room) -> curr[i]
                                [] i = Max(room) -> curr[i] - 1
                                [] OTHER         -> boundary[i] - 1]

Decremented(boundary, curr) ==
  LET last == [i \in DOMAIN curr |-> boundary[i] - 1]
      room == {i \in DOMAIN curr : curr[i] >= 1}
  IN  IF ~Less(curr, boundary)
        THEN last
        ELSE [i \in DOMAIN curr |-> CASE i < Max(room) -> curr[i]
                                      [] i = Max(room) -> curr[i] - 1
                                      [] OTHER         -> last[i]]

Advanced(boundary, curr, n) ==
  LET stride == MakeStride(boundary)
      linear == LinearIndex(boundary, curr) + n
  IN  [i \in DOMAIN curr |->
         (IF i = 1 THEN linear ELSE linear % stride[i - 1]) \div stride[i]]

AdvancePasses(boundary, curr) == ~Less(curr, Zero(curr)) /\ ~Less(boundary, curr)
=============================================================================
