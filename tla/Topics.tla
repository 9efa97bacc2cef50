------------------------------- MODULE Topics -------------------------------
(***************************************************************************)
(* Topics and topic filters as the broker sees them.  A string split on    *)
(* "/" (boost::split, which keeps empty parts) is a non-empty sequence of  *)
(* levels, and the split is a bijection, so a topic or a filter *is* its   *)
(* sequence of levels here.  The level of the empty string is a Name like  *)
(* any other.                                                              *)
(***************************************************************************)
EXTENDS Naturals, Sequences, SequencesExt

CONSTANTS
  Name,       \* ordinary levels: any level but the two wildcards
  Filter,     \* the filters clients subscribe to
  Topic,      \* the topics clients publish on
  MaxRequest  \* bound: filters in one SUBSCRIBE or UNSUBSCRIBE

Wildcard == {"+", "#"}

IsTopic(t) == t \in Seq(Name) /\ t # <<>>

\* "#" stands only at the end of a filter.  The broker does not check this
\* (nor that a topic has no wildcard): it is what clients must send.
IsFilter(f) ==
  /\ f \in Seq(Name \cup Wildcard)
  /\ f # <<>>
  /\ \A i \in 1..(Len(f) - 1) : f[i] # "#"

ASSUME NameAssumption == Name \cap Wildcard = {}
ASSUME TopicAssumption == \A t \in Topic : IsTopic(t)
ASSUME FilterAssumption == \A f \in Filter : IsFilter(f)
ASSUME MaxRequestAssumption == MaxRequest \in Nat

\* The topic lists of one request; the empty one included.
Request == UNION {[1..n -> Filter] : n \in 0..MaxRequest}

LevelMatches(part, level) == part \in {level, "+"}

\* The matching rule the broker's tests expect.
Matches(f, t) ==
  \/ /\ Len(f) = Len(t)
     /\ \A i \in 1..Len(f) : LevelMatches(f[i], t[i])
  \/ /\ Last(f) = "#"
     /\ Len(f) - 1 <= Len(t)
     /\ \A i \in 1..(Len(f) - 1) : LevelMatches(f[i], t[i])
=============================================================================
