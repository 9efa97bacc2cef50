------------------------------ MODULE TopicTree ------------------------------
(***************************************************************************)
(* The broker's subscription tree.  A node is named by the path of levels  *)
(* that leads to it from the root <<>>, so a tree is the set of its        *)
(* nodes, and the child of n at part p, when there is one, is              *)
(* Append(n, p).  These operators say in closed form which nodes the       *)
(* recursions of broker.hpp visit; TopicWalk takes the recursion of a      *)
(* publish one call at a time.                                             *)
(***************************************************************************)
EXTENDS Topics

EmptyTree == {<<>>}

\* (Mutant: the nodes on the way are not created.)
AddPathEndOnly(nodes, f) == nodes \cup {f}

\* addOrFindNode creates every node missing on the path of f.
AddPath(nodes, f) == nodes \cup Prefixes(f)

\* The children publishImpl looks up for one level of the topic.
Alternatives(level) == {level, "#", "+"}

\* The nodes below the root that publishImpl(root, t) is called on: each
\* level of the topic leads from a node to those of its children that exist.
Visited(nodes, t) ==
  {n \in nodes :
     /\ Len(n) \in 1..Len(t)
     /\ \A i \in 1..Len(n) :
          SubSeq(n, 1, i) \in nodes /\ n[i] \in Alternatives(t[i])}

\* A visited node is published to when the topic ends there or when it is a
\* "#" node.
Published(nodes, t) ==
  {n \in Visited(nodes, t) : Len(n) = Len(t) \/ Last(n) = "#"}

\* (Mutant: the "#" child is forgotten.)
PublishedBelowNothing(nodes, t) == {}

\* Where the topic ends, the "#" child is published to as well, so that
\* "finance/#" matches "finance".
PublishedBelow(nodes, t) ==
  {n \in nodes : /\ Len(n) = Len(t) + 1
                 /\ Last(n) = "#"
                 /\ Front(n) \in Visited(nodes, t)}

PublishedNodes(nodes, t) == Published(nodes, t) \cup PublishedBelow(nodes, t)
=============================================================================
