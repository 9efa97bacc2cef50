------------------------------ MODULE TopicWalk ------------------------------
(***************************************************************************)
(* publishImpl, one iteration of its loop at a time, on any tree and       *)
(* topic.  Broker takes a whole publish as one step that sends to          *)
(* PublishedNodes; this module shows that the recursion reaches exactly    *)
(* those nodes, each of them once.                                         *)
(*                                                                         *)
(* The calls in progress are the call on the root, the call on a child of  *)
(* the root, and so on down to path, so the stack of calls is path and,    *)
(* for each call, the position of its loop over the parts to try.          *)
(***************************************************************************)
EXTENDS TopicTree

VARIABLES
  tree,     \* the tree
  topic,     \* the published topic
  path,      \* the node of the innermost call
  next,      \* next[k]: the loop position of the call on SubSeq(path, 1, k-1)
  published  \* how often publishNode was called on each node

walkVars == <<tree, topic, path, next, published>>

Trees == {UNION {AddPath(EmptyTree, f) : f \in F \cup {<<>>}} : F \in SUBSET Filter}

\* (Mutant: one wildcard written for the other.)
PartsHashTwice(level) == <<level, "#", "#">>

Parts(level) == <<level, "#", "+">>

\* Every call in progress has its loop position.
WalkTypeOK ==
  /\ tree \in Trees
  /\ topic \in Topic
  /\ path \in tree
  /\ next \in Seq(1..4)
  /\ IF next = <<>> THEN path = <<>> ELSE Len(next) = Len(path) + 1
  /\ published \in [tree -> Nat]

WalkInit ==
  /\ tree \in Trees
  /\ topic \in Topic
  /\ path = <<>>
  /\ next = <<1>>
  /\ published = [n \in tree |-> 0]

\* publishNode on the nodes of N.
PublishAll(N) == published' = [n \in tree |-> published[n] + IF n \in N THEN 1 ELSE 0]

\* (Mutants: only the child itself; nothing before the topic ends.)
PublishedHereOnlyChild(child, part, last) == {n \in {child} : last \/ part = "#"}
PublishedHereOnlyLast(child, part, last) ==
  {n \in {child, Append(child, "#")} \cap tree : last}

\* The nodes one iteration publishes to: the child found for the part, and
\* the child's own "#" child.
PublishedHere(child, part, last) ==
  {n \in {child} : last \/ part = "#"} \cup {n \in {Append(child, "#")} \cap tree : last}

\* (Mutant: the loop stays where it is.)
AdvancedNowhere(k) == next

Advanced(k) == [next EXCEPT ![k] = @ + 1]

\* One iteration of the innermost call; the call on the child returns at once
\* when no part of the topic is left for it.
Try ==
  LET k == Len(next)
      part == Parts(topic[k])[next[k]]
      child == Append(path, part)
      last == k = Len(topic)
  IN  /\ next # <<>> /\ next[k] <= 3
      /\ IF child \notin tree
         THEN next' = Advanced(k) /\ UNCHANGED <<path, published>>
         ELSE /\ PublishAll(PublishedHere(child, part, last))
              /\ IF last
                 THEN next' = Advanced(k) /\ UNCHANGED path
                 ELSE next' = Append(Advanced(k), 1) /\ path' = child
      /\ UNCHANGED <<tree, topic>>

\* (Mutant: the caller goes on with the child's node.)
CallersNodeForgotten == path

CallersNode == IF path = <<>> THEN path ELSE Front(path)

\* The innermost call has tried every part.
Return ==
  /\ next # <<>> /\ next[Len(next)] = 4
  /\ next' = Front(next)
  /\ path' = CallersNode
  /\ UNCHANGED <<tree, topic, published>>

WalkNext == Try \/ Return

WalkSpec == WalkInit /\ [][WalkNext]_walkVars
FairWalkSpec == WalkSpec /\ WF_walkVars(WalkNext)

-----------------------------------------------------------------------------

Returned == next = <<>>

\* No node is published to twice, so a subscription is never sent two copies
\* of one message.  It needs topics without wildcards (TopicAssumption): with
\* "+" for a level of the topic two of the three parts are the same.
NoneTwice == \A n \in tree : published[n] <= 1

\* While the walk runs it publishes only to nodes of the closed form, and
\* when it has returned it has published to all of them.
ReachesPublishedNodes ==
  LET reached == {n \in tree : published[n] > 0}
  IN  /\ reached \subseteq PublishedNodes(tree, topic)
      /\ Returned => reached = PublishedNodes(tree, topic)

\* The nodes of the closed form that hold a filter are those of the filters
\* that match: the walk implements the matching rule.
ReachesMatches ==
  Returned => \A f \in tree \cap Filter : published[f] > 0 <=> Matches(f, topic)

\* The recursion returns.
Terminates == <>Returned
=============================================================================
