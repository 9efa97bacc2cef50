------------------------------- MODULE Broker -------------------------------
(***************************************************************************)
(* MqttBroker: subscriptions kept as leaves of a tree of topic levels, and *)
(* an optional cache from a published topic to the subscribers it reached. *)
(* Every member function runs to completion on the server's only thread,   *)
(* so each is one action.                                                  *)
(*                                                                         *)
(* A leaf holds a subscriber and the topic it was subscribed with; that    *)
(* topic is the path of the leaf's node, so leaves are counted by filter   *)
(* and subscriber.  The order of the leaves of a node is abstracted.       *)
(***************************************************************************)
EXTENDS TopicTree

CONSTANTS
  Subscriber,
  MaxCopies   \* bound: equal subscriptions one subscriber may hold

ASSUME MaxCopiesAssumption == MaxCopies \in Nat

VARIABLES
  useCache,  \* _useCache: the constructor's argument
  nodes,     \* the nodes of _tree
  leaves,    \* the Subscriptions in the leaves of the nodes
  cache,     \* _cache
  sent       \* what the last call passed to newMessage of the subscribers

vars == <<useCache, nodes, leaves, cache, sent>>

\* What a publish delivers: the copies each leaf accounts for.
Copies == [Filter \X Subscriber -> Nat]
NoCopies == [x \in Filter \X Subscriber |-> 0]
NothingSent == [topic |-> <<>>, copies |-> NoCopies]

\* publishNode creates a cache entry with its first subscriber, so an entry
\* is never empty and NoCopies stands for "no entry".
EmptyCache == [t \in Topic |-> NoCopies]

TypeOK ==
  /\ useCache \in BOOLEAN
  /\ nodes \subseteq UNION {Prefixes(f) : f \in Filter \cup {<<>>}}
  /\ leaves \in Copies
  /\ cache \in [Topic -> Copies]
  /\ sent \in [topic : Topic \cup {<<>>}, copies : Copies]

-----------------------------------------------------------------------------

Init ==
  /\ useCache \in BOOLEAN
  /\ nodes = EmptyTree
  /\ leaves = NoCopies
  /\ cache = EmptyCache
  /\ sent = NothingSent

\* (Mutant: the cache is left as it is.)
InvalidateCacheNever == UNCHANGED cache

InvalidateCache == cache' = IF useCache THEN EmptyCache ELSE cache

Occurrences(fs, f) == Cardinality({i \in DOMAIN fs : fs[i] = f})

\* One leaf for each topic of the request, a repeated one included.
Subscribe(s, fs) ==
  /\ \A f \in Filter : leaves[f, s] + Occurrences(fs, f) <= MaxCopies
  /\ InvalidateCache
  /\ nodes' = nodes \cup UNION {AddPath(nodes, fs[i]) : i \in DOMAIN fs}
  /\ leaves' = [x \in Filter \X Subscriber |->
                  leaves[x] + IF x[2] = s THEN Occurrences(fs, x[1]) ELSE 0]
  /\ sent' = NothingSent
  /\ UNCHANGED useCache

\* Subscription::isSubscriber: no topics at all stands for all of them.
IsSubscriber(x, s, fs) ==
  /\ fs = <<>> \/ \E i \in DOMAIN fs : fs[i] = x[1]
  /\ x[2] = s

\* (Mutant: each name takes one copy away.)
UnsubscribeOneCopy(s, fs) ==
  /\ InvalidateCache
  /\ leaves' = [x \in Filter \X Subscriber |->
                  IF x[1] \in nodes /\ IsSubscriber(x, s, fs) THEN leaves[x] - 1 ELSE leaves[x]]
  /\ sent' = NothingSent
  /\ UNCHANGED <<useCache, nodes>>

\* unsubscribeImpl goes through the whole tree and removes no node of it.
Unsubscribe(s, fs) ==
  /\ InvalidateCache
  /\ leaves' = [x \in Filter \X Subscriber |->
                  IF x[1] \in nodes /\ IsSubscriber(x, s, fs) THEN 0 ELSE leaves[x]]
  /\ sent' = NothingSent
  /\ UNCHANGED <<useCache, nodes>>

\* What publishImpl sends from the tree as it is.
Walk(t) ==
  LET reached == PublishedNodes(nodes, t)
  IN  [x \in Filter \X Subscriber |-> IF x[1] \in reached THEN leaves[x] ELSE 0]

PublishCached(t) ==
  /\ useCache /\ cache[t] # NoCopies
  /\ sent' = [topic |-> t, copies |-> cache[t]]
  /\ UNCHANGED <<useCache, nodes, leaves, cache>>

\* publishNode appends every subscriber it reaches to the topic's entry.
PublishWalk(t) ==
  /\ ~(useCache /\ cache[t] # NoCopies)
  /\ sent' = [topic |-> t, copies |-> Walk(t)]
  /\ cache' = IF useCache THEN [cache EXCEPT ![t] = Walk(t)] ELSE cache
  /\ UNCHANGED <<useCache, nodes, leaves>>

Publish(t) == PublishCached(t) \/ PublishWalk(t)

Next ==
  \/ \E s \in Subscriber, fs \in Request : Subscribe(s, fs)
  \/ \E s \in Subscriber, fs \in Request : Unsubscribe(s, fs)
  \/ \E t \in Topic : Publish(t)

Spec == Init /\ [][Next]_vars

-----------------------------------------------------------------------------

\* Every node hangs from the root, and no leaf is off the tree: otherwise a
\* walk, of a publish or of an unsubscribe, would miss a subscription.
TreeWellFormed ==
  /\ <<>> \in nodes
  /\ \A n \in nodes : Prefixes(n) \subseteq nodes
  /\ \A x \in Filter \X Subscriber : leaves[x] > 0 => x[1] \in nodes

\* A cache entry is exactly what a walk of the tree would send now: no
\* subscription made since is missing, none ended since still receives.
CacheCoherent ==
  \A t \in Topic :
    cache[t] # NoCopies => useCache /\ cache[t] = Walk(t)

PS == INSTANCE PubSub WITH subs <- leaves

\* The tree and the cache are not to be seen from outside: the broker sends
\* what a plain table of subscriptions and the matching rule say.
ImplementsPubSub == PS!Spec
=============================================================================
