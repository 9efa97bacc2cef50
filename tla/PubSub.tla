------------------------------- MODULE PubSub -------------------------------
(***************************************************************************)
(* What the broker promises, with no tree and no cache: a table of         *)
(* subscriptions, and a publish that sends each subscriber one copy for    *)
(* every subscription of its own that matches the topic.                   *)
(***************************************************************************)
EXTENDS Topics

CONSTANT Subscriber

VARIABLES
  subs,  \* how many subscriptions each subscriber holds to each filter
  sent   \* what the last operation sent: a delivery on a topic, or nothing

vars == <<subs, sent>>

NoCopies == [x \in Filter \X Subscriber |-> 0]
NothingSent == [topic |-> <<>>, copies |-> NoCopies]

Occurrences(fs, f) == Cardinality({i \in DOMAIN fs : fs[i] = f})
Named(fs, f) == fs = <<>> \/ \E i \in DOMAIN fs : fs[i] = f

Init == subs = NoCopies /\ sent = NothingSent

Subscribe(s, fs) ==
  /\ subs' = [x \in Filter \X Subscriber |->
                subs[x] + IF x[2] = s THEN Occurrences(fs, x[1]) ELSE 0]
  /\ sent' = NothingSent

\* Naming no filter ends every subscription of s.
Unsubscribe(s, fs) ==
  /\ subs' = [x \in Filter \X Subscriber |->
                IF x[2] = s /\ Named(fs, x[1]) THEN 0 ELSE subs[x]]
  /\ sent' = NothingSent

Publish(t) ==
  /\ sent' = [topic |-> t,
              copies |-> [x \in Filter \X Subscriber |->
                            IF Matches(x[1], t) THEN subs[x] ELSE 0]]
  /\ UNCHANGED subs

Next ==
  \/ \E s \in Subscriber, fs \in Request : Subscribe(s, fs)
  \/ \E s \in Subscriber, fs \in Request : Unsubscribe(s, fs)
  \/ \E t \in Topic : Publish(t)

Spec == Init /\ [][Next]_vars
=============================================================================
