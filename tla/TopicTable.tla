----------------------------- MODULE TopicTable -----------------------------
(***************************************************************************)
(* What the topic tree promises (topictree.h, class TopicTree): a table of *)
(* subscriptions, and publications answered with every subscription whose  *)
(* filter matches the topic.  A filter is a sequence of levels; Plus       *)
(* stands for one level, Hash for any number of levels, the parent too.    *)
(***************************************************************************)
EXTENDS Naturals, Sequences

CONSTANTS
  Client,
  QoS,
  Filter,       \* filters clients subscribe to
  Topic,        \* topics clients publish on
  Plus, Hash    \* the wildcard levels "+" and "#"

VARIABLES
  table,        \* the subscriptions in force: [client, filter, qos]
  result        \* the answer to the last publication: [client, qos]

tableVars == <<table, result>>

\* The filter f matches the topic t
Matches(f, t) ==
  \/ /\ Len(f) = Len(t)
     /\ \A j \in 1 .. Len(f) : f[j] \in {Plus, t[j]}
  \/ \E k \in 1 .. Len(f) :
       /\ f[k] = Hash /\ Len(t) >= k - 1
       /\ \A j \in 1 .. k - 1 : f[j] \in {Plus, t[j]}

Without(c, f) == {g \in table : ~(g.client = c /\ g.filter = f)}

Init == table = {} /\ result = {}

\* A second subscription to the same filter replaces the first
Subscribe(f, c, q) ==
  /\ table' = Without(c, f) \cup {[client |-> c, filter |-> f, qos |-> q]}
  /\ UNCHANGED result

Unsubscribe(f, c) ==
  /\ table' = Without(c, f)
  /\ UNCHANGED result

Publish(t) ==
  /\ result' = {[client |-> g.client, qos |-> g.qos] :
                 g \in {h \in table : Matches(h.filter, t)}}
  /\ UNCHANGED table

Next == \/ \E f \in Filter, c \in Client, q \in QoS : Subscribe(f, c, q)
        \/ \E f \in Filter, c \in Client : Unsubscribe(f, c)
        \/ \E t \in Topic : Publish(t)

Spec == Init /\ [][Next]_tableVars
=============================================================================
