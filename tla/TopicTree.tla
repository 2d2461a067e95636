----------------------------- MODULE TopicTree -----------------------------
(***************************************************************************)
(* The topic tree (topictree.cpp), one operation at a time.  A node is the *)
(* path that leads to it, a sequence of levels; the root is the empty      *)
(* path.  Every operation walks the tree with getNode, which makes the     *)
(* nodes it misses and resolves wildcards against the nodes it finds; the  *)
(* walk is given here in closed form, and module TopicWalk checks it       *)
(* against the loop and the recursion of the code.                         *)
(***************************************************************************)
EXTENDS Naturals, Sequences

CONSTANTS
  Client,
  QoS,
  Word,         \* levels of topics
  Plus, Hash,   \* "+" and "#"
  Filter,       \* filters clients subscribe to
  Topic         \* topics clients publish on

ASSUME TreeAssumption ==
  /\ Plus \notin Word /\ Hash \notin Word /\ Plus # Hash
  /\ Filter \subseteq Seq(Word \cup {Plus, Hash})
  /\ Topic \subseteq Seq(Word)

VARIABLES
  nodes,        \* the nodes of the tree
  subscribers,  \* Node::subscribers of every node: [node, client, qos]
  result,       \* the answer of the last match: [client, qos]
  granted       \* history: the subscriptions a client counts on

vars == <<nodes, subscribers, result, granted>>

\* The promise, kept by the history variable
Table == INSTANCE TopicTable WITH table <- granted

Subscription == [node : nodes, client : Client, qos : QoS]

\* The type invariant: also, every node hangs on its parent, and a client is at
\* most once among the subscribers of a node.
TypeOK ==
  /\ nodes \subseteq Seq(Word) /\ <<>> \in nodes
  /\ \A p \in nodes : \A j \in 0 .. Len(p) : SubSeq(p, 1, j) \in nodes
  /\ subscribers \subseteq Subscription
  /\ \A s, r \in subscribers : s.node = r.node /\ s.client = r.client => s = r
  /\ result \subseteq [client : Client, qos : QoS]
  /\ granted \subseteq [client : Client, filter : Filter, qos : QoS]

-----------------------------------------------------------------------------
(***************************************************************************)
(* getNode and handleWildCard on the nodes N of a tree.                    *)
(***************************************************************************)

\* Mutant of Walks: any level will do
Walks_Any(N, w, i) ==
  {p \in [1 .. i -> Word] :
     \A j \in 1 .. i : w[j] = Plus => SubSeq(p, 1, j) \in N}

\* Where getNode is after i levels of w: "+" leads to the children there are,
\* another level to the child of that name
Walks(N, w, i) ==
  {p \in [1 .. i -> Word] :
     \A j \in 1 .. i : IF w[j] = Plus THEN SubSeq(p, 1, j) \in N
                       ELSE p[j] = w[j]}

\* How many levels getNode takes before a "#" stops it
Reached(w) == {i \in 0 .. Len(w) : \A j \in 1 .. i : w[j] # Hash}

\* Mutant of Created: the levels on the way are not linked
Created_Leaf(N, w) == N \cup Walks(N, w, Len(w))

\* The nodes of the tree after the walk
Created(N, w) == N \cup UNION {Walks(N, w, i) : i \in Reached(w)}

HasLinks(N, b) == \E q \in N : Len(q) > Len(b) /\ SubSeq(q, 1, Len(b)) = b

\* The nodes getNode returns: "#" stands for the node it is met at and all nodes
\* below, if there are any
Hits(N, w) ==
  IF Reached(w) = 0 .. Len(w) THEN Walks(N, w, Len(w))
  ELSE {q \in N : \E i \in Reached(w) \ {Len(w)} :
          /\ w[i + 1] = Hash /\ Len(q) >= i
          /\ SubSeq(q, 1, i) \in Walks(N, w, i)
          /\ HasLinks(N, SubSeq(q, 1, i))}

-----------------------------------------------------------------------------
Init ==
  /\ nodes = {<<>>}
  /\ subscribers = {} /\ result = {} /\ granted = {}

\* The subscriptions left when client c leaves the nodes of filter f
Others(f, c) ==
  {s \in subscribers : ~(s.node \in Hits(nodes, f) /\ s.client = c)}

subscribe(f, c, q) ==
  /\ nodes' = Created(nodes, f)
  /\ subscribers' = Others(f, c) \cup {[node |-> n, client |-> c, qos |-> q] :
                                         n \in Hits(nodes, f)}
  /\ Table!Subscribe(f, c, q)

unsubscribe(f, c) ==
  /\ nodes' = Created(nodes, f)
  /\ subscribers' = Others(f, c)
  /\ Table!Unsubscribe(f, c)

\* The subscribers of the nodes that getNode returns for topic t
Answer(t) == {[client |-> s.client, qos |-> s.qos] :
                s \in {r \in subscribers : r.node \in Hits(nodes, t)}}

match(t) ==
  /\ nodes' = Created(nodes, t)
  /\ result' = Answer(t)
  /\ UNCHANGED <<subscribers, granted>>

Next == \/ \E f \in Filter, c \in Client, q \in QoS : subscribe(f, c, q)
        \/ \E f \in Filter, c \in Client : unsubscribe(f, c)
        \/ \E t \in Topic : match(t)

Spec == Init /\ [][Next]_vars

-----------------------------------------------------------------------------
(***************************************************************************)
(* Properties.                                                             *)
(***************************************************************************)

\* Nobody is sent what he did not ask for: a subscription stored at a node goes
\* back to a filter of the client that is still in force and matches the node,
\* however subscriptions with and without wildcards came and went.
NoSpurious ==
  \A s \in subscribers :
    \E g \in granted : g.client = s.client /\ Table!Matches(g.filter, s.node)

\* What NoSpurious rests on: the filter leads to the node in the present tree.
Justified ==
  \A s \in subscribers :
    \E g \in granted : g.client = s.client /\ s.node \in Hits(nodes, g.filter)

\* Without wildcards the tree is the table: what is stored is what is granted.
Entry(g) == [node |-> g.filter, client |-> g.client, qos |-> g.qos]

Exact == subscribers = {Entry(g) : g \in granted}

\* Seen from its clients, too: the tree implements TopicTable: match answers with every matching
\* subscription in force, at the QoS last granted, and with nothing else.
ImplementsTable == Table!Spec

\* match finds every client with a subscription in force that matches the topic.
MatchComplete ==
  \A t \in Topic, g \in granted : Table!Matches(g.filter, t) =>
    \E r \in Answer(t) : r.client = g.client
=============================================================================
