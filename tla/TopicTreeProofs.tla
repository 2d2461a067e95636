-------------------------- MODULE TopicTreeProofs --------------------------
(***************************************************************************)
(* Proofs about TopicTree for every set of clients, levels, filters and    *)
(* topics.                                                                 *)
(***************************************************************************)
EXTENDS TopicTree, SequenceTheorems, TLAPS

\* A walk of i levels is a path of length i.
LEMMA WalkType ==
  ASSUME NEW N, NEW w, NEW i \in Nat, NEW p \in Walks(N, w, i)
  PROVE  p \in Seq(Word) /\ Len(p) = i
<1>1. p \in [1 .. i -> Word]
  BY DEF Walks
<1> QED
  BY <1>1

\* More nodes make more walks and more hits.
LEMMA WalksMonotone ==
  ASSUME NEW N, NEW M, N \subseteq M, NEW w, NEW i
  PROVE  Walks(N, w, i) \subseteq Walks(M, w, i)
  BY DEF Walks

LEMMA HitsMonotone ==
  ASSUME NEW N, NEW M, N \subseteq M, NEW w
  PROVE  Hits(N, w) \subseteq Hits(M, w)
<1>1. \A b : HasLinks(N, b) => HasLinks(M, b)
  BY DEF HasLinks
<1>2. \A i : Walks(N, w, i) \subseteq Walks(M, w, i)
  BY WalksMonotone
<1> QED
  BY <1>1, <1>2 DEF Hits

\* A walk matches the levels it took.
LEMMA WalkMatches ==
  ASSUME NEW N, NEW w \in Seq(Word \cup {Plus, Hash}), NEW i \in 0 .. Len(w),
         NEW p \in Walks(N, w, i), NEW j \in 1 .. i
  PROVE  w[j] \in {Plus, p[j]}
  BY DEF Walks

\* What getNode returns for a filter matches the filter.
LEMMA HitsMatch ==
  ASSUME NEW N, N \subseteq Seq(Word), NEW w \in Seq(Word \cup {Plus, Hash}),
         NEW q \in Hits(N, w)
  PROVE  q \in Seq(Word) /\ Table!Matches(w, q)
<1>1. CASE Reached(w) = 0 .. Len(w)
  <2>1. q \in Walks(N, w, Len(w))
    BY <1>1 DEF Hits
  <2>2. q \in Seq(Word) /\ Len(q) = Len(w)
    BY <2>1, WalkType
  <2>3. \A j \in 1 .. Len(w) : w[j] \in {Plus, q[j]}
    BY <2>1, WalkMatches
  <2> QED
    BY <2>2, <2>3 DEF Table!Matches
<1>2. CASE Reached(w) # 0 .. Len(w)
  <2>1. PICK i \in Reached(w) \ {Len(w)} :
          /\ q \in N /\ w[i + 1] = Hash /\ Len(q) >= i
          /\ SubSeq(q, 1, i) \in Walks(N, w, i)
    BY <1>2 DEF Hits
  <2>2. i \in 0 .. Len(w) - 1 /\ i \in 0 .. Len(w) /\ q \in Seq(Word)
    BY <2>1 DEF Reached
  <2>3. \A j \in 1 .. i : w[j] \in {Plus, SubSeq(q, 1, i)[j]}
    <3>1. \A j \in 1 .. i, p \in Walks(N, w, i) : w[j] \in {Plus, p[j]}
      BY <2>2, WalkMatches
    <3> QED
      BY <2>1, <3>1
  <2>4. \A j \in 1 .. i : SubSeq(q, 1, i)[j] = q[j]
    BY <2>1, <2>2
  <2>5. i + 1 \in 1 .. Len(w) /\ w[i + 1] = Hash /\ Len(q) >= (i + 1) - 1
    BY <2>1, <2>2
  <2>6. \A j \in 1 .. (i + 1) - 1 : w[j] \in {Plus, q[j]}
    BY <2>2, <2>3, <2>4
  <2> QED
    BY <2>2, <2>5, <2>6 DEF Table!Matches
<1> QED
  BY <1>1, <1>2

\* getNode only returns nodes that are then in the tree, and keeps the others.
LEMMA HitsCreated ==
  ASSUME NEW N, NEW w \in Seq(Word \cup {Plus, Hash})
  PROVE  N \subseteq Created(N, w) /\ Hits(N, w) \subseteq Created(N, w)
<1>1. CASE Reached(w) = 0 .. Len(w)
  <2>1. Len(w) \in Reached(w)
    BY <1>1
  <2> QED
    BY <1>1, <2>1 DEF Hits, Created
<1>2. CASE Reached(w) # 0 .. Len(w)
  BY <1>2 DEF Hits, Created
<1> QED
  BY <1>1, <1>2

\* A tree: paths of topic levels, each with its prefixes.
Tree(N) == /\ N \subseteq Seq(Word) /\ <<>> \in N
           /\ \A p \in N : \A j \in 0 .. Len(p) : SubSeq(p, 1, j) \in N

\* The prefix of a walk is a walk.
LEMMA WalkPrefix ==
  ASSUME NEW N, NEW w \in Seq(Word \cup {Plus, Hash}), NEW i \in 0 .. Len(w),
         NEW p \in Walks(N, w, i), NEW j \in 0 .. i
  PROVE  SubSeq(p, 1, j) \in Walks(N, w, j)
<1>1. p \in Seq(Word) /\ Len(p) = i
  BY WalkType
<1> DEFINE r == SubSeq(p, 1, j)
<1>2. r \in Seq(Word) /\ Len(r) = j /\ \A k \in 1 .. j : r[k] = p[k]
  BY <1>1
<1>3. r \in [1 .. j -> Word]
  BY <1>2, LenProperties
<1>4. ASSUME NEW k \in 1 .. j PROVE SubSeq(r, 1, k) = SubSeq(p, 1, k)
  BY <1>1
<1>5. \A k \in 1 .. j : k \in 1 .. i
  OBVIOUS
<1> QED
  BY <1>2, <1>3, <1>4, <1>5 DEF Walks

\* getNode leaves a tree.
LEMMA CreatedTree ==
  ASSUME NEW N, Tree(N), NEW w \in Seq(Word \cup {Plus, Hash})
  PROVE  Tree(Created(N, w))
<1>1. \A p \in Created(N, w) :
        p \in N \/ \E i \in Reached(w) : p \in Walks(N, w, i)
  BY DEF Created
<1>2. \A i \in Reached(w) : i \in 0 .. Len(w) /\ \A j \in 0 .. i : j \in Reached(w)
  BY DEF Reached
<1>3. Created(N, w) \subseteq Seq(Word)
  BY <1>1, <1>2, WalkType DEF Tree
<1>4. ASSUME NEW p \in Created(N, w), NEW j \in 0 .. Len(p)
      PROVE  SubSeq(p, 1, j) \in Created(N, w)
  <2>1. CASE p \in N
    BY <2>1 DEF Tree, Created
  <2>2. CASE p \notin N
    <3>1. PICK i \in Reached(w) : p \in Walks(N, w, i)
      BY <1>1, <2>2
    <3>2. Len(p) = i /\ i \in 0 .. Len(w)
      BY <1>2, <3>1, WalkType
    <3>3. SubSeq(p, 1, j) \in Walks(N, w, j) /\ j \in Reached(w)
      BY <1>2, <3>1, <3>2, WalkPrefix
    <3> QED
      BY <3>3 DEF Created
  <2> QED
    BY <2>1, <2>2
<1> QED
  BY <1>3, <1>4 DEF Tree, Created

-----------------------------------------------------------------------------
LEMMA TreeTypeStep ==
  ASSUME TypeOK, [Next]_vars
  PROVE  TypeOK'
<1> USE TreeAssumption
<1>0. Tree(nodes)
  BY DEF TypeOK, Tree
<1>1. ASSUME NEW f \in Filter, NEW c \in Client, NEW q \in QoS, subscribe(f, c, q)
      PROVE  TypeOK'
  <2>1. /\ nodes' = Created(nodes, f) /\ Tree(nodes')
        /\ nodes \subseteq nodes' /\ Hits(nodes, f) \subseteq nodes'
    BY <1>0, <1>1, CreatedTree, HitsCreated DEF subscribe
  <2>2. subscribers' \subseteq [node : nodes', client : Client, qos : QoS]
    BY <1>1, <2>1 DEF subscribe, Others, TypeOK, Subscription
  <2>3. \A s, r \in subscribers' : s.node = r.node /\ s.client = r.client => s = r
    BY <1>1 DEF subscribe, Others, TypeOK
  <2>4. /\ granted' \subseteq [client : Client, filter : Filter, qos : QoS]
        /\ result' = result
    BY <1>1 DEF subscribe, Table!Subscribe, Table!Without, TypeOK
  <2> QED
    BY <2>1, <2>2, <2>3, <2>4 DEF TypeOK, Tree, Subscription
<1>2. ASSUME NEW f \in Filter, NEW c \in Client, unsubscribe(f, c)
      PROVE  TypeOK'
  <2>1. Tree(nodes') /\ nodes \subseteq nodes'
    BY <1>0, <1>2, CreatedTree, HitsCreated DEF unsubscribe
  <2>2. subscribers' \subseteq subscribers
    BY <1>2 DEF unsubscribe, Others
  <2>3. granted' \subseteq granted /\ result' = result
    BY <1>2 DEF unsubscribe, Table!Unsubscribe, Table!Without
  <2>4. subscribers' \subseteq [node : nodes', client : Client, qos : QoS]
    BY <2>1, <2>2 DEF TypeOK, Subscription
  <2> QED
    BY <2>1, <2>2, <2>3, <2>4 DEF TypeOK, Tree, Subscription
<1>3. ASSUME NEW t \in Topic, match(t)
      PROVE  TypeOK'
  <2>1. t \in Seq(Word \cup {Plus, Hash})
    OBVIOUS
  <2>2. Tree(nodes') /\ nodes \subseteq nodes'
    BY <1>0, <1>3, <2>1, CreatedTree, HitsCreated DEF match
  <2>3. result' \subseteq [client : Client, qos : QoS]
    BY <1>3 DEF match, Answer, TypeOK, Subscription
  <2>4. subscribers' \subseteq [node : nodes', client : Client, qos : QoS]
    BY <1>3, <2>2 DEF match, TypeOK, Subscription
  <2> QED
    BY <1>3, <2>2, <2>3, <2>4 DEF match, TypeOK, Tree, Subscription
<1>4. CASE UNCHANGED vars
  BY <1>4 DEF vars, TypeOK, Subscription
<1> QED
  BY <1>1, <1>2, <1>3, <1>4 DEF Next

\* The subscriptions at the nodes are those some filter in force leads to.
LEMMA JustifiedStep ==
  ASSUME TypeOK, Justified, [Next]_vars
  PROVE  Justified'
<1> USE TreeAssumption
<1>1. ASSUME NEW f \in Filter, NEW c \in Client, NEW q \in QoS, subscribe(f, c, q)
      PROVE  Justified'
  <2>1. \A w : Hits(nodes, w) \subseteq Hits(nodes', w)
    BY <1>1, HitsCreated, HitsMonotone DEF subscribe
  <2>2. [client |-> c, filter |-> f, qos |-> q] \in granted'
    BY <1>1 DEF subscribe, Table!Subscribe
  <2>3. \A g \in granted : g \in granted' \/ (g.client = c /\ g.filter = f)
    BY <1>1 DEF subscribe, Table!Subscribe, Table!Without
  <2> SUFFICES ASSUME NEW s \in subscribers'
               PROVE  \E g \in granted' : /\ g.client = s.client
                                          /\ s.node \in Hits(nodes', g.filter)
    BY DEF Justified
  <2>4. CASE s \in subscribers /\ ~(s.node \in Hits(nodes, f) /\ s.client = c)
    <3>1. PICK g \in granted : g.client = s.client
                               /\ s.node \in Hits(nodes, g.filter)
      BY <2>4 DEF Justified
    <3> QED
      BY <2>1, <2>3, <2>4, <3>1
  <2>5. CASE s.client = c /\ s.node \in Hits(nodes, f)
    BY <2>1, <2>2, <2>5
  <2> QED
    BY <1>1, <2>4, <2>5 DEF subscribe, Others
<1>2. ASSUME NEW f \in Filter, NEW c \in Client, unsubscribe(f, c)
      PROVE  Justified'
  <2>1. \A w : Hits(nodes, w) \subseteq Hits(nodes', w)
    BY <1>2, HitsCreated, HitsMonotone DEF unsubscribe
  <2>2. \A g \in granted : g \in granted' \/ (g.client = c /\ g.filter = f)
    BY <1>2 DEF unsubscribe, Table!Unsubscribe, Table!Without
  <2>3. \A s \in subscribers' :
          s \in subscribers /\ ~(s.node \in Hits(nodes, f) /\ s.client = c)
    BY <1>2 DEF unsubscribe, Others
  <2> QED
    BY <2>1, <2>2, <2>3 DEF Justified
<1>3. ASSUME NEW t \in Topic, match(t)
      PROVE  Justified'
  <2>1. t \in Seq(Word \cup {Plus, Hash})
    OBVIOUS
  <2>2. \A w : Hits(nodes, w) \subseteq Hits(nodes', w)
    BY <1>3, <2>1, HitsCreated, HitsMonotone DEF match
  <2> QED
    BY <1>3, <2>2 DEF match, Justified
<1>4. CASE UNCHANGED vars
  BY <1>4 DEF vars, Justified
<1> QED
  BY <1>1, <1>2, <1>3, <1>4 DEF Next

\* Every node hangs on its parent, and a client subscribes at a node once.
THEOREM TreeTypeCorrect == Spec => []TypeOK
<1>1. Init => TypeOK
  BY DEF Init, TypeOK, Subscription
<1> QED
  BY <1>1, TreeTypeStep, PTL DEF Spec

\* A publication never goes to a client without a matching subscription in
\* force.
THEOREM NeverSpurious == Spec => []NoSpurious
<1>1. Init => TypeOK /\ Justified
  BY DEF Init, TypeOK, Subscription, Justified
<1>2. TypeOK /\ Justified /\ [Next]_vars => (TypeOK /\ Justified)'
  BY TreeTypeStep, JustifiedStep
<1>3. TypeOK /\ Justified => NoSpurious
  <2> SUFFICES ASSUME TypeOK, Justified, NEW s \in subscribers
               PROVE  \E g \in granted : /\ g.client = s.client
                                         /\ Table!Matches(g.filter, s.node)
    BY DEF NoSpurious
  <2>1. PICK g \in granted : g.client = s.client
                             /\ s.node \in Hits(nodes, g.filter)
    BY DEF Justified
  <2>2. g.filter \in Seq(Word \cup {Plus, Hash}) /\ nodes \subseteq Seq(Word)
    BY TreeAssumption DEF TypeOK
  <2> QED
    BY <2>1, <2>2, HitsMatch
<1> QED
  BY <1>1, <1>2, <1>3, PTL DEF Spec

-----------------------------------------------------------------------------
(***************************************************************************)
(* Without wildcards the tree implements the table of subscriptions.       *)
(***************************************************************************)

\* getNode returns just the node of a path without wildcards.
LEMMA ConcreteHits ==
  ASSUME NEW N, NEW w \in Seq(Word)
  PROVE  Hits(N, w) = {w}
<1>0. /\ Len(w) \in Nat /\ w \in [1 .. Len(w) -> Word]
      /\ \A j \in 1 .. Len(w) : w[j] # Plus /\ w[j] # Hash
  BY TreeAssumption, LenProperties, ElementOfSeq
<1>1. Reached(w) = 0 .. Len(w)
  BY <1>0 DEF Reached
<1>2. w \in Walks(N, w, Len(w))
  BY <1>0 DEF Walks
<1>3. ASSUME NEW p \in Walks(N, w, Len(w)) PROVE p = w
  <2>1. p \in [1 .. Len(w) -> Word] /\ \A j \in 1 .. Len(w) : p[j] = w[j]
    BY <1>0 DEF Walks
  <2> QED
    BY <1>0, <2>1
<1> QED
  BY <1>1, <1>2, <1>3 DEF Hits

\* A path without wildcards matches itself only.
LEMMA ConcreteMatches ==
  ASSUME NEW w \in Seq(Word), NEW t \in Seq(Word)
  PROVE  Table!Matches(w, t) <=> w = t
<1>0. \A j \in 1 .. Len(w) : w[j] # Plus /\ w[j] # Hash
  BY TreeAssumption, ElementOfSeq
<1>1. ASSUME Table!Matches(w, t) PROVE w = t
  <2>1. Len(w) = Len(t) /\ \A j \in 1 .. Len(w) : w[j] = t[j]
    BY <1>0, <1>1 DEF Table!Matches
  <2> QED
    BY <2>1, SeqEqual
<1> QED
  BY <1>1 DEF Table!Matches

LEMMA ExactStep ==
  ASSUME Filter \subseteq Seq(Word), TypeOK, Exact, [Next]_vars
  PROVE  Exact' /\ [Table!Next]_(Table!tableVars)
<1>1. ASSUME NEW f \in Filter, NEW c \in Client, NEW q \in QoS, subscribe(f, c, q)
      PROVE  Exact' /\ Table!Next
  <2>1. Hits(nodes, f) = {f}
    BY ConcreteHits
  <2>2. Table!Subscribe(f, c, q)
    BY <1>1 DEF subscribe
  <2>3. subscribers' = {s \in subscribers : ~(s.node = f /\ s.client = c)}
                       \cup {[node |-> f, client |-> c, qos |-> q]}
    BY <1>1, <2>1 DEF subscribe, Others
  <2>4. granted' = {g \in granted : ~(g.client = c /\ g.filter = f)}
                   \cup {[client |-> c, filter |-> f, qos |-> q]}
    BY <2>2 DEF Table!Subscribe, Table!Without
  <2>5. Exact'
    <3>1. ASSUME NEW s \in subscribers'
          PROVE  \E g \in granted' : s = Entry(g)
      <4>1. CASE s = [node |-> f, client |-> c, qos |-> q]
        <5> DEFINE g == [client |-> c, filter |-> f, qos |-> q]
        <5>1. g \in granted' /\ s = Entry(g)
          BY <2>4, <4>1 DEF Entry
        <5> QED
          BY <5>1
      <4>2. CASE s \in subscribers /\ ~(s.node = f /\ s.client = c)
        <5>1. PICK g \in granted : s = Entry(g)
          BY <4>2 DEF Exact
        <5> QED
          BY <2>4, <4>2, <5>1 DEF Entry
      <4> QED
        BY <2>3, <4>1, <4>2
    <3>2. ASSUME NEW g \in granted'
          PROVE  Entry(g) \in subscribers'
      <4>1. CASE g = [client |-> c, filter |-> f, qos |-> q]
        BY <2>3, <4>1 DEF Entry
      <4>2. CASE g \in granted /\ ~(g.client = c /\ g.filter = f)
        BY <2>3, <4>2 DEF Exact, Entry
      <4> QED
        BY <2>4, <4>1, <4>2
    <3> QED
      BY <3>1, <3>2 DEF Exact
  <2> QED
    BY <2>2, <2>5 DEF Table!Next
<1>2. ASSUME NEW f \in Filter, NEW c \in Client, unsubscribe(f, c)
      PROVE  Exact' /\ Table!Next
  <2>1. Hits(nodes, f) = {f}
    BY ConcreteHits
  <2>2. Table!Unsubscribe(f, c)
    BY <1>2 DEF unsubscribe
  <2>3. subscribers' = {s \in subscribers : ~(s.node = f /\ s.client = c)}
    BY <1>2, <2>1 DEF unsubscribe, Others
  <2>4. granted' = {g \in granted : ~(g.client = c /\ g.filter = f)}
    BY <2>2 DEF Table!Unsubscribe, Table!Without
  <2>5. Exact'
    BY <2>3, <2>4 DEF Exact, Entry
  <2> QED
    BY <2>2, <2>5 DEF Table!Next
<1>3. ASSUME NEW t \in Topic, match(t)
      PROVE  Exact' /\ Table!Next
  <2>1. Hits(nodes, t) = {t}
    BY ConcreteHits, TreeAssumption
  <2>2. Answer(t) = {[client |-> s.client, qos |-> s.qos] :
                       s \in {r \in subscribers : r.node = t}}
    BY <2>1 DEF Answer
  <2>3. \A g \in granted : Table!Matches(g.filter, t) <=> g.filter = t
    BY ConcreteMatches, TreeAssumption DEF TypeOK
  <2>4. {[client |-> g.client, qos |-> g.qos] :
           g \in {h \in granted : Table!Matches(h.filter, t)}}
        = {[client |-> g.client, qos |-> g.qos] :
             g \in {h \in granted : h.filter = t}}
    BY <2>3
  <2>5. Answer(t) = {[client |-> g.client, qos |-> g.qos] :
                       g \in {h \in granted : h.filter = t}}
    <3>1. \A s \in subscribers : \E g \in granted : s = Entry(g)
      BY DEF Exact
    <3>2. \A g \in granted : Entry(g) \in subscribers
      BY DEF Exact
    <3>3. \A g : /\ Entry(g).node = g.filter /\ Entry(g).client = g.client
                 /\ Entry(g).qos = g.qos
      BY DEF Entry
    <3>4. ASSUME NEW a \in Answer(t)
          PROVE  \E g \in granted : g.filter = t
                   /\ a = [client |-> g.client, qos |-> g.qos]
      BY <2>2, <3>1, <3>3
    <3>5. ASSUME NEW g \in granted, g.filter = t
          PROVE  [client |-> g.client, qos |-> g.qos] \in Answer(t)
      BY <2>2, <3>2, <3>3, <3>5
    <3> QED
      BY <3>4, <3>5
  <2>6. Table!Publish(t)
    BY <1>3, <2>4, <2>5 DEF match, Table!Publish
  <2>7. Exact'
    BY <1>3 DEF match, Exact
  <2> QED
    BY <2>6, <2>7 DEF Table!Next
<1>4. CASE UNCHANGED vars
  BY <1>4 DEF vars, Exact, Table!tableVars
<1> QED
  BY <1>1, <1>2, <1>3, <1>4 DEF Next

\* Without wildcards, match answers every publication with the subscriptions in
\* force for its topic, at the QoS last granted, and with nothing else.
THEOREM TreeImplementsTable ==
  ASSUME Filter \subseteq Seq(Word)
  PROVE  Spec => ImplementsTable
<1>1. Init => TypeOK /\ Exact
  BY DEF Init, TypeOK, Subscription, Exact
<1>2. TypeOK /\ Exact /\ [Next]_vars => (TypeOK /\ Exact)'
  BY TreeTypeStep, ExactStep
<1>3. TypeOK /\ Exact /\ [Next]_vars => [Table!Next]_(Table!tableVars)
  BY ExactStep
<1>4. Init => Table!Init
  BY DEF Init, Table!Init
<1> QED
  BY <1>1, <1>2, <1>3, <1>4, PTL DEF Spec, ImplementsTable, Table!Spec
=============================================================================
