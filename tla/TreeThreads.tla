---------------------------- MODULE TreeThreads ----------------------------
(***************************************************************************)
(* The topic tree under the worker pool: each method of Node is a step of  *)
(* its own, because it takes and leaves the mutex of its node, and match   *)
(* copies the subscribers of a node with no mutex at all.                  *)
(*                                                                         *)
(* addLink replaces what is there.  The Node that was there is destroyed,  *)
(* with every Node below it and their subscribers, though other threads    *)
(* may stand on one of them.  So a Node is an object here, a number, and   *)
(* node says which object a path of levels leads to.  Filters have no      *)
(* wildcards; what the walk does with those is TopicTree.                  *)
(***************************************************************************)
EXTENDS Naturals, Sequences

CONSTANTS
  Worker,     \* threads of the pool
  Client,
  NoClient,   \* a publisher, who only calls match
  Word,       \* levels
  Topic,      \* topics and filters
  MaxCalls    \* bound: calls of subscribe, unsubscribe and match

ASSUME ThreadsAssumption ==
  /\ Topic \subseteq Seq(Word) /\ NoClient \notin Client
  /\ MaxCalls \in Nat

\* The paths of the nodes on the way to the topics
Path == UNION {{SubSeq(w, 1, i) : i \in 0 .. Len(w)} : w \in Topic}

None == 0
Root == 1

VARIABLES
  node,         \* the Node each path leads to
  made,         \* how many Nodes were made
  subscribers,  \* Node::subscribers of the nodes in the tree
  walk,         \* what each thread is doing
  fault,        \* what undefined behaviour was met
  calls,
  granted,      \* history: the subscriptions clients count on
  raced         \* history: links that two threads missed at the same time

vars == <<node, made, subscribers, walk, fault, calls, granted, raced>>

Op == {"none", "subscribe", "unsubscribe", "match"}
Idle == [op |-> "none", client |-> NoClient, topic |-> <<>>, at |-> <<>>,
         obj |-> None, phase |-> "idle", found |-> {}, torn |-> FALSE,
         steady |-> {}, ever |-> {}]
Walk == [op : Op, client : Client \cup {NoClient}, topic : Topic \cup {<<>>},
         at : Path \cup {<<>>}, obj : Nat,
         phase : {"idle", "look", "add", "get", "copy", "answered"},
         found : SUBSET Client, torn : BOOLEAN,
         steady : SUBSET Client, ever : SUBSET Client]
Subscription == [node : Path, client : Client]

\* q is p or below p
Below(q, p) == Len(p) =< Len(q) /\ SubSeq(q, 1, Len(p)) = p

\* Also: an object is at one place, and hangs on its parent.
TypeOK ==
  /\ node \in [Path -> 0 .. made] /\ made \in Nat
  /\ \A p, q \in Path : /\ node[p] = node[q] /\ node[p] # None => p = q
                        /\ node[q] # None /\ Below(q, p) => node[p] # None
  /\ subscribers \subseteq {s \in Subscription : node[s.node] # None}
  /\ walk \in [Worker -> Walk]
  /\ fault \in {"none", "dangling", "torn"}
  /\ calls \in 0 .. MaxCalls
  /\ granted \subseteq [topic : Topic, client : Client]
  /\ raced \subseteq Path

Init ==
  /\ node = [p \in Path |-> IF p = <<>> THEN Root ELSE None] /\ made = Root
  /\ subscribers = {}
  /\ walk = [t \in Worker |-> Idle]
  /\ fault = "none" /\ calls = 0 /\ granted = {} /\ raced = {}

-----------------------------------------------------------------------------
Busy(t) == walk[t].phase \notin {"idle", "answered"}

\* The Node thread t holds a pointer to has not been destroyed
Standing(t) == node[walk[t].at] = walk[t].obj

\* Thread t, standing in the tree, is in phase ph
In(t, ph) == fault = "none" /\ walk[t].phase = ph /\ Standing(t)

\* The node of t is not yet that of its topic, and the next one on the way
OnTheWay(t) == walk[t].at # walk[t].topic
Child(t) == SubSeq(walk[t].topic, 1, Len(walk[t].at) + 1)

Clients(S, w) == {c \in Client : [topic |-> w, client |-> c] \in S}

\* subscribe, unsubscribe or match is called: getNode starts at the root
call(t, op, c, w) ==
  /\ fault = "none" /\ ~Busy(t) /\ calls < MaxCalls
  /\ calls' = calls + 1
  /\ walk' = [walk EXCEPT ![t] =
                [Idle EXCEPT !.op = op, !.client = c, !.topic = w, !.obj = Root,
                             !.phase = "look", !.steady = Clients(granted, w),
                             !.ever = Clients(granted, w)]]
  /\ UNCHANGED <<node, made, subscribers, fault, granted, raced>>

\* Mutant of ispresent: the links are not looked at
ispresent_Never(t) ==
  /\ In(t, "look") /\ OnTheWay(t)
  /\ walk' = [walk EXCEPT ![t].phase = "add"]
  /\ raced' = raced \cup {p \in {Child(t)} :
                /\ node[p] = None
                /\ \E u \in Worker : walk[u].phase = "add" /\ Child(u) = p}
  /\ UNCHANGED <<node, made, subscribers, fault, calls, granted>>

ispresent(t) ==
  /\ In(t, "look") /\ OnTheWay(t)
  /\ walk' = [walk EXCEPT ![t].phase = IF node[Child(t)] # None THEN "get" ELSE "add"]
  /\ raced' = raced \cup {p \in {Child(t)} :
                /\ node[p] = None
                /\ \E u \in Worker : walk[u].phase = "add" /\ Child(u) = p}
  /\ UNCHANGED <<node, made, subscribers, fault, calls, granted>>

\* Mutant of addLink: the subscribers below the Node that was there stay
addLink_Shallow(t) ==
  /\ In(t, "add")
  /\ made' = made + 1
  /\ node' = [q \in Path |-> IF q = Child(t) THEN made + 1
                             ELSE IF Below(q, Child(t)) THEN None ELSE node[q]]
  /\ subscribers' = {s \in subscribers : s.node # Child(t)}
  /\ walk' = [walk EXCEPT ![t].phase = "get"]
  /\ UNCHANGED <<fault, calls, granted, raced>>

\* A new Node takes the place of what is there
addLink(t) ==
  /\ In(t, "add")
  /\ made' = made + 1
  /\ node' = [q \in Path |-> IF q = Child(t) THEN made + 1
                             ELSE IF Below(q, Child(t)) THEN None ELSE node[q]]
  /\ subscribers' = {s \in subscribers : ~Below(s.node, Child(t))}
  /\ walk' = [walk EXCEPT ![t].phase = "get"]
  /\ UNCHANGED <<fault, calls, granted, raced>>

getLink(t) ==
  /\ In(t, "get")
  /\ walk' = [walk EXCEPT ![t].phase = "look", ![t].at = Child(t),
                          ![t].obj = node[Child(t)]]
  /\ UNCHANGED <<node, made, subscribers, fault, calls, granted, raced>>

\* The end of getNode, of an operation op
Arrived(t, op) == In(t, "look") /\ ~OnTheWay(t) /\ walk[t].op = op

\* Thread t leaves the tree; the copies that others are making of the subscribers
\* of its node are disturbed if it wrote them, and they see who comes and goes.
Leave(t, wrote, come, go) ==
  LET w == walk[t]
      Seen(u) == IF walk[u].topic # w.topic THEN walk[u]
                 ELSE [walk[u] EXCEPT
                         !.torn = @ \/ (walk[u].phase = "copy" /\ wrote),
                         !.steady = IF Busy(u) THEN @ \ go ELSE @,
                         !.ever = IF Busy(u) THEN @ \cup come ELSE @]
  IN  walk' = [u \in Worker |-> IF u = t THEN Idle ELSE Seen(u)]

\* Node::subscribe
subscribe(t) ==
  LET w == walk[t]
  IN  /\ Arrived(t, "subscribe")
      /\ subscribers' = subscribers \cup {[node |-> w.at, client |-> w.client]}
      /\ granted' = granted \cup {[topic |-> w.topic, client |-> w.client]}
      /\ Leave(t, TRUE, {w.client}, {})
      /\ UNCHANGED <<node, made, fault, calls, raced>>

\* Mutant of unsubscribe: the node is emptied
unsubscribe_All(t) ==
  LET w == walk[t]
      s == [node |-> w.at, client |-> w.client]
  IN  /\ Arrived(t, "unsubscribe")
      /\ subscribers' = {x \in subscribers : x.node # w.at}
      /\ granted' = granted \ {[topic |-> w.topic, client |-> w.client]}
      /\ Leave(t, s \in subscribers, {}, {w.client})
      /\ UNCHANGED <<node, made, fault, calls, raced>>

\* Node::unsubscribe erases the client if it is there
unsubscribe(t) ==
  LET w == walk[t]
      s == [node |-> w.at, client |-> w.client]
  IN  /\ Arrived(t, "unsubscribe")
      /\ subscribers' = subscribers \ {s}
      /\ granted' = granted \ {[topic |-> w.topic, client |-> w.client]}
      /\ Leave(t, s \in subscribers, {}, {w.client})
      /\ UNCHANGED <<node, made, fault, calls, raced>>

\* Mutant of match: the subscribers below the node are copied too
match_AllBelow(t) ==
  /\ Arrived(t, "match")
  /\ walk' = [walk EXCEPT ![t].phase = "copy",
                ![t].found = {s.client : s \in {x \in subscribers : Below(x.node, walk[t].at)}}]
  /\ UNCHANGED <<node, made, subscribers, fault, calls, granted, raced>>

\* match begins to copy the subscribers of the node ...
match(t) ==
  /\ Arrived(t, "match")
  /\ walk' = [walk EXCEPT ![t].phase = "copy",
                ![t].found = {c \in Client : [node |-> walk[t].at, client |-> c] \in subscribers}]
  /\ UNCHANGED <<node, made, subscribers, fault, calls, granted, raced>>

\* ... and has copied them.  If they were written meanwhile, some may be missing,
\* some new ones may be there, or the iterator is no longer good.
answer(t) ==
  /\ In(t, "copy")
  /\ \E A \in SUBSET (walk[t].found \cup
              {c \in Client : [node |-> walk[t].at, client |-> c] \in subscribers}) :
       /\ walk[t].torn \/ A = walk[t].found
       /\ walk' = [walk EXCEPT ![t].phase = "answered", ![t].found = A]
  /\ fault' \in IF walk[t].torn THEN {"none", "torn"} ELSE {"none"}
  /\ UNCHANGED <<node, made, subscribers, calls, granted, raced>>

\* Thread t uses a Node that was destroyed; nothing can be said of what follows.
dangle(t) ==
  /\ fault = "none" /\ Busy(t) /\ ~Standing(t)
  /\ fault' = "dangling"
  /\ UNCHANGED <<node, made, subscribers, walk, calls, granted, raced>>

Call(t) == \E w \in Topic :
             \/ call(t, "match", NoClient, w)
             \/ \E c \in Client : call(t, "subscribe", c, w) \/ call(t, "unsubscribe", c, w)

Go(t) == \/ ispresent(t) \/ addLink(t) \/ getLink(t)
         \/ subscribe(t) \/ unsubscribe(t) \/ match(t) \/ answer(t) \/ dangle(t)

Next == \E t \in Worker : Call(t) \/ Go(t)

Spec == Init /\ [][Next]_vars

-----------------------------------------------------------------------------
(***************************************************************************)
(* Properties.  Each leaves out the topics with a link on the way that two *)
(* threads missed at the same time: the second of them destroys what the   *)
(* first has made.                                                         *)
(***************************************************************************)
Affected(w) == \E p \in raced : Below(w, p)

\* Whatever the pool interleaves, the tree holds the subscriptions in force: those
\* at the node of a topic are those granted for it, unless the topic is affected.
HoldsGranted ==
  \A w \in Topic : Affected(w) \/
    Clients(granted, w) =
      {c \in Client : [node |-> w, client |-> c] \in subscribers}

\* A thread never works on a Node that was destroyed, unless its topic is affected.
StandsInTree ==
  /\ \A t \in Worker : Busy(t) => Standing(t) \/ Affected(walk[t].topic)
  /\ fault = "dangling" => raced # {}

\* match finds every client whose subscription was in force all the time it took, and
\* only clients whose subscription was in force at some time meanwhile, unless the
\* topic is affected or another worker wrote what it was copying.
AnswersRight ==
  \A t \in Worker :
    LET w == walk[t]
    IN  w.phase = "answered" =>
          \/ w.steady \subseteq w.found /\ w.found \subseteq w.ever
          \/ w.torn \/ Affected(w.topic)
=============================================================================
