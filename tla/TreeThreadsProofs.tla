------------------------- MODULE TreeThreadsProofs -------------------------
(***************************************************************************)
(* Proofs about TreeThreads for every number of threads, clients, levels   *)
(* and topics.                                                             *)
(***************************************************************************)
EXTENDS TreeThreads, SequenceTheorems, TLAPS

-----------------------------------------------------------------------------
(* The inductive invariant, thread by thread *)

\* A thread in getNode is on the way to its topic, and was led there by a pointer
\* to some Node; only match copies, at its topic.
OnPath(t) == Busy(t) =>
  /\ walk[t].topic \in Topic /\ walk[t].at \in Path
  /\ Below(walk[t].topic, walk[t].at)
  /\ walk[t].obj \in 1 .. made
  /\ walk[t].phase \in {"add", "get"} => OnTheWay(t)
  /\ walk[t].phase = "copy" => ~OnTheWay(t)
  /\ walk[t].op \in {"subscribe", "unsubscribe"} => walk[t].client \in Client

\* It stands on that Node, unless its topic is affected (StandsInTree).
Stands(t) == Busy(t) => Standing(t) \/ Affected(walk[t].topic)

\* A link that it is about to add is missing, unless two threads missed it.
Missing(t) ==
  walk[t].phase = "add" => node[Child(t)] = None \/ Child(t) \in raced

\* A link that it is about to follow is there, while its node is.
Present(t) == walk[t].phase = "get" /\ Standing(t) => node[Child(t)] # None

\* What it saw so far of who comes and goes
Witnessed(t) == Busy(t) =>
  /\ walk[t].steady \subseteq Clients(granted, walk[t].topic)
  /\ Clients(granted, walk[t].topic) \subseteq walk[t].ever

\* What it has copied or answered is right, unless it was disturbed (AnswersRight).
Right(t) == walk[t].phase \in {"copy", "answered"} =>
  \/ walk[t].steady \subseteq walk[t].found /\ walk[t].found \subseteq walk[t].ever
  \/ walk[t].torn \/ Affected(walk[t].topic)

ThreadInv(t) ==
  OnPath(t) /\ Stands(t) /\ Missing(t) /\ Present(t) /\ Witnessed(t) /\ Right(t)

\* Two threads about to add the same link missed it together.
Together ==
  \A t, u \in Worker :
    /\ t # u /\ walk[t].phase = "add" /\ walk[u].phase = "add" /\ Child(t) = Child(u)
    => Child(t) \in raced

Dangles == fault = "dangling" => raced # {}

\* The root is never replaced.
Rooted == Root =< made /\ (Topic # {} => node[<<>>] = Root)

ThreadsInv ==
  /\ TypeOK /\ HoldsGranted /\ Together /\ Dangles /\ Rooted
  /\ \A t \in Worker : ThreadInv(t)

-----------------------------------------------------------------------------
(* Paths *)

LEMMA PathFacts ==
  /\ Path \subseteq Seq(Word)
  /\ \A w \in Topic : /\ w \in Path /\ <<>> \in Path /\ Below(w, <<>>)
                      /\ \A i \in 0 .. Len(w) : SubSeq(w, 1, i) \in Path
<1>1. ASSUME NEW w \in Topic, NEW i \in 0 .. Len(w)
      PROVE  SubSeq(w, 1, i) \in Seq(Word) /\ SubSeq(w, 1, i) \in Path
  <2>1. w \in Seq(Word) /\ i \in Int /\ 1 \in Int /\ \A j \in 1 .. i : w[j] \in Word
    BY ThreadsAssumption
  <2>2. SubSeq(w, 1, i) \in Seq(Word)
    BY <2>1, SubSeqProperties
  <2> QED
    BY <2>2 DEF Path
<1>2. ASSUME NEW p \in Path PROVE p \in Seq(Word)
  <2>1. PICK w \in Topic : p \in {SubSeq(w, 1, i) : i \in 0 .. Len(w)}
    BY DEF Path
  <2>2. PICK i \in 0 .. Len(w) : p = SubSeq(w, 1, i)
    BY <2>1
  <2> QED
    BY <1>1, <2>2
<1>3. ASSUME NEW w \in Topic
      PROVE  w \in Path /\ <<>> \in Path /\ Below(w, <<>>)
  <2>1. w \in Seq(Word) /\ Len(w) \in 0 .. Len(w) /\ 0 \in 0 .. Len(w)
    BY ThreadsAssumption
  <2>2. SubSeq(w, 1, Len(w)) = w /\ SubSeq(w, 1, 0) = <<>>
    BY <2>1, SubSeqFull, SubSeqEmpty
  <2>3. w \in Path /\ <<>> \in Path
    BY <1>1, <2>1, <2>2
  <2>4. Len(<<>>) = 0 /\ 0 =< Len(w)
    BY <2>1
  <2> QED
    BY <2>2, <2>3, <2>4 DEF Below
<1> QED
  BY <1>1, <1>2, <1>3

LEMMA BelowItself ==
  ASSUME NEW p \in Seq(Word)
  PROVE  Below(p, p)
  BY DEF Below

LEMMA BelowTransitive ==
  ASSUME NEW p \in Seq(Word), NEW q \in Seq(Word), NEW r \in Seq(Word),
         Below(q, p), Below(p, r)
  PROVE  Below(q, r)
<1>1. Len(r) =< Len(p) /\ Len(p) =< Len(q) /\ SubSeq(q, 1, Len(p)) = p
      /\ SubSeq(p, 1, Len(r)) = r
  BY DEF Below
<1>2. SubSeq(SubSeq(q, 1, Len(p)), 1, Len(r)) = SubSeq(q, 1, Len(r))
  BY <1>1
<1> QED
  BY <1>1, <1>2 DEF Below

\* Two prefixes of one path are comparable.
LEMMA BelowLinear ==
  ASSUME NEW p \in Seq(Word), NEW q \in Seq(Word), NEW r \in Seq(Word),
         Below(q, p), Below(q, r), Len(r) =< Len(p)
  PROVE  Below(p, r)
<1>1. Len(p) =< Len(q) /\ SubSeq(q, 1, Len(p)) = p /\ SubSeq(q, 1, Len(r)) = r
  BY DEF Below
<1>2. SubSeq(SubSeq(q, 1, Len(p)), 1, Len(r)) = SubSeq(q, 1, Len(r))
  BY <1>1
<1> QED
  BY <1>1, <1>2 DEF Below

LEMMA BelowEqual ==
  ASSUME NEW p \in Seq(Word), NEW q \in Seq(Word), Below(q, p), Below(p, q)
  PROVE  p = q
  BY DEF Below

\* The next level on the way
LEMMA NextLevel ==
  ASSUME NEW w \in Topic, NEW p \in Path, Below(w, p), p # w,
         NEW c, c = SubSeq(w, 1, Len(p) + 1)
  PROVE  /\ c \in Path /\ Below(w, c) /\ Below(c, p) /\ ~Below(p, c)
         /\ Len(c) = Len(p) + 1
<1>1. w \in Seq(Word) /\ p \in Seq(Word) /\ Len(p) =< Len(w)
      /\ SubSeq(w, 1, Len(p)) = p
  BY PathFacts, ThreadsAssumption DEF Below
<1>2. Len(p) # Len(w)
  BY <1>1
<1>3. Len(p) + 1 \in 0 .. Len(w) /\ Len(p) \in 0 .. Len(w)
  BY <1>1, <1>2
<1>4. c \in Path /\ c \in Seq(Word) /\ Len(c) = Len(p) + 1
  BY <1>1, <1>3, PathFacts
<1>5. Below(w, c)
  BY <1>1, <1>3, <1>4 DEF Below
<1>6. Below(c, p)
  <2>1. Len(p) =< Len(c)
    BY <1>1, <1>4
  <2> QED
    BY <1>1, <1>4, <1>5, <2>1, BelowLinear
<1> QED
  BY <1>1, <1>4, <1>5, <1>6 DEF Below

-----------------------------------------------------------------------------
(* How the records of the threads change *)

\* Thread u is where it was, at what it was doing.
Same(u) ==
  /\ walk'[u].op = walk[u].op /\ walk'[u].client = walk[u].client
  /\ walk'[u].topic = walk[u].topic /\ walk'[u].at = walk[u].at
  /\ walk'[u].obj = walk[u].obj /\ walk'[u].phase = walk[u].phase
  /\ walk'[u].found = walk[u].found

\* ... and has seen nothing new.
Still(u) ==
  /\ Same(u) /\ walk'[u].torn = walk[u].torn
  /\ walk'[u].steady = walk[u].steady /\ walk'[u].ever = walk[u].ever

\* A step of t that only changes the phase of t, to ph
Turns(t, ph) ==
  /\ \A u \in Worker : Still(u) \/ u = t
  /\ walk'[t].op = walk[t].op /\ walk'[t].client = walk[t].client
  /\ walk'[t].topic = walk[t].topic /\ walk'[t].at = walk[t].at
  /\ walk'[t].obj = walk[t].obj /\ walk'[t].phase = ph
  /\ walk'[t].found = walk[t].found /\ walk'[t].torn = walk[t].torn
  /\ walk'[t].steady = walk[t].steady /\ walk'[t].ever = walk[t].ever

LEMMA WithPhase ==
  ASSUME NEW w \in Walk, NEW v, NEW ph \in {"add", "get"},
         v = [w EXCEPT !.phase = ph]
  PROVE  /\ v \in Walk /\ v.phase = ph
         /\ v.op = w.op /\ v.client = w.client /\ v.topic = w.topic /\ v.at = w.at
         /\ v.obj = w.obj /\ v.found = w.found /\ v.torn = w.torn
         /\ v.steady = w.steady /\ v.ever = w.ever
  BY DEF Walk

LEMMA Turn ==
  ASSUME walk \in [Worker -> Walk], NEW t \in Worker,
         NEW ph \in {"add", "get"}, walk' = [walk EXCEPT ![t].phase = ph]
  PROVE  walk' \in [Worker -> Walk] /\ Turns(t, ph)
<1>1. walk'[t] = [walk[t] EXCEPT !.phase = ph] /\ walk[t] \in Walk
      /\ \A u \in Worker : u # t => walk'[u] = walk[u]
  OBVIOUS
<1>2. \A u \in Worker : Still(u) \/ u = t
  BY <1>1 DEF Still, Same
<1>3. [walk[t] EXCEPT !.phase = ph] \in Walk
  BY <1>1, WithPhase
<1>4. walk' \in [Worker -> Walk]
  BY <1>1, <1>3
<1>5. Turns(t, ph)
  BY <1>1, <1>2, WithPhase DEF Turns
<1> QED
  BY <1>4, <1>5

LEMMA IdleWalk == Idle \in Walk
  BY DEF Idle, Walk, Op, None

\* The records that the other actions make of w
WithNode(w, p, o) == [w EXCEPT !.phase = "look", !.at = p, !.obj = o]
WithFound(w, ph, A) == [w EXCEPT !.phase = ph, !.found = A]
WithSeen(w, b, S, E) == [w EXCEPT !.torn = b, !.steady = S, !.ever = E]
Called(op, c, w, G) ==
  [Idle EXCEPT !.op = op, !.client = c, !.topic = w, !.obj = Root,
               !.phase = "look", !.steady = G, !.ever = G]

LEMMA WithNodeFields ==
  ASSUME NEW w \in Walk, NEW p \in Path, NEW o \in Nat,
         NEW v, v = WithNode(w, p, o)
  PROVE  /\ v \in Walk /\ v.phase = "look" /\ v.at = p /\ v.obj = o
         /\ v.op = w.op /\ v.client = w.client /\ v.topic = w.topic
         /\ v.found = w.found /\ v.torn = w.torn
         /\ v.steady = w.steady /\ v.ever = w.ever
  BY DEF Walk, WithNode

LEMMA WithFoundFields ==
  ASSUME NEW w \in Walk, NEW ph \in {"copy", "answered"}, NEW A \in SUBSET Client,
         NEW v, v = WithFound(w, ph, A)
  PROVE  /\ v \in Walk /\ v.phase = ph /\ v.found = A
         /\ v.op = w.op /\ v.client = w.client /\ v.topic = w.topic
         /\ v.at = w.at /\ v.obj = w.obj /\ v.torn = w.torn
         /\ v.steady = w.steady /\ v.ever = w.ever
  BY DEF Walk, WithFound

LEMMA WithSeenFields ==
  ASSUME NEW w \in Walk, NEW b \in BOOLEAN, NEW S \in SUBSET Client,
         NEW E \in SUBSET Client, NEW v, v = WithSeen(w, b, S, E)
  PROVE  /\ v \in Walk /\ v.torn = b /\ v.steady = S /\ v.ever = E
         /\ v.op = w.op /\ v.client = w.client /\ v.topic = w.topic
         /\ v.at = w.at /\ v.obj = w.obj /\ v.phase = w.phase /\ v.found = w.found
  BY DEF Walk, WithSeen

-----------------------------------------------------------------------------
(* What each action does to them *)

Others(t) == \A u \in Worker : Still(u) \/ u = t
WalkType == walk \in [Worker -> Walk]

\* t calls op for client c and the topic w.
Begins(t, op, c, w) ==
  /\ Others(t) /\ walk'[t].client = c
  /\ walk'[t].op = op /\ walk'[t].topic = w /\ walk'[t].at = <<>>
  /\ walk'[t].obj = Root /\ walk'[t].phase = "look"
  /\ walk'[t].steady = Clients(granted, w) /\ walk'[t].ever = Clients(granted, w)

\* t follows the next link.
Moves(t) ==
  /\ Others(t) /\ walk'[t].client = walk[t].client
  /\ walk'[t].op = walk[t].op /\ walk'[t].topic = walk[t].topic
  /\ walk'[t].at = Child(t) /\ walk'[t].obj = node[Child(t)]
  /\ walk'[t].phase = "look"
  /\ walk'[t].steady = walk[t].steady /\ walk'[t].ever = walk[t].ever

\* t is at ph, having found A.
Finds(t, ph, A) ==
  /\ Others(t) /\ walk'[t].client = walk[t].client
  /\ walk'[t].op = walk[t].op /\ walk'[t].topic = walk[t].topic
  /\ walk'[t].at = walk[t].at /\ walk'[t].obj = walk[t].obj
  /\ walk'[t].phase = ph /\ walk'[t].found = A /\ walk'[t].torn = walk[t].torn
  /\ walk'[t].steady = walk[t].steady /\ walk'[t].ever = walk[t].ever

\* u sees t come and go.
Sees(u, t, wrote, come, go) ==
  /\ Same(u)
  /\ walk'[u].torn = (walk[u].torn \/ (/\ walk[u].topic = walk[t].topic
                                       /\ walk[u].phase = "copy" /\ wrote))
  /\ walk'[u].steady = IF walk[u].topic = walk[t].topic /\ Busy(u)
                       THEN walk[u].steady \ go ELSE walk[u].steady
  /\ walk'[u].ever = IF walk[u].topic = walk[t].topic /\ Busy(u)
                     THEN walk[u].ever \cup come ELSE walk[u].ever

Leaves(t, wrote, come, go) ==
  /\ walk'[t] = Idle
  /\ \A u \in Worker : u # t => Sees(u, t, wrote, come, go)

NodeClients(p) == {c \in Client : [node |-> p, client |-> c] \in subscribers}

LEMMA CallStep ==
  ASSUME WalkType, NEW t \in Worker, NEW op \in {"subscribe", "unsubscribe", "match"},
         NEW c \in Client \cup {NoClient}, NEW w \in Topic, call(t, op, c, w)
  PROVE  WalkType' /\ Begins(t, op, c, w)
<1> DEFINE v == Called(op, c, w, Clients(granted, w))
<1>1. walk' = [walk EXCEPT ![t] = v] /\ walk \in [Worker -> Walk]
  BY DEF call, WalkType, Called
<1>2. /\ v \in Walk /\ v.op = op /\ v.client = c /\ v.topic = w /\ v.at = <<>>
      /\ v.obj = Root /\ v.phase = "look"
      /\ v.steady = Clients(granted, w) /\ v.ever = Clients(granted, w)
  <2>1. Clients(granted, w) \in SUBSET Client /\ op \in Op
    BY DEF Clients, Op
  <2> DEFINE G == Clients(granted, w)
  <2> HIDE DEF G
  <2>2. v = Called(op, c, w, G) /\ G \in SUBSET Client
    BY <2>1 DEF G
  <2> HIDE DEF v
  <2>3. /\ v \in Walk /\ v.op = op /\ v.client = c /\ v.topic = w /\ v.at = <<>>
        /\ v.obj = Root /\ v.phase = "look" /\ v.steady = G /\ v.ever = G
    BY <2>1, <2>2 DEF Called, Idle, Walk, Root, None
  <2> QED
    BY <2>3 DEF G
<1> HIDE DEF v
<1>3. walk'[t] = v /\ \A u \in Worker : u # t => walk'[u] = walk[u]
  BY <1>1
<1>4. walk' \in [Worker -> Walk] /\ Others(t)
  BY <1>1, <1>2, <1>3 DEF Others, Still, Same
<1> QED
  BY <1>2, <1>3, <1>4 DEF Begins, WalkType

LEMMA LookStep ==
  ASSUME WalkType, NEW t \in Worker, ispresent(t)
  PROVE  WalkType' /\ Turns(t, IF node[Child(t)] # None THEN "get" ELSE "add")
  BY Turn DEF ispresent, WalkType

LEMMA AddStep ==
  ASSUME WalkType, NEW t \in Worker, addLink(t)
  PROVE  WalkType' /\ Turns(t, "get")
  BY Turn DEF addLink, WalkType

LEMMA MoveStep ==
  ASSUME WalkType, NEW t \in Worker, getLink(t), Child(t) \in Path,
         node[Child(t)] \in Nat
  PROVE  WalkType' /\ Moves(t)
<1> DEFINE v == WithNode(walk[t], Child(t), node[Child(t)])
<1>1. walk' = [walk EXCEPT ![t] = v] /\ walk \in [Worker -> Walk]
  BY DEF getLink, WalkType, WithNode
<1>2. walk[t] \in Walk
  BY <1>1
<1>3. /\ v \in Walk /\ v.phase = "look" /\ v.at = Child(t)
      /\ v.obj = node[Child(t)] /\ v.op = walk[t].op
      /\ v.client = walk[t].client /\ v.topic = walk[t].topic
      /\ v.steady = walk[t].steady /\ v.ever = walk[t].ever
  BY <1>2, WithNodeFields
<1> HIDE DEF v
<1>4. walk'[t] = v /\ \A u \in Worker : u # t => walk'[u] = walk[u]
  BY <1>1
<1>5. walk' \in [Worker -> Walk] /\ Others(t)
  BY <1>1, <1>3, <1>4 DEF Others, Still, Same
<1> QED
  BY <1>3, <1>4, <1>5 DEF Moves, WalkType

LEMMA FindStep ==
  ASSUME WalkType, NEW t \in Worker, NEW ph \in {"copy", "answered"},
         NEW A \in SUBSET Client,
         walk' = [walk EXCEPT ![t].phase = ph, ![t].found = A]
  PROVE  WalkType' /\ Finds(t, ph, A)
<1> DEFINE v == WithFound(walk[t], ph, A)
<1>1. walk' = [walk EXCEPT ![t] = v] /\ walk \in [Worker -> Walk]
  BY DEF WalkType, WithFound
<1>2. walk[t] \in Walk
  BY <1>1
<1>3. /\ v \in Walk /\ v.phase = ph /\ v.found = A /\ v.op = walk[t].op
      /\ v.client = walk[t].client
      /\ v.topic = walk[t].topic /\ v.at = walk[t].at /\ v.obj = walk[t].obj
      /\ v.torn = walk[t].torn /\ v.steady = walk[t].steady /\ v.ever = walk[t].ever
  BY <1>2, WithFoundFields
<1> HIDE DEF v
<1>4. walk'[t] = v /\ \A u \in Worker : u # t => walk'[u] = walk[u]
  BY <1>1
<1>5. walk' \in [Worker -> Walk] /\ Others(t)
  BY <1>1, <1>3, <1>4 DEF Others, Still, Same
<1> QED
  BY <1>3, <1>4, <1>5 DEF Finds, WalkType

LEMMA LeaveStep ==
  ASSUME WalkType, NEW t \in Worker, NEW wrote \in BOOLEAN,
         NEW come \in SUBSET Client, NEW go \in SUBSET Client,
         Leave(t, wrote, come, go)
  PROVE  WalkType' /\ Leaves(t, wrote, come, go)
<1>1. ASSUME NEW u \in Worker, u # t
      PROVE  walk'[u] \in Walk /\ Sees(u, t, wrote, come, go)
  <2>1. walk[u] \in Walk
    BY DEF WalkType
  <2>2. CASE walk[u].topic # walk[t].topic
    <3>1. walk'[u] = walk[u]
      BY <1>1, <2>2 DEF Leave
    <3> QED
      BY <2>1, <2>2, <3>1 DEF Sees, Same, Walk
  <2>3. CASE walk[u].topic = walk[t].topic
    <3> DEFINE b == walk[u].torn \/ (walk[u].phase = "copy" /\ wrote)
               S == IF Busy(u) THEN walk[u].steady \ go ELSE walk[u].steady
               E == IF Busy(u) THEN walk[u].ever \cup come ELSE walk[u].ever
    <3>1. walk'[u] = WithSeen(walk[u], b, S, E)
      BY <1>1, <2>3 DEF Leave, WithSeen
    <3>2. b \in BOOLEAN /\ S \in SUBSET Client /\ E \in SUBSET Client
      BY <2>1 DEF Walk
    <3> HIDE DEF b, S, E
    <3>3. walk'[u] \in Walk /\ Same(u) /\ walk'[u].torn = b
          /\ walk'[u].steady = S /\ walk'[u].ever = E
      BY <2>1, <3>1, <3>2, WithSeenFields DEF Same
    <3> QED
      BY <2>3, <3>3 DEF Sees, b, S, E
  <2> QED
    BY <2>2, <2>3
<1>2. walk'[t] = Idle
  BY DEF Leave
<1>3. walk' \in [Worker -> Walk]
  BY <1>1, <1>2, IdleWalk DEF Leave
<1> QED
  BY <1>1, <1>2, <1>3 DEF Leaves, WalkType

-----------------------------------------------------------------------------
(* The threads that a step leaves alone *)

LEMMA SameFacts ==
  ASSUME NEW u \in Worker, Same(u)
  PROVE  /\ Child(u)' = Child(u) /\ Busy(u)' = Busy(u)
         /\ OnTheWay(u)' = OnTheWay(u)
         /\ node' = node => Standing(u)' = Standing(u)
  BY DEF Same, Child, Busy, OnTheWay, Standing

LEMMA AffectedStays ==
  ASSUME NEW w, raced \subseteq raced', Affected(w)
  PROVE  Affected(w)'
  BY DEF Affected

\* A step that makes and destroys nothing
Quiet == UNCHANGED <<node, made>> /\ raced \subseteq raced'

LEMMA SameInv ==
  ASSUME NEW u \in Worker, Same(u), Quiet, ThreadInv(u)
  PROVE  OnPath(u)' /\ Stands(u)' /\ Missing(u)' /\ Present(u)'
<1>1. /\ Child(u)' = Child(u) /\ Busy(u)' = Busy(u)
      /\ OnTheWay(u)' = OnTheWay(u) /\ Standing(u)' = Standing(u)
  BY SameFacts DEF Quiet
<1>2. OnPath(u)'
  BY <1>1 DEF Same, Quiet, ThreadInv, OnPath
<1>3. Stands(u)'
  BY <1>1, AffectedStays DEF Same, Quiet, ThreadInv, Stands
<1>4. Missing(u)'
  BY <1>1 DEF Same, Quiet, ThreadInv, Missing
<1>5. Present(u)'
  BY <1>1 DEF Same, Quiet, ThreadInv, Present
<1> QED
  BY <1>2, <1>3, <1>4, <1>5

LEMMA StillInv ==
  ASSUME NEW u \in Worker, Still(u), Quiet, granted' = granted, ThreadInv(u)
  PROVE  ThreadInv(u)'
<1>1. Same(u)
  BY DEF Still
<1>2. OnPath(u)' /\ Stands(u)' /\ Missing(u)' /\ Present(u)'
  BY <1>1, SameInv
<1>3. Witnessed(u)'
  <2>1. Busy(u)' = Busy(u) /\ walk'[u].topic = walk[u].topic
    BY <1>1, SameFacts DEF Same
  <2>2. Clients(granted', walk[u].topic) = Clients(granted, walk[u].topic)
    BY <2>1 DEF Clients
  <2> QED
    BY <2>1, <2>2 DEF Still, ThreadInv, Witnessed
<1>4. Right(u)'
  BY <1>1, AffectedStays DEF Still, Same, Quiet, ThreadInv, Right
<1> QED
  BY <1>2, <1>3, <1>4 DEF ThreadInv

\* What a thread saw stays right when it sees who comes and goes.
LEMMA SeesInv ==
  ASSUME NEW u \in Worker, NEW t \in Worker, NEW wrote \in BOOLEAN,
         NEW come \in SUBSET Client, NEW go \in SUBSET Client,
         Sees(u, t, wrote, come, go), Quiet, ThreadInv(u), WalkType,
         \A w \in Topic : w # walk[t].topic =>
             Clients(granted', w) = Clients(granted, w),
         Clients(granted', walk[t].topic)
           = (Clients(granted, walk[t].topic) \cup come) \ go,
         come = {} \/ go = {}
  PROVE  ThreadInv(u)'
<1>1. Same(u)
  BY DEF Sees
<1>2. OnPath(u)' /\ Stands(u)' /\ Missing(u)' /\ Present(u)'
  BY <1>1, SameInv
<1>3. Witnessed(u)'
  <2>1. Busy(u)' = Busy(u) /\ walk'[u].topic = walk[u].topic
    BY <1>1, SameFacts DEF Same
  <2>2. SUFFICES ASSUME Busy(u)
                 PROVE  /\ walk'[u].steady \subseteq Clients(granted', walk[u].topic)
                        /\ Clients(granted', walk[u].topic) \subseteq walk'[u].ever
    BY <2>1 DEF Witnessed
  <2>3. /\ walk[u].steady \subseteq Clients(granted, walk[u].topic)
        /\ Clients(granted, walk[u].topic) \subseteq walk[u].ever
        /\ walk[u].topic \in Topic
    BY <2>2 DEF ThreadInv, Witnessed, OnPath
  <2>4. CASE walk[u].topic = walk[t].topic
    BY <2>2, <2>3, <2>4 DEF Sees
  <2>5. CASE walk[u].topic # walk[t].topic
    BY <2>2, <2>3, <2>5 DEF Sees
  <2> QED
    BY <2>4, <2>5
<1>4. Right(u)'
  <2>1. /\ walk'[u].phase = walk[u].phase /\ walk'[u].topic = walk[u].topic
        /\ walk'[u].found = walk[u].found /\ (walk[u].torn => walk'[u].torn)
        /\ walk'[u].steady \subseteq walk[u].steady
        /\ walk[u].ever \subseteq walk'[u].ever
    BY <1>1 DEF Same, Sees
  <2> QED
    BY <2>1, AffectedStays DEF Quiet, ThreadInv, Right
<1> QED
  BY <1>2, <1>3, <1>4 DEF ThreadInv

-----------------------------------------------------------------------------
(* The threads and the tree, action by action *)

\* The part of TypeOK about the tree
TreeOK ==
  /\ node \in [Path -> 0 .. made] /\ made \in Nat
  /\ \A p, q \in Path : /\ node[p] = node[q] /\ node[p] # None => p = q
                        /\ node[q] # None /\ Below(q, p) => node[p] # None

\* The part about the subscriptions, given the tree
SubscribersOK == subscribers \subseteq {s \in Subscription : node[s.node] # None}

RestOK ==
  /\ fault \in {"none", "dangling", "torn"} /\ calls \in 0 .. MaxCalls
  /\ granted \subseteq [topic : Topic, client : Client] /\ raced \subseteq Path

LEMMA TypeParts ==
  /\ TypeOK <=> TreeOK /\ SubscribersOK /\ WalkType /\ RestOK
  /\ TypeOK' <=> TreeOK' /\ SubscribersOK' /\ WalkType' /\ RestOK'
  BY DEF TypeOK, TreeOK, SubscribersOK, WalkType, RestOK

\* The link a thread is at
LEMMA ChildFacts ==
  ASSUME NEW t \in Worker, OnPath(t), Busy(t), OnTheWay(t)
  PROVE  /\ Child(t) \in Path /\ Below(walk[t].topic, Child(t))
         /\ Below(Child(t), walk[t].at) /\ ~Below(walk[t].at, Child(t))
         /\ Len(Child(t)) = Len(walk[t].at) + 1
<1> SUFFICES ASSUME NEW w, w = walk[t].topic, NEW p, p = walk[t].at,
                    NEW c, c = Child(t)
             PROVE  /\ c \in Path /\ Below(w, c) /\ Below(c, p) /\ ~Below(p, c)
                    /\ Len(c) = Len(p) + 1
  OBVIOUS
<1>1. w \in Topic /\ p \in Path /\ Below(w, p) /\ p # w
  BY DEF OnPath, OnTheWay
<1>2. c = SubSeq(w, 1, Len(p) + 1)
  BY DEF Child
<1> QED
  BY <1>1, <1>2, NextLevel

\* Two threads that the step leaves at their links still missed them together.
LEMMA TogetherStays ==
  ASSUME Together, NEW t \in Worker, raced \subseteq raced',
         \A u \in Worker : Same(u) \/ u = t, walk'[t].phase # "add"
  PROVE  Together'
<1> SUFFICES ASSUME NEW u \in Worker, NEW v \in Worker, u # v,
                    walk'[u].phase = "add", walk'[v].phase = "add",
                    Child(u)' = Child(v)'
             PROVE  Child(u)' \in raced'
  BY DEF Together
<1>1. Same(u) /\ Same(v)
  OBVIOUS
<1>2. Child(u)' = Child(u) /\ Child(v)' = Child(v)
  BY <1>1, SameFacts
<1> QED
  BY <1>1, <1>2 DEF Same, Together

\* A step of t that makes no Node and subscribes nobody
LEMMA QuietInv ==
  ASSUME ThreadsInv, NEW t \in Worker, Quiet, UNCHANGED <<subscribers, granted>>,
         WalkType', RestOK', Others(t), ThreadInv(t)', Dangles', Together'
  PROVE  ThreadsInv'
<1>1. ASSUME NEW u \in Worker, u # t PROVE ThreadInv(u)'
  BY <1>1, StillInv DEF Others, ThreadsInv
<1>2. TypeOK'
  <2>1. TreeOK' /\ SubscribersOK'
    BY TypeParts DEF ThreadsInv, TreeOK, SubscribersOK, Quiet
  <2> QED
    BY <2>1, TypeParts
<1>3. HoldsGranted'
  BY DEF ThreadsInv, HoldsGranted, Clients, Affected, Quiet
<1>4. Rooted'
  BY DEF ThreadsInv, Rooted, Quiet
<1> QED
  BY <1>1, <1>2, <1>3, <1>4 DEF ThreadsInv

LEMMA CallInv ==
  ASSUME ThreadsInv, NEW t \in Worker,
         NEW op \in {"subscribe", "unsubscribe", "match"},
         NEW c \in Client \cup {NoClient}, NEW w \in Topic, call(t, op, c, w),
         op # "match" => c \in Client
  PROVE  ThreadsInv'
<1>1. WalkType' /\ Begins(t, op, c, w)
  BY CallStep, TypeParts DEF ThreadsInv
<1>2. Quiet /\ UNCHANGED <<subscribers, fault, granted, raced>>
  BY DEF call, Quiet
<1>3. ThreadInv(t)'
  <2>1. w \in Path /\ <<>> \in Path /\ Below(w, <<>>)
    BY PathFacts
  <2>2. OnPath(t)'
    <3>1. 1 \in 1 .. made
      BY TypeParts DEF ThreadsInv, TreeOK, Rooted, Root
    <3> QED
      BY <1>1, <1>2, <2>1, <3>1 DEF Begins, Quiet, OnPath, Root
  <2>3. Stands(t)'
    BY <1>1, <1>2 DEF Begins, Quiet, Stands, Standing, ThreadsInv, Rooted
  <2>4. Missing(t)' /\ Present(t)' /\ Right(t)'
    BY <1>1 DEF Begins, Missing, Present, Right
  <2>5. Witnessed(t)'
    BY <1>1, <1>2 DEF Begins, Witnessed
  <2> QED
    BY <2>2, <2>3, <2>4, <2>5 DEF ThreadInv
<1>4. RestOK'
  BY <1>2, TypeParts, ThreadsAssumption DEF ThreadsInv, RestOK, call
<1>5. Dangles'
  BY <1>2 DEF ThreadsInv, Dangles
<1>6. Together'
  BY <1>1, <1>2, TogetherStays DEF ThreadsInv, Begins, Others, Still
<1> QED
  BY <1>1, <1>2, <1>3, <1>4, <1>5, <1>6, QuietInv DEF Begins

LEMMA LookInv ==
  ASSUME ThreadsInv, NEW t \in Worker, ispresent(t)
  PROVE  ThreadsInv'
<1> DEFINE ph == IF node[Child(t)] # None THEN "get" ELSE "add"
<1>1. WalkType' /\ Turns(t, ph)
  BY LookStep, TypeParts DEF ThreadsInv
<1>2. Quiet /\ UNCHANGED <<subscribers, fault, calls, granted>>
  BY DEF ispresent, Quiet
<1>3. Busy(t) /\ Standing(t) /\ OnTheWay(t) /\ ThreadInv(t)
  BY DEF ispresent, In, Busy, ThreadsInv
<1>4. Child(t) \in Path
  BY <1>3, ChildFacts DEF ThreadInv
<1>5. /\ Child(t)' = Child(t) /\ Busy(t)' /\ OnTheWay(t)' /\ Standing(t)'
  BY <1>1, <1>2, <1>3 DEF Turns, Child, Busy, OnTheWay, Standing, Quiet
<1>6. ThreadInv(t)'
  <2>1. OnPath(t)'
    BY <1>1, <1>2, <1>3, <1>5 DEF Turns, Quiet, ThreadInv, OnPath
  <2>2. Stands(t)'
    BY <1>5 DEF Stands
  <2>3. Missing(t)' /\ Present(t)'
    BY <1>1, <1>2, <1>5 DEF Turns, Quiet, Missing, Present
  <2>4. Witnessed(t)'
    BY <1>1, <1>2, <1>3 DEF Turns, ThreadInv, Witnessed
  <2>5. Right(t)'
    BY <1>1 DEF Turns, Right
  <2> QED
    BY <2>1, <2>2, <2>3, <2>4, <2>5 DEF ThreadInv
<1>7. RestOK'
  <2>1. raced' \subseteq Path
    BY <1>4, TypeParts DEF ThreadsInv, RestOK, ispresent
  <2> QED
    BY <1>2, <2>1, TypeParts DEF ThreadsInv, RestOK
<1>8. Dangles'
  BY <1>2 DEF ThreadsInv, Dangles, Quiet
<1>9. Together'
  <2>1. CASE ph = "get"
    BY <1>1, <1>2, <2>1, TogetherStays DEF ThreadsInv, Turns, Still, Quiet
  <2>2. CASE ph = "add"
    <3>1. node[Child(t)] = None
      BY <2>2
    <3>2. ASSUME NEW u \in Worker, u # t, walk[u].phase = "add", Child(u) = Child(t)
          PROVE  Child(t) \in raced'
      BY <3>1, <3>2 DEF ispresent
    <3>3. \A u \in Worker : u # t => Same(u)
      BY <1>1 DEF Turns, Still
    <3>4. ASSUME NEW u \in Worker, NEW v \in Worker, u # v,
                 walk'[u].phase = "add", walk'[v].phase = "add",
                 Child(u)' = Child(v)'
          PROVE  Child(u)' \in raced'
      <4>1. CASE u = t
        BY <1>5, <3>2, <3>3, <3>4, <4>1, SameFacts DEF Same
      <4>2. CASE v = t
        BY <1>5, <3>2, <3>3, <3>4, <4>2, SameFacts DEF Same
      <4>3. CASE u # t /\ v # t
        BY <1>2, <3>3, <3>4, <4>3, SameFacts DEF Same, Quiet, ThreadsInv, Together
      <4> QED
        BY <4>1, <4>2, <4>3
    <3> QED
      BY <3>4 DEF Together
  <2> QED
    BY <2>1, <2>2
<1> QED
  BY <1>1, <1>2, <1>6, <1>7, <1>8, <1>9, QuietInv DEF Turns, Others

LEMMA GetInv ==
  ASSUME ThreadsInv, NEW t \in Worker, getLink(t)
  PROVE  ThreadsInv'
<1>1. Busy(t) /\ Standing(t) /\ ThreadInv(t) /\ walk[t].phase = "get" /\ OnTheWay(t)
  BY DEF getLink, In, Busy, ThreadsInv, ThreadInv, OnPath
<1>2. Child(t) \in Path /\ Below(walk[t].topic, Child(t))
  BY <1>1, ChildFacts DEF ThreadInv
<1>3. node[Child(t)] \in 1 .. made
  BY <1>1, <1>2, TypeParts DEF ThreadInv, Present, ThreadsInv, TreeOK, None
<1>4. WalkType' /\ Moves(t)
  BY <1>2, <1>3, MoveStep, TypeParts DEF ThreadsInv
<1>5. Quiet /\ UNCHANGED <<subscribers, fault, calls, granted, raced>>
  BY DEF getLink, Quiet
<1>6. ThreadInv(t)'
  <2>1. OnPath(t)'
    BY <1>1, <1>2, <1>3, <1>4, <1>5 DEF Moves, Quiet, ThreadInv, OnPath
  <2>2. Stands(t)'
    BY <1>4, <1>5 DEF Moves, Quiet, Stands, Standing
  <2>3. Missing(t)' /\ Present(t)' /\ Right(t)'
    BY <1>4 DEF Moves, Missing, Present, Right
  <2>4. Witnessed(t)'
    BY <1>1, <1>4, <1>5 DEF Moves, ThreadInv, Witnessed
  <2> QED
    BY <2>1, <2>2, <2>3, <2>4 DEF ThreadInv
<1>7. RestOK' /\ Dangles'
  BY <1>5, TypeParts DEF ThreadsInv, RestOK, Dangles
<1>8. Together'
  BY <1>4, <1>5, TogetherStays DEF ThreadsInv, Moves, Others, Still
<1> QED
  BY <1>4, <1>5, <1>6, <1>7, <1>8, QuietInv DEF Moves

LEMMA MatchInv ==
  ASSUME ThreadsInv, NEW t \in Worker, match(t)
  PROVE  ThreadsInv'
<1> DEFINE A == {c \in Client : [node |-> walk[t].at, client |-> c] \in subscribers}
<1>1. Busy(t) /\ Standing(t) /\ ThreadInv(t) /\ walk[t].at = walk[t].topic
  BY DEF match, Arrived, In, Busy, OnTheWay, ThreadsInv
<1>2. WalkType' /\ Finds(t, "copy", A)
  BY FindStep, TypeParts DEF ThreadsInv, match
<1>3. Quiet /\ UNCHANGED <<subscribers, fault, calls, granted, raced>>
  BY DEF match, Quiet
<1>4. ThreadInv(t)'
  <2>1. OnPath(t)' /\ Stands(t)'
    BY <1>1, <1>2, <1>3
       DEF Finds, Quiet, ThreadInv, OnPath, OnTheWay, Stands, Standing, Busy
  <2>2. Missing(t)' /\ Present(t)'
    BY <1>2 DEF Finds, Missing, Present
  <2>3. Witnessed(t)'
    BY <1>1, <1>2, <1>3 DEF Finds, ThreadInv, Witnessed
  <2>4. Affected(walk[t].topic) \/ Clients(granted, walk[t].topic) = A
    BY <1>1 DEF ThreadsInv, HoldsGranted, ThreadInv, OnPath
  <2>5. /\ walk[t].steady \subseteq Clients(granted, walk[t].topic)
        /\ Clients(granted, walk[t].topic) \subseteq walk[t].ever
    BY <1>1 DEF ThreadInv, Witnessed
  <2>6. Right(t)'
    <3>1. CASE Affected(walk[t].topic)
      BY <1>2, <1>3, <3>1, AffectedStays DEF Finds, Right
    <3>2. CASE Clients(granted, walk[t].topic) = A
      BY <1>2, <2>5, <3>2 DEF Finds, Right
    <3> QED
      BY <2>4, <3>1, <3>2
  <2> QED
    BY <2>1, <2>2, <2>3, <2>6 DEF ThreadInv
<1>5. RestOK' /\ Dangles'
  BY <1>3, TypeParts DEF ThreadsInv, RestOK, Dangles
<1>6. Together'
  BY <1>2, <1>3, TogetherStays DEF ThreadsInv, Finds, Others, Still
<1> QED
  BY <1>2, <1>3, <1>4, <1>5, <1>6, QuietInv DEF Finds

LEMMA AnswerInv ==
  ASSUME ThreadsInv, NEW t \in Worker, answer(t)
  PROVE  ThreadsInv'
<1>1. PICK A \in SUBSET (walk[t].found \cup
             {c \in Client : [node |-> walk[t].at, client |-> c] \in subscribers}) :
        /\ walk[t].torn \/ A = walk[t].found
        /\ walk' = [walk EXCEPT ![t].phase = "answered", ![t].found = A]
  BY DEF answer
<1>2. WalkType /\ ThreadInv(t) /\ walk[t].phase = "copy"
  BY TypeParts DEF ThreadsInv, answer, In
<1>3. A \in SUBSET Client
  BY <1>1, <1>2 DEF WalkType, Walk
<1>4. WalkType' /\ Finds(t, "answered", A)
  BY <1>1, <1>2, <1>3, FindStep
<1>5. /\ Quiet /\ UNCHANGED <<subscribers, calls, granted, raced>>
      /\ fault' \in {"none", "torn"}
  BY DEF answer, Quiet
<1>6. ThreadInv(t)'
  <2>1. OnPath(t)' /\ Stands(t)' /\ Missing(t)' /\ Present(t)' /\ Witnessed(t)'
    BY <1>4 DEF Finds, OnPath, Stands, Missing, Present, Witnessed, Busy
  <2>2. Right(t)'
    BY <1>1, <1>2, <1>4, <1>5, AffectedStays DEF Finds, ThreadInv, Right
  <2> QED
    BY <2>1, <2>2 DEF ThreadInv
<1>7. RestOK' /\ Dangles'
  BY <1>5, TypeParts DEF ThreadsInv, RestOK, Dangles
<1>8. Together'
  BY <1>4, <1>5, TogetherStays DEF ThreadsInv, Finds, Others, Still
<1> QED
  BY <1>4, <1>5, <1>6, <1>7, <1>8, QuietInv DEF Finds

LEMMA DangleInv ==
  ASSUME ThreadsInv, NEW t \in Worker, dangle(t)
  PROVE  ThreadsInv'
<1>1. Quiet /\ UNCHANGED <<subscribers, walk, calls, granted, raced>>
  BY DEF dangle, Quiet
<1>2. \A u \in Worker : Still(u) /\ Same(u)
  BY <1>1 DEF Still, Same
<1>3. ThreadInv(t)'
  BY <1>1, <1>2, StillInv DEF ThreadsInv
<1>4. Affected(walk[t].topic)
  BY DEF dangle, ThreadsInv, ThreadInv, Stands
<1>5. RestOK' /\ Dangles'
  BY <1>1, <1>4, TypeParts DEF ThreadsInv, RestOK, Dangles, Affected, dangle
<1>6. WalkType' /\ Together'
  BY <1>1, TypeParts DEF ThreadsInv, WalkType, Together, Child
<1> QED
  BY <1>1, <1>2, <1>3, <1>5, <1>6, QuietInv DEF Others

\* The clients come are granted the topic w, the clients go lose it.
Grants(w, come, go) ==
  /\ granted' \subseteq [topic : Topic, client : Client]
  /\ \A x \in Topic : x # w => Clients(granted', x) = Clients(granted, x)
  /\ Clients(granted', w) = (Clients(granted, w) \cup come) \ go

\* A step of t that subscribes or unsubscribes a client and leaves the tree
LEMMA LeaveInv ==
  ASSUME ThreadsInv, NEW t \in Worker, NEW wrote \in BOOLEAN,
         NEW come \in SUBSET Client, NEW go \in SUBSET Client,
         Leave(t, wrote, come, go), come = {} \/ go = {},
         UNCHANGED <<node, made, fault, calls, raced>>, Busy(t),
         SubscribersOK', HoldsGranted', Grants(walk[t].topic, come, go)
  PROVE  ThreadsInv'
<1>1. WalkType' /\ Leaves(t, wrote, come, go) /\ WalkType
  BY LeaveStep, TypeParts DEF ThreadsInv
<1>2. Quiet
  BY DEF Quiet
<1>3. ASSUME NEW u \in Worker, u # t PROVE ThreadInv(u)'
  <2>1. Sees(u, t, wrote, come, go) /\ ThreadInv(u)
    BY <1>1, <1>3 DEF Leaves, ThreadsInv
  <2> QED
    BY <1>1, <1>2, <2>1, SeesInv DEF Grants
<1>4. ThreadInv(t)'
  <2>1. walk'[t].phase = "idle"
    BY <1>1 DEF Leaves, Idle
  <2> QED
    BY <2>1
       DEF ThreadInv, OnPath, Stands, Missing, Present, Witnessed, Right, Busy
<1>5. TypeOK'
  <2>1. TreeOK'
    BY TypeParts DEF ThreadsInv, TreeOK
  <2>2. RestOK'
    BY TypeParts DEF ThreadsInv, RestOK, Grants
  <2> QED
    BY <1>1, <2>1, <2>2, TypeParts
<1>6. Together'
  <2>1. walk'[t].phase # "add"
    BY <1>1 DEF Leaves, Idle
  <2>2. \A u \in Worker : Same(u) \/ u = t
    BY <1>1 DEF Leaves, Sees
  <2> QED
    BY <2>1, <2>2, <1>2, TogetherStays DEF ThreadsInv, Quiet
<1>7. Dangles' /\ Rooted'
  BY DEF ThreadsInv, Dangles, Rooted
<1> QED
  BY <1>3, <1>4, <1>5, <1>6, <1>7 DEF ThreadsInv

LEMMA SubscribeInv ==
  ASSUME ThreadsInv, NEW t \in Worker, subscribe(t)
  PROVE  ThreadsInv'
<1> DEFINE c == walk[t].client
           w == walk[t].topic
           s == [node |-> w, client |-> c]
           g == [topic |-> w, client |-> c]
<1>1. Busy(t) /\ Standing(t) /\ ThreadInv(t) /\ walk[t].at = w
      /\ walk[t].op = "subscribe"
  BY DEF subscribe, Arrived, In, Busy, OnTheWay, ThreadsInv
<1>2. c \in Client /\ w \in Topic /\ w \in Path /\ node[w] # None
  BY <1>1 DEF ThreadInv, OnPath, Standing, None
<1>3. /\ subscribers' = subscribers \cup {s} /\ granted' = granted \cup {g}
      /\ UNCHANGED <<node, made, fault, calls, raced>>
      /\ Leave(t, TRUE, {c}, {})
  BY <1>1 DEF subscribe
<1> HIDE DEF c, w
<1>4. SubscribersOK'
  BY <1>2, <1>3, TypeParts DEF ThreadsInv, SubscribersOK, Subscription
<1>5. granted' \subseteq [topic : Topic, client : Client]
  BY <1>2, <1>3, TypeParts DEF ThreadsInv, RestOK
<1>6. Grants(w, {c}, {})
  BY <1>2, <1>3, <1>5 DEF Clients, Grants
<1>7. HoldsGranted'
  <2>1. ASSUME NEW x \in Topic, ~Affected(x)'
        PROVE  Clients(granted', x)
                 = {d \in Client : [node |-> x, client |-> d] \in subscribers'}
    <3>1. Clients(granted, x)
            = {d \in Client : [node |-> x, client |-> d] \in subscribers}
      BY <1>3, <2>1 DEF ThreadsInv, HoldsGranted, Affected
    <3> QED
      BY <1>2, <1>3, <3>1 DEF Clients
  <2> QED
    BY <2>1 DEF HoldsGranted
<1> QED
  <2> DEFINE come == {c}
             go == {}
             wrote == TRUE
  <2>1. /\ come \in SUBSET Client /\ go \in SUBSET Client /\ wrote \in BOOLEAN
        /\ come = {} \/ go = {}
    BY <1>2
  <2>2. Leave(t, wrote, come, go) /\ Grants(walk[t].topic, come, go)
    BY <1>3, <1>6 DEF w
  <2> HIDE DEF come, go, wrote
  <2> QED
    BY <1>1, <1>3, <1>4, <1>7, <2>1, <2>2, LeaveInv

LEMMA UnsubscribeInv ==
  ASSUME ThreadsInv, NEW t \in Worker, unsubscribe(t)
  PROVE  ThreadsInv'
<1> DEFINE c == walk[t].client
           w == walk[t].topic
           s == [node |-> w, client |-> c]
           g == [topic |-> w, client |-> c]
<1>1. Busy(t) /\ Standing(t) /\ ThreadInv(t) /\ walk[t].at = w
      /\ walk[t].op = "unsubscribe"
  BY DEF unsubscribe, Arrived, In, Busy, OnTheWay, ThreadsInv
<1>2. c \in Client /\ w \in Topic
  BY <1>1 DEF ThreadInv, OnPath
<1>3. /\ subscribers' = subscribers \ {s} /\ granted' = granted \ {g}
      /\ UNCHANGED <<node, made, fault, calls, raced>>
      /\ Leave(t, s \in subscribers, {}, {c})
  BY <1>1 DEF unsubscribe
<1> HIDE DEF c, w
<1>4. SubscribersOK'
  BY <1>3, TypeParts DEF ThreadsInv, SubscribersOK
<1>5. granted' \subseteq [topic : Topic, client : Client]
  BY <1>3, TypeParts DEF ThreadsInv, RestOK
<1>6. Grants(w, {}, {c})
  BY <1>2, <1>3, <1>5 DEF Clients, Grants
<1>7. HoldsGranted'
  <2>1. ASSUME NEW x \in Topic, ~Affected(x)'
        PROVE  Clients(granted', x)
                 = {d \in Client : [node |-> x, client |-> d] \in subscribers'}
    <3>1. Clients(granted, x)
            = {d \in Client : [node |-> x, client |-> d] \in subscribers}
      BY <1>3, <2>1 DEF ThreadsInv, HoldsGranted, Affected
    <3> QED
      BY <1>2, <1>3, <3>1 DEF Clients
  <2> QED
    BY <2>1 DEF HoldsGranted
<1> QED
  <2> DEFINE come == {}
             go == {c}
             wrote == s \in subscribers
  <2>1. /\ come \in SUBSET Client /\ go \in SUBSET Client /\ wrote \in BOOLEAN
        /\ come = {} \/ go = {}
    BY <1>2
  <2>2. Leave(t, wrote, come, go) /\ Grants(walk[t].topic, come, go)
    BY <1>3, <1>6 DEF w
  <2> HIDE DEF come, go, wrote
  <2> QED
    BY <1>1, <1>3, <1>4, <1>7, <2>1, <2>2, LeaveInv

-----------------------------------------------------------------------------
(* addLink *)

\* A Node made + 1 takes the place of what hangs at c.
Plants(c) ==
  /\ made' = made + 1
  /\ node' \in [Path -> Nat] /\ node'[c] = made + 1
  /\ \A q \in Path : q # c /\ Below(q, c) => node'[q] = None
  /\ \A q \in Path : ~Below(q, c) => node'[q] = node[q]

\* The tree stays a tree when a Node is planted below one that is there.
LEMMA PlantTree ==
  ASSUME TreeOK, NEW c \in Path, NEW p \in Path, Below(c, p), Len(c) = Len(p) + 1,
         node[p] # None, Plants(c)
  PROVE  TreeOK'
<1>1. Path \subseteq Seq(Word)
  BY PathFacts
<1>2. made \in Nat /\ \A q \in Path : node[q] \in 0 .. made
  BY DEF TreeOK
<1>3. \A q \in Path : \/ q = c /\ node'[q] = made + 1
                      \/ q # c /\ Below(q, c) /\ node'[q] = None
                      \/ q # c /\ ~Below(q, c) /\ node'[q] = node[q]
  BY <1>1, BelowItself DEF Plants
<1>4. node' \in [Path -> 0 .. made'] /\ made' \in Nat
  <2>1. \A q \in Path : node'[q] \in 0 .. made + 1
    BY <1>2, <1>3 DEF None
  <2> QED
    BY <1>2, <2>1 DEF Plants
<1>5. ASSUME NEW q \in Path, NEW r \in Path, node'[q] = node'[r], node'[q] # None
      PROVE  q = r
  BY <1>2, <1>3, <1>5 DEF TreeOK, None
<1>6. ASSUME NEW q \in Path, NEW r \in Path, node'[q] # None, Below(q, r)
      PROVE  node'[r] # None
  <2>1. CASE r = c
    BY <1>2, <2>1 DEF Plants, None
  <2>2. CASE r # c /\ q = c
    <3>1. ~Below(r, c)
      BY <1>1, <1>6, <2>2, BelowEqual
    <3>2. Len(r) # Len(c) /\ Len(r) =< Len(c)
      <4>1. r \in Seq(Word) /\ c \in Seq(Word) /\ Below(c, r)
        BY <1>1, <1>6, <2>2
      <4>2. SubSeq(c, 1, Len(c)) = c
        BY <4>1, SubSeqFull
      <4>3. Len(r) =< Len(c) /\ SubSeq(c, 1, Len(r)) = r
        BY <4>1 DEF Below
      <4> QED
        BY <2>2, <4>2, <4>3
    <3>3. Below(p, r)
      <4>1. p \in Seq(Word) /\ r \in Seq(Word) /\ c \in Seq(Word)
        BY <1>1
      <4>2. Len(r) =< Len(p)
        BY <3>2, <4>1
      <4> QED
        BY <1>6, <2>2, <4>1, <4>2, BelowLinear
    <3> QED
      BY <3>1, <3>3 DEF Plants, TreeOK
  <2>3. CASE r # c /\ q # c
    <3>1. ~Below(q, c) /\ node[q] # None
      BY <1>3, <1>6, <2>3
    <3>2. ~Below(r, c)
      BY <1>1, <1>6, <3>1, BelowTransitive
    <3> QED
      BY <1>6, <3>1, <3>2 DEF Plants, TreeOK
  <2> QED
    BY <2>1, <2>2, <2>3
<1> QED
  BY <1>4, <1>5, <1>6 DEF TreeOK

\* What is destroyed hung below a link that two threads missed.
LEMMA Destroyed ==
  ASSUME TreeOK, NEW c \in Path, node[c] = None \/ c \in raced,
         NEW q \in Path, Below(q, c), node[q] # None
  PROVE  c \in raced
  BY DEF TreeOK

\* The threads that stand elsewhere, while one is planted at c
LEMMA PlantOthers ==
  ASSUME TreeOK, NEW c \in Path, node[c] = None \/ c \in raced, Plants(c),
         UNCHANGED <<granted, raced>>, NEW u \in Worker, Still(u), ThreadInv(u),
         walk[u].phase = "add" /\ Child(u) = c => c \in raced
  PROVE  ThreadInv(u)'
<1>1. Same(u) /\ Path \subseteq Seq(Word) /\ Topic \subseteq Path
  BY PathFacts DEF Still
<1>2. Child(u)' = Child(u) /\ Busy(u)' = Busy(u) /\ OnTheWay(u)' = OnTheWay(u)
  BY <1>1, SameFacts
<1>3. OnPath(u)'
  <2>1. made' = made + 1 /\ made \in Nat
    BY DEF Plants, TreeOK
  <2>2. SUFFICES ASSUME Busy(u) PROVE walk[u].obj \in 1 .. made'
    BY <1>1, <1>2 DEF Same, ThreadInv, OnPath
  <2> QED
    BY <2>1, <2>2 DEF ThreadInv, OnPath
<1>4. Stands(u)'
  <2>1. SUFFICES ASSUME Busy(u), ~Affected(walk[u].topic) PROVE Standing(u)'
    BY <1>1, <1>2, AffectedStays DEF Same, Stands
  <2>2. /\ node[walk[u].at] = walk[u].obj /\ node[walk[u].at] # None
        /\ walk[u].at \in Path /\ walk[u].topic \in Topic
        /\ Below(walk[u].topic, walk[u].at)
    BY <2>1 DEF ThreadInv, OnPath, Stands, Standing, None
  <2>3. ~Below(walk[u].at, c)
    <3>1. Below(walk[u].at, c) => Below(walk[u].topic, c)
      BY <1>1, <2>2, BelowTransitive
    <3> QED
      BY <2>1, <2>2, <3>1, Destroyed DEF Affected
  <2> QED
    BY <1>1, <2>2, <2>3 DEF Same, Standing, Plants
<1>5. Missing(u)'
  <2>1. SUFFICES ASSUME walk[u].phase = "add", Child(u) \notin raced
                 PROVE  node'[Child(u)] = None
    BY <1>1, <1>2 DEF Same, Missing
  <2>2. Child(u) # c /\ node[Child(u)] = None /\ Child(u) \in Path
    BY <2>1, ChildFacts DEF ThreadInv, Missing, OnPath, Busy
  <2> QED
    BY <2>2 DEF Plants
<1>6. Present(u)'
  <2>1. SUFFICES ASSUME walk[u].phase = "get", node'[walk[u].at] = walk[u].obj
                 PROVE  node'[Child(u)] # None
    BY <1>1, <1>2 DEF Same, Present, Standing
  <2>2. /\ walk[u].obj \in 1 .. made /\ walk[u].at \in Path /\ Child(u) \in Path
        /\ Len(Child(u)) = Len(walk[u].at) + 1 /\ Below(Child(u), walk[u].at)
    BY <2>1, ChildFacts DEF ThreadInv, OnPath, Busy
  <2>3. ~Below(walk[u].at, c)
    BY <2>1, <2>2 DEF Plants, TreeOK, None
  <2>4. node[Child(u)] # None
    BY <2>1, <2>2, <2>3 DEF Plants, ThreadInv, Present, Standing
  <2>5. CASE Child(u) = c
    BY <2>5 DEF Plants, TreeOK, None
  <2>6. CASE Child(u) # c
    <3>1. ~Below(Child(u), c)
      <4>1. SUFFICES ASSUME Below(Child(u), c) PROVE FALSE
        OBVIOUS
      <4>2. /\ Child(u) \in Seq(Word) /\ walk[u].at \in Seq(Word) /\ c \in Seq(Word)
        BY <1>1, <2>2
      <4>3. Len(c) # Len(Child(u)) /\ Len(c) =< Len(Child(u))
        BY <2>6, <4>1, <4>2 DEF Below
      <4>4. Len(c) =< Len(walk[u].at)
        BY <2>2, <4>2, <4>3
      <4> QED
        BY <2>2, <2>3, <4>1, <4>2, <4>4, BelowLinear
    <3> QED
      BY <2>2, <2>4, <3>1 DEF Plants
  <2> QED
    BY <2>5, <2>6
<1>7. Witnessed(u)' /\ Right(u)'
  BY <1>1, <1>2, AffectedStays DEF Still, Same, ThreadInv, Witnessed, Right
<1> QED
  BY <1>3, <1>4, <1>5, <1>6, <1>7 DEF ThreadInv

LEMMA AddInv ==
  ASSUME ThreadsInv, NEW t \in Worker, addLink(t)
  PROVE  ThreadsInv'
<1> DEFINE c == Child(t)
<1>1. Busy(t) /\ Standing(t) /\ ThreadInv(t) /\ walk[t].phase = "add" /\ OnTheWay(t)
  BY DEF addLink, In, Busy, ThreadsInv, ThreadInv, OnPath
<1>2. /\ c \in Path /\ Below(walk[t].topic, c) /\ Below(c, walk[t].at)
      /\ ~Below(walk[t].at, c) /\ Len(c) = Len(walk[t].at) + 1
  BY <1>1, ChildFacts DEF ThreadInv
<1>3. /\ walk[t].at \in Path /\ walk[t].obj \in 1 .. made
      /\ node[walk[t].at] = walk[t].obj /\ node[walk[t].at] # None
  BY <1>1 DEF ThreadInv, OnPath, Standing, None
<1>4. TreeOK /\ SubscribersOK /\ WalkType /\ RestOK
  BY TypeParts DEF ThreadsInv
<1>5. node[c] = None \/ c \in raced
  BY <1>1 DEF ThreadInv, Missing
<1>6. /\ UNCHANGED <<fault, calls, granted, raced>>
      /\ subscribers' = {s \in subscribers : ~Below(s.node, c)}
  BY DEF addLink
<1>7. Plants(c)
  <2>1. Below(c, c) /\ made \in Nat
    BY <1>2, <1>4, PathFacts, BelowItself DEF TreeOK
  <2> QED
    BY <1>2, <1>4, <2>1 DEF addLink, Plants, TreeOK, None
<1>8. WalkType' /\ Turns(t, "get")
  BY <1>4, AddStep
<1> HIDE DEF c
<1>9. ASSUME NEW u \in Worker, u # t PROVE ThreadInv(u)'
  <2>1. Still(u) /\ ThreadInv(u)
    BY <1>8, <1>9 DEF Turns, ThreadsInv
  <2>2. walk[u].phase = "add" /\ Child(u) = c => c \in raced
    BY <1>1, <1>9 DEF ThreadsInv, Together, c
  <2> QED
    BY <1>2, <1>4, <1>5, <1>6, <1>7, <2>1, <2>2, PlantOthers
<1>10. ThreadInv(t)'
  <2>1. Child(t)' = c /\ Busy(t)' /\ OnTheWay(t)'
    BY <1>1, <1>8 DEF Turns, Child, Busy, OnTheWay, c
  <2>2. Standing(t)'
    BY <1>2, <1>3, <1>7, <1>8 DEF Turns, Standing, Plants
  <2>3. OnPath(t)'
    <3>1. walk[t].obj \in 1 .. made'
      BY <1>3, <1>4, <1>7 DEF Plants, TreeOK
    <3> QED
      BY <1>1, <1>8, <2>1, <3>1 DEF Turns, ThreadInv, OnPath
  <2>4. Stands(t)' /\ Missing(t)' /\ Right(t)'
    BY <1>8, <2>2 DEF Turns, Stands, Missing, Right
  <2>5. Present(t)'
    BY <1>4, <1>7, <2>1 DEF Present, Plants, TreeOK, None
  <2>6. Witnessed(t)'
    BY <1>1, <1>6, <1>8 DEF Turns, ThreadInv, Witnessed
  <2> QED
    BY <2>3, <2>4, <2>5, <2>6 DEF ThreadInv
<1>11. TypeOK'
  <2>1. TreeOK'
    BY <1>2, <1>3, <1>4, <1>7, PlantTree
  <2>2. SubscribersOK'
    BY <1>4, <1>6, <1>7 DEF SubscribersOK, Plants, Subscription
  <2>3. RestOK'
    BY <1>4, <1>6 DEF RestOK
  <2> QED
    BY <1>8, <2>1, <2>2, <2>3, TypeParts
<1>12. HoldsGranted'
  <2>1. ASSUME NEW x \in Topic, ~Affected(x)'
        PROVE  Clients(granted', x)
                 = {d \in Client : [node |-> x, client |-> d] \in subscribers'}
    <3>1. ~Affected(x)
      BY <1>6, <2>1 DEF Affected
    <3>2. ASSUME NEW d \in Client, [node |-> x, client |-> d] \in subscribers
          PROVE  ~Below(x, c)
      <4>1. x \in Path /\ node[x] # None
        BY <1>4, <3>2 DEF SubscribersOK, Subscription
      <4> QED
        BY <1>2, <1>4, <1>5, <3>1, <4>1, Destroyed DEF Affected
    <3>3. Clients(granted, x)
            = {d \in Client : [node |-> x, client |-> d] \in subscribers}
      BY <3>1 DEF ThreadsInv, HoldsGranted
    <3> QED
      BY <1>6, <3>2, <3>3
  <2> QED
    BY <2>1 DEF HoldsGranted
<1>13. Together'
  BY <1>6, <1>8, TogetherStays DEF ThreadsInv, Turns, Still
<1>14. Dangles'
  BY <1>6 DEF ThreadsInv, Dangles
<1>15. Rooted'
  <2>1. CASE Topic # {}
    <3>1. <<>> \in Path /\ Path \subseteq Seq(Word) /\ Len(<<>>) = 0
      BY <2>1, PathFacts
    <3>2. Len(c) > 0
      <4>1. Len(walk[t].at) \in Nat
        BY <1>3, <3>1
      <4> QED
        BY <1>2, <4>1
    <3>3. ~Below(<<>>, c)
      BY <3>1, <3>2 DEF Below
    <3> QED
      BY <1>4, <1>7, <3>1, <3>3 DEF ThreadsInv, Rooted, Plants, TreeOK, Root
  <2>2. CASE Topic = {}
    BY <1>4, <1>7, <2>2 DEF ThreadsInv, Rooted, Plants, TreeOK, Root
  <2> QED
    BY <2>1, <2>2
<1> QED
  BY <1>9, <1>10, <1>11, <1>12, <1>13, <1>14, <1>15 DEF ThreadsInv

-----------------------------------------------------------------------------
(* The theorems *)

LEMMA InitInv == Init => ThreadsInv
<1> SUFFICES ASSUME Init PROVE ThreadsInv
  OBVIOUS
<1>1. \A t \in Worker : walk[t] = Idle /\ walk[t].phase = "idle"
  BY DEF Init, Idle
<1>2. \A t \in Worker : ThreadInv(t)
  BY <1>1 DEF ThreadInv, OnPath, Stands, Missing, Present, Witnessed, Right, Busy
<1>3. Rooted
  BY PathFacts DEF Init, Rooted, Root
<1>4. TreeOK
  <2>1. \A p \in Path : Below(<<>>, p) => p = <<>>
    BY PathFacts DEF Below
  <2> QED
    BY <2>1 DEF Init, TreeOK, Root, None
<1>5. WalkType
  BY IdleWalk DEF Init, WalkType
<1>6. SubscribersOK /\ RestOK
  BY ThreadsAssumption DEF Init, SubscribersOK, RestOK
<1>7. HoldsGranted
  BY DEF Init, HoldsGranted, Clients
<1>8. Together /\ Dangles
  BY <1>1 DEF Init, Together, Dangles
<1> QED
  BY <1>2, <1>3, <1>4, <1>5, <1>6, <1>7, <1>8, TypeParts DEF ThreadsInv

LEMMA NextInv == ThreadsInv /\ [Next]_vars => ThreadsInv'
<1> SUFFICES ASSUME ThreadsInv, [Next]_vars PROVE ThreadsInv'
  OBVIOUS
<1>1. CASE UNCHANGED vars
  BY <1>1
     DEF vars, ThreadsInv, TypeOK, HoldsGranted, Clients, Affected, Together, Dangles,
         Rooted, ThreadInv, OnPath, Stands, Missing, Present, Witnessed, Right, Busy,
         Standing, OnTheWay, Child
<1>2. ASSUME NEW t \in Worker, Call(t) PROVE ThreadsInv'
  <2>1. PICK w \in Topic :
          \/ call(t, "match", NoClient, w)
          \/ \E c \in Client : call(t, "subscribe", c, w) \/ call(t, "unsubscribe", c, w)
    BY <1>2 DEF Call
  <2>2. CASE call(t, "match", NoClient, w)
    BY <2>2, CallInv
  <2>3. ASSUME NEW c \in Client, call(t, "subscribe", c, w) PROVE ThreadsInv'
    BY <2>3, CallInv
  <2>4. ASSUME NEW c \in Client, call(t, "unsubscribe", c, w) PROVE ThreadsInv'
    BY <2>4, CallInv
  <2> QED
    BY <2>1, <2>2, <2>3, <2>4
<1>3. ASSUME NEW t \in Worker, Go(t) PROVE ThreadsInv'
  BY <1>3, LookInv, AddInv, GetInv, SubscribeInv, UnsubscribeInv, MatchInv, AnswerInv,
     DangleInv DEF Go
<1> QED
  BY <1>1, <1>2, <1>3 DEF Next

LEMMA ThreadsInvariant == Spec => []ThreadsInv
  BY InitInv, NextInv, PTL DEF Spec

\* The types: nodes form a tree and hang in it once; subscriptions are at its nodes.
THEOREM ThreadsTypes == Spec => []TypeOK
<1>1. ThreadsInv => TypeOK
  BY DEF ThreadsInv
<1> QED
  BY <1>1, ThreadsInvariant, PTL

\* Whatever the pool interleaves, the tree holds the subscriptions in force, except
\* below a link that two threads missed at the same time (ispresent, then addLink).
THEOREM SubscriptionsHeld == Spec => []HoldsGranted
<1>1. ThreadsInv => HoldsGranted
  BY DEF ThreadsInv
<1> QED
  BY <1>1, ThreadsInvariant, PTL

\* A walk of getNode never uses a destroyed Node, except below such a link.
THEOREM WalksStandInTree == Spec => []StandsInTree
<1>1. ThreadsInv => StandsInTree
  BY DEF ThreadsInv, ThreadInv, Stands, StandsInTree, Dangles
<1> QED
  BY <1>1, ThreadsInvariant, PTL

\* match returns who was subscribed all along and nobody who never was, except below
\* such a link or when the subscribers it copies without a lock are written.
THEOREM MatchAnswersRight == Spec => []AnswersRight
<1>1. ThreadsInv => AnswersRight
  BY DEF ThreadsInv, ThreadInv, Right, AnswersRight
<1> QED
  BY <1>1, ThreadsInvariant, PTL
=============================================================================
