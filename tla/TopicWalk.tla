----------------------------- MODULE TopicWalk -----------------------------
(***************************************************************************)
(* getNode and handleWildCard as the code has them, loop and recursion, to *)
(* show that the closed form of TopicTree is what they compute; and split, *)
(* which makes the levels of a topic from its characters.                  *)
(***************************************************************************)
EXTENDS TopicTree

CONSTANTS
  Char, Slash,  \* characters, "/" among them
  String        \* what clients may write for a filter or a topic

\* The levels of a string: the first is "/", in the others there is no "/".
Spelt(w) ==
  \A j \in 1 .. Len(w) : IF j = 1 THEN w[j] = <<Slash>>
                         ELSE \A k \in 1 .. Len(w[j]) : w[j][k] # Slash

ASSUME WalkAssumption ==
  /\ Slash \in Char /\ String \subseteq Seq(Char) /\ Word \subseteq Seq(Char)
  /\ \A w \in Filter \cup Topic : Spelt(w)

\* getLinkTopics of the node root
Links(N, root) == {l \in Word : Append(root, l) \in N}

\* What calls append to vec, one call for each link: the nodes appended, and
\* those appended twice
Appended(call) ==
  LET all == UNION {call[l].vec : l \in DOMAIN call}
  IN  [vec |-> all,
       twice |-> UNION {call[l].twice : l \in DOMAIN call}
                 \cup {q \in all : \E k, l \in DOMAIN call :
                         k # l /\ q \in call[k].vec /\ q \in call[l].vec}]

\* Mutant of handleWildCard: inner nodes are not returned
handleWildCard_Leaves(N) ==
  LET go[root \in N] ==
        IF Links(N, root) = {} THEN [vec |-> {root}, twice |-> {}]
        ELSE Appended([l \in Links(N, root) |-> go[Append(root, l)]])
  IN  go

\* The nodes handleWildCard appends to vec: root, and what it appends for each link
handleWildCard(N) ==
  LET go[root \in N] ==
        LET below == Appended([l \in Links(N, root) |-> go[Append(root, l)]])
        IN  [vec |-> {root} \cup below.vec,
             twice |-> below.twice \cup ({root} \cap below.vec)]
  IN  go

\* getNode on the node root of the tree N with n levels of w to go: the tree it
\* leaves and what it appends to vec; next is getNode with one level less.  The
\* calls for "+" look at and add nodes below their own links, so each gets N.
GetNodeStep(w, n, next, N, root) ==
  LET i     == Len(w) - n + 1
      call  == [l \in Links(N, root) |-> next[N][Append(root, l)]]
      found == Appended(call)
      child == Append(root, w[i])
  IN  IF n = 0 THEN [nodes |-> N, vec |-> {root}, twice |-> {}]
      ELSE IF w[i] \notin {Plus, Hash} THEN next[N \cup {child}][child]
      ELSE IF Links(N, root) = {} THEN [nodes |-> N, vec |-> {}, twice |-> {}]
      ELSE IF w[i] = Plus
      THEN [nodes |-> UNION {call[l].nodes : l \in DOMAIN call},
            vec |-> found.vec, twice |-> found.twice]
      ELSE [nodes |-> N, vec |-> handleWildCard(N)[root].vec,
            twice |-> handleWildCard(N)[root].twice]

getNode(N, w) ==
  LET go[n \in 0 .. Len(w)] ==
        [M \in SUBSET Seq(Word) |-> [root \in Seq(Word) |->
           GetNodeStep(w, n, go[n - 1], M, root)]]
  IN  go[Len(w)][N][<<>>]

\* In every tree the broker can build, for every filter and topic, the code's
\* walk makes the nodes Created says and returns each node of Hits once.
GetNodeAgrees ==
  \A w \in Filter \cup Topic :
    getNode(nodes, w) =
      [nodes |-> Created(nodes, w), vec |-> Hits(nodes, w), twice |-> {}]

-----------------------------------------------------------------------------
(***************************************************************************)
(* split.  A string is a sequence of characters, a level is a string.      *)
(***************************************************************************)

\* Mutant of Cut: the last character does not end a level
Cut_Open(str, i, s) ==
  IF i = 1 THEN [s EXCEPT !.words = Append(@, <<Slash>>)]
  ELSE IF str[i] = Slash THEN [words |-> Append(s.words, s.temp), temp |-> <<>>]
  ELSE [s EXCEPT !.temp = Append(@, str[i])]

\* What the loop of split does at character i; the first becomes the level "/",
\* whatever it is.
Cut(str, i, s) ==
  IF i = 1 THEN [s EXCEPT !.words = Append(@, <<Slash>>)]
  ELSE IF str[i] = Slash THEN [words |-> Append(s.words, s.temp), temp |-> <<>>]
  ELSE IF i = Len(str)
       THEN [words |-> Append(s.words, Append(s.temp, str[i])), temp |-> <<>>]
  ELSE [s EXCEPT !.temp = Append(@, str[i])]

split(str) ==
  LET loop[i \in 0 .. Len(str)] ==
        IF i = 0 THEN [words |-> <<>>, temp |-> <<>>] ELSE Cut(str, i, loop[i - 1])
  IN  loop[Len(str)].words

\* The levels of a node below "/", put together
Text(n) ==
  LET text[k \in 2 .. Len(n)] ==
        IF k = 2 THEN n[2] ELSE text[k - 1] \o <<Slash>> \o n[k]
  IN  text[Len(n)]

\* Every level is written behind a slash.
Rooted(str) == Len(str) > 1 /\ str[1] = Slash /\ str[Len(str)] # Slash

\* A string in which every level is behind a slash leads to the node whose levels it
\* spells, and to no other, also where slashes meet: two clients that write the same
\* levels meet at one node, and clients that write different ones do not.
SplitLeads ==
  \A str \in String : Rooted(str) =>
    \A n \in nodes \ {<<>>} :
      split(str) = n <=> Len(n) > 1 /\ str = <<Slash>> \o Text(n)

\* From i to j there is a level of str: no slash inside, and one, or nothing, on each side.
Level(str, i, j) ==
  /\ i =< j /\ \A k \in i .. j : str[k] # Slash
  /\ i = 1 \/ str[i - 1] = Slash
  /\ j = Len(str) \/ str[j + 1] = Slash

\* On the way a topic has made through the tree each of its levels is a node of its
\* own (topictree.h, struct Node), whether or not there is a slash before the first.
EachLevelANode ==
  \A str \in String : split(str) \in nodes =>
    \A i, j \in 1 .. Len(str) :
      Level(str, i, j) => \E k \in DOMAIN split(str) : split(str)[k] = SubSeq(str, i, j)
=============================================================================
