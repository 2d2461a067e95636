-------------------------- MODULE TopicWalkProofs --------------------------
(***************************************************************************)
(* Proofs that getNode makes the nodes and finds the nodes that the closed *)
(* form of TopicTree says, and that split makes the levels written in a    *)
(* string, for every tree and every string.                                *)
(***************************************************************************)
EXTENDS TopicWalk, TopicTreeProofs, LeastNumber

-----------------------------------------------------------------------------
(***************************************************************************)
(* Paths.                                                                  *)
(***************************************************************************)

\* A path and one more level
LEMMA OneMore ==
  ASSUME NEW r \in Seq(Word), NEW l \in Word
  PROVE  /\ Append(r, l) \in Seq(Word) /\ Len(Append(r, l)) = Len(r) + 1
         /\ Append(r, l)[Len(r) + 1] = l
         /\ SubSeq(Append(r, l), 1, Len(r)) = r
         /\ Append(r, l) # r
<1>1. /\ Append(r, l) \in Seq(Word) /\ Len(Append(r, l)) = Len(r) + 1
      /\ Append(r, l)[Len(r) + 1] = l
      /\ \A k \in 1 .. Len(r) : Append(r, l)[k] = r[k]
  BY AppendProperties
<1>2. SubSeq(Append(r, l), 1, Len(r)) = r
  BY <1>1
<1>3. Append(r, l) # r
  <2>1. Len(r) \in Nat
    OBVIOUS
  <2> QED
    BY <1>1, <2>1
<1> QED
  BY <1>1, <1>2, <1>3

\* The prefix of a path: it is one level longer than the prefix before it
LEMMA Prefix ==
  ASSUME NEW q \in Seq(Word), NEW k \in 0 .. Len(q)
  PROVE  /\ SubSeq(q, 1, k) \in Seq(Word) /\ Len(SubSeq(q, 1, k)) = k
         /\ \A j \in 1 .. k : SubSeq(q, 1, k)[j] = q[j]
         /\ \A j \in 0 .. k : SubSeq(SubSeq(q, 1, k), 1, j) = SubSeq(q, 1, j)
         /\ k = Len(q) => SubSeq(q, 1, k) = q
<1>1. /\ SubSeq(q, 1, k) \in Seq(Word) /\ Len(SubSeq(q, 1, k)) = k
      /\ \A j \in 1 .. k : SubSeq(q, 1, k)[j] = q[j]
  OBVIOUS
<1>2. ASSUME NEW j \in 0 .. k PROVE SubSeq(SubSeq(q, 1, k), 1, j) = SubSeq(q, 1, j)
  BY <1>1
<1>3. k = Len(q) => SubSeq(q, 1, k) = q
  OBVIOUS
<1> QED
  BY <1>1, <1>2, <1>3

\* A prefix and the level after it
LEMMA PrefixStep ==
  ASSUME NEW q \in Seq(Word), NEW k \in Nat, k < Len(q)
  PROVE  /\ q[k + 1] \in Word
         /\ SubSeq(q, 1, k + 1) = Append(SubSeq(q, 1, k), q[k + 1])
<1>1. k + 1 \in 1 .. Len(q) /\ q[k + 1] \in Word
  BY ElementOfSeq
<1>2. SubSeq(q, 1, k) \in Seq(Word) /\ Len(SubSeq(q, 1, k)) = k
  BY Prefix
<1> QED
  BY <1>1, <1>2

-----------------------------------------------------------------------------
(***************************************************************************)
(* handleWildCard.                                                         *)
(***************************************************************************)

\* No path is longer than some number.
Bounded(N) == \E d \in Nat : \A p \in N : Len(p) <= d

\* The node r and all nodes below
Under(N, r) == {q \in N : Len(q) >= Len(r) /\ SubSeq(q, 1, Len(r)) = r}

\* Below a node are its children and what is below them.
LEMMA UnderLinks ==
  ASSUME NEW N, Tree(N), NEW r \in N, NEW q
  PROVE  /\ q \in Under(N, r) <=>
              q = r \/ \E l \in Links(N, r) : q \in Under(N, Append(r, l))
         /\ \A l \in Links(N, r) : r \notin Under(N, Append(r, l))
         /\ \A k, l \in Links(N, r) :
              q \in Under(N, Append(r, k)) /\ q \in Under(N, Append(r, l)) => k = l
<1>0. r \in Seq(Word) /\ Len(r) \in Nat /\ \A p \in N : p \in Seq(Word) /\ Len(p) \in Nat
  BY DEF Tree
<1>1. ASSUME q \in Under(N, r), q # r
      PROVE  \E l \in Links(N, r) : q \in Under(N, Append(r, l))
  <2>1. q \in N /\ q \in Seq(Word) /\ Len(q) >= Len(r) /\ SubSeq(q, 1, Len(r)) = r
    BY <1>0, <1>1 DEF Under
  <2>2. Len(q) > Len(r)
    BY <1>0, <1>1, <2>1, Prefix
  <2>3. /\ q[Len(r) + 1] \in Word
        /\ SubSeq(q, 1, Len(r) + 1) = Append(r, q[Len(r) + 1])
    BY <1>0, <2>1, <2>2, PrefixStep
  <2>4. Len(r) + 1 \in 0 .. Len(q)
    BY <1>0, <2>1, <2>2
  <2>5. SubSeq(q, 1, Len(r) + 1) \in N
    BY <2>1, <2>4 DEF Tree
  <2>6. Len(Append(r, q[Len(r) + 1])) = Len(r) + 1
    BY <1>0, <2>3, OneMore
  <2>7. q[Len(r) + 1] \in Links(N, r)
    BY <2>3, <2>5 DEF Links
  <2>8. q \in Under(N, Append(r, q[Len(r) + 1]))
    BY <1>0, <2>1, <2>2, <2>3, <2>6 DEF Under
  <2> QED
    BY <2>7, <2>8
<1>2. ASSUME NEW l \in Links(N, r), q \in Under(N, Append(r, l))
      PROVE  q \in Under(N, r) /\ q # r /\ q[Len(r) + 1] = l
  <2>1. l \in Word
    BY DEF Links
  <2>2. /\ Len(Append(r, l)) = Len(r) + 1 /\ Append(r, l)[Len(r) + 1] = l
        /\ SubSeq(Append(r, l), 1, Len(r)) = r
    BY <1>0, <2>1, OneMore
  <2>3. /\ q \in N /\ q \in Seq(Word) /\ Len(q) >= Len(r) + 1
        /\ SubSeq(q, 1, Len(r) + 1) = Append(r, l)
    BY <1>0, <1>2, <2>2 DEF Under
  <2>4. Len(r) + 1 \in 0 .. Len(q) /\ Len(r) \in 0 .. Len(r) + 1
        /\ Len(r) + 1 \in 1 .. Len(r) + 1
    BY <1>0, <2>3
  <2>5. SubSeq(q, 1, Len(r)) = r /\ q[Len(r) + 1] = l
    BY <2>2, <2>3, <2>4, Prefix
  <2> QED
    BY <1>0, <2>3, <2>5 DEF Under
<1>3. r \in Under(N, r)
  BY <1>0, Prefix DEF Under
<1>4. q \in Under(N, r) <=>
        q = r \/ \E l \in Links(N, r) : q \in Under(N, Append(r, l))
  BY <1>1, <1>2, <1>3
<1>5. ASSUME NEW l \in Links(N, r), r \in Under(N, Append(r, l)) PROVE FALSE
  <2>1. /\ l \in Word /\ Len(Append(r, l)) = Len(r) + 1
    BY <1>0, OneMore DEF Links
  <2> QED
    BY <1>0, <1>5, <2>1 DEF Under
<1> QED
  BY <1>2, <1>4, <1>5

\* Calls that append each node once, and no two the same, append each node once.
LEMMA AppendedOnce ==
  ASSUME NEW call,
         \A l \in DOMAIN call : call[l].twice = {},
         \A k, l \in DOMAIN call : \A q :
           q \in call[k].vec /\ q \in call[l].vec => k = l
  PROVE  Appended(call) =
           [vec |-> UNION {call[l].vec : l \in DOMAIN call}, twice |-> {}]
<1>1. UNION {call[l].twice : l \in DOMAIN call} = {}
  OBVIOUS
<1>2. {q \in UNION {call[l].vec : l \in DOMAIN call} :
         \E k, l \in DOMAIN call :
           k # l /\ q \in call[k].vec /\ q \in call[l].vec} = {}
  OBVIOUS
<1> QED
  BY <1>1, <1>2 DEF Appended

\* What handleWildCard should append for the node r
Whole(N, r) == [vec |-> Under(N, r), twice |-> {}]

\* The fields of it
LEMMA WholeFields == \A N, r : Whole(N, r).vec = Under(N, r) /\ Whole(N, r).twice = {}
  BY DEF Whole

\* What it does append for a node
WildBody(N, g, r) ==
  LET below == Appended([l \in Links(N, r) |-> g[Append(r, l)]])
  IN  [vec |-> {r} \cup below.vec,
       twice |-> below.twice \cup ({r} \cap below.vec)]

\* What handleWildCard is defined by
WildEquation(N, g) == g = [root \in N |-> WildBody(N, g, root)]

\* handleWildCard is such a function.
LEMMA WildChosen == ASSUME NEW N PROVE handleWildCard(N) = CHOOSE g : WildEquation(N, g)
  BY DEF handleWildCard, WildEquation, WildBody

\* It is right about a node when it is right about its children.
LEMMA WildStep ==
  ASSUME NEW N, Tree(N), NEW r \in N, NEW g,
         \A l \in Links(N, r) : g[Append(r, l)] = Whole(N, Append(r, l))
  PROVE  WildBody(N, g, r) = Whole(N, r)
<1> DEFINE call == [l \in Links(N, r) |-> g[Append(r, l)]]
           all == UNION {Under(N, Append(r, l)) : l \in Links(N, r)}
           below == Appended(call)
<1>1. DOMAIN call = Links(N, r)
  OBVIOUS
<1>2. \A l \in Links(N, r) : call[l] = Whole(N, Append(r, l))
  OBVIOUS
<1> HIDE DEF call
<1>3. \A l \in Links(N, r) :
        call[l].vec = Under(N, Append(r, l)) /\ call[l].twice = {}
  BY <1>2, WholeFields
<1>4. \A k, l \in Links(N, r) : \A q :
        q \in Under(N, Append(r, k)) /\ q \in Under(N, Append(r, l)) => k = l
  BY UnderLinks
<1>5. Appended(call) = [vec |-> UNION {call[l].vec : l \in DOMAIN call}, twice |-> {}]
  BY <1>1, <1>3, <1>4, AppendedOnce
<1>6. UNION {call[l].vec : l \in DOMAIN call} = all
  BY <1>1, <1>3
<1>7. below.vec = all /\ below.twice = {}
  BY <1>5, <1>6
<1>8. r \notin all
  BY UnderLinks
<1>9. {r} \cup all = Under(N, r)
  <2>1. ASSUME NEW q PROVE q \in {r} \cup all <=> q \in Under(N, r)
    BY UnderLinks
  <2> QED
    BY <2>1
<1> HIDE DEF all, below
<1>10. {r} \cup below.vec = Under(N, r) /\ below.twice \cup ({r} \cap below.vec) = {}
  BY <1>7, <1>8, <1>9
<1>11. [vec |-> {r} \cup below.vec, twice |-> below.twice \cup ({r} \cap below.vec)]
         = Whole(N, r)
  BY <1>10 DEF Whole
<1> QED
  BY <1>11 DEF WildBody, below, call

\* handleWildCard returns a node and all nodes below, each once.
LEMMA WildCard ==
  ASSUME NEW N, Tree(N), Bounded(N)
  PROVE  \A r \in N : handleWildCard(N)[r] = Whole(N, r)
<1> DEFINE C == [p \in N |-> Whole(N, p)]
<1>1. \A r \in N : \A l \in Links(N, r) : Append(r, l) \in N
  BY DEF Links
<1>2. WildEquation(N, C)
  <2>1. \A r \in N : C[r] = Whole(N, r)
    OBVIOUS
  <2> HIDE DEF C
  <2>2. \A r \in N : WildBody(N, C, r) = Whole(N, r)
    BY <1>1, <2>1, WildStep
  <2>3. C = [r \in N |-> WildBody(N, C, r)]
    BY <2>2 DEF C
  <2> QED
    BY <2>3 DEF WildEquation
<1>3. ASSUME NEW g, WildEquation(N, g), NEW s \in N, g[s] # Whole(N, s)
      PROVE  FALSE
  <2>1. \A r \in N : g[r] = WildBody(N, g, r)
    BY <1>3 DEF WildEquation
  <2>2. PICK d \in Nat : \A p \in N : Len(p) <= d
    BY DEF Bounded
  <2>3. \A p \in N : p \in Seq(Word) /\ Len(p) \in Nat
    BY DEF Tree
  <2> DEFINE Wrong == {r \in N : g[r] # Whole(N, r)}
             T == {d - Len(r) : r \in Wrong}
  <2>4. T \in SUBSET Nat
    BY <2>2, <2>3
  <2>5. d - Len(s) \in T
    BY <1>3
  <2>6. PICK x \in T : \A y \in T : x <= y
    <3> HIDE DEF T
    <3> QED
      BY <2>4, <2>5, LeastNat
  <2>7. PICK r \in Wrong : \A q \in Wrong : d - Len(r) <= d - Len(q)
    BY <2>6
  <2>8. ASSUME NEW l \in Links(N, r) PROVE g[Append(r, l)] = Whole(N, Append(r, l))
    <3>1. Append(r, l) \in N /\ Len(Append(r, l)) = Len(r) + 1
      BY <1>1, <2>3, OneMore DEF Links
    <3>2. ~(d - Len(r) <= d - Len(Append(r, l)))
      BY <2>2, <2>3, <3>1
    <3> QED
      BY <2>7, <3>1, <3>2
  <2> QED
    BY <2>1, <2>7, <2>8, WildStep
<1>4. WildEquation(N, handleWildCard(N))
  BY <1>2, WildChosen
<1> QED
  BY <1>3, <1>4

-----------------------------------------------------------------------------
(***************************************************************************)
(* getNode.                                                                *)
(***************************************************************************)

\* getNode with n levels to go, on every node of every tree
GetAll(w, n, next) ==
  [N \in SUBSET Seq(Word) |-> [root \in Seq(Word) |->
     GetNodeStep(w, n, next, N, root)]]

\* It is one step of getNode at every tree and node.
LEMMA GetAllAt ==
  ASSUME NEW w, NEW n, NEW f, NEW N \in SUBSET Seq(Word), NEW r \in Seq(Word)
  PROVE  GetAll(w, n, f)[N][r] = GetNodeStep(w, n, f, N, r)
  BY DEF GetAll

\* What getNode is defined by
GetEquation(w, g) == g = [n \in 0 .. Len(w) |-> GetAll(w, n, g[n - 1])]

\* getNode is such a function, at the root with all levels to go.
LEMMA GetChosen ==
  ASSUME NEW N, NEW w
  PROVE  getNode(N, w) = (CHOOSE g : GetEquation(w, g))[Len(w)][N][<<>>]
  BY DEF getNode, GetEquation, GetAll

\* With no level to go, nothing is asked of the next call.
LEMMA GetFirst == ASSUME NEW w, NEW f, NEW g PROVE GetAll(w, 0, f) = GetAll(w, 0, g)
  BY DEF GetAll, GetNodeStep

\* There is such a function.
LEMMA GetExists ==
  ASSUME NEW w, Len(w) \in Nat
  PROVE  \E g : GetEquation(w, g)
<1> DEFINE P(k, g) == g = [n \in 0 .. k |-> GetAll(w, n, g[n - 1])]
           T == {k \in Nat : ~ \E g : P(k, g)}
<1> SUFFICES ASSUME T # {} PROVE FALSE
  BY DEF GetEquation
<1>1. PICK k \in T : \A j \in T : k <= j
  BY LeastNat
<1>2. CASE k = 0
  <2> DEFINE g == [n \in 0 .. 0 |-> GetAll(w, 0, <<>>)]
  <2>1. P(0, g)
    BY GetFirst
  <2> QED
    BY <1>1, <1>2, <2>1
<1>3. CASE k # 0
  <2>1. k - 1 \in Nat /\ k - 1 \notin T
    BY <1>1, <1>3
  <2>2. PICK g : P(k - 1, g)
    BY <2>1
  <2> DEFINE h == [n \in 0 .. k |-> IF n < k THEN g[n] ELSE GetAll(w, k, g[k - 1])]
  <2>3. \A n \in 0 .. k : h[n] = GetAll(w, n, h[n - 1])
    <3>1. ASSUME NEW n \in 0 .. k PROVE h[n] = GetAll(w, n, h[n - 1])
      <4>1. CASE n = 0
        BY <1>3, <2>1, <2>2, <4>1, GetFirst
      <4>2. CASE n # 0
        BY <1>3, <2>1, <2>2, <4>2
      <4> QED
        BY <4>1, <4>2
    <3> QED
      BY <3>1
  <2>4. P(k, h)
    BY <2>3
  <2> QED
    BY <1>1, <2>4
<1> QED
  BY <1>2, <1>3

\* getNode stands on the node r, with the levels of w up to there behind it.
At(N, w, r) == /\ Tree(N) /\ Bounded(N) /\ r \in N
               /\ Len(r) \in Reached(w) /\ r \in Walks(N, w, Len(r))

\* Where it goes from there
Onward(N, w, r) == IF w[Len(r) + 1] = Plus THEN Links(N, r) ELSE {w[Len(r) + 1]}

\* What is in X below the children L of r
Below(X, r, L) == UNION {Under(X, Append(r, l)) : l \in L}

\* Below one child, and below none
LEMMA BelowOne == \A X, r, l : Below(X, r, {l}) = Under(X, Append(r, l))
  BY DEF Below

LEMMA BelowNone == \A X, r : Below(X, r, {}) = {}
  BY DEF Below

\* What comes of a walk that stood on r, in the tree and in vec
Part(N, w, r) == [nodes |-> N \cup Under(Created(N, w), r),
                  vec |-> Under(Hits(N, w), r), twice |-> {}]

\* The types of what is met there
LEMMA AtTypes ==
  ASSUME NEW N, NEW w \in Seq(Word \cup {Plus, Hash}), NEW r, At(N, w, r)
  PROVE  /\ r \in Seq(Word) /\ Len(r) \in Nat /\ Len(r) <= Len(w) /\ Len(w) \in Nat
         /\ N \subseteq Seq(Word)
         /\ \A j \in 0 .. Len(r) : j \in Reached(w)
         /\ \A j \in 1 .. Len(r) : w[j] # Hash
  BY DEF At, Reached, Tree

\* What is below two children of a node is not the same.
LEMMA UnderOne ==
  ASSUME NEW X, X \subseteq Seq(Word), NEW r \in Seq(Word), NEW k \in Word, NEW l \in Word,
         NEW q \in Under(X, Append(r, k)), q \in Under(X, Append(r, l))
  PROVE  k = l
<1>1. /\ Len(Append(r, k)) = Len(r) + 1 /\ Append(r, k)[Len(r) + 1] = k
      /\ Len(Append(r, l)) = Len(r) + 1 /\ Append(r, l)[Len(r) + 1] = l
  BY OneMore
<1>2. Append(r, k) = Append(r, l)
  BY <1>1 DEF Under
<1> QED
  BY <1>1, <1>2

\* What is below a child is below the node.
LEMMA UnderChild ==
  ASSUME NEW X, X \subseteq Seq(Word), NEW r \in Seq(Word), NEW l \in Word
  PROVE  Under(X, Append(r, l)) \subseteq Under(X, r)
<1> SUFFICES ASSUME NEW q \in Under(X, Append(r, l)) PROVE q \in Under(X, r)
  OBVIOUS
<1>1. Len(Append(r, l)) = Len(r) + 1 /\ SubSeq(Append(r, l), 1, Len(r)) = r
  BY OneMore
<1>2. /\ q \in X /\ q \in Seq(Word) /\ Len(q) >= Len(r) + 1 /\ Len(r) \in Nat
      /\ SubSeq(q, 1, Len(r) + 1) = Append(r, l)
  BY <1>1 DEF Under
<1>3. Len(r) + 1 \in 0 .. Len(q) /\ Len(r) \in 0 .. Len(r) + 1
  BY <1>2
<1>4. SubSeq(SubSeq(q, 1, Len(r) + 1), 1, Len(r)) = SubSeq(q, 1, Len(r))
  BY <1>2, <1>3, Prefix
<1> QED
  BY <1>1, <1>2, <1>4 DEF Under

\* A path below r that walks on is below a child that getNode goes to.
LEMMA WalksOn ==
  ASSUME NEW N, NEW w \in Seq(Word \cup {Plus, Hash}), NEW r, At(N, w, r),
         Len(r) < Len(w), NEW q \in Seq(Word), Len(q) >= Len(r) + 1,
         SubSeq(q, 1, Len(r)) = r,
         SubSeq(q, 1, Len(r) + 1) \in Walks(N, w, Len(r) + 1)
  PROVE  \E l \in Onward(N, w, r) : SubSeq(q, 1, Len(r) + 1) = Append(r, l)
<1>0. Len(r) \in Nat /\ r \in Seq(Word)
  BY AtTypes
<1> DEFINE i == Len(r) + 1
           p == SubSeq(q, 1, i)
<1>1. q[i] \in Word /\ p = Append(r, q[i])
  BY <1>0, PrefixStep
<1>2. p \in [1 .. i -> Word]
      /\ \A j \in 1 .. i : IF w[j] = Plus THEN SubSeq(p, 1, j) \in N ELSE p[j] = w[j]
  BY DEF Walks
<1>3. i \in 1 .. i /\ SubSeq(p, 1, i) = p /\ p[i] = q[i]
  BY <1>0, <1>1, OneMore, Prefix
<1>4. CASE w[i] = Plus
  BY <1>1, <1>2, <1>3, <1>4 DEF Onward, Links
<1>5. CASE w[i] # Plus
  BY <1>1, <1>2, <1>3, <1>5 DEF Onward
<1> QED
  BY <1>4, <1>5

\* It goes on to levels of the tree.
LEMMA OnwardWords ==
  ASSUME NEW N, NEW w \in Seq(Word \cup {Plus, Hash}), NEW r, At(N, w, r),
         Len(r) < Len(w), w[Len(r) + 1] # Hash
  PROVE  Onward(N, w, r) \subseteq Word /\ Len(r) + 1 \in Reached(w)
<1>1. Len(r) \in Nat /\ Len(w) \in Nat /\ \A j \in 1 .. Len(r) : w[j] # Hash
  BY AtTypes
<1>2. Len(r) + 1 \in Reached(w)
  BY <1>1 DEF Reached
<1>3. w[Len(r) + 1] \in Word \cup {Plus, Hash}
  <2>1. Len(r) + 1 \in 1 .. Len(w)
    BY <1>1
  <2> QED
    BY <2>1, ElementOfSeq
<1> QED
  BY <1>2, <1>3 DEF Onward, Links

\* Unless it is at "#", what getNode makes below a node is below a child.
LEMMA MadeOn ==
  ASSUME NEW N, NEW w \in Seq(Word \cup {Plus, Hash}), NEW r, At(N, w, r),
         Len(r) < Len(w), w[Len(r) + 1] # Hash
  PROVE  N \cup Under(Created(N, w), r) =
           N \cup Below(Created(N, w), r, Onward(N, w, r))
<1>0. /\ Len(r) \in Nat /\ r \in Seq(Word) /\ N \subseteq Seq(Word) /\ Len(w) \in Nat
      /\ Created(N, w) \subseteq Seq(Word) /\ Onward(N, w, r) \subseteq Word
  BY AtTypes, CreatedTree, OnwardWords DEF At, Tree
<1>1. ASSUME NEW q \in Under(Created(N, w), r), q \notin N
      PROVE  \E l \in Onward(N, w, r) : q \in Under(Created(N, w), Append(r, l))
  <2>1. PICK j \in Reached(w) : q \in Walks(N, w, j)
    BY <1>1 DEF Created, Under
  <2>2. j \in 0 .. Len(w) /\ j \in Nat /\ q \in Seq(Word) /\ Len(q) = j
    <3>1. j \in 0 .. Len(w) /\ j \in Nat
      BY <1>0 DEF Reached
    <3> QED
      BY <2>1, <3>1, WalkType
  <2>3. Len(r) <= j /\ SubSeq(q, 1, Len(r)) = r
    BY <1>1, <2>2 DEF Under
  <2>4. j # Len(r)
    <3>1. j = Len(r) => q = r
      BY <1>0, <2>2, <2>3, Prefix
    <3> QED
      BY <1>1, <3>1 DEF At
  <2>5. Len(r) + 1 \in 0 .. j /\ Len(q) >= Len(r) + 1
    <3>1. Len(r) \in Nat /\ Len(q) \in Nat /\ Len(r) <= Len(q) /\ Len(q) # Len(r)
      BY <1>0, <2>2, <2>3, <2>4
    <3>2. Len(r) + 1 \in 0 .. Len(q) /\ Len(q) >= Len(r) + 1
      BY <3>1
    <3> QED
      BY <2>2, <3>2
  <2>6. SubSeq(q, 1, Len(r) + 1) \in Walks(N, w, Len(r) + 1)
    BY <2>1, <2>2, <2>5, WalkPrefix
  <2>7. PICK l \in Onward(N, w, r) : SubSeq(q, 1, Len(r) + 1) = Append(r, l)
    BY <1>0, <2>2, <2>3, <2>5, <2>6, WalksOn
  <2>8. Len(Append(r, l)) = Len(r) + 1
    BY <1>0, OneMore
  <2>9. q \in Under(Created(N, w), Append(r, l))
    BY <2>2, <2>5, <2>7, <2>8 DEF Under
  <2> QED
    BY <2>9
<1>2. ASSUME NEW l \in Onward(N, w, r)
      PROVE  Under(Created(N, w), Append(r, l)) \subseteq Under(Created(N, w), r)
  BY <1>0, UnderChild
<1> QED
  BY <1>1, <1>2 DEF Below

\* Nor does it return anything else.
LEMMA HitsOn ==
  ASSUME NEW N, NEW w \in Seq(Word \cup {Plus, Hash}), NEW r, At(N, w, r),
         Len(r) < Len(w), w[Len(r) + 1] # Hash
  PROVE  Under(Hits(N, w), r) =
           Below(Hits(N, w), r, Onward(N, w, r))
<1>0. /\ Len(r) \in Nat /\ r \in Seq(Word) /\ N \subseteq Seq(Word) /\ Len(w) \in Nat
      /\ Hits(N, w) \subseteq Seq(Word) /\ Onward(N, w, r) \subseteq Word
      /\ \A j \in 1 .. Len(r) : w[j] # Hash
  BY AtTypes, HitsMatch, OnwardWords
<1>1. ASSUME NEW q \in Under(Hits(N, w), r)
      PROVE  \E l \in Onward(N, w, r) : q \in Under(Hits(N, w), Append(r, l))
  <2>1. /\ q \in Hits(N, w) /\ q \in Seq(Word) /\ Len(q) \in Nat
        /\ Len(q) >= Len(r) /\ SubSeq(q, 1, Len(r)) = r
    BY <1>0, <1>1 DEF Under
  <2>2. \E j \in Len(r) + 1 .. Len(w) :
          Len(q) >= j /\ SubSeq(q, 1, j) \in Walks(N, w, j)
    <3>1. CASE Reached(w) = 0 .. Len(w)
      <4>1. q \in Walks(N, w, Len(w))
        BY <2>1, <3>1 DEF Hits
      <4>3. Len(q) = Len(w)
        BY <1>0, <4>1, WalkType
      <4>2. SubSeq(q, 1, Len(w)) = q /\ Len(w) \in Len(r) + 1 .. Len(w)
        BY <1>0, <2>1, <4>3, Prefix
      <4>4. SubSeq(q, 1, Len(w)) \in Walks(N, w, Len(w))
        BY <4>1, <4>2
      <4>5. Len(q) >= Len(w)
        BY <1>0, <4>3
      <4> QED
        BY <4>2, <4>4, <4>5
    <3>2. CASE Reached(w) # 0 .. Len(w)
      <4>1. PICK j \in Reached(w) \ {Len(w)} :
              w[j + 1] = Hash /\ Len(q) >= j /\ SubSeq(q, 1, j) \in Walks(N, w, j)
        BY <2>1, <3>2 DEF Hits
      <4>2. j \in 0 .. Len(w)
        BY DEF Reached
      <4>3. ~(j + 1 \in 1 .. Len(r)) /\ j # Len(r)
        BY <1>0, <4>1
      <4>4. j \in Len(r) + 1 .. Len(w)
        BY <1>0, <4>2, <4>3
      <4> QED
        BY <4>1, <4>4
    <3> QED
      BY <3>1, <3>2
  <2>3. PICK j \in Len(r) + 1 .. Len(w) :
          Len(q) >= j /\ SubSeq(q, 1, j) \in Walks(N, w, j)
    BY <2>2
  <2>4. /\ j \in 0 .. Len(w) /\ j \in 0 .. Len(q) /\ Len(r) + 1 \in 0 .. j
        /\ Len(q) >= Len(r) + 1
    BY <1>0, <2>1, <2>3
  <2>5. SubSeq(SubSeq(q, 1, j), 1, Len(r) + 1) \in Walks(N, w, Len(r) + 1)
    BY <2>3, <2>4, WalkPrefix
  <2>6. SubSeq(q, 1, Len(r) + 1) \in Walks(N, w, Len(r) + 1)
    BY <2>1, <2>4, <2>5, Prefix
  <2>7. PICK l \in Onward(N, w, r) : SubSeq(q, 1, Len(r) + 1) = Append(r, l)
    BY <2>1, <2>4, <2>6, WalksOn
  <2>8. Len(Append(r, l)) = Len(r) + 1
    BY <1>0, OneMore
  <2>9. q \in Under(Hits(N, w), Append(r, l))
    BY <2>1, <2>4, <2>7, <2>8 DEF Under
  <2> QED
    BY <2>9
<1>2. ASSUME NEW l \in Onward(N, w, r)
      PROVE  Under(Hits(N, w), Append(r, l)) \subseteq Under(Hits(N, w), r)
  BY <1>0, UnderChild
<1> QED
  BY <1>1, <1>2 DEF Below

\* The node that getNode adds for a level leaves the rest of the walk as it was.
LEMMA LevelAdded ==
  ASSUME NEW N, NEW w \in Seq(Word \cup {Plus, Hash}), NEW r, At(N, w, r),
         Len(r) < Len(w), w[Len(r) + 1] \notin {Plus, Hash},
         NEW s, s = Append(r, w[Len(r) + 1])
  PROVE  /\ At(N \cup {s}, w, s)
         /\ Created(N \cup {s}, w) = Created(N, w) /\ Hits(N \cup {s}, w) = Hits(N, w)
<1> DEFINE i == Len(r) + 1
           M == N \cup {s}
<1>0. /\ Len(r) \in Nat /\ r \in Seq(Word) /\ N \subseteq Seq(Word) /\ Len(w) \in Nat
      /\ w[i] \in Word /\ i \in Reached(w) /\ i \in Nat
  <2>1. w[i] # Hash /\ w[i] # Plus
    OBVIOUS
  <2>2. i \in Reached(w) /\ Onward(N, w, r) \subseteq Word
    BY <2>1, OnwardWords
  <2>3. w[i] \in Word
    BY <2>1, <2>2 DEF Onward
  <2> QED
    BY <2>2, <2>3, AtTypes
<1>1. /\ s \in Seq(Word) /\ Len(s) = i /\ s[i] = w[i] /\ SubSeq(s, 1, Len(r)) = r
  BY <1>0, OneMore
<1>2. \A m \in 0 .. Len(r) : SubSeq(s, 1, m) = SubSeq(r, 1, m)
  <2>1. Len(r) \in 0 .. Len(s)
    BY <1>0, <1>1
  <2> QED
    BY <1>1, <2>1, Prefix
<1>3. \A m \in 1 .. Len(r) : s[m] = r[m]
  <2>1. Len(r) \in 0 .. Len(s)
    BY <1>0, <1>1
  <2> QED
    BY <1>1, <2>1, Prefix
<1>4. s \in Walks(N, w, i)
  <2>1. s \in [1 .. i -> Word]
    BY <1>0, <1>1, LenProperties
  <2>2. \A m \in 1 .. Len(r) : IF w[m] = Plus THEN SubSeq(r, 1, m) \in N
                               ELSE r[m] = w[m]
    BY DEF At, Walks
  <2>3. ASSUME NEW m \in 1 .. i
        PROVE  IF w[m] = Plus THEN SubSeq(s, 1, m) \in N ELSE s[m] = w[m]
    <3>1. CASE m = i
      BY <1>1, <3>1
    <3>2. CASE m # i
      <4>1. m \in 1 .. Len(r) /\ m \in 0 .. Len(r)
        BY <1>0, <3>2
      <4> QED
        BY <1>2, <1>3, <2>2, <4>1
    <3> QED
      BY <3>1, <3>2
  <2> QED
    BY <2>1, <2>3 DEF Walks
<1>5. ASSUME NEW j \in Nat PROVE Walks(M, w, j) = Walks(N, w, j)
  <2>1. Walks(N, w, j) \subseteq Walks(M, w, j)
    BY WalksMonotone
  <2>2. ASSUME NEW p \in Walks(M, w, j), NEW m \in 1 .. j, w[m] = Plus
        PROVE  SubSeq(p, 1, m) \in N
    <3>1. SubSeq(p, 1, m) \in M
      BY <2>2 DEF Walks
    <3>2. p \in Seq(Word) /\ Len(p) = j /\ m \in 0 .. j
      BY WalkType
    <3>3. Len(SubSeq(p, 1, m)) = m
      BY <3>2, Prefix
    <3> QED
      BY <1>1, <2>2, <3>1, <3>3
  <2>3. Walks(M, w, j) \subseteq Walks(N, w, j)
    BY <2>2 DEF Walks
  <2> QED
    BY <2>1, <2>3
<1>6. \A j \in Reached(w) : j \in Nat /\ Walks(M, w, j) = Walks(N, w, j)
  <2>1. \A j \in Reached(w) : j \in Nat
    BY <1>0 DEF Reached
  <2> QED
    BY <1>5, <2>1
<1>7. Tree(M)
  <2>1. ASSUME NEW m \in 0 .. Len(s) PROVE SubSeq(s, 1, m) \in M
    <3>1. CASE m = i
      BY <1>1, <3>1, Prefix
    <3>2. CASE m # i
      <4>1. m \in 0 .. Len(r)
        BY <1>0, <1>1, <3>2
      <4> QED
        BY <1>2, <4>1 DEF At, Tree
    <3> QED
      BY <3>1, <3>2
  <2>2. \A p \in N : \A m \in 0 .. Len(p) : SubSeq(p, 1, m) \in M
    BY DEF At, Tree
  <2>3. M \subseteq Seq(Word) /\ <<>> \in M
    BY <1>0, <1>1 DEF At, Tree
  <2> QED
    BY <2>1, <2>2, <2>3 DEF Tree
<1>8. Bounded(M)
  <2>1. PICK d \in Nat : \A p \in N : Len(p) <= d
    BY DEF At, Bounded
  <2>2. \A p \in N : Len(p) \in Nat
    BY <1>0
  <2>3. r \in N
    BY DEF At
  <2>4. d + 1 \in Nat /\ \A p \in M : Len(p) <= d + 1
    BY <1>0, <1>1, <2>1, <2>2, <2>3
  <2> QED
    BY <2>4 DEF Bounded
<1>9. At(M, w, s)
  BY <1>0, <1>1, <1>4, <1>6, <1>7, <1>8 DEF At
<1>10. Created(M, w) = Created(N, w)
  BY <1>0, <1>4, <1>6 DEF Created
<1>11. ASSUME NEW b \in Seq(Word), Len(b) >= i
       PROVE  HasLinks(M, b) = HasLinks(N, b)
  BY <1>1, <1>11 DEF HasLinks
<1>12. CASE Reached(w) = 0 .. Len(w)
  <2>1. Len(w) \in Reached(w)
    BY <1>0, <1>12
  <2> QED
    BY <1>6, <1>9, <1>10, <1>12, <2>1 DEF Hits
<1>13. CASE Reached(w) # 0 .. Len(w)
  <2>1. ASSUME NEW q \in M, NEW j \in Reached(w) \ {Len(w)},
               w[j + 1] = Hash, Len(q) >= j, SubSeq(q, 1, j) \in Walks(N, w, j)
        PROVE  HasLinks(M, SubSeq(q, 1, j)) <=> (q \in N /\ HasLinks(N, SubSeq(q, 1, j)))
    <3>1. i <= j /\ j \in Nat
      <4>1. j + 1 \in 1 .. i => w[j + 1] # Hash
        BY <1>0 DEF Reached
      <4> QED
        BY <1>0, <1>6, <2>1, <4>1
    <3>2. q \in Seq(Word) /\ Len(q) \in Nat /\ j \in 0 .. Len(q)
      <4>1. q \in Seq(Word) /\ Len(q) \in Nat
        BY <1>0, <1>1
      <4> QED
        BY <2>1, <3>1, <4>1
    <3>3. SubSeq(q, 1, j) \in Seq(Word) /\ Len(SubSeq(q, 1, j)) = j
      BY <3>2, Prefix
    <3>4. HasLinks(M, SubSeq(q, 1, j)) = HasLinks(N, SubSeq(q, 1, j))
      BY <1>0, <1>11, <3>1, <3>3
    <3>5. CASE q = s
      <4>1. j = i /\ SubSeq(q, 1, j) = s
        BY <1>0, <1>1, <3>1, <3>2, <3>5, Prefix
      <4>2. ASSUME HasLinks(N, s) PROVE s \in N
        <5>1. PICK p \in N : Len(p) > Len(s) /\ SubSeq(p, 1, Len(s)) = s
          BY <4>2 DEF HasLinks
        <5>2. Len(s) \in 0 .. Len(p)
          BY <1>0, <1>1, <5>1
        <5> QED
          BY <5>1, <5>2 DEF At, Tree
      <4> QED
        BY <3>4, <3>5, <4>1, <4>2
    <3>6. CASE q # s
      BY <3>4, <3>6
    <3> QED
      BY <3>5, <3>6
  <2>2. Hits(M, w) = {q \in M : \E j \in Reached(w) \ {Len(w)} :
                        /\ w[j + 1] = Hash /\ Len(q) >= j
                        /\ SubSeq(q, 1, j) \in Walks(N, w, j)
                        /\ HasLinks(M, SubSeq(q, 1, j))}
    BY <1>6, <1>13 DEF Hits
  <2>3. Hits(N, w) = {q \in N : \E j \in Reached(w) \ {Len(w)} :
                        /\ w[j + 1] = Hash /\ Len(q) >= j
                        /\ SubSeq(q, 1, j) \in Walks(N, w, j)
                        /\ HasLinks(N, SubSeq(q, 1, j))}
    BY <1>13 DEF Hits
  <2>4. ASSUME NEW q \in Hits(M, w) PROVE q \in Hits(N, w)
    BY <2>1, <2>2, <2>3
  <2>5. ASSUME NEW q \in Hits(N, w) PROVE q \in Hits(M, w)
    BY <2>1, <2>2, <2>3
  <2>6. Hits(M, w) = Hits(N, w)
    BY <2>4, <2>5
  <2> QED
    BY <1>9, <1>10, <2>6
<1> QED
  BY <1>12, <1>13

\* When no level is left getNode returns the node it is on.
LEMMA AtEnd ==
  ASSUME NEW N, NEW w \in Seq(Word \cup {Plus, Hash}), NEW r, At(N, w, r),
         Len(r) = Len(w)
  PROVE  N \cup Under(Created(N, w), r) = N /\ Under(Hits(N, w), r) = {r}
<1>0. /\ Len(r) \in Nat /\ r \in Seq(Word) /\ N \subseteq Seq(Word) /\ r \in N
      /\ r \in Walks(N, w, Len(w)) /\ Reached(w) = 0 .. Len(w)
  BY AtTypes DEF At, Reached
<1>1. ASSUME NEW j \in Reached(w), NEW q \in Under(Walks(N, w, j), r) PROVE q = r
  <2>1. j \in Nat /\ j <= Len(r)
    BY <1>0
  <2>2. q \in Walks(N, w, j) /\ Len(q) >= Len(r) /\ SubSeq(q, 1, Len(r)) = r
    BY DEF Under
  <2>3. q \in Seq(Word) /\ Len(q) = j
    BY <2>1, <2>2, WalkType
  <2>4. Len(q) = Len(r) /\ Len(r) \in 0 .. Len(q)
    <3>1. Len(q) \in Nat /\ Len(q) <= Len(r) /\ Len(q) >= Len(r)
      BY <2>1, <2>2, <2>3
    <3> QED
      BY <1>0, <3>1
  <2> QED
    BY <2>2, <2>3, <2>4, Prefix
<1>2. ASSUME NEW q \in Under(Created(N, w), r) PROVE q \in N
  BY <1>0, <1>1 DEF Created, Under
<1>3. Hits(N, w) = Walks(N, w, Len(w)) /\ Len(w) \in Reached(w)
  BY <1>0 DEF Hits
<1>4. r \in Under(Hits(N, w), r)
  <2>1. Len(r) \in 0 .. Len(r) /\ SubSeq(r, 1, Len(r)) = r /\ Len(r) >= Len(r)
    BY <1>0, Prefix
  <2> QED
    BY <1>0, <1>3, <2>1 DEF Under
<1> QED
  BY <1>1, <1>2, <1>3, <1>4

\* At "#" getNode makes nothing and returns the node with all below, if there is any.
LEMMA AtHash ==
  ASSUME NEW N, NEW w \in Seq(Word \cup {Plus, Hash}), NEW r, At(N, w, r),
         Len(r) < Len(w), w[Len(r) + 1] = Hash
  PROVE  /\ N \cup Under(Created(N, w), r) = N
         /\ Under(Hits(N, w), r) = IF Links(N, r) = {} THEN {} ELSE Under(N, r)
<1>0. /\ Len(r) \in Nat /\ r \in Seq(Word) /\ N \subseteq Seq(Word) /\ Len(w) \in Nat
      /\ r \in N /\ Tree(N) /\ Len(r) \in Reached(w) /\ r \in Walks(N, w, Len(r))
      /\ \A j \in 1 .. Len(r) : w[j] # Hash
  BY AtTypes DEF At
<1>1. \A j \in Reached(w) : j \in 0 .. Len(r)
  <2>1. ASSUME NEW j \in Reached(w) PROVE j \in 0 .. Len(r)
    <3>1. j \in 0 .. Len(w) /\ ~(Len(r) + 1 \in 1 .. j)
      BY DEF Reached
    <3> QED
      BY <1>0, <3>1
  <2> QED
    BY <2>1
<1>2. Reached(w) # 0 .. Len(w)
  <2>1. Len(w) \notin Reached(w)
    BY <1>0, <1>1
  <2> QED
    BY <1>0, <2>1
<1>3. ASSUME NEW q \in Under(Created(N, w), r) PROVE q \in N
  <2> SUFFICES ASSUME NEW j \in Reached(w), q \in Walks(N, w, j) PROVE q = r
    BY <1>0, <1>3 DEF Created, Under
  <2>1. j \in Nat /\ j <= Len(r)
    BY <1>0, <1>1
  <2>2. q \in Seq(Word) /\ Len(q) = j /\ Len(q) >= Len(r) /\ SubSeq(q, 1, Len(r)) = r
    BY <2>1, WalkType DEF Under
  <2>3. Len(q) = Len(r) /\ Len(r) \in 0 .. Len(q)
    <3>1. Len(q) \in Nat /\ Len(q) <= Len(r) /\ Len(q) >= Len(r)
      BY <2>1, <2>2
    <3> QED
      BY <1>0, <3>1
  <2> QED
    BY <2>2, <2>3, Prefix
<1>4. HasLinks(N, r) <=> Links(N, r) # {}
  <2>1. ASSUME NEW q \in N, Len(q) > Len(r), SubSeq(q, 1, Len(r)) = r
        PROVE  q[Len(r) + 1] \in Links(N, r)
    <3>1. q \in Seq(Word) /\ Len(r) + 1 \in 0 .. Len(q)
      BY <1>0, <2>1
    <3>2. /\ q[Len(r) + 1] \in Word
          /\ SubSeq(q, 1, Len(r) + 1) = Append(r, q[Len(r) + 1])
      BY <1>0, <2>1, <3>1, PrefixStep
    <3>3. SubSeq(q, 1, Len(r) + 1) \in N
      BY <1>0, <3>1 DEF Tree
    <3> QED
      BY <3>2, <3>3 DEF Links
  <2>2. ASSUME NEW l \in Links(N, r)
        PROVE  /\ Append(r, l) \in N /\ Len(Append(r, l)) > Len(r)
               /\ SubSeq(Append(r, l), 1, Len(r)) = r
    BY <1>0, OneMore DEF Links
  <2> QED
    BY <2>1, <2>2 DEF HasLinks
<1>5. Hits(N, w) = {q \in N : \E j \in Reached(w) \ {Len(w)} :
                      /\ w[j + 1] = Hash /\ Len(q) >= j
                      /\ SubSeq(q, 1, j) \in Walks(N, w, j)
                      /\ HasLinks(N, SubSeq(q, 1, j))}
  BY <1>2 DEF Hits
<1>6. ASSUME NEW q \in Under(Hits(N, w), r) PROVE q \in Under(N, r) /\ HasLinks(N, r)
  <2>1. PICK j \in Reached(w) \ {Len(w)} :
          w[j + 1] = Hash /\ HasLinks(N, SubSeq(q, 1, j))
    BY <1>5 DEF Under
  <2>2. j \in 0 .. Len(r) /\ j + 1 \notin 1 .. Len(r)
    BY <1>0, <1>1, <2>1
  <2>3. j = Len(r)
    BY <1>0, <2>2
  <2> QED
    BY <1>5, <2>1, <2>3 DEF Under
<1>7. ASSUME NEW q \in Under(N, r), HasLinks(N, r) PROVE q \in Under(Hits(N, w), r)
  <2>1. q \in N /\ Len(q) >= Len(r) /\ SubSeq(q, 1, Len(r)) = r
    BY DEF Under
  <2>2. Len(r) \in Reached(w) \ {Len(w)}
    BY <1>0
  <2>3. q \in Hits(N, w)
    BY <1>0, <1>5, <1>7, <2>1, <2>2
  <2> QED
    BY <2>1, <2>3 DEF Under
<1> QED
  BY <1>3, <1>4, <1>6, <1>7

\* A child that is there is where "+" leads to.
LEMMA ChildWalk ==
  ASSUME NEW N, NEW w \in Seq(Word \cup {Plus, Hash}), NEW r, At(N, w, r),
         w[Len(r) + 1] = Plus, NEW l \in Links(N, r)
  PROVE  Append(r, l) \in Walks(N, w, Len(r) + 1)
<1> DEFINE i == Len(r) + 1
           s == Append(r, l)
<1>0. Len(r) \in Nat /\ r \in Seq(Word) /\ l \in Word /\ s \in N
  BY AtTypes DEF Links
<1>1. /\ s \in Seq(Word) /\ Len(s) = i /\ SubSeq(s, 1, Len(r)) = r
  BY <1>0, OneMore
<1>2. Len(r) \in 0 .. Len(s) /\ Len(s) \in 0 .. Len(s)
  BY <1>0, <1>1
<1>3. SubSeq(s, 1, i) = s /\ \A m \in 0 .. Len(r) : SubSeq(s, 1, m) = SubSeq(r, 1, m)
  BY <1>1, <1>2, Prefix
<1>4. \A m \in 1 .. Len(r) : s[m] = r[m]
  BY <1>1, <1>2, Prefix
<1>5. \A m \in 1 .. Len(r) : IF w[m] = Plus THEN SubSeq(r, 1, m) \in N
                             ELSE r[m] = w[m]
  BY DEF At, Walks
<1>6. ASSUME NEW m \in 1 .. i
      PROVE  IF w[m] = Plus THEN SubSeq(s, 1, m) \in N ELSE s[m] = w[m]
  <2>1. CASE m = i
    BY <1>0, <1>3, <2>1
  <2>2. CASE m # i
    <3>1. m \in 1 .. Len(r) /\ m \in 0 .. Len(r)
      BY <1>0, <2>2
    <3> QED
      BY <1>3, <1>4, <1>5, <3>1
  <2> QED
    BY <2>1, <2>2
<1>7. s \in [1 .. i -> Word]
  BY <1>1, LenProperties
<1> QED
  BY <1>6, <1>7 DEF Walks

\* The fields of it
LEMMA PartFields ==
  \A N, w, r : /\ Part(N, w, r).nodes = N \cup Under(Created(N, w), r)
               /\ Part(N, w, r).vec = Under(Hits(N, w), r)
               /\ Part(N, w, r).twice = {}
  BY DEF Part

\* One call of getNode is right when the calls it makes are.
LEMMA GetStep ==
  ASSUME NEW w \in Seq(Word \cup {Plus, Hash}), NEW n \in 0 .. Len(w), NEW next,
         NEW N, NEW r, At(N, w, r), Len(r) = Len(w) - n,
         \A M, s : n > 0 /\ At(M, w, s) /\ Len(s) = Len(w) - (n - 1)
                     => next[M][s] = Part(M, w, s)
  PROVE  GetNodeStep(w, n, next, N, r) = Part(N, w, r)
<1> DEFINE i == Len(r) + 1
           call == [l \in Links(N, r) |-> next[N][Append(r, l)]]
<1>0. /\ Len(r) \in Nat /\ r \in Seq(Word) /\ N \subseteq Seq(Word) /\ Len(w) \in Nat
      /\ r \in N /\ Tree(N) /\ Bounded(N) /\ i = Len(w) - n + 1 /\ i \in Nat
      /\ n \in Nat /\ n - 1 \in Int
  BY AtTypes DEF At
<1>1. CASE n = 0
  <2>1. GetNodeStep(w, n, next, N, r) = [nodes |-> N, vec |-> {r}, twice |-> {}]
    BY <1>1 DEF GetNodeStep
  <2>2. N \cup Under(Created(N, w), r) = N /\ Under(Hits(N, w), r) = {r}
    BY <1>0, <1>1, AtEnd
  <2> QED
    BY <2>1, <2>2 DEF Part
<1>2. CASE n # 0 /\ w[i] \notin {Plus, Hash}
  <2> DEFINE s == Append(r, w[i])
  <2>1. GetNodeStep(w, n, next, N, r) = next[N \cup {s}][s]
    BY <1>0, <1>2 DEF GetNodeStep
  <2>2. Len(r) < Len(w)
    BY <1>0, <1>2
  <2>3. /\ At(N \cup {s}, w, s)
        /\ Created(N \cup {s}, w) = Created(N, w) /\ Hits(N \cup {s}, w) = Hits(N, w)
    BY <1>2, <2>2, LevelAdded
  <2>4. Onward(N, w, r) = {w[i]} /\ w[i] \in Word /\ i \in Reached(w)
    BY <1>2, <2>2, OnwardWords DEF Onward
  <2>5. Len(s) = i
    BY <1>0, <2>4, OneMore
  <2>6. next[N \cup {s}][s] = Part(N \cup {s}, w, s)
    <3>1. n > 0 /\ Len(s) = Len(w) - (n - 1)
      BY <1>0, <1>2, <2>5
    <3> QED
      BY <2>3, <3>1
  <2>7. N \cup Under(Created(N, w), r) = N \cup Under(Created(N, w), s)
    BY <1>2, <2>2, <2>4, MadeOn, BelowOne
  <2>8. Under(Hits(N, w), r) = Under(Hits(N, w), s)
    BY <1>2, <2>2, <2>4, HitsOn, BelowOne
  <2>9. s \in Under(Created(N, w), s)
    <3>1. s \in Walks(N \cup {s}, w, i) /\ s \in Seq(Word)
      BY <1>0, <2>3, <2>4, <2>5, OneMore DEF At
    <3>2. s \in Created(N, w)
      BY <2>3, <2>4, <3>1 DEF Created
    <3>3. Len(s) \in 0 .. Len(s) /\ SubSeq(s, 1, Len(s)) = s
      BY <1>0, <2>5, <3>1, Prefix
    <3>4. Len(s) \in Nat /\ Len(s) >= Len(s)
      BY <1>0, <2>5
    <3> QED
      BY <3>2, <3>3, <3>4 DEF Under
  <2>10. (N \cup {s}) \cup Under(Created(N, w), s) = N \cup Under(Created(N, w), r)
    BY <2>7, <2>9
  <2> QED
    BY <2>1, <2>3, <2>6, <2>8, <2>10 DEF Part
<1>3. CASE n # 0 /\ w[i] = Plus /\ Links(N, r) = {}
  <2>1. GetNodeStep(w, n, next, N, r) = [nodes |-> N, vec |-> {}, twice |-> {}]
    BY <1>0, <1>3 DEF GetNodeStep
  <2>2. Len(r) < Len(w) /\ w[i] # Hash /\ Onward(N, w, r) = {}
    BY <1>0, <1>3, TreeAssumption DEF Onward
  <2>3. N \cup Under(Created(N, w), r) = N
    <3>1. N \cup Under(Created(N, w), r) =
            N \cup Below(Created(N, w), r, Onward(N, w, r))
      BY <2>2, MadeOn
    <3>2. Below(Created(N, w), r, Onward(N, w, r)) = {}
      BY <2>2, BelowNone
    <3> QED
      BY <3>1, <3>2
  <2>4. Under(Hits(N, w), r) = {}
    BY <2>2, HitsOn, BelowNone
  <2> QED
    BY <2>1, <2>3, <2>4 DEF Part
<1>4. CASE n # 0 /\ w[i] = Plus /\ Links(N, r) # {}
  <2>1. GetNodeStep(w, n, next, N, r) =
          [nodes |-> UNION {call[l].nodes : l \in DOMAIN call},
           vec |-> Appended(call).vec, twice |-> Appended(call).twice]
    BY <1>0, <1>4 DEF GetNodeStep
  <2>2. Len(r) < Len(w) /\ w[i] # Hash /\ Onward(N, w, r) = Links(N, r)
    BY <1>0, <1>4, TreeAssumption DEF Onward
  <2>3. ASSUME NEW l \in Links(N, r)
        PROVE  next[N][Append(r, l)] = Part(N, w, Append(r, l))
    <3>1. /\ l \in Word /\ Append(r, l) \in N /\ Len(Append(r, l)) = i
          /\ SubSeq(Append(r, l), 1, Len(r)) = r /\ Append(r, l) \in Seq(Word)
      BY <1>0, OneMore DEF Links
    <3>2. i \in Reached(w)
      BY <2>2, OnwardWords
    <3>3. Append(r, l) \in Walks(N, w, i)
      BY <1>0, <1>4, <3>1, ChildWalk
    <3>4. At(N, w, Append(r, l))
      BY <1>0, <3>1, <3>2, <3>3 DEF At
    <3>5. n > 0 /\ Len(Append(r, l)) = Len(w) - (n - 1)
      BY <1>0, <1>4, <3>1
    <3> QED
      BY <3>4, <3>5
  <2>4. \A l \in Links(N, r) : call[l] = Part(N, w, Append(r, l))
    BY <2>3
  <2>5. DOMAIN call = Links(N, r)
    OBVIOUS
  <2> HIDE DEF call
  <2>6. \A l \in DOMAIN call :
          /\ call[l].nodes = N \cup Under(Created(N, w), Append(r, l))
          /\ call[l].vec = Under(Hits(N, w), Append(r, l)) /\ call[l].twice = {}
    BY <2>4, <2>5, PartFields
  <2>7. Links(N, r) \subseteq Word /\ Hits(N, w) \subseteq Seq(Word)
    BY <1>0, HitsMatch DEF Links
  <2>8. \A k, l \in DOMAIN call : \A q : q \in call[k].vec /\ q \in call[l].vec => k = l
    BY <1>0, <2>5, <2>6, <2>7, UnderOne
  <2>9. Appended(call) = [vec |-> UNION {call[l].vec : l \in DOMAIN call}, twice |-> {}]
    BY <2>6, <2>8, AppendedOnce
  <2>10. UNION {call[l].nodes : l \in DOMAIN call} = N \cup Under(Created(N, w), r)
    <3>1. UNION {call[l].nodes : l \in DOMAIN call} =
            N \cup Below(Created(N, w), r, Onward(N, w, r))
      BY <1>4, <2>2, <2>5, <2>6 DEF Below
    <3> QED
      BY <2>2, <3>1, MadeOn
  <2>11. UNION {call[l].vec : l \in DOMAIN call} = Under(Hits(N, w), r)
    <3>1. UNION {call[l].vec : l \in DOMAIN call} =
            Below(Hits(N, w), r, Onward(N, w, r))
      BY <2>2, <2>5, <2>6 DEF Below
    <3> QED
      BY <2>2, <3>1, HitsOn
  <2>12. Appended(call).vec = Under(Hits(N, w), r) /\ Appended(call).twice = {}
    BY <2>9, <2>11
  <2> QED
    BY <2>1, <2>10, <2>12 DEF Part
<1>5. CASE n # 0 /\ w[i] = Hash /\ Links(N, r) = {}
  <2>1. GetNodeStep(w, n, next, N, r) = [nodes |-> N, vec |-> {}, twice |-> {}]
    BY <1>0, <1>5 DEF GetNodeStep
  <2>2. Len(r) < Len(w)
    BY <1>0, <1>5
  <2>3. N \cup Under(Created(N, w), r) = N /\ Under(Hits(N, w), r) = {}
    BY <1>5, <2>2, AtHash
  <2> QED
    BY <2>1, <2>3 DEF Part
<1>6. CASE n # 0 /\ w[i] = Hash /\ Links(N, r) # {}
  <2>1. GetNodeStep(w, n, next, N, r) =
          [nodes |-> N, vec |-> handleWildCard(N)[r].vec,
           twice |-> handleWildCard(N)[r].twice]
    BY <1>0, <1>6, TreeAssumption DEF GetNodeStep
  <2>2. Len(r) < Len(w)
    BY <1>0, <1>6
  <2>3. N \cup Under(Created(N, w), r) = N /\ Under(Hits(N, w), r) = Under(N, r)
    BY <1>6, <2>2, AtHash
  <2>4. handleWildCard(N)[r].vec = Under(N, r) /\ handleWildCard(N)[r].twice = {}
    BY <1>0, WildCard, WholeFields
  <2> QED
    BY <2>1, <2>3, <2>4 DEF Part
<1> QED
  BY <1>1, <1>2, <1>3, <1>4, <1>5, <1>6

\* getNode makes the nodes Created says and returns each node of Hits once.
LEMMA GetNodeRight ==
  ASSUME NEW N, Tree(N), Bounded(N), NEW w \in Seq(Word \cup {Plus, Hash})
  PROVE  getNode(N, w) =
           [nodes |-> Created(N, w), vec |-> Hits(N, w), twice |-> {}]
<1> DEFINE g == CHOOSE f : GetEquation(w, f)
           Right(n) == \A M, s : At(M, w, s) /\ Len(s) = Len(w) - n
                                   => g[n][M][s] = Part(M, w, s)
           T == {n \in 0 .. Len(w) : ~Right(n)}
<1>0. Len(w) \in Nat /\ N \subseteq Seq(Word) /\ <<>> \in N
  BY DEF Tree
<1>1. GetEquation(w, g)
  BY <1>0, GetExists
<1> HIDE DEF g
<1>2. \A n \in 0 .. Len(w) : g[n] = GetAll(w, n, g[n - 1])
  BY <1>1 DEF GetEquation
<1>3. ASSUME NEW n \in 0 .. Len(w), n > 0 => Right(n - 1) PROVE Right(n)
  <2> SUFFICES ASSUME NEW M, NEW s, At(M, w, s), Len(s) = Len(w) - n
               PROVE  g[n][M][s] = Part(M, w, s)
    OBVIOUS
  <2>1. M \in SUBSET Seq(Word) /\ s \in Seq(Word)
    BY AtTypes
  <2>2. g[n][M][s] = GetNodeStep(w, n, g[n - 1], M, s)
    BY <1>2, <2>1, GetAllAt
  <2>3. GetNodeStep(w, n, g[n - 1], M, s) = Part(M, w, s)
    BY <1>3, GetStep
  <2> QED
    BY <2>2, <2>3
<1> HIDE DEF Right
<1>4. T = {}
  <2> SUFFICES ASSUME T # {} PROVE FALSE
    OBVIOUS
  <2>1. PICK n \in T : \A m \in T : n <= m
    <3>1. T \in SUBSET Nat
      BY <1>0
    <3> HIDE DEF T
    <3> QED
      BY <3>1, LeastNat
  <2>2. n > 0 => n - 1 \in 0 .. Len(w) /\ n - 1 \notin T
    BY <1>0, <2>1
  <2>3. n > 0 => Right(n - 1)
    BY <2>2
  <2> QED
    BY <1>3, <2>1, <2>3
<1>5. At(N, w, <<>>) /\ Len(<<>>) = 0
  BY <1>0 DEF At, Reached, Walks
<1>6. g[Len(w)][N][<<>>] = Part(N, w, <<>>)
  <2>1. Right(Len(w))
    BY <1>0, <1>4
  <2> QED
    BY <1>0, <1>5, <2>1 DEF Right
<1>7. Created(N, w) \subseteq Seq(Word) /\ Hits(N, w) \subseteq Seq(Word)
      /\ N \subseteq Created(N, w)
  BY <1>0, CreatedTree, HitsMatch, HitsCreated DEF Tree
<1>8. \A X : X \subseteq Seq(Word) => Under(X, <<>>) = X
  <2>1. ASSUME NEW X, X \subseteq Seq(Word), NEW q \in X
        PROVE  Len(q) >= Len(<<>>) /\ SubSeq(q, 1, Len(<<>>)) = <<>>
    BY <1>5, <2>1, SubSeqEmpty
  <2> QED
    BY <2>1 DEF Under
<1>9. Part(N, w, <<>>) = [nodes |-> Created(N, w), vec |-> Hits(N, w), twice |-> {}]
  BY <1>7, <1>8 DEF Part
<1> QED
  BY <1>6, <1>9, GetChosen DEF g

\* Some number bounds the paths of the tree: a walk is no longer than its filter.
LEMMA BoundedStep ==
  ASSUME TypeOK, Bounded(nodes), [Next]_vars
  PROVE  Bounded(nodes')
<1>1. PICK d \in Nat : \A p \in nodes : Len(p) <= d
  BY DEF Bounded
<1>2. ASSUME NEW w \in Seq(Word \cup {Plus, Hash}) PROVE Bounded(Created(nodes, w))
  <2>1. Len(w) \in Nat /\ d + Len(w) \in Nat /\ \A p \in nodes : Len(p) \in Nat
    BY DEF TypeOK
  <2>2. \A j \in Reached(w) : \A p \in Walks(nodes, w, j) : Len(p) = j
    BY <2>1, WalkType DEF Reached
  <2>3. \A j \in Reached(w) : j \in Nat /\ j <= Len(w)
    BY <2>1 DEF Reached
  <2>4. \A p \in Created(nodes, w) : Len(p) <= d + Len(w)
    BY <1>1, <2>1, <2>2, <2>3 DEF Created
  <2> QED
    BY <2>1, <2>4 DEF Bounded
<1>3. \A f \in Filter \cup Topic : f \in Seq(Word \cup {Plus, Hash})
  BY TreeAssumption
<1>4. nodes' = nodes \/ \E f \in Filter \cup Topic : nodes' = Created(nodes, f)
  BY DEF Next, subscribe, unsubscribe, match, vars
<1> QED
  BY <1>2, <1>3, <1>4

\* In every tree the broker can build, the code's walk and the closed form that
\* the other theorems about TopicTree use are the same, for every filter and topic.
THEOREM WalkIsClosedForm == Spec => []GetNodeAgrees
<1>1. Init => TypeOK /\ Bounded(nodes)
  <2> SUFFICES ASSUME Init PROVE TypeOK /\ Bounded(nodes)
    OBVIOUS
  <2>1. nodes = {<<>>}
    BY DEF Init
  <2>2. 0 \in Nat /\ \A p \in nodes : Len(p) <= 0
    BY <2>1
  <2> QED
    BY <2>2 DEF Init, TypeOK, Subscription, Bounded
<1>2. TypeOK /\ Bounded(nodes) /\ [Next]_vars => (TypeOK /\ Bounded(nodes))'
  BY TreeTypeStep, BoundedStep
<1>3. TypeOK /\ Bounded(nodes) => GetNodeAgrees
  <2>1. TypeOK => Tree(nodes)
    BY DEF TypeOK, Tree
  <2> QED
    BY <2>1, GetNodeRight, TreeAssumption DEF GetNodeAgrees
<1> QED
  BY <1>1, <1>2, <1>3, PTL DEF Spec

-----------------------------------------------------------------------------
(***************************************************************************)
(* split.  It puts a string back together level by level, and a text is    *)
(* that of one node only.                                                  *)
(***************************************************************************)

\* What split keeps of a string: not the first character, nor a slash at the end
Kept(str) ==
  SubSeq(str, 2, IF str[Len(str)] = Slash THEN Len(str) - 1 ELSE Len(str))

\* No slash in a level
Clear(x) == \A k \in 1 .. Len(x) : x[k] # Slash

\* A level and one more character that is not a slash
LEMMA ClearAppend ==
  ASSUME NEW x \in Seq(Char), Clear(x), NEW c \in Char, c # Slash
  PROVE  Clear(Append(x, c)) /\ Append(x, c) \in Seq(Char)
<1>1. /\ Append(x, c) \in Seq(Char) /\ Len(Append(x, c)) = Len(x) + 1
      /\ \A k \in 1 .. Len(x) : Append(x, c)[k] = x[k]
      /\ Append(x, c)[Len(x) + 1] = c
  BY AppendProperties
<1>2. Len(x) \in Nat
  OBVIOUS
<1> QED
  BY <1>1, <1>2 DEF Clear

\* Two levels behind a slash
Behind(a, x) == (a \o <<Slash>>) \o x

\* Its characters
LEMMA BehindAt ==
  ASSUME NEW a \in Seq(Char), NEW x \in Seq(Char)
  PROVE  /\ Behind(a, x) \in Seq(Char) /\ Len(Behind(a, x)) = Len(a) + 1 + Len(x)
         /\ \A k \in 1 .. Len(a) : Behind(a, x)[k] = a[k]
         /\ Behind(a, x)[Len(a) + 1] = Slash
         /\ \A k \in 1 .. Len(x) : Behind(a, x)[Len(a) + 1 + k] = x[k]
<1> DEFINE s == a \o <<Slash>>
<1>0. /\ <<Slash>> \in Seq(Char) /\ Len(<<Slash>>) = 1 /\ <<Slash>>[1] = Slash
      /\ Len(a) \in Nat /\ Len(x) \in Nat
  BY WalkAssumption
<1>1. /\ s \in Seq(Char) /\ Len(s) = Len(a) + 1
      /\ \A k \in 1 .. Len(a) + 1 : s[k] = IF k <= Len(a) THEN a[k]
                                           ELSE <<Slash>>[k - Len(a)]
  BY <1>0, ConcatProperties
<1>2. \A k \in 1 .. Len(a) : s[k] = a[k]
  BY <1>0, <1>1
<1>3. s[Len(a) + 1] = Slash
  BY <1>0, <1>1
<1>9. s \in Seq(Char)
  BY <1>1
<1> HIDE DEF s
<1>4. /\ s \o x \in Seq(Char) /\ Len(s \o x) = Len(s) + Len(x)
      /\ \A k \in 1 .. Len(s) + Len(x) :
           (s \o x)[k] = IF k <= Len(s) THEN s[k] ELSE x[k - Len(s)]
  BY <1>9, ConcatProperties
<1>5. Behind(a, x) = s \o x
  BY DEF Behind, s
<1>6. \A k \in 1 .. Len(a) : (s \o x)[k] = a[k]
  BY <1>0, <1>1, <1>2, <1>4
<1>7. (s \o x)[Len(a) + 1] = Slash
  BY <1>0, <1>1, <1>3, <1>4
<1>8. \A k \in 1 .. Len(x) : (s \o x)[Len(a) + 1 + k] = x[k]
  <2> TAKE k \in 1 .. Len(x)
  <2>1. Len(s) + k \in 1 .. Len(s) + Len(x) /\ ~(Len(s) + k <= Len(s))
        /\ Len(s) + k - Len(s) = k
    BY <1>0, <1>1
  <2> QED
    BY <1>1, <1>4, <2>1
<1> QED
  BY <1>1, <1>4, <1>5, <1>6, <1>7, <1>8

\* The last slash of a text tells where the last level begins.
LEMMA LastSlash ==
  ASSUME NEW a \in Seq(Char), NEW x \in Seq(Char), Clear(x),
         NEW b \in Seq(Char), NEW y \in Seq(Char), Clear(y),
         Behind(a, x) = Behind(b, y)
  PROVE  a = b /\ x = y
<1> DEFINE t == Behind(a, x)
<1>0. Len(a) \in Nat /\ Len(x) \in Nat /\ Len(b) \in Nat /\ Len(y) \in Nat
  OBVIOUS
<1>1. /\ Len(t) = Len(a) + 1 + Len(x)
      /\ \A k \in 1 .. Len(a) : t[k] = a[k]
      /\ t[Len(a) + 1] = Slash
      /\ \A k \in 1 .. Len(x) : t[Len(a) + 1 + k] = x[k]
  BY BehindAt
<1>8. t = Behind(b, y)
  OBVIOUS
<1> HIDE DEF t
<1>2. /\ Len(t) = Len(b) + 1 + Len(y)
      /\ \A k \in 1 .. Len(b) : t[k] = b[k]
      /\ t[Len(b) + 1] = Slash
      /\ \A k \in 1 .. Len(y) : t[Len(b) + 1 + k] = y[k]
  BY <1>8, BehindAt
<1>3. ~(Len(a) < Len(b))
  <2> SUFFICES ASSUME Len(a) < Len(b) PROVE FALSE
    OBVIOUS
  <2> DEFINE k == Len(b) - Len(a)
  <2>1. k \in 1 .. Len(x) /\ Len(a) + 1 + k = Len(b) + 1
    BY <1>0, <1>1, <1>2
  <2> HIDE DEF k
  <2>2. t[Len(a) + 1 + k] = x[k] /\ x[k] # Slash
    BY <1>1, <1>2, <2>1 DEF Clear
  <2> QED
    BY <1>1, <1>2, <2>1, <2>2
<1>4. ~(Len(b) < Len(a))
  <2> SUFFICES ASSUME Len(b) < Len(a) PROVE FALSE
    OBVIOUS
  <2> DEFINE k == Len(a) - Len(b)
  <2>1. k \in 1 .. Len(y) /\ Len(b) + 1 + k = Len(a) + 1
    BY <1>0, <1>1, <1>2
  <2> HIDE DEF k
  <2>2. t[Len(b) + 1 + k] = y[k] /\ y[k] # Slash
    BY <1>1, <1>2, <2>1 DEF Clear
  <2> QED
    BY <1>1, <1>2, <2>1, <2>2
<1>5. Len(a) = Len(b) /\ Len(x) = Len(y)
  BY <1>0, <1>1, <1>2, <1>3, <1>4
<1>6. a = b
  BY <1>1, <1>2, <1>5, SeqEqual
<1>7. x = y
  BY <1>1, <1>2, <1>5, SeqEqual
<1> QED
  BY <1>6, <1>7

-----------------------------------------------------------------------------
(***************************************************************************)
(* The text of a node.                                                     *)
(***************************************************************************)

\* What Text is defined by, up to level d
TextBody(n, f, k) == IF k = 2 THEN n[2] ELSE f[k - 1] \o <<Slash>> \o n[k]

TextTo(n, d, f) == f = [k \in 2 .. d |-> TextBody(n, f, k)]

\* Text is the value of such a function at the last level.
LEMMA TextChosen ==
  ASSUME NEW n PROVE Text(n) = (CHOOSE f : TextTo(n, Len(n), f))[Len(n)]
  BY DEF Text, TextTo, TextBody

\* Its value at a level
LEMMA TextAt ==
  ASSUME NEW n, NEW d, NEW f, TextTo(n, d, f), NEW k \in 2 .. d
  PROVE  f[k] = TextBody(n, f, k)
  BY DEF TextTo

\* There is such a function.
LEMMA TextExists ==
  ASSUME NEW n, NEW d \in Nat
  PROVE  \E f : TextTo(n, d, f)
<1> DEFINE T == {k \in Nat : ~ \E f : TextTo(n, k, f)}
<1> SUFFICES ASSUME T # {} PROVE FALSE
  OBVIOUS
<1>1. PICK k \in T : \A j \in T : k <= j
  BY LeastNat
<1>2. CASE k <= 1
  <2> DEFINE f == [j \in {} |-> <<>>]
  <2>1. 2 .. k = {}
    BY <1>2
  <2>2. TextTo(n, k, f)
    BY <2>1 DEF TextTo
  <2> QED
    BY <2>2
<1>3. CASE k >= 2
  <2>1. k - 1 \in Nat /\ k - 1 \notin T
    BY <1>1, <1>3
  <2>2. PICK f : TextTo(n, k - 1, f)
    BY <2>1
  <2> DEFINE g == [j \in 2 .. k |-> IF j < k THEN f[j] ELSE TextBody(n, f, k)]
  <2>3. \A j \in 2 .. k : g[j] = IF j < k THEN f[j] ELSE TextBody(n, f, k)
    OBVIOUS
  <2>4. DOMAIN g = 2 .. k /\ g = [j \in 2 .. k |-> g[j]]
    OBVIOUS
  <2> HIDE DEF g
  <2>5. \A j \in 2 .. k : TextBody(n, g, j) = TextBody(n, f, j)
    <3> TAKE j \in 2 .. k
    <3>1. j # 2 => j - 1 \in 2 .. k /\ j - 1 < k
      BY <1>3
    <3> QED
      BY <2>3, <3>1 DEF TextBody
  <2>6. \A j \in 2 .. k : g[j] = TextBody(n, g, j)
    <3> TAKE j \in 2 .. k
    <3>1. j < k => j \in 2 .. k - 1
      OBVIOUS
    <3>2. j < k => f[j] = TextBody(n, f, j)
      BY <2>2, <3>1, TextAt
    <3>3. ~(j < k) => j = k
      OBVIOUS
    <3> QED
      BY <2>3, <2>5, <3>2, <3>3
  <2>7. TextTo(n, k, g)
    BY <2>4, <2>6 DEF TextTo
  <2> QED
    BY <2>7
<1> QED
  BY <1>2, <1>3

\* Nodes that begin alike have texts that begin alike.
Alike(n, m, d) == \A k \in 2 .. d : n[k] = m[k]

LEMMA TextAgree ==
  ASSUME NEW n, NEW m, NEW d \in Nat, NEW e \in Nat, d <= e, Alike(n, m, d),
         NEW f, TextTo(n, d, f), NEW g, TextTo(m, e, g), NEW j \in 2 .. d
  PROVE  f[j] = g[j]
<1> DEFINE T == {k \in 2 .. d : f[k] # g[k]}
<1> SUFFICES ASSUME T # {} PROVE FALSE
  OBVIOUS
<1>0. T \in SUBSET Nat
  OBVIOUS
<1>1. PICK k \in T : \A i \in T : k <= i
  BY <1>0, LeastNat
<1>2. k \in 2 .. d /\ k \in 2 .. e
  OBVIOUS
<1>3. f[k] = TextBody(n, f, k) /\ g[k] = TextBody(m, g, k)
  BY <1>2, TextAt
<1>4. CASE k = 2
  BY <1>1, <1>2, <1>3, <1>4 DEF TextBody, Alike
<1>5. CASE k # 2
  <2>1. k - 1 \in 2 .. d /\ k - 1 \notin T
    BY <1>1, <1>2, <1>5
  <2>2. f[k - 1] = g[k - 1]
    BY <2>1
  <2> QED
    BY <1>1, <1>2, <1>3, <1>5, <2>2 DEF TextBody, Alike
<1> QED
  BY <1>4, <1>5

\* A node of two levels, and a node of more
LEMMA TextOfTwo ==
  ASSUME NEW n, Len(n) = 2 PROVE Text(n) = n[2]
<1> DEFINE f == CHOOSE h : TextTo(n, Len(n), h)
<1>1. TextTo(n, Len(n), f)
  BY TextExists
<1> HIDE DEF f
<1>2. f[2] = TextBody(n, f, 2)
  BY <1>1, TextAt
<1> QED
  BY <1>2, TextChosen DEF TextBody, f

\* A node of one level more
LEMMA TextOfMore ==
  ASSUME NEW n \in Seq(Seq(Char)), Len(n) >= 2, NEW x \in Seq(Char)
  PROVE  Text(Append(n, x)) = Behind(Text(n), x)
<1> DEFINE m == Append(n, x)
           f == CHOOSE h : TextTo(n, Len(n), h)
           g == CHOOSE h : TextTo(m, Len(m), h)
<1>0. /\ Len(n) \in Nat /\ Len(m) = Len(n) + 1 /\ m[Len(n) + 1] = x
      /\ \A k \in 1 .. Len(n) : m[k] = n[k]
  BY AppendProperties
<1>1. TextTo(n, Len(n), f)
  BY <1>0, TextExists
<1>2. TextTo(m, Len(m), g)
  <2>1. Len(m) \in Nat
    BY <1>0
  <2> HIDE DEF m
  <2> QED
    BY <2>1, TextExists
<1>3. Text(n) = f[Len(n)] /\ Text(m) = g[Len(m)]
  BY TextChosen
<1> HIDE DEF f, g, m
<1>4. f[Len(n)] = g[Len(n)]
  <2>1. /\ Len(n) \in Nat /\ Len(n) \in 2 .. Len(n)
        /\ Len(m) \in Nat /\ Len(n) <= Len(m)
    BY <1>0
  <2>2. Alike(n, m, Len(n))
    BY <1>0 DEF Alike
  <2> QED
    BY <1>1, <1>2, <2>1, <2>2, TextAgree
<1>5. g[Len(m)] = TextBody(m, g, Len(m))
  <2>1. Len(m) \in 2 .. Len(m)
    BY <1>0
  <2> QED
    BY <1>2, <2>1, TextAt
<1>6. Len(m) # 2 /\ Len(m) - 1 = Len(n)
  BY <1>0
<1> QED
  BY <1>0, <1>3, <1>4, <1>5, <1>6 DEF TextBody, Behind, m

\* Lengths
LEMMA TwoOrMore ==
  ASSUME NEW k \in Nat, k >= 2
  PROVE  k \in 1 .. k /\ k # 1 /\ (k # 2 => k >= 3)
  OBVIOUS

LEMMA ThreeIsTwo == ASSUME NEW k \in Nat, k >= 3 PROVE k >= 2
  OBVIOUS

LEMMA OneOrMore ==
  ASSUME NEW k \in Nat, k >= 1
  PROVE  /\ k # 1 => k >= 2
         /\ \A j \in 1 .. k + 1 : j \in 1 .. k \/ (j = k + 1 /\ j # 1)
  OBVIOUS

\* A node is its last level behind the others.
LEMMA Front ==
  ASSUME NEW n \in Seq(Seq(Char)), Len(n) >= 3
  PROVE  \E m \in Seq(Seq(Char)), x \in Seq(Char) :
           /\ n = Append(m, x) /\ Len(m) >= 2 /\ Len(m) = Len(n) - 1
           /\ Spelt(n) => Spelt(m) /\ Clear(x)
<1> DEFINE m == SubSeq(n, 1, Len(n) - 1)
           x == n[Len(n)]
<1>5. Len(n) \in Nat
  OBVIOUS
<1>0. Len(n) \in Nat /\ Len(n) \in 1 .. Len(n) /\ Len(n) # 1
  BY <1>5, ThreeIsTwo, TwoOrMore, Zenon
<1>1. x \in Seq(Char)
  BY <1>0, ElementOfSeq
<1>2. /\ m \in Seq(Seq(Char)) /\ Len(m) = Len(n) - 1 /\ Len(m) \in Nat
      /\ \A k \in 1 .. Len(m) : m[k] = n[k]
  BY <1>0
<1>3. n = Append(m, x)
  <2>1. /\ Append(m, x) \in Seq(Seq(Char)) /\ Len(Append(m, x)) = Len(n)
        /\ \A k \in 1 .. Len(n) - 1 : Append(m, x)[k] = n[k]
        /\ Append(m, x)[Len(n)] = x
    BY <1>0, <1>1, <1>2, AppendProperties
  <2> HIDE DEF m
  <2>2. ASSUME NEW k \in 1 .. Len(n) PROVE n[k] = Append(m, x)[k]
    <3>1. k \in 1 .. Len(n) - 1 \/ k = Len(n)
      BY <1>0
    <3> QED
      BY <2>1, <3>1
  <2> QED
    BY <2>1, <2>2, SeqEqual
<1>4. ASSUME Spelt(n) PROVE Spelt(m) /\ Clear(x)
  <2>1. Clear(x)
    BY <1>0, <1>4 DEF Spelt, Clear
  <2>2. Spelt(m)
    <3> HIDE DEF m
    <3>1. \A k \in 1 .. Len(m) : k \in 1 .. Len(n)
      BY <1>0, <1>2
    <3> QED
      BY <1>2, <1>4, <3>1 DEF Spelt
  <2> QED
    BY <2>1, <2>2
<1>6. Len(m) >= 2
  BY <1>0, <1>2
<1> HIDE DEF m, x
<1> QED
  BY <1>1, <1>2, <1>3, <1>4, <1>6

\* A text is a string.
LEMMA TextType ==
  ASSUME NEW n \in Seq(Seq(Char)), Len(n) >= 2
  PROVE  Text(n) \in Seq(Char)
<1> DEFINE Bad(k) == \E m \in Seq(Seq(Char)) :
                       Len(m) = k /\ k >= 2 /\ Text(m) \notin Seq(Char)
           T == {k \in Nat : Bad(k)}
<1> SUFFICES ASSUME T # {} PROVE FALSE
  <2>1. Len(n) \in Nat
    OBVIOUS
  <2> QED
    BY <2>1
<1>1. PICK k \in T : \A j \in T : k <= j
  BY LeastNat
<1>2. PICK m \in Seq(Seq(Char)) : Len(m) = k /\ k >= 2 /\ Text(m) \notin Seq(Char)
  BY <1>1
<1>3. CASE k = 2
  <2>1. Text(m) = m[2] /\ m[2] \in Seq(Char)
    BY <1>2, <1>3, TextOfTwo, ElementOfSeq
  <2> QED
    BY <1>2, <2>1
<1>4. CASE k # 2
  <2>1. PICK l \in Seq(Seq(Char)), x \in Seq(Char) :
          m = Append(l, x) /\ Len(l) >= 2 /\ Len(l) = Len(m) - 1
    <3>1. Len(m) >= 3
      BY <1>2, <1>4
    <3> QED
      BY <3>1, Front
  <2>2. k - 1 \in Nat /\ k - 1 \notin T
    BY <1>1, <1>2
  <2>3. Text(l) \in Seq(Char)
    BY <1>2, <2>1, <2>2
  <2> QED
    BY <1>2, <2>1, <2>3, TextOfMore, BehindAt
<1> QED
  BY <1>3, <1>4

\* The text of a node has a slash if it has more than one level below "/".
LEMMA SlashTells ==
  ASSUME NEW n \in Seq(Seq(Char)), Spelt(n), Len(n) >= 2
  PROVE  Clear(Text(n)) <=> Len(n) = 2
<1>0. Len(n) \in Nat
  OBVIOUS
<1>1. CASE Len(n) = 2
  <2>1. Text(n) = n[2] /\ Clear(n[2])
    BY <1>1, TextOfTwo DEF Spelt, Clear
  <2> QED
    BY <1>1, <2>1
<1>2. CASE Len(n) # 2
  <2>1. PICK m \in Seq(Seq(Char)), x \in Seq(Char) : n = Append(m, x) /\ Len(m) >= 2
    <3>1. Len(n) >= 3
      BY <1>0, <1>2, TwoOrMore, Zenon
    <3> QED
      BY <3>1, Front
  <2>2. Text(m) \in Seq(Char) /\ Text(n) = Behind(Text(m), x)
    BY <2>1, TextType, TextOfMore
  <2>3. /\ Len(Text(n)) = Len(Text(m)) + 1 + Len(x)
        /\ Text(n)[Len(Text(m)) + 1] = Slash
    <3>1. /\ Len(Behind(Text(m), x)) = Len(Text(m)) + 1 + Len(x)
          /\ Behind(Text(m), x)[Len(Text(m)) + 1] = Slash
      BY <2>2, BehindAt
    <3> QED
      BY <2>2, <3>1
  <2>4. Len(Text(m)) \in Nat /\ Len(x) \in Nat
    BY <2>2
  <2>5. Len(Text(m)) + 1 \in 1 .. Len(Text(n))
    BY <2>3, <2>4
  <2> QED
    BY <1>2, <2>3, <2>5 DEF Clear
<1> QED
  BY <1>1, <1>2

\* No two nodes have the same text.
SameText(n, m) ==
  /\ Spelt(n) /\ Len(n) >= 2 /\ Spelt(m) /\ Len(m) >= 2 /\ Text(n) = Text(m)

LEMMA TextInjective ==
  ASSUME NEW n \in Seq(Seq(Char)), NEW m \in Seq(Seq(Char)), SameText(n, m)
  PROVE  n = m
<1> DEFINE Bad(k) == \E p, q \in Seq(Seq(Char)) :
                       Len(p) = k /\ SameText(p, q) /\ p # q
           T == {k \in Nat : Bad(k)}
<1> SUFFICES ASSUME T # {} PROVE FALSE
  <2>1. Len(n) \in Nat
    OBVIOUS
  <2> QED
    BY <2>1
<1>1. PICK k \in T : \A j \in T : k <= j
  BY LeastNat
<1>2. PICK p \in Seq(Seq(Char)), q \in Seq(Seq(Char)) :
        Len(p) = k /\ SameText(p, q) /\ p # q
  BY <1>1
<1>3. /\ Spelt(p) /\ Len(p) >= 2 /\ Spelt(q) /\ Len(q) >= 2 /\ Text(p) = Text(q)
      /\ Len(p) \in Nat /\ Len(q) \in Nat
  BY <1>2 DEF SameText
<1>4. Len(p) = 2 <=> Len(q) = 2
  BY <1>3, SlashTells
<1>5. CASE Len(p) = 2
  <2>1. p[2] = q[2]
    BY <1>3, <1>4, <1>5, TextOfTwo
  <2>2. p[1] = <<Slash>> /\ q[1] = <<Slash>>
    BY <1>3 DEF Spelt
  <2>3. ASSUME NEW j \in 1 .. Len(p) PROVE p[j] = q[j]
    <3>1. j = 1 \/ j = 2
      BY <1>5
    <3> QED
      BY <2>1, <2>2, <3>1
  <2> QED
    BY <1>2, <1>4, <1>5, <2>3, SeqEqual
<1>6. CASE Len(p) # 2
  <2>1. PICK v \in Seq(Seq(Char)), x \in Seq(Char) :
          /\ p = Append(v, x) /\ Len(v) >= 2 /\ Len(v) = Len(p) - 1
          /\ Spelt(v) /\ Clear(x)
    <3>1. Len(p) >= 3
      BY <1>3, <1>6, TwoOrMore, Zenon
    <3> QED
      BY <1>3, <3>1, Front
  <2>2. PICK u \in Seq(Seq(Char)), y \in Seq(Char) :
          /\ q = Append(u, y) /\ Len(u) >= 2 /\ Len(u) = Len(q) - 1
          /\ Spelt(u) /\ Clear(y)
    <3>1. Len(q) >= 3
      BY <1>3, <1>4, <1>6, TwoOrMore, Zenon
    <3> QED
      BY <1>3, <3>1, Front
  <2>3. /\ Text(v) \in Seq(Char) /\ Text(u) \in Seq(Char)
        /\ Text(p) = Behind(Text(v), x) /\ Text(q) = Behind(Text(u), y)
    BY <2>1, <2>2, TextType, TextOfMore
  <2>4. Text(v) = Text(u) /\ x = y
    BY <1>3, <2>1, <2>2, <2>3, LastSlash
  <2>5. SameText(v, u)
    BY <2>1, <2>2, <2>4 DEF SameText
  <2>6. k - 1 \in Nat /\ k - 1 \notin T /\ Len(v) = k - 1
    BY <1>1, <1>2, <1>3, <2>1
  <2>7. v = u
    BY <2>5, <2>6
  <2> QED
    BY <1>2, <2>1, <2>2, <2>4, <2>7
<1> QED
  BY <1>5, <1>6

-----------------------------------------------------------------------------
(***************************************************************************)
(* The loop of split.                                                      *)
(***************************************************************************)

\* What the loop is defined by, up to character d
LoopBody(str, f, i) ==
  IF i = 0 THEN [words |-> <<>>, temp |-> <<>>] ELSE Cut(str, i, f[i - 1])

LoopTo(str, d, f) == f = [i \in 0 .. d |-> LoopBody(str, f, i)]

\* split takes the words from such a function, after the last character.
LEMMA LoopChosen ==
  ASSUME NEW str
  PROVE  split(str) = (CHOOSE f : LoopTo(str, Len(str), f))[Len(str)].words
  BY DEF split, LoopTo, LoopBody

\* Its value at a character
LEMMA LoopAt ==
  ASSUME NEW str, NEW d, NEW f, LoopTo(str, d, f), NEW i \in 0 .. d
  PROVE  f[i] = LoopBody(str, f, i)
  BY DEF LoopTo

\* There is such a function.
LEMMA LoopExists ==
  ASSUME NEW str, NEW d \in Nat
  PROVE  \E f : LoopTo(str, d, f)
<1> DEFINE T == {k \in Nat : ~ \E f : LoopTo(str, k, f)}
<1> SUFFICES ASSUME T # {} PROVE FALSE
  OBVIOUS
<1>1. PICK k \in T : \A j \in T : k <= j
  BY LeastNat
<1>2. CASE k = 0
  <2> DEFINE f == [j \in 0 .. 0 |-> [words |-> <<>>, temp |-> <<>>]]
  <2>1. LoopTo(str, 0, f)
    BY DEF LoopTo, LoopBody
  <2> QED
    BY <1>2, <2>1
<1>3. CASE k # 0
  <2>1. k - 1 \in Nat /\ k - 1 \notin T
    BY <1>1, <1>3
  <2>2. PICK f : LoopTo(str, k - 1, f)
    BY <2>1
  <2> DEFINE g == [j \in 0 .. k |-> IF j < k THEN f[j] ELSE LoopBody(str, f, k)]
  <2>3. \A j \in 0 .. k : g[j] = IF j < k THEN f[j] ELSE LoopBody(str, f, k)
    OBVIOUS
  <2>4. DOMAIN g = 0 .. k /\ g = [j \in 0 .. k |-> g[j]]
    OBVIOUS
  <2> HIDE DEF g
  <2>5. \A j \in 0 .. k : LoopBody(str, g, j) = LoopBody(str, f, j)
    <3> TAKE j \in 0 .. k
    <3>1. j # 0 => j - 1 \in 0 .. k /\ j - 1 < k
      BY <1>3
    <3> QED
      BY <2>3, <3>1 DEF LoopBody
  <2>6. \A j \in 0 .. k : g[j] = LoopBody(str, g, j)
    <3> TAKE j \in 0 .. k
    <3>1. j < k => j \in 0 .. k - 1
      OBVIOUS
    <3>2. j < k => f[j] = LoopBody(str, f, j)
      BY <2>2, <3>1, LoopAt
    <3>3. ~(j < k) => j = k
      OBVIOUS
    <3> QED
      BY <2>3, <2>5, <3>2, <3>3
  <2>7. LoopTo(str, k, g)
    BY <2>4, <2>6 DEF LoopTo
  <2> QED
    BY <2>7
<1> QED
  BY <1>2, <1>3

\* The variables of the loop
State == [words : Seq(Seq(Char)), temp : Seq(Char)]

\* One more level
LEMMA SpeltMore ==
  ASSUME NEW n \in Seq(Seq(Char)), Len(n) >= 1, Spelt(n),
         NEW x \in Seq(Char), Clear(x)
  PROVE  /\ Append(n, x) \in Seq(Seq(Char)) /\ Spelt(Append(n, x))
         /\ Len(Append(n, x)) = Len(n) + 1 /\ Len(Append(n, x)) >= 2
<1> DEFINE m == Append(n, x)
<1>1. Len(n) \in Nat
  OBVIOUS
<1>2. /\ m \in Seq(Seq(Char)) /\ Len(m) = Len(n) + 1
      /\ \A k \in 1 .. Len(n) : m[k] = n[k]
      /\ m[Len(n) + 1] = x
  BY AppendProperties
<1> HIDE DEF m
<1>3. Len(m) >= 2
  BY <1>1, <1>2
<1>4. Spelt(m)
  <2>1. ASSUME NEW k \in 1 .. Len(m)
        PROVE  IF k = 1 THEN m[k] = <<Slash>> ELSE Clear(m[k])
    <3>1. k \in 1 .. Len(n) \/ (k = Len(n) + 1 /\ k # 1)
      <4>1. k \in 1 .. Len(n) + 1
        BY <1>2
      <4> QED
        BY <1>1, <4>1, OneOrMore, Zenon
    <3>2. CASE k \in 1 .. Len(n)
      BY <1>2, <3>2 DEF Spelt, Clear
    <3>3. CASE k = Len(n) + 1 /\ k # 1
      BY <1>2, <3>3
    <3> QED
      BY <3>1, <3>2, <3>3
  <2> QED
    BY <2>1 DEF Spelt, Clear
<1> QED
  BY <1>2, <1>3, <1>4 DEF m

\* The text when the last level gets one more character
LEMMA TextGrows ==
  ASSUME NEW n \in Seq(Seq(Char)), Len(n) >= 1, NEW x \in Seq(Char), NEW c \in Char
  PROVE  Text(Append(n, Append(x, c))) = Append(Text(Append(n, x)), c)
<1>0. Len(n) \in Nat /\ Append(x, c) \in Seq(Char)
  BY AppendProperties
<1>1. CASE Len(n) = 1
  <2>1. ASSUME NEW y \in Seq(Char) PROVE Text(Append(n, y)) = y
    <3>1. Len(Append(n, y)) = Len(n) + 1 /\ Append(n, y)[Len(n) + 1] = y
      BY <2>1, AppendProperties
    <3>2. Len(n) + 1 = 2
      BY <1>1
    <3> QED
      BY <3>1, <3>2, TextOfTwo
  <2> QED
    BY <1>0, <2>1
<1>2. CASE Len(n) # 1
  <2>1. Len(n) >= 2
    BY <1>0, <1>2, OneOrMore, Zenon
  <2>2. /\ Text(Append(n, Append(x, c))) = Behind(Text(n), Append(x, c))
        /\ Text(Append(n, x)) = Behind(Text(n), x) /\ Text(n) \in Seq(Char)
    BY <1>0, <2>1, TextOfMore, TextType
  <2>3. Text(n) \o <<Slash>> \in Seq(Char)
    BY <2>2, WalkAssumption, ConcatProperties
  <2>4. ASSUME NEW a \in Seq(Char) PROVE a \o Append(x, c) = Append(a \o x, c)
    OBVIOUS
  <2> QED
    BY <2>2, <2>3, <2>4 DEF Behind
<1> QED
  BY <1>1, <1>2

\* The text when a level is begun
LEMMA TextBegins ==
  ASSUME NEW n \in Seq(Seq(Char)), Len(n) >= 2
  PROVE  Text(Append(n, <<>>)) = Append(Text(n), Slash)
<1>1. /\ <<>> \in Seq(Char) /\ Text(n) \in Seq(Char)
      /\ Text(Append(n, <<>>)) = Behind(Text(n), <<>>)
  <2>1. <<>> \in Seq(Char)
    OBVIOUS
  <2> QED
    BY <2>1, TextType, TextOfMore
<1>2. ASSUME NEW a \in Seq(Char) PROVE (a \o <<Slash>>) \o <<>> = Append(a, Slash)
  BY WalkAssumption
<1> QED
  BY <1>1, <1>2 DEF Behind

\* After character i, not the last: the levels found and the one begun are spelt
\* right, and their text is what was read.
Reading(str, i, s) ==
  /\ s \in State /\ Len(s.words) >= 1 /\ Spelt(s.words) /\ Clear(s.temp)
  /\ Text(Append(s.words, s.temp)) = SubSeq(str, 2, i)

\* The first character gives the level "/".
LEMMA ReadFirst ==
  ASSUME NEW str, NEW s, s = [words |-> <<>>, temp |-> <<>>]
  PROVE  /\ Cut(str, 1, s).words = <<<<Slash>>>>
         /\ Reading(str, 1, Cut(str, 1, s))
<1> DEFINE t == Cut(str, 1, s)
<1>1. t = [words |-> <<<<Slash>>>>, temp |-> <<>>]
  BY DEF Cut
<1>2. t.words = <<<<Slash>>>> /\ t.temp = <<>>
  BY <1>1
<1>3. t \in State
  <2>1. <<<<Slash>>>> \in Seq(Seq(Char)) /\ <<>> \in Seq(Char)
    BY WalkAssumption
  <2>2. ASSUME NEW x \in Seq(Seq(Char)), NEW y \in Seq(Char)
        PROVE  [words |-> x, temp |-> y] \in State
    BY DEF State
  <2> HIDE DEF t
  <2> QED
    BY <1>1, <2>1, <2>2, Zenon
<1> HIDE DEF t
<1>4. Len(t.words) >= 1 /\ Spelt(t.words) /\ Clear(t.temp)
  BY <1>2 DEF Spelt, Clear
<1>5. Text(Append(t.words, t.temp)) = <<>>
  <2>1. t.words \in Seq(Seq(Char)) /\ t.temp \in Seq(Char) /\ Len(t.words) = 1
    BY <1>2, <1>3 DEF State
  <2>2. /\ Len(Append(t.words, t.temp)) = Len(t.words) + 1
        /\ Append(t.words, t.temp)[Len(t.words) + 1] = t.temp
    <3>1. ASSUME NEW n \in Seq(Seq(Char)), NEW x \in Seq(Char)
          PROVE  Len(Append(n, x)) = Len(n) + 1 /\ Append(n, x)[Len(n) + 1] = x
      BY AppendProperties
    <3> QED
      BY <2>1, <3>1, Zenon
  <2>3. Len(t.words) + 1 = 2
    BY <2>1
  <2> QED
    BY <1>2, <2>2, <2>3, TextOfTwo
<1>6. SubSeq(str, 2, 1) = <<>>
  BY SubSeqEmpty
<1> QED
  BY <1>2, <1>3, <1>4, <1>5, <1>6 DEF Reading, t

\* A part of a string and the next character
LEMMA ReadOne ==
  ASSUME NEW str \in Seq(Char), NEW i \in Nat, i >= 1, i < Len(str)
  PROVE  /\ str[i + 1] \in Char
         /\ SubSeq(str, 2, i + 1) = Append(SubSeq(str, 2, i), str[i + 1])
<1>1. /\ 2 \in 1 .. Len(str) /\ i + 1 \in 2 .. Len(str) /\ i + 1 \in 1 .. Len(str)
      /\ i + 1 - 1 = i
  OBVIOUS
<1>2. str[i + 1] \in Char
  BY <1>1, ElementOfSeq
<1>3. SubSeq(str, 2, i + 1) = SubSeq(str, 2, i) \o <<str[i + 1]>>
  BY <1>1, SubSeqRecursiveSecond
<1>4. SubSeq(str, 2, i) \in Seq(Char)
  OBVIOUS
<1> QED
  BY <1>2, <1>3, <1>4

\* The next character, not the last one, either ends the level or joins it.
LEMMA ReadNext ==
  ASSUME NEW str \in Seq(Char), NEW i \in Nat, i >= 1, i + 1 < Len(str),
         NEW s, Reading(str, i, s)
  PROVE  Reading(str, i + 1, Cut(str, i + 1, s))
<1> DEFINE c == str[i + 1]
           t == Cut(str, i + 1, s)
           n == Append(s.words, s.temp)
<1>0. Len(str) \in Nat /\ i < Len(str) /\ i + 1 # 1 /\ i + 1 # Len(str)
  OBVIOUS
<1>1. c \in Char /\ SubSeq(str, 2, i + 1) = Append(SubSeq(str, 2, i), c)
  BY <1>0, ReadOne
<1>2. /\ s \in State /\ s.words \in Seq(Seq(Char)) /\ s.temp \in Seq(Char)
      /\ Len(s.words) >= 1 /\ Spelt(s.words) /\ Clear(s.temp)
      /\ Text(n) = SubSeq(str, 2, i)
  BY DEF Reading, State
<1>3. n \in Seq(Seq(Char)) /\ Spelt(n) /\ Len(n) >= 2
  BY <1>2, SpeltMore
<1>4. CASE c = Slash
  <2>1. t = [words |-> n, temp |-> <<>>]
    BY <1>0, <1>4 DEF Cut
  <2>2. t.words = n /\ t.temp = <<>>
    BY <2>1
  <2>3. t \in State /\ Clear(t.temp)
    <3>1. <<>> \in Seq(Char) /\ Clear(<<>>)
      BY DEF Clear
    <3> HIDE DEF n, t
    <3> QED
      BY <1>3, <2>1, <2>2, <3>1 DEF State
  <2>4. Text(Append(n, <<>>)) = Append(Text(n), Slash)
    <3> HIDE DEF n
    <3> QED
      BY <1>3, TextBegins
  <2>5. Len(n) >= 1
    <3> HIDE DEF n
    <3> QED
      BY <1>3
  <2> HIDE DEF n, t, c
  <2> QED
    BY <1>1, <1>2, <1>3, <1>4, <2>2, <2>3, <2>4, <2>5 DEF Reading, t
<1>5. CASE c # Slash
  <2>1. /\ t = [words |-> s.words, temp |-> Append(s.temp, c)]
    BY <1>0, <1>2, <1>5 DEF Cut, State
  <2>2. t.words = s.words /\ t.temp = Append(s.temp, c)
    BY <2>1
  <2>3. Append(s.temp, c) \in Seq(Char) /\ Clear(Append(s.temp, c))
    BY <1>1, <1>2, <1>5, ClearAppend
  <2>4. t \in State
    <3> HIDE DEF t
    <3> QED
      BY <1>2, <2>1, <2>3 DEF State
  <2>5. Text(Append(s.words, Append(s.temp, c))) = Append(Text(n), c)
    BY <1>1, <1>2, TextGrows
  <2> HIDE DEF n, t, c
  <2> QED
    BY <1>1, <1>2, <2>2, <2>3, <2>4, <2>5 DEF Reading, t
<1> QED
  BY <1>4, <1>5

\* The last character ends a level.
LEMMA ReadLast ==
  ASSUME NEW str \in Seq(Char), NEW i \in Nat, i >= 1, i + 1 = Len(str),
         NEW s, Reading(str, i, s)
  PROVE  LET n == Cut(str, i + 1, s).words
         IN  /\ n \in Seq(Seq(Char)) /\ Spelt(n) /\ Len(n) >= 2
             /\ Text(n) = Kept(str)
<1> DEFINE c == str[i + 1]
           n == Cut(str, i + 1, s).words
<1>0. Len(str) \in Nat /\ i < Len(str) /\ i + 1 # 1 /\ Len(str) - 1 = i
  OBVIOUS
<1>1. c \in Char /\ SubSeq(str, 2, i + 1) = Append(SubSeq(str, 2, i), c)
  BY <1>0, ReadOne
<1>2. /\ s \in State /\ s.words \in Seq(Seq(Char)) /\ s.temp \in Seq(Char)
      /\ Len(s.words) >= 1 /\ Spelt(s.words) /\ Clear(s.temp)
      /\ Text(Append(s.words, s.temp)) = SubSeq(str, 2, i)
  BY DEF Reading, State
<1>3. Kept(str) = SubSeq(str, 2, IF c = Slash THEN i ELSE i + 1)
  BY <1>0 DEF Kept
<1>4. CASE c = Slash
  <2>1. n = Append(s.words, s.temp)
    <3>1. Cut(str, i + 1, s) = [words |-> Append(s.words, s.temp), temp |-> <<>>]
      BY <1>0, <1>4 DEF Cut
    <3> QED
      BY <3>1
  <2>2. Kept(str) = SubSeq(str, 2, i)
    BY <1>3, <1>4
  <2> HIDE DEF n, c
  <2> QED
    BY <1>2, <2>1, <2>2, SpeltMore DEF n
<1>5. CASE c # Slash
  <2>1. n = Append(s.words, Append(s.temp, c))
    <3>1. Cut(str, i + 1, s) =
            [words |-> Append(s.words, Append(s.temp, c)), temp |-> <<>>]
      BY <1>0, <1>5 DEF Cut
    <3> QED
      BY <3>1
  <2>2. Kept(str) = Append(SubSeq(str, 2, i), c)
    BY <1>1, <1>3, <1>5
  <2>3. Append(s.temp, c) \in Seq(Char) /\ Clear(Append(s.temp, c))
    BY <1>1, <1>2, <1>5, ClearAppend
  <2>4. Text(Append(s.words, Append(s.temp, c))) =
          Append(Text(Append(s.words, s.temp)), c)
    BY <1>1, <1>2, TextGrows
  <2> HIDE DEF n, c
  <2> QED
    BY <1>2, <2>1, <2>2, <2>3, <2>4, SpeltMore DEF n
<1> QED
  BY <1>4, <1>5

\* What split makes of a string of more than one character
LEMMA SplitRight ==
  ASSUME NEW str \in Seq(Char), Len(str) > 1
  PROVE  /\ split(str) \in Seq(Seq(Char)) /\ Spelt(split(str)) /\ Len(split(str)) >= 2
         /\ Text(split(str)) = Kept(str)
<1> DEFINE f == CHOOSE h : LoopTo(str, Len(str), h)
           T == {i \in 1 .. Len(str) - 1 : ~Reading(str, i, f[i])}
<1>0. Len(str) \in Nat /\ 1 \in 1 .. Len(str) - 1
  OBVIOUS
<1>1. LoopTo(str, Len(str), f)
  BY <1>0, LoopExists
<1> HIDE DEF f
<1>2. \A i \in 0 .. Len(str) : f[i] = LoopBody(str, f, i)
  BY <1>1, LoopAt
<1>3. f[0] = [words |-> <<>>, temp |-> <<>>]
  BY <1>0, <1>2 DEF LoopBody
<1>4. \A i \in 1 .. Len(str) : f[i] = Cut(str, i, f[i - 1])
  BY <1>0, <1>2 DEF LoopBody
<1>5. Reading(str, 1, f[1])
  <2>1. f[1] = Cut(str, 1, f[0])
    BY <1>0, <1>4
  <2> QED
    BY <1>3, <2>1, ReadFirst
<1>6. T = {}
  <2> SUFFICES ASSUME T # {} PROVE FALSE
    OBVIOUS
  <2>0. T \in SUBSET Nat
    OBVIOUS
  <2>1. PICK k \in T : \A j \in T : k <= j
    BY <2>0, LeastNat
  <2>2. k \in 1 .. Len(str) - 1 /\ ~Reading(str, k, f[k])
    BY <2>1
  <2>3. k # 1
    BY <1>5, <2>2
  <2>4. /\ k - 1 \in Nat /\ k - 1 >= 1 /\ k - 1 \in 1 .. Len(str) - 1
        /\ k - 1 + 1 = k /\ k < Len(str) /\ k \in 1 .. Len(str) /\ k - 1 \notin T
    BY <1>0, <2>1, <2>2, <2>3
  <2>5. Reading(str, k - 1, f[k - 1])
    BY <2>4
  <2>6. Reading(str, k - 1 + 1, Cut(str, k - 1 + 1, f[k - 1]))
    BY <2>4, <2>5, ReadNext
  <2> QED
    BY <1>4, <2>2, <2>4, <2>6
<1>7. Reading(str, Len(str) - 1, f[Len(str) - 1])
  <2>1. Len(str) - 1 \in 1 .. Len(str) - 1
    BY <1>0
  <2> QED
    BY <1>6, <2>1
<1>8. /\ f[Len(str)] = Cut(str, Len(str) - 1 + 1, f[Len(str) - 1])
      /\ Len(str) - 1 \in Nat /\ Len(str) - 1 >= 1 /\ Len(str) - 1 + 1 = Len(str)
  BY <1>0, <1>4
<1>9. split(str) = f[Len(str)].words
  BY LoopChosen DEF f
<1> QED
  BY <1>7, <1>8, <1>9, ReadLast

-----------------------------------------------------------------------------
(***************************************************************************)
(* The strings that lead to a node.                                        *)
(***************************************************************************)

\* The nodes are spelt like the filters and topics that made them.
AllSpelt == \A p \in nodes : Spelt(p)

\* A walk takes levels of the filter and levels of nodes.
LEMMA WalksSpelt ==
  ASSUME NEW N, \A p \in N : p \in Seq(Word) /\ Spelt(p),
         NEW w, Spelt(w), NEW i \in 0 .. Len(w), Len(w) \in Nat,
         NEW p \in Walks(N, w, i)
  PROVE  Spelt(p)
<1>1. i \in Nat /\ p \in Seq(Word) /\ Len(p) = i
  BY WalkType
<1>2. ASSUME NEW j \in 1 .. Len(p)
      PROVE  IF j = 1 THEN p[j] = <<Slash>>
             ELSE \A k \in 1 .. Len(p[j]) : p[j][k] # Slash
  <2>1. j \in 1 .. i /\ j \in 1 .. Len(w) /\ j \in 0 .. Len(p) /\ j \in 1 .. j
    BY <1>1
  <2>2. CASE w[j] = Plus
    <3>1. SubSeq(p, 1, j) \in N
      BY <2>1, <2>2 DEF Walks
    <3>2. Len(SubSeq(p, 1, j)) = j /\ SubSeq(p, 1, j)[j] = p[j]
      BY <1>1, <2>1, Prefix
    <3>3. Spelt(SubSeq(p, 1, j))
      BY <3>1
    <3> QED
      BY <2>1, <3>2, <3>3 DEF Spelt
  <2>3. CASE w[j] # Plus
    <3>1. p[j] = w[j]
      BY <2>1, <2>3 DEF Walks
    <3> QED
      BY <2>1, <3>1 DEF Spelt
  <2> QED
    BY <2>2, <2>3
<1> QED
  BY <1>2 DEF Spelt

\* Every operation keeps the nodes so.
LEMMA AllSpeltStep ==
  ASSUME TypeOK, AllSpelt, [Next]_vars
  PROVE  AllSpelt'
<1>1. \A p \in nodes : p \in Seq(Word) /\ Spelt(p)
  BY DEF TypeOK, AllSpelt
<1>2. ASSUME NEW w \in Filter \cup Topic, NEW p \in Created(nodes, w) PROVE Spelt(p)
  <2>1. Spelt(w) /\ Len(w) \in Nat
    BY TreeAssumption, WalkAssumption
  <2>2. p \in nodes \/ \E i \in 0 .. Len(w) : p \in Walks(nodes, w, i)
    BY DEF Created, Reached
  <2> QED
    BY <1>1, <2>1, <2>2, WalksSpelt
<1>3. nodes' = nodes \/ \E f \in Filter \cup Topic : nodes' = Created(nodes, f)
  BY DEF Next, subscribe, unsubscribe, match, vars
<1> QED
  BY <1>1, <1>2, <1>3 DEF AllSpelt

\* Of a string in which every level is behind a slash all but the first slash is kept.
LEMMA RootedKept ==
  ASSUME NEW str \in Seq(Char), Rooted(str), NEW t \in Seq(Char)
  PROVE  Kept(str) = t <=> str = <<Slash>> \o t
<1> PICK m \in Nat : m = Len(str)  OBVIOUS
<1> PICK u : u = SubSeq(str, 2, m)  OBVIOUS
<1>1. m >= 2 /\ str[1] = Slash /\ Kept(str) = u
  BY DEF Rooted, Kept
<1>2. /\ u \in Seq(Char) /\ Len(u) = m - 1
      /\ \A k \in 1 .. m - 1 : u[k] = str[k + 1]
  <2>1. \A k \in 2 .. m : str[k] \in Char  OBVIOUS
  <2> QED BY <1>1, <2>1
<1>3. str = <<Slash>> \o u
  <2> PICK v : v = <<Slash>> \o u  OBVIOUS
  <2>1. v \in Seq(Char)  BY <1>2, WalkAssumption
  <2>2. Len(v) = m /\ v[1] = Slash /\ \A k \in 2 .. m : v[k] = u[k - 1]
    BY <1>1, <1>2
  <2>3. \A k \in 2 .. m : u[k - 1] = str[k]
    <3> TAKE k \in 2 .. m
    <3>1. k - 1 \in 1 .. m - 1 /\ k - 1 + 1 = k  BY <1>1
    <3> QED BY <1>2, <3>1
  <2>4. \A k \in 1 .. m : v[k] = str[k]
    <3> TAKE k \in 1 .. m
    <3>1. k = 1 \/ k \in 2 .. m  OBVIOUS
    <3> QED BY <1>1, <2>2, <2>3, <3>1
  <2> QED BY <2>1, <2>2, <2>4, SeqEqual
<1>4. ASSUME str = <<Slash>> \o t  PROVE u = t
  <2>1. Len(t) = m - 1  BY <1>4
  <2>2. \A k \in 1 .. m - 1 : t[k] = str[k + 1]
    <3> TAKE k \in 1 .. m - 1
    <3>1. k \in 1 .. Len(t)  BY <2>1
    <3> QED BY <1>4, <3>1
  <2> QED BY <1>2, <2>1, <2>2, SeqEqual
<1> QED BY <1>1, <1>3, <1>4

\* A string leads to the node it spells.
LEMMA Leads ==
  ASSUME NEW str \in Seq(Char), Rooted(str),
         NEW n \in Seq(Seq(Char)), Spelt(n), n # <<>>
  PROVE  split(str) = n <=> Len(n) > 1 /\ str = <<Slash>> \o Text(n)
<1>1. Len(n) \in Nat /\ Len(n) >= 1
  <2>1. Len(n) \in Nat \ {0}
    BY EmptySeq
  <2> QED
    BY <2>1
<1>2. /\ split(str) \in Seq(Seq(Char)) /\ Spelt(split(str)) /\ Len(split(str)) >= 2
      /\ Text(split(str)) = Kept(str)
  BY SplitRight DEF Rooted
<1>3. CASE Len(n) = 1
  <2>1. ~(1 > 1) /\ ~(1 >= 2)
    OBVIOUS
  <2>2. split(str) # n
    BY <1>2, <1>3, <2>1, Zenon
  <2> QED
    BY <1>3, <2>1, <2>2, Zenon
<1>4. CASE Len(n) # 1
  <2>1. Len(n) >= 2 /\ Len(n) > 1
    <3>1. \A k \in Nat : k >= 1 /\ k # 1 => k >= 2 /\ k > 1
      OBVIOUS
    <3> QED
      BY <1>1, <1>4, <3>1, Zenon
  <2>2. Text(n) \in Seq(Char)
    BY <2>1, TextType
  <2>3. ASSUME Kept(str) = Text(n) PROVE split(str) = n
    <3>1. SameText(split(str), n)
      BY <1>2, <2>1, <2>3 DEF SameText
    <3> QED
      BY <1>2, <3>1, TextInjective
  <2> QED
    BY <1>2, <2>1, <2>2, <2>3, RootedKept
<1> QED
  BY <1>3, <1>4

\* Whatever levels a client writes, each behind a slash, split leads the string to the
\* node with these levels and to no other node of the tree.
THEOREM SplitIsRight == Spec => []SplitLeads
<1>1. Init => TypeOK /\ AllSpelt
  <2> SUFFICES ASSUME Init PROVE TypeOK /\ AllSpelt
    OBVIOUS
  <2>1. nodes = {<<>>} /\ Spelt(<<>>)
    BY DEF Init, Spelt
  <2> QED
    BY <2>1 DEF Init, TypeOK, Subscription, AllSpelt
<1>2. TypeOK /\ AllSpelt /\ [Next]_vars => (TypeOK /\ AllSpelt)'
  BY TreeTypeStep, AllSpeltStep
<1>3. TypeOK /\ AllSpelt => SplitLeads
  <2> SUFFICES ASSUME TypeOK, AllSpelt, NEW str \in String, Rooted(str),
                      NEW n \in nodes \ {<<>>}
               PROVE  split(str) = n <=> Len(n) > 1 /\ str = <<Slash>> \o Text(n)
    BY DEF SplitLeads
  <2>1. str \in Seq(Char) /\ Word \subseteq Seq(Char)
    BY WalkAssumption
  <2>2. n \in Seq(Word) /\ Spelt(n) /\ n # <<>>
    BY DEF TypeOK, AllSpelt
  <2>3. n \in Seq(Seq(Char))
    BY <2>1, <2>2, SeqMonotonic
  <2> QED
    BY <2>1, <2>2, <2>3, Leads
<1> QED
  BY <1>1, <1>2, <1>3, PTL DEF Spec
=============================================================================
