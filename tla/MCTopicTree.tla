---------------------------- MODULE MCTopicTree ----------------------------
(***************************************************************************)
(* Instances of TopicTree: up to two levels below "/", with and without    *)
(* wildcards, an empty level among them; strings of up to five characters, *)
(* which may be slashes.                                                   *)
(***************************************************************************)
EXTENDS TopicWalk
CONSTANT c1
root == <<"/">>
a == <<"x">>
b == <<"x", "y">>
none == <<>>
Words == {root, a, b, none}
MCPlus == <<"+">>
MCHash == <<"#">>
Concrete == {<<root, a>>, <<root, a, b>>, <<root, none, b>>}
Wild     == {<<root, a>>, <<root, a, b>>, <<root, Plus>>, <<root, Plus, b>>,
             <<root, Hash>>, <<root, a, Hash>>}
Chars   == {"/", "x", "y"}
Strings == UNION {[1 .. n -> Chars] : n \in 1 .. 5}
=============================================================================
