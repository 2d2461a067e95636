--------------------------- MODULE MCTreeThreads ---------------------------
(***************************************************************************)
(* Instances of TreeThreads: a topic and one below it.                     *)
(***************************************************************************)
EXTENDS TreeThreads
CONSTANTS a, b, c1, c2
Topics == {<<a>>, <<a, b>>}
=============================================================================
