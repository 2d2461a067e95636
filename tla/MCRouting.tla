----------------------------- MODULE MCRouting -----------------------------
(***************************************************************************)
(* Instances of Routing.                                                   *)
(***************************************************************************)
EXTENDS Routing
CONSTANTS s1, s2, w1, w2
=============================================================================
