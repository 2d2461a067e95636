----------------------------- MODULE MCSessions -----------------------------
(***************************************************************************)
(* Instances of Sessions for TLC: the packet kinds and the tasks are model *)
(* values, and the time unit is the grace period of one keep_alive unit.   *)
(***************************************************************************)
EXTENDS Sessions, TLC
CONSTANTS c1, c2, pub, ack, unsub, bad, ping, k1, k2, k3

\* The tasks are interchangeable: no property names one.
TaskSymmetry == Permutations(Task)
=============================================================================
