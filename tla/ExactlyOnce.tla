---------------------------- MODULE ExactlyOnce ----------------------------
(***************************************************************************)
(* What QoS 2 promises to a publisher: a message that is sent is passed on *)
(* to the subscribers once, and it has been by the time the publisher      *)
(* takes it for done.  A spoilt message is promised nothing more.          *)
(***************************************************************************)
CONSTANT Message

VARIABLE stage   \* of each message: new, sent, passed on, done, or spoilt

Init == stage = [m \in Message |-> "new"]

Send(m) ==
  /\ stage[m] = "new"
  /\ stage' = [stage EXCEPT ![m] = "sent"]

Release(m) ==
  /\ stage[m] = "sent"
  /\ stage' = [stage EXCEPT ![m] = "passed on"]

Confirm(m) ==
  /\ stage[m] = "passed on"
  /\ stage' = [stage EXCEPT ![m] = "done"]

Spoil(S) == stage' = [m \in Message |-> IF m \in S THEN "spoilt" ELSE stage[m]]

Next == \/ \E m \in Message : Send(m) \/ Release(m) \/ Confirm(m)
        \/ \E S \in SUBSET Message : Spoil(S)

Spec == Init /\ [][Next]_stage
=============================================================================
