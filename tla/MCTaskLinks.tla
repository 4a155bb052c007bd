---------------------------- MODULE MCTaskLinks ----------------------------
(***************************************************************************)
(* TaskLinks for TLC: three creations at once in a channel that has a      *)
(* task; the message of the first triggers runs of two agents.             *)
(***************************************************************************)
EXTENDS TaskLinks

CONSTANTS c1, c2, c3, r1, r2

MCCreate == {c1, c2, c3}
MCRun == {r1, r2}
MCTrigger == [r \in MCRun |-> c1]
=============================================================================
