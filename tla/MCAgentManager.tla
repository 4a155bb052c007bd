---------------------------- MODULE MCAgentManager ----------------------------
(* Two and three messages for one agent. *)
EXTENDS AgentManager, TLC

CONSTANTS m1, m2, m3

TwoMessages == {m1, m2}
ThreeMessages == {m1, m2, m3}

\* The messages are interchangeable in every safety property.
Symmetry == Permutations(ThreeMessages)
=============================================================================
