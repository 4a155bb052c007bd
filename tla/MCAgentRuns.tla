----------------------------- MODULE MCAgentRuns -----------------------------
(* A message and a job for one agent of either mode: two invocations that can *)
(* meet in the agent's object, two rows that can meet in a sweep.             *)
EXTENDS AgentRuns

CONSTANTS m1, j1

MCMessage == {m1}
MCJob     == {j1}
==============================================================================
