------------------------------ MODULE MCOpenDm ------------------------------
(***************************************************************************)
(* OpenDm for TLC: ann and bob open their conversation at the same time    *)
(* from several tabs, and cyd opens one with bob.                          *)
(***************************************************************************)
EXTENDS OpenDm

CONSTANTS ann, bob, cyd

MCCaller == <<ann, bob, ann, cyd>>
MCPeer   == <<bob, ann, bob, bob>>
MCNameOf == [p \in {ann, bob, cyd} |-> p]
MCRequest == 1..4
=============================================================================
