------------------------------ MODULE MCPresence ------------------------------
(* Two users, the first with two tabs, one of which writes more. *)
EXTENDS Presence, TLC

CONSTANTS alice, bob, a1, a2, b1

MCUser  == {alice, bob}
MCTab   == {a1, a2, b1}
MCOwner == (a1 :> alice) @@ (a2 :> alice) @@ (b1 :> bob)
MCSends == (a1 :> 3) @@ (a2 :> 1) @@ (b1 :> 1)
==============================================================================
