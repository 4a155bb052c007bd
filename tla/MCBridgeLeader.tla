---------------------------- MODULE MCBridgeLeader ----------------------------
(* Two laptops of one user; whatever goes wrong befalls the first. *)
EXTENDS BridgeLeader

CONSTANTS b1, b2

MCBridge   == {b1, b2}
MCTroubled == {b1}
==============================================================================
