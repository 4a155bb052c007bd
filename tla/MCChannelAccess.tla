--------------------------- MODULE MCChannelAccess ---------------------------
(* The owner of two agents and one of them are members to begin with. *)
EXTENDS ChannelAccess

CONSTANTS o1, a1, a2

MCPerson == {o1}
MCAgent  == {a1, a2}
MCFirst  == {o1, a1}
==============================================================================
