---------------------------- MODULE MCChannelView ----------------------------
(* One tab of a person and whatever other devices mark. *)
EXTENDS ChannelView

CONSTANTS t1

MCTab == {t1}
==============================================================================
