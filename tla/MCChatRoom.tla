----------------------------- MODULE MCChatRoom -----------------------------
(***************************************************************************)
(* ChatRoom for TLC: one message sent twice (the client's retry) and a     *)
(* seed of two rows, in an object that an upgrade left with a legacy row.  *)
(***************************************************************************)
EXTENDS ChatRoom

CONSTANTS send, retry, seed,   \* calls
          hello, hi1, hi2      \* rows

MCCall == {send, retry, seed}
MCSeeds == {seed}
MCKeyed == {hello}
MCWelcome == {hi1, hi2}
MCRows == [c \in MCCall |-> IF c = seed THEN <<hi1, hi2>> ELSE <<hello>>]
=============================================================================
