----------------------------- MODULE ChannelLog -----------------------------
(***************************************************************************)
(* What the ChatRoom Durable Object promises for one channel, with storage,*)
(* alarms, crashes and the database left out: a log that only grows, in    *)
(* which a message sent with an idempotency key stands at most once, and   *)
(* answers to senders that name the position at which the message stands.  *)
(* Module ChatRoom is shown to implement this specification.               *)
(***************************************************************************)
EXTENDS Naturals

CONSTANTS
  Keyed,     \* messages named by their (sender, idempotency key) pair
  Welcome,   \* rows of the seed flows, which carry no idempotency key
  Poison     \* a row of an earlier release that is not a message

VARIABLES
  last,      \* the highest seq given out
  row,       \* the rows of the channel, a function on 1..last
  answered   \* <<message, seq>> pairs that were told to a sender

logVars == <<last, row, answered>>

Grows ==
  /\ last' > last
  /\ \A s \in 1..last : row'[s] = row[s]

Init ==
  /\ last \in Nat
  /\ row = [s \in 1..last |-> Poison]
  /\ answered = {}

\* A send whose (sender, idempotency key) is new gets the next seq.
Send(m) ==
  /\ \A s \in 1..last : row[s] # m
  /\ Grows
  /\ last' = last + 1
  /\ row'[last'] = m
  /\ UNCHANGED answered

\* Seeding appends some welcome rows; a replayed seed appends them again.
Seed ==
  /\ Grows
  /\ \A s \in last + 1 .. last' : row'[s] \in Welcome
  /\ UNCHANGED answered

\* A sender learns a seq: the log holds the sender's row there.
Answer(m, s) ==
  /\ row[s] = m
  /\ answered' = answered \cup {<<m, s>>}
  /\ UNCHANGED <<last, row>>

Next ==
  \/ \E m \in Keyed : Send(m)
  \/ Seed
  \/ \E m \in Keyed \cup Welcome, s \in 1..last : Answer(m, s)

Spec == Init /\ [][Next]_logVars
=============================================================================
