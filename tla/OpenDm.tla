------------------------------- MODULE OpenDm -------------------------------
(***************************************************************************)
(* POST /api/v1/dm (apps/api/src/routes/channels.ts): finding or creating  *)
(* the direct-message channel of two members of a workspace.  D1 has no    *)
(* transaction over a SELECT and a later INSERT, so two requests can both  *)
(* create a channel; the code lets that happen and then prunes.            *)
(*                                                                         *)
(* Every awaited query is a step of its own and requests interleave        *)
(* freely.  The channel that request r creates is called r; whom it joins, *)
(* its name and its creator follow from the request.  Membership of a DM   *)
(* never changes (the routes refuse it), so the pair of a channel is       *)
(* constant.                                                               *)
(***************************************************************************)
EXTENDS Naturals, FiniteSets

CONSTANTS
  Request,       \* calls of the endpoint, ordered as the ids they generate
  Caller,        \* Caller[r]: the user who calls
  Peer,          \* Peer[r]: the human or agent to talk to
  NameOf,        \* NameOf[p]: the display name of p
  TakenNames,    \* names of the other channels of the workspace
  MaxClock,      \* bound: distinct wall-clock readings
  MaxRemovals    \* bound: channels their creators delete

ASSUME RequestAssumption ==
  /\ Request \subseteq Nat
  /\ \A r \in Request : Caller[r] # Peer[r]

ASSUME BoundAssumption == MaxClock \in Nat /\ MaxRemovals \in Nat

VARIABLES
  pc,        \* pc[r]: the await at which request r stands
  stamp,     \* stamp[r]: created_at, read from the clock of r's worker
  keeper,    \* keeper[r]: the channel r is going to return
  losers,    \* losers[r]: the duplicates r has still to delete
  channels,  \* D1: the DM channels that exist
  created,   \* history: every DM channel that was ever inserted
  removed,   \* history: channels deleted by their creators
  clock      \* wall-clock time

progress == <<pc, stamp, keeper, losers>>
database == <<channels, created, removed>>
vars     == <<progress, database, clock>>

Stage ==
  {"idle", "naming", "inserted", "pruning", "answered", "rejected", "lost"}

Pair(r) == {Caller[r], Peer[r]}

\* ORDER BY created_at ASC, id ASC
Before(s, t) ==
  \/ stamp[s] < stamp[t]
  \/ stamp[s] = stamp[t] /\ s < t

\* findPair: the DM channels of exactly this pair.
FindPair(r) == {s \in channels : Pair(s) = Pair(r)}

\* Faulty variant of First: DESC for ASC.
Last(rows) == CHOOSE s \in rows : \A t \in rows \ {s} : Before(t, s)

\* rows[0], where rows # {} are ranked
First(rows) == CHOOSE s \in rows : \A t \in rows \ {s} : ~ Before(t, s)

\* UNIQUE (server_id, name) over all channels of the workspace
NameIsFree(r) ==
  /\ NameOf[Peer[r]] \notin TakenNames
  /\ \A s \in channels : NameOf[Peer[s]] # NameOf[Peer[r]]
-----------------------------------------------------------------------------
Init ==
  /\ pc = [r \in Request |-> "idle"]
  /\ stamp = [r \in Request |-> 0]
  /\ keeper = [r \in Request |-> r]
  /\ losers = [r \in Request |-> {}]
  /\ channels = {}
  /\ created = {}
  /\ removed = {}
  /\ clock = 0

\* Faulty variant of StartPruning: rows instead of rows.slice(1).
PruneAll(r, rows) ==
  /\ pc' = [pc EXCEPT ![r] = "pruning"]
  /\ keeper' = [keeper EXCEPT ![r] = First(rows)]
  /\ losers' = [losers EXCEPT ![r] = rows]

\* pruneLosers is entered with the ranked rows.
StartPruning(r, rows) ==
  /\ pc' = [pc EXCEPT ![r] = "pruning"]
  /\ keeper' = [keeper EXCEPT ![r] = First(rows)]
  /\ losers' = [losers EXCEPT ![r] = rows \ {First(rows)}]

\* The first findPair finds the pair's channel, perhaps with duplicates.
FindExisting(r) ==
  /\ pc[r] = "idle"
  /\ FindPair(r) # {}
  /\ StartPruning(r, FindPair(r))
  /\ UNCHANGED <<stamp, database, clock>>

\* It finds none: draw an id and read the clock, then go and ask for the
\* peer's name.
DecideToCreate(r) ==
  /\ pc[r] = "idle"
  /\ FindPair(r) = {}
  /\ pc' = [pc EXCEPT ![r] = "naming"]
  /\ stamp' = [stamp EXCEPT ![r] = clock]
  /\ UNCHANGED <<keeper, losers, database, clock>>

\* The batch inserts the channel and both members, all or nothing.
Insert(r) ==
  /\ pc[r] = "naming"
  /\ NameIsFree(r)
  /\ pc' = [pc EXCEPT ![r] = "inserted"]
  /\ channels' = channels \cup {r}
  /\ created' = created \cup {r}
  /\ UNCHANGED <<stamp, keeper, losers, removed, clock>>

\* The name is taken: the batch throws and the caller gets a 500.
Reject(r) ==
  /\ pc[r] = "naming"
  /\ ~ NameIsFree(r)
  /\ pc' = [pc EXCEPT ![r] = "rejected"]
  /\ UNCHANGED <<stamp, keeper, losers, database, clock>>

\* Faulty variant of Recheck: whoever inserted first is not asked again.
NoRecheck(r) ==
  /\ pc[r] = "inserted"
  /\ pc' = [pc EXCEPT ![r] = "pruning"]
  /\ UNCHANGED <<stamp, keeper, losers, database, clock>>

\* The second findPair; without a row the new channel itself is the answer.
Recheck(r) ==
  /\ pc[r] = "inserted"
  /\ \/ FindPair(r) # {} /\ StartPruning(r, FindPair(r))
     \/ /\ FindPair(r) = {}
        /\ pc' = [pc EXCEPT ![r] = "pruning"]
        /\ UNCHANGED <<keeper, losers>>
  /\ UNCHANGED <<stamp, database, clock>>

\* One DELETE of pruneLosers, in rank order.
PruneOne(r) ==
  /\ pc[r] = "pruning"
  /\ losers[r] # {}
  /\ channels' = channels \ {First(losers[r])}
  /\ losers' = [losers EXCEPT ![r] = @ \ {First(@)}]
  /\ UNCHANGED <<pc, stamp, keeper, created, removed, clock>>

Answer(r) ==
  /\ pc[r] = "pruning"
  /\ losers[r] = {}
  /\ pc' = [pc EXCEPT ![r] = "answered"]
  /\ UNCHANGED <<stamp, keeper, losers, database, clock>>

\* A query fails or the worker is gone: the request ends where it stands.
Die(r) ==
  /\ pc[r] \in {"naming", "inserted", "pruning"}
  /\ pc' = [pc EXCEPT ![r] = "lost"]
  /\ UNCHANGED <<stamp, keeper, losers, database, clock>>

\* DELETE /api/v1/channels/:id by the creator (or the workspace owner).
Remove(s) ==
  /\ s \in channels
  /\ Cardinality(removed) < MaxRemovals
  /\ channels' = channels \ {s}
  /\ removed' = removed \cup {s}
  /\ UNCHANGED <<progress, created, clock>>

Tick ==
  /\ clock < MaxClock
  /\ clock' = clock + 1
  /\ UNCHANGED <<progress, database>>

Next ==
  \/ \E r \in Request :
        \/ FindExisting(r) \/ DecideToCreate(r) \/ Insert(r) \/ Reject(r)
        \/ Recheck(r) \/ PruneOne(r) \/ Answer(r) \/ Die(r)
  \/ \E s \in channels : Remove(s)
  \/ Tick

Spec == Init /\ [][Next]_vars
-----------------------------------------------------------------------------
(***************************************************************************)
(* Properties.                                                             *)
(***************************************************************************)

\* Types; a request prunes only channels of its own pair, and never the one
\* it is going to return.
TypeOK ==
  /\ pc \in [Request -> Stage]
  /\ stamp \in [Request -> 0..MaxClock]
  /\ keeper \in [Request -> Request]
  /\ losers \in [Request -> SUBSET Request]
  /\ \A r \in Request : \A s \in losers[r] :
        s # keeper[r] /\ Pair(s) = Pair(r)
  /\ created \subseteq Request
  /\ channels \subseteq created
  /\ removed \subseteq created \ channels
  /\ clock \in 0..MaxClock

\* The oldest of the DM channels that were ever created for a pair.
Oldest(s) ==
  /\ s \in created
  /\ \A t \in created \ {s} : Pair(t) = Pair(s) => Before(s, t)

\* Concurrent pruners never leave a pair without its conversation: however
\* the snapshots they work from overlap, the oldest channel stands until its
\* creator deletes it.
OldestStands ==
  \A s \in Request : Oldest(s) => s \in channels \cup removed

\* The race resolves itself: once all requests of a pair are over and none
\* of them died on the way, at most one channel is left.
OneAtRest ==
  \A s, t \in channels :
    \/ s = t
    \/ Pair(s) # Pair(t)
    \/ \E r \in Request :
          Pair(r) = Pair(s) /\ pc[r] \in {"inserted", "pruning", "lost"}

\* "every concurrent caller deterministically agrees on the keeper": a
\* channel handed to a caller is not pruned afterwards by another caller.
KeeperStands ==
  \A r \in Request :
    pc[r] = "answered" => keeper[r] \in channels \cup removed
=============================================================================
