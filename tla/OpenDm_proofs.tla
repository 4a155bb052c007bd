---------------------------- MODULE OpenDm_proofs ----------------------------
(***************************************************************************)
(* Machine-checked proofs about module OpenDm, for any number of requests, *)
(* users, names, clock readings and deletions.                             *)
(***************************************************************************)
EXTENDS OpenDm, WellFoundedInduction, TLAPS

USE RequestAssumption, BoundAssumption

\* Every non-empty set of natural numbers has a least element.
LEMMA LeastNat ==
  ASSUME NEW S, S \subseteq Nat, S # {}
  PROVE  \E x \in S : \A y \in S : x <= y
<1> DEFINE R == OpToRel(<, Nat)
<1>1. \A x, y \in Nat : <<x, y>> \in R <=> x < y
  BY DEF OpToRel
<1>2. IsWellFoundedOn(R, Nat)
  BY NatLessThanWellFounded
<1> HIDE DEF R
<1>3. PICK x \in S : \A y \in S : ~ (<<y, x>> \in R)
  BY <1>2, WFMin, Zenon
<1>4. ASSUME NEW y \in S PROVE x <= y
  <2>1. x \in Nat /\ y \in Nat
    OBVIOUS
  <2>2. ~ (y < x)
    BY <1>1, <1>3, <2>1
  <2> QED BY <2>1, <2>2
<1> QED BY <1>4

\* Ranking by (created_at, id) is total, and a set of channels has a first.
LEMMA Ranked ==
  ASSUME stamp \in [Request -> 0..MaxClock]
  PROVE  /\ \A s, t \in Request : s # t => Before(s, t) \/ Before(t, s)
         /\ \A s, t \in Request : ~ (Before(s, t) /\ Before(t, s))
         /\ \A rows : rows \subseteq Request /\ rows # {} =>
              /\ First(rows) \in rows
              /\ \A t \in rows \ {First(rows)} : Before(First(rows), t)
<1>1. \A s \in Request : stamp[s] \in Nat /\ s \in Nat
  OBVIOUS
<1>2. \A s, t \in Request : s # t => Before(s, t) \/ Before(t, s)
  BY <1>1 DEF Before
<1>3. \A s, t \in Request : ~ (Before(s, t) /\ Before(t, s))
  BY <1>1 DEF Before
<1>4. ASSUME NEW rows, rows \subseteq Request, rows # {}
      PROVE  \E s \in rows : \A t \in rows \ {s} : ~ Before(t, s)
  <2> DEFINE stamps == {stamp[s] : s \in rows}
  <2>1. PICK m \in stamps : \A n \in stamps : m <= n
    <3>1. stamps \subseteq Nat /\ stamps # {}
      BY <1>1, <1>4
    <3> HIDE DEF stamps
    <3> QED BY <3>1, LeastNat
  <2> DEFINE early == {s \in rows : stamp[s] = m}
  <2>2. PICK s \in early : \A t \in early : s <= t
    <3>1. early \subseteq Nat /\ early # {}
      BY <1>1, <1>4
    <3> HIDE DEF early
    <3> QED BY <3>1, LeastNat
  <2>3. ASSUME NEW t \in rows \ {s} PROVE ~ Before(t, s)
    <3>1. stamp[s] = m /\ m <= stamp[t] /\ stamp[t] \in Nat /\ t \in Nat
          /\ s \in Nat /\ m \in Nat
      BY <1>1, <1>4, <2>1
    <3>2. stamp[t] = m => s <= t /\ s # t
      BY <2>2
    <3> QED BY <3>1, <3>2 DEF Before
  <2> QED BY <2>2, <2>3
<1>5. ASSUME NEW rows, rows \subseteq Request, rows # {}
      PROVE  /\ First(rows) \in rows
             /\ \A t \in rows \ {First(rows)} : Before(First(rows), t)
  <2>1. First(rows) \in rows
        /\ \A t \in rows \ {First(rows)} : ~ Before(t, First(rows))
    BY <1>4, <1>5 DEF First
  <2> QED BY <1>2, <1>5, <2>1
<1> QED BY <1>2, <1>3, <1>5

\* A request that has not inserted yet has no channel, so the rank of a
\* channel never changes.
UnusedInv ==
  \A r \in Request :
    pc[r] \in {"idle", "naming", "rejected"} => r \notin created

\* What a pruner deletes is a duplicate of a channel that ranks before it.
PrunerInv ==
  \A r \in Request :
    \A s \in losers[r] :
      /\ s \in created
      /\ keeper[r] \in created
      /\ Pair(keeper[r]) = Pair(s)
      /\ Before(keeper[r], s)

\* Whoever sees a duplicate is going to remove it.
ConvergeInv ==
  \A s, t \in channels :
    Pair(s) = Pair(t) /\ Before(s, t) =>
      \E r \in Request :
        /\ Pair(r) = Pair(s)
        /\ \/ pc[r] \in {"inserted", "lost"}
           \/ pc[r] = "pruning" /\ t \in losers[r]

IInv ==
  TypeOK /\ UnusedInv /\ PrunerInv /\ OldestStands /\ ConvergeInv

LEMMA InitIInv == Init => IInv
BY DEF Init, IInv, TypeOK, Stage, UnusedInv, PrunerInv, OldestStands,
       Oldest, ConvergeInv

\* The rows of findPair, and what StartPruning makes of them.
LEMMA PruningRows ==
  ASSUME IInv, NEW r \in Request, FindPair(r) # {},
         StartPruning(r, FindPair(r)), UNCHANGED <<stamp, database>>
  PROVE  /\ keeper'[r] \in created /\ keeper'[r] \in Request
         /\ losers'[r] \subseteq created
         /\ losers'[r] = FindPair(r) \ {keeper'[r]}
         /\ \A s \in losers'[r] :
              /\ s # keeper'[r]
              /\ Pair(s) = Pair(r)
              /\ Pair(keeper'[r]) = Pair(s)
              /\ Before(keeper'[r], s)
         /\ pc' = [pc EXCEPT ![r] = "pruning"]
         /\ \A q \in Request \ {r} :
              keeper'[q] = keeper[q] /\ losers'[q] = losers[q]
         /\ keeper' \in [Request -> Request]
         /\ losers' \in [Request -> SUBSET Request]
<1> DEFINE rows == FindPair(r)
<1>1. rows \subseteq created /\ rows \subseteq Request
      /\ \A s \in rows : Pair(s) = Pair(r)
  BY DEF IInv, TypeOK, FindPair
<1>2. First(rows) \in rows
      /\ \A t \in rows \ {First(rows)} : Before(First(rows), t)
  BY <1>1, Ranked DEF IInv, TypeOK
<1>3. keeper'[r] = First(rows) /\ losers'[r] = rows \ {First(rows)}
      /\ pc' = [pc EXCEPT ![r] = "pruning"]
      /\ keeper' = [keeper EXCEPT ![r] = First(rows)]
      /\ losers' = [losers EXCEPT ![r] = rows \ {First(rows)}]
  BY DEF StartPruning, IInv, TypeOK
<1> HIDE DEF rows
<1>4. keeper' \in [Request -> Request]
      /\ losers' \in [Request -> SUBSET Request]
      /\ \A q \in Request \ {r} :
           keeper'[q] = keeper[q] /\ losers'[q] = losers[q]
  BY <1>1, <1>2, <1>3 DEF IInv, TypeOK
<1>5. losers'[r] = FindPair(r) \ {keeper'[r]}
  BY <1>3 DEF rows
<1>6. /\ keeper'[r] \in created /\ keeper'[r] \in Request
      /\ losers'[r] \subseteq created
      /\ \A s \in losers'[r] :
           /\ s # keeper'[r]
           /\ Pair(s) = Pair(r)
           /\ Pair(keeper'[r]) = Pair(s)
           /\ Before(keeper'[r], s)
  <2>1. keeper'[r] \in rows
    BY <1>2, <1>3
  <2>2. \A s \in losers'[r] : s \in rows /\ s # keeper'[r]
                               /\ Before(keeper'[r], s)
    BY <1>2, <1>3
  <2> QED BY <1>1, <2>1, <2>2
<1> QED BY <1>3, <1>4, <1>5, <1>6

\* A step that starts pruning keeps the invariant.
LEMMA PruningStep ==
  ASSUME IInv, NEW r \in Request, FindPair(r) # {},
         pc[r] \in {"idle", "inserted"},
         StartPruning(r, FindPair(r)), UNCHANGED <<stamp, database, clock>>
  PROVE  IInv'
<1> USE DEF IInv, database
<1>1. TypeOK'
  BY PruningRows DEF TypeOK, Stage
<1>2. UnusedInv'
  BY PruningRows DEF UnusedInv, TypeOK
<1>3. PrunerInv'
  <2> SUFFICES ASSUME NEW q \in Request, NEW s, s \in losers'[q]
               PROVE  /\ s \in created
                      /\ keeper'[q] \in created
                      /\ Pair(keeper'[q]) = Pair(s)
                      /\ Before(keeper'[q], s)
    BY DEF PrunerInv, Before
  <2>1. CASE q = r
    BY <2>1, PruningRows
  <2>2. CASE q # r
    BY <2>2, PruningRows DEF PrunerInv
  <2> QED BY <2>1, <2>2
<1>4. OldestStands'
  BY DEF OldestStands, Oldest, Before
<1>5. ConvergeInv'
  <2> SUFFICES ASSUME NEW s \in channels, NEW t \in channels,
                      Pair(s) = Pair(t), Before(s, t)
               PROVE  \E q \in Request :
                        /\ Pair(q) = Pair(s)
                        /\ \/ pc'[q] \in {"inserted", "lost"}
                           \/ pc'[q] = "pruning" /\ t \in losers'[q]
    BY DEF ConvergeInv, Before
  <2>1. PICK q \in Request :
          /\ Pair(q) = Pair(s)
          /\ \/ pc[q] \in {"inserted", "lost"}
             \/ pc[q] = "pruning" /\ t \in losers[q]
    BY DEF ConvergeInv
  <2>2. CASE q # r
    BY <2>1, <2>2, PruningRows DEF TypeOK
  <2>3. CASE q = r
    <3>1. s \in FindPair(r) /\ t \in FindPair(r) /\ s \in Request
          /\ t \in Request
      BY <2>1, <2>3 DEF FindPair, TypeOK
    <3>2. t # keeper'[r]
      <4> SUFFICES ASSUME t = keeper'[r] PROVE FALSE
        OBVIOUS
      <4>1. s # t
        BY <3>1, Ranked DEF TypeOK
      <4>2. Before(t, s)
        BY <3>1, <4>1, PruningRows
      <4> QED BY <3>1, <4>2, Ranked DEF TypeOK
    <3>3. losers'[r] = FindPair(r) \ {keeper'[r]}
      BY PruningRows
    <3>4. pc'[r] = "pruning"
      BY DEF StartPruning, TypeOK
    <3>5. t \in losers'[r] /\ pc'[r] = "pruning"
      BY <3>1, <3>2, <3>3, <3>4
    <3> QED BY <2>1, <2>3, <3>5
  <2> QED BY <2>2, <2>3
<1> QED BY <1>1, <1>2, <1>3, <1>4, <1>5

LEMMA DecideToCreateStep ==
  ASSUME IInv, NEW r \in Request, DecideToCreate(r)
  PROVE  IInv'
<1> USE DEF IInv, DecideToCreate, database
<1>1. TypeOK'
  BY DEF TypeOK, Stage
<1>2. UnusedInv'
  BY DEF UnusedInv, TypeOK
<1>3. \A s, t \in created : Before(s, t)' <=> Before(s, t)
  BY DEF TypeOK, UnusedInv, Before
<1>4. PrunerInv'
  <2> SUFFICES ASSUME NEW q \in Request, NEW s, s \in losers[q]
               PROVE  /\ s \in created /\ keeper[q] \in created
                      /\ Pair(keeper[q]) = Pair(s)
                      /\ stamp'[keeper[q]] < stamp'[s]
                         \/ (stamp'[keeper[q]] = stamp'[s] /\ keeper[q] < s)
    BY DEF PrunerInv, Before
  <2>1. s \in created /\ keeper[q] \in created /\ Before(keeper[q], s)
        /\ Pair(keeper[q]) = Pair(s)
    BY DEF PrunerInv
  <2>2. stamp'[s] = stamp[s] /\ stamp'[keeper[q]] = stamp[keeper[q]]
    BY <2>1 DEF UnusedInv, TypeOK
  <2> QED BY <2>1, <2>2 DEF Before
<1>5. OldestStands'
  BY <1>3 DEF OldestStands, Oldest, TypeOK
<1>6. ConvergeInv'
  <2> SUFFICES ASSUME NEW s \in channels, NEW t \in channels,
                      Pair(s) = Pair(t), Before(s, t)'
               PROVE  \E q \in Request :
                        /\ Pair(q) = Pair(s)
                        /\ \/ pc'[q] \in {"inserted", "lost"}
                           \/ pc'[q] = "pruning" /\ t \in losers[q]
    BY DEF ConvergeInv, Before
  <2>1. Before(s, t)
    BY <1>3 DEF TypeOK
  <2>2. PICK q \in Request :
          /\ Pair(q) = Pair(s)
          /\ \/ pc[q] \in {"inserted", "lost"}
             \/ pc[q] = "pruning" /\ t \in losers[q]
    BY <2>1 DEF ConvergeInv
  <2> QED BY <2>2 DEF TypeOK
<1> QED BY <1>1, <1>2, <1>4, <1>5, <1>6

LEMMA InsertStep ==
  ASSUME IInv, NEW r \in Request, Insert(r)
  PROVE  IInv'
<1> USE DEF IInv, Insert
<1>1. r \notin created
  BY DEF UnusedInv
<1>2. TypeOK'
  BY <1>1 DEF TypeOK, Stage
<1>3. UnusedInv'
  BY DEF UnusedInv, TypeOK
<1>4. PrunerInv'
  BY DEF PrunerInv, Before
<1>5. OldestStands'
  BY DEF OldestStands, Oldest, Before, TypeOK
<1>6. ConvergeInv'
  <2> SUFFICES ASSUME NEW s \in channels \cup {r}, NEW t \in channels \cup {r},
                      Pair(s) = Pair(t), Before(s, t)
               PROVE  \E q \in Request :
                        /\ Pair(q) = Pair(s)
                        /\ \/ pc'[q] \in {"inserted", "lost"}
                           \/ pc'[q] = "pruning" /\ t \in losers[q]
    BY DEF ConvergeInv, Before
  <2>1. CASE s = r \/ t = r
    BY <2>1 DEF TypeOK
  <2>2. CASE s \in channels /\ t \in channels
    <3>1. PICK q \in Request :
            /\ Pair(q) = Pair(s)
            /\ \/ pc[q] \in {"inserted", "lost"}
               \/ pc[q] = "pruning" /\ t \in losers[q]
      BY <2>2 DEF ConvergeInv
    <3> QED BY <3>1 DEF TypeOK
  <2> QED BY <2>1, <2>2
<1> QED BY <1>2, <1>3, <1>4, <1>5, <1>6

\* Steps that only move a request that is no witness of ConvergeInv, or
\* that make it one.
LEMMA StageStep ==
  ASSUME IInv, NEW r \in Request, NEW stage \in Stage \ {"idle", "naming"},
         pc' = [pc EXCEPT ![r] = stage],
         stage = "rejected" => pc[r] = "naming",
         \/ stage = "lost"
         \/ pc[r] = "naming"
         \/ pc[r] = "inserted" /\ stage = "pruning" /\ FindPair(r) = {}
         \/ pc[r] = "pruning" /\ losers[r] = {},
         UNCHANGED <<stamp, keeper, losers, database, clock>>
  PROVE  IInv'
<1> USE DEF IInv, database
<1>1. TypeOK'
  BY DEF TypeOK, Stage
<1>2. UnusedInv'
  BY DEF UnusedInv, TypeOK, Stage
<1>3. PrunerInv'
  BY DEF PrunerInv, Before
<1>4. OldestStands'
  BY DEF OldestStands, Oldest, Before
<1>5. ConvergeInv'
  <2> SUFFICES ASSUME NEW s \in channels, NEW t \in channels,
                      Pair(s) = Pair(t), Before(s, t)
               PROVE  \E q \in Request :
                        /\ Pair(q) = Pair(s)
                        /\ \/ pc'[q] \in {"inserted", "lost"}
                           \/ pc'[q] = "pruning" /\ t \in losers[q]
    BY DEF ConvergeInv, Before
  <2>1. PICK q \in Request :
          /\ Pair(q) = Pair(s)
          /\ \/ pc[q] \in {"inserted", "lost"}
             \/ pc[q] = "pruning" /\ t \in losers[q]
    BY DEF ConvergeInv
  <2>2. ASSUME q = r PROVE stage = "lost"
    <3>1. FindPair(r) # {}
      BY <2>1, <2>2 DEF FindPair
    <3>2. losers[r] # {} \/ pc[r] \in {"inserted", "lost"}
      BY <2>1, <2>2
    <3> QED BY <2>1, <2>2, <3>1, <3>2
  <2> QED BY <2>1, <2>2 DEF TypeOK
<1> QED BY <1>1, <1>2, <1>3, <1>4, <1>5

LEMMA PruneOneStep ==
  ASSUME IInv, NEW r \in Request, PruneOne(r)
  PROVE  IInv'
<1> USE DEF IInv, PruneOne
<1> DEFINE x == First(losers[r])
<1>1. losers[r] \subseteq Request /\ losers[r] # {} /\ x \in losers[r]
  <2>1. losers[r] \subseteq Request /\ losers[r] # {}
    BY DEF TypeOK
  <2> QED BY <2>1, Ranked DEF TypeOK
<1>2. channels' = channels \ {x} /\ losers' = [losers EXCEPT ![r] = @ \ {x}]
  OBVIOUS
<1> HIDE DEF x
<1>3. TypeOK'
  <2>1. losers' \in [Request -> SUBSET Request]
    BY <1>2 DEF TypeOK
  <2>2. \A q \in Request : losers'[q] \subseteq losers[q]
    BY <1>2 DEF TypeOK
  <2>3. channels' \subseteq created /\ removed \subseteq created \ channels'
    BY <1>2 DEF TypeOK
  <2> HIDE DEF IInv
  <2>4. TypeOK
    BY DEF IInv
  <2> QED BY <2>1, <2>2, <2>3, <2>4 DEF TypeOK
<1>4. UnusedInv'
  BY DEF UnusedInv
<1>5. PrunerInv'
  BY <1>2 DEF PrunerInv, Before, TypeOK
<1>6. OldestStands'
  <2>1. ~ Oldest(x)
    <3>1. x \in created /\ keeper[r] \in created /\ keeper[r] # x
          /\ Pair(keeper[r]) = Pair(x) /\ Before(keeper[r], x)
      BY <1>1 DEF PrunerInv, TypeOK
    <3>2. ~ Before(x, keeper[r])
      BY <1>1, <3>1, Ranked DEF TypeOK
    <3> QED BY <3>1, <3>2 DEF Oldest
  <2> QED BY <1>2, <2>1 DEF OldestStands, Oldest, Before
<1>7. ConvergeInv'
  <2> SUFFICES ASSUME NEW s \in channels \ {x}, NEW t \in channels \ {x},
                      Pair(s) = Pair(t), Before(s, t)
               PROVE  \E q \in Request :
                        /\ Pair(q) = Pair(s)
                        /\ \/ pc[q] \in {"inserted", "lost"}
                           \/ pc[q] = "pruning" /\ t \in losers'[q]
    BY <1>2 DEF ConvergeInv, Before
  <2>1. PICK q \in Request :
          /\ Pair(q) = Pair(s)
          /\ \/ pc[q] \in {"inserted", "lost"}
             \/ pc[q] = "pruning" /\ t \in losers[q]
    BY DEF ConvergeInv
  <2> QED BY <1>2, <2>1 DEF TypeOK
<1> QED BY <1>3, <1>4, <1>5, <1>6, <1>7

LEMMA RemoveStep ==
  ASSUME IInv, NEW s \in channels, Remove(s)
  PROVE  IInv'
BY DEF IInv, Remove, progress, TypeOK, UnusedInv, PrunerInv, OldestStands,
       Oldest, ConvergeInv, Before

LEMMA IdleStep ==
  ASSUME IInv, Tick \/ UNCHANGED vars
  PROVE  IInv'
<1>1. /\ UNCHANGED <<progress, database>>
      /\ \/ clock' = clock
         \/ clock < MaxClock /\ clock' = clock + 1
  BY DEF Tick, vars
<1> USE DEF progress, database
<1>2. TypeOK'
  <2>1. clock' \in 0..MaxClock
    BY <1>1 DEF IInv, TypeOK
  <2>2. TypeOK
    BY DEF IInv
  <2>3. /\ pc' = pc /\ stamp' = stamp /\ keeper' = keeper
        /\ losers' = losers /\ created' = created
        /\ channels' = channels /\ removed' = removed
    BY <1>1
  <2> QED BY <2>1, <2>2, <2>3 DEF TypeOK
<1>3. UnusedInv' /\ PrunerInv'
  BY <1>1 DEF IInv, UnusedInv, PrunerInv, Before
<1>4. OldestStands'
  BY <1>1 DEF IInv, OldestStands, Oldest, Before
<1>5. ConvergeInv'
  BY <1>1 DEF IInv, ConvergeInv, Before
<1> QED BY <1>2, <1>3, <1>4, <1>5 DEF IInv

LEMMA NextIInv == IInv /\ [Next]_vars => IInv'
<1> SUFFICES ASSUME IInv, [Next]_vars PROVE IInv'
  OBVIOUS
<1>1. ASSUME NEW r \in Request, FindExisting(r) PROVE IInv'
  BY <1>1, PruningStep DEF FindExisting
<1>2. ASSUME NEW r \in Request, DecideToCreate(r) PROVE IInv'
  BY <1>2, DecideToCreateStep
<1>3. ASSUME NEW r \in Request, Insert(r) PROVE IInv'
  BY <1>3, InsertStep
<1>4. ASSUME NEW r \in Request, Reject(r) PROVE IInv'
  BY <1>4, StageStep DEF Reject, Stage
<1>5. ASSUME NEW r \in Request, Recheck(r) PROVE IInv'
  <2>1. CASE FindPair(r) # {}
    BY <1>5, <2>1, PruningStep DEF Recheck
  <2>2. CASE FindPair(r) = {}
    BY <1>5, <2>2, StageStep DEF Recheck, Stage
  <2> QED BY <2>1, <2>2
<1>6. ASSUME NEW r \in Request, PruneOne(r) PROVE IInv'
  BY <1>6, PruneOneStep
<1>7. ASSUME NEW r \in Request, Answer(r) PROVE IInv'
  BY <1>7, StageStep DEF Answer, Stage
<1>8. ASSUME NEW r \in Request, Die(r) PROVE IInv'
  BY <1>8, StageStep DEF Die, Stage
<1>9. ASSUME NEW s \in channels, Remove(s) PROVE IInv'
  BY <1>9, RemoveStep
<1>10. CASE Tick \/ UNCHANGED vars
  BY <1>10, IdleStep
<1> QED
  BY <1>1, <1>2, <1>3, <1>4, <1>5, <1>6, <1>7, <1>8, <1>9, <1>10 DEF Next

LEMMA Invariance == Spec => []IInv
BY InitIInv, NextIInv, PTL DEF Spec

\* A request holds only channels of its pair, and never deletes the one it
\* is going to return.
THEOREM DmTypeCorrect == Spec => []TypeOK
BY Invariance, PTL DEF IInv

\* However many requests prune at once, and wherever they die, the oldest
\* channel of a pair stands until its creator deletes it.
THEOREM OldestAlwaysStands == Spec => []OldestStands
BY Invariance, PTL DEF IInv

\* Once the requests of a pair are over, and none died, one channel is left.
THEOREM RaceResolves == Spec => []OneAtRest
<1>1. IInv => OneAtRest
  <2> SUFFICES ASSUME IInv, NEW s \in channels, NEW t \in channels, s # t,
                      Pair(s) = Pair(t)
               PROVE  \E r \in Request :
                        /\ Pair(r) = Pair(s)
                        /\ pc[r] \in {"inserted", "pruning", "lost"}
    BY DEF OneAtRest
  <2>1. Before(s, t) \/ Before(t, s)
    BY Ranked DEF IInv, TypeOK
  <2> QED BY <2>1 DEF IInv, ConvergeInv
<1> QED BY <1>1, Invariance, PTL
=============================================================================
