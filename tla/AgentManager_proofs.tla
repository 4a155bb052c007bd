------------------------- MODULE AgentManager_proofs -------------------------
(***************************************************************************)
(* Machine-checked proofs about module AgentManager, for any set of        *)
(* messages and any number of restarts, token refreshes and failed calls.  *)
(*                                                                         *)
(* The lemma of each action is laid out alike.  Steps named by a letter    *)
(* say what the action does to a part of the state, pointwise: <1>t are    *)
(* the types before it, <1>a what it leaves alone, <1>b the restarts,      *)
(* <1>n and <1>o the entries, <1>k, <1>v and <1>l where the messages are,  *)
(* <1>j the run file, <1>w and <1>h what is PATCHed, <1>i and <1>c what    *)
(* the invariant says of the entry at hand.  Steps <1>1 to <1>9 are then   *)
(* the nine parts of Inv, each from the few facts it needs.                *)
(***************************************************************************)
EXTENDS AgentManager, TLAPS

USE AgentAssumption

MaybeRun == Message \cup {None}

Entry == [live : BOOLEAN, wired : BOOLEAN, busy : BOOLEAN, cur : MaybeRun,
          queue : Seq(Message), inbox : Seq(Message)]

Restart == [old : Nat, session : Nat \ {0}, pending : Seq(Message),
            waiters : Seq(Message), state : {"open", "done", "abandoned"}]

PatchSet == [run : Message, status : {"running", "failed", "completed"},
             out : MaybeRun]

Types ==
  /\ runtime \in {"claude", "hermes"}
  /\ refreshes \in 0..MaxRefreshes /\ session \in 0..(refreshes + 1)
  /\ ent \in Seq(Entry) /\ entry \in 0..Len(ent)
  /\ restarts \in Seq(Restart) /\ spawning \in 0..Len(restarts)
  /\ stopping \in [e : 0..Len(ent), run : MaybeRun]
  /\ stage \in [Message -> Stages] /\ at \in [Message -> 0..Len(ent)]
  /\ runs \subseteq Message /\ wire \subseteq PatchSet
  /\ ctx \in [run : MaybeRun, out : MaybeRun]
  /\ server \in [Message -> Statuses] /\ lost \subseteq Message

\* What refers to what: every run that is named is one the bridge knows, and of
\* one message the server has a row; what the maps hold is wired, and what a
\* restart took out of them is not.
CurRef  == \A e \in 1..Len(ent) : ent[e].cur \in runs \cup {None}
WireRef == \A p \in wire : p.run \in runs
RunRef  == \A m \in runs : server[m] # "none" /\ stage[m] \notin {"new", "creating"}
AtRef   == \A m \in Message :
             /\ stage[m] \in {"starting", "unwinding"} => at[m] # 0
             /\ stage[m] = "unwinding" => runtime = "hermes"
FedRef  == \A e \in 1..Len(ent), m \in Message :
             m \in ToSet(ent[e].inbox) => at[m] # 0
OldRef  == \A i \in 1..Len(restarts) :
             restarts[i].old \in 1..Len(ent) /\ ~ent[restarts[i].old].wired
EntryRef == entry # 0 => ent[entry].wired

RefInv == CurRef /\ WireRef /\ RunRef /\ AtRef /\ FedRef /\ OldRef /\ EntryRef

\* Which of the maps may hold the agent at the same time.
MapInv ==
  /\ entry # 0 => session # 0 /\ spawning = 0
  /\ spawning # 0 => restarts[spawning].state = "open"
  /\ stopping.e # 0 => session = 0 /\ ent[stopping.e].wired
  /\ stopping.e = 0 => stopping = NoStop

\* What follows holds of the Claude runtime, of an agent that does not come back
\* while its child is still being shut down.
Orderly == runtime = "claude" /\ ~QuickReturn

\* A restart that is open is the one that dispatches wait for, or the agent is
\* gone; every child that lives has somebody who will shut it down.
OpenIsAwaited ==
  \A i \in 1..Len(restarts) :
    restarts[i].state = "open" /\ session # 0 => spawning = i
LiveIsHeld ==
  \A e \in 1..Len(ent) :
    ent[e].live => \/ e = entry \/ e = stopping.e
                   \/ \E i \in 1..Len(restarts) :
                        restarts[i].state = "open" /\ restarts[i].old = e

ChildInv == Orderly => OpenIsAwaited /\ LiveIsHeld

\* A message is at most on its way to a child or with it, and the entry is busy.
AtChild(m, e) == stage[m] = "starting" /\ at[m] = e

OneInbox == \A e \in 1..Len(ent) : Len(ent[e].inbox) <= 1
FedLives == \A e \in 1..Len(ent) : ent[e].inbox # <<>> => ent[e].live
NextWaits == \A e \in 1..Len(ent), m \in Message :
               AtChild(m, e) /\ ent[e].live => ent[e].inbox = <<>>
OneNext == \A e \in 1..Len(ent), m, n \in Message :
             AtChild(m, e) /\ AtChild(n, e) /\ ent[e].live => n = m
IdleIsFree == entry # 0 /\ ~ent[entry].busy =>
                /\ ent[entry].cur = None /\ ent[entry].inbox = <<>>
                /\ \A m \in Message : ~AtChild(m, entry)

TurnInv == Orderly => OneInbox /\ FedLives /\ NextWaits /\ OneNext /\ IdleIsFree

\* The run file names the turn that is on, for every child that could reply.
OutIsRun == ctx.out # None => ctx.out = ctx.run
FedIsRun == \A e \in 1..Len(ent) :
              ctx.run # None /\ ent[e].inbox # <<>> => Head(ent[e].inbox) = ctx.run
NextIsRun == \A e \in 1..Len(ent), m \in Message :
               ctx.run # None /\ AtChild(m, e) /\ ent[e].live => m = ctx.run

FileInv == Orderly => OutIsRun /\ FedIsRun /\ NextIsRun

\* The run that stopAgent fails first is failed, unless the call was lost.
StopInv ==
  stopping.e # 0 =>
    /\ stopping.run \in runs \cup {None}
    /\ ent[stopping.e].cur \in {None, stopping.run}
    /\ stopping.run # None =>
         \/ Awaited(stopping.run, "failed") \/ Closed(stopping.run)
         \/ stopping.run \in lost

\* Who still has to close a run, or gave it up: Closed, Tended and GivenUp.
InEnd(m)     == Closed(m) \/ m \in lost
AtStage(m)   == stage[m] \in {"creating", "created", "refused", "unwinding"}
IsTurn(m)    == \E e \in 1..Len(ent) : m = ent[e].cur /\ ent[e].wired
InQueue(m)   == entry # 0 /\ m \in ToSet(ent[entry].queue)
InStop(m)    == stopping.e # 0 /\ m \in ToSet(ent[stopping.e].queue)
WasTurn(m)   == \E i \in 1..Len(restarts) : ent[restarts[i].old].cur = m
IsCarried(m) == \E i \in 1..Len(restarts) :
                  \/ restarts[i].state # "done" /\ m \in ToSet(restarts[i].pending)
                  \/ restarts[i].state = "open" /\ m \in ToSet(restarts[i].waiters)
OnWire(m)    == \E p \in wire : p.run = m /\ p.status \in {"completed", "failed"}

Kept(m) == \/ InEnd(m) \/ AtStage(m) \/ IsTurn(m) \/ InQueue(m) \/ InStop(m)
           \/ WasTurn(m) \/ IsCarried(m) \/ OnWire(m)

KeptInv == Orderly => \A m \in runs : Kept(m)

OutputInv == Orderly => \A p \in wire : p.status = "completed" => p.out = p.run

Inv == /\ Types /\ RefInv /\ MapInv /\ StopInv
       /\ ChildInv /\ TurnInv /\ FileInv /\ OutputInv /\ KeptInv


-----------------------------------------------------------------------------
(* Entries *)

LEMMA NoneIsSeq == ASSUME NEW S PROVE <<>> \in Seq(S)
OBVIOUS

\* One element of a sequence is replaced.
LEMMA Put ==
  ASSUME NEW S, NEW s \in Seq(S), NEW e \in 1..Len(s), NEW x \in S,
         NEW t, t = [s EXCEPT ![e] = x]
  PROVE  /\ t \in Seq(S) /\ Len(t) = Len(s) /\ t[e] = x
         /\ \A y \in 1..Len(s) : y # e => t[y] = s[y]
OBVIOUS

\* One element is added at the end.
LEMMA Add ==
  ASSUME NEW S, NEW s \in Seq(S), NEW x \in S, NEW t, t = Append(s, x)
  PROVE  /\ t \in Seq(S) /\ Len(t) = Len(s) + 1 /\ t[Len(s) + 1] = x
         /\ \A y \in 1..Len(s) : t[y] = s[y]
OBVIOUS

LEMMA SetOfAdd ==
  ASSUME NEW S, NEW q \in Seq(S), NEW x \in S
  PROVE  /\ Append(q, x) \in Seq(S)
         /\ \A y : y \in ToSet(Append(q, x)) <=> y \in ToSet(q) \/ y = x
<1>1. /\ Append(q, x) \in Seq(S) /\ DOMAIN Append(q, x) = 1..(Len(q) + 1)
      /\ Append(q, x)[Len(q) + 1] = x /\ DOMAIN q = 1..Len(q) /\ Len(q) \in Nat
      /\ \A i \in 1..Len(q) : Append(q, x)[i] = q[i]
  OBVIOUS
<1>2. 1..(Len(q) + 1) = 1..Len(q) \cup {Len(q) + 1}
  BY <1>1
<1> QED BY <1>1, <1>2 DEF ToSet

LEMMA SetOfTail ==
  ASSUME NEW S, NEW q \in Seq(S), q # <<>>
  PROVE  /\ Head(q) \in S /\ Tail(q) \in Seq(S)
         /\ \A y : y \in ToSet(q) <=> y = Head(q) \/ y \in ToSet(Tail(q))
<1>1. /\ Len(q) \in Nat /\ Len(q) > 0 /\ Head(q) = q[1] /\ Tail(q) \in Seq(S)
      /\ DOMAIN q = 1..Len(q) /\ DOMAIN Tail(q) = 1..(Len(q) - 1)
      /\ \A i \in 1..(Len(q) - 1) : Tail(q)[i] = q[i + 1]
  OBVIOUS
<1>2. /\ \A i \in 1..Len(q) : i = 1 \/ (i - 1 \in 1..(Len(q) - 1) /\ (i - 1) + 1 = i)
      /\ \A i \in 1..(Len(q) - 1) : i + 1 \in 1..Len(q)
      /\ 1 \in 1..Len(q)
  BY <1>1
<1>3. \A y : y \in ToSet(q) => y = Head(q) \/ y \in ToSet(Tail(q))
  <2> SUFFICES ASSUME NEW i \in 1..Len(q), i # 1
               PROVE  q[i] \in ToSet(Tail(q))
    BY <1>1 DEF ToSet
  <2>1. i - 1 \in DOMAIN Tail(q) /\ Tail(q)[i - 1] = q[i]
    BY <1>1, <1>2
  <2> QED BY <2>1 DEF ToSet
<1>4. \A y : y = Head(q) \/ y \in ToSet(Tail(q)) => y \in ToSet(q)
  BY <1>1, <1>2 DEF ToSet
<1> QED BY <1>1, <1>3, <1>4

LEMMA SetOfBoth ==
  ASSUME NEW S, NEW q \in Seq(S), NEW r \in Seq(S)
  PROVE  /\ q \o r \in Seq(S)
         /\ \A y : y \in ToSet(q \o r) <=> y \in ToSet(q) \/ y \in ToSet(r)
<1>1. /\ q \o r \in Seq(S) /\ DOMAIN (q \o r) = 1..(Len(q) + Len(r))
      /\ \A i \in 1..Len(q) : (q \o r)[i] = q[i]
      /\ \A i \in 1..Len(r) : (q \o r)[Len(q) + i] = r[i]
      /\ Len(q) \in Nat /\ Len(r) \in Nat /\ DOMAIN q = 1..Len(q) /\ DOMAIN r = 1..Len(r)
  OBVIOUS
<1>2. /\ \A i \in 1..(Len(q) + Len(r)) :
            i \in 1..Len(q) \/ (i - Len(q) \in 1..Len(r) /\ Len(q) + (i - Len(q)) = i)
      /\ \A i \in 1..Len(r) : Len(q) + i \in 1..(Len(q) + Len(r))
      /\ \A i \in 1..Len(q) : i \in 1..(Len(q) + Len(r))
  BY <1>1
<1>3. \A y : y \in ToSet(q \o r) => y \in ToSet(q) \/ y \in ToSet(r)
  <2> SUFFICES ASSUME NEW i \in 1..(Len(q) + Len(r))
               PROVE  (q \o r)[i] \in ToSet(q) \/ (q \o r)[i] \in ToSet(r)
    BY <1>1 DEF ToSet
  <2>1. CASE i \in 1..Len(q)
    BY <1>1, <2>1 DEF ToSet
  <2>2. CASE i - Len(q) \in 1..Len(r) /\ Len(q) + (i - Len(q)) = i
    <3>1. (q \o r)[i] = r[i - Len(q)]
      BY <1>1, <2>2
    <3> QED BY <2>2, <3>1 DEF ToSet
  <2> QED BY <1>2, <2>1, <2>2
<1>4. \A y \in ToSet(q) : y \in ToSet(q \o r)
  BY <1>1, <1>2 DEF ToSet
<1>5. \A y \in ToSet(r) : y \in ToSet(q \o r)
  BY SMTT(30), <1>1, <1>2 DEF ToSet
<1> QED BY <1>1, <1>3, <1>4, <1>5

LEMMA SetOfNone == ToSet(<<>>) = {}
BY DEF ToSet

\* A PATCH that is sent is one for a run the bridge knows.
LEMMA PatchFacts ==
  ASSUME NEW m \in MaybeRun, NEW s \in {"running", "failed"},
         runs \subseteq Message
  PROVE  /\ Patch(m, s) \subseteq PatchSet
         /\ \A p \in Patch(m, s) : p.run = m /\ p.run \in runs /\ p.status = s
         /\ m \in runs => \E p \in Patch(m, s) : p.run = m /\ p.status = s
<1> DEFINE x == [run |-> m, status |-> s, out |-> None]
<1>1. CASE m \in runs
  <2>1. Patch(m, s) = {x}
    BY <1>1 DEF Patch
  <2>2. x \in PatchSet /\ x.run = m /\ x.status = s
    BY <1>1 DEF PatchSet, MaybeRun
  <2> QED BY <1>1, <2>1, <2>2
<1>2. CASE m \notin runs
  BY <1>2 DEF Patch
<1> QED BY <1>1, <1>2

\* What FailQueue sends: one PATCH for every run of the queue.
LEMMA QueueFails ==
  ASSUME NEW q \in Seq(Message), runs \subseteq Message
  PROVE  /\ FailQueue(q) \subseteq PatchSet
         /\ \A p \in FailQueue(q) : p.run \in runs /\ p.status = "failed"
         /\ \A m \in ToSet(q) \cap runs :
              \E p \in FailQueue(q) : p.run = m /\ p.status = "failed"
<1>1. FailQueue(q) = {[run |-> m, status |-> "failed", out |-> None] :
                        m \in ToSet(q) \cap runs}
  BY DEF FailQueue, Patch, ToSet
<1> DEFINE X(m) == [run |-> m, status |-> "failed", out |-> None]
<1>2. \A m \in runs : X(m) \in PatchSet /\ X(m).run = m /\ X(m).status = "failed"
  BY DEF PatchSet, MaybeRun
<1>3. FailQueue(q) = {X(m) : m \in ToSet(q) \cap runs}
  BY <1>1
<1> HIDE DEF X
<1> QED BY <1>2, <1>3

\* What sending message m to entry e does, to the entries and stages it is given.
Sends(m, e, es, st, ps) ==
  /\ ent' \in Seq(Entry) /\ Len(ent') = Len(es)
  /\ \A y \in 1..Len(es) : y # e => ent'[y] = es[y]
  /\ ent'[e].live = es[e].live /\ ent'[e].wired = es[e].wired
  /\ ent'[e].busy = TRUE /\ ent'[e].cur = RunOf(m)
  /\ ent'[e].queue = es[e].queue /\ ent'[e].inbox = es[e].inbox
  /\ m \in runs => RunOf(m) = m
  /\ m \notin runs => RunOf(m) = None
  /\ RunOf(m) \in MaybeRun
  /\ stage' \in [Message -> Stages] /\ stage'[m] = "starting"
  /\ \A n \in Message : n # m => stage'[n] = st[n]
  /\ at' \in [Message -> Nat] /\ at'[m] = e
  /\ \A n \in Message : n # m => at'[n] = at[n]
  /\ ctx' \in [run : MaybeRun, out : MaybeRun]
  /\ ctx'.run = RunOf(m) /\ ctx'.out = None
  /\ wire' = wire \cup ps \cup Patch(m, "running")

LEMMA SendNowFacts ==
  ASSUME NEW es \in Seq(Entry), NEW e \in 1..Len(es), NEW m \in Message,
         NEW st \in [Message -> Stages], NEW ps,
         runs \subseteq Message, at \in [Message -> Nat], SendNow(m, e, es, st, ps)
  PROVE  Sends(m, e, es, st, ps)
<1> DEFINE x == [es[e] EXCEPT !.busy = TRUE, !.cur = RunOf(m)]
<1>1. /\ m \in runs => RunOf(m) = m
      /\ m \notin runs => RunOf(m) = None
      /\ RunOf(m) \in MaybeRun
  BY DEF RunOf, MaybeRun
<1>2. es[e] \in Entry
  OBVIOUS
<1>3. /\ x \in Entry /\ x.busy = TRUE /\ x.cur = RunOf(m)
      /\ x.live = es[e].live /\ x.wired = es[e].wired
      /\ x.queue = es[e].queue /\ x.inbox = es[e].inbox
  BY <1>1, <1>2 DEF Entry
<1>4. ent' = [es EXCEPT ![e] = x]
  BY DEF SendNow
<1>5. /\ stage' = [st EXCEPT ![m] = "starting"] /\ at' = [at EXCEPT ![m] = e]
      /\ ctx' = [run |-> RunOf(m), out |-> None]
      /\ wire' = wire \cup ps \cup Patch(m, "running")
  BY DEF SendNow, FreshContext
<1> HIDE DEF x
<1>6. /\ ent' \in Seq(Entry) /\ Len(ent') = Len(es) /\ ent'[e] = x
      /\ \A y \in 1..Len(es) : y # e => ent'[y] = es[y]
  BY <1>3, <1>4, Put
<1>7. /\ stage' \in [Message -> Stages] /\ stage'[m] = "starting"
      /\ \A n \in Message : n # m => stage'[n] = st[n]
  BY <1>5 DEF Stages
<1>8. /\ at' \in [Message -> Nat] /\ at'[m] = e
      /\ \A n \in Message : n # m => at'[n] = at[n]
  BY <1>5
<1>9. /\ ctx' \in [run : MaybeRun, out : MaybeRun]
      /\ ctx'.run = RunOf(m) /\ ctx'.out = None
  BY <1>1, <1>5 DEF MaybeRun
<1> QED BY <1>1, <1>3, <1>5, <1>6, <1>7, <1>9 DEF Sends

\* The PATCH of turn_complete.
EndOfTurn(run) ==
  LET out == IF run # None /\ ctx.run = run THEN ctx.out ELSE None
  IN IF run = None THEN {}
     ELSE {[run |-> run, out |-> out,
            status |-> IF out = None THEN "failed" ELSE "completed"]}

LEMMA EndFacts ==
  ASSUME NEW run \in runs \cup {None}, runs \subseteq Message,
         ctx \in [run : MaybeRun, out : MaybeRun]
  PROVE  /\ EndOfTurn(run) \subseteq PatchSet
         /\ \A p \in EndOfTurn(run) :
              /\ p.run = run /\ p.run \in runs /\ p.status \in {"completed", "failed"}
              /\ p.status = "completed" =>
                   p.out # None /\ p.out = ctx.out /\ p.run = ctx.run
         /\ run \in runs => \E p \in EndOfTurn(run) : p.run = run
<1> DEFINE out == IF run # None /\ ctx.run = run THEN ctx.out ELSE None
           x == [run |-> run, out |-> out,
                 status |-> IF out = None THEN "failed" ELSE "completed"]
<1>1. CASE run = None
  BY <1>1 DEF EndOfTurn
<1>2. CASE run # None
  <2>1. EndOfTurn(run) = {x}
    BY <1>2 DEF EndOfTurn
  <2>2. run \in Message /\ run \in runs /\ out \in MaybeRun
    BY <1>2 DEF MaybeRun
  <2>3. out # None => out = ctx.out /\ run = ctx.run
    BY <1>2
  <2> HIDE DEF out
  <2>4. /\ x \in PatchSet /\ x.run = run /\ x.status \in {"completed", "failed"}
        /\ x.out = out /\ (x.status = "completed" => out # None)
    BY <2>2 DEF PatchSet, MaybeRun
  <2> HIDE DEF x
  <2> QED BY <2>1, <2>2, <2>3, <2>4
<1> QED BY <1>1, <1>2


\* A sequence of entries in which at most e differs, and what an entry holds.
Same(s, t, e) ==
  t \in Seq(Entry) /\ Len(t) = Len(s) /\ \A y \in 1..Len(s) : y # e => t[y] = s[y]

Has(x, live, wired, busy, cur, queue, inbox) ==
  /\ x.live = live /\ x.wired = wired /\ x.busy = busy
  /\ x.cur = cur /\ x.queue = queue /\ x.inbox = inbox


Popped(s, e) == [s EXCEPT ![e].inbox = Tail(@)]

LEMMA PoppedFacts ==
  ASSUME NEW s \in Seq(Entry), NEW e \in 1..Len(s), s[e].inbox # <<>>
  PROVE  /\ Same(s, Popped(s, e), e)
         /\ Has(Popped(s, e)[e], s[e].live, s[e].wired, s[e].busy, s[e].cur, s[e].queue, Tail(s[e].inbox))
<1> DEFINE x == [s[e] EXCEPT !.inbox = Tail(@)]
<1>0. s[e] \in Entry
  OBVIOUS
<1>1. s[e] \in Entry /\ s[e].inbox \in Seq(Message) /\ s[e].queue \in Seq(Message)
  BY <1>0 DEF Entry
<1>2. Tail(s[e].inbox) \in Seq(Message)
  BY <1>1
<1>3. x \in Entry /\ Has(x, s[e].live, s[e].wired, s[e].busy, s[e].cur, s[e].queue, Tail(s[e].inbox))
  BY <1>1, <1>2 DEF Entry, Has, MaybeRun
<1>4. Popped(s, e) = [s EXCEPT ![e] = x]
  BY DEF Popped
<1> HIDE DEF x
<1>5. Same(s, Popped(s, e), e) /\ Popped(s, e)[e] = x
  BY <1>3, <1>4, Put DEF Same
<1> QED BY <1>3, <1>5

Taken(s, e) == [s EXCEPT ![e].queue = Tail(@)]

LEMMA TakenFacts ==
  ASSUME NEW s \in Seq(Entry), NEW e \in 1..Len(s), s[e].queue # <<>>
  PROVE  /\ Same(s, Taken(s, e), e)
         /\ Has(Taken(s, e)[e], s[e].live, s[e].wired, s[e].busy, s[e].cur, Tail(s[e].queue), s[e].inbox)
<1> DEFINE x == [s[e] EXCEPT !.queue = Tail(@)]
<1>0. s[e] \in Entry
  OBVIOUS
<1>1. s[e] \in Entry /\ s[e].inbox \in Seq(Message) /\ s[e].queue \in Seq(Message)
  BY <1>0 DEF Entry
<1>2. Tail(s[e].queue) \in Seq(Message)
  BY <1>1
<1>3. x \in Entry /\ Has(x, s[e].live, s[e].wired, s[e].busy, s[e].cur, Tail(s[e].queue), s[e].inbox)
  BY <1>1, <1>2 DEF Entry, Has, MaybeRun
<1>4. Taken(s, e) = [s EXCEPT ![e] = x]
  BY DEF Taken
<1> HIDE DEF x
<1>5. Same(s, Taken(s, e), e) /\ Taken(s, e)[e] = x
  BY <1>3, <1>4, Put DEF Same
<1> QED BY <1>3, <1>5

Fed(s, e, m) == [s EXCEPT ![e].inbox = Append(@, m)]

LEMMA FedFacts ==
  ASSUME NEW s \in Seq(Entry), NEW e \in 1..Len(s), NEW m \in Message
  PROVE  /\ Same(s, Fed(s, e, m), e)
         /\ Has(Fed(s, e, m)[e], s[e].live, s[e].wired, s[e].busy, s[e].cur, s[e].queue, Append(s[e].inbox, m))
<1> DEFINE x == [s[e] EXCEPT !.inbox = Append(@, m)]
<1>0. s[e] \in Entry
  OBVIOUS
<1>1. s[e] \in Entry /\ s[e].inbox \in Seq(Message) /\ s[e].queue \in Seq(Message)
  BY <1>0 DEF Entry
<1>2. Append(s[e].inbox, m) \in Seq(Message)
  BY <1>1
<1>3. x \in Entry /\ Has(x, s[e].live, s[e].wired, s[e].busy, s[e].cur, s[e].queue, Append(s[e].inbox, m))
  BY <1>1, <1>2 DEF Entry, Has, MaybeRun
<1>4. Fed(s, e, m) = [s EXCEPT ![e] = x]
  BY DEF Fed
<1> HIDE DEF x
<1>5. Same(s, Fed(s, e, m), e) /\ Fed(s, e, m)[e] = x
  BY <1>3, <1>4, Put DEF Same
<1> QED BY <1>3, <1>5

Queued(s, e, m) == [s EXCEPT ![e].queue = Append(@, m)]

LEMMA QueuedFacts ==
  ASSUME NEW s \in Seq(Entry), NEW e \in 1..Len(s), NEW m \in Message
  PROVE  /\ Same(s, Queued(s, e, m), e)
         /\ Has(Queued(s, e, m)[e], s[e].live, s[e].wired, s[e].busy, s[e].cur, Append(s[e].queue, m), s[e].inbox)
<1> DEFINE x == [s[e] EXCEPT !.queue = Append(@, m)]
<1>0. s[e] \in Entry
  OBVIOUS
<1>1. s[e] \in Entry /\ s[e].inbox \in Seq(Message) /\ s[e].queue \in Seq(Message)
  BY <1>0 DEF Entry
<1>2. Append(s[e].queue, m) \in Seq(Message)
  BY <1>1
<1>3. x \in Entry /\ Has(x, s[e].live, s[e].wired, s[e].busy, s[e].cur, Append(s[e].queue, m), s[e].inbox)
  BY <1>1, <1>2, NoneIsSeq DEF Entry, Has
<1>4. Queued(s, e, m) = [s EXCEPT ![e] = x]
  BY DEF Queued
<1> HIDE DEF x
<1>5. Same(s, Queued(s, e, m), e) /\ Queued(s, e, m)[e] = x
  BY <1>3, <1>4, Put DEF Same
<1> QED BY <1>3, <1>5

TurnOver(s, e, c) == [s EXCEPT ![e].busy = FALSE, ![e].cur = c]

LEMMA TurnOverFacts ==
  ASSUME NEW s \in Seq(Entry), NEW e \in 1..Len(s), NEW c \in MaybeRun
  PROVE  /\ Same(s, TurnOver(s, e, c), e)
         /\ Has(TurnOver(s, e, c)[e], s[e].live, s[e].wired, FALSE, c, s[e].queue, s[e].inbox)
<1> DEFINE x == [s[e] EXCEPT !.busy = FALSE, !.cur = c]
<1>0. s[e] \in Entry
  OBVIOUS
<1>1. s[e] \in Entry /\ s[e].inbox \in Seq(Message) /\ s[e].queue \in Seq(Message)
  BY <1>0 DEF Entry
<1>3. x \in Entry /\ Has(x, s[e].live, s[e].wired, FALSE, c, s[e].queue, s[e].inbox)
  BY <1>1, NoneIsSeq DEF Entry, Has, MaybeRun
<1>4. TurnOver(s, e, c) = [s EXCEPT ![e] = x]
  BY DEF TurnOver
<1> HIDE DEF x
<1>5. Same(s, TurnOver(s, e, c), e) /\ TurnOver(s, e, c)[e] = x
  BY <1>3, <1>4, Put DEF Same
<1> QED BY <1>3, <1>5

Downed(s, e) == [s EXCEPT ![e].live = FALSE, ![e].inbox = <<>>]

LEMMA DownedFacts ==
  ASSUME NEW s \in Seq(Entry), NEW e \in 1..Len(s)
  PROVE  /\ Same(s, Downed(s, e), e)
         /\ Has(Downed(s, e)[e], FALSE, s[e].wired, s[e].busy, s[e].cur, s[e].queue, <<>>)
<1> DEFINE x == [s[e] EXCEPT !.live = FALSE, !.inbox = <<>>]
<1>0. s[e] \in Entry
  OBVIOUS
<1>1. s[e] \in Entry /\ s[e].inbox \in Seq(Message) /\ s[e].queue \in Seq(Message)
  BY <1>0 DEF Entry
<1>3. x \in Entry /\ Has(x, FALSE, s[e].wired, s[e].busy, s[e].cur, s[e].queue, <<>>)
  BY <1>1, NoneIsSeq DEF Entry, Has, MaybeRun
<1>4. Downed(s, e) = [s EXCEPT ![e] = x]
  BY DEF Downed
<1> HIDE DEF x
<1>5. Same(s, Downed(s, e), e) /\ Downed(s, e)[e] = x
  BY <1>3, <1>4, Put DEF Same
<1> QED BY <1>3, <1>5

Cleared(s, e) == [s EXCEPT ![e].cur = None, ![e].queue = <<>>]

LEMMA ClearedFacts ==
  ASSUME NEW s \in Seq(Entry), NEW e \in 1..Len(s)
  PROVE  /\ Same(s, Cleared(s, e), e)
         /\ Has(Cleared(s, e)[e], s[e].live, s[e].wired, s[e].busy, None, <<>>, s[e].inbox)
<1> DEFINE x == [s[e] EXCEPT !.cur = None, !.queue = <<>>]
<1>0. s[e] \in Entry
  OBVIOUS
<1>1. s[e] \in Entry /\ s[e].inbox \in Seq(Message) /\ s[e].queue \in Seq(Message)
  BY <1>0 DEF Entry
<1>3. x \in Entry /\ Has(x, s[e].live, s[e].wired, s[e].busy, None, <<>>, s[e].inbox)
  BY <1>1, NoneIsSeq DEF Entry, Has, MaybeRun
<1>4. Cleared(s, e) = [s EXCEPT ![e] = x]
  BY DEF Cleared
<1> HIDE DEF x
<1>5. Same(s, Cleared(s, e), e) /\ Cleared(s, e)[e] = x
  BY <1>3, <1>4, Put DEF Same
<1> QED BY <1>3, <1>5

Unwired(s, e) == [s EXCEPT ![e].wired = FALSE, ![e].queue = <<>>]

LEMMA UnwiredFacts ==
  ASSUME NEW s \in Seq(Entry), NEW e \in 1..Len(s)
  PROVE  /\ Same(s, Unwired(s, e), e)
         /\ Has(Unwired(s, e)[e], s[e].live, FALSE, s[e].busy, s[e].cur, <<>>, s[e].inbox)
<1> DEFINE x == [s[e] EXCEPT !.wired = FALSE, !.queue = <<>>]
<1>0. s[e] \in Entry
  OBVIOUS
<1>1. s[e] \in Entry /\ s[e].inbox \in Seq(Message) /\ s[e].queue \in Seq(Message)
  BY <1>0 DEF Entry
<1>3. x \in Entry /\ Has(x, s[e].live, FALSE, s[e].busy, s[e].cur, <<>>, s[e].inbox)
  BY <1>1, NoneIsSeq DEF Entry, Has, MaybeRun
<1>4. Unwired(s, e) = [s EXCEPT ![e] = x]
  BY DEF Unwired
<1> HIDE DEF x
<1>5. Same(s, Unwired(s, e), e) /\ Unwired(s, e)[e] = x
  BY <1>3, <1>4, Put DEF Same
<1> QED BY <1>3, <1>5

Disposed(s, e, q) == [s EXCEPT ![e].cur = None, ![e].queue = <<>>, ![e].wired = FALSE, ![e].live = FALSE, ![e].inbox = q]

LEMMA DisposedFacts ==
  ASSUME NEW s \in Seq(Entry), NEW e \in 1..Len(s), NEW q \in Seq(Message)
  PROVE  /\ Same(s, Disposed(s, e, q), e)
         /\ Has(Disposed(s, e, q)[e], FALSE, FALSE, s[e].busy, None, <<>>, q)
<1> DEFINE x == [s[e] EXCEPT !.cur = None, !.queue = <<>>, !.wired = FALSE, !.live = FALSE, !.inbox = q]
<1>0. s[e] \in Entry
  OBVIOUS
<1>1. s[e] \in Entry /\ s[e].inbox \in Seq(Message) /\ s[e].queue \in Seq(Message)
  BY <1>0 DEF Entry
<1>3. x \in Entry /\ Has(x, FALSE, FALSE, s[e].busy, None, <<>>, q)
  BY <1>1, NoneIsSeq DEF Entry, Has, MaybeRun
<1>4. Disposed(s, e, q) = [s EXCEPT ![e] = x]
  BY DEF Disposed
<1> HIDE DEF x
<1>5. Same(s, Disposed(s, e, q), e) /\ Disposed(s, e, q)[e] = x
  BY <1>3, <1>4, Put DEF Same
<1> QED BY <1>3, <1>5

\* What the exit listener of a wired entry does.
Exits(e, es, st, ps) ==
  /\ Same(es, ent', e)
  /\ Has(ent'[e], es[e].live, es[e].wired, es[e].busy, None, <<>>, es[e].inbox)
  /\ stage' \in [Message -> Stages]
  /\ \A n \in Message :
       stage'[n] = IF n \in ToSet(ent[e].queue) THEN "over" ELSE st[n]
  /\ wire \cup ps \subseteq wire'
  /\ \A p \in wire' : \/ p \in wire \cup ps
                      \/ p \in PatchSet /\ p.run \in runs /\ p.status = "failed"
  /\ \A m \in runs : m \in ToSet(ent[e].queue) \/ m = ent[e].cur =>
       \E p \in wire' : p.run = m /\ p.status = "failed"
  /\ ctx' = ctx \/ ctx' = NoContext
  /\ ctx' \in [run : MaybeRun, out : MaybeRun]
  /\ entry' = IF entry = e THEN 0 ELSE entry

LEMMA ExitFacts ==
  ASSUME NEW es \in Seq(Entry), NEW e \in 1..Len(es), Len(es) = Len(ent),
         NEW st \in [Message -> Stages], NEW ps, ent \in Seq(Entry),
         runs \subseteq Message, ctx \in [run : MaybeRun, out : MaybeRun],
         ent[e].cur \in runs \cup {None}, ent[e].wired,
         ExitListener(e, es, st, ps)
  PROVE  Exits(e, es, st, ps)
<1> DEFINE cs == IF ent[e].cur = None THEN {} ELSE Patch(ent[e].cur, "failed")
           fs == FailQueue(ent[e].queue)
           q == ent[e].queue
<1>1. ent[e] \in Entry
  OBVIOUS
<1>2. q \in Seq(Message)
  BY <1>1 DEF Entry
<1>3. /\ fs \subseteq PatchSet
      /\ \A p \in fs : p.run \in runs /\ p.status = "failed"
      /\ \A m \in ToSet(q) \cap runs : \E p \in fs : p.run = m /\ p.status = "failed"
  BY <1>2, QueueFails
<1>4. /\ cs \subseteq PatchSet
      /\ \A p \in cs : p.run \in runs /\ p.status = "failed"
      /\ ent[e].cur \in runs => \E p \in cs : p.run = ent[e].cur /\ p.status = "failed"
  BY PatchFacts DEF MaybeRun
<1>5. /\ ent' = Cleared(es, e) /\ wire' = wire \cup ps \cup fs \cup cs
      /\ stage' = [m \in Message |-> IF m \in ToSet(q) THEN "over" ELSE st[m]]
      /\ ctx' = IF ent[e].cur = None THEN ctx ELSE NoContext
      /\ entry' = IF entry = e THEN 0 ELSE entry
  BY DEF ExitListener, Cleared
<1>6. ctx' \in [run : MaybeRun, out : MaybeRun] /\ (ctx' = ctx \/ ctx' = NoContext)
  BY <1>5 DEF NoContext, MaybeRun
<1> HIDE DEF cs, fs
<1>7. /\ wire \cup ps \subseteq wire'
      /\ \A p \in wire' : \/ p \in wire \cup ps
                          \/ p \in PatchSet /\ p.run \in runs /\ p.status = "failed"
      /\ \A m \in runs : m \in ToSet(q) \/ m = ent[e].cur =>
           \E p \in wire' : p.run = m /\ p.status = "failed"
  BY <1>3, <1>4, <1>5
<1>8. /\ stage' \in [Message -> Stages]
      /\ \A n \in Message : stage'[n] = IF n \in ToSet(q) THEN "over" ELSE st[n]
  BY <1>5 DEF Stages
<1>9. /\ Same(es, ent', e)
      /\ Has(ent'[e], es[e].live, es[e].wired, es[e].busy, None, <<>>, es[e].inbox)
  BY <1>5, ClearedFacts
<1> QED BY <1>5, <1>6, <1>7, <1>8, <1>9 DEF Exits


Unwound(s, e, m) == [s EXCEPT ![e].busy = FALSE, ![e].cur = IF s[e].cur = RunOf(m) THEN None ELSE @]

LEMMA UnwoundFacts ==
  ASSUME NEW s \in Seq(Entry), NEW e \in 1..Len(s), NEW m \in Message
  PROVE  /\ Same(s, Unwound(s, e, m), e)
         /\ Has(Unwound(s, e, m)[e], s[e].live, s[e].wired, FALSE, IF s[e].cur = RunOf(m) THEN None ELSE s[e].cur, s[e].queue, s[e].inbox)
<1> DEFINE x == [s[e] EXCEPT !.busy = FALSE, !.cur = IF s[e].cur = RunOf(m) THEN None ELSE @]
<1>0. s[e] \in Entry
  OBVIOUS
<1>1. s[e] \in Entry /\ s[e].inbox \in Seq(Message) /\ s[e].queue \in Seq(Message)
  BY <1>0 DEF Entry
<1>3. x \in Entry /\ Has(x, s[e].live, s[e].wired, FALSE, IF s[e].cur = RunOf(m) THEN None ELSE s[e].cur, s[e].queue, s[e].inbox)
  BY <1>1, NoneIsSeq DEF Entry, Has, MaybeRun
<1>4. Unwound(s, e, m) = [s EXCEPT ![e] = x]
  BY DEF Unwound
<1> HIDE DEF x
<1>5. Same(s, Unwound(s, e, m), e) /\ Unwound(s, e, m)[e] = x
  BY <1>3, <1>4, Put DEF Same
<1> QED BY <1>3, <1>5

LEMMA DispatchStep ==
  ASSUME Inv, NEW m \in Message, Dispatch(m)
  PROVE  Inv'
<1> USE DEF vars, regVars, restartVars, turnVars, apiVars
<1>t. /\ ent \in Seq(Entry) /\ Len(ent) \in Nat /\ DOMAIN ent = 1..Len(ent)
      /\ restarts \in Seq(Restart) /\ Len(restarts) \in Nat
      /\ DOMAIN restarts = 1..Len(restarts) /\ runs \subseteq Message
      /\ \A y \in 1..Len(ent) : ent[y] \in Entry
      /\ \A y \in 1..Len(restarts) : restarts[y] \in Restart
      /\ entry \in 0..Len(ent) /\ spawning \in 0..Len(restarts)
      /\ stopping.e \in 0..Len(ent)
  BY DEF Inv, Types
<1>a. UNCHANGED <<regVars, restartVars, apiVars, entry, ent, at, wire, ctx>>
  BY DEF Dispatch
<1>b. /\ stage[m] = "new" /\ stage' \in [Message -> Stages] /\ stage'[m] = "creating"
      /\ \A n \in Message : n # m => stage'[n] = stage[n]
  BY DEF Inv, Types, Stages, Dispatch
<1>1. Types'
  BY <1>a, <1>b DEF Inv, Types, MaybeRun
<1>2. RefInv'
  <2>1. CurRef'
    BY <1>t, <1>a DEF Inv, RefInv, CurRef
  <2>2. WireRef'
    BY <1>t, <1>a DEF Inv, RefInv, WireRef
  <2>3. RunRef'
    BY <1>t, <1>a, <1>b DEF Inv, RefInv, RunRef
  <2>4. AtRef'
    BY <1>a, <1>b DEF Inv, RefInv, AtRef
  <2>5. FedRef'
    BY <1>t, <1>a DEF Inv, RefInv, FedRef
  <2>6. OldRef'
    BY <1>t, <1>a DEF Inv, RefInv, OldRef
  <2>7. EntryRef'
    BY <1>t, <1>a DEF Inv, RefInv, EntryRef
  <2> QED BY <2>1, <2>2, <2>3, <2>4, <2>5, <2>6, <2>7 DEF RefInv
<1>3. MapInv'
  BY <1>a DEF Inv, RefInv, EntryRef, MapInv
<1>4. StopInv'
  BY <1>a DEF Inv, StopInv, Awaited, Closed
<1>5. ChildInv'
  <2> SUFFICES ASSUME Orderly
               PROVE  OpenIsAwaited' /\ LiveIsHeld'
    BY <1>a DEF ChildInv, Orderly
  <2>0. OpenIsAwaited /\ LiveIsHeld
    BY DEF Inv, ChildInv
  <2>1. OpenIsAwaited'
    BY <1>a, <2>0 DEF Inv, OpenIsAwaited, Has
  <2>2. LiveIsHeld'
    BY <1>t, <1>a, <2>0 DEF Inv, LiveIsHeld
  <2> QED BY <2>1, <2>2
<1>6. TurnInv'
  <2> SUFFICES ASSUME Orderly
               PROVE  OneInbox' /\ FedLives' /\ NextWaits' /\ OneNext' /\ IdleIsFree'
    BY <1>a DEF TurnInv, Orderly
  <2>0. OneInbox /\ FedLives /\ NextWaits /\ OneNext /\ IdleIsFree
    BY DEF Inv, TurnInv
  <2>1. OneInbox'
    BY <1>t, <1>a, <2>0 DEF Inv, OneInbox
  <2>2. FedLives'
    BY <1>t, <1>a, <2>0 DEF Inv, FedLives
  <2>3. NextWaits'
    BY <1>a, <1>b, <2>0 DEF NextWaits, AtChild
  <2>4. OneNext'
    BY <1>a, <1>b, <2>0 DEF OneNext, AtChild
  <2>5. IdleIsFree'
    BY <1>a, <1>b, <2>0 DEF IdleIsFree, AtChild
  <2> QED BY <2>1, <2>2, <2>3, <2>4, <2>5
<1>7. FileInv'
  <2> SUFFICES ASSUME Orderly
               PROVE  OutIsRun' /\ FedIsRun' /\ NextIsRun'
    BY <1>a DEF FileInv, Orderly
  <2>0. OutIsRun /\ FedIsRun /\ NextIsRun
    BY DEF Inv, FileInv
  <2>1. OutIsRun'
    BY <1>t, <1>a, <2>0 DEF Inv, OutIsRun
  <2>2. FedIsRun'
    BY <1>t, <1>a, <2>0 DEF Inv, FedIsRun
  <2>3. NextIsRun'
    BY <1>a, <1>b, <2>0 DEF NextIsRun, AtChild
  <2> QED BY <2>1, <2>2, <2>3
<1>8. OutputInv'
  BY <1>t, <1>a DEF Inv, Orderly, OutputInv
<1>9. KeptInv'
  <2> SUFFICES ASSUME Orderly, NEW q \in runs'
               PROVE  Kept(q)'
    BY <1>a DEF KeptInv, Orderly
  <2>0. q \in Message /\ (q \in runs => Kept(q))
    BY <1>t, <1>a, <1>b DEF Inv, KeptInv
  <2>1. ASSUME InEnd(q) PROVE  Kept(q)'
    BY <2>1, <1>a DEF Kept, InEnd, Closed
  <2>2. ASSUME AtStage(q) PROVE  Kept(q)'
    BY <2>2, <2>0, <1>b DEF Kept, AtStage
  <2>3. ASSUME IsTurn(q) PROVE  Kept(q)'
    BY <2>3, <1>t, <1>a DEF Kept, IsTurn
  <2>4. ASSUME InQueue(q) PROVE  Kept(q)'
    BY <2>4, <2>0, <1>a DEF Kept, InQueue
  <2>5. ASSUME InStop(q) PROVE  Kept(q)'
    BY <2>5, <2>0, <1>a DEF Kept, InStop
  <2>6. ASSUME WasTurn(q) PROVE  Kept(q)'
    BY <2>6, <1>a DEF Kept, WasTurn
  <2>7. ASSUME IsCarried(q) PROVE  Kept(q)'
    BY <2>7, <1>t, <1>a DEF Kept, IsCarried
  <2>8. ASSUME OnWire(q) PROVE  Kept(q)'
    BY <2>8, <2>0, <1>a DEF Kept, OnWire
  <2> QED BY <2>0, <1>a, <2>1, <2>2, <2>3, <2>4, <2>5, <2>6, <2>7, <2>8 DEF Kept
<1> QED BY <1>1, <1>2, <1>3, <1>4, <1>5, <1>6, <1>7, <1>8, <1>9 DEF Inv

LEMMA CreateRunStep ==
  ASSUME Inv, NEW m \in Message, CreateRun(m)
  PROVE  Inv'
<1> USE DEF vars, regVars, restartVars, turnVars, apiVars
<1>t. /\ ent \in Seq(Entry) /\ Len(ent) \in Nat /\ DOMAIN ent = 1..Len(ent)
      /\ restarts \in Seq(Restart) /\ Len(restarts) \in Nat
      /\ DOMAIN restarts = 1..Len(restarts) /\ runs \subseteq Message
      /\ \A y \in 1..Len(ent) : ent[y] \in Entry
      /\ \A y \in 1..Len(restarts) : restarts[y] \in Restart
      /\ entry \in 0..Len(ent) /\ spawning \in 0..Len(restarts)
      /\ stopping.e \in 0..Len(ent)
  BY DEF Inv, Types
<1>a. UNCHANGED <<regVars, restartVars, entry, ent, at, wire, ctx>>
  BY DEF CreateRun
<1>b. /\ stage[m] = "creating" /\ stage' \in [Message -> Stages] /\ stage'[m] = "created"
      /\ \A n \in Message : n # m => stage'[n] = stage[n]
  BY DEF Inv, Types, Stages, CreateRun
<1>c. /\ runs \subseteq runs' /\ runs' \subseteq runs \cup {m}
      /\ lost \subseteq lost' /\ lost' \subseteq lost \cup {m}
  BY DEF CreateRun
<1>d. m \notin runs /\ lost \subseteq Message /\ server \in [Message -> Statuses]
  BY <1>b DEF Inv, Types, RefInv, RunRef
<1>e. /\ server' = server \/ server' = [server EXCEPT ![m] = "queued"]
      /\ m \in runs' => server' = [server EXCEPT ![m] = "queued"]
  BY <1>d DEF CreateRun
<1>f. /\ server' \in [Message -> Statuses]
      /\ m \in runs' => server'[m] = "queued"
      /\ \A n \in Message : n # m => server'[n] = server[n]
  BY <1>d, <1>e DEF Statuses
<1>1. Types'
  BY <1>a, <1>b, <1>c, <1>f DEF Inv, Types, PatchSet, Same, Has
<1>2. RefInv'
  <2>1. CurRef'
    BY <1>a, <1>c DEF Inv, RefInv, CurRef
  <2>2. WireRef'
    BY <1>a, <1>c DEF Inv, RefInv, WireRef
  <2>3. RunRef'
    BY <1>t, <1>b, <1>c, <1>f DEF Inv, RefInv, RunRef
  <2>4. AtRef'
    BY <1>a, <1>b DEF Inv, RefInv, AtRef
  <2>5. FedRef'
    BY <1>t, <1>a DEF Inv, RefInv, FedRef
  <2>6. OldRef'
    BY <1>t, <1>a DEF Inv, RefInv, OldRef
  <2>7. EntryRef'
    BY <1>t, <1>a DEF Inv, RefInv, EntryRef
  <2> QED BY <2>1, <2>2, <2>3, <2>4, <2>5, <2>6, <2>7 DEF RefInv
<1>3. MapInv'
  BY <1>t, <1>a DEF Inv, RefInv, MapInv
<1>4. StopInv'
  BY <1>t, <1>a, <1>c, <1>d, <1>f DEF Inv, StopInv, Awaited, Closed
<1>5. ChildInv'
  <2> SUFFICES ASSUME Orderly
               PROVE  OpenIsAwaited' /\ LiveIsHeld'
    BY <1>a DEF ChildInv, Orderly
  <2>0. OpenIsAwaited /\ LiveIsHeld
    BY DEF Inv, ChildInv
  <2>1. OpenIsAwaited'
    BY <1>a, <1>b, <1>d, <2>0 DEF OpenIsAwaited
  <2>2. LiveIsHeld'
    BY <1>t, <1>a, <2>0 DEF Inv, LiveIsHeld
  <2> QED BY <2>1, <2>2
<1>6. TurnInv'
  <2> SUFFICES ASSUME Orderly
               PROVE  OneInbox' /\ FedLives' /\ NextWaits' /\ OneNext' /\ IdleIsFree'
    BY <1>a DEF TurnInv, Orderly
  <2>0. OneInbox /\ FedLives /\ NextWaits /\ OneNext /\ IdleIsFree
    BY DEF Inv, TurnInv
  <2>1. OneInbox'
    BY <1>t, <1>a, <2>0 DEF Inv, OneInbox
  <2>2. FedLives'
    BY <1>t, <1>a, <2>0 DEF Inv, FedLives
  <2>3. NextWaits'
    BY <1>a, <1>b, <2>0 DEF NextWaits, AtChild
  <2>4. OneNext'
    BY <1>a, <1>b, <2>0 DEF OneNext, AtChild
  <2>5. IdleIsFree'
    BY <1>a, <1>b, <2>0 DEF IdleIsFree, AtChild
  <2> QED BY <2>1, <2>2, <2>3, <2>4, <2>5
<1>7. FileInv'
  <2> SUFFICES ASSUME Orderly
               PROVE  OutIsRun' /\ FedIsRun' /\ NextIsRun'
    BY <1>a DEF FileInv, Orderly
  <2>0. OutIsRun /\ FedIsRun /\ NextIsRun
    BY DEF Inv, FileInv
  <2>1. OutIsRun'
    BY <1>t, <1>a, <2>0 DEF Inv, OutIsRun
  <2>2. FedIsRun'
    BY <1>t, <1>a, <2>0 DEF Inv, FedIsRun
  <2>3. NextIsRun'
    BY <1>a, <1>b, <2>0 DEF NextIsRun, AtChild
  <2> QED BY <2>1, <2>2, <2>3
<1>8. OutputInv'
  BY <1>t, <1>a DEF Inv, Orderly, OutputInv
<1>9. KeptInv'
  <2> SUFFICES ASSUME Orderly, NEW q \in runs'
               PROVE  Kept(q)'
    BY <1>a DEF KeptInv, Orderly
  <2>0. q \in Message /\ (q \in runs => Kept(q))
    BY <1>t, <1>c, <1>f DEF Inv, KeptInv
  <2>1. ASSUME InEnd(q) PROVE  Kept(q)'
    BY <2>1, <2>0, <1>b, <1>c, <1>f DEF Kept, InEnd, Closed, AtStage
  <2>2. ASSUME AtStage(q) PROVE  Kept(q)'
    BY <2>2, <2>0, <1>b DEF Kept, AtStage
  <2>3. ASSUME IsTurn(q) PROVE  Kept(q)'
    BY <2>3, <2>0, <1>a DEF Kept, IsTurn
  <2>4. ASSUME InQueue(q) PROVE  Kept(q)'
    BY <2>4, <1>t, <1>a DEF Kept, InQueue
  <2>5. ASSUME InStop(q) PROVE  Kept(q)'
    BY <2>5, <1>t, <1>a DEF Kept, InStop
  <2>6. ASSUME WasTurn(q) PROVE  Kept(q)'
    BY <2>6, <1>a DEF Kept, WasTurn
  <2>7. ASSUME IsCarried(q) PROVE  Kept(q)'
    BY <2>7, <1>a, <1>d DEF Kept, IsCarried, Has
  <2>8. ASSUME OnWire(q) PROVE  Kept(q)'
    BY <2>8, <2>0, <1>a DEF Kept, OnWire
  <2>9. CASE q = m
    BY <2>9, <1>b DEF Kept, AtStage
  <2> QED BY <2>0, <1>c, <2>1, <2>2, <2>3, <2>4, <2>5, <2>6, <2>7, <2>8, <2>9 DEF
       Kept
<1> QED BY <1>1, <1>2, <1>3, <1>4, <1>5, <1>6, <1>7, <1>8, <1>9 DEF Inv

LEMMA SendRefusedStep ==
  ASSUME Inv, NEW m \in Message, SendToAgent(m), session = 0
  PROVE  Inv'
<1> USE DEF vars, regVars, restartVars, turnVars, apiVars
<1>t. /\ ent \in Seq(Entry) /\ Len(ent) \in Nat /\ DOMAIN ent = 1..Len(ent)
      /\ restarts \in Seq(Restart) /\ Len(restarts) \in Nat
      /\ DOMAIN restarts = 1..Len(restarts) /\ runs \subseteq Message
      /\ \A y \in 1..Len(ent) : ent[y] \in Entry
      /\ \A y \in 1..Len(restarts) : restarts[y] \in Restart
      /\ entry \in 0..Len(ent) /\ spawning \in 0..Len(restarts)
      /\ stopping.e \in 0..Len(ent)
  BY DEF Inv, Types
<1>a. UNCHANGED <<regVars, restartVars, apiVars, entry, ent, at, wire, ctx>>
  BY DEF SendToAgent, Inv, MapInv
<1>b. /\ stage[m] = "created" /\ stage' \in [Message -> Stages] /\ stage'[m] = "refused"
      /\ \A n \in Message : n # m => stage'[n] = stage[n]
  BY DEF Inv, Types, Stages, MapInv, SendToAgent
<1>1. Types'
  BY <1>a, <1>b DEF Inv, Types, PatchSet
<1>2. RefInv'
  <2>1. CurRef'
    BY <1>t, <1>a DEF Inv, RefInv, CurRef
  <2>2. WireRef'
    BY <1>t, <1>a DEF Inv, RefInv, WireRef
  <2>3. RunRef'
    BY <1>t, <1>a, <1>b DEF Inv, RefInv, RunRef
  <2>4. AtRef'
    BY <1>a, <1>b DEF Inv, RefInv, AtRef
  <2>5. FedRef'
    BY <1>t, <1>a DEF Inv, RefInv, FedRef
  <2>6. OldRef'
    BY <1>t, <1>a DEF Inv, RefInv, OldRef
  <2>7. EntryRef'
    BY <1>t, <1>a DEF Inv, RefInv, EntryRef
  <2> QED BY <2>1, <2>2, <2>3, <2>4, <2>5, <2>6, <2>7 DEF RefInv
<1>3. MapInv'
  BY <1>a DEF Inv, MapInv
<1>4. StopInv'
  BY <1>a DEF Inv, StopInv, Awaited, Closed
<1>5. ChildInv'
  <2> SUFFICES ASSUME Orderly
               PROVE  OpenIsAwaited' /\ LiveIsHeld'
    BY <1>a DEF ChildInv, Orderly
  <2>0. OpenIsAwaited /\ LiveIsHeld
    BY DEF Inv, ChildInv
  <2>1. OpenIsAwaited'
    BY <1>a, <1>b, <2>0 DEF OpenIsAwaited, Has
  <2>2. LiveIsHeld'
    BY <1>t, <1>a, <2>0 DEF Inv, LiveIsHeld
  <2> QED BY <2>1, <2>2
<1>6. TurnInv'
  <2> SUFFICES ASSUME Orderly
               PROVE  OneInbox' /\ FedLives' /\ NextWaits' /\ OneNext' /\ IdleIsFree'
    BY <1>a DEF TurnInv, Orderly
  <2>0. OneInbox /\ FedLives /\ NextWaits /\ OneNext /\ IdleIsFree
    BY DEF Inv, TurnInv
  <2>1. OneInbox'
    BY <1>t, <1>a, <2>0 DEF Inv, OneInbox
  <2>2. FedLives'
    BY <1>t, <1>a, <2>0 DEF Inv, FedLives
  <2>3. NextWaits'
    BY <1>a, <1>b, <2>0 DEF NextWaits, AtChild
  <2>4. OneNext'
    BY <1>a, <1>b, <2>0 DEF OneNext, AtChild
  <2>5. IdleIsFree'
    BY <1>a, <1>b, <2>0 DEF IdleIsFree, AtChild
  <2> QED BY <2>1, <2>2, <2>3, <2>4, <2>5
<1>7. FileInv'
  <2> SUFFICES ASSUME Orderly
               PROVE  OutIsRun' /\ FedIsRun' /\ NextIsRun'
    BY <1>a DEF FileInv, Orderly
  <2>0. OutIsRun /\ FedIsRun /\ NextIsRun
    BY DEF Inv, FileInv
  <2>1. OutIsRun'
    BY <1>t, <1>a, <2>0 DEF Inv, OutIsRun
  <2>2. FedIsRun'
    BY <1>t, <1>a, <2>0 DEF Inv, FedIsRun
  <2>3. NextIsRun'
    BY <1>a, <1>b, <2>0 DEF NextIsRun, AtChild
  <2> QED BY <2>1, <2>2, <2>3
<1>8. OutputInv'
  BY <1>t, <1>a DEF Inv, Orderly, OutputInv
<1>9. KeptInv'
  <2> SUFFICES ASSUME Orderly, NEW q \in runs'
               PROVE  Kept(q)'
    BY <1>a DEF KeptInv, Orderly
  <2>0. q \in Message /\ (q \in runs => Kept(q))
    BY <1>t, <1>a, <1>b DEF Inv, KeptInv
  <2>1. ASSUME InEnd(q) PROVE  Kept(q)'
    BY <2>1, <1>a DEF Kept, InEnd, Closed
  <2>2. ASSUME AtStage(q) PROVE  Kept(q)'
    BY <2>2, <2>0, <1>b DEF Kept, AtStage
  <2>3. ASSUME IsTurn(q) PROVE  Kept(q)'
    BY <2>3, <1>a DEF Inv, Kept, IsTurn
  <2>4. ASSUME InQueue(q) PROVE  Kept(q)'
    BY <2>4, <1>a DEF Inv, Kept, InQueue
  <2>5. ASSUME InStop(q) PROVE  Kept(q)'
    BY <2>5, <1>t, <1>a DEF Kept, InStop
  <2>6. ASSUME WasTurn(q) PROVE  Kept(q)'
    BY <2>6, <1>a DEF Inv, Kept, WasTurn
  <2>7. ASSUME IsCarried(q) PROVE  Kept(q)'
    BY <2>7, <1>a, <1>b DEF Kept, IsCarried
  <2>8. ASSUME OnWire(q) PROVE  Kept(q)'
    BY <2>8, <2>0, <1>a DEF Kept, OnWire
  <2> QED BY <2>0, <1>a, <2>1, <2>2, <2>3, <2>4, <2>5, <2>6, <2>7, <2>8 DEF Kept
<1> QED BY <1>1, <1>2, <1>3, <1>4, <1>5, <1>6, <1>7, <1>8, <1>9 DEF Inv

LEMMA SendWaitsStep ==
  ASSUME Inv, NEW m \in Message, SendToAgent(m), session # 0, entry = 0, spawning # 0
  PROVE  Inv'
<1> USE DEF vars, regVars, restartVars, turnVars, apiVars
<1>t. /\ ent \in Seq(Entry) /\ Len(ent) \in Nat /\ DOMAIN ent = 1..Len(ent)
      /\ restarts \in Seq(Restart) /\ Len(restarts) \in Nat
      /\ DOMAIN restarts = 1..Len(restarts) /\ runs \subseteq Message
      /\ \A y \in 1..Len(ent) : ent[y] \in Entry
      /\ \A y \in 1..Len(restarts) : restarts[y] \in Restart
      /\ entry \in 0..Len(ent) /\ spawning \in 0..Len(restarts)
      /\ stopping.e \in 0..Len(ent)
  BY DEF Inv, Types
<1>a. UNCHANGED <<regVars, apiVars, spawning, entry, ent, at, wire, ctx>>
  BY DEF SendToAgent, SpawnInFlight
<1>b. /\ stage[m] = "created" /\ stage' \in [Message -> Stages] /\ stage'[m] = "waiting"
      /\ \A n \in Message : n # m => stage'[n] = stage[n]
  BY DEF Inv, Types, Stages, SendToAgent, SpawnInFlight
<1> DEFINE x == [restarts[spawning] EXCEPT !.waiters = Append(@, m)]
<1>c. spawning \in 1..Len(restarts) /\ restarts[spawning] \in Restart
      /\ restarts[spawning].waiters \in Seq(Message)
  BY <1>t DEF Inv, Types, Restart
<1>d. /\ Append(restarts[spawning].waiters, m) \in Seq(Message)
      /\ \A y : y \in ToSet(Append(restarts[spawning].waiters, m))
                <=> y \in ToSet(restarts[spawning].waiters) \/ y = m
  BY <1>c, SetOfAdd
<1>e. /\ x \in Restart /\ x.old = restarts[spawning].old /\ x.state = restarts[spawning].state
      /\ x.session = restarts[spawning].session
      /\ x.pending = restarts[spawning].pending
      /\ x.waiters = Append(restarts[spawning].waiters, m)
  BY <1>c, <1>d DEF Restart
<1>f. restarts' = [restarts EXCEPT ![spawning] = x]
  BY DEF SendToAgent, SpawnInFlight
<1> HIDE DEF x
<1>g. /\ restarts' \in Seq(Restart) /\ Len(restarts') = Len(restarts)
      /\ restarts'[spawning] = x
      /\ \A y \in 1..Len(restarts) : y # spawning => restarts'[y] = restarts[y]
  BY <1>t, <1>e, <1>f, Put
<1>1. Types'
  BY <1>t, <1>a, <1>b, <1>e, <1>g DEF Inv, Types, Stages
<1>2. RefInv'
  <2>1. CurRef'
    BY <1>t, <1>a DEF Inv, RefInv, CurRef
  <2>2. WireRef'
    BY <1>t, <1>a DEF Inv, RefInv, WireRef
  <2>3. RunRef'
    BY <1>t, <1>a, <1>b DEF Inv, RefInv, RunRef
  <2>4. AtRef'
    BY <1>a, <1>b DEF Inv, RefInv, AtRef
  <2>5. FedRef'
    BY <1>t, <1>a DEF Inv, RefInv, FedRef
  <2>6. OldRef'
    BY <1>a, <1>e, <1>f DEF Inv, RefInv, OldRef
  <2>7. EntryRef'
    BY <1>t, <1>a DEF Inv, RefInv, EntryRef
  <2> QED BY <2>1, <2>2, <2>3, <2>4, <2>5, <2>6, <2>7 DEF RefInv
<1>3. MapInv'
  BY <1>a, <1>e, <1>f DEF Inv, MapInv
<1>4. StopInv'
  BY <1>a DEF Inv, StopInv, Awaited, Closed
<1>5. ChildInv'
  <2> SUFFICES ASSUME Orderly
               PROVE  OpenIsAwaited' /\ LiveIsHeld'
    BY <1>a DEF ChildInv, Orderly
  <2>0. OpenIsAwaited /\ LiveIsHeld
    BY DEF Inv, ChildInv
  <2>1. OpenIsAwaited'
    BY <1>a, <1>e, <1>f, <2>0 DEF OpenIsAwaited
  <2>2. LiveIsHeld'
    BY <1>a, <1>e, <1>f, <2>0 DEF LiveIsHeld
  <2> QED BY <2>1, <2>2
<1>6. TurnInv'
  <2> SUFFICES ASSUME Orderly
               PROVE  OneInbox' /\ FedLives' /\ NextWaits' /\ OneNext' /\ IdleIsFree'
    BY <1>a DEF TurnInv, Orderly
  <2>0. OneInbox /\ FedLives /\ NextWaits /\ OneNext /\ IdleIsFree
    BY DEF Inv, TurnInv
  <2>1. OneInbox'
    BY <1>t, <1>a, <2>0 DEF Inv, OneInbox
  <2>2. FedLives'
    BY <1>t, <1>a, <2>0 DEF Inv, FedLives
  <2>3. NextWaits'
    BY <1>a, <1>b, <2>0 DEF NextWaits, AtChild
  <2>4. OneNext'
    BY <1>a, <1>b, <2>0 DEF OneNext, AtChild
  <2>5. IdleIsFree'
    BY <1>a, <1>b DEF Inv, IdleIsFree
  <2> QED BY <2>1, <2>2, <2>3, <2>4, <2>5
<1>7. FileInv'
  <2> SUFFICES ASSUME Orderly
               PROVE  OutIsRun' /\ FedIsRun' /\ NextIsRun'
    BY <1>a DEF FileInv, Orderly
  <2>0. OutIsRun /\ FedIsRun /\ NextIsRun
    BY DEF Inv, FileInv
  <2>1. OutIsRun'
    BY <1>t, <1>a, <2>0 DEF Inv, OutIsRun
  <2>2. FedIsRun'
    BY <1>t, <1>a, <2>0 DEF Inv, FedIsRun
  <2>3. NextIsRun'
    BY <1>a, <1>b, <2>0 DEF NextIsRun, AtChild
  <2> QED BY <2>1, <2>2, <2>3
<1>8. OutputInv'
  BY <1>t, <1>a DEF Inv, Orderly, OutputInv
<1>9. KeptInv'
  <2> SUFFICES ASSUME Orderly, NEW q \in runs'
               PROVE  Kept(q)'
    BY <1>a DEF KeptInv, Orderly
  <2>0. q \in Message /\ (q \in runs => Kept(q))
    BY <1>t, <1>a, <1>c DEF Inv, KeptInv
  <2>1. ASSUME InEnd(q) PROVE  Kept(q)'
    BY <2>1, <2>0, <1>a, <1>c, <1>d, <1>e DEF Kept, InEnd, Closed
  <2>2. ASSUME AtStage(q) PROVE  Kept(q)'
    BY <2>2, <2>0, <1>b, <1>c, <1>d, <1>e, <1>f, <1>g DEF Inv, Kept, AtStage,
         IsCarried, MapInv
  <2>3. ASSUME IsTurn(q) PROVE  Kept(q)'
    BY <2>3, <2>0, <1>a DEF Kept, IsTurn
  <2>4. ASSUME InQueue(q) PROVE  Kept(q)'
    BY <2>4, <2>0, <1>t DEF Kept, InQueue
  <2>5. ASSUME InStop(q) PROVE  Kept(q)'
    BY <2>5, <2>0, <1>a DEF Kept, InStop
  <2>6. ASSUME WasTurn(q) PROVE  Kept(q)'
    BY <2>6, <1>a, <1>e, <1>f, <1>g DEF Kept, WasTurn
  <2>7. ASSUME IsCarried(q) PROVE  Kept(q)'
    BY <2>7, <2>0, <1>t, <1>c, <1>d, <1>e, <1>f, <1>g DEF Inv, Kept, IsCarried
  <2>8. ASSUME OnWire(q) PROVE  Kept(q)'
    BY <2>8, <2>0, <1>a DEF Kept, OnWire
  <2> QED BY <2>0, <1>a, <2>1, <2>2, <2>3, <2>4, <2>5, <2>6, <2>7, <2>8 DEF Kept
<1> QED BY <1>1, <1>2, <1>3, <1>4, <1>5, <1>6, <1>7, <1>8, <1>9 DEF Inv

LEMMA SendSpawnsStep ==
  ASSUME Inv, NEW m \in Message, SendToAgent(m), session # 0, entry = 0, spawning = 0
  PROVE  Inv'
<1> USE DEF vars, regVars, restartVars, turnVars, apiVars
<1>t. /\ ent \in Seq(Entry) /\ Len(ent) \in Nat /\ DOMAIN ent = 1..Len(ent)
      /\ restarts \in Seq(Restart) /\ Len(restarts) \in Nat
      /\ DOMAIN restarts = 1..Len(restarts) /\ runs \subseteq Message
      /\ \A y \in 1..Len(ent) : ent[y] \in Entry
      /\ \A y \in 1..Len(restarts) : restarts[y] \in Restart
      /\ entry \in 0..Len(ent) /\ spawning \in 0..Len(restarts)
      /\ stopping.e \in 0..Len(ent)
  BY DEF Inv, Types
<1>a. UNCHANGED <<regVars, apiVars, restartVars>> /\ entry' = Len(ent) + 1
      /\ stage[m] = "created"
  BY DEF SendToAgent, SpawnInFlight
<1> DEFINE fresh == NewEntry(<<>>)
           es == Append(ent, fresh)
<1>pb. fresh \in Entry /\ Has(fresh, TRUE, TRUE, FALSE, None, <<>>, <<>>)
  BY NoneIsSeq DEF NewEntry, Entry, MaybeRun, Has
<1>pc. SendNow(m, Len(ent) + 1, es, stage, {})
  BY DEF SendToAgent, SpawnInFlight
<1> HIDE DEF fresh
<1>pd. /\ es \in Seq(Entry) /\ Len(es) = Len(ent) + 1 /\ es[Len(ent) + 1] = fresh
      /\ \A y \in 1..Len(ent) : es[y] = ent[y]
  BY <1>t, <1>pb, Add
<1> HIDE DEF es
<1>pe. stage \in [Message -> Stages] /\ at \in [Message -> Nat]
      /\ \A n \in Message : at[n] \in 0..Len(ent)
  BY <1>t DEF Inv, Types
<1>pf. Len(ent) + 1 \in 1..Len(es)
  BY <1>t, <1>pd
<1>y. \A n \in Message : ~AtChild(n, Len(ent) + 1)
  BY <1>t, <1>pe DEF AtChild
<1>i. Orderly => \A y \in 1..Len(ent) : ~ent[y].live /\ ent[y].inbox = <<>>
  BY DEF Inv, MapInv, ChildInv, OpenIsAwaited, LiveIsHeld, TurnInv, FedLives
<1>pg. Sends(m, Len(ent) + 1, es, stage, {})
  BY <1>t, <1>pc, <1>pd, <1>pe, <1>pf, SendNowFacts
<1>h. /\ Patch(m, "running") \subseteq PatchSet
      /\ \A p \in Patch(m, "running") : p.run = m /\ p.run \in runs /\ p.status = "running"
  BY <1>t, PatchFacts DEF MaybeRun
<1>j. /\ ctx' \in [run : MaybeRun, out : MaybeRun]
      /\ ctx'.run = RunOf(m) /\ ctx'.out = None /\ RunOf(m) \in runs \cup {None}
      /\ m \in runs => RunOf(m) = m
      /\ m \notin runs => RunOf(m) = None
      /\ RunOf(m) \in MaybeRun
  BY <1>pg DEF Sends
<1>k. /\ stage' \in [Message -> Stages] /\ stage'[m] = "starting"
      /\ \A n \in Message : n # m => stage'[n] = stage[n]
      /\ at' \in [Message -> Nat] /\ at'[m] = Len(ent) + 1
      /\ \A n \in Message : n # m => at'[n] = at[n]
  BY <1>pg DEF Sends
<1>l. \A n \in Message : \A y :
        AtChild(n, y)' <=> (IF n = m THEN y = Len(ent) + 1 ELSE AtChild(n, y))
  BY <1>k DEF AtChild
<1>w. wire' = wire \cup Patch(m, "running")
  BY <1>pg DEF Sends
<1>n. /\ ent' \in Seq(Entry) /\ Len(ent') = Len(ent) + 1
      /\ \A y \in 1..Len(ent) : ent'[y] = ent[y]
      /\ Has(ent'[Len(ent) + 1], TRUE, TRUE, TRUE, RunOf(m), <<>>, <<>>)
  BY <1>pb, <1>pd, <1>pg DEF Sends, Has
<1>o. /\ \A y \in 1..Len(ent') : y \in 1..Len(ent) \/ y = Len(ent) + 1
      /\ Len(ent) + 1 \notin 1..Len(ent) /\ Len(ent) + 1 # 0 /\ Len(<<>>) <= 1
      /\ 1..Len(ent) \subseteq 1..Len(ent')
  BY <1>t, <1>n
<1>v. at' \in [Message -> 0..Len(ent')]
  <2> DEFINE k == Len(ent)
  <2>1. k \in Nat /\ Len(ent') = k + 1 /\ at'[m] = k + 1
        /\ \A n \in Message : n # m => at'[n] = at[n] /\ at[n] \in 0..k
    BY <1>t, <1>n, <1>k, <1>pe
  <2> HIDE DEF k
  <2>2. \A n \in Message : at'[n] \in 0..(k + 1)
    BY <2>1
  <2>3. at' \in [Message -> 0..(k + 1)]
    BY <1>k, <2>2
  <2> QED BY <2>1, <2>3
<1>1. Types'
  <2>1. /\ refreshes' \in 0..MaxRefreshes /\ session' \in 0..(refreshes' + 1)
        /\ runtime' \in {"claude", "hermes"} /\ restarts' \in Seq(Restart)
        /\ spawning' \in 0..Len(restarts') /\ runs' \subseteq Message
        /\ server' \in [Message -> Statuses] /\ lost' \subseteq Message
    BY <1>a DEF Inv, Types
  <2>2. entry' \in 0..Len(ent') /\ ent' \in Seq(Entry)
    BY <1>a, <1>n, <1>t
  <2>3. stopping' \in [e : 0..Len(ent'), run : MaybeRun]
    BY <1>a, <1>n, <1>t DEF Inv, Types
  <2>4. wire' \subseteq PatchSet
    BY <1>w, <1>h DEF Inv, Types
  <2> QED BY <1>j, <1>k, <1>v, <2>1, <2>2, <2>3, <2>4 DEF Types
<1>2. RefInv'
  <2>1. CurRef'
    BY <1>a, <1>y, <1>j, <1>l, <1>n, <1>o DEF Inv, RefInv, CurRef, Has
  <2>2. WireRef'
    BY <1>a, <1>y, <1>h, <1>k, <1>l, <1>w, <1>o, <1>v DEF Inv, RefInv, WireRef, Has
  <2>3. RunRef'
    BY <1>t, <1>a, <1>k DEF Inv, RefInv, RunRef
  <2>4. AtRef'
    BY <1>a, <1>k DEF Inv, RefInv, AtRef
  <2>5. FedRef'
    <3>1. \A n \in Message : at[n] # 0 => at'[n] # 0
      BY <1>k, <1>o
    <3>2. \A n : n \notin ToSet(ent'[Len(ent) + 1].inbox)
      BY <1>n, SetOfNone DEF Has
    <3>3. Len(ent') = Len(ent) + 1 /\ FedRef
      BY <1>n DEF Inv, RefInv
    <3> QED BY <1>n, <3>1, <3>2, <3>3 DEF FedRef
  <2>6. OldRef'
    BY <1>a, <1>n DEF Inv, RefInv, OldRef
  <2>7. EntryRef'
    BY <1>a, <1>y, <1>i, <1>n DEF EntryRef, Has
  <2> QED BY <2>1, <2>2, <2>3, <2>4, <2>5, <2>6, <2>7 DEF RefInv
<1>3. MapInv'
  BY <1>a, <1>i, <1>v DEF Inv, EntryRef, MapInv
<1>4. StopInv'
  BY <1>t, <1>a, <1>n, <1>o DEF Inv, MapInv, StopInv
<1>5. ChildInv'
  <2> SUFFICES ASSUME Orderly
               PROVE  OpenIsAwaited' /\ LiveIsHeld'
    BY <1>a DEF ChildInv, Orderly
  <2>0. OpenIsAwaited /\ LiveIsHeld
    BY DEF Inv, ChildInv
  <2>1. OpenIsAwaited'
    BY <1>a, <1>y, <1>i, <1>o, <2>0 DEF OpenIsAwaited
  <2>2. LiveIsHeld'
    BY <1>a, <1>n, <2>0 DEF Inv, LiveIsHeld
  <2> QED BY <2>1, <2>2
<1>6. TurnInv'
  <2> SUFFICES ASSUME Orderly
               PROVE  OneInbox' /\ FedLives' /\ NextWaits' /\ OneNext' /\ IdleIsFree'
    BY <1>a DEF TurnInv, Orderly
  <2>0. OneInbox /\ FedLives /\ NextWaits /\ OneNext /\ IdleIsFree
    BY DEF Inv, TurnInv
  <2>1. OneInbox'
    BY <1>n, <2>0 DEF Inv, OneInbox, Has
  <2>2. FedLives'
    BY <1>l, <1>n, <1>v, <2>0 DEF Inv, FedLives, Has
  <2>3. NextWaits'
    BY <1>i, <1>n DEF Inv, NextWaits, Has
  <2>4. OneNext'
    BY <1>y, <1>l, <1>n, <2>0 DEF OneNext
  <2>5. IdleIsFree'
    BY <1>a, <1>n, <1>v DEF IdleIsFree, Has
  <2> QED BY <2>1, <2>2, <2>3, <2>4, <2>5
<1>7. FileInv'
  <2> SUFFICES ASSUME Orderly
               PROVE  OutIsRun' /\ FedIsRun' /\ NextIsRun'
    BY <1>a DEF FileInv, Orderly
  <2>0. OutIsRun /\ FedIsRun /\ NextIsRun
    BY DEF Inv, FileInv
  <2>1. OutIsRun'
    BY <1>t, <1>j, <2>0 DEF Inv, OutIsRun
  <2>2. FedIsRun'
    BY SMTT(30), <1>i, <1>j, <1>k, <1>n, <1>v, <2>0 DEF FedIsRun, Has
  <2>3. NextIsRun'
    BY <1>t, <1>y, <1>i, <1>j, <1>l, <1>n, <1>v DEF Inv, NextIsRun
  <2> QED BY <2>1, <2>2, <2>3
<1>8. OutputInv'
  BY <1>a, <1>h, <1>j, <1>w, <1>v DEF Inv, Orderly, OutputInv, Has
<1>9. KeptInv'
  <2> SUFFICES ASSUME Orderly, NEW q \in runs'
               PROVE  Kept(q)'
    BY <1>a DEF KeptInv, Orderly
  <2>0. q \in Message /\ (q \in runs => Kept(q))
    BY <1>t, <1>a, <1>y, <1>l, <1>o DEF Inv, KeptInv
  <2>1. ASSUME InEnd(q) PROVE  Kept(q)'
    BY <2>1, <1>a, <1>i, <1>j, <1>n, <1>v DEF Kept, InEnd, Closed
  <2>2. ASSUME AtStage(q) PROVE  Kept(q)'
    BY <2>2, <2>0, <1>t, <1>a, <1>i, <1>j, <1>k, <1>l, <1>w, <1>n, <1>o, <1>v DEF
         Inv, Kept, AtStage, IsTurn, EntryRef, Has
  <2>3. ASSUME IsTurn(q) PROVE  Kept(q)'
    BY <2>3, <1>n DEF Inv, Kept, IsTurn
  <2>4. ASSUME InQueue(q) PROVE  Kept(q)'
    BY <2>4, <1>a, <1>n DEF Kept, InQueue
  <2>5. ASSUME InStop(q) PROVE  Kept(q)'
    BY <2>5, <1>t, <1>a, <1>y, <1>n, <1>v DEF Kept, InStop
  <2>6. ASSUME WasTurn(q) PROVE  Kept(q)'
    BY <2>6, <2>0, <1>a, <1>k, <1>l, <1>n DEF Inv, Kept, WasTurn, RefInv, OldRef
  <2>7. ASSUME IsCarried(q) PROVE  Kept(q)'
    BY <2>7, <2>0, <1>t, <1>a, <1>h, <1>l, <1>n, <1>v DEF Inv, Kept, IsCarried, Has
  <2>8. ASSUME OnWire(q) PROVE  Kept(q)'
    BY <2>8, <1>w DEF Kept, OnWire
  <2> QED BY <2>0, <1>a, <2>1, <2>2, <2>3, <2>4, <2>5, <2>6, <2>7, <2>8 DEF Kept
<1> QED BY <1>1, <1>2, <1>3, <1>4, <1>5, <1>6, <1>7, <1>8, <1>9 DEF Inv

LEMMA SendQueuesStep ==
  ASSUME Inv, NEW m \in Message, SendToAgent(m), entry # 0, ent[entry].busy
  PROVE  Inv'
<1> USE DEF vars, regVars, restartVars, turnVars, apiVars
<1>t. /\ ent \in Seq(Entry) /\ Len(ent) \in Nat /\ DOMAIN ent = 1..Len(ent)
      /\ restarts \in Seq(Restart) /\ Len(restarts) \in Nat
      /\ DOMAIN restarts = 1..Len(restarts) /\ runs \subseteq Message
      /\ \A y \in 1..Len(ent) : ent[y] \in Entry
      /\ \A y \in 1..Len(restarts) : restarts[y] \in Restart
      /\ entry \in 0..Len(ent) /\ spawning \in 0..Len(restarts)
      /\ stopping.e \in 0..Len(ent)
  BY DEF Inv, Types
<1>a. UNCHANGED <<regVars, apiVars, restartVars, entry, at, wire, ctx>>
  BY DEF SendToAgent, MustQueue, Inv, MapInv
<1>b. /\ stage[m] = "created" /\ stage' \in [Message -> Stages] /\ stage'[m] = "queued"
      /\ \A n \in Message : n # m => stage'[n] = stage[n]
  BY DEF Inv, Types, Stages, SendToAgent, MustQueue, MapInv
<1>c. ent' = Queued(ent, entry, m)
  BY DEF SendToAgent, MustQueue, Queued, Inv, MapInv
<1>d. entry \in 1..Len(ent) /\ ent[entry].queue \in Seq(Message)
  BY <1>t DEF Inv, Types, Entry
<1>e. /\ Same(ent, ent', entry)
      /\ Has(ent'[entry], ent[entry].live, ent[entry].wired, ent[entry].busy,
             ent[entry].cur, Append(ent[entry].queue, m), ent[entry].inbox)
  BY <1>t, <1>c, <1>d, QueuedFacts
<1>g. /\ \A y \in 1..Len(ent) : /\ ent'[y].live = ent[y].live
                                /\ ent'[y].inbox = ent[y].inbox
                                /\ ent'[y].cur = ent[y].cur
                                /\ ent'[y].wired = ent[y].wired
      /\ \A n \in Message : \A y : AtChild(n, y)' <=> AtChild(n, y)
  BY <1>a, <1>b, <1>e DEF Same, Has, AtChild
<1>f. \A y : y \in ToSet(Append(ent[entry].queue, m))
             <=> y \in ToSet(ent[entry].queue) \/ y = m
  BY <1>d, SetOfAdd
<1>1. Types'
  BY <1>a, <1>b, <1>e, <1>f DEF Inv, Types, Restart, PatchSet, Statuses, Same, Has
<1>2. RefInv'
  <2>1. CurRef'
    BY <1>t, <1>a, <1>e DEF Inv, RefInv, CurRef, Same, Has
  <2>2. WireRef'
    BY <1>t, <1>a DEF Inv, RefInv, WireRef
  <2>3. RunRef'
    BY <1>t, <1>a, <1>b, <1>e DEF Inv, RefInv, RunRef
  <2>4. AtRef'
    BY <1>a, <1>b DEF Inv, RefInv, AtRef
  <2>5. FedRef'
    BY <1>a, <1>e, <1>f DEF Inv, RefInv, FedRef, Same, Has
  <2>6. OldRef'
    BY <1>a, <1>e, <1>g DEF Inv, RefInv, OldRef, Same
  <2>7. EntryRef'
    BY <1>a, <1>d, <1>g DEF Inv, RefInv, EntryRef
  <2> QED BY <2>1, <2>2, <2>3, <2>4, <2>5, <2>6, <2>7 DEF RefInv
<1>3. MapInv'
  BY <1>a, <1>c, <1>e DEF Inv, MapInv
<1>4. StopInv'
  BY <1>a, <1>d DEF Inv, MapInv, StopInv
<1>5. ChildInv'
  <2> SUFFICES ASSUME Orderly
               PROVE  OpenIsAwaited' /\ LiveIsHeld'
    BY <1>a DEF ChildInv, Orderly
  <2>0. OpenIsAwaited /\ LiveIsHeld
    BY DEF Inv, ChildInv
  <2>1. OpenIsAwaited'
    BY <1>a, <1>c, <1>g, <2>0 DEF OpenIsAwaited
  <2>2. LiveIsHeld'
    BY <1>a, <1>c, <1>d, <1>e, <2>0 DEF LiveIsHeld, Same
  <2> QED BY <2>1, <2>2
<1>6. TurnInv'
  <2> SUFFICES ASSUME Orderly
               PROVE  OneInbox' /\ FedLives' /\ NextWaits' /\ OneNext' /\ IdleIsFree'
    BY <1>a DEF TurnInv, Orderly
  <2>0. OneInbox /\ FedLives /\ NextWaits /\ OneNext /\ IdleIsFree
    BY DEF Inv, TurnInv
  <2>1. OneInbox'
    BY <1>e, <2>0 DEF OneInbox, Same, Has
  <2>2. FedLives'
    BY <1>e, <1>g, <2>0 DEF FedLives, Same
  <2>3. NextWaits'
    BY <1>d, <1>e, <1>g, <1>f, <2>0 DEF Inv, NextWaits, Same, Has
  <2>4. OneNext'
    BY <1>t, <1>e, <1>g, <2>0 DEF OneNext, Same
  <2>5. IdleIsFree'
    BY <1>a, <1>e, <2>0 DEF IdleIsFree, Has
  <2> QED BY <2>1, <2>2, <2>3, <2>4, <2>5
<1>7. FileInv'
  <2> SUFFICES ASSUME Orderly
               PROVE  OutIsRun' /\ FedIsRun' /\ NextIsRun'
    BY <1>a DEF FileInv, Orderly
  <2>0. OutIsRun /\ FedIsRun /\ NextIsRun
    BY DEF Inv, FileInv
  <2>1. OutIsRun'
    BY <1>t, <1>a, <2>0 DEF Inv, OutIsRun
  <2>2. FedIsRun'
    BY <1>a, <1>e, <1>f, <2>0 DEF FedIsRun, Same, Has
  <2>3. NextIsRun'
    BY <1>a, <1>e, <1>g, <2>0 DEF NextIsRun, Same
  <2> QED BY <2>1, <2>2, <2>3
<1>8. OutputInv'
  BY <1>t, <1>a DEF Inv, Orderly, OutputInv
<1>9. KeptInv'
  <2> SUFFICES ASSUME Orderly, NEW q \in runs'
               PROVE  Kept(q)'
    BY <1>a DEF KeptInv, Orderly
  <2>0. q \in Message /\ (q \in runs => Kept(q))
    BY <1>t, <1>a, <1>b DEF Inv, KeptInv
  <2>1. ASSUME InEnd(q) PROVE  Kept(q)'
    BY <2>1, <1>a DEF Kept, InEnd, Closed
  <2>2. ASSUME AtStage(q) PROVE  Kept(q)'
    BY <2>2, <2>0, <1>a, <1>b, <1>e, <1>f DEF Inv, Kept, AtStage, InQueue, Has
  <2>3. ASSUME IsTurn(q) PROVE  Kept(q)'
    BY <2>3, <1>e DEF Kept, IsTurn, Same, Has
  <2>4. ASSUME InQueue(q) PROVE  Kept(q)'
    BY <2>4, <1>a, <1>e, <1>f DEF Kept, InQueue, Has
  <2>5. ASSUME InStop(q) PROVE  Kept(q)'
    BY <2>5, <2>0 DEF Inv, Kept, InStop, MapInv
  <2>6. ASSUME WasTurn(q) PROVE  Kept(q)'
    BY <2>6, <2>0, <1>a, <1>g, <1>f DEF Inv, Kept, WasTurn, RefInv, OldRef, Has
  <2>7. ASSUME IsCarried(q) PROVE  Kept(q)'
    BY <2>7, <1>a, <1>b, <1>c, <1>d DEF Inv, Kept, IsCarried
  <2>8. ASSUME OnWire(q) PROVE  Kept(q)'
    BY <2>8, <1>t, <1>a DEF Kept, OnWire
  <2> QED BY <2>0, <1>a, <2>1, <2>2, <2>3, <2>4, <2>5, <2>6, <2>7, <2>8 DEF Kept
<1> QED BY <1>1, <1>2, <1>3, <1>4, <1>5, <1>6, <1>7, <1>8, <1>9 DEF Inv

LEMMA SendDirectStep ==
  ASSUME Inv, NEW m \in Message, SendToAgent(m), entry # 0, ~ent[entry].busy
  PROVE  Inv'
<1> USE DEF vars, regVars, restartVars, turnVars, apiVars
<1>t. /\ ent \in Seq(Entry) /\ Len(ent) \in Nat /\ DOMAIN ent = 1..Len(ent)
      /\ restarts \in Seq(Restart) /\ Len(restarts) \in Nat
      /\ DOMAIN restarts = 1..Len(restarts) /\ runs \subseteq Message
      /\ \A y \in 1..Len(ent) : ent[y] \in Entry
      /\ \A y \in 1..Len(restarts) : restarts[y] \in Restart
      /\ entry \in 0..Len(ent) /\ spawning \in 0..Len(restarts)
      /\ stopping.e \in 0..Len(ent)
  BY DEF Inv, Types
<1>a. UNCHANGED <<regVars, apiVars, restartVars, entry>> /\ stage[m] = "created"
  BY DEF SendToAgent, MustQueue, Inv, MapInv
<1>pc. SendNow(m, entry, ent, stage, {})
  BY DEF SendToAgent, MustQueue, Inv, MapInv
<1>e. stage \in [Message -> Stages] /\ at \in [Message -> Nat]
      /\ entry \in 1..Len(ent) /\ \A n \in Message : at[n] \in 0..Len(ent)
  BY <1>t DEF Inv, Types
<1>i. Orderly => \A y \in 1..Len(ent) :
                   /\ ent[y].live => y = entry
                   /\ ent[y].inbox # <<>> => FALSE
                   /\ \A n \in Message : AtChild(n, y) /\ ent[y].live => FALSE
  BY DEF Inv, MapInv, ChildInv, OpenIsAwaited, LiveIsHeld, TurnInv, FedLives,
       IdleIsFree
<1>pg. Sends(m, entry, ent, stage, {})
  BY <1>t, <1>pc, <1>e, SendNowFacts
<1>h. /\ Patch(m, "running") \subseteq PatchSet
      /\ \A p \in Patch(m, "running") : p.run = m /\ p.run \in runs /\ p.status = "running"
  BY <1>t, PatchFacts DEF MaybeRun
<1>j. /\ ctx' \in [run : MaybeRun, out : MaybeRun]
      /\ ctx'.run = RunOf(m) /\ ctx'.out = None /\ RunOf(m) \in runs \cup {None}
      /\ m \in runs => RunOf(m) = m
      /\ m \notin runs => RunOf(m) = None
      /\ RunOf(m) \in MaybeRun
  BY <1>pg DEF Sends
<1>k. /\ stage' \in [Message -> Stages] /\ stage'[m] = "starting"
      /\ \A n \in Message : n # m => stage'[n] = stage[n]
      /\ at' \in [Message -> Nat] /\ at'[m] = entry
      /\ \A n \in Message : n # m => at'[n] = at[n]
  BY <1>pg DEF Sends
<1>v. at' \in [Message -> 0..Len(ent')]
  <2>1. \A n \in Message : at'[n] \in 0..Len(ent')
    BY <1>pg, <1>t, <1>e DEF Sends
  <2> QED BY <1>k, <2>1
<1>l. \A n \in Message : \A y :
        AtChild(n, y)' <=> (IF n = m THEN y = entry ELSE AtChild(n, y))
  BY <1>k DEF AtChild
<1>w. wire' = wire \cup Patch(m, "running")
  BY <1>pg DEF Sends
<1>n. /\ Same(ent, ent', entry)
      /\ Has(ent'[entry], ent[entry].live, ent[entry].wired, TRUE, RunOf(m),
             ent[entry].queue, ent[entry].inbox)
  BY <1>pg DEF Sends, Has, Same
<1>o. \A y \in 1..Len(ent) :
        /\ ent'[y].live = ent[y].live /\ ent'[y].inbox = ent[y].inbox
        /\ ent'[y].wired = ent[y].wired /\ ent'[y].queue = ent[y].queue
        /\ y # entry => ent'[y].cur = ent[y].cur /\ ent'[y].busy = ent[y].busy
  BY <1>n DEF Same, Has
<1>1. Types'
  BY <1>t, <1>a, <1>e, <1>h, <1>j, <1>k, <1>v, <1>l, <1>w, <1>n DEF Inv, Types,
       Restart, PatchSet, MaybeRun, Same, Has
<1>2. RefInv'
  <2>1. CurRef'
    BY <1>a, <1>i, <1>h, <1>j, <1>k, <1>w, <1>n, <1>o DEF Inv, RefInv, CurRef,
         Same, Has
  <2>2. WireRef'
    BY <1>t, <1>a, <1>h, <1>v, <1>w DEF Inv, RefInv, WireRef, Has
  <2>3. RunRef'
    BY <1>t, <1>a, <1>k DEF Inv, RefInv, RunRef
  <2>4. AtRef'
    BY <1>a, <1>k DEF Inv, RefInv, AtRef
  <2>5. FedRef'
    <3>1. \A n \in Message : at[n] # 0 => at'[n] # 0
      BY <1>k, <1>e
    <3>2. Len(ent') = Len(ent) /\ FedRef
      BY <1>n DEF Same, Inv, RefInv
    <3> QED BY <1>o, <3>1, <3>2 DEF FedRef
  <2>6. OldRef'
    BY <1>t, <1>a, <1>e, <1>i, <1>h, <1>k, <1>v, <1>l, <1>n DEF Inv, RefInv,
         OldRef, Same, Has
  <2>7. EntryRef'
    BY <1>a, <1>e, <1>k, <1>v, <1>o DEF Inv, RefInv, EntryRef
  <2> QED BY <2>1, <2>2, <2>3, <2>4, <2>5, <2>6, <2>7 DEF RefInv
<1>3. MapInv'
  BY <1>t, <1>a, <1>e, <1>i DEF Inv, MapInv
<1>4. StopInv'
  BY <1>a, <1>e, <1>h, <1>n DEF Inv, MapInv, StopInv, Closed
<1>5. ChildInv'
  <2> SUFFICES ASSUME Orderly
               PROVE  OpenIsAwaited' /\ LiveIsHeld'
    BY <1>a DEF ChildInv, Orderly
  <2>0. OpenIsAwaited /\ LiveIsHeld
    BY DEF Inv, ChildInv
  <2>1. OpenIsAwaited'
    BY <1>a, <1>i, <1>h, <1>k, <1>l, <1>w, <2>0 DEF OpenIsAwaited
  <2>2. LiveIsHeld'
    BY <1>a, <1>n, <2>0 DEF LiveIsHeld, Same
  <2> QED BY <2>1, <2>2
<1>6. TurnInv'
  <2> SUFFICES ASSUME Orderly
               PROVE  OneInbox' /\ FedLives' /\ NextWaits' /\ OneNext' /\ IdleIsFree'
    BY <1>a DEF TurnInv, Orderly
  <2>0. OneInbox /\ FedLives /\ NextWaits /\ OneNext /\ IdleIsFree
    BY DEF Inv, TurnInv
  <2>1. OneInbox'
    BY <1>i, <1>n DEF OneInbox, Same, Has
  <2>2. FedLives'
    BY <1>n, <1>o, <2>0 DEF FedLives, Same
  <2>3. NextWaits'
    BY <1>a, <1>i, <1>k, <1>n, <1>o, <2>0 DEF NextWaits, IdleIsFree, Same
  <2>4. OneNext'
    BY <1>v, <1>l, <1>n, <2>0 DEF Inv, OneNext, IdleIsFree, Same, Has
  <2>5. IdleIsFree'
    BY <1>a, <1>k, <1>v, <1>n, <2>0 DEF IdleIsFree, Has
  <2> QED BY <2>1, <2>2, <2>3, <2>4, <2>5
<1>7. FileInv'
  <2> SUFFICES ASSUME Orderly
               PROVE  OutIsRun' /\ FedIsRun' /\ NextIsRun'
    BY <1>a DEF FileInv, Orderly
  <2>0. OutIsRun /\ FedIsRun /\ NextIsRun
    BY DEF Inv, FileInv
  <2>1. OutIsRun'
    BY <1>t, <1>j, <2>0 DEF Inv, OutIsRun
  <2>2. FedIsRun'
    BY <1>t, <1>i, <1>n, <1>o, <1>i DEF Inv, FedIsRun, Same
  <2>3. NextIsRun'
    BY <1>t, <1>a, <1>e, <1>i, <1>h, <1>j, <1>k, <1>v, <1>l, <1>w, <1>n, <1>o,
         <2>0, <1>i DEF Inv, NextIsRun, Same, Has
  <2> QED BY <2>1, <2>2, <2>3
<1>8. OutputInv'
  BY <1>a, <1>h, <1>k, <1>w, <1>o DEF Inv, Orderly, OutputInv
<1>9. KeptInv'
  <2> SUFFICES ASSUME Orderly, NEW q \in runs'
               PROVE  Kept(q)'
    BY <1>a DEF KeptInv, Orderly
  <2>0. q \in Message /\ (q \in runs => Kept(q))
    BY <1>t, <1>a, <1>e, <1>h, <1>n DEF Inv, KeptInv
  <2>1. ASSUME InEnd(q) PROVE  Kept(q)'
    BY <2>1, <1>a, <1>e, <1>w, <1>o DEF Kept, InEnd, Closed
  <2>2. ASSUME AtStage(q) PROVE  Kept(q)'
    BY <2>2, <2>0, <1>a, <1>i, <1>h, <1>j, <1>k, <1>v, <1>l, <1>n DEF Inv, Kept,
         AtStage, IsTurn, RefInv, EntryRef, Has
  <2>3. ASSUME IsTurn(q) PROVE  Kept(q)'
    <3>1. Orderly => ent[entry].cur = None
      BY DEF Inv, TurnInv, IdleIsFree
    <3>2. q # None /\ Len(ent') = Len(ent)
      BY <1>n, <2>0 DEF Same
    <3>3. \A y \in 1..Len(ent) : q = ent[y].cur => ent'[y].cur = q
      BY <1>o, <3>1, <3>2
    <3> QED BY <2>3, <1>o, <3>2, <3>3 DEF IsTurn, Kept
  <2>4. ASSUME InQueue(q) PROVE  Kept(q)'
    BY <2>4, <1>t, <1>a, <1>v, <1>o DEF Inv, Kept, InQueue
  <2>5. ASSUME InStop(q) PROVE  Kept(q)'
    BY <2>5, <2>0, <1>t, <1>a, <1>i, <1>j, <1>k, <1>l, <1>n, <1>o DEF Kept, InStop,
         Has
  <2>6. ASSUME WasTurn(q) PROVE  Kept(q)'
    <3>1. \A j \in 1..Len(restarts) :
            restarts[j].old \in 1..Len(ent) /\ restarts[j].old # entry
      BY <1>t DEF Inv, RefInv, OldRef, EntryRef
    <3> QED BY <2>6, <1>a, <1>o, <3>1 DEF Kept, WasTurn
  <2>7. ASSUME IsCarried(q) PROVE  Kept(q)'
    BY <2>7, <1>t, <1>a, <1>l, <1>o DEF Inv, Kept, IsCarried, Has
  <2>8. ASSUME OnWire(q) PROVE  Kept(q)'
    BY <2>8, <1>t, <1>w DEF Kept, OnWire
  <2> QED BY <2>0, <1>a, <2>1, <2>2, <2>3, <2>4, <2>5, <2>6, <2>7, <2>8 DEF Kept
<1> QED BY <1>1, <1>2, <1>3, <1>4, <1>5, <1>6, <1>7, <1>8, <1>9 DEF Inv

LEMMA TextArrivesStep ==
  ASSUME Inv, NEW m \in Message, SendText(m), ent[at[m]].live
  PROVE  Inv'
<1> USE DEF vars, regVars, restartVars, turnVars, apiVars
<1>t. /\ ent \in Seq(Entry) /\ Len(ent) \in Nat /\ DOMAIN ent = 1..Len(ent)
      /\ restarts \in Seq(Restart) /\ Len(restarts) \in Nat
      /\ DOMAIN restarts = 1..Len(restarts) /\ runs \subseteq Message
      /\ \A y \in 1..Len(ent) : ent[y] \in Entry
      /\ \A y \in 1..Len(restarts) : restarts[y] \in Restart
      /\ entry \in 0..Len(ent) /\ spawning \in 0..Len(restarts)
      /\ stopping.e \in 0..Len(ent)
  BY DEF Inv, Types
<1>a. UNCHANGED <<regVars, restartVars, apiVars, entry, at, ctx, wire>>
  BY DEF SendText

<1>k. /\ stage' \in [Message -> Stages] /\ stage'[m] = "sent"
      /\ \A n \in Message : n # m => stage'[n] = stage[n]
  BY DEF Inv, Types, Stages, SendText

<1>e. /\ stage[m] = "starting" /\ at[m] \in 1..Len(ent) /\ AtChild(m, at[m])
      /\ m \in Message
  BY DEF Inv, Types, RefInv, AtRef, SendText, AtChild
<1>l. \A n \in Message : \A y : AtChild(n, y)' <=> n # m /\ AtChild(n, y)
  BY <1>a, <1>k DEF AtChild

<1>p1. ent' = Fed(ent, at[m], m)
  BY DEF SendText, Fed
<1>n. /\ Same(ent, ent', at[m])
      /\ Has(ent'[at[m]], ent[at[m]].live, ent[at[m]].wired, ent[at[m]].busy,
             ent[at[m]].cur, ent[at[m]].queue, Append(ent[at[m]].inbox, m))
  BY <1>t, <1>e, <1>p1, FedFacts
<1>o. /\ Len(ent') = Len(ent)
      /\ \A y \in 1..Len(ent) :
           /\ ent'[y].live = ent[y].live /\ ent'[y].wired = ent[y].wired
           /\ ent'[y].busy = ent[y].busy /\ ent'[y].cur = ent[y].cur
           /\ ent'[y].queue = ent[y].queue
           /\ y # at[m] => ent'[y].inbox = ent[y].inbox
  BY <1>n DEF Same, Has
<1>i. Orderly => /\ ent[at[m]].inbox = <<>> /\ ent'[at[m]].inbox # <<>>
                 /\ Head(ent'[at[m]].inbox) = m /\ Len(ent'[at[m]].inbox) = 1
  <2>1. Orderly => ent[at[m]].inbox = <<>>
    BY <1>e DEF Inv, TurnInv, NextWaits
  <2>2. ent'[at[m]].inbox = Append(ent[at[m]].inbox, m)
    BY <1>n DEF Has
  <2>3. /\ Append(<<>>, m) # <<>> /\ Head(Append(<<>>, m)) = m
        /\ Len(Append(<<>>, m)) = 1
    OBVIOUS
  <2> QED BY <2>1, <2>2, <2>3
<1>h. \A y : y \in ToSet(ent'[at[m]].inbox) => y \in ToSet(ent[at[m]].inbox) \/ y = m
  <2>1. ent[at[m]].inbox \in Seq(Message)
    BY <1>t, <1>e DEF Entry
  <2> QED BY <1>n, <2>1, SetOfAdd DEF Has
<1>1. Types'
  BY <1>a, <1>k, <1>l, <1>n, <1>o DEF Inv, Types, Restart, PatchSet, Stages,
       Statuses, Same
<1>2. RefInv'
  <2>1. CurRef'
    BY <1>a, <1>n, <1>o DEF Inv, RefInv, CurRef
  <2>2. WireRef'
    BY <1>t, <1>a DEF Inv, RefInv, WireRef
  <2>3. RunRef'
    BY <1>t, <1>a, <1>k DEF Inv, RefInv, RunRef, Has
  <2>4. AtRef'
    BY <1>a, <1>k, <1>n DEF Inv, RefInv, AtRef
  <2>5. FedRef'
    <3>1. FedRef /\ Len(ent') = Len(ent) /\ at' = at /\ at[m] # 0
      BY <1>a, <1>e, <1>o DEF Inv, RefInv
    <3> QED BY <1>h, <1>o, <3>1 DEF FedRef
  <2>6. OldRef'
    BY <1>a, <1>e, <1>o DEF Inv, RefInv, OldRef, Has
  <2>7. EntryRef'
    BY <1>t, <1>a, <1>o DEF Inv, RefInv, EntryRef
  <2> QED BY <2>1, <2>2, <2>3, <2>4, <2>5, <2>6, <2>7 DEF RefInv
<1>3. MapInv'
  BY <1>t, <1>a, <1>o DEF Inv, MapInv
<1>4. StopInv'
  BY <1>t, <1>a, <1>o, <1>i DEF Inv, StopInv, Awaited, Closed
<1>5. ChildInv'
  <2> SUFFICES ASSUME Orderly
               PROVE  OpenIsAwaited' /\ LiveIsHeld'
    BY <1>a DEF ChildInv, Orderly
  <2>0. OpenIsAwaited /\ LiveIsHeld
    BY DEF Inv, ChildInv
  <2>1. OpenIsAwaited'
    BY <1>a, <1>n, <2>0 DEF Inv, OpenIsAwaited
  <2>2. LiveIsHeld'
    BY <1>t, <1>a, <1>o, <2>0 DEF LiveIsHeld
  <2> QED BY <2>1, <2>2
<1>6. TurnInv'
  <2> SUFFICES ASSUME Orderly
               PROVE  OneInbox' /\ FedLives' /\ NextWaits' /\ OneNext' /\ IdleIsFree'
    BY <1>a DEF TurnInv, Orderly
  <2>0. OneInbox /\ FedLives /\ NextWaits /\ OneNext /\ IdleIsFree
    BY DEF Inv, TurnInv
  <2>1. OneInbox'
    BY <1>t, <1>n, <1>o, <1>i, <2>0 DEF Inv, OneInbox, Same, Has
  <2>2. FedLives'
    BY <1>t, <1>o, <1>h, <2>0 DEF FedLives
  <2>3. NextWaits'
    BY <1>k, <1>e, <1>l, <1>o, <1>i, <2>0 DEF Inv, NextWaits, OneNext
  <2>4. OneNext'
    BY <1>a, <1>l, <1>o, <2>0 DEF OneNext
  <2>5. IdleIsFree'
    BY <1>t, <1>a, <1>e, <1>l, <1>o, <1>i, <2>0 DEF IdleIsFree
  <2> QED BY <2>1, <2>2, <2>3, <2>4, <2>5
<1>7. FileInv'
  <2> SUFFICES ASSUME Orderly
               PROVE  OutIsRun' /\ FedIsRun' /\ NextIsRun'
    BY <1>a DEF FileInv, Orderly
  <2>0. OutIsRun /\ FedIsRun /\ NextIsRun
    BY DEF Inv, FileInv
  <2>1. OutIsRun'
    BY <1>t, <1>a, <2>0 DEF Inv, OutIsRun
  <2>2. FedIsRun'
    BY <1>a, <1>k, <1>e, <1>o, <1>i, <2>0 DEF FedIsRun, NextIsRun
  <2>3. NextIsRun'
    BY <1>t, <1>a, <1>l, <1>o, <2>0 DEF NextIsRun
  <2> QED BY <2>1, <2>2, <2>3
<1>8. OutputInv'
  BY <1>t, <1>a DEF Inv, Orderly, OutputInv
<1>9. KeptInv'
  <2> SUFFICES ASSUME Orderly, NEW q \in runs'
               PROVE  Kept(q)'
    BY <1>a DEF KeptInv, Orderly
  <2>0. q \in Message /\ (q \in runs => Kept(q))
    BY <1>t, <1>a, <1>l DEF Inv, KeptInv
  <2>1. ASSUME InEnd(q) PROVE  Kept(q)'
    BY <2>1, <1>a, <1>k DEF Kept, InEnd, Closed
  <2>2. ASSUME AtStage(q) PROVE  Kept(q)'
    BY <2>2, <2>0, <1>k, <1>e DEF Kept, AtStage
  <2>3. ASSUME IsTurn(q) PROVE  Kept(q)'
    BY <2>3, <1>n, <1>o DEF Kept, IsTurn
  <2>4. ASSUME InQueue(q) PROVE  Kept(q)'
    BY <2>4, <2>0, <1>t, <1>a, <1>n, <1>o DEF Kept, InQueue
  <2>5. ASSUME InStop(q) PROVE  Kept(q)'
    BY <2>5, <1>t, <1>a, <1>l, <1>n, <1>o DEF Kept, InStop, Has
  <2>6. ASSUME WasTurn(q) PROVE  Kept(q)'
    <3>1. \A j \in 1..Len(restarts) : restarts[j].old \in 1..Len(ent)
      BY <1>t DEF Inv, RefInv, OldRef
    <3> QED BY <2>6, <1>a, <1>o, <3>1 DEF Kept, WasTurn
  <2>7. ASSUME IsCarried(q) PROVE  Kept(q)'
    BY <2>7, <1>a, <1>k, <1>n, <1>i DEF Inv, Kept, IsCarried
  <2>8. ASSUME OnWire(q) PROVE  Kept(q)'
    BY <2>8, <1>a DEF Inv, Kept, OnWire
  <2> QED BY <2>0, <1>a, <2>1, <2>2, <2>3, <2>4, <2>5, <2>6, <2>7, <2>8 DEF Kept
<1> QED BY <1>1, <1>2, <1>3, <1>4, <1>5, <1>6, <1>7, <1>8, <1>9 DEF Inv

LEMMA TextIsLostStep ==
  ASSUME Inv, NEW m \in Message, SendText(m), ~ent[at[m]].live, runtime = "claude"
  PROVE  Inv'
<1> USE DEF vars, regVars, restartVars, turnVars, apiVars
<1>t. /\ ent \in Seq(Entry) /\ Len(ent) \in Nat /\ DOMAIN ent = 1..Len(ent)
      /\ restarts \in Seq(Restart) /\ Len(restarts) \in Nat
      /\ DOMAIN restarts = 1..Len(restarts) /\ runs \subseteq Message
      /\ \A y \in 1..Len(ent) : ent[y] \in Entry
      /\ \A y \in 1..Len(restarts) : restarts[y] \in Restart
      /\ entry \in 0..Len(ent) /\ spawning \in 0..Len(restarts)
      /\ stopping.e \in 0..Len(ent)
  BY DEF Inv, Types
<1>a. UNCHANGED <<regVars, restartVars, apiVars, entry, ent, at, ctx, wire>>
  BY DEF SendText

<1>k. /\ stage' \in [Message -> Stages] /\ stage'[m] = "sent"
      /\ \A n \in Message : n # m => stage'[n] = stage[n]
  BY DEF Inv, Types, Stages, SendText

<1>e. /\ stage[m] = "starting" /\ at[m] \in 1..Len(ent) /\ AtChild(m, at[m])
      /\ m \in Message
  BY DEF Inv, Types, RefInv, AtRef, SendText, AtChild
<1>l. \A n \in Message : \A y : AtChild(n, y)' <=> n # m /\ AtChild(n, y)
  BY <1>a, <1>k DEF AtChild
<1>1. Types'
  BY <1>a, <1>k DEF Inv, Types, Restart, MaybeRun, Stages
<1>2. RefInv'
  <2>1. CurRef'
    BY <1>a, <1>e DEF Inv, RefInv, CurRef
  <2>2. WireRef'
    BY <1>t, <1>a DEF Inv, RefInv, WireRef
  <2>3. RunRef'
    BY <1>t, <1>a, <1>k DEF Inv, RefInv, RunRef
  <2>4. AtRef'
    BY <1>a, <1>k DEF Inv, RefInv, AtRef
  <2>5. FedRef'
    BY <1>t, <1>a DEF Inv, RefInv, FedRef
  <2>6. OldRef'
    BY <1>a, <1>e DEF Inv, RefInv, OldRef
  <2>7. EntryRef'
    BY <1>t, <1>a DEF Inv, RefInv, EntryRef
  <2> QED BY <2>1, <2>2, <2>3, <2>4, <2>5, <2>6, <2>7 DEF RefInv
<1>3. MapInv'
  BY <1>t, <1>a DEF Inv, RefInv, MapInv
<1>4. StopInv'
  BY <1>a DEF Inv, StopInv, Awaited, Closed
<1>5. ChildInv'
  <2> SUFFICES ASSUME Orderly
               PROVE  OpenIsAwaited' /\ LiveIsHeld'
    BY <1>a DEF ChildInv, Orderly
  <2>0. OpenIsAwaited /\ LiveIsHeld
    BY DEF Inv, ChildInv
  <2>1. OpenIsAwaited'
    BY <1>a, <1>k, <2>0 DEF OpenIsAwaited, Has
  <2>2. LiveIsHeld'
    BY <1>t, <1>a, <2>0 DEF Inv, LiveIsHeld
  <2> QED BY <2>1, <2>2
<1>6. TurnInv'
  <2> SUFFICES ASSUME Orderly
               PROVE  OneInbox' /\ FedLives' /\ NextWaits' /\ OneNext' /\ IdleIsFree'
    BY <1>a DEF TurnInv, Orderly
  <2>0. OneInbox /\ FedLives /\ NextWaits /\ OneNext /\ IdleIsFree
    BY DEF Inv, TurnInv
  <2>1. OneInbox'
    BY <1>t, <1>a, <2>0 DEF Inv, OneInbox
  <2>2. FedLives'
    BY <1>t, <1>a, <1>e, <2>0 DEF FedLives
  <2>3. NextWaits'
    BY <1>a, <1>l, <2>0 DEF Inv, NextWaits
  <2>4. OneNext'
    BY <1>a, <1>k, <1>l, <2>0 DEF OneNext
  <2>5. IdleIsFree'
    BY <1>a, <1>l, <2>0 DEF Inv, IdleIsFree
  <2> QED BY <2>1, <2>2, <2>3, <2>4, <2>5
<1>7. FileInv'
  <2> SUFFICES ASSUME Orderly
               PROVE  OutIsRun' /\ FedIsRun' /\ NextIsRun'
    BY <1>a DEF FileInv, Orderly
  <2>0. OutIsRun /\ FedIsRun /\ NextIsRun
    BY DEF Inv, FileInv
  <2>1. OutIsRun'
    BY <1>t, <1>a, <2>0 DEF Inv, OutIsRun
  <2>2. FedIsRun'
    BY <1>t, <1>a, <1>e, <2>0 DEF FedIsRun
  <2>3. NextIsRun'
    BY <1>a, <1>l, <2>0 DEF NextIsRun, Has
  <2> QED BY <2>1, <2>2, <2>3
<1>8. OutputInv'
  BY <1>t, <1>a DEF Inv, Orderly, OutputInv
<1>9. KeptInv'
  <2> SUFFICES ASSUME Orderly, NEW q \in runs'
               PROVE  Kept(q)'
    BY <1>a DEF KeptInv, Orderly
  <2>0. q \in Message /\ (q \in runs => Kept(q))
    BY <1>t, <1>a, <1>l DEF Inv, KeptInv
  <2>1. ASSUME InEnd(q) PROVE  Kept(q)'
    BY <2>1, <1>a, <1>l DEF Kept, InEnd, Closed
  <2>2. ASSUME AtStage(q) PROVE  Kept(q)'
    BY <2>2, <2>0, <1>k, <1>e DEF Kept, AtStage
  <2>3. ASSUME IsTurn(q) PROVE  Kept(q)'
    BY <2>3, <2>0, <1>a DEF Kept, IsTurn
  <2>4. ASSUME InQueue(q) PROVE  Kept(q)'
    BY <2>4, <1>a DEF Inv, Kept, InQueue
  <2>5. ASSUME InStop(q) PROVE  Kept(q)'
    BY <2>5, <2>0, <1>a DEF Kept, InStop
  <2>6. ASSUME WasTurn(q) PROVE  Kept(q)'
    BY <2>6, <2>0, <1>a DEF Kept, WasTurn
  <2>7. ASSUME IsCarried(q) PROVE  Kept(q)'
    BY <2>7, <1>a DEF Kept, IsCarried, Has
  <2>8. ASSUME OnWire(q) PROVE  Kept(q)'
    BY <2>8, <1>a DEF Inv, Kept, OnWire
  <2> QED BY <2>0, <1>a, <2>1, <2>2, <2>3, <2>4, <2>5, <2>6, <2>7, <2>8 DEF Kept
<1> QED BY <1>1, <1>2, <1>3, <1>4, <1>5, <1>6, <1>7, <1>8, <1>9 DEF Inv

LEMMA TextIsRefusedStep ==
  ASSUME Inv, NEW m \in Message, SendText(m), ~ent[at[m]].live, runtime = "hermes"
  PROVE  Inv'
<1> USE DEF vars, regVars, restartVars, turnVars, apiVars
<1>t. /\ ent \in Seq(Entry) /\ Len(ent) \in Nat /\ DOMAIN ent = 1..Len(ent)
      /\ restarts \in Seq(Restart) /\ Len(restarts) \in Nat
      /\ DOMAIN restarts = 1..Len(restarts) /\ runs \subseteq Message
      /\ \A y \in 1..Len(ent) : ent[y] \in Entry
      /\ \A y \in 1..Len(restarts) : restarts[y] \in Restart
      /\ entry \in 0..Len(ent) /\ spawning \in 0..Len(restarts)
      /\ stopping.e \in 0..Len(ent)
  BY DEF Inv, Types
<1>a. UNCHANGED <<regVars, restartVars, apiVars, entry, ent, at, ctx>>
  BY DEF SendText
<1>z. runtime' # "claude" /\ runtime = "hermes"
  BY <1>a

<1>k. /\ stage' \in [Message -> Stages] /\ stage'[m] = "unwinding"
      /\ \A n \in Message : n # m => stage'[n] = stage[n]
  BY DEF Inv, Types, Stages, SendText

<1>e. /\ stage[m] = "starting" /\ at[m] \in 1..Len(ent) /\ AtChild(m, at[m])
      /\ m \in Message
  BY DEF Inv, Types, RefInv, AtRef, SendText, AtChild
<1>l. \A n \in Message : \A y : AtChild(n, y)' <=> n # m /\ AtChild(n, y)
  BY <1>a, <1>k DEF AtChild

<1>w. wire' = wire \cup Patch(m, "failed")
  BY DEF SendText
<1>h. /\ Patch(m, "failed") \subseteq PatchSet
      /\ \A p \in Patch(m, "failed") : p.run = m /\ p.run \in runs /\ p.status = "failed"
  BY <1>t, PatchFacts DEF MaybeRun
<1>1. Types'
  BY <1>a, <1>k, <1>e, <1>l, <1>w, <1>h DEF Inv, Types, Restart, PatchSet
<1>2. RefInv'
  <2>1. CurRef'
    BY <1>a, <1>h DEF Inv, RefInv, CurRef
  <2>2. WireRef'
    BY <1>a, <1>w, <1>h DEF Inv, RefInv, WireRef
  <2>3. RunRef'
    BY <1>t, <1>a, <1>k DEF Inv, RefInv, RunRef
  <2>4. AtRef'
    BY <1>a, <1>k, <1>e DEF Inv, RefInv, AtRef
  <2>5. FedRef'
    BY <1>t, <1>a DEF Inv, RefInv, FedRef
  <2>6. OldRef'
    BY <1>t, <1>a DEF Inv, RefInv, OldRef
  <2>7. EntryRef'
    BY <1>a, <1>e DEF Inv, RefInv, EntryRef
  <2> QED BY <2>1, <2>2, <2>3, <2>4, <2>5, <2>6, <2>7 DEF RefInv
<1>3. MapInv'
  BY <1>t, <1>a, <1>e DEF Inv, MapInv
<1>4. StopInv'
  BY <1>a, <1>w DEF Inv, StopInv, Awaited, Closed
<1>5. ChildInv'
  BY <1>z DEF ChildInv, Orderly
<1>6. TurnInv'
  BY <1>z DEF TurnInv, Orderly
<1>7. FileInv'
  BY <1>z DEF FileInv, Orderly
<1>8. OutputInv'
  BY <1>z DEF OutputInv, Orderly
<1>9. KeptInv'
  BY <1>z DEF KeptInv, Orderly
<1> QED BY <1>1, <1>2, <1>3, <1>4, <1>5, <1>6, <1>7, <1>8, <1>9 DEF Inv

LEMMA ReplyStep ==
  ASSUME Inv, NEW e \in DOMAIN ent, Reply(e)
  PROVE  Inv'
<1> USE DEF vars, regVars, restartVars, turnVars, apiVars
<1>t. /\ ent \in Seq(Entry) /\ Len(ent) \in Nat /\ DOMAIN ent = 1..Len(ent)
      /\ restarts \in Seq(Restart) /\ Len(restarts) \in Nat
      /\ DOMAIN restarts = 1..Len(restarts) /\ runs \subseteq Message
      /\ \A y \in 1..Len(ent) : ent[y] \in Entry
      /\ \A y \in 1..Len(restarts) : restarts[y] \in Restart
      /\ entry \in 0..Len(ent) /\ spawning \in 0..Len(restarts)
      /\ stopping.e \in 0..Len(ent)
  BY DEF Inv, Types
<1>a. UNCHANGED <<regVars, restartVars, apiVars, entry, ent, stage, at, wire>>
  BY DEF Reply
<1>p1. ent[e].inbox # <<>> /\ ent[e].inbox \in Seq(Message) /\ ctx.run # None
       /\ ctx \in [run : MaybeRun, out : MaybeRun] /\ e \in 1..Len(ent)
       /\ ctx' = [ctx EXCEPT !.out = Head(ent[e].inbox)]
  BY <1>t DEF Inv, Types, Reply, Entry
<1>p2. Head(ent[e].inbox) \in Message
  BY <1>p1
<1>b. /\ ctx' \in [run : MaybeRun, out : MaybeRun]
      /\ ctx'.run = ctx.run /\ ctx'.out = Head(ent[e].inbox)
  BY <1>p1, <1>p2 DEF MaybeRun
<1>i. Orderly => ctx'.out = ctx'.run
  BY <1>p1 DEF Inv, FileInv, FedIsRun
<1>l. \A n \in Message : \A y : AtChild(n, y)' <=> AtChild(n, y)
  BY <1>a DEF AtChild
<1>1. Types'
  BY <1>a, <1>b DEF Inv, Types, Restart, Statuses
<1>2. RefInv'
  <2>1. CurRef'
    BY <1>t, <1>a DEF Inv, RefInv, CurRef
  <2>2. WireRef'
    BY <1>t, <1>a DEF Inv, RefInv, WireRef
  <2>3. RunRef'
    BY <1>t, <1>a DEF Inv, RefInv, RunRef
  <2>4. AtRef'
    BY <1>t, <1>a DEF Inv, RefInv, AtRef
  <2>5. FedRef'
    BY <1>t, <1>a DEF Inv, RefInv, FedRef
  <2>6. OldRef'
    BY <1>a, <1>b DEF Inv, RefInv, OldRef
  <2>7. EntryRef'
    BY <1>t, <1>a DEF Inv, RefInv, EntryRef
  <2> QED BY <2>1, <2>2, <2>3, <2>4, <2>5, <2>6, <2>7 DEF RefInv
<1>3. MapInv'
  BY <1>a, <1>b DEF Inv, EntryRef, MapInv
<1>4. StopInv'
  BY <1>a DEF Inv, StopInv, Awaited, Closed
<1>5. ChildInv'
  <2> SUFFICES ASSUME Orderly
               PROVE  OpenIsAwaited' /\ LiveIsHeld'
    BY <1>a DEF ChildInv, Orderly
  <2>0. OpenIsAwaited /\ LiveIsHeld
    BY DEF Inv, ChildInv
  <2>1. OpenIsAwaited'
    BY <1>t, <1>a, <1>l, <2>0 DEF OpenIsAwaited
  <2>2. LiveIsHeld'
    BY <1>a, <1>b, <2>0 DEF Inv, LiveIsHeld
  <2> QED BY <2>1, <2>2
<1>6. TurnInv'
  <2> SUFFICES ASSUME Orderly
               PROVE  OneInbox' /\ FedLives' /\ NextWaits' /\ OneNext' /\ IdleIsFree'
    BY <1>a DEF TurnInv, Orderly
  <2>0. OneInbox /\ FedLives /\ NextWaits /\ OneNext /\ IdleIsFree
    BY DEF Inv, TurnInv
  <2>1. OneInbox'
    BY <1>a, <1>b, <2>0 DEF Inv, OneInbox
  <2>2. FedLives'
    BY <1>a, <1>b, <2>0 DEF Inv, FedLives
  <2>3. NextWaits'
    BY <1>a, <1>i, <1>l, <2>0 DEF NextWaits
  <2>4. OneNext'
    BY <1>t, <1>a, <1>l, <2>0 DEF OneNext
  <2>5. IdleIsFree'
    BY <1>a, <1>b, <1>l, <2>0 DEF IdleIsFree
  <2> QED BY <2>1, <2>2, <2>3, <2>4, <2>5
<1>7. FileInv'
  <2> SUFFICES ASSUME Orderly
               PROVE  OutIsRun' /\ FedIsRun' /\ NextIsRun'
    BY <1>a DEF FileInv, Orderly
  <2>0. OutIsRun /\ FedIsRun /\ NextIsRun
    BY DEF Inv, FileInv
  <2>1. OutIsRun'
    BY <1>t, <1>i, <2>0 DEF Inv, OutIsRun
  <2>2. FedIsRun'
    BY <1>a, <1>b, <2>0 DEF Inv, FedIsRun
  <2>3. NextIsRun'
    BY <1>a, <1>b, <1>l, <2>0 DEF NextIsRun
  <2> QED BY <2>1, <2>2, <2>3
<1>8. OutputInv'
  BY <1>t, <1>a DEF Inv, Orderly, OutputInv
<1>9. KeptInv'
  <2> SUFFICES ASSUME Orderly, NEW q \in runs'
               PROVE  Kept(q)'
    BY <1>a DEF KeptInv, Orderly
  <2>0. q \in Message /\ (q \in runs => Kept(q))
    BY <1>t, <1>a, <1>i DEF Inv, KeptInv
  <2>1. ASSUME InEnd(q) PROVE  Kept(q)'
    BY <2>1, <1>a, <1>b, <1>l DEF Kept, InEnd, Closed
  <2>2. ASSUME AtStage(q) PROVE  Kept(q)'
    BY <2>2, <2>0, <1>a DEF Kept, AtStage
  <2>3. ASSUME IsTurn(q) PROVE  Kept(q)'
    BY <2>3, <2>0, <1>a DEF Kept, IsTurn
  <2>4. ASSUME InQueue(q) PROVE  Kept(q)'
    BY <2>4, <1>a DEF Inv, Kept, InQueue
  <2>5. ASSUME InStop(q) PROVE  Kept(q)'
    BY <2>5, <1>t, <1>a DEF Kept, InStop
  <2>6. ASSUME WasTurn(q) PROVE  Kept(q)'
    BY <2>6, <1>a, <1>b DEF Kept, WasTurn
  <2>7. ASSUME IsCarried(q) PROVE  Kept(q)'
    BY <2>7, <1>a DEF Inv, Kept, IsCarried
  <2>8. ASSUME OnWire(q) PROVE  Kept(q)'
    BY <2>8, <1>a DEF Inv, Kept, OnWire
  <2> QED BY <2>0, <1>a, <2>1, <2>2, <2>3, <2>4, <2>5, <2>6, <2>7, <2>8 DEF Kept
<1> QED BY <1>1, <1>2, <1>3, <1>4, <1>5, <1>6, <1>7, <1>8, <1>9 DEF Inv

LEMMA TurnUnheardStep ==
  ASSUME Inv, NEW e \in DOMAIN ent, TurnComplete(e), ~ent[e].wired \/ entry = 0
  PROVE  Inv'
<1> USE DEF vars, regVars, restartVars, turnVars, apiVars
<1>t. /\ ent \in Seq(Entry) /\ Len(ent) \in Nat /\ DOMAIN ent = 1..Len(ent)
      /\ restarts \in Seq(Restart) /\ Len(restarts) \in Nat
      /\ DOMAIN restarts = 1..Len(restarts) /\ runs \subseteq Message
      /\ \A y \in 1..Len(ent) : ent[y] \in Entry
      /\ \A y \in 1..Len(restarts) : restarts[y] \in Restart
      /\ entry \in 0..Len(ent) /\ spawning \in 0..Len(restarts)
      /\ stopping.e \in 0..Len(ent)
  BY DEF Inv, Types
<1>a. UNCHANGED <<regVars, restartVars, apiVars, entry, at, stage, ctx, wire>>
  BY DEF TurnComplete
<1>p1. ent' = Popped(ent, e) /\ ent[e].inbox # <<>> /\ e \in 1..Len(ent)
  BY <1>t DEF TurnComplete, Popped
<1>p2. /\ Same(ent, ent', e)
       /\ Has(ent'[e], ent[e].live, ent[e].wired, ent[e].busy, ent[e].cur,
              ent[e].queue, Tail(ent[e].inbox))
  BY <1>t, <1>p1, PoppedFacts
<1>n. ent' \in Seq(Entry) /\ Len(ent') = Len(ent) /\ e \in 1..Len(ent)
  BY <1>p2, <1>p1 DEF Same
<1>o. \A y \in 1..Len(ent) :
        /\ ent'[y].live = ent[y].live /\ ent'[y].wired = ent[y].wired
        /\ ent'[y].busy = ent[y].busy /\ ent'[y].cur = ent[y].cur
        /\ ent'[y].queue = ent[y].queue
        /\ y # e => ent'[y].inbox = ent[y].inbox
  BY <1>p2 DEF Same, Has
<1>i. Orderly => ent[e].inbox # <<>> /\ ent'[e].inbox = <<>>
  <2>1. Orderly => Len(ent[e].inbox) <= 1
    BY DEF Inv, TurnInv, OneInbox
  <2>2. ent[e].inbox \in Seq(Message)
    BY <1>t DEF Entry
  <2> QED BY <1>p1, <1>p2, <2>1, <2>2 DEF Has
<1>h. \A y \in Message : y \in ToSet(ent'[e].inbox) => y \in ToSet(ent[e].inbox)
  <2>2. ent[e].inbox \in Seq(Message)
    BY <1>t DEF Entry
  <2> QED BY <1>p1, <1>p2, <2>2, SetOfTail DEF Has
<1>l. \A n \in Message : \A y : AtChild(n, y)' <=> AtChild(n, y)
  BY <1>a DEF AtChild
<1>s. Len(<<>>) <= 1
  OBVIOUS
<1>1. Types'
  BY <1>t, <1>a, <1>n, <1>i, <1>s DEF Inv, Types, Restart, Stages, Statuses
<1>2. RefInv'
  <2>1. CurRef'
    BY <1>a, <1>n, <1>o DEF Inv, RefInv, CurRef, Has
  <2>2. WireRef'
    BY <1>t, <1>a DEF Inv, RefInv, WireRef
  <2>3. RunRef'
    BY <1>t, <1>a DEF Inv, RefInv, RunRef
  <2>4. AtRef'
    BY <1>t, <1>a DEF Inv, RefInv, AtRef
  <2>5. FedRef'
    BY <1>a, <1>n, <1>o, <1>h DEF Inv, RefInv, FedRef
  <2>6. OldRef'
    BY <1>a, <1>n, <1>o, <1>s DEF Inv, RefInv, OldRef
  <2>7. EntryRef'
    BY <1>t, <1>a, <1>o DEF Inv, RefInv, EntryRef
  <2> QED BY <2>1, <2>2, <2>3, <2>4, <2>5, <2>6, <2>7 DEF RefInv
<1>3. MapInv'
  BY <1>t, <1>a, <1>o DEF Inv, MapInv
<1>4. StopInv'
  BY <1>t, <1>a, <1>o DEF Inv, MapInv, StopInv, Awaited, Closed
<1>5. ChildInv'
  <2> SUFFICES ASSUME Orderly
               PROVE  OpenIsAwaited' /\ LiveIsHeld'
    BY <1>a DEF ChildInv, Orderly
  <2>0. OpenIsAwaited /\ LiveIsHeld
    BY DEF Inv, ChildInv
  <2>1. OpenIsAwaited'
    BY <1>a, <1>h, <1>s, <2>0 DEF OpenIsAwaited
  <2>2. LiveIsHeld'
    BY <1>a, <1>n, <1>o, <2>0 DEF LiveIsHeld
  <2> QED BY <2>1, <2>2
<1>6. TurnInv'
  <2> SUFFICES ASSUME Orderly
               PROVE  OneInbox' /\ FedLives' /\ NextWaits' /\ OneNext' /\ IdleIsFree'
    BY <1>a DEF TurnInv, Orderly
  <2>0. OneInbox /\ FedLives /\ NextWaits /\ OneNext /\ IdleIsFree
    BY DEF Inv, TurnInv
  <2>1. OneInbox'
    BY <1>n, <1>o, <1>i, <2>0 DEF Inv, OneInbox
  <2>2. FedLives'
    BY <1>n, <1>o, <1>i, <2>0 DEF FedLives
  <2>3. NextWaits'
    BY <1>n, <1>o, <1>i, <1>l, <2>0 DEF Inv, NextWaits
  <2>4. OneNext'
    BY <1>n, <1>o, <1>i, <1>l, <2>0 DEF OneNext
  <2>5. IdleIsFree'
    BY <1>t, <1>a, <1>o, <1>i, <1>l, <2>0 DEF Inv, IdleIsFree
  <2> QED BY <2>1, <2>2, <2>3, <2>4, <2>5
<1>7. FileInv'
  <2> SUFFICES ASSUME Orderly
               PROVE  OutIsRun' /\ FedIsRun' /\ NextIsRun'
    BY <1>a DEF FileInv, Orderly
  <2>0. OutIsRun /\ FedIsRun /\ NextIsRun
    BY DEF Inv, FileInv
  <2>1. OutIsRun'
    BY <1>t, <1>a, <2>0 DEF Inv, OutIsRun
  <2>2. FedIsRun'
    BY <1>a, <1>n, <1>o, <1>i, <2>0 DEF FedIsRun
  <2>3. NextIsRun'
    BY <1>t, <1>a, <1>n, <1>o, <1>l, <1>s, <2>0 DEF NextIsRun
  <2> QED BY <2>1, <2>2, <2>3
<1>8. OutputInv'
  BY <1>t, <1>a DEF Inv, Orderly, OutputInv
<1>9. KeptInv'
  <2> SUFFICES ASSUME Orderly, NEW q \in runs'
               PROVE  Kept(q)'
    BY <1>a DEF KeptInv, Orderly
  <2>0. q \in Message /\ (q \in runs => Kept(q))
    BY <1>t, <1>a, <1>h DEF Inv, KeptInv
  <2>1. ASSUME InEnd(q) PROVE  Kept(q)'
    BY <2>1, <1>a DEF Kept, InEnd, Closed
  <2>2. ASSUME AtStage(q) PROVE  Kept(q)'
    BY <2>2, <2>0, <1>a DEF Kept, AtStage
  <2>3. ASSUME IsTurn(q) PROVE  Kept(q)'
    BY <2>3, <1>n, <1>o DEF Kept, IsTurn
  <2>4. ASSUME InQueue(q) PROVE  Kept(q)'
    BY <2>4, <1>t, <1>a, <1>o DEF Kept, InQueue
  <2>5. ASSUME InStop(q) PROVE  Kept(q)'
    BY <2>5, <1>t, <1>a, <1>n, <1>o, <1>i DEF Kept, InStop
  <2>6. ASSUME WasTurn(q) PROVE  Kept(q)'
    <3>1. \A j \in 1..Len(restarts) :
            restarts[j].old \in 1..Len(ent)
      BY <1>t DEF Inv, RefInv, OldRef, EntryRef
    <3> QED BY <2>6, <1>a, <1>o, <3>1 DEF Kept, WasTurn
  <2>7. ASSUME IsCarried(q) PROVE  Kept(q)'
    BY <2>7, <1>t, <1>a, <1>l, <1>s DEF Kept, IsCarried
  <2>8. ASSUME OnWire(q) PROVE  Kept(q)'
    BY <2>8, <2>0, <1>a DEF Kept, OnWire
  <2> QED BY <2>0, <1>a, <2>1, <2>2, <2>3, <2>4, <2>5, <2>6, <2>7, <2>8 DEF Kept
<1> QED BY <1>1, <1>2, <1>3, <1>4, <1>5, <1>6, <1>7, <1>8, <1>9 DEF Inv

LEMMA TurnEndsStep ==
  ASSUME Inv, NEW e \in DOMAIN ent, TurnComplete(e), ent[e].wired, entry # 0, ent[entry].queue = <<>>
  PROVE  Inv'
<1> USE DEF vars, regVars, restartVars, turnVars, apiVars
<1>t. /\ ent \in Seq(Entry) /\ Len(ent) \in Nat /\ DOMAIN ent = 1..Len(ent)
      /\ restarts \in Seq(Restart) /\ Len(restarts) \in Nat
      /\ DOMAIN restarts = 1..Len(restarts) /\ runs \subseteq Message
      /\ \A y \in 1..Len(ent) : ent[y] \in Entry
      /\ \A y \in 1..Len(restarts) : restarts[y] \in Restart
      /\ entry \in 0..Len(ent) /\ spawning \in 0..Len(restarts)
      /\ stopping.e \in 0..Len(ent)
  BY DEF Inv, Types
<1>p1. ent[e].inbox # <<>> /\ e \in 1..Len(ent) /\ entry \in 1..Len(ent)
       /\ ent[entry].cur \in runs \cup {None} /\ ctx \in [run : MaybeRun, out : MaybeRun]
       /\ None \in MaybeRun /\ stage \in [Message -> Stages] /\ at \in [Message -> Nat]
       /\ \A n \in Message : at[n] \in 0..Len(ent)
  BY SMTT(30), <1>t DEF TurnComplete, Inv, Types, RefInv, CurRef, MaybeRun
<1> DEFINE s1 == Popped(ent, e)
           s2 == TurnOver(s1, entry, None)
           s3 == Taken(s2, entry)
           ps == EndOfTurn(ent[entry].cur)
<1>p2. Drain(s2, stage, NoContext, ps)
  BY DEF TurnComplete, Popped, TurnOver, EndOfTurn
<1>p3. /\ Same(ent, s1, e)
       /\ Has(s1[e], ent[e].live, ent[e].wired, ent[e].busy, ent[e].cur,
              ent[e].queue, Tail(ent[e].inbox))
  BY <1>t, <1>p1, PoppedFacts
<1>p4. /\ Same(s1, s2, entry)
       /\ Has(s2[entry], s1[entry].live, s1[entry].wired, FALSE, None,
              s1[entry].queue, s1[entry].inbox)
  BY <1>p1, <1>p3, TurnOverFacts DEF Same
<1>h. /\ ps \subseteq PatchSet
      /\ \A p \in ps : /\ p.run = ent[entry].cur /\ p.run \in runs
                       /\ p.status \in {"completed", "failed"}
                       /\ p.status = "completed" =>
                            p.out # None /\ p.out = ctx.out /\ p.run = ctx.run
      /\ ent[entry].cur \in runs => \E p \in ps : p.run = ent[entry].cur
  BY <1>t, <1>p1, EndFacts
<1> HIDE DEF s1, s2, ps
<1>p5. /\ s2 \in Seq(Entry) /\ Len(s2) = Len(ent)
       /\ \A y \in 1..Len(ent) :
            /\ s2[y].live = ent[y].live /\ s2[y].wired = ent[y].wired
            /\ s2[y].queue = ent[y].queue
            /\ y # e => s2[y].inbox = ent[y].inbox
            /\ y # entry => s2[y].cur = ent[y].cur /\ s2[y].busy = ent[y].busy
       /\ s2[entry].cur = None /\ s2[entry].busy = FALSE
       /\ s2[e].inbox = Tail(ent[e].inbox)
  <2>1. /\ Len(s1) = Len(ent) /\ s1[e].inbox = Tail(ent[e].inbox)
        /\ \A y \in 1..Len(ent) :
             /\ s1[y].live = ent[y].live /\ s1[y].wired = ent[y].wired
             /\ s1[y].queue = ent[y].queue /\ s1[y].busy = ent[y].busy
             /\ s1[y].cur = ent[y].cur /\ (y # e => s1[y].inbox = ent[y].inbox)
    BY <1>p1, <1>p3 DEF Same, Has
  <2>2. /\ s2 \in Seq(Entry) /\ Len(s2) = Len(s1)
        /\ s2[entry].cur = None /\ s2[entry].busy = FALSE
        /\ \A y \in 1..Len(s1) :
             /\ s2[y].live = s1[y].live /\ s2[y].wired = s1[y].wired
             /\ s2[y].queue = s1[y].queue /\ s2[y].inbox = s1[y].inbox
             /\ y # entry => s2[y].cur = s1[y].cur /\ s2[y].busy = s1[y].busy
    BY <1>p1, <1>p4, <2>1 DEF Same, Has
  <2> QED BY <1>p1, <2>1, <2>2
<1>i. Orderly => /\ e = entry /\ ent[e].inbox # <<>> /\ s2[e].inbox = <<>>
                 /\ ent[e].live
                 /\ \A y \in 1..Len(ent) : ent[y].live => y = entry
                 /\ \A y \in 1..Len(ent) : y # entry => ent[y].inbox = <<>>
                 /\ \A n \in Message : ~AtChild(n, entry)
                 /\ \A y \in 1..Len(ent) : s2[y].inbox = <<>>
  <2> SUFFICES ASSUME Orderly
               PROVE  /\ e = entry /\ ent[e].live /\ s2[e].inbox = <<>>
                      /\ \A y \in 1..Len(ent) : ent[y].live => y = entry
                      /\ \A y \in 1..Len(ent) : y # entry => ent[y].inbox = <<>>
                      /\ \A n \in Message : ~AtChild(n, entry)
    BY ZenonT(40), <1>p1, <1>p5
  <2>1. OneInbox /\ FedLives /\ NextWaits /\ OpenIsAwaited /\ LiveIsHeld
    BY DEF Inv, TurnInv, ChildInv
  <2>2. entry # 0 /\ session # 0 /\ spawning = 0 /\ stopping.e = 0
    BY <1>t DEF Inv, MapInv
  <2>3. \A y \in 1..Len(restarts) : restarts[y].state # "open"
    BY <2>1, <2>2 DEF OpenIsAwaited
  <2>4. \A y \in 1..Len(ent) : ent[y].live => y = entry
    BY <2>1, <2>2, <2>3, <1>p1 DEF LiveIsHeld
  <2>5. e = entry /\ ent[e].live
    BY <2>1, <2>4, <1>p1 DEF FedLives
  <2>6. ent[e].inbox \in Seq(Message) /\ Len(ent[e].inbox) <= 1
    BY <2>1, <1>p1, <1>t DEF Entry, OneInbox
  <2>7. Tail(ent[e].inbox) = <<>>
    BY <2>6, <1>p1
  <2> QED BY <2>1, <2>4, <2>5, <2>7, <1>p1, <1>p5 DEF FedLives, NextWaits
<1>u. \A y \in 1..Len(ent), n \in Message :
        n \in ToSet(s2[y].inbox) => n \in ToSet(ent[y].inbox)
  <2>1. ent[e].inbox \in Seq(Message)
    BY <1>t, <1>p1 DEF Entry
  <2> QED BY <1>p1, <1>p5, <2>1, SetOfTail
<1>s. Len(<<>>) <= 1 /\ entry \in 1..Len(ent) /\ ent[entry].wired
  BY <1>p1 DEF Inv, RefInv, EntryRef

<1>p6. NoDrain(s2, stage, NoContext, ps)
  BY <1>p2, <1>p5, <1>p1 DEF Drain
<1>a. UNCHANGED <<regVars, restartVars, apiVars, entry, at, stage>>
  BY <1>p6 DEF TurnComplete, NoDrain
<1>b. ctx'.run = None /\ ctx'.out = None /\ ctx' \in [run : MaybeRun, out : MaybeRun]
  BY <1>p6 DEF NoDrain, NoContext, MaybeRun
<1>w. wire' = wire \cup ps
  BY <1>p6 DEF NoDrain
<1>n. ent' = s2 /\ ent' \in Seq(Entry) /\ Len(ent') = Len(ent)
  BY <1>p5, <1>p6 DEF NoDrain
<1>o. /\ \A y \in 1..Len(ent) :
           /\ ent'[y].live = ent[y].live /\ ent'[y].wired = ent[y].wired
           /\ ent'[y].queue = ent[y].queue
           /\ y # entry => ent'[y].cur = ent[y].cur /\ ent'[y].busy = ent[y].busy
      /\ ent'[entry].cur = None /\ ent'[entry].busy = FALSE
  BY <1>p5, <1>n
<1>l. \A n \in Message : \A y : AtChild(n, y)' <=> AtChild(n, y)
  BY <1>a DEF AtChild
<1>1. Types'
  BY <1>t, <1>h, <1>u, <1>s, <1>a, <1>b, <1>w, <1>n, <1>o DEF Inv, Types, PatchSet,
       Statuses
<1>2. RefInv'
  <2>1. CurRef'
    BY <1>h, <1>i, <1>a, <1>w, <1>n, <1>o DEF Inv, RefInv, CurRef
  <2>2. WireRef'
    BY <1>h, <1>i, <1>s, <1>a, <1>w DEF Inv, RefInv, WireRef
  <2>3. RunRef'
    BY <1>t, <1>a DEF Inv, RefInv, RunRef
  <2>4. AtRef'
    BY <1>t, <1>a DEF Inv, RefInv, AtRef
  <2>5. FedRef'
    BY <1>u, <1>a, <1>n DEF Inv, RefInv, FedRef
  <2>6. OldRef'
    BY <1>h, <1>i, <1>u, <1>a, <1>n, <1>o DEF Inv, RefInv, OldRef
  <2>7. EntryRef'
    BY <1>t, <1>a, <1>o DEF Inv, RefInv, EntryRef
  <2> QED BY <2>1, <2>2, <2>3, <2>4, <2>5, <2>6, <2>7 DEF RefInv
<1>3. MapInv'
  BY <1>h, <1>s, <1>a DEF Inv, MapInv
<1>4. StopInv'
  BY <1>a, <1>n, <1>o DEF Inv, MapInv, StopInv, Closed
<1>5. ChildInv'
  <2> SUFFICES ASSUME Orderly
               PROVE  OpenIsAwaited' /\ LiveIsHeld'
    BY <1>a DEF ChildInv, Orderly
  <2>0. OpenIsAwaited /\ LiveIsHeld
    BY DEF Inv, ChildInv
  <2>1. OpenIsAwaited'
    BY <1>h, <1>s, <1>a, <1>l, <2>0 DEF OpenIsAwaited
  <2>2. LiveIsHeld'
    BY <1>a, <1>n, <1>o, <2>0 DEF LiveIsHeld
  <2> QED BY <2>1, <2>2
<1>6. TurnInv'
  <2> SUFFICES ASSUME Orderly
               PROVE  OneInbox' /\ FedLives' /\ NextWaits' /\ OneNext' /\ IdleIsFree'
    BY <1>a DEF TurnInv, Orderly
  <2>0. OneInbox /\ FedLives /\ NextWaits /\ OneNext /\ IdleIsFree
    BY DEF Inv, TurnInv
  <2>1. OneInbox'
    BY <1>t, <1>i, <1>n DEF Inv, OneInbox
  <2>2. FedLives'
    BY <1>t, <1>i, <1>s, <1>n DEF FedLives
  <2>3. NextWaits'
    BY <1>i, <1>a, <1>n DEF Inv, NextWaits
  <2>4. OneNext'
    BY <1>h, <1>u, <1>n, <1>o, <1>l, <2>0 DEF OneNext, Has
  <2>5. IdleIsFree'
    BY <1>i, <1>a, <1>n, <1>o, <1>l, <2>0 DEF IdleIsFree
  <2> QED BY <2>1, <2>2, <2>3, <2>4, <2>5
<1>7. FileInv'
  <2> SUFFICES ASSUME Orderly
               PROVE  OutIsRun' /\ FedIsRun' /\ NextIsRun'
    BY <1>a DEF FileInv, Orderly
  <2>0. OutIsRun /\ FedIsRun /\ NextIsRun
    BY DEF Inv, FileInv
  <2>1. OutIsRun'
    BY <1>t, <1>b, <2>0 DEF Inv, OutIsRun
  <2>2. FedIsRun'
    BY <1>t, <1>b, <2>0 DEF Inv, FedIsRun
  <2>3. NextIsRun'
    BY <1>s, <1>b, <1>o DEF Inv, NextIsRun
  <2> QED BY <2>1, <2>2, <2>3
<1>8. OutputInv'
  BY <1>h, <1>i, <1>s, <1>a, <1>w DEF Inv, Orderly, OutputInv, FileInv, OutIsRun,
       Has
<1>9. KeptInv'
  <2> SUFFICES ASSUME Orderly, NEW q \in runs'
               PROVE  Kept(q)'
    BY <1>a DEF KeptInv, Orderly
  <2>0. q \in Message /\ (q \in runs => Kept(q))
    BY <1>t, <1>a, <1>w DEF Inv, KeptInv
  <2>1. ASSUME InEnd(q) PROVE  Kept(q)'
    BY <2>1, <2>0, <1>t, <1>i, <1>u, <1>a, <1>b, <1>l DEF Inv, Kept, InEnd, Closed,
         Has
  <2>2. ASSUME AtStage(q) PROVE  Kept(q)'
    BY <2>2, <2>0, <1>a DEF Kept, AtStage
  <2>3. ASSUME IsTurn(q) PROVE  Kept(q)'
    BY <2>3, <1>h, <1>i, <1>u, <1>s, <1>a, <1>w, <1>n, <1>o DEF Inv, Kept, IsTurn,
         OnWire, Has
  <2>4. ASSUME InQueue(q) PROVE  Kept(q)'
    BY <2>4, <1>t, <1>a, <1>o DEF Kept, InQueue
  <2>5. ASSUME InStop(q) PROVE  Kept(q)'
    BY <2>5, <1>t, <1>h, <1>i, <1>a, <1>b, <1>o, <1>l DEF Kept, InStop
  <2>6. ASSUME WasTurn(q) PROVE  Kept(q)'
    <3>1. \A j \in 1..Len(restarts) :
            restarts[j].old \in 1..Len(ent) /\ restarts[j].old # entry
      BY <1>t DEF Inv, RefInv, OldRef, EntryRef
    <3> QED BY <2>6, <1>a, <1>o, <3>1 DEF Kept, WasTurn
  <2>7. ASSUME IsCarried(q) PROVE  Kept(q)'
    BY <2>7, <1>t, <1>h, <1>a, <1>l DEF Inv, Kept, IsCarried
  <2>8. ASSUME OnWire(q) PROVE  Kept(q)'
    BY <2>8, <2>0, <1>w DEF Kept, OnWire
  <2> QED BY <2>0, <1>a, <2>1, <2>2, <2>3, <2>4, <2>5, <2>6, <2>7, <2>8 DEF Kept
<1> QED BY <1>1, <1>2, <1>3, <1>4, <1>5, <1>6, <1>7, <1>8, <1>9 DEF Inv

LEMMA TurnDrainsStep ==
  ASSUME Inv, NEW e \in DOMAIN ent, TurnComplete(e), ent[e].wired, entry # 0, ent[entry].queue # <<>>
  PROVE  Inv'
<1> USE DEF vars, regVars, restartVars, turnVars, apiVars
<1>t. /\ ent \in Seq(Entry) /\ Len(ent) \in Nat /\ DOMAIN ent = 1..Len(ent)
      /\ restarts \in Seq(Restart) /\ Len(restarts) \in Nat
      /\ DOMAIN restarts = 1..Len(restarts) /\ runs \subseteq Message
      /\ \A y \in 1..Len(ent) : ent[y] \in Entry
      /\ \A y \in 1..Len(restarts) : restarts[y] \in Restart
      /\ entry \in 0..Len(ent) /\ spawning \in 0..Len(restarts)
      /\ stopping.e \in 0..Len(ent)
  BY DEF Inv, Types
<1>p1. ent[e].inbox # <<>> /\ e \in 1..Len(ent) /\ entry \in 1..Len(ent)
       /\ ent[entry].cur \in runs \cup {None} /\ ctx \in [run : MaybeRun, out : MaybeRun]
       /\ None \in MaybeRun /\ stage \in [Message -> Stages] /\ at \in [Message -> Nat]
       /\ \A n \in Message : at[n] \in 0..Len(ent)
  BY SMTT(30), <1>t DEF TurnComplete, Inv, Types, RefInv, CurRef, MaybeRun
<1> DEFINE s1 == Popped(ent, e)
           s2 == TurnOver(s1, entry, None)
           s3 == Taken(s2, entry)
           ps == EndOfTurn(ent[entry].cur)
<1>p2. Drain(s2, stage, NoContext, ps)
  BY DEF TurnComplete, Popped, TurnOver, EndOfTurn
<1>p3. /\ Same(ent, s1, e)
       /\ Has(s1[e], ent[e].live, ent[e].wired, ent[e].busy, ent[e].cur,
              ent[e].queue, Tail(ent[e].inbox))
  BY <1>t, <1>p1, PoppedFacts
<1>p4. /\ Same(s1, s2, entry)
       /\ Has(s2[entry], s1[entry].live, s1[entry].wired, FALSE, None,
              s1[entry].queue, s1[entry].inbox)
  BY <1>p1, <1>p3, TurnOverFacts DEF Same
<1>h. /\ ps \subseteq PatchSet
      /\ \A p \in ps : /\ p.run = ent[entry].cur /\ p.run \in runs
                       /\ p.status \in {"completed", "failed"}
                       /\ p.status = "completed" =>
                            p.out # None /\ p.out = ctx.out /\ p.run = ctx.run
      /\ ent[entry].cur \in runs => \E p \in ps : p.run = ent[entry].cur
  BY <1>t, <1>p1, EndFacts
<1> HIDE DEF s1, s2, ps
<1>p5. /\ s2 \in Seq(Entry) /\ Len(s2) = Len(ent)
       /\ \A y \in 1..Len(ent) :
            /\ s2[y].live = ent[y].live /\ s2[y].wired = ent[y].wired
            /\ s2[y].queue = ent[y].queue
            /\ y # e => s2[y].inbox = ent[y].inbox
            /\ y # entry => s2[y].cur = ent[y].cur /\ s2[y].busy = ent[y].busy
       /\ s2[entry].cur = None /\ s2[entry].busy = FALSE
       /\ s2[e].inbox = Tail(ent[e].inbox)
  <2>1. /\ Len(s1) = Len(ent) /\ s1[e].inbox = Tail(ent[e].inbox)
        /\ \A y \in 1..Len(ent) :
             /\ s1[y].live = ent[y].live /\ s1[y].wired = ent[y].wired
             /\ s1[y].queue = ent[y].queue /\ s1[y].busy = ent[y].busy
             /\ s1[y].cur = ent[y].cur /\ (y # e => s1[y].inbox = ent[y].inbox)
    BY <1>p1, <1>p3 DEF Same, Has
  <2>2. /\ s2 \in Seq(Entry) /\ Len(s2) = Len(s1)
        /\ s2[entry].cur = None /\ s2[entry].busy = FALSE
        /\ \A y \in 1..Len(s1) :
             /\ s2[y].live = s1[y].live /\ s2[y].wired = s1[y].wired
             /\ s2[y].queue = s1[y].queue /\ s2[y].inbox = s1[y].inbox
             /\ y # entry => s2[y].cur = s1[y].cur /\ s2[y].busy = s1[y].busy
    BY <1>p1, <1>p4, <2>1 DEF Same, Has
  <2> QED BY <1>p1, <2>1, <2>2
<1>i. Orderly => /\ e = entry /\ ent[e].inbox # <<>> /\ s2[e].inbox = <<>>
                 /\ ent[e].live
                 /\ \A y \in 1..Len(ent) : ent[y].live => y = entry
                 /\ \A y \in 1..Len(ent) : y # entry => ent[y].inbox = <<>>
                 /\ \A n \in Message : ~AtChild(n, entry)
                 /\ \A y \in 1..Len(ent) : s2[y].inbox = <<>>
  <2> SUFFICES ASSUME Orderly
               PROVE  /\ e = entry /\ ent[e].live /\ s2[e].inbox = <<>>
                      /\ \A y \in 1..Len(ent) : ent[y].live => y = entry
                      /\ \A y \in 1..Len(ent) : y # entry => ent[y].inbox = <<>>
                      /\ \A n \in Message : ~AtChild(n, entry)
    BY ZenonT(40), <1>p1, <1>p5
  <2>1. OneInbox /\ FedLives /\ NextWaits /\ OpenIsAwaited /\ LiveIsHeld
    BY DEF Inv, TurnInv, ChildInv
  <2>2. entry # 0 /\ session # 0 /\ spawning = 0 /\ stopping.e = 0
    BY <1>t DEF Inv, MapInv
  <2>3. \A y \in 1..Len(restarts) : restarts[y].state # "open"
    BY <2>1, <2>2 DEF OpenIsAwaited
  <2>4. \A y \in 1..Len(ent) : ent[y].live => y = entry
    BY <2>1, <2>2, <2>3, <1>p1 DEF LiveIsHeld
  <2>5. e = entry /\ ent[e].live
    BY <2>1, <2>4, <1>p1 DEF FedLives
  <2>6. ent[e].inbox \in Seq(Message) /\ Len(ent[e].inbox) <= 1
    BY <2>1, <1>p1, <1>t DEF Entry, OneInbox
  <2>7. Tail(ent[e].inbox) = <<>>
    BY <2>6, <1>p1
  <2> QED BY <2>1, <2>4, <2>7, <1>p1, <1>p5 DEF FedLives, NextWaits
<1>u. \A y \in 1..Len(ent), n \in Message :
        n \in ToSet(s2[y].inbox) => n \in ToSet(ent[y].inbox)
  <2>1. ent[e].inbox \in Seq(Message)
    BY <1>t, <1>p1 DEF Entry
  <2>2. \A n : n \in ToSet(s2[e].inbox) => n \in ToSet(ent[e].inbox)
    BY <1>p1, <1>p5, <2>1, SetOfTail
  <2> QED BY <1>p5, <2>2
<1>s. Len(<<>>) <= 1 /\ entry \in 1..Len(ent) /\ ent[entry].wired
  BY <1>p1 DEF Inv, RefInv, EntryRef

<1> DEFINE m == Head(ent[entry].queue)
<1>f. /\ m \in Message /\ ent[entry].queue # <<>>
      /\ \A y : y \in ToSet(ent[entry].queue)
                <=> y = m \/ y \in ToSet(Tail(ent[entry].queue))
  <2>1. ent[entry].queue \in Seq(Message)
    BY <1>t, <1>p1 DEF Entry
  <2> QED BY <2>1, SetOfTail
<1>p6. SendNow(m, entry, s3, stage, ps)
  BY <1>p2, <1>p5, <1>p1 DEF Drain, Taken
<1> HIDE DEF m
<1>p7. /\ Same(s2, s3, entry)
       /\ Has(s3[entry], s2[entry].live, s2[entry].wired, s2[entry].busy,
              s2[entry].cur, Tail(s2[entry].queue), s2[entry].inbox)
  BY <1>p1, <1>p5, <1>f, TakenFacts
<1> HIDE DEF s3
<1>p8. Sends(m, entry, s3, stage, ps)
  <2>1. s3 \in Seq(Entry) /\ entry \in 1..Len(s3)
    BY <1>p1, <1>p5, <1>p7 DEF Same
  <2> QED BY <1>t, <1>p1, <1>p6, <1>f, <2>1, SendNowFacts
<1>a. UNCHANGED <<regVars, restartVars, apiVars, entry>>
  BY DEF TurnComplete
<1>g. /\ Patch(m, "running") \subseteq PatchSet
      /\ \A p \in Patch(m, "running") : p.run = m /\ p.run \in runs /\ p.status = "running"
  BY <1>t, <1>f, PatchFacts DEF MaybeRun
<1>j. /\ ctx' \in [run : MaybeRun, out : MaybeRun]
      /\ ctx'.run = RunOf(m) /\ ctx'.out = None /\ RunOf(m) \in runs \cup {None}
      /\ m \in runs => RunOf(m) = m
      /\ m \notin runs => RunOf(m) = None
      /\ RunOf(m) \in MaybeRun
  BY <1>p8 DEF Sends
<1>k. /\ stage' \in [Message -> Stages] /\ stage'[m] = "starting"
      /\ \A n \in Message : n # m => stage'[n] = stage[n]
      /\ at' \in [Message -> Nat] /\ at'[m] = entry
      /\ \A n \in Message : n # m => at'[n] = at[n]
      /\ m \in Message
  BY <1>p8, <1>f DEF Sends
<1>n. /\ ent' \in Seq(Entry) /\ Len(ent') = Len(ent)
  BY <1>p5, <1>p7, <1>p8 DEF Sends, Same
<1>v. at' \in [Message -> 0..Len(ent')] /\ \A n \in Message : at[n] # 0 => at'[n] # 0
  <2>1. \A n \in Message : at'[n] \in 0..Len(ent')
    BY <1>k, <1>n, <1>t, <1>p1
  <2>2. \A n \in Message : at[n] # 0 => at'[n] # 0
    BY <1>k, <1>n, <1>t, <1>p1
  <2> QED BY <1>k, <2>1, <2>2
<1>l. \A n \in Message : \A y :
        AtChild(n, y)' <=> (IF n = m THEN y = entry ELSE AtChild(n, y))
  BY <1>k DEF AtChild
<1>w. wire' = wire \cup ps \cup Patch(m, "running")
  BY <1>p8 DEF Sends
<1>o. /\ \A y \in 1..Len(ent) :
           /\ ent'[y].live = ent[y].live /\ ent'[y].wired = ent[y].wired
           /\ ent'[y].inbox = s2[y].inbox
           /\ y # entry => /\ ent'[y].cur = ent[y].cur /\ ent'[y].busy = ent[y].busy
                           /\ ent'[y].queue = ent[y].queue
      /\ ent'[entry].cur = RunOf(m) /\ ent'[entry].busy = TRUE
      /\ ent'[entry].queue = Tail(ent[entry].queue)
  BY <1>p1, <1>p5, <1>p7, <1>p8 DEF Same, Has, Sends
<1>1. Types'
  BY <1>t, <1>h, <1>u, <1>s, <1>f, <1>a, <1>g, <1>j, <1>k, <1>n, <1>v, <1>l, <1>w
       DEF Inv, Types, Restart, PatchSet, Stages
<1>2. RefInv'
  <2>1. CurRef'
    BY <1>a, <1>j, <1>n, <1>o DEF Inv, RefInv, CurRef
  <2>2. WireRef'
    BY <1>t, <1>h, <1>u, <1>s, <1>a, <1>g, <1>k, <1>l, <1>w DEF Inv, RefInv,
         WireRef, Has
  <2>3. RunRef'
    BY <1>a, <1>k, <1>t DEF Inv, RefInv, RunRef
  <2>4. AtRef'
    BY <1>s, <1>a, <1>k, <1>v DEF Inv, RefInv, AtRef
  <2>5. FedRef'
    BY <1>u, <1>f, <1>k, <1>n, <1>v, <1>o DEF Inv, RefInv, FedRef
  <2>6. OldRef'
    BY <1>a, <1>n, <1>o DEF Inv, RefInv, OldRef
  <2>7. EntryRef'
    BY <1>u, <1>s, <1>a, <1>o DEF EntryRef
  <2> QED BY <2>1, <2>2, <2>3, <2>4, <2>5, <2>6, <2>7 DEF RefInv
<1>3. MapInv'
  BY <1>t, <1>s, <1>a, <1>v DEF Inv, RefInv, MapInv
<1>4. StopInv'
  BY <1>a DEF Inv, MapInv, StopInv, Awaited
<1>5. ChildInv'
  <2> SUFFICES ASSUME Orderly
               PROVE  OpenIsAwaited' /\ LiveIsHeld'
    BY <1>a DEF ChildInv, Orderly
  <2>0. OpenIsAwaited /\ LiveIsHeld
    BY DEF Inv, ChildInv
  <2>1. OpenIsAwaited'
    BY <1>f, <1>a, <1>j, <1>k, <1>n, <1>v, <1>o, <2>0 DEF OpenIsAwaited, Has
  <2>2. LiveIsHeld'
    BY <1>a, <1>n, <1>v, <1>o, <2>0 DEF LiveIsHeld
  <2> QED BY <2>1, <2>2
<1>6. TurnInv'
  <2> SUFFICES ASSUME Orderly
               PROVE  OneInbox' /\ FedLives' /\ NextWaits' /\ OneNext' /\ IdleIsFree'
    BY <1>a DEF TurnInv, Orderly
  <2>0. OneInbox /\ FedLives /\ NextWaits /\ OneNext /\ IdleIsFree
    BY DEF Inv, TurnInv
  <2>1. OneInbox'
    BY <1>i, <1>s, <1>n, <1>o DEF OneInbox
  <2>2. FedLives'
    BY <1>i, <1>f, <1>n, <1>o DEF FedLives
  <2>3. NextWaits'
    BY <1>i, <1>n, <1>o, <2>0 DEF NextWaits
  <2>4. OneNext'
    BY <1>i, <1>n, <1>l, <1>o DEF OneNext
  <2>5. IdleIsFree'
    BY <1>i, <1>u, <1>s, <1>a, <1>l, <1>o DEF IdleIsFree
  <2> QED BY <2>1, <2>2, <2>3, <2>4, <2>5
<1>7. FileInv'
  <2> SUFFICES ASSUME Orderly
               PROVE  OutIsRun' /\ FedIsRun' /\ NextIsRun'
    BY <1>a DEF FileInv, Orderly
  <2>0. OutIsRun /\ FedIsRun /\ NextIsRun
    BY DEF Inv, FileInv
  <2>1. OutIsRun'
    BY <1>t, <1>j, <2>0 DEF Inv, OutIsRun
  <2>2. FedIsRun'
    BY <1>t, <1>h, <1>i, <1>s, <1>f, <1>a, <1>g, <1>j, <1>n, <1>o, <2>0 DEF Inv,
         FedIsRun, Has
  <2>3. NextIsRun'
    BY <1>h, <1>i, <1>u, <1>s, <1>f, <1>g, <1>j, <1>k, <1>n, <1>v, <1>l, <1>w, <1>o
         DEF Inv, NextIsRun, Has
  <2> QED BY <2>1, <2>2, <2>3
<1>8. OutputInv'
  BY <1>h, <1>i, <1>u, <1>f, <1>a, <1>g, <1>k, <1>n, <1>w, <1>o DEF Inv, Orderly,
       OutputInv, FileInv, OutIsRun, Has
<1>9. KeptInv'
  <2> SUFFICES ASSUME Orderly, NEW q \in runs'
               PROVE  Kept(q)'
    BY <1>a DEF KeptInv, Orderly
  <2>0. q \in Message /\ (q \in runs => Kept(q))
    BY <1>t, <1>u, <1>a, <1>w, <1>o DEF Inv, KeptInv
  <2>1. ASSUME InEnd(q) PROVE  Kept(q)'
    BY <2>1, <1>t, <1>s, <1>f, <1>a, <1>g, <1>j, <1>k, <1>v, <1>l, <1>w DEF Kept,
         InEnd, Closed, Has
  <2>2. ASSUME AtStage(q) PROVE  Kept(q)'
    BY <2>2, <2>0, <1>h, <1>i, <1>u, <1>s, <1>a, <1>g, <1>j, <1>k, <1>v, <1>o DEF
         Inv, Kept, AtStage, IsTurn, Has
  <2>3. ASSUME IsTurn(q) PROVE  Kept(q)'
    BY SMTT(30), <2>3, <1>a, <1>n, <1>o, <1>h, <1>w, <1>t DEF Kept, IsTurn, OnWire
  <2>4. ASSUME InQueue(q) PROVE  Kept(q)'
    BY <2>4, <1>a, <1>n, <1>o, <1>f, <1>s, <1>j DEF Inv, Kept, InQueue, IsTurn, Has
  <2>5. ASSUME InStop(q) PROVE  Kept(q)'
    BY <2>5, <1>n DEF Inv, InStop, MapInv
  <2>6. ASSUME WasTurn(q) PROVE  Kept(q)'
    <3>1. \A j \in 1..Len(restarts) :
            restarts[j].old \in 1..Len(ent) /\ restarts[j].old # entry
      BY <1>t DEF Inv, RefInv, OldRef, EntryRef
    <3> QED BY <2>6, <1>a, <1>o, <3>1 DEF Kept, WasTurn
  <2>7. ASSUME IsCarried(q) PROVE  Kept(q)'
    BY <2>7, <1>h, <1>f, <1>a, <1>j, <1>k, <1>n, <1>l, <1>w, <1>o DEF Inv, Kept,
         IsCarried, Has
  <2>8. ASSUME OnWire(q) PROVE  Kept(q)'
    BY <2>8, <2>0, <1>w DEF Kept, OnWire
  <2> QED BY <2>0, <1>a, <2>1, <2>2, <2>3, <2>4, <2>5, <2>6, <2>7, <2>8 DEF Kept
<1> QED BY <1>1, <1>2, <1>3, <1>4, <1>5, <1>6, <1>7, <1>8, <1>9 DEF Inv

LEMMA ChildGoneStep ==
  ASSUME Inv, NEW e \in DOMAIN ent, ChildExits(e), ~ent[e].wired
  PROVE  Inv'
<1> USE DEF vars, regVars, restartVars, turnVars, apiVars
<1>t. /\ ent \in Seq(Entry) /\ Len(ent) \in Nat /\ DOMAIN ent = 1..Len(ent)
      /\ restarts \in Seq(Restart) /\ Len(restarts) \in Nat
      /\ DOMAIN restarts = 1..Len(restarts) /\ runs \subseteq Message
      /\ \A y \in 1..Len(ent) : ent[y] \in Entry
      /\ \A y \in 1..Len(restarts) : restarts[y] \in Restart
      /\ entry \in 0..Len(ent) /\ spawning \in 0..Len(restarts)
      /\ stopping.e \in 0..Len(ent)
  BY DEF Inv, Types
<1>p1. e \in 1..Len(ent) /\ stage \in [Message -> Stages]
       /\ ctx \in [run : MaybeRun, out : MaybeRun] /\ ent[e].cur \in runs \cup {None}
  BY <1>t DEF Inv, Types, RefInv, CurRef
<1> DEFINE s1 == Downed(ent, e)
<1>p2. /\ Same(ent, s1, e)
       /\ Has(s1[e], FALSE, ent[e].wired, ent[e].busy, ent[e].cur, ent[e].queue, <<>>)
  BY <1>t, <1>p1, DownedFacts

<1>a. UNCHANGED <<regVars, restartVars, apiVars, entry, at, stage, ctx>> /\ wire' = wire
  BY DEF ChildExits, ExitListener
<1>p3. ent' = s1
  BY DEF ChildExits, ExitListener, Downed, Shut
<1> HIDE DEF s1
<1>n. ent' \in Seq(Entry) /\ Len(ent') = Len(ent) /\ e \in 1..Len(ent)
  BY <1>p1, <1>p2, <1>p3 DEF Same
<1>o. /\ \A y \in 1..Len(ent) :
           /\ ent'[y].wired = ent[y].wired /\ ent'[y].busy = ent[y].busy
           /\ ent'[y].cur = ent[y].cur /\ ent'[y].queue = ent[y].queue
           /\ y # e => ent'[y].live = ent[y].live /\ ent'[y].inbox = ent[y].inbox
      /\ ent'[e].live = FALSE /\ ent'[e].inbox = <<>>
  BY <1>p1, <1>p2, <1>p3 DEF Same, Has
<1>l. \A n \in Message : \A y : AtChild(n, y)' <=> AtChild(n, y)
  BY <1>a DEF AtChild
<1>s. Len(<<>>) <= 1 /\ \A n : n \notin ToSet(<<>>)
  BY SetOfNone
<1>1. Types'
  BY <1>a, <1>n, <1>l, <1>s DEF Inv, Types, Statuses, Has
<1>2. RefInv'
  <2>1. CurRef'
    BY <1>a, <1>n, <1>o DEF Inv, RefInv, CurRef
  <2>2. WireRef'
    BY <1>t, <1>a DEF Inv, RefInv, WireRef
  <2>3. RunRef'
    BY <1>t, <1>a DEF Inv, RefInv, RunRef
  <2>4. AtRef'
    BY <1>t, <1>a DEF Inv, RefInv, AtRef
  <2>5. FedRef'
    BY <1>a, <1>n, <1>o, <1>s DEF Inv, RefInv, FedRef
  <2>6. OldRef'
    BY <1>a, <1>n, <1>o DEF Inv, RefInv, OldRef
  <2>7. EntryRef'
    BY <1>t, <1>a, <1>o DEF Inv, RefInv, EntryRef
  <2> QED BY <2>1, <2>2, <2>3, <2>4, <2>5, <2>6, <2>7 DEF RefInv
<1>3. MapInv'
  BY <1>t, <1>a, <1>o DEF Inv, MapInv
<1>4. StopInv'
  BY <1>t, <1>a, <1>o DEF Inv, StopInv, Awaited, Closed
<1>5. ChildInv'
  <2> SUFFICES ASSUME Orderly
               PROVE  OpenIsAwaited' /\ LiveIsHeld'
    BY <1>a DEF ChildInv, Orderly
  <2>0. OpenIsAwaited /\ LiveIsHeld
    BY DEF Inv, ChildInv
  <2>1. OpenIsAwaited'
    BY <1>a, <1>s, <2>0 DEF Inv, OpenIsAwaited
  <2>2. LiveIsHeld'
    BY <1>a, <1>n, <1>o, <2>0 DEF LiveIsHeld
  <2> QED BY <2>1, <2>2
<1>6. TurnInv'
  <2> SUFFICES ASSUME Orderly
               PROVE  OneInbox' /\ FedLives' /\ NextWaits' /\ OneNext' /\ IdleIsFree'
    BY <1>a DEF TurnInv, Orderly
  <2>0. OneInbox /\ FedLives /\ NextWaits /\ OneNext /\ IdleIsFree
    BY DEF Inv, TurnInv
  <2>1. OneInbox'
    BY <1>t, <1>n, <1>o, <2>0 DEF OneInbox
  <2>2. FedLives'
    BY <1>n, <1>o, <2>0 DEF Inv, FedLives
  <2>3. NextWaits'
    BY <1>n, <1>o, <1>l, <2>0 DEF NextWaits
  <2>4. OneNext'
    BY <1>n, <1>o, <1>l, <2>0 DEF OneNext
  <2>5. IdleIsFree'
    BY <1>t, <1>a, <1>o, <1>l, <2>0 DEF IdleIsFree
  <2> QED BY <2>1, <2>2, <2>3, <2>4, <2>5
<1>7. FileInv'
  <2> SUFFICES ASSUME Orderly
               PROVE  OutIsRun' /\ FedIsRun' /\ NextIsRun'
    BY <1>a DEF FileInv, Orderly
  <2>0. OutIsRun /\ FedIsRun /\ NextIsRun
    BY DEF Inv, FileInv
  <2>1. OutIsRun'
    BY <1>t, <1>a, <2>0 DEF Inv, OutIsRun
  <2>2. FedIsRun'
    BY <1>a, <1>n, <1>o, <2>0 DEF FedIsRun
  <2>3. NextIsRun'
    BY <1>a, <1>n, <1>o, <1>l, <2>0 DEF NextIsRun
  <2> QED BY <2>1, <2>2, <2>3
<1>8. OutputInv'
  BY <1>t, <1>a DEF Inv, Orderly, OutputInv
<1>9. KeptInv'
  <2> SUFFICES ASSUME Orderly, NEW q \in runs'
               PROVE  Kept(q)'
    BY <1>a DEF KeptInv, Orderly
  <2>0. q \in Message /\ (q \in runs => Kept(q))
    BY <1>t, <1>a, <1>o DEF Inv, KeptInv
  <2>1. ASSUME InEnd(q) PROVE  Kept(q)'
    BY <2>1, <2>0, <1>t, <1>a, <1>s DEF Kept, InEnd, Closed
  <2>2. ASSUME AtStage(q) PROVE  Kept(q)'
    BY <2>2, <1>a DEF Inv, Kept, AtStage
  <2>3. ASSUME IsTurn(q) PROVE  Kept(q)'
    BY <2>3, <1>n, <1>o DEF Kept, IsTurn
  <2>4. ASSUME InQueue(q) PROVE  Kept(q)'
    BY <2>4, <1>t, <1>a, <1>o DEF Kept, InQueue
  <2>5. ASSUME InStop(q) PROVE  Kept(q)'
    BY <2>5, <2>0, <1>t, <1>a, <1>o, <1>l DEF Kept, InStop
  <2>6. ASSUME WasTurn(q) PROVE  Kept(q)'
    <3>1. \A j \in 1..Len(restarts) :
            restarts[j].old \in 1..Len(ent)
      BY <1>t DEF Inv, RefInv, OldRef, EntryRef
    <3> QED BY <2>6, <1>a, <1>o, <3>1 DEF Kept, WasTurn
  <2>7. ASSUME IsCarried(q) PROVE  Kept(q)'
    BY <2>7, <1>a DEF Inv, Kept, IsCarried
  <2>8. ASSUME OnWire(q) PROVE  Kept(q)'
    BY <2>8, <1>a DEF Inv, Kept, OnWire
  <2> QED BY <2>0, <1>a, <2>1, <2>2, <2>3, <2>4, <2>5, <2>6, <2>7, <2>8 DEF Kept
<1> QED BY <1>1, <1>2, <1>3, <1>4, <1>5, <1>6, <1>7, <1>8, <1>9 DEF Inv

LEMMA ChildDiesStep ==
  ASSUME Inv, NEW e \in DOMAIN ent, ChildExits(e), ent[e].wired
  PROVE  Inv'
<1> USE DEF vars, regVars, restartVars, turnVars, apiVars
<1>t. /\ ent \in Seq(Entry) /\ Len(ent) \in Nat /\ DOMAIN ent = 1..Len(ent)
      /\ restarts \in Seq(Restart) /\ Len(restarts) \in Nat
      /\ DOMAIN restarts = 1..Len(restarts) /\ runs \subseteq Message
      /\ \A y \in 1..Len(ent) : ent[y] \in Entry
      /\ \A y \in 1..Len(restarts) : restarts[y] \in Restart
      /\ entry \in 0..Len(ent) /\ spawning \in 0..Len(restarts)
      /\ stopping.e \in 0..Len(ent)
  BY DEF Inv, Types
<1>p1. e \in 1..Len(ent) /\ stage \in [Message -> Stages]
       /\ ctx \in [run : MaybeRun, out : MaybeRun] /\ ent[e].cur \in runs \cup {None}
  BY <1>t DEF Inv, Types, RefInv, CurRef
<1> DEFINE s1 == Downed(ent, e)
<1>p2. /\ Same(ent, s1, e)
       /\ Has(s1[e], FALSE, ent[e].wired, ent[e].busy, ent[e].cur, ent[e].queue, <<>>)
  BY <1>t, <1>p1, DownedFacts

<1>a. UNCHANGED <<regVars, restartVars, apiVars, at>>
  BY DEF ChildExits
<1>p3. ExitListener(e, s1, stage, {})
  BY DEF ChildExits, Downed, Shut
<1> HIDE DEF s1
<1>p4. Exits(e, s1, stage, {})
  <2>1. s1 \in Seq(Entry) /\ Len(s1) = Len(ent)
    BY <1>p2 DEF Same
  <2> QED BY <1>t, <1>p1, <1>p3, <2>1, ExitFacts

<1>x. e \in 1..Len(ent) /\ ent[e].wired
  BY <1>p1
<1>k. /\ stage' \in [Message -> Stages]
      /\ \A n \in Message : stage'[n] = IF n \in ToSet(ent[e].queue) THEN "over" ELSE stage[n]
  BY <1>p4 DEF Exits
<1>b. (ctx' = ctx \/ ctx' = NoContext) /\ ctx' \in [run : MaybeRun, out : MaybeRun]
  BY <1>p4 DEF Exits
<1>w. /\ wire \subseteq wire'
      /\ \A p \in wire' : \/ p \in wire
                          \/ p \in PatchSet /\ p.run \in runs /\ p.status = "failed"
      /\ \A n \in runs : n \in ToSet(ent[e].queue) \/ n = ent[e].cur =>
           \E p \in wire' : p.run = n /\ p.status = "failed"
  BY <1>p4 DEF Exits
<1>f. /\ entry' = IF entry = e THEN 0 ELSE entry
      /\ entry' \in 0..Len(ent) /\ (entry' # 0 => entry' = entry /\ entry # e)
  BY <1>t, <1>p4 DEF Exits
<1>n. ent' \in Seq(Entry) /\ Len(ent') = Len(ent)
  BY <1>p2, <1>p4 DEF Same, Exits

<1>o. /\ \A y \in 1..Len(ent) : y # e => ent'[y] = ent[y]
      /\ Has(ent'[e], FALSE, ent[e].wired, ent[e].busy, None, <<>>, <<>>)
  BY <1>p2, <1>p4 DEF Same, Has, Exits
<1>y. \A y \in 1..Len(ent) :
        /\ ent'[y].wired = ent[y].wired
        /\ ent'[y].cur = ent[y].cur \/ (y = e /\ ent'[y].cur = None)
        /\ y = e \/ ent'[y].inbox = ent[y].inbox
        /\ y = e \/ ent'[y].live = ent[y].live
  BY <1>o, <1>x DEF Has
<1>l. \A n \in Message : \A y : AtChild(n, y)' => AtChild(n, y)
  BY <1>a, <1>k DEF AtChild
<1>s. Len(<<>>) <= 1 /\ \A n : n \notin ToSet(<<>>)
  BY SetOfNone
<1>1. Types'
  BY <1>t, <1>a, <1>k, <1>b, <1>w, <1>f, <1>n DEF Inv, Types, Restart, PatchSet,
       MaybeRun
<1>2. RefInv'
  <2>1. CurRef'
    BY <1>t, <1>a, <1>x, <1>f, <1>n, <1>y DEF Inv, RefInv, CurRef
  <2>2. WireRef'
    BY <1>a, <1>x, <1>k, <1>w, <1>y, <1>s DEF Inv, RefInv, WireRef
  <2>3. RunRef'
    BY <1>t, <1>a, <1>k, <1>w, <1>n, <1>y DEF Inv, RefInv, RunRef
  <2>4. AtRef'
    BY <1>a, <1>k DEF Inv, RefInv, AtRef
  <2>5. FedRef'
    BY <1>t, <1>a, <1>b, <1>w, <1>f, <1>n, <1>o, <1>y, <1>s DEF Inv, RefInv,
         FedRef, Has
  <2>6. OldRef'
    BY <1>t, <1>a, <1>n, <1>y DEF Inv, RefInv, OldRef
  <2>7. EntryRef'
    BY <1>f, <1>o DEF Inv, RefInv, EntryRef
  <2> QED BY <2>1, <2>2, <2>3, <2>4, <2>5, <2>6, <2>7 DEF RefInv
<1>3. MapInv'
  BY <1>t, <1>a, <1>f, <1>y DEF Inv, MapInv
<1>4. StopInv'
  BY <1>t, <1>a, <1>w, <1>y DEF Inv, StopInv, Awaited, Closed
<1>5. ChildInv'
  <2> SUFFICES ASSUME Orderly
               PROVE  OpenIsAwaited' /\ LiveIsHeld'
    BY <1>a DEF ChildInv, Orderly
  <2>0. OpenIsAwaited /\ LiveIsHeld
    BY DEF Inv, ChildInv
  <2>1. OpenIsAwaited'
    BY <1>a, <1>x, <1>b, <1>o, <1>y, <2>0 DEF Inv, OpenIsAwaited, Has
  <2>2. LiveIsHeld'
    BY <1>a, <1>k, <1>w, <1>f, <1>n, <1>o, <1>y, <1>l, <2>0 DEF LiveIsHeld, Has
  <2> QED BY <2>1, <2>2
<1>6. TurnInv'
  <2> SUFFICES ASSUME Orderly
               PROVE  OneInbox' /\ FedLives' /\ NextWaits' /\ OneNext' /\ IdleIsFree'
    BY <1>a DEF TurnInv, Orderly
  <2>0. OneInbox /\ FedLives /\ NextWaits /\ OneNext /\ IdleIsFree
    BY DEF Inv, TurnInv
  <2>1. OneInbox'
    BY <1>w, <1>n, <1>o, <2>0 DEF OneInbox, Has
  <2>2. FedLives'
    BY <1>a, <1>b, <1>f, <1>n, <1>o, <1>y, <1>s, <2>0 DEF FedLives, Has
  <2>3. NextWaits'
    BY <1>t, <1>x, <1>w, <1>n, <1>o, <1>l, <2>0 DEF NextWaits, Has
  <2>4. OneNext'
    BY <1>t, <1>a, <1>k, <1>b, <1>n, <1>o, <1>l, <2>0 DEF Inv, OneNext, Has
  <2>5. IdleIsFree'
    BY <1>f, <1>o, <1>l, <2>0 DEF IdleIsFree, Has
  <2> QED BY <2>1, <2>2, <2>3, <2>4, <2>5
<1>7. FileInv'
  <2> SUFFICES ASSUME Orderly
               PROVE  OutIsRun' /\ FedIsRun' /\ NextIsRun'
    BY <1>a DEF FileInv, Orderly
  <2>0. OutIsRun /\ FedIsRun /\ NextIsRun
    BY DEF Inv, FileInv
  <2>1. OutIsRun'
    BY <1>b, <2>0 DEF Inv, OutIsRun, NoContext
  <2>2. FedIsRun'
    BY <1>b, <1>n, <1>o, <2>0 DEF FedIsRun, NoContext, Has
  <2>3. NextIsRun'
    BY <1>x, <1>k, <1>b, <1>w, <1>f, <1>n, <1>o, <1>y, <1>l, <2>0 DEF NextIsRun,
         NoContext, Has
  <2> QED BY <2>1, <2>2, <2>3
<1>8. OutputInv'
  BY <1>a, <1>x, <1>w, <1>f, <1>l, <1>s DEF Inv, Orderly, OutputInv
<1>9. KeptInv'
  <2> SUFFICES ASSUME Orderly, NEW q \in runs'
               PROVE  Kept(q)'
    BY <1>a DEF KeptInv, Orderly
  <2>0. q \in Message /\ (q \in runs => Kept(q))
    BY <1>t, <1>a, <1>x, <1>o, <1>y DEF Inv, KeptInv
  <2>1. ASSUME InEnd(q) PROVE  Kept(q)'
    BY <2>1, <1>a, <1>x, <1>b, <1>w, <1>f, <1>l DEF Kept, InEnd, Closed, Has
  <2>2. ASSUME AtStage(q) PROVE  Kept(q)'
    BY <2>2, <2>0, <1>t, <1>a, <1>x, <1>k, <1>w, <1>o, <1>y, <1>l DEF Kept,
         AtStage, OnWire, Has
  <2>3. ASSUME IsTurn(q) PROVE  Kept(q)'
    <3>1. PICK y \in 1..Len(ent) : q = ent[y].cur /\ ent[y].wired
      BY <2>3 DEF IsTurn
    <3>2. q \in runs
      BY <1>a
    <3>3. CASE y = e
      BY <3>1, <3>2, <3>3, <1>w DEF Kept, OnWire
    <3>4. CASE y # e
      <4>1. ent'[y].cur = q /\ ent'[y].wired /\ y \in 1..Len(ent')
        BY <3>1, <3>4, <1>y, <1>o, <1>n
      <4> QED BY <4>1 DEF Kept, IsTurn
    <3> QED BY <3>3, <3>4
  <2>4. ASSUME InQueue(q) PROVE  Kept(q)'
    BY <2>4, <2>0, <1>t, <1>a, <1>x, <1>k, <1>w, <1>f, <1>o, <1>l DEF Kept,
         InQueue, OnWire, Has
  <2>5. ASSUME InStop(q) PROVE  Kept(q)'
    <3>1. q \in runs /\ stopping' = stopping /\ stopping.e \in 1..Len(ent)
      BY <1>a, <1>t, <2>5 DEF InStop
    <3>2. CASE stopping.e = e
      BY <2>5, <3>1, <3>2, <1>w DEF Kept, OnWire, InStop
    <3>3. CASE stopping.e # e
      <4>1. ent'[stopping.e] = ent[stopping.e]
        BY <3>1, <3>3, <1>o
      <4> QED BY <2>5, <3>1, <4>1 DEF Kept, InStop
    <3> QED BY <3>2, <3>3
  <2>6. ASSUME WasTurn(q) PROVE  Kept(q)'
    <3>1. \A j \in 1..Len(restarts) :
            restarts[j].old \in 1..Len(ent) /\ restarts[j].old # e
      BY <1>t DEF Inv, RefInv, OldRef, EntryRef
    <3> QED BY <2>6, <1>a, <1>o, <3>1 DEF Kept, WasTurn
  <2>7. ASSUME IsCarried(q) PROVE  Kept(q)'
    BY <2>7, <1>t, <1>a, <1>k, <1>b, <1>f, <1>n, <1>o, <1>s DEF Kept, IsCarried
  <2>8. ASSUME OnWire(q) PROVE  Kept(q)'
    BY <2>8, <1>t, <1>w DEF Kept, OnWire
  <2> QED BY <2>0, <1>a, <2>1, <2>2, <2>3, <2>4, <2>5, <2>6, <2>7, <2>8 DEF Kept
<1> QED BY <1>1, <1>2, <1>3, <1>4, <1>5, <1>6, <1>7, <1>8, <1>9 DEF Inv

LEMMA TurnFailsUnheardStep ==
  ASSUME Inv, NEW e \in DOMAIN ent, TurnFails(e), ~ent[e].wired
  PROVE  Inv'
<1> USE DEF vars, regVars, restartVars, turnVars, apiVars
<1>t. /\ ent \in Seq(Entry) /\ Len(ent) \in Nat /\ DOMAIN ent = 1..Len(ent)
      /\ restarts \in Seq(Restart) /\ Len(restarts) \in Nat
      /\ DOMAIN restarts = 1..Len(restarts) /\ runs \subseteq Message
      /\ \A y \in 1..Len(ent) : ent[y] \in Entry
      /\ \A y \in 1..Len(restarts) : restarts[y] \in Restart
      /\ entry \in 0..Len(ent) /\ spawning \in 0..Len(restarts)
      /\ stopping.e \in 0..Len(ent)
  BY DEF Inv, Types
<1>z. runtime' # "claude" /\ runtime = "hermes"
  BY DEF TurnFails
<1> DEFINE m == Head(ent[e].inbox)
           s1 == Popped(ent, e)
           st == Mark({m}, "unwinding")
<1>p1. e \in 1..Len(ent) /\ stage \in [Message -> Stages]
       /\ ctx \in [run : MaybeRun, out : MaybeRun] /\ ent[e].cur \in runs \cup {None}
       /\ ent[e].inbox \in Seq(Message) /\ ent[e].inbox # <<>>
  BY <1>t DEF Inv, Types, RefInv, CurRef, TurnFails, Entry
<1>g. /\ m \in Message
      /\ \A y : y \in ToSet(ent[e].inbox) <=> y = m \/ y \in ToSet(Tail(ent[e].inbox))
      /\ at[m] # 0
  <2>1. /\ m \in Message
        /\ \A y : y \in ToSet(ent[e].inbox) <=> y = m \/ y \in ToSet(Tail(ent[e].inbox))
    BY <1>p1, SetOfTail
  <2> QED BY <2>1, <1>p1 DEF Inv, RefInv, FedRef
<1>p2. /\ Same(ent, s1, e)
       /\ Has(s1[e], ent[e].live, ent[e].wired, ent[e].busy, ent[e].cur, ent[e].queue,
              Tail(ent[e].inbox))
  BY <1>t, <1>p1, PoppedFacts
<1>p3. ExitListener(e, s1, st, Patch(m, "failed"))
  BY DEF TurnFails, Popped
<1>a. UNCHANGED <<regVars, restartVars, apiVars, at>>
  BY DEF TurnFails
<1>p5. /\ st \in [Message -> Stages]
       /\ \A n \in Message : st[n] = IF n = m THEN "unwinding" ELSE stage[n]
  BY <1>p1 DEF Mark, Stages
<1> HIDE DEF m, s1, st
<1>p6. /\ Patch(m, "failed") \subseteq PatchSet
       /\ \A p \in Patch(m, "failed") : p.run = m /\ p.run \in runs /\ p.status = "failed"
  BY <1>t, <1>g, PatchFacts DEF MaybeRun

<1>p4. ent' = s1 /\ stage' = st /\ wire' = wire \cup Patch(m, "failed")
       /\ UNCHANGED <<entry, ctx>>
  BY <1>p3 DEF ExitListener
<1>k. /\ stage' \in [Message -> Stages]
      /\ \A n \in Message : stage'[n] = IF n = m THEN "unwinding" ELSE stage[n]
      /\ UNCHANGED <<entry, ctx>>
  BY <1>p4, <1>p5
<1>w. /\ wire \subseteq wire'
      /\ \A p \in wire' : \/ p \in wire
                          \/ p \in PatchSet /\ p.run \in runs /\ p.status = "failed"
  BY <1>p4, <1>p6
<1>n. ent' \in Seq(Entry) /\ Len(ent') = Len(ent) /\ e \in 1..Len(ent)
  BY <1>p1, <1>p2, <1>p4 DEF Same
<1>o. /\ \A y \in 1..Len(ent) :
           /\ ent'[y].wired = ent[y].wired
           /\ ent'[y].cur = ent[y].cur
           /\ y # e => ent'[y] = ent[y]
      /\ ent'[e].inbox = Tail(ent[e].inbox)
  BY <1>p1, <1>p2, <1>p4 DEF Same, Has
<1>1. Types'
  BY <1>a, <1>k, <1>w, <1>n DEF Inv, Types
<1>2. RefInv'
  <2>1. CurRef'
    BY <1>a, <1>n, <1>o DEF Inv, RefInv, CurRef
  <2>2. WireRef'
    BY <1>a, <1>w DEF Inv, RefInv, WireRef
  <2>3. RunRef'
    BY <1>t, <1>a, <1>k DEF Inv, RefInv, RunRef, Has
  <2>4. AtRef'
    BY <1>z, <1>g, <1>a, <1>k DEF Inv, RefInv, AtRef
  <2>5. FedRef'
    BY <1>g, <1>a, <1>n, <1>o DEF Inv, RefInv, FedRef
  <2>6. OldRef'
    BY <1>a, <1>n, <1>o DEF Inv, RefInv, OldRef
  <2>7. EntryRef'
    BY <1>t, <1>k, <1>o DEF Inv, RefInv, EntryRef
  <2> QED BY <2>1, <2>2, <2>3, <2>4, <2>5, <2>6, <2>7 DEF RefInv
<1>3. MapInv'
  BY <1>t, <1>a, <1>k, <1>w, <1>o DEF Inv, MapInv, Same
<1>4. StopInv'
  BY <1>t, <1>a, <1>w, <1>o DEF Inv, MapInv, StopInv, Awaited, Closed, Has
<1>5. ChildInv'
  BY <1>z DEF ChildInv, Orderly
<1>6. TurnInv'
  BY <1>z DEF TurnInv, Orderly
<1>7. FileInv'
  BY <1>z DEF FileInv, Orderly
<1>8. OutputInv'
  BY <1>z DEF OutputInv, Orderly
<1>9. KeptInv'
  BY <1>z DEF KeptInv, Orderly
<1> QED BY <1>1, <1>2, <1>3, <1>4, <1>5, <1>6, <1>7, <1>8, <1>9 DEF Inv

LEMMA TurnFailsHeardStep ==
  ASSUME Inv, NEW e \in DOMAIN ent, TurnFails(e), ent[e].wired
  PROVE  Inv'
<1> USE DEF vars, regVars, restartVars, turnVars, apiVars
<1>t. /\ ent \in Seq(Entry) /\ Len(ent) \in Nat /\ DOMAIN ent = 1..Len(ent)
      /\ restarts \in Seq(Restart) /\ Len(restarts) \in Nat
      /\ DOMAIN restarts = 1..Len(restarts) /\ runs \subseteq Message
      /\ \A y \in 1..Len(ent) : ent[y] \in Entry
      /\ \A y \in 1..Len(restarts) : restarts[y] \in Restart
      /\ entry \in 0..Len(ent) /\ spawning \in 0..Len(restarts)
      /\ stopping.e \in 0..Len(ent)
  BY DEF Inv, Types
<1>z. runtime' # "claude" /\ runtime = "hermes"
  BY DEF TurnFails
<1> DEFINE m == Head(ent[e].inbox)
           s1 == Popped(ent, e)
           st == Mark({m}, "unwinding")
<1>p1. e \in 1..Len(ent) /\ stage \in [Message -> Stages]
       /\ ctx \in [run : MaybeRun, out : MaybeRun] /\ ent[e].cur \in runs \cup {None}
       /\ ent[e].inbox \in Seq(Message) /\ ent[e].inbox # <<>> /\ ent[e].wired
  BY <1>t DEF Inv, Types, RefInv, CurRef, TurnFails, Entry
<1>g. /\ m \in Message
      /\ \A y : y \in ToSet(ent[e].inbox) <=> y = m \/ y \in ToSet(Tail(ent[e].inbox))
      /\ at[m] # 0
  <2>1. /\ m \in Message
        /\ \A y : y \in ToSet(ent[e].inbox) <=> y = m \/ y \in ToSet(Tail(ent[e].inbox))
    BY <1>p1, SetOfTail
  <2> QED BY <2>1, <1>p1 DEF Inv, RefInv, FedRef
<1>p2. /\ Same(ent, s1, e)
       /\ Has(s1[e], ent[e].live, ent[e].wired, ent[e].busy, ent[e].cur, ent[e].queue,
              Tail(ent[e].inbox))
  BY <1>t, <1>p1, PoppedFacts
<1>p3. ExitListener(e, s1, st, Patch(m, "failed"))
  BY DEF TurnFails, Popped
<1>a. UNCHANGED <<regVars, restartVars, apiVars, at>>
  BY DEF TurnFails
<1>p5. /\ st \in [Message -> Stages]
       /\ \A n \in Message : st[n] = IF n = m THEN "unwinding" ELSE stage[n]
  BY <1>p1 DEF Mark, Stages
<1> HIDE DEF m, s1, st
<1>p6. /\ Patch(m, "failed") \subseteq PatchSet
       /\ \A p \in Patch(m, "failed") : p.run = m /\ p.run \in runs /\ p.status = "failed"
  BY <1>t, <1>g, PatchFacts DEF MaybeRun

<1>p4. Exits(e, s1, st, Patch(m, "failed"))
  <2>1. s1 \in Seq(Entry) /\ Len(s1) = Len(ent)
    BY <1>p2 DEF Same
  <2> QED BY <1>t, <1>p1, <1>p3, <1>p5, <2>1, ExitFacts

<1>x. e \in 1..Len(ent) /\ ent[e].wired
  BY <1>p1
<1>k. /\ stage' \in [Message -> Stages]
      /\ \A n \in Message : stage'[n] = IF n \in ToSet(ent[e].queue) THEN "over" ELSE 
                    IF n = m THEN "unwinding" ELSE stage[n]
  BY <1>p4, <1>p5 DEF Exits
<1>b. (ctx' = ctx \/ ctx' = NoContext) /\ ctx' \in [run : MaybeRun, out : MaybeRun]
  BY <1>p4 DEF Exits
<1>w. /\ wire \subseteq wire'
      /\ \A p \in wire' : \/ p \in wire
                          \/ p \in PatchSet /\ p.run \in runs /\ p.status = "failed"
      /\ \A n \in runs : n \in ToSet(ent[e].queue) \/ n = ent[e].cur =>
           \E p \in wire' : p.run = n /\ p.status = "failed"
  BY <1>p4, <1>p6 DEF Exits
<1>f. /\ entry' = IF entry = e THEN 0 ELSE entry
      /\ entry' \in 0..Len(ent) /\ (entry' # 0 => entry' = entry /\ entry # e)
  BY <1>t, <1>p4 DEF Exits
<1>n. ent' \in Seq(Entry) /\ Len(ent') = Len(ent)
  BY <1>p2, <1>p4 DEF Same, Exits

<1>o. /\ \A y \in 1..Len(ent) : y # e => ent'[y] = ent[y]
      /\ ent'[e].wired = ent[e].wired /\ ent'[e].cur = None /\ ent'[e].queue = <<>>
      /\ ent'[e].inbox = Tail(ent[e].inbox)
  BY <1>p2, <1>p4 DEF Same, Has, Exits
<1>y. \A y \in 1..Len(ent) :
        /\ ent'[y].wired = ent[y].wired
        /\ ent'[y].cur = ent[y].cur \/ (y = e /\ ent'[y].cur = None)
        /\ y = e \/ ent'[y].inbox = ent[y].inbox
  BY <1>o, <1>x DEF Has
<1>1. Types'
  BY <1>a, <1>k, <1>b, <1>w, <1>f, <1>n DEF Inv, Types, Restart, PatchSet, Has
<1>2. RefInv'
  <2>1. CurRef'
    BY <1>a, <1>w, <1>n, <1>y DEF Inv, RefInv, CurRef, Has
  <2>2. WireRef'
    BY <1>z, <1>a, <1>x, <1>k, <1>b, <1>w, <1>f, <1>n DEF Inv, RefInv, WireRef
  <2>3. RunRef'
    BY <1>t, <1>z, <1>g, <1>a, <1>x, <1>k, <1>b, <1>w, <1>f, <1>o, <1>y DEF Inv,
         RefInv, RunRef
  <2>4. AtRef'
    BY <1>z, <1>g, <1>a, <1>k DEF Inv, RefInv, AtRef
  <2>5. FedRef'
    BY <1>g, <1>a, <1>n, <1>o DEF Inv, RefInv, FedRef
  <2>6. OldRef'
    BY <1>g, <1>a, <1>n, <1>o, <1>y DEF Inv, RefInv, OldRef, Has
  <2>7. EntryRef'
    BY <1>f, <1>o DEF Inv, RefInv, EntryRef
  <2> QED BY <2>1, <2>2, <2>3, <2>4, <2>5, <2>6, <2>7 DEF RefInv
<1>3. MapInv'
  BY <1>t, <1>a, <1>f, <1>y DEF Inv, EntryRef, MapInv
<1>4. StopInv'
  BY <1>t, <1>a, <1>w, <1>y DEF Inv, MapInv, StopInv, Awaited, Closed
<1>5. ChildInv'
  BY <1>z DEF ChildInv, Orderly
<1>6. TurnInv'
  BY <1>z DEF TurnInv, Orderly
<1>7. FileInv'
  BY <1>z DEF FileInv, Orderly
<1>8. OutputInv'
  BY <1>z DEF OutputInv, Orderly
<1>9. KeptInv'
  BY <1>z DEF KeptInv, Orderly
<1> QED BY <1>1, <1>2, <1>3, <1>4, <1>5, <1>6, <1>7, <1>8, <1>9 DEF Inv

LEMMA UnwindEndsStep ==
  ASSUME Inv, NEW m \in Message, Unwind(m), entry = 0 \/ ent[entry].queue = <<>>
  PROVE  Inv'
<1> USE DEF vars, regVars, restartVars, turnVars, apiVars
<1>t. /\ ent \in Seq(Entry) /\ Len(ent) \in Nat /\ DOMAIN ent = 1..Len(ent)
      /\ restarts \in Seq(Restart) /\ Len(restarts) \in Nat
      /\ DOMAIN restarts = 1..Len(restarts) /\ runs \subseteq Message
      /\ \A y \in 1..Len(ent) : ent[y] \in Entry
      /\ \A y \in 1..Len(restarts) : restarts[y] \in Restart
      /\ entry \in 0..Len(ent) /\ spawning \in 0..Len(restarts)
      /\ stopping.e \in 0..Len(ent)
  BY DEF Inv, Types
<1>p1. at[m] \in 1..Len(ent) /\ stage \in [Message -> Stages] /\ at \in [Message -> Nat]
       /\ ctx \in [run : MaybeRun, out : MaybeRun] /\ stage[m] = "unwinding"
       /\ runtime = "hermes" /\ \A n \in Message : at[n] \in 0..Len(ent)
  BY DEF Unwind, Inv, Types, RefInv, AtRef
<1>z. runtime' # "claude" /\ runtime = "hermes"
  BY <1>p1 DEF Unwind
<1> DEFINE s2 == Unwound(ent, at[m], m)
           s3 == Taken(s2, entry)
           st == Mark({m}, "over")
           cc == IF ent[at[m]].cur = RunOf(m) THEN NoContext ELSE ctx
<1>p2. Drain(s2, st, cc, {})
  BY DEF Unwind, Unwound
<1>p3. /\ Same(ent, s2, at[m])
       /\ Has(s2[at[m]], ent[at[m]].live, ent[at[m]].wired, FALSE,
              IF ent[at[m]].cur = RunOf(m) THEN None ELSE ent[at[m]].cur,
              ent[at[m]].queue, ent[at[m]].inbox)
  BY <1>t, <1>p1, UnwoundFacts
<1>p4. /\ st \in [Message -> Stages] /\ st[m] = "over"
       /\ \A n \in Message : n # m => st[n] = stage[n]
  BY <1>p1 DEF Mark, Stages
<1>p5. cc \in [run : MaybeRun, out : MaybeRun]
  BY <1>p1 DEF NoContext, MaybeRun
<1> HIDE DEF s2, st, cc
<1>p6. /\ s2 \in Seq(Entry) /\ Len(s2) = Len(ent)
       /\ \A y \in 1..Len(ent) :
            /\ s2[y].wired = ent[y].wired /\ s2[y].queue = ent[y].queue
            /\ s2[y].inbox = ent[y].inbox
            /\ s2[y].cur = ent[y].cur \/ s2[y].cur = None
  BY <1>p1, <1>p3 DEF Same, Has
<1>a. UNCHANGED <<regVars, restartVars, apiVars, entry>>
  BY DEF Unwind

<1>p7. NoDrain(s2, st, cc, {})
  BY <1>p2, <1>p6, <1>t DEF Drain
<1>k. /\ stage' \in [Message -> Stages] /\ stage'[m] = "over" /\ at' = at
      /\ \A n \in Message : n # m => stage'[n] = stage[n]
      /\ wire' = wire /\ ctx' \in [run : MaybeRun, out : MaybeRun]
  BY <1>p4, <1>p5, <1>p7 DEF NoDrain
<1>n. /\ ent' \in Seq(Entry) /\ Len(ent') = Len(ent)
      /\ \A y \in 1..Len(ent) :
           /\ ent'[y].wired = ent[y].wired /\ ent'[y].inbox = ent[y].inbox
           /\ ent'[y].cur = ent[y].cur \/ ent'[y].cur = None
  BY <1>p6, <1>p7 DEF NoDrain
<1>1. Types'
  BY <1>a, <1>k, <1>n DEF Inv, Types, Stages, Statuses, Same, Has
<1>2. RefInv'
  <2>1. CurRef'
    BY <1>a, <1>n DEF Inv, RefInv, CurRef
  <2>2. WireRef'
    BY <1>a, <1>k DEF Inv, RefInv, WireRef
  <2>3. RunRef'
    BY <1>t, <1>a, <1>k DEF Inv, RefInv, RunRef
  <2>4. AtRef'
    BY <1>a, <1>k DEF Inv, RefInv, AtRef
  <2>5. FedRef'
    BY <1>k, <1>n DEF Inv, RefInv, FedRef
  <2>6. OldRef'
    BY <1>a, <1>n DEF Inv, RefInv, OldRef
  <2>7. EntryRef'
    BY <1>t, <1>a, <1>n DEF Inv, RefInv, EntryRef
  <2> QED BY <2>1, <2>2, <2>3, <2>4, <2>5, <2>6, <2>7 DEF RefInv
<1>3. MapInv'
  BY <1>t, <1>a, <1>n DEF Inv, MapInv
<1>4. StopInv'
  BY <1>t, <1>a, <1>k, <1>n DEF Inv, StopInv, Awaited, Closed
<1>5. ChildInv'
  BY <1>z DEF ChildInv, Orderly
<1>6. TurnInv'
  BY <1>z DEF TurnInv, Orderly
<1>7. FileInv'
  BY <1>z DEF FileInv, Orderly
<1>8. OutputInv'
  BY <1>z DEF OutputInv, Orderly
<1>9. KeptInv'
  BY <1>z DEF KeptInv, Orderly
<1> QED BY <1>1, <1>2, <1>3, <1>4, <1>5, <1>6, <1>7, <1>8, <1>9 DEF Inv

LEMMA UnwindDrainsStep ==
  ASSUME Inv, NEW m \in Message, Unwind(m), entry # 0, ent[entry].queue # <<>>
  PROVE  Inv'
<1> USE DEF vars, regVars, restartVars, turnVars, apiVars
<1>t. /\ ent \in Seq(Entry) /\ Len(ent) \in Nat /\ DOMAIN ent = 1..Len(ent)
      /\ restarts \in Seq(Restart) /\ Len(restarts) \in Nat
      /\ DOMAIN restarts = 1..Len(restarts) /\ runs \subseteq Message
      /\ \A y \in 1..Len(ent) : ent[y] \in Entry
      /\ \A y \in 1..Len(restarts) : restarts[y] \in Restart
      /\ entry \in 0..Len(ent) /\ spawning \in 0..Len(restarts)
      /\ stopping.e \in 0..Len(ent)
  BY DEF Inv, Types
<1>p1. at[m] \in 1..Len(ent) /\ stage \in [Message -> Stages] /\ at \in [Message -> Nat]
       /\ ctx \in [run : MaybeRun, out : MaybeRun] /\ stage[m] = "unwinding"
       /\ runtime = "hermes" /\ \A n \in Message : at[n] \in 0..Len(ent)
  BY DEF Unwind, Inv, Types, RefInv, AtRef
<1>z. runtime' # "claude" /\ runtime = "hermes"
  BY <1>p1 DEF Unwind
<1> DEFINE s2 == Unwound(ent, at[m], m)
           s3 == Taken(s2, entry)
           st == Mark({m}, "over")
           cc == IF ent[at[m]].cur = RunOf(m) THEN NoContext ELSE ctx
<1>p2. Drain(s2, st, cc, {})
  BY DEF Unwind, Unwound
<1>p3. /\ Same(ent, s2, at[m])
       /\ Has(s2[at[m]], ent[at[m]].live, ent[at[m]].wired, FALSE,
              IF ent[at[m]].cur = RunOf(m) THEN None ELSE ent[at[m]].cur,
              ent[at[m]].queue, ent[at[m]].inbox)
  BY <1>t, <1>p1, UnwoundFacts
<1>p4. /\ st \in [Message -> Stages] /\ st[m] = "over"
       /\ \A n \in Message : n # m => st[n] = stage[n]
  BY <1>p1 DEF Mark, Stages
<1>p5. cc \in [run : MaybeRun, out : MaybeRun]
  BY <1>p1 DEF NoContext, MaybeRun
<1> HIDE DEF s2, st, cc
<1>p6. /\ s2 \in Seq(Entry) /\ Len(s2) = Len(ent)
       /\ \A y \in 1..Len(ent) :
            /\ s2[y].wired = ent[y].wired /\ s2[y].queue = ent[y].queue
            /\ s2[y].inbox = ent[y].inbox
            /\ s2[y].cur = ent[y].cur \/ s2[y].cur = None
  BY <1>p1, <1>p3 DEF Same, Has
<1>a. UNCHANGED <<regVars, restartVars, apiVars, entry>>
  BY DEF Unwind

<1> DEFINE n == Head(ent[entry].queue)
<1>f. n \in Message /\ ent[entry].queue # <<>> /\ entry \in 1..Len(ent)
  <2>1. ent[entry].queue \in Seq(Message)
    BY <1>t DEF Entry
  <2> QED BY <2>1, <1>t
<1>p7. SendNow(n, entry, s3, st, {})
  BY <1>p2, <1>p6, <1>t DEF Drain, Taken
<1> HIDE DEF n
<1>p8. /\ Same(s2, s3, entry)
       /\ Has(s3[entry], s2[entry].live, s2[entry].wired, s2[entry].busy,
              s2[entry].cur, Tail(s2[entry].queue), s2[entry].inbox)
  BY <1>p6, <1>f, TakenFacts
<1> HIDE DEF s3
<1>p9. Sends(n, entry, s3, st, {})
  <2>1. s3 \in Seq(Entry) /\ entry \in 1..Len(s3)
    BY <1>f, <1>p6, <1>p8 DEF Same
  <2> QED BY <1>t, <1>p1, <1>p4, <1>p7, <1>f, <2>1, SendNowFacts
<1>g. /\ Patch(n, "running") \subseteq PatchSet
      /\ \A p \in Patch(n, "running") : p.run = n /\ p.run \in runs /\ p.status = "running"
  BY <1>t, <1>f, PatchFacts DEF MaybeRun
<1>j. /\ ctx' \in [run : MaybeRun, out : MaybeRun] /\ RunOf(n) \in runs \cup {None}
  BY <1>p9 DEF Sends
<1>k. /\ stage' \in [Message -> Stages] /\ stage'[n] = "starting"
      /\ \A x \in Message : stage'[x] \in {stage[x], "starting", "over"}
      /\ \A x \in Message : stage'[x] = "unwinding" => stage[x] = "unwinding"
      /\ \A x \in Message : stage'[x] = "starting" => x = n \/ stage[x] = "starting"
      /\ at' \in [Message -> Nat] /\ at'[n] = entry
      /\ \A x \in Message : x # n => at'[x] = at[x]
  BY SMTT(30), <1>p9, <1>p4, <1>f DEF Sends
<1>n. /\ ent' \in Seq(Entry) /\ Len(ent') = Len(ent)
  BY <1>p6, <1>p8, <1>p9 DEF Sends, Same
<1>v. at' \in [Message -> 0..Len(ent')] /\ \A x \in Message : at[x] # 0 => at'[x] # 0
  <2>1. \A x \in Message : at'[x] \in 0..Len(ent')
    BY <1>k, <1>n, <1>t, <1>p1, <1>f
  <2>2. \A x \in Message : at[x] # 0 => at'[x] # 0
    BY <1>k, <1>n, <1>t, <1>p1, <1>f
  <2> QED BY <1>k, <2>1, <2>2
<1>w. wire' = wire \cup Patch(n, "running")
  BY <1>p9 DEF Sends
<1>o. /\ \A y \in 1..Len(ent) :
           /\ ent'[y].wired = ent[y].wired /\ ent'[y].inbox = ent[y].inbox
           /\ ent'[y].cur \in {ent[y].cur, None, RunOf(n)}
  BY <1>p6, <1>p8, <1>p9 DEF Same, Has, Sends
<1>1. Types'
  BY <1>a, <1>f, <1>g, <1>j, <1>k, <1>n, <1>v, <1>w, <1>o DEF Inv, Types, PatchSet,
       Stages
<1>2. RefInv'
  <2>1. CurRef'
    BY <1>a, <1>j, <1>n, <1>o DEF Inv, RefInv, CurRef
  <2>2. WireRef'
    BY <1>z, <1>a, <1>g, <1>n, <1>w, <1>o DEF Inv, RefInv, WireRef, Has
  <2>3. RunRef'
    BY <1>a, <1>k, <1>t DEF Inv, RefInv, RunRef
  <2>4. AtRef'
    BY <1>a, <1>f, <1>k, <1>v, <1>w, <1>o DEF Inv, RefInv, AtRef
  <2>5. FedRef'
    BY <1>n, <1>v, <1>o DEF Inv, RefInv, FedRef
  <2>6. OldRef'
    BY <1>a, <1>j, <1>n, <1>o DEF Inv, RefInv, OldRef
  <2>7. EntryRef'
    BY <1>t, <1>a, <1>o DEF Inv, RefInv, EntryRef
  <2> QED BY <2>1, <2>2, <2>3, <2>4, <2>5, <2>6, <2>7 DEF RefInv
<1>3. MapInv'
  BY <1>a, <1>o DEF Inv, RefInv, MapInv
<1>4. StopInv'
  BY <1>a, <1>f DEF Inv, MapInv, StopInv
<1>5. ChildInv'
  BY <1>z DEF ChildInv, Orderly
<1>6. TurnInv'
  BY <1>z DEF TurnInv, Orderly
<1>7. FileInv'
  BY <1>z DEF FileInv, Orderly
<1>8. OutputInv'
  BY <1>z DEF OutputInv, Orderly
<1>9. KeptInv'
  BY <1>z DEF KeptInv, Orderly
<1> QED BY <1>1, <1>2, <1>3, <1>4, <1>5, <1>6, <1>7, <1>8, <1>9 DEF Inv

LEMMA NeedsRestartStep ==
  ASSUME Inv, NEW e \in DOMAIN ent, NeedsRestart(e)
  PROVE  Inv'
<1> USE DEF vars, regVars, restartVars, turnVars, apiVars
<1>t. /\ ent \in Seq(Entry) /\ Len(ent) \in Nat /\ DOMAIN ent = 1..Len(ent)
      /\ restarts \in Seq(Restart) /\ Len(restarts) \in Nat
      /\ DOMAIN restarts = 1..Len(restarts) /\ runs \subseteq Message
      /\ \A y \in 1..Len(ent) : ent[y] \in Entry
      /\ \A y \in 1..Len(restarts) : restarts[y] \in Restart
      /\ entry \in 0..Len(ent) /\ spawning \in 0..Len(restarts)
      /\ stopping.e \in 0..Len(ent)
  BY DEF Inv, Types
<1>p1. entry \in 1..Len(ent) /\ session \in Nat \ {0} /\ spawning = 0 /\ stopping.e = 0
  BY <1>t DEF NeedsRestart, Inv, Types, MapInv
<1>s. entry \in 1..Len(ent) /\ ent[entry].wired
  BY <1>p1 DEF Inv, RefInv, EntryRef
<1> DEFINE k == Len(restarts) + 1
           r == [old |-> entry, session |-> session, pending |-> ent[entry].queue,
                 waiters |-> <<>>, state |-> "open"]
<1>p2. ent[entry].queue \in Seq(Message)
  BY <1>t, <1>p1 DEF Entry
<1>p3. /\ r \in Restart /\ r.old = entry /\ r.state = "open"
       /\ r.pending = ent[entry].queue /\ r.waiters = <<>>
  BY <1>p1, <1>p2, <1>t, NoneIsSeq DEF Restart
<1>p4. restarts' = Append(restarts, r)
  BY DEF NeedsRestart
<1>p5. ent' = Unwired(ent, entry)
  BY DEF NeedsRestart, Unwired
<1>a. UNCHANGED <<regVars, turnVars, apiVars, wire>> /\ entry' = 0 /\ spawning' = k
  BY DEF NeedsRestart
<1> HIDE DEF r
<1>b. /\ restarts' \in Seq(Restart) /\ Len(restarts') = k /\ k \in 1..k
      /\ restarts'[k].old = entry /\ restarts'[k].state = "open"
      /\ restarts'[k].pending = ent[entry].queue
      /\ \A y \in 1..Len(restarts) : restarts'[y] = restarts[y]
      /\ \A y \in 1..k : y \in 1..Len(restarts) \/ y = k
      /\ 1..Len(restarts) \subseteq 1..k
  BY <1>t, <1>p3, <1>p4, Add
<1> HIDE DEF k
<1>p6. /\ Same(ent, ent', entry)
       /\ Has(ent'[entry], ent[entry].live, FALSE, ent[entry].busy, ent[entry].cur, <<>>,
              ent[entry].inbox)
  BY <1>t, <1>p1, <1>p5, UnwiredFacts
<1>n. /\ ent' \in Seq(Entry) /\ Len(ent') = Len(ent)
  BY <1>p6 DEF Same
<1>o. /\ \A y \in 1..Len(ent) :
           /\ ent'[y].live = ent[y].live /\ ent'[y].busy = ent[y].busy
           /\ ent'[y].cur = ent[y].cur /\ ent'[y].inbox = ent[y].inbox
           /\ y # entry => ent'[y] = ent[y]
      /\ ~ent'[entry].wired
  BY <1>p1, <1>p6 DEF Same, Has
<1>l. \A n \in Message : \A y : AtChild(n, y)' <=> AtChild(n, y)
  BY <1>a DEF AtChild
<1>v. /\ entry' \in 0..Len(ent') /\ spawning' \in 0..Len(restarts')
      /\ stopping' \in [e : 0..Len(ent'), run : MaybeRun]
      /\ at' \in [Message -> 0..Len(ent')]
  BY <1>a, <1>b, <1>n DEF Inv, Types
<1>c. Orderly => \A y \in 1..Len(restarts) : restarts[y].state # "open"
  BY <1>p1, <1>t DEF Inv, ChildInv, OpenIsAwaited
<1>1. Types'
  BY <1>a, <1>b, <1>n, <1>v DEF Inv, Types, PatchSet
<1>2. RefInv'
  <2>1. CurRef'
    BY <1>a, <1>n, <1>o, <1>l, <1>c DEF Inv, RefInv, CurRef
  <2>2. WireRef'
    BY <1>t, <1>a DEF Inv, RefInv, WireRef
  <2>3. RunRef'
    BY <1>a DEF Inv, RefInv, RunRef, Has
  <2>4. AtRef'
    BY <1>a, <1>n, <1>v DEF Inv, RefInv, AtRef, Has
  <2>5. FedRef'
    BY <1>a, <1>n, <1>o, <1>l, <1>v DEF Inv, RefInv, FedRef, Has
  <2>6. OldRef'
    <3> SUFFICES ASSUME NEW y \in 1..Len(restarts')
                 PROVE  /\ restarts'[y].old \in 1..Len(ent')
                        /\ ~ent'[restarts'[y].old].wired
      BY DEF OldRef
    <3>1. CASE y = k
      BY <3>1, <1>b, <1>n, <1>o, <1>s
    <3>2. CASE y \in 1..Len(restarts)
      <4>1. restarts'[y].old \in 1..Len(ent) /\ ~ent[restarts'[y].old].wired
        BY <3>2, <1>b DEF Inv, RefInv, OldRef
      <4> QED BY <4>1, <1>n, <1>o, <1>s
    <3> QED BY <3>1, <3>2, <1>b
  <2>7. EntryRef'
    BY <1>a, <1>o, <1>v DEF RefInv, EntryRef
  <2> QED BY <2>1, <2>2, <2>3, <2>4, <2>5, <2>6, <2>7 DEF RefInv
<1>3. MapInv'
  BY <1>a, <1>b, <1>p1 DEF Inv, MapInv
<1>4. StopInv'
  BY <1>a, <1>b, <1>n, <1>o, <1>v DEF Inv, StopInv, Awaited, Closed
<1>5. ChildInv'
  <2> SUFFICES ASSUME Orderly
               PROVE  OpenIsAwaited' /\ LiveIsHeld'
    BY <1>a DEF ChildInv, Orderly
  <2>0. OpenIsAwaited /\ LiveIsHeld
    BY DEF Inv, ChildInv
  <2>1. OpenIsAwaited'
    BY <1>a, <1>b, <1>c, <2>0 DEF OpenIsAwaited
  <2>2. LiveIsHeld'
    <3>1. \A y \in 1..Len(ent) : ent[y].live => y = entry
      BY <2>0, <1>c, <1>p1 DEF LiveIsHeld
    <3>2. \E j \in 1..Len(restarts') :
            restarts'[j].state = "open" /\ restarts'[j].old = entry
      BY <1>b
    <3>3. Len(ent') = Len(ent) /\ \A y \in 1..Len(ent) : ent'[y].live = ent[y].live
      BY <1>n, <1>o
    <3> QED BY <3>1, <3>2, <3>3 DEF LiveIsHeld
  <2> QED BY <2>1, <2>2
<1>6. TurnInv'
  <2> SUFFICES ASSUME Orderly
               PROVE  OneInbox' /\ FedLives' /\ NextWaits' /\ OneNext' /\ IdleIsFree'
    BY <1>a DEF TurnInv, Orderly
  <2>0. OneInbox /\ FedLives /\ NextWaits /\ OneNext /\ IdleIsFree
    BY DEF Inv, TurnInv
  <2>1. OneInbox'
    BY <1>n, <1>o, <2>0 DEF Inv, OneInbox
  <2>2. FedLives'
    BY <1>t, <1>n, <1>o, <2>0 DEF FedLives
  <2>3. NextWaits'
    BY <1>n, <1>o, <1>l, <1>c, <2>0 DEF NextWaits
  <2>4. OneNext'
    BY <1>n, <1>o, <1>l, <1>c, <2>0 DEF Inv, OneNext
  <2>5. IdleIsFree'
    BY <1>t, <1>a, <1>n DEF Inv, IdleIsFree
  <2> QED BY <2>1, <2>2, <2>3, <2>4, <2>5
<1>7. FileInv'
  <2> SUFFICES ASSUME Orderly
               PROVE  OutIsRun' /\ FedIsRun' /\ NextIsRun'
    BY <1>a DEF FileInv, Orderly
  <2>0. OutIsRun /\ FedIsRun /\ NextIsRun
    BY DEF Inv, FileInv
  <2>1. OutIsRun'
    BY <1>a, <1>b, <1>o, <2>0 DEF OutIsRun
  <2>2. FedIsRun'
    BY <1>a, <1>b, <1>n, <1>o, <1>l, <2>0 DEF FedIsRun, Has
  <2>3. NextIsRun'
    BY <1>a, <1>n, <1>o, <1>l, <1>v, <2>0 DEF NextIsRun
  <2> QED BY <2>1, <2>2, <2>3
<1>8. OutputInv'
  BY <1>t, <1>a DEF Inv, Orderly, OutputInv
<1>9. KeptInv'
  <2> SUFFICES ASSUME Orderly, NEW q \in runs'
               PROVE  Kept(q)'
    BY <1>a DEF KeptInv, Orderly
  <2>0. q \in Message /\ (q \in runs => Kept(q))
    BY <1>t, <1>a, <1>n DEF Inv, KeptInv
  <2>1. ASSUME InEnd(q) PROVE  Kept(q)'
    BY <2>1, <1>t, <1>a, <1>b, <1>n, <1>o, <1>v, <1>c DEF Kept, InEnd, Closed
  <2>2. ASSUME AtStage(q) PROVE  Kept(q)'
    BY <2>2, <1>a, <1>l, <1>c DEF Inv, Kept, AtStage
  <2>3. ASSUME IsTurn(q) PROVE  Kept(q)'
    BY <2>3, <1>b, <1>n, <1>o DEF Kept, IsTurn, WasTurn
  <2>4. ASSUME InQueue(q) PROVE  Kept(q)'
    BY <2>4, <1>b DEF Kept, InQueue, IsCarried
  <2>5. ASSUME InStop(q) PROVE  Kept(q)'
    BY <2>5, <1>s, <1>c DEF Inv, InStop, MapInv
  <2>6. ASSUME WasTurn(q) PROVE  Kept(q)'
    <3>1. \A j \in 1..Len(restarts) : restarts[j].old \in 1..Len(ent)
      BY <1>t DEF Inv, RefInv, OldRef
    <3> QED BY SMTT(30), <2>6, <1>b, <1>o, <3>1 DEF Kept, WasTurn
  <2>7. ASSUME IsCarried(q) PROVE  Kept(q)'
    BY <2>7, <2>0, <1>b DEF Kept, IsCarried
  <2>8. ASSUME OnWire(q) PROVE  Kept(q)'
    BY <2>8, <1>a DEF Inv, Kept, OnWire
  <2> QED BY <2>0, <1>a, <2>1, <2>2, <2>3, <2>4, <2>5, <2>6, <2>7, <2>8 DEF Kept
<1> QED BY <1>1, <1>2, <1>3, <1>4, <1>5, <1>6, <1>7, <1>8, <1>9 DEF Inv

LEMMA FinishIdleStep ==
  ASSUME Inv, NEW i \in DOMAIN restarts, FinishRestart(i), restarts[i].waiters = <<>>
  PROVE  Inv'
<1> USE DEF vars, regVars, restartVars, turnVars, apiVars
<1>t. /\ ent \in Seq(Entry) /\ Len(ent) \in Nat /\ DOMAIN ent = 1..Len(ent)
      /\ restarts \in Seq(Restart) /\ Len(restarts) \in Nat
      /\ DOMAIN restarts = 1..Len(restarts) /\ runs \subseteq Message
      /\ \A y \in 1..Len(ent) : ent[y] \in Entry
      /\ \A y \in 1..Len(restarts) : restarts[y] \in Restart
      /\ entry \in 0..Len(ent) /\ spawning \in 0..Len(restarts)
      /\ stopping.e \in 0..Len(ent)
  BY DEF Inv, Types
<1>p1. i \in 1..Len(restarts) /\ restarts[i] \in Restart /\ restarts[i].session # 0
       /\ restarts[i].state = "open" /\ session = restarts[i].session
       /\ restarts[i].pending \in Seq(Message) /\ restarts[i].waiters \in Seq(Message)
       /\ restarts[i].old \in 1..Len(ent) /\ ~ent[restarts[i].old].wired
  BY <1>t DEF FinishRestart, Restart, Inv, RefInv, OldRef
<1>p2. stopping.e = 0 /\ stopping = NoStop
  BY <1>p1 DEF Inv, MapInv
<1> DEFINE r == [restarts[i] EXCEPT !.state = "done"]
           old == restarts[i].old
           k == Len(ent) + 1
           s1 == Downed(ent, old)
           fresh == NewEntry(restarts[i].pending)
           s2 == Append(s1, fresh)
<1>a. UNCHANGED <<regVars, apiVars>> /\ entry' = k /\ spawning' = 0
      /\ session # 0 /\ stopping.e = 0
  BY <1>p1, <1>p2 DEF FinishRestart
<1>p3. r \in Restart /\ r.state = "done" /\ r.old = old
  BY <1>p1 DEF Restart
<1>p4. restarts' = [restarts EXCEPT ![i] = r]
  BY DEF FinishRestart
<1> HIDE DEF r
<1>b. /\ restarts' \in Seq(Restart) /\ Len(restarts') = Len(restarts)
      /\ restarts'[i].state = "done" /\ restarts'[i].old = old /\ i \in 1..Len(restarts)
      /\ \A y \in 1..Len(restarts) : y # i => restarts'[y] = restarts[y]
      /\ \A y \in 1..Len(restarts) : restarts'[y].old = restarts[y].old
  BY <1>t, <1>p3, <1>p4, Put
<1>p5. fresh \in Entry /\ Has(fresh, TRUE, TRUE, FALSE, None, restarts[i].pending, <<>>)
  BY <1>p1 DEF NewEntry, Entry, MaybeRun, Has
<1> HIDE DEF fresh
<1>p6. /\ Same(ent, s1, old)
       /\ Has(s1[old], FALSE, ent[old].wired, ent[old].busy, ent[old].cur,
              ent[old].queue, <<>>)
  BY <1>t, <1>p1, DownedFacts
<1> HIDE DEF s1
<1>p7. /\ s2 \in Seq(Entry) /\ Len(s2) = k /\ s2[k] = fresh
       /\ \A y \in 1..Len(ent) : s2[y] = s1[y]
  BY <1>t, <1>p5, <1>p6, Add DEF Same
<1>s. /\ k \in Nat /\ k # 0 /\ k \in 1..k /\ k \notin 1..Len(ent)
      /\ 1..Len(ent) \subseteq 1..k /\ \A y \in 1..k : y \in 1..Len(ent) \/ y = k
      /\ old \in 1..Len(ent) /\ old # k /\ ~ent[old].wired /\ entry' \in 0..k
      /\ Len(ent) \in 0..k
  BY <1>t, <1>p1, <1>a
<1>sn. Len(<<>>) <= 1 /\ \A n : n \notin ToSet(<<>>)
  BY SetOfNone
<1>h. \A y \in 1..Len(ent) :
        /\ s2[y].wired = ent[y].wired /\ s2[y].busy = ent[y].busy
        /\ s2[y].cur = ent[y].cur /\ s2[y].queue = ent[y].queue
        /\ y # old => s2[y].live = ent[y].live /\ s2[y].inbox = ent[y].inbox
        /\ y = old => s2[y].live = FALSE /\ s2[y].inbox = <<>>
  BY <1>p1, <1>p6, <1>p7 DEF Same, Has
<1>i. Orderly => /\ entry = 0
                 /\ \A y \in 1..Len(restarts) : restarts[y].state = "open" => y = i
                 /\ \A y \in 1..Len(ent) : ~s2[y].live /\ s2[y].inbox = <<>>
  <2> SUFFICES ASSUME Orderly
               PROVE  /\ entry = 0
                      /\ \A y \in 1..Len(restarts) : restarts[y].state = "open" => y = i
                      /\ \A y \in 1..Len(ent) : ~s2[y].live /\ s2[y].inbox = <<>>
    OBVIOUS
  <2>1. OpenIsAwaited /\ LiveIsHeld /\ FedLives
    BY DEF Inv, ChildInv, TurnInv
  <2>2. spawning = i /\ \A y \in 1..Len(restarts) : restarts[y].state = "open" => y = i
    BY <2>1, <1>p1, <1>a DEF OpenIsAwaited
  <2>3. entry = 0
    BY <2>2, <1>p1, <1>t DEF Inv, MapInv
  <2>4. \A y \in 1..Len(ent) : ent[y].live => y = old
    BY <2>1, <2>2, <2>3, <1>a DEF LiveIsHeld
  <2>5. \A y \in 1..Len(ent) : ~s2[y].live
    BY <2>4, <1>h
  <2>6. \A y \in 1..Len(ent) : y # old => ent[y].inbox = <<>>
    BY <2>1, <2>4 DEF FedLives
  <2>7. \A y \in 1..Len(ent) : s2[y].inbox = <<>>
    BY <2>6, <1>h
  <2> QED BY <2>2, <2>3, <2>5, <2>7
<1>y. \A n \in Message : at[n] \in 0..Len(ent) /\ ~AtChild(n, k)
  BY <1>t DEF AtChild, Inv, Types

<1>p8. ent' = s2 /\ UNCHANGED <<turnVars, wire>>
  BY DEF FinishRestart, Shut, Downed, s1, fresh
<1> HIDE DEF s2, k, old
<1>c. UNCHANGED <<turnVars, wire>> /\ restarts[i].waiters = <<>>
  BY <1>p8
<1>n. ent' \in Seq(Entry) /\ Len(ent') = k
  BY <1>p7, <1>p8
<1>o. /\ \A y \in 1..Len(ent) :
           /\ ent'[y].wired = ent[y].wired /\ ent'[y].busy = ent[y].busy
           /\ ent'[y].cur = ent[y].cur /\ ent'[y].queue = ent[y].queue
           /\ y # old => ent'[y].live = ent[y].live /\ ent'[y].inbox = ent[y].inbox
           /\ y = old => ent'[y].live = FALSE /\ ent'[y].inbox = <<>>
      /\ Has(ent'[k], TRUE, TRUE, FALSE, None, restarts[i].pending, <<>>)
  BY <1>h, <1>p5, <1>p7, <1>p8
<1>l. \A n \in Message : \A y : AtChild(n, y)' <=> AtChild(n, y)
  BY <1>c DEF AtChild
<1>v. at' \in [Message -> 0..Len(ent')] /\ stopping' \in [e : 0..Len(ent'), run : MaybeRun]
  <2>1. \A n \in Message : at'[n] \in 0..k
    BY <1>c, <1>y, <1>s, <1>t
  <2>2. at' \in [Message -> 0..k]
    BY <2>1, <1>c DEF Inv, Types
  <2>3. stopping' \in [e : 0..k, run : MaybeRun]
    BY <1>a, <1>s, <1>t DEF Inv, Types
  <2> QED BY <2>2, <2>3, <1>n
<1>e. Orderly => \A y \in 1..Len(ent) : ~ent'[y].live /\ ent'[y].inbox = <<>>
  BY <1>i, <1>p8
<1>1. Types'
  <2>1. /\ entry' \in 0..Len(ent') /\ ent' \in Seq(Entry)
        /\ restarts' \in Seq(Restart) /\ spawning' \in 0..Len(restarts')
    BY <1>a, <1>b, <1>n, <1>s, <1>t
  <2>2. /\ runtime' \in {"claude", "hermes"} /\ refreshes' \in 0..MaxRefreshes
        /\ session' \in 0..(refreshes' + 1) /\ runs' \subseteq Message
        /\ server' \in [Message -> Statuses] /\ lost' \subseteq Message
    BY <1>a DEF Inv, Types
  <2>3. wire' \subseteq PatchSet 
    BY <1>c DEF Inv, Types
  <2>4. stage' \in [Message -> Stages] /\ ctx' \in [run : MaybeRun, out : MaybeRun]
    BY <1>c DEF Inv, Types
  <2> QED BY <2>1, <2>2, <2>3, <2>4, <1>v DEF Types
<1>2. RefInv'
  <2>1. CurRef'
    BY <1>t, <1>a, <1>b, <1>s, <1>y, <1>n, <1>o, <1>l, <1>v, <1>e DEF Inv, RefInv,
         CurRef, Has
  <2>2. WireRef'
    BY <1>a, <1>b, <1>h, <1>c, <1>v DEF Inv, RefInv, WireRef, Has
  <2>3. RunRef'
    BY <1>a, <1>h, <1>i, <1>c, <1>l DEF Inv, RefInv, RunRef
  <2>4. AtRef'
    BY <1>t, <1>a, <1>b, <1>s, <1>i, <1>c, <1>o, <1>v DEF Inv, RefInv, AtRef
  <2>5. FedRef'
    BY <1>t, <1>a, <1>s, <1>sn, <1>c, <1>n, <1>o, <1>l DEF Inv, RefInv, FedRef, Has
  <2>6. OldRef'
    <3> SUFFICES ASSUME NEW y \in 1..Len(restarts')
                 PROVE  /\ restarts'[y].old \in 1..Len(ent')
                        /\ ~ent'[restarts'[y].old].wired
      BY DEF OldRef
    <3>1. restarts'[y].old \in 1..Len(ent) /\ ~ent[restarts'[y].old].wired
      BY <1>b, <1>t DEF Inv, RefInv, OldRef
    <3> QED BY <3>1, <1>n, <1>o, <1>s
  <2>7. EntryRef'
    BY <1>a, <1>s, <1>y, <1>o DEF Inv, EntryRef, Has
  <2> QED BY <2>1, <2>2, <2>3, <2>4, <2>5, <2>6, <2>7 DEF RefInv
<1>3. MapInv'
  BY <1>a, <1>h, <1>o DEF Inv, MapInv
<1>4. StopInv'
  BY <1>a, <1>n DEF Inv, StopInv, Closed
<1>5. ChildInv'
  <2> SUFFICES ASSUME Orderly
               PROVE  OpenIsAwaited' /\ LiveIsHeld'
    BY <1>a DEF ChildInv, Orderly
  <2>0. OpenIsAwaited /\ LiveIsHeld
    BY DEF Inv, ChildInv
  <2>1. OpenIsAwaited'
    BY <1>b, <1>i, <2>0 DEF Inv, OpenIsAwaited
  <2>2. LiveIsHeld'
    BY <1>t, <1>a, <1>s, <1>i, <1>n, <1>v, <1>e DEF LiveIsHeld
  <2> QED BY <2>1, <2>2
<1>6. TurnInv'
  <2> SUFFICES ASSUME Orderly
               PROVE  OneInbox' /\ FedLives' /\ NextWaits' /\ OneNext' /\ IdleIsFree'
    BY <1>a DEF TurnInv, Orderly
  <2>0. OneInbox /\ FedLives /\ NextWaits /\ OneNext /\ IdleIsFree
    BY DEF Inv, TurnInv
  <2>1. OneInbox'
    BY <1>t, <1>s, <1>i, <1>n, <1>o, <1>v, <1>e DEF OneInbox, Has
  <2>2. FedLives'
    BY <1>t, <1>s, <1>n, <1>o, <1>e DEF FedLives, Has
  <2>3. NextWaits'
    BY <1>s, <1>n, <1>o, <1>v, <1>e DEF NextWaits, Has
  <2>4. OneNext'
    BY <1>a, <1>s, <1>sn, <1>h, <1>i, <1>y, <1>c, <1>n, <1>l, <1>e DEF Inv, OneNext
  <2>5. IdleIsFree'
    BY <1>a, <1>i, <1>y, <1>n, <1>o, <1>l, <1>v, <1>e, <2>0 DEF IdleIsFree, Has
  <2> QED BY <2>1, <2>2, <2>3, <2>4, <2>5
<1>7. FileInv'
  <2> SUFFICES ASSUME Orderly
               PROVE  OutIsRun' /\ FedIsRun' /\ NextIsRun'
    BY <1>a DEF FileInv, Orderly
  <2>0. OutIsRun /\ FedIsRun /\ NextIsRun
    BY DEF Inv, FileInv
  <2>1. OutIsRun'
    BY <1>y, <1>c, <1>l, <2>0 DEF OutIsRun
  <2>2. FedIsRun'
    BY <1>s, <1>n, <1>o, <1>v, <1>e DEF FedIsRun, Has
  <2>3. NextIsRun'
    BY <1>t, <1>s, <1>sn, <1>h, <1>i, <1>y, <1>n, <1>l, <1>e DEF NextIsRun
  <2> QED BY <2>1, <2>2, <2>3
<1>8. OutputInv'
  BY <1>a, <1>s, <1>sn, <1>c, <1>n, <1>l, <1>e DEF Inv, Orderly, OutputInv
<1>9. KeptInv'
  <2> SUFFICES ASSUME Orderly, NEW q \in runs'
               PROVE  Kept(q)'
    BY <1>a DEF KeptInv, Orderly
  <2>0. q \in Message /\ (q \in runs => Kept(q))
    BY <1>t, <1>a, <1>sn DEF Inv, KeptInv
  <2>1. ASSUME InEnd(q) PROVE  Kept(q)'
    BY <2>1, <1>a, <1>s, <1>h, <1>y, <1>o, <1>v, <1>e DEF Inv, Kept, InEnd, Closed,
         Has
  <2>2. ASSUME AtStage(q) PROVE  Kept(q)'
    BY <2>2, <2>0, <1>a, <1>b, <1>c, <1>l, <1>e DEF Kept, AtStage
  <2>3. ASSUME IsTurn(q) PROVE  Kept(q)'
    BY <2>3, <1>n, <1>o, <1>s DEF Kept, IsTurn
  <2>4. ASSUME InQueue(q) PROVE  Kept(q)'
    BY <2>4, <1>a, <1>s, <1>h, <1>i DEF Inv, InQueue
  <2>5. ASSUME InStop(q) PROVE  Kept(q)'
    BY <2>5, <1>a, <1>y, <1>e DEF InStop
  <2>6. ASSUME WasTurn(q) PROVE  Kept(q)'
    <3>1. PICK j \in 1..Len(restarts) : ent[restarts[j].old].cur = q
      BY <2>6, <1>t DEF WasTurn
    <3>2. restarts'[j].old = restarts[j].old /\ restarts[j].old \in 1..Len(ent)
      BY <1>b, <3>1 DEF Inv, RefInv, OldRef
    <3>3. ent'[restarts[j].old].cur = q
      BY <3>1, <3>2, <1>o
    <3> QED BY <3>2, <3>3, <1>b DEF Kept, WasTurn
  <2>7. ASSUME IsCarried(q) PROVE  Kept(q)'
    BY SMTT(30), <2>7, <2>0, <1>t, <1>a, <1>b, <1>s, <1>sn, <1>h, <1>i, <1>y,
         <1>n, <1>o, <1>l, <1>v, <1>e DEF Inv, Kept, IsCarried, InQueue, Has
  <2>8. ASSUME OnWire(q) PROVE  Kept(q)'
    BY <2>8, <1>t, <1>c DEF Kept, OnWire
  <2> QED BY <2>0, <1>a, <1>c, <2>1, <2>2, <2>3, <2>4, <2>5, <2>6, <2>7, <2>8 DEF
       Kept
<1> QED BY <1>1, <1>2, <1>3, <1>4, <1>5, <1>6, <1>7, <1>8, <1>9 DEF Inv

LEMMA FinishSendsStep ==
  ASSUME Inv, NEW i \in DOMAIN restarts, FinishRestart(i), restarts[i].waiters # <<>>
  PROVE  Inv'
<1> USE DEF vars, regVars, restartVars, turnVars, apiVars
<1>t. /\ ent \in Seq(Entry) /\ Len(ent) \in Nat /\ DOMAIN ent = 1..Len(ent)
      /\ restarts \in Seq(Restart) /\ Len(restarts) \in Nat
      /\ DOMAIN restarts = 1..Len(restarts) /\ runs \subseteq Message
      /\ \A y \in 1..Len(ent) : ent[y] \in Entry
      /\ \A y \in 1..Len(restarts) : restarts[y] \in Restart
      /\ entry \in 0..Len(ent) /\ spawning \in 0..Len(restarts)
      /\ stopping.e \in 0..Len(ent)
  BY DEF Inv, Types
<1>p1. i \in 1..Len(restarts) /\ restarts[i] \in Restart /\ restarts[i].session # 0
       /\ restarts[i].state = "open" /\ session = restarts[i].session
       /\ restarts[i].pending \in Seq(Message) /\ restarts[i].waiters \in Seq(Message)
       /\ restarts[i].old \in 1..Len(ent) /\ ~ent[restarts[i].old].wired
  BY <1>t DEF FinishRestart, Restart, Inv, RefInv, OldRef
<1>p2. stopping.e = 0 /\ stopping = NoStop
  BY <1>p1 DEF Inv, MapInv
<1> DEFINE m == Head(restarts[i].waiters)
<1>q. /\ m \in Message /\ restarts[i].pending \o Tail(restarts[i].waiters) \in Seq(Message)
      /\ \A y : y \in ToSet(restarts[i].waiters)
                <=> y = m \/ y \in ToSet(Tail(restarts[i].waiters))
      /\ \A y : y \in ToSet(restarts[i].pending \o Tail(restarts[i].waiters))
                <=> y \in ToSet(restarts[i].pending) \/ y \in ToSet(Tail(restarts[i].waiters))
  <2>1. Tail(restarts[i].waiters) \in Seq(Message)
    BY <1>p1, SetOfTail
  <2> QED BY <1>p1, <2>1, SetOfTail, SetOfBoth
<1> DEFINE r == [restarts[i] EXCEPT !.state = "done"]
           old == restarts[i].old
           k == Len(ent) + 1
           s1 == Downed(ent, old)
           fresh == NewEntry(restarts[i].pending \o Tail(restarts[i].waiters))
           s2 == Append(s1, fresh)
<1>a. UNCHANGED <<regVars, apiVars>> /\ entry' = k /\ spawning' = 0
      /\ session # 0 /\ stopping.e = 0
  BY <1>p1, <1>p2 DEF FinishRestart
<1>p3. r \in Restart /\ r.state = "done" /\ r.old = old
  BY <1>p1 DEF Restart
<1>p4. restarts' = [restarts EXCEPT ![i] = r]
  BY DEF FinishRestart
<1> HIDE DEF r
<1>b. /\ restarts' \in Seq(Restart) /\ Len(restarts') = Len(restarts)
      /\ restarts'[i].state = "done" /\ restarts'[i].old = old /\ i \in 1..Len(restarts)
      /\ \A y \in 1..Len(restarts) : y # i => restarts'[y] = restarts[y]
      /\ \A y \in 1..Len(restarts) : restarts'[y].old = restarts[y].old
  BY <1>t, <1>p3, <1>p4, Put
<1>p5. fresh \in Entry /\ Has(fresh, TRUE, TRUE, FALSE, None, restarts[i].pending \o Tail(restarts[i].waiters), <<>>)
  BY <1>q, NoneIsSeq DEF NewEntry, Entry, MaybeRun, Has
<1> HIDE DEF fresh
<1>p6. /\ Same(ent, s1, old)
       /\ Has(s1[old], FALSE, ent[old].wired, ent[old].busy, ent[old].cur,
              ent[old].queue, <<>>)
  BY <1>t, <1>p1, DownedFacts
<1> HIDE DEF s1
<1>p7. /\ s2 \in Seq(Entry) /\ Len(s2) = k /\ s2[k] = fresh
       /\ \A y \in 1..Len(ent) : s2[y] = s1[y]
  BY <1>t, <1>p5, <1>p6, Add DEF Same
<1>s. /\ k \in Nat /\ k # 0 /\ k \in 1..k /\ k \notin 1..Len(ent)
      /\ 1..Len(ent) \subseteq 1..k /\ \A y \in 1..k : y \in 1..Len(ent) \/ y = k
      /\ old \in 1..Len(ent) /\ old # k /\ ~ent[old].wired /\ entry' \in 0..k
      /\ Len(ent) \in 0..k
  BY <1>t, <1>p1, <1>a
<1>sn. Len(<<>>) <= 1 /\ \A n : n \notin ToSet(<<>>)
  BY SetOfNone
<1>h. \A y \in 1..Len(ent) :
        /\ s2[y].wired = ent[y].wired /\ s2[y].busy = ent[y].busy
        /\ s2[y].cur = ent[y].cur /\ s2[y].queue = ent[y].queue
        /\ y # old => s2[y].live = ent[y].live /\ s2[y].inbox = ent[y].inbox
        /\ y = old => s2[y].live = FALSE /\ s2[y].inbox = <<>>
  BY <1>p1, <1>p6, <1>p7 DEF Same, Has
<1>i. Orderly => /\ entry = 0
                 /\ \A y \in 1..Len(restarts) : restarts[y].state = "open" => y = i
                 /\ \A y \in 1..Len(ent) : ~s2[y].live /\ s2[y].inbox = <<>>
  <2> SUFFICES ASSUME Orderly
               PROVE  /\ entry = 0
                      /\ \A y \in 1..Len(restarts) : restarts[y].state = "open" => y = i
                      /\ \A y \in 1..Len(ent) : ~s2[y].live /\ s2[y].inbox = <<>>
    OBVIOUS
  <2>1. OpenIsAwaited /\ LiveIsHeld /\ FedLives
    BY DEF Inv, ChildInv, TurnInv
  <2>2. spawning = i /\ \A y \in 1..Len(restarts) : restarts[y].state = "open" => y = i
    BY <2>1, <1>p1, <1>a DEF OpenIsAwaited
  <2>3. entry = 0
    BY <2>2, <1>p1, <1>t DEF Inv, MapInv
  <2>4. \A y \in 1..Len(ent) : ent[y].live => y = old
    <3> SUFFICES ASSUME NEW y \in 1..Len(ent), ent[y].live
                 PROVE  y = old
      OBVIOUS
    <3>1. \/ y = entry \/ y = stopping.e
          \/ \E j \in 1..Len(restarts) : restarts[j].state = "open" /\ restarts[j].old = y
      BY <2>1 DEF LiveIsHeld
    <3>2. y # entry /\ y # stopping.e
      BY <2>3, <1>p1, <1>t, <1>a
    <3> QED BY <3>1, <3>2, <2>2
  <2>5. \A y \in 1..Len(ent) : ~s2[y].live
    BY <2>4, <1>h
  <2>6. \A y \in 1..Len(ent) : y # old => ent[y].inbox = <<>>
    BY <2>1, <2>4 DEF FedLives
  <2>7. \A y \in 1..Len(ent) : s2[y].inbox = <<>>
    BY <2>6, <1>h
  <2> QED BY <2>2, <2>3, <2>5, <2>7
<1>y. \A n \in Message : at[n] \in 0..Len(ent) /\ ~AtChild(n, k)
  BY <1>t DEF AtChild, Inv, Types

<1> DEFINE st == Mark(ToSet(restarts[i].waiters), "queued")
<1>p8. SendNow(m, k, s2, st, {})
  BY DEF FinishRestart, Shut, Downed, s1, fresh
<1>p9. /\ st \in [Message -> Stages] /\ at \in [Message -> Nat]
       /\ \A n \in Message :
            st[n] = IF n \in ToSet(restarts[i].waiters) THEN "queued" ELSE stage[n]
  BY <1>t DEF Mark, Stages, Inv, Types
<1> HIDE DEF s2, k, old, m, st
<1>d. Sends(m, k, s2, st, {})
  BY <1>t, <1>p7, <1>p8, <1>p9, <1>q, <1>s, SendNowFacts
<1>g. /\ Patch(m, "running") \subseteq PatchSet
      /\ \A p \in Patch(m, "running") : p.run = m /\ p.run \in runs /\ p.status = "running"
  BY <1>t, <1>q, PatchFacts DEF MaybeRun
<1>j. /\ ctx' \in [run : MaybeRun, out : MaybeRun]
      /\ ctx'.run = RunOf(m) /\ ctx'.out = None /\ RunOf(m) \in runs \cup {None}
      /\ m \in runs => RunOf(m) = m
      /\ m \notin runs => RunOf(m) = None
      /\ RunOf(m) \in MaybeRun
  BY <1>d DEF Sends
<1>k. /\ stage' \in [Message -> Stages] /\ stage'[m] = "starting"
      /\ \A n \in Message : n # m =>
           stage'[n] = IF n \in ToSet(restarts[i].waiters) THEN "queued" ELSE stage[n]
      /\ at' \in [Message -> Nat] /\ at'[m] = k
      /\ \A n \in Message : n # m => at'[n] = at[n]
  BY <1>d, <1>p9 DEF Sends
<1>n. ent' \in Seq(Entry) /\ Len(ent') = k
  BY <1>p7, <1>d DEF Sends
<1>v. /\ at' \in [Message -> 0..Len(ent')]
      /\ stopping' \in [e : 0..Len(ent'), run : MaybeRun]
      /\ \A x \in Message : at[x] # 0 => at'[x] # 0
  <2>3. stopping' \in [e : 0..k, run : MaybeRun]
    BY <1>a, <1>s, <1>t DEF Inv, Types
  <2>1. \A x \in Message : at'[x] \in 0..k
    BY <1>k, <1>s, <1>t, <1>y
  <2>2. \A x \in Message : at[x] # 0 => at'[x] # 0
    BY <1>k, <1>s
  <2> QED BY <1>k, <1>n, <2>1, <2>2, <2>3
<1>w. wire' = wire \cup Patch(m, "running")
  BY <1>d DEF Sends
<1>o. /\ \A y \in 1..Len(ent) :
           /\ ent'[y].wired = ent[y].wired /\ ent'[y].busy = ent[y].busy
           /\ ent'[y].cur = ent[y].cur /\ ent'[y].queue = ent[y].queue
           /\ y # old => ent'[y].live = ent[y].live /\ ent'[y].inbox = ent[y].inbox
           /\ y = old => ent'[y].live = FALSE /\ ent'[y].inbox = <<>>
      /\ Has(ent'[k], TRUE, TRUE, TRUE, RunOf(m),
             restarts[i].pending \o Tail(restarts[i].waiters), <<>>)
  <2>1. /\ \A y \in 1..Len(ent) : ent'[y] = s2[y]
        /\ Has(ent'[k], s2[k].live, s2[k].wired, TRUE, RunOf(m), s2[k].queue, s2[k].inbox)
    BY <1>d, <1>s, <1>p7 DEF Sends, Has
  <2>2. Has(ent'[k], TRUE, TRUE, TRUE, RunOf(m),
            restarts[i].pending \o Tail(restarts[i].waiters), <<>>)
    BY <2>1, <1>p5, <1>p7 DEF Has
  <2>3. \A y \in 1..Len(ent) : ent'[y] = s2[y]
    BY <2>1
  <2> QED BY ZenonT(40), <2>2, <2>3, <1>h
<1>f. /\ \A x \in Message : x # m => stage'[x] \in {stage[x], "queued"}
      /\ \A x \in Message : x \notin ToSet(restarts[i].waiters) => stage'[x] = stage[x]
      /\ \A x \in Message : x # m /\ stage'[x] = "starting" => stage[x] = "starting"
      /\ \A x \in Message : stage'[x] = "unwinding" => stage[x] = "unwinding"
      /\ stage'[m] = "starting" /\ at'[m] = k
  BY <1>k, <1>q
<1>l. \A n \in Message : \A y :
        AtChild(n, y)' => (n = m /\ y = k) \/ (n # m /\ y # k /\ AtChild(n, y))
  <2> SUFFICES ASSUME NEW n \in Message, NEW y, AtChild(n, y)'
               PROVE  (n = m /\ y = k) \/ (n # m /\ y # k /\ AtChild(n, y))
    OBVIOUS
  <2>1. CASE n = m
    BY <2>1, <1>f DEF AtChild
  <2>2. CASE n # m
    <3>1. AtChild(n, y)
      BY <2>2, <1>k, <1>f DEF AtChild
    <3> QED BY <2>2, <3>1, <1>y
  <2> QED BY <2>1, <2>2
<1>e. Orderly => \A y \in 1..Len(ent) : ~ent'[y].live /\ ent'[y].inbox = <<>>
  BY <1>i, <1>o, <1>h
<1>1. Types'
  <2>1. /\ entry' \in 0..Len(ent') /\ ent' \in Seq(Entry)
        /\ restarts' \in Seq(Restart) /\ spawning' \in 0..Len(restarts')
    BY <1>a, <1>b, <1>n, <1>s, <1>t
  <2>2. /\ runtime' \in {"claude", "hermes"} /\ refreshes' \in 0..MaxRefreshes
        /\ session' \in 0..(refreshes' + 1) /\ runs' \subseteq Message
        /\ server' \in [Message -> Statuses] /\ lost' \subseteq Message
    BY <1>a DEF Inv, Types
  <2>3. wire' \subseteq PatchSet 
    BY <1>w, <1>g DEF Inv, Types
  <2>4. stage' \in [Message -> Stages] /\ ctx' \in [run : MaybeRun, out : MaybeRun]
    BY <1>k, <1>j
  <2> QED BY <2>1, <2>2, <2>3, <2>4, <1>v DEF Types
<1>2. RefInv'
  <2>1. CurRef'
    BY <1>a, <1>j, <1>n, <1>o, <1>s DEF Inv, RefInv, CurRef, Has
  <2>2. WireRef'
    BY <1>t, <1>q, <1>a, <1>s, <1>i, <1>y, <1>g, <1>j, <1>n, <1>v, <1>w DEF Inv,
         RefInv, WireRef
  <2>3. RunRef'
    BY <1>a, <1>f, <1>t DEF Inv, RefInv, RunRef
  <2>4. AtRef'
    BY <1>a, <1>k, <1>s DEF Inv, RefInv, AtRef
  <2>5. FedRef'
    BY <1>n, <1>o, <1>s, <1>sn, <1>v DEF Inv, RefInv, FedRef, Has
  <2>6. OldRef'
    <3> SUFFICES ASSUME NEW y \in 1..Len(restarts')
                 PROVE  /\ restarts'[y].old \in 1..Len(ent')
                        /\ ~ent'[restarts'[y].old].wired
      BY DEF OldRef
    <3>1. restarts'[y].old \in 1..Len(ent) /\ ~ent[restarts'[y].old].wired
      BY <1>b, <1>t DEF Inv, RefInv, OldRef
    <3> QED BY <3>1, <1>n, <1>o, <1>s
  <2>7. EntryRef'
    BY <1>a, <1>n, <1>o DEF EntryRef, Has
  <2> QED BY <2>1, <2>2, <2>3, <2>4, <2>5, <2>6, <2>7 DEF RefInv
<1>3. MapInv'
  BY <1>q, <1>a, <1>n DEF Inv, MapInv
<1>4. StopInv'
  BY <1>t, <1>a, <1>o, <1>e DEF StopInv, Closed
<1>5. ChildInv'
  <2> SUFFICES ASSUME Orderly
               PROVE  OpenIsAwaited' /\ LiveIsHeld'
    BY <1>a DEF ChildInv, Orderly
  <2>0. OpenIsAwaited /\ LiveIsHeld
    BY DEF Inv, ChildInv
  <2>1. OpenIsAwaited'
    BY <1>b, <1>i, <2>0 DEF Inv, OpenIsAwaited
  <2>2. LiveIsHeld'
    BY <1>a, <1>b, <1>s, <1>y, <1>n, <1>o, <1>e DEF Inv, LiveIsHeld
  <2> QED BY <2>1, <2>2
<1>6. TurnInv'
  <2> SUFFICES ASSUME Orderly
               PROVE  OneInbox' /\ FedLives' /\ NextWaits' /\ OneNext' /\ IdleIsFree'
    BY <1>a DEF TurnInv, Orderly
  <2>0. OneInbox /\ FedLives /\ NextWaits /\ OneNext /\ IdleIsFree
    BY DEF Inv, TurnInv
  <2>1. OneInbox'
    BY <1>t, <1>q, <1>a, <1>b, <1>s, <1>sn, <1>h, <1>i, <1>y, <1>d, <1>g, <1>j,
         <1>k, <1>n, <1>v, <1>w, <1>o, <1>f, <1>l, <1>e, <2>0 DEF Inv, OneInbox,
         Same, Has
  <2>2. FedLives'
    BY <1>s, <1>n, <1>v, <1>o, <1>e DEF Inv, FedLives, Has
  <2>3. NextWaits'
    BY <1>s, <1>k, <1>n, <1>o, <1>f, <1>e, <2>0 DEF NextWaits, Has
  <2>4. OneNext'
    BY <1>t, <1>s, <1>i, <1>n, <1>l, <1>e DEF OneNext, Has
  <2>5. IdleIsFree'
    BY <1>a, <1>s, <1>v, <1>o DEF IdleIsFree, Has
  <2> QED BY <2>1, <2>2, <2>3, <2>4, <2>5
<1>7. FileInv'
  <2> SUFFICES ASSUME Orderly
               PROVE  OutIsRun' /\ FedIsRun' /\ NextIsRun'
    BY <1>a DEF FileInv, Orderly
  <2>0. OutIsRun /\ FedIsRun /\ NextIsRun
    BY DEF Inv, FileInv
  <2>1. OutIsRun'
    BY <1>t, <1>j, <2>0 DEF Inv, OutIsRun
  <2>2. FedIsRun'
    BY <1>s, <1>y, <1>j, <1>n, <1>v, <1>o, <1>e, <2>0 DEF FedIsRun, Has
  <2>3. NextIsRun'
    BY <1>t, <1>q, <1>b, <1>s, <1>sn, <1>d, <1>j, <1>k, <1>n, <1>v, <1>w, <1>o,
         <1>l, <1>e, <2>0 DEF Inv, NextIsRun, Has
  <2> QED BY <2>1, <2>2, <2>3
<1>8. OutputInv'
  BY <1>q, <1>a, <1>b, <1>s, <1>sn, <1>h, <1>i, <1>y, <1>g, <1>k, <1>w, <1>o, <1>f,
       <1>e DEF Inv, Orderly, OutputInv
<1>9. KeptInv'
  <2> SUFFICES ASSUME Orderly, NEW q \in runs'
               PROVE  Kept(q)'
    BY <1>a DEF KeptInv, Orderly
  <2>0. q \in Message /\ (q \in runs => Kept(q))
    BY <1>t, <1>a, <1>sn, <1>i, <1>g, <1>j, <1>k, <1>w, <1>f, <1>l, <1>e DEF Inv,
         KeptInv
  <2>9. CASE q \in ToSet(restarts[i].waiters)
    <3>1. CASE q = m
      BY <3>1, <1>a, <1>j, <1>n, <1>o, <1>s DEF Kept, IsTurn, Has
    <3>2. CASE q \in ToSet(Tail(restarts[i].waiters))
      BY <3>2, <1>a, <1>q, <1>o, <1>s DEF Kept, InQueue, Has
    <3> QED BY <2>9, <3>1, <3>2, <1>q
  <2>1. ASSUME InEnd(q) PROVE  Kept(q)'
    BY <2>1, <1>t, <1>a, <1>d, <1>n, <1>v, <1>l, <1>e DEF Kept, InEnd, Closed, Has
  <2>2. ASSUME AtStage(q) PROVE  Kept(q)'
    BY <2>2, <2>0, <2>9, <1>f DEF Kept, AtStage
  <2>3. ASSUME IsTurn(q) PROVE  Kept(q)'
    BY <2>3, <1>n, <1>o, <1>s DEF Kept, IsTurn
  <2>4. ASSUME InQueue(q) PROVE  Kept(q)'
    BY <2>4, <1>t, <1>a, <1>s, <1>i, <1>o, <1>e DEF InQueue
  <2>5. ASSUME InStop(q) PROVE  Kept(q)'
    BY <2>5, <1>a, <1>h, <1>i, <1>o DEF InStop
  <2>6. ASSUME WasTurn(q) PROVE  Kept(q)'
    <3>1. PICK j \in 1..Len(restarts) : ent[restarts[j].old].cur = q
      BY <2>6, <1>t DEF WasTurn
    <3>2. restarts'[j].old = restarts[j].old /\ restarts[j].old \in 1..Len(ent)
      BY <1>b, <3>1 DEF Inv, RefInv, OldRef
    <3>3. ent'[restarts[j].old].cur = q
      BY <3>1, <3>2, <1>o
    <3> QED BY <3>2, <3>3, <1>b DEF Kept, WasTurn
  <2>7. ASSUME IsCarried(q) PROVE  Kept(q)'
    <3>1. PICK j \in 1..Len(restarts) :
            \/ restarts[j].state # "done" /\ q \in ToSet(restarts[j].pending)
            \/ restarts[j].state = "open" /\ q \in ToSet(restarts[j].waiters)
      BY <2>7 DEF IsCarried
    <3>2. CASE j # i
      BY <3>1, <3>2, <1>b DEF Kept, IsCarried
    <3>3. ASSUME q \in ToSet(restarts[i].pending) PROVE  Kept(q)'
      <4>1. q \in ToSet(restarts[i].pending \o Tail(restarts[i].waiters))
        BY <3>3, <1>q
      <4> QED BY <4>1, <1>a, <1>o, <1>s DEF Kept, InQueue, Has
    <3> QED BY <3>1, <3>2, <3>3, <2>9
  <2>8. ASSUME OnWire(q) PROVE  Kept(q)'
    BY <2>8, <1>t, <1>w DEF Kept, OnWire
  <2> QED BY <2>0, <1>a, <2>1, <2>2, <2>3, <2>4, <2>5, <2>6, <2>7, <2>8 DEF Kept
<1> QED BY <1>1, <1>2, <1>3, <1>4, <1>5, <1>6, <1>7, <1>8, <1>9 DEF Inv

LEMMA AbandonRestartStep ==
  ASSUME Inv, NEW i \in DOMAIN restarts, AbandonRestart(i)
  PROVE  Inv'
<1> USE DEF vars, regVars, restartVars, turnVars, apiVars
<1>t. /\ ent \in Seq(Entry) /\ Len(ent) \in Nat /\ DOMAIN ent = 1..Len(ent)
      /\ restarts \in Seq(Restart) /\ Len(restarts) \in Nat
      /\ DOMAIN restarts = 1..Len(restarts) /\ runs \subseteq Message
      /\ \A y \in 1..Len(ent) : ent[y] \in Entry
      /\ \A y \in 1..Len(restarts) : restarts[y] \in Restart
      /\ entry \in 0..Len(ent) /\ spawning \in 0..Len(restarts)
      /\ stopping.e \in 0..Len(ent)
  BY DEF Inv, Types
<1>x. i \in 1..Len(restarts) /\ restarts[i] \in Restart
      /\ restarts[i].state = "open" /\ session # restarts[i].session
      /\ restarts[i].pending \in Seq(Message) /\ restarts[i].waiters \in Seq(Message)
      /\ restarts[i].old \in 1..Len(ent) /\ ~ent[restarts[i].old].wired
  BY <1>t DEF AbandonRestart, Restart, Inv, RefInv, OldRef
<1> DEFINE r == [restarts[i] EXCEPT !.state = "abandoned"]
           old == restarts[i].old
           qs == ToSet(restarts[i].pending) \cup ToSet(restarts[i].waiters)
<1>a. UNCHANGED <<regVars, apiVars, entry, at, ctx>> /\ spawning' = 0
  BY DEF AbandonRestart
<1>p3. r \in Restart /\ r.state = "abandoned" /\ r.old = old
       /\ r.pending = restarts[i].pending /\ r.waiters = restarts[i].waiters
  BY <1>x DEF Restart
<1>p4. restarts' = [restarts EXCEPT ![i] = r]
  BY DEF AbandonRestart
<1> HIDE DEF r
<1>b. /\ restarts' \in Seq(Restart) /\ Len(restarts') = Len(restarts)
      /\ restarts'[i].state = "abandoned" /\ i \in 1..Len(restarts)
      /\ restarts'[i].pending = restarts[i].pending
      /\ \A y \in 1..Len(restarts) : y # i => restarts'[y] = restarts[y]
      /\ \A y \in 1..Len(restarts) : restarts'[y].old = restarts[y].old
  BY <1>t, <1>p3, <1>p4, Put
<1>p5. ent' = Downed(ent, old)
  BY DEF AbandonRestart, Shut, Downed
<1>p6. /\ Same(ent, ent', old)
       /\ Has(ent'[old], FALSE, ent[old].wired, ent[old].busy, ent[old].cur,
              ent[old].queue, <<>>)
  BY <1>t, <1>x, <1>p5, DownedFacts
<1>n. ent' \in Seq(Entry) /\ Len(ent') = Len(ent) /\ old \in 1..Len(ent)
      /\ restarts[i].old = old
  BY <1>x, <1>p6 DEF Same
<1>o. \A y \in 1..Len(ent) :
        /\ ent'[y].wired = ent[y].wired /\ ent'[y].busy = ent[y].busy
        /\ ent'[y].cur = ent[y].cur /\ ent'[y].queue = ent[y].queue
        /\ y # old => ent'[y].live = ent[y].live /\ ent'[y].inbox = ent[y].inbox
        /\ y = old => ent'[y].live = FALSE /\ ent'[y].inbox = <<>>
  BY <1>x, <1>p6 DEF Same, Has
<1>s. Len(<<>>) <= 1 /\ \A n : n \notin ToSet(<<>>)
  BY SetOfNone
<1>p7. stage' = Mark(qs, "over")
  BY DEF AbandonRestart
<1>k. /\ stage' \in [Message -> Stages]
      /\ \A n \in Message : n \notin qs => stage'[n] = stage[n]
      /\ \A n \in Message : stage'[n] = stage[n] \/ stage'[n] = "over"
  BY <1>p7 DEF Mark, Stages, Inv, Types
<1>w. /\ wire' = wire \cup FailQueue(restarts[i].waiters)
      /\ FailQueue(restarts[i].waiters) \subseteq PatchSet
      /\ \A p \in FailQueue(restarts[i].waiters) : p.run \in runs /\ p.status = "failed"
      /\ \A m \in ToSet(restarts[i].waiters) \cap runs :
           \E p \in FailQueue(restarts[i].waiters) : p.run = m /\ p.status = "failed"
  BY <1>x, <1>t, QueueFails DEF AbandonRestart
<1> HIDE DEF old
<1>l. \A n \in Message : \A y : AtChild(n, y)' => AtChild(n, y)
  BY <1>a, <1>k DEF AtChild
<1>1. Types'
  <2>1. /\ entry' \in 0..Len(ent') /\ ent' \in Seq(Entry)
        /\ restarts' \in Seq(Restart) /\ spawning' \in 0..Len(restarts')
    BY <1>a, <1>b, <1>n, <1>t
  <2>2. /\ runtime' \in {"claude", "hermes"} /\ refreshes' \in 0..MaxRefreshes
        /\ session' \in 0..(refreshes' + 1) /\ runs' \subseteq Message
        /\ server' \in [Message -> Statuses] /\ lost' \subseteq Message
        /\ ctx' \in [run : MaybeRun, out : MaybeRun]
    BY <1>a DEF Inv, Types
  <2>3. /\ stopping' \in [e : 0..Len(ent'), run : MaybeRun]
        /\ at' \in [Message -> 0..Len(ent')]
    BY <1>a, <1>n DEF Inv, Types
  <2>4. wire' \subseteq PatchSet
    BY <1>w DEF Inv, Types
  <2> QED BY <1>k, <2>1, <2>2, <2>3, <2>4 DEF Types
<1>2. RefInv'
  <2>1. CurRef'
    BY <1>a, <1>n, <1>o DEF Inv, RefInv, CurRef
  <2>2. WireRef'
    BY <1>x, <1>a, <1>b, <1>k, <1>w, <1>l DEF Inv, RefInv, WireRef
  <2>3. RunRef'
    BY <1>a, <1>t, <1>k DEF Inv, RefInv, RunRef
  <2>4. AtRef'
    BY <1>a, <1>k DEF Inv, RefInv, AtRef
  <2>5. FedRef'
    BY <1>a, <1>b, <1>n, <1>o, <1>s, <1>k DEF Inv, RefInv, FedRef
  <2>6. OldRef'
    <3> SUFFICES ASSUME NEW y \in 1..Len(restarts')
                 PROVE  /\ restarts'[y].old \in 1..Len(ent')
                        /\ ~ent'[restarts'[y].old].wired
      BY DEF OldRef
    <3>1. restarts'[y].old \in 1..Len(ent) /\ ~ent[restarts'[y].old].wired
      BY <1>b, <1>t DEF Inv, RefInv, OldRef
    <3> QED BY <3>1, <1>n, <1>o, <1>s
  <2>7. EntryRef'
    BY <1>t, <1>a, <1>o DEF Inv, RefInv, EntryRef
  <2> QED BY <2>1, <2>2, <2>3, <2>4, <2>5, <2>6, <2>7 DEF RefInv
<1>3. MapInv'
  BY <1>t, <1>a, <1>o DEF Inv, MapInv
<1>4. StopInv'
  BY <1>t, <1>a, <1>o, <1>w DEF Inv, StopInv, Awaited, Closed
<1>5. ChildInv'
  <2> SUFFICES ASSUME Orderly
               PROVE  OpenIsAwaited' /\ LiveIsHeld'
    BY <1>a DEF ChildInv, Orderly
  <2>0. OpenIsAwaited /\ LiveIsHeld
    BY DEF Inv, ChildInv
  <2>1. OpenIsAwaited'
    BY <1>a, <1>b, <1>x, <2>0 DEF OpenIsAwaited
  <2>2. LiveIsHeld'
    <3> SUFFICES ASSUME NEW y \in 1..Len(ent'), ent'[y].live
                 PROVE  \/ y = entry' \/ y = stopping'.e
                        \/ \E j \in 1..Len(restarts') :
                             restarts'[j].state = "open" /\ restarts'[j].old = y
      BY DEF LiveIsHeld
    <3>1. y \in 1..Len(ent) /\ ent[y].live /\ y # old
      BY <1>n, <1>o
    <3>2. CASE y = entry \/ y = stopping.e
      BY <3>2, <1>a
    <3>3. ASSUME NEW j \in 1..Len(restarts), restarts[j].state = "open", restarts[j].old = y
          PROVE  restarts'[j] = restarts[j] /\ j \in 1..Len(restarts')
      BY <3>1, <3>3, <1>b, <1>n
    <3> QED BY <2>0, <3>1, <3>2, <3>3 DEF LiveIsHeld
  <2> QED BY <2>1, <2>2
<1>6. TurnInv'
  <2> SUFFICES ASSUME Orderly
               PROVE  OneInbox' /\ FedLives' /\ NextWaits' /\ OneNext' /\ IdleIsFree'
    BY <1>a DEF TurnInv, Orderly
  <2>0. OneInbox /\ FedLives /\ NextWaits /\ OneNext /\ IdleIsFree
    BY DEF Inv, TurnInv
  <2>1. OneInbox'
    BY <1>n, <1>o, <1>l, <2>0 DEF OneInbox
  <2>2. FedLives'
    BY <1>n, <1>o, <2>0 DEF Inv, FedLives
  <2>3. NextWaits'
    BY <1>n, <1>o, <1>l, <2>0 DEF Inv, NextWaits
  <2>4. OneNext'
    BY <1>x, <1>n, <1>o, <1>l, <2>0 DEF OneNext, Has
  <2>5. IdleIsFree'
    BY <1>t, <1>x, <1>a, <1>o, <1>l, <2>0 DEF IdleIsFree
  <2> QED BY <2>1, <2>2, <2>3, <2>4, <2>5
<1>7. FileInv'
  <2> SUFFICES ASSUME Orderly
               PROVE  OutIsRun' /\ FedIsRun' /\ NextIsRun'
    BY <1>a DEF FileInv, Orderly
  <2>0. OutIsRun /\ FedIsRun /\ NextIsRun
    BY DEF Inv, FileInv
  <2>1. OutIsRun'
    BY <1>t, <1>a, <2>0 DEF Inv, OutIsRun
  <2>2. FedIsRun'
    BY <1>a, <1>n, <1>o, <2>0 DEF FedIsRun
  <2>3. NextIsRun'
    BY <1>a, <1>b, <1>n, <1>o, <1>l, <2>0 DEF NextIsRun
  <2> QED BY <2>1, <2>2, <2>3
<1>8. OutputInv'
  BY <1>x, <1>a, <1>n, <1>s, <1>w DEF Inv, Orderly, OutputInv, Has
<1>9. KeptInv'
  <2> SUFFICES ASSUME Orderly, NEW q \in runs'
               PROVE  Kept(q)'
    BY <1>a DEF KeptInv, Orderly
  <2>0. q \in Message /\ (q \in runs => Kept(q))
    BY <1>t, <1>a, <1>o DEF Inv, KeptInv
  <2>9. CASE q \in qs
    <3>1. CASE q \in ToSet(restarts[i].pending)
      BY <3>1, <1>b DEF Kept, IsCarried
    <3>2. CASE q \in ToSet(restarts[i].waiters)
      BY <3>2, <1>a, <1>w DEF Kept, OnWire
    <3> QED BY <2>9, <3>1, <3>2
  <2>1. ASSUME InEnd(q) PROVE  Kept(q)'
    BY <2>1, <1>a, <1>b, <1>s, <1>l DEF Inv, Kept, InEnd, Closed
  <2>2. ASSUME AtStage(q) PROVE  Kept(q)'
    BY <2>2, <2>0, <2>9, <1>k DEF Kept, AtStage
  <2>3. ASSUME IsTurn(q) PROVE  Kept(q)'
    BY <2>3, <1>n, <1>o DEF Kept, IsTurn
  <2>4. ASSUME InQueue(q) PROVE  Kept(q)'
    BY <2>4, <1>t, <1>a, <1>o DEF Kept, InQueue
  <2>5. ASSUME InStop(q) PROVE  Kept(q)'
    BY <2>5, <1>t, <1>a, <1>n, <1>o, <1>w DEF Kept, InStop
  <2>6. ASSUME WasTurn(q) PROVE  Kept(q)'
    <3>1. PICK j \in 1..Len(restarts) : ent[restarts[j].old].cur = q
      BY <2>6, <1>t DEF WasTurn
    <3>2. restarts'[j].old = restarts[j].old /\ restarts[j].old \in 1..Len(ent)
      BY <1>b, <3>1 DEF Inv, RefInv, OldRef
    <3>3. ent'[restarts[j].old].cur = q
      BY <3>1, <3>2, <1>o
    <3> QED BY <3>2, <3>3, <1>b DEF Kept, WasTurn
  <2>7. ASSUME IsCarried(q) PROVE  Kept(q)'
    <3>1. PICK j \in 1..Len(restarts) :
            \/ restarts[j].state # "done" /\ q \in ToSet(restarts[j].pending)
            \/ restarts[j].state = "open" /\ q \in ToSet(restarts[j].waiters)
      BY <2>7 DEF IsCarried
    <3>2. CASE j = i
      BY <2>9, <3>1, <3>2
    <3>3. CASE j # i
      BY <3>1, <3>3, <1>b DEF Kept, IsCarried
    <3> QED BY <3>2, <3>3
  <2>8. ASSUME OnWire(q) PROVE  Kept(q)'
    BY <2>8, <1>t, <1>w DEF Kept, OnWire
  <2> QED BY <2>0, <1>a, <2>1, <2>2, <2>3, <2>4, <2>5, <2>6, <2>7, <2>8 DEF Kept
<1> QED BY <1>1, <1>2, <1>3, <1>4, <1>5, <1>6, <1>7, <1>8, <1>9 DEF Inv

LEMMA RefreshKeepsStep ==
  ASSUME Inv, RefreshKeeps
  PROVE  Inv'
<1> USE DEF vars, regVars, restartVars, turnVars, apiVars
<1>t. /\ ent \in Seq(Entry) /\ Len(ent) \in Nat /\ DOMAIN ent = 1..Len(ent)
      /\ restarts \in Seq(Restart) /\ Len(restarts) \in Nat
      /\ DOMAIN restarts = 1..Len(restarts) /\ runs \subseteq Message
      /\ \A y \in 1..Len(ent) : ent[y] \in Entry
      /\ \A y \in 1..Len(restarts) : restarts[y] \in Restart
      /\ entry \in 0..Len(ent) /\ spawning \in 0..Len(restarts)
      /\ stopping.e \in 0..Len(ent)
  BY DEF Inv, Types
<1>a. UNCHANGED <<restartVars, turnVars, apiVars, runtime, stopping, entry, ent, wire>>
      /\ stopping = NoStop /\ stopping.e = 0
  BY DEF RefreshKeeps, NoStop
<1>b. refreshes' \in 0..MaxRefreshes /\ session' \in 0..(refreshes' + 1) /\ session' # 0
  BY DEF RefreshKeeps, Inv, Types
<1>c. Orderly => session # 0 \/ \A y \in 1..Len(restarts) : restarts[y].state # "open"
  BY <1>t DEF RefreshKeeps, Orderly
<1>l. \A n \in Message : \A y : AtChild(n, y)' <=> AtChild(n, y)
  BY <1>a DEF AtChild
<1>1. Types'
  BY <1>a, <1>b DEF Inv, Types, PatchSet, Statuses, Same
<1>2. RefInv'
  <2>1. CurRef'
    BY <1>t, <1>a DEF Inv, RefInv, CurRef
  <2>2. WireRef'
    BY <1>t, <1>a DEF Inv, RefInv, WireRef
  <2>3. RunRef'
    BY <1>a DEF Inv, RefInv, RunRef, Has
  <2>4. AtRef'
    BY <1>t, <1>a DEF Inv, RefInv, AtRef
  <2>5. FedRef'
    BY <1>t, <1>a DEF Inv, RefInv, FedRef
  <2>6. OldRef'
    BY <1>a, <1>c DEF Inv, RefInv, OldRef
  <2>7. EntryRef'
    BY <1>t, <1>a DEF Inv, RefInv, EntryRef
  <2> QED BY <2>1, <2>2, <2>3, <2>4, <2>5, <2>6, <2>7 DEF RefInv
<1>3. MapInv'
  BY <1>a, <1>b DEF Inv, EntryRef, MapInv
<1>4. StopInv'
  BY <1>a, <1>b, <1>c DEF StopInv, Awaited
<1>5. ChildInv'
  <2> SUFFICES ASSUME Orderly
               PROVE  OpenIsAwaited' /\ LiveIsHeld'
    BY <1>a DEF ChildInv, Orderly
  <2>0. OpenIsAwaited /\ LiveIsHeld
    BY DEF Inv, ChildInv
  <2>1. OpenIsAwaited'
    BY <1>a, <1>b, <1>c, <2>0 DEF OpenIsAwaited
  <2>2. LiveIsHeld'
    BY <1>t, <1>a, <1>c, <2>0 DEF LiveIsHeld
  <2> QED BY <2>1, <2>2
<1>6. TurnInv'
  <2> SUFFICES ASSUME Orderly
               PROVE  OneInbox' /\ FedLives' /\ NextWaits' /\ OneNext' /\ IdleIsFree'
    BY <1>a DEF TurnInv, Orderly
  <2>0. OneInbox /\ FedLives /\ NextWaits /\ OneNext /\ IdleIsFree
    BY DEF Inv, TurnInv
  <2>1. OneInbox'
    BY <1>t, <1>a, <2>0 DEF Inv, OneInbox
  <2>2. FedLives'
    BY <1>t, <1>a, <2>0 DEF Inv, FedLives
  <2>3. NextWaits'
    BY <1>a, <1>l, <2>0 DEF Inv, NextWaits
  <2>4. OneNext'
    BY <1>a, <1>l, <2>0 DEF Inv, OneNext
  <2>5. IdleIsFree'
    BY <1>t, <1>a, <1>l, <2>0 DEF IdleIsFree
  <2> QED BY <2>1, <2>2, <2>3, <2>4, <2>5
<1>7. FileInv'
  <2> SUFFICES ASSUME Orderly
               PROVE  OutIsRun' /\ FedIsRun' /\ NextIsRun'
    BY <1>a DEF FileInv, Orderly
  <2>0. OutIsRun /\ FedIsRun /\ NextIsRun
    BY DEF Inv, FileInv
  <2>1. OutIsRun'
    BY <1>a, <1>l, <2>0 DEF Inv, OutIsRun
  <2>2. FedIsRun'
    BY <1>t, <1>a, <2>0 DEF Inv, FedIsRun
  <2>3. NextIsRun'
    BY <1>a, <1>c, <1>l, <2>0 DEF NextIsRun
  <2> QED BY <2>1, <2>2, <2>3
<1>8. OutputInv'
  BY <1>t, <1>a DEF Inv, Orderly, OutputInv
<1>9. KeptInv'
  <2> SUFFICES ASSUME Orderly, NEW q \in runs'
               PROVE  Kept(q)'
    BY <1>a DEF KeptInv, Orderly
  <2>0. q \in Message /\ (q \in runs => Kept(q))
    BY <1>t, <1>a, <1>c DEF Inv, KeptInv
  <2>1. ASSUME InEnd(q) PROVE  Kept(q)'
    BY <2>1, <1>a, <1>l DEF Kept, InEnd, Closed
  <2>2. ASSUME AtStage(q) PROVE  Kept(q)'
    BY <2>2, <1>t, <1>a DEF Kept, AtStage
  <2>3. ASSUME IsTurn(q) PROVE  Kept(q)'
    BY <2>3, <2>0, <1>a DEF Kept, IsTurn
  <2>4. ASSUME InQueue(q) PROVE  Kept(q)'
    BY <2>4, <2>0, <1>a DEF Kept, InQueue
  <2>5. ASSUME InStop(q) PROVE  Kept(q)'
    BY <2>5, <1>t, <1>a DEF InStop
  <2>6. ASSUME WasTurn(q) PROVE  Kept(q)'
    BY <2>6, <2>0, <1>a DEF Kept, WasTurn
  <2>7. ASSUME IsCarried(q) PROVE  Kept(q)'
    BY <2>7, <1>t, <1>a DEF Kept, IsCarried
  <2>8. ASSUME OnWire(q) PROVE  Kept(q)'
    BY <2>8, <1>t, <1>a DEF Kept, OnWire
  <2> QED BY <2>0, <1>a, <2>1, <2>2, <2>3, <2>4, <2>5, <2>6, <2>7, <2>8 DEF Kept
<1> QED BY <1>1, <1>2, <1>3, <1>4, <1>5, <1>6, <1>7, <1>8, <1>9 DEF Inv

LEMMA RefreshRemovesStep ==
  ASSUME Inv, RefreshRemoves
  PROVE  Inv'
<1> USE DEF vars, regVars, restartVars, turnVars, apiVars
<1>t. /\ ent \in Seq(Entry) /\ Len(ent) \in Nat /\ DOMAIN ent = 1..Len(ent)
      /\ restarts \in Seq(Restart) /\ Len(restarts) \in Nat
      /\ DOMAIN restarts = 1..Len(restarts) /\ runs \subseteq Message
      /\ \A y \in 1..Len(ent) : ent[y] \in Entry
      /\ \A y \in 1..Len(restarts) : restarts[y] \in Restart
      /\ entry \in 0..Len(ent) /\ spawning \in 0..Len(restarts)
      /\ stopping.e \in 0..Len(ent)
  BY DEF Inv, Types
<1>p1. stopping = NoStop /\ stopping.e = 0 /\ session # 0
  BY DEF RefreshRemoves, NoStop
<1> DEFINE run == IF entry = 0 THEN None ELSE ent[entry].cur
<1>b. /\ refreshes' \in 0..MaxRefreshes /\ session' = 0 /\ session' \in 0..(refreshes' + 1)
      /\ entry' = 0 /\ spawning' = 0 /\ stopping.e = 0
  BY <1>p1 DEF RefreshRemoves, DropEntry, Inv, Types
<1>a. UNCHANGED <<turnVars, apiVars, ent, restarts, runtime>>
  BY DEF RefreshRemoves
<1>c. run \in runs \cup {None} /\ run \in MaybeRun /\ (entry = 0 => run = None)
      /\ (entry # 0 => run = ent[entry].cur /\ ent[entry].wired)
  BY <1>t DEF Inv, RefInv, CurRef, EntryRef, MaybeRun
<1>p2. StopEntry(run)
  BY DEF RefreshRemoves
<1> HIDE DEF run
<1>d. /\ stopping' = [e |-> entry, run |-> run] /\ stopping'.e = entry
      /\ stopping'.run = run /\ stopping' \in [e : 0..Len(ent), run : MaybeRun]
  BY <1>p2, <1>c, <1>t DEF StopEntry
<1>w. /\ wire \subseteq wire'
      /\ \A p \in wire' : \/ p \in wire
                          \/ p \in PatchSet /\ p.run \in runs /\ p.status = "failed"
      /\ run # None => \E p \in wire' : p.run = run /\ p.status = "failed"
  <2>1. CASE run = None
    BY <2>1, <1>p2 DEF StopEntry
  <2>2. CASE run # None
    <3>1. /\ Patch(run, "failed") \subseteq PatchSet
          /\ \A p \in Patch(run, "failed") : p.run \in runs /\ p.status = "failed"
          /\ \E p \in Patch(run, "failed") : p.run = run /\ p.status = "failed"
      BY <1>c, <1>t, <2>2, PatchFacts
    <3>2. wire' = wire \cup Patch(run, "failed")
      BY <2>2, <1>p2 DEF StopEntry
    <3> QED BY <3>1, <3>2
  <2> QED BY <2>1, <2>2
<1>l. \A n \in Message : \A y : AtChild(n, y)' <=> AtChild(n, y)
  BY <1>a DEF AtChild
<1>1. Types'
  <2>1. /\ refreshes' \in 0..MaxRefreshes /\ session' \in 0..(refreshes' + 1)
        /\ entry' \in 0..Len(ent) /\ spawning' \in 0..Len(restarts)
    <3>1. 0 \in 0..Len(ent) /\ 0 \in 0..Len(restarts)
      BY <1>t
    <3> QED BY <3>1, <1>b
  <2>2. wire' \subseteq PatchSet
    BY <1>w DEF Inv, Types
  <2> QED BY <1>t, <1>a, <1>d, <2>1, <2>2 DEF Inv, Types
<1>2. RefInv'
  <2>1. CurRef'
    BY <1>a, <1>w DEF Inv, RefInv, CurRef
  <2>2. WireRef'
    BY <1>a, <1>d, <1>w DEF Inv, RefInv, WireRef
  <2>3. RunRef'
    BY <1>a, <1>w DEF Inv, RefInv, RunRef
  <2>4. AtRef'
    BY <1>t, <1>a DEF Inv, RefInv, AtRef
  <2>5. FedRef'
    BY <1>a, <1>c DEF Inv, RefInv, FedRef
  <2>6. OldRef'
    BY <1>a, <1>c DEF Inv, RefInv, OldRef
  <2>7. EntryRef'
    BY <1>b, <1>a DEF Inv, RefInv, EntryRef
  <2> QED BY <2>1, <2>2, <2>3, <2>4, <2>5, <2>6, <2>7 DEF RefInv
<1>3. MapInv'
  BY <1>b, <1>a, <1>c, <1>d DEF MapInv, NoStop
<1>4. StopInv'
  BY <1>a, <1>c, <1>d, <1>w DEF StopInv, Awaited
<1>5. ChildInv'
  <2> SUFFICES ASSUME Orderly
               PROVE  OpenIsAwaited' /\ LiveIsHeld'
    BY <1>a DEF ChildInv, Orderly
  <2>0. OpenIsAwaited /\ LiveIsHeld
    BY DEF Inv, ChildInv
  <2>1. OpenIsAwaited'
    BY <1>b, <1>a DEF OpenIsAwaited
  <2>2. LiveIsHeld'
    BY <1>b, <1>a, <1>d, <2>0 DEF LiveIsHeld
  <2> QED BY <2>1, <2>2
<1>6. TurnInv'
  <2> SUFFICES ASSUME Orderly
               PROVE  OneInbox' /\ FedLives' /\ NextWaits' /\ OneNext' /\ IdleIsFree'
    BY <1>a DEF TurnInv, Orderly
  <2>0. OneInbox /\ FedLives /\ NextWaits /\ OneNext /\ IdleIsFree
    BY DEF Inv, TurnInv
  <2>1. OneInbox'
    BY <1>t, <1>a, <1>d, <2>0 DEF OneInbox
  <2>2. FedLives'
    BY <1>t, <1>a, <1>c, <2>0 DEF FedLives
  <2>3. NextWaits'
    BY <1>a, <1>c, <1>l, <2>0 DEF NextWaits
  <2>4. OneNext'
    BY <1>a, <1>d, <1>l, <2>0 DEF OneNext
  <2>5. IdleIsFree'
    BY <1>b, <1>c, <2>0 DEF Inv, IdleIsFree
  <2> QED BY <2>1, <2>2, <2>3, <2>4, <2>5
<1>7. FileInv'
  <2> SUFFICES ASSUME Orderly
               PROVE  OutIsRun' /\ FedIsRun' /\ NextIsRun'
    BY <1>a DEF FileInv, Orderly
  <2>0. OutIsRun /\ FedIsRun /\ NextIsRun
    BY DEF Inv, FileInv
  <2>1. OutIsRun'
    BY <1>a, <1>l, <2>0 DEF Inv, OutIsRun
  <2>2. FedIsRun'
    BY <1>t, <1>a, <1>d, <2>0 DEF FedIsRun
  <2>3. NextIsRun'
    BY <1>a, <1>d, <1>l, <2>0 DEF NextIsRun
  <2> QED BY <2>1, <2>2, <2>3
<1>8. OutputInv'
  BY <1>a, <1>w DEF Inv, Orderly, OutputInv
<1>9. KeptInv'
  <2> SUFFICES ASSUME Orderly, NEW q \in runs'
               PROVE  Kept(q)'
    BY <1>a DEF KeptInv, Orderly
  <2>0. q \in Message /\ (q \in runs => Kept(q))
    BY <1>t, <1>a, <1>w DEF Inv, KeptInv
  <2>1. ASSUME InEnd(q) PROVE  Kept(q)'
    BY <2>1, <2>0, <1>a, <1>l DEF Kept, InEnd, Closed
  <2>2. ASSUME AtStage(q) PROVE  Kept(q)'
    BY <2>2, <2>0, <1>t, <1>a DEF Kept, AtStage
  <2>3. ASSUME IsTurn(q) PROVE  Kept(q)'
    BY <2>3, <1>a, <1>d DEF Kept, IsTurn
  <2>4. ASSUME InQueue(q) PROVE  Kept(q)'
    BY <2>4, <1>a, <1>d DEF Kept, InQueue, InStop
  <2>5. ASSUME InStop(q) PROVE  Kept(q)'
    BY <2>5, <2>0, <1>b DEF Kept, InStop
  <2>6. ASSUME WasTurn(q) PROVE  Kept(q)'
    BY <2>6, <2>0, <1>a DEF Kept, WasTurn
  <2>7. ASSUME IsCarried(q) PROVE  Kept(q)'
    BY <2>7, <1>t, <1>a DEF Kept, IsCarried
  <2>8. ASSUME OnWire(q) PROVE  Kept(q)'
    BY <2>8, <1>w DEF Inv, Kept, OnWire
  <2> QED BY <2>0, <1>a, <2>1, <2>2, <2>3, <2>4, <2>5, <2>6, <2>7, <2>8 DEF Kept
<1> QED BY <1>1, <1>2, <1>3, <1>4, <1>5, <1>6, <1>7, <1>8, <1>9 DEF Inv

LEMMA FinishStopStep ==
  ASSUME Inv, FinishStop
  PROVE  Inv'
<1> USE DEF vars, regVars, restartVars, turnVars, apiVars
<1>t. /\ ent \in Seq(Entry) /\ Len(ent) \in Nat /\ DOMAIN ent = 1..Len(ent)
      /\ restarts \in Seq(Restart) /\ Len(restarts) \in Nat
      /\ DOMAIN restarts = 1..Len(restarts) /\ runs \subseteq Message
      /\ \A y \in 1..Len(ent) : ent[y] \in Entry
      /\ \A y \in 1..Len(restarts) : restarts[y] \in Restart
      /\ entry \in 0..Len(ent) /\ spawning \in 0..Len(restarts)
      /\ stopping.e \in 0..Len(ent)
  BY DEF Inv, Types
<1> DEFINE e == stopping.e
           ib == IF runtime = "hermes" THEN ent[e].inbox ELSE <<>>
<1>x. e \in 1..Len(ent) /\ ent[e].wired /\ session = 0 /\ entry = 0
      /\ stopping.run \in runs \cup {None} /\ ent[e].cur \in {None, stopping.run}
      /\ ~Awaited(stopping.run, "failed")
  BY <1>t DEF FinishStop, Inv, MapInv, StopInv
<1>p1. ent[e].queue \in Seq(Message) /\ ib \in Seq(Message)
  <2>1. ent[e].queue \in Seq(Message) /\ ent[e].inbox \in Seq(Message)
    BY <1>x, <1>t DEF Entry
  <2> QED BY <2>1, NoneIsSeq
<1>p2. ent' = Disposed(ent, e, ib)
  BY DEF FinishStop, Disposed
<1>i. ib = ent[e].inbox \/ ib = <<>>
  OBVIOUS
<1>j. Orderly => ib = <<>>
  BY DEF Orderly
<1> HIDE DEF ib
<1>p3. /\ Same(ent, ent', e)
       /\ Has(ent'[e], FALSE, FALSE, ent[e].busy, None, <<>>, ib)
  BY <1>t, <1>x, <1>p1, <1>p2, DisposedFacts
<1>n. ent' \in Seq(Entry) /\ Len(ent') = Len(ent)
  BY <1>p3 DEF Same
<1>o. /\ \A y \in 1..Len(ent) : y # e => ent'[y] = ent[y]
      /\ ~ent'[e].live /\ ~ent'[e].wired /\ ent'[e].cur = None /\ ent'[e].inbox = ib
      /\ \A y \in 1..Len(ent) : ent'[y].cur = ent[y].cur \/ ent'[y].cur = None
      /\ \A y \in 1..Len(ent) : ent'[y].wired => ent[y].wired /\ y # e
      /\ \A y \in 1..Len(ent) : ent'[y].live => ent[y].live /\ y # e
  BY <1>x, <1>p3 DEF Same, Has
<1>y. \A y \in 1..Len(ent) : ent'[y].inbox = ent[y].inbox \/ ent'[y].inbox = <<>>
  BY <1>i, <1>o, <1>x
<1>s. Len(<<>>) <= 1 /\ \A n : n \notin ToSet(<<>>)
  BY SetOfNone
<1>p4. stage' = Mark(ToSet(ent[e].queue), "over")
  BY DEF FinishStop
<1>k. /\ stage' \in [Message -> Stages]
      /\ \A n \in Message : n \notin ToSet(ent[e].queue) => stage'[n] = stage[n]
      /\ \A n \in Message : stage'[n] # "over" => stage'[n] = stage[n]
  BY <1>p4 DEF Mark, Stages, Inv, Types
<1>a. UNCHANGED <<restartVars, apiVars, runtime, session, refreshes, entry, at, ctx>>
  BY DEF FinishStop
<1>b. stopping' = NoStop /\ stopping'.e = 0 /\ stopping' \in [e : 0..Len(ent), run : MaybeRun]
  BY <1>t DEF FinishStop, NoStop, MaybeRun
<1>w. /\ wire' = wire \cup FailQueue(ent[e].queue)
      /\ FailQueue(ent[e].queue) \subseteq PatchSet
      /\ \A p \in FailQueue(ent[e].queue) : p.run \in runs /\ p.status = "failed"
      /\ \A m \in ToSet(ent[e].queue) \cap runs :
           \E p \in FailQueue(ent[e].queue) : p.run = m /\ p.status = "failed"
  BY <1>p1, <1>t, QueueFails DEF FinishStop
<1>l. \A n \in Message : \A y : AtChild(n, y)' => AtChild(n, y)
  BY <1>a, <1>k DEF AtChild
<1>1. Types'
  BY <1>t, <1>x, <1>j, <1>n, <1>o, <1>s, <1>k, <1>a, <1>b, <1>w, <1>l DEF Inv,
       Types, PatchSet, Same, Has
<1>2. RefInv'
  <2>1. CurRef'
    BY <1>t, <1>i, <1>n, <1>o, <1>y, <1>s, <1>a, <1>w DEF Inv, RefInv, CurRef, Has
  <2>2. WireRef'
    BY <1>x, <1>j, <1>n, <1>o, <1>s, <1>a, <1>w DEF Inv, RefInv, WireRef, Has
  <2>3. RunRef'
    BY <1>t, <1>x, <1>j, <1>n, <1>k, <1>a, <1>b, <1>l DEF Inv, RefInv, RunRef,
         Stages, Has
  <2>4. AtRef'
    BY <1>k, <1>a DEF Inv, RefInv, AtRef
  <2>5. FedRef'
    BY <1>t, <1>n, <1>y, <1>s, <1>a, <1>b, <1>l DEF Inv, RefInv, FedRef
  <2>6. OldRef'
    BY <1>t, <1>n, <1>o, <1>s, <1>k, <1>a, <1>l DEF Inv, RefInv, OldRef, Has
  <2>7. EntryRef'
    BY <1>t, <1>x, <1>i, <1>a, <1>w DEF EntryRef
  <2> QED BY <2>1, <2>2, <2>3, <2>4, <2>5, <2>6, <2>7 DEF RefInv
<1>3. MapInv'
  BY <1>x, <1>y, <1>a, <1>b, <1>w DEF Inv, MapInv
<1>4. StopInv'
  BY <1>i, <1>a, <1>b DEF Inv, StopInv
<1>5. ChildInv'
  <2> SUFFICES ASSUME Orderly
               PROVE  OpenIsAwaited' /\ LiveIsHeld'
    BY <1>a DEF ChildInv, Orderly
  <2>0. OpenIsAwaited /\ LiveIsHeld
    BY DEF Inv, ChildInv
  <2>1. OpenIsAwaited'
    BY <1>t, <1>a, <2>0 DEF Inv, OpenIsAwaited
  <2>2. LiveIsHeld'
    BY <1>n, <1>o, <1>a, <1>w, <2>0 DEF LiveIsHeld
  <2> QED BY <2>1, <2>2
<1>6. TurnInv'
  <2> SUFFICES ASSUME Orderly
               PROVE  OneInbox' /\ FedLives' /\ NextWaits' /\ OneNext' /\ IdleIsFree'
    BY <1>a DEF TurnInv, Orderly
  <2>0. OneInbox /\ FedLives /\ NextWaits /\ OneNext /\ IdleIsFree
    BY DEF Inv, TurnInv
  <2>1. OneInbox'
    BY <1>i, <1>n, <1>o, <1>w, <2>0 DEF OneInbox
  <2>2. FedLives'
    BY <1>x, <1>j, <1>n, <1>o, <1>k, <1>a, <1>b, <1>l, <2>0 DEF Inv, FedLives
  <2>3. NextWaits'
    BY <1>j, <1>n, <1>o, <1>w, <1>l, <2>0 DEF NextWaits, Has
  <2>4. OneNext'
    BY <1>t, <1>x, <1>i, <1>n, <1>o, <1>k, <1>b, <1>l, <2>0 DEF OneNext, Has
  <2>5. IdleIsFree'
    BY <1>x, <1>o, <1>y, <1>a DEF IdleIsFree
  <2> QED BY <2>1, <2>2, <2>3, <2>4, <2>5
<1>7. FileInv'
  <2> SUFFICES ASSUME Orderly
               PROVE  OutIsRun' /\ FedIsRun' /\ NextIsRun'
    BY <1>a DEF FileInv, Orderly
  <2>0. OutIsRun /\ FedIsRun /\ NextIsRun
    BY DEF Inv, FileInv
  <2>1. OutIsRun'
    BY <1>t, <1>a, <2>0 DEF Inv, OutIsRun
  <2>2. FedIsRun'
    BY <1>i, <1>n, <1>y, <1>a, <2>0 DEF FedIsRun
  <2>3. NextIsRun'
    BY <1>t, <1>x, <1>n, <1>o, <1>a, <1>w, <1>l, <2>0 DEF Inv, NextIsRun, Has
  <2> QED BY <2>1, <2>2, <2>3
<1>8. OutputInv'
  BY <1>a, <1>w DEF Inv, Orderly, OutputInv
<1>9. KeptInv'
  <2> SUFFICES ASSUME Orderly, NEW q \in runs'
               PROVE  Kept(q)'
    BY <1>a DEF KeptInv, Orderly
  <2>0. q \in Message /\ (q \in runs => Kept(q))
    BY <1>t, <1>o, <1>a, <1>b, <1>w DEF Inv, KeptInv
  <2>9. CASE q \in ToSet(ent[e].queue)
    BY <2>9, <1>a, <1>w DEF Kept, OnWire
  <2>1. ASSUME InEnd(q) PROVE  Kept(q)'
    BY <2>1, <1>t, <1>x, <1>i, <1>j, <1>o, <1>a, <1>w DEF Kept, InEnd, Closed
  <2>2. ASSUME AtStage(q) PROVE  Kept(q)'
      BY <2>2, <2>9, <2>0, <1>k DEF Kept, AtStage
  <2>3. ASSUME IsTurn(q) PROVE  Kept(q)'
    <3>1. PICK y \in 1..Len(ent) : q = ent[y].cur /\ ent[y].wired
      BY <2>3 DEF IsTurn
    <3>2. CASE y = e
      <4>1. q = stopping.run /\ q # None
        BY <2>0, <3>1, <3>2, <1>x
      <4>2. Closed(q) \/ q \in lost
        BY <4>1, <1>x DEF Inv, StopInv
      <4> QED BY <4>2, <1>a DEF Kept, InEnd, Closed
    <3>3. CASE y # e
      BY <3>1, <3>3, <1>n, <1>o DEF Kept, IsTurn
    <3> QED BY <3>2, <3>3
  <2>4. ASSUME InQueue(q) PROVE  Kept(q)'
    BY <2>4, <1>t, <1>x, <1>i, <1>n, <1>a DEF InQueue
  <2>5. ASSUME InStop(q) PROVE  Kept(q)'
      BY <2>5, <2>9 DEF InStop
  <2>6. ASSUME WasTurn(q) PROVE  Kept(q)'
    <3>1. PICK j \in 1..Len(restarts) : ent[restarts[j].old].cur = q
      BY <2>6, <1>t DEF WasTurn
    <3>2. restarts[j].old \in 1..Len(ent) /\ restarts[j].old # e
      BY <1>x, <1>t DEF Inv, RefInv, OldRef
    <3> QED BY <3>1, <3>2, <1>o, <1>a DEF Kept, WasTurn
  <2>7. ASSUME IsCarried(q) PROVE  Kept(q)'
    BY <2>7, <1>t, <1>k, <1>a, <1>l DEF Kept, IsCarried
  <2>8. ASSUME OnWire(q) PROVE  Kept(q)'
    BY <2>8, <1>t, <1>w DEF Kept, OnWire
  <2> QED BY <2>0, <1>a, <2>1, <2>2, <2>3, <2>4, <2>5, <2>6, <2>7, <2>8 DEF Kept
<1> QED BY <1>1, <1>2, <1>3, <1>4, <1>5, <1>6, <1>7, <1>8, <1>9 DEF Inv

LEMMA DeliverStep ==
  ASSUME Inv, NEW p \in wire, Deliver(p)
  PROVE  Inv'
<1> USE DEF vars, regVars, restartVars, turnVars, apiVars
<1>t. /\ ent \in Seq(Entry) /\ Len(ent) \in Nat /\ DOMAIN ent = 1..Len(ent)
      /\ restarts \in Seq(Restart) /\ Len(restarts) \in Nat
      /\ DOMAIN restarts = 1..Len(restarts) /\ runs \subseteq Message
      /\ \A y \in 1..Len(ent) : ent[y] \in Entry
      /\ \A y \in 1..Len(restarts) : restarts[y] \in Restart
      /\ entry \in 0..Len(ent) /\ spawning \in 0..Len(restarts)
      /\ stopping.e \in 0..Len(ent)
  BY DEF Inv, Types
<1>a. UNCHANGED <<regVars, restartVars, turnVars, entry, ent, runs, lost>>
      /\ wire' = wire \ {p}
  BY DEF Deliver
<1>p1. p.run \in runs /\ p.run \in Message /\ server[p.run] # "none"
       /\ p.status \in {"running", "failed", "completed"}
       /\ server \in [Message -> Statuses]
  BY DEF Inv, RefInv, WireRef, RunRef, Types, PatchSet
<1>b. server' = [server EXCEPT ![p.run] = IF @ \in Active THEN p.status ELSE @]
  BY DEF Deliver
<1>c. /\ server' \in [Message -> Statuses]
      /\ \A n \in Message : n # p.run => server'[n] = server[n]
      /\ server[p.run] \in Active => server'[p.run] = p.status
      /\ server[p.run] \notin Active => server'[p.run] = server[p.run]
  BY <1>b, <1>p1 DEF Active, Statuses
<1>d. /\ \A n \in Message : Closed(n) => Closed(n)'
      /\ p.status \in {"failed", "completed"} => Closed(p.run)'
      /\ \A n \in runs : server'[n] # "none"
  <2>1. server[p.run] \in Statuses
    BY <1>p1
  <2>2. p.status \in {"failed", "completed"} => Closed(p.run)'
    BY <1>p1, <1>c DEF Closed, Active, Statuses
  <2>3. \A n \in Message : Closed(n) => Closed(n)'
    BY <1>c DEF Closed, Active
  <2>4. \A n \in runs : server'[n] # "none"
    BY <1>c, <1>p1, <1>t DEF Inv, RefInv, RunRef
  <2> QED BY <2>2, <2>3, <2>4
<1>l. \A n \in Message : \A y : AtChild(n, y)' <=> AtChild(n, y)
  BY <1>a DEF AtChild
<1>1. Types'
  BY <1>a, <1>b DEF Inv, Types, PatchSet, Statuses
<1>2. RefInv'
  <2>1. CurRef'
    BY <1>a, <1>d DEF Inv, RefInv, CurRef
  <2>2. WireRef'
    BY <1>t, <1>a DEF Inv, RefInv, WireRef
  <2>3. RunRef'
    BY <1>a, <1>d DEF Inv, RefInv, RunRef
  <2>4. AtRef'
    BY <1>a, <1>c DEF Inv, RefInv, AtRef
  <2>5. FedRef'
    BY <1>t, <1>a DEF Inv, RefInv, FedRef
  <2>6. OldRef'
    BY <1>t, <1>a DEF Inv, RefInv, OldRef
  <2>7. EntryRef'
    BY <1>t, <1>a DEF Inv, RefInv, EntryRef
  <2> QED BY <2>1, <2>2, <2>3, <2>4, <2>5, <2>6, <2>7 DEF RefInv
<1>3. MapInv'
  BY <1>a DEF Inv, RefInv, EntryRef, MapInv
<1>4. StopInv'
  <2>1. CASE stopping.e = 0
    BY <2>1, <1>a DEF StopInv
  <2>2. CASE stopping.e # 0
    <3>1. /\ stopping.run \in runs \cup {None}
          /\ ent[stopping.e].cur \in {None, stopping.run}
      BY <2>2 DEF Inv, StopInv
    <3>2. ASSUME stopping.run # None
          PROVE  \/ Awaited(stopping.run, "failed")' \/ Closed(stopping.run)'
                 \/ stopping.run \in lost
      <4>1. stopping.run \in Message
        BY <3>1, <3>2, <1>t
      <4>2. CASE Awaited(stopping.run, "failed")
        <5>1. PICK x \in wire : x.run = stopping.run /\ x.status = "failed"
          BY <4>2 DEF Awaited
        <5>2. CASE x = p
          BY <5>1, <5>2, <1>d, <1>a DEF Closed
        <5>3. CASE x # p
          BY <5>1, <5>3, <1>a DEF Awaited
        <5> QED BY <5>2, <5>3
      <4>3. CASE Closed(stopping.run)
        BY <4>1, <4>3, <1>d, <1>a DEF Closed
      <4> QED BY <2>2, <3>2, <4>2, <4>3 DEF Inv, StopInv
    <3> QED BY <3>1, <3>2, <1>a DEF StopInv, Awaited
  <2> QED BY <2>1, <2>2
<1>5. ChildInv'
  <2> SUFFICES ASSUME Orderly
               PROVE  OpenIsAwaited' /\ LiveIsHeld'
    BY <1>a DEF ChildInv, Orderly
  <2>0. OpenIsAwaited /\ LiveIsHeld
    BY DEF Inv, ChildInv
  <2>1. OpenIsAwaited'
    BY <1>a, <1>b, <2>0 DEF OpenIsAwaited, Has
  <2>2. LiveIsHeld'
    BY <1>t, <1>a, <2>0 DEF Inv, LiveIsHeld
  <2> QED BY <2>1, <2>2
<1>6. TurnInv'
  <2> SUFFICES ASSUME Orderly
               PROVE  OneInbox' /\ FedLives' /\ NextWaits' /\ OneNext' /\ IdleIsFree'
    BY <1>a DEF TurnInv, Orderly
  <2>0. OneInbox /\ FedLives /\ NextWaits /\ OneNext /\ IdleIsFree
    BY DEF Inv, TurnInv
  <2>1. OneInbox'
    BY <1>t, <1>a, <2>0 DEF Inv, OneInbox
  <2>2. FedLives'
    BY <1>t, <1>a, <2>0 DEF Inv, FedLives
  <2>3. NextWaits'
    BY <1>a, <1>c, <1>l, <2>0 DEF NextWaits
  <2>4. OneNext'
    BY <1>a, <1>l, <2>0 DEF OneNext, Has
  <2>5. IdleIsFree'
    BY <1>t, <1>a, <1>l, <2>0 DEF IdleIsFree
  <2> QED BY <2>1, <2>2, <2>3, <2>4, <2>5
<1>7. FileInv'
  <2> SUFFICES ASSUME Orderly
               PROVE  OutIsRun' /\ FedIsRun' /\ NextIsRun'
    BY <1>a DEF FileInv, Orderly
  <2>0. OutIsRun /\ FedIsRun /\ NextIsRun
    BY DEF Inv, FileInv
  <2>1. OutIsRun'
    BY <1>a, <1>d, <1>l, <2>0 DEF OutIsRun
  <2>2. FedIsRun'
    BY <1>t, <1>a, <2>0 DEF Inv, FedIsRun
  <2>3. NextIsRun'
    BY <1>a, <1>l, <2>0 DEF Inv, NextIsRun
  <2> QED BY <2>1, <2>2, <2>3
<1>8. OutputInv'
  BY <1>t, <1>a DEF Inv, Orderly, OutputInv
<1>9. KeptInv'
  <2> SUFFICES ASSUME Orderly, NEW q \in runs'
               PROVE  Kept(q)'
    BY <1>a DEF KeptInv, Orderly
  <2>0. q \in Message /\ (q \in runs => Kept(q))
    BY <1>t, <1>a, <1>d DEF Inv, KeptInv
  <2>1. ASSUME InEnd(q) PROVE  Kept(q)'
      BY <2>1, <2>0, <1>a, <1>d DEF Kept, InEnd
  <2>2. ASSUME AtStage(q) PROVE  Kept(q)'
    BY <2>2, <1>a, <1>c, <1>l DEF Kept, AtStage
  <2>3. ASSUME IsTurn(q) PROVE  Kept(q)'
    BY <2>3, <1>a DEF Inv, Kept, IsTurn
  <2>4. ASSUME InQueue(q) PROVE  Kept(q)'
    BY <2>4, <1>a DEF Inv, Kept, InQueue
  <2>5. ASSUME InStop(q) PROVE  Kept(q)'
    BY <2>5, <1>t, <1>a DEF Kept, InStop
  <2>6. ASSUME WasTurn(q) PROVE  Kept(q)'
    BY <2>6, <2>0, <1>a DEF Kept, WasTurn
  <2>7. ASSUME IsCarried(q) PROVE  Kept(q)'
    BY <2>7, <1>a, <1>d DEF Kept, IsCarried
  <2>8. ASSUME OnWire(q) PROVE  Kept(q)'
    <3>1. PICK x \in wire : x.run = q /\ x.status \in {"completed", "failed"}
      BY <2>8 DEF OnWire
    <3>2. CASE x = p
      BY <3>1, <3>2, <1>d DEF Kept, InEnd
    <3>3. CASE x # p
      BY <3>1, <3>3, <1>a DEF Kept, OnWire
    <3> QED BY <3>2, <3>3
  <2> QED BY <2>0, <1>a, <2>1, <2>2, <2>3, <2>4, <2>5, <2>6, <2>7, <2>8 DEF Kept
<1> QED BY <1>1, <1>2, <1>3, <1>4, <1>5, <1>6, <1>7, <1>8, <1>9 DEF Inv

LEMMA LoseStep ==
  ASSUME Inv, NEW p \in wire, Lose(p)
  PROVE  Inv'
<1> USE DEF vars, regVars, restartVars, turnVars, apiVars
<1>t. /\ ent \in Seq(Entry) /\ Len(ent) \in Nat /\ DOMAIN ent = 1..Len(ent)
      /\ restarts \in Seq(Restart) /\ Len(restarts) \in Nat
      /\ DOMAIN restarts = 1..Len(restarts) /\ runs \subseteq Message
      /\ \A y \in 1..Len(ent) : ent[y] \in Entry
      /\ \A y \in 1..Len(restarts) : restarts[y] \in Restart
      /\ entry \in 0..Len(ent) /\ spawning \in 0..Len(restarts)
      /\ stopping.e \in 0..Len(ent)
  BY DEF Inv, Types
<1>a. UNCHANGED <<regVars, restartVars, turnVars, entry, ent, runs, server>>
      /\ wire' = wire \ {p}
  BY DEF Lose
<1>b. lost' = lost \cup {p.run} /\ p.run \in Message
  BY <1>t DEF Lose, Inv, RefInv, WireRef
<1>l. \A n \in Message : \A y : AtChild(n, y)' <=> AtChild(n, y)
  BY <1>a DEF AtChild
<1>1. Types'
  BY <1>a, <1>b, <1>l DEF Inv, Types
<1>2. RefInv'
  <2>1. CurRef'
    BY <1>t, <1>a DEF Inv, RefInv, CurRef
  <2>2. WireRef'
    BY <1>t, <1>a DEF Inv, RefInv, WireRef
  <2>3. RunRef'
    BY <1>t, <1>a DEF Inv, RefInv, RunRef
  <2>4. AtRef'
    BY <1>t, <1>a DEF Inv, RefInv, AtRef
  <2>5. FedRef'
    BY <1>t, <1>a DEF Inv, RefInv, FedRef
  <2>6. OldRef'
    BY <1>t, <1>a DEF Inv, RefInv, OldRef
  <2>7. EntryRef'
    BY <1>t, <1>a DEF Inv, RefInv, EntryRef
  <2> QED BY <2>1, <2>2, <2>3, <2>4, <2>5, <2>6, <2>7 DEF RefInv
<1>3. MapInv'
  BY <1>t, <1>a DEF Inv, EntryRef, MapInv
<1>4. StopInv'
  BY <1>a, <1>b DEF Inv, StopInv, Awaited, Closed
<1>5. ChildInv'
  <2> SUFFICES ASSUME Orderly
               PROVE  OpenIsAwaited' /\ LiveIsHeld'
    BY <1>a DEF ChildInv, Orderly
  <2>0. OpenIsAwaited /\ LiveIsHeld
    BY DEF Inv, ChildInv
  <2>1. OpenIsAwaited'
    BY <1>t, <1>a, <2>0 DEF OpenIsAwaited, Has
  <2>2. LiveIsHeld'
    BY <1>t, <1>a, <2>0 DEF Inv, LiveIsHeld
  <2> QED BY <2>1, <2>2
<1>6. TurnInv'
  <2> SUFFICES ASSUME Orderly
               PROVE  OneInbox' /\ FedLives' /\ NextWaits' /\ OneNext' /\ IdleIsFree'
    BY <1>a DEF TurnInv, Orderly
  <2>0. OneInbox /\ FedLives /\ NextWaits /\ OneNext /\ IdleIsFree
    BY DEF Inv, TurnInv
  <2>1. OneInbox'
    BY <1>t, <1>a, <2>0 DEF Inv, OneInbox
  <2>2. FedLives'
    BY <1>t, <1>a, <2>0 DEF Inv, FedLives
  <2>3. NextWaits'
    BY <1>t, <1>a, <1>l, <2>0 DEF NextWaits
  <2>4. OneNext'
    BY <1>a, <1>l, <2>0 DEF Inv, OneNext
  <2>5. IdleIsFree'
    BY <1>a, <1>b, <1>l, <2>0 DEF IdleIsFree
  <2> QED BY <2>1, <2>2, <2>3, <2>4, <2>5
<1>7. FileInv'
  <2> SUFFICES ASSUME Orderly
               PROVE  OutIsRun' /\ FedIsRun' /\ NextIsRun'
    BY <1>a DEF FileInv, Orderly
  <2>0. OutIsRun /\ FedIsRun /\ NextIsRun
    BY DEF Inv, FileInv
  <2>1. OutIsRun'
    BY <1>t, <1>a, <2>0 DEF OutIsRun, Has
  <2>2. FedIsRun'
    BY <1>t, <1>a, <2>0 DEF Inv, FedIsRun
  <2>3. NextIsRun'
    BY <1>a, <1>l, <2>0 DEF NextIsRun, Has
  <2> QED BY <2>1, <2>2, <2>3
<1>8. OutputInv'
  BY <1>t, <1>a DEF Inv, Orderly, OutputInv
<1>9. KeptInv'
  <2> SUFFICES ASSUME Orderly, NEW q \in runs'
               PROVE  Kept(q)'
    BY <1>a DEF KeptInv, Orderly
  <2>0. q \in Message /\ (q \in runs => Kept(q))
    BY <1>t, <1>a DEF Inv, KeptInv
  <2>1. ASSUME InEnd(q) PROVE  Kept(q)'
    BY <2>1, <1>a, <1>b DEF Kept, InEnd, Closed
  <2>2. ASSUME AtStage(q) PROVE  Kept(q)'
    BY <2>2, <1>a, <1>b DEF Kept, AtStage
  <2>3. ASSUME IsTurn(q) PROVE  Kept(q)'
    BY <2>3, <2>0, <1>a DEF Kept, IsTurn
  <2>4. ASSUME InQueue(q) PROVE  Kept(q)'
    BY <2>4, <1>t, <1>a DEF Kept, InQueue
  <2>5. ASSUME InStop(q) PROVE  Kept(q)'
    BY <2>5, <2>0, <1>a DEF Kept, InStop
  <2>6. ASSUME WasTurn(q) PROVE  Kept(q)'
    BY <2>6, <2>0, <1>a DEF Kept, WasTurn
  <2>7. ASSUME IsCarried(q) PROVE  Kept(q)'
    BY <2>7, <2>0, <1>a DEF Kept, IsCarried
  <2>8. ASSUME OnWire(q) PROVE  Kept(q)'
    BY <2>8, <1>a, <1>b DEF Kept, OnWire, InEnd
  <2> QED BY <2>0, <1>a, <2>1, <2>2, <2>3, <2>4, <2>5, <2>6, <2>7, <2>8 DEF Kept
<1> QED BY <1>1, <1>2, <1>3, <1>4, <1>5, <1>6, <1>7, <1>8, <1>9 DEF Inv

LEMMA StutterStep ==
  ASSUME Inv, UNCHANGED vars
  PROVE  Inv'
<1> USE DEF vars, regVars, restartVars, turnVars, apiVars
<1>t. /\ ent \in Seq(Entry) /\ Len(ent) \in Nat /\ DOMAIN ent = 1..Len(ent)
      /\ restarts \in Seq(Restart) /\ Len(restarts) \in Nat
      /\ DOMAIN restarts = 1..Len(restarts) /\ runs \subseteq Message
      /\ \A y \in 1..Len(ent) : ent[y] \in Entry
      /\ \A y \in 1..Len(restarts) : restarts[y] \in Restart
      /\ entry \in 0..Len(ent) /\ spawning \in 0..Len(restarts)
      /\ stopping.e \in 0..Len(ent)
  BY DEF Inv, Types
<1>a. UNCHANGED <<runtime, session, refreshes, stopping, entry, ent, restarts, spawning,
                  stage, at, ctx, wire, runs, server, lost>>
  OBVIOUS
<1>l. \A n \in Message : \A y : AtChild(n, y)' <=> AtChild(n, y)
  BY <1>a DEF AtChild
<1>1. Types'
  BY <1>t DEF Inv, Types, Restart, Statuses
<1>2. RefInv'
  <2>1. CurRef'
    BY <1>t DEF Inv, RefInv, CurRef
  <2>2. WireRef'
    BY <1>t DEF Inv, RefInv, WireRef
  <2>3. RunRef'
    BY <1>t DEF Inv, RefInv, RunRef
  <2>4. AtRef'
    BY <1>t DEF Inv, RefInv, AtRef
  <2>5. FedRef'
    BY <1>t DEF Inv, RefInv, FedRef
  <2>6. OldRef'
    BY <1>t DEF Inv, RefInv, OldRef
  <2>7. EntryRef'
    BY <1>t DEF Inv, RefInv, EntryRef
  <2> QED BY <2>1, <2>2, <2>3, <2>4, <2>5, <2>6, <2>7 DEF RefInv
<1>3. MapInv'
  BY <1>t, <1>a DEF Inv, EntryRef, MapInv
<1>4. StopInv'
  BY DEF Inv, MapInv, StopInv, Awaited, Closed
<1>5. ChildInv'
  <2> SUFFICES ASSUME Orderly
               PROVE  OpenIsAwaited' /\ LiveIsHeld'
    BY <1>a DEF ChildInv, Orderly
  <2>0. OpenIsAwaited /\ LiveIsHeld
    BY DEF Inv, ChildInv
  <2>1. OpenIsAwaited'
    BY <1>t, <2>0 DEF Inv, OpenIsAwaited
  <2>2. LiveIsHeld'
    BY <1>t, <2>0 DEF Inv, LiveIsHeld
  <2> QED BY <2>1, <2>2
<1>6. TurnInv'
  <2> SUFFICES ASSUME Orderly
               PROVE  OneInbox' /\ FedLives' /\ NextWaits' /\ OneNext' /\ IdleIsFree'
    BY <1>a DEF TurnInv, Orderly
  <2>0. OneInbox /\ FedLives /\ NextWaits /\ OneNext /\ IdleIsFree
    BY DEF Inv, TurnInv
  <2>1. OneInbox'
    BY <1>t, <2>0 DEF Inv, OneInbox
  <2>2. FedLives'
    BY <1>t, <2>0 DEF Inv, FedLives
  <2>3. NextWaits'
    BY <1>a, <1>l, <2>0 DEF NextWaits, Has
  <2>4. OneNext'
    BY <1>a, <1>l, <2>0 DEF OneNext
  <2>5. IdleIsFree'
    BY <1>t, <1>a, <1>l, <2>0 DEF IdleIsFree
  <2> QED BY <2>1, <2>2, <2>3, <2>4, <2>5
<1>7. FileInv'
  <2> SUFFICES ASSUME Orderly
               PROVE  OutIsRun' /\ FedIsRun' /\ NextIsRun'
    BY <1>a DEF FileInv, Orderly
  <2>0. OutIsRun /\ FedIsRun /\ NextIsRun
    BY DEF Inv, FileInv
  <2>1. OutIsRun'
    BY <1>t, <2>0 DEF Inv, OutIsRun
  <2>2. FedIsRun'
    BY <1>t, <2>0 DEF Inv, FedIsRun
  <2>3. NextIsRun'
    BY <1>t, <1>l, <2>0 DEF Inv, NextIsRun
  <2> QED BY <2>1, <2>2, <2>3
<1>8. OutputInv'
  BY <1>t DEF Inv, Orderly, OutputInv
<1>9. KeptInv'
  <2> SUFFICES ASSUME Orderly, NEW q \in runs'
               PROVE  Kept(q)'
    BY <1>a DEF KeptInv, Orderly
  <2>0. q \in Message /\ (q \in runs => Kept(q))
    BY <1>t DEF Inv, KeptInv
  <2>1. ASSUME InEnd(q) PROVE  Kept(q)'
    BY <2>1, <2>0 DEF Kept, InEnd, Closed
  <2>2. ASSUME AtStage(q) PROVE  Kept(q)'
    BY <2>2, <2>0 DEF Inv, Kept, AtStage
  <2>3. ASSUME IsTurn(q) PROVE  Kept(q)'
    BY <2>3, <2>0, <1>t DEF Kept, IsTurn
  <2>4. ASSUME InQueue(q) PROVE  Kept(q)'
    BY <2>4, <1>t, <1>a DEF Kept, InQueue
  <2>5. ASSUME InStop(q) PROVE  Kept(q)'
    BY <2>5, <2>0 DEF Inv, Kept, InStop
  <2>6. ASSUME WasTurn(q) PROVE  Kept(q)'
    BY <2>6, <2>0 DEF Kept, WasTurn
  <2>7. ASSUME IsCarried(q) PROVE  Kept(q)'
    BY <2>7, <2>0, <1>a DEF Kept, IsCarried
  <2>8. ASSUME OnWire(q) PROVE  Kept(q)'
    BY <2>8 DEF Inv, Kept, OnWire
  <2> QED BY <2>0, <2>1, <2>2, <2>3, <2>4, <2>5, <2>6, <2>7, <2>8 DEF Kept
<1> QED BY <1>1, <1>2, <1>3, <1>4, <1>5, <1>6, <1>7, <1>8, <1>9 DEF Inv

-----------------------------------------------------------------------------
(* The invariant *)

LEMMA InitInv == Init => Inv
<1> SUFFICES ASSUME Init PROVE Inv
  OBVIOUS
<1> USE DEF Init
<1>1. Types
  <2>1. runtime \in {"claude", "hermes"} /\ refreshes \in 0..MaxRefreshes
    OBVIOUS
  <2>2. /\ ent \in Seq(Entry) /\ Len(ent) = 0 /\ restarts \in Seq(Restart)
        /\ Len(restarts) = 0
    OBVIOUS
  <2>3. /\ stopping \in [e : 0..Len(ent), run : MaybeRun]
        /\ ctx \in [run : MaybeRun, out : MaybeRun]
    BY <2>2 DEF NoStop, NoContext, MaybeRun
  <2>4. stage \in [Message -> Stages] /\ server \in [Message -> Statuses]
    BY DEF Stages, Statuses
  <2>5. at \in [Message -> 0..Len(ent)]
    BY <2>2
  <2> QED BY <2>2, <2>3, <2>4, <2>5 DEF Types
<1>2. RefInv
  BY DEF RefInv, CurRef, WireRef, RunRef, AtRef, FedRef, OldRef, EntryRef
<1>3. MapInv /\ StopInv
  BY DEF MapInv, StopInv, NoStop
<1>4. ChildInv /\ TurnInv
  BY DEF ChildInv, OpenIsAwaited, LiveIsHeld, TurnInv, OneInbox, FedLives,
       NextWaits, OneNext, IdleIsFree
<1>5. FileInv /\ OutputInv /\ KeptInv
  BY DEF FileInv, OutIsRun, FedIsRun, NextIsRun, OutputInv, KeptInv, NoContext
<1> QED BY <1>1, <1>2, <1>3, <1>4, <1>5 DEF Inv

LEMMA BridgePreserves ==
  ASSUME Inv, NEW m \in Message, Dispatch(m) \/ BridgeStep(m)
  PROVE  Inv'
<1>1. CASE SendToAgent(m)
  <2>1. CASE session = 0
    BY <1>1, <2>1, SendRefusedStep
  <2>2. CASE session # 0 /\ entry = 0 /\ spawning # 0
    BY <1>1, <2>2, SendWaitsStep
  <2>3. CASE session # 0 /\ entry = 0 /\ spawning = 0
    BY <1>1, <2>3, SendSpawnsStep
  <2>4. CASE entry # 0 /\ ent[entry].busy
    BY <1>1, <2>4, SendQueuesStep
  <2>5. CASE entry # 0 /\ ~ent[entry].busy
    BY <1>1, <2>5, SendDirectStep
  <2> QED BY <2>1, <2>2, <2>3, <2>4, <2>5
<1>2. CASE SendText(m)
  <2>1. runtime \in {"claude", "hermes"}
    BY DEF Inv, Types
  <2> QED BY <1>2, <2>1, TextArrivesStep, TextIsLostStep, TextIsRefusedStep
<1>3. CASE Unwind(m)
  BY <1>3, UnwindEndsStep, UnwindDrainsStep
<1> QED BY <1>1, <1>2, <1>3, DispatchStep, CreateRunStep DEF BridgeStep

LEMMA ChildPreserves ==
  ASSUME Inv, NEW e \in DOMAIN ent, ChildStep(e)
  PROVE  Inv'
<1>1. CASE TurnComplete(e)
  <2>1. CASE ~ent[e].wired \/ entry = 0
    BY <1>1, <2>1, TurnUnheardStep
  <2>2. CASE ent[e].wired /\ entry # 0
    BY <1>1, <2>2, TurnEndsStep, TurnDrainsStep
  <2> QED BY <2>1, <2>2
<1>2. CASE ChildExits(e)
  BY <1>2, ChildGoneStep, ChildDiesStep
<1>3. CASE TurnFails(e)
  BY <1>3, TurnFailsUnheardStep, TurnFailsHeardStep
<1> QED BY <1>1, <1>2, <1>3, ReplyStep, NeedsRestartStep DEF ChildStep

LEMMA InvStep == Inv /\ [Next]_vars => Inv'
<1> SUFFICES ASSUME Inv, [Next]_vars
             PROVE  Inv'
  OBVIOUS
<1>1. CASE UNCHANGED vars
  BY <1>1, StutterStep
<1>2. ASSUME NEW m \in Message, Dispatch(m) \/ BridgeStep(m)
      PROVE  Inv'
  BY <1>2, BridgePreserves
<1>3. ASSUME NEW e \in DOMAIN ent, ChildStep(e)
      PROVE  Inv'
  BY <1>3, ChildPreserves
<1>4. ASSUME NEW i \in DOMAIN restarts, FinishRestart(i) \/ AbandonRestart(i)
      PROVE  Inv'
  BY <1>4, FinishIdleStep, FinishSendsStep, AbandonRestartStep
<1>5. CASE RefreshKeeps \/ RefreshRemoves \/ FinishStop
  BY <1>5, RefreshKeepsStep, RefreshRemovesStep, FinishStopStep
<1>6. ASSUME NEW p \in wire, Deliver(p) \/ Lose(p)
      PROVE  Inv'
  BY <1>6, DeliverStep, LoseStep
<1> QED BY <1>1, <1>2, <1>3, <1>4, <1>5, <1>6 DEF Next

LEMMA AlwaysInv == Spec => []Inv
BY InitInv, InvStep, PTL DEF Spec

-----------------------------------------------------------------------------
(* The properties *)

\* Type correctness, of every runtime and however quickly agents come back: the
\* three maps of the manager agree, and only runs the bridge knows are patched.
THEOREM TypeCorrect == Spec => []TypeOK
<1>1. Inv => TypeOK
  <2> SUFFICES ASSUME Inv PROVE TypeOK
    OBVIOUS
  <2>1. /\ ent \in Seq(Entry) /\ restarts \in Seq(Restart)
        /\ entry \in 0..Len(ent) /\ spawning \in 0..Len(restarts)
    BY DEF Inv, Types
  <2>2. entry \in {0} \cup DOMAIN ent /\ spawning \in {0} \cup DOMAIN restarts
    BY <2>1
  <2>3. /\ refreshes \in 0..MaxRefreshes /\ session \in 0..(refreshes + 1)
        /\ stage \in [Message -> Stages] /\ server \in [Message -> Statuses]
        /\ runs \subseteq Message /\ lost \subseteq Message
    BY DEF Inv, Types
  <2>4. /\ entry # 0 => session # 0
        /\ spawning # 0 => entry = 0
        /\ \A p \in wire : p.run \in runs
    BY DEF Inv, MapInv, RefInv, WireRef
  <2> QED BY <2>2, <2>3, <2>4 DEF TypeOK
<1> QED BY <1>1, AlwaysInv, PTL

\* A Claude child never has two turns at once, whatever restarts, exits and token
\* refreshes it lives through, if no agent comes back while its child is still
\* being shut down for a restart.
THEOREM TurnsAreSerial ==
  ASSUME ~QuickReturn
  PROVE  Spec => []ClaudeTurnsAreSerial
<1>1. Inv => ClaudeTurnsAreSerial
  <2> SUFFICES ASSUME Inv, runtime = "claude", NEW e \in DOMAIN ent
               PROVE  Len(ent[e].inbox) <= 1
    BY DEF ClaudeTurnsAreSerial
  <2>1. e \in 1..Len(ent)
    BY DEF Inv, Types
  <2> QED BY DEF Inv, TurnInv, OneInbox, Orderly
<1> QED BY <1>1, AlwaysInv, PTL

\* No child the bridge listens to is forgotten: it is the one the next message
\* would find, or it is being stopped.
THEOREM NoChildIsOrphaned ==
  ASSUME ~QuickReturn
  PROVE  Spec => []NoOrphanChild
<1>1. Inv => NoOrphanChild
  <2> SUFFICES ASSUME Inv, runtime = "claude", NEW e \in DOMAIN ent,
                      ent[e].live, ent[e].wired
               PROVE  e \in {entry, stopping.e}
    BY DEF NoOrphanChild
  <2>1. e \in 1..Len(ent)
    BY DEF Inv, Types
  <2>2. LiveIsHeld /\ OldRef
    BY DEF Inv, ChildInv, RefInv, Orderly
  <2> QED BY <2>2 DEF LiveIsHeld, OldRef
<1> QED BY <1>1, AlwaysInv, PTL

\* A run is closed as completed only with a message that its own turn posted,
\* although all turns of the agent write to one run file.
THEOREM OutputIsOfOwnTurn ==
  ASSUME ~QuickReturn
  PROVE  Spec => []OutputOfOwnTurn
<1>1. Inv => OutputOfOwnTurn
  BY DEF Inv, OutputInv, OutputOfOwnTurn, Orderly
<1> QED BY <1>1, AlwaysInv, PTL

\* No run the bridge was told of is forgotten open: somebody still has to close
\* it, or it is one of the four kinds that GivenUp names.
THEOREM RunsAreAlwaysTended ==
  ASSUME ~QuickReturn
  PROVE  Spec => []RunsAreTended
<1>1. Inv => RunsAreTended
  <2> SUFFICES ASSUME Inv, NEW m \in runs, runtime = "claude"
               PROVE  Closed(m) \/ Tended(m) \/ GivenUp(m)
    BY DEF RunsAreTended
  <2>1. Kept(m)
    BY DEF Inv, KeptInv, Orderly
  <2>2. /\ ent \in Seq(Entry) /\ DOMAIN ent = 1..Len(ent) /\ entry \in 0..Len(ent)
        /\ restarts \in Seq(Restart) /\ DOMAIN restarts = 1..Len(restarts)
        /\ \A i \in 1..Len(restarts) : restarts[i] \in Restart
    BY DEF Inv, Types
  <2>3. CASE InEnd(m) \/ AtStage(m) \/ OnWire(m)
    BY <2>3 DEF InEnd, AtStage, OnWire, Tended, GivenUp
  <2>4. CASE IsTurn(m) \/ InQueue(m) \/ InStop(m)
    BY <2>4 DEF IsTurn, InQueue, InStop, Tended
  <2>5. CASE WasTurn(m)
    BY <2>5 DEF WasTurn, GivenUp
  <2>6. CASE IsCarried(m)
    <3>1. PICK i \in 1..Len(restarts) :
            \/ restarts[i].state # "done" /\ m \in ToSet(restarts[i].pending)
            \/ restarts[i].state = "open" /\ m \in ToSet(restarts[i].waiters)
      BY <2>6 DEF IsCarried
    <3>2. /\ restarts[i].pending \in Seq(Message) /\ restarts[i].waiters \in Seq(Message)
          /\ restarts[i].state \in {"open", "done", "abandoned"}
      BY <2>2 DEF Restart
    <3>3. CASE restarts[i].state = "open"
      <4>1. m \in ToSet(restarts[i].pending \o restarts[i].waiters)
        BY <3>1, <3>2, SetOfBoth
      <4> QED BY <3>3, <4>1 DEF Tended
    <3>4. CASE restarts[i].state # "open"
      BY <3>1, <3>2, <3>4 DEF GivenUp
    <3> QED BY <3>3, <3>4
  <2> QED BY <2>1, <2>3, <2>4, <2>5, <2>6 DEF Kept
<1> QED BY <1>1, AlwaysInv, PTL
=============================================================================
