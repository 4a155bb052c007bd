------------------------------- MODULE Presence -------------------------------
(***************************************************************************)
(* Who is online in ONE workspace: the UserGateway object of each user and *)
(* the workspace's WorkspacePresence object.                               *)
(*                                                                         *)
(* A tab of the web client is one socket of its user's gateway; a          *)
(* reconnect is another tab.  A gateway handles every message of a socket  *)
(* in a handler of its own, and a handler that awaits a call to D1 or to   *)
(* WorkspacePresence lets the others run: jobs[t] are the handlers of tab  *)
(* t in the order of their messages, and pc says which call a handler has  *)
(* under way ("note") or which answer is on its way back ("noted").        *)
(* WorkspacePresence keeps all it knows in memory; each of its calls runs  *)
(* at once, but for the broadcast that a call for `note' waits for.  The   *)
(* calls go over a stub per call, so nothing orders them.                  *)
(***************************************************************************)
EXTENDS Integers, Sequences, FiniteSets, SequencesExt

CONSTANTS User, Tab,
          Owner,        \* the user of each tab
          MaxSends,     \* bound on the messages of each tab, its close included
          MaxFaults     \* bound on calls and deliveries that fail, and on
                        \* restarts of WorkspacePresence

ASSUME PresenceAssumption ==
  /\ IsFiniteSet(User) /\ IsFiniteSet(Tab) /\ Owner \in [Tab -> User]
  /\ MaxSends \in [Tab -> Nat] /\ MaxFaults \in Nat

VARIABLES
  open,        \* tabs whose socket is open
  wants,       \* tabs whose page shows presence
  view,        \* the users each tab shows online
  noted,       \* tabs whose attachment has the workspace in presenceSubs
  jobs,        \* the handlers of each tab
  count,       \* presenceSubCounts of each gateway; absent is 0
  conns,       \* WorkspacePresence: sockets of each user
  subscribers, \* WorkspacePresence: users to broadcast to
  bcast,       \* its broadcasts under way, oldest first
  faults,      \* faults so far
  mark,        \* ghost: what befell each user
  missed       \* ghost: tabs that dropped what they showed, or that a change of
               \* presence passed by, since their last snapshot

clientVars == <<open, wants>>
wpVars     == <<conns, subscribers, bcast>>
vars == <<clientVars, view, noted, jobs, count, wpVars, faults, mark, missed>>

Marks == {"overlap",  \* two handlers of one tab ran at the same time
          "phantom",  \* a socket stays counted: a call for it failed
          "short",    \* a subscribed tab is not counted: a call failed, or
                      \* WorkspacePresence was restarted
          "crossed",  \* a last tab left while another tab subscribed
          "dropped"}  \* a delivery to the user failed

TabsOf(u) == {t \in Tab : Owner[t] = u}
Job(t, p) == \E i \in DOMAIN jobs[t] : jobs[t][i].pc \in p
Running(t) == \E i \in DOMAIN jobs[t] : jobs[t][i].pc # "done"
Subscribing(t) ==
  \E i \in DOMAIN jobs[t] : jobs[t][i].kind = "sub" /\ jobs[t][i].pc # "done"
Online == {u \in User : conns[u] > 0}
Marked(u, m, when) == IF when THEN [mark EXCEPT ![u] = @ \cup {m}] ELSE mark
At(t, i, p) == [jobs EXCEPT ![t][i].pc = p]

Init ==
  /\ open = Tab /\ wants = {}
  /\ view = [t \in Tab |-> {}] /\ noted = {}
  /\ jobs = [t \in Tab |-> <<>>]
  /\ count = [u \in User |-> 0] /\ conns = [u \in User |-> 0]
  /\ subscribers = {} /\ bcast = <<>>
  /\ faults = 0
  /\ mark = [u \in User |-> {}] /\ missed = {}

-----------------------------------------------------------------------------
(* The client, and what its messages start *)

Arrives(t, kind, pc) ==
  /\ t \in open /\ Len(jobs[t]) < MaxSends[t]
  /\ jobs' = [jobs EXCEPT ![t] =
                Append(@, [kind |-> kind, pc |-> pc, snap |-> {}])]
  /\ UNCHANGED <<noted, count, wpVars, faults>>

\* The first component that shows presence is mounted, or the socket opened.
Subscribe(t) ==
  /\ t \notin wants
  /\ Arrives(t, "sub", "member")
  /\ wants' = wants \cup {t}
  /\ mark' = [mark EXCEPT ![Owner[t]] = @
                \cup (IF Running(t) THEN {"overlap"} ELSE {})
                \cup (IF \E x \in TabsOf(Owner[t]) : Job(x, {"unsub", "unsubbed"})
                      THEN {"crossed"} ELSE {})]
  /\ UNCHANGED <<open, view, missed>>

\* Faulty variant of Leave: a tab that is not subscribed is not noticed.
LeaveAnyway(t) == "less"

\* A tab leaves: only one that is subscribed has anything to undo.
Leave(t) == IF t \in noted THEN "less" ELSE "done"

\* The last component is unmounted: the page drops what it knew.
Unsubscribe(t) ==
  /\ t \in wants
  /\ Arrives(t, "unsub", Leave(t))
  /\ wants' = wants \ {t} /\ view' = [view EXCEPT ![t] = {}]
  /\ missed' = missed \cup {t}
  /\ mark' = Marked(Owner[t], "overlap", Running(t))
  /\ UNCHANGED open

\* webSocketClose and webSocketError, for a subscribed tab or another.
Close(t) ==
  /\ Arrives(t, "close", Leave(t))
  /\ open' = open \ {t} /\ wants' = wants \ {t}
  /\ mark' = Marked(Owner[t], "overlap", Running(t))
  /\ UNCHANGED <<view, missed>>

-----------------------------------------------------------------------------
(* The handlers of a gateway, each from one await to the next *)

Idle == UNCHANGED <<clientVars, wpVars, faults>>

\* D1 says whether the user is a member of the workspace.
Member(t, i) ==
  /\ jobs[t][i].pc = "member"
  /\ \E p \in {"done", IF t \in noted THEN "resnap" ELSE "note"} :
       jobs' = At(t, i, p)
  /\ Idle /\ UNCHANGED <<view, noted, count, mark, missed>>

AfterNote(t, i) ==
  /\ jobs[t][i].pc = "noted" /\ jobs' = At(t, i, "sub")
  /\ Idle /\ UNCHANGED <<view, noted, count, mark, missed>>

\* The snapshot goes to the tab: it is subscribed.
AfterSub(t, i) ==
  /\ jobs[t][i].pc \in {"subbed", "resnapped"}
  /\ jobs' = At(t, i, "done")
  /\ view' = IF t \in open THEN [view EXCEPT ![t] = jobs[t][i].snap]
             ELSE view
  /\ IF jobs[t][i].pc = "subbed"
     THEN /\ noted' = noted \cup {t}
          /\ count' = [count EXCEPT ![Owner[t]] = @ + 1]
     ELSE UNCHANGED <<noted, count>>
  /\ Idle /\ UNCHANGED <<mark, missed>>

\* Faulty variant of LastTab: as in the earlier draft, every tab unsubscribes.
EveryTab(n) == TRUE

\* Whether the count that is left says that no tab is.
LastTab(n) == n = 0

Left(n) == IF n > 0 THEN n - 1 ELSE 0

\* The tab is discounted: the last one takes the user out of the broadcasts.
AfterLess(t, i) ==
  LET u == Owner[t]
      last == LastTab(Left(count[u]))
  IN /\ jobs[t][i].pc = "lessened"
     /\ count' = [count EXCEPT ![u] = Left(@)]
     /\ jobs' = At(t, i, IF last THEN "unsub" ELSE "done")
     /\ noted' = IF last THEN noted ELSE noted \ {t}
     /\ mark' = Marked(u, "crossed",
                       last /\ \E x \in TabsOf(u) : Subscribing(x))
     /\ Idle /\ UNCHANGED <<view, missed>>

AfterUnsub(t, i) ==
  /\ jobs[t][i].pc = "unsubbed" /\ jobs' = At(t, i, "done")
  /\ count' = [count EXCEPT ![Owner[t]] = 0]
  /\ noted' = noted \ {t}
  /\ Idle /\ UNCHANGED <<view, mark, missed>>

\* Faulty variant of Undo: a subscription that failed half-way stays counted.
NoUndo == "done"

\* What follows a call for /presence/sub that failed: the note is taken back.
Undo == "back"

\* A call rejects: its request is lost, or its answer is.
Fail(t, i) ==
  LET p == jobs[t][i].pc
      k == jobs[t][i].kind
      phantom == p \in {"noted", "back"} \/ (p = "less" /\ k = "close")
      short   == p \in {"lessened", "unsub", "unsubbed"} /\ k = "unsub"
  IN /\ faults < MaxFaults /\ faults' = faults + 1
     /\ p \in {"note", "noted", "sub", "subbed", "resnap", "resnapped", "back", "less", "lessened", "unsub", "unsubbed"}
     /\ jobs' = At(t, i, IF p \in {"sub", "subbed"} THEN Undo ELSE "done")
     /\ noted' = IF k = "close" THEN noted \ {t} ELSE noted
     /\ mark' = [mark EXCEPT ![Owner[t]] = @
                   \cup (IF phantom THEN {"phantom"} ELSE {})
                   \cup (IF short THEN {"short"} ELSE {})]
     /\ missed' = IF p = "resnapped" THEN missed \cup {t} ELSE missed
     /\ UNCHANGED <<clientVars, view, count, wpVars>>

-----------------------------------------------------------------------------
(* WorkspacePresence *)

\* Faulty variant of Bumped: the count may fall below zero.
Unclamped(n, d) == n + d

\* The sockets of a user after one more or one less.
Bumped(n, d) == IF n + d > 0 THEN n + d ELSE 0

\* Faulty variant of Flips: nobody is told of a user who goes offline.
FlipsUp(n, d) == n = 0 /\ d = 1

\* Whether the user crosses the line between online and offline.
Flips(n, d) == (n > 0) # (Bumped(n, d) > 0)

Delta(p)    == IF p = "note" THEN 1 ELSE -1
Waiting(p)  == CASE p = "note" -> "noting" [] p = "back" -> "backing"
                 [] OTHER -> "lessing"
Answered(p) == CASE p \in {"note", "noting"} -> "noted"
                 [] p \in {"back", "backing"} -> "done"
                 [] OTHER -> "lessened"

\* noteConnection: a change of state is broadcast, and the broadcast awaited.
Note(t, i) ==
  LET u == Owner[t]
      p == jobs[t][i].pc
      d == Delta(p)
      flips == Flips(conns[u], d)
      told == flips /\ subscribers # {}
  IN /\ p \in {"note", "back", "less"}
     /\ conns' = [conns EXCEPT ![u] = Bumped(@, d)]
     /\ bcast' = IF told
                 THEN Append(bcast, [by |-> <<t, i>>, about |-> u,
                                     online |-> d = 1, to |-> subscribers,
                                     failed |-> {}])
                 ELSE bcast
     /\ jobs' = At(t, i, IF told THEN Waiting(p) ELSE Answered(p))
     /\ missed' = IF flips
                  THEN missed \cup {x \in Tab : Owner[x] \notin subscribers}
                  ELSE missed
     /\ UNCHANGED <<clientVars, view, noted, count, subscribers, faults,
                    mark>>

\* subscribe: whoever calls is told of changes from now on.
Sub(t, i) ==
  /\ jobs[t][i].pc \in {"sub", "resnap"}
  /\ subscribers' = subscribers \cup {Owner[t]}
  /\ jobs' = [jobs EXCEPT ![t][i].pc = IF @ = "sub" THEN "subbed" ELSE "resnapped",
                          ![t][i].snap = Online]
  /\ missed' = missed \ {t}
  /\ UNCHANGED <<clientVars, view, noted, count, conns, bcast, faults,
                 mark>>

Unsub(t, i) ==
  /\ jobs[t][i].pc = "unsub" /\ jobs' = At(t, i, "unsubbed")
  /\ subscribers' = subscribers \ {Owner[t]}
  /\ UNCHANGED <<clientVars, view, noted, count, conns, bcast, faults,
                 mark, missed>>

\* A delivery of a broadcast is settled; with the last one those it could not
\* reach are dropped and the call that waited for it is answered.
Settle(b, k, u, failed) ==
  LET left == b.to \ {u}
      t == b.by[1]
      i == b.by[2]
  IN IF left # {}
     THEN /\ bcast' = [bcast EXCEPT ![k].to = left, ![k].failed = failed]
          /\ UNCHANGED <<subscribers, jobs>>
     ELSE /\ bcast' = RemoveAt(bcast, k)
          /\ subscribers' = subscribers \ failed
          /\ jobs' = At(t, i, Answered(jobs[t][i].pc))

\* The gateway passes a change on to the sockets that are subscribed.  A tab
\* whose snapshot is still on its way misses it, and a later change may have overtaken it.
Deliver(k, u) ==
  LET b == bcast[k]
      reached == {t \in TabsOf(u) : t \in open /\ t \in noted}
      late == /\ b.online # (conns[b.about] > 0)
              /\ ~\E j \in DOMAIN bcast :
                    j > k /\ bcast[j].about = b.about /\ u \in bcast[j].to
  IN /\ u \in b.to
     /\ Settle(b, k, u, b.failed)
     /\ view' = [t \in Tab |->
                   IF t \notin reached THEN view[t]
                   ELSE IF b.online THEN view[t] \cup {b.about}
                   ELSE view[t] \ {b.about}]
     /\ missed' = missed \cup {t \in TabsOf(u) :
                                 late \/ Job(t, {"subbed", "resnapped"})}
     /\ UNCHANGED <<clientVars, noted, count, conns, faults, mark>>

\* The gateway cannot be reached.
DeliveryFails(k, u) ==
  /\ u \in bcast[k].to
  /\ faults < MaxFaults /\ faults' = faults + 1
  /\ Settle(bcast[k], k, u, bcast[k].failed \cup {u})
  /\ mark' = Marked(u, "dropped", TRUE)
  /\ missed' = missed \cup TabsOf(u)
  /\ UNCHANGED <<clientVars, view, noted, count, conns>>

\* The object is evicted while it is idle; the gateways' sockets live on.
Evict ==
  /\ faults < MaxFaults /\ faults' = faults + 1 /\ bcast = <<>>
  /\ conns' = [u \in User |-> 0] /\ subscribers' = {}
  /\ mark' = [u \in User |-> mark[u] \cup {"short"}]
  /\ missed' = Tab
  /\ UNCHANGED <<clientVars, view, noted, jobs, count, bcast>>

Handler(t, i) ==
  \/ Member(t, i) \/ AfterNote(t, i) \/ AfterSub(t, i)
  \/ AfterLess(t, i) \/ AfterUnsub(t, i) \/ Fail(t, i)
  \/ Note(t, i) \/ Sub(t, i) \/ Unsub(t, i)

Next ==
  \/ \E t \in Tab : Subscribe(t) \/ Unsubscribe(t) \/ Close(t)
  \/ \E t \in Tab : \E i \in DOMAIN jobs[t] : Handler(t, i)
  \/ \E k \in DOMAIN bcast : \E u \in User : Deliver(k, u) \/ DeliveryFails(k, u)
  \/ Evict

Spec == Init /\ [][Next]_vars

-----------------------------------------------------------------------------
(* Properties *)

\* A tab whose socket is counted: subscribed and not yet discounted, or on its
\* way to be subscribed and not taken back.
Counted(t) ==
  \/ t \in noted /\ ~Job(t, {"lessing", "lessened", "unsub", "unsubbed"})
  \/ Job(t, {"noting", "noted", "sub", "subbed", "back"})

CountedOf(u) == Cardinality({t \in TabsOf(u) : Counted(t)})

AtRest(u) == \A t \in TabsOf(u) : ~Running(t)

\* Type invariant: the counters of both objects stay natural numbers.
TypeOK ==
  /\ open \subseteq Tab
  /\ wants \subseteq Tab /\ noted \subseteq Tab /\ missed \subseteq Tab
  /\ view \in [Tab -> SUBSET User]
  /\ count \in [User -> Nat] /\ conns \in [User -> Nat]
  /\ subscribers \subseteq User
  /\ mark \in [User -> SUBSET Marks]

\* Nobody stays online for good: whatever requests are lost and however often
\* WorkspacePresence forgets all, a user has no more sockets counted than tabs
\* subscribed or subscribing, unless a call that should discount one (or the
\* answer to one that counted it) is lost or two handlers of one tab overlap
\* (the balance of /presence/note in user-gateway.ts).
NoPhantomSocket ==
  \A u \in User :
    mark[u] \cap {"overlap", "phantom"} = {} => conns[u] <= CountedOf(u)

\* A user is online as long as a tab is subscribed ("user goes offline only
\* when last tab closes", DESIGN_workspace_presence.md), unless two handlers of
\* one tab overlap or WorkspacePresence lost count.
OnlineWithATab ==
  \A u \in User :
    mark[u] \cap {"overlap", "short"} = {} => conns[u] >= CountedOf(u)

\* Closing a tab does not wipe broadcast delivery for the user's other tabs:
\* once the handlers of a user are done a subscribed tab is broadcast to,
\* unless one of four things befell the user (decrementPresenceOnClose).
OpenTabsHear ==
  \A u \in User :
    AtRest(u) /\ mark[u] \cap {"overlap", "short", "crossed", "dropped"} = {}
      => \A t \in TabsOf(u) : t \in open /\ t \in noted => u \in subscribers

\* A snapshot and the changes after it give a tab the truth: once everything
\* is at rest it shows exactly the users who are online, unless it has had no
\* snapshot since it dropped what it showed, or a change went by while its
\* snapshot was on the way, was overtaken, or was not sent to it.
ViewsAreTrue ==
  (\A u \in User : AtRest(u)) =>
    \A t \in (wants \cap noted) \ missed :
      mark[Owner[t]] = {} => view[t] = Online
==============================================================================
