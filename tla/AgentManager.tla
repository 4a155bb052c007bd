---------------------------- MODULE AgentManager ----------------------------
(***************************************************************************)
(* AgentManager of packages/bridge-core: how the bridge on a laptop feeds  *)
(* the messages of the channels to the child process of ONE agent, one     *)
(* turn at a time, and keeps the server's agent_runs rows informed.        *)
(*                                                                         *)
(* JavaScript runs one callback at a time, so an action is what runs       *)
(* between two awaits: a fetch to the API, the shutdown of a child, or an  *)
(* event of the child.  A PATCH is a member of `wire' from the fetch until *)
(* the server has handled it (Deliver) or it is gone for good (Lose).      *)
(*                                                                         *)
(* runtime = "claude": one child for many turns; `send' writes a line to   *)
(* its stdin and never rejects; the only runtime that asks for restarts.   *)
(* runtime = "hermes" (OpenClaw is alike): a process per turn, which `send'*)
(* awaits, rejecting when it exits non-zero.                               *)
(***************************************************************************)
EXTENDS Naturals, Sequences, FiniteSets, SequencesExt

CONSTANTS Message,       \* inbound messages, each dispatched at most once
          None,          \* undefined
          Runtimes,      \* runtimes the agent may have: "claude", "hermes"
          QuickReturn,   \* whether a removed agent may be back while its child
                         \* is still being shut down for a restart
          MaxRestarts,   \* bound on needs_restart events
          MaxRefreshes,  \* bound on token refreshes
          MaxLost        \* bound on API calls that fail

ASSUME AgentAssumption ==
  /\ IsFiniteSet(Message) /\ None \notin Message
  /\ Runtimes \subseteq {"claude", "hermes"}
  /\ QuickReturn \in BOOLEAN
  /\ MaxRestarts \in Nat /\ MaxRefreshes \in Nat /\ MaxLost \in Nat

VARIABLES
  runtime,    \* the agent's runtime
  session,    \* identity of the AgentSession object in `sessions'; 0: none
  refreshes,  \* token refreshes so far
  entry,      \* the AgentEntry in `entries'; 0: none
  ent,        \* every AgentEntry object made so far
  restarts,   \* every restartForAgent call so far
  spawning,   \* the restart whose promise is in `spawning'; 0: none
  stopping,   \* the entry stopAgent is disposing of, and the run it fails first
  stage,      \* how far the dispatch of each message is
  at,         \* the entry the _sendNow of each message holds; 0: none
  runs,       \* messages whose run id the bridge knows
  wire,       \* PATCHes of runs that the server has not handled yet
  ctx,        \* the run file the CLI shares with the bridge
  server,     \* status of the agent_runs row of each message
  lost        \* messages one of whose API calls failed

regVars     == <<runtime, session, refreshes, stopping>>
restartVars == <<restarts, spawning>>
turnVars    == <<stage, at, ctx>>
apiVars     == <<runs, server, lost>>
vars == <<regVars, entry, ent, restartVars, turnVars, wire, apiVars>>

NoContext == [run |-> None, out |-> None]

NoStop == [e |-> 0, run |-> None]

\* A run id is undefined when the POST that creates the run failed.
RunOf(m) == IF m \in runs THEN m ELSE None

Patch(m, status) ==
  IF m \in runs THEN {[run |-> m, status |-> status, out |-> None]} ELSE {}

\* Faulty variant of FailQueue: the runs stay open.
ForgetQueue(q) == {}

\* A queue that is thrown away: every run of it is failed.
FailQueue(q) == UNION {Patch(q[i], "failed") : i \in DOMAIN q}

Awaited(m, status) == \E p \in wire : p.run = m /\ p.status = status

Mark(S, st) == [m \in Message |-> IF m \in S THEN st ELSE stage[m]]

Shut(e) == [ent EXCEPT ![e].live = FALSE, ![e].inbox = <<>>]

\* Faulty variant of FreshContext: the output of the former turn stays.
StaleContext(m) == [run |-> RunOf(m), out |-> ctx.out]

\* The run file at the start of a turn.
FreshContext(m) == [run |-> RunOf(m), out |-> None]

\* Faulty variant of MustQueue: nothing is serialised.
NeverQueue(e) == FALSE

\* Whether a message has to wait for the turn of another.
MustQueue(e) == ent[e].busy

\* Faulty variant of SpawnInFlight: the promise is not shared.
NoneInFlight == FALSE

\* Whether a spawn of the agent is in flight, to be shared.
SpawnInFlight == spawning # 0

NewEntry(q) == [live |-> TRUE, wired |-> TRUE, busy |-> FALSE, cur |-> None,
                queue |-> q, inbox |-> <<>>]

Init ==
  /\ runtime \in Runtimes /\ session = 1 /\ refreshes = 0
  /\ entry = 0 /\ ent = <<>>
  /\ restarts = <<>> /\ spawning = 0 /\ stopping = NoStop
  /\ stage = [m \in Message |-> "new"]
  /\ at = [m \in Message |-> 0]
  /\ runs = {} /\ wire = {} /\ ctx = NoContext /\ lost = {}
  /\ server = [m \in Message |-> "none"]

-----------------------------------------------------------------------------
(* Sending *)

\* The synchronous part of _sendNow, up to its await of the PATCH; `es' and
\* `st' are the entries and stages the caller has reached, `ps' its PATCHes.
SendNow(m, e, es, st, ps) ==
  /\ ent' = [es EXCEPT ![e].busy = TRUE, ![e].cur = RunOf(m)]
  /\ stage' = [st EXCEPT ![m] = "starting"]
  /\ at' = [at EXCEPT ![m] = e]
  /\ ctx' = FreshContext(m)
  /\ wire' = wire \cup ps \cup Patch(m, "running")

\* Nothing is sent.
NoDrain(es, st, c, ps) ==
  /\ ent' = es /\ stage' = st /\ ctx' = c /\ wire' = wire \cup ps
  /\ UNCHANGED at

\* drainQueue, which looks at the entry of the agent and not at its busy flag.
Drain(es, st, c, ps) ==
  IF entry = 0 THEN NoDrain(es, st, c, ps)
  ELSE IF es[entry].queue = <<>> THEN NoDrain(es, st, c, ps)
  ELSE SendNow(Head(es[entry].queue), entry,
               [es EXCEPT ![entry].queue = Tail(@)], st, ps)

\* A human message arrives on a channel of the agent: createRun is called.
Dispatch(m) ==
  /\ stage[m] = "new" /\ session # 0
  /\ stage' = [stage EXCEPT ![m] = "creating"]
  /\ UNCHANGED <<regVars, restartVars, apiVars, entry, ent, at, wire, ctx>>

\* The POST is handled, or it fails before or after the row is there.
CreateRun(m) ==
  /\ stage[m] = "creating"
  /\ stage' = [stage EXCEPT ![m] = "created"]
  /\ \/ /\ runs' = runs \cup {m}
        /\ server' = [server EXCEPT ![m] = "queued"]
        /\ UNCHANGED lost
     \/ /\ Cardinality(lost) < MaxLost
        /\ lost' = lost \cup {m}
        /\ server' \in {server, [server EXCEPT ![m] = "queued"]}
        /\ UNCHANGED runs
  /\ UNCHANGED <<regVars, restartVars, entry, ent, at, wire, ctx>>

\* sendToAgent.  A spawn awaits nothing that can interleave, so a dispatch
\* that finds no entry and no restart has its entry in the same step.
SendToAgent(m) ==
  /\ stage[m] = "created"
  /\ \/ /\ session = 0
        /\ stage' = [stage EXCEPT ![m] = "refused"]
        /\ UNCHANGED <<entry, ent, restarts, at, wire, ctx>>
     \/ /\ session # 0 /\ entry = 0 /\ SpawnInFlight
        /\ restarts' = [restarts EXCEPT ![spawning].waiters = Append(@, m)]
        /\ stage' = [stage EXCEPT ![m] = "waiting"]
        /\ UNCHANGED <<entry, ent, at, wire, ctx>>
     \/ /\ session # 0 /\ entry = 0 /\ ~SpawnInFlight
        /\ entry' = Len(ent) + 1
        /\ SendNow(m, Len(ent) + 1, Append(ent, NewEntry(<<>>)), stage, {})
        /\ UNCHANGED restarts
     \/ /\ entry # 0 /\ MustQueue(entry)
        /\ ent' = [ent EXCEPT ![entry].queue = Append(@, m)]
        /\ stage' = [stage EXCEPT ![m] = "queued"]
        /\ UNCHANGED <<entry, restarts, at, wire, ctx>>
     \/ /\ entry # 0 /\ ~MustQueue(entry)
        /\ SendNow(m, entry, ent, stage, {})
        /\ UNCHANGED <<entry, restarts>>
  /\ UNCHANGED <<regVars, apiVars, spawning>>

\* _sendNow resumes after the PATCH: the text reaches the child, if it is
\* still there.  A runtime of the second kind rejects when it is not.
SendText(m) ==
  /\ stage[m] = "starting" /\ ~Awaited(m, "running")
  /\ \/ /\ ent[at[m]].live
        /\ ent' = [ent EXCEPT ![at[m]].inbox = Append(@, m)]
        /\ stage' = [stage EXCEPT ![m] = "sent"]
        /\ UNCHANGED wire
     \/ /\ ~ent[at[m]].live /\ runtime = "claude"
        /\ stage' = [stage EXCEPT ![m] = "sent"]
        /\ UNCHANGED <<ent, wire>>
     \/ /\ ~ent[at[m]].live /\ runtime = "hermes"
        /\ stage' = [stage EXCEPT ![m] = "unwinding"]
        /\ wire' = wire \cup Patch(m, "failed")
        /\ UNCHANGED ent
  /\ UNCHANGED <<regVars, restartVars, apiVars, entry, at, ctx>>

\* The rest of the catch of _sendNow, after its PATCH.
Unwind(m) ==
  /\ stage[m] = "unwinding" /\ ~Awaited(m, "failed")
  /\ LET e == at[m]
         mine == ent[e].cur = RunOf(m)
         es == [ent EXCEPT ![e].busy = FALSE,
                           ![e].cur = IF mine THEN None ELSE @]
     IN Drain(es, Mark({m}, "over"), IF mine THEN NoContext ELSE ctx, {})
  /\ UNCHANGED <<regVars, restartVars, apiVars, entry>>

-----------------------------------------------------------------------------
(* Events of the child *)

\* The agent answers with `raltic message send': the CLI reads the run file
\* after the POST and writes the new message into it.
Reply(e) ==
  /\ ent[e].inbox # <<>>
  /\ ctx.run # None /\ ctx.out # Head(ent[e].inbox)
  /\ ctx' = [ctx EXCEPT !.out = Head(ent[e].inbox)]
  /\ UNCHANGED <<regVars, restartVars, apiVars, entry, ent, stage, at, wire>>

\* turn_complete.  The handler looks the entry up again; without one, or once
\* the listeners are gone, nothing happens.
TurnComplete(e) ==
  /\ ent[e].inbox # <<>>
  /\ LET es == [ent EXCEPT ![e].inbox = Tail(@)]
     IN IF ~ent[e].wired \/ entry = 0
        THEN ent' = es /\ UNCHANGED <<turnVars, wire>>
        ELSE LET run == ent[entry].cur
                 out == IF run # None /\ ctx.run = run THEN ctx.out ELSE None
                 ps == IF run = None THEN {}
                       ELSE {[run |-> run, out |-> out,
                              status |-> IF out = None THEN "failed"
                                                       ELSE "completed"]}
             IN Drain([es EXCEPT ![entry].busy = FALSE, ![entry].cur = None],
                      stage, NoContext, ps)
  /\ UNCHANGED <<regVars, restartVars, apiVars, entry>>

\* The exit listener of entry e, on the entries es and stages st.
ExitListener(e, es, st, ps) ==
  LET cur == ent[e].cur
      queue == ent[e].queue
  IN IF ~ent[e].wired
     THEN /\ ent' = es /\ stage' = st /\ wire' = wire \cup ps
          /\ UNCHANGED <<entry, ctx>>
     ELSE /\ ent' = [es EXCEPT ![e].cur = None, ![e].queue = <<>>]
          /\ stage' = [m \in Message |->
                         IF m \in ToSet(queue) THEN "over" ELSE st[m]]
          /\ wire' = wire \cup ps \cup FailQueue(queue)
                     \cup (IF cur = None THEN {} ELSE Patch(cur, "failed"))
          /\ ctx' = IF cur = None THEN ctx ELSE NoContext
          /\ entry' = IF entry = e THEN 0 ELSE entry

\* The long-lived child dies, or never started.
ChildExits(e) ==
  /\ runtime = "claude" /\ ent[e].live
  /\ ExitListener(e, Shut(e), stage, {})
  /\ UNCHANGED <<regVars, restartVars, apiVars, at>>

\* The process of a turn exits non-zero: first the exit listeners, then the
\* rejection of `send' and the catch of _sendNow up to its await.
TurnFails(e) ==
  /\ runtime = "hermes" /\ ent[e].inbox # <<>>
  /\ LET m == Head(ent[e].inbox)
     IN ExitListener(e, [ent EXCEPT ![e].inbox = Tail(@)],
                     Mark({m}, "unwinding"), Patch(m, "failed"))
  /\ UNCHANGED <<regVars, restartVars, apiVars, at>>

\* needs_restart: Claude compacts in the middle of a turn.  The run of that
\* turn is in no field that survives.
NeedsRestart(e) ==
  /\ runtime = "claude" /\ ent[e].live /\ ent[e].wired /\ ent[e].inbox # <<>>
  /\ entry # 0 /\ Len(restarts) < MaxRestarts
  /\ restarts' = Append(restarts,
       [old |-> entry, session |-> session, pending |-> ent[entry].queue,
        waiters |-> <<>>, state |-> "open"])
  /\ spawning' = Len(restarts) + 1
  /\ entry' = 0
  /\ ent' = [ent EXCEPT ![entry].wired = FALSE, ![entry].queue = <<>>]
  /\ UNCHANGED <<regVars, turnVars, apiVars, wire>>

\* The old child is down.  The first dispatch that waited is sent; the others
\* line up behind the messages carried over, which nothing drains.
FinishRestart(i) ==
  LET r == restarts[i]
      e == Len(ent) + 1
  IN /\ r.state = "open" /\ r.session = session
     /\ entry' = e
     /\ IF r.waiters = <<>>
        THEN /\ ent' = Append(Shut(r.old), NewEntry(r.pending))
             /\ UNCHANGED <<turnVars, wire>>
        ELSE SendNow(Head(r.waiters), e,
                     Append(Shut(r.old),
                            NewEntry(r.pending \o Tail(r.waiters))),
                     Mark(ToSet(r.waiters), "queued"), {})
     /\ restarts' = [restarts EXCEPT ![i].state = "done"]
     /\ spawning' = 0
     /\ UNCHANGED <<regVars, apiVars>>

\* The session object was replaced meanwhile: the fresh child is disposed of,
\* the carried messages are rejected without a PATCH, the waiting ones fail.
AbandonRestart(i) ==
  LET r == restarts[i]
  IN /\ r.state = "open" /\ r.session # session
     /\ ent' = Shut(r.old)
     /\ stage' = Mark(ToSet(r.pending) \cup ToSet(r.waiters), "over")
     /\ wire' = wire \cup FailQueue(r.waiters)
     /\ restarts' = [restarts EXCEPT ![i].state = "abandoned"]
     /\ spawning' = 0
     /\ UNCHANGED <<regVars, apiVars, entry, at, ctx>>

-----------------------------------------------------------------------------
(* Token refresh *)

\* The agent is in the new boot context: initAllAgents makes a new session
\* object for it, whether it had one or not.
RefreshKeeps ==
  /\ stopping = NoStop /\ refreshes < MaxRefreshes
  /\ \/ session # 0 \/ QuickReturn
     \/ \A i \in DOMAIN restarts : restarts[i].state # "open"
  /\ refreshes' = refreshes + 1
  /\ session' = refreshes + 2
  /\ UNCHANGED <<restartVars, turnVars, apiVars, runtime, stopping, entry, ent,
                 wire>>

\* It is not: stopAgent, up to the PATCH disposeEntry awaits.
StopEntry(run) ==
  /\ stopping' = [e |-> entry, run |-> run]
  /\ wire' = IF run = None THEN wire ELSE wire \cup Patch(run, "failed")

\* Faulty variant of DropEntry: the entry stays in the map.
KeepEntry == UNCHANGED entry

\* entries.delete.
DropEntry == entry' = 0

RefreshRemoves ==
  /\ stopping = NoStop /\ refreshes < MaxRefreshes /\ session # 0
  /\ refreshes' = refreshes + 1
  /\ session' = 0 /\ spawning' = 0
  /\ DropEntry
  /\ StopEntry(IF entry = 0 THEN None ELSE ent[entry].cur)
  /\ UNCHANGED <<turnVars, apiVars, ent, restarts, runtime>>

\* The rest of disposeEntry; the refresh awaits it.
FinishStop ==
  LET e == stopping.e
  IN /\ e # 0 /\ ~Awaited(stopping.run, "failed")
     /\ ent' = [ent EXCEPT ![e].cur = None, ![e].queue = <<>>,
                           ![e].wired = FALSE, ![e].live = FALSE,
                           ![e].inbox = IF runtime = "hermes" THEN @ ELSE <<>>]
     /\ stage' = Mark(ToSet(ent[e].queue), "over")
     /\ wire' = wire \cup FailQueue(ent[e].queue)
     /\ stopping' = NoStop
     /\ UNCHANGED <<restartVars, apiVars, runtime, session, refreshes, entry,
                    at, ctx>>

-----------------------------------------------------------------------------
(* The API: PATCH /api/v1/agent-runs/:id *)

Active == {"queued", "running"}

Deliver(p) ==
  /\ p \in wire
  /\ wire' = wire \ {p}
  /\ server' = [server EXCEPT ![p.run] = IF @ \in Active THEN p.status ELSE @]
  /\ UNCHANGED <<regVars, restartVars, turnVars, entry, ent, runs, lost>>

\* Also the end of the retries of a PATCH whose output is not in D1 yet.
Lose(p) ==
  /\ p \in wire /\ Cardinality(lost \cup {p.run}) <= MaxLost
  /\ wire' = wire \ {p}
  /\ lost' = lost \cup {p.run}
  /\ UNCHANGED <<regVars, restartVars, turnVars, entry, ent, runs, server>>

ChildStep(e) == Reply(e) \/ TurnComplete(e) \/ ChildExits(e) \/ TurnFails(e)
                \/ NeedsRestart(e)

BridgeStep(m) == CreateRun(m) \/ SendToAgent(m) \/ SendText(m) \/ Unwind(m)

Next ==
  \/ \E m \in Message : Dispatch(m) \/ BridgeStep(m)
  \/ \E e \in DOMAIN ent : ChildStep(e)
  \/ \E i \in DOMAIN restarts : FinishRestart(i) \/ AbandonRestart(i)
  \/ RefreshKeeps \/ RefreshRemoves \/ FinishStop
  \/ \E p \in wire : Deliver(p) \/ Lose(p)

Spec == Init /\ [][Next]_vars

\* Callbacks that are due run, calls to the API return, a shutdown ends (it
\* escalates to SIGKILL) and a child ends its turn or dies in it.
Fairness ==
  /\ \A m \in Message : WF_vars(BridgeStep(m))
  /\ WF_vars(\E e \in DOMAIN ent :
               ent[e].inbox # <<>> /\ (TurnComplete(e) \/ ChildExits(e)
                                      \/ TurnFails(e)))
  /\ WF_vars(\E i \in DOMAIN restarts : FinishRestart(i) \/ AbandonRestart(i))
  /\ WF_vars(FinishStop)
  /\ WF_vars(\E p \in wire : Deliver(p) \/ Lose(p))

FairSpec == Spec /\ Fairness
-----------------------------------------------------------------------------
(* Properties *)

Stages == {"new", "creating", "created", "refused", "waiting", "queued",
           "starting", "sent", "unwinding", "over"}

Statuses == {"none", "queued", "running", "completed", "failed"}

\* Every variable keeps its shape, the three maps of the manager agree on the
\* agent, and only runs the bridge knows are patched.
TypeOK ==
  /\ refreshes \in 0..MaxRefreshes /\ session \in 0..(refreshes + 1)
  /\ entry \in {0} \cup DOMAIN ent /\ spawning \in {0} \cup DOMAIN restarts
  /\ stage \in [Message -> Stages] /\ server \in [Message -> Statuses]
  /\ (entry # 0 => session # 0) /\ (spawning # 0 => entry = 0)
  /\ runs \subseteq Message /\ lost \subseteq Message
  /\ \A p \in wire : p.run \in runs

\* types.ts of the runtimes: send is not called concurrently, AgentManager
\* enforces serialisation.  For the Claude runtime it does, across exits,
\* restarts and refreshes.
ClaudeTurnsAreSerial ==
  runtime = "claude" => \A e \in DOMAIN ent : Len(ent[e].inbox) <= 1

\* The run file is one per agent: still, a run is closed as completed only
\* with a message its own turn posted.
OutputOfOwnTurn ==
  \A p \in wire :
    runtime = "claude" /\ p.status = "completed" => p.out = p.run

\* A child the bridge listens to is the one the next message would find, or
\* is being stopped: no spawn or restart replaces the entry of another (the
\* comment on `spawning').
NoOrphanChild ==
  \A e \in DOMAIN ent :
    runtime = "claude" /\ ent[e].live /\ ent[e].wired
      => e \in {entry, stopping.e}

Closed(m) == server[m] \in {"completed", "failed"}

\* What the bridge does not close: a run whose PATCH or POST failed, one whose
\* message came for an agent removed meanwhile, the current run of an entry
\* that a restart took down, and the messages an abandoned restart carried.
GivenUp(m) ==
  \/ m \in lost
  \/ stage[m] = "refused"
  \/ \E i \in DOMAIN restarts :
       \/ ent[restarts[i].old].cur = m
       \/ restarts[i].state = "abandoned" /\ m \in ToSet(restarts[i].pending)

\* Somebody still has to close the run.
Tended(m) ==
  \/ stage[m] \in {"creating", "created", "unwinding"}
  \/ \E e \in DOMAIN ent : m = ent[e].cur /\ ent[e].wired
  \/ \E e \in {entry, stopping.e} \ {0} : m \in ToSet(ent[e].queue)
  \/ \E i \in DOMAIN restarts :
       /\ restarts[i].state = "open"
       /\ m \in ToSet(restarts[i].pending \o restarts[i].waiters)
  \/ \E p \in wire : p.run = m /\ p.status \in {"completed", "failed"}

\* No run is forgotten open, other than the four kinds above.
RunsAreTended ==
  \A m \in runs : runtime = "claude" => Closed(m) \/ Tended(m) \/ GivenUp(m)

CarriedOver == UNION {ToSet(restarts[i].pending) : i \in DOMAIN restarts}

\* Every run the bridge is told of is closed in the end, or it is one it does
\* not close, or it sits in a queue a restart carried over.
RunsSettle ==
  \A m \in Message :
    (runtime = "claude" /\ server[m] = "queued")
      ~> (Closed(m) \/ GivenUp(m) \/ m \in CarriedOver)
=============================================================================
