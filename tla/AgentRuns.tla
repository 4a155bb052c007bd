------------------------------ MODULE AgentRuns ------------------------------
(***************************************************************************)
(* The agent_runs rows of ONE agent in D1, and everyone who writes them.   *)
(*                                                                         *)
(* mode = "bridge": the bridge on a laptop creates a row per message and   *)
(* PATCHes it; the route reads the row, checks, updates it if it is still  *)
(* active, and reads it again for its answer.                              *)
(* mode = "raltic": a dispatcher (ChatRoom or the API) inserts the row and *)
(* calls the agent's RalticAgent object, which works on one invocation at  *)
(* a time, posts the reply and reports to the row itself.  The dispatcher  *)
(* marks the row failed when the call says so or throws.  While it works   *)
(* the agent may schedule jobs; its alarm pops the due ones and runs them. *)
(* A cron job fails the rows nobody has touched for 24 h: it selects them, *)
(* and then updates what it has selected.                                  *)
(***************************************************************************)
EXTENDS Naturals, Sequences, FiniteSets, SequencesExt

CONSTANTS Message,  \* messages for the agent, each the trigger of a run
          Job,      \* jobs the agent may schedule for itself
          Batch,    \* rows a sweep selects at most (200)
          MaxFaults \* bound on failing calls, crashes and lost callers

ASSUME RunsAssumption ==
  /\ IsFiniteSet(Message) /\ IsFiniteSet(Job) /\ Message \cap Job = {}
  /\ Batch \in Nat \ {0} /\ MaxFaults \in Nat

Run == Message \cup Job

VARIABLES
  mode,      \* agents.runtimeMode
  status,    \* of each row; "none": there is no row
  out,       \* rows with an output message
  fresh,     \* rows updated in the last 24 h
  sweep,     \* what the sweeper has selected
  \* the bridge and its requests
  asked,     \* <<run, status>> the bridge has sent
  patches,   \* PATCH requests being handled
  visible,   \* runs whose reply has reached D1
  ack,       \* final status the bridge was told is recorded
  \* the dispatcher and the agent's object
  caller,    \* the dispatcher of each message
  named,     \* messages whose dispatcher has a run id
  stage,     \* each invocation in the object
  logged,    \* invocations with a run id, the dispatcher's or their own
  queue,     \* invocations that wait for the mutex or hold it
  failing,   \* invocations with a runFailure
  reply,     \* what each invocation has posted
  history,   \* the agent's conversation: <<invocation, role>>
  schedules, \* jobs scheduled
  popped,    \* jobs the alarm handler has taken and not yet run
  faults,
  trouble    \* ghost: runs whose bookkeeping something interfered with

rowVars    == <<status, out, fresh>>
bridgeVars == <<asked, patches, visible, ack>>
callerVars == <<caller, named>>
agentVars  == <<stage, logged, queue, failing, reply, history, schedules, popped>>
vars == <<mode, rowVars, sweep, bridgeVars, callerVars, agentVars, faults, trouble>>

Final  == {"completed", "failed"}
Active == {"queued", "dispatched", "running"}

\* The stages of an invocation that was cut off before it answered.
Cut == {"lost", "thrown"}

Fault == faults < MaxFaults /\ faults' = faults + 1

\* Faulty variant of Write: a row that has ended is left alone.
WriteIfActive(r, st) ==
  /\ status' = IF status[r] \in Active THEN [status EXCEPT ![r] = st] ELSE status
  /\ fresh' = fresh \cup {r}

\* An UPDATE of one row, whatever its status.
Write(r, st) ==
  /\ status' = IF status[r] = "none" THEN status ELSE [status EXCEPT ![r] = st]
  /\ fresh' = fresh \cup {r}

Insert(r, st) ==
  /\ status' = [status EXCEPT ![r] = st] /\ fresh' = fresh \cup {r}
  /\ UNCHANGED out

\* Earlier turns, which history leaves out, may have scheduled jobs.
Init ==
  /\ mode \in {"bridge", "raltic"}
  /\ status = [r \in Run |-> "none"] /\ out = {} /\ fresh = {} /\ sweep = {}
  /\ asked = {} /\ patches = {} /\ visible = {}
  /\ ack = [r \in Run |-> "none"]
  /\ caller = [m \in Message |-> "new"] /\ named = {}
  /\ schedules \in SUBSET Job /\ (mode = "bridge" => schedules = {})
  /\ stage = [r \in Run |-> IF r \in schedules THEN "scheduled" ELSE "new"]
  /\ logged = {} /\ queue = <<>> /\ failing = {}
  /\ reply = [r \in Run |-> "none"] /\ history = <<>>
  /\ popped = <<>> /\ faults = 0 /\ trouble = {}

-----------------------------------------------------------------------------
(* The bridge's requests *)

\* POST /api/v1/agent-runs.
Create(r) ==
  /\ mode = "bridge" /\ r \in Message /\ status[r] = "none"
  /\ Insert(r, "queued")
  /\ UNCHANGED <<mode, sweep, bridgeVars, callerVars, agentVars, faults, trouble>>

\* The bridge reports: a run that runs, and how it ended.  Two events of the
\* laptop may each report an end.
Ask(r, st) ==
  /\ mode = "bridge" /\ status[r] # "none" /\ <<r, st>> \notin asked
  /\ asked' = asked \cup {<<r, st>>}
  /\ patches' = patches \cup {[run |-> r, to |-> st, pc |-> "read"]}
  /\ UNCHANGED <<mode, rowVars, sweep, visible, ack, callerVars, agentVars, faults,
                 trouble>>

\* The reply of a run is flushed to D1.
Flush(r) ==
  /\ mode = "bridge" /\ status[r] # "none" /\ r \notin visible
  /\ visible' = visible \cup {r}
  /\ UNCHANGED <<mode, rowVars, sweep, asked, patches, ack, callerVars, agentVars,
                 faults, trouble>>

\* The row is read: a final one is a conflict.  A completed run names its
\* output, which has to be in D1; the bridge will try again if it is not.
PatchRead(p) ==
  LET missing == p.to = "completed" /\ p.run \notin visible
      refused == status[p.run] \in Final \/ missing
  IN /\ p.pc = "read"
     /\ patches' = (patches \ {p})
          \cup (IF refused THEN {} ELSE {[p EXCEPT !.pc = "write"]})
     /\ asked' = IF status[p.run] \notin Final /\ missing
                 THEN asked \ {<<p.run, p.to>>} ELSE asked
     /\ UNCHANGED <<mode, rowVars, sweep, visible, ack, callerVars, agentVars,
                    faults, trouble>>

\* Faulty variant of StillActive: the row that was read is trusted.
Trusting(r) == TRUE

\* The condition of the route's UPDATE.
StillActive(r) == status[r] \in Active

PatchWrite(p) ==
  LET hit == StillActive(p.run)
  IN /\ p.pc = "write"
     /\ patches' = (patches \ {p}) \cup {[p EXCEPT !.pc = "answer"]}
     /\ status' = IF hit THEN [status EXCEPT ![p.run] = p.to] ELSE status
     /\ fresh' = IF hit THEN fresh \cup {p.run} ELSE fresh
     /\ out' = IF hit /\ p.to = "completed" THEN out \cup {p.run} ELSE out
     /\ UNCHANGED <<mode, sweep, asked, visible, ack, callerVars, agentVars, faults,
                    trouble>>

\* Faulty variant of Conflict: as before the review, no one looks again.
NoConflict(p) == FALSE

\* Whether another writer ended the run differently.
Conflict(p) == status[p.run] # p.to /\ status[p.run] \in Final

\* The row is read again: 409, or the update is confirmed.
PatchAnswer(p) ==
  /\ p.pc = "answer" /\ patches' = patches \ {p}
  /\ ack' = IF p.to \in Final /\ ~Conflict(p)
            THEN [ack EXCEPT ![p.run] = p.to] ELSE ack
  /\ UNCHANGED <<mode, rowVars, sweep, asked, visible, callerVars, agentVars, faults,
                 trouble>>

-----------------------------------------------------------------------------
(* The dispatcher of a cloud agent: dispatchToCloudAgents, dispatchToAgents *)

\* Faulty variant of RunIds: a run id though the insert failed.
AnyId(r, inserted) == logged \cup {r}

\* The run ids known, after an insert that may have failed.
RunIds(r, inserted) == IF inserted THEN logged \cup {r} ELSE logged

Quiet == UNCHANGED <<mode, sweep, bridgeVars>>

\* The row is inserted, or that fails and the invocation has no run id yet.
Dispatch(m) ==
  /\ mode = "raltic" /\ caller[m] = "new"
  /\ caller' = [caller EXCEPT ![m] = "inserted"]
  /\ \/ /\ Insert(m, "dispatched") /\ logged' = RunIds(m, TRUE)
        /\ named' = named \cup {m} /\ UNCHANGED faults
     \/ Fault /\ logged' = RunIds(m, FALSE) /\ UNCHANGED <<rowVars, named>>
  /\ Quiet /\ UNCHANGED <<stage, queue, failing, reply, history, schedules,
                          popped, trouble>>

\* bind and onInvoke: the invocation queues for the mutex.
Invoke(m) ==
  /\ caller[m] = "inserted" /\ caller' = [caller EXCEPT ![m] = "calling"]
  /\ stage' = [stage EXCEPT ![m] = "waiting"] /\ queue' = Append(queue, m)
  /\ Quiet /\ UNCHANGED <<rowVars, named, logged, failing, reply, history,
                          schedules, popped, faults, trouble>>

\* onInvoke returns, with the reply or with an error, or it throws.
Returns(m) ==
  /\ caller[m] = "calling" /\ stage[m] \in {"done", "refused", "thrown"}
  /\ caller' = [caller EXCEPT ![m] = IF stage[m] = "done" THEN "done" ELSE "telling"]
  /\ Quiet /\ UNCHANGED <<rowVars, named, agentVars, faults, trouble>>

\* The call throws though the object may go on, or the dispatcher is gone.
CallBreaks(m) ==
  /\ caller[m] \in {"inserted", "calling"} /\ Fault
  /\ \E to \in {"telling", "gone"} : caller' = [caller EXCEPT ![m] = to]
  /\ trouble' = trouble \cup {m}
  /\ Quiet /\ UNCHANGED <<rowVars, named, agentVars>>

\* markRunFailed of the dispatcher: of the run it has inserted, not of one the
\* object had to insert.
TellFailed(m) ==
  /\ caller[m] = "telling" /\ caller' = [caller EXCEPT ![m] = "done"]
  /\ \/ IF m \in named THEN Write(m, "failed") /\ UNCHANGED <<out, faults>>
        ELSE UNCHANGED <<rowVars, faults>>
     \/ Fault /\ UNCHANGED rowVars
  /\ Quiet /\ UNCHANGED <<named, agentVars, trouble>>

-----------------------------------------------------------------------------
(* The agent's object *)

Goes(r, st) == stage' = [stage EXCEPT ![r] = st]

\* Faulty variant of Leaves: the mutex is not released.
StaysIn == queue

\* The mutex is released by who holds it, whatever became of the run.
Leaves == Tail(queue)

\* Faulty variant of HoldsMutex: invocations run side by side.
NoMutex(r) == \E i \in DOMAIN queue : queue[i] = r

\* StateMutex: first come, first served.
HoldsMutex(r) == queue # <<>> /\ Head(queue) = r

Out(r, st) == IF st = "completed" \/ reply[r] # "none" THEN out \cup {r} ELSE out \ {r}

\* updateRun: errors are swallowed.
Reports(r, st) ==
  \/ /\ r \in logged /\ Write(r, st) /\ UNCHANGED <<faults, trouble>>
     /\ out' = IF st = "running" THEN out ELSE Out(r, st)
  \/ r \notin logged /\ UNCHANGED <<rowVars, faults, trouble>>
  \/ r \in logged /\ Fault /\ UNCHANGED rowVars /\ trouble' = trouble \cup {r}

\* runInvocation begins: a row of its own if the caller brought none.
Begin(r) ==
  /\ stage[r] = "waiting" /\ HoldsMutex(r) /\ Goes(r, "checking")
  /\ \/ r \in logged /\ UNCHANGED <<rowVars, logged, faults>>
     \/ /\ r \notin logged /\ Insert(r, "dispatched")
        /\ logged' = RunIds(r, TRUE) /\ UNCHANGED faults
     \/ /\ r \notin logged /\ Fault
        /\ logged' = RunIds(r, FALSE) /\ UNCHANGED rowVars
  /\ Quiet /\ UNCHANGED <<callerVars, queue, failing, reply, history, schedules,
                          popped, trouble>>

\* No model gateway, or no tokens left.
Refuse(r) ==
  /\ stage[r] = "checking" /\ HoldsMutex(r) /\ Goes(r, "refused")
  /\ queue' = Leaves
  /\ Reports(r, "failed")
  /\ Quiet /\ UNCHANGED <<callerVars, logged, failing, reply, history, schedules,
                          popped>>

\* markRunRunning, and the user's turn joins the history.
TakesUp(r) ==
  /\ stage[r] = "checking" /\ HoldsMutex(r)
  /\ Reports(r, "running") /\ history' = Append(history, <<r, "user">>)
  /\ Quiet /\ UNCHANGED <<callerVars, logged, failing, reply, schedules, popped>>

Work(r) == TakesUp(r) /\ Goes(r, "working") /\ UNCHANGED queue

\* Without a key resolveModel throws, and nothing catches that: the turn is
\* stored, and nobody posts an answer, saves it or reports.
NoModel(r) == TakesUp(r) /\ Goes(r, "thrown") /\ queue' = Leaves

\* schedule_self, once per job; updateSchedules runs under its own lock.
Schedule(r, j) ==
  /\ stage[r] = "working" /\ j \notin schedules /\ stage[j] = "new"
  /\ \A i \in DOMAIN popped : popped[i] # j
  /\ schedules' = schedules \cup {j} /\ Goes(j, "scheduled")
  /\ Quiet /\ UNCHANGED <<rowVars, callerVars, logged, queue, failing, reply, history,
                          popped, faults, trouble>>

\* cancel_schedule.
Cancel(r, j) ==
  /\ stage[r] = "working" /\ j \in schedules
  /\ schedules' = schedules \ {j} /\ Goes(j, "cancelled")
  /\ Quiet /\ UNCHANGED <<rowVars, callerVars, logged, queue, failing, reply, history,
                          popped, faults, trouble>>

\* The model's stream ends well, or in an error or a timeout.
StreamEnds(r) ==
  /\ stage[r] = "working" /\ Goes(r, "posting")
  /\ \/ UNCHANGED failing
     \/ failing' = failing \cup {r}
  /\ Quiet /\ UNCHANGED <<rowVars, callerVars, logged, queue, reply, history,
                          schedules, popped, faults, trouble>>

\* Faulty variant of PostFails: a reply that could not be posted is no failure.
Unnoticed(r) == failing

\* The runs that fail because their reply could not be posted.
PostFails(r) == failing \cup {r}

\* postFinal, through the channel's object; an error is posted as an apology.
Post(r) ==
  /\ stage[r] = "posting" /\ Goes(r, "saving")
  /\ \/ /\ reply' = [reply EXCEPT ![r] = IF r \in failing THEN "apology" ELSE "answer"]
        /\ UNCHANGED <<failing, faults>>
     \/ Fault /\ failing' = PostFails(r) /\ UNCHANGED reply
  /\ Quiet /\ UNCHANGED <<rowVars, callerVars, logged, queue, history, schedules,
                          popped, trouble>>

Save(r) ==
  /\ stage[r] = "saving" /\ Goes(r, "reporting")
  /\ history' = Append(history, <<r, "assistant">>)
  /\ Quiet /\ UNCHANGED <<rowVars, callerVars, logged, queue, failing, reply,
                          schedules, popped, faults, trouble>>

\* How the run ends.
Verdict(r) == IF r \in failing THEN "failed" ELSE "completed"

\* markRunFailed or markRunCompleted; the mutex is released.
Report(r) ==
  /\ stage[r] = "reporting" /\ Goes(r, "done")
  /\ queue' = Leaves
  /\ Reports(r, Verdict(r))
  /\ Quiet /\ UNCHANGED <<callerVars, logged, failing, reply, history, schedules,
                          popped>>

\* alarm: the due jobs leave the schedule before any of them runs.
AlarmPops(due) ==
  /\ mode = "raltic" /\ due # {} /\ due \subseteq schedules /\ popped = <<>>
  /\ \A j \in Job : stage[j] \in 
       {"new", "scheduled", "cancelled", "done", "refused"} \cup Cut
  /\ popped' = SetToSeq(due) /\ schedules' = schedules \ due
  /\ Quiet /\ UNCHANGED <<rowVars, callerVars, stage, logged, queue, failing, reply,
                          history, faults, trouble>>

\* The handler runs the jobs it took, each when the former has ended.
AlarmRuns ==
  /\ popped # <<>>
  /\ \A i \in DOMAIN queue : queue[i] \notin Job
  /\ queue' = Append(queue, Head(popped)) /\ popped' = Tail(popped)
  /\ Goes(Head(popped), "waiting")
  /\ Quiet /\ UNCHANGED <<rowVars, callerVars, logged, failing, reply, history,
                          schedules, faults, trouble>>

\* The object restarts: what is in memory is lost, and callers see it throw.
Crash ==
  LET hit == {r \in Run : \E i \in DOMAIN queue : queue[i] = r}
             \cup {r \in Run : \E i \in DOMAIN popped : popped[i] = r}
  IN /\ hit # {} /\ Fault
     /\ stage' = [r \in Run |-> IF r \in hit THEN "lost" ELSE stage[r]]
     /\ queue' = <<>> /\ popped' = <<>>
     /\ caller' = [m \in Message |-> IF m \in hit /\ caller[m] = "calling"
                                     THEN "telling" ELSE caller[m]]
     /\ Quiet /\ UNCHANGED <<rowVars, named, logged, failing, reply, history,
                             schedules, trouble>>

-----------------------------------------------------------------------------
(* The sweeper *)

Age(r) ==
  /\ r \in fresh /\ fresh' = fresh \ {r}
  /\ UNCHANGED <<mode, status, out, sweep, bridgeVars, callerVars, agentVars, faults,
                 trouble>>

\* Faulty variant of Stale: runs that run are not looked for.
NotRunning == {r \in Run \ fresh : status[r] \in {"queued", "dispatched"}}

Stale == {r \in Run \ fresh : status[r] \in Active}

\* The active rows that are stale, oldest first, a batch at a time.
SweepSelects(S) ==
  /\ sweep = {} /\ S # {} /\ S \subseteq Stale
  /\ Cardinality(S) = Batch \/ (S = Stale /\ Cardinality(S) < Batch)
  /\ sweep' = S
  /\ UNCHANGED <<mode, rowVars, bridgeVars, callerVars, agentVars, faults, trouble>>

\* The rows of the UPDATE: by id, as they were selected.
SweepHits == sweep

SweepUpdates ==
  /\ sweep # {} /\ sweep' = {}
  /\ status' = [r \in Run |-> IF r \in SweepHits THEN "failed" ELSE status[r]]
  /\ fresh' = fresh \cup SweepHits
  /\ trouble' = trouble \cup {r \in SweepHits : status[r] \in Final}
  /\ UNCHANGED <<mode, out, bridgeVars, callerVars, agentVars, faults>>

Agent(r) ==
  \/ Begin(r) \/ Refuse(r) \/ Work(r) \/ NoModel(r) \/ StreamEnds(r) \/ Post(r)
  \/ Save(r) \/ Report(r)

Next ==
  \/ \E r \in Run : Create(r) \/ Flush(r) \/ Agent(r) \/ Age(r)
  \/ \E r \in Message, st \in {"running", "completed", "failed"} : Ask(r, st)
  \/ \E p \in patches : PatchRead(p) \/ PatchWrite(p) \/ PatchAnswer(p)
  \/ \E m \in Message :
       Dispatch(m) \/ Invoke(m) \/ Returns(m) \/ CallBreaks(m) \/ TellFailed(m)
  \/ \E r \in Run, j \in Job : Schedule(r, j) \/ Cancel(r, j)
  \/ \E due \in SUBSET Job : AlarmPops(due)
  \/ AlarmRuns \/ Crash
  \/ \E S \in SUBSET Run : SweepSelects(S)
  \/ SweepUpdates

Spec == Init /\ [][Next]_vars

\* Requests are handled, the object works on, time passes and the cron job
\* runs; people need not write, a bridge need not report and nothing must fail.
FairSpec ==
  /\ Spec
  /\ WF_vars(\E p \in patches : PatchRead(p) \/ PatchWrite(p) \/ PatchAnswer(p))
  /\ WF_vars(\E m \in Message : Invoke(m) \/ Returns(m) \/ TellFailed(m))
  /\ WF_vars(\E r \in Run : Agent(r)) /\ WF_vars(AlarmRuns)
  /\ \A j \in Job : WF_vars(\E due \in SUBSET Job : j \in due /\ AlarmPops(due))
  /\ \A r \in Run : WF_vars(Age(r))
  /\ WF_vars(SweepUpdates \/ \E S \in SUBSET Run : SweepSelects(S))

-----------------------------------------------------------------------------
(* Properties *)

\* Type invariant: among others, only invocations with a row have a run id, and
\* what their dispatcher knows as one the object knows too.
TypeOK ==
  /\ mode \in {"bridge", "raltic"}
  /\ status \in [Run -> Active \cup Final \cup {"none"}]
  /\ out \subseteq Run /\ fresh \subseteq Run /\ visible \subseteq Run
  /\ \A r \in logged : status[r] # "none"
  /\ named \subseteq logged \cap Message
  /\ \A p \in patches : p.run \in Message /\ status[p.run] # "none"
  /\ \A i, j \in DOMAIN queue : queue[i] = queue[j] => i = j

\* What a bridge run ended as stands: requests that race the one that ended it
\* change nothing; only the sweeper may, with what it had selected before
\* (the route "rejects already-terminal runs"; scheduled.ts).
BridgeOutcomeStands ==
  [][\A r \in Message :
       mode = "bridge" /\ status[r] \in Final /\ status'[r] # status[r]
         => status'[r] = "failed" /\ r \in sweep /\ sweep' = {}]_vars

\* A bridge that is told its outcome is recorded finds it recorded, unless the
\* sweeper came late: of two that race, the loser is told (the route's 409).
AckIsTrue ==
  \A r \in Message : ack[r] # "none" /\ r \notin trouble => status[r] = ack[r]

\* A completed run shows an output that people can read: one in D1, or one the
\* agent posted and that is no apology, whoever else wrote to the row.
CompletedIsVisible ==
  \A r \in Run : status[r] = "completed" =>
    /\ r \in out
    /\ IF mode = "bridge" THEN r \in visible ELSE reply[r] = "answer"

\* A cloud agent that answered has a completed run, though the sweeper may have
\* given it up before: unless the update was lost, the dispatcher's call broke
\* or the sweeper came late.
AnsweredIsCompleted ==
  \A r \in logged \ trouble :
    stage[r] = "done" /\ reply[r] = "answer" => status[r] = "completed"

\* The conversation is a sequence of turns: what one invocation was asked is
\* followed by what it answered, and by something else only if the object
\* crashed meanwhile or had no key for the model (StateMutex: two mentions
\* "must not race on history append").
HistoryInTurns ==
  \A i \in DOMAIN history :
    /\ history[i][2] = "assistant" => i > 1 /\ history[i - 1] = <<history[i][1], "user">>
    /\ history[i][2] = "user" /\ i < Len(history)
         => history[i + 1] = <<history[i][1], "assistant">>
            \/ stage[history[i][1]] \in Cut

\* Every run ends and stays ended: who reports nothing is swept, and rows that
\* reopen after a sweep are swept again.
RunsEnd == \A r \in Run : <>[](status[r] \in Final \cup {"none"})

\* A job that is scheduled runs to its end, unless it is cancelled, it throws or
\* the object crashes after the alarm took it: the handler pops before it runs.
JobsRun ==
  \A j \in Job : stage[j] = "scheduled" ~>
    stage[j] \in {"done", "refused", "cancelled"} \cup Cut
==============================================================================
