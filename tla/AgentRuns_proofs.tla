-------------------------- MODULE AgentRuns_proofs --------------------------
(***************************************************************************)
(* Machine-checked proofs about module AgentRuns, for any number of        *)
(* messages and jobs, any batch of the sweeper and any number of faults.   *)
(***************************************************************************)
EXTENDS AgentRuns, FiniteSetTheorems, TLAPS

USE RunsAssumption

Stage ==
  {"new", "scheduled", "cancelled", "waiting", "checking", "working", "posting",
   "saving", "reporting", "done", "refused", "lost", "thrown"}
Caller  == {"new", "inserted", "calling", "telling", "gone", "done"}
Request == [run : Message, to : {"running", "completed", "failed"},
            pc : {"read", "write", "answer"}]

Types ==
  /\ mode \in {"bridge", "raltic"}
  /\ status \in [Run -> Active \cup Final \cup {"none"}]
  /\ ack \in [Run -> Final \cup {"none"}]
  /\ patches \subseteq Request
  /\ stage \in [Run -> Stage] /\ caller \in [Message -> Caller]
  /\ reply \in [Run -> {"none", "answer", "apology"}]
  /\ named \subseteq logged \cap Message
  /\ logged \subseteq Run /\ schedules \subseteq Job /\ popped \in Seq(Job)

\* The object of a bridge's agent does nothing, and a bridge asks nothing of
\* the rows of a cloud agent.
ModeInv ==
  /\ mode = "bridge" =>
       /\ logged = {} /\ schedules = {} /\ queue = <<>> /\ popped = <<>>
       /\ \A m \in Message : caller[m] = "new"
       /\ \A r \in Run : stage[r] = "new"
  /\ mode = "raltic" => patches = {} /\ \A r \in Run : ack[r] = "none"

\* What a PATCH has established when it has checked, and when it has written.
PatchInv ==
  \A p \in patches :
    /\ status[p.run] # "none"
    /\ p.pc = "answer" /\ p.to \in Final => status[p.run] \in Final
    /\ p.pc # "read" /\ p.to = "completed" => p.run \in visible

\* What the stage of an invocation says of its row and its reply.
RunInv ==
  \A r \in Run :
    /\ r \in logged => status[r] # "none"
    /\ mode = "raltic" /\ status[r] = "completed" => stage[r] \in {"done", "lost"}
    /\ stage[r] \in {"new", "waiting", "checking", "working", "posting"}
         => reply[r] # "answer"
    /\ stage[r] \in {"saving", "reporting"} =>
         (reply[r] = "answer" <=> r \notin failing)

\* A job that has yet to run has left no trace, and runs once.
JobInv ==
  /\ \A j \in Job :
       j \in schedules \/ (\E i \in DOMAIN popped : popped[i] = j) =>
         /\ stage[j] \in {"scheduled", "lost"}
         /\ reply[j] # "answer" /\ status[j] # "completed"
  /\ \A i, k \in DOMAIN popped : popped[i] = popped[k] => i = k
  /\ \A i \in DOMAIN popped : popped[i] \notin schedules

\* A dispatcher calls once, and reports a failure only of a call that failed
\* or that it lost.
CallerInv ==
  \A m \in Message :
    /\ mode = "raltic" /\ caller[m] \in {"new", "inserted"} =>
         /\ stage[m] \in {"new", "lost"}
         /\ reply[m] # "answer" /\ status[m] # "completed"
    /\ caller[m] = "telling" /\ m \notin trouble => stage[m] \in {"refused"} \cup Cut

Inv ==
  /\ Types /\ ModeInv /\ PatchInv /\ RunInv /\ JobInv /\ CallerInv
  /\ AckIsTrue /\ CompletedIsVisible /\ AnsweredIsCompleted

-----------------------------------------------------------------------------
LEMMA InitInv == Init => Inv
BY DEF Init, Inv, Types, ModeInv, PatchInv, RunInv, JobInv, CallerInv, AckIsTrue,
       CompletedIsVisible, AnsweredIsCompleted, Run, Stage, Caller, Active, Final

\* Whatever moves in the object or its dispatchers, the agent is a cloud agent.
LEMMA Cloud ==
  ASSUME Inv,
         \/ \E r \in Run : stage[r] # "new"
         \/ \E m \in Message : caller[m] # "new"
         \/ queue # <<>> \/ popped # <<>> \/ schedules # {} \/ mode = "raltic"
  PROVE  mode = "raltic" /\ patches = {} /\ \A r \in Run : ack[r] = "none"
BY DEF Inv, Types, ModeInv

LEMMA ObjectStep ==
  ASSUME Inv, NEW r \in Run, Agent(r)
  PROVE  Inv'
<1> USE DEF Goes, Quiet, bridgeVars, rowVars, callerVars, Cut, Run
<1>1. ASSUME Begin(r)
      PROVE  Inv'
  <2>0. mode = "raltic" /\ patches = {} /\ \A q \in Run : ack[q] = "none"
    BY <1>1, Cloud DEF Begin, Inv, Types, Run
  <2>1. Types'
    BY <1>1, <2>0 DEF Inv, Types, Run, Stage, Caller, Active, Final, Begin,
       Insert, RunIds
  <2>2. ModeInv' /\ PatchInv' /\ AckIsTrue'
    BY <1>1, <2>0 DEF Inv, ModeInv, PatchInv, AckIsTrue, Begin, Insert, RunIds
  <2>3. RunInv'
    BY <1>1, <2>0 DEF Inv, Types, RunInv, JobInv, CallerInv, Begin, Insert,
       RunIds
  <2>4. JobInv'
    BY <1>1, <2>0 DEF Inv, Types, RunInv, JobInv, Begin, Insert, RunIds
  <2>5. CallerInv'
    BY <1>1, <2>0 DEF Inv, Types, RunInv, CallerInv, Begin, Insert, RunIds
  <2>6. CompletedIsVisible'
    BY <1>1, <2>0 DEF Inv, Types, RunInv, CompletedIsVisible, Begin, Insert,
       RunIds
  <2>7. AnsweredIsCompleted'
    BY <1>1, <2>0 DEF Inv, Types, RunInv, CallerInv, AnsweredIsCompleted, Begin,
       Insert, RunIds
  <2> QED BY <2>1, <2>2, <2>3, <2>4, <2>5, <2>6, <2>7 DEF Inv
<1>2. ASSUME Refuse(r)
      PROVE  Inv'
  <2>0. mode = "raltic" /\ patches = {} /\ \A q \in Run : ack[q] = "none"
    BY <1>2, Cloud DEF Refuse, Inv, Types, Run
  <2>1. Types'
    BY <1>2, <2>0 DEF Inv, Types, Run, Stage, Caller, Active, Final, Refuse,
       Reports, Write, Out
  <2>2. ModeInv' /\ PatchInv' /\ AckIsTrue'
    BY <1>2, <2>0 DEF Inv, ModeInv, PatchInv, AckIsTrue, Refuse, Reports, Write,
       Out
  <2>3. RunInv'
    BY <1>2, <2>0 DEF Inv, Types, RunInv, JobInv, CallerInv, Refuse, Reports,
       Write, Out
  <2>4. JobInv'
    BY <1>2, <2>0 DEF Inv, Types, RunInv, JobInv, Refuse, Reports, Write, Out
  <2>5. CallerInv'
    BY <1>2, <2>0 DEF Inv, Types, RunInv, CallerInv, Refuse, Reports, Write, Out
  <2>6. CompletedIsVisible'
    BY <1>2, <2>0 DEF Inv, Types, RunInv, CompletedIsVisible, Refuse, Reports,
       Write, Out
  <2>7. AnsweredIsCompleted'
    BY <1>2, <2>0 DEF Inv, Types, RunInv, CallerInv, AnsweredIsCompleted, Refuse,
       Reports, Write, Out
  <2> QED BY <2>1, <2>2, <2>3, <2>4, <2>5, <2>6, <2>7 DEF Inv
<1>3. ASSUME Work(r)
      PROVE  Inv'
  <2>0. mode = "raltic" /\ patches = {} /\ \A q \in Run : ack[q] = "none"
    BY <1>3, Cloud DEF TakesUp, Work, Inv, Types, Run
  <2>1. Types'
    BY <1>3, <2>0 DEF Inv, Types, Run, Stage, Caller, Active, Final, TakesUp,
       Work, Reports, Write, Out
  <2>2. ModeInv' /\ PatchInv' /\ AckIsTrue'
    BY <1>3, <2>0 DEF Inv, ModeInv, PatchInv, AckIsTrue, TakesUp, Work, Reports,
       Write, Out
  <2>3. RunInv'
    BY <1>3, <2>0 DEF Inv, Types, RunInv, JobInv, CallerInv, TakesUp, Work,
       Reports, Write, Out
  <2>4. JobInv'
    BY <1>3, <2>0 DEF Inv, Types, RunInv, JobInv, TakesUp, Work, Reports, Write,
       Out
  <2>5. CallerInv'
    BY <1>3, <2>0 DEF Inv, Types, RunInv, CallerInv, TakesUp, Work, Reports,
       Write, Out
  <2>6. CompletedIsVisible'
    BY <1>3, <2>0 DEF Inv, Types, RunInv, CompletedIsVisible, TakesUp, Work,
       Reports, Write, Out
  <2>7. AnsweredIsCompleted'
    BY <1>3, <2>0 DEF Inv, Types, RunInv, CallerInv, AnsweredIsCompleted,
       TakesUp, Work, Reports, Write, Out
  <2> QED BY <2>1, <2>2, <2>3, <2>4, <2>5, <2>6, <2>7 DEF Inv
<1>3a. ASSUME NoModel(r)
      PROVE  Inv'
  <2>0. mode = "raltic" /\ patches = {} /\ \A q \in Run : ack[q] = "none"
    BY <1>3a, Cloud DEF TakesUp, NoModel, Inv, Types, Run
  <2>1. Types'
    BY <1>3a, <2>0 DEF Inv, Types, Run, Stage, Caller, Active, Final, TakesUp,
       NoModel, Reports, Write, Out
  <2>2. ModeInv' /\ PatchInv' /\ AckIsTrue'
    BY <1>3a, <2>0 DEF Inv, ModeInv, PatchInv, AckIsTrue, TakesUp, NoModel,
       Reports, Write, Out
  <2>3. RunInv'
    BY <1>3a, <2>0 DEF Inv, Types, RunInv, JobInv, CallerInv, TakesUp, NoModel,
       Reports, Write, Out
  <2>4. JobInv'
    BY <1>3a, <2>0 DEF Inv, Types, RunInv, JobInv, TakesUp, NoModel, Reports,
       Write, Out
  <2>5. CallerInv'
    BY <1>3a, <2>0 DEF Inv, Types, RunInv, CallerInv, TakesUp, NoModel, Reports,
       Write, Out
  <2>6. CompletedIsVisible'
    BY <1>3a, <2>0 DEF Inv, Types, RunInv, CompletedIsVisible, TakesUp, NoModel,
       Reports, Write, Out
  <2>7. AnsweredIsCompleted'
    BY <1>3a, <2>0 DEF Inv, Types, RunInv, CallerInv, AnsweredIsCompleted,
       TakesUp, NoModel, Reports, Write, Out
  <2> QED BY <2>1, <2>2, <2>3, <2>4, <2>5, <2>6, <2>7 DEF Inv
<1>4. ASSUME StreamEnds(r)
      PROVE  Inv'
  <2>0. mode = "raltic" /\ patches = {} /\ \A q \in Run : ack[q] = "none"
    BY <1>4, Cloud DEF StreamEnds, Inv, Types, Run
  <2>1. Types'
    BY <1>4, <2>0 DEF Inv, Types, Run, Stage, Caller, Active, Final, StreamEnds
  <2>2. ModeInv' /\ PatchInv' /\ AckIsTrue'
    BY <1>4, <2>0 DEF Inv, ModeInv, PatchInv, AckIsTrue, StreamEnds
  <2>3. RunInv'
    BY <1>4, <2>0 DEF Inv, Types, RunInv, JobInv, CallerInv, StreamEnds
  <2>4. JobInv'
    BY <1>4, <2>0 DEF Inv, Types, RunInv, JobInv, StreamEnds
  <2>5. CallerInv'
    BY <1>4, <2>0 DEF Inv, Types, RunInv, CallerInv, StreamEnds
  <2>6. CompletedIsVisible'
    BY <1>4, <2>0 DEF Inv, Types, RunInv, CompletedIsVisible, StreamEnds
  <2>7. AnsweredIsCompleted'
    BY <1>4, <2>0 DEF Inv, Types, RunInv, CallerInv, AnsweredIsCompleted,
       StreamEnds
  <2> QED BY <2>1, <2>2, <2>3, <2>4, <2>5, <2>6, <2>7 DEF Inv
<1>5. ASSUME Post(r)
      PROVE  Inv'
  <2>0. mode = "raltic" /\ patches = {} /\ \A q \in Run : ack[q] = "none"
    BY <1>5, Cloud DEF Post, Inv, Types, Run
  <2>1. Types'
    BY <1>5, <2>0 DEF Inv, Types, Run, Stage, Caller, Active, Final, Post,
       PostFails
  <2>2. ModeInv' /\ PatchInv' /\ AckIsTrue'
    BY <1>5, <2>0 DEF Inv, ModeInv, PatchInv, AckIsTrue, Post, PostFails
  <2>3. RunInv'
    BY <1>5, <2>0 DEF Inv, Types, RunInv, JobInv, CallerInv, Post, PostFails
  <2>4. JobInv'
    BY <1>5, <2>0 DEF Inv, Types, RunInv, JobInv, Post, PostFails
  <2>5. CallerInv'
    BY <1>5, <2>0 DEF Inv, Types, RunInv, CallerInv, Post, PostFails
  <2>6. CompletedIsVisible'
    BY <1>5, <2>0 DEF Inv, Types, RunInv, CompletedIsVisible, Post, PostFails
  <2>7. AnsweredIsCompleted'
    BY <1>5, <2>0 DEF Inv, Types, RunInv, CallerInv, AnsweredIsCompleted, Post,
       PostFails
  <2> QED BY <2>1, <2>2, <2>3, <2>4, <2>5, <2>6, <2>7 DEF Inv
<1>6. ASSUME Save(r)
      PROVE  Inv'
  <2>0. mode = "raltic" /\ patches = {} /\ \A q \in Run : ack[q] = "none"
    BY <1>6, Cloud DEF Save, Inv, Types, Run
  <2>1. Types'
    BY <1>6, <2>0 DEF Inv, Types, Run, Stage, Caller, Active, Final, Save
  <2>2. ModeInv' /\ PatchInv' /\ AckIsTrue'
    BY <1>6, <2>0 DEF Inv, ModeInv, PatchInv, AckIsTrue, Save
  <2>3. RunInv'
    BY <1>6, <2>0 DEF Inv, Types, RunInv, JobInv, CallerInv, Save
  <2>4. JobInv'
    BY <1>6, <2>0 DEF Inv, Types, RunInv, JobInv, Save
  <2>5. CallerInv'
    BY <1>6, <2>0 DEF Inv, Types, RunInv, CallerInv, Save
  <2>6. CompletedIsVisible'
    BY <1>6, <2>0 DEF Inv, Types, RunInv, CompletedIsVisible, Save
  <2>7. AnsweredIsCompleted'
    BY <1>6, <2>0 DEF Inv, Types, RunInv, CallerInv, AnsweredIsCompleted, Save
  <2> QED BY <2>1, <2>2, <2>3, <2>4, <2>5, <2>6, <2>7 DEF Inv
<1>7. ASSUME Report(r)
      PROVE  Inv'
  <2>0. mode = "raltic" /\ patches = {} /\ \A q \in Run : ack[q] = "none"
    BY <1>7, Cloud DEF Report, Inv, Types, Run
  <2>1. Types'
    BY <1>7, <2>0 DEF Inv, Types, Run, Stage, Caller, Active, Final, Report,
       Reports, Write, Out, Verdict
  <2>2. ModeInv' /\ PatchInv' /\ AckIsTrue'
    BY <1>7, <2>0 DEF Inv, ModeInv, PatchInv, AckIsTrue, Report, Reports, Write,
       Out, Verdict
  <2>3. RunInv'
    BY <1>7, <2>0 DEF Inv, Types, RunInv, JobInv, CallerInv, Report, Reports,
       Write, Out, Verdict
  <2>4. JobInv'
    BY <1>7, <2>0 DEF Inv, Types, RunInv, JobInv, Report, Reports, Write, Out,
       Verdict
  <2>5. CallerInv'
    BY <1>7, <2>0 DEF Inv, Types, RunInv, CallerInv, Report, Reports, Write, Out,
       Verdict
  <2>6. CompletedIsVisible'
    BY <1>7, <2>0 DEF Inv, Types, RunInv, CompletedIsVisible, Report, Reports,
       Write, Out, Verdict
  <2>7. AnsweredIsCompleted'
    BY <1>7, <2>0 DEF Inv, Types, RunInv, CallerInv, AnsweredIsCompleted, Report,
       Reports, Write, Out, Verdict
  <2> QED BY <2>1, <2>2, <2>3, <2>4, <2>5, <2>6, <2>7 DEF Inv
<1> QED BY <1>1, <1>2, <1>3, <1>3a, <1>4, <1>5, <1>6, <1>7 DEF Agent

LEMMA DispatcherStep ==
  ASSUME Inv, NEW m \in Message,
         Dispatch(m) \/ Invoke(m) \/ Returns(m) \/ CallBreaks(m) \/ TellFailed(m)
  PROVE  Inv'
<1> USE DEF Quiet, bridgeVars, rowVars, callerVars, agentVars, Cut, Run
<1>1. ASSUME Dispatch(m)
      PROVE  Inv'
  <2>0. mode = "raltic" /\ patches = {} /\ \A q \in Run : ack[q] = "none"
    BY <1>1, Cloud DEF Dispatch, Inv, Types, Run
  <2>1. Types'
    BY <1>1, <2>0 DEF Inv, Types, Run, Stage, Caller, Active, Final, Dispatch,
       Insert, RunIds
  <2>2. ModeInv' /\ PatchInv' /\ AckIsTrue'
    BY <1>1, <2>0 DEF Inv, ModeInv, PatchInv, AckIsTrue, Dispatch, Insert, RunIds
  <2>3. RunInv'
    BY <1>1, <2>0 DEF Inv, Types, RunInv, JobInv, CallerInv, Dispatch, Insert,
       RunIds
  <2>4. JobInv'
    BY <1>1, <2>0 DEF Inv, Types, RunInv, JobInv, Dispatch, Insert, RunIds
  <2>5. CallerInv'
    BY <1>1, <2>0 DEF Inv, Types, RunInv, CallerInv, Dispatch, Insert, RunIds
  <2>6. CompletedIsVisible'
    BY <1>1, <2>0 DEF Inv, Types, RunInv, CompletedIsVisible, Dispatch, Insert,
       RunIds
  <2>7. AnsweredIsCompleted'
    BY <1>1, <2>0 DEF Inv, Types, RunInv, CallerInv, AnsweredIsCompleted,
       Dispatch, Insert, RunIds
  <2> QED BY <2>1, <2>2, <2>3, <2>4, <2>5, <2>6, <2>7 DEF Inv
<1>2. ASSUME Invoke(m)
      PROVE  Inv'
  <2>0. mode = "raltic" /\ patches = {} /\ \A q \in Run : ack[q] = "none"
    BY <1>2, Cloud DEF Invoke, Inv, Types, Run
  <2>1. Types'
    BY <1>2, <2>0 DEF Inv, Types, Run, Stage, Caller, Active, Final, Invoke
  <2>2. ModeInv' /\ PatchInv' /\ AckIsTrue'
    BY <1>2, <2>0 DEF Inv, ModeInv, PatchInv, AckIsTrue, Invoke
  <2>3. RunInv'
    BY <1>2, <2>0 DEF Inv, Types, RunInv, JobInv, CallerInv, Invoke
  <2>4. JobInv'
    BY <1>2, <2>0 DEF Inv, Types, RunInv, JobInv, Invoke
  <2>5. CallerInv'
    BY <1>2, <2>0 DEF Inv, Types, RunInv, CallerInv, Invoke
  <2>6. CompletedIsVisible'
    BY <1>2, <2>0 DEF Inv, Types, RunInv, CompletedIsVisible, Invoke
  <2>7. AnsweredIsCompleted'
    BY <1>2, <2>0 DEF Inv, Types, RunInv, CallerInv, AnsweredIsCompleted, Invoke
  <2> QED BY <2>1, <2>2, <2>3, <2>4, <2>5, <2>6, <2>7 DEF Inv
<1>3. ASSUME Returns(m)
      PROVE  Inv'
  <2>0. mode = "raltic" /\ patches = {} /\ \A q \in Run : ack[q] = "none"
    BY <1>3, Cloud DEF Returns, Inv, Types, Run
  <2>1. Types'
    BY <1>3, <2>0 DEF Inv, Types, Run, Stage, Caller, Active, Final, Returns
  <2>2. ModeInv' /\ PatchInv' /\ AckIsTrue'
    BY <1>3, <2>0 DEF Inv, ModeInv, PatchInv, AckIsTrue, Returns
  <2>3. RunInv'
    BY <1>3, <2>0 DEF Inv, Types, RunInv, JobInv, CallerInv, Returns
  <2>4. JobInv'
    BY <1>3, <2>0 DEF Inv, Types, RunInv, JobInv, Returns
  <2>5. CallerInv'
    BY <1>3, <2>0 DEF Inv, Types, RunInv, CallerInv, Returns
  <2>6. CompletedIsVisible'
    BY <1>3, <2>0 DEF Inv, Types, RunInv, CompletedIsVisible, Returns
  <2>7. AnsweredIsCompleted'
    BY <1>3, <2>0 DEF Inv, Types, RunInv, CallerInv, AnsweredIsCompleted, Returns
  <2> QED BY <2>1, <2>2, <2>3, <2>4, <2>5, <2>6, <2>7 DEF Inv
<1>4. ASSUME CallBreaks(m)
      PROVE  Inv'
  <2>0. mode = "raltic" /\ patches = {} /\ \A q \in Run : ack[q] = "none"
    BY <1>4, Cloud DEF CallBreaks, Inv, Types, Run
  <2>1. Types'
    BY <1>4, <2>0 DEF Inv, Types, Run, Stage, Caller, Active, Final, CallBreaks
  <2>2. ModeInv' /\ PatchInv' /\ AckIsTrue'
    BY <1>4, <2>0 DEF Inv, ModeInv, PatchInv, AckIsTrue, CallBreaks
  <2>3. RunInv'
    BY <1>4, <2>0 DEF Inv, Types, RunInv, JobInv, CallerInv, CallBreaks
  <2>4. JobInv'
    BY <1>4, <2>0 DEF Inv, Types, RunInv, JobInv, CallBreaks
  <2>5. CallerInv'
    BY <1>4, <2>0 DEF Inv, Types, RunInv, CallerInv, CallBreaks
  <2>6. CompletedIsVisible'
    BY <1>4, <2>0 DEF Inv, Types, RunInv, CompletedIsVisible, CallBreaks
  <2>7. AnsweredIsCompleted'
    BY <1>4, <2>0 DEF Inv, Types, RunInv, CallerInv, AnsweredIsCompleted,
       CallBreaks
  <2> QED BY <2>1, <2>2, <2>3, <2>4, <2>5, <2>6, <2>7 DEF Inv
<1>5. ASSUME TellFailed(m)
      PROVE  Inv'
  <2>0. mode = "raltic" /\ patches = {} /\ \A q \in Run : ack[q] = "none"
    BY <1>5, Cloud DEF TellFailed, Inv, Types, Run
  <2>1. Types'
    BY <1>5, <2>0 DEF Inv, Types, Run, Stage, Caller, Active, Final, TellFailed,
       Write
  <2>2. ModeInv' /\ PatchInv' /\ AckIsTrue'
    BY <1>5, <2>0 DEF Inv, ModeInv, PatchInv, AckIsTrue, TellFailed, Write
  <2>3. RunInv'
    BY <1>5, <2>0 DEF Inv, Types, RunInv, JobInv, CallerInv, TellFailed, Write
  <2>4. JobInv'
    BY <1>5, <2>0 DEF Inv, Types, RunInv, JobInv, TellFailed, Write
  <2>5. CallerInv'
    BY <1>5, <2>0 DEF Inv, Types, RunInv, CallerInv, TellFailed, Write
  <2>6. CompletedIsVisible'
    BY <1>5, <2>0 DEF Inv, Types, RunInv, CompletedIsVisible, TellFailed, Write
  <2>7. AnsweredIsCompleted'
    BY <1>5, <2>0 DEF Inv, Types, RunInv, CallerInv, AnsweredIsCompleted,
       TellFailed, Write
  <2> QED BY <2>1, <2>2, <2>3, <2>4, <2>5, <2>6, <2>7 DEF Inv
<1> QED BY <1>1, <1>2, <1>3, <1>4, <1>5

\* The jobs that are due become a sequence of them, each once.
LEMMA DueInTurn ==
  ASSUME NEW due \in SUBSET Job
  PROVE  /\ SetToSeq(due) \in Seq(Job)
         /\ \A i \in DOMAIN SetToSeq(due) : SetToSeq(due)[i] \in due
         /\ \A i, k \in DOMAIN SetToSeq(due) :
              SetToSeq(due)[i] = SetToSeq(due)[k] => i = k
<1>1. IsFiniteSet(due)
  BY FS_Subset
<1>2. ExistsBijection(1..Cardinality(due), due) /\ Cardinality(due) \in Nat
  BY <1>1, FS_CardinalityType
<1>3. PICK f \in Bijection(1..Cardinality(due), due) : TRUE
  BY <1>2 DEF ExistsBijection
<1>4. f \in [1..Cardinality(due) -> due] /\ IsInjective(f)
  BY <1>3 DEF Bijection, Injection
<1>5. SetToSeq(due) \in [1..Cardinality(due) -> due] /\ IsInjective(SetToSeq(due))
  BY <1>4 DEF SetToSeq
<1> QED BY <1>2, <1>5 DEF IsInjective

\* The job that is run next, and the ones behind it.
LEMMA NextJob ==
  ASSUME Types, popped # <<>>
  PROVE  /\ Head(popped) \in Job /\ Tail(popped) \in Seq(Job)
         /\ 1 \in DOMAIN popped /\ popped[1] = Head(popped)
         /\ \A i \in DOMAIN Tail(popped) :
              /\ i \in Nat /\ i + 1 \in DOMAIN popped /\ i + 1 # 1
              /\ Tail(popped)[i] = popped[i + 1]
<1>1. popped \in Seq(Job) /\ Len(popped) \in Nat /\ Len(popped) > 0
  BY DEF Types
<1> QED BY <1>1

LEMMA JobStep ==
  ASSUME Inv,
         \/ \E r \in Run, j \in Job : Schedule(r, j) \/ Cancel(r, j)
         \/ \E due \in SUBSET Job : AlarmPops(due)
         \/ AlarmRuns \/ Crash
  PROVE  Inv'
<1> USE DEF Goes, Quiet, bridgeVars, rowVars, callerVars, Cut, Run
<1>1. ASSUME NEW r \in Run, NEW j \in Job, Schedule(r, j)
      PROVE  Inv'
  <2>0. mode = "raltic" /\ patches = {} /\ \A q \in Run : ack[q] = "none"
    BY <1>1, Cloud DEF Schedule, Inv, Types, Run
  <2>1. Types'
    BY <1>1, <2>0 DEF Inv, Types, Run, Stage, Caller, Active, Final, Schedule
  <2>2. ModeInv' /\ PatchInv' /\ AckIsTrue'
    BY <1>1, <2>0 DEF Inv, ModeInv, PatchInv, AckIsTrue, Schedule
  <2>3. RunInv'
    BY <1>1, <2>0 DEF Inv, Types, RunInv, JobInv, CallerInv, Schedule
  <2>4. JobInv'
    BY <1>1, <2>0 DEF Inv, Types, RunInv, JobInv, Schedule
  <2>5. CallerInv'
    BY <1>1, <2>0 DEF Inv, Types, RunInv, CallerInv, Schedule
  <2>6. CompletedIsVisible'
    BY <1>1, <2>0 DEF Inv, Types, RunInv, CompletedIsVisible, Schedule
  <2>7. AnsweredIsCompleted'
    BY <1>1, <2>0 DEF Inv, Types, RunInv, CallerInv, AnsweredIsCompleted,
       Schedule
  <2> QED BY <2>1, <2>2, <2>3, <2>4, <2>5, <2>6, <2>7 DEF Inv
<1>2. ASSUME NEW r \in Run, NEW j \in Job, Cancel(r, j)
      PROVE  Inv'
  <2>0. mode = "raltic" /\ patches = {} /\ \A q \in Run : ack[q] = "none"
    BY <1>2, Cloud DEF Cancel, Inv, Types, Run
  <2>1. Types'
    BY <1>2, <2>0 DEF Inv, Types, Run, Stage, Caller, Active, Final, Cancel
  <2>2. ModeInv' /\ PatchInv' /\ AckIsTrue'
    BY <1>2, <2>0 DEF Inv, ModeInv, PatchInv, AckIsTrue, Cancel
  <2>3. RunInv'
    BY <1>2, <2>0 DEF Inv, Types, RunInv, JobInv, CallerInv, Cancel
  <2>4. JobInv'
    BY <1>2, <2>0 DEF Inv, Types, RunInv, JobInv, Cancel
  <2>5. CallerInv'
    BY <1>2, <2>0 DEF Inv, Types, RunInv, CallerInv, Cancel
  <2>6. CompletedIsVisible'
    BY <1>2, <2>0 DEF Inv, Types, RunInv, CompletedIsVisible, Cancel
  <2>7. AnsweredIsCompleted'
    BY <1>2, <2>0 DEF Inv, Types, RunInv, CallerInv, AnsweredIsCompleted, Cancel
  <2> QED BY <2>1, <2>2, <2>3, <2>4, <2>5, <2>6, <2>7 DEF Inv
<1>3. ASSUME NEW due \in SUBSET Job, AlarmPops(due)
      PROVE  Inv'
  <2>0. mode = "raltic" /\ patches = {} /\ \A q \in Run : ack[q] = "none"
    BY <1>3, Cloud DEF AlarmPops, Inv, Types, Run
  <2>1. Types'
    BY <1>3, <2>0, DueInTurn DEF Inv, Types, Run, Stage, Caller, Active, Final,
       AlarmPops
  <2>2. ModeInv' /\ PatchInv' /\ AckIsTrue'
    BY <1>3, <2>0, DueInTurn DEF Inv, ModeInv, PatchInv, AckIsTrue, AlarmPops
  <2>3. RunInv'
    BY <1>3, <2>0, DueInTurn DEF Inv, Types, RunInv, JobInv, CallerInv, AlarmPops
  <2>4. JobInv'
    BY <1>3, <2>0, DueInTurn DEF Inv, Types, RunInv, JobInv, AlarmPops
  <2>5. CallerInv'
    BY <1>3, <2>0, DueInTurn DEF Inv, Types, RunInv, CallerInv, AlarmPops
  <2>6. CompletedIsVisible'
    BY <1>3, <2>0, DueInTurn DEF Inv, Types, RunInv, CompletedIsVisible,
       AlarmPops
  <2>7. AnsweredIsCompleted'
    BY <1>3, <2>0, DueInTurn DEF Inv, Types, RunInv, CallerInv,
       AnsweredIsCompleted, AlarmPops
  <2> QED BY <2>1, <2>2, <2>3, <2>4, <2>5, <2>6, <2>7 DEF Inv
<1>4. ASSUME AlarmRuns
      PROVE  Inv'
  <2>0. mode = "raltic" /\ patches = {} /\ \A q \in Run : ack[q] = "none"
    BY <1>4, Cloud DEF AlarmRuns, Inv, Types, Run
  <2>1. Types'
    BY <1>4, <2>0, NextJob DEF Inv, Types, Run, Stage, Caller, Active, Final,
       AlarmRuns
  <2>2. ModeInv' /\ PatchInv' /\ AckIsTrue'
    BY <1>4, <2>0, NextJob DEF Inv, ModeInv, PatchInv, AckIsTrue, AlarmRuns
  <2>3. RunInv'
    BY <1>4, <2>0, NextJob DEF Inv, Types, RunInv, JobInv, CallerInv, AlarmRuns
  <2>4. JobInv'
    BY <1>4, <2>0, NextJob DEF Inv, Types, RunInv, JobInv, AlarmRuns
  <2>5. CallerInv'
    BY <1>4, <2>0, NextJob DEF Inv, Types, RunInv, CallerInv, AlarmRuns
  <2>6. CompletedIsVisible'
    BY <1>4, <2>0, NextJob DEF Inv, Types, RunInv, CompletedIsVisible, AlarmRuns
  <2>7. AnsweredIsCompleted'
    BY <1>4, <2>0, NextJob DEF Inv, Types, RunInv, CallerInv,
       AnsweredIsCompleted, AlarmRuns
  <2> QED BY <2>1, <2>2, <2>3, <2>4, <2>5, <2>6, <2>7 DEF Inv
<1>5. ASSUME Crash
      PROVE  Inv'
  <2>0. mode = "raltic" /\ patches = {} /\ \A q \in Run : ack[q] = "none"
    BY <1>5, Cloud DEF Crash, Inv, Types, Run
  <2>1. Types'
    BY <1>5, <2>0 DEF Inv, Types, Run, Stage, Caller, Active, Final, Crash
  <2>2. ModeInv' /\ PatchInv' /\ AckIsTrue'
    BY <1>5, <2>0 DEF Inv, ModeInv, PatchInv, AckIsTrue, Crash
  <2>3. RunInv'
    BY <1>5, <2>0 DEF Inv, Types, RunInv, JobInv, CallerInv, Crash
  <2>4. JobInv'
    BY <1>5, <2>0 DEF Inv, Types, RunInv, JobInv, Crash
  <2>5. CallerInv'
    BY <1>5, <2>0 DEF Inv, Types, RunInv, CallerInv, Crash
  <2>6. CompletedIsVisible'
    BY <1>5, <2>0 DEF Inv, Types, RunInv, CompletedIsVisible, Crash
  <2>7. AnsweredIsCompleted'
    BY <1>5, <2>0 DEF Inv, Types, RunInv, CallerInv, AnsweredIsCompleted, Crash
  <2> QED BY <2>1, <2>2, <2>3, <2>4, <2>5, <2>6, <2>7 DEF Inv
<1> QED BY <1>1, <1>2, <1>3, <1>4, <1>5

LEMMA SweepStep ==
  ASSUME Inv,
         \/ \E r \in Run : Age(r)
         \/ \E S \in SUBSET Run : SweepSelects(S)
         \/ SweepUpdates
  PROVE  Inv'
<1> USE DEF bridgeVars, rowVars, callerVars, agentVars, Run
<1>1. ASSUME NEW r \in Run, Age(r)
      PROVE  Inv'
  <2>1. Types'
    BY <1>1 DEF Inv, Types, Request, Active, Final, Age
  <2>2. ModeInv'
    BY <1>1 DEF Inv, ModeInv, Age
  <2>3. PatchInv'
    BY <1>1 DEF Inv, Types, Request, PatchInv, Active, Final, Age
  <2>4. RunInv'
    BY <1>1 DEF Inv, Types, RunInv, ModeInv, Age
  <2>5. JobInv'
    BY <1>1 DEF Inv, Types, JobInv, ModeInv, Age
  <2>6. CallerInv'
    BY <1>1 DEF Inv, Types, CallerInv, ModeInv, Age
  <2>7. AckIsTrue'
    BY <1>1 DEF Inv, Types, PatchInv, AckIsTrue, Final, Active, Age
  <2>8. CompletedIsVisible'
    BY <1>1 DEF Inv, Types, Request, ModeInv, PatchInv, CompletedIsVisible, Age
  <2>9. AnsweredIsCompleted'
    BY <1>1 DEF Inv, Types, ModeInv, AnsweredIsCompleted, Final, Age
  <2> QED BY <2>1, <2>2, <2>3, <2>4, <2>5, <2>6, <2>7, <2>8, <2>9 DEF Inv
<1>2. ASSUME NEW S \in SUBSET Run, SweepSelects(S)
      PROVE  Inv'
  <2>1. Types'
    BY <1>2 DEF Inv, Types, Request, Active, Final, SweepSelects
  <2>2. ModeInv'
    BY <1>2 DEF Inv, ModeInv, SweepSelects
  <2>3. PatchInv'
    BY <1>2 DEF Inv, Types, Request, PatchInv, Active, Final, SweepSelects
  <2>4. RunInv'
    BY <1>2 DEF Inv, Types, RunInv, ModeInv, SweepSelects
  <2>5. JobInv'
    BY <1>2 DEF Inv, Types, JobInv, ModeInv, SweepSelects
  <2>6. CallerInv'
    BY <1>2 DEF Inv, Types, CallerInv, ModeInv, SweepSelects
  <2>7. AckIsTrue'
    BY <1>2 DEF Inv, Types, PatchInv, AckIsTrue, Final, Active, SweepSelects
  <2>8. CompletedIsVisible'
    BY <1>2 DEF Inv, Types, Request, ModeInv, PatchInv, CompletedIsVisible,
       SweepSelects
  <2>9. AnsweredIsCompleted'
    BY <1>2 DEF Inv, Types, ModeInv, AnsweredIsCompleted, Final, SweepSelects
  <2> QED BY <2>1, <2>2, <2>3, <2>4, <2>5, <2>6, <2>7, <2>8, <2>9 DEF Inv
<1>3. ASSUME SweepUpdates
      PROVE  Inv'
  <2>1. Types'
    BY <1>3 DEF Inv, Types, Request, Active, Final, SweepUpdates, SweepHits
  <2>2. ModeInv'
    BY <1>3 DEF Inv, ModeInv, SweepUpdates, SweepHits
  <2>3. PatchInv'
    BY <1>3 DEF Inv, Types, Request, PatchInv, Active, Final, SweepUpdates,
       SweepHits
  <2>4. RunInv'
    BY <1>3 DEF Inv, Types, RunInv, ModeInv, SweepUpdates, SweepHits
  <2>5. JobInv'
    BY <1>3 DEF Inv, Types, JobInv, ModeInv, SweepUpdates, SweepHits
  <2>6. CallerInv'
    BY <1>3 DEF Inv, Types, CallerInv, ModeInv, SweepUpdates, SweepHits
  <2>7. AckIsTrue'
    BY <1>3 DEF Inv, Types, PatchInv, AckIsTrue, Final, Active, SweepUpdates,
       SweepHits
  <2>8. CompletedIsVisible'
    BY <1>3 DEF Inv, Types, Request, ModeInv, PatchInv, CompletedIsVisible,
       SweepUpdates, SweepHits
  <2>9. AnsweredIsCompleted'
    BY <1>3 DEF Inv, Types, ModeInv, AnsweredIsCompleted, Final, SweepUpdates,
       SweepHits
  <2> QED BY <2>1, <2>2, <2>3, <2>4, <2>5, <2>6, <2>7, <2>8, <2>9 DEF Inv
<1> QED BY <1>1, <1>2, <1>3

LEMMA BridgeStep ==
  ASSUME Inv,
         \/ \E r \in Run : Create(r) \/ Flush(r)
         \/ \E r \in Message, st \in {"running", "completed", "failed"} : Ask(r, st)
         \/ \E p \in patches : PatchRead(p) \/ PatchWrite(p) \/ PatchAnswer(p)
  PROVE  Inv'
<1> USE DEF bridgeVars, rowVars, callerVars, agentVars, Run
<1>1. ASSUME NEW r \in Run, Create(r)
      PROVE  Inv'
  <2>1. Types'
    BY <1>1 DEF Inv, Types, Request, Active, Final, Create, Insert
  <2>2. ModeInv'
    BY <1>1 DEF Inv, ModeInv, Create, Insert
  <2>3. PatchInv'
    BY <1>1 DEF Inv, Types, Request, PatchInv, Active, Final, Create, Insert
  <2>4. RunInv'
    BY <1>1 DEF Inv, Types, RunInv, ModeInv, Create, Insert
  <2>5. JobInv'
    BY <1>1 DEF Inv, Types, JobInv, ModeInv, Create, Insert
  <2>6. CallerInv'
    BY <1>1 DEF Inv, Types, CallerInv, ModeInv, Create, Insert
  <2>7. AckIsTrue'
    BY <1>1 DEF Inv, Types, PatchInv, AckIsTrue, Final, Active, Create, Insert
  <2>8. CompletedIsVisible'
    BY <1>1 DEF Inv, Types, Request, ModeInv, PatchInv, CompletedIsVisible,
       Create, Insert
  <2>9. AnsweredIsCompleted'
    BY <1>1 DEF Inv, Types, ModeInv, AnsweredIsCompleted, Final, Create, Insert
  <2> QED BY <2>1, <2>2, <2>3, <2>4, <2>5, <2>6, <2>7, <2>8, <2>9 DEF Inv
<1>2. ASSUME NEW r \in Run, Flush(r)
      PROVE  Inv'
  <2>1. Types'
    BY <1>2 DEF Inv, Types, Request, Active, Final, Flush
  <2>2. ModeInv'
    BY <1>2 DEF Inv, ModeInv, Flush
  <2>3. PatchInv'
    BY <1>2 DEF Inv, Types, Request, PatchInv, Active, Final, Flush
  <2>4. RunInv'
    BY <1>2 DEF Inv, Types, RunInv, ModeInv, Flush
  <2>5. JobInv'
    BY <1>2 DEF Inv, Types, JobInv, ModeInv, Flush
  <2>6. CallerInv'
    BY <1>2 DEF Inv, Types, CallerInv, ModeInv, Flush
  <2>7. AckIsTrue'
    BY <1>2 DEF Inv, Types, PatchInv, AckIsTrue, Final, Active, Flush
  <2>8. CompletedIsVisible'
    BY <1>2 DEF Inv, Types, Request, ModeInv, PatchInv, CompletedIsVisible, Flush
  <2>9. AnsweredIsCompleted'
    BY <1>2 DEF Inv, Types, ModeInv, AnsweredIsCompleted, Final, Flush
  <2> QED BY <2>1, <2>2, <2>3, <2>4, <2>5, <2>6, <2>7, <2>8, <2>9 DEF Inv
<1>3. ASSUME NEW r \in Message, NEW st \in {"running", "completed", "failed"},
             Ask(r, st)
      PROVE  Inv'
  <2>1. Types'
    BY <1>3 DEF Inv, Types, Request, Active, Final, Ask
  <2>2. ModeInv'
    BY <1>3 DEF Inv, ModeInv, Ask
  <2>3. PatchInv'
    BY <1>3 DEF Inv, Types, Request, PatchInv, Active, Final, Ask
  <2>4. RunInv'
    BY <1>3 DEF Inv, Types, RunInv, ModeInv, Ask
  <2>5. JobInv'
    BY <1>3 DEF Inv, Types, JobInv, ModeInv, Ask
  <2>6. CallerInv'
    BY <1>3 DEF Inv, Types, CallerInv, ModeInv, Ask
  <2>7. AckIsTrue'
    BY <1>3 DEF Inv, Types, PatchInv, AckIsTrue, Final, Active, Ask
  <2>8. CompletedIsVisible'
    BY <1>3 DEF Inv, Types, Request, ModeInv, PatchInv, CompletedIsVisible, Ask
  <2>9. AnsweredIsCompleted'
    BY <1>3 DEF Inv, Types, ModeInv, AnsweredIsCompleted, Final, Ask
  <2> QED BY <2>1, <2>2, <2>3, <2>4, <2>5, <2>6, <2>7, <2>8, <2>9 DEF Inv
<1>4. ASSUME NEW p \in patches, PatchRead(p)
      PROVE  Inv'
  <2>1. Types'
    BY <1>4 DEF Inv, Types, Request, Active, Final, PatchRead
  <2>2. ModeInv'
    BY <1>4 DEF Inv, ModeInv, PatchRead
  <2>3. PatchInv'
    BY <1>4 DEF Inv, Types, Request, PatchInv, Active, Final, PatchRead
  <2>4. RunInv'
    BY <1>4 DEF Inv, Types, RunInv, ModeInv, PatchRead
  <2>5. JobInv'
    BY <1>4 DEF Inv, Types, JobInv, ModeInv, PatchRead
  <2>6. CallerInv'
    BY <1>4 DEF Inv, Types, CallerInv, ModeInv, PatchRead
  <2>7. AckIsTrue'
    BY <1>4 DEF Inv, Types, PatchInv, AckIsTrue, Final, Active, PatchRead
  <2>8. CompletedIsVisible'
    BY <1>4 DEF Inv, Types, Request, ModeInv, PatchInv, CompletedIsVisible,
       PatchRead
  <2>9. AnsweredIsCompleted'
    BY <1>4 DEF Inv, Types, ModeInv, AnsweredIsCompleted, Final, PatchRead
  <2> QED BY <2>1, <2>2, <2>3, <2>4, <2>5, <2>6, <2>7, <2>8, <2>9 DEF Inv
<1>5. ASSUME NEW p \in patches, PatchWrite(p)
      PROVE  Inv'
  <2>1. Types'
    BY <1>5 DEF Inv, Types, Request, Active, Final, PatchWrite, StillActive
  <2>2. ModeInv'
    BY <1>5 DEF Inv, ModeInv, PatchWrite, StillActive
  <2>3. PatchInv'
    BY <1>5 DEF Inv, Types, Request, PatchInv, Active, Final, PatchWrite,
       StillActive
  <2>4. RunInv'
    BY <1>5 DEF Inv, Types, RunInv, ModeInv, PatchWrite, StillActive
  <2>5. JobInv'
    BY <1>5 DEF Inv, Types, JobInv, ModeInv, PatchWrite, StillActive
  <2>6. CallerInv'
    BY <1>5 DEF Inv, Types, CallerInv, ModeInv, PatchWrite, StillActive
  <2>7. AckIsTrue'
    BY <1>5 DEF Inv, Types, PatchInv, AckIsTrue, Final, Active, PatchWrite,
       StillActive
  <2>8. CompletedIsVisible'
    BY <1>5 DEF Inv, Types, Request, ModeInv, PatchInv, CompletedIsVisible,
       PatchWrite, StillActive
  <2>9. AnsweredIsCompleted'
    BY <1>5 DEF Inv, Types, ModeInv, AnsweredIsCompleted, Final, PatchWrite,
       StillActive
  <2> QED BY <2>1, <2>2, <2>3, <2>4, <2>5, <2>6, <2>7, <2>8, <2>9 DEF Inv
<1>6. ASSUME NEW p \in patches, PatchAnswer(p)
      PROVE  Inv'
  <2>1. Types'
    BY <1>6 DEF Inv, Types, Request, Active, Final, PatchAnswer, Conflict
  <2>2. ModeInv'
    BY <1>6 DEF Inv, ModeInv, PatchAnswer, Conflict
  <2>3. PatchInv'
    BY <1>6 DEF Inv, Types, Request, PatchInv, Active, Final, PatchAnswer,
       Conflict
  <2>4. RunInv'
    BY <1>6 DEF Inv, Types, RunInv, ModeInv, PatchAnswer, Conflict
  <2>5. JobInv'
    BY <1>6 DEF Inv, Types, JobInv, ModeInv, PatchAnswer, Conflict
  <2>6. CallerInv'
    BY <1>6 DEF Inv, Types, CallerInv, ModeInv, PatchAnswer, Conflict
  <2>7. AckIsTrue'
    BY <1>6 DEF Inv, Types, PatchInv, AckIsTrue, Final, Active, PatchAnswer,
       Conflict
  <2>8. CompletedIsVisible'
    BY <1>6 DEF Inv, Types, Request, ModeInv, PatchInv, CompletedIsVisible,
       PatchAnswer, Conflict
  <2>9. AnsweredIsCompleted'
    BY <1>6 DEF Inv, Types, ModeInv, AnsweredIsCompleted, Final, PatchAnswer,
       Conflict
  <2> QED BY <2>1, <2>2, <2>3, <2>4, <2>5, <2>6, <2>7, <2>8, <2>9 DEF Inv
<1> QED BY <1>1, <1>2, <1>3, <1>4, <1>5, <1>6

LEMMA InvStep == Inv /\ [Next]_vars => Inv'
<1> SUFFICES ASSUME Inv, [Next]_vars PROVE Inv'
  OBVIOUS
<1>1. CASE UNCHANGED vars
  BY <1>1 DEF vars, rowVars, bridgeVars, callerVars, agentVars, Inv, Types,
     ModeInv, PatchInv, RunInv, JobInv, CallerInv, AckIsTrue, CompletedIsVisible,
     AnsweredIsCompleted
<1>2. CASE Next
  BY <1>2, ObjectStep, DispatcherStep, JobStep, SweepStep, BridgeStep DEF Next
<1> QED BY <1>1, <1>2

OutcomeStep ==
  \A r \in Message :
    mode = "bridge" /\ status[r] \in Final /\ status'[r] # status[r]
      => status'[r] = "failed" /\ r \in sweep /\ sweep' = {}

\* For a bridge only a POST, a PATCH and the sweeper write a row.
LEMMA OnlyThreeWrite ==
  ASSUME Inv, Next, mode = "bridge"
  PROVE  \/ status' = status \/ SweepUpdates
         \/ \E r \in Run : Create(r)
         \/ \E p \in patches : PatchWrite(p)
<1> USE DEF rowVars, bridgeVars, callerVars, Run
<1>1. ASSUME NEW r \in Run, Agent(r) PROVE FALSE
  BY <1>1 DEF Inv, ModeInv, Agent, Begin, Refuse, Work, NoModel, TakesUp,
     StreamEnds, Post, Save, Report
<1>2. ASSUME NEW m \in Message,
             Dispatch(m) \/ Invoke(m) \/ Returns(m) \/ CallBreaks(m) \/ TellFailed(m)
      PROVE  FALSE
  BY <1>2 DEF Inv, ModeInv, Dispatch, Invoke, Returns, CallBreaks, TellFailed
<1>3. ASSUME NEW r \in Run, Flush(r) \/ Age(r) PROVE status' = status
  BY <1>3 DEF Flush, Age
<1>4. ASSUME NEW r \in Message, NEW st, Ask(r, st) PROVE status' = status
  BY <1>4 DEF Ask
<1>5. ASSUME NEW p \in patches, PatchRead(p) \/ PatchAnswer(p) PROVE status' = status
  BY <1>5 DEF PatchRead, PatchAnswer
<1>6. ASSUME NEW r \in Run, NEW j \in Job, Schedule(r, j) \/ Cancel(r, j)
      PROVE  status' = status
  BY <1>6 DEF Schedule, Cancel
<1>7. ASSUME NEW due, AlarmPops(due) \/ AlarmRuns \/ Crash PROVE status' = status
  BY <1>7 DEF AlarmPops, AlarmRuns, Crash
<1>8. ASSUME NEW S, SweepSelects(S) PROVE status' = status
  BY <1>8 DEF SweepSelects
<1> QED BY <1>1, <1>2, <1>3, <1>4, <1>5, <1>6, <1>7, <1>8 DEF Next

LEMMA OutcomeStands ==
  ASSUME Inv, Next
  PROVE  OutcomeStep
<1> SUFFICES ASSUME NEW r \in Message, mode = "bridge", status[r] \in Final,
                    status'[r] # status[r]
             PROVE  status'[r] = "failed" /\ r \in sweep /\ sweep' = {}
  BY DEF OutcomeStep
<1>1. CASE SweepUpdates
  BY <1>1 DEF SweepUpdates, SweepHits, Run
<1>2. ASSUME NEW q \in Run, Create(q) PROVE FALSE
  BY <1>2 DEF Create, Insert, Inv, Types, Run, Final
<1>3. ASSUME NEW p \in patches, PatchWrite(p) PROVE FALSE
  BY <1>3 DEF PatchWrite, StillActive, Inv, Types, Request, Run, Final, Active
<1> QED BY <1>1, <1>2, <1>3, OnlyThreeWrite

-----------------------------------------------------------------------------
LEMMA AlwaysInv == Spec => []Inv
<1>1. Init => Inv
  BY InitInv
<1>2. Inv /\ [Next]_vars => Inv'
  BY InvStep
<1> QED BY <1>1, <1>2, PTL DEF Spec

\* However the PATCH requests for a run race, the first that ends it decides
\* (agent-runs.ts); only a sweep that had selected the row changes it again
\* (scheduled.ts).
THEOREM FirstOutcomeStands == Spec => BridgeOutcomeStands
<1>1. Inv /\ [Next]_vars => [OutcomeStep]_vars
  BY OutcomeStands
<1> QED BY <1>1, AlwaysInv, PTL DEF Spec, BridgeOutcomeStands, OutcomeStep

\* A bridge that is told its outcome is recorded finds it recorded, unless the
\* sweeper came late (agent-runs.ts, the route's second look at the row).
THEOREM AckAlwaysTrue == Spec => []AckIsTrue
<1>1. Inv => AckIsTrue
  BY DEF Inv
<1> QED BY <1>1, AlwaysInv, PTL

\* A completed run has an output that people can read (agent-runs.ts;
\* raltic-agent.ts, runInvocation).
THEOREM CompletedAlwaysVisible == Spec => []CompletedIsVisible
<1>1. Inv => CompletedIsVisible
  BY DEF Inv
<1> QED BY <1>1, AlwaysInv, PTL

\* A cloud agent that answered has a completed run, but for the named cases
\* (raltic-agent.ts, updateRun; chat-room.ts, markRunFailed).
THEOREM AnsweredAlwaysCompleted == Spec => []AnsweredIsCompleted
<1>1. Inv => AnsweredIsCompleted
  BY DEF Inv
<1> QED BY <1>1, AlwaysInv, PTL
-----------------------------------------------------------------------------
(* The mutex of the object and the conversation *)

InObject == {"waiting", "checking", "working", "posting", "saving", "reporting"}
Busy     == InObject \ {"waiting"}
Talking  == {"working", "posting", "saving"}

RowSets == out \subseteq Run /\ fresh \subseteq Run /\ visible \subseteq Run /\ sweep \subseteq Run

\* Every invocation queues once, and only the first of the queue is worked on.
QueueInv ==
  /\ queue \in Seq(Run)
  /\ \A i, k \in 1..Len(queue) : queue[i] = queue[k] => i = k
  /\ \A i \in 1..Len(queue) : stage[queue[i]] \in InObject
  /\ \A r \in Run : stage[r] \in Busy => queue # <<>> /\ queue[1] = r

\* What is yet to be called is not in the object, and was not.
WaitInv ==
  /\ \A j \in Job : j \in schedules \/ (\E i \in DOMAIN popped : popped[i] = j) =>
       stage[j] = "scheduled"
  /\ \A m \in Message : caller[m] \in {"new", "inserted"} => stage[m] = "new"

\* The last turn is open as long as its invocation talks, or if it was cut off.
TalkInv ==
  /\ history \in Seq(Run \X {"user", "assistant"})
  /\ HistoryInTurns
  /\ \A r \in Run : stage[r] \in Talking =>
       Len(history) > 0 /\ history[Len(history)] = <<r, "user">>
  /\ Len(history) > 0 /\ history[Len(history)][2] = "user" =>
       stage[history[Len(history)][1]] \in Talking \cup Cut

ObjectInv == RowSets /\ QueueInv /\ WaitInv /\ TalkInv

LEMMA ObjectInit == Init => ObjectInv
BY DEF Init, ObjectInv, RowSets, QueueInv, WaitInv, TalkInv, HistoryInTurns, InObject,
       Busy, Talking, Run

\* One invocation moves.
Moved(r, st) ==
  stage'[r] = st /\ \A x \in Run : x # r => stage'[x] = stage[x]

LEMMA MoveFacts ==
  ASSUME Types, NEW r \in Run, NEW st, Goes(r, st)
  PROVE  Moved(r, st)
BY DEF Types, Goes, Moved

\* The turns of the conversation stay, if who was cut off stays so.
LEMMA TurnsStay ==
  ASSUME history \in Seq(Run \X {"user", "assistant"}), HistoryInTurns,
         UNCHANGED history, \A x \in Run : stage[x] \in Cut => stage'[x] \in Cut
  PROVE  HistoryInTurns'
<1>1. \A i \in DOMAIN history : history[i][1] \in Run
  OBVIOUS
<1> QED BY <1>1 DEF HistoryInTurns

\* A move that touches neither the queue nor the conversation: outside of the
\* object, in the middle of a turn, or at its beginning.
LEMMA MovesOn ==
  ASSUME QueueInv, TalkInv, NEW r \in Run, NEW st, Moved(r, st),
         UNCHANGED <<queue, history>>,
         \/ stage[r] \notin InObject \cup Cut /\ st \notin InObject
         \/ stage[r] \in Talking /\ st \in Talking
         \/ stage[r] = "waiting" /\ st = "checking" /\ HoldsMutex(r)
  PROVE  QueueInv' /\ TalkInv'
<1>1. QueueInv'
  BY DEF QueueInv, Moved, InObject, Busy, Talking, HoldsMutex
<1>2. HistoryInTurns'
  BY TurnsStay DEF TalkInv, Moved, InObject, Talking, Cut
<1>3. TalkInv'
  <2>1. \A x \in Run : stage'[x] \in Talking =>
          Len(history) > 0 /\ history[Len(history)] = <<x, "user">>
    BY DEF TalkInv, Moved, InObject, Talking
  <2>2. Len(history) > 0 /\ history[Len(history)][2] = "user" =>
          stage'[history[Len(history)][1]] \in Talking \cup Cut
    <3> SUFFICES ASSUME Len(history) > 0, history[Len(history)][2] = "user"
                 PROVE  stage'[history[Len(history)][1]] \in Talking \cup Cut
      OBVIOUS
    <3>1. /\ history[Len(history)][1] \in Run
          /\ stage[history[Len(history)][1]] \in Talking \cup Cut
      BY DEF TalkInv
    <3> QED BY <3>1 DEF Moved, InObject, Talking, Cut
  <2> QED BY <1>2, <2>1, <2>2 DEF TalkInv
<1> QED BY <1>1, <1>3

\* An invocation queues.
LEMMA Joins ==
  ASSUME QueueInv, TalkInv, NEW r \in Run, stage[r] \notin InObject \cup Cut,
         Moved(r, "waiting"), queue' = Append(queue, r), UNCHANGED history
  PROVE  QueueInv' /\ TalkInv'
<1>1. /\ queue' \in Seq(Run) /\ Len(queue') = Len(queue) + 1 /\ queue'[Len(queue) + 1] = r
      /\ \A i \in 1..Len(queue) : queue'[i] = queue[i]
      /\ Len(queue) \in Nat /\ (queue # <<>> => queue' # <<>> /\ queue'[1] = queue[1])
  BY DEF QueueInv
<1>2. \A i \in 1..Len(queue) : queue[i] # r /\ queue[i] \in Run
  BY DEF QueueInv
<1>3. \A i \in 1..(Len(queue) + 1) : i \in 1..Len(queue) \/ i = Len(queue) + 1
  BY <1>1
<1>4. \A i, k \in 1..Len(queue') : queue'[i] = queue'[k] => i = k
  BY <1>1, <1>2, <1>3 DEF QueueInv
<1>5. \A i \in 1..Len(queue') : stage'[queue'[i]] \in InObject
  BY <1>1, <1>2, <1>3 DEF QueueInv, Moved, InObject
<1>6. \A x \in Run : stage'[x] \in Busy => queue' # <<>> /\ queue'[1] = x
  BY <1>1 DEF QueueInv, Moved, InObject, Busy
<1>7. HistoryInTurns'
  BY TurnsStay DEF TalkInv, Moved
<1>8. \A x \in Run : stage'[x] \in Talking =>
        Len(history) > 0 /\ history[Len(history)] = <<x, "user">>
  BY DEF TalkInv, Moved, Talking
<1>9. Len(history) > 0 /\ history[Len(history)][2] = "user" =>
        stage'[history[Len(history)][1]] \in Talking \cup Cut
  BY DEF TalkInv, Moved, Talking, InObject
<1> QED BY <1>1, <1>4, <1>5, <1>6, <1>7, <1>8, <1>9 DEF QueueInv, TalkInv

\* An invocation releases the mutex; the one behind it gets it.
LEMMA Leave ==
  ASSUME QueueInv, NEW r \in Run, stage[r] \in Busy,
         NEW st, st \notin InObject, Moved(r, st), queue' = Leaves
  PROVE  QueueInv' /\ \A x \in Run : stage'[x] \notin Busy
<1>1. /\ queue # <<>> /\ queue[1] = r /\ Len(queue) \in Nat /\ Len(queue) > 0
      /\ queue' \in Seq(Run) /\ Len(queue') = Len(queue) - 1
      /\ \A i \in 1..(Len(queue) - 1) : queue'[i] = queue[i + 1]
  BY DEF QueueInv, Leaves
<1>2. \A i \in 1..(Len(queue) - 1) : i + 1 \in 1..Len(queue) /\ i + 1 # 1
  BY <1>1
<1>3. \A i \in 1..(Len(queue) - 1) : queue'[i] # r /\ queue'[i] \in Run
  BY <1>1, <1>2 DEF QueueInv
<1>4. \A i, k \in 1..Len(queue') : queue'[i] = queue'[k] => i = k
  BY <1>1, <1>2 DEF QueueInv
<1>5. \A i \in 1..Len(queue') : stage'[queue'[i]] \in InObject
  BY <1>1, <1>2, <1>3 DEF QueueInv, Moved
<1>6. \A x \in Run : stage'[x] \notin Busy
  BY <1>1 DEF QueueInv, Moved, InObject, Busy
<1> QED BY <1>1, <1>4, <1>5, <1>6 DEF QueueInv

\* An invocation ends after its turn, or before it.
LEMMA Ends ==
  ASSUME QueueInv, TalkInv, NEW r \in Run, stage[r] \in Busy \ Talking,
         NEW st \in {"refused", "done"}, Moved(r, st), queue' = Leaves,
         UNCHANGED history
  PROVE  QueueInv' /\ TalkInv'
<1>1. QueueInv' /\ \A x \in Run : stage'[x] \notin Busy
  BY Leave DEF InObject
<1>2. HistoryInTurns'
  BY TurnsStay DEF TalkInv, Moved, Busy, InObject, Cut
<1>3. Len(history) > 0 /\ history[Len(history)][2] = "user" =>
        stage'[history[Len(history)][1]] \in Talking \cup Cut
  BY DEF TalkInv, Moved, Talking, InObject, Busy, Cut
<1>4. \A x \in Run : stage'[x] \notin Talking
  BY <1>1 DEF Talking, Busy, InObject
<1> QED BY <1>1, <1>2, <1>3, <1>4 DEF TalkInv

\* The conversation gets longer.
LEMMA Longer ==
  ASSUME TalkInv, NEW r \in Run, NEW role \in {"user", "assistant"},
         history' = Append(history, <<r, role>>)
  PROVE  /\ history' \in Seq(Run \X {"user", "assistant"})
         /\ Len(history) \in Nat /\ Len(history') = Len(history) + 1
         /\ DOMAIN history = 1..Len(history) /\ DOMAIN history' = 1..(Len(history) + 1)
         /\ \A i \in 1..Len(history) : history'[i] = history[i] /\ history[i][1] \in Run
         /\ history'[Len(history) + 1] = <<r, role>>
<1>1. <<r, role>> \in Run \X {"user", "assistant"}
  OBVIOUS
<1>2. history \in Seq(Run \X {"user", "assistant"})
  BY DEF TalkInv
<1> QED BY <1>1, <1>2

\* A turn begins: the turn before has ended, or its invocation was cut off.
LEMMA TurnBegins ==
  ASSUME QueueInv, TalkInv, NEW r \in Run, stage[r] = "checking", NEW st,
         Moved(r, st), history' = Append(history, <<r, "user">>)
  PROVE  /\ HistoryInTurns' /\ history' \in Seq(Run \X {"user", "assistant"})
         /\ Len(history') > 0 /\ history'[Len(history')] = <<r, "user">>
         /\ \A x \in Run : x # r => stage'[x] \notin Talking
<1>2. queue # <<>> /\ queue[1] = r
  BY DEF QueueInv, InObject, Busy
<1>3. /\ history' \in Seq(Run \X {"user", "assistant"})
      /\ Len(history) \in Nat /\ Len(history') = Len(history) + 1
      /\ DOMAIN history = 1..Len(history) /\ DOMAIN history' = 1..(Len(history) + 1)
      /\ \A i \in 1..Len(history) : history'[i] = history[i] /\ history[i][1] \in Run
      /\ history'[Len(history) + 1] = <<r, "user">>
  BY Longer
<1>4. \A x \in Run : x # r => stage[x] \notin Talking
  BY <1>2 DEF QueueInv, Talking, Busy, InObject
<1>5. Len(history) > 0 /\ history[Len(history)][2] = "user" =>
        stage'[history[Len(history)][1]] \in Cut
  <2> SUFFICES ASSUME Len(history) > 0, history[Len(history)][2] = "user"
               PROVE  stage'[history[Len(history)][1]] \in Cut
    OBVIOUS
  <2>1. /\ history[Len(history)][1] \in Run
        /\ stage[history[Len(history)][1]] \in Talking \cup Cut
    BY <1>3 DEF TalkInv
  <2> QED BY <1>4, <2>1 DEF Moved, Talking, Cut
<1>6. \A x \in Run : stage[x] \in Cut => stage'[x] \in Cut
  BY DEF Moved, Cut
<1>7. ASSUME NEW i \in DOMAIN history'
      PROVE  /\ history'[i][2] = "assistant" =>
                  i > 1 /\ history'[i - 1] = <<history'[i][1], "user">>
             /\ history'[i][2] = "user" /\ i < Len(history') =>
                  history'[i + 1] = <<history'[i][1], "assistant">>
                  \/ stage'[history'[i][1]] \in Cut
  <2>1. CASE i = Len(history) + 1
    <3>1. history'[i] = <<r, "user">> /\ ~(i < Len(history'))
      BY <1>3, <2>1
    <3> QED BY <3>1
  <2>2. CASE i = Len(history) /\ i # 0
    <3>0. i \in 1..Len(history) /\ (i > 1 => i - 1 \in 1..Len(history))
      BY <1>3, <2>2
    <3>1. /\ i \in DOMAIN history /\ history'[i] = history[i]
          /\ (i > 1 => history'[i - 1] = history[i - 1])
      BY <1>3, <3>0
    <3>2. history[i][2] = "assistant" => i > 1 /\ history[i - 1] = <<history[i][1], "user">>
      BY <3>1 DEF TalkInv, HistoryInTurns
    <3>3. history[i][2] = "user" => stage'[history[i][1]] \in Cut
      BY <1>3, <1>5, <2>2
    <3> QED BY <3>1, <3>2, <3>3
  <2>3. CASE i \in 1..(Len(history) - 1)
    <3>1. /\ i \in DOMAIN history /\ i < Len(history) /\ i + 1 \in 1..Len(history)
          /\ (i > 1 => i - 1 \in 1..Len(history))
      BY <1>3, <2>3
    <3>2. /\ history[i][2] = "assistant" => i > 1 /\ history[i - 1] = <<history[i][1], "user">>
          /\ history[i][2] = "user" => history[i + 1] = <<history[i][1], "assistant">>
                                       \/ stage[history[i][1]] \in Cut
      BY <3>1 DEF TalkInv, HistoryInTurns
    <3> QED BY <1>3, <1>6, <3>1, <3>2
  <2> QED BY <1>3, <2>1, <2>2, <2>3
<1>8. HistoryInTurns'
  BY <1>7 DEF HistoryInTurns
<1> QED BY <1>3, <1>4, <1>8 DEF Moved

\* The turn of an invocation that works.
LEMMA Begins ==
  ASSUME QueueInv, TalkInv, NEW r \in Run, stage[r] = "checking", HoldsMutex(r),
         Moved(r, "working"), UNCHANGED queue,
         history' = Append(history, <<r, "user">>)
  PROVE  QueueInv' /\ TalkInv'
<1>1. QueueInv'
  BY DEF QueueInv, Moved, InObject, Busy, HoldsMutex
<1>2. stage'[r] \in Talking
  BY DEF Moved, Talking
<1>3. /\ HistoryInTurns' /\ history' \in Seq(Run \X {"user", "assistant"})
      /\ Len(history') > 0 /\ history'[Len(history')] = <<r, "user">>
      /\ \A x \in Run : x # r => stage'[x] \notin Talking
  BY TurnBegins
<1>4. history'[Len(history')][1] = r
  BY <1>3
<1> QED BY <1>1, <1>2, <1>3, <1>4 DEF TalkInv

\* The turn of an invocation that throws: it stays open.
LEMMA Throws ==
  ASSUME QueueInv, TalkInv, NEW r \in Run, stage[r] = "checking",
         Moved(r, "thrown"), queue' = Leaves,
         history' = Append(history, <<r, "user">>)
  PROVE  QueueInv' /\ TalkInv'
<1>1. QueueInv'
  BY Leave DEF Busy, InObject, Talking
<1>2. stage'[r] \in Cut /\ stage'[r] \notin Talking
  BY DEF Moved, Talking, Cut
<1>3. /\ HistoryInTurns' /\ history' \in Seq(Run \X {"user", "assistant"})
      /\ Len(history') > 0 /\ history'[Len(history')] = <<r, "user">>
      /\ \A x \in Run : x # r => stage'[x] \notin Talking
  BY TurnBegins
<1>4. history'[Len(history')][1] = r
  BY <1>3
<1> QED BY <1>1, <1>2, <1>3, <1>4 DEF TalkInv

\* A turn ends: what its invocation was asked is the last entry.
LEMMA Answers ==
  ASSUME QueueInv, TalkInv, NEW r \in Run, stage[r] = "saving",
         Moved(r, "reporting"), UNCHANGED queue,
         history' = Append(history, <<r, "assistant">>)
  PROVE  QueueInv' /\ TalkInv'
<1>1. QueueInv'
  BY DEF QueueInv, Moved, InObject, Busy
<1>2. queue # <<>> /\ queue[1] = r
  BY DEF QueueInv, InObject, Busy
<1>3. /\ history' \in Seq(Run \X {"user", "assistant"})
      /\ Len(history) \in Nat /\ Len(history') = Len(history) + 1
      /\ DOMAIN history = 1..Len(history) /\ DOMAIN history' = 1..(Len(history) + 1)
      /\ \A i \in 1..Len(history) : history'[i] = history[i] /\ history[i][1] \in Run
      /\ history'[Len(history) + 1] = <<r, "assistant">>
  BY Longer
<1>4. \A x \in Run : stage'[x] \notin Talking
  BY <1>2 DEF QueueInv, Talking, Busy, InObject, Moved
<1>5. Len(history) > 0 /\ history[Len(history)] = <<r, "user">>
  BY DEF TalkInv, Talking
<1>6. \A x \in Run : stage[x] \in Cut => stage'[x] \in Cut
  BY DEF Moved, Cut
<1>7. ASSUME NEW i \in DOMAIN history'
      PROVE  /\ history'[i][2] = "assistant" =>
                  i > 1 /\ history'[i - 1] = <<history'[i][1], "user">>
             /\ history'[i][2] = "user" /\ i < Len(history') =>
                  history'[i + 1] = <<history'[i][1], "assistant">>
                  \/ stage'[history'[i][1]] \in Cut
  <2>1. CASE i = Len(history) + 1
    <3>1. i > 1 /\ i - 1 = Len(history) /\ i - 1 \in 1..Len(history)
      BY <1>3, <1>5, <2>1
    <3> QED BY <1>3, <1>5, <2>1, <3>1
  <2>2. CASE i = Len(history) /\ i # 0
    <3>1. history'[i] = <<r, "user">> /\ history'[i + 1] = <<r, "assistant">>
      BY <1>3, <1>5, <2>2
    <3> QED BY <3>1
  <2>3. CASE i \in 1..(Len(history) - 1)
    <3>1. /\ i \in DOMAIN history /\ i < Len(history) /\ i + 1 \in 1..Len(history)
          /\ (i > 1 => i - 1 \in 1..Len(history))
      BY <1>3, <2>3
    <3>2. /\ history[i][2] = "assistant" => i > 1 /\ history[i - 1] = <<history[i][1], "user">>
          /\ history[i][2] = "user" => history[i + 1] = <<history[i][1], "assistant">>
                                       \/ stage[history[i][1]] \in Cut
      BY <3>1 DEF TalkInv, HistoryInTurns
    <3> QED BY <1>3, <1>6, <3>1, <3>2
  <2> QED BY <1>3, <2>1, <2>2, <2>3
<1>8. HistoryInTurns'
  BY <1>7 DEF HistoryInTurns
<1>9. history'[Len(history')][2] = "assistant"
  BY <1>3
<1> QED BY <1>1, <1>3, <1>4, <1>8, <1>9 DEF TalkInv

\* The object restarts: the turn that is open stays open for good.
LEMMA Restarts ==
  ASSUME Inv, ObjectInv, Crash
  PROVE  QueueInv' /\ WaitInv' /\ TalkInv'
<1> DEFINE hit == {r \in Run : \E i \in DOMAIN queue : queue[i] = r}
                  \cup {r \in Run : \E i \in DOMAIN popped : popped[i] = r}
<1>1. /\ stage' = [r \in Run |-> IF r \in hit THEN "lost" ELSE stage[r]]
      /\ queue' = <<>> /\ popped' = <<>> /\ UNCHANGED <<history, schedules>>
      /\ caller' = [m \in Message |-> IF m \in hit /\ caller[m] = "calling"
                                      THEN "telling" ELSE caller[m]]
  BY DEF Crash
<1>2. \A r \in Run : stage[r] \in InObject /\ r \notin hit => stage[r] = "waiting"
  BY DEF ObjectInv, QueueInv, Busy
<1>3. \A r \in Run : r \in hit => stage[r] \in InObject \/ (r \in Job /\ r \notin schedules)
  BY DEF ObjectInv, QueueInv, Inv, Types, JobInv
<1> HIDE DEF hit
<1>4. \A r \in Run : stage'[r] = IF r \in hit THEN "lost" ELSE stage[r]
  BY <1>1
<1>5. queue' \in Seq(Run) /\ Len(queue') = 0 /\ DOMAIN popped' = {}
  BY <1>1
<1>6. \A r \in Run : stage'[r] \notin Busy
  BY <1>2, <1>4 DEF Busy, InObject
<1>7. QueueInv'
  BY <1>5, <1>6 DEF QueueInv
<1>8. WaitInv'
  <2>1. ASSUME NEW j \in Job, j \in schedules
        PROVE  stage'[j] = "scheduled"
    BY <1>3, <1>4, <2>1 DEF ObjectInv, WaitInv, InObject, Run
  <2>2. ASSUME NEW m \in Message, caller'[m] \in {"new", "inserted"}
        PROVE  stage'[m] = "new"
    <3>1. caller[m] \in {"new", "inserted"}
      BY <1>1, <2>2
    <3> QED BY <1>3, <1>4, <3>1, RunsAssumption DEF ObjectInv, WaitInv, InObject, Run
  <2> QED BY <1>1, <1>5, <2>1, <2>2 DEF WaitInv
<1>9. HistoryInTurns'
  BY <1>1, <1>4, TurnsStay DEF ObjectInv, TalkInv, Cut
<1>10. Len(history) > 0 /\ history[Len(history)][2] = "user" =>
         stage'[history[Len(history)][1]] \in Talking \cup Cut
  <2> SUFFICES ASSUME Len(history) > 0, history[Len(history)][2] = "user"
               PROVE  stage'[history[Len(history)][1]] \in Talking \cup Cut
    OBVIOUS
  <2>1. /\ history[Len(history)][1] \in Run
        /\ stage[history[Len(history)][1]] \in Talking \cup Cut
    BY DEF ObjectInv, TalkInv
  <2> QED BY <1>4, <2>1 DEF Cut
<1>11. \A r \in Run : stage'[r] \notin Talking
  BY <1>6 DEF Talking, Busy, InObject
<1> QED BY <1>1, <1>7, <1>8, <1>9, <1>10, <1>11 DEF ObjectInv, TalkInv

-----------------------------------------------------------------------------
\* An invocation that has been called moves: what is yet to be called stays.
LEMMA WaitersStay ==
  ASSUME WaitInv, NEW r \in Run, NEW st, Moved(r, st),
         stage[r] \notin {"new", "scheduled"},
         UNCHANGED <<schedules, popped, caller>>
  PROVE  WaitInv'
BY DEF WaitInv, Moved, Run

LEMMA AgentTalks ==
  ASSUME Inv, ObjectInv, NEW r \in Run, Agent(r)
  PROVE  QueueInv' /\ WaitInv' /\ TalkInv'
<1>0. Types /\ QueueInv /\ WaitInv /\ TalkInv
  BY DEF Inv, ObjectInv
<1>1. ASSUME Begin(r)
      PROVE  QueueInv' /\ WaitInv' /\ TalkInv'
  <2>1. /\ stage[r] = "waiting" /\ HoldsMutex(r) /\ Goes(r, "checking")
        /\ UNCHANGED <<queue, history, schedules, popped, caller>>
    BY <1>1 DEF Begin, callerVars
  <2>2. Moved(r, "checking")
    BY <1>0, <2>1, MoveFacts
  <2> QED BY <1>0, <2>1, <2>2, MovesOn, WaitersStay
<1>2. ASSUME Refuse(r)
      PROVE  QueueInv' /\ WaitInv' /\ TalkInv'
  <2>1. /\ stage[r] = "checking" /\ Goes(r, "refused") /\ queue' = Leaves
        /\ UNCHANGED <<history, schedules, popped, caller>>
    BY <1>2 DEF Refuse, callerVars
  <2>2. Moved(r, "refused") /\ stage[r] \in Busy \ Talking
    BY <1>0, <2>1, MoveFacts DEF Busy, Talking, InObject
  <2> QED BY <1>0, <2>1, <2>2, Ends, WaitersStay
<1>3. ASSUME Work(r)
      PROVE  QueueInv' /\ WaitInv' /\ TalkInv'
  <2>1. /\ stage[r] = "checking" /\ HoldsMutex(r) /\ Goes(r, "working")
        /\ history' = Append(history, <<r, "user">>)
        /\ UNCHANGED <<queue, schedules, popped, caller>>
    BY <1>3 DEF Work, TakesUp, callerVars
  <2>2. Moved(r, "working")
    BY <1>0, <2>1, MoveFacts
  <2> QED BY <1>0, <2>1, <2>2, Begins, WaitersStay
<1>3a. ASSUME NoModel(r)
      PROVE  QueueInv' /\ WaitInv' /\ TalkInv'
  <2>1. /\ stage[r] = "checking" /\ Goes(r, "thrown") /\ queue' = Leaves
        /\ history' = Append(history, <<r, "user">>)
        /\ UNCHANGED <<schedules, popped, caller>>
    BY <1>3a DEF NoModel, TakesUp, callerVars
  <2>2. Moved(r, "thrown")
    BY <1>0, <2>1, MoveFacts
  <2> QED BY <1>0, <2>1, <2>2, Throws, WaitersStay
<1>4. ASSUME StreamEnds(r)
      PROVE  QueueInv' /\ WaitInv' /\ TalkInv'
  <2>1. /\ stage[r] = "working" /\ Goes(r, "posting")
        /\ UNCHANGED <<queue, history, schedules, popped, caller>>
    BY <1>4 DEF StreamEnds, callerVars
  <2>2. Moved(r, "posting") /\ stage[r] \in Talking /\ "posting" \in Talking
    BY <1>0, <2>1, MoveFacts DEF Talking
  <2> QED BY <1>0, <2>1, <2>2, MovesOn, WaitersStay
<1>5. ASSUME Post(r)
      PROVE  QueueInv' /\ WaitInv' /\ TalkInv'
  <2>1. /\ stage[r] = "posting" /\ Goes(r, "saving")
        /\ UNCHANGED <<queue, history, schedules, popped, caller>>
    BY <1>5 DEF Post, callerVars
  <2>2. Moved(r, "saving") /\ stage[r] \in Talking /\ "saving" \in Talking
    BY <1>0, <2>1, MoveFacts DEF Talking
  <2> QED BY <1>0, <2>1, <2>2, MovesOn, WaitersStay
<1>6. ASSUME Save(r)
      PROVE  QueueInv' /\ WaitInv' /\ TalkInv'
  <2>1. /\ stage[r] = "saving" /\ Goes(r, "reporting")
        /\ history' = Append(history, <<r, "assistant">>)
        /\ UNCHANGED <<queue, schedules, popped, caller>>
    BY <1>6 DEF Save, callerVars
  <2>2. Moved(r, "reporting")
    BY <1>0, <2>1, MoveFacts
  <2> QED BY <1>0, <2>1, <2>2, Answers, WaitersStay
<1>7. ASSUME Report(r)
      PROVE  QueueInv' /\ WaitInv' /\ TalkInv'
  <2>1. /\ stage[r] = "reporting" /\ Goes(r, "done") /\ queue' = Leaves
        /\ UNCHANGED <<history, schedules, popped, caller>>
    BY <1>7 DEF Report, callerVars
  <2>2. Moved(r, "done") /\ stage[r] \in Busy \ Talking
    BY <1>0, <2>1, MoveFacts DEF Busy, Talking, InObject
  <2> QED BY <1>0, <2>1, <2>2, Ends, WaitersStay
<1> QED BY <1>1, <1>2, <1>3, <1>3a, <1>4, <1>5, <1>6, <1>7 DEF Agent

\* Nothing moves in the object.
LEMMA ObjectStays ==
  ASSUME ObjectInv, UNCHANGED <<stage, queue, history, schedules, popped>>,
         \A m \in Message :
           caller'[m] \in {"new", "inserted"} => caller[m] \in {"new", "inserted"}
  PROVE  QueueInv' /\ WaitInv' /\ TalkInv'
<1>1. QueueInv'
  BY DEF ObjectInv, QueueInv
<1>2. WaitInv'
  BY DEF ObjectInv, WaitInv
<1>3. TalkInv'
  BY DEF ObjectInv, TalkInv, HistoryInTurns
<1> QED BY <1>1, <1>2, <1>3

LEMMA DispatcherTalks ==
  ASSUME Inv, ObjectInv, NEW m \in Message,
         Dispatch(m) \/ Invoke(m) \/ Returns(m) \/ CallBreaks(m) \/ TellFailed(m)
  PROVE  QueueInv' /\ WaitInv' /\ TalkInv'
<1>0. Types /\ QueueInv /\ WaitInv /\ TalkInv /\ m \in Run
  BY DEF Inv, ObjectInv, Run
<1>1. CASE Invoke(m)
  <2>1. /\ caller[m] = "inserted" /\ caller' = [caller EXCEPT ![m] = "calling"]
        /\ Goes(m, "waiting") /\ queue' = Append(queue, m)
        /\ UNCHANGED <<history, schedules, popped>>
    BY <1>1 DEF Invoke, Goes
  <2>2. Moved(m, "waiting")
    BY <1>0, <2>1, MoveFacts
  <2>3. stage[m] = "new"
    BY <1>0, <2>1 DEF WaitInv
  <2>4. QueueInv' /\ TalkInv'
    BY <1>0, <2>1, <2>2, <2>3, Joins DEF InObject, Cut
  <2>5. ASSUME NEW j \in Job, j \in schedules \/ (\E i \in DOMAIN popped : popped[i] = j)
        PROVE  stage'[j] = "scheduled"
    BY <1>0, <2>2, <2>5, RunsAssumption DEF WaitInv, Moved, Run
  <2>6. ASSUME NEW x \in Message, caller'[x] \in {"new", "inserted"}
        PROVE  stage'[x] = "new"
    BY <1>0, <2>1, <2>2, <2>6 DEF WaitInv, Moved, Run, Types
  <2> QED BY <2>1, <2>4, <2>5, <2>6 DEF WaitInv
<1>2. CASE Dispatch(m) \/ Returns(m) \/ CallBreaks(m) \/ TellFailed(m)
  <2>1. UNCHANGED <<stage, queue, history, schedules, popped>>
    BY <1>2 DEF Dispatch, Returns, CallBreaks, TellFailed, agentVars
  <2>2. \A x \in Message :
          caller'[x] \in {"new", "inserted"} => caller[x] \in {"new", "inserted"}
    BY <1>0, <1>2 DEF Types, Dispatch, Returns, CallBreaks, TellFailed
  <2> QED BY <2>1, <2>2, ObjectStays
<1> QED BY <1>1, <1>2

LEMMA JobTalks ==
  ASSUME Inv, ObjectInv,
         \/ \E r \in Run, j \in Job : Schedule(r, j) \/ Cancel(r, j)
         \/ \E due \in SUBSET Job : AlarmPops(due)
         \/ AlarmRuns
  PROVE  QueueInv' /\ WaitInv' /\ TalkInv'
<1>0. Types /\ QueueInv /\ WaitInv /\ TalkInv
  BY DEF Inv, ObjectInv
<1>1. ASSUME NEW r \in Run, NEW j \in Job, Schedule(r, j)
      PROVE  QueueInv' /\ WaitInv' /\ TalkInv'
  <2>1. /\ stage[j] = "new" /\ Goes(j, "scheduled") /\ schedules' = schedules \cup {j}
        /\ UNCHANGED <<queue, history, popped, caller>>
    BY <1>1 DEF Schedule, callerVars
  <2>2. j \in Run /\ Moved(j, "scheduled")
    BY <1>0, <2>1, MoveFacts DEF Run
  <2>3. QueueInv' /\ TalkInv'
    BY <1>0, <2>1, <2>2, MovesOn DEF InObject, Cut
  <2>4. WaitInv'
    BY <1>0, <2>1, <2>2, RunsAssumption DEF WaitInv, Moved, Run
  <2> QED BY <2>3, <2>4
<1>2. ASSUME NEW r \in Run, NEW j \in Job, Cancel(r, j)
      PROVE  QueueInv' /\ WaitInv' /\ TalkInv'
  <2>1. /\ j \in schedules /\ Goes(j, "cancelled") /\ schedules' = schedules \ {j}
        /\ UNCHANGED <<queue, history, popped, caller>>
    BY <1>2 DEF Cancel, callerVars
  <2>2. j \in Run /\ Moved(j, "cancelled") /\ stage[j] = "scheduled"
    BY <1>0, <2>1, MoveFacts DEF Run, WaitInv
  <2>3. QueueInv' /\ TalkInv'
    BY <1>0, <2>1, <2>2, MovesOn DEF InObject, Cut
  <2>4. \A i \in DOMAIN popped : popped[i] # j
    BY <2>1 DEF Inv, JobInv
  <2>5. WaitInv'
    BY <1>0, <2>1, <2>2, <2>4, RunsAssumption DEF WaitInv, Moved, Run
  <2> QED BY <2>3, <2>5
<1>3. ASSUME NEW due \in SUBSET Job, AlarmPops(due)
      PROVE  QueueInv' /\ WaitInv' /\ TalkInv'
  <2>1. /\ due \subseteq schedules /\ schedules' = schedules \ due
        /\ UNCHANGED <<stage, queue, history, caller>>
    BY <1>3 DEF AlarmPops, callerVars
  <2>2. \A i \in DOMAIN popped' : popped'[i] \in due
    BY <1>3, DueInTurn DEF AlarmPops
  <2>3. WaitInv'
    BY <1>0, <2>1, <2>2 DEF WaitInv
  <2>4. QueueInv' /\ TalkInv'
    BY <1>0, <2>1 DEF QueueInv, TalkInv, HistoryInTurns
  <2> QED BY <2>3, <2>4
<1>4. ASSUME AlarmRuns
      PROVE  QueueInv' /\ WaitInv' /\ TalkInv'
  <2>1. /\ popped # <<>> /\ queue' = Append(queue, Head(popped))
        /\ popped' = Tail(popped) /\ Goes(Head(popped), "waiting")
        /\ UNCHANGED <<history, schedules, caller>>
    BY <1>4 DEF AlarmRuns, callerVars
  <2> DEFINE j == Head(popped)
  <2>2. /\ j \in Job /\ j = popped[1] /\ 1 \in DOMAIN popped
        /\ \A i \in DOMAIN popped' : i + 1 \in DOMAIN popped /\ popped'[i] = popped[i + 1]
                                     /\ i + 1 # 1
    BY <1>0, <2>1 DEF Types
  <2>3. stage[j] = "scheduled" /\ j \in Run /\ j \notin schedules
    BY <1>0, <2>2 DEF WaitInv, Run, Inv, JobInv
  <2>4. \A i \in DOMAIN popped' : popped'[i] # j
    BY <2>2 DEF Inv, JobInv
  <2> HIDE DEF j
  <2>5. Moved(j, "waiting")
    BY <1>0, <2>1, <2>3, MoveFacts DEF j
  <2>6. QueueInv' /\ TalkInv'
    BY <1>0, <2>1, <2>3, <2>5, Joins DEF InObject, Cut, j
  <2>7. ASSUME NEW x \in Job, x \in schedules \/ (\E i \in DOMAIN popped' : popped'[i] = x)
        PROVE  stage'[x] = "scheduled"
    <3>1. x # j /\ (x \in schedules \/ (\E i \in DOMAIN popped : popped[i] = x))
      BY <2>2, <2>3, <2>4, <2>7
    <3> QED BY <1>0, <2>5, <3>1 DEF WaitInv, Moved, Run
  <2>8. ASSUME NEW m \in Message, caller[m] \in {"new", "inserted"}
        PROVE  stage'[m] = "new"
    BY <1>0, <2>2, <2>5, <2>8, RunsAssumption DEF WaitInv, Moved, Run
  <2> QED BY <2>1, <2>6, <2>7, <2>8 DEF WaitInv
<1> QED BY <1>1, <1>2, <1>3, <1>4

\* The bridge's requests and the sweeper do not reach the object.
LEMMA OthersTalk ==
  ASSUME ObjectInv,
         \/ \E r \in Run : Create(r) \/ Flush(r) \/ Age(r)
         \/ \E r \in Message, st \in {"running", "completed", "failed"} : Ask(r, st)
         \/ \E p \in patches : PatchRead(p) \/ PatchWrite(p) \/ PatchAnswer(p)
         \/ \E S \in SUBSET Run : SweepSelects(S)
         \/ SweepUpdates
  PROVE  QueueInv' /\ WaitInv' /\ TalkInv'
<1>1. UNCHANGED <<callerVars, agentVars>>
  <2>1. ASSUME NEW r \in Run, Create(r) \/ Flush(r) \/ Age(r)
        PROVE  UNCHANGED <<callerVars, agentVars>>
    BY <2>1 DEF Create, Flush, Age
  <2>2. ASSUME NEW r, NEW st, Ask(r, st)
        PROVE  UNCHANGED <<callerVars, agentVars>>
    BY <2>2 DEF Ask
  <2>3. ASSUME NEW p, PatchRead(p) \/ PatchWrite(p) \/ PatchAnswer(p)
        PROVE  UNCHANGED <<callerVars, agentVars>>
    BY <2>3 DEF PatchRead, PatchWrite, PatchAnswer
  <2>4. ASSUME NEW S, SweepSelects(S)
        PROVE  UNCHANGED <<callerVars, agentVars>>
    BY <2>4 DEF SweepSelects
  <2>5. ASSUME SweepUpdates
        PROVE  UNCHANGED <<callerVars, agentVars>>
    BY <2>5 DEF SweepUpdates
  <2> QED BY <2>1, <2>2, <2>3, <2>4, <2>5
<1> QED BY <1>1, ObjectStays DEF callerVars, agentVars

\* What is written of a row is written of an invocation.
LEMMA RowSetsStep ==
  ASSUME Inv, RowSets, Next
  PROVE  RowSets'
<1>1. ASSUME NEW r \in Run, NEW st, Reports(r, st), UNCHANGED <<visible, sweep>>
      PROVE  RowSets'
  BY <1>1 DEF Reports, RowSets, Write, Out, rowVars
<1>2. ASSUME NEW r \in Run, Agent(r)
      PROVE  RowSets'
  <2>1. CASE Refuse(r) \/ Work(r) \/ NoModel(r) \/ Report(r)
    BY <1>1, <2>1 DEF Refuse, Work, NoModel, TakesUp, Report, Quiet, bridgeVars
  <2>2. CASE Begin(r)
    BY <2>2 DEF Begin, RowSets, Insert, Quiet, bridgeVars, rowVars
  <2>3. CASE StreamEnds(r) \/ Post(r) \/ Save(r)
    BY <2>3 DEF StreamEnds, Post, Save, RowSets, Quiet, bridgeVars, rowVars
  <2> QED BY <1>2, <2>1, <2>2, <2>3 DEF Agent
<1>3. ASSUME NEW r \in Run, Create(r) \/ Flush(r) \/ Age(r)
      PROVE  RowSets'
  BY <1>3 DEF Create, Flush, Age, RowSets, Insert, rowVars, bridgeVars
<1>4. ASSUME NEW r, NEW st, Ask(r, st)
      PROVE  RowSets'
  BY <1>4 DEF Ask, RowSets, rowVars
<1>5. ASSUME NEW p \in patches, PatchRead(p) \/ PatchWrite(p) \/ PatchAnswer(p)
      PROVE  RowSets'
  <2>1. p.run \in Run
    BY DEF Inv, Types, Request, Run
  <2> QED BY <1>5, <2>1 DEF PatchRead, PatchWrite, PatchAnswer, RowSets, rowVars
<1>6. ASSUME NEW m \in Message,
             Dispatch(m) \/ Invoke(m) \/ Returns(m) \/ CallBreaks(m) \/ TellFailed(m)
      PROVE  RowSets'
  BY <1>6 DEF Dispatch, Invoke, Returns, CallBreaks, TellFailed, RowSets, Insert,
     Write, Quiet, bridgeVars, rowVars, Run
<1>7. ASSUME NEW r \in Run, NEW j \in Job, Schedule(r, j) \/ Cancel(r, j)
      PROVE  RowSets'
  BY <1>7 DEF Schedule, Cancel, RowSets, Quiet, bridgeVars, rowVars
<1>8. ASSUME NEW due, AlarmPops(due) \/ AlarmRuns \/ Crash
      PROVE  RowSets'
  BY <1>8 DEF AlarmPops, AlarmRuns, Crash, RowSets, Quiet, bridgeVars, rowVars
<1>9. ASSUME NEW S \in SUBSET Run, SweepSelects(S)
      PROVE  RowSets'
  BY <1>9 DEF SweepSelects, RowSets, bridgeVars, rowVars
<1>10. ASSUME SweepUpdates
       PROVE  RowSets'
  BY <1>10 DEF SweepUpdates, SweepHits, RowSets, bridgeVars
<1> QED BY <1>2, <1>3, <1>4, <1>5, <1>6, <1>7, <1>8, <1>9, <1>10 DEF Next

LEMMA ObjectInvStep == Inv /\ ObjectInv /\ [Next]_vars => ObjectInv'
<1> SUFFICES ASSUME Inv, ObjectInv, [Next]_vars PROVE ObjectInv'
  OBVIOUS
<1>1. CASE UNCHANGED vars
  <2>1. QueueInv' /\ WaitInv' /\ TalkInv'
    BY <1>1, ObjectStays DEF vars, callerVars, agentVars
  <2> QED BY <1>1, <2>1 DEF ObjectInv, RowSets, vars, rowVars, bridgeVars
<1>2. CASE Next
  <2>1. RowSets'
    BY <1>2, RowSetsStep DEF ObjectInv
  <2>2. QueueInv' /\ WaitInv' /\ TalkInv'
    BY <1>2, AgentTalks, DispatcherTalks, JobTalks, OthersTalk, Restarts DEF Next
  <2> QED BY <2>1, <2>2 DEF ObjectInv
<1> QED BY <1>1, <1>2

LEMMA AlwaysObjectInv == Spec => [](Inv /\ ObjectInv)
<1>1. Init => Inv /\ ObjectInv
  BY InitInv, ObjectInit
<1>2. Inv /\ ObjectInv /\ [Next]_vars => (Inv /\ ObjectInv)'
  BY InvStep, ObjectInvStep
<1> QED BY <1>1, <1>2, PTL DEF Spec

\* The types; only invocations with a row have a run id, only rows that exist
\* are patched, and nothing queues twice for the mutex.
THEOREM TypeCorrect == Spec => []TypeOK
<1>1. ASSUME Inv, ObjectInv
      PROVE  TypeOK
  <2>1. \A p \in patches : p.run \in Message /\ status[p.run] # "none"
    BY <1>1 DEF Inv, Types, PatchInv, Request
  <2>2. \A i, k \in DOMAIN queue : queue[i] = queue[k] => i = k
    BY <1>1 DEF ObjectInv, QueueInv
  <2>3. \A r \in logged : status[r] # "none"
    BY <1>1 DEF Inv, Types, RunInv
  <2> QED BY <1>1, <2>1, <2>2, <2>3 DEF TypeOK, Inv, Types, ObjectInv, RowSets
<1> QED BY <1>1, AlwaysObjectInv, PTL

\* The conversation of a cloud agent is a sequence of turns, however messages
\* and jobs interleave; only a restart and a missing key leave a turn open
\* (raltic-agent.ts: StateMutex, runInvocation).
THEOREM HistoryIsInTurns == Spec => []HistoryInTurns
<1>1. ASSUME Inv, ObjectInv
      PROVE  HistoryInTurns
  BY <1>1 DEF ObjectInv, TalkInv
<1> QED BY <1>1, AlwaysObjectInv, PTL
==============================================================================
