----------------------------- MODULE TaskLinks -----------------------------
(***************************************************************************)
(* POST /api/v1/tasks (apps/api/src/routes/tasks.ts) for the tasks of one  *)
(* channel, with what races it: other creations, the ChatRoom object that  *)
(* brings the announcing message to D1 later, and the bridge, which sees   *)
(* that message at once and asks POST /api/v1/agent-runs for a run.        *)
(*                                                                         *)
(* Every awaited call is a step of its own.  The task that call c creates  *)
(* and the message that announces it are both named c.                     *)
(***************************************************************************)
EXTENDS Naturals

CONSTANTS
  Create,       \* calls of POST /api/v1/tasks for the channel
  Run,          \* calls of POST /api/v1/agent-runs
  Trigger,      \* Trigger[r]: the creation whose message triggers run r
  Existing,     \* the highest task number the channel has already
  MaxAttempts   \* attempts to insert the task row

ASSUME TaskAssumption ==
  /\ Trigger \in [Run -> Create]
  /\ Existing \in Nat
  /\ MaxAttempts \in Nat \ {0}

VARIABLES
  pc,        \* pc[c]: the await at which creation c stands
  tried,     \* tried[c]: failed inserts of creation c
  number,    \* number[c]: the task number c inserts or has inserted
  tasks,     \* D1: the tasks inserted
  linked,    \* D1: the tasks with a message_id
  message,   \* message[c]: where the announcing message is
  title,     \* title[c]: the task number it announces
  runPc,     \* runPc[r]: the await at which the run's creation stands
  runTask,   \* runTask[r]: does r (its lookup, then its row) have a task_id?
  missed     \* history: runs on their way to D1 while c's runs were updated

creations == <<pc, tried, number>>
database  == <<tasks, linked>>
channel   == <<message, title>>
runs      == <<runPc, runTask, missed>>
vars      == <<creations, database, channel, runs>>

Stage ==
  {"idle", "inserting", "sending", "linking", "attaching", "answered",
   "warned", "crowded", "unlinkable", "lost"}

Taken == {Existing} \cup {number[c] : c \in tasks}

\* Faulty variant of NumberIsFree: no unique index.
AnyNumber(n) == n \in Nat

\* UNIQUE (channel_id, task_number)
NumberIsFree(n) == n \notin Taken

\* tasks.message_id REFERENCES messages(id)
MessageExists(c) == message[c] = "d1"
-----------------------------------------------------------------------------
Init ==
  /\ pc = [c \in Create |-> "idle"]
  /\ tried = [c \in Create |-> 0]
  /\ number = [c \in Create |-> 0]
  /\ tasks = {}
  /\ linked = {}
  /\ message = [c \in Create |-> "none"]
  /\ title = [c \in Create |-> 0]
  /\ runPc = [r \in Run |-> "idle"]
  /\ runTask = [r \in Run |-> FALSE]
  /\ missed = {}

\* Read the highest number of the channel.
ReadMax(c) ==
  /\ pc[c] = "idle"
  /\ \E m \in Taken :
        /\ \A n \in Taken : n <= m
        /\ number' = [number EXCEPT ![c] = m + 1]
  /\ pc' = [pc EXCEPT ![c] = "inserting"]
  /\ UNCHANGED <<tried, database, channel, runs>>

Insert(c) ==
  /\ pc[c] = "inserting"
  /\ NumberIsFree(number[c])
  /\ tasks' = tasks \cup {c}
  /\ pc' = [pc EXCEPT ![c] = "sending"]
  /\ UNCHANGED <<tried, number, linked, channel, runs>>

\* Faulty variant of AfterCollision: one attempt too many.
OneAttemptMore(c) ==
  IF tried[c] < MaxAttempts THEN "idle" ELSE "crowded"

\* Another attempt, or the error of the last one.
AfterCollision(c) ==
  IF tried[c] + 1 < MaxAttempts THEN "idle" ELSE "crowded"

\* The number was taken meanwhile.
Collide(c) ==
  /\ pc[c] = "inserting"
  /\ ~ NumberIsFree(number[c])
  /\ tried' = [tried EXCEPT ![c] = @ + 1]
  /\ pc' = [pc EXCEPT ![c] = AfterCollision(c)]
  /\ UNCHANGED <<number, database, channel, runs>>

\* The object stores the message in its buffer, broadcasts it and answers.
Send(c) ==
  /\ pc[c] = "sending"
  /\ message' = [message EXCEPT ![c] = "buffer"]
  /\ title' = [title EXCEPT ![c] = number[c]]
  /\ pc' = [pc EXCEPT ![c] = "linking"]
  /\ UNCHANGED <<tried, number, database, runs>>

\* The object refuses (archived channel, agent removed): the task stays
\* without a message and the caller gets a warning.
SendRefused(c) ==
  /\ pc[c] = "sending"
  /\ pc' = [pc EXCEPT ![c] = "warned"]
  /\ UNCHANGED <<tried, number, database, channel, runs>>

\* First statement of backfillTaskMessageAndRunLinks.
LinkTask(c) ==
  /\ pc[c] = "linking"
  /\ MessageExists(c)
  /\ linked' = linked \cup {c}
  /\ pc' = [pc EXCEPT ![c] = "attaching"]
  /\ UNCHANGED <<tried, number, tasks, channel, runs>>

\* The same statement fails on the foreign key: the caller gets a 500.
LinkTaskFails(c) ==
  /\ pc[c] = "linking"
  /\ ~ MessageExists(c)
  /\ pc' = [pc EXCEPT ![c] = "unlinkable"]
  /\ UNCHANGED <<tried, number, database, channel, runs>>

\* Faulty variant of RunsOf: only runs that have not been stored yet.
NoRuns(c) == {r \in Run : Trigger[r] = c /\ runPc[r] = "resolved"}

\* The runs the second statement updates.
RunsOf(c) == {r \in Run : Trigger[r] = c /\ runPc[r] = "stored"}

\* Second statement of backfillTaskMessageAndRunLinks, and the answer.
AttachRuns(c) ==
  /\ pc[c] = "attaching"
  /\ runTask' = [r \in Run |-> runTask[r] \/ r \in RunsOf(c)]
  /\ pc' = [pc EXCEPT ![c] = "answered"]
  /\ missed' = missed \cup
                 {r \in Run : Trigger[r] = c /\ runPc[r] = "resolved"}
  /\ UNCHANGED <<tried, number, database, channel, runPc>>

\* The worker ends, or a call it awaits fails.
Die(c) ==
  /\ pc[c] \in {"inserting", "sending", "linking", "attaching"}
  /\ pc' = [pc EXCEPT ![c] = "lost"]
  /\ UNCHANGED <<tried, number, database, channel, runs>>
-----------------------------------------------------------------------------
\* alarm() of the ChatRoom object brings its buffer to D1.
Flush ==
  /\ \E c \in Create : message[c] = "buffer"
  /\ message' = [c \in Create |->
                   IF message[c] = "buffer" THEN "d1" ELSE message[c]]
  /\ UNCHANGED <<creations, database, title, runs>>

\* A bridge has seen the message; the API looks up its task ...
ResolveTask(r) ==
  /\ runPc[r] = "idle"
  /\ message[Trigger[r]] # "none"
  /\ runPc' = [runPc EXCEPT ![r] = "resolved"]
  /\ runTask' = [runTask EXCEPT ![r] = Trigger[r] \in linked]
  /\ UNCHANGED <<creations, database, channel, missed>>

\* ... and inserts the run with what it found.
InsertRun(r) ==
  /\ runPc[r] = "resolved"
  /\ runPc' = [runPc EXCEPT ![r] = "stored"]
  /\ UNCHANGED <<creations, database, channel, runTask, missed>>

Next ==
  \/ \E c \in Create :
        \/ ReadMax(c) \/ Insert(c) \/ Collide(c) \/ Send(c) \/ SendRefused(c)
        \/ LinkTask(c) \/ LinkTaskFails(c) \/ AttachRuns(c) \/ Die(c)
  \/ Flush
  \/ \E r \in Run : ResolveTask(r) \/ InsertRun(r)

Spec == Init /\ [][Next]_vars
-----------------------------------------------------------------------------
(***************************************************************************)
(* Properties.                                                             *)
(***************************************************************************)

\* Types of the state; a creation that goes on has an attempt left.
TypeOK ==
  /\ pc \in [Create -> Stage]
  /\ tried \in [Create -> 0..MaxAttempts]
  /\ \A c \in Create : tried[c] = MaxAttempts <=> pc[c] = "crowded"
  /\ number \in [Create -> Nat]
  /\ tasks \subseteq Create
  /\ linked \subseteq tasks
  /\ message \in [Create -> {"none", "buffer", "d1"}]
  /\ title \in [Create -> Nat]
  /\ runPc \in [Run -> {"idle", "resolved", "stored"}]
  /\ runTask \in [Run -> BOOLEAN]
  /\ missed \subseteq Run

\* Reading the maximum and inserting are two calls, yet every task of the
\* channel has a number of its own and the numbers have no holes.
NumbersDense ==
  \A c \in tasks :
    /\ \A d \in tasks : number[d] = number[c] => d = c
    /\ number[c] > Existing
    /\ \A n \in Existing + 1 .. number[c] : \E d \in tasks : number[d] = n

\* "This avoids the prior bug where retry posted duplicate user-visible
\* chat messages with diverging task numbers": a message in the channel
\* names the number under which its task was really inserted, whatever
\* collisions came before.
AnnouncesItsNumber ==
  \A c \in Create :
    message[c] # "none" => c \in tasks /\ title[c] = number[c]

\* A creation is given up only after as many other tasks were created in
\* the channel as it had attempts.
GivesUpWhenCrowded ==
  \A c \in Create :
    pc[c] = "crowded" =>
      \A n \in Existing + 1 .. Existing + MaxAttempts :
        \E d \in tasks \ {c} : number[d] = n

\* Once a creation was answered, a run that its message triggered is
\* attached to the task, except a run that was between its lookup and its
\* insert while the runs were updated.
OnlyInFlightRunsUnlinked ==
  \A r \in Run :
    /\ runPc[r] = "stored"
    /\ pc[Trigger[r]] = "answered"
    => runTask[r] \/ r \in missed
=============================================================================
