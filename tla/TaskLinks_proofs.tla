-------------------------- MODULE TaskLinks_proofs --------------------------
(***************************************************************************)
(* Machine-checked proofs about module TaskLinks, for any number of        *)
(* creations, runs and attempts.                                           *)
(***************************************************************************)
EXTENDS TaskLinks, TLAPS

USE TaskAssumption

\* Where a creation stands determines whether its task exists.
RowInv ==
  \A c \in Create :
    /\ c \in tasks => pc[c] \notin {"idle", "inserting", "crowded"}
    /\ pc[c] \in {"sending", "linking", "attaching", "answered"} => c \in tasks
    /\ pc[c] \in {"attaching", "answered"} => c \in linked

\* A creation has failed no more often than there are numbers it could not
\* get, and it is about to insert the successor of a number that is taken.
AttemptInv ==
  \A c \in Create :
    /\ pc[c] = "idle" => \E n \in Taken : n >= Existing + tried[c]
    /\ pc[c] = "inserting" =>
         /\ number[c] > Existing + tried[c]
         /\ \E n \in Taken : number[c] = n + 1
    /\ pc[c] = "crowded" => \E n \in Taken : n >= Existing + MaxAttempts

\* A run that was looked up without a task is still on its way only if it is
\* counted as missed.
RunInv ==
  \A r \in Run :
    /\ runPc[r] # "idle"
    /\ pc[Trigger[r]] = "answered"
    => runTask[r] \/ r \in missed

IInv ==
  TypeOK /\ RowInv /\ AttemptInv /\ NumbersDense /\ AnnouncesItsNumber /\ RunInv

LEMMA InitIInv == Init => IInv
<1> SUFFICES ASSUME Init PROVE IInv
  OBVIOUS
<1>1. TypeOK
  BY DEF Init, TypeOK, Stage
<1>2. RowInv /\ NumbersDense /\ AnnouncesItsNumber /\ RunInv
  BY DEF Init, RowInv, NumbersDense, AnnouncesItsNumber, RunInv
<1>3. AttemptInv
  <2>1. Existing \in Taken /\ Existing >= Existing + 0
    BY DEF Taken
  <2> QED BY <2>1 DEF Init, AttemptInv
<1> QED BY <1>1, <1>2, <1>3 DEF IInv

\* Every action but the ones of a creation before its task is inserted
\* leaves tasks and numbers alone.
LEMMA TakenNat ==
  ASSUME TypeOK
  PROVE  Taken \subseteq Nat
BY DEF Taken, TypeOK

LEMMA TypeStep ==
  ASSUME TypeOK, RowInv, [Next]_vars
  PROVE  TypeOK'
<1> USE DEF TypeOK, creations, database, channel, runs
<1>1. ASSUME NEW c \in Create, ReadMax(c) PROVE TypeOK'
  <2>1. \A m \in Taken : m + 1 \in Nat
    BY TakenNat
  <2>2. number' \in [Create -> Nat] /\ pc' \in [Create -> Stage]
    BY <1>1, <2>1 DEF ReadMax, Stage
  <2>3. \A d \in Create : tried'[d] = MaxAttempts <=> pc'[d] = "crowded"
    BY <1>1 DEF ReadMax
  <2> QED BY <1>1, <2>2, <2>3 DEF ReadMax
<1>2. ASSUME NEW c \in Create, Insert(c) PROVE TypeOK'
  BY <1>2 DEF Insert, Stage
<1>3. ASSUME NEW c \in Create, Collide(c) PROVE TypeOK'
  <2>1. tried[c] \in 0..MaxAttempts /\ tried[c] # MaxAttempts
    BY <1>3 DEF Collide
  <2>2. /\ tried' = [tried EXCEPT ![c] = @ + 1]
        /\ pc' = [pc EXCEPT ![c] = AfterCollision(c)]
    BY <1>3 DEF Collide
  <2>3. tried' \in [Create -> 0..MaxAttempts]
    BY <2>1, <2>2
  <2>4. pc' \in [Create -> Stage]
    BY <2>2 DEF AfterCollision, Stage
  <2>5. \A d \in Create : tried'[d] = MaxAttempts <=> pc'[d] = "crowded"
    BY <2>1, <2>2 DEF AfterCollision
  <2> QED BY <1>3, <2>3, <2>4, <2>5 DEF Collide
<1>4. ASSUME NEW c \in Create, Send(c) PROVE TypeOK'
  BY <1>4 DEF Send, Stage
<1>5. ASSUME NEW c \in Create, SendRefused(c) PROVE TypeOK'
  BY <1>5 DEF SendRefused, Stage
<1>6. ASSUME NEW c \in Create, LinkTask(c) PROVE TypeOK'
  BY <1>6 DEF LinkTask, Stage, RowInv
<1>7. ASSUME NEW c \in Create, LinkTaskFails(c) PROVE TypeOK'
  BY <1>7 DEF LinkTaskFails, Stage
<1>8. ASSUME NEW c \in Create, AttachRuns(c) PROVE TypeOK'
  <2>1. runTask' \in [Run -> BOOLEAN]
    BY <1>8 DEF AttachRuns
  <2> QED BY <1>8, <2>1 DEF AttachRuns, Stage
<1>9. ASSUME NEW c \in Create, Die(c) PROVE TypeOK'
  BY <1>9 DEF Die, Stage
<1>10. CASE Flush
  BY <1>10 DEF Flush
<1>11. ASSUME NEW r \in Run, ResolveTask(r) PROVE TypeOK'
  BY <1>11 DEF ResolveTask
<1>12. ASSUME NEW r \in Run, InsertRun(r) PROVE TypeOK'
  BY <1>12 DEF InsertRun
<1>13. CASE UNCHANGED vars
  BY <1>13 DEF vars
<1> QED
  BY <1>1, <1>2, <1>3, <1>4, <1>5, <1>6, <1>7, <1>8, <1>9, <1>10, <1>11,
     <1>12, <1>13 DEF Next

LEMMA RowStep ==
  ASSUME TypeOK, RowInv, [Next]_vars
  PROVE  RowInv'
<1> USE DEF TypeOK, RowInv, creations, database, channel, runs
<1>1. ASSUME NEW c \in Create, ReadMax(c) PROVE RowInv'
  BY <1>1 DEF ReadMax
<1>2. ASSUME NEW c \in Create, Insert(c) PROVE RowInv'
  BY <1>2 DEF Insert
<1>3. ASSUME NEW c \in Create, Collide(c) PROVE RowInv'
  BY <1>3 DEF Collide, AfterCollision
<1>4. ASSUME NEW c \in Create, Send(c) PROVE RowInv'
  BY <1>4 DEF Send
<1>5. ASSUME NEW c \in Create, SendRefused(c) PROVE RowInv'
  BY <1>5 DEF SendRefused
<1>6. ASSUME NEW c \in Create, LinkTask(c) PROVE RowInv'
  BY <1>6 DEF LinkTask
<1>7. ASSUME NEW c \in Create, LinkTaskFails(c) PROVE RowInv'
  BY <1>7 DEF LinkTaskFails
<1>8. ASSUME NEW c \in Create, AttachRuns(c) PROVE RowInv'
  BY <1>8 DEF AttachRuns
<1>9. ASSUME NEW c \in Create, Die(c) PROVE RowInv'
  BY <1>9 DEF Die
<1>10. CASE Flush
  BY <1>10 DEF Flush
<1>11. ASSUME NEW r \in Run, ResolveTask(r) PROVE RowInv'
  BY <1>11 DEF ResolveTask
<1>12. ASSUME NEW r \in Run, InsertRun(r) PROVE RowInv'
  BY <1>12 DEF InsertRun
<1>13. CASE UNCHANGED vars
  BY <1>13 DEF vars
<1> QED
  BY <1>1, <1>2, <1>3, <1>4, <1>5, <1>6, <1>7, <1>8, <1>9, <1>10, <1>11,
     <1>12, <1>13 DEF Next

\* Every step but the three of the allocation loop leaves tasks, numbers and
\* failures alone, and takes no creation back into the loop.
LEMMA Quiet ==
  ASSUME TypeOK, [Next]_vars,
         \A c \in Create : ~ (ReadMax(c) \/ Insert(c) \/ Collide(c))
  PROVE  /\ UNCHANGED <<tasks, number, tried>>
         /\ \A c \in Create :
              pc'[c] \in {"idle", "inserting", "crowded"} => pc'[c] = pc[c]
<1> USE DEF TypeOK, creations, database, channel, runs
<1>1. ASSUME NEW c \in Create,
             \/ Send(c) \/ SendRefused(c) \/ LinkTask(c) \/ LinkTaskFails(c)
             \/ AttachRuns(c) \/ Die(c)
      PROVE  /\ UNCHANGED <<tasks, number, tried>>
             /\ \E s \in Stage \ {"idle", "inserting", "crowded"} :
                  pc' = [pc EXCEPT ![c] = s]
  BY <1>1 DEF Send, SendRefused, LinkTask, LinkTaskFails, AttachRuns, Die,
              Stage
<1>2. CASE Flush
  BY <1>2 DEF Flush
<1>3. ASSUME NEW r \in Run, ResolveTask(r) \/ InsertRun(r)
      PROVE  UNCHANGED <<tasks, number, tried, pc>>
  BY <1>3 DEF ResolveTask, InsertRun
<1>4. CASE UNCHANGED vars
  BY <1>4 DEF vars
<1> QED BY <1>1, <1>2, <1>3, <1>4 DEF Next

\* A taken number stays taken.
LEMMA TakenGrows ==
  ASSUME TypeOK, RowInv, [Next]_vars
  PROVE  Taken \subseteq Taken'
<1>1. ASSUME NEW c \in Create, ReadMax(c) PROVE Taken \subseteq Taken'
  <2>1. \A d \in tasks : d # c /\ d \in Create
    BY <1>1 DEF ReadMax, RowInv, TypeOK
  <2>2. \A d \in tasks : number'[d] = number[d]
    BY <1>1, <2>1 DEF ReadMax, TypeOK
  <2> QED BY <1>1, <2>2 DEF ReadMax, database, Taken
<1>2. ASSUME NEW c \in Create, Insert(c) PROVE Taken \subseteq Taken'
  BY <1>2 DEF Insert, Taken
<1>3. ASSUME NEW c \in Create, Collide(c) PROVE Taken \subseteq Taken'
  BY <1>3 DEF Collide, database, Taken
<1>4. CASE \A c \in Create : ~ (ReadMax(c) \/ Insert(c) \/ Collide(c))
  BY <1>4, Quiet DEF Taken
<1> QED BY <1>1, <1>2, <1>3, <1>4

LEMMA AttemptStep ==
  ASSUME TypeOK, RowInv, AttemptInv, [Next]_vars
  PROVE  AttemptInv'
<1> DEFINE Good(c) ==
      /\ pc[c] = "idle" => \E n \in Taken : n >= Existing + tried[c]
      /\ pc[c] = "inserting" =>
           /\ number[c] > Existing + tried[c]
           /\ \E n \in Taken : number[c] = n + 1
      /\ pc[c] = "crowded" => \E n \in Taken : n >= Existing + MaxAttempts
<1> SUFFICES ASSUME NEW d \in Create PROVE Good(d)'
  BY DEF AttemptInv
<1>1. Taken \subseteq Taken' /\ Taken \subseteq Nat
  BY TakenGrows, TakenNat
<1>2. /\ tried[d] \in Nat /\ number[d] \in Nat
      /\ pc[d] \in {"idle", "inserting"} => tried[d] + 1 <= MaxAttempts
  BY DEF TypeOK
<1>3. Good(d)
  BY DEF AttemptInv
<1>4. CASE pc'[d] = pc[d] /\ tried'[d] = tried[d] /\ number'[d] = number[d]
  BY <1>1, <1>3, <1>4
<1>5. ASSUME NEW c \in Create, ReadMax(c) PROVE Good(d)'
  <2>1. CASE c # d
    BY <1>4, <1>5, <2>1 DEF ReadMax, TypeOK
  <2>2. CASE c = d
    <3>1. PICK m \in Taken :
            /\ \A n \in Taken : n <= m
            /\ number' = [number EXCEPT ![c] = m + 1]
      BY <1>5 DEF ReadMax
    <3>2. number'[d] = m + 1 /\ pc'[d] = "inserting" /\ tried'[d] = tried[d]
      BY <1>5, <2>2, <3>1 DEF ReadMax, TypeOK
    <3>3. m \in Nat /\ m >= Existing + tried[d]
      <4>1. PICK n \in Taken : n >= Existing + tried[d]
        BY <1>3, <1>5, <2>2 DEF ReadMax
      <4>2. n \in Nat /\ m \in Nat /\ n <= m
        BY <1>1, <3>1, <4>1
      <4> QED BY <1>2, <4>1, <4>2
    <3> QED BY <1>1, <1>2, <3>2, <3>3
  <2> QED BY <2>1, <2>2
<1>6. ASSUME NEW c \in Create, Insert(c) PROVE Good(d)'
  <2>1. CASE c # d
    BY <1>4, <1>6, <2>1 DEF Insert, TypeOK
  <2>2. CASE c = d
    BY <1>6, <2>2 DEF Insert, TypeOK
  <2> QED BY <2>1, <2>2
<1>7. ASSUME NEW c \in Create, Collide(c) PROVE Good(d)'
  <2>1. CASE c # d
    BY <1>4, <1>7, <2>1 DEF Collide, TypeOK
  <2>2. CASE c = d
    <3>1. /\ pc[d] = "inserting"
          /\ number[d] \in Taken
          /\ tried'[d] = tried[d] + 1
          /\ pc'[d] = AfterCollision(d)
      BY <1>7, <2>2 DEF Collide, NumberIsFree, TypeOK
    <3>2. number[d] \in Taken' /\ number[d] >= Existing + (tried[d] + 1)
      BY <1>1, <1>2, <1>3, <3>1
    <3>3. \/ pc'[d] = "idle"
          \/ pc'[d] = "crowded" /\ tried[d] + 1 = MaxAttempts
      BY <1>2, <3>1 DEF AfterCollision
    <3> QED BY <3>1, <3>2, <3>3
  <2> QED BY <2>1, <2>2
<1>8. CASE \A c \in Create : ~ (ReadMax(c) \/ Insert(c) \/ Collide(c))
  <2>1. /\ tried'[d] = tried[d] /\ number'[d] = number[d]
        /\ pc'[d] \in {"idle", "inserting", "crowded"} => pc'[d] = pc[d]
    BY <1>8, Quiet
  <2> QED BY <1>4, <2>1
<1> QED BY <1>5, <1>6, <1>7, <1>8

\* Unless a task is inserted, the tasks and their numbers stay.
LEMMA TasksStay ==
  ASSUME TypeOK, RowInv, [Next]_vars, \A c \in Create : ~ Insert(c)
  PROVE  tasks' = tasks /\ \A c \in tasks : number'[c] = number[c]
<1>1. ASSUME NEW c \in Create, ReadMax(c)
      PROVE  tasks' = tasks /\ \A d \in tasks : number'[d] = number[d]
  BY <1>1 DEF ReadMax, RowInv, TypeOK, database
<1>2. ASSUME NEW c \in Create, Collide(c)
      PROVE  tasks' = tasks /\ number' = number
  BY <1>2 DEF Collide, database
<1> QED BY <1>1, <1>2, Quiet

LEMMA DenseStep ==
  ASSUME TypeOK, RowInv, AttemptInv, NumbersDense, [Next]_vars
  PROVE  NumbersDense'
<1>1. CASE \A c \in Create : ~ Insert(c)
  BY <1>1, TasksStay DEF NumbersDense
<1>2. ASSUME NEW c \in Create, Insert(c) PROVE NumbersDense'
  <2>1. /\ tasks' = tasks \cup {c}
        /\ number' = number
        /\ number[c] \notin Taken
        /\ pc[c] = "inserting"
    BY <1>2 DEF Insert, NumberIsFree
  <2>2. PICK n \in Taken : number[c] = n + 1
    BY <2>1 DEF AttemptInv
  <2>3. n \in Nat /\ number[c] \in Nat /\ tried[c] \in Nat
    BY <2>2, TakenNat DEF TypeOK
  <2>4. number[c] > Existing
    <3>1. number[c] > Existing + tried[c]
      BY <2>1 DEF AttemptInv
    <3> QED BY <2>3, <3>1
  <2>5. ASSUME NEW m \in Existing + 1 .. number[c]
        PROVE  \E d \in tasks' : number[d] = m
    <3>1. CASE m = number[c]
      BY <2>1, <3>1
    <3>2. CASE m # number[c]
      <4>1. m \in Existing + 1 .. n
        BY <2>2, <2>3, <3>2
      <4>2. PICK e \in tasks : number[e] = n
        BY <2>2, <2>3, <4>1 DEF Taken
      <4>3. \E d \in tasks : number[d] = m
        BY <4>1, <4>2 DEF NumbersDense
      <4> QED BY <2>1, <4>3
    <3> QED BY <3>1, <3>2
  <2>6. \A d \in tasks : number[d] # number[c]
    BY <2>1 DEF Taken
  <2>7. ASSUME NEW d \in tasks'
        PROVE  /\ \A e \in tasks' : number[e] = number[d] => e = d
               /\ number[d] > Existing
               /\ \A m \in Existing + 1 .. number[d] :
                    \E e \in tasks' : number[e] = m
    <3>1. CASE d = c
      BY <2>1, <2>4, <2>5, <2>6, <3>1
    <3>2. CASE d \in tasks
      BY <2>1, <2>6, <3>2 DEF NumbersDense
    <3> QED BY <2>1, <3>1, <3>2
  <2> QED BY <2>1, <2>7 DEF NumbersDense
<1> QED BY <1>1, <1>2

LEMMA AnnounceStep ==
  ASSUME TypeOK, RowInv, AnnouncesItsNumber, [Next]_vars
  PROVE  AnnouncesItsNumber'
<1> USE DEF TypeOK, AnnouncesItsNumber
<1>1. ASSUME NEW c \in Create, Send(c) PROVE AnnouncesItsNumber'
  BY <1>1 DEF Send, RowInv, database
<1>2. CASE Flush
  BY <1>2 DEF Flush, creations, database
<1>3. ASSUME NEW c \in Create, Insert(c) PROVE AnnouncesItsNumber'
  BY <1>3 DEF Insert, channel
<1>4. CASE /\ \A c \in Create : ~ Insert(c) /\ ~ Send(c)
           /\ ~ Flush
  <2>1. tasks' = tasks /\ \A c \in tasks : number'[c] = number[c]
    BY <1>4, TasksStay
  <2>2. UNCHANGED channel
    BY <1>4 DEF Next, vars, ReadMax, Collide, SendRefused, LinkTask,
                LinkTaskFails, AttachRuns, Die, ResolveTask, InsertRun
  <2> QED BY <2>1, <2>2 DEF channel
<1> QED BY <1>1, <1>2, <1>3, <1>4

LEMMA RunStep ==
  ASSUME TypeOK, RowInv, RunInv, [Next]_vars
  PROVE  RunInv'
<1> USE DEF TypeOK, RunInv, runs
<1>1. ASSUME NEW c \in Create, AttachRuns(c) PROVE RunInv'
  BY <1>1 DEF AttachRuns, RunsOf
<1>2. ASSUME NEW r \in Run, ResolveTask(r) PROVE RunInv'
  BY <1>2 DEF ResolveTask, creations, database, RowInv
<1>3. ASSUME NEW r \in Run, InsertRun(r) PROVE RunInv'
  BY <1>3 DEF InsertRun, creations
<1>4. CASE /\ \A c \in Create : ~ AttachRuns(c)
           /\ \A r \in Run : ~ (ResolveTask(r) \/ InsertRun(r))
  <2>1. UNCHANGED runs
    BY <1>4 DEF Next, vars, ReadMax, Insert, Collide, Send, SendRefused,
                LinkTask, LinkTaskFails, Die, Flush
  <2>2. ASSUME NEW c \in Create, pc'[c] = "answered"
        PROVE  pc[c] = "answered"
    BY <1>4, <2>2 DEF Next, vars, creations, ReadMax, Insert, Collide,
                      AfterCollision, Send, SendRefused, LinkTask,
                      LinkTaskFails, Die, Flush
  <2> QED BY <2>1, <2>2
<1> QED BY <1>1, <1>2, <1>3, <1>4

LEMMA Inductive == IInv /\ [Next]_vars => IInv'
BY TypeStep, RowStep, AttemptStep, DenseStep, AnnounceStep, RunStep DEF IInv

LEMMA Invariant == Spec => []IInv
BY InitIInv, Inductive, PTL DEF Spec

\* The types of TaskLinks, and that a creation is given up exactly when its
\* attempts are used up, for any number of creations and attempts.
THEOREM TasksTypeCorrect == Spec => []TypeOK
<1>1. IInv => TypeOK
  BY DEF IInv
<1> QED BY <1>1, Invariant, PTL

\* For any number of concurrent creations task numbers are unique and have
\* no holes.
THEOREM NumbersStayDense == Spec => []NumbersDense
<1>1. IInv => NumbersDense
  BY DEF IInv
<1> QED BY <1>1, Invariant, PTL

\* Whatever collisions came before, the message of a task names its number.
THEOREM MessagesNameTheirTask == Spec => []AnnouncesItsNumber
<1>1. IInv => AnnouncesItsNumber
  BY DEF IInv
<1> QED BY <1>1, Invariant, PTL

\* MaxAttempts attempts suffice unless MaxAttempts other tasks were created.
THEOREM AttemptsSuffice == Spec => []GivesUpWhenCrowded
<1>1. IInv => GivesUpWhenCrowded
  <2> SUFFICES ASSUME IInv, NEW c \in Create, pc[c] = "crowded",
                      NEW n \in Existing + 1 .. Existing + MaxAttempts
               PROVE  \E d \in tasks \ {c} : number[d] = n
    BY DEF GivesUpWhenCrowded
  <2>1. c \notin tasks
    BY DEF IInv, RowInv
  <2>2. PICK m \in Taken : m >= Existing + MaxAttempts
    BY DEF IInv, AttemptInv
  <2>3. m \in Nat /\ m # Existing
    BY <2>2, TakenNat DEF IInv
  <2>4. PICK e \in tasks : number[e] = m
    BY <2>2, <2>3 DEF Taken
  <2>5. n \in Existing + 1 .. number[e]
    BY <2>2, <2>3, <2>4
  <2>6. \E d \in tasks : number[d] = n
    BY <2>4, <2>5 DEF IInv, NumbersDense
  <2> QED BY <2>1, <2>6
<1> QED BY <1>1, Invariant, PTL

\* The runs of an answered creation are attached, but for those in flight.
THEOREM RunsAttached == Spec => []OnlyInFlightRunsUnlinked
<1>1. IInv => OnlyInFlightRunsUnlinked
  BY DEF IInv, RunInv, OnlyInFlightRunsUnlinked
<1> QED BY <1>1, Invariant, PTL
=============================================================================
