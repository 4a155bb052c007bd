-------------------------- MODULE ChatRoom_proofs --------------------------
(***************************************************************************)
(* Machine-checked proofs about module ChatRoom, for every set of calls,   *)
(* every batch size and attempt limit, and any number of crashes, faults   *)
(* and edits.                                                              *)
(***************************************************************************)
EXTENDS ChatRoom, FiniteSetTheorems, WellFoundedInduction, TLAPS

USE CallAssumption, RowAssumption, BoundAssumption

Row == Keyed \cup Welcome

\* What the constants say of the rows of a call.
LEMMA RowsOfCall ==
  ASSUME NEW c \in Call
  PROVE  /\ Width(c) \in Nat \ {0}
         /\ \A i \in 1..Width(c) : Rows[c][i] \in Row
         /\ Key(c) \in Row
         /\ c \notin Seeds => Width(c) = 1 /\ Key(c) \in Keyed
         /\ c \in Seeds =>
              \A i \in 1..Width(c) : Rows[c][i] \in Welcome
<1>1. CASE c \in Seeds
  BY <1>1 DEF Row, Key
<1>2. CASE c \notin Seeds
  BY <1>2 DEF Row, Key
<1> QED BY <1>1, <1>2

\* The counter in memory is the counter in storage.
CounterInv == nextSeq = meta

LEMMA TypeInit == Init => TypeOK /\ CounterInv
BY DEF Init, TypeOK, CounterInv, Phase

LEMMA TypeStore ==
  ASSUME TypeOK, CounterInv, NEW c \in Call, Store(c),
         nextSeq' = meta', flushing' \subseteq flushing,
         UNCHANGED <<wire, messages>>
  PROVE  /\ meta' \in Nat /\ meta' > meta
         /\ DOMAIN idem' \subseteq Keyed
         /\ idem' \in [DOMAIN idem' -> 1..meta']
         /\ DOMAIN pending' \subseteq 1..meta'
         /\ pending' \in [DOMAIN pending' ->
                    [msg : Keyed \cup Welcome \cup {Poison},
                     attempts : 0..MaxFlushAttempts]]
         /\ flushing' \subseteq DOMAIN pending'
         /\ \A rows \in wire' :
              /\ DOMAIN rows \subseteq 1..meta'
              /\ rows \in [DOMAIN rows -> Keyed \cup Welcome]
         /\ DOMAIN messages' \subseteq 1..meta'
         /\ messages' \in [DOMAIN messages' ->
                     [msg : Keyed \cup Welcome, edited : BOOLEAN]]
<1>1. meta' \in Nat /\ meta' > meta /\ meta' = meta + Width(c)
  BY RowsOfCall DEF TypeOK, Store, CounterInv
<1>2. DOMAIN idem' \subseteq Keyed /\ idem' \in [DOMAIN idem' -> 1..meta']
  <2>1. CASE c \in Seeds
    BY <1>1, <2>1 DEF TypeOK, Store, Remembered
  <2>2. CASE c \notin Seeds
    BY <1>1, <2>2, RowsOfCall DEF TypeOK, Store, Remembered, CounterInv
  <2> QED BY <2>1, <2>2
<1>3. /\ DOMAIN pending' \subseteq 1..meta'
      /\ DOMAIN pending \subseteq DOMAIN pending'
  BY <1>1, RowsOfCall DEF TypeOK, Store, Stored, CounterInv
<1>4. pending' \in [DOMAIN pending' ->
                    [msg : Keyed \cup Welcome \cup {Poison},
                     attempts : 0..MaxFlushAttempts]]
  <2> SUFFICES ASSUME NEW s \in DOMAIN pending'
               PROVE  pending'[s] \in [msg : Keyed \cup Welcome \cup {Poison},
                                       attempts : 0..MaxFlushAttempts]
    BY DEF Store, Stored
  <2>1. CASE s > nextSeq
    <3>1. s - nextSeq \in 1..Width(c)
      BY <2>1, RowsOfCall DEF TypeOK, Store, Stored, CounterInv
    <3>2. pending'[s] = [msg |-> Rows[c][s - nextSeq], attempts |-> 0]
      BY <2>1 DEF Store, Stored
    <3> QED BY <3>1, <3>2, RowsOfCall DEF Row
  <2>2. CASE ~ (s > nextSeq)
    BY <2>2, RowsOfCall DEF TypeOK, Store, Stored, CounterInv
  <2> QED BY <2>1, <2>2
<1>5. \A rows \in wire' :
        /\ DOMAIN rows \subseteq 1..meta'
        /\ rows \in [DOMAIN rows -> Keyed \cup Welcome]
  BY <1>1 DEF TypeOK
<1>6. /\ DOMAIN messages' \subseteq 1..meta'
      /\ messages' \in [DOMAIN messages' ->
                     [msg : Keyed \cup Welcome, edited : BOOLEAN]]
  BY <1>1 DEF TypeOK
<1> QED BY <1>1, <1>2, <1>3, <1>4, <1>5, <1>6 DEF TypeOK

\* A batch is made of live rows, so it can be tried at least once more.
LEMMA LiveRows ==
  ASSUME TypeOK
  PROVE  /\ Live \subseteq DOMAIN pending
         /\ Batch \subseteq Live
         /\ \A s \in Live : pending[s].attempts + 1 \in 0..MaxFlushAttempts
BY DEF TypeOK, Live, Batch

\* Rows being flushed are live.
FlushingInv == flushing \subseteq Live

TypeInv == TypeOK /\ CounterInv /\ FlushingInv

LEMMA TypeAccept ==
  ASSUME TypeInv, NEW c \in Call, Accept(c)
  PROVE  TypeInv'
<1>1. Store(c) /\ nextSeq' = meta' /\ UNCHANGED <<flushing, wire, messages>>
  BY DEF Accept, Store, database
<1>2. TypeOK'
  <2>1. phase' \in [Call -> Phase] /\ reply' \in [Call -> Nat]
    BY DEF TypeInv, TypeOK, Accept, Phase
  <2> QED BY <1>1, <2>1, TypeStore
       DEF TypeInv, TypeOK, Accept, bounds, database
<1>3. flushing' \subseteq Live'
  BY <1>1, RowsOfCall DEF TypeInv, FlushingInv, TypeOK, Live, Store, Stored, CounterInv
<1> QED BY <1>1, <1>2, <1>3 DEF TypeInv, CounterInv, FlushingInv

LEMMA TypeStoreThenCrash ==
  ASSUME TypeInv, NEW c \in Call, StoreThenCrash(c)
  PROVE  TypeInv'
<1>1. Store(c) /\ nextSeq' = meta' /\ flushing' = {} /\ UNCHANGED <<wire, messages>>
  BY DEF StoreThenCrash, Store, Restart, database
<1>2. phase' \in [Call -> Phase] /\ UNCHANGED <<reply, faults>>
  BY DEF TypeInv, TypeOK, StoreThenCrash, Restart, Phase
<1>3. alarm' \in BOOLEAN /\ crashes' \in 0..MaxCrashes
  BY DEF TypeInv, TypeOK, StoreThenCrash, Restart
<1>4. TypeOK'
  BY <1>1, <1>2, <1>3, TypeStore DEF TypeInv, TypeOK
<1> QED BY <1>1, <1>4 DEF TypeInv, CounterInv, FlushingInv

LEMMA TypeAlarm ==
  ASSUME TypeInv, AlarmFires
  PROVE  TypeInv'
<1> DEFINE good == {s \in Batch : pending[s].msg # Poison}
<1>1. /\ pending' = Without(pending, Batch \ good)
      /\ flushing' = good
      /\ wire' = IF good = {} THEN wire
                 ELSE wire \cup {[s \in good |-> pending[s].msg]}
      /\ alarm' = FALSE
      /\ UNCHANGED <<callers, meta, idem, nextSeq, messages, bounds>>
  BY DEF AlarmFires
<1>2. good \subseteq Live /\ Live \subseteq DOMAIN pending
  BY LiveRows DEF TypeInv
<1>3. /\ DOMAIN pending' \subseteq DOMAIN pending
      /\ good \subseteq DOMAIN pending'
      /\ \A s \in DOMAIN pending' : pending'[s] = pending[s]
      /\ pending' \in [DOMAIN pending' ->
                    [msg : Keyed \cup Welcome \cup {Poison},
                     attempts : 0..MaxFlushAttempts]]
  BY <1>1, <1>2 DEF TypeInv, TypeOK, Without
<1>4. \A rows \in wire' :
        /\ DOMAIN rows \subseteq 1..meta'
        /\ rows \in [DOMAIN rows -> Keyed \cup Welcome]
  <2> SUFFICES ASSUME NEW rows \in wire'
               PROVE  /\ DOMAIN rows \subseteq 1..meta'
                      /\ rows \in [DOMAIN rows -> Keyed \cup Welcome]
    OBVIOUS
  <2>1. CASE rows \in wire
    BY <1>1, <2>1 DEF TypeInv, TypeOK
  <2>2. CASE rows = [s \in good |-> pending[s].msg]
    <3>1. \A s \in good : pending[s].msg \in Keyed \cup Welcome
      BY <1>2 DEF TypeInv, TypeOK
    <3> QED BY <1>1, <1>2, <2>2, <3>1 DEF TypeInv, TypeOK
  <2> QED BY <1>1, <2>1, <2>2
<1>5. TypeOK'
  BY <1>1, <1>2, <1>3, <1>4 DEF TypeInv, TypeOK, callers, bounds
<1>6. flushing' \subseteq Live'
  BY <1>1, <1>2, <1>3 DEF Live
<1> QED BY <1>1, <1>5, <1>6 DEF TypeInv, CounterInv, FlushingInv

LEMMA TypeD1 ==
  ASSUME TypeInv, NEW rows \in wire, D1Insert(rows)
  PROVE  TypeInv'
<1>1. /\ DOMAIN messages' \subseteq 1..meta'
      /\ messages' \in [DOMAIN messages' ->
                     [msg : Keyed \cup Welcome, edited : BOOLEAN]]
  BY DEF TypeInv, TypeOK, D1Insert, Inserted, storage
<1> QED
  BY <1>1 DEF TypeInv, TypeOK, CounterInv, FlushingInv, Live, D1Insert,
              callers, storage, memory, bounds

LEMMA TypeFlushOk ==
  ASSUME TypeInv, FlushOk
  PROVE  TypeInv'
<1>1. /\ DOMAIN pending' \subseteq 1..meta'
      /\ pending' \in [DOMAIN pending' ->
                    [msg : Keyed \cup Welcome \cup {Poison},
                     attempts : 0..MaxFlushAttempts]]
  BY DEF TypeInv, TypeOK, FlushOk, Without
<1> QED
  BY <1>1 DEF TypeInv, TypeOK, CounterInv, FlushingInv, FlushOk,
              AlarmAfterFlush, callers, database, bounds

LEMMA TypeFlushFail ==
  ASSUME TypeInv, FlushFail
  PROVE  TypeInv'
<1>1. \A s \in flushing : pending[s].attempts + 1 \in 0..MaxFlushAttempts
  BY LiveRows DEF TypeInv, FlushingInv
<1>2. DOMAIN pending' = DOMAIN pending
  BY DEF FlushFail, AttemptFailed
<1>3. ASSUME NEW s \in DOMAIN pending
      PROVE  pending'[s] \in [msg : Keyed \cup Welcome \cup {Poison},
                              attempts : 0..MaxFlushAttempts]
  <2>1. /\ pending[s] \in [msg : Keyed \cup Welcome \cup {Poison},
                           attempts : 0..MaxFlushAttempts]
        /\ pending'[s] = IF s \in flushing
                           THEN [pending[s] EXCEPT !.attempts = @ + 1]
                           ELSE pending[s]
    BY DEF TypeInv, TypeOK, FlushFail, AttemptFailed
  <2>2. CASE s \in flushing
    <3>1. pending[s].attempts + 1 \in 0..MaxFlushAttempts
      BY <1>1, <2>2
    <3>2. pending'[s] = [msg |-> pending[s].msg,
                         attempts |-> pending[s].attempts + 1]
      BY <2>1, <2>2
    <3> QED BY <2>1, <3>1, <3>2
  <2> QED BY <2>1, <2>2
<1>4. pending' \in [DOMAIN pending ->
                    [msg : Keyed \cup Welcome \cup {Poison},
                     attempts : 0..MaxFlushAttempts]]
  BY <1>3 DEF FlushFail, AttemptFailed
<1> QED
  BY <1>2, <1>4 DEF TypeInv, TypeOK, CounterInv, FlushingInv, FlushFail,
                   callers, database

LEMMA TypeNext == TypeInv /\ [Next]_vars => TypeInv'
<1> SUFFICES ASSUME TypeInv, [Next]_vars PROVE TypeInv'
  OBVIOUS
<1> USE DEF callers, storage, memory, database, bounds
<1>1. ASSUME NEW c \in Call, Receive(c) \/ Refuse(c) \/ Answer(c)
      PROVE  TypeInv'
  BY <1>1 DEF TypeInv, TypeOK, CounterInv, FlushingInv, Live, Phase,
              Receive, Refuse, Answer
<1>2. ASSUME NEW c \in Call, Duplicate(c) PROVE TypeInv'
  BY <1>2 DEF TypeInv, TypeOK, CounterInv, FlushingInv, Live, Phase,
              Duplicate, IsDuplicate
<1>3. ASSUME NEW s \in DOMAIN messages, Rewrite(s) PROVE TypeInv'
  <2>1. /\ DOMAIN messages' = DOMAIN messages
        /\ messages' \in [DOMAIN messages ->
                     [msg : Keyed \cup Welcome, edited : BOOLEAN]]
    <3>1. messages' = [messages EXCEPT ![s] =
                         [messages[s] EXCEPT !.edited = TRUE]]
      BY <1>3 DEF Rewrite
    <3>2. messages[s] \in [msg : Keyed \cup Welcome, edited : BOOLEAN]
      BY DEF TypeInv, TypeOK
    <3>3. [messages[s] EXCEPT !.edited = TRUE]
            \in [msg : Keyed \cup Welcome, edited : BOOLEAN]
      BY <3>2, Zenon
    <3> QED BY <3>1, <3>3 DEF TypeInv, TypeOK
  <2> QED
    BY <1>3, <2>1 DEF TypeInv, TypeOK, CounterInv, FlushingInv, Live, Rewrite
<1>4. CASE Crash
  BY <1>4 DEF TypeInv, TypeOK, CounterInv, FlushingInv, Live, Phase,
              Crash, Restart
<1>5. CASE UNCHANGED vars
  BY <1>5 DEF TypeInv, TypeOK, CounterInv, FlushingInv, Live, vars
<1> QED
  BY <1>1, <1>2, <1>3, <1>4, <1>5, TypeAccept, TypeStoreThenCrash, TypeAlarm,
     TypeD1, TypeFlushOk, TypeFlushFail DEF Next

\* The state of the object is well typed in every reachable state: seqs stay
\* below the counter, batches stay inside the buffer, and no row is tried
\* more often than MAX_FLUSH_ATTEMPTS.
THEOREM TypeCorrect == Spec => []TypeOK
<1>1. Init => TypeInv
  BY TypeInit DEF TypeInv, FlushingInv, Init
<1>2. TypeInv => TypeOK
  BY DEF TypeInv
<1> QED BY <1>1, <1>2, TypeNext, PTL DEF Spec
-----------------------------------------------------------------------------
(***************************************************************************)
(* The log.  A seq names one row for ever: in the buffer, on its way to D1 *)
(* and in D1.  Keys and answers point at the row they were given for.      *)
(***************************************************************************)

\* Buffer and database hold the same row under a seq.
AgreeInv ==
  \A s \in DOMAIN pending \cap DOMAIN messages :
    pending[s].msg = messages[s].msg

\* What is on its way to D1 is what stands at those seqs.
WireInv == \A rows \in wire : \A s \in DOMAIN rows : log[s] = rows[s]

\* The keys and the keyed rows are the same, seq by seq.
KeyInv ==
  /\ \A k \in DOMAIN idem : log[idem[k]] = k
  /\ \A s \in 1..meta : log[s] \in Keyed => log[s] \in DOMAIN idem

\* A call is answered with the seq of its own message.
ReplyInv ==
  \A c \in Call : phase[c] \in {"stored", "answered"} =>
    reply[c] \in 1..meta /\ log[reply[c]] = Key(c)

LogInv == TypeInv /\ AgreeInv /\ WireInv /\ KeyInv /\ ReplyInv

\* Every action but Accept and StoreThenCrash.
NoStore ==
  \/ \E c \in Call : Receive(c) \/ Refuse(c) \/ Duplicate(c) \/ Answer(c)
  \/ AlarmFires
  \/ \E rows \in wire : D1Insert(rows)
  \/ FlushOk
  \/ FlushFail
  \/ \E s \in DOMAIN messages : Rewrite(s)
  \/ Crash
  \/ UNCHANGED vars

\* Draining moves rows between buffer, wire and database; it changes none.
LEMMA DrainKeepsRows ==
  ASSUME LogInv, NoStore
  PROVE  AgreeInv' /\ WireInv' /\ UNCHANGED <<meta, idem, nextSeq, log>>
<1> USE DEF callers, storage, memory, database, bounds
<1>1. CASE \/ \E c \in Call : Receive(c) \/ Refuse(c) \/ Duplicate(c) \/ Answer(c)
           \/ UNCHANGED vars
  BY <1>1 DEF LogInv, AgreeInv, WireInv, log, RowAt, vars,
              Receive, Refuse, Duplicate, Answer
<1>2. CASE Crash
  BY <1>2 DEF LogInv, TypeInv, CounterInv, AgreeInv, WireInv, log, RowAt,
              Crash, Restart
<1>3. CASE AlarmFires
  <2> DEFINE good == {s \in Batch : pending[s].msg # Poison}
  <2>1. /\ pending' = [s \in DOMAIN pending \ (Batch \ good) |-> pending[s]]
        /\ wire' = IF good = {} THEN wire
                   ELSE wire \cup {[s \in good |-> pending[s].msg]}
        /\ UNCHANGED <<meta, idem, nextSeq, messages>>
    BY <1>3 DEF AlarmFires, Without
  <2>2. Batch \subseteq DOMAIN pending
    BY LiveRows DEF LogInv, TypeInv
  <2>3. ASSUME NEW s PROVE RowAt(s)' = RowAt(s)
    <3>1. CASE s \in Batch \ good
      <4>1. s \notin DOMAIN messages
        BY <2>2, <3>1 DEF LogInv, AgreeInv, TypeInv, TypeOK
      <4> QED BY <2>1, <2>2, <3>1, <4>1 DEF RowAt
    <3>2. CASE s \notin Batch \ good
      BY <2>1, <3>2 DEF RowAt
    <3> QED BY <3>1, <3>2
  <2>4. log' = log
    BY <2>1, <2>3 DEF log
  <2>5. AgreeInv'
    BY <2>1 DEF LogInv, AgreeInv
  <2>6. WireInv'
    <3> SUFFICES ASSUME NEW rows \in wire', NEW s \in DOMAIN rows
                 PROVE  log'[s] = rows[s]
      BY DEF WireInv
    <3>1. CASE rows \in wire
      BY <2>4, <3>1 DEF LogInv, WireInv
    <3>2. CASE rows = [t \in good |-> pending[t].msg]
      BY <2>2, <2>4, <3>2 DEF log, RowAt, LogInv, TypeInv, TypeOK
    <3> QED BY <2>1, <3>1, <3>2
  <2> QED BY <2>1, <2>4, <2>5, <2>6
<1>4. ASSUME NEW rows \in wire, D1Insert(rows)
      PROVE  AgreeInv' /\ WireInv' /\ UNCHANGED <<meta, idem, nextSeq, log>>
  <2>1. /\ messages' = Inserted(rows)
        /\ wire' \subseteq wire
        /\ UNCHANGED <<pending, meta, idem, nextSeq>>
    BY <1>4 DEF D1Insert
  <2>2. /\ DOMAIN messages' = DOMAIN messages \cup DOMAIN rows
        /\ \A s \in DOMAIN messages' :
             messages'[s].msg = IF s \in DOMAIN messages
                                  THEN messages[s].msg ELSE rows[s]
    BY <2>1 DEF Inserted
  <2>3. \A s \in DOMAIN rows : s \in 1..meta /\ rows[s] = RowAt(s)
    BY DEF LogInv, TypeInv, TypeOK, WireInv, log
  <2>4. ASSUME NEW s PROVE RowAt(s)' = RowAt(s)
    BY <2>1, <2>2, <2>3 DEF RowAt
  <2>5. log' = log
    BY <2>1, <2>4 DEF log
  <2>6. AgreeInv'
    BY <2>1, <2>2, <2>3 DEF LogInv, AgreeInv, RowAt
  <2> QED BY <2>1, <2>5, <2>6 DEF LogInv, WireInv
<1>5. CASE FlushOk
  <2>1. /\ pending' = [s \in DOMAIN pending \ flushing |-> pending[s]]
        /\ flushing \subseteq DOMAIN messages
        /\ UNCHANGED <<meta, idem, nextSeq, wire, messages>>
    BY <1>5 DEF FlushOk, Without
  <2>2. ASSUME NEW s PROVE RowAt(s)' = RowAt(s)
    BY <2>1 DEF LogInv, AgreeInv, RowAt
  <2>3. log' = log
    BY <2>1, <2>2 DEF log
  <2>4. AgreeInv'
    BY <2>1 DEF LogInv, AgreeInv
  <2> QED BY <2>1, <2>3, <2>4 DEF LogInv, WireInv
<1>6. CASE FlushFail
  <2>1. /\ DOMAIN pending' = DOMAIN pending
        /\ \A s \in DOMAIN pending : pending'[s].msg = pending[s].msg
        /\ UNCHANGED <<meta, idem, nextSeq, wire, messages>>
    BY <1>6 DEF FlushFail, AttemptFailed, LogInv, TypeInv, TypeOK
  <2>2. ASSUME NEW s PROVE RowAt(s)' = RowAt(s)
    BY <2>1 DEF RowAt
  <2>3. log' = log
    BY <2>1, <2>2 DEF log
  <2>4. AgreeInv'
    BY <2>1 DEF LogInv, AgreeInv
  <2> QED BY <2>1, <2>3, <2>4 DEF LogInv, WireInv
<1>7. ASSUME NEW s \in DOMAIN messages, Rewrite(s)
      PROVE  AgreeInv' /\ WireInv' /\ UNCHANGED <<meta, idem, nextSeq, log>>
  <2>1. /\ DOMAIN messages' = DOMAIN messages
        /\ \A t \in DOMAIN messages : messages'[t].msg = messages[t].msg
        /\ UNCHANGED <<pending, meta, idem, nextSeq, wire>>
    BY <1>7 DEF Rewrite, LogInv, TypeInv, TypeOK
  <2>2. ASSUME NEW t PROVE RowAt(t)' = RowAt(t)
    BY <2>1 DEF RowAt
  <2>3. log' = log
    BY <2>1, <2>2 DEF log
  <2>4. AgreeInv'
    BY <2>1 DEF LogInv, AgreeInv
  <2> QED BY <2>1, <2>3, <2>4 DEF LogInv, WireInv
<1> QED
  BY <1>1, <1>2, <1>3, <1>4, <1>5, <1>6, <1>7 DEF NoStore

\* A call that stores rows puts them above all others.
LEMMA StoreAddsRows ==
  ASSUME LogInv, NEW c \in Call, Store(c), UNCHANGED <<wire, messages>>
  PROVE  /\ AgreeInv' /\ WireInv' /\ KeyInv' /\ \A s \in 1..meta : log'[s] = log[s]
         /\ meta' = meta + Width(c)
         /\ \A s \in meta + 1 .. meta' : log'[s] = Rows[c][s - meta]
         /\ c \notin Seeds => \A s \in 1..meta : log[s] # Key(c)
<1>1. /\ meta \in Nat /\ nextSeq = meta
      /\ Width(c) \in Nat \ {0}
      /\ meta' = meta + Width(c)
      /\ DOMAIN pending \subseteq 1..meta
      /\ DOMAIN messages \subseteq 1..meta
  BY RowsOfCall DEF LogInv, TypeInv, TypeOK, CounterInv, Store
<1>2. /\ DOMAIN pending' = DOMAIN pending \cup (meta + 1 .. meta + Width(c))
      /\ \A s \in DOMAIN pending : pending'[s] = pending[s]
      /\ \A s \in meta + 1 .. meta + Width(c) :
           pending'[s].msg = Rows[c][s - meta]
  BY <1>1 DEF Store, Stored
<1>3. \A s \in 1..meta : log'[s] = log[s]
  BY <1>1, <1>2 DEF log, RowAt
<1>4. \A s \in meta + 1 .. meta' : log'[s] = Rows[c][s - meta]
  BY <1>1, <1>2 DEF log, RowAt
<1>5. AgreeInv'
  BY <1>1, <1>2 DEF AgreeInv, LogInv
<1>6. WireInv'
  <2> SUFFICES ASSUME NEW rows \in wire, NEW s \in DOMAIN rows
               PROVE  log'[s] = rows[s]
    BY DEF WireInv
  <2>1. s \in 1..meta
    BY DEF LogInv, TypeInv, TypeOK
  <2> QED BY <1>3, <2>1 DEF LogInv, WireInv
<1>7. c \notin Seeds => \A s \in 1..meta : log[s] # Key(c)
  BY RowsOfCall DEF Store, IsDuplicate, LogInv, KeyInv
<1>8. KeyInv'
  <2>1. CASE c \in Seeds
    <3>1. idem' = idem
      BY <2>1 DEF Store, Remembered
    <3>2. ASSUME NEW s \in 1..meta', log'[s] \in Keyed
          PROVE  s \in 1..meta
      <4>1. CASE s \in meta + 1 .. meta + Width(c)
        <5>1. s - meta \in 1..Width(c)
          BY <1>1, <4>1
        <5>2. log'[s] = Rows[c][s - meta]
          BY <1>1, <1>4, <4>1
        <5> QED BY <2>1, <3>2, <5>1, <5>2, RowsOfCall
      <4> QED BY <1>1, <4>1
    <3>3. \A k \in DOMAIN idem : idem[k] \in 1..meta
      BY DEF LogInv, TypeInv, TypeOK
    <3> QED BY <1>3, <3>1, <3>2, <3>3 DEF KeyInv, LogInv
  <2>2. CASE c \notin Seeds
    <3>1. /\ Width(c) = 1 /\ Key(c) = Rows[c][1]
          /\ DOMAIN idem' = DOMAIN idem \cup {Key(c)}
          /\ idem'[Key(c)] = meta + 1
          /\ \A k \in DOMAIN idem : k # Key(c) => idem'[k] = idem[k]
      BY <1>1, <2>2, RowsOfCall DEF Store, Remembered, Key
    <3>2. meta' = meta + 1 /\ log'[meta'] = Key(c)
      BY <1>1, <1>4, <3>1
    <3>3. ASSUME NEW k \in DOMAIN idem' PROVE log'[idem'[k]] = k
      <4>1. CASE k = Key(c)
        BY <3>1, <3>2, <4>1
      <4>2. CASE k # Key(c)
        <5>1. k \in DOMAIN idem /\ idem'[k] = idem[k] /\ idem[k] \in 1..meta
          BY <3>1, <4>2 DEF LogInv, TypeInv, TypeOK
        <5> QED BY <1>3, <5>1 DEF LogInv, KeyInv
      <4> QED BY <4>1, <4>2
    <3>4. ASSUME NEW s \in 1..meta', log'[s] \in Keyed
          PROVE  log'[s] \in DOMAIN idem'
      <4>1. CASE s = meta'
        BY <3>1, <3>2, <4>1
      <4>2. CASE s # meta'
        <5>1. s \in 1..meta
          BY <1>1, <3>2, <4>2
        <5> QED BY <1>3, <3>1, <3>4, <5>1 DEF LogInv, KeyInv
      <4> QED BY <4>1, <4>2
    <3> QED BY <3>3, <3>4 DEF KeyInv
  <2> QED BY <2>1, <2>2
<1> QED BY <1>1, <1>3, <1>4, <1>5, <1>6, <1>7, <1>8

\* Which phases a step can bring a call into.
LEMMA ReplyNext ==
  ASSUME LogInv, NoStore
  PROVE  ReplyInv'
<1>1. log' = log /\ meta' = meta
  BY DrainKeepsRows
<1> SUFFICES ASSUME NEW c \in Call, phase'[c] \in {"stored", "answered"}
             PROVE  reply'[c] \in 1..meta' /\ log'[reply'[c]] = Key(c)
  BY DEF ReplyInv
<1>2. \/ phase[c] \in {"stored", "answered"} /\ reply'[c] = reply[c]
      \/ Duplicate(c)
  BY DEF NoStore, LogInv, TypeInv, TypeOK, Receive, Refuse, Duplicate, Answer,
         AlarmFires, D1Insert, FlushOk, FlushFail, Rewrite, Crash, Restart,
         callers, vars
<1>3. CASE phase[c] \in {"stored", "answered"} /\ reply'[c] = reply[c]
  BY <1>1, <1>3 DEF LogInv, ReplyInv
<1>4. CASE Duplicate(c)
  <2>1. /\ Key(c) \in DOMAIN idem /\ idem[Key(c)] \in 1..meta
        /\ reply'[c] = idem[Key(c)]
    BY <1>4 DEF Duplicate, IsDuplicate, LogInv, TypeInv, TypeOK
  <2> QED BY <1>1, <2>1 DEF LogInv, KeyInv
<1> QED BY <1>2, <1>3, <1>4

LEMMA LogNext == LogInv /\ [Next]_vars => LogInv'
<1> SUFFICES ASSUME LogInv, [Next]_vars PROVE LogInv'
  OBVIOUS
<1>1. TypeInv'
  BY TypeNext DEF LogInv
<1>2. CASE NoStore
  <2>1. KeyInv'
    <3>1. UNCHANGED <<meta, idem, log>>
      BY <1>2, DrainKeepsRows
    <3>2. \A k \in DOMAIN idem : idem[k] \in 1..meta
      BY DEF LogInv, TypeInv, TypeOK
    <3> QED BY <3>1, <3>2 DEF LogInv, KeyInv
  <2> QED BY <1>1, <1>2, <2>1, DrainKeepsRows, ReplyNext DEF LogInv
<1>3. ASSUME NEW c \in Call, Accept(c) PROVE LogInv'
  <2>1. Store(c) /\ UNCHANGED <<wire, messages>>
    BY <1>3 DEF Accept, database
  <2>2. /\ \A s \in 1..meta : log'[s] = log[s]
        /\ meta' = meta + Width(c) /\ meta \in Nat
        /\ Width(c) \in Nat \ {0} /\ nextSeq = meta
    BY <2>1, StoreAddsRows, RowsOfCall
       DEF LogInv, TypeInv, TypeOK, CounterInv
  <2>3. ReplyInv'
    <3> SUFFICES ASSUME NEW d \in Call, phase'[d] \in {"stored", "answered"}
                 PROVE  reply'[d] \in 1..meta' /\ log'[reply'[d]] = Key(d)
      BY DEF ReplyInv
    <3>1. CASE d = c
      <4>1. reply'[d] = meta + 1
        BY <1>3, <2>2, <3>1 DEF Accept, LogInv, TypeInv, TypeOK
      <4>2. 1 \in 1..Width(c) /\ meta + 1 \in 1..meta'
        BY <2>2
      <4>3. log'[meta + 1] = Rows[c][(meta + 1) - meta]
        BY <2>1, <2>2, StoreAddsRows
      <4>4. (meta + 1) - meta = 1
        BY <2>2
      <4> QED BY <3>1, <4>1, <4>2, <4>3, <4>4 DEF Key
    <3>2. CASE d # c
      <4>1. phase[d] \in {"stored", "answered"} /\ reply'[d] = reply[d]
        BY <1>3, <3>2 DEF Accept, LogInv, TypeInv, TypeOK
      <4> QED BY <2>2, <4>1 DEF LogInv, ReplyInv
    <3> QED BY <3>1, <3>2
  <2> QED BY <1>1, <2>1, <2>3, StoreAddsRows DEF LogInv
<1>4. ASSUME NEW c \in Call, StoreThenCrash(c) PROVE LogInv'
  <2>1. Store(c) /\ UNCHANGED <<wire, messages, reply>>
    BY <1>4 DEF StoreThenCrash, database
  <2>2. /\ \A s \in 1..meta : log'[s] = log[s]
        /\ meta' = meta + Width(c) /\ meta \in Nat
        /\ Width(c) \in Nat \ {0}
    BY <2>1, StoreAddsRows, RowsOfCall DEF LogInv, TypeInv, TypeOK
  <2>3. \A d \in Call : phase'[d] \in {"stored", "answered"} =>
          phase[d] \in {"stored", "answered"}
    BY <1>4 DEF StoreThenCrash, Restart
  <2>4. ReplyInv'
    BY <2>1, <2>2, <2>3 DEF LogInv, ReplyInv
  <2> QED BY <1>1, <2>1, <2>4, StoreAddsRows DEF LogInv
<1> QED BY <1>2, <1>3, <1>4 DEF Next, NoStore

LEMMA LogInit == Init => LogInv
BY TypeInit DEF LogInv, TypeInv, FlushingInv, AgreeInv, WireInv, KeyInv,
                ReplyInv, Init, log, RowAt

\* No step but an answer tells a sender anything.
LEMMA PairsKept ==
  ASSUME LogInv,
         \A c \in Call :
           \/ phase'[c] = phase[c] /\ reply'[c] = reply[c]
           \/ phase[c] # "answered" /\ phase'[c] # "answered"
  PROVE  UNCHANGED AnsweredPairs
BY DEF AnsweredPairs

\* One step of the object is one step of the log or none.
LEMMA StepOfLog ==
  ASSUME LogInv, [Next]_vars
  PROVE  [Log!Next]_Log!logVars
<1> USE DEF Log!logVars
<1>1. CASE NoStore
  <2>1. UNCHANGED <<meta, log>>
    BY <1>1, DrainKeepsRows
  <2>2. ASSUME NEW c \in Call, Answer(c) PROVE Log!Next
    <3>1. /\ phase[c] = "stored"
          /\ phase' = [phase EXCEPT ![c] = "answered"]
          /\ reply' = reply
      BY <2>2 DEF Answer
    <3>2. AnsweredPairs' = AnsweredPairs \cup {<<Key(c), reply[c]>>}
      BY <3>1 DEF AnsweredPairs, LogInv, TypeInv, TypeOK
    <3>3. reply[c] \in 1..meta /\ log[reply[c]] = Key(c)
      BY <3>1 DEF LogInv, ReplyInv
    <3>4. Log!Answer(Key(c), reply[c])
      BY <2>1, <3>2, <3>3 DEF Log!Answer
    <3>5. Key(c) \in Keyed \cup Welcome
      BY RowsOfCall DEF Row
    <3> QED BY <3>3, <3>4, <3>5 DEF Log!Next
  <2>3. CASE ~ \E c \in Call : Answer(c)
    <3>1. \A c \in Call :
            \/ phase'[c] = phase[c] /\ reply'[c] = reply[c]
            \/ phase[c] # "answered" /\ phase'[c] # "answered"
      BY <1>1, <2>3
         DEF NoStore, LogInv, TypeInv, TypeOK, Receive, Refuse, Duplicate,
             AlarmFires, D1Insert, FlushOk, FlushFail, Rewrite, Crash,
             Restart, callers, vars
    <3> QED BY <2>1, <3>1, PairsKept
  <2> QED BY <2>2, <2>3
<1>2. ASSUME NEW c \in Call, Accept(c) \/ StoreThenCrash(c) PROVE Log!Next
  <2>1. Store(c) /\ UNCHANGED <<wire, messages>>
    BY <1>2 DEF Accept, StoreThenCrash, database
  <2>2. phase[c] = "received"
    BY <2>1 DEF Store
  <2>3. UNCHANGED AnsweredPairs
    <3>1. \A d \in Call :
            \/ phase'[d] = phase[d] /\ reply'[d] = reply[d]
            \/ phase[d] # "answered" /\ phase'[d] # "answered"
      BY <1>2, <2>2 DEF Accept, StoreThenCrash, Restart, LogInv, TypeInv, TypeOK
    <3> QED BY <3>1, PairsKept
  <2>4. /\ meta \in Nat /\ Width(c) \in Nat \ {0}
        /\ meta' = meta + Width(c)
        /\ \A s \in 1..meta : log'[s] = log[s]
        /\ \A s \in meta + 1 .. meta' : log'[s] = Rows[c][s - meta]
        /\ c \notin Seeds => \A s \in 1..meta : log[s] # Key(c)
    BY <2>1, StoreAddsRows, RowsOfCall DEF LogInv, TypeInv, TypeOK
  <2>5. Log!Grows
    BY <2>4 DEF Log!Grows
  <2>6. CASE c \in Seeds
    <3>1. ASSUME NEW s \in meta + 1 .. meta' PROVE log'[s] \in Welcome
      <4>1. s - meta \in 1..Width(c)
        BY <2>4
      <4> QED BY <2>4, <2>6, <4>1, RowsOfCall
    <3> QED BY <2>3, <2>5, <3>1 DEF Log!Next, Log!Seed
  <2>7. CASE c \notin Seeds
    <3>1. Width(c) = 1 /\ Key(c) \in Keyed
      BY <2>7, RowsOfCall
    <3>2. meta' = meta + 1 /\ meta' - meta = 1
      BY <2>4, <3>1
    <3>3. log'[meta'] = Key(c)
      BY <2>4, <3>2 DEF Key
    <3>4. Log!Send(Key(c))
      BY <2>3, <2>4, <2>5, <2>7, <3>2, <3>3 DEF Log!Send
    <3> QED BY <3>1, <3>4 DEF Log!Next
  <2> QED BY <2>6, <2>7
<1> QED BY <1>1, <1>2 DEF Next, NoStore

\* Through retries, crashes at any point, late and failed inserts, and
\* whatever the alarm does with the buffer: no accepted row is lost or
\* changed, a keyed message is stored at most once, and every answer is true.
THEOREM ObjectImplementsLog == Spec => ImplementsLog
<1>1. Init => Log!Init
  BY DEF Init, Log!Init, log, RowAt, AnsweredPairs
<1>2. LogInv /\ [Next]_vars => [Log!Next]_Log!logVars
  BY StepOfLog
<1> QED BY <1>1, <1>2, LogInit, LogNext, PTL DEF Spec, ImplementsLog, Log!Spec

\* D1 never forgets or rewrites a row on its own, and a replayed insert
\* leaves edits alone.
THEOREM EditsSurvive == Spec => EditsSurviveReplay
<1> DEFINE Survive ==
      \A s \in DOMAIN messages :
        /\ s \in DOMAIN messages'
        /\ messages'[s].msg = messages[s].msg
        /\ messages[s].edited => messages'[s].edited
<1>1. TypeInv /\ [Next]_vars => [Survive]_messages
  <2> SUFFICES ASSUME TypeInv, [Next]_vars, messages' # messages PROVE Survive
    OBVIOUS
  <2>1. ASSUME NEW rows \in wire, D1Insert(rows) PROVE Survive
    BY <2>1 DEF D1Insert, Inserted
  <2>2. ASSUME NEW s \in DOMAIN messages, Rewrite(s) PROVE Survive
    BY <2>2 DEF Rewrite, TypeInv, TypeOK
  <2> QED
    BY <2>1, <2>2
       DEF Next, vars, database, Receive, Refuse, Duplicate, Accept, Answer,
           StoreThenCrash, AlarmFires, FlushOk, FlushFail, Crash
<1>2. Init => TypeInv
  BY TypeInit DEF TypeInv, FlushingInv, Init
<1> QED BY <1>1, <1>2, TypeNext, PTL DEF Spec, EditsSurviveReplay
-----------------------------------------------------------------------------
(***************************************************************************)
(* The drain.                                                              *)
(***************************************************************************)

\* A seq that history will not see filled later.
Settled(t) == t \in DOMAIN messages \/ t \in Dead \/ RowAt(t) = Poison

DrainInv ==
  /\ \A s \in DOMAIN messages : \A t \in 1..s : Settled(t)
  /\ \A rows \in wire : \A s \in DOMAIN rows : \A t \in 1..s :
       Settled(t) \/ t \in DOMAIN rows

\* A batch takes the live rows in seq order.
LEMMA BatchIsPrefix ==
  ASSUME TypeOK, NEW s \in Batch, NEW t \in Live, t < s
  PROVE  t \in Batch
<1>1. Live \subseteq 1..meta /\ meta \in Nat /\ s \in 1..meta /\ t \in 1..meta
  BY LiveRows DEF TypeOK
<1>2. IsFiniteSet(Live)
  <2>1. IsFiniteSet(1..meta)
    <3>1. 1 \in Int /\ meta \in Int
      BY <1>1
    <3> QED BY <3>1, FS_Interval, Zenon
  <2> QED BY <1>1, <2>1, FS_Subset, Zenon
<1> DEFINE Below(x) == {u \in Live : u < x}
<1>3. Below(t) \subseteq Below(s) /\ Below(s) \subseteq Live
  <2>1. \A u \in Live : u < t => u < s
    BY <1>1
  <2> QED BY <2>1
<1>4. IsFiniteSet(Below(s))
  <2>1. Below(s) \in SUBSET Live
    BY <1>3
  <2> HIDE DEF Below
  <2> QED BY <1>2, <2>1, FS_Subset, Zenon
<1>5. /\ Cardinality(Below(t)) \in Nat /\ Cardinality(Below(s)) \in Nat
      /\ Cardinality(Below(t)) <= Cardinality(Below(s))
  BY <1>3, <1>4, FS_Subset, FS_CardinalityType
<1>6. Cardinality(Below(s)) < MaxPendingBatch
  BY DEF Batch
<1> QED BY <1>5, <1>6 DEF Batch

\* Dead letters stay: no step takes them out of the buffer.
LEMMA DeadStays ==
  ASSUME LogInv, [Next]_vars
  PROVE  Dead \subseteq Dead'
<1> USE DEF callers, storage, memory, database, bounds, LogInv, TypeInv
<1> SUFFICES ASSUME NEW s \in Dead
             PROVE  s \in DOMAIN pending' /\ ~ (pending'[s].attempts < MaxFlushAttempts)
  BY DEF Dead, Live
<1>1. s \in DOMAIN pending /\ s \notin Live
  BY DEF Dead
<1>2. ~ (pending[s].attempts < MaxFlushAttempts) /\ s \in 1..meta
  BY <1>1 DEF Live, TypeOK
<1>3. ASSUME NEW c \in Call, Store(c)
      PROVE  s \in DOMAIN pending' /\ pending'[s] = pending[s]
  BY <1>1, <1>2, <1>3, RowsOfCall DEF Store, Stored, CounterInv, TypeOK
<1>4. CASE AlarmFires
  BY <1>1, <1>2, <1>4, LiveRows DEF AlarmFires, Without
<1>5. CASE FlushOk
  <2>1. s \notin flushing
    BY <1>1 DEF FlushingInv
  <2> QED BY <1>1, <1>2, <1>5, <2>1 DEF FlushOk, Without
<1>6. CASE FlushFail
  <2>1. s \notin flushing
    BY <1>1 DEF FlushingInv
  <2> QED BY <1>1, <1>2, <1>6, <2>1 DEF FlushFail, AttemptFailed
<1>7. CASE UNCHANGED pending
  BY <1>1, <1>2, <1>7
<1> QED
  BY <1>1, <1>2, <1>3, <1>4, <1>5, <1>6, <1>7
     DEF Next, vars, Receive, Refuse, Duplicate, Accept, Answer,
         StoreThenCrash, D1Insert, Rewrite, Crash

\* A settled seq stays settled.
LEMMA SettledStays ==
  ASSUME LogInv, [Next]_vars, NEW t \in 1..meta, Settled(t)
  PROVE  Settled(t)'
<1> USE DEF callers, storage, memory, database, bounds, LogInv, TypeInv
<1>1. Dead \subseteq Dead'
  BY DeadStays
<1>2. DOMAIN messages \subseteq DOMAIN messages'
  <2>1. ASSUME NEW rows \in wire, D1Insert(rows)
        PROVE  DOMAIN messages \subseteq DOMAIN messages'
    BY <2>1 DEF D1Insert, Inserted
  <2>2. ASSUME NEW s \in DOMAIN messages, Rewrite(s)
        PROVE  DOMAIN messages \subseteq DOMAIN messages'
    BY <2>2 DEF Rewrite, TypeOK
  <2> QED
    BY <2>1, <2>2
       DEF Next, vars, Receive, Refuse, Duplicate, Accept, Answer,
           StoreThenCrash, AlarmFires, FlushOk, FlushFail, Crash
<1>3. log'[t] = log[t] /\ t \in 1..meta'
  <2>1. CASE NoStore
    BY <2>1, DrainKeepsRows
  <2>2. ASSUME NEW c \in Call, Accept(c) \/ StoreThenCrash(c)
        PROVE  log'[t] = log[t] /\ t \in 1..meta'
    <3>1. Store(c) /\ UNCHANGED <<wire, messages>>
      BY <2>2 DEF Accept, StoreThenCrash
    <3>2. meta' = meta + Width(c) /\ \A s \in 1..meta : log'[s] = log[s]
      BY <3>1, StoreAddsRows
    <3> QED BY <3>2, RowsOfCall DEF TypeOK
  <2> QED BY <2>1, <2>2 DEF Next, NoStore
<1>4. RowAt(t) = Poison => RowAt(t)' = Poison
  BY <1>3 DEF log
<1> QED BY <1>1, <1>2, <1>4 DEF Settled

LEMMA DrainNext ==
  ASSUME LogInv, DrainInv, [Next]_vars
  PROVE  DrainInv'
<1> USE DEF callers, storage, memory, database, bounds
<1>1. \A rows \in wire : DOMAIN rows \subseteq 1..meta
  BY DEF LogInv, TypeInv, TypeOK
<1>2. DOMAIN messages \subseteq 1..meta /\ meta \in Nat
  BY DEF LogInv, TypeInv, TypeOK
<1>3. \A s \in 1..meta : \A t \in 1..s : t \in 1..meta
  BY <1>2
<1>4. /\ \A s \in DOMAIN messages : \A t \in 1..s : Settled(t)'
      /\ \A rows \in wire : \A s \in DOMAIN rows : \A t \in 1..s :
           Settled(t)' \/ t \in DOMAIN rows
  BY <1>1, <1>2, <1>3, SettledStays DEF DrainInv
<1>5. CASE UNCHANGED <<wire, messages>>
  BY <1>4, <1>5 DEF DrainInv
<1>6. CASE AlarmFires
  <2> DEFINE good == {s \in Batch : pending[s].msg # Poison}
  <2>1. /\ wire' = IF good = {} THEN wire
                   ELSE wire \cup {[s \in good |-> pending[s].msg]}
        /\ messages' = messages
    BY <1>6 DEF AlarmFires
  <2>2. ASSUME NEW s \in good, NEW t \in 1..s
        PROVE  Settled(t)' \/ t \in good
    <3>1. s \in 1..meta /\ t \in 1..meta /\ t <= s
      BY <1>3, LiveRows DEF LogInv, TypeInv, TypeOK
    <3>2. CASE t \in Live
      <4>1. t \in Batch
        BY <3>1, <3>2, BatchIsPrefix DEF LogInv, TypeInv
      <4>2. CASE pending[t].msg = Poison
        BY <3>1, <3>2, <4>2, SettledStays, LiveRows DEF Settled, RowAt, LogInv, TypeInv
      <4> QED BY <4>1, <4>2
    <3>3. CASE t \notin Live
      BY <3>1, <3>3, SettledStays DEF Settled, RowAt, Dead
    <3> QED BY <3>2, <3>3
  <2>3. ASSUME NEW rows \in wire', NEW s \in DOMAIN rows, NEW t \in 1..s
        PROVE  Settled(t)' \/ t \in DOMAIN rows
    <3>1. CASE rows \in wire
      BY <1>4, <3>1
    <3>2. CASE rows = [u \in good |-> pending[u].msg]
      BY <2>2, <3>2
    <3> QED BY <2>1, <3>1, <3>2
  <2> QED BY <1>4, <2>1, <2>3 DEF DrainInv
<1>7. ASSUME NEW rows \in wire, D1Insert(rows) PROVE DrainInv'
  <2>1. /\ wire' \subseteq wire
        /\ DOMAIN messages' = DOMAIN messages \cup DOMAIN rows
    BY <1>7 DEF D1Insert, Inserted
  <2>2. \A t \in DOMAIN rows : Settled(t)'
    BY <2>1 DEF Settled
  <2> QED BY <1>4, <2>1, <2>2 DEF DrainInv
<1>8. ASSUME NEW s \in DOMAIN messages, Rewrite(s) PROVE DrainInv'
  <2>1. wire' = wire /\ DOMAIN messages' = DOMAIN messages
    BY <1>8 DEF Rewrite, LogInv, TypeInv, TypeOK
  <2> QED BY <1>4, <2>1 DEF DrainInv
<1> QED
  BY <1>5, <1>6, <1>7, <1>8
     DEF Next, vars, Receive, Refuse, Duplicate, Accept, Answer,
         StoreThenCrash, FlushOk, FlushFail, Crash

\* Whatever the batch size, and whatever fails: D1 fills up in seq order,
\* but for dead letters.
THEOREM DrainsInOrder == Spec => []DrainedInOrder
<1>1. Init => DrainInv
  BY DEF Init, DrainInv
<1>2. DrainInv => DrainedInOrder
  BY DEF DrainInv, DrainedInOrder, Settled
<1>3. LogInv /\ DrainInv /\ [Next]_vars => DrainInv'
  BY DrainNext
<1> QED BY <1>1, <1>2, <1>3, LogInit, LogNext, PTL DEF Spec
-----------------------------------------------------------------------------
(***************************************************************************)
(* The alarm.                                                              *)
(***************************************************************************)

\* Only the rows an upgraded object started with can lack a channel.
LegacyInv == \A s \in DOMAIN pending : pending[s].msg = Poison => s <= Legacy

AlarmInv == LegacyInv /\ AlarmCoversPending

\* With fewer legacy rows than a batch holds, a batch is not all legacy rows
\* while a message waits.
LEMMA BatchHasMessage ==
  ASSUME TypeOK, LegacyInv, Legacy < MaxPendingBatch,
         \E s \in Live : pending[s].msg # Poison
  PROVE  \E s \in Batch : pending[s].msg # Poison
<1> DEFINE Waiting == {s \in Live : pending[s].msg # Poison}
           Below(x) == {u \in Live : u < x}
<1>1. Waiting \in SUBSET Nat /\ Waiting # {} /\ Live \subseteq 1..meta
  BY LiveRows DEF TypeOK
<1>2. PICK m \in Waiting : \A s \in Waiting : m <= s
  <2> HIDE DEF Waiting
  <2> DEFINE R == OpToRel(<, Nat)
  <2>1. \A x, y \in Nat : <<x, y>> \in R <=> x < y
    BY DEF OpToRel
  <2>2. IsWellFoundedOn(R, Nat)
    BY NatLessThanWellFounded
  <2> HIDE DEF R
  <2>3. \E x \in Waiting : \A y \in Waiting : ~ (<<y, x>> \in R)
    BY <1>1, <2>2, WFMin, Zenon
  <2>4. ASSUME NEW x \in Waiting, NEW y \in Waiting, ~ (<<y, x>> \in R)
        PROVE  x <= y
    <3>1. x \in Nat /\ y \in Nat
      BY <1>1
    <3>2. ~ (y < x)
      BY <2>1, <2>4, <3>1
    <3> QED BY <3>1, <3>2
  <2> QED BY <2>3, <2>4
<1>3. Below(m) \subseteq 1..Legacy
  <2>1. ASSUME NEW u \in Live, u < m PROVE u \in 1..Legacy
    <3>1. u \in 1..meta /\ m \in 1..meta /\ meta \in Nat /\ u \in DOMAIN pending
      BY <1>1, LiveRows DEF TypeOK
    <3>2. u \notin Waiting
      BY <1>2, <2>1, <3>1
    <3> QED BY <2>1, <3>1, <3>2 DEF LegacyInv
  <2> QED BY <2>1
<1>4. IsFiniteSet(1..Legacy) /\ Cardinality(1..Legacy) = Legacy
  <2>1. /\ IsFiniteSet(1..Legacy)
        /\ Cardinality(1..Legacy) = IF 1 > Legacy THEN 0 ELSE Legacy - 1 + 1
    <3>1. 1 \in Int /\ Legacy \in Int
      OBVIOUS
    <3> QED BY <3>1, FS_Interval, Zenon
  <2> QED BY <2>1
<1>5. /\ IsFiniteSet(Below(m)) /\ Cardinality(Below(m)) <= Cardinality(1..Legacy)
  <2>1. Below(m) \in SUBSET (1..Legacy)
    BY <1>3
  <2> HIDE DEF Below
  <2> QED BY <1>4, <2>1, FS_Subset, Zenon
<1>6. Cardinality(Below(m)) \in Nat
  <2> HIDE DEF Below
  <2> QED BY <1>5, FS_CardinalityType, Zenon
<1>7. m \in Live /\ Cardinality(Below(m)) < MaxPendingBatch
  BY <1>2, <1>4, <1>5, <1>6
<1>8. m \in Batch
  BY <1>7 DEF Batch
<1> QED BY <1>2, <1>8

LEMMA AlarmNext ==
  ASSUME CoalescedWrites, Legacy < MaxPendingBatch,
         LogInv, AlarmInv, [Next]_vars
  PROVE  AlarmInv'
<1> USE DEF callers, storage, memory, database, bounds
<1>1. TypeOK /\ CounterInv /\ FlushingInv
  BY DEF LogInv, TypeInv
<1>2. CASE UNCHANGED <<pending, alarm, flushing>>
  BY <1>2 DEF AlarmInv, LegacyInv, AlarmCoversPending, Live
<1>3. ASSUME NEW c \in Call, Accept(c) PROVE AlarmInv'
  <2>1. alarm' = TRUE /\ pending' = Stored(c) /\ nextSeq = meta /\ meta \in Nat
    BY <1>1, <1>3 DEF Accept, Store, CounterInv, TypeOK
  <2>2. ASSUME NEW s \in DOMAIN pending', pending'[s].msg = Poison
        PROVE  s <= Legacy
    <3>1. CASE s > nextSeq
      <4>1. s - nextSeq \in 1..Width(c)
        BY <1>1, <2>1, <3>1, RowsOfCall DEF Stored, TypeOK
      <4>2. pending'[s].msg = Rows[c][s - nextSeq]
        BY <2>1, <3>1 DEF Stored
      <4> QED BY <2>2, <4>1, <4>2, RowsOfCall DEF Row
    <3>2. CASE ~ (s > nextSeq)
      <4>1. s \in DOMAIN pending /\ pending'[s] = pending[s]
        BY <1>1, <2>1, <3>2, RowsOfCall DEF Stored, TypeOK
      <4> QED BY <2>2, <4>1 DEF AlarmInv, LegacyInv
    <3> QED BY <3>1, <3>2
  <2> QED BY <2>1, <2>2 DEF AlarmInv, LegacyInv, AlarmCoversPending
<1>4. CASE AlarmFires
  <2> DEFINE good == {s \in Batch : pending[s].msg # Poison}
  <2>1. /\ pending' = [s \in DOMAIN pending \ (Batch \ good) |-> pending[s]]
        /\ flushing' = good
    BY <1>4 DEF AlarmFires, Without
  <2>2. LegacyInv'
    BY <2>1 DEF AlarmInv, LegacyInv
  <2>3. ASSUME NEW s \in Live', pending'[s].msg # Poison PROVE flushing' # {}
    <3>1. s \in Live /\ pending[s].msg # Poison
      BY <2>1, <2>3 DEF Live
    <3>2. \E u \in Batch : pending[u].msg # Poison
      BY <1>1, <3>1, BatchHasMessage DEF AlarmInv
    <3> QED BY <2>1, <3>2
  <2> QED BY <2>2, <2>3 DEF AlarmInv, AlarmCoversPending
<1>5. CASE FlushOk
  <2>1. /\ pending' = [s \in DOMAIN pending \ flushing |-> pending[s]]
        /\ alarm' = (alarm \/ Live \ flushing # {})
    BY <1>5 DEF FlushOk, Without, AlarmAfterFlush
  <2>2. LegacyInv'
    BY <2>1 DEF AlarmInv, LegacyInv
  <2>3. Live' = Live \ flushing
    BY <2>1 DEF Live
  <2> QED BY <2>1, <2>2, <2>3 DEF AlarmInv, AlarmCoversPending
<1>6. CASE FlushFail
  <2>1. /\ alarm' = TRUE
        /\ DOMAIN pending' = DOMAIN pending
        /\ \A s \in DOMAIN pending : pending'[s].msg = pending[s].msg
    BY <1>1, <1>6 DEF FlushFail, AttemptFailed, TypeOK
  <2> QED BY <2>1 DEF AlarmInv, LegacyInv, AlarmCoversPending
<1>7. CASE Crash
  <2>1. pending' = pending /\ alarm' = (alarm \/ flushing # {})
    BY <1>7 DEF Crash, Restart
  <2> QED BY <2>1 DEF AlarmInv, LegacyInv, AlarmCoversPending, Live
<1> QED
  BY <1>2, <1>3, <1>4, <1>5, <1>6, <1>7
     DEF Next, vars, Receive, Refuse, Duplicate, Answer, StoreThenCrash,
         D1Insert, Rewrite

\* If storage commits a row together with its alarm, and the legacy rows fit
\* into less than a batch, no message ever waits with no alarm to come.
THEOREM AlarmAlwaysCovers ==
  ASSUME CoalescedWrites, Legacy < MaxPendingBatch
  PROVE  Spec => []AlarmCoversPending
<1>1. Init => AlarmInv
  BY DEF Init, AlarmInv, LegacyInv, AlarmCoversPending, Live
<1>2. AlarmInv => AlarmCoversPending
  BY DEF AlarmInv
<1>3. LogInv /\ AlarmInv /\ [Next]_vars => AlarmInv'
  BY AlarmNext
<1> QED BY <1>1, <1>2, <1>3, LogInit, LogNext, PTL DEF Spec
=============================================================================
