------------------------------ MODULE ChatRoom ------------------------------
(***************************************************************************)
(* The durable half of one ChatRoom Durable Object                         *)
(* (packages/chat-room/src/chat-room.ts): how a message gets its seq, how  *)
(* a retried send is recognised, and how the rows buffered in the object's *)
(* SQLite storage are drained into the D1 database by its alarm.  Sessions,*)
(* membership, the archive gate and broadcasting do not touch this state   *)
(* and are left out; here a send that those checks turn away is simply     *)
(* refused.                                                                *)
(*                                                                         *)
(* A Durable Object runs one event at a time and changes events only where *)
(* the code awaits something other than its own storage, so the stretch    *)
(* from the idempotency lookup to scheduleFlush is one step, and alarm()   *)
(* is two: up to the D1 insert, and from its outcome on.                   *)
(***************************************************************************)
EXTENDS Naturals, FiniteSets

CONSTANTS
  Call,             \* invocations of the send and seed endpoints
  Rows,             \* Rows[c]: the sequence of rows call c wants to store
  Seeds,            \* the calls of /internal/seed; the others are sends
  Keyed,            \* messages, named by their (sender, idempotency key)
  Welcome,          \* seeded rows, which have no idempotency key
  Poison,           \* a buffered row without channelId, from an old release
  Legacy,           \* how many such rows an upgraded object starts with
  MaxPendingBatch,  \* MAX_PENDING_BATCH
  MaxFlushAttempts, \* MAX_FLUSH_ATTEMPTS
  MaxCrashes,       \* bound: evictions and restarts in a behaviour
  MaxFaults,        \* bound: D1 inserts that fail or whose answer is lost
  MaxEdits,         \* bound: rows that are edited or deleted
  CoalescedWrites   \* TRUE: storage commits the rows and the alarm together

\* How many rows call c stores, and what names the first of them.
Width(c) == Cardinality(DOMAIN Rows[c])
Key(c)   == Rows[c][1]

ASSUME CallAssumption ==
  /\ Seeds \subseteq Call
  /\ \A c \in Call : Width(c) \in Nat \ {0}
  /\ \A c \in Call \ Seeds : Width(c) = 1 /\ Rows[c] \in [1..1 -> Keyed]
  /\ \A c \in Seeds : Rows[c] \in [1..Width(c) -> Welcome]

ASSUME RowAssumption ==
  /\ Keyed \cap Welcome = {}
  /\ Poison \notin Keyed \cup Welcome

ASSUME BoundAssumption ==
  /\ Legacy \in Nat
  /\ MaxPendingBatch \in Nat \ {0}
  /\ MaxFlushAttempts \in Nat \ {0}
  /\ MaxCrashes \in Nat
  /\ MaxFaults \in Nat
  /\ MaxEdits \in Nat
  /\ CoalescedWrites \in BOOLEAN

VARIABLES
  phase,     \* phase[c]: how far call c has come
  reply,     \* reply[c]: the seq that call c is to be answered with
  meta,      \* storage: the next_seq counter
  idem,      \* storage: seq by (sender, idempotency key)
  pending,   \* storage: pending_writes, by seq
  alarm,     \* storage: an alarm is set
  nextSeq,   \* memory: the counter
  flushing,  \* memory: the seqs whose insert the running alarm() awaits
  wire,      \* inserts sent to D1 that D1 has not executed
  messages,  \* D1: the messages of this channel, by seq
  crashes,   \* counts up to MaxCrashes
  faults     \* counts up to MaxFaults

callers  == <<phase, reply>>
storage  == <<meta, idem, pending, alarm>>
memory   == <<nextSeq, flushing>>
database == <<wire, messages>>
bounds   == <<crashes, faults>>
vars     == <<callers, storage, memory, database, bounds>>

Phase == {"idle", "received", "stored", "answered", "refused", "lost"}

Without(table, seqs) == [s \in DOMAIN table \ seqs |-> table[s]]

\* Faulty variant of Live: no attempt limit in the SELECT.
LiveForever == DOMAIN pending

\* Rows the alarm still tries; the others are dead letters.
Live == {s \in DOMAIN pending : pending[s].attempts < MaxFlushAttempts}
Dead == DOMAIN pending \ Live

\* Faulty variant of Batch: newest rows first.
NewestBatch ==
  {s \in Live : Cardinality({t \in Live : t > s}) < MaxPendingBatch}

\* SELECT ... WHERE attempts < ? ORDER BY seq ASC LIMIT ?
Batch == {s \in Live : Cardinality({t \in Live : t < s}) < MaxPendingBatch}
-----------------------------------------------------------------------------
Init ==
  /\ phase = [c \in Call |-> "idle"]
  /\ reply = [c \in Call |-> 0]
  /\ meta = Legacy
  /\ idem = [k \in {} |-> 0]
  /\ pending = [s \in 1..Legacy |-> [msg |-> Poison, attempts |-> 0]]
  /\ alarm \in BOOLEAN
  /\ nextSeq = Legacy
  /\ flushing = {}
  /\ wire = {}
  /\ messages = [s \in {} |-> 0]
  /\ crashes = 0
  /\ faults = 0

\* The request arrives and its membership and archive lookups are under way.
Receive(c) ==
  /\ phase[c] = "idle"
  /\ phase' = [phase EXCEPT ![c] = "received"]
  /\ UNCHANGED <<reply, storage, memory, database, bounds>>

\* Not a member (403, FORBIDDEN) or an archived channel (423).  Seeding has
\* no such check.
Refuse(c) ==
  /\ phase[c] = "received"
  /\ c \notin Seeds
  /\ phase' = [phase EXCEPT ![c] = "refused"]
  /\ UNCHANGED <<reply, storage, memory, database, bounds>>

\* Faulty variant of IsDuplicate: only rows still in the buffer are compared.
IsBuffered(c) ==
  c \notin Seeds /\ \E s \in DOMAIN pending : pending[s].msg = Key(c)

\* Has this send been stored by an earlier call?
IsDuplicate(c) == c \notin Seeds /\ Key(c) \in DOMAIN idem

\* The early return: answered with the old seq; no flush is scheduled.
Duplicate(c) ==
  /\ phase[c] = "received"
  /\ IsDuplicate(c)
  /\ phase' = [phase EXCEPT ![c] = "stored"]
  /\ reply' = [reply EXCEPT ![c] = idem[Key(c)]]
  /\ UNCHANGED <<storage, memory, database, bounds>>

\* The rows call c adds to pending_writes.
Stored(c) ==
  [s \in DOMAIN pending \cup (nextSeq + 1 .. nextSeq + Width(c)) |->
     IF s > nextSeq
       THEN [msg |-> Rows[c][s - nextSeq], attempts |-> 0]
       ELSE pending[s]]

\* The keys after call c; a seed leaves no key behind.
Remembered(c) ==
  IF c \in Seeds THEN idem
  ELSE [k \in DOMAIN idem \cup {Key(c)} |->
          IF k = Key(c) THEN nextSeq + 1 ELSE idem[k]]

\* Allocate seqs and write the counter, the rows and the key.
Store(c) ==
  /\ phase[c] = "received"
  /\ ~ IsDuplicate(c)
  /\ meta' = nextSeq + Width(c)
  /\ pending' = Stored(c)
  /\ idem' = Remembered(c)

\* scheduleFlush: with the delays left out, an alarm is set afterwards.
Accept(c) ==
  /\ Store(c)
  /\ alarm' = TRUE
  /\ nextSeq' = nextSeq + Width(c)
  /\ phase' = [phase EXCEPT ![c] = "stored"]
  /\ reply' = [reply EXCEPT ![c] = nextSeq + 1]
  /\ UNCHANGED <<flushing, database, bounds>>

\* The answer (or the ack frame) leaves once the writes are durable.
Answer(c) ==
  /\ phase[c] = "stored"
  /\ phase' = [phase EXCEPT ![c] = "answered"]
  /\ UNCHANGED <<reply, storage, memory, database, bounds>>
-----------------------------------------------------------------------------
\* alarm() up to its await: read a batch, drop the poison rows, send the
\* rest to D1.  Nothing left to send: return, without another alarm.
AlarmFires ==
  /\ alarm
  /\ flushing = {}
  /\ LET good == {s \in Batch : pending[s].msg # Poison}
     IN /\ pending' = Without(pending, Batch \ good)
        /\ flushing' = good
        /\ wire' = IF good = {} THEN wire
                   ELSE wire \cup {[s \in good |-> pending[s].msg]}
  /\ alarm' = FALSE
  /\ UNCHANGED <<callers, meta, idem, nextSeq, messages, bounds>>

\* Faulty variant of Inserted: ON CONFLICT DO UPDATE.
Upserted(rows) ==
  [s \in DOMAIN messages \cup DOMAIN rows |->
     IF s \in DOMAIN rows THEN [msg |-> rows[s], edited |-> FALSE]
     ELSE messages[s]]

\* INSERT ... ON CONFLICT DO NOTHING: what D1 already has stays as it is.
Inserted(rows) ==
  [s \in DOMAIN messages \cup DOMAIN rows |->
     IF s \in DOMAIN messages THEN messages[s]
     ELSE [msg |-> rows[s], edited |-> FALSE]]

\* D1 executes an insert, perhaps long after its sender gave up on it.
D1Insert(rows) ==
  /\ rows \in wire
  /\ wire' = wire \ {rows}
  /\ messages' = Inserted(rows)
  /\ UNCHANGED <<callers, storage, memory, bounds>>

\* Faulty variant of AlarmAfterFlush: the handler forgets what is left over.
AlarmUntouched == alarm

\* scheduleAlarm after a flush, while live rows remain.
AlarmAfterFlush == alarm \/ Live \ flushing # {}

\* alarm() after the insert succeeded.
FlushOk ==
  /\ flushing # {}
  /\ flushing \subseteq DOMAIN messages
  /\ pending' = Without(pending, flushing)
  /\ flushing' = {}
  /\ alarm' = AlarmAfterFlush
  /\ UNCHANGED <<callers, meta, idem, nextSeq, database, bounds>>

\* Faulty variant of AttemptFailed: one failure makes a dead letter.
GivenUp ==
  [s \in DOMAIN pending |->
     IF s \in flushing
       THEN [pending[s] EXCEPT !.attempts = MaxFlushAttempts]
       ELSE pending[s]]

\* One more failed attempt for every row of the batch.
AttemptFailed ==
  [s \in DOMAIN pending |->
     IF s \in flushing THEN [pending[s] EXCEPT !.attempts = @ + 1]
     ELSE pending[s]]

\* alarm() after the insert threw; D1 may have executed it all the same.
FlushFail ==
  /\ flushing # {}
  /\ faults < MaxFaults
  /\ pending' = AttemptFailed
  /\ flushing' = {}
  /\ alarm' = TRUE
  /\ faults' = faults + 1
  /\ UNCHANGED <<callers, meta, idem, nextSeq, database, crashes>>

\* PATCH or DELETE /messages/:id rewrites a row that has reached D1.
Rewrite(s) ==
  /\ s \in DOMAIN messages
  /\ Cardinality({t \in DOMAIN messages : messages[t].edited}) < MaxEdits
  /\ messages' = [messages EXCEPT ![s].edited = TRUE]
  /\ UNCHANGED <<callers, storage, memory, wire, bounds>>
-----------------------------------------------------------------------------
\* The object is evicted or crashes and is constructed again: the counter
\* comes back from storage, the calls in progress end without an answer,
\* and the runtime runs an interrupted alarm() again.  The constructor
\* itself sets no alarm.
Restart(durableSeq) ==
  /\ crashes < MaxCrashes
  /\ nextSeq' = durableSeq
  /\ flushing' = {}
  /\ phase' = [c \in Call |->
                 IF phase[c] \in {"received", "stored"} THEN "lost"
                 ELSE phase[c]]
  /\ alarm' = (alarm \/ flushing # {})
  /\ crashes' = crashes + 1

Crash ==
  /\ Restart(meta)
  /\ UNCHANGED <<reply, meta, idem, pending, database, faults>>

\* Without write coalescing across the await of scheduleFlush, a crash can
\* leave the rows of a call durable and their alarm unset.
StoreThenCrash(c) ==
  /\ ~ CoalescedWrites
  /\ Store(c)
  /\ Restart(nextSeq + Width(c))
  /\ UNCHANGED <<reply, database, faults>>
-----------------------------------------------------------------------------
Next ==
  \/ \E c \in Call :
        \/ Receive(c) \/ Refuse(c) \/ Duplicate(c)
        \/ Accept(c) \/ Answer(c) \/ StoreThenCrash(c)
  \/ AlarmFires
  \/ \E rows \in wire : D1Insert(rows)
  \/ FlushOk
  \/ FlushFail
  \/ \E s \in DOMAIN messages : Rewrite(s)
  \/ Crash

Spec == Init /\ [][Next]_vars

\* D1 executes the insert that alarm() waits for.
D1Answers ==
  /\ flushing # {}
  /\ D1Insert([s \in flushing |-> pending[s].msg])

\* The runtime fires a set alarm and runs it again after a crash; an await
\* ends.  Nothing is assumed of the callers.
Fairness ==
  /\ WF_vars(AlarmFires)
  /\ WF_vars(D1Answers)
  /\ WF_vars(FlushOk)

FairSpec == Spec /\ Fairness
-----------------------------------------------------------------------------
(***************************************************************************)
(* Properties.                                                             *)
(***************************************************************************)

\* Types of the state: who is waiting for what, what storage holds under
\* which seq, and that no row is tried more than MAX_FLUSH_ATTEMPTS times.
TypeOK ==
  /\ phase \in [Call -> Phase]
  /\ reply \in [Call -> Nat]
  /\ meta \in Nat
  /\ nextSeq \in Nat
  /\ DOMAIN idem \subseteq Keyed
  /\ idem \in [DOMAIN idem -> 1..meta]
  /\ DOMAIN pending \subseteq 1..meta
  /\ pending \in [DOMAIN pending ->
                    [msg : Keyed \cup Welcome \cup {Poison},
                     attempts : 0..MaxFlushAttempts]]
  /\ alarm \in BOOLEAN
  /\ flushing \subseteq DOMAIN pending
  /\ \A rows \in wire :
        /\ DOMAIN rows \subseteq 1..meta
        /\ rows \in [DOMAIN rows -> Keyed \cup Welcome]
  /\ DOMAIN messages \subseteq 1..meta
  /\ messages \in [DOMAIN messages ->
                     [msg : Keyed \cup Welcome, edited : BOOLEAN]]
  /\ crashes \in 0..MaxCrashes
  /\ faults \in 0..MaxFaults

\* The row that stands at seq s, in the buffer or in D1.
RowAt(s) ==
  IF s \in DOMAIN pending THEN pending[s].msg
  ELSE IF s \in DOMAIN messages THEN messages[s].msg
  ELSE Poison

\* All rows of the channel so far.
log == [s \in 1..meta |-> RowAt(s)]

AnsweredPairs ==
  {<<Key(c), reply[c]>> : c \in {d \in Call : phase[d] = "answered"}}

Log == INSTANCE ChannelLog WITH
         last <- meta,
         row <- log,
         answered <- AnsweredPairs

\* The object implements the log it promises: through retries, crashes, late
\* inserts and failed flushes no accepted row is lost or changed, a retried
\* send is stored once, seqs have no holes and are never reused, and every
\* answer names the seq under which the sender's message really stands.
ImplementsLog == Log!Spec

\* D1 fills up in seq order: a message is in D1 only if every earlier one
\* is too or has become a dead letter, so a client that pages backwards
\* through history (handleHistory reads D1 only) finds no message turning
\* up behind its back.
DrainedInOrder ==
  \A s \in DOMAIN messages : \A t \in 1..s :
    t \in DOMAIN messages \cup Dead \/ RowAt(t) = Poison

\* A flush replayed after a crash or a lost answer, or an insert that D1
\* executes late, never undoes an edit or a deletion made in the meantime.
EditsSurviveReplay ==
  [][\A s \in DOMAIN messages :
       /\ s \in DOMAIN messages'
       /\ messages'[s].msg = messages[s].msg
       /\ messages[s].edited => messages'[s].edited]_messages

\* While a message waits to be tried, an alarm is set or alarm() is running:
\* the buffer is never left with nobody to drain it.  Needs the rows and
\* their alarm to be committed together and fewer legacy rows than a batch.
AlarmCoversPending ==
  (\E s \in Live : pending[s].msg # Poison) => alarm \/ flushing # {}

\* A message that was answered reaches D1, if D1 fails fewer times than
\* MAX_FLUSH_ATTEMPTS, whatever crashes happen on the way.
AnsweredReachesD1 ==
  \A c \in Call :
    phase[c] = "answered" ~>
      reply[c] .. (reply[c] + Width(c) - 1) \subseteq DOMAIN messages
=============================================================================
