------------------------- MODULE ChannelView_proofs -------------------------
(***************************************************************************)
(* Machine-checked proofs about module ChannelView: the read marker, and   *)
(* what the tabs show, for any number of tabs, messages, changes and       *)
(* requests.                                                               *)
(***************************************************************************)
EXTENDS ChannelView, FiniteSetTheorems, TLAPS

USE ViewAssumption

Says      == {"sent", "edited", "deleted"}
Message   == [seq : Nat, says : Says]
Event     == [seq : Nat, says : Says, new : BOOLEAN]
Request   == [seq : Nat, pc : {"update", "back"}]
Rewriting == [seq : Nat, to : Says, pc : {"update", "tell"}]
Broadcast == [seq : Nat, says : Says, new : BOOLEAN, todo : SUBSET Tab]

\* What the marker is computed from: the numbers in the room ...
RoomTypes ==
  /\ sent \in Nat /\ sent <= MaxSeq /\ flushed \in Nat /\ flushed <= sent
  /\ content \in [1..MaxSeq -> Says]
  /\ changes \subseteq Rewriting
  /\ casts \subseteq Broadcast

\* ... those that reach a tab ...
TabTypes ==
  /\ wire \in [Tab -> Seq(Event)]
  /\ view \in [Tab -> Seq(Message)] /\ answer \in [Tab -> Seq(Message)]

\* ... and those of the requests and notifications.
ReadTypes ==
  /\ marker \in Nat /\ reads \subseteq Request /\ notes \subseteq Nat
  /\ lastRead \in [Tab -> Nat] /\ unsaid \in Nat

\* Neither the marker nor a request that was clamped passes what D1 has.
ClampInv ==
  /\ marker <= flushed
  /\ \A r \in reads : r.seq <= flushed

\* A marker that a tab does not know of is about to be read back, on its way,
\* or was lost.
ToldInv ==
  \A t \in Tab :
    \/ marker <= Larger(lastRead[t], unsaid)
    \/ \E n \in notes : marker <= n
    \/ \E r \in reads : r.pc = "back"

MarkerInv == RoomTypes /\ TabTypes /\ ReadTypes /\ ClampInv /\ ToldInv

-----------------------------------------------------------------------------
LEMMA LargerNat ==
  ASSUME NEW x \in Nat, NEW y \in Nat
  PROVE  Larger(x, y) \in Nat /\ x <= Larger(x, y) /\ y <= Larger(x, y)
BY DEF Larger

\* To put a message right keeps the messages of a tab a sequence of messages.
LEMMA MergedType ==
  ASSUME TabTypes, NEW t \in Tab, NEW e \in Event
  PROVE  Merged(t, e) \in Seq(Message)
<1>1. view[t] \in Seq(Message)
  BY DEF TabTypes
<1>2. DOMAIN view[t] = 1..Len(view[t]) /\ Len(view[t]) \in Nat
  BY <1>1
<1>3. \A i \in 1..Len(view[t]) : view[t][i] \in Message
  BY <1>1
<1>4. [seq |-> e.seq, says |-> e.says] \in Message
  BY DEF Event, Message
<1>5. Merged(t, e) \in [1..Len(view[t]) -> Message]
  BY <1>2, <1>3, <1>4 DEF Merged
<1> QED BY <1>2, <1>5

LEMMA WithNewType ==
  ASSUME TabTypes, NEW t \in Tab, NEW e \in Event
  PROVE  WithNew(t, e) \in Seq(Message)
<1>1. [seq |-> e.seq, says |-> e.says] \in Message
  BY DEF Event, Message
<1>2. view[t] \in Seq(Message)
  BY DEF TabTypes
<1> QED BY <1>1, <1>2, MergedType DEF WithNew

\* Broadcasts stay broadcasts when sockets are taken out of them.
LEMMA CastType ==
  ASSUME RoomTypes, NEW s \in Nat, NEW says \in Says, NEW new \in BOOLEAN,
         Cast(s, says, new)
  PROVE  casts' \subseteq Broadcast
BY DEF Cast, Over, RoomTypes, Broadcast

LEMMA CutType ==
  ASSUME RoomTypes, TabTypes, NEW t \in Tab, Cut(t)
  PROVE  casts' \subseteq Broadcast /\ wire' \in [Tab -> Seq(Event)]
<1>1. \A k \in casts : [k EXCEPT !.todo = @ \ {t}] \in Broadcast
  BY DEF RoomTypes, Broadcast
<1>2. casts' \subseteq Broadcast
  BY <1>1 DEF Cut, Over
<1>3. <<>> \in Seq(Event)
  OBVIOUS
<1> QED BY <1>2, <1>3 DEF Cut, TabTypes

\* What D1 answers is a sequence of messages.
LEMMA HistoryType ==
  ASSUME RoomTypes
  PROVE  [s \in 1..flushed |-> [seq |-> s, says |-> content[s]]] \in Seq(Message)
BY DEF RoomTypes, Message

-----------------------------------------------------------------------------
LEMMA InitMarkerInv == Init => MarkerInv
<1> SUFFICES ASSUME Init PROVE MarkerInv
  OBVIOUS
<1>1. RoomTypes
  BY DEF Init, RoomTypes, Says
<1>2. TabTypes
  <2>1. <<>> \in Seq(Event) /\ <<>> \in Seq(Message)
    OBVIOUS
  <2> QED BY <2>1 DEF Init, TabTypes
<1>3. ReadTypes /\ ClampInv
  BY DEF Init, ReadTypes, ClampInv
<1>4. ToldInv
  BY DEF Init, ToldInv, Larger
<1> QED BY <1>1, <1>2, <1>3, <1>4 DEF MarkerInv

LEMMA RoomStep ==
  ASSUME RoomTypes, TabTypes, [Next]_vars
  PROVE  RoomTypes' /\ flushed <= flushed'
<1> USE DEF roomVars, tabVars, readVars, viewVars
<1>1. CASE Send
  <2>1. sent' \in Nat /\ sent' <= MaxSeq
    BY <1>1 DEF Send, RoomTypes
  <2>2. casts' \subseteq Broadcast
    <3> DEFINE b == [seq |-> sent', says |-> "sent", new |-> TRUE,
                     todo |-> {t \in Tab : link[t]}]
    <3>1. b \in Broadcast
      BY <2>1 DEF Broadcast, Says
    <3>2. casts' = casts \cup Over({b})
      BY <1>1 DEF Send, Cast
    <3> HIDE DEF b
    <3> QED BY <3>1, <3>2 DEF Over, RoomTypes
  <2> QED BY <1>1, <2>1, <2>2 DEF Send, RoomTypes
<1>2. ASSUME NEW n \in 1..MaxSeq, Flush(n) PROVE RoomTypes' /\ flushed <= flushed'
  BY <1>2 DEF Flush, RoomTypes
<1>3. ASSUME NEW s \in 1..MaxSeq, NEW to \in {"edited", "deleted"}, Change(s, to)
      PROVE  RoomTypes' /\ flushed <= flushed'
  <2>1. [seq |-> s, to |-> to, pc |-> "update"] \in Rewriting
    BY DEF Rewriting, Says
  <2>2. changes' \subseteq Rewriting
    BY <1>3, <2>1 DEF Change, RoomTypes
  <2> QED BY <1>3, <2>2 DEF Change, RoomTypes
<1>4. ASSUME NEW c \in changes, ChangeUpdate(c)
      PROVE  RoomTypes' /\ flushed <= flushed'
  <2>1. c \in Rewriting
    BY DEF RoomTypes
  <2>2. c.to \in Says /\ [c EXCEPT !.pc = "tell"] \in Rewriting
    BY <2>1 DEF Rewriting
  <2>3. changes' \subseteq Rewriting
    BY <1>4, <2>2 DEF ChangeUpdate, RoomTypes
  <2>4. content' \in [1..MaxSeq -> Says]
    BY <1>4, <2>2 DEF ChangeUpdate, RoomTypes
  <2> QED BY <1>4, <2>3, <2>4 DEF ChangeUpdate, RoomTypes
<1>5. ASSUME NEW c \in changes, ChangeTell(c)
      PROVE  RoomTypes' /\ flushed <= flushed'
  <2>1. c.seq \in Nat /\ c.to \in Says
    BY DEF RoomTypes, Rewriting
  <2>2. casts' \subseteq Broadcast
    BY <1>5, <2>1, CastType DEF ChangeTell
  <2> QED BY <1>5, <2>2 DEF ChangeTell, RoomTypes
<1>5a. ASSUME NEW c \in changes, ChangeUntold(c)
       PROVE  RoomTypes' /\ flushed <= flushed'
  BY <1>5a DEF ChangeUntold, RoomTypes
<1>6. ASSUME NEW k \in casts, NEW t \in Tab, Deliver(k, t)
      PROVE  RoomTypes' /\ flushed <= flushed'
  <2>1. [k EXCEPT !.todo = @ \ {t}] \in Broadcast
    BY DEF RoomTypes, Broadcast
  <2>2. casts' \subseteq Broadcast
    BY <1>6, <2>1 DEF Deliver, Over, RoomTypes
  <2>3. UNCHANGED roomVars
    BY <1>6 DEF Deliver
  <2> QED BY <2>2, <2>3 DEF RoomTypes
<1>7. ASSUME NEW t \in Tab, Drop(t) \/ Revisit(t)
      PROVE  RoomTypes' /\ flushed <= flushed'
  <2>1. casts' \subseteq Broadcast
    BY <1>7, CutType DEF Drop, Revisit
  <2> QED BY <1>7, <2>1 DEF Drop, Revisit, RoomTypes
<1>8. CASE UNCHANGED <<roomVars, casts>>
  BY <1>8 DEF RoomTypes
<1>9. ASSUME NEW t \in Tab,
             Open(t) \/ Fetch(t) \/ Loaded(t) \/ LoadFails(t) \/ Hear(t) \/ Show(t)
      PROVE  UNCHANGED <<roomVars, casts>>
  BY <1>9 DEF Open, Fetch, Loaded, LoadFails, Hear, Show
<1>10. ASSUME NEW n, ReadClamp(n) \/ Note(n) \/ NoteFails(n)
       PROVE  UNCHANGED <<roomVars, casts>>
  BY <1>10 DEF ReadClamp, Note, NoteFails
<1>11. ASSUME NEW r \in reads, ReadUpdate(r) \/ ReadBack(r) \/ ReadDies(r)
       PROVE  UNCHANGED <<roomVars, casts>>
  BY <1>11 DEF ReadUpdate, ReadBack, ReadDies
<1>12. CASE UNCHANGED vars
  BY <1>8, <1>12 DEF vars
<1> QED
  BY <1>1, <1>2, <1>3, <1>4, <1>5, <1>5a, <1>6, <1>7, <1>8, <1>9, <1>10, <1>11, <1>12
  DEF Next

\* An event that a tab hears is one.
LEMMA HeardType ==
  ASSUME TabTypes, NEW t \in Tab, wire[t] # <<>>
  PROVE  Head(wire[t]) \in Event /\ Tail(wire[t]) \in Seq(Event)
BY DEF TabTypes

LEMMA TabStep ==
  ASSUME RoomTypes, TabTypes, [Next]_vars
  PROVE  TabTypes'
<1> USE DEF roomVars, tabVars, readVars, viewVars
<1>1. ASSUME NEW k \in casts, NEW t \in Tab, Deliver(k, t) PROVE TabTypes'
  <2>1. [seq |-> k.seq, says |-> k.says, new |-> k.new] \in Event
    BY DEF RoomTypes, Broadcast, Event
  <2>2. wire' \in [Tab -> Seq(Event)]
    BY <1>1, <2>1 DEF Deliver, TabTypes
  <2> QED BY <1>1, <2>2 DEF Deliver, TabTypes
<1>2. ASSUME NEW t \in Tab, Drop(t) PROVE TabTypes'
  BY <1>2, CutType DEF Drop, TabTypes
<1>3. ASSUME NEW t \in Tab, Revisit(t) PROVE TabTypes'
  <2>1. wire' \in [Tab -> Seq(Event)]
    BY <1>3, CutType DEF Revisit
  <2>2. <<>> \in Seq(Message)
    OBVIOUS
  <2> QED BY <1>3, <2>1, <2>2 DEF Revisit, TabTypes
<1>4. ASSUME NEW t \in Tab, Fetch(t) PROVE TabTypes'
  BY <1>4, HistoryType DEF Fetch, TabTypes
<1>5. ASSUME NEW t \in Tab, Loaded(t) PROVE TabTypes'
  BY <1>5 DEF Loaded, TabTypes
<1>6. ASSUME NEW t \in Tab, LoadFails(t) PROVE TabTypes'
  BY <1>6 DEF LoadFails, TabTypes
<1>7. ASSUME NEW t \in Tab, Hear(t) PROVE TabTypes'
  <2> DEFINE e == Head(wire[t])
  <2>1. e \in Event /\ Tail(wire[t]) \in Seq(Event)
    BY <1>7, HeardType DEF Hear
  <2>2. WithNew(t, e) \in Seq(Message) /\ Merged(t, e) \in Seq(Message)
    BY <2>1, WithNewType, MergedType
  <2>3. wire' \in [Tab -> Seq(Event)]
    BY <1>7, <2>1 DEF Hear, TabTypes
  <2>4. \/ view' = [view EXCEPT ![t] = WithNew(t, e)]
        \/ view' = [view EXCEPT ![t] = Merged(t, e)]
    BY <1>7 DEF Hear
  <2>5. view' \in [Tab -> Seq(Message)]
    BY <2>2, <2>4 DEF TabTypes
  <2> QED BY <1>7, <2>3, <2>5 DEF Hear, TabTypes
<1>8. CASE UNCHANGED <<wire, view, answer>>
  BY <1>8 DEF TabTypes
<1>9. ASSUME NEW t \in Tab, Open(t) \/ Show(t)
      PROVE  UNCHANGED <<wire, view, answer>>
  BY <1>9 DEF Open, Show
<1>10. ASSUME NEW n, \/ Send \/ Flush(n) \/ ReadClamp(n) \/ Note(n) \/ NoteFails(n)
                     \/ ChangeUpdate(n) \/ ChangeTell(n) \/ ChangeUntold(n)
                     \/ ReadUpdate(n) \/ ReadBack(n) \/ ReadDies(n)
       PROVE  UNCHANGED <<wire, view, answer>>
  BY <1>10 DEF Send, Flush, ReadClamp, Note, NoteFails, ChangeUpdate, ChangeTell,
               ChangeUntold, ReadUpdate, ReadBack, ReadDies
<1>11. ASSUME NEW s, NEW to, Change(s, to) PROVE UNCHANGED <<wire, view, answer>>
  BY <1>11 DEF Change
<1>12. CASE UNCHANGED vars
  BY <1>8, <1>12 DEF vars
<1> QED
  BY <1>1, <1>2, <1>3, <1>4, <1>5, <1>6, <1>7, <1>8, <1>9, <1>10, <1>11, <1>12
  DEF Next

\* Only what the person does with the marker in view changes anything of it.
Reading ==
  \/ \E n \in 1..MaxSeq : ReadClamp(n)
  \/ \E r \in reads : ReadUpdate(r) \/ ReadBack(r) \/ ReadDies(r)
  \/ \E n \in notes : Note(n) \/ NoteFails(n)
  \/ \E t \in Tab, seq \in Nat : MarkRead(t, seq)

\* A step marks the numbers of messages, or leaves the marker alone.
LEMMA StepsOfReading ==
  ASSUME TabTypes, [Next]_vars
  PROVE  Reading \/ UNCHANGED readVars
<1>1. ASSUME NEW t \in Tab, Loaded(t) PROVE Reading
  <2>1. Len(answer[t]) \in Nat
    BY DEF TabTypes
  <2> QED BY <1>1, <2>1 DEF Loaded, Reading
<1>2. ASSUME NEW t \in Tab, Hear(t) PROVE Reading \/ UNCHANGED readVars
  <2>1. Head(wire[t]).seq \in Nat
    BY <1>2, HeardType DEF Hear, Event
  <2> QED BY <1>2, <2>1 DEF Hear, Reading
<1>3. ASSUME NEW t \in Tab, Show(t) PROVE Reading
  <2>1. view[t] \in Seq(Message) /\ view[t] # <<>>
    BY <1>3 DEF Show, TabTypes
  <2>2. view[t][Len(view[t])] \in Message
    BY <2>1
  <2>3. view[t][Len(view[t])].seq \in Nat
    BY <2>2 DEF Message
  <2> QED BY <1>3, <2>3 DEF Show, Reading
<1>4. ASSUME NEW t \in Tab,
             Open(t) \/ Drop(t) \/ Revisit(t) \/ Fetch(t) \/ LoadFails(t)
      PROVE  UNCHANGED readVars
  BY <1>4 DEF Open, Drop, Revisit, Fetch, LoadFails
<1>5. ASSUME NEW x, NEW y, \/ Send \/ Flush(x) \/ Change(x, y)
                           \/ ChangeUpdate(x) \/ ChangeTell(x) \/ ChangeUntold(x)
                           \/ Deliver(x, y)
      PROVE  UNCHANGED readVars
  BY <1>5 DEF Send, Flush, Change, ChangeUpdate, ChangeTell, ChangeUntold, Deliver
<1>6. CASE UNCHANGED vars
  BY <1>6 DEF vars, readVars
<1> QED BY <1>1, <1>2, <1>3, <1>4, <1>5, <1>6 DEF Next, Reading

\* The marker grows and stays within what D1 has, and no tab is forgotten.
LEMMA ReadingStep ==
  ASSUME MarkerInv, Reading \/ UNCHANGED readVars,
         flushed' \in Nat, flushed <= flushed'
  PROVE  ReadTypes' /\ ClampInv' /\ ToldInv' /\ marker <= marker'
<1> USE DEF readVars
<1>0. /\ marker \in Nat /\ unsaid \in Nat /\ flushed \in Nat
      /\ \A t \in Tab : lastRead[t] \in Nat
  BY DEF MarkerInv, RoomTypes, ReadTypes
<1>1. ASSUME NEW n \in 1..MaxSeq, ReadClamp(n)
      PROVE  ReadTypes' /\ ClampInv' /\ ToldInv' /\ marker <= marker'
  <2>1. Smaller(n, flushed) \in Nat /\ Smaller(n, flushed) <= flushed
    BY <1>0 DEF Smaller
  <2>2. reads' = reads \cup {[seq |-> Smaller(n, flushed), pc |-> "update"]}
    BY <1>1 DEF ReadClamp
  <2>3. UNCHANGED <<marker, notes, lastRead, unsaid>>
    BY <1>1 DEF ReadClamp
  <2>4. ReadTypes'
    BY <2>1, <2>2, <2>3 DEF MarkerInv, ReadTypes, Request
  <2>5. ClampInv'
    BY <1>0, <2>1, <2>2, <2>3 DEF MarkerInv, ReadTypes, Request, ClampInv
  <2>6. ToldInv'
    BY <2>2, <2>3 DEF MarkerInv, ToldInv
  <2> QED BY <1>0, <2>3, <2>4, <2>5, <2>6
<1>2. ASSUME NEW r \in reads, ReadUpdate(r)
      PROVE  ReadTypes' /\ ClampInv' /\ ToldInv' /\ marker <= marker'
  <2>1. r.seq \in Nat /\ r.seq <= flushed /\ [r EXCEPT !.pc = "back"] \in Request
    BY DEF MarkerInv, ReadTypes, ClampInv, Request
  <2>2. /\ marker' = Larger(marker, r.seq)
        /\ reads' = (reads \ {r}) \cup {[r EXCEPT !.pc = "back"]}
        /\ UNCHANGED <<notes, lastRead, unsaid>>
    BY <1>2 DEF ReadUpdate, Marked
  <2>3. marker' \in Nat /\ marker <= marker' /\ marker' <= flushed
    BY <1>0, <2>1, <2>2 DEF Larger, MarkerInv, ClampInv
  <2>4. [r EXCEPT !.pc = "back"].seq = r.seq /\ [r EXCEPT !.pc = "back"].pc = "back"
    BY DEF MarkerInv, ReadTypes, Request
  <2>5. ReadTypes'
    BY <2>1, <2>2, <2>3 DEF MarkerInv, ReadTypes
  <2>6. ClampInv'
    BY <1>0, <2>1, <2>2, <2>3, <2>4 DEF MarkerInv, ReadTypes, Request, ClampInv
  <2>7. ToldInv'
    BY <2>2, <2>4 DEF ToldInv
  <2> QED BY <2>3, <2>5, <2>6, <2>7
<1>3. ASSUME NEW r \in reads, ReadBack(r)
      PROVE  ReadTypes' /\ ClampInv' /\ ToldInv' /\ marker <= marker'
  <2>1. ReadTypes' /\ ClampInv' /\ marker <= marker'
    BY <1>0, <1>3 DEF ReadBack, MarkerInv, ReadTypes, ClampInv, Request
  <2>2. marker' \in notes' /\ marker' <= marker'
    BY <1>0, <1>3 DEF ReadBack
  <2>3. ToldInv'
    BY <2>2 DEF ToldInv
  <2> QED BY <2>1, <2>3
<1>4. ASSUME NEW r \in reads, ReadDies(r)
      PROVE  ReadTypes' /\ ClampInv' /\ ToldInv' /\ marker <= marker'
  <2>1. /\ reads' = reads \ {r} /\ UNCHANGED <<marker, notes, lastRead>>
        /\ unsaid' = IF r.pc = "back" THEN Larger(unsaid, marker) ELSE unsaid
    BY <1>4 DEF ReadDies
  <2>2. unsaid' \in Nat /\ unsaid <= unsaid'
    BY <1>0, <2>1, LargerNat
  <2>3. ReadTypes' /\ ClampInv' /\ marker <= marker'
    BY <1>0, <2>1, <2>2 DEF MarkerInv, ReadTypes, ClampInv, Request
  <2>4. CASE r.pc = "back"
    <3>1. marker' <= unsaid'
      BY <1>0, <2>1, <2>4, LargerNat
    <3>2. ToldInv'
      BY <1>0, <2>1, <2>2, <3>1 DEF ToldInv, Larger
    <3> QED BY <2>3, <3>2
  <2>5. CASE r.pc # "back"
    <3>1. ToldInv'
      BY <2>1, <2>5 DEF MarkerInv, ToldInv
    <3> QED BY <2>3, <3>1
  <2> QED BY <2>3, <2>4, <2>5
<1>5. ASSUME NEW n \in notes, Note(n)
      PROVE  ReadTypes' /\ ClampInv' /\ ToldInv' /\ marker <= marker'
  <2>1. n \in Nat
    BY DEF MarkerInv, ReadTypes
  <2>2. /\ notes' = notes \ {n} /\ UNCHANGED <<marker, reads, unsaid>>
        /\ lastRead' = [t \in Tab |-> Larger(lastRead[t], n)]
    BY <1>5 DEF Note
  <2>3. \A t \in Tab : /\ lastRead'[t] \in Nat /\ lastRead[t] <= lastRead'[t]
                       /\ n <= lastRead'[t]
    BY <1>0, <2>1, <2>2, LargerNat
  <2>4. ReadTypes' /\ ClampInv' /\ marker <= marker'
    BY <1>0, <2>2, <2>3 DEF MarkerInv, ReadTypes, ClampInv, Request
  <2>5. ASSUME NEW t \in Tab
        PROVE  \/ marker' <= Larger(lastRead'[t], unsaid')
               \/ \E m \in notes' : marker' <= m
               \/ \E r \in reads' : r.pc = "back"
    <3>1. CASE marker <= n
      BY <1>0, <2>1, <2>2, <2>3, <3>1 DEF Larger
    <3>2. CASE ~(marker <= n)
      <4>1. CASE marker <= Larger(lastRead[t], unsaid)
        BY <1>0, <2>2, <2>3, <4>1 DEF Larger
      <4>2. CASE \E m \in notes : marker <= m
        BY <2>2, <3>2, <4>2
      <4>3. CASE \E r \in reads : r.pc = "back"
        BY <2>2, <4>3
      <4> QED BY <4>1, <4>2, <4>3 DEF MarkerInv, ToldInv
    <3> QED BY <3>1, <3>2
  <2> QED BY <2>4, <2>5 DEF ToldInv
<1>6. ASSUME NEW n \in notes, NoteFails(n)
      PROVE  ReadTypes' /\ ClampInv' /\ ToldInv' /\ marker <= marker'
  <2>1. n \in Nat
    BY DEF MarkerInv, ReadTypes
  <2>2. /\ notes' = notes \ {n} /\ UNCHANGED <<marker, reads, lastRead>>
        /\ unsaid' = Larger(unsaid, n)
    BY <1>6 DEF NoteFails
  <2>3. unsaid' \in Nat /\ unsaid <= unsaid' /\ n <= unsaid'
    BY <1>0, <2>1, <2>2, LargerNat
  <2>4. ReadTypes' /\ ClampInv' /\ marker <= marker'
    BY <1>0, <2>2, <2>3 DEF MarkerInv, ReadTypes, ClampInv, Request
  <2>5. ASSUME NEW t \in Tab
        PROVE  \/ marker' <= Larger(lastRead'[t], unsaid')
               \/ \E m \in notes' : marker' <= m
               \/ \E r \in reads' : r.pc = "back"
    <3>1. CASE marker <= n
      BY <1>0, <2>1, <2>2, <2>3, <3>1 DEF Larger
    <3>2. CASE ~(marker <= n)
      <4>1. CASE marker <= Larger(lastRead[t], unsaid)
        BY <1>0, <2>2, <2>3, <4>1 DEF Larger
      <4>2. CASE \E m \in notes : marker <= m
        BY <2>2, <3>2, <4>2
      <4>3. CASE \E r \in reads : r.pc = "back"
        BY <2>2, <4>3
      <4> QED BY <4>1, <4>2, <4>3 DEF MarkerInv, ToldInv
    <3> QED BY <3>1, <3>2
  <2> QED BY <2>4, <2>5 DEF ToldInv
<1>7. ASSUME NEW u \in Tab, NEW seq \in Nat, MarkRead(u, seq)
      PROVE  ReadTypes' /\ ClampInv' /\ ToldInv' /\ marker <= marker'
  <2>1. /\ lastRead' = [lastRead EXCEPT ![u] = Larger(@, seq)]
        /\ UNCHANGED <<marker, reads, notes, unsaid>>
    BY <1>7 DEF MarkRead
  <2>2. lastRead' \in [Tab -> Nat] /\ \A t \in Tab : lastRead[t] <= lastRead'[t]
    <3>1. lastRead \in [Tab -> Nat]
      BY DEF MarkerInv, ReadTypes
    <3>2. Larger(lastRead[u], seq) \in Nat /\ lastRead[u] <= Larger(lastRead[u], seq)
      BY <1>0, LargerNat
    <3> QED BY <1>0, <2>1, <3>1, <3>2
  <2>3. ReadTypes' /\ ClampInv' /\ marker <= marker'
    BY <1>0, <2>1, <2>2 DEF MarkerInv, ReadTypes, ClampInv, Request
  <2>4. ToldInv'
    BY <1>0, <2>1, <2>2 DEF MarkerInv, ToldInv, Larger
  <2> QED BY <2>3, <2>4
<1>8. CASE UNCHANGED readVars
  BY <1>0, <1>8 DEF MarkerInv, ReadTypes, ClampInv, ToldInv, Request
<1> QED BY <1>1, <1>2, <1>3, <1>4, <1>5, <1>6, <1>7, <1>8 DEF Reading

LEMMA InvStep == MarkerInv /\ [Next]_vars => MarkerInv' /\ [MarkerStep]_vars
<1> SUFFICES ASSUME MarkerInv, [Next]_vars PROVE MarkerInv' /\ MarkerStep
  OBVIOUS
<1>1. RoomTypes' /\ TabTypes' /\ flushed <= flushed'
  BY RoomStep, TabStep DEF MarkerInv
<1>2. Reading \/ UNCHANGED readVars
  BY StepsOfReading DEF MarkerInv
<1>3. ReadTypes' /\ ClampInv' /\ ToldInv' /\ marker <= marker'
  BY <1>1, <1>2, ReadingStep DEF RoomTypes
<1>4. MarkerStep
  BY <1>3 DEF MarkerStep, ClampInv, ToldInv
<1> QED BY <1>1, <1>3, <1>4 DEF MarkerInv

-----------------------------------------------------------------------------
\* Whatever the number of tabs and however their POST .../read requests mix,
\* the marker in D1 never moves back and never passes what D1 has, and a tab
\* that is behind it is told, unless a request or notification was lost
\* (channels.ts, POST .../read).
THEOREM MarkerAdvances == Spec => MarkerOnlyAdvances
<1>1. Init => MarkerInv
  BY InitMarkerInv
<1>2. MarkerInv /\ [Next]_vars => MarkerInv' /\ [MarkerStep]_vars
  BY InvStep
<1> QED BY <1>1, <1>2, PTL DEF Spec, MarkerOnlyAdvances

-----------------------------------------------------------------------------
(* What the tabs show *)

\* Only messages there are have broadcasts, and only those in D1 are changed;
\* one that is yet to be written says what it will.
KnownInv ==
  /\ \A k \in casts : k.seq \in 1..sent
  /\ \A c \in changes : c.seq \in 1..flushed
  /\ \A s \in 1..MaxSeq : s > sent => content[s] = "sent"

GapTypes == gaps \in [Tab -> SUBSET Nat]

\* A history has message s at its place s.
AnswerInv == \A t \in Tab : \A s \in DOMAIN answer[t] : answer[t][s].seq = s

\* No message is shown twice.
OnceInv ==
  \A t \in Tab : \A i, j \in DOMAIN view[t] : view[t][i].seq = view[t][j].seq => i = j

Tells(c, s) == c.seq = s /\ c.pc = "tell"
Brings(k, t, s) == k.seq = s /\ t \in k.todo

\* What there may be of message s, which tab t has missed nothing of: one
\* broadcast, and one change that D1 has and that is not yet told.
OneCast(s) == \A j, k \in casts : j.seq = s /\ k.seq = s => j = k
OneTell(s) ==
  \A c, d \in changes : Tells(c, s) /\ Tells(d, s) => c = d /\ c.to = content[s]

\* Where the tab will have it from as D1 has it: from that change, else from
\* the broadcast, else from the last event on its way, else it shows it.
Quiet(s) == \A c \in changes : ~Tells(c, s)
Idle(t, s) == \A k \in casts : ~Brings(k, t, s)
Waiting(t, s) == \E i \in DOMAIN wire[t] : wire[t][i].seq = s

CastIsRight(t, s) == \A k \in casts : Brings(k, t, s) => k.says = content[s]
LastIsRight(t, s) ==
  \A i \in DOMAIN wire[t] :
    wire[t][i].seq = s /\ (\A j \in DOMAIN wire[t] : wire[t][j].seq = s => j <= i)
      => wire[t][i].says = content[s]
IsShown(t, s) ==
  \E i \in DOMAIN view[t] : view[t][i].seq = s /\ view[t][i].says = content[s]

Right(t, s) ==
  Quiet(s) => /\ CastIsRight(t, s)
              /\ Idle(t, s) => LastIsRight(t, s) /\ (Waiting(t, s) \/ IsShown(t, s))

RightInv ==
  \A t \in Tab, s \in 1..sent :
    s \notin gaps[t] => OneCast(s) /\ OneTell(s) /\ Right(t, s)

ViewTypes == RoomTypes /\ TabTypes /\ GapTypes
ViewInv == ViewTypes /\ KnownInv /\ AnswerInv /\ OnceInv /\ RightInv

LEMMA InitViewInv == Init => ViewInv
<1> SUFFICES ASSUME Init PROVE ViewInv
  OBVIOUS
<1>1. ViewTypes
  BY InitMarkerInv DEF MarkerInv, ViewTypes, GapTypes, Init
<1>2. KnownInv /\ RightInv
  BY DEF Init, KnownInv, RightInv
<1>3. AnswerInv /\ OnceInv
  BY DEF Init, AnswerInv, OnceInv
<1> QED BY <1>1, <1>2, <1>3 DEF ViewInv

-----------------------------------------------------------------------------
LEMMA GapStep ==
  ASSUME ViewTypes, [Next]_vars
  PROVE  GapTypes'
<1> USE DEF roomVars, tabVars, readVars, viewVars
<1>0. /\ gaps \in [Tab -> SUBSET Nat] /\ changes \subseteq Rewriting
      /\ casts \subseteq Broadcast /\ wire \in [Tab -> Seq(Event)] /\ sent \in Nat
      /\ view \in [Tab -> Seq(Message)]
  BY DEF ViewTypes, RoomTypes, TabTypes, GapTypes
<1>1. ASSUME NEW s \in Nat, Unheard(s) PROVE GapTypes'
  BY <1>0, <1>1 DEF Unheard, GapTypes
<1>2. CASE Send
  <2>1. sent + 1 \in Nat
    BY <1>0
  <2> QED BY <1>1, <1>2, <2>1 DEF Send
<1>3. ASSUME NEW c \in changes, ChangeUpdate(c) \/ ChangeTell(c) \/ ChangeUntold(c)
      PROVE  GapTypes'
  <2>1. c.seq \in Nat
    BY <1>0 DEF Rewriting
  <2>2. CASE ChangeTell(c)
    BY <1>1, <2>1, <2>2 DEF ChangeTell
  <2>3. CASE ChangeUpdate(c)
    BY <1>0, <2>1, <2>3 DEF ChangeUpdate, GapTypes
  <2>4. CASE ChangeUntold(c)
    BY <1>0, <2>1, <2>4 DEF ChangeUntold, GapTypes
  <2> QED BY <1>3, <2>2, <2>3, <2>4
<1>4. ASSUME NEW t \in Tab, Drop(t) PROVE GapTypes'
  <2>1. \A i \in DOMAIN wire[t] : wire[t][i] \in Event
    BY <1>0
  <2>2. Lost(t) \subseteq Nat
    BY <1>0, <2>1 DEF Lost, Event, Broadcast
  <2> QED BY <1>0, <1>4, <2>2 DEF Drop, GapTypes
<1>5. ASSUME NEW t \in Tab, Revisit(t) PROVE GapTypes'
  BY <1>0, <1>5 DEF Revisit, GapTypes
<1>6. ASSUME NEW t \in Tab, Loaded(t) PROVE GapTypes'
  <2>1. \A i \in DOMAIN view[t] : view[t][i] \in Message
    BY <1>0
  <2>2. Replaced(t) \subseteq Nat
    BY <2>1 DEF Replaced, Message
  <2> QED BY <1>0, <1>6, <2>2 DEF Loaded, GapTypes
<1>7. ASSUME NEW t \in Tab, Hear(t) PROVE GapTypes'
  <2>1. Head(wire[t]).seq \in Nat
    BY <1>7, HeardType DEF ViewTypes, Hear, Event
  <2> QED BY <1>0, <1>7, <2>1 DEF Hear, GapTypes
<1>8. CASE UNCHANGED gaps
  BY <1>8 DEF ViewTypes, GapTypes
<1>9. ASSUME NEW t \in Tab, Open(t) \/ Fetch(t) \/ LoadFails(t) \/ Show(t)
      PROVE  UNCHANGED gaps
  BY <1>9 DEF Open, Fetch, LoadFails, Show
<1>10. ASSUME NEW x, NEW y,
              \/ Flush(x) \/ ReadClamp(x) \/ Note(x) \/ NoteFails(x) \/ Change(x, y)
              \/ ReadUpdate(x) \/ ReadBack(x) \/ ReadDies(x) \/ Deliver(x, y)
       PROVE  UNCHANGED gaps
  BY <1>10 DEF Flush, ReadClamp, Note, NoteFails, Change, ReadUpdate, ReadBack,
               ReadDies, Deliver
<1>11. CASE UNCHANGED vars
  BY <1>8, <1>11 DEF vars
<1> QED BY <1>2, <1>3, <1>4, <1>5, <1>6, <1>7, <1>8, <1>9, <1>10, <1>11 DEF Next

\* A broadcast that loses a socket goes on to the others.
LEMMA CutIs ==
  ASSUME ViewTypes, NEW u \in Tab, Cut(u)
  PROVE  /\ \A j \in casts' : \E k \in casts :
              /\ j = [k EXCEPT !.todo = @ \ {u}] /\ j.seq = k.seq /\ j.says = k.says
              /\ j.todo = k.todo \ {u}
         /\ \A t \in Tab \ {u}, k \in casts : t \in k.todo =>
              \E j \in casts' : j.seq = k.seq /\ t \in j.todo
         /\ wire' = [wire EXCEPT ![u] = <<>>]
<1>1. ASSUME NEW k \in casts
      PROVE  LET j == [k EXCEPT !.todo = @ \ {u}]
             IN j.seq = k.seq /\ j.says = k.says /\ j.todo = k.todo \ {u}
  BY DEF ViewTypes, RoomTypes, Broadcast
<1>2. /\ casts' = Over({[k EXCEPT !.todo = @ \ {u}] : k \in casts})
      /\ wire' = [wire EXCEPT ![u] = <<>>]
  BY DEF Cut
<1> QED BY <1>1, <1>2 DEF Over

LEMMA KnownStep ==
  ASSUME ViewTypes, KnownInv, [Next]_vars
  PROVE  KnownInv'
<1> USE DEF roomVars, tabVars, readVars, viewVars
<1>0. /\ sent \in Nat /\ flushed \in Nat /\ flushed <= sent /\ sent <= MaxSeq
      /\ content \in [1..MaxSeq -> Says]
  BY DEF ViewTypes, RoomTypes
<1>a. ASSUME NEW s, NEW says, NEW new, Cast(s, says, new)
      PROVE  \A k \in casts' : k \in casts \/ k.seq = s
  BY <1>a DEF Cast, Over
<1>1. CASE Send
  <2>1. \A k \in casts' : k \in casts \/ k.seq = sent'
    BY <1>1, <1>a DEF Send
  <2> QED BY <1>0, <1>1, <2>1 DEF Send, KnownInv
<1>2. ASSUME NEW n \in 1..MaxSeq, Flush(n) PROVE KnownInv'
  BY <1>0, <1>2 DEF Flush, KnownInv
<1>3. ASSUME NEW s \in 1..MaxSeq, NEW to \in {"edited", "deleted"}, Change(s, to)
      PROVE  KnownInv'
  BY <1>0, <1>3 DEF Change, KnownInv
<1>4. ASSUME NEW c \in changes, ChangeUpdate(c) PROVE KnownInv'
  <2>1. [c EXCEPT !.pc = "tell"].seq = c.seq /\ c.seq \in 1..flushed
    BY DEF KnownInv, ViewTypes, RoomTypes, Rewriting
  <2>2. \A s \in 1..MaxSeq : s > sent => content'[s] = content[s]
    BY <1>0, <1>4, <2>1 DEF ChangeUpdate
  <2>3. \A d \in changes' : d.seq \in 1..flushed
    BY <1>4, <2>1 DEF ChangeUpdate, KnownInv
  <2>4. UNCHANGED <<casts, sent, flushed>>
    BY <1>4 DEF ChangeUpdate
  <2> QED BY <2>2, <2>3, <2>4 DEF KnownInv
<1>5. ASSUME NEW c \in changes, ChangeTell(c) PROVE KnownInv'
  <2>1. \A k \in casts' : k \in casts \/ k.seq = c.seq
    BY <1>5, <1>a DEF ChangeTell
  <2>2. c.seq \in 1..sent
    BY <1>0 DEF KnownInv
  <2> QED BY <1>5, <2>1, <2>2 DEF ChangeTell, KnownInv
<1>5a. ASSUME NEW c \in changes, ChangeUntold(c) PROVE KnownInv'
  BY <1>5a DEF ChangeUntold, KnownInv
<1>6. ASSUME NEW k \in casts, NEW t \in Tab, Deliver(k, t) PROVE KnownInv'
  <2>1. [k EXCEPT !.todo = @ \ {t}].seq = k.seq
    BY DEF ViewTypes, RoomTypes, Broadcast
  <2>2. \A j \in casts' : j \in casts \/ j.seq = k.seq
    BY <1>6, <2>1 DEF Deliver, Over
  <2> QED BY <1>6, <2>2 DEF Deliver, KnownInv
<1>7. ASSUME NEW t \in Tab, Drop(t) \/ Revisit(t) PROVE KnownInv'
  <2>1. Cut(t) /\ UNCHANGED roomVars
    BY <1>7 DEF Drop, Revisit
  <2> QED BY <2>1, CutIs DEF KnownInv
<1>8. CASE UNCHANGED <<roomVars, casts>>
  BY <1>8 DEF KnownInv
<1>9. ASSUME NEW t \in Tab,
             Open(t) \/ Fetch(t) \/ Loaded(t) \/ LoadFails(t) \/ Hear(t) \/ Show(t)
      PROVE  UNCHANGED <<roomVars, casts>>
  BY <1>9 DEF Open, Fetch, Loaded, LoadFails, Hear, Show
<1>10. ASSUME NEW n, \/ ReadClamp(n) \/ Note(n) \/ NoteFails(n)
                     \/ ReadUpdate(n) \/ ReadBack(n) \/ ReadDies(n)
       PROVE  UNCHANGED <<roomVars, casts>>
  BY <1>10 DEF ReadClamp, Note, NoteFails, ReadUpdate, ReadBack, ReadDies
<1>11. CASE UNCHANGED vars
  BY <1>8, <1>11 DEF vars
<1> QED
  BY <1>1, <1>2, <1>3, <1>4, <1>5, <1>5a, <1>6, <1>7, <1>8, <1>9, <1>10, <1>11 DEF Next

\* To put a message right changes what one message says and no other.
LEMMA MergedIs ==
  ASSUME ViewTypes, NEW t \in Tab, NEW e
  PROVE  /\ DOMAIN Merged(t, e) = DOMAIN view[t]
         /\ \A i \in DOMAIN view[t] :
              /\ Merged(t, e)[i].seq = view[t][i].seq
              /\ view[t][i].seq = e.seq => Merged(t, e)[i].says = e.says
              /\ view[t][i].seq # e.seq => Merged(t, e)[i] = view[t][i]
BY DEF Merged

\* A new message is shown, once, and all others stay.
LEMMA WithNewIs ==
  ASSUME ViewTypes, NEW t \in Tab, NEW e \in Event
  PROVE  /\ \A i \in DOMAIN view[t] :
              /\ i \in DOMAIN WithNew(t, e)
              /\ WithNew(t, e)[i].seq = view[t][i].seq
              /\ view[t][i].seq # e.seq => WithNew(t, e)[i] = view[t][i]
         /\ \E i \in DOMAIN WithNew(t, e) :
              WithNew(t, e)[i].seq = e.seq /\ WithNew(t, e)[i].says = e.says
         /\ OnceInv => \A i, j \in DOMAIN WithNew(t, e) :
              WithNew(t, e)[i].seq = WithNew(t, e)[j].seq => i = j
<1>1. CASE Shows(t, e.seq)
  <2> DEFINE w == WithNew(t, e)
  <2>1. w = Merged(t, e)
    BY <1>1 DEF WithNew
  <2>2. PICK i \in DOMAIN view[t] : view[t][i].seq = e.seq
    BY <1>1 DEF Shows
  <2> HIDE DEF w
  <2>3. /\ DOMAIN w = DOMAIN view[t]
        /\ \A j \in DOMAIN view[t] :
             /\ w[j].seq = view[t][j].seq
             /\ view[t][j].seq = e.seq => w[j].says = e.says
             /\ view[t][j].seq # e.seq => w[j] = view[t][j]
    BY <2>1, MergedIs
  <2>4. \E j \in DOMAIN w : w[j].seq = e.seq /\ w[j].says = e.says
    BY <2>2, <2>3
  <2>5. OnceInv => \A j, k \in DOMAIN w : w[j].seq = w[k].seq => j = k
    BY <2>3 DEF OnceInv
  <2> QED BY <2>3, <2>4, <2>5 DEF w
<1>2. CASE ~Shows(t, e.seq)
  <2> DEFINE m == [seq |-> e.seq, says |-> e.says]
             q == view[t]
  <2>1. WithNew(t, e) = Append(q, m)
    BY <1>2 DEF WithNew
  <2>2. m \in Message /\ m.seq = e.seq /\ m.says = e.says
    BY DEF Event, Message
  <2>3. q \in Seq(Message)
    BY DEF ViewTypes, TabTypes
  <2>4. \A i \in DOMAIN q : q[i].seq # e.seq
    BY <1>2 DEF Shows
  <2>5. OnceInv => \A i, j \in DOMAIN q : q[i].seq = q[j].seq => i = j
    BY DEF OnceInv
  <2> HIDE DEF m, q
  <2>6. /\ DOMAIN Append(q, m) = 1..(Len(q) + 1) /\ Append(q, m)[Len(q) + 1] = m
        /\ \A i \in DOMAIN q : Append(q, m)[i] = q[i]
        /\ DOMAIN q = 1..Len(q) /\ Len(q) \in Nat
    BY <2>2, <2>3
  <2>7. \A i \in DOMAIN Append(q, m) : i \in DOMAIN q \/ i = Len(q) + 1
    BY <2>6
  <2>8. DOMAIN q \subseteq DOMAIN Append(q, m) /\ Len(q) + 1 \in DOMAIN Append(q, m)
    BY <2>6
  <2>9. ASSUME OnceInv, NEW i \in DOMAIN Append(q, m), NEW j \in DOMAIN Append(q, m),
               Append(q, m)[i].seq = Append(q, m)[j].seq
        PROVE  i = j
    BY <2>2, <2>4, <2>5, <2>6, <2>7, <2>9
  <2>10. /\ \A i \in DOMAIN q : i \in DOMAIN Append(q, m) /\ Append(q, m)[i] = q[i]
         /\ \E i \in DOMAIN Append(q, m) :
              Append(q, m)[i].seq = e.seq /\ Append(q, m)[i].says = e.says
    BY <2>2, <2>6, <2>8
  <2> DEFINE w == WithNew(t, e)
  <2>11. w = Append(q, m)
    BY <2>1
  <2> HIDE DEF w
  <2>12. OnceInv => \A i, j \in DOMAIN w : w[i].seq = w[j].seq => i = j
    BY <2>9, <2>11
  <2>13. /\ \A i \in DOMAIN q : i \in DOMAIN w /\ w[i] = q[i]
         /\ \E i \in DOMAIN w : w[i].seq = e.seq /\ w[i].says = e.says
    BY <2>10, <2>11
  <2> QED BY <2>12, <2>13 DEF q, w
<1> QED BY <1>1, <1>2

LEMMA OnceStep ==
  ASSUME ViewTypes, AnswerInv, OnceInv, [Next]_vars
  PROVE  AnswerInv' /\ OnceInv'
<1> USE DEF roomVars, tabVars, readVars, viewVars
<1>0. /\ view \in [Tab -> Seq(Message)] /\ answer \in [Tab -> Seq(Message)]
      /\ flushed \in Nat
  BY DEF ViewTypes, RoomTypes, TabTypes
<1>a. ASSUME NEW t \in Tab, answer' = [answer EXCEPT ![t] = <<>>] PROVE AnswerInv'
  BY <1>0, <1>a DEF AnswerInv
<1>b. UNCHANGED answer => AnswerInv'
  BY DEF AnswerInv
<1>c. UNCHANGED view => OnceInv'
  BY DEF OnceInv
<1>1. ASSUME NEW t \in Tab, Fetch(t) PROVE AnswerInv' /\ OnceInv'
  <2> DEFINE h == [s \in 1..flushed |-> [seq |-> s, says |-> content[s]]]
  <2>1. \A s \in DOMAIN h : h[s].seq = s
    OBVIOUS
  <2>2. answer' = [answer EXCEPT ![t] = h] /\ UNCHANGED view
    BY <1>1 DEF Fetch
  <2> HIDE DEF h
  <2>3. AnswerInv'
    BY <1>0, <2>1, <2>2 DEF AnswerInv
  <2> QED BY <1>c, <2>2, <2>3
<1>2. ASSUME NEW t \in Tab, Loaded(t) PROVE AnswerInv' /\ OnceInv'
  <2>1. view' = [view EXCEPT ![t] = answer[t]] /\ answer' = [answer EXCEPT ![t] = <<>>]
    BY <1>2 DEF Loaded
  <2>2. OnceInv'
    BY <1>0, <2>1 DEF AnswerInv, OnceInv
  <2> QED BY <1>a, <2>1, <2>2
<1>3. ASSUME NEW t \in Tab, Revisit(t) PROVE AnswerInv' /\ OnceInv'
  <2>1. view' = [view EXCEPT ![t] = <<>>] /\ answer' = [answer EXCEPT ![t] = <<>>]
    BY <1>3 DEF Revisit
  <2>2. OnceInv'
    BY <1>0, <2>1 DEF OnceInv
  <2> QED BY <1>a, <2>1, <2>2
<1>4. ASSUME NEW t \in Tab, LoadFails(t) PROVE AnswerInv' /\ OnceInv'
  BY <1>a, <1>c, <1>4 DEF LoadFails
<1>5. ASSUME NEW t \in Tab, Hear(t) PROVE AnswerInv' /\ OnceInv'
  <2> DEFINE e == Head(wire[t])
  <2>1. e \in Event
    BY <1>5, HeardType DEF ViewTypes, Hear
  <2>2. /\ \/ view' = [view EXCEPT ![t] = WithNew(t, e)]
           \/ view' = [view EXCEPT ![t] = Merged(t, e)]
        /\ UNCHANGED answer
    BY <1>5 DEF Hear
  <2> HIDE DEF e
  <2>3. CASE view' = [view EXCEPT ![t] = WithNew(t, e)]
    <3>1. \A i, j \in DOMAIN WithNew(t, e) :
             WithNew(t, e)[i].seq = WithNew(t, e)[j].seq => i = j
      BY <2>1, WithNewIs
    <3> QED BY <1>0, <1>b, <2>2, <2>3, <3>1 DEF OnceInv
  <2>4. CASE view' = [view EXCEPT ![t] = Merged(t, e)]
    <3> DEFINE w == Merged(t, e)
    <3>1. DOMAIN w = DOMAIN view[t] /\ \A i \in DOMAIN view[t] : w[i].seq = view[t][i].seq
      BY MergedIs
    <3>2. view'[t] = w /\ \A u \in Tab : u # t => view'[u] = view[u]
      BY <1>0, <2>4
    <3> HIDE DEF w
    <3>3. OnceInv'
      BY <3>1, <3>2 DEF OnceInv
    <3> QED BY <1>b, <2>2, <3>3
  <2> QED BY <2>2, <2>3, <2>4
<1>6. ASSUME NEW t \in Tab, Open(t) \/ Drop(t) \/ Show(t)
      PROVE  UNCHANGED <<answer, view>>
  BY <1>6 DEF Open, Drop, Show
<1>7. ASSUME NEW x, \/ Send \/ Flush(x) \/ ReadClamp(x) \/ Note(x) \/ NoteFails(x)
                    \/ ChangeUpdate(x) \/ ChangeTell(x) \/ ChangeUntold(x)
                    \/ ReadUpdate(x) \/ ReadBack(x) \/ ReadDies(x)
      PROVE  UNCHANGED <<answer, view>>
  BY <1>7 DEF Send, Flush, ReadClamp, Note, NoteFails, ChangeUpdate, ChangeTell,
              ChangeUntold, ReadUpdate, ReadBack, ReadDies
<1>8. ASSUME NEW x, NEW y, Change(x, y) \/ Deliver(x, y)
      PROVE  UNCHANGED <<answer, view>>
  BY <1>8 DEF Change, Deliver
<1>9. CASE UNCHANGED <<answer, view>>
  BY <1>b, <1>c, <1>9
<1>10. CASE UNCHANGED vars
  BY <1>9, <1>10 DEF vars
<1>11. CASE Next
  BY <1>1, <1>2, <1>3, <1>4, <1>5, <1>6, <1>7, <1>8, <1>9, <1>11 DEF Next
<1> QED BY <1>10, <1>11

-----------------------------------------------------------------------------
\* All that is claimed of a message of which a tab missed nothing.
Tracked(t, s) == OneCast(s) /\ OneTell(s) /\ Right(t, s)

\* What concerns neither message s nor tab t.
LEMMA Undisturbed ==
  ASSUME NEW t, NEW s, Tracked(t, s),
         \A k \in casts' : k.seq = s => k \in casts,
         \A k \in casts : k.seq = s => k \in casts',
         \A c \in changes' : Tells(c, s) => c \in changes,
         \A c \in changes : Tells(c, s) => c \in changes',
         content'[s] = content[s], wire'[t] = wire[t], view'[t] = view[t]
  PROVE  Tracked(t, s)'
<1>1. OneCast(s)' /\ OneTell(s)'
  BY DEF Tracked, OneCast, OneTell
<1>2. (Quiet(s)' <=> Quiet(s)) /\ (Idle(t, s)' <=> Idle(t, s))
  BY DEF Quiet, Idle, Brings, Tells
<1>3. CastIsRight(t, s) => CastIsRight(t, s)'
  BY DEF CastIsRight, Brings
<1>4. /\ LastIsRight(t, s) => LastIsRight(t, s)'
      /\ Waiting(t, s) => Waiting(t, s)'
      /\ IsShown(t, s) => IsShown(t, s)'
  BY DEF LastIsRight, Waiting, IsShown
<1> QED BY <1>1, <1>2, <1>3, <1>4 DEF Tracked, Right

\* A broadcast is added for all sockets that are open.
LEMMA CastIs ==
  ASSUME NEW u, NEW says, NEW new, Cast(u, says, new)
  PROVE  \E b : /\ casts \subseteq casts' /\ casts' \subseteq casts \cup {b}
                /\ b.seq = u /\ b.says = says
                /\ \A t \in Tab : link[t] => t \in b.todo /\ b \in casts'
<1> DEFINE b == [seq |-> u, says |-> says, new |-> new, todo |-> {t \in Tab : link[t]}]
<1>1. casts' = casts \cup Over({b})
  BY DEF Cast
<1>2. b.seq = u /\ b.says = says /\ b.todo = {t \in Tab : link[t]}
  OBVIOUS
<1> HIDE DEF b
<1>3. \A t \in Tab : link[t] => b \in casts'
  BY <1>1, <1>2 DEF Over
<1> QED BY <1>1, <1>2, <1>3 DEF Over

\* A broadcast that overtakes none brings the message to every tab that listens.
LEMMA Announced ==
  ASSUME NEW t \in Tab, NEW s \in Nat, NEW says, NEW new, ViewTypes,
         Cast(s, says, new), Unheard(s), s \notin gaps'[t], content'[s] = says
  PROVE  s \notin gaps[t] /\ OneCast(s)' /\ Right(t, s)'
<1>1. link[t] /\ (\A k \in casts : k.seq # s) /\ s \notin gaps[t]
  BY DEF Unheard, Underway
<1>2. PICK b : /\ casts' \subseteq casts \cup {b} /\ b.seq = s /\ b.says = says
               /\ t \in b.todo /\ b \in casts'
  BY <1>1, CastIs
<1>3. \A k \in casts' : k.seq = s => k = b
  BY <1>1, <1>2
<1>4. OneCast(s)'
  BY <1>3 DEF OneCast
<1>5. CastIsRight(t, s)' /\ ~Idle(t, s)'
  BY <1>2, <1>3 DEF CastIsRight, Idle, Brings
<1> QED BY <1>1, <1>4, <1>5 DEF Right

LEMMA SendTracks ==
  ASSUME ViewInv, Send PROVE RightInv'
<1> SUFFICES ASSUME NEW t \in Tab, NEW s \in 1..sent', s \notin gaps'[t]
             PROVE  Tracked(t, s)'
  BY DEF RightInv, Tracked
<1>0. sent \in Nat /\ flushed \in Nat /\ flushed <= sent /\ sent < MaxSeq
  BY DEF ViewInv, ViewTypes, RoomTypes, Send
<1>1. /\ sent' = sent + 1 /\ Cast(sent', "sent", TRUE) /\ Unheard(sent')
      /\ UNCHANGED <<content, changes, wire, view>>
  BY DEF Send, tabVars
<1>2. CASE s = sent'
  <2>1. s \in 1..MaxSeq /\ s > sent /\ s > flushed
    BY <1>0, <1>1, <1>2
  <2>2. content'[s] = "sent"
    BY <1>1, <2>1 DEF ViewInv, KnownInv
  <2>3. \A c \in changes' : c.seq # s
    BY <1>0, <1>1, <2>1 DEF ViewInv, KnownInv
  <2>4. OneTell(s)'
    BY <2>3 DEF OneTell, Tells
  <2>5. Cast(s, "sent", TRUE) /\ Unheard(s)
    BY <1>1, <1>2
  <2>6. s \in Nat
    BY <2>1
  <2>7. OneCast(s)' /\ Right(t, s)'
    BY <2>2, <2>5, <2>6, Announced DEF ViewInv
  <2> QED BY <2>4, <2>7 DEF Tracked
<1>3. CASE s # sent'
  <2>1. s \in 1..sent /\ s \notin gaps[t]
    BY <1>0, <1>1, <1>3 DEF Unheard
  <2>2. Tracked(t, s)
    BY <2>1 DEF ViewInv, RightInv, Tracked
  <2>3. /\ \A k \in casts' : k.seq = s => k \in casts
        /\ \A k \in casts : k \in casts'
    BY <1>1, <1>3, CastIs
  <2> QED BY <1>1, <2>2, <2>3, Undisturbed
<1> QED BY <1>2, <1>3

\* A change is asked for: it is not yet one of those to be told.
LEMMA ChangeTracks ==
  ASSUME ViewInv, NEW r, NEW to, Change(r, to) PROVE RightInv'
<1> SUFFICES ASSUME NEW t \in Tab, NEW s \in 1..sent, s \notin gaps[t]
             PROVE  Tracked(t, s)'
  BY DEF Change, RightInv, Tracked
<1>1. Tracked(t, s)
  BY DEF ViewInv, RightInv, Tracked
<1>2. /\ changes' = changes \cup {[seq |-> r, to |-> to, pc |-> "update"]}
      /\ UNCHANGED <<content, casts, wire, view>>
  BY DEF Change, tabVars
<1>3. \A c \in changes' : Tells(c, s) => c \in changes
  BY <1>2 DEF Tells
<1> QED BY <1>1, <1>2, <1>3, Undisturbed

\* D1 has it: now it is.
LEMMA UpdateTracks ==
  ASSUME ViewInv, NEW c \in changes, ChangeUpdate(c) PROVE RightInv'
<1> DEFINE d == [c EXCEPT !.pc = "tell"]
<1>0. c \in Rewriting /\ content \in [1..MaxSeq -> Says] /\ sent \in Nat /\ sent <= MaxSeq
      /\ gaps \in [Tab -> SUBSET Nat]
  BY DEF ViewInv, ViewTypes, RoomTypes, GapTypes
<1>1. /\ c.pc = "update" /\ changes' = (changes \ {c}) \cup {d}
      /\ content' = [content EXCEPT ![c.seq] = c.to]
      /\ gaps' = IF \E e \in changes \ {c} : e.seq = c.seq
                 THEN [t \in Tab |-> gaps[t] \cup {c.seq}] ELSE gaps
      /\ UNCHANGED <<sent, casts, wire, view>>
  BY DEF ChangeUpdate, tabVars
<1>2. d.seq = c.seq /\ d.to = c.to /\ d.pc = "tell"
  BY <1>0 DEF Rewriting
<1> HIDE DEF d
<1> SUFFICES ASSUME NEW t \in Tab, NEW s \in 1..sent, s \notin gaps'[t]
             PROVE  Tracked(t, s)'
  BY <1>1 DEF RightInv, Tracked
<1>3. s \notin gaps[t] /\ s \in 1..MaxSeq
  BY <1>0, <1>1
<1>4. Tracked(t, s)
  BY <1>3 DEF ViewInv, RightInv, Tracked
<1>5. CASE s = c.seq
  <2>1. \A e \in changes' : Tells(e, s) => e = d
    BY <1>1, <1>5 DEF Tells
  <2>2. content'[s] = d.to
    BY <1>0, <1>1, <1>2, <1>3, <1>5
  <2>3. OneTell(s)'
    BY <2>1, <2>2 DEF OneTell
  <2>4. ~Quiet(s)'
    BY <1>1, <1>2, <1>5 DEF Quiet, Tells
  <2>5. OneCast(s)'
    BY <1>1, <1>4 DEF Tracked, OneCast
  <2> QED BY <2>3, <2>4, <2>5 DEF Tracked, Right
<1>6. CASE s # c.seq
  <2>1. /\ \A e \in changes' : Tells(e, s) => e \in changes
        /\ \A e \in changes : Tells(e, s) => e \in changes'
    BY <1>1, <1>2, <1>6 DEF Tells
  <2>2. content'[s] = content[s]
    BY <1>0, <1>1, <1>3, <1>6
  <2> QED BY <1>1, <1>4, <2>1, <2>2, Undisturbed
<1> QED BY <1>5, <1>6

\* It is told.
LEMMA TellTracks ==
  ASSUME ViewInv, NEW c \in changes, ChangeTell(c) PROVE RightInv'
<1>0. /\ ViewTypes /\ c.seq \in Nat
      /\ gaps \in [Tab -> SUBSET Nat]
  BY DEF ViewInv, ViewTypes, RoomTypes, GapTypes, Rewriting
<1>1. /\ c.pc = "tell" /\ changes' = changes \ {c}
      /\ Cast(c.seq, c.to, FALSE) /\ Unheard(c.seq)
      /\ UNCHANGED <<sent, content, wire, view>>
  BY DEF ChangeTell, tabVars
<1> SUFFICES ASSUME NEW t \in Tab, NEW s \in 1..sent, s \notin gaps'[t]
             PROVE  Tracked(t, s)'
  BY <1>1 DEF RightInv, Tracked
<1>2. s \notin gaps[t]
  BY <1>1 DEF Unheard
<1>3. Tracked(t, s)
  BY <1>2 DEF ViewInv, RightInv, Tracked
<1>4. CASE s = c.seq
  <2>1. c.to = content'[s]
    BY <1>1, <1>3, <1>4 DEF Tracked, OneTell, Tells
  <2>2. OneTell(s)'
    BY <1>1, <1>3 DEF Tracked, OneTell
  <2>3. OneCast(s)' /\ Right(t, s)'
    BY <1>0, <1>1, <1>4, <2>1, Announced
  <2> QED BY <2>2, <2>3 DEF Tracked
<1>5. CASE s # c.seq
  <2>1. /\ \A e \in changes' : e \in changes
        /\ \A e \in changes : Tells(e, s) => e \in changes'
    BY <1>1, <1>5 DEF Tells
  <2>2. /\ \A k \in casts' : k.seq = s => k \in casts
        /\ \A k \in casts : k \in casts'
    BY <1>1, <1>5, CastIs
  <2> QED BY <1>1, <1>3, <2>1, <2>2, Undisturbed
<1> QED BY <1>4, <1>5

\* Nobody is told: every tab misses something of that message.
LEMMA UntoldTracks ==
  ASSUME ViewInv, NEW c \in changes, ChangeUntold(c) PROVE RightInv'
<1>0. gaps \in [Tab -> SUBSET Nat]
  BY DEF ViewInv, ViewTypes, GapTypes
<1>1. /\ changes' = changes \ {c} /\ gaps' = [t \in Tab |-> gaps[t] \cup {c.seq}]
      /\ UNCHANGED <<sent, content, casts, wire, view>>
  BY DEF ChangeUntold, tabVars
<1> SUFFICES ASSUME NEW t \in Tab, NEW s \in 1..sent, s \notin gaps'[t]
             PROVE  Tracked(t, s)'
  BY <1>1 DEF RightInv, Tracked
<1>2. s \notin gaps[t] /\ s # c.seq
  BY <1>0, <1>1
<1>3. Tracked(t, s)
  BY <1>2 DEF ViewInv, RightInv, Tracked
<1>4. /\ \A e \in changes' : e \in changes
      /\ \A e \in changes : Tells(e, s) => e \in changes'
  BY <1>1, <1>2 DEF Tells
<1> QED BY <1>1, <1>3, <1>4, Undisturbed

\* A broadcast gets to a socket: its event is the last one there.
LEMMA DeliverTracks ==
  ASSUME ViewInv, NEW k \in casts, NEW u \in Tab, Deliver(k, u) PROVE RightInv'
<1> DEFINE d == [k EXCEPT !.todo = @ \ {u}]
           e == [seq |-> k.seq, says |-> k.says, new |-> k.new]
<1>0. k \in Broadcast /\ wire \in [Tab -> Seq(Event)]
  BY DEF ViewInv, ViewTypes, RoomTypes, TabTypes
<1>1. /\ u \in k.todo /\ casts' = (casts \ {k}) \cup Over({d})
      /\ wire' = [wire EXCEPT ![u] = Append(@, e)]
      /\ UNCHANGED <<sent, content, changes, view, gaps>>
  BY DEF Deliver, roomVars, tabVars
<1>2. d.seq = k.seq /\ d.says = k.says /\ d.todo = k.todo \ {u}
  BY <1>0 DEF Broadcast
<1>3. e \in Event /\ e.seq = k.seq /\ e.says = k.says
  BY <1>0 DEF Broadcast, Event
<1> HIDE DEF d, e
<1> SUFFICES ASSUME NEW t \in Tab, NEW s \in 1..sent, s \notin gaps[t]
             PROVE  Tracked(t, s)'
  BY <1>1 DEF RightInv, Tracked
<1>4. Tracked(t, s)
  BY DEF ViewInv, RightInv, Tracked
<1>5. OneTell(s)' /\ (Quiet(s)' <=> Quiet(s)) /\ (IsShown(t, s)' <=> IsShown(t, s))
  BY <1>1, <1>4 DEF Tracked, OneTell, Quiet, IsShown
<1> DEFINE q == wire[t]
<1>6. q \in Seq(Event) /\ (t = u => wire'[t] = Append(q, e)) /\ (t # u => wire'[t] = q)
  BY <1>0, <1>1
<1> HIDE DEF q
<1>7. /\ DOMAIN q = 1..Len(q) /\ Len(q) \in Nat
      /\ DOMAIN Append(q, e) = 1..(Len(q) + 1) /\ Append(q, e)[Len(q) + 1] = e
      /\ \A i \in 1..Len(q) : Append(q, e)[i] = q[i]
  BY <1>3, <1>6
<1>8. CASE s = k.seq
  <2>1. \A j \in casts' : j.seq = s => j = d
    BY <1>1, <1>2, <1>4, <1>8 DEF Tracked, OneCast, Over
  <2>2. OneCast(s)'
    BY <2>1 DEF OneCast
  <2>3. CASE t # u
    <3>1. Brings(k, t, s) => d \in casts' /\ Brings(d, t, s)
      BY <1>1, <1>2, <1>8, <2>3 DEF Brings, Over
    <3>2. \A j \in casts : Brings(j, t, s) => j = k
      BY <1>4, <1>8 DEF Tracked, OneCast, Brings
    <3>3. Idle(t, s)' => Idle(t, s)
      BY <3>1, <3>2 DEF Idle
    <3>4. CastIsRight(t, s) => CastIsRight(t, s)'
      BY <1>1, <1>2, <2>1 DEF CastIsRight, Brings
    <3>5. wire'[t] = wire[t]
      BY <1>6, <2>3 DEF q
    <3>6. /\ LastIsRight(t, s) => LastIsRight(t, s)'
          /\ Waiting(t, s) => Waiting(t, s)'
      BY <1>1, <3>5 DEF LastIsRight, Waiting
    <3> QED BY <1>4, <1>5, <2>2, <3>3, <3>4, <3>6 DEF Tracked, Right
  <2>4. CASE t = u
    <3>1. CastIsRight(t, s)'
      BY <1>2, <2>1, <2>4 DEF CastIsRight, Brings
    <3>2. ASSUME Quiet(s) PROVE LastIsRight(t, s)'
      <4>1. e.says = content'[s]
        BY <1>1, <1>3, <1>4, <1>8, <2>4, <3>2 DEF Tracked, Right, CastIsRight, Brings
      <4>2. \A i \in DOMAIN Append(q, e) : Len(q) + 1 <= i => Append(q, e)[i] = e
        BY <1>7
      <4>3. Len(q) + 1 \in DOMAIN Append(q, e) /\ Append(q, e)[Len(q) + 1].seq = s
        BY <1>3, <1>7, <1>8
      <4> QED BY <1>6, <2>4, <4>1, <4>2, <4>3 DEF LastIsRight
    <3>3. Waiting(t, s)'
      BY <1>3, <1>6, <1>7, <1>8, <2>4 DEF Waiting
    <3> QED BY <1>5, <2>2, <3>1, <3>2, <3>3 DEF Tracked, Right
  <2> QED BY <2>3, <2>4
<1>9. CASE s # k.seq
  <2>1. /\ \A j \in casts' : j.seq = s => j \in casts
        /\ \A j \in casts : j.seq = s => j \in casts'
    BY <1>1, <1>2, <1>9 DEF Over
  <2>2. OneCast(s)' /\ (Idle(t, s)' <=> Idle(t, s))
    BY <1>4, <2>1 DEF Tracked, OneCast, Idle, Brings
  <2>3. CastIsRight(t, s) => CastIsRight(t, s)'
    BY <1>1, <2>1 DEF CastIsRight, Brings
  <2>4. Waiting(t, s) => Waiting(t, s)'
    BY <1>6, <1>7 DEF Waiting, q
  <2>5. ASSUME LastIsRight(t, s) PROVE LastIsRight(t, s)'
    <3>1. CASE t # u
      BY <1>1, <1>6, <2>5, <3>1 DEF LastIsRight, q
    <3>2. CASE t = u
      <4> SUFFICES ASSUME NEW i \in DOMAIN Append(q, e), Append(q, e)[i].seq = s,
                          \A j \in DOMAIN Append(q, e) : Append(q, e)[j].seq = s => j <= i
                   PROVE  Append(q, e)[i].says = content[s]
        BY <1>1, <1>6, <3>2 DEF LastIsRight
      <4>1. i \in DOMAIN q /\ q[i] = Append(q, e)[i]
        BY <1>3, <1>7, <1>9
      <4>2. \A j \in DOMAIN q : q[j].seq = s => j <= i
        BY <1>7
      <4> QED BY <2>5, <4>1, <4>2 DEF LastIsRight, q
    <3> QED BY <3>1, <3>2
  <2> QED BY <1>4, <1>5, <2>2, <2>3, <2>4, <2>5 DEF Tracked, Right
<1> QED BY <1>8, <1>9

\* A socket is lost: what was on its way to its tab is missed, and the others
\* have what they had.
LEMMA CutTracks ==
  ASSUME ViewTypes, NEW u \in Tab, Cut(u), NEW t \in Tab, NEW s, Tracked(t, s),
         t # u \/ (s \notin Lost(t) /\ t = u), UNCHANGED <<changes, content>>,
         view'[t] = view[t]
  PROVE  Tracked(t, s)'
<1>0. wire \in [Tab -> Seq(Event)]
  BY DEF ViewTypes, TabTypes
<1>1. /\ \A j \in casts' : \E k \in casts :
           /\ j = [k EXCEPT !.todo = @ \ {u}] /\ j.seq = k.seq /\ j.says = k.says
           /\ j.todo = k.todo \ {u}
      /\ \A x \in Tab \ {u}, k \in casts : x \in k.todo =>
           \E j \in casts' : j.seq = k.seq /\ x \in j.todo
      /\ wire' = [wire EXCEPT ![u] = <<>>]
  BY CutIs
<1>2. OneCast(s)'
  <2> SUFFICES ASSUME NEW i \in casts', NEW j \in casts', i.seq = s, j.seq = s
               PROVE  i = j
    BY DEF OneCast
  <2>1. PICK k \in casts : i = [k EXCEPT !.todo = @ \ {u}] /\ k.seq = s
    BY <1>1
  <2>2. PICK l \in casts : j = [l EXCEPT !.todo = @ \ {u}] /\ l.seq = s
    BY <1>1
  <2>3. k = l
    BY <2>1, <2>2 DEF Tracked, OneCast
  <2> QED BY <2>1, <2>2, <2>3
<1>3. OneTell(s)' /\ (Quiet(s)' <=> Quiet(s)) /\ (IsShown(t, s)' <=> IsShown(t, s))
  BY DEF Tracked, OneTell, Quiet, IsShown
<1>4. CastIsRight(t, s) => CastIsRight(t, s)'
  BY <1>1 DEF CastIsRight, Brings
<1>5. CASE t # u
  <2>1. Idle(t, s)' => Idle(t, s)
    BY <1>1, <1>5 DEF Idle, Brings
  <2>2. wire'[t] = wire[t]
    BY <1>0, <1>1, <1>5
  <2>3. /\ LastIsRight(t, s) => LastIsRight(t, s)'
        /\ Waiting(t, s) => Waiting(t, s)'
    BY <2>2 DEF LastIsRight, Waiting
  <2> QED BY <1>2, <1>3, <1>4, <2>1, <2>3 DEF Tracked, Right
<1>6. CASE s \notin Lost(t) /\ t = u
  <2>1. Idle(t, s) /\ ~Waiting(t, s)
    BY <1>6 DEF Lost, Idle, Brings, Waiting
  <2>2. wire'[t] = <<>>
    BY <1>0, <1>1, <1>6
  <2>3. LastIsRight(t, s)'
    BY <2>2 DEF LastIsRight
  <2> QED BY <1>2, <1>3, <1>4, <2>1, <2>3 DEF Tracked, Right
<1> QED BY <1>5, <1>6

LEMMA DropTracks ==
  ASSUME ViewInv, NEW u \in Tab, Drop(u) \/ Revisit(u) PROVE RightInv'
<1>0. gaps \in [Tab -> SUBSET Nat] /\ view \in [Tab -> Seq(Message)]
  BY DEF ViewInv, ViewTypes, GapTypes, TabTypes
<1>1. /\ Cut(u) /\ UNCHANGED <<sent, content, changes>>
      /\ \/ gaps' = [gaps EXCEPT ![u] = @ \cup Lost(u)] /\ UNCHANGED view
         \/ gaps' = [gaps EXCEPT ![u] = 1..sent] /\ view' = [view EXCEPT ![u] = <<>>]
  BY DEF Drop, Revisit, roomVars, tabVars
<1> SUFFICES ASSUME NEW t \in Tab, NEW s \in 1..sent, s \notin gaps'[t]
             PROVE  Tracked(t, s)'
  BY <1>1 DEF RightInv, Tracked
<1>2. s \notin gaps[t]
  BY <1>0, <1>1
<1>3. Tracked(t, s)
  BY <1>2 DEF ViewInv, RightInv, Tracked
<1>4. view'[t] = view[t] /\ (t # u \/ (s \notin Lost(t) /\ t = u))
  BY <1>0, <1>1
<1> QED BY <1>1, <1>3, <1>4, CutTracks DEF ViewInv

\* The history replaces what is shown.  A tab is up to date with what the
\* answer has as D1 has it, if nothing older is on its way, and with what it
\* showed as the answer says.
LEMMA LoadTracks ==
  ASSUME ViewInv, NEW u \in Tab, Loaded(u) PROVE RightInv'
<1>0. /\ gaps \in [Tab -> SUBSET Nat] /\ view \in [Tab -> Seq(Message)]
      /\ answer \in [Tab -> Seq(Message)]
  BY DEF ViewInv, ViewTypes, GapTypes, TabTypes
<1>1. /\ gaps' = [gaps EXCEPT ![u] = (@ \cup Replaced(u)) \ Settled(u)]
      /\ view' = [view EXCEPT ![u] = answer[u]]
      /\ UNCHANGED <<sent, content, changes, casts, wire>>
  BY DEF Loaded, roomVars
<1> SUFFICES ASSUME NEW t \in Tab, NEW s \in 1..sent, s \notin gaps'[t]
             PROVE  Tracked(t, s)'
  BY <1>1 DEF RightInv, Tracked
<1>2. CASE t # u
  <2>1. s \notin gaps[t] /\ view'[t] = view[t]
    BY <1>0, <1>1, <1>2
  <2>2. Tracked(t, s)
    BY <2>1 DEF ViewInv, RightInv, Tracked
  <2> QED BY <1>1, <2>1, <2>2, Undisturbed
<1>3. CASE t = u /\ s \in Settled(t)
  <2>1. /\ s \in DOMAIN answer[t] /\ answer[t][s].says = content[s]
        /\ \A k \in casts : k.seq # s
        /\ \A i \in DOMAIN wire[t] : wire[t][i].seq # s
        /\ \A c \in changes : c.seq # s
    BY <1>3 DEF Settled, Underway, Lost
  <2>2. view'[t] = answer[t] /\ answer[t][s].seq = s
    BY <1>0, <1>1, <1>3, <2>1 DEF ViewInv, AnswerInv
  <2>3. IsShown(t, s)'
    BY <1>1, <2>1, <2>2 DEF IsShown
  <2>4. OneCast(s)' /\ OneTell(s)' /\ CastIsRight(t, s)' /\ LastIsRight(t, s)'
    BY <1>1, <2>1 DEF OneCast, OneTell, Tells, CastIsRight, Brings, LastIsRight
  <2> QED BY <2>3, <2>4 DEF Tracked, Right
<1>4. CASE t = u /\ s \notin Settled(t)
  <2>1. s \notin gaps[t] /\ s \notin Replaced(t) /\ view'[t] = answer[t]
    BY <1>0, <1>1, <1>4
  <2>2. Tracked(t, s)
    BY <2>1 DEF ViewInv, RightInv, Tracked
  <2>3. ASSUME IsShown(t, s) PROVE IsShown(t, s)'
    <3>1. PICK i \in DOMAIN view[t] : view[t][i].seq = s /\ view[t][i].says = content[s]
      BY <2>3 DEF IsShown
    <3>2. PICK a \in DOMAIN answer[t] : answer[t][a] = view[t][i]
      BY <2>1, <3>1 DEF Replaced
    <3> QED BY <1>1, <2>1, <3>1, <3>2 DEF IsShown
  <2>4. /\ OneCast(s)' /\ OneTell(s)' /\ (Quiet(s)' <=> Quiet(s))
        /\ (Idle(t, s)' <=> Idle(t, s))
    BY <1>1, <2>2 DEF Tracked, OneCast, OneTell, Quiet, Idle
  <2>5. /\ CastIsRight(t, s) => CastIsRight(t, s)'
        /\ LastIsRight(t, s) => LastIsRight(t, s)'
        /\ Waiting(t, s) => Waiting(t, s)'
    BY <1>1 DEF CastIsRight, LastIsRight, Waiting
  <2> QED BY <2>2, <2>3, <2>4, <2>5 DEF Tracked, Right
<1> QED BY <1>2, <1>3, <1>4

\* A tab hears the next event.  If it is the last of its message, the message
\* is shown as the event says, unless it was an update of what is not shown.
LEMMA HearTracks ==
  ASSUME ViewInv, NEW u \in Tab, Hear(u) PROVE RightInv'
<1> DEFINE e == Head(wire[u])
           q == wire[u]
<1>0. /\ gaps \in [Tab -> SUBSET Nat] /\ view \in [Tab -> Seq(Message)]
      /\ wire \in [Tab -> Seq(Event)]
  BY DEF ViewInv, ViewTypes, GapTypes, TabTypes
<1>1. /\ q # <<>> /\ wire' = [wire EXCEPT ![u] = Tail(q)]
      /\ \/ view' = [view EXCEPT ![u] = WithNew(u, e)] /\ UNCHANGED gaps
         \/ /\ view' = [view EXCEPT ![u] = Merged(u, e)]
            /\ gaps' = IF Shows(u, e.seq) THEN gaps
                       ELSE [gaps EXCEPT ![u] = @ \cup {e.seq}]
      /\ UNCHANGED <<sent, content, changes, casts>>
  BY DEF Hear, roomVars
<1>2. e \in Event /\ Tail(q) \in Seq(Event)
  BY <1>1, HeardType DEF ViewInv, ViewTypes
<1>3. /\ q \in Seq(Event) /\ DOMAIN q = 1..Len(q) /\ Len(q) \in Nat /\ Len(q) > 0
      /\ e = q[1] /\ DOMAIN Tail(q) = 1..(Len(q) - 1)
      /\ \A i \in 1..(Len(q) - 1) : Tail(q)[i] = q[i + 1]
  BY <1>0, <1>1
<1> SUFFICES ASSUME NEW t \in Tab, NEW s \in 1..sent, s \notin gaps'[t]
             PROVE  Tracked(t, s)'
  BY <1>1 DEF RightInv, Tracked
<1>4. s \notin gaps[t]
  BY <1>0, <1>1
<1>5. Tracked(t, s)
  BY <1>4 DEF ViewInv, RightInv, Tracked
<1>6. CASE t # u
  <2>1. wire'[t] = wire[t] /\ view'[t] = view[t]
    BY <1>0, <1>1, <1>6
  <2> QED BY <1>1, <1>5, <2>1, Undisturbed
<1>7. CASE t = u
  <2> HIDE DEF e
  <2>1. wire'[t] = Tail(q) /\ wire[t] = q
    BY <1>0, <1>1, <1>7
  <2>2. \/ view'[t] = WithNew(t, e)
        \/ view'[t] = Merged(t, e) /\ (e.seq = s => Shows(t, s))
    BY <1>0, <1>1, <1>7
  <2> HIDE DEF q
  <2>3. /\ OneCast(s)' /\ OneTell(s)' /\ (Quiet(s)' <=> Quiet(s))
        /\ (Idle(t, s)' <=> Idle(t, s))
    BY <1>1, <1>5 DEF Tracked, OneCast, OneTell, Quiet, Idle
  <2>4. CastIsRight(t, s) => CastIsRight(t, s)'
    BY <1>1 DEF CastIsRight
  <2>5. ASSUME LastIsRight(t, s) PROVE LastIsRight(t, s)'
    <3> SUFFICES ASSUME NEW i \in DOMAIN Tail(q), Tail(q)[i].seq = s,
                        \A j \in DOMAIN Tail(q) : Tail(q)[j].seq = s => j <= i
                 PROVE  Tail(q)[i].says = content[s]
      BY <1>1, <2>1 DEF LastIsRight
    <3>1. i + 1 \in DOMAIN q /\ q[i + 1] = Tail(q)[i]
      BY <1>3
    <3>2. ASSUME NEW j \in DOMAIN q, q[j].seq = s PROVE j <= i + 1
      <4>1. CASE j = 1
        BY <1>3, <4>1
      <4>2. CASE j # 1
        <5>1. j - 1 \in DOMAIN Tail(q) /\ Tail(q)[j - 1] = q[j]
          BY <1>3, <4>2
        <5> QED BY <1>3, <3>2, <5>1
      <4> QED BY <4>1, <4>2
    <3> QED BY <2>1, <2>5, <3>1, <3>2 DEF LastIsRight
  <2>6. ASSUME LastIsRight(t, s), Waiting(t, s) \/ IsShown(t, s), ~Waiting(t, s)'
        PROVE  IsShown(t, s)'
    <3>1. \A i \in DOMAIN q : q[i].seq = s => i = 1
      <4> SUFFICES ASSUME NEW i \in DOMAIN q, q[i].seq = s, i # 1 PROVE FALSE
        OBVIOUS
      <4>1. i - 1 \in DOMAIN Tail(q) /\ Tail(q)[i - 1] = q[i]
        BY <1>3
      <4> QED BY <2>1, <2>6, <4>1 DEF Waiting
    <3>2. CASE e.seq = s
      <4>1. e.says = content[s]
        BY <1>3, <2>1, <2>6, <3>1, <3>2 DEF LastIsRight
      <4>2. CASE view'[t] = WithNew(t, e)
        <5>1. \E i \in DOMAIN WithNew(t, e) :
                WithNew(t, e)[i].seq = e.seq /\ WithNew(t, e)[i].says = e.says
          BY <1>2, WithNewIs DEF ViewInv
        <5> QED BY <1>1, <3>2, <4>1, <4>2, <5>1 DEF IsShown
      <4>3. CASE view'[t] = Merged(t, e) /\ Shows(t, s)
        <5>1. PICK i \in DOMAIN view[t] : view[t][i].seq = s
          BY <4>3 DEF Shows
        <5> DEFINE w == Merged(t, e)
        <5>2. /\ DOMAIN w = DOMAIN view[t]
              /\ \A j \in DOMAIN view[t] :
                   /\ w[j].seq = view[t][j].seq
                   /\ view[t][j].seq = e.seq => w[j].says = e.says
          BY DEF Merged
        <5>3. view'[t] = w
          BY <4>3
        <5> HIDE DEF w
        <5>4. i \in DOMAIN w /\ w[i].seq = s /\ w[i].says = content[s]
          BY <3>2, <4>1, <5>1, <5>2
        <5> QED BY <1>1, <5>3, <5>4 DEF IsShown
      <4> QED BY <2>2, <3>2, <4>2, <4>3
    <3>3. CASE e.seq # s
      <4>1. ~Waiting(t, s)
        BY <1>3, <2>1, <3>1, <3>3 DEF Waiting
      <4>2. PICK i \in DOMAIN view[t] : view[t][i].seq = s /\ view[t][i].says = content[s]
        BY <2>6, <4>1 DEF IsShown
      <4>3. i \in DOMAIN WithNew(t, e) /\ WithNew(t, e)[i] = view[t][i]
        BY <1>2, <3>3, <4>2, WithNewIs DEF ViewInv
      <4>4. i \in DOMAIN Merged(t, e) /\ Merged(t, e)[i] = view[t][i]
        BY <3>3, <4>2, MergedIs DEF ViewInv
      <4> QED BY <1>1, <2>2, <4>2, <4>3, <4>4 DEF IsShown
    <3> QED BY <3>2, <3>3
  <2> QED BY <1>5, <2>3, <2>4, <2>5, <2>6 DEF Tracked, Right
<1> QED BY <1>6, <1>7

LEMMA RightStep ==
  ASSUME ViewInv, [Next]_vars PROVE RightInv'
<1> USE DEF roomVars, tabVars, readVars, viewVars
<1>1. CASE UNCHANGED <<sent, content, changes, casts, wire, view, gaps>>
  <2> SUFFICES ASSUME NEW t \in Tab, NEW s \in 1..sent, s \notin gaps[t]
               PROVE  Tracked(t, s)'
    BY <1>1 DEF RightInv, Tracked
  <2>1. Tracked(t, s)
    BY DEF ViewInv, RightInv, Tracked
  <2> QED BY <1>1, <2>1, Undisturbed
<1>2. ASSUME NEW x, \/ Flush(x) \/ ReadClamp(x) \/ Note(x) \/ NoteFails(x)
                    \/ ReadUpdate(x) \/ ReadBack(x) \/ ReadDies(x)
      PROVE  UNCHANGED <<sent, content, changes, casts, wire, view, gaps>>
  BY <1>2 DEF Flush, ReadClamp, Note, NoteFails, ReadUpdate, ReadBack, ReadDies
<1>3. ASSUME NEW t \in Tab, Open(t) \/ Fetch(t) \/ LoadFails(t) \/ Show(t)
      PROVE  UNCHANGED <<sent, content, changes, casts, wire, view, gaps>>
  BY <1>3 DEF Open, Fetch, LoadFails, Show
<1>4. CASE UNCHANGED vars
  BY <1>1, <1>4 DEF vars
<1>5. CASE Next
  BY <1>1, <1>2, <1>3, <1>5, SendTracks, ChangeTracks, UpdateTracks, TellTracks,
     UntoldTracks, DeliverTracks, DropTracks, LoadTracks, HearTracks DEF Next
<1> QED BY <1>4, <1>5

LEMMA ViewStep == ViewInv /\ [Next]_vars => ViewInv'
<1> SUFFICES ASSUME ViewInv, [Next]_vars PROVE ViewInv'
  OBVIOUS
<1>1. ViewTypes'
  BY RoomStep, TabStep, GapStep DEF ViewInv, ViewTypes
<1>2. KnownInv' /\ AnswerInv' /\ OnceInv'
  BY KnownStep, OnceStep DEF ViewInv
<1> QED BY <1>1, <1>2, RightStep DEF ViewInv

\* For any number of tabs, messages, edits and deletions: no tab shows a message
\* twice, and once it has loaded the history and heard everything it shows each
\* message as D1 has it, unless it missed something of it in a named way
\* (message-area.tsx, use-channel-socket.ts, broadcast of chat-room.ts).
THEOREM ViewsAlwaysFaithful == Spec => []ViewsAreFaithful
<1>1. ASSUME ViewInv PROVE ViewsAreFaithful
  <2> SUFFICES ASSUME NEW t \in Tab
               PROVE  /\ \A s \in 1..MaxSeq : Cardinality(Shown(t, s)) <= 1
                      /\ wire[t] = <<>> =>
                           \A s \in 1..sent \ gaps[t] :
                             \/ \E k \in casts : k.seq = s /\ t \in k.todo
                             \/ \E c \in changes : c.seq = s
                             \/ \E i \in Shown(t, s) : view[t][i].says = content[s]
    BY DEF ViewsAreFaithful
  <2>1. ASSUME NEW s \in 1..MaxSeq PROVE Cardinality(Shown(t, s)) <= 1
    <3>1. \A i, j \in Shown(t, s) : i = j
      BY <1>1 DEF ViewInv, OnceInv, Shown
    <3>2. CASE Shown(t, s) = {}
      BY <3>2, FS_EmptySet
    <3>3. CASE Shown(t, s) # {}
      <4>1. PICK i : Shown(t, s) = {i}
        BY <3>1, <3>3
      <4>2. Cardinality({i}) = 1
        BY FS_Singleton
      <4> QED BY <4>1, <4>2
    <3> QED BY <3>2, <3>3
  <2>2. ASSUME wire[t] = <<>>, NEW s \in 1..sent \ gaps[t],
               ~ \E k \in casts : k.seq = s /\ t \in k.todo,
               ~ \E c \in changes : c.seq = s
        PROVE  \E i \in Shown(t, s) : view[t][i].says = content[s]
    <3>1. Right(t, s)
      BY <1>1 DEF ViewInv, RightInv
    <3>2. Quiet(s) /\ Idle(t, s)
      BY <2>2 DEF Quiet, Tells, Idle, Brings
    <3>3. ~Waiting(t, s)
      BY <2>2 DEF Waiting
    <3>4. IsShown(t, s)
      BY <3>1, <3>2, <3>3 DEF Right
    <3> QED BY <3>4 DEF IsShown, Shown
  <2> QED BY <2>1, <2>2
<1>2. Init => ViewInv
  BY InitViewInv
<1>3. ViewInv /\ [Next]_vars => ViewInv'
  BY ViewStep
<1> QED BY <1>1, <1>2, <1>3, PTL DEF Spec
==============================================================================
