----------------------------- MODULE ChannelView -----------------------------
(***************************************************************************)
(* What the tabs of ONE person show of one channel, and how far the person *)
(* has read it.                                                            *)
(*                                                                         *)
(* A tab loads the history from D1 and hears the live events of its socket *)
(* from the ChatRoom object at the same time; a message gets to D1 only    *)
(* with the flush of the object's buffer.  A broadcast goes from socket to *)
(* socket and may pause at each bridge's, so that two broadcasts overtake  *)
(* each other.  What a tab in the foreground shows is marked in D1; the    *)
(* gateway of the person tells all of the tabs.  Tabs share nothing else,  *)
(* so other devices of the person are no more than requests that mark.     *)
(***************************************************************************)
EXTENDS Naturals, Sequences, FiniteSets

CONSTANTS Tab,
          MaxSeq,      \* bound on the messages written
          MaxChanges,  \* bound on the edits and deletions asked for
          MaxReads,    \* bound on the read requests
          MaxMishaps   \* bound on sockets lost, loads and notifications that
                       \* fail, channels left and opened again, and read
                       \* requests that die

ASSUME ViewAssumption ==
  /\ IsFiniteSet(Tab) /\ MaxSeq \in Nat /\ MaxChanges \in Nat
  /\ MaxReads \in Nat /\ MaxMishaps \in Nat

VARIABLES
  sent,     \* ChatRoom: the last sequence number
  flushed,  \* D1: messages 1..flushed are stored
  content,  \* D1 (and the buffer): what each message says
  changes,  \* PATCH and DELETE requests under way
  asked,    \* edits and deletions so far
  casts,    \* broadcasts under way, each with the sockets still to come
  link,     \* each tab: whether its socket of the channel is open
  wire,     \* each tab: events on their way
  view,     \* each tab: the messages it shows, in order
  load,     \* each tab: "asked", "read" (with the answer), "done" or "failed"
  answer,   \* each tab: the history D1 gave it
  marker,   \* D1: lastReadSeq
  reads,    \* POST .../read requests under way
  posted,   \* read requests so far
  notes,    \* read notifications on their way through the gateway
  lastRead, \* each tab: how far it believes the person has read
  mishaps,
  gaps,     \* ghost: messages of which a tab missed something
  unsaid    \* ghost: the highest marker the tabs were not told

roomVars  == <<sent, flushed, content, changes, asked>>
tabVars   == <<view, load, answer>>
readVars  == <<marker, reads, posted, notes, lastRead, unsaid>>
viewVars  == <<roomVars, casts, link, wire, tabVars, gaps>>
vars == <<roomVars, casts, link, wire, tabVars, readVars, mishaps, gaps>>

Larger(x, y) == IF x > y THEN x ELSE y
Smaller(x, y) == IF x < y THEN x ELSE y

Init ==
  /\ sent = 0 /\ flushed = 0 /\ content = [s \in 1..MaxSeq |-> "sent"]
  /\ changes = {} /\ asked = 0 /\ casts = {}
  /\ link = [t \in Tab |-> FALSE] /\ wire = [t \in Tab |-> <<>>]
  /\ view = [t \in Tab |-> <<>>] /\ load = [t \in Tab |-> "asked"]
  /\ answer = [t \in Tab |-> <<>>]
  /\ marker = 0 /\ reads = {} /\ posted = 0 /\ notes = {}
  /\ lastRead = [t \in Tab |-> 0] /\ mishaps = 0 /\ gaps = [t \in Tab |-> {}] /\ unsaid = 0

Mishap == mishaps < MaxMishaps /\ mishaps' = mishaps + 1

-----------------------------------------------------------------------------
(* The ChatRoom object and D1 *)

\* Broadcasts that have nobody left to go to are over.
Over(ks) == {k \in ks : k.todo # {}}

\* A broadcast looks up the sockets there are, once.
Cast(seq, says, new) ==
  casts' = casts \cup Over({[seq |-> seq, says |-> says, new |-> new,
                             todo |-> {t \in Tab : link[t]}]})

\* Broadcasts of s that some tab has yet to get.
Underway(s) == {k \in casts : k.seq = s}

\* Tabs whose socket is not open miss the event; two events of one message
\* that overtake each other leave every tab with either.
Unheard(s) ==
  gaps' = [t \in Tab |-> IF ~link[t] \/ Underway(s) # {} THEN gaps[t] \cup {s}
                         ELSE gaps[t]]

\* A message gets its number and goes to the buffer, and the broadcast starts.
Send ==
  /\ sent < MaxSeq /\ sent' = sent + 1
  /\ Cast(sent', "sent", TRUE) /\ Unheard(sent')
  /\ UNCHANGED <<flushed, content, changes, asked, link, wire, tabVars, readVars,
                 mishaps>>

Flush(n) ==
  /\ n \in (flushed + 1)..sent /\ flushed' = n
  /\ UNCHANGED <<sent, content, changes, asked, casts, link, wire, tabVars, readVars,
                 mishaps, gaps>>

\* PATCH and DELETE .../messages/:id: the row is read, and a deleted message
\* is not edited; a second deletion is let through.
Change(s, to) ==
  /\ asked < MaxChanges /\ s <= flushed
  /\ to = "edited" => content[s] # "deleted"
  /\ asked' = asked + 1
  /\ changes' = changes \cup {[seq |-> s, to |-> to, pc |-> "update"]}
  /\ UNCHANGED <<sent, flushed, content, casts, link, wire, tabVars, readVars,
                 mishaps, gaps>>

\* The content is written, over whatever it is by now.
ChangeUpdate(c) ==
  /\ c.pc = "update"
  /\ changes' = (changes \ {c}) \cup {[c EXCEPT !.pc = "tell"]}
  /\ content' = [content EXCEPT ![c.seq] = c.to]
  /\ gaps' = IF \E d \in changes \ {c} : d.seq = c.seq
             THEN [t \in Tab |-> gaps[t] \cup {c.seq}] ELSE gaps
  /\ UNCHANGED <<sent, flushed, asked, casts, link, wire, tabVars, readVars, mishaps>>

\* broadcastMessageUpdate and handleNotify.
ChangeTell(c) ==
  /\ c.pc = "tell" /\ changes' = changes \ {c}
  /\ Cast(c.seq, c.to, FALSE) /\ Unheard(c.seq)
  /\ UNCHANGED <<sent, flushed, content, asked, link, wire, tabVars, readVars,
                 mishaps>>

\* The call of the object fails: that is logged, the request answers ok, and
\* no tab hears of the change.
ChangeUntold(c) ==
  /\ c.pc = "tell" /\ Mishap /\ changes' = changes \ {c}
  /\ gaps' = [t \in Tab |-> gaps[t] \cup {c.seq}]
  /\ UNCHANGED <<sent, flushed, content, asked, casts, link, wire, tabVars, readVars>>

\* The broadcast gets to the next socket.  Between two of them it may wait for
\* the revocation lookup of a bridge.
Deliver(k, t) ==
  /\ t \in k.todo
  /\ casts' = (casts \ {k}) \cup Over({[k EXCEPT !.todo = @ \ {t}]})
  /\ wire' = [wire EXCEPT ![t] =
                Append(@, [seq |-> k.seq, says |-> k.says, new |-> k.new])]
  /\ UNCHANGED <<roomVars, link, tabVars, readVars, mishaps, gaps>>

-----------------------------------------------------------------------------
(* The read marker *)

\* markReadIfVisible, in the tab: it marks at once.  In the foreground it also
\* sends a request, which is one of those of ReadClamp.
MarkRead(t, seq) ==
  /\ lastRead' = [lastRead EXCEPT ![t] = Larger(@, seq)]
  /\ UNCHANGED <<marker, reads, posted, notes, unsaid>>

\* POST .../read, by any tab or device that has shown the message: no further
\* than what D1 has.
ReadClamp(seq) ==
  /\ posted < MaxReads /\ posted' = posted + 1 /\ seq <= sent
  /\ reads' = reads \cup {[seq |-> Smaller(seq, flushed), pc |-> "update"]}
  /\ UNCHANGED <<viewVars, marker, notes, lastRead, unsaid, mishaps>>

\* Faulty variant of Marked: the request overwrites the marker.
Overwritten(seq) == seq

\* The UPDATE takes the maximum.
Marked(seq) == Larger(marker, seq)

ReadUpdate(r) ==
  /\ r.pc = "update" /\ marker' = Marked(r.seq)
  /\ reads' = (reads \ {r}) \cup {[r EXCEPT !.pc = "back"]}
  /\ UNCHANGED <<viewVars, posted, notes, lastRead, unsaid, mishaps>>

\* The marker is read back, and that is what the tabs are told.
ReadBack(r) ==
  /\ r.pc = "back" /\ reads' = reads \ {r} /\ notes' = notes \cup {marker}
  /\ UNCHANGED <<viewVars, posted, marker, lastRead, unsaid, mishaps>>

\* The request dies, or is never sent.
ReadDies(r) ==
  /\ Mishap /\ reads' = reads \ {r}
  /\ unsaid' = IF r.pc = "back" THEN Larger(unsaid, marker) ELSE unsaid
  /\ UNCHANGED <<viewVars, posted, marker, notes, lastRead>>

\* The gateway's read event, at every tab.
Note(n) ==
  /\ notes' = notes \ {n}
  /\ lastRead' = [t \in Tab |-> Larger(lastRead[t], n)]
  /\ UNCHANGED <<viewVars, posted, marker, reads, unsaid, mishaps>>

\* The notification fails, or a tab's gateway socket is not there.
NoteFails(n) ==
  /\ Mishap /\ notes' = notes \ {n} /\ unsaid' = Larger(unsaid, n)
  /\ UNCHANGED <<viewVars, posted, marker, reads, lastRead>>

-----------------------------------------------------------------------------
(* A tab *)

Open(t) ==
  /\ ~link[t] /\ link' = [link EXCEPT ![t] = TRUE]
  /\ UNCHANGED <<roomVars, casts, wire, tabVars, readVars, mishaps, gaps>>

\* The socket is gone, with what was on its way to it.
Cut(t) ==
  /\ link' = [link EXCEPT ![t] = FALSE] /\ wire' = [wire EXCEPT ![t] = <<>>]
  /\ casts' = Over({[k EXCEPT !.todo = @ \ {t}] : k \in casts})

Lost(t) == {wire[t][i].seq : i \in DOMAIN wire[t]}
           \cup {k.seq : k \in {c \in casts : t \in c.todo}}

\* It is opened again, and nothing is fetched that was missed.
Drop(t) ==
  /\ link[t] /\ Mishap /\ Cut(t)
  /\ gaps' = [gaps EXCEPT ![t] = @ \cup Lost(t)]
  /\ UNCHANGED <<roomVars, tabVars, readVars>>

\* The person goes to another channel and back: everything starts anew.
Revisit(t) ==
  /\ Mishap /\ Cut(t)
  /\ view' = [view EXCEPT ![t] = <<>>] /\ load' = [load EXCEPT ![t] = "asked"]
  /\ answer' = [answer EXCEPT ![t] = <<>>]
  /\ gaps' = [gaps EXCEPT ![t] = 1..sent]
  /\ UNCHANGED <<roomVars, readVars>>

\* GET .../messages, from D1.
Fetch(t) ==
  /\ load[t] = "asked" /\ load' = [load EXCEPT ![t] = "read"]
  /\ answer' = [answer EXCEPT ![t] =
                  [s \in 1..flushed |-> [seq |-> s, says |-> content[s]]]]
  /\ UNCHANGED <<roomVars, casts, link, wire, view, readVars, mishaps, gaps>>

\* What the tab shows that the answer lacks, or says otherwise.
Replaced(t) ==
  {view[t][i].seq : i \in {j \in DOMAIN view[t] :
                             \A a \in DOMAIN answer[t] : answer[t][a] # view[t][j]}}

\* What the answer has as D1 has it, with nothing older still on its way.
Settled(t) ==
  {s \in DOMAIN answer[t] :
     /\ answer[t][s].says = content[s] /\ Underway(s) = {}
     /\ s \notin Lost(t) /\ \A c \in changes : c.seq # s}

\* All four answers are there: the history REPLACES what is shown.
Loaded(t) ==
  /\ load[t] = "read" /\ load' = [load EXCEPT ![t] = "done"]
  /\ view' = [view EXCEPT ![t] = answer[t]] /\ answer' = [answer EXCEPT ![t] = <<>>]
  /\ gaps' = [gaps EXCEPT ![t] = (@ \cup Replaced(t)) \ Settled(t)]
  /\ MarkRead(t, Len(answer[t]))
  /\ UNCHANGED <<roomVars, casts, link, wire, mishaps>>

LoadFails(t) ==
  /\ load[t] \in {"asked", "read"} /\ Mishap /\ load' = [load EXCEPT ![t] = "failed"]
  /\ answer' = [answer EXCEPT ![t] = <<>>]
  /\ UNCHANGED <<roomVars, casts, link, wire, view, readVars, gaps>>

Shows(t, s) == \E i \in DOMAIN view[t] : view[t][i].seq = s

\* The messages of a tab with one of them put right.
Merged(t, e) ==
  [i \in DOMAIN view[t] |-> IF view[t][i].seq = e.seq
                            THEN [seq |-> e.seq, says |-> e.says] ELSE view[t][i]]

\* Faulty variant of WithNew: a message is not looked for before it is added.
Appended(t, e) == Append(view[t], [seq |-> e.seq, says |-> e.says])

\* handleNew: a message that is shown is merged, another comes at the end.
WithNew(t, e) ==
  IF Shows(t, e.seq) THEN Merged(t, e)
  ELSE Append(view[t], [seq |-> e.seq, says |-> e.says])

Hear(t) ==
  LET e == Head(wire[t])
  IN /\ wire[t] # <<>> /\ wire' = [wire EXCEPT ![t] = Tail(@)]
     /\ IF e.new
        THEN /\ view' = [view EXCEPT ![t] = WithNew(t, e)] /\ MarkRead(t, e.seq)
             /\ UNCHANGED gaps
        ELSE \* handleUpdate
             /\ view' = [view EXCEPT ![t] = Merged(t, e)] /\ UNCHANGED readVars
             /\ gaps' = IF Shows(t, e.seq) THEN gaps
                        ELSE [gaps EXCEPT ![t] = @ \cup {e.seq}]
     /\ UNCHANGED <<roomVars, casts, link, load, answer, mishaps>>

\* The tab comes to the foreground: its last message is marked.
Show(t) ==
  /\ view[t] # <<>> /\ MarkRead(t, view[t][Len(view[t])].seq)
  /\ UNCHANGED <<roomVars, casts, link, wire, tabVars, mishaps, gaps>>

Next ==
  \/ Send \/ \E n \in 1..MaxSeq : Flush(n) \/ ReadClamp(n)
  \/ \E s \in 1..MaxSeq, to \in {"edited", "deleted"} : Change(s, to)
  \/ \E c \in changes : ChangeUpdate(c) \/ ChangeTell(c) \/ ChangeUntold(c)
  \/ \E k \in casts, t \in Tab : Deliver(k, t)
  \/ \E r \in reads : ReadUpdate(r) \/ ReadBack(r) \/ ReadDies(r)
  \/ \E n \in notes : Note(n) \/ NoteFails(n)
  \/ \E t \in Tab : \/ Open(t) \/ Drop(t) \/ Revisit(t) \/ Fetch(t) \/ Loaded(t)
                    \/ LoadFails(t) \/ Hear(t) \/ Show(t)

Spec == Init /\ [][Next]_vars

-----------------------------------------------------------------------------
(* Properties *)

Shown(t, s) == {i \in DOMAIN view[t] : view[t][i].seq = s}

\* No tab ever shows a message twice, whichever of history and live event came
\* first; and once it has loaded and heard all, it shows each message as D1 has
\* it, unless it missed something of it in a named way: its socket was not
\* open, the answer of D1 replaced what it had heard, an update came before the
\* message was shown, two changes of the message overtook each other, or the
\* object could not be told of a change (broadcastMessageUpdate swallows that).
ViewsAreFaithful ==
  \A t \in Tab :
    /\ \A s \in 1..MaxSeq : Cardinality(Shown(t, s)) <= 1
    /\ load[t] = "done" /\ wire[t] = <<>> =>
         \A s \in 1..sent \ gaps[t] :
           \/ \E k \in casts : k.seq = s /\ t \in k.todo
           \/ \E c \in changes : c.seq = s
           \/ \E i \in Shown(t, s) : view[t][i].says = content[s]

\* The read marker never moves back however the requests of several tabs mix,
\* never passes what D1 has, and once all is delivered no tab is behind it but
\* by a notification that was lost (channels.ts, POST .../read: "multi-tab
\* concurrent writes can't roll the marker backwards").
MarkerStep ==
  /\ marker <= marker' /\ marker' <= flushed'
  /\ reads' = {} /\ notes' = {} =>
       \A t \in Tab : marker' <= Larger(lastRead'[t], unsaid')

MarkerOnlyAdvances == [][MarkerStep]_vars
==============================================================================
