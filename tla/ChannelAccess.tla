---------------------------- MODULE ChannelAccess ----------------------------
(***************************************************************************)
(* Who hears ONE channel: its rows in D1 (the members and the type), the   *)
(* sockets its ChatRoom object has accepted, the requests that change the  *)
(* membership, and the kicks and notifications they send off at the end.   *)
(*                                                                         *)
(* A person views the channel in a tab of the web client, which gets a     *)
(* token for each connection; the token is checked against D1 when it is   *)
(* made and not when the socket is accepted.  Agents are reached through   *)
(* ONE bridge of their owner: it keeps a list of the agents it has in the  *)
(* channel, one socket for all of them, and timers that reopen it.         *)
(***************************************************************************)
EXTENDS Naturals, FiniteSets

CONSTANTS Person, Agent,
          Owner,        \* the person the agents belong to
          First,        \* who the channel starts with
          MaxRequests,  \* bound on the requests of people
          MaxMishaps    \* bound on requests that die, kicks and notifications
                        \* that fail, sockets that drop and views that reopen

ASSUME AccessAssumption ==
  /\ IsFiniteSet(Person) /\ IsFiniteSet(Agent) /\ Person \cap Agent = {}
  /\ Owner \in Person /\ First \subseteq Person \cup Agent
  /\ MaxRequests \in Nat /\ MaxMishaps \in Nat

Who == Person \cup Agent

VARIABLES
  private,   \* D1: the channel's type
  members,   \* D1: channel_members
  requests,  \* API requests under way
  asked,     \* requests so far
  kicks,     \* kicks on their way to the ChatRoom object
  notes,     \* member_add and member_remove on their way to the bridge
  link,      \* each tab: "idle", "upgrading" or "open"
  map,       \* bridge: channelToAgents
  sock,      \* bridge: channelSockets
  twins,     \* bridge: sockets that are no longer in channelSockets
  timers,    \* bridge: reconnect timers running
  boot,      \* bridge: a refresh under way: the agents D1 had
  mishaps,
  stray,     \* ghost: tabs that got or kept their socket in a named way
  strays,    \* ghost: whether the bridge did
  crossed    \* ghost: agents of whom the bridge may have heard out of order

apiVars    == <<private, members, requests, asked>>
sentVars   == <<kicks, notes>>
bridgeVars == <<map, sock, twins, timers, boot>>
ghosts     == <<stray, strays, crossed>>
vars == <<apiVars, sentVars, link, bridgeVars, mishaps, ghosts>>

None == [list |-> {}, clean |-> {}, read |-> FALSE]

Init ==
  /\ private \in BOOLEAN /\ members = First
  /\ requests = {} /\ asked = 0 /\ kicks = {} /\ notes = {}
  /\ link = [p \in Person |-> "idle"]
  /\ map = First \cap Agent
  /\ sock = IF First \cap Agent # {} THEN "opening" ELSE "none"
  /\ twins = 0 /\ timers = 0 /\ boot = None
  /\ mishaps = 0 /\ stray = {} /\ strays = FALSE /\ crossed = {}

\* policy.channels.canRead of a person, as D1 has it.
CanRead(p) ==
  p \in members \/ ~private \/ (p = Owner /\ members \cap Agent # {})

\* The D1 check of a bridge's socket.
HasAgentHere == members \cap Agent # {}

Mishap == mishaps < MaxMishaps /\ mishaps' = mishaps + 1

-----------------------------------------------------------------------------
(* Requests *)

Ask(r) ==
  /\ asked < MaxRequests /\ asked' = asked + 1
  /\ requests' = requests \cup {r}
  /\ UNCHANGED <<private, members, sentVars, link, bridgeVars, mishaps, ghosts>>

Goes(r, pc) == requests' = (requests \ {r}) \cup {[r EXCEPT !.pc = pc]}
Ends(r) == requests' = requests \ {r}

\* The bridge is still to hear of an earlier change to w.
Pending(w) == \/ \E n \in notes : n.who = w
              \/ \E r \in requests : r.op = "remove" /\ r.who = w /\ r.pc = "tell"

\* w joins or leaves while the bridge is about to hear, or reads, something else.
Crosses(w) ==
  /\ crossed' = IF w \in Agent /\ (boot.read \/ Pending(w)) THEN crossed \cup {w}
                ELSE crossed
  /\ boot' = [boot EXCEPT !.clean = @ \ {w}]

Request(op, w, pc) == [op |-> op, who |-> w, pc |-> pc, list |-> {}]

\* POST .../members: a member adds somebody who is not one.
Add(w) == w \notin members /\ Ask(Request("add", w, "insert"))

\* POST .../join: one looks at the type of the channel, then at the members.
Join(p) ==
  ~private /\ p \in Person \ members /\ Ask(Request("join", p, "insert"))

\* The row is inserted, or it is there by now and the request fails.
AddInsert(r) ==
  LET new == r.who \notin members
  IN /\ r.pc = "insert" /\ Ends(r)
     /\ members' = members \cup {r.who}
     /\ notes' = IF new /\ r.op = "add" /\ r.who \in Agent
                 THEN notes \cup {[t |-> "member_add", who |-> r.who]} ELSE notes
     /\ Crosses(r.who)
     /\ UNCHANGED <<private, asked, kicks, link, map, sock, twins, timers, mishaps,
                    stray, strays>>

\* DELETE .../members/:type/:id, and POST .../leave.
Remove(w) == w \in members /\ Ask(Request("remove", w, "delete"))

RemoveDelete(r) ==
  /\ r.pc = "delete" /\ Goes(r, "tell")
  /\ members' = members \ {r.who}
  /\ stray' = IF r.who \in Agent /\ members' \cap Agent = {} /\ link[Owner] = "open"
              THEN stray \cup {Owner} ELSE stray
  /\ Crosses(r.who)
  /\ UNCHANGED <<private, asked, sentVars, link, map, sock, twins, timers, mishaps,
                 strays>>

\* Whoever was removed is told, and kicked; nobody waits for either.
RemoveTell(r) ==
  /\ r.pc = "tell" /\ Ends(r)
  /\ kicks' = kicks \cup {[all |-> FALSE, ids |-> {r.who}]}
  /\ notes' = IF r.who \in Agent
              THEN notes \cup {[t |-> "member_remove", who |-> r.who]} ELSE notes
  /\ UNCHANGED <<private, members, asked, link, bridgeVars, mishaps, ghosts>>

\* PATCH .../visibility, to "private" or "public".
Convert(to) ==
  /\ private # (to = "private") /\ Ask(Request(to, Owner, "update"))

ConvertUpdate(r) ==
  /\ r.pc = "update" /\ private' = (r.op = "private")
  /\ IF private' THEN Goes(r, "list") ELSE Ends(r)
  /\ UNCHANGED <<members, asked, sentVars, link, bridgeVars, mishaps, ghosts>>

ConvertList(r) ==
  /\ r.pc = "list"
  /\ requests' = (requests \ {r}) \cup {[r EXCEPT !.pc = "kick", !.list = members]}
  /\ UNCHANGED <<private, members, asked, sentVars, link, bridgeVars, mishaps, ghosts>>

\* kickNonMembers.
ConvertKick(r) ==
  /\ r.pc = "kick" /\ Ends(r)
  /\ kicks' = kicks \cup {[all |-> TRUE, ids |-> r.list]}
  /\ UNCHANGED <<private, members, asked, notes, link, bridgeVars, mishaps, ghosts>>

\* Whether a kick hits the tab of p.
HitsTab(k, p) == IF k.all THEN p \notin k.ids ELSE p \in k.ids

\* Faulty variant of HitsBridge: only the owner of a socket is looked at.
HitsOwner(k) == IF k.all THEN Owner \notin k.ids ELSE Owner \in k.ids

\* Whether it hits the bridge, whose socket is its owner's and all its agents'.
HitsBridge(k) ==
  IF k.all THEN ({Owner} \cup Agent) \cap k.ids = {}
  ELSE ({Owner} \cup Agent) \cap k.ids # {}

\* Tabs and a bridge that are open though a kick for them is given up.
Spared(k) ==
  /\ stray' = stray \cup {p \in Person : HitsTab(k, p) /\ link[p] = "open"}
  /\ strays' = (strays \/ HitsBridge(k))

\* The worker, or a query of it, dies at an await.
Die(r) ==
  /\ Mishap /\ Ends(r)
  /\ IF r.pc = "tell" THEN Spared([all |-> FALSE, ids |-> {r.who}])
     ELSE IF r.pc \in {"list", "kick"} THEN Spared([all |-> TRUE, ids |-> {}])
     ELSE UNCHANGED <<stray, strays>>
  /\ crossed' = IF r.pc = "tell" THEN crossed \cup ({r.who} \cap Agent) ELSE crossed
  /\ UNCHANGED <<private, members, asked, sentVars, link, bridgeVars>>

-----------------------------------------------------------------------------
(* The ChatRoom object *)

\* handleKick: the sockets it hits are closed.  A tab tries again; the bridge
\* takes it that it is not wanted.
Kick(k) ==
  /\ k \in kicks /\ kicks' = kicks \ {k}
  /\ link' = [p \in Person |-> IF HitsTab(k, p) /\ link[p] = "open"
                               THEN "idle" ELSE link[p]]
  /\ IF HitsBridge(k)
     THEN /\ sock' = IF sock = "open" THEN "none" ELSE sock
          /\ twins' = 0 /\ strays' = FALSE
     ELSE UNCHANGED <<sock, twins, strays>>
  /\ stray' = {p \in stray : ~HitsTab(k, p)}
  /\ UNCHANGED <<apiVars, notes, map, timers, boot, mishaps, crossed>>

KickFails(k) ==
  /\ k \in kicks /\ Mishap /\ kicks' = kicks \ {k}
  /\ Spared(k)
  /\ UNCHANGED <<apiVars, notes, link, bridgeVars, crossed>>

-----------------------------------------------------------------------------
(* A tab *)

\* A token is minted for whoever may read; who may not tries again later.
Mint(p) ==
  /\ link[p] = "idle" /\ CanRead(p)
  /\ link' = [link EXCEPT ![p] = "upgrading"]
  /\ UNCHANGED <<apiVars, sentVars, bridgeVars, mishaps, ghosts>>

\* handleUpgrade verifies the token and nothing else.
Upgrade(p) ==
  /\ link[p] = "upgrading" /\ link' = [link EXCEPT ![p] = "open"]
  /\ stray' = IF CanRead(p) THEN stray ELSE stray \cup {p}
  /\ UNCHANGED <<apiVars, sentVars, bridgeVars, mishaps, strays, crossed>>

\* The view's callbacks change: it reopens its socket with the token it has.
Reopen(p) ==
  /\ link[p] = "open" /\ Mishap
  /\ link' = [link EXCEPT ![p] = "upgrading"] /\ stray' = stray \ {p}
  /\ UNCHANGED <<apiVars, sentVars, bridgeVars, strays, crossed>>

\* The socket drops, or the upgrade fails.
Drop(p) ==
  /\ link[p] \in {"open", "upgrading"} /\ Mishap
  /\ link' = [link EXCEPT ![p] = "idle"] /\ stray' = stray \ {p}
  /\ UNCHANGED <<apiVars, sentVars, bridgeVars, strays, crossed>>

-----------------------------------------------------------------------------
(* The bridge *)

\* openChannelWs: a socket that was in channelSockets lives on outside of it
\* (one that was still opening is taken to have been accepted).
Opens == /\ sock' = "opening"
         /\ twins' = IF sock \in {"open", "checked"} \/ (sock = "opening" /\ HasAgentHere)
                     THEN twins + 1 ELSE twins
         /\ strays' = (strays \/ (twins' > twins /\ ~HasAgentHere))

\* handleUpgrade of a bridge: D1 is asked, and then the socket is accepted.
BridgeChecked ==
  /\ sock = "opening"
  /\ IF HasAgentHere
     THEN sock' = "checked" /\ UNCHANGED timers
     ELSE /\ sock' = "none"
          /\ timers' = IF map # {} THEN timers + 1 ELSE timers
  /\ UNCHANGED <<apiVars, sentVars, link, map, twins, boot, mishaps, ghosts>>

BridgeAccepted ==
  /\ sock = "checked" /\ sock' = "open"
  /\ strays' = (strays \/ ~HasAgentHere)
  /\ UNCHANGED <<apiVars, sentVars, link, map, twins, timers, boot, mishaps, stray,
                 crossed>>

\* The socket drops and is reopened after 1.5 s.
BridgeDrop ==
  /\ sock # "none" /\ Mishap /\ sock' = "none"
  /\ timers' = IF map # {} THEN timers + 1 ELSE timers
  /\ strays' = (strays /\ twins > 0)
  /\ UNCHANGED <<apiVars, sentVars, link, map, twins, boot, stray, crossed>>

\* The timer opens a socket whatever happened meanwhile.
Timer ==
  /\ timers > 0 /\ timers' = timers - 1 /\ Opens
  /\ UNCHANGED <<apiVars, sentVars, link, map, boot, mishaps, stray, crossed>>

\* Whether an agent that is added needs a socket.
Reopens == sock = "none"

HearAdd(n) ==
  /\ n \in notes /\ n.t = "member_add" /\ notes' = notes \ {n}
  /\ map' = map \cup {n.who}
  /\ IF Reopens THEN Opens ELSE UNCHANGED <<sock, twins, strays>>
  /\ UNCHANGED <<apiVars, kicks, link, timers, boot, mishaps, stray, crossed>>

\* Faulty variant of Without: the channel is forgotten with the first agent.
Forgotten(a) == {}

\* removeAgentFromChannel.
Without(a) == map \ {a}

HearRemove(n) ==
  /\ n \in notes /\ n.t = "member_remove" /\ notes' = notes \ {n}
  /\ map' = Without(n.who)
  /\ sock' = IF map' = {} THEN "none" ELSE sock
  /\ strays' = (strays /\ (map' # {} \/ twins > 0))
  /\ UNCHANGED <<apiVars, kicks, link, twins, timers, boot, mishaps, stray, crossed>>

NoteFails(n) ==
  /\ n \in notes /\ Mishap /\ notes' = notes \ {n} /\ crossed' = crossed \cup {n.who}
  /\ UNCHANGED <<apiVars, kicks, link, bridgeVars, stray, strays>>

\* Faulty variant of Listed: whoever is in the channel.
Anyone == members

\* The agents of the bridge that the answer to a refresh lists.
Listed == members \cap Agent

\* Every six hours the bridge asks for its agents, and starts afresh.
RefreshAsk ==
  /\ ~boot.read
  /\ boot' = [list |-> Listed, read |-> TRUE,
              clean |-> {a \in Agent : ~Pending(a)}]
  /\ UNCHANGED <<apiVars, sentVars, link, map, sock, twins, timers, mishaps, ghosts>>

\* Faulty variant of Afresh: only a socket that is there is opened again.
OnlyThere(list) == IF sock = "none" THEN "none" ELSE "opening"

\* What becomes of the socket.
Afresh(list) == IF list # {} THEN "opening" ELSE "none"

RefreshDo ==
  /\ boot.read /\ boot' = None
  /\ map' = boot.list /\ sock' = Afresh(boot.list)
  /\ crossed' = crossed \ boot.clean /\ strays' = (strays /\ twins > 0)
  /\ UNCHANGED <<apiVars, sentVars, link, twins, timers, mishaps, stray>>

Step(r) ==
  AddInsert(r) \/ RemoveDelete(r) \/ RemoveTell(r) \/ ConvertUpdate(r)
  \/ ConvertList(r) \/ ConvertKick(r)

Bridge == BridgeChecked \/ BridgeAccepted \/ Timer

Next ==
  \/ \E w \in Who : Add(w) \/ Remove(w)
  \/ \E p \in Person : Join(p) \/ Mint(p) \/ Upgrade(p) \/ Reopen(p) \/ Drop(p)
  \/ Convert("private") \/ Convert("public")
  \/ \E r \in requests : Step(r) \/ Die(r)
  \/ \E k \in kicks : Kick(k) \/ KickFails(k)
  \/ Bridge \/ BridgeDrop \/ RefreshAsk \/ RefreshDo
  \/ \E n \in notes : HearAdd(n) \/ HearRemove(n) \/ NoteFails(n)

Spec == Init /\ [][Next]_vars

\* Requests, kicks and notifications that are not lost come to an end; a tab
\* and the bridge try again after a delay, and six hours pass.
FairSpec ==
  /\ Spec
  /\ WF_vars(\E r \in requests : Step(r)) /\ WF_vars(\E k \in kicks : Kick(k))
  /\ WF_vars(\E n \in notes : HearAdd(n) \/ HearRemove(n))
  /\ \A p \in Person : SF_vars(Mint(p)) /\ WF_vars(Upgrade(p))
  /\ WF_vars(BridgeChecked) /\ SF_vars(BridgeAccepted) /\ WF_vars(Timer)
  /\ WF_vars(RefreshAsk) /\ WF_vars(RefreshDo)

-----------------------------------------------------------------------------
(* Properties *)

\* Type invariant: among others, the bridge lists none but its own agents.
TypeOK ==
  /\ private \in BOOLEAN /\ members \subseteq Who
  /\ \A r \in requests : r.who \in Who
  /\ \A k \in kicks : k.ids \subseteq Who
  /\ \A n \in notes : n.who \in Agent
  /\ link \in [Person -> {"idle", "upgrading", "open"}]
  /\ map \subseteq Agent /\ sock \in {"none", "opening", "checked", "open"}
  /\ twins \in Nat /\ timers \in Nat
  /\ boot.list \subseteq Agent /\ stray \subseteq Person /\ crossed \subseteq Agent

\* A removal, a departure or a conversion that will still send off its kick.
WillKick(who, r) ==
  \/ r.pc = "tell" /\ r.who \in who
  \/ r.pc = "list" \/ (r.pc = "kick" /\ who \cap r.list = {})

\* Who may not read a channel (any more) holds no socket of it, but for the
\* time a kick takes and three cases: the kick or the request was lost, the
\* upgrade used a token minted before, or the last agent of an owner who only
\* read through it was removed (kickFromChannel, kickNonMembers).
LurkersAreNamed ==
  /\ \A p \in Person \ stray :
       link[p] = "open" /\ ~CanRead(p) =>
         \/ \E k \in kicks : HitsTab(k, p)
         \/ \E r \in requests : WillKick({p}, r)
  /\ (sock = "open" \/ twins > 0) /\ ~HasAgentHere /\ ~strays =>
       \/ \E k \in kicks : HitsBridge(k)
       \/ \E r \in requests : WillKick({Owner} \cup Agent, r)

\* Once it has heard of every change the bridge knows which agents it has in
\* the channel, unless two changes to one agent crossed, a change fell into a
\* refresh or a notification was lost; a refresh puts that right.
BridgeKnowsItsAgents ==
  ~boot.read =>
    \A a \in Agent \ crossed : ~Pending(a) => (a \in map <=> a \in members)

\* Who may read for good is connected in the end, also when a late kick or one
\* for another agent of the bridge closed the socket: tabs retry, and a bridge
\* that a kick has shut out comes back with the next refresh.
EveryoneHears ==
  /\ \A p \in Person : <>[]CanRead(p) => <>[](link[p] = "open")
  /\ <>[]HasAgentHere => []<>(sock = "open")
==============================================================================
