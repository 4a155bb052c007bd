----------------------------- MODULE BridgeLeader -----------------------------
(***************************************************************************)
(* Which of the bridges a user runs answers the messages of a workspace.   *)
(*                                                                         *)
(* Every bridge keeps a socket to the UserGateway object of the user.  The *)
(* gateway elects the newest connection with a recent heartbeat, in one    *)
(* pass over the bridge sockets that awaits a revocation lookup for each,  *)
(* and then tells every socket it saw whether it leads.  Nothing keeps two *)
(* passes apart.  A bridge gives its agents the messages of its channel    *)
(* sockets while it believes it leads, and holds them until it knows.      *)
(*                                                                         *)
(* A bridge may have several gateway sockets: the reconnect timer opens    *)
(* one whatever happened meanwhile.  It beats and reads on all of them,    *)
(* but heeds the close of the newest only (gatewaySocket).                 *)
(*                                                                         *)
(* A connection is its index in `conn', which stands for connectedAt.  A   *)
(* bridge has one channel socket here, which stays up: ChannelAccess has   *)
(* its reconnects, and the twins over which a message comes twice.         *)
(***************************************************************************)
EXTENDS Naturals, Sequences

CONSTANTS Bridge, Message,
          Troubled,   \* bridges that mishaps befall
          Pending,    \* limit of pendingDispatches (100)
          MaxEvents,  \* bound on messages written and mishaps: laptops that fall
                      \* asleep, sockets lost or not opened, tokens refreshed,
                      \* keys revoked, look-ups that fail
          MaxConns,   \* bound on connections made
          MaxPasses,  \* bound on passes under way at once
          MaxBox      \* bound on the leader_status messages on their way to a
                      \* laptop that is awake, per socket

ASSUME LeaderAssumption ==
  /\ Troubled \subseteq Bridge
  /\ {Pending, MaxEvents, MaxConns, MaxPasses, MaxBox} \subseteq Nat

VARIABLES
  conn,       \* gateway: every connection made: its bridge, and if it is open
  fresh,      \* gateway: connections with a heartbeat in the last 45 s
  closing,    \* gateway: connections it closed whose close event is to come
  passes,     \* gateway: elections under way, oldest first
  box,        \* per connection: leader_status messages on their way
  revoked,    \* bridges whose key is revoked
  up,         \* connections that are open at the bridge
  leaving,    \* connections that the bridge closed, and still reads until the
              \* close event
  gw,         \* each bridge's gatewaySocket; 0: none, or one being opened
  opening,    \* bridges whose gatewaySocket is being opened
  timer,      \* per bridge: reconnect timers that are set
  asleep,     \* bridges whose laptop sleeps
  events,     \* messages written and mishaps so far
  heard,      \* per bridge: the connection on which it read the status that it
              \* believes; 0: it was not told (leaderKnown is FALSE)
  leader,     \* bridges that believe they lead (isLeader)
  inbox,      \* per bridge: messages on their way over its channel socket
  pending,    \* pendingDispatches of each bridge
  sent,       \* messages people wrote
  given,      \* per bridge: the messages it gave its agents, in order
  decided,    \* ghost: nothing an election looks at has changed since the last
              \* election to finish began
  doubt       \* ghost: messages under way while leadership was in doubt

gatewayVars == <<conn, fresh, closing, passes, box, revoked, decided>>
socketVars  == <<up, leaving, gw, opening, timer>>
laptopVars  == <<asleep, events>>
beliefVars  == <<heard, leader>>
messageVars == <<inbox, pending, sent, given, doubt>>
leaderVars == <<gatewayVars, socketVars, laptopVars, beliefVars, messageVars>>

Open == {c \in DOMAIN conn : conn[c].open}

Known == {b \in Bridge : heard[b] # 0}

\* A pass looks at the sockets the gateway has when it starts.
NewPass(cs) ==
  [todo |-> {c \in DOMAIN cs : cs[c].open}, seen |-> {}, live |-> {}, late |-> FALSE]

\* What the elections under way looked at has changed.
Late == [k \in DOMAIN passes |-> [passes[k] EXCEPT !.late = TRUE]]

\* An election starts among cs, which may just have changed.
Elect(cs, changed) ==
  /\ passes' = LET others == IF changed THEN Late ELSE passes
               IN IF NewPass(cs).todo = {} THEN others ELSE Append(others, NewPass(cs))
  /\ decided' = (decided /\ ~changed)

Room == Len(passes) < MaxPasses

Event == events < MaxEvents /\ events' = events + 1

Mishap(b) == b \in Troubled /\ Event

\* What needs no mishap if it is due.
Unless(due, b) == IF due THEN UNCHANGED events ELSE Mishap(b)

\* isBridgeSessionRevoked: a look-up that fails lets a revoked key pass.
LookedUp(b, gone) == IF b \in revoked THEN Unless(gone, b) ELSE ~gone /\ UNCHANGED events

In(q, m) == \E i \in DOMAIN q : q[i] = m

\* Messages that are somewhere between their author and an agent.
UnderWay == {m \in sent : \E b \in Bridge : In(inbox[b], m) \/ In(pending[b], m)}

\* Two bridges lead, or all observe.
Split(told, leading) ==
  (\E x, y \in leading : x # y) \/ (told = Bridge /\ leading = {})

LeaderInit ==
  /\ conn = <<>> /\ fresh = {} /\ passes = <<>> /\ box = <<>> /\ revoked = {}
  /\ closing = {} /\ up = {} /\ leaving = {}
  /\ gw = [b \in Bridge |-> 0] /\ opening = Bridge /\ timer = [b \in Bridge |-> 0]
  /\ asleep = {} /\ events = 0
  /\ heard = [b \in Bridge |-> 0] /\ leader = {}
  /\ inbox = [b \in Bridge |-> <<>>] /\ pending = [b \in Bridge |-> <<>>]
  /\ sent = {} /\ given = [b \in Bridge |-> <<>>]
  /\ decided = TRUE /\ doubt = {}

-----------------------------------------------------------------------------
(* Connections *)

\* The gateway accepts a socket of the bridge: the newest connection is at once
\* part of an election.  A revoked key gets in only if the look-up fails.
Connect(b) ==
  LET cs == Append(conn, [bridge |-> b, open |-> TRUE])
  IN /\ b \in opening \ asleep /\ Len(conn) < MaxConns /\ Room /\ LookedUp(b, FALSE)
     /\ conn' = cs /\ fresh' = fresh \cup {Len(cs)} /\ box' = Append(box, <<>>)
     /\ up' = up \cup {Len(cs)} /\ gw' = [gw EXCEPT ![b] = Len(cs)]
     /\ opening' = opening \ {b}
     /\ Elect(cs, TRUE)
     /\ UNCHANGED <<closing, revoked, leaving, timer, asleep, beliefVars, messageVars>>

\* The close listener of gatewaySocket: the bridge forgets what it was told,
\* and what it held back.  A bridge that knew changes its mind.
Forget(b) ==
  /\ heard' = [heard EXCEPT ![b] = 0] /\ leader' = leader \ {b}
  /\ pending' = [pending EXCEPT ![b] = <<>>]
  /\ timer' = [timer EXCEPT ![b] = @ + 1]
  /\ doubt' = doubt \cup (IF b \in Known THEN UnderWay
                          ELSE {m \in sent : In(pending[b], m)})
  /\ UNCHANGED <<inbox, sent, given>>

\* The socket cannot be opened, or the key is revoked.
Refused(b) ==
  /\ b \in opening \ asleep /\ Unless(b \in revoked, b)
  /\ opening' = opening \ {b} /\ Forget(b)
  /\ UNCHANGED <<gatewayVars, up, leaving, gw, asleep>>

\* 1.5 s after a close: a new gatewaySocket, whatever the bridge has by now.
\* (The one it opens is answered before the timer opens another.)
Fire(b) ==
  /\ timer[b] > 0 /\ b \notin asleep \cup opening
  /\ timer' = [timer EXCEPT ![b] = @ - 1]
  /\ opening' = opening \cup {b} /\ gw' = [gw EXCEPT ![b] = 0]
  /\ UNCHANGED <<gatewayVars, up, leaving, laptopVars, beliefVars, messageVars>>

\* doRefreshToken: gatewaySocket is closed and another opened, with what the
\* bridge believes; what is on its way over its channel socket may be lost.
Refresh(b) ==
  /\ b \notin asleep \cup revoked /\ Mishap(b)
  /\ up' = up \ {gw[b]}
  /\ leaving' = IF gw[b] = 0 THEN leaving ELSE leaving \cup {gw[b]}
  /\ opening' = opening \cup {b} /\ gw' = [gw EXCEPT ![b] = 0]
  /\ inbox' \in {inbox, [inbox EXCEPT ![b] = <<>>]}
  /\ doubt' = doubt \cup {m \in sent : In(inbox[b], m)}
  /\ UNCHANGED <<gatewayVars, timer, asleep, beliefVars, pending, sent, given>>

\* The close event of a socket of the bridge, once the gateway has closed it or
\* when the network fails; only that of gatewaySocket matters.
SocketCloses(c) ==
  LET b == conn[c].bridge
  IN /\ c \in up \cup leaving /\ b \notin asleep
     /\ Unless(~conn[c].open, b)
     /\ up' = up \ {c} /\ leaving' = leaving \ {c}
     /\ box' = [box EXCEPT ![c] = <<>>]
     /\ IF gw[b] = c
        THEN gw' = [gw EXCEPT ![b] = 0] /\ Forget(b)
        ELSE UNCHANGED <<gw, timer, beliefVars, messageVars>>
     /\ UNCHANGED <<conn, fresh, closing, passes, revoked, decided, opening, asleep>>

\* webSocketClose of a connection its bridge has left, or that was revoked.
GatewayCloses(c) ==
  /\ c \in closing \cup (Open \ up) /\ Room
  /\ closing' = closing \ {c}
  /\ conn' = [conn EXCEPT ![c].open = FALSE]
  /\ Elect(conn', TRUE)
  /\ UNCHANGED <<fresh, box, revoked, socketVars, laptopVars, beliefVars, messageVars>>

\* The heartbeat of every 15 s on each socket: the connection is live, and
\* there is an election.  A revoked one is closed, unless the look-up fails.
Beat(c) ==
  LET b == conn[c].bridge
  IN /\ c \in up \cap Open /\ b \notin asleep /\ Room
     /\ fresh' = fresh \cup {c}
     /\ \E gone \in BOOLEAN :
          /\ LookedUp(b, gone)
          /\ IF gone THEN /\ conn' = [conn EXCEPT ![c].open = FALSE]
                          /\ closing' = closing \cup {c}
                     ELSE UNCHANGED <<conn, closing>>
          /\ Elect(conn', gone \/ c \notin fresh)
     /\ UNCHANGED <<box, revoked, socketVars, asleep, beliefVars, messageVars>>

\* 45 s without a heartbeat.
Stale(c) ==
  /\ c \in fresh \cap Open /\ (c \notin up \/ conn[c].bridge \in asleep)
  /\ fresh' = fresh \ {c} /\ passes' = Late /\ decided' = FALSE
  /\ UNCHANGED <<conn, closing, box, revoked, socketVars, laptopVars, beliefVars,
                 messageVars>>

Nap(b) ==
  /\ b \notin asleep /\ Mishap(b)
  /\ asleep' = asleep \cup {b}
  /\ UNCHANGED <<gatewayVars, socketVars, beliefVars, messageVars>>

Wake(b) ==
  /\ b \in asleep /\ asleep' = asleep \ {b}
  /\ UNCHANGED <<gatewayVars, socketVars, events, beliefVars, messageVars>>

\* The key is revoked in KV.
Revoke(b) ==
  /\ b \notin revoked /\ revoked' = revoked \cup {b} /\ Mishap(b)
  /\ passes' = Late /\ decided' = FALSE
  /\ UNCHANGED <<conn, fresh, closing, box, socketVars, asleep, beliefVars, messageVars>>

-----------------------------------------------------------------------------
(* Elections *)

\* Faulty variant of Newest: half-open sockets are elected too.
NewestSeen(p) == {c \in p.seen : \A d \in p.seen : d <= c}

\* The newest of the live connections a pass has seen.
Newest(p) == {c \in p.live : \A d \in p.live : d <= c}

\* A status joins those on their way.  A repeated one is not queued, which
\* bounds what waits for a laptop that sleeps.
Posted(q, leads) ==
  IF q # <<>> /\ q[Len(q)] = leads THEN q ELSE Append(q, leads)

\* Connections over which the bridge gets what the gateway sends.
Reading == (up \cup leaving) \cap Open

\* The end of a pass: every socket it saw is told, all at once.
Tell(p) ==
  /\ \A c \in Reading : conn[c].bridge \in asleep \/ Len(box[c]) < MaxBox
  /\ box' = [c \in DOMAIN box |->
               IF c \in p.seen \cap Reading
               THEN Posted(box[c], c \in Newest(p)) ELSE box[c]]

\* The next socket of a pass, oldest first: its revocation is looked up, then
\* whether its last heartbeat is recent.  A revoked one is closed.  With the
\* last socket the pass ends.
Visit(k, c) ==
  /\ c \in passes[k].todo /\ \A d \in passes[k].todo : c <= d
  /\ \E gone \in BOOLEAN :
       LET closes == gone /\ conn[c].open
           others == IF closes THEN Late ELSE passes
           p == [todo |-> passes[k].todo \ {c},
                 seen |-> IF gone THEN passes[k].seen ELSE passes[k].seen \cup {c},
                 live |-> IF gone \/ c \notin fresh THEN passes[k].live
                          ELSE passes[k].live \cup {c},
                 late |-> passes[k].late \/ closes]
       IN /\ LookedUp(conn[c].bridge, gone)
          /\ conn' = IF closes THEN [conn EXCEPT ![c].open = FALSE] ELSE conn
          /\ closing' = IF closes THEN closing \cup {c} ELSE closing
          /\ \/ /\ p.todo # {} /\ UNCHANGED box
                /\ passes' = [others EXCEPT ![k] = p] /\ decided' = (decided /\ ~closes)
             \/ /\ p.todo = {} /\ Tell(p)
                /\ passes' = SubSeq(others, 1, k - 1) \o SubSeq(others, k + 1, Len(others))
                /\ decided' = ~p.late
  /\ UNCHANGED <<fresh, revoked, socketVars, asleep, beliefVars, messageVars>>

\* Faulty variant of Kept: an observer keeps what it held back.
KeptByObservers(b, leads) ==
  IF b \notin Known /\ leads THEN [pending EXCEPT ![b] = <<>>] ELSE pending

\* What leader_status leaves in pendingDispatches.
Kept(b, leads) ==
  IF b \notin Known \/ ~leads THEN [pending EXCEPT ![b] = <<>>] ELSE pending

\* Faulty variant of Flushed: the first status has observers dispatch too.
FlushedByAll(b, leads) == IF b \notin Known THEN pending[b] ELSE <<>>

\* What leader_status has the bridge dispatch: the first one settles what was
\* held back.
Flushed(b, leads) == IF b \notin Known /\ leads THEN pending[b] ELSE <<>>

\* leader_status, on any socket of the bridge.
Status(c) ==
  LET b == conn[c].bridge
      leads == Head(box[c])
  IN /\ c \in up \cup leaving /\ b \notin asleep /\ box[c] # <<>>
     /\ box' = [box EXCEPT ![c] = Tail(@)]
     /\ heard' = [heard EXCEPT ![b] = c]
     /\ leader' = IF leads THEN leader \cup {b} ELSE leader \ {b}
     /\ given' = [given EXCEPT ![b] = @ \o Flushed(b, leads)]
     /\ pending' = Kept(b, leads)
     /\ doubt' = IF (b \in Known /\ leader' # leader) \/ Split(Known \cup {b}, leader')
                 THEN doubt \cup UnderWay ELSE doubt
     /\ UNCHANGED <<conn, fresh, closing, passes, revoked, decided, socketVars,
                    laptopVars, inbox, sent>>

-----------------------------------------------------------------------------
(* Messages *)

\* A person writes; the channel's object broadcasts to every bridge.
Send(m) ==
  /\ m \notin sent /\ sent' = sent \cup {m} /\ Event
  /\ inbox' = [b \in Bridge |-> Append(inbox[b], m)]
  /\ doubt' = IF Split(Known, leader) THEN doubt \cup {m} ELSE doubt
  /\ UNCHANGED <<gatewayVars, socketVars, asleep, beliefVars, pending, given>>

\* A message event: held back, dispatched or left to the leader.
Receive(b) ==
  LET m == Head(inbox[b])
      held == b \notin Known /\ Len(pending[b]) < Pending
  IN /\ inbox[b] # <<>> /\ b \notin asleep
     /\ inbox' = [inbox EXCEPT ![b] = Tail(@)]
     /\ pending' = IF held THEN [pending EXCEPT ![b] = Append(@, m)] ELSE pending
     /\ given' = IF b \in leader THEN [given EXCEPT ![b] = Append(@, m)] ELSE given
     /\ doubt' = IF b \in Known \/ held THEN doubt ELSE doubt \cup {m}
     /\ UNCHANGED <<gatewayVars, socketVars, laptopVars, beliefVars, sent>>

LeaderNext ==
  \/ \E b \in Bridge :
       \/ Connect(b) \/ Refused(b) \/ Fire(b) \/ Refresh(b) \/ Nap(b) \/ Wake(b)
       \/ Revoke(b) \/ Receive(b)
  \/ \E c \in DOMAIN conn :
       SocketCloses(c) \/ GatewayCloses(c) \/ Beat(c) \/ Stale(c) \/ Status(c)
  \/ \E k \in DOMAIN passes : \E c \in passes[k].todo : Visit(k, c)
  \/ \E m \in Message : Send(m)

LeaderSpec == LeaderInit /\ [][LeaderNext]_leaderVars

-----------------------------------------------------------------------------
(* Properties *)

\* The connection that should lead: the newest open one that is live.
Rightful == {c \in Open \cap fresh : \A d \in Open \cap fresh : d <= c}

\* The places at which a message stands among those given to agents.
Dispatches(m) ==
  UNION {{<<b, i>> : i \in {j \in DOMAIN given[b] : given[b][j] = m}} : b \in Bridge}

\* Type invariant: gatewaySocket is open and the bridge's own; a bridge leads
\* only once it was told; it holds messages back only until then, and no more
\* than the limit (bridge.ts, leader_status).
LeaderTypeOK ==
  /\ conn \in Seq([bridge : Bridge, open : BOOLEAN]) /\ DOMAIN box = DOMAIN conn
  /\ UNION {fresh, closing, up, leaving} \subseteq DOMAIN conn
  /\ timer \in [Bridge -> Nat] /\ heard \in [Bridge -> 0..Len(conn)]
  /\ \A b \in Bridge : gw[b] # 0 => gw[b] \in up /\ conn[gw[b]].bridge = b
  /\ leader \subseteq Known
  /\ \A b \in Bridge : Len(pending[b]) <= Pending /\ (b \in Known => pending[b] = <<>>)

\* Once an election that began after the last change has ended, a bridge leads
\* exactly if the socket on which it read its last status is the newest live
\* one: "the latest bridge wins", half-open sockets excluded
\* (broadcastLeaderStatus).  So no two lead.  A bridge with two live sockets may
\* have heard last on the older one, which silences it.
ElectionIsExact ==
  decided =>
    \A b \in Known :
      heard[b] \in Reading /\ box[heard[b]] = <<>> =>
        (b \in leader <=> heard[b] \in Rightful)

\* A message that every bridge has settled was dispatched once, by one bridge,
\* those that were held back until the first status included; except if, while
\* it was under way, a bridge that knew changed its mind, two bridges led or
\* all observed, or a socket took it along (bridge.ts, message and
\* leader_status).
OnceUnlessInDoubt ==
  \A m \in sent \ (doubt \cup UnderWay) : \E p \in Dispatches(m) : Dispatches(m) = {p}
==============================================================================
