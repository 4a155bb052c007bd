-------------------------- MODULE UserGateway_proofs --------------------------
(***************************************************************************)
(* Machine-checked proofs about the two parts of the UserGateway object.   *)
(*                                                                         *)
(* Module BridgeLeader: for any number of bridges, sockets, messages       *)
(* and elections, and whatever is lost.                                    *)
(*                                                                         *)
(* Module Presence: for any users, tabs and messages, and any number of    *)
(* lost calls and restarts of WorkspacePresence.  Its invariant has eleven *)
(* parts; one lemma per action says that the action keeps all of them.     *)
(***************************************************************************)
EXTENDS BridgeLeader, Presence, FiniteSetTheorems, TLAPS

-----------------------------------------------------------------------------
(* Bridge leader: the invariant *)

Connection == [bridge : Bridge, open : BOOLEAN]
Pass == [todo : SUBSET Nat, seen : SUBSET Nat, live : SUBSET Nat, late : BOOLEAN]

ConnTypes ==
  /\ conn \in Seq(Connection)
  /\ UNION {fresh, closing, up, leaving} \subseteq DOMAIN conn
  /\ box \in Seq(Seq(BOOLEAN)) /\ Len(box) = Len(conn)

PassTypes ==
  /\ passes \in Seq(Pass) /\ decided \in BOOLEAN
  /\ \A k \in DOMAIN passes : passes[k].todo \subseteq DOMAIN conn

\* A bridge takes for its own, and heeds, only connections of its own.
BridgeTypes ==
  /\ timer \in [Bridge -> Nat]
  /\ gw \in [Bridge -> 0..Len(conn)] /\ heard \in [Bridge -> 0..Len(conn)]
  /\ leader \subseteq Known
  /\ \A b \in Bridge : gw[b] # 0 => gw[b] \in up /\ conn[gw[b]].bridge = b
  /\ \A b \in Bridge : heard[b] # 0 => conn[heard[b]].bridge = b

QueueTypes ==
  /\ inbox \in [Bridge -> Seq(Message)] /\ pending \in [Bridge -> Seq(Message)]
  /\ given \in [Bridge -> Seq(Message)] /\ sent \subseteq Message
  /\ \A b \in Bridge : Len(pending[b]) <= Pending /\ (b \in Known => pending[b] = <<>>)

\* What an election has seen and has yet to see is what there is, unless that
\* changed since it began.
PassInv ==
  \A k \in DOMAIN passes : ~passes[k].late =>
    /\ passes[k].seen \cup passes[k].todo = Open
    /\ passes[k].live = passes[k].seen \cap fresh

\* What was told last on a connection is right; if it was read, who heeds that
\* connection believes it.
ToldInv ==
  decided => \A c \in Reading :
    IF box[c] = <<>> THEN \A b \in Bridge : heard[b] = c => (b \in leader <=> c \in Rightful)
    ELSE box[c][Len(box[c])] = (c \in Rightful)

\* Each message is in a queue at most once.
Once(q) == \A i, j \in DOMAIN q : q[i] = q[j] => i = j

\* A bridge has a message at most once, in one place.
OnceInv ==
  \A b \in Bridge :
    /\ Once(inbox[b]) /\ Once(pending[b]) /\ Once(given[b])
    /\ \A m \in Message : /\ ~(In(inbox[b], m) /\ In(pending[b], m))
                          /\ ~(In(inbox[b], m) /\ In(given[b], m))
                          /\ ~(In(pending[b], m) /\ In(given[b], m))

\* Messages that move were sent.
SentInv ==
  \A m \in Message \ sent : \A b \in Bridge :
    ~In(inbox[b], m) /\ ~In(pending[b], m) /\ ~In(given[b], m)

\* While m is under way it is clear who leads; a bridge that has dealt with it
\* has dispatched it if it leads.  In the end one bridge has.
Clear(m) ==
  IF m \in UnderWay
  THEN /\ ~Split(Known, leader)
       /\ \A b \in Bridge : ~In(inbox[b], m) /\ ~In(pending[b], m) =>
            b \in Known /\ (In(given[b], m) <=> b \in leader)
  ELSE \E b \in Bridge : \A x \in Bridge : In(given[x], m) <=> x = b

ClearInv == \A m \in sent \ doubt : Clear(m)

Gateway == ConnTypes /\ PassTypes /\ BridgeTypes /\ PassInv /\ ToldInv

Messages == QueueTypes /\ OnceInv /\ SentInv /\ ClearInv

LeaderInv == Gateway /\ Messages

-----------------------------------------------------------------------------
LEMMA LeaderInitInv == LeaderInit => LeaderInv
<1> SUFFICES ASSUME LeaderInit PROVE LeaderInv
  OBVIOUS
<1>1. conn = <<>> /\ box = <<>> /\ passes = <<>> /\ DOMAIN conn = {} /\ DOMAIN passes = {}
      /\ Len(conn) = 0
  BY DEF LeaderInit
<1>2. <<>> \in Seq(Connection) /\ <<>> \in Seq(Pass) /\ <<>> \in Seq(Seq(BOOLEAN))
      /\ <<>> \in Seq(Message) /\ Len(<<>>) = 0 /\ DOMAIN <<>> = {}
  OBVIOUS
<1>3. ConnTypes
  BY <1>1, <1>2 DEF LeaderInit, ConnTypes
<1>4. PassTypes
  BY <1>1, <1>2 DEF LeaderInit, PassTypes
<1>5. BridgeTypes
  BY <1>1 DEF LeaderInit, BridgeTypes
<1>6. QueueTypes
  BY <1>2, LeaderAssumption DEF LeaderInit, QueueTypes
<1>7. PassInv /\ ToldInv
  BY <1>1 DEF LeaderInit, PassInv, ToldInv, Reading
<1>8. OnceInv /\ SentInv
  BY <1>2 DEF LeaderInit, OnceInv, Once, SentInv, In
<1>9. ClearInv
  BY DEF LeaderInit, ClearInv
<1> QED BY <1>3, <1>4, <1>5, <1>6, <1>7, <1>8, <1>9 DEF LeaderInv, Gateway, Messages

-----------------------------------------------------------------------------
(* Elections *)

LEMMA LatePass ==
  ASSUME NEW p \in Pass
  PROVE  LET q == [p EXCEPT !.late = TRUE]
         IN q \in Pass /\ q.late /\ q.todo = p.todo
BY DEF Pass

\* What the elections under way looked at has changed: nothing holds of them.
LEMMA AllLate ==
  ASSUME passes \in Seq(Pass)
  PROVE  /\ Late \in Seq(Pass) /\ Len(Late) = Len(passes)
         /\ DOMAIN Late = DOMAIN passes
         /\ \A k \in DOMAIN passes : Late[k].late /\ Late[k].todo = passes[k].todo
<1>1. DOMAIN passes = 1..Len(passes) /\ Len(passes) \in Nat
      /\ \A k \in DOMAIN passes : passes[k] \in Pass
  OBVIOUS
<1>2. DOMAIN Late = DOMAIN passes
      /\ \A k \in DOMAIN passes : Late[k] = [passes[k] EXCEPT !.late = TRUE]
  BY DEF Late
<1>3. ASSUME NEW k \in DOMAIN passes
      PROVE  Late[k] \in Pass /\ Late[k].late /\ Late[k].todo = passes[k].todo
  <2>1. passes[k] \in Pass
    BY <1>1
  <2>2. Late[k] = [passes[k] EXCEPT !.late = TRUE]
    BY <1>2
  <2> QED BY <2>1, <2>2, LatePass
<1>4. Late = [k \in 1..Len(passes) |-> Late[k]]
  BY <1>1 DEF Late
<1>5. Late \in Seq(Pass) /\ Len(Late) = Len(passes)
  BY <1>1, <1>3, <1>4
<1> QED BY <1>2, <1>3, <1>5

LEMMA Belated ==
  ASSUME PassTypes, passes' = Late, decided' = FALSE, UNCHANGED conn
  PROVE  PassTypes' /\ PassInv' /\ ToldInv'
<1>1. /\ Late \in Seq(Pass) /\ DOMAIN Late = DOMAIN passes
      /\ \A k \in DOMAIN passes : Late[k].late /\ Late[k].todo = passes[k].todo
  BY AllLate DEF PassTypes
<1>2. PassTypes'
  BY <1>1 DEF PassTypes
<1>3. PassInv'
  BY <1>1 DEF PassInv
<1> QED BY <1>2, <1>3 DEF ToldInv

\* A new connection comes last.
LEMMA Connected ==
  ASSUME ConnTypes, NEW b \in Bridge, NEW cs,
         cs = Append(conn, [bridge |-> b, open |-> TRUE])
  PROVE  /\ cs \in Seq(Connection) /\ Len(cs) = Len(conn) + 1 /\ Len(conn) \in Nat
         /\ DOMAIN cs = 1..(Len(conn) + 1) /\ DOMAIN conn = 1..Len(conn)
         /\ \A c \in 1..Len(conn) : cs[c] = conn[c]
         /\ cs[Len(conn) + 1].bridge = b
         /\ Append(box, <<>>) \in Seq(Seq(BOOLEAN))
         /\ Len(Append(box, <<>>)) = Len(conn) + 1
<1>1. [bridge |-> b, open |-> TRUE] \in Connection
  BY DEF Connection
<1>2. conn \in Seq(Connection) /\ box \in Seq(Seq(BOOLEAN)) /\ Len(box) = Len(conn)
  BY DEF ConnTypes
<1>3. <<>> \in Seq(BOOLEAN)
  OBVIOUS
<1> QED BY <1>1, <1>2, <1>3

\* An election begins with all there is, and if something changed it outdates
\* those under way.
LEMMA Elected ==
  ASSUME PassTypes, PassInv, conn' \in Seq(Connection), DOMAIN conn \subseteq DOMAIN conn',
         NEW changed \in BOOLEAN, Elect(conn', changed),
         changed \/ UNCHANGED <<conn, fresh>>
  PROVE  PassTypes' /\ PassInv' /\ decided' = (decided /\ ~changed)
<1> DEFINE old == IF changed THEN Late ELSE passes
           new == NewPass(conn')
<1>1. /\ passes' = IF new.todo = {} THEN old ELSE Append(old, new)
      /\ decided' = (decided /\ ~changed)
  BY DEF Elect
<1>2. new \in Pass
  <2>1. {c \in DOMAIN conn' : conn'[c].open} \in SUBSET Nat
    OBVIOUS
  <2> QED BY <2>1 DEF NewPass, Pass
<1>3. new.todo = Open' /\ new.seen = {} /\ new.live = {} /\ Open' \subseteq DOMAIN conn'
  BY DEF NewPass, Open
<1>4. /\ old \in Seq(Pass) /\ DOMAIN old = DOMAIN passes
      /\ \A k \in DOMAIN passes : old[k].todo = passes[k].todo
      /\ \A k \in DOMAIN passes : ~old[k].late => ~changed /\ old[k] = passes[k]
  BY AllLate DEF PassTypes
<1> HIDE DEF old, new
<1>5. /\ passes' \in Seq(Pass)
      /\ DOMAIN old = 1..Len(old) /\ Len(old) \in Nat
      /\ \A k \in DOMAIN passes' : (k \in DOMAIN old /\ passes'[k] = old[k]) \/ passes'[k] = new
  <2>1. /\ DOMAIN old = 1..Len(old) /\ Len(old) \in Nat
        /\ Append(old, new) \in Seq(Pass) /\ DOMAIN Append(old, new) = 1..(Len(old) + 1)
        /\ \A k \in 1..Len(old) : Append(old, new)[k] = old[k]
        /\ Append(old, new)[Len(old) + 1] = new
    BY <1>2, <1>4
  <2>2. CASE new.todo = {}
    BY <1>1, <1>4, <2>1, <2>2
  <2>3. CASE new.todo # {}
    BY <1>1, <2>1, <2>3
  <2> QED BY <2>2, <2>3
<1>6. ASSUME NEW k \in DOMAIN passes', ~passes'[k].late
      PROVE  /\ passes'[k].seen \cup passes'[k].todo = Open'
             /\ passes'[k].live = passes'[k].seen \cap fresh'
  <2>1. CASE passes'[k] = new
    BY <1>3, <2>1
  <2>2. CASE k \in DOMAIN old /\ passes'[k] = old[k]
    <3>1. ~changed /\ k \in DOMAIN passes /\ passes'[k] = passes[k]
      BY <1>4, <1>6, <2>2
    <3>2. Open' = Open /\ fresh' = fresh
      BY <3>1 DEF Open
    <3> QED BY <1>6, <3>1, <3>2 DEF PassInv
  <2> QED BY <1>5, <2>1, <2>2
<1>7. ASSUME NEW k \in DOMAIN passes' PROVE passes'[k].todo \subseteq DOMAIN conn'
  <2>1. CASE passes'[k] = new
    BY <1>3, <2>1
  <2>2. CASE k \in DOMAIN old /\ passes'[k] = old[k]
    BY <1>4, <2>2 DEF PassTypes
  <2> QED BY <1>5, <2>1, <2>2
<1>8. decided' \in BOOLEAN
  BY <1>1 DEF PassTypes
<1> QED BY <1>1, <1>5, <1>6, <1>7, <1>8 DEF PassInv, PassTypes

LEMMA ConnectStep ==
  ASSUME Gateway, NEW b \in Bridge, Connect(b)
  PROVE  Gateway'
<1> DEFINE cs == Append(conn, [bridge |-> b, open |-> TRUE])
<1>0. ConnTypes /\ PassTypes /\ BridgeTypes /\ PassInv
  BY DEF Gateway
<1>1. /\ conn' = cs /\ fresh' = fresh \cup {Len(cs)} /\ box' = Append(box, <<>>)
      /\ up' = up \cup {Len(cs)} /\ gw' = [gw EXCEPT ![b] = Len(cs)] /\ Elect(conn', TRUE)
      /\ UNCHANGED <<closing, leaving, timer, heard, leader>>
  BY DEF Connect, beliefVars
<1>2. /\ cs \in Seq(Connection) /\ Len(cs) = Len(conn) + 1 /\ Len(conn) \in Nat
      /\ DOMAIN cs = 1..(Len(conn) + 1) /\ DOMAIN conn = 1..Len(conn)
      /\ \A c \in 1..Len(conn) : cs[c] = conn[c]
      /\ cs[Len(conn) + 1].bridge = b
      /\ Append(box, <<>>) \in Seq(Seq(BOOLEAN))
      /\ Len(Append(box, <<>>)) = Len(conn) + 1
  BY <1>0, Connected
<1> HIDE DEF cs
<1>3. conn' \in Seq(Connection) /\ DOMAIN conn \subseteq DOMAIN conn'
  BY <1>1, <1>2
<1>4. PassTypes' /\ PassInv' /\ decided' = (decided /\ ~TRUE)
  BY <1>0, <1>1, <1>3, Elected
<1>5. UNION {fresh', closing', up', leaving'} \subseteq DOMAIN cs
  BY <1>0, <1>1, <1>2 DEF ConnTypes
<1>6. ConnTypes'
  BY <1>1, <1>2, <1>5 DEF ConnTypes
<1>7. /\ gw' \in [Bridge -> 0..Len(cs)] /\ heard' \in [Bridge -> 0..Len(cs)]
      /\ gw'[b] = Len(conn) + 1
      /\ \A x \in Bridge : x # b => gw'[x] = gw[x] /\ gw[x] \in 0..Len(conn)
      /\ \A x \in Bridge : heard'[x] = heard[x] /\ heard[x] \in 0..Len(conn)
  BY <1>0, <1>1, <1>2 DEF BridgeTypes
<1>8. ASSUME NEW x \in Bridge, gw'[x] # 0
      PROVE  gw'[x] \in up' /\ conn'[gw'[x]].bridge = x
  <2>1. CASE x = b
    BY <1>1, <1>2, <1>7, <2>1
  <2>2. CASE x # b
    <3>1. gw'[x] = gw[x] /\ gw[x] \in up /\ conn[gw[x]].bridge = x /\ gw[x] \in 1..Len(conn)
      BY <1>0, <1>2, <1>7, <1>8, <2>2 DEF BridgeTypes
    <3> QED BY <1>1, <1>2, <3>1
  <2> QED BY <2>1, <2>2
<1>9. ASSUME NEW x \in Bridge, heard'[x] # 0
      PROVE  conn'[heard'[x]].bridge = x
  BY <1>0, <1>1, <1>2, <1>7, <1>9 DEF BridgeTypes
<1>10. timer' \in [Bridge -> Nat] /\ leader' \subseteq Known'
  BY <1>0, <1>1 DEF BridgeTypes, Known
<1>11. BridgeTypes'
  BY <1>1, <1>7, <1>8, <1>9, <1>10 DEF BridgeTypes
<1>12. ToldInv'
  BY <1>4 DEF ToldInv
<1> QED BY <1>4, <1>6, <1>11, <1>12 DEF Gateway

\* Bridges lose sockets, and forget what they were told.
LEMMA Retreated ==
  ASSUME Gateway, UNCHANGED <<conn, fresh, closing, passes, decided>>,
         up' \cup leaving' \subseteq up \cup leaving,
         box' \in Seq(Seq(BOOLEAN)), Len(box') = Len(box),
         \A c \in up' \cup leaving' : box'[c] = box[c],
         BridgeTypes',
         \A b \in Bridge : heard'[b] = 0
                           \/ (heard'[b] = heard[b] /\ (b \in leader' <=> b \in leader))
  PROVE  Gateway'
<1>1. ConnTypes'
  BY DEF Gateway, ConnTypes
<1>2. PassTypes' /\ PassInv'
  BY DEF Gateway, PassTypes, PassInv, Open
<1>3. Rightful' = Rightful /\ Reading' \subseteq Reading /\ Open' = Open
  BY DEF Rightful, Open, Reading
<1>4. ASSUME decided, NEW c \in Reading'
      PROVE  IF box'[c] = <<>>
             THEN \A b \in Bridge : heard'[b] = c => (b \in leader' <=> c \in Rightful)
             ELSE box'[c][Len(box'[c])] = (c \in Rightful)
  <2>1. IF box[c] = <<>>
        THEN \A b \in Bridge : heard[b] = c => (b \in leader <=> c \in Rightful)
        ELSE box[c][Len(box[c])] = (c \in Rightful)
    BY <1>3, <1>4 DEF Gateway, ToldInv
  <2>2. box'[c] = box[c]
    BY <1>4 DEF Reading
  <2>3. c # 0
    BY <1>3, <1>4 DEF Reading, Open, Gateway, ConnTypes
  <2> QED BY <2>1, <2>2, <2>3
<1>5. ToldInv'
  BY <1>3, <1>4 DEF ToldInv
<1> QED BY <1>1, <1>2, <1>5 DEF Gateway

\* What the close listener of gatewaySocket leaves.
LEMMA Forgotten ==
  ASSUME Gateway, NEW b \in Bridge, Forget(b)
  PROVE  /\ heard' \in [Bridge -> 0..Len(conn)] /\ timer' \in [Bridge -> Nat]
         /\ heard'[b] = 0 /\ \A x \in Bridge : x # b => heard'[x] = heard[x]
         /\ \A x \in Bridge : x # b => (x \in leader' <=> x \in leader)
         /\ leader' \subseteq Known' /\ Known' = Known \ {b}
<1>1. /\ heard' = [heard EXCEPT ![b] = 0] /\ leader' = leader \ {b}
      /\ timer' = [timer EXCEPT ![b] = @ + 1]
  BY DEF Forget
<1>2. /\ heard \in [Bridge -> 0..Len(conn)] /\ timer \in [Bridge -> Nat] /\ leader \subseteq Known
      /\ Len(conn) \in Nat
  BY DEF Gateway, BridgeTypes, ConnTypes
<1>3. /\ heard' \in [Bridge -> 0..Len(conn)] /\ timer' \in [Bridge -> Nat]
      /\ heard'[b] = 0 /\ \A x \in Bridge : x # b => heard'[x] = heard[x]
  BY <1>1, <1>2
<1>4. Known' = Known \ {b}
  BY <1>3 DEF Known
<1> QED BY <1>1, <1>2, <1>3, <1>4

LEMMA RefusedStep ==
  ASSUME Gateway, NEW b \in Bridge, Refused(b)
  PROVE  Gateway'
<1>1. Forget(b) /\ UNCHANGED <<conn, fresh, closing, passes, box, decided, up, leaving, gw>>
  BY DEF Refused, gatewayVars
<1>2. /\ heard' \in [Bridge -> 0..Len(conn)] /\ timer' \in [Bridge -> Nat]
      /\ heard'[b] = 0 /\ \A x \in Bridge : x # b => heard'[x] = heard[x]
      /\ \A x \in Bridge : x # b => (x \in leader' <=> x \in leader)
      /\ leader' \subseteq Known'
  BY <1>1, Forgotten
<1>3. BridgeTypes'
  BY <1>1, <1>2 DEF Gateway, BridgeTypes
<1>4. box' \in Seq(Seq(BOOLEAN)) /\ Len(box') = Len(box)
  BY <1>1 DEF Gateway, ConnTypes
<1> QED BY <1>1, <1>2, <1>3, <1>4, Retreated

LEMMA FireStep ==
  ASSUME Gateway, NEW b \in Bridge, Fire(b)
  PROVE  Gateway'
<1>1. /\ timer[b] > 0 /\ timer' = [timer EXCEPT ![b] = @ - 1] /\ gw' = [gw EXCEPT ![b] = 0]
      /\ UNCHANGED <<conn, fresh, closing, passes, box, decided, up, leaving, heard, leader>>
  BY DEF Fire, gatewayVars, beliefVars
<1>2. timer \in [Bridge -> Nat] /\ gw \in [Bridge -> 0..Len(conn)] /\ Len(conn) \in Nat
  BY DEF Gateway, BridgeTypes, ConnTypes
<1>3. /\ timer' \in [Bridge -> Nat] /\ gw' \in [Bridge -> 0..Len(conn)]
      /\ \A x \in Bridge : gw'[x] = gw[x] \/ gw'[x] = 0
  BY <1>1, <1>2
<1>4. BridgeTypes'
  BY <1>1, <1>3 DEF Gateway, BridgeTypes, Known
<1>5. box' \in Seq(Seq(BOOLEAN)) /\ Len(box') = Len(box)
  BY <1>1 DEF Gateway, ConnTypes
<1> QED BY <1>1, <1>4, <1>5, Retreated

LEMMA RefreshStep ==
  ASSUME Gateway, NEW b \in Bridge, Refresh(b)
  PROVE  Gateway'
<1>1. /\ gw' = [gw EXCEPT ![b] = 0] /\ up' = up \ {gw[b]}
      /\ leaving' = IF gw[b] = 0 THEN leaving ELSE leaving \cup {gw[b]}
      /\ UNCHANGED <<conn, fresh, closing, passes, box, decided, timer, heard, leader>>
  BY DEF Refresh, gatewayVars, beliefVars
<1>2. /\ gw \in [Bridge -> 0..Len(conn)] /\ Len(conn) \in Nat
      /\ \A x \in Bridge : gw[x] # 0 => gw[x] \in up /\ conn[gw[x]].bridge = x
  BY DEF Gateway, BridgeTypes, ConnTypes
<1>3. /\ gw' \in [Bridge -> 0..Len(conn)] /\ gw'[b] = 0
      /\ \A x \in Bridge : x # b => gw'[x] = gw[x]
  BY <1>1, <1>2
<1>4. \A x \in Bridge : gw'[x] # 0 => gw'[x] \in up' /\ conn[gw'[x]].bridge = x
  BY <1>1, <1>2, <1>3
<1>5. BridgeTypes'
  BY <1>1, <1>3, <1>4 DEF Gateway, BridgeTypes, Known
<1>6. up' \cup leaving' \subseteq up \cup leaving
  BY <1>1, <1>2
<1>7. box' \in Seq(Seq(BOOLEAN)) /\ Len(box') = Len(box)
  BY <1>1 DEF Gateway, ConnTypes
<1> QED BY <1>1, <1>5, <1>6, <1>7, Retreated

LEMMA SocketClosesStep ==
  ASSUME Gateway, NEW c \in DOMAIN conn, SocketCloses(c)
  PROVE  Gateway'
<1> DEFINE b == conn[c].bridge
<1>0. ConnTypes /\ BridgeTypes
  BY DEF Gateway
<1>1. /\ up' = up \ {c} /\ leaving' = leaving \ {c} /\ box' = [box EXCEPT ![c] = <<>>]
      /\ UNCHANGED <<conn, fresh, closing, passes, decided>>
      /\ IF gw[b] = c THEN gw' = [gw EXCEPT ![b] = 0] /\ Forget(b)
         ELSE UNCHANGED <<gw, timer, heard, leader>>
  BY DEF SocketCloses, beliefVars
<1>2. b \in Bridge
  <2>1. conn[c] \in Connection
    BY <1>0 DEF ConnTypes
  <2> QED BY <2>1 DEF Connection
<1> HIDE DEF b
<1>3. box' \in Seq(Seq(BOOLEAN)) /\ Len(box') = Len(box)
      /\ \A d \in up' \cup leaving' : box'[d] = box[d]
  <2> DEFINE Q == Seq(BOOLEAN)
  <2>1. /\ box \in Seq(Q) /\ <<>> \in Q /\ c \in DOMAIN box
        /\ up \cup leaving \subseteq DOMAIN box
    BY <1>0 DEF ConnTypes
  <2> HIDE DEF Q
  <2>2. box' \in Seq(Q) /\ Len(box') = Len(box) /\ \A d \in DOMAIN box : d # c => box'[d] = box[d]
    BY <1>1, <2>1
  <2> QED BY <1>1, <2>1, <2>2 DEF Q
<1>4. CASE gw[b] = c
  <2>1. /\ heard' \in [Bridge -> 0..Len(conn)] /\ timer' \in [Bridge -> Nat]
        /\ heard'[b] = 0 /\ \A x \in Bridge : x # b => heard'[x] = heard[x]
        /\ \A x \in Bridge : x # b => (x \in leader' <=> x \in leader)
        /\ leader' \subseteq Known'
    BY <1>1, <1>2, <1>4, Forgotten
  <2>2. gw' \in [Bridge -> 0..Len(conn)] /\ gw'[b] = 0
        /\ \A x \in Bridge : x # b => gw'[x] = gw[x]
    <3>1. gw \in [Bridge -> 0..Len(conn)] /\ Len(conn) \in Nat
      BY <1>0 DEF BridgeTypes, ConnTypes
    <3> QED BY <1>1, <1>2, <1>4, <3>1
  <2>3. \A x \in Bridge : gw'[x] # 0 => gw'[x] \in up' /\ conn[gw'[x]].bridge = x
    BY <1>0, <1>1, <1>4, <2>2 DEF BridgeTypes, b
  <2>4. BridgeTypes'
    BY <1>0, <1>1, <2>1, <2>2, <2>3 DEF BridgeTypes
  <2> QED BY <1>1, <1>3, <2>1, <2>4, Retreated
<1>5. CASE gw[b] # c
  <2>1. UNCHANGED <<gw, timer, heard, leader>>
    BY <1>1, <1>5
  <2>2. \A x \in Bridge : gw[x] # 0 => gw[x] # c
    BY <1>0, <1>5 DEF BridgeTypes, b
  <2>3. BridgeTypes'
    BY <1>0, <1>1, <2>1, <2>2 DEF BridgeTypes, Known
  <2> QED BY <1>1, <1>3, <2>1, <2>3, Retreated
<1> QED BY <1>4, <1>5

\* A connection is closed: its bridge stays the one it was.
LEMMA Closed ==
  ASSUME ConnTypes, NEW c \in DOMAIN conn
  PROVE  LET new == [conn EXCEPT ![c].open = FALSE]
         IN /\ new \in Seq(Connection) /\ Len(new) = Len(conn) /\ DOMAIN new = DOMAIN conn
            /\ \A d \in DOMAIN conn : new[d].bridge = conn[d].bridge
<1>1. conn \in Seq(Connection)
  BY DEF ConnTypes
<1>2. conn[c] \in Connection
  BY <1>1
<1>3. \A x \in Connection : [x EXCEPT !.open = FALSE] \in Connection
                            /\ [x EXCEPT !.open = FALSE].bridge = x.bridge
  BY DEF Connection
<1> QED BY <1>1, <1>2, <1>3

LEMMA Indexed ==
  ASSUME ConnTypes, BridgeTypes
  PROVE  \A b \in Bridge : /\ gw[b] # 0 => gw[b] \in DOMAIN conn
                           /\ heard[b] # 0 => heard[b] \in DOMAIN conn
<1>1. DOMAIN conn = 1..Len(conn) /\ Len(conn) \in Nat
  BY DEF ConnTypes
<1>2. \A b \in Bridge : gw[b] \in 0..Len(conn) /\ heard[b] \in 0..Len(conn)
  BY DEF BridgeTypes
<1>3. \A i \in 0..Len(conn) : i # 0 => i \in DOMAIN conn
  BY <1>1
<1> QED BY <1>2, <1>3

\* Connections that are closed, or heard of, are still those of their bridges.
LEMMA SameBridges ==
  ASSUME ConnTypes, BridgeTypes, conn' \in Seq(Connection), Len(conn') = Len(conn),
         DOMAIN conn' = DOMAIN conn,
         \A d \in DOMAIN conn : conn'[d].bridge = conn[d].bridge,
         fresh' \subseteq DOMAIN conn, closing' \subseteq DOMAIN conn,
         UNCHANGED <<box, up, leaving, gw, timer, heard, leader>>
  PROVE  ConnTypes' /\ BridgeTypes'
<1>1. ConnTypes'
  BY DEF ConnTypes
<1>2. \A b \in Bridge : /\ gw[b] # 0 => gw[b] \in DOMAIN conn
                        /\ heard[b] # 0 => heard[b] \in DOMAIN conn
  BY Indexed
<1>3. BridgeTypes'
  BY <1>2 DEF BridgeTypes, Known
<1> QED BY <1>1, <1>3

LEMMA GatewayClosesStep ==
  ASSUME Gateway, NEW c \in DOMAIN conn, GatewayCloses(c)
  PROVE  Gateway'
<1>0. ConnTypes /\ PassTypes /\ BridgeTypes /\ PassInv
  BY DEF Gateway
<1>1. /\ closing' = closing \ {c} /\ conn' = [conn EXCEPT ![c].open = FALSE]
      /\ Elect(conn', TRUE) /\ UNCHANGED <<fresh, box, up, leaving, gw, timer, heard, leader>>
  BY DEF GatewayCloses, socketVars, beliefVars
<1>2. /\ conn' \in Seq(Connection) /\ Len(conn') = Len(conn) /\ DOMAIN conn' = DOMAIN conn
      /\ \A d \in DOMAIN conn : conn'[d].bridge = conn[d].bridge
  BY <1>0, <1>1, Closed
<1>3. PassTypes' /\ PassInv' /\ decided' = (decided /\ ~TRUE)
  BY <1>0, <1>1, <1>2, Elected
<1>4. fresh' \subseteq DOMAIN conn /\ closing' \subseteq DOMAIN conn
  BY <1>0, <1>1 DEF ConnTypes
<1>5. ConnTypes' /\ BridgeTypes'
  BY <1>0, <1>1, <1>2, <1>4, SameBridges
<1> QED BY <1>3, <1>5 DEF Gateway, ToldInv

LEMMA BeatStep ==
  ASSUME Gateway, NEW c \in DOMAIN conn, Beat(c)
  PROVE  Gateway'
<1>0. ConnTypes /\ PassTypes /\ BridgeTypes /\ PassInv
  BY DEF Gateway
<1>1. PICK gone \in BOOLEAN :
        /\ fresh' = fresh \cup {c}
        /\ IF gone THEN conn' = [conn EXCEPT ![c].open = FALSE] /\ closing' = closing \cup {c}
           ELSE UNCHANGED <<conn, closing>>
        /\ Elect(conn', gone \/ c \notin fresh)
        /\ UNCHANGED <<box, up, leaving, gw, timer, heard, leader>>
  BY DEF Beat, socketVars, beliefVars
<1> DEFINE changed == gone \/ c \notin fresh
<1>2. /\ conn' \in Seq(Connection) /\ Len(conn') = Len(conn) /\ DOMAIN conn' = DOMAIN conn
      /\ \A d \in DOMAIN conn : conn'[d].bridge = conn[d].bridge
  <2>1. CASE gone
    <3>1. conn' = [conn EXCEPT ![c].open = FALSE]
      BY <1>1, <2>1
    <3> QED BY <1>0, <3>1, Closed
  <2>2. CASE ~gone
    BY <1>0, <1>1, <2>2 DEF ConnTypes
  <2> QED BY <2>1, <2>2
<1>3. Elect(conn', changed) /\ changed \in BOOLEAN /\ (changed \/ UNCHANGED <<conn, fresh>>)
  BY <1>1
<1>4. fresh' \subseteq DOMAIN conn /\ closing' \subseteq DOMAIN conn
  BY <1>0, <1>1 DEF ConnTypes
<1>5. ConnTypes' /\ BridgeTypes'
  BY <1>0, <1>1, <1>2, <1>4, SameBridges
<1> HIDE DEF changed
<1>6. PassTypes' /\ PassInv' /\ decided' = (decided /\ ~changed)
  BY <1>0, <1>2, <1>3, Elected
<1>7. ToldInv'
  <2>1. CASE changed
    BY <1>6, <2>1 DEF ToldInv
  <2>2. CASE ~changed
    <3>1. (decided' => decided) /\ UNCHANGED <<conn, fresh>>
      BY <1>3, <1>6, <2>2
    <3>2. Rightful' = Rightful /\ Reading' = Reading
      BY <1>1, <3>1 DEF Rightful, Open, Reading
    <3> QED BY <1>1, <3>1, <3>2 DEF Gateway, ToldInv
  <2> QED BY <1>3, <2>1, <2>2
<1> QED BY <1>5, <1>6, <1>7 DEF Gateway

\* Nothing happens that the gateway sees, or that a bridge believes.
LEMMA GatewayStays ==
  ASSUME Gateway, UNCHANGED <<conn, fresh, closing, passes, box, decided, up, leaving, gw,
                              timer, heard, leader>>
  PROVE  Gateway'
<1>1. ConnTypes' /\ PassTypes' /\ BridgeTypes' /\ PassInv'
  BY DEF Gateway, ConnTypes, PassTypes, BridgeTypes, PassInv, Open, Known
<1>2. Rightful' = Rightful /\ Reading' = Reading
  BY DEF Rightful, Open, Reading
<1>3. ToldInv'
  BY <1>2 DEF Gateway, ToldInv
<1> QED BY <1>1, <1>3 DEF Gateway

\* Time passes, a key is revoked.
LEMMA OutdatedStep ==
  ASSUME Gateway, (\E c \in DOMAIN conn : Stale(c)) \/ (\E b \in Bridge : Revoke(b))
  PROVE  Gateway'
<1>1. /\ passes' = Late /\ decided' = FALSE /\ fresh' \subseteq fresh
      /\ UNCHANGED <<conn, closing, box, up, leaving, gw, timer, heard, leader>>
  BY DEF Stale, Revoke, socketVars, beliefVars
<1>2. PassTypes' /\ PassInv' /\ ToldInv'
  BY <1>1, Belated DEF Gateway
<1>3. ConnTypes' /\ BridgeTypes'
  BY <1>1 DEF Gateway, ConnTypes, BridgeTypes, Known
<1> QED BY <1>2, <1>3 DEF Gateway

\* One of a sequence is taken out.
LEMMA Removed ==
  ASSUME NEW S, NEW s \in Seq(S), NEW k \in DOMAIN s
  PROVE  LET t == SubSeq(s, 1, k - 1) \o SubSeq(s, k + 1, Len(s))
         IN /\ t \in Seq(S)
            /\ \A i \in DOMAIN t : \E j \in DOMAIN s : t[i] = s[j]
<1> DEFINE a == SubSeq(s, 1, k - 1)
           z == SubSeq(s, k + 1, Len(s))
<1>1. k \in 1..Len(s) /\ Len(s) \in Nat
  OBVIOUS
<1>2. /\ a \in Seq(S) /\ Len(a) = k - 1
      /\ \A i \in 1..(k - 1) : a[i] = s[i] /\ i \in DOMAIN s
  BY <1>1
<1>3. /\ z \in Seq(S) /\ Len(z) = Len(s) - k
      /\ \A i \in 1..(Len(s) - k) : z[i] = s[i + k] /\ i + k \in DOMAIN s
  BY <1>1
<1> HIDE DEF a, z
<1>4. /\ a \o z \in Seq(S) /\ DOMAIN (a \o z) = 1..(Len(s) - 1)
      /\ \A i \in 1..(k - 1) : (a \o z)[i] = a[i]
      /\ \A i \in k..(Len(s) - 1) : (a \o z)[i] = z[i - (k - 1)]
  <2>1. a \o z \in Seq(S)
    BY <1>2, <1>3
  <2>2. DOMAIN (a \o z) = 1..(Len(s) - 1)
    BY <1>1, <1>2, <1>3
  <2>3. \A i \in 1..(k - 1) : (a \o z)[i] = a[i]
    BY <1>1, <1>2, <1>3
  <2>4. \A i \in k..(Len(s) - 1) : (a \o z)[i] = z[i - (k - 1)]
    BY <1>1, <1>2, <1>3
  <2> QED BY <2>1, <2>2, <2>3, <2>4
<1>5. ASSUME NEW i \in DOMAIN (a \o z)
      PROVE  \E j \in DOMAIN s : (a \o z)[i] = s[j]
  <2>1. CASE i \in 1..(k - 1)
    BY <1>2, <1>4, <2>1
  <2>2. CASE i \in k..(Len(s) - 1)
    <3>1. i - (k - 1) \in 1..(Len(s) - k)
      BY <1>1, <2>2
    <3>2. i - (k - 1) + k \in DOMAIN s /\ (a \o z)[i] = s[i - (k - 1) + k]
      BY <1>3, <1>4, <2>2, <3>1, Zenon
    <3> QED BY <3>2
  <2>3. i \in 1..(k - 1) \/ i \in k..(Len(s) - 1)
    BY <1>1, <1>4
  <2> QED BY <2>1, <2>2, <2>3
<1> QED BY <1>4, <1>5 DEF a, z

\* A status that is posted is the last one.
LEMMA LastPosted ==
  ASSUME NEW q \in Seq(BOOLEAN), NEW leads \in BOOLEAN
  PROVE  /\ Posted(q, leads) \in Seq(BOOLEAN) /\ Posted(q, leads) # <<>>
         /\ Posted(q, leads)[Len(Posted(q, leads))] = leads
<1>1. CASE q # <<>> /\ q[Len(q)] = leads
  BY <1>1 DEF Posted
<1>2. CASE ~(q # <<>> /\ q[Len(q)] = leads)
  <2>1. Posted(q, leads) = Append(q, leads)
    BY <1>2 DEF Posted
  <2>2. /\ Append(q, leads) \in Seq(BOOLEAN) /\ Len(Append(q, leads)) = Len(q) + 1
        /\ Append(q, leads)[Len(q) + 1] = leads /\ Len(q) \in Nat
    OBVIOUS
  <2>3. Append(q, leads) # <<>>
    BY <2>2
  <2> QED BY <2>1, <2>2, <2>3
<1> QED BY <1>1, <1>2

LEMMA Beheaded ==
  ASSUME NEW S, NEW q \in Seq(S), q # <<>>
  PROVE  /\ Tail(q) \in Seq(S) /\ Head(q) = q[1]
         /\ Len(q) = 1 => Tail(q) = <<>>
         /\ Len(q) # 1 => Tail(q) # <<>> /\ Tail(q)[Len(Tail(q))] = q[Len(q)]
<1>1. /\ Tail(q) \in Seq(S) /\ Head(q) = q[1] /\ Len(q) \in Nat /\ Len(q) > 0
      /\ Len(Tail(q)) = Len(q) - 1
      /\ \A i \in 1..(Len(q) - 1) : Tail(q)[i] = q[i + 1]
  OBVIOUS
<1>2. Len(q) = 1 => Tail(q) = <<>>
  <2>1. \A t \in Seq(S) : Len(t) = 0 => t = <<>>
    OBVIOUS
  <2>2. Tail(q) \in Seq(S) /\ (Len(q) = 1 => Len(Tail(q)) = 0)
    BY <1>1
  <2> QED BY <2>1, <2>2, Zenon
<1>3. ASSUME Len(q) # 1
      PROVE  Tail(q) # <<>> /\ Tail(q)[Len(Tail(q))] = q[Len(q)]
  <2>1. Len(q) - 1 \in 1..(Len(q) - 1) /\ (Len(q) - 1) + 1 = Len(q)
    BY <1>1, <1>3
  <2>2. \A t \in Seq(S) : Len(t) > 0 => t # <<>>
    OBVIOUS
  <2>3. Tail(q)[Len(q) - 1] = q[Len(q)] /\ Len(Tail(q)) > 0
    BY <1>1, <2>1
  <2> QED BY <1>1, <2>2, <2>3
<1> QED BY <1>1, <1>2, <1>3
\* The end of an election: every box stays one, and what was posted is last.
LEMMA Told ==
  ASSUME ConnTypes, NEW p, Tell(p)
  PROVE  /\ box' \in Seq(Seq(BOOLEAN)) /\ Len(box') = Len(box)
         /\ \A c \in p.seen \cap Reading :
              box'[c] # <<>> /\ box'[c][Len(box'[c])] = (c \in Newest(p))
<1>1. box' = [c \in DOMAIN box |-> IF c \in p.seen \cap Reading
                                   THEN Posted(box[c], c \in Newest(p)) ELSE box[c]]
  BY DEF Tell
<1>2. /\ DOMAIN box = 1..Len(box) /\ Len(box) \in Nat /\ DOMAIN conn = DOMAIN box
      /\ \A c \in DOMAIN box : box[c] \in Seq(BOOLEAN)
  BY DEF ConnTypes
<1>3. ASSUME NEW c \in DOMAIN box
      PROVE  LET q == Posted(box[c], c \in Newest(p))
             IN q \in Seq(BOOLEAN) /\ q # <<>> /\ q[Len(q)] = (c \in Newest(p))
  <2>1. (c \in Newest(p)) \in BOOLEAN
    OBVIOUS
  <2> QED BY <1>2, <2>1, LastPosted
<1>4. \A c \in DOMAIN box : box'[c] \in Seq(BOOLEAN)
  BY <1>1, <1>2, <1>3
<1>5. box' \in Seq(Seq(BOOLEAN)) /\ Len(box') = Len(box)
  <2>1. box' = [c \in 1..Len(box) |-> box'[c]]
    BY <1>1, <1>2
  <2> QED BY <1>2, <1>4, <2>1
<1>6. ASSUME NEW c \in p.seen \cap Reading
      PROVE  box'[c] # <<>> /\ box'[c][Len(box'[c])] = (c \in Newest(p))
  <2>1. c \in DOMAIN box
    BY <1>2 DEF Reading, Open
  <2>2. box'[c] = Posted(box[c], c \in Newest(p))
    BY <1>1, <2>1
  <2> QED BY <1>3, <2>1, <2>2
<1> QED BY <1>5, <1>6

\* One election sees one more socket.  If it was the last, all are told what
\* is right, unless the election is outdated.
LEMMA VisitStep ==
  ASSUME Gateway, NEW k \in DOMAIN passes, NEW c \in passes[k].todo, Visit(k, c)
  PROVE  Gateway'
<1> DEFINE closes(gone) == gone /\ conn[c].open
           others(gone) == IF closes(gone) THEN Late ELSE passes
           P(gone) ==
             [todo |-> passes[k].todo \ {c},
              seen |-> IF gone THEN passes[k].seen ELSE passes[k].seen \cup {c},
              live |-> IF gone \/ c \notin fresh THEN passes[k].live
                       ELSE passes[k].live \cup {c},
              late |-> passes[k].late \/ closes(gone)]
<1>0. ConnTypes /\ PassTypes /\ BridgeTypes /\ PassInv
  BY DEF Gateway
<1>1. PICK gone \in BOOLEAN :
        /\ conn' = IF closes(gone) THEN [conn EXCEPT ![c].open = FALSE] ELSE conn
        /\ closing' = IF closes(gone) THEN closing \cup {c} ELSE closing
        /\ \/ /\ P(gone).todo # {} /\ UNCHANGED box
              /\ passes' = [others(gone) EXCEPT ![k] = P(gone)]
              /\ decided' = (decided /\ ~closes(gone))
           \/ /\ P(gone).todo = {} /\ Tell(P(gone))
              /\ passes' = SubSeq(others(gone), 1, k - 1)
                           \o SubSeq(others(gone), k + 1, Len(others(gone)))
              /\ decided' = ~P(gone).late
  BY DEF Visit
<1>2. UNCHANGED <<fresh, up, leaving, gw, timer, heard, leader>>
  BY DEF Visit, socketVars, beliefVars
<1>3. passes[k] \in Pass /\ c \in DOMAIN conn /\ DOMAIN conn \subseteq Nat
  BY <1>0 DEF PassTypes, ConnTypes
<1> DEFINE p == P(gone)
           shut == closes(gone)
           rest == others(gone)
<1>4. /\ p \in Pass /\ p.todo = passes[k].todo \ {c}
      /\ p.late = (passes[k].late \/ shut)
      /\ ~gone => /\ p.seen = passes[k].seen \cup {c}
                  /\ p.live = IF c \notin fresh THEN passes[k].live ELSE passes[k].live \cup {c}
  <2>1. shut \in BOOLEAN
    OBVIOUS
  <2> HIDE DEF closes
  <2> QED BY <1>3, <2>1 DEF Pass
<1>5. /\ rest \in Seq(Pass) /\ DOMAIN rest = DOMAIN passes
      /\ \A j \in DOMAIN passes : rest[j].todo = passes[j].todo
      /\ \A j \in DOMAIN passes : ~rest[j].late => ~shut /\ rest[j] = passes[j]
  <2>1. CASE shut
    BY <1>0, <2>1, AllLate DEF PassTypes
  <2>2. CASE ~shut
    BY <1>0, <2>2 DEF PassTypes
  <2> QED BY <2>1, <2>2
<1>6. /\ conn' \in Seq(Connection) /\ Len(conn') = Len(conn) /\ DOMAIN conn' = DOMAIN conn
      /\ \A d \in DOMAIN conn : conn'[d].bridge = conn[d].bridge
  <2>1. CASE shut
    <3>1. conn' = [conn EXCEPT ![c].open = FALSE]
      BY <1>1, <2>1
    <3> QED BY <1>0, <1>3, <3>1, Closed
  <2>2. CASE ~shut
    BY <1>0, <1>1, <2>2 DEF ConnTypes
  <2> QED BY <2>1, <2>2
<1>7. fresh' \subseteq DOMAIN conn /\ closing' \subseteq DOMAIN conn
  BY <1>0, <1>1, <1>2, <1>3 DEF ConnTypes
<1>8. ~shut => conn' = conn
  BY <1>1
<1>9. ASSUME ~shut, ~p.late
      PROVE  p.seen \cup p.todo = Open /\ p.live = p.seen \cap fresh
  <2>1. passes[k].seen \cup passes[k].todo = Open /\ passes[k].live = passes[k].seen \cap fresh
    BY <1>0, <1>4, <1>9 DEF PassInv
  <2>2. conn[c].open
    BY <2>1 DEF Open
  <2>3. ~gone
    BY <1>9, <2>2
  <2> HIDE DEF p
  <2> QED BY <1>4, <2>1, <2>3
<1>10. Open' = Open \/ shut
  BY <1>8 DEF Open
<1>11. \/ /\ UNCHANGED box /\ passes' = [rest EXCEPT ![k] = p]
          /\ decided' = (decided /\ ~shut)
       \/ /\ p.todo = {} /\ Tell(p) /\ decided' = ~p.late
          /\ passes' = SubSeq(rest, 1, k - 1) \o SubSeq(rest, k + 1, Len(rest))
  BY <1>1
<1> HIDE DEF p, shut, rest
<1>12. CASE /\ UNCHANGED box /\ passes' = [rest EXCEPT ![k] = p]
            /\ decided' = (decided /\ ~shut)
  <2>1. /\ passes' \in Seq(Pass) /\ DOMAIN passes' = DOMAIN passes /\ passes'[k] = p
        /\ \A j \in DOMAIN passes : j # k => passes'[j] = rest[j]
    BY <1>4, <1>5, <1>12
  <2>2. \A j \in DOMAIN passes' : passes'[j].todo \subseteq DOMAIN conn
    BY <1>0, <1>4, <1>5, <2>1 DEF PassTypes
  <2>3. decided' \in BOOLEAN
    BY <1>0, <1>12 DEF PassTypes
  <2>4. PassTypes'
    BY <1>6, <2>1, <2>2, <2>3 DEF PassTypes
  <2>5. ASSUME NEW j \in DOMAIN passes', ~passes'[j].late
        PROVE  /\ passes'[j].seen \cup passes'[j].todo = Open'
               /\ passes'[j].live = passes'[j].seen \cap fresh'
    <3>1. CASE j = k
      <4>1. ~shut /\ ~p.late
        BY <1>4, <2>1, <2>5, <3>1
      <4> QED BY <1>2, <1>9, <1>10, <2>1, <3>1, <4>1
    <3>2. CASE j # k
      <4>1. ~shut /\ passes'[j] = passes[j] /\ j \in DOMAIN passes
        BY <1>5, <2>1, <2>5, <3>2
      <4> QED BY <1>0, <1>2, <1>10, <2>5, <4>1 DEF PassInv
    <3> QED BY <3>1, <3>2
  <2>6. PassInv'
    BY <2>5 DEF PassInv
  <2>7. ConnTypes' /\ BridgeTypes'
    BY <1>0, <1>2, <1>6, <1>7, <1>12, SameBridges
  <2>8. ToldInv'
    <3>1. CASE shut
      BY <1>12, <3>1 DEF ToldInv
    <3>2. CASE ~shut
      <4>1. Rightful' = Rightful /\ Reading' = Reading
        BY <1>2, <1>8, <3>2 DEF Rightful, Open, Reading
      <4> QED BY <1>2, <1>12, <3>2, <4>1 DEF Gateway, ToldInv
    <3> QED BY <3>1, <3>2
  <2> QED BY <2>4, <2>6, <2>7, <2>8 DEF Gateway
<1>13. CASE /\ p.todo = {} /\ Tell(p) /\ decided' = ~p.late
            /\ passes' = SubSeq(rest, 1, k - 1) \o SubSeq(rest, k + 1, Len(rest))
  <2>1. /\ passes' \in Seq(Pass)
        /\ \A i \in DOMAIN passes' : \E j \in DOMAIN passes : passes'[i] = rest[j]
    <3> DEFINE t == SubSeq(rest, 1, k - 1) \o SubSeq(rest, k + 1, Len(rest))
    <3>1. k \in DOMAIN rest
      BY <1>5
    <3>2. t \in Seq(Pass) /\ \A i \in DOMAIN t : \E j \in DOMAIN rest : t[i] = rest[j]
      BY <1>5, <3>1, Removed
    <3>3. passes' = t
      BY <1>13
    <3> HIDE DEF t
    <3> QED BY <1>5, <3>2, <3>3
  <2>2. \A i \in DOMAIN passes' : passes'[i].todo \subseteq DOMAIN conn
    BY <1>0, <1>5, <2>1 DEF PassTypes
  <2>3. PassTypes'
    BY <1>6, <1>13, <2>1, <2>2 DEF PassTypes
  <2>4. ASSUME NEW i \in DOMAIN passes', ~passes'[i].late
        PROVE  /\ passes'[i].seen \cup passes'[i].todo = Open'
               /\ passes'[i].live = passes'[i].seen \cap fresh'
    <3>1. PICK j \in DOMAIN passes : passes'[i] = rest[j]
      BY <2>1
    <3>2. ~shut /\ passes'[i] = passes[j]
      BY <1>5, <2>4, <3>1
    <3> QED BY <1>0, <1>2, <1>10, <2>4, <3>2 DEF PassInv
  <2>5. PassInv'
    BY <2>4 DEF PassInv
  <2>6. /\ box' \in Seq(Seq(BOOLEAN)) /\ Len(box') = Len(box)
        /\ \A d \in p.seen \cap Reading :
             box'[d] # <<>> /\ box'[d][Len(box'[d])] = (d \in Newest(p))
    BY <1>0, <1>13, Told
  <2>7. ConnTypes'
    BY <1>0, <1>2, <1>6, <1>7, <2>6 DEF ConnTypes
  <2>8. \A b \in Bridge : /\ gw[b] # 0 => gw[b] \in DOMAIN conn
                          /\ heard[b] # 0 => heard[b] \in DOMAIN conn
    BY <1>0, Indexed
  <2>9. BridgeTypes'
    BY <1>0, <1>2, <1>6, <2>8 DEF BridgeTypes, Known
  <2>10. ASSUME decided', NEW d \in Reading'
         PROVE  box'[d] # <<>> /\ box'[d][Len(box'[d])] = (d \in Rightful')
    <3>1. ~shut /\ ~p.late
      BY <1>4, <1>13, <2>10
    <3>2. p.seen = Open /\ p.live = Open \cap fresh /\ conn' = conn
      BY <1>8, <1>9, <1>13, <3>1
    <3>3. Rightful' = Rightful /\ Reading' = Reading
      BY <1>2, <3>2 DEF Rightful, Open, Reading
    <3>4. Newest(p) = Rightful
      BY <3>2 DEF Newest, Rightful
    <3>5. d \in p.seen \cap Reading
      BY <2>10, <3>2, <3>3 DEF Reading
    <3> QED BY <2>6, <3>3, <3>4, <3>5
  <2>11. ToldInv'
    BY <2>10 DEF ToldInv
  <2> QED BY <2>3, <2>5, <2>7, <2>9, <2>11 DEF Gateway
<1> QED BY <1>11, <1>12, <1>13

\* A bridge reads what it was told, on whichever socket.
LEMMA StatusStep ==
  ASSUME Gateway, NEW c \in DOMAIN conn, Status(c)
  PROVE  Gateway'
<1> DEFINE b == conn[c].bridge
           leads == Head(box[c])
<1>0. ConnTypes /\ BridgeTypes
  BY DEF Gateway
<1>1. /\ box[c] # <<>> /\ box' = [box EXCEPT ![c] = Tail(@)]
      /\ heard' = [heard EXCEPT ![b] = c]
      /\ leader' = IF leads THEN leader \cup {b} ELSE leader \ {b}
      /\ UNCHANGED <<conn, fresh, closing, passes, decided, up, leaving, gw, timer>>
  BY DEF Status, socketVars
<1>2. b \in Bridge
  <2>1. conn[c] \in Connection
    BY <1>0 DEF ConnTypes
  <2> QED BY <2>1 DEF Connection
<1>3. c \in DOMAIN box /\ box[c] \in Seq(BOOLEAN) /\ Tail(box[c]) \in Seq(BOOLEAN)
  <2>1. c \in DOMAIN box /\ box[c] \in Seq(BOOLEAN)
    BY <1>0 DEF ConnTypes
  <2> QED BY <1>1, <2>1, Beheaded
<1> HIDE DEF b
<1>4. box' \in Seq(Seq(BOOLEAN)) /\ Len(box') = Len(box) /\ box'[c] = Tail(box[c])
      /\ \A d \in DOMAIN box : d # c => box'[d] = box[d]
  <2> DEFINE Q == Seq(BOOLEAN)
  <2>1. box \in Seq(Q) /\ Tail(box[c]) \in Q
    BY <1>0, <1>3 DEF ConnTypes
  <2> HIDE DEF Q
  <2>2. box' = [box EXCEPT ![c] = Tail(box[c])] /\ c \in DOMAIN box
    BY <1>1, <1>3, Zenon
  <2>3. box' \in Seq(Q) /\ Len(box') = Len(box)
    BY <2>1, <2>2
  <2>4. box'[c] = Tail(box[c]) /\ \A d \in DOMAIN box : d # c => box'[d] = box[d]
    BY <2>2
  <2> QED BY <2>3, <2>4 DEF Q
<1>5. /\ heard' \in [Bridge -> 0..Len(conn)] /\ heard'[b] = c
      /\ \A x \in Bridge : x # b => heard'[x] = heard[x]
      /\ \A x \in Bridge : x # b => (x \in leader' <=> x \in leader)
      /\ b \in leader' <=> leads
  <2>1. heard \in [Bridge -> 0..Len(conn)] /\ c \in 0..Len(conn)
    BY <1>0 DEF BridgeTypes, ConnTypes
  <2> HIDE DEF leads
  <2> QED BY <1>1, <1>2, <2>1
<1>6. c # 0
  BY <1>0 DEF ConnTypes
<1>7. leader' \subseteq Known'
  <2>1. leader \subseteq Known /\ leader' \subseteq leader \cup {b} /\ leader \subseteq Bridge
    BY <1>0, <1>1 DEF BridgeTypes, Known
  <2> QED BY <1>2, <1>5, <1>6, <2>1 DEF Known
<1>8. ConnTypes'
  BY <1>0, <1>1, <1>4 DEF ConnTypes
<1>9. BridgeTypes'
  <2>1. conn[c].bridge = b
    BY DEF b
  <2> QED BY <1>0, <1>1, <1>5, <1>7, <2>1 DEF BridgeTypes
<1>10. PassTypes' /\ PassInv'
  BY <1>1 DEF Gateway, PassTypes, PassInv, Open
<1>11. Rightful' = Rightful /\ Reading' = Reading
  BY <1>1 DEF Rightful, Open, Reading
<1>12. ASSUME decided, NEW d \in Reading
       PROVE  IF box'[d] = <<>>
              THEN \A x \in Bridge : heard'[x] = d => (x \in leader' <=> d \in Rightful)
              ELSE box'[d][Len(box'[d])] = (d \in Rightful)
  <2>1. IF box[d] = <<>>
        THEN \A x \in Bridge : heard[x] = d => (x \in leader <=> d \in Rightful)
        ELSE box[d][Len(box[d])] = (d \in Rightful)
    BY <1>12 DEF Gateway, ToldInv
  <2>2. CASE d # c
    <3>1. d \in DOMAIN box
      BY <1>0 DEF Reading, Open, ConnTypes
    <3>2. box'[d] = box[d]
      BY <1>4, <2>2, <3>1
    <3> QED BY <1>5, <2>1, <2>2, <3>2
  <2>3. CASE d = c
    <3>1. box[c][Len(box[c])] = (c \in Rightful)
      BY <1>1, <2>1, <2>3
    <3>2. /\ leads = box[c][1]
          /\ Len(box[c]) = 1 => Tail(box[c]) = <<>>
          /\ Len(box[c]) # 1 => Tail(box[c]) # <<>>
                                /\ Tail(box[c])[Len(Tail(box[c]))] = box[c][Len(box[c])]
      BY <1>1, <1>3, Beheaded
    <3> HIDE DEF leads
    <3>3. CASE Len(box[c]) = 1
      <4>1. leads = (c \in Rightful) /\ box'[c] = <<>>
        BY <1>4, <3>1, <3>2, <3>3
      <4>2. ASSUME NEW x \in Bridge, heard'[x] = c PROVE x = b
        <5>1. x # b => heard[x] = c /\ conn[c].bridge = x
          BY <1>0, <1>5, <1>6, <4>2 DEF BridgeTypes
        <5> QED BY <5>1 DEF b
      <4> QED BY <1>5, <2>3, <4>1, <4>2
    <3>4. CASE Len(box[c]) # 1
      <4>1. box'[c] # <<>> /\ box'[c][Len(box'[c])] = (c \in Rightful)
        BY <1>4, <3>1, <3>2, <3>4
      <4> QED BY <2>3, <4>1
    <3> QED BY <3>3, <3>4
  <2> QED BY <2>2, <2>3
<1>13. ToldInv'
  BY <1>1, <1>11, <1>12 DEF ToldInv
<1> QED BY <1>8, <1>9, <1>10, <1>13 DEF Gateway

LEMMA GatewayStep ==
  ASSUME Gateway, [LeaderNext]_leaderVars
  PROVE  Gateway'
<1>1. ASSUME NEW b \in Bridge, Nap(b) \/ Wake(b) \/ Receive(b)
      PROVE  UNCHANGED <<conn, fresh, closing, passes, box, decided, up, leaving, gw,
                         timer, heard, leader>>
  BY <1>1 DEF Nap, Wake, Receive, gatewayVars, socketVars, beliefVars
<1>2. ASSUME NEW m \in Message, Send(m)
      PROVE  UNCHANGED <<conn, fresh, closing, passes, box, decided, up, leaving, gw,
                         timer, heard, leader>>
  BY <1>2 DEF Send, gatewayVars, socketVars, beliefVars
<1>3. CASE UNCHANGED leaderVars
  BY <1>3, GatewayStays DEF leaderVars, gatewayVars, socketVars, beliefVars
<1>4. CASE LeaderNext
  BY <1>1, <1>2, <1>4, GatewayStays, ConnectStep, RefusedStep, FireStep, RefreshStep,
     SocketClosesStep, GatewayClosesStep, BeatStep, OutdatedStep, VisitStep, StatusStep
  DEF LeaderNext
<1> QED BY <1>3, <1>4

-----------------------------------------------------------------------------
(* Messages *)

LEMMA Emptied ==
  /\ <<>> \in Seq(Message) /\ Len(<<>>) = 0 /\ Once(<<>>) /\ \A x : ~In(<<>>, x)
  /\ Len(<<>>) <= Pending
<1>1. <<>> \in Seq(Message) /\ Len(<<>>) = 0 /\ DOMAIN <<>> = {}
  OBVIOUS
<1>2. 0 <= Pending
  BY LeaderAssumption
<1> QED BY <1>1, <1>2 DEF Once, In

\* A queue gets longer, shorter by its first message, or joins another.
LEMMA Queued ==
  ASSUME NEW q \in Seq(Message), NEW m \in Message
  PROVE  /\ Append(q, m) \in Seq(Message) /\ Len(Append(q, m)) = Len(q) + 1
         /\ \A x : In(Append(q, m), x) <=> In(q, x) \/ x = m
         /\ Once(q) /\ ~In(q, m) => Once(Append(q, m))
<1>1. /\ Append(q, m) \in Seq(Message) /\ Len(Append(q, m)) = Len(q) + 1 /\ Len(q) \in Nat
      /\ DOMAIN q = 1..Len(q) /\ DOMAIN Append(q, m) = 1..(Len(q) + 1)
      /\ \A i \in 1..Len(q) : Append(q, m)[i] = q[i]
      /\ Append(q, m)[Len(q) + 1] = m
  OBVIOUS
<1>2. \A i \in 1..(Len(q) + 1) : i \in 1..Len(q) \/ i = Len(q) + 1
  BY <1>1
<1>3. 1..Len(q) \subseteq 1..(Len(q) + 1) /\ Len(q) + 1 \in 1..(Len(q) + 1)
  BY <1>1
<1>4. \A x : In(Append(q, m), x) <=> In(q, x) \/ x = m
  BY <1>1, <1>2, <1>3 DEF In
<1>5. Once(q) /\ ~In(q, m) => Once(Append(q, m))
  BY <1>1, <1>2, <1>3 DEF In, Once
<1> QED BY <1>1, <1>4, <1>5

LEMMA Unqueued ==
  ASSUME NEW q \in Seq(Message), q # <<>>
  PROVE  /\ Head(q) \in Message /\ Tail(q) \in Seq(Message)
         /\ \A x : In(q, x) <=> In(Tail(q), x) \/ x = Head(q)
         /\ Once(q) => Once(Tail(q)) /\ ~In(Tail(q), Head(q))
<1>1. /\ Head(q) \in Message /\ Tail(q) \in Seq(Message) /\ Len(q) \in Nat /\ Len(q) > 0
      /\ DOMAIN q = 1..Len(q) /\ DOMAIN Tail(q) = 1..(Len(q) - 1) /\ Head(q) = q[1]
      /\ \A i \in 1..(Len(q) - 1) : Tail(q)[i] = q[i + 1]
  OBVIOUS
<1>2. 1 \in 1..Len(q) /\ \A i \in 1..(Len(q) - 1) : i + 1 \in 1..Len(q) /\ i + 1 # 1
  BY <1>1
<1>3. \A i \in 1..Len(q) : i = 1 \/ (i - 1 \in 1..(Len(q) - 1) /\ (i - 1) + 1 = i)
  BY <1>1
<1>4. ASSUME NEW x, In(Tail(q), x) \/ x = Head(q) PROVE In(q, x)
  BY <1>1, <1>2, <1>4 DEF In
<1>5. ASSUME NEW x, In(q, x) PROVE In(Tail(q), x) \/ x = Head(q)
  <2>1. PICK i \in 1..Len(q) : q[i] = x
    BY <1>1, <1>5 DEF In
  <2>2. CASE i = 1
    BY <1>1, <2>1, <2>2
  <2>3. CASE i # 1
    <3>1. i - 1 \in 1..(Len(q) - 1) /\ Tail(q)[i - 1] = x
      BY <1>1, <1>3, <2>1, <2>3
    <3> QED BY <1>1, <3>1 DEF In
  <2> QED BY <2>2, <2>3
<1>6. ASSUME Once(q) PROVE Once(Tail(q)) /\ ~In(Tail(q), Head(q))
  <2>1. ASSUME NEW i \in 1..(Len(q) - 1), NEW j \in 1..(Len(q) - 1), Tail(q)[i] = Tail(q)[j]
        PROVE  i = j
    <3>1. q[i + 1] = q[j + 1] /\ i + 1 \in DOMAIN q /\ j + 1 \in DOMAIN q
      BY <1>1, <1>2, <2>1
    <3>2. i + 1 = j + 1
      BY <1>6, <3>1 DEF Once
    <3> QED BY <3>2
  <2>2. ASSUME NEW i \in 1..(Len(q) - 1), Tail(q)[i] = Head(q) PROVE FALSE
    <3>1. q[i + 1] = q[1] /\ i + 1 \in DOMAIN q /\ 1 \in DOMAIN q
      BY <1>1, <1>2, <2>2
    <3>2. i + 1 = 1
      BY <1>6, <3>1 DEF Once
    <3> QED BY <1>2, <3>2
  <2> QED BY <1>1, <2>1, <2>2 DEF Once, In
<1> QED BY <1>1, <1>4, <1>5, <1>6

LEMMA Joined ==
  ASSUME NEW p \in Seq(Message), NEW q \in Seq(Message)
  PROVE  /\ p \o q \in Seq(Message)
         /\ \A x : In(p \o q, x) <=> In(p, x) \/ In(q, x)
         /\ Once(p) /\ Once(q) /\ (\A x \in Message : ~(In(p, x) /\ In(q, x))) => Once(p \o q)
<1> DEFINE s == p \o q
<1>1. /\ s \in Seq(Message) /\ DOMAIN s = 1..(Len(p) + Len(q))
      /\ DOMAIN p = 1..Len(p) /\ DOMAIN q = 1..Len(q) /\ Len(p) \in Nat /\ Len(q) \in Nat
  OBVIOUS
<1>2. \A i \in 1..Len(p) : i \in DOMAIN s /\ s[i] = p[i] /\ p[i] \in Message
  BY <1>1
<1>3. \A i \in 1..Len(q) : i + Len(p) \in DOMAIN s /\ s[i + Len(p)] = q[i] /\ q[i] \in Message
  BY <1>1
<1> HIDE DEF s
<1>4. \A i \in DOMAIN s : i \in 1..Len(p) \/ (i - Len(p) \in 1..Len(q) /\ (i - Len(p)) + Len(p) = i)
  BY <1>1
<1>5. ASSUME NEW x, In(s, x) PROVE In(p, x) \/ In(q, x)
  <2>1. PICK i \in DOMAIN s : s[i] = x
    BY <1>5 DEF In
  <2>2. CASE i \in 1..Len(p)
    BY <1>1, <1>2, <2>1, <2>2 DEF In
  <2>3. CASE i - Len(p) \in 1..Len(q) /\ (i - Len(p)) + Len(p) = i
    <3>1. q[i - Len(p)] = x
      BY <1>3, <2>1, <2>3
    <3> QED BY <1>1, <2>3, <3>1 DEF In
  <2> QED BY <1>4, <2>2, <2>3
<1>6. ASSUME NEW x, In(p, x) \/ In(q, x) PROVE In(s, x)
  BY <1>1, <1>2, <1>3, <1>6 DEF In
<1>7. ASSUME Once(p), Once(q), \A x \in Message : ~(In(p, x) /\ In(q, x)),
             NEW i \in DOMAIN s, NEW j \in DOMAIN s, s[i] = s[j]
      PROVE  i = j
  <2> DEFINE In1(n) == n \in 1..Len(p) /\ s[n] = p[n] /\ p[n] \in Message
             In2(n) == /\ n - Len(p) \in 1..Len(q) /\ (n - Len(p)) + Len(p) = n
                       /\ s[n] = q[n - Len(p)] /\ q[n - Len(p)] \in Message
  <2>1. \A n \in DOMAIN s : In1(n) \/ In2(n)
    BY <1>2, <1>3, <1>4
  <2>2. CASE In1(i) /\ In1(j)
    BY <1>1, <1>7, <2>2 DEF Once
  <2>3. CASE In2(i) /\ In2(j)
    <3>1. i - Len(p) = j - Len(p)
      BY <1>1, <1>7, <2>3 DEF Once
    <3> QED BY <2>3, <3>1
  <2>4. CASE In1(i) /\ In2(j)
    BY <1>1, <1>7, <2>4 DEF In
  <2>5. CASE In2(i) /\ In1(j)
    BY <1>1, <1>7, <2>5 DEF In
  <2> HIDE DEF In1, In2
  <2> QED BY <2>1, <2>2, <2>3, <2>4, <2>5
<1>8. Once(p) /\ Once(q) /\ (\A x \in Message : ~(In(p, x) /\ In(q, x))) => Once(s)
  BY <1>7 DEF Once
<1> QED BY <1>1, <1>5, <1>6, <1>8 DEF s

\* It is clear who leads, and every bridge knows.
LEMMA OneLeads ==
  ASSUME NEW told, NEW leading, ~Split(told, leading), told = Bridge, leading \subseteq Bridge
  PROVE  \E b \in Bridge : \A x \in Bridge : x \in leading <=> x = b
BY DEF Split

\* A message that is where it was, with the same leader if it is under way.
LEMMA Undisturbed ==
  ASSUME NEW m \in sent, m \in sent', Clear(m),
         \A x \in Bridge : /\ In(inbox'[x], m) <=> In(inbox[x], m)
                           /\ In(pending'[x], m) <=> In(pending[x], m)
                           /\ In(given'[x], m) <=> In(given[x], m),
         m \in UnderWay => Known' = Known /\ leader' = leader
  PROVE  Clear(m)'
<1>1. m \in UnderWay' <=> m \in UnderWay
  BY DEF UnderWay
<1>2. CASE m \in UnderWay
  <2>1. /\ ~Split(Known', leader')
        /\ \A b \in Bridge : ~In(inbox'[b], m) /\ ~In(pending'[b], m) =>
             b \in Known' /\ (In(given'[b], m) <=> b \in leader')
    BY <1>2 DEF Clear
  <2> QED BY <1>1, <1>2, <2>1 DEF Clear, Split
<1>3. CASE m \notin UnderWay
  <2>1. \E b \in Bridge : \A x \in Bridge : In(given'[x], m) <=> x = b
    BY <1>3 DEF Clear
  <2> QED BY <1>1, <1>3, <2>1 DEF Clear
<1> QED BY <1>2, <1>3

\* A message is where it is clear who settles it.
LEMMA ClearAgain ==
  ASSUME NEW m \in sent, m \in sent', ~Split(Known', leader'),
         leader' \subseteq Bridge, Known' \subseteq Bridge,
         \A x \in Bridge : ~In(inbox'[x], m) /\ ~In(pending'[x], m) =>
           x \in Known' /\ (In(given'[x], m) <=> x \in leader')
  PROVE  Clear(m)'
<1>1. CASE m \in UnderWay'
  BY <1>1 DEF Clear, Split
<1>2. CASE m \notin UnderWay'
  <2>1. \A x \in Bridge : ~In(inbox'[x], m) /\ ~In(pending'[x], m)
    BY <1>2 DEF UnderWay
  <2>2. Known' = Bridge /\ \A x \in Bridge : In(given'[x], m) <=> x \in leader'
    BY <2>1
  <2>3. \E b \in Bridge : \A x \in Bridge : x \in leader' <=> x = b
    BY <2>2, OneLeads
  <2> QED BY <1>2, <2>2, <2>3 DEF Clear
<1> QED BY <1>1, <1>2

\* Neither what is believed nor what is under way changes.
LEMMA MessagesStay ==
  ASSUME Messages, UNCHANGED <<heard, leader, messageVars>>
  PROVE  Messages'
<1>1. Known' = Known
  BY DEF Known
<1>2. /\ leader' = leader /\ doubt' = doubt /\ sent' = sent /\ given' = given
      /\ inbox' = inbox /\ pending' = pending
  BY DEF messageVars
<1>3. QueueTypes' /\ OnceInv' /\ SentInv'
  BY <1>1, <1>2 DEF Messages, QueueTypes, OnceInv, SentInv
<1>4. ASSUME NEW m \in sent \ doubt PROVE Clear(m)'
  <2>1. Clear(m) /\ m \in sent /\ m \in sent'
    BY <1>2 DEF Messages, ClearInv
  <2> QED BY <1>1, <1>2, <2>1, Undisturbed
<1>5. ClearInv'
  BY <1>2, <1>4 DEF ClearInv
<1> QED BY <1>3, <1>5 DEF Messages

\* What the close of gatewaySocket throws away is in doubt.
LEMMA ForgetStep ==
  ASSUME Gateway, Messages, NEW b \in Bridge, Forget(b)
  PROVE  Messages'
<1>0. QueueTypes /\ OnceInv /\ SentInv /\ ClearInv /\ leader \subseteq Known
  BY DEF Messages, Gateway, BridgeTypes
<1>1. /\ pending' = [pending EXCEPT ![b] = <<>>] /\ leader' = leader \ {b}
      /\ doubt' = doubt \cup (IF b \in Known THEN UnderWay
                              ELSE {m \in sent : In(pending[b], m)})
      /\ UNCHANGED <<inbox, sent, given>>
  BY DEF Forget
<1>2. Known' = Known \ {b}
  BY Forgotten
<1>3. /\ pending' \in [Bridge -> Seq(Message)] /\ pending'[b] = <<>>
      /\ \A x \in Bridge : x # b => pending'[x] = pending[x]
  BY <1>0, <1>1, Emptied DEF QueueTypes
<1>4. /\ \A x \in Bridge : /\ Len(pending'[x]) <= Pending /\ Once(pending'[x])
                           /\ x \in Known' => pending'[x] = <<>>
      /\ \A x \in Bridge, m \in Message : In(pending'[x], m) => In(pending[x], m)
  BY <1>0, <1>2, <1>3, Emptied DEF QueueTypes, OnceInv
<1>5. QueueTypes' /\ OnceInv' /\ SentInv'
  BY <1>0, <1>1, <1>3, <1>4 DEF QueueTypes, OnceInv, SentInv
<1>6. ASSUME NEW m \in sent \ doubt' PROVE Clear(m)'
  <2>0. m \in Message /\ m \in sent /\ m \in sent' /\ Clear(m)
    BY <1>0, <1>1, <1>6 DEF QueueTypes, ClearInv
  <2>1. CASE b \in Known
    <3>1. m \notin UnderWay
      BY <1>1, <1>6, <2>1
    <3>2. \A x \in Bridge : ~In(inbox[x], m) /\ ~In(pending[x], m)
      BY <2>0, <3>1 DEF UnderWay
    <3> QED BY <1>1, <1>4, <2>0, <3>1, <3>2, Undisturbed
  <2>2. CASE b \notin Known
    <3>1. ~In(pending[b], m) /\ Known' = Known /\ leader' = leader
      BY <1>0, <1>1, <1>2, <1>6, <2>2
    <3>2. \A x \in Bridge : In(pending'[x], m) <=> In(pending[x], m)
      BY <1>3, <1>4, <2>0, <3>1
    <3> QED BY <1>1, <2>0, <3>1, <3>2, Undisturbed
  <2> QED BY <2>1, <2>2
<1>7. ClearInv'
  BY <1>1, <1>6 DEF ClearInv
<1> QED BY <1>5, <1>7 DEF Messages

\* What a refresh may lose is in doubt.
LEMMA RefreshLoses ==
  ASSUME Messages, NEW b \in Bridge, Refresh(b)
  PROVE  Messages'
<1>0. QueueTypes /\ OnceInv /\ SentInv /\ ClearInv
  BY DEF Messages
<1>1. /\ \/ inbox' = inbox
         \/ inbox' = [inbox EXCEPT ![b] = <<>>]
      /\ doubt' = doubt \cup {m \in sent : In(inbox[b], m)}
      /\ UNCHANGED <<heard, leader, pending, sent, given>>
  BY DEF Refresh, beliefVars
<1>2. Known' = Known
  BY <1>1 DEF Known
<1>3. /\ inbox' \in [Bridge -> Seq(Message)] /\ (inbox'[b] = inbox[b] \/ inbox'[b] = <<>>)
      /\ \A x \in Bridge : x # b => inbox'[x] = inbox[x]
  BY <1>0, <1>1, Emptied DEF QueueTypes
<1>4. /\ \A x \in Bridge : Once(inbox'[x])
      /\ \A x \in Bridge, m \in Message : In(inbox'[x], m) => In(inbox[x], m)
  BY <1>0, <1>3, Emptied DEF OnceInv
<1>5. inbox' \in [Bridge -> Seq(Message)]
  BY <1>0, <1>1, Emptied DEF QueueTypes
<1>6. QueueTypes' /\ OnceInv' /\ SentInv'
  BY <1>0, <1>1, <1>2, <1>4, <1>5 DEF QueueTypes, OnceInv, SentInv
<1>7. ASSUME NEW m \in sent \ doubt' PROVE Clear(m)'
  <2>0. m \in Message /\ m \in sent /\ m \in sent' /\ Clear(m) /\ ~In(inbox[b], m)
    BY <1>0, <1>1, <1>7 DEF QueueTypes, ClearInv
  <2>1. \A x \in Bridge : In(inbox'[x], m) <=> In(inbox[x], m)
    BY <1>3, <1>4, <2>0
  <2> QED BY <1>1, <1>2, <2>0, <2>1, Undisturbed
<1>8. ClearInv'
  BY <1>1, <1>7 DEF ClearInv
<1> QED BY <1>6, <1>8 DEF Messages

\* leader_status: the first one settles what was held back.
LEMMA SettleStep ==
  ASSUME Gateway, Messages, NEW c \in DOMAIN conn, Status(c)
  PROVE  Messages'
<1> DEFINE b == conn[c].bridge
           leads == Head(box[c])
<1>0. /\ QueueTypes /\ OnceInv /\ SentInv /\ ClearInv /\ leader \subseteq Known
      /\ Known \subseteq Bridge /\ ConnTypes
      /\ heard \in [Bridge -> 0..Len(conn)] /\ c \in 1..Len(conn) /\ Len(conn) \in Nat
  BY DEF Messages, Gateway, BridgeTypes, ConnTypes, Known
<1>1. /\ heard' = [heard EXCEPT ![b] = c]
      /\ leader' = IF leads THEN leader \cup {b} ELSE leader \ {b}
      /\ given' = [given EXCEPT ![b] = @ \o Flushed(b, leads)]
      /\ pending' = Kept(b, leads)
      /\ doubt' = IF (b \in Known /\ leader' # leader) \/ Split(Known \cup {b}, leader')
                  THEN doubt \cup UnderWay ELSE doubt
      /\ UNCHANGED <<inbox, sent>>
  BY DEF Status
<1>2. b \in Bridge
  <2>1. conn[c] \in Connection
    BY <1>0 DEF ConnTypes
  <2> QED BY <2>1 DEF Connection
<1> HIDE DEF b, leads
<1>3. Known' = Known \cup {b}
  BY <1>0, <1>1, <1>2 DEF Known
<1>4. \/ b \in Known /\ Flushed(b, leads) = <<>>
      \/ b \notin Known /\ leads /\ Flushed(b, leads) = pending[b]
      \/ b \notin Known /\ ~leads /\ Flushed(b, leads) = <<>>
  BY DEF Flushed
<1>5. /\ pending' \in [Bridge -> Seq(Message)] /\ pending'[b] = <<>>
      /\ \A x \in Bridge : x # b => pending'[x] = pending[x]
  <2>1. pending \in [Bridge -> Seq(Message)] /\ (b \in Known => pending[b] = <<>>)
    BY <1>0, <1>2 DEF QueueTypes
  <2>2. pending' = [pending EXCEPT ![b] = <<>>] \/ (b \in Known /\ pending' = pending)
    BY <1>1 DEF Kept
  <2> QED BY <1>2, <2>1, <2>2, Emptied
<1>6. /\ Flushed(b, leads) \in Seq(Message) /\ Once(Flushed(b, leads))
      /\ \A m : In(Flushed(b, leads), m) <=> b \notin Known /\ leads /\ In(pending[b], m)
  <2>1. pending[b] \in Seq(Message) /\ Once(pending[b])
    BY <1>0, <1>2 DEF QueueTypes, OnceInv
  <2> QED BY <1>4, <2>1, Emptied
<1>7. /\ given' \in [Bridge -> Seq(Message)] /\ given'[b] = given[b] \o Flushed(b, leads)
      /\ \A x \in Bridge : x # b => given'[x] = given[x]
      /\ \A m : In(given'[b], m) <=> In(given[b], m) \/ In(Flushed(b, leads), m)
      /\ Once(given'[b])
  <2>1. given \in [Bridge -> Seq(Message)] /\ given[b] \in Seq(Message) /\ Once(given[b])
    BY <1>0, <1>2 DEF QueueTypes, OnceInv
  <2>2. \A m \in Message : ~(In(given[b], m) /\ In(Flushed(b, leads), m))
    BY <1>0, <1>2, <1>6 DEF OnceInv
  <2> DEFINE q == Flushed(b, leads)
  <2>3. q \in Seq(Message) /\ Once(q) /\ \A m \in Message : ~(In(given[b], m) /\ In(q, m))
    BY <1>6, <2>2
  <2>4. given' = [given EXCEPT ![b] = given[b] \o q]
    BY <1>1
  <2> HIDE DEF q
  <2>5. /\ given[b] \o q \in Seq(Message) /\ Once(given[b] \o q)
        /\ \A x : In(given[b] \o q, x) <=> In(given[b], x) \/ In(q, x)
    BY <2>1, <2>3, Joined
  <2> DEFINE r == given[b] \o q
  <2> HIDE DEF r
  <2>6. /\ given' \in [Bridge -> Seq(Message)] /\ given'[b] = r
        /\ \A x \in Bridge : x # b => given'[x] = given[x]
    BY <1>2, <2>1, <2>4, <2>5 DEF r
  <2> QED BY <2>5, <2>6 DEF q, r
<1>8. QueueTypes'
  BY <1>0, <1>1, <1>3, <1>5, <1>7, Emptied DEF QueueTypes
<1>9. ASSUME NEW x \in Bridge
      PROVE  /\ Once(inbox'[x]) /\ Once(pending'[x]) /\ Once(given'[x])
             /\ \A m \in Message : /\ ~(In(inbox'[x], m) /\ In(pending'[x], m))
                                   /\ ~(In(inbox'[x], m) /\ In(given'[x], m))
                                   /\ ~(In(pending'[x], m) /\ In(given'[x], m))
  <2>1. CASE x = b
    BY <1>0, <1>1, <1>2, <1>5, <1>6, <1>7, <2>1, Emptied DEF OnceInv
  <2>2. CASE x # b
    BY <1>0, <1>1, <1>5, <1>7, <2>2 DEF OnceInv
  <2> QED BY <2>1, <2>2
<1>10. OnceInv'
  BY <1>9 DEF OnceInv
<1>11. SentInv'
  <2> SUFFICES ASSUME NEW m \in Message \ sent, NEW x \in Bridge
               PROVE  ~In(inbox'[x], m) /\ ~In(pending'[x], m) /\ ~In(given'[x], m)
    BY <1>1 DEF SentInv
  <2>1. ~In(inbox[x], m) /\ ~In(pending[x], m) /\ ~In(given[x], m)
    BY <1>0 DEF SentInv
  <2>2. x = b => ~In(pending'[x], m) /\ ~In(given'[x], m)
    BY <1>5, <1>6, <1>7, <2>1, Emptied
  <2>3. x # b => ~In(pending'[x], m) /\ ~In(given'[x], m)
    BY <1>5, <1>7, <2>1
  <2> QED BY <1>1, <2>1, <2>2, <2>3
<1>12. ASSUME NEW m \in sent \ doubt' PROVE Clear(m)'
  <2>0. m \in Message /\ m \in sent /\ m \in sent' /\ Clear(m)
    BY <1>0, <1>1, <1>12 DEF QueueTypes, ClearInv
  <2>1. CASE m \notin UnderWay
    <3>1. \A x \in Bridge : ~In(inbox[x], m) /\ ~In(pending[x], m)
      BY <2>0, <2>1 DEF UnderWay
    <3>2. ASSUME NEW x \in Bridge
          PROVE  ~In(pending'[x], m) /\ (In(given'[x], m) <=> In(given[x], m))
      <4>1. CASE x = b
        BY <1>2, <1>5, <1>6, <1>7, <3>1, <4>1, Emptied
      <4>2. CASE x # b
        BY <1>5, <1>7, <3>1, <4>2
      <4> QED BY <4>1, <4>2
    <3> QED BY <1>1, <2>0, <2>1, <3>1, <3>2, Undisturbed
  <2>2. CASE m \in UnderWay
    <3>1. ~(b \in Known /\ leader' # leader) /\ ~Split(Known', leader')
      BY <1>1, <1>3, <1>12, <2>2
    <3>2. CASE b \in Known
      <4>1. Known' = Known /\ leader' = leader
        BY <1>3, <3>1, <3>2
      <4>2. \A x \in Bridge : pending'[x] = pending[x]
        BY <1>0, <1>5, <3>2 DEF QueueTypes
      <4>3. \A x \in Bridge : In(given'[x], m) <=> In(given[x], m)
        BY <1>6, <1>7, <3>2
      <4> QED BY <1>1, <2>0, <4>1, <4>2, <4>3, Undisturbed
    <3>3. CASE b \notin Known
      <4>1. ASSUME NEW x \in Bridge, ~In(inbox'[x], m), ~In(pending'[x], m)
            PROVE  x \in Known' /\ (In(given'[x], m) <=> x \in leader')
        <5>1. CASE x = b
          <6>1. In(pending[b], m) /\ ~In(given[b], m)
            BY <1>0, <1>1, <1>2, <2>0, <2>2, <3>3, <4>1, <5>1 DEF Clear, OnceInv
          <6>2. In(given'[b], m) <=> leads
            BY <1>6, <1>7, <3>3, <6>1
          <6>3. b \in leader' <=> leads
            BY <1>1
          <6> QED BY <1>3, <5>1, <6>2, <6>3
        <5>2. CASE x # b
          <6>1. pending'[x] = pending[x] /\ given'[x] = given[x] /\ inbox' = inbox
            BY <1>1, <1>5, <1>7, <5>2
          <6>2. x \in Known /\ (In(given[x], m) <=> x \in leader)
            BY <2>0, <2>2, <4>1, <6>1 DEF Clear
          <6>3. x \in leader' <=> x \in leader
            BY <1>1, <5>2
          <6> QED BY <1>3, <6>1, <6>2, <6>3
        <5> QED BY <5>1, <5>2
      <4>2. Known' \subseteq Bridge /\ leader' \subseteq Bridge
        BY <1>0, <1>1, <1>2, <1>3
      <4> QED BY <2>0, <3>1, <4>1, <4>2, ClearAgain
    <3> QED BY <3>2, <3>3
  <2> QED BY <2>1, <2>2
<1>13. ClearInv'
  BY <1>1, <1>12 DEF ClearInv
<1> QED BY <1>8, <1>10, <1>11, <1>13 DEF Messages

\* A message is broadcast: it is clear who leads, or it is in doubt at once.
LEMMA SendStep ==
  ASSUME Gateway, Messages, NEW m \in Message, Send(m)
  PROVE  Messages'
<1>0. QueueTypes /\ OnceInv /\ SentInv /\ ClearInv
  BY DEF Messages
<1>1. /\ m \notin sent /\ sent' = sent \cup {m}
      /\ inbox' = [b \in Bridge |-> Append(inbox[b], m)]
      /\ doubt' = IF Split(Known, leader) THEN doubt \cup {m} ELSE doubt
      /\ UNCHANGED <<heard, leader, pending, given>>
  BY DEF Send, beliefVars
<1>2. Known' = Known
  BY <1>1 DEF Known
<1>3. ASSUME NEW b \in Bridge
      PROVE  /\ inbox'[b] \in Seq(Message) /\ Once(inbox'[b])
             /\ \A x : In(inbox'[b], x) <=> In(inbox[b], x) \/ x = m
  <2>1. inbox[b] \in Seq(Message) /\ Once(inbox[b]) /\ ~In(inbox[b], m)
    BY <1>0, <1>1 DEF QueueTypes, OnceInv, SentInv
  <2> QED BY <1>1, <2>1, Queued
<1>4. inbox' \in [Bridge -> Seq(Message)]
  BY <1>1, <1>3
<1>5. QueueTypes'
  BY <1>0, <1>1, <1>2, <1>4 DEF QueueTypes
<1>6. OnceInv'
  BY <1>0, <1>1, <1>3 DEF OnceInv, SentInv
<1>7. SentInv'
  BY <1>0, <1>1, <1>3 DEF SentInv
<1>8. ASSUME NEW x \in sent' \ doubt' PROVE Clear(x)'
  <2>1. CASE x = m
    <3>1. ~Split(Known', leader')
      BY <1>1, <1>2, <1>8, <2>1
    <3>2. \A b \in Bridge : In(inbox'[b], m)
      BY <1>3
    <3>3. Bridge # {}
      <4>1. Bridge = {} => Known = {} /\ leader = {}
        BY DEF Known, Gateway, BridgeTypes
      <4> QED BY <1>1, <1>2, <3>1, <4>1 DEF Split
    <3>4. x \in UnderWay'
      BY <1>1, <2>1, <3>2, <3>3 DEF UnderWay
    <3> QED BY <2>1, <3>1, <3>2, <3>4 DEF Clear, Split
  <2>2. CASE x # m
    <3>1. x \in sent /\ x \in sent' /\ Clear(x)
      BY <1>0, <1>1, <1>8, <2>2 DEF ClearInv
    <3>2. \A b \in Bridge : In(inbox'[b], x) <=> In(inbox[b], x)
      BY <1>3, <2>2
    <3> QED BY <1>1, <1>2, <3>1, <3>2, Undisturbed
  <2> QED BY <2>1, <2>2
<1>9. ClearInv'
  BY <1>8 DEF ClearInv
<1> QED BY <1>5, <1>6, <1>7, <1>9 DEF Messages

\* A bridge gets a message: it holds it back, dispatches it if it leads, or
\* leaves it to the leader.
LEMMA ReceiveStep ==
  ASSUME Gateway, Messages, NEW b \in Bridge, Receive(b)
  PROVE  Messages'
<1> DEFINE m == Head(inbox[b])
           held == b \notin Known /\ Len(pending[b]) < Pending
<1>0. /\ QueueTypes /\ OnceInv /\ SentInv /\ ClearInv
      /\ leader \subseteq Known /\ Known \subseteq Bridge
  BY DEF Messages, Gateway, BridgeTypes, Known
<1>1. /\ inbox[b] # <<>> /\ inbox' = [inbox EXCEPT ![b] = Tail(@)]
      /\ pending' = IF held THEN [pending EXCEPT ![b] = Append(@, m)] ELSE pending
      /\ given' = IF b \in leader THEN [given EXCEPT ![b] = Append(@, m)] ELSE given
      /\ doubt' = IF b \in Known \/ held THEN doubt ELSE doubt \cup {m}
      /\ UNCHANGED <<heard, leader, sent>>
  BY DEF Receive, beliefVars
<1>2. Known' = Known
  BY <1>1 DEF Known
<1>3. /\ inbox[b] \in Seq(Message) /\ pending[b] \in Seq(Message) /\ given[b] \in Seq(Message)
      /\ Once(inbox[b]) /\ Once(pending[b]) /\ Once(given[b])
  BY <1>0 DEF QueueTypes, OnceInv
<1>4. /\ m \in Message /\ Tail(inbox[b]) \in Seq(Message)
      /\ \A x : In(inbox[b], x) <=> In(Tail(inbox[b]), x) \/ x = m
      /\ Once(Tail(inbox[b])) /\ ~In(Tail(inbox[b]), m)
  BY <1>1, <1>3, Unqueued
<1> HIDE DEF m
<1>5. m \in sent /\ ~In(pending[b], m) /\ ~In(given[b], m)
  BY <1>0, <1>4 DEF SentInv, OnceInv
<1>6. /\ inbox' \in [Bridge -> Seq(Message)] /\ inbox'[b] = Tail(inbox[b])
      /\ \A x \in Bridge : x # b => inbox'[x] = inbox[x]
  BY <1>0, <1>1, <1>4 DEF QueueTypes
<1>7. /\ pending' \in [Bridge -> Seq(Message)] /\ Once(pending'[b])
      /\ \A x \in Bridge : x # b => pending'[x] = pending[x]
      /\ \A x : In(pending'[b], x) <=> In(pending[b], x) \/ (held /\ x = m)
      /\ Len(pending'[b]) <= Pending /\ (b \in Known => pending'[b] = <<>>)
  <2>1. CASE held
    <3>1. /\ Append(pending[b], m) \in Seq(Message) /\ Once(Append(pending[b], m))
          /\ Len(Append(pending[b], m)) = Len(pending[b]) + 1
          /\ \A x : In(Append(pending[b], m), x) <=> In(pending[b], x) \/ x = m
      BY <1>3, <1>4, <1>5, Queued
    <3>2. /\ pending' \in [Bridge -> Seq(Message)] /\ pending'[b] = Append(pending[b], m)
          /\ \A x \in Bridge : x # b => pending'[x] = pending[x]
      BY <1>0, <1>1, <2>1, <3>1 DEF QueueTypes
    <3>3. Len(pending[b]) \in Nat /\ Pending \in Nat
      BY <1>3, LeaderAssumption
    <3> QED BY <2>1, <3>1, <3>2, <3>3
  <2>2. CASE ~held
    <3> HIDE DEF held
    <3> QED BY <1>0, <1>1, <1>3, <2>2 DEF QueueTypes
  <2> QED BY <2>1, <2>2
<1>8. /\ given' \in [Bridge -> Seq(Message)] /\ Once(given'[b])
      /\ \A x \in Bridge : x # b => given'[x] = given[x]
      /\ \A x : In(given'[b], x) <=> In(given[b], x) \/ (b \in leader /\ x = m)
  <2>1. CASE b \in leader
    <3>1. /\ Append(given[b], m) \in Seq(Message) /\ Once(Append(given[b], m))
          /\ \A x : In(Append(given[b], m), x) <=> In(given[b], x) \/ x = m
      BY <1>3, <1>4, <1>5, Queued
    <3>2. /\ given' \in [Bridge -> Seq(Message)] /\ given'[b] = Append(given[b], m)
          /\ \A x \in Bridge : x # b => given'[x] = given[x]
      BY <1>0, <1>1, <2>1, <3>1 DEF QueueTypes
    <3> QED BY <2>1, <3>1, <3>2
  <2>2. CASE b \notin leader
    BY <1>0, <1>1, <1>3, <2>2 DEF QueueTypes
  <2> QED BY <2>1, <2>2
<1>9. held => b \notin Known
  OBVIOUS
<1> HIDE DEF held
<1>10. QueueTypes'
  BY <1>0, <1>1, <1>2, <1>6, <1>7, <1>8 DEF QueueTypes
<1>11. ASSUME NEW x \in Bridge
       PROVE  /\ Once(inbox'[x]) /\ Once(pending'[x]) /\ Once(given'[x])
              /\ \A y \in Message : /\ ~(In(inbox'[x], y) /\ In(pending'[x], y))
                                    /\ ~(In(inbox'[x], y) /\ In(given'[x], y))
                                    /\ ~(In(pending'[x], y) /\ In(given'[x], y))
  <2>1. CASE x = b
    BY <1>0, <1>4, <1>5, <1>6, <1>7, <1>8, <1>9, <2>1 DEF OnceInv
  <2>2. CASE x # b
    BY <1>0, <1>6, <1>7, <1>8, <2>2 DEF OnceInv
  <2> QED BY <2>1, <2>2
<1>12. OnceInv'
  BY <1>11 DEF OnceInv
<1>13. SentInv'
  <2> SUFFICES ASSUME NEW y \in Message \ sent, NEW x \in Bridge
               PROVE  ~In(inbox'[x], y) /\ ~In(pending'[x], y) /\ ~In(given'[x], y)
    BY <1>1 DEF SentInv
  <2>1. ~In(inbox[x], y) /\ ~In(pending[x], y) /\ ~In(given[x], y) /\ y # m
    BY <1>0, <1>5 DEF SentInv
  <2>2. x = b => ~In(inbox'[x], y) /\ ~In(pending'[x], y) /\ ~In(given'[x], y)
    BY <1>4, <1>6, <1>7, <1>8, <2>1
  <2>3. x # b => ~In(inbox'[x], y) /\ ~In(pending'[x], y) /\ ~In(given'[x], y)
    BY <1>6, <1>7, <1>8, <2>1
  <2> QED BY <2>2, <2>3
<1>14. ASSUME NEW y \in sent \ doubt' PROVE Clear(y)'
  <2>0. y \in Message /\ y \in sent /\ y \in sent' /\ Clear(y)
    BY <1>0, <1>1, <1>14 DEF QueueTypes, ClearInv
  <2>1. CASE y # m
    <3>1. ASSUME NEW x \in Bridge
          PROVE  /\ In(inbox'[x], y) <=> In(inbox[x], y)
                 /\ In(pending'[x], y) <=> In(pending[x], y)
                 /\ In(given'[x], y) <=> In(given[x], y)
      <4>1. CASE x = b
        BY <1>4, <1>6, <1>7, <1>8, <2>1, <4>1
      <4>2. CASE x # b
        BY <1>6, <1>7, <1>8, <4>2
      <4> QED BY <4>1, <4>2
    <3> QED BY <1>1, <1>2, <2>0, <3>1, Undisturbed
  <2>2. CASE y = m
    <3>1. b \in Known \/ held
      BY <1>1, <1>14, <2>2
    <3>2. m \in UnderWay
      BY <1>4, <1>5 DEF UnderWay
    <3>3. ~Split(Known', leader')
      BY <1>1, <1>2, <2>0, <2>2, <3>2 DEF Clear
    <3>4. ASSUME NEW x \in Bridge, ~In(inbox'[x], m), ~In(pending'[x], m)
          PROVE  x \in Known' /\ (In(given'[x], m) <=> x \in leader')
      <4>1. CASE x = b
        BY <1>1, <1>2, <1>5, <1>7, <1>8, <3>1, <3>4, <4>1
      <4>2. CASE x # b
        <5>1. ~In(inbox[x], m) /\ ~In(pending[x], m) /\ given'[x] = given[x]
          BY <1>6, <1>7, <1>8, <3>4, <4>2
        <5> QED BY <1>1, <1>2, <2>0, <2>2, <3>2, <5>1 DEF Clear
      <4> QED BY <4>1, <4>2
    <3>5. leader' \subseteq Bridge /\ Known' \subseteq Bridge
      BY <1>0, <1>1, <1>2
    <3> QED BY <2>0, <2>2, <3>3, <3>4, <3>5, ClearAgain
  <2> QED BY <2>1, <2>2
<1>15. ClearInv'
  BY <1>1, <1>14 DEF ClearInv
<1> QED BY <1>10, <1>12, <1>13, <1>15 DEF Messages

LEMMA MessagesStep ==
  ASSUME Gateway, Messages, [LeaderNext]_leaderVars
  PROVE  Messages'
<1>1. ASSUME NEW b \in Bridge, Connect(b) \/ Fire(b) \/ Nap(b) \/ Wake(b) \/ Revoke(b)
      PROVE  UNCHANGED <<heard, leader, messageVars>>
  BY <1>1 DEF Connect, Fire, Nap, Wake, Revoke, beliefVars
<1>2. ASSUME NEW c \in DOMAIN conn, GatewayCloses(c) \/ Beat(c) \/ Stale(c)
      PROVE  UNCHANGED <<heard, leader, messageVars>>
  BY <1>2 DEF GatewayCloses, Beat, Stale, beliefVars
<1>3. ASSUME NEW k \in DOMAIN passes, NEW c, Visit(k, c)
      PROVE  UNCHANGED <<heard, leader, messageVars>>
  BY <1>3 DEF Visit, beliefVars
<1>4. ASSUME NEW b \in Bridge, Refused(b) PROVE Messages'
  BY <1>4, ForgetStep DEF Refused
<1>5. ASSUME NEW c \in DOMAIN conn, SocketCloses(c) PROVE Messages'
  <2>1. CASE gw[conn[c].bridge] = c
    <3>1. conn[c] \in Connection
      BY DEF Gateway, ConnTypes
    <3>2. conn[c].bridge \in Bridge
      BY <3>1 DEF Connection
    <3> QED BY <1>5, <2>1, <3>2, ForgetStep DEF SocketCloses
  <2>2. CASE gw[conn[c].bridge] # c
    BY <1>5, <2>2, MessagesStay DEF SocketCloses, beliefVars
  <2> QED BY <2>1, <2>2
<1>6. CASE UNCHANGED leaderVars
  BY <1>6, MessagesStay DEF leaderVars, beliefVars
<1>7. CASE LeaderNext
  BY <1>1, <1>2, <1>3, <1>4, <1>5, <1>7, MessagesStay, RefreshLoses, SettleStep,
     SendStep, ReceiveStep DEF LeaderNext
<1> QED BY <1>6, <1>7

-----------------------------------------------------------------------------
LEMMA InvStep == LeaderInv /\ [LeaderNext]_leaderVars => LeaderInv'
<1> SUFFICES ASSUME LeaderInv, [LeaderNext]_leaderVars PROVE LeaderInv'
  OBVIOUS
<1> QED BY GatewayStep, MessagesStep DEF LeaderInv

LEMMA AlwaysInv == LeaderSpec => []LeaderInv
<1>1. LeaderInit => LeaderInv
  BY LeaderInitInv
<1>2. LeaderInv /\ [LeaderNext]_leaderVars => LeaderInv'
  BY InvStep
<1> QED BY <1>1, <1>2, PTL DEF LeaderSpec

\* The types; a bridge takes only an open socket of its own for its
\* gatewaySocket, leads only once it was told, on whichever socket, and holds
\* messages back only until then, no more than pendingDispatches may (bridge.ts).
THEOREM LeaderTypeCorrect == LeaderSpec => []LeaderTypeOK
<1>1. ASSUME LeaderInv PROVE LeaderTypeOK
  <2>1. ConnTypes /\ BridgeTypes /\ QueueTypes
    BY <1>1 DEF LeaderInv, Gateway, Messages
  <2>2. DOMAIN box = DOMAIN conn
    BY <2>1 DEF ConnTypes
  <2> QED BY <2>1, <2>2 DEF LeaderTypeOK, ConnTypes, BridgeTypes, QueueTypes, Connection
<1> QED BY <1>1, AlwaysInv, PTL

\* However many elections overlap and however many sockets a bridge has, the
\* last election to finish is exact if nothing it looked at changed since it
\* began: a bridge leads exactly if the socket it heeds is the newest live one
\* (user-gateway.ts, broadcastLeaderStatus).
THEOREM ElectionsAreExact == LeaderSpec => []ElectionIsExact
<1>1. ASSUME LeaderInv PROVE ElectionIsExact
  <2> SUFFICES ASSUME decided, NEW b \in Known, heard[b] \in Reading, box[heard[b]] = <<>>
               PROVE  b \in leader <=> heard[b] \in Rightful
    BY DEF ElectionIsExact
  <2>1. b \in Bridge
    BY DEF Known
  <2> QED BY <1>1, <2>1 DEF LeaderInv, Gateway, ToldInv
<1> QED BY <1>1, AlwaysInv, PTL

\* Of all the bridges that get a message exactly one gives it to its agents,
\* and once, as long as leadership was clear while it was under way; the first
\* status settles what was held back (bridge.ts, the channel handler and
\* leader_status).
THEOREM DispatchedOnce == LeaderSpec => []OnceUnlessInDoubt
<1>1. ASSUME LeaderInv PROVE OnceUnlessInDoubt
  <2> SUFFICES ASSUME NEW m \in sent \ (doubt \cup UnderWay)
               PROVE  \E p \in Dispatches(m) : Dispatches(m) = {p}
    BY DEF OnceUnlessInDoubt
  <2>1. PICK b \in Bridge : \A x \in Bridge : In(given[x], m) <=> x = b
    BY <1>1 DEF LeaderInv, Messages, ClearInv, Clear
  <2>2. PICK i \in DOMAIN given[b] : given[b][i] = m
    BY <2>1 DEF In
  <2>3. ASSUME NEW x \in Bridge, NEW j \in DOMAIN given[x], given[x][j] = m
        PROVE  x = b /\ j = i
    <3>1. x = b
      BY <2>1, <2>3 DEF In
    <3> QED BY <1>1, <2>2, <2>3, <3>1 DEF LeaderInv, Messages, OnceInv, Once
  <2>4. <<b, i>> \in Dispatches(m)
    BY <2>2 DEF Dispatches
  <2>5. ASSUME NEW p \in Dispatches(m) PROVE p = <<b, i>>
    <3>1. PICK x \in Bridge : p \in {<<x, j>> : j \in {n \in DOMAIN given[x] : given[x][n] = m}}
      BY <2>5 DEF Dispatches
    <3> QED BY <2>3, <3>1
  <2> QED BY <2>4, <2>5
<1> QED BY <1>1, AlwaysInv, PTL

USE PresenceAssumption

-----------------------------------------------------------------------------
(* Presence: the invariant *)

SubPcs   == {"member", "note", "noting", "noted", "sub", "subbed", "back",
             "backing", "resnap", "resnapped"}
LeavePcs == {"less", "lessing", "lessened", "unsub", "unsubbed"}
WaitPcs  == {"noting", "backing", "lessing"}
Pcs      == SubPcs \cup LeavePcs \cup {"done"}

\* Stages that only a tab that is not subscribed reaches, and the others.
FreshPcs == {"note", "noting", "noted", "sub", "subbed", "back", "backing"}
KnownPcs == {"resnap", "resnapped", "less", "lessing", "lessened", "unsub", "unsubbed"}

JobRec == [kind : {"sub", "unsub", "close"}, pc : Pcs, snap : SUBSET User]
Cast   == [by : Tab \X Nat, about : User, online : BOOLEAN, to : SUBSET User,
           failed : SUBSET User]

Types ==
  /\ open \subseteq Tab /\ wants \subseteq Tab /\ noted \subseteq Tab
  /\ missed \subseteq Tab /\ subscribers \subseteq User
  /\ view \in [Tab -> SUBSET User]
  /\ count \in [User -> Nat] /\ conns \in [User -> Nat]
  /\ mark \in [User -> SUBSET Marks]
  /\ jobs \in [Tab -> Seq(JobRec)] /\ bcast \in Seq(Cast)

\* A handler keeps to the stages of its message.
JobInv ==
  \A t \in Tab : \A i \in DOMAIN jobs[t] :
    IF jobs[t][i].kind = "sub" THEN jobs[t][i].pc \in SubPcs \cup {"done"}
    ELSE jobs[t][i].pc \in LeavePcs \cup {"done"}

\* For each broadcast one handler waits; who failed was marked.
WaitInv ==
  /\ \A k \in DOMAIN bcast :
       /\ bcast[k].by[2] \in DOMAIN jobs[bcast[k].by[1]]
       /\ jobs[bcast[k].by[1]][bcast[k].by[2]].pc \in WaitPcs
       /\ \A u \in bcast[k].failed : "dropped" \in mark[u]
  /\ \A k, l \in DOMAIN bcast : bcast[k].by = bcast[l].by => k = l

Alone(u) == "overlap" \notin mark[u]

\* Until two handlers of a tab overlap, one runs at a time ...
SerialInv ==
  \A t \in Tab : Alone(Owner[t]) =>
    \A i, j \in DOMAIN jobs[t] :
      jobs[t][i].pc # "done" /\ jobs[t][j].pc # "done" => i = j

\* ... and what it found in the attachment still stands.
StageInv ==
  \A t \in Tab : Alone(Owner[t]) =>
    \A i \in DOMAIN jobs[t] :
      /\ jobs[t][i].pc \in FreshPcs => t \notin noted
      /\ jobs[t][i].pc \in KnownPcs => t \in noted

BalanceInv == NoPhantomSocket /\ OnlineWithATab

Leaving(t)  == Job(t, {"lessing", "lessened", "unsub", "unsubbed"})
Coming(t)   == Job(t, {"noting", "noted", "sub", "subbed", "back"})
Dropping(t) == Job(t, {"unsub", "unsubbed"})
Heard(t)    == Job(t, {"subbed"})
Snapped(t)  == Job(t, {"subbed", "resnapped"})

\* A tab that presenceSubCounts counts.
Listed(t)   == t \in noted /\ ~Dropping(t)
ListedOf(u) == Cardinality({t \in TabsOf(u) : Listed(t)})

\* presenceSubCounts of the gateway counts every subscribed tab; it may count
\* tabs whose close failed.
CountInv ==
  \A u \in User :
    mark[u] \cap {"overlap", "short", "crossed"} = {} => ListedOf(u) <= count[u]

\* While the last tab leaves there is no other.
UnsubInv ==
  \A t \in Tab :
    mark[Owner[t]] \cap {"overlap", "short", "crossed"} = {} /\ Dropping(t) =>
      \A x \in TabsOf(Owner[t]) : ~Listed(x) /\ ~Subscribing(x)

HearInv ==
  \A t \in Tab :
    mark[Owner[t]] \cap {"overlap", "short", "crossed", "dropped"} = {}
    /\ (Listed(t) \/ Heard(t)) => Owner[t] \in subscribers

\* A tab that is subscribed or subscribing wants to be, or has dropped its view.
WantInv ==
  /\ wants \subseteq open
  /\ \A t \in open : mark[Owner[t]] = {} =>
       /\ Subscribing(t) => t \in wants
       /\ t \in noted => t \in wants \/ t \in missed

OnItsWay(u, v) == \E k \in DOMAIN bcast : bcast[k].about = v /\ u \in bcast[k].to

\* What a tab shows of v is true, or will be put right: a broadcast is under way.
ViewRight(t, v) == t \in wants \cap noted /\ ~Snapped(t) => (v \in view[t] <=> conns[v] > 0)
SnapRight(t, v) ==
  \A i \in DOMAIN jobs[t] : jobs[t][i].pc \in {"subbed", "resnapped"} =>
    (v \in jobs[t][i].snap <=> conns[v] > 0)

PictureInv ==
  \A t \in Tab : mark[Owner[t]] = {} /\ t \notin missed =>
    \A v \in User : OnItsWay(Owner[t], v) \/ (ViewRight(t, v) /\ SnapRight(t, v))

Inv == /\ Types /\ JobInv /\ WaitInv /\ SerialInv /\ StageInv
       /\ BalanceInv /\ CountInv /\ UnsubInv /\ HearInv
       /\ WantInv /\ PictureInv

-----------------------------------------------------------------------------
(* Handlers that move on, and handlers that start *)

Moves(t, i, p) ==
  /\ jobs' \in [Tab -> Seq(JobRec)]
  /\ \A x \in Tab : DOMAIN jobs'[x] = DOMAIN jobs[x]
  /\ \A x \in Tab \ {t} : jobs'[x] = jobs[x]
  /\ \A j \in DOMAIN jobs[t] : j # i => jobs'[t][j] = jobs[t][j]
  /\ jobs'[t][i].pc = p /\ jobs'[t][i].kind = jobs[t][i].kind

\* A handler that goes on to p.
LEMMA AtMoves ==
  ASSUME Types, NEW t \in Tab, NEW i \in DOMAIN jobs[t], NEW p \in Pcs,
         jobs' = At(t, i, p)
  PROVE  Moves(t, i, p) /\ jobs'[t][i].snap = jobs[t][i].snap
<1>1. jobs[t] \in Seq(JobRec) /\ jobs[t][i] \in JobRec /\ jobs \in [Tab -> Seq(JobRec)]
  BY DEF Types
<1> DEFINE r == [jobs[t][i] EXCEPT !.pc = p]
           s == [jobs[t] EXCEPT ![i] = r]
<1>2. r \in JobRec /\ r.pc = p /\ r.kind = jobs[t][i].kind /\ r.snap = jobs[t][i].snap
  BY <1>1 DEF JobRec
<1>3. jobs' = [jobs EXCEPT ![t] = s]
  BY DEF At
<1> HIDE DEF r
<1>4. s \in Seq(JobRec) /\ DOMAIN s = DOMAIN jobs[t] /\ s[i] = r
      /\ \A j \in DOMAIN jobs[t] : j # i => s[j] = jobs[t][j]
  BY <1>1, <1>2
<1> HIDE DEF s
<1> QED BY <1>1, <1>2, <1>3, <1>4 DEF Moves

Starts(t, kind, p) ==
  /\ jobs' \in [Tab -> Seq(JobRec)]
  /\ \A x \in Tab \ {t} : jobs'[x] = jobs[x]
  /\ Len(jobs[t]) \in Nat /\ DOMAIN jobs[t] = 1..Len(jobs[t])
  /\ DOMAIN jobs'[t] = 1..(Len(jobs[t]) + 1)
  /\ \A j \in DOMAIN jobs[t] : jobs'[t][j] = jobs[t][j]
  /\ jobs'[t][Len(jobs[t]) + 1].pc = p /\ jobs'[t][Len(jobs[t]) + 1].kind = kind

\* A message that arrives starts a handler at its end of the queue.
LEMMA ArrivesStarts ==
  ASSUME Types, NEW t \in Tab, NEW p \in Pcs, NEW kind \in {"sub", "unsub", "close"},
         Arrives(t, kind, p)
  PROVE  Starts(t, kind, p) /\ t \in open
<1> DEFINE r == [kind |-> kind, pc |-> p, snap |-> {}]
           s == Append(jobs[t], r)
<1>1. jobs[t] \in Seq(JobRec) /\ jobs \in [Tab -> Seq(JobRec)]
  BY DEF Types
<1>2. r \in JobRec /\ r.pc = p /\ r.kind = kind
  BY DEF JobRec
<1>3. jobs' = [jobs EXCEPT ![t] = s] /\ t \in open
  BY DEF Arrives
<1> HIDE DEF r
<1>4. /\ s \in Seq(JobRec) /\ Len(jobs[t]) \in Nat /\ DOMAIN jobs[t] = 1..Len(jobs[t])
      /\ DOMAIN s = 1..(Len(jobs[t]) + 1) /\ s[Len(jobs[t]) + 1] = r
      /\ \A j \in DOMAIN jobs[t] : s[j] = jobs[t][j]
  BY <1>1, <1>2
<1> HIDE DEF s
<1> QED BY <1>1, <1>2, <1>3, <1>4 DEF Starts

\* What other tabs' handlers are about does not change.
Unmoved(x) ==
  /\ Leaving(x)' <=> Leaving(x)
  /\ Coming(x)' <=> Coming(x)
  /\ Dropping(x)' <=> Dropping(x)
  /\ Heard(x)' <=> Heard(x)
  /\ Snapped(x)' <=> Snapped(x)
  /\ Subscribing(x)' <=> Subscribing(x)

LEMMA SameUnmoved ==
  ASSUME NEW x, jobs'[x] = jobs[x]
  PROVE  Unmoved(x)
BY DEF Unmoved, Leaving, Coming, Dropping, Heard, Snapped, Subscribing, Job

\* Where the handlers of a tab are says what the one that runs is about.
Stands(t, q, kind) ==
  /\ Leaving(t) <=> q \in {"lessing", "lessened", "unsub", "unsubbed"}
  /\ Coming(t) <=> q \in {"noting", "noted", "sub", "subbed", "back"}
  /\ Dropping(t) <=> q \in {"unsub", "unsubbed"}
  /\ Heard(t) <=> q = "subbed"
  /\ Snapped(t) <=> q \in {"subbed", "resnapped"}
  /\ Subscribing(t) <=> kind = "sub" /\ q # "done"

\* Of a tab whose handlers never overlapped, the handler that moves is the only
\* one that runs: its stage says all that counts of the tab.
LEMMA MovesStands ==
  ASSUME Types, SerialInv, NEW t \in Tab, NEW i \in DOMAIN jobs[t], NEW p,
         NEW q, NEW kind, q = jobs[t][i].pc, kind = jobs[t][i].kind,
         Moves(t, i, p), q # "done", Alone(Owner[t])
  PROVE  /\ Stands(t, q, kind)
         /\ Stands(t, p, kind)'
         /\ \A j, k \in DOMAIN jobs'[t] :
              jobs'[t][j].pc # "done" /\ jobs'[t][k].pc # "done" => j = k
<1>1. \A j \in DOMAIN jobs[t] : j # i => jobs[t][j].pc = "done"
  BY DEF SerialInv
<1>2. /\ DOMAIN jobs'[t] = DOMAIN jobs[t] /\ jobs'[t][i].pc = p
      /\ \A j \in DOMAIN jobs[t] : j # i => jobs'[t][j].pc = "done"
      /\ jobs'[t][i].kind = jobs[t][i].kind
  BY <1>1 DEF Moves
<1>3. Stands(t, q, kind)
  BY <1>1 DEF Stands, Leaving, Coming, Dropping, Heard, Snapped, Subscribing, Job
<1>4. Stands(t, p, kind)'
  BY <1>2 DEF Stands, Leaving, Coming, Dropping, Heard, Snapped, Subscribing, Job
<1> QED BY <1>2, <1>3, <1>4

\* The same for a handler that starts while none runs.
LEMMA StartsStands ==
  ASSUME Types, NEW t \in Tab, NEW kind, NEW p,
         Starts(t, kind, p), ~Running(t)
  PROVE  /\ Stands(t, "done", kind)
         /\ Stands(t, p, kind)'
         /\ \A j, k \in DOMAIN jobs'[t] :
              jobs'[t][j].pc # "done" /\ jobs'[t][k].pc # "done" => j = k
<1>1. \A j \in DOMAIN jobs[t] : jobs[t][j].pc = "done"
  BY DEF Running
<1> DEFINE n == Len(jobs[t]) + 1
<1>2. /\ n \in DOMAIN jobs'[t] /\ jobs'[t][n].pc = p /\ jobs'[t][n].kind = kind
      /\ \A j \in DOMAIN jobs'[t] : j # n => jobs'[t][j].pc = "done"
  <2>1. n \in DOMAIN jobs'[t] /\ \A j \in DOMAIN jobs'[t] : j # n => j \in DOMAIN jobs[t]
    BY DEF Starts
  <2>2. /\ jobs'[t][n].pc = p /\ jobs'[t][n].kind = kind
        /\ \A j \in DOMAIN jobs[t] : jobs'[t][j] = jobs[t][j]
    BY DEF Starts
  <2> QED BY <1>1, <2>1, <2>2
<1> HIDE DEF n
<1>3. Stands(t, "done", kind)
  BY <1>1 DEF Stands, Leaving, Coming, Dropping, Heard, Snapped, Subscribing, Job
<1>4. Stands(t, p, kind)'
  BY <1>2 DEF Stands, Leaving, Coming, Dropping, Heard, Snapped, Subscribing, Job
<1> QED BY <1>2, <1>3, <1>4

-----------------------------------------------------------------------------
(* What a step of one handler leaves in order *)

MarksStay == \A u \in User : mark[u] \subseteq mark'[u]

\* What befell a user is never forgotten.
LEMMA MarksGrow ==
  ASSUME Types, Next
  PROVE  MarksStay
<1>0. mark \in [User -> SUBSET Marks] /\ \A t \in Tab : Owner[t] \in User
  BY DEF Types
<1>1. ASSUME NEW u \in User, NEW m, NEW w, mark' = Marked(u, m, w) PROVE MarksStay
  BY <1>0, <1>1 DEF MarksStay, Marked
<1>2. ASSUME NEW u \in User, NEW S, mark' = [mark EXCEPT ![u] = @ \cup S] PROVE MarksStay
  BY <1>0, <1>2 DEF MarksStay
<1>3. ASSUME mark' = mark PROVE MarksStay
  BY <1>3 DEF MarksStay
<1>4. ASSUME NEW t \in Tab, Subscribe(t) \/ Unsubscribe(t) \/ Close(t) PROVE MarksStay
  <2>1. CASE Subscribe(t)
    <3> DEFINE S == IF Running(t) THEN {"overlap"} ELSE {}
               R == IF \E x \in TabsOf(Owner[t]) : Job(x, {"unsub", "unsubbed"})
                    THEN {"crossed"} ELSE {}
    <3>1. mark' = [mark EXCEPT ![Owner[t]] = @ \cup S \cup R]
      BY <2>1 DEF Subscribe
    <3> HIDE DEF S, R
    <3> QED BY <3>1, <1>0 DEF MarksStay
  <2>2. CASE Unsubscribe(t) \/ Close(t)
    BY <2>2, <1>0, <1>1 DEF Unsubscribe, Close
  <2> QED BY <1>4, <2>1, <2>2
<1>5. ASSUME NEW t \in Tab, NEW i \in DOMAIN jobs[t], Handler(t, i) PROVE MarksStay
  <2>1. CASE Fail(t, i)
    <3>1. \E S, R : mark' = [mark EXCEPT ![Owner[t]] = @ \cup S \cup R]
      BY <2>1 DEF Fail
    <3> QED BY <3>1, <1>0 DEF MarksStay
  <2>2. CASE AfterLess(t, i)
    BY <2>2, <1>0, <1>1 DEF AfterLess
  <2>3. CASE ~Fail(t, i) /\ ~AfterLess(t, i)
    BY <1>3, <1>5, <2>3 DEF Handler, Member, AfterNote, AfterSub, AfterUnsub, Note, Sub, Unsub
  <2> QED BY <2>1, <2>2, <2>3
<1>6. ASSUME NEW k \in DOMAIN bcast, NEW u \in User, Deliver(k, u) \/ DeliveryFails(k, u)
      PROVE  MarksStay
  BY <1>1, <1>3, <1>6 DEF Deliver, DeliveryFails
<1>7. ASSUME Evict PROVE MarksStay
  BY <1>0, <1>7 DEF Evict, MarksStay
<1> QED BY <1>4, <1>5, <1>6, <1>7 DEF Next

\* The parts of a broadcast.
LEMMA CastIs ==
  ASSUME Types, NEW k \in DOMAIN bcast
  PROVE  /\ bcast[k] \in Cast /\ bcast[k].by \in Tab \X Nat
         /\ bcast[k].by[1] \in Tab /\ bcast[k].by[2] \in Nat
         /\ bcast[k].about \in User /\ bcast[k].online \in BOOLEAN
         /\ bcast[k].to \subseteq User /\ bcast[k].failed \subseteq User
<1>1. bcast[k] \in Cast
  BY DEF Types
<1>2. bcast[k].by \in Tab \X Nat
  BY <1>1 DEF Cast
<1>3. bcast[k].by[1] \in Tab /\ bcast[k].by[2] \in Nat
  BY <1>2
<1> QED BY <1>1, <1>2, <1>3 DEF Cast

\* The handler of t that stood at q, or is new, goes on to p.
Turns(t, q, p, kind) ==
  /\ \A x \in Tab \ {t} : Unmoved(x) /\ (x \in noted' <=> x \in noted)
  /\ MarksStay
  /\ Alone(Owner[t])' => Stands(t, q, kind) /\ Stands(t, p, kind)'

\* How the size of a set changes with one element.
LEMMA OneSetStep ==
  ASSUME NEW S, NEW T, NEW t, IsFiniteSet(S), \A x : x # t => (x \in S <=> x \in T)
  PROVE  /\ IsFiniteSet(T) /\ Cardinality(S) \in Nat /\ Cardinality(T) \in Nat
         /\ t \in T /\ t \notin S => Cardinality(T) = Cardinality(S) + 1
         /\ t \in S /\ t \notin T => Cardinality(T) = Cardinality(S) - 1
         /\ (t \in S <=> t \in T) => Cardinality(T) = Cardinality(S)
<1>1. Cardinality(S) \in Nat
  BY FS_CardinalityType
<1>2. CASE t \in T
  <2>1. T = S \cup {t}
    BY <1>2
  <2>2. IsFiniteSet(T) /\ Cardinality(T) = IF t \in S THEN Cardinality(S) ELSE Cardinality(S) + 1
    BY <2>1, FS_AddElement
  <2> QED BY <1>1, <1>2, <2>2
<1>3. CASE t \notin T
  <2>1. T = S \ {t}
    BY <1>3
  <2>2. IsFiniteSet(T) /\ Cardinality(T) = IF t \in S THEN Cardinality(S) - 1 ELSE Cardinality(S)
    BY <2>1, FS_RemoveElement
  <2>3. Cardinality(T) \in Nat
    BY <2>2, FS_CardinalityType
  <2> QED BY <1>1, <1>3, <2>2, <2>3
<1> QED BY <1>2, <1>3

\* How many tabs are counted changes with the tab that moves ...
LEMMA CountedStep ==
  ASSUME NEW t \in Tab, NEW u \in User, \A x \in Tab \ {t} : Counted(x)' <=> Counted(x)
  PROVE  /\ CountedOf(u) \in Nat /\ CountedOf(u)' \in Nat
         /\ u # Owner[t] => CountedOf(u)' = CountedOf(u)
         /\ u = Owner[t] =>
              /\ Counted(t)' /\ ~Counted(t) => CountedOf(u)' = CountedOf(u) + 1
              /\ Counted(t) /\ ~Counted(t)' => CountedOf(u)' = CountedOf(u) - 1
              /\ (Counted(t)' <=> Counted(t)) => CountedOf(u)' = CountedOf(u)
<1> DEFINE S == {x \in TabsOf(u) : Counted(x)}
           T == {x \in TabsOf(u) : Counted(x)'}
<1>1. CountedOf(u) = Cardinality(S) /\ CountedOf(u)' = Cardinality(T)
  BY DEF CountedOf, TabsOf
<1>2. IsFiniteSet(S)
  BY FS_Subset DEF TabsOf
<1>3. \A x : x # t => (x \in S <=> x \in T)
  BY DEF TabsOf
<1>4. /\ t \in S <=> u = Owner[t] /\ Counted(t)
      /\ t \in T <=> u = Owner[t] /\ Counted(t)'
  BY DEF TabsOf
<1> HIDE DEF S, T
<1> QED BY <1>1, <1>2, <1>3, <1>4, OneSetStep

\* ... and so does how many tabs presenceSubCounts should list.
LEMMA ListedStep ==
  ASSUME NEW t \in Tab, NEW u \in User, \A x \in Tab \ {t} : Listed(x)' <=> Listed(x)
  PROVE  /\ ListedOf(u) \in Nat /\ ListedOf(u)' \in Nat
         /\ u # Owner[t] => ListedOf(u)' = ListedOf(u)
         /\ u = Owner[t] =>
              /\ Listed(t)' /\ ~Listed(t) => ListedOf(u)' = ListedOf(u) + 1
              /\ Listed(t) /\ ~Listed(t)' => ListedOf(u)' = ListedOf(u) - 1
              /\ (Listed(t)' <=> Listed(t)) => ListedOf(u)' = ListedOf(u)
<1> DEFINE S == {x \in TabsOf(u) : Listed(x)}
           T == {x \in TabsOf(u) : Listed(x)'}
<1>1. ListedOf(u) = Cardinality(S) /\ ListedOf(u)' = Cardinality(T)
  BY DEF ListedOf, TabsOf
<1>2. IsFiniteSet(S)
  BY FS_Subset DEF TabsOf
<1>3. \A x : x # t => (x \in S <=> x \in T)
  BY DEF TabsOf
<1>4. /\ t \in S <=> u = Owner[t] /\ Listed(t)
      /\ t \in T <=> u = Owner[t] /\ Listed(t)'
  BY DEF TabsOf
<1> HIDE DEF S, T
<1> QED BY <1>1, <1>2, <1>3, <1>4, OneSetStep

LEMMA CountedIs == \A x : Counted(x) <=> (x \in noted /\ ~Leaving(x)) \/ Coming(x)
BY DEF Counted, Leaving, Coming

\* The sockets counted for the user of t change with what is counted of t.
LEMMA BalanceTurn ==
  ASSUME Types, Types', BalanceInv, NEW t \in Tab, NEW q, NEW p, NEW kind, Turns(t, q, p, kind),
         \A u \in User : u # Owner[t] => conns'[u] = conns[u],
         Alone(Owner[t])' =>
           LET n == conns[Owner[t]]
               m == conns'[Owner[t]]
           IN /\ "phantom" \notin mark'[Owner[t]] =>
                   /\ Counted(t)' /\ ~Counted(t) => m <= n + 1
                   /\ Counted(t) /\ ~Counted(t)' => m <= n - 1 \/ m = 0
                   /\ (Counted(t)' <=> Counted(t)) => m <= n
              /\ "short" \notin mark'[Owner[t]] =>
                   /\ Counted(t)' /\ ~Counted(t) => m >= n + 1
                   /\ Counted(t) /\ ~Counted(t)' => m >= n - 1
                   /\ (Counted(t)' <=> Counted(t)) => m >= n
  PROVE  BalanceInv'
<1>1. \A x \in Tab \ {t} : Counted(x)' <=> Counted(x)
  BY CountedIs DEF Turns, Unmoved, Counted, Leaving, Coming
<1>2. SUFFICES ASSUME NEW u \in User, Alone(u)'
               PROVE  /\ "phantom" \notin mark'[u] => conns'[u] <= CountedOf(u)'
                      /\ "short" \notin mark'[u] => conns'[u] >= CountedOf(u)'
  BY DEF BalanceInv, NoPhantomSocket, OnlineWithATab, Alone
<1>3. mark[u] \subseteq mark'[u]
  BY DEF Turns, MarksStay
<1>4. /\ "phantom" \notin mark'[u] => conns[u] <= CountedOf(u)
      /\ "short" \notin mark'[u] => conns[u] >= CountedOf(u)
  BY <1>2, <1>3 DEF BalanceInv, NoPhantomSocket, OnlineWithATab, Alone
<1>5. conns[u] \in Nat /\ conns'[u] \in Nat
  BY DEF Types
<1> QED BY <1>1, <1>2, <1>4, <1>5, CountedStep

\* presenceSubCounts follows what is listed of t.
LEMMA CountTurn ==
  ASSUME Types, Types', CountInv, NEW t \in Tab, NEW q, NEW p, NEW kind, Turns(t, q, p, kind),
         \A u \in User : u # Owner[t] => count'[u] >= count[u],
         mark'[Owner[t]] \cap {"overlap", "short", "crossed"} = {} =>
           LET n == count[Owner[t]]
               m == count'[Owner[t]]
           IN /\ Listed(t)' /\ ~Listed(t) => m >= n + 1
              /\ Listed(t) /\ ~Listed(t)' => m >= n - 1
              /\ (Listed(t)' <=> Listed(t)) => m >= n
  PROVE  CountInv'
<1>1. \A x \in Tab \ {t} : Listed(x)' <=> Listed(x)
  BY DEF Turns, Unmoved, Listed
<1>2. SUFFICES ASSUME NEW u \in User, mark'[u] \cap {"overlap", "short", "crossed"} = {}
               PROVE  ListedOf(u)' <= count'[u]
  BY DEF CountInv
<1>3. mark[u] \subseteq mark'[u]
  BY DEF Turns, MarksStay
<1>4. ListedOf(u) <= count[u]
  BY <1>2, <1>3 DEF CountInv
<1>5. count[u] \in Nat /\ count'[u] \in Nat
  BY DEF Types
<1> QED BY <1>1, <1>2, <1>4, <1>5, ListedStep

\* Nobody of the user subscribes while the last tab leaves, unless marked.
LEMMA UnsubTurn ==
  ASSUME Types, UnsubInv, NEW t \in Tab, NEW q, NEW p, NEW kind, Turns(t, q, p, kind),
         mark'[Owner[t]] \cap {"overlap", "short", "crossed"} = {} =>
           /\ Listed(t)' \/ Subscribing(t)' =>
                \/ Listed(t) \/ Subscribing(t)
                \/ \A x \in TabsOf(Owner[t]) : ~Dropping(x)
           /\ Dropping(t)' => /\ ~Subscribing(t)'
                              /\ \/ Dropping(t)
                                 \/ \A x \in TabsOf(Owner[t]) \ {t} :
                                      ~Listed(x) /\ ~Subscribing(x)
  PROVE  UnsubInv'
<1>1. \A x \in Tab \ {t} : /\ Listed(x)' <=> Listed(x)
                           /\ Dropping(x)' <=> Dropping(x)
                           /\ Subscribing(x)' <=> Subscribing(x)
  BY DEF Turns, Unmoved, Listed
<1>2. SUFFICES ASSUME NEW x \in Tab, Dropping(x)', NEW y \in TabsOf(Owner[x]),
                      mark'[Owner[x]] \cap {"overlap", "short", "crossed"} = {}
               PROVE  ~Listed(y)' /\ ~Subscribing(y)'
  BY DEF UnsubInv, TabsOf
<1>3. mark[Owner[x]] \cap {"overlap", "short", "crossed"} = {}
  BY <1>2 DEF Turns, MarksStay
<1>4. y \in Tab /\ Owner[y] = Owner[x] /\ x \in TabsOf(Owner[y]) /\ x \in TabsOf(Owner[x])
  BY <1>2 DEF TabsOf
<1>5. Dropping(x) => ~Listed(y) /\ ~Subscribing(y) /\ ~Listed(x) /\ ~Subscribing(x)
  BY <1>2, <1>3, <1>4 DEF UnsubInv
<1>6. CASE x = t
  BY <1>1, <1>2, <1>4, <1>5, <1>6 DEF Listed
<1>7. CASE x # t
  BY <1>1, <1>2, <1>4, <1>5, <1>7
<1> QED BY <1>6, <1>7

\* A tab that is listed stays among those the broadcasts go to.
LEMMA HearTurn ==
  ASSUME Types, HearInv, NEW t \in Tab, NEW q, NEW p, NEW kind, Turns(t, q, p, kind),
         \A u \in subscribers : \/ u \in subscribers'
                                \/ "dropped" \in mark'[u]
                                \/ mark'[u] \cap {"overlap", "short", "crossed"} # {}
                                \/ \A x \in TabsOf(u) : ~Listed(x)' /\ ~Heard(x)',
         mark'[Owner[t]] \cap {"overlap", "short", "crossed", "dropped"} = {}
           /\ (Listed(t)' \/ Heard(t)') =>
           Listed(t) \/ Heard(t) \/ Owner[t] \in subscribers'
  PROVE  HearInv'
<1>1. \A x \in Tab \ {t} : /\ Listed(x)' <=> Listed(x)
                           /\ Heard(x)' <=> Heard(x)
  BY DEF Turns, Unmoved, Listed
<1>2. SUFFICES ASSUME NEW x \in Tab, Listed(x)' \/ Heard(x)',
                      mark'[Owner[x]] \cap {"overlap", "short", "crossed", "dropped"} = {}
               PROVE  Owner[x] \in subscribers'
  BY DEF HearInv
<1>3. mark[Owner[x]] \cap {"overlap", "short", "crossed", "dropped"} = {}
      /\ x \in TabsOf(Owner[x])
  BY <1>2 DEF Turns, MarksStay, TabsOf
<1>4. CASE Listed(x) \/ Heard(x)
  <2>1. Owner[x] \in subscribers
    BY <1>3, <1>4 DEF HearInv
  <2> QED BY <1>2, <1>3, <2>1
<1>5. CASE ~(Listed(x) \/ Heard(x))
  BY <1>1, <1>2, <1>5
<1> QED BY <1>4, <1>5

\* What every move of a handler keeps, once its stage fits its message.
LEMMA MovesTurn ==
  ASSUME Types, JobInv, WaitInv, SerialInv, StageInv, MarksStay,
         NEW t \in Tab, NEW i \in DOMAIN jobs[t], NEW p \in Pcs, Moves(t, i, p),
         NEW q, NEW kind, q = jobs[t][i].pc, kind = jobs[t][i].kind,
         q # "done", \A x \in Tab \ {t} : x \in noted' <=> x \in noted
  PROVE  /\ Turns(t, q, p, kind)
         /\ SerialInv'
         /\ (IF kind = "sub" THEN p \in SubPcs \cup {"done"}
             ELSE p \in LeavePcs \cup {"done"}) => JobInv'
         /\ (Alone(Owner[t])' => /\ p \in FreshPcs => t \notin noted'
                                 /\ p \in KnownPcs => t \in noted') => StageInv'
         /\ q \notin WaitPcs /\ bcast' = bcast => WaitInv'
<1>1. \A u \in User : Alone(u)' => Alone(u)
  BY DEF MarksStay, Alone
<1>2. \A x \in Tab \ {t} : Unmoved(x)
  BY SameUnmoved DEF Moves
<1>3. Owner[t] \in User /\ \A x \in Tab : Owner[x] \in User
  OBVIOUS
<1>4. Alone(Owner[t])' =>
        /\ Stands(t, q, kind)
        /\ Stands(t, p, kind)'
        /\ \A j, k \in DOMAIN jobs'[t] :
              jobs'[t][j].pc # "done" /\ jobs'[t][k].pc # "done" => j = k
  BY <1>1, <1>3, MovesStands
<1>5. jobs'[t][i].kind = jobs[t][i].kind
  BY DEF Moves
<1>6. Turns(t, q, p, kind)
  BY <1>2, <1>4 DEF Turns
<1>7. SerialInv'
  <2> SUFFICES ASSUME NEW x \in Tab, Alone(Owner[x])', NEW j \in DOMAIN jobs'[x],
                      NEW k \in DOMAIN jobs'[x],
                      jobs'[x][j].pc # "done", jobs'[x][k].pc # "done"
               PROVE  j = k
    BY DEF SerialInv
  <2>1. CASE x = t
    BY <2>1, <1>4
  <2>2. CASE x # t
    <3>1. jobs'[x] = jobs[x] /\ Alone(Owner[x])
      BY <2>2, <1>1, <1>3 DEF Moves
    <3> QED BY <3>1 DEF SerialInv
  <2> QED BY <2>1, <2>2
<1>8. /\ \A x \in Tab \ {t} : jobs'[x] = jobs[x]
      /\ \A x \in Tab : DOMAIN jobs'[x] = DOMAIN jobs[x]
      /\ \A j \in DOMAIN jobs[t] : j # i => jobs'[t][j] = jobs[t][j]
      /\ jobs'[t][i].pc = p
  BY DEF Moves
<1>9. ASSUME IF kind = "sub" THEN p \in SubPcs \cup {"done"}
             ELSE p \in LeavePcs \cup {"done"}
      PROVE  JobInv'
  <2> SUFFICES ASSUME NEW x \in Tab, NEW j \in DOMAIN jobs'[x]
               PROVE  IF jobs'[x][j].kind = "sub" THEN jobs'[x][j].pc \in SubPcs \cup {"done"}
                      ELSE jobs'[x][j].pc \in LeavePcs \cup {"done"}
    BY DEF JobInv
  <2>1. CASE x = t /\ j = i
    BY <2>1, <1>5, <1>8, <1>9
  <2>2. CASE ~(x = t /\ j = i)
    <3>1. j \in DOMAIN jobs[x] /\ jobs'[x][j] = jobs[x][j]
      BY <2>2, <1>8
    <3> QED BY <3>1 DEF JobInv
  <2> QED BY <2>1, <2>2
<1>10. ASSUME Alone(Owner[t])' => /\ p \in FreshPcs => t \notin noted'
                                  /\ p \in KnownPcs => t \in noted'
       PROVE  StageInv'
  <2> SUFFICES ASSUME NEW x \in Tab, Alone(Owner[x])', NEW j \in DOMAIN jobs'[x]
               PROVE  /\ jobs'[x][j].pc \in FreshPcs => x \notin noted'
                      /\ jobs'[x][j].pc \in KnownPcs => x \in noted'
    BY DEF StageInv
  <2>1. CASE x # t
    BY <2>1, <1>1, <1>3, <1>8 DEF StageInv
  <2>2. CASE x = t /\ j = i
    BY <2>2, <1>8, <1>10
  <2>3. CASE x = t /\ j # i
    <3>1. jobs[t][j].pc = "done" /\ jobs'[t][j] = jobs[t][j]
      BY <2>3, <1>1, <1>3, <1>8 DEF SerialInv
    <3> QED BY <2>3, <3>1 DEF FreshPcs, KnownPcs
  <2> QED BY <2>1, <2>2, <2>3
<1>11. ASSUME q \notin WaitPcs, bcast' = bcast
       PROVE  WaitInv'
  <2>1. ASSUME NEW k \in DOMAIN bcast
        PROVE  /\ bcast[k].by[2] \in DOMAIN jobs'[bcast[k].by[1]]
               /\ jobs'[bcast[k].by[1]][bcast[k].by[2]].pc \in WaitPcs
               /\ \A u \in bcast[k].failed : "dropped" \in mark'[u]
    <3>1. bcast[k].by[1] \in Tab /\ bcast[k].failed \subseteq User
      BY <2>1, CastIs
    <3>2. /\ bcast[k].by[2] \in DOMAIN jobs[bcast[k].by[1]]
          /\ jobs[bcast[k].by[1]][bcast[k].by[2]].pc \in WaitPcs
          /\ \A u \in bcast[k].failed : "dropped" \in mark[u]
      BY <2>1 DEF WaitInv
    <3>3. bcast[k].by[1] = t => bcast[k].by[2] # i
      BY <3>2, <1>11
    <3> QED BY <3>1, <3>2, <3>3, <1>8 DEF MarksStay
  <2> QED BY <2>1, <1>11 DEF WaitInv
<1> QED BY <1>6, <1>7, <1>9, <1>10, <1>11

\* The same for a subscription and for a tab that leaves.
LEMMA SubMoves ==
  ASSUME Inv, MarksStay, NEW t \in Tab, NEW i \in DOMAIN jobs[t], NEW p \in Pcs, Moves(t, i, p),
         NEW q, q = jobs[t][i].pc, jobs[t][i].kind = "sub", q # "done",
         \A x \in Tab \ {t} : x \in noted' <=> x \in noted, p \in SubPcs \cup {"done"},
         Alone(Owner[t])' => /\ p \in FreshPcs => t \notin noted'
                             /\ p \in KnownPcs => t \in noted'
  PROVE  /\ Turns(t, q, p, "sub")
         /\ SerialInv' /\ JobInv' /\ StageInv'
         /\ q \notin WaitPcs /\ bcast' = bcast => WaitInv'
BY MovesTurn DEF Inv

LEMMA LeaveMoves ==
  ASSUME Inv, MarksStay, NEW t \in Tab, NEW i \in DOMAIN jobs[t], NEW p \in Pcs, Moves(t, i, p),
         NEW q, NEW kind, q = jobs[t][i].pc, kind = jobs[t][i].kind, kind # "sub", q # "done",
         \A x \in Tab \ {t} : x \in noted' <=> x \in noted, p \in LeavePcs \cup {"done"},
         Alone(Owner[t])' => /\ p \in FreshPcs => t \notin noted'
                             /\ p \in KnownPcs => t \in noted'
  PROVE  /\ Turns(t, q, p, kind)
         /\ SerialInv' /\ JobInv' /\ StageInv'
         /\ q \notin WaitPcs /\ bcast' = bcast => WaitInv'
BY MovesTurn DEF Inv

\* The same for a handler that starts.
LEMMA StartsTurn ==
  ASSUME Types, JobInv, WaitInv, SerialInv, StageInv, MarksStay,
         NEW t \in Tab, NEW kind, NEW p \in Pcs, Starts(t, kind, p),
         Running(t) => ~Alone(Owner[t])', noted' = noted, bcast' = bcast
  PROVE  /\ Turns(t, "done", p, kind)
         /\ SerialInv' /\ WaitInv'
         /\ (IF kind = "sub" THEN p \in SubPcs \cup {"done"}
             ELSE p \in LeavePcs \cup {"done"}) => JobInv'
         /\ (/\ p \in FreshPcs => t \notin noted
             /\ p \in KnownPcs => t \in noted) => StageInv'
<1>1. \A u \in User : Alone(u)' => Alone(u)
  BY DEF MarksStay, Alone
<1>2. \A x \in Tab \ {t} : Unmoved(x)
  BY SameUnmoved DEF Starts
<1>3. Owner[t] \in User /\ \A x \in Tab : Owner[x] \in User
  OBVIOUS
<1>4. Alone(Owner[t])' =>
        /\ Stands(t, "done", kind)
        /\ Stands(t, p, kind)'
        /\ \A j, k \in DOMAIN jobs'[t] :
              jobs'[t][j].pc # "done" /\ jobs'[t][k].pc # "done" => j = k
  BY StartsStands
<1>6. Turns(t, "done", p, kind)
  BY <1>2, <1>4 DEF Turns
<1>7. SerialInv'
  BY <1>1, <1>3, <1>4 DEF SerialInv, Starts
<1> DEFINE n == Len(jobs[t]) + 1
<1>8. /\ \A x \in Tab \ {t} : jobs'[x] = jobs[x]
      /\ \A x \in Tab : \A j \in DOMAIN jobs[x] : j \in DOMAIN jobs'[x] /\ jobs'[x][j] = jobs[x][j]
      /\ \A j \in DOMAIN jobs'[t] : j \in DOMAIN jobs[t] \/ j = n
      /\ jobs'[t][n].pc = p /\ jobs'[t][n].kind = kind
  <2>1. \A j \in DOMAIN jobs[t] : j \in DOMAIN jobs'[t] /\ jobs'[t][j] = jobs[t][j]
    BY DEF Starts
  <2>2. \A j \in DOMAIN jobs'[t] : j \in DOMAIN jobs[t] \/ j = n
    BY DEF Starts
  <2>3. \A x \in Tab \ {t} : jobs'[x] = jobs[x]
    BY DEF Starts
  <2>4. jobs'[t][n].pc = p /\ jobs'[t][n].kind = kind
    BY DEF Starts
  <2> HIDE DEF n
  <2> QED BY <2>1, <2>2, <2>3, <2>4
<1> HIDE DEF n
<1>9. ASSUME IF kind = "sub" THEN p \in SubPcs \cup {"done"} ELSE p \in LeavePcs \cup {"done"}
      PROVE  JobInv'
  <2> SUFFICES ASSUME NEW x \in Tab, NEW j \in DOMAIN jobs'[x]
               PROVE  IF jobs'[x][j].kind = "sub" THEN jobs'[x][j].pc \in SubPcs \cup {"done"}
                      ELSE jobs'[x][j].pc \in LeavePcs \cup {"done"}
    BY DEF JobInv
  <2>1. CASE j \in DOMAIN jobs[x]
    BY <2>1, <1>8 DEF JobInv
  <2>2. CASE j \notin DOMAIN jobs[x]
    <3>1. x = t /\ j = n
      BY <2>2, <1>8
    <3> QED BY <3>1, <1>8, <1>9
  <2> QED BY <2>1, <2>2
<1>10. ASSUME /\ p \in FreshPcs => t \notin noted
              /\ p \in KnownPcs => t \in noted
       PROVE  StageInv'
  BY <1>1, <1>3, <1>8, <1>10 DEF StageInv
<1>11. WaitInv'
  <2>1. ASSUME NEW k \in DOMAIN bcast
        PROVE  /\ bcast[k].by[2] \in DOMAIN jobs'[bcast[k].by[1]]
               /\ jobs'[bcast[k].by[1]][bcast[k].by[2]].pc \in WaitPcs
               /\ \A u \in bcast[k].failed : "dropped" \in mark'[u]
    <3>1. bcast[k].by[1] \in Tab /\ bcast[k].failed \subseteq User
      BY <2>1, CastIs
    <3> QED BY <2>1, <3>1, <1>8 DEF WaitInv, MarksStay
  <2> QED BY <2>1 DEF WaitInv
<1> QED BY <1>6, <1>7, <1>9, <1>10, <1>11

\* A handler changes what is true of its own tab only.
LEMMA WantTurn ==
  ASSUME Types, WantInv, NEW t \in Tab, NEW q, NEW p, NEW kind, Turns(t, q, p, kind),
         UNCHANGED clientVars, \A x \in Tab \ {t} : x \in missed => x \in missed',
         mark'[Owner[t]] = {} =>
           /\ Subscribing(t)' => Subscribing(t)
           /\ t \in noted' => t \in noted \/ Subscribing(t)
           /\ t \in missed => t \in missed' \/ Subscribing(t)
  PROVE  WantInv'
<1>1. SUFFICES ASSUME NEW x \in open, mark'[Owner[x]] = {}
               PROVE  /\ Subscribing(x)' => x \in wants
                      /\ x \in noted' => x \in wants \/ x \in missed'
  BY DEF WantInv, clientVars
<1>2. x \in Tab /\ mark[Owner[x]] = {}
  BY <1>1 DEF Turns, MarksStay, Types
<1>3. /\ Subscribing(x) => x \in wants
      /\ x \in noted => x \in wants \/ x \in missed
  BY <1>2 DEF WantInv
<1>4. x # t => (Subscribing(x)' <=> Subscribing(x)) /\ (x \in noted' <=> x \in noted)
  BY <1>2 DEF Turns, Unmoved
<1> QED BY <1>1, <1>2, <1>3, <1>4

\* Nor does it touch what other tabs show.
LEMMA PictureTurn ==
  ASSUME Types, PictureInv, MarksStay, NEW t \in Tab, bcast' = bcast, conns' = conns,
         \A x \in Tab \ {t} : /\ jobs'[x] = jobs[x] /\ view'[x] = view[x]
                              /\ x \in noted' <=> x \in noted
                              /\ x \in wants' <=> x \in wants
                              /\ x \in missed => x \in missed',
         mark'[Owner[t]] = {} /\ t \notin missed' =>
           /\ t \notin missed
           /\ \A v \in User : ViewRight(t, v) /\ SnapRight(t, v) =>
                ViewRight(t, v)' /\ SnapRight(t, v)'
  PROVE  PictureInv'
<1>1. SUFFICES ASSUME NEW x \in Tab, mark'[Owner[x]] = {}, x \notin missed', NEW v \in User,
                      ~OnItsWay(Owner[x], v)'
               PROVE  ViewRight(x, v)' /\ SnapRight(x, v)'
  BY DEF PictureInv
<1>2. mark[Owner[x]] = {} /\ x \notin missed
  BY <1>1 DEF MarksStay
<1>3. ~OnItsWay(Owner[x], v)
  BY <1>1 DEF OnItsWay
<1>4. ViewRight(x, v) /\ SnapRight(x, v)
  BY <1>2, <1>3 DEF PictureInv
<1>5. CASE x = t
  BY <1>1, <1>4, <1>5
<1>6. CASE x # t
  <2>1. Snapped(x)' <=> Snapped(x)
    BY <1>6 DEF Snapped, Job
  <2>2. ViewRight(x, v)'
    BY <2>1, <1>4, <1>6 DEF ViewRight
  <2> QED BY <2>2, <1>4, <1>6 DEF SnapRight
<1> QED BY <1>5, <1>6

\* A handler that neither gets nor passes on a snapshot.
LEMMA PictureMoves ==
  ASSUME Types, PictureInv, MarksStay, NEW t \in Tab, NEW i \in DOMAIN jobs[t], NEW p,
         NEW q, NEW kind, Moves(t, i, p), Turns(t, q, p, kind), p \notin {"subbed", "resnapped"},
         UNCHANGED <<bcast, conns, view, wants>>, t \in noted' => t \in noted,
         \A x \in Tab \ {t} : x \in noted' <=> x \in noted, missed \subseteq missed',
         Alone(Owner[t])' /\ q \in {"subbed", "resnapped"} => t \notin noted' \/ t \in missed'
  PROVE  PictureInv'
<1>1. ASSUME mark'[Owner[t]] = {}, t \notin missed', NEW v \in User,
             ViewRight(t, v), SnapRight(t, v)
      PROVE  ViewRight(t, v)' /\ SnapRight(t, v)'
  <2>1. SnapRight(t, v)'
    BY <1>1 DEF SnapRight, Moves
  <2>2. Snapped(t) => q \in {"subbed", "resnapped"}
    BY <1>1 DEF Turns, Stands, Alone
  <2>3. ViewRight(t, v)'
    BY <1>1, <2>2 DEF ViewRight, Alone
  <2> QED BY <2>1, <2>3
<1> QED BY <1>1, PictureTurn DEF Moves

-----------------------------------------------------------------------------
(* The client *)

LEMMA InitInv == Init => Inv
<1> SUFFICES ASSUME Init PROVE Inv
  OBVIOUS
<1>1. \A t \in Tab : jobs[t] = <<>> /\ DOMAIN jobs[t] = {}
  BY DEF Init
<1>2. DOMAIN bcast = {} /\ bcast = <<>>
  BY DEF Init
<1>3. Types
  BY <1>2 DEF Init, Types
<1>4. JobInv /\ WaitInv /\ SerialInv /\ StageInv
  BY <1>1, <1>2 DEF JobInv, WaitInv, SerialInv, StageInv
<1>5. \A t \in Tab : ~Counted(t) /\ ~Listed(t) /\ ~Dropping(t) /\ ~Heard(t)
  BY <1>1 DEF Init, Counted, Listed, Dropping, Heard, Job
<1>6. \A u \in User : CountedOf(u) = 0 /\ ListedOf(u) = 0
  <2> TAKE u \in User
  <2>1. {t \in TabsOf(u) : Counted(t)} = {} /\ {t \in TabsOf(u) : Listed(t)} = {}
    BY <1>5 DEF TabsOf
  <2> QED BY <2>1, FS_EmptySet DEF CountedOf, ListedOf
<1>7. BalanceInv /\ CountInv
  BY <1>6 DEF Init, BalanceInv, NoPhantomSocket, OnlineWithATab, CountInv
<1>8. UnsubInv /\ HearInv
  BY <1>5 DEF UnsubInv, HearInv
<1>9. WantInv
  BY <1>1 DEF Init, WantInv, Subscribing
<1>10. PictureInv
  BY <1>1 DEF Init, PictureInv, ViewRight, SnapRight
<1> QED BY <1>3, <1>4, <1>7, <1>8, <1>9, <1>10 DEF Inv

\* A message that starts a handler.
LEMMA StartsKeep ==
  ASSUME Inv, Types', MarksStay, NEW t \in Tab, NEW kind, NEW p \in Pcs, Starts(t, kind, p),
         IF kind = "sub" THEN p = "member" ELSE p \in {"less", "done"},
         p = "less" => t \in noted,
         Running(t) => ~Alone(Owner[t])',
         kind = "sub" /\ "crossed" \notin mark'[Owner[t]] =>
           \A x \in TabsOf(Owner[t]) : ~Dropping(x),
         UNCHANGED <<noted, count, conns, subscribers, bcast>>
  PROVE  /\ Turns(t, "done", p, kind)
         /\ JobInv' /\ WaitInv' /\ SerialInv' /\ StageInv'
         /\ BalanceInv' /\ CountInv' /\ UnsubInv' /\ HearInv'
<1> USE DEF Inv
<1>1. /\ Turns(t, "done", p, kind) /\ SerialInv' /\ WaitInv' /\ JobInv' /\ StageInv'
  <2>1. IF kind = "sub" THEN p \in SubPcs \cup {"done"} ELSE p \in LeavePcs \cup {"done"}
    BY DEF SubPcs, LeavePcs
  <2>2. /\ p \in FreshPcs => t \notin noted
        /\ p \in KnownPcs => t \in noted
    BY DEF FreshPcs, KnownPcs
  <2> QED BY <2>1, <2>2, StartsTurn
<1>2. Alone(Owner[t])' => Stands(t, "done", kind) /\ Stands(t, p, kind)'
  BY <1>1 DEF Turns
<1>3. Alone(Owner[t])' => /\ ~Leaving(t) /\ ~Leaving(t)' /\ ~Coming(t) /\ ~Coming(t)'
                          /\ ~Dropping(t) /\ ~Dropping(t)' /\ ~Heard(t) /\ ~Heard(t)'
                          /\ Subscribing(t)' => kind = "sub"
  BY <1>2 DEF Stands
<1>4. Alone(Owner[t])' => (Counted(t)' <=> Counted(t)) /\ (Listed(t)' <=> Listed(t))
  BY <1>3, CountedIs DEF Listed, Counted, Leaving, Coming
<1>5. Owner[t] \in User /\ conns[Owner[t]] \in Nat /\ count[Owner[t]] \in Nat
  BY DEF Types
<1>6. BalanceInv'
  <2>1. Alone(Owner[t])' =>
           LET n == conns[Owner[t]]
               m == conns'[Owner[t]]
           IN /\ "phantom" \notin mark'[Owner[t]] =>
                   /\ Counted(t)' /\ ~Counted(t) => m <= n + 1
                   /\ Counted(t) /\ ~Counted(t)' => m <= n - 1 \/ m = 0
                   /\ (Counted(t)' <=> Counted(t)) => m <= n
              /\ "short" \notin mark'[Owner[t]] =>
                   /\ Counted(t)' /\ ~Counted(t) => m >= n + 1
                   /\ Counted(t) /\ ~Counted(t)' => m >= n - 1
                   /\ (Counted(t)' <=> Counted(t)) => m >= n
    BY <1>4, <1>5
  <2> QED BY <1>1, <2>1, BalanceTurn
<1>7. mark'[Owner[t]] \cap {"overlap", "short", "crossed"} = {} => Alone(Owner[t])'
  BY DEF Alone
<1>8. CountInv'
  <2>1. mark'[Owner[t]] \cap {"overlap", "short", "crossed"} = {} =>
           LET n == count[Owner[t]]
               m == count'[Owner[t]]
           IN /\ Listed(t)' /\ ~Listed(t) => m >= n + 1
              /\ Listed(t) /\ ~Listed(t)' => m >= n - 1
              /\ (Listed(t)' <=> Listed(t)) => m >= n
    BY <1>4, <1>5, <1>7
  <2>2. \A u \in User : count'[u] >= count[u]
    BY DEF Types
  <2> QED BY <1>1, <2>1, <2>2, CountTurn
<1>9. UnsubInv'
  <2>1. mark'[Owner[t]] \cap {"overlap", "short", "crossed"} = {} =>
           /\ Listed(t)' \/ Subscribing(t)' =>
                \/ Listed(t) \/ Subscribing(t)
                \/ \A x \in TabsOf(Owner[t]) : ~Dropping(x)
           /\ ~Dropping(t)'
    BY <1>3, <1>4, <1>7
  <2> QED BY <1>1, <2>1, UnsubTurn
<1>10. HearInv'
  <2>1. mark'[Owner[t]] \cap {"overlap", "short", "crossed", "dropped"} = {}
           /\ (Listed(t)' \/ Heard(t)') => Listed(t) \/ Heard(t)
    BY <1>3, <1>4, <1>7
  <2> QED BY <1>1, <2>1, HearTurn
<1> QED BY <1>1, <1>6, <1>8, <1>9, <1>10

\* A handler that starts has no snapshot yet.
LEMMA SnapKept ==
  ASSUME NEW t, NEW v, SnapRight(t, v), NEW kind, NEW p, Starts(t, kind, p),
         p \notin {"subbed", "resnapped"}, conns' = conns
  PROVE  SnapRight(t, v)'
<1>1. \A i \in DOMAIN jobs'[t] : jobs'[t][i].pc \in {"subbed", "resnapped"} =>
        i \in DOMAIN jobs[t] /\ jobs'[t][i] = jobs[t][i]
  BY DEF Starts
<1> QED BY <1>1 DEF SnapRight

\* Subscribe: a second handler of the tab is an overlap.
LEMMA SubscribeInv ==
  ASSUME Inv, MarksStay, NEW t \in Tab, Subscribe(t)
  PROVE  Inv'
<1> USE DEF Inv
<1>1. Starts(t, "sub", "member") /\ t \in open /\ t \notin wants
  BY ArrivesStarts DEF Subscribe, Pcs, SubPcs
<1>2. /\ UNCHANGED <<noted, count, conns, subscribers, bcast, open, view, missed>>
      /\ wants' = wants \cup {t}
  BY DEF Subscribe, Arrives, wpVars
<1>3. mark' = [mark EXCEPT ![Owner[t]] = @
                \cup (IF Running(t) THEN {"overlap"} ELSE {})
                \cup (IF \E x \in TabsOf(Owner[t]) : Job(x, {"unsub", "unsubbed"})
                      THEN {"crossed"} ELSE {})]
  BY DEF Subscribe
<1>4. Owner[t] \in User /\ mark \in [User -> SUBSET Marks]
  BY DEF Types
<1>5. /\ Running(t) => "overlap" \in mark'[Owner[t]]
      /\ (\E x \in TabsOf(Owner[t]) : Dropping(x)) => "crossed" \in mark'[Owner[t]]
      /\ mark' \in [User -> SUBSET Marks]
  BY <1>3, <1>4 DEF Dropping, Marks
<1>6. Types'
  BY <1>1, <1>2, <1>5 DEF Types, Starts
<1>7. /\ Turns(t, "done", "member", "sub")
      /\ JobInv' /\ WaitInv' /\ SerialInv' /\ StageInv'
      /\ BalanceInv' /\ CountInv' /\ UnsubInv' /\ HearInv'
  BY <1>1, <1>2, <1>5, <1>6, StartsKeep DEF Alone, Pcs, SubPcs
<1>8. WantInv'
  <2> SUFFICES ASSUME NEW x \in open, mark'[Owner[x]] = {}
               PROVE  /\ Subscribing(x)' => x \in wants'
                      /\ x \in noted => x \in wants' \/ x \in missed
    BY <1>1, <1>2 DEF WantInv
  <2>1. x \in Tab /\ mark[Owner[x]] = {}
    BY DEF MarksStay, Types
  <2>2. x # t => (Subscribing(x)' <=> Subscribing(x))
    BY <2>1, <1>7 DEF Turns, Unmoved
  <2> QED BY <2>1, <2>2, <1>2 DEF WantInv
<1>9. PictureInv'
  <2>1. \A x \in Tab \ {t} : jobs'[x] = jobs[x]
    BY <1>1 DEF Starts
  <2>2. ASSUME mark'[Owner[t]] = {}, t \notin missed, NEW v \in User, SnapRight(t, v)
        PROVE  ViewRight(t, v)' /\ SnapRight(t, v)'
    <3>1. t \notin noted'
      BY <1>1, <1>2, <1>4, <2>2 DEF MarksStay, WantInv
    <3>2. SnapRight(t, v)'
      BY <1>1, <1>2, <1>3, <2>2, SnapKept
    <3> QED BY <3>1, <3>2 DEF ViewRight
  <2>3. \A x \in Tab \ {t} : x \in wants' <=> x \in wants
    BY <1>2
  <2>4. bcast' = bcast /\ conns' = conns /\ noted' = noted /\ view' = view /\ missed' = missed
    BY <1>2
  <2>5. PictureInv
    OBVIOUS
  <2> HIDE DEF Inv
  <2> QED BY <2>1, <2>2, <2>3, <2>4, <2>5, <1>6, PictureTurn, Inv DEF Inv
<1> QED BY <1>6, <1>7, <1>8, <1>9

\* Unsubscribe: the page drops what it showed.
LEMMA UnsubscribeInv ==
  ASSUME Inv, MarksStay, NEW t \in Tab, Unsubscribe(t)
  PROVE  Inv'
<1> USE DEF Inv
<1>1. PICK p \in {"less", "done"} : p = Leave(t) /\ (p = "less" => t \in noted)
  BY DEF Leave
<1>2. Starts(t, "unsub", p) /\ t \in open /\ p \in Pcs
  BY <1>1, ArrivesStarts DEF Unsubscribe, Pcs, SubPcs, LeavePcs
<1>3. /\ UNCHANGED <<noted, count, conns, subscribers, bcast, open>>
      /\ wants' = wants \ {t} /\ view' = [view EXCEPT ![t] = {}] /\ missed' = missed \cup {t}
      /\ mark' = Marked(Owner[t], "overlap", Running(t))
  BY DEF Unsubscribe, Arrives, wpVars
<1>4. Owner[t] \in User /\ mark \in [User -> SUBSET Marks]
  BY DEF Types
<1>5. /\ Running(t) => "overlap" \in mark'[Owner[t]]
      /\ mark' \in [User -> SUBSET Marks]
  BY <1>3, <1>4 DEF Marked, Marks
<1>6. Types'
  <2>1. view' \in [Tab -> SUBSET User]
    BY <1>3 DEF Types
  <2> QED BY <1>2, <1>3, <1>5, <2>1 DEF Types, Starts
<1>7. /\ Turns(t, "done", p, "unsub")
      /\ JobInv' /\ WaitInv' /\ SerialInv' /\ StageInv'
      /\ BalanceInv' /\ CountInv' /\ UnsubInv' /\ HearInv'
  BY <1>1, <1>2, <1>3, <1>5, <1>6, StartsKeep DEF Alone
<1>8. WantInv'
  <2> SUFFICES ASSUME NEW x \in open, mark'[Owner[x]] = {}
               PROVE  /\ Subscribing(x)' => x \in wants'
                      /\ x \in noted => x \in wants' \/ x \in missed'
    BY <1>3 DEF WantInv
  <2>1. x \in Tab /\ mark[Owner[x]] = {}
    BY DEF MarksStay, Types
  <2>2. x # t => (Subscribing(x)' <=> Subscribing(x))
    BY <2>1, <1>7 DEF Turns, Unmoved
  <2>3. x = t => ~Subscribing(x)'
    BY <1>7 DEF Turns, Stands, Alone
  <2> QED BY <2>1, <2>2, <2>3, <1>3 DEF WantInv
<1>9. PictureInv'
  <2>1. \A x \in Tab \ {t} : jobs'[x] = jobs[x]
    BY <1>2 DEF Starts
  <2>2. \A x \in Tab \ {t} : view'[x] = view[x]
    BY <1>3 DEF Types
  <2> QED BY <1>3, <2>1, <2>2, PictureTurn
<1> QED BY <1>6, <1>7, <1>8, <1>9

\* Close: whatever the tab wanted is over.
LEMMA CloseInv ==
  ASSUME Inv, MarksStay, NEW t \in Tab, Close(t)
  PROVE  Inv'
<1> USE DEF Inv
<1>1. PICK p \in {"less", "done"} : p = Leave(t) /\ (p = "less" => t \in noted)
  BY DEF Leave
<1>2. Starts(t, "close", p) /\ p \in Pcs
  BY <1>1, ArrivesStarts DEF Close, Pcs, SubPcs, LeavePcs
<1>3. /\ UNCHANGED <<noted, count, conns, subscribers, bcast, view, missed>>
      /\ open' = open \ {t} /\ wants' = wants \ {t}
      /\ mark' = Marked(Owner[t], "overlap", Running(t))
  BY DEF Close, Arrives, wpVars
<1>4. Owner[t] \in User /\ mark \in [User -> SUBSET Marks]
  BY DEF Types
<1>5. /\ Running(t) => "overlap" \in mark'[Owner[t]]
      /\ mark' \in [User -> SUBSET Marks]
  BY <1>3, <1>4 DEF Marked, Marks
<1>6. Types'
  BY <1>2, <1>3, <1>5 DEF Types, Starts
<1>7. /\ Turns(t, "done", p, "close")
      /\ JobInv' /\ WaitInv' /\ SerialInv' /\ StageInv'
      /\ BalanceInv' /\ CountInv' /\ UnsubInv' /\ HearInv'
  BY <1>1, <1>2, <1>3, <1>5, <1>6, StartsKeep DEF Alone
<1>8. WantInv'
  <2> SUFFICES ASSUME NEW x \in open, x # t, mark'[Owner[x]] = {}
               PROVE  /\ Subscribing(x)' => x \in wants'
                      /\ x \in noted => x \in wants' \/ x \in missed'
    BY <1>3 DEF WantInv
  <2>1. x \in Tab /\ mark[Owner[x]] = {}
    BY DEF MarksStay, Types
  <2>2. Subscribing(x)' <=> Subscribing(x)
    BY <2>1, <1>7 DEF Turns, Unmoved
  <2> QED BY <2>1, <2>2, <1>3 DEF WantInv
<1>9. PictureInv'
  <2>1. \A x \in Tab \ {t} : jobs'[x] = jobs[x]
    BY <1>2 DEF Starts
  <2>2. ASSUME NEW v \in User, SnapRight(t, v)
        PROVE  ViewRight(t, v)' /\ SnapRight(t, v)'
    <3>1. t \notin wants'
      BY <1>3
    <3>2. SnapRight(t, v)'
      BY <1>1, <1>2, <1>3, <2>2, SnapKept
    <3> QED BY <3>1, <3>2 DEF ViewRight
  <2> QED BY <1>3, <2>1, <2>2, PictureTurn
<1> QED BY <1>6, <1>7, <1>8, <1>9

-----------------------------------------------------------------------------
(* The handlers of a gateway *)

\* Two stages at which the same is counted.
Like(q, p) ==
  /\ q \in {"lessing", "lessened", "unsub", "unsubbed"}
       <=> p \in {"lessing", "lessened", "unsub", "unsubbed"}
  /\ q \in {"noting", "noted", "sub", "subbed", "back"}
       <=> p \in {"noting", "noted", "sub", "subbed", "back"}
  /\ q \in {"unsub", "unsubbed"} <=> p \in {"unsub", "unsubbed"}

\* A move that neither counts nor discounts a socket.
LEMMA BalanceSame ==
  ASSUME Types, Types', BalanceInv, NEW t \in Tab, NEW q, NEW p, NEW kind, Turns(t, q, p, kind),
         conns' = conns, Alone(Owner[t])' => (Counted(t)' <=> Counted(t))
  PROVE  BalanceInv'
<1>1. Owner[t] \in User /\ conns[Owner[t]] \in Nat
  BY DEF Types
<1>2. Alone(Owner[t])' =>
         LET n == conns[Owner[t]]
             m == conns'[Owner[t]]
         IN /\ "phantom" \notin mark'[Owner[t]] =>
                 /\ Counted(t)' /\ ~Counted(t) => m <= n + 1
                 /\ Counted(t) /\ ~Counted(t)' => m <= n - 1 \/ m = 0
                 /\ (Counted(t)' <=> Counted(t)) => m <= n
            /\ "short" \notin mark'[Owner[t]] =>
                 /\ Counted(t)' /\ ~Counted(t) => m >= n + 1
                 /\ Counted(t) /\ ~Counted(t)' => m >= n - 1
                 /\ (Counted(t)' <=> Counted(t)) => m >= n
  BY <1>1
<1> QED BY <1>2, BalanceTurn

\* A move after which no tab is counted less.
LEMMA CountMore ==
  ASSUME Types, Types', CountInv, NEW t \in Tab, NEW q, NEW p, NEW kind, Turns(t, q, p, kind),
         \A u \in User : count'[u] >= count[u],
         mark'[Owner[t]] \cap {"overlap", "short", "crossed"} = {} /\ Listed(t)' /\ ~Listed(t) =>
           count'[Owner[t]] >= count[Owner[t]] + 1
  PROVE  CountInv'
<1>1. Owner[t] \in User /\ count[Owner[t]] \in Nat /\ count'[Owner[t]] \in Nat
  BY DEF Types
<1>2. mark'[Owner[t]] \cap {"overlap", "short", "crossed"} = {} =>
        LET n == count[Owner[t]]
            m == count'[Owner[t]]
        IN /\ Listed(t)' /\ ~Listed(t) => m >= n + 1
           /\ Listed(t) /\ ~Listed(t)' => m >= n - 1
           /\ (Listed(t)' <=> Listed(t)) => m >= n
  BY <1>1
<1> QED BY <1>2, CountTurn

\* A handler moves on and nothing that is counted changes.
LEMMA QuietCounts ==
  ASSUME Inv, Types', NEW t \in Tab, NEW q, NEW p, NEW kind, Turns(t, q, p, kind),
         Like(q, p), q # "done", UNCHANGED <<noted, count, conns>>
  PROVE  /\ BalanceInv' /\ CountInv' /\ UnsubInv'
         /\ Alone(Owner[t])' => (Listed(t)' <=> Listed(t))
<1>0. Types /\ BalanceInv /\ CountInv /\ UnsubInv
  BY DEF Inv
<1>1. Alone(Owner[t])' => Stands(t, q, kind) /\ Stands(t, p, kind)'
  BY DEF Turns
<1>2. Alone(Owner[t])' => /\ Leaving(t)' <=> Leaving(t)
                          /\ Coming(t)' <=> Coming(t)
                          /\ Dropping(t)' <=> Dropping(t)
                          /\ Subscribing(t)' => Subscribing(t)
  BY <1>1 DEF Stands, Like
<1>4. Alone(Owner[t])' => (Counted(t)' <=> Counted(t)) /\ (Listed(t)' <=> Listed(t))
  BY <1>2, CountedIs DEF Listed, Counted, Leaving, Coming
<1>5. Owner[t] \in User /\ conns[Owner[t]] \in Nat /\ count[Owner[t]] \in Nat
  BY <1>0 DEF Types
<1>6. BalanceInv'
  BY <1>0, <1>4, BalanceSame
<1>7. mark'[Owner[t]] \cap {"overlap", "short", "crossed"} = {} => Alone(Owner[t])'
  BY DEF Alone
<1>8. CountInv'
  <2>1. \A u \in User : count'[u] >= count[u]
    BY <1>0 DEF Types
  <2> QED BY <1>0, <1>4, <1>7, <2>1, CountMore
<1>9. UnsubInv'
  <2>1. ASSUME mark'[Owner[t]] \cap {"overlap", "short", "crossed"} = {}
        PROVE  /\ Listed(t)' \/ Subscribing(t)' => Listed(t) \/ Subscribing(t)
               /\ Dropping(t)' => ~Subscribing(t)' /\ Dropping(t)
    <3>1. mark[Owner[t]] \cap {"overlap", "short", "crossed"} = {}
      BY <1>5, <2>1 DEF Turns, MarksStay
    <3>2. Dropping(t) => ~Subscribing(t)
      BY <1>0, <3>1 DEF UnsubInv, TabsOf
    <3> QED BY <1>2, <1>4, <1>7, <2>1, <3>2
  <2> QED BY <1>0, <2>1, UnsubTurn
<1> QED BY <1>4, <1>6, <1>8, <1>9

\* Such a move keeps the counts and who hears.
LEMMA QuietKeeps ==
  ASSUME Inv, Types', NEW t \in Tab, NEW q, NEW p, NEW kind, Turns(t, q, p, kind),
         Like(q, p), q # "done", p = "subbed" => q = "subbed" \/ Owner[t] \in subscribers',
         UNCHANGED <<noted, count, conns>>, subscribers \subseteq subscribers'
  PROVE  BalanceInv' /\ CountInv' /\ UnsubInv' /\ HearInv'
<1>1. BalanceInv' /\ CountInv' /\ UnsubInv' /\ (Alone(Owner[t])' => (Listed(t)' <=> Listed(t)))
  BY QuietCounts
<1>2. Alone(Owner[t])' => (Heard(t)' => Heard(t)) \/ Owner[t] \in subscribers'
  BY DEF Turns, Stands
<1>3. mark'[Owner[t]] \cap {"overlap", "short", "crossed", "dropped"} = {}
           /\ (Listed(t)' \/ Heard(t)') => Listed(t) \/ Heard(t) \/ Owner[t] \in subscribers'
  BY <1>1, <1>2 DEF Alone
<1>4. Types /\ HearInv
  BY DEF Inv
<1> QED BY <1>1, <1>3, <1>4, HearTurn

\* Member: D1 refuses, or the tab goes the way its attachment says.
LEMMA MemberInv ==
  ASSUME Inv, MarksStay, NEW t \in Tab, NEW i \in DOMAIN jobs[t], Member(t, i)
  PROVE  Inv'
<1> USE DEF Inv
<1>1. PICK p \in {"done", IF t \in noted THEN "resnap" ELSE "note"} : jobs' = At(t, i, p)
  BY DEF Member
<1>2. p \in {"done", "resnap", "note"} /\ (p = "resnap" => t \in noted) /\ (p = "note" => t \notin noted)
  BY <1>1
<1>3. jobs[t][i].pc = "member"
      /\ UNCHANGED <<open, wants, conns, subscribers, bcast, faults, view, noted, count, mark, missed>>
  BY DEF Member, Idle, clientVars, wpVars
<1>4. p \in Pcs
  BY <1>2 DEF Pcs, SubPcs
<1>5. Moves(t, i, p)
  BY <1>1, <1>4, AtMoves
<1>6. Types'
  BY <1>3, <1>5 DEF Types, Moves
<1>7. jobs[t][i].kind = "sub"
  BY <1>3 DEF JobInv, LeavePcs
<1>8. /\ Turns(t, "member", p, "sub")
      /\ SerialInv' /\ JobInv' /\ StageInv' /\ WaitInv'
  <2>1. /\ p \in SubPcs \cup {"done"} /\ "member" \notin WaitPcs
        /\ p \in FreshPcs => t \notin noted'
        /\ p \in KnownPcs => t \in noted'
    BY <1>2, <1>3 DEF SubPcs, FreshPcs, KnownPcs, WaitPcs
  <2> HIDE DEF Inv
  <2> QED BY <2>1, <1>3, <1>4, <1>5, <1>7, SubMoves
<1>9. BalanceInv' /\ CountInv' /\ UnsubInv' /\ HearInv'
  <2>1. Like("member", p)
    BY <1>2 DEF Like
  <2> QED BY <1>2, <1>3, <1>6, <1>8, <2>1, QuietKeeps
<1>10. WantInv'
  <2>1. mark'[Owner[t]] = {} => Subscribing(t)
    BY <1>8 DEF Turns, Stands, Alone
  <2> QED BY <1>3, <1>8, <2>1, WantTurn DEF clientVars
<1>11. PictureInv'
  BY <1>2, <1>3, <1>5, <1>8, PictureMoves
<1> QED BY <1>6, <1>8, <1>9, <1>10, <1>11

\* AfterNote: the socket is counted, and stays so.
LEMMA AfterNoteInv ==
  ASSUME Inv, MarksStay, NEW t \in Tab, NEW i \in DOMAIN jobs[t], AfterNote(t, i)
  PROVE  Inv'
<1> USE DEF Inv
<1>3. jobs[t][i].pc = "noted" /\ jobs' = At(t, i, "sub")
      /\ UNCHANGED <<open, wants, conns, subscribers, bcast, faults, view, noted, count, mark, missed>>
  BY DEF AfterNote, Idle, clientVars, wpVars
<1>4. "sub" \in Pcs
  BY DEF Pcs, SubPcs
<1>5. Moves(t, i, "sub")
  BY <1>3, <1>4, AtMoves
<1>6. Types'
  BY <1>3, <1>5 DEF Types, Moves
<1>7. jobs[t][i].kind = "sub"
  BY <1>3 DEF JobInv, LeavePcs
<1>8. /\ Turns(t, "noted", "sub", "sub")
      /\ SerialInv' /\ JobInv' /\ StageInv' /\ WaitInv'
  <2>1. Alone(Owner[t])' => t \notin noted'
    BY <1>3 DEF StageInv, Alone, FreshPcs
  <2>2. "sub" \in SubPcs \cup {"done"} /\ "noted" \notin WaitPcs /\ "sub" \notin KnownPcs
    BY DEF SubPcs, WaitPcs, KnownPcs
  <2> HIDE DEF Inv
  <2> QED BY <2>1, <2>2, <1>3, <1>4, <1>5, <1>7, SubMoves
<1>9. BalanceInv' /\ CountInv' /\ UnsubInv' /\ HearInv'
  <2>1. Like("noted", "sub")
    BY DEF Like
  <2> QED BY <1>3, <1>6, <1>8, <2>1, QuietKeeps
<1>10. WantInv'
  <2>1. mark'[Owner[t]] = {} => Subscribing(t)
    BY <1>8 DEF Turns, Stands, Alone
  <2> QED BY <1>3, <1>8, <2>1, WantTurn DEF clientVars
<1>11. PictureInv'
  BY <1>3, <1>5, <1>8, PictureMoves
<1> QED BY <1>6, <1>8, <1>9, <1>10, <1>11

\* AfterSub: the tab is counted by its gateway and shows its snapshot.
LEMMA AfterSubInv ==
  ASSUME Inv, MarksStay, NEW t \in Tab, NEW i \in DOMAIN jobs[t], AfterSub(t, i)
  PROVE  Inv'
<1> USE DEF Inv
<1>0. PICK q : q = jobs[t][i].pc
  OBVIOUS
<1>1. q \in {"subbed", "resnapped"} /\ jobs' = At(t, i, "done")
      /\ UNCHANGED <<open, wants, conns, subscribers, bcast, faults, mark, missed>>
      /\ view' = IF t \in open THEN [view EXCEPT ![t] = jobs[t][i].snap] ELSE view
  BY <1>0 DEF AfterSub, Idle, clientVars, wpVars
<1>2. /\ q = "subbed" => /\ noted' = noted \cup {t}
                         /\ count' = [count EXCEPT ![Owner[t]] = @ + 1]
      /\ q # "subbed" => UNCHANGED <<noted, count>>
  BY <1>0 DEF AfterSub
<1>3. "done" \in Pcs /\ q \notin WaitPcs /\ q # "done"
  BY <1>1 DEF Pcs, WaitPcs
<1>4. Moves(t, i, "done")
  BY <1>1, <1>3, AtMoves
<1>5. Owner[t] \in User /\ count \in [User -> Nat] /\ jobs[t] \in Seq(JobRec) /\ view \in [Tab -> SUBSET User]
  BY DEF Types
<1>6. jobs[t][i].snap \subseteq User
  <2>1. jobs[t][i] \in JobRec
    BY <1>5
  <2> QED BY <2>1 DEF JobRec
<1>7. Types'
  <2>1. view' \in [Tab -> SUBSET User]
    BY <1>1, <1>5, <1>6
  <2>2. CASE q = "subbed"
    <3>1. count' \in [User -> Nat] /\ noted' \subseteq Tab
      <4>1. noted' = noted \cup {t} /\ count' = [count EXCEPT ![Owner[t]] = @ + 1]
        BY <2>2, <1>2
      <4>2. count[Owner[t]] + 1 \in Nat
        BY <1>5
      <4>3. count' \in [User -> Nat]
        BY <4>1, <4>2, <1>5
      <4> QED BY <4>1, <4>3 DEF Types
    <3> QED BY <1>1, <1>4, <2>1, <3>1 DEF Types, Moves
  <2>3. CASE q # "subbed"
    BY <2>3, <1>1, <1>2, <1>4, <2>1 DEF Types, Moves
  <2> QED BY <2>2, <2>3
<1>8. jobs[t][i].kind = "sub"
  BY <1>0, <1>1 DEF JobInv, LeavePcs
<1>9. \A x \in Tab \ {t} : x \in noted' <=> x \in noted
  BY <1>2
<1>10. /\ Turns(t, q, "done", "sub")
       /\ SerialInv' /\ JobInv' /\ StageInv' /\ WaitInv'
  <2>1. "done" \notin FreshPcs /\ "done" \notin KnownPcs
    BY DEF FreshPcs, KnownPcs
  <2>2. bcast' = bcast
    BY <1>1
  <2> HIDE DEF Inv
  <2> QED BY <1>0, <1>3, <1>4, <1>8, <1>9, <2>1, <2>2, SubMoves
<1>11. Alone(Owner[t])' => Stands(t, q, "sub") /\ Stands(t, "done", "sub")'
  BY <1>10 DEF Turns
<1>12. Alone(Owner[t])' /\ q = "subbed" => t \notin noted
  BY <1>0, <1>1, <1>5 DEF StageInv, Alone, FreshPcs
<1>13. BalanceInv' /\ CountInv' /\ UnsubInv' /\ HearInv'
  <2>1. CASE q = "resnapped"
    <3>1. Like(q, "done")
      BY <2>1 DEF Like
    <3>2. UNCHANGED <<noted, count, conns, subscribers>>
      BY <2>1, <1>1, <1>2
    <3> QED BY <3>1, <3>2, <2>1, <1>7, <1>10, QuietKeeps
  <2>2. CASE q = "subbed"
    <3>1. t \in noted' /\ count'[Owner[t]] = count[Owner[t]] + 1
          /\ count[Owner[t]] \in Nat
      BY <2>2, <1>2, <1>5
    <3>10. ASSUME NEW u \in User
           PROVE  count'[u] >= count[u]
      <4>1. count' = [count EXCEPT ![Owner[t]] = @ + 1] /\ count[u] \in Nat
        BY <2>2, <1>2, <1>5
      <4> QED BY <4>1, <1>5
    <3>2. Alone(Owner[t])' => /\ ~Leaving(t) /\ ~Leaving(t)' /\ Coming(t) /\ ~Dropping(t)
                              /\ ~Dropping(t)' /\ Heard(t) /\ ~Heard(t)'
                              /\ Subscribing(t)
      BY <1>11, <2>2 DEF Stands
    <3>3. Alone(Owner[t])' => Counted(t) /\ Counted(t)' /\ ~Listed(t) /\ Listed(t)'
      BY <3>1, <3>2, <1>12, <2>2, CountedIs DEF Counted, Leaving, Coming, Listed
    <3>4. BalanceInv'
      <4>1. Alone(Owner[t])' => (Counted(t)' <=> Counted(t))
        BY <3>3
      <4> QED BY <4>1, <1>1, <1>7, <1>10, BalanceSame
    <3>5. mark'[Owner[t]] \cap {"overlap", "short", "crossed"} = {} => Alone(Owner[t])'
      BY DEF Alone
    <3>6. CountInv'
      <4>1. count'[Owner[t]] >= count[Owner[t]] + 1
        BY <3>1
      <4> QED BY <4>1, <3>10, <1>7, <1>10, CountMore
    <3>7. UnsubInv'
      BY <3>2, <3>5, <1>10, UnsubTurn
    <3>8. HearInv'
      BY <3>2, <3>5, <1>1, <1>10, HearTurn DEF Alone
    <3> QED BY <3>4, <3>6, <3>7, <3>8
  <2> QED BY <1>1, <2>1, <2>2
<1>14. WantInv'
  <2>1. mark'[Owner[t]] = {} => Subscribing(t)
    BY <1>1, <1>11 DEF Stands, Alone
  <2> QED BY <1>1, <1>9, <1>10, <2>1, WantTurn DEF clientVars
<1>15. PictureInv'
  <2>1. ASSUME mark'[Owner[t]] = {}, t \notin missed', NEW v \in User,
               ViewRight(t, v), SnapRight(t, v)
        PROVE  ViewRight(t, v)' /\ SnapRight(t, v)'
    <3>1. SnapRight(t, v)'
      BY <1>1, <1>4, <2>1 DEF SnapRight, Moves
    <3>2. v \in jobs[t][i].snap <=> conns[v] > 0
      BY <1>1, <2>1, <1>0 DEF SnapRight
    <3>3. t \in wants => view'[t] = jobs[t][i].snap
      BY <1>1, <1>5 DEF WantInv
    <3>4. ViewRight(t, v)'
      BY <1>1, <3>2, <3>3 DEF ViewRight
    <3> QED BY <3>1, <3>4
  <2>2. \A x \in Tab \ {t} : jobs'[x] = jobs[x] /\ view'[x] = view[x]
    BY <1>1, <1>4, <1>5 DEF Moves
  <2> QED BY <1>1, <1>9, <2>1, <2>2, PictureTurn
<1> QED BY <1>7, <1>10, <1>13, <1>14, <1>15

\* AfterLess: the last tab goes on to leave, another is listed no more.
LEMMA AfterLessInv ==
  ASSUME Inv, MarksStay, NEW t \in Tab, NEW i \in DOMAIN jobs[t], AfterLess(t, i)
  PROVE  Inv'
<1> USE DEF Inv
<1> DEFINE u == Owner[t]
<1>0. PICK last \in BOOLEAN, p \in {"unsub", "done"} :
        last = LastTab(Left(count[u])) /\ p = IF last THEN "unsub" ELSE "done"
  BY DEF LastTab
<1>1. jobs[t][i].pc = "lessened" /\ jobs' = At(t, i, p)
      /\ UNCHANGED <<open, wants, conns, subscribers, bcast, faults, view, missed>>
      /\ count' = [count EXCEPT ![u] = Left(@)]
      /\ mark' = Marked(u, "crossed", last /\ \E x \in TabsOf(u) : Subscribing(x))
  BY <1>0 DEF AfterLess, Idle, clientVars, wpVars
<1>2. noted' = IF last THEN noted ELSE noted \ {t}
  BY <1>0 DEF AfterLess
<1>3. p \in {"unsub", "done"} /\ (p = "unsub" <=> last)
      /\ p \in Pcs /\ p \in LeavePcs \cup {"done"} /\ p \notin FreshPcs
      /\ (p \in KnownPcs => last)
  BY <1>0 DEF Pcs, LeavePcs, FreshPcs, KnownPcs
<1>4. u \in User /\ count \in [User -> Nat] /\ mark \in [User -> SUBSET Marks]
  BY DEF Types
<1>5. /\ count' \in [User -> Nat] /\ count'[u] >= count[u] - 1
      /\ \A x \in User : x # u => count'[x] = count[x]
      /\ last => count'[u] = 0
  <2>1. Left(count[u]) \in Nat /\ Left(count[u]) >= count[u] - 1
    BY <1>4 DEF Left
  <2>2. count' = [count EXCEPT ![u] = Left(count[u])]
    BY <1>1
  <2>3. last => Left(count[u]) = 0
    BY <1>0 DEF LastTab
  <2> HIDE DEF u
  <2> QED BY <2>1, <2>2, <2>3, <1>4
<1>6. /\ mark' \in [User -> SUBSET Marks]
      /\ "crossed" \notin mark'[u] /\ last => \A x \in TabsOf(u) : ~Subscribing(x)
  BY <1>1, <1>4 DEF Marked, Marks
<1>7. Moves(t, i, p)
  BY <1>1, <1>3, AtMoves
<1>8. Types'
  <2>1. noted' \subseteq Tab
    BY <1>2 DEF Types
  <2> QED BY <1>1, <1>5, <1>6, <1>7, <2>1 DEF Types, Moves
<1>9. PICK kind : kind = jobs[t][i].kind /\ kind # "sub"
  BY <1>1 DEF JobInv, SubPcs
<1>10. \A x \in Tab \ {t} : x \in noted' <=> x \in noted
  BY <1>2
<1>11. Alone(u)' => t \in noted
  BY <1>1, <1>4 DEF StageInv, Alone, KnownPcs, MarksStay
<1>12. /\ Turns(t, "lessened", p, kind)
       /\ SerialInv' /\ JobInv' /\ StageInv' /\ WaitInv'
  <2>1. "lessened" \notin WaitPcs
    BY DEF WaitPcs
  <2>2. bcast' = bcast
    BY <1>1
  <2>3. Alone(u)' => (p \in KnownPcs => t \in noted')
    BY <1>2, <1>3, <1>11
  <2> HIDE DEF Inv
  <2> QED BY <1>3, <1>7, <1>9, <1>10, <1>1, <2>1, <2>2, <2>3, LeaveMoves
<1>13. Alone(u)' => Stands(t, "lessened", kind) /\ Stands(t, p, kind)'
  BY <1>12 DEF Turns
<1>14. Alone(u)' => /\ Leaving(t) /\ ~Coming(t) /\ ~Dropping(t) /\ ~Heard(t) /\ ~Heard(t)'
                    /\ ~Coming(t)' /\ ~Subscribing(t)'
                    /\ (last <=> Dropping(t)') /\ (last => Leaving(t)')
  <2>1. CASE p = "unsub"
    BY <2>1, <1>3, <1>9, <1>13 DEF Stands
  <2>2. CASE p = "done"
    BY <2>2, <1>3, <1>9, <1>13 DEF Stands
  <2> QED BY <2>1, <2>2, <1>3
<1>15. Alone(u)' => ~Counted(t) /\ ~Counted(t)' /\ Listed(t) /\ ~Listed(t)'
  <2>1. Alone(u)' /\ ~last => t \notin noted'
    BY <1>2
  <2>2. Alone(u)' => ~Counted(t)
    BY <1>14, CountedIs
  <2>3. Alone(u)' => ~Counted(t)'
    BY <1>14, <2>1 DEF Counted, Leaving, Coming
  <2>4. Alone(u)' => Listed(t)
    BY <1>11, <1>14 DEF Listed
  <2>5. Alone(u)' => ~Listed(t)'
    BY <1>14, <2>1 DEF Listed
  <2> QED BY <2>2, <2>3, <2>4, <2>5
<1>16. BalanceInv'
  <2>1. Alone(Owner[t])' => (Counted(t)' <=> Counted(t))
    BY <1>15
  <2> QED BY <2>1, <1>1, <1>8, <1>12, BalanceSame
<1>17. mark'[u] \cap {"overlap", "short", "crossed"} = {} => Alone(u)' /\ "crossed" \notin mark'[u]
  BY DEF Alone
<1>18. CountInv'
  <2>1. \A x \in User : x # Owner[t] => count'[x] >= count[x]
    BY <1>4, <1>5
  <2> QED BY <2>1, <1>5, <1>8, <1>12, <1>15, <1>17, CountTurn
<1>19. UnsubInv'
  <2>1. ASSUME mark'[u] \cap {"overlap", "short", "crossed"} = {}, last
        PROVE  \A x \in TabsOf(u) \ {t} : ~Listed(x) /\ ~Subscribing(x)
    <3> DEFINE S == {x \in TabsOf(u) : Listed(x)'}
    <3>1. ListedOf(u)' = Cardinality(S) /\ IsFiniteSet(S)
      BY FS_Subset DEF ListedOf, TabsOf
    <3>2. Cardinality(S) <= 0 /\ Cardinality(S) \in Nat
      BY <1>4, <1>5, <1>18, <2>1, <3>1, FS_CardinalityType DEF CountInv
    <3>3. S = {}
      BY <3>1, <3>2, FS_EmptySet
    <3>4. \A x \in TabsOf(u) \ {t} : ~Listed(x)
      BY <1>12, <3>3 DEF TabsOf, Turns, Unmoved, Listed
    <3> QED BY <3>4, <1>6, <1>17, <2>1
  <2> QED BY <2>1, <1>12, <1>14, <1>15, <1>17, UnsubTurn
<1>20. HearInv'
  <2>1. mark'[u] \cap {"overlap", "short", "crossed", "dropped"} = {} => Alone(u)'
    BY DEF Alone
  <2> QED BY <2>1, <1>1, <1>12, <1>14, <1>15, HearTurn
<1>21. WantInv'
  <2>1. mark'[u] = {} => ~Subscribing(t)'
    BY <1>14 DEF Alone
  <2>2. t \in noted' => t \in noted
    BY <1>2
  <2> QED BY <1>1, <1>10, <1>12, <2>1, <2>2, WantTurn DEF clientVars
<1>22. PictureInv'
  BY <1>1, <1>2, <1>3, <1>7, <1>10, <1>12, PictureMoves
<1> QED BY <1>8, <1>12, <1>16, <1>18, <1>19, <1>20, <1>21, <1>22

\* AfterUnsub: no other tab of the user is listed, so the count may be zero.
LEMMA AfterUnsubInv ==
  ASSUME Inv, MarksStay, NEW t \in Tab, NEW i \in DOMAIN jobs[t], AfterUnsub(t, i)
  PROVE  Inv'
<1> USE DEF Inv
<1>1. jobs[t][i].pc = "unsubbed" /\ jobs' = At(t, i, "done")
      /\ UNCHANGED <<open, wants, conns, subscribers, bcast, faults, view, mark, missed>>
      /\ count' = [count EXCEPT ![Owner[t]] = 0] /\ noted' = noted \ {t}
  BY DEF AfterUnsub, Idle, clientVars, wpVars
<1>2. "done" \in Pcs /\ "done" \notin FreshPcs /\ "done" \notin KnownPcs /\ "unsubbed" \notin WaitPcs
  BY DEF Pcs, FreshPcs, KnownPcs, WaitPcs
<1>3. Moves(t, i, "done")
  BY <1>1, <1>2, AtMoves
<1>4. Owner[t] \in User /\ count \in [User -> Nat]
  BY DEF Types
<1>5. count' \in [User -> Nat] /\ \A u \in User : u # Owner[t] => count'[u] = count[u]
  BY <1>1, <1>4
<1>6. Types'
  <2>1. noted' \subseteq Tab
    BY <1>1 DEF Types
  <2> QED BY <1>1, <1>3, <1>5, <2>1 DEF Types, Moves
<1>7. PICK kind : kind = jobs[t][i].kind /\ kind # "sub"
  BY <1>1 DEF JobInv, SubPcs
<1>8. \A x \in Tab \ {t} : x \in noted' <=> x \in noted
  BY <1>1
<1>9. /\ Turns(t, "unsubbed", "done", kind)
      /\ SerialInv' /\ JobInv' /\ StageInv' /\ WaitInv'
  <2> HIDE DEF Inv
  <2> QED BY <1>1, <1>2, <1>3, <1>7, <1>8, LeaveMoves
<1>10. Alone(Owner[t])' => /\ Leaving(t) /\ ~Coming(t) /\ Dropping(t) /\ ~Heard(t) /\ ~Heard(t)'
                           /\ ~Coming(t)' /\ ~Subscribing(t)' /\ ~Dropping(t)'
  BY <1>7, <1>9 DEF Turns, Stands
<1>11. Alone(Owner[t])' => ~Counted(t) /\ ~Counted(t)' /\ ~Listed(t) /\ ~Listed(t)'
  <2>1. t \notin noted'
    BY <1>1
  <2>2. Alone(Owner[t])' => ~Counted(t) /\ ~Listed(t)
    BY <1>10, CountedIs DEF Listed
  <2>3. Alone(Owner[t])' => ~Counted(t)' /\ ~Listed(t)'
    BY <1>10, <2>1 DEF Counted, Coming, Listed
  <2> QED BY <2>2, <2>3
<1>12. BalanceInv'
  BY <1>1, <1>6, <1>9, <1>11, BalanceSame
<1>13. CountInv'
  <2> SUFFICES ASSUME NEW u \in User, mark'[u] \cap {"overlap", "short", "crossed"} = {}
               PROVE  ListedOf(u)' <= count'[u]
    BY DEF CountInv
  <2>1. \A x \in Tab \ {t} : Listed(x)' <=> Listed(x)
    BY <1>9 DEF Turns, Unmoved, Listed
  <2>2. CASE u # Owner[t]
    BY <2>1, <2>2, <1>1, <1>5, ListedStep DEF CountInv
  <2>3. CASE u = Owner[t]
    <3>1. Alone(u)' /\ mark[u] \cap {"overlap", "short", "crossed"} = {}
      BY <1>1 DEF Alone
    <3>2. \A x \in TabsOf(u) : ~Listed(x)'
      BY <1>10, <1>11, <2>1, <2>3, <3>1 DEF UnsubInv, TabsOf
    <3>3. {x \in TabsOf(u) : Listed(x)'} = {}
      BY <3>2
    <3>4. ListedOf(u)' = 0
      BY <3>3, FS_EmptySet DEF ListedOf, TabsOf
    <3> QED BY <1>5, <3>4
  <2> QED BY <2>2, <2>3
<1>14. UnsubInv'
  BY <1>9, <1>10, <1>11, UnsubTurn DEF Alone
<1>15. HearInv'
  <2>1. mark'[Owner[t]] \cap {"overlap", "short", "crossed", "dropped"} = {} => Alone(Owner[t])'
    BY DEF Alone
  <2> QED BY <2>1, <1>1, <1>9, <1>10, <1>11, HearTurn
<1>16. WantInv'
  <2>1. mark'[Owner[t]] = {} => ~Subscribing(t)'
    BY <1>10 DEF Alone
  <2>2. t \in noted' => t \in noted
    BY <1>1
  <2> QED BY <1>1, <1>8, <1>9, <2>1, <2>2, WantTurn DEF clientVars
<1>17. PictureInv'
  BY <1>1, <1>3, <1>8, <1>9, PictureMoves
<1> QED BY <1>6, <1>9, <1>12, <1>13, <1>14, <1>15, <1>16, <1>17

FailPcs == {"note", "noted", "sub", "subbed", "resnap", "resnapped", "back", "less",
            "lessened", "unsub", "unsubbed"}

\* Fail, at each stage: what is out of balance then is marked.
LEMMA FailInv ==
  ASSUME Inv, MarksStay, NEW t \in Tab, NEW i \in DOMAIN jobs[t], Fail(t, i)
  PROVE  Inv'
<1>0. Types /\ JobInv /\ StageInv /\ BalanceInv /\ CountInv /\ UnsubInv /\ HearInv /\ WantInv /\ PictureInv
  BY DEF Inv
<1>1. PICK q, kind, p : /\ q = jobs[t][i].pc /\ kind = jobs[t][i].kind
                        /\ p = IF q \in {"sub", "subbed"} THEN "back" ELSE "done"
  OBVIOUS
<1> DEFINE phantom == q \in {"noted", "back"} \/ (q = "less" /\ kind = "close")
           short   == q \in {"lessened", "unsub", "unsubbed"} /\ kind = "unsub"
<1>2. /\ q \in FailPcs /\ jobs' = At(t, i, p)
      /\ noted' = IF kind = "close" THEN noted \ {t} ELSE noted
      /\ mark' = [mark EXCEPT ![Owner[t]] = @
                   \cup (IF phantom THEN {"phantom"} ELSE {})
                   \cup (IF short THEN {"short"} ELSE {})]
      /\ missed' = IF q = "resnapped" THEN missed \cup {t} ELSE missed
      /\ UNCHANGED <<open, wants, view, count, conns, subscribers, bcast>>
  BY <1>1 DEF Fail, FailPcs, Undo, clientVars, wpVars
<1>3. /\ q \in FailPcs \ LeavePcs => q \in SubPcs /\ kind = "sub"
      /\ q \in LeavePcs => kind \in {"unsub", "close"}
  <2>1. jobs[t][i] \in JobRec
    BY <1>0 DEF Types
  <2>2. kind \in {"sub", "unsub", "close"}
    BY <1>1, <2>1 DEF JobRec
  <2>3. IF kind = "sub" THEN q \in SubPcs \cup {"done"} ELSE q \in LeavePcs \cup {"done"}
    BY <1>0, <1>1 DEF JobInv
  <2> QED BY <1>2, <2>2, <2>3 DEF FailPcs, SubPcs, LeavePcs
<1>4. Owner[t] \in User /\ mark \in [User -> SUBSET Marks] /\ conns \in [User -> Nat]
      /\ count \in [User -> Nat]
  BY <1>0 DEF Types
<1>5. /\ mark' \in [User -> SUBSET Marks]
      /\ phantom => "phantom" \in mark'[Owner[t]]
      /\ short => "short" \in mark'[Owner[t]]
  <2> HIDE DEF phantom, short
  <2> QED BY <1>2, <1>4 DEF Marks
<1>6. p \in Pcs /\ q # "done" /\ q \notin WaitPcs /\ p \notin KnownPcs
      /\ (q \in FailPcs \ LeavePcs => p \in SubPcs \cup {"done"})
      /\ (q \in LeavePcs => p = "done" /\ p \in LeavePcs \cup {"done"})
  BY <1>1, <1>2 DEF Pcs, FailPcs, SubPcs, LeavePcs, WaitPcs, KnownPcs
<1>7. Moves(t, i, p)
  BY <1>0, <1>2, <1>6, AtMoves
<1>8. Types'
  <2>1. noted' \subseteq Tab /\ missed' \subseteq Tab
    BY <1>0, <1>2 DEF Types
  <2> QED BY <1>0, <1>2, <1>5, <1>7, <2>1 DEF Types, Moves
<1>9. \A x \in Tab \ {t} : x \in noted' <=> x \in noted
  BY <1>2
<1>10. Alone(Owner[t])' => /\ q \in FreshPcs => t \notin noted
                           /\ q \in KnownPcs => t \in noted
  BY <1>0, <1>1, <1>4 DEF StageInv, MarksStay, Alone
<1>11. Alone(Owner[t])' => (p \in FreshPcs => t \notin noted')
  <2>1. p \in FreshPcs => q \in FreshPcs
    BY <1>1 DEF FreshPcs
  <2> QED BY <2>1, <1>2, <1>10
<1>12. /\ Turns(t, q, p, kind)
       /\ SerialInv' /\ JobInv' /\ StageInv' /\ WaitInv'
  <2>1. CASE q \in LeavePcs
    <3>1. kind # "sub"
      BY <1>3, <2>1
    <3> QED BY <1>1, <1>2, <1>6, <1>7, <1>9, <1>11, <2>1, <3>1, LeaveMoves
  <2>2. CASE q \notin LeavePcs
    <3>1. kind = "sub" /\ jobs[t][i].kind = "sub" /\ p \in SubPcs \cup {"done"}
      BY <1>1, <1>2, <1>3, <1>6, <2>2
    <3> QED BY <1>1, <1>2, <1>6, <1>7, <1>9, <1>11, <3>1, SubMoves
  <2> QED BY <2>1, <2>2
<1>13. Alone(Owner[t])' =>
         /\ Leaving(t) <=> q \in {"lessened", "unsub", "unsubbed"}
         /\ Coming(t) <=> q \in {"noted", "sub", "subbed", "back"}
         /\ Dropping(t) <=> q \in {"unsub", "unsubbed"}
         /\ Subscribing(t)' => Subscribing(t)
         /\ ~Leaving(t)' /\ ~Dropping(t)' /\ ~Heard(t)' /\ (Coming(t)' <=> q \in {"sub", "subbed"})
  <2>1. Alone(Owner[t])' => Stands(t, q, kind) /\ Stands(t, p, kind)'
    BY <1>12 DEF Turns
  <2>2. p \in {"back", "done"} /\ (p = "back" <=> q \in {"sub", "subbed"})
    BY <1>1
  <2>3. q \notin {"noting", "lessing", "done"}
    BY <1>2 DEF FailPcs
  <2> QED BY <2>1, <2>2, <2>3 DEF Stands
<1>14. Alone(Owner[t])' =>
         /\ Counted(t) <=> q \in {"noted", "sub", "subbed", "back", "less", "resnap", "resnapped"}
         /\ Listed(t) <=> q \in {"less", "lessened", "resnap", "resnapped"}
  <2>1. Alone(Owner[t])' =>
          (t \in noted <=>
             q \in {"resnap", "resnapped", "less", "lessened", "unsub", "unsubbed"})
    BY <1>2, <1>10 DEF FailPcs, FreshPcs, KnownPcs
  <2> QED BY <2>1, <1>13, CountedIs DEF Listed
<1>15. Alone(Owner[t])' =>
         (t \in noted' <=> kind # "close"
            /\ q \in {"resnap", "resnapped", "less", "lessened", "unsub", "unsubbed"})
  BY <1>2, <1>10 DEF FailPcs, FreshPcs, KnownPcs
<1>16. Alone(Owner[t])' =>
         /\ Counted(t)' <=> t \in noted' \/ q \in {"sub", "subbed"}
         /\ Listed(t)' <=> t \in noted'
  BY <1>13 DEF Counted, Leaving, Coming, Listed
<1>17. kind = "close" => q \in LeavePcs
  BY <1>2, <1>3
<1>18. Alone(Owner[t])' =>
         /\ Counted(t) /\ ~Counted(t)' => phantom
         /\ Counted(t)' /\ ~Counted(t) => short
         /\ Listed(t)' /\ ~Listed(t) => short
  BY <1>2, <1>3, <1>14, <1>15, <1>16, <1>17 DEF FailPcs, LeavePcs
<1>19. Alone(Owner[t])' =>
         /\ Counted(t) /\ ~Counted(t)' => "phantom" \in mark'[Owner[t]]
         /\ Counted(t)' /\ ~Counted(t) => "short" \in mark'[Owner[t]]
         /\ Listed(t)' /\ ~Listed(t) => "short" \in mark'[Owner[t]]
  BY <1>5, <1>18
<1> HIDE DEF phantom, short
<1>20. BalanceInv'
  <2>1. Alone(Owner[t])' =>
           LET n == conns[Owner[t]]
               m == conns'[Owner[t]]
           IN /\ "phantom" \notin mark'[Owner[t]] =>
                   /\ Counted(t)' /\ ~Counted(t) => m <= n + 1
                   /\ Counted(t) /\ ~Counted(t)' => m <= n - 1 \/ m = 0
                   /\ (Counted(t)' <=> Counted(t)) => m <= n
              /\ "short" \notin mark'[Owner[t]] =>
                   /\ Counted(t)' /\ ~Counted(t) => m >= n + 1
                   /\ Counted(t) /\ ~Counted(t)' => m >= n - 1
                   /\ (Counted(t)' <=> Counted(t)) => m >= n
    <3>1. conns'[Owner[t]] = conns[Owner[t]] /\ conns[Owner[t]] \in Nat
      BY <1>2, <1>4
    <3> QED BY <3>1, <1>19
  <2>2. \A u \in User : u # Owner[t] => conns'[u] = conns[u]
    BY <1>2
  <2> QED BY <1>0, <1>8, <1>12, <2>1, <2>2, BalanceTurn
<1>21. mark'[Owner[t]] \cap {"overlap", "short", "crossed"} = {} =>
         Alone(Owner[t])' /\ (Listed(t)' => Listed(t))
  BY <1>19 DEF Alone
<1>22. CountInv'
  <2>1. \A u \in User : count'[u] >= count[u]
    BY <1>2, <1>4
  <2> QED BY <1>0, <1>8, <1>12, <1>21, <2>1, CountMore
<1>23. UnsubInv'
  BY <1>0, <1>12, <1>13, <1>21, UnsubTurn
<1>24. HearInv'
  <2>1. mark'[Owner[t]] \cap {"overlap", "short", "crossed", "dropped"} = {}
           /\ (Listed(t)' \/ Heard(t)') => Listed(t)
    BY <1>13, <1>21
  <2> QED BY <2>1, <1>0, <1>2, <1>12, HearTurn
<1>25. WantInv'
  <2>1. mark'[Owner[t]] = {} => (Subscribing(t)' => Subscribing(t))
    BY <1>13 DEF Alone
  <2>2. t \in noted' => t \in noted
    BY <1>2
  <2>3. missed \subseteq missed'
    BY <1>2
  <2> QED BY <1>0, <1>2, <1>9, <1>12, <2>1, <2>2, <2>3, WantTurn DEF clientVars
<1>26. PictureInv'
  <2>1. p \notin {"subbed", "resnapped"}
    BY <1>1
  <2>2. Alone(Owner[t])' /\ q \in {"subbed", "resnapped"} => t \notin noted' \/ t \in missed'
    BY <1>2, <1>15
  <2>3. missed \subseteq missed' /\ (t \in noted' => t \in noted)
    BY <1>2
  <2> QED BY <1>0, <1>2, <1>7, <1>9, <1>12, <2>1, <2>2, <2>3, PictureMoves
<1> QED BY <1>8, <1>12, <1>20, <1>22, <1>23, <1>24, <1>25, <1>26 DEF Inv

-----------------------------------------------------------------------------
(* WorkspacePresence *)

LEMMA HeardSubscribes ==
  ASSUME JobInv, NEW x \in Tab
  PROVE  Heard(x) => Subscribing(x)
BY DEF JobInv, Heard, Subscribing, Job, LeavePcs

\* Unsub: the tabs of the user that are listed are none.
LEMMA UnsubCallInv ==
  ASSUME Inv, MarksStay, NEW t \in Tab, NEW i \in DOMAIN jobs[t], Unsub(t, i)
  PROVE  Inv'
<1>0. Types /\ JobInv /\ StageInv /\ UnsubInv /\ HearInv /\ WantInv /\ PictureInv
  BY DEF Inv
<1>1. /\ jobs[t][i].pc = "unsub" /\ jobs' = At(t, i, "unsubbed")
      /\ subscribers' = subscribers \ {Owner[t]}
      /\ UNCHANGED <<open, wants, view, noted, count, conns, bcast, faults, mark, missed>>
  BY DEF Unsub, clientVars
<1>2. /\ "unsubbed" \in Pcs /\ "unsubbed" \notin FreshPcs /\ "unsub" \notin WaitPcs
      /\ "unsubbed" \in LeavePcs \cup {"done"} /\ "unsub" \in KnownPcs
  BY DEF Pcs, LeavePcs, FreshPcs, KnownPcs, WaitPcs
<1>3. Moves(t, i, "unsubbed")
  BY <1>0, <1>1, <1>2, AtMoves
<1>4. Owner[t] \in User
  OBVIOUS
<1>5. Types'
  BY <1>0, <1>1, <1>3 DEF Types, Moves
<1>6. PICK kind : kind = jobs[t][i].kind /\ kind # "sub"
  BY <1>0, <1>1 DEF JobInv, SubPcs
<1>7. Alone(Owner[t])' => t \in noted'
  BY <1>0, <1>1, <1>2 DEF StageInv, Alone
<1>8. /\ Turns(t, "unsub", "unsubbed", kind)
      /\ SerialInv' /\ JobInv' /\ StageInv' /\ WaitInv'
  BY <1>1, <1>2, <1>3, <1>6, <1>7, LeaveMoves
<1>9. /\ BalanceInv' /\ CountInv' /\ UnsubInv'
      /\ Alone(Owner[t])' => (Listed(t)' <=> Listed(t))
  <2>1. Like("unsub", "unsubbed")
    BY DEF Like
  <2> QED BY <1>1, <1>5, <1>8, <2>1, QuietCounts
<1>10. Alone(Owner[t])' => Dropping(t) /\ ~Heard(t) /\ ~Heard(t)' /\ ~Subscribing(t)'
  BY <1>6, <1>8 DEF Turns, Stands
<1>11. HearInv'
  <2>1. ASSUME mark'[Owner[t]] \cap {"overlap", "short", "crossed"} = {},
               NEW x \in TabsOf(Owner[t])
        PROVE  ~Listed(x)' /\ ~Heard(x)'
    <3>1. Alone(Owner[t])' /\ mark[Owner[t]] \cap {"overlap", "short", "crossed"} = {}
      BY <1>1, <2>1 DEF Alone
    <3>2. ~Listed(x) /\ ~Subscribing(x)
      BY <1>0, <1>10, <2>1, <3>1 DEF UnsubInv
    <3>3. ~Heard(x)
      BY <1>0, <2>1, <3>2, HeardSubscribes DEF TabsOf
    <3>4. CASE x = t
      BY <1>9, <1>10, <3>1, <3>2, <3>4
    <3>5. CASE x # t
      BY <1>8, <2>1, <3>2, <3>3, <3>5 DEF Turns, Unmoved, Listed, TabsOf
    <3> QED BY <3>4, <3>5
  <2>2. \A u \in subscribers : u \in subscribers' \/ u = Owner[t]
    BY <1>1
  <2>3. mark'[Owner[t]] \cap {"overlap", "short", "crossed", "dropped"} = {}
          /\ (Listed(t)' \/ Heard(t)') => Listed(t)
    BY <1>9, <1>10 DEF Alone
  <2> QED BY <1>0, <1>8, <2>1, <2>2, <2>3, HearTurn
<1>12. WantInv'
  <2>1. mark'[Owner[t]] = {} => ~Subscribing(t)'
    BY <1>10 DEF Alone
  <2> QED BY <1>0, <1>1, <1>8, <2>1, WantTurn DEF clientVars
<1>13. PictureInv'
  BY <1>0, <1>1, <1>3, <1>8, PictureMoves
<1> QED BY <1>5, <1>8, <1>9, <1>11, <1>12, <1>13 DEF Inv

\* Sub: the snapshot is true when it is taken.
LEMMA SubCallInv ==
  ASSUME Inv, MarksStay, NEW t \in Tab, NEW i \in DOMAIN jobs[t], Sub(t, i)
  PROVE  Inv'
<1>0. Types /\ JobInv /\ SerialInv /\ StageInv /\ HearInv /\ WantInv /\ PictureInv
  BY DEF Inv
<1>1. PICK q, p : q = jobs[t][i].pc /\ p = IF q = "sub" THEN "subbed" ELSE "resnapped"
  OBVIOUS
<1>2. /\ q \in {"sub", "resnap"} /\ subscribers' = subscribers \cup {Owner[t]}
      /\ missed' = missed \ {t}
      /\ UNCHANGED <<open, wants, view, noted, count, conns, bcast, faults, mark>>
  BY <1>1 DEF Sub, clientVars
<1>3. Moves(t, i, p) /\ jobs'[t][i].snap = Online
  <2>1. jobs[t] \in Seq(JobRec) /\ jobs[t][i] \in JobRec /\ jobs \in [Tab -> Seq(JobRec)]
    BY <1>0 DEF Types
  <2> DEFINE r == [jobs[t][i] EXCEPT !.pc = p, !.snap = Online]
             s == [jobs[t] EXCEPT ![i] = r]
  <2>2. r \in JobRec /\ r.pc = p /\ r.kind = jobs[t][i].kind /\ r.snap = Online
    BY <1>1, <2>1 DEF JobRec, Pcs, SubPcs, Online
  <2>3. jobs' = [jobs EXCEPT ![t] = s]
    <3>1. jobs' = [jobs EXCEPT ![t][i].pc = IF @ = "sub" THEN "subbed" ELSE "resnapped",
                               ![t][i].snap = Online]
      BY DEF Sub
    <3> QED BY <3>1, <2>1, <1>1
  <2> HIDE DEF r
  <2>4. s \in Seq(JobRec) /\ DOMAIN s = DOMAIN jobs[t] /\ s[i] = r
        /\ \A j \in DOMAIN jobs[t] : j # i => s[j] = jobs[t][j]
    BY <2>1, <2>2
  <2> HIDE DEF s
  <2> QED BY <2>1, <2>2, <2>3, <2>4 DEF Moves
<1>4. Owner[t] \in User
  OBVIOUS
<1>5. Types'
  BY <1>0, <1>2, <1>3 DEF Types, Moves
<1>6. jobs[t][i].kind = "sub"
  BY <1>0, <1>1, <1>2 DEF JobInv, LeavePcs
<1>7. /\ p \in Pcs /\ p \in SubPcs \cup {"done"} /\ q \notin WaitPcs /\ q # "done"
      /\ (p \in FreshPcs => q \in FreshPcs) /\ (p \in KnownPcs => q \in KnownPcs)
  BY <1>1, <1>2 DEF Pcs, SubPcs, FreshPcs, KnownPcs, WaitPcs
<1>8. Alone(Owner[t])' => /\ p \in FreshPcs => t \notin noted'
                          /\ p \in KnownPcs => t \in noted'
  BY <1>0, <1>1, <1>2, <1>7 DEF StageInv, Alone
<1>9. /\ Turns(t, q, p, "sub")
      /\ SerialInv' /\ JobInv' /\ StageInv' /\ WaitInv'
  BY <1>1, <1>2, <1>3, <1>6, <1>7, <1>8, SubMoves
<1>10. BalanceInv' /\ CountInv' /\ UnsubInv' /\ HearInv'
  <2>1. Like(q, p)
    BY <1>1, <1>2 DEF Like
  <2>2. Owner[t] \in subscribers' /\ subscribers \subseteq subscribers'
    BY <1>2
  <2> QED BY <1>2, <1>5, <1>7, <1>9, <2>1, <2>2, QuietKeeps
<1>11. WantInv'
  <2>1. mark'[Owner[t]] = {} => Subscribing(t)
    BY <1>7, <1>9 DEF Turns, Stands, Alone
  <2>2. \A x \in Tab \ {t} : x \in missed => x \in missed'
    BY <1>2
  <2> QED BY <1>0, <1>2, <1>9, <2>1, <2>2, WantTurn DEF clientVars
<1>12. PictureInv'
  <2> SUFFICES ASSUME NEW x \in Tab, mark'[Owner[x]] = {}, x \notin missed', NEW v \in User,
                      ~OnItsWay(Owner[x], v)'
               PROVE  ViewRight(x, v)' /\ SnapRight(x, v)'
    BY DEF PictureInv
  <2>1. CASE x = t
    <3>1. Alone(Owner[t])' /\ Alone(Owner[t])
      BY <1>2, <2>1 DEF Alone
    <3>2. Snapped(t)'
      BY <1>1, <1>2, <1>9, <3>1 DEF Turns, Stands
    <3>3. \A j \in DOMAIN jobs[t] : j # i => jobs[t][j].pc = "done"
      BY <1>0, <1>1, <1>7, <3>1 DEF SerialInv
    <3>4. SnapRight(t, v)'
      <4> SUFFICES ASSUME NEW j \in DOMAIN jobs'[t], jobs'[t][j].pc \in {"subbed", "resnapped"}
                   PROVE  v \in jobs'[t][j].snap <=> conns[v] > 0
        BY <1>2 DEF SnapRight
      <4>1. j = i
        BY <1>3, <3>3 DEF Moves
      <4> QED BY <1>3, <4>1 DEF Online
    <3> QED BY <2>1, <3>2, <3>4 DEF ViewRight
  <2>2. CASE x # t
    <3>1. mark[Owner[x]] = {} /\ x \notin missed /\ ~OnItsWay(Owner[x], v)
      BY <1>2, <2>2 DEF OnItsWay
    <3>2. ViewRight(x, v) /\ SnapRight(x, v)
      BY <1>0, <3>1 DEF PictureInv
    <3>3. jobs'[x] = jobs[x]
      BY <1>3, <2>2 DEF Moves
    <3>4. Snapped(x)' <=> Snapped(x)
      BY <3>3 DEF Snapped, Job
    <3>5. ViewRight(x, v)'
      BY <1>2, <3>2, <3>4 DEF ViewRight
    <3> QED BY <1>2, <3>2, <3>3, <3>5 DEF SnapRight
  <2> QED BY <2>1, <2>2
<1> QED BY <1>5, <1>9, <1>10, <1>11, <1>12 DEF Inv

NotePcs == {"note", "back", "less"}

\* Note: a change of state is under way to every subscriber.
LEMMA NoteInv ==
  ASSUME Inv, MarksStay, NEW t \in Tab, NEW i \in DOMAIN jobs[t], Note(t, i)
  PROVE  Inv'
<1>0. Types /\ JobInv /\ WaitInv /\ SerialInv /\ StageInv /\ BalanceInv /\ CountInv /\ UnsubInv
      /\ HearInv /\ WantInv /\ PictureInv
  BY DEF Inv
<1> DEFINE u == Owner[t]
<1>1. PICK q, kind : q = jobs[t][i].pc /\ kind = jobs[t][i].kind
  OBVIOUS
<1>2. PICK flips \in BOOLEAN : flips = Flips(conns[u], Delta(q))
  BY DEF Flips
<1>3. PICK told \in BOOLEAN : told = (flips /\ subscribers # {})
  OBVIOUS
<1>4. PICK p : p = IF told THEN Waiting(q) ELSE Answered(q)
  OBVIOUS
<1> DEFINE b == [by |-> <<t, i>>, about |-> u, online |-> Delta(q) = 1, to |-> subscribers,
                 failed |-> {}]
<1>5. /\ q \in NotePcs
      /\ conns' = [conns EXCEPT ![u] = Bumped(@, Delta(q))]
      /\ bcast' = IF told THEN Append(bcast, b) ELSE bcast
      /\ jobs' = At(t, i, p)
      /\ missed' = IF flips THEN missed \cup {x \in Tab : Owner[x] \notin subscribers} ELSE missed
      /\ UNCHANGED <<open, wants, view, noted, count, subscribers, faults, mark>>
  BY <1>1, <1>2, <1>3, <1>4 DEF Note, NotePcs, clientVars
<1>6. u \in User /\ conns \in [User -> Nat] /\ conns[u] \in Nat /\ count \in [User -> Nat]
  BY <1>0 DEF Types
<1>7. /\ q = "note" => p \in {"noting", "noted"}
      /\ q = "back" => p \in {"backing", "done"}
      /\ q = "less" => p \in {"lessing", "lessened"}
      /\ told => p \in WaitPcs
  BY <1>4, <1>5 DEF Waiting, Answered, NotePcs, WaitPcs
<1>8. /\ q # "less" => q \in SubPcs \ LeavePcs /\ p \in SubPcs \cup {"done"}
      /\ q = "less" => p \in LeavePcs \cup {"done"} /\ q \notin SubPcs
      /\ p \in Pcs /\ q # "done" /\ q \notin WaitPcs
      /\ (p \in FreshPcs => q \in FreshPcs) /\ (p \in KnownPcs => q \in KnownPcs)
      /\ q \in {"note", "back"} => q \in FreshPcs
      /\ q = "less" => q \in KnownPcs
      /\ q \notin {"subbed", "resnapped"} /\ p \notin {"subbed", "resnapped"}
  <2>1. CASE q = "note"
    BY <2>1, <1>7 DEF Pcs, SubPcs, LeavePcs, WaitPcs, FreshPcs, KnownPcs
  <2>2. CASE q = "back"
    BY <2>2, <1>7 DEF Pcs, SubPcs, LeavePcs, WaitPcs, FreshPcs, KnownPcs
  <2>3. CASE q = "less"
    BY <2>3, <1>7 DEF Pcs, SubPcs, LeavePcs, WaitPcs, FreshPcs, KnownPcs
  <2> QED BY <2>1, <2>2, <2>3, <1>5 DEF NotePcs
<1>9. Moves(t, i, p)
  BY <1>0, <1>5, <1>8, AtMoves
<1>10. conns' \in [User -> Nat] /\ (\A v \in User : v # u => conns'[v] = conns[v])
       /\ conns'[u] = Bumped(conns[u], Delta(q))
  <2>1. Delta(q) \in Int
    BY DEF Delta
  <2>2. Bumped(conns[u], Delta(q)) \in Nat
    BY <1>6, <2>1 DEF Bumped
  <2>3. conns' = [conns EXCEPT ![u] = Bumped(conns[u], Delta(q))]
    BY <1>5
  <2> QED BY <1>6, <2>2, <2>3
<1>11. /\ told => /\ bcast' \in Seq(Cast) /\ DOMAIN bcast' = 1..(Len(bcast) + 1)
                  /\ bcast'[Len(bcast) + 1] = b
                  /\ \A k \in DOMAIN bcast : bcast'[k] = bcast[k]
       /\ bcast \in Seq(Cast) /\ DOMAIN bcast = 1..Len(bcast) /\ Len(bcast) \in Nat
  <2>1. jobs[t] \in Seq(JobRec) /\ i \in Nat /\ subscribers \subseteq User /\ bcast \in Seq(Cast)
    BY <1>0 DEF Types
  <2>2. b \in Cast
    BY <1>6, <2>1 DEF Cast
  <2> HIDE DEF b
  <2> QED BY <1>5, <2>1, <2>2
<1>12. Types'
  <2>1. missed' \subseteq Tab
    BY <1>0, <1>5 DEF Types
  <2>2. bcast' \in Seq(Cast)
    BY <1>5, <1>11
  <2> QED BY <1>0, <1>5, <1>9, <1>10, <2>1, <2>2 DEF Types, Moves
<1>13. IF q = "less" THEN kind # "sub" ELSE kind = "sub"
  BY <1>0, <1>1, <1>8 DEF JobInv
<1>14. Alone(u)' => /\ q \in FreshPcs => t \notin noted
                    /\ q \in KnownPcs => t \in noted
  BY <1>0, <1>1, <1>5 DEF StageInv, Alone
<1>15. /\ Turns(t, q, p, kind)
       /\ SerialInv' /\ JobInv' /\ StageInv'
       /\ bcast' = bcast => WaitInv'
  <2>1. \A x \in Tab \ {t} : x \in noted' <=> x \in noted
    BY <1>5
  <2>2. Alone(Owner[t])' => /\ p \in FreshPcs => t \notin noted'
                            /\ p \in KnownPcs => t \in noted'
    BY <1>5, <1>8, <1>14
  <2>3. CASE q = "less"
    BY <2>1, <2>2, <2>3, <1>1, <1>8, <1>9, <1>13, LeaveMoves
  <2>4. CASE q # "less"
    BY <2>1, <2>2, <2>4, <1>1, <1>8, <1>9, <1>13, SubMoves
  <2> QED BY <2>3, <2>4
<1> HIDE DEF b
<1>16. WaitInv'
  <2>1. CASE ~told
    BY <2>1, <1>5, <1>15
  <2>2. CASE told
    <3> DEFINE n == Len(bcast) + 1
    <3>1. \A k \in DOMAIN bcast' : k \in DOMAIN bcast \/ k = n
      BY <2>2, <1>11
    <3>2. ASSUME NEW k \in DOMAIN bcast
          PROVE  /\ bcast[k].by[1] \in Tab
                 /\ bcast[k].by[2] \in DOMAIN jobs[bcast[k].by[1]]
                 /\ jobs[bcast[k].by[1]][bcast[k].by[2]].pc \in WaitPcs
                 /\ \A v \in bcast[k].failed : "dropped" \in mark[v]
                 /\ ~(bcast[k].by[1] = t /\ bcast[k].by[2] = i)
      BY <3>2, <1>0, <1>1, <1>8, CastIs DEF WaitInv
    <3>3. b.by = <<t, i>> /\ b.by[1] = t /\ b.by[2] = i /\ b.failed = {}
      BY DEF b
    <3>4. i \in DOMAIN jobs'[t] /\ jobs'[t][i].pc \in WaitPcs
      BY <2>2, <1>7, <1>9 DEF Moves
    <3>5. ASSUME NEW k \in DOMAIN bcast'
          PROVE  /\ bcast'[k].by[2] \in DOMAIN jobs'[bcast'[k].by[1]]
                 /\ jobs'[bcast'[k].by[1]][bcast'[k].by[2]].pc \in WaitPcs
                 /\ \A v \in bcast'[k].failed : "dropped" \in mark'[v]
      <4>1. CASE k = n
        BY <2>2, <3>3, <3>4, <4>1, <1>11
      <4>2. CASE k # n
        <5>1. k \in DOMAIN bcast /\ bcast'[k] = bcast[k]
          BY <2>2, <3>1, <3>5, <4>2, <1>11
        <5>2. /\ DOMAIN jobs'[bcast[k].by[1]] = DOMAIN jobs[bcast[k].by[1]]
              /\ jobs'[bcast[k].by[1]][bcast[k].by[2]] = jobs[bcast[k].by[1]][bcast[k].by[2]]
          BY <3>2, <5>1, <1>9 DEF Moves
        <5> QED BY <3>2, <5>1, <5>2, <1>5
      <4> QED BY <4>1, <4>2
    <3>6. ASSUME NEW k \in DOMAIN bcast', NEW l \in DOMAIN bcast', bcast'[k].by = bcast'[l].by
          PROVE  k = l
      <4> HIDE DEF n
      <4>1. bcast'[n] = b /\ \A j \in DOMAIN bcast : bcast'[j] = bcast[j]
        BY <2>2, <1>11 DEF n
      <4>2. CASE k \in DOMAIN bcast /\ l \in DOMAIN bcast
        BY <4>1, <4>2, <3>6, <1>0 DEF WaitInv
      <4>3. CASE k \in DOMAIN bcast /\ l = n
        BY <4>1, <4>3, <3>2, <3>3, <3>6
      <4>4. CASE k = n /\ l \in DOMAIN bcast
        BY <4>1, <4>4, <3>2, <3>3, <3>6
      <4> QED BY <4>2, <4>3, <4>4, <3>1, <3>6
    <3> QED BY <3>5, <3>6 DEF WaitInv
  <2> QED BY <2>1, <2>2
<1>17. Alone(u)' =>
         /\ Leaving(t)' <=> q = "less"
         /\ Coming(t)' <=> q = "note"
         /\ ~Leaving(t) /\ (Coming(t) <=> q = "back")
         /\ ~Dropping(t) /\ ~Dropping(t)' /\ ~Heard(t) /\ ~Heard(t)'
         /\ Subscribing(t)' => Subscribing(t)
  <2>1. Alone(u)' => Stands(t, q, kind) /\ Stands(t, p, kind)'
    BY <1>15 DEF Turns
  <2>2. CASE q = "note"
    BY <2>1, <2>2, <1>7 DEF Stands
  <2>3. CASE q = "back"
    BY <2>1, <2>3, <1>7 DEF Stands
  <2>4. CASE q = "less"
    BY <2>1, <2>4, <1>7 DEF Stands
  <2> QED BY <2>2, <2>3, <2>4, <1>5 DEF NotePcs
<1>18. Alone(u)' => /\ Counted(t) <=> q # "note"
                    /\ Counted(t)' <=> q = "note"
                    /\ Listed(t)' <=> Listed(t)
  <2>1. Alone(u)' => (t \in noted <=> q = "less") /\ (t \in noted' <=> q = "less")
    BY <1>5, <1>8, <1>14 DEF NotePcs
  <2>2. Alone(u)' => (Counted(t) <=> q # "note")
    BY <1>5, <1>17, <2>1, CountedIs DEF NotePcs
  <2>3. Alone(u)' => (Counted(t)' <=> q = "note")
    BY <1>17, <2>1 DEF Counted, Leaving, Coming
  <2> QED BY <1>17, <2>1, <2>2, <2>3 DEF Listed
<1>19. BalanceInv'
  <2>1. /\ q = "note" => conns'[u] = conns[u] + 1
        /\ q # "note" => (conns'[u] <= conns[u] - 1 \/ conns'[u] = 0) /\ conns'[u] >= conns[u] - 1
    BY <1>6, <1>10 DEF Bumped, Delta
  <2>2. Alone(Owner[t])' =>
           LET n == conns[Owner[t]]
               m == conns'[Owner[t]]
           IN /\ "phantom" \notin mark'[Owner[t]] =>
                   /\ Counted(t)' /\ ~Counted(t) => m <= n + 1
                   /\ Counted(t) /\ ~Counted(t)' => m <= n - 1 \/ m = 0
                   /\ (Counted(t)' <=> Counted(t)) => m <= n
              /\ "short" \notin mark'[Owner[t]] =>
                   /\ Counted(t)' /\ ~Counted(t) => m >= n + 1
                   /\ Counted(t) /\ ~Counted(t)' => m >= n - 1
                   /\ (Counted(t)' <=> Counted(t)) => m >= n
    <3>1. conns[u] \in Nat /\ conns'[u] \in Nat
      BY <1>6, <1>10
    <3>2. CASE q = "note"
      BY <2>1, <3>1, <3>2, <1>18
    <3>3. CASE q # "note"
      BY <2>1, <3>1, <3>3, <1>18
    <3> QED BY <3>2, <3>3
  <2> QED BY <1>0, <1>10, <1>12, <1>15, <2>2, BalanceTurn
<1>20. mark'[u] \cap {"overlap", "short", "crossed"} = {} => Alone(u)'
  BY DEF Alone
<1>21. CountInv'
  <2>1. \A v \in User : count'[v] >= count[v]
    BY <1>5, <1>6
  <2> QED BY <1>0, <1>12, <1>15, <1>18, <1>20, <2>1, CountMore
<1>22. UnsubInv'
  BY <1>0, <1>15, <1>17, <1>18, <1>20, UnsubTurn
<1>23. HearInv'
  <2>1. mark'[u] \cap {"overlap", "short", "crossed", "dropped"} = {} => Alone(u)'
    BY DEF Alone
  <2> QED BY <1>0, <1>5, <1>15, <1>17, <1>18, <2>1, HearTurn
<1>24. missed \subseteq missed'
  BY <1>5
<1>25. WantInv'
  <2>1. mark'[u] = {} => (Subscribing(t)' => Subscribing(t))
    BY <1>17 DEF Alone
  <2> QED BY <1>0, <1>5, <1>15, <1>24, <2>1, WantTurn DEF clientVars
<1>26. PictureInv'
  <2> SUFFICES ASSUME NEW x \in Tab, mark'[Owner[x]] = {}, x \notin missed', NEW v \in User,
                      ~OnItsWay(Owner[x], v)'
               PROVE  ViewRight(x, v)' /\ SnapRight(x, v)'
    BY DEF PictureInv
  <2>1. mark[Owner[x]] = {} /\ x \notin missed
    BY <1>5, <1>24
  <2>2. ~OnItsWay(Owner[x], v)
    <3>1. \A k \in DOMAIN bcast : k \in DOMAIN bcast' /\ bcast'[k] = bcast[k]
      BY <1>5, <1>11
    <3> QED BY <3>1 DEF OnItsWay
  <2>3. ViewRight(x, v) /\ SnapRight(x, v)
    BY <1>0, <2>1, <2>2 DEF PictureInv
  <2>4. conns'[v] > 0 <=> conns[v] > 0
    <3>1. CASE v # u
      BY <3>1, <1>10
    <3>2. CASE v = u /\ ~flips
      <4>1. (conns[u] > 0) = (Bumped(conns[u], Delta(q)) > 0)
        BY <3>2, <1>2 DEF Flips
      <4> QED BY <3>2, <4>1, <1>10
    <3>3. CASE v = u /\ flips
      <4>1. Owner[x] \in subscribers
        BY <3>3, <1>5
      <4>2. told
        BY <4>1, <3>3, <1>3
      <4>3. Len(bcast) + 1 \in DOMAIN bcast' /\ bcast'[Len(bcast) + 1] = b
        BY <4>2, <1>11
      <4>4. OnItsWay(Owner[x], v)'
        BY <3>3, <4>1, <4>3 DEF OnItsWay, b
      <4> QED BY <4>4
    <3> QED BY <3>1, <3>2, <3>3
  <2>5. \A j \in DOMAIN jobs'[x] : jobs'[x][j].pc \in {"subbed", "resnapped"} =>
          j \in DOMAIN jobs[x] /\ jobs'[x][j] = jobs[x][j]
    BY <1>8, <1>9 DEF Moves
  <2>6. Snapped(x) => Snapped(x)'
    BY <1>1, <1>8, <1>9 DEF Moves, Snapped, Job
  <2>7. ViewRight(x, v)'
    BY <1>5, <2>3, <2>4, <2>6 DEF ViewRight
  <2> QED BY <2>3, <2>4, <2>5, <2>7 DEF SnapRight
<1> QED BY <1>12, <1>15, <1>16, <1>19, <1>21, <1>22, <1>23, <1>25, <1>26 DEF Inv

\* What is left of a sequence without its element k.
LEMMA RemovedIs ==
  ASSUME NEW S, NEW s \in Seq(S), NEW k \in DOMAIN s
  PROVE  /\ RemoveAt(s, k) \in Seq(S)
         /\ DOMAIN RemoveAt(s, k) = 1..(Len(s) - 1)
         /\ \A i \in 1..(Len(s) - 1) : RemoveAt(s, k)[i] = s[IF i < k THEN i ELSE i + 1]
<1> DEFINE a == SubSeq(s, 1, k - 1)
           z == SubSeq(s, k + 1, Len(s))
<1>1. k \in 1..Len(s) /\ Len(s) \in Nat
  OBVIOUS
<1>2. /\ a \in Seq(S) /\ Len(a) = k - 1
      /\ \A i \in 1..(k - 1) : a[i] = s[i]
  BY <1>1
<1>3. /\ z \in Seq(S) /\ Len(z) = Len(s) - k
      /\ \A i \in 1..(Len(s) - k) : z[i] = s[i + k]
  BY <1>1
<1> HIDE DEF a, z
<1>4. /\ a \o z \in Seq(S) /\ DOMAIN (a \o z) = 1..(Len(s) - 1)
      /\ \A i \in 1..(k - 1) : (a \o z)[i] = a[i]
      /\ \A i \in k..(Len(s) - 1) : (a \o z)[i] = z[i - (k - 1)]
  BY <1>1, <1>2, <1>3
<1>5. ASSUME NEW i \in 1..(Len(s) - 1)
      PROVE  (a \o z)[i] = s[IF i < k THEN i ELSE i + 1]
  <2>1. CASE i < k
    BY <1>1, <1>2, <1>4, <2>1
  <2>2. CASE ~(i < k)
    <3>1. i - (k - 1) \in 1..(Len(s) - k) /\ i \in k..(Len(s) - 1)
      BY <1>1, <2>2
    <3>2. (i - (k - 1)) + k = i + 1
      BY <1>1
    <3> QED BY <1>3, <1>4, <2>2, <3>1, <3>2
  <2> QED BY <2>1, <2>2
<1> QED BY <1>4, <1>5 DEF RemoveAt, a, z

\* The handlers of x move on only from waiting for a broadcast to its answer.
Answers(x) ==
  /\ DOMAIN jobs'[x] = DOMAIN jobs[x]
  /\ \A i \in DOMAIN jobs[x] :
       \/ jobs'[x][i] = jobs[x][i]
       \/ /\ jobs[x][i].pc \in WaitPcs /\ jobs'[x][i].pc = Answered(jobs[x][i].pc)
          /\ jobs'[x][i].kind = jobs[x][i].kind

LEMMA AnsweredIs ==
  /\ Answered("noting") = "noted" /\ Answered("backing") = "done" /\ Answered("lessing") = "lessened"
  /\ \A q \in WaitPcs : q \in {"noting", "backing", "lessing"}
BY DEF Answered, WaitPcs

\* A handler that is answered is about the same as before.
LEMMA AnswersUnmoved ==
  ASSUME NEW x, Answers(x)
  PROVE  /\ Leaving(x)' <=> Leaving(x)
         /\ Coming(x)' <=> Coming(x)
         /\ Dropping(x)' <=> Dropping(x)
         /\ Heard(x)' <=> Heard(x)
         /\ Snapped(x)' <=> Snapped(x)
         /\ Subscribing(x)' => Subscribing(x)
<1> DEFINE Same(i, S) == jobs'[x][i].pc \in S <=> jobs[x][i].pc \in S
<1>1. ASSUME NEW i \in DOMAIN jobs[x]
      PROVE  /\ Same(i, {"lessing", "lessened", "unsub", "unsubbed"})
             /\ Same(i, {"noting", "noted", "sub", "subbed", "back"})
             /\ Same(i, {"unsub", "unsubbed"})
             /\ Same(i, {"subbed"})
             /\ Same(i, {"subbed", "resnapped"})
             /\ jobs'[x][i].kind = jobs[x][i].kind
             /\ jobs'[x][i].pc # "done" => jobs[x][i].pc # "done"
  <2>1. CASE jobs'[x][i] = jobs[x][i]
    BY <2>1
  <2>2. CASE /\ jobs[x][i].pc \in WaitPcs /\ jobs'[x][i].pc = Answered(jobs[x][i].pc)
             /\ jobs'[x][i].kind = jobs[x][i].kind
    <3>1. CASE jobs[x][i].pc = "noting"
      BY <2>2, <3>1, AnsweredIs
    <3>2. CASE jobs[x][i].pc = "backing"
      BY <2>2, <3>2, AnsweredIs
    <3>3. CASE jobs[x][i].pc = "lessing"
      BY <2>2, <3>3, AnsweredIs
    <3> QED BY <2>2, <3>1, <3>2, <3>3, AnsweredIs
  <2> QED BY <1>1, <2>1, <2>2 DEF Answers
<1>2. DOMAIN jobs'[x] = DOMAIN jobs[x]
  BY DEF Answers
<1>3. Leaving(x)' <=> Leaving(x)
  BY <1>1, <1>2 DEF Leaving, Job
<1>4. Coming(x)' <=> Coming(x)
  BY <1>1, <1>2 DEF Coming, Job
<1>5. (Dropping(x)' <=> Dropping(x)) /\ (Heard(x)' <=> Heard(x)) /\ (Snapped(x)' <=> Snapped(x))
  BY <1>1, <1>2 DEF Dropping, Heard, Snapped, Job
<1>6. Subscribing(x)' => Subscribing(x)
  BY <1>1, <1>2 DEF Subscribing
<1> QED BY <1>3, <1>4, <1>5, <1>6

\* A step that at most answers handlers, and drops only users that are marked,
\* keeps all but what tabs show.
LEMMA AnswersKeep ==
  ASSUME Inv, Types', MarksStay, \A x \in Tab : Answers(x), UNCHANGED <<clientVars, noted, count>>,
         missed \subseteq missed',
         conns' = conns \/ (\A u \in User : conns'[u] = 0 /\ "short" \in mark'[u]),
         \A u \in subscribers \ subscribers' : mark'[u] \cap {"short", "dropped"} # {}
  PROVE  /\ JobInv' /\ SerialInv' /\ StageInv' /\ BalanceInv' /\ CountInv' /\ UnsubInv' /\ HearInv'
         /\ WantInv'
<1>0. Types /\ JobInv /\ SerialInv /\ StageInv /\ BalanceInv /\ CountInv /\ UnsubInv /\ HearInv /\ WantInv
  BY DEF Inv
<1>1. \A x \in Tab : Owner[x] \in User
  OBVIOUS
<1>2. \A x \in Tab :
         /\ Leaving(x)' <=> Leaving(x)
         /\ Coming(x)' <=> Coming(x)
         /\ Dropping(x)' <=> Dropping(x)
         /\ Heard(x)' <=> Heard(x)
         /\ Subscribing(x)' => Subscribing(x)
  BY AnswersUnmoved
<1>3. \A x \in Tab : (Counted(x)' <=> Counted(x)) /\ (Listed(x)' <=> Listed(x))
  BY <1>2, CountedIs DEF Counted, Leaving, Coming, Listed
<1>4. \A x \in Tab : Alone(Owner[x])' => Alone(Owner[x])
  BY <1>1 DEF MarksStay, Alone
<1>5. ASSUME NEW x \in Tab, NEW i \in DOMAIN jobs'[x]
      PROVE  /\ i \in DOMAIN jobs[x] /\ jobs'[x][i].kind = jobs[x][i].kind
             /\ jobs'[x][i].pc # "done" => jobs[x][i].pc # "done"
             /\ jobs'[x][i].pc \in FreshPcs => jobs[x][i].pc \in FreshPcs
             /\ jobs'[x][i].pc \in KnownPcs => jobs[x][i].pc \in KnownPcs
             /\ jobs[x][i].pc \in SubPcs \cup {"done"} => jobs'[x][i].pc \in SubPcs \cup {"done"}
             /\ jobs[x][i].pc \in LeavePcs \cup {"done"} => jobs'[x][i].pc \in LeavePcs \cup {"done"}
  <2>1. i \in DOMAIN jobs[x]
    BY <1>5 DEF Answers
  <2>2. CASE jobs'[x][i] = jobs[x][i]
    BY <2>1, <2>2
  <2>3. CASE /\ jobs[x][i].pc \in WaitPcs /\ jobs'[x][i].pc = Answered(jobs[x][i].pc)
             /\ jobs'[x][i].kind = jobs[x][i].kind
    <3>1. CASE jobs[x][i].pc = "noting"
      BY <2>1, <2>3, <3>1, AnsweredIs DEF FreshPcs, KnownPcs, SubPcs, LeavePcs
    <3>2. CASE jobs[x][i].pc = "backing"
      BY <2>1, <2>3, <3>2, AnsweredIs DEF FreshPcs, KnownPcs, SubPcs, LeavePcs
    <3>3. CASE jobs[x][i].pc = "lessing"
      BY <2>1, <2>3, <3>3, AnsweredIs DEF FreshPcs, KnownPcs, SubPcs, LeavePcs
    <3> QED BY <2>3, <3>1, <3>2, <3>3, AnsweredIs
  <2> QED BY <2>1, <2>2, <2>3 DEF Answers
<1>6. JobInv'
  BY <1>0, <1>5 DEF JobInv
<1>7. SerialInv'
  BY <1>0, <1>4, <1>5 DEF SerialInv
<1>8. StageInv'
  BY <1>0, <1>4, <1>5 DEF StageInv
<1>9. ASSUME NEW u \in User
      PROVE  /\ CountedOf(u)' = CountedOf(u) /\ ListedOf(u)' = ListedOf(u)
             /\ CountedOf(u) \in Nat
  <2>1. /\ {x \in TabsOf(u) : Counted(x)}' = {x \in TabsOf(u) : Counted(x)}
        /\ {x \in TabsOf(u) : Listed(x)}' = {x \in TabsOf(u) : Listed(x)}
    BY <1>3 DEF TabsOf
  <2>2. IsFiniteSet({x \in TabsOf(u) : Counted(x)})
    BY FS_Subset DEF TabsOf
  <2> QED BY <2>1, <2>2, FS_CardinalityType DEF CountedOf, ListedOf
<1>10. BalanceInv'
  <2> SUFFICES ASSUME NEW u \in User, Alone(u)'
               PROVE  /\ "phantom" \notin mark'[u] => conns'[u] <= CountedOf(u)'
                      /\ "short" \notin mark'[u] => conns'[u] >= CountedOf(u)'
    BY DEF BalanceInv, NoPhantomSocket, OnlineWithATab, Alone
  <2>1. mark[u] \subseteq mark'[u]
    BY DEF MarksStay
  <2>2. /\ "phantom" \notin mark'[u] => conns[u] <= CountedOf(u)
        /\ "short" \notin mark'[u] => conns[u] >= CountedOf(u)
    BY <1>0, <2>1 DEF BalanceInv, NoPhantomSocket, OnlineWithATab, Alone
  <2>3. CASE conns' = conns
    BY <1>9, <2>2, <2>3
  <2>4. CASE \A v \in User : conns'[v] = 0 /\ "short" \in mark'[v]
    BY <1>9, <2>4
  <2> QED BY <2>3, <2>4
<1>11. CountInv'
  BY <1>0, <1>9 DEF CountInv, MarksStay
<1>12. UnsubInv'
  <2> SUFFICES ASSUME NEW x \in Tab, Dropping(x)', NEW y \in TabsOf(Owner[x]),
                      mark'[Owner[x]] \cap {"overlap", "short", "crossed"} = {}
               PROVE  ~Listed(y)' /\ ~Subscribing(y)'
    BY DEF UnsubInv, TabsOf
  <2>1. y \in Tab /\ mark[Owner[x]] \cap {"overlap", "short", "crossed"} = {}
    BY <1>1 DEF TabsOf, MarksStay
  <2>2. ~Listed(y) /\ ~Subscribing(y)
    BY <1>0, <1>2, <2>1 DEF UnsubInv
  <2> QED BY <1>2, <1>3, <2>1, <2>2
<1>13. HearInv'
  <2> SUFFICES ASSUME NEW x \in Tab, Listed(x)' \/ Heard(x)',
                      mark'[Owner[x]] \cap {"overlap", "short", "crossed", "dropped"} = {}
               PROVE  Owner[x] \in subscribers'
    BY DEF HearInv
  <2>1. mark[Owner[x]] \cap {"overlap", "short", "crossed", "dropped"} = {}
    BY <1>1 DEF MarksStay
  <2>2. Owner[x] \in subscribers
    BY <1>0, <1>2, <1>3, <2>1 DEF HearInv
  <2> QED BY <2>2
<1>14. WantInv'
  <2> SUFFICES ASSUME NEW x \in open, mark'[Owner[x]] = {}
               PROVE  /\ Subscribing(x)' => x \in wants
                      /\ x \in noted => x \in wants \/ x \in missed'
    BY <1>0 DEF WantInv, clientVars
  <2>1. x \in Tab /\ mark[Owner[x]] = {}
    BY <1>0, <1>1 DEF MarksStay, Types
  <2> QED BY <1>0, <1>2, <2>1 DEF WantInv
<1> QED BY <1>6, <1>7, <1>8, <1>10, <1>11, <1>12, <1>13, <1>14

\* Evict: WorkspacePresence loses count of everyone, and all are marked.
LEMMA EvictInv ==
  ASSUME Inv, MarksStay, Evict
  PROVE  Inv'
<1>0. Types /\ WaitInv
  BY DEF Inv
<1>1. /\ bcast = <<>> /\ conns' = [u \in User |-> 0] /\ subscribers' = {}
      /\ mark' = [u \in User |-> mark[u] \cup {"short"}] /\ missed' = Tab
      /\ UNCHANGED <<clientVars, view, noted, jobs, count, bcast>>
  BY DEF Evict
<1>2. Types'
  <2>1. mark' \in [User -> SUBSET Marks]
    BY <1>0, <1>1 DEF Types, Marks
  <2>2. conns' \in [User -> Nat]
    BY <1>1
  <2> QED BY <1>0, <1>1, <2>1, <2>2 DEF Types, clientVars
<1>3. \A u \in User : conns'[u] = 0 /\ "short" \in mark'[u]
  BY <1>1
<1>4. \A x \in Tab : Answers(x)
  BY <1>1 DEF Answers
<1>5. missed \subseteq missed' /\ subscribers \subseteq User
  BY <1>0, <1>1 DEF Types
<1>6. /\ JobInv' /\ SerialInv' /\ StageInv' /\ BalanceInv' /\ CountInv' /\ UnsubInv' /\ HearInv'
      /\ WantInv'
  BY <1>1, <1>2, <1>3, <1>4, <1>5, AnswersKeep
<1>7. WaitInv'
  <2>1. DOMAIN bcast' = {}
    BY <1>1
  <2> QED BY <2>1 DEF WaitInv
<1>8. PictureInv'
  BY <1>1 DEF PictureInv
<1> QED BY <1>2, <1>6, <1>7, <1>8 DEF Inv

\* A delivery is settled: other deliveries stay under way.
LEMMA SettleIs ==
  ASSUME Inv, MarksStay, NEW k \in DOMAIN bcast, NEW u \in bcast[k].to, NEW failed \in SUBSET User,
         \A w \in failed : "dropped" \in mark'[w], Settle(bcast[k], k, u, failed)
  PROVE  /\ bcast' \in Seq(Cast) /\ subscribers' \subseteq User
         /\ jobs' \in [Tab -> Seq(JobRec)]
         /\ \A x \in Tab : Answers(x)
         /\ \A w \in subscribers \ subscribers' : "dropped" \in mark'[w]
         /\ WaitInv'
         /\ \A j \in DOMAIN bcast : \A w \in bcast[j].to, v \in User :
               j # k /\ v = bcast[j].about => OnItsWay(w, v)'
         /\ \A w \in bcast[k].to, v \in User : w # u /\ v = bcast[k].about => OnItsWay(w, v)'
<1>0. Types /\ WaitInv
  BY DEF Inv
<1> DEFINE c == bcast[k]
           left == c.to \ {u}
           t == c.by[1]
           i == c.by[2]
<1>1. c \in Cast /\ t \in Tab /\ i \in Nat /\ c.to \subseteq User
  BY <1>0, CastIs
<1>2. bcast \in Seq(Cast) /\ jobs \in [Tab -> Seq(JobRec)] /\ subscribers \subseteq User
  BY <1>0 DEF Types
<1>3. ASSUME NEW j \in DOMAIN bcast
      PROVE  /\ bcast[j].by[1] \in Tab /\ bcast[j].by[2] \in Nat /\ bcast[j].by \in Tab \X Nat
             /\ bcast[j].failed \subseteq User
             /\ bcast[j].by[2] \in DOMAIN jobs[bcast[j].by[1]]
             /\ jobs[bcast[j].by[1]][bcast[j].by[2]].pc \in WaitPcs
             /\ \A w \in bcast[j].failed : "dropped" \in mark'[w]
  BY <1>0, <1>3, CastIs DEF WaitInv, MarksStay
<1>4. \A j, l \in DOMAIN bcast : bcast[j].by = bcast[l].by => j = l
  BY <1>0 DEF WaitInv
<1>5. CASE left # {}
  <2>1. bcast' = [bcast EXCEPT ![k].to = left, ![k].failed = failed]
        /\ UNCHANGED <<subscribers, jobs>>
    BY <1>5 DEF Settle
  <2> DEFINE r == [c EXCEPT !.to = left, !.failed = failed]
  <2>2. r \in Cast /\ r.to = left /\ r.failed = failed /\ r.by = c.by /\ r.about = c.about
    BY <1>1 DEF Cast
  <2>3. bcast' = [bcast EXCEPT ![k] = r]
    BY <2>1, <1>2
  <2> HIDE DEF r
  <2>4. /\ bcast' \in Seq(Cast) /\ DOMAIN bcast' = DOMAIN bcast /\ bcast'[k] = r
        /\ \A j \in DOMAIN bcast : j # k => bcast'[j] = bcast[j]
    BY <2>2, <2>3, <1>2
  <2>5. WaitInv'
    <3>1. ASSUME NEW j \in DOMAIN bcast'
          PROVE  /\ bcast'[j].by = bcast[j].by
                 /\ \A w \in bcast'[j].failed : "dropped" \in mark'[w]
      <4>1. CASE j = k
        BY <4>1, <2>2, <2>4
      <4>2. CASE j # k
        BY <3>1, <4>2, <2>4, <1>3
      <4> QED BY <4>1, <4>2
    <3>2. \A j \in DOMAIN bcast' :
             /\ bcast'[j].by[2] \in DOMAIN jobs'[bcast'[j].by[1]]
             /\ jobs'[bcast'[j].by[1]][bcast'[j].by[2]].pc \in WaitPcs
      BY <3>1, <2>1, <2>4, <1>3
    <3>3. \A j, l \in DOMAIN bcast' : bcast'[j].by = bcast'[l].by => j = l
      BY <3>1, <2>4, <1>4
    <3> QED BY <3>1, <3>2, <3>3 DEF WaitInv
  <2>6. \A x \in Tab : Answers(x)
    BY <2>1 DEF Answers
  <2>7. ASSUME NEW j \in DOMAIN bcast, NEW w \in bcast[j].to, NEW v \in User, j # k, v = bcast[j].about
        PROVE  OnItsWay(w, v)'
    BY <2>7, <2>4 DEF OnItsWay
  <2>8. ASSUME NEW w \in c.to, NEW v \in User, w # u, v = c.about
        PROVE  OnItsWay(w, v)'
    BY <2>8, <2>2, <2>4 DEF OnItsWay
  <2> QED BY <2>1, <2>4, <2>5, <2>6, <2>7, <2>8, <1>2
<1>6. CASE left = {}
  <2>1. /\ bcast' = RemoveAt(bcast, k) /\ subscribers' = subscribers \ failed
        /\ jobs' = At(t, i, Answered(jobs[t][i].pc))
    BY <1>6 DEF Settle
  <2> DEFINE Src(l) == IF l < k THEN l ELSE l + 1
             n == Len(bcast)
  <2>2. /\ bcast' \in Seq(Cast) /\ DOMAIN bcast' = 1..(n - 1)
        /\ \A l \in 1..(n - 1) : bcast'[l] = bcast[Src(l)]
    BY <2>1, <1>2, RemovedIs
  <2>3. n \in Nat /\ DOMAIN bcast = 1..n /\ k \in 1..n
    BY <1>2
  <2> HIDE DEF n
  <2>4. \A l \in 1..(n - 1) : Src(l) \in 1..n /\ Src(l) # k
    BY <2>3
  <2>5. \A l, m \in 1..(n - 1) : Src(l) = Src(m) => l = m
    BY <2>3
  <2>6. \A j \in 1..n : j # k => \E l \in 1..(n - 1) : Src(l) = j
    <3> TAKE j \in 1..n
    <3>1. CASE j < k
      BY <3>1, <2>3
    <3>2. CASE j > k
      <4>1. j - 1 \in 1..(n - 1) /\ Src(j - 1) = j
        BY <3>2, <2>3
      <4> QED BY <4>1
    <3> QED BY <3>1, <3>2, <2>3
  <2> HIDE DEF Src
  <2>7. i \in DOMAIN jobs[t] /\ jobs[t][i].pc \in WaitPcs
    BY <1>3
  <2>8. Answered(jobs[t][i].pc) \in Pcs
    BY <2>7, AnsweredIs DEF Pcs, SubPcs, LeavePcs
  <2>9. Moves(t, i, Answered(jobs[t][i].pc))
    <3> DEFINE a == Answered(jobs[t][i].pc)
    <3> HIDE DEF a
    <3>1. PICK p \in Pcs : p = a
      BY <2>8 DEF a
    <3>2. jobs' = At(t, i, p)
      BY <2>1, <3>1 DEF a
    <3>3. Moves(t, i, p)
      BY <3>2, <1>0, <1>1, <2>7, AtMoves
    <3> QED BY <3>1, <3>3 DEF a, Moves
  <2>10. jobs' \in [Tab -> Seq(JobRec)] /\ \A x \in Tab : Answers(x)
    BY <2>7, <2>9 DEF Answers, Moves
  <2>11. WaitInv'
    <3>1. ASSUME NEW l \in DOMAIN bcast'
          PROVE  /\ bcast'[l].by[2] \in DOMAIN jobs'[bcast'[l].by[1]]
                 /\ jobs'[bcast'[l].by[1]][bcast'[l].by[2]].pc \in WaitPcs
                 /\ \A w \in bcast'[l].failed : "dropped" \in mark'[w]
      <4>1. PICK j \in DOMAIN bcast : j # k /\ bcast'[l] = bcast[j]
        BY <3>1, <2>2, <2>3, <2>4
      <4>2. ~(bcast[j].by[1] = t /\ bcast[j].by[2] = i)
        <5>1. bcast[j].by # c.by /\ bcast[j].by \in Tab \X Nat /\ c.by \in Tab \X Nat
          BY <4>1, <1>3, <1>4
        <5> QED BY <5>1
      <4>3. /\ DOMAIN jobs'[bcast[j].by[1]] = DOMAIN jobs[bcast[j].by[1]]
            /\ jobs'[bcast[j].by[1]][bcast[j].by[2]] = jobs[bcast[j].by[1]][bcast[j].by[2]]
        BY <4>2, <1>3, <2>9 DEF Moves
      <4> QED BY <4>1, <4>3, <1>3
    <3>2. ASSUME NEW l \in DOMAIN bcast', NEW m \in DOMAIN bcast', bcast'[l].by = bcast'[m].by
          PROVE  l = m
      BY <3>2, <2>2, <2>3, <2>4, <2>5, <1>4
    <3> QED BY <3>1, <3>2 DEF WaitInv
  <2>12. ASSUME NEW j \in DOMAIN bcast, NEW w \in bcast[j].to, NEW v \in User, j # k, v = bcast[j].about
         PROVE  OnItsWay(w, v)'
    <3>1. PICK l \in 1..(n - 1) : Src(l) = j
      BY <2>12, <2>3, <2>6
    <3>2. l \in DOMAIN bcast' /\ bcast'[l] = bcast[j]
      BY <3>1, <2>2
    <3> QED BY <3>2, <2>12 DEF OnItsWay
  <2>13. \A w \in c.to : w = u
    BY <1>6
  <2> QED BY <2>1, <2>2, <2>10, <2>11, <2>12, <2>13, <1>2
<1> QED BY <1>5, <1>6

\* Answered handlers leave right what is right.
LEMMA AnswersShow ==
  ASSUME NEW x, NEW v, Answers(x), ViewRight(x, v), SnapRight(x, v),
         UNCHANGED <<wants, noted, conns>>, v \in view'[x] <=> v \in view[x]
  PROVE  ViewRight(x, v)' /\ SnapRight(x, v)'
<1>1. Snapped(x)' <=> Snapped(x)
  BY AnswersUnmoved
<1>2. ViewRight(x, v)'
  BY <1>1 DEF ViewRight
<1>3. ASSUME NEW j \in DOMAIN jobs'[x], jobs'[x][j].pc \in {"subbed", "resnapped"}
      PROVE  j \in DOMAIN jobs[x] /\ jobs'[x][j] = jobs[x][j]
  <2>1. j \in DOMAIN jobs[x]
    BY <1>3 DEF Answers
  <2>2. ~(jobs[x][j].pc \in WaitPcs /\ jobs'[x][j].pc = Answered(jobs[x][j].pc))
    BY <1>3, AnsweredIs
  <2> QED BY <2>1, <2>2 DEF Answers
<1> QED BY <1>2, <1>3 DEF SnapRight

\* DeliveryFails: who was not reached is dropped with the last delivery.
LEMMA DeliveryFailsInv ==
  ASSUME Inv, MarksStay, NEW k \in DOMAIN bcast, NEW u \in User, DeliveryFails(k, u)
  PROVE  Inv'
<1>0. Types /\ WaitInv /\ PictureInv
  BY DEF Inv
<1> DEFINE failed == bcast[k].failed \cup {u}
<1>1. /\ u \in bcast[k].to /\ Settle(bcast[k], k, u, failed)
      /\ mark' = Marked(u, "dropped", TRUE) /\ missed' = missed \cup TabsOf(u)
      /\ UNCHANGED <<open, wants, view, noted, count, conns>>
  BY DEF DeliveryFails, clientVars
<1>2. mark' \in [User -> SUBSET Marks] /\ "dropped" \in mark'[u]
  BY <1>0, <1>1 DEF Types, Marked, Marks
<1>3. failed \in SUBSET User /\ \A w \in failed : "dropped" \in mark'[w]
  BY <1>0, <1>2, CastIs DEF WaitInv, MarksStay
<1> HIDE DEF failed
<1>4. /\ bcast' \in Seq(Cast) /\ subscribers' \subseteq User
      /\ jobs' \in [Tab -> Seq(JobRec)]
      /\ \A x \in Tab : Answers(x)
      /\ \A w \in subscribers \ subscribers' : "dropped" \in mark'[w]
      /\ WaitInv'
      /\ \A j \in DOMAIN bcast : \A w \in bcast[j].to, v \in User :
               j # k /\ v = bcast[j].about => OnItsWay(w, v)'
      /\ \A w \in bcast[k].to, v \in User : w # u /\ v = bcast[k].about => OnItsWay(w, v)'
  BY <1>1, <1>3, SettleIs
<1>5. Types'
  <2>1. missed' \subseteq Tab
    BY <1>0, <1>1 DEF Types, TabsOf
  <2> QED BY <1>0, <1>1, <1>2, <1>4, <2>1 DEF Types
<1>6. /\ JobInv' /\ SerialInv' /\ StageInv' /\ BalanceInv' /\ CountInv' /\ UnsubInv' /\ HearInv'
      /\ WantInv'
  <2>1. UNCHANGED <<clientVars, noted, count>> /\ conns' = conns /\ missed \subseteq missed'
    BY <1>1 DEF clientVars
  <2>2. \A w \in subscribers \ subscribers' : mark'[w] \cap {"short", "dropped"} # {}
    BY <1>4
  <2> QED BY <1>4, <1>5, <2>1, <2>2, AnswersKeep
<1>7. PictureInv'
  <2> SUFFICES ASSUME NEW x \in Tab, mark'[Owner[x]] = {}, x \notin missed', NEW v \in User,
                      ~OnItsWay(Owner[x], v)'
               PROVE  ViewRight(x, v)' /\ SnapRight(x, v)'
    BY DEF PictureInv
  <2>1. Owner[x] # u /\ Owner[x] \in User /\ mark[Owner[x]] = {} /\ x \notin missed
    BY <1>1, <1>2 DEF MarksStay
  <2>2. ~OnItsWay(Owner[x], v)
    <3> SUFFICES ASSUME OnItsWay(Owner[x], v) PROVE FALSE
      OBVIOUS
    <3>1. PICK j \in DOMAIN bcast : bcast[j].about = v /\ Owner[x] \in bcast[j].to
      BY DEF OnItsWay
    <3>2. CASE j = k
      BY <1>4, <2>1, <3>1, <3>2
    <3>3. CASE j # k
      BY <1>4, <3>1, <3>3
    <3> QED BY <3>2, <3>3
  <2>3. ViewRight(x, v) /\ SnapRight(x, v)
    BY <1>0, <2>1, <2>2 DEF PictureInv
  <2> QED BY <1>1, <1>4, <2>3, AnswersShow
<1> QED BY <1>4, <1>5, <1>6, <1>7 DEF Inv

\* Deliver: the tabs it reaches show the change, unless it is overtaken.
LEMMA DeliverInv ==
  ASSUME Inv, MarksStay, NEW k \in DOMAIN bcast, NEW u \in User, Deliver(k, u)
  PROVE  Inv'
<1>0. Types /\ WaitInv /\ WantInv /\ PictureInv
  BY DEF Inv
<1>10. PICK about, online : about = bcast[k].about /\ online = bcast[k].online
  OBVIOUS
<1>11. PICK late \in BOOLEAN :
        late <=> /\ online # (conns[about] > 0)
                 /\ ~\E j \in DOMAIN bcast :
                       j > k /\ bcast[j].about = about /\ u \in bcast[j].to
  OBVIOUS
<1>1. /\ u \in bcast[k].to /\ Settle(bcast[k], k, u, bcast[k].failed)
      /\ UNCHANGED <<open, wants, noted, count, conns, faults, mark>>
  BY DEF Deliver, clientVars
<1>2. view' = [t \in Tab |->
                IF ~(t \in TabsOf(u) /\ t \in open /\ t \in noted) THEN view[t]
                ELSE IF online THEN view[t] \cup {about} ELSE view[t] \ {about}]
  BY <1>10 DEF Deliver
<1>3. \A t \in TabsOf(u) : late \/ Snapped(t) => t \in missed'
  BY <1>10, <1>11 DEF Deliver, Snapped
<1>4. missed \subseteq missed' /\ missed' \subseteq Tab
  BY <1>0 DEF Deliver, Types, TabsOf
<1>5. about \in User /\ online \in BOOLEAN /\ bcast[k].failed \subseteq User
      /\ \A w \in bcast[k].failed : "dropped" \in mark'[w]
  BY <1>0, <1>10, CastIs DEF WaitInv, MarksStay
<1>6. /\ bcast' \in Seq(Cast) /\ subscribers' \subseteq User
      /\ jobs' \in [Tab -> Seq(JobRec)]
      /\ \A x \in Tab : Answers(x)
      /\ \A w \in subscribers \ subscribers' : "dropped" \in mark'[w]
      /\ WaitInv'
      /\ \A j \in DOMAIN bcast : \A w \in bcast[j].to, v \in User :
               j # k /\ v = bcast[j].about => OnItsWay(w, v)'
      /\ \A w \in bcast[k].to, v \in User : w # u /\ v = bcast[k].about => OnItsWay(w, v)'
  BY <1>1, <1>5, SettleIs
<1>7. Types'
  <2>1. view' \in [Tab -> SUBSET User]
    BY <1>0, <1>2, <1>5 DEF Types
  <2> QED BY <1>0, <1>1, <1>4, <1>6, <2>1 DEF Types
<1>8. /\ JobInv' /\ SerialInv' /\ StageInv' /\ BalanceInv' /\ CountInv' /\ UnsubInv' /\ HearInv'
      /\ WantInv'
  <2>1. UNCHANGED <<clientVars, noted, count>> /\ conns' = conns
    BY <1>1 DEF clientVars
  <2>2. \A w \in subscribers \ subscribers' : mark'[w] \cap {"short", "dropped"} # {}
    BY <1>6
  <2> QED BY <1>4, <1>6, <1>7, <2>1, <2>2, AnswersKeep
<1>9. PictureInv'
  <2> SUFFICES ASSUME NEW x \in Tab, mark'[Owner[x]] = {}, x \notin missed', NEW v \in User,
                      ~OnItsWay(Owner[x], v)'
               PROVE  ViewRight(x, v)' /\ SnapRight(x, v)'
    BY DEF PictureInv
  <2>1. mark[Owner[x]] = {} /\ x \notin missed
    BY <1>1, <1>4
  <2>2. Snapped(x)' <=> Snapped(x)
    BY <1>6, AnswersUnmoved
  <2>3. CASE Owner[x] = u /\ v = about
    <3>1. x \in TabsOf(u) /\ ~late /\ ~Snapped(x)
      BY <1>3, <2>3 DEF TabsOf
    <3>2. ~\E j \in DOMAIN bcast : j > k /\ bcast[j].about = about /\ u \in bcast[j].to
      <4> SUFFICES ASSUME NEW j \in DOMAIN bcast, j > k, bcast[j].about = about,
                          u \in bcast[j].to
                   PROVE  FALSE
        OBVIOUS
      <4>1. j # k
        BY <1>0 DEF Types
      <4>2. Owner[x] \in bcast[j].to /\ v = bcast[j].about
        BY <2>3
      <4> QED BY <4>1, <4>2, <1>6
    <3>3. online <=> conns[v] > 0
      BY <1>11, <1>5, <2>3, <3>1, <3>2
    <3>4. x \in wants \cap noted => (v \in view'[x] <=> online)
      BY <1>0, <1>2, <2>3, <3>1 DEF WantInv
    <3>5. ViewRight(x, v)'
      BY <1>1, <3>3, <3>4 DEF ViewRight
    <3>6. SnapRight(x, v)'
      BY <2>2, <3>1 DEF SnapRight, Snapped, Job
    <3> QED BY <3>5, <3>6
  <2>4. CASE ~(Owner[x] = u /\ v = about)
    <3>1. ~OnItsWay(Owner[x], v)
      <4> SUFFICES ASSUME OnItsWay(Owner[x], v) PROVE FALSE
        OBVIOUS
      <4>1. PICK j \in DOMAIN bcast : bcast[j].about = v /\ Owner[x] \in bcast[j].to
        BY DEF OnItsWay
      <4>2. CASE j = k
        BY <1>10, <1>6, <2>4, <4>1, <4>2
      <4>3. CASE j # k
        BY <1>6, <4>1, <4>3
      <4> QED BY <4>2, <4>3
    <3>2. ViewRight(x, v) /\ SnapRight(x, v)
      BY <1>0, <2>1, <3>1 DEF PictureInv
    <3>3. v \in view'[x] <=> v \in view[x]
      BY <1>2, <2>4 DEF TabsOf
    <3> QED BY <1>1, <1>6, <3>2, <3>3, AnswersShow
  <2> QED BY <2>3, <2>4
<1> QED BY <1>6, <1>7, <1>8, <1>9 DEF Inv

-----------------------------------------------------------------------------
(* The theorems *)

LEMMA StepInv == Inv /\ [Next]_vars => Inv'
<1> SUFFICES ASSUME Inv, [Next]_vars PROVE Inv'
  OBVIOUS
<1>1. CASE Next
  <2>1. MarksStay
    BY <1>1, MarksGrow DEF Inv
  <2>2. ASSUME NEW t \in Tab, Subscribe(t) \/ Unsubscribe(t) \/ Close(t)
        PROVE  Inv'
    BY <2>1, <2>2, SubscribeInv, UnsubscribeInv, CloseInv
  <2>3. ASSUME NEW t \in Tab, NEW i \in DOMAIN jobs[t], Handler(t, i)
        PROVE  Inv'
    BY <2>1, <2>3, MemberInv, AfterNoteInv, AfterSubInv, AfterLessInv, AfterUnsubInv, FailInv,
       NoteInv, SubCallInv, UnsubCallInv DEF Handler
  <2>4. ASSUME NEW k \in DOMAIN bcast, NEW u \in User, Deliver(k, u) \/ DeliveryFails(k, u)
        PROVE  Inv'
    BY <2>1, <2>4, DeliverInv, DeliveryFailsInv
  <2>5. ASSUME Evict
        PROVE  Inv'
    BY <2>1, <2>5, EvictInv
  <2> QED BY <1>1, <2>2, <2>3, <2>4, <2>5 DEF Next
<1>2. CASE UNCHANGED vars
  <2>1. /\ UNCHANGED <<open, wants, view, noted, jobs, count, conns, subscribers, bcast, mark, missed>>
        /\ UNCHANGED clientVars
    BY <1>2 DEF vars, clientVars, wpVars
  <2>2. Types /\ WaitInv /\ PictureInv
    BY DEF Inv
  <2>3. Types' /\ MarksStay /\ \A x \in Tab : Answers(x)
    BY <2>1, <2>2 DEF Types, MarksStay, Answers
  <2>4. /\ JobInv' /\ SerialInv' /\ StageInv' /\ BalanceInv' /\ CountInv' /\ UnsubInv' /\ HearInv'
        /\ WantInv'
    BY <2>1, <2>3, AnswersKeep
  <2>5. WaitInv' /\ PictureInv'
    BY <2>1, <2>2 DEF WaitInv, PictureInv, OnItsWay, ViewRight, SnapRight, Snapped, Job
  <2> QED BY <2>3, <2>4, <2>5 DEF Inv
<1> QED BY <1>1, <1>2

LEMMA InvAlways == Spec => []Inv
BY InitInv, StepInv, PTL DEF Spec

\* The types; count and conns never fall below zero (user-gateway.ts,
\* decrementPresenceOnClose; workspace-presence.ts, noteConnection).
THEOREM TypeCorrect == Spec => []TypeOK
<1>1. Inv => TypeOK
  BY DEF Inv, Types, TypeOK
<1> QED BY <1>1, InvAlways, PTL

\* WorkspacePresence never counts more sockets of a user than tabs that are
\* subscribed or on their way, unless a call that discounts was lost or two
\* handlers of a tab overlapped (the balance of /presence/note).
THEOREM NoPhantom == Spec => []NoPhantomSocket
<1>1. Inv => NoPhantomSocket
  BY DEF Inv, BalanceInv
<1> QED BY <1>1, InvAlways, PTL

\* Nor does it count fewer, unless it was restarted, a call was lost or two
\* handlers overlapped: the user is online while a tab is subscribed.
THEOREM OnlineStays == Spec => []OnlineWithATab
<1>1. Inv => OnlineWithATab
  BY DEF Inv, BalanceInv
<1> QED BY <1>1, InvAlways, PTL

\* A tab that stays is broadcast to whichever other tabs of the user close
\* (decrementPresenceOnClose: only the last one unsubscribes).
THEOREM OpenTabsAreHeard == Spec => []OpenTabsHear
<1>1. Inv => OpenTabsHear
  <2> SUFFICES ASSUME Inv, NEW u \in User, AtRest(u),
                      mark[u] \cap {"overlap", "short", "crossed", "dropped"} = {},
                      NEW t \in TabsOf(u), t \in noted
               PROVE  u \in subscribers
    BY DEF OpenTabsHear
  <2>1. t \in Tab /\ Owner[t] = u /\ ~Running(t)
    BY DEF TabsOf, AtRest
  <2>2. ~Dropping(t)
    BY <2>1 DEF Dropping, Job, Running
  <2>3. Listed(t)
    BY <2>2 DEF Listed
  <2> QED BY <2>1, <2>3 DEF Inv, HearInv
<1> QED BY <1>1, InvAlways, PTL

\* Once all is at rest a subscribed tab shows exactly the users who are online,
\* however snapshots and broadcasts crossed, unless a change passed it by.
THEOREM PicturesAreTrue == Spec => []ViewsAreTrue
<1>1. Inv => ViewsAreTrue
  <2> SUFFICES ASSUME Inv, \A u \in User : AtRest(u), NEW t \in (wants \cap noted) \ missed,
                      mark[Owner[t]] = {}
               PROVE  view[t] = Online
    BY DEF ViewsAreTrue
  <2>0. Types /\ WaitInv /\ PictureInv
    BY DEF Inv
  <2>1. t \in Tab /\ \A x \in Tab : Owner[x] \in User /\ ~Running(x)
    BY <2>0 DEF Types, AtRest, TabsOf
  <2>2. DOMAIN bcast = {}
    <3> SUFFICES ASSUME NEW k \in DOMAIN bcast PROVE FALSE
      OBVIOUS
    <3>1. bcast[k].by[1] \in Tab /\ Running(bcast[k].by[1])
      BY <2>0, CastIs DEF WaitInv, WaitPcs, Running
    <3> QED BY <3>1, <2>1
  <2>3. ~Snapped(t)
    BY <2>1 DEF Snapped, Job, Running
  <2>4. \A v \in User : v \in view[t] <=> conns[v] > 0
    BY <2>0, <2>1, <2>2, <2>3 DEF PictureInv, OnItsWay, ViewRight
  <2>5. view[t] \subseteq User
    BY <2>0, <2>1 DEF Types
  <2> QED BY <2>4, <2>5 DEF Online
<1> QED BY <1>1, InvAlways, PTL
==============================================================================
