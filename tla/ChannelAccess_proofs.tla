------------------------ MODULE ChannelAccess_proofs ------------------------
(***************************************************************************)
(* Machine-checked proofs about module ChannelAccess, for any number of    *)
(* people, agents of one owner, requests and mishaps.                      *)
(***************************************************************************)
EXTENDS ChannelAccess, TLAPS

USE AccessAssumption

\* The requests there are, and where each kind may stand.
Requests ==
  {r \in [op   : {"add", "join", "remove", "private", "public"}, who : Who,
          pc   : {"insert", "delete", "tell", "update", "list", "kick"},
          list : SUBSET Who] :
     /\ r.pc \in {"delete", "tell"} <=> r.op = "remove"
     /\ r.pc = "insert" /\ r.who \in Agent => r.op = "add"}

Kicks == [all : BOOLEAN, ids : SUBSET Who]
Notes == [t : {"member_add", "member_remove"}, who : Agent]
Boots == [list : SUBSET Agent, clean : SUBSET Agent, read : BOOLEAN]

Types ==
  /\ private \in BOOLEAN /\ members \subseteq Who
  /\ requests \subseteq Requests /\ kicks \subseteq Kicks /\ notes \subseteq Notes
  /\ link \in [Person -> {"idle", "upgrading", "open"}]
  /\ map \subseteq Agent /\ sock \in {"none", "opening", "checked", "open"}
  /\ twins \in Nat /\ timers \in Nat /\ boot \in Boots
  /\ stray \subseteq Person /\ strays \in BOOLEAN /\ crossed \subseteq Agent

\* A tab that may not read is named, or a kick for it is on its way.
TabInv ==
  \A p \in Person \ stray :
    link[p] = "open" /\ ~CanRead(p) =>
      \/ \E k \in kicks : HitsTab(k, p)
      \/ \E r \in requests : WillKick({p}, r)

\* The same of the bridge, whom the list of a conversion may spare: its owner
\* may be on it.  What counts is the kick of the agent that left last.
WillKickBridge(r) ==
  \/ r.pc = "tell" /\ r.who \in {Owner} \cup Agent
  \/ r.pc = "kick" /\ ({Owner} \cup Agent) \cap r.list = {}

BridgeInv ==
  (sock = "open" \/ twins > 0) /\ ~HasAgentHere /\ ~strays =>
    \/ \E k \in kicks : HitsBridge(k)
    \/ \E r \in requests : WillKickBridge(r)

\* What is on its way to the bridge about an agent is the latest there is, and
\* an agent of whom nothing is on its way is known.
HeardInv ==
  \A a \in Agent \ crossed :
    /\ \A n \in notes : n.who = a => (n.t = "member_add" <=> a \in members)
    /\ \A r \in requests : r.pc = "tell" /\ r.who = a => a \notin members
    /\ ~Pending(a) => (a \in map <=> a \in members)

\* The answer to a refresh is true of every agent that is not crossed, or that
\* the refresh will put right.
BootInv ==
  boot.read =>
    \A a \in Agent :
      /\ a \in boot.clean => ~Pending(a)
      /\ a \in boot.clean \/ a \notin crossed => (a \in boot.list <=> a \in members)

Inv == Types /\ TabInv /\ BridgeInv /\ HeardInv /\ BootInv


-----------------------------------------------------------------------------
LEMMA InitInv == Init => Inv
<1> SUFFICES ASSUME Init PROVE Inv
  OBVIOUS
<1>1. Types
  BY DEF Init, Types, Requests, Kicks, Notes, Boots, None, Who
<1>2. TabInv /\ BridgeInv /\ BootInv
  BY DEF Init, TabInv, BridgeInv, BootInv, None
<1>3. HeardInv
  BY DEF Init, HeardInv, Pending
<1> QED BY <1>1, <1>2, <1>3 DEF Inv

\* The same request, one stage on.
LEMMA Moved ==
  ASSUME NEW r \in Requests, NEW pc \in {"tell", "list", "kick"}, NEW l \in SUBSET Who,
         pc = "tell" <=> r.op = "remove"
  PROVE  LET m == [r EXCEPT !.pc = pc]
             n == [r EXCEPT !.pc = pc, !.list = l]
         IN  /\ m \in Requests /\ m.pc = pc /\ m.op = r.op /\ m.who = r.who
             /\ m.list = r.list
             /\ n \in Requests /\ n.pc = pc /\ n.op = r.op /\ n.who = r.who
             /\ n.list = l
BY DEF Requests


\* A request is made.
LEMMA AskStep ==
  ASSUME Inv,
         \/ \E x \in Who : Add(x) \/ Remove(x)
         \/ \E p \in Person : Join(p)
         \/ Convert("private") \/ Convert("public")
  PROVE  Inv'
<1> USE DEF apiVars, sentVars, bridgeVars, ghosts
<1>1. ASSUME NEW x \in Who, Add(x)
      PROVE  Inv'
  <2>1. Types'
    BY <1>1 DEF Inv, Types, Requests, Kicks, Notes, Boots, Who, Add, Ask, Request
  <2>2. TabInv'
    BY <1>1 DEF Inv, Types, Requests, Kicks, Who, TabInv, CanRead, HitsTab,
       WillKick, Add, Ask, Request
  <2>3. BridgeInv'
    BY <1>1 DEF Inv, Types, Requests, Kicks, Who, BridgeInv, HasAgentHere,
       HitsBridge, WillKickBridge, Add, Ask, Request
  <2>4. HeardInv'
    BY <1>1 DEF Inv, Types, Requests, Notes, Boots, Who, HeardInv, BootInv,
       Pending, Add, Ask, Request
  <2>5. BootInv'
    BY <1>1 DEF Inv, Types, Requests, Notes, Boots, Who, BootInv, Pending, Add,
       Ask, Request
  <2> QED BY <2>1, <2>2, <2>3, <2>4, <2>5 DEF Inv
<1>2. ASSUME NEW x \in Who, Remove(x)
      PROVE  Inv'
  <2>1. Types'
    BY <1>2 DEF Inv, Types, Requests, Kicks, Notes, Boots, Who, Remove, Ask, Request
  <2>2. TabInv'
    BY <1>2 DEF Inv, Types, Requests, Kicks, Who, TabInv, CanRead, HitsTab,
       WillKick, Remove, Ask, Request
  <2>3. BridgeInv'
    BY <1>2 DEF Inv, Types, Requests, Kicks, Who, BridgeInv, HasAgentHere,
       HitsBridge, WillKickBridge, Remove, Ask, Request
  <2>4. HeardInv'
    BY <1>2 DEF Inv, Types, Requests, Notes, Boots, Who, HeardInv, BootInv,
       Pending, Remove, Ask, Request
  <2>5. BootInv'
    BY <1>2 DEF Inv, Types, Requests, Notes, Boots, Who, BootInv, Pending, Remove,
       Ask, Request
  <2> QED BY <2>1, <2>2, <2>3, <2>4, <2>5 DEF Inv
<1>3. ASSUME NEW p \in Person, Join(p)
      PROVE  Inv'
  <2>1. Types'
    BY <1>3 DEF Inv, Types, Requests, Kicks, Notes, Boots, Who, Join, Ask, Request
  <2>2. TabInv'
    BY <1>3 DEF Inv, Types, Requests, Kicks, Who, TabInv, CanRead, HitsTab,
       WillKick, Join, Ask, Request
  <2>3. BridgeInv'
    BY <1>3 DEF Inv, Types, Requests, Kicks, Who, BridgeInv, HasAgentHere,
       HitsBridge, WillKickBridge, Join, Ask, Request
  <2>4. HeardInv'
    BY <1>3 DEF Inv, Types, Requests, Notes, Boots, Who, HeardInv, BootInv,
       Pending, Join, Ask, Request
  <2>5. BootInv'
    BY <1>3 DEF Inv, Types, Requests, Notes, Boots, Who, BootInv, Pending, Join,
       Ask, Request
  <2> QED BY <2>1, <2>2, <2>3, <2>4, <2>5 DEF Inv
<1>4. ASSUME NEW to \in {"private", "public"}, Convert(to)
      PROVE  Inv'
  <2>1. Types'
    BY <1>4 DEF Inv, Types, Requests, Kicks, Notes, Boots, Who, Convert, Ask,
       Request
  <2>2. TabInv'
    BY <1>4 DEF Inv, Types, Requests, Kicks, Who, TabInv, CanRead, HitsTab,
       WillKick, Convert, Ask, Request
  <2>3. BridgeInv'
    BY <1>4 DEF Inv, Types, Requests, Kicks, Who, BridgeInv, HasAgentHere,
       HitsBridge, WillKickBridge, Convert, Ask, Request
  <2>4. HeardInv'
    BY <1>4 DEF Inv, Types, Requests, Notes, Boots, Who, HeardInv, BootInv,
       Pending, Convert, Ask, Request
  <2>5. BootInv'
    BY <1>4 DEF Inv, Types, Requests, Notes, Boots, Who, BootInv, Pending, Convert,
       Ask, Request
  <2> QED BY <2>1, <2>2, <2>3, <2>4, <2>5 DEF Inv
<1> QED BY <1>1, <1>2, <1>3, <1>4

\* A request goes on, or dies.
LEMMA RequestStep ==
  ASSUME Inv, NEW r \in requests, Step(r) \/ Die(r)
  PROVE  Inv'
<1> USE DEF apiVars, sentVars, bridgeVars, ghosts
<1>1. ASSUME AddInsert(r)
      PROVE  Inv'
  <2>1. Types'
    BY <1>1 DEF Inv, Types, Requests, Kicks, Notes, Boots, Who, AddInsert, Ends,
       Crosses
  <2>2. TabInv'
    BY <1>1 DEF Inv, Types, Requests, Kicks, Who, TabInv, CanRead, HitsTab,
       WillKick, AddInsert, Ends, Crosses
  <2>3. BridgeInv'
    BY <1>1 DEF Inv, Types, Requests, Kicks, Who, BridgeInv, HasAgentHere,
       HitsBridge, WillKickBridge, AddInsert, Ends, Crosses
  <2>4. HeardInv'
    <3>1. r \in Requests /\ r.pc = "insert" /\ r.op # "remove" /\ r.who \in Who
          /\ (r.who \in Agent => r.op = "add")
      BY <1>1 DEF Inv, Types, Requests, AddInsert
    <3>2. SUFFICES ASSUME NEW a \in Agent, a \notin crossed'
                   PROVE  HeardInv!(a)'
      BY DEF HeardInv
    <3>3. a \notin crossed /\ map' = map /\ requests' = requests \ {r}
      BY <1>1, <3>2 DEF AddInsert, Crosses, Ends
    <3>4. CASE r.who = a
      <4>1. ~Pending(a) /\ a \in members'
        BY <1>1, <3>2, <3>4 DEF AddInsert, Crosses
      <4>2. CASE a \in members
        <5>1. notes' = notes
          BY <1>1, <3>4, <4>2 DEF AddInsert
        <5> QED BY <3>3, <4>1, <4>2, <5>1 DEF Inv, HeardInv, Pending
      <4>3. CASE a \notin members
        <5> DEFINE new == [t |-> "member_add", who |-> a]
        <5>1. notes' = notes \cup {new}
          BY <1>1, <3>1, <3>4, <4>3 DEF AddInsert
        <5>2. new.t = "member_add" /\ new.who = a
          OBVIOUS
        <5> HIDE DEF new
        <5>3. \A x \in notes' : x.who = a => x = new
          BY <4>1, <5>1 DEF Pending
        <5>4. \A q \in requests' : ~(q.pc = "tell" /\ q.who = a)
          BY <3>3, <4>1 DEF Pending, Inv, Types, Requests
        <5> QED BY <4>1, <5>1, <5>2, <5>3, <5>4 DEF Pending
      <4> QED BY <4>2, <4>3
    <3>5. CASE r.who # a
      <4>1. a \in members' <=> a \in members
        BY <1>1, <3>5 DEF AddInsert
      <4>2. \A x : x.who = a => (x \in notes' <=> x \in notes)
        BY <1>1, <3>5 DEF AddInsert
      <4>3. \A q \in Requests : q.pc = "tell" => (q \in requests' <=> q \in
      requests)
        BY <3>1, <3>3
      <4> QED BY <3>1, <3>3, <4>1, <4>2, <4>3 DEF Inv, Types, HeardInv, Pending
    <3> QED BY <3>4, <3>5
  <2>5. BootInv'
    BY <1>1 DEF Inv, Types, Requests, Notes, Boots, Who, BootInv, Pending,
       AddInsert, Ends, Crosses
  <2> QED BY <2>1, <2>2, <2>3, <2>4, <2>5 DEF Inv
<1>2. ASSUME RemoveDelete(r)
      PROVE  Inv'

  <2> DEFINE m == [r EXCEPT !.pc = "tell"]
  <2>0. /\ r \in Requests /\ m \in Requests /\ m.pc = "tell" /\ m.op = "remove"
        /\ r.op = "remove" /\ r.pc = "delete" /\ m.who = r.who
        /\ requests' = (requests \ {r}) \cup {m}
    BY <1>2, Moved DEF Inv, Types, Requests, RemoveDelete, Goes
  <2> HIDE DEF m
  <2>1. Types'
    BY <1>2, <2>0 DEF Inv, Types, Requests, Kicks, Notes, Boots, Who, RemoveDelete,
       Goes, Crosses
  <2>2. TabInv'
    BY <1>2, <2>0 DEF Inv, Types, Requests, Kicks, Who, TabInv, CanRead, HitsTab,
       WillKick, RemoveDelete, Goes, Crosses
  <2>3. BridgeInv'
    BY <1>2, <2>0 DEF Inv, Types, Requests, Kicks, Who, BridgeInv, HasAgentHere,
       HitsBridge, WillKickBridge, RemoveDelete, Goes, Crosses
  <2>4. HeardInv'
    BY <1>2, <2>0 DEF Inv, Types, Requests, Notes, Boots, Who, HeardInv, BootInv,
       Pending, RemoveDelete, Goes, Crosses
  <2>5. BootInv'
    BY <1>2, <2>0 DEF Inv, Types, Requests, Notes, Boots, Who, BootInv, Pending,
       RemoveDelete, Goes, Crosses
  <2> QED BY <2>1, <2>2, <2>3, <2>4, <2>5 DEF Inv
<1>3. ASSUME RemoveTell(r)
      PROVE  Inv'

  <2> DEFINE k == [all |-> FALSE, ids |-> {r.who}]
  <2>0. /\ r \in Requests /\ r.op = "remove" /\ r.pc = "tell" /\ r.who \in Who
        /\ k \in Kicks /\ k.all = FALSE /\ k.ids = {r.who}
        /\ kicks' = kicks \cup {k} /\ requests' = requests \ {r}
    BY <1>3 DEF Inv, Types, Requests, Kicks, RemoveTell, Ends
  <2> HIDE DEF k
  <2>1. Types'
    BY <1>3, <2>0 DEF Inv, Types, Requests, Kicks, Notes, Boots, Who, RemoveTell,
       Ends
  <2>2. TabInv'
    BY <1>3, <2>0 DEF Inv, Types, Requests, Kicks, Who, TabInv, CanRead, HitsTab,
       WillKick, RemoveTell, Ends
  <2>3. BridgeInv'
    BY <1>3, <2>0 DEF Inv, Types, Requests, Kicks, Who, BridgeInv, HasAgentHere,
       HitsBridge, WillKickBridge, RemoveTell, Ends
  <2>4. HeardInv'
    <3>1. SUFFICES ASSUME NEW a \in Agent, a \notin crossed'
                   PROVE  HeardInv!(a)'
      BY DEF HeardInv
    <3>2. UNCHANGED <<members, map, crossed>>
      BY <1>3 DEF RemoveTell
    <3>3. CASE r.who = a
      <4> DEFINE new == [t |-> "member_remove", who |-> a]
      <4>0. notes' = notes \cup {new}
        BY <1>3, <3>3 DEF RemoveTell
      <4>1. new.t = "member_remove" /\ new.who = a
        OBVIOUS
      <4> HIDE DEF new
      <4>2. a \notin members
        BY <2>0, <3>1, <3>2, <3>3 DEF Inv, HeardInv
      <4>3. Pending(a)'
        BY <4>0, <4>1 DEF Pending
      <4>4. \A x \in notes' : x.who = a => (x.t = "member_add" <=> a \in members')
        BY <3>1, <3>2, <4>0, <4>1, <4>2 DEF Inv, HeardInv
      <4>5. \A q \in requests' : q.pc = "tell" /\ q.who = a => a \notin members'
        BY <3>2, <4>2
      <4> QED BY <4>3, <4>4, <4>5
    <3>4. CASE r.who # a
      <4>1. \A x : x.who = a => (x \in notes' <=> x \in notes)
        BY <1>3, <3>4 DEF RemoveTell
      <4>2. \A q : q.who = a => (q \in requests' <=> q \in requests)
        BY <2>0, <3>4
      <4> QED BY <3>1, <3>2, <4>1, <4>2 DEF Inv, HeardInv, Pending
    <3> QED BY <3>3, <3>4
  <2>5. BootInv'
    BY <1>3, <2>0 DEF Inv, Types, Requests, Notes, Boots, Who, BootInv, Pending,
       RemoveTell, Ends
  <2> QED BY <2>1, <2>2, <2>3, <2>4, <2>5 DEF Inv
<1>4. ASSUME ConvertUpdate(r)
      PROVE  Inv'

  <2> DEFINE m == [r EXCEPT !.pc = "list"]
  <2>0. /\ r \in Requests /\ m \in Requests /\ m.pc = "list" /\ m.op = r.op
        /\ r.op # "remove" /\ r.pc = "update" /\ m.who = r.who
        /\ requests' = IF r.op = "private" THEN (requests \ {r}) \cup {m} ELSE requests \ {r}
    <3>1. r \in Requests /\ r.op # "remove" /\ r.pc = "update"
      BY <1>4 DEF Inv, Types, Requests, ConvertUpdate
    <3>2. m \in Requests /\ m.pc = "list" /\ m.op = r.op /\ m.who = r.who
      BY <3>1, Moved DEF Inv, Types
    <3>3. requests' = IF r.op = "private" THEN (requests \ {r}) \cup {m}
                      ELSE requests \ {r}
      BY <1>4 DEF ConvertUpdate, Goes, Ends
    <3> QED BY <3>1, <3>2, <3>3
  <2> HIDE DEF m
  <2>1. Types'
    BY <1>4, <2>0 DEF Inv, Types, Requests, Kicks, Notes, Boots, Who,
       ConvertUpdate, Goes, Ends
  <2>2. TabInv'
    BY <1>4, <2>0 DEF Inv, Types, Requests, Kicks, Who, TabInv, CanRead, HitsTab,
       WillKick, ConvertUpdate, Goes, Ends
  <2>3. BridgeInv'
    BY <1>4, <2>0 DEF Inv, Types, Requests, Kicks, Who, BridgeInv, HasAgentHere,
       HitsBridge, WillKickBridge, ConvertUpdate, Goes, Ends
  <2>4. HeardInv'
    BY <1>4, <2>0 DEF Inv, Types, Requests, Notes, Boots, Who, HeardInv, BootInv,
       Pending, ConvertUpdate, Goes, Ends
  <2>5. BootInv'
    BY <1>4, <2>0 DEF Inv, Types, Requests, Notes, Boots, Who, BootInv, Pending,
       ConvertUpdate, Goes, Ends
  <2> QED BY <2>1, <2>2, <2>3, <2>4, <2>5 DEF Inv
<1>5. ASSUME ConvertList(r)
      PROVE  Inv'

  <2> DEFINE m == [r EXCEPT !.pc = "kick", !.list = members]
  <2>0. /\ r \in Requests /\ m \in Requests /\ m.pc = "kick" /\ m.op = r.op
        /\ r.op # "remove" /\ r.pc = "list" /\ m.who = r.who /\ m.list = members
        /\ requests' = (requests \ {r}) \cup {m}
    BY <1>5, Moved DEF Inv, Types, Requests, ConvertList
  <2> HIDE DEF m
  <2>1. Types'
    BY <1>5, <2>0 DEF Inv, Types, Requests, Kicks, Notes, Boots, Who, ConvertList
  <2>2. TabInv'
    BY <1>5, <2>0 DEF Inv, Types, Requests, Kicks, Who, TabInv, CanRead, HitsTab,
       WillKick, ConvertList
  <2>3. BridgeInv'
    BY <1>5, <2>0 DEF Inv, Types, Requests, Kicks, Who, BridgeInv, HasAgentHere,
       HitsBridge, WillKickBridge, ConvertList
  <2>4. HeardInv'
    BY <1>5, <2>0 DEF Inv, Types, Requests, Notes, Boots, Who, HeardInv, BootInv,
       Pending, ConvertList
  <2>5. BootInv'
    BY <1>5, <2>0 DEF Inv, Types, Requests, Notes, Boots, Who, BootInv, Pending,
       ConvertList
  <2> QED BY <2>1, <2>2, <2>3, <2>4, <2>5 DEF Inv
<1>6. ASSUME ConvertKick(r)
      PROVE  Inv'

  <2> DEFINE k == [all |-> TRUE, ids |-> r.list]
  <2>0. /\ r \in Requests /\ r.op # "remove" /\ r.pc = "kick"
        /\ k \in Kicks /\ k.all = TRUE /\ k.ids = r.list
        /\ kicks' = kicks \cup {k} /\ requests' = requests \ {r}
    BY <1>6 DEF Inv, Types, Requests, Kicks, ConvertKick, Ends
  <2> HIDE DEF k
  <2>1. Types'
    BY <1>6, <2>0 DEF Inv, Types, Requests, Kicks, Notes, Boots, Who, ConvertKick,
       Ends
  <2>2. TabInv'
    BY <1>6, <2>0 DEF Inv, Types, Requests, Kicks, Who, TabInv, CanRead, HitsTab,
       WillKick, ConvertKick, Ends
  <2>3. BridgeInv'
    BY <1>6, <2>0 DEF Inv, Types, Requests, Kicks, Who, BridgeInv, HasAgentHere,
       HitsBridge, WillKickBridge, ConvertKick, Ends
  <2>4. HeardInv'
    BY <1>6, <2>0 DEF Inv, Types, Requests, Notes, Boots, Who, HeardInv, BootInv,
       Pending, ConvertKick, Ends
  <2>5. BootInv'
    BY <1>6, <2>0 DEF Inv, Types, Requests, Notes, Boots, Who, BootInv, Pending,
       ConvertKick, Ends
  <2> QED BY <2>1, <2>2, <2>3, <2>4, <2>5 DEF Inv
<1>7. ASSUME Die(r)
      PROVE  Inv'
  <2>1. Types'
    BY <1>7 DEF Inv, Types, Requests, Kicks, Notes, Boots, Who, Die, Mishap, Ends,
       Spared, HitsTab, HitsBridge
  <2>2. TabInv'
    BY <1>7 DEF Inv, Types, Requests, Kicks, Who, TabInv, CanRead, HitsTab,
       WillKick, Die, Mishap, Ends, Spared, HitsTab, HitsBridge
  <2>3. BridgeInv'
    BY <1>7 DEF Inv, Types, Requests, Kicks, Who, BridgeInv, HasAgentHere,
       HitsBridge, WillKickBridge, Die, Mishap, Ends, Spared, HitsTab, HitsBridge
  <2>4. HeardInv'
    BY <1>7 DEF Inv, Types, Requests, Notes, Boots, Who, HeardInv, BootInv,
       Pending, Die, Mishap, Ends, Spared, HitsTab, HitsBridge
  <2>5. BootInv'
    BY <1>7 DEF Inv, Types, Requests, Notes, Boots, Who, BootInv, Pending, Die,
       Mishap, Ends, Spared, HitsTab, HitsBridge
  <2> QED BY <2>1, <2>2, <2>3, <2>4, <2>5 DEF Inv
<1> QED BY <1>1, <1>2, <1>3, <1>4, <1>5, <1>6, <1>7 DEF Step

\* A kick arrives or is lost, or a tab does something.
LEMMA RoomStep ==
  ASSUME Inv, 
         \/ \E k \in kicks : Kick(k) \/ KickFails(k)
         \/ \E p \in Person : Mint(p) \/ Upgrade(p) \/ Reopen(p) \/ Drop(p)
  PROVE  Inv'
<1> USE DEF apiVars, sentVars, bridgeVars, ghosts
<1>1. ASSUME NEW k \in kicks, Kick(k)
      PROVE  Inv'
  <2>1. Types'
    <3>1. link' \in [Person -> {"idle", "upgrading", "open"}]
      BY <1>1 DEF Inv, Types, Kick
    <3>2. twins' \in Nat /\ sock' \in {"none", "opening", "checked", "open"}
      BY <1>1 DEF Inv, Types, Kick
    <3>0. strays' \in BOOLEAN
      BY <1>1, Zenon DEF Inv, Types, Kick
    <3>3. kicks' \subseteq Kicks /\ stray' \subseteq Person
      BY <1>1 DEF Inv, Types, Kick
    <3> QED BY <1>1, <3>0, <3>1, <3>2, <3>3 DEF Inv, Types, Kick
  <2>2. TabInv'
    BY <1>1 DEF Inv, Types, Requests, Kicks, Who, TabInv, CanRead, HitsTab,
       WillKick, Kick
  <2>3. BridgeInv'
    BY <1>1 DEF Inv, Types, Requests, Kicks, Who, BridgeInv, HasAgentHere,
       HitsBridge, WillKickBridge, Kick
  <2>4. HeardInv'
    BY <1>1 DEF Inv, Types, Requests, Notes, Boots, Who, HeardInv, BootInv,
       Pending, Kick
  <2>5. BootInv'
    BY <1>1 DEF Inv, Types, Requests, Notes, Boots, Who, BootInv, Pending, Kick
  <2> QED BY <2>1, <2>2, <2>3, <2>4, <2>5 DEF Inv
<1>2. ASSUME NEW k \in kicks, KickFails(k)
      PROVE  Inv'
  <2>1. Types'
    BY <1>2 DEF Inv, Types, Requests, Kicks, Notes, Boots, Who, KickFails, Mishap,
       Spared
  <2>2. TabInv'
    BY <1>2 DEF Inv, Types, Requests, Kicks, Who, TabInv, CanRead, HitsTab,
       WillKick, KickFails, Mishap, Spared
  <2>3. BridgeInv'
    BY <1>2 DEF Inv, Types, Requests, Kicks, Who, BridgeInv, HasAgentHere,
       HitsBridge, WillKickBridge, KickFails, Mishap, Spared
  <2>4. HeardInv'
    BY <1>2 DEF Inv, Types, Requests, Notes, Boots, Who, HeardInv, BootInv,
       Pending, KickFails, Mishap, Spared
  <2>5. BootInv'
    BY <1>2 DEF Inv, Types, Requests, Notes, Boots, Who, BootInv, Pending,
       KickFails, Mishap, Spared
  <2> QED BY <2>1, <2>2, <2>3, <2>4, <2>5 DEF Inv
<1>3. ASSUME NEW p \in Person, Mint(p)
      PROVE  Inv'
  <2>1. Types'
    BY <1>3 DEF Inv, Types, Requests, Kicks, Notes, Boots, Who, Mint
  <2>2. TabInv'
    BY <1>3 DEF Inv, Types, Requests, Kicks, Who, TabInv, CanRead, HitsTab,
       WillKick, Mint
  <2>3. BridgeInv'
    BY <1>3 DEF Inv, Types, Requests, Kicks, Who, BridgeInv, HasAgentHere,
       HitsBridge, WillKickBridge, Mint
  <2>4. HeardInv'
    BY <1>3 DEF Inv, Types, Requests, Notes, Boots, Who, HeardInv, BootInv,
       Pending, Mint
  <2>5. BootInv'
    BY <1>3 DEF Inv, Types, Requests, Notes, Boots, Who, BootInv, Pending, Mint
  <2> QED BY <2>1, <2>2, <2>3, <2>4, <2>5 DEF Inv
<1>4. ASSUME NEW p \in Person, Upgrade(p)
      PROVE  Inv'
  <2>1. Types'
    BY <1>4 DEF Inv, Types, Requests, Kicks, Notes, Boots, Who, Upgrade
  <2>2. TabInv'
    BY <1>4 DEF Inv, Types, Requests, Kicks, Who, TabInv, CanRead, HitsTab,
       WillKick, Upgrade
  <2>3. BridgeInv'
    BY <1>4 DEF Inv, Types, Requests, Kicks, Who, BridgeInv, HasAgentHere,
       HitsBridge, WillKickBridge, Upgrade
  <2>4. HeardInv'
    BY <1>4 DEF Inv, Types, Requests, Notes, Boots, Who, HeardInv, BootInv,
       Pending, Upgrade
  <2>5. BootInv'
    BY <1>4 DEF Inv, Types, Requests, Notes, Boots, Who, BootInv, Pending, Upgrade
  <2> QED BY <2>1, <2>2, <2>3, <2>4, <2>5 DEF Inv
<1>5. ASSUME NEW p \in Person, Reopen(p)
      PROVE  Inv'
  <2>1. Types'
    BY <1>5 DEF Inv, Types, Requests, Kicks, Notes, Boots, Who, Reopen, Mishap
  <2>2. TabInv'
    BY <1>5 DEF Inv, Types, Requests, Kicks, Who, TabInv, CanRead, HitsTab,
       WillKick, Reopen, Mishap
  <2>3. BridgeInv'
    BY <1>5 DEF Inv, Types, Requests, Kicks, Who, BridgeInv, HasAgentHere,
       HitsBridge, WillKickBridge, Reopen, Mishap
  <2>4. HeardInv'
    BY <1>5 DEF Inv, Types, Requests, Notes, Boots, Who, HeardInv, BootInv,
       Pending, Reopen, Mishap
  <2>5. BootInv'
    BY <1>5 DEF Inv, Types, Requests, Notes, Boots, Who, BootInv, Pending, Reopen,
       Mishap
  <2> QED BY <2>1, <2>2, <2>3, <2>4, <2>5 DEF Inv
<1>6. ASSUME NEW p \in Person, Drop(p)
      PROVE  Inv'
  <2>1. Types'
    BY <1>6 DEF Inv, Types, Requests, Kicks, Notes, Boots, Who, Drop, Mishap
  <2>2. TabInv'
    BY <1>6 DEF Inv, Types, Requests, Kicks, Who, TabInv, CanRead, HitsTab,
       WillKick, Drop, Mishap
  <2>3. BridgeInv'
    BY <1>6 DEF Inv, Types, Requests, Kicks, Who, BridgeInv, HasAgentHere,
       HitsBridge, WillKickBridge, Drop, Mishap
  <2>4. HeardInv'
    BY <1>6 DEF Inv, Types, Requests, Notes, Boots, Who, HeardInv, BootInv,
       Pending, Drop, Mishap
  <2>5. BootInv'
    BY <1>6 DEF Inv, Types, Requests, Notes, Boots, Who, BootInv, Pending, Drop,
       Mishap
  <2> QED BY <2>1, <2>2, <2>3, <2>4, <2>5 DEF Inv
<1> QED BY <1>1, <1>2, <1>3, <1>4, <1>5, <1>6

\* The bridge's socket, its timers and its refresh.
LEMMA BridgeStep ==
  ASSUME Inv, Bridge \/ BridgeDrop \/ RefreshAsk \/ RefreshDo
  PROVE  Inv'
<1> USE DEF apiVars, sentVars, bridgeVars, ghosts
<1>1. ASSUME BridgeChecked
      PROVE  Inv'
  <2>1. Types'
    BY <1>1 DEF Inv, Types, Requests, Kicks, Notes, Boots, Who, BridgeChecked,
       HasAgentHere
  <2>2. TabInv'
    BY <1>1 DEF Inv, Types, Requests, Kicks, Who, TabInv, CanRead, HitsTab,
       WillKick, BridgeChecked, HasAgentHere
  <2>3. BridgeInv'
    BY <1>1 DEF Inv, Types, Requests, Kicks, Who, BridgeInv, HasAgentHere,
       HitsBridge, WillKickBridge, BridgeChecked, HasAgentHere
  <2>4. HeardInv'
    BY <1>1 DEF Inv, Types, Requests, Notes, Boots, Who, HeardInv, BootInv,
       Pending, BridgeChecked, HasAgentHere
  <2>5. BootInv'
    BY <1>1 DEF Inv, Types, Requests, Notes, Boots, Who, BootInv, Pending,
       BridgeChecked, HasAgentHere
  <2> QED BY <2>1, <2>2, <2>3, <2>4, <2>5 DEF Inv
<1>2. ASSUME BridgeAccepted
      PROVE  Inv'
  <2>1. Types'
    BY <1>2 DEF Inv, Types, Requests, Kicks, Notes, Boots, Who, BridgeAccepted,
       HasAgentHere
  <2>2. TabInv'
    BY <1>2 DEF Inv, Types, Requests, Kicks, Who, TabInv, CanRead, HitsTab,
       WillKick, BridgeAccepted, HasAgentHere
  <2>3. BridgeInv'
    BY <1>2 DEF Inv, Types, Requests, Kicks, Who, BridgeInv, HasAgentHere,
       HitsBridge, WillKickBridge, BridgeAccepted, HasAgentHere
  <2>4. HeardInv'
    BY <1>2 DEF Inv, Types, Requests, Notes, Boots, Who, HeardInv, BootInv,
       Pending, BridgeAccepted, HasAgentHere
  <2>5. BootInv'
    BY <1>2 DEF Inv, Types, Requests, Notes, Boots, Who, BootInv, Pending,
       BridgeAccepted, HasAgentHere
  <2> QED BY <2>1, <2>2, <2>3, <2>4, <2>5 DEF Inv
<1>3. ASSUME Timer
      PROVE  Inv'
  <2>1. Types'
    BY <1>3 DEF Inv, Types, Requests, Kicks, Notes, Boots, Who, Timer, Opens,
       HasAgentHere
  <2>2. TabInv'
    BY <1>3 DEF Inv, Types, Requests, Kicks, Who, TabInv, CanRead, HitsTab,
       WillKick, Timer, Opens, HasAgentHere
  <2>3. BridgeInv'
    <3>1. CASE HasAgentHere
      BY <1>3, <3>1 DEF BridgeInv, HasAgentHere, Timer
    <3>2. CASE ~HasAgentHere /\ twins' = twins
      BY <1>3, <3>2 DEF Inv, BridgeInv, HasAgentHere, HitsBridge, WillKickBridge,
         Timer, Opens
    <3>3. CASE ~HasAgentHere /\ twins' = twins + 1
      <4>1. twins' > twins
        BY <3>3 DEF Inv, Types
      <4>2. strays'
        BY <1>3, <3>3, <4>1, Zenon DEF Timer, Opens
      <4> QED BY <4>2 DEF BridgeInv
    <3> QED BY <1>3, <3>1, <3>2, <3>3 DEF Timer, Opens
  <2>4. HeardInv'
    BY <1>3 DEF Inv, Types, Requests, Notes, Boots, Who, HeardInv, BootInv,
       Pending, Timer, Opens, HasAgentHere
  <2>5. BootInv'
    BY <1>3 DEF Inv, Types, Requests, Notes, Boots, Who, BootInv, Pending, Timer,
       Opens, HasAgentHere
  <2> QED BY <2>1, <2>2, <2>3, <2>4, <2>5 DEF Inv
<1>4. ASSUME BridgeDrop
      PROVE  Inv'
  <2>1. Types'
    BY <1>4 DEF Inv, Types, Requests, Kicks, Notes, Boots, Who, BridgeDrop, Mishap
  <2>2. TabInv'
    BY <1>4 DEF Inv, Types, Requests, Kicks, Who, TabInv, CanRead, HitsTab,
       WillKick, BridgeDrop, Mishap
  <2>3. BridgeInv'
    BY <1>4 DEF Inv, Types, Requests, Kicks, Who, BridgeInv, HasAgentHere,
       HitsBridge, WillKickBridge, BridgeDrop, Mishap
  <2>4. HeardInv'
    BY <1>4 DEF Inv, Types, Requests, Notes, Boots, Who, HeardInv, BootInv,
       Pending, BridgeDrop, Mishap
  <2>5. BootInv'
    BY <1>4 DEF Inv, Types, Requests, Notes, Boots, Who, BootInv, Pending,
       BridgeDrop, Mishap
  <2> QED BY <2>1, <2>2, <2>3, <2>4, <2>5 DEF Inv
<1>5. ASSUME RefreshAsk
      PROVE  Inv'
  <2>1. Types'
    BY <1>5 DEF Inv, Types, Requests, Kicks, Notes, Boots, Who, RefreshAsk, Listed
  <2>2. TabInv'
    BY <1>5 DEF Inv, Types, Requests, Kicks, Who, TabInv, CanRead, HitsTab,
       WillKick, RefreshAsk, Listed
  <2>3. BridgeInv'
    BY <1>5 DEF Inv, Types, Requests, Kicks, Who, BridgeInv, HasAgentHere,
       HitsBridge, WillKickBridge, RefreshAsk, Listed
  <2>4. HeardInv'
    BY <1>5 DEF Inv, Types, Requests, Notes, Boots, Who, HeardInv, BootInv,
       Pending, RefreshAsk, Listed
  <2>5. BootInv'
    BY <1>5 DEF Inv, Types, Requests, Notes, Boots, Who, BootInv, Pending,
       RefreshAsk, Listed
  <2> QED BY <2>1, <2>2, <2>3, <2>4, <2>5 DEF Inv
<1>6. ASSUME RefreshDo
      PROVE  Inv'
  <2>1. Types'
    BY <1>6 DEF Inv, Types, Requests, Kicks, Notes, Boots, Who, RefreshDo, Afresh,
       None
  <2>2. TabInv'
    BY <1>6 DEF Inv, Types, Requests, Kicks, Who, TabInv, CanRead, HitsTab,
       WillKick, RefreshDo, Afresh, None
  <2>3. BridgeInv'
    BY <1>6 DEF Inv, Types, Requests, Kicks, Who, BridgeInv, HasAgentHere,
       HitsBridge, WillKickBridge, RefreshDo, Afresh, None
  <2>4. HeardInv'
    BY <1>6 DEF Inv, Types, Requests, Notes, Boots, Who, HeardInv, BootInv,
       Pending, RefreshDo, Afresh, None
  <2>5. BootInv'
    BY <1>6 DEF Inv, Types, Requests, Notes, Boots, Who, BootInv, Pending,
       RefreshDo, Afresh, None
  <2> QED BY <2>1, <2>2, <2>3, <2>4, <2>5 DEF Inv
<1> QED BY <1>1, <1>2, <1>3, <1>4, <1>5, <1>6 DEF Bridge

\* The bridge hears of an agent, or does not.
LEMMA NoteStep ==
  ASSUME Inv, NEW n \in notes, HearAdd(n) \/ HearRemove(n) \/ NoteFails(n)
  PROVE  Inv'
<1> USE DEF apiVars, sentVars, bridgeVars, ghosts
<1>1. ASSUME HearAdd(n)
      PROVE  Inv'
  <2>1. Types'
    BY <1>1 DEF Inv, Types, Requests, Kicks, Notes, Boots, Who, HearAdd, Reopens,
       Opens, HasAgentHere
  <2>2. TabInv'
    BY <1>1 DEF Inv, Types, Requests, Kicks, Who, TabInv, CanRead, HitsTab,
       WillKick, HearAdd, Reopens, Opens, HasAgentHere
  <2>3. BridgeInv'
    BY <1>1 DEF Inv, Types, Requests, Kicks, Who, BridgeInv, HasAgentHere,
       HitsBridge, WillKickBridge, HearAdd, Reopens, Opens, HasAgentHere
  <2>4. HeardInv'
    BY <1>1 DEF Inv, Types, Requests, Notes, Boots, Who, HeardInv, BootInv,
       Pending, HearAdd, Reopens, Opens, HasAgentHere
  <2>5. BootInv'
    BY <1>1 DEF Inv, Types, Requests, Notes, Boots, Who, BootInv, Pending, HearAdd,
       Reopens, Opens, HasAgentHere
  <2> QED BY <2>1, <2>2, <2>3, <2>4, <2>5 DEF Inv
<1>2. ASSUME HearRemove(n)
      PROVE  Inv'
  <2>1. Types'
    BY <1>2 DEF Inv, Types, Requests, Kicks, Notes, Boots, Who, HearRemove, Without
  <2>2. TabInv'
    BY <1>2 DEF Inv, Types, Requests, Kicks, Who, TabInv, CanRead, HitsTab,
       WillKick, HearRemove, Without
  <2>3. BridgeInv'
    BY <1>2 DEF Inv, Types, Requests, Kicks, Who, BridgeInv, HasAgentHere,
       HitsBridge, WillKickBridge, HearRemove, Without
  <2>4. HeardInv'
    BY <1>2 DEF Inv, Types, Requests, Notes, Boots, Who, HeardInv, BootInv,
       Pending, HearRemove, Without
  <2>5. BootInv'
    BY <1>2 DEF Inv, Types, Requests, Notes, Boots, Who, BootInv, Pending,
       HearRemove, Without
  <2> QED BY <2>1, <2>2, <2>3, <2>4, <2>5 DEF Inv
<1>3. ASSUME NoteFails(n)
      PROVE  Inv'
  <2>1. Types'
    BY <1>3 DEF Inv, Types, Requests, Kicks, Notes, Boots, Who, NoteFails, Mishap
  <2>2. TabInv'
    BY <1>3 DEF Inv, Types, Requests, Kicks, Who, TabInv, CanRead, HitsTab,
       WillKick, NoteFails, Mishap
  <2>3. BridgeInv'
    BY <1>3 DEF Inv, Types, Requests, Kicks, Who, BridgeInv, HasAgentHere,
       HitsBridge, WillKickBridge, NoteFails, Mishap
  <2>4. HeardInv'
    BY <1>3 DEF Inv, Types, Requests, Notes, Boots, Who, HeardInv, BootInv,
       Pending, NoteFails, Mishap
  <2>5. BootInv'
    BY <1>3 DEF Inv, Types, Requests, Notes, Boots, Who, BootInv, Pending,
       NoteFails, Mishap
  <2> QED BY <2>1, <2>2, <2>3, <2>4, <2>5 DEF Inv
<1> QED BY <1>1, <1>2, <1>3

LEMMA InvStep == Inv /\ [Next]_vars => Inv'
<1> SUFFICES ASSUME Inv, [Next]_vars
             PROVE  Inv'
  OBVIOUS
<1>1. CASE UNCHANGED vars
  BY <1>1 DEF Inv, Types, TabInv, BridgeInv, HeardInv, BootInv, CanRead,
     HasAgentHere,
              Pending, vars, apiVars, sentVars, bridgeVars, ghosts
<1>2. CASE Next
  BY <1>2, AskStep, RequestStep, RoomStep, BridgeStep, NoteStep DEF Next
<1> QED BY <1>1, <1>2

LEMMA AlwaysInv == Spec => []Inv
BY InitInv, InvStep, PTL DEF Spec

-----------------------------------------------------------------------------
(* The properties *)

\* Type correctness: among others, the bridge lists none but its own agents.
THEOREM TypeCorrect == Spec => []TypeOK
<1>1. Inv => TypeOK
  BY DEF Inv, Types, TypeOK, Requests, Kicks, Notes, Boots
<1> QED BY <1>1, AlwaysInv, PTL

\* Who may not read the channel holds no socket of it, but for the time that the
\* kick of a removal, a departure or a conversion takes, unless it was lost or
\* the socket came in, or stayed, in one of the ways that Upgrade, RemoveDelete
\* and Opens name.
THEOREM LurkersAreAlwaysNamed == Spec => []LurkersAreNamed
<1>1. \A r : WillKickBridge(r) => WillKick({Owner} \cup Agent, r)
  BY DEF WillKickBridge, WillKick
<1>2. Inv => LurkersAreNamed
  BY <1>1 DEF Inv, TabInv, BridgeInv, LurkersAreNamed
<1> QED BY <1>2, AlwaysInv, PTL

\* Once it has heard of every change the bridge knows which agents it has in the
\* channel, whatever notifications and refreshes went by meanwhile, unless two
\* changes to one agent crossed, one fell into a refresh, or one was lost.
THEOREM BridgeAlwaysKnowsItsAgents == Spec => []BridgeKnowsItsAgents
<1>1. Inv => BridgeKnowsItsAgents
  BY DEF Inv, HeardInv, BridgeKnowsItsAgents
<1> QED BY <1>1, AlwaysInv, PTL
=============================================================================
