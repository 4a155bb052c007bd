# Formal model of Raltic

TLA+ modules, TLC configurations and TLAPS proofs about Raltic, a chat
workspace for people and agents that runs on Cloudflare Workers, Durable
Objects and a D1 database. The models are translated from the code; where a
comment, the schema or a document says something else, a run shows it
(section 6).

1. [The system](#1-the-system)
2. [What is hard about it](#2-what-is-hard-about-it)
3. [Modules and the code they model](#3-modules-and-the-code-they-model)
4. [Runs, bounds and fairness](#4-runs-bounds-and-fairness)
5. [Proofs](#5-proofs)
6. [Disagreements found](#6-disagreements-found)
7. [Not modelled](#7-not-modelled)
8. [Plan](#8-plan)

Paths are relative to the repository; `chat-room.ts` is
`packages/chat-room/src/chat-room.ts`, `x.ts` of the API is
`apps/api/src/routes/x.ts`.

## 1. The system

| component | state | operations | talks to |
|---|---|---|---|
| **ChatRoom**, one Durable Object per channel (`chat-room.ts`) | storage: `meta.next_seq`, `idem`, `pending_writes`, the alarm; memory: `nextSeq`, the WebSocket sessions | send over a socket, `/internal/send`, `/internal/seed`, `/internal/notify`, `/internal/kick`, upgrade, history, typing, partials, `alarm()` | D1 (membership look-ups, flush), sockets, UserGateway, RalticAgent |
| **UserGateway**, one per user (`user-gateway.ts`) | sockets of tabs and bridges, presence subscriptions per socket, the bridge leader | upgrade, notify, presence subscribe/unsubscribe, leader election and broadcast | WorkspacePresence, D1, KV |
| **WorkspacePresence**, one per workspace (`workspace-presence.ts`) | counts of open tabs per user, subscribed gateways; memory only | note, subscribe, unsubscribe, snapshot | UserGateway |
| **API worker** (`apps/api/src`) | none of its own; D1 rows: channels, members, messages, tasks, agent runs, invites, read markers | REST routes, WS token minting, cron jobs (`scheduled.ts`) | D1, KV, R2, all Durable Objects |
| **RalticAgent**, one per cloud agent (`packages/agent`) | conversation, schedule, sandbox handle, turn mutex | `onInvoke`, tools, `alarm()` | ChatRoom, D1, sandbox |
| **Bridge** (`packages/bridge-core/src/bridge.ts`) | channel sockets, pending dispatches, leadership, tokens | connect, reconnect, token refresh, dispatch | ChatRoom, UserGateway, AgentManager |
| **AgentManager** (`agent-manager.ts`) | per agent: process, busy flag, queue, current run | start, deliver, drain, exit, restart, report a run | child processes, API |
| **Web client** (`apps/web/src`) | messages of the open channel, read marker, socket | load, live frames, send, reconnect, mark read | API, ChatRoom, UserGateway |
| **Policy** (`packages/auth-core/src/policy.ts`) | none (a memo per request) | canRead, canUpdate, canAddMember, ... | D1 |
| **Schema** (`packages/db/src/schema.ts`) | unique indexes and foreign keys the routes rely on | - | - |

What makes each one correct:

- *ChatRoom*: every accepted message has a seq of its own, without holes; a
  retried send is stored once and told the same seq; nothing accepted is lost
  on its way to D1, D1 fills in order, and a replay undoes no edit.
- *Direct messages*: two people who open their conversation at the same time
  end up in one channel, and nobody is left in a channel that is pruned.
- *Tasks*: numbers of a channel are unique and dense, the message in the
  channel names the task under its real number, and task, message and runs
  end up linked.
- *Presence*: whoever has an open tab is shown as online, and only they.
- *Bridge and AgentManager*: a message is dispatched once, by one bridge; a
  dispatch is queued, running or reported, never forgotten.
- *Agent runs*: a run that ended keeps its outcome; every run ends.
- *Channel access*: who may not read a channel does not go on listening to it,
  and who may is connected in the end.
- *Clients*: what was sent is shown, in order, and the unread marker agrees
  with what was seen.

## 2. What is hard about it

A Durable Object runs one event at a time, but lets in other events at every
`await` of something that is not its own storage; the workers have no lock at
all and D1 has no transaction over a query and a later statement. So almost
every handler is a check, an await, and an update of what may have changed:
the pair of a direct message before its creation, the highest task number
before the insert, the status of a run before its update, the count of a user's
tabs before the last one leaves. On top of that an object can be evicted at any
await, D1 may execute a statement whose answer is lost, clients retry, messages
are known to sockets before they are in the database, and most of what one part
tells another (kicks, notifications, presence, leadership) is sent once and
never acknowledged. `PROJECT.json` lists these hazards line by line with the
properties that cover them; the two without one (`chat-room.ts:573`,
`workspace-presence.ts:157`) say why.

## 3. Modules and the code they model

### ChannelLog and ChatRoom

`ChannelLog` is what a ChatRoom object promises: a log that only grows, in
which a keyed message stands at most once, and answers that name the position
at which the message stands. It knows of no storage, alarm, crash or database.

`ChatRoom` is the durable half of the object:

| TLA+ | code |
|---|---|
| `meta`, `idem`, `pending`, `alarm` | the SQLite tables and the alarm of the object |
| `nextSeq`, `flushing` | memory: the counter, and the batch the running `alarm()` awaits |
| `wire`, `messages` | inserts sent to D1, and D1's messages of the channel |
| `Receive`, `Refuse` | arrival; 403 or 423 after the look-ups |
| `Duplicate` | the early return on a known key, which schedules no flush |
| `Accept` | counter, row, key and `scheduleFlush` of `handleSend`, `handleInternalSend`, `handleSeed` |
| `Answer` | ack frame or response, after the writes are durable |
| `AlarmFires` | `alarm()` up to its `await`: select a batch, delete the poison rows, send the insert |
| `D1Insert` | D1 executes it, perhaps after its sender gave up |
| `FlushOk`, `FlushFail` | `alarm()` after the insert returned or threw |
| `Rewrite` | PATCH and DELETE of a message that is in D1 |
| `Crash`, `StoreThenCrash` | eviction and construction; with `CoalescedWrites = FALSE` also between the rows of a call and its `setAlarm` |

The stretch from the look-up in `idem` to `scheduleFlush` contains no await
and is one step. Left out: alarm delays and the back-off (an alarm is set or
not), failures of the object's own SQL, hibernation (a restart without calls
in progress), and the sockets. `CoalescedWrites` is a constant because the
code relies on it silently: the rows are written before the `await` of
`getAlarm` and the alarm after it. With `FALSE` a crash in between leaves rows
that no alarm drains until the next send to the channel; nothing in the
repository promises otherwise, so this is recorded as a hazard and the drain
properties are stated for `TRUE`.

### OpenDm

`POST /api/v1/dm`. Each query is a step: `findPair`, the name look-up, the
batch insert, the second `findPair`, each `DELETE` of `pruneLosers`, the
answer. `stamp` is the `created_at` that the request reads before its name
look-up. `Die` ends a request at any await. `Remove` is
`DELETE /channels/:id`. The unique index on (server, name) is `NameIsFree`;
the channel is named after the peer. Left out: the peer's look-up (a missing
peer or the caller itself is answered before any state changes).

### TaskLinks

`POST /api/v1/tasks`, the creation of an agent run for the message that
announces the task (`agent-runs.ts`), and the flush that brings this message
to D1. `ReadMax`/`Insert`/`Collide` are the loop over the unique index
(channel, number); `Send` the call of the ChatRoom object; `LinkTask` and
`AttachRuns` the two statements of `backfillTaskMessageAndRunLinks`;
`ResolveTask` and `InsertRun` the two of a run's creation. `LinkTaskFails` is
the first statement failing on the foreign key `tasks.message_id`, which D1
enforces. The branch that answers 409 after the last attempt is unreachable
(the last collision throws), so `crowded` stands for the 500. A run whose
trigger is not in D1 yet is inserted all the same, with the caller unknown;
the repository tests this on purpose (`agent-runs.test.ts`).

### AgentManager

`packages/bridge-core/src/agent-manager.ts` for one agent, together with what
the adapters of `packages/agent-runtime` promise it, the run file the `raltic`
CLI writes, and the PATCH handler of `agent-runs.ts`. An action is what runs
between two awaits.

| TLA+ | code |
|---|---|
| `session`, `entry`, `spawning` | the agent's slots in `sessions`, `entries`, `spawning` |
| `ent` | every `AgentEntry` made: busy flag, current run, queue; the listeners (`wired`), the child (`live`) and the turns it works on (`inbox`) |
| `restarts`, `stopping` | calls of `restartForAgent` and `disposeEntry` that await |
| `ctx`, `wire`, `server` | `current-run.json`; PATCHes under way; `agent_runs.status` |
| `Dispatch`, `CreateRun`, `SendToAgent` | `dispatchInboundMessage`: the POST, then `sendToAgent` |
| `SendText`, `Unwind` | `_sendNow` after its PATCH, and its `catch` after that one |
| `Reply`, `TurnComplete`, `ChildExits`, `TurnFails`, `NeedsRestart` | events of the child and their listeners |
| `FinishRestart`, `AbandonRestart` | `restartForAgent` once the old child is down: the session object is the same, or was replaced |
| `RefreshKeeps`, `RefreshRemoves`, `FinishStop` | `reconcileAgents`: a new session object; `stopAgent` |
| `Deliver`, `Lose` | the PATCH is handled, or its attempts are used up |

A spawn has no await at which something else could run, so it is part of
`SendToAgent` and `FinishRestart`. `runtime` is `"claude"` (one child for many
turns) or `"hermes"` (a process per turn, like OpenClaw). Left out: the Codex
runtime, whose `send` awaits the turn but turns its failure into a
`turn_complete`; the CLI's own PATCH (it stores the output of a running run
early and changes no status); terminal errors that precede a `turn_complete`;
spawns that throw; `shutdown()`; and channels with several agents. There `dispatchInboundMessage` awaits the
agents one after the other, so an agent waits for the queue of the one before.

### AgentRuns

The rows of `agent_runs` of one agent and everyone who writes them.

| TLA+ | code |
|---|---|
| `status`, `out`, `fresh` | a row's status, whether it has an output message, whether it was updated in 24 h |
| `Create`; `PatchRead`, `PatchWrite`, `PatchAnswer` | POST; the three statements of PATCH in `agent-runs.ts` |
| `Ask`, `Flush` | what the bridge reports; the reply of a run reaching D1 |
| `Dispatch`, `Invoke`, `Returns`, `CallBreaks`, `TellFailed` | `dispatchToAgents` (`lib/agent-dispatch.ts`) and `dispatchToCloudAgents` (`chat-room.ts`): insert, call, what the call says |
| `queue`, `HoldsMutex`, `Leaves` | the `StateMutex` of `raltic-agent.ts` |
| `Begin`, `Refuse`, `Work`, `NoModel`, `StreamEnds`, `Post`, `Save`, `Report` | `runInvocation`, from one await to the next |
| `Schedule`, `Cancel`, `AlarmPops`, `AlarmRuns` | the scheduling tools and `alarm()` |
| `Age`, `SweepSelects`, `SweepUpdates` | 24 h without an update; `runAgentRunSweeper` |
| `Crash` | eviction of the agent's object |

Updates of the object and of the dispatcher have no condition on the status;
the route's has. That is why a cloud run that the sweeper gave up may still
complete, and a bridge run may not. `trouble` names the runs whose bookkeeping
something interfered with: an update that failed and was swallowed, a
dispatcher whose call broke, a sweep that hit a row which had ended since.

`NoModel` is the way out between the user turn, which is stored at
`raltic-agent.ts:147`, and the `try` of line 213: `resolveModel` (line 196)
throws without `LLM_API_KEY` (`ai-gateway.ts:45`). Nothing is posted, saved or
reported, the mutex is released with the user turn unanswered, and the caller's
call throws. A failing `setState` counts as a `Crash`. `Cut` are the invocations
that ended in one of these ways; the history excepts their turns by name. A
dispatcher updates a row on an error only if it knows its id (`named`, against
`logged`: the row exists), so a row that the object inserted itself stays
running until the sweeper finds it. In the initial states jobs may be scheduled
already, by earlier turns.

Left out: compaction (it shortens the history and may put a summary before it)
and reflection, the sandbox, token amounts (a quota is a choice of `Refuse`),
and which agents a text mentions.

### Presence

Each tab is a socket of its user's `UserGateway`; `jobs[t]` are its handlers,
each in its own place between two awaits, so that handlers of one tab and of
several tabs interleave as they do in the object.

| TLA+ | code |
|---|---|
| `noted`, `count` | `presenceSubs` of an attachment, `presenceSubCounts` |
| `conns`, `subscribers`, `bcast` | `users` and `subscribers` of `WorkspacePresence`, and the broadcasts it awaits |
| `Subscribe`, `Unsubscribe` | the page's frames (`use-agent-activity.tsx`) |
| `Member`, `AfterNote`, `AfterSub`, `AfterLess`, `AfterUnsub`, `Fail` | the handlers of `user-gateway.ts` after each call |
| `Close` | `webSocketClose`, `webSocketError` |
| `Note`, `Sub`, `Unsub`, `Settle`, `DeliveryFails` | `noteConnection`, `subscribe`, `unsubscribe`, `broadcast` |
| `Deliver` | `handlePresenceBroadcast` and the page's listener |
| `Evict` | the object loses its memory; the gateways' sockets live on |

`mark` and `missed` are what the properties except by name: handlers of one
tab that overlap (two frames of one tab), a lost call, an eviction, a last tab
that leaves while another subscribes, and what a page dropped, or could not
hear, since its last snapshot.
`callPresence` never looks at `r.ok`, so an answer with an error status counts
as success; in the code only a wrong secret gives one, and it is left out, as
is the alarm that prunes users long offline.

### BridgeLeader

`broadcastLeaderStatus` of `user-gateway.ts` and what `bridge.ts` does with
`leader_status`. A pass (`NewPass`, `Visit`, `Tell`) looks at the sockets it
found when it began, oldest first, awaits a KV look-up for each, and tells all at once;
several passes can be under way. A connection is its index in `conn`, which
stands for `connectedAt` (two connections of one millisecond are left out). A
look-up that fails lets a revoked key pass, as in the code (`LookedUp`).

A bridge can have several gateway sockets. `Fire` is the reconnect timer of
`bridge.ts:412`, which nothing clears and which does not look at what the bridge
has by then; `Refresh` is `doRefreshToken`, which opens a socket whether or not
there is one to close (`bridge.ts:286`). `up` are the connections open at the
bridge and `leaving` those it closed and still reads; it beats on the first and heeds
a status on any of both (`Status`; the listener of line 364 does not ask which socket it
is), but only the close of `gw[b]`, the code's `gatewaySocket`, makes it forget
(`SocketCloses`, `Refused`; line 407). `heard` is `leaderKnown` together with
the connection that the status came over, `leader` is `isLeader`. The one
simplification: a timer waits while a socket is being opened, so a bridge opens
one at a time.

`Send`, `Receive` and `Status` carry messages to the bridges' channel sockets,
into `pendingDispatches` and to their agents; `given` is a sequence, so a
message that one bridge dispatches twice is seen. A bridge has one channel
socket here (`ChannelAccess` has twins of those). `Nap` and `Wake` are a laptop
that sleeps with its sockets half open. `doubt` are the messages that were under
way when a bridge that had been told changed its mind or forgot, while two
bridges led or all observed, or that a socket took along. The first status,
which settles what was held back, puts nothing in doubt. The specification is
`LeaderSpec`, so that one module of proofs can extend it and `Presence`, the
other part of the object.

### ChannelAccess

Who hears a channel: `private` and `members` are the rows in D1, `requests` the
routes `join`, `members`, `leave` and `visibility` of `channels.ts` statement by
statement, `kicks` and `notes` what they send off at the end without waiting
(`notify.ts`). `Kick` is `handleKick`. A tab mints a token (`Mint`, `ws.ts` and
`policy.ts`), is upgraded without another look at D1 (`Upgrade`), and
reconnects (`Drop`, `Reopen`, `use-channel-socket.ts`). The owner's bridge has
`map` (`channelToAgents`), `sock` (`channelSockets`), `twins` (sockets that
were replaced in that map while they lived), `timers` and the refresh every six
hours (`RefreshAsk`, `RefreshDo`). The web sockets of the owner and those of
the bridge are different ones and are kicked by different parts of
`handleKick`. Left out: archiving, which sets a flag and kicks nobody, typing
and partial texts, and machine keys.

### ChannelView

What the tabs of a person show of a channel and how far it is read:
`message-area.tsx`, `use-channel-socket.ts`, POST `read`, and the parts of the
object and of the message routes that feed them. `Cast` and `Deliver` are
`broadcast`, which awaits KV at each bridge socket and so lets two broadcasts
overtake each other; `Change`, `ChangeUpdate`, `ChangeTell` are PATCH and
DELETE of a message; `Fetch` and `Loaded` the history, which *replaces* what
live events had shown; `Hear` is `handleNew` and `handleUpdate`; `ReadClamp`,
`ReadUpdate`, `ReadBack` the three statements of POST `read`, and `Note` what
the gateway tells the tabs. `gaps[t]` are the messages of which a tab missed
something in a named way. `ChangeUntold` is one of them: `broadcastMessageUpdate`
logs a notification that fails and the route answers ok (`notify.ts:50`), so the
change is in D1 and no tab hears of it. Left out: partial texts of agents, reactions,
attachments, scrolling and paging back.

## 4. Runs, bounds and fairness

| run | instance | shows |
|---|---|---|
| `chatroom_safety` | a send, its retry and a seed of two rows; one legacy row; batch 2, 2 attempts; 1 crash, 3 faults, 1 edit; `CoalescedWrites = FALSE` | `TypeOK`, `DrainedInOrder`, `EditsSurviveReplay`, and that ChatRoom implements ChannelLog |
| `chatroom_drain` | the same with 1 fault and `CoalescedWrites = TRUE`, fair | `AlarmCoversPending`, `AnsweredReachesD1` |
| `dm_race` | three requests of one pair from both sides, one of another, one clock tick, one deletion | `OldestStands`, `OneAtRest` |
| `dm_keeper` | the same without deletions | a violation, section 6 |
| `tasks_race` | three creations, two attempts each, two runs for one of them, one earlier task | `NumbersDense`, `OnlyInFlightRunsUnlinked` |
| `agents_safety` | three messages, both runtimes, two restarts, two refreshes, one failing API call | `ClaudeTurnsAreSerial`, `OutputOfOwnTurn`, `NoOrphanChild`, `RunsAreTended` |
| `agents_settle` | two messages, Claude, as many restarts and refreshes, `QuickReturn = TRUE`, fair | `RunsSettle` |
| `agent_runs` | a message and a job, new or left by an earlier turn, either mode, batch 1, three faults, fair | `AckIsTrue`, `CompletedIsVisible`, `AnsweredIsCompleted`, `HistoryInTurns`, `BridgeOutcomeStands`, `RunsEnd`, `JobsRun` |
| `presence_tabs` | two tabs of one user with three frames and one, a tab of another with one, one fault | `NoPhantomSocket`, `OnlineWithATab`, `OpenTabsHear`, `ViewsAreTrue` |
| `bridge_elect` | two bridges, mishaps to one, one message and one mishap or two mishaps, three connections, two passes at once, one status on its way per socket | `ElectionIsExact`, `OnceUnlessInDoubt` |
| `channel_access` | an owner with two agents, two requests, one mishap, fair | `LurkersAreNamed`, `BridgeKnowsItsAgents`, `EveryoneHears` |
| `channel_view` | one tab, two messages, one change, two reads, one mishap | `ViewsAreFaithful`, `MarkerOnlyAdvances` |

*Why the bounds are enough to be interesting.* In `chatroom_safety` four
message rows and a legacy row fill more than two batches, so a batch can be
left over; two attempts and three faults let a row become a dead letter while
another is retried; one crash can fall into any of the calls or flushes, and
the insert it interrupts may be executed before or after it. Retry and first
attempt meet in every order. In `dm_race` three requests of a pair let a third
prune while two disagree, and one clock tick gives equal and different stamps.
In `tasks_race` the third creation can lose to both others and run out of
attempts. In `agent_runs` a message and a job are two invocations that queue for
the mutex, and with a batch of one a sweep can be behind; three faults let an
insert, a call and a report fail in one life of a row, or a crash follow them.
A job that an earlier turn left scheduled lets an invocation follow one that was
cut short by a crash or for want of a key.
Several requests of a bridge for its row are under way at once.
In `presence_tabs` a tab with three frames can close, or leave and come back,
while its own subscription awaits; the second tab of the user makes the counts
go to two and back, and the other user watches. One fault is a lost call, a lost answer, a
delivery that fails or an eviction. In `bridge_elect` two passes can overlap at
every socket. One of the two bridges has mishaps (a sleep, a lost or refused
socket, a refresh, a revocation, a look-up that fails); the other's socket stays
up. Two events are a mishap and a message, or two mishaps: a lost
socket and a refresh before the timer leave the bridge with two live sockets,
beside the third of the other. Twins and a message together need a third event
and are out of TLC's reach here; the proofs of section 5 cover them. In
`channel_access` two requests (of six kinds) overlap at every statement while
kicks, notifications, timers and a refresh are on their way; two agents are
needed for the bridge's socket to be shut by the kick of one. In `channel_view`
two messages suffice for gaps, overtaking and a marker that could move back;
the mishap may be that the broadcast of the change fails;
other devices of the person are no more than further read requests. Tabs share
nothing but the marker, so one is enough for what a tab shows.

Deadlock checking is off in all runs: the behaviours are finite sets of calls
and stop when all are over.

*Fairness* is assumed in four runs. In `chatroom_drain` the Cloudflare runtime
fires a set alarm and runs `alarm()` again when it was interrupted
(`AlarmFires`), D1 executes the insert that `alarm()` is waiting for
(`D1Answers`), and `alarm()` goes on after it (`FlushOk`). Callers are not fair:
they may never come. `MaxFaults < MaxFlushAttempts` is the assumption under
which a message cannot become a dead letter. In `agents_settle` callbacks that
are due run, API calls return or fail, a shutdown ends (it escalates to
SIGKILL), and a child that works on a turn ends the turn or dies. A child is not
fair otherwise: it need not die, reply or ask for a restart. In `agent_runs`
requests are handled, the object works on what it has (a stream ends: the task
timeout aborts it), time passes (`Age`), and the alarm and the cron job run;
nobody needs to write, report or fail. In `channel_access` requests, kicks and
notifications that are not lost arrive, a tab that may read gets its token in
the end (it retries every few seconds, hence `SF`), the upgrade of a bridge
whose D1 look-up succeeds again and again succeeds (`SF`, against sockets
that drop or are replaced each time), timers go off, and six hours pass.

Every property has a mutant: an operator next to the one it replaces (named
"Faulty variant" in the modules) that a plausible slip in the code would give,
and under which TLC finds the property violated.

## 5. Proofs

TLAPS checks the following for all values of the constants; the assumptions
are the `ASSUME`s of the modules.

**ChatRoom_proofs.** `TypeCorrect` from the inductive
`TypeInv = TypeOK /\ CounterInv /\ FlushingInv`: the counter in memory equals
the one in storage whenever an event starts (a crash cannot separate them),
and rows being flushed have an attempt left. `ObjectImplementsLog` (every step
is a step of `ChannelLog` or a stutter) adds `AgreeInv` (a seq in both buffer
and D1 holds the same message, and every seq is in one of the two or was a
poison row), `WireInv` (a late insert carries what the log has), `KeyInv` (a
key is known exactly if its message is in the log, at that seq) and
`ReplyInv`. `EditsSurvive` is an action property from the same types.
`DrainsInOrder` needs that a batch is a prefix of the live rows, and that what
is settled (in D1, dead or poison) stays so. `AlarmAlwaysCovers` assumes
`CoalescedWrites` and `Legacy < MaxPendingBatch`: a batch that holds only
poison rows returns without another alarm, so with fifty of them good rows
behind them would be left.

**OpenDm_proofs.** `DmTypeCorrect`, `OldestAlwaysStands`, `RaceResolves` from
one invariant: requests that have not inserted have no channel (so ranks are
stable), a pruner deletes only duplicates of a channel ranked before
(`PrunerInv`), and for any two channels of a pair some request has yet to look
again, is pruning the later one, or died (`ConvergeInv`). That a set of
requests has a least (`created_at`, id) is proved from the well-foundedness of
the naturals.

**TaskLinks_proofs.** `TasksTypeCorrect`, `NumbersStayDense`,
`MessagesNameTheirTask`, `AttemptsSuffice`, `RunsAttached`. The key is
`AttemptInv`: each collision of a creation means that a number at least as far
up is taken, and the number about to be inserted is the successor of a taken
one; so numbers stay dense and exhaustion means that many tasks came between.

**AgentManager_proofs.** `TypeCorrect` for both runtimes; `TurnsAreSerial`,
`NoChildIsOrphaned`, `OutputIsOfOwnTurn` and `RunsAreAlwaysTended` assume
`~QuickReturn`, as the run `agents_safety` does. With `QuickReturn`, an agent
that a refresh removed while its old child is still shut down for a restart may
be back before that restart is over; it then gets a second child next to the old
one, and only `RunsSettle` is checked of that. `RefInv` and `MapInv` say
what refers to what and which of the three maps may hold the agent at a time.
`ChildInv` is the heart: the one open restart is what dispatches wait for, and
every living child is in the map, being stopped, or the old one of an open
restart, so somebody shuts it down. From it `TurnInv` (a message that is between
its PATCH and its `send` finds an empty child, and is the only one; an idle
entry has neither turn nor message), from that `FileInv` (if the run file names
a run, it is the run of every turn that could reply) and with it the outputs.
`KeptInv` lists for every run who still has to close it, one disjunct per place
in the code; no step takes a run out of one without putting it in another.

**AgentRuns_proofs.** `FirstOutcomeStands`, `AckAlwaysTrue`,
`CompletedAlwaysVisible`, `AnsweredAlwaysCompleted` from one invariant. The two
modes keep apart (`ModeInv`): a bridge's agent has an idle object, and nobody
PATCHes a cloud agent's rows. `PatchInv` says what a PATCH has established at
each of its statements: once it has written a final status the row is final,
though perhaps by another writer, which its second look finds. `RunInv` ties
the stage of an invocation to its row and reply; `JobInv` and `CallerInv` keep
an invocation from starting twice (a popped job is not scheduled again and
stands once in the sequence; a dispatcher calls once), so a completed run is
never worked on again. `TypeCorrect` and `HistoryIsInTurns` add `ObjectInv`: an
invocation is in the mutex's queue exactly while it is in the object and stands
there once, only the first is past the mutex, and the last turn of the history
is open only while that first one works, or was cut off by a crash or for want
of a key (`Cut`).

**UserGateway_proofs, the bridge leader.** `LeaderTypeCorrect`,
`ElectionsAreExact`, `DispatchedOnce`, from `LeaderInv`. `PassInv`: what a pass
has seen and has yet to see is what is open, and what it found live is what is
live, or something changed since it began and it is `late`. `ToldInv`, per
connection: if nothing changed since the last pass to finish began, the last
status on its way over the connection is right, or else what the bridge
believes, if it heard last on this connection; so an election that finishes
later and is itself not late tells the same again, and one that is late takes
`decided` back. `OnceInv`: each bridge has a message at most once in one place,
its inbox, what it holds back, or what it gave its agents. `ClearInv`: a message
that is not in doubt has at most one bridge that was told to lead, which has
dispatched it or is about to; nobody else has, and a bridge that has settled it
was told. When all have, exactly one of them dispatched it, at one place.

**UserGateway_proofs, presence.** `TypeCorrect`, `NoPhantom`, `OnlineStays`,
`OpenTabsAreHeard`, `PicturesAreTrue`. The two bounds on `conns` are inductive
with `SerialInv` and `StageInv`: until two handlers of a tab overlap one runs at
a time, and what it read of the attachment before its await still stands, so the
stage of that handler alone says whether the tab is counted. Each step then
changes the set of counted tabs by one tab at most (`OneSetStep`), and `conns`
with it. `OpenTabsHear` looks at rest only; what is inductive is `CountInv` (a
gateway counts every tab that is listed, those on their way out excepted),
`UnsubInv` (while a last tab leaves the user has no other, listed or
subscribing) and `HearInv` (who is listed, or has its snapshot on the way, is a
subscriber). `ViewsAreTrue`, too, is about rest: `PictureInv` says at any time
that of each user a tab shows, and its snapshot says, what is so, or a broadcast
about that user has yet to reach the tab's gateway. It rests on `WaitInv`, that
each broadcast has a handler that waits for it, so at rest there is none.

The proof of `ViewsAreTrue` did not go through at first, and for a reason: a tab
whose unsubscribe failed is still in `presenceSubs` though its page dropped what
it showed; if it subscribes again and the re-snapshot fails, it shows nobody.
Two frames per tab were too few for TLC to see it. The run has three now, and
`missed` names the tabs that dropped their picture and got no other.

**ChannelAccess_proofs.** `TypeCorrect`, `LurkersAreAlwaysNamed`,
`BridgeAlwaysKnowsItsAgents`. `TabInv` and `BridgeInv`: a socket of somebody who
may not read is strayed, or a kick under way or one that a request has yet to
send will hit it. The bridge needs more than the property says: what counts is
the request of the agent that left last, and not the list of a conversion, which
spares the owner. `HeardInv`: whatever is on its way to the bridge about an
agent is the latest there is, or two changes of that agent crossed. `BootInv`:
the answer of a refresh is true of every agent that is clean or uncrossed.

**ChannelView_proofs.** `MarkerAdvances`. The marker and every clamped request
are bounded by what D1 has (`ClampInv`), which only grows; a marker that a tab
does not know of is about to be read back, on its way in a notification, or was
lost (`ToldInv`). Every number a tab marks comes from the room, which takes the
types of broadcasts, events and histories (`RoomTypes`, `TabTypes`).
`ViewsAlwaysFaithful` follows a message that a tab has missed nothing of
(`RightInv`): at most one broadcast and one untold change of it are under way,
and the tab will have it as D1 has it from that change, else from the broadcast,
else from the last event on its way, else it shows it. That holds while the
history is being loaded, too. `OnceInv` is that no message is shown twice, which
takes `AnswerInv`: a history has each message once.

**Only model-checked.** `AnsweredReachesD1`, `RunsSettle`, `RunsEnd`, `JobsRun`
and `EveryoneHears` are liveness under fairness and stay with TLC. Every
invariant, every action property and the refinement that a passing run checks is
a theorem.

## 6. Disagreements found

*With a run.* `dm_keeper`: the comment at `channels.ts:1148` says every
concurrent caller agrees on the keeper. `created_at` is taken before two awaits,
so a slow request can insert an *older* channel after another caller was
answered, and prunes that caller's channel.

*As named exceptions of the properties, or as actions of the models.* These are
what the code does; the properties say that nothing else goes wrong.

- **Direct messages.** The channel takes the peer's name in the name space of
  all channels, so the second user who opens a conversation with the same peer
  gets a 500 (`Reject`; `channels.ts:1133`, unique index `schema.ts:194`).
- **Tasks.** A run that looked its task up before the link and is inserted after
  the update stays unlinked, though `tasks.ts:175` says any run that raced is
  attached (the exception of `OnlyInFlightRunsUnlinked`). The UPDATE of
  `message_id` fails on its foreign key while the message is in the object's
  buffer (`LinkTaskFails`); `schema.ts:244` dropped the same key of attachments
  for this reason, and the route's test (`tasks.test.ts:334`) inserts the
  message first, which hides it.
- **AgentManager.** With Hermes or OpenClaw a turn that exits non-zero removes
  the entry, and only then `_sendNow` awaits a PATCH and drains the queue of *the
  agent*: a new entry in the middle of a turn gets a second one
  (`ClaudeTurnsAreSerial` speaks of Claude only). A restart forgets the run of
  the turn it cuts short, and one that a token refresh overtakes also drops the
  queue it carried over; such runs stay open until the sweeper finds them
  (named cases of `RunsAreTended`).
- **Agent runs.** The sweeper updates by id what it selected, so a run that
  ended in between becomes failed. The check at `raltic-agent.ts:121`
  fails fast for want of the gateway's address "rather than crashing inside
  resolveModel"; for want of the key it does throw there: the user turn it
  stored stays without an answer, and the row running until the dispatcher or
  the sweeper ends it. An error of the dispatcher's call marks a
  run failed that the object goes on with and may complete.
- **Presence.** After an eviction of WorkspacePresence users with open tabs are
  offline until they subscribe again: the comment there expects a reconnect,
  but the gateways' sockets live on. One failed delivery drops a subscriber
  whom the gateway still counts, with the same result. A last tab that leaves
  while another subscribes can take the new one out of the broadcasts. Changes
  between a snapshot and its arrival are dropped. A tab whose unsubscribe failed,
  and whose next re-snapshot fails too, is subscribed and shows nobody.
- **Bridges.** Two elections may overlap and the older speak last, until the
  next heartbeat elects again. A bridge with two live gateway sockets is told on
  one that it leads and on the other that it observes, and believes what it read
  last: it may silence itself, and nobody leads, for as long as both sockets live. What reaches a bridge while leadership changes may
  be dispatched twice or not at all. A reconnect timer that goes off after a
  refresh opens a second socket for a channel; the first is in no map, lives on,
  and both dispatch.
- **Channel access.** A token minted before a removal opens a socket after it.
  The kick of one agent closes the bridge's socket for all of them, and it comes
  back only with the refresh. Who read through an agent keeps a web socket when
  the last agent is removed. Sends over a socket do not look at the archive flag
  although `schema.ts:187` says archived channels are read-only.
- **Clients.** After a reconnect nothing fetches what was missed; the history
  replaces what live events showed while it loaded; an edit that was checked
  before a deletion brings the content back; a message seen before its flush
  is clamped by what D1 has and stays unread on the server. A change whose
  notification failed is never seen by a tab that is open.

## 7. Not modelled

`PROJECT.json` lists every component with what it leaves out. Left out for good:
adapters of child processes, sandbox handlers, mail, cryptography, the desktop
shell and UI pages (I/O without protocol state, and most of the repository's
lines, generated bundles among them), and routes that are one guarded row
write. Not modelled but possible: invites (a slot claimed by a conditional UPDATE
and given back when the insert fails), the replay of onboarding's seeds, the
shutdown of a whole bridge, reactions and attachments, a policy matrix as
operators, and the deletion of a channel or an agent as a whole (`agents.ts:387`
removes the memberships of an agent and kicks nobody).

## 8. Plan

Done: the log (`ChatRoom`), the check-then-insert races (`OpenDm`,
`TaskLinks`), dispatch on a laptop (`AgentManager`), the rows of runs
(`AgentRuns`), `Presence`, `BridgeLeader`, `ChannelAccess` and `ChannelView`.

Next: invites as a further module, and the pruning alarm of
`WorkspacePresence`.
