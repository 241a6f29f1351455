# A TLA+ verification of BananaClaw

BananaClaw runs agents in containers. A host process (Node, `src/`) routes
messages from chat platforms into sessions; a runner process (Bun,
`container/agent-runner/src/`) in a container per session feeds them to a model
and answers. Host and runner share SQLite files and one Unix socket. This
directory specifies the protocols that hold the two together, checks them with
TLC and proves their main safety properties with TLAPS.

Paths below are relative to the repository.

## 1. Inventory

| Component | State | Operations | Talks to |
|---|---|---|---|
| **Session link** `src/session-link.ts`, `src/session-link-durable.ts`, `container/agent-runner/src/session-link.ts`, `…/db/runner-state.ts`, `…/db/host-state.ts`, triggers in `src/db/schema.ts` | a journal on each disk, the receipts of what was applied, the socket, one event in flight in each direction | journal by trigger, send the head, commit, ack, nack, reconnect, `host.ready` | everything the runner and the host tell each other durably goes through it; its commits call delivery, the sweep and the conversation stream |
| **Container lifecycle** `src/container-runner.ts`, `src/container-admission.ts`, `src/container-runtime.ts`, `src/session-recovery.ts`, `src/container-restart.ts` | `activeContainers`, `wakePromises`, `recoveryPromises`; containers that outlive the host | wake, admit, evict, spawn, watch, recover, kill, adopt | router, UI and sweep wake; starts and stops the link's server |
| **Delivery** `src/delivery.ts` | in-flight and dirty sets, attempts, bounce counts; receipts in `inbound.db` | drain a session, retry, give up, bounce back, scan | called by the link's commits; calls the channel adapters |
| **Host sweep** `src/host-sweep.ts` | sweeps in flight, dirty set; tries and backoff in `inbound.db` | recover, wake, kill what is stuck, reset claims, fan out recurrence | container lifecycle, session databases |
| **Turns and steering** `…/turn-execution.ts`, `…/steering.ts`, `…/db/turns.ts` | phases of a turn, its inputs, edits of pending inputs | start, stop, settle, interrupt, edit, cancel | journaled over the link; delivery barrier |
| **Poll loop** `…/poll-loop.ts`, `…/db/messages-in.ts`, `…/db/messages-out.ts` | claims, sequence numbers, follow-ups | claim, answer, complete | provider, session databases |
| **Router, session manager** `src/router.ts`, `src/session-manager.ts` | session rows, message rows | route an inbound event, write it, wake | adapters, container lifecycle |
| **Conversation stream and UI** `src/ui/server/chat`, `src/conversation-events.ts` | revision of a stream | invalidate, re-read, push | link, delivery |
| **Scheduling, approvals, questions, agent-to-agent** `src/modules` | pending rows, recurrence | answer once, expire, fan out | delivery, sweep |
| **Circuit breaker, search index, typing, push, titles, setup, CLI, providers** | small or external | | |

What is hard, and where it bites, is the list `hazards` in `PROJECT.json`. In
short: both processes may stop between any two steps while the other goes on;
containers survive the host; every await of the host's event loop is a window
for another call on the same session; an adapter's acceptance cannot be made
atomic with its receipt; and much is repaired only by periodic scans.

What makes each component correct:

- *link*: events are committed exactly once and in order, none is lost, none is
  refused for the protocol's own fault, `host.ready` is true when it is read,
  and the journals drain;
- *containers*: one writer a session and no container the host does not know,
  but for those a failing command of the runtime made it lose; a listening server
  for each one it knows, every due message claimed;
- *delivery*: no message is sent twice but for a lost receipt, receipts are
  true, no commit is missed by a running drain, every due message settles;
- *sweep*: a claim is retried a bounded number of times, and a killed
  container's claims do not kill its successor;
- *turns*: a turn settles once, abandoned turns are interrupted once, an edited
  input is claimed in its old or its new text, never both;
- *sequence numbers*: two writers never use one number.

## 2. Plan

| Step | Modules | State |
|---|---|---|
| 1 | `OrderedJournal` (abstract), `SessionLink`, refinement and proofs | done |
| 2 | `ContainerLifecycle`, proofs | done |
| 3 | `Delivery`, proofs | done |
| 4 | `SeqAlloc`: the numbers of messages on both sides, forks, proofs | done |
| 5 | `HostSweep`: coalesced sweeps, claims, tries, backoff, orphan claims, proofs | done |
| 6 | `WarmQuery`: a provider query with its turns and the recovery of undelivered results, proofs | done |
| 7 | `InputTurn`: claims, steering, edits and cancellations, stop, crashes, interrupted turns, proofs | done |
| 8 | what each component promises the others, and that it keeps it: `SessionWriter`, `Outbox`, `MessageNumbers`, `TurnLedger`, `Inbox`, with refinements proved | done |
| 9 | recurrence fan-out, approvals | open |

How the components lean on each other. `HostSweep` and `SeqAlloc` carry events
between host and runner in sequences read in order; that is what
`UpIsOrderedJournal` and `DownIsOrderedJournal` show of the link. `HostSweep` and
`InputTurn` have one runner a session; that is `ContainersTakeTurns`, which holds
for a session the host has lost no container of (finding 3). A
composition that replaces those sequences by the whole of `SessionLink` is open:
it would multiply two state spaces and show what the refinement already says.

## 3. The modules

### SessionLink and OrderedJournal

`OrderedJournal` is what one direction promises: a writer appends, the peer
applies each event once and in order, and an event leaves the journal only
after it was applied. `SessionLink` is both directions with their sockets.

| State | Code |
|---|---|
| `upJournal`, `downJournal` | rows of `pending_runner_events`, `pending_host_events` |
| `receipts`, `rLast` | `applied_runner_events`; `applied_host_events.last_sequence` |
| `rSock`, `sentAt`, `hostReady` | fields of the runner's `SessionSignalClient` |
| `hConn`, `hInFlight`, `hReadySent`, `hDestroyed`, `hEnded` | the host's `SessionSignalServer` entry and its sockets |
| `backlog`, `toHost`, `toRunner` | the socket: queued connections and unread frames |
| `upLog`, `downLog`, `upApplied`, `downApplied` | history: everything journaled and committed |

Each action is one callback of one of the two event loops: a frame is read,
applied in its transaction, answered and followed by a flush in one step, as in
the code. `HostCrashAfterCommit` and `RunnerCrashAfterCommit` stop a process
between its commit and its acknowledgement. Not modelled: the live frames, the
rate limits and the suspended server (they appear as `HostDrop`), oversized or
unparsable frames (they end like a refused one), and the listeners called after
a commit. `HostAckTimeout` is a fault: the host's timer runs only while an answer
is under way, so it fires only when the other side is slower than it, and
`NobodyWaits` shows that nothing depends on it.

### ContainerLifecycle and SessionWriter

| State | Code |
|---|---|
| `container` | the runtime: what runs under which name, with the link version of its label; survives the host |
| `lost` of a container | history: the host left it running without a record of it |
| `active`, `wake`, `recovery` | `activeContainers`, `wakePromises`, `recoveryPromises`, the last two with the await each call has reached |
| `server` | sessions whose link server listens |
| `status`, `work`, `live` | `sessions.container_status`; what the session's tables hold due or claimed; active sessions |
| `quiet` | sessions with no signal in `IDLE_EVICT_GRACE_MS` |

`Wake`, `EvictionWaited`, `SpawnSetup`, `DockerRunCreates`, `DockerRunFails`,
`AttachWatcher` are `wakeContainer` cut at its awaits; `WatcherClosed` is the
`docker wait` handler, `WatcherFails` the same when the command fails and the
container goes on; `RecoverStopped` to `RecoveryClosed` are
`runRecoveryContainer`; `KillStuck`, `Restart` and `RemoveSession` are the callers
of `killContainer`. `HostStops` is a crash or shutdown. `HostStarts` is
`cleanupOrphans` with `adoptRunningContainers`: it keeps the containers of this
link version (`adoptable`), stops the others (`orphans`), and adopts one container
a session (`OneEach`). Any stop may throw, which leaves that orphan running; the
listing may throw, which leaves everything running; and the host may have been
upgraded, which makes every container an orphan. Assumed of the runtime, and said
in the module's head: a `docker run` client ends with its container, and one in
flight when the host stops takes effect by then or never.

A container that a failing command leaves running without a record is marked
`lost`. `SessionWriter` is what the other components rely on: the containers of a
session start when no other one runs. Its `writers` is `Running`, what the runtime
runs for each session and the host has not lost, whatever the host's maps say; a
host restart stops several at once. That nothing else is excepted is
`LostOnlyByFault`, which is proved. The other components are modelled with one
runner a session: they say nothing of a session with a lost container.

### Delivery and Outbox

| State | Code |
|---|---|
| `rows`, `due` | `messages_out`, and those whose `deliver_after` has passed |
| `receipt` | `inbound.db` `delivered`: none, delivered or failed |
| `inflight`, `dirty`, `drain` | `inflightDeliveries`, `dirtyDeliveries`, and each running `drainSession` with the messages it has still to send |
| `attempts`, `bounces` | `deliveryAttempts`, `bounceBackCounts`, forgotten at a restart |
| `sends`, `lost`, `failures`, `hinted`, `tried` | history |

`ChannelAccepts` and `RecordDelivered` are the two sides of the await in the
loop; `SendFails` and `RecordFails` are its catch block, `DrainThrows` the throw
out of the catch block; `DrainEnds` is the do-while on the dirty set; `Commit`
is `publishDurableEffects` calling the listener; `Scan` is `pollSweep`. Sends to
other agents and system actions are sends. An adapter that throws after the
platform took the message is `RecordFails`.

`Outbox` is delivery without its machinery: a message waits, is accepted, and gets
a receipt, or the acceptance is lost. `Fate` reads that off the code's state: the
receipt where there is one, else "accepted" while a drain awaits the write
of a receipt, else "waiting".

### SeqAlloc and MessageNumbers

Every message has a number `seq` the agent refers to it by: the host takes even
ones, the runner odd ones, each from the tables it can see.

| State | Code |
|---|---|
| `lastEven`, `hostIn`, `hostOut` | `host_sequence.last_even`, `messages_in`, `messages_out` as the host has them |
| `op` | the host between `nextEvenSeq` and the INSERT that uses the number |
| `hostEvents` | floor and message events on their way to the runner |
| `floor`, `runIn`, `runOut` | the runner's `sequence_floor` and its copies of both tables |
| `runEvents` | the runner's outputs on their way to the host |

`Allocate` is `nextEvenSeq`, which commits the floor by itself; `InsertIn`,
`InsertOut` and `HostCrash` are the three ways to go on. `WriteMessageOut` and
`ApplyRunnerMessage` are the two ends of an output, and the host's check is
`Acceptable`. `Fork` copies a session. `MessageNumbers` is the promise: its `rows`
are all rows of the four tables, its `known` those of the runner, through whose
numbers the agent speaks of messages.

### HostSweep

| State | Code |
|---|---|
| `status`, `tries`, `later` | `messages_in.status`, `tries`, and `process_after` in the future |
| `ack`, `old` | `processing_ack` as the host has it, and the claims that are too old |
| `bounced` | failure notices in `messages_out` |
| `pc`, `dirty` | `sessionSweeps`, `dirtySessionSweeps`, and the await a sweep has reached |
| `cont` | the session's container: off, booting, up, dead and not yet noticed, recovering |
| `rack`, `journal` | `processing_ack` as the runner has it, and what it has journaled |

A sweep is cut at its two awaits: `BeginSweep` or `BeginRecovery`, then
`RecoverySucceeds` or `RecoveryFails`, `PassAfterRecovery`, `WakeSpawns` or
`WakeFails`, and `EndSweep`, which runs it again when it was asked to. `Pass` is
one pass over the claims, with the stuck decision (`KillAndReset`,
`KillSilent`) and `Reset`, which is `resetStuckProcessingRows`. `HostRestart` adopts
a container that still runs and finds out about one that does not.

### WarmQuery and TurnLedger

One call of `processQuery` with `DeliveryRecovery`: a provider's event stream
that stays open between turns.

| State | Code |
|---|---|
| `asked`, `ended`, `aborted`, `open` | the prompts the provider has not answered, and how the stream ends |
| `queue`, `turn`, `turnActive` | `turnBatchQueue`, `execution.current`, `turnActive` |
| `rec` | the fields of `DeliveryRecovery` |
| `mcp` | content rows that tools wrote since the last boundary |
| `failed`, `resultSeen` | `lastProviderError`, `resultSeen` |
| `outcome`, `told` | the `turns` row, and what the user read |

A result is a class of text (`Texts`) or one of the empty kinds, limited to what
each provider can yield. `OnText`, `OnEmpty` and `OnReplies` compute what the
recovery object becomes and which corrective prompt is pushed; `ResultEvent` applies
it with the rest of the result handler. A `Result` answers the oldest prompt; a
`Compaction` is the result Claude yields in the middle of an exchange
(`claude.ts:741`), which the handler takes for the end of it. `compacted` is
history: a compaction has split an exchange, and the provider has not been found
idle by a prompt since. Everything else may come at any moment:
tools, errors, follow-ups, a task or command that closes the stream, the runaway
guard, the user's stop, a throw. `TurnLedger` keeps only `outcome` and `told`: turns
begin in order, and each is settled once, together with what its user reads.

### InputTurn and Inbox

The same loop seen from the inputs, with the native provider, which alone takes
steering. Durable state (rows, edit requests and their receipts, claims, open
turns, what the provider has stored) is kept apart from the memory of the
container, so that `Crash` and `Boot` are what they are in the code.

| State | Code |
|---|---|
| `row`, `text`, `request`, `answer` | `messages_in`, the edit and cancel requests and their receipts |
| `ack`, `claimed`, `disposition`, `openTurns` | `processing_ack`, `claimed_inputs`, the input's disposition in `session_state`, unsettled rows of `turns` |
| `ingested` | `applied_steering` in the provider's store |
| `pc`, `turn`, `turnActive`, `finishing`, `ended`, `halt`, `consumed` | locals of `runPollLoop` and `processQuery` |
| `accepted`, `declined` | `SteeringSession` |
| `prov`, `prompt`, `buffer`, `prepared`, `unsaid` | the native provider |

`AnswerRequests` (`processPendingInputEdits`) is part of every poll;
`MainPoll`, `OfferPoll`, `FollowUpPoll` and `ClosingPoll` are the polls; `Take`,
`Prepare`, `Apply`, `Acknowledge`, `ProviderResult`, `ProviderFails` and
`RetryableError` the provider; `CommitFails` the failed transaction of a request,
which aborts the query; `FinishResult`, `Settle`, `StopTurn` and `StreamOver` the end of a
turn. `Inbox` is the user's view: `cancelled` are the rows a cancellation has
completed, `read` the texts of an input the model has seen, `done` the inputs
acknowledged as completed; a request takes effect in one moment or not at all.

## 4. What the runs check

| Run | Instance | Shows |
|---|---|---|
| `link` | 2 sockets, 2 events up, 2 down, one kind of payload refused, receipts of one event kept, 2 faults | what is refused, when `host.ready` is true, that neither side waits for the other (`NobodyWaits`), that each direction implements `OrderedJournal`, and that the journals drain |
| `link_reconnect` | violation | finding 1 |
| `container` | 2 sessions, room for one container, 2 faults | the containers of a session take turns (`SessionWriter`) and are tracked unless lost, tracked ones are served, a due message is claimed |
| `container_budget` | violation | finding 2 |
| `container_writers` | violation | finding 3 |
| `delivery` | 3 messages, 2 callers, 2 attempts, 1 fault | receipts and hints, delivery implements `Outbox`, and every due message settles |
| `seq_safety` | 3 messages of the host, 2 of the runner, numbers to 6, one fork | the numbers are `MessageNumbers`; an output is refused only above an unused number |
| `seq_rejected` | violation | finding 4 |
| `sweep` | one message, 2 tries, 2 crashes or hangs, 3 faults | tries, reported batches, a completion the host knows is final, every message settles |
| `warm_query` | two turns, each of the providers | corrective prompts, follow-ups, notices, turns are settled as in `TurnLedger`, every turn settles |
| `warm_silence` | violation | finding 5 |
| `turn` | 2 inputs that may be prompts or steering, 2 crashes | requests as in `Inbox`, stops, steering, one open turn, every input completes unless a turn is stranded |

Bounds. Two sockets are the old one and the one that replaces it. Keeping the
receipts of one event makes every replay older than that meet the pruned table.
Two sessions with room for one container make every spawn of the second an
eviction or a deferral. `MaxAttempts` is 2 instead of 3 and the cap of
bounce-backs 1 instead of 3: first, last and one past the last attempt are all
reached; for the same reason `MaxTries` is 2 instead of 5. With three even
numbers in play one can be used, one burnt and one in flight. A sweep treats
messages independently but for the container they share, so one message is
enough to spend its tries, hang a container twice and meet three faults. Two
turns are one that went wrong, or was split by a compaction, and one that follows
it in the same stream; the theorems hold for any number. Two inputs are a running turn's own and one that steers, is edited,
cancelled or waits; two crashes are one during a turn and one during the
recovery from the first. Faults are bounded because each is a crash, a failed
command or a lost connection that the code does not cause; the safety theorems
hold for any number of them. `CHECK_DEADLOCK FALSE` is set because a bounded run
may stop when its events, arrivals and faults are used up.

Some invariants of the modules are not run, because a property that is run says
more: a refinement of `OrderedJournal` includes `ExactlyOnceInOrder` and
`NothingLost`, `ContainersTakeTurns` includes `SingleWriter`, `ImplementsOutbox`
`NoDuplicateSend`, `NumbersAreKept` `SeqNamesOneMessage`, `RequestsAreAtomic`
`RequestsAreHonoured`. They stay as steps of the proofs, and so do
`NoticeAfterLastTry` and `RecoveryRunsOut`, which hold on the instances as well.

Every property has a mutant of the code that violates it (`mutants` in
`PROJECT.json`); the mutated operators are in the modules, marked as such.

### Findings

1. *A reconnect need not replay the head.* `docs/session-link.md:224` says it
   does. `handleConnection` accepts a new connection when the old socket is
   destroyed; until the old one's `'close'` runs, `hostInFlight` names the old
   attempt, so the flush of the new connection sends neither the head nor
   `host.ready`, and the `'close'` of a replaced socket does not flush either.
   The runner's 10 s timer ends the connection and the next one replays;
   `NobodyWaits` shows that this timer is armed whenever this happens.
2. *The budget is not charged for spawns in flight.* `decideAdmission` sees
   `activeContainers`; a wake that was admitted and awaits its `docker run` is
   not in it. Two wakes are admitted into room for one.
3. *A session may have two containers.* `docs/db.md:23` says every SQLite file
   has exactly one writer, and `container-runner.ts:688` names the second container
   as what adoption is there to prevent. When the `docker wait` of a running
   container fails, its handler deletes the entry and leaves the container running
   (`WatcherFails`); when a stop of `cleanupOrphans` throws, or its listing does,
   the container is left running too (`HostStarts`). In each case the next wake
   starts another container, which writes the same runner state.
4. *The runner's next output may be refused.* `docs/db-session.md:150` says the
   host applies the odd number the runner assigned. `nextEvenSeq` commits a
   number and journals it before the row it is for; when that row is not
   inserted (a duplicate id is ignored, the host stops), the runner numbers above
   it, and `applyMessage`, which looks at rows only, refuses the output until the
   host inserts another row.
5. *A turn may end in unexplained silence.* `poll-loop.ts:1429` promises one
   notice to a turn that delivered nothing. A text result whose blocks are all
   dropped, being empty or duplicates, is neither nudged, nor an empty result, nor
   the end of the stream; the turn is recorded as silent and nothing is said.

Finding 3 is why the properties of the containers except the lost ones. None of
the others breaks the safety properties above.

One more divergence has no run of its own, because the properties state its
exception. `poll-loop.ts:1037` says "All providers wait for the prior result
boundary; push acceptance alone must never promote input while the preceding turn
is active". Under Claude a compaction yields a result in the middle of an exchange:
the handler drains the batch, may nudge for a reply, or settles the turn while the
exchange goes on, and the next follow-up is pushed into it. `NoRetryAfterTools` and
the second half of `IdleBetweenTurns` hold until a compaction splits an exchange
(`compacted`), and under every other provider (`OnlyClaudeOverlaps`); the other
properties of `WarmQuery` hold with compactions at any moment.

Smaller disagreements, met while modelling and not given a run: `wakeContainer` is
documented to return `true` on a successful spawn, and does so when `docker run`
exits non-zero, because `spawnContainer` then returns normally; a message without
an adapter or without routing is recorded as delivered and nothing was sent
(`delivery.ts:353`, `delivery.ts:470`), which the model counts as a send; the head of
`host-sweep.ts` says it never writes to `outbound.db`, which it does (orphan
claims, notices); a kill for one old claim resets all claims of the container;
when `docker stop` and `docker kill` both fail, the claims are deleted all the
same while the container goes on (`stranded`), so a message that failed with a
notice may still be completed by a late acknowledgement, as it may when its
completion was still queued in the journal of the container that was killed;
`host-sweep.ts:390` says that the notices are written "so a dead-container
failure is never silent", but the message is marked as failed first, in another
database, and when the second write fails nothing repeats it; a message that crashes
its container before a claim reaches the host is charged no try;
`pushMalformedToolNudge` and `pushDeliveryNudge` ignore the answer of `push()`;
`abortRunaway` does nothing once a command has ended the stream; the runaway
notice says "before it could reply" even after a tool sent a reply.

## 5. Fairness

Only what an event loop, the operating system or a timer in the code brings
about is fair; faults, kills, arrivals and early timers never are.

- *link*: each process reads what has arrived, the runner's timers fire, `'close'`
  events run, a stopped process is started again and the runner reconnects (its retry
  timer). The host's acknowledgement timer is not needed for `EventuallyDrained`
  and has no fairness. Dropped connections, crashes and timeouts that come before
  an answer under way are bounded by `MaxFaults`.
- *containers*: the awaits of a wake and of a recovery end (`HostStep`), a
  connected runner works off its claims, a quiet period passes, a stopped host
  is restarted by its service manager, and the 60 s sweep wakes a session with
  due messages that has nothing to recover (`SweepWakes`). The router's wake is
  not fair: it may be the last one and be deferred.
- *delivery*: `main` sets an adapter, the minute scan returns, an adapter call
  ends one way or the other, a drain goes on. Commits are not fair.

- *sweep*: the sweep's own steps, its timer and the events it reads; time
  passes (a back-off ends, a claim gets old); a runner boots and claims. That the
  agent finishes what it claimed is not fair: it may hang every time, and the
  message then fails.
- *warm query*: a provider answers a prompt it works on, and an ended stream is
  noticed. Follow-ups, aborts and errors are not fair.
- *input and turn*: a container is started for waiting work, the polls and the
  provider go on, a result is finished and a stream that is over is noticed.
  Steering, edits, stops and crashes are not fair.

`DueMessageIsClaimed` excepts a locked session (a recovery whose stop failed
keeps its entry until the host restarts), a container that outlived its
session, both of which hold memory budget that nothing evicts, and a lost
container, which may claim again what each recovery has released. `EventuallyDrained`
excepts a refused head, which stays journaled by design. `EveryTurnSettles`
excepts a turn to whose result the recovery does not react (finding 5, and a
retryable error of the native provider). `EveryInputCompletes` excepts a stranded
turn: after a retryable error of the native provider (`native.ts:694`, ignored at
`poll-loop.ts:1210`) the turn stays active, no result comes, and a further chat
input is queued or declined, not pushed. Only the user's stop, a task, a slash
command or a crash releases it (`Stranded`).

## 6. What is proved

`SessionLinkLemmas` and `SessionLinkProofs` prove, for every set of sockets and
payloads, every retention of receipts and any number of events and faults:
`TypeOK`, `ExactlyOnceInOrder`, `NothingLost`, `OnlyRejectedEventsAreNacked`,
`ReadyMeansComplete`, `OneDurableAtATime`, `NobodyWaits` and both refinements of
`OrderedJournal`. The properties speak of the disks, but what a process does next depends on frames that were
written long before. So the inductive invariant `IInv` adds to the types: each
journal is a contiguous tail of what was ever appended and begins no later than
the first event the peer has not applied; what is applied is a prefix of it; the
largest receipt is the number of commits, whatever was pruned; and every frame
in a socket is *good* for the disks as they are: an event frame carries what was
appended under its sequence and is not ahead of the head of its journal, an
acknowledgement is of a committed event and not ahead of that head either, a
nack names a refused payload, `host.ready` was written for events all committed
by now. Journals lose only their head and commits only grow, so what is good
stays good. Lemmas in `SessionLinkLemmas` say once what
a transaction does to the disks and what a step adds to the queues; each action
is then a combination of them. `OneDurableAtATime` needs one more invariant,
`SlotInv`: the runner's connection has at most one durable frame unread or one
answer unread, not both, and neither when `sentAt` is empty, which is when
`flushDurable` writes. `NobodyWaits` is the safety core of `EventuallyDrained`, and
proved where that one cannot be: no reachable state has both ends holding a
connection, nothing on it, and nobody with a reason to act. It needs `ReadyInv`,
that a connection on which `host.ready` was sent has no event of an earlier
connection in flight (the flush sends `host.ready` only with nothing in flight,
and a replaced socket's `'close'` can only clear it), and `FlightInv`, that
the event in flight on the current connection, or the answer to it, is in a queue
or the connection is about to end.

`ContainerLifecycleProofs` proves, for any sessions, names, estimates, budget
and bounds: `TypeOK`, `SingleWriter`, `ContainersTakeTurns`,
`EveryContainerIsTracked`, `LostOnlyByFault` and `TrackedContainerIsServed`.
`Wake` looks only at the host's three maps, so that
no second container starts needs two facts no guard states: the maps are
complete but for what was lost (`EveryContainerIsTracked`), and a session is in at most one of them
before its entry exists (`Exclusive`). `EndedRecoveryIsGone` makes the deletion
of a recovery's entry safe, `SpawnIsServed` carries the server from the setup of
a spawn to its entry, and `DownIsEmpty` starts a new host with empty maps, which
adoption then completes. `TakingTurns` is the refinement of `SessionWriter`: of
every step one shows that it starts a container for a session that runs none, or
stops or loses some, or leaves what runs alone (`OneBeginsOrSomeEnd`).
`LosingIsAFault` bounds the exception: an action that is not a failing command
loses no container, except that a restart which finds a lost container beside a
held one may adopt the lost one instead.

`DeliveryProofs` proves, for any number of messages, callers, attempts, failures
and faults: `TypeOK`, `NoDuplicateSend`, `ImplementsOutbox`, `ReceiptIsEarned` and
`HintIsNotLost`. A
drain acts on what it read before its awaits, so the argument is about what
cannot have changed meanwhile. `DrainInv`: `inflight` admits one drain, so what
it has queued has no receipt when its turn comes. `SendInv`: every acceptance
is receipted, lost, or the one being awaited (`Pending`), and the attempts in
memory never exceed the failures there were, although a stop forgets them.
`HintInv`: an announced message not yet taken up is in the queue of the drain or
`dirty` is set, and the rows form an initial segment (`RowsInv`), so a new message
has no receipt yet. At the end of a drain that is not dirty, the queue is empty
and `HintInv` leaves nothing behind. `OutboxRefinement` goes through `Fate`: lemmas say
what a receipt, the beginning and the end of an await and the loss of a drain do to it.
That at most one message is accepted and not yet answered for is `DrainInv`; that
a receipt is never replaced, and that an acceptance a stop forgets is counted
as lost in the same step, is the action by action part.

`SeqAllocProofs` proves, for any messages, any bound on the numbers and any
number of forks: `TypeOK`, `SeqNamesOneMessage`, `NumbersAreKept` and
`RejectedOnlyAboveUnusedNumber`. Parity separates the writers; within a parity the
argument is that the host's counter is even and above every number in a table,
in flight or pending, that journaled outputs are increasing, and that the
runner's floor together with the floor events still journaled leaves no gap. A
number above everything the host has a row for must then have been allocated
and not used. `NumbersRefinement` adds that a row keeps its number wherever it is
copied (`OneRowPerId`), so a row that reaches the runner is one that was
assigned, and a number allocated without knowledge of the other side is free on
both.

`HostSweepProofs` proves, for any messages, tries, crashes and faults: `TypeOK`,
`TriesAreEarned`, `NoticeAfterLastTry`, `CompletionsStick` and `HintIsNotLost`. The sweep charges a
message by the claims the host knows, and the runner made them earlier, so the
invariant follows each claim on its way (`ClaimsAddUp`): it is queued in the
runner's journal, held by the host, or charged, and these together never exceed
the claims made and the rows that could not be deleted. Queued claims are counted
as a cardinality, with lemmas for what an appended and an applied event changes.
`CompletionIsLast` says that no event about a message follows its completion in
the journal, so a completion the host has heard of cannot be undone by a claim
that is still on its way. `HintsAreKept` carries a reported batch across the
awaits: it is copied, or a sweep that copies it is ahead (`SweepAhead`).
`NoticesAreFinal` adds to `NoticeAfterLastTry` that the message is not pending
any more, so that no later pass charges it. The second half of `TriesAreEarned`,
that a message fails only when it was claimed more often than it has tries, needs the claim the
pass has before it to be counted beside those already charged (`Charged`).
`CompletionsStick` is an action property: what the host knows as completed stays
so, by `CompletionIsLast` for the events still queued and because a reset
deletes claims only.

`WarmQueryProofs` proves, for any number of turns and every provider: `TypeOK`,
`NoRetryAfterTools`, `IdleBetweenTurns`, `NoticeOnlyWithoutReply`,
`SilenceIsChosen`, `TurnsAreSettledOnce`, `RecoveryRunsOut` and, as
`OnlyClaudeOverlaps`, that under the other providers no exchange outlives its
turn. The verdict on a
result is computed from the recovery object,
which forgets at each turn what the rows and the provider may still know. The
invariant relates them: one batch waits for its result, that of the current turn
(`OneBatch`); until a compaction splits an exchange, one exchange runs at a time
and belongs to that turn (`OneExchange`), and what a tool of the turn did is in the
recovery object or in the rows since its last boundary (`WorkIsSeen`); a reply settles its turn, and
a native turn that goes on has had no result (`RepliesSettle`); a result
that left no trace in the recovery object is one the recovery did not react to
(`SilenceIsNoted`). `LedgerRefinement` adds that turns begin in order and none
begins before the one before it is the latest (`BegunInOrder`), so every way to
settle one, of which there are many, is a step of `TurnLedger`. `RecoveryAlwaysRunsOut`
is the safety core of `EveryTurnSettles`: `PromptsLeft` counts the corrective
prompts a turn may still make, each one made lowers it, and nothing raises it
before the turn is settled, although a reply resets the counters it is made of.
Lemmas about the verdicts say once, per class of result, what
each outcome implies.

`InputTurnProofs` proves, for any inputs and any number of crashes: `TypeOK`,
`RequestsAreHonoured`, `RequestsAreAtomic`, `PromptedOnce`, `StopHolds`, `NothingDropped` and
`OneOpenTurn`. What becomes of an input is spread over `messages_in`, the
acknowledgements, the dispositions, the loop's prompt and the provider's buffer.
The invariant says how they agree: the open turn is the running query's, and
none is open between queries (`TurnInv`); what the loop believes of the provider
(`LoopInv`); an input is accepted before it is claimed and buffered before it is
prepared, and the loop hears of applied steering before the provider prepares
more (`SteeringInv`); what is prompted is claimed, and what a turn consumed was
heard, is in the prompt, was stopped, or its exchange failed (`ClaimInv`); an input
nobody holds has not reached the model since the last crash (`OnceInv`); and there is
one text of an input wherever it is, the buffer of an aborted query excepted, which
a request that was answered has changed or left (`TextInv`). `InboxRefinement` uses all
of them: a poll answers several requests, takes inputs and releases others in one step,
and each part must be one the user could have seen happen at once (`BoxStep`);
what the provider reads must be the text as last answered.

The assumptions are the named `ASSUME`s on constants: null values are outside
their types, counts are natural numbers, a retention is positive.

Only model-checked: liveness (TLAPS does not prove it under fairness). The
violation runs show a behaviour each and are not proved.

## 7. What is not modelled

The parts with status `not_modelled` in `PROJECT.json`, each with its reason.
Most of the repository's lines are there: the web client and the handlers that
serve it, setup, channel adapters and the drivers of the vendors' CLIs are
rendering, I/O and configuration without a protocol of their own, and a model of
them would repeat them line by line. What the modules cover is the part in which
two processes, or two handlers, can disagree.

Within the modelled parts, time is abstracted: a timer may fire at any moment
its guard allows, so no property speaks of durations, of the length of a
back-off or of the 8 s an eviction waits at most. Of the sweep, the fan-out of
recurring messages is left out; the notice of a given-up message is written in the
same step that marks it as failed, or it is not written, because a command failed or the host
stopped between the two. Of the poll loop, left out are
the turn a slash command runs in, the cap on a prompt, the wait for task scripts
between a claim and its push (so a wake lost while a claim is released is not
shown). `InputTurn` has the native provider only, which yields no result when it
compacts; compactions of Claude are in `WarmQuery`.
