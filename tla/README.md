# Poseidon (OpenAde): the server's core in TLA+

Poseidon is a desktop application that drives a coding agent's CLI. Its server
(`apps/server`) keeps one event log per thread, decides every command on the
folded log, and lets background fibers react to what was logged: they start the
harness, send it turns, write down what it says, take and restore checkpoints,
and bring a session back when it dies. Clients follow the log over a socket.
This directory specifies that core, model-checks it and proves part of it.

File names below are relative to `src/apps/server/src/orchestration/` unless
they say otherwise.

## 1. The system

| component | state it keeps | operations | interacts by |
| --- | --- | --- | --- |
| **Engine** (`Engine.ts`, `decider.ts`, `state.ts`, `workspaceRoot.ts`) | the log, a document per thread, a document per project, receipts | `dispatch(command)`, `appendThreadEvents`, subscriptions | one write mutex and one SQLite transaction per write; committed events are published on an unbounded PubSub |
| **Command reactor** (`ProviderCommandReactor.ts`) | none but its mailbox | one reaction per event, one event at a time | reads documents, calls the session manager, appends events, dispatches commands of its own |
| **Session manager** (`SessionManager.ts`) | driver per thread: handle, scope, `alive`, ingestion fiber | `handleFor`, `ensure`, `close` | attach mutex; reports `started`/`ended` |
| **Turn-scoped handle** (`packages/connector-sdk/src/turnScopedHandle.ts`) | a Ref: active turn, finished | `send`, `steer`, `interrupt`, `events` | wraps the connector's handle; a latch per turn |
| **Runtime ingestion** (`RuntimeIngestion.ts`) | held delta | translate, append | one fiber per session, ends when its stream does |
| **Session supervisor** (`SessionSupervisor.ts`) | attempt counters | boot scan, `resumeLoop` | takes `crashed` reports one at a time |
| **Command Code session** (`packages/connector-cmd/src`) | one process per turn, a translator, `closedRef` | `sendTurn`, `interrupt`, `endSession`, a pump per process | stdout frames and exit code of the harness; an event queue |
| **Approval gate, hook bridge, permission ladder** (`packages/connector-sdk/src/approvalGate.ts`, `packages/connector-cmd/src/hookAnswers.ts`, `apps/server/src/hooks/HookBridge.ts`) | open requests, rules | decide, respond, releaseAll | HTTP post of a harness's hook |
| **Checkpoint reactor** (`CheckpointReactor.ts`, `git/CheckpointStore.ts`) | `handled` set, restore mutex | capture, restore, prune, boot replay | reads the log, runs git, appends outcomes |
| **Terminals** (`apps/server/src/terminal/TerminalService.ts`) | a map of shells per owner, a lock per owner | open, close, adopt, teardown, finalizer | ptys; the engine's events |
| **Live delivery** (`LiveBuffer.ts`, subscriptions of `Engine.ts`) | buffer, window, budget | subscribe, offer, overflow | mailbox to client |
| **Client runtime** (`packages/client-runtime/src`) | the client's document, epoch, boot id | fold, reconnect, resnapshot | WebSocket RPC |
| **Desktop server supervisor** (`apps/desktop/src/backend/ServerSupervisor.ts`) | child, timers, failure count | start, stop, onExit | child process |
| the rest: the Claude connector, git, files, browser, MCP, RPC, boot, UI | | | listed in `PROJECT.json`, not modelled |

### Where the difficulty is

* Everything is a fiber of one process: code between two awaits is atomic, and
  nothing else is. A document read before a mutex is old after it.
* The reactors run *behind* the log. What they react to may no longer be so:
  the turn has ended, the thread is archived or deleted, another turn has started.
* Two records say whether a turn runs: the document's `currentTurn` and the
  handle's active turn. They are settled by different fibers at different times.
* Dequeue and dispatch are two transactions; the second may be refused.
* Restores rewrite a directory that several threads share, and git's work and
  the event that records it are two steps.
* The process may be killed at any point; only the log, git's refs and the
  working tree survive.
* A harness's process, its stdout, its hooks and the session's end are four
  sources of news about one death, in any order.
* A client is told of an event by a snapshot, a replay or a live buffer that
  merges and overflows, and must not be able to tell which.

### What makes each component correct

* Engine: one turn in flight per thread; no turn under a restore of its root
  and no two restores of one root; nothing left over from an ended turn; a
  queue and a decision record without doubles.
* Handle: at most one turn per harness, and whatever a harness does belongs to it.
* Reactor: turns reach the harness in order; no message the user typed is lost;
  every turn is settled by somebody.
* Manager and supervisor: a session that died comes back or its thread says so.
* Command Code session: one process at a time, one completion per run, no
  process left behind by a session that ended.
* Gate: a request is answered once, announced once, with one verdict, and a card
  on show can be taken down.
* Checkpoint reactor: a restore accepted is carried out, recorded once and
  settled, a crash notwithstanding; a deleted thread leaves nothing in git.
* Terminals: every shell that runs is registered once, under its owner, within
  the limit; none outlives its owner or the server.
* Delivery and client: a view is a copy of the log without holes and catches
  up; the two folds of the log agree, but for the turn after a late start.
* Desktop: at most one server, and none after a stop.

## 2. The modules

| module | models | state |
| --- | --- | --- |
| `ThreadState` | the document and its fold, `state.ts` | none: `Apply(d, e)`, one operator per group of events |
| `Decider` | `decider.ts` | none: `Decide(cmd, d, ctx, env)` gives the events or the refusal |
| `Engine` | `Engine.ts`, `workspaceRoot.ts`: dispatch and append, with the callers an open environment | `projects`, `docs`, id counters |
| `TurnScoped` | the handle's Ref, as pure operators | none |
| `Sessions` | session manager and ingestion, with the harness external | `sessions`, `driver`, `attaching`, `mailbox` |
| `CommandReactor` | the reactor, one `pc` per await | `reactor` |
| `Supervisor` | boot scan, resume loops | `loops`, `crashes` |
| `Orchestration` | clients, all fibers, kill and restart of one thread's server | composition of the five above over `Engine`'s variables |
| `CheckpointReactor` | captures, restores, prunes, live loop and boot replay, over `Engine`'s variables | `log` (orders, outcomes, deletions), `mailbox`, `handled`, `replay`, `fibers`, `refs`, `up` |
| `ApprovalGate` | gate, hook answerer and the bridge's ceiling | `posts`, `pending`, `answer`, `cards`, `over` |
| `CmdSession` | a Command Code session with `TurnScoped` and `ApprovalGate` | `runs`, `tr`, `slot`, `closed`, `ending`, `caller`, `handle`, `stream`, `swept` |
| `Replica` | abstract: what a subscription promises its client | `log`, `copy` |
| `Delivery` | subscription, pump, live buffer, socket, connection status and the client's loop | `log`, `published`, `server`, `socket`, `state`, `views`, `feeds` |
| `ClientState` | the client's fold, `clientState.ts` | none: `ViewApply(v, e)` |
| `TwoFolds` | one log folded on both sides | `doc`, `view`, `minted` |
| `Terminals` | the registry with its callers, its reactor and its finalizer | `registry`, `lock`, `life`, `summary`, `calls`, `reactor`, `mailbox`, `status`, `phase` |
| `ServerSupervisor` | the desktop's supervisor: one action per callback, timer and command | `child`, `state`, `failures`, timers, `alive`, `signalled`, ... |
| `...Props` | the properties of a component (`TwoFolds` and `ServerSupervisor` hold their own) | |
| `MC...` | the functions and the symmetry the `.cfg` files need | |
| `...Proofs` | the theorems | |

**Abstract and detailed.** Two specifications are abstract ones. `Engine` is
that of everything that writes the log: it lets any caller append any of its
events at any time. `Orchestration` and `CheckpointReactor` extend the same
variables with the real callers; `EngineImplemented` and `EngineKept` say that
they take only steps `Engine` has, so what is proved of `Engine` holds under
them. `Replica` says that a copy moves only forward along the log, skips an
event only if a later one replaces it, and is given up as a whole or not at
all; `ViewsAreReplicas` says that `Delivery` implements it, with the view's copy
as the abstract one.

**How state maps.** `docs[t]` is the thread's row of the read model. The code
writes the row in the transaction that appends the events, as the fold of both
(`applyProjection`, `commit`), so the log itself is kept only where something
reads it back: `CheckpointReactor` keeps the events its boot list is folded
from, `Delivery` the keys of the events (a *row* replaces the last event of its
key, a *boundary* event nothing). `life` is `"none"` for no row and `"deleted"`
for a row that is gone. Turn, message and request ids are numbers per thread,
and 0 is null. `restoring` holds the turn of the checkpoint being restored.
`sessions[s]` is one harness process with its handle and ingestion fiber; a
*slot* `s` is only a name and is used again. A run of a Command Code session is
named by its turn, since print mode starts one process per turn. A shell is
numbered in the order of spawning, and an owner's terminal map is the set of
its `(id, shell)` entries; an open holds the entries it found, as the code holds
the map itself. A child of the desktop's supervisor is numbered likewise, and
every callback carries the child it closes over.

**Grain.** A fiber's step ends where the code awaits something that other fibers
can change: the write mutex, the attach mutex, an owner's semaphore, a Deferred,
a database read, a call into the harness or into git. Reading a document and
then the driver map is one step. The harness's acceptance of a turn and `send`'s
return are one step: what comes between delays only the reactor. In
`Terminals`, a hand-over takes its two locks in the order the code does, by key,
which puts the thread's before the project's; two hand-overs cannot wait for
each other.

**The environment.** Clients may issue any command of the modelled set at any
moment a reactor is less than `MaxMailbox` events behind. A harness takes,
refuses or completes turns, says frames or does not, exits with 0, with a code
that is not fatal, with a fatal one or by a signal. What may fail is the
constant `Faults`, how often is `MaxFaults`: a fatal error, an exit, a failed
start, a refused call, a stream that outlives its close, a killed server, an
outcome that cannot be written. A socket may drop `MaxDrops` times, with or
without a restart of the server and with or without a change of protocol.

## 3. The runs

All bounds are constants of the modules and named in the `.cfg` files.

### Engine

* `engine_one_thread` (`EngineOne.cfg`): one thread, two turns, two queued
  messages, one request, one connector instance; every command, every event of
  every writer, in every order. Shows that stops, cards and status agree
  whatever the order (`StopNamesATurn`, `IdleIsQuiet`), that a restore and a
  turn exclude each other in a thread (`NoTurnWhileRestoring`), that the queue
  and the decision record hold no doubles (`QueueListsOnce`, `DecidedOnce`) and
  that turns do not overlap (`OneTurnAtATime`). Two turns are needed for a late
  event of an old turn to meet a new one, two messages for an order, one request
  for an echo. Deadlock is checked.

### One thread's turns, end to end

One thread, two turns, three message ids, two session slots. Two slots cover
every overlap the code allows: a session that ends and its successor. Two turns
are the fewest in which an older turn can disturb a newer.

* `turns_safety` (`TurnsSafety.cfg`): one fault of any of the six kinds, clients
  up to two events ahead. Two events of lead are what it takes for the reactor
  to hold one stale event with another behind it. Shows `EngineImplemented`;
  `WorkIsTracked`, a harness never works on a turn its handle let go of;
  `HeldIsNeverDropped`, a message taken off the queue or missed by its steer
  becomes a turn or is queued again; `TurnsSentInOrder`, a turn sent on its
  request leaves only later requests waiting, and a re-send, which may run ahead
  of requests that still wait (section 5), never goes behind a turn already sent.
* `turns_settle` (`TurnsSettle.cfg`): two faults out of kill, failed attach and
  fatal error, clients one event ahead. Shows that a turn ends (`TurnSettles`),
  that a thread in use gets its session back or is told it is lost
  (`SessionReturns`), and that without failures a queue drains (`QueueDrains`).
  A refused re-send is left out: it is only logged (`ProviderCommandReactor.ts:287`)
  and leaves the turn for good.

### Checkpoints

* `checkpoints` (`Checkpoints.cfg`): two local threads of one project, so one
  directory; a turn each, two orders in all, clients two events ahead of the
  live loop, two faults out of kill and an outcome that cannot be written. Two
  threads are what exclusion is about; two orders let one be in the replay's
  list while the other is live; the second fault lets the boot after a kill be
  killed too. Shows `RestoresDoNotOverlap`, `TurnsWaitForGit`,
  `OneOutcomePerOrder`, `RestoringMatchesLog` (the documents and the boot's own
  fold agree on who waits), `DeletedThreadsLeaveNoRefs` (while no fault has
  happened: a kill between a deletion and its prune leaves the refs, since
  nothing replays a prune), `EngineKept`, and that every restore is settled
  (`RestoresSettle`).

### Command Code session and its gate

* `cmd_session` (`Cmd.cfg`): two turns, no hook posts; every order of frames,
  exits, interrupts, crashes, slow pipes and a close. Shows `OneHarness`,
  `RunsCompleteOnce`, that a turn that was announced ends (`AnnouncedTurnsEnd`)
  and that a process spawned into a session that has ended dies (`OrphansDie`).
  Two turns give a process before and a process after, which is all a send's
  wait relates.
* `cmd_gate` (`Gate.cfg`): one turn, one approval and one question in flight;
  answers, releases, the bridge's ceiling and the process's death race. Shows
  `ResolvedOnce`, `VerdictStands`, `CardsReachable`. Posts share only the map
  that a release empties and the stream, so one of each kind meets every race.

### Delivery and the client

* `delivery` (`Delivery.cfg`): one view, a log of five events, two keys whose
  events replace each other, a buffer of three items, one drop of the socket.
  Five events fill the buffer of three with one taken and one to overflow; two
  keys are what lets a merged row move behind another. Shows
  `ViewsAreReplicas`, `ParkedIsShown` and `ViewsCatchUp`.
* `folds` (`Folds.cfg`): two turns, two messages, two requests, both possibly of
  one kind and open at once, any three of these six (`MaxMinted`): a start or a
  completion of an older turn needs two turns, an answer to a card behind the
  head two requests. Every event the server's writers may append, starts,
  completions, proposals and echoes of any turn or request made so far included,
  with a resnapshot at any moment. Shows that the view and the document agree on
  the queue, the session, the plan, the checkpoints and the restore and that a
  card on show is open (`FoldsAgree`), and that decisions are listed as the
  server's (`DecisionsShown`). On the turn they part only over a start of a turn
  that is not in flight, and what mends it is listed (`TurnsStayTogether`): a late
  completion does not end a newer turn on either side. Section 5 says where the
  two do not agree.

### Desktop and terminals

* `desktop` (`Desktop.cfg`): four spawns and three failures, so that the
  supervisor can give up and be started again; good, bad, late and missing
  handshakes, spawn errors, exits and a stop at any time. Shows `OneServer` and
  `StoppedStaysDown`.
* `terminals` (`Terminals.cfg`): a project, a thread, three ids, two calls at
  once, two terminals an owner, three shells, one archival, deletions, exits and
  a shutdown at any step. Two calls are the overlaps of open, close and
  hand-over with each other; the reactor and the finalizer are two more. Three
  shells pass a limit of two. The ids of one owner, and the two calls, are
  interchangeable, and the run has no liveness, so symmetry is used. Shows `ShellsReachable`,
  `LimitHolds`, `NoShellOutlives` and `GoneHoldNothing`.

`CHECK_DEADLOCK FALSE`: in the turn, checkpoint and session runs the prompts
run out at `MaxTurns` and nothing happens any more to a deleted thread or an
ended session; in `delivery` the log is at its bound and everything delivered;
in `folds` a deleted thread has no more events; in `desktop` the app may be
stopped; in `terminals` a server that is down stays down.

### Fairness

Weak, on each fiber as one action: the Effect runtime runs every runnable fiber,
and Node runs every callback that is due. Nothing is assumed of their order.

* `OrchestrationSpec`: the reactor, the supervisor's live loop, each resume
  loop, each ingestion. A harness is assumed to finish the turn it works on (or
  to be interrupted, which here is the same); without it no turn need ever end.
* `CheckpointFair`: the live loop, the replay and the boot after a kill. Git is
  assumed to return.
* `DeliveryFair`: publishing, reconnecting, a subscription's set-up, its pump
  and window timer, and the client's loop.
* `CmdFair`: the pump and completion of each process, the exit of a process that
  has been *signalled* (one that has not may run for ever), the end of the
  session, the reading of its stream, a send that can go on.

Clients, faults, drops and restarts by choice are never fair.

### What the runs refute

Each of these checks one sentence of the repository and finds a behaviour that
breaks it. The quotation is under `findings` in `PROJECT.json`.

| run | the sentence | what happens |
| --- | --- | --- |
| `turns_archive_undone` | "an archived thread stays archived" (`state.ts:363`) | nothing fails; the `turn.started` of the turn the reactor has yet to stop puts the thread back |
| `cmd_wedged` | "A turn always ends" (`packages/connector-sdk/src/turnScopedHandle.ts:13`) | a process exits with 0, or a code that is not fatal, before its first frame: nothing opened the turn, so nothing completes it |

## 4. What is proved

Every theorem holds for any sets of threads, projects, sessions, requests,
subscribers, shells and calls and any bounds, under the named assumptions of its
module.

| theorem | property | module |
| --- | --- | --- |
| `StopsNameTurns` | `StopNamesATurn` | `EngineProofs` |
| `IdleThreadsAreQuiet` | `IdleIsQuiet` | |
| `WaitingThreadsHaveCards` | `WaitingHasACard` | |
| `RestoreExcludesTurn` | `NoTurnWhileRestoring` | |
| `RestoreExcludesRestore` | `OneRestorePerRoot` | |
| `TurnsAvoidRestores` | `TurnsStartOnSettledTrees` (a step property) | |
| `TurnsEndFirst` | `OneTurnAtATime` (a step property) | |
| `ContentsInvariant` | the inductive invariant `ContentsInv` | |
| `DocumentsAreTyped` | `TypeOK` | |
| `QueuesListOnce` | `QueueListsOnce` | |
| `RequestsAreDecidedOnce` | `DecidedOnce` | |
| `FibersStayInStep` | the inductive invariant `OInv` | `OrchestrationProofs` |
| `FibersUseTheEngine` | `EngineImplemented` (a refinement) | |
| `HarnessWorkIsTracked` | `WorkIsTracked` | |
| `HeldMessagesAreKept` | `HeldIsNeverDropped` (a step property) | |
| `TurnsReachTheHarnessInOrder` | `TurnsSentInOrder` (a step property) | |
| `RestoresExclude` | `RestoresDoNotOverlap` | `CheckpointProofs` |
| `ReactorImplementsEngine` | `EngineKept` (a refinement) | |
| `RestoreExcludesTurnHere` | `NoTurnWhileRestoring`, of the server with its reactor, kills and replays | |
| `OrdersInvariant` | the inductive invariant `Known` | |
| `OrdersSettleOnce` | `OneOutcomePerOrder` | |
| `BootReadsTheDocuments` | `RestoringMatchesLog` | |
| `PrunesFollowDeletes` | `DeletedThreadsLeaveNoRefs` | |
| `TurnsLeaveGitAlone` | `TurnsWaitForGit` (a step property) | |
| `DeliveryInvariant` | the inductive invariant `DeliveryInv` | `DeliveryProofs` |
| `ParkedShown` | `ParkedIsShown` | |
| `ViewsImplementReplica` | `ViewsAreReplicas` (a refinement) | |
| `FoldsInvariant` | the inductive invariant `FoldsInv` | `FoldProofs` |
| `TheFoldsAgree` | `FoldsAgree` | |
| `TurnsPartOnLateStarts` | `TurnsStayTogether` (a step property) | |
| `DecisionsAreShown` | `DecisionsShown` | |
| `OneHarnessEver` | `OneHarness` | `CmdProofs` |
| `CompletedOnce` | `RunsCompleteOnce` | |
| `ResolvedAtMostOnce` | `ResolvedOnce` | |
| `OneVerdict` | `VerdictStands` | |
| `OpenCardsReleasable` | `CardsReachable` | |
| `OneServerHolds` | `OneServer` | `ServerSupervisorProofs` |
| `StopHolds` | `StoppedStaysDown` | |
| `ShellsStayReachable` | `ShellsReachable` | `TerminalProofs` |
| `LimitStays` | `LimitHolds` | |
| `NoShellOutlivesServer` | `NoShellOutlives` | |
| `GoneOwnersHoldNothing` | `GoneHoldNothing` | |

So every safety property that a passing run checks is also a theorem, invariant
or step property, and so are the three refinements. `WaitingHasACard`,
`OneRestorePerRoot` and `TurnsStartOnSettledTrees` are proved and checked by no
run.

**Assumptions.** `EngineAssumption` and `InstanceAssumption` (bounds are
naturals, every thread has a project and a worktree or none, the null instance
is no instance), `OrchestrationAssumption` (the one thread is the engine's only
one, slots are not 0), `CheckpointAssumption`, `DeliveryAssumption` and
`FoldsAssumption` (bounds are naturals, a boundary event is of no row),
`KindsAssumption` (a request is an approval or a question),
`MaxTurnsAssumption`, `BoundsAssumption`, `OwnersAssumption`,
`CallsAssumption`, `LimitAssumption`. The terminal theorems
have one hypothesis more, `OnePerMint`: an id is opened under one owner only.
The code says so ("a terminal id is only ever one owner's",
`TerminalService.ts:8`) and the user interface mints a fresh UUID for each, but
the server does not enforce it: the look for an id elsewhere
(`TerminalService.ts:292`) is made under the opener's own lock, before the
awaits, so two opens of one id for a project and its thread both succeed.

**The engine: how a thread stands.** `IInv` says that every document satisfies
`DocInv` (its shape, and stop, status, cards, restore and turn in agreement) and
that no two live threads of one root restore at once. None of the properties is
inductive by itself: "waiting has a card" survives a completion only because a
resting status is recomputed from the cards, "idle is quiet" survives an answer
only because the turn is looked at, and both need the shape of the document. The
argument has three layers. (1) One event: `LifeStep` to `RestoreStep`, gathered
in `ApplyKeeps`, show that an event its writer may append keeps `DocInv`, that
only `turn.requested` sets a turn and only `restore.requested` starts a restore.
(2) One commit: `DecidedCommit` shows that whatever the decider accepts folds to
a document where a turn started only from none and unbarred, and a restore only
with none in flight. (3) One step: `NextCommits` shows that every action either
leaves the documents alone or commits to exactly one of them. The context the
decider saw is computed from the other documents in the same step, so the
exclusion across threads follows.

**The engine: what a thread holds.** `ContentsInv` bounds everything a document
names by the ids minted so far: the current turn is none or the newest, plan,
checkpoints and restore name older ones, the queue lists minted messages each
once, and a request stands in *one* place: open as an approval, open as a
question, or settled in the log, where it has one line. Neither "the queue holds
no doubles" nor "nothing is decided twice" is inductive alone: a message queued
is new only because ids are bounded, and the line of a card that is resolved is
new only because an open card is not in the log; the cards a lost session drops
add none. The layers are the same: `EventFits` is what the writer of an event
owes, `DecisionFits` what the decider gives, `Grows` what a step does to one
thread. `EngineProofs` also holds the lemmas on sequences and filters that the
other modules cite.

**The turns.** `OInv` adds to `ContentsInv` what ties the fibers to it.
`MailFits`: the reactor's mailbox names minted turns and its requests are in the
order of minting. `Tracked`, of each session: of what a running harness has
emitted and nobody read, at most one event settles a turn, and while one waits
or the harness works the handle still tracks a turn, which is why the turn a
busy harness works on is its handle's. `ReactorFits`, by the reactor's step: the
turn being delivered stands before every request that waits; the handle it goes
through tracks it with nothing unread that would settle it; a re-send is behind
no turn already sent; a message that was dequeued is not on the queue. The last
part is what lets the reactor put it back (`Requeue`) without a double, and so
what makes that append one `Engine` allows. `StepFits` says of a step that it
keeps `OInv` *and* is a step or a stutter of `Engine`; one lemma per action of a
fiber proves both at once, so that every theorem about `Engine` holds of the
server with its reactor, sessions, supervisor, kills and restarts. The two step
properties follow from `OInv` and the actions. An earlier form of
`TurnsSentInOrder`, that nothing ever overtakes, is not inductive and does not
hold (section 5); the proof attempt showed it and a larger instance confirmed it.

**The checkpoint reactor.** `CInv` adds to `IInv` that every turn named by a
document, a mailbox entry or a capture in flight has been minted, which is what
makes each append of the reactor one `Engine` allows, and that at most one fiber
is inside the mutex. The refinement maps a step of the live loop or the replay to
the append it makes, and every other step, kill and boot included, to a
stutter or to the client's own command. `OrdersInv` is about the log the boot
reads. A thread waits for a restore exactly while the log's last word on it is an
order (`LogMatches`); an order that somebody still holds, in the mailbox, in the
boot's list or at the mutex, was acted on already or is that last word
(`WantedAreOpen`); the one inside the mutex was marked and is that last word
(`RunsAreOpen`). Together they give one outcome per order, although an order can
be held by the replay and the live loop at once: the second holder finds it
marked. `RefsInv` says that, without faults, a deleted thread with refs or with a
capture under way has its prune still to come.

**Delivery.** `DeliveryInv` lines up, for each subscription, the copy, the
baseline, the buffer's output, the open window, the mailbox and the log: each
part begins after the one before it, the queues rise, and the mailbox is exactly
the rest of what was published. `NothingLost` is the part that matters: every
event the pump has passed on is taken, replaced by a later one of its row, or
among what will be delivered, and after an overflow this holds up to the last
item before the overflow. Without the order of the queues a merged row could
carry the copy past an event behind it. The refinement follows: an event taken
moves the copy to a later place and skips only what is replaced.

**The two folds.** `Pair` relates document and view. What both copy is equal;
a card on show is open; every line of the
server's log is a line of the view's, neither with doubles; an open request is in
neither list. The last is what makes the rest inductive: an echo or a late answer
adds a line on one side only if the id is not yet there. `EventPair` shows it
of one event, `DecisionKeeps` of a command's events, and a resnapshot starts
afresh from the document, whose oldest open request is the card it shows. The
turn is not part of `Pair`, because a late start parts it and nothing else needs
it. `DocTurn` and `ViewTurnAfter` compute what one event makes of each side's
turn: the same function of the turn it meets (`TurnAfter`), but for a start and
a deletion. `NextSteps` shows that every writer's step is a transaction without
a start, or a single start; with the two, `StaysTogether` and `RejoinsTurn` are
`TurnsStayTogether`.

**The session and its gate.** `HarnessInv` says that a process that is alive has
a pump that waits for it, that a waiting pump's process is the one in the slot,
and that the reactor's fiber goes on to spawn only when no pump waits: one
process at a time. `CountInv` adds the translator: while it has a turn open, the
process whose pump waits was heard and has its completion still to come; taking
the completion on closes the turn, so that of the stdout loop and the exit the
second finds it closed. `GateInv` is
one invariant per request: where its post is, whether it is in the map, what is
in its Deferred and what the stream has carried determine each other. The
session's steps touch it only by ending the stream and by releasing all
requests, so it is proved for `CmdSession`'s specification.

**The desktop.** The invariant adds that an uncounted child is the current one,
that a counted one is dead or signalled, and that a restart is armed only while
there is no child.

**Terminals.** `TermInv` says who holds which lock at which step, that the map an
open holds is the one registered under its owner, that entries are one-to-one
with ids and with shells, and that a shell that runs is in one of them. The
limit follows because only the lock's holder adds to a map. `GoneInv` says that
an owner that is gone and has, or is about to have, a shell still has its
teardown ahead of it in the reactor's mailbox.

**Only model-checked:** liveness under fairness, which is out of the prover's
reach: `TurnSettles`, `SessionReturns`, `QueueDrains`, `RestoresSettle`,
`ViewsCatchUp`, `AnnouncedTurnsEnd`, `OrphansDie`. The two sentences of
section 3 are refuted by their runs.

## 5. What is not modelled, and what does not hold

### Not modelled

* Engine: renaming, usage and context readings, titles, previews and rows of the
  timeline (only whether the user ever spoke is kept), the permission rule an
  approval may write, receipts. A rejected or repeated command changes no
  document.
* Turns: other threads (they only delay), approvals, questions, plans, settings
  and checkpoints, which stay with the engine's open environment; the length of
  timeouts and backoffs; a harness that refuses a turn after it began to work on
  it. The live loop's non-fatal crash notice changes no document and is not an
  action.
* Checkpoints: what a diff or a preview shows; that git itself fails half way
  (a failed restore is one outcome).
* Gate: the rules of the permission ladder, which is a choice of allow, deny or
  prompt; a harness's own withdrawal of a request. Session: rows, plans,
  transcripts, usage, installing hooks, resuming by session id.
* Delivery: the budget in bytes beside the one in items, the thread list's own
  stream. Client: the thread list, settings, titles.
* Terminals: the output stream, scrollback, writes, resizes, and the client's
  input lanes. A kill's escalation ends in a dead shell; a pty that never
  reports its exit is taken as ended at the bound, as the code does.
* The Claude connector speaks a third party's protocol; git, files, the browser,
  MCP and RPC are I/O; the user interfaces are presentation. The event store is
  one SQLite transaction under one mutex, and every model relies on it. Most of
  the repository's lines are of these kinds, and the map covers the others.

### What does not hold

Behaviours found in the models that no property claims away; the steps are in
the modules, and the properties are stated for what does hold.

Turns:

* Between the handle's settlement and its append a turn is in the document and
  not in the handle; a late `session.bound` then has its prompt sent twice
  (`ProviderCommandReactor.ts:286`). The re-send takes the document's current
  turn, so it may run ahead of an older turn's request that still waits: that
  turn was settled by the thread's failure or an interrupt, and its request is
  then sent after the newer turn. (Found on an instance with three turns and a
  mailbox of four.) `TurnsSentInOrder` says what remains.
* A re-send that fails is only logged (287), and the turn stays.
* The boot resume reads a document, the archive finds nothing to close, the
  resume attaches: an archived thread keeps a process (`SessionSupervisor.ts:85`).
* A kill between the committed dequeue and the turn's request loses the message.
* An ending ingestion deregisters its thread's driver by thread id
  (`SessionManager.ts:222`), whichever session that is by then: an open session
  may be left running with nobody to close it. The proofs do without "an open
  session is the driver's".

Checkpoints:

* `sharesWorkspaceRoot` compares ids and worktree paths (`workspaceRoot.ts:34`):
  a worktree opened as a project of its own is one directory with two names.
* A restore looks only at its own thread's turn (`decider.ts:543`), so one may
  begin under a sibling's.
* A thread deleted while it restores is no longer counted (`Engine.ts:301`), and
  a sibling may start a turn while git still rewrites the directory; a second
  restore waits for the mutex.
* One outcome that cannot be appended ends the boot's replay of the remaining
  orders (`CheckpointReactor.ts:284`); they wait for the next boot. The comment
  that of an order without an outcome "nothing has touched the worktree yet"
  (230-232) does not hold after a kill between git's work and the append: the
  restore is then run a second time.
* A kill between the deletion's commit and the prune leaves the thread's refs.

Command Code session:

* A send waits for the process before it without a bound
  (`packages/connector-cmd/src/session.ts:632`) while a child of that process
  holds its pipe.
* Events of a late exit are stamped with the next turn; during the second an
  interrupt waits after a fatal result, a send is refused as overlapping.
* A release announces a question as resolved twice; a hook cut by the bridge's
  ceiling leaves its card open, and a later "allow" never reaches the tool; a
  post that was being decided during a release opens a card for a process that
  is gone. `CardsReachable` is what remains: the card can be taken down.
* A hook handler is unregistered by thread id and may be a newer session's.

Client:

* On `thread.turn.started` the client takes the turn named (`clientState.ts:194`)
  and the server keeps its own (`state.ts:351`). They differ after a start that
  comes late: after an archive and an unarchive the view shows a turn that the
  server has not; with a newer turn requested it takes the older one, and the
  older one's completion, which the server ignores, leaves it without a turn
  while the newer runs, until that one starts. `TurnsStayTogether` says how far it
  goes. (The comment at `clientState.ts:209` says of the turn that the two folds
  have to agree.)
* The view and the document disagree on the *status* after an interrupt with a
  card open (`clientState.ts:205-210`), a late `turn.started`, an echo or a
  release of a card no longer open (`state.ts:453`, 484), a removal from the
  queue after a completion, and decisions after `session.lost`. Status is
  therefore not among the fields of `FoldsAgree`.
* The view holds one card of a kind. When it is answered, nothing shows the next
  (`clientState.ts:57`, 314) until a resnapshot.

Desktop:

* A late handshake of a dead child sets the state to ready, clears the new
  child's timer and the failure streak. A child with a bad handshake is only
  interrupted, so a restart may overlap it; `stop` awaits only the current
  child. `OneServer` counts the processes nobody has signalled.

Terminals:

* A stale `thread.archived` still in the reactor's mailbox tears down a shell
  opened after the unarchive.

## 6. Plan

Done: the engine; the turns of one thread and the checkpoint reactor, each with
its refinement of the engine; delivery over `Replica`; the two folds; the session
with its gate; the desktop's supervisor; the terminal registry; and, of all of
them, the safety properties as theorems.

Next, in order of what can go wrong:

1. **`TerminalStream`**: pty, batcher, scrollback, hub, `LiveBuffer` and attach,
   against an abstract stream in which an attached client misses nothing; and
   the client's input lanes.
2. **The permission ladder** as a function, against a reference definition by
   precedence.
3. **The thread list's stream** and the byte budget in `Delivery`.
4. **Two threads' turns under restores**: what a restore decided on its own
   thread's document does to a sibling's turn (`decider.ts:543`), stated with the
   working tree as part of the state.
