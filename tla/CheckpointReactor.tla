-------------------------- MODULE CheckpointReactor --------------------------
(***************************************************************************)
(* The checkpoint reactor (orchestration/CheckpointReactor.ts) with the    *)
(* git work behind it (git/CheckpointStore.ts), over the engine's own      *)
(* documents.  Two fibers run restores: the live loop, which takes one     *)
(* event of its subscription at a time and does captures and prunes too,   *)
(* and the replay, which runs the list read at boot.  A kill loses all but *)
(* the documents, the log, the refs and the files.                         *)
(***************************************************************************)
EXTENDS Engine

CONSTANTS
  MaxOrders,     \* restores ordered, over all threads
  MaxMailbox,    \* events the live loop may be behind before clients wait
  Faults,        \* subset of {"kill", "append"}: what may go wrong
  MaxFaults

ASSUME CheckpointAssumption ==
  /\ MaxOrders \in Nat /\ MaxMailbox \in Nat /\ MaxFaults \in Nat
  /\ Faults \subseteq {"kill", "append"}

VARIABLES
  up,            \* the server process runs
  faults,        \* faults so far
  lost,          \* this process could not write an outcome
  orders,        \* restores ordered so far: the event id of the last order
  log,           \* the log's order, outcome and deletion events, oldest first
  mailbox,       \* the live loop's subscription
  handled,       \* ids of the orders this process has acted on
  replay,        \* orders of the boot list the replay has yet to start
  fibers,        \* fiber -> what it is doing
  refs           \* thread -> turns with a hidden ref

cvars == <<projects, docs, turns, messages, requests, up, faults, lost, orders, log, mailbox,
           handled, replay, fibers, refs>>

Fibers == {"live", "replay"}

\* `turn` names the checkpoint, `id` the order; `ok` is how git went.
Idle == [pc |-> "idle", thread |-> "none", turn |-> 0, id |-> 0, ok |-> FALSE]

\* runRestore for an order of the log.
JobOf(order) == [pc |-> "lock", thread |-> order.thread, turn |-> order.turn, id |-> order.id,
                 ok |-> FALSE]

\* A fiber between Semaphore.withPermits and its release.
HoldsMutex(f) == fibers[f].pc \in {"restore", "rewriting", "settle"}
MutexFree == \A f \in Fibers : ~HoldsMutex(f)

Rewriting(f) == fibers[f].pc = "rewriting"

Become(f, state) == fibers' = [fibers EXCEPT ![f] = state]
GoTo(f, pc) == Become(f, [fibers[f] EXCEPT !.pc = pc])

\* Mutant: what is appended after the delete lands on the deleted document.
AppendAlways(t, events) == Commit(t, events)
\* engine.appendThreadEvents: a no-op without a row.
AppendIfLive(t, events) == Commit(t, IF Live(docs[t]) THEN events ELSE <<>>)

\* Publication follows the commit, on an unbounded PubSub.
Publish(event) == mailbox' = Append(mailbox, event)

Entry(type, t, turn, id) == [type |-> type, thread |-> t, turn |-> turn, id |-> id]
Record(type, t, turn, id) == log' = Append(log, Entry(type, t, turn, id))

Outcomes == {"restored", "restore.failed"}

\* Mutants: a failure does not settle an order; the log cannot be read (which
\* the code survives too).
PendingUntilRestored ==
  Keeping(log, {k \in DOMAIN log :
                  /\ log[k].type = "restore.requested"
                  /\ \A j \in DOMAIN log :
                       j > k /\ log[j].thread = log[k].thread => log[j].type = "restore.failed"})
PendingUnread == <<>>

\* pendingRestores: the orders with no later event of their thread, oldest first.
PendingRestores ==
  Keeping(log, {k \in DOMAIN log :
                  /\ log[k].type = "restore.requested"
                  /\ \A j \in DOMAIN log : j > k => log[j].thread # log[k].thread})

----------------------------------------------------------------------------
(* Clients and sessions: the steps of the engine that concern checkpoints, *)
(* with what each of them publishes.                                       *)

Reactors == <<faults, lost, handled, replay, fibers, refs, up>>

\* Clients mint the ids: none is used for a second thread or project.
ClientCreates(p) ==
  /\ \A t \in Threads : ProjectOf[t] = p => docs[t].life = "none"
  /\ CreateProject(p)
  /\ UNCHANGED <<orders, log, mailbox>> /\ UNCHANGED Reactors

ClientWorks(t) ==
  /\ (docs[t].life = "none" /\ CreateThread(t)) \/ StartTurn(t)
  /\ UNCHANGED <<orders, log, mailbox>> /\ UNCHANGED Reactors

ClientRemoves(p) ==
  /\ RemoveProject(p)
  /\ Publish([type |-> "project.removed", project |-> p])
  /\ UNCHANGED <<orders, log>> /\ UNCHANGED Reactors

ClientDeletes(t) ==
  /\ DeleteThread(t)
  /\ Record("thread.deleted", t, 0, 0)
  /\ Publish([type |-> "thread.deleted", thread |-> t])
  /\ UNCHANGED orders /\ UNCHANGED Reactors

ClientRestores(t) ==
  /\ orders < MaxOrders
  /\ RestoreCheckpoint(t)
  /\ orders' = orders + 1
  /\ Record("restore.requested", t, docs'[t].restoring, orders + 1)
  /\ Publish(Entry("restore.requested", t, docs'[t].restoring, orders + 1))
  /\ UNCHANGED Reactors

\* A session reports the end of the thread's turn.
TurnEnds(t) ==
  /\ up /\ docs[t].turn # 0
  /\ AppendThreadEvents(t, <<TurnCompleted(docs[t].turn)>>)
  /\ Publish([type |-> "turn.completed", thread |-> t, turn |-> docs[t].turn])
  /\ UNCHANGED <<requests, orders, log>> /\ UNCHANGED Reactors

ClientStepOf(t) ==
  /\ up /\ Len(mailbox) < MaxMailbox
  /\ \/ ClientWorks(t) \/ ClientDeletes(t) \/ ClientRestores(t)

----------------------------------------------------------------------------
(* One restore, on either fiber.                                           *)

\* Mutant: the permit is not waited for.
MayEnterAlways(f) == TRUE
MayEnter(f) == MutexFree

\* runRestore and the reads of restoreOnce: one run per order, none for a
\* thread that is gone, and no git for a project that is.
EnterRestore(f) ==
  LET job == fibers[f]
  IN  /\ up /\ job.pc = "lock" /\ MayEnter(f)
      /\ handled' = handled \cup {job.id}
      /\ IF job.id \in handled \/ ~Live(docs[job.thread]) THEN Become(f, Idle)
         ELSE GoTo(f, IF ProjectOf[job.thread] \in projects THEN "restore" ELSE "settle")
      /\ UNCHANGED vars
      /\ UNCHANGED <<up, faults, lost, orders, log, mailbox, replay, refs>>

\* git: a ref that does not resolve fails before anything is touched.
GitRestore(f) ==
  LET job == fibers[f]
  IN  /\ up /\ job.pc = "restore"
      /\ (job.turn \in refs[job.thread] /\ GoTo(f, "rewriting")) \/ GoTo(f, "settle")
      /\ UNCHANGED vars
      /\ UNCHANGED <<up, faults, lost, orders, log, mailbox, handled, replay, refs>>

\* git restore, clean and reset are done, or one of them refused half-way.
GitEnds(f) ==
  LET job == fibers[f]
  IN  /\ up /\ Rewriting(f)
      /\ \E ok \in BOOLEAN : Become(f, [job EXCEPT !.pc = "settle", !.ok = ok])
      /\ UNCHANGED vars
      /\ UNCHANGED <<up, faults, lost, orders, log, mailbox, handled, replay, refs>>

\* The outcome of an order.
Settle(f) ==
  LET job == fibers[f]
  IN  /\ up /\ job.pc = "settle"
      /\ AppendIfLive(job.thread, <<RestoreSettled(job.ok)>>)
      /\ IF Live(docs[job.thread])
         THEN Record(IF job.ok THEN "restored" ELSE "restore.failed", job.thread, job.turn, job.id)
         ELSE UNCHANGED log
      /\ Become(f, Idle)
      /\ UNCHANGED <<projects, turns, messages, requests>>
      /\ UNCHANGED <<up, faults, lost, orders, mailbox, handled, replay, refs>>

\* The error leaves the forEach, and the handler stands outside it.
ReplayAfterError(f) == IF f = "replay" THEN <<>> ELSE replay

\* The append failed, and so did its three retries.
SettleFails(f) ==
  /\ up /\ fibers[f].pc = "settle"
  /\ "append" \in Faults /\ faults < MaxFaults /\ faults' = faults + 1
  /\ lost' = TRUE
  /\ replay' = ReplayAfterError(f)
  /\ Become(f, Idle)
  /\ UNCHANGED vars
  /\ UNCHANGED <<up, orders, log, mailbox, handled, refs>>

RestoreStepOf(f) == EnterRestore(f) \/ GitRestore(f) \/ GitEnds(f) \/ Settle(f)

\* The replay goes on to the next order of its list.
ReplayNext ==
  /\ up /\ fibers["replay"].pc = "idle" /\ replay # <<>>
  /\ Become("replay", JobOf(Head(replay)))
  /\ replay' = Tail(replay)
  /\ UNCHANGED vars
  /\ UNCHANGED <<up, faults, lost, orders, log, mailbox, handled, refs>>

----------------------------------------------------------------------------
(* The live loop: one event at a time.                                     *)

\* Mutant: the thread's project is looked up in a row the delete has removed.
PrunedByRow(t) == IF Live(docs[t]) THEN {} ELSE refs[t]
\* Every ref under the deleted thread's prefix, the project read off the log.
Pruned(t) == {}

TakeRestore(event) ==
  /\ event.type = "restore.requested"
  /\ Become("live", JobOf(event))
  /\ UNCHANGED refs

\* A deleted thread is not captured, nor one whose project is gone.
TakeCompletion(event) ==
  /\ event.type = "turn.completed"
  /\ UNCHANGED refs
  /\ IF Live(docs[event.thread]) /\ ProjectOf[event.thread] \in projects
     THEN Become("live", [Idle EXCEPT !.pc = "capture", !.thread = event.thread,
                                      !.turn = event.turn])
     ELSE UNCHANGED fibers

TakeDeletion(event) ==
  /\ event.type = "thread.deleted"
  /\ refs' = [refs EXCEPT ![event.thread] = Pruned(event.thread)]
  /\ UNCHANGED fibers

\* Every thread ever created in the project: the log is read, not the rows.
TakeRemoval(event) ==
  /\ event.type = "project.removed"
  /\ refs' = [t \in Threads |-> IF ProjectOf[t] = event.project THEN {} ELSE refs[t]]
  /\ UNCHANGED fibers

LiveTakes ==
  /\ up /\ fibers["live"].pc = "idle" /\ mailbox # <<>>
  /\ LET event == Head(mailbox)
     IN  \/ TakeRestore(event) \/ TakeCompletion(event)
         \/ TakeDeletion(event) \/ TakeRemoval(event)
  /\ mailbox' = Tail(mailbox)
  /\ UNCHANGED vars
  /\ UNCHANGED <<up, faults, lost, orders, log, handled, replay>>

\* The snapshot's last git step points the hidden ref at it; or it failed, or
\* there was nothing to snapshot, and only a non-fatal error may be recorded.
CaptureGit ==
  LET job == fibers["live"]
  IN  /\ up /\ job.pc = "capture"
      /\ \E ok \in BOOLEAN :
           /\ refs' = IF ok THEN [refs EXCEPT ![job.thread] = @ \cup {job.turn}] ELSE refs
           /\ IF ok THEN GoTo("live", "created") ELSE Become("live", Idle)
      /\ UNCHANGED vars
      /\ UNCHANGED <<up, faults, lost, orders, log, mailbox, handled, replay>>

CaptureCreated ==
  LET job == fibers["live"]
  IN  /\ up /\ job.pc = "created"
      /\ AppendIfLive(job.thread, <<CheckpointCreated(job.turn)>>)
      /\ Become("live", Idle)
      /\ UNCHANGED <<projects, turns, messages, requests>>
      /\ UNCHANGED <<up, faults, lost, orders, log, mailbox, handled, replay, refs>>

----------------------------------------------------------------------------
(* Kill and boot.                                                          *)

Kill ==
  /\ up /\ "kill" \in Faults /\ faults < MaxFaults
  /\ up' = FALSE /\ faults' = faults + 1 /\ lost' = FALSE
  /\ mailbox' = <<>> /\ handled' = {} /\ replay' = <<>>
  /\ fibers' = [f \in Fibers |-> Idle]
  /\ UNCHANGED vars /\ UNCHANGED <<orders, log, refs>>

\* The list is read while the layer is built, before a client can connect.
Boot ==
  /\ ~up /\ up' = TRUE
  /\ replay' = PendingRestores
  /\ UNCHANGED vars
  /\ UNCHANGED <<faults, lost, orders, log, mailbox, handled, fibers, refs>>

----------------------------------------------------------------------------
CheckpointInit ==
  /\ Init
  /\ up = TRUE /\ faults = 0 /\ lost = FALSE /\ orders = 0
  /\ log = <<>> /\ mailbox = <<>> /\ handled = {} /\ replay = <<>>
  /\ fibers = [f \in Fibers |-> Idle]
  /\ refs = [t \in Threads |-> {}]

LiveStep == LiveTakes \/ CaptureGit \/ CaptureCreated \/ RestoreStepOf("live")
ReplayStep == ReplayNext \/ RestoreStepOf("replay")

CheckpointNext ==
  \/ \E t \in Threads : ClientStepOf(t) \/ TurnEnds(t)
  \/ \E p \in Projects :
       up /\ Len(mailbox) < MaxMailbox /\ (ClientCreates(p) \/ ClientRemoves(p))
  \/ LiveStep \/ ReplayStep
  \/ \E f \in Fibers : SettleFails(f)
  \/ Kill \/ Boot

CheckpointSafe == CheckpointInit /\ [][CheckpointNext]_cvars

\* The runtime runs both fibers, and a killed server is started again.
CheckpointFair ==
  /\ CheckpointSafe
  /\ WF_cvars(LiveStep) /\ WF_cvars(ReplayStep) /\ WF_cvars(Boot)
=============================================================================
