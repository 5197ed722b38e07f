------------------------------ MODULE Decider ------------------------------
(***************************************************************************)
(* The decider (orchestration/decider.ts): command + document -> events.   *)
(* Pure, as in the code.  `ctx` carries the two cross-thread facts the     *)
(* engine gathers inside the transaction, `env` the ids it may mint.       *)
(***************************************************************************)
EXTENDS ThreadState

Rejected == [accepted |-> FALSE, events |-> <<>>]
Accepted(events) == [accepted |-> TRUE, events |-> events]

\* Reject when a condition fails; the message of the rejection is left out.
When(ok, events) == IF ok THEN Accepted(events) ELSE Rejected

\* Mutants: the thread's own restore, and a sibling's, no longer bar a turn.
TurnBarredBySiblings(d, ctx) == d.status = "archived" \/ ctx.restoreInFlight
TurnBarredByOwnRestore(d, ctx) == d.status = "archived" \/ d.restoring # 0

TurnBarred(d, ctx) == d.status = "archived" \/ d.restoring # 0 \/ ctx.restoreInFlight

NewTurn(env) == <<TurnRequested(env.turn), UserRow(env.turn)>>

DecideCreate(cmd, d, ctx) == When(ctx.projectExists /\ ~Live(d), <<Created(cmd.instance)>>)

\* Mutant: a message the client did not ask to queue starts over a live turn.
DecideTurnStartOver(cmd, d, ctx, env) ==
  IF TurnBarred(d, ctx) THEN Rejected
  ELSE IF d.turn # 0 /\ cmd.queued THEN Accepted(<<Queued(env.message)>>)
  ELSE Accepted(NewTurn(env))

DecideTurnStart(cmd, d, ctx, env) ==
  IF TurnBarred(d, ctx) THEN Rejected
  ELSE IF d.turn # 0 THEN When(cmd.queued \/ d.interrupting, <<Queued(env.message)>>)
  ELSE Accepted(NewTurn(env))

DecideSteer(d, ctx, env) ==
  IF TurnBarred(d, ctx) THEN Rejected
  ELSE IF d.turn = 0 THEN Accepted(NewTurn(env))
  ELSE IF d.interrupting THEN Accepted(<<Queued(env.message)>>)
  ELSE CASE d.session.steering = "no" -> Rejected
         [] d.session.steering = "unknown" -> Accepted(<<Queued(env.message)>>)
         [] d.session.steering = "yes" -> Accepted(<<TurnSteered(d.turn), UserRow(d.turn)>>)

\* The instance a locked thread runs on: the bound session's, else its choice.
CurrentInstance(d) ==
  IF LocksConnector(d) /\ d.session # NoSession THEN d.session.instance ELSE d.chosen

DecideSettings(cmd, d) ==
  LET differs == cmd.instance # NoInstance /\ cmd.instance # CurrentInstance(d)
      locked  == LocksConnector(d)
  IN  When(~(differs /\ locked /\ CurrentInstance(d) # NoInstance),
           <<SettingsUpdated(IF differs /\ ~locked THEN cmd.instance ELSE NoInstance)>>)

\* Where a message stands in the queue, and the queue with it moved to `to`.
MovedTo(queue, message, to) ==
  LET others == Without(queue, message)
  IN  SubSeq(others, 1, to - 1) \o <<message>> \o SubSeq(others, to, Len(others))

DecideReorder(cmd, d) ==
  LET moved == MovedTo(d.queue, cmd.message, cmd.to)
  IN  IF ~Holds(d.queue, cmd.message) \/ cmd.to > Len(d.queue) THEN Rejected
      ELSE IF moved = d.queue THEN Accepted(<<>>) ELSE Accepted(<<Reordered(moved)>>)

\* `thread.create` is the one command of a thread that may not exist.
DecideLive(cmd, d, ctx, env) ==
  CASE cmd.type = "thread.archive" -> When(d.status # "archived", <<Archived>>)
    [] cmd.type = "thread.unarchive" -> When(d.status = "archived", <<Unarchived>>)
    [] cmd.type = "thread.delete" -> Accepted(<<Deleted>>)
    [] cmd.type = "thread.turn.start" -> DecideTurnStart(cmd, d, ctx, env)
    [] cmd.type = "thread.turn.steer" -> DecideSteer(d, ctx, env)
    [] cmd.type = "thread.turn.interrupt" ->
         When(d.turn # 0 /\ ~d.interrupting, <<TurnInterrupted(d.turn)>>)
    [] cmd.type = "thread.settings.update" -> DecideSettings(cmd, d)
    [] cmd.type = "thread.approval.respond" ->
         When(cmd.request \in d.approvals, <<ApprovalResolved(cmd.request, "user")>>)
    [] cmd.type = "thread.userInput.respond" ->
         When(cmd.request \in d.userInputs, <<InputResolved(cmd.request, "user")>>)
    [] cmd.type = "thread.plan.respond" ->
         When(d.plan # 0 /\ d.plan = cmd.turn, <<PlanResponded(cmd.turn)>>)
    [] cmd.type = "thread.queue.remove" ->
         When(Holds(d.queue, cmd.message), <<Dequeued(cmd.message)>>)
    [] cmd.type = "thread.queue.reorder" -> DecideReorder(cmd, d)
    [] cmd.type = "thread.checkpoint.restore" ->
         When(/\ d.turn = 0
              /\ d.restoring = 0
              /\ ~ctx.restoreInFlight
              /\ cmd.turn \in d.checkpoints,
              <<RestoreRequested(cmd.turn)>>)

Decide(cmd, d, ctx, env) ==
  IF cmd.type = "thread.create" THEN DecideCreate(cmd, d, ctx)
  ELSE IF ~Live(d) THEN Rejected
  ELSE DecideLive(cmd, d, ctx, env)
=============================================================================
