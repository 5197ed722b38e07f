---------------------------- MODULE ThreadState ----------------------------
(***************************************************************************)
(* The thread document and its fold (orchestration/state.ts).  A document  *)
(* is a record; an event is a record with a "type"; Apply is the fold's    *)
(* step, one operator per group of events.  Titles, timestamps, text,      *)
(* usage and the timeline rows are left out: of the rows only whether the  *)
(* user ever spoke is kept, because threadLocksConnector reads it.  The    *)
(* decisions kept are those on approvals and questions.                    *)
(***************************************************************************)
EXTENDS Naturals, Sequences, FiniteSets

CONSTANTS Instances,    \* connector instances a thread can run on
          NoInstance    \* "no instance": nothing chosen, or nothing bound

ASSUME InstanceAssumption == NoInstance \notin Instances

Statuses == {"idle", "running", "waiting", "error", "archived"}

\* What a session said about itself: null `capabilities` are "unknown".
Steering == {"yes", "no", "unknown"}

NoSession == [instance |-> NoInstance, steering |-> "unknown"]

\* `life` is "none" where the code has a null document and "deleted" where
\* the document (and its row) is gone; 0 is the null turn, plan or restore.
\* `restoring` holds the turn of the checkpoint being restored, which is the
\* code's pair restoring / restoringCheckpoint.
DocFields == {"life", "status", "session", "chosen", "spoke", "turn", "interrupting",
              "queue", "approvals", "userInputs", "plan", "decisions",
              "checkpoints", "restoring"}

NoDoc == [life |-> "none", status |-> "idle", session |-> NoSession, chosen |-> NoInstance,
          spoke |-> FALSE, turn |-> 0, interrupting |-> FALSE, queue |-> <<>>,
          approvals |-> {}, userInputs |-> {}, plan |-> 0, decisions |-> <<>>,
          checkpoints |-> {}, restoring |-> 0]

Live(d) == d.life = "live"

----------------------------------------------------------------------------
(* Events, as the decider, the reactors and the ingestion write them.      *)

Created(i)          == [type |-> "thread.created", instance |-> i]
Archived            == [type |-> "thread.archived"]
Unarchived          == [type |-> "thread.unarchived"]
Deleted             == [type |-> "thread.deleted"]
SessionBound(i, s)  == [type |-> "thread.session.bound", instance |-> i, steering |-> s]
SessionLost         == [type |-> "thread.session.lost"]
TurnRequested(m)    == [type |-> "thread.turn.requested", turn |-> m]
TurnStarted(m)      == [type |-> "thread.turn.started", turn |-> m]
TurnCompleted(m)    == [type |-> "thread.turn.completed", turn |-> m]
TurnSteered(m)      == [type |-> "thread.turn.steered", turn |-> m]
TurnInterrupted(m)  == [type |-> "thread.turn.interrupted", turn |-> m]
UserRow(m)          == [type |-> "thread.item.upserted", turn |-> m]
Queued(q)           == [type |-> "thread.message.queued", message |-> q]
Dequeued(q)         == [type |-> "thread.message.dequeued", message |-> q]
Reordered(o)        == [type |-> "thread.queue.reordered", order |-> o]
ApprovalOpened(r)   == [type |-> "thread.approval.opened", request |-> r]
ApprovalResolved(r, by) == [type |-> "thread.approval.resolved", request |-> r, actor |-> by]
InputRequested(r)   == [type |-> "thread.userInput.requested", request |-> r]
InputResolved(r, by) == [type |-> "thread.userInput.resolved", request |-> r, actor |-> by]
PlanProposed(m)     == [type |-> "thread.plan.proposed", turn |-> m]
PlanResponded(m)    == [type |-> "thread.plan.responded", turn |-> m]
SettingsUpdated(i)  == [type |-> "thread.settings.updated", instance |-> i]
CheckpointCreated(m) == [type |-> "thread.checkpoint.created", turn |-> m]
RestoreRequested(m) == [type |-> "thread.checkpoint.restore.requested", turn |-> m]
RestoreSettled(ok)  == [type |-> IF ok THEN "thread.checkpoint.restored"
                                       ELSE "thread.checkpoint.restore.failed"]
ThreadError(fatal)  == [type |-> "thread.error", fatal |-> fatal]

----------------------------------------------------------------------------
(* The fold.                                                               *)

HasCard(d) == d.approvals # {} \/ d.userInputs # {} \/ d.plan # 0

\* Mutant: the settled thread forgets the cards it still shows.
WaitingOrRests(d, fallback) == fallback

WaitingOr(d, fallback) == IF HasCard(d) THEN "waiting" ELSE fallback

\* A card that was just answered: the turn runs on, or the thread rests.
Answered(d) == [d EXCEPT !.status = IF d.turn = 0 THEN WaitingOr(d, "idle") ELSE "running"]

\* Mutant: the raw actor is stored where the log wants an outcome.
OutcomeIsActor(by) == by

\* The connector reaching an open request first means nobody answered it.
Outcome(by) == IF by = "connector" THEN "unanswered" ELSE "answered"

\* Mutant: an echo of an answered request is recorded again.
WithDecisionEchoed(d, wasOpen, id, outcome) == Append(d.decisions, [id |-> id, outcome |-> outcome])

\* The decision log after a resolve event: only an open request is recorded.
WithDecision(d, wasOpen, id, outcome) ==
  IF wasOpen THEN Append(d.decisions, [id |-> id, outcome |-> outcome]) ELSE d.decisions

\* Turn settled: a completion that names another turn changes nothing.
Settled(d, m) ==
  IF d.turn # 0 /\ d.turn # m THEN d
  ELSE [d EXCEPT !.turn = 0, !.interrupting = FALSE,
                 !.status = IF d.status = "archived" THEN "archived" ELSE WaitingOr(d, "idle")]

\* Mutant: the stop outlives the turn it was for.
AbandonedStopping(d) == [d EXCEPT !.approvals = {}, !.userInputs = {}, !.turn = 0]

\* The dead process's cards and its turn go; the session is the caller's.
Abandoned(d) ==
  [d EXCEPT !.approvals = {}, !.userInputs = {}, !.turn = 0, !.interrupting = FALSE]

\* What a sequence holds at some of its places, in their order: a filter.  (The
\* provers cannot see into SelectSeq, which takes an operator.)
Keeping(s, places) ==
  [i \in 1..Cardinality(places) |->
     s[CHOOSE k \in places : Cardinality({j \in places : j <= k}) = i]]

Holds(queue, q) == \E k \in DOMAIN queue : queue[k] = q

Without(queue, q) == Keeping(queue, {k \in DOMAIN queue : queue[k] # q})

\* Mutant: the ids the order did not know are put back unfiltered.
InOrderUnfiltered(queue, order) == order \o queue

\* The order names ids; ids it does not know keep their place behind them.
InOrder(queue, order) ==
  Keeping(order, {k \in DOMAIN order : Holds(queue, order[k])}) \o
  Keeping(queue, {k \in DOMAIN queue : ~Holds(order, queue[k])})

ApplySession(d, e) ==
  CASE e.type = "thread.session.bound" ->
         [d EXCEPT !.session = [instance |-> e.instance, steering |-> e.steering]]
    [] e.type = "thread.session.lost" ->
         [Abandoned(d) EXCEPT !.session = NoSession, !.status = "error"]

ApplyTurn(d, e) ==
  CASE e.type = "thread.turn.requested" -> [d EXCEPT !.turn = e.turn, !.status = "running"]
    [] e.type = "thread.turn.started" -> [d EXCEPT !.status = "running"]
    [] e.type = "thread.turn.completed" -> Settled(d, e.turn)
    [] e.type = "thread.turn.steered" -> d
    [] e.type = "thread.turn.interrupted" -> [d EXCEPT !.interrupting = TRUE, !.status = "running"]
    [] e.type = "thread.error" ->
         IF e.fatal THEN [d EXCEPT !.status = "error", !.turn = 0, !.interrupting = FALSE] ELSE d

ApplyQueue(d, e) ==
  CASE e.type = "thread.message.queued" -> [d EXCEPT !.queue = Append(@, e.message)]
    [] e.type = "thread.message.dequeued" ->
         [d EXCEPT !.queue = Without(@, e.message)]
    [] e.type = "thread.queue.reordered" -> [d EXCEPT !.queue = InOrder(@, e.order)]

ApplyCards(d, e) ==
  CASE e.type = "thread.approval.opened" ->
         [d EXCEPT !.approvals = @ \cup {e.request}, !.status = "waiting"]
    [] e.type = "thread.approval.resolved" ->
         Answered([d EXCEPT !.approvals = @ \ {e.request},
                            !.decisions = WithDecision(d, e.request \in d.approvals,
                                                       e.request, Outcome(e.actor))])
    [] e.type = "thread.userInput.requested" ->
         [d EXCEPT !.userInputs = @ \cup {e.request}, !.status = "waiting"]
    [] e.type = "thread.userInput.resolved" ->
         Answered([d EXCEPT !.userInputs = @ \ {e.request},
                            !.decisions = WithDecision(d, e.request \in d.userInputs,
                                                       e.request, Outcome(e.actor))])
    [] e.type = "thread.plan.proposed" -> [d EXCEPT !.plan = e.turn, !.status = "waiting"]
    [] e.type = "thread.plan.responded" -> Answered([d EXCEPT !.plan = 0])

\* Mutant: a restore that failed leaves the thread restoring.
ApplyRestoreUntilRestored(d, e) ==
  CASE e.type = "thread.checkpoint.created" -> [d EXCEPT !.checkpoints = @ \cup {e.turn}]
    [] e.type = "thread.checkpoint.restore.requested" -> [d EXCEPT !.restoring = e.turn]
    [] e.type = "thread.checkpoint.restored" -> [d EXCEPT !.restoring = 0]
    [] e.type = "thread.checkpoint.restore.failed" -> d

ApplyRestore(d, e) ==
  CASE e.type = "thread.checkpoint.created" -> [d EXCEPT !.checkpoints = @ \cup {e.turn}]
    [] e.type = "thread.checkpoint.restore.requested" -> [d EXCEPT !.restoring = e.turn]
    [] e.type \in {"thread.checkpoint.restored", "thread.checkpoint.restore.failed"} ->
         [d EXCEPT !.restoring = 0]

ApplyLife(d, e) ==
  CASE e.type = "thread.archived" -> [d EXCEPT !.status = "archived"]
    [] e.type = "thread.unarchived" ->
         [Abandoned(d) EXCEPT !.status = IF d.plan # 0 THEN "waiting" ELSE "idle"]
    [] e.type = "thread.deleted" -> [d EXCEPT !.life = "deleted"]

LifeEvents == {"thread.archived", "thread.unarchived", "thread.deleted"}
SessionEvents == {"thread.session.bound", "thread.session.lost"}
TurnEvents == {"thread.turn.requested", "thread.turn.started", "thread.turn.completed",
               "thread.turn.steered", "thread.turn.interrupted", "thread.error"}
QueueEvents == {"thread.message.queued", "thread.message.dequeued", "thread.queue.reordered"}
CardEvents == {"thread.approval.opened", "thread.approval.resolved",
               "thread.userInput.requested", "thread.userInput.resolved",
               "thread.plan.proposed", "thread.plan.responded"}
RestoreEvents == {"thread.checkpoint.created", "thread.checkpoint.restore.requested",
                  "thread.checkpoint.restored", "thread.checkpoint.restore.failed"}

ApplyExisting(d, e) ==
  CASE e.type \in LifeEvents -> ApplyLife(d, e)
    [] e.type \in SessionEvents -> ApplySession(d, e)
    [] e.type \in TurnEvents -> ApplyTurn(d, e)
    [] e.type \in QueueEvents -> ApplyQueue(d, e)
    [] e.type \in CardEvents -> ApplyCards(d, e)
    [] e.type \in RestoreEvents -> ApplyRestore(d, e)
    [] e.type = "thread.item.upserted" -> [d EXCEPT !.spoke = TRUE]
    [] e.type = "thread.settings.updated" ->
         [d EXCEPT !.chosen = IF e.instance = NoInstance THEN @ ELSE e.instance]

\* The fold's step (applyThreadEvent).
Apply(d, e) ==
  IF e.type = "thread.created" THEN [NoDoc EXCEPT !.life = "live", !.chosen = e.instance]
  ELSE IF d.life = "none" THEN d
  ELSE ApplyExisting(d, e)

\* Commands and reactors append at most two events in one transaction.
ApplyAll(d, events) ==
  CASE Len(events) = 0 -> d
    [] Len(events) = 1 -> Apply(d, events[1])
    [] Len(events) = 2 -> Apply(Apply(d, events[1]), events[2])

\* Whether the thread may still change its connector instance.
LocksConnector(d) == d.session # NoSession \/ d.turn # 0 \/ d.spoke
=============================================================================
