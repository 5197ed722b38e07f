---------------------------- MODULE ClientState ----------------------------
(***************************************************************************)
(* The client's fold of a thread (client-runtime/src/clientState.ts): the  *)
(* same events as ThreadState.tla, on what a snapshot carries.  A snapshot *)
(* holds only the head of each list of open cards; 0 is no card.  Rows,    *)
(* titles, usage and the reason of a failed restore are left out.          *)
(***************************************************************************)
EXTENDS ThreadState

\* Request ids grow, so the head of the server's list is the smallest.
HeadCard(cards) == IF cards = {} THEN 0 ELSE CHOOSE r \in cards : \A other \in cards : r <= other

\* What the server answers a fresh subscription with.
SnapshotOf(d) ==
  [status |-> d.status, session |-> d.session, turn |-> d.turn, queue |-> d.queue,
   approval |-> HeadCard(d.approvals), userInput |-> HeadCard(d.userInputs), plan |-> d.plan,
   decisions |-> d.decisions, checkpoints |-> d.checkpoints, restoring |-> d.restoring]

ShowsCard(v) == v.approval # 0 \/ v.userInput # 0 \/ v.plan # 0

ViewWaitingOr(v, fallback) == IF ShowsCard(v) THEN "waiting" ELSE fallback

\* Where one answered card leaves the view; its own card is already cleared.
ViewAnswered(v) == [v EXCEPT !.status = IF v.turn = 0 THEN ViewWaitingOr(v, "idle") ELSE "running"]

Recorded(v, id) == \E k \in DOMAIN v.decisions : v.decisions[k].id = id

ViewDecided(v, id, by) ==
  [v EXCEPT !.decisions = Append(@, [id |-> id, outcome |-> Outcome(by)])]

\* Mutant: every resolve is recorded, the connector's echo too.
ViewResolvedEchoed(v, e, field) ==
  IF v[field] = e.request THEN ViewAnswered([ViewDecided(v, e.request, e.actor) EXCEPT ![field] = 0])
  ELSE ViewDecided(v, e.request, e.actor)

\* An answer to a card behind the head is recorded too, unless it already was.
ViewResolved(v, e, field) ==
  IF v[field] = e.request THEN ViewAnswered([ViewDecided(v, e.request, e.actor) EXCEPT ![field] = 0])
  ELSE IF Recorded(v, e.request) THEN v ELSE ViewDecided(v, e.request, e.actor)

\* Mutant: a completion settles whatever turn is in flight.
ViewSettledAny(v, m) ==
  [v EXCEPT !.turn = 0,
            !.status = IF v.status = "archived" THEN "archived"
                       ELSE ViewWaitingOr(v, IF v.queue # <<>> THEN "running" ELSE "idle")]

\* With messages queued the view shows the turn the drain is about to start.
ViewSettled(v, m) ==
  IF v.turn # 0 /\ v.turn # m THEN v
  ELSE [v EXCEPT !.turn = 0,
                 !.status = IF v.status = "archived" THEN "archived"
                            ELSE ViewWaitingOr(v, IF v.queue # <<>> THEN "running" ELSE "idle")]

\* Mutant: the cards of a lost session stay up.
ViewAbandonedCards(v) == [v EXCEPT !.turn = 0]
ViewAbandoned(v) == [v EXCEPT !.turn = 0, !.approval = 0, !.userInput = 0]

ViewLife(v, e) ==
  CASE e.type = "thread.archived" -> [v EXCEPT !.status = "archived"]
    [] e.type = "thread.unarchived" ->
         [ViewAbandoned(v) EXCEPT !.status = IF v.plan # 0 THEN "waiting" ELSE "idle"]
    [] e.type = "thread.deleted" -> [v EXCEPT !.status = "deleted", !.turn = 0]

ViewSession(v, e) ==
  CASE e.type = "thread.session.bound" ->
         [v EXCEPT !.session = [instance |-> e.instance, steering |-> e.steering]]
    [] e.type = "thread.session.lost" ->
         [ViewAbandoned(v) EXCEPT !.session = NoSession, !.status = "error"]

ViewTurn(v, e) ==
  CASE e.type \in {"thread.turn.requested", "thread.turn.started"} ->
         [v EXCEPT !.turn = e.turn, !.status = "running"]
    [] e.type = "thread.turn.completed" -> ViewSettled(v, e.turn)
    [] e.type \in {"thread.turn.steered", "thread.turn.interrupted"} -> v
    [] e.type = "thread.error" -> IF e.fatal THEN [v EXCEPT !.status = "error", !.turn = 0] ELSE v

\* The queue's fold is the server's, event for event.
ViewQueue(v, e) ==
  CASE e.type = "thread.message.queued" -> [v EXCEPT !.queue = Append(@, e.message)]
    [] e.type = "thread.message.dequeued" ->
         [v EXCEPT !.queue = Without(@, e.message)]
    [] e.type = "thread.queue.reordered" -> [v EXCEPT !.queue = InOrder(@, e.order)]

\* A card that opens takes the place of the one shown.
ViewCards(v, e) ==
  CASE e.type = "thread.approval.opened" -> [v EXCEPT !.approval = e.request, !.status = "waiting"]
    [] e.type = "thread.userInput.requested" ->
         [v EXCEPT !.userInput = e.request, !.status = "waiting"]
    [] e.type = "thread.approval.resolved" -> ViewResolved(v, e, "approval")
    [] e.type = "thread.userInput.resolved" -> ViewResolved(v, e, "userInput")
    [] e.type = "thread.plan.proposed" -> [v EXCEPT !.plan = e.turn, !.status = "waiting"]
    [] e.type = "thread.plan.responded" ->
         IF v.plan = e.turn THEN ViewAnswered([v EXCEPT !.plan = 0]) ELSE v

ViewRestore(v, e) ==
  CASE e.type = "thread.checkpoint.created" -> [v EXCEPT !.checkpoints = @ \cup {e.turn}]
    [] e.type = "thread.checkpoint.restore.requested" -> [v EXCEPT !.restoring = e.turn]
    [] e.type \in {"thread.checkpoint.restored", "thread.checkpoint.restore.failed"} ->
         [v EXCEPT !.restoring = 0]

\* The fold's step (the client's applyThreadEvent).
ViewApply(v, e) ==
  CASE e.type \in LifeEvents -> ViewLife(v, e)
    [] e.type \in SessionEvents -> ViewSession(v, e)
    [] e.type \in TurnEvents -> ViewTurn(v, e)
    [] e.type \in QueueEvents -> ViewQueue(v, e)
    [] e.type \in CardEvents -> ViewCards(v, e)
    [] e.type \in RestoreEvents -> ViewRestore(v, e)
    [] OTHER -> v

ViewApplyAll(v, events) ==
  CASE Len(events) = 0 -> v
    [] Len(events) = 1 -> ViewApply(v, events[1])
    [] Len(events) = 2 -> ViewApply(ViewApply(v, events[1]), events[2])
=============================================================================
