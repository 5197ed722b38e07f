---------------------------- MODULE EngineProofs ----------------------------
(***************************************************************************)
(* Proofs about Engine.tla, for every value of its constants.  The         *)
(* argument goes up in three layers: what one event of the fold does to a  *)
(* document (the *Step lemmas and ApplyKeeps), what a whole commit does to *)
(* it (CommitOK), and what a step of the engine does to all the documents  *)
(* (NextCommits); the theorems read the result off the last layer.         *)
(***************************************************************************)
EXTENDS EngineProps, FiniteSetTheorems, SequenceTheorems, TLAPS

\* A document is a record over DocFields, whatever its queue holds.
Shaped(d) == d = [f \in DocFields |-> d[f]]

\* The document invariant: what every event of the fold preserves by itself.
DocInv(d) ==
  /\ Shaped(d)
  /\ d.session.steering \in Steering
  /\ d.interrupting => d.turn # 0
  /\ d.status = "idle" => d.turn = 0 /\ ~HasCard(d)
  /\ d.status = "waiting" => HasCard(d)
  /\ d.restoring # 0 => d.turn = 0

AllEvents ==
  LifeEvents \cup SessionEvents \cup TurnEvents \cup QueueEvents \cup CardEvents
  \cup RestoreEvents \cup {"thread.created", "thread.item.upserted", "thread.settings.updated"}

\* What the writer of an event owes the document it is appended to.
EventOK(d, e) ==
  /\ e.type \in AllEvents
  /\ e.type = "thread.session.bound" => e.steering \in Steering
  /\ e.type = "thread.turn.requested" => e.turn # 0 /\ d.restoring = 0
  /\ e.type = "thread.turn.interrupted" => d.turn # 0
  /\ e.type = "thread.plan.proposed" => e.turn # 0
  /\ e.type = "thread.checkpoint.restore.requested" => d.turn = 0

\* One step of the fold from d to c on e: the invariant is kept, and only the
\* two request events start a restore or a turn.
FoldStep(d, e, c) ==
  /\ DocInv(c)
  /\ c.restoring # 0 /\ Live(c)
       => (d.restoring # 0 /\ Live(d)) \/ e.type = "thread.checkpoint.restore.requested"
  /\ c.turn \notin {0, d.turn} => e.type = "thread.turn.requested" /\ c.turn = e.turn

\* Archiving, un-archiving and deleting a thread keep the document invariant.
LEMMA LifeStep ==
  ASSUME NEW d, NEW e, DocInv(d), EventOK(d, e), e.type \in LifeEvents
  PROVE  FoldStep(d, e, ApplyLife(d, e))
<1>1. CASE e.type = "thread.archived"
  <2>1. ApplyLife(d, e) = [d EXCEPT !.status = "archived"]
    BY <1>1 DEF ApplyLife
  <2> QED BY <2>1 DEF FoldStep, Live, DocInv, Shaped, DocFields, HasCard
<1>2. CASE e.type = "thread.unarchived"
  <2>1. ApplyLife(d, e) = [Abandoned(d) EXCEPT !.status = IF d.plan # 0 THEN "waiting" ELSE "idle"]
    BY <1>2 DEF ApplyLife
  <2> QED BY <2>1 DEF FoldStep, Live, DocInv, Shaped, DocFields, HasCard, Abandoned
<1>3. CASE e.type = "thread.deleted"
  <2>1. ApplyLife(d, e) = [d EXCEPT !.life = "deleted"]
    BY <1>3 DEF ApplyLife
  <2> QED BY <2>1 DEF FoldStep, Live, DocInv, Shaped, DocFields, HasCard
<1> QED BY <1>1, <1>2, <1>3 DEF LifeEvents

\* Binding a session and losing one keep the document invariant.
LEMMA SessionStep ==
  ASSUME NEW d, NEW e, DocInv(d), EventOK(d, e), e.type \in SessionEvents
  PROVE  FoldStep(d, e, ApplySession(d, e))
<1>1. CASE e.type = "thread.session.bound"
  <2>1. ApplySession(d, e)
          = [d EXCEPT !.session = [instance |-> e.instance, steering |-> e.steering]]
    BY <1>1 DEF ApplySession
  <2> QED BY <1>1, <2>1 DEF FoldStep, Live, DocInv, Shaped, DocFields, HasCard, EventOK
<1>2. CASE e.type = "thread.session.lost"
  <2>1. ApplySession(d, e) = [Abandoned(d) EXCEPT !.session = NoSession, !.status = "error"]
    BY <1>2 DEF ApplySession
  <2>2. NoSession.steering \in Steering
    BY DEF NoSession, Steering
  <2> QED BY <2>1, <2>2 DEF FoldStep, Live, DocInv, Shaped, DocFields, HasCard, Abandoned
<1> QED BY <1>1, <1>2 DEF SessionEvents

\* Every event of a turn's life keeps the document invariant; only its request sets a turn.
LEMMA TurnStep ==
  ASSUME NEW d, NEW e, DocInv(d), EventOK(d, e), e.type \in TurnEvents
  PROVE  FoldStep(d, e, ApplyTurn(d, e))
<1>1. CASE e.type = "thread.turn.requested"
  <2>1. ApplyTurn(d, e) = [d EXCEPT !.turn = e.turn, !.status = "running"]
    BY <1>1 DEF ApplyTurn
  <2> QED BY <1>1, <2>1 DEF FoldStep, Live, DocInv, Shaped, DocFields, HasCard, EventOK
<1>2. CASE e.type = "thread.turn.started"
  <2>1. ApplyTurn(d, e) = [d EXCEPT !.status = "running"]
    BY <1>2 DEF ApplyTurn
  <2> QED BY <2>1 DEF FoldStep, Live, DocInv, Shaped, DocFields, HasCard
<1>3. CASE e.type = "thread.turn.completed"
  <2>1. ApplyTurn(d, e) = Settled(d, e.turn)
    BY <1>3 DEF ApplyTurn
  <2> QED BY <2>1 DEF FoldStep, Live, DocInv, Shaped, DocFields, HasCard, Settled, WaitingOr
<1>4. CASE e.type = "thread.turn.steered"
  <2>1. ApplyTurn(d, e) = d
    BY <1>4 DEF ApplyTurn
  <2> QED BY <2>1 DEF FoldStep
<1>5. CASE e.type = "thread.turn.interrupted"
  <2>1. ApplyTurn(d, e) = [d EXCEPT !.interrupting = TRUE, !.status = "running"]
    BY <1>5 DEF ApplyTurn
  <2> QED BY <1>5, <2>1 DEF FoldStep, Live, DocInv, Shaped, DocFields, HasCard, EventOK
<1>6. CASE e.type = "thread.error"
  <2>1. \/ ApplyTurn(d, e) = d
        \/ ApplyTurn(d, e) = [d EXCEPT !.status = "error", !.turn = 0, !.interrupting = FALSE]
    BY <1>6 DEF ApplyTurn
  <2> QED BY <2>1 DEF FoldStep, Live, DocInv, Shaped, DocFields, HasCard
<1> QED BY <1>1, <1>2, <1>3, <1>4, <1>5, <1>6 DEF TurnEvents

\* Queue events touch nothing but the queue.
LEMMA QueueStep ==
  ASSUME NEW d, NEW e, DocInv(d), e.type \in QueueEvents
  PROVE  FoldStep(d, e, ApplyQueue(d, e))
<1>1. \E q : ApplyQueue(d, e) = [d EXCEPT !.queue = q]
  BY DEF ApplyQueue, QueueEvents
<1>2. PICK q : ApplyQueue(d, e) = [d EXCEPT !.queue = q]
  BY <1>1
<1> QED BY <1>2 DEF FoldStep, Live, DocInv, Shaped, DocFields, HasCard

\* The status an answered card leaves behind suits the cards and the turn that remain.
LEMMA AnsweredKeeps ==
  ASSUME NEW d, NEW c, DocInv(d), Shaped(c), c.session = d.session, c.turn = d.turn, c.life = d.life,
         c.interrupting = d.interrupting, c.restoring = d.restoring
  PROVE  /\ DocInv(Answered(c))
         /\ Answered(c).turn = d.turn /\ Answered(c).life = d.life
         /\ Answered(c).restoring = d.restoring
BY DEF DocInv, Shaped, DocFields, HasCard, Answered, WaitingOr

\* Opening and answering approvals, questions and plans keep the document invariant.
LEMMA CardStep ==
  ASSUME NEW d, NEW e, DocInv(d), EventOK(d, e), e.type \in CardEvents
  PROVE  FoldStep(d, e, ApplyCards(d, e))
<1>1. CASE e.type = "thread.approval.opened"
  <2>1. ApplyCards(d, e) = [d EXCEPT !.approvals = @ \cup {e.request}, !.status = "waiting"]
    BY <1>1 DEF ApplyCards
  <2> QED BY <2>1 DEF FoldStep, Live, DocInv, Shaped, DocFields, HasCard
<1>2. CASE e.type = "thread.userInput.requested"
  <2>1. ApplyCards(d, e) = [d EXCEPT !.userInputs = @ \cup {e.request}, !.status = "waiting"]
    BY <1>2 DEF ApplyCards
  <2> QED BY <2>1 DEF FoldStep, Live, DocInv, Shaped, DocFields, HasCard
<1>3. CASE e.type = "thread.plan.proposed"
  <2>1. ApplyCards(d, e) = [d EXCEPT !.plan = e.turn, !.status = "waiting"]
    BY <1>3 DEF ApplyCards
  <2> QED BY <1>3, <2>1 DEF FoldStep, Live, DocInv, Shaped, DocFields, HasCard, EventOK
<1>4. CASE e.type = "thread.approval.resolved"
  <2>1. PICK x, y : ApplyCards(d, e) = Answered([d EXCEPT !.approvals = x, !.decisions = y])
    BY <1>4 DEF ApplyCards
  <2> DEFINE c == [d EXCEPT !.approvals = x, !.decisions = y]
  <2>2. Shaped(c) /\ c.session = d.session /\ c.turn = d.turn /\ c.life = d.life
        /\ c.interrupting = d.interrupting /\ c.restoring = d.restoring
    BY DEF DocInv, Shaped, DocFields
  <2>4. ApplyCards(d, e) = Answered(c)
    BY <2>1
  <2> HIDE DEF c
  <2>3. /\ DocInv(Answered(c))
        /\ Answered(c).turn = d.turn /\ Answered(c).life = d.life
        /\ Answered(c).restoring = d.restoring
    BY <2>2, AnsweredKeeps
  <2> QED BY <2>3, <2>4 DEF FoldStep, Live
<1>5. CASE e.type = "thread.userInput.resolved"
  <2>1. PICK x, y : ApplyCards(d, e) = Answered([d EXCEPT !.userInputs = x, !.decisions = y])
    BY <1>5 DEF ApplyCards
  <2> DEFINE c == [d EXCEPT !.userInputs = x, !.decisions = y]
  <2>2. Shaped(c) /\ c.session = d.session /\ c.turn = d.turn /\ c.life = d.life
        /\ c.interrupting = d.interrupting /\ c.restoring = d.restoring
    BY DEF DocInv, Shaped, DocFields
  <2>4. ApplyCards(d, e) = Answered(c)
    BY <2>1
  <2> HIDE DEF c
  <2>3. /\ DocInv(Answered(c))
        /\ Answered(c).turn = d.turn /\ Answered(c).life = d.life
        /\ Answered(c).restoring = d.restoring
    BY <2>2, AnsweredKeeps
  <2> QED BY <2>3, <2>4 DEF FoldStep, Live
<1>6. CASE e.type = "thread.plan.responded"
  <2>1. ApplyCards(d, e) = Answered([d EXCEPT !.plan = 0])
    BY <1>6 DEF ApplyCards
  <2> DEFINE c == [d EXCEPT !.plan = 0]
  <2>2. Shaped(c) /\ c.session = d.session /\ c.turn = d.turn /\ c.life = d.life
        /\ c.interrupting = d.interrupting /\ c.restoring = d.restoring
    BY DEF DocInv, Shaped, DocFields
  <2>4. ApplyCards(d, e) = Answered(c)
    BY <2>1
  <2> HIDE DEF c
  <2>3. /\ DocInv(Answered(c))
        /\ Answered(c).turn = d.turn /\ Answered(c).life = d.life
        /\ Answered(c).restoring = d.restoring
    BY <2>2, AnsweredKeeps
  <2> QED BY <2>3, <2>4 DEF FoldStep, Live
<1> QED BY <1>1, <1>2, <1>3, <1>4, <1>5, <1>6 DEF CardEvents

\* Checkpoint events keep the document invariant; only the request starts a restore.
LEMMA RestoreStep ==
  ASSUME NEW d, NEW e, DocInv(d), EventOK(d, e), e.type \in RestoreEvents
  PROVE  FoldStep(d, e, ApplyRestore(d, e))
<1>1. CASE e.type = "thread.checkpoint.created"
  <2>1. ApplyRestore(d, e) = [d EXCEPT !.checkpoints = @ \cup {e.turn}]
    BY <1>1 DEF ApplyRestore
  <2> QED BY <2>1 DEF FoldStep, Live, DocInv, Shaped, DocFields, HasCard
<1>2. CASE e.type = "thread.checkpoint.restore.requested"
  <2>1. ApplyRestore(d, e) = [d EXCEPT !.restoring = e.turn]
    BY <1>2 DEF ApplyRestore
  <2> QED BY <1>2, <2>1 DEF FoldStep, Live, DocInv, Shaped, DocFields, HasCard, EventOK
<1>3. CASE e.type \in {"thread.checkpoint.restored", "thread.checkpoint.restore.failed"}
  <2>1. ApplyRestore(d, e) = [d EXCEPT !.restoring = 0]
    BY <1>3 DEF ApplyRestore
  <2> QED BY <2>1 DEF FoldStep, Live, DocInv, Shaped, DocFields, HasCard
<1> QED BY <1>1, <1>2, <1>3 DEF RestoreEvents

\* Every event its writer may append preserves the document invariant.
LEMMA ApplyKeeps ==
  ASSUME NEW d, NEW e, DocInv(d), EventOK(d, e)
  PROVE  FoldStep(d, e, Apply(d, e))
<1>1. CASE e.type = "thread.created"
  BY <1>1 DEF Apply, NoDoc, NoSession, Steering, FoldStep, Live, DocInv, Shaped, DocFields, HasCard
<1>2. CASE e.type # "thread.created" /\ d.life = "none"
  BY <1>2 DEF Apply, FoldStep
<1>3. CASE e.type # "thread.created" /\ d.life # "none"
  <2>0. Apply(d, e) = ApplyExisting(d, e)
    BY <1>3 DEF Apply
  <2>1. CASE e.type \in LifeEvents
    <3>1. ApplyExisting(d, e) = ApplyLife(d, e)
      BY <2>1 DEF ApplyExisting, LifeEvents, SessionEvents, TurnEvents, QueueEvents, CardEvents, RestoreEvents
    <3> QED BY <2>0, <2>1, <3>1, LifeStep
  <2>2. CASE e.type \in SessionEvents
    <3>1. ApplyExisting(d, e) = ApplySession(d, e)
      BY <2>2 DEF ApplyExisting, LifeEvents, SessionEvents, TurnEvents, QueueEvents, CardEvents, RestoreEvents
    <3> QED BY <2>0, <2>2, <3>1, SessionStep
  <2>3. CASE e.type \in TurnEvents
    <3>1. ApplyExisting(d, e) = ApplyTurn(d, e)
      BY <2>3 DEF ApplyExisting, LifeEvents, SessionEvents, TurnEvents, QueueEvents, CardEvents, RestoreEvents
    <3> QED BY <2>0, <2>3, <3>1, TurnStep
  <2>4. CASE e.type \in QueueEvents
    <3>1. ApplyExisting(d, e) = ApplyQueue(d, e)
      BY <2>4 DEF ApplyExisting, LifeEvents, SessionEvents, TurnEvents, QueueEvents, CardEvents, RestoreEvents
    <3> QED BY <2>0, <2>4, <3>1, QueueStep
  <2>5. CASE e.type \in CardEvents
    <3>1. ApplyExisting(d, e) = ApplyCards(d, e)
      BY <2>5 DEF ApplyExisting, LifeEvents, SessionEvents, TurnEvents, QueueEvents, CardEvents, RestoreEvents
    <3> QED BY <2>0, <2>5, <3>1, CardStep
  <2>6. CASE e.type \in RestoreEvents
    <3>1. ApplyExisting(d, e) = ApplyRestore(d, e)
      BY <2>6 DEF ApplyExisting, LifeEvents, SessionEvents, TurnEvents, QueueEvents, CardEvents, RestoreEvents
    <3> QED BY <2>0, <2>6, <3>1, RestoreStep
  <2>7. CASE e.type = "thread.item.upserted"
    <3>1. ApplyExisting(d, e) = [d EXCEPT !.spoke = TRUE]
      BY <2>7 DEF ApplyExisting, LifeEvents, SessionEvents, TurnEvents, QueueEvents, CardEvents, RestoreEvents
    <3> QED BY <2>0, <3>1 DEF FoldStep, Live, DocInv, Shaped, DocFields, HasCard
  <2>8. CASE e.type = "thread.settings.updated"
    <3>1. \E i : ApplyExisting(d, e) = [d EXCEPT !.chosen = i]
      BY <2>8 DEF ApplyExisting, LifeEvents, SessionEvents, TurnEvents, QueueEvents, CardEvents, RestoreEvents
    <3>2. PICK i : ApplyExisting(d, e) = [d EXCEPT !.chosen = i]
      BY <3>1
    <3> QED BY <2>0, <3>2 DEF FoldStep, Live, DocInv, Shaped, DocFields, HasCard
  <2> QED BY <1>3, <2>1, <2>2, <2>3, <2>4, <2>5, <2>6, <2>7, <2>8 DEF EventOK, AllEvents
<1> QED BY <1>1, <1>2, <1>3
----------------------------------------------------------------------------
(* What a decided command hands the fold.                                  *)

\* The four shapes of an accepted decision.
DecidedOK(d, ctx, env, events) ==
  \/ events = <<>>
  \/ events = NewTurn(env) /\ ~TurnBarred(d, ctx) /\ d.turn = 0
  \/ events = <<TurnSteered(d.turn), UserRow(d.turn)>>
  \/ \E e : /\ events = <<e>>
            /\ EventOK(d, e)
            /\ e.type # "thread.turn.requested"
            /\ e.type = "thread.checkpoint.restore.requested" => ~ctx.restoreInFlight

ThreadCommands ==
  {"thread.archive", "thread.unarchive", "thread.delete", "thread.turn.start",
   "thread.turn.steer", "thread.turn.interrupt", "thread.settings.update",
   "thread.approval.respond", "thread.userInput.respond", "thread.plan.respond",
   "thread.queue.remove", "thread.queue.reorder", "thread.checkpoint.restore"}

\* A one-event decision that starts neither a turn nor a restore is always fine.
LEMMA PlainDecision ==
  ASSUME NEW d, NEW ctx, NEW env, NEW e,
         e.type \in AllEvents \ {"thread.session.bound", "thread.turn.requested", "thread.turn.interrupted",
                                 "thread.plan.proposed", "thread.checkpoint.restore.requested"}
  PROVE  DecidedOK(d, ctx, env, <<e>>)
BY DEF DecidedOK, EventOK

\* What thread.turn.start decides fits one of the four shapes.
LEMMA StartDecision ==
  ASSUME NEW cmd, NEW d, NEW ctx, NEW env, DecideTurnStart(cmd, d, ctx, env).accepted
  PROVE  DecidedOK(d, ctx, env, DecideTurnStart(cmd, d, ctx, env).events)
<1>1. DecidedOK(d, ctx, env, <<Queued(env.message)>>)
  BY PlainDecision DEF Queued, AllEvents, QueueEvents
<1>2. CASE d.turn # 0
  BY <1>1, <1>2 DEF DecideTurnStart, When, Accepted, Rejected
<1>3. CASE d.turn = 0
  BY <1>3 DEF DecideTurnStart, When, Accepted, Rejected, DecidedOK
<1> QED BY <1>2, <1>3

\* What thread.turn.steer decides fits one of the four shapes.
LEMMA SteerDecision ==
  ASSUME NEW d, NEW ctx, NEW env, d.session.steering \in Steering, DecideSteer(d, ctx, env).accepted
  PROVE  DecidedOK(d, ctx, env, DecideSteer(d, ctx, env).events)
<1>1. DecidedOK(d, ctx, env, <<Queued(env.message)>>)
  BY PlainDecision DEF Queued, AllEvents, QueueEvents
<1>2. DecidedOK(d, ctx, env, <<TurnSteered(d.turn), UserRow(d.turn)>>)
  BY DEF DecidedOK
<1>3. CASE d.turn = 0
  BY <1>3 DEF DecideSteer, Accepted, Rejected, DecidedOK
<1>4. CASE d.turn # 0 /\ d.interrupting
  BY <1>1, <1>4 DEF DecideSteer, Accepted, Rejected
<1>5. CASE d.turn # 0 /\ ~d.interrupting
  <2>1. DecideSteer(d, ctx, env) \in
          {Rejected, Accepted(<<Queued(env.message)>>),
           Accepted(<<TurnSteered(d.turn), UserRow(d.turn)>>)}
    BY <1>5 DEF DecideSteer, Steering
  <2> QED BY <1>1, <1>2, <2>1 DEF Accepted, Rejected
<1> QED BY <1>3, <1>4, <1>5

\* Whatever a live thread's command decides fits one of the four shapes.
LEMMA LiveDecision ==
  ASSUME NEW cmd, NEW d, NEW ctx, NEW env, DocInv(d), cmd.type \in ThreadCommands,
         DecideLive(cmd, d, ctx, env).accepted
  PROVE  DecidedOK(d, ctx, env, DecideLive(cmd, d, ctx, env).events)
<1> DEFINE r == DecideLive(cmd, d, ctx, env)
<1>1. CASE cmd.type = "thread.archive"
  <2>1. r = When(d.status # "archived", <<Archived>>)
    BY <1>1 DEF DecideLive
  <2> QED BY <2>1, PlainDecision DEF When, Accepted, Rejected, Archived, AllEvents, LifeEvents
<1>2. CASE cmd.type = "thread.unarchive"
  <2>1. r = When(d.status = "archived", <<Unarchived>>)
    BY <1>2 DEF DecideLive
  <2> QED BY <2>1, PlainDecision DEF When, Accepted, Rejected, Unarchived, AllEvents, LifeEvents
<1>3. CASE cmd.type = "thread.delete"
  <2>1. r = Accepted(<<Deleted>>)
    BY <1>3 DEF DecideLive
  <2> QED BY <2>1, PlainDecision DEF Accepted, Deleted, AllEvents, LifeEvents
<1>4. CASE cmd.type = "thread.turn.start"
  <2>1. r = DecideTurnStart(cmd, d, ctx, env)
    BY <1>4 DEF DecideLive
  <2> QED BY <2>1, StartDecision
<1>5. CASE cmd.type = "thread.turn.steer"
  <2>1. r = DecideSteer(d, ctx, env)
    BY <1>5 DEF DecideLive
  <2> QED BY <2>1, SteerDecision DEF DocInv
<1>6. CASE cmd.type = "thread.turn.interrupt"
  <2>1. r = When(d.turn # 0 /\ ~d.interrupting, <<TurnInterrupted(d.turn)>>)
    BY <1>6 DEF DecideLive
  <2>2. d.turn # 0 => EventOK(d, TurnInterrupted(d.turn))
    BY DEF EventOK, TurnInterrupted, AllEvents, TurnEvents
  <2>3. TurnInterrupted(d.turn).type = "thread.turn.interrupted"
    BY DEF TurnInterrupted
  <2>4. d.turn # 0 => DecidedOK(d, ctx, env, <<TurnInterrupted(d.turn)>>)
    BY <2>2, <2>3 DEF DecidedOK
  <2> QED BY <2>1, <2>4 DEF When, Accepted, Rejected
<1>7. CASE cmd.type = "thread.settings.update"
  <2>1. r = DecideSettings(cmd, d)
    BY <1>7 DEF DecideLive
  <2>2. PICK ok, i : r = When(ok, <<SettingsUpdated(i)>>)
    BY <2>1 DEF DecideSettings
  <2> QED BY <2>2, PlainDecision DEF When, Accepted, Rejected, SettingsUpdated, AllEvents
<1>8. CASE cmd.type = "thread.approval.respond"
  <2>1. r = When(cmd.request \in d.approvals, <<ApprovalResolved(cmd.request, "user")>>)
    BY <1>8 DEF DecideLive
  <2> QED BY <2>1, PlainDecision DEF When, Accepted, Rejected, ApprovalResolved, AllEvents, CardEvents
<1>9. CASE cmd.type = "thread.userInput.respond"
  <2>1. r = When(cmd.request \in d.userInputs, <<InputResolved(cmd.request, "user")>>)
    BY <1>9 DEF DecideLive
  <2> QED BY <2>1, PlainDecision DEF When, Accepted, Rejected, InputResolved, AllEvents, CardEvents
<1>10. CASE cmd.type = "thread.plan.respond"
  <2>1. r = When(d.plan # 0 /\ d.plan = cmd.turn, <<PlanResponded(cmd.turn)>>)
    BY <1>10 DEF DecideLive
  <2> QED BY <2>1, PlainDecision DEF When, Accepted, Rejected, PlanResponded, AllEvents, CardEvents
<1>11. CASE cmd.type = "thread.queue.remove"
  <2>1. PICK ok : r = When(ok, <<Dequeued(cmd.message)>>)
    BY <1>11 DEF DecideLive
  <2> QED BY <2>1, PlainDecision DEF When, Accepted, Rejected, Dequeued, AllEvents, QueueEvents
<1>12. CASE cmd.type = "thread.queue.reorder"
  <2>1. r = DecideReorder(cmd, d)
    BY <1>12 DEF DecideLive
  <2>2. r = Rejected \/ r = Accepted(<<>>) \/ \E o : r = Accepted(<<Reordered(o)>>)
    BY <2>1 DEF DecideReorder
  <2>3. \A o : DecidedOK(d, ctx, env, <<Reordered(o)>>)
    BY PlainDecision DEF Reordered, AllEvents, QueueEvents
  <2>4. DecidedOK(d, ctx, env, <<>>)
    BY DEF DecidedOK
  <2> QED BY <2>2, <2>3, <2>4 DEF Accepted, Rejected
<1>13. CASE cmd.type = "thread.checkpoint.restore"
  <2>1. r = When(/\ d.turn = 0 /\ d.restoring = 0 /\ ~ctx.restoreInFlight
                 /\ cmd.turn \in d.checkpoints, <<RestoreRequested(cmd.turn)>>)
    BY <1>13 DEF DecideLive
  <2>2. d.turn = 0 => EventOK(d, RestoreRequested(cmd.turn))
    BY DEF EventOK, RestoreRequested, AllEvents, RestoreEvents
  <2>3. RestoreRequested(cmd.turn).type = "thread.checkpoint.restore.requested"
    BY DEF RestoreRequested
  <2>4. d.turn = 0 /\ ~ctx.restoreInFlight
          => DecidedOK(d, ctx, env, <<RestoreRequested(cmd.turn)>>)
    BY <2>2, <2>3 DEF DecidedOK
  <2> QED BY <2>1, <2>4 DEF When, Accepted, Rejected
<1> QED
  BY <1>1, <1>2, <1>3, <1>4, <1>5, <1>6, <1>7, <1>8, <1>9, <1>10, <1>11, <1>12, <1>13
     DEF ThreadCommands

----------------------------------------------------------------------------
(* A commit: all the events of one transaction, on one document.           *)

\* What a commit may make of a document d, given the facts it was decided on.
CommitOK(d, c, ctx) ==
  /\ DocInv(c)
  /\ c.restoring # 0 /\ Live(c) => (d.restoring # 0 /\ Live(d)) \/ ~ctx.restoreInFlight
  /\ c.turn \notin {0, d.turn} => d.turn = 0 /\ ~TurnBarred(d, ctx)

\* The fold of no event.
LEMMA ApplyNone == ASSUME NEW d PROVE ApplyAll(d, <<>>) = d
<1>1. Len(<<>>) = 0 /\ 0 # 1 /\ 0 # 2
  OBVIOUS
<1> QED BY <1>1, Zenon DEF ApplyAll

\* The fold of one event.
LEMMA ApplyOne == ASSUME NEW d, NEW e PROVE ApplyAll(d, <<e>>) = Apply(d, e)
<1>1. Len(<<e>>) = 1 /\ <<e>>[1] = e /\ 1 # 0 /\ 1 # 2
  OBVIOUS
<1> QED BY <1>1, Zenon DEF ApplyAll

\* The fold of two events.
LEMMA ApplyTwo ==
  ASSUME NEW d, NEW e, NEW f PROVE ApplyAll(d, <<e, f>>) = Apply(Apply(d, e), f)
<1>1. Len(<<e, f>>) = 2 /\ <<e, f>>[1] = e /\ <<e, f>>[2] = f /\ 0 # 2 /\ 1 # 2
  OBVIOUS
<1> QED BY <1>1, Zenon DEF ApplyAll

\* Events that start neither a turn nor a restore make a good commit.
LEMMA PlainCommit ==
  ASSUME NEW d, NEW ctx, NEW e, DocInv(d), EventOK(d, e),
         e.type \notin {"thread.turn.requested", "thread.checkpoint.restore.requested"}
  PROVE  CommitOK(d, Apply(d, e), ctx)
<1>1. FoldStep(d, e, Apply(d, e))
  BY ApplyKeeps
<1> QED BY <1>1 DEF FoldStep, CommitOK

\* Two such events make a good commit as well.
LEMMA PlainPair ==
  ASSUME NEW d, NEW ctx, NEW e, NEW f, DocInv(d), EventOK(d, e), EventOK(Apply(d, e), f),
         {e.type, f.type} \cap {"thread.turn.requested", "thread.checkpoint.restore.requested"} = {}
  PROVE  CommitOK(d, Apply(Apply(d, e), f), ctx)
<1> DEFINE c == Apply(d, e)
<1>1. FoldStep(d, e, c)
  BY ApplyKeeps
<1>2. EventOK(c, f)
  OBVIOUS
<1> HIDE DEF c
<1>3. FoldStep(c, f, Apply(c, f))
  BY <1>1, <1>2, ApplyKeeps DEF FoldStep
<1>4. CommitOK(d, Apply(c, f), ctx)
  BY <1>1, <1>3 DEF FoldStep, CommitOK
<1> QED BY <1>4 DEF c

\* The two events of a new turn make a good commit where no restore bars it.
LEMMA NewTurnCommit ==
  ASSUME NEW d, NEW ctx, NEW env, DocInv(d), env.turn # 0, d.turn = 0, ~TurnBarred(d, ctx)
  PROVE  CommitOK(d, ApplyAll(d, NewTurn(env)), ctx)
<1> DEFINE e == TurnRequested(env.turn)
           f == UserRow(env.turn)
           c == Apply(d, e)
<1>1. EventOK(d, e) /\ e.type = "thread.turn.requested"
  BY DEF EventOK, TurnRequested, AllEvents, TurnEvents, TurnBarred
<1>2. EventOK(c, f) /\ f.type = "thread.item.upserted"
  BY DEF EventOK, UserRow, AllEvents
<1>3. NewTurn(env) = <<e, f>>
  BY DEF NewTurn
<1> HIDE DEF e, f
<1>4. FoldStep(d, e, c)
  BY <1>1, ApplyKeeps
<1>5. ApplyAll(d, <<e, f>>) = Apply(c, f)
  BY ApplyTwo
<1> HIDE DEF c
<1>6. FoldStep(c, f, Apply(c, f))
  BY <1>2, <1>4, ApplyKeeps DEF FoldStep
<1>7. CommitOK(d, Apply(c, f), ctx)
  BY <1>1, <1>2, <1>4, <1>6 DEF FoldStep, CommitOK
<1> QED BY <1>3, <1>5, <1>7

\* Whatever the decider decides, its events make a good commit.
LEMMA DecidedCommit ==
  ASSUME NEW d, NEW ctx, NEW env, NEW events, DocInv(d), env.turn # 0,
         DecidedOK(d, ctx, env, events)
  PROVE  CommitOK(d, ApplyAll(d, events), ctx)
<1>1. CASE events = <<>>
  BY <1>1, ApplyNone DEF CommitOK
<1>2. CASE events = NewTurn(env) /\ ~TurnBarred(d, ctx) /\ d.turn = 0
  BY <1>2, NewTurnCommit
<1>3. CASE events = <<TurnSteered(d.turn), UserRow(d.turn)>>
  <2> DEFINE e == TurnSteered(d.turn)
             f == UserRow(d.turn)
  <2>1. EventOK(d, e) /\ e.type = "thread.turn.steered"
    BY DEF EventOK, TurnSteered, AllEvents, TurnEvents
  <2>2. EventOK(Apply(d, e), f) /\ f.type = "thread.item.upserted"
    BY DEF EventOK, UserRow, AllEvents
  <2>3. events = <<e, f>>
    BY <1>3
  <2> HIDE DEF e, f
  <2>4. CommitOK(d, Apply(Apply(d, e), f), ctx)
    BY <2>1, <2>2, PlainPair
  <2>5. ApplyAll(d, <<e, f>>) = Apply(Apply(d, e), f)
    BY ApplyTwo
  <2> QED BY <2>3, <2>4, <2>5
<1>4. ASSUME NEW e, events = <<e>>, EventOK(d, e), e.type # "thread.turn.requested",
             e.type = "thread.checkpoint.restore.requested" => ~ctx.restoreInFlight
      PROVE  CommitOK(d, ApplyAll(d, events), ctx)
  <2>1. FoldStep(d, e, Apply(d, e))
    BY <1>4, ApplyKeeps
  <2>2. CommitOK(d, Apply(d, e), ctx)
    BY <1>4, <2>1 DEF FoldStep, CommitOK
  <2> QED BY <1>4, <2>2, ApplyOne
<1> QED BY <1>1, <1>2, <1>3, <1>4 DEF DecidedOK
----------------------------------------------------------------------------
(* Steps of the engine.                                                    *)

\* The inductive invariant: every document's own, and the one relation
\* between documents that the decider's cross-thread fact maintains.
IInv ==
  /\ docs = [t \in Threads |-> docs[t]]
  /\ turns \in [Threads -> Nat]
  /\ \A t \in Threads : DocInv(docs[t])
  /\ OneRestorePerRoot

\* One commit to the document of t, or none at all.
Commits(t) ==
  \E c : docs' = [docs EXCEPT ![t] = c] /\ CommitOK(docs[t], c, Context(t))

\* What an accepted command does: the decider's events on one document, and the
\* turn ids they spend.
DecidedStep(t, events) ==
  /\ DecidedOK(docs[t], Context(t), Env(t), events)
  /\ docs' = [docs EXCEPT ![t] = ApplyAll(docs[t], events)]
  /\ turns' = Spent(turns, t, events, "thread.turn.requested")

\* A dispatched command that changes anything was decided.
LEMMA DispatchDecides ==
  ASSUME IInv, NEW t \in Threads, NEW cmd,
         cmd.type \in ThreadCommands \cup {"thread.create"}, Dispatch(t, cmd)
  PROVE  \E events : DecidedStep(t, events)
<1> DEFINE result == Decide(cmd, docs[t], Context(t), Env(t))
<1>1. /\ result.accepted
      /\ docs' = [docs EXCEPT ![t] = ApplyAll(docs[t], result.events)]
      /\ turns' = Spent(turns, t, result.events, "thread.turn.requested")
  BY DEF Dispatch, Commit, Minted
<1>2. DocInv(docs[t])
  BY DEF IInv
<1>3. DecidedOK(docs[t], Context(t), Env(t), result.events)
  <2>1. CASE cmd.type = "thread.create"
    <3>1. result = DecideCreate(cmd, docs[t], Context(t))
      BY <2>1 DEF Decide
    <3>2. result.events = <<Created(cmd.instance)>>
      BY <1>1, <3>1 DEF DecideCreate, When, Accepted, Rejected
    <3>3. DecidedOK(docs[t], Context(t), Env(t), <<Created(cmd.instance)>>)
      BY PlainDecision DEF Created, AllEvents
    <3> QED BY <3>2, <3>3
  <2>2. CASE cmd.type # "thread.create"
    <3>1. result = DecideLive(cmd, docs[t], Context(t), Env(t))
      BY <1>1, <2>2 DEF Decide, Rejected
    <3> QED BY <1>1, <1>2, <2>2, <3>1, LiveDecision
  <2> QED BY <2>1, <2>2
<1> HIDE DEF result
<1> QED BY <1>1, <1>3 DEF DecidedStep

\* What was decided makes a good commit.
LEMMA DecidedCommits ==
  ASSUME IInv, NEW t \in Threads, NEW events, DecidedStep(t, events)
  PROVE  Commits(t) /\ turns' \in [Threads -> Nat]
<1>1. Env(t).turn # 0 /\ DocInv(docs[t]) /\ turns' \in [Threads -> Nat]
  BY DEF Env, IInv, DecidedStep, Spent
<1>2. CommitOK(docs[t], ApplyAll(docs[t], events), Context(t))
  BY <1>1, DecidedCommit DEF DecidedStep
<1> QED BY <1>1, <1>2 DEF Commits, DecidedStep

\* A client's step is a dispatched command.
LEMMA ClientDecides ==
  ASSUME IInv, NEW t \in Threads, ClientStep(t)
  PROVE  \E events : DecidedStep(t, events)
<1>1. \E cmd : cmd.type \in ThreadCommands \cup {"thread.create"} /\ Dispatch(t, cmd)
  <2>1. CASE CreateThread(t) BY <2>1 DEF CreateThread, ThreadCommands
  <2>2. CASE ArchiveThread(t) BY <2>2 DEF ArchiveThread, ThreadCommands
  <2>3. CASE UnarchiveThread(t) BY <2>3 DEF UnarchiveThread, ThreadCommands
  <2>4. CASE DeleteThread(t) BY <2>4 DEF DeleteThread, ThreadCommands
  <2>5. CASE StartTurn(t) BY <2>5 DEF StartTurn, ThreadCommands
  <2>6. CASE SteerTurn(t) BY <2>6 DEF SteerTurn, ThreadCommands
  <2>7. CASE InterruptTurn(t) BY <2>7 DEF InterruptTurn, ThreadCommands
  <2>8. CASE UpdateSettings(t) BY <2>8 DEF UpdateSettings, ThreadCommands
  <2>9. CASE RespondApproval(t) BY <2>9 DEF RespondApproval, ThreadCommands
  <2>10. CASE RespondInput(t) BY <2>10 DEF RespondInput, ThreadCommands
  <2>11. CASE RespondPlan(t) BY <2>11 DEF RespondPlan, ThreadCommands
  <2>12. CASE RemoveQueued(t) BY <2>12 DEF RemoveQueued, ThreadCommands
  <2>13. CASE ReorderQueue(t) BY <2>13 DEF ReorderQueue, ThreadCommands
  <2>14. CASE RestoreCheckpoint(t) BY <2>14 DEF RestoreCheckpoint, ThreadCommands
  <2> QED
    BY <2>1, <2>2, <2>3, <2>4, <2>5, <2>6, <2>7, <2>8, <2>9, <2>10, <2>11, <2>12, <2>13, <2>14
       DEF ClientStep
<1> QED BY <1>1, DispatchDecides

\* An appended event that starts neither a turn nor a restore commits.
LEMMA AppendCommits ==
  ASSUME IInv, NEW t \in Threads, NEW e, EventOK(docs[t], e),
         e.type \notin {"thread.turn.requested", "thread.checkpoint.restore.requested"},
         AppendThreadEvents(t, <<e>>)
  PROVE  Commits(t) /\ turns' \in [Threads -> Nat]
<1>1. docs' = [docs EXCEPT ![t] = ApplyAll(docs[t], <<e>>)] /\ turns' = turns
  BY DEF AppendThreadEvents, Commit
<1>2. ApplyAll(docs[t], <<e>>) = Apply(docs[t], e)
  BY ApplyOne
<1>3. CommitOK(docs[t], Apply(docs[t], e), Context(t))
  BY PlainCommit DEF IInv
<1> QED BY <1>1, <1>2, <1>3 DEF Commits, IInv

\* An event with nothing owed to the document it is appended to.
LEMMA FreeEvent ==
  ASSUME NEW d, NEW e,
         e.type \in AllEvents \ {"thread.session.bound", "thread.turn.requested", "thread.turn.interrupted",
                                 "thread.plan.proposed", "thread.checkpoint.restore.requested"}
  PROVE  /\ EventOK(d, e)
         /\ e.type \notin {"thread.turn.requested", "thread.checkpoint.restore.requested"}
BY DEF EventOK

\* Every event a session has ingested commits.
LEMMA SessionCommits ==
  ASSUME IInv, NEW t \in Threads, SessionEvent(t) \/ RequestEvent(t)
  PROVE  Commits(t) /\ turns' \in [Threads -> Nat]
<1> DEFINE d == docs[t]
<1>1. ASSUME NEW i, NEW s \in Steering, AppendThreadEvents(t, <<SessionBound(i, s)>>)
      PROVE  Commits(t) /\ turns' \in [Threads -> Nat]
  <2>1. EventOK(d, SessionBound(i, s)) /\ SessionBound(i, s).type = "thread.session.bound"
    BY DEF EventOK, SessionBound, AllEvents, SessionEvents
  <2> QED BY <1>1, <2>1, AppendCommits
<1>2. ASSUME NEW m \in 1..turns[t], AppendThreadEvents(t, <<PlanProposed(m)>>)
      PROVE  Commits(t) /\ turns' \in [Threads -> Nat]
  <2>1. EventOK(d, PlanProposed(m)) /\ PlanProposed(m).type = "thread.plan.proposed"
    BY DEF EventOK, PlanProposed, AllEvents, CardEvents, IInv
  <2> QED BY <1>2, <2>1, AppendCommits
<1>3. ASSUME NEW m, \/ AppendThreadEvents(t, <<TurnStarted(m)>>)
                    \/ AppendThreadEvents(t, <<TurnCompleted(m)>>)
                    \/ AppendThreadEvents(t, <<ThreadError(m)>>)
      PROVE  Commits(t) /\ turns' \in [Threads -> Nat]
  <2>1. {TurnStarted(m).type, TurnCompleted(m).type, ThreadError(m).type} \subseteq TurnEvents
    BY DEF TurnStarted, TurnCompleted, ThreadError, TurnEvents
  <2>2. TurnEvents \subseteq AllEvents
    BY DEF AllEvents
  <2>3. TurnStarted(m).type = "thread.turn.started" /\ TurnCompleted(m).type = "thread.turn.completed"
        /\ ThreadError(m).type = "thread.error"
    BY DEF TurnStarted, TurnCompleted, ThreadError
  <2> QED BY <1>3, <2>1, <2>2, <2>3, FreeEvent, AppendCommits
<1>4. ASSUME NEW r, NEW by, \/ AppendThreadEvents(t, <<ApprovalOpened(r)>>)
                            \/ AppendThreadEvents(t, <<InputRequested(r)>>)
                            \/ AppendThreadEvents(t, <<ApprovalResolved(r, by)>>)
                            \/ AppendThreadEvents(t, <<InputResolved(r, by)>>)
      PROVE  Commits(t) /\ turns' \in [Threads -> Nat]
  <2>1. /\ ApprovalOpened(r).type = "thread.approval.opened"
        /\ InputRequested(r).type = "thread.userInput.requested"
        /\ ApprovalResolved(r, by).type = "thread.approval.resolved"
        /\ InputResolved(r, by).type = "thread.userInput.resolved"
    BY DEF ApprovalOpened, InputRequested, ApprovalResolved, InputResolved
  <2>2. {"thread.approval.opened", "thread.userInput.requested", "thread.approval.resolved",
         "thread.userInput.resolved"} \subseteq AllEvents
    BY DEF AllEvents, CardEvents
  <2> QED BY <1>4, <2>1, <2>2, FreeEvent, AppendCommits
<1> QED BY <1>1, <1>2, <1>3, <1>4 DEF SessionEvent, RequestEvent

\* Every event a reactor appends commits.
LEMMA ReactorCommits ==
  ASSUME IInv, NEW t \in Threads, ReactorEvent(t) \/ DrainHead(t) \/ Requeue(t) \/ QueueSteered(t)
  PROVE  Commits(t) /\ turns' \in [Threads -> Nat]
<1>1. ASSUME NEW e, AppendThreadEvents(t, <<e>>),
             e.type \in {"thread.session.lost", "thread.checkpoint.created",
                         "thread.checkpoint.restored", "thread.checkpoint.restore.failed",
                         "thread.message.dequeued", "thread.message.queued"}
      PROVE  Commits(t) /\ turns' \in [Threads -> Nat]
  <2>1. e.type \in AllEvents
    BY <1>1 DEF AllEvents, SessionEvents, RestoreEvents, QueueEvents
  <2> QED BY <1>1, <2>1, FreeEvent, AppendCommits
<1>2. ASSUME NEW m, AppendThreadEvents(t, <<ThreadError(TRUE), TurnCompleted(m)>>)
      PROVE  Commits(t) /\ turns' \in [Threads -> Nat]
  <2> DEFINE e == ThreadError(TRUE)
             f == TurnCompleted(m)
  <2>1. e.type = "thread.error" /\ f.type = "thread.turn.completed"
    BY DEF ThreadError, TurnCompleted
  <2>2. e.type \in AllEvents /\ f.type \in AllEvents
    BY <2>1 DEF AllEvents, TurnEvents
  <2>3. docs' = [docs EXCEPT ![t] = ApplyAll(docs[t], <<e, f>>)] /\ turns' = turns
    BY <1>2 DEF AppendThreadEvents, Commit
  <2> HIDE DEF e, f
  <2>4. EventOK(docs[t], e) /\ EventOK(Apply(docs[t], e), f)
    BY <2>1, <2>2, FreeEvent
  <2>5. CommitOK(docs[t], Apply(Apply(docs[t], e), f), Context(t))
    BY <2>1, <2>4, PlainPair DEF IInv
  <2>6. ApplyAll(docs[t], <<e, f>>) = Apply(Apply(docs[t], e), f)
    BY ApplyTwo
  <2> QED BY <2>3, <2>5, <2>6 DEF Commits, IInv
<1>3. CASE ReactorEvent(t)
  <2>1. /\ SessionLost.type = "thread.session.lost"
        /\ \A m : CheckpointCreated(m).type = "thread.checkpoint.created"
        /\ \A ok : RestoreSettled(ok).type
                     \in {"thread.checkpoint.restored", "thread.checkpoint.restore.failed"}
    BY DEF SessionLost, CheckpointCreated, RestoreSettled
  <2> QED BY <1>1, <1>2, <1>3, <2>1 DEF ReactorEvent
<1>4. CASE DrainHead(t) \/ Requeue(t)
  <2>1. \A q : Dequeued(q).type = "thread.message.dequeued" /\ Queued(q).type = "thread.message.queued"
    BY DEF Dequeued, Queued
  <2> QED BY <1>1, <1>4, <2>1 DEF DrainHead, Requeue
<1>5. CASE QueueSteered(t)
  <2> DEFINE e == Queued(messages[t] + 1)
  <2>1. e.type = "thread.message.queued" /\ e.type \in AllEvents
    BY DEF Queued, AllEvents, QueueEvents
  <2>2. docs' = [docs EXCEPT ![t] = ApplyAll(docs[t], <<e>>)] /\ turns' = turns
    BY <1>5 DEF QueueSteered, Commit
  <2> HIDE DEF e
  <2>3. ApplyAll(docs[t], <<e>>) = Apply(docs[t], e)
    BY ApplyOne
  <2>4. CommitOK(docs[t], Apply(docs[t], e), Context(t))
    BY <2>1, FreeEvent, PlainCommit DEF IInv
  <2> QED BY <2>2, <2>3, <2>4 DEF Commits, IInv
<1> QED BY <1>3, <1>4, <1>5

\* A good commit keeps the inductive invariant: a restore that begins in one
\* document begins where no other document of that root has one.
LEMMA CommitKeeps ==
  ASSUME IInv, NEW t \in Threads, Commits(t), turns' \in [Threads -> Nat]
  PROVE  IInv'
<1>1. PICK c : docs' = [docs EXCEPT ![t] = c] /\ CommitOK(docs[t], c, Context(t))
  BY DEF Commits
<1>2. /\ docs' = [u \in Threads |-> docs'[u]]
      /\ docs'[t] = c
      /\ \A u \in Threads \ {t} : docs'[u] = docs[u]
  BY <1>1 DEF IInv
<1>3. \A u \in Threads : DocInv(docs'[u])
  BY <1>1, <1>2 DEF IInv, CommitOK
<1>4. OneRestorePerRoot'
  <2>1. SUFFICES ASSUME NEW u \in Threads, u # t, Live(docs'[t]), Live(docs[u]),
                        docs'[t].restoring # 0, docs[u].restoring # 0,
                        SharesWorkspaceRoot(u, t)
                 PROVE  FALSE
    BY <1>2 DEF OneRestorePerRoot, SharesWorkspaceRoot, IInv
  <2>2. (docs[t].restoring # 0 /\ Live(docs[t])) \/ ~RestoreInFlight(t)
    BY <1>1, <1>2, <2>1 DEF CommitOK, Context
  <2> QED BY <2>1, <2>2 DEF RestoreInFlight, OneRestorePerRoot, IInv
<1> QED BY <1>2, <1>3, <1>4 DEF IInv

\* A step of the engine commits to one document or leaves them all alone.
LEMMA NextCommits ==
  ASSUME IInv, [Next]_vars
  PROVE  \/ docs' = docs /\ turns' = turns
         \/ \E t \in Threads : Commits(t) /\ turns' \in [Threads -> Nat]
<1>1. CASE UNCHANGED vars
  BY <1>1 DEF vars
<1>2. CASE \E p \in Projects : CreateProject(p) \/ RemoveProject(p)
  BY <1>2 DEF CreateProject, RemoveProject
<1>3. CASE \E t \in Threads : ClientStep(t) \/ ServerStep(t)
  BY <1>3, ClientDecides, DecidedCommits, SessionCommits, ReactorCommits DEF ServerStep
<1> QED BY <1>1, <1>2, <1>3 DEF Next

\* No thread exists, and nothing is minted, at the start.
LEMMA InitialInv == ASSUME Init PROVE IInv
<1>1. DocInv(NoDoc) /\ NoDoc.restoring = 0
  BY DEF NoDoc, NoSession, Steering, DocInv, Shaped, DocFields, HasCard
<1> QED BY <1>1 DEF Init, IInv, OneRestorePerRoot

\* The engine keeps its inductive invariant.
THEOREM EngineInvariant == Spec => []IInv
<1>1. Init => IInv
  BY InitialInv
<1>2. IInv /\ [Next]_vars => IInv'
  <2> SUFFICES ASSUME IInv, [Next]_vars PROVE IInv'
    OBVIOUS
  <2>1. CASE docs' = docs /\ turns' = turns
    BY <2>1 DEF IInv, OneRestorePerRoot
  <2> QED BY <2>1, NextCommits, CommitKeeps
<1> QED BY <1>1, <1>2, PTL DEF Spec

\* No turn, however it ended, leaves a stop behind it.
THEOREM StopsNameTurns == Spec => []StopNamesATurn
<1>1. IInv => StopNamesATurn
  BY DEF IInv, DocInv, StopNamesATurn
<1> QED BY <1>1, EngineInvariant, PTL

\* A thread the clients show at rest has nothing in flight and nothing to answer.
THEOREM IdleThreadsAreQuiet == Spec => []IdleIsQuiet
<1>1. IInv => IdleIsQuiet
  BY DEF IInv, DocInv, IdleIsQuiet
<1> QED BY <1>1, EngineInvariant, PTL

\* A thread the clients show waiting has a card to answer.
THEOREM WaitingThreadsHaveCards == Spec => []WaitingHasACard
<1>1. IInv => WaitingHasACard
  BY DEF IInv, DocInv, WaitingHasACard
<1> QED BY <1>1, EngineInvariant, PTL

\* A thread never has a turn in flight while its own restore runs.
THEOREM RestoreExcludesTurn == Spec => []NoTurnWhileRestoring
<1>1. IInv => NoTurnWhileRestoring
  BY DEF IInv, DocInv, NoTurnWhileRestoring
<1> QED BY <1>1, EngineInvariant, PTL

\* Two live threads of one root never restore at once.
THEOREM RestoreExcludesRestore == Spec => []OneRestorePerRoot
<1>1. IInv => OneRestorePerRoot
  BY DEF IInv
<1> QED BY <1>1, EngineInvariant, PTL

\* A turn starts on a thread that is not archived, where no restore of its
\* root is under way.
StartsSettled ==
  \A t \in Threads :
    docs'[t].turn \notin {0, docs[t].turn}
      => /\ docs[t].status # "archived"
         /\ \A u \in Threads : Live(docs[u]) /\ SharesWorkspaceRoot(u, t) => docs[u].restoring = 0

LEMMA TurnsSettled ==
  ASSUME IInv, [Next]_vars
  PROVE  StartsSettled
<1> SUFFICES ASSUME NEW t \in Threads, docs'[t].turn \notin {0, docs[t].turn}
             PROVE  /\ docs[t].status # "archived"
                    /\ \A u \in Threads : Live(docs[u]) /\ SharesWorkspaceRoot(u, t)
                                            => docs[u].restoring = 0
  BY DEF StartsSettled
<1>0. PICK s \in Threads : Commits(s)
  BY NextCommits
<1>1. PICK c : docs' = [docs EXCEPT ![s] = c] /\ CommitOK(docs[s], c, Context(s))
  BY <1>0 DEF Commits
<1>2. s = t /\ docs'[t] = c
  BY <1>1 DEF IInv
<1>3. ~TurnBarred(docs[t], Context(t))
  BY <1>1, <1>2 DEF CommitOK
<1> QED BY <1>3 DEF TurnBarred, Context, RestoreInFlight

\* No step of the engine starts a turn under a restore of its root, or on an
\* archived thread.
THEOREM TurnsAvoidRestores == Spec => TurnsStartOnSettledTrees
<1>1. IInv /\ [Next]_vars => [StartsSettled]_vars
  BY TurnsSettled
<1> QED BY <1>1, EngineInvariant, PTL DEF Spec, TurnsStartOnSettledTrees, StartsSettled

\* A live thread goes from one turn to the next through no turn at all.
THEOREM TurnsEndFirst == Spec => OneTurnAtATime
<1> DEFINE EndsFirst ==
      \A t \in Threads :
        docs[t].turn # 0 /\ docs'[t].turn # docs[t].turn /\ Live(docs'[t]) /\ Live(docs[t])
          => docs'[t].turn = 0
<1>1. IInv /\ [Next]_vars => EndsFirst
  <2> SUFFICES ASSUME IInv, [Next]_vars, NEW t \in Threads,
                      docs[t].turn # 0, docs'[t].turn # docs[t].turn
               PROVE  docs'[t].turn = 0
    OBVIOUS
  <2>0. PICK s \in Threads : Commits(s)
    BY NextCommits
  <2>1. PICK c : docs' = [docs EXCEPT ![s] = c] /\ CommitOK(docs[s], c, Context(s))
    BY <2>0 DEF Commits
  <2>2. s = t /\ docs'[t] = c
    BY <2>1 DEF IInv
  <2> QED BY <2>1, <2>2 DEF CommitOK
<1>2. IInv /\ [Next]_vars => [EndsFirst]_vars
  BY <1>1
<1> QED BY <1>2, EngineInvariant, PTL DEF Spec, OneTurnAtATime
----------------------------------------------------------------------------
(* Sequences and filters.                                                  *)

\* Nothing stands twice in a sequence.
Distinct(s) == \A j, k \in DOMAIN s : s[j] = s[k] => j = k

\* The places of a filter are numbered through: the k-th place kept exists.
LEMMA PlacesNumbered ==
  ASSUME NEW n \in Nat, NEW places \in SUBSET (1..n)
  PROVE  /\ Cardinality(places) \in Nat
         /\ \A i \in 1..Cardinality(places) :
              \E k \in places : Cardinality({j \in places : j <= k}) = i
         /\ \A k \in places : Cardinality({j \in places : j <= k}) \in 1..Cardinality(places)
         /\ \A k, l \in places :
              Cardinality({j \in places : j <= k}) = Cardinality({j \in places : j <= l}) => k = l
<1> DEFINE upTo(k) == {j \in places : j <= k}
           size == Cardinality(places)
           rank == [k \in places |-> Cardinality(upTo(k))]
<1>0. 1 \in Int /\ n \in Int /\ places \subseteq Nat
  OBVIOUS
<1>1. IsFiniteSet(places) /\ size \in Nat
  <2>1. IsFiniteSet(1..n)
    BY <1>0, FS_Interval
  <2>2. IsFiniteSet(places)
    BY <2>1, FS_Subset
  <2> QED BY <2>2, FS_CardinalityType
<1>2. \A k \in places : /\ IsFiniteSet(upTo(k)) /\ Cardinality(upTo(k)) \in Nat
                        /\ Cardinality(upTo(k)) <= size
  <2> TAKE k \in places
  <2>1. upTo(k) \in SUBSET places
    OBVIOUS
  <2> HIDE DEF upTo
  <2> QED BY <1>1, <2>1, FS_Subset, FS_CardinalityType
<1>3. \A k \in places : Cardinality(upTo(k)) # 0
  <2> TAKE k \in places
  <2>1. k \in upTo(k)
    OBVIOUS
  <2> HIDE DEF upTo
  <2> QED BY <1>2, <2>1, FS_EmptySet
<1>4. \A k, l \in places : k < l => Cardinality(upTo(k)) # Cardinality(upTo(l))
  <2> TAKE k, l \in places
  <2>1. k < l => upTo(k) \in SUBSET upTo(l) /\ upTo(k) # upTo(l)
    <3>1. k < l => l \in upTo(l) /\ l \notin upTo(k)
      OBVIOUS
    <3>2. ASSUME k < l PROVE upTo(k) \subseteq upTo(l)
      <4>1. \A j \in places : j <= k => j <= l
        BY <1>0, <3>2
      <4> QED BY <4>1
    <3> QED BY <3>1, <3>2
  <2> HIDE DEF upTo
  <2> QED BY <1>2, <2>1, FS_Subset
<1>5. rank \in Injection(places, 1..size)
  <2>1. rank \in [places -> 1..size]
    <3> HIDE DEF upTo, size
    <3> QED BY <1>1, <1>2, <1>3
  <2>2. \A k, l \in places : rank[k] = rank[l] => k = l
    <3>1. \A k, l \in places : k < l \/ l < k \/ k = l
      OBVIOUS
    <3> HIDE DEF upTo, size
    <3> QED BY <1>4, <3>1
  <2> HIDE DEF rank, size
  <2> QED BY <2>1, <2>2 DEF Injection, IsInjective
<1>6. IsFiniteSet(1..size) /\ Cardinality(1..size) = size
  <2> HIDE DEF size
  <2> QED BY <1>1, FS_Interval
<1>7. rank \in Surjection(places, 1..size)
  <2> HIDE DEF rank
  <2> QED BY <1>5, <1>6, FS_Injection
<1>8. \A i \in 1..size : \E k \in places : rank[k] = i
  <2> HIDE DEF rank, size
  <2> QED BY <1>7 DEF Surjection
<1>9. /\ \A k \in places : rank[k] \in 1..size
      /\ \A k, l \in places : rank[k] = rank[l] => k = l
  <2> HIDE DEF rank, size
  <2> QED BY <1>5 DEF Injection, IsInjective
<1> QED BY <1>1, <1>8, <1>9

\* A filter keeps what the sequence holds, and what is listed once stays so.
LEMMA KeepingHolds ==
  ASSUME NEW T, NEW s \in Seq(T), NEW places \in SUBSET (DOMAIN s)
  PROVE  /\ Keeping(s, places) \in Seq(T)
         /\ \A i \in DOMAIN Keeping(s, places) : \E k \in places : Keeping(s, places)[i] = s[k]
         /\ Distinct(s) => Distinct(Keeping(s, places))
<1> DEFINE size == Cardinality(places)
           at(i) == CHOOSE k \in places : Cardinality({j \in places : j <= k}) = i
           kept == [i \in 1..size |-> s[at(i)]]
<1>1. DOMAIN s = 1..Len(s) /\ Len(s) \in Nat /\ \A k \in DOMAIN s : s[k] \in T
  OBVIOUS
<1>2. size \in Nat /\ \A i \in 1..size : \E k \in places : Cardinality({j \in places : j <= k}) = i
  BY <1>1, PlacesNumbered
<1>3. \A i \in 1..size : at(i) \in places /\ Cardinality({j \in places : j <= at(i)}) = i
  BY <1>2
<1>4. Keeping(s, places) = kept
  BY DEF Keeping
<1>5. \A i, j \in 1..size : at(i) = at(j) => i = j
  BY <1>3
<1> HIDE DEF at, size
<1>6. DOMAIN kept = 1..size /\ \A i \in 1..size : kept[i] = s[at(i)]
  OBVIOUS
<1>7. kept \in [1..size -> T]
  BY <1>1, <1>3
<1>8. kept \in Seq(T)
  BY <1>2, <1>7
<1>9. Distinct(s) => Distinct(kept)
  <2> HIDE DEF kept
  <2> QED BY <1>3, <1>5, <1>6 DEF Distinct
<1> QED BY <1>3, <1>4, <1>6, <1>8, <1>9

\* A filter loses nothing that stands at a place it keeps.
LEMMA KeepingReaches ==
  ASSUME NEW T, NEW s \in Seq(T), NEW places \in SUBSET (DOMAIN s), NEW k \in places
  PROVE  \E i \in DOMAIN Keeping(s, places) : Keeping(s, places)[i] = s[k]
<1> DEFINE size == Cardinality(places)
           upTo(l) == Cardinality({j \in places : j <= l})
           at(i) == CHOOSE l \in places : upTo(l) = i
           kept == [i \in 1..size |-> s[at(i)]]
<1>1. DOMAIN s = 1..Len(s) /\ Len(s) \in Nat
  OBVIOUS
<1>2. upTo(k) \in 1..size /\ \A l \in places : upTo(k) = upTo(l) => k = l
  BY <1>1, PlacesNumbered
<1>3. Keeping(s, places) = kept
  BY DEF Keeping
<1> HIDE DEF upTo, size
<1>4. at(upTo(k)) = k
  <2>1. \E l \in places : upTo(l) = upTo(k)
    OBVIOUS
  <2>2. at(upTo(k)) \in places /\ upTo(at(upTo(k))) = upTo(k)
    BY <2>1
  <2> QED BY <1>2, <2>2
<1> HIDE DEF at
<1> QED BY <1>2, <1>3, <1>4

\* Two lists that share nothing make one list in which nothing stands twice.
LEMMA ConcatDistinct ==
  ASSUME NEW T, NEW r \in Seq(T), NEW s \in Seq(T), Distinct(r), Distinct(s),
         \A i \in DOMAIN r, j \in DOMAIN s : r[i] # s[j]
  PROVE  r \o s \in Seq(T) /\ Distinct(r \o s)
<1>1. /\ r \o s \in Seq(T) /\ Len(r \o s) = Len(r) + Len(s) /\ Len(r) \in Nat /\ Len(s) \in Nat
      /\ \A i \in 1..Len(r) + Len(s) : (r \o s)[i] = IF i <= Len(r) THEN r[i] ELSE s[i - Len(r)]
  BY ConcatProperties
<1>2. DOMAIN r = 1..Len(r) /\ DOMAIN s = 1..Len(s) /\ DOMAIN (r \o s) = 1..Len(r) + Len(s)
  BY <1>1
<1> DEFINE rs == r \o s
<1> HIDE DEF rs
<1>3. ASSUME NEW i \in 1..Len(r) + Len(s), NEW j \in 1..Len(r) + Len(s), rs[i] = rs[j]
      PROVE  i = j
  <2>1. i > Len(r) => i - Len(r) \in DOMAIN s
    BY <1>1, <1>2
  <2>2. j > Len(r) => j - Len(r) \in DOMAIN s
    BY <1>1, <1>2
  <2>3. i <= Len(r) => i \in DOMAIN r
    BY <1>1, <1>2
  <2>4. j <= Len(r) => j \in DOMAIN r
    BY <1>1, <1>2
  <2>5. rs[i] = (IF i <= Len(r) THEN r[i] ELSE s[i - Len(r)])
        /\ rs[j] = (IF j <= Len(r) THEN r[j] ELSE s[j - Len(r)])
    BY <1>1 DEF rs
  <2>0. i \in Int /\ j \in Int /\ Len(r) \in Int
        /\ (i > Len(r) => ~(i <= Len(r))) /\ (j > Len(r) => ~(j <= Len(r)))
    BY <1>1
  <2>10. (i <= Len(r) => rs[i] = r[i]) /\ (~(i <= Len(r)) => rs[i] = s[i - Len(r)])
    BY <2>5, Zenon
  <2>11. (j <= Len(r) => rs[j] = r[j]) /\ (~(j <= Len(r)) => rs[j] = s[j - Len(r)])
    BY <2>5, Zenon
  <2>6. CASE i <= Len(r) /\ j <= Len(r)
    <3>1. r[i] = r[j]
      BY <1>3, <2>10, <2>11, <2>6, Zenon
    <3> QED BY <2>3, <2>4, <2>6, <3>1 DEF Distinct
  <2>7. CASE i > Len(r) /\ j > Len(r)
    <3>1. s[i - Len(r)] = s[j - Len(r)]
      BY <1>3, <2>0, <2>10, <2>11, <2>7, Zenon
    <3>2. i - Len(r) = j - Len(r)
      BY <2>1, <2>2, <2>7, <3>1 DEF Distinct
    <3> QED BY <1>1, <3>2
  <2>8. CASE i <= Len(r) /\ j > Len(r)
    <3>1. r[i] = s[j - Len(r)]
      BY <1>3, <2>0, <2>10, <2>11, <2>8, Zenon
    <3> QED BY <2>2, <2>3, <2>8, <3>1
  <2>9. CASE i > Len(r) /\ j <= Len(r)
    <3>1. r[j] = s[i - Len(r)]
      BY <1>3, <2>0, <2>10, <2>11, <2>9, Zenon
    <3> QED BY <2>1, <2>4, <2>9, <3>1
  <2> QED BY <1>1, <2>6, <2>7, <2>8, <2>9
<1> QED BY <1>1, <1>2, <1>3 DEF Distinct, rs

\* A piece of a sequence in which nothing stands twice has nothing twice either,
\* and holds only what the sequence holds.
LEMMA PieceDistinct ==
  ASSUME NEW T, NEW s \in Seq(T), Distinct(s), NEW a \in Nat \ {0}, NEW b \in Nat, b <= Len(s)
  PROVE  /\ SubSeq(s, a, b) \in Seq(T) /\ Distinct(SubSeq(s, a, b))
         /\ \A i \in DOMAIN SubSeq(s, a, b) : \E k \in a..b : k \in DOMAIN s /\ SubSeq(s, a, b)[i] = s[k]
<1>1. DOMAIN s = 1..Len(s) /\ Len(s) \in Nat /\ \A k \in DOMAIN s : s[k] \in T
  OBVIOUS
<1>2. \A k \in a..b : k \in DOMAIN s
  BY <1>1
<1> DEFINE piece == SubSeq(s, a, b)
<1>3. /\ piece \in Seq(T) /\ Len(piece) = (IF a <= b THEN b - a + 1 ELSE 0)
      /\ \A i \in 1..b - a + 1 : piece[i] = s[a + i - 1]
  BY <1>1, <1>2, SubSeqProperties
<1> HIDE DEF piece
<1>4. DOMAIN piece = 1..Len(piece)
  BY <1>3
<1>5. \A i \in DOMAIN piece : i \in 1..b - a + 1 /\ a + i - 1 \in a..b
  BY <1>3, <1>4
<1>6. ASSUME NEW i \in DOMAIN piece, NEW j \in DOMAIN piece, piece[i] = piece[j] PROVE i = j
  <2>1. s[a + i - 1] = s[a + j - 1] /\ a + i - 1 \in DOMAIN s /\ a + j - 1 \in DOMAIN s
    BY <1>2, <1>3, <1>5, <1>6
  <2>2. a + i - 1 = a + j - 1
    BY <2>1 DEF Distinct
  <2> QED BY <1>5, <2>2
<1>7. \A i \in DOMAIN piece : \E k \in a..b : k \in DOMAIN s /\ piece[i] = s[k]
  BY <1>2, <1>3, <1>5
<1> QED BY <1>3, <1>6, <1>7 DEF Distinct, piece

\* Taking a listed message out of a queue shortens it by one.
LEMMA WithoutIsShorter ==
  ASSUME NEW T, NEW queue \in Seq(T), Distinct(queue), NEW q, Holds(queue, q)
  PROVE  /\ Without(queue, q) \in Seq(T) /\ Distinct(Without(queue, q))
         /\ ~Holds(Without(queue, q), q)
         /\ Len(Without(queue, q)) = Len(queue) - 1
<1> DEFINE places == {k \in DOMAIN queue : queue[k] # q}
           rest == Keeping(queue, places)
<1>1. DOMAIN queue = 1..Len(queue) /\ Len(queue) \in Nat /\ places \in SUBSET (DOMAIN queue)
  OBVIOUS
<1>2. PICK p \in DOMAIN queue : queue[p] = q
  BY DEF Holds
<1>3. places = DOMAIN queue \ {p}
  BY <1>2 DEF Distinct
<1>4. IsFiniteSet(DOMAIN queue) /\ Cardinality(DOMAIN queue) = Len(queue)
  <2>1. IsFiniteSet(1..Len(queue)) /\ Cardinality(1..Len(queue)) = Len(queue)
    BY <1>1, FS_Interval
  <2> QED BY <1>1, <2>1
<1>5. Cardinality(places) = Len(queue) - 1 /\ Cardinality(places) \in Nat
  BY <1>1, <1>2, <1>3, <1>4, FS_RemoveElement, PlacesNumbered
<1>6. /\ rest \in Seq(T) /\ Distinct(rest)
      /\ \A i \in DOMAIN rest : \E k \in places : rest[i] = queue[k]
  <2> HIDE DEF places
  <2> QED BY <1>1, KeepingHolds
<1>7. DOMAIN rest = 1..Cardinality(places)
  BY DEF Keeping
<1>8. Len(rest) = Cardinality(places)
  <2> HIDE DEF rest, places
  <2> QED BY <1>5, <1>6, <1>7
<1>9. ~Holds(rest, q)
  BY <1>6 DEF Holds
<1>10. Without(queue, q) = rest
  BY DEF Without
<1> HIDE DEF rest, places
<1> QED BY <1>5, <1>6, <1>8, <1>9, <1>10

\* A queue in which one message was moved still lists each message once.
LEMMA MovedDistinct ==
  ASSUME NEW T, NEW queue \in Seq(T), Distinct(queue), NEW q, Holds(queue, q),
         NEW to \in Nat \ {0}, to <= Len(queue)
  PROVE  MovedTo(queue, q, to) \in Seq(T) /\ Distinct(MovedTo(queue, q, to))
<1> DEFINE others == Without(queue, q)
           front == SubSeq(others, 1, to - 1)
           back == SubSeq(others, to, Len(others))
           one == <<q>>
<1>1. /\ others \in Seq(T) /\ Distinct(others) /\ ~Holds(others, q) /\ Len(others) = Len(queue) - 1
      /\ Len(queue) \in Nat
  BY WithoutIsShorter
<1>2. one \in Seq(T) /\ Distinct(one) /\ DOMAIN one = {1} /\ one[1] = q
  BY DEF Distinct, Holds
<1>0. MovedTo(queue, q, to) = front \o one \o back
  BY DEF MovedTo
<1> HIDE DEF others, one
<1>3. /\ front \in Seq(T) /\ Distinct(front)
      /\ \A i \in DOMAIN front : \E k \in 1..to - 1 : k \in DOMAIN others /\ front[i] = others[k]
  <2>1. to - 1 \in Nat /\ to - 1 <= Len(others) /\ 1 \in Nat \ {0}
    BY <1>1
  <2> HIDE DEF front
  <2> QED BY <1>1, <2>1, PieceDistinct DEF front
<1>4. /\ back \in Seq(T) /\ Distinct(back)
      /\ \A i \in DOMAIN back : \E k \in to..Len(others) : k \in DOMAIN others /\ back[i] = others[k]
  <2>1. Len(others) \in Nat /\ Len(others) <= Len(others)
    BY <1>1
  <2> HIDE DEF back
  <2> QED BY <1>1, <2>1, PieceDistinct DEF back
<1> HIDE DEF front, back
<1>5. \A i \in DOMAIN front, j \in DOMAIN one : front[i] # one[j]
  BY <1>1, <1>2, <1>3 DEF Holds
<1>6. front \o one \in Seq(T) /\ Distinct(front \o one)
  BY <1>2, <1>3, <1>5, ConcatDistinct
<1>7. \A i \in DOMAIN front, j \in DOMAIN back : front[i] # back[j]
  <2> TAKE i \in DOMAIN front, j \in DOMAIN back
  <2>1. PICK k \in 1..to - 1 : k \in DOMAIN others /\ front[i] = others[k]
    BY <1>3
  <2>2. PICK l \in to..Len(others) : l \in DOMAIN others /\ back[j] = others[l]
    BY <1>4
  <2>3. k # l
    BY <1>1
  <2> QED BY <1>1, <2>1, <2>2, <2>3 DEF Distinct
<1>8. \A j \in DOMAIN one, i \in DOMAIN back : one[j] # back[i]
  BY <1>1, <1>2, <1>4 DEF Holds
<1>9. \A i \in DOMAIN (front \o one), j \in DOMAIN back : (front \o one)[i] # back[j]
  <2>1. /\ Len(front) \in Nat /\ Len(one) = 1 /\ DOMAIN front = 1..Len(front)
        /\ Len(front \o one) = Len(front) + 1
        /\ \A i \in 1..Len(front) + 1 :
             (front \o one)[i] = IF i <= Len(front) THEN front[i] ELSE one[i - Len(front)]
    BY <1>2, <1>3, ConcatProperties DEF one
  <2>2. DOMAIN (front \o one) = 1..Len(front) + 1
    BY <1>6, <2>1
  <2> TAKE i \in DOMAIN (front \o one), j \in DOMAIN back
  <2>3. i \in 1..Len(front) + 1
    BY <2>2
  <2>4. CASE i <= Len(front)
    <3>1. i \in DOMAIN front /\ (front \o one)[i] = front[i]
      BY <2>1, <2>3, <2>4
    <3> QED BY <1>7, <3>1
  <2>5. CASE i > Len(front)
    <3>1. i - Len(front) = 1 /\ (front \o one)[i] = one[i - Len(front)]
      BY <2>1, <2>3, <2>5
    <3> QED BY <1>2, <1>8, <3>1
  <2> QED BY <2>1, <2>3, <2>4, <2>5
<1>10. (front \o one) \o back \in Seq(T) /\ Distinct((front \o one) \o back)
  BY <1>4, <1>6, <1>9, ConcatDistinct
<1> QED BY <1>0, <1>10

\* An order put on a queue lists each message once: what the order names, then the rest.
LEMMA OrderedDistinct ==
  ASSUME NEW T, NEW queue \in Seq(T), Distinct(queue), NEW order \in Seq(T), Distinct(order)
  PROVE  InOrder(queue, order) \in Seq(T) /\ Distinct(InOrder(queue, order))
<1> DEFINE named == {k \in DOMAIN order : Holds(queue, order[k])}
           others == {k \in DOMAIN queue : ~Holds(order, queue[k])}
           r == Keeping(order, named)
           s == Keeping(queue, others)
<1>1. /\ r \in Seq(T) /\ Distinct(r) /\ \A i \in DOMAIN r : \E k \in named : r[i] = order[k]
  <2>1. named \in SUBSET (DOMAIN order)
    OBVIOUS
  <2> HIDE DEF named
  <2> QED BY <2>1, KeepingHolds
<1>2. /\ s \in Seq(T) /\ Distinct(s) /\ \A i \in DOMAIN s : \E k \in others : s[i] = queue[k]
  <2>1. others \in SUBSET (DOMAIN queue)
    OBVIOUS
  <2> HIDE DEF others
  <2> QED BY <2>1, KeepingHolds
<1>3. InOrder(queue, order) = r \o s
  BY DEF InOrder
<1> HIDE DEF r, s
<1>4. \A i \in DOMAIN r, j \in DOMAIN s : r[i] # s[j]
  BY <1>1, <1>2 DEF Holds
<1> QED BY <1>1, <1>2, <1>3, <1>4, ConcatDistinct
----------------------------------------------------------------------------
(* The contents of a document, and what an event may put into it.  `m`,    *)
(* `q` and `r` are the turn, message and request ids minted so far.  The   *)
(* turn in flight, if any, is the last one minted.                         *)

PlainFits(d, m) ==
  /\ d.life \in {"none", "live", "deleted"} /\ d.status \in Statuses
  /\ d.session \in [instance : Instances \cup {NoInstance}, steering : Steering]
  /\ d.chosen \in Instances \cup {NoInstance}
  /\ d.spoke \in BOOLEAN /\ d.interrupting \in BOOLEAN
  /\ d.turn \in {0, m} /\ d.plan \in 0..m /\ d.restoring \in 0..m
  /\ d.checkpoints \in SUBSET (1..m)

QueueFits(queue, q) == queue \in Seq(1..q) /\ Distinct(queue)

Answers == {"answered", "unanswered"}

\* A request stands in one place: open as an approval, open as a question, or
\* settled in the log, where it has one line.
CardsFit(approvals, userInputs, log, r) ==
  /\ approvals \in SUBSET (1..r) /\ userInputs \in SUBSET (1..r)
  /\ approvals \cap userInputs = {}
  /\ log \in Seq([id : 1..r, outcome : Answers])
  /\ \A j, k \in DOMAIN log : log[j].id = log[k].id => j = k
  /\ \A j \in DOMAIN log : log[j].id \notin approvals \cup userInputs

DocFits(d, m, q, r) ==
  /\ Shaped(d)
  /\ PlainFits(d, m)
  /\ QueueFits(d.queue, q)
  /\ CardsFit(d.approvals, d.userInputs, d.decisions, r)

\* An id no card and no decision has used.
FreshRequest(d, id) ==
  /\ id \notin d.approvals \cup d.userInputs
  /\ \A j \in DOMAIN d.decisions : d.decisions[j].id # id

\* What the writer of an event owes the document it is appended to.
EventFits(d, e, m, q, r) ==
  /\ e.type \in AllEvents
  /\ e.type \in {"thread.created", "thread.settings.updated"} => e.instance \in Instances \cup {NoInstance}
  /\ e.type = "thread.session.bound" => e.instance \in Instances /\ e.steering \in Steering
  /\ e.type = "thread.turn.requested" => e.turn = m /\ m # 0
  /\ e.type \in {"thread.turn.interrupted", "thread.plan.proposed", "thread.checkpoint.created",
                 "thread.checkpoint.restore.requested"} => e.turn \in 1..m
  /\ e.type = "thread.message.queued" => e.message \in 1..q /\ ~Holds(d.queue, e.message)
  /\ e.type = "thread.queue.reordered" => QueueFits(e.order, q)
  /\ e.type \in {"thread.approval.opened", "thread.userInput.requested"}
       => e.request \in 1..r /\ FreshRequest(d, e.request)

\* More ids minted: what fitted still does.
LEMMA FitsLater ==
  ASSUME NEW d, NEW m \in Nat, NEW q \in Nat, NEW r \in Nat, DocFits(d, m, q, r),
         NEW m1 \in Nat, NEW q1 \in Nat, NEW r1 \in Nat, m <= m1, q <= q1, r <= r1,
         m1 = m \/ d.turn = 0
  PROVE  DocFits(d, m1, q1, r1)
<1>1. 1..m \subseteq 1..m1 /\ 0..m \subseteq 0..m1 /\ 1..q \subseteq 1..q1 /\ 1..r \subseteq 1..r1
  OBVIOUS
<1>2. PlainFits(d, m1)
  BY <1>1 DEF DocFits, PlainFits
<1>3. \A S, T, s : S \subseteq T /\ s \in Seq(S) => s \in Seq(T)
  OBVIOUS
<1>4. QueueFits(d.queue, q1)
  BY <1>1, <1>3 DEF DocFits, QueueFits
<1>5. [id : 1..r, outcome : Answers] \subseteq [id : 1..r1, outcome : Answers]
  BY <1>1
<1>6. d.decisions \in Seq([id : 1..r1, outcome : Answers])
  BY <1>3, <1>5, Zenon DEF DocFits, CardsFit
<1>7. CardsFit(d.approvals, d.userInputs, d.decisions, r1)
  BY <1>1, <1>6, Zenon DEF DocFits, CardsFit
<1> QED BY <1>2, <1>4, <1>7, Zenon DEF DocFits

\* Closing cards, without a decision, keeps them in one place each.
LEMMA FewerCards ==
  ASSUME NEW a, NEW u, NEW log, NEW r, CardsFit(a, u, log, r), NEW a1 \in SUBSET a, NEW u1 \in SUBSET u
  PROVE  CardsFit(a1, u1, log, r)
BY Zenon DEF CardsFit

\* What most events leave alone: the queue and the decisions.
Aside(d, c, m) ==
  /\ Shaped(c) /\ PlainFits(c, m)
  /\ c.queue = d.queue /\ c.decisions = d.decisions
  /\ c.approvals \in SUBSET d.approvals /\ c.userInputs \in SUBSET d.userInputs

LEMMA AsideFits ==
  ASSUME NEW d, NEW c, NEW m, NEW q, NEW r, DocFits(d, m, q, r), Aside(d, c, m)
  PROVE  DocFits(c, m, q, r)
<1>1. CardsFit(c.approvals, c.userInputs, c.decisions, r)
  BY FewerCards DEF DocFits, Aside
<1> QED BY <1>1 DEF DocFits, Aside

\* Aside goes on when the status is set, a turn ends or the cards are dropped.
LEMMA AsideGoesOn ==
  ASSUME NEW d, NEW c, NEW m \in Nat, Aside(d, c, m), NEW status \in Statuses
  PROVE  /\ Aside(d, [c EXCEPT !.status = status], m)
         /\ Aside(d, [c EXCEPT !.turn = 0, !.interrupting = FALSE], m)
         /\ Aside(d, Abandoned(c), m)
<1>1. Aside(d, [c EXCEPT !.status = status], m)
  BY DEF Aside, Shaped, DocFields, PlainFits
<1>2. Aside(d, [c EXCEPT !.turn = 0], m)
  BY DEF Aside, Shaped, DocFields, PlainFits
<1>3. ASSUME NEW x, Aside(d, x, m) PROVE Aside(d, [x EXCEPT !.interrupting = FALSE], m)
  BY <1>3 DEF Aside, Shaped, DocFields, PlainFits
<1>4. Aside(d, [c EXCEPT !.turn = 0, !.interrupting = FALSE], m)
  BY <1>2, <1>3
<1>5. Aside(d, [c EXCEPT !.approvals = {}], m)
  BY DEF Aside, Shaped, DocFields, PlainFits
<1>6. ASSUME NEW x, Aside(d, x, m) PROVE Aside(d, [x EXCEPT !.userInputs = {}], m)
  BY <1>6 DEF Aside, Shaped, DocFields, PlainFits
<1>7. ASSUME NEW x, Aside(d, x, m) PROVE Aside(d, [x EXCEPT !.turn = 0], m)
  BY <1>7 DEF Aside, Shaped, DocFields, PlainFits
<1>8. Abandoned(c) = [[[[c EXCEPT !.approvals = {}] EXCEPT !.userInputs = {}] EXCEPT !.turn = 0]
                        EXCEPT !.interrupting = FALSE]
  BY DEF Abandoned
<1> QED BY <1>1, <1>3, <1>4, <1>5, <1>6, <1>7, <1>8

\* Archiving, session, turn and checkpoint events touch neither queue nor log.
LEMMA LifeAside ==
  ASSUME NEW d, NEW e, NEW m \in Nat, Shaped(d), PlainFits(d, m), e.type \in LifeEvents
  PROVE  Aside(d, ApplyLife(d, e), m)
<1>0. Aside(d, d, m) /\ {"archived", "waiting", "idle"} \subseteq Statuses
  BY DEF Aside, Statuses
<1>1. CASE e.type = "thread.archived"
  <2>1. ApplyLife(d, e) = [d EXCEPT !.status = "archived"]
    BY <1>1 DEF ApplyLife
  <2> QED BY <2>1 DEF Aside, Shaped, DocFields, PlainFits, Statuses
<1>2. CASE e.type = "thread.unarchived"
  <2>1. ApplyLife(d, e) = [Abandoned(d) EXCEPT !.status = IF d.plan # 0 THEN "waiting" ELSE "idle"]
    BY <1>2 DEF ApplyLife
  <2>2. Aside(d, Abandoned(d), m)
    BY <1>0, AsideGoesOn
  <2> DEFINE c == Abandoned(d)
             status == IF d.plan # 0 THEN "waiting" ELSE "idle"
  <2>3. ApplyLife(d, e) = [c EXCEPT !.status = status] /\ Aside(d, c, m) /\ status \in Statuses
    BY <1>0, <2>1, <2>2
  <2> HIDE DEF c, status
  <2>4. Aside(d, [c EXCEPT !.status = status], m)
    BY <2>3, AsideGoesOn
  <2> QED BY <2>3, <2>4
<1>3. CASE e.type = "thread.deleted"
  <2>1. ApplyLife(d, e) = [d EXCEPT !.life = "deleted"]
    BY <1>3 DEF ApplyLife
  <2> QED BY <2>1 DEF Aside, Shaped, DocFields, PlainFits
<1> QED BY <1>1, <1>2, <1>3 DEF LifeEvents

LEMMA SessionAside ==
  ASSUME NEW d, NEW e, NEW m \in Nat, NEW q, NEW r, Shaped(d), PlainFits(d, m),
         e.type \in SessionEvents, EventFits(d, e, m, q, r)
  PROVE  Aside(d, ApplySession(d, e), m)
<1>1. CASE e.type = "thread.session.bound"
  <2>1. ApplySession(d, e)
          = [d EXCEPT !.session = [instance |-> e.instance, steering |-> e.steering]]
    BY <1>1 DEF ApplySession
  <2>2. [instance |-> e.instance, steering |-> e.steering]
          \in [instance : Instances \cup {NoInstance}, steering : Steering]
    BY <1>1 DEF EventFits
  <2> QED BY <2>1, <2>2 DEF Aside, Shaped, DocFields, PlainFits
<1>2. CASE e.type = "thread.session.lost"
  <2>1. ApplySession(d, e) = [Abandoned(d) EXCEPT !.session = NoSession, !.status = "error"]
    BY <1>2 DEF ApplySession
  <2>2. NoSession \in [instance : Instances \cup {NoInstance}, steering : Steering]
    BY DEF NoSession, Steering
  <2>3. "error" \in Statuses /\ Aside(d, d, m)
    BY DEF Statuses, Aside
  <2>4. Aside(d, Abandoned(d), m)
    BY <2>3, AsideGoesOn
  <2>5. ASSUME NEW x, Aside(d, x, m) PROVE Aside(d, [x EXCEPT !.session = NoSession], m)
    BY <2>2, <2>5 DEF Aside, Shaped, DocFields, PlainFits
  <2>6. Aside(d, [Abandoned(d) EXCEPT !.session = NoSession], m)
    BY <2>4, <2>5
  <2> DEFINE c == [Abandoned(d) EXCEPT !.session = NoSession]
  <2>7. ApplySession(d, e) = [c EXCEPT !.status = "error"] /\ Aside(d, c, m)
    BY <2>1, <2>6
  <2> HIDE DEF c
  <2>8. Aside(d, [c EXCEPT !.status = "error"], m)
    BY <2>3, <2>7, AsideGoesOn
  <2> QED BY <2>7, <2>8
<1> QED BY <1>1, <1>2 DEF SessionEvents

LEMMA TurnAside ==
  ASSUME NEW d, NEW e, NEW m \in Nat, NEW q, NEW r, Shaped(d), PlainFits(d, m),
         e.type \in TurnEvents, EventFits(d, e, m, q, r)
  PROVE  Aside(d, ApplyTurn(d, e), m)
<1>0. Aside(d, d, m)
  BY DEF Aside
<1>1. CASE e.type = "thread.turn.requested"
  <2>1. ApplyTurn(d, e) = [d EXCEPT !.turn = e.turn, !.status = "running"]
    BY <1>1 DEF ApplyTurn
  <2>2. e.turn = m
    BY <1>1 DEF EventFits
  <2> QED BY <2>1, <2>2 DEF Aside, Shaped, DocFields, PlainFits, Statuses
<1>2. CASE e.type = "thread.turn.started"
  <2>1. ApplyTurn(d, e) = [d EXCEPT !.status = "running"]
    BY <1>2 DEF ApplyTurn
  <2> QED BY <2>1 DEF Aside, Shaped, DocFields, PlainFits, Statuses
<1>3. CASE e.type = "thread.turn.completed"
  <2>1. PICK status \in Statuses :
          \/ ApplyTurn(d, e) = d
          \/ ApplyTurn(d, e) = [d EXCEPT !.turn = 0, !.interrupting = FALSE, !.status = status]
    BY <1>3 DEF ApplyTurn, Settled, WaitingOr, Statuses
  <2>2. Aside(d, [d EXCEPT !.turn = 0, !.interrupting = FALSE], m)
    BY <1>0, <2>1, AsideGoesOn
  <2>3. Aside(d, [[d EXCEPT !.turn = 0, !.interrupting = FALSE] EXCEPT !.status = status], m)
    BY <2>2, AsideGoesOn
  <2> QED BY <1>0, <2>1, <2>3
<1>4. CASE e.type = "thread.turn.steered"
  BY <1>0, <1>4 DEF ApplyTurn
<1>5. CASE e.type = "thread.turn.interrupted"
  <2>1. ApplyTurn(d, e) = [d EXCEPT !.interrupting = TRUE, !.status = "running"]
    BY <1>5 DEF ApplyTurn
  <2> QED BY <2>1 DEF Aside, Shaped, DocFields, PlainFits, Statuses
<1>6. CASE e.type = "thread.error"
  <2>1. \/ ApplyTurn(d, e) = d
        \/ ApplyTurn(d, e) = [d EXCEPT !.status = "error", !.turn = 0, !.interrupting = FALSE]
    BY <1>6 DEF ApplyTurn
  <2>2. "error" \in Statuses
    BY DEF Statuses
  <2>3. Aside(d, [d EXCEPT !.status = "error"], m)
    BY <1>0, <2>2, AsideGoesOn
  <2>4. Aside(d, [[d EXCEPT !.status = "error"] EXCEPT !.turn = 0, !.interrupting = FALSE], m)
    BY <2>2, <2>3, AsideGoesOn
  <2> QED BY <1>0, <2>1, <2>4
<1> QED BY <1>1, <1>2, <1>3, <1>4, <1>5, <1>6 DEF TurnEvents

LEMMA RestoreAside ==
  ASSUME NEW d, NEW e, NEW m \in Nat, NEW q, NEW r, Shaped(d), PlainFits(d, m),
         e.type \in RestoreEvents, EventFits(d, e, m, q, r)
  PROVE  Aside(d, ApplyRestore(d, e), m)
<1>1. CASE e.type = "thread.checkpoint.created"
  <2>1. ApplyRestore(d, e) = [d EXCEPT !.checkpoints = @ \cup {e.turn}]
    BY <1>1 DEF ApplyRestore
  <2>2. e.turn \in 1..m
    BY <1>1 DEF EventFits
  <2> QED BY <2>1, <2>2 DEF Aside, Shaped, DocFields, PlainFits
<1>2. CASE e.type = "thread.checkpoint.restore.requested"
  <2>1. ApplyRestore(d, e) = [d EXCEPT !.restoring = e.turn]
    BY <1>2 DEF ApplyRestore
  <2>2. e.turn \in 0..m
    BY <1>2 DEF EventFits
  <2> QED BY <2>1, <2>2 DEF Aside, Shaped, DocFields, PlainFits
<1>3. CASE e.type \in {"thread.checkpoint.restored", "thread.checkpoint.restore.failed"}
  <2>1. ApplyRestore(d, e) = [d EXCEPT !.restoring = 0]
    BY <1>3 DEF ApplyRestore
  <2> QED BY <2>1 DEF Aside, Shaped, DocFields, PlainFits
<1> QED BY <1>1, <1>2, <1>3 DEF RestoreEvents

\* Queueing, taking out and reordering keep a queue that lists each message once.
LEMMA QueueStepFits ==
  ASSUME NEW d, NEW e, NEW m \in Nat, NEW q \in Nat, NEW r \in Nat, DocFits(d, m, q, r),
         e.type \in QueueEvents, EventFits(d, e, m, q, r)
  PROVE  DocFits(ApplyQueue(d, e), m, q, r)
<1> DEFINE queue == d.queue
           T == 1..q
<1>1. queue \in Seq(T) /\ Distinct(queue)
  BY DEF DocFits, QueueFits
<1>2. ASSUME NEW new, QueueFits(new, q), ApplyQueue(d, e) = [d EXCEPT !.queue = new]
      PROVE  DocFits(ApplyQueue(d, e), m, q, r)
  BY <1>2 DEF DocFits, Shaped, DocFields, PlainFits
<1> HIDE DEF T, queue
<1>3. CASE e.type = "thread.message.queued"
  <2> DEFINE one == <<e.message>>
  <2>1. one \in Seq(T) /\ Distinct(one) /\ DOMAIN one = {1} /\ one[1] = e.message
    BY <1>3 DEF EventFits, Distinct, T
  <2>2. ~Holds(queue, e.message)
    BY <1>3 DEF EventFits, queue
  <2>7. e.message \in T
    BY <1>3 DEF EventFits, T
  <2>3. Append(queue, e.message) = queue \o one
    BY <1>1, <2>7, AppendIsConcat
  <2> HIDE DEF one
  <2>4. \A i \in DOMAIN queue, j \in DOMAIN one : queue[i] # one[j]
    BY <2>1, <2>2 DEF Holds
  <2>5. QueueFits(queue \o one, q)
    BY <1>1, <2>1, <2>4, ConcatDistinct DEF QueueFits, T
  <2>6. ApplyQueue(d, e) = [d EXCEPT !.queue = Append(queue, e.message)]
    BY <1>3 DEF ApplyQueue, queue
  <2> QED BY <1>2, <2>3, <2>5, <2>6
<1>4. CASE e.type = "thread.message.dequeued"
  <2>1. QueueFits(Without(queue, e.message), q)
    <3> DEFINE places == {k \in DOMAIN queue : queue[k] # e.message}
    <3>1. places \in SUBSET (DOMAIN queue) /\ Without(queue, e.message) = Keeping(queue, places)
      BY DEF Without
    <3> HIDE DEF places
    <3> QED BY <1>1, <3>1, KeepingHolds DEF QueueFits, T
  <2>2. ApplyQueue(d, e) = [d EXCEPT !.queue = Without(queue, e.message)]
    BY <1>4 DEF ApplyQueue, queue
  <2> QED BY <1>2, <2>1, <2>2
<1>5. CASE e.type = "thread.queue.reordered"
  <2>1. e.order \in Seq(T) /\ Distinct(e.order)
    BY <1>5 DEF EventFits, QueueFits, T
  <2>2. QueueFits(InOrder(queue, e.order), q)
    BY <1>1, <2>1, OrderedDistinct DEF QueueFits, T
  <2>3. ApplyQueue(d, e) = [d EXCEPT !.queue = InOrder(queue, e.order)]
    BY <1>5 DEF ApplyQueue, queue
  <2> QED BY <1>2, <2>2, <2>3
<1> QED BY <1>3, <1>4, <1>5 DEF QueueEvents

\* An answer to an open request moves it from its list to the log; an echo of
\* an answer given already moves nothing.
LEMMA CardSettles ==
  ASSUME NEW a, NEW u, NEW log, NEW r, CardsFit(a, u, log, r), NEW id, NEW outcome \in Answers,
         NEW a1 \in SUBSET a, NEW u1 \in SUBSET u, id \in a \cup u, id \notin a1 \cup u1
  PROVE  CardsFit(a1, u1, Append(log, [id |-> id, outcome |-> outcome]), r)
<1> DEFINE T == [id : 1..r, outcome : Answers]
           line == [id |-> id, outcome |-> outcome]
           new == Append(log, line)
<1>1. line \in T /\ line.id = id
  BY DEF CardsFit
<1>2. log \in Seq(T)
  BY DEF CardsFit
<1> HIDE DEF T, line
<1>3. /\ new \in Seq(T) /\ Len(new) = Len(log) + 1 /\ new[Len(log) + 1] = line
      /\ \A i \in 1..Len(log) : new[i] = log[i]
  BY <1>1, <1>2, AppendProperties
<1> HIDE DEF new
<1>4. Len(log) \in Nat /\ DOMAIN log = 1..Len(log) /\ DOMAIN new = 1..Len(log) + 1
  BY <1>2, <1>3
<1>5. \A i \in DOMAIN new : i = Len(log) + 1 \/ i \in DOMAIN log
  BY <1>4
<1>6. \A i \in DOMAIN log : log[i].id # id
  BY DEF CardsFit
<1>7. ASSUME NEW j \in DOMAIN new, NEW k \in DOMAIN new, new[j].id = new[k].id PROVE j = k
  <2>1. CASE j \in DOMAIN log /\ k \in DOMAIN log
    BY <1>3, <1>4, <1>7, <2>1 DEF CardsFit
  <2>2. CASE j = Len(log) + 1 /\ k \in DOMAIN log
    BY <1>1, <1>3, <1>4, <1>6, <1>7, <2>2
  <2>3. CASE k = Len(log) + 1 /\ j \in DOMAIN log
    BY <1>1, <1>3, <1>4, <1>6, <1>7, <2>3
  <2> QED BY <1>5, <2>1, <2>2, <2>3
<1>8. ASSUME NEW j \in DOMAIN new PROVE new[j].id \notin a1 \cup u1
  <2>1. CASE j \in DOMAIN log
    BY <1>3, <1>4, <2>1 DEF CardsFit
  <2>2. CASE j = Len(log) + 1
    BY <1>1, <1>3, <2>2
  <2> QED BY <1>5, <2>1, <2>2
<1>9. a1 \in SUBSET (1..r) /\ u1 \in SUBSET (1..r) /\ a1 \cap u1 = {}
  BY DEF CardsFit
<1>10. CardsFit(a1, u1, new, r)
  BY <1>3, <1>7, <1>8, <1>9, Zenon DEF CardsFit, T
<1> QED BY <1>10 DEF new, line

\* The status an answer leaves behind.
LEMMA AnsweredFits ==
  ASSUME NEW c, NEW m \in Nat, NEW q, NEW r, DocFits(c, m, q, r)
  PROVE  DocFits(Answered(c), m, q, r)
<1>1. PICK status \in Statuses : Answered(c) = [c EXCEPT !.status = status]
  BY DEF Answered, WaitingOr, Statuses
<1> QED BY <1>1 DEF DocFits, Shaped, DocFields, PlainFits

\* Opening and answering cards keep each request in one place.
LEMMA CardStepFits ==
  ASSUME NEW d, NEW e, NEW m \in Nat, NEW q \in Nat, NEW r \in Nat, DocFits(d, m, q, r),
         e.type \in CardEvents, EventFits(d, e, m, q, r)
  PROVE  DocFits(ApplyCards(d, e), m, q, r)
<1> DEFINE a == d.approvals
           u == d.userInputs
           log == d.decisions
<1>1. CardsFit(a, u, log, r)
  BY DEF DocFits
<1>2. "waiting" \in Statuses
  BY DEF Statuses
<1>3. Outcome(e.actor) \in Answers
  BY DEF Outcome, Answers
<1>4. CASE e.type = "thread.approval.opened"
  <2>1. ApplyCards(d, e) = [d EXCEPT !.approvals = a \cup {e.request}, !.status = "waiting"]
    BY <1>4 DEF ApplyCards
  <2>2. e.request \in 1..r /\ FreshRequest(d, e.request)
    BY <1>4 DEF EventFits
  <2>3. CardsFit(a \cup {e.request}, u, log, r)
    BY <1>1, <2>2 DEF CardsFit, FreshRequest
  <2> QED BY <1>2, <2>1, <2>3 DEF DocFits, Shaped, DocFields, PlainFits
<1>5. CASE e.type = "thread.userInput.requested"
  <2>1. ApplyCards(d, e) = [d EXCEPT !.userInputs = u \cup {e.request}, !.status = "waiting"]
    BY <1>5 DEF ApplyCards
  <2>2. e.request \in 1..r /\ FreshRequest(d, e.request)
    BY <1>5 DEF EventFits
  <2>3. CardsFit(a, u \cup {e.request}, log, r)
    BY <1>1, <2>2 DEF CardsFit, FreshRequest
  <2> QED BY <1>2, <2>1, <2>3 DEF DocFits, Shaped, DocFields, PlainFits
<1>6. CASE e.type = "thread.approval.resolved"
  <2> DEFINE a1 == a \ {e.request}
             log1 == WithDecision(d, e.request \in a, e.request, Outcome(e.actor))
             c == [d EXCEPT !.approvals = a1, !.decisions = log1]
  <2>1. ApplyCards(d, e) = Answered(c)
    BY <1>6 DEF ApplyCards
  <2>2. ASSUME e.request \in a PROVE CardsFit(a1, u, log1, r)
    <3>1. log1 = Append(log, [id |-> e.request, outcome |-> Outcome(e.actor)])
      BY <2>2 DEF WithDecision
    <3>2. a1 \in SUBSET a /\ e.request \notin a1 \cup u
      BY <1>1, <2>2 DEF CardsFit
    <3> HIDE DEF a, u, log, a1, log1
    <3>3. CardsFit(a1, u, Append(log, [id |-> e.request, outcome |-> Outcome(e.actor)]), r)
      BY <1>1, <1>3, <2>2, <3>2, CardSettles
    <3> QED BY <3>1, <3>3
  <2>3. ASSUME e.request \notin a PROVE CardsFit(a1, u, log1, r)
    <3>1. log1 = log /\ a1 = a
      BY <2>3 DEF WithDecision
    <3> QED BY <1>1, <3>1
  <2>4. CardsFit(a1, u, log1, r)
    BY <2>2, <2>3
  <2> HIDE DEF a1, log1
  <2>5. DocFits(c, m, q, r)
    BY <2>4 DEF DocFits, Shaped, DocFields, PlainFits
  <2> HIDE DEF c
  <2> QED BY <2>1, <2>5, AnsweredFits
<1>7. CASE e.type = "thread.userInput.resolved"
  <2> DEFINE u1 == u \ {e.request}
             log1 == WithDecision(d, e.request \in u, e.request, Outcome(e.actor))
             c == [d EXCEPT !.userInputs = u1, !.decisions = log1]
  <2>1. ApplyCards(d, e) = Answered(c)
    BY <1>7 DEF ApplyCards
  <2>2. ASSUME e.request \in u PROVE CardsFit(a, u1, log1, r)
    <3>1. log1 = Append(log, [id |-> e.request, outcome |-> Outcome(e.actor)])
      BY <2>2 DEF WithDecision
    <3>2. u1 \in SUBSET u /\ e.request \notin a \cup u1
      BY <1>1, <2>2 DEF CardsFit
    <3> HIDE DEF a, u, log, u1, log1
    <3>3. CardsFit(a, u1, Append(log, [id |-> e.request, outcome |-> Outcome(e.actor)]), r)
      BY <1>1, <1>3, <2>2, <3>2, CardSettles
    <3> QED BY <3>1, <3>3
  <2>3. ASSUME e.request \notin u PROVE CardsFit(a, u1, log1, r)
    <3>1. log1 = log /\ u1 = u
      BY <2>3 DEF WithDecision
    <3> QED BY <1>1, <3>1
  <2>4. CardsFit(a, u1, log1, r)
    BY <2>2, <2>3
  <2> HIDE DEF u1, log1
  <2>5. DocFits(c, m, q, r)
    BY <2>4 DEF DocFits, Shaped, DocFields, PlainFits
  <2> HIDE DEF c
  <2> QED BY <2>1, <2>5, AnsweredFits
<1>8. CASE e.type = "thread.plan.proposed"
  <2>1. ApplyCards(d, e) = [d EXCEPT !.plan = e.turn, !.status = "waiting"]
    BY <1>8 DEF ApplyCards
  <2>2. e.turn \in 0..m
    BY <1>8 DEF EventFits
  <2> QED BY <1>2, <2>1, <2>2 DEF DocFits, Shaped, DocFields, PlainFits
<1>9. CASE e.type = "thread.plan.responded"
  <2> DEFINE c == [d EXCEPT !.plan = 0]
  <2>1. ApplyCards(d, e) = Answered(c)
    BY <1>9 DEF ApplyCards
  <2>2. DocFits(c, m, q, r)
    BY DEF DocFits, Shaped, DocFields, PlainFits
  <2> HIDE DEF c
  <2> QED BY <2>1, <2>2, AnsweredFits
<1> QED BY <1>4, <1>5, <1>6, <1>7, <1>8, <1>9 DEF CardEvents

\* A thread that does not exist.
LEMMA NoDocFits ==
  ASSUME NEW m \in Nat, NEW q \in Nat, NEW r \in Nat
  PROVE  DocFits(NoDoc, m, q, r)
<1>1. Shaped(NoDoc)
  BY DEF NoDoc, Shaped, DocFields
<1>4. NoSession \in [instance : Instances \cup {NoInstance}, steering : Steering] /\ "idle" \in Statuses
  BY DEF NoSession, Steering, Statuses
<1>5. PlainFits(NoDoc, m)
  BY <1>4 DEF NoDoc, PlainFits
<1>2. /\ NoDoc.queue = <<>> /\ NoDoc.decisions = <<>>
      /\ NoDoc.approvals = {} /\ NoDoc.userInputs = {}
  BY DEF NoDoc
<1>3. \A T : <<>> \in Seq(T) /\ DOMAIN <<>> = {}
  OBVIOUS
<1> QED BY <1>1, <1>2, <1>3, <1>5 DEF DocFits, QueueFits, CardsFit, Distinct

\* One event of the fold: a document whose contents fit still has contents that fit.
LEMMA ApplyFits ==
  ASSUME NEW d, NEW e, NEW m \in Nat, NEW q \in Nat, NEW r \in Nat, DocFits(d, m, q, r),
         EventFits(d, e, m, q, r)
  PROVE  DocFits(Apply(d, e), m, q, r)
<1>1. CASE e.type = "thread.created"
  <2>1. e.instance \in Instances \cup {NoInstance} /\ DocFits(NoDoc, m, q, r)
    BY <1>1, NoDocFits DEF EventFits
  <2>2. Apply(d, e) = [NoDoc EXCEPT !.life = "live", !.chosen = e.instance]
    BY <1>1 DEF Apply
  <2> QED BY <2>1, <2>2 DEF DocFits, Shaped, DocFields, PlainFits
<1>2. CASE e.type # "thread.created" /\ d.life = "none"
  BY <1>2 DEF Apply
<1>3. CASE e.type # "thread.created" /\ d.life # "none"
  <2>0. Apply(d, e) = ApplyExisting(d, e) /\ Shaped(d) /\ PlainFits(d, m)
    BY <1>3 DEF Apply, DocFits
  <2>1. CASE e.type \in LifeEvents
    <3>1. ApplyExisting(d, e) = ApplyLife(d, e)
      BY <2>1 DEF ApplyExisting, LifeEvents, SessionEvents, TurnEvents, QueueEvents, CardEvents, RestoreEvents
    <3>2. Aside(d, ApplyLife(d, e), m)
      BY <2>0, <2>1, LifeAside
    <3> QED BY <2>0, <3>1, <3>2, AsideFits
  <2>2. CASE e.type \in SessionEvents
    <3>1. ApplyExisting(d, e) = ApplySession(d, e)
      BY <2>2 DEF ApplyExisting, LifeEvents, SessionEvents, TurnEvents, QueueEvents, CardEvents, RestoreEvents
    <3>2. Aside(d, ApplySession(d, e), m)
      BY <2>0, <2>2, SessionAside
    <3> QED BY <2>0, <3>1, <3>2, AsideFits
  <2>3. CASE e.type \in TurnEvents
    <3>1. ApplyExisting(d, e) = ApplyTurn(d, e)
      BY <2>3 DEF ApplyExisting, LifeEvents, SessionEvents, TurnEvents, QueueEvents, CardEvents, RestoreEvents
    <3>2. Aside(d, ApplyTurn(d, e), m)
      BY <2>0, <2>3, TurnAside
    <3> QED BY <2>0, <3>1, <3>2, AsideFits
  <2>4. CASE e.type \in RestoreEvents
    <3>1. ApplyExisting(d, e) = ApplyRestore(d, e)
      BY <2>4 DEF ApplyExisting, LifeEvents, SessionEvents, TurnEvents, QueueEvents, CardEvents, RestoreEvents
    <3>2. Aside(d, ApplyRestore(d, e), m)
      BY <2>0, <2>4, RestoreAside
    <3> QED BY <2>0, <3>1, <3>2, AsideFits
  <2>5. CASE e.type \in QueueEvents
    <3>1. ApplyExisting(d, e) = ApplyQueue(d, e)
      BY <2>5 DEF ApplyExisting, LifeEvents, SessionEvents, TurnEvents, QueueEvents, CardEvents, RestoreEvents
    <3> QED BY <2>0, <2>5, <3>1, QueueStepFits
  <2>6. CASE e.type \in CardEvents
    <3>1. ApplyExisting(d, e) = ApplyCards(d, e)
      BY <2>6 DEF ApplyExisting, LifeEvents, SessionEvents, TurnEvents, QueueEvents, CardEvents, RestoreEvents
    <3> QED BY <2>0, <2>6, <3>1, CardStepFits
  <2>7. CASE e.type = "thread.item.upserted"
    <3>1. ApplyExisting(d, e) = [d EXCEPT !.spoke = TRUE]
      BY <2>7 DEF ApplyExisting, LifeEvents, SessionEvents, TurnEvents, QueueEvents, CardEvents, RestoreEvents
    <3>2. Aside(d, [d EXCEPT !.spoke = TRUE], m)
      BY <2>0 DEF Aside, Shaped, DocFields, PlainFits
    <3> QED BY <2>0, <3>1, <3>2, AsideFits
  <2>8. CASE e.type = "thread.settings.updated"
    <3>1. e.instance \in Instances \cup {NoInstance}
      BY <2>8 DEF EventFits
    <3>2. ApplyExisting(d, e) = [d EXCEPT !.chosen = IF e.instance = NoInstance THEN @ ELSE e.instance]
      BY <2>8 DEF ApplyExisting, LifeEvents, SessionEvents, TurnEvents, QueueEvents, CardEvents, RestoreEvents
    <3>3. PICK i \in Instances \cup {NoInstance} : ApplyExisting(d, e) = [d EXCEPT !.chosen = i]
      BY <2>0, <3>1, <3>2 DEF PlainFits
    <3> QED BY <2>0, <3>3 DEF DocFits, Shaped, DocFields, PlainFits
  <2> QED BY <1>3, <2>1, <2>2, <2>3, <2>4, <2>5, <2>6, <2>7, <2>8 DEF EventFits, AllEvents
<1> QED BY <1>1, <1>2, <1>3

\* The shapes of an accepted decision, with what its one event owes.
DecisionFits(d, env, m, q, r, events) ==
  \/ events = <<>>
  \/ events = NewTurn(env) /\ d.turn = 0
  \/ events = <<TurnSteered(d.turn), UserRow(d.turn)>>
  \/ events = <<Queued(env.message)>>
  \/ \E e : /\ events = <<e>>
            /\ e.type \notin {"thread.turn.requested", "thread.message.queued"}
            /\ EventFits(d, e, m, q, r)

\* Events that bring nothing of their own into the document.
PlainTypes ==
  {"thread.archived", "thread.unarchived", "thread.deleted", "thread.session.lost",
   "thread.turn.started", "thread.turn.completed", "thread.turn.steered",
   "thread.error", "thread.message.dequeued", "thread.approval.resolved", "thread.userInput.resolved",
   "thread.plan.responded", "thread.checkpoint.restored", "thread.checkpoint.restore.failed",
   "thread.item.upserted"}

LEMMA PlainEventFits ==
  ASSUME NEW d, NEW m, NEW q, NEW r, NEW e, e.type \in PlainTypes
  PROVE  EventFits(d, e, m, q, r)
BY DEF PlainTypes, EventFits, AllEvents, LifeEvents, SessionEvents, TurnEvents, QueueEvents, CardEvents,
       RestoreEvents

LEMMA PlainDecisionFits ==
  ASSUME NEW d, NEW env, NEW m, NEW q, NEW r, NEW e, e.type \in PlainTypes
  PROVE  DecisionFits(d, env, m, q, r, <<e>>)
<1>1. EventFits(d, e, m, q, r)
  BY PlainEventFits
<1> QED BY <1>1 DEF DecisionFits, PlainTypes

\* What a client may name in a command: its own instances and ids, or any place
\* in the queue.
CommandFits(cmd) ==
  /\ cmd.type \in ThreadCommands \cup {"thread.create"}
  /\ cmd.type \in {"thread.create", "thread.settings.update"} => cmd.instance \in Instances \cup {NoInstance}
  /\ cmd.type = "thread.queue.reorder" => cmd.to \in Nat \ {0}

\* Whatever a live thread's command decides fits the document.
LEMMA LiveDecisionFits ==
  ASSUME NEW cmd, NEW d, NEW ctx, NEW env, NEW m \in Nat, NEW q \in Nat, NEW r \in Nat,
         DocFits(d, m, q, r), CommandFits(cmd), cmd.type \in ThreadCommands,
         DecideLive(cmd, d, ctx, env).accepted
  PROVE  DecisionFits(d, env, m, q, r, DecideLive(cmd, d, ctx, env).events)
<1> DEFINE res == DecideLive(cmd, d, ctx, env)
           Fits(events) == DecisionFits(d, env, m, q, r, events)
<1>0. \A ok, events : When(ok, events).accepted => When(ok, events).events = events
  BY DEF When, Accepted, Rejected
<1>1. ASSUME NEW ok, NEW e, res = When(ok, <<e>>), Fits(<<e>>)
      PROVE  Fits(res.events)
  BY <1>0, <1>1
<1>2. CASE cmd.type \in {"thread.archive", "thread.unarchive", "thread.delete"}
  <2>1. PICK ok, e : e \in {Archived, Unarchived, Deleted} /\ res = When(ok, <<e>>)
    <3>1. Accepted(<<Deleted>>) = When(TRUE, <<Deleted>>)
      BY DEF When
    <3> QED BY <1>2, <3>1 DEF DecideLive
  <2>2. Fits(<<e>>)
    BY <2>1, PlainDecisionFits DEF Archived, Unarchived, Deleted, PlainTypes
  <2> QED BY <1>1, <2>1, <2>2
<1>3. Fits(<<Queued(env.message)>>) /\ (d.turn = 0 => Fits(NewTurn(env)))
      /\ Fits(<<TurnSteered(d.turn), UserRow(d.turn)>>) /\ Fits(<<>>)
  BY DEF DecisionFits
<1>4. CASE cmd.type = "thread.turn.start"
  <2>1. res = DecideTurnStart(cmd, d, ctx, env)
    BY <1>4 DEF DecideLive
  <2>2. res.accepted => res.events = <<Queued(env.message)>> \/ (res.events = NewTurn(env) /\ d.turn = 0)
    BY <2>1 DEF DecideTurnStart, When, Accepted, Rejected
  <2> QED BY <1>3, <2>2
<1>5. CASE cmd.type = "thread.turn.steer"
  <2>1. res = DecideSteer(d, ctx, env)
    BY <1>5 DEF DecideLive
  <2>2. d.session.steering \in Steering
    BY DEF DocFits, PlainFits
  <2>3. \/ res = Accepted(NewTurn(env)) /\ d.turn = 0
        \/ res \in {Rejected, Accepted(<<Queued(env.message)>>),
                    Accepted(<<TurnSteered(d.turn), UserRow(d.turn)>>)}
    BY <2>1, <2>2 DEF DecideSteer, Steering
  <2> QED BY <1>3, <2>3 DEF Accepted, Rejected
<1>10. CASE cmd.type = "thread.turn.interrupt"
  <2>1. res = When(d.turn # 0 /\ ~d.interrupting, <<TurnInterrupted(d.turn)>>)
    BY <1>10 DEF DecideLive
  <2>2. d.turn # 0 /\ d.turn \in {0, m}
    BY <2>1 DEF When, Rejected, DocFits, PlainFits
  <2>3. Fits(<<TurnInterrupted(d.turn)>>)
    BY <2>2 DEF DecisionFits, EventFits, TurnInterrupted, AllEvents, TurnEvents
  <2> QED BY <1>1, <2>1, <2>3
<1>6. CASE cmd.type \in {"thread.approval.respond", "thread.userInput.respond",
                         "thread.plan.respond", "thread.queue.remove"}
  <2>1. PICK ok, e : /\ res = When(ok, <<e>>)
                     /\ e \in {ApprovalResolved(cmd.request, "user"),
                               InputResolved(cmd.request, "user"), PlanResponded(cmd.turn),
                               Dequeued(cmd.message)}
    BY <1>6 DEF DecideLive
  <2>2. Fits(<<e>>)
    BY <2>1, PlainDecisionFits
       DEF ApprovalResolved, InputResolved, PlanResponded, Dequeued, PlainTypes
  <2> QED BY <1>1, <2>1, <2>2
<1>7. CASE cmd.type = "thread.settings.update"
  <2>1. res = DecideSettings(cmd, d) /\ cmd.instance \in Instances \cup {NoInstance}
    BY <1>7 DEF DecideLive, CommandFits
  <2>2. PICK ok, i : i \in Instances \cup {NoInstance} /\ res = When(ok, <<SettingsUpdated(i)>>)
    BY <2>1 DEF DecideSettings
  <2>3. Fits(<<SettingsUpdated(i)>>)
    BY <2>2 DEF DecisionFits, EventFits, SettingsUpdated, AllEvents
  <2> QED BY <1>1, <2>2, <2>3
<1>8. CASE cmd.type = "thread.queue.reorder"
  <2>1. res = DecideReorder(cmd, d) /\ cmd.to \in Nat \ {0}
    BY <1>8 DEF DecideLive, CommandFits
  <2> DEFINE moved == MovedTo(d.queue, cmd.message, cmd.to)
  <2>2. res.accepted => /\ Holds(d.queue, cmd.message) /\ ~(cmd.to > Len(d.queue))
                        /\ res.events \in {<<>>, <<Reordered(moved)>>}
    BY <2>1 DEF DecideReorder, Accepted, Rejected
  <2>3. d.queue \in Seq(1..q) /\ Distinct(d.queue) /\ Len(d.queue) \in Nat
    BY DEF DocFits, QueueFits
  <2>4. QueueFits(moved, q)
    <3>1. cmd.to <= Len(d.queue)
      BY <2>1, <2>2, <2>3
    <3> QED BY <2>1, <2>2, <2>3, <3>1, MovedDistinct DEF QueueFits
  <2> HIDE DEF moved
  <2>5. Fits(<<Reordered(moved)>>)
    BY <2>4 DEF DecisionFits, EventFits, Reordered, AllEvents, QueueEvents
  <2> QED BY <1>3, <2>2, <2>5
<1>9. CASE cmd.type = "thread.checkpoint.restore"
  <2>1. PICK ok : res = When(ok, <<RestoreRequested(cmd.turn)>>) /\ (ok => cmd.turn \in d.checkpoints)
    BY <1>9 DEF DecideLive
  <2>2. cmd.turn \in 1..m
    BY <2>1 DEF When, Accepted, Rejected, DocFits, PlainFits
  <2>3. Fits(<<RestoreRequested(cmd.turn)>>)
    BY <2>2 DEF DecisionFits, EventFits, RestoreRequested, AllEvents, RestoreEvents
  <2> QED BY <1>1, <2>1, <2>3
<1> QED BY <1>2, <1>4, <1>5, <1>6, <1>7, <1>8, <1>9, <1>10 DEF ThreadCommands

\* Whether one of these events spends an id of this kind.
Spends(events, type) == \E k \in DOMAIN events : events[k].type = type

\* What was decided fits once the ids it took are minted.
LEMMA DecisionGrows ==
  ASSUME NEW d, NEW env, NEW m \in Nat, NEW q \in Nat, NEW r \in Nat, DocFits(d, m, q, r),
         env.turn = m + 1, env.message = q + 1, NEW events, DecisionFits(d, env, m, q, r, events)
  PROVE  DocFits(ApplyAll(d, events),
                 IF Spends(events, "thread.turn.requested") THEN m + 1 ELSE m,
                 IF Spends(events, "thread.message.queued") THEN q + 1 ELSE q, r)
<1> DEFINE Turn == Spends(events, "thread.turn.requested")
           Message == Spends(events, "thread.message.queued")
<1>0. m + 1 \in Nat /\ q + 1 \in Nat /\ m <= m + 1 /\ q <= q + 1 /\ m <= m /\ q <= q /\ r <= r
  OBVIOUS
<1>1. CASE events = <<>>
  BY <1>1, ApplyNone DEF Spends
<1>2. CASE events = NewTurn(env) /\ d.turn = 0
  <2> DEFINE e == TurnRequested(m + 1)
             f == UserRow(m + 1)
  <2>1. events = <<e, f>> /\ e.type = "thread.turn.requested" /\ f.type = "thread.item.upserted"
        /\ e.turn = m + 1
    BY <1>2 DEF NewTurn, TurnRequested, UserRow
  <2> HIDE DEF e, f
  <2>2. Turn /\ ~Message
    BY <2>1 DEF Spends
  <2>3. DocFits(d, m + 1, q, r)
    BY <1>0, <1>2, FitsLater
  <2>4. EventFits(d, e, m + 1, q, r)
    BY <2>1 DEF EventFits, AllEvents, TurnEvents
  <2>5. DocFits(Apply(d, e), m + 1, q, r)
    BY <1>0, <2>3, <2>4, ApplyFits
  <2>6. EventFits(Apply(d, e), f, m + 1, q, r)
    BY <2>1, PlainEventFits DEF PlainTypes
  <2>7. DocFits(Apply(Apply(d, e), f), m + 1, q, r)
    BY <1>0, <2>5, <2>6, ApplyFits
  <2> QED BY <2>1, <2>2, <2>7, ApplyTwo
<1>3. CASE events = <<TurnSteered(d.turn), UserRow(d.turn)>>
  <2> DEFINE e == TurnSteered(d.turn)
             f == UserRow(d.turn)
  <2>1. events = <<e, f>> /\ e.type = "thread.turn.steered" /\ f.type = "thread.item.upserted"
    BY <1>3 DEF TurnSteered, UserRow
  <2> HIDE DEF e, f
  <2>2. ~Turn /\ ~Message
    BY <2>1 DEF Spends
  <2>3. EventFits(d, e, m, q, r) /\ EventFits(Apply(d, e), f, m, q, r)
    BY <2>1, PlainEventFits DEF PlainTypes
  <2>4. DocFits(Apply(Apply(d, e), f), m, q, r)
    BY <2>3, ApplyFits
  <2> QED BY <2>1, <2>2, <2>4, ApplyTwo
<1>4. CASE events = <<Queued(env.message)>>
  <2> DEFINE e == Queued(q + 1)
  <2>1. events = <<e>> /\ e.type = "thread.message.queued" /\ e.message = q + 1
    BY <1>4 DEF Queued
  <2> HIDE DEF e
  <2>2. ~Turn /\ Message
    BY <2>1 DEF Spends
  <2>3. DocFits(d, m, q + 1, r)
    BY <1>0, FitsLater
  <2>4. ~Holds(d.queue, q + 1)
    BY DEF DocFits, QueueFits, Holds
  <2>5. EventFits(d, e, m, q + 1, r)
    BY <2>1, <2>4 DEF EventFits, AllEvents, QueueEvents
  <2>6. DocFits(Apply(d, e), m, q + 1, r)
    BY <1>0, <2>3, <2>5, ApplyFits
  <2> QED BY <2>1, <2>2, <2>6, ApplyOne
<1>5. ASSUME NEW e, events = <<e>>, EventFits(d, e, m, q, r),
             e.type \notin {"thread.turn.requested", "thread.message.queued"}
      PROVE  DocFits(ApplyAll(d, events), IF Turn THEN m + 1 ELSE m, IF Message THEN q + 1 ELSE q, r)
  <2>1. ~Turn /\ ~Message
    BY <1>5 DEF Spends
  <2>2. DocFits(Apply(d, e), m, q, r)
    BY <1>5, ApplyFits
  <2> QED BY <1>5, <2>1, <2>2, ApplyOne
<1> QED BY <1>1, <1>2, <1>3, <1>4, <1>5 DEF DecisionFits

\* The contents of all documents fit the ids minted, within the bounds.
ContentsInv ==
  /\ projects \subseteq Projects
  /\ docs = [t \in Threads |-> docs[t]]
  /\ turns \in [Threads -> 0..MaxTurns]
  /\ messages \in [Threads -> 0..MaxMessages]
  /\ requests \in [Threads -> 0..MaxRequests]
  /\ \A t \in Threads : DocFits(docs[t], turns[t], messages[t], requests[t])

\* One document moves on, with the ids it may use.
Grows(t) ==
  \E c, m, q, r :
    /\ docs' = [docs EXCEPT ![t] = c] /\ projects' = projects
    /\ turns' = [turns EXCEPT ![t] = m] /\ m \in turns[t]..MaxTurns
    /\ messages' = [messages EXCEPT ![t] = q] /\ q \in messages[t]..MaxMessages
    /\ requests' = [requests EXCEPT ![t] = r] /\ r \in requests[t]..MaxRequests
    /\ DocFits(c, m, q, r)

\* Growing keeps the contents invariant.
LEMMA GrowthKeeps ==
  ASSUME ContentsInv, NEW t \in Threads, Grows(t)
  PROVE  ContentsInv'
<1>1. PICK c, m, q, r :
        /\ docs' = [docs EXCEPT ![t] = c] /\ projects' = projects
        /\ turns' = [turns EXCEPT ![t] = m] /\ m \in turns[t]..MaxTurns
        /\ messages' = [messages EXCEPT ![t] = q] /\ q \in messages[t]..MaxMessages
        /\ requests' = [requests EXCEPT ![t] = r] /\ r \in requests[t]..MaxRequests
        /\ DocFits(c, m, q, r)
  BY DEF Grows
<1>2. m \in 0..MaxTurns /\ q \in 0..MaxMessages /\ r \in 0..MaxRequests
  <2>1. turns[t] \in Nat /\ messages[t] \in Nat /\ requests[t] \in Nat
    BY DEF ContentsInv
  <2> QED BY <1>1, <2>1, EngineAssumption DEF EngineAssumption
<1>3. /\ turns' \in [Threads -> 0..MaxTurns] /\ messages' \in [Threads -> 0..MaxMessages]
      /\ requests' \in [Threads -> 0..MaxRequests] /\ docs' = [u \in Threads |-> docs'[u]]
      /\ projects' \subseteq Projects
  BY <1>1, <1>2 DEF ContentsInv
<1>4. /\ docs'[t] = c /\ turns'[t] = m /\ messages'[t] = q /\ requests'[t] = r
      /\ \A u \in Threads \ {t} : /\ docs'[u] = docs[u] /\ turns'[u] = turns[u]
                                  /\ messages'[u] = messages[u] /\ requests'[u] = requests[u]
  BY <1>1 DEF ContentsInv
<1>5. \A u \in Threads : DocFits(docs'[u], turns'[u], messages'[u], requests'[u])
  BY <1>1, <1>4 DEF ContentsInv
<1> QED BY <1>3, <1>5 DEF ContentsInv

\* The counters of a thread are numbers within the bounds.
LEMMA Counters ==
  ASSUME ContentsInv, NEW t \in Threads
  PROVE  /\ turns[t] \in Nat /\ messages[t] \in Nat /\ requests[t] \in Nat
         /\ turns[t] \in turns[t]..MaxTurns /\ messages[t] \in messages[t]..MaxMessages
         /\ requests[t] \in requests[t]..MaxRequests
         /\ turns = [turns EXCEPT ![t] = turns[t]] /\ messages = [messages EXCEPT ![t] = messages[t]]
         /\ requests = [requests EXCEPT ![t] = requests[t]]
         /\ DocFits(docs[t], turns[t], messages[t], requests[t])
BY EngineAssumption DEF EngineAssumption, ContentsInv

\* A dispatched command grows its thread's document.
LEMMA DispatchGrows ==
  ASSUME ContentsInv, NEW t \in Threads, NEW cmd, CommandFits(cmd), Dispatch(t, cmd)
  PROVE  Grows(t)
<1> DEFINE d == docs[t]
           m == turns[t]
           q == messages[t]
           r == requests[t]
           result == Decide(cmd, d, Context(t), Env(t))
           events == result.events
           m1 == IF Spends(events, "thread.turn.requested") THEN m + 1 ELSE m
           q1 == IF Spends(events, "thread.message.queued") THEN q + 1 ELSE q
<1>1. /\ result.accepted
      /\ docs' = [docs EXCEPT ![t] = ApplyAll(d, events)]
      /\ turns' = [turns EXCEPT ![t] = m1] /\ messages' = [messages EXCEPT ![t] = q1]
      /\ turns'[t] <= MaxTurns /\ messages'[t] <= MaxMessages
      /\ UNCHANGED <<projects, requests>>
  BY DEF Dispatch, Commit, Minted, Spent, Spends
<1>2. /\ m \in Nat /\ q \in Nat /\ r \in Nat /\ DocFits(d, m, q, r) /\ r \in r..MaxRequests
      /\ requests' = [requests EXCEPT ![t] = r]
  BY <1>1, Counters
<1>3. Env(t).turn = m + 1 /\ Env(t).message = q + 1
  BY DEF Env
<1>4. DecisionFits(d, Env(t), m, q, r, events)
  <2>1. CASE cmd.type = "thread.create"
    <3>1. result = DecideCreate(cmd, d, Context(t)) /\ cmd.instance \in Instances \cup {NoInstance}
      BY <2>1 DEF Decide, CommandFits
    <3>2. events = <<Created(cmd.instance)>>
      BY <1>1, <3>1 DEF DecideCreate, When, Accepted, Rejected
    <3>3. EventFits(d, Created(cmd.instance), m, q, r) /\ Created(cmd.instance).type = "thread.created"
      BY <3>1 DEF EventFits, Created, AllEvents
    <3> QED BY <3>2, <3>3 DEF DecisionFits
  <2>2. CASE cmd.type # "thread.create"
    <3>1. result = DecideLive(cmd, d, Context(t), Env(t)) /\ cmd.type \in ThreadCommands
      BY <1>1, <2>2 DEF Decide, Rejected, CommandFits
    <3> HIDE DEF d, m, q, r
    <3> QED BY <1>1, <1>2, <3>1, LiveDecisionFits
  <2> QED BY <2>1, <2>2
<1> HIDE DEF events, d, m, q, r
<1>5. DocFits(ApplyAll(d, events), m1, q1, r)
  BY <1>2, <1>3, <1>4, DecisionGrows
<1>6. m1 \in m..MaxTurns /\ q1 \in q..MaxMessages
  <2>1. turns'[t] = m1 /\ messages'[t] = q1
    BY <1>1 DEF ContentsInv
  <2>2. m1 \in Nat /\ q1 \in Nat /\ m <= m1 /\ q <= q1
    BY <1>2
  <2> HIDE DEF m1, q1
  <2> QED BY <1>1, <1>2, <2>1, <2>2, EngineAssumption DEF EngineAssumption
<1> HIDE DEF m1, q1
<1> QED BY <1>1, <1>2, <1>5, <1>6 DEF Grows, m, q, r

\* Every client command names what it may.
LEMMA ClientGrows ==
  ASSUME ContentsInv, NEW t \in Threads, ClientStep(t)
  PROVE  Grows(t)
<1>0. turns[t] \in Nat /\ messages[t] \in Nat /\ requests[t] \in Nat
  BY Counters
<1>1. \E cmd : CommandFits(cmd) /\ Dispatch(t, cmd)
  <2>1. CASE CreateThread(t) BY <2>1 DEF CreateThread, CommandFits
  <2>2. CASE ArchiveThread(t) BY <2>2 DEF ArchiveThread, CommandFits, ThreadCommands
  <2>3. CASE UnarchiveThread(t) BY <2>3 DEF UnarchiveThread, CommandFits, ThreadCommands
  <2>4. CASE DeleteThread(t) BY <2>4 DEF DeleteThread, CommandFits, ThreadCommands
  <2>5. CASE StartTurn(t) BY <2>5 DEF StartTurn, CommandFits, ThreadCommands
  <2>6. CASE SteerTurn(t) BY <2>6 DEF SteerTurn, CommandFits, ThreadCommands
  <2>7. CASE InterruptTurn(t) BY <2>7 DEF InterruptTurn, CommandFits, ThreadCommands
  <2>8. CASE UpdateSettings(t) BY <2>8 DEF UpdateSettings, CommandFits, ThreadCommands
  <2>9. CASE RespondApproval(t) BY <2>9 DEF RespondApproval, CommandFits, ThreadCommands
  <2>10. CASE RespondInput(t) BY <2>10 DEF RespondInput, CommandFits, ThreadCommands
  <2>11. CASE RespondPlan(t) BY <2>11 DEF RespondPlan, CommandFits, ThreadCommands
  <2>12. CASE RemoveQueued(t) BY <2>12 DEF RemoveQueued, CommandFits, ThreadCommands
  <2>13. CASE ReorderQueue(t)
    <3>1. PICK q \in 1..messages[t], to \in 1..messages[t] :
            Dispatch(t, [type |-> "thread.queue.reorder", message |-> q, to |-> to])
      BY <2>13 DEF ReorderQueue
    <3>2. CommandFits([type |-> "thread.queue.reorder", message |-> q, to |-> to])
      BY <1>0 DEF CommandFits, ThreadCommands
    <3> QED BY <3>1, <3>2
  <2>14. CASE RestoreCheckpoint(t) BY <2>14 DEF RestoreCheckpoint, CommandFits, ThreadCommands
  <2> QED
    BY <2>1, <2>2, <2>3, <2>4, <2>5, <2>6, <2>7, <2>8, <2>9, <2>10, <2>11, <2>12, <2>13, <2>14
       DEF ClientStep
<1> QED BY <1>1, DispatchGrows

\* An appended event that fits grows the document.
LEMMA AppendGrows ==
  ASSUME ContentsInv, NEW t \in Threads, NEW e, AppendThreadEvents(t, <<e>>),
         NEW r \in requests[t]..MaxRequests, requests' = [requests EXCEPT ![t] = r],
         EventFits(docs[t], e, turns[t], messages[t], r)
  PROVE  Grows(t)
<1>1. /\ docs' = [docs EXCEPT ![t] = ApplyAll(docs[t], <<e>>)]
      /\ UNCHANGED <<projects, turns, messages>>
  BY DEF AppendThreadEvents, Commit
<1>2. /\ turns[t] \in Nat /\ messages[t] \in Nat /\ requests[t] \in Nat
      /\ turns[t] \in turns[t]..MaxTurns /\ messages[t] \in messages[t]..MaxMessages
      /\ turns = [turns EXCEPT ![t] = turns[t]] /\ messages = [messages EXCEPT ![t] = messages[t]]
      /\ DocFits(docs[t], turns[t], messages[t], requests[t])
  BY Counters
<1>3. r \in Nat /\ requests[t] <= r
  BY <1>2, EngineAssumption DEF EngineAssumption
<1>4. DocFits(docs[t], turns[t], messages[t], r)
  BY <1>2, <1>3, FitsLater
<1>5. DocFits(ApplyAll(docs[t], <<e>>), turns[t], messages[t], r)
  BY <1>2, <1>3, <1>4, ApplyFits, ApplyOne
<1> QED BY <1>1, <1>2, <1>5 DEF Grows

\* So does one that brings nothing of its own.
LEMMA PlainGrows ==
  ASSUME ContentsInv, NEW t \in Threads, NEW e, AppendThreadEvents(t, <<e>>), requests' = requests,
         e.type \in PlainTypes
  PROVE  Grows(t)
<1>1. requests[t] \in requests[t]..MaxRequests /\ requests' = [requests EXCEPT ![t] = requests[t]]
  BY Counters
<1>2. EventFits(docs[t], e, turns[t], messages[t], requests[t])
  BY PlainEventFits
<1> QED BY <1>1, <1>2, AppendGrows

\* Every event a session has ingested grows the document.
LEMMA SessionGrows ==
  ASSUME ContentsInv, NEW t \in Threads, SessionEvent(t) \/ RequestEvent(t)
  PROVE  Grows(t)
<1>0. /\ turns[t] \in Nat /\ messages[t] \in Nat /\ requests[t] \in Nat
      /\ requests[t] \in requests[t]..MaxRequests /\ requests = [requests EXCEPT ![t] = requests[t]]
      /\ DocFits(docs[t], turns[t], messages[t], requests[t])
  BY Counters
<1>1. ASSUME NEW e, AppendThreadEvents(t, <<e>>), requests' = requests,
             EventFits(docs[t], e, turns[t], messages[t], requests[t])
      PROVE  Grows(t)
  <2>1. requests' = [requests EXCEPT ![t] = requests[t]]
    BY <1>0, <1>1
  <2> QED BY <1>0, <1>1, <2>1, AppendGrows
<1>2. CASE SessionEvent(t)
  <2>1. \A i \in Instances, s \in Steering :
          EventFits(docs[t], SessionBound(i, s), turns[t], messages[t], requests[t])
    BY DEF EventFits, SessionBound, AllEvents, SessionEvents
  <2>2. \A m \in 1..turns[t] : EventFits(docs[t], PlanProposed(m), turns[t], messages[t], requests[t])
    BY DEF EventFits, PlanProposed, AllEvents, CardEvents
  <2>3. \A m : {TurnStarted(m).type, TurnCompleted(m).type, ThreadError(m).type} \subseteq PlainTypes
    BY DEF TurnStarted, TurnCompleted, ThreadError, PlainTypes
  <2> QED BY <1>1, <1>2, <2>1, <2>2, <2>3, PlainGrows DEF SessionEvent
<1>3. CASE RequestEvent(t)
  <2> DEFINE r == requests[t] + 1
  <2>1. r \in 1..r /\ FreshRequest(docs[t], r)
    <3>1. CardsFit(docs[t].approvals, docs[t].userInputs, docs[t].decisions, requests[t])
      BY <1>0 DEF DocFits
    <3> DEFINE log == docs[t].decisions
               T == [id : 1..requests[t], outcome : Answers]
    <3>2. log \in Seq(T)
      BY <3>1 DEF CardsFit
    <3>3. \A j \in DOMAIN log : log[j] \in T
      <4> HIDE DEF log, T
      <4> QED BY <3>2
    <3>4. \A j \in DOMAIN log : log[j].id # r
      BY <1>0, <3>3
    <3> QED BY <1>0, <3>1, <3>4 DEF CardsFit, FreshRequest
  <2>2. ASSUME NEW e \in {ApprovalOpened(r), InputRequested(r)}, AppendThreadEvents(t, <<e>>),
               requests[t] < MaxRequests, requests' = [requests EXCEPT ![t] = r]
        PROVE  Grows(t)
    <3>1. r \in requests[t]..MaxRequests
      BY <1>0, <2>2, EngineAssumption DEF EngineAssumption
    <3>2. EventFits(docs[t], e, turns[t], messages[t], r)
      BY <2>1, <2>2 DEF EventFits, ApprovalOpened, InputRequested, AllEvents, CardEvents
    <3> QED BY <2>2, <3>1, <3>2, AppendGrows
  <2>3. \A id, by : {ApprovalResolved(id, by).type, InputResolved(id, by).type} \subseteq PlainTypes
    BY DEF ApprovalResolved, InputResolved, PlainTypes
  <2>4. CASE /\ requests[t] < MaxRequests
             /\ requests' = [requests EXCEPT ![t] = @ + 1]
             /\ \/ AppendThreadEvents(t, <<ApprovalOpened(r)>>)
                \/ AppendThreadEvents(t, <<InputRequested(r)>>)
    <3>1. requests' = [requests EXCEPT ![t] = r]
      BY <2>4
    <3> QED BY <2>2, <2>4, <3>1
  <2>5. CASE /\ requests' = requests
             /\ \E id \in 1..requests[t] :
                  \/ AppendThreadEvents(t, <<ApprovalResolved(id, "connector")>>)
                  \/ AppendThreadEvents(t, <<InputResolved(id, "connector")>>)
    BY <2>3, <2>5, PlainGrows
  <2> QED BY <1>3, <2>4, <2>5 DEF RequestEvent
<1> QED BY <1>2, <1>3

\* Every event a reactor appends grows the document.
LEMMA ReactorGrows ==
  ASSUME ContentsInv, NEW t \in Threads, ReactorEvent(t) \/ DrainHead(t) \/ Requeue(t) \/ QueueSteered(t)
  PROVE  Grows(t)
<1>0. /\ turns[t] \in Nat /\ messages[t] \in Nat /\ requests[t] \in Nat
      /\ turns[t] \in turns[t]..MaxTurns /\ messages[t] \in messages[t]..MaxMessages
      /\ turns = [turns EXCEPT ![t] = turns[t]] /\ messages = [messages EXCEPT ![t] = messages[t]]
      /\ requests[t] \in requests[t]..MaxRequests /\ requests = [requests EXCEPT ![t] = requests[t]]
      /\ DocFits(docs[t], turns[t], messages[t], requests[t])
  BY Counters
<1>1. ASSUME NEW e, AppendThreadEvents(t, <<e>>), requests' = requests,
             EventFits(docs[t], e, turns[t], messages[t], requests[t])
      PROVE  Grows(t)
  <2>1. requests' = [requests EXCEPT ![t] = requests[t]]
    BY <1>0, <1>1
  <2> QED BY <1>0, <1>1, <2>1, AppendGrows
<1>2. CASE ReactorEvent(t)
  <2>1. {SessionLost.type, RestoreSettled(TRUE).type, RestoreSettled(FALSE).type} \subseteq PlainTypes
    BY DEF SessionLost, RestoreSettled, PlainTypes
  <2>2. \A m \in 1..turns[t] : EventFits(docs[t], CheckpointCreated(m), turns[t], messages[t], requests[t])
    BY DEF EventFits, CheckpointCreated, AllEvents, RestoreEvents
  <2>3. ASSUME NEW m, AppendThreadEvents(t, <<ThreadError(TRUE), TurnCompleted(m)>>), requests' = requests
        PROVE  Grows(t)
    <3> DEFINE e == ThreadError(TRUE)
               f == TurnCompleted(m)
               d == docs[t]
    <3>1. e.type \in PlainTypes /\ f.type \in PlainTypes
      BY DEF ThreadError, TurnCompleted, PlainTypes
    <3>2. /\ docs' = [docs EXCEPT ![t] = ApplyAll(d, <<e, f>>)]
          /\ UNCHANGED <<projects, turns, messages, requests>>
      BY <2>3 DEF AppendThreadEvents, Commit
    <3> HIDE DEF e, f
    <3>3. DocFits(Apply(d, e), turns[t], messages[t], requests[t])
      BY <1>0, <3>1, PlainEventFits, ApplyFits
    <3>4. DocFits(Apply(Apply(d, e), f), turns[t], messages[t], requests[t])
      BY <1>0, <3>1, <3>3, PlainEventFits, ApplyFits
    <3>5. DocFits(ApplyAll(d, <<e, f>>), turns[t], messages[t], requests[t])
      BY <3>4, ApplyTwo
    <3> QED BY <1>0, <3>2, <3>5 DEF Grows
  <2> QED BY <1>1, <1>2, <2>1, <2>2, <2>3, PlainGrows DEF ReactorEvent
<1>3. CASE DrainHead(t)
  <2>1. \A q : Dequeued(q).type \in PlainTypes
    BY DEF Dequeued, PlainTypes
  <2> QED BY <1>3, <2>1, PlainGrows DEF DrainHead
<1>4. CASE Requeue(t)
  <2>1. PICK q \in 1..messages[t] : /\ \A k \in DOMAIN docs[t].queue : docs[t].queue[k] # q
                                    /\ AppendThreadEvents(t, <<Queued(q)>>)
    BY <1>4 DEF Requeue
  <2>2. EventFits(docs[t], Queued(q), turns[t], messages[t], requests[t])
    BY <2>1 DEF EventFits, Queued, Holds, AllEvents, QueueEvents
  <2> QED BY <1>1, <1>4, <2>1, <2>2 DEF Requeue
<1>5. CASE QueueSteered(t)
  <2> DEFINE q == messages[t] + 1
             e == Queued(q)
             d == docs[t]
  <2>1. /\ q \in Nat /\ messages[t] <= q /\ q \in messages[t]..MaxMessages
        /\ messages' = [messages EXCEPT ![t] = q]
        /\ docs' = [docs EXCEPT ![t] = ApplyAll(d, <<e>>)]
        /\ UNCHANGED <<projects, turns, requests>>
    BY <1>0, <1>5, EngineAssumption DEF EngineAssumption, QueueSteered, Commit
  <2>2. DocFits(d, turns[t], q, requests[t])
    <3>1. turns[t] <= turns[t] /\ requests[t] <= requests[t]
      BY <1>0
    <3> HIDE DEF q
    <3> QED BY <1>0, <2>1, <3>1, FitsLater
  <2>3. ~Holds(d.queue, q)
    BY <1>0 DEF DocFits, QueueFits, Holds
  <2>4. EventFits(d, e, turns[t], q, requests[t])
    BY <1>0, <2>3 DEF EventFits, Queued, AllEvents, QueueEvents
  <2> HIDE DEF q, e
  <2>5. DocFits(ApplyAll(d, <<e>>), turns[t], q, requests[t])
    BY <1>0, <2>1, <2>2, <2>4, ApplyFits, ApplyOne
  <2> QED BY <1>0, <2>1, <2>5 DEF Grows
<1> QED BY <1>2, <1>3, <1>4, <1>5

\* A step of the engine keeps the contents invariant.
LEMMA NextKeepsContents ==
  ASSUME ContentsInv, [Next]_vars
  PROVE  ContentsInv'
<1>1. CASE UNCHANGED vars
  BY <1>1 DEF vars, ContentsInv
<1>2. CASE \E p \in Projects : CreateProject(p) \/ RemoveProject(p)
  <2>1. UNCHANGED <<docs, turns, messages, requests>> /\ projects' \subseteq Projects
    BY <1>2 DEF CreateProject, RemoveProject, ContentsInv
  <2> QED BY <2>1 DEF ContentsInv
<1>3. CASE \E t \in Threads : ClientStep(t) \/ ServerStep(t)
  BY <1>3, ClientGrows, SessionGrows, ReactorGrows, GrowthKeeps DEF ServerStep
<1> QED BY <1>1, <1>2, <1>3 DEF Next

\* Ids are only ever added.
LEMMA NextMints ==
  ASSUME ContentsInv, [Next]_vars, NEW t \in Threads
  PROVE  turns[t] <= turns'[t] /\ messages[t] <= messages'[t]
<1>0. \A u \in Threads : turns[u] \in Nat /\ messages[u] \in Nat
  BY Counters
<1>1. CASE UNCHANGED <<turns, messages>>
  BY <1>0, <1>1
<1>2. ASSUME NEW u \in Threads, Grows(u)
      PROVE  turns[t] <= turns'[t] /\ messages[t] <= messages'[t]
  <2>1. PICK m, q : /\ turns' = [turns EXCEPT ![u] = m] /\ m \in turns[u]..MaxTurns
                    /\ messages' = [messages EXCEPT ![u] = q] /\ q \in messages[u]..MaxMessages
    BY <1>2 DEF Grows
  <2>2. turns[u] <= m /\ messages[u] <= q
    BY <1>0, <2>1, EngineAssumption DEF EngineAssumption
  <2>3. /\ turns'[u] = m /\ messages'[u] = q
        /\ t # u => turns'[t] = turns[t] /\ messages'[t] = messages[t]
    BY <2>1 DEF ContentsInv
  <2> QED BY <1>0, <2>2, <2>3
<1>3. CASE \E p \in Projects : CreateProject(p) \/ RemoveProject(p)
  BY <1>1, <1>3 DEF CreateProject, RemoveProject
<1>4. CASE \E u \in Threads : ClientStep(u) \/ ServerStep(u)
  BY <1>2, <1>4, ClientGrows, SessionGrows, ReactorGrows DEF ServerStep
<1> QED BY <1>1, <1>3, <1>4 DEF Next, vars

\* At the start there is no thread and nothing is minted.
LEMMA InitialContents == ASSUME Init PROVE ContentsInv
<1>1. DocFits(NoDoc, 0, 0, 0)
  BY NoDocFits
<1>2. 0 \in 0..MaxTurns /\ 0 \in 0..MaxMessages /\ 0 \in 0..MaxRequests
  BY EngineAssumption DEF EngineAssumption
<1> QED BY <1>1, <1>2 DEF Init, ContentsInv

\* Whatever the callers do, every document holds only ids minted for its
\* thread, its queue lists a message once, and each request stands in one
\* place: on one of the two lists of cards, or on one line of the log.
THEOREM ContentsInvariant == Spec => []ContentsInv
<1>1. Init => ContentsInv
  BY InitialContents
<1>2. ContentsInv /\ [Next]_vars => ContentsInv'
  BY NextKeepsContents
<1> QED BY <1>1, <1>2, PTL DEF Spec

\* The documents have the shape of the read model, and no id is used before it
\* is minted.
THEOREM DocumentsAreTyped == Spec => []TypeOK
<1>1. ContentsInv => TypeOK
  <2> SUFFICES ASSUME ContentsInv PROVE TypeOK
    OBVIOUS
  <2>1. DOMAIN docs = Threads
    BY DEF ContentsInv
  <2>2. ASSUME NEW t \in Threads
        PROVE docs[t] \in
         [life : {"none", "live", "deleted"}, status : Statuses,
          session : [instance : Instances \cup {NoInstance}, steering : Steering],
          chosen : Instances \cup {NoInstance}, spoke : BOOLEAN, turn : 0..turns[t],
          interrupting : BOOLEAN, queue : Seq(1..messages[t]),
          approvals : SUBSET (1..requests[t]), userInputs : SUBSET (1..requests[t]),
          plan : 0..turns[t],
          decisions : Seq([id : 1..requests[t], outcome : {"answered", "unanswered"}]),
          checkpoints : SUBSET (1..turns[t]), restoring : 0..turns[t]]
    <3> DEFINE d == docs[t]
    <3>1. Shaped(d) /\ PlainFits(d, turns[t]) /\ QueueFits(d.queue, messages[t])
          /\ CardsFit(d.approvals, d.userInputs, d.decisions, requests[t])
      BY DEF ContentsInv, DocFits
    <3> HIDE DEF d
    <3>2. d = [life |-> d.life, status |-> d.status, session |-> d.session, chosen |-> d.chosen,
               spoke |-> d.spoke, turn |-> d.turn, interrupting |-> d.interrupting, queue |-> d.queue,
               approvals |-> d.approvals, userInputs |-> d.userInputs, plan |-> d.plan,
               decisions |-> d.decisions, checkpoints |-> d.checkpoints, restoring |-> d.restoring]
      BY <3>1 DEF Shaped, DocFields
    <3>3. /\ d.queue \in Seq(1..messages[t])
          /\ d.approvals \in SUBSET (1..requests[t]) /\ d.userInputs \in SUBSET (1..requests[t])
          /\ d.decisions \in Seq([id : 1..requests[t], outcome : {"answered", "unanswered"}])
      BY <3>1 DEF QueueFits, CardsFit, Answers
    <3>4. {0, turns[t]} \subseteq 0..turns[t]
      BY Counters
    <3> QED BY <3>1, <3>2, <3>3, <3>4 DEF PlainFits, d
  <2> QED BY <2>1, <2>2 DEF ContentsInv, TypeOK
<1> QED BY <1>1, ContentsInvariant, PTL

\* No order of moves, removals, drains and re-queues lists a message twice.
THEOREM QueuesListOnce == Spec => []QueueListsOnce
<1>1. ContentsInv => QueueListsOnce
  BY DEF ContentsInv, DocFits, QueueFits, Distinct, QueueListsOnce
<1> QED BY <1>1, ContentsInvariant, PTL

\* A request is decided once, and never while its card is open: neither the
\* connector's echo nor a late answer adds a line.
THEOREM RequestsAreDecidedOnce == Spec => []DecidedOnce
<1>1. ContentsInv => DecidedOnce
  BY DEF ContentsInv, DocFits, CardsFit, DecidedOnce
<1> QED BY <1>1, ContentsInvariant, PTL

=============================================================================
