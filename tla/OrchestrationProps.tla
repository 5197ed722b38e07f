-------------------------- MODULE OrchestrationProps ------------------------
(***************************************************************************)
(* What the server promises about one thread's turns.                      *)
(***************************************************************************)
EXTENDS Orchestration

\* The fibers use the engine only in the ways the engine's own specification
\* allows its callers, so what is proved of Engine holds under them: reading
\* the queue's head when the completion was taken, say, would not.
EngineImplemented == Spec

\* A harness never works on a turn its handle has let go of: everything it
\* emits is stamped with that turn, and its end is somebody's to settle.
WorkIsTracked ==
  \A s \in Slots : sessions[s].busy => sessions[s].handle.active = sessions[s].got

\* A message the reactor took off the queue, or could not steer, is let go of
\* only as a turn requested or as a message queued, while the thread is there
\* and the server is not killed.
Holding == reactor.pc \in {"dispatch", "requeueSteer", "requeue"}
HeldIsNeverDropped ==
  [][Holding /\ reactor'.pc = "idle" /\ Live(doc) /\ ~Restart
       => turns'[Thread] = turns[Thread] + 1 \/ Len(doc'.queue) = Len(doc.queue) + 1]_allVars

\* Turns reach the harness in the order they were asked for: a turn sent on
\* its request leaves only later requests behind it, and a re-send, which may
\* run ahead of requests still waiting, never goes behind a turn already sent.
TurnsSentInOrder ==
  [][\A s \in Slots : ~sessions[s].busy /\ sessions'[s].busy
        => IF reactor.pc = "resending"
           THEN \A r \in Slots : sessions[r].got <= sessions'[s].got
           ELSE \A k \in DOMAIN mailbox : mailbox[k].type = "thread.turn.requested"
                                           => mailbox[k].turn > sessions'[s].got]_allVars

----------------------------------------------------------------------------
\* A turn always ends: the thread does not show it in flight for ever, unless
\* the thread is archived under it.
TurnSettles == doc.turn # 0 ~> doc.turn = 0 \/ doc.status = "archived" \/ ~Live(doc)

InUse == doc.status # "archived" /\ doc.life # "deleted"

\* A thread that stays in use gets its session back, or is told it is lost.
SessionReturns ==
  []InUse => [](doc.session # NoSession => <>(HandleFor # 0 \/ doc.session = NoSession))

\* A thread that stays in use and meets no failure sends all that is queued.
QueueDrains ==
  [](InUse /\ faults = 0) => (doc.queue # <<>> ~> doc.queue = <<>>)

----------------------------------------------------------------------------
\* Only a client takes a thread out of the archive: no event of the session
\* the archive stops, and no reactor's, puts it back in the sidebar.
ArchivedStaysArchived ==
  [][doc.status = "archived" /\ ~ClientActs => doc'.status = "archived"]_allVars
=============================================================================
