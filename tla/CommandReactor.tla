--------------------------- MODULE CommandReactor ---------------------------
(***************************************************************************)
(* The command reactor (ProviderCommandReactor.ts): one fiber, one event   *)
(* at a time, in the order the engine published them.  A reaction that     *)
(* awaits goes through the states of `reactor.pc`:                         *)
(*   ensure, attach, send, sending, fail   thread.turn.requested           *)
(*   resend, resending             thread.session.bound                    *)
(*   await, settle                 thread.turn.interrupted                 *)
(*   drain, dispatch, requeue      thread.turn.completed                   *)
(*   requeueSteer, requeue         thread.turn.steered                     *)
(*   close, closing                thread.archived, thread.deleted         *)
(***************************************************************************)
EXTENDS Sessions

Takes(type) == reactor.pc = "idle" /\ mailbox # <<>> /\ Head(mailbox).type = type

\* The registered handle is running turn m.
Runs(m) == HandleFor # 0 /\ sessions[HandleFor].handle.active = m

\* A reaction that only reads: the document and the drivers as they are now.
Becomes(type, next) ==
  /\ Takes(type)
  /\ mailbox' = Tail(mailbox)
  /\ reactor' = next
  /\ UNCHANGED <<vars, sessions, driver, attaching, loops, crashes>>

Reacts(type, next) == Becomes(type, next) /\ UNCHANGED faults

ReactToRequest ==
  Reacts("thread.turn.requested",
         IF Live(doc) THEN [Resting EXCEPT !.pc = "ensure", !.turn = Head(mailbox).turn, !.seen = doc.turn]
                      ELSE Resting)

\* Mutant: a session bound under a turn in flight is left alone.
ReactToBoundIgnored == Reacts("thread.session.bound", Resting)

\* A session bound under a turn in flight is taken for a resumed one.  A
\* deleted thread has no document left to read.
ReactToBound ==
  Reacts("thread.session.bound",
         IF Live(doc) /\ HandleFor # 0 /\ doc.turn # 0
         THEN [Resting EXCEPT !.pc = "resend", !.turn = doc.turn, !.session = HandleFor]
         ELSE Resting)

\* The handle steers only into the turn named, and the harness may refuse.
ReactToSteer ==
  LET queue == [Resting EXCEPT !.pc = "requeueSteer"]
  IN  \/ Reacts("thread.turn.steered", IF Runs(Head(mailbox).turn) THEN Resting ELSE queue)
      \/ Becomes("thread.turn.steered", queue) /\ Runs(Head(mailbox).turn) /\ Fault("refuse")

\* An interrupt of a turn the handle is not running is a no-op that succeeds.
ReactToInterrupt ==
  LET m == Head(mailbox).turn
      settle == [Resting EXCEPT !.pc = "settle", !.turn = m]
  IN  \/ Reacts("thread.turn.interrupted",
                IF HandleFor = 0 THEN settle
                ELSE IF Runs(m)
                     THEN [Resting EXCEPT !.pc = "await", !.turn = m, !.session = HandleFor]
                     ELSE Resting)
      \/ Becomes("thread.turn.interrupted", settle) /\ Runs(m) /\ Fault("refuse")

\* Mutant: only the completion of the turn still in flight drains the queue.
ReactToCompletionOfCurrent ==
  Reacts("thread.turn.completed",
         IF doc.turn = Head(mailbox).turn THEN [Resting EXCEPT !.pc = "drain"] ELSE Resting)

ReactToCompletion == Reacts("thread.turn.completed", [Resting EXCEPT !.pc = "drain"])

ReactToClose ==
  \/ Reacts("thread.archived", [Resting EXCEPT !.pc = "close"])
  \/ Reacts("thread.deleted", [Resting EXCEPT !.pc = "close"])

\* handle.send: what it decides about the turn the reactor holds.
Deciding(outcome) ==
  /\ reactor.pc \in {"send", "resend"}
  /\ SendOutcome(sessions[reactor.session].handle, reactor.turn) = outcome
  /\ UNCHANGED <<vars, mailbox, driver, attaching, loops, crashes, faults>>

\* Only a request reports a failure; a re-send that fails is given up.
Failing == IF reactor.pc \in {"send", "sending"} THEN [reactor EXCEPT !.pc = "fail"] ELSE Resting

SendTaken ==
  /\ Deciding("send")
  /\ sessions' = [sessions EXCEPT ![reactor.session].handle = Activated(@, reactor.turn)]
  /\ reactor' = [reactor EXCEPT !.pc = IF @ = "send" THEN "sending" ELSE "resending"]

SendDuplicate == Deciding("duplicate") /\ reactor' = Resting /\ UNCHANGED sessions

SendBarred ==
  /\ Deciding("busy") \/ Deciding("closed")
  /\ reactor' = Failing
  /\ UNCHANGED sessions

\* The harness's answer to the turn it is given.  A process that is gone may
\* swallow the turn: writing to it need not fail.
Delivers ==
  /\ reactor.pc \in {"sending", "resending"}
  /\ LET s == reactor.session IN
     sessions' = IF ~sessions[s].up THEN sessions
                 ELSE [sessions EXCEPT ![s].got = reactor.turn, ![s].busy = TRUE,
                                       ![s].out = Append(@, "turn.started")]
  /\ reactor' = Resting
  /\ UNCHANGED <<vars, mailbox, driver, attaching, loops, crashes, faults>>

\* A refusal abandons the turn, unless its stream's end was quicker.
Refuses ==
  /\ reactor.pc \in {"sending", "resending"}
  /\ IF sessions[reactor.session].up THEN Fault("refuse") ELSE UNCHANGED faults
  /\ sessions' = [sessions EXCEPT ![reactor.session].handle = AbandonTurn(@, reactor.turn)]
  /\ reactor' = Failing
  /\ UNCHANGED <<vars, mailbox, driver, attaching, loops, crashes>>

\* failThread: the turn settled is the one the document had when the request
\* was taken, not the one that failed.
FailThread ==
  /\ reactor.pc = "fail"
  /\ AppendEvents(<<ThreadError(TRUE)>> \o
                  (IF reactor.seen = 0 THEN <<>> ELSE <<TurnCompleted(reactor.seen)>>))
  /\ reactor' = Resting
  /\ UNCHANGED <<sessions, driver, attaching, loops, crashes, faults>>

\* The interrupted turn is released: settled, abandoned or at its stream's end.
Released ==
  /\ reactor.pc = "await" /\ sessions[reactor.session].handle.active # reactor.turn
  /\ reactor' = Resting
  /\ UNCHANGED <<vars, mailbox, sessions, driver, attaching, loops, crashes, faults>>

SettleInterrupted ==
  /\ reactor.pc = "settle"
  /\ AppendEvents(<<TurnCompleted(reactor.turn)>>)
  /\ reactor' = Resting
  /\ UNCHANGED <<sessions, driver, attaching, loops, crashes, faults>>

\* The head is chosen inside the append's transaction.
Drain ==
  /\ reactor.pc = "drain"
  /\ IF Live(doc) /\ doc.status # "archived" /\ doc.turn = 0 /\ doc.queue # <<>>
     THEN /\ AppendEvents(<<Dequeued(Head(doc.queue))>>)
          /\ reactor' = [Resting EXCEPT !.pc = "dispatch", !.message = Head(doc.queue)]
     ELSE /\ UNCHANGED <<vars, mailbox>>
          /\ reactor' = Resting
  /\ UNCHANGED <<sessions, driver, attaching, loops, crashes, faults>>

\* The reactor's own command, and its receipt.
QueuedStart == [type |-> "thread.turn.start", queued |-> TRUE]
Decided(cmd) == Decide(cmd, doc, Context(Thread), Env(Thread))

\* Mutant: the turn is started without asking the decider.
DispatchHeldUnasked ==
  /\ reactor.pc \in {"dispatch", "requeueSteer"}
  /\ Commit(Thread, NewTurn(Env(Thread))) /\ Minted(Thread, NewTurn(Env(Thread)))
  /\ Publish(NewTurn(Env(Thread)))
  /\ reactor' = Resting
  /\ UNCHANGED <<projects, requests, sessions, driver, attaching, loops, crashes, faults>>

\* A taken or steered message is dispatched as a queued send.
DispatchHeld ==
  /\ reactor.pc \in {"dispatch", "requeueSteer"}
  /\ \/ /\ Dispatch(Thread, QueuedStart)
        /\ Publish(Decided(QueuedStart).events)
        /\ reactor' = Resting
     \/ /\ ~Decided(QueuedStart).accepted
        /\ reactor' = [reactor EXCEPT !.pc = "requeue"]
        /\ UNCHANGED <<vars, mailbox>>
  /\ UNCHANGED <<sessions, driver, attaching, loops, crashes, faults>>

\* Mutant: the receipt of the refusal is not read.
RequeueForgotten ==
  /\ reactor.pc = "requeue"
  /\ reactor' = Resting
  /\ UNCHANGED <<vars, mailbox, sessions, driver, attaching, loops, crashes, faults>>

\* Refused: back on the queue, a steered message under a fresh id.
RequeueHeld ==
  /\ reactor.pc = "requeue"
  /\ reactor' = Resting
  /\ IF reactor.message # 0 THEN AppendEvents(<<Queued(reactor.message)>>)
     ELSE IF Live(doc)
     THEN QueueSteered(Thread) /\ UNCHANGED mailbox
     ELSE UNCHANGED <<vars, mailbox>>
  /\ UNCHANGED <<sessions, driver, attaching, loops, crashes, faults>>

\* closeSession: deregistered first, then told to close, then waited for.
CloseSession ==
  /\ reactor.pc = "close"
  /\ driver' = 0
  /\ IF driver = 0 THEN reactor' = Resting /\ UNCHANGED sessions
     ELSE /\ reactor' = [Resting EXCEPT !.pc = "closing", !.session = driver]
          /\ sessions' = [sessions EXCEPT ![driver].alive = FALSE, ![driver].up = FALSE, ![driver].busy = FALSE,
                             ![driver].out = IF sessions[driver].up
                                             THEN @ \o <<"session.ended", "end">> ELSE @]
  /\ UNCHANGED <<vars, mailbox, attaching, loops, crashes, faults>>

Closed ==
  /\ reactor.pc = "closing" /\ ~sessions[reactor.session].open
  /\ reactor' = Resting
  /\ UNCHANGED <<vars, mailbox, sessions, driver, attaching, loops, crashes, faults>>

\* The stream outlived the five seconds: the ingestion is interrupted.
CloseTimesOut ==
  /\ Fault("linger") /\ reactor.pc = "closing" /\ sessions[reactor.session].open
  /\ Ended(reactor.session)
  /\ reactor' = Resting
  /\ UNCHANGED <<vars, mailbox, attaching, loops>>
=============================================================================
