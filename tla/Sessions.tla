------------------------------ MODULE Sessions ------------------------------
(***************************************************************************)
(* The state of one thread's turns end to end, and its sessions: the       *)
(* session manager (SessionManager.ts), the turn-scoped handle, and the    *)
(* ingestion of the harness's events (RuntimeIngestion.ts), over the       *)
(* engine.  CommandReactor, Supervisor and Orchestration add the rest.     *)
(*                                                                         *)
(* A fiber's step ends where the code awaits: at an engine transaction, at *)
(* the attach mutex, at a call into the harness, at a latch.  Other        *)
(* threads appear only as delay.  The harness and its process are          *)
(* external.  Approvals, questions, plans, settings and checkpoints are    *)
(* left to the engine's open environment.                                  *)
(***************************************************************************)
EXTENDS Engine, TurnScoped, FiniteSets

CONSTANTS
  Thread,        \* the one thread
  Instance,      \* the connector instance its sessions run on
  Slots,         \* bound: sessions that exist at one time
  MaxAttempts,   \* the supervisor's resume attempts
  MaxMailbox,    \* bound: events the reactor may be behind when a client acts
  Faults,        \* the kinds of failure that may happen
  MaxFaults      \* bound: failures that do happen

ASSUME OrchestrationAssumption ==
  /\ Threads = {Thread} /\ Instance \in Instances
  /\ Slots \subseteq Nat \ {0} /\ MaxAttempts \in Nat \ {0}
  /\ Faults \subseteq {"kill", "exit", "fatal", "refuse", "attach", "linger"}

VARIABLES
  mailbox,     \* events published to the command reactor, oldest first
  reactor,     \* what the command reactor is in the middle of
  sessions,    \* slot -> a harness session, its handle and its ingestion
  driver,      \* the session registered for the thread, 0 for none
  attaching,   \* the fiber that holds the attach mutex
  loops,       \* the supervisor's resume loops
  crashes,     \* `crashed` reports the supervisor has not taken
  faults       \* failures so far

serverVars == <<mailbox, reactor, sessions, driver, attaching, loops, crashes, faults>>
allVars == <<vars, serverVars>>

doc == docs[Thread]

Fault(kind) == kind \in Faults /\ faults < MaxFaults /\ faults' = faults + 1

\* The events the reactor does anything about.
Reacted == {"thread.turn.requested", "thread.turn.steered", "thread.session.bound",
            "thread.turn.interrupted", "thread.turn.completed", "thread.archived",
            "thread.deleted"}

ReactedOf(events) == Keeping(events, {k \in DOMAIN events : events[k].type \in Reacted})

\* Mutant: the newest event first.
PublishInFront(events) == mailbox' = ReactedOf(events) \o mailbox

Publish(events) == mailbox' = mailbox \o ReactedOf(events)

\* appendThreadEvents by a fiber of the server: dropped once the thread is gone.
AppendEvents(events) ==
  IF Live(doc) THEN /\ AppendThreadEvents(Thread, events)
                    /\ UNCHANGED requests
                    /\ Publish(events)
               ELSE UNCHANGED <<vars, mailbox>>

----------------------------------------------------------------------------
(* Sessions.                                                               *)

\* `up`: the process runs.  `open`: the ingestion fiber runs.  `out` is what
\* the harness has emitted and the ingestion has not read, `pending` what it
\* has read and not appended.  `got` is the last turn the harness was sent and
\* `busy` whether it works on it.  `why` is what the ingestion will report.
Free == [up |-> FALSE, open |-> FALSE, alive |-> FALSE, handle |-> NewHandle,
         out |-> <<>>, pending |-> <<>>, got |-> 0, busy |-> FALSE, why |-> "crashed"]

Started == [Free EXCEPT !.up = TRUE, !.open = TRUE, !.alive = TRUE,
                        !.out = <<"session.started">>]

\* sessions.handleFor: the registered session, unless its stream has ended.
HandleFor == IF driver # 0 /\ sessions[driver].alive THEN driver ELSE 0

\* The ingestion's `ensuring`: it deregisters by thread, whichever session is
\* registered, and reports why the stream ended.
Ended(s) ==
  /\ sessions' = [sessions EXCEPT ![s] = IF reactor.session = s THEN [Free EXCEPT !.handle = sessions[s].handle] ELSE Free]
  /\ driver' = 0
  /\ crashes' = IF sessions[s].why = "crashed" THEN crashes + 1 ELSE crashes

\* The harness, while its process runs.
HarnessCompletes(s) ==
  /\ sessions[s].up /\ sessions[s].busy
  /\ sessions' = [sessions EXCEPT ![s].out = Append(@, "turn.completed"), ![s].busy = FALSE]
  /\ UNCHANGED <<vars, mailbox, reactor, driver, attaching, loops, crashes, faults>>

\* A fatal error with the pipe left open, or a process that is gone.
HarnessFails(s) ==
  /\ sessions[s].up
  /\ \/ /\ Fault("fatal") /\ sessions[s].busy
        /\ sessions' = [sessions EXCEPT ![s].out = Append(@, "runtime.error"), ![s].busy = FALSE]
     \/ /\ Fault("exit")
        /\ \E last \in {<<"end">>, <<"runtime.error", "end">>} :
             sessions' = [sessions EXCEPT ![s].out = @ \o last, ![s].busy = FALSE, ![s].up = FALSE]
  /\ UNCHANGED <<vars, mailbox, reactor, driver, attaching, loops, crashes>>

\* translateRuntimeEvent: what one handed-on event writes to the log.
Translated(e) ==
  CASE e.type = "session.started" -> <<SessionBound(Instance, "yes")>>
    [] e.type = "turn.started" /\ e.turn # 0 -> <<TurnStarted(e.turn)>>
    [] e.type = "turn.completed" /\ e.turn # 0 -> <<TurnCompleted(e.turn)>>
    [] e.type = "runtime.error" -> <<ThreadError(TRUE)>>
    [] OTHER -> <<>>

\* An event that writes nothing is passed over.
Logged(emissions) == Keeping(emissions, {k \in DOMAIN emissions : Translated(emissions[k]) # <<>>})

\* The ingestion reads one event through the handle.
Ingest(s) ==
  LET session == sessions[s]
      h == session.handle
      e == Head(session.out)
  IN  /\ session.open /\ session.pending = <<>> /\ session.out # <<>>
      /\ sessions' = [sessions EXCEPT
           ![s].out = Tail(@),
           ![s].pending = Logged(IF e = "end" THEN FinalEmissions(h) ELSE Emissions(h, e)),
           ![s].handle = IF e = "end" THEN Finalized(h) ELSE Normalized(h, e),
           ![s].why = IF e = "session.ended" THEN "stopped" ELSE @]
      /\ UNCHANGED <<vars, mailbox, reactor, driver, attaching, loops, crashes, faults>>

IngestAppend(s) ==
  LET session == sessions[s] IN
  /\ session.open /\ session.pending # <<>>
  /\ AppendEvents(Translated(Head(session.pending)))
  /\ sessions' = [sessions EXCEPT ![s].pending = Tail(@)]
  /\ UNCHANGED <<reactor, driver, attaching, loops, crashes, faults>>

IngestEnds(s) ==
  /\ sessions[s].open /\ sessions[s].pending = <<>> /\ sessions[s].handle.finished
  /\ Ended(s)
  /\ UNCHANGED <<vars, mailbox, reactor, attaching, loops, faults>>

----------------------------------------------------------------------------
(* Attaching a session, on behalf of the reactor or of a resume loop.      *)

Resting == [pc |-> "idle", turn |-> 0, seen |-> 0, session |-> 0, message |-> 0]

Loops == {"boot", "live"}
Idling == [pc |-> "idle", attempt |-> 0]

Phase(f) == IF f = "reactor" THEN reactor.pc ELSE loops[f].pc

\* The reactor goes on to send its turn; a loop has what it wanted.
Attached(f, s) ==
  IF f = "reactor" THEN reactor' = [reactor EXCEPT !.pc = "send", !.session = s] /\ UNCHANGED loops
                   ELSE loops' = [loops EXCEPT ![f] = Idling] /\ UNCHANGED reactor

\* Under the mutex: a live session is handed out, a missing one is started.
Ensure(f) ==
  /\ Phase(f) = "ensure" /\ attaching = "nobody"
  /\ \/ HandleFor # 0 /\ Attached(f, HandleFor) /\ UNCHANGED attaching
     \/ /\ HandleFor = 0
        /\ attaching' = f
        /\ IF f = "reactor" THEN reactor' = [reactor EXCEPT !.pc = "attach"] /\ UNCHANGED loops
                            ELSE loops' = [loops EXCEPT ![f].pc = "attach"] /\ UNCHANGED reactor
  /\ UNCHANGED <<vars, mailbox, sessions, driver, crashes, faults>>

\* Slots are names: one that nothing refers to is as good as another.
FreeSlots == {s \in Slots : ~sessions[s].up /\ ~sessions[s].open /\ s # reactor.session}

Attach(f) ==
  /\ Phase(f) = "attach" /\ FreeSlots # {}
  /\ LET s == CHOOSE free \in FreeSlots : TRUE IN
       /\ sessions' = [sessions EXCEPT ![s] = Started]
       /\ driver' = s
       /\ Attached(f, s)
  /\ attaching' = "nobody"
  /\ UNCHANGED <<vars, mailbox, crashes, faults>>

AttachFailed(f) ==
  /\ Fault("attach") /\ Phase(f) = "attach"
  /\ attaching' = "nobody"
  /\ IF f = "reactor"
     THEN reactor' = [reactor EXCEPT !.pc = "fail"] /\ UNCHANGED loops
     ELSE /\ loops' = [loops EXCEPT ![f] =
                         IF @.attempt + 1 >= MaxAttempts THEN [@ EXCEPT !.pc = "lost"]
                         ELSE [pc |-> "check", attempt |-> @.attempt + 1]]
          /\ UNCHANGED reactor
  /\ UNCHANGED <<vars, mailbox, sessions, driver, crashes>>

=============================================================================
