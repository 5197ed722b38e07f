----------------------------- MODULE CmdSession -----------------------------
(***************************************************************************)
(* One Command Code session (connector-cmd: session.ts, translate.ts,      *)
(* activeProcess.ts, spawn.ts) behind the turn-scoped handle, with the     *)
(* approval gate its hook posts go through.                                *)
(*                                                                         *)
(* Print mode is one process per turn: turn n runs as process n.  The      *)
(* concurrent parts are the harness process, the stdout reader and the     *)
(* pump of each process, endSession (by the caller or by the pump of a     *)
(* crashed process), the ingestion fiber that reads the event stream, and  *)
(* the server's command reactor, one fiber that sends, interrupts and      *)
(* closes.  Events that neither open nor end a turn are left out.          *)
(***************************************************************************)
EXTENDS TurnScoped, ApprovalGate

CONSTANT MaxTurns   \* bound: turns the reactor sends in this session's life

ASSUME MaxTurnsAssumption == MaxTurns \in Nat \ {0}

Turns == 1 .. MaxTurns

VARIABLES
  runs,       \* turn -> its process, stdout reader and pump
  tr,         \* the session's one translator
  slot,       \* processRef: the turn whose process is installed, 0 for none
  closed,     \* closedRef
  ending,     \* endSession: how far it is, and the process it kills
  caller,     \* the reactor's fiber: what it waits for, the last turn it sent
  handle,     \* the turn-scoped handle's Ref
  stream,     \* the event queue: events offered and not read
  swept       \* the session's scope has been closed

cmdVars == <<runs, tr, slot, closed, ending, caller, handle, stream, swept>>
vars == <<gateVars, cmdVars>>

\* What a process can exit with: 0; 5 to 8 and 130, which are not fatal; any
\* other code; death by a signal.
Codes == {"ok", "soft", "fatal", "signal"}

NoRun == [alive |-> FALSE, code |-> "none", signalled |-> FALSE, interrupted |-> FALSE,
          heard |-> "nothing", stdout |-> "unread", turnDone |-> FALSE, pump |-> "none",
          completions |-> 0]

NewRun == [NoRun EXCEPT !.alive = TRUE, !.stdout = "reading", !.pump = "waiting"]

\* The stream after events are offered: an ended queue drops them.
Offered(events) == IF over THEN stream ELSE stream \o events

CmdInit ==
  /\ GateInit
  /\ runs = [n \in Turns |-> NoRun]
  /\ tr = [open |-> FALSE, reported |-> FALSE, held |-> FALSE]
  /\ slot = 0
  /\ closed = FALSE
  /\ ending = [pc |-> "no", target |-> 0]
  /\ caller = [pc |-> "idle", turn |-> 0, on |-> 0]
  /\ handle = NewHandle
  /\ stream = <<>>
  /\ swept = FALSE

(***************************************************************************)
(* The harness process and its frames                                      *)
(***************************************************************************)

\* fatalError: the run's one fatal error, or nothing when it was reported.
Fatal == IF tr.reported THEN <<>> ELSE <<"runtime.error">>

Reading(n) == runs[n].stdout = "reading" /\ ~swept

\* run_start opens the turn and forgets the run before.
RunStart(n) ==
  /\ Reading(n) /\ runs[n].heard = "nothing"
  /\ runs' = [runs EXCEPT ![n].heard = "run_start"]
  /\ tr' = [open |-> TRUE, reported |-> FALSE, held |-> FALSE]
  /\ stream' = Offered(<<"turn.started">>)
  /\ UNCHANGED <<gateVars, slot, closed, ending, caller, handle, swept>>

\* run_error is held for the result frame or the exit to say.
RunError(n) ==
  /\ Reading(n) /\ runs[n].heard = "run_start"
  /\ runs' = [runs EXCEPT ![n].heard = "run_error"]
  /\ tr' = [tr EXCEPT !.held = TRUE]
  /\ UNCHANGED <<gateVars, slot, closed, ending, caller, handle, stream, swept>>

\* Run n with its last frame heard; its turn.completed waits for the exit when
\* the translator made one.
HeardLast(n, frame, completes) ==
  [runs EXCEPT ![n].heard = frame, ![n].stdout = IF completes THEN "completing" ELSE @]

\* run_end completes the turn, unless the run died and nothing has said so yet.
RunEnd(n) ==
  LET completes == tr.open /\ ~(tr.held /\ ~tr.reported) IN
  /\ Reading(n) /\ runs[n].heard \in {"run_start", "run_error"}
  /\ runs' = HeardLast(n, "run_end", completes)
  /\ tr' = [tr EXCEPT !.open = @ /\ ~completes]
  /\ UNCHANGED <<gateVars, slot, closed, ending, caller, handle, stream, swept>>

\* The result frame: an error is reported at once, an open turn is completed.
Result(n, failed) ==
  /\ Reading(n) /\ runs[n].heard \in {"run_start", "run_error", "run_end"}
  /\ runs' = HeardLast(n, "result", tr.open)
  /\ tr' = IF failed THEN [open |-> FALSE, reported |-> TRUE, held |-> FALSE]
           ELSE [tr EXCEPT !.open = FALSE]
  /\ stream' = IF failed THEN Offered(Fatal) ELSE stream
  /\ UNCHANGED <<gateVars, slot, closed, ending, caller, handle, swept>>

\* emitPrepared for a turn.completed: once the process has exited, or a second
\* later, turnDone flips and the event goes out.
Complete(n) ==
  /\ runs[n].stdout = "completing" /\ ~swept
  /\ runs' = [runs EXCEPT ![n].stdout = "reading", ![n].turnDone = TRUE,
                          ![n].completions = @ + 1]
  /\ stream' = Offered(<<"turn.completed">>)
  /\ UNCHANGED <<gateVars, tr, slot, closed, ending, caller, handle, swept>>

\* The process dies, of itself at any time or of the kill ladder.
Exit(n, code) ==
  /\ runs[n].alive
  /\ runs' = [runs EXCEPT ![n].alive = FALSE, ![n].signalled = FALSE, ![n].code = code]
  /\ UNCHANGED <<gateVars, tr, slot, closed, ending, caller, handle, stream, swept>>

\* The process's hook posts a tool call; the bridge knows it until endSession.
HookPost(n, r) ==
  /\ runs[n].alive /\ runs[n].heard = "run_start" /\ ~closed
  /\ Post(r)
  /\ UNCHANGED cmdVars

(***************************************************************************)
(* The pump, from the exit to the free slot                                *)
(***************************************************************************)

\* What onExit reports of a death: named and unnamed failures are fatal, 0 and
\* 130 say nothing, a retryable code says something that is not.
ExitFatal(code) ==
  IF (tr.held /\ code # "ok") \/ code \in {"fatal", "signal"} THEN Fatal ELSE <<>>

\* Mutant: a turn with an error held back is left to the error to end.
ExitCompletionUnlessHeld == IF tr.open /\ ~tr.held THEN <<"turn.completed">> ELSE <<>>

\* Mutant: the exit completes the turn whether or not a frame already did.
ExitCompletionAlways == <<"turn.completed">>

ExitCompletion == IF tr.open THEN <<"turn.completed">> ELSE <<>>

ReadCode(n) == IF runs[n].interrupted THEN "soft" ELSE runs[n].code

Crashed(n) == ~runs[n].interrupted /\ runs[n].code = "signal"

\* Exit seen and stdout read out (or held open by a grandchild for 2 seconds):
\* the parked posts are released, turnDone flips, onExit's events go out and
\* the slot is emptied.  A completion still waiting on the exit goes first.
PumpExit(n) ==
  /\ runs[n].pump = "waiting" /\ ~runs[n].alive /\ ~swept
  /\ runs[n].stdout # "completing"
  /\ Release
  /\ runs' = [runs EXCEPT ![n].stdout = "done", ![n].turnDone = TRUE, ![n].code = "none",
                          ![n].interrupted = FALSE,
                          ![n].completions = @ + Len(ExitCompletion),
                          ![n].pump = IF Crashed(n) THEN "crashing" ELSE "settled"]
  /\ stream' = Offered(ExitFatal(ReadCode(n)) \o ExitCompletion)
  /\ tr' = [open |-> FALSE, reported |-> tr.reported \/ ExitFatal(ReadCode(n)) # <<>>,
            held |-> tr.held /\ ReadCode(n) # "ok" /\ tr.reported]
  /\ slot' = 0
  /\ UNCHANGED <<posts, over, closed, ending, caller, handle, swept>>

(***************************************************************************)
(* endSession                                                              *)
(***************************************************************************)

SetEnding == /\ closed' = TRUE
             /\ ending' = [pc |-> "killing", target |-> slot]

Signalled(n) == IF n = 0 THEN runs ELSE [runs EXCEPT ![n].signalled = TRUE]

\* A crashed process ends the session, unless something already is.
CrashEnds(n) ==
  /\ runs[n].pump = "crashing" /\ ~closed /\ ~swept
  /\ SetEnding
  /\ runs' = [Signalled(slot) EXCEPT ![n].pump = "ending"]
  /\ UNCHANGED <<gateVars, tr, slot, caller, handle, stream, swept>>

\* endSession returns at once to a crashed process when something else ends
\* the session.
CrashSettles(n) ==
  /\ runs[n].pump = "crashing" /\ closed /\ ~swept
  /\ runs' = [runs EXCEPT ![n].pump = "settled"]
  /\ UNCHANGED <<gateVars, tr, slot, closed, ending, caller, handle, stream, swept>>

\* The installed process is dead: its parked posts are answered.
EndReleases ==
  /\ ending.pc = "killing"
  /\ ending.target # 0 => ~runs[ending.target].alive
  /\ Release
  /\ ending' = [pc |-> "reverting", target |-> 0]
  /\ UNCHANGED <<posts, over, runs, tr, slot, closed, caller, handle, stream, swept>>

\* The project's files are put back; session.ended is said, the queue ends, and
\* with no suspension between the pump that ended the session settles its run.
EndStream ==
  /\ ending.pc = "reverting"
  /\ ending' = [ending EXCEPT !.pc = "ended"]
  /\ stream' = Offered(<<"session.ended">>)
  /\ over' = TRUE
  /\ runs' = [n \in Turns |-> IF runs[n].pump = "ending" THEN [runs[n] EXCEPT !.pump = "settled"]
                              ELSE runs[n]]
  /\ UNCHANGED <<posts, pending, answer, cards, tr, slot, closed, caller, handle, swept>>

(***************************************************************************)
(* The ingestion fiber                                                     *)
(***************************************************************************)

\* One event through normalize; the settling one settles the active turn.
Ingest ==
  /\ stream # <<>>
  /\ stream' = Tail(stream)
  /\ handle' = Normalized(handle, Head(stream))
  /\ UNCHANGED <<gateVars, runs, tr, slot, closed, ending, caller, swept>>

\* The stream is over: finalize completes the turn that is left.
StreamEnds ==
  /\ over /\ stream = <<>> /\ ~handle.finished
  /\ handle' = Finalized(handle)
  /\ UNCHANGED <<gateVars, runs, tr, slot, closed, ending, caller, stream, swept>>

\* Mutant: the scope's finalizers leave the processes alone.
SweepSparing ==
  /\ handle.finished /\ ~swept
  /\ swept' = TRUE
  /\ UNCHANGED <<gateVars, runs, tr, slot, closed, ending, caller, handle, stream>>

\* The session manager closes the driver's scope: the pumps are interrupted and
\* every process the session spawned is killed.
Sweep ==
  /\ handle.finished /\ ~swept
  /\ swept' = TRUE
  /\ runs' = [n \in Turns |-> [runs[n] EXCEPT !.signalled = @ \/ runs[n].alive]]
  /\ UNCHANGED <<gateVars, tr, slot, closed, ending, caller, handle, stream>>

(***************************************************************************)
(* The reactor's fiber                                                     *)
(***************************************************************************)

NextTurn == caller.turn + 1

\* Mutant: a turn whose predecessor is done spawns without waiting it out.
SendGoesHasty ==
  IF closed \/ (slot # 0 /\ ~runs[slot].turnDone) THEN "idle" ELSE "spawning"

\* Where `send` goes after its checks: refused, waiting the pump out, or on.
SendGoes ==
  CASE closed -> "idle"
    [] ~closed /\ slot = 0 -> "spawning"
    [] ~closed /\ slot # 0 -> IF runs[slot].turnDone THEN "awaiting" ELSE "idle"

\* The next turn is sent when none is active.  A refused turn is abandoned.
Send ==
  /\ caller.pc = "idle" /\ caller.turn < MaxTurns
  /\ handle.active = 0
  /\ LET goes == IF SendOutcome(handle, NextTurn) = "send" THEN SendGoes ELSE "idle" IN
       /\ caller' = [pc |-> goes, turn |-> NextTurn, on |-> IF goes = "awaiting" THEN slot ELSE 0]
       /\ handle' = IF goes = "idle" THEN handle ELSE Activated(handle, NextTurn)
  /\ UNCHANGED <<gateVars, runs, tr, slot, closed, ending, stream, swept>>

\* The process before has settled.
SendWaited ==
  /\ caller.pc = "awaiting" /\ runs[caller.on].pump = "settled"
  /\ caller' = [caller EXCEPT !.pc = "spawning", !.on = 0]
  /\ UNCHANGED <<gateVars, runs, tr, slot, closed, ending, handle, stream, swept>>

\* The process is up and installed, and its pump starts.  In a scope that has
\* closed it is killed, and its pump interrupted, as they are made.
Spawn ==
  /\ caller.pc = "spawning"
  /\ runs' = [runs EXCEPT ![caller.turn] = [NewRun EXCEPT !.signalled = swept]]
  /\ slot' = caller.turn
  /\ caller' = [caller EXCEPT !.pc = "idle"]
  /\ UNCHANGED <<gateVars, tr, closed, ending, handle, stream, swept>>

SpawnFails ==
  /\ caller.pc = "spawning"
  /\ handle' = AbandonTurn(handle, caller.turn)
  /\ caller' = [caller EXCEPT !.pc = "idle"]
  /\ UNCHANGED <<gateVars, runs, tr, slot, closed, ending, stream, swept>>

\* The active turn is interrupted: its process is marked and killed.
Interrupt ==
  /\ caller.pc = "idle" /\ handle.active # 0 /\ handle.active = caller.turn
  /\ caller' = [caller EXCEPT !.pc = "interrupting", !.on = slot]
  /\ runs' = IF slot = 0 THEN runs ELSE [Signalled(slot) EXCEPT ![slot].interrupted = TRUE]
  /\ UNCHANGED <<gateVars, tr, slot, closed, ending, handle, stream, swept>>

\* interrupt returns once the process is dead and the turn is released.
InterruptReturns ==
  /\ caller.pc = "interrupting"
  /\ caller.on # 0 => ~runs[caller.on].alive
  /\ handle.active # caller.turn
  /\ caller' = [caller EXCEPT !.pc = "idle", !.on = 0]
  /\ UNCHANGED <<gateVars, runs, tr, slot, closed, ending, handle, stream, swept>>

\* The session is closed: by this call, unless it is already ending.
Close ==
  /\ caller.pc = "idle" /\ caller.turn > 0
  /\ caller' = [caller EXCEPT !.pc = "closing"]
  /\ IF closed THEN UNCHANGED <<closed, ending, runs>>
     ELSE SetEnding /\ runs' = Signalled(slot)
  /\ UNCHANGED <<gateVars, tr, slot, handle, stream, swept>>

Harness(n) ==
  \/ RunStart(n) \/ RunError(n) \/ RunEnd(n) \/ Complete(n)
  \/ \E failed \in BOOLEAN : Result(n, failed)
  \/ \E code \in Codes : Exit(n, code)
  \/ \E r \in Requests : HookPost(n, r)

Pump(n) == PumpExit(n) \/ CrashEnds(n) \/ CrashSettles(n)

Reactor == Send \/ SendWaited \/ Spawn \/ SpawnFails \/ Interrupt \/ InterruptReturns \/ Close

CmdNext ==
  \/ \E n \in Turns : Harness(n) \/ Pump(n)
  \/ GateNext /\ UNCHANGED cmdVars
  \/ EndReleases \/ EndStream \/ Ingest \/ StreamEnds \/ Sweep
  \/ Reactor

CmdSafe == CmdInit /\ [][CmdNext]_vars

\* Every fiber runs: the pumps, endSession, ingestion and the sends of the
\* reactor; a signalled process dies; a completion goes out within a second.
\* The harness may run for ever, and nobody has to answer a card.
CmdFair ==
  /\ CmdSafe
  /\ \A n \in Turns :
       /\ WF_vars(Complete(n) \/ Pump(n))
       /\ WF_vars(runs[n].signalled /\ \E code \in Codes : Exit(n, code))
  /\ WF_vars(EndReleases \/ EndStream)
  /\ WF_vars(Ingest \/ StreamEnds \/ Sweep)
  /\ WF_vars(SendWaited \/ Spawn \/ SpawnFails)
=============================================================================
