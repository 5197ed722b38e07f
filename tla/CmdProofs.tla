------------------------------ MODULE CmdProofs ------------------------------
(***************************************************************************)
(* Proofs about a Command Code session (CmdSession.tla) and its approval   *)
(* gate, for any requests and any number of turns.  Three invariants, each *)
(* of a part of the state: of the processes, of the counts of a run's      *)
(* frames and completions, and of the gate.                                *)
(***************************************************************************)
EXTENDS CmdProps, TLAPS

----------------------------------------------------------------------------
(* One process at a time.  The session keeps no list of its processes,     *)
(* only the installed one (processRef), so the argument follows the pumps: *)
(* a process that lives has a pump that waits for it, a pump that waits is *)
(* the installed one's, and a send that is about to spawn has seen none.   *)

RunFields == {"alive", "code", "signalled", "interrupted", "heard", "stdout", "turnDone", "pump",
              "completions"}
CallerFields == {"pc", "turn", "on"}

RunOK(run) == /\ run = [x \in RunFields |-> run[x]]
              /\ run.alive => run.pump = "waiting"

RunsOK ==
  /\ runs = [n \in Turns |-> runs[n]]
  /\ \A n \in Turns : RunOK(runs[n]) /\ (runs[n].pump = "waiting" => slot = n)

CallerOK ==
  /\ caller = [x \in CallerFields |-> caller[x]]
  /\ caller.pc = "awaiting" => slot \in {0, caller.on}
  /\ caller.pc = "spawning" => \A n \in Turns : runs[n].pump # "waiting"

HarnessInv == RunsOK /\ CallerOK

\* The steps that leave the reactor's fiber alone: no process comes alive, no
\* pump starts to wait, and the slot is at most freed.
Elsewhere ==
  /\ caller' = caller
  /\ slot' \in {0, slot}
  /\ runs' = [n \in Turns |-> runs'[n]]
  /\ \A n \in Turns :
       /\ RunOK(runs'[n])
       /\ runs'[n].pump = "waiting" => runs[n].pump = "waiting" /\ slot' = slot

\* Such a step keeps the invariant.
LEMMA ElsewhereKeeps == ASSUME HarnessInv, Elsewhere PROVE HarnessInv'
<1>1. RunsOK'
  BY DEF HarnessInv, RunsOK, Elsewhere, RunOK
<1>2. CallerOK'
  BY DEF HarnessInv, CallerOK, Elsewhere
<1> QED BY <1>1, <1>2 DEF HarnessInv

\* A step on one run that brings it no nearer to life is one of them.
LEMMA OneRun ==
  ASSUME HarnessInv, NEW n \in Turns, NEW run, RunOK(run),
         runs' = [runs EXCEPT ![n] = run], run.pump = "waiting" => runs[n].pump = "waiting",
         UNCHANGED <<slot, caller>>
  PROVE  Elsewhere
BY DEF HarnessInv, RunsOK, Elsewhere

\* The harness process, its frames and its death.
LEMMA HarnessSteps ==
  ASSUME HarnessInv, NEW n \in Turns, Harness(n)
  PROVE  Elsewhere
<1> DEFINE old == runs[n]
<1>1. RunOK(old) /\ old = [x \in RunFields |-> old[x]]
  BY DEF HarnessInv, RunsOK, RunOK
<1> HIDE DEF old
<1>2. CASE RunStart(n)
  <2>1. runs' = [runs EXCEPT ![n] = [old EXCEPT !.heard = "run_start"]]
    BY <1>2 DEF RunStart, old
  <2>2. RunOK([old EXCEPT !.heard = "run_start"]) /\ [old EXCEPT !.heard = "run_start"].pump = old.pump
    BY <1>1 DEF RunOK, RunFields
  <2> QED BY <1>2, <2>1, <2>2, OneRun DEF RunStart, old
<1>3. CASE RunError(n)
  <2>1. runs' = [runs EXCEPT ![n] = [old EXCEPT !.heard = "run_error"]]
    BY <1>3 DEF RunError, old
  <2>2. RunOK([old EXCEPT !.heard = "run_error"]) /\ [old EXCEPT !.heard = "run_error"].pump = old.pump
    BY <1>1 DEF RunOK, RunFields
  <2> QED BY <1>3, <2>1, <2>2, OneRun DEF RunError, old
<1>4. ASSUME NEW frame, NEW completes, runs' = HeardLast(n, frame, completes),
             UNCHANGED <<slot, caller>>
      PROVE  Elsewhere
  <2> DEFINE new == [old EXCEPT !.heard = frame, !.stdout = IF completes THEN "completing" ELSE @]
  <2>1. runs' = [runs EXCEPT ![n] = new]
    BY <1>4 DEF HeardLast, old
  <2>2. RunOK(new) /\ new.pump = old.pump
    BY <1>1 DEF RunOK, RunFields
  <2> HIDE DEF new
  <2> QED BY <1>4, <2>1, <2>2, OneRun DEF old
<1>5. CASE RunEnd(n)
  BY <1>4, <1>5 DEF RunEnd
<1>6. CASE \E failed \in BOOLEAN : Result(n, failed)
  BY <1>4, <1>6 DEF Result
<1>7. CASE Complete(n)
  <2> DEFINE new == [old EXCEPT !.stdout = "reading", !.turnDone = TRUE, !.completions = @ + 1]
  <2>1. runs' = [runs EXCEPT ![n] = new]
    BY <1>7 DEF Complete, old
  <2>2. RunOK(new) /\ new.pump = old.pump
    BY <1>1 DEF RunOK, RunFields
  <2> HIDE DEF new
  <2> QED BY <1>7, <2>1, <2>2, OneRun DEF Complete, old
<1>8. ASSUME NEW code \in Codes, Exit(n, code) PROVE Elsewhere
  <2> DEFINE new == [old EXCEPT !.alive = FALSE, !.signalled = FALSE, !.code = code]
  <2>1. runs' = [runs EXCEPT ![n] = new]
    BY <1>8 DEF Exit, old
  <2>2. RunOK(new) /\ new.pump = old.pump
    BY <1>1 DEF RunOK, RunFields
  <2> HIDE DEF new
  <2> QED BY <1>8, <2>1, <2>2, OneRun DEF Exit, old
<1>9. CASE \E r \in Requests : HookPost(n, r)
  <2>1. UNCHANGED <<runs, slot, caller>>
    BY <1>9 DEF HookPost, cmdVars
  <2> QED BY <2>1 DEF HarnessInv, RunsOK, Elsewhere
<1> QED BY <1>2, <1>3, <1>5, <1>6, <1>7, <1>8, <1>9 DEF Harness

\* A kill marks the installed process, and every step that ends the session
\* leaves the runs as they are or takes a pump further.
LEMMA SignalledIs ==
  ASSUME HarnessInv, NEW m
  PROVE  /\ Signalled(m) = [n \in Turns |-> Signalled(m)[n]]
         /\ \A n \in Turns : /\ RunOK(Signalled(m)[n])
                             /\ Signalled(m)[n].pump = runs[n].pump
<1>1. \A n \in Turns : RunOK(runs[n])
  BY DEF HarnessInv, RunsOK
<1>2. \A n \in Turns : /\ RunOK([runs[n] EXCEPT !.signalled = TRUE])
                       /\ [runs[n] EXCEPT !.signalled = TRUE].pump = runs[n].pump
  BY <1>1 DEF RunOK, RunFields
<1> QED BY <1>1, <1>2 DEF Signalled, HarnessInv, RunsOK

\* From the exit to the free slot: the pump that waited is the slot's own.
LEMMA PumpSteps ==
  ASSUME HarnessInv, NEW n \in Turns, Pump(n)
  PROVE  Elsewhere
<1> DEFINE old == runs[n]
<1>1. RunOK(old) /\ old = [x \in RunFields |-> old[x]]
  BY DEF HarnessInv, RunsOK, RunOK
<1>2. ASSUME NEW base, NEW pc, pc # "waiting", UNCHANGED <<slot, caller>>,
             base = [m \in Turns |-> base[m]],
             \A m \in Turns : RunOK(base[m]) /\ base[m].pump = runs[m].pump,
             ~base[n].alive, runs' = [base EXCEPT ![n].pump = pc]
      PROVE  Elsewhere
  <2>1. RunOK([base[n] EXCEPT !.pump = pc]) /\ [base[n] EXCEPT !.pump = pc].pump = pc
    BY <1>2 DEF RunOK, RunFields
  <2> QED BY <1>2, <2>1 DEF Elsewhere
<1>3. CASE PumpExit(n)
  <2> DEFINE pc == IF Crashed(n) THEN "crashing" ELSE "settled"
             new == [old EXCEPT !.stdout = "done", !.turnDone = TRUE, !.code = "none",
                                !.interrupted = FALSE, !.completions = @ + Len(ExitCompletion),
                                !.pump = pc]
  <2>1. runs' = [runs EXCEPT ![n] = new] /\ old.pump = "waiting" /\ ~old.alive
        /\ slot' = 0 /\ caller' = caller
    BY <1>3 DEF PumpExit
  <2>2. pc # "waiting"
    OBVIOUS
  <2>3. RunOK(new) /\ new.pump # "waiting"
    <3> HIDE DEF pc, old
    <3> QED BY <1>1, <2>1, <2>2 DEF RunOK, RunFields
  <2> HIDE DEF new
  <2>4. slot = n /\ \A m \in Turns : runs[m].pump = "waiting" => m = n
    BY <2>1 DEF HarnessInv, RunsOK
  <2> QED BY <2>1, <2>3, <2>4 DEF HarnessInv, RunsOK, Elsewhere
<1>4. runs[n].pump = "crashing" => ~runs[n].alive
  BY <1>1 DEF RunOK
<1>5. CASE CrashEnds(n)
  <2>1. /\ UNCHANGED <<slot, caller>> /\ runs[n].pump = "crashing"
        /\ runs' = [Signalled(slot) EXCEPT ![n].pump = "ending"]
    BY <1>5 DEF CrashEnds
  <2>2. ~Signalled(slot)[n].alive
    BY <2>1, SignalledIs DEF RunOK
  <2> QED BY <1>2, <2>1, <2>2, SignalledIs
<1>6. CASE CrashSettles(n)
  <2>1. /\ UNCHANGED <<slot, caller>> /\ runs[n].pump = "crashing"
        /\ runs' = [runs EXCEPT ![n].pump = "settled"]
    BY <1>6 DEF CrashSettles
  <2> QED BY <1>2, <1>4, <2>1 DEF HarnessInv, RunsOK
<1> QED BY <1>3, <1>5, <1>6 DEF Pump

\* The end of the session, its stream and its scope.
LEMMA EndingSteps ==
  ASSUME HarnessInv,
         EndReleases \/ EndStream \/ Ingest \/ StreamEnds \/ Sweep \/ UNCHANGED cmdVars
  PROVE  Elsewhere
<1>1. CASE UNCHANGED <<runs, slot, caller>>
  BY <1>1 DEF HarnessInv, RunsOK, Elsewhere
<1>2. \A n \in Turns : RunOK(runs[n])
  BY DEF HarnessInv, RunsOK
<1>3. CASE EndStream
  <2>1. \A n \in Turns : runs[n].pump = "ending" =>
          RunOK([runs[n] EXCEPT !.pump = "settled"]) /\ [runs[n] EXCEPT !.pump = "settled"].pump # "waiting"
    BY <1>2 DEF RunOK, RunFields
  <2> QED BY <1>2, <1>3, <2>1 DEF EndStream, Elsewhere
<1>4. CASE Sweep
  <2> DEFINE new(n) == [runs[n] EXCEPT !.signalled = @ \/ runs[n].alive]
  <2>1. \A n \in Turns : RunOK(new(n)) /\ new(n).pump = runs[n].pump
    BY <1>2 DEF RunOK, RunFields
  <2> QED BY <1>4, <2>1 DEF Sweep, Elsewhere
<1> QED BY <1>1, <1>3, <1>4 DEF EndReleases, Ingest, StreamEnds, cmdVars

\* The reactor's fiber: a send goes on to spawn only where the slot is free or
\* the pump it waited for has settled, and either way no pump waits.
LEMMA ReactorSteps ==
  ASSUME HarnessInv, Reactor
  PROVE  HarnessInv'
<1>1. /\ RunsOK /\ caller = [x \in CallerFields |-> caller[x]]
      /\ \A n \in Turns : runs[n].pump = "waiting" => slot = n
  BY DEF HarnessInv, RunsOK, CallerOK
<1>2. CASE Send
  <2>1. /\ UNCHANGED <<runs, slot>>
        /\ \E goes \in {"idle", "spawning", "awaiting"} :
             /\ caller' = [pc |-> goes, turn |-> NextTurn, on |-> IF goes = "awaiting" THEN slot ELSE 0]
             /\ goes = "spawning" => slot = 0
    BY <1>2 DEF Send, SendGoes
  <2>2. slot = 0 => \A n \in Turns : runs[n].pump # "waiting"
    BY <1>1 DEF Turns
  <2> QED BY <1>1, <2>1, <2>2 DEF HarnessInv, RunsOK, CallerOK, CallerFields
<1>3. CASE SendWaited
  <2>1. /\ UNCHANGED <<runs, slot>> /\ caller' = [caller EXCEPT !.pc = "spawning", !.on = 0]
        /\ runs[caller.on].pump = "settled" /\ slot \in {0, caller.on}
    BY <1>3 DEF SendWaited, HarnessInv, CallerOK
  <2>2. \A n \in Turns : runs[n].pump # "waiting"
    BY <1>1, <2>1 DEF Turns
  <2> QED BY <1>1, <2>1, <2>2 DEF HarnessInv, RunsOK, CallerOK, CallerFields
<1>4. CASE Spawn
  <2> DEFINE new == [NewRun EXCEPT !.signalled = swept]
  <2>1. /\ runs' = [runs EXCEPT ![caller.turn] = new] /\ slot' = caller.turn
        /\ caller' = [caller EXCEPT !.pc = "idle"]
        /\ \A n \in Turns : runs[n].pump # "waiting"
    BY <1>4 DEF Spawn, HarnessInv, CallerOK
  <2>2. RunOK(new)
    BY DEF NewRun, NoRun, RunOK, RunFields
  <2> HIDE DEF new
  <2>3. RunsOK'
    BY <1>1, <2>1, <2>2 DEF RunsOK
  <2>4. CallerOK'
    BY <1>1, <2>1 DEF CallerOK, CallerFields
  <2> QED BY <2>3, <2>4 DEF HarnessInv
<1>5. CASE SpawnFails \/ InterruptReturns \/ Close \/ Interrupt
  <2> DEFINE marked == [Signalled(slot) EXCEPT ![slot].interrupted = TRUE]
  <2>1. slot' = slot /\ (runs' = runs \/ runs' = Signalled(slot) \/ runs' = marked)
    BY <1>5 DEF SpawnFails, InterruptReturns, Close, Interrupt
  <2>2. \A n \in Turns : /\ RunOK([Signalled(slot)[n] EXCEPT !.interrupted = TRUE])
                         /\ [Signalled(slot)[n] EXCEPT !.interrupted = TRUE].pump = runs[n].pump
    <3>1. ASSUME NEW run, RunOK(run)
          PROVE  RunOK([run EXCEPT !.interrupted = TRUE]) /\ [run EXCEPT !.interrupted = TRUE].pump = run.pump
      BY <3>1 DEF RunOK, RunFields
    <3> QED BY <3>1, SignalledIs
  <2>3. /\ marked = [n \in Turns |-> marked[n]]
        /\ \A n \in Turns : RunOK(marked[n]) /\ marked[n].pump = runs[n].pump
    BY <2>2, SignalledIs
  <2> HIDE DEF marked
  <2>4. RunsOK'
    BY <1>1, <2>1, <2>3, SignalledIs DEF RunsOK
  <2>5. /\ caller' = [x \in CallerFields |-> caller'[x]]
        /\ caller'.pc \in {"idle", "interrupting", "closing"}
    BY <1>1, <1>5 DEF SpawnFails, InterruptReturns, Close, Interrupt, CallerFields
  <2> QED BY <2>4, <2>5 DEF HarnessInv, CallerOK
<1> QED BY <1>2, <1>3, <1>4, <1>5 DEF Reactor

\* Every step of the session keeps the invariant.
THEOREM HarnessInvariant == CmdSafe => []HarnessInv
<1>1. CmdInit => HarnessInv
  BY DEF CmdInit, NoRun, HarnessInv, RunsOK, RunOK, RunFields, CallerOK, CallerFields
<1>2. HarnessInv /\ [CmdNext]_vars => HarnessInv'
  <2> SUFFICES ASSUME HarnessInv, [CmdNext]_vars PROVE HarnessInv'
    OBVIOUS
  <2>1. CASE UNCHANGED vars
    BY <2>1, ElsewhereKeeps, EndingSteps DEF vars
  <2>2. CASE \E n \in Turns : Harness(n) \/ Pump(n)
    BY <2>2, ElsewhereKeeps, HarnessSteps, PumpSteps
  <2>3. CASE GateNext /\ UNCHANGED cmdVars
    BY <2>3, ElsewhereKeeps, EndingSteps
  <2>4. CASE EndReleases \/ EndStream \/ Ingest \/ StreamEnds \/ Sweep
    BY <2>4, ElsewhereKeeps, EndingSteps
  <2> QED BY <2>1, <2>2, <2>3, <2>4, ReactorSteps DEF CmdNext
<1> QED BY <1>1, <1>2, PTL DEF CmdSafe

\* At most one harness process of a session is alive, however many turns it
\* runs and however their processes end (session.ts send, activeProcess.ts).
THEOREM OneHarnessEver == CmdSafe => []OneHarness
<1>1. HarnessInv => OneHarness
  BY DEF HarnessInv, RunsOK, RunOK, OneHarness
<1> QED BY <1>1, HarnessInvariant, PTL

(***************************************************************************)
(* A run completes its turn once.  Three places say that a turn is over,   *)
(* the last frames, the completion that waits for the exit and the exit    *)
(* itself, and the translator they share forgets the run with the next     *)
(* run_start: so the argument keeps, for the one run whose pump waits,     *)
(* which of them has yet to speak, and for the others that all is said.    *)
(***************************************************************************)

\* Nothing has been said of the run, its completion is due from a frame or the
\* exit, it waits for the exit, or it is out.
Unheard(run) == run.heard = "nothing" /\ run.stdout = "reading" /\ run.completions = 0
Due(run) == run.heard # "nothing" /\ run.stdout = "reading" /\ run.completions = 0
Telling(run) == run.heard # "nothing" /\ run.stdout = "completing" /\ run.completions = 0
Counted(run) == run.heard # "nothing" /\ run.stdout = "reading" /\ run.completions = 1

\* A run whose pump waits, by whether the translator has a turn open.
WaitingCount(run, open) ==
  /\ open => Due(run)
  /\ ~open => Unheard(run) \/ Telling(run) \/ Counted(run)

\* A run that was not spawned or whose pump has gone on.
SettledCount(run) ==
  /\ run.completions \in {0, 1}
  /\ run.stdout \notin {"reading", "completing"}
  /\ run.pump # "none" /\ run.heard # "nothing" => run.completions = 1

Count(run, open) ==
  /\ run.pump = "waiting" => WaitingCount(run, open)
  /\ run.pump # "waiting" => SettledCount(run)

TrFields == {"open", "reported", "held"}

TrOK(t) == t = [x \in TrFields |-> t[x]] /\ t.open \in BOOLEAN

CountInv ==
  /\ TrOK(tr)
  /\ tr.open => \E n \in Turns : runs[n].pump = "waiting"
  /\ \A n \in Turns : Count(runs[n], tr.open)

\* What a step leaves of a run when it says nothing of its turn.
SameCount(run, new) ==
  /\ new.heard # "nothing" <=> run.heard # "nothing"
  /\ new.stdout = run.stdout /\ new.completions = run.completions
  /\ new.pump = "waiting" <=> run.pump = "waiting"
  /\ run.pump = "none" => new.pump = "none"

LEMMA SameKept ==
  ASSUME NEW run, NEW new, NEW open, Count(run, open), SameCount(run, new)
  PROVE  Count(new, open)
BY DEF Count, SameCount, WaitingCount, SettledCount, Unheard, Due, Telling, Counted

\* A step that says nothing of any turn keeps every count.
LEMMA QuietKeeps ==
  ASSUME CountInv, TrOK(tr'), tr'.open = tr.open,
         \A n \in Turns : SameCount(runs[n], runs'[n])
  PROVE  CountInv'
<1>1. tr'.open => \E n \in Turns : runs'[n].pump = "waiting"
  BY DEF CountInv, SameCount
<1>2. \A n \in Turns : Count(runs'[n], tr'.open)
  BY SameKept DEF CountInv
<1> QED BY <1>1, <1>2 DEF CountInv

\* The only run whose pump waits may say what it likes, as long as it counts.
LEMMA WaitingKeeps ==
  ASSUME HarnessInv, CountInv, NEW n \in Turns, runs[n].pump = "waiting", TrOK(tr'),
         NEW run, runs' = [runs EXCEPT ![n] = run], Count(run, tr'.open),
         tr'.open => run.pump = "waiting"
  PROVE  CountInv'
<1>1. runs'[n] = run /\ \A m \in Turns \ {n} : runs'[m] = runs[m] /\ runs[m].pump # "waiting"
  BY DEF HarnessInv, RunsOK
<1>2. \A m \in Turns \ {n} : Count(runs'[m], tr'.open)
  BY <1>1 DEF CountInv, Count
<1> QED BY <1>1, <1>2 DEF CountInv

\* Only the waiting run is read.
LEMMA ReadingWaits ==
  ASSUME CountInv, NEW n \in Turns, runs[n].stdout \in {"reading", "completing"}
  PROVE  runs[n].pump = "waiting"
BY DEF CountInv, Count, SettledCount

\* The frames of the run and the completion that waits for its exit.
LEMMA FramesCount ==
  ASSUME HarnessInv, CountInv, NEW n \in Turns, Harness(n)
  PROVE  CountInv'
<1> DEFINE old == runs[n]
<1>1. RunOK(old) /\ old = [x \in RunFields |-> old[x]] /\ Count(old, tr.open) /\ TrOK(tr)
  BY DEF HarnessInv, RunsOK, RunOK, CountInv
<1>2. old.stdout \in {"reading", "completing"} => old.pump = "waiting" /\ WaitingCount(old, tr.open)
  BY <1>1, ReadingWaits DEF Count
<1>3. ASSUME runs[n].pump = "waiting", TrOK(tr'), NEW run, runs' = [runs EXCEPT ![n] = run],
             run.pump = "waiting", WaitingCount(run, tr'.open)
      PROVE  CountInv'
  BY <1>3, WaitingKeeps DEF Count
<1>4. TrOK(tr) => \A o \in BOOLEAN : \A r, h : TrOK([open |-> o, reported |-> r, held |-> h])
  BY DEF TrOK, TrFields
<1>5. ASSUME NEW open \in BOOLEAN
      PROVE  TrOK([tr EXCEPT !.open = open]) /\ [tr EXCEPT !.open = open].open = open
  BY <1>1 DEF TrOK, TrFields
<1> HIDE DEF old
<1>6. CASE RunStart(n)
  <2> DEFINE new == [old EXCEPT !.heard = "run_start"]
  <2>1. /\ runs' = [runs EXCEPT ![n] = new] /\ old.heard = "nothing" /\ old.stdout = "reading"
        /\ tr' = [open |-> TRUE, reported |-> FALSE, held |-> FALSE]
    BY <1>6 DEF RunStart, Reading, old
  <2>2. new.pump = old.pump /\ WaitingCount(new, TRUE)
    BY <1>1, <1>2, <2>1 DEF RunFields, WaitingCount, Unheard, Due, Telling, Counted
  <2> HIDE DEF new
  <2> QED BY <1>1, <1>2, <1>3, <1>4, <2>1, <2>2 DEF old
<1>7. CASE RunError(n)
  <2> DEFINE new == [old EXCEPT !.heard = "run_error"]
  <2>1. /\ runs' = [runs EXCEPT ![n] = new] /\ old.heard = "run_start" /\ old.stdout = "reading"
        /\ tr' = [tr EXCEPT !.held = TRUE]
    BY <1>7 DEF RunError, Reading, old
  <2>2. TrOK(tr') /\ tr'.open = tr.open
    BY <1>1, <2>1 DEF TrOK, TrFields
  <2>3. new.pump = old.pump /\ WaitingCount(new, tr.open)
    BY <1>1, <1>2, <2>1 DEF RunFields, WaitingCount, Unheard, Due, Telling, Counted
  <2> HIDE DEF new
  <2> QED BY <1>2, <1>3, <2>1, <2>2, <2>3 DEF old
<1>8. ASSUME NEW frame, NEW completes \in BOOLEAN, runs' = HeardLast(n, frame, completes),
             frame # "nothing", old.heard # "nothing", old.stdout = "reading",
             completes => tr.open, TrOK(tr'), tr'.open = (tr.open /\ ~completes)
      PROVE  CountInv'
  <2> DEFINE new == [old EXCEPT !.heard = frame, !.stdout = IF completes THEN "completing" ELSE @]
  <2>1. runs' = [runs EXCEPT ![n] = new]
    BY <1>8 DEF HeardLast, old
  <2>2. /\ new.pump = old.pump /\ new.heard = frame /\ new.completions = old.completions
        /\ new.stdout = IF completes THEN "completing" ELSE old.stdout
    BY <1>1 DEF RunFields
  <2> HIDE DEF new
  <2>3. WaitingCount(new, tr'.open)
    BY <1>1, <1>2, <1>8, <2>2 DEF TrOK, WaitingCount, Unheard, Due, Telling, Counted
  <2> QED BY <1>2, <1>3, <1>8, <2>1, <2>2, <2>3 DEF old
<1>9. CASE RunEnd(n)
  <2> DEFINE completes == tr.open /\ ~(tr.held /\ ~tr.reported)
  <2>1. /\ old.stdout = "reading" /\ old.heard \in {"run_start", "run_error"}
        /\ runs' = HeardLast(n, "run_end", completes)
        /\ tr' = [tr EXCEPT !.open = tr.open /\ ~completes]
    BY <1>9 DEF RunEnd, Reading, old
  <2>2. completes \in BOOLEAN /\ (tr.open /\ ~completes) \in BOOLEAN /\ (completes => tr.open)
    OBVIOUS
  <2> HIDE DEF completes
  <2>3. TrOK(tr') /\ tr'.open = (tr.open /\ ~completes)
    BY <1>5, <2>1, <2>2
  <2>4. old.heard # "nothing"
    BY <2>1
  <2> QED BY <1>8, <2>1, <2>2, <2>3, <2>4
<1>10. ASSUME NEW failed \in BOOLEAN, Result(n, failed) PROVE CountInv'
  <2>1. /\ old.stdout = "reading" /\ old.heard # "nothing"
        /\ runs' = HeardLast(n, "result", tr.open)
        /\ tr' = IF failed THEN [open |-> FALSE, reported |-> TRUE, held |-> FALSE]
                 ELSE [tr EXCEPT !.open = FALSE]
    BY <1>10 DEF Result, Reading, old
  <2>2. TrOK(tr') /\ tr'.open = FALSE /\ tr.open \in BOOLEAN
    BY <1>1, <1>4, <1>5, <2>1 DEF TrOK
  <2>3. tr'.open = (tr.open /\ ~tr.open)
    BY <2>2
  <2> QED BY <1>8, <2>1, <2>2, <2>3
<1>11. CASE Complete(n)
  <2> DEFINE new == [old EXCEPT !.stdout = "reading", !.turnDone = TRUE, !.completions = @ + 1]
  <2>1. runs' = [runs EXCEPT ![n] = new] /\ tr' = tr /\ old.stdout = "completing"
    BY <1>11 DEF Complete, old
  <2>2. /\ new.pump = old.pump /\ new.heard = old.heard /\ new.stdout = "reading"
        /\ new.completions = old.completions + 1
    BY <1>1 DEF RunFields
  <2> HIDE DEF new
  <2>3. WaitingCount(new, tr.open)
    BY <1>1, <1>2, <2>1, <2>2 DEF TrOK, WaitingCount, Unheard, Due, Telling, Counted
  <2> QED BY <1>1, <1>2, <1>3, <2>1, <2>2, <2>3 DEF old
<1>12. ASSUME NEW code \in Codes, Exit(n, code) PROVE CountInv'
  <2> DEFINE new == [old EXCEPT !.alive = FALSE, !.signalled = FALSE, !.code = code]
  <2>1. runs' = [runs EXCEPT ![n] = new] /\ tr' = tr
    BY <1>12 DEF Exit, old
  <2>2. SameCount(old, new) /\ \A m \in Turns \ {n} : SameCount(runs[m], runs[m])
    BY <1>1 DEF RunFields, SameCount
  <2> HIDE DEF new
  <2> QED BY <1>1, <2>1, <2>2, QuietKeeps DEF old, HarnessInv, RunsOK
<1>13. CASE \E r \in Requests : HookPost(n, r)
  <2>1. runs' = runs /\ tr' = tr
    BY <1>13 DEF HookPost, cmdVars
  <2> QED BY <1>1, <2>1, QuietKeeps DEF SameCount
<1> QED BY <1>6, <1>7, <1>9, <1>10, <1>11, <1>12, <1>13 DEF Harness

\* A kill says nothing.
LEMMA SignalledCounts ==
  ASSUME HarnessInv, NEW m
  PROVE  \A n \in Turns : SameCount(runs[n], Signalled(m)[n])
<1>1. \A n \in Turns : RunOK(runs[n])
  BY DEF HarnessInv, RunsOK
<1>2. \A n \in Turns : SameCount(runs[n], [runs[n] EXCEPT !.signalled = TRUE])
  BY <1>1 DEF RunOK, RunFields, SameCount
<1>3. \A n \in Turns : SameCount(runs[n], runs[n])
  BY DEF SameCount
<1> QED BY <1>2, <1>3 DEF Signalled, HarnessInv, RunsOK

\* From the exit to the free slot: an open turn is completed by the exit.
LEMMA PumpsCount ==
  ASSUME HarnessInv, CountInv, NEW n \in Turns, Pump(n)
  PROVE  CountInv'
<1> DEFINE old == runs[n]
<1>1. RunOK(old) /\ old = [x \in RunFields |-> old[x]] /\ Count(old, tr.open) /\ TrOK(tr)
  BY DEF HarnessInv, RunsOK, RunOK, CountInv
<1>2. \A m \in Turns : RunOK(runs[m])
  BY DEF HarnessInv, RunsOK
<1>3. ASSUME NEW run, RunOK(run), NEW pc, run.pump = "crashing", pc \notin {"waiting", "none"}
      PROVE  SameCount(run, [run EXCEPT !.pump = pc])
  BY <1>3 DEF RunOK, RunFields, SameCount
<1>4. CASE PumpExit(n)
  <2> DEFINE pc == IF Crashed(n) THEN "crashing" ELSE "settled"
             ends == Len(ExitCompletion)
             new == [old EXCEPT !.stdout = "done", !.turnDone = TRUE, !.code = "none",
                                !.interrupted = FALSE, !.completions = @ + ends, !.pump = pc]
  <2>1. runs' = [runs EXCEPT ![n] = new] /\ old.pump = "waiting" /\ old.stdout # "completing"
    BY <1>4 DEF PumpExit
  <2>2. pc \notin {"waiting", "none"}
    OBVIOUS
  <2>3. TrOK(tr') /\ tr'.open = FALSE
    BY <1>4 DEF PumpExit, TrOK, TrFields
  <2>4. ends = IF tr.open THEN 1 ELSE 0
    BY DEF ExitCompletion
  <2>5. /\ new.pump = pc /\ new.stdout = "done" /\ new.heard = old.heard
        /\ new.completions = old.completions + ends
    <3> HIDE DEF pc, ends, old
    <3> QED BY <1>1 DEF RunFields
  <2> HIDE DEF new, pc, ends
  <2>6. WaitingCount(old, tr.open)
    BY <1>1, <2>1 DEF Count
  <2>7. SettledCount(new)
    <3> HIDE DEF old
    <3> QED BY <1>1, <2>1, <2>4, <2>5, <2>6
            DEF TrOK, WaitingCount, SettledCount, Unheard, Due, Telling, Counted
  <2>8. Count(new, tr'.open)
    BY <2>2, <2>5, <2>7 DEF Count
  <2> QED BY <2>1, <2>3, <2>8, WaitingKeeps
<1>5. CASE CrashEnds(n)
  <2>1. /\ UNCHANGED tr /\ runs[n].pump = "crashing"
        /\ runs' = [Signalled(slot) EXCEPT ![n].pump = "ending"]
    BY <1>5 DEF CrashEnds
  <2>2. \A m \in Turns : SameCount(runs[m], Signalled(slot)[m])
    BY <1>2, SignalledCounts DEF HarnessInv
  <2>3. SameCount(Signalled(slot)[n], [Signalled(slot)[n] EXCEPT !.pump = "ending"])
    BY <1>3, <2>1, SignalledIs
  <2>4. \A m \in Turns : SameCount(runs[m], runs'[m])
    BY <2>1, <2>2, <2>3, SignalledIs DEF SameCount
  <2> QED BY <1>1, <2>1, <2>4, QuietKeeps
<1>6. CASE CrashSettles(n)
  <2>1. /\ UNCHANGED tr /\ runs[n].pump = "crashing"
        /\ runs' = [runs EXCEPT ![n].pump = "settled"]
    BY <1>6 DEF CrashSettles
  <2>2. SameCount(runs[n], [runs[n] EXCEPT !.pump = "settled"])
    BY <1>2, <1>3, <2>1
  <2>3. \A m \in Turns : SameCount(runs[m], runs'[m])
    BY <2>1, <2>2 DEF HarnessInv, RunsOK, SameCount
  <2> QED BY <1>1, <2>1, <2>3, QuietKeeps
<1> QED BY <1>4, <1>5, <1>6 DEF Pump

\* The end of the session, its stream and its scope.
LEMMA EndingsCount ==
  ASSUME HarnessInv, CountInv,
         EndReleases \/ EndStream \/ Ingest \/ StreamEnds \/ Sweep \/ UNCHANGED cmdVars
  PROVE  CountInv'
<1>1. TrOK(tr') /\ tr'.open = tr.open
  BY DEF CountInv, EndReleases, EndStream, Ingest, StreamEnds, Sweep, cmdVars
<1>2. \A n \in Turns : RunOK(runs[n])
  BY DEF HarnessInv, RunsOK
<1>3. CASE UNCHANGED runs
  BY <1>1, <1>3, QuietKeeps DEF SameCount
<1>4. CASE EndStream
  <2>1. \A n \in Turns : runs[n].pump = "ending" =>
          SameCount(runs[n], [runs[n] EXCEPT !.pump = "settled"])
    BY <1>2 DEF RunOK, RunFields, SameCount
  <2>2. \A n \in Turns : SameCount(runs[n], runs[n])
    BY DEF SameCount
  <2>3. \A n \in Turns : SameCount(runs[n], runs'[n])
    BY <1>4, <2>1, <2>2 DEF EndStream
  <2> QED BY <1>1, <2>3, QuietKeeps
<1>5. CASE Sweep
  <2> DEFINE new(n) == [runs[n] EXCEPT !.signalled = @ \/ runs[n].alive]
  <2>1. \A n \in Turns : SameCount(runs[n], new(n))
    BY <1>2 DEF RunOK, RunFields, SameCount
  <2> QED BY <1>1, <1>5, <2>1, QuietKeeps DEF Sweep
<1> QED BY <1>3, <1>4, <1>5 DEF EndReleases, Ingest, StreamEnds, cmdVars

\* The reactor's fiber: a process is installed only when none waits, so no turn
\* is open when it begins to speak.
LEMMA ReactorCounts ==
  ASSUME HarnessInv, CountInv, Reactor
  PROVE  CountInv'
<1>1. TrOK(tr') /\ tr' = tr
  BY DEF CountInv, Reactor, Send, SendWaited, Spawn, SpawnFails, Interrupt, InterruptReturns, Close
<1>2. \A n \in Turns : RunOK(runs[n])
  BY DEF HarnessInv, RunsOK
<1>3. CASE UNCHANGED runs
  BY <1>1, <1>3, QuietKeeps DEF SameCount
<1>4. CASE Spawn
  <2> DEFINE new == [NewRun EXCEPT !.signalled = swept]
  <2>1. /\ runs' = [runs EXCEPT ![caller.turn] = new]
        /\ \A n \in Turns : runs[n].pump # "waiting"
    BY <1>4 DEF Spawn, HarnessInv, CallerOK
  <2>2. tr.open = FALSE
    BY <2>1 DEF CountInv, TrOK
  <2>3. Count(new, FALSE)
    BY DEF NewRun, NoRun, Count, WaitingCount, Unheard
  <2> HIDE DEF new
  <2>4. \A n \in Turns : runs'[n] = runs[n] \/ runs'[n] = new
    BY <2>1 DEF HarnessInv, RunsOK
  <2> QED BY <1>1, <2>2, <2>3, <2>4 DEF CountInv
<1>5. CASE Interrupt \/ Close
  <2> DEFINE marked == [Signalled(slot) EXCEPT ![slot].interrupted = TRUE]
  <2>1. runs' = runs \/ runs' = Signalled(slot) \/ runs' = marked
    BY <1>5 DEF Close, Interrupt
  <2>2. ASSUME NEW run, RunOK(run) PROVE SameCount(run, [run EXCEPT !.interrupted = TRUE])
    BY <2>2 DEF RunOK, RunFields, SameCount
  <2>3. \A n \in Turns : SameCount(runs[n], Signalled(slot)[n])
    BY SignalledCounts
  <2>4. \A n \in Turns : SameCount(Signalled(slot)[n], marked[n])
    <3>1. \A n \in Turns : SameCount(Signalled(slot)[n], [Signalled(slot)[n] EXCEPT !.interrupted = TRUE])
      BY <2>2, SignalledIs
    <3>2. \A n \in Turns : \/ marked[n] = Signalled(slot)[n]
                            \/ marked[n] = [Signalled(slot)[n] EXCEPT !.interrupted = TRUE]
      BY SignalledIs
    <3> QED BY <3>1, <3>2 DEF SameCount
  <2> HIDE DEF marked
  <2>5. \A n \in Turns : SameCount(runs[n], runs'[n])
    BY <2>1, <2>3, <2>4 DEF SameCount
  <2> QED BY <1>1, <2>5, QuietKeeps
<1> QED BY <1>3, <1>4, <1>5 DEF Reactor, Send, SendWaited, SpawnFails, InterruptReturns

\* Every step of the session keeps the counts.
THEOREM CountInvariant == CmdSafe => []CountInv
<1>1. CmdInit => CountInv
  <2> SUFFICES ASSUME CmdInit PROVE CountInv
    OBVIOUS
  <2>1. TrOK(tr) /\ tr.open = FALSE
    BY DEF CmdInit, TrOK, TrFields
  <2>2. Count(NoRun, FALSE)
    BY DEF NoRun, Count, SettledCount
  <2>3. \A n \in Turns : runs[n] = NoRun
    BY DEF CmdInit
  <2> QED BY <2>1, <2>2, <2>3 DEF CountInv
<1>2. HarnessInv /\ CountInv /\ [CmdNext]_vars => CountInv'
  <2> SUFFICES ASSUME HarnessInv, CountInv, [CmdNext]_vars PROVE CountInv'
    OBVIOUS
  <2>1. CASE UNCHANGED vars
    BY <2>1, EndingsCount DEF vars
  <2>2. CASE \E n \in Turns : Harness(n) \/ Pump(n)
    BY <2>2, FramesCount, PumpsCount
  <2>3. CASE GateNext /\ UNCHANGED cmdVars
    BY <2>3, EndingsCount
  <2>4. CASE EndReleases \/ EndStream \/ Ingest \/ StreamEnds \/ Sweep
    BY <2>4, EndingsCount
  <2> QED BY <2>1, <2>2, <2>3, <2>4, ReactorCounts DEF CmdNext
<1> QED BY <1>1, <1>2, HarnessInvariant, PTL DEF CmdSafe

\* A run emits turn.completed at most once, and exactly once by the time its
\* pump has settled if it ever said run_start: frames, result line and exit
\* describe one death (translate.ts, activeProcess.ts).
THEOREM CompletedOnce == CmdSafe => []RunsCompleteOnce
<1>1. CountInv => RunsCompleteOnce
  BY DEF CountInv, TrOK, Count, WaitingCount, SettledCount, Unheard, Due, Telling, Counted,
         RunsCompleteOnce
<1> QED BY <1>1, CountInvariant, PTL

----------------------------------------------------------------------------
(* The gate.  Few of the session's steps touch it (GateSteps); the         *)
(* invariant says of each request how far its post is, what was announced  *)
(* of it, and whether it can still be released.                            *)

Said == Decisions \cup {"none", "opened"}

GateTypeOK ==
  /\ posts \in [Requests -> [pc : {"none", "deciding", "parked", "done", "cut"},
                             told : Decisions \cup {"nothing"}]]
  /\ pending \subseteq Requests
  /\ answer \in [Requests -> Decisions \cup {"none"}]
  /\ cards \in [Requests -> Seq(Said)]

\* A request that is not announced yet, one that can be released, one whose
\* post waits, and one whose card was opened.
Unasked(r) ==
  posts[r].pc \in {"none", "deciding"} => Len(cards[r]) = 0 /\ r \notin pending
Releasable(r) ==
  r \in pending => /\ posts[r].pc \in {"parked", "cut"}
                   /\ Len(cards[r]) <= 1 /\ (~over => Len(cards[r]) = 1)
Parked(r) == posts[r].pc = "parked" /\ ~over => Len(cards[r]) >= 1
Open(r) == Len(cards[r]) = 1 /\ ~over => r \in pending

\* An approval that was resolved was answered, and its post was told so.
Resolved(r) ==
  /\ Len(cards[r]) <= 2
  /\ Len(cards[r]) = 2 => /\ answer[r] # "none" /\ cards[r][2] = answer[r]
                          /\ posts[r].pc = "done" => posts[r].told = answer[r]

RequestInv(r) ==
  /\ Unasked(r) /\ Releasable(r) /\ Parked(r) /\ Open(r)
  /\ r \in Approvals => Resolved(r)

GateInv == GateTypeOK /\ \A r \in Requests : RequestInv(r)

\* What the session's steps do to the gate.
LEMMA GateSteps ==
  ASSUME [CmdNext]_vars
  PROVE  \/ GateNext
         \/ \E r \in Requests : Post(r)
         \/ Release /\ UNCHANGED <<posts, over>>
         \/ over' = TRUE /\ UNCHANGED <<posts, pending, answer, cards>>
         \/ UNCHANGED gateVars
<1>1. CASE UNCHANGED vars
  BY <1>1 DEF vars
<1>2. CASE \E n \in Turns : Harness(n)
  BY <1>2 DEF Harness, RunStart, RunError, RunEnd, Result, Complete, Exit, HookPost
<1>3. CASE \E n \in Turns : Pump(n)
  BY <1>3 DEF Pump, PumpExit, CrashEnds, CrashSettles
<1>4. CASE GateNext
  BY <1>4
<1>5. CASE EndReleases \/ EndStream
  BY <1>5 DEF EndReleases, EndStream
<1>6. CASE Ingest \/ StreamEnds \/ Sweep
  BY <1>6 DEF Ingest, StreamEnds, Sweep
<1>7. CASE Reactor
  BY <1>7 DEF Reactor, Send, SendWaited, Spawn, SpawnFails, Interrupt, InterruptReturns, Close
<1> QED BY <1>1, <1>2, <1>3, <1>4, <1>5, <1>6, <1>7 DEF CmdNext

\* One more announcement about each request of R.
LEMMA AnnouncedIs ==
  ASSUME GateTypeOK, NEW R, NEW said, \A r \in R \cap Requests : said[r] \in Said
  PROVE  /\ Announced(R, said) \in [Requests -> Seq(Said)]
         /\ over => Announced(R, said) = cards
         /\ \A r \in Requests : r \notin R => Announced(R, said)[r] = cards[r]
         /\ \A r \in Requests : r \in R /\ ~over =>
              /\ Len(Announced(R, said)[r]) = Len(cards[r]) + 1
              /\ Announced(R, said)[r][Len(cards[r]) + 1] = said[r]
<1>1. CASE over
  BY <1>1 DEF Announced, GateTypeOK
<1>2. CASE ~over
  <2> DEFINE after(r) == IF r \in R THEN Append(cards[r], said[r]) ELSE cards[r]
  <2>1. ASSUME NEW r \in Requests
        PROVE  /\ after(r) \in Seq(Said)
               /\ r \in R => Len(after(r)) = Len(cards[r]) + 1 /\ after(r)[Len(cards[r]) + 1] = said[r]
    <3>1. cards[r] \in Seq(Said)
      BY DEF GateTypeOK
    <3>2. CASE r \in R
      <4>1. said[r] \in Said
        BY <3>2
      <4> QED BY <3>1, <3>2, <4>1
    <3> QED BY <3>1, <3>2
  <2>2. Announced(R, said) = [r \in Requests |-> after(r)]
    BY <1>2 DEF Announced
  <2> QED BY <1>2, <2>1, <2>2
<1> QED BY <1>1, <1>2

\* A step that moves the post of one request and announces at most that one.
LEMMA OnePost ==
  ASSUME GateInv, NEW r \in Requests, Ask(r) \/ Post(r)
  PROVE  GateInv'
<1>0. \E pc \in {"deciding", "parked"} : posts' = [posts EXCEPT ![r].pc = pc]
  BY DEF Ask, Post
<1>1. /\ posts[r].pc \in {"none", "deciding"}
      /\ answer' = answer /\ over' = over
      /\ posts'[r].pc \in {"deciding", "parked"}
      /\ \/ posts'[r].pc = "parked" /\ pending' = pending \cup {r}
            /\ cards' = Announced({r}, [q \in {r} |-> "opened"])
         \/ posts'[r].pc = "deciding" /\ pending' = pending /\ cards' = cards
  BY DEF Ask, Post, GateInv, GateTypeOK
<1>2. GateTypeOK /\ Len(cards[r]) = 0 /\ r \notin pending
  BY <1>1 DEF GateInv, RequestInv, Unasked
<1>3. /\ posts' \in [Requests -> [pc : {"none", "deciding", "parked", "done", "cut"},
                                  told : Decisions \cup {"nothing"}]]
      /\ \A q \in Requests : q # r => posts'[q] = posts[q]
  BY <1>0, <1>2 DEF GateTypeOK
<1>4. CASE posts'[r].pc = "deciding"
  BY <1>1, <1>2, <1>3, <1>4
     DEF GateInv, GateTypeOK, RequestInv, Unasked, Releasable, Parked, Open, Resolved
<1>5. CASE posts'[r].pc = "parked"
  <2> DEFINE said == [q \in {r} |-> "opened"]
  <2>1. cards' = Announced({r}, said) /\ pending' = pending \cup {r}
    BY <1>1, <1>5
  <2>2. \A q \in {r} \cap Requests : said[q] \in Said
    BY DEF Said
  <2> HIDE DEF said
  <2>3. /\ cards' \in [Requests -> Seq(Said)]
        /\ over => cards' = cards
        /\ \A q \in Requests : q # r => cards'[q] = cards[q]
        /\ ~over => Len(cards'[r]) = 1
    <3>1. /\ Announced({r}, said) \in [Requests -> Seq(Said)]
          /\ over => Announced({r}, said) = cards
          /\ \A q \in Requests : q \notin {r} => Announced({r}, said)[q] = cards[q]
          /\ \A q \in Requests : q \in {r} /\ ~over =>
                Len(Announced({r}, said)[q]) = Len(cards[q]) + 1
      BY <1>2, <2>2, AnnouncedIs
    <3>2. CASE over
      BY <2>1, <3>1, <3>2
    <3>3. CASE ~over
      <4>1. Len(cards'[r]) = Len(cards[r]) + 1
        BY <2>1, <3>1, <3>3
      <4>2. Len(cards'[r]) = 1
        BY <1>2, <4>1
      <4>3. \A q \in Requests : q # r => cards'[q] = cards[q]
        BY <2>1, <3>1
      <4>4. cards' \in [Requests -> Seq(Said)]
        BY <2>1, <3>1
      <4> QED BY <3>3, <4>2, <4>3, <4>4
    <3> QED BY <3>2, <3>3
  <2>4. GateTypeOK'
    BY <1>1, <1>2, <1>3, <2>1, <2>3 DEF GateTypeOK
  <2>5. ASSUME NEW q \in Requests PROVE RequestInv(q)'
    <3>1. CASE q = r
      <4>1. Len(cards'[r]) <= 1
        <5>1. CASE over
          <6>1. cards' = cards
            BY <2>3, <5>1
          <6> QED BY <1>2, <6>1
        <5>2. CASE ~over
          <6>1. Len(cards'[r]) = 1
            BY <2>3, <5>2
          <6> QED BY <6>1
        <5> QED BY <5>1, <5>2
      <4>2. ~over' => Len(cards'[r]) = 1
        BY <1>1, <2>3
      <4>3. posts'[r].pc = "parked" /\ r \in pending'
        BY <1>5, <2>1
      <4>4. Unasked(r)' /\ Releasable(r)' /\ Parked(r)' /\ Open(r)'
        BY <4>1, <4>2, <4>3 DEF Unasked, Releasable, Parked, Open
      <4>5. Resolved(r)'
        BY <4>1 DEF Resolved
      <4> QED BY <3>1, <4>4, <4>5 DEF RequestInv
    <3>2. CASE q # r
      BY <1>1, <1>3, <2>1, <2>3, <3>2
         DEF GateInv, RequestInv, Unasked, Releasable, Parked, Open, Resolved
    <3> QED BY <3>1, <3>2
  <2> QED BY <2>4, <2>5 DEF GateInv
<1> QED BY <1>1, <1>4, <1>5

\* A step that announces nothing: a rule's verdict, the user's answer, a cut.
LEMMA QuietPost ==
  ASSUME GateInv, NEW r \in Requests, NEW d \in Decisions,
         DecidedByRules(r, d) \/ Respond(r, d) \/ Cut(r)
  PROVE  GateInv'
<1>1. GateTypeOK /\ \A q \in Requests : RequestInv(q)
  BY DEF GateInv
<1>2. CASE DecidedByRules(r, d)
  <2>1. GateTypeOK' /\ posts'[r].pc = "done"
        /\ \A q \in Requests : q # r => posts'[q] = posts[q]
    BY <1>1, <1>2 DEF DecidedByRules, Told, GateTypeOK
  <2> QED BY <1>1, <1>2, <2>1
          DEF DecidedByRules, GateInv, RequestInv, Unasked, Releasable, Parked, Open, Resolved
<1>3. CASE Respond(r, d)
  <2>1. GateTypeOK' /\ \A q \in Requests : answer[q] # "none" => answer'[q] = answer[q]
    BY <1>1, <1>3 DEF Respond, Answered, GateTypeOK, Decisions
  <2> QED BY <1>1, <1>3, <2>1
          DEF Respond, GateInv, RequestInv, Unasked, Releasable, Parked, Open, Resolved
<1>4. CASE Cut(r)
  <2>1. GateTypeOK' /\ posts[r].pc \in {"deciding", "parked"} /\ posts'[r].pc = "cut"
        /\ \A q \in Requests : q # r => posts'[q] = posts[q]
    BY <1>1, <1>4 DEF Cut, GateTypeOK, Decisions
  <2> QED BY <1>1, <1>4, <2>1
          DEF Cut, GateInv, RequestInv, Unasked, Releasable, Parked, Open, Resolved
<1> QED BY <1>2, <1>3, <1>4

\* The parked post resumes: an approval's resolution is announced only by the
\* fiber that takes it out of the map, so it is announced once.
LEMMA WakeKeeps ==
  ASSUME GateInv, NEW r \in Requests, Wake(r)
  PROVE  GateInv'
<1> DEFINE R == {r} \cap (Questions \cup pending)
<1>1. GateTypeOK /\ RequestInv(r) /\ posts[r].pc = "parked" /\ answer[r] # "none"
  BY DEF Wake, GateInv
<1>2. /\ answer' = answer /\ over' = over /\ pending' = pending \ {r}
      /\ cards' = Announced(R, answer)
  BY DEF Wake
<1>3. /\ posts' \in [Requests -> [pc : {"none", "deciding", "parked", "done", "cut"},
                                  told : Decisions \cup {"nothing"}]]
      /\ posts'[r].pc = "done"
      /\ r \in Approvals => posts'[r].told = answer[r]
      /\ \A q \in Requests : q # r => posts'[q] = posts[q]
  BY <1>1, KindsAssumption DEF Wake, Told, GateTypeOK, Decisions
<1>4. \A q \in R \cap Requests : answer[q] \in Said
  BY <1>1 DEF GateTypeOK, Said
<1>5. /\ cards' \in [Requests -> Seq(Said)]
      /\ over => cards' = cards
      /\ \A q \in Requests : q \notin R => cards'[q] = cards[q]
      /\ \A q \in Requests : q \in R /\ ~over =>
           Len(cards'[q]) = Len(cards[q]) + 1 /\ cards'[q][Len(cards[q]) + 1] = answer[q]
  <2> HIDE DEF R
  <2> QED BY <1>1, <1>2, <1>4, AnnouncedIs
<1>6. GateTypeOK'
  BY <1>1, <1>2, <1>3, <1>5 DEF GateTypeOK
<1>7. ASSUME NEW q \in Requests, q # r PROVE RequestInv(q)'
  BY <1>2, <1>3, <1>5, <1>7 DEF GateInv, RequestInv, Unasked, Releasable, Parked, Open, Resolved
<1>8. RequestInv(r)'
  <2>1. Len(cards[r]) \in Nat
    BY <1>1 DEF GateTypeOK
  <2>2. CASE over
    BY <1>1, <1>2, <1>3, <1>5, <2>2 DEF RequestInv, Unasked, Releasable, Parked, Open, Resolved
  <2>3. CASE ~over /\ r \in pending
    <3>1. Len(cards[r]) = 1 /\ r \in R
      BY <1>1, <2>3 DEF RequestInv, Releasable
    <3>2. Len(cards'[r]) = Len(cards[r]) + 1 /\ cards'[r][Len(cards[r]) + 1] = answer[r]
      BY <1>5, <2>3, <3>1
    <3>3. Len(cards'[r]) = 2 /\ cards'[r][2] = answer[r]
      BY <3>1, <3>2
    <3>4. answer' = answer /\ over' = over /\ r \notin pending'
      BY <1>2
    <3>5. Unasked(r)' /\ Releasable(r)' /\ Parked(r)' /\ Open(r)'
      BY <1>3, <3>3, <3>4 DEF Unasked, Releasable, Parked, Open
    <3>6. r \in Approvals => Resolved(r)'
      BY <1>1, <1>3, <3>3, <3>4 DEF Resolved
    <3> QED BY <3>5, <3>6 DEF RequestInv
  <2>4. CASE ~over /\ r \notin pending /\ r \in Questions
    <3>1. Len(cards'[r]) = Len(cards[r]) + 1 /\ Len(cards[r]) >= 1
      BY <1>1, <1>5, <2>4 DEF RequestInv, Parked
    <3>2. Len(cards'[r]) # 1
      BY <2>1, <3>1
    <3>3. Unasked(r)' /\ Releasable(r)' /\ Parked(r)' /\ Open(r)'
      BY <1>2, <1>3, <3>2 DEF Unasked, Releasable, Parked, Open
    <3>4. r \notin Approvals
      BY <2>4, KindsAssumption
    <3> QED BY <3>3, <3>4 DEF RequestInv
  <2>5. CASE ~over /\ r \notin pending /\ r \notin Questions
    <3>1. cards'[r] = cards[r]
      BY <1>5, <2>5
    <3>2. answer' = answer /\ over' = over /\ r \notin pending'
      BY <1>2
    <3>3. r \in Approvals
      BY <2>5 DEF Requests
    <3>4. Unasked(r)' /\ Releasable(r)' /\ Parked(r)' /\ Open(r)'
      BY <1>1, <1>3, <2>5, <3>1, <3>2 DEF RequestInv, Unasked, Releasable, Parked, Open
    <3>5. Resolved(r)'
      BY <1>1, <1>3, <3>1, <3>2, <3>3 DEF RequestInv, Resolved
    <3> QED BY <3>4, <3>5 DEF RequestInv
  <2> QED BY <2>2, <2>3, <2>4, <2>5
<1> QED BY <1>6, <1>7, <1>8 DEF GateInv

\* A release answers and announces every request in the map, and empties it.
LEMMA ReleaseKeeps ==
  ASSUME GateInv, Release, UNCHANGED <<posts, over>>
  PROVE  GateInv'
<1>1. GateTypeOK /\ \A r \in Requests : RequestInv(r)
  BY DEF GateInv
<1>2. /\ answer' \in [Requests -> Decisions \cup {"none"}]
      /\ \A r \in Requests : /\ r \in pending => answer'[r] # "none"
                             /\ r \notin pending => answer'[r] = answer[r]
  BY <1>1 DEF Release, GateTypeOK, Decisions
<1>3. \A r \in pending \cap Requests : answer'[r] \in Said
  BY <1>2 DEF Said
<1>4. cards' = Announced(pending, answer') /\ pending' = {}
  BY DEF Release
<1>5. /\ cards' \in [Requests -> Seq(Said)]
      /\ over => cards' = cards
      /\ \A r \in Requests : r \notin pending => cards'[r] = cards[r]
      /\ \A r \in Requests : r \in pending /\ ~over =>
           Len(cards'[r]) = Len(cards[r]) + 1 /\ cards'[r][Len(cards[r]) + 1] = answer'[r]
  <2> DEFINE said == answer'
  <2>1. \A r \in pending \cap Requests : said[r] \in Said
    BY <1>3
  <2>2. cards' = Announced(pending, said)
    BY <1>4
  <2> HIDE DEF said
  <2>3. /\ cards' \in [Requests -> Seq(Said)]
        /\ over => cards' = cards
        /\ \A r \in Requests : r \notin pending => cards'[r] = cards[r]
        /\ \A r \in Requests : r \in pending /\ ~over =>
             Len(cards'[r]) = Len(cards[r]) + 1 /\ cards'[r][Len(cards[r]) + 1] = said[r]
    BY <1>1, <2>1, <2>2, AnnouncedIs
  <2> QED BY <2>3 DEF said
<1>6. GateTypeOK'
  BY <1>1, <1>2, <1>4, <1>5 DEF GateTypeOK
<1>7. ASSUME NEW r \in Requests PROVE RequestInv(r)'
  <2>0. RequestInv(r) /\ posts' = posts /\ over' = over /\ pending' = {}
    BY <1>1, <1>4
  <2>1. CASE r \notin pending
    BY <1>2, <1>5, <2>0, <2>1 DEF RequestInv, Unasked, Releasable, Parked, Open, Resolved
  <2>2. CASE r \in pending /\ over
    BY <1>5, <2>0, <2>2 DEF RequestInv, Unasked, Releasable, Parked, Open, Resolved
  <2>3. CASE r \in pending /\ ~over
    <3>1. Len(cards[r]) = 1 /\ posts[r].pc \in {"parked", "cut"}
      BY <2>0, <2>3 DEF RequestInv, Releasable
    <3>2. Len(cards'[r]) = Len(cards[r]) + 1 /\ cards'[r][Len(cards[r]) + 1] = answer'[r]
      BY <1>5, <2>3
    <3>3. Len(cards'[r]) = 2 /\ cards'[r][2] = answer'[r] /\ answer'[r] # "none"
      BY <1>2, <2>3, <3>1, <3>2
    <3> QED BY <2>0, <3>1, <3>3 DEF RequestInv, Unasked, Releasable, Parked, Open, Resolved
  <2> QED BY <2>1, <2>2, <2>3
<1> QED BY <1>6, <1>7 DEF GateInv

\* The gate's invariant holds of every behaviour of the session.
THEOREM GateInvariant == CmdSafe => []GateInv
<1>1. CmdInit => GateInv
  BY DEF CmdInit, GateInit, GateInv, GateTypeOK, RequestInv, Unasked, Releasable, Parked, Open,
         Resolved, Decisions
<1>2. ASSUME GateInv, [CmdNext]_vars PROVE GateInv'
  <2>1. CASE GateNext
    BY <1>2, <2>1, OnePost, QuietPost, WakeKeeps DEF GateNext, Decisions
  <2>2. CASE \E r \in Requests : Post(r)
    BY <1>2, <2>2, OnePost
  <2>3. CASE Release /\ UNCHANGED <<posts, over>>
    BY <1>2, <2>3, ReleaseKeeps
  <2>4. CASE over' = TRUE /\ UNCHANGED <<posts, pending, answer, cards>>
    BY <1>2, <2>4 DEF GateInv, GateTypeOK, RequestInv, Unasked, Releasable, Parked, Open, Resolved
  <2>5. CASE UNCHANGED gateVars
    BY <1>2, <2>5
       DEF gateVars, GateInv, GateTypeOK, RequestInv, Unasked, Releasable, Parked, Open, Resolved
  <2> QED BY <1>2, <2>1, <2>2, <2>3, <2>4, <2>5, GateSteps
<1> QED BY <1>1, <1>2, PTL DEF CmdSafe

\* However many posts there are and in whatever order an answer, a release and
\* the waking fiber come, the event stream resolves an approval at most once
\* (approvalGate.ts open, resolve, releasePending).
THEOREM ResolvedAtMostOnce == CmdSafe => []ResolvedOnce
<1>1. GateInv => ResolvedOnce
  BY DEF GateInv, RequestInv, Resolved, ResolvedOnce, Requests
<1> QED BY <1>1, GateInvariant, PTL

\* The decision announced for an approval is the one that stands in its
\* Deferred and the one its tool was told (approvalGate.ts, hookAnswers.ts).
THEOREM OneVerdict == CmdSafe => []VerdictStands
<1>1. GateInv => VerdictStands
  BY DEF GateInv, RequestInv, Resolved, VerdictStands, Requests
<1> QED BY <1>1, GateInvariant, PTL

\* While the stream is open, every card on show is in the map that
\* releasePending answers, also when its post was cut (approvalGate.ts).
THEOREM OpenCardsReleasable == CmdSafe => []CardsReachable
<1>1. GateInv => CardsReachable
  BY DEF GateInv, RequestInv, Open, CardsReachable
<1> QED BY <1>1, GateInvariant, PTL
=============================================================================
