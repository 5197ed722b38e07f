----------------------------- MODULE Supervisor -----------------------------
(***************************************************************************)
(* The session supervisor (SessionSupervisor.ts): the fiber that takes     *)
(* `crashed` reports one at a time ("live") and the loop the boot scan     *)
(* forks ("boot").  Both run resumeLoop:                                   *)
(*   check     the document and the drivers are read afresh                *)
(*   ensure    waiting for the attach mutex                                *)
(*   attach    the session is being started                                *)
(*   lost      the attempts ran out                                        *)
(***************************************************************************)
EXTENDS CommandReactor

\* The crash notice it writes first is not fatal and changes no document.
TakeCrash ==
  /\ loops["live"].pc = "idle" /\ crashes > 0
  /\ crashes' = crashes - 1
  /\ loops' = [loops EXCEPT !["live"] = [pc |-> "check", attempt |-> 0]]
  /\ UNCHANGED <<vars, mailbox, reactor, sessions, driver, attaching, faults>>

WorthResuming(d) ==
  Live(d) /\ d.status # "archived" /\ d.session # NoSession /\ HandleFor = 0

CheckResume(f) ==
  /\ loops[f].pc = "check"
  /\ loops' = [loops EXCEPT ![f] = IF WorthResuming(doc) THEN [@ EXCEPT !.pc = "ensure"] ELSE Idling]
  /\ UNCHANGED <<vars, mailbox, reactor, sessions, driver, attaching, crashes, faults>>

\* Mutant: the attempts run out and nobody is told.
GiveUpQuietly(f) ==
  /\ loops[f].pc = "lost"
  /\ loops' = [loops EXCEPT ![f] = Idling]
  /\ UNCHANGED <<vars, mailbox, reactor, sessions, driver, attaching, crashes, faults>>

\* The attempts ran out: whatever the document says by now.
GiveUp(f) ==
  /\ loops[f].pc = "lost"
  /\ AppendEvents(<<SessionLost>>)
  /\ loops' = [loops EXCEPT ![f] = Idling]
  /\ UNCHANGED <<reactor, sessions, driver, attaching, crashes, faults>>

\* The boot scan, inline and before any fiber of the new process runs: a
\* thread that shows itself busy with no session has lost it, and one with a
\* session bound is resumed.
BootScan ==
  /\ IF Live(doc) /\ doc.status \in {"running", "waiting"} /\ doc.session = NoSession
     THEN /\ AppendThreadEvents(Thread, <<SessionLost>>)
          /\ UNCHANGED requests
     ELSE UNCHANGED vars
  /\ loops' = [live |-> Idling,
               boot |-> IF Live(doc) /\ doc.status # "archived" /\ doc.session # NoSession
                        THEN [pc |-> "check", attempt |-> 0] ELSE Idling]
=============================================================================
