---------------------------- MODULE Orchestration ---------------------------
(***************************************************************************)
(* One thread's turns end to end: the clients' commands, the command       *)
(* reactor, the sessions and the supervisor, each on its own fiber, and    *)
(* the server process that may be killed under all of them.                *)
(***************************************************************************)
EXTENDS Supervisor

others == <<reactor, sessions, driver, attaching, loops, crashes, faults>>

----------------------------------------------------------------------------
(* Clients.  They may act whenever the reactor is less than MaxMailbox     *)
(* events behind.                                                          *)

Command(cmd) ==
  /\ Len(mailbox) < MaxMailbox
  /\ Dispatch(Thread, cmd)
  /\ Publish(Decided(cmd).events)
  /\ UNCHANGED others

\* Prompts that may still need a turn of their own.
Unsent ==
  Len(doc.queue) + Cardinality({k \in DOMAIN mailbox : mailbox[k].type = "thread.turn.steered"})
    + (IF reactor.pc \in {"dispatch", "requeueSteer", "requeue"} THEN 1 ELSE 0)

\* A client leaves the ids that the prompts already made may still take.
Prompt(cmd) ==
  /\ turns[Thread] + Unsent < MaxTurns /\ messages[Thread] + Unsent + 1 < MaxMessages
  /\ Command(cmd)

OpenProject == CreateProject(ProjectOf[Thread]) /\ UNCHANGED serverVars
\* A client mints the id, so a deleted thread is never created again.
OpenThread == doc.life = "none" /\ Command([type |-> "thread.create", instance |-> Instance])
Prompted == \E q \in BOOLEAN : Prompt([type |-> "thread.turn.start", queued |-> q])
Steer == Prompt([type |-> "thread.turn.steer"])
Interrupt == Command([type |-> "thread.turn.interrupt"])
Unqueue == \E q \in 1..messages[Thread] : Command([type |-> "thread.queue.remove", message |-> q])
Archive == Command([type |-> "thread.archive"])
Unarchive == Command([type |-> "thread.unarchive"])
Delete == Command([type |-> "thread.delete"])

----------------------------------------------------------------------------
(* The server is killed and started again: only the log survives.          *)

Restart ==
  /\ Fault("kill")
  /\ mailbox' = <<>>
  /\ reactor' = Resting
  /\ sessions' = [s \in Slots |-> Free]
  /\ driver' = 0
  /\ attaching' = "nobody"
  /\ crashes' = 0
  /\ BootScan

----------------------------------------------------------------------------
InitServer ==
  /\ mailbox = <<>>
  /\ reactor = Resting
  /\ sessions = [s \in Slots |-> Free]
  /\ driver = 0
  /\ attaching = "nobody"
  /\ loops = [f \in Loops |-> Idling]
  /\ crashes = 0
  /\ faults = 0

ClientActs ==
  \/ OpenProject \/ OpenThread \/ Prompted \/ Steer \/ Interrupt \/ Unqueue
  \/ Archive \/ Unarchive \/ Delete

HarnessActs(s) == HarnessCompletes(s) \/ HarnessFails(s)

IngestionStep(s) == Ingest(s) \/ IngestAppend(s) \/ IngestEnds(s)

ReactorStep ==
  \/ ReactToRequest \/ ReactToBound \/ ReactToSteer \/ ReactToInterrupt
  \/ ReactToCompletion \/ ReactToClose
  \/ Ensure("reactor") \/ Attach("reactor") \/ AttachFailed("reactor")
  \/ SendTaken \/ SendDuplicate \/ SendBarred \/ Delivers \/ Refuses \/ FailThread \/ Released \/ SettleInterrupted
  \/ Drain \/ DispatchHeld \/ RequeueHeld
  \/ CloseSession \/ Closed \/ CloseTimesOut

LoopStep(f) ==
  CheckResume(f) \/ Ensure(f) \/ Attach(f) \/ AttachFailed(f) \/ GiveUp(f)

OrchestrationInit == Init /\ InitServer

OrchestrationNext ==
  \/ ClientActs
  \/ \E s \in Slots : HarnessActs(s) \/ IngestionStep(s)
  \/ ReactorStep
  \/ TakeCrash \/ \E f \in Loops : LoopStep(f)
  \/ Restart

OrchestrationSafe == OrchestrationInit /\ [][OrchestrationNext]_allVars

\* Every fiber that can run does, and a harness finishes the turn it works on.
Fairness ==
  /\ WF_allVars(ReactorStep)
  /\ WF_allVars(TakeCrash)
  /\ \A f \in Loops : WF_allVars(LoopStep(f))
  /\ \A s \in Slots : WF_allVars(IngestionStep(s)) /\ WF_allVars(HarnessCompletes(s))

OrchestrationSpec == OrchestrationSafe /\ Fairness
=============================================================================
