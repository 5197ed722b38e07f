------------------------------- MODULE Engine -------------------------------
(***************************************************************************)
(* The orchestration engine (orchestration/Engine.ts): one writer, every   *)
(* command decided on the folded document inside its transaction, and the  *)
(* reactors' and connectors' events appended behind the same mutex.        *)
(*                                                                         *)
(* The callers are an open environment: any command may arrive at any      *)
(* time, and a connector or a reactor may append any of its events to any  *)
(* thread.  What holds here is what the engine promises whoever calls it;  *)
(* Orchestration.tla closes the loop with the real callers.  A rejected    *)
(* command and a retried commandId leave the documents alone (a receipt    *)
(* is written, or read back): both are stutters here.                      *)
(***************************************************************************)
EXTENDS Decider, FiniteSets

CONSTANTS
  Threads, Projects,
  ProjectOf,       \* the project of each thread, fixed by thread.create
  WorktreeOf,      \* the worktree path of each thread, or NoWorktree
  FolderOf,        \* the workspace root of each project
  NoWorktree,
  MaxTurns, MaxMessages, MaxRequests   \* bounds on the ids minted per thread

ASSUME EngineAssumption ==
  /\ ProjectOf \in [Threads -> Projects]
  /\ DOMAIN WorktreeOf = Threads
  /\ DOMAIN FolderOf = Projects
  /\ MaxTurns \in Nat /\ MaxMessages \in Nat /\ MaxRequests \in Nat

VARIABLES
  projects,      \* the projects that exist
  docs,          \* thread -> document (the read model, equal to the stream's fold)
  turns,         \* thread -> turn ids minted for it so far
  messages,      \* thread -> queued-message ids minted for it so far
  requests       \* thread -> approval and question ids minted for it so far

vars == <<projects, docs, turns, messages, requests>>

\* A restore bars exactly the threads this relates (workspaceRoot.ts).
SharesWorkspaceRoot(t, u) == ProjectOf[t] = ProjectOf[u] /\ WorktreeOf[t] = WorktreeOf[u]

\* The directory a thread's session and its checkpoints work in.
DirectoryOf(t) == IF WorktreeOf[t] # NoWorktree THEN WorktreeOf[t] ELSE FolderOf[ProjectOf[t]]

RestoreInFlight(t) ==
  \E u \in Threads \ {t} : /\ Live(docs[u])
                           /\ docs[u].restoring # 0
                           /\ SharesWorkspaceRoot(u, t)

Context(t) == [projectExists |-> ProjectOf[t] \in projects,
               restoreInFlight |-> RestoreInFlight(t)]

\* Ids are numbered per thread: nothing ever names another thread's.
Env(t) == [turn |-> turns[t] + 1, message |-> messages[t] + 1]

Commit(t, events) == docs' = [docs EXCEPT ![t] = ApplyAll(@, events)]

\* Ids the decider took from Env(t) for these events are spent.
Spent(counter, t, events, type) ==
  [counter EXCEPT ![t] = IF \E k \in DOMAIN events : events[k].type = type THEN @ + 1 ELSE @]

Minted(t, events) ==
  /\ turns' = Spent(turns, t, events, "thread.turn.requested")
  /\ messages' = Spent(messages, t, events, "thread.message.queued")
  /\ turns'[t] <= MaxTurns /\ messages'[t] <= MaxMessages

Dispatch(t, cmd) ==
  LET result == Decide(cmd, docs[t], Context(t), Env(t))
  IN  /\ result.accepted
      /\ Commit(t, result.events)
      /\ Minted(t, result.events)
      /\ UNCHANGED <<projects, requests>>

\* appendThreadEvents: a no-op on a thread that does not exist.
AppendThreadEvents(t, events) ==
  /\ Live(docs[t])
  /\ Commit(t, events)
  /\ UNCHANGED <<projects, turns, messages>>

----------------------------------------------------------------------------
(* Commands of the clients.                                                *)

CreateProject(p) ==
  /\ p \notin projects
  /\ \A other \in projects : FolderOf[other] # FolderOf[p]
  /\ projects' = projects \cup {p}
  /\ UNCHANGED <<docs, turns, messages, requests>>

RemoveProject(p) ==
  /\ p \in projects
  /\ projects' = projects \ {p}
  /\ UNCHANGED <<docs, turns, messages, requests>>

CreateThread(t) ==
  \E i \in Instances \cup {NoInstance} : Dispatch(t, [type |-> "thread.create", instance |-> i])
ArchiveThread(t) == Dispatch(t, [type |-> "thread.archive"])
UnarchiveThread(t) == Dispatch(t, [type |-> "thread.unarchive"])
DeleteThread(t) == Dispatch(t, [type |-> "thread.delete"])

StartTurn(t) ==
  \E q \in BOOLEAN : Dispatch(t, [type |-> "thread.turn.start", queued |-> q])
SteerTurn(t) == Dispatch(t, [type |-> "thread.turn.steer"])
InterruptTurn(t) == Dispatch(t, [type |-> "thread.turn.interrupt"])

UpdateSettings(t) ==
  \E i \in Instances \cup {NoInstance} :
    Dispatch(t, [type |-> "thread.settings.update", instance |-> i])

RespondApproval(t) ==
  \E r \in 1..requests[t] : Dispatch(t, [type |-> "thread.approval.respond", request |-> r])
RespondInput(t) ==
  \E r \in 1..requests[t] : Dispatch(t, [type |-> "thread.userInput.respond", request |-> r])
RespondPlan(t) ==
  \E m \in 1..turns[t] : Dispatch(t, [type |-> "thread.plan.respond", turn |-> m])

RemoveQueued(t) ==
  \E q \in 1..messages[t] : Dispatch(t, [type |-> "thread.queue.remove", message |-> q])
ReorderQueue(t) ==
  \E q \in 1..messages[t], to \in 1..messages[t] :
    Dispatch(t, [type |-> "thread.queue.reorder", message |-> q, to |-> to])

RestoreCheckpoint(t) ==
  \E m \in 1..turns[t] : Dispatch(t, [type |-> "thread.checkpoint.restore", turn |-> m])

----------------------------------------------------------------------------
(* Events of the sessions (RuntimeIngestion) and of the reactors.          *)

SessionEvent(t) ==
  /\ requests' = requests
  /\ \/ \E i \in Instances, s \in Steering : AppendThreadEvents(t, <<SessionBound(i, s)>>)
     \/ \E m \in 1..turns[t] : AppendThreadEvents(t, <<TurnStarted(m)>>)
     \/ \E m \in 1..turns[t] : AppendThreadEvents(t, <<TurnCompleted(m)>>)
     \/ \E m \in 1..turns[t] : AppendThreadEvents(t, <<PlanProposed(m)>>)
     \/ \E fatal \in BOOLEAN : AppendThreadEvents(t, <<ThreadError(fatal)>>)

\* Requests carry fresh ids; the connector resolves what it opened.
RequestEvent(t) ==
  \/ /\ requests[t] < MaxRequests
     /\ requests' = [requests EXCEPT ![t] = @ + 1]
     /\ \/ AppendThreadEvents(t, <<ApprovalOpened(requests[t] + 1)>>)
        \/ AppendThreadEvents(t, <<InputRequested(requests[t] + 1)>>)
  \/ /\ requests' = requests
     /\ \E r \in 1..requests[t] :
          \/ AppendThreadEvents(t, <<ApprovalResolved(r, "connector")>>)
          \/ AppendThreadEvents(t, <<InputResolved(r, "connector")>>)

\* Supervisor, command reactor and checkpoint reactor.
ReactorEvent(t) ==
  /\ requests' = requests
  /\ \/ AppendThreadEvents(t, <<SessionLost>>)
     \/ \E m \in 1..turns[t] : AppendThreadEvents(t, <<ThreadError(TRUE), TurnCompleted(m)>>)
     \/ \E m \in 1..turns[t] : AppendThreadEvents(t, <<CheckpointCreated(m)>>)
     \/ \E ok \in BOOLEAN : AppendThreadEvents(t, <<RestoreSettled(ok)>>)

\* The drain's append: chosen on the document as it is at append time.
DrainHead(t) ==
  /\ docs[t].status # "archived" /\ docs[t].turn = 0 /\ docs[t].queue # <<>>
  /\ requests' = requests
  /\ AppendThreadEvents(t, <<Dequeued(Head(docs[t].queue))>>)

\* A message a reactor took is put back when its turn is refused.
Requeue(t) ==
  /\ requests' = requests
  /\ \E q \in 1..messages[t] :
       /\ \A k \in DOMAIN docs[t].queue : docs[t].queue[k] # q
       /\ AppendThreadEvents(t, <<Queued(q)>>)

\* A steered message that missed its turn joins the queue under a fresh id.
QueueSteered(t) ==
  /\ Live(docs[t]) /\ messages[t] < MaxMessages
  /\ messages' = [messages EXCEPT ![t] = @ + 1]
  /\ Commit(t, <<Queued(messages[t] + 1)>>)
  /\ UNCHANGED <<projects, turns, requests>>

----------------------------------------------------------------------------
Init ==
  /\ projects = {}
  /\ docs = [t \in Threads |-> NoDoc]
  /\ turns = [t \in Threads |-> 0]
  /\ messages = [t \in Threads |-> 0]
  /\ requests = [t \in Threads |-> 0]

ClientStep(t) ==
  \/ CreateThread(t) \/ ArchiveThread(t) \/ UnarchiveThread(t) \/ DeleteThread(t)
  \/ StartTurn(t) \/ SteerTurn(t) \/ InterruptTurn(t) \/ UpdateSettings(t)
  \/ RespondApproval(t) \/ RespondInput(t) \/ RespondPlan(t)
  \/ RemoveQueued(t) \/ ReorderQueue(t) \/ RestoreCheckpoint(t)

ServerStep(t) ==
  \/ SessionEvent(t) \/ RequestEvent(t) \/ ReactorEvent(t)
  \/ DrainHead(t) \/ Requeue(t) \/ QueueSteered(t)

Next ==
  \/ \E p \in Projects : CreateProject(p) \/ RemoveProject(p)
  \/ \E t \in Threads : ClientStep(t) \/ ServerStep(t)

Spec == Init /\ [][Next]_vars
=============================================================================
