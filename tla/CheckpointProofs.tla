-------------------------- MODULE CheckpointProofs --------------------------
(***************************************************************************)
(* Proofs about CheckpointReactor.tla, for every value of its constants:   *)
(* the restore mutex does what it is for, and the reactor implements the   *)
(* engine, so that what EngineProofs.tla proves holds under it as well.    *)
(* The first invariant, CInv, knows three things: the engine's own         *)
(* invariant, that no turn id is used before it was minted (a document's,  *)
(* a published event's and a capture's), and which fiber is inside the     *)
(* mutex.  The second, OrdersInv, follows an order through all who hold    *)
(* it - the subscription, the boot's list, a fiber at the lock or inside   *)
(* the mutex - and ties each to the log: an order on a live thread that no *)
(* one has acted on is still the log's last word on its thread.  The       *)
(* third, RefsInv, keeps a prune to come for every deleted thread that has *)
(* refs, or is being captured.                                             *)
(***************************************************************************)
EXTENDS CheckpointProps, EngineProofs

JobFields == {"pc", "thread", "turn", "id", "ok"}

\* A turn id of a thread that has been minted.
Minting(t, m) == t \in Threads /\ m \in 1..turns[t]

TurnsKnown ==
  /\ turns \in [Threads -> Nat]
  /\ \A t \in Threads : docs[t].turn # 0 => docs[t].turn \in 1..turns[t]

EventKnown(e) == e.type = "turn.completed" => Minting(e.thread, e.turn)
MailKnown ==
  /\ \E S : mailbox \in Seq(S)
  /\ \A k \in 1..Len(mailbox) : EventKnown(mailbox[k])

JobKnown(job) ==
  /\ job = [x \in JobFields |-> job[x]]
  /\ job.pc \in {"capture", "created"} => Minting(job.thread, job.turn)

Inside(job) == job.pc \in {"restore", "rewriting", "settle"}

FibersKnown ==
  /\ fibers = [f \in Fibers |-> fibers[f]]
  /\ \A f \in Fibers : JobKnown(fibers[f])
  /\ \A f, g \in Fibers : Inside(fibers[f]) /\ Inside(fibers[g]) => f = g

CInv == IInv /\ TurnsKnown /\ MailKnown /\ FibersKnown

----------------------------------------------------------------------------
(* Turn ids: what a commit does to them.                                   *)

\* A decided command names no turn but the document's and the one it mints.
LEMMA DecidedTurns ==
  ASSUME IInv, TurnsKnown, NEW t \in Threads, NEW events, DecidedStep(t, events)
  PROVE  TurnsKnown' /\ \A u \in Threads : turns[u] <= turns'[u]
<1> DEFINE d == docs[t]
           c == ApplyAll(d, events)
<1>1. /\ docs' = [docs EXCEPT ![t] = c] /\ docs = [u \in Threads |-> docs[u]]
      /\ turns' = Spent(turns, t, events, "thread.turn.requested")
      /\ DecidedOK(d, Context(t), Env(t), events)
  BY DEF DecidedStep, IInv
<1>2. /\ turns' \in [Threads -> Nat] /\ turns'[t] \in {turns[t], turns[t] + 1}
      /\ \A u \in Threads \ {t} : turns'[u] = turns[u]
  BY <1>1 DEF TurnsKnown, Spent
<1>3. DocInv(d)
  BY DEF IInv
<1>4. c.turn \in {0, d.turn} \/ c.turn = turns'[t]
  <2>1. CASE events = <<>>
    BY <2>1, ApplyNone
  <2>2. CASE events = NewTurn(Env(t)) /\ ~TurnBarred(d, Context(t)) /\ d.turn = 0
    <3> DEFINE e == TurnRequested(turns[t] + 1)
               f == UserRow(turns[t] + 1)
    <3>1. events = <<e, f>> /\ e.type = "thread.turn.requested"
      BY <2>2 DEF NewTurn, Env, TurnRequested
    <3>2. turns'[t] = turns[t] + 1
      BY <1>1, <3>1 DEF Spent, TurnsKnown
    <3>3. c = Apply(Apply(d, e), f)
      BY <3>1, ApplyTwo
    <3>4. EventOK(d, e) /\ e.turn = turns[t] + 1
      BY <1>1, <2>2 DEF EventOK, TurnRequested, AllEvents, TurnEvents, TurnBarred, TurnsKnown
    <3>5. EventOK(Apply(d, e), f) /\ f.type = "thread.item.upserted"
      BY DEF EventOK, UserRow, AllEvents
    <3> HIDE DEF e, f
    <3>6. FoldStep(d, e, Apply(d, e))
      BY <1>3, <3>4, ApplyKeeps
    <3>7. FoldStep(Apply(d, e), f, Apply(Apply(d, e), f))
      BY <3>5, <3>6, ApplyKeeps DEF FoldStep
    <3> QED BY <3>2, <3>3, <3>4, <3>5, <3>6, <3>7 DEF FoldStep
  <2>3. CASE events = <<TurnSteered(d.turn), UserRow(d.turn)>>
    <3> DEFINE e == TurnSteered(d.turn)
               f == UserRow(d.turn)
    <3>1. events = <<e, f>> /\ c = Apply(Apply(d, e), f)
      BY <2>3, ApplyTwo
    <3>2. EventOK(d, e) /\ e.type = "thread.turn.steered"
      BY DEF EventOK, TurnSteered, AllEvents, TurnEvents
    <3>3. EventOK(Apply(d, e), f) /\ f.type = "thread.item.upserted"
      BY DEF EventOK, UserRow, AllEvents
    <3> HIDE DEF e, f
    <3>4. FoldStep(d, e, Apply(d, e))
      BY <1>3, <3>2, ApplyKeeps
    <3>5. FoldStep(Apply(d, e), f, Apply(Apply(d, e), f))
      BY <3>3, <3>4, ApplyKeeps DEF FoldStep
    <3> QED BY <3>1, <3>2, <3>3, <3>4, <3>5 DEF FoldStep
  <2>4. ASSUME NEW e, events = <<e>>, EventOK(d, e), e.type # "thread.turn.requested"
        PROVE  c.turn \in {0, d.turn}
    <3>1. c = Apply(d, e)
      BY <2>4, ApplyOne
    <3> QED BY <1>3, <2>4, <3>1, ApplyKeeps DEF FoldStep
  <2> QED BY <1>1, <2>1, <2>2, <2>3, <2>4 DEF DecidedOK
<1>5. TurnsKnown'
  <2>1. ASSUME NEW u \in Threads, docs'[u].turn # 0 PROVE docs'[u].turn \in 1..turns'[u]
    <3>1. CASE u = t
      BY <1>1, <1>2, <1>4, <2>1, <3>1 DEF TurnsKnown
    <3>2. CASE u # t
      BY <1>1, <1>2, <2>1, <3>2 DEF TurnsKnown
    <3> QED BY <3>1, <3>2
  <2> QED BY <1>2, <2>1 DEF TurnsKnown
<1> QED BY <1>2, <1>5 DEF TurnsKnown

\* The events the reactor and its callers append.
CheckpointEvent(t) ==
  /\ requests' = requests
  /\ \/ \E m \in 1..turns[t] : AppendThreadEvents(t, <<TurnCompleted(m)>>)
     \/ \E m \in 1..turns[t] : AppendThreadEvents(t, <<CheckpointCreated(m)>>)
     \/ \E ok \in BOOLEAN : AppendThreadEvents(t, <<RestoreSettled(ok)>>)

EngineStep ==
  \/ UNCHANGED vars
  \/ \E p \in Projects : CreateProject(p) \/ RemoveProject(p)
  \/ \E t \in Threads : ClientStep(t) \/ CheckpointEvent(t)

\* None of them names a turn the document does not.
LEMMA AppendedTurns ==
  ASSUME IInv, TurnsKnown, NEW t \in Threads, CheckpointEvent(t)
  PROVE  TurnsKnown' /\ \A u \in Threads : turns[u] <= turns'[u]
<1>1. PICK e : /\ AppendThreadEvents(t, <<e>>)
               /\ e.type \in {"thread.turn.completed", "thread.checkpoint.created",
                              "thread.checkpoint.restored", "thread.checkpoint.restore.failed"}
  <2>1. ASSUME NEW m PROVE /\ TurnCompleted(m).type = "thread.turn.completed"
                           /\ CheckpointCreated(m).type = "thread.checkpoint.created"
    BY DEF TurnCompleted, CheckpointCreated
  <2>2. ASSUME NEW ok PROVE RestoreSettled(ok).type \in {"thread.checkpoint.restored",
                                                         "thread.checkpoint.restore.failed"}
    BY DEF RestoreSettled
  <2> QED BY <2>1, <2>2 DEF CheckpointEvent
<1>2. docs' = [docs EXCEPT ![t] = Apply(docs[t], e)] /\ turns' = turns
  BY <1>1, ApplyOne DEF AppendThreadEvents, Commit
<1>3. EventOK(docs[t], e) /\ e.type # "thread.turn.requested"
  BY <1>1, FreeEvent DEF AllEvents, TurnEvents, RestoreEvents
<1>4. Apply(docs[t], e).turn \in {0, docs[t].turn}
  BY <1>3, ApplyKeeps DEF IInv, FoldStep
<1> QED BY <1>2, <1>4 DEF IInv, TurnsKnown

\* A step of this kind is a step of the engine, and keeps what it knows.
LEMMA EngineStepKeeps ==
  ASSUME IInv, TurnsKnown, EngineStep
  PROVE  [Next]_vars /\ IInv' /\ TurnsKnown' /\ \A u \in Threads : turns[u] <= turns'[u]
<1>1. [Next]_vars
  BY DEF EngineStep, Next, CheckpointEvent, ServerStep, SessionEvent, ReactorEvent
<1>2. IInv'
  <2>1. CASE docs' = docs /\ turns' = turns
    BY <2>1 DEF IInv, OneRestorePerRoot
  <2> QED BY <1>1, <2>1, NextCommits, CommitKeeps
<1>3. TurnsKnown' /\ \A u \in Threads : turns[u] <= turns'[u]
  <2>1. CASE docs' = docs /\ turns' = turns
    BY <2>1 DEF TurnsKnown
  <2>2. CASE \E t \in Threads : ClientStep(t)
    BY <2>2, ClientDecides, DecidedTurns
  <2>3. CASE \E t \in Threads : CheckpointEvent(t)
    BY <2>3, AppendedTurns
  <2> QED BY <2>1, <2>2, <2>3 DEF EngineStep, vars, CreateProject, RemoveProject
<1> QED BY <1>1, <1>2, <1>3

\* What a fiber appends reaches the engine as an event, or no document at all.
LEMMA AppendIfLiveIs ==
  ASSUME IInv, NEW t, NEW e, AppendIfLive(t, <<e>>),
         UNCHANGED <<projects, turns, messages, requests>>
  PROVE  \/ UNCHANGED vars
         \/ t \in Threads /\ AppendThreadEvents(t, <<e>>) /\ requests' = requests
<1>1. CASE t \in Threads /\ Live(docs[t])
  BY <1>1 DEF AppendIfLive, AppendThreadEvents
<1>2. CASE t \in Threads /\ ~Live(docs[t])
  <2>1. docs' = [docs EXCEPT ![t] = docs[t]]
    BY <1>2, ApplyNone DEF AppendIfLive, Commit
  <2> QED BY <2>1 DEF IInv, vars
<1>3. CASE t \notin Threads
  <2>1. docs' = docs
    BY <1>3 DEF AppendIfLive, Commit, IInv
  <2> QED BY <2>1 DEF vars
<1> QED BY <1>1, <1>2, <1>3

\* Every step of the reactor, of its callers and of a kill is one of these.
LEMMA StepsOfTheEngine ==
  ASSUME CInv, [CheckpointNext]_cvars
  PROVE  EngineStep
<1>1. CASE UNCHANGED cvars
  BY <1>1 DEF cvars, vars, EngineStep
<1>2. CASE \E t \in Threads : ClientStepOf(t)
  BY <1>2 DEF ClientStepOf, ClientWorks, ClientDeletes, ClientRestores, ClientStep, EngineStep
<1>3. ASSUME NEW t \in Threads, TurnEnds(t) PROVE EngineStep
  <2>1. docs[t].turn \in 1..turns[t] /\ requests' = requests
        /\ AppendThreadEvents(t, <<TurnCompleted(docs[t].turn)>>)
    BY <1>3 DEF TurnEnds, CInv, TurnsKnown
  <2> QED BY <2>1 DEF CheckpointEvent, EngineStep
<1>4. CASE \E p \in Projects : ClientCreates(p) \/ ClientRemoves(p)
  BY <1>4 DEF ClientCreates, ClientRemoves, EngineStep
<1>5. CASE LiveTakes \/ CaptureGit \/ ReplayNext \/ Kill \/ Boot
  BY <1>5 DEF LiveTakes, CaptureGit, ReplayNext, Kill, Boot, EngineStep
<1>6. CASE \E f \in Fibers : EnterRestore(f) \/ GitRestore(f) \/ GitEnds(f) \/ SettleFails(f)
  BY <1>6 DEF EnterRestore, GitRestore, GitEnds, SettleFails, EngineStep
<1>7. ASSUME NEW f \in Fibers, Settle(f) PROVE EngineStep
  <2> DEFINE job == fibers[f]
             ok == IF job.ok THEN TRUE ELSE FALSE
  <2>1. RestoreSettled(job.ok) = RestoreSettled(ok) /\ ok \in BOOLEAN
    BY DEF RestoreSettled
  <2>2. \/ UNCHANGED vars
        \/ /\ job.thread \in Threads /\ requests' = requests
           /\ AppendThreadEvents(job.thread, <<RestoreSettled(ok)>>)
    BY <1>7, <2>1, AppendIfLiveIs DEF Settle, CInv
  <2> HIDE DEF ok, job
  <2> QED BY <2>1, <2>2 DEF CheckpointEvent, EngineStep
<1>8. CASE CaptureCreated
  <2> DEFINE job == fibers["live"]
  <2>1. job.turn \in 1..turns[job.thread]
    BY <1>8 DEF CaptureCreated, CInv, FibersKnown, JobKnown, Minting, Fibers
  <2>2. \/ UNCHANGED vars
        \/ /\ job.thread \in Threads /\ requests' = requests
           /\ AppendThreadEvents(job.thread, <<CheckpointCreated(job.turn)>>)
    BY <1>8, AppendIfLiveIs DEF CaptureCreated, CInv
  <2> HIDE DEF job
  <2> QED BY <2>1, <2>2 DEF CheckpointEvent, EngineStep
<1> QED
  BY <1>1, <1>2, <1>3, <1>4, <1>5, <1>6, <1>7, <1>8
     DEF CheckpointNext, LiveStep, ReplayStep, RestoreStepOf, Fibers

----------------------------------------------------------------------------
(* The subscription and the fibers.                                        *)

\* One more event.
LEMMA MoreMail ==
  ASSUME NEW S, NEW s \in Seq(S), NEW e
  PROVE  /\ Append(s, e) \in Seq(S \cup {e})
         /\ \A k \in 1..Len(Append(s, e)) :
              \/ Append(s, e)[k] = e
              \/ k \in 1..Len(s) /\ Append(s, e)[k] = s[k]
<1>1. s \in Seq(S \cup {e}) /\ Len(s) \in Nat
  OBVIOUS
<1>2. Append(s, e) \in Seq(S \cup {e}) /\ Len(Append(s, e)) = Len(s) + 1
  BY <1>1
<1>3. Append(s, e)[Len(s) + 1] = e /\ \A k \in 1..Len(s) : Append(s, e)[k] = s[k]
  BY <1>1
<1>4. \A k \in 1..(Len(s) + 1) : k \in 1..Len(s) \/ k = Len(s) + 1
  BY <1>1
<1> QED BY <1>2, <1>3, <1>4

\* One event fewer.
LEMMA LessMail ==
  ASSUME NEW S, NEW s \in Seq(S), s # <<>>
  PROVE  /\ Head(s) = s[1] /\ 1 \in 1..Len(s)
         /\ Tail(s) \in Seq(S)
         /\ \A k \in 1..Len(Tail(s)) : k + 1 \in 1..Len(s) /\ Tail(s)[k] = s[k + 1]
OBVIOUS

\* What the steps do to the subscription.
LEMMA MailSteps ==
  ASSUME CInv, [CheckpointNext]_cvars
  PROVE  \/ mailbox' = mailbox
         \/ mailbox' = <<>>
         \/ mailbox # <<>> /\ mailbox' = Tail(mailbox)
         \/ \E e : EventKnown(e) /\ mailbox' = Append(mailbox, e)
<1>1. CASE UNCHANGED cvars
  BY <1>1 DEF cvars
<1>2. ASSUME NEW t \in Threads, ClientStepOf(t)
      PROVE  mailbox' = mailbox \/ \E e : EventKnown(e) /\ mailbox' = Append(mailbox, e)
  <2>1. CASE ClientWorks(t)
    BY <2>1 DEF ClientWorks
  <2>2. CASE ClientDeletes(t)
    <3>1. EventKnown([type |-> "thread.deleted", thread |-> t])
      BY DEF EventKnown
    <3> QED BY <2>2, <3>1 DEF ClientDeletes, Publish
  <2>3. CASE ClientRestores(t)
    <3>1. \A m, n : EventKnown(Entry("restore.requested", t, m, n))
      BY DEF EventKnown, Entry
    <3> QED BY <2>3, <3>1 DEF ClientRestores, Publish
  <2> QED BY <1>2, <2>1, <2>2, <2>3 DEF ClientStepOf
<1>3. ASSUME NEW t \in Threads, TurnEnds(t)
      PROVE  \E e : EventKnown(e) /\ mailbox' = Append(mailbox, e)
  <2>1. EventKnown([type |-> "turn.completed", thread |-> t, turn |-> docs[t].turn])
    BY <1>3 DEF TurnEnds, CInv, TurnsKnown, EventKnown, Minting
  <2> QED BY <1>3, <2>1 DEF TurnEnds, Publish
<1>4. ASSUME NEW p \in Projects, ClientCreates(p) \/ ClientRemoves(p)
      PROVE  mailbox' = mailbox \/ \E e : EventKnown(e) /\ mailbox' = Append(mailbox, e)
  <2>1. EventKnown([type |-> "project.removed", project |-> p])
    BY DEF EventKnown
  <2> QED BY <1>4, <2>1 DEF ClientCreates, ClientRemoves, Publish
<1>5. CASE LiveTakes
  BY <1>5 DEF LiveTakes
<1>6. CASE CaptureGit \/ CaptureCreated \/ ReplayNext \/ Kill \/ Boot
  BY <1>6 DEF CaptureGit, CaptureCreated, ReplayNext, Kill, Boot
<1>7. CASE \E f \in Fibers : RestoreStepOf(f) \/ SettleFails(f)
  BY <1>7 DEF RestoreStepOf, EnterRestore, GitRestore, GitEnds, Settle, SettleFails
<1> QED
  BY <1>1, <1>2, <1>3, <1>4, <1>5, <1>6, <1>7 DEF CheckpointNext, LiveStep, ReplayStep, Fibers

\* What was minted stays minted.
LEMMA MintedStays ==
  ASSUME TurnsKnown, TurnsKnown', \A u \in Threads : turns[u] <= turns'[u]
  PROVE  \A t, m : Minting(t, m) => Minting(t, m)'
BY DEF Minting, TurnsKnown

\* What was published of a turn names a minted one.
LEMMA MailKeeps ==
  ASSUME CInv, [CheckpointNext]_cvars, \A t, m : Minting(t, m) => Minting(t, m)'
  PROVE  MailKnown'
<1>1. PICK S : mailbox \in Seq(S)
  BY DEF CInv, MailKnown
<1>2. \A k \in 1..Len(mailbox) : EventKnown(mailbox[k])
  BY DEF CInv, MailKnown
<1>3. \A e : EventKnown(e) => EventKnown(e)'
  BY DEF EventKnown
<1>4. CASE mailbox' = mailbox
  BY <1>1, <1>2, <1>3, <1>4 DEF MailKnown
<1>5. CASE mailbox' = <<>>
  BY <1>5 DEF MailKnown
<1>6. CASE mailbox # <<>> /\ mailbox' = Tail(mailbox)
  BY <1>1, <1>2, <1>3, <1>6, LessMail DEF MailKnown
<1>7. ASSUME NEW e, EventKnown(e), mailbox' = Append(mailbox, e) PROVE MailKnown'
  <2>1. /\ Append(mailbox, e) \in Seq(S \cup {e})
        /\ \A k \in 1..Len(Append(mailbox, e)) :
             \/ Append(mailbox, e)[k] = e
             \/ k \in 1..Len(mailbox) /\ Append(mailbox, e)[k] = mailbox[k]
    BY <1>1, MoreMail
  <2>2. \A k \in 1..Len(mailbox') : EventKnown(mailbox'[k])
    BY <1>2, <1>7, <2>1
  <2> QED BY <1>3, <1>7, <2>1, <2>2 DEF MailKnown
<1> QED BY <1>4, <1>5, <1>6, <1>7, MailSteps

\* One fiber changes, and it comes inside the mutex only where that is free.
FiberMoves(f, job) ==
  /\ fibers' = [fibers EXCEPT ![f] = job]
  /\ JobKnown(job)
  /\ Inside(job) => Inside(fibers[f]) \/ \A g \in Fibers : ~Inside(fibers[g])

\* What the steps do to the fibers.
LEMMA FiberSteps ==
  ASSUME CInv, [CheckpointNext]_cvars
  PROVE  \/ fibers' = fibers
         \/ fibers' = [f \in Fibers |-> Idle]
         \/ \E f \in Fibers : \E job : FiberMoves(f, job)
<1>0. JobKnown(Idle) /\ ~Inside(Idle)
  BY DEF JobKnown, Idle, JobFields, Inside
<1>1. ASSUME NEW f \in Fibers, NEW pc, pc \notin {"capture", "created"}
      PROVE  LET job == [fibers[f] EXCEPT !.pc = pc] IN JobKnown(job) /\ job.pc = pc
  <2>1. fibers[f] = [x \in JobFields |-> fibers[f][x]]
    BY DEF CInv, FibersKnown, JobKnown
  <2> QED BY <1>1, <2>1 DEF JobKnown, JobFields
<1>2. CASE UNCHANGED cvars
  BY <1>2 DEF cvars
<1>3. CASE \E t \in Threads : ClientStepOf(t) \/ TurnEnds(t)
  BY <1>3 DEF ClientStepOf, ClientWorks, ClientDeletes, ClientRestores, TurnEnds, Reactors
<1>4. CASE \E p \in Projects : ClientCreates(p) \/ ClientRemoves(p)
  BY <1>4 DEF ClientCreates, ClientRemoves, Reactors
<1>5. CASE Kill \/ Boot
  BY <1>5 DEF Kill, Boot
<1>6. CASE ReplayNext
  <2>1. \A order : JobKnown(JobOf(order)) /\ ~Inside(JobOf(order))
    BY DEF JobKnown, JobOf, JobFields, Inside
  <2> QED BY <1>6, <2>1 DEF ReplayNext, Become, FiberMoves, Fibers
<1>7. ASSUME NEW f \in Fibers, EnterRestore(f) PROVE \E job : FiberMoves(f, job)
  <2>1. \A g \in Fibers : ~Inside(fibers[g])
    BY <1>7 DEF EnterRestore, MayEnter, MutexFree, HoldsMutex, Inside
  <2>2. CASE Become(f, Idle)
    BY <1>0, <2>2 DEF Become, FiberMoves
  <2>3. ASSUME NEW pc \in {"restore", "settle"}, GoTo(f, pc) PROVE \E job : FiberMoves(f, job)
    BY <1>1, <2>1, <2>3 DEF GoTo, Become, FiberMoves
  <2> QED BY <1>7, <2>2, <2>3 DEF EnterRestore
<1>8. ASSUME NEW f \in Fibers, GitRestore(f) PROVE \E job : FiberMoves(f, job)
  <2>1. Inside(fibers[f]) /\ \E pc \in {"rewriting", "settle"} : GoTo(f, pc)
    BY <1>8 DEF GitRestore, Inside
  <2> QED BY <1>1, <2>1 DEF GoTo, Become, FiberMoves
<1>9. ASSUME NEW f \in Fibers, GitEnds(f) PROVE \E job : FiberMoves(f, job)
  <2>1. PICK ok \in BOOLEAN : Become(f, [fibers[f] EXCEPT !.pc = "settle", !.ok = ok])
    BY <1>9 DEF GitEnds
  <2>2. Inside(fibers[f]) /\ fibers[f] = [x \in JobFields |-> fibers[f][x]]
    BY <1>9 DEF GitEnds, Rewriting, Inside, CInv, FibersKnown, JobKnown
  <2>3. JobKnown([fibers[f] EXCEPT !.pc = "settle", !.ok = ok])
    BY <2>2 DEF JobKnown, JobFields
  <2> QED BY <2>1, <2>2, <2>3 DEF Become, FiberMoves
<1>10. CASE \E f \in Fibers : Settle(f) \/ SettleFails(f)
  BY <1>0, <1>10 DEF Settle, SettleFails, Become, FiberMoves
<1>11. CASE CaptureCreated
  BY <1>0, <1>11 DEF CaptureCreated, Become, FiberMoves, Fibers
<1>12. CASE CaptureGit
  <2> DEFINE job == [fibers["live"] EXCEPT !.pc = "created"]
  <2>1. /\ "live" \in Fibers /\ fibers["live"].pc = "capture"
        /\ Become("live", job) \/ Become("live", Idle)
    BY <1>12 DEF CaptureGit, GoTo, Fibers
  <2>2. JobKnown(job) /\ ~Inside(job)
    BY <2>1 DEF CInv, FibersKnown, JobKnown, JobFields, Inside
  <2> QED BY <1>0, <2>1, <2>2 DEF Become, FiberMoves
<1>13. CASE LiveTakes
  <2> DEFINE e == Head(mailbox)
             job == [Idle EXCEPT !.pc = "capture", !.thread = e.thread, !.turn = e.turn]
  <2>1. EventKnown(e)
    BY <1>13, LessMail DEF LiveTakes, CInv, MailKnown
  <2>2. e.type = "turn.completed" => JobKnown(job) /\ ~Inside(job)
    BY <2>1 DEF EventKnown, JobKnown, Idle, JobFields, Inside
  <2>3. JobKnown(JobOf(e)) /\ ~Inside(JobOf(e))
    BY DEF JobKnown, JobOf, JobFields, Inside
  <2>4. "live" \in Fibers
    BY DEF Fibers
  <2>5. \/ fibers' = fibers
        \/ Become("live", JobOf(e))
        \/ e.type = "turn.completed" /\ Become("live", job)
    BY <1>13 DEF LiveTakes, TakeRestore, TakeCompletion, TakeDeletion, TakeRemoval
  <2> HIDE DEF job, e
  <2> QED BY <2>2, <2>3, <2>4, <2>5 DEF Become, FiberMoves
<1> QED
  BY <1>2, <1>3, <1>4, <1>5, <1>6, <1>7, <1>8, <1>9, <1>10, <1>11, <1>12, <1>13
     DEF CheckpointNext, LiveStep, ReplayStep, RestoreStepOf, Fibers

\* A capture names a minted turn, and one fiber at most is inside the mutex.
LEMMA FibersKeep ==
  ASSUME CInv, [CheckpointNext]_cvars, \A t, m : Minting(t, m) => Minting(t, m)'
  PROVE  FibersKnown'
<1>1. /\ fibers = [f \in Fibers |-> fibers[f]]
      /\ \A f \in Fibers : JobKnown(fibers[f])
      /\ \A f, g \in Fibers : Inside(fibers[f]) /\ Inside(fibers[g]) => f = g
  BY DEF CInv, FibersKnown
<1>2. \A job : JobKnown(job) => JobKnown(job)'
  BY DEF JobKnown
<1>3. CASE fibers' = fibers
  BY <1>1, <1>2, <1>3 DEF FibersKnown
<1>4. CASE fibers' = [f \in Fibers |-> Idle]
  <2>1. JobKnown(Idle) /\ ~Inside(Idle)
    BY DEF JobKnown, Idle, JobFields, Inside
  <2> QED BY <1>2, <1>4, <2>1 DEF FibersKnown
<1>5. ASSUME NEW f \in Fibers, NEW job, FiberMoves(f, job) PROVE FibersKnown'
  <2>1. /\ fibers' = [g \in Fibers |-> IF g = f THEN job ELSE fibers[g]]
        /\ JobKnown(job)
        /\ Inside(job) => \A g \in Fibers \ {f} : ~Inside(fibers[g])
    BY <1>1, <1>5 DEF FiberMoves
  <2>2. \A g \in Fibers : JobKnown(fibers'[g])
    BY <1>1, <2>1
  <2>3. \A g, h \in Fibers : Inside(fibers'[g]) /\ Inside(fibers'[h]) => g = h
    BY <1>1, <2>1
  <2> QED BY <1>2, <2>1, <2>2, <2>3 DEF FibersKnown
<1> QED BY <1>3, <1>4, <1>5, FiberSteps

----------------------------------------------------------------------------
\* What the reactor knows, it keeps knowing.
THEOREM CheckpointInvariant == CheckpointSafe => []CInv
<1>1. CheckpointInit => CInv
  <2> SUFFICES ASSUME CheckpointInit PROVE CInv
    OBVIOUS
  <2>1. IInv
    BY InitialInv DEF CheckpointInit
  <2>2. TurnsKnown
    BY DEF CheckpointInit, Init, NoDoc, TurnsKnown
  <2>3. MailKnown
    BY DEF CheckpointInit, MailKnown
  <2>4. JobKnown(Idle) /\ ~Inside(Idle)
    BY DEF JobKnown, Idle, JobFields, Inside
  <2>5. FibersKnown
    BY <2>4 DEF CheckpointInit, FibersKnown
  <2> QED BY <2>1, <2>2, <2>3, <2>5 DEF CInv
<1>2. CInv /\ [CheckpointNext]_cvars => CInv'
  <2> SUFFICES ASSUME CInv, [CheckpointNext]_cvars PROVE CInv'
    OBVIOUS
  <2>1. IInv' /\ TurnsKnown' /\ \A u \in Threads : turns[u] <= turns'[u]
    BY StepsOfTheEngine, EngineStepKeeps DEF CInv
  <2>2. \A t, m : Minting(t, m) => Minting(t, m)'
    BY <2>1, MintedStays DEF CInv
  <2> QED BY <2>1, <2>2, MailKeeps, FibersKeep DEF CInv
<1> QED BY <1>1, <1>2, PTL DEF CheckpointSafe

\* Two restores never rewrite one directory at the same time, whatever is
\* deleted, replayed and killed meanwhile (restoreMutex, CheckpointReactor.ts).
THEOREM RestoresExclude == CheckpointSafe => []RestoresDoNotOverlap
<1>1. CInv => RestoresDoNotOverlap
  BY DEF CInv, FibersKnown, RestoresDoNotOverlap, Rewriting, Inside
<1> QED BY <1>1, CheckpointInvariant, PTL

\* The reactor with its callers, its faults and its restarts implements the
\* engine: its steps are the engine's or leave the documents alone.
THEOREM ReactorImplementsEngine == CheckpointSafe => EngineKept
<1>1. CheckpointInit => Init
  BY DEF CheckpointInit
<1>2. CInv /\ [CheckpointNext]_cvars => [Next]_vars
  BY StepsOfTheEngine, EngineStepKeeps DEF CInv
<1> QED BY <1>1, <1>2, CheckpointInvariant, PTL DEF CheckpointSafe, EngineKept, Spec

\* So no thread has a turn in flight while its own restore runs, in a server
\* that is killed and replays its orders too.
THEOREM RestoreExcludesTurnHere == CheckpointSafe => []NoTurnWhileRestoring
BY ReactorImplementsEngine, RestoreExcludesTurn, PTL DEF EngineKept
----------------------------------------------------------------------------
(* The log, and the orders that are still under way.                       *)

\* What the boot and the settled documents have to agree on.
Waits(d) == Live(d) /\ d.restoring # 0

\* The order at place k of the log is the last word on its thread.
OpenAt(k) ==
  /\ k \in DOMAIN log /\ log[k].type = "restore.requested"
  /\ \A j \in DOMAIN log : j > k => log[j].thread # log[k].thread

IsOpen(t, id) == \E k : OpenAt(k) /\ log[k].thread = t /\ log[k].id = id

\* An order someone still holds: the subscription, the boot's list, or a fiber
\* that has not come to its turn.
InMail(t, id) ==
  \E k \in DOMAIN mailbox :
    mailbox[k].type = "restore.requested" /\ mailbox[k].thread = t /\ mailbox[k].id = id
InReplay(t, id) == \E k \in DOMAIN replay : replay[k].thread = t /\ replay[k].id = id
AtLock(t, id) ==
  \E f \in Fibers : fibers[f].pc = "lock" /\ fibers[f].thread = t /\ fibers[f].id = id
Wanted(t, id) == InMail(t, id) \/ InReplay(t, id) \/ AtLock(t, id)

\* The log is a sequence of lines about threads.
LogKnown == (\E S : log \in Seq(S)) /\ (\A k \in DOMAIN log : log[k].thread \in Threads)

\* A thread waits for a restore exactly while the log's last word on it is an order.
LogMatches == \A t \in Threads : Waits(docs[t]) <=> \E id : IsOpen(t, id)

\* An order someone holds was acted on already, or it is still open; and it
\* names a thread that was created.
WantedAreOpen ==
  \A t, id : Wanted(t, id) =>
    /\ t \in Threads /\ docs[t].life # "none"
    /\ Live(docs[t]) /\ id \notin handled => IsOpen(t, id)

\* The restore inside the mutex was marked, and its order is open.
Running(t, id) ==
  \E f \in Fibers : Inside(fibers[f]) /\ fibers[f].thread = t /\ fibers[f].id = id

RunsAreOpen ==
  \A t, id : Running(t, id) =>
    /\ t \in Threads /\ docs[t].life # "none" /\ id \in handled
    /\ Live(docs[t]) => IsOpen(t, id)

OrdersInv ==
  /\ LogKnown /\ (\E S : replay \in Seq(S))
  /\ LogMatches /\ WantedAreOpen /\ RunsAreOpen /\ OneOutcomePerOrder

\* A deleted thread with refs, or with a capture under way, has its prune to come.
PruneDue(t) == \E k \in DOMAIN mailbox : mailbox[k].type = "thread.deleted" /\ mailbox[k].thread = t
Capturing(t) == fibers["live"].pc = "capture" /\ fibers["live"].thread = t

RefsInv ==
  /\ faults \in Nat /\ refs = [t \in Threads |-> refs[t]]
  /\ faults = 0 => \A t \in Threads :
       docs[t].life = "deleted" /\ (refs[t] # {} \/ Capturing(t)) => PruneDue(t)

----------------------------------------------------------------------------
(* What the steps do to a thread's life and to its restore.                *)

\* Neither changes, or the thread comes to be, with no restore to wait for.
Unmoved(d, c) ==
  \/ c.life = d.life /\ c.restoring = d.restoring
  \/ d.life = "none" /\ c.life = "live" /\ c.restoring = 0

AllUnmoved == \A t \in Threads : Unmoved(docs[t], docs'[t])

\* Events of a turn, of the queue and of a capture leave both alone.
LEMMA PlainEvent ==
  ASSUME NEW d, NEW e, Shaped(d),
         e.type \in {"thread.turn.requested", "thread.turn.completed", "thread.item.upserted",
                     "thread.message.queued", "thread.checkpoint.created"}
  PROVE  /\ Shaped(Apply(d, e))
         /\ Apply(d, e).life = d.life /\ Apply(d, e).restoring = d.restoring
<1>0. CASE d.life = "none"
  BY <1>0 DEF Apply
<1> SUFFICES ASSUME d.life # "none"
             PROVE  /\ Shaped(Apply(d, e))
                    /\ Apply(d, e).life = d.life /\ Apply(d, e).restoring = d.restoring
  BY <1>0
<1>1. CASE e.type = "thread.turn.requested"
  <2>1. Apply(d, e) = [d EXCEPT !.turn = e.turn, !.status = "running"]
    <3>1. ApplyExisting(d, e) = ApplyTurn(d, e)
      BY <1>1 DEF ApplyExisting, LifeEvents, SessionEvents, TurnEvents, QueueEvents, CardEvents, RestoreEvents
    <3> QED BY <1>1, <3>1 DEF Apply, ApplyTurn
  <2> QED BY <2>1 DEF Shaped, DocFields
<1>2. CASE e.type = "thread.turn.completed"
  <2>1. Apply(d, e) = Settled(d, e.turn)
    <3>1. ApplyExisting(d, e) = ApplyTurn(d, e)
      BY <1>2 DEF ApplyExisting, LifeEvents, SessionEvents, TurnEvents, QueueEvents, CardEvents, RestoreEvents
    <3> QED BY <1>2, <3>1 DEF Apply, ApplyTurn
  <2> QED BY <2>1 DEF Settled, Shaped, DocFields
<1>3. CASE e.type = "thread.item.upserted"
  <2>1. Apply(d, e) = [d EXCEPT !.spoke = TRUE]
    BY <1>3 DEF Apply, ApplyExisting, LifeEvents, SessionEvents, TurnEvents, QueueEvents, CardEvents,
                RestoreEvents
  <2> QED BY <2>1 DEF Shaped, DocFields
<1>4. CASE e.type = "thread.message.queued"
  <2>1. Apply(d, e) = [d EXCEPT !.queue = Append(@, e.message)]
    <3>1. ApplyExisting(d, e) = ApplyQueue(d, e)
      BY <1>4 DEF ApplyExisting, LifeEvents, SessionEvents, TurnEvents, QueueEvents, CardEvents, RestoreEvents
    <3> QED BY <1>4, <3>1 DEF Apply, ApplyQueue
  <2> QED BY <2>1 DEF Shaped, DocFields
<1>5. CASE e.type = "thread.checkpoint.created"
  <2>1. Apply(d, e) = [d EXCEPT !.checkpoints = @ \cup {e.turn}]
    BY <1>5 DEF Apply, ApplyExisting, ApplyRestore, LifeEvents, SessionEvents, TurnEvents, QueueEvents,
                CardEvents, RestoreEvents
  <2> QED BY <2>1 DEF Shaped, DocFields
<1> QED BY <1>1, <1>2, <1>3, <1>4, <1>5

\* An order marks the thread, its outcome frees it, a delete takes it away.
LEMMA RestoreEvent ==
  ASSUME NEW d, Shaped(d), d.life # "none"
  PROVE  /\ \A m : /\ Apply(d, RestoreRequested(m)).life = d.life
                   /\ Apply(d, RestoreRequested(m)).restoring = m
         /\ \A ok : /\ Apply(d, RestoreSettled(ok)).life = d.life
                    /\ Apply(d, RestoreSettled(ok)).restoring = 0
         /\ Apply(d, Deleted).life = "deleted"
<1>1. ASSUME NEW m
      PROVE  Apply(d, RestoreRequested(m)) = [d EXCEPT !.restoring = m]
  BY DEF Apply, RestoreRequested, ApplyExisting, ApplyRestore, LifeEvents, SessionEvents, TurnEvents,
         QueueEvents, CardEvents, RestoreEvents
<1>2. ASSUME NEW ok
      PROVE  Apply(d, RestoreSettled(ok)) = [d EXCEPT !.restoring = 0]
  BY DEF Apply, RestoreSettled, ApplyExisting, ApplyRestore, LifeEvents, SessionEvents, TurnEvents,
         QueueEvents, CardEvents, RestoreEvents
<1>3. Apply(d, Deleted) = [d EXCEPT !.life = "deleted"]
  <2>1. ApplyExisting(d, Deleted) = ApplyLife(d, Deleted)
    BY DEF ApplyExisting, Deleted, LifeEvents, SessionEvents, TurnEvents, QueueEvents, CardEvents, RestoreEvents
  <2> QED BY <2>1 DEF Apply, ApplyLife, Deleted
<1>4. d = [f \in DocFields |-> d[f]]
  BY DEF Shaped
<1>5. ASSUME NEW m
      PROVE  [d EXCEPT !.restoring = m].life = d.life /\ [d EXCEPT !.restoring = m].restoring = m
  BY <1>4 DEF DocFields
<1>6. [d EXCEPT !.life = "deleted"].life = "deleted"
  BY <1>4 DEF DocFields
<1>7. \A m : /\ Apply(d, RestoreRequested(m)).life = d.life
             /\ Apply(d, RestoreRequested(m)).restoring = m
  BY <1>1, <1>5
<1>8. \A ok : /\ Apply(d, RestoreSettled(ok)).life = d.life
              /\ Apply(d, RestoreSettled(ok)).restoring = 0
  BY <1>2, <1>5
<1> QED BY <1>3, <1>6, <1>7, <1>8

\* A commit changes one document.
LEMMA CommitIs ==
  ASSUME IInv, NEW t \in Threads, NEW c, docs' = [docs EXCEPT ![t] = c]
  PROVE  docs'[t] = c /\ \A u \in Threads \ {t} : docs'[u] = docs[u]
BY DEF IInv

\* A plain event appended to a live thread.
LEMMA PlainAppend ==
  ASSUME IInv, NEW t \in Threads, NEW e, docs' = [docs EXCEPT ![t] = ApplyAll(docs[t], <<e>>)],
         e.type \in {"thread.turn.requested", "thread.turn.completed", "thread.item.upserted",
                     "thread.message.queued", "thread.checkpoint.created"}
  PROVE  AllUnmoved
<1>1. ApplyAll(docs[t], <<e>>) = Apply(docs[t], e)
  BY ApplyOne
<1>2. Shaped(docs[t])
  BY DEF IInv, DocInv
<1>3. Unmoved(docs[t], Apply(docs[t], e))
  BY <1>2, PlainEvent DEF Unmoved
<1> QED BY <1>1, <1>3, CommitIs DEF AllUnmoved, Unmoved

\* A client that creates a thread or sends to one neither orders nor deletes.
LEMMA WorkUnmoved ==
  ASSUME IInv, NEW t \in Threads, ClientWorks(t)
  PROVE  AllUnmoved
<1> DEFINE d == docs[t]
<1>1. CASE d.life = "none" /\ CreateThread(t)
  <2>1. PICK i : Dispatch(t, [type |-> "thread.create", instance |-> i])
    BY <1>1 DEF CreateThread
  <2> DEFINE cmd == [type |-> "thread.create", instance |-> i]
             res == Decide(cmd, d, Context(t), Env(t))
  <2>2. res.accepted /\ docs' = [docs EXCEPT ![t] = ApplyAll(d, res.events)]
    BY <2>1 DEF Dispatch, Commit
  <2>3. res.events = <<Created(i)>>
    BY <2>2 DEF Decide, DecideCreate, When, Accepted, Rejected
  <2>4. ApplyAll(d, <<Created(i)>>) = [NoDoc EXCEPT !.life = "live", !.chosen = i]
    BY ApplyOne DEF Apply, Created
  <2>5. Unmoved(d, [NoDoc EXCEPT !.life = "live", !.chosen = i])
    BY <1>1 DEF Unmoved, NoDoc
  <2> HIDE DEF d, res
  <2>6. docs' = [docs EXCEPT ![t] = [NoDoc EXCEPT !.life = "live", !.chosen = i]]
    BY <2>2, <2>3, <2>4
  <2> QED BY <2>5, <2>6, CommitIs DEF AllUnmoved, Unmoved, d
<1>2. CASE StartTurn(t)
  <2>1. PICK q \in BOOLEAN : Dispatch(t, [type |-> "thread.turn.start", queued |-> q])
    BY <1>2 DEF StartTurn
  <2> DEFINE cmd == [type |-> "thread.turn.start", queued |-> q]
             res == Decide(cmd, d, Context(t), Env(t))
             m == turns[t] + 1
  <2>2. res.accepted /\ docs' = [docs EXCEPT ![t] = ApplyAll(d, res.events)]
    BY <2>1 DEF Dispatch, Commit
  <2>3. res = DecideTurnStart(cmd, d, Context(t), Env(t))
    BY <2>2 DEF Decide, DecideLive, Rejected
  <2>4. res.events = <<TurnRequested(m), UserRow(m)>> \/ res.events = <<Queued(Env(t).message)>>
    BY <2>2, <2>3 DEF DecideTurnStart, When, Accepted, Rejected, NewTurn, Env
  <2> HIDE DEF res
  <2>5. CASE res.events = <<Queued(Env(t).message)>>
    <3>1. Queued(Env(t).message).type = "thread.message.queued"
      BY DEF Queued
    <3> QED BY <2>2, <2>5, <3>1, PlainAppend
  <2>6. CASE res.events = <<TurnRequested(m), UserRow(m)>>
    <3>1. TurnRequested(m).type = "thread.turn.requested" /\ UserRow(m).type = "thread.item.upserted"
      BY DEF TurnRequested, UserRow
    <3>2. ApplyAll(d, res.events) = Apply(Apply(d, TurnRequested(m)), UserRow(m))
      BY <2>6, ApplyTwo
    <3>3. Shaped(d)
      BY DEF IInv, DocInv
    <3>4. Unmoved(d, ApplyAll(d, res.events))
      BY <3>1, <3>2, <3>3, PlainEvent DEF Unmoved
    <3> QED BY <2>2, <3>4, CommitIs DEF AllUnmoved, Unmoved
  <2> QED BY <2>4, <2>5, <2>6
<1> QED BY <1>1, <1>2 DEF ClientWorks
----------------------------------------------------------------------------
(* The log and its open orders.                                            *)

\* One line more.
LEMMA LogGrows ==
  ASSUME LogKnown, NEW e, e.thread \in Threads, log' = Append(log, e)
  PROVE  /\ LogKnown' /\ Len(log) \in Nat
         /\ DOMAIN log = 1..Len(log) /\ DOMAIN log' = 1..(Len(log) + 1)
         /\ log'[Len(log) + 1] = e /\ \A k \in DOMAIN log : log'[k] = log[k]
<1>1. PICK S : log \in Seq(S)
  BY DEF LogKnown
<1>2. /\ Append(log, e) \in Seq(S \cup {e})
      /\ \A k \in 1..Len(Append(log, e)) :
           \/ Append(log, e)[k] = e
           \/ k \in 1..Len(log) /\ Append(log, e)[k] = log[k]
  BY <1>1, MoreMail
<1>3. /\ Len(log) \in Nat /\ DOMAIN log = 1..Len(log) /\ Len(log') = Len(log) + 1
      /\ DOMAIN log' = 1..(Len(log) + 1)
      /\ log'[Len(log) + 1] = e /\ \A k \in 1..Len(log) : log'[k] = log[k]
  BY <1>1
<1>4. \A k \in DOMAIN log' : log'[k].thread \in Threads
  BY <1>2, <1>3 DEF LogKnown
<1> QED BY <1>2, <1>3, <1>4 DEF LogKnown

\* A line closes the order of its thread, and opens one if it is an order.
LEMMA OpenLater ==
  ASSUME LogKnown, NEW e, e.thread \in Threads, log' = Append(log, e)
  PROVE  \A t, id : IsOpen(t, id)' <=>
           \/ e.type = "restore.requested" /\ e.thread = t /\ e.id = id
           \/ e.thread # t /\ IsOpen(t, id)
<1> DEFINE n == Len(log)
<1>1. /\ n \in Nat /\ DOMAIN log = 1..n /\ DOMAIN log' = 1..(n + 1)
      /\ log'[n + 1] = e /\ \A k \in 1..n : log'[k] = log[k]
  BY LogGrows
<1> HIDE DEF n
<1>2. \A k \in 1..n : k < n + 1 /\ k \in 1..(n + 1)
  BY <1>1
<1>3. \A k : OpenAt(k)' <=>
        \/ k = n + 1 /\ e.type = "restore.requested"
        \/ OpenAt(k) /\ log[k].thread # e.thread
  <2> TAKE k
  <2>1. CASE k = n + 1
    <3>1. ~OpenAt(k) /\ \A j \in 1..(n + 1) : ~(j > n + 1)
      BY <1>1, <2>1 DEF OpenAt
    <3> QED BY <1>1, <2>1, <3>1 DEF OpenAt
  <2>2. CASE k \in 1..n
    <3>1. (\A j \in 1..(n + 1) : j > k => log'[j].thread # log'[k].thread)
            <=> /\ \A j \in 1..n : j > k => log[j].thread # log[k].thread
                /\ log[k].thread # e.thread
      BY <1>1, <1>2, <2>2
    <3>2. k # n + 1
      BY <1>1, <2>2
    <3> QED BY <1>1, <1>2, <2>2, <3>1, <3>2 DEF OpenAt
  <2>3. CASE k \notin 1..(n + 1)
    BY <1>1, <2>3 DEF OpenAt
  <2> QED BY <1>1, <2>1, <2>2, <2>3
<1>4. \A k : OpenAt(k) => k \in 1..n
  BY <1>1 DEF OpenAt
<1> TAKE t, id
<1>5. ASSUME IsOpen(t, id)'
      PROVE  \/ e.type = "restore.requested" /\ e.thread = t /\ e.id = id
             \/ e.thread # t /\ IsOpen(t, id)
  <2>1. PICK k : OpenAt(k)' /\ log'[k].thread = t /\ log'[k].id = id
    BY <1>5 DEF IsOpen
  <2> QED BY <1>1, <1>3, <1>4, <2>1 DEF IsOpen
<1>6. ASSUME e.type = "restore.requested", e.thread = t, e.id = id
      PROVE  IsOpen(t, id)'
  BY <1>1, <1>3, <1>6 DEF IsOpen
<1>7. ASSUME e.thread # t, IsOpen(t, id)
      PROVE  IsOpen(t, id)'
  <2>1. PICK k : OpenAt(k) /\ log[k].thread = t /\ log[k].id = id
    BY <1>7 DEF IsOpen
  <2> QED BY <1>1, <1>3, <1>4, <1>7, <2>1 DEF IsOpen
<1> QED BY <1>5, <1>6, <1>7

\* A thread has one open order at most.
LEMMA OneOpen ==
  ASSUME LogKnown, NEW t, NEW i, NEW j, IsOpen(t, i), IsOpen(t, j)
  PROVE  i = j
<1>1. PICK k : OpenAt(k) /\ log[k].thread = t /\ log[k].id = i
  BY DEF IsOpen
<1>2. PICK l : OpenAt(l) /\ log[l].thread = t /\ log[l].id = j
  BY DEF IsOpen
<1>3. DOMAIN log \subseteq Nat
  BY DEF LogKnown
<1>4. ~(k < l) /\ ~(l < k)
  BY <1>1, <1>2, <1>3 DEF OpenAt
<1>5. k = l
  BY <1>1, <1>2, <1>3, <1>4 DEF OpenAt
<1> QED BY <1>1, <1>2, <1>5

\* An order that is not an outcome leaves every outcome its order.
LEMMA OutcomesKeep ==
  ASSUME LogKnown, OneOutcomePerOrder, NEW e, e.thread \in Threads, log' = Append(log, e),
         e.type \in Outcomes => IsOpen(e.thread, e.id)
  PROVE  OneOutcomePerOrder'
<1> DEFINE n == Len(log)
<1>1. /\ n \in Nat /\ DOMAIN log = 1..n /\ DOMAIN log' = 1..(n + 1)
      /\ log'[n + 1] = e /\ \A k \in 1..n : log'[k] = log[k]
  BY LogGrows
<1> HIDE DEF n
<1>2. ASSUME NEW k \in 1..n, log'[k].type \in Outcomes
      PROVE  \E j \in 1..(k - 1) :
               /\ log'[j].type = "restore.requested" /\ log'[j].id = log'[k].id
               /\ \A i \in (j + 1)..(k - 1) : log'[i].thread # log'[k].thread
  <2>1. PICK j \in 1..(k - 1) :
          /\ log[j].type = "restore.requested" /\ log[j].id = log[k].id
          /\ \A i \in (j + 1)..(k - 1) : log[i].thread # log[k].thread
    BY <1>1, <1>2 DEF OneOutcomePerOrder
  <2>2. j \in 1..n /\ (j + 1)..(k - 1) \subseteq 1..n
    BY <1>1
  <2> QED BY <1>1, <2>1, <2>2
<1>3. ASSUME e.type \in Outcomes
      PROVE  \E j \in 1..n :
               /\ log'[j].type = "restore.requested" /\ log'[j].id = e.id
               /\ \A i \in (j + 1)..n : log'[i].thread # e.thread
  <2>1. PICK j : OpenAt(j) /\ log[j].thread = e.thread /\ log[j].id = e.id
    BY <1>3 DEF IsOpen
  <2>2. j \in 1..n /\ \A i \in (j + 1)..n : i \in 1..n /\ i > j
    BY <1>1, <2>1 DEF OpenAt
  <2> QED BY <1>1, <2>1, <2>2 DEF OpenAt
<1>4. ASSUME NEW k \in DOMAIN log', log'[k].type \in Outcomes
      PROVE  \E j \in 1..(k - 1) :
               /\ log'[j].type = "restore.requested" /\ log'[j].id = log'[k].id
               /\ \A i \in (j + 1)..(k - 1) : log'[i].thread # log'[k].thread
  <2>1. CASE k = n + 1
    <3>1. k - 1 = n
      BY <1>1, <2>1
    <3> QED BY <1>1, <1>3, <1>4, <2>1, <3>1
  <2>2. CASE k \in 1..n
    BY <1>2, <1>4, <2>2
  <2> QED BY <1>1, <2>1, <2>2
<1> QED BY <1>4 DEF OneOutcomePerOrder
----------------------------------------------------------------------------
(* Who holds an order.                                                     *)

\* Publishing adds an order to the subscription; taking one adds none.
LEMMA MailLater ==
  ASSUME MailKnown
  PROVE  /\ mailbox' = <<>> \/ mailbox' = mailbox => \A t, id : InMail(t, id)' => InMail(t, id)
         /\ mailbox # <<>> /\ mailbox' = Tail(mailbox) => \A t, id : InMail(t, id)' => InMail(t, id)
         /\ \A e : mailbox' = Append(mailbox, e) =>
              \A t, id : InMail(t, id)' =>
                InMail(t, id) \/ (e.type = "restore.requested" /\ e.thread = t /\ e.id = id)
         /\ mailbox # <<>> /\ Head(mailbox).type = "restore.requested"
              => InMail(Head(mailbox).thread, Head(mailbox).id)
<1>1. PICK S : mailbox \in Seq(S)
  BY DEF MailKnown
<1>2. DOMAIN mailbox = 1..Len(mailbox)
  BY <1>1
<1>3. ASSUME mailbox' = <<>> \/ mailbox' = mailbox
      PROVE  \A t, id : InMail(t, id)' => InMail(t, id)
  BY <1>3 DEF InMail
<1>4. ASSUME mailbox # <<>>, mailbox' = Tail(mailbox)
      PROVE  \A t, id : InMail(t, id)' => InMail(t, id)
  <2>1. /\ Tail(mailbox) \in Seq(S) /\ DOMAIN Tail(mailbox) = 1..Len(Tail(mailbox))
        /\ \A k \in 1..Len(Tail(mailbox)) :
             k + 1 \in 1..Len(mailbox) /\ Tail(mailbox)[k] = mailbox[k + 1]
    BY <1>1, <1>4, LessMail
  <2> QED BY <1>2, <1>4, <2>1 DEF InMail
<1>5. ASSUME NEW e, mailbox' = Append(mailbox, e)
      PROVE  \A t, id : InMail(t, id)' =>
               InMail(t, id) \/ (e.type = "restore.requested" /\ e.thread = t /\ e.id = id)
  <2>1. /\ DOMAIN Append(mailbox, e) = 1..Len(Append(mailbox, e))
        /\ \A k \in 1..Len(Append(mailbox, e)) :
             \/ Append(mailbox, e)[k] = e
             \/ k \in 1..Len(mailbox) /\ Append(mailbox, e)[k] = mailbox[k]
    BY <1>1, MoreMail
  <2> QED BY <1>2, <1>5, <2>1 DEF InMail
<1>6. ASSUME mailbox # <<>>, Head(mailbox).type = "restore.requested"
      PROVE  InMail(Head(mailbox).thread, Head(mailbox).id)
  <2>1. Head(mailbox) = mailbox[1] /\ 1 \in DOMAIN mailbox
    BY <1>1, <1>2, <1>6, LessMail
  <2> QED BY <1>6, <2>1 DEF InMail
<1> QED BY <1>3, <1>4, <1>5, <1>6

\* A step that leaves the log alone: no document starts or stops waiting, no
\* order is new to its holders, and what comes inside the mutex was at the lock.
QuietStep ==
  /\ log' = log /\ handled \subseteq handled' /\ AllUnmoved
  /\ \A t, id : Wanted(t, id)' => Wanted(t, id)
  /\ \A t, id : Running(t, id)' =>
       \/ Running(t, id)
       \/ AtLock(t, id) /\ id \in handled' \ handled /\ docs' = docs /\ Live(docs[t])

\* The orders that OrdersInv speaks of, without the log's own shape.
OrdersOpen == LogMatches /\ WantedAreOpen /\ RunsAreOpen

LEMMA QuietKeeps ==
  ASSUME OrdersInv, QuietStep
  PROVE  LogKnown' /\ OrdersOpen' /\ OneOutcomePerOrder'
<1>1. LogKnown' /\ OneOutcomePerOrder' /\ \A t, id : IsOpen(t, id)' <=> IsOpen(t, id)
  BY DEF OrdersInv, QuietStep, LogKnown, OneOutcomePerOrder, IsOpen, OpenAt
<1>2. \A t \in Threads : Waits(docs'[t]) <=> Waits(docs[t])
  BY DEF QuietStep, AllUnmoved, Unmoved, Waits, Live
<1>3. LogMatches'
  BY <1>1, <1>2 DEF OrdersInv, LogMatches
<1>4. \A t \in Threads : docs[t].life # "none" => docs'[t].life = docs[t].life
  BY DEF QuietStep, AllUnmoved, Unmoved
<1>5. WantedAreOpen'
  <2> SUFFICES ASSUME NEW t, NEW id, Wanted(t, id)'
               PROVE  /\ t \in Threads /\ docs'[t].life # "none"
                      /\ Live(docs'[t]) /\ id \notin handled' => IsOpen(t, id)'
    BY DEF WantedAreOpen
  <2>1. /\ t \in Threads /\ docs[t].life # "none"
        /\ Live(docs[t]) /\ id \notin handled => IsOpen(t, id)
    BY DEF OrdersInv, WantedAreOpen, QuietStep
  <2> QED BY <1>1, <1>4, <2>1 DEF QuietStep, Live
<1>6. RunsAreOpen'
  <2> SUFFICES ASSUME NEW t, NEW id, Running(t, id)'
               PROVE  /\ t \in Threads /\ docs'[t].life # "none" /\ id \in handled'
                      /\ Live(docs'[t]) => IsOpen(t, id)'
    BY DEF RunsAreOpen
  <2>1. CASE Running(t, id)
    <3>1. t \in Threads /\ docs[t].life # "none" /\ id \in handled /\ (Live(docs[t]) => IsOpen(t, id))
      BY <2>1 DEF OrdersInv, RunsAreOpen
    <3> QED BY <1>1, <1>4, <3>1 DEF QuietStep, Live
  <2>2. CASE AtLock(t, id) /\ id \in handled' \ handled /\ docs' = docs /\ Live(docs[t])
    <3>1. t \in Threads /\ docs[t].life # "none" /\ IsOpen(t, id)
      BY <2>2 DEF OrdersInv, WantedAreOpen, Wanted
    <3> QED BY <1>1, <2>2, <3>1
  <2> QED BY <2>1, <2>2 DEF QuietStep
<1> QED BY <1>1, <1>3, <1>5, <1>6 DEF OrdersOpen

\* The others' orders when a line about thread t is written: their documents,
\* their orders and their runs are as before.
LEMMA OthersKeep ==
  ASSUME OrdersInv, NEW t \in Threads, NEW e, e.thread = t, log' = Append(log, e),
         \A u \in Threads \ {t} : docs'[u] = docs[u], handled' = handled
  PROVE  /\ \A u \in Threads \ {t} : Waits(docs'[u]) <=> \E id : IsOpen(u, id)'
         /\ \A u \in Threads \ {t} : \A id :
              Wanted(u, id) => /\ docs'[u].life # "none"
                               /\ Live(docs'[u]) /\ id \notin handled' => IsOpen(u, id)'
         /\ \A u \in Threads \ {t} : \A id :
              Running(u, id) => /\ docs'[u].life # "none" /\ id \in handled'
                                /\ Live(docs'[u]) => IsOpen(u, id)'
<1>1. LogKnown
  BY DEF OrdersInv
<1>2. \A u \in Threads \ {t} : \A id : IsOpen(u, id)' <=> IsOpen(u, id)
  BY <1>1, OpenLater
<1>3. \A u \in Threads \ {t} : Waits(docs'[u]) <=> \E id : IsOpen(u, id)'
  BY <1>2 DEF OrdersInv, LogMatches
<1>4. \A u \in Threads \ {t} : \A id :
        Wanted(u, id) => /\ docs'[u].life # "none"
                         /\ Live(docs'[u]) /\ id \notin handled' => IsOpen(u, id)'
  BY <1>2 DEF OrdersInv, WantedAreOpen
<1>5. \A u \in Threads \ {t} : \A id :
        Running(u, id) => /\ docs'[u].life # "none" /\ id \in handled'
                          /\ Live(docs'[u]) => IsOpen(u, id)'
  BY <1>2 DEF OrdersInv, RunsAreOpen
<1> QED BY <1>3, <1>4, <1>5
----------------------------------------------------------------------------
(* What each line of the log does to the orders.                           *)

\* A deletion: nothing of the thread is open any more, and nothing needs to be.
LEMMA DeletionKeeps ==
  ASSUME OrdersInv, NEW t \in Threads, log' = Append(log, Entry("thread.deleted", t, 0, 0)),
         docs'[t].life = "deleted", \A u \in Threads \ {t} : docs'[u] = docs[u], handled' = handled,
         \A u, id : Wanted(u, id)' => Wanted(u, id),
         \A u, id : Running(u, id)' => Running(u, id)
  PROVE  LogKnown' /\ OrdersOpen' /\ OneOutcomePerOrder'
<1> DEFINE e == Entry("thread.deleted", t, 0, 0)
<1>1. e.thread = t /\ e.type = "thread.deleted" /\ e.type \notin Outcomes /\ log' = Append(log, e)
  BY DEF Entry, Outcomes
<1> HIDE DEF e
<1>2. LogKnown' /\ OneOutcomePerOrder'
  BY <1>1, LogGrows, OutcomesKeep DEF OrdersInv
<1>3. \A id : ~IsOpen(t, id)'
  BY <1>1, OpenLater DEF OrdersInv
<1>4. /\ \A u \in Threads \ {t} : Waits(docs'[u]) <=> \E id : IsOpen(u, id)'
      /\ \A u \in Threads \ {t} : \A id :
           Wanted(u, id) => /\ docs'[u].life # "none"
                            /\ Live(docs'[u]) /\ id \notin handled' => IsOpen(u, id)'
      /\ \A u \in Threads \ {t} : \A id :
           Running(u, id) => /\ docs'[u].life # "none" /\ id \in handled'
                             /\ Live(docs'[u]) => IsOpen(u, id)'
  BY <1>1, OthersKeep
<1>5. ~Waits(docs'[t]) /\ ~Live(docs'[t]) /\ docs'[t].life # "none"
  BY DEF Waits, Live
<1>6. LogMatches'
  BY <1>3, <1>4, <1>5 DEF LogMatches
<1>7. \A u, id : Wanted(u, id) \/ Running(u, id) => u \in Threads
  BY DEF OrdersInv, WantedAreOpen, RunsAreOpen
<1>8. WantedAreOpen'
  BY <1>4, <1>5, <1>7 DEF WantedAreOpen
<1>9. \A id : Running(t, id) => id \in handled'
  BY DEF OrdersInv, RunsAreOpen
<1>10. RunsAreOpen'
  BY <1>4, <1>5, <1>7, <1>9 DEF RunsAreOpen
<1> QED BY <1>2, <1>6, <1>8, <1>10 DEF OrdersOpen

\* An order on a thread that had none open: what its holders have of the thread
\* otherwise was acted on.
LEMMA OrderKeeps ==
  ASSUME OrdersInv, NEW t \in Threads, NEW m, NEW n,
         log' = Append(log, Entry("restore.requested", t, m, n)), ~Waits(docs[t]), Live(docs[t]),
         docs'[t].life = "live", docs'[t].restoring # 0,
         \A u \in Threads \ {t} : docs'[u] = docs[u], handled' = handled,
         \A u, id : Wanted(u, id)' => Wanted(u, id) \/ (u = t /\ id = n),
         \A u, id : Running(u, id)' => Running(u, id)
  PROVE  LogKnown' /\ OrdersOpen' /\ OneOutcomePerOrder'
<1> DEFINE e == Entry("restore.requested", t, m, n)
<1>1. /\ e.thread = t /\ e.type = "restore.requested" /\ e.id = n /\ e.type \notin Outcomes
      /\ log' = Append(log, e)
  BY DEF Entry, Outcomes
<1> HIDE DEF e
<1>2. LogKnown' /\ OneOutcomePerOrder'
  BY <1>1, LogGrows, OutcomesKeep DEF OrdersInv
<1>3. IsOpen(t, n)' /\ \A id : ~IsOpen(t, id)
  BY <1>1, OpenLater DEF OrdersInv, LogMatches
<1>4. /\ \A u \in Threads \ {t} : Waits(docs'[u]) <=> \E id : IsOpen(u, id)'
      /\ \A u \in Threads \ {t} : \A id :
           Wanted(u, id) => /\ docs'[u].life # "none"
                            /\ Live(docs'[u]) /\ id \notin handled' => IsOpen(u, id)'
      /\ \A u \in Threads \ {t} : \A id :
           Running(u, id) => /\ docs'[u].life # "none" /\ id \in handled'
                             /\ Live(docs'[u]) => IsOpen(u, id)'
  BY <1>1, OthersKeep
<1>5. Waits(docs'[t]) /\ docs'[t].life # "none"
  BY DEF Waits, Live
<1>6. LogMatches'
  BY <1>3, <1>4, <1>5 DEF LogMatches
<1>7. /\ \A u, id : Wanted(u, id) \/ Running(u, id) => u \in Threads
      /\ \A id : Wanted(t, id) => id \in handled'
      /\ \A id : ~Running(t, id)
  BY <1>3 DEF OrdersInv, WantedAreOpen, RunsAreOpen
<1>8. WantedAreOpen'
  BY <1>3, <1>4, <1>5, <1>7 DEF WantedAreOpen
<1>9. RunsAreOpen'
  BY <1>4, <1>7 DEF RunsAreOpen
<1> QED BY <1>2, <1>6, <1>8, <1>9 DEF OrdersOpen

\* An outcome: the order of the run it is the outcome of was the thread's only
\* one, so every other copy of it is marked.
LEMMA OutcomeKeeps ==
  ASSUME OrdersInv, NEW t, NEW i, Running(t, i), Live(docs[t]),
         NEW e, e.type \in Outcomes, e.thread = t, e.id = i, log' = Append(log, e),
         docs'[t].life = "live", docs'[t].restoring = 0,
         \A u \in Threads \ {t} : docs'[u] = docs[u], handled' = handled,
         \A u, id : Wanted(u, id)' => Wanted(u, id),
         \A u, id : ~Running(u, id)'
  PROVE  LogKnown' /\ OrdersOpen' /\ OneOutcomePerOrder'
<1>1. t \in Threads /\ i \in handled /\ IsOpen(t, i) /\ e.type # "restore.requested"
  BY DEF OrdersInv, RunsAreOpen, Outcomes
<1>2. LogKnown' /\ OneOutcomePerOrder'
  BY <1>1, LogGrows, OutcomesKeep DEF OrdersInv
<1>3. \A id : ~IsOpen(t, id)'
  BY <1>1, OpenLater DEF OrdersInv
<1>4. /\ \A u \in Threads \ {t} : Waits(docs'[u]) <=> \E id : IsOpen(u, id)'
      /\ \A u \in Threads \ {t} : \A id :
           Wanted(u, id) => /\ docs'[u].life # "none"
                            /\ Live(docs'[u]) /\ id \notin handled' => IsOpen(u, id)'
  BY <1>1, OthersKeep
<1>5. ~Waits(docs'[t]) /\ docs'[t].life # "none"
  BY DEF Waits, Live
<1>6. LogMatches'
  BY <1>3, <1>4, <1>5 DEF LogMatches
<1>7. \A id : IsOpen(t, id) => id = i
  BY <1>1, OneOpen DEF OrdersInv
<1>8. /\ \A u, id : Wanted(u, id) => u \in Threads
      /\ \A id : Wanted(t, id) => id \in handled'
  BY <1>1, <1>7 DEF OrdersInv, WantedAreOpen
<1>9. WantedAreOpen'
  BY <1>3, <1>4, <1>5, <1>8 DEF WantedAreOpen
<1>10. RunsAreOpen'
  BY DEF RunsAreOpen
<1> QED BY <1>2, <1>6, <1>9, <1>10 DEF OrdersOpen

\* A kill forgets every holder; the boot's list holds open orders.
LEMMA RestartKeeps ==
  ASSUME OrdersInv, docs' = docs, log' = log,
         \/ \A u, id : ~Wanted(u, id)' /\ ~Running(u, id)'
         \/ /\ handled' = handled
            /\ \A u, id : Wanted(u, id)' => Wanted(u, id) \/ IsOpen(u, id)
            /\ \A u, id : Running(u, id)' => Running(u, id)
  PROVE  LogKnown' /\ OrdersOpen' /\ OneOutcomePerOrder'
<1>1. /\ LogKnown' /\ OneOutcomePerOrder'
      /\ \A t, id : IsOpen(t, id)' <=> IsOpen(t, id)
  BY DEF OrdersInv, LogKnown, OneOutcomePerOrder, IsOpen, OpenAt
<1>2. LogMatches'
  BY <1>1 DEF OrdersInv, LogMatches
<1>3. \A t, id : IsOpen(t, id) => t \in Threads /\ docs[t].life # "none"
  <2>1. \A t, id : IsOpen(t, id) => t \in Threads
    BY DEF OrdersInv, LogKnown, IsOpen, OpenAt
  <2> QED BY <2>1 DEF OrdersInv, LogMatches, Waits, Live
<1>4. WantedAreOpen'
  BY <1>1, <1>3 DEF OrdersInv, WantedAreOpen
<1>5. RunsAreOpen'
  BY <1>1 DEF OrdersInv, RunsAreOpen
<1> QED BY <1>1, <1>2, <1>4, <1>5 DEF OrdersOpen
----------------------------------------------------------------------------
(* The steps, by what they do to the holders.                              *)

\* Nobody comes to hold an order.
NoNewMail == \A t, id : InMail(t, id)' => InMail(t, id)
NoNewReplay == \A t, id : InReplay(t, id)' => InReplay(t, id)
SameFibers == \A t, id : /\ AtLock(t, id)' => AtLock(t, id)
                         /\ Running(t, id)' => Running(t, id)

\* One fiber becomes `job`.
FiberBecomes(job) ==
  \A t, id : /\ AtLock(t, id)' => \/ AtLock(t, id)
                                  \/ job.pc = "lock" /\ job.thread = t /\ job.id = id
             /\ Running(t, id)' => \/ Running(t, id)
                                   \/ Inside(job) /\ job.thread = t /\ job.id = id

LEMMA UnchangedFibers ==
  ASSUME fibers' = fibers
  PROVE  SameFibers
BY DEF SameFibers, AtLock, Running

LEMMA UnchangedReplay ==
  ASSUME replay' = replay \/ replay' = <<>>
  PROVE  NoNewReplay
BY DEF NoNewReplay, InReplay

LEMMA UnchangedMail ==
  ASSUME mailbox' = mailbox
  PROVE  NoNewMail
BY DEF NoNewMail, InMail

LEMMA FibersBecome ==
  ASSUME FibersKnown, NEW f \in Fibers, NEW job, Become(f, job)
  PROVE  FiberBecomes(job)
<1>1. \A g \in Fibers : fibers'[g] = IF g = f THEN job ELSE fibers[g]
  BY DEF FibersKnown, Become
<1> QED BY <1>1 DEF FiberBecomes, AtLock, Running

\* What a fiber that rests, or that captures, holds.
LEMMA HoldsNone ==
  ASSUME NEW job, job.pc \notin {"lock", "restore", "rewriting", "settle"}, FiberBecomes(job)
  PROVE  SameFibers
BY DEF FiberBecomes, SameFibers, Inside

\* Steps that leave the log, the marks and all holders as they are.
LEMMA CalmIsQuiet ==
  ASSUME log' = log, handled' = handled, AllUnmoved, NoNewMail, NoNewReplay, SameFibers
  PROVE  QuietStep
BY DEF QuietStep, NoNewMail, NoNewReplay, SameFibers, Wanted

LEMMA UnchangedDocs ==
  ASSUME docs' = docs
  PROVE  AllUnmoved
BY DEF AllUnmoved, Unmoved

\* Creating, sending, removing a project, and the end of a turn are quiet.
LEMMA CallersQuiet ==
  ASSUME CInv, \/ \E t \in Threads : ClientWorks(t) \/ TurnEnds(t)
               \/ \E p \in Projects : ClientCreates(p) \/ ClientRemoves(p)
  PROVE  QuietStep
<1>1. /\ log' = log /\ handled' = handled /\ fibers' = fibers /\ replay' = replay
  BY DEF ClientWorks, TurnEnds, ClientCreates, ClientRemoves, Reactors
<1>2. SameFibers /\ NoNewReplay
  BY <1>1, UnchangedFibers, UnchangedReplay
<1>3. ASSUME NEW e, e.type # "restore.requested", mailbox' = Append(mailbox, e)
      PROVE  NoNewMail
  BY <1>3, MailLater DEF CInv, NoNewMail
<1>4. CASE \E p \in Projects : ClientCreates(p)
  <2>1. docs' = docs /\ mailbox' = mailbox
    BY <1>4 DEF ClientCreates, CreateProject
  <2> QED BY <1>1, <1>2, <2>1, CalmIsQuiet, UnchangedMail, UnchangedDocs
<1>5. ASSUME NEW p \in Projects, ClientRemoves(p) PROVE QuietStep
  <2> DEFINE e == [type |-> "project.removed", project |-> p]
  <2>1. docs' = docs /\ mailbox' = Append(mailbox, e) /\ e.type # "restore.requested"
    BY <1>5 DEF ClientRemoves, RemoveProject, Publish
  <2> HIDE DEF e
  <2> QED BY <1>1, <1>2, <1>3, <2>1, CalmIsQuiet, UnchangedDocs
<1>6. ASSUME NEW t \in Threads, ClientWorks(t) PROVE QuietStep
  <2>1. mailbox' = mailbox
    BY <1>6 DEF ClientWorks
  <2> QED BY <1>1, <1>2, <1>6, <2>1, CalmIsQuiet, UnchangedMail, WorkUnmoved DEF CInv
<1>7. ASSUME NEW t \in Threads, TurnEnds(t) PROVE QuietStep
  <2> DEFINE e == [type |-> "turn.completed", thread |-> t, turn |-> docs[t].turn]
             c == TurnCompleted(docs[t].turn)
  <2>1. /\ mailbox' = Append(mailbox, e) /\ e.type # "restore.requested"
        /\ docs' = [docs EXCEPT ![t] = ApplyAll(docs[t], <<c>>)]
    BY <1>7 DEF TurnEnds, AppendThreadEvents, Commit, Publish
  <2>2. c.type = "thread.turn.completed"
    BY DEF TurnCompleted
  <2> HIDE DEF e, c
  <2>3. AllUnmoved
    BY <2>1, <2>2, PlainAppend DEF CInv
  <2> QED BY <1>1, <1>2, <1>3, <2>1, <2>3, CalmIsQuiet
<1> QED BY <1>4, <1>5, <1>6, <1>7

\* A capture holds no order and moves no restore.
LEMMA CapturesQuiet ==
  ASSUME CInv, CaptureGit \/ CaptureCreated
  PROVE  QuietStep
<1>1. /\ log' = log /\ handled' = handled /\ mailbox' = mailbox /\ replay' = replay /\ "live" \in Fibers
  BY DEF CaptureGit, CaptureCreated, Fibers
<1>2. NoNewMail /\ NoNewReplay
  BY <1>1, UnchangedMail, UnchangedReplay
<1>3. Idle.pc = "idle"
  BY DEF Idle
<1>4. CASE CaptureGit
  <2> DEFINE job == [fibers["live"] EXCEPT !.pc = "created"]
  <2>1. docs' = docs /\ (Become("live", job) \/ Become("live", Idle))
    BY <1>4 DEF CaptureGit, GoTo, vars
  <2>2. job.pc = "created"
    BY <1>1 DEF CInv, FibersKnown, JobKnown, JobFields
  <2> HIDE DEF job
  <2>3. SameFibers
    BY <1>1, <1>3, <2>1, <2>2, FibersBecome, HoldsNone DEF CInv
  <2> QED BY <1>1, <1>2, <2>1, <2>3, CalmIsQuiet, UnchangedDocs
<1>5. CASE CaptureCreated
  <2> DEFINE t == fibers["live"].thread
             e == CheckpointCreated(fibers["live"].turn)
  <2>1. /\ Become("live", Idle) /\ AppendIfLive(t, <<e>>)
        /\ UNCHANGED <<projects, turns, messages, requests>>
    BY <1>5 DEF CaptureCreated
  <2>2. e.type = "thread.checkpoint.created"
    BY DEF CheckpointCreated
  <2> HIDE DEF t, e
  <2>3. \/ docs' = docs
        \/ t \in Threads /\ docs' = [docs EXCEPT ![t] = ApplyAll(docs[t], <<e>>)]
    BY <2>1, AppendIfLiveIs DEF CInv, vars, AppendThreadEvents, Commit
  <2>4. AllUnmoved
    BY <2>2, <2>3, PlainAppend, UnchangedDocs DEF CInv
  <2>5. SameFibers
    BY <1>1, <1>3, <2>1, FibersBecome, HoldsNone DEF CInv
  <2> QED BY <1>1, <1>2, <2>4, <2>5, CalmIsQuiet
<1> QED BY <1>4, <1>5

\* The live loop takes an event: an order goes from the subscription to the lock.
LEMMA TakesQuiet ==
  ASSUME CInv, LiveTakes
  PROVE  QuietStep
<1> DEFINE e == Head(mailbox)
           job == [Idle EXCEPT !.pc = "capture", !.thread = e.thread, !.turn = e.turn]
<1>1. /\ log' = log /\ handled' = handled /\ docs' = docs /\ replay' = replay
      /\ mailbox # <<>> /\ mailbox' = Tail(mailbox) /\ "live" \in Fibers
  BY DEF LiveTakes, vars, Fibers
<1>2. /\ \A t, id : InMail(t, id)' => InMail(t, id)
      /\ e.type = "restore.requested" => InMail(e.thread, e.id)
  BY <1>1, MailLater DEF CInv
<1>3. NoNewReplay /\ AllUnmoved /\ NoNewMail
  BY <1>1, <1>2, UnchangedReplay, UnchangedDocs DEF NoNewMail
<1>4. \/ fibers' = fibers
      \/ Become("live", job)
      \/ e.type = "restore.requested" /\ Become("live", JobOf(e))
  BY DEF LiveTakes, TakeRestore, TakeCompletion, TakeDeletion, TakeRemoval
<1>5. /\ job.pc = "capture"
      /\ JobOf(e).pc = "lock" /\ JobOf(e).thread = e.thread /\ JobOf(e).id = e.id
  BY DEF JobOf, Idle
<1> HIDE DEF job, e
<1>6. CASE fibers' = fibers \/ Become("live", job)
  <2>1. SameFibers
    BY <1>1, <1>5, <1>6, UnchangedFibers, FibersBecome, HoldsNone DEF CInv
  <2> QED BY <1>1, <1>3, <2>1, CalmIsQuiet
<1>7. CASE e.type = "restore.requested" /\ Become("live", JobOf(e))
  <2>1. FiberBecomes(JobOf(e))
    BY <1>1, <1>7, FibersBecome DEF CInv
  <2>2. \A t, id : /\ AtLock(t, id)' => AtLock(t, id) \/ InMail(t, id)
                   /\ Running(t, id)' => Running(t, id)
    BY <1>2, <1>5, <1>7, <2>1 DEF FiberBecomes, Inside
  <2> QED BY <1>1, <1>3, <2>2 DEF QuietStep, NoNewMail, NoNewReplay, Wanted
<1> QED BY <1>4, <1>6, <1>7

\* The replay starts on an order of its list.
LEMMA ReplayQuiet ==
  ASSUME CInv, OrdersInv, ReplayNext
  PROVE  QuietStep
<1> DEFINE e == Head(replay)
<1>1. /\ log' = log /\ handled' = handled /\ docs' = docs /\ mailbox' = mailbox
      /\ replay # <<>> /\ replay' = Tail(replay) /\ "replay" \in Fibers /\ Become("replay", JobOf(e))
  BY DEF ReplayNext, vars, Fibers
<1>2. PICK S : replay \in Seq(S)
  BY DEF OrdersInv
<1>3. /\ e = replay[1] /\ 1 \in 1..Len(replay) /\ Tail(replay) \in Seq(S)
      /\ \A k \in 1..Len(Tail(replay)) : k + 1 \in 1..Len(replay) /\ Tail(replay)[k] = replay[k + 1]
  BY <1>1, <1>2, LessMail
<1>4. DOMAIN replay = 1..Len(replay) /\ DOMAIN Tail(replay) = 1..Len(Tail(replay))
  BY <1>2, <1>3
<1> HIDE DEF e
<1>5. InReplay(e.thread, e.id) /\ \A t, id : InReplay(t, id)' => InReplay(t, id)
  BY <1>1, <1>3, <1>4 DEF InReplay
<1>6. NoNewMail /\ AllUnmoved /\ FiberBecomes(JobOf(e))
  BY <1>1, UnchangedMail, UnchangedDocs, FibersBecome DEF CInv
<1>7. JobOf(e).pc = "lock" /\ JobOf(e).thread = e.thread /\ JobOf(e).id = e.id
  BY DEF JobOf
<1>8. \A t, id : /\ AtLock(t, id)' => AtLock(t, id) \/ InReplay(t, id)
                 /\ Running(t, id)' => Running(t, id)
  BY <1>5, <1>6, <1>7 DEF FiberBecomes, Inside
<1> QED BY <1>1, <1>5, <1>6, <1>8 DEF QuietStep, NoNewMail, Wanted

\* A restore goes through the mutex; its outcome may fail to be written.
LEMMA RestoresQuiet ==
  ASSUME CInv, NEW f \in Fibers, EnterRestore(f) \/ GitRestore(f) \/ GitEnds(f) \/ SettleFails(f)
  PROVE  QuietStep
<1> DEFINE job == fibers[f]
<1>1. /\ log' = log /\ docs' = docs /\ mailbox' = mailbox /\ (replay' = replay \/ replay' = <<>>)
  BY DEF EnterRestore, GitRestore, GitEnds, SettleFails, ReplayAfterError, vars
<1>2. AllUnmoved /\ NoNewMail /\ NoNewReplay
  BY <1>1, UnchangedMail, UnchangedReplay, UnchangedDocs
<1>3. Idle.pc = "idle"
  BY DEF Idle
<1>4. job = [x \in JobFields |-> job[x]]
  BY DEF CInv, FibersKnown, JobKnown
<1> HIDE DEF job
<1>5. ASSUME NEW pc, NEW ok
      PROVE  /\ [job EXCEPT !.pc = pc].pc = pc
             /\ [job EXCEPT !.pc = pc].thread = job.thread /\ [job EXCEPT !.pc = pc].id = job.id
             /\ [job EXCEPT !.pc = pc, !.ok = ok].pc = pc
             /\ [job EXCEPT !.pc = pc, !.ok = ok].thread = job.thread
             /\ [job EXCEPT !.pc = pc, !.ok = ok].id = job.id
  BY <1>4 DEF JobFields
<1>6. ASSUME Inside(job), handled' = handled, NEW new, Become(f, new),
             new.pc # "lock", new.thread = job.thread, new.id = job.id
      PROVE  QuietStep
  <2>1. FiberBecomes(new)
    BY <1>6, FibersBecome DEF CInv
  <2>2. Running(job.thread, job.id)
    BY <1>6 DEF Running, job
  <2>3. SameFibers
    BY <1>6, <2>1, <2>2 DEF FiberBecomes, SameFibers
  <2> QED BY <1>1, <1>2, <1>6, <2>3, CalmIsQuiet
<1>7. CASE GitRestore(f)
  <2>1. PICK pc \in {"rewriting", "settle"} : Become(f, [job EXCEPT !.pc = pc])
    BY <1>7 DEF GitRestore, GoTo, job
  <2>2. Inside(job) /\ handled' = handled
    BY <1>7 DEF GitRestore, Inside, job
  <2> QED BY <1>5, <1>6, <2>1, <2>2
<1>8. CASE GitEnds(f)
  <2>1. PICK ok \in BOOLEAN : Become(f, [job EXCEPT !.pc = "settle", !.ok = ok])
    BY <1>8 DEF GitEnds, job
  <2>2. Inside(job) /\ handled' = handled
    BY <1>8 DEF GitEnds, Rewriting, Inside, job
  <2> DEFINE new == [job EXCEPT !.pc = "settle", !.ok = ok]
  <2>3. new.pc = "settle" /\ new.thread = job.thread /\ new.id = job.id /\ Become(f, new)
    BY <1>5, <2>1
  <2> HIDE DEF new
  <2> QED BY <1>6, <2>2, <2>3
<1>9. CASE SettleFails(f)
  <2>1. Become(f, Idle) /\ handled' = handled
    BY <1>9 DEF SettleFails
  <2>2. SameFibers
    BY <1>3, <2>1, FibersBecome, HoldsNone DEF CInv
  <2> QED BY <1>1, <1>2, <2>1, <2>2, CalmIsQuiet
<1>10. CASE EnterRestore(f)
  <2>1. job.pc = "lock" /\ handled' = handled \cup {job.id}
    BY <1>10 DEF EnterRestore, job
  <2>2. \/ Become(f, Idle)
        \/ /\ job.id \notin handled /\ Live(docs[job.thread])
           /\ \E pc \in {"restore", "settle"} : Become(f, [job EXCEPT !.pc = pc])
    BY <1>10 DEF EnterRestore, GoTo, job
  <2>3. CASE Become(f, Idle)
    <3>1. SameFibers
      BY <1>3, <2>3, FibersBecome, HoldsNone DEF CInv
    <3> QED BY <1>1, <1>2, <2>1, <3>1 DEF QuietStep, NoNewMail, NoNewReplay, SameFibers, Wanted
  <2>4. ASSUME job.id \notin handled, Live(docs[job.thread]),
               NEW pc \in {"restore", "settle"}, Become(f, [job EXCEPT !.pc = pc])
        PROVE  QuietStep
    <3>1. FiberBecomes([job EXCEPT !.pc = pc])
      BY <2>4, FibersBecome DEF CInv
    <3>2. AtLock(job.thread, job.id)
      BY <2>1 DEF AtLock, job
    <3>3. \A t, id : /\ AtLock(t, id)' => AtLock(t, id)
                     /\ Running(t, id)' => Running(t, id) \/ (t = job.thread /\ id = job.id)
      BY <1>5, <3>1 DEF FiberBecomes
    <3> QED BY <1>1, <1>2, <2>1, <2>4, <3>2, <3>3 DEF QuietStep, NoNewMail, NoNewReplay, Wanted
  <2> QED BY <2>2, <2>3, <2>4
<1> QED BY <1>7, <1>8, <1>9, <1>10

----------------------------------------------------------------------------
(* The steps that write a line, and the restarts.                          *)

Keeps == LogKnown' /\ OrdersOpen' /\ OneOutcomePerOrder'

\* A client deletes a thread.
LEMMA DeletesKeep ==
  ASSUME CInv, OrdersInv, NEW t \in Threads, ClientDeletes(t)
  PROVE  /\ Keeps /\ docs'[t].life = "deleted"
         /\ \A u \in Threads \ {t} : docs'[u] = docs[u]
<1> DEFINE d == docs[t]
           cmd == [type |-> "thread.delete"]
           res == Decide(cmd, d, Context(t), Env(t))
           e == [type |-> "thread.deleted", thread |-> t]
<1>1. /\ res.accepted /\ docs' = [docs EXCEPT ![t] = ApplyAll(d, res.events)]
      /\ log' = Append(log, Entry("thread.deleted", t, 0, 0))
      /\ mailbox' = Append(mailbox, e) /\ e.type # "restore.requested"
      /\ handled' = handled /\ fibers' = fibers /\ replay' = replay
  BY DEF ClientDeletes, DeleteThread, Dispatch, Commit, Record, Publish, Reactors
<1>2. Live(d) /\ res.events = <<Deleted>>
  BY <1>1 DEF Decide, DecideLive, Accepted, Rejected
<1> HIDE DEF res, e
<1>3. Shaped(d) /\ d.life # "none"
  BY <1>2 DEF CInv, IInv, DocInv, Live
<1>4. ApplyAll(d, res.events).life = "deleted"
  BY <1>2, <1>3, ApplyOne, RestoreEvent
<1>5. docs'[t].life = "deleted" /\ \A u \in Threads \ {t} : docs'[u] = docs[u]
  BY <1>1, <1>4, CommitIs DEF CInv
<1>6. NoNewMail
  BY <1>1, MailLater DEF CInv, NoNewMail
<1>7. NoNewReplay /\ SameFibers
  BY <1>1, UnchangedReplay, UnchangedFibers
<1>8. \A u, id : /\ Wanted(u, id)' => Wanted(u, id)
                 /\ Running(u, id)' => Running(u, id)
  BY <1>6, <1>7 DEF NoNewMail, NoNewReplay, SameFibers, Wanted
<1> QED BY <1>1, <1>5, <1>8, DeletionKeeps DEF Keeps

\* A client orders a restore: the thread has none under way.
LEMMA RequestKeeps ==
  ASSUME CInv, OrdersInv, NEW t \in Threads, ClientRestores(t)
  PROVE  /\ Keeps /\ docs'[t].life = docs[t].life
         /\ \A u \in Threads \ {t} : docs'[u] = docs[u]
<1> DEFINE d == docs[t]
           r == docs'[t].restoring
           n == orders + 1
           e == Entry("restore.requested", t, r, n)
<1>1. /\ RestoreCheckpoint(t) /\ log' = Append(log, e) /\ mailbox' = Append(mailbox, e)
      /\ handled' = handled /\ fibers' = fibers /\ replay' = replay
  BY DEF ClientRestores, Record, Publish, Reactors
<1>2. PICK m \in 1..turns[t] : Dispatch(t, [type |-> "thread.checkpoint.restore", turn |-> m])
  BY <1>1 DEF RestoreCheckpoint
<1> DEFINE cmd == [type |-> "thread.checkpoint.restore", turn |-> m]
           res == Decide(cmd, d, Context(t), Env(t))
<1>3. res.accepted /\ docs' = [docs EXCEPT ![t] = ApplyAll(d, res.events)]
  BY <1>2 DEF Dispatch, Commit
<1>4. Live(d) /\ d.restoring = 0 /\ res.events = <<RestoreRequested(m)>>
  BY <1>3 DEF Decide, DecideLive, When, Accepted, Rejected
<1>5. m # 0
  BY DEF CInv, TurnsKnown
<1> HIDE DEF res
<1>6. Shaped(d) /\ d.life # "none"
  BY <1>4 DEF CInv, IInv, DocInv, Live
<1>7. ApplyAll(d, res.events).life = d.life /\ ApplyAll(d, res.events).restoring = m
  BY <1>4, <1>6, ApplyOne, RestoreEvent
<1>8. docs'[t].life = d.life /\ r = m /\ \A u \in Threads \ {t} : docs'[u] = docs[u]
  BY <1>3, <1>7, CommitIs DEF CInv
<1>9. e.type = "restore.requested" /\ e.thread = t /\ e.id = n
  BY DEF Entry
<1>10. NoNewReplay /\ SameFibers
  BY <1>1, UnchangedReplay, UnchangedFibers
<1>11. \A u, id : InMail(u, id)' => InMail(u, id) \/ (u = t /\ id = n)
  <2> HIDE DEF e
  <2> QED BY <1>1, <1>9, MailLater DEF CInv
<1>12. \A u, id : /\ Wanted(u, id)' => Wanted(u, id) \/ (u = t /\ id = n)
                  /\ Running(u, id)' => Running(u, id)
  BY <1>10, <1>11 DEF NoNewReplay, SameFibers, Wanted
<1>13. ~Waits(d) /\ Live(d) /\ docs'[t].life = "live" /\ docs'[t].restoring # 0
  BY <1>4, <1>5, <1>8 DEF Waits, Live
<1>14. log' = Append(log, Entry("restore.requested", t, m, n))
  BY <1>1, <1>8
<1> HIDE DEF d, r, n, e
<1>15. Keeps
  BY <1>1, <1>8, <1>12, <1>13, <1>14, OrderKeeps DEF Keeps, d
<1> QED BY <1>8, <1>15 DEF d

\* A restore settles: on a thread that is gone nothing is written.
LEMMA SettlesKeep ==
  ASSUME CInv, OrdersInv, NEW f \in Fibers, Settle(f)
  PROVE  Keeps /\ \A t \in Threads : docs'[t].life = docs[t].life
<1> DEFINE job == fibers[f]
           t == job.thread
           e == Entry(IF job.ok THEN "restored" ELSE "restore.failed", t, job.turn, job.id)
<1>1. /\ Inside(job) /\ Become(f, Idle) /\ AppendIfLive(t, <<RestoreSettled(job.ok)>>)
      /\ IF Live(docs[t]) THEN log' = Append(log, e) ELSE log' = log
      /\ UNCHANGED <<projects, turns, messages, requests>>
      /\ mailbox' = mailbox /\ handled' = handled /\ replay' = replay
  BY DEF Settle, Record, Inside
<1>2. Running(t, job.id) /\ t \in Threads
  BY <1>1 DEF Running, OrdersInv, RunsAreOpen
<1>3. Idle.pc = "idle"
  BY DEF Idle
<1>4. NoNewMail /\ NoNewReplay /\ SameFibers
  BY <1>1, <1>3, UnchangedMail, UnchangedReplay, FibersBecome, HoldsNone DEF CInv
<1>5. CASE ~Live(docs[t])
  <2>1. docs' = docs
    BY <1>1, <1>5, AppendIfLiveIs DEF CInv, vars, AppendThreadEvents
  <2>2. QuietStep
    BY <1>1, <1>4, <1>5, <2>1, CalmIsQuiet, UnchangedDocs
  <2> QED BY <2>1, <2>2, QuietKeeps DEF Keeps
<1>6. CASE Live(docs[t])
  <2>1. \A u, id : ~Running(u, id)'
    <3>1. \A g \in Fibers : fibers'[g] = IF g = f THEN Idle ELSE fibers[g]
      BY <1>1 DEF Become, CInv, FibersKnown
    <3>2. \A g \in Fibers \ {f} : ~Inside(fibers[g])
      BY <1>1 DEF CInv, FibersKnown
    <3> QED BY <1>3, <3>1, <3>2 DEF Running, Inside
  <2>2. docs' = [docs EXCEPT ![t] = ApplyAll(docs[t], <<RestoreSettled(job.ok)>>)]
    BY <1>1, <1>6 DEF AppendIfLive, Commit
  <2>3. Shaped(docs[t]) /\ docs[t].life # "none"
    BY <1>2, <1>6 DEF CInv, IInv, DocInv, Live
  <2> DEFINE ok == job.ok
             c == ApplyAll(docs[t], <<RestoreSettled(ok)>>)
  <2>4. c.life = docs[t].life /\ c.restoring = 0
    <3> HIDE DEF ok, t
    <3> QED BY <2>3, ApplyOne, RestoreEvent
  <2>5. docs'[t] = c /\ \A u \in Threads \ {t} : docs'[u] = docs[u]
    <3>1. docs' = [docs EXCEPT ![t] = c]
      BY <2>2
    <3> HIDE DEF c, t
    <3> QED BY <1>2, <3>1, CommitIs DEF CInv
  <2>6. e.type \in Outcomes /\ e.thread = t /\ e.id = job.id
    BY DEF Entry, Outcomes
  <2>7. \A u, id : Wanted(u, id)' => Wanted(u, id)
    BY <1>4 DEF NoNewMail, NoNewReplay, SameFibers, Wanted
  <2>8. log' = Append(log, e) /\ docs'[t].life = "live" /\ docs'[t].restoring = 0
    BY <1>1, <1>6, <2>4, <2>5 DEF Live
  <2> HIDE DEF e, c, t, job, ok
  <2>9. Keeps
    BY <1>1, <1>2, <1>6, <2>1, <2>5, <2>6, <2>7, <2>8, OutcomeKeeps DEF Keeps
  <2>10. \A u \in Threads : docs'[u].life = docs[u].life
    BY <2>4, <2>5
  <2> QED BY <2>9, <2>10
<1> QED BY <1>5, <1>6

\* The boot lists the open orders of the log, and all of them.
LEMMA BootLists ==
  ASSUME LogKnown
  PROVE  /\ \E S : PendingRestores \in Seq(S)
         /\ \A i \in DOMAIN PendingRestores :
              IsOpen(PendingRestores[i].thread, PendingRestores[i].id)
         /\ \A t, id : IsOpen(t, id) => \E i \in DOMAIN PendingRestores : PendingRestores[i].thread = t
<1> DEFINE places == {k \in DOMAIN log : /\ log[k].type = "restore.requested"
                                         /\ \A j \in DOMAIN log : j > k => log[j].thread # log[k].thread}
<1>1. PICK S : log \in Seq(S)
  BY DEF LogKnown
<1>2. \A k : k \in places <=> OpenAt(k)
  BY DEF OpenAt
<1>3. places \in SUBSET (DOMAIN log) /\ PendingRestores = Keeping(log, places)
  BY DEF PendingRestores
<1> HIDE DEF places
<1>4. /\ PendingRestores \in Seq(S)
      /\ \A i \in DOMAIN PendingRestores : \E k \in places : PendingRestores[i] = log[k]
  BY <1>1, <1>3, KeepingHolds
<1>5. \A k \in places : \E i \in DOMAIN PendingRestores : PendingRestores[i] = log[k]
  BY <1>1, <1>3, KeepingReaches
<1>6. \A i \in DOMAIN PendingRestores : IsOpen(PendingRestores[i].thread, PendingRestores[i].id)
  BY <1>2, <1>4 DEF IsOpen
<1>7. \A t, id : IsOpen(t, id) => \E i \in DOMAIN PendingRestores : PendingRestores[i].thread = t
  BY <1>2, <1>5 DEF IsOpen
<1> QED BY <1>4, <1>6, <1>7

\* A kill, and the boot after it.
LEMMA RestartsKeep ==
  ASSUME CInv, OrdersInv, Kill \/ Boot
  PROVE  Keeps
<1>1. docs' = docs /\ log' = log
  BY DEF Kill, Boot, vars
<1>2. CASE Kill
  <2>1. mailbox' = <<>> /\ replay' = <<>> /\ \A f \in Fibers : fibers'[f].pc = "idle"
    BY <1>2 DEF Kill, Idle
  <2>2. \A t, id : ~Wanted(t, id)' /\ ~Running(t, id)'
    BY <2>1 DEF Wanted, InMail, InReplay, AtLock, Running, Inside
  <2> QED BY <1>1, <2>2, RestartKeeps DEF Keeps
<1>3. CASE Boot
  <2>1. handled' = handled /\ mailbox' = mailbox /\ fibers' = fibers /\ replay' = PendingRestores
    BY <1>3 DEF Boot
  <2>2. NoNewMail /\ SameFibers
    BY <2>1, UnchangedMail, UnchangedFibers
  <2>3. \A t, id : InReplay(t, id)' => IsOpen(t, id)
    BY <2>1, BootLists DEF OrdersInv, InReplay
  <2>4. /\ \A t, id : Wanted(t, id)' => Wanted(t, id) \/ IsOpen(t, id)
        /\ \A t, id : Running(t, id)' => Running(t, id)
    BY <2>2, <2>3 DEF NoNewMail, SameFibers, Wanted
  <2> QED BY <1>1, <2>1, <2>4, RestartKeeps DEF Keeps
<1> QED BY <1>2, <1>3

\* The boot's list stays a list.
LEMMA ReplayIsAList ==
  ASSUME OrdersInv, [CheckpointNext]_cvars
  PROVE  (\E S : replay \in Seq(S))'
<1>1. PICK S : replay \in Seq(S)
  BY DEF OrdersInv
<1>2. \/ replay' = replay
      \/ replay' = <<>>
      \/ replay # <<>> /\ replay' = Tail(replay)
      \/ replay' = PendingRestores
  BY DEF CheckpointNext, cvars, ClientStepOf, ClientWorks, ClientDeletes, ClientRestores, TurnEnds,
         ClientCreates, ClientRemoves, Reactors, LiveStep, LiveTakes, CaptureGit, CaptureCreated,
         RestoreStepOf, EnterRestore, GitRestore, GitEnds, Settle, ReplayStep, ReplayNext, SettleFails,
         ReplayAfterError, Kill, Boot
<1>3. CASE replay # <<>> /\ replay' = Tail(replay)
  BY <1>1, <1>3, LessMail
<1>4. CASE replay' = PendingRestores
  BY <1>4, BootLists DEF OrdersInv
<1>5. CASE replay' = <<>>
  <2>1. <<>> \in Seq(S)
    OBVIOUS
  <2> QED BY <1>5, <2>1
<1> QED BY <1>1, <1>2, <1>3, <1>4, <1>5

\* What is known of the orders stays known.
LEMMA OrdersKeep ==
  ASSUME CInv, OrdersInv, [CheckpointNext]_cvars
  PROVE  OrdersInv'
<1> SUFFICES Keeps
  BY ReplayIsAList DEF Keeps, OrdersInv, OrdersOpen
<1>1. CASE QuietStep
  BY <1>1, QuietKeeps DEF Keeps
<1>2. CASE UNCHANGED cvars
  <2>1. /\ log' = log /\ handled' = handled /\ docs' = docs /\ mailbox' = mailbox
        /\ replay' = replay /\ fibers' = fibers
    BY <1>2 DEF cvars
  <2>2. QuietStep
    BY <2>1, CalmIsQuiet, UnchangedDocs, UnchangedMail, UnchangedReplay, UnchangedFibers
  <2> QED BY <1>1, <2>2
<1>3. ASSUME NEW t \in Threads, ClientStepOf(t) PROVE Keeps
  BY <1>1, <1>3, CallersQuiet, DeletesKeep, RequestKeeps DEF ClientStepOf
<1>4. CASE \/ \E t \in Threads : TurnEnds(t)
           \/ \E p \in Projects : ClientCreates(p) \/ ClientRemoves(p)
  BY <1>1, <1>4, CallersQuiet
<1>5. CASE LiveTakes \/ CaptureGit \/ CaptureCreated \/ ReplayNext
  BY <1>1, <1>5, TakesQuiet, CapturesQuiet, ReplayQuiet
<1>6. ASSUME NEW f \in Fibers, RestoreStepOf(f) \/ SettleFails(f) PROVE Keeps
  BY <1>1, <1>6, RestoresQuiet, SettlesKeep DEF RestoreStepOf
<1>7. CASE Kill \/ Boot
  BY <1>7, RestartsKeep
<1> QED
  BY <1>2, <1>3, <1>4, <1>5, <1>6, <1>7 DEF CheckpointNext, LiveStep, ReplayStep, Fibers
----------------------------------------------------------------------------
(* The hidden refs of deleted threads.                                     *)

\* What is published stays until the live loop takes it.
LEMMA PrunesLater ==
  ASSUME MailKnown, NEW t
  PROVE  /\ mailbox' = mailbox => (PruneDue(t) => PruneDue(t)')
         /\ \A e : mailbox' = Append(mailbox, e) => (PruneDue(t) => PruneDue(t)')
         /\ \A e : mailbox' = Append(mailbox, e) /\ e.type = "thread.deleted" /\ e.thread = t => PruneDue(t)'
         /\ mailbox # <<>> /\ mailbox' = Tail(mailbox) =>
              (PruneDue(t) => \/ PruneDue(t)'
                              \/ Head(mailbox).type = "thread.deleted" /\ Head(mailbox).thread = t)
<1>1. PICK S : mailbox \in Seq(S)
  BY DEF MailKnown
<1>2. DOMAIN mailbox = 1..Len(mailbox) /\ Len(mailbox) \in Nat
  BY <1>1
<1>3. ASSUME mailbox' = mailbox, PruneDue(t) PROVE PruneDue(t)'
  BY <1>3 DEF PruneDue
<1>4. ASSUME NEW e, mailbox' = Append(mailbox, e)
      PROVE  /\ PruneDue(t) => PruneDue(t)'
             /\ e.type = "thread.deleted" /\ e.thread = t => PruneDue(t)'
  <2>1. /\ DOMAIN mailbox' = 1..(Len(mailbox) + 1) /\ mailbox'[Len(mailbox) + 1] = e
        /\ \A k \in 1..Len(mailbox) : mailbox'[k] = mailbox[k]
    BY <1>1, <1>4
  <2>2. Len(mailbox) + 1 \in DOMAIN mailbox' /\ \A k \in 1..Len(mailbox) : k \in DOMAIN mailbox'
    BY <1>2, <2>1
  <2> QED BY <1>2, <2>1, <2>2 DEF PruneDue
<1>5. ASSUME mailbox # <<>>, mailbox' = Tail(mailbox), PruneDue(t)
      PROVE  \/ PruneDue(t)'
             \/ Head(mailbox).type = "thread.deleted" /\ Head(mailbox).thread = t
  <2>1. PICK k \in DOMAIN mailbox : mailbox[k].type = "thread.deleted" /\ mailbox[k].thread = t
    BY <1>5 DEF PruneDue
  <2>2. CASE k = 1
    BY <1>5, <2>1, <2>2, <1>1
  <2>3. CASE k # 1
    <3>1. k - 1 \in DOMAIN Tail(mailbox) /\ Tail(mailbox)[k - 1] = mailbox[k]
      BY <1>1, <1>2, <1>5, <2>3
    <3> QED BY <1>5, <2>1, <3>1 DEF PruneDue
  <2> QED BY <2>2, <2>3
<1> QED BY <1>3, <1>4, <1>5

\* Steps that prune nothing, capture nothing and take no prune away.
LEMMA RefsCalm ==
  ASSUME RefsInv, faults' = faults, refs' = refs, NEW gone,
         \A t \in Threads : docs'[t].life = "deleted" => docs[t].life = "deleted" \/ t = gone,
         \A t \in Threads : PruneDue(t) => PruneDue(t)',
         gone \in Threads => PruneDue(gone)',
         fibers'["live"] = fibers["live"] \/ fibers'["live"].pc # "capture"
  PROVE  RefsInv'
<1>1. \A t : Capturing(t)' => Capturing(t)
  BY DEF Capturing
<1> QED BY <1>1 DEF RefsInv

\* The live loop takes an event: the deletion it takes away, it has acted on.
LEMMA TakesRefs ==
  ASSUME CInv, RefsInv, LiveTakes
  PROVE  RefsInv'
<1> DEFINE e == Head(mailbox)
           job == [Idle EXCEPT !.pc = "capture", !.thread = e.thread, !.turn = e.turn]
<1>1. /\ docs' = docs /\ faults' = faults /\ mailbox # <<>> /\ mailbox' = Tail(mailbox)
      /\ fibers["live"].pc = "idle" /\ "live" \in Fibers
      /\ fibers = [f \in Fibers |-> fibers[f]] /\ refs = [t \in Threads |-> refs[t]]
  BY DEF LiveTakes, vars, Fibers, CInv, FibersKnown, RefsInv
<1>2. \A t : ~Capturing(t)
  BY <1>1 DEF Capturing
<1>3. \A t : PruneDue(t) => PruneDue(t)' \/ (e.type = "thread.deleted" /\ e.thread = t)
  BY <1>1, PrunesLater DEF CInv
<1>4. job.pc = "capture" /\ job.thread = e.thread /\ JobOf(e).pc = "lock"
  BY DEF JobOf, Idle
<1>5. TakeRestore(e) \/ TakeCompletion(e) \/ TakeDeletion(e) \/ TakeRemoval(e)
  BY DEF LiveTakes
<1>6. \/ fibers' = fibers
      \/ Become("live", JobOf(e))
      \/ Become("live", job) /\ Live(docs[e.thread])
  BY <1>5 DEF TakeRestore, TakeCompletion, TakeDeletion, TakeRemoval
<1>7. \/ refs' = refs /\ e.type # "thread.deleted"
      \/ refs' = [refs EXCEPT ![e.thread] = {}]
      \/ e.type # "thread.deleted"
         /\ refs' = [t \in Threads |-> IF ProjectOf[t] = e.project THEN {} ELSE refs[t]]
  BY <1>5 DEF TakeRestore, TakeCompletion, TakeDeletion, TakeRemoval, Pruned
<1> HIDE DEF e, job
<1>8. \A t : Capturing(t)' => t = e.thread /\ Live(docs[t])
  BY <1>1, <1>2, <1>4, <1>6 DEF Capturing, Become
<1>9. /\ refs' = [t \in Threads |-> refs'[t]]
      /\ \A t \in Threads : refs'[t] # {} => refs[t] # {} /\ ~(e.type = "thread.deleted" /\ e.thread = t)
  BY <1>1, <1>7
<1> QED BY <1>1, <1>3, <1>8, <1>9 DEF RefsInv, Live

\* A deleted thread's refs, and those a capture may still add, have their prune to come.
LEMMA RefsKeep ==
  ASSUME CInv, OrdersInv, RefsInv, [CheckpointNext]_cvars
  PROVE  RefsInv'
<1>1. MailKnown /\ fibers = [f \in Fibers |-> fibers[f]] /\ "live" \in Fibers
  BY DEF CInv, FibersKnown, Fibers
<1>2. ASSUME faults' = faults + 1, refs' = refs PROVE RefsInv'
  BY <1>2 DEF RefsInv
<1>3. ASSUME faults' = faults, refs' = refs, NEW gone,
             mailbox' = mailbox \/ \E e : mailbox' = Append(mailbox, e),
             \A t \in Threads : docs'[t].life = "deleted" => docs[t].life = "deleted" \/ t = gone,
             gone \in Threads => PruneDue(gone)',
             fibers'["live"] = fibers["live"] \/ fibers'["live"].pc # "capture"
      PROVE  RefsInv'
  <2>1. \A t \in Threads : PruneDue(t) => PruneDue(t)'
    BY <1>1, <1>3, PrunesLater
  <2> QED BY <1>3, <2>1, RefsCalm
<1>4. PICK none : none \notin Threads
  <2>1. (CHOOSE x : x \notin Threads) \notin Threads
    BY NoSetContainsEverything
  <2> QED BY <2>1
<1>5. ASSUME faults' = faults, refs' = refs,
             mailbox' = mailbox \/ \E e : mailbox' = Append(mailbox, e),
             \A t \in Threads : docs'[t].life = "deleted" => docs[t].life = "deleted",
             fibers'["live"] = fibers["live"] \/ fibers'["live"].pc # "capture"
      PROVE  RefsInv'
  BY <1>3, <1>4, <1>5
<1>6. AllUnmoved => \A t \in Threads : docs'[t].life = "deleted" => docs[t].life = "deleted"
  BY DEF AllUnmoved, Unmoved
<1>7. Idle.pc = "idle"
  BY DEF Idle
<1>8. CASE UNCHANGED cvars
  BY <1>5, <1>8 DEF cvars
<1>9. CASE \/ \E t \in Threads : ClientWorks(t) \/ TurnEnds(t)
           \/ \E p \in Projects : ClientCreates(p) \/ ClientRemoves(p)
  <2>1. AllUnmoved
    BY <1>9, CallersQuiet DEF QuietStep
  <2>2. /\ faults' = faults /\ refs' = refs /\ fibers' = fibers
        /\ mailbox' = mailbox \/ \E e : mailbox' = Append(mailbox, e)
    BY <1>9 DEF ClientWorks, TurnEnds, ClientCreates, ClientRemoves, Reactors, Publish
  <2> QED BY <1>5, <1>6, <2>1, <2>2
<1>10. ASSUME NEW t \in Threads, ClientDeletes(t) PROVE RefsInv'
  <2> DEFINE e == [type |-> "thread.deleted", thread |-> t]
  <2>1. /\ faults' = faults /\ refs' = refs /\ fibers' = fibers /\ mailbox' = Append(mailbox, e)
        /\ e.type = "thread.deleted" /\ e.thread = t
    BY <1>10 DEF ClientDeletes, Reactors, Publish
  <2> HIDE DEF e
  <2>2. PruneDue(t)'
    BY <1>1, <2>1, PrunesLater
  <2>3. \A u \in Threads \ {t} : docs'[u] = docs[u]
    BY <1>10, DeletesKeep
  <2> QED BY <1>3, <2>1, <2>2, <2>3
<1>11. ASSUME NEW t \in Threads, ClientRestores(t) PROVE RefsInv'
  <2>1. \A u \in Threads : docs'[u].life = docs[u].life
    BY <1>11, RequestKeeps
  <2>2. /\ faults' = faults /\ refs' = refs /\ fibers' = fibers
        /\ \E e : mailbox' = Append(mailbox, e)
    BY <1>11 DEF ClientRestores, Reactors, Publish
  <2> QED BY <1>5, <2>1, <2>2
<1>12. CASE CaptureCreated
  <2>1. AllUnmoved
    BY <1>12, CapturesQuiet DEF QuietStep
  <2>2. faults' = faults /\ refs' = refs /\ mailbox' = mailbox /\ fibers'["live"].pc # "capture"
    BY <1>1, <1>7, <1>12 DEF CaptureCreated, Become
  <2> QED BY <1>5, <1>6, <2>1, <2>2
<1>13. CASE CaptureGit
  <2> DEFINE t == fibers["live"].thread
             m == fibers["live"].turn
  <2>1. /\ docs' = docs /\ faults' = faults /\ mailbox' = mailbox /\ fibers["live"].pc = "capture"
        /\ refs' = refs \/ refs' = [refs EXCEPT ![t] = @ \cup {m}]
        /\ GoTo("live", "created") \/ Become("live", Idle)
    BY <1>13 DEF CaptureGit, vars
  <2>2. [fibers["live"] EXCEPT !.pc = "created"].pc = "created"
    BY <1>1 DEF CInv, FibersKnown, JobKnown, JobFields
  <2>3. fibers'["live"].pc # "capture"
    BY <1>1, <1>7, <2>1, <2>2 DEF GoTo, Become
  <2>4. Capturing(t)
    BY <2>1 DEF Capturing
  <2>5. \A u : PruneDue(u) => PruneDue(u)'
    BY <2>1 DEF PruneDue
  <2>6. \A u : ~Capturing(u)'
    BY <2>3 DEF Capturing
  <2> HIDE DEF t, m
  <2>7. /\ refs' = [u \in Threads |-> refs'[u]]
        /\ \A u \in Threads : refs'[u] # {} => refs[u] # {} \/ u = t
    BY <2>1 DEF RefsInv
  <2> QED BY <2>1, <2>4, <2>5, <2>6, <2>7 DEF RefsInv
<1>14. CASE ReplayNext
  <2>1. fibers'["live"] = fibers["live"]
    BY <1>1, <1>14 DEF ReplayNext, Become
  <2>2. docs' = docs /\ faults' = faults /\ refs' = refs /\ mailbox' = mailbox
    BY <1>14 DEF ReplayNext, vars
  <2> QED BY <1>5, <2>1, <2>2
<1>15. ASSUME NEW f \in Fibers, RestoreStepOf(f) PROVE RefsInv'
  <2>1. \A t \in Threads : docs'[t].life = docs[t].life
    BY <1>15, SettlesKeep DEF RestoreStepOf, EnterRestore, GitRestore, GitEnds, vars
  <2>2. faults' = faults /\ refs' = refs /\ mailbox' = mailbox
    BY <1>15 DEF RestoreStepOf, EnterRestore, GitRestore, GitEnds, Settle
  <2>3. fibers[f] = [x \in JobFields |-> fibers[f][x]]
    BY DEF CInv, FibersKnown, JobKnown
  <2>4. \A pc, ok : /\ [fibers[f] EXCEPT !.pc = pc].pc = pc
                    /\ [fibers[f] EXCEPT !.pc = pc, !.ok = ok].pc = pc
    BY <2>3 DEF JobFields
  <2>5. \E job : Become(f, job) /\ job.pc \in {"idle", "restore", "rewriting", "settle"}
    <3>1. \/ Become(f, Idle)
          \/ \E pc \in {"restore", "rewriting", "settle"} : Become(f, [fibers[f] EXCEPT !.pc = pc])
          \/ \E ok : Become(f, [fibers[f] EXCEPT !.pc = "settle", !.ok = ok])
      BY <1>15 DEF RestoreStepOf, EnterRestore, GitRestore, GitEnds, Settle, GoTo
    <3>2. ASSUME NEW pc \in {"restore", "rewriting", "settle"}, Become(f, [fibers[f] EXCEPT !.pc = pc])
          PROVE  \E job : Become(f, job) /\ job.pc \in {"idle", "restore", "rewriting", "settle"}
      <4> DEFINE job == [fibers[f] EXCEPT !.pc = pc]
      <4>1. Become(f, job) /\ job.pc = pc
        BY <2>4, <3>2
      <4> HIDE DEF job
      <4> QED BY <4>1
    <3>3. ASSUME NEW ok, Become(f, [fibers[f] EXCEPT !.pc = "settle", !.ok = ok])
          PROVE  \E job : Become(f, job) /\ job.pc \in {"idle", "restore", "rewriting", "settle"}
      <4> DEFINE job == [fibers[f] EXCEPT !.pc = "settle", !.ok = ok]
      <4>1. Become(f, job) /\ job.pc = "settle"
        BY <2>4, <3>3
      <4> HIDE DEF job
      <4> QED BY <4>1
    <3> QED BY <1>7, <3>1, <3>2, <3>3
  <2>6. fibers'["live"] = fibers["live"] \/ fibers'["live"].pc # "capture"
    BY <1>1, <2>5 DEF Become
  <2> QED BY <1>5, <2>1, <2>2, <2>6
<1>16. CASE (\E f \in Fibers : SettleFails(f)) \/ Kill
  BY <1>2, <1>16 DEF SettleFails, Kill
<1>17. CASE Boot
  BY <1>5, <1>17 DEF Boot, vars
<1> QED
  BY <1>8, <1>9, <1>10, <1>11, <1>12, <1>13, <1>14, <1>15, <1>16, <1>17, TakesRefs
     DEF CheckpointNext, ClientStepOf, LiveStep, ReplayStep, Fibers
----------------------------------------------------------------------------
(* The orders and the refs, for every reachable state.                     *)

\* The holders of an order and the line it is settled by; the prunes to come.
Known == CInv /\ OrdersInv /\ RefsInv

\* What an order's holders know, and what is to be pruned, is known throughout.
THEOREM OrdersInvariant == CheckpointSafe => []Known
<1>1. CheckpointInit => OrdersInv /\ RefsInv
  <2> SUFFICES ASSUME CheckpointInit PROVE OrdersInv /\ RefsInv
    OBVIOUS
  <2>1. /\ log = <<>> /\ mailbox = <<>> /\ replay = <<>> /\ faults = 0 /\ refs = [t \in Threads |-> {}]
        /\ \A f \in Fibers : fibers[f].pc = "idle"
        /\ \A t \in Threads : docs[t].life = "none"
    BY DEF CheckpointInit, Idle, Init, NoDoc
  <2>2. (\E S : log \in Seq(S)) /\ (\E S : replay \in Seq(S)) /\ DOMAIN log = {}
    BY <2>1
  <2>3. \A t, id : ~Wanted(t, id) /\ ~Running(t, id) /\ ~IsOpen(t, id)
    BY <2>1 DEF Wanted, InMail, InReplay, AtLock, Running, Inside, IsOpen, OpenAt
  <2>4. OrdersInv
    BY <2>1, <2>2, <2>3 DEF OrdersInv, LogKnown, LogMatches, WantedAreOpen, RunsAreOpen,
                            OneOutcomePerOrder, Waits, Live
  <2>5. RefsInv
    BY <2>1 DEF RefsInv
  <2> QED BY <2>4, <2>5
<1>2. CInv /\ OrdersInv /\ RefsInv /\ [CheckpointNext]_cvars => OrdersInv' /\ RefsInv'
  BY OrdersKeep, RefsKeep
<1> QED BY <1>1, <1>2, CheckpointInvariant, PTL DEF CheckpointSafe, Known

\* An order has one outcome at most, and none after its thread's deletion
\* (settle, pendingRestores and the handled set, CheckpointReactor.ts).
THEOREM OrdersSettleOnce == CheckpointSafe => []OneOutcomePerOrder
<1>1. Known => OneOutcomePerOrder
  BY DEF Known, OrdersInv
<1> QED BY <1>1, OrdersInvariant, PTL

\* The fold of the document and the boot's fold of the log agree on which
\* threads wait for a restore (pendingRestores, CheckpointReactor.ts).
THEOREM BootReadsTheDocuments == CheckpointSafe => []RestoringMatchesLog
<1>1. Known => RestoringMatchesLog
  <2> SUFFICES ASSUME Known PROVE RestoringMatchesLog
    OBVIOUS
  <2> DEFINE pending == PendingRestores
  <2>1. LogKnown /\ LogMatches
    BY DEF Known, OrdersInv
  <2>2. /\ \A i \in DOMAIN pending : IsOpen(pending[i].thread, pending[i].id)
        /\ \A t, id : IsOpen(t, id) => \E i \in DOMAIN pending : pending[i].thread = t
    BY <2>1, BootLists
  <2>3. \A t, id : IsOpen(t, id) => t \in Threads
    BY <2>1 DEF LogKnown, IsOpen, OpenAt
  <2> HIDE DEF pending
  <2>4. {t \in Threads : Live(docs[t]) /\ docs[t].restoring # 0} = {pending[k].thread : k \in DOMAIN pending}
    BY <2>1, <2>2, <2>3 DEF LogMatches, Waits
  <2> QED BY <2>4 DEF RestoringMatchesLog, pending
<1> QED BY <1>1, OrdersInvariant, PTL

\* A deleted thread has no refs once the live loop has come to its deletion,
\* a capture that was under way included, as long as no server was killed.
THEOREM PrunesFollowDeletes == CheckpointSafe => []DeletedThreadsLeaveNoRefs
<1>1. Known => DeletedThreadsLeaveNoRefs
  BY DEF Known, RefsInv, DeletedThreadsLeaveNoRefs, PruneDue
<1> QED BY <1>1, OrdersInvariant, PTL

\* No turn starts in a workspace that git is rewriting for a live thread: the
\* restore inside the mutex has its order open, so the thread's document still
\* waits, and the engine starts no turn beside a document that does.
THEOREM TurnsLeaveGitAlone == CheckpointSafe => TurnsWaitForGit
<1> DEFINE Waiting ==
      \A t \in Threads, f \in Fibers :
        /\ docs'[t].turn \notin {0, docs[t].turn}
        /\ Rewriting(f) /\ Live(docs[fibers[f].thread])
        => ~SharesWorkspaceRoot(t, fibers[f].thread)
<1>1. Known /\ [CheckpointNext]_cvars => Waiting
  <2> SUFFICES ASSUME Known, [CheckpointNext]_cvars, NEW t \in Threads, NEW f \in Fibers,
                      docs'[t].turn \notin {0, docs[t].turn}, Rewriting(f),
                      Live(docs[fibers[f].thread]), SharesWorkspaceRoot(t, fibers[f].thread)
               PROVE  FALSE
    OBVIOUS
  <2> DEFINE u == fibers[f].thread
  <2>1. Running(u, fibers[f].id)
    BY DEF Running, Rewriting, Inside
  <2>2. u \in Threads /\ IsOpen(u, fibers[f].id)
    BY <2>1 DEF Known, OrdersInv, RunsAreOpen
  <2>3. docs[u].restoring # 0
    BY <2>2 DEF Known, OrdersInv, LogMatches, Waits
  <2>4. IInv /\ [Next]_vars
    BY StepsOfTheEngine, EngineStepKeeps DEF Known, CInv
  <2>5. SharesWorkspaceRoot(u, t)
    BY DEF SharesWorkspaceRoot
  <2> HIDE DEF u
  <2>6. StartsSettled
    BY <2>4, TurnsSettled
  <2> QED BY <2>2, <2>3, <2>5, <2>6 DEF StartsSettled, u
<1>2. Known /\ [CheckpointNext]_cvars => [Waiting]_cvars
  BY <1>1
<1> QED BY <1>2, OrdersInvariant, PTL DEF CheckpointSafe, TurnsWaitForGit
=============================================================================
