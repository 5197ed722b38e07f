------------------------------ MODULE TwoFolds ------------------------------
(***************************************************************************)
(* One thread's events folded twice: into the server's document and into   *)
(* a client's view of it (Delivery.tla is about how they get there).  The  *)
(* commands go through the decider; the sessions and the reactors append   *)
(* as in Engine.tla.                                                       *)
(***************************************************************************)
EXTENDS Decider, ClientState, FiniteSets

CONSTANTS MaxTurns, MaxMessages, MaxRequests,   \* ids minted
          MaxMinted,                            \* ids minted altogether
          MaxOpen                               \* cards of a kind open at once

ASSUME FoldsAssumption ==
  {MaxTurns, MaxMessages, MaxRequests, MaxMinted, MaxOpen} \subseteq Nat

VARIABLES
  doc,      \* the server's document
  view,     \* what the client holds
  minted    \* the turn and message ids in use, and the kind of card of each request

fvars == <<doc, view, minted>>

\* Every event is folded on both sides; a thread that is gone has no more.
Folded(events) ==
  /\ Live(doc)
  /\ doc' = ApplyAll(doc, events)
  /\ view' = ViewApplyAll(view, events)

Writes(events) == Folded(events) /\ UNCHANGED minted

Names(events, type) == \E k \in DOMAIN events : events[k].type = type

Minted == minted.turns + minted.messages + Len(minted.cards)

Command(cmd) ==
  \E barred \in BOOLEAN :
    LET result == Decide(cmd, doc, [projectExists |-> TRUE, restoreInFlight |-> barred],
                         [turn |-> minted.turns + 1, message |-> minted.messages + 1])
        turn == IF Names(result.events, "thread.turn.requested") THEN 1 ELSE 0
        message == IF Names(result.events, "thread.message.queued") THEN 1 ELSE 0
    IN  /\ result.accepted
        /\ minted.turns + turn <= MaxTurns /\ minted.messages + message <= MaxMessages
        /\ Minted + turn + message <= MaxMinted
        /\ Folded(result.events)
        /\ minted' = [minted EXCEPT !.turns = @ + turn, !.messages = @ + message]

UserCommand ==
  \/ \E type \in {"thread.archive", "thread.unarchive", "thread.delete",
                  "thread.turn.steer", "thread.turn.interrupt"} : Command([type |-> type])
  \/ \E queued \in BOOLEAN : Command([type |-> "thread.turn.start", queued |-> queued])
  \/ \E r \in 1..Len(minted.cards), type \in {"thread.approval.respond", "thread.userInput.respond"} :
       Command([type |-> type, request |-> r])
  \/ \E m \in 1..minted.turns, type \in {"thread.plan.respond", "thread.checkpoint.restore"} :
       Command([type |-> type, turn |-> m])
  \/ \E q \in 1..minted.messages : Command([type |-> "thread.queue.remove", message |-> q])
  \/ \E q, to \in 1..minted.messages :
       Command([type |-> "thread.queue.reorder", message |-> q, to |-> to])

\* Whatever a session says of a turn may be late: the turn was given up since, or
\* another one is in flight.  A session bound without a word on steering is decided
\* on as no session is.
SessionWrites ==
  \/ \E i \in Instances, s \in Steering \ {"unknown"} : Writes(<<SessionBound(i, s)>>)
  \/ \E m \in 1..minted.turns :
       Writes(<<TurnStarted(m)>>) \/ Writes(<<TurnCompleted(m)>>) \/ Writes(<<PlanProposed(m)>>)
  \/ \E fatal \in BOOLEAN : Writes(<<ThreadError(fatal)>>)

CardOpens ==
  LET r == Len(minted.cards) + 1
  IN  /\ r <= MaxRequests /\ Minted < MaxMinted
      /\ \E card \in {"approval", "question"} :
           /\ Cardinality(IF card = "approval" THEN doc.approvals ELSE doc.userInputs) < MaxOpen
           /\ Folded(<<IF card = "approval" THEN ApprovalOpened(r) ELSE InputRequested(r)>>)
           /\ minted' = [minted EXCEPT !.cards = Append(@, card)]

\* An echo of the user's answer, or a release: of what is open, or no longer.
CardReleased ==
  \E r \in DOMAIN minted.cards :
    Writes(<<IF minted.cards[r] = "approval" THEN ApprovalResolved(r, "connector")
                                            ELSE InputResolved(r, "connector")>>)

\* failThread, with the turn, if any, of a document read before.
FailThread ==
  \/ Writes(<<ThreadError(TRUE)>>)
  \/ \E m \in 1..minted.turns : Writes(<<ThreadError(TRUE), TurnCompleted(m)>>)

\* The drain takes the queue's head; a message whose turn is refused is put back;
\* a steered one that missed its turn joins under a fresh id.
Drain ==
  /\ doc.status # "archived" /\ doc.turn = 0 /\ doc.queue # <<>>
  /\ Writes(<<Dequeued(Head(doc.queue))>>)

Requeue == \E q \in 1..minted.messages : ~Holds(doc.queue, q) /\ Writes(<<Queued(q)>>)

QueueSteered ==
  /\ minted.messages < MaxMessages /\ Minted < MaxMinted
  /\ Folded(<<Queued(minted.messages + 1)>>)
  /\ minted' = [minted EXCEPT !.messages = @ + 1]

\* The supervisor gives a session up.
GiveUp == Writes(<<SessionLost>>)

CheckpointTaken == \E m \in 1..minted.turns : Writes(<<CheckpointCreated(m)>>)

RestoreEnds == doc.restoring # 0 /\ \E ok \in BOOLEAN : Writes(<<RestoreSettled(ok)>>)

ReactorWrites ==
  \/ FailThread \/ Drain \/ Requeue \/ QueueSteered
  \/ GiveUp
  \/ CheckpointTaken \/ RestoreEnds

\* The view is dropped and asked for again.
Resnapshot == Live(doc) /\ view' = SnapshotOf(doc) /\ UNCHANGED <<doc, minted>>

FoldsInit ==
  /\ doc = Apply(NoDoc, Created(NoInstance))
  /\ view = SnapshotOf(doc)
  /\ minted = [turns |-> 0, messages |-> 0, cards |-> <<>>]

FoldsNext ==
  \/ UserCommand \/ SessionWrites \/ CardOpens \/ CardReleased \/ ReactorWrites \/ Resnapshot

FoldsSpec == FoldsInit /\ [][FoldsNext]_fvars
----------------------------------------------------------------------------
\* What a resnapshot would put right is not wrong, with late proposals, echoes and
\* refused commands: the queue, the session, the plan, the checkpoints and the
\* restore are the server's, and no card is on show whose answer the decider would
\* refuse.
FoldsAgree ==
  Live(doc) => /\ view.queue = doc.queue /\ view.session = doc.session /\ view.plan = doc.plan
               /\ view.checkpoints = doc.checkpoints /\ view.restoring = doc.restoring
               /\ view.approval # 0 => view.approval \in doc.approvals
               /\ view.userInput # 0 => view.userInput \in doc.userInputs

\* A start of a turn that is not the one in flight: the server keeps its own,
\* the client takes the one named.
StartsLate == \E m \in 1..minted.turns \ {doc.turn} : Writes(<<TurnStarted(m)>>)

\* What leaves the two with one turn, or with none, wherever they were.
Rejoins ==
  \/ minted'.turns # minted.turns
  \/ doc.turn # 0 /\ Writes(<<TurnStarted(doc.turn)>>)
  \/ Command([type |-> "thread.unarchive"]) \/ GiveUp \/ Writes(<<ThreadError(TRUE)>>)
  \/ Resnapshot

\* The view shows the turn the server has in flight until a late start sets them
\* apart: no completion, late or not, does, nor an archive, an interrupt or a
\* failure.  A new turn, the start of the one in flight, an unarchive, a session
\* lost, a fatal error and a snapshot bring them together again.
TurnsStayTogether ==
  [][Live(doc') => \/ view'.turn = doc'.turn
                   \/ (view.turn = doc.turn /\ StartsLate)
                   \/ (view.turn # doc.turn /\ ~Rejoins)]_fvars

\* The view's decision lines hold every decision of the server's log, with its
\* outcome, and no request twice, whoever resolved it and however often.
DecisionsShown ==
  /\ \A k \in DOMAIN doc.decisions :
       \E j \in DOMAIN view.decisions : view.decisions[j] = doc.decisions[k]
  /\ \A j, k \in DOMAIN view.decisions : view.decisions[j].id = view.decisions[k].id => j = k
=============================================================================
