--------------------------- MODULE CheckpointProps ---------------------------
(***************************************************************************)
(* What the checkpoint reactor keeps while its two fibers, its clients and *)
(* a kill of the server interleave.                                        *)
(***************************************************************************)
EXTENDS CheckpointReactor

\* What restoreMutex is for: two restores never rewrite one directory at the
\* same time, although a thread deleted while the replay restores it no longer
\* keeps its siblings from ordering a restore of their own.
RestoresDoNotOverlap ==
  \A f, g \in Fibers :
    Rewriting(f) /\ Rewriting(g) /\ DirectoryOf(fibers[f].thread) = DirectoryOf(fibers[g].thread)
      => f = g

\* A turn starts in no directory that git is rewriting for a thread that still
\* exists: the order is accepted, run and settled on three different fibers,
\* and the turn's guard only ever sees the document.
TurnsWaitForGit ==
  [][\A t \in Threads, f \in Fibers :
       /\ docs'[t].turn \notin {0, docs[t].turn}
       /\ Rewriting(f) /\ Live(docs[fibers[f].thread])
       => ~SharesWorkspaceRoot(t, fibers[f].thread)]_cvars

\* The order and its outcome: an order settles at most once, whatever restarts,
\* replays and live deliveries of it there are, and never after the delete.
OneOutcomePerOrder ==
  \A k \in DOMAIN log : log[k].type \in Outcomes =>
    \E j \in 1..(k - 1) :
      /\ log[j].type = "restore.requested" /\ log[j].id = log[k].id
      /\ \A i \in (j + 1)..(k - 1) : log[i].thread # log[k].thread

\* The document's fold and the boot's own fold of the log agree on which
\* threads have a restore to wait for: a thread shown restoring that the boot
\* does not list would be locked for good, and the other way round a tree would
\* be rewritten under a thread free to work.
RestoringMatchesLog ==
  {t \in Threads : Live(docs[t]) /\ docs[t].restoring # 0}
    = {PendingRestores[k].thread : k \in DOMAIN PendingRestores}

\* Captures and prunes share the live loop, so the checkpoint of a turn that
\* ended just before its thread was deleted is gone too once the loop is through
\* (unless the server was killed in between: nothing replays a prune).
DeletedThreadsLeaveNoRefs ==
  \A t \in Threads : docs[t].life = "deleted" /\ refs[t] # {} /\ faults = 0 =>
    \E k \in DOMAIN mailbox : mailbox[k].type = "thread.deleted" /\ mailbox[k].thread = t

\* The reactor and its callers do to the documents only what the engine's own
\* specification allows: everything proved of the engine holds here as well,
\* for the fibers' appends that reach a thread after its delete too.
EngineKept == Spec

\* A thread never stays restoring: the restore is settled, or the thread goes,
\* also when the server is killed between the order and its outcome.  Where the
\* outcome could not be written, the next boot settles it.
RestoresSettle ==
  \A t \in Threads : (Live(docs[t]) /\ docs[t].restoring # 0)
                       ~> (lost \/ ~(Live(docs[t]) /\ docs[t].restoring # 0))
=============================================================================
