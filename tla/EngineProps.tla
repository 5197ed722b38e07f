----------------------------- MODULE EngineProps ----------------------------
(***************************************************************************)
(* What the engine promises whoever calls it.                              *)
(***************************************************************************)
EXTENDS Engine

\* The shape of the documents, and every id minted before it is used.
TypeOK ==
  /\ projects \subseteq Projects
  /\ turns \in [Threads -> 0..MaxTurns]
  /\ messages \in [Threads -> 0..MaxMessages]
  /\ requests \in [Threads -> 0..MaxRequests]
  /\ DOMAIN docs = Threads
  /\ \A t \in Threads :
       docs[t] \in
         [life : {"none", "live", "deleted"}, status : Statuses,
          session : [instance : Instances \cup {NoInstance}, steering : Steering],
          chosen : Instances \cup {NoInstance}, spoke : BOOLEAN, turn : 0..turns[t],
          interrupting : BOOLEAN, queue : Seq(1..messages[t]),
          approvals : SUBSET (1..requests[t]), userInputs : SUBSET (1..requests[t]),
          plan : 0..turns[t],
          decisions : Seq([id : 1..requests[t], outcome : {"answered", "unanswered"}]),
          checkpoints : SUBSET (1..turns[t]), restoring : 0..turns[t]]

\* Stopping is always about a turn: whatever ends the turn (its completion,
\* a fatal error, a lost session, an unarchive) also ends the stop, so no
\* later turn can start out refused as "already stopping".
StopNamesATurn == \A t \in Threads : docs[t].interrupting => docs[t].turn # 0

\* A thread at rest hides nothing: "idle" means no turn, no approval, no
\* question and no plan is left, whichever event put it to rest.
IdleIsQuiet ==
  \A t \in Threads : docs[t].status = "idle" => docs[t].turn = 0 /\ ~HasCard(docs[t])

\* A thread marked "waiting" has a card to answer.
WaitingHasACard == \A t \in Threads : docs[t].status = "waiting" => HasCard(docs[t])

\* A thread never has a turn in flight while its own restore rewrites the tree.
NoTurnWhileRestoring ==
  \A t \in Threads : docs[t].restoring # 0 => docs[t].turn = 0

\* Two restores never run over one workspace root.
OneRestorePerRoot ==
  \A t, u \in Threads :
    /\ t # u /\ Live(docs[t]) /\ Live(docs[u])
    /\ docs[t].restoring # 0 /\ docs[u].restoring # 0
    => ~SharesWorkspaceRoot(t, u)

\* No queued message is listed twice, whatever order moves, removals, drains
\* and re-queues happen in.
QueueListsOnce ==
  \A t \in Threads : \A j, k \in DOMAIN docs[t].queue :
    docs[t].queue[j] = docs[t].queue[k] => j = k

\* One outcome per request, and none while its card is still open: the
\* connector's echo of a user's answer writes no second line.
DecidedOnce ==
  \A t \in Threads :
    LET log == docs[t].decisions
    IN  /\ \A j, k \in DOMAIN log : log[j].id = log[k].id => j = k
        /\ \A j \in DOMAIN log : log[j].id \notin docs[t].approvals \cup docs[t].userInputs

\* A step starts a turn only where no restore of a live thread in that root is
\* in flight and the thread is not archived.
TurnsStartOnSettledTrees ==
  [][\A t \in Threads :
       docs'[t].turn \notin {0, docs[t].turn}
         => /\ docs[t].status # "archived"
            /\ \A u \in Threads : Live(docs[u]) /\ SharesWorkspaceRoot(u, t)
                                    => docs[u].restoring = 0]_vars

\* A turn in flight is replaced by nothing but its own end: there is never a
\* step from one turn straight to another.
OneTurnAtATime ==
  [][\A t \in Threads :
       docs[t].turn # 0 /\ docs'[t].turn # docs[t].turn /\ Live(docs'[t]) /\ Live(docs[t])
         => docs'[t].turn = 0]_vars
=============================================================================
