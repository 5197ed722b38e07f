------------------------------ MODULE CmdProps ------------------------------
(***************************************************************************)
(* What one Command Code session and its approval gate promise.            *)
(***************************************************************************)
EXTENDS CmdSession

\* At most one harness process of the session is alive: a send waits for the
\* pump of the process before, even where turnDone has let it through
\* (session.ts send, activeProcess.ts).
OneHarness == \A m, n \in Turns : runs[m].alive /\ runs[n].alive => m = n

\* Frames, result line and exit describe one death: a run emits turn.completed
\* at most once, and exactly once by the time its pump has settled, if it ever
\* said run_start (translate.ts).
RunsCompleteOnce ==
  \A n \in Turns :
    /\ runs[n].completions <= 1
    /\ runs[n].pump = "settled" /\ runs[n].heard # "nothing" => runs[n].completions = 1

\* An approval card is resolved at most once on the event stream, whichever of
\* the user's answer, a release and the waking post come in whatever order.
ResolvedOnce == \A r \in Approvals : Len(cards[r]) <= 2

\* What the stream says an approval was decided is what stands in its Deferred
\* and, if the harness still waited for it, what the harness was told.
VerdictStands ==
  \A r \in Approvals :
    Len(cards[r]) = 2 =>
      /\ cards[r][2] = answer[r]
      /\ posts[r].pc = "done" => posts[r].told = answer[r]

\* A card on show can still be taken down: while the stream is open, a request
\* announced and not resolved is in the map that releasePending answers, also
\* when its post was cut.
CardsReachable == \A r \in Requests : Len(cards[r]) = 1 /\ ~over => r \in pending

\* A turn whose process said run_start is settled once that process is dead,
\* however it died and whoever killed it.
AnnouncedTurnsEnd ==
  \A n \in Turns :
    (runs[n].heard # "nothing" /\ ~runs[n].alive) ~> (handle.active # n)

\* A process that is alive when the session's stream has ended dies: a send
\* that was waiting for the crashed process goes on to spawn one.
OrphansDie == \A n \in Turns : (over /\ runs[n].alive) ~> ~runs[n].alive

\* "A turn always ends" (turnScopedHandle.ts:13): while a turn is active, with
\* everything said of it read and its send returned, there is a process or a
\* pump left to end it.
NoTurnWithoutProcess ==
  handle.active # 0 /\ stream = <<>> /\ ~over /\ caller.pc \notin {"awaiting", "spawning"} =>
    \E n \in Turns : runs[n].pump \in {"waiting", "crashing", "ending"}
=============================================================================
