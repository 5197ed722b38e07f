----------------------------- MODULE TurnScoped -----------------------------
(***************************************************************************)
(* The turn-scoped handle (connector-sdk/turnScopedHandle.ts) as pure      *)
(* operators on its one Ref: the turn it has sent and not settled, and     *)
(* whether the harness's event stream is over.  Turns are positive         *)
(* numbers and 0 is the null turn.  A harness event is its type; "end" is  *)
(* the end of the stream.  What the wrapper hands on carries the turn it   *)
(* was stamped with, 0 for none.                                           *)
(***************************************************************************)
EXTENDS Naturals, Sequences

NewHandle == [active |-> 0, finished |-> FALSE]

\* Mutant: a turn is sent over one that has not settled.
SendOutcomeOverlapping(h, m) ==
  IF h.finished THEN "closed" ELSE IF h.active = m THEN "duplicate" ELSE "send"

\* What `send` decides, in one atomic update of the Ref.
SendOutcome(h, m) ==
  CASE h.finished -> "closed"
    [] ~h.finished /\ h.active = 0 -> "send"
    [] ~h.finished /\ h.active # 0 -> IF h.active = m THEN "duplicate" ELSE "busy"

Activated(h, m) == [h EXCEPT !.active = m]

\* A send the harness refused: dropped only while it is still the active turn.
AbandonTurn(h, m) == IF h.active = m THEN [h EXCEPT !.active = 0] ELSE h

Stamped(type, m) == [type |-> type, turn |-> m]

\* Events after which no turn is active ("runtime.error" is a fatal one).
Settling == {"turn.completed", "runtime.error", "session.ended"}

\* normalize: the events handed on for one harness event, and the state after.
Emissions(h, e) ==
  CASE h.active = 0 -> <<Stamped(e, 0)>>
    [] h.active # 0 /\ e = "runtime.error" ->
         <<Stamped(e, h.active), Stamped("turn.completed", h.active)>>
    [] h.active # 0 /\ e = "session.ended" ->
         <<Stamped("turn.completed", h.active), Stamped(e, 0)>>
    [] h.active # 0 /\ e \notin {"runtime.error", "session.ended"} -> <<Stamped(e, h.active)>>

Normalized(h, e) == IF e \in Settling THEN [h EXCEPT !.active = 0] ELSE h

\* finalize: the stream is over, so the turn it leaves is completed here.
FinalEmissions(h) == IF h.active = 0 THEN <<>> ELSE <<Stamped("turn.completed", h.active)>>

Finalized(h) == [active |-> 0, finished |-> TRUE]
=============================================================================
