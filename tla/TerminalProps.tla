--------------------------- MODULE TerminalProps ---------------------------
(***************************************************************************)
(* What the terminal registry keeps while opens, closes, hand-overs,       *)
(* teardowns and the shutdown overlap.                                     *)
(***************************************************************************)
EXTENDS Terminals

\* A shell nobody has killed can be reached, in one place: it is registered
\* under one owner, the one its summary names, whatever open, close, adopt and
\* teardown were suspended over when the map changed under them.  A shell that
\* is not registered has no handle left and runs for good.
ShellsReachable ==
  \A n \in Shells : life[n] = "running" =>
    \E o \in Owners : \E e \in registry[o] :
      /\ e.shell = n /\ summary[n] = o
      /\ \A q \in Owners : \A f \in registry[q] : f.shell = n => q = o /\ f = e

\* TERMINALS_PER_OWNER is a count taken before an await: opens and hand-overs
\* that overlap never leave an owner with more.
LimitHolds == \A o \in Owners : Cardinality(registry[o]) <= PerOwner

\* "Shutdown: no shell outlives the server" (TerminalService.ts:469), an open
\* or a hand-over in flight at the time included.
NoShellOutlives == phase = "down" => \A n \in Shells : life[n] \in {"unborn", "ended"}

\* The owner's closing has been published and its teardown not yet begun.
Pending(o) ==
  (reactor.pc = "lock" /\ reactor.owner = o) \/ \E k \in DOMAIN mailbox : mailbox[k] = o

\* Once the teardown reactor has caught up, a deleted thread or a removed
\* project holds no terminal: an open or a hand-over that read the document
\* before the deletion is torn down by it, and none comes after.
GoneHoldNothing ==
  \A o \in Owners : status[o] = "gone" /\ ~Pending(o) => registry[o] = {}
=============================================================================
