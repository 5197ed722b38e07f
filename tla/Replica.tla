------------------------------ MODULE Replica ------------------------------
(***************************************************************************)
(* What a thread subscription promises its client, whatever buffers, drops *)
(* and restarts lie in between: a copy of the log that only moves forward, *)
(* that may skip an event only if a later event of the log replaces it,    *)
(* and that is given up as a whole or not at all.                          *)
(***************************************************************************)
EXTENDS Naturals, Sequences

CONSTANTS Rows,       \* keys an event may replace an earlier event under
          Boundary    \* the key of the events nothing replaces

VARIABLES
  log,     \* the keys of the committed events; an event's sequence is its place
  copy     \* what the client holds

\* `seq` is the last sequence folded in, `taken` the events that were: all of
\* a snapshot's, and each event delivered since.
NoCopy == [held |-> FALSE, seq |-> 0, taken |-> {}]

Replaced(n) == log[n] # Boundary /\ \E later \in (n + 1)..Len(log) : log[later] = log[n]

\* Nothing up to the copy's sequence is missing from it for good.
Sound(c) == \A n \in 1..c.seq : n \in c.taken \/ Replaced(n)

Commit(key) == log' = Append(log, key) /\ UNCHANGED copy

Give == /\ copy'.held /\ copy'.seq \in copy.seq..Len(log)
        /\ copy'.taken \subseteq 1..copy'.seq /\ copy.taken \subseteq copy'.taken
        /\ Sound(copy')
        /\ UNCHANGED log

GiveUp == copy' = NoCopy /\ UNCHANGED log

\* The thread's creation is its first event.
ReplicaInit == log = <<Boundary>> /\ copy = NoCopy

ReplicaNext == (\E key \in Rows \cup {Boundary} : Commit(key)) \/ Give \/ GiveUp

ReplicaSpec == ReplicaInit /\ [][ReplicaNext]_<<log, copy>>
=============================================================================
