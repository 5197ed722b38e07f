--------------------------- MODULE ServerSupervisor -------------------------
(***************************************************************************)
(* The desktop app's owner of the server process (ServerSupervisor.ts).    *)
(* Every callback of a child - its handshake on fd 3, the handshake timer, *)
(* its exit, a spawn error - closes over that child and may come late,     *)
(* when another child is current; the timers are shared.  The child's exit *)
(* and its pipe's data come in either order.  Delays are left out: a timer *)
(* that is armed may fire.                                                 *)
(***************************************************************************)
EXTENDS Naturals

CONSTANTS MaxFailures,   \* MAX_CONSECUTIVE_FAILURES
          MaxSpawns      \* bound: children spawned in the app's life

ASSUME BoundsAssumption == MaxFailures \in Nat \ {0} /\ MaxSpawns \in Nat

Children == 1 .. MaxSpawns

VARIABLES
  spawned,          \* children spawned so far
  child,            \* this.child, 0 for null
  state,            \* this.state, with the child a connection came from
  failures,
  restartTimer,
  handshakeTimer,   \* the child the armed handshake timer kills, 0 for null
  stopped,
  alive,            \* children whose process runs
  signalled,        \* children that have been sent a signal
  counted,          \* children whose death has been counted
  listening         \* children whose fd 3 is still listened to

vars == <<spawned, child, state, failures, restartTimer, handshakeTimer, stopped,
          alive, signalled, counted, listening>>

State(status, of) == [status |-> status, of |-> of]

Init ==
  /\ spawned = 0 /\ child = 0 /\ state = State("starting", 0) /\ failures = 0
  /\ restartTimer = FALSE /\ handshakeTimer = 0 /\ stopped = FALSE
  /\ alive = {} /\ signalled = {} /\ counted = {} /\ listening = {}

\* spawnOnce: the process may fail to start, which its "error" event says later;
\* the pipe of one that did is silent.
SpawnOnce ==
  /\ spawned < MaxSpawns
  /\ spawned' = spawned + 1
  /\ child' = spawned + 1
  /\ state' = State("starting", 0)
  /\ handshakeTimer' = spawned + 1
  /\ \E started \in {{}, {spawned + 1}} :
       alive' = alive \cup started /\ listening' = listening \cup started
  /\ UNCHANGED <<signalled, counted>>

\* Mutant: a pending restart does not count as started.
StartOverRestart ==
  /\ child = 0 /\ ~stopped
  /\ SpawnOnce
  /\ failures' = 0
  /\ UNCHANGED <<restartTimer, stopped>>

\* start(): a live child or a pending restart already means started.  The app
\* never starts again what it has stopped.
Start ==
  /\ child = 0 /\ ~restartTimer /\ ~stopped
  /\ SpawnOnce
  /\ failures' = 0
  /\ UNCHANGED <<restartTimer, stopped>>

\* stop(): the timers are cleared, and the current child is signalled.
Stop ==
  /\ stopped' = TRUE
  /\ restartTimer' = FALSE
  /\ handshakeTimer' = 0
  /\ child' = 0
  /\ signalled' = IF child = 0 THEN signalled ELSE signalled \cup {child}
  /\ UNCHANGED <<spawned, state, failures, alive, counted, listening>>

\* Mutant: the exit of a child that was told to stop is a failure like others.
OnExitRegardless ==
  /\ failures' = failures + 1
  /\ restartTimer' = (failures + 1 < MaxFailures)
  /\ state' = State(IF failures + 1 < MaxFailures THEN "restarting" ELSE "failed", 0)

\* onExit: a death is a failure of the streak; below the cap a restart is
\* scheduled, at the cap the supervisor pauses.
OnExit ==
  IF stopped THEN UNCHANGED <<failures, restartTimer, state>>
  ELSE /\ failures' = failures + 1
       /\ restartTimer' = (restartTimer \/ failures + 1 < MaxFailures)
       /\ state' = State(IF failures + 1 < MaxFailures THEN "restarting" ELSE "failed", 0)

\* countExit: only the first report of child n's death counts.
CountExit(n) ==
  IF n \in counted THEN UNCHANGED <<counted, child, handshakeTimer, failures, restartTimer, state>>
  ELSE /\ counted' = counted \cup {n}
       /\ handshakeTimer' = 0
       /\ child' = IF child = n THEN 0 ELSE child
       /\ OnExit

\* The "exit" event of a process that dies, by itself or of a signal.
ChildExits(n) ==
  /\ n \in alive
  /\ alive' = alive \ {n}
  /\ CountExit(n)
  /\ UNCHANGED <<spawned, stopped, signalled, listening>>

\* The "error" event of a process that never ran.
SpawnError(n) ==
  /\ n \in 1 .. spawned /\ n \notin alive /\ n \notin counted
  /\ CountExit(n)
  /\ UNCHANGED <<spawned, stopped, alive, signalled, listening>>

\* Fifteen seconds and no handshake: the child is killed and counted.
HandshakeTimesOut ==
  /\ handshakeTimer # 0
  /\ signalled' = signalled \cup {handshakeTimer}
  /\ CountExit(handshakeTimer)
  /\ UNCHANGED <<spawned, stopped, alive, listening>>

\* A line on child n's fd 3, read while n is current or long after.  Whichever
\* timer is armed is cleared.  A bad line has n killed and counted.
GoodHandshake(n) ==
  /\ n \in listening
  /\ listening' = listening \ {n}
  /\ handshakeTimer' = 0
  /\ failures' = 0
  /\ state' = State("ready", n)
  /\ UNCHANGED <<spawned, child, restartTimer, stopped, alive, signalled, counted>>

BadHandshake(n) ==
  /\ n \in listening
  /\ listening' = listening \ {n}
  /\ signalled' = signalled \cup {n}
  /\ IF n \in counted
     THEN /\ handshakeTimer' = 0
          /\ UNCHANGED <<counted, child, failures, restartTimer, state>>
     ELSE CountExit(n)
  /\ UNCHANGED <<spawned, stopped, alive>>

\* The backoff is over.
RestartFires ==
  /\ restartTimer
  /\ restartTimer' = FALSE
  /\ SpawnOnce
  /\ UNCHANGED <<failures, stopped>>

Next ==
  \/ Start \/ Stop \/ HandshakeTimesOut \/ RestartFires
  \/ \E n \in Children :
       ChildExits(n) \/ SpawnError(n) \/ GoodHandshake(n) \/ BadHandshake(n)

Spec == Init /\ [][Next]_vars

----------------------------------------------------------------------------
\* At most one server runs that nobody has told to die: two would hold one
\* state.sqlite.  A child is let go of only once it is dead or signalled, and
\* a restart is pending only while there is none.
OneServer == \A m, n \in alive \ signalled : m = n

\* After stop() no server comes back: no restart is pending, no child current,
\* and every process still running has been signalled.
StoppedStaysDown ==
  stopped => ~restartTimer /\ child = 0 /\ alive \subseteq signalled
=============================================================================
