----------------------- MODULE ServerSupervisorProofs -----------------------
(***************************************************************************)
(* ServerSupervisor.tla proved for every cap of failures and every number  *)
(* of spawns.                                                              *)
(***************************************************************************)
EXTENDS ServerSupervisor, TLAPS

TypeOK ==
  /\ spawned \in Nat /\ child \in Nat /\ handshakeTimer \in Nat /\ failures \in Nat

\* What runs, is listened to or is counted has been spawned.
Known ==
  /\ \A n \in alive : n \in 1 .. spawned
  /\ \A n \in listening : n \in 1 .. spawned
  /\ \A n \in counted : n \in 1 .. spawned

\* A running child that has not been signalled is the current one.
Held == \A n \in alive : n \in signalled \/ n = child

\* Before stop() the current child is the one child that is not counted, and
\* there is none while a restart is pending.
Tracked ==
  /\ child # 0 => child \in 1 .. spawned
  /\ ~stopped => \A n \in 1 .. spawned : n \in counted <=> n # child
  /\ restartTimer => child = 0
  /\ handshakeTimer # 0 => handshakeTimer = child
  /\ stopped => ~restartTimer /\ child = 0

Inv == TypeOK /\ Known /\ Held /\ Tracked

\* Before the first spawn there is nothing to hold.
LEMMA InitHolds == Init => Inv
BY DEF Init, Inv, TypeOK, Known, Held, Tracked

\* A new child where none is current becomes the current one.
LEMMA SpawnKeeps ==
  ASSUME Inv, child = 0, ~stopped, SpawnOnce, ~restartTimer',
         failures' \in Nat, UNCHANGED stopped
  PROVE  Inv'
<1>1. TypeOK' BY DEF Inv, TypeOK, SpawnOnce
<1>2. Known'
  <2>1. spawned \in Nat /\ spawned' = spawned + 1 BY DEF Inv, TypeOK, SpawnOnce
  <2>2. PICK started \in {{}, {spawned + 1}} :
          alive' = alive \cup started /\ listening' = listening \cup started
    BY DEF SpawnOnce
  <2>3. \A n \in started : n = spawned + 1 BY <2>2
  <2>4. counted' = counted BY DEF SpawnOnce
  <2>5. /\ \A n \in alive' : n \in alive \/ n = spawned + 1
        /\ \A n \in listening' : n \in listening \/ n = spawned + 1
        /\ \A n \in counted' : n \in counted
    BY <2>2, <2>3, <2>4
  <2>6. /\ \A n \in alive : n \in 1 .. spawned
        /\ \A n \in listening : n \in 1 .. spawned
        /\ \A n \in counted : n \in 1 .. spawned
    BY DEF Inv, Known
  <2> QED BY <2>1, <2>5, <2>6 DEF Known
<1>3. Held'
  <2>1. PICK started \in {{}, {spawned + 1}} : alive' = alive \cup started BY DEF SpawnOnce
  <2>2. child' = spawned + 1 /\ signalled' = signalled BY DEF SpawnOnce
  <2>3. \A n \in alive : n \in signalled \/ n = 0 BY DEF Inv, Held
  <2>4. \A n \in alive : n # 0 BY DEF Inv, TypeOK, Known
  <2> QED BY <2>1, <2>2, <2>3, <2>4 DEF Held
<1>4. Tracked' BY DEF Inv, TypeOK, Known, Tracked, SpawnOnce
<1> QED BY <1>1, <1>2, <1>3, <1>4 DEF Inv

\* A death counted: if it is the current child's, the process must be dead or
\* signalled by then, and only then can a restart be scheduled.
LEMMA CountKeeps ==
  ASSUME Inv, NEW n \in 1 .. spawned, CountExit(n), UNCHANGED <<spawned, stopped>>,
         \A m \in listening' : m \in listening,
         \A m \in alive' : m \in alive /\ (m \in signalled => m \in signalled'),
         n \notin alive' \/ n \in signalled'
  PROVE  Inv'
<1>1. TypeOK' BY BoundsAssumption DEF Inv, TypeOK, CountExit, OnExit
<1>2. Known' BY DEF Inv, Known, CountExit
<1>3. Held' BY DEF Inv, Held, CountExit
<1>4. Tracked' BY BoundsAssumption DEF Inv, TypeOK, Tracked, CountExit, OnExit
<1> QED BY <1>1, <1>2, <1>3, <1>4 DEF Inv

\* Every step of the supervisor and of its children keeps the invariant.
LEMMA StepKeeps == Inv /\ [Next]_vars => Inv'
<1> SUFFICES ASSUME Inv, [Next]_vars PROVE Inv'
  OBVIOUS
<1>1. CASE Start
  BY <1>1, SpawnKeeps DEF Start, Inv, TypeOK
<1>2. CASE Stop
  BY <1>2 DEF Stop, Inv, TypeOK, Known, Held, Tracked
<1>3. CASE HandshakeTimesOut
  BY <1>3, CountKeeps DEF HandshakeTimesOut, Inv, Tracked
<1>4. CASE RestartFires
  BY <1>4, SpawnKeeps DEF RestartFires, Inv, TypeOK, Tracked
<1>5. ASSUME NEW n \in Children, ChildExits(n) PROVE Inv'
  BY <1>5, CountKeeps DEF ChildExits, Inv, Known
<1>6. ASSUME NEW n \in Children, SpawnError(n) PROVE Inv'
  BY <1>6, CountKeeps DEF SpawnError
<1>7. ASSUME NEW n \in Children, GoodHandshake(n) PROVE Inv'
  BY <1>7 DEF GoodHandshake, Inv, TypeOK, Known, Held, Tracked
<1>8. ASSUME NEW n \in Children, BadHandshake(n) PROVE Inv'
  BY <1>8, CountKeeps DEF BadHandshake, Inv, TypeOK, Known, Held, Tracked
<1>9. CASE UNCHANGED vars
  BY <1>9 DEF vars, Inv, TypeOK, Known, Held, Tracked
<1> QED BY <1>1, <1>2, <1>3, <1>4, <1>5, <1>6, <1>7, <1>8, <1>9 DEF Next, Children

\* So the invariant holds of every behaviour.
LEMMA InvHolds == Spec => []Inv
<1> QED BY InitHolds, StepKeeps, PTL DEF Spec

\* However late the callbacks of an earlier child come, the app never runs two
\* servers without having told one of them to die.
THEOREM OneServerHolds == Spec => []OneServer
<1>1. Inv => OneServer BY DEF Inv, Held, OneServer
<1> QED BY InvHolds, <1>1, PTL

\* After stop() nothing is restarted and nothing runs unsignalled, whatever
\* exits, timers and handshakes were under way.
THEOREM StopHolds == Spec => []StoppedStaysDown
<1>1. Inv => StoppedStaysDown BY DEF Inv, Known, TypeOK, Held, Tracked, StoppedStaysDown
<1> QED BY InvHolds, <1>1, PTL
=============================================================================
