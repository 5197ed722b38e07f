--------------------------- MODULE TerminalProofs ---------------------------
(***************************************************************************)
(* Proofs about Terminals.tla, for any number of threads, ids, calls and   *)
(* shells, where every id is minted for one owner: what a call learned     *)
(* under an owner's lock is still true of the map when it comes back from  *)
(* its awaits.  The invariant says who holds which lock, that an open's    *)
(* captured map is the registered one, and that the entries of all maps    *)
(* together are one to one with ids and with shells.                       *)
(***************************************************************************)
EXTENDS TerminalProps, FiniteSetTheorems, TLAPS

Entries == [id : TerminalIds, shell : Shells]
Pcs == {"idle", "open", "workspace", "spawn", "close", "adopt", "second", "project",
        "thread", "move"}

MapTypes ==
  /\ registry \in [Owners -> SUBSET Entries]
  /\ life \in [Shells -> {"unborn", "running", "dying", "ended"}]
  /\ summary \in [Shells -> Owners]

CallType == [pc : Pcs, owner : Owners, id : TerminalIds \cup {"none"}, shell : Nat,
             sessions : SUBSET Entries]

FiberTypes ==
  /\ calls \in [Calls -> CallType]
  /\ lock \in [Owners -> Calls \cup {Reactor, Free}]
  /\ reactor \in [pc : {"idle", "lock", "kill"}, owner : Owners, victims : SUBSET Shells]
  /\ mailbox \in Seq(Owners)

Types == MapTypes /\ FiberTypes /\ \A o \in Owners : IsFiniteSet(registry[o])

Opening(c) == calls[c].pc \in {"workspace", "spawn"}
Adopting(c) == calls[c].pc \in {"project", "thread", "move"}

\* Who is past its waits holds what it waited for.
Locked ==
  \A c \in Calls :
    /\ Opening(c) => lock[calls[c].owner] = c /\ calls[c].id \in TerminalIds
    /\ calls[c].pc \in {"adopt", "second"} => calls[c].owner \in Threads
    /\ calls[c].pc = "second" => lock[calls[c].owner] = c
    /\ Adopting(c) => /\ calls[c].owner \in Threads
                      /\ lock[calls[c].owner] = c /\ lock[Project] = c

\* An id an open was asked for is one its owner may be asked for.
Asked ==
  \A c \in Calls : calls[c].pc \in {"open", "workspace", "spawn"} =>
    calls[c].id \in TerminalIds /\ calls[c].owner \in Mints[calls[c].id]

\* What an open found under the lock is still so.
Found ==
  \A c \in Calls : Opening(c) =>
    /\ calls[c].sessions = registry[calls[c].owner]
    /\ \A o \in Owners : ~Holds(o, calls[c].id)
    /\ Cardinality(registry[calls[c].owner]) < PerOwner

\* Entries are one to one with ids and with shells, over all the maps.
OneEach ==
  /\ \A o \in Owners : \A e \in registry[o] :
       summary[e.shell] = o /\ life[e.shell] # "unborn"
  /\ \A o, q \in Owners : \A e \in registry[o], f \in registry[q] :
       e.id = f.id \/ e.shell = f.shell => o = q /\ e = f

Registered == \A n \in Shells : life[n] = "running" => \E o \in Owners : n \in ShellsOf(o)

Ends ==
  /\ phase \in {"ending", "down"} =>
       /\ \A c \in Calls : calls[c].pc = "idle"
       /\ \A n \in Shells : life[n] # "running"
  /\ phase = "down" => \A n \in Shells : life[n] # "dying"

TermInv ==
  Types /\ Locked /\ Asked /\ Found /\ OneEach /\ Registered /\ LimitHolds /\ Ends

-----------------------------------------------------------------------------
\* The four things a step does to the maps and the shells.
Still ==
  /\ registry' = registry /\ summary' = summary
  /\ \/ life' = life
     \/ \E n \in Shells : life[n] \in {"running", "dying"}
                          /\ life' = [life EXCEPT ![n] = "ended"]

Spawned(c, n) ==
  LET o == calls[c].owner IN
  /\ c \in Calls /\ n \in Shells /\ calls[c].pc = "spawn" /\ life[n] = "unborn"
  /\ life' = [life EXCEPT ![n] = "running"]
  /\ summary' = [summary EXCEPT ![n] = o]
  /\ registry' = [registry EXCEPT ![o] = registry[o] \cup {Entry(calls[c].id, n)}]

Forgotten(gone) ==
  /\ gone \in [Owners -> SUBSET Entries]
  /\ registry' = [o \in Owners |-> registry[o] \ gone[o]]
  /\ summary' = summary
  /\ life' = Killed({e.shell : e \in UNION {registry[o] \cap gone[o] : o \in Owners}})

Moved(c) ==
  LET t == calls[c].owner IN
  /\ c \in Calls /\ calls[c].pc = "move" /\ Room(t)
  /\ registry' = [registry EXCEPT ![t] = @ \cup registry[Project], ![Project] = {}]
  /\ summary' = [n \in Shells |-> IF n \in ShellsOf(Project) THEN t ELSE summary[n]]
  /\ life' = life
-----------------------------------------------------------------------------
\* Every step is one of the four.
LEMMA MapSteps ==
  ASSUME OnePerMint, TermInv, [TerminalsNext]_termVars
  PROVE  \/ Still
         \/ \E c \in Calls, n \in Shells : Spawned(c, n)
         \/ \E gone \in [Owners -> SUBSET Entries] : Forgotten(gone)
         \/ \E c \in Calls : Moved(c)
<1> USE DEF TermInv
<1>1. CASE UNCHANGED termVars
  BY <1>1 DEF termVars, Still
<1>2. ASSUME NEW c \in Calls, Waits(c) PROVE Still
  BY <1>2 DEF Waits, OpenEnters, AdoptLocks, Still
<1>3. ASSUME NEW c \in Calls, Works(c), ~OpenSpawns(c), ~AdoptMoves(c) PROVE Still
  BY <1>3 DEF Works, OpenReadsOwner, OpenFails, CloseReturns, AdoptReadsProject,
     AdoptReadsThread, Still
<1>4. ASSUME NEW c \in Calls, OpenSpawns(c) PROVE \E n \in Shells : Spawned(c, n)
  <2>1. PICK n \in Shells :
          /\ life[n] = "unborn"
          /\ life' = [life EXCEPT ![n] = "running"]
          /\ summary' = [summary EXCEPT ![n] = calls[c].owner]
          /\ registry' = [registry EXCEPT ![calls[c].owner] =
                            Put(calls[c].sessions, Entry(calls[c].id, n))]
    BY <1>4 DEF OpenSpawns
  <2>2. calls[c].owner \in Owners /\ calls[c].pc = "spawn"
    BY <1>4 DEF OpenSpawns, Types, MapTypes, FiberTypes, CallType
  <2>3. calls[c].sessions = registry[calls[c].owner]
    BY <2>2 DEF Found, Opening
  <2>4. \A x \in registry[calls[c].owner] : x.id # calls[c].id
    BY <2>2 DEF Found, Opening, Holds
  <2>5. Put(calls[c].sessions, Entry(calls[c].id, n))
          = registry[calls[c].owner] \cup {Entry(calls[c].id, n)}
    BY <2>3, <2>4 DEF Put, Entry
  <2> QED BY <2>1, <2>2, <2>5 DEF Spawned
<1>5. ASSUME NEW c \in Calls, AdoptMoves(c) PROVE Still \/ Moved(c)
  <2> DEFINE t == calls[c].owner
  <2>1. t \in Owners /\ t # Project /\ calls[c].pc = "move" /\ Project \in Owners
    BY <1>5, OwnersAssumption DEF AdoptMoves, Locked, Adopting, Types, MapTypes, FiberTypes,
       CallType, Owners
  <2>2. CASE ~Room(t)
    BY <1>5, <2>2 DEF AdoptMoves, Still
  <2>3. CASE Room(t)
    <3>1. {e \in registry[t] : \A x \in registry[Project] : x.id # e.id} = registry[t]
      BY <2>1 DEF OneEach
    <3> QED BY <1>5, <2>1, <2>3, <3>1 DEF AdoptMoves, Moved, Types, MapTypes, FiberTypes,
       CallType
  <2> QED BY <2>2, <2>3
<1>6. ASSUME NEW c \in Calls, NEW o \in Owners, NEW i \in TerminalIds, Close(c, o, i)
      PROVE \E gone \in [Owners -> SUBSET Entries] : Forgotten(gone)
  <2> DEFINE gone == [q \in Owners |-> IF q = o THEN {e \in registry[o] : e.id = i} ELSE {}]
  <2>1. gone \in [Owners -> SUBSET Entries]
    BY DEF Types, MapTypes, FiberTypes, CallType
  <2>2. PICK e \in registry[o] : e.id = i /\ life' = Killed({e.shell})
    BY <1>6 DEF Close
  <2>3. {x \in registry[o] : x.id = i} = {e}
    BY <2>2 DEF OneEach
  <2>4. UNION {registry[q] \cap gone[q] : q \in Owners} = {e}
    <3>1. \A q \in Owners : registry[q] \cap gone[q] = IF q = o THEN {e} ELSE {}
      BY <2>2, <2>3
    <3> QED BY <3>1
  <2>5. {x.shell : x \in UNION {registry[q] \cap gone[q] : q \in Owners}} = {e.shell}
    BY <2>4
  <2>6. registry' = [q \in Owners |-> registry[q] \ gone[q]]
    BY <1>6 DEF Close, Without, Types, MapTypes, FiberTypes, CallType
  <2>7. summary' = summary
    BY <1>6 DEF Close
  <2> HIDE DEF gone
  <2>8. Forgotten(gone)
    BY <2>1, <2>2, <2>5, <2>6, <2>7 DEF Forgotten
  <2> QED BY <2>1, <2>8
<1>7. ASSUME NEW c \in Calls, Asks(c)
      PROVE Still \/ \E gone \in [Owners -> SUBSET Entries] : Forgotten(gone)
  BY <1>6, <1>7 DEF Asks, Open, Adopt, Interrupted, Still
<1>8. ASSUME ReactorKills PROVE \E gone \in [Owners -> SUBSET Entries] : Forgotten(gone)
  <2> DEFINE gone == [q \in Owners |-> IF q = reactor.owner THEN registry[q] ELSE {}]
  <2>1. gone \in [Owners -> SUBSET Entries] /\ reactor.owner \in Owners
    BY DEF Types, MapTypes, FiberTypes, CallType
  <2>2. UNION {registry[q] \cap gone[q] : q \in Owners} = registry[reactor.owner]
    <3>1. \A q \in Owners : registry[q] \cap gone[q]
                              = IF q = reactor.owner THEN registry[q] ELSE {}
      OBVIOUS
    <3> QED BY <2>1, <3>1
  <2>3. {x.shell : x \in UNION {registry[q] \cap gone[q] : q \in Owners}}
          = ShellsOf(reactor.owner)
    BY <2>2 DEF ShellsOf
  <2>4. registry' = [q \in Owners |-> registry[q] \ gone[q]]
    BY <1>8 DEF ReactorKills, Types, MapTypes, FiberTypes, CallType
  <2>5. life' = Killed(ShellsOf(reactor.owner)) /\ summary' = summary
    BY <1>8 DEF ReactorKills
  <2> HIDE DEF gone
  <2>6. Forgotten(gone)
    BY <2>1, <2>3, <2>4, <2>5 DEF Forgotten
  <2> QED BY <2>1, <2>6
<1>9. ASSUME Finalize PROVE \E gone \in [Owners -> SUBSET Entries] : Forgotten(gone)
  <2>1. registry \in [Owners -> SUBSET Entries]
    BY DEF Types, MapTypes, FiberTypes, CallType
  <2>2. {x.shell : x \in UNION {registry[q] \cap registry[q] : q \in Owners}}
          = UNION {ShellsOf(o) : o \in Owners}
    BY DEF ShellsOf
  <2>3. registry' = [q \in Owners |-> registry[q] \ registry[q]]
    BY <1>9 DEF Finalize
  <2>4. life' = Killed(UNION {ShellsOf(o) : o \in Owners}) /\ summary' = summary
    BY <1>9 DEF Finalize
  <2>5. Forgotten(registry)
    BY <2>1, <2>2, <2>3, <2>4 DEF Forgotten
  <2> QED BY <2>1, <2>5
<1>10. ASSUME \/ ReactorTakes \/ ReactorDone \/ CloseServer \/ Down
              \/ \E n \in Shells : ShellExits(n) \/ KilledShellEnds(n)
              \/ \E o \in Owners : CloseOwner(o)
              \/ \E t \in Threads : ArchiveThread(t) \/ UnarchiveThread(t)
       PROVE Still
  BY <1>10 DEF ReactorTakes, ReactorDone, CloseServer, Down, ShellExits, KilledShellEnds,
       CloseOwner, ArchiveThread, UnarchiveThread, Still
<1> QED BY <1>1, <1>2, <1>3, <1>4, <1>5, <1>7, <1>8, <1>9, <1>10 DEF TerminalsNext

\* Entries stay one to one with ids and with shells.
LEMMA OneEachKept ==
  ASSUME OnePerMint, TermInv, [TerminalsNext]_termVars
  PROVE  OneEach' /\ Registered'
<1> USE DEF TermInv
<1>0. /\ registry \in [Owners -> SUBSET Entries]
      /\ life \in [Shells -> {"unborn", "running", "dying", "ended"}]
      /\ summary \in [Shells -> Owners]
      /\ \A o \in Owners : \A e \in registry[o] : e.shell \in Shells
  BY DEF Types, MapTypes, FiberTypes, CallType, Entries
<1>1. CASE Still
  <2>1. \A n \in Shells : /\ life'[n] = "running" => life[n] = "running"
                          /\ life[n] # "unborn" => life'[n] # "unborn"
    BY <1>0, <1>1 DEF Still
  <2> QED BY <1>0, <1>1, <2>1 DEF Still, OneEach, Registered, ShellsOf
<1>2. ASSUME NEW c \in Calls, NEW n \in Shells, Spawned(c, n)
      PROVE  OneEach' /\ Registered'
  <2> DEFINE o == calls[c].owner
             new == Entry(calls[c].id, n)
  <2>1. /\ o \in Owners /\ new.shell = n /\ new.id = calls[c].id
        /\ \A q \in Owners : \A e \in registry[q] : e.id # new.id
    BY <1>2 DEF Spawned, Types, MapTypes, FiberTypes, CallType, Entry, Found, Opening, Holds
  <2>2. \A q \in Owners : \A e \in registry[q] : e.shell # n
    BY <1>2 DEF Spawned, OneEach
  <2>3. /\ \A q \in Owners : registry'[q] = IF q = o THEN registry[q] \cup {new} ELSE registry[q]
        /\ \A m \in Shells : summary'[m] = IF m = n THEN o ELSE summary[m]
        /\ \A m \in Shells : life'[m] = IF m = n THEN "running" ELSE life[m]
    BY <1>0, <1>2, <2>1 DEF Spawned
  <2> HIDE DEF o, new
  <2>4. OneEach'
    <3>1. \A q \in Owners : \A e \in registry'[q] :
            \/ e = new /\ q = o
            \/ e \in registry[q] /\ e.shell # n /\ e.id # new.id
      <4> SUFFICES ASSUME NEW q \in Owners, NEW e \in registry'[q]
                   PROVE  \/ e = new /\ q = o
                          \/ e \in registry[q] /\ e.shell # n /\ e.id # new.id
        OBVIOUS
      <4>1. e \in registry[q] \/ (e = new /\ q = o)
        BY <2>3
      <4> QED BY <2>1, <2>2, <4>1
    <3>2. \A q \in Owners : \A e \in registry'[q] :
            summary'[e.shell] = q /\ life'[e.shell] # "unborn"
      BY <1>0, <1>2, <2>1, <2>3, <3>1 DEF OneEach
    <3>3. \A q, r \in Owners : \A e \in registry'[q], f \in registry'[r] :
            e.id = f.id \/ e.shell = f.shell => q = r /\ e = f
      BY <2>1, <3>1 DEF OneEach
    <3> QED BY <3>2, <3>3 DEF OneEach
  <2>5. Registered'
    <3> SUFFICES ASSUME NEW m \in Shells, life'[m] = "running"
                 PROVE  \E q \in Owners : \E e \in registry'[q] : e.shell = m
      BY DEF Registered, ShellsOf
    <3>1. CASE m = n
      BY <2>1, <2>3, <3>1
    <3>2. CASE m # n
      <4>1. PICK q \in Owners : \E e \in registry[q] : e.shell = m
        BY <2>3, <3>2 DEF Registered, ShellsOf
      <4> QED BY <2>3, <4>1
    <3> QED BY <3>1, <3>2
  <2> QED BY <2>4, <2>5
<1>3. ASSUME NEW gone \in [Owners -> SUBSET Entries], Forgotten(gone)
      PROVE  OneEach' /\ Registered'
  <2>1. /\ \A q \in Owners : registry'[q] = registry[q] \ gone[q]
        /\ summary' = summary
    BY <1>3 DEF Forgotten
  <2>2. \A m \in Shells :
          life'[m] = IF /\ \E q \in Owners : \E e \in registry[q] \cap gone[q] : e.shell = m
                        /\ life[m] = "running"
                     THEN "dying" ELSE life[m]
    BY <1>3 DEF Forgotten, Killed
  <2>3. OneEach'
    BY <1>0, <2>1, <2>2 DEF OneEach
  <2>4. Registered'
    <3> SUFFICES ASSUME NEW m \in Shells, life'[m] = "running"
                 PROVE  \E q \in Owners : \E e \in registry'[q] : e.shell = m
      BY DEF Registered, ShellsOf
    <3>1. life[m] = "running"
      BY <2>2
    <3>2. PICK q \in Owners : \E e \in registry[q] : e.shell = m
      BY <3>1 DEF Registered, ShellsOf
    <3>3. PICK e \in registry[q] : e.shell = m
      BY <3>2
    <3>4. e \notin gone[q]
      BY <2>2, <3>1, <3>3
    <3> QED BY <2>1, <3>3, <3>4
  <2> QED BY <2>3, <2>4
<1>4. ASSUME NEW c \in Calls, Moved(c)
      PROVE  OneEach' /\ Registered'
  <2> DEFINE t == calls[c].owner
  <2>1. t \in Owners /\ Project \in Owners /\ t # Project
    BY <1>4, OwnersAssumption DEF Moved, Types, MapTypes, FiberTypes, CallType, Locked,
       Adopting, Owners
  <2>2. /\ \A q \in Owners : registry'[q] = IF q = t THEN registry[t] \cup registry[Project]
                                          ELSE IF q = Project THEN {} ELSE registry[q]
        /\ life' = life
        /\ \A m \in Shells : summary'[m] = IF \E e \in registry[Project] : e.shell = m
                                           THEN t ELSE summary[m]
    BY <1>0, <1>4, <2>1 DEF Moved, ShellsOf
  <2> HIDE DEF t
  <2>3. \A q \in Owners : \A e \in registry'[q] :
          \/ q = t /\ e \in registry[Project]
          \/ q # Project /\ e \in registry[q]
    BY <2>1, <2>2
  <2>4. \A q \in Owners : \A e \in registry'[q] :
          summary'[e.shell] = q /\ life'[e.shell] # "unborn"
    BY <1>0, <2>1, <2>2, <2>3 DEF OneEach
  <2>5. \A q, r \in Owners : \A e \in registry'[q], f \in registry'[r] :
          e.id = f.id \/ e.shell = f.shell => q = r /\ e = f
    BY <2>1, <2>3 DEF OneEach
  <2>6. Registered'
    <3> SUFFICES ASSUME NEW m \in Shells, life[m] = "running"
                 PROVE  \E q \in Owners : \E e \in registry'[q] : e.shell = m
      BY <2>2 DEF Registered, ShellsOf
    <3>1. PICK q \in Owners : \E e \in registry[q] : e.shell = m
      BY DEF Registered, ShellsOf
    <3> QED BY <2>1, <2>2, <3>1
  <2> QED BY <2>4, <2>5, <2>6 DEF OneEach
<1> QED BY <1>1, <1>2, <1>3, <1>4, MapSteps

\* No owner comes to hold more than the limit.
LEMMA LimitKept ==
  ASSUME OnePerMint, TermInv, [TerminalsNext]_termVars
  PROVE  LimitHolds' /\ \A o \in Owners : IsFiniteSet(registry'[o])
<1> USE DEF TermInv
<1>0. /\ registry \in [Owners -> SUBSET Entries]
      /\ \A o \in Owners : /\ IsFiniteSet(registry[o])
                           /\ Cardinality(registry[o]) \in Nat
                           /\ Cardinality(registry[o]) <= PerOwner
  BY FS_CardinalityType DEF Types, MapTypes, FiberTypes, CallType, LimitHolds
<1>1. CASE Still
  BY <1>0, <1>1 DEF Still, LimitHolds
<1>2. ASSUME NEW c \in Calls, NEW n \in Shells, Spawned(c, n)
      PROVE  LimitHolds' /\ \A o \in Owners : IsFiniteSet(registry'[o])
  <2> DEFINE o == calls[c].owner
             new == Entry(calls[c].id, n)
  <2>1. o \in Owners /\ Cardinality(registry[o]) < PerOwner
    BY <1>2 DEF Spawned, Types, MapTypes, FiberTypes, CallType, Found, Opening
  <2>2. \A q \in Owners : registry'[q] = IF q = o THEN registry[q] \cup {new} ELSE registry[q]
    BY <1>0, <1>2, <2>1 DEF Spawned
  <2> HIDE DEF o, new
  <2>3. /\ IsFiniteSet(registry[o] \cup {new})
        /\ Cardinality(registry[o] \cup {new}) \in
             {Cardinality(registry[o]), Cardinality(registry[o]) + 1}
    BY <1>0, <2>1, FS_AddElement
  <2>4. Cardinality(registry[o] \cup {new}) <= PerOwner
    BY <1>0, <2>1, <2>3, LimitAssumption
  <2> QED BY <1>0, <2>2, <2>3, <2>4 DEF LimitHolds
<1>3. ASSUME NEW gone \in [Owners -> SUBSET Entries], Forgotten(gone)
      PROVE  LimitHolds' /\ \A o \in Owners : IsFiniteSet(registry'[o])
  <2> SUFFICES ASSUME NEW o \in Owners
               PROVE  IsFiniteSet(registry'[o]) /\ Cardinality(registry'[o]) <= PerOwner
    BY DEF LimitHolds
  <2>1. registry'[o] \in SUBSET registry[o]
    BY <1>3 DEF Forgotten
  <2>2. IsFiniteSet(registry'[o]) /\ Cardinality(registry'[o]) <= Cardinality(registry[o])
    BY <1>0, <2>1, FS_Subset
  <2>3. Cardinality(registry'[o]) \in Nat
    BY <2>2, FS_CardinalityType
  <2> QED BY <1>0, <2>2, <2>3, LimitAssumption
<1>4. ASSUME NEW c \in Calls, Moved(c)
      PROVE  LimitHolds' /\ \A o \in Owners : IsFiniteSet(registry'[o])
  <2> DEFINE t == calls[c].owner
             both == registry[t] \cup registry[Project]
  <2>1. t \in Owners /\ Project \in Owners /\ t # Project
    BY <1>4, OwnersAssumption DEF Moved, Types, MapTypes, FiberTypes, CallType, Locked,
       Adopting, Owners
  <2>2. \A q \in Owners : registry'[q] = IF q = t THEN both
                                        ELSE IF q = Project THEN {} ELSE registry[q]
    BY <1>0, <1>4, <2>1 DEF Moved
  <2>3. IsFiniteSet(both) /\ Cardinality(both) = Cardinality(registry[t])
          + Cardinality(registry[Project]) - Cardinality(registry[t] \cap registry[Project])
    BY <1>0, <2>1, FS_Union
  <2>4. Cardinality(registry[t] \cap registry[Project]) \in Nat
    <3>1. registry[t] \cap registry[Project] \in SUBSET registry[t]
      OBVIOUS
    <3>2. IsFiniteSet(registry[t] \cap registry[Project])
      BY <1>0, <2>1, <3>1, FS_Subset
    <3> QED BY <3>2, FS_CardinalityType
  <2>5. Cardinality(registry[t]) + Cardinality(registry[Project]) <= PerOwner
    BY <1>4 DEF Moved, Room
  <2>6. Cardinality(both) <= PerOwner
    BY <1>0, <2>1, <2>3, <2>4, <2>5, LimitAssumption
  <2>7. IsFiniteSet({}) /\ Cardinality({}) <= PerOwner
    BY FS_EmptySet, LimitAssumption
  <2> HIDE DEF t, both
  <2> QED BY <1>0, <2>2, <2>3, <2>6, <2>7 DEF LimitHolds
<1> QED BY <1>1, <1>2, <1>3, <1>4, MapSteps

LEMMA OpeningCall ==
  ASSUME NEW call \in CallType, NEW entries \in SUBSET Entries
  PROVE  [call EXCEPT !.pc = "workspace", !.sessions = entries] \in CallType
BY DEF CallType, Pcs

\* The types, part by part.
LEMMA TypesKept ==
  ASSUME OnePerMint, TermInv, [TerminalsNext]_termVars
  PROVE  Types'
<1> USE DEF TermInv, Types, MapTypes, FiberTypes
<1>0. Resting \in CallType
  BY DEF Resting, CallType, Pcs, Owners
<1>1. MapTypes'
  <2>1. CASE Still
    BY <2>1 DEF Still
  <2>2. ASSUME NEW c \in Calls, NEW n \in Shells, Spawned(c, n)
        PROVE MapTypes'
    <3>1. Entry(calls[c].id, n) \in Entries /\ calls[c].owner \in Owners
      BY <2>2 DEF Spawned, Asked, Entry, Entries, CallType
    <3> QED BY <2>2, <3>1 DEF Spawned
  <2>3. ASSUME NEW gone \in [Owners -> SUBSET Entries], Forgotten(gone)
        PROVE MapTypes'
    BY <2>3 DEF Forgotten, Killed
  <2>4. ASSUME NEW c \in Calls, Moved(c)
        PROVE MapTypes'
    <3>1. calls[c].owner \in Owners /\ Project \in Owners
      BY <2>4 DEF Owners, CallType
    <3> QED BY <2>4, <3>1 DEF Moved
  <2> QED BY <2>1, <2>2, <2>3, <2>4, MapSteps
<1>2. \A f \in Calls \cup {Reactor} : Released(f) \in [Owners -> Calls \cup {Reactor, Free}]
  BY DEF Released
<1>3. ASSUME NEW c \in Calls, NEW pc \in Pcs
      PROVE  [calls EXCEPT ![c].pc = pc] \in [Calls -> CallType]
  <2>1. [calls[c] EXCEPT !.pc = pc] \in CallType
    BY DEF CallType
  <2> QED BY <2>1
<1>4. FiberTypes'
  <2>1. CASE UNCHANGED termVars
    BY <2>1 DEF termVars
  <2>2. ASSUME NEW c \in Calls, Answers(c),
               UNCHANGED <<reactor, mailbox>>
        PROVE FiberTypes'
    BY <1>0, <1>2, <2>2 DEF Answers
  <2>3. ASSUME NEW c \in Calls, Waits(c) PROVE FiberTypes'
    <3>1. ASSUME NEW o \in Owners
          PROVE  [lock EXCEPT ![o] = c] \in [Owners -> Calls \cup {Reactor, Free}]
      OBVIOUS
    <3>2. CASE OpenEnters(c)
      <4>1. calls[c].owner \in Owners /\ registry[calls[c].owner] \in SUBSET Entries
        BY DEF CallType
      <4>2. [calls[c] EXCEPT !.pc = "workspace", !.sessions = registry[calls[c].owner]]
              \in CallType
        BY <4>1, OpeningCall
      <4>3. [calls EXCEPT ![c].pc = "workspace", ![c].sessions = registry[calls[c].owner]]
              \in [Calls -> CallType]
        BY <4>2
      <4>4. CASE ~Answers(c)
        BY <3>1, <3>2, <4>1, <4>3, <4>4 DEF OpenEnters
      <4> QED BY <2>2, <3>2, <4>4 DEF OpenEnters
    <3>3. CASE AdoptLocks(c)
      <4>1. calls[c].owner \in Owners /\ Project \in Owners
        BY DEF CallType, Owners
      <4>2. "second" \in Pcs /\ "project" \in Pcs
        BY DEF Pcs
      <4> QED BY <1>3, <3>1, <3>3, <4>1, <4>2 DEF AdoptLocks
    <3> QED BY <2>3, <3>2, <3>3 DEF Waits
  <2>4. ASSUME NEW c \in Calls, Works(c) PROVE FiberTypes'
    <3>0. "spawn" \in Pcs /\ "thread" \in Pcs /\ "move" \in Pcs
      BY DEF Pcs
    <3>1. ASSUME NEW pc \in Pcs, calls' = [calls EXCEPT ![c].pc = pc],
                 UNCHANGED <<lock, reactor, mailbox>>
          PROVE  FiberTypes'
      <4>1. calls' \in [Calls -> CallType]
        BY <1>3, <3>1
      <4> QED BY <3>1, <4>1
    <3>2. CASE OpenReadsOwner(c) /\ ~Answers(c)
      <4>1. calls' = [calls EXCEPT ![c].pc = "spawn"] /\ UNCHANGED <<lock, reactor, mailbox>>
        BY <3>2 DEF OpenReadsOwner
      <4> QED BY <3>0, <3>1, <4>1
    <3>3. CASE AdoptReadsProject(c) /\ ~Answers(c)
      <4>1. calls' = [calls EXCEPT ![c].pc = "thread"] /\ UNCHANGED <<lock, reactor, mailbox>>
        BY <3>3 DEF AdoptReadsProject
      <4> QED BY <3>0, <3>1, <4>1
    <3>4. CASE AdoptReadsThread(c) /\ ~Answers(c)
      <4>1. calls' = [calls EXCEPT ![c].pc = "move"] /\ UNCHANGED <<lock, reactor, mailbox>>
        BY <3>4 DEF AdoptReadsThread
      <4> QED BY <3>0, <3>1, <4>1
    <3>5. UNCHANGED <<reactor, mailbox>>
      BY <2>4 DEF Works, OpenReadsOwner, OpenFails, OpenSpawns, CloseReturns, AdoptReadsProject,
         AdoptReadsThread, AdoptMoves
    <3>6. Answers(c) \/ OpenReadsOwner(c) \/ AdoptReadsProject(c) \/ AdoptReadsThread(c)
      BY <2>4 DEF Works, OpenFails, OpenSpawns, CloseReturns, AdoptMoves
    <3> QED BY <2>2, <3>2, <3>3, <3>4, <3>5, <3>6
  <2>5. ASSUME NEW c \in Calls, NEW o \in Owners, NEW i \in TerminalIds, Open(c, o, i)
        PROVE FiberTypes'
    BY <1>0, <2>5 DEF Open, CallType, Pcs
  <2>6. ASSUME NEW c \in Calls, NEW o \in Owners, NEW i \in TerminalIds, Close(c, o, i)
        PROVE FiberTypes'
    <3>1. PICK e \in registry[o] : calls' = [d \in Calls |->
            IF d = c THEN [Resting EXCEPT !.pc = "close", !.shell = e.shell]
            ELSE IF calls[d].owner = o
                 THEN [calls[d] EXCEPT !.sessions = Without(@, i)] ELSE calls[d]]
      BY <2>6 DEF Close
    <3>2. e.shell \in Nat
      BY DEF Entries, Shells
    <3> QED BY <1>0, <2>6, <3>1, <3>2 DEF Close, Without, CallType, Pcs
  <2>7. ASSUME NEW c \in Calls, NEW t \in Threads, Adopt(c, t) PROVE FiberTypes'
    BY <1>0, <2>7 DEF Adopt, CallType, Pcs, Owners
  <2>8. ASSUME NEW c \in Calls, Interrupted(c) PROVE FiberTypes'
    BY <2>2, <2>8 DEF Interrupted
  <2>9. CASE ReactorTakes
    <3>1. Head(mailbox) \in Owners /\ Tail(mailbox) \in Seq(Owners)
      BY <2>9 DEF ReactorTakes
    <3> QED BY <2>9, <3>1 DEF ReactorTakes
  <2>10. CASE ReactorKills
    <3>1. reactor.owner \in Owners /\ ShellsOf(reactor.owner) \in SUBSET Shells
      BY DEF ShellsOf, Entries
    <3> QED BY <2>10, <3>1 DEF ReactorKills
  <2>11. CASE ReactorDone
    BY <1>2, <2>11 DEF ReactorDone
  <2>12. ASSUME \/ \E n \in Shells : ShellExits(n) \/ KilledShellEnds(n)
                \/ \E t \in Threads : UnarchiveThread(t)
                \/ CloseServer \/ Finalize \/ Down
         PROVE FiberTypes'
    BY <2>12 DEF ShellExits, KilledShellEnds, UnarchiveThread, CloseServer,
       Finalize, Down
  <2>13. ASSUME \/ \E o \in Owners : CloseOwner(o)
                \/ \E t \in Threads : ArchiveThread(t)
         PROVE FiberTypes'
    <3>1. \A o \in Owners : Append(mailbox, o) \in Seq(Owners)
      OBVIOUS
    <3>2. Threads \subseteq Owners
      BY DEF Owners
    <3> QED BY <2>13, <3>1, <3>2 DEF CloseOwner, ArchiveThread, Closed
  <2> QED BY <2>1, <2>3, <2>4, <2>5, <2>6, <2>7, <2>8, <2>9, <2>10, <2>11, <2>12, <2>13
          DEF TerminalsNext, Asks
<1> QED BY <1>1, <1>4, LimitKept DEF Types

-----------------------------------------------------------------------------
\* What a step does to one call: nothing, an answer, a step of its own, or an
\* entry less in the map it captured.
LEMMA LockedKept ==
  ASSUME OnePerMint, TermInv, [TerminalsNext]_termVars
  PROVE  Locked' /\ Asked'
<1> USE DEF TermInv
<1>0. /\ \A c \in Calls : /\ calls[c].pc \in Pcs /\ calls[c].owner \in Owners
                          /\ Reactor # c /\ Free # c
      /\ calls \in [Calls -> CallType] /\ DOMAIN lock = Owners
      /\ Project \in Owners /\ Threads \subseteq Owners
      /\ Reactor # Free
  BY CallsAssumption DEF Types, FiberTypes, CallType, Owners, Reactor, Free
<1>1. ASSUME NEW c \in Calls, Answers(c) PROVE Locked' /\ Asked'
  <2>1. /\ \A d \in Calls : calls'[d] = IF d = c THEN Resting ELSE calls[d]
        /\ \A o \in Owners : lock'[o] = IF lock[o] = c THEN Free ELSE lock[o]
    BY <1>0, <1>1 DEF Answers, Released
  <2> QED BY <1>0, <2>1 DEF Locked, Asked, Opening, Adopting, Resting
<1>2. ASSUME NEW c \in Calls, Waits(c) PROVE Locked' /\ Asked'
  <2>1. CASE OpenEnters(c) /\ ~Answers(c)
    <3>1. /\ \A d \in Calls : d # c => calls'[d] = calls[d]
          /\ calls'[c].pc = "workspace" /\ calls'[c].owner = calls[c].owner
          /\ calls'[c].id = calls[c].id /\ calls[c].pc = "open"
          /\ lock[calls[c].owner] = Free
          /\ \A o \in Owners : lock'[o] = IF o = calls[c].owner THEN c ELSE lock[o]
      BY <1>0, <2>1 DEF OpenEnters, CallType
    <3> QED BY <1>0, <3>1 DEF Locked, Asked, Opening, Adopting
  <2>2. CASE AdoptLocks(c)
    <3>1. PICK o \in Owners, pc \in {"second", "project"} :
            /\ lock[o] = Free /\ lock' = [lock EXCEPT ![o] = c]
            /\ calls' = [calls EXCEPT ![c].pc = pc]
            /\ IF pc = "second" THEN calls[c].pc = "adopt" /\ o = calls[c].owner
                                ELSE calls[c].pc = "second" /\ o = Project
      BY <1>0, <2>2 DEF AdoptLocks
    <3>2. /\ \A d \in Calls : d # c => calls'[d] = calls[d]
          /\ calls'[c].pc = pc /\ calls'[c].owner = calls[c].owner
          /\ \A p \in Owners : lock'[p] = IF p = o THEN c ELSE lock[p]
      BY <1>0, <3>1 DEF CallType
    <3> QED BY <1>0, <3>1, <3>2 DEF Locked, Asked, Opening, Adopting
  <2> QED BY <1>1, <1>2, <2>1, <2>2 DEF Waits
<1>3. ASSUME NEW c \in Calls, Works(c) PROVE Locked' /\ Asked'
  <2>1. CASE ~Answers(c)
    <3>1. PICK pc \in {"spawn", "thread", "move"} :
            /\ calls' = [calls EXCEPT ![c].pc = pc] /\ lock' = lock
            /\ calls[c].pc = CASE pc = "spawn" -> "workspace"
                            [] pc = "thread" -> "project"
                            [] pc = "move" -> "thread"
      BY <1>3, <2>1 DEF Works, OpenReadsOwner, OpenFails, OpenSpawns, CloseReturns,
         AdoptReadsProject, AdoptReadsThread, AdoptMoves
    <3>2. /\ \A d \in Calls : d # c => calls'[d] = calls[d]
          /\ calls'[c].pc = pc /\ calls'[c].owner = calls[c].owner
          /\ calls'[c].id = calls[c].id
      BY <1>0, <3>1 DEF CallType
    <3> QED BY <1>0, <3>1, <3>2 DEF Locked, Asked, Opening, Adopting
  <2> QED BY <1>1, <2>1
<1>4. ASSUME NEW c \in Calls, Asks(c) PROVE Locked' /\ Asked'
  <2>1. ASSUME NEW o \in Owners, NEW i \in TerminalIds, Open(c, o, i) PROVE Locked' /\ Asked'
    <3>1. /\ \A d \in Calls : d # c => calls'[d] = calls[d]
          /\ calls'[c].pc = "open" /\ calls'[c].owner = o /\ calls'[c].id = i
          /\ o \in Mints[i] /\ lock' = lock
      BY <1>0, <2>1 DEF Open, Resting
    <3> QED BY <1>0, <3>1 DEF Locked, Asked, Opening, Adopting
  <2>2. ASSUME NEW o \in Owners, NEW i \in TerminalIds, Close(c, o, i) PROVE Locked' /\ Asked'
    <3>1. /\ \A d \in Calls : d # c => /\ calls'[d].pc = calls[d].pc
                                     /\ calls'[d].owner = calls[d].owner
                                     /\ calls'[d].id = calls[d].id
          /\ calls'[c].pc = "close" /\ lock' = lock
      BY <1>0, <2>2 DEF Close, Resting, CallType
    <3> QED BY <1>0, <3>1 DEF Locked, Asked, Opening, Adopting
  <2>3. ASSUME NEW t \in Threads, Adopt(c, t) PROVE Locked' /\ Asked'
    <3>1. /\ \A d \in Calls : d # c => calls'[d] = calls[d]
          /\ calls'[c].pc = "adopt" /\ calls'[c].owner = t /\ lock' = lock
      BY <1>0, <2>3 DEF Adopt, Resting
    <3> QED BY <1>0, <3>1 DEF Locked, Asked, Opening, Adopting
  <2> QED BY <1>1, <1>4, <2>1, <2>2, <2>3 DEF Asks, Interrupted
<1>5. ASSUME calls' = calls, \A o \in Owners : lock'[o] # lock[o] => lock[o] \in {Free, Reactor}
      PROVE  Locked' /\ Asked'
  BY <1>0, <1>5 DEF Locked, Asked, Opening, Adopting
<1>6. CASE ReactorKills \/ ReactorDone
  BY <1>0, <1>5, <1>6 DEF ReactorKills, ReactorDone, Released
<1>7. CASE UNCHANGED <<calls, lock>>
  BY <1>5, <1>7
<1> QED BY <1>2, <1>3, <1>4, <1>6, <1>7 DEF TerminalsNext, termVars, ReactorTakes, ShellExits,
        KilledShellEnds, CloseOwner, ArchiveThread, UnarchiveThread, CloseServer,
        Finalize, Down
\* What an open found under its lock stays so: whoever changes its owner's map
\* holds that lock, but for a close, which reaches the captured map too.
LEMMA FoundKept ==
  ASSUME OnePerMint, TermInv, [TerminalsNext]_termVars
  PROVE  Found'
<1> USE DEF TermInv
<1>0. /\ \A c \in Calls : /\ calls[c].owner \in Owners
                          /\ Reactor # c /\ Free # c
      /\ calls \in [Calls -> CallType]
      /\ registry \in [Owners -> SUBSET Entries]
      /\ Project \in Owners
      /\ \A o \in Owners : IsFiniteSet(registry[o]) /\ Cardinality(registry[o]) \in Nat
  BY CallsAssumption, FS_CardinalityType
  DEF Types, MapTypes, FiberTypes, CallType, Owners, Reactor, Free
<1>1. ASSUME registry' = registry,
             \A d \in Calls : Opening(d)' =>
               /\ Opening(d) /\ calls'[d].owner = calls[d].owner
               /\ calls'[d].id = calls[d].id /\ calls'[d].sessions = calls[d].sessions
      PROVE  Found'
  BY <1>1 DEF Found, Holds
<1>2. ASSUME NEW c \in Calls, Answers(c), registry' = registry PROVE Found'
  <2>1. \A d \in Calls : calls'[d] = IF d = c THEN Resting ELSE calls[d]
    BY <1>0, <1>2 DEF Answers
  <2> QED BY <1>1, <1>2, <2>1 DEF Opening, Resting
<1>3. ASSUME NEW c \in Calls, Waits(c) PROVE Found'
  <2>1. CASE OpenEnters(c) /\ ~Answers(c)
    <3>1. /\ \A d \in Calls : d # c => calls'[d] = calls[d]
          /\ calls'[c].owner = calls[c].owner /\ calls'[c].id = calls[c].id
          /\ calls'[c].sessions = registry[calls[c].owner] /\ registry' = registry
          /\ \A o \in Owners : ~Holds(o, calls[c].id)
          /\ ~(Cardinality(registry[calls[c].owner]) >= PerOwner)
      BY <1>0, <2>1 DEF OpenEnters, CallType
    <3>2. Cardinality(registry[calls[c].owner]) < PerOwner
      BY <1>0, <3>1, LimitAssumption
    <3> QED BY <3>1, <3>2 DEF Found, Opening, Holds
  <2>2. CASE AdoptLocks(c)
    <3>1. PICK pc \in {"second", "project"} : calls' = [calls EXCEPT ![c].pc = pc]
      BY <2>2 DEF AdoptLocks
    <3>2. registry' = registry
      BY <2>2 DEF AdoptLocks
    <3>3. \A d \in Calls : d # c => calls'[d] = calls[d]
      BY <1>0, <3>1
    <3>4. calls'[c].pc = pc
      BY <1>0, <3>1 DEF CallType
    <3> QED BY <1>1, <3>2, <3>3, <3>4 DEF Opening
  <2>3. OpenEnters(c) => registry' = registry
    BY DEF OpenEnters
  <2> QED BY <1>2, <1>3, <2>1, <2>2, <2>3 DEF Waits
<1>4. ASSUME NEW c \in Calls, OpenSpawns(c) PROVE Found'
  <2> DEFINE o == calls[c].owner
  <2>1. /\ o \in Owners /\ lock[o] = c /\ calls[c].id \in TerminalIds
        /\ o \in Mints[calls[c].id]
    BY <1>0, <1>4 DEF OpenSpawns, Locked, Asked, Opening
  <2>2. PICK n \in Shells : registry' = [registry EXCEPT ![o] =
                                         Put(calls[c].sessions, Entry(calls[c].id, n))]
    BY <1>4 DEF OpenSpawns
  <2>3. \A d \in Calls : calls'[d] = IF d = c THEN Resting ELSE calls[d]
    BY <1>0, <1>4 DEF OpenSpawns, Answers
  <2>4. SUFFICES ASSUME NEW d \in Calls, d # c, Opening(d)
                 PROVE  /\ calls[d].sessions = registry'[calls[d].owner]
                        /\ \A q \in Owners : ~(\E e \in registry'[q] : e.id = calls[d].id)
                        /\ Cardinality(registry'[calls[d].owner]) < PerOwner
    BY <2>3 DEF Found, Opening, Resting, Holds
  <2>5. /\ lock[calls[d].owner] = d /\ calls[d].id \in TerminalIds
        /\ calls[d].owner \in Mints[calls[d].id]
    BY <2>4 DEF Locked, Asked, Opening
  <2>6. calls[d].owner # o
    BY <2>1, <2>4, <2>5
  <2>7. registry'[calls[d].owner] = registry[calls[d].owner]
    BY <1>0, <2>2, <2>6
  <2>8. calls[d].id # calls[c].id
    BY <2>1, <2>5, <2>6 DEF OnePerMint
  <2>9. \A q \in Owners : ~(\E e \in registry'[q] : e.id = calls[d].id)
    <3>1. calls[c].sessions = registry[o]
      BY <1>4 DEF Found, Opening, OpenSpawns
    <3>2. \A q \in Owners : \A e \in registry'[q] :
            e \in registry[q] \/ e.id = calls[c].id
      BY <1>0, <2>1, <2>2, <3>1 DEF Put, Entry
    <3> QED BY <2>4, <2>8, <3>2 DEF Found, Holds
  <2> QED BY <2>4, <2>7, <2>9 DEF Found
<1>5. ASSUME NEW c \in Calls, Works(c) PROVE Found'
  <2>1. CASE OpenReadsOwner(c) /\ ~Answers(c)
    <3>1. /\ calls' = [calls EXCEPT ![c].pc = "spawn"] /\ registry' = registry
          /\ calls[c].pc = "workspace"
      BY <2>1 DEF OpenReadsOwner
    <3>2. \A d \in Calls : d # c => calls'[d] = calls[d]
      BY <1>0, <3>1
    <3>3. /\ calls'[c].owner = calls[c].owner /\ calls'[c].id = calls[c].id
          /\ calls'[c].sessions = calls[c].sessions
      BY <1>0, <3>1 DEF CallType
    <3> QED BY <1>1, <3>1, <3>2, <3>3 DEF Opening
  <2>2. CASE (AdoptReadsProject(c) \/ AdoptReadsThread(c)) /\ ~Answers(c)
    <3>1. PICK pc \in {"thread", "move"} :
            calls' = [calls EXCEPT ![c].pc = pc] /\ registry' = registry
      BY <2>2 DEF AdoptReadsProject, AdoptReadsThread
    <3>2. \A d \in Calls : d # c => calls'[d] = calls[d]
      BY <1>0, <3>1
    <3>3. calls'[c].pc = pc
      BY <1>0, <3>1 DEF CallType
    <3> QED BY <1>1, <3>1, <3>2, <3>3 DEF Opening
  <2>3. CASE AdoptMoves(c)
    <3> DEFINE t == calls[c].owner
    <3>1. t \in Owners /\ lock[t] = c /\ lock[Project] = c /\ t # Project
      BY <1>0, <2>3, OwnersAssumption DEF AdoptMoves, Locked, Adopting
    <3>2. \A d \in Calls : calls'[d] = IF d = c THEN Resting ELSE calls[d]
      BY <1>0, <2>3 DEF AdoptMoves, Answers
    <3>3. /\ \A q \in Owners \ {t, Project} : registry'[q] = registry[q]
          /\ \A q \in Owners : \A e \in registry'[q] : \E r \in Owners : e \in registry[r]
      <4>1. CASE registry' = registry
        BY <4>1
      <4>2. CASE registry' = [registry EXCEPT
               ![t] = {e \in @ : \A x \in registry[Project] : x.id # e.id} \cup registry[Project],
               ![Project] = {}]
        BY <1>0, <3>1, <4>2
      <4> QED BY <2>3, <4>1, <4>2 DEF AdoptMoves
    <3>4. SUFFICES ASSUME NEW d \in Calls, d # c, Opening(d)
                   PROVE  /\ calls[d].sessions = registry'[calls[d].owner]
                          /\ \A q \in Owners : ~(\E e \in registry'[q] : e.id = calls[d].id)
                          /\ Cardinality(registry'[calls[d].owner]) < PerOwner
      BY <3>2 DEF Found, Opening, Resting, Holds
    <3>5. lock[calls[d].owner] = d
      BY <3>4 DEF Locked
    <3>6. registry'[calls[d].owner] = registry[calls[d].owner]
      BY <1>0, <3>1, <3>3, <3>4, <3>5
    <3>7. \A q \in Owners : \A e \in registry[q] : e.id # calls[d].id
      BY <3>4 DEF Found, Holds
    <3> QED BY <3>3, <3>4, <3>6, <3>7 DEF Found
  <2> QED BY <1>2, <1>4, <1>5, <2>1, <2>2, <2>3
          DEF Works, OpenReadsOwner, AdoptReadsProject, AdoptReadsThread, OpenFails,
             CloseReturns
<1>6. ASSUME NEW c \in Calls, NEW o \in Owners, NEW i \in TerminalIds, Close(c, o, i)
      PROVE  Found'
  <2>1. PICK e \in registry[o] : calls' = [d \in Calls |->
            IF d = c THEN [Resting EXCEPT !.pc = "close", !.shell = e.shell]
            ELSE IF calls[d].owner = o
                 THEN [calls[d] EXCEPT !.sessions = Without(@, i)] ELSE calls[d]]
    BY <1>6 DEF Close
  <2>2. /\ calls'[c].pc = "close"
        /\ \A d \in Calls : d # c =>
             /\ calls'[d].pc = calls[d].pc /\ calls'[d].owner = calls[d].owner
             /\ calls'[d].id = calls[d].id
             /\ calls'[d].sessions = IF calls[d].owner = o THEN Without(calls[d].sessions, i)
                                     ELSE calls[d].sessions
    BY <1>0, <2>1 DEF Resting, CallType
  <2>3. \A q \in Owners : registry'[q] = IF q = o THEN Without(registry[o], i) ELSE registry[q]
    BY <1>0, <1>6 DEF Close
  <2>4. SUFFICES ASSUME NEW d \in Calls, d # c, Opening(d)
                 PROVE  /\ calls'[d].sessions = registry'[calls[d].owner]
                        /\ \A q \in Owners : ~(\E x \in registry'[q] : x.id = calls[d].id)
                        /\ Cardinality(registry'[calls[d].owner]) < PerOwner
    BY <2>2 DEF Found, Opening, Holds
  <2>5. calls'[d].sessions = registry'[calls[d].owner]
    BY <1>0, <2>2, <2>3, <2>4 DEF Found
  <2>6. \A q \in Owners : \A x \in registry'[q] : x \in registry[q]
    BY <2>3 DEF Without
  <2>7. registry'[calls[d].owner] \in SUBSET registry[calls[d].owner]
    BY <1>0, <2>6
  <2>8. /\ Cardinality(registry'[calls[d].owner]) <= Cardinality(registry[calls[d].owner])
        /\ Cardinality(registry'[calls[d].owner]) \in Nat
    BY <1>0, <2>7, FS_Subset, FS_CardinalityType
  <2>9. Cardinality(registry[calls[d].owner]) < PerOwner
    BY <2>4 DEF Found
  <2>10. Cardinality(registry'[calls[d].owner]) < PerOwner
    BY <1>0, <2>8, <2>9, LimitAssumption
  <2> QED BY <2>4, <2>5, <2>6, <2>10 DEF Found, Holds
<1>7. ASSUME NEW c \in Calls, Asks(c) PROVE Found'
  <2>1. ASSUME NEW o \in Owners, NEW i \in TerminalIds, Open(c, o, i) PROVE Found'
    <3>1. /\ \A d \in Calls : d # c => calls'[d] = calls[d]
          /\ calls'[c].pc = "open" /\ registry' = registry
      BY <1>0, <2>1 DEF Open, Resting
    <3> QED BY <1>1, <3>1 DEF Opening
  <2>2. ASSUME NEW t \in Threads, Adopt(c, t) PROVE Found'
    <3>1. /\ \A d \in Calls : d # c => calls'[d] = calls[d]
          /\ calls'[c].pc = "adopt" /\ registry' = registry
      BY <1>0, <2>2 DEF Adopt, Resting
    <3> QED BY <1>1, <3>1 DEF Opening
  <2> QED BY <1>2, <1>6, <1>7, <2>1, <2>2 DEF Asks, Interrupted
<1>8. CASE ReactorKills
  <2>1. /\ calls' = calls /\ lock[reactor.owner] = Free
        /\ \A q \in Owners : registry'[q] = IF q = reactor.owner THEN {} ELSE registry[q]
    BY <1>0, <1>8 DEF ReactorKills
  <2>2. SUFFICES ASSUME NEW d \in Calls, Opening(d)
                 PROVE  /\ calls[d].sessions = registry'[calls[d].owner]
                        /\ \A q \in Owners : ~(\E x \in registry'[q] : x.id = calls[d].id)
                        /\ Cardinality(registry'[calls[d].owner]) < PerOwner
    BY <2>1 DEF Found, Opening, Holds
  <2>3. calls[d].owner # reactor.owner
    BY <1>0, <2>1, <2>2 DEF Locked
  <2>4. registry'[calls[d].owner] = registry[calls[d].owner]
    BY <1>0, <2>1, <2>3
  <2>5. \A q \in Owners : \A x \in registry'[q] : x \in registry[q]
    BY <2>1
  <2> QED BY <2>2, <2>4, <2>5 DEF Found, Holds
<1>9. CASE Finalize
  BY <1>9 DEF Finalize, Found, Opening
<1>10. CASE UNCHANGED <<calls, registry>>
  BY <1>1, <1>10 DEF Opening
<1> QED BY <1>3, <1>5, <1>7, <1>8, <1>9, <1>10 DEF TerminalsNext, termVars, ReactorTakes,
        ReactorDone, ShellExits, KilledShellEnds, CloseOwner, ArchiveThread, UnarchiveThread,
        CloseServer, Down

\* Once the finalizer has run no call is in flight and no shell left alone.
LEMMA EndsKept ==
  ASSUME OnePerMint, TermInv, [TerminalsNext]_termVars
  PROVE  Ends'
<1> USE DEF TermInv
<1>0. life \in [Shells -> {"unborn", "running", "dying", "ended"}]
  BY DEF Types, MapTypes
<1>1. ASSUME phase \in {"ending", "down"} PROVE \A c \in Calls : calls[c].pc = "idle"
  BY <1>1 DEF Ends
<1>2. ASSUME phase \in {"ending", "down"}
      PROVE  \A n \in Shells : /\ life'[n] # "running"
                               /\ life'[n] = "dying" => life[n] = "dying"
  <2>1. \A n \in Shells : life[n] # "running"
    BY <1>2 DEF Ends
  <2>2. CASE Still
    BY <1>0, <2>1, <2>2 DEF Still
  <2>3. ASSUME NEW c \in Calls, NEW n \in Shells, Spawned(c, n) PROVE FALSE
    BY <1>1, <1>2, <2>3 DEF Spawned
  <2>4. ASSUME NEW gone \in [Owners -> SUBSET Entries], Forgotten(gone)
        PROVE  \A n \in Shells : life'[n] = life[n]
    BY <2>1, <2>4 DEF Forgotten, Killed
  <2>5. ASSUME NEW c \in Calls, Moved(c) PROVE FALSE
    BY <1>1, <1>2, <2>5 DEF Moved
  <2> QED BY <2>1, <2>2, <2>3, <2>4, <2>5, MapSteps
<1>3. ASSUME phase \in {"ending", "down"} PROVE \A c \in Calls : calls'[c].pc = "idle"
  <2>1. \A c \in Calls : ~Waits(c) /\ ~Works(c) /\ ~Asks(c)
    BY <1>1, <1>3 DEF Waits, Works, Asks, OpenEnters, AdoptLocks, OpenReadsOwner, OpenFails,
       OpenSpawns, CloseReturns, AdoptReadsProject, AdoptReadsThread, AdoptMoves, Open,
          Close, Adopt, Interrupted
  <2>2. calls' = calls
    BY <2>1 DEF TerminalsNext, termVars, ReactorTakes, ReactorKills, ReactorDone, ShellExits,
       KilledShellEnds, CloseOwner, ArchiveThread, UnarchiveThread, CloseServer,
       Finalize, Down
  <2> QED BY <1>1, <1>3, <2>2
<1>4. CASE Finalize
  <2>1. \A n \in Shells : life'[n] # "running"
    <3>1. \A n \in Shells : life[n] = "running" => n \in UNION {ShellsOf(o) : o \in Owners}
      BY DEF Registered
    <3> QED BY <1>4, <3>1 DEF Finalize, Killed
  <2> QED BY <1>4, <2>1 DEF Finalize, Ends
<1>5. CASE Down
  BY <1>2, <1>3, <1>5 DEF Down, Ends
<1>6. CASE CloseServer
  BY <1>6 DEF CloseServer, Ends
<1>7. CASE phase' = phase
  BY <1>2, <1>3, <1>7 DEF Ends
<1>8. Finalize \/ Down \/ CloseServer \/ phase' = phase
  BY DEF TerminalsNext, termVars, Waits, Works, Asks, OpenEnters, AdoptLocks, OpenReadsOwner,
     OpenFails, OpenSpawns, CloseReturns, AdoptReadsProject, AdoptReadsThread, AdoptMoves,
        Open, Close, Adopt,
     Interrupted, ReactorTakes, ReactorKills, ReactorDone, ShellExits, KilledShellEnds,
     CloseOwner, ArchiveThread, UnarchiveThread
<1> QED BY <1>4, <1>5, <1>6, <1>7, <1>8

-----------------------------------------------------------------------------
\* An owner that is gone and still holds a terminal, or is about to be given
\* one by an open or a hand-over past its document, has its teardown still to come.
AboutToHold(o) ==
  \E c \in Calls : calls[c].pc \in {"spawn", "move"} /\ calls[c].owner = o
GoneInv ==
  \A o \in Owners :
    status[o] = "gone" /\ ~Pending(o) => registry[o] = {} /\ ~AboutToHold(o)

LEMMA GoneKept ==
  ASSUME OnePerMint, TermInv, GoneInv, [TerminalsNext]_termVars
  PROVE  GoneInv'
<1> USE DEF TermInv, docVars
<1>0. /\ \A c \in Calls : calls[c].owner \in Owners
      /\ calls \in [Calls -> CallType]
      /\ registry \in [Owners -> SUBSET Entries]
      /\ Project \in Owners /\ Threads \subseteq Owners
      /\ mailbox \in Seq(Owners)
      /\ reactor \in [pc : {"idle", "lock", "kill"}, owner : Owners, victims : SUBSET Shells]
  BY DEF Types, MapTypes, FiberTypes, CallType, Owners
<1> DEFINE SameDocs == UNCHANGED <<status, reactor, mailbox>>
<1>1. ASSUME SameDocs,
             \A o \in Owners : status[o] = "gone" /\ ~Pending(o) =>
               (registry[o] = {} => registry'[o] = {}) /\ (AboutToHold(o)' => AboutToHold(o))
      PROVE  GoneInv'
  BY <1>1 DEF GoneInv, Pending
<1>2. ASSUME NEW c \in Calls, Waits(c) \/ Works(c), registry' = registry,
             ~OpenReadsOwner(c), ~AdoptReadsThread(c)
      PROVE  GoneInv'
  <2>1. SameDocs
    BY <1>2 DEF Waits, Works, OpenEnters, AdoptLocks, OpenFails, OpenSpawns, CloseReturns,
       AdoptReadsProject, AdoptReadsThread, AdoptMoves
  <2>2. \A d \in Calls : calls'[d].pc \in {"spawn", "move"} => calls'[d] = calls[d]
    <3>1. CASE Answers(c)
      BY <1>0, <3>1 DEF Answers, Resting
    <3>2. CASE ~Answers(c)
      <4>1. CASE OpenEnters(c)
        BY <1>0, <3>2, <4>1 DEF OpenEnters, CallType
      <4>2. CASE AdoptLocks(c)
        BY <1>0, <4>2 DEF AdoptLocks, CallType
      <4>3. CASE AdoptReadsProject(c)
        BY <1>0, <3>2, <4>3 DEF AdoptReadsProject, CallType
      <4> QED BY <1>2, <3>2, <4>1, <4>2, <4>3 DEF Waits, Works, OpenFails, OpenSpawns,
              CloseReturns, AdoptReadsThread, AdoptMoves
    <3> QED BY <3>1, <3>2
  <2> QED BY <1>1, <1>2, <2>1, <2>2 DEF AboutToHold
<1>3. ASSUME NEW c \in Calls, OpenReadsOwner(c) \/ AdoptReadsThread(c) PROVE GoneInv'
  <2>1. SameDocs /\ registry' = registry
    BY <1>3 DEF OpenReadsOwner, AdoptReadsThread
  <2>2. CASE Answers(c)
    <3>1. \A d \in Calls : calls'[d].pc \in {"spawn", "move"} => calls'[d] = calls[d]
      BY <1>0, <2>2 DEF Answers, Resting
    <3> QED BY <1>1, <2>1, <3>1 DEF AboutToHold
  <2>3. CASE ~Answers(c)
    <3>1. /\ status[calls[c].owner] = "live" /\ calls'[c].owner = calls[c].owner
          /\ \A d \in Calls : d # c => calls'[d] = calls[d]
      BY <1>0, <1>3, <2>3 DEF OpenReadsOwner, AdoptReadsThread, CallType
    <3> QED BY <1>1, <2>1, <3>1 DEF AboutToHold
  <2> QED BY <2>2, <2>3
<1>4. ASSUME NEW c \in Calls, OpenSpawns(c) PROVE GoneInv'
  <2>1. SameDocs /\ calls[c].pc = "spawn"
    BY <1>4 DEF OpenSpawns
  <2>2. \A d \in Calls : calls'[d].pc \in {"spawn", "move"} => calls'[d] = calls[d]
    BY <1>0, <1>4 DEF OpenSpawns, Answers, Resting
  <2>3. \A o \in Owners : o # calls[c].owner => registry'[o] = registry[o]
    BY <1>0, <1>4 DEF OpenSpawns
  <2>4. AboutToHold(calls[c].owner)
    BY <2>1 DEF AboutToHold
  <2> QED BY <1>0, <1>1, <2>1, <2>2, <2>3, <2>4 DEF AboutToHold, GoneInv
<1>5. ASSUME NEW c \in Calls, AdoptMoves(c) PROVE GoneInv'
  <2>1. SameDocs
    BY <1>5 DEF AdoptMoves
  <2>2. \A d \in Calls : calls'[d].pc \in {"spawn", "move"} => calls'[d] = calls[d]
    BY <1>0, <1>5 DEF AdoptMoves, Answers, Resting
  <2>3. \A o \in Owners : o # calls[c].owner /\ registry[o] = {} => registry'[o] = {}
    BY <1>0, <1>5 DEF AdoptMoves
  <2>4. AboutToHold(calls[c].owner)
    BY <1>5 DEF AdoptMoves, AboutToHold
  <2> QED BY <1>0, <1>1, <2>1, <2>2, <2>3, <2>4 DEF AboutToHold, GoneInv
<1>6. ASSUME NEW c \in Calls, Asks(c) PROVE GoneInv'
  <2>1. SameDocs
    BY <1>6 DEF Asks, Open, Close, Adopt, Interrupted
  <2>2. \A d \in Calls : calls'[d].pc \in {"spawn", "move"} =>
          calls[d].pc \in {"spawn", "move"} /\ calls'[d].owner = calls[d].owner
    <3>1. ASSUME NEW o \in Owners, NEW i \in TerminalIds, Close(c, o, i)
          PROVE  \A d \in Calls : calls'[d].pc \in {"spawn", "move"} =>
                   calls[d].pc \in {"spawn", "move"} /\ calls'[d].owner = calls[d].owner
      BY <1>0, <3>1 DEF Close, Resting, CallType
    <3>2. ASSUME NEW o \in Owners, NEW i \in TerminalIds, Open(c, o, i)
          PROVE  \A d \in Calls : calls'[d].pc \in {"spawn", "move"} => calls'[d] = calls[d]
      BY <1>0, <3>2 DEF Open, Resting
    <3>3. ASSUME NEW t \in Threads, Adopt(c, t)
          PROVE  \A d \in Calls : calls'[d].pc \in {"spawn", "move"} => calls'[d] = calls[d]
      BY <1>0, <3>3 DEF Adopt, Resting
    <3>4. ASSUME Interrupted(c)
          PROVE  \A d \in Calls : calls'[d].pc \in {"spawn", "move"} => calls'[d] = calls[d]
      BY <1>0, <3>4 DEF Interrupted, Answers, Resting
    <3> QED BY <1>6, <3>1, <3>2, <3>3, <3>4 DEF Asks
  <2>3. \A o \in Owners : registry[o] = {} => registry'[o] = {}
    BY <1>0, <1>6 DEF Asks, Open, Close, Without, Adopt, Interrupted
  <2> QED BY <1>1, <2>1, <2>2, <2>3 DEF AboutToHold
<1>7. CASE ReactorTakes
  <2>1. /\ UNCHANGED <<status, registry, calls>> /\ mailbox # <<>>
        /\ reactor'.pc = "lock" /\ reactor'.owner = Head(mailbox)
        /\ mailbox' = Tail(mailbox) /\ reactor.pc = "idle"
    BY <1>0, <1>7 DEF ReactorTakes
  <2>2. ASSUME NEW o \in Owners, Pending(o) PROVE Pending(o)'
    <3>1. PICK k \in DOMAIN mailbox : mailbox[k] = o
      BY <2>1, <2>2 DEF Pending
    <3>2. CASE k = 1
      BY <2>1, <3>1, <3>2 DEF Pending
    <3>3. CASE k # 1
      <4>1. k - 1 \in DOMAIN mailbox' /\ mailbox'[k - 1] = mailbox[k]
        BY <1>0, <2>1, <3>1, <3>3
      <4> QED BY <3>1, <4>1 DEF Pending
    <3> QED BY <3>2, <3>3
  <2> QED BY <2>1, <2>2 DEF GoneInv, AboutToHold
<1>8. CASE ReactorKills
  <2>1. /\ UNCHANGED <<status, calls, mailbox>> /\ lock[reactor.owner] = Free
        /\ \A q \in Owners : registry'[q] = IF q = reactor.owner THEN {} ELSE registry[q]
    BY <1>0, <1>8 DEF ReactorKills
  <2>2. ~AboutToHold(reactor.owner)
    BY <2>1, CallsAssumption DEF AboutToHold, Locked, Opening, Adopting
  <2>3. \A o \in Owners : o # reactor.owner /\ Pending(o) => Pending(o)'
    BY <2>1 DEF Pending
  <2> QED BY <2>1, <2>2, <2>3 DEF GoneInv, AboutToHold
<1>9. CASE ReactorDone
  BY <1>0, <1>9 DEF ReactorDone, GoneInv, Pending, AboutToHold
<1>10. CASE Finalize
  <2>1. SameDocs /\ calls' = calls /\ \A o \in Owners : registry'[o] = {}
    BY <1>10 DEF Finalize
  <2> QED BY <1>1, <2>1 DEF AboutToHold
<1>11. ASSUME NEW o \in Owners, NEW s \in {"gone", "archived"}, Closed(o, s),
              UNCHANGED <<registry, calls, reactor>>
       PROVE  GoneInv'
  <2>1. \A k \in DOMAIN mailbox : k \in DOMAIN mailbox' /\ mailbox'[k] = mailbox[k]
    BY <1>0, <1>11 DEF Closed
  <2>2. \E k \in DOMAIN mailbox' : mailbox'[k] = o
    <3>1. Len(mailbox) + 1 \in DOMAIN mailbox' /\ mailbox'[Len(mailbox) + 1] = o
      BY <1>0, <1>11 DEF Closed
    <3> QED BY <3>1
  <2>3. \A q \in Owners : q # o /\ status'[q] = "gone" => status[q] = "gone"
    BY <1>11 DEF Closed
  <2> QED BY <1>11, <2>1, <2>2, <2>3 DEF GoneInv, Pending, AboutToHold
<1>12. ASSUME NEW t \in Threads, UnarchiveThread(t) PROVE GoneInv'
  BY <1>0, <1>12 DEF UnarchiveThread, GoneInv, Pending, AboutToHold
<1>13. CASE UNCHANGED <<registry, calls, reactor, mailbox, status>>
  BY <1>13 DEF GoneInv, Pending, AboutToHold
<1>14. ASSUME NEW c \in Calls, Waits(c) \/ Works(c) PROVE GoneInv'
  BY <1>2, <1>3, <1>4, <1>5, <1>14 DEF Waits, Works, OpenEnters, AdoptLocks, OpenFails,
     CloseReturns, AdoptReadsProject, AdoptReadsThread
<1>15. CASE \E o \in Owners : CloseOwner(o)
  BY <1>11, <1>15 DEF CloseOwner
<1>16. CASE \E t \in Threads : ArchiveThread(t)
  BY <1>0, <1>11, <1>16 DEF ArchiveThread
<1> QED BY <1>6, <1>7, <1>8, <1>9, <1>10, <1>12, <1>13, <1>14, <1>15, <1>16
        DEF TerminalsNext, termVars, ShellExits, KilledShellEnds, CloseServer, Down

-----------------------------------------------------------------------------
LEMMA TermInit == TerminalsInit => TermInv
<1> SUFFICES ASSUME TerminalsInit PROVE TermInv
  OBVIOUS
<1> USE DEF TerminalsInit
<1>1. IsFiniteSet({}) /\ Cardinality({}) = 0
  BY FS_EmptySet
<1>2. Resting \in CallType /\ Project \in Owners /\ <<>> \in Seq(Owners)
  BY DEF Resting, CallType, Pcs, Owners
<1>3. Types
  BY <1>1, <1>2 DEF Types, MapTypes, FiberTypes
<1>4. Locked /\ Asked /\ Found
  BY DEF Locked, Asked, Found, Opening, Adopting, Resting
<1>5. OneEach /\ Registered /\ Ends
  BY DEF OneEach, Registered, Ends
<1>6. LimitHolds
  BY <1>1, LimitAssumption DEF LimitHolds
<1> QED BY <1>3, <1>4, <1>5, <1>6 DEF TermInv

\* The invariant holds in every state a server reaches whose clients name one
\* owner with each id they mint.
THEOREM TermInvariant ==
  ASSUME OnePerMint
  PROVE  TerminalsSafe => []TermInv
<1>1. TermInv /\ [TerminalsNext]_termVars => TermInv'
  <2> SUFFICES ASSUME TermInv, [TerminalsNext]_termVars PROVE TermInv'
    OBVIOUS
  <2>1. Types' /\ OneEach' /\ Registered' /\ LimitHolds'
    BY OneEachKept, LimitKept, TypesKept
  <2>2. Locked' /\ Asked' /\ Found' /\ Ends'
    BY LockedKept, FoundKept, EndsKept
  <2> QED BY <2>1, <2>2 DEF TermInv
<1> QED BY <1>1, TermInit, PTL DEF TerminalsSafe

\* A shell nobody has killed stays registered, once, under the owner it names.
THEOREM ShellsStayReachable ==
  ASSUME OnePerMint
  PROVE  TerminalsSafe => []ShellsReachable
<1>1. TermInv => ShellsReachable
  <2> SUFFICES ASSUME TermInv, NEW n \in Shells, life[n] = "running"
               PROVE  \E o \in Owners : \E e \in registry[o] :
                        /\ e.shell = n /\ summary[n] = o
                        /\ \A q \in Owners : \A f \in registry[q] :
                             f.shell = n => q = o /\ f = e
    BY DEF ShellsReachable
  <2>1. PICK o \in Owners : \E e \in registry[o] : e.shell = n
    BY DEF TermInv, Registered, ShellsOf
  <2>2. PICK e \in registry[o] : e.shell = n
    BY <2>1
  <2>3. summary[n] = o
    BY <2>2 DEF TermInv, OneEach
  <2>4. \A q \in Owners : \A f \in registry[q] : f.shell = n => q = o /\ f = e
    BY <2>2 DEF TermInv, OneEach
  <2> QED BY <2>2, <2>3, <2>4
<1> QED BY <1>1, TermInvariant, PTL

\* No owner ever has more than TERMINALS_PER_OWNER.
THEOREM LimitStays ==
  ASSUME OnePerMint
  PROVE  TerminalsSafe => []LimitHolds
<1>1. TermInv => LimitHolds
  BY DEF TermInv
<1> QED BY <1>1, TermInvariant, PTL

\* A server that is down has left no shell running.
THEOREM NoShellOutlivesServer ==
  ASSUME OnePerMint
  PROVE  TerminalsSafe => []NoShellOutlives
<1>1. TermInv => NoShellOutlives
  BY DEF TermInv, Ends, Types, MapTypes, NoShellOutlives
<1> QED BY <1>1, TermInvariant, PTL

\* An owner that is gone holds no terminal once its teardown has run.
THEOREM GoneOwnersHoldNothing ==
  ASSUME OnePerMint
  PROVE  TerminalsSafe => []GoneHoldNothing
<1>1. TerminalsInit => GoneInv
  BY DEF TerminalsInit, GoneInv, AboutToHold, Resting
<1>2. TermInv /\ GoneInv /\ [TerminalsNext]_termVars => GoneInv'
  BY GoneKept
<1>3. GoneInv => GoneHoldNothing
  BY DEF GoneInv, GoneHoldNothing
<1> QED BY <1>1, <1>2, <1>3, TermInvariant, PTL DEF TerminalsSafe
=============================================================================
