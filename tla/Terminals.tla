----------------------------- MODULE Terminals -----------------------------
(***************************************************************************)
(* The registry of the integrated terminals                                *)
(* (server terminal/TerminalService.ts): which owner, a project or one of  *)
(* its local threads, holds which shell.  Opening, adopting and tearing    *)
(* down hold the owner's lock across their awaits; closing holds none; the *)
(* teardown reactor works through the engine's events one at a time; and   *)
(* the shutdown ends what is left.                                         *)
(*                                                                         *)
(* Shells are numbered in the order they were spawned.  An owner's map is  *)
(* the set of its entries, and an open keeps the map it found under the    *)
(* owner's key when it began: it is the same object the registry holds, so *)
(* a close reaches both.  Every thread here is a local one of the project. *)
(***************************************************************************)
EXTENDS Naturals, Sequences, FiniteSets

CONSTANTS Project, Threads,  \* the owners
          TerminalIds, Mints,\* Mints[i]: the owners a client opens id i under
          Calls,             \* client calls in flight at once
          PerOwner,          \* TERMINALS_PER_OWNER
          MaxShells,         \* bound: shells spawned
          MaxArchives        \* bound: archivals

Owners == Threads \cup {Project}
Shells == 1..MaxShells
Reactor == "reactor"
Free == "free"

\* A client mints an id when it opens a terminal, and names one owner with it.
OnePerMint == \A i \in TerminalIds : \E o \in Owners : Mints[i] = {o}

ASSUME OwnersAssumption == Project \notin Threads
ASSUME CallsAssumption == Reactor \notin Calls /\ Free \notin Calls
ASSUME LimitAssumption == PerOwner \in Nat /\ MaxShells \in Nat

VARIABLES
  registry,  \* owner -> its map, as the set of its entries
  lock,      \* owner -> who holds its semaphore
  life,      \* shell -> "unborn", "running", "dying" (killed), "ended"
  summary,   \* shell -> the owner its summary names
  calls,     \* client call -> what it does
  reactor,   \* the teardown reactor
  mailbox,   \* owners whose closing the engine has published
  status,    \* owner -> "live", "archived" or "gone"
  archives,
  phase      \* the server: "up", "closing" (no more calls), "ending", "down"

docVars == <<status, archives>>
termVars == <<registry, lock, life, summary, calls, reactor, mailbox, docVars, phase>>

Entry(i, n) == [id |-> i, shell |-> n]
Holds(o, i) == \E e \in registry[o] : e.id = i
Resting == [pc |-> "idle", owner |-> Project, id |-> "none", shell |-> 0, sessions |-> {}]

TerminalsInit ==
  /\ registry = [o \in Owners |-> {}]
  /\ lock = [o \in Owners |-> Free]
  /\ life = [n \in Shells |-> "unborn"]
  /\ summary = [n \in Shells |-> Project]
  /\ calls = [c \in Calls |-> Resting]
  /\ reactor = [pc |-> "idle", owner |-> Project, victims |-> {}]
  /\ mailbox = <<>>
  /\ status = [o \in Owners |-> "live"]
  /\ archives = 0
  /\ phase = "up"

Killed(S) == [n \in Shells |-> IF n \in S /\ life[n] = "running" THEN "dying" ELSE life[n]]
ShellsOf(o) == {e.shell : e \in registry[o]}
Released(f) == [o \in Owners |-> IF lock[o] = f THEN Free ELSE lock[o]]

\* The call answers, well or not, and gives up what it held.
Answers(c) ==
  /\ calls' = [calls EXCEPT ![c] = Resting]
  /\ lock' = Released(c)

-----------------------------------------------------------------------------
\* open
Open(c, o, i) ==
  /\ phase = "up" /\ calls[c].pc = "idle" /\ o \in Mints[i]
  /\ calls' = [calls EXCEPT ![c] = [Resting EXCEPT !.pc = "open", !.owner = o, !.id = i]]
  /\ UNCHANGED <<registry, lock, life, summary, reactor, mailbox, docVars, phase>>

\* Under the lock: an id the owner has is answered as it is, one that another
\* owner has and one too many are refused, and otherwise the call suspends.
OpenEnters(c) ==
  LET o == calls[c].owner IN
  /\ calls[c].pc = "open" /\ lock[o] = Free
  /\ IF \/ \E p \in Owners : Holds(p, calls[c].id)
        \/ Cardinality(registry[o]) >= PerOwner
     THEN Answers(c)
     ELSE /\ lock' = [lock EXCEPT ![o] = c]
          /\ calls' = [calls EXCEPT ![c].pc = "workspace", ![c].sessions = registry[o]]
  /\ UNCHANGED <<registry, life, summary, reactor, mailbox, docVars, phase>>

\* workspaceFor: an owner that is archived, deleted or removed is refused.
OpenReadsOwner(c) ==
  /\ calls[c].pc = "workspace"
  /\ IF status[calls[c].owner] = "live"
     THEN calls' = [calls EXCEPT ![c].pc = "spawn"] /\ UNCHANGED lock
     ELSE Answers(c)
  /\ UNCHANGED <<registry, life, summary, reactor, mailbox, docVars, phase>>

\* The folder is gone, or the pty does not start.
OpenFails(c) ==
  /\ calls[c].pc = "spawn"
  /\ Answers(c)
  /\ UNCHANGED <<registry, life, summary, reactor, mailbox, docVars, phase>>

\* The shell starts and is registered in the map the call found.
Put(entries, e) == {x \in entries : x.id # e.id} \cup {e}
OpenSpawns(c) ==
  LET o == calls[c].owner IN
  /\ calls[c].pc = "spawn"
  /\ \E n \in Shells :
       /\ life[n] = "unborn" /\ \A k \in 1..(n - 1) : life[k] # "unborn"
       /\ life' = [life EXCEPT ![n] = "running"]
       /\ summary' = [summary EXCEPT ![n] = o]
       /\ registry' = [registry EXCEPT ![o] = Put(calls[c].sessions, Entry(calls[c].id, n))]
  /\ Answers(c)
  /\ UNCHANGED <<reactor, mailbox, docVars, phase>>

-----------------------------------------------------------------------------
\* close: no lock; the terminal is forgotten, then killed uninterruptibly.
Without(entries, i) == {e \in entries : e.id # i}
Close(c, o, i) ==
  /\ phase = "up" /\ calls[c].pc = "idle"
  /\ \E e \in registry[o] :
       /\ e.id = i
       /\ life' = Killed({e.shell})
       /\ calls' = [d \in Calls |->
            IF d = c THEN [Resting EXCEPT !.pc = "close", !.shell = e.shell]
            ELSE IF calls[d].owner = o
                 THEN [calls[d] EXCEPT !.sessions = Without(@, i)] ELSE calls[d]]
  /\ registry' = [registry EXCEPT ![o] = Without(@, i)]
  /\ UNCHANGED <<lock, summary, reactor, mailbox, docVars, phase>>

CloseReturns(c) ==
  /\ calls[c].pc = "close" /\ life[calls[c].shell] = "ended"
  /\ Answers(c)
  /\ UNCHANGED <<registry, life, summary, reactor, mailbox, docVars, phase>>

-----------------------------------------------------------------------------
\* adopt: both locks, in the order of their keys, which puts a thread's before
\* a project's; then the documents; then everything at once.
Adopt(c, t) ==
  /\ phase = "up" /\ calls[c].pc = "idle"
  /\ calls' = [calls EXCEPT ![c] = [Resting EXCEPT !.pc = "adopt", !.owner = t]]
  /\ UNCHANGED <<registry, lock, life, summary, reactor, mailbox, docVars, phase>>

\* Mutant: a hand-over that takes only the thread's lock.
AdoptLocksThread(c) ==
  /\ calls[c].pc \in {"adopt", "second"} /\ lock[calls[c].owner] = Free
  /\ lock' = [lock EXCEPT ![calls[c].owner] = c]
  /\ calls' = [calls EXCEPT ![c].pc = "project"]
  /\ UNCHANGED <<registry, life, summary, reactor, mailbox, docVars, phase>>

AdoptLocks(c) ==
  /\ \/ /\ calls[c].pc = "adopt" /\ lock[calls[c].owner] = Free
        /\ lock' = [lock EXCEPT ![calls[c].owner] = c]
        /\ calls' = [calls EXCEPT ![c].pc = "second"]
     \/ /\ calls[c].pc = "second" /\ lock[Project] = Free
        /\ lock' = [lock EXCEPT ![Project] = c]
        /\ calls' = [calls EXCEPT ![c].pc = "project"]
  /\ UNCHANGED <<registry, life, summary, reactor, mailbox, docVars, phase>>

AdoptReadsProject(c) ==
  /\ calls[c].pc = "project"
  /\ IF status[Project] = "live"
     THEN calls' = [calls EXCEPT ![c].pc = "thread"] /\ UNCHANGED lock
     ELSE Answers(c)
  /\ UNCHANGED <<registry, life, summary, reactor, mailbox, docVars, phase>>

\* A thread that is archived or deleted is refused, and so is one that has
\* started a turn.
AdoptReadsThread(c) ==
  /\ calls[c].pc = "thread"
  /\ \/ /\ status[calls[c].owner] = "live"
        /\ calls' = [calls EXCEPT ![c].pc = "move"]
        /\ UNCHANGED lock
     \/ Answers(c)
  /\ UNCHANGED <<registry, life, summary, reactor, mailbox, docVars, phase>>

\* Mutant: a hand-over that counts only what it brings.
RoomForMoving(t) == Cardinality(registry[Project]) <= PerOwner

Room(t) == Cardinality(registry[t]) + Cardinality(registry[Project]) <= PerOwner
AdoptMoves(c) ==
  LET t == calls[c].owner
      moving == registry[Project]
  IN
  /\ calls[c].pc = "move"
  /\ IF Room(t)
     THEN /\ registry' = [registry EXCEPT
               ![t] = {e \in @ : \A x \in moving : x.id # e.id} \cup moving,
               ![Project] = {}]
          /\ summary' = [n \in Shells |-> IF n \in ShellsOf(Project) THEN t ELSE summary[n]]
     ELSE UNCHANGED <<registry, summary>>
  /\ Answers(c)
  /\ UNCHANGED <<life, reactor, mailbox, docVars, phase>>

\* The client goes away, or the server stops taking calls: all but a close's
\* kill is interruptible.
Interrupted(c) ==
  /\ calls[c].pc \notin {"idle", "close"}
  /\ Answers(c)
  /\ UNCHANGED <<registry, life, summary, reactor, mailbox, docVars, phase>>

-----------------------------------------------------------------------------
\* The teardown reactor: the owner's shells are forgotten, then killed, under
\* the owner's lock, and the next event waits for that.
ReactorTakes ==
  /\ reactor.pc = "idle" /\ mailbox # <<>>
  /\ reactor' = [reactor EXCEPT !.pc = "lock", !.owner = Head(mailbox)]
  /\ mailbox' = Tail(mailbox)
  /\ UNCHANGED <<registry, lock, life, summary, calls, docVars, phase>>

\* Mutant: a teardown that does not wait for the opens in flight.
ReactorKillsAtOnce ==
  /\ reactor.pc = "lock"
  /\ registry' = [registry EXCEPT ![reactor.owner] = {}]
  /\ life' = Killed(ShellsOf(reactor.owner))
  /\ reactor' = [reactor EXCEPT !.pc = "kill", !.victims = ShellsOf(reactor.owner)]
  /\ UNCHANGED <<lock, summary, calls, mailbox, docVars, phase>>

ReactorKills ==
  LET o == reactor.owner IN
  /\ reactor.pc = "lock" /\ lock[o] = Free
  /\ lock' = [lock EXCEPT ![o] = Reactor]
  /\ registry' = [registry EXCEPT ![o] = {}]
  /\ life' = Killed(ShellsOf(o))
  /\ reactor' = [reactor EXCEPT !.pc = "kill", !.victims = ShellsOf(o)]
  /\ UNCHANGED <<summary, calls, mailbox, docVars, phase>>

ReactorDone ==
  /\ reactor.pc = "kill" /\ \A n \in reactor.victims : life[n] = "ended"
  /\ lock' = Released(Reactor)
  /\ reactor' = [reactor EXCEPT !.pc = "idle", !.victims = {}]
  /\ UNCHANGED <<registry, life, summary, calls, mailbox, docVars, phase>>

\* The shell is gone: on its own, or within the kill's bounds.
ShellExits(n) ==
  /\ life[n] = "running"
  /\ life' = [life EXCEPT ![n] = "ended"]
  /\ UNCHANGED <<registry, lock, summary, calls, reactor, mailbox, docVars, phase>>
KilledShellEnds(n) ==
  /\ life[n] = "dying"
  /\ life' = [life EXCEPT ![n] = "ended"]
  /\ UNCHANGED <<registry, lock, summary, calls, reactor, mailbox, docVars, phase>>

-----------------------------------------------------------------------------
\* What the engine does to the owners.
Closed(o, s) == status' = [status EXCEPT ![o] = s] /\ mailbox' = Append(mailbox, o)

ArchiveThread(t) ==
  /\ status[t] = "live" /\ archives < MaxArchives
  /\ Closed(t, "archived")
  /\ archives' = archives + 1
  /\ UNCHANGED <<registry, lock, life, summary, calls, reactor, phase>>
UnarchiveThread(t) ==
  /\ status[t] = "archived"
  /\ status' = [status EXCEPT ![t] = "live"]
  /\ UNCHANGED <<registry, lock, life, summary, calls, reactor, mailbox, archives, phase>>
\* thread.delete, and project.remove.
CloseOwner(o) ==
  /\ status[o] # "gone"
  /\ Closed(o, "gone")
  /\ UNCHANGED <<registry, lock, life, summary, calls, reactor, archives, phase>>

-----------------------------------------------------------------------------
\* The server closes: first the socket server, with its calls, then this
\* service's scope, whose finalizer ends what is left and waits for it.
CloseServer ==
  /\ phase = "up"
  /\ phase' = "closing"
  /\ UNCHANGED <<registry, lock, life, summary, calls, reactor, mailbox, docVars>>

\* Mutant: a finalizer that runs while calls are still in flight.
FinalizeEarly ==
  /\ phase = "closing"
  /\ phase' = "ending"
  /\ registry' = [o \in Owners |-> {}]
  /\ life' = Killed(UNION {ShellsOf(o) : o \in Owners})
  /\ UNCHANGED <<lock, summary, calls, reactor, mailbox, docVars>>

Finalize ==
  /\ phase = "closing" /\ \A c \in Calls : calls[c].pc = "idle"
  /\ phase' = "ending"
  /\ registry' = [o \in Owners |-> {}]
  /\ life' = Killed(UNION {ShellsOf(o) : o \in Owners})
  /\ UNCHANGED <<lock, summary, calls, reactor, mailbox, docVars>>
Down ==
  /\ phase = "ending" /\ reactor.pc # "kill" /\ \A n \in Shells : life[n] # "dying"
  /\ phase' = "down"
  /\ UNCHANGED <<registry, lock, life, summary, calls, reactor, mailbox, docVars>>

Waits(c) == OpenEnters(c) \/ AdoptLocks(c)
Works(c) ==
  \/ OpenReadsOwner(c) \/ OpenFails(c) \/ OpenSpawns(c) \/ CloseReturns(c)
  \/ AdoptReadsProject(c) \/ AdoptReadsThread(c) \/ AdoptMoves(c)
Asks(c) ==
  \/ \E i \in TerminalIds, o \in Owners : Open(c, o, i) \/ Close(c, o, i)
  \/ \E t \in Threads : Adopt(c, t)
  \/ Interrupted(c)

TerminalsNext ==
  \/ \E c \in Calls : Waits(c) \/ Works(c) \/ Asks(c)
  \/ phase # "down" /\ (ReactorTakes \/ ReactorKills \/ ReactorDone)
  \/ \E n \in Shells : ShellExits(n) \/ KilledShellEnds(n)
  \/ phase = "up" /\ \E o \in Owners : CloseOwner(o)
  \/ phase = "up" /\ \E t \in Threads : ArchiveThread(t) \/ UnarchiveThread(t)
  \/ CloseServer \/ Finalize \/ Down

TerminalsSafe == TerminalsInit /\ [][TerminalsNext]_termVars
=============================================================================
