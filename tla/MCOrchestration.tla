--------------------------- MODULE MCOrchestration --------------------------
(***************************************************************************)
(* Orchestration for TLC: one thread in the folder of one project, one     *)
(* connector instance.  Two slots are enough for every overlap the code    *)
(* allows: a session that is being closed or is ending, and its successor. *)
(***************************************************************************)
EXTENDS OrchestrationProps

CONSTANTS t1, p1, i1

MCProjectOf == [t \in Threads |-> p1]
MCLocal == [t \in Threads |-> NoWorktree]
MCFolder == [p \in Projects |-> p]
=============================================================================
