------------------------------ MODULE MCEngine ------------------------------
(***************************************************************************)
(* Small instances of Engine.tla for TLC.  MC* operators are the values    *)
(* the configurations give the function-valued constants.                  *)
(***************************************************************************)
EXTENDS EngineProps

\* Every thread is local to one project.
MCOneProject == [t \in Threads |-> CHOOSE p \in Projects : TRUE]
MCLocal == [t \in Threads |-> NoWorktree]
MCFolder == [p \in Projects |-> p]

CONSTANTS t1, p1
=============================================================================
