---------------------------- MODULE MCCheckpoint ----------------------------
(***************************************************************************)
(* Small instances of CheckpointReactor.tla for TLC.                       *)
(***************************************************************************)
EXTENDS CheckpointProps

MCOneProject == [t \in Threads |-> CHOOSE p \in Projects : TRUE]
MCLocal == [t \in Threads |-> NoWorktree]
MCFolder == [p \in Projects |-> p]

CONSTANTS t1, t2, p1
=============================================================================
