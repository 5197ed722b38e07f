---------------------------- MODULE MCTerminals ----------------------------
(***************************************************************************)
(* Small instances of Terminals.tla for TLC.                               *)
(***************************************************************************)
EXTENDS TerminalProps, TLC

CONSTANTS p1, t1, a1, a2, b1, c1, c2

\* Two ids minted on the New task page and one in the thread.
MCMints == (a1 :> {p1}) @@ (a2 :> {p1}) @@ (b1 :> {t1})

Alike == Permutations({c1, c2}) \cup Permutations({a1, a2})
=============================================================================
