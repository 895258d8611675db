-------------------------- MODULE MCSolutionBonds --------------------------
(***************************************************************************)
(* Two intents and two experts for TLC.                                    *)
(***************************************************************************)
EXTENDS SolutionBonds, TLC

CONSTANTS e1, e2

Quotes == [e \in Experts |-> IF e = e1 THEN 3 ELSE 1]
LockSymmetry == Permutations(Locks)
=============================================================================
