---------------------------- MODULE MCSlCmdEngine ----------------------------
(***************************************************************************)
(* Instances of SlCmdEngine for TLC.                                       *)
(***************************************************************************)
EXTENDS SlCmdEngine, TLC

Symmetry == Permutations(Task)
=============================================================================
