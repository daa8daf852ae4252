-------------------------- MODULE MCSlImageCommit --------------------------
(***************************************************************************)
(* Instances of SlImageCommit for TLC.                                     *)
(***************************************************************************)
EXTENDS SlImageCommit, TLC

Symmetry == Permutations(Versions \ {Factory})
=============================================================================
