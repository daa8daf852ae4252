---------------------------- MODULE MCSlFlowCont ----------------------------
(***************************************************************************)
(* Instances of SlFlowCont for TLC.                                        *)
(***************************************************************************)
EXTENDS SlFlowCont, TLC

Symmetry == Permutations(Reader) \cup Permutations(Writer)
=============================================================================
