--------------------------- MODULE MCSlCdnClient ---------------------------
(***************************************************************************)
(* Instances of SlCdnClient for TLC.                                       *)
(***************************************************************************)
EXTENDS SlCdnClient, TLC

Symmetry == Permutations(Servers)
=============================================================================
