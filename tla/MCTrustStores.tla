--------------------------- MODULE MCTrustStores ---------------------------
(***************************************************************************)
(* TrustStores for TLC.  Environments and runs of the script are           *)
(* interchangeable.                                                        *)
(***************************************************************************)
EXTENDS TrustStores, TLC

Symmetry == Permutations(Envs) \cup Permutations(Runs)
============================================================================
