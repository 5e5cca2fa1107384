--------------------------- MODULE MCProvenance ----------------------------
(***************************************************************************)
(* Provenance for TLC: the requests are interchangeable, and the contexts. *)
(***************************************************************************)
EXTENDS Provenance, TLC

Symmetry == Permutations(Requests) \cup Permutations(Contexts)
=============================================================================
