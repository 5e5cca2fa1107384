------------------------- MODULE MCResourceAccess --------------------------
(***************************************************************************)
(* ResourceAccess for TLC.  The resource server's clock is right, one      *)
(* second behind or one ahead.                                             *)
(***************************************************************************)
EXTENDS ResourceAccess, TLC

MCSkews == {-1, 0, 1}

Symmetry == Permutations(Providers)
=============================================================================
