------------------------ MODULE MCAuthorizationFlow ------------------------
(***************************************************************************)
(* AuthorizationFlow for TLC: flows and redirect URIs are interchangeable. *)
(***************************************************************************)
EXTENDS AuthorizationFlow, TLC

Symmetry == Permutations(Flows) \cup Permutations(RedirectUris)
============================================================================
