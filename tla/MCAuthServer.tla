--------------------------- MODULE MCAuthServer ---------------------------
(***************************************************************************)
(* AuthServer for TLC.  Workers, accounts and clients are interchangeable, *)
(* and a run that checks no liveness may use that symmetry.                *)
(***************************************************************************)
EXTENDS AuthServer, TLC

Symmetry == Permutations(Workers) \cup Permutations(Accounts)
              \cup Permutations(Clients)
============================================================================
