------------------------------- MODULE MCPool -------------------------------
(***************************************************************************)
(* Pool for TLC. Endpoints differ in nothing but their state, so the runs  *)
(* without a temporal property identify states that permute them.          *)
(***************************************************************************)
EXTENDS Pool, TLC

Symmetry == Permutations(Endpoints)

=============================================================================
