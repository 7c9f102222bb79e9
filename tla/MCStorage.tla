------------------------------ MODULE MCStorage ------------------------------
(* Storage on a collection of at most two items. *)
EXTENDS Storage, TLC

Symmetry == Permutations(Names) \cup Permutations(Creds)
=============================================================================
