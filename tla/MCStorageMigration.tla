------------------------- MODULE MCStorageMigration -------------------------
(* StorageMigration on small instances. *)
EXTENDS StorageMigration, TLC

Symmetry == Permutations(Files)
=============================================================================
