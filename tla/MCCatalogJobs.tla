----------------------------- MODULE MCCatalogJobs -----------------------------
(* A small instance of CatalogJobs for TLC. *)
EXTENDS CatalogJobs, TLC

Three == <<"Table lamps", "Yoga mats", "Table lamps">>

Symmetry == Permutations(Jobs) \cup Permutations(Selections) \cup Permutations(Contents)
================================================================================
