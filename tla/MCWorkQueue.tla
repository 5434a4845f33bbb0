---------------------------- MODULE MCWorkQueue ----------------------------
(* Small instances of WorkQueue for TLC. *)
EXTENDS WorkQueueProperties, TLC

\* Questions and workers are interchangeable: no definition orders them.
Symmetry == Permutations(Questions) \cup Permutations(Workers)
=============================================================================
