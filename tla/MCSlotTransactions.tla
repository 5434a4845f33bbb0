------------------------ MODULE MCSlotTransactions ------------------------
(* A small instance of SlotTransactions for TLC. *)
EXTENDS SlotTransactions, TLC

\* Questions that are due together.
SmallDeadline == [q \in Questions |-> 3]

Symmetry == Permutations(Questions)
=============================================================================
