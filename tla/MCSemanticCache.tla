--------------------------- MODULE MCSemanticCache ---------------------------
(* A small instance of SemanticCache for TLC. *)
EXTENDS SemanticCache, TLC

\* A lamp's answer is no answer about keyboards.
SmallSignature == [q \in Questions |-> IF q = "lamp" THEN "lamps" ELSE "keyboards"]

Symmetry == Permutations(Workers)
==============================================================================
