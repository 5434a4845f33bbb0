---------------------------- MODULE MCAdmission ----------------------------
(* A small instance of Admission for TLC. *)
EXTENDS Admission, TLC

CONSTANTS c1, c2, c3, m1, m2, x, y, h1, h2

Body(c, m, t) == [conversation |-> c, submission |-> m, text |-> t]

\* Three conversations to meet the limit; in one of them a second submission,
\* and a second text under the identifier of the first.
SmallBodies ==
  {Body(c1, m1, x), Body(c1, m1, y), Body(c1, m2, x), Body(c2, m1, x), Body(c3, m1, x)}

Symmetry == Permutations({c2, c3}) \cup Permutations({h1, h2})
=============================================================================
