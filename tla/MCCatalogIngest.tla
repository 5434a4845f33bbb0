--------------------------- MODULE MCCatalogIngest ---------------------------
(* A small instance of CatalogIngest for TLC. *)
EXTENDS CatalogIngest, TLC

CONSTANTS p1, p2, p3, demo, demoShort, artifact

\* A release whose id is used again for a shorter catalog, and another one
\* that shares a product with it.
SmallReleaseOf == [i \in Inputs |-> IF i = artifact THEN 2 ELSE 1]

SmallCatalogOf ==
  [i \in Inputs |->
     CASE i = demo -> <<p1, p2, p3>> [] i = demoShort -> <<p1, p2>> [] OTHER -> <<p3, p2>>]
==============================================================================
