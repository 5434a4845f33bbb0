---------------------------- MODULE MCBrowserOutbox ----------------------------
(* A small instance of BrowserOutbox for TLC. *)
EXTENDS BrowserOutbox, TLC

Symmetry == Permutations(Tabs) \cup Permutations(Submissions \ Invalid)
================================================================================
