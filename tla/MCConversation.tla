---------------------------- MODULE MCConversation ----------------------------
(* A small instance of Conversation for TLC. *)
EXTENDS Conversation, TLC

CONSTANTS lamp, desk, neon

\* One product is cheap and small, one is cheap, one is small.
SmallFits ==
  [p \in Products |->
     [f \in Fields |->
        IF f = "price" THEN (IF p = neon THEN {} ELSE {"low"})
        ELSE IF p = desk THEN {} ELSE {"low"}]]

\* A full name, a part of two names, and a name nothing has.
SmallExact == [r \in References |-> IF r = "Desk lamp" THEN {desk} ELSE {}]

SmallPartial == [r \in References |-> IF r = "lamp" THEN {lamp, desk} ELSE {}]
===============================================================================
