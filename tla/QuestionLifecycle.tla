-------------------------- MODULE QuestionLifecycle --------------------------
(***************************************************************************)
(* What a shopper is promised about a question, without tables, clocks,    *)
(* leases or breaker.  A token is the right to answer.  A question has one *)
(* owner token at a time, a token that was spent never owns or answers     *)
(* again, the first terminal status is the last, and an answer is the      *)
(* owner's.                                                                *)
(***************************************************************************)
CONSTANTS Questions, Tokens, NoToken

VARIABLES
  status,  \* absent, waiting, processing or one of the four terminal ones
  owner,   \* the token that may answer, or NoToken
  answer,  \* the token that answered, or NoToken
  spent    \* the tokens that may never answer again

vars == <<status, owner, answer, spent>>

Pending == {"waiting", "processing"}
Unanswered == {"failed", "expired", "cancelled"}

Init ==
  /\ status = [q \in Questions |-> "absent"]
  /\ owner = [q \in Questions |-> NoToken]
  /\ answer = [q \in Questions |-> NoToken]
  /\ spent = {}

\* The owner of q, if there is one, is among the tokens spent by the step.
Dethrones(q) ==
  /\ spent \subseteq spent'
  /\ owner[q] # NoToken => owner[q] \in spent'

Accept(q) ==
  /\ status[q] = "absent"
  /\ status' = [status EXCEPT ![q] = "waiting"]
  /\ UNCHANGED <<owner, answer, spent>>

\* A fresh token takes the question, from nobody or from an owner that is gone.
Take(q, token) ==
  /\ status[q] \in Pending
  /\ token \notin spent /\ token # owner[q]
  /\ Dethrones(q) /\ token \notin spent'
  /\ status' = [status EXCEPT ![q] = "processing"]
  /\ owner' = [owner EXCEPT ![q] = token]
  /\ UNCHANGED answer

\* The question is set aside to be tried again.
Yield(q) ==
  /\ status[q] \in Pending
  /\ Dethrones(q)
  /\ status' = [status EXCEPT ![q] = "waiting"]
  /\ owner' = [owner EXCEPT ![q] = NoToken]
  /\ UNCHANGED answer

\* The owner answers.
Complete(q) ==
  /\ status[q] = "processing"
  /\ Dethrones(q)
  /\ answer' = [answer EXCEPT ![q] = owner[q]]
  /\ status' = [status EXCEPT ![q] = "completed"]
  /\ owner' = [owner EXCEPT ![q] = NoToken]

\* Questions end without an answer, several at once when they expire.
EndUnanswered(ended, outcome) ==
  /\ \A q \in ended : status[q] \in Pending /\ Dethrones(q)
  /\ status' = [q \in Questions |-> IF q \in ended THEN outcome ELSE status[q]]
  /\ owner' = [q \in Questions |-> IF q \in ended THEN NoToken ELSE owner[q]]
  /\ UNCHANGED answer

Next ==
  \/ \E q \in Questions :
       \/ Accept(q)
       \/ \E token \in Tokens : Take(q, token)
       \/ Yield(q)
       \/ Complete(q)
  \/ \E ended \in SUBSET Questions, outcome \in Unanswered :
       ended # {} /\ EndUnanswered(ended, outcome)

Spec == Init /\ [][Next]_vars
===============================================================================
