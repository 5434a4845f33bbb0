----------------------------- MODULE Conversation -----------------------------
(***************************************************************************)
(* The turns of one conversation as answer_question of                     *)
(* shop/conversation.py works them out: a loop of at most Rounds requests  *)
(* to the model, which may call search_products and product_details, with  *)
(* what an answer leaves behind for the next turn (conversation_context of *)
(* shop/store.py).                                                         *)
(*                                                                         *)
(* The model's replies, the counts of tokens and the results of a vector   *)
(* search are any that can be; any exchange or read may fail, which ends   *)
(* the attempt.  A conversation has one pending question at a time, so     *)
(* that nothing else changes its history.                                  *)
(*                                                                         *)
(* Left out: texts, the records of tool calls that are shown to the model, *)
(* the order of products; attributes, which are merged one by one like the *)
(* other requirements; answers from the semantic cache.                    *)
(***************************************************************************)
EXTENDS Integers, Sequences, FiniteSetsExt

CONSTANTS
  Products,    \* products of the catalog
  Fields,      \* what can be required: category, price, rating, stock, ...
  Values,      \* the values requirements are stated with
  Fits,        \* Fits[p][f]: the requirements on f that product p meets
  References,  \* what product_details can be asked for
  Exact,       \* products whose id or name a reference is
  Partial,     \* products whose name contains a reference
  Rounds,      \* 3
  CallLimit,   \* 2
  PairLimit,   \* 8: earlier turns in the prompt
  LinkLimit,   \* 6: products in the result of a search
  MaxTurns     \* bound of the model: completed turns

NoValue == "any"
Unset == "unset"

ASSUME ConstantsAssumption ==
  /\ {NoValue, Unset} \cap Values = {}
  /\ Fits \in [Products -> [Fields -> SUBSET Values]]
  /\ Exact \in [References -> SUBSET Products]
  /\ Partial \in [References -> SUBSET Products]
  /\ {Rounds, CallLimit, PairLimit, LinkLimit} \subseteq Nat \ {0}
  /\ MaxTurns \in Nat

VARIABLES
  turns,        \* how many turns were completed
  last,         \* what the last of them left: its context_state and its links
  phase,        \* where the loop stands
  messages,     \* the prompt
  room,         \* how many messages fit into the context, while this is measured
  pairs,        \* history_pairs: the earlier turns still in the prompt
  round,        \* index
  calls,        \* the calls of the last reply that are not done
  constraints,  \* the requirements
  products,     \* the products of the last tool result
  origin        \* history: where these products come from

vars == <<turns, last, phase, messages, room, pairs, round, calls, constraints, products, origin>>

work == <<pairs, round, calls, constraints, products, origin>>

-------------------------------------------------------------------------------
(* Requirements and references *)

Unconstrained == [f \in Fields |-> NoValue]

Requirements == [Fields -> Values \cup {NoValue}]

\* What a search may change: a field that is not given persists, null removes it.
Changes == [Fields -> Values \cup {NoValue, Unset}]

Merge(c, change, reset) ==
  [f \in Fields |->
     IF change[f] # Unset THEN change[f] ELSE IF reset THEN NoValue ELSE c[f]]

\* allows: the products that meet all requirements.
Allowed(c) == {p \in Products : \A f \in Fields : c[f] = NoValue \/ c[f] \in Fits[p][f]}

\* resolve_products: a part of a name counts if nothing matches exactly.
Resolve(r) == IF Exact[r] # {} THEN Exact[r] ELSE Partial[r]

-------------------------------------------------------------------------------
(* The prompt *)

System == <<"system", 0>>
Asked == <<"asked", 0>>
Answered == <<"answered", 0>>
Question == <<"question", 0>>
Result == <<"result", 0>>
Calls(n) == <<"calls", n>>

History(n) == [i \in 1..2 * n |-> IF i % 2 = 1 THEN Asked ELSE Answered]

Prompt(n) == <<System>> \o History(n) \o <<Question>>

\* del messages[1:3]
WithoutOldest(m) == <<m[1]>> \o SubSeq(m, 4, Len(m))

-------------------------------------------------------------------------------
(* What a turn leaves behind *)

Blank == [constraints |-> Unconstrained, products |-> {}, links |-> {}, origin |-> "none"]

\* The products the next turn begins with: without any, those the answer linked to.
Carried == IF last.products # {} THEN last.products ELSE last.links

Left(c, ps, links, from) == [constraints |-> c, products |-> ps, links |-> links, origin |-> from]

\* Variant of Remembered: the requirements of this turn, the products of the last.
RememberedHalf == Left(constraints, Carried, {}, last.origin)

\* The context the turn began with.
Remembered == Left(last.constraints, Carried, {}, last.origin)

Idle ==
  /\ phase' = "idle"
  /\ messages' = <<>> /\ room' = 0 /\ pairs' = 0 /\ round' = 0 /\ calls' = 0
  /\ constraints' = Unconstrained /\ products' = {} /\ origin' = "none"

\* finish saves the answer and its context_state.
Completes(left) ==
  /\ turns' = turns + 1
  /\ last' = left
  /\ Idle

Init ==
  /\ turns = 0
  /\ last = Blank
  /\ phase = "idle"
  /\ messages = <<>> /\ room = 0 /\ pairs = 0 /\ round = 0 /\ calls = 0
  /\ constraints = Unconstrained /\ products = {} /\ origin = "none"

-------------------------------------------------------------------------------
(* The loop *)

\* /tokenize: the prompt fits, or without its first k pairs, or not at all.
Measures ==
  /\ phase' = "measure"
  /\ \E k \in 0..pairs' + 1 : room' = Len(messages') - 2 * k

\* Without a ready catalog, or when a first question refers to something
\* earlier, the answer is a fixed text.
AnswerAtOnce ==
  /\ phase = "idle" /\ turns < MaxTurns
  /\ Completes(Blank)

Begin ==
  /\ phase = "idle" /\ turns < MaxTurns
  /\ pairs' = Min({turns, PairLimit})
  /\ messages' = Prompt(pairs')
  /\ Measures
  /\ constraints' = last.constraints
  /\ products' = Carried
  /\ origin' = last.origin
  /\ UNCHANGED <<turns, last, round, calls>>

\* The prompt fits into the context.
Fitting ==
  /\ phase = "measure" /\ Len(messages) <= room
  /\ phase' = "ask"
  /\ room' = 0
  /\ UNCHANGED <<turns, last, messages, work>>

\* Variant of PairsLeft: the counter is not kept.
PairsLeftUncounted == pairs

PairsLeft == pairs - 1

\* It does not: the oldest turn is dropped.
Prune ==
  /\ phase = "measure" /\ Len(messages) > room
  /\ pairs > 0
  /\ messages' = WithoutOldest(messages)
  /\ pairs' = PairsLeft
  /\ UNCHANGED <<turns, last, phase, room, round, calls, constraints, products, origin>>

TooLong ==
  /\ phase = "measure" /\ Len(messages) > room
  /\ pairs = 0
  /\ Completes(Remembered)

\* The reply calls no tool: it is the answer, with the links of the products.
Answer ==
  /\ phase = "ask"
  /\ Completes(IF products = {} THEN Blank ELSE Left(constraints, products, products, origin))

\* It calls too many, or any in the last round.
Narrow ==
  /\ phase = "ask"
  /\ Completes(Blank)

CallTools ==
  /\ phase = "ask"
  /\ round < Rounds - 1
  /\ \E n \in 1..CallLimit :
       /\ calls' = n
       /\ messages' = Append(messages, Calls(n))
  /\ phase' = "tools"
  /\ UNCHANGED <<turns, last, room, pairs, round, constraints, products, origin>>

\* A call is done and its result is in the prompt; after the last one the loop
\* goes round.
CallDone ==
  /\ messages' = Append(messages, Result)
  /\ calls' = calls - 1
  /\ UNCHANGED <<turns, last, pairs>>
  /\ IF calls = 1
     THEN Measures /\ round' = round + 1
     ELSE UNCHANGED <<phase, room, round>>

\* Variant of Candidates: the requirements before the change count.
CandidatesBefore(c) == Allowed(constraints)

Candidates(c) == Allowed(c)

\* search_products: the changed requirements, and products that meet them.
Search ==
  /\ phase = "tools"
  /\ \E change \in Changes, reset \in BOOLEAN :
       LET c == Merge(constraints, change, reset) IN
       \E found \in SUBSET Candidates(c) :
         /\ Cardinality(found) <= LinkLimit
         /\ \/ /\ found # {}
               /\ constraints' = c /\ products' = found /\ origin' = "search"
               /\ CallDone
            \/ /\ found = {}
               /\ Completes(Left(c, {}, {}, "search"))

\* product_details: each reference is one product.
Details ==
  /\ phase = "tools"
  /\ \E refs \in SUBSET References \ {{}} :
       /\ \A r \in refs : Cardinality(Resolve(r)) = 1
       /\ products' = UNION {Resolve(r) : r \in refs}
  /\ origin' = "named"
  /\ UNCHANGED constraints
  /\ CallDone

\* product_details: a reference is none or several; the answer asks back.
AskBack ==
  /\ phase = "tools"
  /\ \E r \in References :
       /\ Cardinality(Resolve(r)) # 1
       /\ Completes(Left(constraints, products, Resolve(r), IF products = {} THEN "named" ELSE origin))

\* The arguments or the tool are not in the schema.  Failures of Qdrant and the
\* database are exceptions of other kinds and end the attempt.
BadCall ==
  /\ phase = "tools"
  /\ UNCHANGED <<constraints, products, origin>>
  /\ CallDone

\* An exchange or a read fails, the worker dies, or its answer comes too late:
\* nothing is saved.
AttemptFails ==
  /\ phase # "idle"
  /\ Idle
  /\ UNCHANGED <<turns, last>>

LoopStep ==
  \/ Fitting \/ Prune \/ TooLong \/ Answer \/ Narrow \/ CallTools
  \/ Search \/ Details \/ AskBack \/ BadCall

Next == AnswerAtOnce \/ Begin \/ LoopStep \/ AttemptFails

Spec == Init /\ [][Next]_vars

\* A worker that does not die goes on: every exchange has a timeout.
FairSpec == Spec /\ WF_vars(LoopStep)

-------------------------------------------------------------------------------
(* Properties *)

Contexts ==
  [constraints : Requirements, products : SUBSET Products, links : SUBSET Products,
   origin : {"none", "search", "named"}]

\* The variables keep their domains.
TypeOK ==
  /\ turns \in 0..MaxTurns
  /\ last \in Contexts
  /\ phase \in {"idle", "measure", "ask", "tools"}
  /\ room \in Int
  /\ pairs \in 0..PairLimit
  /\ round \in 0..Rounds - 1
  /\ calls \in 0..CallLimit
  /\ constraints \in Requirements
  /\ products \in SUBSET Products
  /\ origin \in {"none", "search", "named"}

\* Whenever the prompt is sent, it has the instructions, the earlier turns that
\* are counted, each with question and answer, the shopper's question, and then
\* only replies with calls, each followed by the results of its calls: pruning
\* takes whole turns and never the question or the evidence, in any round.
PromptIsWellFormed ==
  phase \in {"measure", "ask"} =>
    LET start == Len(Prompt(pairs)) IN
    /\ start <= Len(messages) /\ SubSeq(messages, 1, start) = Prompt(pairs)
    /\ \A i \in start + 1..Len(messages) :
         messages[i] # Result =>
           \E n \in 1..CallLimit :
             /\ messages[i] = Calls(n)
             /\ \A k \in i + 1..i + n : k <= Len(messages) /\ messages[k] = Result
             /\ i + n < Len(messages) => messages[i + n + 1] # Result

\* Products that a search found meet the requirements that are recorded with
\* them: in every answer, whatever calls, bad calls, failed attempts and pruned
\* prompts come between the search and the answer, and in the turns after it.
SearchHonoursRequirements ==
  /\ origin = "search" => products \subseteq Allowed(constraints)
  /\ last.origin = "search" => last.products \subseteq Allowed(last.constraints)

\* The most steps that an attempt can still take.
StepsLeft ==
  (Rounds - round) * (CallLimit + 3) + pairs
    + CASE phase = "measure" -> CallLimit + 2 [] phase = "ask" -> CallLimit + 1 [] OTHER -> calls

\* The steps of an attempt are bounded by the limits of its loops alone: no
\* sequence of replies, counts of tokens and tool calls keeps it going.
AttemptIsBounded ==
  [][phase # "idle" /\ phase' # "idle" => StepsLeft' \in 0..StepsLeft - 1]_vars

\* Every attempt ends, though the model may call tools and exceed the context
\* as often as it likes.
AttemptEnds == phase # "idle" ~> phase = "idle"

\* Expectation, refuted by TLC: a turn without a search keeps the requirements.
\* An answer without products, and one that asks to narrow the question, forget
\* them.
RequirementsPersist ==
  [][phase = "ask" /\ phase' = "idle" /\ turns' # turns => last'.constraints = constraints]_vars
=============================================================================
