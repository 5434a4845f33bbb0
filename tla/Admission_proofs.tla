---------------------------- MODULE Admission_proofs ----------------------------
(***************************************************************************)
(* Theorems about Admission, for any number of replicas and their threads, *)
(* of sessions, conversations and submissions, and for any limits.         *)
(***************************************************************************)
EXTENDS Admission, FiniteSetTheorems, TLAPS

Working(h) == handler[h].step \in Steps

OnlyHandler(h) ==
  /\ handler' \in [Handlers -> HandlerStates]
  /\ \A g \in Handlers \ {h} : handler'[g] = handler[g]
  /\ UNCHANGED <<now, sessions, conversation, question, sweep>>

-------------------------------------------------------------------------------
(* What the parts of the actions do *)

LEMMA RequestType ==
  ASSUME TypeOK, NEW h \in Handlers, Working(h)
  PROVE  /\ handler[h] \in [step : Steps, request : Requests]
         /\ handler[h].request \in Requests
         /\ handler[h].request.conversation \in Conversations
         /\ handler[h].request.session \in Sessions
         /\ handler[h].request.text \in Texts
         /\ KeyOf(handler[h].request) \in Keys
         /\ ConversationOf(KeyOf(handler[h].request)) = handler[h].request.conversation
<1>1. handler[h] \in HandlerStates /\ handler[h] # IdleHandler
  BY DEF TypeOK, Working, IdleHandler, Steps, Inside
<1>2. handler[h] \in [step : Steps, request : Requests]
  BY <1>1 DEF HandlerStates
<1> QED
  BY <1>2 DEF Requests, KeyOf, Keys, ConversationOf

LEMMA MovesEffect ==
  ASSUME TypeOK, NEW h \in Handlers, Working(h), NEW step \in Steps, Moves(h, step)
  PROVE  /\ OnlyHandler(h)
         /\ handler'[h].step = step /\ handler'[h].request = handler[h].request
<1> DEFINE next == [step |-> step, request |-> handler[h].request]
<1>1. next \in HandlerStates /\ next.step = step /\ next.request = handler[h].request
  BY RequestType DEF HandlerStates
<1>2. handler' = [handler EXCEPT ![h] = next] /\ handler \in [Handlers -> HandlerStates]
  BY DEF Moves, TypeOK
<1> HIDE DEF next
<1> QED
  BY <1>1, <1>2 DEF OnlyHandler, Moves

LEMMA RefusesEffect ==
  ASSUME TypeOK, NEW h \in Handlers, Refuses(h)
  PROVE  OnlyHandler(h) /\ handler'[h].step = "idle"
<1>1. IdleHandler \in HandlerStates /\ IdleHandler.step = "idle"
  BY DEF HandlerStates, IdleHandler
<1>2. handler' = [handler EXCEPT ![h] = IdleHandler] /\ handler \in [Handlers -> HandlerStates]
  BY DEF Refuses, TypeOK
<1> HIDE DEF IdleHandler
<1> QED
  BY <1>1, <1>2 DEF OnlyHandler, Refuses

LEMMA SubmitEffect ==
  ASSUME TypeOK, NEW h \in Handlers, NEW s \in Sessions, NEW body \in Bodies,
         Submit(h, Request(s, body))
  PROVE  OnlyHandler(h) /\ handler'[h].step = "authorizing"
<1> DEFINE next == [step |-> "authorizing", request |-> Request(s, body)]
<1>1. Request(s, body) \in Requests
  BY ConstantsAssumption DEF Request, Requests
<1>2. next \in HandlerStates /\ next.step = "authorizing"
  BY <1>1 DEF HandlerStates, Steps, Inside
<1>3. handler' = [handler EXCEPT ![h] = next] /\ handler \in [Handlers -> HandlerStates]
  BY DEF Submit, TypeOK
<1> HIDE DEF next
<1> QED
  BY <1>2, <1>3 DEF OnlyHandler, Submit

\* Insert adds one question, which nobody has claimed.
LEMMA InsertEffect ==
  ASSUME TypeOK, NEW h \in Handlers, Insert(h), NEW key, key = KeyOf(handler[h].request)
  PROVE  /\ Working(h) /\ key \in Keys
         /\ question' \in [Keys -> QuestionRows]
         /\ question[key].status = "absent"
         /\ question'[key].status = "waiting" /\ question'[key].accepted = now
         /\ question'[key].text = handler[h].request.text
         /\ \A k \in Keys \ {key} : question'[k] = question[k]
         /\ handler' \in [Handlers -> HandlerStates]
         /\ handler'[h].step = "accepted" /\ handler'[h].request = handler[h].request
         /\ \A g \in Handlers \ {h} : handler'[g] = handler[g]
<1> DEFINE row == [status |-> "waiting", accepted |-> now, text |-> handler[h].request.text]
<1> DEFINE next == [handler[h] EXCEPT !.step = "accepted"]
<1>1. Working(h)
  BY DEF Insert, Working, Steps, Inside
<1>2. key \in Keys /\ handler[h] \in [step : Steps, request : Requests]
  BY <1>1, RequestType
<1>3. row \in QuestionRows /\ row.status = "waiting" /\ row.accepted = now
      /\ row.text = handler[h].request.text
  BY <1>1, RequestType DEF QuestionRows, TypeOK, Pending
<1>4. next \in HandlerStates /\ next.step = "accepted" /\ next.request = handler[h].request
  BY <1>2 DEF HandlerStates, Steps
<1>5. /\ question' = [question EXCEPT ![key] = row] /\ handler' = [handler EXCEPT ![h] = next]
      /\ question \in [Keys -> QuestionRows] /\ handler \in [Handlers -> HandlerStates]
      /\ question[key].status = "absent"
  BY DEF Insert, TypeOK
<1> HIDE DEF row, next
<1> QED
  BY <1>1, <1>2, <1>3, <1>4, <1>5

\* Rows of questions that exist are only moved on or removed.
QuestionsKept ==
  /\ question' \in [Keys -> QuestionRows]
  /\ \A k \in Keys : question'[k].status # "absent" =>
       /\ question[k].status # "absent"
       /\ question'[k].accepted = question[k].accepted
       /\ question'[k].text = question[k].text
       /\ question'[k].status \in Pending => question[k].status \in Pending

LEMMA RowMoves ==
  ASSUME TypeOK, NEW k \in Keys, question[k].status \in Pending,
         NEW status \in Pending \cup {"terminal"},
         question' = [question EXCEPT ![k].status = status]
  PROVE  QuestionsKept /\ \A j \in Keys : question[j].status # "absent" => question'[j].status # "absent"
<1> DEFINE next == [question[k] EXCEPT !.status = status]
<1>1. question[k] \in [status : Pending \cup {"terminal"}, accepted : Nat, text : Texts]
  BY DEF TypeOK, QuestionRows, NoQuestion, Pending
<1>2. /\ next \in QuestionRows /\ next.status = status /\ next.status # "absent"
      /\ next.accepted = question[k].accepted /\ next.text = question[k].text
      /\ question[k].status # "absent"
  BY <1>1 DEF QuestionRows, Pending
<1>3. question' = [question EXCEPT ![k] = next] /\ question \in [Keys -> QuestionRows]
  BY DEF TypeOK
<1> HIDE DEF next
<1> QED
  BY <1>2, <1>3 DEF QuestionsKept

LEMMA SweepEffect ==
  ASSUME TypeOK, SweepCommits
  PROVE  /\ QuestionsKept
         /\ conversation' \in [Conversations -> ConversationRows]
         /\ \A c \in Conversations :
              /\ conversation'[c].session = conversation[c].session
              /\ conversation[c].expired \/ c \in sweep.locked => conversation'[c].expired
         /\ \A k \in Keys : question'[k].status = "absent" =>
              question[k].status = "absent" \/ ConversationOf(k) \in sweep.locked
<1>1. question \in [Keys -> QuestionRows] /\ conversation \in [Conversations -> ConversationRows]
  BY DEF TypeOK
<1>2. NoQuestion \in QuestionRows /\ NoQuestion.status = "absent"
  BY DEF NoQuestion, QuestionRows
<1>3. question' = [k \in Keys |->
        IF ConversationOf(k) \in sweep.locked THEN NoQuestion ELSE question[k]]
  BY DEF SweepCommits
<1>4. QuestionsKept /\ \A k \in Keys : question'[k].status = "absent" =>
              question[k].status = "absent" \/ ConversationOf(k) \in sweep.locked
  BY <1>1, <1>2, <1>3 DEF QuestionsKept
<1>5. \A c \in Conversations :
        LET next == [conversation[c] EXCEPT !.expired = @ \/ c \in sweep.locked] IN
        /\ next \in ConversationRows
        /\ next.session = conversation[c].session
        /\ conversation[c].expired \/ c \in sweep.locked => next.expired
  BY <1>1 DEF ConversationRows
<1>6. conversation' = [c \in Conversations |->
        [conversation[c] EXCEPT !.expired = @ \/ c \in sweep.locked]]
  BY DEF SweepCommits
<1> QED
  BY <1>4, <1>5, <1>6

-------------------------------------------------------------------------------
(* Kinds of steps *)

Same == UNCHANGED <<now, conversation, question>>

\* A step of the queue, the sweep, the clock, or the creation of a conversation.
Outside ==
  /\ UNCHANGED handler
  /\ now' \in Nat \ {0} /\ now <= now'
  /\ QuestionsKept
  /\ conversation' \in [Conversations -> ConversationRows]
  /\ \A c \in Conversations :
       /\ conversation[c].session # NoSession => conversation'[c].session = conversation[c].session
       /\ conversation[c].expired => conversation'[c].expired
  /\ \A k \in Keys : question[k].status # "absent" /\ question'[k].status = "absent" =>
       conversation'[ConversationOf(k)].expired
  /\ sessions' \subseteq Sessions /\ sweep' \in Sweeps

LEMMA SameQuestions == TypeOK /\ UNCHANGED question => QuestionsKept
  BY DEF TypeOK, QuestionsKept

LEMMA CreateOutside ==
  ASSUME TypeOK, NEW c \in Conversations, NEW s \in Sessions, CreateConversation(c, s)
  PROVE  Outside
<1> DEFINE row == [session |-> s, created |-> now, expired |-> FALSE]
<1>1. row \in ConversationRows
  BY DEF ConversationRows, TypeOK
<1>2. /\ conversation' = [conversation EXCEPT ![c] = row]
      /\ conversation[c] = NoConversation
      /\ UNCHANGED <<now, sessions, question, handler, sweep>>
      /\ conversation \in [Conversations -> ConversationRows]
  BY DEF CreateConversation, TypeOK
<1>3. conversation[c].session = NoSession /\ ~conversation[c].expired
  BY <1>2 DEF NoConversation
<1> HIDE DEF row
<1> QED
  BY <1>1, <1>2, <1>3, SameQuestions DEF Outside, TypeOK

LEMMA SweepLockType ==
  ASSUME TypeOK, NEW c \in Conversations, SweepLocks(c)
  PROVE  sweep' \in Sweeps
<1> DEFINE next == [sweep EXCEPT !.found = sweep.found \ {c},
                                 !.locked = IF Held(c) THEN sweep.locked ELSE sweep.locked \cup {c}]
<1>1. next \in Sweeps
  BY DEF TypeOK, Sweeps
<1>2. sweep' = next
  BY DEF SweepLocks
<1> QED
  BY <1>1, <1>2

\* Every step is a stutter, a step of a transaction, or one outside of them.
LEMMA StepKinds ==
  ASSUME TypeOK, [Next]_vars
  PROVE  \/ \E h \in Handlers : SubmitStep(h)
         \/ Outside
<1>1. now \in Nat \ {0} /\ sessions \subseteq Sessions /\ sweep \in Sweeps
      /\ conversation \in [Conversations -> ConversationRows]
  BY DEF TypeOK
<1>2. ASSUME UNCHANGED <<now, conversation, question, handler>>,
             sessions' \subseteq Sessions, sweep' \in Sweeps
      PROVE  Outside
  BY <1>1, <1>2, SameQuestions DEF Outside
<1>3. CASE UNCHANGED vars
  BY <1>1, <1>2, <1>3 DEF vars
<1>4. ASSUME NEW s \in Sessions, EnsureSession(s) PROVE Outside
  BY <1>1, <1>2, <1>4 DEF EnsureSession
<1>5. ASSUME NEW c \in Conversations, NEW s \in Sessions, CreateConversation(c, s) PROVE Outside
  BY <1>5, CreateOutside
<1>6. ASSUME NEW k \in Keys, Claim(k) \/ SetAside(k) \/ End(k) PROVE Outside
  <2>1. /\ QuestionsKept
        /\ \A j \in Keys : question[j].status # "absent" => question'[j].status # "absent"
        /\ UNCHANGED <<now, sessions, conversation, handler, sweep>>
    BY <1>6, RowMoves DEF Claim, SetAside, End, Pending
  <2> QED
    BY <1>1, <2>1 DEF Outside
<1>7. CASE SweepFinds
  <2>1. sweep' \in Sweeps
    BY <1>7 DEF SweepFinds, Sweeps, Expirable
  <2> QED
    BY <1>1, <1>2, <1>7, <2>1 DEF SweepFinds
<1>8. ASSUME NEW c \in Conversations, SweepLocks(c) PROVE Outside
  BY <1>1, <1>2, <1>8, SweepLockType DEF SweepLocks
<1>9. NoSweep \in Sweeps
  BY DEF NoSweep, Sweeps
<1>10. CASE SweepCommits
  <2>1. UNCHANGED <<now, sessions, handler>> /\ sweep' = NoSweep
    BY <1>10 DEF SweepCommits
  <2>2. \A k \in Keys : ConversationOf(k) \in Conversations
    BY DEF Keys, ConversationOf
  <2> QED
    BY <1>1, <1>9, <1>10, <2>1, <2>2, SweepEffect DEF Outside
<1>11. CASE SweepCrash
  BY <1>1, <1>2, <1>9, <1>11 DEF SweepCrash
<1>12. CASE Tick
  <2>1. now' \in Nat \ {0} /\ now <= now'
    BY <1>1, <1>12 DEF Tick
  <2> QED
    BY <1>1, <1>12, <2>1, SameQuestions DEF Tick, Outside
<1> QED
  BY <1>3, <1>4, <1>5, <1>6, <1>7, <1>8, <1>10, <1>11, <1>12 DEF Next

\* A step of a transaction that inserts nothing.
LEMMA HandlerMoves ==
  ASSUME TypeOK, NEW h \in Handlers, SubmitStep(h), ~Insert(h)
  PROVE  OnlyHandler(h) /\ handler'[h].step \in Steps \cup {"idle"}
<1>1. ASSUME Refuses(h) PROVE OnlyHandler(h) /\ handler'[h].step \in Steps \cup {"idle"}
  BY <1>1, RefusesEffect
<1>2. ASSUME Working(h), NEW step \in Steps, Moves(h, step)
      PROVE  OnlyHandler(h) /\ handler'[h].step \in Steps \cup {"idle"}
  BY <1>2, MovesEffect
<1>3. ASSUME NEW s \in Sessions, NEW body \in Bodies, Submit(h, Request(s, body))
      PROVE  OnlyHandler(h) /\ handler'[h].step \in Steps \cup {"idle"}
  BY <1>3, SubmitEffect DEF Steps, Inside
<1> QED
  BY <1>1, <1>2, <1>3 DEF SubmitStep, Authorize, Deduplicate, CheckOrder, CountPending, CheckRate,
     Respond, HandlerCrash, Working, Steps, Inside

-------------------------------------------------------------------------------
(* Type correctness *)

LEMMA TypeInit == Init => TypeOK
<1> SUFFICES ASSUME Init PROVE TypeOK
  OBVIOUS
<1>1. NoConversation \in ConversationRows
  BY DEF NoConversation, NoTime, ConversationRows
<1>2. NoQuestion \in QuestionRows /\ IdleHandler \in HandlerStates
  BY DEF QuestionRows, HandlerStates
<1>3. NoSweep \in Sweeps
  BY DEF NoSweep, Sweeps
<1> QED
  BY <1>1, <1>2, <1>3 DEF Init, TypeOK

LEMMA TypeStep == TypeOK /\ [Next]_vars => TypeOK'
<1> SUFFICES ASSUME TypeOK, [Next]_vars PROVE TypeOK'
  OBVIOUS
<1>1. CASE Outside
  BY <1>1 DEF Outside, QuestionsKept, TypeOK
<1>2. ASSUME NEW h \in Handlers, SubmitStep(h) PROVE TypeOK'
  <2>1. CASE Insert(h)
    BY <2>1, InsertEffect DEF Insert, TypeOK
  <2>2. CASE ~Insert(h)
    BY <1>2, <2>2, HandlerMoves DEF OnlyHandler, TypeOK
  <2> QED
    BY <2>1, <2>2
<1> QED
  BY <1>1, <1>2, StepKinds

\* Tables and transactions keep what their columns and steps allow.
THEOREM TypeCorrect == Spec => []TypeOK
  BY TypeInit, TypeStep, PTL DEF Spec

-------------------------------------------------------------------------------
(* Transactions *)

\* One transaction is inside the advisory lock.
Exclusive ==
  \A g, h \in Handlers : handler[g].step \in Inside /\ handler[h].step \in Inside => g = h

\* A question belongs to a conversation that was created.
Owned ==
  \A k \in Keys : question[k].status # "absent" => conversation[ConversationOf(k)].session # NoSession

Ordered == {"ordering", "counting", "rating", "inserting"}

\* What a transaction has found out stays true until it inserts.
Known(h) ==
  LET request == handler[h].request IN
  /\ handler[h].step \in Ordered \cup {"deduplicating"} =>
       conversation[request.conversation].session = request.session
  /\ handler[h].step \in Ordered => question[KeyOf(request)].status = "absent"
  /\ handler[h].step \in {"counting", "rating", "inserting"} => ~Busy(request.conversation)
  /\ handler[h].step \in {"rating", "inserting"} => Cardinality(PendingKeys) < PendingLimit
  /\ handler[h].step = "inserting" => Cardinality(Recent(request.session)) < RateLimit
  /\ handler[h].step = "accepted" =>
       \/ conversation[request.conversation].expired
       \/ /\ question[KeyOf(request)].status # "absent"
          /\ question[KeyOf(request)].text = request.text

SavedKeys == {k \in Keys : question[k].status # "absent"}

SubmitInv ==
  /\ Exclusive /\ Owned
  /\ \A h \in Handlers : Known(h)
  /\ IsFiniteSet(SavedKeys)
  /\ OnePending /\ PendingBudget /\ RateBudget

LEMMA SubmitImplies == SubmitInv => KeyIsFree /\ AcceptedIsSaved
  BY DEF SubmitInv, Known, KeyIsFree, AcceptedIsSaved, Ordered

LEMMA FinitePart ==
  ASSUME NEW S, IsFiniteSet(S), NEW T, T \subseteq S
  PROVE  IsFiniteSet(T) /\ Cardinality(T) \in Nat /\ Cardinality(S) \in Nat
         /\ Cardinality(T) <= Cardinality(S)
  BY FS_Subset, FS_CardinalityType

LEMMA FiniteOneMore ==
  ASSUME NEW S, IsFiniteSet(S), NEW T, NEW x, T \subseteq S \cup {x}
  PROVE  IsFiniteSet(T) /\ Cardinality(T) \in Nat /\ Cardinality(S) \in Nat
         /\ Cardinality(T) <= Cardinality(S) + 1
<1>1. IsFiniteSet(S \cup {x}) /\ Cardinality(S \cup {x}) <= Cardinality(S) + 1
  <2>1. /\ IsFiniteSet(S \cup {x}) /\ Cardinality(S) \in Nat
        /\ Cardinality(S \cup {x}) = IF x \in S THEN Cardinality(S) ELSE Cardinality(S) + 1
    BY FS_AddElement, FS_CardinalityType
  <2> QED
    BY <2>1
<1>2. IsFiniteSet(T) /\ Cardinality(T) <= Cardinality(S \cup {x})
  BY <1>1, FS_Subset
<1> QED
  BY <1>1, <1>2, FS_CardinalityType

LEMMA KeysFinite ==
  ASSUME IsFiniteSet(SavedKeys)
  PROVE  /\ IsFiniteSet(PendingKeys)
         /\ \A s : IsFiniteSet(Recent(s))
<1>1. PendingKeys \subseteq SavedKeys
  BY DEF PendingKeys, SavedKeys, Pending
<1>2. \A s : Recent(s) \subseteq SavedKeys
  BY DEF Recent, SavedKeys
<1> QED
  BY <1>1, <1>2, FS_Subset

LEMMA SubmitInit == Init => SubmitInv
<1> SUFFICES ASSUME Init PROVE SubmitInv
  OBVIOUS
<1>1. \A k \in Keys : question[k].status = "absent"
  BY DEF Init, NoQuestion
<1>2. \A h \in Handlers : handler[h].step = "idle"
  BY DEF Init, IdleHandler
<1>3. SavedKeys = {} /\ PendingKeys = {} /\ \A s : Recent(s) = {}
  BY <1>1 DEF SavedKeys, PendingKeys, Recent, Pending
<1>4. IsFiniteSet({}) /\ Cardinality({}) = 0
  BY FS_EmptySet
<1>5. Cardinality(PendingKeys) = 0 /\ \A s : Cardinality(Recent(s)) = 0
  BY <1>3, <1>4
<1>6. 0 <= PendingLimit /\ 0 <= RateLimit
  BY ConstantsAssumption
<1>7. PendingBudget /\ RateBudget
  BY <1>5, <1>6 DEF PendingBudget, RateBudget
<1>8. OnePending /\ IsFiniteSet(SavedKeys) /\ Owned
  BY <1>1, <1>3, <1>4 DEF OnePending, Owned
<1>9. Exclusive /\ \A h \in Handlers : Known(h)
  BY <1>2 DEF Exclusive, Known, Inside, Ordered
<1> QED
  BY <1>7, <1>8, <1>9 DEF SubmitInv

\* Steps outside of transactions add no question to what is counted.
LEMMA OutsideCounts ==
  ASSUME TypeOK, Owned, Outside
  PROVE  /\ SavedKeys' \subseteq SavedKeys /\ PendingKeys' \subseteq PendingKeys
         /\ \A s \in Sessions : Recent(s)' \subseteq Recent(s)
<1>1. SavedKeys' \subseteq SavedKeys /\ PendingKeys' \subseteq PendingKeys
  BY DEF Outside, QuestionsKept, SavedKeys, PendingKeys, Pending
<1>2. ASSUME NEW s \in Sessions, NEW k \in Recent(s)' PROVE k \in Recent(s)
  <2>1. /\ k \in Keys /\ question'[k].status # "absent"
        /\ conversation'[ConversationOf(k)].session = s
        /\ question'[k].accepted > now' - RateWindow
    BY <1>2 DEF Recent
  <2>2. question[k].status # "absent" /\ question'[k].accepted = question[k].accepted
    BY <2>1 DEF Outside, QuestionsKept
  <2>3. conversation[ConversationOf(k)].session = s
    BY <2>1, <2>2 DEF Outside, Owned, Keys, ConversationOf
  <2>4. question[k].accepted \in Nat
    BY <2>1, <2>2 DEF TypeOK, QuestionRows, NoQuestion
  <2>5. question[k].accepted > now - RateWindow
    BY <2>1, <2>2, <2>4, ConstantsAssumption DEF Outside, TypeOK
  <2> QED
    BY <2>1, <2>2, <2>3, <2>5 DEF Recent
<1> QED
  BY <1>1, <1>2

LEMMA SubmitOutside ==
  ASSUME TypeOK, SubmitInv, Outside
  PROVE  SubmitInv'
<1>1. /\ SavedKeys' \subseteq SavedKeys /\ PendingKeys' \subseteq PendingKeys
      /\ \A s \in Sessions : Recent(s)' \subseteq Recent(s)
  BY OutsideCounts DEF SubmitInv
<1>2. IsFiniteSet(SavedKeys')
  BY <1>1, FS_Subset DEF SubmitInv
<1>3. /\ IsFiniteSet(PendingKeys) /\ \A s : IsFiniteSet(Recent(s))
      /\ PendingLimit \in Nat /\ RateLimit \in Nat
  BY KeysFinite, ConstantsAssumption DEF SubmitInv
<1>4. /\ Cardinality(PendingKeys') \in Nat /\ Cardinality(PendingKeys) \in Nat
      /\ Cardinality(PendingKeys') <= Cardinality(PendingKeys)
  BY <1>1, <1>3, FinitePart
<1>5. \A s \in Sessions : /\ Cardinality(Recent(s)') \in Nat /\ Cardinality(Recent(s)) \in Nat
                          /\ Cardinality(Recent(s)') <= Cardinality(Recent(s))
  BY <1>1, <1>3, FinitePart
<1>6. PendingBudget'
  BY <1>3, <1>4 DEF SubmitInv, PendingBudget
<1>7. RateBudget'
  BY <1>3, <1>5 DEF SubmitInv, RateBudget
<1>8. OnePending'
  BY <1>1 DEF SubmitInv, OnePending
<1>9. Exclusive'
  BY DEF SubmitInv, Exclusive, Outside
<1>10. Owned'
  BY DEF SubmitInv, Owned, Outside, QuestionsKept, Keys, ConversationOf
<1>11. ASSUME NEW h \in Handlers PROVE Known(h)'
  <2>1. PICK request : request = handler[h].request /\ request = handler'[h].request
    BY DEF Outside
  <2>2. Known(h) /\ handler'[h] = handler[h]
    BY DEF SubmitInv, Outside
  <2>3. Working(h) => /\ request.conversation \in Conversations /\ request.session \in Sessions
                      /\ KeyOf(request) \in Keys
                      /\ ConversationOf(KeyOf(request)) = request.conversation
    BY <2>1, RequestType
  <2>4. Working(h)' => Working(h)
    BY <2>1, <2>2 DEF Working
  <2>5. \A c : Busy(c)' => Busy(c)
    BY <1>1 DEF Busy
  <2>6. handler[h].step \in Ordered \cup {"deduplicating"} =>
          conversation'[request.conversation].session = request.session
    BY <2>1, <2>2, <2>3, ConstantsAssumption DEF Known, Outside, Working, Steps, Inside, Ordered
  <2>7. handler[h].step \in Ordered => question'[KeyOf(request)].status = "absent"
    BY <2>1, <2>2, <2>3 DEF Known, Outside, QuestionsKept, Working, Steps, Inside, Ordered
  <2>8. handler[h].step \in {"rating", "inserting"} => Cardinality(PendingKeys') < PendingLimit
    BY <1>3, <1>4, <2>1, <2>2 DEF Known
  <2>9. handler[h].step = "inserting" => Cardinality(Recent(request.session)') < RateLimit
    BY <1>3, <1>5, <2>1, <2>2, <2>3 DEF Known, Working, Steps, Inside
  <2>10. handler[h].step = "accepted" =>
          \/ conversation'[request.conversation].expired
          \/ /\ question'[KeyOf(request)].status # "absent"
             /\ question'[KeyOf(request)].text = request.text
    BY <2>1, <2>2, <2>3 DEF Known, Outside, QuestionsKept, Working, Steps, Inside
  <2>11. handler[h].step \in {"counting", "rating", "inserting"} => ~Busy(request.conversation)'
    BY <2>1, <2>2, <2>5 DEF Known
  <2> QED
    BY <2>1, <2>2, <2>6, <2>7, <2>8, <2>9, <2>10, <2>11 DEF Known
<1> QED
  BY <1>2, <1>6, <1>7, <1>8, <1>9, <1>10, <1>11 DEF SubmitInv

\* A step of a transaction that inserts nothing.
LEMMA SubmitMoves ==
  ASSUME TypeOK, SubmitInv, NEW h \in Handlers, OnlyHandler(h), Known(h)',
         handler'[h].step \in Inside => handler[h].step \in Inside \/ AdvisoryLockFree
  PROVE  SubmitInv'
<1>1. Exclusive'
  BY DEF SubmitInv, Exclusive, OnlyHandler, AdvisoryLockFree
<1>2. ASSUME NEW g \in Handlers \ {h} PROVE Known(g)'
  <2>1. Known(g) /\ handler'[g] = handler[g] /\ UNCHANGED <<now, conversation, question>>
    BY DEF SubmitInv, OnlyHandler
  <2> QED
    BY <2>1 DEF Known, Busy, PendingKeys, Recent
<1>3. SavedKeys' = SavedKeys /\ PendingKeys' = PendingKeys /\ \A s : Recent(s)' = Recent(s)
  BY DEF OnlyHandler, SavedKeys, PendingKeys, Recent
<1>4. Owned' /\ OnePending' /\ PendingBudget' /\ RateBudget' /\ IsFiniteSet(SavedKeys')
  BY <1>3 DEF SubmitInv, OnlyHandler, Owned, OnePending, PendingBudget, RateBudget
<1> QED
  BY <1>1, <1>2, <1>4 DEF SubmitInv

LEMMA SubmitProceeds ==
  ASSUME TypeOK, SubmitInv, NEW h \in Handlers, SubmitStep(h), ~Insert(h)
  PROVE  SubmitInv'
<1>1. Known(h)
  BY DEF SubmitInv
<1>2. CASE Refuses(h)
  <2>1. OnlyHandler(h) /\ handler'[h].step = "idle"
    BY <1>2, RefusesEffect
  <2>2. Known(h)'
    BY <2>1 DEF Known, Ordered
  <2> QED
    BY <2>1, <2>2, SubmitMoves DEF Inside
<1>3. ASSUME NEW s \in Sessions, NEW body \in Bodies, Submit(h, Request(s, body)) PROVE SubmitInv'
  <2>1. OnlyHandler(h) /\ handler'[h].step = "authorizing" /\ AdvisoryLockFree
    BY <1>3, SubmitEffect DEF Submit
  <2>2. Known(h)'
    BY <2>1 DEF Known, Ordered
  <2> QED
    BY <2>1, <2>2, SubmitMoves
<1>4. ASSUME handler[h].step \in Inside, NEW step \in Steps, Moves(h, step),
             NEW request, request = handler[h].request,
             step \in Ordered \cup {"deduplicating"} =>
               conversation[request.conversation].session = request.session,
             step \in Ordered => question[KeyOf(request)].status = "absent",
             step \in {"counting", "rating", "inserting"} => ~Busy(request.conversation),
             step \in {"rating", "inserting"} => Cardinality(PendingKeys) < PendingLimit,
             step = "inserting" => Cardinality(Recent(request.session)) < RateLimit,
             step = "accepted" => /\ question[KeyOf(request)].status # "absent"
                                  /\ question[KeyOf(request)].text = request.text
      PROVE  SubmitInv'
  <2>1. OnlyHandler(h) /\ handler'[h].step = step /\ handler'[h].request = request
    BY <1>4, MovesEffect DEF Working, Steps
  <2>2. /\ UNCHANGED <<now, conversation, question>>
        /\ PendingKeys' = PendingKeys /\ \A s : Recent(s)' = Recent(s)
        /\ \A c : Busy(c)' = Busy(c)
    BY <2>1 DEF OnlyHandler, PendingKeys, Recent, Busy
  <2>3. Known(h)'
    BY <1>4, <2>1, <2>2 DEF Known
  <2> QED
    BY <1>4, <2>1, <2>3, SubmitMoves
<1>5. PICK request : request = handler[h].request
  OBVIOUS
<1>6. CASE Authorize(h)
  <2>1. CASE conversation[request.conversation].session = request.session
    <3>1. handler[h].step \in Inside /\ Moves(h, "deduplicating") /\ "deduplicating" \in Steps
      BY <1>5, <1>6, <2>1 DEF Authorize, Inside, Steps
    <3> QED
      BY <1>4, <1>5, <2>1, <3>1 DEF Ordered
  <2>2. CASE conversation[request.conversation].session # request.session
    BY <1>2, <1>5, <1>6, <2>2 DEF Authorize
  <2> QED
    BY <2>1, <2>2
<1>7. CASE Deduplicate(h)
  <2>1. handler[h].step \in Inside /\ conversation[request.conversation].session = request.session
    BY <1>1, <1>5, <1>7 DEF Deduplicate, Inside, Known
  <2>2. CASE ~Duplicate(request)
    <3>1. Moves(h, "ordering") /\ question[KeyOf(request)].status = "absent" /\ "ordering" \in Steps
      BY <1>5, <1>7, <2>2 DEF Deduplicate, Duplicate, Steps, Inside
    <3> QED
      BY <1>4, <1>5, <2>1, <3>1
  <2>3. CASE Duplicate(request) /\ SameContent(request)
    <3>1. /\ Moves(h, "accepted") /\ question[KeyOf(request)].status # "absent"
          /\ question[KeyOf(request)].text = request.text /\ "accepted" \in Steps
      BY <1>5, <1>7, <2>3 DEF Deduplicate, Duplicate, SameContent, Steps
    <3> QED
      BY <1>4, <1>5, <2>1, <3>1 DEF Ordered
  <2>4. CASE Duplicate(request) /\ ~SameContent(request)
    BY <1>2, <1>5, <1>7, <2>4 DEF Deduplicate
  <2> QED
    BY <2>2, <2>3, <2>4
<1>8. CASE CheckOrder(h)
  <2>1. /\ handler[h].step = "ordering" /\ handler[h].step \in Inside /\ handler[h].step \in Ordered
        /\ conversation[request.conversation].session = request.session
        /\ question[KeyOf(request)].status = "absent"
    BY <1>1, <1>5, <1>8 DEF CheckOrder, Inside, Known, Ordered
  <2>2. CASE ~Busy(request.conversation)
    <3>1. Moves(h, "counting") /\ "counting" \in Steps
      BY <1>5, <1>8, <2>2 DEF CheckOrder, Steps, Inside
    <3> QED
      BY <1>4, <1>5, <2>1, <2>2, <3>1
  <2>3. CASE Busy(request.conversation)
    BY <1>2, <1>5, <1>8, <2>3 DEF CheckOrder
  <2> QED
    BY <2>2, <2>3
<1>9. CASE CountPending(h)
  <2>1. /\ handler[h].step = "counting" /\ handler[h].step \in Inside
        /\ conversation[request.conversation].session = request.session
        /\ question[KeyOf(request)].status = "absent" /\ ~Busy(request.conversation)
    BY <1>1, <1>5, <1>9 DEF CountPending, Inside, Known, Ordered
  <2>2. CASE ~(Cardinality(PendingKeys) >= PendingLimit)
    <3>1. Moves(h, "rating") /\ "rating" \in Steps
      BY <1>9, <2>2 DEF CountPending, Steps, Inside
    <3>2. Cardinality(PendingKeys) < PendingLimit
      <4>1. Cardinality(PendingKeys) \in Nat /\ PendingLimit \in Nat
        BY KeysFinite, FS_CardinalityType, ConstantsAssumption DEF SubmitInv
      <4> QED
        BY <2>2, <4>1
    <3> QED
      BY <1>4, <1>5, <2>1, <3>1, <3>2
  <2>3. CASE Cardinality(PendingKeys) >= PendingLimit
    BY <1>2, <1>9, <2>3 DEF CountPending
  <2> QED
    BY <2>2, <2>3
<1>10. CASE CheckRate(h)
  <2>1. /\ handler[h].step = "rating" /\ handler[h].step \in Inside
        /\ conversation[request.conversation].session = request.session
        /\ question[KeyOf(request)].status = "absent" /\ ~Busy(request.conversation)
        /\ Cardinality(PendingKeys) < PendingLimit
    BY <1>1, <1>5, <1>10 DEF CheckRate, Inside, Known, Ordered
  <2>2. CASE ~TooMany(request.session)
    <3>1. Moves(h, "inserting") /\ "inserting" \in Steps
      BY <1>5, <1>10, <2>2 DEF CheckRate, Steps, Inside
    <3>2. Cardinality(Recent(request.session)) < RateLimit
      <4>1. Cardinality(Recent(request.session)) \in Nat /\ RateLimit \in Nat
        BY KeysFinite, FS_CardinalityType, ConstantsAssumption DEF SubmitInv
      <4> QED
        BY <2>2, <4>1 DEF TooMany
    <3> QED
      BY <1>4, <1>5, <2>1, <3>1, <3>2
  <2>3. CASE TooMany(request.session)
    BY <1>2, <1>5, <1>10, <2>3 DEF CheckRate
  <2> QED
    BY <2>2, <2>3
<1> QED
  BY <1>2, <1>3, <1>6, <1>7, <1>8, <1>9, <1>10 DEF SubmitStep, Respond, HandlerCrash

LEMMA SubmitInserts ==
  ASSUME TypeOK, SubmitInv, NEW h \in Handlers, Insert(h)
  PROVE  SubmitInv'
<1>1. PICK request, key : request = handler[h].request /\ key = KeyOf(request)
  OBVIOUS
<1>2. /\ key \in Keys /\ Working(h) /\ question[key].status = "absent"
      /\ question'[key].status = "waiting" /\ question'[key].accepted = now
      /\ question'[key].text = request.text
      /\ \A k \in Keys \ {key} : question'[k] = question[k]
      /\ handler'[h].step = "accepted" /\ handler'[h].request = request
      /\ \A g \in Handlers \ {h} : handler'[g] = handler[g]
  BY <1>1, InsertEffect
<1>3. UNCHANGED <<now, conversation>> /\ handler[h].step = "inserting"
  BY DEF Insert
<1>4. /\ request.session \in Sessions /\ request.conversation \in Conversations
      /\ ConversationOf(key) = request.conversation
      /\ conversation[request.conversation].session = request.session
      /\ ~Busy(request.conversation)
      /\ Cardinality(PendingKeys) < PendingLimit
      /\ Cardinality(Recent(request.session)) < RateLimit
  BY <1>1, <1>2, <1>3, RequestType DEF SubmitInv, Known, Ordered
<1>5. SavedKeys' \subseteq SavedKeys \cup {key} /\ PendingKeys' \subseteq PendingKeys \cup {key}
  BY <1>2 DEF SavedKeys, PendingKeys
<1>6. /\ Recent(request.session)' \subseteq Recent(request.session) \cup {key}
      /\ \A s \in Sessions \ {request.session} : Recent(s)' \subseteq Recent(s)
  <2>1. ASSUME NEW s, NEW k \in Recent(s)' PROVE k \in Recent(s) \/ (k = key /\ s = request.session)
    <3>1. /\ k \in Keys /\ question'[k].status # "absent"
          /\ conversation[ConversationOf(k)].session = s
          /\ question'[k].accepted > now - RateWindow
      BY <1>3, <2>1 DEF Recent
    <3>2. CASE k = key
      BY <1>4, <3>1, <3>2
    <3>3. CASE k # key
      BY <1>2, <3>1, <3>3 DEF Recent
    <3> QED
      BY <3>2, <3>3
  <2> QED
    BY <2>1
<1>7. IsFiniteSet(SavedKeys')
  BY <1>5, FiniteOneMore DEF SubmitInv
<1>8. /\ IsFiniteSet(PendingKeys) /\ \A s : IsFiniteSet(Recent(s))
      /\ PendingLimit \in Nat /\ RateLimit \in Nat
  BY KeysFinite, ConstantsAssumption DEF SubmitInv
<1>9. PendingBudget'
  <2>1. /\ Cardinality(PendingKeys') \in Nat /\ Cardinality(PendingKeys) \in Nat
        /\ Cardinality(PendingKeys') <= Cardinality(PendingKeys) + 1
    BY <1>5, <1>8, FiniteOneMore
  <2>2. Cardinality(PendingKeys') <= PendingLimit
    BY <1>4, <1>8, <2>1
  <2> QED
    BY <2>2 DEF PendingBudget
<1>10. RateBudget'
  <2>1. Cardinality(Recent(request.session)') <= RateLimit
    <3>1. /\ Cardinality(Recent(request.session)') \in Nat
          /\ Cardinality(Recent(request.session)) \in Nat
          /\ Cardinality(Recent(request.session)') <= Cardinality(Recent(request.session)) + 1
      BY <1>6, <1>8, FiniteOneMore
    <3> QED
      BY <1>4, <1>8, <3>1
  <2>2. ASSUME NEW s \in Sessions \ {request.session} PROVE Cardinality(Recent(s)') <= RateLimit
    <3>1. /\ Cardinality(Recent(s)') \in Nat /\ Cardinality(Recent(s)) \in Nat
          /\ Cardinality(Recent(s)') <= Cardinality(Recent(s))
      BY <1>6, <1>8, FinitePart
    <3>2. Cardinality(Recent(s)) <= RateLimit
      BY DEF SubmitInv, RateBudget
    <3> QED
      BY <1>8, <3>1, <3>2
  <2> QED
    BY <2>1, <2>2 DEF RateBudget
<1>11. OnePending'
  <2>1. \A k \in PendingKeys : ConversationOf(k) # ConversationOf(key)
    BY <1>4 DEF Busy
  <2> QED
    BY <1>5, <2>1 DEF OnePending, SubmitInv
<1>12. Owned'
  BY <1>2, <1>3, <1>4, ConstantsAssumption DEF SubmitInv, Owned
<1>13. \A g \in Handlers \ {h} : handler[g].step \notin Inside
  BY <1>3 DEF SubmitInv, Exclusive, Inside
<1>14. Exclusive'
  BY <1>2, <1>13 DEF Exclusive, Inside
<1>15. Known(h)'
  BY <1>1, <1>2 DEF Known, Ordered
<1>16. ASSUME NEW g \in Handlers \ {h} PROVE Known(g)'
  <2>1. PICK other : other = handler[g].request /\ other = handler'[g].request
    BY <1>2
  <2>2. handler'[g] = handler[g] /\ handler[g].step \notin Inside
    BY <1>2, <1>13
  <2>3. ASSUME handler[g].step = "accepted"
        PROVE  \/ conversation[other.conversation].expired
               \/ /\ question'[KeyOf(other)].status # "absent"
                  /\ question'[KeyOf(other)].text = other.text
    <3>1. KeyOf(other) \in Keys
      BY <2>1, <2>3, RequestType DEF Working, Steps
    <3>2. \/ conversation[other.conversation].expired
          \/ /\ question[KeyOf(other)].status # "absent"
             /\ question[KeyOf(other)].text = other.text
      BY <2>1, <2>3 DEF SubmitInv, Known
    <3> QED
      BY <1>2, <3>1, <3>2
  <2> QED
    BY <1>3, <2>1, <2>2, <2>3 DEF Known, Inside, Ordered
<1> QED
  BY <1>7, <1>9, <1>10, <1>11, <1>12, <1>14, <1>15, <1>16 DEF SubmitInv

LEMMA SubmitInvStep == TypeOK /\ SubmitInv /\ [Next]_vars => SubmitInv'
  BY StepKinds, SubmitOutside, SubmitProceeds, SubmitInserts

LEMMA SpecInv == Spec => [](TypeOK /\ SubmitInv)
  BY TypeInit, TypeStep, SubmitInit, SubmitInvStep, PTL DEF Spec

\* A conversation has at most one pending question, whatever replicas its
\* submissions reach.
THEOREM OneQuestionPending == Spec => []OnePending
<1>1. SubmitInv => OnePending
  BY DEF SubmitInv
<1> QED
  BY <1>1, SpecInv, PTL

\* The limit on pending questions holds over all replicas.
THEOREM PendingLimitHolds == Spec => []PendingBudget
<1>1. SubmitInv => PendingBudget
  BY DEF SubmitInv
<1> QED
  BY <1>1, SpecInv, PTL

\* The rate of a session holds over all its conversations and all replicas.
THEOREM RateLimitHolds == Spec => []RateBudget
<1>1. SubmitInv => RateBudget
  BY DEF SubmitInv
<1> QED
  BY <1>1, SpecInv, PTL

\* Two deliveries of one submission never both insert.
THEOREM InsertsMeetNoRow == Spec => []KeyIsFree
  BY SubmitImplies, SpecInv, PTL

\* What is acknowledged is saved with its text until its conversation expires.
THEOREM AcknowledgedIsSaved == Spec => []AcceptedIsSaved
  BY SubmitImplies, SpecInv, PTL
================================================================================
