-------------------------- MODULE Conversation_proofs --------------------------
(***************************************************************************)
(* Theorems about Conversation, for any catalog, any requirements and any  *)
(* limits.                                                                 *)
(***************************************************************************)
EXTENDS Conversation, SequenceTheorems, TLAPS

Messages == {System, Asked, Answered, Question, Result} \cup {Calls(n) : n \in 1..CallLimit}

\* While calls are being done another round is left.
TypeInv ==
  /\ TypeOK
  /\ messages \in Seq(Messages)
  /\ phase = "tools" => calls \in 1..CallLimit /\ round < Rounds - 1

\* messages[i] calls tools, and the results follow; the last results may be due.
Block(i) ==
  \E n \in 1..CallLimit :
    /\ messages[i] = Calls(n)
    /\ \A k \in i + 1..i + n : k <= Len(messages) => messages[k] = Result
    /\ IF i + n <= Len(messages)
       THEN i + n < Len(messages) => messages[i + n + 1] # Result
       ELSE phase = "tools" /\ i + n = Len(messages) + calls

\* The calls that are not done are those of a reply in the prompt.
CallsDue(i) ==
  \E n \in 1..CallLimit :
    /\ messages[i] = Calls(n) /\ i + n = Len(messages) + calls
    /\ \A k \in i + 1..Len(messages) : messages[k] = Result

Start == 2 * pairs + 2

\* The prompt is the instructions, whole turns, the question, and blocks.
PromptInv ==
  phase # "idle" =>
    /\ Start <= Len(messages)
    /\ \A i \in 1..Start : messages[i] = Prompt(pairs)[i]
    /\ \A i \in Start + 1..Len(messages) : messages[i] # Result => Block(i)
    /\ phase = "tools" => \E i \in Start + 1..Len(messages) : CallsDue(i)

-------------------------------------------------------------------------------
(* Operators *)

LEMMA PairsFit == \A n \in Nat : Min({n, PairLimit}) \in 0..PairLimit /\ Min({n, PairLimit}) <= n
<1> SUFFICES ASSUME NEW n \in Nat
             PROVE  Min({n, PairLimit}) \in 0..PairLimit /\ Min({n, PairLimit}) <= n
  OBVIOUS
<1>1. PairLimit \in Nat
  BY ConstantsAssumption
<1>2. \E x \in {n, PairLimit} : \A y \in {n, PairLimit} : x <= y
  BY <1>1
<1>3. /\ Min({n, PairLimit}) \in {n, PairLimit}
      /\ \A y \in {n, PairLimit} : Min({n, PairLimit}) <= y
  BY <1>2 DEF Min
<1> QED
  BY <1>1, <1>3

LEMMA PromptType ==
  ASSUME NEW n \in Nat
  PROVE  /\ Prompt(n) \in Seq(Messages)
         /\ Len(Prompt(n)) = 2 * n + 2
         /\ Prompt(n)[1] = System /\ Prompt(n)[2 * n + 2] = Question
         /\ \A i \in 2..2 * n + 1 : Prompt(n)[i] = IF i % 2 = 0 THEN Asked ELSE Answered
<1>1. /\ History(n) \in Seq(Messages) /\ Len(History(n)) = 2 * n
      /\ \A i \in 1..2 * n : History(n)[i] = IF i % 2 = 1 THEN Asked ELSE Answered
  BY DEF History, Messages
<1>2. System \in Messages /\ Question \in Messages
  BY DEF Messages
<1> DEFINE whole == <<System>> \o History(n) \o <<Question>>
<1>3. /\ whole \in Seq(Messages) /\ Len(whole) = 2 * n + 2
      /\ whole[1] = System /\ whole[2 * n + 2] = Question
      /\ \A i \in 2..2 * n + 1 : whole[i] = History(n)[i - 1]
  BY SMTT(30), <1>1, <1>2
<1>4. \A i \in 2..2 * n + 1 : i - 1 \in 1..2 * n /\ ((i - 1) % 2 = 1 <=> i % 2 = 0)
  OBVIOUS
<1> QED
  BY <1>1, <1>3, <1>4 DEF Prompt

LEMMA MergeType ==
  ASSUME NEW c \in Requirements, NEW change \in Changes, NEW reset \in BOOLEAN
  PROVE  Merge(c, change, reset) \in Requirements
  BY DEF Merge, Requirements, Changes

LEMMA LeftType ==
  ASSUME NEW c \in Requirements, NEW ps \in SUBSET Products, NEW links \in SUBSET Products,
         NEW from \in {"none", "search", "named"}
  PROVE  Left(c, ps, links, from) \in Contexts
  BY DEF Left, Contexts

LEMMA UnconstrainedType == Unconstrained \in Requirements
  BY DEF Unconstrained, Requirements

LEMMA BlankType == Blank \in Contexts
  BY UnconstrainedType DEF Blank, Contexts

LEMMA RemovedOldest ==
  ASSUME NEW m \in Seq(Messages), 3 <= Len(m)
  PROVE  /\ WithoutOldest(m) \in Seq(Messages)
         /\ Len(WithoutOldest(m)) = Len(m) - 2
         /\ WithoutOldest(m)[1] = m[1]
         /\ \A i \in 2..Len(m) - 2 : WithoutOldest(m)[i] = m[i + 2]
<1> DEFINE rest == SubSeq(m, 4, Len(m))
<1>1. /\ rest \in Seq(Messages) /\ Len(rest) = Len(m) - 3
      /\ \A i \in 1..Len(m) - 3 : rest[i] = m[i + 3]
  <2>1. Len(m) \in Nat /\ \A i \in 4..Len(m) : m[i] \in Messages
    OBVIOUS
  <2>2. /\ rest \in Seq(Messages)
        /\ Len(rest) = IF 4 <= Len(m) THEN Len(m) - 4 + 1 ELSE 0
        /\ \A i \in 1..Len(m) - 4 + 1 : rest[i] = m[4 + i - 1]
    BY <2>1, SubSeqProperties
  <2> HIDE DEF rest
  <2>3. ASSUME NEW i \in 1..Len(m) - 3 PROVE rest[i] = m[i + 3]
    <3>1. i \in 1..Len(m) - 4 + 1 /\ 4 + i - 1 = i + 3
      BY <2>1
    <3> QED
      BY <2>2, <3>1, SMTT(30)
  <2>4. Len(rest) = Len(m) - 3
    <3>1. CASE Len(m) = 3
      BY <2>1, <2>2, <3>1
    <3>2. CASE 4 <= Len(m)
      BY <2>1, <2>2, <3>2
    <3>3. \A n \in Nat : 3 <= n => n = 3 \/ 4 <= n
      OBVIOUS
    <3> QED
      BY <2>1, <3>1, <3>2, <3>3, Zenon
  <2> QED
    BY <2>2, <2>3, <2>4
<1>2. m[1] \in Messages
  OBVIOUS
<1> HIDE DEF rest
<1>3. /\ <<m[1]>> \o rest \in Seq(Messages) /\ Len(<<m[1]>> \o rest) = Len(m) - 2
      /\ (<<m[1]>> \o rest)[1] = m[1]
      /\ \A i \in 2..Len(m) - 2 : (<<m[1]>> \o rest)[i] = rest[i - 1]
  BY <1>1, <1>2
<1>4. \A i \in 2..Len(m) - 2 : rest[i - 1] = m[i + 2]
  BY <1>1
<1> QED
  BY <1>3, <1>4 DEF WithoutOldest, rest

-------------------------------------------------------------------------------
(* Type correctness *)

LEMMA LimitsType ==
  /\ Rounds \in Nat \ {0} /\ CallLimit \in Nat \ {0} /\ PairLimit \in Nat \ {0}
  /\ MaxTurns \in Nat
  BY ConstantsAssumption

LEMMA CarriedType == last \in Contexts => Carried \in SUBSET Products
  BY DEF Carried, Contexts

LEMMA MeasuresRoom ==
  ASSUME Measures, messages' \in Seq(Messages), pairs' \in Nat
  PROVE  phase' = "measure" /\ room' \in Int
<1>1. PICK k \in 0..pairs' + 1 : room' = Len(messages') - 2 * k
  BY DEF Measures
<1>2. Len(messages') \in Nat /\ k \in Int
  OBVIOUS
<1> QED
  BY <1>1, <1>2 DEF Measures

LEMMA IdleType == Idle => /\ phase' = "idle" /\ messages' \in Seq(Messages) /\ room' \in Int
                          /\ pairs' \in 0..PairLimit /\ round' \in 0..Rounds - 1
                          /\ calls' \in 0..CallLimit /\ constraints' \in Requirements
                          /\ products' \in SUBSET Products /\ origin' = "none"
  BY LimitsType, UnconstrainedType DEF Idle

LEMMA CompletesType ==
  ASSUME TypeInv, turns < MaxTurns, NEW left \in Contexts, Completes(left)
  PROVE  TypeInv'
<1>1. turns' \in 0..MaxTurns /\ last' \in Contexts
  BY LimitsType DEF TypeInv, TypeOK, Completes
<1> QED
  BY <1>1, IdleType DEF TypeInv, TypeOK, Completes

LEMMA CallDoneType ==
  ASSUME TypeInv, phase = "tools", CallDone,
         constraints' \in Requirements, products' \in SUBSET Products,
         origin' \in {"none", "search", "named"}
  PROVE  TypeInv'
<1>1. /\ calls \in 1..CallLimit /\ round \in 0..Rounds - 1 /\ round < Rounds - 1
      /\ pairs \in 0..PairLimit /\ messages \in Seq(Messages)
  BY DEF TypeInv, TypeOK
<1>2. calls' = calls - 1 /\ messages' = Append(messages, Result) /\ UNCHANGED <<turns, last, pairs>>
  BY DEF CallDone
<1>3. messages' \in Seq(Messages) /\ calls' \in 0..CallLimit
  BY <1>1, <1>2, LimitsType DEF Messages
<1>4. CASE calls = 1
  <2>1. Measures /\ round' = round + 1
    BY <1>4 DEF CallDone
  <2>2. round' \in 0..Rounds - 1
    BY <1>1, <2>1, LimitsType
  <2>3. phase' = "measure" /\ room' \in Int
    BY <1>1, <1>2, <1>3, <2>1, MeasuresRoom
  <2> QED
    BY <1>2, <1>3, <2>2, <2>3 DEF TypeInv, TypeOK
<1>5. CASE calls # 1
  <2>1. UNCHANGED <<phase, room, round>>
    BY <1>5 DEF CallDone
  <2>2. calls' \in 1..CallLimit
    BY <1>1, <1>2, <1>5, LimitsType
  <2> QED
    BY <1>1, <1>2, <1>3, <2>1, <2>2 DEF TypeInv, TypeOK
<1> QED
  BY <1>4, <1>5

LEMMA TypeInit == Init => TypeInv
<1> SUFFICES ASSUME Init PROVE TypeInv
  OBVIOUS
<1>1. messages \in Seq(Messages)
  BY DEF Init
<1> QED
  BY <1>1, LimitsType, UnconstrainedType, BlankType DEF Init, TypeInv, TypeOK

\* A turn that is worked on is not the last that is counted.
Counted == phase # "idle" => turns < MaxTurns

LEMMA CountedInit == Init => Counted
  BY DEF Init, Counted

LEMMA CountedStep == Counted /\ [Next]_vars => Counted'
<1> SUFFICES ASSUME Counted, [Next]_vars PROVE Counted'
  OBVIOUS
<1>1. ASSUME UNCHANGED turns, phase # "idle" PROVE Counted'
  BY <1>1 DEF Counted
<1>2. ASSUME Idle PROVE Counted'
  BY <1>2 DEF Idle, Counted
<1>3. ASSUME NEW left, Completes(left) PROVE Counted'
  BY <1>2, <1>3 DEF Completes
<1>4. CASE UNCHANGED vars
  BY <1>4 DEF vars, Counted
<1>5. CASE AnswerAtOnce
  BY <1>3, <1>5 DEF AnswerAtOnce
<1>6. CASE Begin
  BY <1>6 DEF Begin, Counted
<1>7. CASE LoopStep
  <2>1. phase # "idle"
    BY <1>7 DEF LoopStep, Fitting, Prune, TooLong, Answer, Narrow, CallTools, Search, Details,
                AskBack, BadCall
  <2>2. CASE Fitting \/ Prune \/ CallTools
    BY <1>1, <2>1, <2>2 DEF Fitting, Prune, CallTools
  <2>3. CASE TooLong \/ Answer \/ Narrow \/ AskBack
    BY <1>3, <2>3 DEF TooLong, Answer, Narrow, AskBack
  <2>4. CASE Search
    BY <1>1, <1>3, <2>1, <2>4 DEF Search, CallDone
  <2>5. CASE Details \/ BadCall
    BY <1>1, <2>1, <2>5 DEF Details, BadCall, CallDone
  <2> QED
    BY <1>7, <2>2, <2>3, <2>4, <2>5 DEF LoopStep
<1>8. CASE AttemptFails
  BY <1>2, <1>8 DEF AttemptFails
<1> QED
  BY <1>4, <1>5, <1>6, <1>7, <1>8 DEF Next

LEMMA TypeStep == TypeInv /\ Counted /\ PromptInv /\ [Next]_vars => TypeInv'
<1> SUFFICES ASSUME TypeInv, Counted, PromptInv, [Next]_vars PROVE TypeInv'
  OBVIOUS
<1>1. /\ last \in Contexts /\ last.constraints \in Requirements
      /\ last.origin \in {"none", "search", "named"} /\ Carried \in SUBSET Products
      /\ constraints \in Requirements /\ products \in SUBSET Products
      /\ origin \in {"none", "search", "named"}
      /\ pairs \in 0..PairLimit /\ messages \in Seq(Messages) /\ turns \in 0..MaxTurns
  BY CarriedType DEF TypeInv, TypeOK, Contexts
<1>2. Allowed(constraints) \subseteq Products /\ \A c : Candidates(c) \subseteq Products
  BY DEF Allowed, Candidates
<1>3. \A r \in References : Resolve(r) \subseteq Products
  BY ConstantsAssumption DEF Resolve
<1>4. CASE UNCHANGED vars
  BY <1>4 DEF vars, TypeInv, TypeOK
<1>5. CASE AnswerAtOnce
  BY <1>5, BlankType, CompletesType DEF AnswerAtOnce
<1>6. CASE Begin
  <2>1. turns \in Nat
    BY <1>1, LimitsType
  <2>2. pairs' \in 0..PairLimit
    BY <1>6, <2>1, PairsFit DEF Begin
  <2>3. pairs' \in Nat
    BY <2>2, LimitsType
  <2>4. messages' \in Seq(Messages)
    BY <1>6, <2>3, PromptType DEF Begin
  <2>5. phase' = "measure" /\ room' \in Int
    BY <1>6, <2>3, <2>4, MeasuresRoom DEF Begin
  <2> QED
    BY <1>1, <1>6, <2>2, <2>4, <2>5 DEF Begin, TypeInv, TypeOK
<1>7. CASE Fitting
  BY <1>7 DEF Fitting, work, TypeInv, TypeOK
<1>8. CASE Prune
  <2>1. pairs' \in 0..PairLimit
    BY <1>1, <1>8, LimitsType DEF Prune, PairsLeft
  <2>2. WithoutOldest(messages) \in Seq(Messages)
    <3>1. Start <= Len(messages) /\ pairs > 0 /\ pairs \in Nat /\ Len(messages) \in Nat
      BY <1>1, <1>8, LimitsType DEF Prune, PromptInv
    <3>2. 3 <= Len(messages)
      BY <3>1 DEF Start
    <3> QED
      BY <1>1, <3>2, RemovedOldest
  <2> QED
    BY <1>8, <2>1, <2>2 DEF Prune, TypeInv, TypeOK
<1>9. CASE TooLong
  <2>1. Remembered \in Contexts
    BY <1>1, LeftType DEF Remembered
  <2> QED
    BY <1>9, <2>1, CompletesType DEF TooLong, Counted
<1>10. CASE Answer
  <2>1. Left(constraints, products, products, origin) \in Contexts
    BY <1>1, LeftType
  <2> QED
    BY <1>10, <2>1, BlankType, CompletesType DEF Answer, Counted
<1>11. CASE Narrow
  BY <1>11, BlankType, CompletesType DEF Narrow, Counted
<1>12. CASE CallTools
  <2>1. PICK n \in 1..CallLimit : calls' = n /\ messages' = Append(messages, Calls(n))
    BY <1>12 DEF CallTools
  <2>2. messages' \in Seq(Messages) /\ calls' \in 1..CallLimit /\ calls' \in 0..CallLimit
    BY <1>1, <2>1, LimitsType DEF Messages
  <2> QED
    BY <1>12, <2>2 DEF CallTools, TypeInv, TypeOK
<1>13. CASE Search
  <2>1. PICK change \in Changes, reset \in BOOLEAN :
          LET c == Merge(constraints, change, reset) IN
          \E found \in SUBSET Candidates(c) :
            /\ Cardinality(found) <= LinkLimit
            /\ \/ /\ found # {}
                  /\ constraints' = c /\ products' = found /\ origin' = "search"
                  /\ CallDone
               \/ /\ found = {}
                  /\ Completes(Left(c, {}, {}, "search"))
    BY <1>13 DEF Search
  <2> DEFINE c == Merge(constraints, change, reset)
  <2>2. c \in Requirements
    BY <1>1, MergeType
  <2>3. phase = "tools"
    BY <1>13 DEF Search
  <2>4. CASE Completes(Left(c, {}, {}, "search"))
    BY <2>2, <2>3, <2>4, LeftType, CompletesType DEF Counted
  <2>5. CASE /\ CallDone /\ constraints' = c /\ products' \subseteq Candidates(c)
             /\ origin' = "search"
    <3>1. products' \in SUBSET Products
      BY <1>2, <2>5
    <3> QED
      BY <2>2, <2>3, <2>5, <3>1, CallDoneType
  <2> QED
    BY <2>1, <2>4, <2>5
<1>14. CASE Details
  <2>1. products' \in SUBSET Products
    BY <1>3, <1>14 DEF Details
  <2> QED
    BY <1>1, <1>14, <2>1, CallDoneType DEF Details
<1>15. CASE AskBack
  <2>1. PICK r \in References :
          Completes(Left(constraints, products, Resolve(r), IF products = {} THEN "named" ELSE origin))
    BY <1>15 DEF AskBack
  <2>2. Left(constraints, products, Resolve(r), IF products = {} THEN "named" ELSE origin) \in Contexts
    BY <1>1, <1>3, LeftType
  <2> QED
    BY <1>15, <2>1, <2>2, CompletesType DEF AskBack, Counted
<1>16. CASE BadCall
  BY <1>1, <1>16, CallDoneType DEF BadCall
<1>17. CASE AttemptFails
  BY <1>17, IdleType DEF AttemptFails, TypeInv, TypeOK
<1> QED
  BY <1>4, <1>5, <1>6, <1>7, <1>8, <1>9, <1>10, <1>11, <1>12, <1>13, <1>14, <1>15, <1>16, <1>17
     DEF Next, LoopStep

-------------------------------------------------------------------------------
(* The prompt *)

LEMMA CallsAreNotResults == \A n \in Nat : Calls(n) # Result /\ \A m \in Nat : Calls(n) = Calls(m) => n = m
  BY DEF Calls, Result

LEMMA PromptInit == Init => PromptInv
  BY DEF Init, PromptInv

LEMMA PromptAt ==
  ASSUME NEW n \in Nat, NEW start \in Nat, start = 2 * n + 2
  PROVE  /\ Prompt(n)[1] = System /\ Prompt(n)[start] = Question
         /\ \A i \in 2..start - 1 : Prompt(n)[i] = IF i % 2 = 0 THEN Asked ELSE Answered
<1>1. start - 1 = 2 * n + 1
  OBVIOUS
<1> QED
  BY <1>1, PromptType

LEMMA PromptPrunes ==
  ASSUME TypeInv, PromptInv, Prune
  PROVE  PromptInv'
<1>1. /\ pairs \in Nat /\ pairs > 0 /\ messages \in Seq(Messages) /\ Len(messages) \in Nat
      /\ phase = "measure" /\ phase' = "measure" /\ pairs' = pairs - 1 /\ pairs' \in Nat
      /\ messages' = WithoutOldest(messages) /\ Start \in Nat /\ Start' = Start - 2
      /\ Start = 2 * pairs + 2
  BY LimitsType DEF TypeInv, TypeOK, Prune, PairsLeft, Start
<1>2. /\ Start <= Len(messages)
      /\ \A i \in 1..Start : messages[i] = Prompt(pairs)[i]
      /\ \A i \in Start + 1..Len(messages) : messages[i] # Result => Block(i)
  BY <1>1 DEF PromptInv
<1>3. 4 <= Start /\ 3 <= Len(messages)
  BY <1>1, <1>2
<1>4. /\ messages' \in Seq(Messages) /\ Len(messages') = Len(messages) - 2
      /\ messages'[1] = messages[1]
      /\ \A i \in 2..Len(messages') : messages'[i] = messages[i + 2]
  BY <1>1, <1>3, RemovedOldest
<1>5. /\ Prompt(pairs)[1] = System /\ Prompt(pairs)[Start] = Question
      /\ \A i \in 2..Start - 1 : Prompt(pairs)[i] = IF i % 2 = 0 THEN Asked ELSE Answered
      /\ Prompt(pairs')[1] = System /\ Prompt(pairs')[Start'] = Question
      /\ \A i \in 2..Start' - 1 : Prompt(pairs')[i] = IF i % 2 = 0 THEN Asked ELSE Answered
  <2>1. Start' = 2 * pairs' + 2 /\ Start' \in Nat
    BY <1>1 DEF Start
  <2> QED
    BY <1>1, <2>1, PromptAt
<1>6. ASSUME NEW i \in 1..Start' PROVE messages'[i] = Prompt(pairs')[i]
  <2>1. CASE i = 1
    <3>1. 1 \in 1..Start
      BY <1>1, <1>3
    <3> QED
      BY <1>2, <1>4, <1>5, <2>1, <3>1
  <2>2. CASE i = Start'
    <3>1. i \in 2..Len(messages') /\ i + 2 = Start /\ Start \in 1..Start
      BY <1>1, <1>2, <1>3, <1>4, <2>2
    <3>2. messages'[i] = messages[Start]
      BY <1>4, <3>1
    <3> QED
      BY <1>2, <1>5, <2>2, <3>1, <3>2
  <2>3. CASE i \in 2..Start' - 1
    <3>1. /\ i \in 2..Len(messages') /\ i + 2 \in 1..Start /\ i + 2 \in 2..Start - 1
          /\ ((i + 2) % 2 = 0 <=> i % 2 = 0)
      BY <1>1, <1>2, <1>3, <1>4, <2>3
    <3>2. messages'[i] = Prompt(pairs)[i + 2]
      BY <1>2, <1>4, <3>1
    <3> QED
      BY <1>5, <2>3, <3>1, <3>2
  <2> QED
    BY <1>1, <2>1, <2>2, <2>3
<1>7. ASSUME NEW i \in Start' + 1..Len(messages'), messages'[i] # Result PROVE Block(i)'
  <2>1. /\ i \in 2..Len(messages') /\ i + 2 \in Start + 1..Len(messages)
        /\ messages'[i] = messages[i + 2] /\ i \in Nat
    BY <1>1, <1>3, <1>4
  <2>2. Block(i + 2)
    BY <1>2, <1>7, <2>1
  <2>3. PICK n \in 1..CallLimit :
          /\ messages[i + 2] = Calls(n)
          /\ \A k \in i + 2 + 1..i + 2 + n : k <= Len(messages) => messages[k] = Result
          /\ i + 2 + n <= Len(messages)
          /\ i + 2 + n < Len(messages) => messages[i + 2 + n + 1] # Result
    BY <1>1, <2>2 DEF Block
  <2>4. n \in Nat
    BY LimitsType
  <2>5. ASSUME NEW k \in i + 1..i + n, k <= Len(messages') PROVE messages'[k] = Result
    <3>1. /\ k \in 2..Len(messages') /\ k + 2 \in i + 2 + 1..i + 2 + n
          /\ k + 2 <= Len(messages)
      BY <1>1, <1>4, <2>1, <2>4, <2>5
    <3> QED
      BY SMTT(30), <1>4, <2>3, <3>1
  <2>6. i + n <= Len(messages')
    BY <1>1, <1>4, <2>1, <2>3, <2>4
  <2>7. ASSUME i + n < Len(messages') PROVE messages'[i + n + 1] # Result
    <3>1. /\ i + n + 1 \in 2..Len(messages') /\ i + n + 1 + 2 = i + 2 + n + 1
          /\ i + 2 + n < Len(messages)
      BY <1>1, <1>4, <2>1, <2>4, <2>7
    <3>2. messages'[i + n + 1] = messages[i + n + 1 + 2]
      BY <1>4, <3>1
    <3> QED
      BY <2>3, <3>1, <3>2
  <2> QED
    BY <2>1, <2>3, <2>5, <2>6, <2>7 DEF Block
<1>8. Start' <= Len(messages')
  BY <1>1, <1>2, <1>4
<1> QED
  BY <1>1, <1>6, <1>7, <1>8 DEF PromptInv

LEMMA PromptBegins ==
  ASSUME TypeInv, Begin
  PROVE  PromptInv'
<1>1. turns \in Nat
  BY LimitsType DEF TypeInv, TypeOK
<1>2. pairs' \in Nat
  BY <1>1, PairsFit DEF Begin
<1>3. messages' = Prompt(pairs') /\ phase' = "measure"
  BY DEF Begin, Measures
<1>4. Len(messages') = 2 * pairs' + 2 /\ Start' = 2 * pairs' + 2 /\ Start' \in Nat
  <2>1. Len(Prompt(pairs')) = 2 * pairs' + 2
    BY <1>2, PromptType
  <2>2. Start' = 2 * pairs' + 2
    BY DEF Start
  <2>3. \A n \in Nat : 2 * n + 2 \in Nat
    OBVIOUS
  <2> QED
    BY <1>2, <1>3, <2>1, <2>2, <2>3, Zenon
<1>5. Start' <= Len(messages') /\ \A i \in Start' + 1..Len(messages') : FALSE
  BY <1>4
<1> QED
  BY <1>3, <1>5 DEF PromptInv

LEMMA PromptCalls ==
  ASSUME TypeInv, PromptInv, CallTools
  PROVE  PromptInv'
<1>1. PICK n \in 1..CallLimit : calls' = n /\ messages' = Append(messages, Calls(n))
  BY DEF CallTools
<1>2. /\ n \in Nat /\ pairs \in Nat /\ messages \in Seq(Messages) /\ Len(messages) \in Nat
      /\ phase = "ask" /\ phase' = "tools" /\ pairs' = pairs /\ Start \in Nat /\ Start' = Start
  BY LimitsType DEF TypeInv, TypeOK, CallTools, Start
<1>3. /\ Start <= Len(messages)
      /\ \A i \in 1..Start : messages[i] = Prompt(pairs)[i]
      /\ \A i \in Start + 1..Len(messages) : messages[i] # Result => Block(i)
  BY <1>2 DEF PromptInv
<1>4. /\ Len(messages') = Len(messages) + 1 /\ messages'[Len(messages) + 1] = Calls(n)
      /\ \A i \in 1..Len(messages) : messages'[i] = messages[i]
  BY <1>1, <1>2
<1>5. \A i \in 1..Start : i \in 1..Len(messages) /\ messages'[i] = Prompt(pairs')[i]
  BY <1>2, <1>3, <1>4
<1>6. ASSUME NEW i \in Start + 1..Len(messages), messages[i] # Result PROVE Block(i)'
  <2>1. PICK m \in 1..CallLimit :
          /\ messages[i] = Calls(m)
          /\ \A k \in i + 1..i + m : k <= Len(messages) => messages[k] = Result
          /\ i + m <= Len(messages)
          /\ i + m < Len(messages) => messages[i + m + 1] # Result
    BY <1>2, <1>3, <1>6 DEF Block
  <2>2. m \in Nat /\ i \in 1..Len(messages)
    BY <1>2, LimitsType
  <2>3. messages'[i] = Calls(m) /\ i + m <= Len(messages')
    BY <1>2, <1>4, <2>1, <2>2
  <2>4. \A k \in i + 1..i + m : k <= Len(messages') => messages'[k] = Result
    <3>1. \A k \in i + 1..i + m : k \in 1..Len(messages) /\ k <= Len(messages)
      BY <1>2, <2>1, <2>2
    <3> QED
      BY <1>4, <2>1, <3>1
  <2>5. ASSUME i + m < Len(messages') PROVE messages'[i + m + 1] # Result
    <3>1. CASE i + m = Len(messages)
      BY <1>2, <1>4, <3>1, CallsAreNotResults
    <3>2. CASE i + m < Len(messages)
      <4>1. i + m + 1 \in 1..Len(messages)
        BY <1>2, <2>2, <3>2
      <4> QED
        BY <1>4, <2>1, <3>2, <4>1
    <3> QED
      BY <1>2, <1>4, <2>1, <2>2, <3>1, <3>2
  <2> QED
    BY <2>3, <2>4, <2>5 DEF Block
<1>7. PICK e \in Nat : e = Len(messages) + 1
  BY <1>2
<1>8. CallsDue(e)'
  <2>1. e + n = Len(messages') + calls' /\ messages'[e] = Calls(n)
    BY <1>1, <1>2, <1>4, <1>7
  <2>2. \A k \in e + 1..Len(messages') : FALSE
    BY <1>2, <1>4, <1>7
  <2> QED
    BY <2>1, <2>2 DEF CallsDue
<1>9. Block(e)'
  <2>1. /\ e + n = Len(messages') + calls' /\ messages'[e] = Calls(n)
        /\ ~(e + n <= Len(messages'))
    BY <1>1, <1>2, <1>4, <1>7
  <2>2. \A k \in e + 1..e + n : ~(k <= Len(messages'))
    BY <1>2, <1>4, <1>7
  <2> QED
    BY <1>2, <2>1, <2>2 DEF Block
<1>10. ASSUME NEW i \in Start' + 1..Len(messages'), messages'[i] # Result PROVE Block(i)'
  <2>1. CASE i = e
    BY <1>9, <2>1
  <2>2. CASE i # e
    <3>1. i \in Start + 1..Len(messages) /\ i \in 1..Len(messages)
      BY <1>2, <1>4, <1>7, <2>2
    <3> QED
      BY <1>4, <1>6, <1>10, <3>1
  <2> QED
    BY <2>1, <2>2
<1>11. Start' <= Len(messages') /\ e \in Start' + 1..Len(messages')
  BY <1>2, <1>3, <1>4, <1>7
<1> QED
  BY <1>2, <1>5, <1>8, <1>10, <1>11 DEF PromptInv

LEMMA PromptDone ==
  ASSUME TypeInv, PromptInv, phase = "tools", CallDone
  PROVE  PromptInv'
<1>1. /\ calls' = calls - 1 /\ messages' = Append(messages, Result) /\ UNCHANGED pairs
      /\ IF calls = 1 THEN phase' = "measure" ELSE phase' = "tools"
  BY DEF CallDone, Measures
<1>2. /\ calls \in Nat /\ calls >= 1 /\ pairs \in Nat
      /\ messages \in Seq(Messages) /\ Len(messages) \in Nat
      /\ Start \in Nat /\ Start' = Start /\ Result \in Messages
  BY <1>1, LimitsType DEF TypeInv, TypeOK, Start, Messages
<1>3. /\ Start <= Len(messages)
      /\ \A i \in 1..Start : messages[i] = Prompt(pairs)[i]
      /\ \A i \in Start + 1..Len(messages) : messages[i] # Result => Block(i)
      /\ \E i \in Start + 1..Len(messages) : CallsDue(i)
  BY DEF PromptInv
<1>4. /\ Len(messages') = Len(messages) + 1 /\ messages'[Len(messages) + 1] = Result
      /\ \A i \in 1..Len(messages) : messages'[i] = messages[i]
  BY <1>1, <1>2
<1>5. \A i \in 1..Start : messages'[i] = Prompt(pairs')[i]
  <2>1. \A i \in 1..Start : i \in 1..Len(messages)
    BY <1>2, <1>3
  <2> QED
    BY <1>1, <1>3, <1>4, <2>1
<1>6. PICK d \in Start + 1..Len(messages) : CallsDue(d)
  BY <1>3
<1>7. PICK n \in 1..CallLimit :
        /\ messages[d] = Calls(n) /\ d + n = Len(messages) + calls
        /\ \A k \in d + 1..Len(messages) : messages[k] = Result
  BY <1>6 DEF CallsDue
<1>8. n \in Nat /\ d \in Nat /\ d \in 1..Len(messages) /\ d > Start /\ d <= Len(messages)
  BY <1>2, LimitsType
<1>9. \A k \in 1..Len(messages') : k \notin 1..Len(messages) => k = Len(messages) + 1
  BY <1>2, <1>4
<1>10. ASSUME NEW i \in Start + 1..Len(messages), messages[i] # Result PROVE Block(i)'
  <2>1. PICK m \in 1..CallLimit :
          /\ messages[i] = Calls(m)
          /\ \A k \in i + 1..i + m : k <= Len(messages) => messages[k] = Result
          /\ IF i + m <= Len(messages)
             THEN i + m < Len(messages) => messages[i + m + 1] # Result
             ELSE i + m = Len(messages) + calls
    BY <1>3, <1>10 DEF Block
  <2>2. m \in Nat /\ i \in Nat /\ i \in 1..Len(messages) /\ i <= Len(messages)
    BY <1>2, LimitsType
  <2>3. i + m # Len(messages)
    <3> SUFFICES ASSUME i + m = Len(messages) PROVE FALSE
      OBVIOUS
    <3>1. CASE i < d
      <4>1. d \in i + 1..i + m
        BY <1>8, <2>2, <3>1
      <4>2. messages[d] = Result
        BY <1>8, <2>1, <4>1
      <4> QED
        BY <1>7, <1>8, <4>2, CallsAreNotResults
    <3>2. CASE d < i
      <4>1. i \in d + 1..Len(messages)
        BY <1>8, <2>2, <3>2
      <4> QED
        BY <1>7, <1>10, <4>1
    <3>3. CASE i = d
      <4>1. m = n
        BY <1>7, <1>8, <2>1, <2>2, <3>3, CallsAreNotResults
      <4> QED
        BY <1>2, <1>7, <1>8, <3>3, <4>1
    <3> QED
      BY <1>8, <2>2, <3>1, <3>2, <3>3
  <2>4. messages'[i] = Calls(m)
    BY <1>4, <2>1, <2>2
  <2>5. ASSUME NEW k \in i + 1..i + m, k <= Len(messages') PROVE messages'[k] = Result
    <3>1. k \in 1..Len(messages')
      BY <1>2, <2>2, <2>5
    <3>2. CASE k \in 1..Len(messages)
      <4>1. k <= Len(messages)
        BY <3>2
      <4> QED
        BY <1>4, <2>1, <3>2, <4>1
    <3> QED
      BY <1>4, <1>9, <3>1, <3>2
  <2>6. CASE i + m < Len(messages)
    <3>1. i + m + 1 \in 1..Len(messages) /\ i + m <= Len(messages) /\ i + m <= Len(messages')
      BY <1>2, <1>4, <2>2, <2>6
    <3>2. messages'[i + m + 1] # Result
      BY <1>4, <2>1, <2>6, <3>1
    <3> QED
      BY <2>4, <2>5, <3>1, <3>2 DEF Block
  <2>7. CASE i + m = Len(messages) + calls /\ calls = 1
    <3>1. i + m <= Len(messages') /\ ~(i + m < Len(messages'))
      BY <1>2, <1>4, <2>2, <2>7
    <3> QED
      BY <2>4, <2>5, <3>1 DEF Block
  <2>8. CASE i + m = Len(messages) + calls /\ calls # 1
    <3>1. i + m = Len(messages') + calls' /\ ~(i + m <= Len(messages')) /\ phase' = "tools"
      BY SMTT(30), <1>1, <1>2, <1>4, <2>2, <2>8
    <3> QED
      BY <2>4, <2>5, <3>1 DEF Block
  <2>9. i + m < Len(messages) \/ i + m = Len(messages) + calls
    BY <1>2, <2>1, <2>2, <2>3
  <2> QED
    BY <2>6, <2>7, <2>8, <2>9
<1>11. ASSUME NEW i \in Start' + 1..Len(messages'), messages'[i] # Result PROVE Block(i)'
  <2>1. i \in Start + 1..Len(messages) /\ i \in 1..Len(messages)
    <3>1. i # Len(messages) + 1
      BY <1>4, <1>11
    <3> QED
      BY <1>2, <1>4, <3>1
  <2> QED
    BY <1>4, <1>10, <1>11, <2>1
<1>12. ASSUME phase' = "tools" PROVE CallsDue(d)'
  <2>1. d + n = Len(messages') + calls'
    BY <1>1, <1>2, <1>4, <1>7
  <2>2. ASSUME NEW k \in d + 1..Len(messages') PROVE messages'[k] = Result
    <3>1. CASE k = Len(messages) + 1
      BY <1>4, <3>1
    <3>2. CASE k # Len(messages) + 1
      <4>1. k \in d + 1..Len(messages) /\ k \in 1..Len(messages)
        BY <1>2, <1>4, <1>8, <3>2
      <4> QED
        BY <1>4, <1>7, <4>1
    <3> QED
      BY <3>1, <3>2
  <2> QED
    BY <1>4, <1>7, <1>8, <2>1, <2>2 DEF CallsDue
<1>13. d \in Start' + 1..Len(messages') /\ Start' <= Len(messages')
  BY <1>2, <1>3, <1>4, <1>8
<1> QED
  BY <1>2, <1>5, <1>11, <1>12, <1>13 DEF PromptInv

LEMMA PromptStep == TypeInv /\ PromptInv /\ [Next]_vars => PromptInv'
<1> SUFFICES ASSUME TypeInv, PromptInv, [Next]_vars PROVE PromptInv'
  OBVIOUS
<1>1. Idle => PromptInv'
  BY DEF Idle, PromptInv
<1>2. \A left : Completes(left) => PromptInv'
  BY <1>1 DEF Completes
<1>3. CASE UNCHANGED vars
  BY <1>3 DEF vars, PromptInv, Start, Block, CallsDue
<1>4. CASE AnswerAtOnce
  BY <1>2, <1>4 DEF AnswerAtOnce
<1>5. CASE Begin
  BY <1>5, PromptBegins
<1>6. CASE Fitting
  <2>1. /\ phase = "measure" /\ phase' = "ask" /\ UNCHANGED <<messages, pairs, calls>>
    BY <1>6 DEF Fitting, work
  <2>2. \A i : Block(i) => Block(i)'
    BY <2>1 DEF Block
  <2> QED
    BY <2>1, <2>2 DEF PromptInv, Start
<1>7. CASE Prune
  BY <1>7, PromptPrunes
<1>8. CASE CallTools
  BY <1>8, PromptCalls
<1>9. CASE TooLong \/ Answer \/ Narrow \/ AskBack
  BY <1>2, <1>9 DEF TooLong, Answer, Narrow, AskBack
<1>10. CASE Search
  BY <1>2, <1>10, PromptDone DEF Search
<1>11. CASE Details \/ BadCall
  BY <1>11, PromptDone DEF Details, BadCall
<1>12. CASE AttemptFails
  BY <1>1, <1>12 DEF AttemptFails
<1> QED
  BY <1>3, <1>4, <1>5, <1>6, <1>7, <1>8, <1>9, <1>10, <1>11, <1>12 DEF Next, LoopStep

LEMMA PromptImplies == TypeInv /\ PromptInv => PromptIsWellFormed
<1> SUFFICES ASSUME TypeInv, PromptInv, phase \in {"measure", "ask"} PROVE PromptIsWellFormed
  BY DEF PromptIsWellFormed
<1>1. /\ pairs \in Nat /\ messages \in Seq(Messages) /\ Len(messages) \in Nat /\ Start \in Nat
  BY LimitsType DEF TypeInv, TypeOK, Start
<1>2. /\ Start <= Len(messages)
      /\ \A i \in 1..Start : messages[i] = Prompt(pairs)[i]
      /\ \A i \in Start + 1..Len(messages) : messages[i] # Result => Block(i)
  BY DEF PromptInv
<1>3. Prompt(pairs) \in Seq(Messages) /\ Len(Prompt(pairs)) = Start
  BY <1>1, PromptType DEF Start
<1>4. SubSeq(messages, 1, Start) = Prompt(pairs)
  <2>1. \A i \in 1..Start : messages[i] \in Messages
    BY <1>1, <1>2
  <2>2. /\ SubSeq(messages, 1, Start) \in Seq(Messages)
        /\ Len(SubSeq(messages, 1, Start)) = IF 1 <= Start THEN Start - 1 + 1 ELSE 0
        /\ \A i \in 1..Start - 1 + 1 : SubSeq(messages, 1, Start)[i] = messages[1 + i - 1]
    BY <1>1, <2>1, SubSeqProperties
  <2>3. 1 <= Start /\ Start - 1 + 1 = Start
    BY <1>1 DEF Start
  <2>4. Len(SubSeq(messages, 1, Start)) = Start
    BY <2>2, <2>3
  <2>5. ASSUME NEW i \in 1..Start PROVE SubSeq(messages, 1, Start)[i] = Prompt(pairs)[i]
    <3>1. 1 + i - 1 = i /\ i \in 1..Start - 1 + 1
      BY <2>3
    <3> QED
      BY <1>2, <2>2, <3>1
  <2> QED
    BY <1>1, <1>3, <2>2, <2>4, <2>5, SeqEqual
<1>5. ASSUME NEW i \in Start + 1..Len(messages), messages[i] # Result
      PROVE  \E n \in 1..CallLimit :
               /\ messages[i] = Calls(n)
               /\ \A k \in i + 1..i + n : k <= Len(messages) /\ messages[k] = Result
               /\ i + n < Len(messages) => messages[i + n + 1] # Result
  <2>1. PICK n \in 1..CallLimit :
          /\ messages[i] = Calls(n)
          /\ \A k \in i + 1..i + n : k <= Len(messages) => messages[k] = Result
          /\ i + n <= Len(messages)
          /\ i + n < Len(messages) => messages[i + n + 1] # Result
    BY <1>2, <1>5 DEF Block
  <2>2. n \in Nat /\ i \in Nat
    BY <1>1, LimitsType
  <2>3. \A k \in i + 1..i + n : k <= Len(messages)
    BY <1>1, <2>1, <2>2
  <2> QED
    BY <2>1, <2>3
<1> QED
  BY <1>2, <1>3, <1>4, <1>5 DEF PromptIsWellFormed

-------------------------------------------------------------------------------
(* Theorems *)

LEMMA SpecInv == Spec => [](TypeInv /\ Counted /\ PromptInv)
  BY TypeInit, CountedInit, PromptInit, TypeStep, CountedStep, PromptStep, PTL DEF Spec

\* The variables keep their domains, whatever is asked, found and merged.
THEOREM TypeCorrect == Spec => []TypeOK
<1>1. TypeInv => TypeOK
  BY DEF TypeInv
<1> QED
  BY <1>1, SpecInv, PTL

\* Pruning takes whole turns and never the question or the evidence.
THEOREM PromptsAreWellFormed == Spec => []PromptIsWellFormed
  BY SpecInv, PromptImplies, PTL

\* What the next turn begins with meets the requirements too, also when an
\* answer left only links.
SearchInv ==
  /\ SearchHonoursRequirements
  /\ last.origin = "search" => Carried \subseteq Allowed(last.constraints)

LEMMA SearchInit == Init => SearchInv
  BY DEF Init, Blank, Carried, SearchInv, SearchHonoursRequirements

LEMMA CompletesSearch ==
  ASSUME NEW c, NEW ps, NEW links, NEW from, Completes(Left(c, ps, links, from)),
         from = "search" => ps \subseteq Allowed(c) /\ (ps = {} => links \subseteq Allowed(c))
  PROVE  SearchInv'
<1>1. /\ last'.constraints = c /\ last'.products = ps /\ last'.links = links
      /\ last'.origin = from /\ origin' = "none"
  BY DEF Completes, Left, Idle
<1> QED
  BY <1>1 DEF SearchInv, SearchHonoursRequirements, Carried, Allowed

LEMMA SearchStep == SearchInv /\ [Next]_vars => SearchInv'
<1> SUFFICES ASSUME SearchInv, [Next]_vars PROVE SearchInv'
  OBVIOUS
<1>1. /\ origin = "search" => products \subseteq Allowed(constraints)
      /\ last.origin = "search" => /\ last.products \subseteq Allowed(last.constraints)
                                   /\ Carried \subseteq Allowed(last.constraints)
  BY DEF SearchInv, SearchHonoursRequirements
<1>2. ASSUME UNCHANGED last, origin' = "search" => products' \subseteq Allowed(constraints')
      PROVE  SearchInv'
  BY <1>1, <1>2 DEF SearchInv, SearchHonoursRequirements, Allowed, Carried
<1>3. Completes(Blank) => SearchInv'
  BY DEF Completes, Idle, Blank, SearchInv, SearchHonoursRequirements
<1>4. CASE UNCHANGED vars
  BY <1>1, <1>2, <1>4 DEF vars
<1>5. CASE AnswerAtOnce
  BY <1>3, <1>5 DEF AnswerAtOnce
<1>6. CASE Begin
  BY <1>1, <1>2, <1>6 DEF Begin
<1>7. CASE Fitting \/ Prune \/ CallTools \/ BadCall
  BY <1>1, <1>2, <1>7 DEF Fitting, Prune, CallTools, BadCall, CallDone, work
<1>8. CASE TooLong
  BY <1>1, <1>8, CompletesSearch DEF TooLong, Remembered
<1>9. CASE Answer
  BY <1>1, <1>3, <1>9, CompletesSearch DEF Answer
<1>10. CASE Narrow
  BY <1>3, <1>10 DEF Narrow
<1>11. CASE Search
  <2>1. PICK change \in Changes, reset \in BOOLEAN :
          LET c == Merge(constraints, change, reset) IN
          \E found \in SUBSET Candidates(c) :
            /\ Cardinality(found) <= LinkLimit
            /\ \/ /\ found # {}
                  /\ constraints' = c /\ products' = found /\ origin' = "search"
                  /\ CallDone
               \/ /\ found = {}
                  /\ Completes(Left(c, {}, {}, "search"))
    BY <1>11 DEF Search
  <2> DEFINE c == Merge(constraints, change, reset)
  <2>2. CASE Completes(Left(c, {}, {}, "search"))
    BY <2>2, CompletesSearch
  <2>3. CASE constraints' = c /\ products' \subseteq Candidates(c) /\ CallDone
    BY <1>2, <2>3 DEF CallDone, Candidates
  <2> QED
    BY <2>1, <2>2, <2>3
<1>12. CASE Details
  BY <1>2, <1>12 DEF Details, CallDone
<1>13. CASE AskBack
  <2>1. PICK r \in References :
          Completes(Left(constraints, products, Resolve(r), IF products = {} THEN "named" ELSE origin))
    BY <1>13 DEF AskBack
  <2> QED
    BY <1>1, <2>1, CompletesSearch
<1>14. CASE AttemptFails
  BY <1>2, <1>14 DEF AttemptFails, Idle
<1> QED
  BY <1>4, <1>5, <1>6, <1>7, <1>8, <1>9, <1>10, <1>11, <1>12, <1>13, <1>14 DEF Next, LoopStep

\* Products that a search found meet the requirements recorded with them.
THEOREM SearchesHonourRequirements == Spec => []SearchHonoursRequirements
<1>1. SearchInv => SearchHonoursRequirements
  BY DEF SearchInv
<1> QED
  BY <1>1, SearchInit, SearchStep, PTL DEF Spec

-------------------------------------------------------------------------------
(* Attempts are bounded *)

\* The steps that are left within the round.
InRound == CASE phase = "measure" -> CallLimit + 2 [] phase = "ask" -> CallLimit + 1 [] OTHER -> calls

LEMMA RoundsWeigh ==
  ASSUME NEW a \in Nat, NEW w \in Nat
  PROVE  /\ a * w \in Nat
         /\ a > 0 => (a - 1) * w = a * w - w
  OBVIOUS

\* The rank is a number, and the sum of its parts.
Ranked ==
  /\ Rounds - round \in Nat \ {0} /\ CallLimit \in Nat \ {0}
  /\ pairs \in Nat /\ InRound \in Nat /\ StepsLeft \in Nat
  /\ StepsLeft = (Rounds - round) * (CallLimit + 3) + pairs + InRound

LEMMA TypesRank == TypeInv => Ranked
<1> SUFFICES ASSUME TypeInv PROVE Ranked
  OBVIOUS
<1>1. /\ Rounds \in Nat \ {0} /\ CallLimit \in Nat \ {0} /\ PairLimit \in Nat
      /\ round \in 0..Rounds - 1 /\ pairs \in 0..PairLimit /\ calls \in 0..CallLimit
  BY LimitsType DEF TypeInv, TypeOK
<1>2. Rounds - round \in Nat \ {0} /\ CallLimit + 3 \in Nat /\ pairs \in Nat /\ calls \in Nat
  BY <1>1
<1>3. InRound \in Nat
  BY <1>1 DEF InRound
<1>4. StepsLeft = (Rounds - round) * (CallLimit + 3) + pairs + InRound
  BY DEF StepsLeft, InRound
<1>5. (Rounds - round) * (CallLimit + 3) \in Nat
  BY <1>2, RoundsWeigh
<1>6. StepsLeft \in Nat
  BY <1>2, <1>3, <1>4, <1>5
<1> QED
  BY <1>1, <1>2, <1>3, <1>4, <1>6 DEF Ranked

LEMMA TypesRankNext == TypeInv' => Ranked'
  BY TypesRank, PTL

\* Within a round, one pair or one step less is left.
LEMMA SameRound ==
  ASSUME TypeInv, TypeInv', round' = round,
         \/ pairs' = pairs /\ InRound' < InRound
         \/ pairs' = pairs - 1 /\ InRound' = InRound
  PROVE  StepsLeft' \in 0..StepsLeft - 1
<1> DEFINE rounds == (Rounds - round) * (CallLimit + 3)
<1>1. /\ pairs \in Nat /\ InRound \in Nat /\ rounds \in Nat
      /\ StepsLeft = rounds + pairs + InRound
  BY TypesRank, RoundsWeigh DEF Ranked
<1>2. pairs' \in Nat /\ InRound' \in Nat /\ StepsLeft' = rounds + pairs' + InRound'
  BY TypesRankNext DEF Ranked
<1>3. PICK k \in Nat, p \in Nat, i \in Nat, q \in Nat, j \in Nat :
        /\ StepsLeft = k + p + i /\ StepsLeft' = k + q + j
        /\ (q = p /\ j < i) \/ (q = p - 1 /\ j = i)
  <2>1. CASE pairs' = pairs /\ InRound' < InRound
    BY <1>1, <1>2, <2>1
  <2>2. CASE pairs' = pairs - 1 /\ InRound' = InRound
    BY <1>1, <1>2, <2>2
  <2> QED
    BY <2>1, <2>2
<1> QED
  BY <1>3

\* The next round takes one step less than a round can.
LEMMA NextRound ==
  ASSUME TypeInv, TypeInv', round' = round + 1, pairs' = pairs,
         InRound = 1, InRound' = CallLimit + 2
  PROVE  StepsLeft' \in 0..StepsLeft - 1
<1> DEFINE rounds == (Rounds - round) * (CallLimit + 3)
<1>1. /\ pairs \in Nat /\ CallLimit \in Nat /\ StepsLeft \in Nat /\ rounds \in Nat
      /\ StepsLeft = rounds + pairs + 1
      /\ (Rounds - round - 1) * (CallLimit + 3) = rounds - (CallLimit + 3)
  BY TypesRank, RoundsWeigh DEF Ranked
<1>2. Rounds - round' = Rounds - round - 1
  BY LimitsType DEF TypeInv, TypeOK
<1>3. /\ StepsLeft' \in Nat
      /\ StepsLeft' = (Rounds - round - 1) * (CallLimit + 3) + pairs + (CallLimit + 2)
  BY <1>2, TypesRankNext DEF Ranked
<1>4. StepsLeft' = rounds - (CallLimit + 3) + pairs + (CallLimit + 2)
  BY <1>1, <1>3
<1> HIDE DEF rounds
<1> QED
  BY <1>1, <1>3, <1>4

LEMMA CallDoneCounts ==
  ASSUME TypeInv, TypeInv', phase = "tools", CallDone
  PROVE  StepsLeft' \in 0..StepsLeft - 1
<1>1. calls \in 1..CallLimit /\ CallLimit \in Nat /\ InRound = calls
  BY LimitsType DEF TypeInv, InRound
<1>2. calls' = calls - 1 /\ pairs' = pairs /\ pairs \in Nat /\ calls \in Nat
  BY LimitsType DEF CallDone, TypeInv, TypeOK
<1>3. CASE calls = 1
  <2>1. round' = round + 1 /\ phase' = "measure"
    BY <1>3 DEF CallDone, Measures
  <2>2. InRound' = CallLimit + 2
    BY <2>1 DEF InRound
  <2> QED
    BY <1>1, <1>2, <1>3, <2>1, <2>2, NextRound
<1>4. CASE calls # 1
  <2>1. round' = round /\ phase' = "tools"
    BY <1>4 DEF CallDone
  <2>2. InRound' = calls - 1
    BY <1>2, <2>1 DEF InRound
  <2> QED
    BY <1>1, <1>2, <2>1, <2>2, SameRound
<1> QED
  BY <1>3, <1>4

LEMMA StepCounts ==
  ASSUME TypeInv, TypeInv', [Next]_vars
  PROVE  [phase # "idle" /\ phase' # "idle" => StepsLeft' \in 0..StepsLeft - 1]_vars
<1> SUFFICES ASSUME Next, phase # "idle", phase' # "idle"
             PROVE  StepsLeft' \in 0..StepsLeft - 1
  OBVIOUS
<1>1. pairs \in Nat /\ CallLimit \in Nat
  BY LimitsType DEF TypeInv, TypeOK
<1>2. ASSUME NEW left, Completes(left) PROVE FALSE
  BY <1>2 DEF Completes, Idle
<1>3. CASE Fitting
  <2>1. /\ phase = "measure" /\ phase' = "ask" /\ round' = round /\ pairs' = pairs
    BY <1>3 DEF Fitting, work
  <2>2. InRound = CallLimit + 2 /\ InRound' = CallLimit + 1
    BY <2>1 DEF InRound
  <2> QED
    BY <1>1, <2>1, <2>2, SameRound
<1>4. CASE Prune
  <2>1. /\ phase = "measure" /\ phase' = "measure" /\ round' = round /\ pairs' = pairs - 1
    BY <1>4 DEF Prune, PairsLeft
  <2>2. InRound = CallLimit + 2 /\ InRound' = CallLimit + 2
    BY <2>1 DEF InRound
  <2> QED
    BY <1>1, <2>1, <2>2, SameRound
<1>5. CASE CallTools
  <2>1. /\ phase = "ask" /\ phase' = "tools" /\ round' = round /\ pairs' = pairs
        /\ calls' \in 1..CallLimit
    BY <1>5 DEF CallTools
  <2>2. InRound = CallLimit + 1 /\ InRound' = calls'
    BY <2>1 DEF InRound
  <2>3. InRound' < InRound
    BY <1>1, <2>1, <2>2
  <2> QED
    BY <2>1, <2>3, SameRound
<1>6. CASE Search
  <2>1. phase = "tools" /\ CallDone
    BY <1>2, <1>6 DEF Search
  <2> QED
    BY <2>1, CallDoneCounts
<1>7. CASE Details \/ BadCall
  BY <1>7, CallDoneCounts DEF Details, BadCall
<1>8. CASE AttemptFails
  BY <1>8 DEF AttemptFails, Idle
<1>9. CASE AnswerAtOnce \/ Begin
  BY <1>9 DEF AnswerAtOnce, Begin
<1>10. CASE TooLong \/ Answer \/ Narrow \/ AskBack
  BY <1>2, <1>10 DEF TooLong, Answer, Narrow, AskBack
<1> QED
  BY <1>3, <1>4, <1>5, <1>6, <1>7, <1>8, <1>9, <1>10 DEF Next, LoopStep

\* Every step of an attempt that does not end it brings its end nearer: the loop
\* of answer_question, with the pruning of the prompt inside it, takes at most
\* StepsLeft steps whatever the model replies, for any limits.
THEOREM AttemptsAreBounded == Spec => AttemptIsBounded
<1>1. TypeInv /\ TypeInv' /\ [Next]_vars
        => [phase # "idle" /\ phase' # "idle" => StepsLeft' \in 0..StepsLeft - 1]_vars
  BY StepCounts
<1> QED
  BY <1>1, SpecInv, PTL DEF Spec, AttemptIsBounded
================================================================================
