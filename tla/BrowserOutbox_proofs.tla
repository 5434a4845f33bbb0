-------------------------- MODULE BrowserOutbox_proofs --------------------------
(***************************************************************************)
(* Theorems about BrowserOutbox, for any number of tabs and submissions.   *)
(***************************************************************************)
EXTENDS BrowserOutbox, FiniteSetTheorems, TLAPS

Controls == {"send", "cancel", "again", "reconnect"}

Rows == [id : Submissions, status : {"pending", "failed", "ended"}]

TabStates ==
  [step : {"idle", "session", "posting", "reading", "cancelling"},
   sent : Submissions \cup {None}, reply : {"none", "accepted", "rejected"},
   controls : SUBSET Controls, timer : BOOLEAN, view : Seq(Rows)]

PollStates == [tab : Tabs, read : BOOLEAN, view : Seq(Rows)]

\* What is stored, sent and shown keeps its form, and a tab that delivers has
\* something to deliver.
TypeOK ==
  /\ outbox \in Submissions \cup {None}
  /\ tab \in [Tabs -> TabStates]
  /\ polls \subseteq PollStates
  /\ late \subseteq Submissions
  /\ questions \in Seq(Rows)
  /\ used \subseteq Submissions
  /\ returned \subseteq Submissions
  /\ overlap \in BOOLEAN
  /\ \A t \in Tabs : tab[t].step = "posting" => tab[t].sent \in Submissions

-------------------------------------------------------------------------------
(* What the parts of the actions do *)

LEMMA LoadingType == Loading \in TabStates
  BY DEF Loading, TabStates, Controls, Rows

LEMMA RenderedType == \A view : Rendered(view) \subseteq Controls \ {"reconnect"}
  BY DEF Rendered, Controls

LEMMA PollType == \A t \in Tabs : Poll(t) \in PollStates
  BY DEF Poll, PollStates, Rows

LEMMA EndedType ==
  ASSUME questions \in Seq(Rows), NEW s, NEW status \in {"failed", "ended"}
  PROVE  /\ Ended(s, status) \in Seq(Rows)
         /\ DOMAIN Ended(s, status) = DOMAIN questions
         /\ \A i \in DOMAIN questions : Ended(s, status)[i].id = questions[i].id
<1> DEFINE row(i) == IF questions[i].id = s /\ questions[i].status = "pending"
                     THEN [questions[i] EXCEPT !.status = status] ELSE questions[i]
<1>1. \A i \in DOMAIN questions : questions[i] \in Rows
  OBVIOUS
<1>2. \A i \in DOMAIN questions : row(i) \in Rows /\ row(i).id = questions[i].id
  BY <1>1 DEF Rows
<1>3. Ended(s, status) = [i \in DOMAIN questions |-> row(i)]
  BY DEF Ended
<1> HIDE DEF row
<1>4. DOMAIN questions = 1..Len(questions) /\ Len(questions) \in Nat
  OBVIOUS
<1> QED
  BY <1>2, <1>3, <1>4

\* A submission stays saved.
SavedBefore == \A s : Saved(s) => Saved(s)'

LEMMA EndedSaves ==
  ASSUME questions \in Seq(Rows), NEW s, NEW status \in {"failed", "ended"},
         questions' = Ended(s, status)
  PROVE  questions' \in Seq(Rows) /\ SavedBefore
  BY EndedType DEF Saved, SavedBefore

LEMMA SavesSaves ==
  ASSUME questions \in Seq(Rows), NEW s \in Submissions, Saves(s)
  PROVE  /\ questions' \in Seq(Rows) /\ SavedBefore
         /\ Accepts(s) => Saved(s)'
<1>1. CASE Saved(s) \/ ~Accepts(s)
  BY <1>1 DEF Saves, SavedBefore, Accepts, Saved
<1>2. CASE ~Saved(s) /\ Accepts(s)
  <2> DEFINE row == [id |-> s, status |-> "pending"]
  <2>1. row \in Rows /\ row.id = s
    BY DEF Rows
  <2>2. questions' = Append(questions, row)
    BY <1>2 DEF Saves
  <2> HIDE DEF row
  <2>3. /\ questions' \in Seq(Rows)
        /\ DOMAIN questions' = 1..Len(questions) + 1
        /\ DOMAIN questions = 1..Len(questions)
        /\ \A i \in DOMAIN questions : questions'[i] = questions[i]
        /\ questions'[Len(questions) + 1] = row
    BY <2>1, <2>2
  <2>4. \A i \in DOMAIN questions : i \in DOMAIN questions'
    BY <2>3
  <2>5. Len(questions) + 1 \in DOMAIN questions'
    BY <2>3
  <2> QED
    BY <2>1, <2>3, <2>4, <2>5 DEF Saved, SavedBefore
<1> QED
  BY <1>1, <1>2

\* Only tab t changes, and keeps what is shown in it.
OnlyTab(t) ==
  /\ tab' \in [Tabs -> TabStates]
  /\ \A u \in Tabs \ {t} : tab'[u] = tab[u]

LEMMA ReadsEffect ==
  ASSUME TypeOK, NEW t \in Tabs, Reads(t)
  PROVE  /\ OnlyTab(t) /\ polls' \subseteq PollStates
         /\ tab'[t].step = "reading" /\ tab'[t].reply = "none"
         /\ tab'[t].timer = tab[t].timer /\ tab'[t].view = tab[t].view
<1> DEFINE next == [tab[t] EXCEPT !.step = "reading", !.sent = None, !.reply = "none"]
<1>1. tab[t] \in TabStates
  BY DEF TypeOK
<1>2. /\ next \in TabStates /\ next.step = "reading" /\ next.reply = "none"
      /\ next.timer = tab[t].timer /\ next.view = tab[t].view
  BY <1>1 DEF TabStates
<1>3. tab' = [tab EXCEPT ![t] = next]
  BY DEF Reads
<1> HIDE DEF next
<1>4. polls' \subseteq PollStates
  BY PollType DEF Reads, TypeOK
<1> QED
  BY <1>2, <1>3, <1>4 DEF TypeOK, OnlyTab

LEMMA FailsEffect ==
  ASSUME TypeOK, NEW t \in Tabs, Fails(t)
  PROVE  /\ OnlyTab(t)
         /\ tab'[t].step = "idle" /\ tab'[t].reply = "none"
         /\ tab'[t].timer = tab[t].timer /\ tab'[t].view = tab[t].view
         /\ "reconnect" \in tab'[t].controls
<1> DEFINE next == [tab[t] EXCEPT !.step = "idle", !.sent = None, !.reply = "none",
                      !.controls = (tab[t].controls \ {"send"}) \cup {"reconnect"}]
<1>1. tab[t] \in TabStates
  BY DEF TypeOK
<1>2. /\ next \in TabStates /\ next.step = "idle" /\ next.reply = "none"
      /\ next.timer = tab[t].timer /\ next.view = tab[t].view
      /\ "reconnect" \in next.controls
  BY <1>1 DEF TabStates, Controls
<1>3. tab' \in [Tabs -> TabStates] /\ tab'[t] = next /\ \A u \in Tabs \ {t} : tab'[u] = tab[u]
  BY <1>1, <1>2 DEF Fails, TabStates, TypeOK
<1> HIDE DEF next
<1> QED
  BY <1>2, <1>3 DEF OnlyTab

LEMMA BeginsEffect ==
  ASSUME TypeOK, NEW t \in Tabs, NEW step \in {"session", "posting", "cancelling"},
         NEW submission \in Submissions \cup {None}, NEW controls \in SUBSET Controls,
         Begins(t, step, submission, controls)
  PROVE  /\ OnlyTab(t)
         /\ tab'[t].step = step /\ tab'[t].sent = submission
         /\ tab'[t].reply = tab[t].reply
         /\ ~tab'[t].timer /\ tab'[t].view = tab[t].view
         /\ polls' = {p \in polls : p.tab # t}
<1> DEFINE next == [tab[t] EXCEPT !.step = step, !.sent = submission,
                                  !.controls = controls, !.timer = FALSE]
<1>1. tab[t] \in TabStates
  BY DEF TypeOK
<1>2. /\ next \in TabStates /\ next.step = step /\ next.sent = submission
      /\ next.reply = tab[t].reply /\ ~next.timer /\ next.view = tab[t].view
  BY <1>1 DEF TabStates
<1>3. tab' = [tab EXCEPT ![t] = next]
  BY DEF Begins, Quiet
<1>4. polls' = {p \in polls : p.tab # t}
  BY DEF Begins, Outdated
<1> HIDE DEF next
<1> QED
  BY <1>2, <1>3, <1>4 DEF TypeOK, OnlyTab

LEMMA DeliversTo ==
  ASSUME TypeOK, NEW t \in Tabs,
         tab' = [tab EXCEPT ![t] = [@ EXCEPT !.step = "posting", !.sent = outbox]]
  PROVE  /\ OnlyTab(t)
         /\ tab'[t].step = "posting" /\ tab'[t].sent = outbox /\ tab'[t].reply = tab[t].reply
         /\ tab'[t].timer = tab[t].timer /\ tab'[t].view = tab[t].view
<1> DEFINE next == [tab[t] EXCEPT !.step = "posting", !.sent = outbox]
<1>1. tab[t] \in TabStates /\ outbox \in Submissions \cup {None}
  BY DEF TypeOK
<1>2. /\ next \in TabStates /\ next.step = "posting" /\ next.sent = outbox
      /\ next.reply = tab[t].reply /\ next.timer = tab[t].timer /\ next.view = tab[t].view
  BY <1>1 DEF TabStates
<1>3. tab' = [tab EXCEPT ![t] = next]
  OBVIOUS
<1> HIDE DEF next
<1> QED
  BY <1>2, <1>3 DEF TypeOK, OnlyTab

LEMMA MayArriveType ==
  ASSUME TypeOK, NEW t \in Tabs, MayArrive(t) \/ UNCHANGED late
  PROVE  late' \subseteq Submissions
<1>1. tab[t].sent \in Submissions \cup {None}
  BY DEF TypeOK, TabStates
<1> QED
  BY <1>1 DEF MayArrive, TypeOK

LEMMA ReceiveEffect ==
  ASSUME TypeOK, NEW t \in Tabs, Receive(t)
  PROVE  /\ OnlyTab(t)
         /\ tab[t].sent \in Submissions
         /\ tab'[t].step = "posting" /\ tab'[t].sent = tab[t].sent
         /\ tab'[t].reply = IF Accepts(tab[t].sent) THEN "accepted" ELSE "rejected"
         /\ tab'[t].timer = tab[t].timer /\ tab'[t].view = tab[t].view
         /\ tab'[t].controls = tab[t].controls
<1> DEFINE next == [tab[t] EXCEPT !.reply = IF Accepts(tab[t].sent) THEN "accepted" ELSE "rejected"]
<1>1. tab[t] \in TabStates /\ tab[t].step = "posting" /\ tab[t].sent \in Submissions
  BY DEF TypeOK, Receive
<1>2. /\ next \in TabStates /\ next.step = "posting" /\ next.sent = tab[t].sent
      /\ next.reply = IF Accepts(tab[t].sent) THEN "accepted" ELSE "rejected"
      /\ next.timer = tab[t].timer /\ next.view = tab[t].view
      /\ next.controls = tab[t].controls
  BY <1>1 DEF TabStates
<1>3. tab' = [tab EXCEPT ![t] = next]
  BY DEF Receive
<1> HIDE DEF next
<1> QED
  BY <1>1, <1>2, <1>3 DEF TypeOK, OnlyTab

LEMMA TimerEffect ==
  ASSUME TypeOK, NEW t \in Tabs, TimerFires(t)
  PROVE  /\ OnlyTab(t)
         /\ tab'[t].step = tab[t].step /\ tab'[t].sent = tab[t].sent
         /\ tab'[t].reply = tab[t].reply /\ tab'[t].view = tab[t].view
         /\ tab'[t].controls = tab[t].controls /\ ~tab'[t].timer
<1> DEFINE next == [tab[t] EXCEPT !.timer = FALSE]
<1>1. tab[t] \in TabStates
  BY DEF TypeOK
<1>2. /\ next \in TabStates /\ next.step = tab[t].step /\ next.sent = tab[t].sent
      /\ next.reply = tab[t].reply /\ next.view = tab[t].view
      /\ next.controls = tab[t].controls /\ ~next.timer
  BY <1>1 DEF TabStates
<1>3. tab' = [tab EXCEPT ![t] = next]
  BY DEF TimerFires
<1> HIDE DEF next
<1> QED
  BY <1>2, <1>3 DEF TypeOK, OnlyTab

LEMMA ArrivesEffect ==
  ASSUME TypeOK, NEW p \in polls, PollArrives(p)
  PROVE  /\ p.tab \in Tabs /\ OnlyTab(p.tab)
         /\ tab'[p.tab].step = IF tab[p.tab].step = "reading" THEN "idle" ELSE tab[p.tab].step
         /\ tab'[p.tab].sent = tab[p.tab].sent /\ tab'[p.tab].reply = tab[p.tab].reply
         /\ tab'[p.tab].view = p.view /\ tab'[p.tab].timer
         /\ "reconnect" \notin tab'[p.tab].controls
<1> DEFINE t == p.tab
<1> DEFINE next == [tab[t] EXCEPT
              !.step = IF tab[t].step = "reading" THEN "idle" ELSE tab[t].step,
              !.view = p.view, !.controls = Rendered(p.view), !.timer = TRUE]
<1>1. t \in Tabs /\ tab[t] \in TabStates /\ p.view \in Seq(Rows)
  BY DEF TypeOK, PollStates
<1>2. Rendered(p.view) \subseteq Controls \ {"reconnect"}
  BY RenderedType
<1>3. /\ next \in TabStates
      /\ next.step = IF tab[t].step = "reading" THEN "idle" ELSE tab[t].step
      /\ next.sent = tab[t].sent /\ next.reply = tab[t].reply
      /\ next.view = p.view /\ next.timer /\ "reconnect" \notin next.controls
  BY <1>1, <1>2 DEF TabStates
<1>4. tab' = [tab EXCEPT ![t] = next]
  BY <1>1 DEF PollArrives, TabStates, TypeOK
<1> HIDE DEF next
<1>5. tab' \in [Tabs -> TabStates] /\ tab'[t] = next /\ \A u \in Tabs \ {t} : tab'[u] = tab[u]
  BY <1>1, <1>3, <1>4 DEF TypeOK
<1> QED
  BY <1>1, <1>3, <1>5 DEF OnlyTab

LEMMA PollReadsType ==
  ASSUME TypeOK, NEW p \in polls, PollReads(p)
  PROVE  polls' \subseteq PollStates
<1> DEFINE q == [p EXCEPT !.read = TRUE, !.view = questions]
<1>1. q \in PollStates
  BY DEF TypeOK, PollStates
<1>2. polls' = (polls \ {p}) \cup {q}
  BY DEF PollReads
<1> HIDE DEF q
<1> QED
  BY <1>1, <1>2 DEF TypeOK

LEMMA EndQuestionSaves ==
  ASSUME TypeOK, EndQuestion
  PROVE  questions' \in Seq(Rows) /\ SavedBefore
  BY EndedSaves DEF EndQuestion, TypeOK

-------------------------------------------------------------------------------
(* Type correctness *)

LEMMA TypeInit == Init => TypeOK
<1> SUFFICES ASSUME Init PROVE TypeOK
  OBVIOUS
<1>1. tab \in [Tabs -> TabStates] /\ \A t \in Tabs : tab[t].step = "session"
  BY LoadingType DEF Init, Loading
<1>2. questions \in Seq(Rows) /\ polls \subseteq PollStates
  BY DEF Init
<1> QED
  BY <1>1, <1>2 DEF Init, TypeOK

LEMMA TypeStep == TypeOK /\ [Next]_vars => TypeOK'
<1> SUFFICES ASSUME TypeOK, [Next]_vars PROVE TypeOK'
  OBVIOUS
<1>1. CASE UNCHANGED vars
  BY <1>1 DEF TypeOK, vars
<1>2. ASSUME NEW t \in Tabs, TabStep(t) PROVE TypeOK'
  <2>1. CASE Reload(t)
    <3>1. late' \subseteq Submissions
      BY <2>1, MayArriveType DEF Reload
    <3>2. tab' \in [Tabs -> TabStates]
      BY <2>1, LoadingType DEF Reload, TypeOK
    <3>3. tab'[t].step = "session" /\ \A u \in Tabs \ {t} : tab'[u] = tab[u]
      BY <2>1 DEF Reload, TypeOK, Loading
    <3> QED
      BY <2>1, <3>1, <3>2, <3>3 DEF Reload, TypeOK
  <2>2. CASE Connect(t)
    <3>1. tab[t].controls \ {"reconnect"} \in SUBSET Controls
      BY DEF TypeOK, TabStates
    <3> QED
      BY ZenonT(30), <2>2, <3>1, BeginsEffect DEF Connect, TypeOK, OnlyTab
  <2>3. CASE SessionReady(t)
    <3>1. CASE outbox = None
      BY <2>3, <3>1, ReadsEffect DEF SessionReady, TypeOK, OnlyTab
    <3>2. CASE outbox # None
      <4>1. /\ OnlyTab(t) /\ tab'[t].sent \in Submissions
        BY <2>3, <3>2, DeliversTo DEF SessionReady, TypeOK
      <4>2. overlap' \in BOOLEAN
        BY <2>3, <3>2 DEF SessionReady, TypeOK, Delivers
      <4> QED
        BY <2>3, <3>2, <4>1, <4>2 DEF SessionReady, TypeOK, OnlyTab
    <3> QED
      BY <3>1, <3>2
  <2>4. CASE SessionFails(t)
    BY <2>4, FailsEffect DEF SessionFails, TypeOK, OnlyTab
  <2>5. ASSUME NEW s \in Submissions, Submit(t, s) PROVE TypeOK'
    <3>1. tab[t].controls \ {"send", "again"} \in SUBSET Controls
      BY DEF TypeOK, TabStates
    <3>2. overlap' \in BOOLEAN
      BY <2>5 DEF Submit, TypeOK, Delivers
    <3>3. OnlyTab(t) /\ tab'[t].sent \in Submissions /\ polls' \subseteq PollStates
      BY <2>5, <3>1, BeginsEffect DEF Submit, TypeOK
    <3> QED
      BY <2>5, <3>2, <3>3 DEF Submit, TypeOK, OnlyTab
  <2>6. CASE Receive(t)
    <3>1. OnlyTab(t) /\ tab'[t].sent \in Submissions /\ tab[t].sent \in Submissions
      BY <2>6, ReceiveEffect
    <3>2. questions' \in Seq(Rows)
      BY <2>6, <3>1, SavesSaves DEF Receive, TypeOK
    <3> QED
      BY <2>6, <3>1, <3>2 DEF Receive, TypeOK, OnlyTab
  <2>7. CASE Accepted(t)
    BY <2>7, ReadsEffect DEF Accepted, TypeOK, OnlyTab
  <2>8. CASE Rejected(t)
    BY <2>8, FailsEffect DEF Rejected, TypeOK, OnlyTab
  <2>9. CASE PostFails(t)
    <3>1. late' \subseteq Submissions
      BY <2>9, MayArriveType DEF PostFails
    <3> QED
      BY <2>9, <3>1, FailsEffect DEF PostFails, AfterFailure, TypeOK, OnlyTab
  <2>10. CASE Cancel(t)
    <3>1. tab[t].controls \ {"cancel"} \in SUBSET Controls
      BY DEF TypeOK, TabStates
    <3> QED
      BY <2>10, <3>1, BeginsEffect DEF Cancel, TypeOK, OnlyTab
  <2>11. CASE Cancelled(t)
    <3>1. questions' \in Seq(Rows)
      BY <2>11, EndedSaves DEF Cancelled, TypeOK
    <3> QED
      BY <2>11, <3>1, ReadsEffect DEF Cancelled, TypeOK, OnlyTab
  <2>12. CASE CancelFails(t)
    <3>1. questions' \in Seq(Rows)
      BY <2>12, EndedSaves DEF CancelFails, TypeOK
    <3> QED
      BY <2>12, <3>1, FailsEffect DEF CancelFails, TypeOK, OnlyTab
  <2>13. CASE TimerFires(t)
    <3>1. OnlyTab(t) /\ (tab'[t].step = "posting" => tab'[t].sent \in Submissions)
      BY <2>13, TimerEffect DEF TypeOK
    <3>2. polls' \subseteq PollStates
      BY <2>13, PollType DEF TimerFires, TypeOK
    <3> QED
      BY <2>13, <3>1, <3>2 DEF TimerFires, TypeOK, OnlyTab
  <2> QED
    BY <1>2, <2>1, <2>2, <2>3, <2>4, <2>5, <2>6, <2>7, <2>8, <2>9, <2>10, <2>11, <2>12, <2>13
       DEF TabStep
<1>3. ASSUME NEW p \in polls, PollReads(p) PROVE TypeOK'
  BY <1>3, PollReadsType DEF PollReads, TypeOK
<1>4. ASSUME NEW p \in polls, PollArrives(p) PROVE TypeOK'
  <2>1. p.tab \in Tabs /\ OnlyTab(p.tab) /\ polls' \subseteq PollStates
    BY <1>4, ArrivesEffect DEF PollArrives, TypeOK
  <2>2. tab'[p.tab].step = "posting" => tab[p.tab].step = "posting" /\ tab'[p.tab].sent = tab[p.tab].sent
    BY <1>4, ArrivesEffect
  <2> QED
    BY <1>4, <2>1, <2>2 DEF PollArrives, TypeOK, OnlyTab
<1>5. ASSUME NEW p \in polls, PollFails(p) PROVE TypeOK'
  <2>1. p.tab \in Tabs
    BY DEF TypeOK, PollStates
  <2> QED
    BY <1>5, <2>1, FailsEffect DEF PollFails, TypeOK, OnlyTab
<1>6. ASSUME NEW s \in late, ReceiveLate(s) PROVE TypeOK'
  <2>1. questions' \in Seq(Rows)
    BY <1>6, SavesSaves DEF ReceiveLate, TypeOK
  <2> QED
    BY <1>6, <2>1 DEF ReceiveLate, TypeOK
<1>7. CASE EndQuestion
  BY <1>7, EndQuestionSaves DEF EndQuestion, TypeOK
<1> QED
  BY <1>1, <1>2, <1>3, <1>4, <1>5, <1>6, <1>7 DEF Next

\* What the tabs, the outbox and the API keep has its form in every behaviour.
THEOREM TypeCorrect == Spec => []TypeOK
<1> QED
  BY TypeInit, TypeStep, PTL DEF Spec

-------------------------------------------------------------------------------
(* What was typed survives *)

\* A tab delivers a submission that was made, and knows that it is accepted only
\* when it is saved.
DeliveriesTracked ==
  \A t \in Tabs :
    IF tab[t].step = "posting"
    THEN tab[t].sent \in used /\ (tab[t].reply = "accepted" => Saved(tab[t].sent))
    ELSE tab[t].reply = "none"

\* Until two tabs have delivered at once, the one that delivers sends what the
\* outbox holds.
OneDelivers ==
  ~overlap => \A t \in Tabs : tab[t].step = "posting" =>
                /\ tab[t].sent = outbox
                /\ \A u \in Tabs : tab[u].step = "posting" => u = t

\* A tab removes the content of the outbox after the answer to its own delivery:
\* nothing is lost because that is what it delivered.
OutboxInv ==
  /\ outbox \in used \cup {None}
  /\ DeliveriesTracked
  /\ OneDelivers
  /\ SubmissionSurvives

\* A step in which no delivery begins or is answered.
LEMMA OutboxKept ==
  ASSUME TypeOK, OutboxInv, SavedBefore, UNCHANGED <<outbox, used, returned, overlap>>,
         \A t \in Tabs :
           IF tab'[t].step = "posting"
           THEN /\ tab[t].step = "posting"
                /\ tab'[t].sent = tab[t].sent /\ tab'[t].reply = tab[t].reply
           ELSE tab'[t].reply = "none"
  PROVE  OutboxInv'
<1>1. DeliveriesTracked'
  BY DEF OutboxInv, DeliveriesTracked, SavedBefore
<1>2. OneDelivers'
  BY DEF OutboxInv, OneDelivers
<1>3. SubmissionSurvives'
  BY DEF OutboxInv, SubmissionSurvives, SavedBefore
<1> QED
  BY <1>1, <1>2, <1>3 DEF OutboxInv

\* Tab t delivers what is, or was put, in the outbox.
LEMMA OutboxDelivered ==
  ASSUME TypeOK, OutboxInv, NEW t \in Tabs, OnlyTab(t), Delivers(t),
         outbox' \in used', used \subseteq used',
         tab'[t].step = "posting", tab'[t].sent = outbox', tab'[t].reply = "none",
         \A s \in used' : s \in used \/ s = outbox',
         outbox = None \/ outbox = outbox',
         UNCHANGED <<questions, returned>>
  PROVE  OutboxInv'
<1>1. SavedBefore /\ (overlap => overlap')
  BY DEF SavedBefore, Saved, Delivers
<1>2. DeliveriesTracked'
  BY <1>1 DEF OutboxInv, DeliveriesTracked, SavedBefore, OnlyTab
<1>3. OneDelivers'
  BY DEF OutboxInv, OneDelivers, Delivers, OnlyTab, TypeOK
<1>4. SubmissionSurvives'
  <2>1. None \notin used
    BY ConstantsAssumption DEF TypeOK
  <2> QED
    BY <1>1, <2>1 DEF OutboxInv, SubmissionSurvives, SavedBefore
<1> QED
  BY <1>2, <1>3, <1>4 DEF OutboxInv

\* Tab t removes what the outbox holds: it has delivered something that is saved
\* or given back.
LEMMA OutboxRemoved ==
  ASSUME TypeOK, OutboxInv, NEW t \in Tabs, OnlyTab(t),
         tab[t].step = "posting", tab'[t].step # "posting", tab'[t].reply = "none",
         Saved(tab[t].sent) \/ tab[t].sent \in returned',
         outbox' = None, returned \subseteq returned',
         UNCHANGED <<questions, used, overlap>>
  PROVE  OutboxInv'
<1>1. \A s : Saved(s)' <=> Saved(s)
  BY DEF Saved
<1>2. DeliveriesTracked'
  BY <1>1 DEF OutboxInv, DeliveriesTracked, OnlyTab
<1>3. OneDelivers'
  BY DEF OutboxInv, OneDelivers, OnlyTab
<1>4. SubmissionSurvives'
  BY <1>1 DEF OutboxInv, SubmissionSurvives, OneDelivers
<1> QED
  BY <1>2, <1>3, <1>4 DEF OutboxInv

LEMMA OutboxInit == Init => OutboxInv
<1> SUFFICES ASSUME Init PROVE OutboxInv
  OBVIOUS
<1>1. \A t \in Tabs : tab[t].step = "session" /\ tab[t].reply = "none"
  BY DEF Init, Loading
<1> QED
  BY <1>1 DEF Init, OutboxInv, DeliveriesTracked, OneDelivers, SubmissionSurvives

LEMMA OutboxTabStep ==
  ASSUME TypeOK, OutboxInv, NEW t \in Tabs, TabStep(t)
  PROVE  OutboxInv'
<1>1. tab[t].step # "posting" => tab[t].reply = "none"
  BY DEF OutboxInv, DeliveriesTracked
<1>2. UNCHANGED questions => SavedBefore
  BY DEF SavedBefore, Saved
<1>3. \A u \in Tabs : IF tab[u].step = "posting" THEN TRUE ELSE tab[u].reply = "none"
  BY DEF OutboxInv, DeliveriesTracked
<1>4. CASE Reload(t)
  <2>1. tab'[t].step = "session" /\ tab'[t].reply = "none" /\ \A u \in Tabs \ {t} : tab'[u] = tab[u]
    BY <1>4 DEF Reload, TypeOK, Loading
  <2> QED
    BY <1>2, <1>3, <1>4, <2>1, OutboxKept DEF Reload
<1>5. CASE Connect(t)
  <2>1. OnlyTab(t) /\ tab'[t].step = "session" /\ tab'[t].reply = tab[t].reply
    <3>1. tab[t].controls \ {"reconnect"} \in SUBSET Controls
      BY DEF TypeOK, TabStates
    <3> QED
      BY <1>5, <3>1, BeginsEffect DEF Connect
  <2>2. tab[t].step # "posting"
    BY <1>5 DEF Connect, Idle
  <2> QED
    BY <1>1, <1>2, <1>3, <1>5, <2>1, <2>2, OutboxKept DEF Connect, OnlyTab
<1>6. CASE SessionReady(t)
  <2>1. CASE outbox = None
    <3>1. OnlyTab(t) /\ tab'[t].step = "reading" /\ tab'[t].reply = "none"
      BY <1>6, <2>1, ReadsEffect DEF SessionReady
    <3> QED
      BY <1>2, <1>3, <1>6, <2>1, <3>1, OutboxKept DEF SessionReady, OnlyTab
  <2>2. CASE outbox # None
    <3>1. /\ OnlyTab(t) /\ tab'[t].step = "posting" /\ tab'[t].sent = outbox
          /\ tab'[t].reply = "none"
      BY <1>1, <1>6, <2>2, DeliversTo DEF SessionReady
    <3>2. outbox \in used
      BY <2>2 DEF OutboxInv
    <3> QED
      BY <1>6, <2>2, <3>1, <3>2, OutboxDelivered DEF SessionReady
  <2> QED
    BY <2>1, <2>2
<1>7. CASE SessionFails(t)
  <2>1. OnlyTab(t) /\ tab'[t].step = "idle" /\ tab'[t].reply = "none"
    BY <1>7, FailsEffect DEF SessionFails
  <2> QED
    BY <1>2, <1>3, <1>7, <2>1, OutboxKept DEF SessionFails, OnlyTab
<1>8. ASSUME NEW s \in Submissions, Submit(t, s) PROVE OutboxInv'
  <2>1. tab[t].controls \ {"send", "again"} \in SUBSET Controls
    BY DEF TypeOK, TabStates
  <2>2. /\ OnlyTab(t) /\ tab'[t].step = "posting" /\ tab'[t].sent = s
        /\ tab'[t].reply = tab[t].reply
    BY <1>8, <2>1, BeginsEffect DEF Submit
  <2>3. tab[t].reply = "none"
    BY <1>1, <1>8 DEF Submit, Idle
  <2> QED
    BY <1>8, <2>2, <2>3, OutboxDelivered DEF Submit
<1>9. CASE Receive(t)
  <2>1. /\ OnlyTab(t) /\ tab[t].sent \in Submissions
        /\ tab'[t].step = "posting" /\ tab'[t].sent = tab[t].sent
        /\ tab'[t].reply = IF Accepts(tab[t].sent) THEN "accepted" ELSE "rejected"
    BY <1>9, ReceiveEffect
  <2>2. SavedBefore /\ (Accepts(tab[t].sent) => Saved(tab[t].sent)')
    BY <1>9, <2>1, SavesSaves DEF Receive, TypeOK
  <2>3. tab[t].step = "posting" /\ UNCHANGED <<outbox, used, returned, overlap>>
    BY <1>9 DEF Receive
  <2>4. DeliveriesTracked'
    <3> DEFINE known(u) == tab[u].sent \in used /\ (tab[u].reply = "accepted" => Saved(tab[u].sent))
    <3>1. known(t)'
      BY <2>1, <2>2, <2>3 DEF OutboxInv, DeliveriesTracked
    <3>2. ASSUME NEW u \in Tabs \ {t}, tab[u].step = "posting" PROVE known(u)'
      <4>1. known(u)
        BY <3>2 DEF OutboxInv, DeliveriesTracked
      <4> QED
        BY <2>1, <2>2, <2>3, <4>1 DEF OnlyTab, SavedBefore, Saved
    <3> QED
      BY <1>3, <2>1, <3>1, <3>2 DEF DeliveriesTracked, OnlyTab
  <2>5. OneDelivers'
    BY <2>1, <2>3 DEF OutboxInv, OneDelivers, OnlyTab
  <2>6. SubmissionSurvives'
    BY <2>2, <2>3 DEF OutboxInv, SubmissionSurvives, SavedBefore
  <2> QED
    BY <2>3, <2>4, <2>5, <2>6 DEF OutboxInv
<1>10. CASE Accepted(t)
  <2>1. OnlyTab(t) /\ tab'[t].step = "reading" /\ tab'[t].reply = "none"
    BY <1>10, ReadsEffect DEF Accepted
  <2>2. Saved(tab[t].sent)
    BY <1>10 DEF Accepted, OutboxInv, DeliveriesTracked
  <2> QED
    BY <1>10, <2>1, <2>2, OutboxRemoved DEF Accepted
<1>11. CASE Rejected(t)
  <2>1. OnlyTab(t) /\ tab'[t].step = "idle" /\ tab'[t].reply = "none"
    BY <1>11, FailsEffect DEF Rejected
  <2> QED
    BY <1>11, <2>1, OutboxRemoved DEF Rejected
<1>12. CASE PostFails(t)
  <2>1. OnlyTab(t) /\ tab'[t].step = "idle" /\ tab'[t].reply = "none"
    BY <1>12, FailsEffect DEF PostFails
  <2> QED
    BY <1>2, <1>3, <1>12, <2>1, OutboxKept DEF PostFails, AfterFailure, OnlyTab
<1>13. CASE Cancel(t)
  <2>1. tab[t].controls \ {"cancel"} \in SUBSET Controls
    BY DEF TypeOK, TabStates
  <2>2. OnlyTab(t) /\ tab'[t].step = "cancelling" /\ tab'[t].reply = tab[t].reply
    BY <1>13, <2>1, BeginsEffect DEF Cancel
  <2>3. tab[t].step # "posting"
    BY <1>13 DEF Cancel, Idle
  <2> QED
    BY <1>1, <1>2, <1>3, <1>13, <2>2, <2>3, OutboxKept DEF Cancel, OnlyTab
<1>14. CASE Cancelled(t)
  <2>1. OnlyTab(t) /\ tab'[t].step = "reading" /\ tab'[t].reply = "none"
    BY <1>14, ReadsEffect DEF Cancelled
  <2>2. SavedBefore
    BY <1>14, EndedSaves DEF Cancelled, TypeOK
  <2> QED
    BY <1>3, <1>14, <2>1, <2>2, OutboxKept DEF Cancelled, OnlyTab
<1>15. CASE CancelFails(t)
  <2>1. OnlyTab(t) /\ tab'[t].step = "idle" /\ tab'[t].reply = "none"
    BY <1>15, FailsEffect DEF CancelFails
  <2>2. SavedBefore
    BY <1>2, <1>15, EndedSaves DEF CancelFails, TypeOK
  <2> QED
    BY <1>3, <1>15, <2>1, <2>2, OutboxKept DEF CancelFails, OnlyTab
<1>16. CASE TimerFires(t)
  <2>1. /\ OnlyTab(t) /\ tab'[t].step = tab[t].step /\ tab'[t].sent = tab[t].sent
        /\ tab'[t].reply = tab[t].reply
    BY <1>16, TimerEffect
  <2> QED
    BY <1>2, <1>3, <1>16, <2>1, OutboxKept DEF TimerFires, OnlyTab
<1> QED
  BY <1>4, <1>5, <1>6, <1>7, <1>8, <1>9, <1>10, <1>11, <1>12, <1>13, <1>14, <1>15, <1>16
     DEF TabStep

LEMMA OutboxStep == TypeOK /\ OutboxInv /\ [Next]_vars => OutboxInv'
<1> SUFFICES ASSUME TypeOK, OutboxInv, [Next]_vars PROVE OutboxInv'
  OBVIOUS
<1>1. UNCHANGED questions => SavedBefore
  BY DEF SavedBefore, Saved
<1>2. \A u \in Tabs : IF tab[u].step = "posting" THEN TRUE ELSE tab[u].reply = "none"
  BY DEF OutboxInv, DeliveriesTracked
<1>3. CASE UNCHANGED vars
  BY <1>1, <1>2, <1>3, OutboxKept DEF vars
<1>4. ASSUME NEW t \in Tabs, TabStep(t) PROVE OutboxInv'
  BY <1>4, OutboxTabStep
<1>5. ASSUME NEW p \in polls, PollReads(p) PROVE OutboxInv'
  BY <1>1, <1>2, <1>5, OutboxKept DEF PollReads
<1>6. ASSUME NEW p \in polls, PollArrives(p) PROVE OutboxInv'
  <2>1. p.tab \in Tabs /\ OnlyTab(p.tab)
    BY <1>6, ArrivesEffect
  <2>3. /\ tab'[p.tab].sent = tab[p.tab].sent /\ tab'[p.tab].reply = tab[p.tab].reply
        /\ tab'[p.tab].step = IF tab[p.tab].step = "reading" THEN "idle" ELSE tab[p.tab].step
    BY <1>6, ArrivesEffect
  <2>2. /\ tab'[p.tab].sent = tab[p.tab].sent /\ tab'[p.tab].reply = tab[p.tab].reply
        /\ tab'[p.tab].step = "posting" <=> tab[p.tab].step = "posting"
    BY <2>3
  <2> QED
    BY <1>1, <1>2, <1>6, <2>1, <2>2, OutboxKept DEF PollArrives, OnlyTab
<1>7. ASSUME NEW p \in polls, PollFails(p) PROVE OutboxInv'
  <2>1. p.tab \in Tabs
    BY DEF TypeOK, PollStates
  <2>2. OnlyTab(p.tab) /\ tab'[p.tab].step = "idle" /\ tab'[p.tab].reply = "none"
    BY <1>7, <2>1, FailsEffect DEF PollFails
  <2> QED
    BY <1>1, <1>2, <1>7, <2>1, <2>2, OutboxKept DEF PollFails, OnlyTab
<1>8. ASSUME NEW s \in late, ReceiveLate(s) PROVE OutboxInv'
  <2>1. SavedBefore
    BY <1>8, SavesSaves DEF ReceiveLate, TypeOK
  <2> QED
    BY <1>2, <1>8, <2>1, OutboxKept DEF ReceiveLate
<1>9. CASE EndQuestion
  BY <1>2, <1>9, EndQuestionSaves, OutboxKept DEF EndQuestion
<1> QED
  BY <1>3, <1>4, <1>5, <1>6, <1>7, <1>8, <1>9 DEF Next

\* Unless two tabs have delivered at once, a submission is in the outbox until
\* the API has saved it or has given it back: with any number of tabs.
THEOREM SubmissionsSurvive == Spec => []SubmissionSurvives
<1>1. OutboxInv => SubmissionSurvives
  BY DEF OutboxInv
<1> QED
  BY <1>1, TypeInit, TypeStep, OutboxInit, OutboxStep, PTL DEF Spec

-------------------------------------------------------------------------------
(* A tab has one way on *)

NoPoll(t) == \A p \in polls : p.tab # t

OnePoll(t) == \E p \in polls : p.tab = t /\ \A q \in polls : q.tab = t => q = p

\* OneWayOn, and what a busy tab waits for.
WayOf(t) ==
  IF Idle(t)
  THEN IF tab[t].timer THEN NoPoll(t) /\ "reconnect" \notin tab[t].controls
       ELSE IF "reconnect" \in tab[t].controls THEN NoPoll(t) ELSE OnePoll(t)
  ELSE /\ ~tab[t].timer
       /\ IF tab[t].step = "reading" THEN OnePoll(t) ELSE NoPoll(t)

WayInv == \A t \in Tabs : WayOf(t)

LEMMA WayImplies == TypeOK /\ WayInv => OneWayOn
<1> SUFFICES ASSUME WayInv, NEW t \in Tabs
             PROVE  LET counting == {p \in polls : p.tab = t}
                        reconnect == "reconnect" \in tab[t].controls
                        one == IF tab[t].timer THEN counting = {} /\ ~reconnect
                               ELSE IF reconnect THEN counting = {} ELSE Cardinality(counting) = 1
                    IN  IF Idle(t) THEN one ELSE ~tab[t].timer
  BY DEF OneWayOn
<1> DEFINE counting == {p \in polls : p.tab = t}
<1>1. WayOf(t)
  BY DEF WayInv
<1>2. NoPoll(t) => counting = {}
  BY DEF NoPoll
<1>3. OnePoll(t) => Cardinality(counting) = 1
  <2> SUFFICES ASSUME OnePoll(t) PROVE Cardinality(counting) = 1
    OBVIOUS
  <2>1. PICK p \in polls : p.tab = t /\ \A q \in polls : q.tab = t => q = p
    BY DEF OnePoll
  <2>2. counting = {p}
    BY <2>1
  <2> QED
    BY <2>2, FS_Singleton
<1> HIDE DEF counting
<1>4. IF Idle(t)
      THEN IF tab[t].timer THEN counting = {} /\ "reconnect" \notin tab[t].controls
           ELSE IF "reconnect" \in tab[t].controls THEN counting = {} ELSE Cardinality(counting) = 1
      ELSE ~tab[t].timer
  BY <1>1, <1>2, <1>3 DEF WayOf
<1> QED
  BY <1>4 DEF counting

\* The polls of other tabs stay.
OnlyPollsOf(t) == \A p : p.tab # t => (p \in polls' <=> p \in polls)

LEMMA WayKept ==
  ASSUME WayInv, NEW t \in Tabs, \A u \in Tabs \ {t} : tab'[u] = tab[u],
         OnlyPollsOf(t), WayOf(t)'
  PROVE  WayInv'
<1> SUFFICES ASSUME NEW u \in Tabs \ {t} PROVE WayOf(u)'
  BY DEF WayInv
<1>1. WayOf(u) /\ tab'[u] = tab[u]
  BY DEF WayInv
<1>2. NoPoll(u) => NoPoll(u)'
  BY DEF NoPoll, OnlyPollsOf
<1>3. OnePoll(u) => OnePoll(u)'
  <2> SUFFICES ASSUME OnePoll(u) PROVE OnePoll(u)'
    OBVIOUS
  <2>1. PICK p \in polls : p.tab = u /\ \A q \in polls : q.tab = u => q = p
    BY DEF OnePoll
  <2>2. p \in polls' /\ \A q \in polls' : q.tab = u => q = p
    BY <2>1 DEF OnlyPollsOf
  <2> QED
    BY <2>1, <2>2 DEF OnePoll
<1> QED
  BY <1>1, <1>2, <1>3 DEF WayOf, Idle

LEMMA FirstPoll ==
  ASSUME NEW t \in Tabs, NoPoll(t), polls' = polls \cup {Poll(t)}
  PROVE  OnePoll(t)' /\ OnlyPollsOf(t)
<1>1. Poll(t).tab = t
  BY DEF Poll
<1>2. /\ Poll(t) \in polls' /\ \A q \in polls' : q.tab = t => q = Poll(t)
  BY DEF NoPoll
<1>3. OnePoll(t)'
  BY <1>1, <1>2 DEF OnePoll
<1> QED
  BY <1>1, <1>3 DEF OnlyPollsOf

LEMMA WayReads ==
  ASSUME TypeOK, WayInv, NEW t \in Tabs, Reads(t), tab[t].step \notin {"idle", "reading"}
  PROVE  WayInv'
<1>1. NoPoll(t) /\ ~tab[t].timer
  BY DEF WayInv, WayOf, Idle
<1>2. OnlyTab(t) /\ tab'[t].step = "reading" /\ tab'[t].timer = tab[t].timer
  BY ReadsEffect
<1>3. polls' = polls \cup {Poll(t)}
  BY DEF Reads
<1>4. OnePoll(t)' /\ OnlyPollsOf(t)
  BY <1>1, <1>3, FirstPoll
<1>5. WayOf(t)'
  BY <1>1, <1>2, <1>4 DEF WayOf, Idle
<1> QED
  BY <1>2, <1>4, <1>5, WayKept DEF OnlyTab

LEMMA WayFails ==
  ASSUME TypeOK, WayInv, NEW t \in Tabs, Fails(t), ~tab[t].timer, NoPoll(t)', OnlyPollsOf(t)
  PROVE  WayInv'
<1>1. /\ OnlyTab(t) /\ tab'[t].step = "idle" /\ tab'[t].timer = tab[t].timer
      /\ "reconnect" \in tab'[t].controls
  BY FailsEffect
<1>2. WayOf(t)'
  BY <1>1 DEF WayOf, Idle
<1> QED
  BY <1>1, <1>2, WayKept DEF OnlyTab

LEMMA WayBegins ==
  ASSUME TypeOK, WayInv, NEW t \in Tabs, NEW step \in {"session", "posting", "cancelling"},
         NEW submission \in Submissions \cup {None}, NEW controls \in SUBSET Controls,
         Begins(t, step, submission, controls)
  PROVE  WayInv'
<1>1. /\ OnlyTab(t) /\ tab'[t].step = step /\ ~tab'[t].timer
      /\ polls' = {p \in polls : p.tab # t}
  BY BeginsEffect
<1>2. NoPoll(t)' /\ OnlyPollsOf(t)
  BY <1>1 DEF NoPoll, OnlyPollsOf
<1>3. WayOf(t)'
  BY <1>1, <1>2 DEF WayOf, Idle
<1> QED
  BY <1>1, <1>2, <1>3, WayKept DEF OnlyTab

LEMMA WayInit == Init => WayInv
<1> SUFFICES ASSUME Init, NEW t \in Tabs PROVE WayOf(t)
  BY DEF WayInv
<1>1. tab[t].step = "session" /\ ~tab[t].timer
  BY DEF Init, Loading
<1> QED
  BY <1>1 DEF Init, WayOf, Idle, NoPoll

LEMMA WayTabStep ==
  ASSUME TypeOK, WayInv, NEW t \in Tabs, TabStep(t)
  PROVE  WayInv'
<1>1. WayOf(t)
  BY DEF WayInv
<1>2. UNCHANGED polls => OnlyPollsOf(t) /\ (NoPoll(t) => NoPoll(t)') /\ (OnePoll(t) => OnePoll(t)')
  BY DEF OnlyPollsOf, NoPoll, OnePoll
<1>3. CASE Reload(t)
  <2>1. tab'[t].step = "session" /\ ~tab'[t].timer /\ \A u \in Tabs \ {t} : tab'[u] = tab[u]
    BY <1>3 DEF Reload, TypeOK, Loading
  <2>2. NoPoll(t)' /\ OnlyPollsOf(t)
    BY <1>3 DEF Reload, NoPoll, OnlyPollsOf
  <2>3. WayOf(t)'
    BY <2>1, <2>2 DEF WayOf, Idle
  <2> QED
    BY <2>1, <2>2, <2>3, WayKept
<1>4. CASE Connect(t)
  <2>1. tab[t].controls \ {"reconnect"} \in SUBSET Controls
    BY DEF TypeOK, TabStates
  <2> QED
    BY <1>4, <2>1, WayBegins DEF Connect
<1>5. CASE SessionReady(t)
  <2>1. CASE outbox = None
    BY <1>5, <2>1, WayReads DEF SessionReady
  <2>2. CASE outbox # None
    <3>1. /\ OnlyTab(t) /\ tab'[t].step = "posting" /\ tab'[t].timer = tab[t].timer
          /\ UNCHANGED polls
      BY <1>5, <2>2, DeliversTo DEF SessionReady
    <3>2. WayOf(t)'
      BY <1>1, <1>2, <1>5, <3>1 DEF SessionReady, WayOf, Idle
    <3> QED
      BY <1>2, <3>1, <3>2, WayKept DEF OnlyTab
  <2> QED
    BY <2>1, <2>2
<1>6. ASSUME tab[t].step \in {"session", "posting", "cancelling"}, Fails(t), UNCHANGED polls
      PROVE  WayInv'
  <2>1. ~tab[t].timer /\ NoPoll(t)
    BY <1>1, <1>6 DEF WayOf, Idle
  <2> QED
    BY <1>2, <1>6, <2>1, WayFails
<1>7. CASE SessionFails(t)
  BY <1>6, <1>7 DEF SessionFails
<1>8. ASSUME NEW s \in Submissions, Submit(t, s) PROVE WayInv'
  <2>1. tab[t].controls \ {"send", "again"} \in SUBSET Controls
    BY DEF TypeOK, TabStates
  <2> QED
    BY <1>8, <2>1, WayBegins DEF Submit
<1>9. CASE Receive(t)
  <2>1. OnlyTab(t) /\ tab'[t].step = "posting" /\ tab'[t].timer = tab[t].timer
    BY <1>9, ReceiveEffect
  <2>2. tab[t].step = "posting" /\ UNCHANGED polls
    BY <1>9 DEF Receive
  <2>3. WayOf(t)'
    BY <1>1, <1>2, <2>1, <2>2 DEF WayOf, Idle
  <2> QED
    BY <1>2, <2>1, <2>2, <2>3, WayKept DEF OnlyTab
<1>10. CASE Accepted(t)
  BY <1>10, WayReads DEF Accepted
<1>11. CASE Rejected(t)
  BY <1>6, <1>11 DEF Rejected
<1>12. CASE PostFails(t)
  BY <1>6, <1>12 DEF PostFails
<1>13. CASE Cancel(t)
  <2>1. tab[t].controls \ {"cancel"} \in SUBSET Controls
    BY DEF TypeOK, TabStates
  <2> QED
    BY <1>13, <2>1, WayBegins DEF Cancel
<1>14. CASE Cancelled(t)
  BY <1>14, WayReads DEF Cancelled
<1>15. CASE CancelFails(t)
  BY <1>6, <1>15 DEF CancelFails
<1>16. CASE TimerFires(t)
  <2>1. /\ OnlyTab(t) /\ tab'[t].step = tab[t].step /\ ~tab'[t].timer
        /\ tab'[t].controls = tab[t].controls
    BY <1>16, TimerEffect
  <2>2. /\ tab[t].timer /\ polls' = polls \cup {Poll(t)}
    BY <1>16 DEF TimerFires
  <2>3. NoPoll(t) /\ tab[t].step = "idle" /\ "reconnect" \notin tab[t].controls
    BY <1>1, <2>2 DEF WayOf, Idle
  <2>4. OnePoll(t)' /\ OnlyPollsOf(t)
    BY <2>2, <2>3, FirstPoll
  <2>5. WayOf(t)'
    BY <2>1, <2>3, <2>4 DEF WayOf, Idle
  <2> QED
    BY <2>1, <2>4, <2>5, WayKept DEF OnlyTab
<1> QED
  BY <1>3, <1>4, <1>5, <1>7, <1>8, <1>9, <1>10, <1>11, <1>12, <1>13, <1>14, <1>15, <1>16
     DEF TabStep

LEMMA WayStep == TypeOK /\ WayInv /\ [Next]_vars => WayInv'
<1> SUFFICES ASSUME TypeOK, WayInv, [Next]_vars PROVE WayInv'
  OBVIOUS
<1>1. UNCHANGED <<tab, polls>> => WayInv'
  BY DEF WayInv, WayOf, Idle, NoPoll, OnePoll
<1>2. CASE UNCHANGED vars
  BY <1>1, <1>2 DEF vars
<1>3. ASSUME NEW t \in Tabs, TabStep(t) PROVE WayInv'
  BY <1>3, WayTabStep
<1>4. \A p \in polls : /\ p.tab \in Tabs /\ WayOf(p.tab)
                       /\ ~tab[p.tab].timer
                       /\ \A q \in polls : q.tab = p.tab => q = p
  <2> SUFFICES ASSUME NEW p \in polls
               PROVE  /\ p.tab \in Tabs /\ WayOf(p.tab)
                      /\ ~tab[p.tab].timer
                      /\ \A q \in polls : q.tab = p.tab => q = p
    OBVIOUS
  <2>1. p.tab \in Tabs /\ ~NoPoll(p.tab)
    BY DEF TypeOK, PollStates, NoPoll
  <2>2. WayOf(p.tab)
    BY <2>1 DEF WayInv
  <2> QED
    BY <2>1, <2>2 DEF WayOf, OnePoll
<1>5. ASSUME NEW p \in polls, PollReads(p) PROVE WayInv'
  <2> DEFINE q == [p EXCEPT !.read = TRUE, !.view = questions]
  <2>1. q.tab = p.tab
    BY DEF TypeOK, PollStates
  <2>2. polls' = (polls \ {p}) \cup {q} /\ UNCHANGED tab
    BY <1>5 DEF PollReads
  <2> HIDE DEF q
  <2>3. OnePoll(p.tab) /\ OnePoll(p.tab)'
    BY <1>4, <2>1, <2>2 DEF OnePoll
  <2>4. OnlyPollsOf(p.tab)
    BY <2>1, <2>2 DEF OnlyPollsOf
  <2>5. ~NoPoll(p.tab)
    BY DEF NoPoll
  <2>6. WayOf(p.tab)'
    BY <1>4, <2>2, <2>3, <2>5 DEF WayOf, Idle
  <2> QED
    BY <1>4, <2>2, <2>4, <2>6, WayKept
<1>6. ASSUME NEW p \in polls, PollArrives(p) PROVE WayInv'
  <2>1. NoPoll(p.tab)' /\ OnlyPollsOf(p.tab)
    BY <1>4, <1>6 DEF PollArrives, NoPoll, OnlyPollsOf
  <2>2. tab[p.tab].step \in {"idle", "reading"}
    BY <1>4 DEF WayOf, Idle, NoPoll
  <2>3. /\ p.tab \in Tabs /\ OnlyTab(p.tab) /\ tab'[p.tab].step = "idle"
        /\ tab'[p.tab].timer /\ "reconnect" \notin tab'[p.tab].controls
    BY <1>6, <2>2, ArrivesEffect
  <2>4. WayOf(p.tab)'
    BY <2>1, <2>3 DEF WayOf, Idle
  <2> QED
    BY <2>1, <2>3, <2>4, WayKept DEF OnlyTab
<1>7. ASSUME NEW p \in polls, PollFails(p) PROVE WayInv'
  <2>1. NoPoll(p.tab)' /\ OnlyPollsOf(p.tab)
    BY <1>4, <1>7 DEF PollFails, NoPoll, OnlyPollsOf
  <2> QED
    BY <1>4, <1>7, <2>1, WayFails DEF PollFails
<1>8. ASSUME NEW s \in late, ReceiveLate(s) PROVE WayInv'
  BY <1>1, <1>8 DEF ReceiveLate
<1>9. CASE EndQuestion
  BY <1>1, <1>9 DEF EndQuestion
<1> QED
  BY <1>2, <1>3, <1>5, <1>6, <1>7, <1>8, <1>9 DEF Next

\* A tab that is not busy has exactly one way on, and a busy one no timer.
THEOREM TabsGoOn == Spec => []OneWayOn
<1> QED
  BY TypeInit, TypeStep, WayInit, WayStep, WayImplies, PTL DEF Spec

-------------------------------------------------------------------------------
(* What a tab shows only advances *)

\* The API is ahead of every answer, and an answer that counts is not behind
\* what its tab shows.
ViewInv ==
  /\ \A t \in Tabs : Follows(questions, tab[t].view)
  /\ \A p \in polls : p.read => Follows(questions, p.view) /\ Follows(p.view, tab[p.tab].view)

ViewsAdvance == \A t \in Tabs : tab'[t] # Loading => Follows(tab'[t].view, tab[t].view)

LEMMA FollowsItself == \A view \in Seq(Rows) : Follows(view, view)
  BY DEF Follows

LEMMA FollowsEmpty == \A view \in Seq(Rows) : Follows(view, <<>>)
  BY DEF Follows

LEMMA FollowsTransitive ==
  ASSUME NEW a \in Seq(Rows), NEW b \in Seq(Rows), NEW c \in Seq(Rows),
         Follows(a, b), Follows(b, c)
  PROVE  Follows(a, c)
<1>1. Len(c) <= Len(b) /\ Len(b) <= Len(a) /\ Len(a) \in Nat /\ Len(b) \in Nat /\ Len(c) \in Nat
  BY DEF Follows
<1>2. ASSUME NEW i \in DOMAIN c
      PROVE  a[i].id = c[i].id /\ (c[i].status # "pending" => a[i] = c[i])
  <2>1. i \in DOMAIN b
    BY <1>1
  <2>2. b[i].id = c[i].id /\ (c[i].status # "pending" => b[i] = c[i])
    BY DEF Follows
  <2>3. a[i].id = b[i].id /\ (b[i].status # "pending" => a[i] = b[i])
    BY <2>1 DEF Follows
  <2> QED
    BY <2>2, <2>3
<1> QED
  BY <1>1, <1>2 DEF Follows

LEMMA EndedFollows ==
  ASSUME questions \in Seq(Rows), NEW s, NEW status \in {"failed", "ended"}
  PROVE  Follows(Ended(s, status), questions)
<1>1. /\ Ended(s, status) \in Seq(Rows)
      /\ DOMAIN Ended(s, status) = DOMAIN questions
      /\ \A i \in DOMAIN questions : Ended(s, status)[i].id = questions[i].id
  BY EndedType
<1>2. \A i \in DOMAIN questions :
        questions[i].status # "pending" => Ended(s, status)[i] = questions[i]
  BY DEF Ended
<1>3. Len(Ended(s, status)) = Len(questions) /\ Len(questions) \in Nat
  BY <1>1
<1> QED
  BY <1>1, <1>2, <1>3 DEF Follows

LEMMA SavesFollows ==
  ASSUME questions \in Seq(Rows), NEW s \in Submissions, Saves(s)
  PROVE  Follows(questions', questions)
<1> DEFINE row == [id |-> s, status |-> "pending"]
<1>1. row \in Rows
  BY DEF Rows
<1>2. questions' = questions \/ questions' = Append(questions, row)
  BY DEF Saves
<1> HIDE DEF row
<1>3. CASE questions' = questions
  BY <1>3, FollowsItself
<1>4. CASE questions' = Append(questions, row)
  <2>1. /\ Len(questions') = Len(questions) + 1 /\ Len(questions) \in Nat
        /\ \A i \in DOMAIN questions : questions'[i] = questions[i]
    BY <1>1, <1>4
  <2> QED
    BY <2>1 DEF Follows
<1> QED
  BY <1>2, <1>3, <1>4

\* What the API keeps only advances.
LEMMA QuestionsAdvance ==
  ASSUME TypeOK, [Next]_vars
  PROVE  Follows(questions', questions)
<1>1. UNCHANGED questions => Follows(questions', questions)
  BY FollowsItself DEF TypeOK
<1>2. ASSUME NEW t \in Tabs, TabStep(t) PROVE Follows(questions', questions)
  <2>1. CASE Receive(t)
    BY <2>1, ReceiveEffect, SavesFollows DEF Receive, TypeOK
  <2>2. CASE Cancelled(t)
    BY <2>2, EndedFollows DEF Cancelled, TypeOK
  <2>3. CASE CancelFails(t)
    BY <1>1, <2>3, EndedFollows DEF CancelFails, TypeOK
  <2>4. CASE ~(Receive(t) \/ Cancelled(t) \/ CancelFails(t))
    BY <1>1, <1>2, <2>4
       DEF TabStep, Reload, Connect, SessionReady, SessionFails, Submit, Accepted, Rejected,
           PostFails, Cancel, TimerFires
  <2> QED
    BY <2>1, <2>2, <2>3, <2>4
<1>3. ASSUME NEW s \in late, ReceiveLate(s) PROVE Follows(questions', questions)
  BY <1>3, SavesFollows DEF ReceiveLate, TypeOK
<1>4. CASE EndQuestion
  BY <1>4, EndedFollows DEF EndQuestion, TypeOK
<1> QED
  BY <1>1, <1>2, <1>3, <1>4 DEF Next, vars, PollReads, PollArrives, PollFails

\* A step that shows nothing new and reads nothing.
LEMMA ViewKept ==
  ASSUME TypeOK, TypeOK', ViewInv, Follows(questions', questions),
         \A t \in Tabs : tab'[t].view = tab[t].view,
         \A p \in polls' : p.read => p \in polls
  PROVE  ViewInv' /\ ViewsAdvance
<1>1. /\ questions \in Seq(Rows) /\ questions' \in Seq(Rows)
      /\ \A t \in Tabs : tab[t].view \in Seq(Rows)
      /\ \A p \in polls : p.view \in Seq(Rows) /\ p.tab \in Tabs
  BY DEF TypeOK, TabStates, PollStates
<1>2. \A t \in Tabs : Follows(questions', tab'[t].view)
  BY <1>1, FollowsTransitive DEF ViewInv
<1>3. \A p \in polls' : p.read => Follows(questions', p.view) /\ Follows(p.view, tab'[p.tab].view)
  BY <1>1, FollowsTransitive DEF ViewInv
<1>4. ViewsAdvance
  BY <1>1, FollowsItself DEF ViewsAdvance
<1> QED
  BY <1>2, <1>3, <1>4 DEF ViewInv

LEMMA ViewInit == Init => ViewInv
<1> SUFFICES ASSUME Init PROVE ViewInv
  OBVIOUS
<1>1. \A t \in Tabs : tab[t].view = <<>>
  BY DEF Init, Loading
<1>2. questions = <<>> /\ <<>> \in Seq(Rows)
  BY DEF Init
<1> QED
  BY <1>1, <1>2, FollowsEmpty DEF Init, ViewInv

\* All steps of a tab but that it is opened again.
LEMMA ViewTabStep ==
  ASSUME TypeOK, TypeOK', ViewInv, NEW t \in Tabs, TabStep(t), ~Reload(t),
         Follows(questions', questions)
  PROVE  ViewInv' /\ ViewsAdvance
<1>1. ~Poll(t).read
  BY DEF Poll
<1>2. ASSUME OnlyTab(t), tab'[t].view = tab[t].view, \A p \in polls' : p.read => p \in polls
      PROVE  ViewInv' /\ ViewsAdvance
  BY <1>2, ViewKept DEF OnlyTab
<1>3. ASSUME Reads(t) PROVE ViewInv' /\ ViewsAdvance
  BY <1>1, <1>2, <1>3, ReadsEffect DEF Reads
<1>4. ASSUME Fails(t), UNCHANGED polls PROVE ViewInv' /\ ViewsAdvance
  BY <1>2, <1>4, FailsEffect
<1>5. ASSUME NEW step \in {"session", "posting", "cancelling"},
             NEW submission \in Submissions \cup {None}, NEW controls \in SUBSET Controls,
             Begins(t, step, submission, controls)
      PROVE  ViewInv' /\ ViewsAdvance
  BY <1>2, <1>5, BeginsEffect
<1>6. \A c : tab[t].controls \ c \in SUBSET Controls
  BY DEF TypeOK, TabStates
<1>7. CASE Connect(t)
  BY <1>5, <1>6, <1>7 DEF Connect
<1>8. CASE SessionReady(t)
  BY <1>2, <1>3, <1>8, DeliversTo DEF SessionReady
<1>9. CASE SessionFails(t)
  BY <1>4, <1>9 DEF SessionFails
<1>10. ASSUME NEW s \in Submissions, Submit(t, s) PROVE ViewInv' /\ ViewsAdvance
  BY <1>5, <1>6, <1>10 DEF Submit
<1>11. CASE Receive(t)
  BY <1>2, <1>11, ReceiveEffect DEF Receive
<1>12. CASE Accepted(t)
  BY <1>3, <1>12 DEF Accepted
<1>13. CASE Rejected(t)
  BY <1>4, <1>13 DEF Rejected
<1>14. CASE PostFails(t)
  BY <1>4, <1>14 DEF PostFails
<1>15. CASE Cancel(t)
  BY <1>5, <1>6, <1>15 DEF Cancel
<1>16. CASE Cancelled(t)
  BY <1>3, <1>16 DEF Cancelled
<1>17. CASE CancelFails(t)
  BY <1>4, <1>17 DEF CancelFails
<1>18. CASE TimerFires(t)
  BY <1>1, <1>2, <1>18, TimerEffect DEF TimerFires
<1> QED
  BY <1>7, <1>8, <1>9, <1>10, <1>11, <1>12, <1>13, <1>14, <1>15, <1>16, <1>17, <1>18
     DEF TabStep

LEMMA ViewStep == TypeOK /\ WayInv /\ ViewInv /\ [Next]_vars => ViewInv' /\ ViewsAdvance
<1> SUFFICES ASSUME TypeOK, WayInv, ViewInv, [Next]_vars PROVE ViewInv' /\ ViewsAdvance
  OBVIOUS
<1>1. TypeOK' /\ Follows(questions', questions)
  BY TypeStep, QuestionsAdvance
<1>2. /\ questions \in Seq(Rows)
      /\ \A t \in Tabs : tab[t].view \in Seq(Rows)
      /\ \A p \in polls : p.view \in Seq(Rows) /\ p.tab \in Tabs
  BY DEF TypeOK, TabStates, PollStates
<1>3. CASE UNCHANGED <<tab, polls>>
  BY <1>1, <1>3, ViewKept
<1>4. ASSUME NEW t \in Tabs, TabStep(t) PROVE ViewInv' /\ ViewsAdvance
  <2>1. CASE Reload(t)
    <3>1. /\ tab'[t] = Loading /\ \A u \in Tabs \ {t} : tab'[u] = tab[u]
          /\ polls' = {p \in polls : p.tab # t} /\ UNCHANGED questions
      BY <2>1 DEF Reload, TypeOK
    <3>2. Loading.view = <<>>
      BY DEF Loading
    <3>3. ViewInv'
      BY <1>2, <3>1, <3>2, FollowsEmpty DEF ViewInv
    <3>4. ViewsAdvance
      BY <1>2, <3>1, FollowsItself DEF ViewsAdvance
    <3> QED
      BY <3>3, <3>4
  <2> QED
    BY <1>1, <1>4, <2>1, ViewTabStep
<1>5. ASSUME NEW p \in polls, PollReads(p) PROVE ViewInv' /\ ViewsAdvance
  <2> DEFINE q == [p EXCEPT !.read = TRUE, !.view = questions]
  <2>1. q.tab = p.tab /\ q.view = questions
    BY DEF TypeOK, PollStates
  <2>2. polls' = (polls \ {p}) \cup {q} /\ UNCHANGED <<tab, questions>>
    BY <1>5 DEF PollReads
  <2> HIDE DEF q
  <2>3. Follows(questions, q.view) /\ Follows(q.view, tab[q.tab].view)
    BY <1>2, <2>1, FollowsItself DEF ViewInv
  <2>4. ViewInv'
    BY <2>2, <2>3 DEF ViewInv
  <2>5. ViewsAdvance
    BY <1>2, <2>2, FollowsItself DEF ViewsAdvance
  <2> QED
    BY <2>4, <2>5
<1>6. ASSUME NEW p \in polls, PollArrives(p) PROVE ViewInv' /\ ViewsAdvance
  <2>1. /\ p.tab \in Tabs /\ OnlyTab(p.tab) /\ tab'[p.tab].view = p.view
        /\ p.read /\ polls' = polls \ {p} /\ UNCHANGED questions
    BY <1>6, ArrivesEffect DEF PollArrives
  <2>2. \A q \in polls' : q.tab # p.tab
    <3>1. WayOf(p.tab) /\ ~NoPoll(p.tab)
      BY <2>1 DEF WayInv, NoPoll
    <3>2. \A q \in polls : q.tab = p.tab => q = p
      BY <3>1 DEF WayOf, OnePoll
    <3> QED
      BY <2>1, <3>2
  <2>3. Follows(questions, p.view) /\ Follows(p.view, tab[p.tab].view)
    BY <2>1 DEF ViewInv
  <2>4. ViewInv'
    BY <1>2, <2>1, <2>2, <2>3 DEF ViewInv, OnlyTab
  <2>5. ViewsAdvance
    BY <1>2, <2>1, <2>3, FollowsItself DEF ViewsAdvance, OnlyTab
  <2> QED
    BY <2>4, <2>5
<1>7. ASSUME NEW p \in polls, PollFails(p) PROVE ViewInv' /\ ViewsAdvance
  BY <1>1, <1>2, <1>7, FailsEffect, ViewKept DEF PollFails, OnlyTab
<1>8. ASSUME NEW s \in late, ReceiveLate(s) PROVE ViewInv' /\ ViewsAdvance
  BY <1>3, <1>8 DEF ReceiveLate
<1>9. CASE EndQuestion
  BY <1>3, <1>9 DEF EndQuestion
<1>10. CASE UNCHANGED vars
  BY <1>3, <1>10 DEF vars
<1> QED
  BY <1>4, <1>5, <1>6, <1>7, <1>8, <1>9, <1>10 DEF Next

\* What a tab shows never goes back to an older state, until it is opened again.
THEOREM ViewsOnlyAdvance == Spec => ViewOnlyAdvances
<1>1. TypeOK /\ WayInv /\ ViewInv /\ [Next]_vars
        => [\A t \in Tabs : tab'[t] # Loading => Follows(tab'[t].view, tab[t].view)]_vars
  BY ViewStep DEF ViewsAdvance
<1> QED
  BY <1>1, TypeInit, TypeStep, WayInit, WayStep, ViewInit, ViewStep, PTL
     DEF Spec, ViewOnlyAdvances
================================================================================
