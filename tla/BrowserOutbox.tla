----------------------------- MODULE BrowserOutbox -----------------------------
(***************************************************************************)
(* The tabs of a browser, shop/static/app.js: they share one outbox in     *)
(* local storage and one conversation, whose questions the API keeps.      *)
(*                                                                         *)
(* A tab runs its handlers to the next await, and an interaction that is   *)
(* busy keeps others from beginning.  Requests are lost before or after    *)
(* the API has processed them, or processed after the tab has given up or  *)
(* was closed.  All failures but a rejection (409, 422) are one: of the    *)
(* connection, of the limits (429), of a conversation that is not the      *)
(* session's (404) or is expired (410).                                    *)
(*                                                                         *)
(* Left out: the text of a question, which its identifier stands for, and  *)
(* the creation of the conversation.  A question that has failed or is     *)
(* expired can be asked again: "failed"; one that is completed or          *)
(* cancelled is "ended".                                                   *)
(***************************************************************************)
EXTENDS Integers, Sequences, FiniteSets

CONSTANTS
  Tabs,
  Submissions,  \* the identifiers that randomUUID makes, each with its text
  Invalid,      \* those whose text the API refuses
  None          \* no submission

ASSUME ConstantsAssumption ==
  /\ Invalid \subseteq Submissions
  /\ None \notin Submissions

VARIABLES
  outbox,     \* local storage: the submission whose fate is not known
  tab,        \* each tab
  polls,      \* GETs of the conversation that are under way, of the tab's generation
  late,       \* submissions under way whose tab no longer waits
  questions,  \* what the API has saved, in its order
  used,       \* history: the submissions that were made
  returned,   \* history: those that were rejected, their text put back to be edited
  overlap     \* history: two tabs have delivered at once

vars == <<outbox, tab, polls, late, questions, used, returned, overlap>>

-------------------------------------------------------------------------------
(* Tabs *)

\* step: what the interaction awaits; "idle" is ~busy.
\* controls: the buttons that can be used; view: the questions rendered last.
Loading ==
  [step |-> "session", sent |-> None, reply |-> "none", controls |-> {},
   timer |-> FALSE, view |-> <<>>]

Idle(t) == tab[t].step = "idle"

Pending(view) == view # <<>> /\ view[Len(view)].status = "pending"

\* render, then retry.hidden = true: no "reconnect".
Rendered(view) ==
  {c \in {"send", "cancel", "again"} :
     /\ c = "cancel" <=> Pending(view)
     /\ c # "cancel" => outbox = None
     /\ c = "again" => view # <<>> /\ view[Len(view)].status = "failed"}

\* Variant of Outdated: an interaction does not advance the generation.
StillCurrent(t) == polls

\* generation += 1: a poll that was started before does nothing when its answer
\* arrives, or fails to, so that it is not kept.
Outdated(t) == {p \in polls : p.tab # t}

Poll(t) == [tab |-> t, read |-> FALSE, view |-> <<>>]

\* refresh, up to its await.
Reads(t) ==
  /\ tab' = [tab EXCEPT ![t] = [@ EXCEPT !.step = "reading", !.sent = None, !.reply = "none"]]
  /\ polls' = polls \cup {Poll(t)}

\* The interaction ends with showError.
Fails(t) ==
  tab' = [tab EXCEPT ![t].step = "idle", ![t].sent = None, ![t].reply = "none",
                     ![t].controls = (@ \ {"send"}) \cup {"reconnect"}]

\* Variant of Quiet: the timer of the last refresh is left armed.
TimerLeft(t) == tab[t].timer

\* clearTimeout
Quiet(t) == FALSE

Begins(t, step, submission, controls) ==
  /\ tab' = [tab EXCEPT ![t] = [@ EXCEPT !.step = step, !.sent = submission,
                                !.controls = controls, !.timer = Quiet(t)]]
  /\ polls' = Outdated(t)

Delivers(t) == overlap' = (overlap \/ \E u \in Tabs \ {t} : tab[u].step = "posting")

Init ==
  /\ outbox = None
  /\ tab = [t \in Tabs |-> Loading]
  /\ polls = {} /\ late = {}
  /\ questions = <<>>
  /\ used = {} /\ returned = {}
  /\ overlap = FALSE

-------------------------------------------------------------------------------
(* connect *)

\* What the tab has sent may still arrive.
MayArrive(t) ==
  late' \in {late} \cup {late \cup {s} : s \in {tab[t].sent} \ {None}}

\* The tab is closed, or dies, and the page is opened again.
Reload(t) ==
  /\ tab[t] # Loading
  /\ tab' = [tab EXCEPT ![t] = Loading]
  /\ polls' = {p \in polls : p.tab # t}
  /\ IF tab[t].reply = "none" THEN MayArrive(t) ELSE UNCHANGED late
  /\ UNCHANGED <<outbox, questions, used, returned, overlap>>

Connect(t) ==
  /\ Idle(t) /\ "reconnect" \in tab[t].controls
  /\ Begins(t, "session", None, tab[t].controls \ {"reconnect"})
  /\ UNCHANGED <<outbox, late, questions, used, returned, overlap>>

\* There is a session: what is in the outbox is delivered first.
SessionReady(t) ==
  /\ tab[t].step = "session"
  /\ IF outbox = None
     THEN Reads(t) /\ UNCHANGED overlap
     ELSE /\ tab' = [tab EXCEPT ![t] = [@ EXCEPT !.step = "posting", !.sent = outbox]]
          /\ Delivers(t)
          /\ UNCHANGED polls
  /\ UNCHANGED <<outbox, late, questions, used, returned>>

SessionFails(t) ==
  /\ tab[t].step = "session"
  /\ Fails(t)
  /\ UNCHANGED <<outbox, polls, late, questions, used, returned, overlap>>

-------------------------------------------------------------------------------
(* The form *)

\* The text is typed, or it is the latest question's, asked again.
Submit(t, s) ==
  /\ Idle(t) /\ tab[t].controls \cap {"send", "again"} # {}
  /\ outbox = None
  /\ s \notin used
  /\ used' = used \cup {s}
  /\ outbox' = s
  /\ Begins(t, "posting", s, tab[t].controls \ {"send", "again"})
  /\ Delivers(t)
  /\ UNCHANGED <<late, questions, returned>>

\* An earlier delivery was accepted.
Saved(s) == \E i \in DOMAIN questions : questions[i].id = s

Accepts(s) == Saved(s) \/ (s \notin Invalid /\ ~Pending(questions))

Saves(s) ==
  questions' = IF Saved(s) \/ ~Accepts(s) THEN questions
               ELSE Append(questions, [id |-> s, status |-> "pending"])

Receive(t) ==
  /\ tab[t].step = "posting" /\ tab[t].reply = "none"
  /\ Saves(tab[t].sent)
  /\ tab' = [tab EXCEPT ![t].reply = IF Accepts(tab[t].sent) THEN "accepted" ELSE "rejected"]
  /\ UNCHANGED <<outbox, polls, late, used, returned, overlap>>

ReceiveLate(s) ==
  /\ s \in late
  /\ Saves(s)
  /\ late' = late \ {s}
  /\ UNCHANGED <<outbox, tab, polls, used, returned, overlap>>

\* Whatever the outbox holds now is removed.
Accepted(t) ==
  /\ tab[t].step = "posting" /\ tab[t].reply = "accepted"
  /\ outbox' = None
  /\ Reads(t)
  /\ UNCHANGED <<late, questions, used, returned, overlap>>

\* The text can be edited and is sent with another identifier.
Rejected(t) ==
  /\ tab[t].step = "posting" /\ tab[t].reply = "rejected"
  /\ outbox' = None
  /\ returned' = returned \cup {tab[t].sent}
  /\ Fails(t)
  /\ UNCHANGED <<polls, late, questions, used, overlap>>

\* Variant of AfterFailure: the outbox is cleared whatever went wrong.
Cleared == None

AfterFailure == outbox

\* No answer within ten seconds, or one that decides nothing.
PostFails(t) ==
  /\ tab[t].step = "posting"
  /\ outbox' = AfterFailure
  /\ IF tab[t].reply = "none" THEN MayArrive(t) ELSE UNCHANGED late
  /\ Fails(t)
  /\ UNCHANGED <<polls, questions, used, returned, overlap>>

-------------------------------------------------------------------------------
(* Cancellation *)

Cancel(t) ==
  /\ Idle(t) /\ "cancel" \in tab[t].controls
  /\ Begins(t, "cancelling", None, tab[t].controls \ {"cancel"})
  /\ UNCHANGED <<outbox, late, questions, used, returned, overlap>>

\* The question that was rendered last, if it is still pending.
Ended(s, status) ==
  [i \in DOMAIN questions |->
     IF questions[i].id = s /\ questions[i].status = "pending"
     THEN [questions[i] EXCEPT !.status = status] ELSE questions[i]]

Latest(t) == tab[t].view[Len(tab[t].view)].id

Cancelled(t) ==
  /\ tab[t].step = "cancelling"
  /\ questions' = Ended(Latest(t), "ended")
  /\ Reads(t)
  /\ UNCHANGED <<outbox, late, used, returned, overlap>>

CancelFails(t) ==
  /\ tab[t].step = "cancelling"
  /\ questions' \in {questions, Ended(Latest(t), "ended")}
  /\ Fails(t)
  /\ UNCHANGED <<outbox, polls, late, used, returned, overlap>>

-------------------------------------------------------------------------------
(* refresh *)

TimerFires(t) ==
  /\ tab[t].timer
  /\ tab' = [tab EXCEPT ![t].timer = FALSE]
  /\ polls' = polls \cup {Poll(t)}
  /\ UNCHANGED <<outbox, late, questions, used, returned, overlap>>

PollReads(p) ==
  /\ p \in polls /\ ~p.read
  /\ polls' = (polls \ {p}) \cup {[p EXCEPT !.read = TRUE, !.view = questions]}
  /\ UNCHANGED <<outbox, tab, late, questions, used, returned, overlap>>

\* A refresh that an interaction awaits ends it.
PollArrives(p) ==
  /\ p \in polls /\ p.read
  /\ polls' = polls \ {p}
  /\ tab' = [tab EXCEPT ![p.tab].step = IF @ = "reading" THEN "idle" ELSE @,
                        ![p.tab].view = p.view, ![p.tab].controls = Rendered(p.view),
                        ![p.tab].timer = TRUE]
  /\ UNCHANGED <<outbox, late, questions, used, returned, overlap>>

PollFails(p) ==
  /\ p \in polls
  /\ polls' = polls \ {p}
  /\ Fails(p.tab)
  /\ UNCHANGED <<outbox, late, questions, used, returned, overlap>>

-------------------------------------------------------------------------------

\* A worker, the maintenance loop, or a cancellation whose tab no longer waits.
EndQuestion ==
  /\ Pending(questions)
  /\ \E status \in {"ended", "failed"} :
       questions' = Ended(questions[Len(questions)].id, status)
  /\ UNCHANGED <<outbox, tab, polls, late, used, returned, overlap>>

TabStep(t) ==
  \/ Reload(t) \/ Connect(t) \/ SessionReady(t) \/ SessionFails(t)
  \/ (\E s \in Submissions : Submit(t, s))
  \/ Receive(t) \/ Accepted(t) \/ Rejected(t) \/ PostFails(t)
  \/ Cancel(t) \/ Cancelled(t) \/ CancelFails(t)
  \/ TimerFires(t)

Next ==
  \/ \E t \in Tabs : TabStep(t)
  \/ \E p \in polls : PollReads(p) \/ PollArrives(p) \/ PollFails(p)
  \/ \E s \in late : ReceiveLate(s)
  \/ EndQuestion

Spec == Init /\ [][Next]_vars

-------------------------------------------------------------------------------
(* Properties *)

\* Unless two tabs have delivered at once, a submission is in the outbox until
\* the API has saved it or has given it back to be edited: tabs that are closed,
\* lost answers and late deliveries do not lose what was typed.
SubmissionSurvives ==
  ~overlap => \A s \in used : Saved(s) \/ s \in returned \/ s = outbox

\* A tab that is not busy has exactly one way on: its timer, one poll whose
\* answer counts, or the button that connects again.  A busy one has no timer
\* that could fire into the interaction.
OneWayOn ==
  \A t \in Tabs :
    LET counting == {p \in polls : p.tab = t}
        reconnect == "reconnect" \in tab[t].controls
        one == IF tab[t].timer THEN counting = {} /\ ~reconnect
               ELSE IF reconnect THEN counting = {} ELSE Cardinality(counting) = 1
    IN  IF Idle(t) THEN one ELSE ~tab[t].timer

Follows(new, old) ==
  /\ Len(old) <= Len(new)
  /\ \A i \in DOMAIN old :
       new[i].id = old[i].id /\ (old[i].status # "pending" => new[i] = old[i])

\* What a tab shows never goes back to an older state: no question vanishes from
\* it and no ended one is pending again, whatever order answers arrive in.
ViewOnlyAdvances ==
  [][\A t \in Tabs : tab'[t] # Loading => Follows(tab'[t].view, tab[t].view)]_vars

\* Expectation, refuted by TLC: the same without the exception.  A tab whose
\* submission is acknowledged removes the one that another tab has stored since.
OutboxIsKept == \A s \in used : Saved(s) \/ s \in returned \/ s = outbox
================================================================================
