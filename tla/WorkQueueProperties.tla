------------------------- MODULE WorkQueueProperties -------------------------
(***************************************************************************)
(* What the work queue promises, about the states and steps of WorkQueue.  *)
(***************************************************************************)
EXTENDS WorkQueue

ColumnDomains ==
  /\ now \in Nat \ {0}
  /\ question \in [Questions -> QuestionRows]
  /\ work \in [Questions -> WorkRows]
  /\ attempts \in [AttemptIds -> Outcomes]
  /\ leases \in [AttemptIds -> Nat]
  /\ breaker \in BreakerRows
  /\ worker \in [Workers -> WorkerStates]

BlankRows ==
  \A q \in Questions :
    /\ question[q].status = "absent" => question[q] = AbsentQuestion
    /\ ~work[q].present => work[q] = NoWork

\* Every column holds a value of its domain, and a row that does not exist
\* holds nothing.
TypeOK == ColumnDomains /\ BlankRows

-------------------------------------------------------------------------------
(* Invariants *)

\* Durable acceptance and its end: a question has a work row exactly while it
\* is waiting or processing, so nothing pending is lost to the workers and
\* nothing terminal is worked on again.
WorkIffPending ==
  \A q \in Questions : work[q].present <=> question[q].status \in Pending

\* One owner: a question is processing exactly when an attempt stands on its
\* work row, that attempt is the newest one, and it is the only attempt of
\* the question whose outcome is still open.
OneOwner ==
  /\ \A q \in Questions :
       /\ question[q].status = "processing" <=> work[q].attempt # NoAttempt
       /\ work[q].attempt # NoAttempt =>
            work[q].attempt = <<q, question[q].attempt_count>>
  /\ \A a \in AttemptIds :
       attempts[a] = "processing" <=> work[QuestionOf(a)].attempt = a

\* The two copies of a lease agree: an unexpired slot belongs to the attempt
\* on the work row and lapses with its lease, and an attempt with an unexpired
\* lease holds a slot, unless it has renewed a lease that ran out during the
\* renewal: the slot may then be gone (work_queue.py:121).  claim, renew, finish,
\* cancel and expire each update work and inference_leases in separate statements.
SlotIffOwner ==
  \A a \in AttemptIds :
    LET row == work[QuestionOf(a)] IN
      /\ leases[a] > now => row.attempt = a /\ row.lease = leases[a]
      /\ row.attempt = a /\ row.lease > now => leases[a] = row.lease \/ row.late

\* The global inference budget: owners with an unexpired lease are no more than
\* there are slots, however many workers there are and whatever they crash at,
\* but for those whose renewal ended after the lease it renewed.
LiveOwners ==
  {a \in AttemptIds :
     work[QuestionOf(a)].attempt = a /\ work[QuestionOf(a)].lease > now}

LateOwners == {a \in LiveOwners : work[QuestionOf(a)].late}

SlotBudget == Cardinality(LiveOwners \ LateOwners) <= SlotLimit

\* The budget of a question cannot be reset or overdrawn: its counters agree
\* with the attempts table.  Numbers up to attempt_count are attempts that
\* ran, the next one may be an attempt that was refused admission, and
\* recovery_count counts the attempts that were abandoned.
AttemptLedger ==
  \A q \in Questions :
    /\ question[q].attempt_count <= MaxAttempts
    /\ \A n \in Numbers :
         LET outcome == attempts[<<q, n>>] IN
           /\ n <= question[q].attempt_count => outcome \notin {"none", "admission_wait"}
           /\ n = question[q].attempt_count + 1 => outcome \in {"none", "admission_wait"}
           /\ n > question[q].attempt_count + 1 => outcome = "none"
    /\ question[q].recovery_count =
         Cardinality({n \in Numbers : attempts[<<q, n>>] = "abandoned"})

\* At most one authoritative answer: an answer is saved exactly with the
\* completed status, it is the answer of the newest attempt, and no other
\* attempt of the question is recorded as completed.
AnswerAuthority ==
  /\ \A q \in Questions :
       /\ question[q].status = "completed" <=> question[q].answer # NoAttempt
       /\ question[q].answer # NoAttempt =>
            question[q].answer = <<q, question[q].attempt_count>>
  /\ \A a \in AttemptIds :
       attempts[a] = "completed" <=> question[QuestionOf(a)].answer = a

\* Neither a lease, nor a slot, nor a backoff reaches past the deadline: at the
\* deadline the question can be claimed, and no attempt can own it.
WithinDeadline ==
  /\ \A q \in Questions : work[q].present =>
       work[q].lease <= question[q].deadline /\ work[q].available <= question[q].deadline
  /\ \A a \in AttemptIds : leases[a] <= question[QuestionOf(a)].deadline

\* The breaker row is coherent: a probe is named exactly while half open, it is
\* not closed only after the threshold was met, and then the time of opening
\* is known and not in the future.
BreakerCoherent ==
  /\ breaker.state = "half_open" <=> breaker.probe # NoAttempt
  /\ breaker.state = "closed" <=> breaker.openedAt = NoTime
  /\ breaker.state = "closed" <=> breaker.failures < FailureThreshold
  /\ breaker.openedAt <= now

\* The recorded reason is true: a question that failed for its attempts used
\* the whole budget, one that expired has reached its deadline, and a
\* completed one carries no error.
ReasonIsTrue ==
  \A q \in Questions :
    /\ question[q].last_error = "attempts_exhausted" =>
         /\ question[q].status = "failed"
         /\ question[q].attempt_count = MaxAttempts
    /\ question[q].status = "expired" =>
         question[q].deadline <= now /\ question[q].last_error = "deadline_exceeded"
    /\ question[q].status = "completed" => question[q].last_error = "none"

-------------------------------------------------------------------------------
(* Action properties *)

\* The first terminal outcome wins: no later claim, finish, cancellation or
\* expiry changes a terminal question or puts it back to work.
TerminalIsFinal ==
  [][\A q \in Questions : question[q].status \in Terminal =>
       question'[q] = question[q] /\ work'[q] = NoWork]_vars

\* An attempt that has an outcome keeps it: an obsolete worker that comes back
\* after its question was reclaimed, cancelled or expired changes nothing.
ClosedAttemptIsFinal ==
  [][\A a \in AttemptIds : attempts[a] \notin {"none", "processing"} =>
       attempts'[a] = attempts[a]]_vars

\* An answer is saved only before the deadline, by the attempt that owns the
\* question, and under its unexpired lease, however often it was renewed.
SavedInTime ==
  [][\A a \in AttemptIds : attempts[a] # "completed" /\ attempts'[a] = "completed" =>
       LET q == QuestionOf(a) IN
         /\ now < question[q].deadline
         /\ work[q].attempt = a
         /\ now < work[q].lease]_vars

\* The breaker holds admissions back: while it is not closed a slot is granted
\* only to a probe, only once the pause since the opening is over, and never
\* beside a probe whose slot still runs.
BreakerAdmitsOnlyProbe ==
  [][\A a \in AttemptIds :
       (breaker.state # "closed" /\ leases[a] = NoTime /\ leases'[a] # NoTime) =>
         /\ breaker'.probe = a
         /\ now >= breaker.openedAt + OpenSeconds
         /\ breaker.probe # NoAttempt => leases[breaker.probe] <= now]_vars

-------------------------------------------------------------------------------
(* Liveness *)

\* Every accepted question ends, at the latest by expiry, though every worker
\* may be down for good.
EveryQuestionEnds ==
  \A q \in Questions :
    question[q].status \in Pending ~> question[q].status \in Terminal

-------------------------------------------------------------------------------
(* What the documents promise and the code does not keep *)

\* A question refused a slot can be tried again: the number its next attempt
\* will take is free.
RefusedAdmissionIsRetryable ==
  \A q \in Questions :
    question[q].status = "waiting" => attempts[NextAttempt(q)] = "none"

\* The breaker closes only when its probe has succeeded.
ClosesOnProbeSuccess ==
  [][(breaker.state # "closed" /\ breaker'.state = "closed") =>
       /\ breaker.probe # NoAttempt
       /\ attempts'[breaker.probe] = "completed"]_vars

\* A reopened breaker pauses again before the next probe.
ProbeAfterPause ==
  breaker.state = "half_open" => breaker.openedAt + OpenSeconds <= now

-------------------------------------------------------------------------------
(* Refinement: what a shopper can tell *)

Lifecycle ==
  INSTANCE QuestionLifecycle WITH
    Tokens <- AttemptIds, NoToken <- NoAttempt,
    status <- [q \in Questions |-> question[q].status],
    owner <- [q \in Questions |-> work[q].attempt],
    answer <- [q \in Questions |-> question[q].answer],
    spent <- {a \in AttemptIds : attempts[a] \notin {"none", "processing"}}

\* The queue implements the lifecycle of questions.
ImplementsLifecycle == Lifecycle!Spec
===============================================================================
