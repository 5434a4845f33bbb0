--------------------------- MODULE WorkQueue_proofs ---------------------------
(***************************************************************************)
(* Proofs about WorkQueue, for any questions, workers, budgets and times.  *)
(***************************************************************************)
EXTENDS WorkQueueProperties, FiniteSetTheorems, TLAPS

-------------------------------------------------------------------------------
(* The operators of InferenceControl keep the domains of their tables *)

LEMMA AttemptIdType ==
  ASSUME NEW a \in AttemptIds
  PROVE  /\ QuestionOf(a) \in Questions
         /\ NumberOf(a) \in Numbers
         /\ a = <<QuestionOf(a), NumberOf(a)>>
         /\ a # NoAttempt
  BY ConstantsAssumption DEF AttemptIds, QuestionOf, NumberOf

LEMMA TryAcquireType ==
  ASSUME NEW L \in [AttemptIds -> Nat], NEW B \in BreakerRows,
         NEW a \in AttemptIds, NEW expiry \in Nat, NEW t \in Nat
  PROVE  /\ TryAcquire(L, B, a, expiry, t).leases \in [AttemptIds -> Nat]
         /\ TryAcquire(L, B, a, expiry, t).breaker \in BreakerRows
  <1> DEFINE kept == PurgeLapsed(L, t)
             row == ReopenIfProbeLost(kept, B, t)
  <1>1. kept \in [AttemptIds -> Nat]
    BY DEF PurgeLapsed, NoTime
  <1>2. row \in BreakerRows
    BY DEF ReopenIfProbeLost, BreakerRows, BreakerStates
  <1>3. [kept EXCEPT ![a] = expiry] \in [AttemptIds -> Nat]
    BY <1>1
  <1>4. [row EXCEPT !.state = "half_open", !.probe = a] \in BreakerRows
    BY <1>2 DEF BreakerRows, BreakerStates
  <1> HIDE DEF kept, row
  <1> QED
    BY <1>1, <1>2, <1>3, <1>4 DEF TryAcquire, kept, row

LEMMA AfterReleaseType ==
  ASSUME NEW B \in BreakerRows, NEW transient \in BOOLEAN, NEW t \in Nat
  PROVE  AfterRelease(B, transient, t) \in BreakerRows
  BY DEF AfterRelease, AfterTransient, ClosedBreaker, BreakerRows, BreakerStates, NoTime

LEMMA LeaseFromType ==
  ASSUME ColumnDomains, NEW q \in Questions, NEW t \in Nat
  PROVE  LeaseFrom(q, t) \in Nat /\ LeaseFrom(q, t) <= question[q].deadline
  BY ConstantsAssumption DEF LeaseFrom, MinTime, ColumnDomains, QuestionRows

LEMMA LeaseUntilType ==
  ASSUME ColumnDomains, NEW q \in Questions
  PROVE  LeaseUntil(q) \in Nat /\ LeaseUntil(q) <= question[q].deadline
  BY LeaseFromType DEF LeaseUntil, ColumnDomains

LEMMA NextAttemptType ==
  ASSUME ColumnDomains, NEW q \in Questions
  PROVE  NextAttempt(q) \in AttemptIds
  BY ConstantsAssumption DEF NextAttempt, AttemptIds, Numbers, ColumnDomains, QuestionRows

\* The work row that a claim leaves.
LEMMA ClaimRow ==
  ASSUME ColumnDomains, NEW q \in Questions, NEW a \in AttemptIds \cup {NoAttempt},
         NEW lease \in Nat,
         work' = [work EXCEPT ![q].attempt = a, ![q].lease = lease, ![q].late = FALSE]
  PROVE  /\ work' \in [Questions -> WorkRows]
         /\ work'[q].present = work[q].present
         /\ work'[q].attempt = a /\ work'[q].lease = lease /\ ~work'[q].late
         /\ \A r \in Questions \ {q} : work'[r] = work[r]
  <1>1. work \in [Questions -> WorkRows] /\ work[q] \in WorkRows
    BY DEF ColumnDomains
  <1>2. [work[q] EXCEPT !.attempt = a, !.lease = lease, !.late = FALSE] \in WorkRows
    BY <1>1 DEF WorkRows
  <1>3. work' = [work EXCEPT ![q] =
                   [work[q] EXCEPT !.attempt = a, !.lease = lease, !.late = FALSE]]
    BY <1>1, Zenon
  <1> QED
    BY <1>1, <1>2, <1>3 DEF WorkRows

LEMMA AbandonType ==
  ASSUME ColumnDomains, NEW q \in Questions
  PROVE  /\ Abandon(q) \in [AttemptIds -> Outcomes]
         /\ Recoveries(q) \in Nat
  BY DEF Abandon, Recoveries, ColumnDomains, Outcomes, WorkRows, QuestionRows

LEMMA BackoffType ==
  ASSUME NEW a \in AttemptIds, NEW delay \in Backoff(a)
  PROVE  delay \in Int
  BY DEF Backoff

LEMMA OwnersType ==
  ASSUME ColumnDomains, NEW ended \in SUBSET Questions
  PROVE  OwnersOf(ended) \in SUBSET AttemptIds
  BY DEF OwnersOf, ColumnDomains, WorkRows

LEMMA EndType ==
  ASSUME ColumnDomains, NEW ended \in SUBSET Questions,
         NEW status \in [Questions -> Terminal],
         End(ended, status), now' = now, worker' = worker
  PROVE  ColumnDomains'
  <1>1. question' \in [Questions -> QuestionRows]
    <2>1. ASSUME NEW q \in ended, NEW error \in Errors
          PROVE  [question[q] EXCEPT !.status = status[q], !.last_error = error]
                   \in QuestionRows
      BY ZenonT(30) DEF ColumnDomains, QuestionRows, Statuses
    <2>2. "deadline_exceeded" \in Errors /\ "none" \in Errors
      BY DEF Errors
    <2> QED
      BY <2>1, <2>2 DEF End, EndedQuestions, ColumnDomains
  <1>2. work' \in [Questions -> WorkRows]
    BY DEF End, DropWork, NoWork, NoTime, ColumnDomains, WorkRows
  <1>3. attempts' \in [AttemptIds -> Outcomes]
    BY AttemptIdType DEF End, CloseAttempts, ColumnDomains, Outcomes
  <1>4. leases' \in [AttemptIds -> Nat]
    BY DEF End, FreeSlots, NoTime, ColumnDomains
  <1>5. breaker' \in BreakerRows
    BY AfterReleaseType DEF End, ColumnDomains
  <1> QED
    BY <1>1, <1>2, <1>3, <1>4, <1>5 DEF ColumnDomains

-------------------------------------------------------------------------------
(* Renewals *)

\* A worker that renews or finishes holds an attempt of a known question.
LEMMA ClaimType ==
  ASSUME ColumnDomains, NEW w \in Workers,
         worker[w].renewing \/ worker[w].mode = "running" \/ worker[w].since # NoTime
  PROVE  /\ worker[w].claim \in AttemptIds
         /\ QuestionOf(worker[w].claim) \in Questions
  BY AttemptIdType DEF ColumnDomains, WorkerStates, Idle, Down

OpenStates == [mode : {"running"}, claim : AttemptIds, renewing : BOOLEAN, since : Nat]

LEMMA ClosingType ==
  ASSUME ColumnDomains, NEW w \in Workers, worker[w].since # NoTime
  PROVE  [worker[w] EXCEPT !.since = NoTime] \in WorkerStates
  <1>1. worker[w] \in OpenStates
    BY DEF ColumnDomains, WorkerStates, OpenStates, Idle, Down
  <1> QED
    BY <1>1 DEF WorkerStates, OpenStates, NoTime

\* What a renewal leaves in the tables when it ends.
Renewed(w, until) ==
  LET a == worker[w].claim
      q == QuestionOf(a)
  IN  /\ until <= question[q].deadline
      /\ work' = [work EXCEPT ![q].lease = until, ![q].late = @ \/ work[q].lease <= now]
      /\ leases' = ExtendSlot(leases, a, until)
      /\ UNCHANGED <<now, question, attempts, breaker>>

LEMMA RenewalWrites ==
  ASSUME ColumnDomains, NEW w \in Workers, RenewCommits(w)
  PROVE  \E until \in Nat : Renewed(w, until)
  <1> DEFINE q == QuestionOf(worker[w].claim)
  <1>1. q \in Questions /\ worker[w].since \in Nat /\ now \in Nat
    BY ClaimType DEF RenewCommits, ColumnDomains, WorkerStates, Idle, Down, NoTime
  <1>2. PICK t \in worker[w].since .. now :
          /\ work' = [work EXCEPT ![q].lease = LeaseFrom(q, t),
                                  ![q].late = @ \/ work[q].lease <= now]
          /\ leases' = ExtendSlot(leases, worker[w].claim, LeaseFrom(q, t))
    BY DEF RenewCommits
  <1>3. t \in Nat
    BY <1>1
  <1>4. LeaseFrom(q, t) \in Nat /\ LeaseFrom(q, t) <= question[q].deadline
    BY <1>1, <1>3, LeaseFromType
  <1>5. Renewed(w, LeaseFrom(q, t))
    BY <1>2, <1>4 DEF Renewed, RenewCommits
  <1> QED
    BY <1>4, <1>5

\* The row it leaves.
LEMMA RenewalRow ==
  ASSUME ColumnDomains, NEW w \in Workers, worker[w].since # NoTime,
         NEW until \in Nat, Renewed(w, until)
  PROVE  LET q == QuestionOf(worker[w].claim) IN
           /\ work' \in [Questions -> WorkRows]
           /\ work'[q].present = work[q].present
           /\ work'[q].attempt = work[q].attempt
           /\ work'[q].available = work[q].available
           /\ work'[q].lease = until
           /\ work'[q].late <=> work[q].late \/ work[q].lease <= now
           /\ \A r \in Questions \ {q} : work'[r] = work[r]
  <1> DEFINE q == QuestionOf(worker[w].claim)
  <1>1. q \in Questions /\ work \in [Questions -> WorkRows]
    BY ClaimType DEF ColumnDomains
  <1>2. PICK late \in BOOLEAN : late = (work[q].late \/ work[q].lease <= now)
    BY Zenon
  <1>3. work' = [work EXCEPT ![q] = [work[q] EXCEPT !.lease = until, !.late = late]]
    BY <1>1, <1>2, Zenon DEF Renewed
  <1>4. work[q] \in WorkRows
    BY <1>1
  <1>5. [work[q] EXCEPT !.lease = until, !.late = late] \in WorkRows
    BY <1>4 DEF WorkRows
  <1> HIDE DEF q
  <1> QED
    BY <1>1, <1>2, <1>3, <1>4, <1>5 DEF q, WorkRows

-------------------------------------------------------------------------------
(* Every column keeps its domain *)

LEMMA InitType == Init => ColumnDomains
  BY ConstantsAssumption
  DEF Init, ColumnDomains, AbsentQuestion, NoWork, ClosedBreaker, Idle, QuestionRows, WorkRows,
      BreakerRows, BreakerStates, WorkerStates, Statuses, Outcomes, Errors, NoTime

LEMMA NextType == ColumnDomains /\ [Next]_vars => ColumnDomains'
  <1> SUFFICES ASSUME ColumnDomains, [Next]_vars PROVE ColumnDomains'
    OBVIOUS
  <1> USE DEF tables
  <1>1. ASSUME NEW q \in Questions, Submit(q) PROVE ColumnDomains'
    <2>1. now + Lifetime \in Nat
      BY ConstantsAssumption DEF ColumnDomains
    <2>2. NewQuestion(now + Lifetime) \in QuestionRows
      BY <2>1, ConstantsAssumption DEF NewQuestion, QuestionRows, Statuses, Pending, Errors
    <2>3. Unowned(now) \in WorkRows
      BY DEF ColumnDomains, Unowned, WorkRows, NoTime
    <2> QED
      BY <1>1, <2>2, <2>3 DEF Submit, ColumnDomains
  <1>2. ASSUME NEW q \in Questions, Cancel(q) PROVE ColumnDomains'
    <2> DEFINE status == [r \in Questions |-> IF OutOfTime(r) THEN "expired" ELSE "cancelled"]
    <2>1. status \in [Questions -> Terminal]
      BY DEF Terminal
    <2>2. End({q}, status) /\ now' = now /\ worker' = worker
      BY <1>2 DEF Cancel
    <2> HIDE DEF status
    <2> QED
      BY <2>1, <2>2, EndType
  <1>3. ASSUME Expire PROVE ColumnDomains'
    <2> DEFINE status == [r \in Questions |-> "expired"]
    <2>1. status \in [Questions -> Terminal]
      BY DEF Terminal
    <2>2. PICK batch \in SUBSET Questions :
            End(batch, status) /\ now' = now /\ worker' = worker
      BY <1>3 DEF Expire
    <2> HIDE DEF status
    <2> QED
      BY <2>1, <2>2, EndType
  <1>4. ASSUME Tick PROVE ColumnDomains'
    BY <1>4 DEF Tick, ColumnDomains
  <1>5. ASSUME NEW w \in Workers, WorkerStep(w) PROVE ColumnDomains'
    <2>1. ASSUME NEW q \in Questions, ClaimEnds(w, q) PROVE ColumnDomains'
      <3>1. ASSUME NEW status \in Terminal, NEW error \in Errors, NEW n \in Nat
            PROVE  [question EXCEPT ![q].status = status, ![q].last_error = error,
                                    ![q].recovery_count = n]
                     \in [Questions -> QuestionRows]
        <4>1. [question[q] EXCEPT !.status = status, !.last_error = error,
                                  !.recovery_count = n] \in QuestionRows
          BY DEF ColumnDomains, QuestionRows, Statuses
        <4> QED
          BY <4>1 DEF ColumnDomains
      <3>2. {"expired", "failed"} \subseteq Terminal
            /\ {"deadline_exceeded", "attempts_exhausted"} \subseteq Errors
        BY DEF Terminal, Errors
      <3>3. question' \in [Questions -> QuestionRows]
        BY <2>1, <3>1, <3>2, AbandonType DEF ClaimEnds
      <3>4. NoWork \in WorkRows
        BY DEF NoWork, WorkRows, NoTime
      <3> QED
        BY <2>1, <3>3, <3>4, AbandonType DEF ClaimEnds, ColumnDomains
    <2>2. ASSUME NEW q \in Questions, ClaimCollides(w, q) PROVE ColumnDomains'
      BY <2>2 DEF ClaimCollides, ColumnDomains, WorkerStates
    <2>3. ASSUME NEW q \in Questions, Contends(w, q)
          PROVE  leases' \in [AttemptIds -> Nat] /\ breaker' \in BreakerRows
      BY <2>3, NextAttemptType, LeaseUntilType, TryAcquireType DEF Contends, Acquired, ColumnDomains
    <2>4. ASSUME NEW q \in Questions, ClaimStarts(w, q) PROVE ColumnDomains'
      <3>1. leases' \in [AttemptIds -> Nat] /\ breaker' \in BreakerRows
        BY <2>3, <2>4 DEF ClaimStarts
      <3>2. question' \in [Questions -> QuestionRows]
        BY <2>4, AbandonType, ConstantsAssumption
        DEF ClaimStarts, Contends, OutOfAttempts, ColumnDomains, QuestionRows, Statuses, Pending
      <3>3. work' \in [Questions -> WorkRows]
        BY <2>4, NextAttemptType, LeaseUntilType, ClaimRow DEF ClaimStarts
      <3>4. attempts' \in [AttemptIds -> Outcomes]
        BY <2>4, AbandonType DEF ClaimStarts, Outcomes
      <3>5. worker' \in [Workers -> WorkerStates]
        BY <2>4, NextAttemptType DEF ClaimStarts, ColumnDomains, WorkerStates, Running, NoTime
      <3> QED
        BY <3>1, <3>2, <3>3, <3>4, <3>5, <2>4 DEF ClaimStarts, ColumnDomains
    <2>5. ASSUME NEW q \in Questions, ClaimWaits(w, q) PROVE ColumnDomains'
      <3>1. leases' \in [AttemptIds -> Nat] /\ breaker' \in BreakerRows
        BY <2>3, <2>5 DEF ClaimWaits
      <3>2. question' \in [Questions -> QuestionRows]
        BY ZenonT(30), <2>5, AbandonType DEF ClaimWaits, ColumnDomains, QuestionRows, Statuses, Pending
      <3>3. work' \in [Questions -> WorkRows]
        BY <2>5, ClaimRow DEF ClaimWaits, NoTime
      <3>4. attempts' \in [AttemptIds -> Outcomes]
        BY <2>5, AbandonType DEF ClaimWaits, Outcomes
      <3> QED
        BY <3>1, <3>2, <3>3, <3>4, <2>5 DEF ClaimWaits, ColumnDomains
    <2>6. worker[w].renewing \/ worker[w].mode = "running" =>
            /\ worker[w].claim \in AttemptIds
            /\ QuestionOf(worker[w].claim) \in Questions
      BY ClaimType
    <2>7. ASSUME RenewCommits(w) PROVE ColumnDomains'
      <3> DEFINE a == worker[w].claim
      <3>1. PICK until \in Nat : Renewed(w, until)
        BY <2>7, RenewalWrites
      <3>2. a \in AttemptIds /\ QuestionOf(a) \in Questions
        BY <2>7, ClaimType DEF RenewCommits
      <3>3. work' \in [Questions -> WorkRows]
        BY <2>7, <3>1, RenewalRow DEF RenewCommits
      <3>4. leases' \in [AttemptIds -> Nat]
        BY <3>1, <3>2 DEF Renewed, ColumnDomains, ExtendSlot
      <3>5. worker' \in [Workers -> WorkerStates]
        BY <2>7, ClosingType DEF RenewCommits, ColumnDomains
      <3> QED
        BY <3>1, <3>3, <3>4, <3>5 DEF Renewed, ColumnDomains
    <2>8. ASSUME RenewBegins(w) \/ HeartbeatStops(w) PROVE ColumnDomains'
      <3>1. worker[w] \in OpenStates
        BY <2>8 DEF RenewBegins, HeartbeatStops, ColumnDomains, WorkerStates, OpenStates, Idle, Down
      <3>2. /\ [worker[w] EXCEPT !.renewing = FALSE, !.since = NoTime] \in WorkerStates
            /\ [worker[w] EXCEPT !.since = now] \in WorkerStates
        BY <3>1 DEF WorkerStates, OpenStates, NoTime, ColumnDomains
      <3>3. worker' \in [Workers -> WorkerStates]
        BY <2>8, <3>2 DEF RenewBegins, HeartbeatStops, ColumnDomains
      <3> QED
        BY <2>8, <3>3 DEF RenewBegins, HeartbeatStops, ColumnDomains
    <2>9. ASSUME FinishRefused(w) PROVE ColumnDomains'
      BY <2>9 DEF FinishRefused, FinishedWorker, ColumnDomains, WorkerStates
    <2>10. ASSUME FinishRetries(w) PROVE ColumnDomains'
      <3> DEFINE a == worker[w].claim
                 q == QuestionOf(a)
      <3>1. a \in AttemptIds /\ q \in Questions
        BY <2>6, <2>10 DEF FinishRetries, Finishes
      <3>2. question' \in [Questions -> QuestionRows]
        BY <2>10, <3>1 DEF FinishRetries, ColumnDomains, QuestionRows, Statuses, Pending, Errors
      <3>3. PICK delay \in Backoff(a) :
              work' = [work EXCEPT ![q] =
                         Unowned(MinTime(question[q].deadline, now + delay))]
        BY <2>10 DEF FinishRetries
      <3>4. MinTime(question[q].deadline, now + delay) \in Int
        BY <3>1, BackoffType DEF ColumnDomains, QuestionRows, MinTime
      <3>5. work' \in [Questions -> WorkRows]
        BY <3>1, <3>3, <3>4 DEF ColumnDomains, Unowned, WorkRows, NoTime
      <3>6. attempts' \in [AttemptIds -> Outcomes] /\ leases' \in [AttemptIds -> Nat]
        BY <2>10, <3>1 DEF FinishRetries, FreeSlot, ColumnDomains, Outcomes, NoTime
      <3>7. breaker' \in BreakerRows
        BY <2>10, AfterReleaseType DEF FinishRetries, ColumnDomains
      <3>8. worker' \in [Workers -> WorkerStates] /\ now' = now
        BY <2>10 DEF FinishRetries, FinishedWorker, ColumnDomains, WorkerStates
      <3> QED
        BY <3>2, <3>5, <3>6, <3>7, <3>8 DEF ColumnDomains
    <2>11. ASSUME NEW result \in Results, FinishEnds(w, result) PROVE ColumnDomains'
      <3> DEFINE a == worker[w].claim
                 q == QuestionOf(a)
                 status == IF result = "answer" THEN "completed" ELSE "failed"
      <3>1. a \in AttemptIds /\ q \in Questions
        BY <2>6, <2>11 DEF FinishEnds, Finishes
      <3>2. status \in Terminal /\ FinalError(result) \in Errors
        BY DEF Terminal, FinalError, Errors, Results
      <3>3. question' \in [Questions -> QuestionRows]
        BY <2>11, <3>1, <3>2 DEF FinishEnds, ColumnDomains, QuestionRows, Statuses
      <3>4. work' \in [Questions -> WorkRows]
        BY <2>11, <3>1 DEF FinishEnds, ColumnDomains, WorkRows, NoWork, NoTime
      <3>5. attempts' \in [AttemptIds -> Outcomes] /\ leases' \in [AttemptIds -> Nat]
        BY <2>11, <3>1, <3>2 DEF FinishEnds, FreeSlot, ColumnDomains, Outcomes, NoTime
      <3>6. breaker' \in BreakerRows
        BY <2>11, AfterReleaseType DEF FinishEnds, ColumnDomains
      <3>7. worker' \in [Workers -> WorkerStates] /\ now' = now
        BY <2>11 DEF FinishEnds, FinishedWorker, ColumnDomains, WorkerStates
      <3> QED
        BY <3>3, <3>4, <3>5, <3>6, <3>7 DEF ColumnDomains
    <2>12. ASSUME WorkerCrash(w) \/ WorkerRestart(w) PROVE ColumnDomains'
      BY <2>12 DEF WorkerCrash, WorkerRestart, ColumnDomains, WorkerStates
    <2> QED
      BY <1>5, <2>1, <2>2, <2>4, <2>5, <2>7, <2>8, <2>9, <2>10, <2>11, <2>12 DEF WorkerStep
  <1>6. CASE UNCHANGED vars
    BY <1>6 DEF vars, ColumnDomains
  <1> QED
    BY <1>1, <1>2, <1>3, <1>4, <1>5, <1>6 DEF Next

-------------------------------------------------------------------------------
(* The steps, grouped by what they do to the tables *)

\* Cancel and Expire are both of this form.
EndStep(ended, status) ==
  /\ \A q \in ended : /\ question[q].status \in Pending
                      /\ status[q] = "expired" => OutOfTime(q)
  /\ End(ended, status)
  /\ UNCHANGED <<now, worker>>

Endings == [Questions -> {"expired", "cancelled"}]

LEMMA StepCases ==
  ASSUME [Next]_vars
  PROVE  \/ \E q \in Questions : Submit(q)
         \/ \E ended \in SUBSET Questions, status \in Endings : EndStep(ended, status)
         \/ \E w \in Workers, q \in Questions :
              ClaimEnds(w, q) \/ ClaimStarts(w, q) \/ ClaimWaits(w, q)
         \/ \E w \in Workers : RenewCommits(w) \/ FinishRetries(w)
         \/ \E w \in Workers, result \in Results : FinishEnds(w, result)
         \/ Tick
         \/ UNCHANGED <<now, tables>>
  <1>1. ASSUME NEW q \in Questions, Cancel(q)
        PROVE  \E ended \in SUBSET Questions, status \in Endings : EndStep(ended, status)
    <2> DEFINE status == [r \in Questions |-> IF OutOfTime(r) THEN "expired" ELSE "cancelled"]
    <2>1. status \in Endings /\ {q} \in SUBSET Questions
      BY DEF Endings
    <2>2. status[q] = "expired" => OutOfTime(q)
      OBVIOUS
    <2>3. question[q].status \in Pending /\ End({q}, status) /\ UNCHANGED <<now, worker>>
      BY <1>1 DEF Cancel
    <2> HIDE DEF status
    <2>4. EndStep({q}, status)
      BY <2>2, <2>3 DEF EndStep
    <2> QED
      BY <2>1, <2>4
  <1>2. ASSUME Expire
        PROVE  \E ended \in SUBSET Questions, status \in Endings : EndStep(ended, status)
    <2> DEFINE status == [r \in Questions |-> "expired"]
    <2>1. status \in Endings
      BY DEF Endings
    <2>2. PICK batch \in SUBSET {q \in Questions : Due(q) /\ ~Locked(q)} :
            End(batch, status) /\ UNCHANGED <<now, worker>>
      BY <1>2 DEF Expire
    <2> HIDE DEF status
    <2>3. batch \in SUBSET Questions /\ EndStep(batch, status)
      BY <2>2 DEF EndStep, Due
    <2> QED
      BY <2>1, <2>3
  <1>3. ASSUME NEW w \in Workers, WorkerStep(w)
        PROVE  \/ \E q \in Questions : ClaimEnds(w, q) \/ ClaimStarts(w, q) \/ ClaimWaits(w, q)
               \/ RenewCommits(w) \/ FinishRetries(w)
               \/ \E result \in Results : FinishEnds(w, result)
               \/ UNCHANGED <<now, tables>>
    BY <1>3
    DEF WorkerStep, ClaimCollides, RenewBegins, HeartbeatStops, FinishRefused, WorkerCrash,
        WorkerRestart, tables
  <1>4. CASE UNCHANGED vars
    BY <1>4 DEF vars, tables
  <1>5. CASE Next
    <2>1. CASE \E q \in Questions : Submit(q) \/ Cancel(q)
      BY <2>1, <1>1
    <2>2. CASE \E w \in Workers : WorkerStep(w)
      BY <2>2, <1>3
    <2>3. CASE Expire
      BY <2>3, <1>2
    <2> QED
      BY <1>5, <2>1, <2>2, <2>3 DEF Next
  <1> QED
    BY <1>4, <1>5

-------------------------------------------------------------------------------
(* Rows: what is pending has one, and open renewals keep theirs *)

LEMMA WorkIffPendingNext ==
  ASSUME ColumnDomains, WorkIffPending, [Next]_vars
  PROVE  WorkIffPending'
  <1> USE DEF ColumnDomains, WorkIffPending
  <1>1. ASSUME NEW q \in Questions, Submit(q) PROVE WorkIffPending'
    BY <1>1 DEF Submit, NewQuestion, Unowned, Pending
  <1>2. ASSUME NEW ended \in SUBSET Questions, NEW status \in Endings, EndStep(ended, status)
        PROVE  WorkIffPending'
    BY ZenonT(30), <1>2 DEF EndStep, End, EndedQuestions, DropWork, NoWork, Endings, Pending, QuestionRows
  <1>3. ASSUME NEW w \in Workers, NEW q \in Questions, ClaimEnds(w, q)
        PROVE  WorkIffPending'
    BY <1>3 DEF ClaimEnds, NoWork, Pending, QuestionRows
  <1>4. ASSUME NEW w \in Workers, NEW q \in Questions, ClaimStarts(w, q) \/ ClaimWaits(w, q)
        PROVE  WorkIffPending'
    <2>1. work[q].present /\ question'[q].status \in Pending
      BY <1>4 DEF ClaimStarts, ClaimWaits, Contends, Picks, Claimable, Pending, QuestionRows
    <2>2. work'[q].present
      BY <1>4, <2>1 DEF ClaimStarts, ClaimWaits, WorkRows
    <2>3. \A r \in Questions \ {q} : question'[r] = question[r] /\ work'[r] = work[r]
      BY <1>4 DEF ClaimStarts, ClaimWaits
    <2> QED
      BY <2>1, <2>2, <2>3
  <1>5. ASSUME NEW w \in Workers, RenewCommits(w) PROVE WorkIffPending'
    <2>1. PICK until \in Nat : Renewed(w, until)
      BY <1>5, RenewalWrites
    <2>2. \A q \in Questions : work'[q].present = work[q].present
      BY <1>5, <2>1, RenewalRow DEF RenewCommits
    <2> QED
      BY <2>1, <2>2 DEF Renewed
  <1>6. ASSUME NEW w \in Workers, FinishRetries(w) PROVE WorkIffPending'
    BY <1>6, ClaimType DEF FinishRetries, Finishes, Unowned, Pending, QuestionRows
  <1>7. ASSUME NEW w \in Workers, NEW result \in Results, FinishEnds(w, result)
        PROVE  WorkIffPending'
    BY <1>7, ClaimType DEF FinishEnds, Finishes, NoWork, Pending, QuestionRows
  <1>8. CASE Tick
    BY <1>8 DEF Tick, tables
  <1>9. CASE UNCHANGED <<now, tables>>
    BY <1>9 DEF tables
  <1> QED
    BY <1>1, <1>2, <1>3, <1>4, <1>5, <1>6, <1>7, <1>8, <1>9, StepCases

\* The work row of an open renewal stands, with the attempt that renews on it.
Renewals ==
  \A w \in Workers : worker[w].since # NoTime =>
    /\ work[QuestionOf(worker[w].claim)].present
    /\ work[QuestionOf(worker[w].claim)].attempt = worker[w].claim

\* Nobody else writes a work row that is locked.
LEMMA LockedRows ==
  ASSUME ColumnDomains, WorkIffPending, Renewals, [Next]_vars, NEW q \in Questions, Locked(q)
  PROVE  work'[q].present = work[q].present /\ work'[q].attempt = work[q].attempt
  <1> USE DEF tables
  <1>t. work \in [Questions -> WorkRows]
    BY DEF ColumnDomains
  <1>1. ASSUME NEW r \in Questions, Submit(r) PROVE work'[q] = work[q]
    <2>1. work[q].present /\ ~work[r].present
      BY <1>1 DEF Renewals, Locked, Submit, WorkIffPending, Pending
    <2> QED
      BY <1>t, <1>1, <2>1 DEF Submit
  <1>2. ASSUME NEW r \in Questions, Cancel(r) PROVE work'[q] = work[q]
    BY <1>2 DEF Cancel, End, DropWork
  <1>3. ASSUME Expire PROVE work'[q] = work[q]
    BY <1>3 DEF Expire, End, DropWork
  <1>4. ASSUME NEW w \in Workers, NEW r \in Questions,
               ClaimEnds(w, r) \/ ClaimCollides(w, r) \/ ClaimStarts(w, r) \/ ClaimWaits(w, r)
        PROVE  work'[q] = work[q]
    <2>1. r # q
      BY <1>4 DEF ClaimEnds, ClaimCollides, ClaimStarts, ClaimWaits, Contends, Picks, Claimable
    <2> QED
      BY <1>t, <1>4, <2>1 DEF ClaimEnds, ClaimCollides, ClaimStarts, ClaimWaits
  <1>5. ASSUME NEW w \in Workers, RenewCommits(w)
        PROVE  work'[q].present = work[q].present /\ work'[q].attempt = work[q].attempt
    BY <1>5, RenewalWrites, RenewalRow DEF RenewCommits
  <1>6. ASSUME NEW w \in Workers, NEW result \in Results, FinishRetries(w) \/ FinishEnds(w, result)
        PROVE  work'[q] = work[q]
    <2>1. QuestionOf(worker[w].claim) # q
      BY <1>6 DEF FinishRetries, FinishEnds, Finishes
    <2> QED
      BY <1>t, <1>6, <2>1 DEF FinishRetries, FinishEnds
  <1>7. CASE UNCHANGED work
    BY <1>7
  <1>8. ASSUME NEW w \in Workers, WorkerStep(w)
        PROVE  work'[q].present = work[q].present /\ work'[q].attempt = work[q].attempt
    <2>1. Results # {}
      BY DEF Results
    <2> QED
      BY <1>4, <1>5, <1>6, <1>7, <1>8, <2>1
      DEF WorkerStep, RenewBegins, HeartbeatStops, FinishRefused, WorkerCrash, WorkerRestart
  <1> QED
    BY <1>1, <1>2, <1>3, <1>7, <1>8 DEF Next, Tick, vars

\* A renewal that is open after a step was open before, or was begun.
LEMMA RenewalsOpen ==
  ASSUME ColumnDomains, [Next]_vars, NEW w \in Workers, worker'[w].since # NoTime
  PROVE  \/ worker[w].since # NoTime /\ worker'[w].claim = worker[w].claim
         \/ RenewBegins(w)
  <1>t. worker \in [Workers -> WorkerStates]
    BY DEF ColumnDomains
  <1>1. CASE worker' = worker
    BY <1>1
  <1>2. ASSUME NEW v \in Workers, WorkerStep(v)
        PROVE  \/ worker[w].since # NoTime /\ worker'[w].claim = worker[w].claim
               \/ RenewBegins(w)
    <2>1. CASE v # w
      <3>1. ASSUME NEW q \in Questions,
                   ClaimEnds(v, q) \/ ClaimCollides(v, q) \/ ClaimStarts(v, q) \/ ClaimWaits(v, q)
            PROVE  worker'[w] = worker[w]
        BY <1>t, <2>1, <3>1 DEF ClaimEnds, ClaimCollides, ClaimStarts, ClaimWaits
      <3>2. ASSUME RenewBegins(v) \/ RenewCommits(v) \/ HeartbeatStops(v)
            PROVE  worker'[w] = worker[w]
        BY <1>t, <2>1, <3>2 DEF RenewBegins, RenewCommits, HeartbeatStops
      <3>3. ASSUME NEW result \in Results,
                   FinishRefused(v) \/ FinishRetries(v) \/ FinishEnds(v, result)
            PROVE  worker'[w] = worker[w]
        BY <1>t, <2>1, <3>3 DEF FinishRefused, FinishRetries, FinishEnds, FinishedWorker
      <3>4. ASSUME WorkerCrash(v) \/ WorkerRestart(v)
            PROVE  worker'[w] = worker[w]
        BY <1>t, <2>1, <3>4 DEF WorkerCrash, WorkerRestart
      <3>5. Results # {}
        BY DEF Results
      <3> QED
        BY <1>2, <3>1, <3>2, <3>3, <3>4, <3>5 DEF WorkerStep
    <2>2. CASE v = w
      <3>1. CASE RenewBegins(w)
        BY <3>1
      <3>2. CASE \/ RenewCommits(w) \/ HeartbeatStops(w)
        <4>1. worker[w] \in OpenStates
          BY <1>t, <3>2
          DEF RenewCommits, HeartbeatStops, WorkerStates, OpenStates, Down, Idle
        <4>2. worker'[w] = [worker[w] EXCEPT !.since = NoTime]
                \/ worker'[w] = [worker[w] EXCEPT !.renewing = FALSE, !.since = NoTime]
          BY <1>t, <3>2 DEF RenewCommits, HeartbeatStops
        <4>3. worker'[w].since = NoTime
          BY <4>1, <4>2 DEF OpenStates
        <4> QED
          BY <4>3
      <3>3. CASE worker'[w] = Down \/ worker'[w] = Idle
        BY <3>3 DEF Down, Idle
      <3>4. CASE worker' = worker
        BY <3>4
      <3>5. ASSUME NEW q \in Questions, ClaimStarts(w, q) PROVE worker'[w].since = NoTime
        <4>1. worker'[w] = Running(NextAttempt(q))
          BY <1>t, <3>5 DEF ClaimStarts
        <4> QED
          BY <4>1 DEF Running
      <3> QED
        BY <1>t, <1>2, <2>2, <3>1, <3>2, <3>3, <3>4, <3>5
        DEF WorkerStep, ClaimEnds, ClaimCollides, ClaimWaits,
            FinishRefused, FinishRetries, FinishEnds, FinishedWorker, WorkerCrash,
            WorkerRestart
    <2> QED
      BY <2>1, <2>2
  <1> QED
    BY <1>1, <1>2 DEF Next, Submit, Cancel, Expire, Tick, vars

LEMMA RenewalsNext ==
  ASSUME ColumnDomains, WorkIffPending, Renewals, [Next]_vars
  PROVE  Renewals'
  <1> SUFFICES ASSUME NEW w \in Workers, worker'[w].since # NoTime
               PROVE  /\ work'[QuestionOf(worker'[w].claim)].present
                      /\ work'[QuestionOf(worker'[w].claim)].attempt = worker'[w].claim
    BY DEF Renewals, QuestionOf
  <1>1. CASE worker[w].since # NoTime /\ worker'[w].claim = worker[w].claim
    <2>1. QuestionOf(worker[w].claim) \in Questions /\ Locked(QuestionOf(worker[w].claim))
      BY <1>1, ClaimType DEF Locked
    <2> QED
      BY <1>1, <2>1, LockedRows DEF Renewals
  <1>2. CASE RenewBegins(w)
    <2>1. worker'[w].claim = worker[w].claim /\ work' = work
      BY <1>2 DEF RenewBegins, ColumnDomains, WorkerStates, tables
    <2> QED
      BY <1>2, <2>1 DEF RenewBegins, HoldsLease
  <1> QED
    BY <1>1, <1>2, RenewalsOpen

LEMMA BlankNext ==
  ASSUME ColumnDomains, Renewals, BlankRows, [Next]_vars
  PROVE  BlankRows'
  <1> USE DEF tables
  <1>1. ASSUME NEW q \in Questions, Submit(q) PROVE BlankRows'
    BY <1>1 DEF Submit, ColumnDomains, BlankRows, NewQuestion, Unowned
  <1>2. ASSUME NEW ended \in SUBSET Questions, NEW status \in [Questions -> Terminal],
               End(ended, status)
        PROVE  BlankRows'
    <2>1. ASSUME NEW q \in Questions, question'[q].status = "absent"
          PROVE  question'[q] = AbsentQuestion
      BY ZenonT(30), <1>2, <2>1 DEF End, EndedQuestions, ColumnDomains, QuestionRows, BlankRows, Terminal
    <2>2. ASSUME NEW q \in Questions, ~work'[q].present PROVE work'[q] = NoWork
      BY <1>2, <2>2 DEF End, DropWork, ColumnDomains, BlankRows
    <2> QED
      BY <2>1, <2>2 DEF BlankRows
  <1>3. ASSUME NEW q \in Questions, Cancel(q) PROVE BlankRows'
    <2> DEFINE status == [r \in Questions |-> IF OutOfTime(r) THEN "expired" ELSE "cancelled"]
    <2>1. status \in [Questions -> Terminal]
      BY DEF Terminal
    <2>2. End({q}, status)
      BY <1>3 DEF Cancel
    <2> HIDE DEF status
    <2> QED
      BY <1>2, <2>1, <2>2
  <1>4. ASSUME Expire PROVE BlankRows'
    <2> DEFINE status == [r \in Questions |-> "expired"]
    <2>1. status \in [Questions -> Terminal]
      BY DEF Terminal
    <2>2. PICK batch \in SUBSET Questions : End(batch, status)
      BY <1>4 DEF Expire
    <2> HIDE DEF status
    <2> QED
      BY <1>2, <2>1, <2>2
  <1>5. ASSUME NEW w \in Workers, WorkerStep(w) PROVE BlankRows'
    <2>1. ASSUME NEW q \in Questions, ClaimEnds(w, q) PROVE BlankRows'
      BY <2>1 DEF ClaimEnds, ColumnDomains, QuestionRows, BlankRows
    <2>2. ASSUME NEW q \in Questions, ClaimStarts(w, q) \/ ClaimWaits(w, q) PROVE BlankRows'
      <3>1. ASSUME NEW r \in Questions, question'[r].status = "absent"
            PROVE  question'[r] = AbsentQuestion
        <4>1. question'[q].status \in {"processing", "waiting"}
          BY <2>2 DEF ClaimStarts, ClaimWaits, ColumnDomains, QuestionRows
        <4>2. r # q
          BY <3>1, <4>1
        <4>3. question'[r] = question[r]
          BY <2>2, <4>2 DEF ClaimStarts, ClaimWaits, ColumnDomains
        <4> QED
          BY <3>1, <4>3 DEF BlankRows
      <3>2. ASSUME NEW r \in Questions, ~work'[r].present PROVE work'[r] = NoWork
        <4>1. work[q].present
          BY <2>2 DEF ClaimStarts, ClaimWaits, Contends, Picks, Claimable
        <4>2. work'[q].present /\ \A other \in Questions \ {q} : work'[other] = work[other]
          BY <2>2, <4>1 DEF ClaimStarts, ClaimWaits, ColumnDomains, WorkRows
        <4> QED
          BY <3>2, <4>2 DEF BlankRows
      <3> QED
        BY <3>1, <3>2 DEF BlankRows
    <2>3. ASSUME RenewCommits(w) PROVE BlankRows'
      <3>1. PICK until \in Nat : Renewed(w, until)
        BY <2>3, RenewalWrites
      <3>2. \A q \in Questions : work'[q] = work[q] \/ work'[q].present
        BY <2>3, <3>1, RenewalRow DEF RenewCommits, Renewals
      <3> QED
        BY <3>1, <3>2 DEF Renewed, BlankRows
    <2>4. ASSUME FinishRetries(w) PROVE BlankRows'
      BY <2>4 DEF FinishRetries, Unowned, ColumnDomains, QuestionRows, BlankRows
    <2>5. ASSUME NEW result \in Results, FinishEnds(w, result) PROVE BlankRows'
      BY <2>5 DEF FinishEnds, ColumnDomains, QuestionRows, BlankRows
    <2>6. ASSUME UNCHANGED tables PROVE BlankRows'
      BY <2>6 DEF BlankRows
    <2> QED
      BY <1>5, <2>1, <2>2, <2>3, <2>4, <2>5, <2>6
      DEF WorkerStep, ClaimCollides, RenewBegins, HeartbeatStops, FinishRefused, WorkerCrash, WorkerRestart
  <1>6. CASE UNCHANGED tables
    BY <1>6 DEF BlankRows
  <1> QED
    BY <1>1, <1>3, <1>4, <1>5, <1>6 DEF Next, Tick, vars

LEMMA RowsInvariant == Spec => [](TypeOK /\ WorkIffPending /\ Renewals)
  <1>1. Init => TypeOK /\ WorkIffPending /\ Renewals
    BY InitType
    DEF Init, TypeOK, BlankRows, WorkIffPending, Renewals, NoWork, AbsentQuestion, Pending, Idle
  <1>2. TypeOK /\ WorkIffPending /\ Renewals /\ [Next]_vars
          => (TypeOK /\ WorkIffPending /\ Renewals)'
    BY NextType, WorkIffPendingNext, RenewalsNext, BlankNext DEF TypeOK
  <1> QED
    BY <1>1, <1>2, PTL DEF Spec

\* Every column of every table, and the local state of every worker, keeps its
\* domain, the attempt budget of the attempt_count column included.
THEOREM TypeCorrect == Spec => []TypeOK
  BY RowsInvariant, PTL

-------------------------------------------------------------------------------
(* Ownership: the questions, work and attempts tables agree *)

Ownership == WorkIffPending /\ Renewals /\ OneOwner

LEMMA OwnerOfQuestion ==
  ASSUME ColumnDomains, OneOwner, NEW q \in Questions, NEW a \in AttemptIds,
         work[q].attempt = a
  PROVE  QuestionOf(a) = q /\ attempts[a] = "processing"
  BY AttemptIdType DEF OneOwner, QuestionOf

LEMMA AbandonValue ==
  ASSUME ColumnDomains, NEW q \in Questions
  PROVE  /\ Abandon(q) \in [AttemptIds -> Outcomes]
         /\ \A a \in AttemptIds :
              Abandon(q)[a] = IF work[q].attempt = a THEN "abandoned" ELSE attempts[a]
  <1>1. CASE work[q].attempt = NoAttempt
    BY <1>1, AbandonType, AttemptIdType DEF Abandon
  <1>2. CASE work[q].attempt # NoAttempt
    <2>1. work[q].attempt \in AttemptIds
      BY <1>2 DEF ColumnDomains, WorkRows
    <2> QED
      BY <1>2, <2>1, AbandonType DEF Abandon, ColumnDomains
  <1> QED
    BY <1>1, <1>2

LEMMA OwnersOfEnded ==
  ASSUME ColumnDomains, OneOwner, NEW ended \in SUBSET Questions, NEW a \in AttemptIds
  PROVE  a \in OwnersOf(ended) <=>
           QuestionOf(a) \in ended /\ work[QuestionOf(a)].attempt = a
  BY OwnerOfQuestion, AttemptIdType DEF OwnersOf

LEMMA OneOwnerNext ==
  ASSUME TypeOK, Ownership, [Next]_vars
  PROVE  OneOwner'
  <1> USE DEF TypeOK, ColumnDomains, Ownership
  <1>1. ASSUME NEW q \in Questions, Submit(q) PROVE OneOwner'
    <2>1. work[q].attempt = NoAttempt
      BY <1>1 DEF Submit, OneOwner
    <2> QED
      BY <1>1, <2>1, AttemptIdType
      DEF Submit, NewQuestion, Unowned, OneOwner
  <1>2. ASSUME NEW ended \in SUBSET Questions, NEW status \in Endings, EndStep(ended, status)
        PROVE  OneOwner'
    <2>1. \A q \in Questions :
            /\ q \in ended => question'[q].status # "processing"
                              /\ work'[q].attempt = NoAttempt
            /\ q \notin ended => question'[q] = question[q] /\ work'[q] = work[q]
      BY <1>2 DEF EndStep, End, EndedQuestions, DropWork, NoWork, Endings, QuestionRows
    <2>2. \A a \in AttemptIds :
            attempts'[a] = IF QuestionOf(a) \in ended /\ work[QuestionOf(a)].attempt = a
                           THEN status[QuestionOf(a)] ELSE attempts[a]
      BY <1>2, OwnersOfEnded DEF EndStep, End, CloseAttempts
    <2>3. \A a \in AttemptIds :
            attempts'[a] = "processing" <=> work'[QuestionOf(a)].attempt = a
      BY <2>1, <2>2, AttemptIdType DEF OneOwner, Endings
    <2> QED
      BY <2>1, <2>3 DEF OneOwner
  <1>3. ASSUME NEW w \in Workers, NEW q \in Questions, ClaimEnds(w, q)
        PROVE  OneOwner'
    <2>1. \A r \in Questions :
            /\ r = q => question'[r].status # "processing" /\ work'[r].attempt = NoAttempt
            /\ r # q => question'[r] = question[r] /\ work'[r] = work[r]
      BY <1>3 DEF ClaimEnds, NoWork, QuestionRows
    <2>2. \A a \in AttemptIds :
            attempts'[a] = IF work[q].attempt = a THEN "abandoned" ELSE attempts[a]
      BY <1>3, AbandonValue DEF ClaimEnds
    <2>3. \A a \in AttemptIds :
            attempts'[a] = "processing" <=> work'[QuestionOf(a)].attempt = a
      BY <2>1, <2>2, AttemptIdType, OwnerOfQuestion DEF OneOwner
    <2> QED
      BY <2>1, <2>3 DEF OneOwner
  <1>4. ASSUME NEW w \in Workers, NEW q \in Questions, ClaimStarts(w, q)
        PROVE  OneOwner'
    <2> DEFINE next == NextAttempt(q)
    <2>1. /\ next \in AttemptIds /\ attempts[next] = "none"
          /\ next = <<q, question[q].attempt_count + 1>> /\ QuestionOf(next) = q
      BY <1>4, NextAttemptType DEF ClaimStarts, Contends, NextAttempt, QuestionOf
    <2>2. \A r \in Questions :
            /\ r = q => /\ question'[r].status = "processing"
                        /\ question'[r].attempt_count = question[r].attempt_count + 1
                        /\ work'[r].attempt = next
            /\ r # q => question'[r] = question[r] /\ work'[r] = work[r]
      BY <1>4 DEF ClaimStarts, QuestionRows, WorkRows
    <2>3. \A a \in AttemptIds :
            attempts'[a] = IF a = next THEN "processing"
                           ELSE IF work[q].attempt = a THEN "abandoned" ELSE attempts[a]
      BY <1>4, <2>1, AbandonValue DEF ClaimStarts
    <2> HIDE DEF next
    <2>4. ASSUME NEW a \in AttemptIds
          PROVE  attempts'[a] = "processing" <=> work'[QuestionOf(a)].attempt = a
      <3>1. CASE a = next
        BY <3>1, <2>1, <2>2, <2>3
      <3>2. CASE a # next /\ QuestionOf(a) = q
        <4>1. attempts'[a] # "processing"
          BY <3>2, <2>3 DEF OneOwner
        <4>2. work'[q].attempt # a
          BY <3>2, <2>2
        <4> QED
          BY <3>2, <4>1, <4>2
      <3>3. CASE a # next /\ QuestionOf(a) # q
        BY <3>3, <2>2, <2>3, AttemptIdType, OwnerOfQuestion DEF OneOwner
      <3> QED
        BY <3>1, <3>2, <3>3
    <2>5. next # NoAttempt
      BY <2>1, AttemptIdType
    <2> QED
      BY <2>1, <2>2, <2>4, <2>5 DEF OneOwner
  <1>5. ASSUME NEW w \in Workers, NEW q \in Questions, ClaimWaits(w, q)
        PROVE  OneOwner'
    <2> DEFINE next == NextAttempt(q)
    <2>1. next \in AttemptIds /\ attempts[next] = "none"
      BY <1>5, NextAttemptType DEF ClaimWaits, Contends
    <2>2. \A r \in Questions :
            /\ r = q => question'[r].status = "waiting" /\ work'[r].attempt = NoAttempt
            /\ r # q => question'[r] = question[r] /\ work'[r] = work[r]
      BY <1>5 DEF ClaimWaits, QuestionRows, WorkRows
    <2>3. \A a \in AttemptIds :
            attempts'[a] = IF a = next THEN "admission_wait"
                           ELSE IF work[q].attempt = a THEN "abandoned" ELSE attempts[a]
      BY <1>5, <2>1, AbandonValue DEF ClaimWaits
    <2> HIDE DEF next
    <2>4. \A a \in AttemptIds :
            attempts'[a] = "processing" <=> work'[QuestionOf(a)].attempt = a
      BY <2>1, <2>2, <2>3, AttemptIdType, OwnerOfQuestion DEF OneOwner
    <2> QED
      BY <2>2, <2>4 DEF OneOwner
  <1>6. ASSUME NEW w \in Workers, RenewCommits(w) PROVE OneOwner'
    <2>1. PICK until \in Nat : Renewed(w, until)
      BY <1>6, RenewalWrites
    <2>2. \A q \in Questions : work'[q].attempt = work[q].attempt
      BY <1>6, <2>1, RenewalRow DEF RenewCommits
    <2> QED
      BY <2>1, <2>2, AttemptIdType DEF Renewed, OneOwner
  <1>7. ASSUME NEW w \in Workers, FinishRetries(w) PROVE OneOwner'
    <2> DEFINE a == worker[w].claim
               q == QuestionOf(a)
    <2>1. a \in AttemptIds /\ q \in Questions /\ work[q].attempt = a
      BY <1>7, ClaimType DEF FinishRetries, Finishes, HoldsLease
    <2>2. \A r \in Questions :
            /\ r = q => question'[r].status = "waiting" /\ work'[r].attempt = NoAttempt
            /\ r # q => question'[r] = question[r] /\ work'[r] = work[r]
      BY <1>7, <2>1 DEF FinishRetries, Unowned, QuestionRows
    <2>3. attempts' = [attempts EXCEPT ![a] = "transient_failure"]
      BY <1>7 DEF FinishRetries
    <2> HIDE DEF a
    <2>4. \A b \in AttemptIds :
            attempts'[b] = "processing" <=> work'[QuestionOf(b)].attempt = b
      BY <2>1, <2>2, <2>3, AttemptIdType DEF OneOwner
    <2> QED
      BY <2>2, <2>4 DEF OneOwner
  <1>8. ASSUME NEW w \in Workers, NEW result \in Results, FinishEnds(w, result)
        PROVE  OneOwner'
    <2> DEFINE a == worker[w].claim
               q == QuestionOf(a)
    <2>1. a \in AttemptIds /\ q \in Questions /\ work[q].attempt = a
      BY <1>8, ClaimType DEF FinishEnds, Finishes, HoldsLease
    <2>2. \A r \in Questions :
            /\ r = q => question'[r].status # "processing" /\ work'[r].attempt = NoAttempt
            /\ r # q => question'[r] = question[r] /\ work'[r] = work[r]
      BY <1>8, <2>1 DEF FinishEnds, NoWork, QuestionRows
    <2>3. attempts'[a] # "processing" /\ \A b \in AttemptIds : b # a => attempts'[b] = attempts[b]
      BY <1>8, <2>1 DEF FinishEnds
    <2> HIDE DEF a
    <2>4. \A b \in AttemptIds :
            attempts'[b] = "processing" <=> work'[QuestionOf(b)].attempt = b
      BY <2>1, <2>2, <2>3, AttemptIdType DEF OneOwner
    <2> QED
      BY <2>2, <2>4 DEF OneOwner
  <1>9. CASE Tick \/ UNCHANGED <<now, tables>>
    BY <1>9 DEF Tick, tables, OneOwner
  <1> QED
    BY <1>1, <1>2, <1>3, <1>4, <1>5, <1>6, <1>7, <1>8, <1>9, StepCases

LEMMA OwnershipInvariant == Spec => [](TypeOK /\ Ownership)
  <1>1. Init => OneOwner
    BY AttemptIdType DEF Init, OneOwner, AbsentQuestion, NoWork
  <1>2. TypeOK /\ Ownership /\ [Next]_vars => OneOwner'
    BY OneOwnerNext
  <1> QED
    BY <1>1, <1>2, RowsInvariant, PTL DEF Spec, Ownership

\* A question has a work row exactly while it is pending: acceptance stores
\* both rows, every ending removes the work row, and nothing in between does.
THEOREM PendingHasWork == Spec => []WorkIffPending
  BY OwnershipInvariant, PTL DEF Ownership

\* At any time a question has at most one attempt that may answer it, the
\* newest one, and the attempts table records exactly that one as open.
THEOREM SingleOwner == Spec => []OneOwner
  BY OwnershipInvariant, PTL DEF Ownership

-------------------------------------------------------------------------------
(* Slots: inference_leases agrees with the work table *)

LEMMA TryAcquireLeases ==
  ASSUME NEW L \in [AttemptIds -> Nat], NEW B, NEW a \in AttemptIds,
         NEW expiry \in Nat, NEW t \in Nat
  PROVE  \A b \in AttemptIds :
           TryAcquire(L, B, a, expiry, t).leases[b] =
             IF b = a /\ TryAcquire(L, B, a, expiry, t).granted THEN expiry
             ELSE IF L[b] <= t THEN NoTime ELSE L[b]
  <1> DEFINE kept == PurgeLapsed(L, t)
  <1>1. kept = [b \in AttemptIds |-> IF L[b] <= t THEN NoTime ELSE L[b]]
    BY DEF PurgeLapsed
  <1>2. TryAcquire(L, B, a, expiry, t).leases =
          IF TryAcquire(L, B, a, expiry, t).granted THEN [kept EXCEPT ![a] = expiry] ELSE kept
    BY DEF TryAcquire
  <1> HIDE DEF kept
  <1> QED
    BY <1>1, <1>2

\* What a claim that reaches try_acquire does to the slots.
LEMMA ClaimLeases ==
  ASSUME TypeOK, NEW w \in Workers, NEW q \in Questions, Contends(w, q)
  PROVE  \A b \in AttemptIds :
           leases'[b] = IF b = NextAttempt(q) /\ Acquired(q).granted THEN LeaseUntil(q)
                        ELSE IF leases[b] <= now THEN NoTime ELSE leases[b]
  <1>1. NextAttempt(q) \in AttemptIds /\ LeaseUntil(q) \in Nat
    BY NextAttemptType, LeaseUntilType DEF TypeOK
  <1>2. leases \in [AttemptIds -> Nat] /\ now \in Nat
    BY DEF TypeOK, ColumnDomains
  <1>3. leases' = TryAcquire(leases, breaker, NextAttempt(q), LeaseUntil(q), now).leases
    BY DEF Contends, Acquired
  <1> QED
    BY <1>1, <1>2, <1>3, TryAcquireLeases DEF Acquired

Slots == Ownership /\ SlotIffOwner

LEMMA SlotIffOwnerNext ==
  ASSUME TypeOK, Slots, [Next]_vars
  PROVE  SlotIffOwner'
  <1> USE DEF Slots
  <1>t. leases \in [AttemptIds -> Nat] /\ now \in Nat \ {0} /\ work \in [Questions -> WorkRows]
    BY DEF TypeOK, ColumnDomains
  <1>1. ASSUME NEW q \in Questions, Submit(q) PROVE SlotIffOwner'
    <2>1. ~work[q].present
      BY <1>1 DEF Submit, Ownership, WorkIffPending, Pending
    <2>2. work[q].attempt = NoAttempt
      BY <2>1 DEF TypeOK, BlankRows, NoWork
    <2> QED
      BY <1>t, <1>1, <2>2, AttemptIdType DEF Submit, Unowned, SlotIffOwner
  <1>2. ASSUME NEW ended \in SUBSET Questions, NEW status \in Endings, EndStep(ended, status)
        PROVE  SlotIffOwner'
    <2>1. \A q \in Questions :
            work'[q] = IF q \in ended THEN NoWork ELSE work[q]
      BY <1>2 DEF EndStep, End, DropWork
    <2>2. \A a \in AttemptIds :
            leases'[a] = IF QuestionOf(a) \in ended /\ work[QuestionOf(a)].attempt = a
                         THEN NoTime ELSE leases[a]
      BY <1>2, OwnersOfEnded DEF EndStep, End, FreeSlots, TypeOK, Ownership
    <2> QED
      BY <1>t, <1>2, <2>1, <2>2, AttemptIdType DEF EndStep, SlotIffOwner, NoWork, NoTime
  <1>3. ASSUME NEW w \in Workers, NEW q \in Questions, ClaimEnds(w, q)
        PROVE  SlotIffOwner'
    <2>1. \A a \in AttemptIds : work[q].attempt = a => work[q].lease <= now
      BY <1>3, AttemptIdType DEF ClaimEnds, Picks, Claimable
    <2> QED
      BY <1>t, <1>3, <2>1, AttemptIdType DEF ClaimEnds, NoWork, NoTime, SlotIffOwner, WorkRows
  <1>4. ASSUME NEW w \in Workers, NEW q \in Questions, ClaimStarts(w, q) \/ ClaimWaits(w, q)
        PROVE  SlotIffOwner'
    <2> DEFINE next == NextAttempt(q)
    <2>1. Contends(w, q) /\ now' = now /\ next \in AttemptIds /\ QuestionOf(next) = q
          /\ LeaseUntil(q) \in Nat
      BY <1>4, NextAttemptType, LeaseUntilType
      DEF ClaimStarts, ClaimWaits, NextAttempt, QuestionOf, TypeOK
    <2>2. \A b \in AttemptIds : QuestionOf(b) = q => leases[b] <= now
      BY <1>t, <2>1, AttemptIdType DEF Contends, Picks, Claimable, SlotIffOwner, WorkRows
    <2>3. \A r \in Questions : r # q => work'[r] = work[r]
      BY <1>t, <1>4 DEF ClaimStarts, ClaimWaits
    <2>4. IF Acquired(q).granted
          THEN work'[q].attempt = next /\ work'[q].lease = LeaseUntil(q)
          ELSE work'[q].attempt = NoAttempt
      BY <1>t, <1>4 DEF ClaimStarts, ClaimWaits, WorkRows
    <2> HIDE DEF next
    <2>5. \A b \in AttemptIds :
            leases'[b] = IF b = next /\ Acquired(q).granted THEN LeaseUntil(q)
                         ELSE IF leases[b] <= now THEN NoTime ELSE leases[b]
      BY <2>1, ClaimLeases DEF next
    <2>6. ASSUME NEW b \in AttemptIds, QuestionOf(b) = q,
                 leases'[b] > now \/ (work'[q].attempt = b /\ work'[q].lease > now)
          PROVE  work'[q].attempt = b /\ work'[q].lease = leases'[b]
      BY <1>t, <2>1, <2>2, <2>4, <2>5, <2>6, AttemptIdType DEF NoTime
    <2>7. ASSUME NEW b \in AttemptIds, QuestionOf(b) # q
          PROVE  LET row == work'[QuestionOf(b)] IN
                   /\ leases'[b] > now => row.attempt = b /\ row.lease = leases'[b]
                   /\ row.attempt = b /\ row.lease > now => leases'[b] = row.lease \/ row.late
      BY <1>t, <2>1, <2>3, <2>5, <2>7, AttemptIdType DEF NoTime, SlotIffOwner
    <2> QED
      BY <2>1, <2>6, <2>7 DEF SlotIffOwner
  <1>5. ASSUME NEW w \in Workers, RenewCommits(w) PROVE SlotIffOwner'
    <2> DEFINE a == worker[w].claim
               q == QuestionOf(a)
    <2>1. a \in AttemptIds /\ q \in Questions /\ work[q].attempt = a
      BY <1>5, ClaimType DEF RenewCommits, Ownership, Renewals, TypeOK
    <2>2. PICK until \in Nat : Renewed(w, until)
      BY <1>5, RenewalWrites DEF TypeOK
    <2>3. /\ work'[q].attempt = a /\ work'[q].lease = until
          /\ work'[q].late <=> work[q].late \/ work[q].lease <= now
          /\ \A r \in Questions \ {q} : work'[r] = work[r]
      <3>1. worker[w].since # NoTime
        BY <1>5 DEF RenewCommits
      <3> QED
        BY <2>1, <2>2, <3>1, RenewalRow DEF TypeOK
    <2>4. /\ leases'[a] = IF leases[a] = NoTime THEN NoTime ELSE until
          /\ \A b \in AttemptIds : b # a => leases'[b] = leases[b]
          /\ now' = now
      BY <1>t, <2>1, <2>2 DEF Renewed, ExtendSlot
    <2> HIDE DEF a
    <2>5. \A b \in AttemptIds : QuestionOf(b) = q /\ b # a => leases[b] <= now
      BY <1>t, <2>1 DEF SlotIffOwner
    <2>6. leases[a] = NoTime => work[q].late \/ work[q].lease <= now
      BY <1>t, <2>1 DEF SlotIffOwner, NoTime, WorkRows
    <2> SUFFICES ASSUME NEW b \in AttemptIds
                 PROVE  LET row == work'[QuestionOf(b)] IN
                          /\ leases'[b] > now' => row.attempt = b /\ row.lease = leases'[b]
                          /\ row.attempt = b /\ row.lease > now' => leases'[b] = row.lease \/ row.late
      BY DEF SlotIffOwner, QuestionOf
    <2>7. CASE b = a
      BY <1>t, <2>1, <2>3, <2>4, <2>6, <2>7 DEF NoTime
    <2>8. CASE QuestionOf(b) = q /\ b # a
      BY <1>t, <2>1, <2>3, <2>4, <2>5, <2>8
    <2>9. CASE QuestionOf(b) # q
      <3>1. work'[QuestionOf(b)] = work[QuestionOf(b)] /\ leases'[b] = leases[b]
        BY <2>1, <2>3, <2>4, <2>9, AttemptIdType DEF a
      <3> QED
        BY <2>4, <3>1 DEF SlotIffOwner
    <2> QED
      BY <2>7, <2>8, <2>9
  <1>6. ASSUME NEW w \in Workers, FinishRetries(w) PROVE SlotIffOwner'
    <2> DEFINE a == worker[w].claim
               q == QuestionOf(a)
    <2>1. a \in AttemptIds /\ q \in Questions /\ work[q].attempt = a
      BY <1>6, ClaimType DEF FinishRetries, Finishes, HoldsLease, TypeOK
    <2>2. /\ leases' = [leases EXCEPT ![a] = NoTime]
          /\ work'[q].attempt = NoAttempt
          /\ \A r \in Questions : r # q => work'[r] = work[r]
          /\ now' = now
      BY <1>t, <1>6, <2>1 DEF FinishRetries, FreeSlot, Unowned
    <2> HIDE DEF a
    <2>3. \A b \in AttemptIds : QuestionOf(b) = q /\ b # a => leases[b] <= now
      BY <1>t, <2>1 DEF SlotIffOwner
    <2> QED
      BY <1>t, <2>1, <2>2, <2>3, AttemptIdType DEF SlotIffOwner, WorkRows, NoTime
  <1>7. ASSUME NEW w \in Workers, NEW result \in Results, FinishEnds(w, result)
        PROVE  SlotIffOwner'
    <2> DEFINE a == worker[w].claim
               q == QuestionOf(a)
    <2>1. a \in AttemptIds /\ q \in Questions /\ work[q].attempt = a
      BY <1>7, ClaimType DEF FinishEnds, Finishes, HoldsLease, TypeOK
    <2>2. /\ leases' = [leases EXCEPT ![a] = NoTime]
          /\ work'[q].attempt = NoAttempt
          /\ \A r \in Questions : r # q => work'[r] = work[r]
          /\ now' = now
      BY <1>t, <1>7, <2>1 DEF FinishEnds, FreeSlot, NoWork
    <2> HIDE DEF a
    <2>3. \A b \in AttemptIds : QuestionOf(b) = q /\ b # a => leases[b] <= now
      BY <1>t, <2>1 DEF SlotIffOwner
    <2> QED
      BY <1>t, <2>1, <2>2, <2>3, AttemptIdType DEF SlotIffOwner, WorkRows, NoTime
  <1>8. CASE Tick
    BY <1>t, <1>8, AttemptIdType DEF Tick, tables, SlotIffOwner, WorkRows
  <1>9. CASE UNCHANGED <<now, tables>>
    BY <1>9 DEF tables, SlotIffOwner
  <1> QED
    BY <1>1, <1>2, <1>3, <1>4, <1>5, <1>6, <1>7, <1>8, <1>9, StepCases

LEMMA SlotsInvariant == Spec => [](TypeOK /\ Slots)
  <1>1. Init => SlotIffOwner
    BY AttemptIdType DEF Init, SlotIffOwner, NoWork, NoTime
  <1>2. TypeOK /\ Slots /\ [Next]_vars => SlotIffOwner'
    BY SlotIffOwnerNext
  <1> QED
    BY <1>1, <1>2, OwnershipInvariant, PTL DEF Spec, Slots

\* The two copies of a lease, in work and in inference_leases, agree while the
\* lease runs: a slot is never held without the question, nor the reverse but
\* by an owner whose renewal was overtaken by the end of the lease.
THEOREM SlotsMatchOwners == Spec => []SlotIffOwner
  BY SlotsInvariant, PTL DEF Slots

-------------------------------------------------------------------------------
(* The global budget of slots *)

SlotCount == IsFiniteSet(Held(leases)) /\ Cardinality(Held(leases)) <= SlotLimit

\* Slots only disappear, except in a claim that is granted one.
LEMMA FewerSlots ==
  ASSUME SlotCount, NEW L, Held(L) \subseteq Held(leases)
  PROVE  IsFiniteSet(Held(L)) /\ Cardinality(Held(L)) <= SlotLimit
  <1>1. IsFiniteSet(Held(L)) /\ Cardinality(Held(L)) <= Cardinality(Held(leases))
    BY FS_Subset DEF SlotCount
  <1>2. Cardinality(Held(L)) \in Nat /\ Cardinality(Held(leases)) \in Nat
    BY <1>1, FS_CardinalityType DEF SlotCount
  <1> QED
    BY <1>1, <1>2, ConstantsAssumption DEF SlotCount

LEMMA TryAcquireCount ==
  ASSUME TypeOK, SlotCount, NEW B, NEW a \in AttemptIds, NEW expiry \in Nat \ {0}
  PROVE  LET L == TryAcquire(leases, B, a, expiry, now).leases
         IN  IsFiniteSet(Held(L)) /\ Cardinality(Held(L)) <= SlotLimit
  <1> DEFINE kept == PurgeLapsed(leases, now)
             result == TryAcquire(leases, B, a, expiry, now)
             row == ReopenIfProbeLost(kept, B, now)
  <1>1. kept \in [AttemptIds -> Nat] /\ Held(kept) \subseteq Held(leases)
    BY DEF TypeOK, ColumnDomains, PurgeLapsed, Held, NoTime
  <1>2. IsFiniteSet(Held(kept)) /\ Cardinality(Held(kept)) <= SlotLimit
    BY <1>1, FewerSlots
  <1>3. CASE ~result.granted
    <2>1. result.leases = kept
      BY <1>3 DEF TryAcquire
    <2> QED
      BY <2>1, <1>2
  <1>4. CASE result.granted
    <2>1. result.leases = [kept EXCEPT ![a] = expiry] /\ Admits(kept, row, B.openedAt, now)
      BY <1>4 DEF TryAcquire
    <2>2. Cardinality(Held(kept)) < SlotLimit
      BY <2>1 DEF Admits
    <2> HIDE DEF kept
    <2>3. Held([kept EXCEPT ![a] = expiry]) = Held(kept) \cup {a}
      BY <1>1 DEF Held, NoTime
    <2>4. /\ IsFiniteSet(Held(kept) \cup {a})
          /\ Cardinality(Held(kept) \cup {a}) =
               IF a \in Held(kept) THEN Cardinality(Held(kept)) ELSE Cardinality(Held(kept)) + 1
      BY <1>2, FS_AddElement
    <2>5. Cardinality(Held(kept)) \in Nat
      BY <1>2, FS_CardinalityType
    <2>6. Cardinality(Held(kept) \cup {a}) <= SlotLimit
      BY <2>2, <2>4, <2>5, ConstantsAssumption
    <2> QED
      BY <2>1, <2>3, <2>4, <2>6
  <1> QED
    BY <1>3, <1>4

LEMMA SlotCountNext ==
  ASSUME TypeOK, SlotCount, [Next]_vars
  PROVE  SlotCount'
  <1>t. leases \in [AttemptIds -> Nat]
    BY DEF TypeOK, ColumnDomains
  <1>1. ASSUME Held(leases') \subseteq Held(leases) PROVE SlotCount'
    BY <1>1, FewerSlots DEF SlotCount
  <1>2. ASSUME NEW ended \in SUBSET Questions, NEW status \in Endings, EndStep(ended, status)
        PROVE  SlotCount'
    <2>1. Held(leases') \subseteq Held(leases)
      BY <1>t, <1>2 DEF EndStep, End, FreeSlots, Held
    <2> QED
      BY <2>1, <1>1
  <1>3. ASSUME NEW w \in Workers, NEW q \in Questions, ClaimStarts(w, q) \/ ClaimWaits(w, q)
        PROVE  SlotCount'
    <2>1. Contends(w, q)
      BY <1>3 DEF ClaimStarts, ClaimWaits
    <2>2. /\ NextAttempt(q) \in AttemptIds
          /\ LeaseUntil(q) \in Nat \ {0}
      BY <2>1, NextAttemptType, LeaseUntilType, ConstantsAssumption
      DEF TypeOK, ColumnDomains, Contends, OutOfTime, LeaseUntil, LeaseFrom, MinTime, QuestionRows
    <2>3. leases' = TryAcquire(leases, breaker, NextAttempt(q), LeaseUntil(q), now).leases
      BY <2>1 DEF Contends, Acquired
    <2> QED
      BY <2>2, <2>3, TryAcquireCount DEF SlotCount
  <1>4. ASSUME NEW w \in Workers, RenewCommits(w) PROVE SlotCount'
    <2>1. worker[w].claim \in AttemptIds
      BY <1>4, ClaimType DEF RenewCommits, TypeOK
    <2>2. Held(leases') \subseteq Held(leases)
      BY <1>t, <1>4, <2>1 DEF RenewCommits, ExtendSlot, Held
    <2> QED
      BY <2>2, <1>1
  <1>5. ASSUME NEW w \in Workers, NEW result \in Results,
               FinishRetries(w) \/ FinishEnds(w, result)
        PROVE  SlotCount'
    <2>1. Held(leases') \subseteq Held(leases)
      BY <1>t, <1>5 DEF FinishRetries, FinishEnds, FreeSlot, Held, NoTime
    <2> QED
      BY <2>1, <1>1
  <1>6. ASSUME leases' = leases PROVE SlotCount'
    BY <1>6, <1>1
  <1>7. Results # {}
    BY DEF Results
  <1> QED
    BY <1>2, <1>3, <1>4, <1>5, <1>6, <1>7, StepCases DEF Submit, ClaimEnds, Tick, tables

LEMMA SlotCountInvariant == Spec => []SlotCount
  <1>1. Init => SlotCount
    <2>1. Init => Held(leases) = {}
      BY DEF Init, Held
    <2> QED
      BY <2>1, FS_EmptySet, ConstantsAssumption DEF SlotCount
  <1>2. TypeOK /\ SlotCount /\ [Next]_vars => SlotCount'
    BY SlotCountNext
  <1> QED
    BY <1>1, <1>2, TypeCorrect, PTL DEF Spec

\* However many workers there are, however they crash and are replaced, the
\* attempts that own a question outnumber the slots at most by those whose
\* renewal was overtaken by the end of the lease that it renewed.
THEOREM InferenceBudget == Spec => []SlotBudget
  <1>1. TypeOK /\ SlotIffOwner /\ SlotCount => SlotBudget
    <2> SUFFICES ASSUME TypeOK, SlotIffOwner, SlotCount PROVE SlotBudget
      OBVIOUS
    <2> DEFINE punctual == LiveOwners \ LateOwners
    <2>1. punctual \subseteq Held(leases)
      BY AttemptIdType
      DEF LiveOwners, LateOwners, Held, NoTime, SlotIffOwner, TypeOK, ColumnDomains, WorkRows
    <2>2. Cardinality(punctual) <= Cardinality(Held(leases)) /\ IsFiniteSet(punctual)
      BY <2>1, FS_Subset DEF SlotCount
    <2>3. Cardinality(punctual) \in Nat /\ Cardinality(Held(leases)) \in Nat
      BY <2>2, FS_CardinalityType DEF SlotCount
    <2> QED
      BY <2>2, <2>3, ConstantsAssumption DEF SlotCount, SlotBudget
  <1> QED
    BY <1>1, SlotsInvariant, SlotCountInvariant, PTL DEF Slots

-------------------------------------------------------------------------------
(* What a step may never do *)

\* Only a pending question has its row changed by a step, and only its owner
\* or a new number of it among the attempts.
LEMMA StepTouches ==
  ASSUME TypeOK, Slots, [Next]_vars
  PROVE  /\ \A q \in Questions : question[q].status \in Terminal =>
              question'[q] = question[q] /\ work'[q] = work[q]
         /\ \A a \in AttemptIds : attempts[a] \notin {"none", "processing"} =>
              attempts'[a] = attempts[a]
         /\ \A a \in AttemptIds : attempts[a] # "completed" /\ attempts'[a] = "completed" =>
              HoldsLease(a)
  <1> DEFINE Goal ==
        /\ \A q \in Questions : question[q].status \in Terminal =>
             question'[q] = question[q] /\ work'[q] = work[q]
        /\ \A a \in AttemptIds : attempts[a] \notin {"none", "processing"} =>
             attempts'[a] = attempts[a]
        /\ \A a \in AttemptIds : attempts[a] # "completed" /\ attempts'[a] = "completed" =>
             HoldsLease(a)
  <1>t. /\ ColumnDomains /\ OneOwner /\ WorkIffPending
        /\ question \in [Questions -> QuestionRows]
        /\ work \in [Questions -> WorkRows]
        /\ attempts \in [AttemptIds -> Outcomes]
    BY DEF TypeOK, ColumnDomains, Slots, Ownership
  <1>0. \A q \in Questions : question[q].status \in Terminal =>
          /\ question[q].status \notin Pending
          /\ question[q].status # "absent"
          /\ ~work[q].present
    BY <1>t DEF Terminal, Pending, WorkIffPending
  <1>1. ASSUME NEW q \in Questions, Submit(q) PROVE Goal
    BY <1>t, <1>0, <1>1 DEF Submit
  <1>2. ASSUME NEW ended \in SUBSET Questions, NEW status \in Endings, EndStep(ended, status)
        PROVE  Goal
    <2>1. \A q \in Questions : question[q].status \in Terminal =>
            question'[q] = question[q] /\ work'[q] = work[q]
      BY <1>t, <1>0, <1>2 DEF EndStep, End, EndedQuestions, DropWork
    <2>2. \A a \in AttemptIds :
            attempts'[a] = IF QuestionOf(a) \in ended /\ work[QuestionOf(a)].attempt = a
                           THEN status[QuestionOf(a)] ELSE attempts[a]
      BY <1>t, <1>2, OwnersOfEnded DEF EndStep, End, CloseAttempts
    <2>3. \A a \in AttemptIds : QuestionOf(a) \in ended => status[QuestionOf(a)] # "completed"
      BY AttemptIdType DEF Endings
    <2> QED
      BY <1>t, <2>1, <2>2, <2>3 DEF OneOwner
  <1>3. ASSUME NEW w \in Workers, NEW q \in Questions,
               ClaimEnds(w, q) \/ ClaimStarts(w, q) \/ ClaimWaits(w, q)
        PROVE  Goal
    <2>1. work[q].present /\ NextAttempt(q) \in AttemptIds
      BY <1>3, NextAttemptType
      DEF ClaimEnds, ClaimStarts, ClaimWaits, Contends, Picks, Claimable, TypeOK
    <2>2. \A r \in Questions : r # q => question'[r] = question[r] /\ work'[r] = work[r]
      BY <1>t, <1>3 DEF ClaimEnds, ClaimStarts, ClaimWaits
    <2>3. \A r \in Questions : question[r].status \in Terminal => r # q
      BY <1>0, <2>1
    <2>4. ASSUME NEW a \in AttemptIds
          PROVE  /\ attempts[a] \notin {"none", "processing"} => attempts'[a] = attempts[a]
                 /\ attempts[a] # "completed" => attempts'[a] # "completed"
      <3>1. work[q].attempt = a => attempts[a] = "processing"
        BY <1>t, OwnerOfQuestion
      <3>2. CASE ClaimEnds(w, q)
        BY <1>t, <3>1, <3>2, AbandonValue DEF ClaimEnds
      <3>3. CASE ClaimStarts(w, q)
        BY <1>t, <2>1, <3>1, <3>3, AbandonValue DEF ClaimStarts, Contends
      <3>4. CASE ClaimWaits(w, q)
        BY <1>t, <2>1, <3>1, <3>4, AbandonValue DEF ClaimWaits, Contends
      <3> QED
        BY <1>3, <3>2, <3>3, <3>4
    <2> QED
      BY <2>2, <2>3, <2>4
  <1>4. ASSUME NEW w \in Workers, RenewCommits(w) PROVE Goal
    <2>1. work[QuestionOf(worker[w].claim)].present
      BY <1>4 DEF RenewCommits, Slots, Ownership, Renewals
    <2>2. question' = question /\ attempts' = attempts
      BY <1>4 DEF RenewCommits
    <2>3. \A q \in Questions : q # QuestionOf(worker[w].claim) => work'[q] = work[q]
      BY <1>t, <1>4 DEF RenewCommits
    <2> QED
      BY <1>0, <2>1, <2>2, <2>3
  <1>5. ASSUME NEW w \in Workers, FinishRetries(w) PROVE Goal
    <2>1. worker[w].claim \in AttemptIds /\ attempts[worker[w].claim] = "processing"
          /\ work[QuestionOf(worker[w].claim)].present
      BY <1>t, <1>5, ClaimType DEF FinishRetries, Finishes, HoldsLease, OneOwner
    <2> QED
      BY <1>t, <1>0, <1>5, <2>1 DEF FinishRetries
  <1>6. ASSUME NEW w \in Workers, NEW result \in Results, FinishEnds(w, result) PROVE Goal
    <2>1. /\ worker[w].claim \in AttemptIds /\ attempts[worker[w].claim] = "processing"
          /\ work[QuestionOf(worker[w].claim)].present
          /\ HoldsLease(worker[w].claim)
      BY <1>t, <1>6, ClaimType DEF FinishEnds, Finishes, HoldsLease, OneOwner
    <2> QED
      BY <1>t, <1>0, <1>6, <2>1 DEF FinishEnds
  <1>7. CASE Tick \/ UNCHANGED <<now, tables>>
    BY <1>7 DEF Tick, tables
  <1> QED
    BY <1>1, <1>2, <1>3, <1>4, <1>5, <1>6, <1>7, StepCases

\* The first terminal outcome of a question is its last.
THEOREM FirstOutcomeWins == Spec => TerminalIsFinal
  <1>1. TypeOK /\ Slots /\ [Next]_vars =>
          \A q \in Questions : question[q].status \in Terminal =>
            question'[q] = question[q] /\ work'[q] = NoWork
    <2> SUFFICES ASSUME TypeOK, Slots, [Next]_vars,
                        NEW q \in Questions, question[q].status \in Terminal
                 PROVE  question'[q] = question[q] /\ work'[q] = NoWork
      OBVIOUS
    <2>1. work[q] = NoWork
      BY DEF TypeOK, BlankRows, Slots, Ownership, WorkIffPending, Pending, Terminal
    <2> QED
      BY <2>1, StepTouches
  <1> QED
    BY <1>1, SlotsInvariant, PTL DEF Spec, TerminalIsFinal

\* An attempt that was abandoned, refused, cancelled, expired or finished never
\* changes its outcome: a late worker cannot publish.
THEOREM ObsoleteAttemptsStaySo == Spec => ClosedAttemptIsFinal
  <1>1. TypeOK /\ Slots /\ [Next]_vars =>
          \A a \in AttemptIds : attempts[a] \notin {"none", "processing"} =>
            attempts'[a] = attempts[a]
    BY StepTouches
  <1> QED
    BY <1>1, SlotsInvariant, PTL DEF Spec, ClosedAttemptIsFinal

\* An answer is saved only before the deadline and by the attempt on the work
\* row, while the lease on that row runs.
THEOREM AnswersInTime == Spec => SavedInTime
  <1>1. TypeOK /\ Slots /\ [Next]_vars =>
          \A a \in AttemptIds : attempts[a] # "completed" /\ attempts'[a] = "completed" =>
            LET q == QuestionOf(a) IN
              /\ now < question[q].deadline
              /\ work[q].attempt = a
              /\ now < work[q].lease
    <2> SUFFICES ASSUME TypeOK, Slots, [Next]_vars, NEW a \in AttemptIds,
                        attempts[a] # "completed", attempts'[a] = "completed"
                 PROVE  /\ now < question[QuestionOf(a)].deadline
                        /\ work[QuestionOf(a)].attempt = a
                        /\ now < work[QuestionOf(a)].lease
      OBVIOUS
    <2>1. HoldsLease(a)
      BY StepTouches
    <2> QED
      BY <2>1, AttemptIdType DEF HoldsLease, TypeOK, ColumnDomains, QuestionRows, WorkRows
  <1> QED
    BY <1>1, SlotsInvariant, PTL DEF Spec, SavedInTime

-------------------------------------------------------------------------------
(* The breaker *)

\* BreakerCoherent, of any row and time.
Coherent(B, t) ==
  /\ B.state = "half_open" <=> B.probe # NoAttempt
  /\ B.state = "closed" <=> B.openedAt = NoTime
  /\ B.state = "closed" <=> B.failures < FailureThreshold
  /\ B.openedAt <= t

LEMMA ReopenCoherent ==
  ASSUME NEW L, NEW B \in BreakerRows, NEW t \in Nat \ {0}, Coherent(B, t)
  PROVE  LET row == ReopenIfProbeLost(L, B, t) IN
           /\ row \in BreakerRows /\ Coherent(row, t)
           /\ row.state = "closed" <=> B.state = "closed"
           /\ row.probe = NoAttempt /\ B.probe # NoAttempt => L[B.probe] = NoTime
<1> DEFINE opened == [B EXCEPT !.state = "open", !.openedAt = t, !.probe = NoAttempt]
<1>1. CASE B.state = "half_open" /\ B.probe # NoAttempt /\ L[B.probe] = NoTime
  <2>1. ReopenIfProbeLost(L, B, t) = opened
    BY <1>1 DEF ReopenIfProbeLost
  <2>2. /\ opened \in BreakerRows /\ opened.probe = NoAttempt /\ opened.state = "open"
        /\ opened.openedAt = t /\ opened.failures = B.failures
    BY DEF BreakerRows, BreakerStates
  <2> HIDE DEF opened
  <2>3. Coherent(opened, t)
    BY <1>1, <2>2 DEF Coherent, BreakerRows, NoTime
  <2> QED
    BY <1>1, <2>1, <2>2, <2>3
<1>2. CASE ~(B.state = "half_open" /\ B.probe # NoAttempt /\ L[B.probe] = NoTime)
  BY <1>2 DEF ReopenIfProbeLost, Coherent
<1> QED
  BY <1>1, <1>2

LEMMA TryAcquireCoherent ==
  ASSUME NEW L, NEW B \in BreakerRows, NEW a \in AttemptIds, NEW expiry,
         NEW t \in Nat \ {0}, Coherent(B, t)
  PROVE  Coherent(TryAcquire(L, B, a, expiry, t).breaker, t)
<1> DEFINE row == ReopenIfProbeLost(PurgeLapsed(L, t), B, t)
<1>1. row \in BreakerRows /\ Coherent(row, t)
  BY ReopenCoherent
<1>2. row.state = "open" => Coherent([row EXCEPT !.state = "half_open", !.probe = a], t)
  BY <1>1, AttemptIdType DEF Coherent, BreakerRows
<1> HIDE DEF row
<1> QED
  BY <1>1, <1>2 DEF TryAcquire, row

LEMMA AfterReleaseCoherent ==
  ASSUME NEW B \in BreakerRows, NEW transient \in BOOLEAN, NEW t \in Nat \ {0}, Coherent(B, t)
  PROVE  Coherent(AfterRelease(B, transient, t), t)
BY ConstantsAssumption
DEF AfterRelease, AfterTransient, ClosedBreaker, Coherent, BreakerRows, BreakerStates, NoTime

LEMMA BreakerCoherentNext ==
  ASSUME TypeOK, BreakerCoherent, [Next]_vars
  PROVE  BreakerCoherent'
<1>1. Coherent(breaker, now) /\ breaker \in BreakerRows /\ now \in Nat \ {0}
  BY DEF BreakerCoherent, Coherent, TypeOK, ColumnDomains
<1>2. Coherent(breaker, now)' => BreakerCoherent'
  BY DEF BreakerCoherent, Coherent
<1>3. ASSUME now' = now, NEW transient \in BOOLEAN,
             breaker' = AfterRelease(breaker, transient, now)
      PROVE  BreakerCoherent'
  BY <1>1, <1>2, <1>3, AfterReleaseCoherent DEF Coherent
<1>4. ASSUME now' \in Nat, now' >= now, breaker' = breaker PROVE BreakerCoherent'
  BY <1>1, <1>4 DEF BreakerCoherent, Coherent, BreakerRows
<1>5. ASSUME NEW ended \in SUBSET Questions, NEW status \in Endings, EndStep(ended, status)
      PROVE  BreakerCoherent'
  <2>1. now' = now /\ now' \in Nat /\ now' >= now
    BY <1>1, <1>5 DEF EndStep
  <2>2. breaker' = breaker \/ breaker' = AfterRelease(breaker, FALSE, now)
    BY <1>5 DEF EndStep, End
  <2> QED
    BY <1>3, <1>4, <2>1, <2>2
<1>6. ASSUME NEW w \in Workers, NEW q \in Questions, ClaimStarts(w, q) \/ ClaimWaits(w, q)
      PROVE  BreakerCoherent'
  <2>1. Contends(w, q) /\ now' = now
    BY <1>6 DEF ClaimStarts, ClaimWaits
  <2>2. NextAttempt(q) \in AttemptIds
    BY NextAttemptType DEF TypeOK
  <2>3. breaker' = TryAcquire(leases, breaker, NextAttempt(q), LeaseUntil(q), now).breaker
    BY <2>1 DEF Contends, Acquired
  <2>4. Coherent(breaker', now)
    BY <1>1, <2>2, <2>3, TryAcquireCoherent
  <2> QED
    BY <1>2, <2>1, <2>4 DEF Coherent
<1>7. ASSUME NEW w \in Workers, NEW result \in Results,
             FinishRetries(w) \/ FinishEnds(w, result)
      PROVE  BreakerCoherent'
  BY <1>3, <1>7 DEF FinishRetries, FinishEnds
<1>8. ASSUME breaker' = breaker, now' = now \/ Tick PROVE BreakerCoherent'
  BY <1>1, <1>4, <1>8 DEF Tick
<1>9. Results # {}
  BY DEF Results
<1> QED
  BY <1>5, <1>6, <1>7, <1>8, <1>9, StepCases DEF Submit, ClaimEnds, RenewCommits, Tick, tables

LEMMA BreakerInvariant == Spec => [](TypeOK /\ BreakerCoherent)
<1>1. Init => BreakerCoherent
  BY ConstantsAssumption DEF Init, BreakerCoherent, ClosedBreaker, NoTime
<1>2. TypeOK /\ BreakerCoherent /\ [Next]_vars => BreakerCoherent'
  BY BreakerCoherentNext
<1> QED
  BY <1>1, <1>2, TypeCorrect, PTL DEF Spec

\* The row of the breaker names a probe exactly while it is half open, and is
\* open, with a time of opening, exactly after enough failures.
THEOREM BreakerRowIsCoherent == Spec => []BreakerCoherent
BY BreakerInvariant, PTL

\* A slot that try_acquire grants while the breaker is not closed.
LEMMA ProbeGranted ==
  ASSUME NEW L \in [AttemptIds -> Nat], NEW B \in BreakerRows, NEW a \in AttemptIds,
         NEW expiry, NEW t \in Nat \ {0}, Coherent(B, t), B.state # "closed",
         TryAcquire(L, B, a, expiry, t).granted
  PROVE  /\ TryAcquire(L, B, a, expiry, t).breaker.probe = a
         /\ t >= B.openedAt + OpenSeconds
         /\ B.probe # NoAttempt => L[B.probe] <= t
<1> DEFINE kept == PurgeLapsed(L, t)
           row == ReopenIfProbeLost(kept, B, t)
<1>1. /\ row \in BreakerRows /\ row.state # "closed"
      /\ row.probe = NoAttempt /\ B.probe # NoAttempt => kept[B.probe] = NoTime
  BY ReopenCoherent
<1>2. B.probe # NoAttempt => (kept[B.probe] = NoTime => L[B.probe] <= t)
  BY DEF PurgeLapsed, NoTime, BreakerRows
<1>3. /\ TryAcquire(L, B, a, expiry, t).granted = Admits(kept, row, B.openedAt, t)
      /\ TryAcquire(L, B, a, expiry, t).breaker =
           IF TryAcquire(L, B, a, expiry, t).granted /\ row.state = "open"
           THEN [row EXCEPT !.state = "half_open", !.probe = a] ELSE row
  BY DEF TryAcquire
<1> HIDE DEF kept, row
<1>4. row.state = "open" /\ row.probe = NoAttempt /\ B.openedAt <= t - OpenSeconds
  BY <1>1, <1>3 DEF Admits
<1>5. TryAcquire(L, B, a, expiry, t).breaker.probe = a
  BY <1>1, <1>3, <1>4 DEF BreakerRows
<1>6. t >= B.openedAt + OpenSeconds
  BY <1>4, ConstantsAssumption DEF BreakerRows
<1> QED
  BY <1>1, <1>2, <1>4, <1>5, <1>6

\* Only a claim gives an attempt a slot it did not have.
LEMMA SlotsAppearInClaims ==
  ASSUME TypeOK, [Next]_vars, NEW a \in AttemptIds, leases[a] = NoTime, leases'[a] # NoTime
  PROVE  \E w \in Workers, q \in Questions :
           Contends(w, q) /\ a = NextAttempt(q) /\ Acquired(q).granted
<1>t. leases \in [AttemptIds -> Nat]
  BY DEF TypeOK, ColumnDomains
<1>1. ASSUME NEW ended \in SUBSET Questions, NEW status \in Endings, EndStep(ended, status)
      PROVE  leases'[a] = NoTime
  BY <1>1 DEF EndStep, End, FreeSlots
<1>2. ASSUME NEW w \in Workers, NEW q \in Questions, ClaimStarts(w, q) \/ ClaimWaits(w, q)
      PROVE  Contends(w, q) /\ a = NextAttempt(q) /\ Acquired(q).granted
  <2>1. Contends(w, q)
    BY <1>2 DEF ClaimStarts, ClaimWaits
  <2>2. leases'[a] = IF a = NextAttempt(q) /\ Acquired(q).granted THEN LeaseUntil(q)
                     ELSE IF leases[a] <= now THEN NoTime ELSE leases[a]
    BY <2>1, ClaimLeases
  <2>3. CASE a = NextAttempt(q) /\ Acquired(q).granted
    BY <2>1, <2>3
  <2>4. CASE ~(a = NextAttempt(q) /\ Acquired(q).granted)
    <3>1. leases'[a] = NoTime
      BY <2>2, <2>4
    <3> QED
      BY <3>1
  <2> QED
    BY <2>3, <2>4
<1>3. ASSUME NEW w \in Workers, RenewCommits(w) PROVE leases'[a] = NoTime
  BY <1>t, <1>3 DEF RenewCommits, ExtendSlot
<1>4. ASSUME NEW w \in Workers, NEW result \in Results,
             FinishRetries(w) \/ FinishEnds(w, result)
      PROVE  leases'[a] = NoTime
  BY <1>t, <1>4 DEF FinishRetries, FinishEnds, FreeSlot
<1>5. Results # {}
  BY DEF Results
<1> QED
  BY <1>1, <1>2, <1>3, <1>4, <1>5, StepCases DEF Submit, ClaimEnds, Tick, tables

\* While the breaker is not closed the one slot that may be granted is the
\* probe's, after the pause, and not beside a probe whose slot runs.
THEOREM BreakerHoldsBack == Spec => BreakerAdmitsOnlyProbe
<1>1. TypeOK /\ BreakerCoherent /\ [Next]_vars =>
        \A a \in AttemptIds :
          (breaker.state # "closed" /\ leases[a] = NoTime /\ leases'[a] # NoTime) =>
            /\ breaker'.probe = a
            /\ now >= breaker.openedAt + OpenSeconds
            /\ breaker.probe # NoAttempt => leases[breaker.probe] <= now
  <2> SUFFICES ASSUME TypeOK, BreakerCoherent, [Next]_vars, NEW a \in AttemptIds,
                      breaker.state # "closed", leases[a] = NoTime, leases'[a] # NoTime
               PROVE  /\ breaker'.probe = a
                      /\ now >= breaker.openedAt + OpenSeconds
                      /\ breaker.probe # NoAttempt => leases[breaker.probe] <= now
    OBVIOUS
  <2>1. PICK w \in Workers, q \in Questions :
          Contends(w, q) /\ a = NextAttempt(q) /\ Acquired(q).granted
    BY SlotsAppearInClaims
  <2>2. /\ TryAcquire(leases, breaker, a, LeaseUntil(q), now).granted
        /\ breaker' = TryAcquire(leases, breaker, a, LeaseUntil(q), now).breaker
    BY <2>1 DEF Contends, Acquired
  <2>3. Coherent(breaker, now) /\ breaker \in BreakerRows /\ now \in Nat \ {0}
        /\ leases \in [AttemptIds -> Nat]
    BY DEF BreakerCoherent, Coherent, TypeOK, ColumnDomains
  <2> QED
    BY <2>2, <2>3, ProbeGranted
<1> QED
  BY <1>1, BreakerInvariant, PTL DEF Spec, BreakerAdmitsOnlyProbe

-------------------------------------------------------------------------------
(* What a step writes to one question *)

\* Only the row of q is changed among the questions.
OnlyQuestion(q) == \A r \in Questions \ {q} : question'[r] = question[r]

\* What a claim writes: the deadline and the answer stay, the counter moves in
\* a granted claim, an error is recorded when the question ends.
LEMMA ClaimQuestion ==
  ASSUME TypeOK, Ownership, NEW w \in Workers, NEW q \in Questions,
         ClaimEnds(w, q) \/ ClaimStarts(w, q) \/ ClaimWaits(w, q)
  PROVE  /\ work[q].present /\ question[q].status \in Pending
         /\ OnlyQuestion(q) /\ now' = now
         /\ question'[q].deadline = question[q].deadline
         /\ question'[q].answer = question[q].answer
         /\ question'[q].recovery_count = Recoveries(q)
         /\ question'[q].attempt_count =
              IF ClaimStarts(w, q) THEN question[q].attempt_count + 1
                                   ELSE question[q].attempt_count
<1>1. work[q].present /\ question[q].status \in Pending
  BY DEF ClaimEnds, ClaimStarts, ClaimWaits, Contends, Picks, Claimable, Ownership,
         WorkIffPending
<1>2. question \in [Questions -> QuestionRows]
  BY DEF TypeOK, ColumnDomains
<1>3. CASE ClaimStarts(w, q)
  BY <1>1, <1>2, <1>3 DEF ClaimStarts, OnlyQuestion, QuestionRows
<1>4. CASE ClaimEnds(w, q) \/ ClaimWaits(w, q)
  <2>1. ~ClaimStarts(w, q)
    BY <1>4 DEF ClaimEnds, ClaimStarts, ClaimWaits, Contends
  <2> QED
    BY <1>1, <1>2, <1>4, <2>1 DEF ClaimEnds, ClaimWaits, OnlyQuestion, QuestionRows
<1> QED
  BY <1>3, <1>4

\* Who finishes is the owner, by its newest number.
LEMMA Finisher ==
  ASSUME TypeOK, Ownership, NEW w \in Workers, NEW result \in Results,
         FinishRetries(w) \/ FinishEnds(w, result)
  PROVE  LET a == worker[w].claim
             q == QuestionOf(a) IN
           /\ a \in AttemptIds /\ q \in Questions /\ HoldsLease(a)
           /\ work[q].present /\ work[q].attempt = a
           /\ attempts[a] = "processing" /\ question[q].status = "processing"
           /\ a = <<q, question[q].attempt_count>>
           /\ NumberOf(a) = question[q].attempt_count
           /\ OnlyQuestion(q) /\ now' = now
<1> DEFINE a == worker[w].claim
           q == QuestionOf(a)
<1>1. a \in AttemptIds /\ q \in Questions /\ HoldsLease(a)
  BY ClaimType DEF FinishRetries, Finishes, FinishEnds, TypeOK
<1>2. work[q].present /\ work[q].attempt = a
  BY <1>1 DEF HoldsLease
<1>3. /\ attempts[a] = "processing" /\ question[q].status = "processing"
      /\ a = <<q, question[q].attempt_count>>
  BY <1>1, <1>2, AttemptIdType DEF Ownership, OneOwner
<1>4. NumberOf(a) = question[q].attempt_count
  BY <1>3 DEF NumberOf
<1>5. OnlyQuestion(q) /\ now' = now
  BY DEF FinishRetries, FinishEnds, OnlyQuestion, TypeOK, ColumnDomains
<1> HIDE DEF a
<1> QED
  BY <1>1, <1>2, <1>3, <1>4, <1>5 DEF a

\* What the end of an attempt writes, whatever its result.
LEMMA FinishWrites ==
  ASSUME TypeOK, Ownership, NEW w \in Workers, NEW result \in Results,
         FinishRetries(w) \/ FinishEnds(w, result)
  PROVE  LET a == worker[w].claim
             q == QuestionOf(a) IN
           /\ question'[q].deadline = question[q].deadline
           /\ question'[q].attempt_count = question[q].attempt_count
           /\ question'[q].recovery_count = question[q].recovery_count
           /\ attempts'[a] \in {"transient_failure", "completed", "failed"}
           /\ \A b \in AttemptIds \ {a} : attempts'[b] = attempts[b]
           /\ work'[q].attempt = NoAttempt
           /\ \A r \in Questions \ {q} : work'[r] = work[r]
<1>1. PICK a \in AttemptIds, q \in Questions : a = worker[w].claim /\ q = QuestionOf(a)
  BY Finisher
<1>2. /\ question \in [Questions -> QuestionRows] /\ question[q] \in QuestionRows
      /\ attempts \in [AttemptIds -> Outcomes] /\ work \in [Questions -> WorkRows]
  BY DEF TypeOK, ColumnDomains
<1>3. CASE FinishRetries(w)
  <2>1. question' = [question EXCEPT ![q].status = "waiting",
                                     ![q].last_error = "transient_inference"]
    BY <1>1, <1>3 DEF FinishRetries
  <2>2. question'[q] = [question[q] EXCEPT !.status = "waiting",
                                           !.last_error = "transient_inference"]
    BY <1>2, <2>1
  <2>3. /\ question'[q].deadline = question[q].deadline
        /\ question'[q].attempt_count = question[q].attempt_count
        /\ question'[q].recovery_count = question[q].recovery_count
    BY <1>2, <2>2 DEF QuestionRows
  <2> QED
    BY <1>1, <1>2, <1>3, <2>3 DEF FinishRetries, Unowned
<1>4. CASE FinishEnds(w, result)
  <2> DEFINE status == IF result = "answer" THEN "completed" ELSE "failed"
             answer == IF result = "answer" THEN a ELSE NoAttempt
  <2>1. question' = [question EXCEPT ![q].status = status,
                                     ![q].last_error = FinalError(result),
                                     ![q].answer = answer]
    BY <1>1, <1>4 DEF FinishEnds
  <2>2. question'[q] = [question[q] EXCEPT !.status = status,
                                           !.last_error = FinalError(result),
                                           !.answer = answer]
    BY <1>2, <2>1
  <2>3. /\ question'[q].deadline = question[q].deadline
        /\ question'[q].attempt_count = question[q].attempt_count
        /\ question'[q].recovery_count = question[q].recovery_count
    BY <1>2, <2>2 DEF QuestionRows
  <2> QED
    BY <1>1, <1>2, <1>4, <2>3 DEF FinishEnds, NoWork
<1> QED
  BY <1>1, <1>3, <1>4

\* A question that is cancelled or expired, as status says.
Ended(q, status) ==
  /\ question[q].status \in Pending
  /\ question'[q] = [question[q] EXCEPT
       !.status = status,
       !.last_error = IF status = "expired" THEN "deadline_exceeded" ELSE "none"]
  /\ status \in {"expired", "cancelled"}
  /\ status = "expired" => OutOfTime(q)

\* What the end of a batch writes to each question and attempt.
LEMMA EndWrites ==
  ASSUME TypeOK, Ownership, NEW ended \in SUBSET Questions, NEW status \in Endings,
         EndStep(ended, status)
  PROVE  /\ now' = now
         /\ \A q \in Questions \ ended : question'[q] = question[q]
         /\ \A q \in ended : Ended(q, status[q])
         /\ \A a \in AttemptIds :
              attempts'[a] = IF QuestionOf(a) \in ended /\ work[QuestionOf(a)].attempt = a
                             THEN status[QuestionOf(a)] ELSE attempts[a]
<1>1. \A a \in AttemptIds :
        attempts'[a] = IF QuestionOf(a) \in ended /\ work[QuestionOf(a)].attempt = a
                       THEN status[QuestionOf(a)] ELSE attempts[a]
  BY OwnersOfEnded DEF EndStep, End, CloseAttempts, TypeOK, Ownership
<1>2. ASSUME NEW q \in ended PROVE Ended(q, status[q])
  <2>1. q \in Questions /\ status[q] \in {"expired", "cancelled"}
    BY DEF Endings
  <2> QED
    BY <2>1 DEF EndStep, End, EndedQuestions, Ended
<1> QED
  BY <1>1, <1>2 DEF EndStep, End, EndedQuestions

-------------------------------------------------------------------------------
(* Recorded reasons *)

\* ReasonIsTrue, of one row at one time.
Reasoned(row, t) ==
  /\ row.last_error = "attempts_exhausted" =>
       row.status = "failed" /\ row.attempt_count = MaxAttempts
  /\ row.status = "expired" => row.deadline <= t /\ row.last_error = "deadline_exceeded"
  /\ row.status = "completed" => row.last_error = "none"

LEMMA ReasonNext ==
  ASSUME TypeOK, Ownership, ReasonIsTrue, [Next]_vars
  PROVE  ReasonIsTrue'
<1>t. /\ question \in [Questions -> QuestionRows] /\ now \in Nat \ {0}
      /\ \A q \in Questions : Reasoned(question[q], now)
  BY DEF TypeOK, ColumnDomains, ReasonIsTrue, Reasoned
<1>0. ASSUME \A q \in Questions : Reasoned(question'[q], now') PROVE ReasonIsTrue'
  BY <1>0 DEF ReasonIsTrue, Reasoned
<1>1. ASSUME now' \in Nat, now' >= now, question' = question PROVE ReasonIsTrue'
  BY <1>t, <1>0, <1>1 DEF Reasoned, QuestionRows
<1>2. ASSUME NEW q \in Questions, Submit(q) PROVE ReasonIsTrue'
  <2>1. Reasoned(question'[q], now')
    BY <1>t, <1>2 DEF Submit, NewQuestion, Reasoned
  <2> QED
    BY <1>t, <1>0, <1>2, <2>1 DEF Submit
<1>3. ASSUME NEW ended \in SUBSET Questions, NEW status \in Endings, EndStep(ended, status)
      PROVE  ReasonIsTrue'
  <2>1. now' = now /\ \A q \in Questions \ ended : question'[q] = question[q]
    BY <1>3, EndWrites
  <2>2. ASSUME NEW q \in ended PROVE Reasoned(question'[q], now)
    <3>1. Ended(q, status[q])
      BY <1>3, EndWrites
    <3>2. question[q] \in QuestionRows
      BY <1>t
    <3> QED
      BY <1>t, <3>1, <3>2 DEF Ended, Reasoned, OutOfTime, QuestionRows
  <2> QED
    BY <1>t, <1>0, <2>1, <2>2
<1>4. ASSUME NEW w \in Workers, NEW q \in Questions,
             ClaimEnds(w, q) \/ ClaimStarts(w, q) \/ ClaimWaits(w, q)
      PROVE  ReasonIsTrue'
  <2>1. OnlyQuestion(q) /\ now' = now /\ question[q].status \in Pending
    BY <1>4, ClaimQuestion
  <2>2. Reasoned(question'[q], now)
    <3>1. CASE ClaimEnds(w, q)
      BY <1>t, <3>1 DEF ClaimEnds, OutOfTime, OutOfAttempts, Reasoned, QuestionRows
    <3>2. CASE ClaimStarts(w, q)
      BY <1>t, <2>1, <3>2 DEF ClaimStarts, Reasoned, QuestionRows, Pending
    <3>3. CASE ClaimWaits(w, q)
      BY <1>t, <2>1, <3>3 DEF ClaimWaits, Reasoned, QuestionRows, Pending
    <3> QED
      BY <1>4, <3>1, <3>2, <3>3
  <2> QED
    BY <1>t, <1>0, <2>1, <2>2 DEF OnlyQuestion
<1>5. ASSUME NEW w \in Workers, NEW result \in Results,
             FinishRetries(w) \/ FinishEnds(w, result)
      PROVE  ReasonIsTrue'
  <2> DEFINE q == QuestionOf(worker[w].claim)
  <2>1. /\ q \in Questions /\ OnlyQuestion(q) /\ now' = now
        /\ question[q].status = "processing"
        /\ NumberOf(worker[w].claim) = question[q].attempt_count
    BY <1>5, Finisher
  <2>2. CASE FinishRetries(w)
    <3>1. question'[q] = [question[q] EXCEPT !.status = "waiting",
                                             !.last_error = "transient_inference"]
      BY <1>t, <2>1, <2>2 DEF FinishRetries
    <3>2. Reasoned(question'[q], now)
      BY <1>t, <2>1, <3>1 DEF Reasoned, QuestionRows
    <3> QED
      BY <1>t, <1>0, <2>1, <3>2 DEF OnlyQuestion
  <2>3. CASE FinishEnds(w, result)
    <3>1. /\ question'[q].status = IF result = "answer" THEN "completed" ELSE "failed"
          /\ question'[q].last_error = FinalError(result)
          /\ question'[q].attempt_count = question[q].attempt_count
      BY <1>t, <2>1, <2>3 DEF FinishEnds, QuestionRows
    <3>2. result = "transient_inference" => question[q].attempt_count = MaxAttempts
      <4>1. result = "transient_inference" => NumberOf(worker[w].claim) >= MaxAttempts
        BY <2>3 DEF FinishEnds
      <4>2. question[q].attempt_count \in 0 .. MaxAttempts
        BY <1>t, <2>1 DEF QuestionRows
      <4> QED
        BY <2>1, <4>1, <4>2, ConstantsAssumption
    <3>3. Reasoned(question'[q], now)
      BY <3>1, <3>2 DEF Reasoned, FinalError, Results
    <3> QED
      BY <1>t, <1>0, <2>1, <3>3 DEF OnlyQuestion
  <2> QED
    BY <1>5, <2>2, <2>3
<1>6. Results # {}
  BY DEF Results
<1>7. ASSUME Tick \/ UNCHANGED <<now, tables>> \/ \E w \in Workers : RenewCommits(w)
      PROVE  ReasonIsTrue'
  <2>1. question' = question /\ (now' = now \/ now' = now + 1)
    BY <1>7 DEF RenewCommits, Tick, tables
  <2> QED
    BY <1>t, <1>1, <2>1
<1> QED
  BY <1>2, <1>3, <1>4, <1>5, <1>6, <1>7, StepCases

\* The recorded reason of an ending is what happened: a question that failed for
\* its attempts has used them all, and one that expired has reached its deadline.
THEOREM ReasonsAreTrue == Spec => []ReasonIsTrue
<1>1. Init => ReasonIsTrue
  BY DEF Init, ReasonIsTrue, AbsentQuestion
<1>2. TypeOK /\ Ownership /\ ReasonIsTrue /\ [Next]_vars => ReasonIsTrue'
  BY ReasonNext
<1> QED
  BY <1>1, <1>2, OwnershipInvariant, PTL DEF Spec

-------------------------------------------------------------------------------
(* Answers *)

\* AnswerAuthority, of one question and of one attempt.
Answered(row, q) ==
  /\ row.status = "completed" <=> row.answer # NoAttempt
  /\ row.answer # NoAttempt => row.answer = <<q, row.attempt_count>>

Credited(row, outcome, a) == outcome = "completed" <=> row.answer = a

LEMMA AnswerNext ==
  ASSUME TypeOK, Ownership, AnswerAuthority, [Next]_vars
  PROVE  AnswerAuthority'
<1>t. /\ question \in [Questions -> QuestionRows] /\ attempts \in [AttemptIds -> Outcomes]
      /\ \A q \in Questions : Answered(question[q], q)
      /\ \A a \in AttemptIds : Credited(question[QuestionOf(a)], attempts[a], a)
      /\ \A a \in AttemptIds : attempts[a] = "processing" <=> work[QuestionOf(a)].attempt = a
      /\ ColumnDomains /\ OneOwner
  BY DEF TypeOK, ColumnDomains, AnswerAuthority, Answered, Credited, Ownership, OneOwner
<1>0. ASSUME \A q \in Questions : Answered(question'[q], q),
             \A a \in AttemptIds : Credited(question'[QuestionOf(a)], attempts'[a], a)
      PROVE  AnswerAuthority'
  BY <1>0 DEF AnswerAuthority, Answered, Credited
<1>1. ASSUME question' = question, attempts' = attempts PROVE AnswerAuthority'
  BY <1>t, <1>0, <1>1
<1>2. ASSUME NEW q \in Questions, Submit(q) PROVE AnswerAuthority'
  <2>1. /\ question'[q].answer = NoAttempt /\ question'[q].status = "waiting"
        /\ question[q].answer = NoAttempt
        /\ OnlyQuestion(q) /\ attempts' = attempts
    BY <1>t, <1>2 DEF Submit, NewQuestion, OnlyQuestion, Answered
  <2>2. Answered(question'[q], q)
    BY <2>1 DEF Answered
  <2>3. \A a \in AttemptIds : Credited(question'[QuestionOf(a)], attempts'[a], a)
    BY <1>t, <2>1, AttemptIdType DEF Credited, OnlyQuestion
  <2> QED
    BY <1>t, <1>0, <2>1, <2>2, <2>3 DEF OnlyQuestion
\* Steps that complete nothing, and leave the answers alone.
<1>3. ASSUME NEW a \in AttemptIds,
             question'[QuestionOf(a)].answer = question[QuestionOf(a)].answer,
             attempts'[a] = attempts[a] \/ (attempts'[a] # "completed" /\ attempts[a] # "completed")
      PROVE  Credited(question'[QuestionOf(a)], attempts'[a], a)
  BY <1>t, <1>3 DEF Credited
<1>4. ASSUME NEW ended \in SUBSET Questions, NEW status \in Endings, EndStep(ended, status)
      PROVE  AnswerAuthority'
  <2>1. ASSUME NEW q \in Questions
        PROVE  Answered(question'[q], q) /\ question'[q].answer = question[q].answer
    <3>1. CASE q \in ended
      <4>1. Ended(q, status[q])
        BY <1>4, <3>1, EndWrites
      <4>2. question[q] \in QuestionRows /\ Answered(question[q], q)
        BY <1>t
      <4> QED
        BY <4>1, <4>2 DEF Ended, Answered, QuestionRows, Pending
    <3>2. CASE q \notin ended
      <4>1. question'[q] = question[q]
        BY <1>4, <3>2, EndWrites
      <4> QED
        BY <1>t, <4>1
    <3> QED
      BY <3>1, <3>2
  <2>2. ASSUME NEW a \in AttemptIds
        PROVE  Credited(question'[QuestionOf(a)], attempts'[a], a)
    <3>1. attempts'[a] = IF QuestionOf(a) \in ended /\ work[QuestionOf(a)].attempt = a
                         THEN status[QuestionOf(a)] ELSE attempts[a]
      BY <1>4, EndWrites
    <3>2. QuestionOf(a) \in Questions /\ status[QuestionOf(a)] \in {"expired", "cancelled"}
      BY AttemptIdType DEF Endings
    <3> QED
      BY <1>t, <1>3, <2>1, <3>1, <3>2
  <2> QED
    BY <1>0, <2>1, <2>2
<1>5. ASSUME NEW w \in Workers, NEW q \in Questions,
             ClaimEnds(w, q) \/ ClaimStarts(w, q) \/ ClaimWaits(w, q)
      PROVE  AnswerAuthority'
  <2>1. /\ question[q].status \in Pending /\ OnlyQuestion(q)
        /\ question'[q].answer = question[q].answer
    BY <1>5, ClaimQuestion
  <2>2. question[q].answer = NoAttempt
    BY <1>t, <2>1 DEF Answered, Pending
  <2>3. question'[q].status # "completed"
    BY <1>t, <1>5 DEF ClaimEnds, ClaimStarts, ClaimWaits, QuestionRows
  <2>4. Answered(question'[q], q)
    BY <2>1, <2>2, <2>3 DEF Answered
  <2>5. ASSUME NEW a \in AttemptIds
        PROVE  attempts'[a] = attempts[a]
               \/ (attempts'[a] # "completed" /\ attempts[a] # "completed")
    <3>1. Abandon(q)[a] = attempts[a]
          \/ (Abandon(q)[a] = "abandoned" /\ attempts[a] = "processing")
      BY <1>t, AbandonValue, OwnerOfQuestion
    <3>2. Abandon(q) \in [AttemptIds -> Outcomes] /\ NextAttempt(q) \in AttemptIds
      BY <1>t, AbandonValue, NextAttemptType
    <3>3. CASE ClaimEnds(w, q)
      BY <3>1, <3>3 DEF ClaimEnds
    <3>4. CASE ClaimStarts(w, q)
      BY <3>1, <3>2, <3>4 DEF ClaimStarts, Contends
    <3>5. CASE ClaimWaits(w, q)
      BY <3>1, <3>2, <3>5 DEF ClaimWaits, Contends
    <3> QED
      BY <1>5, <3>3, <3>4, <3>5
  <2>6. \A a \in AttemptIds : Credited(question'[QuestionOf(a)], attempts'[a], a)
    BY <1>3, <2>1, <2>5, AttemptIdType DEF OnlyQuestion
  <2> QED
    BY <1>t, <1>0, <2>1, <2>4, <2>6 DEF OnlyQuestion
<1>6. ASSUME NEW w \in Workers, NEW result \in Results,
             FinishRetries(w) \/ FinishEnds(w, result)
      PROVE  AnswerAuthority'
  <2>1. PICK a \in AttemptIds, q \in Questions :
          /\ a = worker[w].claim /\ q = QuestionOf(a)
          /\ attempts[a] = "processing" /\ question[q].status = "processing"
          /\ a = <<q, question[q].attempt_count>> /\ OnlyQuestion(q)
    BY <1>6, Finisher
  <2>2. question[q].answer = NoAttempt
    BY <1>t, <2>1 DEF Answered
  <2>3. \A b \in AttemptIds \ {a} : attempts'[b] = attempts[b]
    BY <1>t, <1>6, <2>1 DEF FinishRetries, FinishEnds
  <2>4. /\ question'[q].attempt_count = question[q].attempt_count
        /\ \/ /\ question'[q].status = "completed" /\ question'[q].answer = a
              /\ attempts'[a] = "completed"
           \/ /\ question'[q].status # "completed" /\ question'[q].answer = NoAttempt
              /\ attempts'[a] # "completed"
    <3>0. question[q] \in QuestionRows /\ a \in DOMAIN attempts /\ q \in DOMAIN question
      BY <1>t
    <3>1. CASE FinishRetries(w)
      <4>1. /\ question' = [question EXCEPT ![q].status = "waiting",
                                            ![q].last_error = "transient_inference"]
            /\ attempts' = [attempts EXCEPT ![a] = "transient_failure"]
        BY <2>1, <3>1 DEF FinishRetries
      <4>2. question'[q] = [question[q] EXCEPT !.status = "waiting",
                                               !.last_error = "transient_inference"]
            /\ attempts'[a] = "transient_failure"
        BY <3>0, <4>1
      <4> QED
        BY <2>2, <3>0, <4>2 DEF QuestionRows
    <3>2. CASE FinishEnds(w, result)
      <4> DEFINE status == IF result = "answer" THEN "completed" ELSE "failed"
                 answer == IF result = "answer" THEN a ELSE NoAttempt
      <4>1. /\ question' = [question EXCEPT ![q].status = status,
                                            ![q].last_error = FinalError(result),
                                            ![q].answer = answer]
            /\ attempts' = [attempts EXCEPT ![a] = status]
        BY <2>1, <3>2 DEF FinishEnds
      <4>2. question'[q] = [question[q] EXCEPT !.status = status,
                                               !.last_error = FinalError(result),
                                               !.answer = answer]
            /\ attempts'[a] = status
        BY <3>0, <4>1
      <4>3. /\ question'[q].status = status /\ question'[q].answer = answer
            /\ question'[q].attempt_count = question[q].attempt_count
        BY <3>0, <4>2 DEF QuestionRows
      <4> QED
        BY <4>2, <4>3
    <3> QED
      BY <1>6, <3>1, <3>2
  <2>5. Answered(question'[q], q) /\ Credited(question'[q], attempts'[a], a)
    BY <2>1, <2>4, AttemptIdType DEF Answered, Credited
  <2>6. ASSUME NEW b \in AttemptIds \ {a}
        PROVE  Credited(question'[QuestionOf(b)], attempts'[b], b)
    <3>1. CASE QuestionOf(b) # q
      BY <1>t, <2>1, <2>3, <3>1, AttemptIdType DEF Credited, OnlyQuestion
    <3>2. CASE QuestionOf(b) = q
      BY <1>t, <2>2, <2>3, <2>4, <3>2, AttemptIdType DEF Credited
    <3> QED
      BY <3>1, <3>2
  <2>7. \A b \in AttemptIds : Credited(question'[QuestionOf(b)], attempts'[b], b)
    BY <2>1, <2>5, <2>6
  <2> QED
    BY <1>t, <1>0, <2>1, <2>5, <2>7 DEF OnlyQuestion
<1>7. Results # {}
  BY DEF Results
<1>8. ASSUME Tick \/ UNCHANGED <<now, tables>> \/ \E w \in Workers : RenewCommits(w)
      PROVE  AnswerAuthority'
  BY <1>1, <1>8 DEF RenewCommits, Tick, tables
<1> QED
  BY <1>2, <1>4, <1>5, <1>6, <1>7, <1>8, StepCases

LEMMA AnswerInvariant == Spec => [](TypeOK /\ Slots /\ AnswerAuthority)
<1>1. Init => AnswerAuthority
  BY AttemptIdType DEF Init, AnswerAuthority, AbsentQuestion
<1>2. TypeOK /\ Ownership /\ AnswerAuthority /\ [Next]_vars => AnswerAuthority'
  BY AnswerNext
<1> QED
  BY <1>1, <1>2, SlotsInvariant, PTL DEF Spec, Slots

\* A question has an answer exactly when it is completed, and it is that of its
\* newest attempt, the one attempt that is recorded as completed.
THEOREM OneAnswer == Spec => []AnswerAuthority
BY AnswerInvariant, PTL

-------------------------------------------------------------------------------
(* Deadlines *)

\* WithinDeadline, of one work row.
Bounded(row, deadline) ==
  row.present => row.lease <= deadline /\ row.available <= deadline

LEMMA DeadlineNext ==
  ASSUME TypeOK, Ownership, WithinDeadline, [Next]_vars
  PROVE  WithinDeadline'
<1>t. /\ ColumnDomains /\ OneOwner
      /\ question \in [Questions -> QuestionRows] /\ work \in [Questions -> WorkRows]
      /\ leases \in [AttemptIds -> Nat] /\ now \in Nat \ {0}
      /\ \A q \in Questions : Bounded(work[q], question[q].deadline)
      /\ \A a \in AttemptIds : leases[a] <= question[QuestionOf(a)].deadline
  BY DEF TypeOK, ColumnDomains, WithinDeadline, Bounded, Ownership
<1>0. ASSUME \A q \in Questions : Bounded(work'[q], question'[q].deadline),
             \A a \in AttemptIds : leases'[a] <= question'[QuestionOf(a)].deadline
      PROVE  WithinDeadline'
  BY <1>0 DEF WithinDeadline, Bounded
<1>1. ASSUME NEW q \in Questions, Submit(q) PROVE WithinDeadline'
  <2>1. /\ question[q].deadline = 0
        /\ question'[q].deadline = now + Lifetime /\ OnlyQuestion(q)
        /\ work'[q] = Unowned(now) /\ \A r \in Questions \ {q} : work'[r] = work[r]
        /\ leases' = leases
    BY <1>t, <1>1
    DEF Submit, NewQuestion, OnlyQuestion, TypeOK, BlankRows, AbsentQuestion, NoTime
  <2>2. Bounded(work'[q], question'[q].deadline)
    BY <1>t, <2>1, ConstantsAssumption DEF Bounded, Unowned, NoTime
  <2>3. ASSUME NEW a \in AttemptIds PROVE leases'[a] <= question'[QuestionOf(a)].deadline
    <3>1. CASE QuestionOf(a) = q
      <4>1. leases'[a] \in Nat /\ leases'[a] <= 0
        BY <1>t, <2>1, <3>1
      <4> QED
        BY <1>t, <2>1, <3>1, <4>1, ConstantsAssumption
    <3>2. CASE QuestionOf(a) # q
      BY <1>t, <2>1, <3>2, AttemptIdType DEF OnlyQuestion
    <3> QED
      BY <3>1, <3>2
  <2> QED
    BY <1>t, <1>0, <2>1, <2>2, <2>3 DEF OnlyQuestion
\* Any other step keeps the deadlines.
<1>2. ASSUME \A q \in Questions : question'[q].deadline = question[q].deadline,
             \A q \in Questions :
               \/ work'[q] = work[q] \/ ~work'[q].present
               \/ Bounded(work'[q], question[q].deadline),
             \A a \in AttemptIds :
               leases'[a] \in {leases[a], 0} \/ leases'[a] <= question[QuestionOf(a)].deadline
      PROVE  WithinDeadline'
  <2>1. \A q \in Questions : Bounded(work'[q], question'[q].deadline)
    BY <1>t, <1>2 DEF Bounded
  <2>2. \A a \in AttemptIds : question[QuestionOf(a)].deadline \in Nat
    BY <1>t, AttemptIdType DEF QuestionRows
  <2>3. \A a \in AttemptIds : leases'[a] <= question'[QuestionOf(a)].deadline
    BY <1>t, <1>2, <2>2, AttemptIdType
  <2> QED
    BY <1>0, <2>1, <2>3
<1>3. ASSUME NEW ended \in SUBSET Questions, NEW status \in Endings, EndStep(ended, status)
      PROVE  WithinDeadline'
  <2>1. ASSUME NEW q \in Questions PROVE question'[q].deadline = question[q].deadline
    <3>1. CASE q \in ended
      <4>1. Ended(q, status[q])
        BY <1>3, <3>1, EndWrites
      <4>2. question[q] \in QuestionRows
        BY <1>t
      <4> QED
        BY <4>1, <4>2 DEF Ended, QuestionRows
    <3>2. CASE q \notin ended
      BY <1>3, <3>2, EndWrites
    <3> QED
      BY <3>1, <3>2
  <2>2. /\ \A q \in Questions : work'[q] = work[q] \/ ~work'[q].present
        /\ \A a \in AttemptIds : leases'[a] \in {leases[a], 0}
    BY <1>t, <1>3 DEF EndStep, End, DropWork, FreeSlots, NoWork, NoTime
  <2> QED
    BY <1>2, <2>1, <2>2
<1>4. ASSUME NEW w \in Workers, NEW q \in Questions,
             ClaimEnds(w, q) \/ ClaimStarts(w, q) \/ ClaimWaits(w, q)
      PROVE  WithinDeadline'
  <2>1. /\ \A r \in Questions : question'[r].deadline = question[r].deadline
        /\ work[q].present
    BY <1>4, ClaimQuestion DEF OnlyQuestion
  <2>2. /\ LeaseUntil(q) \in Nat /\ LeaseUntil(q) <= question[q].deadline
        /\ question[q].deadline \in Nat
        /\ NextAttempt(q) \in AttemptIds /\ QuestionOf(NextAttempt(q)) = q
    BY <1>t, LeaseUntilType, NextAttemptType DEF NextAttempt, QuestionOf, QuestionRows
  <2>3. ASSUME NEW r \in Questions
        PROVE  \/ work'[r] = work[r] \/ ~work'[r].present
               \/ Bounded(work'[r], question[r].deadline)
    <3>1. CASE r # q
      BY <1>t, <1>4, <3>1 DEF ClaimEnds, ClaimStarts, ClaimWaits
    <3>2. CASE r = q /\ ClaimEnds(w, q)
      BY <1>t, <3>2 DEF ClaimEnds, NoWork
    <3>3. CASE r = q /\ ClaimStarts(w, q)
      BY <1>t, <2>1, <2>2, <3>3 DEF ClaimStarts, Bounded, WorkRows
    <3>4. CASE r = q /\ ClaimWaits(w, q)
      BY <1>t, <2>1, <2>2, <3>4 DEF ClaimWaits, Bounded, WorkRows, NoTime
    <3> QED
      BY <1>4, <3>1, <3>2, <3>3, <3>4
  <2>4. ASSUME NEW a \in AttemptIds
        PROVE  leases'[a] \in {leases[a], 0} \/ leases'[a] <= question[QuestionOf(a)].deadline
    <3>1. CASE ClaimEnds(w, q)
      BY <3>1 DEF ClaimEnds
    <3>2. CASE Contends(w, q)
      <4>1. leases'[a] = IF a = NextAttempt(q) /\ Acquired(q).granted THEN LeaseUntil(q)
                         ELSE IF leases[a] <= now THEN NoTime ELSE leases[a]
        BY <3>2, ClaimLeases
      <4>2. CASE a = NextAttempt(q) /\ Acquired(q).granted
        BY <2>2, <4>1, <4>2
      <4>3. CASE ~(a = NextAttempt(q) /\ Acquired(q).granted)
        BY <4>1, <4>3 DEF NoTime
      <4> QED
        BY <4>2, <4>3
    <3> QED
      BY <1>4, <3>1, <3>2 DEF ClaimStarts, ClaimWaits
  <2> QED
    BY <1>2, <2>1, <2>3, <2>4
<1>5. ASSUME NEW w \in Workers, RenewCommits(w) PROVE WithinDeadline'
  <2>1. PICK a \in AttemptIds, q \in Questions : a = worker[w].claim /\ q = QuestionOf(a)
    BY <1>t, <1>5, ClaimType DEF RenewCommits
  <2>u. PICK until \in Nat : Renewed(w, until)
    BY <1>t, <1>5, RenewalWrites
  <2>2. until <= question[q].deadline /\ work[q].present
    BY <1>5, <2>u, <2>1 DEF Renewed, RenewCommits, Ownership, Renewals
  <2>3. /\ question' = question
        /\ work' = [work EXCEPT ![q].lease = until, ![q].late = @ \/ work[q].lease <= now]
        /\ leases' = leases \/ leases' = [leases EXCEPT ![a] = until]
    BY <2>u, <2>1 DEF Renewed, ExtendSlot
  <2>4. Bounded(work'[q], question[q].deadline)
    BY <1>t, <2>2, <2>3 DEF Bounded, WorkRows
  <2>5. \A r \in Questions \ {q} : work'[r] = work[r]
    BY <1>t, <2>3
  <2>6. \A b \in AttemptIds :
          leases'[b] \in {leases[b], 0} \/ leases'[b] <= question[QuestionOf(b)].deadline
    BY <1>t, <2>1, <2>2, <2>3
  <2> QED
    BY <1>2, <2>3, <2>4, <2>5, <2>6
<1>6. ASSUME NEW w \in Workers, NEW result \in Results,
             FinishRetries(w) \/ FinishEnds(w, result)
      PROVE  WithinDeadline'
  <2>1. PICK a \in AttemptIds, q \in Questions :
          a = worker[w].claim /\ q = QuestionOf(a) /\ OnlyQuestion(q)
    BY <1>6, Finisher
  <2>2. \A r \in Questions : question'[r].deadline = question[r].deadline
    BY <1>6, <2>1, FinishWrites DEF OnlyQuestion
  <2>3. /\ \A r \in Questions \ {q} : work'[r] = work[r]
        /\ \A b \in AttemptIds : leases'[b] \in {leases[b], 0}
    BY <1>t, <1>6, <2>1 DEF FinishRetries, FinishEnds, FreeSlot, NoTime
  <2>4. ~work'[q].present \/ Bounded(work'[q], question[q].deadline)
    <3>1. CASE FinishRetries(w)
      <4>1. PICK delay \in Backoff(a) :
              work' = [work EXCEPT ![q] = Unowned(MinTime(question[q].deadline, now + delay))]
        BY <2>1, <3>1 DEF FinishRetries
      <4>2. MinTime(question[q].deadline, now + delay) <= question[q].deadline
        BY <1>t, BackoffType DEF MinTime, QuestionRows
      <4>3. question[q].deadline >= NoTime
        BY <1>t DEF NoTime, QuestionRows
      <4> QED
        BY <1>t, <4>1, <4>2, <4>3 DEF Unowned, Bounded, NoTime, QuestionRows
    <3>2. CASE FinishEnds(w, result)
      BY <1>t, <2>1, <3>2 DEF FinishEnds, NoWork
    <3> QED
      BY <1>6, <3>1, <3>2
  <2> QED
    BY <1>2, <2>2, <2>3, <2>4
<1>7. Results # {}
  BY DEF Results
<1>8. ASSUME Tick \/ UNCHANGED <<now, tables>> PROVE WithinDeadline'
  BY <1>2, <1>8 DEF Tick, tables
<1> QED
  BY <1>1, <1>3, <1>4, <1>5, <1>6, <1>7, <1>8, StepCases

\* No lease, slot or backoff reaches past the deadline of its question.
THEOREM NothingOutlivesDeadline == Spec => []WithinDeadline
<1>1. Init => WithinDeadline
  BY AttemptIdType DEF Init, WithinDeadline, AbsentQuestion, NoWork, NoTime
<1>2. TypeOK /\ Ownership /\ WithinDeadline /\ [Next]_vars => WithinDeadline'
  BY DeadlineNext
<1> QED
  BY <1>1, <1>2, OwnershipInvariant, PTL DEF Spec

-------------------------------------------------------------------------------
(* The ledger of attempts *)

\* AttemptLedger, of one question with the outcomes A of its attempts.
Numbered(count, q, A) ==
  \A n \in Numbers :
    /\ n <= count => A[<<q, n>>] \notin {"none", "admission_wait"}
    /\ n = count + 1 => A[<<q, n>>] \in {"none", "admission_wait"}
    /\ n > count + 1 => A[<<q, n>>] = "none"

AbandonedBy(q, A) == {n \in Numbers : A[<<q, n>>] = "abandoned"}

Ledger(row, q, A) ==
  /\ Numbered(row.attempt_count, q, A)
  /\ row.recovery_count = Cardinality(AbandonedBy(q, A))

LEMMA LedgerMeaning ==
  TypeOK => (AttemptLedger <=> \A q \in Questions : Ledger(question[q], q, attempts))
<1> SUFFICES ASSUME TypeOK
             PROVE  AttemptLedger <=> \A q \in Questions : Ledger(question[q], q, attempts)
  OBVIOUS
<1>1. \A q \in Questions : question[q].attempt_count <= MaxAttempts
  BY ConstantsAssumption DEF TypeOK, ColumnDomains, QuestionRows
<1>2. AttemptLedger => \A q \in Questions : Ledger(question[q], q, attempts)
  BY DEF AttemptLedger, Ledger, Numbered, AbandonedBy
<1>3. ASSUME \A q \in Questions : Ledger(question[q], q, attempts) PROVE AttemptLedger
  BY <1>1, <1>3 DEF AttemptLedger, Ledger, Numbered, AbandonedBy
<1> QED
  BY <1>2, <1>3

LEMMA NumberedType ==
  ASSUME NEW q \in Questions, NEW n \in Numbers
  PROVE  <<q, n>> \in AttemptIds /\ QuestionOf(<<q, n>>) = q /\ NumberOf(<<q, n>>) = n
BY DEF AttemptIds, QuestionOf, NumberOf

LEMMA AbandonedFinite ==
  ASSUME NEW q, NEW A
  PROVE  IsFiniteSet(AbandonedBy(q, A))
<1>1. IsFiniteSet(Numbers)
  BY FS_Interval, ConstantsAssumption DEF Numbers
<1>2. AbandonedBy(q, A) \subseteq Numbers
  BY DEF AbandonedBy
<1> QED
  BY <1>1, <1>2, FS_Subset

\* Closing an open attempt, other than by abandoning it, keeps the ledger.
LEMMA LedgerClosed ==
  ASSUME TypeOK, NEW q \in Questions, Ledger(question[q], q, attempts),
         question'[q].attempt_count = question[q].attempt_count,
         question'[q].recovery_count = question[q].recovery_count,
         \A n \in Numbers :
           \/ attempts'[<<q, n>>] = attempts[<<q, n>>]
           \/ /\ attempts[<<q, n>>] = "processing"
              /\ attempts'[<<q, n>>] \notin {"none", "admission_wait", "abandoned"}
  PROVE  Ledger(question'[q], q, attempts')
<1>1. question[q].attempt_count \in Nat
  BY DEF TypeOK, ColumnDomains, QuestionRows
<1>2. \A n \in Numbers : n \in Nat
  BY DEF Numbers
<1>3. \A n \in Numbers : attempts[<<q, n>>] = "processing" => n <= question[q].attempt_count
  BY <1>1, <1>2 DEF Ledger, Numbered
<1>4. Numbered(question'[q].attempt_count, q, attempts')
  BY <1>1, <1>2, <1>3 DEF Ledger, Numbered
<1>5. AbandonedBy(q, attempts') = AbandonedBy(q, attempts)
  BY DEF AbandonedBy
<1> QED
  BY <1>4, <1>5 DEF Ledger

\* A claim first abandons the attempt on the row, and counts it.
LEMMA LedgerAbandoned ==
  ASSUME TypeOK, Ownership, NEW q \in Questions, Ledger(question[q], q, attempts)
  PROVE  /\ Numbered(question[q].attempt_count, q, Abandon(q))
         /\ Recoveries(q) = Cardinality(AbandonedBy(q, Abandon(q)))
<1> DEFINE count == question[q].attempt_count
<1>1. count \in 0..MaxAttempts /\ \A n \in Numbers : n \in Nat
  BY DEF TypeOK, ColumnDomains, QuestionRows, Numbers
<1>2. question[q].recovery_count = Cardinality(AbandonedBy(q, attempts))
  BY DEF Ledger
<1>3. CASE work[q].attempt = NoAttempt
  BY <1>2, <1>3 DEF Ledger, Abandon, Recoveries, TypeOK, ColumnDomains, QuestionRows
<1>4. CASE work[q].attempt # NoAttempt
  <2>0. work[q].attempt \in AttemptIds
    BY <1>4 DEF TypeOK, ColumnDomains, WorkRows
  <2>1. work[q].attempt = <<q, count>> /\ <<q, count>> \in AttemptIds
    BY <1>4, <2>0 DEF Ownership, OneOwner
  <2>2. attempts[<<q, count>>] = "processing" /\ count \in Numbers
    BY <2>1, OwnerOfQuestion DEF TypeOK, Ownership, AttemptIds
  <2>3. \A n \in Numbers : Abandon(q)[<<q, n>>] = IF n = count THEN "abandoned"
                                                  ELSE attempts[<<q, n>>]
    BY <2>1, AbandonValue, NumberedType DEF TypeOK
  <2>4. Numbered(count, q, Abandon(q))
    BY <1>1, <2>3 DEF Ledger, Numbered
  <2>5. /\ AbandonedBy(q, Abandon(q)) = AbandonedBy(q, attempts) \cup {count}
        /\ count \notin AbandonedBy(q, attempts)
    BY <2>2, <2>3 DEF AbandonedBy
  <2>6. Cardinality(AbandonedBy(q, Abandon(q))) = Cardinality(AbandonedBy(q, attempts)) + 1
    BY <2>5, AbandonedFinite, FS_AddElement
  <2> QED
    BY <1>2, <1>4, <2>4, <2>6 DEF Recoveries
<1> QED
  BY <1>3, <1>4

LEMMA LedgerNext ==
  ASSUME TypeOK, Ownership, AttemptLedger, [Next]_vars, TypeOK'
  PROVE  AttemptLedger'
<1>t. /\ question \in [Questions -> QuestionRows] /\ attempts \in [AttemptIds -> Outcomes]
      /\ ColumnDomains /\ OneOwner
      /\ \A q \in Questions : Ledger(question[q], q, attempts)
  BY LedgerMeaning DEF TypeOK, ColumnDomains, Ownership
<1>0. ASSUME \A q \in Questions : Ledger(question'[q], q, attempts') PROVE AttemptLedger'
  <2>1. (AttemptLedger <=> \A q \in Questions : Ledger(question[q], q, attempts))'
    BY LedgerMeaning, PTL
  <2> QED
    BY <1>0, <2>1
\* A question whose row and attempts a step leaves alone.
<1>1. ASSUME NEW q \in Questions, question'[q] = question[q],
             \A n \in Numbers : attempts'[<<q, n>>] = attempts[<<q, n>>]
      PROVE  Ledger(question'[q], q, attempts')
  BY <1>t, <1>1, LedgerClosed
<1>2. ASSUME question' = question, attempts' = attempts PROVE AttemptLedger'
  BY <1>0, <1>1, <1>2
<1>3. ASSUME NEW q \in Questions, Submit(q) PROVE AttemptLedger'
  <2>1. /\ question[q].attempt_count = 0 /\ question[q].recovery_count = 0
        /\ question'[q].attempt_count = 0 /\ question'[q].recovery_count = 0
        /\ OnlyQuestion(q) /\ attempts' = attempts
    BY <1>t, <1>3 DEF Submit, NewQuestion, AbsentQuestion, TypeOK, BlankRows, OnlyQuestion
  <2>2. Ledger(question'[q], q, attempts')
    BY <1>t, <2>1, LedgerClosed
  <2> QED
    BY <1>0, <1>1, <2>1, <2>2 DEF OnlyQuestion
<1>4. ASSUME NEW ended \in SUBSET Questions, NEW status \in Endings, EndStep(ended, status)
      PROVE  AttemptLedger'
  <2>1. ASSUME NEW q \in Questions PROVE Ledger(question'[q], q, attempts')
    <3>1. /\ question'[q].attempt_count = question[q].attempt_count
          /\ question'[q].recovery_count = question[q].recovery_count
      <4>1. CASE q \in ended
        <5>1. Ended(q, status[q])
          BY <1>4, <4>1, EndWrites
        <5>2. question[q] \in QuestionRows
          BY <1>t
        <5> QED
          BY <5>1, <5>2 DEF Ended, QuestionRows
      <4>2. CASE q \notin ended
        BY <1>4, <4>2, EndWrites
      <4> QED
        BY <4>1, <4>2
    <3>2. ASSUME NEW n \in Numbers
          PROVE  \/ attempts'[<<q, n>>] = attempts[<<q, n>>]
                 \/ /\ attempts[<<q, n>>] = "processing"
                    /\ attempts'[<<q, n>>] \notin {"none", "admission_wait", "abandoned"}
      <4>1. /\ <<q, n>> \in AttemptIds /\ QuestionOf(<<q, n>>) = q
            /\ status[q] \in {"expired", "cancelled"}
        BY NumberedType DEF Endings
      <4>0. \A a \in AttemptIds :
               attempts'[a] = IF QuestionOf(a) \in ended /\ work[QuestionOf(a)].attempt = a
                              THEN status[QuestionOf(a)] ELSE attempts[a]
        BY <1>4, EndWrites
      <4>2. attempts'[<<q, n>>] = IF q \in ended /\ work[q].attempt = <<q, n>>
                                  THEN status[q] ELSE attempts[<<q, n>>]
        BY <4>0, <4>1
      <4> QED
        BY <1>t, <4>1, <4>2, OwnerOfQuestion
    <3> QED
      BY <1>t, <3>1, <3>2, LedgerClosed
  <2> QED
    BY <1>0, <2>1
<1>5. ASSUME NEW w \in Workers, NEW q \in Questions,
             ClaimEnds(w, q) \/ ClaimStarts(w, q) \/ ClaimWaits(w, q)
      PROVE  AttemptLedger'
  <2> DEFINE count == question[q].attempt_count
  <2>1. /\ OnlyQuestion(q) /\ question'[q].recovery_count = Recoveries(q)
        /\ question'[q].attempt_count = IF ClaimStarts(w, q) THEN count + 1 ELSE count
    BY <1>5, ClaimQuestion
  <2>2. /\ Numbered(count, q, Abandon(q))
        /\ Recoveries(q) = Cardinality(AbandonedBy(q, Abandon(q)))
    BY <1>t, LedgerAbandoned
  <2>3. /\ Abandon(q) \in [AttemptIds -> Outcomes] /\ NextAttempt(q) \in AttemptIds
        /\ \A a \in AttemptIds :
             Abandon(q)[a] = IF work[q].attempt = a THEN "abandoned" ELSE attempts[a]
    BY <1>t, AbandonValue, NextAttemptType
  <2>4. \E outcome \in {"processing", "admission_wait"} :
          \/ attempts' = Abandon(q) /\ ~ClaimStarts(w, q)
          \/ /\ attempts' = [Abandon(q) EXCEPT ![NextAttempt(q)] = outcome]
             /\ outcome = "processing" <=> ClaimStarts(w, q)
             /\ attempts[NextAttempt(q)] = "none"
    BY <1>5 DEF ClaimEnds, ClaimStarts, ClaimWaits, Contends
  <2>5. \A r \in Questions \ {q}, n \in Numbers : attempts'[<<r, n>>] = attempts[<<r, n>>]
    <3>1. ASSUME NEW r \in Questions \ {q}, NEW n \in Numbers
          PROVE  Abandon(q)[<<r, n>>] = attempts[<<r, n>>] /\ <<r, n>> # NextAttempt(q)
      BY <1>t, <2>3, <3>1, NumberedType, OwnerOfQuestion DEF NextAttempt
    <3> QED
      BY <2>3, <2>4, <3>1, NumberedType
  <2>6. Ledger(question'[q], q, attempts')
    <3>1. CASE attempts' = Abandon(q) /\ ~ClaimStarts(w, q)
      BY <2>1, <2>2, <3>1 DEF Ledger
    <3>2. ASSUME NEW outcome \in {"processing", "admission_wait"},
                 attempts' = [Abandon(q) EXCEPT ![NextAttempt(q)] = outcome],
                 outcome = "processing" <=> ClaimStarts(w, q),
                 attempts[NextAttempt(q)] = "none"
          PROVE  Ledger(question'[q], q, attempts')
      <4>1. /\ NextAttempt(q) = <<q, count + 1>> /\ count \in Nat
            /\ \A n \in Numbers : n \in Nat
        BY <1>t DEF NextAttempt, QuestionRows, Numbers
      <4>2. Abandon(q)[<<q, count + 1>>] = "none"
        BY <1>t, <2>3, <3>2, <4>1, OwnerOfQuestion
      <4>3. \A n \in Numbers : attempts'[<<q, n>>] = IF n = count + 1 THEN outcome
                                                     ELSE Abandon(q)[<<q, n>>]
        BY <2>3, <3>2, <4>1, NumberedType
      <4>4. AbandonedBy(q, attempts') = AbandonedBy(q, Abandon(q))
        BY <4>2, <4>3 DEF AbandonedBy
      <4>5. Numbered(question'[q].attempt_count, q, attempts')
        BY <2>1, <2>2, <3>2, <4>1, <4>3 DEF Numbered
      <4> QED
        BY <2>1, <2>2, <4>4, <4>5 DEF Ledger
    <3> QED
      BY <2>4, <3>1, <3>2
  <2> QED
    BY <1>0, <1>1, <2>1, <2>5, <2>6 DEF OnlyQuestion
<1>6. ASSUME NEW w \in Workers, NEW result \in Results,
             FinishRetries(w) \/ FinishEnds(w, result)
      PROVE  AttemptLedger'
  <2>1. PICK a \in AttemptIds, q \in Questions :
          a = worker[w].claim /\ q = QuestionOf(a) /\ OnlyQuestion(q)
          /\ attempts[a] = "processing"
    BY <1>6, Finisher
  <2>2. /\ question'[q].attempt_count = question[q].attempt_count
        /\ question'[q].recovery_count = question[q].recovery_count
        /\ attempts'[a] \in {"transient_failure", "completed", "failed"}
        /\ \A b \in AttemptIds \ {a} : attempts'[b] = attempts[b]
    BY <1>6, <2>1, FinishWrites
  <2>3. Ledger(question'[q], q, attempts')
    BY <1>t, <2>1, <2>2, LedgerClosed, NumberedType
  <2>4. ASSUME NEW r \in Questions \ {q} PROVE Ledger(question'[r], r, attempts')
    <3>1. \A n \in Numbers : <<r, n>> \in AttemptIds \ {a}
      BY <2>1, NumberedType
    <3> QED
      BY <1>1, <2>1, <2>2, <3>1 DEF OnlyQuestion
  <2> QED
    BY <1>0, <2>3, <2>4
<1>7. Results # {}
  BY DEF Results
<1>8. ASSUME Tick \/ UNCHANGED <<now, tables>> \/ \E w \in Workers : RenewCommits(w)
      PROVE  AttemptLedger'
  BY <1>2, <1>8 DEF RenewCommits, Tick, tables
<1> QED
  BY <1>3, <1>4, <1>5, <1>6, <1>7, <1>8, StepCases

\* The counters of a question agree with the attempts table: the budget cannot
\* be reset, overdrawn or lost in a crash.
THEOREM LedgerAgrees == Spec => []AttemptLedger
<1>1. Init => AttemptLedger
  <2> SUFFICES ASSUME Init PROVE AttemptLedger
    OBVIOUS
  <2>2. TypeOK
    BY InitType DEF Init, TypeOK, BlankRows, NoWork, AbsentQuestion
  <2>3. ASSUME NEW q \in Questions PROVE Ledger(question[q], q, attempts)
    <3>1. \A n \in Numbers : attempts[<<q, n>>] = "none" /\ n >= 1
      BY NumberedType DEF Init, Numbers
    <3>2. AbandonedBy(q, attempts) = {}
      BY <3>1 DEF AbandonedBy
    <3>3. Cardinality(AbandonedBy(q, attempts)) = 0
      BY <3>2, FS_EmptySet
    <3>4. question[q].attempt_count = 0 /\ question[q].recovery_count = 0
      BY DEF Init, AbsentQuestion
    <3> QED
      BY <3>1, <3>3, <3>4 DEF Ledger, Numbered, Numbers
  <2> QED
    BY <2>2, <2>3, LedgerMeaning
<1>2. TypeOK /\ TypeOK' /\ Ownership /\ AttemptLedger /\ [Next]_vars => AttemptLedger'
  BY LedgerNext
<1> QED
  BY <1>1, <1>2, OwnershipInvariant, PTL DEF Spec

-------------------------------------------------------------------------------
(* Refinement: the queue implements QuestionLifecycle *)

IsOpen(outcome) == outcome \in {"none", "processing"}

\* Outcomes are not taken back, and q's owner, if there is one, gets one.
Removes(q) ==
  /\ \A a \in AttemptIds : ~IsOpen(attempts[a]) => ~IsOpen(attempts'[a])
  /\ work[q].attempt # NoAttempt =>
       work[q].attempt \in AttemptIds /\ ~IsOpen(attempts'[work[q].attempt])

\* The status, owner and answer of q become these, those of the others stay.
Turns(q, status, owner, answer) ==
  \A r \in Questions :
    /\ question'[r].status = IF r = q THEN status ELSE question[r].status
    /\ work'[r].attempt = IF r = q THEN owner ELSE work[r].attempt
    /\ question'[r].answer = IF r = q THEN answer ELSE question[r].answer

LEMMA MapRemoves ==
  ASSUME NEW q \in Questions, Removes(q)
  PROVE  Lifecycle!Dethrones(q)
BY DEF Removes, IsOpen, Lifecycle!Dethrones

LEMMA MapTake ==
  ASSUME NEW q \in Questions, NEW a \in AttemptIds, question[q].status \in Pending,
         IsOpen(attempts[a]), IsOpen(attempts'[a]), work[q].attempt # a, Removes(q),
         Turns(q, "processing", a, question[q].answer)
  PROVE  Lifecycle!Take(q, a)
BY MapRemoves DEF Turns, IsOpen, Pending, Lifecycle!Take, Lifecycle!Pending

LEMMA MapYield ==
  ASSUME NEW q \in Questions, question[q].status \in Pending, Removes(q),
         Turns(q, "waiting", NoAttempt, question[q].answer)
  PROVE  Lifecycle!Yield(q)
BY MapRemoves DEF Turns, Pending, Lifecycle!Yield, Lifecycle!Pending

LEMMA MapComplete ==
  ASSUME NEW q \in Questions, question[q].status = "processing", Removes(q),
         Turns(q, "completed", NoAttempt, work[q].attempt)
  PROVE  Lifecycle!Complete(q)
BY MapRemoves DEF Turns, Lifecycle!Complete

LEMMA MapEnd ==
  ASSUME NEW ended \in SUBSET Questions, NEW outcome,
         \A q \in ended : question[q].status \in Pending /\ Removes(q),
         \A r \in Questions :
           /\ question'[r].status = IF r \in ended THEN outcome ELSE question[r].status
           /\ work'[r].attempt = IF r \in ended THEN NoAttempt ELSE work[r].attempt
           /\ question'[r].answer = question[r].answer
  PROVE  Lifecycle!EndUnanswered(ended, outcome)
BY MapRemoves DEF Pending, Lifecycle!EndUnanswered, Lifecycle!Pending

LEMMA MapStutter ==
  ASSUME \A r \in Questions :
           /\ question'[r].status = question[r].status
           /\ question'[r].answer = question[r].answer
           /\ work'[r].attempt = work[r].attempt,
         attempts' = attempts
  PROVE  UNCHANGED Lifecycle!vars
BY DEF Lifecycle!vars

LEMMA MapInit == Init => Lifecycle!Init
BY DEF Init, AbsentQuestion, NoWork, Lifecycle!Init

\* A cancellation and an expiry are endings without an answer.
LEMMA EndImplements ==
  ASSUME TypeOK, Slots, [Next]_vars, NEW ended \in SUBSET Questions,
         NEW status \in Endings, EndStep(ended, status), ended # {},
         NEW outcome \in {"expired", "cancelled"}, \A q \in ended : status[q] = outcome
  PROVE  Lifecycle!Next
<1>t. Ownership /\ OneOwner /\ work \in [Questions -> WorkRows]
  BY DEF Slots, Ownership, TypeOK, ColumnDomains
<1>1. ASSUME NEW q \in ended PROVE Removes(q)
  <2>1. \A a \in AttemptIds : ~IsOpen(attempts[a]) => ~IsOpen(attempts'[a])
    BY StepTouches DEF IsOpen
  <2>2. ASSUME work[q].attempt # NoAttempt
        PROVE  work[q].attempt \in AttemptIds /\ ~IsOpen(attempts'[work[q].attempt])
    <3>1. PICK a \in AttemptIds : a = work[q].attempt
      BY <1>t, <2>2 DEF WorkRows
    <3>2. QuestionOf(a) = q
      BY <1>t, <3>1, OwnerOfQuestion DEF TypeOK
    <3>3. attempts'[a] = IF QuestionOf(a) \in ended /\ work[QuestionOf(a)].attempt = a
                         THEN status[QuestionOf(a)] ELSE attempts[a]
      BY <1>t, EndWrites
    <3> QED
      BY <3>1, <3>2, <3>3 DEF IsOpen
  <2> QED
    BY <2>1, <2>2 DEF Removes
<1>2. ASSUME NEW q \in ended
      PROVE  /\ question[q].status \in Pending /\ question'[q].status = outcome
             /\ question'[q].answer = question[q].answer
  <2>1. Ended(q, outcome)
    BY <1>t, EndWrites
  <2>2. question[q] \in QuestionRows
    BY DEF TypeOK, ColumnDomains
  <2> QED
    BY <2>1, <2>2 DEF Ended, QuestionRows
<1>3. /\ \A q \in Questions \ ended : question'[q] = question[q]
      /\ \A q \in Questions : work'[q].attempt = IF q \in ended THEN NoAttempt
                                                 ELSE work[q].attempt
  BY <1>t, EndWrites DEF EndStep, End, DropWork, NoWork
<1>4. Lifecycle!EndUnanswered(ended, outcome)
  BY <1>1, <1>2, <1>3, MapEnd
<1> QED
  BY <1>4 DEF Lifecycle!Next, Lifecycle!Unanswered

\* A claim takes the question, sets it aside, or ends it.
LEMMA ClaimImplements ==
  ASSUME TypeOK, Slots, [Next]_vars, NEW w \in Workers, NEW q \in Questions,
         ClaimEnds(w, q) \/ ClaimStarts(w, q) \/ ClaimWaits(w, q)
  PROVE  Lifecycle!Next
<1>t. /\ Ownership /\ OneOwner /\ ColumnDomains
      /\ work \in [Questions -> WorkRows] /\ question \in [Questions -> QuestionRows]
  BY DEF Slots, Ownership, TypeOK, ColumnDomains
<1>1. /\ question[q].status \in Pending /\ OnlyQuestion(q)
      /\ question'[q].answer = question[q].answer
  BY <1>t, ClaimQuestion
<1>2. /\ Abandon(q) \in [AttemptIds -> Outcomes] /\ NextAttempt(q) \in AttemptIds
      /\ \A a \in AttemptIds :
           Abandon(q)[a] = IF work[q].attempt = a THEN "abandoned" ELSE attempts[a]
  BY <1>t, AbandonValue, NextAttemptType
<1>3. \A a \in AttemptIds : work[q].attempt = a => attempts[a] = "processing"
  BY <1>t, OwnerOfQuestion
<1>4. Removes(q)
  <2>1. \A a \in AttemptIds : ~IsOpen(attempts[a]) => ~IsOpen(attempts'[a])
    BY StepTouches DEF IsOpen
  <2>2. ASSUME NEW a \in AttemptIds, work[q].attempt = a PROVE attempts'[a] = "abandoned"
    <3>1. CASE ClaimEnds(w, q)
      BY <1>2, <2>2, <3>1 DEF ClaimEnds
    <3>2. CASE ClaimStarts(w, q)
      BY <1>2, <1>3, <2>2, <3>2 DEF ClaimStarts, Contends
    <3>3. CASE ClaimWaits(w, q)
      BY <1>2, <1>3, <2>2, <3>3 DEF ClaimWaits, Contends
    <3> QED
      BY <3>1, <3>2, <3>3
  <2> QED
    BY <1>t, <2>1, <2>2 DEF Removes, IsOpen, WorkRows
<1>5. CASE ClaimEnds(w, q)
  <2>1. PICK outcome \in {"expired", "failed"} :
          question'[q].status = outcome /\ work'[q].attempt = NoAttempt
    BY <1>t, <1>5 DEF ClaimEnds, QuestionRows, NoWork
  <2>2. \A r \in Questions \ {q} : work'[r] = work[r]
    BY <1>t, <1>5 DEF ClaimEnds
  <2>3. Lifecycle!EndUnanswered({q}, outcome)
    BY <1>1, <1>4, <2>1, <2>2, MapEnd DEF OnlyQuestion
  <2> QED
    BY <2>1, <2>3 DEF Lifecycle!Next, Lifecycle!Unanswered
<1>6. CASE ClaimStarts(w, q)
  <2>0. PICK next \in AttemptIds : next = NextAttempt(q)
    BY <1>2
  <2>1. /\ question'[q].status = "processing" /\ work'[q].attempt = next
        /\ \A r \in Questions \ {q} : work'[r] = work[r]
        /\ attempts[next] = "none" /\ attempts'[next] = "processing"
    BY <1>t, <1>2, <1>6, <2>0 DEF ClaimStarts, Contends, QuestionRows, WorkRows
  <2>2. work[q].attempt # next
    BY <1>3, <2>1
  <2>3. Turns(q, "processing", next, question[q].answer)
    BY <1>1, <2>1 DEF Turns, OnlyQuestion
  <2>4. Lifecycle!Take(q, next)
    BY <1>1, <1>4, <2>1, <2>2, <2>3, MapTake DEF IsOpen
  <2> QED
    BY <2>4 DEF Lifecycle!Next
<1>7. CASE ClaimWaits(w, q)
  <2>1. /\ question'[q].status = "waiting" /\ work'[q].attempt = NoAttempt
        /\ \A r \in Questions \ {q} : work'[r] = work[r]
    BY <1>t, <1>7 DEF ClaimWaits, QuestionRows, WorkRows
  <2>2. Turns(q, "waiting", NoAttempt, question[q].answer)
    BY <1>1, <2>1 DEF Turns, OnlyQuestion
  <2>3. Lifecycle!Yield(q)
    BY <1>1, <1>4, <2>2, MapYield
  <2> QED
    BY <2>3 DEF Lifecycle!Next
<1> QED
  BY <1>5, <1>6, <1>7

\* The end of an attempt completes the question, ends it or sets it aside.
LEMMA FinishImplements ==
  ASSUME TypeOK, Slots, AnswerAuthority, [Next]_vars, NEW w \in Workers,
         NEW result \in Results, FinishRetries(w) \/ FinishEnds(w, result)
  PROVE  Lifecycle!Next
<1>t. /\ Ownership /\ question \in [Questions -> QuestionRows]
  BY DEF Slots, TypeOK, ColumnDomains
<1>1. PICK a \in AttemptIds, q \in Questions :
        /\ a = worker[w].claim /\ q = QuestionOf(a) /\ OnlyQuestion(q)
        /\ work[q].attempt = a /\ question[q].status = "processing"
  BY <1>t, Finisher
<1>2. /\ attempts'[a] \in {"transient_failure", "completed", "failed"}
      /\ work'[q].attempt = NoAttempt /\ \A r \in Questions \ {q} : work'[r] = work[r]
  BY <1>t, <1>1, FinishWrites
<1>3. question[q].answer = NoAttempt /\ question[q].status \in Pending
  BY <1>1 DEF AnswerAuthority, Pending
<1>4. Removes(q)
  BY <1>1, <1>2, StepTouches DEF Removes, IsOpen
<1>5. CASE FinishRetries(w)
  <2>1. question' = [question EXCEPT ![q].status = "waiting",
                                     ![q].last_error = "transient_inference"]
    BY <1>1, <1>5 DEF FinishRetries
  <2>2. question'[q].status = "waiting" /\ question'[q].answer = question[q].answer
    BY <1>t, <2>1 DEF QuestionRows
  <2>3. Turns(q, "waiting", NoAttempt, question[q].answer)
    BY <1>1, <1>2, <2>2 DEF Turns, OnlyQuestion
  <2>4. Lifecycle!Yield(q)
    BY <1>3, <1>4, <2>3, MapYield
  <2> QED
    BY <2>4 DEF Lifecycle!Next
<1>6. CASE FinishEnds(w, result)
  <2> DEFINE status == IF result = "answer" THEN "completed" ELSE "failed"
             answer == IF result = "answer" THEN a ELSE NoAttempt
  <2>1. question' = [question EXCEPT ![q].status = status,
                                     ![q].last_error = FinalError(result),
                                     ![q].answer = answer]
    BY <1>1, <1>6 DEF FinishEnds
  <2>2. question'[q].status = status /\ question'[q].answer = answer
    BY <1>t, <2>1 DEF QuestionRows
  <2>3. CASE result = "answer"
    <3>1. Turns(q, "completed", NoAttempt, a)
      BY <1>1, <1>2, <2>2, <2>3 DEF Turns, OnlyQuestion
    <3>2. Lifecycle!Complete(q)
      BY <1>1, <1>4, <3>1, MapComplete
    <3> QED
      BY <3>2 DEF Lifecycle!Next
  <2>4. CASE result # "answer"
    <3>1. Lifecycle!EndUnanswered({q}, "failed")
      BY <1>1, <1>2, <1>3, <1>4, <2>2, <2>4, MapEnd DEF OnlyQuestion
    <3> QED
      BY <3>1 DEF Lifecycle!Next, Lifecycle!Unanswered
  <2> QED
    BY <2>3, <2>4
<1> QED
  BY <1>5, <1>6

\* Every step of the queue is a step of the lifecycle, or none a shopper can tell.
LEMMA StepImplements ==
  ASSUME TypeOK, Slots, AnswerAuthority, [Next]_vars
  PROVE  [Lifecycle!Next]_(Lifecycle!vars)
<1>t. /\ question \in [Questions -> QuestionRows] /\ work \in [Questions -> WorkRows]
      /\ Ownership
  BY DEF TypeOK, ColumnDomains, Slots
<1>1. ASSUME NEW q \in Questions, Submit(q) PROVE Lifecycle!Next
  <2>1. question[q] = AbsentQuestion /\ ~work[q].present
    BY <1>t, <1>1 DEF Submit, TypeOK, BlankRows, Ownership, WorkIffPending, Pending
  <2>2. question[q].answer = NoAttempt /\ work[q].attempt = NoAttempt
    BY <2>1 DEF AbsentQuestion, NoWork, TypeOK, BlankRows
  <2>3. Lifecycle!Accept(q)
    BY <1>t, <1>1, <2>2 DEF Submit, NewQuestion, Unowned, Lifecycle!Accept
  <2> QED
    BY <2>3 DEF Lifecycle!Next
<1>2. ASSUME NEW q \in Questions, Cancel(q) PROVE Lifecycle!Next
  <2> DEFINE status == [r \in Questions |-> IF OutOfTime(r) THEN "expired" ELSE "cancelled"]
  <2>1. status \in Endings /\ status[q] \in {"expired", "cancelled"}
    BY DEF Endings
  <2>2. status[q] = "expired" => OutOfTime(q)
    OBVIOUS
  <2>3. question[q].status \in Pending /\ End({q}, status) /\ UNCHANGED <<now, worker>>
    BY <1>2 DEF Cancel
  <2> HIDE DEF status
  <2>4. EndStep({q}, status)
    BY <2>2, <2>3 DEF EndStep
  <2> QED
    BY <2>1, <2>4, EndImplements
<1>3. ASSUME Expire PROVE Lifecycle!Next
  <2> DEFINE status == [r \in Questions |-> "expired"]
  <2>1. status \in Endings /\ \A r \in Questions : status[r] = "expired"
    BY DEF Endings
  <2>2. PICK batch \in SUBSET {q \in Questions : Due(q) /\ ~Locked(q)} :
          batch # {} /\ End(batch, status) /\ UNCHANGED <<now, worker>>
    BY <1>3 DEF Expire
  <2> HIDE DEF status
  <2>3. batch \in SUBSET Questions /\ EndStep(batch, status)
    BY <2>2 DEF EndStep, Due
  <2> QED
    BY <2>1, <2>2, <2>3, EndImplements
<1>4. ASSUME question' = question, attempts' = attempts,
             \A q \in Questions : work'[q].attempt = work[q].attempt
      PROVE  UNCHANGED Lifecycle!vars
  BY <1>4, MapStutter
<1>5. ASSUME NEW w \in Workers, WorkerStep(w) PROVE [Lifecycle!Next]_(Lifecycle!vars)
  <2>1. CASE \E q \in Questions : ClaimEnds(w, q) \/ ClaimStarts(w, q) \/ ClaimWaits(w, q)
    BY <2>1, ClaimImplements
  <2>2. CASE FinishRetries(w)
    <3>1. "answer" \in Results
      BY DEF Results
    <3> QED
      BY <2>2, <3>1, FinishImplements
  <2>3. CASE \E result \in Results : FinishEnds(w, result)
    BY <2>3, FinishImplements
  <2>4. CASE RenewCommits(w)
    <3>1. /\ question' = question /\ attempts' = attempts
          /\ \A q \in Questions : work'[q].attempt = work[q].attempt
      BY <1>t, <2>4 DEF RenewCommits, WorkRows
    <3> QED
      BY <1>4, <3>1
  <2>5. CASE UNCHANGED tables
    BY <1>4, <2>5 DEF tables
  <2> QED
    BY <1>5, <2>1, <2>2, <2>3, <2>4, <2>5
    DEF WorkerStep, ClaimCollides, RenewBegins, HeartbeatStops, FinishRefused, WorkerCrash,
        WorkerRestart, tables
<1>6. CASE Tick \/ UNCHANGED vars
  BY <1>4, <1>6 DEF Tick, tables, vars
<1> QED
  BY <1>1, <1>2, <1>3, <1>5, <1>6 DEF Next

\* With its tables, leases, breaker and clock, its crashing workers and its
\* batches, the queue does nothing that the promise to a shopper excludes.
THEOREM QueueImplementsLifecycle == Spec => ImplementsLifecycle
<1>1. TypeOK /\ Slots /\ AnswerAuthority /\ [Next]_vars => [Lifecycle!Next]_(Lifecycle!vars)
  BY StepImplements
<1> QED
  BY <1>1, MapInit, AnswerInvariant, PTL DEF Spec, ImplementsLifecycle, Lifecycle!Spec

===============================================================================
