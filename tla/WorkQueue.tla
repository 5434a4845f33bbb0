------------------------------- MODULE WorkQueue -------------------------------
(***************************************************************************)
(* Durable work ownership: shop/work_queue.py, with the worker process of  *)
(* shop/worker.py, the expiry loop of shop/maintenance.py and the slots    *)
(* and breaker of InferenceControl.                                        *)
(*                                                                         *)
(* An action is a database transaction, but for a renewal, which is two.   *)
(* A renewal locks its work row and checks the lease; until it writes, the *)
(* clock moves and claims of other questions may delete the slot it is     *)
(* about to extend.  The other transactions check and write at one         *)
(* instant.  All of them lock the work row of their question first, so     *)
(* that they wait for an open renewal of it or pass over it.  Only the     *)
(* breaker and the count of slots are guarded by the inference_control     *)
(* row: try_acquire locks it after its purge, release after its deletion,  *)
(* and a renewal never does.  Purges, counts and deletions that interleave *)
(* within claims, endings and finishes are in SlotTransactions.            *)
(***************************************************************************)
EXTENDS InferenceControl

CONSTANTS
  Questions,      \* identifiers of the questions that may be submitted
  Workers,        \* worker processes
  MaxAttempts,    \* the attempt budget of a question, 3 in the code
  Lifetime,       \* from acceptance to deadline, two minutes in the code
  LeaseSeconds,   \* WORKER_LEASE_SECONDS
  BackoffUnit,    \* half a second, the least delay after a first failure
  ExpiryBatch,    \* questions one expire() call may end, 100 in the code
  MaxTime         \* bound of the model: the clock stops here

\* One number past the budget, so that a run past it is a state, not an error.
Numbers == 1 .. MaxAttempts + 1

\* attempts.id.  UNIQUE (question_id, number) lets the pair stand for the uuid.
AttemptIds == Questions \X Numbers

QuestionOf(a) == a[1]
NumberOf(a) == a[2]

ASSUME ConstantsAssumption ==
  /\ MaxAttempts \in Nat \ {0}
  /\ Lifetime \in Nat \ {0}
  /\ LeaseSeconds \in Nat \ {0}
  /\ BackoffUnit \in Nat
  /\ ExpiryBatch \in Nat \ {0}
  /\ MaxTime \in Nat
  /\ SlotLimit \in Nat \ {0}
  /\ FailureThreshold \in Nat \ {0}
  /\ OpenSeconds \in Nat
  /\ NoAttempt \notin AttemptIds

VARIABLES
  now,       \* clock_timestamp(), in whole units
  question,  \* the questions table
  work,      \* the work table
  attempts,  \* the attempts table, by its outcome column
  leases,    \* inference_leases: the expiry of the attempt's slot, or NoTime
  breaker,   \* the row of inference_control
  worker     \* the local state of each worker process

tables == <<question, work, attempts, leases, breaker>>
vars == <<now, question, work, attempts, leases, breaker, worker>>

-------------------------------------------------------------------------------
(* Rows *)

Pending == {"waiting", "processing"}
Terminal == {"completed", "failed", "expired", "cancelled"}

\* "absent" stands for a row that has not been inserted.
Statuses == {"absent"} \cup Pending \cup Terminal

\* "none" stands for a row that has not been inserted, "processing" is the
\* default of the column.
Outcomes == {"none", "processing", "abandoned", "admission_wait",
             "transient_failure"} \cup Terminal

Errors == {"none", "transient_inference", "permanent_inference",
           "attempts_exhausted", "deadline_exceeded"}

\* The answer column is abstracted to the attempt that produced the answer.
AbsentQuestion ==
  [status |-> "absent", deadline |-> NoTime, attempt_count |-> 0,
   recovery_count |-> 0, last_error |-> "none", answer |-> NoAttempt]

\* `late` is history: the owner has renewed a lease that had run out between
\* the check of the renewal and its end.
NoWork ==
  [present |-> FALSE, attempt |-> NoAttempt, lease |-> NoTime, available |-> NoTime,
   late |-> FALSE]

\* The rows that submit inserts, and a work row nobody owns.
NewQuestion(deadline) ==
  [status |-> "waiting", deadline |-> deadline, attempt_count |-> 0,
   recovery_count |-> 0, last_error |-> "none", answer |-> NoAttempt]

Unowned(available) ==
  [present |-> TRUE, attempt |-> NoAttempt, lease |-> NoTime, available |-> available,
   late |-> FALSE]

QuestionRows ==
  [status : Statuses, deadline : Nat, attempt_count : 0 .. MaxAttempts,
   recovery_count : Nat, last_error : Errors,
   answer : AttemptIds \cup {NoAttempt}]

WorkRows ==
  [present : BOOLEAN, attempt : AttemptIds \cup {NoAttempt}, lease : Nat,
   available : Int, late : BOOLEAN]

BreakerRows ==
  [state : BreakerStates, openedAt : Nat, probe : AttemptIds \cup {NoAttempt},
   failures : Nat]

\* A worker process: down, idle (between two calls of process_one) or running
\* the attempt it claimed.  `renewing` is the heartbeat thread, `since` the clock
\* that its open renewal has read, or NoTime.
Down == [mode |-> "down", claim |-> NoAttempt, renewing |-> FALSE, since |-> NoTime]
Idle == [mode |-> "idle", claim |-> NoAttempt, renewing |-> FALSE, since |-> NoTime]
Running(a) == [mode |-> "running", claim |-> a, renewing |-> TRUE, since |-> NoTime]

WorkerStates ==
  {Down, Idle}
    \cup [mode : {"running"}, claim : AttemptIds, renewing : BOOLEAN, since : Nat]

Init ==
  /\ now = 1
  /\ question = [q \in Questions |-> AbsentQuestion]
  /\ work = [q \in Questions |-> NoWork]
  /\ attempts = [a \in AttemptIds |-> "none"]
  /\ leases = [a \in AttemptIds |-> NoTime]
  /\ breaker = ClosedBreaker
  /\ worker = [w \in Workers |-> Idle]

\* The work row is locked by an open renewal.
Locked(q) ==
  \E w \in Workers : worker[w].since # NoTime /\ QuestionOf(worker[w].claim) = q

-------------------------------------------------------------------------------
(* Acceptance: the two INSERTs of store.submit.  Who may submit, and when a  *)
(* submission is refused, is the business of the admission checks.           *)

\* Bound: the last deadline lies within the modelled time.
Submit(q) ==
  /\ question[q].status = "absent"
  /\ now + Lifetime <= MaxTime
  /\ question' = [question EXCEPT ![q] = NewQuestion(now + Lifetime)]
  /\ work' = [work EXCEPT ![q] = Unowned(now)]
  /\ UNCHANGED <<now, attempts, leases, breaker, worker>>

-------------------------------------------------------------------------------
(* claim *)

\* The WHERE clause of the SELECT, and SKIP LOCKED.
Claimable(q) ==
  /\ work[q].present
  /\ ~Locked(q)
  /\ work[q].available <= now
  /\ \/ work[q].attempt = NoAttempt
     \/ work[q].lease <= now

\* An attempt that still stands on the row lost its lease: it is abandoned.
Abandon(q) ==
  IF work[q].attempt = NoAttempt THEN attempts
  ELSE [attempts EXCEPT ![work[q].attempt] = "abandoned"]

\* Variant of Recoveries: a reclaimed question is not counted.
RecoveriesUncounted(q) == question[q].recovery_count

Recoveries(q) ==
  question[q].recovery_count + (IF work[q].attempt = NoAttempt THEN 0 ELSE 1)

\* An idle worker picks a claimable row.  ORDER BY accepted_at takes the
\* oldest one that is not locked, and SKIP LOCKED passes over each older row
\* that some transaction (a cancellation, a late finish, another claim) holds
\* at that moment, so any claimable row may be the one.
Picks(w, q) ==
  /\ worker[w].mode = "idle"
  /\ Claimable(q)

\* Variant of OutOfAttempts: the budget ends one early.
OutOfAttemptsEarly(q) == question[q].attempt_count >= MaxAttempts - 1

OutOfAttempts(q) == question[q].attempt_count >= MaxAttempts

OutOfTime(q) == question[q].deadline <= now

NextAttempt(q) == <<q, question[q].attempt_count + 1>>

\* The deadline or the attempt budget is spent: the question ends here.  The
\* breaker and the slots are not touched.
ClaimEnds(w, q) ==
  /\ Picks(w, q)
  /\ OutOfTime(q) \/ OutOfAttempts(q)
  /\ question' = [question EXCEPT
       ![q].status = IF OutOfTime(q) THEN "expired" ELSE "failed",
       ![q].last_error = IF OutOfTime(q) THEN "deadline_exceeded"
                                         ELSE "attempts_exhausted",
       ![q].recovery_count = Recoveries(q)]
  /\ work' = [work EXCEPT ![q] = NoWork]
  /\ attempts' = Abandon(q)
  /\ UNCHANGED <<now, leases, breaker, worker>>

\* The INSERT into attempts meets a row with the same question and number.
\* The transaction rolls back, claim raises out of process_one and main, and
\* the process exits.
ClaimCollides(w, q) ==
  /\ Picks(w, q)
  /\ ~OutOfTime(q) /\ ~OutOfAttempts(q)
  /\ attempts[NextAttempt(q)] # "none"
  /\ worker' = [worker EXCEPT ![w] = Down]
  /\ UNCHANGED <<now, question, work, attempts, leases, breaker>>

\* Variant of LeaseFrom: without LEAST(deadline, ...).
LeaseFromUnbounded(q, t) == t + LeaseSeconds

\* The lease that a statement at time t gives.
LeaseFrom(q, t) == MinTime(question[q].deadline, t + LeaseSeconds)

LeaseUntil(q) == LeaseFrom(q, now)

Acquired(q) ==
  TryAcquire(leases, breaker, NextAttempt(q), LeaseUntil(q), now)

\* The claim reaches try_acquire.
Contends(w, q) ==
  /\ Picks(w, q)
  /\ ~OutOfTime(q) /\ ~OutOfAttempts(q)
  /\ attempts[NextAttempt(q)] = "none"
  /\ leases' = Acquired(q).leases
  /\ breaker' = Acquired(q).breaker

ClaimStarts(w, q) ==
  /\ Contends(w, q)
  /\ Acquired(q).granted
  /\ question' = [question EXCEPT
       ![q].status = "processing",
       ![q].attempt_count = @ + 1,
       ![q].recovery_count = Recoveries(q)]
  /\ work' = [work EXCEPT ![q].attempt = NextAttempt(q), ![q].lease = LeaseUntil(q),
                          ![q].late = FALSE]
  /\ attempts' = [Abandon(q) EXCEPT ![NextAttempt(q)] = "processing"]
  /\ worker' = [worker EXCEPT ![w] = Running(NextAttempt(q))]
  /\ UNCHANGED now

\* No slot, or the breaker holds admissions back.  attempt_count is put back,
\* the attempts row with its number stays.
ClaimWaits(w, q) ==
  /\ Contends(w, q)
  /\ ~Acquired(q).granted
  /\ question' = [question EXCEPT
       ![q].status = "waiting",
       ![q].recovery_count = Recoveries(q)]
  /\ work' = [work EXCEPT ![q].attempt = NoAttempt, ![q].lease = NoTime,
                          ![q].late = FALSE]
  /\ attempts' = [Abandon(q) EXCEPT ![NextAttempt(q)] = "admission_wait"]
  /\ UNCHANGED <<now, worker>>

-------------------------------------------------------------------------------
(* renew, from the heartbeat thread *)

\* Variant of HoldsLease: some attempt owns the question, not this one.
HoldsLeaseOfAnother(a) ==
  /\ work[QuestionOf(a)].present
  /\ work[QuestionOf(a)].attempt # NoAttempt
  /\ work[QuestionOf(a)].lease > now
  /\ question[QuestionOf(a)].deadline > now

\* Variant of HoldsLease: the attempt is compared, the times are not.
HoldsLeaseForever(a) ==
  /\ work[QuestionOf(a)].present
  /\ work[QuestionOf(a)].attempt = a

\* The test shared by renew and finish: `a` is the attempt on the work row,
\* its lease runs and the deadline lies ahead.
HoldsLease(a) ==
  /\ work[QuestionOf(a)].present
  /\ work[QuestionOf(a)].attempt = a
  /\ work[QuestionOf(a)].lease > now
  /\ question[QuestionOf(a)].deadline > now

\* The lock and the check.
RenewBegins(w) ==
  LET a == worker[w].claim
  IN  /\ worker[w].renewing
      /\ worker[w].since = NoTime
      /\ ~Locked(QuestionOf(a))
      /\ HoldsLease(a)
      /\ worker' = [worker EXCEPT ![w].since = now]
      /\ UNCHANGED <<now, tables>>

\* The UPDATE of the work row at some time since the check, then that of the
\* slot, of which nothing may be left, and the commit.  No lease is looked at
\* again.
RenewCommits(w) ==
  LET a == worker[w].claim
      q == QuestionOf(a)
  IN  /\ worker[w].since # NoTime
      /\ \E t \in worker[w].since .. now :
           /\ work' = [work EXCEPT ![q].lease = LeaseFrom(q, t),
                                   ![q].late = @ \/ work[q].lease <= now]
           /\ leases' = ExtendSlot(leases, a, LeaseFrom(q, t))
      /\ worker' = [worker EXCEPT ![w].since = NoTime]
      /\ UNCHANGED <<now, question, attempts, breaker>>

\* renew returned False, or raised because the database could not be reached,
\* which rolls back: keep_lease returns and nothing renews this claim again.
HeartbeatStops(w) ==
  /\ worker[w].renewing
  /\ worker' = [worker EXCEPT ![w].renewing = FALSE, ![w].since = NoTime]
  /\ UNCHANGED <<now, tables>>

-------------------------------------------------------------------------------
(* finish, after the heartbeat has been joined: no renewal of this worker is  *)
(* open, and one of the question's new owner is waited for.                  *)

Finishes(w) ==
  /\ worker[w].mode = "running"
  /\ ~Locked(QuestionOf(worker[w].claim))

\* uniform(.5, 1) * 2 ** (number - 1) seconds, in units of BackoffUnit
Backoff(a) ==
  LET least == BackoffUnit * 2 ^ (NumberOf(a) - 1) IN least .. 2 * least

FinishedWorker(w) == worker' = [worker EXCEPT ![w] = Idle]

\* The claim is no longer the owner, or came too late: nothing is saved.
FinishRefused(w) ==
  /\ Finishes(w)
  /\ ~HoldsLease(worker[w].claim)
  /\ FinishedWorker(w)
  /\ UNCHANGED <<now, tables>>

\* A transient failure with budget left: the question waits for its backoff.
FinishRetries(w) ==
  LET a == worker[w].claim
      q == QuestionOf(a)
  IN  /\ Finishes(w)
      /\ HoldsLease(a)
      /\ NumberOf(a) < MaxAttempts
      /\ \E delay \in Backoff(a) :
           work' = [work EXCEPT ![q] =
                      Unowned(MinTime(question[q].deadline, now + delay))]
      /\ question' = [question EXCEPT ![q].status = "waiting",
                                      ![q].last_error = "transient_inference"]
      /\ attempts' = [attempts EXCEPT ![a] = "transient_failure"]
      /\ leases' = FreeSlot(leases, a)
      /\ breaker' = AfterRelease(breaker, TRUE, now)
      /\ FinishedWorker(w)
      /\ UNCHANGED now

\* What the last_error column says after a terminal finish.
FinalError(result) ==
  CASE result = "answer" -> "none"
    [] result = "transient_inference" -> "attempts_exhausted"
    [] OTHER -> result

\* An answer, a permanent failure, or a transient failure of the last attempt:
\* the question ends.  All three report to the breaker as not transient.
FinishEnds(w, result) ==
  LET a == worker[w].claim
      q == QuestionOf(a)
      status == IF result = "answer" THEN "completed" ELSE "failed"
  IN  /\ Finishes(w)
      /\ HoldsLease(a)
      /\ result = "transient_inference" => NumberOf(a) >= MaxAttempts
      /\ question' = [question EXCEPT
           ![q].status = status,
           ![q].last_error = FinalError(result),
           ![q].answer = IF result = "answer" THEN a ELSE NoAttempt]
      /\ attempts' = [attempts EXCEPT ![a] = status]
      /\ work' = [work EXCEPT ![q] = NoWork]
      /\ leases' = FreeSlot(leases, a)
      /\ breaker' = AfterRelease(breaker, FALSE, now)
      /\ FinishedWorker(w)
      /\ UNCHANGED now

Results == {"answer", "transient_inference", "permanent_inference"}

-------------------------------------------------------------------------------
(* cancel, from the API, and expire, from the maintenance loop *)

\* The attempts on the work rows of the questions that end.
OwnersOf(ended) == {work[q].attempt : q \in ended} \ {NoAttempt}

EndedQuestions(ended, status) ==
  [q \in Questions |->
     IF q \in ended
     THEN [question[q] EXCEPT
             !.status = status[q],
             !.last_error = IF status[q] = "expired" THEN "deadline_exceeded" ELSE "none"]
     ELSE question[q]]

\* Variant of DropWork: the work row is left behind.
KeepWork(ended) == work

DropWork(ended) == [q \in Questions |-> IF q \in ended THEN NoWork ELSE work[q]]

\* Variant of CloseAttempts: the attempt is left open.
KeepAttempts(owners, status) == attempts

CloseAttempts(owners, status) ==
  [a \in AttemptIds |-> IF a \in owners THEN status[QuestionOf(a)] ELSE attempts[a]]

FreeSlots(owners) == [a \in AttemptIds |-> IF a \in owners THEN NoTime ELSE leases[a]]

\* The pending questions of `ended` reach `status`.  Only an attempt on a work
\* row is closed and released; each release reports to the breaker as not
\* transient.
End(ended, status) ==
  /\ question' = EndedQuestions(ended, status)
  /\ work' = DropWork(ended)
  /\ attempts' = CloseAttempts(OwnersOf(ended), status)
  /\ leases' = FreeSlots(OwnersOf(ended))
  /\ breaker' = IF OwnersOf(ended) = {} THEN breaker
                                       ELSE AfterRelease(breaker, FALSE, now)

\* A shopper cancels.  A question past its deadline is recorded as expired.
Cancel(q) ==
  /\ ~Locked(q)
  /\ question[q].status \in Pending
  /\ End({q}, [r \in Questions |-> IF OutOfTime(r) THEN "expired" ELSE "cancelled"])
  /\ UNCHANGED <<now, worker>>

\* Variants of Due: whatever the status, and only what no worker owns.
DueAnyStatus(q) == question[q].status # "absent" /\ OutOfTime(q)
DueUnowned(q) ==
  /\ question[q].status \in Pending
  /\ work[q].attempt = NoAttempt
  /\ OutOfTime(q)

Due(q) == question[q].status \in Pending /\ OutOfTime(q)

\* One transaction ends a batch of due questions: those whose work rows are
\* not locked at that moment.
Expire ==
  \E batch \in SUBSET {q \in Questions : Due(q) /\ ~Locked(q)} :
    /\ batch # {}
    /\ Cardinality(batch) <= ExpiryBatch
    /\ End(batch, [q \in Questions |-> "expired"])
    /\ UNCHANGED <<now, worker>>

-------------------------------------------------------------------------------
(* The environment: process failure, the restart policy and time *)

WorkerCrash(w) ==
  /\ worker[w].mode # "down"
  /\ worker' = [worker EXCEPT ![w] = Down]
  /\ UNCHANGED <<now, tables>>

WorkerRestart(w) ==
  /\ worker[w].mode = "down"
  /\ worker' = [worker EXCEPT ![w] = Idle]
  /\ UNCHANGED <<now, tables>>

Tick ==
  /\ now < MaxTime
  /\ now' = now + 1
  /\ UNCHANGED <<tables, worker>>

WorkerStep(w) ==
  \/ \E q \in Questions :
       ClaimEnds(w, q) \/ ClaimCollides(w, q) \/ ClaimStarts(w, q) \/ ClaimWaits(w, q)
  \/ RenewBegins(w)
  \/ RenewCommits(w)
  \/ HeartbeatStops(w)
  \/ FinishRefused(w)
  \/ FinishRetries(w)
  \/ \E result \in Results : FinishEnds(w, result)
  \/ WorkerCrash(w)
  \/ WorkerRestart(w)

Next ==
  \/ \E q \in Questions : Submit(q) \/ Cancel(q)
  \/ \E w \in Workers : WorkerStep(w)
  \/ Expire
  \/ Tick

Spec == Init /\ [][Next]_vars

\* The clock runs, the maintenance loop calls expire() every second whatever
\* the workers do, and a renewal does not stay open for ever: it commits, or
\* its worker stops and it is rolled back.  Nothing else is assumed of the workers.
FairSpec ==
  /\ Spec
  /\ WF_vars(Tick)
  /\ WF_vars(Expire)
  /\ \A w \in Workers : WF_vars(RenewCommits(w))
===============================================================================
