--------------------------- MODULE InferenceControl ---------------------------
(***************************************************************************)
(* Shared inference admission: shop/inference_control.py.                  *)
(*                                                                         *)
(* The module keeps two tables.  inference_leases maps an attempt to the   *)
(* time its slot lapses; here it is a function from attempt identifiers to *)
(* times in which NoTime stands for "no row".  inference_control is one    *)
(* row, the circuit breaker, here a record.  The Python functions run      *)
(* inside the transaction of their caller, so they are operators from old  *)
(* table contents to new ones; WorkQueue calls them in its actions.        *)
(***************************************************************************)
EXTENDS Integers, FiniteSets

CONSTANTS
  SlotLimit,         \* SLOT_LIMIT: slots shared by every worker process
  FailureThreshold,  \* FAILURE_THRESHOLD: transient failures that open the breaker
  OpenSeconds,       \* OPEN_SECONDS: pause before a recovery probe
  NoAttempt          \* NULL in a column that holds an attempt id

NoTime == 0          \* NULL in a timestamp column; the clock starts at 1

BreakerStates == {"closed", "open", "half_open"}

\* The row that migration 005 inserts, and what a non-transient release writes.
ClosedBreaker ==
  [state |-> "closed", openedAt |-> NoTime, probe |-> NoAttempt, failures |-> 0]

\* The attempts that have a row in inference_leases.
Held(leases) == {a \in DOMAIN leases : leases[a] # NoTime}

MinTime(s, t) == IF s <= t THEN s ELSE t

-------------------------------------------------------------------------------
(* try_acquire *)

\* DELETE FROM inference_leases WHERE lease_expires_at <= clock_timestamp()
PurgeLapsed(leases, now) ==
  [a \in DOMAIN leases |-> IF leases[a] <= now THEN NoTime ELSE leases[a]]

\* A half-open breaker whose probe no longer holds a slot is opened afresh.
ReopenIfProbeLost(leases, breaker, now) ==
  IF /\ breaker.state = "half_open"
     /\ breaker.probe # NoAttempt
     /\ leases[breaker.probe] = NoTime
  THEN [breaker EXCEPT !.state = "open", !.openedAt = now, !.probe = NoAttempt]
  ELSE breaker

\* Variant of Admits: one slot too many.
AdmitsPastLimit(leases, breaker, openedAt, now) ==
  /\ Cardinality(Held(leases)) <= SlotLimit
  /\ breaker.state = "closed"

\* Variant of Admits: the pause is checked, the half-open state is not.
AdmitsSecondProbe(leases, breaker, openedAt, now) ==
  /\ Cardinality(Held(leases)) < SlotLimit
  /\ openedAt <= now - OpenSeconds

\* The early returns of try_acquire.  `openedAt` is the opened_at the function
\* read when it locked the row: reopening a lost probe's breaker rewrites the
\* column and the local breaker_state and probe_attempt_id, not the local
\* opened_at, so the pause is still counted from the earlier opening.
Admits(leases, breaker, openedAt, now) ==
  /\ Cardinality(Held(leases)) < SlotLimit
  /\ \/ breaker.state = "closed"
     \/ /\ breaker.state = "open"
        /\ openedAt # NoTime
        /\ openedAt <= now - OpenSeconds
        /\ breaker.probe = NoAttempt

\* What try_acquire returns and what it leaves in the two tables.  A refusal
\* keeps the purge and the reopening: the caller commits.
TryAcquire(leases, breaker, attempt, expiry, now) ==
  LET kept    == PurgeLapsed(leases, now)
      row     == ReopenIfProbeLost(kept, breaker, now)
      granted == Admits(kept, row, breaker.openedAt, now)
  IN  [granted |-> granted,
       leases  |-> IF granted THEN [kept EXCEPT ![attempt] = expiry] ELSE kept,
       breaker |-> IF granted /\ row.state = "open"
                   THEN [row EXCEPT !.state = "half_open", !.probe = attempt]
                   ELSE row]

-------------------------------------------------------------------------------
(* renew and release *)

\* Variant of ExtendSlot: the heartbeat renews the work row alone.
ExtendNothing(leases, attempt, expiry) == leases

\* An UPDATE: it changes nothing when the attempt has no row.
ExtendSlot(leases, attempt, expiry) ==
  IF leases[attempt] = NoTime THEN leases
  ELSE [leases EXCEPT ![attempt] = expiry]

FreeSlot(leases, attempt) == [leases EXCEPT ![attempt] = NoTime]

\* Variant of AfterTransient: half_open is not looked at, the probe is kept.
AfterTransientForgettingProbe(breaker, now) ==
  IF breaker.failures + 1 >= FailureThreshold
  THEN [breaker EXCEPT !.state = "open", !.openedAt = now, !.failures = @ + 1]
  ELSE [breaker EXCEPT !.failures = @ + 1]

AfterTransient(breaker, now) ==
  IF breaker.state = "half_open" \/ breaker.failures + 1 >= FailureThreshold
  THEN [state |-> "open", openedAt |-> now, probe |-> NoAttempt,
        failures |-> breaker.failures + 1]
  ELSE [breaker EXCEPT !.failures = @ + 1]

\* release: every report that is not a transient failure closes the breaker,
\* whatever state it is in and whoever reports.
AfterRelease(breaker, transient, now) ==
  IF transient THEN AfterTransient(breaker, now) ELSE ClosedBreaker
===============================================================================
