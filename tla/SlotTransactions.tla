--------------------------- MODULE SlotTransactions ---------------------------
(***************************************************************************)
(* The statements inside the transactions that touch inference_leases and  *)
(* inference_control, and the row locks between them: claim, renew, finish *)
(* and cancel of shop/work_queue.py with try_acquire, renew and release of *)
(* shop/inference_control.py, and the batches of expire.                   *)
(*                                                                         *)
(* WorkQueue lets each of these transactions happen at one instant, and a  *)
(* renewal at two.  Here the clock moves and other transactions commit     *)
(* between any two statements.                                             *)
(* The lock on its work row gives a question at most one transaction at a  *)
(* time, so transactions are named by their questions.  The breaker is     *)
(* closed and the attempt budget is not spent; both are WorkQueue's.       *)
(***************************************************************************)
EXTENDS Integers, FiniteSets

CONSTANTS
  Questions,     \* questions with a work row
  Deadline,      \* the deadline of each question
  Expire,        \* the name of the maintenance loop's transaction
  SlotLimit,     \* SLOT_LIMIT
  LeaseSeconds,  \* WORKER_LEASE_SECONDS
  ExpiryBatch,   \* questions one expire() call may end, 100 in the code
  MaxTime        \* bound of the model: the clock stops here

ASSUME ConstantsAssumption ==
  /\ Deadline \in [Questions -> Nat \ {0}]
  /\ Expire \notin Questions
  /\ SlotLimit \in Nat \ {0}
  /\ LeaseSeconds \in Nat \ {0}
  /\ ExpiryBatch \in Nat \ {0}
  /\ MaxTime \in Nat

NoTime == 0

VARIABLES
  now,     \* clock_timestamp()
  lease,   \* lease_expires_at of the question's work row, as committed
  slot,    \* the inference_leases row of the question's attempt, as committed
  before,  \* pairs of slots: a scan of the table meets the first before the second
  tx,      \* the open transaction of claim, renew, finish or cancel
  expiry   \* the open transaction of expire

vars == <<now, lease, slot, before, tx, expiry>>

-------------------------------------------------------------------------------
(* Transactions *)

\* `until` is the lease a transaction writes.  `scan` are the slots its purge has
\* yet to visit, with the expiry in its snapshot (`seen`) and the order of the
\* table at that time, `locked` those it has locked and `purged` those it has
\* deleted.  `moved` is history: the slots that were renewed after the snapshot
\* and before the purge came to them.
NoTx ==
  [step |-> "none", until |-> NoTime, seen |-> [q \in Questions |-> NoTime], order |-> {},
   scan |-> {}, locked |-> {}, purged |-> {}, moved |-> {}]

ClaimSteps == {"purging", "granted"}
RenewSteps == {"checked", "extending", "extended"}
ReleaseSteps == {"releasing", "reporting"}

\* The questions expire has locked, those it has ended, the one it is ending
\* and where release stands for that one.
NoExpiry == [batch |-> {}, ended |-> {}, current |-> {}, step |-> "none"]

Init ==
  /\ now = 1
  /\ lease = [q \in Questions |-> NoTime]
  /\ slot = [q \in Questions |-> NoTime]
  /\ before = {}
  /\ tx = [q \in Questions |-> NoTx]
  /\ expiry = NoExpiry

Slots == {q \in Questions : slot[q] # NoTime}

Lapsed == {q \in Slots : slot[q] <= now}

\* Of the rows that the purge of q has yet to visit, the one it meets first.
First(q) == CHOOSE r \in tx[q].scan : \A other \in tx[q].scan \ {r} : <<r, other>> \in tx[q].order

\* The row it comes to, if its snapshot shows it lapsed.
Meets(q) == {r \in tx[q].scan : r = First(q) /\ tx[q].seen[r] <= now}

LeaseUntil(q) ==
  IF now + LeaseSeconds <= Deadline[q] THEN now + LeaseSeconds ELSE Deadline[q]

-------------------------------------------------------------------------------
(* Locks.  A lock is the row of a slot or the row of inference_control.      *)

SlotRow(q) == <<"slot", q>>
ControlRow == <<"control">>

Processes == Questions \cup {Expire}

\* Variant of ReleaseLock: the control row first.
ReleaseLockSwapped(step, q) == IF step = "releasing" THEN ControlRow ELSE SlotRow(q)

\* The row that the next statement of release locks: first it deletes the
\* slot, then it reads the control row FOR UPDATE.
ReleaseLock(step, q) == IF step = "releasing" THEN SlotRow(q) ELSE ControlRow

\* The row the next statement of a transaction must lock.
Wants(p) ==
  IF p = Expire
  THEN {ReleaseLock(expiry.step, q) : q \in expiry.current}
  ELSE CASE tx[p].step = "purging" /\ tx[p].scan # {} ->
              {SlotRow(r) : r \in Meets(p)}
         [] tx[p].step = "purging" /\ tx[p].scan = {} -> {ControlRow}
         [] tx[p].step = "extending" -> {SlotRow(p)}
         [] tx[p].step \in ReleaseSteps -> {ReleaseLock(tx[p].step, p)}
         [] OTHER -> {}

\* The rows it has locked so far.  A slot that does not exist has no lock.
Holds(p) ==
  (IF p = Expire
   THEN (UNION {{SlotRow(q), ControlRow} : q \in {r \in expiry.ended : lease[r] # NoTime}})
          \cup (IF expiry.step = "reporting"
                THEN {ReleaseLock("releasing", q) : q \in expiry.current} ELSE {})
   ELSE {SlotRow(r) : r \in tx[p].locked}
          \cup (CASE tx[p].step = "granted" -> {ControlRow}
                  [] tx[p].step = "extended" -> {SlotRow(p)}
                  [] tx[p].step = "reporting" -> {ReleaseLock("releasing", p)}
                  [] OTHER -> {}))
  \ {SlotRow(q) : q \in Questions \ Slots}

\* Variant of Contested: the control row is read without FOR UPDATE.
ContestedSlots(p) == {o \in Processes \ {p} : (Wants(p) \ {ControlRow}) \cap Holds(o) # {}}

\* The transactions that a transaction waits for.
Contested(p) == {o \in Processes \ {p} : Wants(p) \cap Holds(o) # {}}

Proceeds(p) == Contested(p) = {}

\* The work row is free: claim and expire pass over it when it is not (SKIP
\* LOCKED), renew, finish and cancel wait.
WorkFree(q) == tx[q] = NoTx /\ q \notin expiry.batch

-------------------------------------------------------------------------------
(* claim *)

\* claim picks the row, computes the lease and comes to the DELETE of
\* try_acquire, which scans the slots of its snapshot.
ClaimBegins(q) ==
  /\ WorkFree(q)
  /\ lease[q] <= now
  /\ now < Deadline[q]
  /\ tx' = [tx EXCEPT ![q].step = "purging", ![q].until = LeaseUntil(q),
                      ![q].seen = slot, ![q].order = before, ![q].scan = Slots]
  /\ UNCHANGED <<now, lease, slot, before, expiry>>

\* One row of the DELETE: the condition reads the clock at each row.  A row that
\* has not lapsed in the snapshot is passed over.  Of one that has, the newest
\* version is locked and the condition is evaluated again on it: a row renewed
\* in the meantime is not deleted, but stays locked.
Purge(q) ==
  /\ tx[q].step = "purging"
  /\ tx[q].scan # {}
  /\ Proceeds(q)
  /\ tx' = [tx EXCEPT ![q].scan = @ \ {First(q)}, ![q].seen[First(q)] = NoTime,
                      ![q].order = {pair \in @ : pair[1] # First(q)},
                      ![q].locked = @ \cup Meets(q),
                      ![q].purged = @ \cup (Meets(q) \cap Lapsed)]
  /\ UNCHANGED <<now, lease, slot, before, expiry>>

\* SELECT ... FOR UPDATE of the control row, then the count.
Admit(q) ==
  /\ tx[q].step = "purging"
  /\ tx[q].scan = {}
  /\ Proceeds(q)
  /\ Cardinality(Slots \ tx[q].purged) < SlotLimit
  /\ tx' = [tx EXCEPT ![q].step = "granted"]
  /\ UNCHANGED <<now, lease, slot, before, expiry>>

Without(gone) == [r \in Questions |-> IF r \in gone THEN NoTime ELSE slot[r]]

Remaining(gone) == {pair \in before : pair[1] \notin gone /\ pair[2] \notin gone}

\* The orders of the table without the rows `gone` and with a row of q that was
\* written at any free place of it.
Inserted(q, gone) ==
  LET others == Slots \ gone
      rest == Remaining(gone)
      Fronts == {front \in SUBSET others : \A pair \in rest : pair[2] \in front => pair[1] \in front}
  IN  {rest \cup (front \X {q}) \cup ({q} \X (others \ front)) : front \in Fronts}

\* The transaction of p commits without the slots `gone`, which no scan will
\* meet any more.
Committed(p, gone) ==
  [q \in Questions |->
     IF q = p THEN NoTx ELSE [tx[q] EXCEPT !.scan = @ \ gone]]

\* The refusal commits the purge.
Refuse(q) ==
  /\ tx[q].step = "purging"
  /\ tx[q].scan = {}
  /\ Proceeds(q)
  /\ Cardinality(Slots \ tx[q].purged) >= SlotLimit
  /\ slot' = Without(tx[q].purged)
  /\ before' = Remaining(tx[q].purged)
  /\ lease' = [lease EXCEPT ![q] = NoTime]
  /\ tx' = Committed(q, tx[q].purged)
  /\ UNCHANGED <<now, expiry>>

ClaimCommits(q) ==
  /\ tx[q].step = "granted"
  /\ slot' = [Without(tx[q].purged) EXCEPT ![q] = tx[q].until]
  /\ before' \in Inserted(q, tx[q].purged)
  /\ lease' = [lease EXCEPT ![q] = tx[q].until]
  /\ tx' = Committed(q, tx[q].purged)
  /\ UNCHANGED <<now, expiry>>

-------------------------------------------------------------------------------
(* renew *)

Owned(q) == lease[q] > now /\ Deadline[q] > now

RenewBegins(q) ==
  /\ WorkFree(q)
  /\ Owned(q)
  /\ tx' = [tx EXCEPT ![q].step = "checked"]
  /\ UNCHANGED <<now, lease, slot, before, expiry>>

\* UPDATE work: the lock on the row is held, the times are not looked at again.
RenewWork(q) ==
  /\ tx[q].step = "checked"
  /\ tx' = [tx EXCEPT ![q].step = "extending", ![q].until = LeaseUntil(q)]
  /\ UNCHANGED <<now, lease, slot, before, expiry>>

\* UPDATE inference_leases: nothing when the row is gone.
RenewSlot(q) ==
  /\ tx[q].step = "extending"
  /\ Proceeds(q)
  /\ tx' = [tx EXCEPT ![q].step = "extended"]
  /\ UNCHANGED <<now, lease, slot, before, expiry>>

\* Variant of Extended: the heartbeat renews the work row alone.
NotExtended(q) == slot

Extended(q) == IF q \in Slots THEN [slot EXCEPT ![q] = tx[q].until] ELSE slot

\* The UPDATE writes a new version of the row, at any free place of the table.
Rewritten(q) == IF q \in Slots THEN Inserted(q, {q}) ELSE {before}

\* A scan that began before meets the row at its old place, one that begins
\* after it at the new one.
RenewCommits(q) ==
  /\ tx[q].step = "extended"
  /\ slot' = Extended(q)
  /\ before' \in Rewritten(q)
  /\ lease' = [lease EXCEPT ![q] = tx[q].until]
  /\ tx' = [p \in Questions |->
              IF p = q THEN NoTx ELSE [tx[p] EXCEPT !.moved = @ \cup (tx[p].scan \cap {q})]]
  /\ UNCHANGED <<now, expiry>>

-------------------------------------------------------------------------------
(* finish and cancel: both release the slot and end or set aside the question *)

\* A question that cancel ends may come again: it stands for another one that
\* has the same deadline.
ReleaseBegins(q) ==
  /\ WorkFree(q)
  /\ lease[q] # NoTime
  /\ tx' = [tx EXCEPT ![q].step = "releasing"]
  /\ UNCHANGED <<now, lease, slot, before, expiry>>

ReleaseLocks(q) ==
  /\ tx[q].step = "releasing"
  /\ Proceeds(q)
  /\ tx' = [tx EXCEPT ![q].step = "reporting"]
  /\ UNCHANGED <<now, lease, slot, before, expiry>>

ReleaseCommits(q) ==
  /\ tx[q].step = "reporting"
  /\ Proceeds(q)
  /\ slot' = Without({q})
  /\ before' = Remaining({q})
  /\ lease' = [lease EXCEPT ![q] = NoTime]
  /\ tx' = Committed(q, {q})
  /\ UNCHANGED <<now, expiry>>

-------------------------------------------------------------------------------
(* expire *)

\* The due questions whose work rows are free; one without an owner has no
\* slot to release, and a batch of such questions touches none of these rows.
ExpiryBegins ==
  /\ expiry = NoExpiry
  /\ \E batch \in SUBSET {q \in Questions : Deadline[q] <= now /\ WorkFree(q)} :
       /\ batch # {} /\ IsFiniteSet(batch) /\ Cardinality(batch) <= ExpiryBatch
       /\ \E q \in batch : lease[q] # NoTime
       /\ expiry' = [batch |-> batch, ended |-> {q \in batch : lease[q] = NoTime},
                     current |-> {}, step |-> "none"]
  /\ UNCHANGED <<now, lease, slot, before, tx>>

\* In the order of the deadlines.
ExpiryNext(q) ==
  /\ expiry.current = {}
  /\ q \in expiry.batch \ expiry.ended
  /\ \A r \in expiry.batch \ expiry.ended : Deadline[q] <= Deadline[r]
  /\ expiry' = [expiry EXCEPT !.current = {q}, !.step = "releasing"]
  /\ UNCHANGED <<now, lease, slot, before, tx>>

ExpiryLocks ==
  /\ expiry.step = "releasing"
  /\ Proceeds(Expire)
  /\ expiry' = [expiry EXCEPT !.step = "reporting"]
  /\ UNCHANGED <<now, lease, slot, before, tx>>

ExpiryReports ==
  /\ expiry.step = "reporting"
  /\ Proceeds(Expire)
  /\ expiry' = [expiry EXCEPT !.ended = @ \cup expiry.current, !.current = {}, !.step = "none"]
  /\ UNCHANGED <<now, lease, slot, before, tx>>

ExpiryCommits ==
  /\ expiry # NoExpiry
  /\ expiry.ended = expiry.batch
  /\ slot' = Without(expiry.batch)
  /\ before' = Remaining(expiry.batch)
  /\ lease' = [q \in Questions |-> IF q \in expiry.batch THEN NoTime ELSE lease[q]]
  /\ expiry' = NoExpiry
  /\ tx' = Committed(Expire, expiry.batch)
  /\ UNCHANGED now

-------------------------------------------------------------------------------
(* Deadlocks, failures and time *)

\* Sets of transactions each of which waits for another of the set.
Deadlocks ==
  {S \in SUBSET Processes : S # {} /\ \A p \in S : Contested(p) \cap S # {}}

\* The transaction rolls back: its process died, or PostgreSQL chose it to
\* break a deadlock, or its connection was lost.
Rollback(q) ==
  /\ tx[q] # NoTx
  /\ tx' = [tx EXCEPT ![q] = NoTx]
  /\ UNCHANGED <<now, lease, slot, before, expiry>>

ExpiryRollback ==
  /\ expiry # NoExpiry
  /\ expiry' = NoExpiry
  /\ UNCHANGED <<now, lease, slot, before, tx>>

Tick ==
  /\ now < MaxTime
  /\ now' = now + 1
  /\ UNCHANGED <<lease, slot, before, tx, expiry>>

Next ==
  \/ \E q \in Questions :
       \/ ClaimBegins(q) \/ Purge(q) \/ Admit(q) \/ Refuse(q) \/ ClaimCommits(q)
       \/ RenewBegins(q) \/ RenewWork(q) \/ RenewSlot(q) \/ RenewCommits(q)
       \/ ReleaseBegins(q) \/ ReleaseLocks(q) \/ ReleaseCommits(q)
       \/ ExpiryNext(q)
       \/ Rollback(q)
  \/ ExpiryBegins \/ ExpiryLocks \/ ExpiryReports \/ ExpiryCommits \/ ExpiryRollback
  \/ Tick

Spec == Init /\ [][Next]_vars

-------------------------------------------------------------------------------
(* Properties *)

TypeOK ==
  /\ now \in Nat \ {0}
  /\ lease \in [Questions -> Nat]
  /\ slot \in [Questions -> Nat]
  /\ \A q \in Questions :
       /\ tx[q].step \in {"none"} \cup ClaimSteps \cup RenewSteps \cup ReleaseSteps
       /\ tx[q].until \in Nat
       /\ tx[q].purged \subseteq tx[q].locked
       /\ tx[q].order \subseteq Questions \X Questions
  /\ before \subseteq Slots \X Slots
  /\ expiry.batch \subseteq Questions
  /\ expiry.ended \cup expiry.current \subseteq expiry.batch

\* The table of slots never holds more rows than there are slots, although
\* claims count and insert in separate statements.
SlotTableBudget == Cardinality(Slots) <= SlotLimit

\* A slot belongs to a question that is owned and lapses with its lease,
\* whatever transactions interleave or roll back.
SlotFollowsLease == \A q \in Slots : slot[q] = lease[q]

\* Transactions wait for one another in a circle only when a batch of expire
\* with two or more questions is among them, or a purge which a renewal has
\* overtaken: it looks for a slot where the slot was when its scan began, and
\* meets it in another order than the purges that began later.
DeadlocksHaveCause ==
  \A S \in Deadlocks :
    \/ Expire \in S /\ Cardinality(expiry.batch) > 1
    \/ \E q \in S \ {Expire} : tx[q].step = "purging" /\ tx[q].moved # {}

\* What the documents promise and the code does not keep: owners with an
\* unexpired lease are as many as there are slots.
OwnersWithinBudget ==
  Cardinality({q \in Questions : lease[q] > now}) <= SlotLimit
===============================================================================
