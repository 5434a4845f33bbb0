------------------------ MODULE SlotTransactions_proofs ------------------------
(***************************************************************************)
(* Theorems about SlotTransactions, for any number of questions, slots and *)
(* transactions that interleave statement by statement, wait or roll back. *)
(***************************************************************************)
EXTENDS SlotTransactions, FiniteSetTheorems, WellFoundedInduction, TLAPS

Transactions ==
  [step : {"none"} \cup ClaimSteps \cup RenewSteps \cup ReleaseSteps, until : Nat,
   seen : [Questions -> Nat], order : SUBSET (Questions \X Questions),
   scan : SUBSET Questions, locked : SUBSET Questions, purged : SUBSET Questions,
   moved : SUBSET Questions]

Batches ==
  [batch : SUBSET Questions, ended : SUBSET Questions, current : SUBSET Questions,
   step : {"none"} \cup ReleaseSteps]

Typed ==
  /\ now \in Nat
  /\ lease \in [Questions -> Nat]
  /\ slot \in [Questions -> Nat]
  /\ before \in SUBSET (Questions \X Questions)
  /\ tx \in [Questions -> Transactions]
  /\ expiry \in Batches

Granted(q) == tx[q].step = "granted"

\* A claim that has been granted a slot has counted room for it, without what it
\* has deleted, and is the only one, as it holds the control row.
Counted ==
  /\ IsFiniteSet(Slots) /\ Cardinality(Slots) <= SlotLimit
  /\ \A q \in Questions : Granted(q) =>
       /\ Cardinality(Slots \ tx[q].purged) < SlotLimit
       /\ \A p \in Questions \ {q} : ~Granted(p)

\* A claim has deleted the old slot of its own question, or has yet to come to
\* it: the lease has lapsed, the snapshot shows it, and the lock on the work row
\* keeps it so.
Sees(q) ==
  tx[q].step \in ClaimSteps =>
    /\ lease[q] <= now
    /\ q \in Slots => q \in tx[q].scan \cup tx[q].purged
    /\ q \in tx[q].scan => tx[q].seen[q] = slot[q]

Excluded(q) == tx[q].step # "none" => q \notin expiry.batch

Followed ==
  /\ SlotFollowsLease
  /\ \A q \in Questions : Sees(q) /\ Excluded(q)

-------------------------------------------------------------------------------
(* Types, and what a step does to other transactions *)

LEMMA NoTxType ==
  /\ NoTx \in Transactions /\ NoTx.step = "none"
  /\ NoTx.scan = {} /\ NoTx.locked = {} /\ NoTx.purged = {} /\ NoTx.moved = {}
  BY DEF NoTx, Transactions, NoTime

LEMMA LeaseUntilType ==
  ASSUME Typed, NEW q \in Questions
  PROVE  LeaseUntil(q) \in Nat /\ LeaseUntil(q) # NoTime
<1>1. now \in Nat /\ LeaseSeconds \in Nat \ {0} /\ Deadline[q] \in Nat \ {0}
  BY ConstantsAssumption DEF Typed
<1> QED
  BY <1>1 DEF LeaseUntil, NoTime

\* Only the transaction of q changes, to r.
Becomes(q, r) ==
  /\ r \in Transactions
  /\ tx' \in [Questions -> Transactions]
  /\ tx'[q] = r
  /\ \A p \in Questions \ {q} : tx'[p] = tx[p]

LEMMA TxSet ==
  ASSUME Typed, NEW q \in Questions, NEW r \in Transactions, tx' = [tx EXCEPT ![q] = r]
  PROVE  Becomes(q, r)
  BY DEF Typed, Becomes

\* The transaction of p has committed, without the slots `gone`.
Commits(p, gone) ==
  /\ tx' \in [Questions -> Transactions]
  /\ p \in Questions => tx'[p] = NoTx
  /\ \A q \in Questions \ {p} :
       /\ tx'[q].step = tx[q].step /\ tx'[q].until = tx[q].until
       /\ tx'[q].locked = tx[q].locked /\ tx'[q].purged = tx[q].purged
       /\ tx'[q].scan = tx[q].scan \ gone /\ tx'[q].seen = tx[q].seen
       /\ tx'[q].order = tx[q].order /\ tx[q].moved \subseteq tx'[q].moved

LEMMA CommittedEffect ==
  ASSUME Typed, NEW p, NEW gone, tx' = Committed(p, gone)
  PROVE  Commits(p, gone)
<1> DEFINE kept(q) == [tx[q] EXCEPT !.scan = @ \ gone]
<1>1. ASSUME NEW q \in Questions
      PROVE  /\ kept(q) \in Transactions
             /\ kept(q).step = tx[q].step /\ kept(q).until = tx[q].until
             /\ kept(q).locked = tx[q].locked /\ kept(q).purged = tx[q].purged
             /\ kept(q).scan = tx[q].scan \ gone /\ kept(q).seen = tx[q].seen
             /\ kept(q).order = tx[q].order /\ kept(q).moved = tx[q].moved
  <2>1. tx[q] \in Transactions /\ tx[q].scan \ gone \in SUBSET Questions
    BY DEF Typed, Transactions
  <2> QED
    BY <2>1 DEF Transactions
<1>2. tx' = [q \in Questions |-> IF q = p THEN NoTx ELSE kept(q)]
  BY DEF Committed
<1> HIDE DEF kept
<1> QED
  BY <1>1, <1>2, NoTxType DEF Commits

LEMMA RemainingType ==
  ASSUME Typed, NEW gone
  PROVE  Remaining(gone) \in SUBSET (Questions \X Questions)
  BY DEF Typed, Remaining

LEMMA InsertedType ==
  ASSUME Typed, NEW q \in Questions, NEW gone, NEW order \in Inserted(q, gone)
  PROVE  order \in SUBSET (Questions \X Questions)
<1> DEFINE others == Slots \ gone
<1>1. PICK front \in SUBSET others :
        order = Remaining(gone) \cup (front \X {q}) \cup ({q} \X (others \ front))
  BY DEF Inserted
<1>2. others \subseteq Questions
  BY DEF Slots
<1> HIDE DEF others
<1> QED
  BY <1>1, <1>2, RemainingType

LEMMA WithoutEffect ==
  ASSUME Typed, NEW gone
  PROVE  /\ Without(gone) \in [Questions -> Nat]
         /\ \A q \in Questions : Without(gone)[q] = IF q \in gone THEN NoTime ELSE slot[q]
  BY DEF Typed, Without, NoTime

\* One statement of a transaction, or its rollback: the tables stay.
Stays(q) ==
  \/ ClaimBegins(q) \/ Purge(q)
  \/ RenewBegins(q) \/ RenewWork(q) \/ RenewSlot(q)
  \/ ReleaseBegins(q) \/ ReleaseLocks(q) \/ Rollback(q)

\* What the statements of a purge have made of the claim's view.
Advances(q, r) ==
  \/ lease[q] <= now /\ r.scan = Slots /\ r.seen = slot
  \/ /\ tx[q].step = "purging"
     /\ r.scan = tx[q].scan \ {First(q)}
     /\ \A other \in r.scan : r.seen[other] = tx[q].seen[other]
     /\ r.purged = tx[q].purged \cup (Meets(q) \cap Lapsed)

\* One row of a purge.
PurgedTo(q, r) ==
  /\ tx' = [tx EXCEPT ![q] = r]
  /\ r.step = tx[q].step /\ r.until = tx[q].until /\ r.moved = tx[q].moved
  /\ r.scan = tx[q].scan \ {First(q)}
  /\ \A other \in r.scan : r.seen[other] = tx[q].seen[other]
  /\ r.order = {pair \in tx[q].order : pair[1] # First(q)}
  /\ r.locked = tx[q].locked \cup Meets(q)
  /\ r.purged = tx[q].purged \cup (Meets(q) \cap Lapsed)

LEMMA PurgeEffect ==
  ASSUME Typed, NEW q \in Questions, Purge(q)
  PROVE  \E r \in Transactions : PurgedTo(q, r)
<1> DEFINE t == tx[q]
           row == First(q)
           met == Meets(q)
           r == [t EXCEPT !.scan = t.scan \ {row}, !.seen = [t.seen EXCEPT ![row] = NoTime],
                          !.order = {pair \in t.order : pair[1] # row},
                          !.locked = t.locked \cup met, !.purged = t.purged \cup (met \cap Lapsed)]
<1>t. t \in Transactions /\ Lapsed \subseteq Questions
  BY DEF Typed, Slots, Lapsed
<1>1. tx' = [tx EXCEPT ![q] = r]
  BY ZenonT(60) DEF Purge, Typed
<1>2. met \subseteq Questions
  BY <1>t DEF Meets, Transactions
<1> HIDE DEF met, row
<1>3. [t.seen EXCEPT ![row] = NoTime] \in [Questions -> Nat]
  BY <1>t DEF Transactions, NoTime
<1>4. /\ r \in Transactions /\ r.step = t.step /\ r.until = t.until /\ r.moved = t.moved
      /\ r.scan = t.scan \ {row} /\ r.seen = [t.seen EXCEPT ![row] = NoTime]
      /\ r.order = {pair \in t.order : pair[1] # row}
      /\ r.locked = t.locked \cup met /\ r.purged = t.purged \cup (met \cap Lapsed)
  BY <1>t, <1>2, <1>3 DEF Transactions
<1>5. \A other \in t.scan \ {row} : [t.seen EXCEPT ![row] = NoTime][other] = t.seen[other]
  BY <1>t DEF Transactions
<1> HIDE DEF r, t
<1> QED
  BY <1>1, <1>4, <1>5 DEF PurgedTo, t, row, met

LEMMA StaysEffect ==
  ASSUME Typed, NEW q \in Questions, Stays(q)
  PROVE  /\ UNCHANGED <<now, lease, slot, before, expiry>>
         /\ \E r : /\ Becomes(q, r) /\ r.step # "granted"
                   /\ r.step # "none" => tx[q].step # "none" \/ q \notin expiry.batch
                   /\ r.step = "purging" => Advances(q, r)
<1> DEFINE t == tx[q]
<1>t. t \in Transactions /\ Slots \subseteq Questions /\ Lapsed \subseteq Questions
  BY DEF Typed, Slots, Lapsed
<1>1. CASE ClaimBegins(q)
  <2> DEFINE r == [t EXCEPT !.step = "purging", !.until = LeaseUntil(q), !.seen = slot,
                            !.order = before, !.scan = Slots]
  <2>1. r \in Transactions /\ r.step = "purging" /\ r.scan = Slots /\ r.seen = slot
    BY <1>t, LeaseUntilType DEF Transactions, ClaimSteps, Typed
  <2>2. tx' = [tx EXCEPT ![q] = r]
    BY <1>1 DEF ClaimBegins, Typed
  <2>3. lease[q] <= now /\ q \notin expiry.batch /\ UNCHANGED <<now, lease, slot, before, expiry>>
    BY <1>1 DEF ClaimBegins, WorkFree
  <2> HIDE DEF r
  <2> QED
    BY <2>1, <2>2, <2>3, TxSet DEF Advances
<1>2. CASE Purge(q)
  <2>1. PICK r \in Transactions : PurgedTo(q, r)
    BY <1>2, PurgeEffect
  <2>2. t.step = "purging" /\ UNCHANGED <<now, lease, slot, before, expiry>>
    BY <1>2 DEF Purge
  <2> QED
    BY <2>1, <2>2, TxSet DEF Advances, PurgedTo
<1>4. CASE RenewBegins(q) \/ ReleaseBegins(q)
  <2> PICK step \in {"checked", "releasing"} : tx' = [tx EXCEPT ![q].step = step]
    BY <1>4 DEF RenewBegins, ReleaseBegins
  <2> DEFINE r == [t EXCEPT !.step = step]
  <2>1. r \in Transactions /\ r.step = step
    BY <1>t DEF Transactions, RenewSteps, ReleaseSteps
  <2>2. tx' = [tx EXCEPT ![q] = r]
    BY DEF Typed
  <2>3. q \notin expiry.batch /\ UNCHANGED <<now, lease, slot, before, expiry>>
    BY <1>4 DEF RenewBegins, ReleaseBegins, WorkFree
  <2> HIDE DEF r
  <2> QED
    BY <2>1, <2>2, <2>3, TxSet
<1>5. CASE RenewWork(q)
  <2> DEFINE r == [t EXCEPT !.step = "extending", !.until = LeaseUntil(q)]
  <2>1. r \in Transactions /\ r.step = "extending"
    BY <1>t, LeaseUntilType DEF Transactions, RenewSteps
  <2>2. tx' = [tx EXCEPT ![q] = r]
    BY <1>5 DEF RenewWork, Typed
  <2>3. t.step = "checked" /\ UNCHANGED <<now, lease, slot, before, expiry>>
    BY <1>5 DEF RenewWork
  <2> HIDE DEF r
  <2> QED
    BY <2>1, <2>2, <2>3, TxSet
<1>6. CASE RenewSlot(q) \/ ReleaseLocks(q)
  <2> PICK step \in {"extended", "reporting"} : tx' = [tx EXCEPT ![q].step = step]
    BY <1>6 DEF RenewSlot, ReleaseLocks
  <2> DEFINE r == [t EXCEPT !.step = step]
  <2>1. r \in Transactions /\ r.step = step
    BY <1>t DEF Transactions, RenewSteps, ReleaseSteps
  <2>2. tx' = [tx EXCEPT ![q] = r]
    BY DEF Typed
  <2>3. t.step # "none" /\ UNCHANGED <<now, lease, slot, before, expiry>>
    BY <1>6 DEF RenewSlot, ReleaseLocks
  <2> HIDE DEF r
  <2> QED
    BY <2>1, <2>2, <2>3, TxSet
<1>7. CASE Rollback(q)
  <2>1. Becomes(q, NoTx)
    BY <1>7, NoTxType, TxSet DEF Rollback
  <2> QED
    BY <1>7, <2>1, NoTxType DEF Rollback
<1> QED
  BY <1>1, <1>2, <1>4, <1>5, <1>6, <1>7 DEF Stays

LEMMA AdmitEffect ==
  ASSUME Typed, NEW q \in Questions, Admit(q)
  PROVE  /\ UNCHANGED <<now, lease, slot, before, expiry>>
         /\ \E r : /\ Becomes(q, r) /\ r.step = "granted"
                   /\ r.scan = tx[q].scan /\ r.purged = tx[q].purged /\ r.seen = tx[q].seen
<1> DEFINE r == [tx[q] EXCEPT !.step = "granted"]
<1>1. /\ r \in Transactions /\ r.step = "granted"
      /\ r.scan = tx[q].scan /\ r.purged = tx[q].purged /\ r.seen = tx[q].seen
  <2>1. tx[q] \in Transactions
    BY DEF Typed
  <2> QED
    BY <2>1 DEF Transactions, ClaimSteps
<1>2. tx' = [tx EXCEPT ![q] = r]
  BY DEF Admit, Typed
<1>3. UNCHANGED <<now, lease, slot, before, expiry>>
  BY DEF Admit
<1> HIDE DEF r
<1> QED
  BY <1>1, <1>2, <1>3, TxSet

\* A transaction of q has committed without the slots `gone`, and has given its
\* question the lease `until`; the slot of q is gone, or has this lease too.
Ends(q, gone, until) ==
  /\ until \in Nat
  /\ UNCHANGED <<now, expiry>>
  /\ slot' \in [Questions -> Nat]
  /\ \A p \in Questions \ {q} : slot'[p] = IF p \in gone THEN NoTime ELSE slot[p]
  /\ lease' \in [Questions -> Nat]
  /\ lease'[q] = until
  /\ \A p \in Questions \ {q} : lease'[p] = lease[p]
  /\ Commits(q, gone)

LEMMA RefuseEffect ==
  ASSUME Typed, NEW q \in Questions, Refuse(q)
  PROVE  /\ Ends(q, tx[q].purged, NoTime)
         /\ slot'[q] = IF q \in tx[q].purged THEN NoTime ELSE slot[q]
         /\ tx[q].step = "purging" /\ tx[q].scan = {}
<1>1. Commits(q, tx[q].purged)
  BY CommittedEffect DEF Refuse
<1>2. /\ slot' = Without(tx[q].purged) /\ lease' = [lease EXCEPT ![q] = NoTime]
      /\ UNCHANGED <<now, expiry>> /\ tx[q].step = "purging" /\ tx[q].scan = {}
  BY DEF Refuse
<1> QED
  BY <1>1, <1>2, WithoutEffect DEF Ends, Typed, NoTime

LEMMA ClaimCommitsEffect ==
  ASSUME Typed, NEW q \in Questions, ClaimCommits(q)
  PROVE  Ends(q, tx[q].purged, tx[q].until) /\ slot'[q] = tx[q].until /\ Granted(q)
<1>1. Commits(q, tx[q].purged)
  BY CommittedEffect DEF ClaimCommits
<1>2. /\ slot' = [Without(tx[q].purged) EXCEPT ![q] = tx[q].until]
      /\ lease' = [lease EXCEPT ![q] = tx[q].until]
      /\ UNCHANGED <<now, expiry>> /\ Granted(q)
  BY DEF ClaimCommits, Granted
<1>3. tx[q].until \in Nat
  BY DEF Typed, Transactions
<1> QED
  BY <1>1, <1>2, <1>3, WithoutEffect DEF Ends, Typed

LEMMA RenewCommitsEffect ==
  ASSUME Typed, NEW q \in Questions, RenewCommits(q)
  PROVE  /\ Ends(q, {}, tx[q].until)
         /\ slot'[q] = IF q \in Slots THEN tx[q].until ELSE slot[q]
         /\ \A p \in Questions \ {q} : tx'[p].moved = tx[p].moved \cup (tx[p].scan \cap {q})
<1> DEFINE passed(p) == [tx[p] EXCEPT !.moved = @ \cup (tx[p].scan \cap {q})]
<1>1. /\ slot' = Extended(q) /\ lease' = [lease EXCEPT ![q] = tx[q].until]
      /\ tx' = [p \in Questions |-> IF p = q THEN NoTx ELSE passed(p)]
      /\ UNCHANGED <<now, expiry>>
  BY DEF RenewCommits
<1>2. tx[q].until \in Nat
  BY DEF Typed, Transactions
<1>3. ASSUME NEW p \in Questions
      PROVE  /\ passed(p) \in Transactions
             /\ passed(p).step = tx[p].step /\ passed(p).until = tx[p].until
             /\ passed(p).locked = tx[p].locked /\ passed(p).purged = tx[p].purged
             /\ passed(p).scan = tx[p].scan /\ passed(p).seen = tx[p].seen
             /\ passed(p).order = tx[p].order
             /\ passed(p).moved = tx[p].moved \cup (tx[p].scan \cap {q})
  <2>1. /\ tx[p] \in Transactions
        /\ tx[p].moved \cup (tx[p].scan \cap {q}) \in SUBSET Questions
    BY DEF Typed, Transactions
  <2> QED
    BY <2>1 DEF Transactions
<1> HIDE DEF passed
<1>4. Commits(q, {})
  BY <1>1, <1>3, NoTxType DEF Commits
<1>5. \A p \in Questions \ {q} : tx'[p].moved = tx[p].moved \cup (tx[p].scan \cap {q})
  BY <1>1, <1>3
<1> QED
  BY <1>1, <1>2, <1>4, <1>5 DEF Ends, Typed, Extended, NoTime

LEMMA ReleaseCommitsEffect ==
  ASSUME Typed, NEW q \in Questions, ReleaseCommits(q)
  PROVE  Ends(q, {q}, NoTime) /\ slot'[q] = NoTime
<1>1. Commits(q, {q})
  BY CommittedEffect DEF ReleaseCommits
<1>2. /\ slot' = Without({q}) /\ lease' = [lease EXCEPT ![q] = NoTime]
      /\ UNCHANGED <<now, expiry>>
  BY DEF ReleaseCommits
<1> QED
  BY <1>1, <1>2, WithoutEffect DEF Ends, Typed, NoTime

LEMMA ExpiryCommitsEffect ==
  ASSUME Typed, ExpiryCommits
  PROVE  /\ now' = now /\ expiry' = NoExpiry
         /\ slot' \in [Questions -> Nat] /\ lease' \in [Questions -> Nat]
         /\ \A q \in Questions :
              /\ slot'[q] = IF q \in expiry.batch THEN NoTime ELSE slot[q]
              /\ q \notin expiry.batch => lease'[q] = lease[q]
         /\ Commits(Expire, expiry.batch)
<1>1. Commits(Expire, expiry.batch)
  BY CommittedEffect DEF ExpiryCommits
<1>2. /\ slot' = Without(expiry.batch)
      /\ lease' = [q \in Questions |-> IF q \in expiry.batch THEN NoTime ELSE lease[q]]
      /\ now' = now /\ expiry' = NoExpiry
  BY DEF ExpiryCommits
<1> QED
  BY <1>1, <1>2, WithoutEffect DEF Typed, NoTime

\* expire up to its commit: only questions without a transaction come into it.
ExpiryStays ==
  \/ \E q \in Questions : ExpiryNext(q)
  \/ ExpiryBegins \/ ExpiryLocks \/ ExpiryReports \/ ExpiryRollback

LEMMA ExpiryStaysEffect ==
  ASSUME Typed, ExpiryStays
  PROVE  /\ UNCHANGED <<now, lease, slot, before, tx>>
         /\ expiry' \in Batches
         /\ \A q \in expiry'.batch : q \in expiry.batch \/ tx[q].step = "none"
<1>t. expiry \in Batches
  BY DEF Typed
<1>1. ASSUME NEW q \in Questions, ExpiryNext(q)
      PROVE  /\ UNCHANGED <<now, lease, slot, before, tx>>
             /\ expiry' \in Batches /\ expiry'.batch = expiry.batch
  BY <1>t, <1>1 DEF ExpiryNext, Batches, ReleaseSteps
<1>2. ASSUME ExpiryLocks \/ ExpiryReports
      PROVE  /\ UNCHANGED <<now, lease, slot, before, tx>>
             /\ expiry' \in Batches /\ expiry'.batch = expiry.batch
  BY <1>t, <1>2 DEF ExpiryLocks, ExpiryReports, Batches, ReleaseSteps
<1>3. CASE ExpiryRollback
  BY <1>3 DEF ExpiryRollback, NoExpiry, Batches
<1>4. CASE ExpiryBegins
  <2>1. PICK batch \in SUBSET {q \in Questions : Deadline[q] <= now /\ WorkFree(q)} :
          expiry' = [batch |-> batch, ended |-> {q \in batch : lease[q] = NoTime},
                     current |-> {}, step |-> "none"]
    BY <1>4 DEF ExpiryBegins
  <2>2. \A q \in batch : q \in Questions /\ tx[q].step = "none"
    BY <2>1, NoTxType DEF WorkFree
  <2>3. expiry' \in Batches /\ expiry'.batch = batch
    BY <2>1, <2>2 DEF Batches
  <2> QED
    BY <1>4, <2>2, <2>3 DEF ExpiryBegins
<1> QED
  BY <1>1, <1>2, <1>3, <1>4 DEF ExpiryStays

LEMMA StepCases ==
  ASSUME [Next]_vars
  PROVE  \/ \E q \in Questions :
              \/ Stays(q) \/ Admit(q) \/ Refuse(q) \/ ClaimCommits(q)
              \/ RenewCommits(q) \/ ReleaseCommits(q)
         \/ ExpiryStays \/ ExpiryCommits
         \/ Tick \/ UNCHANGED vars
  BY DEF Next, Stays, ExpiryStays

LEMMA TypedNext == Typed /\ [Next]_vars => Typed'
<1> SUFFICES ASSUME Typed, [Next]_vars PROVE Typed'
  OBVIOUS
<1>1. ASSUME NEW q \in Questions, Stays(q) PROVE Typed'
  BY <1>1, StaysEffect DEF Typed, Becomes
<1>2. ASSUME NEW q \in Questions, Admit(q) PROVE Typed'
  BY <1>2, AdmitEffect DEF Typed, Becomes
<1>3. ASSUME NEW q \in Questions, NEW gone, NEW until, Ends(q, gone, until),
             before' \in SUBSET (Questions \X Questions)
      PROVE  Typed'
  BY <1>3 DEF Typed, Ends, Commits
<1>4. ASSUME NEW q \in Questions,
             Refuse(q) \/ ClaimCommits(q) \/ RenewCommits(q) \/ ReleaseCommits(q)
      PROVE  Typed'
  <2>1. before' \in SUBSET (Questions \X Questions)
    BY <1>4, RemainingType, InsertedType
    DEF Refuse, ClaimCommits, RenewCommits, ReleaseCommits, Rewritten, Typed
  <2> QED
    BY <1>3, <1>4, <2>1, RefuseEffect, ClaimCommitsEffect, RenewCommitsEffect, ReleaseCommitsEffect
<1>5. CASE ExpiryStays
  BY <1>5, ExpiryStaysEffect DEF Typed
<1>6. CASE ExpiryCommits
  <2>1. NoExpiry \in Batches
    BY DEF NoExpiry, Batches
  <2>2. before' \in SUBSET (Questions \X Questions)
    BY <1>6, RemainingType DEF ExpiryCommits
  <2> QED
    BY <1>6, <2>1, <2>2, ExpiryCommitsEffect DEF Typed, Commits
<1>7. CASE Tick \/ UNCHANGED vars
  BY <1>7 DEF Tick, vars, Typed
<1> QED
  BY <1>1, <1>2, <1>4, <1>5, <1>6, <1>7, StepCases

-------------------------------------------------------------------------------
(* The number of slots *)

\* Steps that add no slot and grant none.
LEMMA CountedKept ==
  ASSUME Counted, Slots' \subseteq Slots,
         \A q \in Questions : Granted(q)' => Granted(q) /\ tx'[q].purged = tx[q].purged
  PROVE  Counted'
<1>1. IsFiniteSet(Slots') /\ Cardinality(Slots') <= SlotLimit
  <2>1. IsFiniteSet(Slots) /\ Cardinality(Slots) <= SlotLimit /\ Cardinality(Slots) \in Nat
    BY FS_CardinalityType DEF Counted
  <2>2. IsFiniteSet(Slots') /\ Cardinality(Slots') <= Cardinality(Slots)
    BY <2>1, FS_Subset
  <2>3. Cardinality(Slots') \in Nat
    BY <2>2, FS_CardinalityType
  <2> QED
    BY <2>1, <2>2, <2>3, ConstantsAssumption
<1>2. ASSUME NEW q \in Questions, Granted(q)'
      PROVE  Cardinality(Slots' \ tx'[q].purged) < SlotLimit
  <2>1. /\ IsFiniteSet(Slots \ tx[q].purged) /\ tx'[q].purged = tx[q].purged
        /\ Cardinality(Slots \ tx[q].purged) < SlotLimit
    BY <1>2, FS_Subset DEF Counted
  <2>2. Slots' \ tx[q].purged \subseteq Slots \ tx[q].purged
    OBVIOUS
  <2>3. /\ IsFiniteSet(Slots' \ tx[q].purged)
        /\ Cardinality(Slots' \ tx[q].purged) <= Cardinality(Slots \ tx[q].purged)
    BY <2>1, <2>2, FS_Subset
  <2>4. Cardinality(Slots' \ tx[q].purged) \in Nat /\ Cardinality(Slots \ tx[q].purged) \in Nat
    BY <2>1, <2>3, FS_CardinalityType
  <2> QED
    BY <2>1, <2>3, <2>4, ConstantsAssumption
<1>3. \A q, p \in Questions : Granted(q)' /\ Granted(p)' => p = q
  BY DEF Counted
<1> QED
  BY <1>1, <1>2, <1>3 DEF Counted

\* A claim that waits for no one is alone with the control row.
LEMMA AloneWithControlRow ==
  ASSUME NEW q \in Questions, tx[q].step = "purging", tx[q].scan = {}, Proceeds(q)
  PROVE  \A p \in Questions \ {q} : ~Granted(p)
<1> SUFFICES ASSUME NEW p \in Questions \ {q}, Granted(p) PROVE FALSE
  OBVIOUS
<1>1. q # Expire /\ p # Expire /\ p \in Processes \ {q}
  BY ConstantsAssumption DEF Processes
<1>2. ControlRow \in Wants(q)
  BY <1>1 DEF Wants, ReleaseSteps
<1>3. ControlRow \in Holds(p)
  <2>1. ControlRow \notin {SlotRow(r) : r \in Questions \ Slots}
    BY DEF ControlRow, SlotRow
  <2>2. tx[p].step = "granted"
    BY DEF Granted
  <2> QED
    BY <1>1, <2>1, <2>2 DEF Holds
<1> QED
  BY <1>1, <1>2, <1>3 DEF Proceeds, Contested

LEMMA CountedNext == Typed /\ Counted /\ [Next]_vars => Counted'
<1> SUFFICES ASSUME Typed, Counted, [Next]_vars PROVE Counted'
  OBVIOUS
<1>1. ASSUME NEW q \in Questions, Stays(q) PROVE Counted'
  <2>1. Slots' = Slots
    BY <1>1, StaysEffect DEF Slots
  <2>2. \A p \in Questions : Granted(p)' => Granted(p) /\ tx'[p].purged = tx[p].purged
    BY <1>1, StaysEffect DEF Becomes, Granted
  <2> QED
    BY <2>1, <2>2, CountedKept
<1>2. ASSUME NEW q \in Questions, Admit(q) PROVE Counted'
  <2>1. /\ tx[q].step = "purging" /\ tx[q].scan = {} /\ Proceeds(q)
        /\ Cardinality(Slots \ tx[q].purged) < SlotLimit
    BY <1>2 DEF Admit
  <2>2. \A p \in Questions \ {q} : ~Granted(p)
    BY <2>1, AloneWithControlRow
  <2>3. /\ Slots' = Slots /\ tx'[q].purged = tx[q].purged
        /\ \A p \in Questions \ {q} : ~Granted(p)'
    BY <1>2, <2>2, AdmitEffect DEF Slots, Becomes, Granted
  <2> QED
    BY <2>1, <2>3 DEF Counted
<1>3. ASSUME NEW q \in Questions, NEW gone, NEW until, Ends(q, gone, until),
             slot'[q] # NoTime => q \in Slots
      PROVE  Counted'
  <2>1. Slots' \subseteq Slots
    BY <1>3 DEF Ends, Slots
  <2>2. \A p \in Questions : Granted(p)' => Granted(p) /\ tx'[p].purged = tx[p].purged
    BY <1>3, NoTxType DEF Ends, Commits, Granted
  <2> QED
    BY <2>1, <2>2, CountedKept
<1>4. ASSUME NEW q \in Questions, ClaimCommits(q) PROVE Counted'
  <2> DEFINE kept == Slots \ tx[q].purged
  <2>1. Ends(q, tx[q].purged, tx[q].until) /\ Granted(q)
    BY <1>4, ClaimCommitsEffect
  <2>2. /\ IsFiniteSet(kept) /\ Cardinality(kept) < SlotLimit
        /\ \A p \in Questions : ~Granted(p)'
    <3>1. IsFiniteSet(kept)
      <4>1. IsFiniteSet(Slots) /\ kept \in SUBSET Slots
        BY DEF Counted
      <4> QED
        BY <4>1, FS_Subset
    <3>2. \A p \in Questions : ~Granted(p)'
      <4>1. \A p \in Questions \ {q} : ~Granted(p)
        BY <2>1 DEF Counted
      <4>2. tx'[q] = NoTx /\ \A p \in Questions \ {q} : tx'[p].step = tx[p].step
        BY <2>1 DEF Ends, Commits
      <4> QED
        BY <4>1, <4>2, NoTxType DEF Granted
    <3> QED
      BY <2>1, <3>1, <3>2 DEF Counted
  <2>3. Slots' \subseteq kept \cup {q}
    BY <2>1 DEF Ends, Slots
  <2>4. IsFiniteSet(kept \cup {q}) /\ Cardinality(kept \cup {q}) <= SlotLimit
    <3>1. Cardinality(kept) \in Nat
      BY <2>2, FS_CardinalityType
    <3>2. /\ IsFiniteSet(kept \cup {q})
          /\ Cardinality(kept \cup {q}) = IF q \in kept THEN Cardinality(kept) ELSE Cardinality(kept) + 1
      BY <2>2, FS_AddElement
    <3> HIDE DEF kept
    <3> QED
      BY <2>2, <3>1, <3>2, ConstantsAssumption
  <2> HIDE DEF kept
  <2>5. IsFiniteSet(Slots') /\ Cardinality(Slots') <= Cardinality(kept \cup {q})
    BY <2>3, <2>4, FS_Subset
  <2>6. Cardinality(Slots') \in Nat /\ Cardinality(kept \cup {q}) \in Nat
    BY <2>4, <2>5, FS_CardinalityType
  <2> QED
    BY <2>2, <2>4, <2>5, <2>6, ConstantsAssumption DEF Counted
<1>5. ASSUME NEW q \in Questions, Refuse(q) \/ RenewCommits(q) \/ ReleaseCommits(q)
      PROVE  Counted'
  <2>1. PICK gone, until : Ends(q, gone, until) /\ (slot'[q] # NoTime => q \in Slots)
    BY <1>5, RefuseEffect, RenewCommitsEffect, ReleaseCommitsEffect DEF Slots
  <2> QED
    BY <1>3, <2>1
<1>6. CASE ExpiryStays
  <2>1. Slots' = Slots /\ tx' = tx
    BY <1>6, ExpiryStaysEffect DEF Slots
  <2> QED
    BY <2>1, CountedKept DEF Granted
<1>7. CASE ExpiryCommits
  <2>1. Slots' \subseteq Slots
    BY <1>7, ExpiryCommitsEffect DEF Slots
  <2>2. \A p \in Questions : tx'[p].step = tx[p].step /\ tx'[p].purged = tx[p].purged
    BY <1>7, ExpiryCommitsEffect, ConstantsAssumption DEF Commits
  <2> QED
    BY <2>1, <2>2, CountedKept DEF Granted
<1>8. CASE Tick \/ UNCHANGED vars
  <2>1. Slots' = Slots /\ tx' = tx
    BY <1>8 DEF Tick, vars, Slots
  <2> QED
    BY <2>1, CountedKept DEF Granted
<1> QED
  BY <1>1, <1>2, <1>4, <1>5, <1>6, <1>7, <1>8, StepCases

\* The table of slots never holds more rows than there are slots: DELETE, count
\* and INSERT of try_acquire are separate statements, and the lock on the control
\* row between them is enough, whoever else purges, renews, releases or dies.
THEOREM SlotsAreCounted == Spec => []SlotTableBudget
<1>1. Init => Typed /\ Counted
  <2> SUFFICES ASSUME Init PROVE Typed /\ Counted
    OBVIOUS
  <2>1. Typed
    BY NoTxType DEF Init, Typed, NoTime, NoExpiry, Batches
  <2>2. Slots = {} /\ \A q \in Questions : ~Granted(q)
    BY NoTxType DEF Init, Slots, Granted
  <2> QED
    BY <2>1, <2>2, FS_EmptySet, ConstantsAssumption DEF Counted
<1>2. Typed /\ Counted /\ [Next]_vars => (Typed /\ Counted)'
  BY TypedNext, CountedNext
<1>3. Counted => SlotTableBudget
  BY DEF Counted, SlotTableBudget
<1> QED
  BY <1>1, <1>2, <1>3, PTL DEF Spec

-------------------------------------------------------------------------------
(* Slots and leases *)

\* A transaction of q ends, with the lease of its question and its slot.
LEMMA FollowedEnds ==
  ASSUME Typed, Followed, NEW q \in Questions, NEW gone, NEW until,
         Ends(q, gone, until), slot'[q] \in {NoTime, until}
  PROVE  Followed'
<1>1. SlotFollowsLease'
  BY DEF Followed, SlotFollowsLease, Slots, Ends
<1>2. Sees(q)' /\ Excluded(q)'
  BY NoTxType DEF Ends, Commits, Sees, Excluded, ClaimSteps
<1>3. ASSUME NEW p \in Questions \ {q} PROVE Sees(p)' /\ Excluded(p)'
  <2>1. /\ tx'[p].step = tx[p].step /\ tx'[p].purged = tx[p].purged
        /\ tx'[p].scan = tx[p].scan \ gone /\ tx'[p].seen = tx[p].seen
        /\ p \notin gone => slot'[p] = slot[p]
        /\ lease'[p] = lease[p] /\ now' = now /\ expiry' = expiry
        /\ p \in Slots' => p \in Slots /\ p \notin gone
    BY DEF Ends, Commits, Slots
  <2>2. Sees(p) /\ Excluded(p)
    BY DEF Followed
  <2> QED
    BY <2>1, <2>2 DEF Sees, Excluded
<1> QED
  BY <1>1, <1>2, <1>3 DEF Followed

LEMMA FollowedNext == Typed /\ Followed /\ [Next]_vars => Followed'
<1> SUFFICES ASSUME Typed, Followed, [Next]_vars PROVE Followed'
  OBVIOUS
<1>1. ASSUME NEW q \in Questions, UNCHANGED <<now, lease, slot, expiry>>,
             NEW r, Becomes(q, r), r.step \in ClaimSteps => (q \in Slots => q \in r.scan \cup r.purged),
             r.step \in ClaimSteps => lease[q] <= now,
             r.step \in ClaimSteps => (q \in r.scan => r.seen[q] = slot[q]),
             r.step # "none" => q \notin expiry.batch
      PROVE  Followed'
  <2>1. SlotFollowsLease'
    BY <1>1 DEF Followed, SlotFollowsLease, Slots
  <2>2. Sees(q)' /\ Excluded(q)'
    BY <1>1 DEF Becomes, Sees, Excluded, Slots
  <2>3. \A p \in Questions \ {q} : Sees(p)' /\ Excluded(p)'
    BY <1>1 DEF Followed, Becomes, Sees, Excluded, Slots
  <2> QED
    BY <2>1, <2>2, <2>3 DEF Followed
<1>2. ASSUME NEW q \in Questions, Stays(q) PROVE Followed'
  <2>1. UNCHANGED <<now, lease, slot, expiry>>
    BY <1>2, StaysEffect
  <2>2. PICK r : /\ Becomes(q, r) /\ r.step # "granted"
                 /\ r.step # "none" => tx[q].step # "none" \/ q \notin expiry.batch
                 /\ r.step = "purging" => Advances(q, r)
    BY <1>2, StaysEffect
  <2>3. ASSUME Advances(q, r)
        PROVE  /\ lease[q] <= now /\ (q \in Slots => q \in r.scan \cup r.purged)
               /\ q \in r.scan => r.seen[q] = slot[q]
    <3>1. CASE lease[q] <= now /\ r.scan = Slots /\ r.seen = slot
      BY <3>1
    <3>2. CASE /\ tx[q].step = "purging"
               /\ r.scan = tx[q].scan \ {First(q)}
               /\ \A other \in r.scan : r.seen[other] = tx[q].seen[other]
               /\ r.purged = tx[q].purged \cup (Meets(q) \cap Lapsed)
      <4>1. /\ lease[q] <= now /\ (q \in Slots => q \in tx[q].scan \cup tx[q].purged)
            /\ q \in tx[q].scan => tx[q].seen[q] = slot[q]
        BY <3>2 DEF Followed, Sees, ClaimSteps
      <4>2. q \in Slots => q \in Lapsed
        BY <4>1 DEF Followed, SlotFollowsLease, Lapsed
      <4>3. q \in Slots /\ q \in tx[q].scan /\ q = First(q) => q \in Meets(q)
        BY <4>1 DEF Followed, SlotFollowsLease, Meets
      <4> QED
        BY <3>2, <4>1, <4>2, <4>3
    <3> QED
      BY <2>3, <3>1, <3>2 DEF Advances
  <2>4. r.step # "none" => q \notin expiry.batch
    BY <2>2 DEF Followed, Excluded
  <2> QED
    BY <1>1, <2>1, <2>2, <2>3, <2>4 DEF ClaimSteps
<1>3. ASSUME NEW q \in Questions, Admit(q) PROVE Followed'
  <2>1. /\ tx[q].step = "purging"
        /\ lease[q] <= now /\ (q \in Slots => q \in tx[q].scan \cup tx[q].purged)
        /\ q \in tx[q].scan => tx[q].seen[q] = slot[q]
        /\ q \notin expiry.batch
    BY <1>3 DEF Admit, Followed, Sees, Excluded, ClaimSteps
  <2>2. UNCHANGED <<now, lease, slot, expiry>>
    BY <1>3, AdmitEffect
  <2>3. PICK r : /\ Becomes(q, r) /\ r.scan = tx[q].scan /\ r.purged = tx[q].purged
                 /\ r.seen = tx[q].seen
    BY <1>3, AdmitEffect
  <2> QED
    BY <1>1, <2>1, <2>2, <2>3
<1>4. ASSUME NEW q \in Questions, Refuse(q) PROVE Followed'
  <2>1. /\ Ends(q, tx[q].purged, NoTime)
        /\ slot'[q] = IF q \in tx[q].purged THEN NoTime ELSE slot[q]
        /\ tx[q].step = "purging" /\ tx[q].scan = {}
    BY <1>4, RefuseEffect
  <2>2. q \in Slots => q \in tx[q].purged
    BY <2>1 DEF Followed, Sees, ClaimSteps
  <2> QED
    BY <2>1, <2>2, FollowedEnds DEF Slots
<1>5. ASSUME NEW q \in Questions, ClaimCommits(q) \/ RenewCommits(q) \/ ReleaseCommits(q)
      PROVE  Followed'
  <2>1. PICK gone, until : Ends(q, gone, until) /\ slot'[q] \in {NoTime, until}
    BY <1>5, ClaimCommitsEffect, RenewCommitsEffect, ReleaseCommitsEffect DEF Slots
  <2> QED
    BY <2>1, FollowedEnds
<1>6. CASE ExpiryStays
  <2>1. /\ UNCHANGED <<now, lease, slot, tx>>
        /\ \A q \in expiry'.batch : q \in expiry.batch \/ tx[q].step = "none"
    BY <1>6, ExpiryStaysEffect
  <2> QED
    BY <2>1 DEF Followed, SlotFollowsLease, Slots, Sees, Excluded
<1>7. CASE ExpiryCommits
  <2>1. /\ now' = now /\ expiry'.batch = {}
        /\ \A q \in Questions :
             /\ slot'[q] = IF q \in expiry.batch THEN NoTime ELSE slot[q]
             /\ q \notin expiry.batch => lease'[q] = lease[q]
             /\ tx'[q].step = tx[q].step /\ tx'[q].purged = tx[q].purged
             /\ tx'[q].scan = tx[q].scan \ expiry.batch /\ tx'[q].seen = tx[q].seen
    BY <1>7, ExpiryCommitsEffect, ConstantsAssumption DEF Commits, NoExpiry
  <2>2. SlotFollowsLease'
    BY <2>1 DEF Followed, SlotFollowsLease, Slots
  <2>3. ASSUME NEW q \in Questions PROVE Sees(q)' /\ Excluded(q)'
    BY <2>1 DEF Followed, Sees, Excluded, Slots, ClaimSteps
  <2> QED
    BY <2>2, <2>3 DEF Followed
<1>8. CASE Tick \/ UNCHANGED vars
  <2>1. /\ UNCHANGED <<lease, slot, tx, expiry>>
        /\ now' = now \/ now' = now + 1
    BY <1>8 DEF Tick, vars
  <2>2. ASSUME NEW q \in Questions PROVE Sees(q)' /\ Excluded(q)'
    <3>1. lease[q] \in Nat /\ now \in Nat /\ Sees(q) /\ Excluded(q)
      BY DEF Typed, Followed
    <3> QED
      BY <2>1, <3>1 DEF Sees, Excluded, Slots
  <2> QED
    BY <2>1, <2>2 DEF Followed, SlotFollowsLease, Slots
<1> QED
  BY <1>2, <1>3, <1>4, <1>5, <1>6, <1>7, <1>8, StepCases

\* A slot belongs to a question that is owned, and lapses with its lease: no
\* refusal, renewal, cancellation, expiry or rollback between two statements of
\* another transaction leaves a slot behind its lease or a lease of its own.
THEOREM SlotsFollowLeases == Spec => []SlotFollowsLease
<1>1. Init => Typed /\ Followed
  <2> SUFFICES ASSUME Init PROVE Typed /\ Followed
    OBVIOUS
  <2>1. Typed
    BY NoTxType DEF Init, Typed, NoTime, NoExpiry, Batches
  <2>2. Slots = {} /\ \A q \in Questions : tx[q].step = "none"
    BY NoTxType DEF Init, Slots
  <2> QED
    BY <2>1, <2>2 DEF Followed, SlotFollowsLease, Sees, Excluded, ClaimSteps
<1>2. Typed /\ Followed /\ [Next]_vars => (Typed /\ Followed)'
  BY TypedNext, FollowedNext
<1>3. Followed => SlotFollowsLease
  BY DEF Followed
<1> QED
  BY <1>1, <1>2, <1>3, PTL DEF Spec

-------------------------------------------------------------------------------
(* Locks and the order of a scan *)

\* A scan of the table meets the slots one after the other.
Sorted(R, S) ==
  /\ \A r \in S : <<r, r>> \notin R
  /\ \A r, s \in S : r # s => <<r, s>> \in R \/ <<s, r>> \in R
  /\ \A r, s, t \in S : <<r, s>> \in R /\ <<s, t>> \in R => <<r, t>> \in R

Order(R, S) == R \subseteq S \X S /\ Sorted(R, S)

TableOrder == Order(before, Slots)

\* The purge of a claim goes through the table in the order of its snapshot, and
\* what it has locked is still there.
InOrder(t) ==
  /\ t.scan \cup t.locked \subseteq Slots /\ t.purged \subseteq t.locked
  /\ t.step \notin ClaimSteps => t.locked = {}
  /\ t.step = "granted" => t.scan = {}
  /\ t.step \in ClaimSteps \cup {"extending", "extended"} => t.until # NoTime
  /\ Sorted(t.order, t.scan)

\* As long as no renewal overtakes it, that is the order of the table, and what it
\* has locked comes before what it has yet to visit.
InTableOrder(t) ==
  t.moved = {} =>
    /\ \A r, s \in t.scan : <<r, s>> \in t.order => <<r, s>> \in before
    /\ \A r \in t.locked, s \in t.scan : <<r, s>> \in before

\* The slot of q, if there is one, is locked by its renewal, or by the release that
\* deletes it.
Taken(q) ==
  \/ tx[q].step \in {"extended", "reporting"}
  \/ q \in expiry.ended /\ lease[q] # NoTime
  \/ q \in expiry.current /\ expiry.step = "reporting"

Apart ==
  \A p, q \in Questions :
    /\ p # q => tx[p].locked \cap tx[q].locked = {}
    /\ Taken(q) => q \notin tx[p].locked

BatchLocks ==
  /\ IsFiniteSet(expiry.batch)
  /\ expiry.ended \cup expiry.current \subseteq expiry.batch
  /\ expiry.ended \cap expiry.current = {}

Locked ==
  /\ TableOrder
  /\ \A q \in Questions : InOrder(tx[q]) /\ InTableOrder(tx[q])
  /\ Apart
  /\ BatchLocks

LEMMA NatLeast ==
  ASSUME NEW T, T \subseteq Nat, T # {}
  PROVE  \E x \in T : \A y \in T : x <= y
<1> DEFINE R == OpToRel(<, Nat)
<1>1. IsWellFoundedOn(R, Nat)
  BY NatLessThanWellFounded
<1>2. \A y, x \in Nat : y < x => <<y, x>> \in R
  BY DEF OpToRel
<1> HIDE DEF R
<1>3. PICK x \in T : \A y \in T : <<y, x>> \notin R
  BY <1>1, WFMin
<1>4. \A y \in T : x \in Nat /\ y \in Nat /\ ~(y < x)
  BY <1>2, <1>3
<1> QED
  BY <1>4

\* A finite set that is ordered has a first member: the one with the fewest
\* predecessors.
LEMMA FiniteOrder ==
  ASSUME NEW T, IsFiniteSet(T), T # {}, NEW R,
         \A x \in T : <<x, x>> \notin R,
         \A x, y, z \in T : <<x, y>> \in R /\ <<y, z>> \in R => <<x, z>> \in R
  PROVE  \E x \in T : \A y \in T : <<y, x>> \notin R
<1> DEFINE Below(x) == {y \in T : <<y, x>> \in R}
           Size(x) == Cardinality(Below(x))
           Sizes == {Size(x) : x \in T}
<1>1. \A x \in T : IsFiniteSet(Below(x)) /\ Size(x) \in Nat
  BY FS_Subset, FS_CardinalityType
<1>2. PICK n \in Sizes : \A m \in Sizes : n <= m
  <2> HIDE DEF Size
  <2>1. ASSUME NEW size \in Sizes PROVE size \in Nat
    <3>1. PICK x \in T : size = Size(x)
      OBVIOUS
    <3> QED
      BY <1>1, <3>1
  <2>2. Sizes # {}
    <3> PICK x \in T : TRUE
      OBVIOUS
    <3>1. Size(x) \in Sizes
      OBVIOUS
    <3> QED
      BY <3>1
  <2> HIDE DEF Sizes
  <2> QED
    BY <2>1, <2>2, NatLeast
<1>3. PICK x \in T : n = Size(x)
  OBVIOUS
<1>4. SUFFICES ASSUME NEW y \in T, <<y, x>> \in R PROVE FALSE
  OBVIOUS
<1>5. Below(y) \subseteq Below(x) /\ y \in Below(x) /\ y \notin Below(y)
  BY <1>4
<1>6. Size(x) <= Size(y)
  <2>1. Size(y) \in Sizes
    OBVIOUS
  <2> HIDE DEF Size, Sizes
  <2> QED
    BY <1>2, <1>3, <2>1
<1>7. Size(y) <= Size(x) /\ (Size(x) = Size(y) => Below(x) = Below(y))
  <2>1. Below(y) \in SUBSET Below(x) /\ IsFiniteSet(Below(x))
    BY <1>1, <1>5
  <2> QED
    BY <2>1, FS_Subset
<1>8. Size(x) = Size(y)
  BY <1>1, <1>6, <1>7
<1> QED
  BY <1>5, <1>7, <1>8

\* A purge meets one of the slots first.
LEMMA FirstEffect ==
  ASSUME NEW q \in Questions, InOrder(tx[q]), IsFiniteSet(Slots), tx[q].scan # {}
  PROVE  /\ First(q) \in tx[q].scan
         /\ \A other \in tx[q].scan \ {First(q)} : <<First(q), other>> \in tx[q].order
<1>1. IsFiniteSet(tx[q].scan)
  BY FS_Subset DEF InOrder
<1>2. PICK r \in tx[q].scan : \A other \in tx[q].scan : <<other, r>> \notin tx[q].order
  <2>1. PICK T, R : T = tx[q].scan /\ R = tx[q].order
    OBVIOUS
  <2>2. Sorted(R, T) /\ IsFiniteSet(T) /\ T # {}
    BY <1>1, <2>1 DEF InOrder
  <2>3. \E r \in T : \A other \in T : <<other, r>> \notin R
    BY <2>2, FiniteOrder DEF Sorted
  <2> QED
    BY <2>1, <2>3
<1>3. \A other \in tx[q].scan \ {r} : <<r, other>> \in tx[q].order
  BY <1>2 DEF InOrder, Sorted
<1> QED
  BY <1>3 DEF First

-------------------------------------------------------------------------------
(* Who holds a lock *)

LEMMA SlotRows ==
  /\ \A p, q : SlotRow(p) = SlotRow(q) => p = q
  /\ \A q : SlotRow(q) # ControlRow
  BY DEF SlotRow, ControlRow

OfNoSlot == {SlotRow(q) : q \in Questions \ Slots}

ByEnded == UNION {{SlotRow(q), ControlRow} : q \in {r \in expiry.ended : lease[r] # NoTime}}

ByCurrent ==
  IF expiry.step = "reporting"
  THEN {ReleaseLock("releasing", q) : q \in expiry.current} ELSE {}

ByPurge(p) == {SlotRow(r) : r \in tx[p].locked}

ByStep(p) ==
  CASE tx[p].step = "granted" -> {ControlRow}
    [] tx[p].step = "extended" -> {SlotRow(p)}
    [] tx[p].step = "reporting" -> {ReleaseLock("releasing", p)}
    [] OTHER -> {}

LEMMA HoldsParts ==
  /\ Holds(Expire) = (ByEnded \cup ByCurrent) \ OfNoSlot
  /\ \A p \in Questions : Holds(p) = (ByPurge(p) \cup ByStep(p)) \ OfNoSlot
<1>1. Holds(Expire) = (ByEnded \cup ByCurrent) \ OfNoSlot
  BY DEF Holds, ByEnded, ByCurrent, OfNoSlot
<1>2. ASSUME NEW p \in Questions PROVE Holds(p) = (ByPurge(p) \cup ByStep(p)) \ OfNoSlot
  <2>1. p # Expire
    BY ConstantsAssumption
  <2> QED
    BY <2>1 DEF Holds, ByPurge, ByStep, OfNoSlot
<1> QED
  BY <1>1, <1>2

LEMMA WantsParts ==
  ASSUME NEW q \in Questions
  PROVE  /\ tx[q].step = "purging" /\ tx[q].scan # {} =>
              Wants(q) = {SlotRow(r) : r \in Meets(q)}
         /\ tx[q].step = "purging" /\ tx[q].scan = {} => Wants(q) = {ControlRow}
         /\ tx[q].step \in {"extending", "releasing"} => Wants(q) = {SlotRow(q)}
         /\ tx[q].step = "reporting" => Wants(q) = {ControlRow}
         /\ tx[q].step \in {"none", "granted", "checked", "extended"} => Wants(q) = {}
<1>1. q # Expire
  BY ConstantsAssumption
<1>2. CASE tx[q].step = "purging"
  BY <1>1, <1>2 DEF Wants, ReleaseSteps
<1>3. CASE tx[q].step \in {"extending", "releasing"}
  BY <1>1, <1>3 DEF Wants, ReleaseSteps, ReleaseLock
<1>4. CASE tx[q].step = "reporting"
  BY <1>1, <1>4 DEF Wants, ReleaseSteps, ReleaseLock
<1>5. CASE tx[q].step \in {"none", "granted", "checked", "extended"}
  BY <1>1, <1>5 DEF Wants, ReleaseSteps
<1> QED
  BY <1>2, <1>3, <1>4, <1>5

\* A slot that no one but q has locked is in no other purge, renewal or release.
LEMMA FreeRow ==
  ASSUME NEW q \in Processes, NEW row \in Slots,
         \A o \in Processes \ {q} : SlotRow(row) \notin Holds(o)
  PROVE  /\ \A p \in Questions \ {q} : row \notin tx[p].locked
         /\ row # q => tx[row].step \notin {"extended", "reporting"}
         /\ q # Expire =>
              /\ ~(row \in expiry.ended /\ lease[row] # NoTime)
              /\ ~(row \in expiry.current /\ expiry.step = "reporting")
<1>0. row \in Questions /\ SlotRow(row) \notin OfNoSlot
  BY SlotRows DEF Slots, OfNoSlot
<1>1. ASSUME NEW p \in Questions \ {q} PROVE row \notin tx[p].locked
  <2>1. p \in Processes \ {q} /\ SlotRow(row) \notin Holds(p)
    BY DEF Processes
  <2> QED
    BY <1>0, <2>1, HoldsParts DEF ByPurge
<1>2. ASSUME row # q, tx[row].step \in {"extended", "reporting"} PROVE FALSE
  <2>1. row \in Processes \ {q} /\ SlotRow(row) \notin Holds(row)
    BY <1>0, <1>2 DEF Processes
  <2>2. SlotRow(row) \in ByStep(row)
    BY <1>2 DEF ByStep, ReleaseLock
  <2> QED
    BY <1>0, <2>1, <2>2, HoldsParts
<1>3. ASSUME q # Expire
      PROVE  /\ ~(row \in expiry.ended /\ lease[row] # NoTime)
             /\ ~(row \in expiry.current /\ expiry.step = "reporting")
  <2>1. SlotRow(row) \notin Holds(Expire)
    BY <1>3 DEF Processes
  <2>2. ASSUME row \in expiry.ended, lease[row] # NoTime PROVE SlotRow(row) \in ByEnded
    BY <2>2 DEF ByEnded
  <2>3. ASSUME row \in expiry.current, expiry.step = "reporting" PROVE SlotRow(row) \in ByCurrent
    BY <2>3 DEF ByCurrent, ReleaseLock
  <2> QED
    BY <1>0, <2>1, <2>2, <2>3, HoldsParts
<1> QED
  BY <1>1, <1>2, <1>3

-------------------------------------------------------------------------------
(* Locked is inductive *)

\* One statement of q: what it locks is neither in another purge nor released.
LEMMA StatementKeepsLocks ==
  ASSUME Locked, NEW q \in Questions, NEW r, Becomes(q, r), InOrder(r), InTableOrder(r),
         UNCHANGED <<lease, slot, before, expiry>>,
         \A row \in r.locked \ tx[q].locked :
           ~Taken(row) /\ \A p \in Questions \ {q} : row \notin tx[p].locked,
         r.step \in {"extended", "reporting"} =>
           \A p \in Questions : q \notin tx[p].locked
  PROVE  Locked'
<1>1. TableOrder' /\ BatchLocks'
  BY DEF Locked, TableOrder, BatchLocks, Slots
<1>2. tx'[q] = r /\ \A p \in Questions \ {q} : tx'[p] = tx[p]
  BY DEF Becomes
<1>3. \A p \in Questions : InOrder(tx[p]) /\ InOrder(tx'[p]) /\ InTableOrder(tx'[p])
  BY <1>2 DEF Locked
<1>4. \A p \in Questions : (InOrder(tx[p]) /\ InTableOrder(tx[p]))'
  BY <1>3 DEF InOrder, InTableOrder, Slots
<1>5. ASSUME NEW p \in Questions, NEW s \in tx'[p].locked
      PROVE  ~Taken(s)' /\ \A o \in Questions \ {p} : s \notin tx'[o].locked
  <2>1. Apart
    BY DEF Locked
  <2>2. s \in Questions
    BY <1>3, <1>5 DEF InOrder, Slots
  <2>3. s \in tx[p].locked => ~Taken(s) /\ \A o \in Questions \ {p} : s \notin tx[o].locked
    BY <2>1, <2>2 DEF Apart
  <2>4. s \notin tx[p].locked => p = q /\ ~Taken(s) /\ \A o \in Questions \ {p} : s \notin tx[o].locked
    BY <1>2, <1>5
  <2>5. ~Taken(s) /\ \A o \in Questions \ {p} : s \notin tx[o].locked
    BY <2>3, <2>4
  <2>6. \A o \in Questions \ {p} : s \notin tx'[o].locked
    BY <1>2, <1>5, <2>1, <2>2, <2>3, <2>4 DEF Apart
  <2>7. tx'[s].step \notin {"extended", "reporting"}
    <3>1. CASE s # q
      BY <1>2, <2>2, <2>5, <3>1 DEF Taken
    <3>2. CASE s = q
      <4>1. r.step \in {"extended", "reporting"} => r.locked = {} /\ tx[p].locked \subseteq Questions \ {q}
        BY <1>3 DEF InOrder, ClaimSteps, Slots
      <4> QED
        BY <1>2, <1>5, <2>4, <3>2, <4>1
    <3> QED
      BY <3>1, <3>2
  <2> QED
    BY <2>5, <2>6, <2>7 DEF Taken
<1>6. Apart'
  BY <1>5 DEF Apart
<1> QED
  BY <1>1, <1>4, <1>6 DEF Locked

\* A transaction that is not a claim keeps nothing of a purge.
LEMMA OrderOfOthers ==
  ASSUME NEW t, InOrder(t), InTableOrder(t), t.step \notin ClaimSteps, NEW r,
         r.scan = t.scan, r.locked = t.locked, r.purged = t.purged,
         r.order = t.order, r.moved = t.moved,
         r.step \notin ClaimSteps, r.step \in {"extending", "extended"} => r.until # NoTime
  PROVE  InOrder(r) /\ InTableOrder(r)
  BY DEF InOrder, InTableOrder, ClaimSteps

LEMMA ClaimBeginsLocked ==
  ASSUME Typed, Locked, NEW q \in Questions, ClaimBegins(q)
  PROVE  Locked'
<1> DEFINE r == [tx[q] EXCEPT !.step = "purging", !.until = LeaseUntil(q), !.seen = slot,
                              !.order = before, !.scan = Slots]
<1>1. /\ tx[q] = NoTx /\ now < Deadline[q] /\ tx[q] \in Transactions
      /\ UNCHANGED <<lease, slot, before, expiry>>
  BY DEF ClaimBegins, WorkFree, Typed
<1>2. LeaseUntil(q) \in Nat /\ LeaseUntil(q) # NoTime
  BY LeaseUntilType
<1>3. /\ r \in Transactions /\ r.step = "purging" /\ r.until # NoTime
      /\ r.order = before /\ r.scan = Slots /\ r.locked = {} /\ r.purged = {}
  <2>1. Slots \in SUBSET Questions /\ tx[q].locked = {} /\ tx[q].purged = {}
    BY <1>1, NoTxType DEF Slots
  <2> QED
    BY <1>1, <1>2, <2>1 DEF Transactions, ClaimSteps, Typed
<1>4. tx' = [tx EXCEPT ![q] = r]
  BY DEF ClaimBegins, Typed
<1> HIDE DEF r
<1>5. InOrder(r) /\ InTableOrder(r)
  BY <1>3 DEF InOrder, InTableOrder, ClaimSteps, Locked, TableOrder, Order
<1>6. Becomes(q, r)
  BY <1>3, <1>4, TxSet
<1> QED
  BY <1>1, <1>3, <1>5, <1>6, StatementKeepsLocks

LEMMA PurgeLocked ==
  ASSUME Typed, Locked, IsFiniteSet(Slots), NEW q \in Questions, Purge(q)
  PROVE  Locked'
<1> DEFINE t == tx[q]
           row == First(q)
<1>1. /\ t \in Transactions /\ t.step = "purging" /\ t.scan # {} /\ Proceeds(q)
      /\ UNCHANGED <<lease, slot, before, expiry>>
      /\ InOrder(t) /\ InTableOrder(t) /\ Slots \subseteq Questions
  BY DEF Purge, Typed, Locked, Slots
<1>2. row \in t.scan /\ row \in Slots /\ \A other \in t.scan \ {row} : <<row, other>> \in t.order
  BY <1>1, FirstEffect DEF InOrder
<1>3. PICK r \in Transactions : PurgedTo(q, r)
  BY PurgeEffect
<1>4. Meets(q) \subseteq {row}
  BY DEF Meets
<1>5. ASSUME row \in Meets(q)
      PROVE  ~Taken(row) /\ \A p \in Questions \ {q} : row \notin tx[p].locked
  <2>1. q # Expire /\ q \in Processes
    BY ConstantsAssumption DEF Processes
  <2>2. SlotRow(row) \in Wants(q)
    BY <1>1, <1>5, WantsParts
  <2>3. \A o \in Processes \ {q} : SlotRow(row) \notin Holds(o)
    BY <1>1, <2>2 DEF Proceeds, Contested
  <2>4. tx[q].step \notin {"extended", "reporting"}
    BY <1>1
  <2> HIDE DEF row
  <2> QED
    BY <1>2, <2>1, <2>3, <2>4, FreeRow DEF Taken
<1>6. /\ r.step = "purging" /\ r.until = t.until /\ r.moved = t.moved
      /\ r.scan = t.scan \ {row} /\ r.order = {pair \in t.order : pair[1] # row}
      /\ r.locked = t.locked \cup Meets(q) /\ r.purged = t.purged \cup (Meets(q) \cap Lapsed)
  BY <1>1, <1>3 DEF PurgedTo
<1>7. \A x, y \in r.scan : <<x, y>> \in r.order <=> <<x, y>> \in t.order
  BY <1>6
<1> HIDE DEF row
<1>8. InOrder(r)
  <2>1. Sorted(r.order, r.scan)
    BY <1>1, <1>6, <1>7 DEF InOrder, Sorted
  <2>2. r.scan \cup r.locked \subseteq Slots /\ r.purged \subseteq r.locked
    BY <1>1, <1>2, <1>4, <1>6 DEF InOrder
  <2> QED
    BY <1>1, <1>6, <2>1, <2>2 DEF InOrder, ClaimSteps
<1>9. InTableOrder(r)
  <2> SUFFICES ASSUME r.moved = {}
               PROVE  /\ \A x, y \in r.scan : <<x, y>> \in r.order => <<x, y>> \in before
                      /\ \A x \in r.locked, y \in r.scan : <<x, y>> \in before
    BY DEF InTableOrder
  <2>1. /\ \A x, y \in t.scan : <<x, y>> \in t.order => <<x, y>> \in before
        /\ \A x \in t.locked, y \in t.scan : <<x, y>> \in before
    BY <1>1, <1>6 DEF InTableOrder
  <2> QED
    BY <1>2, <1>4, <1>6, <1>7, <2>1
<1>10. Becomes(q, r)
  BY <1>3, TxSet DEF PurgedTo
<1>11. \A other \in r.locked \ tx[q].locked :
        ~Taken(other) /\ \A p \in Questions \ {q} : other \notin tx[p].locked
  BY <1>4, <1>5, <1>6
<1> QED
  BY <1>1, <1>6, <1>8, <1>9, <1>10, <1>11, StatementKeepsLocks

LEMMA AdmitLocked ==
  ASSUME Typed, Locked, NEW q \in Questions, Admit(q)
  PROVE  Locked'
<1> DEFINE r == [tx[q] EXCEPT !.step = "granted"]
<1>1. /\ tx[q] \in Transactions /\ tx[q].step = "purging" /\ tx[q].scan = {}
      /\ InOrder(tx[q]) /\ InTableOrder(tx[q])
      /\ UNCHANGED <<lease, slot, before, expiry>>
  BY DEF Admit, Typed, Locked
<1>2. /\ r \in Transactions /\ r.step = "granted" /\ r.until = tx[q].until
      /\ r.scan = tx[q].scan /\ r.locked = tx[q].locked /\ r.purged = tx[q].purged
      /\ r.order = tx[q].order
  BY <1>1 DEF Transactions, ClaimSteps
<1>3. tx' = [tx EXCEPT ![q] = r]
  BY DEF Admit, Typed
<1> HIDE DEF r
<1>4. InOrder(r) /\ InTableOrder(r)
  BY <1>1, <1>2 DEF InOrder, InTableOrder, ClaimSteps
<1> QED
  BY <1>1, <1>2, <1>3, <1>4, TxSet, StatementKeepsLocks

\* Renewals, releases and rollbacks lock no slot for a purge.
LEMMA OtherStatementsLocked ==
  ASSUME Typed, Locked, NEW q \in Questions,
         \/ RenewBegins(q) \/ RenewWork(q) \/ RenewSlot(q)
         \/ ReleaseBegins(q) \/ ReleaseLocks(q) \/ Rollback(q)
  PROVE  Locked'
<1>1. tx[q] \in Transactions /\ InOrder(tx[q]) /\ InTableOrder(tx[q])
  BY DEF Typed, Locked
<1>2. UNCHANGED <<lease, slot, before, expiry>>
  BY DEF RenewBegins, RenewWork, RenewSlot, ReleaseBegins, ReleaseLocks, Rollback
<1>3. ASSUME NEW r \in Transactions, tx' = [tx EXCEPT ![q] = r], InOrder(r), InTableOrder(r),
             r.locked = {},
             r.step \in {"extended", "reporting"} => \A p \in Questions : q \notin tx[p].locked
      PROVE  Locked'
  <2>1. Becomes(q, r)
    BY <1>3, TxSet
  <2> QED
    BY <1>2, <1>3, <2>1, StatementKeepsLocks
<1>4. ASSUME NEW step \in {"checked", "extended", "releasing", "reporting"},
             tx' = [tx EXCEPT ![q].step = step], tx[q].step \notin ClaimSteps,
             step = "extended" => tx[q].step = "extending",
             step \in {"extended", "reporting"} => \A p \in Questions : q \notin tx[p].locked
      PROVE  Locked'
  <2> DEFINE r == [tx[q] EXCEPT !.step = step]
  <2>1. /\ r \in Transactions /\ r.step = step /\ r.until = tx[q].until
        /\ r.scan = tx[q].scan /\ r.locked = tx[q].locked /\ r.purged = tx[q].purged
        /\ r.order = tx[q].order /\ r.moved = tx[q].moved
    BY <1>1 DEF Transactions, RenewSteps, ReleaseSteps
  <2>2. tx' = [tx EXCEPT ![q] = r]
    BY <1>4 DEF Typed
  <2> HIDE DEF r
  <2>3. InOrder(r) /\ InTableOrder(r)
    <3>1. r.step \in {"extending", "extended"} => r.until # NoTime
      BY <1>1, <1>4, <2>1 DEF InOrder
    <3> QED
      BY <1>1, <1>4, <2>1, <3>1, OrderOfOthers DEF ClaimSteps
  <2>4. r.locked = {}
    BY <1>1, <1>4, <2>1 DEF InOrder
  <2> QED
    BY <1>3, <1>4, <2>1, <2>2, <2>3, <2>4
<1>5. CASE RenewBegins(q) \/ ReleaseBegins(q)
  <2>1. PICK step \in {"checked", "releasing"} : tx' = [tx EXCEPT ![q].step = step]
    BY <1>5 DEF RenewBegins, ReleaseBegins
  <2>2. tx[q].step \notin ClaimSteps
    BY <1>5, NoTxType DEF RenewBegins, ReleaseBegins, WorkFree, ClaimSteps
  <2> QED
    BY <1>4, <2>1, <2>2
<1>6. CASE RenewWork(q)
  <2> DEFINE r == [tx[q] EXCEPT !.step = "extending", !.until = LeaseUntil(q)]
  <2>1. tx[q].step = "checked"
    BY <1>6 DEF RenewWork
  <2>2. LeaseUntil(q) \in Nat /\ LeaseUntil(q) # NoTime
    BY LeaseUntilType
  <2>3. /\ r \in Transactions /\ r.step = "extending" /\ r.until # NoTime
        /\ r.scan = tx[q].scan /\ r.locked = tx[q].locked /\ r.purged = tx[q].purged
        /\ r.order = tx[q].order /\ r.moved = tx[q].moved
    BY <1>1, <2>2 DEF Transactions, RenewSteps
  <2>4. tx' = [tx EXCEPT ![q] = r]
    BY <1>6 DEF RenewWork, Typed
  <2> HIDE DEF r
  <2>5. InOrder(r) /\ InTableOrder(r)
    BY <1>1, <2>1, <2>3, OrderOfOthers DEF ClaimSteps
  <2>6. r.locked = {}
    BY <1>1, <2>1, <2>3 DEF InOrder, ClaimSteps
  <2> QED
    BY <1>3, <2>3, <2>4, <2>5, <2>6
<1>7. ASSUME tx[q].step \in {"extending", "releasing"}, Proceeds(q), NEW p \in Questions
      PROVE  q \notin tx[p].locked
  <2>1. CASE q \notin Slots
    BY <2>1 DEF Locked, InOrder
  <2>2. CASE p = q
    BY <1>1, <1>7, <2>2 DEF InOrder, ClaimSteps
  <2>3. CASE q \in Slots /\ p # q
    <3>1. SlotRow(q) \in Wants(q)
      BY <1>7, WantsParts
    <3>2. \A o \in Processes \ {q} : SlotRow(q) \notin Holds(o)
      BY <1>7, <3>1 DEF Proceeds, Contested
    <3>3. q \in Processes
      BY DEF Processes
    <3> QED
      BY <2>3, <3>2, <3>3, FreeRow
  <2> QED
    BY <2>1, <2>2, <2>3
<1>8. CASE RenewSlot(q) \/ ReleaseLocks(q)
  <2>1. PICK step \in {"extended", "reporting"} :
          /\ tx' = [tx EXCEPT ![q].step = step] /\ Proceeds(q)
          /\ tx[q].step = IF step = "extended" THEN "extending" ELSE "releasing"
    BY <1>8 DEF RenewSlot, ReleaseLocks
  <2> QED
    BY <1>4, <1>7, <2>1 DEF ClaimSteps
<1>9. CASE Rollback(q)
  <2>1. InOrder(NoTx) /\ InTableOrder(NoTx)
    BY NoTxType DEF InOrder, InTableOrder, Sorted, ClaimSteps
  <2> QED
    BY <1>3, <1>9, <2>1, NoTxType DEF Rollback
<1> QED
  BY <1>5, <1>6, <1>8, <1>9

\* For a purge that no renewal overtakes, the rows it is concerned with stay in
\* their order.
KeepsOrder(p, gone) ==
  \A q \in Questions \ {p} : tx'[q].moved = {} =>
    \A r, s \in (tx[q].scan \cup tx[q].locked) \ gone :
      <<r, s>> \in before => <<r, s>> \in before'

\* A transaction commits without the slots `gone`, which no other has locked.
LEMMA CommitKeepsLocks ==
  ASSUME Locked, TableOrder', BatchLocks', NEW p, NEW gone, Commits(p, gone),
         Slots \ gone \subseteq Slots',
         \A q \in Questions \ {p} : gone \cap tx[q].locked = {},
         KeepsOrder(p, gone),
         \A q \in Questions \ {p} : \A s \in tx[q].locked : Taken(s)' => Taken(s)
  PROVE  Locked'
<1>1. ASSUME NEW q \in Questions
      PROVE  (InOrder(tx[q]) /\ InTableOrder(tx[q]))'
  <2>1. CASE q = p
    BY <2>1, NoTxType DEF Commits, InOrder, InTableOrder, Sorted, ClaimSteps
  <2>2. CASE q # p
    <3>1. /\ tx'[q].step = tx[q].step /\ tx'[q].until = tx[q].until
          /\ tx'[q].locked = tx[q].locked /\ tx'[q].purged = tx[q].purged
          /\ tx'[q].order = tx[q].order /\ tx[q].moved \subseteq tx'[q].moved
          /\ tx'[q].scan = tx[q].scan \ gone /\ gone \cap tx[q].locked = {}
      BY <2>2 DEF Commits
    <3>2. InOrder(tx[q]) /\ InTableOrder(tx[q])
      BY DEF Locked
    <3>3. InOrder(tx[q])'
      BY <3>1, <3>2 DEF InOrder, Sorted
    <3>4. InTableOrder(tx[q])'
      <4> SUFFICES ASSUME tx'[q].moved = {}
                   PROVE  /\ \A r, s \in tx'[q].scan : <<r, s>> \in tx'[q].order => <<r, s>> \in before'
                          /\ \A r \in tx'[q].locked, s \in tx'[q].scan : <<r, s>> \in before'
        BY DEF InTableOrder
      <4>1. /\ \A r, s \in tx[q].scan : <<r, s>> \in tx[q].order => <<r, s>> \in before
            /\ \A r \in tx[q].locked, s \in tx[q].scan : <<r, s>> \in before
        BY <3>1, <3>2 DEF InTableOrder
      <4>2. \A r, s \in (tx[q].scan \cup tx[q].locked) \ gone :
              <<r, s>> \in before => <<r, s>> \in before'
        BY <2>2 DEF KeepsOrder
      <4> QED
        BY <3>1, <4>1, <4>2
    <3> QED
      BY <3>3, <3>4
  <2> QED
    BY <2>1, <2>2
<1>2. ASSUME NEW q \in Questions, NEW s \in tx'[q].locked
      PROVE  q # p /\ s \in tx[q].locked /\ s \in Questions
  <2>1. q # p
    BY <1>2, NoTxType DEF Commits
  <2> QED
    BY <1>2, <2>1 DEF Commits, Locked, InOrder, Slots
<1>3. Apart'
  BY <1>2 DEF Apart, Locked
<1> QED
  BY <1>1, <1>3 DEF Locked

LEMMA RemainsOrdered ==
  ASSUME TableOrder, NEW gone
  PROVE  Order(Remaining(gone), Slots \ gone)
<1>1. /\ \A r, s : <<r, s>> \in Remaining(gone) <=>
                    <<r, s>> \in before /\ r \notin gone /\ s \notin gone
      /\ Remaining(gone) \subseteq (Slots \ gone) \X (Slots \ gone)
  BY DEF Remaining, TableOrder, Order
<1> QED
  BY <1>1 DEF TableOrder, Order, Sorted

\* A commit that leaves the other rows where they are keeps their order.
LEMMA OrderRemains ==
  ASSUME NEW p, NEW gone, Remaining(gone) \subseteq before'
  PROVE  KeepsOrder(p, gone)
  BY DEF KeepsOrder, Remaining

\* A new slot is put anywhere into the order.
LEMMA InsertedOrder ==
  ASSUME NEW S, NEW R, Order(R, S), NEW q, q \notin S, NEW front \in SUBSET S,
         \A pair \in R : pair[2] \in front => pair[1] \in front
  PROVE  Order(R \cup (front \X {q}) \cup ({q} \X (S \ front)), S \cup {q})
<1> DEFINE R1 == R \cup (front \X {q}) \cup ({q} \X (S \ front))
           S1 == S \cup {q}
<1>0. /\ R \subseteq S \X S
      /\ \A r \in S : <<r, r>> \notin R
      /\ \A r, s \in S : r # s => <<r, s>> \in R \/ <<s, r>> \in R
      /\ \A r, s, t \in S : <<r, s>> \in R /\ <<s, t>> \in R => <<r, t>> \in R
  BY DEF Order, Sorted
<1>1. \A r, s : <<r, s>> \in R1 <=>
                  \/ <<r, s>> \in R
                  \/ r \in front /\ s = q
                  \/ r = q /\ s \in S \ front
  BY <1>0
<1>2. \A r, s : <<r, s>> \in R => r \in S /\ s \in S /\ (s \in front => r \in front)
  BY <1>0
<1>3. R1 \subseteq S1 \X S1
  BY <1>0
<1> HIDE DEF R1
<1>4. \A r \in S1 : <<r, r>> \notin R1
  BY <1>0, <1>1, <1>2
<1>5. \A r, s \in S1 : r # s => <<r, s>> \in R1 \/ <<s, r>> \in R1
  BY <1>0, <1>1
<1>6. ASSUME NEW r \in S1, NEW s \in S1, NEW t \in S1, <<r, s>> \in R1, <<s, t>> \in R1
      PROVE  <<r, t>> \in R1
  <2>1. CASE s = q
    <3>1. r \in front /\ t \in S \ front
      BY <1>1, <1>2, <1>6, <2>1
    <3>2. <<t, r>> \notin R
      BY <1>2, <3>1
    <3>3. <<r, t>> \in R
      BY <1>0, <3>1, <3>2
    <3> QED
      BY <1>1, <3>3
  <2>2. CASE s # q
    BY <1>0, <1>1, <1>2, <1>6, <2>2
  <2> QED
    BY <2>1, <2>2
<1>7. Order(R1, S1)
  BY <1>3, <1>4, <1>5, <1>6 DEF Order, Sorted
<1> QED
  BY <1>7 DEF R1

LEMMA InsertedSlot ==
  ASSUME TableOrder, NEW q, NEW gone, q \notin Slots \ gone, NEW order \in Inserted(q, gone)
  PROVE  Order(order, (Slots \ gone) \cup {q}) /\ Remaining(gone) \subseteq order
<1> DEFINE others == Slots \ gone
           rest == Remaining(gone)
<1>1. PICK front \in SUBSET others :
        /\ \A pair \in rest : pair[2] \in front => pair[1] \in front
        /\ order = rest \cup (front \X {q}) \cup ({q} \X (others \ front))
  BY DEF Inserted
<1>2. Order(rest, others)
  BY RemainsOrdered
<1> HIDE DEF others, rest
<1>3. Order(order, others \cup {q})
  BY <1>1, <1>2, InsertedOrder DEF others
<1> QED
  BY <1>1, <1>3 DEF others, rest

LEMMA RefuseLocked ==
  ASSUME Typed, Locked, NEW q \in Questions, Refuse(q)
  PROVE  Locked'
<1> DEFINE gone == tx[q].purged
<1>1. Ends(q, gone, NoTime) /\ slot'[q] = (IF q \in gone THEN NoTime ELSE slot[q])
  BY RefuseEffect
<1>2. Slots' = Slots \ gone /\ before' = Remaining(gone)
  BY <1>1 DEF Ends, Slots, Refuse
<1>3. Commits(q, gone) /\ BatchLocks'
  BY <1>1 DEF Ends, Locked, BatchLocks
<1>4. gone \subseteq tx[q].locked /\ gone \subseteq Questions
  BY DEF Locked, InOrder, Slots
<1>5. \A p \in Questions \ {q} : gone \cap tx[p].locked = {}
  BY <1>4 DEF Locked, Apart
<1>6. \A s \in Questions : Taken(s)' => Taken(s)
  BY <1>1, NoTxType DEF Taken, Ends, Commits
<1>7. \A p \in Questions : tx[p].locked \subseteq Questions
  BY DEF Locked, InOrder, Slots
<1>8. TableOrder'
  BY <1>2, RemainsOrdered DEF Locked, TableOrder
<1>k. KeepsOrder(q, gone)
  BY <1>2, OrderRemains
<1> HIDE DEF gone
<1> QED
  BY <1>2, <1>3, <1>5, <1>6, <1>7, <1>8, <1>k, CommitKeepsLocks

LEMMA ReleaseCommitsLocked ==
  ASSUME Typed, Locked, NEW q \in Questions, ReleaseCommits(q)
  PROVE  Locked'
<1>1. Ends(q, {q}, NoTime) /\ slot'[q] = NoTime
  BY ReleaseCommitsEffect
<1>2. Slots' = Slots \ {q} /\ before' = Remaining({q})
  BY <1>1 DEF Ends, Slots, ReleaseCommits
<1>3. Commits(q, {q}) /\ BatchLocks'
  BY <1>1 DEF Ends, Locked, BatchLocks
<1>4. Taken(q)
  BY DEF ReleaseCommits, Taken
<1>5. \A p \in Questions \ {q} : {q} \cap tx[p].locked = {}
  BY <1>4 DEF Locked, Apart
<1>6. \A s \in Questions : Taken(s)' => Taken(s)
  BY <1>1, NoTxType DEF Taken, Ends, Commits
<1>7. \A p \in Questions : tx[p].locked \subseteq Questions
  BY DEF Locked, InOrder, Slots
<1>8. TableOrder'
  BY <1>2, RemainsOrdered DEF Locked, TableOrder
<1>k. KeepsOrder(q, {q})
  BY <1>2, OrderRemains
<1> QED
  BY <1>2, <1>3, <1>5, <1>6, <1>7, <1>8, <1>k, CommitKeepsLocks

LEMMA RenewCommitsLocked ==
  ASSUME Typed, Locked, Followed, NEW q \in Questions, RenewCommits(q)
  PROVE  Locked'
<1>1. /\ Ends(q, {}, tx[q].until) /\ before' \in Rewritten(q) /\ tx[q].step = "extended"
      /\ slot'[q] = (IF q \in Slots THEN tx[q].until ELSE slot[q])
      /\ \A p \in Questions \ {q} : tx'[p].moved = tx[p].moved \cup (tx[p].scan \cap {q})
  BY RenewCommitsEffect DEF RenewCommits
<1>2. tx[q].until # NoTime
  BY <1>1 DEF Locked, InOrder
<1>3. Slots' = Slots
  BY <1>1, <1>2 DEF Ends, Slots
<1>4. Commits(q, {}) /\ BatchLocks'
  BY <1>1 DEF Ends, Locked, BatchLocks
<1>5. TableOrder' /\ Remaining({q}) \subseteq before'
  <2>1. CASE q \notin Slots
    BY <1>1, <1>3, <2>1 DEF Rewritten, Locked, TableOrder, Remaining
  <2>2. CASE q \in Slots
    <3>1. before' \in Inserted(q, {q})
      BY <1>1, <2>2 DEF Rewritten
    <3>2. (Slots \ {q}) \cup {q} = Slots'
      BY <1>3, <2>2
    <3> QED
      BY <3>1, <3>2, InsertedSlot DEF Locked, TableOrder
  <2> QED
    BY <2>1, <2>2
\* A purge that has q yet to visit is overtaken, and none has locked it.
<1>6. KeepsOrder(q, {})
  <2>1. ASSUME NEW p \in Questions \ {q}, tx'[p].moved = {}
        PROVE  q \notin tx[p].scan \cup tx[p].locked
    BY <1>1, <2>1 DEF Locked, Apart, Taken
  <2> QED
    BY <1>5, <2>1 DEF KeepsOrder, Remaining
<1>7. q \notin expiry.ended
  BY <1>1 DEF Followed, Excluded, Locked, BatchLocks
<1>8. \A s \in Questions : Taken(s)' => Taken(s)
  BY <1>1, <1>7, NoTxType DEF Taken, Ends, Commits
<1>9. \A p \in Questions : tx[p].locked \subseteq Questions
  BY DEF Locked, InOrder, Slots
<1> QED
  BY <1>3, <1>4, <1>5, <1>6, <1>8, <1>9, CommitKeepsLocks

LEMMA ClaimCommitsLocked ==
  ASSUME Typed, Locked, Followed, NEW q \in Questions, ClaimCommits(q)
  PROVE  Locked'
<1> DEFINE gone == tx[q].purged
           kept == Slots \ gone
<1>1. Ends(q, gone, tx[q].until) /\ slot'[q] = tx[q].until /\ tx[q].step = "granted"
  BY ClaimCommitsEffect DEF Granted
<1>2. tx[q].until # NoTime /\ tx[q].scan = {} /\ gone \subseteq tx[q].locked
  BY <1>1 DEF Locked, InOrder, ClaimSteps
<1>3. q \notin kept /\ q \notin expiry.batch
  BY <1>1, <1>2 DEF Followed, Sees, Excluded, ClaimSteps
<1>4. Slots' = kept \cup {q}
  BY <1>1, <1>2 DEF Ends, Slots
<1>5. before' \in Inserted(q, gone)
  BY DEF ClaimCommits
<1>8. TableOrder' /\ Remaining(gone) \subseteq before'
  BY <1>3, <1>4, <1>5, InsertedSlot DEF Locked, TableOrder
<1>9. Commits(q, gone) /\ BatchLocks'
  BY <1>1 DEF Ends, Locked, BatchLocks
<1>10. \A p \in Questions \ {q} : gone \cap tx[p].locked = {}
  <2>1. gone \subseteq Questions
    BY <1>2 DEF Locked, InOrder, Slots
  <2> QED
    BY <1>2, <2>1 DEF Locked, Apart
<1>11. \A s \in Questions : Taken(s)' => Taken(s)
  <2>1. q \notin expiry.ended
    BY <1>3 DEF Locked, BatchLocks
  <2> QED
    BY <1>1, <2>1, NoTxType DEF Taken, Ends, Commits
<1>12. \A p \in Questions : tx[p].locked \subseteq Questions
  BY DEF Locked, InOrder, Slots
<1>13. Slots \ gone \subseteq Slots'
  BY <1>4
<1>k. KeepsOrder(q, gone)
  BY <1>8, OrderRemains
<1> HIDE DEF gone
<1> QED
  BY <1>8, <1>9, <1>10, <1>11, <1>12, <1>13, <1>k, CommitKeepsLocks

LEMMA ExpiryCommitsLocked ==
  ASSUME Typed, Locked, Followed, ExpiryCommits
  PROVE  Locked'
<1> DEFINE gone == expiry.batch
<1>1. /\ expiry' = NoExpiry /\ Commits(Expire, gone)
      /\ \A q \in Questions : slot'[q] = IF q \in gone THEN NoTime ELSE slot[q]
      /\ \A q \in Questions : q \notin gone => lease'[q] = lease[q]
  BY ExpiryCommitsEffect
<1>2. Slots' = Slots \ gone /\ before' = Remaining(gone) /\ expiry.ended = gone
  BY <1>1 DEF Slots, ExpiryCommits
<1>3. BatchLocks'
  BY <1>1, FS_EmptySet DEF BatchLocks, NoExpiry
<1>4. ASSUME NEW q \in Questions, NEW s \in gone, s \in tx[q].locked PROVE FALSE
  <2>1. s \in Slots
    BY <1>4 DEF Locked, InOrder
  <2>2. lease[s] # NoTime /\ s \in Questions
    BY <2>1 DEF Followed, SlotFollowsLease, Slots
  <2>3. Taken(s)
    BY <1>2, <1>4, <2>2 DEF Taken
  <2> QED
    BY <1>4, <2>2, <2>3 DEF Locked, Apart
<1>5. \A q \in Questions : q # Expire
  BY ConstantsAssumption
<1>6. \A s \in Questions : Taken(s)' => Taken(s)
  BY <1>1, <1>5 DEF Taken, Commits, NoExpiry
<1>7. \A p \in Questions : tx[p].locked \subseteq Questions
  BY DEF Locked, InOrder, Slots
<1>8. TableOrder'
  BY <1>2, RemainsOrdered DEF Locked, TableOrder
<1>9. \A q \in Questions : gone \cap tx[q].locked = {}
  BY <1>4
<1>k. KeepsOrder(Expire, gone)
  BY <1>2, OrderRemains
<1> HIDE DEF gone
<1> QED
  BY <1>1, <1>2, <1>3, <1>6, <1>7, <1>8, <1>9, <1>k, CommitKeepsLocks

\* What expire locks is in no purge.
LEMMA ExpiryStaysLocked ==
  ASSUME Typed, Locked, ExpiryStays
  PROVE  Locked'
<1>1. UNCHANGED <<now, lease, slot, before, tx>>
  BY ExpiryStaysEffect
<1>2. ASSUME BatchLocks',
             \A s \in Questions : Taken(s)' =>
               Taken(s) \/ \A p \in Questions : s \notin tx[p].locked
      PROVE  Locked'
  <2>1. TableOrder' /\ \A q \in Questions : (InOrder(tx[q]) /\ InTableOrder(tx[q]))'
    BY <1>1 DEF Locked, TableOrder, Order, Sorted, InOrder, InTableOrder, Slots
  <2>2. Apart'
    BY <1>1, <1>2 DEF Locked, Apart
  <2> QED
    BY <1>2, <2>1, <2>2 DEF Locked
<1>3. ASSUME NEW q \in Questions, ExpiryNext(q) PROVE Locked'
  <2>1. /\ expiry' = [expiry EXCEPT !.current = {q}, !.step = "releasing"]
        /\ q \in expiry.batch \ expiry.ended
    BY <1>3 DEF ExpiryNext
  <2>2. /\ expiry'.batch = expiry.batch /\ expiry'.ended = expiry.ended
        /\ expiry'.current = {q} /\ expiry'.step = "releasing"
    BY <2>1 DEF Typed, Batches
  <2>3. BatchLocks'
    BY <2>1, <2>2 DEF Locked, BatchLocks
  <2> QED
    BY <1>1, <1>2, <2>2, <2>3 DEF Taken
<1>4. CASE ExpiryLocks
  <2>1. expiry' = [expiry EXCEPT !.step = "reporting"] /\ expiry.step = "releasing" /\ Proceeds(Expire)
    BY <1>4 DEF ExpiryLocks
  <2>2. /\ expiry'.batch = expiry.batch /\ expiry'.ended = expiry.ended
        /\ expiry'.current = expiry.current /\ expiry'.step = "reporting"
    BY <2>1 DEF Typed, Batches
  <2>3. BatchLocks'
    BY <2>2 DEF Locked, BatchLocks
  <2>4. ASSUME NEW s \in Questions, s \in expiry.current, NEW p \in Questions PROVE s \notin tx[p].locked
    <3>1. CASE s \notin Slots
      BY <3>1 DEF Locked, InOrder
    <3>2. CASE s \in Slots
      <4>1. SlotRow(s) \in Wants(Expire)
        BY <2>1, <2>4 DEF Wants, ReleaseLock
      <4>2. \A o \in Processes \ {Expire} : SlotRow(s) \notin Holds(o)
        BY <2>1, <4>1 DEF Proceeds, Contested
      <4>3. Expire \in Processes /\ p # Expire
        BY ConstantsAssumption DEF Processes
      <4> QED
        BY <3>2, <4>2, <4>3, FreeRow
    <3> QED
      BY <3>1, <3>2
  <2> QED
    BY <1>1, <1>2, <2>2, <2>3, <2>4 DEF Taken
<1>5. CASE ExpiryReports
  <2>1. /\ expiry' = [expiry EXCEPT !.ended = expiry.ended \cup expiry.current, !.current = {},
                                    !.step = "none"]
        /\ expiry.step = "reporting"
    BY <1>5 DEF ExpiryReports
  <2>2. /\ expiry'.batch = expiry.batch /\ expiry'.ended = expiry.ended \cup expiry.current
        /\ expiry'.current = {} /\ expiry'.step = "none"
    BY <2>1 DEF Typed, Batches
  <2>3. BatchLocks'
    BY <2>2 DEF Locked, BatchLocks
  <2> QED
    BY <1>1, <1>2, <2>1, <2>2, <2>3 DEF Taken
<1>6. CASE ExpiryRollback
  <2>1. expiry' = NoExpiry
    BY <1>6 DEF ExpiryRollback
  <2>2. BatchLocks'
    BY <2>1, FS_EmptySet DEF BatchLocks, NoExpiry
  <2> QED
    BY <1>1, <1>2, <2>1, <2>2 DEF Taken, NoExpiry
<1>7. CASE ExpiryBegins
  <2>1. PICK batch \in SUBSET {q \in Questions : Deadline[q] <= now /\ WorkFree(q)} :
          /\ IsFiniteSet(batch)
          /\ expiry' = [batch |-> batch, ended |-> {q \in batch : lease[q] = NoTime},
                        current |-> {}, step |-> "none"]
    BY <1>7 DEF ExpiryBegins
  <2>2. BatchLocks'
    BY <2>1 DEF BatchLocks
  <2> QED
    BY <1>1, <1>2, <2>1, <2>2 DEF Taken
<1> QED
  BY <1>3, <1>4, <1>5, <1>6, <1>7 DEF ExpiryStays

LEMMA LockedNext == Typed /\ Counted /\ Followed /\ Locked /\ [Next]_vars => Locked'
<1> SUFFICES ASSUME Typed, Counted, Followed, Locked, [Next]_vars PROVE Locked'
  OBVIOUS
<1>0. IsFiniteSet(Slots)
  BY DEF Counted
<1>1. ASSUME NEW q \in Questions, Stays(q) PROVE Locked'
  BY <1>0, <1>1, ClaimBeginsLocked, PurgeLocked, OtherStatementsLocked DEF Stays
<1>2. ASSUME NEW q \in Questions,
             \/ Admit(q) \/ Refuse(q) \/ ClaimCommits(q) \/ RenewCommits(q) \/ ReleaseCommits(q)
      PROVE  Locked'
  BY <1>2, AdmitLocked, RefuseLocked, ClaimCommitsLocked, RenewCommitsLocked, ReleaseCommitsLocked
<1>3. CASE ExpiryStays \/ ExpiryCommits
  BY <1>3, ExpiryStaysLocked, ExpiryCommitsLocked
<1>4. CASE Tick \/ UNCHANGED vars
  <2>1. UNCHANGED <<lease, slot, before, tx, expiry>>
    BY <1>4 DEF Tick, vars
  <2>2. Slots' = Slots
    BY <2>1 DEF Slots
  <2> QED
    BY <2>1, <2>2
    DEF Locked, TableOrder, Order, Sorted, InOrder, InTableOrder, Apart, Taken, BatchLocks
<1> QED
  BY <1>1, <1>2, <1>3, <1>4, StepCases

-------------------------------------------------------------------------------
(* Deadlocks *)

\* A batch that has released one question and comes to another has two.
LEMMA BatchOfTwo ==
  ASSUME BatchLocks, NEW done \in expiry.ended, NEW next \in expiry.current
  PROVE  Cardinality(expiry.batch) > 1
<1>1. /\ done # next /\ {done, next} \subseteq expiry.batch /\ IsFiniteSet(expiry.batch)
  BY DEF BatchLocks
<1>2. IsFiniteSet({done}) /\ Cardinality({done}) = 1
  BY FS_Singleton
<1>3. Cardinality({done} \cup {next}) = 2
  <2>1. PICK one : one = {done}
    OBVIOUS
  <2>2. IsFiniteSet(one) /\ Cardinality(one) = 1 /\ next \notin one
    BY <1>1, <1>2, <2>1
  <2>3. Cardinality(one \cup {next}) = Cardinality(one) + 1
    BY <2>2, FS_AddElement
  <2>4. Cardinality(one \cup {next}) = 2
    BY <2>2, <2>3
  <2> QED
    BY <2>1, <2>4
<1>4. Cardinality({done} \cup {next}) <= Cardinality(expiry.batch)
  BY <1>1, FS_Subset
<1>5. Cardinality(expiry.batch) \in Nat
  BY <1>1, FS_CardinalityType
<1> QED
  BY <1>3, <1>4, <1>5

\* Where every transaction waits for another of them, and none is a batch of two
\* or more, each waits for a slot that the purge of another has passed.
LEMMA WaitsForPurge ==
  ASSUME Locked, NEW S \in Deadlocks, Expire \in S => ~(Cardinality(expiry.batch) > 1),
         NEW p \in S
  PROVE  \E o \in S \cap Questions :
           /\ tx[o].step = "purging" /\ tx[o].scan # {}
           /\ \E row \in tx[o].locked : SlotRow(row) \in Wants(p)
<1>1. \A q \in S : q \in Processes /\ \E o \in S : o \in Processes \ {q} /\ Wants(q) \cap Holds(o) # {}
  BY DEF Deadlocks, Contested
<1>2. ASSUME Expire \in S
      PROVE  Holds(Expire) \subseteq ByCurrent
  <2>1. PICK next : next \in expiry.current
    BY <1>1, <1>2 DEF Wants
  <2>2. \A done \in expiry.ended : lease[done] = NoTime
    BY <1>2, <2>1, BatchOfTwo DEF Locked
  <2>3. ByEnded = {}
    BY <2>2 DEF ByEnded
  <2> QED
    BY <2>3, HoldsParts
<1>3. ASSUME NEW o \in S PROVE ControlRow \notin Holds(o)
  <2>1. CASE o = Expire
    BY <1>2, <1>3, <2>1, SlotRows DEF ByCurrent, ReleaseLock
  <2>2. CASE o # Expire
    <3>1. o \in Questions /\ Wants(o) # {}
      BY <1>1, <2>2 DEF Processes
    <3>2. tx[o].step # "granted"
      BY <3>1, WantsParts
    <3>3. ControlRow \notin ByStep(o) /\ ControlRow \notin ByPurge(o)
      BY <3>2, SlotRows DEF ByStep, ByPurge, ReleaseLock
    <3> QED
      BY <3>1, <3>3, HoldsParts
  <2> QED
    BY <2>1, <2>2
<1>4. \A o \in S : ~(Wants(o) \subseteq {ControlRow})
  BY <1>1, <1>3
<1>5. PICK o \in S : o # p /\ Wants(p) \cap Holds(o) # {}
  BY <1>1
<1>6. PICK held : held \in Wants(p) /\ held \in Holds(o)
  BY <1>5
<1>7. o # Expire
  <2> SUFFICES ASSUME o = Expire PROVE FALSE
    OBVIOUS
  <2>1. expiry.step = "reporting"
    BY <1>2, <1>6 DEF ByCurrent
  <2>2. Wants(Expire) \subseteq {ControlRow}
    BY <2>1 DEF Wants, ReleaseLock
  <2> QED
    BY <1>4, <2>2
<1>8. o \in Questions
  BY <1>1, <1>5, <1>7 DEF Processes
<1>9. tx[o].step \notin {"granted", "extended", "reporting"}
  BY <1>4, <1>8, WantsParts
<1>10. held \in ByPurge(o)
  <2>1. ByStep(o) = {}
    BY <1>9 DEF ByStep
  <2> QED
    BY <1>6, <1>8, <2>1, HoldsParts
<1>11. PICK row \in tx[o].locked : held = SlotRow(row)
  BY <1>10 DEF ByPurge
<1>12. tx[o].step = "purging"
  BY <1>8, <1>9, <1>11 DEF Locked, InOrder, ClaimSteps
<1>13. tx[o].scan # {}
  BY <1>4, <1>8, <1>12, WantsParts
<1> QED
  BY <1>6, <1>8, <1>11, <1>12, <1>13

LEMMA NoOtherCause ==
  ASSUME Counted, Locked PROVE DeadlocksHaveCause
<1> SUFFICES ASSUME NEW S \in Deadlocks, Expire \in S => ~(Cardinality(expiry.batch) > 1),
                    \A q \in S \ {Expire} : tx[q].step = "purging" => tx[q].moved = {}
             PROVE  FALSE
  BY DEF DeadlocksHaveCause
<1> DEFINE Purges(o) == o \in S \cap Questions /\ tx[o].step = "purging" /\ tx[o].scan # {}
           Met == {First(o) : o \in {q \in S \cap Questions : Purges(q)}}
           After == {pair \in Slots \X Slots : <<pair[2], pair[1]>> \in before}
<1>1. ASSUME NEW o, Purges(o)
      PROVE  First(o) \in Slots /\ First(o) \in tx[o].scan /\ First(o) \in Met
  <2>1. InOrder(tx[o]) /\ tx[o].scan \subseteq Slots /\ IsFiniteSet(Slots)
    BY <1>1 DEF Counted, Locked, InOrder
  <2> QED
    BY <1>1, <2>1, FirstEffect
<1>2. \A first \in Met : first \in Slots
  BY <1>1
<1>3. Met # {}
  <2>1. PICK p : p \in S
    BY DEF Deadlocks
  <2>2. PICK o : Purges(o)
    BY <2>1, WaitsForPurge
  <2> QED
    BY <1>1, <2>2
<1>4. ASSUME NEW first \in Met PROVE \E next \in Met : <<first, next>> \in before
  <2>1. PICK p : Purges(p) /\ first = First(p)
    OBVIOUS
  <2>2. PICK o \in S \cap Questions :
          /\ tx[o].step = "purging" /\ tx[o].scan # {}
          /\ \E row \in tx[o].locked : SlotRow(row) \in Wants(p)
    BY <2>1, WaitsForPurge
  <2>3. Wants(p) \subseteq {SlotRow(first)}
    BY <2>1, WantsParts DEF Meets
  <2>4. first \in tx[o].locked
    BY <2>2, <2>3, SlotRows
  <2>5. First(o) \in tx[o].scan /\ First(o) \in Met
    BY <1>1, <2>2
  <2>6. tx[o].moved = {}
    BY <2>2, ConstantsAssumption
  <2>7. <<first, First(o)>> \in before
    BY <2>2, <2>4, <2>5, <2>6 DEF Locked, InTableOrder
  <2> QED
    BY <2>5, <2>7
<1> HIDE DEF Met, Purges
<1>5. IsFiniteSet(Met)
  BY <1>2, FS_Subset DEF Counted
<1>6. \A x, y \in Slots : <<x, y>> \in After <=> <<y, x>> \in before
  OBVIOUS
<1>7. /\ \A x \in Met : <<x, x>> \notin After
      /\ \A x, y, z \in Met : <<x, y>> \in After /\ <<y, z>> \in After => <<x, z>> \in After
  BY <1>2, <1>6 DEF Locked, TableOrder, Order, Sorted
<1> HIDE DEF After
<1>8. PICK last \in Met : \A y \in Met : <<y, last>> \notin After
  BY <1>3, <1>5, <1>7, FiniteOrder
<1> QED
  BY <1>2, <1>4, <1>6, <1>8

\* Claims, renewals, releases and a maintenance loop that ends one question
\* cannot block one another for ever: a purge locks the slots in the order of its
\* scan, a claim takes the control row after its last slot, and a release waits for
\* it with one slot.  It takes a batch of expire, which keeps the control row and
\* goes on to the next slot, or a renewal that moves a slot between two scans.
THEOREM DeadlocksNeedCause == Spec => []DeadlocksHaveCause
<1> DEFINE IInv == Typed /\ Counted /\ Followed /\ Locked
<1>1. Init => IInv
  <2> SUFFICES ASSUME Init PROVE IInv
    OBVIOUS
  <2>1. Typed
    BY NoTxType DEF Init, Typed, NoTime, NoExpiry, Batches
  <2>2. Slots = {} /\ before = {} /\ expiry = NoExpiry /\ \A q \in Questions : tx[q] = NoTx
    BY DEF Init, Slots
  <2>3. Counted /\ Followed
    BY <2>2, NoTxType, FS_EmptySet, ConstantsAssumption
       DEF Counted, Granted, Followed, SlotFollowsLease, Sees, Excluded, ClaimSteps
  <2>4. TableOrder
    BY <2>2 DEF TableOrder, Order, Sorted
  <2>5. \A q \in Questions : InOrder(tx[q]) /\ InTableOrder(tx[q])
    BY <2>2, NoTxType DEF InOrder, InTableOrder, Sorted, ClaimSteps
  <2>6. Apart /\ BatchLocks
    BY <2>2, NoTxType, FS_EmptySet DEF Apart, BatchLocks, NoExpiry
  <2> QED
    BY <2>1, <2>3, <2>4, <2>5, <2>6 DEF Locked
<1>2. IInv /\ [Next]_vars => IInv'
  BY TypedNext, CountedNext, FollowedNext, LockedNext
<1>3. IInv => DeadlocksHaveCause
  BY NoOtherCause
<1> HIDE DEF IInv
<1> QED
  BY <1>1, <1>2, <1>3, PTL DEF Spec
================================================================================
