------------------------- MODULE CatalogIngest_proofs -------------------------
(***************************************************************************)
(* Proofs about CatalogIngest for every number of jobs, readers, releases  *)
(* and products and every size of batch: what checkpoints promise and that *)
(* every point that a search can find has its facts.                       *)
(*                                                                         *)
(* Neither property is inductive.  CheckpointIsTrue needs to know that a   *)
(* job loads only batches of its own input, PointHasFacts that a job which *)
(* loads vectors has seen all of its facts stored, whether it stored them  *)
(* itself or a checkpoint told it so.                                      *)
(*                                                                         *)
(* The last part is about jobs that run one at a time, as they are meant   *)
(* to: what a release has when it becomes ready, and who can spoil it.     *)
(***************************************************************************)
EXTENDS CatalogIngest, FiniteSetTheorems, TLAPS

Counts == {0} \cup {Cardinality(S) : S \in SUBSET PointIds}

Points == [product : Products, release : Releases]

JobRecords ==
  [step : JobSteps, input : SUBSET Inputs, todo : SUBSET Nat, count : Counts,
   seen : SUBSET Products]

ReaderRecords ==
  [step : ReaderSteps, release : Releases \cup {NoRelease}, product : SUBSET Products]

\* The types the proof needs.
Typed ==
  /\ progress \in [Releases -> SUBSET Nat]
  /\ facts \in [Products -> Inputs \cup {NoFacts}]
  /\ points \in [PointIds -> Points \cup {NoPoint}]
  /\ job \in [Jobs -> JobRecords]
  /\ reader \in [Readers -> ReaderRecords]

\* A job that runs has one input.
HasInput == \A j \in Jobs : job[j] # IdleJob => \E i \in Inputs : job[j].input = {i}

\* All batches of the job's input but those still to do have their facts.
FactsKept(j) ==
  /\ job[j].todo \subseteq StartsOf(Input(j))
  /\ \A s \in StartsOf(Input(j)) \ job[j].todo : ProductsAt(Input(j), s) \subseteq Stored

\* All batches of the job's input have their facts.
AllKept(j) ==
  /\ job[j].todo \subseteq StartsOf(Input(j))
  /\ \A s \in StartsOf(Input(j)) : ProductsAt(Input(j), s) \subseteq Stored

Progressed ==
  \A j \in Jobs :
    /\ job[j].step = "facts" => FactsKept(j)
    /\ job[j].step = "vectors" => AllKept(j)

IInv == Typed /\ HasInput /\ Progressed /\ CheckpointIsTrue /\ PointHasFacts

-------------------------------------------------------------------------------
(* Lemmas about the operators *)

\* The input of a job is the only element of its field.
LEMMA InputOfJob ==
  ASSUME NEW j \in Jobs, NEW i \in Inputs, job[j].input = {i}
  PROVE  Input(j) = i
BY DEF Input

\* A transaction of facts stores the products of its batch and removes none.
LEMMA FactsAreAdded ==
  ASSUME NEW i \in Inputs, NEW start \in Nat,
         facts \in [Products -> Inputs \cup {NoFacts}],
         facts' = FactsAfter(i, start)
  PROVE  /\ facts' \in [Products -> Inputs \cup {NoFacts}]
         /\ Stored \subseteq Stored'
         /\ ProductsAt(i, start) \subseteq Stored'
<1>1. facts' \in [Products -> Inputs \cup {NoFacts}]
  BY DEF FactsAfter
<1>2. Stored \subseteq Stored'
  BY NoFactsAssumption DEF Stored, FactsAfter
<1>3. ASSUME NEW p \in ProductsAt(i, start)
      PROVE  p \in Stored'
  <2>1. PICK k \in BatchOf(i, start) : p = CatalogOf[i][k]
    BY DEF ProductsAt
  <2>2. p \in Products
    BY <2>1, ConstantsAssumption DEF BatchOf
  <2>3. facts'[p] = i
    BY <2>1, <2>2 DEF FactsAfter
  <2>. QED
    BY <2>2, <2>3, NoFactsAssumption DEF Stored
<1>. QED
  BY <1>1, <1>2, <1>3

\* A batch of vectors puts products of the batch under the release of its input
\* and leaves the other points alone.
LEMMA PointsAreAdded ==
  ASSUME NEW i \in Inputs, NEW start \in Nat,
         points \in [PointIds -> Points \cup {NoPoint}],
         NEW k \in PointIds
  PROVE  /\ PointsAfter(i, start) \in [PointIds -> Points \cup {NoPoint}]
         /\ \/ PointsAfter(i, start)[k] = points[k]
            \/ PointsAfter(i, start)[k].product \in ProductsAt(i, start)
<1>1. ASSUME NEW n \in BatchOf(i, start)
      PROVE  [product |-> CatalogOf[i][n], release |-> ReleaseOf[i]] \in Points
  <2>1. CatalogOf[i][n] \in Products
    BY ConstantsAssumption DEF BatchOf
  <2>. QED
    BY <2>1, ConstantsAssumption DEF Points
<1>2. PointsAfter(i, start) \in [PointIds -> Points \cup {NoPoint}]
  BY <1>1 DEF PointsAfter
<1>3. \/ PointsAfter(i, start)[k] = points[k]
      \/ PointsAfter(i, start)[k].product \in ProductsAt(i, start)
  BY DEF PointsAfter, ProductsAt
<1>. QED
  BY <1>2, <1>3

\* What can be found under a release is the product of a point.
LEMMA FoundIsPoint ==
  ASSUME NEW r, NEW p \in Found(r)
  PROVE  \E k \in PointIds : points[k] # NoPoint /\ points[k].product = p
BY DEF Found, PointsOf

-------------------------------------------------------------------------------
(* The invariant is inductive *)

\* It holds of the empty tables.
LEMMA InitIInv == Init => IInv
<1>. SUFFICES ASSUME Init PROVE IInv
  OBVIOUS
<1>1. Typed
  BY DEF Init, Typed, JobRecords, IdleJob, IdleReader, JobSteps, ReaderRecords, ReaderSteps, Counts
<1>2. HasInput /\ Progressed
  BY DEF Init, HasInput, Progressed, IdleJob
<1>3. CheckpointIsTrue
  BY DEF Init, CheckpointIsTrue
<1>4. PointHasFacts
  BY DEF Init, PointHasFacts, IdleReader
<1>. QED
  BY <1>1, <1>2, <1>3, <1>4 DEF IInv

\* A step of one job, which takes no facts away, keeps what is known of all jobs
\* if it establishes it for that one.
LEMMA StepOfJob ==
  ASSUME HasInput, Progressed, NEW j \in Jobs,
         \A k \in Jobs \ {j} : job'[k] = job[k],
         Stored \subseteq Stored',
         job'[j] # IdleJob => \E i \in Inputs : job'[j].input = {i},
         job'[j].step = "facts" => FactsKept(j)',
         job'[j].step = "vectors" => AllKept(j)'
  PROVE  HasInput' /\ Progressed'
<1>1. HasInput'
  BY DEF HasInput, IdleJob
<1>2. ASSUME NEW k \in Jobs \ {j}
      PROVE  /\ FactsKept(k) => FactsKept(k)'
             /\ AllKept(k) => AllKept(k)'
  BY DEF FactsKept, AllKept, Input
<1>3. Progressed'
  BY <1>2 DEF Progressed
<1>. QED
  BY <1>1, <1>3

\* What is known of the tables is kept when they are not changed.
LEMMA TablesKept ==
  ASSUME CheckpointIsTrue, PointHasFacts, UNCHANGED <<progress, facts, points, reader>>
  PROVE  CheckpointIsTrue' /\ PointHasFacts'
BY DEF CheckpointIsTrue, PointHasFacts, Stored

\* A job is started.
LEMMA BeginKeeps ==
  ASSUME IInv, NEW j \in Jobs, NEW i \in Inputs, Begin(j, i)
  PROVE  IInv'
<1>1. Typed'
  <2>0. "resuming" \in JobSteps
    BY DEF JobSteps
  <2>1. [job[j] EXCEPT !.step = "resuming", !.input = {i}] \in JobRecords
    BY <2>0 DEF IInv, Typed, JobRecords
  <2>2. job' = [job EXCEPT ![j] = [job[j] EXCEPT !.step = "resuming", !.input = {i}]]
    BY DEF IInv, Typed, Begin
  <2>3. job' \in [Jobs -> JobRecords]
    BY <2>1, <2>2 DEF IInv, Typed
  <2>. QED
    BY <2>3 DEF IInv, Typed, Begin
<1>2. job'[j].step = "resuming" /\ job'[j].input = {i}
  BY DEF IInv, Typed, Begin, JobRecords
<1>3. HasInput' /\ Progressed'
  <2>1. Stored \subseteq Stored' /\ \A k \in Jobs \ {j} : job'[k] = job[k]
    BY DEF IInv, Typed, Begin, Stored
  <2>. QED
    BY <1>2, <2>1, StepOfJob DEF IInv
<1>4. CheckpointIsTrue' /\ PointHasFacts'
  BY TablesKept DEF IInv, Begin
<1>. QED
  BY <1>1, <1>3, <1>4 DEF IInv

\* A job reads the checkpoints: what they cover is stored.
LEMMA ResumeKeeps ==
  ASSUME IInv, NEW j \in Jobs, Resume(j)
  PROVE  IInv'
<1>1. PICK i \in Inputs : job[j].input = {i}
  BY DEF IInv, HasInput, Resume, IdleJob
<1>2. Input(j) = i
  BY <1>1, InputOfJob
<1>3. Pending(i) \subseteq StartsOf(i) /\ StartsOf(i) \subseteq Nat
  BY ConstantsAssumption DEF Pending, Starts, StartsOf
<1>4. Typed'
  <2>0. "facts" \in JobSteps
    BY DEF JobSteps
  <2>1. [job[j] EXCEPT !.step = "facts", !.todo = Pending(i)] \in JobRecords
    BY <1>3, <2>0 DEF IInv, Typed, JobRecords
  <2>2. job' = [job EXCEPT ![j] = [job[j] EXCEPT !.step = "facts", !.todo = Pending(i)]]
    BY <1>2 DEF IInv, Typed, Resume
  <2>3. job' \in [Jobs -> JobRecords]
    BY <2>1, <2>2 DEF IInv, Typed
  <2>. QED
    BY <2>3 DEF IInv, Typed, Resume
<1>5. /\ job'[j].step = "facts" /\ job'[j].input = {i} /\ job'[j].todo = Pending(i)
      /\ \A k \in Jobs \ {j} : job'[k] = job[k]
      /\ Stored' = Stored
  BY <1>1, <1>2 DEF IInv, Typed, Resume, JobRecords, Stored
<1>6. Input(j)' = i
  BY <1>5 DEF Input
<1>7. FactsKept(j)'
  <2>1. ASSUME NEW s \in StartsOf(i) \ Pending(i)
        PROVE  ProductsAt(i, s) \subseteq Stored
    <3>1. s \in progress[ReleaseOf[i]] /\ ReleaseOf[i] \in Releases
      BY ConstantsAssumption DEF Pending, Starts
    <3>. QED
      BY <3>1 DEF IInv, CheckpointIsTrue
  <2>. QED
    BY <1>3, <1>5, <1>6, <2>1 DEF FactsKept
<1>8. HasInput' /\ Progressed'
  BY <1>5, <1>7, StepOfJob DEF IInv
<1>9. CheckpointIsTrue' /\ PointHasFacts'
  BY TablesKept DEF IInv, Resume
<1>. QED
  BY <1>4, <1>8, <1>9 DEF IInv

\* A batch of facts and its checkpoint.
LEMMA LoadFactsKeeps ==
  ASSUME IInv, NEW j \in Jobs, LoadFacts(j)
  PROVE  IInv'
<1>1. PICK i \in Inputs : job[j].input = {i}
  BY DEF IInv, HasInput, LoadFacts, IdleJob
<1>2. Input(j) = i /\ Release(j) = ReleaseOf[i] /\ ReleaseOf[i] \in Releases
  BY <1>1, InputOfJob, ConstantsAssumption DEF Release
<1>3. PICK start \in NextBatches(j) :
        /\ facts' = FactsAfter(i, start)
        /\ progress' = [progress EXCEPT ![ReleaseOf[i]] = @ \cup {start}]
        /\ job' = [job EXCEPT ![j].todo = @ \ {start}]
  BY <1>2 DEF LoadFacts
<1>4. FactsKept(j) /\ start \in StartsOf(i) /\ start \in Nat
  BY <1>2, <1>3, ConstantsAssumption
     DEF IInv, Progressed, LoadFacts, FactsKept, NextBatches, StartsOf
<1>5. /\ facts' \in [Products -> Inputs \cup {NoFacts}]
      /\ Stored \subseteq Stored'
      /\ ProductsAt(i, start) \subseteq Stored'
  BY <1>3, <1>4, FactsAreAdded DEF IInv, Typed
<1>6. Typed'
  <2>1. job' \in [Jobs -> JobRecords]
    BY <1>3 DEF IInv, Typed, JobRecords
  <2>2. progress' \in [Releases -> SUBSET Nat]
    BY <1>2, <1>3, <1>4 DEF IInv, Typed
  <2>. QED
    BY <2>1, <2>2, <1>5 DEF IInv, Typed, LoadFacts
<1>7. /\ job'[j].step = "facts" /\ job'[j].input = {i}
      /\ job'[j].todo = job[j].todo \ {start}
      /\ \A k \in Jobs \ {j} : job'[k] = job[k]
  BY <1>1, <1>3 DEF IInv, Typed, JobRecords, LoadFacts
<1>8. Input(j)' = i
  BY <1>7 DEF Input
<1>9. FactsKept(j)'
  BY <1>2, <1>4, <1>5, <1>7, <1>8 DEF FactsKept
<1>10. HasInput' /\ Progressed'
  BY <1>5, <1>7, <1>9, StepOfJob DEF IInv
<1>11. CheckpointIsTrue'
  <2>. SUFFICES ASSUME NEW r \in Releases, NEW s \in progress'[r],
                       NEW n \in Inputs, ReleaseOf[n] = r, s \in StartsOf(n)
                PROVE  ProductsAt(n, s) \subseteq Stored'
    BY DEF CheckpointIsTrue
  <2>1. CASE s \in progress[r]
    BY <2>1, <1>5 DEF IInv, CheckpointIsTrue
  <2>2. CASE s \notin progress[r]
    <3>1. r = ReleaseOf[i] /\ s = start
      BY <2>2, <1>2, <1>3 DEF IInv, Typed
    <3>2. ProductsAt(n, s) = ProductsAt(i, s)
      BY <3>1, <1>4, BatchesAssumption
    <3>. QED
      BY <3>1, <3>2, <1>5
  <2>. QED
    BY <2>1, <2>2
<1>12. PointHasFacts'
  BY <1>5 DEF IInv, PointHasFacts, LoadFacts
<1>. QED
  BY <1>6, <1>10, <1>11, <1>12 DEF IInv

\* All facts are stored and the vectors are next.
LEMMA FactsDoneKeeps ==
  ASSUME IInv, NEW j \in Jobs, FactsDone(j)
  PROVE  IInv'
<1>1. PICK i \in Inputs : job[j].input = {i}
  BY DEF IInv, HasInput, FactsDone, IdleJob
<1>2. Input(j) = i
  BY <1>1, InputOfJob
<1>3. StartsOf(i) \subseteq Nat
  BY ConstantsAssumption DEF StartsOf
<1>4. Typed'
  <2>0. "vectors" \in JobSteps
    BY DEF JobSteps
  <2>1. [job[j] EXCEPT !.step = "vectors", !.todo = StartsOf(i)] \in JobRecords
    BY <1>3, <2>0 DEF IInv, Typed, JobRecords
  <2>2. job' = [job EXCEPT ![j] = [job[j] EXCEPT !.step = "vectors", !.todo = StartsOf(i)]]
    BY <1>2 DEF IInv, Typed, FactsDone, Starts
  <2>3. job' \in [Jobs -> JobRecords]
    BY <2>1, <2>2 DEF IInv, Typed
  <2>. QED
    BY <2>3 DEF IInv, Typed, FactsDone
<1>5. /\ job'[j].step = "vectors" /\ job'[j].input = {i} /\ job'[j].todo = StartsOf(i)
      /\ \A k \in Jobs \ {j} : job'[k] = job[k]
      /\ Stored' = Stored
  BY <1>1, <1>2 DEF IInv, Typed, FactsDone, JobRecords, Stored, Starts
<1>6. Input(j)' = i
  BY <1>5 DEF Input
<1>7. AllKept(j)'
  <2>1. FactsKept(j) /\ job[j].todo = {}
    BY DEF IInv, Progressed, FactsDone
  <2>. QED
    BY <1>2, <1>5, <1>6, <2>1 DEF FactsKept, AllKept
<1>8. HasInput' /\ Progressed'
  BY <1>5, <1>7, StepOfJob DEF IInv
<1>9. CheckpointIsTrue' /\ PointHasFacts'
  BY TablesKept DEF IInv, FactsDone
<1>. QED
  BY <1>4, <1>8, <1>9 DEF IInv

\* A batch of vectors, stored by a call that succeeds or fails: the job has seen
\* the facts of its products.
LEMMA PointsAfterKeeps ==
  ASSUME IInv, NEW j \in Jobs, job[j].step = "vectors", NEW start \in NextBatches(j),
         points' = PointsAfter(Input(j), start), UNCHANGED <<facts, reader>>
  PROVE  points' \in [PointIds -> Points \cup {NoPoint}] /\ PointHasFacts'
<1>1. PICK i \in Inputs : job[j].input = {i}
  BY DEF IInv, HasInput, IdleJob
<1>2. Input(j) = i
  BY <1>1, InputOfJob
<1>3. AllKept(j) /\ start \in StartsOf(i) /\ start \in Nat
  BY <1>2, ConstantsAssumption DEF IInv, Progressed, AllKept, NextBatches, StartsOf
<1>4. ProductsAt(i, start) \subseteq Stored
  BY <1>2, <1>3 DEF AllKept
<1>5. points' \in [PointIds -> Points \cup {NoPoint}] \/ PointIds = {}
  BY <1>2, <1>3, PointsAreAdded DEF IInv, Typed
<1>6. ASSUME NEW k \in PointIds, points'[k] # NoPoint
      PROVE  points'[k].product \in Stored
  <2>1. points'[k] = points[k] \/ points'[k].product \in ProductsAt(i, start)
    BY <1>2, <1>3, PointsAreAdded DEF IInv, Typed
  <2>. QED
    BY <1>4, <1>6, <2>1 DEF IInv, PointHasFacts
<1>7. PointHasFacts'
  BY <1>6 DEF IInv, PointHasFacts, Stored
<1>8. points' \in [PointIds -> Points \cup {NoPoint}]
  BY <1>5 DEF PointsAfter
<1>. QED
  BY <1>7, <1>8

\* A batch of vectors is stored.
LEMMA UpsertVectorsKeeps ==
  ASSUME IInv, NEW j \in Jobs, UpsertVectors(j)
  PROVE  IInv'
<1>1. PICK start \in NextBatches(j) :
        /\ points' = PointsAfter(Input(j), start)
        /\ job' = [job EXCEPT ![j].todo = @ \ {start}]
  BY DEF UpsertVectors
<1>2. points' \in [PointIds -> Points \cup {NoPoint}] /\ PointHasFacts'
  BY <1>1, PointsAfterKeeps DEF UpsertVectors
<1>3. Typed'
  <2>1. job' \in [Jobs -> JobRecords]
    BY <1>1 DEF IInv, Typed, JobRecords
  <2>. QED
    BY <2>1, <1>2 DEF IInv, Typed, UpsertVectors
<1>4. /\ job'[j].step = "vectors" /\ job'[j].input = job[j].input
      /\ job'[j].todo \subseteq job[j].todo
      /\ \A k \in Jobs \ {j} : job'[k] = job[k]
      /\ Stored' = Stored
  BY <1>1 DEF IInv, Typed, JobRecords, UpsertVectors, Stored
<1>5. AllKept(j)' /\ \E i \in Inputs : job'[j].input = {i}
  <2>1. Input(j)' = Input(j)
    BY <1>4 DEF Input
  <2>2. AllKept(j) /\ \E i \in Inputs : job[j].input = {i}
    BY DEF IInv, Progressed, HasInput, UpsertVectors, IdleJob
  <2>. QED
    BY <1>4, <2>1, <2>2 DEF AllKept
<1>6. HasInput' /\ Progressed'
  BY <1>4, <1>5, StepOfJob DEF IInv
<1>7. CheckpointIsTrue'
  BY <1>4 DEF IInv, CheckpointIsTrue, UpsertVectors
<1>. QED
  BY <1>2, <1>3, <1>6, <1>7 DEF IInv

\* Steps that only move a job to where it loads nothing.
LEMMA QuietStep ==
  ASSUME IInv, NEW j \in Jobs, NEW x \in JobRecords,
         job' = [job EXCEPT ![j] = x],
         x = IdleJob \/ (job[j] # IdleJob /\ x.input = job[j].input),
         x.step \notin {"facts", "vectors"},
         UNCHANGED <<progress, facts, reader>>,
         points' \in [PointIds -> Points \cup {NoPoint}], PointHasFacts'
  PROVE  IInv'
<1>1. Typed'
  <2>1. job' \in [Jobs -> JobRecords]
    BY DEF IInv, Typed
  <2>. QED
    BY <2>1 DEF IInv, Typed
<1>2. job'[j] = x /\ \A k \in Jobs \ {j} : job'[k] = job[k]
  BY DEF IInv, Typed
<1>3. x # IdleJob => \E i \in Inputs : x.input = {i}
  BY DEF IInv, HasInput
<1>4. Stored' = Stored
  BY DEF Stored
<1>5. HasInput' /\ Progressed'
  BY <1>2, <1>3, <1>4, StepOfJob DEF IInv
<1>6. CheckpointIsTrue'
  BY <1>4 DEF IInv, CheckpointIsTrue
<1>. QED
  BY <1>1, <1>5, <1>6 DEF IInv

\* The call for a batch of vectors fails.
LEMMA UpsertFailsKeeps ==
  ASSUME IInv, NEW j \in Jobs, UpsertFails(j)
  PROVE  IInv'
<1>1. points' \in [PointIds -> Points \cup {NoPoint}] /\ PointHasFacts'
  <2>1. PICK start \in NextBatches(j) : points' \in {points, PointsAfter(Input(j), start)}
    BY DEF UpsertFails
  <2>2. CASE points' = points
    BY <2>2, TablesKept DEF IInv, Typed, UpsertFails
  <2>3. CASE points' = PointsAfter(Input(j), start)
    BY <2>3, PointsAfterKeeps DEF UpsertFails
  <2>. QED
    BY <2>1, <2>2, <2>3
<1>2. "failing" \in JobSteps
  BY DEF JobSteps
<1>. DEFINE x == [job[j] EXCEPT !.step = "failing", !.todo = {}]
<1>3. x \in JobRecords
  BY <1>2 DEF IInv, Typed, JobRecords
<1>4. job' = [job EXCEPT ![j] = x]
  BY DEF IInv, Typed, UpsertFails
<1>5. job[j] # IdleJob /\ x.input = job[j].input /\ x.step = "failing"
  BY DEF IInv, Typed, JobRecords, UpsertFails, IdleJob
<1>. HIDE DEF x
<1>. QED
  BY <1>1, <1>3, <1>4, <1>5, QuietStep DEF UpsertFails

\* All vectors are stored and validation is next.
LEMMA VectorsDoneKeeps ==
  ASSUME IInv, NEW j \in Jobs, VectorsDone(j)
  PROVE  IInv'
<1>. DEFINE x == [job[j] EXCEPT !.step = "counting"]
<1>1. x \in JobRecords
  BY DEF IInv, Typed, JobRecords, JobSteps
<1>2. job' = [job EXCEPT ![j] = x]
  BY DEF IInv, Typed, VectorsDone
<1>3. job[j] # IdleJob /\ x.input = job[j].input /\ x.step \notin {"facts", "vectors"}
  BY DEF IInv, Typed, JobRecords, VectorsDone, IdleJob
<1>4. points' \in [PointIds -> Points \cup {NoPoint}] /\ PointHasFacts'
  BY TablesKept DEF IInv, Typed, VectorsDone
<1>. HIDE DEF x
<1>. QED
  BY <1>1, <1>2, <1>3, <1>4, QuietStep DEF VectorsDone

\* The points of the release are counted.
LEMMA CountKeeps ==
  ASSUME IInv, NEW j \in Jobs, Count(j)
  PROVE  IInv'
<1>. DEFINE x == [job[j] EXCEPT !.step = "scrolling", !.count = Cardinality(PointsOf(Release(j)))]
<1>0. Cardinality(PointsOf(Release(j))) \in Counts
  BY DEF Counts, PointsOf
<1>1. x \in JobRecords
  BY <1>0 DEF IInv, Typed, JobRecords, JobSteps
<1>2. job' = [job EXCEPT ![j] = x]
  BY DEF IInv, Typed, Count
<1>3. job[j] # IdleJob /\ x.input = job[j].input /\ x.step \notin {"facts", "vectors"}
  BY DEF IInv, Typed, JobRecords, Count, IdleJob
<1>4. points' \in [PointIds -> Points \cup {NoPoint}] /\ PointHasFacts'
  BY TablesKept DEF IInv, Typed, Count
<1>. HIDE DEF x
<1>. QED
  BY <1>1, <1>2, <1>3, <1>4, QuietStep DEF Count

\* The points of the release are read.
LEMMA ScrollKeeps ==
  ASSUME IInv, NEW j \in Jobs, Scroll(j)
  PROVE  IInv'
<1>. DEFINE x == [job[j] EXCEPT !.step = "checking", !.seen = Found(Release(j))]
<1>0. Found(Release(j)) \in SUBSET Products
  <2>1. ASSUME NEW p \in Found(Release(j))
        PROVE  p \in Products
    BY FoundIsPoint DEF IInv, Typed, Points
  <2>. QED
    BY <2>1
<1>1. x \in JobRecords
  BY <1>0 DEF IInv, Typed, JobRecords, JobSteps
<1>2. job' = [job EXCEPT ![j] = x]
  BY DEF IInv, Typed, Scroll
<1>3. job[j] # IdleJob /\ x.input = job[j].input /\ x.step \notin {"facts", "vectors"}
  BY DEF IInv, Typed, JobRecords, Scroll, IdleJob
<1>4. points' \in [PointIds -> Points \cup {NoPoint}] /\ PointHasFacts'
  BY TablesKept DEF IInv, Typed, Scroll
<1>. HIDE DEF x
<1>. QED
  BY <1>1, <1>2, <1>3, <1>4, QuietStep DEF Scroll

\* A read of the validation fails.
LEMMA ReadFailsKeeps ==
  ASSUME IInv, NEW j \in Jobs, ReadFails(j)
  PROVE  IInv'
<1>. DEFINE x == [job[j] EXCEPT !.step = "failing"]
<1>1. x \in JobRecords
  BY DEF IInv, Typed, JobRecords, JobSteps
<1>2. job' = [job EXCEPT ![j] = x]
  BY DEF IInv, Typed, ReadFails
<1>3. job[j] # IdleJob /\ x.input = job[j].input /\ x.step \notin {"facts", "vectors"}
  BY DEF IInv, Typed, JobRecords, ReadFails, IdleJob
<1>4. points' \in [PointIds -> Points \cup {NoPoint}] /\ PointHasFacts'
  BY TablesKept DEF IInv, Typed, ReadFails
<1>. HIDE DEF x
<1>. QED
  BY <1>1, <1>2, <1>3, <1>4, QuietStep DEF ReadFails

\* The validation ends.
LEMMA CheckKeeps ==
  ASSUME IInv, NEW j \in Jobs, Check(j)
  PROVE  IInv'
<1>. DEFINE x == [job[j] EXCEPT !.step = IF Valid(j) THEN "publishing" ELSE "failing"]
<1>1. x \in JobRecords
  BY DEF IInv, Typed, JobRecords, JobSteps
<1>2. job' = [job EXCEPT ![j] = x]
  BY DEF IInv, Typed, Check
<1>3. job[j] # IdleJob /\ x.input = job[j].input /\ x.step \notin {"facts", "vectors"}
  BY DEF IInv, Typed, JobRecords, Check, IdleJob
<1>4. points' \in [PointIds -> Points \cup {NoPoint}] /\ PointHasFacts'
  BY TablesKept DEF IInv, Typed, Check
<1>. HIDE DEF x
<1>. QED
  BY <1>1, <1>2, <1>3, <1>4, QuietStep DEF Check

\* The release becomes ready.
LEMMA PublishKeeps ==
  ASSUME IInv, NEW j \in Jobs, Publish(j)
  PROVE  IInv'
<1>1. IdleJob \in JobRecords /\ IdleJob.step \notin {"facts", "vectors"}
  BY DEF IdleJob, JobRecords, JobSteps, Counts
<1>2. points' \in [PointIds -> Points \cup {NoPoint}] /\ PointHasFacts'
  BY TablesKept DEF IInv, Typed, Publish
<1>. QED
  BY <1>1, <1>2, QuietStep DEF Publish

\* The release is marked failed.
LEMMA MarkFailedKeeps ==
  ASSUME IInv, NEW j \in Jobs, MarkFailed(j)
  PROVE  IInv'
<1>1. IdleJob \in JobRecords /\ IdleJob.step \notin {"facts", "vectors"}
  BY DEF IdleJob, JobRecords, JobSteps, Counts
<1>2. points' \in [PointIds -> Points \cup {NoPoint}] /\ PointHasFacts'
  BY TablesKept DEF IInv, Typed, MarkFailed
<1>. QED
  BY <1>1, <1>2, QuietStep DEF MarkFailed

\* The job's process dies.
LEMMA CrashKeeps ==
  ASSUME IInv, NEW j \in Jobs, Crash(j)
  PROVE  IInv'
<1>1. IdleJob \in JobRecords /\ IdleJob.step \notin {"facts", "vectors"}
  BY DEF IdleJob, JobRecords, JobSteps, Counts
<1>2. points' \in [PointIds -> Points \cup {NoPoint}] /\ PointHasFacts'
  BY TablesKept DEF IInv, Typed, Crash
<1>. QED
  BY <1>1, <1>2, QuietStep DEF Crash

\* What a worker's search finds is the product of a point.
LEMMA ReaderKeeps ==
  ASSUME IInv, NEW w \in Readers, ReadReady(w) \/ ReadRelease(w) \/ Search(w) \/ Fetch(w)
  PROVE  IInv'
<1>1. UNCHANGED <<progress, facts, points, job>>
  BY DEF ReadReady, ReadRelease, Search, Fetch
<1>2. PICK x \in ReaderRecords :
        /\ reader' = [reader EXCEPT ![w] = x]
        /\ x.product \subseteq Stored
  <2>0. IdleReader \in ReaderRecords /\ IdleReader.product = {}
    BY DEF IdleReader, ReaderRecords, ReaderSteps
  <2>1. CASE ReadReady(w)
    <3>. DEFINE y == [reader[w] EXCEPT !.step = "choosing"]
    <3>1. y \in ReaderRecords /\ y.product = reader[w].product
      BY DEF IInv, Typed, ReaderRecords, ReaderSteps
    <3>2. reader' = [reader EXCEPT ![w] = y]
      BY <2>1 DEF IInv, Typed, ReadReady
    <3>. QED
      BY <3>1, <3>2 DEF IInv, PointHasFacts
  <2>2. CASE ReadRelease(w)
    <3>1. PICK r \in Releases :
            reader' = [reader EXCEPT ![w].step = "searching", ![w].release = r]
      BY <2>2 DEF ReadRelease, Present
    <3>. DEFINE y == [reader[w] EXCEPT !.step = "searching", !.release = r]
    <3>2. y \in ReaderRecords /\ y.product = reader[w].product
      BY DEF IInv, Typed, ReaderRecords, ReaderSteps
    <3>3. reader' = [reader EXCEPT ![w] = y]
      BY <3>1 DEF IInv, Typed
    <3>. QED
      BY <3>2, <3>3 DEF IInv, PointHasFacts
  <2>3. CASE \E p \in Found(reader[w].release) :
               reader' = [reader EXCEPT ![w].step = "fetching", ![w].product = {p}]
    <3>1. PICK p \in Found(reader[w].release) :
            reader' = [reader EXCEPT ![w].step = "fetching", ![w].product = {p}]
      BY <2>3
    <3>2. p \in Stored
      BY <3>1, FoundIsPoint DEF IInv, PointHasFacts
    <3>. DEFINE y == [reader[w] EXCEPT !.step = "fetching", !.product = {p}]
    <3>3. y \in ReaderRecords /\ y.product = {p}
      BY <3>2 DEF IInv, Typed, ReaderRecords, ReaderSteps, Stored
    <3>4. reader' = [reader EXCEPT ![w] = y]
      BY <3>1 DEF IInv, Typed
    <3>. QED
      BY <3>2, <3>3, <3>4
  <2>4. CASE reader' = [reader EXCEPT ![w] = IdleReader]
    BY <2>0, <2>4
  <2>. QED
    BY <2>1, <2>2, <2>3, <2>4 DEF Search, Fetch
<1>3. Stored' = Stored
  BY <1>1 DEF Stored
<1>4. Typed'
  BY <1>1, <1>2 DEF IInv, Typed
<1>5. HasInput' /\ Progressed'
  <2>1. \A j \in Jobs : (FactsKept(j) => FactsKept(j)') /\ (AllKept(j) => AllKept(j)')
    BY <1>1, <1>3 DEF FactsKept, AllKept, Input
  <2>. QED
    BY <1>1, <2>1 DEF IInv, HasInput, Progressed
<1>6. CheckpointIsTrue'
  BY <1>1, <1>3 DEF IInv, CheckpointIsTrue
<1>7. PointHasFacts'
  BY <1>1, <1>2, <1>3 DEF IInv, Typed, ReaderRecords, PointHasFacts
<1>. QED
  BY <1>4, <1>5, <1>6, <1>7 DEF IInv

\* Every step keeps it.
LEMMA NextIInv == IInv /\ [Next]_vars => IInv'
<1>. SUFFICES ASSUME IInv, [Next]_vars PROVE IInv'
  OBVIOUS
<1>1. ASSUME NEW j \in Jobs, NEW i \in Inputs, Begin(j, i)
      PROVE  IInv'
  BY <1>1, BeginKeeps
<1>2. ASSUME NEW j \in Jobs,
             Resume(j) \/ LoadFacts(j) \/ FactsDone(j) \/ UpsertVectors(j)
               \/ UpsertFails(j) \/ VectorsDone(j)
      PROVE  IInv'
  BY <1>2, ResumeKeeps, LoadFactsKeeps, FactsDoneKeeps, UpsertVectorsKeeps,
     UpsertFailsKeeps, VectorsDoneKeeps
<1>3. ASSUME NEW j \in Jobs,
             Count(j) \/ Scroll(j) \/ ReadFails(j) \/ Check(j)
               \/ Publish(j) \/ MarkFailed(j) \/ Crash(j)
      PROVE  IInv'
  BY <1>3, CountKeeps, ScrollKeeps, ReadFailsKeeps, CheckKeeps, PublishKeeps,
     MarkFailedKeeps, CrashKeeps
<1>4. ASSUME NEW w \in Readers, ReadReady(w) \/ ReadRelease(w) \/ Search(w) \/ Fetch(w)
      PROVE  IInv'
  BY <1>4, ReaderKeeps
<1>5. CASE UNCHANGED vars
  <2>1. \A j \in Jobs : (FactsKept(j) => FactsKept(j)') /\ (AllKept(j) => AllKept(j)')
    BY <1>5 DEF vars, FactsKept, AllKept, Input, Stored
  <2>. QED
    BY <1>5, <2>1, TablesKept DEF vars, IInv, Typed, HasInput, Progressed
<1>. QED
  BY <1>1, <1>2, <1>3, <1>4, <1>5 DEF Next

\* It holds in every reachable state.
LEMMA AlwaysIInv == Spec => []IInv
<1>. QED
  BY InitIInv, NextIInv, PTL DEF Spec

-------------------------------------------------------------------------------
(* Theorems *)

\* A checkpoint promises every job of its release the facts of its batch, also
\* when jobs run side by side and die anywhere.
THEOREM CheckpointsArePromises == Spec => []CheckpointIsTrue
<1>1. IInv => CheckpointIsTrue
  BY DEF IInv
<1>. QED
  BY <1>1, AlwaysIInv, PTL

\* A product that a search can find, under whichever release and however far its
\* job came, has its facts.
THEOREM VectorsFollowFacts == Spec => []PointHasFacts
<1>1. IInv => PointHasFacts
  BY DEF IInv
<1>. QED
  BY <1>1, AlwaysIInv, PTL

-------------------------------------------------------------------------------
(* One job at a time *)

\* Jobs may die and others take their place, but no two run side by side.
OneRuns == \A j, k \in Jobs : job[j] # IdleJob /\ job[k] # IdleJob => j = k

\* Every release has a row, or the blank one.
Rows ==
  /\ DOMAIN releases = Releases /\ releases = [r \in Releases |-> releases[r]]
  /\ \A r \in Releases : \E status, count, readyAt :
       releases[r] = [status |-> status, count |-> count, readyAt |-> readyAt]

\* What a job has validated up to its step is still so, and its release stays
\* withdrawn while it runs.
Validated(j) ==
  /\ job[j] # IdleJob =>
       /\ releases[Release(j)].status = "loading"
       /\ releases[Release(j)].count = Len(CatalogOf[Input(j)])
  /\ job[j].step \in {"scrolling", "checking", "publishing"} =>
       job[j].count = Cardinality(PointsOf(Release(j)))
  /\ job[j].step \in {"checking", "publishing"} => job[j].seen = Found(Release(j))
  /\ job[j].step = "publishing" => Valid(j)

AloneInv == IInv /\ Rows /\ \A j \in Jobs : Validated(j)

\* What a step writes to the row of a release.
LEMMA RowIsWritten ==
  ASSUME Rows, NEW r \in Releases, NEW row,
         \/ \E status : row = [releases[r] EXCEPT !.status = status]
         \/ \E status, readyAt : row = [releases[r] EXCEPT !.status = status, !.readyAt = readyAt]
         \/ \E status, count, readyAt : row = [status |-> status, count |-> count, readyAt |-> readyAt],
         releases' = [releases EXCEPT ![r] = row]
  PROVE  Rows' /\ releases'[r] = row /\ \A s \in Releases \ {r} : releases'[s] = releases[s]
<1>1. \E status, count, readyAt : row = [status |-> status, count |-> count, readyAt |-> readyAt]
  <2>1. PICK status, count, readyAt :
          releases[r] = [status |-> status, count |-> count, readyAt |-> readyAt]
    BY DEF Rows
  <2>. QED
    BY <2>1
<1>2. /\ DOMAIN releases' = Releases /\ releases' = [s \in Releases |-> releases'[s]]
      /\ releases'[r] = row /\ \A s \in Releases \ {r} : releases'[s] = releases[s]
  BY DEF Rows
<1>3. ASSUME NEW s \in Releases
      PROVE  \E status, count, readyAt :
               releases'[s] = [status |-> status, count |-> count, readyAt |-> readyAt]
  <2>1. CASE s = r
    BY <1>1, <1>2, <2>1
  <2>2. CASE s # r
    <3>1. releases'[s] = releases[s]
      BY <1>2, <2>2
    <3>2. PICK status, count, readyAt :
            releases[s] = [status |-> status, count |-> count, readyAt |-> readyAt]
      BY DEF Rows
    <3>. QED
      BY <3>1, <3>2
  <2>. QED
    BY <2>1, <2>2
<1>4. Rows'
  BY <1>2, <1>3, Zenon DEF Rows
<1>. QED
  BY <1>2, <1>4

\* A job that runs alone need only look after itself.
LEMMA StepAlone ==
  ASSUME OneRuns, OneRuns', NEW j \in Jobs, job[j] # IdleJob \/ job'[j] # IdleJob,
         \A k \in Jobs \ {j} : job'[k] = job[k], Validated(j)'
  PROVE  \A k \in Jobs : Validated(k)'
<1>1. ASSUME NEW k \in Jobs \ {j} PROVE job'[k] = IdleJob
  BY DEF OneRuns
<1>2. \A k \in Jobs \ {j} : Validated(k)'
  BY <1>1 DEF Validated, IdleJob
<1>. QED
  BY <1>2

\* A job goes on and keeps its row.
LEMMA Loads ==
  ASSUME NEW j \in Jobs, Validated(j), job[j] # IdleJob, job'[j].input = job[j].input,
         job'[j].step \notin {"scrolling", "checking", "publishing"}, releases' = releases
  PROVE  Validated(j)'
  BY DEF Validated, Input, Release

\* A job is started: its release is withdrawn.
LEMMA BeginAlone ==
  ASSUME AloneInv, NEW j \in Jobs, NEW i \in Inputs, Begin(j, i)
  PROVE  /\ Rows' /\ Validated(j)' /\ job'[j] # IdleJob
         /\ \A k \in Jobs \ {j} : job'[k] = job[k]
         /\ releases'[ReleaseOf[i]].status = "loading"
         /\ \A r \in Releases \ {ReleaseOf[i]} : releases'[r] = releases[r]
<1>1. ReleaseOf[i] \in Releases
  BY ConstantsAssumption
<1>2. /\ Rows' /\ releases'[ReleaseOf[i]] = Restarted(i)
      /\ \A r \in Releases \ {ReleaseOf[i]} : releases'[r] = releases[r]
  BY <1>1, RowIsWritten DEF AloneInv, Begin, Restarted
<1>3. /\ job'[j].step = "resuming" /\ job'[j].input = {i}
      /\ \A k \in Jobs \ {j} : job'[k] = job[k]
  BY DEF AloneInv, IInv, Typed, JobRecords, Begin
<1>4. Input(j)' = i /\ Release(j)' = ReleaseOf[i]
  BY <1>3 DEF Input, Release
<1>5. job'[j] # IdleJob
  BY <1>3 DEF IdleJob
<1>6. Validated(j)'
  BY <1>2, <1>3, <1>4 DEF Validated, Restarted
<1>. QED
  BY <1>2, <1>3, <1>5, <1>6 DEF Restarted

\* A job loads, up to the validation, or fails.
LEMMA LoadsAlone ==
  ASSUME AloneInv, NEW j \in Jobs,
         \/ Resume(j) \/ LoadFacts(j) \/ FactsDone(j)
         \/ UpsertVectors(j) \/ UpsertFails(j) \/ VectorsDone(j) \/ ReadFails(j)
  PROVE  /\ releases' = releases /\ Validated(j)' /\ job[j] # IdleJob
         /\ \A k \in Jobs \ {j} : job'[k] = job[k]
<1>1. /\ releases' = releases /\ job[j] # IdleJob
      /\ job[j].step \notin {"idle", "checking", "publishing"}
  BY DEF Resume, LoadFacts, FactsDone, UpsertVectors, UpsertFails, VectorsDone, ReadFails, IdleJob
<1>2. ASSUME NEW step \in {"facts", "vectors", "failing", "counting"}, NEW todo,
             \/ job' = [job EXCEPT ![j].step = step, ![j].todo = todo]
             \/ job' = [job EXCEPT ![j].step = step]
             \/ job' = [job EXCEPT ![j].todo = todo] /\ job[j].step = step
      PROVE  /\ job'[j].input = job[j].input
             /\ job'[j].step \notin {"scrolling", "checking", "publishing"}
             /\ \A k \in Jobs \ {j} : job'[k] = job[k]
  BY <1>2 DEF AloneInv, IInv, Typed, JobRecords
<1>3. \E step \in {"facts", "vectors", "failing", "counting"} : \E todo :
        \/ job' = [job EXCEPT ![j].step = step, ![j].todo = todo]
        \/ job' = [job EXCEPT ![j].step = step]
        \/ job' = [job EXCEPT ![j].todo = todo] /\ job[j].step = step
  <2>1. CASE Resume(j) \/ FactsDone(j) \/ UpsertFails(j)
    BY <2>1 DEF Resume, FactsDone, UpsertFails
  <2>2. CASE VectorsDone(j) \/ ReadFails(j)
    BY <2>2 DEF VectorsDone, ReadFails
  <2>3. CASE LoadFacts(j)
    BY <2>3 DEF LoadFacts
  <2>4. CASE UpsertVectors(j)
    BY <2>4 DEF UpsertVectors
  <2>. QED
    BY <2>1, <2>2, <2>3, <2>4
<1>4. /\ job'[j].input = job[j].input
      /\ job'[j].step \notin {"scrolling", "checking", "publishing"}
      /\ \A k \in Jobs \ {j} : job'[k] = job[k]
  BY <1>2, <1>3
<1>. QED
  BY <1>1, <1>4, Loads DEF AloneInv

\* A job validates.
LEMMA ValidatesAlone ==
  ASSUME AloneInv, NEW j \in Jobs, Count(j) \/ Scroll(j) \/ Check(j)
  PROVE  /\ releases' = releases /\ Validated(j)' /\ job[j] # IdleJob
         /\ \A k \in Jobs \ {j} : job'[k] = job[k]
<1>1. /\ UNCHANGED <<releases, facts, points>> /\ job[j] # IdleJob
      /\ \A k \in Jobs \ {j} : job'[k] = job[k]
      /\ Validated(j) /\ job[j] \in JobRecords
  BY DEF Count, Scroll, Check, IdleJob, AloneInv, IInv, Typed
<1>2. PointsOf(Release(j))' = PointsOf(Release(j)') /\ Stored' = Stored
  BY <1>1 DEF PointsOf, Stored
<1>3. ASSUME job'[j].input = job[j].input
      PROVE  /\ Input(j)' = Input(j) /\ Release(j)' = Release(j)
             /\ PointsOf(Release(j))' = PointsOf(Release(j))
             /\ Found(Release(j))' = Found(Release(j))
  BY <1>1, <1>3 DEF Input, Release, PointsOf, Found
<1>4. CASE Count(j)
  <2>1. /\ job'[j].input = job[j].input /\ job'[j].step = "scrolling"
        /\ job'[j].count = Cardinality(PointsOf(Release(j)))
    BY <1>1, <1>4 DEF Count, AloneInv, IInv, Typed, JobRecords
  <2>. QED
    BY <1>1, <1>3, <2>1 DEF Validated
<1>5. CASE Scroll(j)
  <2>1. /\ job'[j].input = job[j].input /\ job'[j].step = "checking"
        /\ job'[j].count = job[j].count /\ job'[j].seen = Found(Release(j))
        /\ job[j].step = "scrolling"
    BY <1>1, <1>5 DEF Scroll, AloneInv, IInv, Typed, JobRecords
  <2>. QED
    BY <1>1, <1>3, <2>1 DEF Validated
<1>6. CASE Check(j)
  <2>1. /\ job'[j].input = job[j].input
        /\ job'[j].step = IF Valid(j) THEN "publishing" ELSE "failing"
        /\ job'[j].count = job[j].count /\ job'[j].seen = job[j].seen
        /\ job[j].step = "checking"
    BY <1>1, <1>6 DEF Check, AloneInv, IInv, Typed, JobRecords
  <2>2. Valid(j)' <=> Valid(j)
    BY <1>2, <1>3, <2>1 DEF Valid, ProductsOf
  <2>. QED
    BY <1>1, <1>3, <2>1, <2>2 DEF Validated
<1>. QED
  BY <1>1, <1>4, <1>5, <1>6

\* A job ends.
LEMMA EndsAlone ==
  ASSUME AloneInv, NEW j \in Jobs, Publish(j) \/ MarkFailed(j) \/ Crash(j)
  PROVE  /\ Rows' /\ Validated(j)' /\ job[j] # IdleJob
         /\ \A k \in Jobs \ {j} : job'[k] = job[k]
         /\ \A r \in Releases : releases'[r].count = releases[r].count
         /\ \A r \in Releases :
              releases'[r].status = releases[r].status \/ (Publish(j) /\ r = Release(j)) \/ MarkFailed(j)
<1>1. job[j] # IdleJob /\ job'[j] = IdleJob /\ \A k \in Jobs \ {j} : job'[k] = job[k]
  <2>1. job[j] # IdleJob
    BY DEF Publish, MarkFailed, Crash, IdleJob
  <2>2. job' = [job EXCEPT ![j] = IdleJob]
    BY DEF Publish, MarkFailed, Crash
  <2>. QED
    BY <2>1, <2>2 DEF AloneInv, IInv, Typed
<1>2. Validated(j)'
  BY <1>1 DEF Validated, IdleJob
<1>3. Release(j) \in Releases
  <2>1. PICK i \in Inputs : job[j].input = {i}
    BY <1>1 DEF AloneInv, IInv, HasInput
  <2>. QED
    BY <2>1, InputOfJob, ConstantsAssumption DEF Release
<1>4. /\ Rows' /\ \A r \in Releases : releases'[r].count = releases[r].count
      /\ \A r \in Releases :
           releases'[r].status = releases[r].status \/ (Publish(j) /\ r = Release(j)) \/ MarkFailed(j)
  <2>. DEFINE old == releases[Release(j)]
  <2>0. PICK status, count, readyAt :
          old = [status |-> status, count |-> count, readyAt |-> readyAt]
    BY <1>3 DEF AloneInv, Rows
  <2>1. CASE Publish(j)
    <3>1. releases' = [releases EXCEPT ![Release(j)] = [old EXCEPT !.status = "ready", !.readyAt = Now]]
      BY <1>3, <2>1 DEF Publish, AloneInv, Rows
    <3>2. /\ Rows' /\ releases'[Release(j)] = [old EXCEPT !.status = "ready", !.readyAt = Now]
          /\ \A s \in Releases \ {Release(j)} : releases'[s] = releases[s]
      BY <1>3, <3>1, RowIsWritten DEF AloneInv
    <3>. QED
      BY <2>0, <2>1, <3>2
  <2>2. CASE MarkFailed(j)
    <3>1. releases' = [releases EXCEPT ![Release(j)] = [old EXCEPT !.status = "failed"]]
      BY <1>3, <2>2 DEF MarkFailed, AloneInv, Rows
    <3>2. /\ Rows' /\ releases'[Release(j)] = [old EXCEPT !.status = "failed"]
          /\ \A s \in Releases \ {Release(j)} : releases'[s] = releases[s]
      BY <1>3, <3>1, RowIsWritten DEF AloneInv
    <3>. QED
      BY <2>0, <2>2, <3>2
  <2>3. CASE Crash(j)
    <3>1. releases' = releases
      BY <2>3 DEF Crash
    <3>2. Rows'
      BY <3>1 DEF AloneInv, Rows
    <3>. QED
      BY <3>1, <3>2
  <2>. QED
    BY <2>1, <2>2, <2>3
<1>. QED
  BY <1>1, <1>2, <1>4

\* Nothing that a job validates is changed.
LEMMA OthersAlone ==
  ASSUME AloneInv, UNCHANGED <<releases, facts, points, job>>
  PROVE  Rows' /\ \A k \in Jobs : Validated(k)'
<1>1. ASSUME NEW k \in Jobs PROVE Validated(k)'
  <2>1. /\ Input(k)' = Input(k) /\ Release(k)' = Release(k) /\ job'[k] = job[k]
        /\ PointsOf(Release(k))' = PointsOf(Release(k)) /\ Found(Release(k))' = Found(Release(k))
        /\ Stored' = Stored
    BY DEF Input, Release, PointsOf, Found, Stored
  <2>2. Valid(k)' <=> Valid(k)
    BY <2>1 DEF Valid, ProductsOf
  <2>. QED
    BY <2>1, <2>2 DEF AloneInv, Validated
<1>2. Rows'
  BY DEF AloneInv, Rows
<1>. QED
  BY <1>1, <1>2

\* The parts of a job's life, from its start to its end.
Loading(j) ==
  \/ Resume(j) \/ LoadFacts(j) \/ FactsDone(j)
  \/ UpsertVectors(j) \/ UpsertFails(j) \/ VectorsDone(j) \/ ReadFails(j)

Validating(j) == Count(j) \/ Scroll(j) \/ Check(j)

Ending(j) == Publish(j) \/ MarkFailed(j) \/ Crash(j)

LEMMA StepCases ==
  ASSUME [Next]_vars
  PROVE  \/ \E j \in Jobs :
              \/ \E i \in Inputs : Begin(j, i)
              \/ Loading(j) \/ Validating(j) \/ Ending(j)
         \/ UNCHANGED <<releases, facts, points, job>>
  BY DEF Next, vars, Loading, Validating, Ending, ReadReady, ReadRelease, Search, Fetch

LEMMA NextAlone == AloneInv /\ OneRuns /\ OneRuns' /\ [Next]_vars => AloneInv'
<1>. SUFFICES ASSUME AloneInv, OneRuns, OneRuns', [Next]_vars PROVE AloneInv'
  OBVIOUS
<1>1. IInv'
  BY NextIInv DEF AloneInv
<1>2. ASSUME NEW j \in Jobs, NEW i \in Inputs, Begin(j, i)
      PROVE  Rows' /\ \A k \in Jobs : Validated(k)'
  BY <1>2, BeginAlone, StepAlone
<1>3. ASSUME NEW j \in Jobs, Loading(j) \/ Validating(j)
      PROVE  Rows' /\ \A k \in Jobs : Validated(k)'
  <2>1. /\ releases' = releases /\ Validated(j)' /\ job[j] # IdleJob
        /\ \A k \in Jobs \ {j} : job'[k] = job[k]
    BY <1>3, LoadsAlone, ValidatesAlone DEF Loading, Validating
  <2>2. Rows'
    BY <2>1 DEF AloneInv, Rows
  <2>. QED
    BY <2>1, <2>2, StepAlone
<1>4. ASSUME NEW j \in Jobs, Ending(j)
      PROVE  Rows' /\ \A k \in Jobs : Validated(k)'
  BY <1>4, EndsAlone, StepAlone DEF Ending
<1>5. ASSUME UNCHANGED <<releases, facts, points, job>>
      PROVE  Rows' /\ \A k \in Jobs : Validated(k)'
  BY <1>5, OthersAlone
<1>6. Rows' /\ \A k \in Jobs : Validated(k)'
  BY <1>2, <1>3, <1>4, <1>5, StepCases
<1>. QED
  BY <1>1, <1>6 DEF AloneInv

LEMMA AlwaysAlone == Spec /\ []OneRuns => []AloneInv
<1>1. Init => AloneInv
  <2>. SUFFICES ASSUME Init PROVE AloneInv
    OBVIOUS
  <2>1. Rows
    BY DEF Init, Rows, AbsentRelease
  <2>2. \A j \in Jobs : Validated(j)
    BY DEF Init, Validated, IdleJob
  <2>. QED
    BY <2>1, <2>2, InitIInv DEF AloneInv
<1>. QED
  BY <1>1, NextAlone, PTL DEF Spec

\* As many products of a catalog have facts as it has lines: all have.
LEMMA AllStored ==
  ASSUME NEW i \in Inputs, Cardinality(ProductsOf(i) \cap Stored) = Len(CatalogOf[i])
  PROVE  ProductsOf(i) \subseteq Stored
<1>. DEFINE catalog == CatalogOf[i]
            lines == 1..Len(catalog)
<1>1. catalog \in Seq(Products) /\ Len(catalog) \in Nat /\ DOMAIN catalog = lines
  BY ConstantsAssumption
<1>2. ProductsOf(i) = {catalog[k] : k \in lines}
  BY <1>1 DEF ProductsOf
<1>3. IsFiniteSet(lines) /\ Cardinality(lines) = Len(catalog)
  <2>1. PICK n \in Nat : n = Len(catalog)
    BY <1>1
  <2>2. IsFiniteSet(1..n) /\ Cardinality(1..n) = IF 1 > n THEN 0 ELSE n - 1 + 1
    BY FS_Interval
  <2>3. IsFiniteSet(1..n) /\ Cardinality(1..n) = n
    BY <2>2
  <2>. QED
    BY <2>1, <2>3
<1>4. IsFiniteSet(ProductsOf(i)) /\ Cardinality(ProductsOf(i)) <= Len(catalog)
  <2>. DEFINE at == [k \in lines |-> catalog[k]]
  <2>1. at \in Surjection(lines, ProductsOf(i))
    BY <1>2 DEF Surjection
  <2>. HIDE DEF at
  <2>2. IsFiniteSet(ProductsOf(i)) /\ Cardinality(ProductsOf(i)) <= Cardinality(lines)
    BY <1>3, <2>1, FS_Surjection
  <2>. QED
    BY <1>3, <2>2
<1>5. /\ Cardinality(ProductsOf(i) \cap Stored) <= Cardinality(ProductsOf(i))
      /\ Cardinality(ProductsOf(i)) = Cardinality(ProductsOf(i) \cap Stored)
           => ProductsOf(i) = ProductsOf(i) \cap Stored
  <2>1. ProductsOf(i) \cap Stored \in SUBSET ProductsOf(i)
    OBVIOUS
  <2>. QED
    BY <1>4, <2>1, FS_Subset
<1>6. Cardinality(ProductsOf(i)) \in Nat
  BY <1>4, FS_CardinalityType
<1>7. Cardinality(ProductsOf(i)) = Cardinality(ProductsOf(i) \cap Stored)
  <2>. HIDE DEF catalog
  <2>1. Cardinality(ProductsOf(i) \cap Stored) = Len(catalog)
    BY DEF catalog
  <2>. QED
    BY <1>1, <1>4, <1>5, <1>6, <2>1
<1>. QED
  BY <1>5, <1>7

\* While jobs run one at a time a release becomes ready only when a search of it
\* finds its catalog, each product once and nothing else, and all products have
\* facts: what the validation has read is still true when it publishes, also
\* after jobs that died at any step and a changed catalog.
THEOREM PublishesWhatIsComplete == Spec /\ []OneRuns => PublishedIsComplete
<1>1. AloneInv /\ [Next]_vars =>
        [\A r \in Releases :
           releases'[r].status = "ready" /\ releases[r].status # "ready" => Complete(r)]_vars
  <2>. SUFFICES ASSUME AloneInv, [Next]_vars, NEW r \in Releases,
                       releases'[r].status = "ready", releases[r].status # "ready"
                PROVE  Complete(r)
    OBVIOUS
  <2>1. PICK j \in Jobs : Publish(j) /\ r = Release(j)
    <3>1. \A j \in Jobs, i \in Inputs : ~Begin(j, i)
      BY BeginAlone, ConstantsAssumption
    <3>2. \A j \in Jobs : ~Loading(j) /\ ~Validating(j)
      BY LoadsAlone, ValidatesAlone DEF Loading, Validating
    <3>3. PICK j \in Jobs : Ending(j)
      BY <3>1, <3>2, StepCases
    <3>4. releases'[r].status = releases[r].status \/ (Publish(j) /\ r = Release(j)) \/ MarkFailed(j)
      BY <3>3, EndsAlone DEF Ending
    <3>5. ~MarkFailed(j)
      <4>. SUFFICES ASSUME MarkFailed(j) PROVE FALSE
        OBVIOUS
      <4>1. releases' = [releases EXCEPT ![Release(j)].status = "failed"]
        BY DEF MarkFailed
      <4>2. PICK status, count, readyAt :
              releases[r] = [status |-> status, count |-> count, readyAt |-> readyAt]
        BY DEF AloneInv, Rows
      <4>3. releases'[r] = releases[r] \/ releases'[r] = [releases[r] EXCEPT !.status = "failed"]
        BY <4>1 DEF AloneInv, Rows
      <4>. QED
        BY <4>2, <4>3
    <3>. QED
      BY <3>4, <3>5
  <2>2. PICK i \in Inputs : job[j].input = {i}
    BY <2>1 DEF Publish, IdleJob, AloneInv, IInv, HasInput
  <2>3. Input(j) = i /\ Release(j) = ReleaseOf[i]
    BY <2>2, InputOfJob DEF Release
  <2>4. /\ releases[r].count = Len(CatalogOf[i]) /\ Valid(j)
        /\ job[j].count = Cardinality(PointsOf(r)) /\ job[j].seen = Found(r)
    BY <2>1, <2>3 DEF AloneInv, Validated, Publish, IdleJob
  <2>5. ProductsOf(i) \subseteq Stored
    BY <2>3, <2>4, AllStored DEF Valid
  <2>6. Searchable(i)
    BY <2>1, <2>3, <2>4, <2>5 DEF Valid, Searchable
  <2>. QED
    BY <2>1, <2>3, <2>4, <2>6 DEF Complete
<1>. QED
  BY <1>1, AlwaysAlone, PTL DEF Spec, PublishedIsComplete

\* While jobs run one at a time a ready release is spoilt by the job of another
\* one only, which overwrites the points they share by their numbers; the job of
\* the release itself has withdrawn it first.
THEOREM ReadyIsSpoiltByOthers == Spec /\ []OneRuns => OnlyOthersSpoil
<1>1. AloneInv /\ [Next]_vars =>
        [\A r \in Releases :
           releases[r].status = "ready" /\ releases'[r].status = "ready" /\ Complete(r) /\ ~Complete(r)'
             => \E j \in Jobs : job[j].step = "vectors" /\ Release(j) # r]_vars
  <2>. SUFFICES ASSUME AloneInv, [Next]_vars, NEW r \in Releases,
                       releases[r].status = "ready", releases'[r].status = "ready",
                       Complete(r), ~Complete(r)'
                PROVE  \E j \in Jobs : job[j].step = "vectors" /\ Release(j) # r
    OBVIOUS
  <2>1. releases'[r].count = releases[r].count
    <3>1. ASSUME NEW j \in Jobs, NEW i \in Inputs, Begin(j, i)
          PROVE  releases'[r].count = releases[r].count
      BY <3>1, BeginAlone
    <3>2. ASSUME NEW j \in Jobs, Loading(j) \/ Validating(j)
          PROVE  releases'[r].count = releases[r].count
      BY <3>2, LoadsAlone, ValidatesAlone DEF Loading, Validating
    <3>3. ASSUME NEW j \in Jobs, Ending(j)
          PROVE  releases'[r].count = releases[r].count
      BY <3>3, EndsAlone DEF Ending
    <3>. QED
      BY <3>1, <3>2, <3>3, StepCases
  <2>2. Stored \subseteq Stored'
    <3>1. CASE facts' = facts
      BY <3>1 DEF Stored
    <3>2. CASE \E j \in Jobs : LoadFacts(j)
      <4>1. PICK j \in Jobs : LoadFacts(j)
        BY <3>2
      <4>2. PICK start : facts' = FactsAfter(Input(j), start)
        BY <4>1 DEF LoadFacts
      <4>3. PICK i \in Inputs : job[j].input = {i}
        BY <4>1 DEF LoadFacts, IdleJob, AloneInv, IInv, HasInput
      <4>4. facts' = FactsAfter(i, start)
        BY <4>2, <4>3, InputOfJob
      <4>. QED
        BY <4>4, NoFactsAssumption DEF Stored, FactsAfter
    <3>. QED
      BY <3>1, <3>2 DEF Next, vars, Begin, Resume, FactsDone, UpsertVectors, UpsertFails, VectorsDone,
         Count, Scroll, ReadFails, Check, Publish, MarkFailed, Crash, ReadReady, ReadRelease,
         Search, Fetch
  <2>3. points' # points
    <3>. SUFFICES ASSUME points' = points PROVE Complete(r)'
      OBVIOUS
    <3>1. PICK i \in Inputs :
            ReleaseOf[i] = r /\ releases[r].count = Len(CatalogOf[i]) /\ Searchable(i)
      BY DEF Complete
    <3>2. /\ Found(ReleaseOf[i])' = Found(ReleaseOf[i])
          /\ PointsOf(ReleaseOf[i])' = PointsOf(ReleaseOf[i])
      BY DEF Found, PointsOf
    <3>3. Searchable(i)'
      BY <2>2, <3>1, <3>2 DEF Searchable, ProductsOf
    <3>. QED
      BY <2>1, <3>1, <3>3 DEF Complete
  <2>4. PICK j \in Jobs : UpsertVectors(j) \/ UpsertFails(j)
    BY <2>3 DEF Next, vars, Begin, Resume, LoadFacts, FactsDone, VectorsDone,
       Count, Scroll, ReadFails, Check, Publish, MarkFailed, Crash, ReadReady, ReadRelease,
       Search, Fetch
  <2>5. job[j].step = "vectors"
    BY <2>4 DEF UpsertVectors, UpsertFails
  <2>6. releases[Release(j)].status = "loading"
    BY <2>5 DEF AloneInv, Validated, IdleJob
  <2>. QED
    BY <2>5, <2>6
<1>. QED
  BY <1>1, AlwaysAlone, PTL DEF Spec, OnlyOthersSpoil
===============================================================================
