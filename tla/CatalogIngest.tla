----------------------------- MODULE CatalogIngest -----------------------------
(***************************************************************************)
(* The ingestion job, main of shop/ingest.py with ensure_collection and    *)
(* upsert of shop/vector_store.py, and the path on which a worker finds a  *)
(* product: catalog_ready, product_search_release, search and get_product. *)
(*                                                                         *)
(* Facts, checkpoints and releases are in PostgreSQL, one transaction for  *)
(* each batch; vectors are in Qdrant.  A job may die between any two       *)
(* steps, a call to Qdrant may fail with or without effect.  The points of *)
(* a release share their numbers with those of every other.                *)
(*                                                                         *)
(* Left out: the contents of facts and vectors, the dimension of the       *)
(* collection, the metadata of the points (one embedding model), and the   *)
(* pages of a scroll, which are read at one instant.                       *)
(***************************************************************************)
EXTENDS Integers, Sequences, FiniteSetsExt

CONSTANTS
  Products,   \* product ids
  Releases,   \* release ids, in their order
  Inputs,     \* what a job can be started with: a release id and a catalog
  ReleaseOf,  \* the release id of an input
  CatalogOf,  \* its products, in order
  BatchSize,  \* 50, of the facts and of the vectors
  Jobs,       \* job processes
  Readers,    \* workers in search of a product
  MaxRuns     \* bound of the model: how often jobs are started

ASSUME ConstantsAssumption ==
  /\ Releases \subseteq Nat \ {0}
  /\ ReleaseOf \in [Inputs -> Releases]
  /\ CatalogOf \in [Inputs -> Seq(Products)]
  /\ \A i \in Inputs : CatalogOf[i] # <<>>
  /\ BatchSize \in Nat \ {0}
  /\ MaxRuns \in Nat

\* The products of a batch, by the first offset of the batch.
BatchOf(i, start) == {k \in DOMAIN CatalogOf[i] : start < k /\ k <= start + BatchSize}

ProductsAt(i, start) == {CatalogOf[i][k] : k \in BatchOf(i, start)}

StartsOf(i) == {s \in 0..Len(CatalogOf[i]) - 1 : s % BatchSize = 0}

\* A release id used again, as for a shorter catalog, keeps the products of the
\* batches it has in common.  Nothing in the code checks it, and without it a
\* checkpoint is no promise.
ASSUME BatchesAssumption ==
  \A i, k \in Inputs : \A s \in StartsOf(i) \cap StartsOf(k) :
    ReleaseOf[i] = ReleaseOf[k] => ProductsAt(i, s) = ProductsAt(k, s)

NoFacts == "no facts"

ASSUME NoFactsAssumption == NoFacts \notin Inputs

NoPoint == [product |-> "none", release |-> 0]
NoRelease == 0
NoTime == 0

PointIds == 1..Max({Len(CatalogOf[i]) : i \in Inputs})

VARIABLES
  releases,  \* catalog_releases
  progress,  \* catalog_progress: the batches of each release that are stored
  facts,     \* products: the input that last wrote each product
  points,    \* the Qdrant collection
  job,       \* where each job stands
  reader,    \* where each worker's search stands
  runs       \* how often a job was started

vars == <<releases, progress, facts, points, job, reader, runs>>

-------------------------------------------------------------------------------
(* The tables and the collection *)

AbsentRelease == [status |-> "absent", count |-> 0, readyAt |-> NoTime]

Present == {r \in Releases : releases[r].status # "absent"}

\* The batches of the facts and of the vectors, by their first offsets.
Starts(i) == StartsOf(i)

ProductsOf(i) == {CatalogOf[i][k] : k \in DOMAIN CatalogOf[i]}

PointsOf(r) == {k \in PointIds : points[k] # NoPoint /\ points[k].release = r}

Found(r) == {points[k].product : k \in PointsOf(r)}

Stored == {p \in Products : facts[p] # NoFacts}

\* Variant of Pending: the checkpoints of every release are read.
PendingAnywhere(i) == Starts(i) \ UNION {progress[r] : r \in Releases}

\* The batches of facts that no checkpoint covers.
Pending(i) == Starts(i) \ progress[ReleaseOf[i]]

\* Variant of Restarted: a release that is there is left as it is.
RestartedOnce(i) ==
  IF ReleaseOf[i] \in Present
  THEN releases[ReleaseOf[i]]
  ELSE [status |-> "loading", count |-> Len(CatalogOf[i]), readyAt |-> NoTime]

\* The row of a release when a job is started for it.
Restarted(i) == [status |-> "loading", count |-> Len(CatalogOf[i]), readyAt |-> NoTime]

Now == 1 + Max({releases[r].readyAt : r \in Releases})

-------------------------------------------------------------------------------
(* The job *)

IdleJob == [step |-> "idle", input |-> {}, todo |-> {}, count |-> 0, seen |-> {}]

IdleReader == [step |-> "idle", release |-> NoRelease, product |-> {}]

ReaderSteps == {"idle", "choosing", "searching", "fetching"}

JobSteps ==
  {"idle", "resuming", "facts", "vectors", "counting", "scrolling", "checking",
   "publishing", "failing"}

Input(j) == CHOOSE i \in Inputs : i \in job[j].input

Release(j) == ReleaseOf[Input(j)]

\* Batches are taken in their order.
NextBatches(j) == {start \in job[j].todo : \A s \in job[j].todo : start <= s}

Init ==
  /\ releases = [r \in Releases |-> AbsentRelease]
  /\ progress = [r \in Releases |-> {}]
  /\ facts = [p \in Products |-> NoFacts]
  /\ points = [k \in PointIds |-> NoPoint]
  /\ job = [j \in Jobs |-> IdleJob]
  /\ reader = [w \in Readers |-> IdleReader]
  /\ runs = 0

Begin(j, i) ==
  /\ job[j] = IdleJob
  /\ runs < MaxRuns
  /\ runs' = runs + 1
  /\ releases' = [releases EXCEPT ![ReleaseOf[i]] = Restarted(i)]
  /\ job' = [job EXCEPT ![j].step = "resuming", ![j].input = {i}]
  /\ UNCHANGED <<progress, facts, points, reader>>

Resume(j) ==
  /\ job[j].step = "resuming"
  /\ job' = [job EXCEPT ![j].step = "facts", ![j].todo = Pending(Input(j))]
  /\ UNCHANGED <<releases, progress, facts, points, reader, runs>>

\* Variant of FactsAfter: the last product of the batch is forgotten.
FactsAfterShort(i, start) ==
  [p \in Products |->
     IF \E k \in BatchOf(i, start) : k # Max(BatchOf(i, start)) /\ CatalogOf[i][k] = p
     THEN i ELSE facts[p]]

FactsAfter(i, start) ==
  [p \in Products |-> IF \E k \in BatchOf(i, start) : CatalogOf[i][k] = p THEN i ELSE facts[p]]

\* One batch of facts and its checkpoint, in one transaction.
LoadFacts(j) ==
  /\ job[j].step = "facts"
  /\ \E start \in NextBatches(j) :
       /\ facts' = FactsAfter(Input(j), start)
       /\ progress' = [progress EXCEPT ![Release(j)] = @ \cup {start}]
       /\ job' = [job EXCEPT ![j].todo = @ \ {start}]
  /\ UNCHANGED <<releases, points, reader, runs>>

FactsDone(j) ==
  /\ job[j].step = "facts"
  /\ job[j].todo = {}
  /\ job' = [job EXCEPT ![j].step = "vectors", ![j].todo = Starts(Input(j))]
  /\ UNCHANGED <<releases, progress, facts, points, reader, runs>>

\* The point of a product has the number of its place, whatever the release.
PointsAfter(i, start) ==
  [k \in PointIds |->
     IF k \in BatchOf(i, start)
     THEN [product |-> CatalogOf[i][k], release |-> ReleaseOf[i]]
     ELSE points[k]]

UpsertVectors(j) ==
  /\ job[j].step = "vectors"
  /\ \E start \in NextBatches(j) :
       /\ points' = PointsAfter(Input(j), start)
       /\ job' = [job EXCEPT ![j].todo = @ \ {start}]
  /\ UNCHANGED <<releases, progress, facts, reader, runs>>

\* The call fails; after a timeout the batch may have been stored all the same.
UpsertFails(j) ==
  /\ job[j].step = "vectors"
  /\ \E start \in NextBatches(j) : points' \in {points, PointsAfter(Input(j), start)}
  /\ job' = [job EXCEPT ![j].step = "failing", ![j].todo = {}]
  /\ UNCHANGED <<releases, progress, facts, reader, runs>>

VectorsDone(j) ==
  /\ job[j].step = "vectors"
  /\ job[j].todo = {}
  /\ job' = [job EXCEPT ![j].step = "counting"]
  /\ UNCHANGED <<releases, progress, facts, points, reader, runs>>

Count(j) ==
  /\ job[j].step = "counting"
  /\ job' = [job EXCEPT ![j].step = "scrolling",
                        ![j].count = Cardinality(PointsOf(Release(j)))]
  /\ UNCHANGED <<releases, progress, facts, points, reader, runs>>

Scroll(j) ==
  /\ job[j].step = "scrolling"
  /\ job' = [job EXCEPT ![j].step = "checking", ![j].seen = Found(Release(j))]
  /\ UNCHANGED <<releases, progress, facts, points, reader, runs>>

ReadFails(j) ==
  /\ job[j].step \in {"counting", "scrolling"}
  /\ job' = [job EXCEPT ![j].step = "failing"]
  /\ UNCHANGED <<releases, progress, facts, points, reader, runs>>

\* Variant of Valid: the vectors are taken as written.
ValidFacts(j) == Cardinality(ProductsOf(Input(j)) \cap Stored) = Len(CatalogOf[Input(j)])

Valid(j) ==
  /\ job[j].count = Len(CatalogOf[Input(j)])
  /\ job[j].seen = ProductsOf(Input(j))
  /\ Cardinality(ProductsOf(Input(j)) \cap Stored) = Len(CatalogOf[Input(j)])

\* The facts are counted and everything is compared.
Check(j) ==
  /\ job[j].step = "checking"
  /\ job' = [job EXCEPT ![j].step = IF Valid(j) THEN "publishing" ELSE "failing"]
  /\ UNCHANGED <<releases, progress, facts, points, reader, runs>>

Publish(j) ==
  /\ job[j].step = "publishing"
  /\ releases' = [releases EXCEPT ![Release(j)].status = "ready", ![Release(j)].readyAt = Now]
  /\ job' = [job EXCEPT ![j] = IdleJob]
  /\ UNCHANGED <<progress, facts, points, reader, runs>>

\* ready_at keeps its value.
MarkFailed(j) ==
  /\ job[j].step = "failing"
  /\ releases' = [releases EXCEPT ![Release(j)].status = "failed"]
  /\ job' = [job EXCEPT ![j] = IdleJob]
  /\ UNCHANGED <<progress, facts, points, reader, runs>>

Crash(j) ==
  /\ job[j] # IdleJob
  /\ job' = [job EXCEPT ![j] = IdleJob]
  /\ UNCHANGED <<releases, progress, facts, points, reader, runs>>

-------------------------------------------------------------------------------
(* The worker's search *)

CatalogReady == \E r \in Releases : releases[r].status = "ready"

\* ORDER BY ready_at DESC NULLS LAST, id DESC: whatever its status.
ComesFirst(r) ==
  \A s \in Present :
    \/ releases[r].readyAt > releases[s].readyAt
    \/ releases[r].readyAt = releases[s].readyAt /\ r >= s

ReadReady(w) ==
  /\ reader[w] = IdleReader
  /\ CatalogReady
  /\ reader' = [reader EXCEPT ![w].step = "choosing"]
  /\ UNCHANGED <<releases, progress, facts, points, job, runs>>

ReadRelease(w) ==
  /\ reader[w].step = "choosing"
  /\ \E r \in Present :
       /\ ComesFirst(r)
       /\ reader' = [reader EXCEPT ![w].step = "searching", ![w].release = r]
  /\ UNCHANGED <<releases, progress, facts, points, job, runs>>

\* The best match, if any is near enough; Qdrant may also be unavailable.
Search(w) ==
  /\ reader[w].step = "searching"
  /\ \/ \E p \in Found(reader[w].release) :
          reader' = [reader EXCEPT ![w].step = "fetching", ![w].product = {p}]
     \/ reader' = [reader EXCEPT ![w] = IdleReader]
  /\ UNCHANGED <<releases, progress, facts, points, job, runs>>

Fetch(w) ==
  /\ reader[w].step = "fetching"
  /\ reader' = [reader EXCEPT ![w] = IdleReader]
  /\ UNCHANGED <<releases, progress, facts, points, job, runs>>

Next ==
  \/ \E j \in Jobs :
       \/ \E i \in Inputs : Begin(j, i)
       \/ Resume(j) \/ LoadFacts(j) \/ FactsDone(j)
       \/ UpsertVectors(j) \/ UpsertFails(j) \/ VectorsDone(j)
       \/ Count(j) \/ Scroll(j) \/ ReadFails(j) \/ Check(j)
       \/ Publish(j) \/ MarkFailed(j) \/ Crash(j)
  \/ \E w \in Readers : ReadReady(w) \/ ReadRelease(w) \/ Search(w) \/ Fetch(w)

Spec == Init /\ [][Next]_vars

-------------------------------------------------------------------------------
(* Properties *)

\* A search under release r finds the catalog of the input: each product once
\* and nothing else, and the products have facts.
Searchable(i) ==
  /\ Found(ReleaseOf[i]) = ProductsOf(i)
  /\ Cardinality(PointsOf(ReleaseOf[i])) = Len(CatalogOf[i])
  /\ ProductsOf(i) \subseteq Stored

Complete(r) ==
  \E i \in Inputs :
    ReleaseOf[i] = r /\ releases[r].count = Len(CatalogOf[i]) /\ Searchable(i)

\* Rows, checkpoints and points keep their types; a checkpoint is the offset of
\* a batch of its release.
TypeOK ==
  /\ \A r \in Releases :
       /\ releases[r].status \in {"absent", "loading", "ready", "failed"}
       /\ releases[r].count \in Nat /\ releases[r].readyAt \in Nat
       /\ \A s \in progress[r] :
            s % BatchSize = 0 /\ \E i \in Inputs : ReleaseOf[i] = r /\ s < Len(CatalogOf[i])
  /\ facts \in [Products -> Inputs \cup {NoFacts}]
  /\ points \in [PointIds -> [product : Products, release : Releases] \cup {NoPoint}]
  /\ \A j \in Jobs : job[j].step \in JobSteps
  /\ \A w \in Readers : reader[w].step \in ReaderSteps

\* A checkpoint promises the facts of its batch to every job of the release: one
\* that skips the batch after a restart leaves nothing out.
CheckpointIsTrue ==
  \A r \in Releases : \A s \in progress[r] :
    \A i \in Inputs :
      ReleaseOf[i] = r /\ s \in StartsOf(i) => ProductsAt(i, s) \subseteq Stored

\* What a search can find can be read: vectors never come before the facts,
\* whichever step a job died at.
PointHasFacts ==
  /\ \A k \in PointIds : points[k] # NoPoint => points[k].product \in Stored
  /\ \A w \in Readers : reader[w].product \subseteq Stored

\* A release becomes ready only when its vectors and facts are all there and
\* no others, also after interrupted jobs and a changed catalog.
PublishedIsComplete ==
  [][\A r \in Releases :
       releases'[r].status = "ready" /\ releases[r].status # "ready" => Complete(r)]_vars

\* While a release is ready only the job of another release can spoil what a
\* search of it finds.
OnlyOthersSpoil ==
  [][\A r \in Releases :
       releases[r].status = "ready" /\ releases'[r].status = "ready" /\ Complete(r) /\ ~Complete(r)'
         => \E j \in Jobs : job[j].step = "vectors" /\ Release(j) # r]_vars

\* What the documents promise and the code does not keep: a worker searches
\* complete releases only.
ServedIsComplete ==
  \A w \in Readers : reader[w].step = "searching" => Complete(reader[w].release)
===============================================================================
