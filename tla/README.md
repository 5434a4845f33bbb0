# Verification of the shopping assistant

TLA+ models of the shopping assistant in `src/shop`, the TLC configurations
that check them on small instances, and proofs checked by TLAPS.  Source paths
are relative to the repository; `PROJECT.json` maps every definition to the
lines it stands for.

1. [The system](#1-the-system)
2. [What is hard about it](#2-what-is-hard-about-it)
3. [Modules](#3-modules)
4. [Model and code](#4-model-and-code)
5. [Runs and bounds](#5-runs-and-bounds)
6. [Fairness](#6-fairness)
7. [Proofs](#7-proofs)
8. [Where the code and its documents disagree](#8-where-the-code-and-its-documents-disagree)
9. [What is not modelled](#9-what-is-not-modelled)
10. [Plan](#10-plan)

## 1. The system

Browsers talk to FastAPI replicas.  Replicas, inference workers, the
maintenance loop and the ingestion job share nothing but PostgreSQL and Qdrant;
they never call each other.  Every interaction is a row or a point that one
process writes and another reads.

| Component | State | Operations | Interacts with |
|---|---|---|---|
| Work queue, `shop/work_queue.py` | tables `questions`, `work`, `attempts` | `claim`, `renew`, `finish`, `cancel`, `expire` | inference control, in the same transaction |
| Inference control, `shop/inference_control.py` | tables `inference_leases` (slots) and `inference_control` (circuit breaker) | `try_acquire`, `renew`, `release` | called by the work queue |
| Worker, `shop/worker.py` | its claim, its heartbeat thread | `process_one`, `keep_lease` | work queue, cache, vector store, model |
| Maintenance, `shop/maintenance.py` | none | `expire` and retention, every second | work queue, retention |
| Submission, `shop/store.py`, `shop/api.py` | `sessions`, `conversations`, `questions`, `work` | `ensure_session`, `create_conversation`, `submit`, `get_conversation`, cancel endpoint | work queue, retention |
| Retention, `shop/retention.py` | `conversations.expired_at` | `expire_conversations`, `expire_cache` | races with submission |
| Ingestion, `shop/ingest.py`, `shop/vector_store.py` | `catalog_releases`, `catalog_progress`, `products`, Qdrant points | `main`, `ensure_collection`, `upsert`, `search` | workers that search |
| Catalog jobs, `shop/catalog_jobs.py` | files: facts, checkpoints, artifact | `generate_facts`, `describe`, `freeze`, `load_artifact` | ingestion |
| Semantic cache, `shop/semantic_cache.py` | a Qdrant collection | `lookup`, `put` | worker, retention |
| Conversation, `shop/conversation.py` | the tool loop of one answer | `answer_question` | model, vector store |
| Browser, `shop/static/app.js` | outbox in local storage, polling generation | connect, submit, cancel, refresh | API |
| Migrations, `shop/migrate.py` | `schema_migrations` | `main` | all |

What makes each of them correct:

- *Work queue*: an accepted question is worked on until it has an outcome, has
  one owner at a time, one outcome and at most one answer; an owner that lost
  its right can no longer change anything; attempts and time are bounded.
- *Inference control*: owners are as many as there are slots, over all worker
  processes; while the breaker is not closed only one probe is let through.
- *Submission*: the limits hold over all replicas; a submission counts once
  however often it is delivered; what was acknowledged is saved.
- *Retention*: it removes what is old and finished, and nothing else.
- *Ingestion*: a release is ready only when facts and vectors are complete, and
  an interrupted job may be started again.
- *Semantic cache*: the collection stays within its cap but for stores that
  are under way or were broken off, an eviction is out for no more than it
  must, and a failure of the cache costs no answer.
- *Conversation*: the prompt is well formed however often it is pruned, what a
  search found meets the requirements it was found under, and the loop of tool
  calls ends.
- *Browser*: a question that was typed is kept until the API has saved it or
  given it back; no tab is left without a way on; an old state is not shown
  over a newer one.
- *Catalog jobs*: one template a category, one source of descriptions, and an
  artifact that is complete however often the jobs were interrupted; what the
  generator draws is what the validator accepts.

## 2. What is hard about it

- **Transactions interleave.**  All of them are READ COMMITTED: each statement
  sees what others committed in the meantime, a row lock makes an `UPDATE` or a
  `SELECT ... FOR UPDATE` wait, and only what changed is evaluated again after
  the wait.  `FOR UPDATE SKIP LOCKED` decides on a snapshot that is older than
  its locks.
- **Processes die** between two transactions, or with a transaction open, and
  workers *hang*: the heartbeat stops and the late answer still arrives.
- **One fact is stored twice.**  The end of a lease is kept in `work`,
  `attempts` and `inference_leases`; the attempt's number in `attempts` and
  `questions.attempt_count`; facts in PostgreSQL and vectors in Qdrant.
- **Time** ends leases, slots, pauses of the breaker and questions, while
  somebody acts on what he read before.
- **Deliveries repeat**: a lost acknowledgement makes the browser submit again,
  a timed-out upsert may have been carried out.

`PROJECT.json` lists these at the lines where they bite, with the properties
that cover them and a note for those that none covers yet.

## 3. Modules

| Module | Contents | Uses |
|---|---|---|
| `InferenceControl` | slots and breaker, as operators on the two tables | |
| `WorkQueue` | the queue with workers, maintenance and time: the state machine | EXTENDS `InferenceControl` |
| `QuestionLifecycle` | abstract: what a shopper is promised about a question | |
| `WorkQueueProperties` | properties of `WorkQueue`, the refinement mapping | EXTENDS `WorkQueue`, INSTANCE `QuestionLifecycle` |
| `WorkQueue_proofs` | theorems about `WorkQueue`: owners, slots, what no step may do, what is recorded, the breaker, the refinement | EXTENDS `WorkQueueProperties`, TLAPS |
| `SlotTransactions` | the statements within the queue's transactions, with row locks | |
| `SlotTransactions_proofs` | theorems about `SlotTransactions` | EXTENDS `SlotTransactions`, TLAPS |
| `Admission` | submission and retention, statement by statement | |
| `Admission_proofs` | theorems about `Admission` | EXTENDS `Admission`, TLAPS |
| `CatalogIngest` | the ingestion job and a worker's search | |
| `CatalogIngest_proofs` | theorems about `CatalogIngest` | EXTENDS `CatalogIngest`, TLAPS |
| `SemanticCache` | lookup, store, eviction and expiry, call by call | |
| `SemanticCache_proofs` | theorems about `SemanticCache` | EXTENDS `SemanticCache`, TLAPS |
| `Conversation` | the tool loop of an answer, turn after turn | |
| `Conversation_proofs` | theorems about `Conversation` | EXTENDS `Conversation`, TLAPS |
| `CatalogJobs` | facts, describe and freeze as processes over files | |
| `CatalogFacts` | what the generator may draw, and what the validator demands | |
| `Catalog_proofs` | that the two agree, and theorems about `CatalogJobs` | EXTENDS `CatalogFacts`, `CatalogJobs`, TLAPS |
| `BrowserOutbox` | the tabs of a browser over one local storage | |
| `BrowserOutbox_proofs` | theorems about `BrowserOutbox` | EXTENDS `BrowserOutbox`, TLAPS |
| `MC...` | small instances for TLC | each EXTENDS its module |

Three grains of atomicity are used on purpose.  `WorkQueue` takes a transaction
for an action, because every one of its transactions locks the work row of its
question before it looks at anything, so that two of one question never
interleave.  Slots are another matter: the row of `inference_control` does not
guard them.  `try_acquire` deletes lapsed slots (`inference_control.py:17`)
before it locks that row (line 18), `release` deletes its slot (line 52) before
it locks it (line 53), and `renew` (line 48) never does.  What may happen to a
slot inside the transaction of another question, or because the clock moves
there, is dealt with in two ways:

- A renewal is two actions of `WorkQueue`, its check and its writes: in between
  the clock moves, the lease may end, and a claim may delete and give away the
  slot.  It is the one transaction that decides by the clock and then writes
  what others may have taken since.
- The others remain single actions, and `SlotTransactions`, which keeps nothing
  but leases, slots and locks, takes each of their statements for an action.
  What is proved there (the table of slots is never overfull, a slot lapses with
  its lease) holds however statements interleave.

`Admission` takes statements from the start,
because replicas and retention meet nowhere but in the locks it models.
`SemanticCache` and `CatalogIngest` take a call to Qdrant, `CatalogJobs` an
SQLite transaction or a file, `BrowserOutbox` a handler up to its next await.

## 4. Model and code

### WorkQueue and InferenceControl

| Variable | Code |
|---|---|
| `question` | `questions`: status, deadline, `attempt_count`, `recovery_count`, `last_error`, and the answer reduced to the attempt that gave it |
| `work` | `work`: presence, `attempt_id`, `lease_expires_at`, `available_at`; `late` is history: a renewal of this owner's lease was written after the lease had ended |
| `attempts` | `attempts.outcome`; the pair (question, number) is the id, which UNIQUE (question_id, number) allows |
| `leases` | `inference_leases.expires_at`, by attempt |
| `breaker` | the row of `inference_control` |
| `worker` | the local state of a worker process: down, idle, or running a claim, with or without its heartbeat; `since` is when the renewal that is under way made its check |
| `now` | `clock_timestamp()` |

| Action | Code |
|---|---|
| `Submit` | the two INSERTs at the end of `store.submit` |
| `ClaimEnds` | `claim` finds the deadline passed or the attempts spent |
| `ClaimCollides` | the INSERT of the attempt meets a number that is taken: the exception ends the worker process |
| `ClaimStarts`, `ClaimWaits` | `try_acquire` grants or refuses a slot |
| `RenewBegins`, `RenewCommits` | `renew`: the lock of the work row and the check, then the three UPDATEs, of which the last may find no slot; the new lease is from some time in between, since each statement reads the clock |
| `HeartbeatStops` | `keep_lease` of the worker gives up, with its transaction rolled back if one is open |
| `FinishRefused`, `FinishRetries`, `FinishEnds` | `finish` of a lost claim, of a transient error that may be retried, of anything else |
| `Cancel` | `cancel` |
| `Expire` | one call of `expire`: any set of due questions up to the batch, since SKIP LOCKED passes over rows that others hold |
| `WorkerCrash`, `WorkerRestart` | the process, and `restart: unless-stopped` in `compose.yaml` |
| `Tick` | the clock |

`claim` takes the oldest row that is not locked; because any row may be locked
for a moment by somebody else, the model lets it take any claimable row.
`try_acquire` is modelled with its stale local value of `opened_at`.  While a
renewal is under way its work row is `Locked`: `finish` and `cancel` of the
question wait, claims and `expire` pass over it.

### QuestionLifecycle

The specification a shopper could be given: a question is accepted, taken by a
token, possibly taken over by a fresh one, yielded, completed by its owner, or
ended without an answer; spent tokens never return and terminal statuses are
final.  `ImplementsLifecycle` maps attempts to tokens and attempts with an
outcome to spent tokens; clock, leases, slots, breaker and worker processes
disappear.

### SlotTransactions

`lease` and `slot` are the two copies of a lease as committed, `before` says of
two rows of `inference_leases` which a new scan meets first, `tx` is the open
transaction of each question and `expiry` that of the maintenance loop.  The
lock of its work row allows a question one transaction at a time, so
transactions are named by their questions.

| Action | Code |
|---|---|
| `ClaimBegins`, `Purge`, `Admit` / `Refuse`, `ClaimCommits` | `claim` and `try_acquire`: the DELETE of lapsed slots row by row (a row it waited for is evaluated again), the control row, the count and the INSERT |
| `RenewBegins`, `RenewWork`, `RenewSlot`, `RenewCommits` | `renew`: the check, the UPDATE of work, the UPDATE of the slot |
| `ReleaseBegins`, `ReleaseLocks`, `ReleaseCommits` | `finish` and `cancel` with `release` |
| `ExpiryBegins`, `ExpiryNext`, `ExpiryLocks`, `ExpiryReports`, `ExpiryCommits` | one batch of `expire`, question by question |
| `Rollback`, `ExpiryRollback` | the process or the connection dies, or PostgreSQL breaks a deadlock |

`Wants` and `Holds` give the rows a transaction waits for and holds;
`Deadlocks` are the sets that wait for one another.  The breaker is closed and
the attempts are not spent here; both belong to `WorkQueue`.  A question that
was cancelled may come again, standing for another with the same deadline.

A new row, and the new version of a row that was renewed, may be anywhere in the
table.  A purge meets the rows of its snapshot, `seen`, in the `order` they had
then; two purges may therefore meet the same slots in opposite orders if one of
the slots was renewed between their snapshots.  `moved` is history: the slots of
a purge that were renewed after its snapshot and before it came to them.

### Admission

`conversation` and `question` are the tables, `handler` says which statement of
`submit` a request thread is at (`Submit` takes the advisory lock, `Authorize`
the conversation row, then `Deduplicate`, `CheckOrder`, `CountPending`,
`CheckRate`, `Insert`, `Respond`; `HandlerCrash` rolls back), and `sweep` is the
transaction of `expire_conversations` (`SweepFinds` is its snapshot,
`SweepLocks` one row of FOR UPDATE SKIP LOCKED, `SweepCommits`, `SweepCrash`).
What the queue does with a question afterwards is reduced to `Claim`,
`SetAside` and `End`.

### CatalogIngest

`releases`, `progress` and `facts` are the tables, `points` the Qdrant
collection by point number, `job` the step a job process is at, with the
offsets it still has to do, and `reader` a worker that searches (`ReadReady`,
`ReadRelease`, `Search`, `Fetch`).  `Begin` resets the release, `Resume` reads
the checkpoints, `LoadFacts` and `UpsertVectors` are one batch each,
`UpsertFails` is a failed call with or without effect, `Count` and `Scroll`
read the collection back, `Check` compares, `Publish` and `MarkFailed` end the
job, `Crash` ends it anywhere.  A release that is loaded again keeps the
checkpointed batches; the assumption `BatchesAssumption` says that the catalogs
of one release agree on common batches, which the code takes for granted.

### SemanticCache

`entries` is the Qdrant collection, `caller` each worker between claim and
report with what it has read and not used yet, `sweep` what `expire_cache` is
about to delete.  `LookUp`, `Reuse`, `Miss` are `lookup`; `Generate` the
inference; `Put`, `Store`, `Count`, `Scroll`, `Delete` the statements of `put`,
with `PutNothing`, `PutUnreadable` and `PutFails` for its ways out; `Report`
is `finish`.  Similarity is not modelled: any compatible entry may be proposed.
Two history variables count the stores that ended before their eviction
(`brokenOff`) and those that a later eviction has made up for (`settled`).

### Conversation

`messages` is the prompt, `pairs` the counter of earlier turns in it, `round`
and `calls` the two loops, `constraints` and `products` what the turn works
with, `last` what `conversation_context` will give to the next turn.  `Begin`
builds the prompt, `Measures` draws what the tokenizer counts, `Fitting`,
`Prune` and `TooLong` are the pruning loop, `Answer`, `Narrow` and `CallTools`
what the reply may be, `Search`, `Details`, `AskBack` and `BadCall` a tool
call, `AttemptFails` any exception.  A text is a kind of message; `origin` is
history: where the products at hand come from.

### CatalogJobs and CatalogFacts

`facts` and `manifest` are the files of the facts job, `metadata`, `approved`
and `templates` the tables of the SQLite file, `staging` and `output` the
directories of freeze, `job` each process.  `Ends` ends a job anywhere, for
whatever reason, with its transaction rolled back; `RemoveFacts` is the
operator.  `describe` reads the metadata row and inserts its own in two
actions, and asks the model between reading a template and committing one.
`Complete` is `_facts_metadata`, `Valid` is `validate_artifact`.

Nothing excludes two freezes of one output, and all of them use the same
`output.partial`.  `Freeze`, `CheckProgress`, `Stage` (makes the directory, or
takes the one that is there, and empties the products), `Fill` (a line at a
time), `CloseProducts`, `WriteManifest`, `Validate` and `Rename` of any jobs
interleave.  Each writer has its own position in the file of products, so that
two leave lines of both, gaps or torn lines (`Unreadable`), and a file that is
open stays open when another job renames its directory: such a writer goes on
in the frozen artifact.  `freezes` of a directory is history: the one that
emptied its products last, and those that were under way in it then.

`CatalogFacts` has no state.  `Generates(index, p)` says which products
`generate_facts` may draw for a line, `Validates(p)` what `_validate_product`
accepts; both are sets of ranges, in integers of the smallest unit drawn.

### BrowserOutbox

`outbox` is the entry in local storage, `tab` each tab: the step its
interaction awaits (`idle` is not busy), the submission it sends and the API's
reply to it, the buttons that can be used, the timer and what was rendered
last.  `polls` are the GETs of the tab's generation: the others return without
an effect and are not kept.  `late` are requests whose tab no longer waits.
`Connect`, `SessionReady`, `SessionFails` are `connect`; `Submit` the form and
"Try this question again"; `Receive` and `ReceiveLate` the API; `Accepted`,
`Rejected`, `PostFails` the three ends of `flushOutbox`; `Cancel`,
`Cancelled`, `CancelFails` the cancellation; `TimerFires`, `PollReads`,
`PollArrives`, `PollFails` are `refresh`; `Reload` closes a tab at any await.
`used`, `returned` and `overlap` are history.

## 5. Runs and bounds

Runs that pass (all reachable states, by breadth-first search):

| Run | States | What it shows |
|---|---|---|
| `safety` | 385,261 (up to symmetry) | Ownership, slots, attempts, answers, deadlines and reasons agree under crashes, hanging workers, renewals that the clock overtakes, cancellation, expiry and a breaker that opens, and the queue implements `QuestionLifecycle` |
| `liveness` | 387,652 | With two workers and two slots the breaker row is coherent and admits no more than a probe, and every question ends even if no worker ever claims or finishes anything |
| `admission` | 1,766,166 (up to symmetry) | Limits, ordering, deduplication and durability of acknowledged questions over two concurrent handlers and retention |
| `slots` | 649,528 (up to symmetry) | Slots are not oversold and follow their leases, statement by statement; a deadlock takes a batch of `expire` or a purge that a renewal overtook |
| `ingest` | 35,530 | Interrupted jobs over two releases never publish anything incomplete, never skip what is missing, and never let a search find a product without facts |
| `cache` | 2,342,472 (up to symmetry) | Two workers that store and evict at once, with a release that moves, expiry and a failing Qdrant: the cap, the size of an eviction, the answers |
| `conversation` | 152,463 | Three turns of any replies, prunings, searches and failed attempts: the prompt, the requirements, that every step brings the end of its attempt nearer, the end of every attempt |
| `jobs` | 1,576,389 (up to symmetry) | Five jobs, two at a time, also two freezes, that end anywhere, over facts that are removed and generated anew: templates, the source of descriptions, the artifact of a freeze that shared its directory with no other |
| `browser` | 1,482,016 (up to symmetry) | Two tabs that submit, cancel, ask again, poll and are reloaded at any await: the outbox, a way on, views that only advance |

Runs that end in a violation each check one sentence of the documents, see
section 8: `refused`, `retention`, `renewal`.  Expectations of the documents that
are refuted too, but have no run of their own, are kept as definitions at the
end of their modules.

Bounds and why they are enough for what is asked:

- `WorkQueue`: two questions and two workers make every pair of actors that can
  race: owner and successor, owner and canceller, probe and older attempt.
  `safety` has one slot, so that admissions are refused, two attempts, so that
  the budget can be spent by a failure and a crash, and threshold 2, so that
  the breaker opens.  A lifetime of 4 with leases of 2 lets a lease lapse and be
  taken over before the deadline, and a lease be cut by it; `MaxTime` 7 lets
  the second question be asked when the first one is due.  `liveness` has two
  slots, two workers and three attempts, for a probe beside an
  attempt from before the opening and a probe after a lost probe; it expires
  one question a call.  Submissions stop when the last deadline would be past
  `MaxTime`; the clock stops there.
- `Admission`: three conversations meet a limit of two pending questions, and
  one of them has two submission ids and, under one of these, two texts, for
  the duplicate and the conflict.  Two handlers, a retention batch of one and a
  window of one unit make each limit binding; `MaxTime` 2 lets the window move
  once.  One session is enough for the rate, as sessions do not interact.
- `SlotTransactions`: three questions that are due together, since a deadlock
  needs a batch of two and a claim, or two slots that lapse in two purges and
  the renewal of one of them; two slots for the budget, one for `renewal`;
  `MaxTime` 3 spans two leases and the deadlines.
- `CatalogIngest`: batches of two over a catalog of three products, so that a
  last batch is short; a second catalog of the same release that is shorter;
  another release that shares a product at another place.  Four jobs: load,
  interrupt, load the other, load again.  One job at a time, which is what
  `compose.yaml` runs.
- `SemanticCache`: two workers for a race of two evictions, three texts (two
  that may be reused, with different signatures, and one that may not) and two
  releases make four entries over a cap of one.  `MaxTime` 1 with a TTL of 0
  makes an entry old; one broken-off store is enough for one to be left over
  and made up for.
- `Conversation`: three rounds and two calls, as in the code, and two earlier
  turns of at most two in the prompt, so that the limit and the pruning both
  bind.  One value for each of two fields makes products that meet both, one
  or none; references that are one product, several and none.
- `CatalogJobs`: three products of two categories, so that one category has
  two; two jobs at a time in five starts reach facts, two interrupted describe
  jobs, facts again and freeze; two contents, two orders of sentences, two
  modes.  Four of the starts can be facts, describe and two freezes, which is
  what refutes `FrozenIsValid` of section 8.  `ManifestNamesProducts` is refuted
  with three jobs in four starts: one that freezes, and two that replace the
  facts under it, before and after it opens them again.  Two freezes that write
  lines of *different* contents into one file need six starts; the proofs cover
  them, the run does not.
- `BrowserOutbox`: two tabs, and three submissions, one of which the API
  refuses.  Two valid ones are needed for one tab to store the second while
  another still waits for the first.  Nothing else is bounded: tabs are
  reloaded, poll and fail without end.
- Deadlock is checked in all runs but `ingest`, `jobs` and `conversation`, where
  the number of jobs or turns is bounded and the system stops, and `slots` and
  `renewal`, where it stops when all questions are past their deadline and the
  clock at its bound (a deadlock of PostgreSQL is no stop: it breaks one of the
  transactions, and `DeadlocksHaveCause` is about it).  Elsewhere some
  step is always possible, also when the clock has reached `MaxTime`: a worker
  restarts, a request arrives.
- Symmetry is used in `safety`, `admission`, `slots`, `cache`, `jobs` and
  `browser`, of identifiers no definition orders, and never with a liveness
  property.

## 6. Fairness

`FairSpec` is `Spec` with weak fairness of `Tick`, as time passes, and of
`Expire`, as `maintenance.py` calls it every second for ever and its container
is restarted.  Of workers only one thing is assumed: a renewal that has begun
ends (weak fairness of `RenewCommits`; `HeartbeatStops` and `WorkerCrash` end it
too).  Its transaction holds the work row, which `expire` passes over, and asks
nobody: its statements follow one another, and a process that dies loses its
connection, upon which PostgreSQL rolls back.  A process that is suspended for
ever inside those statements, with its connection open, would keep `expire`
from that question, as `SKIP LOCKED` says; that is the assumption.  Otherwise
nothing is assumed of workers, browsers or replicas: `EveryQuestionEnds` holds
when they are all down.  It is checked with one question expired per call, the
least a call can do that does anything.

`FairSpec` of `Conversation` adds weak fairness of the steps of an attempt that
has begun: a worker goes on, and every exchange with the model and every call
to a store has a timeout, after which it raises.  Nothing is assumed of what
the model replies or the tokenizer counts: `AttemptEnds` follows from the
counters of the two loops, as `AttemptIsBounded` says without any fairness.

## 7. Proofs

`WorkQueue_proofs` proves, for any sets of questions and workers and any
limits allowed by `ConstantsAssumption` (positive budgets and durations):

| Theorem | Says |
|---|---|
| `TypeCorrect` | every column keeps its domain, rows that are not there are blank |
| `PendingHasWork` | a question has a work row exactly while it is pending |
| `SingleOwner` | the attempt on the work row is the newest and the only open one |
| `SlotsMatchOwners` | an unexpired slot is that of an owner and lapses with its lease, and an owner under an unexpired lease has its slot, unless a renewal of that lease was late |
| `InferenceBudget` | the owners under an unexpired lease, but for those whose renewal was late, are at most `SlotLimit` |
| `FirstOutcomeWins` | no step changes a terminal question |
| `ObsoleteAttemptsStaySo` | no step changes an attempt that has an outcome |
| `AnswersInTime` | an answer is saved before the deadline, by the owner of the work row, under its unexpired lease |

None of the last seven is inductive alone.  The invariant is built in layers,
each proved under the ones before it:

1. `TypeOK`: the domains, and that an absent row is blank.
2. `Ownership` = `WorkIffPending`, `Renewals` and `OneOwner`.  A claim makes a
   new owner; it takes a number that no open attempt has because the open
   attempt, if any, is the one it abandons.  `Renewals` says that the owner of a
   renewal under way stays the owner: the work row is locked (`LockedRows`).
3. `Slots` = `Ownership` and `SlotIffOwner`.  A purge deletes lapsed slots only;
   that the owner of a running lease keeps its slot needs both copies of its
   expiry to be equal, which `claim` keeps up, and a renewal when it is written
   before the old lease ends.  One that is written later may find no slot, or
   one that has lapsed and not been deleted; it marks its owner.
4. `SlotCount`: the rows of `inference_leases` are at most `SlotLimit`, because
   only `try_acquire` adds one, after counting.

`InferenceBudget` follows from 3 and 4: live owners that are not late have a
slot each.  The action properties need 1 and 2, by a lemma (`StepTouches`) that
says which rows a step can write at all.

A second part of the module goes on from there, under the same assumptions:

| Theorem | Says |
|---|---|
| `BreakerRowIsCoherent` | the breaker names a probe exactly while half open, and is not closed exactly after enough failures |
| `BreakerHoldsBack` | while it is not closed, a slot goes to a probe, after the pause and not beside another |
| `ReasonsAreTrue` | the recorded reason of an ending is what happened |
| `OneAnswer` | a completed question has one answer, its newest attempt's |
| `NothingOutlivesDeadline` | no lease, slot or backoff reaches past the deadline |
| `LedgerAgrees` | the counters of a question agree with the attempts table |
| `QueueImplementsLifecycle` | the queue implements `QuestionLifecycle` |

Each of the invariants is inductive under `TypeOK` and `Ownership`.  They share
lemmas on what a claim, a finish and an ending write to a question
(`ClaimQuestion`, `Finisher`, `FinishWrites`, `EndWrites`).  The ledger counts
the abandoned attempts as a finite set that grows by the owner a claim abandons.
`BreakerHoldsBack` needs that a slot appears in claims only
(`SlotsAppearInClaims`).  The refinement maps a claim to taking, setting aside
or ending the question, the end of an attempt to its completion, an ending or a
retry, and everything else to a stutter; it needs `StepTouches`, since spent
tokens must stay spent, and `OneAnswer`, since a failure blanks the column of
the answer.

`SlotTransactions_proofs` proves, for any number of questions and slots, and
statements of their transactions that interleave, wait and roll back:

| Theorem | Says |
|---|---|
| `SlotsAreCounted` | the table never holds more rows than there are slots |
| `SlotsFollowLeases` | a slot belongs to an owned question and lapses with its lease |
| `DeadlocksNeedCause` | a set of transactions that wait for one another has a batch of `expire` with two or more questions in it, or a purge one of whose slots was renewed after its snapshot |

The first two are what allows `WorkQueue` to take `try_acquire` as one step.  `SlotsAreCounted`
needs that a claim that was granted a slot has counted room without what it has
deleted, and is the only one (`Counted`): the lock on the control row excludes a
second one, and everybody else only takes slots away.  `SlotsFollowLeases` needs to know
that a claim that is refused has deleted the old slot of its own question
(`Sees`): it began with that slot in its scan, the slot had lapsed with the
lease, and the lock on the work row, which `expire` respects too (`Excluded`),
kept it from being renewed.

`DeadlocksNeedCause` is an argument about the order of locks, and `Locked` is
its invariant: the table has an order (`TableOrder`), so has each purge's
snapshot, and a purge has locked nothing beyond the slot it is at and takes the
control row after the last one (`InOrder`).  As long as none of its slots was
renewed since, the order of its snapshot is that of the table
(`InTableOrder`): deletions take rows out, insertions add rows it does not
visit.  No two transactions hold one row (`Apart`), and a batch of `expire`
holds what it has ended (`BatchLocks`).  So of several claims that wait and that
no renewal has overtaken, the one that holds the last slot in the order of the
table waits for none of them.  Renewals and releases wait with one slot at most,
or for the control row, whose holder waits for nothing; a batch of one question
is a release.  Inserting a slot must keep the order, wherever in the table
PostgreSQL puts it, while others are in the middle of a scan.  What remains is
a batch that keeps the control row and goes on to the next slot, and a purge
that waits for a slot at the place it had before its renewal, while a younger
purge has met it at its new one.

`CatalogIngest_proofs` proves, for any number of jobs at the same time, of
readers, releases, inputs and products, from `ConstantsAssumption`,
`NoFactsAssumption` and `BatchesAssumption`:

| Theorem | Says |
|---|---|
| `CheckpointsArePromises` | the facts of a checkpointed batch are stored, for every job that will skip it |
| `VectorsFollowFacts` | a point, and what a search returned, has its facts |

The inductive invariant adds that a running job has an input and that the
batches it does not have to do any more, up to the step it is at, have facts
(`Progressed`).  Without it `UpsertVectors` could store a point before its
facts.

Two more theorems are about jobs that run one at a time, which is a hypothesis
(`[]OneRuns`) because the code does not see to it: nothing in `ingest.py`
excludes a second job, only `compose.yaml` starts one.  Any number of jobs may
still follow one another, and die anywhere.

| Theorem | Says |
|---|---|
| `PublishesWhatIsComplete` | a release becomes ready only when searches of it find its catalog, whole and with its facts |
| `ReadyIsSpoiltByOthers` | a ready release loses vectors only to the job of another release |

The invariant (`AloneInv`) says that the release of a running job is
withdrawn, and that what the job has counted and scrolled is still what is
stored when it publishes (`Validated`).  The facts are only counted by the code:
as many products with facts as the catalog has places are all of them
(`AllStored`).

`Catalog_proofs` proves `GeneratedIsValid`: whatever `generate_facts` may
draw, for any line of a file of any length, `_validate_product` accepts.  The
ranges are written twice in the code, with steps, exceptions for mats and
dumbbells and rules between fields; the proof goes category by category for
attributes and profiles and field by field for the rest.

`Admission_proofs` proves, for any number of replicas and their threads, of
sessions, conversations and submissions, and any limits:

| Theorem | Says |
|---|---|
| `TypeCorrect` | tables and transactions keep their form |
| `OneQuestionPending` | a conversation has one pending question at most |
| `PendingLimitHolds`, `RateLimitHolds` | both limits hold over all replicas |
| `InsertsMeetNoRow` | two deliveries of one submission never both insert |
| `AcknowledgedIsSaved` | what was acknowledged is saved until its conversation expires |

The invariant (`SubmitInv`) says what each step of a transaction has
established and still holds when it inserts (`Known`): the row is absent, the
conversation has nothing pending, both counts are below their limits.  It is
kept because one transaction at a time is inside the advisory lock
(`Exclusive`), and everybody else only takes questions away or ends them; that
the counts are of finite sets is part of it, since the limits are on their
cardinalities.  Retention deletes a question that somebody is about to
acknowledge only with the expiry of its conversation, which
`AcceptedIsSaved` excepts.

`SemanticCache_proofs` proves, for any finite set of workers (the sizes that
the properties speak of have no meaning otherwise), any texts, releases and
cap:

| Theorem | Says |
|---|---|
| `CacheTypes` | entries, counts and what each worker has read keep their form |
| `CacheIsCapped` | the collection is above its cap only by stores under way and broken off |
| `EvictionsAreBounded` | an eviction deletes no more than workers and broken-off stores can have added |
| `AnswersSurvive` | an answer is reported whatever becomes of the attempt to store it |

Evictions that overlap delete entries chosen from different listings by counts
of different times, so that no sum over them bounds what is left.  The
invariant (`Evicts`) speaks of each one by itself: what it will not delete
(`Kept`) is at most what it leaves by its count, plus one for every store that
has not counted when it has, plus those broken off since (`MakesUp`).  Which
stores these are is not in the state, so the invariant says that there is such
an assignment `later`, in which of two evictions one has counted first
(`Ordered`).  The bound on the collection follows from the eviction that
counted last: when it has deleted what it chose, only later stores are left.

`Conversation_proofs` proves, for any catalog, requirements and limits:

| Theorem | Says |
|---|---|
| `TypeCorrect` | the prompt and what a turn works with keep their form |
| `PromptsAreWellFormed` | pruning takes whole turns, never the question or the evidence |
| `SearchesHonourRequirements` | products that a search found meet the recorded requirements |
| `AttemptsAreBounded` | no replies, counts of tokens or tool calls keep an attempt going: each step but the last lowers `StepsLeft` |

The property of the prompt speaks of prompts that are being measured.  The
invariant (`PromptInv`) also covers one that is being built: the instructions, `pairs`
turns, the question, then blocks of a reply and its results, of which the last
may still be due (`CallsDue`).  The property of a search needs what an answer
leaves to the next turn, also one that left only links (`SearchInv`).  The
bound needs that calls are under way only while another round is left
(`TypeInv`); with it `AttemptEnds` is a matter of fairness alone.

`BrowserOutbox_proofs` proves, for any number of tabs and submissions:

| Theorem | Says |
|---|---|
| `TypeCorrect` | tabs, outbox and the API's state keep their form |
| `SubmissionsSurvive` | a submission is kept until it is saved or given back, unless two tabs delivered at once |
| `TabsGoOn` | a tab that is not busy has exactly one way on |
| `ViewsOnlyAdvance` | what a tab shows never goes back to an older state |

The first needs to know that a tab that delivers sends what the outbox holds
(`OneDelivers`) and that an acknowledgement is of something saved
(`DeliveriesTracked`).  The second is kept up tab by tab.  The third needs that
what a poll has read is behind the API's state and not behind what its tab
shows, and that being ahead is transitive.

`Catalog_proofs` also proves, for any number of jobs at the same time, of
contents, products and starts:

| Theorem | Says |
|---|---|
| `TemplatesBind` | products of a category described with templates have one selection |
| `DescriptionsHaveOneSource` | while one row of metadata is recorded, all descriptions are of its model and mode |
| `ArtifactIsComplete` | the artifact of a freeze that shared its directory with no other has every product, with the description approved for it, and a manifest with its checksum |

The first holds since a product that was described with templates has the
template of its category and a template that is set never changes
(`TemplatesInv`); a job that holds a template has the one that is set.  The
second says of every description, and of every job that is past the check of the
metadata, that its source has a row (`SourcesInv`).

The third is about freezes that share `output.partial`, and what the code does
not exclude the invariant has to follow (`FreezeInv`): every freeze that uses a
directory, or still writes to its file of products, is recorded there
(`UsersInv`).  Of a freeze that is alone in its directory it says how far it
has come (`PreparedInv`): what it has written is a beginning of the products of
the facts it has opened, with texts that were approved and never change, and
when it renames, the directory is what it validated.  Freezes before it may have
died in the directory; it empties what they left.

Every safety and action property of the passing runs is a theorem, and so are
the type invariants, which no run repeats.  Checked by TLC only are `EveryQuestionEnds` and `AttemptEnds`: liveness under fairness is
out of reach of the proof system.

What the proofs of `InferenceBudget` and `SlotsMatchOwners` leave out are owners
whose renewal was late.  They are real: `renewal` shows that such an owner has no
slot, and that with it more owners have unexpired leases than there are slots;
see the next section.  `AnswersInTime` includes them: an owner of that kind
saves its answer under the lease of its work row, without a slot.

## 8. Where the code and its documents disagree

| Run or expectation | Where | What |
|---|---|---|
| `refused` | `work_queue.py:68` | The attempt is inserted before the slot is asked for.  After a refusal its number is taken but not counted, so the next claim of the question breaks the unique key and ends the worker process |
| `ClosesOnProbeSuccess` | `inference_control.py:63` | Any report but a transient failure closes the breaker: a cancellation, an expiry, an attempt from before the opening, and the transient failure of a probe that is its question's last attempt |
| `ProbeAfterPause` | `inference_control.py:36` | When a probe is lost, the call that reopens the breaker goes on with the old opening time and admits the next probe without the pause |
| `retention` | `retention.py:29` | The check for pending questions is made in a snapshot, before the lock; a question accepted in between is deleted |
| `renewal` | `work_queue.py:110` | A claim deletes the slot of a renewal that is under way; `renew` does not look at the row count of its last UPDATE, and two owners share a slot |
| `ServedIsComplete` | `vector_store.py:36` | Points of all releases share their numbers: loading a release destroys the ready one's, and a worker may search a release that was never published |
| `ExpiredIsEmpty` | `store.py:71` | `submit` accepts questions to an expired conversation; they can be neither read nor removed |
| | `ingest.py:43` | A failed upsert sets the release to failed; `README.md:43` says it stays loading |
| `ReusedWithinRelease` | `semantic_cache.py:122` | `put` reads the release after the inference, so that an answer from one release is reused in the next |
| | `semantic_cache.py:121` | The first read of `put` is before its `try`: if it fails, an answer that was generated becomes a permanent failure |
| `RequirementsPersist` | `conversation.py:135` | An answer without products, and one that asks to narrow the question, leave no context behind: the requirements are forgotten |
| `FrozenIsValid` | `catalog_jobs.py:319` | Two freezes share `output.partial`: one validates, the other empties the products, the first renames them.  The frozen artifact is not what was validated, and stays so if the second dies |
| `ManifestNamesProducts` | `catalog_jobs.py:304` | `describe` and `freeze` check the facts and open them again: the artifact may have the products of one file under the profile, seed and checksum of another |
| `OneRow` | `catalog_jobs.py:241` | Two describe jobs that start on an empty progress both insert their metadata, and their descriptions mix |
| `OutboxIsKept` | `app.js:118` | An acknowledgement removes whatever the outbox holds, also what another tab has stored since |

The passing runs take the code as it is, with these behaviours in it.

## 9. What is not modelled

- *Reads and operations pages*: single transactions that change nothing, and
  layout.
- *Migrations*: one transaction under an advisory lock before anything else
  starts; the tables they create are the variables here.
- *Embedding, matching of texts, the sentences of descriptions*: pure functions
  on data, floating point in part.
- *Model providers*: their HTTP calls are reduced to an answer, a transient
  error and any other error, and to a count of tokens.
- *The cancel endpoint* authorizes a question and cancels it in two
  transactions; what retention deletes in between, the second does not find,
  and `WorkQueue` has its cancellation.
- *Tracing, logging, the evaluation script*: no effect on the state.
- Within what is modelled: the contents of answers, facts and vectors, the
  dimension check of the collection, pages of a scroll, session cookies, the
  creation of a conversation by a tab.

## 10. Plan

The order follows what would hurt most if it were wrong.

1. Done: all modules of section 3, and the proofs of every safety and action
   property that a passing run checks.
2. Next, to be proved: that `SlotTransactions` implements the slots of
   `WorkQueue`, where a renewal maps to its check and its writes.
3. The browser over the interface of `Admission`, in place of the API's part of
   `BrowserOutbox`.
4. The hazards without a property: a submission that waits out the expiry of
   its conversation (`ExpiredIsEmpty`), a release that is used again for other
   contents, an entry stored under the next release (`ReusedWithinRelease`).
   The code allows all three; a property would have to say what still holds.
