----------------------------- MODULE SemanticCache -----------------------------
(***************************************************************************)
(* The reuse of answers: lookup and put of shop/semantic_cache.py between  *)
(* the claim and the report of process_one (shop/worker.py), and           *)
(* expire_cache of shop/retention.py.                                      *)
(*                                                                         *)
(* The entries are points of one Qdrant collection and are read, stored,   *)
(* counted, listed and deleted by separate calls.  Meanwhile other workers *)
(* do the same, maintenance deletes what is old, ingestion moves the       *)
(* release, any call may fail with or without effect, and workers die.     *)
(*                                                                         *)
(* Left out: the similarity of questions (any entry may be proposed), the  *)
(* identities of models and prompts (the same in every process), the       *)
(* check that the products of an answer exist (facts are never deleted),   *)
(* and a collection of another dimension.                                  *)
(***************************************************************************)
EXTENDS Integers, FiniteSetsExt

CONSTANTS
  Workers,     \* worker processes
  Questions,   \* texts that are asked
  Reusable,    \* those asked first in a conversation that may be answered from the cache
  Signature,   \* the categories and numbers in a text
  MaxEntries,  \* CACHE_MAX_ENTRIES
  PageLimit,   \* how many entries expire_cache looks at, 10,000
  TTL,         \* CACHE_TTL_DAYS
  LastRelease, \* bound of the model: releases
  MaxTime,     \* bound of the model: the clock
  MaxFaults    \* bound of the model: stores that are broken off

ASSUME ConstantsAssumption ==
  /\ IsFiniteSet(Workers)
  /\ Reusable \subseteq Questions
  /\ DOMAIN Signature = Questions
  /\ MaxEntries \in Nat \ {0}
  /\ PageLimit \in Nat \ {0}
  /\ TTL \in Nat
  /\ {LastRelease, MaxTime, MaxFaults} \subseteq Nat

NoRelease == 0

\* The id of a point is a hash of the release and the text.
Keys == (1..LastRelease) \X Questions

VARIABLES
  now,        \* the clocks of all processes
  release,    \* what product_search_release returns
  entries,    \* the collection: when each entry was created, and from which release
  caller,     \* each worker between its claim and its report
  sweep,      \* what expire_cache is about to delete, or that it does not run
  brokenOff,  \* history: how many stores ended without their eviction
  settled     \* history: how many of these a later eviction has counted

vars == <<now, release, entries, caller, sweep, brokenOff, settled>>

-------------------------------------------------------------------------------
(* The collection *)

NoEntry == [created |-> -1, foundIn |-> NoRelease]

Stored == {k \in Keys : entries[k] # NoEntry}

\* What a scroll that is limited to n entries may return.
Pages(n) == {page \in SUBSET Stored : Cardinality(page) = Min({n, Cardinality(Stored)})}

Without(ks) == [k \in Keys |-> IF k \in ks THEN NoEntry ELSE entries[k]]

\* The n entries of a page that were created first; ties are in any order.
Oldest(page, n) ==
  {ks \in SUBSET page :
     /\ Cardinality(ks) = Min({n, Cardinality(page)})
     /\ \A k \in ks, l \in page \ ks : entries[k].created <= entries[l].created}

\* The entry may answer the worker's question.
Compatible(w, k) ==
  /\ k[1] = caller[w].release
  /\ Signature[k[2]] = Signature[caller[w].question]
  /\ entries[k].created >= now - TTL

Stale(k) == entries[k].created < now - TTL

-------------------------------------------------------------------------------
(* The workers *)

NoText == "none"

Steps ==
  {"idle", "lookup", "query", "generate", "put", "store", "count", "scroll", "delete", "report"}

\* Between the upsert and the end of the eviction.
StoringSteps == {"count", "scroll", "delete"}

\* release: what the lookup, and later the store, has read; foundIn: the one the
\* answer is from; created: the time of the entry; count, seen: what the eviction
\* has counted, and brokenOff at that moment.  A field is reset after its last use.
Idle == [step |-> "idle", question |-> NoText, release |-> NoRelease, answered |-> FALSE,
         foundIn |-> NoRelease, created |-> 0, count |-> 0, seen |-> 0, victims |-> {}]

At(w, step) == caller[w].step = step

Init ==
  /\ now = 0
  /\ release = NoRelease
  /\ entries = [k \in Keys |-> NoEntry]
  /\ caller = [w \in Workers |-> Idle]
  /\ sweep = {}
  /\ brokenOff = 0
  /\ settled = 0

Goes(w, step) == caller' = [caller EXCEPT ![w].step = step]

\* What is left of a call when its worker goes on to the report.
Reporting(answered) == [Idle EXCEPT !.step = "report", !.answered = answered]

Reports(w, answered) == caller' = [caller EXCEPT ![w] = Reporting(answered)]

NoHistory == UNCHANGED <<brokenOff, settled>>

OthersKept == UNCHANGED <<now, release, sweep>>

\* A worker claims a question.
Take(w) ==
  /\ At(w, "idle")
  /\ \E q \in Questions :
       caller' = [caller EXCEPT ![w] = [Idle EXCEPT !.step = "lookup", !.question = q]]
  /\ OthersKept /\ NoHistory /\ UNCHANGED entries

\* lookup: the release; a text that may not be reused is not looked up.
LookUp(w) ==
  /\ At(w, "lookup")
  /\ IF release # NoRelease /\ caller[w].question \in Reusable
     THEN caller' = [caller EXCEPT ![w].step = "query", ![w].release = release]
     ELSE Goes(w, "generate")
  /\ OthersKept /\ NoHistory /\ UNCHANGED entries

\* lookup: the entries come with the answer of the query, so that nothing that
\* happens to them later counts.
Reuse(w) ==
  /\ At(w, "query")
  /\ \E k \in Stored : Compatible(w, k)
  /\ Reports(w, TRUE)
  /\ OthersKept /\ NoHistory /\ UNCHANGED entries

\* lookup: no entry is proposed that may be used, or Qdrant fails.
Miss(w) ==
  /\ At(w, "query")
  /\ caller' = [caller EXCEPT ![w].step = "generate", ![w].release = NoRelease]
  /\ OthersKept /\ NoHistory /\ UNCHANGED entries

\* The model answers from the catalog it finds, and names products.
Generate(w) ==
  /\ At(w, "generate")
  /\ caller' = [caller EXCEPT ![w].step = "put", ![w].answered = TRUE, ![w].foundIn = release]
  /\ OthersKept /\ NoHistory /\ UNCHANGED entries

\* A transient or any other error of the provider, or of the reads before it.
GenerateFails(w) ==
  /\ \/ At(w, "lookup")
     \/ At(w, "generate")
  /\ Reports(w, FALSE)
  /\ OthersKept /\ NoHistory /\ UNCHANGED entries

\* put: the release once more, and the time of the entry.
Put(w) ==
  /\ At(w, "put")
  /\ release # NoRelease /\ caller[w].question \in Reusable
  /\ caller' = [caller EXCEPT ![w].step = "store", ![w].release = release, ![w].created = now]
  /\ OthersKept /\ NoHistory /\ UNCHANGED entries

\* put: nothing to store, as the text may not be reused, no product is named,
\* or a read or Qdrant fails before the upsert.
PutNothing(w) ==
  /\ \/ At(w, "put")
     \/ At(w, "store")
  /\ Reports(w, TRUE)
  /\ OthersKept /\ NoHistory /\ UNCHANGED entries

\* The first read of put is outside its try: process_one takes the exception
\* for a failure of the inference.
PutUnreadable(w) ==
  /\ At(w, "put")
  /\ Reports(w, FALSE)
  /\ OthersKept /\ NoHistory /\ UNCHANGED entries

WithEntry(w) ==
  [entries EXCEPT ![<<caller[w].release, caller[w].question>>] =
     [created |-> caller[w].created, foundIn |-> caller[w].foundIn]]

Store(w) ==
  /\ At(w, "store")
  /\ entries' = WithEntry(w)
  /\ caller' = [caller EXCEPT ![w] = [Idle EXCEPT !.step = "count", !.answered = TRUE]]
  /\ OthersKept /\ NoHistory

\* Variant of Excess: one entry more than the cap is kept.
ExcessButOne(n) == Max({n - 1 - MaxEntries, 0})

\* Variant of Excess: all of them go.
ExcessAll(n) == IF n > MaxEntries THEN n ELSE 0

\* How many entries a count finds beyond the cap.
Excess(n) == Max({n - MaxEntries, 0})

\* put: the count; without an excess it is done.
Count(w) ==
  /\ At(w, "count")
  /\ LET n == Cardinality(Stored) IN
     IF Excess(n) = 0
     THEN /\ Reports(w, TRUE)
          /\ settled' = brokenOff
     ELSE /\ caller' = [caller EXCEPT ![w].step = "scroll", ![w].count = n, ![w].seen = brokenOff]
          /\ UNCHANGED settled
  /\ OthersKept /\ UNCHANGED <<entries, brokenOff>>

\* put: as many entries as were counted, and of these the oldest.
Scroll(w) ==
  /\ At(w, "scroll")
  /\ \E page \in Pages(caller[w].count) : \E ks \in Oldest(page, Excess(caller[w].count)) :
       caller' = [caller EXCEPT ![w].step = "delete", ![w].count = 0, ![w].victims = ks]
  /\ OthersKept /\ NoHistory /\ UNCHANGED entries

Delete(w) ==
  /\ At(w, "delete")
  /\ entries' = Without(caller[w].victims)
  /\ Reports(w, TRUE)
  /\ settled' = Max({settled, caller[w].seen})
  /\ OthersKept /\ UNCHANGED brokenOff

\* Variant of StoreFailed: the exception reaches process_one.
StoreFailedLoudly == Reporting(FALSE)

\* An exception after the upsert was sent is swallowed.
StoreFailed == Reporting(TRUE)

\* A call of put fails, the upsert and the deletion possibly with effect; what
\* was stored is left without its eviction.
PutFails(w) ==
  /\ brokenOff < MaxFaults
  /\ \/ At(w, "store") /\ entries' = WithEntry(w)
     \/ caller[w].step \in StoringSteps /\ UNCHANGED entries
     \/ At(w, "delete") /\ entries' = Without(caller[w].victims)
  /\ caller' = [caller EXCEPT ![w] = StoreFailed]
  /\ brokenOff' = brokenOff + 1
  /\ OthersKept /\ UNCHANGED settled

\* finish, with the answer or the failure.
Report(w) ==
  /\ At(w, "report")
  /\ caller' = [caller EXCEPT ![w] = Idle]
  /\ OthersKept /\ NoHistory /\ UNCHANGED entries

Crash(w) ==
  /\ ~At(w, "idle")
  /\ caller[w].step \in StoringSteps => brokenOff < MaxFaults
  /\ brokenOff' = IF caller[w].step \in StoringSteps THEN brokenOff + 1 ELSE brokenOff
  /\ caller' = [caller EXCEPT ![w] = Idle]
  /\ OthersKept /\ UNCHANGED <<entries, settled>>

-------------------------------------------------------------------------------
(* Maintenance, ingestion and time *)

\* expire_cache: the entries of one page that are old.
SweepFinds ==
  /\ sweep = {}
  /\ \E page \in Pages(PageLimit) : sweep' = {k \in page : Stale(k)}
  /\ sweep' # {}
  /\ NoHistory /\ UNCHANGED <<now, release, entries, caller>>

\* expire_cache: they are deleted by their ids, which may have been stored anew.
SweepDeletes ==
  /\ sweep # {}
  /\ entries' = Without(sweep)
  /\ sweep' = {}
  /\ NoHistory /\ UNCHANGED <<now, release, caller>>

\* The deletion fails without effect, or maintenance dies.
SweepFails ==
  /\ sweep # {}
  /\ sweep' = {}
  /\ NoHistory /\ UNCHANGED <<now, release, entries, caller>>

\* Another release is the first of catalog_status.
ReleaseMoves ==
  /\ release < LastRelease
  /\ release' = release + 1
  /\ NoHistory /\ UNCHANGED <<now, entries, caller, sweep>>

Tick ==
  /\ now < MaxTime
  /\ now' = now + 1
  /\ NoHistory /\ UNCHANGED <<release, entries, caller, sweep>>

WorkerStep(w) ==
  \/ Take(w) \/ LookUp(w) \/ Reuse(w) \/ Miss(w) \/ Generate(w) \/ GenerateFails(w)
  \/ Put(w) \/ PutNothing(w) \/ PutUnreadable(w)
  \/ Store(w) \/ Count(w) \/ Scroll(w) \/ Delete(w) \/ PutFails(w)
  \/ Report(w) \/ Crash(w)

Next ==
  \/ \E w \in Workers : WorkerStep(w)
  \/ SweepFinds \/ SweepDeletes \/ SweepFails
  \/ ReleaseMoves \/ Tick

Spec == Init /\ [][Next]_vars

-------------------------------------------------------------------------------
(* Properties *)

Calls ==
  [step : Steps, question : Questions \cup {NoText}, release : 0..LastRelease,
   answered : BOOLEAN, foundIn : 0..LastRelease, created : 0..MaxTime,
   count : Nat, seen : 0..MaxFaults, victims : SUBSET Keys]

\* The variables keep their domains.
TypeOK ==
  /\ now \in 0..MaxTime
  /\ release \in 0..LastRelease
  /\ entries \in [Keys -> [created : -1..MaxTime, foundIn : 0..LastRelease]]
  /\ caller \in [Workers -> Calls]
  /\ sweep \in SUBSET Keys
  /\ settled \in 0..MaxFaults
  /\ brokenOff \in settled..MaxFaults

StoringNow == {w \in Workers : caller[w].step \in StoringSteps}

\* The collection is above its cap by no more than the stores that are under
\* way and those that were broken off since the last eviction that was not: an
\* eviction makes up for everything before its count, though it deletes, by
\* ids from a later and possibly other listing, what others delete, replace or
\* add at the same time.
CacheWithinCap ==
  Cardinality(Stored) <= MaxEntries + Cardinality(StoringNow) + (brokenOff - settled)

\* No eviction is out for more entries than the stores that were under way
\* with it, and broken off before it, can have added: evictions that count the
\* same excess together delete too much, but each of them only so much.
EvictionIsBounded ==
  \A w \in Workers : Cardinality(caller[w].victims) <= Cardinality(Workers) + caller[w].seen

\* An answer that was generated is reported, whatever becomes of the attempt
\* to store it: it is lost only with its worker, or if the database cannot be
\* read before anything is stored.
AnswerSurvivesCache ==
  [][\A w \in Workers :
       caller[w].answered /\ ~caller'[w].answered => caller'[w] = Idle \/ At(w, "put")]_vars

\* Expectation, refuted by TLC: an answer is reused only in the release it was
\* found in.  put reads the release again after the inference.
ReusedWithinRelease ==
  \A k \in Stored : entries[k].foundIn = k[1]
=============================================================================
