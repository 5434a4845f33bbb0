------------------------- MODULE SemanticCache_proofs -------------------------
(***************************************************************************)
(* Theorems about SemanticCache, for any number of workers, questions and  *)
(* releases, whatever is stored, evicted, swept or broken off meanwhile.   *)
(***************************************************************************)
EXTENDS SemanticCache, FiniteSetTheorems, TLAPS

EvictingSteps == {"scroll", "delete"}

\* The workers that have counted and are about to evict what they have counted.
Evicting == {w \in Workers : caller[w].step \in EvictingSteps}

\* What a worker's eviction does not delete: everything until it has chosen.
Kept(w) == Stored \ caller[w].victims

\* How many entries that may be, by the worker's count: its choice leaves as
\* many as the cap.
Target(w) == IF At(w, "delete") THEN MaxEntries ELSE caller[w].count

\* later[w] are the storing workers that have not counted when w has.  Of two
\* workers one has counted first: the other one is later, and so are all that
\* are later than the other.
CountedFirst(later, u, w) ==
  /\ {w} \cup later[w] \subseteq later[u]
  /\ caller[u].seen <= caller[w].seen

Ordered(later) ==
  /\ later \in [Workers -> SUBSET StoringNow]
  /\ \A u \in Evicting :
       /\ u \notin later[u]
       /\ StoringNow \ Evicting \subseteq later[u]
       /\ \A w \in Evicting \ {u} : CountedFirst(later, u, w) \/ CountedFirst(later, w, u)

\* An eviction, with the later stores and those that were broken off since its
\* count or since the last one that was settled, makes up for all entries.
MakesUp(later, u) ==
  \A since \in {settled, caller[u].seen} :
    Cardinality(Kept(u)) <= Target(u) + Cardinality(later[u]) + (brokenOff - since)

\* The eviction of a worker is out for what it has counted beyond the cap.
Bounded(w) ==
  /\ caller[w].seen <= brokenOff
  /\ At(w, "scroll") =>
       /\ caller[w].count > MaxEntries
       /\ Excess(caller[w].count) <= Cardinality(Workers) + caller[w].seen
  /\ IF At(w, "delete")
     THEN Cardinality(caller[w].victims) <= Cardinality(Workers) + caller[w].seen
     ELSE caller[w].victims = {}

Evicts ==
  /\ IsFiniteSet(Stored)
  /\ CacheWithinCap
  /\ \A w \in Workers : Bounded(w)
  /\ \E later : Ordered(later) /\ \A u \in Evicting : MakesUp(later, u)

-------------------------------------------------------------------------------
(* Sizes of finite sets, and the larger and the smaller of two numbers *)

LEMMA SmallerSet ==
  ASSUME NEW S, IsFiniteSet(S), NEW T, T \subseteq S
  PROVE  /\ IsFiniteSet(T)
         /\ Cardinality(T) \in Nat /\ Cardinality(S) \in Nat
         /\ Cardinality(T) <= Cardinality(S)
  BY FS_Subset, FS_CardinalityType

LEMMA WithoutOne ==
  ASSUME NEW S, IsFiniteSet(S), NEW x
  PROVE  /\ IsFiniteSet(S \ {x})
         /\ Cardinality(S \ {x}) \in Nat /\ Cardinality(S) \in Nat
         /\ Cardinality(S) <= Cardinality(S \ {x}) + 1
<1>1. IsFiniteSet(S \ {x}) /\ Cardinality(S) \in Nat /\ Cardinality(S \ {x}) \in Nat
  BY FS_RemoveElement, FS_CardinalityType
<1> QED
  BY <1>1, FS_RemoveElement

LEMMA WithOne ==
  ASSUME NEW S, IsFiniteSet(S), NEW x, NEW T, T \subseteq S \cup {x}
  PROVE  /\ IsFiniteSet(T)
         /\ Cardinality(T) \in Nat /\ Cardinality(S) \in Nat
         /\ Cardinality(T) <= Cardinality(S) + 1
<1>0. Cardinality(S) \in Nat
  BY FS_CardinalityType
<1>1. /\ IsFiniteSet(S \cup {x})
      /\ Cardinality(S \cup {x}) <= Cardinality(S) + 1
  BY <1>0, FS_AddElement
<1>2. /\ IsFiniteSet(T) /\ Cardinality(T) \in Nat
      /\ Cardinality(S \cup {x}) \in Nat /\ Cardinality(T) <= Cardinality(S \cup {x})
  BY <1>1, SmallerSet
<1> QED
  BY <1>0, <1>1, <1>2

LEMMA LargerOfTwo ==
  ASSUME NEW a \in Int, NEW b \in Int
  PROVE  Max({a, b}) \in {a, b} /\ Max({a, b}) >= a /\ Max({a, b}) >= b
<1>1. \E x \in {a, b} : \A y \in {a, b} : x >= y
  OBVIOUS
<1> QED
  BY <1>1 DEF Max

LEMMA SmallerOfTwo ==
  ASSUME NEW a \in Int, NEW b \in Int
  PROVE  Min({a, b}) \in {a, b} /\ Min({a, b}) <= a /\ Min({a, b}) <= b
<1>1. \E x \in {a, b} : \A y \in {a, b} : x =< y
  OBVIOUS
<1> QED
  BY <1>1 DEF Min

LEMMA ExcessOf ==
  ASSUME NEW n \in Nat
  PROVE  Excess(n) = IF n > MaxEntries THEN n - MaxEntries ELSE 0
<1>1. n - MaxEntries \in Int /\ MaxEntries \in Nat
  BY ConstantsAssumption
<1>2. /\ Max({n - MaxEntries, 0}) \in {n - MaxEntries, 0}
      /\ Max({n - MaxEntries, 0}) >= n - MaxEntries /\ Max({n - MaxEntries, 0}) >= 0
  BY <1>1, LargerOfTwo
<1> QED
  BY <1>1, <1>2 DEF Excess

-------------------------------------------------------------------------------
(* What the steps do to the caller of one worker *)

\* Only the call of w changes, to r.
Becomes(w, r) ==
  /\ r \in Calls
  /\ caller' \in [Workers -> Calls]
  /\ caller'[w] = r
  /\ \A v \in Workers \ {w} : caller'[v] = caller[v]

LEMMA CallerSet ==
  ASSUME TypeOK, NEW w \in Workers, NEW r \in Calls, caller' = [caller EXCEPT ![w] = r]
  PROVE  Becomes(w, r)
  BY DEF TypeOK, Becomes

LEMMA Constants ==
  /\ MaxEntries \in Nat /\ MaxEntries > 0
  /\ LastRelease \in Nat /\ MaxTime \in Nat /\ MaxFaults \in Nat
  BY ConstantsAssumption

LEMMA IdleType ==
  /\ Idle \in Calls /\ Idle.step = "idle" /\ Idle.answered = FALSE
  /\ Idle.victims = {} /\ Idle.seen = 0
  BY Constants DEF Idle, Calls, Steps, NoText, NoRelease

LEMMA ReportingType ==
  ASSUME NEW answered \in BOOLEAN
  PROVE  /\ Reporting(answered) \in Calls
         /\ Reporting(answered).step = "report" /\ Reporting(answered).answered = answered
         /\ Reporting(answered).victims = {} /\ Reporting(answered).seen = 0
  BY IdleType DEF Reporting, Idle, Calls, Steps

\* A call that has not come to an answer has none.
Unanswered(w) == caller[w].step \in {"idle", "lookup", "query", "generate"} => ~caller[w].answered

\* An answer stays, and belongs to a call that has generated or found one.
KeepsAnswer(w, r) ==
  /\ r.step \in {"idle", "lookup", "query", "generate"} => ~r.answered
  /\ caller[w].answered /\ ~r.answered => r = Idle \/ At(w, "put")

\* The steps before the upsert and after the eviction.
Passes(w) ==
  \/ Take(w) \/ LookUp(w) \/ Reuse(w) \/ Miss(w) \/ Generate(w) \/ GenerateFails(w)
  \/ Put(w) \/ PutNothing(w) \/ PutUnreadable(w) \/ Report(w)
  \/ (Crash(w) /\ w \notin StoringNow)

LEMMA PassesEffect ==
  ASSUME TypeOK, NEW w \in Workers, Unanswered(w), Passes(w)
  PROVE  /\ UNCHANGED <<now, release, sweep, entries, brokenOff, settled>>
         /\ w \notin StoringNow
         /\ \E r : /\ Becomes(w, r) /\ r.step \notin StoringSteps /\ KeepsAnswer(w, r)
                   /\ r.victims \in {{}, caller[w].victims} /\ r.seen \in {0, caller[w].seen}
<1> DEFINE c == caller[w]
           Fits(r) == /\ r \in Calls /\ r.step \notin StoringSteps /\ KeepsAnswer(w, r)
                      /\ r.victims \in {{}, c.victims} /\ r.seen \in {0, c.seen}
<1>c. c \in Calls /\ {release, NoRelease} \subseteq 0..LastRelease /\ now \in 0..MaxTime
  BY Constants DEF TypeOK, NoRelease
<1>s. ASSUME c.step \notin StoringSteps PROVE w \notin StoringNow
  BY <1>s DEF StoringNow
<1>f. ASSUME NEW r, Fits(r), caller' = [caller EXCEPT ![w] = r]
      PROVE  \E x : Becomes(w, x) /\ Fits(x)
  BY <1>f, CallerSet
<1>r. Fits(Reporting(TRUE)) /\ Fits(Idle)
  BY IdleType, ReportingType DEF StoringSteps, KeepsAnswer
<1>1. CASE Take(w)
  <2>1. PICK q \in Questions :
          caller' = [caller EXCEPT ![w] = [Idle EXCEPT !.step = "lookup", !.question = q]]
    BY <1>1 DEF Take
  <2> DEFINE r == [Idle EXCEPT !.step = "lookup", !.question = q]
  <2>2. /\ r \in Calls /\ r.step = "lookup" /\ ~r.answered
        /\ r.victims = {} /\ r.seen = 0
    BY IdleType DEF Idle, Calls, Steps
  <2>3. ~c.answered /\ c.step \notin StoringSteps
    BY <1>1 DEF Take, At, Unanswered, StoringSteps
  <2>4. Fits(r)
    BY <2>2, <2>3 DEF StoringSteps, KeepsAnswer
  <2> HIDE DEF r, Fits
  <2>5. \E x : Becomes(w, x) /\ Fits(x)
    BY <1>f, <2>1, <2>4 DEF r
  <2>6. UNCHANGED <<now, release, sweep, entries, brokenOff, settled>>
    BY <1>1 DEF Take, OthersKept, NoHistory
  <2> QED
    BY <1>s, <2>3, <2>5, <2>6 DEF Fits
<1>2. CASE LookUp(w) /\ caller' = [caller EXCEPT ![w].step = "query", ![w].release = release]
  <2> DEFINE r == [c EXCEPT !.step = "query", !.release = release]
  <2>1. /\ r \in Calls /\ r.step = "query" /\ r.answered = c.answered
        /\ r.victims = c.victims /\ r.seen = c.seen
    BY <1>c DEF Calls, Steps
  <2>2. caller' = [caller EXCEPT ![w] = r]
    BY <1>2 DEF LookUp, TypeOK
  <2>3. /\ c.step = "lookup"
        /\ UNCHANGED <<now, release, sweep, entries, brokenOff, settled>>
    BY <1>2 DEF LookUp, At, OthersKept, NoHistory
  <2> HIDE DEF r
  <2>4. Fits(r)
    BY <2>1, <2>3 DEF StoringSteps, KeepsAnswer, Unanswered
  <2> HIDE DEF Fits
  <2>5. \E x : Becomes(w, x) /\ Fits(x)
    BY <1>f, <2>2, <2>4
  <2> QED
    BY <1>s, <2>3, <2>5 DEF Fits, StoringSteps
<1>3. CASE LookUp(w) /\ Goes(w, "generate")
  <2> DEFINE r == [c EXCEPT !.step = "generate"]
  <2>1. /\ r \in Calls /\ r.step = "generate" /\ r.answered = c.answered
        /\ r.victims = c.victims /\ r.seen = c.seen
    BY <1>c DEF Calls, Steps
  <2>2. caller' = [caller EXCEPT ![w] = r]
    BY <1>3 DEF LookUp, Goes, TypeOK
  <2>3. /\ c.step = "lookup"
        /\ UNCHANGED <<now, release, sweep, entries, brokenOff, settled>>
    BY <1>3 DEF LookUp, Goes, At, OthersKept, NoHistory
  <2> HIDE DEF r
  <2>4. Fits(r)
    BY <2>1, <2>3 DEF StoringSteps, KeepsAnswer, Unanswered
  <2> HIDE DEF Fits
  <2>5. \E x : Becomes(w, x) /\ Fits(x)
    BY <1>f, <2>2, <2>4
  <2> QED
    BY <1>s, <2>3, <2>5 DEF Fits, StoringSteps
<1>4. CASE Miss(w)
  <2> DEFINE r == [c EXCEPT !.step = "generate", !.release = NoRelease]
  <2>1. /\ r \in Calls /\ r.step = "generate" /\ r.answered = c.answered
        /\ r.victims = c.victims /\ r.seen = c.seen
    BY <1>c DEF Calls, Steps
  <2>2. caller' = [caller EXCEPT ![w] = r]
    BY <1>4 DEF Miss, TypeOK
  <2>3. /\ c.step = "query"
        /\ UNCHANGED <<now, release, sweep, entries, brokenOff, settled>>
    BY <1>4 DEF Miss, At, OthersKept, NoHistory
  <2> HIDE DEF r
  <2>4. Fits(r)
    BY <2>1, <2>3 DEF StoringSteps, KeepsAnswer, Unanswered
  <2> HIDE DEF Fits
  <2>5. \E x : Becomes(w, x) /\ Fits(x)
    BY <1>f, <2>2, <2>4
  <2> QED
    BY <1>s, <2>3, <2>5 DEF Fits, StoringSteps
<1>5. CASE Generate(w)
  <2> DEFINE r == [c EXCEPT !.step = "put", !.answered = TRUE, !.foundIn = release]
  <2>1. /\ r \in Calls /\ r.step = "put" /\ r.answered = TRUE
        /\ r.victims = c.victims /\ r.seen = c.seen
    BY <1>c DEF Calls, Steps
  <2>2. caller' = [caller EXCEPT ![w] = r]
    BY <1>5 DEF Generate, TypeOK
  <2>3. /\ c.step = "generate"
        /\ UNCHANGED <<now, release, sweep, entries, brokenOff, settled>>
    BY <1>5 DEF Generate, At, OthersKept, NoHistory
  <2> HIDE DEF r
  <2>4. Fits(r)
    BY <2>1, <2>3 DEF StoringSteps, KeepsAnswer, Unanswered
  <2> HIDE DEF Fits
  <2>5. \E x : Becomes(w, x) /\ Fits(x)
    BY <1>f, <2>2, <2>4
  <2> QED
    BY <1>s, <2>3, <2>5 DEF Fits, StoringSteps
<1>6. CASE Put(w)
  <2> DEFINE r == [c EXCEPT !.step = "store", !.release = release, !.created = now]
  <2>1. /\ r \in Calls /\ r.step = "store" /\ r.answered = c.answered
        /\ r.victims = c.victims /\ r.seen = c.seen
    BY <1>c DEF Calls, Steps
  <2>2. caller' = [caller EXCEPT ![w] = r]
    BY <1>6 DEF Put, TypeOK
  <2>3. /\ c.step = "put"
        /\ UNCHANGED <<now, release, sweep, entries, brokenOff, settled>>
    BY <1>6 DEF Put, At, OthersKept, NoHistory
  <2> HIDE DEF r
  <2>4. Fits(r)
    BY <2>1, <2>3 DEF StoringSteps, KeepsAnswer, Unanswered
  <2> HIDE DEF Fits
  <2>5. \E x : Becomes(w, x) /\ Fits(x)
    BY <1>f, <2>2, <2>4
  <2> QED
    BY <1>s, <2>3, <2>5 DEF Fits, StoringSteps
<1>7. CASE GenerateFails(w) \/ PutUnreadable(w)
  <2>1. /\ c.step \notin StoringSteps /\ caller' = [caller EXCEPT ![w] = Reporting(FALSE)]
        /\ c.answered => At(w, "put")
        /\ UNCHANGED <<now, release, sweep, entries, brokenOff, settled>>
    BY <1>7 DEF GenerateFails, PutUnreadable, At, StoringSteps, Reports, Unanswered,
                OthersKept, NoHistory
  <2>2. Fits(Reporting(FALSE))
    BY <2>1, ReportingType DEF StoringSteps, KeepsAnswer
  <2> HIDE DEF Fits
  <2>3. \E x : Becomes(w, x) /\ Fits(x)
    BY <1>f, <2>1, <2>2
  <2> QED
    BY <1>s, <2>1, <2>3 DEF Fits
<1>8. CASE Reuse(w) \/ PutNothing(w) \/ Report(w) \/ (Crash(w) /\ w \notin StoringNow)
  <2>1. PICK r \in {Reporting(TRUE), Idle} :
          /\ caller' = [caller EXCEPT ![w] = r]
          /\ UNCHANGED <<now, release, sweep, entries, brokenOff, settled>> /\ w \notin StoringNow
    BY <1>8 DEF Reuse, PutNothing, Report, Crash, At, StoringSteps, Reports, StoringNow,
                OthersKept, NoHistory
  <2>2. Fits(r)
    BY <1>r
  <2> HIDE DEF Fits
  <2>3. \E x : Becomes(w, x) /\ Fits(x)
    BY <1>f, <2>1, <2>2
  <2> QED
    BY <2>1, <2>3 DEF Fits
<1> QED
  BY <1>1, <1>2, <1>3, <1>4, <1>5, <1>6, <1>7, <1>8 DEF Passes, LookUp

-------------------------------------------------------------------------------
(* What the steps of an eviction, and those of the others, do *)

Collection == [Keys -> [created : -1..MaxTime, foundIn : 0..LastRelease]]

LEMMA WithoutEffect ==
  ASSUME TypeOK, NEW ks
  PROVE  /\ Without(ks) \in Collection
         /\ \A k \in Keys : Without(ks)[k] = IF k \in ks THEN NoEntry ELSE entries[k]
<1>1. NoEntry \in [created : -1..MaxTime, foundIn : 0..LastRelease]
  BY Constants DEF NoEntry, NoRelease
<1> QED
  BY <1>1 DEF TypeOK, Without, Collection

LEMMA WithEntryEffect ==
  ASSUME TypeOK, NEW w \in Workers
  PROVE  /\ WithEntry(w) \in Collection
         /\ \E key : \A k \in Keys \ {key} : WithEntry(w)[k] = entries[k]
<1> DEFINE key == <<caller[w].release, caller[w].question>>
           new == [created |-> caller[w].created, foundIn |-> caller[w].foundIn]
<1>1. new \in [created : -1..MaxTime, foundIn : 0..LastRelease]
  <2>1. caller[w].created \in 0..MaxTime /\ caller[w].foundIn \in 0..LastRelease
    BY DEF TypeOK, Calls
  <2>2. caller[w].created \in -1..MaxTime
    BY <2>1, Constants
  <2> QED
    BY <2>1, <2>2
<1>2. WithEntry(w) = [entries EXCEPT ![key] = new]
  BY DEF WithEntry
<1> HIDE DEF key, new
<1> QED
  BY <1>1, <1>2 DEF TypeOK, Collection

\* The upsert of w, which adds one entry at most.
LEMMA StoreEffect ==
  ASSUME TypeOK, NEW w \in Workers, Store(w)
  PROVE  /\ UNCHANGED <<now, release, sweep, brokenOff, settled>>
         /\ entries' \in Collection
         /\ w \notin StoringNow
         /\ \E key : Stored' \subseteq Stored \cup {key}
         /\ \E r : /\ Becomes(w, r) /\ r.step = "count" /\ KeepsAnswer(w, r)
                   /\ r.victims = {} /\ r.seen = 0
<1> DEFINE r == [Idle EXCEPT !.step = "count", !.answered = TRUE]
<1>1. /\ r \in Calls /\ r.step = "count" /\ r.answered /\ r.victims = {} /\ r.seen = 0
  BY IdleType DEF Idle, Calls, Steps
<1>2. /\ caller' = [caller EXCEPT ![w] = r] /\ entries' = WithEntry(w) /\ caller[w].step = "store"
      /\ UNCHANGED <<now, release, sweep, brokenOff, settled>>
  BY DEF Store, At, OthersKept, NoHistory
<1> HIDE DEF r
<1>3. Becomes(w, r) /\ KeepsAnswer(w, r)
  BY <1>1, <1>2, CallerSet DEF KeepsAnswer
<1>4. entries' \in Collection /\ \E key : Stored' \subseteq Stored \cup {key}
  BY <1>2, WithEntryEffect DEF Stored
<1>5. w \notin StoringNow
  BY <1>2 DEF StoringNow, StoringSteps
<1> QED
  BY <1>1, <1>2, <1>3, <1>4, <1>5

\* A count that finds no excess settles everything before it.
LEMMA CountEndsEffect ==
  ASSUME TypeOK, IsFiniteSet(Stored), NEW w \in Workers, Count(w), Excess(Cardinality(Stored)) = 0
  PROVE  /\ UNCHANGED <<now, release, sweep, entries, brokenOff>>
         /\ settled' = brokenOff
         /\ Cardinality(Stored) <= MaxEntries
         /\ At(w, "count")
         /\ \E r : /\ Becomes(w, r) /\ r.step = "report" /\ KeepsAnswer(w, r)
                   /\ r.victims = {} /\ r.seen = 0
<1>1. /\ UNCHANGED <<now, release, sweep, entries, brokenOff>> /\ settled' = brokenOff
      /\ At(w, "count") /\ caller' = [caller EXCEPT ![w] = Reporting(TRUE)]
  BY DEF Count, Reports, OthersKept
<1>2. Becomes(w, Reporting(TRUE)) /\ KeepsAnswer(w, Reporting(TRUE))
  BY <1>1, CallerSet, ReportingType DEF KeepsAnswer
<1>3. Cardinality(Stored) <= MaxEntries
  BY ExcessOf, FS_CardinalityType, Constants
<1> QED
  BY <1>1, <1>2, <1>3, ReportingType

LEMMA CountGoesOnEffect ==
  ASSUME TypeOK, IsFiniteSet(Stored), NEW w \in Workers, Count(w), Excess(Cardinality(Stored)) # 0
  PROVE  /\ UNCHANGED <<now, release, sweep, entries, brokenOff, settled>>
         /\ Cardinality(Stored) > MaxEntries
         /\ At(w, "count")
         /\ \E r : /\ Becomes(w, r) /\ r.step = "scroll" /\ KeepsAnswer(w, r)
                   /\ r.count = Cardinality(Stored) /\ r.seen = brokenOff
                   /\ r.victims = caller[w].victims
<1> DEFINE n == Cardinality(Stored)
           r == [caller[w] EXCEPT !.step = "scroll", !.count = n, !.seen = brokenOff]
<1>0. n \in Nat /\ brokenOff \in 0..MaxFaults /\ caller[w] \in Calls
  BY FS_CardinalityType, Constants DEF TypeOK
<1>1. /\ UNCHANGED <<now, release, sweep, entries, brokenOff, settled>> /\ At(w, "count")
      /\ caller' = [caller EXCEPT ![w].step = "scroll", ![w].count = n, ![w].seen = brokenOff]
  BY DEF Count, OthersKept
<1>2. n > MaxEntries
  BY <1>0, ExcessOf, Constants
<1> HIDE DEF n
<1>3. /\ r \in Calls /\ r.step = "scroll" /\ r.count = n /\ r.seen = brokenOff
      /\ r.victims = caller[w].victims /\ r.answered = caller[w].answered
  BY <1>0 DEF Calls, Steps
<1>4. caller' = [caller EXCEPT ![w] = r]
  BY <1>1 DEF TypeOK
<1> HIDE DEF r
<1>5. Becomes(w, r) /\ KeepsAnswer(w, r)
  BY <1>3, <1>4, CallerSet DEF KeepsAnswer
<1> QED
  BY <1>1, <1>2, <1>3, <1>5 DEF n

\* As many entries as were counted, or all that there are; of these the excess.
LEMMA ScrollEffect ==
  ASSUME TypeOK, NEW w \in Workers, Scroll(w)
  PROVE  /\ UNCHANGED <<now, release, sweep, entries, brokenOff, settled>>
         /\ At(w, "scroll")
         /\ \E page \in Pages(caller[w].count) : \E ks \in Oldest(page, Excess(caller[w].count)) :
              \E r : /\ Becomes(w, r) /\ r.step = "delete" /\ KeepsAnswer(w, r)
                     /\ r.victims = ks /\ r.seen = caller[w].seen
<1>1. PICK page \in Pages(caller[w].count) : \E ks \in Oldest(page, Excess(caller[w].count)) :
        caller' = [caller EXCEPT ![w].step = "delete", ![w].count = 0, ![w].victims = ks]
  BY DEF Scroll
<1>2. PICK ks \in Oldest(page, Excess(caller[w].count)) :
        caller' = [caller EXCEPT ![w].step = "delete", ![w].count = 0, ![w].victims = ks]
  BY <1>1
<1> DEFINE r == [caller[w] EXCEPT !.step = "delete", !.count = 0, !.victims = ks]
<1>3. ks \subseteq Keys /\ caller[w] \in Calls
  BY DEF Oldest, Pages, Stored, TypeOK
<1>4. /\ r \in Calls /\ r.step = "delete" /\ r.victims = ks
      /\ r.seen = caller[w].seen /\ r.answered = caller[w].answered
  BY <1>3 DEF Calls, Steps
<1>5. caller' = [caller EXCEPT ![w] = r]
  BY <1>2 DEF TypeOK
<1>6. /\ UNCHANGED <<now, release, sweep, entries, brokenOff, settled>> /\ At(w, "scroll")
  BY DEF Scroll, OthersKept, NoHistory
<1> HIDE DEF r
<1>7. Becomes(w, r) /\ KeepsAnswer(w, r)
  BY <1>4, <1>5, CallerSet DEF KeepsAnswer
<1> QED
  BY <1>4, <1>6, <1>7

\* The deletion settles what was broken off before its count.
LEMMA DeleteEffect ==
  ASSUME TypeOK, NEW w \in Workers, Delete(w)
  PROVE  /\ UNCHANGED <<now, release, sweep, brokenOff>>
         /\ entries' \in Collection
         /\ Stored' = Kept(w)
         /\ settled' \in {settled, caller[w].seen} /\ settled' >= settled /\ settled' >= caller[w].seen
         /\ At(w, "delete")
         /\ \E r : /\ Becomes(w, r) /\ r.step = "report" /\ KeepsAnswer(w, r)
                   /\ r.victims = {} /\ r.seen = 0
<1>1. /\ UNCHANGED <<now, release, sweep, brokenOff>> /\ At(w, "delete")
      /\ entries' = Without(caller[w].victims)
      /\ settled' = Max({settled, caller[w].seen})
      /\ caller' = [caller EXCEPT ![w] = Reporting(TRUE)]
  BY DEF Delete, Reports, OthersKept
<1>2. Becomes(w, Reporting(TRUE)) /\ KeepsAnswer(w, Reporting(TRUE))
  BY <1>1, CallerSet, ReportingType DEF KeepsAnswer
<1>3. settled \in Int /\ caller[w].seen \in Int
  BY DEF TypeOK, Calls
<1>4. entries' \in Collection /\ Stored' = Kept(w)
  BY <1>1, WithoutEffect DEF Stored, Kept
<1> QED
  BY <1>1, <1>2, <1>3, <1>4, LargerOfTwo, ReportingType

\* A store, or its eviction, is broken off.
BreaksOff(w) == PutFails(w) \/ (Crash(w) /\ w \in StoringNow)

LEMMA BreaksOffEffect ==
  ASSUME TypeOK, NEW w \in Workers, BreaksOff(w)
  PROVE  /\ UNCHANGED <<now, release, sweep, settled>>
         /\ brokenOff < MaxFaults /\ brokenOff' = brokenOff + 1
         /\ entries' \in Collection
         /\ \/ w \in StoringNow /\ Stored' \subseteq Stored
            \/ w \notin StoringNow /\ \E key : Stored' \subseteq Stored \cup {key}
         /\ \E r : /\ Becomes(w, r) /\ r.step \in {"report", "idle"} /\ KeepsAnswer(w, r)
                   /\ r.victims = {} /\ r.seen = 0
<1>0. entries \in Collection
  BY DEF TypeOK, Collection
<1>1. PICK r \in {Reporting(TRUE), Idle} : caller' = [caller EXCEPT ![w] = r]
  BY DEF BreaksOff, PutFails, Crash, StoreFailed
<1>2. /\ Becomes(w, r) /\ KeepsAnswer(w, r) /\ r.step \in {"report", "idle"}
      /\ r.victims = {} /\ r.seen = 0
  BY <1>1, CallerSet, IdleType, ReportingType DEF KeepsAnswer
<1>3. /\ UNCHANGED <<now, release, sweep, settled>>
      /\ brokenOff < MaxFaults /\ brokenOff' = brokenOff + 1
  BY DEF BreaksOff, PutFails, Crash, StoringNow, OthersKept
<1>4. CASE caller[w].step = "store" /\ entries' = WithEntry(w)
  <2>1. w \notin StoringNow
    BY <1>4 DEF StoringNow, StoringSteps
  <2>2. entries' \in Collection /\ \E key : Stored' \subseteq Stored \cup {key}
    BY <1>4, WithEntryEffect DEF Stored
  <2> QED
    BY <1>2, <1>3, <2>1, <2>2
<1>5. CASE w \in StoringNow /\ entries' = entries
  BY <1>0, <1>2, <1>3, <1>5 DEF Stored
<1>6. CASE w \in StoringNow /\ entries' = Without(caller[w].victims)
  <2>1. entries' \in Collection /\ Stored' \subseteq Stored
    BY <1>6, WithoutEffect DEF Stored
  <2> QED
    BY <1>2, <1>3, <1>6, <2>1
<1> QED
  BY <1>4, <1>5, <1>6 DEF BreaksOff, PutFails, Crash, At, StoringNow, StoringSteps

\* Maintenance, ingestion and time: nothing is added.
Others == SweepFinds \/ SweepDeletes \/ SweepFails \/ ReleaseMoves \/ Tick

LEMMA OthersEffect ==
  ASSUME TypeOK, Others
  PROVE  /\ UNCHANGED <<caller, brokenOff, settled>>
         /\ now' \in 0..MaxTime /\ release' \in 0..LastRelease /\ sweep' \in SUBSET Keys
         /\ entries' \in Collection
         /\ Stored' \subseteq Stored
<1>0. entries \in Collection
  BY DEF TypeOK, Collection
<1>1. CASE SweepFinds
  BY <1>0, <1>1 DEF SweepFinds, NoHistory, Pages, Stored, TypeOK
<1>2. CASE SweepDeletes
  BY <1>2, WithoutEffect DEF SweepDeletes, NoHistory, Stored, TypeOK
<1>3. CASE SweepFails
  BY <1>0, <1>3 DEF SweepFails, NoHistory, Stored, TypeOK
<1>4. CASE ReleaseMoves \/ Tick
  BY <1>0, <1>4, Constants DEF ReleaseMoves, Tick, NoHistory, Stored, TypeOK
<1> QED
  BY <1>1, <1>2, <1>3, <1>4 DEF Others

LEMMA StepCases ==
  ASSUME [Next]_vars
  PROVE  \/ \E w \in Workers :
              Passes(w) \/ Store(w) \/ Count(w) \/ Scroll(w) \/ Delete(w) \/ BreaksOff(w)
         \/ Others \/ UNCHANGED vars
  BY DEF Next, WorkerStep, Passes, BreaksOff, Others

-------------------------------------------------------------------------------
(* Evictions *)

Inv == TypeOK /\ Evicts

\* The sizes of the invariant are numbers.
LEMMA Sizes ==
  ASSUME Inv, NEW later, Ordered(later)
  PROVE  /\ IsFiniteSet(Stored) /\ Cardinality(Stored) \in Nat
         /\ IsFiniteSet(StoringNow) /\ Cardinality(StoringNow) \in Nat
         /\ brokenOff \in Nat /\ settled \in Nat /\ settled <= brokenOff /\ brokenOff <= MaxFaults
         /\ \A u \in Workers :
              /\ IsFiniteSet(later[u]) /\ Cardinality(later[u]) \in Nat
              /\ caller[u].seen \in Nat /\ caller[u].seen <= brokenOff /\ caller[u].count \in Nat
              /\ IsFiniteSet(Kept(u)) /\ Cardinality(Kept(u)) \in Nat
              /\ Cardinality(Kept(u)) <= Cardinality(Stored)
         /\ \A u \in Evicting : Target(u) \in Nat /\ Target(u) >= MaxEntries
<1>1. IsFiniteSet(Stored) /\ Cardinality(Stored) \in Nat
  BY FS_CardinalityType DEF Inv, Evicts
<1>2. StoringNow \subseteq Workers
  BY DEF StoringNow
<1>3. IsFiniteSet(StoringNow) /\ Cardinality(StoringNow) \in Nat
  BY <1>2, ConstantsAssumption, SmallerSet
<1>4. brokenOff \in Nat /\ settled \in Nat /\ settled <= brokenOff /\ brokenOff <= MaxFaults
  BY Constants DEF Inv, TypeOK
<1>5. ASSUME NEW u \in Workers
      PROVE  /\ IsFiniteSet(later[u]) /\ Cardinality(later[u]) \in Nat
             /\ caller[u].seen \in Nat /\ caller[u].seen <= brokenOff /\ caller[u].count \in Nat
             /\ IsFiniteSet(Kept(u)) /\ Cardinality(Kept(u)) \in Nat
             /\ Cardinality(Kept(u)) <= Cardinality(Stored)
  <2>1. later[u] \subseteq StoringNow
    BY DEF Ordered
  <2>2. IsFiniteSet(later[u]) /\ Cardinality(later[u]) \in Nat
    BY <1>3, <2>1, SmallerSet
  <2>3. caller[u].seen \in Nat /\ caller[u].seen <= brokenOff /\ caller[u].count \in Nat
    BY Constants DEF Inv, TypeOK, Calls, Evicts, Bounded
  <2>4. Kept(u) \subseteq Stored
    BY DEF Kept
  <2>5. /\ IsFiniteSet(Kept(u)) /\ Cardinality(Kept(u)) \in Nat
        /\ Cardinality(Kept(u)) <= Cardinality(Stored)
    BY <1>1, <2>4, SmallerSet
  <2> QED
    BY <2>2, <2>3, <2>5
<1>6. ASSUME NEW u \in Evicting PROVE Target(u) \in Nat /\ Target(u) >= MaxEntries
  <2>1. u \in Workers /\ (At(u, "scroll") \/ At(u, "delete"))
    BY DEF Evicting, EvictingSteps, At
  <2>2. At(u, "scroll") => caller[u].count > MaxEntries
    BY <2>1 DEF Inv, Evicts, Bounded
  <2> QED
    BY <1>5, <2>1, <2>2, Constants DEF Target
<1> QED
  BY <1>1, <1>3, <1>4, <1>5, <1>6

\* The worker w has left, or never entered, an eviction: if what is stored then
\* is within the bounds of the others, the invariant holds.
LEMMA Departs ==
  ASSUME Inv, NEW later, Ordered(later),
         NEW w \in Workers, NEW r, Becomes(w, r), r.step \notin StoringSteps,
         r.victims = {}, r.seen <= brokenOff',
         brokenOff' >= brokenOff, brokenOff' \in Nat,
         IsFiniteSet(Stored'),
         Cardinality(Stored')
           <= MaxEntries + Cardinality(StoringNow \ {w}) + (brokenOff' - settled'),
         \A u \in Evicting \ {w} : \A since \in {settled', caller[u].seen} :
           Cardinality(Stored' \ caller[u].victims)
             <= Target(u) + Cardinality(later[u] \ {w}) + (brokenOff' - since)
  PROVE  Evicts'
<1> DEFINE after == [u \in Workers |-> later[u] \ {w}]
<1>1. /\ StoringNow' = StoringNow \ {w} /\ Evicting' = Evicting \ {w}
      /\ \A u \in Workers \ {w} : caller'[u] = caller[u]
  <2>1. r.step \notin EvictingSteps
    BY DEF EvictingSteps, StoringSteps
  <2> QED
    BY <2>1 DEF StoringNow, Evicting, Becomes
<1>2. CacheWithinCap'
  BY <1>1 DEF CacheWithinCap
<1>3. ASSUME NEW u \in Workers PROVE Bounded(u)'
  <2>1. CASE u = w
    <3>1. caller'[u] = r
      BY <2>1 DEF Becomes
    <3> QED
      BY <3>1 DEF Bounded, At, StoringSteps
  <2>2. CASE u # w
    <3>1. Bounded(u) /\ caller'[u] = caller[u] /\ caller[u].seen \in Nat /\ brokenOff \in Nat
      BY <1>1, <2>2, Sizes DEF Inv, Evicts
    <3>2. caller[u].seen <= brokenOff'
      BY <3>1 DEF Bounded
    <3> QED
      BY <3>1, <3>2 DEF Bounded, At
  <2> QED
    BY <2>1, <2>2
<1>4. Ordered(after)'
  <2>1. after \in [Workers -> SUBSET (StoringNow \ {w})]
    BY DEF Ordered
  <2>2. ASSUME NEW u \in Evicting \ {w}
        PROVE  /\ u \notin after[u]
               /\ (StoringNow \ {w}) \ (Evicting \ {w}) \subseteq after[u]
    BY DEF Ordered, Evicting
  <2>3. ASSUME NEW u \in Evicting \ {w}, NEW v \in Evicting \ {w, u}
        PROVE  CountedFirst(after, u, v)' \/ CountedFirst(after, v, u)'
    <3>1. /\ CountedFirst(later, u, v) \/ CountedFirst(later, v, u)
          /\ u \in Workers \ {w} /\ v \in Workers \ {w}
      BY DEF Ordered, Evicting
    <3> QED
      BY <1>1, <3>1 DEF CountedFirst
  <2> QED
    BY <1>1, <2>1, <2>2, <2>3 DEF Ordered
<1>5. ASSUME NEW u \in Evicting' PROVE MakesUp(after, u)'
  <2>1. u \in Evicting \ {w} /\ u \in Workers /\ caller'[u] = caller[u]
    BY <1>1 DEF Evicting
  <2>2. after[u] = later[u] \ {w} /\ Target(u)' = Target(u) /\ Kept(u)' = Stored' \ caller[u].victims
    BY <2>1 DEF Target, Kept, At
  <2> QED
    BY <2>1, <2>2 DEF MakesUp
<1> HIDE DEF after
<1> QED
  BY <1>2, <1>3, <1>4, <1>5 DEF Evicts

\* A step that leaves the calls alone, or one before an upsert or after an
\* eviction, with no more stored than before.
LEMMA EvictsPasses ==
  ASSUME Inv, NEW w \in Workers, Unanswered(w), Passes(w)
  PROVE  Evicts'
<1>1. PICK later : Ordered(later) /\ \A u \in Evicting : MakesUp(later, u)
  BY DEF Inv, Evicts
<1>2. /\ Stored' = Stored /\ brokenOff' = brokenOff /\ settled' = settled
      /\ w \notin StoringNow
  BY PassesEffect DEF Inv, Stored
<1>3. PICK r : /\ Becomes(w, r) /\ r.step \notin StoringSteps
               /\ r.victims \in {{}, caller[w].victims} /\ r.seen \in {0, caller[w].seen}
  BY PassesEffect DEF Inv
<1>4. r.victims = {} /\ r.seen <= brokenOff
  <2>1. caller[w].victims = {}
    BY <1>2 DEF Inv, Evicts, Bounded, StoringNow, StoringSteps, At
  <2> QED
    BY <1>1, <1>3, <2>1, Sizes
<1>5. /\ StoringNow \ {w} = StoringNow
      /\ \A u \in Workers : later[u] \ {w} = later[u]
  BY <1>1, <1>2 DEF Ordered
<1>6. Cardinality(Stored) <= MaxEntries + Cardinality(StoringNow) + (brokenOff - settled)
  BY DEF Inv, Evicts, CacheWithinCap
<1>7. ASSUME NEW u \in Evicting \ {w}, NEW since \in {settled, caller[u].seen}
      PROVE  Cardinality(Stored \ caller[u].victims)
               <= Target(u) + Cardinality(later[u]) + (brokenOff - since)
  BY <1>1 DEF MakesUp, Kept
<1>8. \A u \in Evicting : u \in Workers
  BY DEF Evicting
<1>9. /\ brokenOff' \in Nat /\ brokenOff' >= brokenOff /\ IsFiniteSet(Stored')
      /\ r.seen <= brokenOff'
  BY <1>1, <1>2, <1>4, Sizes
<1>10. Cardinality(Stored')
         <= MaxEntries + Cardinality(StoringNow \ {w}) + (brokenOff' - settled')
  BY <1>2, <1>5, <1>6
<1>11. \A u \in Evicting \ {w} : \A since \in {settled', caller[u].seen} :
         Cardinality(Stored' \ caller[u].victims)
           <= Target(u) + Cardinality(later[u] \ {w}) + (brokenOff' - since)
  BY <1>2, <1>5, <1>7, <1>8
<1> QED
  BY <1>1, <1>3, <1>4, <1>9, <1>10, <1>11, Departs

\* A deletion: what it has chosen was the excess, but for what is later.
LEMMA EvictsDelete ==
  ASSUME Inv, NEW w \in Workers, Delete(w)
  PROVE  Evicts'
<1>1. PICK later : Ordered(later) /\ \A u \in Evicting : MakesUp(later, u)
  BY DEF Inv, Evicts
<1>2. /\ Stored' = Kept(w) /\ brokenOff' = brokenOff
      /\ settled' \in {settled, caller[w].seen} /\ settled' >= caller[w].seen
      /\ At(w, "delete")
  BY DeleteEffect DEF Inv
<1>3. PICK r : Becomes(w, r) /\ r.step = "report" /\ r.victims = {} /\ r.seen = 0
  BY DeleteEffect DEF Inv
<1>4. w \in Evicting /\ Target(w) = MaxEntries
  BY <1>2 DEF At, Evicting, EvictingSteps, Target
<1>5. Cardinality(Kept(w)) <= MaxEntries + Cardinality(later[w]) + (brokenOff - settled')
  BY <1>1, <1>2, <1>4 DEF MakesUp
<1>6. /\ IsFiniteSet(StoringNow \ {w}) /\ Cardinality(StoringNow \ {w}) \in Nat
      /\ Cardinality(later[w]) <= Cardinality(StoringNow \ {w})
  <2>1. later[w] \subseteq StoringNow \ {w}
    BY <1>1, <1>4 DEF Ordered
  <2>2. IsFiniteSet(StoringNow \ {w})
    BY <1>1, Sizes, SmallerSet
  <2> QED
    BY <2>1, <2>2, SmallerSet
<1>7. ASSUME NEW u \in Evicting \ {w}, NEW since \in {settled', caller[u].seen}
      PROVE  Cardinality(Kept(w) \ caller[u].victims)
               <= Target(u) + Cardinality(later[u] \ {w}) + (brokenOff - since)
  <2>0. /\ u \in Workers /\ IsFiniteSet(later[u] \ {w})
        /\ Cardinality(later[u] \ {w}) \in Nat /\ Cardinality(later[u]) \in Nat
        /\ Target(u) \in Nat /\ Target(u) >= MaxEntries
        /\ caller[u].seen \in Nat /\ caller[w].seen \in Nat /\ settled' \in Nat
        /\ brokenOff \in Nat /\ Cardinality(later[w]) \in Nat /\ Cardinality(Kept(w)) \in Nat
    BY <1>1, <1>2, <1>4, Sizes, WithoutOne DEF Evicting
  <2>1. CASE CountedFirst(later, u, w)
    <3>1. /\ later[w] \subseteq later[u] \ {w} /\ caller[u].seen <= caller[w].seen
      BY <1>1, <1>4, <2>1 DEF CountedFirst, Ordered
    <3>2. Cardinality(later[w]) <= Cardinality(later[u] \ {w})
      BY <2>0, <3>1, SmallerSet
    <3>3. /\ Cardinality(Kept(w) \ caller[u].victims) \in Nat
          /\ Cardinality(Kept(w) \ caller[u].victims) <= Cardinality(Kept(w))
      BY <1>1, Sizes, SmallerSet
    <3>4. since \in Nat /\ since <= settled'
      BY <1>2, <2>0, <3>1
    <3> QED
      BY <1>5, <2>0, <3>2, <3>3, <3>4, Constants
  <2>2. CASE CountedFirst(later, w, u)
    <3>1. w \notin later[u] /\ caller[w].seen <= caller[u].seen
      BY <1>1, <1>4, <2>2 DEF CountedFirst, Ordered
    <3>2. /\ Kept(w) \ caller[u].victims \subseteq Kept(u)
          /\ later[u] \ {w} = later[u]
      BY <3>1 DEF Kept
    <3>3. /\ Cardinality(Kept(w) \ caller[u].victims) \in Nat
          /\ Cardinality(Kept(w) \ caller[u].victims) <= Cardinality(Kept(u))
          /\ Cardinality(Kept(u)) \in Nat
      BY <1>1, <2>0, <3>2, Sizes, SmallerSet
    <3>4. \A s \in {settled, caller[u].seen} :
            Cardinality(Kept(u)) <= Target(u) + Cardinality(later[u]) + (brokenOff - s)
      BY <1>1 DEF MakesUp
    <3>5. PICK s \in {settled, caller[u].seen} : since <= s /\ s \in Nat /\ since \in Nat
      BY <1>1, <1>2, <2>0, <3>1, Sizes
    <3>6. /\ Cardinality(Kept(u)) <= Target(u) + Cardinality(later[u]) + (brokenOff - s)
          /\ Cardinality(later[u] \ {w}) = Cardinality(later[u])
      BY <3>2, <3>4
    <3> QED
      BY <2>0, <3>3, <3>5, <3>6
  <2> QED
    BY <1>1, <1>4, <2>1, <2>2 DEF Ordered
<1>8. /\ Cardinality(Kept(w)) \in Nat /\ Cardinality(later[w]) \in Nat /\ IsFiniteSet(Kept(w))
      /\ brokenOff \in Nat /\ settled' \in Nat
  BY <1>1, <1>2, Sizes
<1>9. Cardinality(Kept(w)) <= MaxEntries + Cardinality(StoringNow \ {w}) + (brokenOff - settled')
  BY <1>5, <1>6, <1>8, Constants
<1>10. r.step \notin StoringSteps /\ r.seen <= brokenOff
  BY <1>3, <1>8 DEF StoringSteps
<1> QED
  BY <1>1, <1>2, <1>3, <1>7, <1>8, <1>9, <1>10, Departs

\* A count without an excess: the collection is within its cap.
LEMMA EvictsCountEnds ==
  ASSUME Inv, NEW w \in Workers, Count(w), Excess(Cardinality(Stored)) = 0
  PROVE  Evicts'
<1>1. PICK later : Ordered(later) /\ \A u \in Evicting : MakesUp(later, u)
  BY DEF Inv, Evicts
<1>2. /\ Stored' = Stored /\ brokenOff' = brokenOff /\ settled' = brokenOff
      /\ Cardinality(Stored) <= MaxEntries
  BY CountEndsEffect DEF Inv, Evicts, Stored
<1>3. PICK r : Becomes(w, r) /\ r.step = "report" /\ r.victims = {} /\ r.seen = 0
  BY CountEndsEffect DEF Inv, Evicts
<1>4. /\ IsFiniteSet(Stored) /\ Cardinality(Stored) \in Nat /\ brokenOff \in Nat
      /\ Cardinality(StoringNow \ {w}) \in Nat
  BY <1>1, Sizes, WithoutOne
<1>5. ASSUME NEW u \in Evicting \ {w}, NEW since \in {brokenOff, caller[u].seen}
      PROVE  Cardinality(Stored \ caller[u].victims)
               <= Target(u) + Cardinality(later[u] \ {w}) + (brokenOff - since)
  <2>0. u \in Workers /\ u \in Evicting
    BY DEF Evicting
  <2>1. /\ Target(u) \in Nat /\ Target(u) >= MaxEntries
        /\ since \in Nat /\ since <= brokenOff
        /\ Cardinality(later[u] \ {w}) \in Nat
    <3>1. /\ Target(u) \in Nat /\ Target(u) >= MaxEntries /\ IsFiniteSet(later[u])
          /\ caller[u].seen \in Nat /\ caller[u].seen <= brokenOff
      BY <1>1, <2>0, Sizes
    <3>2. Cardinality(later[u] \ {w}) \in Nat
      BY <3>1, WithoutOne
    <3> QED
      BY <1>4, <3>1, <3>2
  <2>2. /\ Cardinality(Stored \ caller[u].victims) \in Nat
        /\ Cardinality(Stored \ caller[u].victims) <= Cardinality(Stored)
    BY <1>4, SmallerSet
  <2> QED
    BY <1>2, <1>4, <2>1, <2>2, Constants
<1>6. Cardinality(Stored) <= MaxEntries + Cardinality(StoringNow \ {w}) + (brokenOff - brokenOff)
  BY <1>2, <1>4, Constants
<1>7. r.step \notin StoringSteps /\ r.seen <= brokenOff
  BY <1>3, <1>4 DEF StoringSteps
<1> QED
  BY <1>1, <1>2, <1>3, <1>4, <1>5, <1>6, <1>7, Departs

\* What is broken off makes room for itself.
LEMMA EvictsBreaksOff ==
  ASSUME Inv, NEW w \in Workers, BreaksOff(w)
  PROVE  Evicts'
<1>1. PICK later : Ordered(later) /\ \A u \in Evicting : MakesUp(later, u)
  BY DEF Inv, Evicts
<1>2. /\ brokenOff' = brokenOff + 1 /\ settled' = settled
      /\ \/ w \in StoringNow /\ Stored' \subseteq Stored
         \/ w \notin StoringNow /\ \E key : Stored' \subseteq Stored \cup {key}
  BY BreaksOffEffect DEF Inv
<1>3. PICK r : Becomes(w, r) /\ r.step \in {"report", "idle"} /\ r.victims = {} /\ r.seen = 0
  BY BreaksOffEffect DEF Inv
<1>4. /\ IsFiniteSet(Stored) /\ Cardinality(Stored) \in Nat /\ brokenOff \in Nat /\ settled \in Nat
      /\ Cardinality(StoringNow \ {w}) \in Nat /\ Cardinality(StoringNow) \in Nat
      /\ Cardinality(StoringNow) <= Cardinality(StoringNow \ {w}) + 1
      /\ w \notin StoringNow => StoringNow \ {w} = StoringNow
  BY <1>1, Sizes, WithoutOne
<1>5. IsFiniteSet(Stored') /\ Cardinality(Stored') \in Nat
  BY <1>2, <1>4, SmallerSet, WithOne
<1>6. Cardinality(Stored') <= MaxEntries + Cardinality(StoringNow \ {w}) + (brokenOff' - settled')
  <2>1. Cardinality(Stored) <= MaxEntries + Cardinality(StoringNow) + (brokenOff - settled)
    BY DEF Inv, Evicts, CacheWithinCap
  <2>2. CASE w \in StoringNow /\ Stored' \subseteq Stored
    <3>1. Cardinality(Stored') <= Cardinality(Stored)
      BY <1>4, <2>2, SmallerSet
    <3> QED
      BY <1>2, <1>4, <1>5, <2>1, <3>1, Constants
  <2>3. CASE w \notin StoringNow /\ \E key : Stored' \subseteq Stored \cup {key}
    <3>1. Cardinality(Stored') <= Cardinality(Stored) + 1
      BY <1>4, <2>3, WithOne
    <3> QED
      BY <1>2, <1>4, <1>5, <2>1, <2>3, <3>1, Constants
  <2> QED
    BY <1>2, <2>2, <2>3
<1>7. ASSUME NEW u \in Evicting \ {w}, NEW since \in {settled', caller[u].seen}
      PROVE  Cardinality(Stored' \ caller[u].victims)
               <= Target(u) + Cardinality(later[u] \ {w}) + (brokenOff' - since)
  <2>1. /\ u \in Workers /\ Target(u) \in Nat /\ since \in Nat
        /\ IsFiniteSet(later[u]) /\ Cardinality(later[u]) \in Nat
        /\ IsFiniteSet(Kept(u)) /\ Cardinality(Kept(u)) \in Nat
    BY <1>1, <1>2, <1>4, Sizes DEF Evicting
  <2>2. /\ Cardinality(later[u] \ {w}) \in Nat
        /\ Cardinality(later[u]) <= Cardinality(later[u] \ {w}) + 1
        /\ w \notin StoringNow => later[u] \ {w} = later[u]
    BY <1>1, <2>1, WithoutOne DEF Ordered
  <2>3. Cardinality(Kept(u)) <= Target(u) + Cardinality(later[u]) + (brokenOff - since)
    BY <1>1, <1>2 DEF MakesUp
  <2>4. CASE w \in StoringNow /\ Stored' \subseteq Stored
    <3>1. Stored' \ caller[u].victims \subseteq Kept(u)
      BY <2>4 DEF Kept
    <3>2. /\ Cardinality(Stored' \ caller[u].victims) \in Nat
          /\ Cardinality(Stored' \ caller[u].victims) <= Cardinality(Kept(u))
      BY <2>1, <3>1, SmallerSet
    <3> QED
      BY <1>2, <1>4, <2>1, <2>2, <2>3, <3>2
  <2>5. CASE w \notin StoringNow /\ \E key : Stored' \subseteq Stored \cup {key}
    <3>1. PICK key : Stored' \subseteq Stored \cup {key}
      BY <2>5
    <3>2. Stored' \ caller[u].victims \subseteq Kept(u) \cup {key}
      BY <3>1 DEF Kept
    <3>3. /\ Cardinality(Stored' \ caller[u].victims) \in Nat
          /\ Cardinality(Stored' \ caller[u].victims) <= Cardinality(Kept(u)) + 1
      BY <2>1, <3>2, WithOne
    <3>4. Cardinality(later[u] \ {w}) = Cardinality(later[u])
      BY <2>2, <2>5
    <3> QED
      BY <1>2, <1>4, <2>1, <2>3, <3>3, <3>4
  <2> QED
    BY <1>2, <2>4, <2>5
<1>8. r.step \notin StoringSteps /\ r.seen <= brokenOff' /\ brokenOff' \in Nat /\ brokenOff' >= brokenOff
  BY <1>2, <1>3, <1>4 DEF StoringSteps
<1> QED
  BY <1>1, <1>3, <1>5, <1>6, <1>7, <1>8, Departs

\* An upsert is later than all that have counted.
LEMMA EvictsStore ==
  ASSUME Inv, NEW w \in Workers, Store(w)
  PROVE  Evicts'
<1>1. PICK later : Ordered(later) /\ \A u \in Evicting : MakesUp(later, u)
  BY DEF Inv, Evicts
<1>2. /\ UNCHANGED <<brokenOff, settled>> /\ w \notin StoringNow
      /\ \E key : Stored' \subseteq Stored \cup {key}
  BY StoreEffect DEF Inv
<1>3. PICK r : Becomes(w, r) /\ r.step = "count" /\ r.victims = {} /\ r.seen = 0
  BY StoreEffect DEF Inv
<1> DEFINE after == [u \in Workers |-> later[u] \cup {w}]
<1>4. /\ StoringNow' = StoringNow \cup {w} /\ Evicting' = Evicting /\ w \notin Evicting
      /\ \A u \in Workers \ {w} : caller'[u] = caller[u]
  BY <1>2, <1>3 DEF Becomes, StoringNow, Evicting, StoringSteps, EvictingSteps
<1>5. /\ IsFiniteSet(Stored) /\ Cardinality(Stored) \in Nat
      /\ Cardinality(StoringNow) \in Nat /\ brokenOff \in Nat /\ settled \in Nat
      /\ Cardinality(StoringNow \cup {w}) = Cardinality(StoringNow) + 1
  BY <1>1, <1>2, Sizes, FS_AddElement
<1>6. /\ IsFiniteSet(Stored') /\ Cardinality(Stored') \in Nat
      /\ Cardinality(Stored') <= Cardinality(Stored) + 1
  BY <1>2, <1>5, WithOne
<1>7. CacheWithinCap'
  <2>1. Cardinality(Stored) <= MaxEntries + Cardinality(StoringNow) + (brokenOff - settled)
    BY DEF Inv, Evicts, CacheWithinCap
  <2>2. Cardinality(Stored') <= MaxEntries + Cardinality(StoringNow \cup {w}) + (brokenOff - settled)
    BY <1>5, <1>6, <2>1, Constants
  <2> QED
    BY <1>2, <1>4, <2>2 DEF CacheWithinCap
<1>8. ASSUME NEW u \in Workers PROVE Bounded(u)'
  <2>1. CASE u = w
    BY <1>2, <1>3, <1>5, <2>1 DEF Bounded, At, Becomes
  <2>2. CASE u # w
    BY <1>2, <1>4, <2>2 DEF Inv, Evicts, Bounded, At
  <2> QED
    BY <2>1, <2>2
<1>9. Ordered(after)'
  <2>1. after \in [Workers -> SUBSET (StoringNow \cup {w})]
    BY <1>1 DEF Ordered
  <2>2. ASSUME NEW u \in Evicting
        PROVE  u \notin after[u] /\ (StoringNow \cup {w}) \ Evicting \subseteq after[u]
    BY <1>1, <1>4 DEF Ordered, Evicting
  <2>3. ASSUME NEW u \in Evicting, NEW v \in Evicting \ {u}
        PROVE  CountedFirst(after, u, v)' \/ CountedFirst(after, v, u)'
    <3>1. /\ CountedFirst(later, u, v) \/ CountedFirst(later, v, u)
          /\ u \in Workers \ {w} /\ v \in Workers \ {w}
      BY <1>1, <1>4 DEF Ordered, Evicting
    <3> QED
      BY <1>4, <3>1 DEF CountedFirst
  <2> QED
    BY <1>4, <2>1, <2>2, <2>3 DEF Ordered
<1>10. ASSUME NEW u \in Evicting' PROVE MakesUp(after, u)'
  <2>1. u \in Evicting /\ u \in Workers /\ caller'[u] = caller[u]
    BY <1>4 DEF Evicting
  <2>2. after[u] = later[u] \cup {w} /\ Target(u)' = Target(u) /\ Kept(u)' = Stored' \ caller[u].victims
    BY <2>1 DEF Target, Kept, At
  <2>3. /\ Cardinality(later[u]) \in Nat /\ Target(u) \in Nat
        /\ Cardinality(Kept(u)) \in Nat /\ IsFiniteSet(Kept(u)) /\ caller[u].seen \in Nat
    BY <1>1, <2>1, Sizes
  <2>4. Cardinality(later[u] \cup {w}) = Cardinality(later[u]) + 1
    <3>1. w \notin later[u] /\ IsFiniteSet(later[u])
      BY <1>1, <1>2, <2>1, Sizes DEF Ordered
    <3> QED
      BY <3>1, FS_AddElement
  <2>5. /\ Cardinality(Stored' \ caller[u].victims) \in Nat
        /\ Cardinality(Stored' \ caller[u].victims) <= Cardinality(Kept(u)) + 1
    <3>1. PICK key : Stored' \subseteq Stored \cup {key}
      BY <1>2
    <3>2. Stored' \ caller[u].victims \subseteq Kept(u) \cup {key}
      BY <3>1 DEF Kept
    <3> QED
      BY <2>3, <3>2, WithOne
  <2>6. ASSUME NEW since \in {settled, caller[u].seen}
        PROVE  Cardinality(Stored' \ caller[u].victims)
                 <= Target(u) + Cardinality(later[u] \cup {w}) + (brokenOff - since)
    <3>1. Cardinality(Kept(u)) <= Target(u) + Cardinality(later[u]) + (brokenOff - since)
      BY <1>1, <2>1 DEF MakesUp
    <3> QED
      BY <1>5, <2>3, <2>4, <2>5, <3>1
  <2> QED
    BY <1>2, <2>1, <2>2, <2>6 DEF MakesUp
<1> HIDE DEF after
<1> QED
  BY <1>6, <1>7, <1>8, <1>9, <1>10 DEF Evicts

\* A count with an excess: it has seen all that is stored, and only those that
\* have yet to count are later.
LEMMA EvictsCountGoesOn ==
  ASSUME Inv, NEW w \in Workers, Count(w), Excess(Cardinality(Stored)) # 0
  PROVE  Evicts'
<1>1. PICK later : Ordered(later) /\ \A u \in Evicting : MakesUp(later, u)
  BY DEF Inv, Evicts
<1>2. /\ Stored' = Stored /\ UNCHANGED <<brokenOff, settled>>
      /\ Cardinality(Stored) > MaxEntries /\ At(w, "count")
  BY CountGoesOnEffect DEF Inv, Evicts, Stored
<1>3. PICK r : /\ Becomes(w, r) /\ r.step = "scroll" /\ r.count = Cardinality(Stored)
               /\ r.seen = brokenOff /\ r.victims = caller[w].victims
  BY CountGoesOnEffect DEF Inv, Evicts
<1>r. PICK rest : rest = (StoringNow \ Evicting) \ {w}
  OBVIOUS
<1> DEFINE after == [u \in Workers |-> IF u = w THEN rest ELSE later[u]]
<1>4. /\ StoringNow' = StoringNow /\ Evicting' = Evicting \cup {w}
      /\ w \in StoringNow /\ w \notin Evicting
      /\ \A u \in Workers \ {w} : caller'[u] = caller[u]
  BY <1>2, <1>3 DEF Becomes, StoringNow, Evicting, StoringSteps, EvictingSteps, At
<1>5. /\ IsFiniteSet(Stored) /\ Cardinality(Stored) \in Nat
      /\ brokenOff \in Nat /\ settled \in Nat /\ settled <= brokenOff
      /\ IsFiniteSet(StoringNow) /\ Cardinality(StoringNow) \in Nat
  BY <1>1, Sizes
<1>6. CacheWithinCap'
  BY <1>2, <1>4 DEF Inv, Evicts, CacheWithinCap
<1>7. ASSUME NEW u \in Workers PROVE Bounded(u)'
  <2>1. CASE u = w
    <3>1. r.victims = {}
      BY <1>2, <1>3 DEF Inv, Evicts, Bounded, At
    <3>2. Excess(Cardinality(Stored)) <= Cardinality(Workers) + brokenOff
      <4>1. StoringNow \subseteq Workers
        BY DEF StoringNow
      <4>2. Cardinality(StoringNow) <= Cardinality(Workers) /\ Cardinality(Workers) \in Nat
        BY <4>1, ConstantsAssumption, SmallerSet
      <4>3. Cardinality(Stored) <= MaxEntries + Cardinality(StoringNow) + (brokenOff - settled)
        BY DEF Inv, Evicts, CacheWithinCap
      <4>4. Excess(Cardinality(Stored)) = Cardinality(Stored) - MaxEntries
        BY <1>2, <1>5, ExcessOf
      <4> QED
        BY <1>5, <4>2, <4>3, <4>4, Constants
    <3>3. caller'[u] = r
      BY <1>3, <2>1 DEF Becomes
    <3> QED
      BY <1>2, <1>3, <1>5, <3>1, <3>2, <3>3 DEF Bounded, At
  <2>2. CASE u # w
    BY <1>2, <1>4, <2>2 DEF Inv, Evicts, Bounded, At
  <2> QED
    BY <2>1, <2>2
<1>8. Ordered(after)'
  <2>1. after \in [Workers -> SUBSET StoringNow]
    BY <1>1, <1>r DEF Ordered
  <2>2. ASSUME NEW u \in Evicting \cup {w}
        PROVE  u \notin after[u] /\ StoringNow \ (Evicting \cup {w}) \subseteq after[u]
    BY <1>1, <1>r, <1>4 DEF Ordered, Evicting
  <2>3. ASSUME NEW u \in Evicting PROVE CountedFirst(after, u, w)'
    <3>1. u \in Workers \ {w} /\ {w} \cup rest \subseteq later[u] /\ caller[u].seen <= brokenOff
      BY <1>1, <1>r, <1>4, Sizes DEF Ordered, Evicting
    <3>2. after[u] = later[u] /\ after[w] = rest /\ caller'[u] = caller[u] /\ caller'[w].seen = brokenOff
      BY <1>3, <1>4, <3>1 DEF Becomes
    <3> HIDE DEF after
    <3> QED
      BY <3>1, <3>2 DEF CountedFirst
  <2>4. ASSUME NEW u \in Evicting, NEW v \in Evicting \ {u}
        PROVE  CountedFirst(after, u, v)' \/ CountedFirst(after, v, u)'
    <3>1. /\ CountedFirst(later, u, v) \/ CountedFirst(later, v, u)
          /\ u \in Workers \ {w} /\ v \in Workers \ {w}
      BY <1>1, <1>4 DEF Ordered, Evicting
    <3> QED
      BY <1>4, <3>1 DEF CountedFirst
  <2> HIDE DEF after
  <2> QED
    BY <1>4, <2>1, <2>2, <2>3, <2>4 DEF Ordered
<1>9. ASSUME NEW u \in Evicting' PROVE MakesUp(after, u)'
  <2>1. CASE u = w
    <3>1. after[u] = rest /\ Target(u)' = Cardinality(Stored) /\ Kept(u)' \subseteq Stored
          /\ caller'[u].seen = brokenOff
      BY <1>2, <1>3, <2>1 DEF Target, Kept, At, Becomes
    <3>2. /\ Cardinality(Kept(u)') \in Nat /\ Cardinality(Kept(u)') <= Cardinality(Stored)
          /\ Cardinality(rest) \in Nat
      BY <1>r, <1>5, <3>1, SmallerSet
    <3> HIDE DEF after
    <3>3. ASSUME NEW since \in {settled, brokenOff}
          PROVE  Cardinality(Kept(u)') <= Cardinality(Stored) + Cardinality(rest) + (brokenOff - since)
      BY <1>5, <3>2
    <3>4. settled' = settled /\ brokenOff' = brokenOff
      BY <1>2
    <3> QED
      BY <3>1, <3>3, <3>4 DEF MakesUp
  <2>2. CASE u # w
    <3>1. u \in Evicting /\ u \in Workers /\ caller'[u] = caller[u] /\ after[u] = later[u]
      BY <1>4, <2>2 DEF Evicting
    <3>2. Target(u)' = Target(u) /\ Kept(u)' = Kept(u)
      BY <1>2, <3>1 DEF Target, Kept, At
    <3> QED
      BY <1>1, <1>2, <3>1, <3>2 DEF MakesUp
  <2> QED
    BY <2>1, <2>2
<1> HIDE DEF after
<1> QED
  BY <1>2, <1>5, <1>6, <1>7, <1>8, <1>9 DEF Evicts

\* Of the entries of a page as many are chosen as were counted beyond the cap, or all.
LEMMA ChosenOf ==
  ASSUME IsFiniteSet(Stored), NEW n \in Nat, n > MaxEntries,
         NEW page \in Pages(n), NEW ks \in Oldest(page, Excess(n))
  PROVE  /\ ks \subseteq Stored /\ IsFiniteSet(Stored \ ks)
         /\ Cardinality(ks) \in Nat /\ Cardinality(ks) <= Excess(n)
         /\ Cardinality(Stored \ ks) \in Nat
         /\ \/ Cardinality(Stored \ ks) = Cardinality(Stored) - (n - MaxEntries)
            \/ Cardinality(Stored \ ks) = 0
<1> DEFINE N == Cardinality(Stored)
           P == Cardinality(page)
           K == Cardinality(ks)
<1>1. /\ page \subseteq Stored /\ P = Min({n, N})
      /\ ks \subseteq page /\ K = Min({Excess(n), P})
  BY DEF Pages, Oldest
<1>2. N \in Nat /\ Excess(n) = n - MaxEntries /\ Excess(n) \in Nat
  BY FS_CardinalityType, ExcessOf, Constants
<1>3. /\ IsFiniteSet(page) /\ P \in Nat
      /\ N = P => page = Stored
      /\ ks \subseteq Stored /\ IsFiniteSet(ks) /\ K \in Nat
  BY <1>1, FS_Subset, FS_CardinalityType
<1>4. /\ IsFiniteSet(Stored \ ks) /\ Cardinality(Stored \ ks) = N - K
      /\ Cardinality(Stored \ ks) \in Nat
  <2>1. Stored \cap ks = ks
    BY <1>3
  <2>2. IsFiniteSet(Stored \ ks) /\ Cardinality(Stored \ ks) = N - Cardinality(Stored \cap ks)
    BY FS_Difference
  <2> QED
    BY <2>1, <2>2, FS_CardinalityType
<1>5. P \in {n, N} /\ P <= n /\ P <= N
  <2>1. Min({n, N}) \in {n, N} /\ Min({n, N}) <= n /\ Min({n, N}) <= N
    <3>1. n \in Int /\ N \in Int
      BY <1>2
    <3> QED
      BY <3>1, SmallerOfTwo
  <2> QED
    BY <1>1, <2>1
<1>6. K \in {Excess(n), P} /\ K <= Excess(n) /\ K <= P
  <2>1. /\ Min({Excess(n), P}) \in {Excess(n), P}
        /\ Min({Excess(n), P}) <= Excess(n) /\ Min({Excess(n), P}) <= P
    <3>1. Excess(n) \in Int /\ P \in Int
      BY <1>2, <1>3
    <3> QED
      BY <3>1, SmallerOfTwo
  <2> QED
    BY <1>1, <2>1
<1> HIDE DEF N, P, K
<1>7. K = Excess(n) \/ K = N
  BY <1>2, <1>5, <1>6, Constants
<1>8. Cardinality(Stored \ ks) = N - (n - MaxEntries) \/ Cardinality(Stored \ ks) = 0
  BY <1>2, <1>4, <1>7
<1> QED
  BY <1>3, <1>4, <1>6, <1>8 DEF N, K

\* The choice of an eviction leaves as much as it may, by its own count.
LEMMA EvictsScroll ==
  ASSUME Inv, NEW w \in Workers, Scroll(w)
  PROVE  Evicts'
<1>1. PICK later : Ordered(later) /\ \A u \in Evicting : MakesUp(later, u)
  BY DEF Inv, Evicts
<1>2. UNCHANGED <<entries, brokenOff, settled>> /\ Stored' = Stored /\ At(w, "scroll")
  BY ScrollEffect DEF Inv, Stored
<1>3. PICK page \in Pages(caller[w].count) : \E ks \in Oldest(page, Excess(caller[w].count)) :
        \E r : /\ Becomes(w, r) /\ r.step = "delete"
               /\ r.victims = ks /\ r.seen = caller[w].seen
  BY ScrollEffect DEF Inv
<1>k. PICK ks \in Oldest(page, Excess(caller[w].count)) :
        \E r : Becomes(w, r) /\ r.step = "delete" /\ r.victims = ks /\ r.seen = caller[w].seen
  BY <1>3
<1>4. PICK r : Becomes(w, r) /\ r.step = "delete" /\ r.victims = ks /\ r.seen = caller[w].seen
  BY <1>k
<1>5. /\ StoringNow' = StoringNow /\ Evicting' = Evicting /\ w \in Evicting
      /\ \A u \in Workers \ {w} : caller'[u] = caller[u]
  BY <1>2, <1>4 DEF Becomes, StoringNow, Evicting, StoringSteps, EvictingSteps, At
<1>6. /\ caller[w].count \in Nat /\ caller[w].count > MaxEntries
      /\ Excess(caller[w].count) <= Cardinality(Workers) + caller[w].seen
      /\ caller[w].seen <= brokenOff
      /\ caller[w].victims = {} /\ IsFiniteSet(Stored)
  BY <1>1, <1>2, Sizes DEF Inv, Evicts, Bounded, At
<1>7. /\ ks \subseteq Stored
      /\ Cardinality(ks) \in Nat /\ Cardinality(ks) <= Excess(caller[w].count)
      /\ Cardinality(Stored \ ks) \in Nat
      /\ \/ Cardinality(Stored \ ks) = Cardinality(Stored) - (caller[w].count - MaxEntries)
         \/ Cardinality(Stored \ ks) = 0
  BY <1>3, <1>4, <1>6, ChosenOf
<1>8. CacheWithinCap'
  BY <1>2, <1>5 DEF Inv, Evicts, CacheWithinCap
<1>9. ASSUME NEW u \in Workers PROVE Bounded(u)'
  <2>1. CASE u = w
    <3>1. Cardinality(ks) <= Cardinality(Workers) + caller[w].seen
      <4>1. Excess(caller[w].count) \in Nat
        BY <1>6, ExcessOf, Constants
      <4>2. Cardinality(Workers) \in Nat
        BY ConstantsAssumption, FS_CardinalityType
      <4>3. caller[w].seen \in Nat
        BY <1>1, Sizes
      <4> QED
        BY <1>6, <1>7, <4>1, <4>2, <4>3
    <3>2. caller'[u] = r
      BY <1>4, <2>1 DEF Becomes
    <3> QED
      BY <1>2, <1>4, <1>6, <3>1, <3>2 DEF Bounded, At
  <2>2. CASE u # w
    BY <1>2, <1>5, <2>2 DEF Inv, Evicts, Bounded, At
  <2> QED
    BY <2>1, <2>2
<1>10. Ordered(later)'
  <2>1. \A u \in Workers : caller'[u].seen = caller[u].seen
    BY <1>4, <1>5 DEF Becomes
  <2>2. \A u \in Evicting : u \in Workers
    BY DEF Evicting
  <2> QED
    BY <1>1, <1>5, <2>1, <2>2 DEF Ordered, CountedFirst
<1>11. ASSUME NEW u \in Evicting' PROVE MakesUp(later, u)'
  <2>1. CASE u = w
    <3>1. Target(u)' = MaxEntries /\ Kept(u)' = Stored \ ks /\ caller'[u].seen = caller[w].seen
      BY <1>2, <1>4, <2>1 DEF Target, Kept, At, Becomes
    <3>2. ASSUME NEW since \in {settled, caller[w].seen}
          PROVE  Cardinality(Stored \ ks)
                   <= MaxEntries + Cardinality(later[w]) + (brokenOff - since)
      <4>1. Cardinality(Kept(w)) <= Target(w) + Cardinality(later[w]) + (brokenOff - since)
        BY <1>1, <1>5 DEF MakesUp
      <4>2. Kept(w) = Stored /\ Target(w) = caller[w].count
        BY <1>2, <1>6 DEF Kept, Target, At
      <4>3. /\ Cardinality(later[w]) \in Nat /\ Cardinality(Stored) \in Nat
            /\ brokenOff \in Nat /\ since \in Nat /\ since <= brokenOff
        BY <1>1, Sizes
      <4> QED
        BY <1>6, <1>7, <4>1, <4>2, <4>3, Constants
    <3>3. settled' = settled /\ brokenOff' = brokenOff
      BY <1>2
    <3> QED
      BY <2>1, <3>1, <3>2, <3>3 DEF MakesUp
  <2>2. CASE u # w
    <3>1. u \in Evicting /\ u \in Workers /\ caller'[u] = caller[u]
      BY <1>5, <2>2 DEF Evicting
    <3>2. Target(u)' = Target(u) /\ Kept(u)' = Kept(u)
      BY <1>2, <3>1 DEF Target, Kept, At
    <3> QED
      BY <1>1, <1>2, <3>1, <3>2 DEF MakesUp
  <2> QED
    BY <2>1, <2>2
<1> QED
  BY <1>2, <1>6, <1>8, <1>9, <1>10, <1>11 DEF Evicts

\* Whoever else deletes leaves less to evict.
LEMMA EvictsOthers ==
  ASSUME Inv, UNCHANGED <<caller, brokenOff, settled>>, Stored' \subseteq Stored
  PROVE  Evicts'
<1>1. PICK later : Ordered(later) /\ \A u \in Evicting : MakesUp(later, u)
  BY DEF Inv, Evicts
<1>2. /\ StoringNow' = StoringNow /\ Evicting' = Evicting
      /\ Ordered(later)' /\ \A u \in Workers : Bounded(u)'
  BY <1>1 DEF StoringNow, Evicting, Ordered, CountedFirst, Inv, Evicts, Bounded, At
<1>3. /\ IsFiniteSet(Stored') /\ Cardinality(Stored') \in Nat
      /\ Cardinality(Stored') <= Cardinality(Stored) /\ Cardinality(Stored) \in Nat
  BY <1>1, Sizes, SmallerSet
<1>4. CacheWithinCap'
  <2>1. Cardinality(Stored) <= MaxEntries + Cardinality(StoringNow) + (brokenOff - settled)
    BY DEF Inv, Evicts, CacheWithinCap
  <2>2. /\ Cardinality(StoringNow) \in Nat /\ brokenOff \in Nat /\ settled \in Nat
    BY <1>1, Sizes
  <2>3. Cardinality(Stored') <= MaxEntries + Cardinality(StoringNow) + (brokenOff - settled)
    BY <1>3, <2>1, <2>2, Constants
  <2> QED
    BY <1>2, <2>3 DEF CacheWithinCap
<1>5. ASSUME NEW u \in Evicting' PROVE MakesUp(later, u)'
  <2>1. /\ u \in Evicting /\ u \in Workers
        /\ Kept(u)' \subseteq Kept(u) /\ Target(u)' = Target(u)
    BY <1>2 DEF Evicting, Kept, Target, At
  <2>2. /\ Cardinality(Kept(u)') \in Nat /\ Cardinality(Kept(u)) \in Nat
        /\ Cardinality(Kept(u)') <= Cardinality(Kept(u))
    BY <1>1, <2>1, Sizes, SmallerSet
  <2>3. ASSUME NEW since \in {settled, caller[u].seen}
        PROVE  Cardinality(Kept(u)') <= Target(u) + Cardinality(later[u]) + (brokenOff - since)
    <3>1. Cardinality(Kept(u)) <= Target(u) + Cardinality(later[u]) + (brokenOff - since)
      BY <1>1, <2>1 DEF MakesUp
    <3>2. Target(u) \in Nat /\ Cardinality(later[u]) \in Nat /\ brokenOff \in Nat /\ since \in Nat
      BY <1>1, <2>1, Sizes
    <3> QED
      BY <2>2, <3>1, <3>2
  <2> QED
    BY <2>1, <2>3 DEF MakesUp
<1> QED
  BY <1>2, <1>3, <1>4, <1>5 DEF Evicts

LEMMA EvictsNext == Inv /\ (\A w \in Workers : Unanswered(w)) /\ [Next]_vars => Evicts'
<1> SUFFICES ASSUME Inv, \A w \in Workers : Unanswered(w), [Next]_vars PROVE Evicts'
  OBVIOUS
<1>1. ASSUME NEW w \in Workers, Passes(w) PROVE Evicts'
  BY <1>1, EvictsPasses
<1>2. ASSUME NEW w \in Workers, Store(w) PROVE Evicts'
  BY <1>2, EvictsStore
<1>3. ASSUME NEW w \in Workers, Count(w) PROVE Evicts'
  BY <1>3, EvictsCountEnds, EvictsCountGoesOn
<1>4. ASSUME NEW w \in Workers, Scroll(w) PROVE Evicts'
  BY <1>4, EvictsScroll
<1>5. ASSUME NEW w \in Workers, Delete(w) PROVE Evicts'
  BY <1>5, EvictsDelete
<1>6. ASSUME NEW w \in Workers, BreaksOff(w) PROVE Evicts'
  BY <1>6, EvictsBreaksOff
<1>7. CASE Others
  BY <1>7, OthersEffect, EvictsOthers DEF Inv
<1>8. CASE UNCHANGED vars
  <2>1. UNCHANGED <<caller, brokenOff, settled>> /\ Stored' \subseteq Stored
    BY <1>8 DEF vars, Stored
  <2> QED
    BY <2>1, EvictsOthers
<1> QED
  BY <1>1, <1>2, <1>3, <1>4, <1>5, <1>6, <1>7, <1>8, StepCases

-------------------------------------------------------------------------------
(* Types and answers *)

Answers == \A w \in Workers : Unanswered(w)

\* What any step does to the calls.
CallsKept ==
  \/ caller' = caller
  \/ \E w \in Workers : \E r : Becomes(w, r) /\ KeepsAnswer(w, r)

LEMMA CallsKeptNext ==
  ASSUME Inv, Answers, [Next]_vars
  PROVE  CallsKept
<1>t. TypeOK /\ IsFiniteSet(Stored)
  BY DEF Inv, Evicts
<1>1. ASSUME NEW w \in Workers,
             Passes(w) \/ Store(w) \/ Scroll(w) \/ Delete(w) \/ BreaksOff(w)
      PROVE  \E r : Becomes(w, r) /\ KeepsAnswer(w, r)
  <2>1. Unanswered(w)
    BY DEF Answers
  <2>2. CASE Passes(w)
    BY <1>t, <2>1, <2>2, PassesEffect
  <2>3. CASE Store(w)
    BY <1>t, <2>3, StoreEffect
  <2>4. CASE Scroll(w)
    BY <1>t, <2>4, ScrollEffect
  <2>5. CASE Delete(w)
    BY <1>t, <2>5, DeleteEffect
  <2>6. CASE BreaksOff(w)
    BY <1>t, <2>6, BreaksOffEffect
  <2> QED
    BY <1>1, <2>2, <2>3, <2>4, <2>5, <2>6
<1>2. ASSUME NEW w \in Workers, Count(w)
      PROVE  \E r : Becomes(w, r) /\ KeepsAnswer(w, r)
  BY <1>t, <1>2, CountEndsEffect, CountGoesOnEffect
<1>3. CASE Others \/ UNCHANGED vars
  BY <1>t, <1>3, OthersEffect DEF vars, CallsKept
<1> QED
  BY <1>1, <1>2, <1>3, StepCases DEF CallsKept

LEMMA AnswersNext == Inv /\ Answers /\ [Next]_vars => Answers'
<1> SUFFICES ASSUME Inv, Answers, [Next]_vars PROVE Answers'
  OBVIOUS
<1>1. CASE caller' = caller
  BY <1>1 DEF Answers, Unanswered
<1>2. ASSUME NEW w \in Workers, NEW r, Becomes(w, r), KeepsAnswer(w, r) PROVE Answers'
  <2>1. Unanswered(w)'
    BY <1>2 DEF Becomes, KeepsAnswer, Unanswered
  <2>2. \A v \in Workers \ {w} : Unanswered(v)'
    BY <1>2 DEF Becomes, Answers, Unanswered
  <2> QED
    BY <2>1, <2>2 DEF Answers
<1> QED
  BY <1>1, <1>2, CallsKeptNext DEF CallsKept

LEMMA TypeNext == Inv /\ Answers /\ [Next]_vars => TypeOK'
<1> SUFFICES ASSUME Inv, Answers, [Next]_vars PROVE TypeOK'
  OBVIOUS
<1>t. TypeOK /\ IsFiniteSet(Stored)
  BY DEF Inv, Evicts
<1>1. /\ now \in 0..MaxTime /\ release \in 0..LastRelease /\ sweep \in SUBSET Keys
      /\ entries \in Collection /\ caller \in [Workers -> Calls]
      /\ settled \in Nat /\ brokenOff \in Nat /\ settled <= brokenOff /\ brokenOff <= MaxFaults
      /\ \A w \in Workers : caller[w].seen \in Nat /\ caller[w].seen <= brokenOff
  <2>1. PICK later : Ordered(later)
    BY DEF Inv, Evicts
  <2> QED
    BY <1>t, <2>1, Sizes DEF TypeOK, Collection
<1>2. caller' \in [Workers -> Calls]
  BY <1>1, CallsKeptNext DEF CallsKept, Becomes
<1>3. ASSUME now' \in 0..MaxTime, release' \in 0..LastRelease, sweep' \in SUBSET Keys,
             entries' \in Collection,
             settled' \in Nat, brokenOff' \in Nat, settled' <= brokenOff', brokenOff' <= MaxFaults
      PROVE  TypeOK'
  <2>1. settled' \in 0..MaxFaults /\ brokenOff' \in settled'..MaxFaults
    BY <1>3, Constants
  <2> QED
    BY <1>2, <1>3, <2>1 DEF TypeOK, Collection
<1>4. ASSUME NEW w \in Workers, Passes(w) PROVE TypeOK'
  <2>1. UNCHANGED <<now, release, sweep, entries, brokenOff, settled>>
    BY <1>t, <1>4, PassesEffect DEF Answers
  <2> QED
    BY <1>1, <1>3, <2>1
<1>5. ASSUME NEW w \in Workers, Store(w) PROVE TypeOK'
  <2>1. UNCHANGED <<now, release, sweep, brokenOff, settled>> /\ entries' \in Collection
    BY <1>t, <1>5, StoreEffect
  <2> QED
    BY <1>1, <1>3, <2>1
<1>6. ASSUME NEW w \in Workers, Count(w) PROVE TypeOK'
  <2>1. UNCHANGED <<now, release, sweep, entries, brokenOff>> /\ settled' \in {settled, brokenOff}
    BY <1>t, <1>6, CountEndsEffect, CountGoesOnEffect
  <2> QED
    BY <1>1, <1>3, <2>1
<1>7. ASSUME NEW w \in Workers, Scroll(w) PROVE TypeOK'
  <2>1. UNCHANGED <<now, release, sweep, entries, brokenOff, settled>>
    BY <1>t, <1>7, ScrollEffect
  <2> QED
    BY <1>1, <1>3, <2>1
<1>8. ASSUME NEW w \in Workers, Delete(w) PROVE TypeOK'
  <2>1. /\ UNCHANGED <<now, release, sweep, brokenOff>> /\ entries' \in Collection
        /\ settled' \in {settled, caller[w].seen}
    BY <1>t, <1>8, DeleteEffect
  <2> QED
    BY <1>1, <1>3, <2>1
<1>9. ASSUME NEW w \in Workers, BreaksOff(w) PROVE TypeOK'
  <2>1. /\ UNCHANGED <<now, release, sweep, settled>> /\ entries' \in Collection
        /\ brokenOff < MaxFaults /\ brokenOff' = brokenOff + 1
    BY <1>t, <1>9, BreaksOffEffect
  <2> QED
    BY <1>1, <1>3, <2>1, Constants
<1>10. CASE Others
  BY <1>t, <1>1, <1>3, <1>10, OthersEffect
<1>11. CASE UNCHANGED vars
  BY <1>1, <1>3, <1>11 DEF vars
<1> QED
  BY <1>4, <1>5, <1>6, <1>7, <1>8, <1>9, <1>10, <1>11, StepCases

LEMMA InvInit == Init => Inv /\ Answers
<1> SUFFICES ASSUME Init PROVE Inv /\ Answers
  OBVIOUS
<1>1. \A w \in Workers : caller[w] = Idle
  BY DEF Init
<1>2. TypeOK
  <2>1. NoEntry \in [created : -1..MaxTime, foundIn : 0..LastRelease]
    BY Constants DEF NoEntry, NoRelease
  <2> QED
    BY <2>1, IdleType, Constants DEF Init, TypeOK, NoRelease
<1>3. Stored = {} /\ StoringNow = {} /\ Evicting = {}
  BY <1>1, IdleType DEF Init, Stored, StoringNow, Evicting, StoringSteps, EvictingSteps
<1>4. Evicts
  <2>1. IsFiniteSet(Stored) /\ CacheWithinCap
    BY <1>3, FS_EmptySet, Constants DEF Init, CacheWithinCap
  <2>2. \A w \in Workers : Bounded(w)
    BY <1>1, IdleType DEF Init, Bounded, At
  <2>3. Ordered([w \in Workers |-> {}])
    BY <1>3 DEF Ordered
  <2> QED
    BY <1>3, <2>1, <2>2, <2>3 DEF Evicts
<1>5. Answers
  BY <1>1, IdleType DEF Answers, Unanswered
<1> QED
  BY <1>2, <1>4, <1>5 DEF Inv

\* The inductive invariant, with what is known of answers, always holds.
THEOREM InvHolds == Spec => [](Inv /\ Answers)
<1>1. Inv /\ Answers /\ [Next]_vars => (Inv /\ Answers)'
  BY EvictsNext, AnswersNext, TypeNext DEF Inv, Answers
<1> QED
  BY <1>1, InvInit, PTL DEF Spec

\* The variables keep their domains.
THEOREM CacheTypes == Spec => []TypeOK
<1>1. Inv => TypeOK
  BY DEF Inv
<1> QED
  BY <1>1, InvHolds, PTL

\* The collection is above its cap by no more than the stores under way and those
\* broken off since the last eviction: whatever number of evictions race, each
\* leaves the cap and what came after its own count.
THEOREM CacheIsCapped == Spec => []CacheWithinCap
<1>1. Inv => CacheWithinCap
  BY DEF Inv, Evicts
<1> QED
  BY <1>1, InvHolds, PTL

\* No eviction is out for more than the workers of its time and the stores
\* broken off before it can have added.
THEOREM EvictionsAreBounded == Spec => []EvictionIsBounded
<1>1. Inv => EvictionIsBounded
  <2> SUFFICES ASSUME Inv, NEW w \in Workers
               PROVE  Cardinality(caller[w].victims) <= Cardinality(Workers) + caller[w].seen
    BY DEF EvictionIsBounded
  <2>1. Bounded(w)
    BY DEF Inv, Evicts
  <2>2. CASE At(w, "delete")
    BY <2>1, <2>2 DEF Bounded
  <2>3. CASE ~At(w, "delete")
    <3>1. caller[w].victims = {} /\ Cardinality({}) = 0
      BY <2>1, <2>3, FS_EmptySet DEF Bounded
    <3>2. Cardinality(Workers) \in Nat /\ caller[w].seen \in Nat
      BY ConstantsAssumption, FS_CardinalityType, Constants DEF Inv, TypeOK, Calls
    <3> QED
      BY <3>1, <3>2
  <2> QED
    BY <2>2, <2>3
<1> QED
  BY <1>1, InvHolds, PTL

\* A generated answer is reported whatever becomes of the attempt to store it.
THEOREM AnswersSurvive == Spec => AnswerSurvivesCache
<1>1. Inv /\ Answers /\ [Next]_vars =>
        [\A w \in Workers :
           caller[w].answered /\ ~caller'[w].answered => caller'[w] = Idle \/ At(w, "put")]_vars
  <2> SUFFICES ASSUME Inv, Answers, [Next]_vars, NEW w \in Workers,
                      caller[w].answered, ~caller'[w].answered
               PROVE  caller'[w] = Idle \/ At(w, "put")
    OBVIOUS
  <2>1. CASE caller' = caller
    BY <2>1
  <2>2. ASSUME NEW v \in Workers, NEW r, Becomes(v, r), KeepsAnswer(v, r)
        PROVE  caller'[w] = Idle \/ At(w, "put")
    BY <2>2 DEF Becomes, KeepsAnswer
  <2> QED
    BY <2>1, <2>2, CallsKeptNext DEF CallsKept
<1> QED
  BY <1>1, InvHolds, PTL DEF Spec, AnswerSurvivesCache
===============================================================================
