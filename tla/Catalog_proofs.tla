---------------------------- MODULE Catalog_proofs ----------------------------
(***************************************************************************)
(* Theorems about the offline preparation of the catalog: that the         *)
(* generator of facts and their validator agree (CatalogFacts), and about  *)
(* the jobs that work on these facts (CatalogJobs), for any number of jobs *)
(* that run and that were started, any files, categories, models, modes.   *)
(***************************************************************************)
EXTENDS CatalogFacts, CatalogJobs, TLAPS

-------------------------------------------------------------------------------
(* The facts *)

CategoryNames ==
  {"Headphones", "PortableSpeakers", "ElectricKettles", "TableLamps", "Keyboards",
   "DeskOrganizers", "YogaMats", "Dumbbells", "Backpacks", "CampingLanterns"}

\* A place in the order of the categories has one of them.
LEMMA PlaceHasCategory ==
  ASSUME NEW i \in 1..10
  PROVE  Categories[i] \in CategoryNames
<1>1. Categories[1] = "Headphones"
  BY DEF Categories
<1>2. Categories[2] = "PortableSpeakers"
  BY DEF Categories
<1>3. Categories[3] = "ElectricKettles"
  BY DEF Categories
<1>4. Categories[4] = "TableLamps"
  BY DEF Categories
<1>5. Categories[5] = "Keyboards"
  BY DEF Categories
<1>6. Categories[6] = "DeskOrganizers"
  BY DEF Categories
<1>7. Categories[7] = "YogaMats"
  BY DEF Categories
<1>8. Categories[8] = "Dumbbells"
  BY DEF Categories
<1>9. Categories[9] = "Backpacks"
  BY DEF Categories
<1>10. Categories[10] = "CampingLanterns"
  BY DEF Categories
<1>11. i = 1 \/ i = 2 \/ i = 3 \/ i = 4 \/ i = 5 \/ i = 6 \/ i = 7 \/ i = 8 \/ i = 9 \/ i = 10
  OBVIOUS
<1> QED
  BY <1>1, <1>2, <1>3, <1>4, <1>5, <1>6, <1>7, <1>8, <1>9, <1>10, <1>11 DEF CategoryNames

\* What is drawn in steps stays in its range.
LEMMA PowerInRange == Steps(800, 2200, 100) \subseteq 800..2200
  BY DEF Steps

LEMMA LampLumensInRange == Steps(200, 1600, 50) \subseteq 200..1600
  BY DEF Steps

LEMMA LanternLumensInRange == Steps(100, 1500, 50) \subseteq 100..1500
  BY DEF Steps

\* The attributes drawn for a category follow its rules.
LEMMA AttributesFollowRules ==
  \A c \in CategoryNames : Attributes(c) \subseteq Rules(c)
<1>1. \A a : a \in Attributes("Headphones") => a \in Rules("Headphones")
  BY DEF Attributes, Rules
<1>2. \A a : a \in Attributes("PortableSpeakers") => a \in Rules("PortableSpeakers")
  BY DEF Attributes, Rules
<1>3. \A a : a \in Attributes("ElectricKettles") => a \in Rules("ElectricKettles")
  BY PowerInRange DEF Attributes, Rules
<1>4. \A a : a \in Attributes("TableLamps") => a \in Rules("TableLamps")
  BY LampLumensInRange DEF Attributes, Rules
<1>5. \A a : a \in Attributes("Keyboards") => a \in Rules("Keyboards")
  BY DEF Attributes, Rules
<1>6. \A a : a \in Attributes("DeskOrganizers") => a \in Rules("DeskOrganizers")
  BY DEF Attributes, Rules
<1>7. \A a : a \in Attributes("YogaMats") => a \in Rules("YogaMats")
  BY DEF Attributes, Rules
<1>8. \A a : a \in Attributes("Dumbbells") => a \in Rules("Dumbbells")
  BY DEF Attributes, Rules
<1>9. \A a : a \in Attributes("Backpacks") => a \in Rules("Backpacks")
  BY DEF Attributes, Rules
<1>10. \A a : a \in Attributes("CampingLanterns") => a \in Rules("CampingLanterns")
  BY LanternLumensInRange DEF Attributes, Rules
<1> QED
  BY <1>1, <1>2, <1>3, <1>4, <1>5, <1>6, <1>7, <1>8, <1>9, <1>10 DEF CategoryNames

LEMMA LineHasCategory ==
  ASSUME NEW index \in Nat
  PROVE  (index % 10) + 1 \in 1..10
  OBVIOUS

\* The ranges of a profile are of positive numbers, so that no bound of a single
\* field can be missed.
Positive(profile) ==
  /\ \A n \in profile.price : n \in Nat
  /\ \A n \in profile.weight : n \in Nat /\ n > 0
  /\ \A n \in Around(profile.length) : n \in Nat /\ n > 0
  /\ \A n \in Around(profile.width) : n \in Nat /\ n > 0
  /\ \A n \in Around(profile.height) : n \in Nat /\ n > 0

LEMMA ProfileIsPositive ==
  ASSUME NEW low \in Int, NEW high \in Int, NEW x \in Int, NEW y \in Int, NEW z \in Int,
         NEW light \in Int, NEW heavy \in Int,
         low >= 0, x > 0, y > 0, z > 0, light > 0
  PROVE  Positive(Profile(low, high, x, y, z, light, heavy))
<1>1. \A d \in Int : d > 0 => \A n \in Around(d) : n \in Nat /\ n > 0
  BY DEF Around
<1> QED
  BY <1>1 DEF Positive, Profile

LEMMA ProfilesArePositive ==
  \A c \in CategoryNames : Positive(ProfileOf(c))
<1>1. Positive(ProfileOf("Headphones"))
  <2>1. ProfileOf("Headphones") = Profile(2000, 25000, 1900, 1700, 800, 150, 450)
    BY DEF ProfileOf
  <2> QED
    BY <2>1, ProfileIsPositive, SMTT(60)
<1>2. Positive(ProfileOf("PortableSpeakers"))
  <2>1. ProfileOf("PortableSpeakers") = Profile(1500, 20000, 1800, 800, 800, 200, 1800)
    BY DEF ProfileOf
  <2> QED
    BY <2>1, ProfileIsPositive, SMTT(60)
<1>3. Positive(ProfileOf("ElectricKettles"))
  <2>1. ProfileOf("ElectricKettles") = Profile(1800, 14000, 2200, 1700, 2500, 600, 1800)
    BY DEF ProfileOf
  <2> QED
    BY <2>1, ProfileIsPositive, SMTT(60)
<1>4. Positive(ProfileOf("TableLamps"))
  <2>1. ProfileOf("TableLamps") = Profile(1500, 16000, 2000, 2000, 3800, 400, 2500)
    BY DEF ProfileOf
  <2> QED
    BY <2>1, ProfileIsPositive, SMTT(60)
<1>5. Positive(ProfileOf("Keyboards"))
  <2>1. ProfileOf("Keyboards") = Profile(2000, 20000, 3600, 1400, 400, 350, 1200)
    BY DEF ProfileOf
  <2> QED
    BY <2>1, ProfileIsPositive, SMTT(60)
<1>6. Positive(ProfileOf("DeskOrganizers"))
  <2>1. ProfileOf("DeskOrganizers") = Profile(700, 6500, 2800, 1800, 1200, 200, 1500)
    BY DEF ProfileOf
  <2> QED
    BY <2>1, ProfileIsPositive, SMTT(60)
<1>7. Positive(ProfileOf("YogaMats"))
  <2>1. ProfileOf("YogaMats") = Profile(1500, 12000, 18300, 6100, 60, 500, 3000)
    BY DEF ProfileOf
  <2> QED
    BY <2>1, ProfileIsPositive, SMTT(60)
<1>8. Positive(ProfileOf("Dumbbells"))
  <2>1. ProfileOf("Dumbbells") = Profile(2000, 45000, 2800, 1500, 1500, 1000, 30000)
    BY DEF ProfileOf
  <2> QED
    BY <2>1, ProfileIsPositive, SMTT(60)
<1>9. Positive(ProfileOf("Backpacks"))
  <2>1. ProfileOf("Backpacks") = Profile(2500, 25000, 4800, 3000, 2000, 300, 2500)
    BY DEF ProfileOf
  <2> QED
    BY <2>1, ProfileIsPositive, SMTT(60)
<1>10. Positive(ProfileOf("CampingLanterns"))
  <2>1. ProfileOf("CampingLanterns") = Profile(1500, 15000, 1400, 1400, 2200, 150, 1200)
    BY DEF ProfileOf
  <2> QED
    BY <2>1, ProfileIsPositive, SMTT(60)
<1> QED
  BY <1>1, <1>2, <1>3, <1>4, <1>5, <1>6, <1>7, <1>8, <1>9, <1>10 DEF CategoryNames

LEMMA MatHeight ==
  ASSUME NEW a \in Rules("YogaMats")
  PROVE  10 * a.thickness_mm > 0
  BY DEF Rules

LEMMA DumbbellWeight ==
  ASSUME NEW a \in Rules("Dumbbells")
  PROVE  1000 * a.per_piece_kg * a.piece_count > 0
<1>1. a.per_piece_kg \in 1..30 /\ a.piece_count \in 1..2
  BY DEF Rules
<1> QED
  BY <1>1

LEMMA Batteries ==
  ASSUME NEW a \in Attributes("Headphones")
  PROVE  /\ a.connection = "wired" => a.battery_hours = 0
         /\ a.connection = "bluetooth" => a.battery_hours >= 12
  BY DEF Attributes

\* Whatever the generator may draw for a line, in any category, the validator
\* of the later jobs accepts: the two tables of ranges agree, and so do the
\* rules that tie fields together.
THEOREM GeneratedIsValid ==
  ASSUME NEW index \in Nat, NEW p, Generates(index, p)
  PROVE  Validates(p)
<1> DEFINE c == Categories[(index % 10) + 1]
<1>1. c \in CategoryNames
  BY LineHasCategory, PlaceHasCategory
<1>2. p.category = c
  BY DEF Generates
<1>3. p.attributes \in Attributes(c) /\ p.attributes \in Rules(c)
  BY <1>1, AttributesFollowRules DEF Generates
<1> HIDE DEF c
<1>4. p.price_cents \in ProfileOf(c).price
  BY DEF Generates, c
<1>5. /\ p.length_cm \in Around(ProfileOf(c).length)
      /\ p.width_cm \in Around(ProfileOf(c).width)
      /\ c # "YogaMats" => p.height_cm \in Around(ProfileOf(c).height)
      /\ c = "YogaMats" => p.height_cm = 10 * p.attributes.thickness_mm
  BY DEF Generates, c
<1>6. /\ c # "Dumbbells" => p.weight_kg \in ProfileOf(c).weight
      /\ c = "Dumbbells" => p.weight_kg = 1000 * p.attributes.per_piece_kg * p.attributes.piece_count
  BY DEF Generates, c
<1>7. p.stock \in Nat /\ p.available = (p.stock > 0)
  <2>1. p.stock \in IF index % 9 = 0 THEN {0} ELSE 1..120
    BY DEF Generates
  <2>2. p.available = (p.stock > 0)
    BY Zenon DEF Generates
  <2> QED
    BY <2>1, <2>2
<1>13. \/ p.rating_count = 0 /\ p.rating_average = Unrated
       \/ p.rating_count \in 1..900 /\ p.rating_average \in 10..50
  BY DEF Generates
<1>8. InBounds(p)
  <2>1. Positive(ProfileOf(c))
    BY <1>1, ProfilesArePositive
  <2>2. p.price_cents >= 0 /\ p.length_cm > 0 /\ p.width_cm > 0
    <3>1. p.price_cents \in Nat
      BY <1>4, <2>1 DEF Positive
    <3>2. p.length_cm > 0 /\ p.width_cm > 0
      BY <1>5, <2>1 DEF Positive
    <3> QED
      BY <3>1, <3>2
  <2>3. p.height_cm > 0
    BY <1>3, <1>5, <2>1, MatHeight DEF Positive
  <2>4. p.weight_kg > 0
    BY <1>3, <1>6, <2>1, DumbbellWeight DEF Positive
  <2> QED
    BY SMTT(30), <1>7, <1>13, <2>2, <2>3, <2>4 DEF InBounds, Unrated
<1>9. InHierarchy(p)
  <2>1. p.department \in DOMAIN Departments /\ c \in Departments[p.department]
    BY DEF Generates, c
  <2>2. \E i \in 1..10 : c = Categories[i]
    BY LineHasCategory DEF c
  <2> QED
    BY <1>2, <2>1, <2>2 DEF InHierarchy
<1>10. Consistent(p)
  BY SMTT(30), <1>7, <1>13 DEF Consistent, Unrated
<1>11. Measured(p)
  BY <1>2, <1>5, <1>6 DEF Measured
<1>12. AttributesAgree(p)
  BY <1>2, <1>3, <1>5, <1>6, Batteries DEF AttributesAgree
<1> QED
  BY <1>2, <1>3, <1>4, <1>8, <1>9, <1>10, <1>11, <1>12 DEF Validates

-------------------------------------------------------------------------------
(* The jobs *)

Sources == Contents \X Modes

Entries == [id : Ids, selected : Selections] \cup {Unreadable}

ProductFiles == Seq(Entries)

Manifests ==
  [stored : Sources \cup {<<NoContent, NoContent>>}, checksum : ProductFiles]

Directories == [products : ProductFiles, manifest : Manifests, freezes : SUBSET Jobs]

FreezeSteps == {"progress", "stage"} \cup StagedSteps

DescribeSteps == {"connect", "insert", "open", "product", "ask", "approve", "propose"}

JobRecords ==
  [step : {"idle", "generate"} \cup DescribeSteps \cup FreezeSteps,
   content : Contents \cup {NoContent}, mode : Modes \cup {NoContent},
   source : Contents \cup {NoContent}, lines : 0..Count, next : Nat,
   selected : Selections \cup {NoSelection}, writes : {"none", "staging", "output"}]

Approvals == [selected : Selections, by : Sources] \cup {NoApproval}

Typed ==
  /\ facts \in [content : Contents \cup {NoContent}, lines : 0..Count]
  /\ metadata \in Seq(Sources)
  /\ approved \in [Ids -> Approvals]
  /\ templates \in [Range(Category) -> Selections \cup {NoSelection}]
  /\ staging \in Directories /\ output \in Directories
  /\ job \in [Jobs -> JobRecords]

\* The line of a product that is being described is one of the file, and what
\* will be approved is a selection; only a freeze that fills has products open.
Working(r) ==
  /\ r.step \in DescribeSteps => r.content \in Contents /\ r.mode \in Modes
  /\ r.step \in {"product", "ask", "approve", "propose"} => r.next >= 1
  /\ r.step \in {"ask", "approve", "propose"} => r.next <= Count
  /\ r.step \in {"approve", "propose"} => r.selected \in Selections
  /\ r.step \in FreezeSteps \ {"progress"} => metadata # <<>>
  /\ r.step = "fill" => r.next >= 1
  /\ r.writes # "none" => r.step = "fill"

JobsWork == \A j \in Jobs : Working(job[j])

TypeInv == Typed /\ JobsWork

-------------------------------------------------------------------------------
(* Types *)

LEMMA CountType == Count \in Nat /\ Count >= 1 /\ DOMAIN Category = 1..Count
  BY ConstantsAssumption DEF Count

LEMMA CategoryType == \A n \in 1..Count : Category[n] \in Range(Category)
  BY CountType DEF Range

LEMMA IdleType == Idle \in JobRecords /\ Idle.step = "idle" /\ Idle.writes = "none"
  BY CountType DEF Idle, JobRecords

LEMMA AbsentType == Absent \in Directories
<1>1. <<>> \in ProductFiles
  BY DEF ProductFiles
<1>2. NoManifest \in Manifests
  BY <1>1 DEF NoManifest, Manifests
<1> QED
  BY <1>1, <1>2 DEF Absent, Directories

LEMMA ApprovedType ==
  Typed => /\ Approved \subseteq Ids
           /\ \A id \in Approved : approved[id] \in [selected : Selections, by : Sources]
  BY DEF Typed, Approved, Approvals

LEMMA TypeInit == Init => TypeInv
<1> SUFFICES ASSUME Init PROVE TypeInv
  OBVIOUS
<1>1. facts \in [content : Contents \cup {NoContent}, lines : 0..Count]
  BY CountType DEF Init, NoFacts
<1>2. approved \in [Ids -> Approvals]
  BY DEF Init, Approvals
<1>3. metadata \in Seq(Sources)
  BY DEF Init
<1>4. templates \in [Range(Category) -> Selections \cup {NoSelection}]
  BY DEF Init
<1>5. job \in [Jobs -> JobRecords] /\ \A j \in Jobs : job[j].step = "idle" /\ job[j].writes = "none"
  BY IdleType DEF Init
<1>6. JobsWork
  BY <1>5 DEF JobsWork, Working, DescribeSteps, FreezeSteps, StagedSteps
<1> QED
  BY <1>1, <1>2, <1>3, <1>4, <1>5, <1>6, AbsentType DEF Init, TypeInv, Typed

\* One job changes its state, and to r.
Becomes(j, r) ==
  /\ job' \in [Jobs -> JobRecords]
  /\ job'[j] = r
  /\ \A k \in Jobs \ {j} : job'[k] = job[k]

LEMMA JobSet ==
  ASSUME Typed, NEW j \in Jobs, NEW r \in JobRecords, job' = [job EXCEPT ![j] = r]
  PROVE  Becomes(j, r)
  BY DEF Typed, Becomes

LEMMA GoesEffect ==
  ASSUME Typed, NEW j \in Jobs, NEW step \in DescribeSteps \cup FreezeSteps, Goes(j, step)
  PROVE  Becomes(j, [job[j] EXCEPT !.step = step])
<1> DEFINE r == [job[j] EXCEPT !.step = step]
<1>1. r \in JobRecords
  <2>1. job[j] \in JobRecords
    BY DEF Typed
  <2>2. \A i \in JobRecords : [i EXCEPT !.step = step] \in JobRecords
    BY DEF JobRecords
  <2> QED
    BY <2>1, <2>2
<1>2. job' = [job EXCEPT ![j] = r]
  BY DEF Goes
<1> HIDE DEF r
<1>3. Becomes(j, r)
  BY <1>1, <1>2, JobSet
<1> QED
  BY <1>3 DEF r

LEMMA StartsEffect ==
  ASSUME Typed, NEW j \in Jobs, NEW step \in {"generate", "connect", "progress"},
         NEW content \in Contents, NEW mode \in Modes \cup {NoContent},
         Starts(j, step, content, mode)
  PROVE  Becomes(j, [Idle EXCEPT !.step = step, !.content = content, !.mode = mode])
<1> DEFINE r == [Idle EXCEPT !.step = step, !.content = content, !.mode = mode]
<1>1. \A i \in JobRecords :
         [i EXCEPT !.step = step, !.content = content, !.mode = mode] \in JobRecords
  BY DEF JobRecords, DescribeSteps, FreezeSteps
<1>. r \in JobRecords
  BY <1>1, IdleType
<1>2. job' = [job EXCEPT ![j] = r]
  BY DEF Starts
<1> HIDE DEF r
<1>3. Becomes(j, r)
  BY <1>2, JobSet
<1> QED
  BY <1>3 DEF r

Opened(j) ==
  [job[j] EXCEPT !.step = "product", !.source = facts.content, !.lines = facts.lines, !.next = 1]

LEMMA OpensEffect ==
  ASSUME Typed, NEW j \in Jobs, Opens(j, "product")
  PROVE  Becomes(j, Opened(j))
<1>a. facts.content \in Contents \cup {NoContent} /\ facts.lines \in 0..Count
      /\ job[j] \in JobRecords
  BY DEF Typed
<1>b. \A i \in JobRecords, content \in Contents \cup {NoContent}, lines \in 0..Count :
         [i EXCEPT !.step = "product", !.source = content, !.lines = lines, !.next = 1] \in JobRecords
  BY DEF JobRecords, DescribeSteps, FreezeSteps
<1>1. Opened(j) \in JobRecords
  BY <1>a, <1>b DEF Opened
<1>2. job' = [job EXCEPT ![j] = Opened(j)]
  BY DEF Opens, Opened, Typed
<1> QED
  BY <1>1, <1>2, JobSet

LEMMA WorkKept ==
  ASSUME TypeInv, NEW j \in Jobs, NEW r, Becomes(j, r), Working(r),
         metadata # <<>> => metadata' # <<>>
  PROVE  JobsWork'
  BY DEF TypeInv, JobsWork, Working, Becomes

LEMMA EndsType ==
  ASSUME TypeInv, NEW j \in Jobs, job' = [job EXCEPT ![j] = Idle],
         metadata # <<>> => metadata' # <<>>
  PROVE  Becomes(j, Idle) /\ JobsWork'
<1>1. Becomes(j, Idle)
  BY IdleType, JobSet DEF TypeInv
<1>2. Working(Idle)
  BY IdleType DEF Working, DescribeSteps, FreezeSteps, StagedSteps
<1> QED
  BY <1>1, <1>2, WorkKept

LEMMA GoesType ==
  ASSUME TypeInv, NEW j \in Jobs, NEW step, Goes(j, step),
         \/ job[j].step \in DescribeSteps /\ step \in {"insert", "open"}
         \/ metadata # <<>> /\ job[j].step # "fill" /\ step \in FreezeSteps \ {"fill"},
         metadata # <<>> => metadata' # <<>>
  PROVE  Becomes(j, [job[j] EXCEPT !.step = step]) /\ JobsWork'
<1> DEFINE r == [job[j] EXCEPT !.step = step]
<1>1. step \in DescribeSteps \cup FreezeSteps
  BY DEF DescribeSteps
<1>2. Becomes(j, r)
  BY <1>1, GoesEffect DEF TypeInv
<1>3. Working(job[j]) /\ job[j] \in JobRecords
  BY DEF TypeInv, JobsWork, Typed
<1>4. /\ r.step = step /\ r.content = job[j].content /\ r.mode = job[j].mode
      /\ r.writes = job[j].writes
  BY <1>3 DEF JobRecords
<1> HIDE DEF r
<1>5. Working(r)
  BY <1>3, <1>4 DEF Working, DescribeSteps, FreezeSteps, StagedSteps
<1>6. JobsWork'
  BY <1>2, <1>5, WorkKept
<1> QED
  BY <1>2, <1>6 DEF r

LEMMA StartsType ==
  ASSUME TypeInv, NEW j \in Jobs, NEW step \in {"generate", "connect", "progress"},
         NEW content \in Contents, NEW mode \in Modes \cup {NoContent},
         Starts(j, step, content, mode), step = "connect" => mode \in Modes,
         UNCHANGED metadata
  PROVE  Becomes(j, [Idle EXCEPT !.step = step, !.content = content, !.mode = mode]) /\ JobsWork'
<1> DEFINE r == [Idle EXCEPT !.step = step, !.content = content, !.mode = mode]
<1>1. Becomes(j, r)
  BY StartsEffect DEF TypeInv
<1>2. r.step = step /\ r.content = content /\ r.mode = mode /\ r.writes = "none"
  BY DEF Idle
<1> HIDE DEF r
<1>3. Working(r)
  BY <1>2 DEF Working, DescribeSteps, FreezeSteps, StagedSteps
<1>4. JobsWork'
  BY <1>1, <1>3, WorkKept
<1> QED
  BY <1>1, <1>4 DEF r

LEMMA OpensType ==
  ASSUME TypeInv, NEW j \in Jobs, Opens(j, "product"), job[j].step = "open", UNCHANGED metadata
  PROVE  Becomes(j, Opened(j)) /\ JobsWork'
<1>1. Becomes(j, Opened(j))
  BY OpensEffect DEF TypeInv
<1>2. Working(job[j]) /\ job[j] \in JobRecords
  BY DEF TypeInv, JobsWork, Typed
<1>3. /\ Opened(j).step = "product" /\ Opened(j).next = 1 /\ Opened(j).writes = job[j].writes
      /\ Opened(j).content = job[j].content /\ Opened(j).mode = job[j].mode
  BY <1>2 DEF JobRecords, Opened
<1>4. Working(Opened(j))
  BY <1>2, <1>3, CountType DEF Working, DescribeSteps, FreezeSteps, StagedSteps
<1> QED
  BY <1>1, <1>4, WorkKept

\* What a describe job becomes within the loop over the products.
DescribesOn(j, r) ==
  /\ r \in JobRecords
  /\ r.content = job[j].content /\ r.mode = job[j].mode /\ r.writes = job[j].writes
  /\ r.step = "product" => r.next >= 1
  /\ r.step # "product" => r.next = job[j].next
  /\ r.step \in {"approve", "propose"} => r.selected \in Selections

LEMMA DescribesType ==
  ASSUME TypeInv, NEW j \in Jobs, NEW r, DescribesOn(j, r),
         r.step \in {"product", "ask", "approve", "propose"},
         job[j].step \in DescribeSteps, job[j].next \in 1..Count,
         job' = [job EXCEPT ![j] = r], UNCHANGED metadata
  PROVE  Becomes(j, r) /\ JobsWork'
<1>1. Becomes(j, r)
  BY JobSet DEF TypeInv, DescribesOn
<1>2. Working(job[j])
  BY DEF TypeInv, JobsWork
<1>3. Working(r)
  BY <1>2 DEF Working, DescribesOn, DescribeSteps, FreezeSteps, StagedSteps
<1> QED
  BY <1>1, <1>3, WorkKept

TemplateChosen(j, r) ==
  /\ r.step \in {"product", "ask", "approve"}
  /\ r.step = "approve" => r.mode \in Templates /\ r.selected = templates[CategoryOf(j)]

LEMMA ProductType ==
  ASSUME TypeInv, NEW j \in Jobs, Product(j)
  PROVE  \E r : Becomes(j, r) /\ JobsWork' /\ DescribesOn(j, r) /\ TemplateChosen(j, r)
<1>1. Working(job[j]) /\ job[j] \in JobRecords /\ job[j].lines \in 0..Count /\ job[j].next \in Nat
  BY DEF TypeInv, JobsWork, Typed, JobRecords
<1>2. job[j].step = "product" /\ job[j].step \in DescribeSteps /\ job[j].next \in 1..Count
  BY <1>1, CountType DEF Product, At, Working, DescribeSteps
<1>3. templates[CategoryOf(j)] \in Selections \cup {NoSelection}
  BY <1>2, CategoryType DEF CategoryOf, TypeInv, Typed
<1>4. UNCHANGED metadata /\ job \in [Jobs -> JobRecords]
  BY DEF Product, progress, TypeInv, Typed
<1>5. CASE job' = [job EXCEPT ![j].next = @ + 1]
  <2> DEFINE r == [job[j] EXCEPT !.next = job[j].next + 1]
  <2>1. job' = [job EXCEPT ![j] = r]
    BY <1>4, <1>5
  <2>2. r \in JobRecords
    BY <1>1 DEF JobRecords
  <2>3. /\ r.step = "product" /\ r.next >= 1
        /\ r.content = job[j].content /\ r.mode = job[j].mode /\ r.writes = job[j].writes
    BY <1>1, <1>2 DEF JobRecords
  <2> HIDE DEF r
  <2>4. DescribesOn(j, r)
    BY <2>2, <2>3 DEF DescribesOn
  <2>5. Becomes(j, r) /\ JobsWork'
    BY <1>2, <1>4, <2>1, <2>3, <2>4, DescribesType
  <2> QED
    BY <2>3, <2>4, <2>5 DEF TemplateChosen
<1>6. CASE /\ Template(j) # NoSelection
           /\ job' = [job EXCEPT ![j].step = "approve", ![j].selected = Template(j)]
  <2>1. job[j].mode \in Templates /\ Template(j) = templates[CategoryOf(j)]
    BY <1>6 DEF Template
  <2>2. PICK s \in Selections : s = templates[CategoryOf(j)]
    BY <1>3, <1>6, <2>1
  <2> DEFINE r == [job[j] EXCEPT !.step = "approve", !.selected = s]
  <2>3. job' = [job EXCEPT ![j] = r]
    BY <1>4, <1>6, <2>1, <2>2
  <2>4. r \in JobRecords
    BY <1>1 DEF JobRecords, DescribeSteps
  <2>5. /\ r.step = "approve" /\ r.next = job[j].next /\ r.selected = s
        /\ r.content = job[j].content /\ r.mode = job[j].mode /\ r.writes = job[j].writes
    BY <1>1 DEF JobRecords
  <2> HIDE DEF r
  <2>6. DescribesOn(j, r)
    BY <2>4, <2>5 DEF DescribesOn
  <2>7. Becomes(j, r) /\ JobsWork'
    BY <1>2, <1>4, <2>3, <2>5, <2>6, DescribesType
  <2> QED
    BY <2>1, <2>2, <2>5, <2>6, <2>7 DEF TemplateChosen
<1>7. CASE Goes(j, "ask")
  <2> DEFINE r == [job[j] EXCEPT !.step = "ask"]
  <2>1. job' = [job EXCEPT ![j] = r]
    BY <1>4, <1>7 DEF Goes
  <2>2. r \in JobRecords
    BY <1>1 DEF JobRecords, DescribeSteps
  <2>3. /\ r.step = "ask" /\ r.next = job[j].next
        /\ r.content = job[j].content /\ r.mode = job[j].mode /\ r.writes = job[j].writes
    BY <1>1 DEF JobRecords
  <2> HIDE DEF r
  <2>4. DescribesOn(j, r)
    BY <2>2, <2>3 DEF DescribesOn
  <2>5. Becomes(j, r) /\ JobsWork'
    BY <1>2, <1>4, <2>1, <2>3, <2>4, DescribesType
  <2> QED
    BY <2>3, <2>4, <2>5 DEF TemplateChosen
<1> QED
  BY <1>5, <1>6, <1>7 DEF Product

LEMMA AskType ==
  ASSUME TypeInv, NEW j \in Jobs, Ask(j)
  PROVE  \E r : Becomes(j, r) /\ JobsWork' /\ DescribesOn(j, r) /\ r.step = "propose"
<1>1. Working(job[j]) /\ job[j] \in JobRecords
  BY DEF TypeInv, JobsWork, Typed
<1>2. job[j].step = "ask" /\ job[j].step \in DescribeSteps /\ job[j].next \in 1..Count
  BY <1>1, CountType DEF Ask, At, Working, DescribeSteps, JobRecords
<1>3. PICK s \in Selections : job' = [job EXCEPT ![j].step = "propose", ![j].selected = s]
  BY DEF Ask
<1>4. UNCHANGED metadata /\ job \in [Jobs -> JobRecords]
  BY DEF Ask, progress, TypeInv, Typed
<1> DEFINE r == [job[j] EXCEPT !.step = "propose", !.selected = s]
<1>5. job' = [job EXCEPT ![j] = r]
  BY <1>3, <1>4
<1>6. r \in JobRecords
  BY <1>1 DEF JobRecords, DescribeSteps
<1>7. /\ r.step = "propose" /\ r.next = job[j].next /\ r.selected = s
      /\ r.content = job[j].content /\ r.mode = job[j].mode /\ r.writes = job[j].writes
  BY <1>1 DEF JobRecords
<1> HIDE DEF r
<1>8. DescribesOn(j, r)
  BY <1>6, <1>7 DEF DescribesOn
<1>9. Becomes(j, r) /\ JobsWork'
  BY <1>2, <1>4, <1>5, <1>7, <1>8, DescribesType
<1> QED
  BY <1>7, <1>8, <1>9

\* An approval is of a product that has none, and has the job's selection.
Adds(j) ==
  /\ approved' \in [Ids -> Approvals]
  /\ \A id \in Approved : approved'[id] = approved[id]
  /\ \A id \in Ids \ Approved :
       \/ approved'[id] = approved[id]
       \/ /\ id = Id(j)
          /\ approved'[id].selected = job[j].selected /\ approved'[id].by = By(j)

LEMMA ApprovesType ==
  ASSUME TypeInv, NEW j \in Jobs, Approves(j), job[j].step \in {"approve", "propose"}
  PROVE  /\ job[j].next \in 1..Count /\ CategoryOf(j) \in Range(Category)
         /\ job[j].selected \in Selections /\ By(j) \in Sources
         /\ Adds(j)
         /\ \E r : Becomes(j, r) /\ JobsWork' /\ DescribesOn(j, r) /\ r.step = "product"
<1>1. Working(job[j]) /\ job[j] \in JobRecords
  BY DEF TypeInv, JobsWork, Typed
<1>2. /\ job[j].step \in DescribeSteps /\ job[j].next \in 1..Count
      /\ job[j].selected \in Selections /\ job[j].content \in Contents /\ job[j].mode \in Modes
  BY <1>1, CountType DEF Working, DescribeSteps, JobRecords
<1>3. CategoryOf(j) \in Range(Category) /\ By(j) \in Sources
  BY <1>2, CategoryType DEF CategoryOf, By, Sources
<1>4. Adds(j)
  <2> DEFINE row == [selected |-> job[j].selected, by |-> By(j)]
  <2>1. row \in Approvals /\ row.selected = job[j].selected /\ row.by = By(j)
    BY <1>2, <1>3 DEF Approvals
  <2>2. approved' = [approved EXCEPT ![Id(j)] = row] /\ Id(j) \notin Approved
    BY DEF Approves
  <2>3. approved \in [Ids -> Approvals] /\ Approved \subseteq Ids
    BY ApprovedType DEF TypeInv, Typed
  <2> HIDE DEF row
  <2> QED
    BY <2>1, <2>2, <2>3 DEF Adds
<1> DEFINE r == [job[j] EXCEPT !.step = "product", !.next = job[j].next + 1, !.selected = NoSelection]
<1>5. UNCHANGED metadata /\ job \in [Jobs -> JobRecords]
  BY DEF Approves, TypeInv, Typed
<1>6. job' = [job EXCEPT ![j] = r]
  BY <1>5 DEF Approves
<1>7. r \in JobRecords
  <2>1. job[j].next + 1 \in Nat
    BY <1>2, CountType
  <2>2. \A i \in JobRecords, n \in Nat :
          [i EXCEPT !.step = "product", !.next = n, !.selected = NoSelection] \in JobRecords
    BY DEF JobRecords, DescribeSteps
  <2> QED
    BY <1>1, <2>1, <2>2
<1>8. /\ r.step = "product" /\ r.next = job[j].next + 1
      /\ r.content = job[j].content /\ r.mode = job[j].mode /\ r.writes = job[j].writes
  BY <1>1 DEF JobRecords
<1> HIDE DEF r
<1>9. DescribesOn(j, r)
  BY <1>2, <1>7, <1>8 DEF DescribesOn
<1>10. Becomes(j, r) /\ JobsWork'
  BY <1>2, <1>5, <1>6, <1>8, <1>9, DescribesType
<1> QED
  BY <1>2, <1>3, <1>4, <1>8, <1>9, <1>10

\* What a step does to the tables and the directories, but for approvals.
LEMMA SameTables ==
  ASSUME TypeInv, JobsWork', job' \in [Jobs -> JobRecords], UNCHANGED <<facts, progress>>,
         UNCHANGED <<staging, output>>
  PROVE  TypeInv'
  BY DEF TypeInv, Typed, progress

LEMMA FactsStep ==
  ASSUME TypeInv, NEW j \in Jobs, Generate(j) \/ WriteProduct(j) \/ WriteFactsManifest(j)
  PROVE  TypeInv'
<1>1. facts' \in [content : Contents \cup {NoContent}, lines : 0..Count]
  BY CountType DEF TypeInv, Typed, Generate, WriteProduct, WriteFactsManifest
<1>2. UNCHANGED <<progress, staging, output>>
  BY DEF Generate, WriteProduct, WriteFactsManifest
<1>3. job' \in [Jobs -> JobRecords] /\ JobsWork'
  <2>1. CASE Generate(j)
    <3>1. PICK c \in Contents : Starts(j, "generate", c, NoContent)
      BY <2>1 DEF Generate
    <3> QED
      BY <1>2, <3>1, StartsType DEF Becomes, progress
  <2>2. CASE WriteProduct(j)
    BY <1>2, <2>2 DEF WriteProduct, TypeInv, Typed, JobsWork, Working, progress
  <2>3. CASE WriteFactsManifest(j)
    BY <1>2, <2>3, EndsType DEF WriteFactsManifest, Becomes, progress
  <2> QED
    BY <2>1, <2>2, <2>3
<1> QED
  BY <1>1, <1>2, <1>3 DEF TypeInv, Typed, progress

LEMMA DescribeStep ==
  ASSUME TypeInv, NEW j \in Jobs,
         \/ Describe(j) \/ ReadMetadata(j) \/ InsertMetadata(j) \/ OpenFacts(j)
         \/ Product(j) \/ Ask(j) \/ ApproveTemplate(j) \/ ApproveProposal(j)
  PROVE  TypeInv'
<1>1. CASE Describe(j)
  <2>1. PICK c \in Contents, mode \in Modes : Starts(j, "connect", c, mode)
    BY <1>1 DEF Describe
  <2> QED
    BY <1>1, <2>1, StartsType, SameTables DEF Describe, Becomes, progress
<1>2. CASE ReadMetadata(j)
  <2>1. PICK step \in {"insert", "open"} : Goes(j, step)
    BY <1>2 DEF ReadMetadata
  <2> QED
    BY <1>2, <2>1, GoesType, SameTables DEF ReadMetadata, At, DescribeSteps, Becomes, progress
<1>3. CASE InsertMetadata(j)
  <2>1. By(j) \in Sources
    BY <1>3 DEF InsertMetadata, At, By, Sources, TypeInv, JobsWork, Working, DescribeSteps
  <2>2. metadata' \in Seq(Sources) /\ metadata' # <<>>
    BY <1>3, <2>1 DEF InsertMetadata, TypeInv, Typed
  <2>3. job' \in [Jobs -> JobRecords] /\ JobsWork'
    BY <1>3, <2>2, GoesType DEF InsertMetadata, At, DescribeSteps, Becomes
  <2> QED
    BY <1>3, <2>2, <2>3 DEF InsertMetadata, TypeInv, Typed
<1>4. CASE OpenFacts(j)
  BY <1>4, OpensType, SameTables DEF OpenFacts, At, Becomes, progress
<1>5. CASE Product(j)
  <2>1. PICK r : Becomes(j, r) /\ JobsWork'
    BY <1>5, ProductType
  <2>2. job' \in [Jobs -> JobRecords]
    BY <2>1 DEF Becomes
  <2> QED
    BY <1>5, <2>1, <2>2, SameTables DEF Product
<1>6. CASE Ask(j)
  <2>1. JobsWork' /\ job' \in [Jobs -> JobRecords]
    BY <1>6, AskType DEF Becomes
  <2> QED
    BY <1>6, <2>1, SameTables DEF Ask
<1>7. CASE ApproveTemplate(j) \/ ApproveProposal(j)
  <2>1. Approves(j) /\ job[j].step \in {"approve", "propose"}
    BY <1>7 DEF ApproveTemplate, ApproveProposal, At
  <2>2. /\ job' \in [Jobs -> JobRecords] /\ JobsWork'
        /\ approved' \in [Ids -> Approvals]
        /\ job[j].selected \in Selections
    BY <2>1, ApprovesType DEF Becomes, Adds
  <2>3. templates' \in [Range(Category) -> Selections \cup {NoSelection}]
    BY <1>7, <2>2 DEF ApproveTemplate, ApproveProposal, WithTemplate, TypeInv, Typed
  <2>4. UNCHANGED <<facts, metadata, staging, output>>
    BY <2>1 DEF Approves
  <2> QED
    BY <2>2, <2>3, <2>4 DEF TypeInv, Typed
<1> QED
  BY <1>1, <1>2, <1>3, <1>4, <1>5, <1>6, <1>7

\* A file that is written to stays one of lines, each of which was there, is the
\* new one or cannot be read.
LEMMA WrittenType ==
  ASSUME NEW file \in ProductFiles, NEW n \in Nat, n >= 1, NEW line \in Entries,
         NEW f \in Written(file, n, line)
  PROVE  f \in ProductFiles
<1> DEFINE length == IF n > Len(file) THEN n ELSE Len(file)
<1>1. length \in Nat /\ Len(file) \in Nat /\ length >= Len(file) /\ length >= n
  BY DEF ProductFiles
<1>2. PICK torn \in SUBSET DOMAIN file :
         f = [i \in 1..length |-> IF i = n THEN line
                                 ELSE IF i > Len(file) \/ i \in torn THEN Unreadable ELSE file[i]]
  BY DEF Written
<1> HIDE DEF length
<1>3. \A i \in 1..length : i <= Len(file) => file[i] \in Entries
  BY <1>1 DEF ProductFiles
<1>4. f \in [1..length -> Entries]
  BY <1>1, <1>2, <1>3 DEF Entries
<1> QED
  BY <1>1, <1>4 DEF ProductFiles

\* What a freeze becomes when it opens the products and the facts.
StageOpened(j) ==
  [job[j] EXCEPT !.step = "fill", !.source = facts.content, !.lines = facts.lines,
                 !.next = 1, !.writes = "staging"]

LEMMA StageType ==
  ASSUME TypeInv, NEW j \in Jobs, Stage(j)
  PROVE  /\ Becomes(j, StageOpened(j)) /\ JobsWork'
         /\ StageOpened(j).step = "fill" /\ StageOpened(j).source = facts.content
         /\ StageOpened(j).next = 1 /\ StageOpened(j).writes = "staging"
         /\ staging' \in Directories /\ staging'.products = <<>>
         /\ staging'.freezes = {j} \cup {k \in Jobs : job[k].step \in StagedSteps}
<1>1. facts.content \in Contents \cup {NoContent} /\ facts.lines \in 0..Count
      /\ job[j] \in JobRecords /\ Working(job[j]) /\ job[j].step = "stage"
  BY DEF TypeInv, Typed, JobsWork, Stage, At
<1>2. \A i \in JobRecords, content \in Contents \cup {NoContent}, lines \in 0..Count :
         [i EXCEPT !.step = "fill", !.source = content, !.lines = lines,
                   !.next = 1, !.writes = "staging"] \in JobRecords
  BY DEF JobRecords, FreezeSteps, StagedSteps
<1>3. StageOpened(j) \in JobRecords
  BY <1>1, <1>2 DEF StageOpened
<1>4. job' = [job EXCEPT ![j] = StageOpened(j)]
  BY DEF Stage, StageOpened, TypeInv, Typed
<1>5. Becomes(j, StageOpened(j))
  BY <1>3, <1>4, JobSet DEF TypeInv
<1>6. /\ StageOpened(j).step = "fill" /\ StageOpened(j).source = facts.content
      /\ StageOpened(j).next = 1 /\ StageOpened(j).writes = "staging"
  BY <1>1 DEF StageOpened, JobRecords
<1>7. metadata # <<>> /\ UNCHANGED metadata
  BY <1>1 DEF Working, FreezeSteps, StagedSteps, Stage, progress
<1>8. Working(StageOpened(j))
  BY <1>6, <1>7 DEF Working, DescribeSteps
<1>9. JobsWork'
  BY <1>5, <1>7, <1>8, WorkKept
<1>10. staging \in Directories
  BY DEF TypeInv, Typed
<1>11. /\ staging' \in Directories /\ staging'.products = <<>>
       /\ staging'.freezes = {j} \cup {k \in Jobs : job[k].step \in StagedSteps}
  <2> DEFINE users == {j} \cup {k \in Jobs : job[k].step \in StagedSteps}
  <2>1. staging' = [staging EXCEPT !.products = <<>>, !.freezes = users]
    BY DEF Stage
  <2>2. users \in SUBSET Jobs /\ <<>> \in ProductFiles
    BY DEF ProductFiles
  <2> HIDE DEF users
  <2>3. staging' \in Directories /\ staging'.products = <<>> /\ staging'.freezes = users
    BY <1>10, <2>1, <2>2 DEF Directories
  <2> QED
    BY <2>3 DEF users
<1> QED
  BY <1>5, <1>6, <1>9, <1>11

LEMMA LineType ==
  ASSUME TypeInv, NEW j \in Jobs, Fill(j)
  PROVE  /\ Line(j) \in Entries /\ Line(j).id = Id(j) /\ Id(j) \in Approved
         /\ Line(j).selected = approved[Id(j)].selected
         /\ job[j].next \in Nat /\ job[j].next >= 1 /\ job[j].next <= Count
<1>1. Id(j) \in Approved
  BY DEF Fill
<1>2. approved[Id(j)] \in [selected : Selections, by : Sources] /\ Id(j) \in Ids
  BY <1>1, ApprovedType DEF TypeInv
<1>3. job[j].next \in Nat /\ job[j].next >= 1 /\ job[j].next <= Count
  BY CountType DEF TypeInv, Typed, JobsWork, Working, JobRecords, Fill, At
<1> QED
  BY <1>1, <1>2, <1>3 DEF Line, Entries

\* A freeze that fills is one line further, and stays the same otherwise.
LEMMA FillJob ==
  ASSUME TypeInv, NEW j \in Jobs, Fill(j)
  PROVE  /\ Becomes(j, [job[j] EXCEPT !.next = job[j].next + 1]) /\ JobsWork'
         /\ job'[j].step = "fill" /\ job'[j].next = job[j].next + 1
         /\ job'[j].source = job[j].source /\ job'[j].writes = job[j].writes
<1> DEFINE r == [job[j] EXCEPT !.next = job[j].next + 1]
<1>1. job[j] \in JobRecords /\ Working(job[j]) /\ job[j].step = "fill" /\ job \in [Jobs -> JobRecords]
  BY DEF TypeInv, Typed, JobsWork, Fill, At
<1>2. job[j].next + 1 \in Nat /\ job[j].next + 1 >= 1
  BY LineType
<1>3. job' = [job EXCEPT ![j] = r]
  BY <1>1 DEF Fill
<1>4. /\ r \in JobRecords /\ r.step = "fill" /\ r.next = job[j].next + 1
      /\ r.source = job[j].source /\ r.writes = job[j].writes
  BY <1>1, <1>2 DEF JobRecords
<1> HIDE DEF r
<1>5. Becomes(j, r)
  BY <1>3, <1>4, JobSet DEF TypeInv
<1>6. metadata # <<>> /\ UNCHANGED metadata
  BY <1>1 DEF Working, FreezeSteps, StagedSteps, Fill, progress
<1>7. Working(r)
  BY <1>2, <1>4, <1>6 DEF Working, DescribeSteps
<1>8. JobsWork'
  BY <1>5, <1>6, <1>7, WorkKept
<1> QED
  BY <1>4, <1>5, <1>8 DEF r, Becomes

LEMMA FillFiles ==
  ASSUME TypeInv, NEW j \in Jobs, Fill(j)
  PROVE  /\ staging' \in Directories /\ output' \in Directories
         /\ staging'.freezes = staging.freezes /\ output'.freezes = output.freezes
         /\ job[j].writes = "staging" => /\ UNCHANGED output
                                        /\ staging'.products \in Written(staging.products, job[j].next, Line(j))
         /\ job[j].writes # "staging" => UNCHANGED staging /\ job[j].writes = "output"
<1>1. /\ staging \in Directories /\ output \in Directories
      /\ staging.products \in ProductFiles /\ output.products \in ProductFiles
  BY DEF TypeInv, Typed, Directories
<1>2. CASE job[j].writes = "staging"
  <2>1. PICK file \in Written(staging.products, job[j].next, Line(j)) :
           staging' = [staging EXCEPT !.products = file]
    BY <1>2 DEF Fill
  <2>2. UNCHANGED output
    BY <1>2 DEF Fill
  <2>3. file \in ProductFiles
    BY <1>1, <2>1, LineType, WrittenType
  <2> QED
    BY <1>1, <1>2, <2>1, <2>2, <2>3 DEF Directories
<1>3. CASE job[j].writes # "staging"
  <2>1. PICK file \in Written(output.products, job[j].next, Line(j)) :
           output' = [output EXCEPT !.products = file]
    BY <1>3 DEF Fill
  <2>2. UNCHANGED staging /\ job[j].writes = "output"
    BY <1>3 DEF Fill
  <2>3. file \in ProductFiles
    BY <1>1, <2>1, LineType, WrittenType
  <2> QED
    BY <1>1, <1>3, <2>1, <2>2, <2>3 DEF Directories
<1> QED
  BY <1>2, <1>3

LEMMA CloseType ==
  ASSUME TypeInv, NEW j \in Jobs, CloseProducts(j)
  PROVE  /\ Becomes(j, [job[j] EXCEPT !.step = "manifest", !.writes = "none"]) /\ JobsWork'
         /\ job'[j].step = "manifest" /\ job'[j].writes = "none" /\ job'[j].source = job[j].source
<1> DEFINE r == [job[j] EXCEPT !.step = "manifest", !.writes = "none"]
<1>1. job[j] \in JobRecords /\ Working(job[j]) /\ job[j].step = "fill" /\ job \in [Jobs -> JobRecords]
  BY DEF TypeInv, Typed, JobsWork, CloseProducts, At
<1>2. job' = [job EXCEPT ![j] = r]
  BY <1>1 DEF CloseProducts
<1>3. /\ r \in JobRecords /\ r.step = "manifest" /\ r.writes = "none" /\ r.source = job[j].source
  BY <1>1 DEF JobRecords, FreezeSteps, StagedSteps
<1> HIDE DEF r
<1>4. Becomes(j, r)
  BY <1>2, <1>3, JobSet DEF TypeInv
<1>5. metadata # <<>> /\ UNCHANGED metadata
  BY <1>1 DEF Working, FreezeSteps, StagedSteps, CloseProducts, progress
<1>6. Working(r)
  BY <1>3, <1>5 DEF Working, DescribeSteps
<1>7. JobsWork'
  BY <1>4, <1>5, <1>6, WorkKept
<1> QED
  BY <1>3, <1>4, <1>7 DEF r, Becomes

LEMMA ManifestType ==
  ASSUME TypeInv, NEW j \in Jobs, WriteManifest(j)
  PROVE  /\ staging' \in Directories
         /\ staging'.products = staging.products /\ staging'.freezes = staging.freezes
<1>1. Working(job[j]) /\ staging \in Directories /\ metadata \in Seq(Sources)
  BY DEF TypeInv, JobsWork, Typed
<1>2. metadata[1] \in Sources
  BY <1>1 DEF WriteManifest, At, Working, FreezeSteps, StagedSteps
<1>3. [stored |-> metadata[1], checksum |-> staging.products] \in Manifests
  BY <1>1, <1>2 DEF Manifests, Directories
<1>4. staging' = [staging EXCEPT !.manifest = [stored |-> metadata[1], checksum |-> staging.products]]
  BY DEF WriteManifest
<1> QED
  BY <1>1, <1>3, <1>4 DEF Directories

\* Jobs that describe, and those that have closed the products, do not notice
\* that the directory is renamed.
LEMMA RenameType ==
  ASSUME TypeInv, NEW j \in Jobs, Rename(j)
  PROVE  /\ job' \in [Jobs -> JobRecords] /\ JobsWork'
         /\ job'[j] = Idle
         /\ \A k \in Jobs : job[k].writes # "staging" /\ k # j => job'[k] = job[k]
         /\ \A k \in Jobs : job[k].writes = "staging" /\ k # j =>
              job'[k].step = "fill" /\ job'[k].writes = "output"
<1>1. \A k \in Jobs : job[k] \in JobRecords /\ Working(job[k])
  BY DEF TypeInv, JobsWork, Typed
<1>2. \A k \in Jobs :
        job'[k] = IF k = j THEN Idle
                  ELSE IF job[k].writes = "staging" THEN [job[k] EXCEPT !.writes = "output"]
                  ELSE job[k]
  BY DEF Rename
<1>3. ASSUME NEW k \in Jobs, k # j, job[k].writes = "staging"
      PROVE  /\ job'[k] \in JobRecords /\ job'[k].step = "fill" /\ job'[k].writes = "output"
             /\ job'[k].next = job[k].next
  <2>1. job[k].step = "fill" /\ job[k] \in JobRecords
    BY <1>1, <1>3 DEF Working
  <2>2. job'[k] = [job[k] EXCEPT !.writes = "output"]
    BY <1>2, <1>3
  <2> QED
    BY <2>1, <2>2 DEF JobRecords
<1>4. job' \in [Jobs -> JobRecords]
  <2>1. \A k \in Jobs : job'[k] \in JobRecords
    BY <1>1, <1>2, <1>3, IdleType
  <2>2. \E f : job' = [k \in Jobs |-> f[k]]
    BY DEF Rename
  <2> QED
    BY <2>1, <2>2
<1>5. UNCHANGED metadata
  BY DEF Rename, progress
<1>6. ASSUME NEW k \in Jobs PROVE Working(job[k])'
  <2>1. CASE k = j
    BY <1>2, <2>1, IdleType DEF Working, DescribeSteps, FreezeSteps, StagedSteps
  <2>2. CASE k # j /\ job[k].writes = "staging"
    BY <1>1, <1>3, <1>5, <2>2 DEF Working, DescribeSteps, FreezeSteps, StagedSteps
  <2>3. CASE k # j /\ job[k].writes # "staging"
    BY <1>1, <1>2, <1>5, <2>3 DEF Working
  <2> QED
    BY <2>1, <2>2, <2>3
<1> QED
  BY <1>2, <1>3, <1>4, <1>6 DEF JobsWork

LEMMA FreezeStep ==
  ASSUME TypeInv, NEW j \in Jobs,
         \/ Freeze(j) \/ CheckProgress(j) \/ Stage(j) \/ Fill(j) \/ CloseProducts(j)
         \/ WriteManifest(j) \/ Validate(j) \/ Rename(j)
  PROVE  TypeInv'
<1>1. Working(job[j]) /\ UNCHANGED <<facts, progress>>
  BY DEF TypeInv, JobsWork, Freeze, CheckProgress, Stage, Fill, CloseProducts, WriteManifest,
     Validate, Rename
<1>2. job' \in [Jobs -> JobRecords] /\ JobsWork'
  <2>1. CASE Freeze(j)
    <3>1. PICK c \in Contents : Starts(j, "progress", c, NoContent)
      BY <2>1 DEF Freeze
    <3> QED
      BY <1>1, <3>1, StartsType DEF Becomes, progress
  <2>2. CASE CheckProgress(j) \/ WriteManifest(j) \/ Validate(j)
    <3>1. metadata # <<>> /\ job[j].step # "fill"
      BY <1>1, <2>2 DEF CheckProgress, WriteManifest, Validate, At, Working, FreezeSteps, StagedSteps
    <3>2. PICK step \in {"stage", "validate", "rename"} : Goes(j, step)
      BY <2>2 DEF CheckProgress, WriteManifest, Validate
    <3> QED
      BY <1>1, <3>1, <3>2, GoesType DEF FreezeSteps, StagedSteps, Becomes, progress
  <2>3. CASE Stage(j)
    BY <2>3, StageType DEF Becomes
  <2>4. CASE Fill(j)
    BY <2>4, FillJob DEF Becomes
  <2>5. CASE CloseProducts(j)
    BY <2>5, CloseType DEF Becomes
  <2>6. CASE Rename(j)
    BY <2>6, RenameType
  <2> QED
    BY <2>1, <2>2, <2>3, <2>4, <2>5, <2>6
<1>3. staging' \in Directories /\ output' \in Directories
  <2>1. staging \in Directories /\ output \in Directories
    BY DEF TypeInv, Typed
  <2>2. CASE Stage(j)
    BY <2>1, <2>2, StageType DEF Stage
  <2>3. CASE Fill(j)
    BY <2>3, FillFiles
  <2>4. CASE WriteManifest(j)
    BY <2>1, <2>4, ManifestType DEF WriteManifest
  <2>5. CASE Rename(j)
    BY <2>1, <2>5, AbsentType DEF Rename
  <2>6. CASE UNCHANGED <<staging, output>>
    BY <2>1, <2>6
  <2> QED
    BY <2>2, <2>3, <2>4, <2>5, <2>6 DEF Freeze, CheckProgress, CloseProducts, Validate
<1> QED
  BY <1>1, <1>2, <1>3 DEF TypeInv, Typed, progress

LEMMA TypeStep == TypeInv /\ [Next]_vars => TypeInv'
<1> SUFFICES ASSUME TypeInv, [Next]_vars PROVE TypeInv'
  OBVIOUS
<1>1. CASE UNCHANGED vars
  BY <1>1 DEF vars, progress, TypeInv, Typed, JobsWork, Working
<1>2. CASE RemoveFacts
  <2>1. facts' \in [content : Contents \cup {NoContent}, lines : 0..Count]
    BY <1>2, CountType DEF RemoveFacts, NoFacts
  <2> QED
    BY <1>2, <2>1 DEF RemoveFacts, progress, TypeInv, Typed, JobsWork, Working
<1>3. ASSUME NEW j \in Jobs, Ends(j) PROVE TypeInv'
  <2>1. job' = [job EXCEPT ![j] = Idle] /\ UNCHANGED <<facts, progress, staging, output>>
    BY <1>3 DEF Ends
  <2> QED
    BY <2>1, EndsType, SameTables DEF Becomes, progress
<1> QED
  BY <1>1, <1>2, <1>3, FactsStep, DescribeStep, FreezeStep DEF Next, JobStep

-------------------------------------------------------------------------------
(* What a step does to its job *)

\* The steps of describe after its row of metadata is there.
Recorded == {"open", "product", "ask", "approve", "propose"}

\* The job's row of metadata is there, or is the one that is found or inserted.
Records(j, r) ==
  /\ r.content = job[j].content /\ r.mode = job[j].mode
  /\ \/ job[j].step \in Recorded
     \/ metadata # <<>> /\ metadata[1] = By(j)
     \/ metadata' = Append(metadata, By(j))

Moves(j, r) == Becomes(j, r) /\ (r.step \in Recorded => Records(j, r))

LEMMA GoesMoves ==
  ASSUME TypeInv, NEW j \in Jobs, NEW step, Goes(j, step),
         \/ job[j].step \in DescribeSteps /\ step \in {"insert", "open"}
         \/ metadata # <<>> /\ job[j].step # "fill" /\ step \in FreezeSteps \ {"fill"},
         metadata # <<>> => metadata' # <<>>,
         step \in Recorded => \/ metadata # <<>> /\ metadata[1] = By(j)
                             \/ metadata' = Append(metadata, By(j))
  PROVE  \E r : Moves(j, r) /\ r.step # "approve"
<1> DEFINE r == [job[j] EXCEPT !.step = step]
<1>1. Becomes(j, r)
  BY GoesType
<1>2. job[j] \in JobRecords
  BY DEF TypeInv, Typed
<1>3. r.step = step /\ r.content = job[j].content /\ r.mode = job[j].mode
  BY <1>2 DEF JobRecords
<1> HIDE DEF r
<1> QED
  BY <1>1, <1>3 DEF Moves, Records, Recorded, FreezeSteps, StagedSteps

LEMMA StartsMoves ==
  ASSUME TypeInv, NEW j \in Jobs, NEW step \in {"generate", "connect", "progress"},
         NEW content \in Contents, NEW mode \in Modes \cup {NoContent},
         Starts(j, step, content, mode)
  PROVE  \E r : Moves(j, r) /\ r.step # "approve"
<1> DEFINE r == [Idle EXCEPT !.step = step, !.content = content, !.mode = mode]
<1>1. Becomes(j, r)
  BY StartsEffect DEF TypeInv
<1>2. r.step = step
  BY DEF Idle
<1> HIDE DEF r
<1> QED
  BY <1>1, <1>2 DEF Moves, Recorded

LEMMA IdleMoves ==
  ASSUME TypeInv, NEW j \in Jobs, job' = [job EXCEPT ![j] = Idle]
  PROVE  \E r : Moves(j, r) /\ r.step # "approve"
  BY IdleType, JobSet DEF TypeInv, Moves, Recorded

LEMMA OpensMoves ==
  ASSUME TypeInv, NEW j \in Jobs, OpenFacts(j)
  PROVE  \E r : Moves(j, r) /\ r.step # "approve"
<1>1. Becomes(j, Opened(j))
  BY OpensType DEF OpenFacts, At, progress
<1>2. job[j] \in JobRecords /\ job[j].step = "open"
  BY DEF TypeInv, Typed, OpenFacts, At
<1>3. /\ Opened(j).step = "product"
      /\ Opened(j).content = job[j].content /\ Opened(j).mode = job[j].mode
  BY <1>2 DEF JobRecords, Opened
<1> QED
  BY <1>1, <1>2, <1>3 DEF Moves, Records, Recorded

\* A step of describe within its loop.
LEMMA DescribesMoves ==
  ASSUME NEW j \in Jobs, NEW r, Becomes(j, r), DescribesOn(j, r), job[j].step \in Recorded
  PROVE  Moves(j, r)
  BY DEF Moves, Records, DescribesOn

\* But for the choice at a product, no step leads to the use of a template.
LEMMA JobMoves ==
  ASSUME TypeInv, NEW j \in Jobs, JobStep(j), ~Rename(j)
  PROVE  \E r : Moves(j, r) /\ (r.step = "approve" => Product(j))
<1>1. CASE Generate(j)
  <2>1. PICK c \in Contents : Starts(j, "generate", c, NoContent)
    BY <1>1 DEF Generate
  <2> QED
    BY <2>1, StartsMoves
<1>2. CASE Describe(j)
  <2>1. PICK c \in Contents, mode \in Modes : Starts(j, "connect", c, mode)
    BY <1>2 DEF Describe
  <2> QED
    BY <2>1, StartsMoves
<1>3. CASE Freeze(j)
  <2>1. PICK c \in Contents : Starts(j, "progress", c, NoContent)
    BY <1>3 DEF Freeze
  <2> QED
    BY <2>1, StartsMoves
<1>4. CASE WriteProduct(j)
  BY <1>4 DEF WriteProduct, At, TypeInv, Typed, Moves, Becomes, Recorded
<1>5. CASE WriteFactsManifest(j) \/ Ends(j)
  BY <1>5, IdleMoves DEF WriteFactsManifest, Ends
<1>6. CASE ReadMetadata(j)
  <2>1. PICK step \in {"insert", "open"} :
           Goes(j, step) /\ (step = "open" => metadata # <<>> /\ metadata[1] = By(j))
    BY <1>6 DEF ReadMetadata, Belongs
  <2>2. job[j].step \in DescribeSteps /\ UNCHANGED metadata
    BY <1>6 DEF ReadMetadata, At, DescribeSteps, progress
  <2> QED
    BY <2>1, <2>2, GoesMoves DEF Recorded
<1>7. CASE InsertMetadata(j)
  <2>1. metadata' = Append(metadata, By(j)) /\ Goes(j, "open") /\ job[j].step \in DescribeSteps
    BY <1>7 DEF InsertMetadata, At, DescribeSteps
  <2>2. metadata \in Seq(Sources) /\ By(j) \in Sources
    BY <1>7 DEF InsertMetadata, At, By, Sources, TypeInv, Typed, JobsWork, Working, DescribeSteps
  <2>3. metadata' # <<>>
    BY <2>1, <2>2
  <2> QED
    BY <2>1, <2>3, GoesMoves
<1>8. CASE OpenFacts(j)
  BY <1>8, OpensMoves
<1>9. CASE Product(j)
  <2>1. PICK r : Becomes(j, r) /\ DescribesOn(j, r)
    BY <1>9, ProductType
  <2> QED
    BY <1>9, <2>1, DescribesMoves DEF Product, At, Recorded
<1>10. CASE Ask(j)
  <2>1. PICK r : Becomes(j, r) /\ DescribesOn(j, r) /\ r.step = "propose"
    BY <1>10, AskType
  <2> QED
    BY <1>10, <2>1, DescribesMoves DEF Ask, At, Recorded
<1>11. CASE ApproveTemplate(j) \/ ApproveProposal(j)
  <2>1. Approves(j) /\ job[j].step \in {"approve", "propose"}
    BY <1>11 DEF ApproveTemplate, ApproveProposal, At
  <2>2. PICK r : Becomes(j, r) /\ DescribesOn(j, r) /\ r.step = "product"
    BY <2>1, ApprovesType
  <2> QED
    BY <2>1, <2>2, DescribesMoves DEF Recorded
<1>12. CASE CheckProgress(j) \/ WriteManifest(j) \/ Validate(j)
  <2>1. metadata # <<>> /\ UNCHANGED metadata /\ job[j].step # "fill"
    BY <1>12 DEF CheckProgress, WriteManifest, Validate, At, progress, TypeInv, JobsWork, Working,
       FreezeSteps, StagedSteps
  <2>2. PICK step \in {"stage", "validate", "rename"} : Goes(j, step)
    BY <1>12 DEF CheckProgress, WriteManifest, Validate
  <2> QED
    BY <2>1, <2>2, GoesMoves DEF Recorded, FreezeSteps, StagedSteps
<1>13. CASE Stage(j)
  BY <1>13, StageType DEF Moves, Recorded
<1>14. CASE Fill(j)
  BY <1>14, FillJob DEF Moves, Becomes, Recorded
<1>15. CASE CloseProducts(j)
  BY <1>15, CloseType DEF Moves, Becomes, Recorded
<1> QED
  BY <1>1, <1>2, <1>3, <1>4, <1>5, <1>6, <1>7, <1>8, <1>9, <1>10, <1>11, <1>12, <1>13, <1>14, <1>15
     DEF JobStep

\* A rename leaves the jobs that describe alone.
LEMMA RenameSpares ==
  ASSUME TypeInv, NEW j \in Jobs, Rename(j), NEW k \in Jobs,
         job'[k].step \in Recorded
  PROVE  job'[k] = job[k]
  BY RenameType, IdleType DEF Recorded

-------------------------------------------------------------------------------
(* Templates *)

Templated == {id \in Approved : approved[id].by[2] \in Templates}

\* A product described with templates has the template of its category, and so
\* will the products that a template is about to be used for.
TemplatesInv ==
  /\ \A id \in Templated : approved[id].selected = templates[Category[id[2]]]
  /\ \A j \in Jobs : job[j].step = "approve" =>
       job[j].mode \in Templates /\ job[j].selected = templates[CategoryOf(j)]

LEMMA TemplatesImply == TypeInv /\ TemplatesInv => TemplateIsLaw
  BY DEF TemplatesInv, TemplateIsLaw, Templated

LEMMA TemplatesInit == Init => TemplatesInv
<1> SUFFICES ASSUME Init PROVE TemplatesInv
  OBVIOUS
<1>1. Approved = {}
  BY DEF Init, Approved
<1>2. \A j \in Jobs : job[j].step = "idle"
  BY IdleType DEF Init
<1> QED
  BY <1>1, <1>2 DEF TemplatesInv, Templated

\* A template that is there is not changed.
TemplatesKept ==
  \A c \in Range(Category) : templates[c] # NoSelection => templates'[c] = templates[c]

LEMMA OthersKeep ==
  ASSUME TypeInv, TemplatesInv, NEW j \in Jobs, NEW r, Becomes(j, r), TemplatesKept,
         r.step = "approve" => /\ job'[j].mode \in Templates
                               /\ job'[j].selected = templates'[Category[job'[j].next]]
  PROVE  \A k \in Jobs : job'[k].step = "approve" =>
           job'[k].mode \in Templates /\ job'[k].selected = templates'[Category[job'[k].next]]
<1> SUFFICES ASSUME NEW k \in Jobs \ {j}, job[k].step = "approve"
             PROVE  job[k].mode \in Templates /\ job[k].selected = templates'[Category[job[k].next]]
  BY DEF Becomes
<1>1. job[k].mode \in Templates /\ job[k].selected = templates[Category[job[k].next]]
  BY DEF TemplatesInv, CategoryOf
<1>2. job[k].next \in 1..Count /\ job[k].selected # NoSelection
  BY CountType, ConstantsAssumption DEF TypeInv, Typed, JobsWork, Working, JobRecords
<1> QED
  BY <1>1, <1>2, CategoryType DEF TemplatesKept

LEMMA TemplatesStep == TypeInv /\ TypeInv' /\ TemplatesInv /\ [Next]_vars => TemplatesInv'
<1> SUFFICES ASSUME TypeInv, TypeInv', TemplatesInv, [Next]_vars PROVE TemplatesInv'
  OBVIOUS
<1>1. ASSUME UNCHANGED <<approved, templates>>
      PROVE  \A id \in Templated' : approved'[id].selected = templates'[Category[id[2]]]
  BY <1>1 DEF TemplatesInv, Templated, Approved
<1>2. CASE UNCHANGED job /\ UNCHANGED <<approved, templates>>
  BY <1>1, <1>2 DEF TemplatesInv, CategoryOf
<1>3. ASSUME NEW j \in Jobs, NEW r, Becomes(j, r), r.step # "approve",
             UNCHANGED <<approved, templates>>
      PROVE  TemplatesInv'
  <2>1. TemplatesKept
    BY <1>3 DEF TemplatesKept
  <2>2. \A k \in Jobs : job'[k].step = "approve" =>
          job'[k].mode \in Templates /\ job'[k].selected = templates'[Category[job'[k].next]]
    BY <1>3, <2>1, OthersKeep
  <2> QED
    BY <1>1, <1>3, <2>2 DEF TemplatesInv, CategoryOf
<1>4. ASSUME NEW j \in Jobs, Product(j) PROVE TemplatesInv'
  <2>1. PICK r : Becomes(j, r) /\ DescribesOn(j, r) /\ TemplateChosen(j, r)
    BY <1>4, ProductType
  <2>2. UNCHANGED <<approved, templates>>
    BY <1>4 DEF Product, progress
  <2>3. r.step = "approve" => r.next = job[j].next
    BY <2>1 DEF DescribesOn
  <2>4. \A k \in Jobs : job'[k].step = "approve" =>
          job'[k].mode \in Templates /\ job'[k].selected = templates'[Category[job'[k].next]]
    BY <2>1, <2>2, <2>3, OthersKeep DEF TemplatesKept, TemplateChosen, CategoryOf, Becomes
  <2> QED
    BY <1>1, <2>2, <2>4 DEF TemplatesInv, CategoryOf
<1>5. ASSUME NEW j \in Jobs, ApproveTemplate(j) \/ ApproveProposal(j) PROVE TemplatesInv'
  <2>1. Approves(j) /\ job[j].step \in {"approve", "propose"}
    BY <1>5 DEF ApproveTemplate, ApproveProposal, At
  <2>2. /\ job[j].next \in 1..Count /\ CategoryOf(j) \in Range(Category)
        /\ job[j].selected \in Selections /\ By(j) \in Sources
        /\ Adds(j)
    BY <2>1, ApprovesType
  <2>3. PICK r : Becomes(j, r) /\ r.step = "product"
    BY <2>1, ApprovesType
  <2>4. TemplatesKept /\ (job[j].mode \in Templates => templates'[CategoryOf(j)] = job[j].selected)
    <3>1. templates \in [Range(Category) -> Selections \cup {NoSelection}]
      BY DEF TypeInv, Typed
    <3>2. CASE ApproveTemplate(j)
      BY <3>2 DEF ApproveTemplate, TemplatesKept, TemplatesInv, At
    <3>3. CASE ApproveProposal(j) /\ job[j].mode \in Templates
      BY <2>2, <3>1, <3>3 DEF ApproveProposal, WithTemplate, TemplatesKept
    <3>4. CASE ApproveProposal(j) /\ job[j].mode \notin Templates
      BY <3>4 DEF ApproveProposal, TemplatesKept
    <3> QED
      BY <1>5, <3>2, <3>3, <3>4
  <2>5. ASSUME NEW id \in Templated' PROVE approved'[id].selected = templates'[Category[id[2]]]
    <3>1. id \in Ids /\ approved'[id] # NoApproval /\ approved'[id].by[2] \in Templates
      BY <2>5 DEF Templated, Approved
    <3>2. Category[id[2]] \in Range(Category)
      BY <3>1, CategoryType DEF Ids
    <3>3. CASE id \in Approved
      <4>1. approved'[id] = approved[id] /\ approved[id].selected \in Selections
        BY <2>2, <3>3, ApprovedType DEF Adds, TypeInv
      <4>2. approved[id].selected = templates[Category[id[2]]]
        BY <3>1, <3>3, <4>1 DEF Templated, TemplatesInv
      <4> QED
        BY <2>4, <3>2, <4>1, <4>2, ConstantsAssumption DEF TemplatesKept
    <3>4. CASE id \notin Approved
      <4>1. approved'[id] # approved[id]
        BY <3>1, <3>4 DEF Approved
      <4>2. id = Id(j) /\ approved'[id].selected = job[j].selected /\ approved'[id].by = By(j)
        BY <2>2, <3>1, <3>4, <4>1 DEF Adds
      <4>3. job[j].mode \in Templates /\ Category[id[2]] = CategoryOf(j)
        BY <3>1, <4>2 DEF By, Id, CategoryOf
      <4> QED
        BY <2>4, <4>2, <4>3
    <3> QED
      BY <3>3, <3>4
  <2>6. \A k \in Jobs : job'[k].step = "approve" =>
          job'[k].mode \in Templates /\ job'[k].selected = templates'[Category[job'[k].next]]
    BY <2>3, <2>4, OthersKeep
  <2> QED
    BY <2>5, <2>6 DEF TemplatesInv, CategoryOf
<1>6. ASSUME NEW j \in Jobs, JobStep(j), ~Product(j), ~ApproveTemplate(j), ~ApproveProposal(j),
             ~Rename(j)
      PROVE  TemplatesInv'
  <2>1. PICK r : Becomes(j, r) /\ r.step # "approve"
    BY <1>6, JobMoves DEF Moves
  <2>2. UNCHANGED <<approved, templates>>
    BY <1>6 DEF JobStep, Generate, WriteProduct, WriteFactsManifest, Describe, ReadMetadata,
         InsertMetadata, OpenFacts, Ask, Freeze, CheckProgress, Stage, Fill, CloseProducts,
         WriteManifest, Validate, Ends, progress
  <2> QED
    BY <1>3, <2>1, <2>2
<1>7. ASSUME NEW j \in Jobs, Rename(j) PROVE TemplatesInv'
  <2>1. UNCHANGED <<approved, templates>>
    BY <1>7 DEF Rename, progress
  <2>2. \A k \in Jobs : job'[k].step = "approve" => job'[k] = job[k]
    BY <1>7, RenameSpares DEF Recorded
  <2> QED
    BY <1>1, <2>1, <2>2 DEF TemplatesInv, CategoryOf
<1>8. CASE RemoveFacts \/ UNCHANGED vars
  BY <1>2, <1>8 DEF RemoveFacts, vars, progress
<1> QED
  BY <1>4, <1>5, <1>6, <1>7, <1>8 DEF Next

-------------------------------------------------------------------------------
(* Where descriptions come from *)

\* A job that describes, and a description, have their row of metadata.
RowFor(source) == \E i \in 1..Len(metadata) : metadata[i] = source

SourcesInv ==
  /\ \A j \in Jobs : job[j].step \in Recorded => RowFor(By(j))
  /\ \A id \in Approved : RowFor(approved[id].by)

LEMMA SourcesImply == SourcesInv => OneProvenance
  BY DEF SourcesInv, OneProvenance, RowFor

LEMMA SourcesInit == Init => SourcesInv
<1> SUFFICES ASSUME Init PROVE SourcesInv
  OBVIOUS
<1>1. Approved = {}
  BY DEF Init, Approved
<1>2. \A j \in Jobs : job[j].step = "idle"
  BY IdleType DEF Init
<1> QED
  BY <1>1, <1>2 DEF SourcesInv, Recorded

LEMMA RowsKept ==
  ASSUME TypeInv, [Next]_vars, NEW source, RowFor(source)
  PROVE  RowFor(source)'
<1>1. CASE UNCHANGED metadata
  BY <1>1 DEF RowFor
<1>2. ASSUME NEW j \in Jobs, InsertMetadata(j) PROVE RowFor(source)'
  <2>1. metadata' = Append(metadata, By(j))
    BY <1>2 DEF InsertMetadata
  <2>2. metadata \in Seq(Sources) /\ By(j) \in Sources
    BY <1>2 DEF InsertMetadata, At, By, Sources, TypeInv, Typed, JobsWork, Working, DescribeSteps
  <2> QED
    BY <2>1, <2>2 DEF RowFor
<1>3. ASSUME NEW j \in Jobs, JobStep(j), ~InsertMetadata(j) PROVE UNCHANGED metadata
  <2>1. CASE \/ Freeze(j) \/ CheckProgress(j) \/ Stage(j) \/ Fill(j) \/ CloseProducts(j)
             \/ WriteManifest(j) \/ Validate(j) \/ Rename(j)
    BY <2>1 DEF Freeze, CheckProgress, Stage, Fill, CloseProducts, WriteManifest, Validate, Rename,
       progress
  <2>2. CASE \/ Generate(j) \/ WriteProduct(j) \/ WriteFactsManifest(j) \/ Describe(j)
             \/ ReadMetadata(j) \/ OpenFacts(j) \/ Product(j) \/ Ask(j)
             \/ ApproveTemplate(j) \/ ApproveProposal(j) \/ Ends(j)
    BY <2>2 DEF Generate, WriteProduct, WriteFactsManifest, Describe, ReadMetadata, OpenFacts,
       Product, Ask, ApproveTemplate, ApproveProposal, Approves, Ends, progress
  <2> QED
    BY <1>3, <2>1, <2>2 DEF JobStep
<1> QED
  BY <1>1, <1>2, <1>3 DEF Next, RemoveFacts, vars, progress

LEMMA SourcesStep == TypeInv /\ TypeInv' /\ SourcesInv /\ [Next]_vars => SourcesInv'
<1> SUFFICES ASSUME TypeInv, TypeInv', SourcesInv, [Next]_vars PROVE SourcesInv'
  OBVIOUS
<1>1. ASSUME NEW k \in Jobs, job'[k] = job[k], job[k].step \in Recorded PROVE RowFor(By(k))'
  <2>1. RowFor(By(k))
    BY <1>1 DEF SourcesInv
  <2>2. PICK source : source = By(k)
    OBVIOUS
  <2>3. RowFor(source)'
    BY <2>1, <2>2, RowsKept
  <2>4. By(k)' = source
    BY <1>1, <2>2 DEF By
  <2> QED
    BY <2>3, <2>4 DEF RowFor
<1>2. ASSUME NEW id \in Approved, approved'[id] = approved[id] PROVE RowFor(approved[id].by)'
  <2>1. PICK source : source = approved[id].by
    OBVIOUS
  <2>2. RowFor(source)'
    BY <2>1, RowsKept DEF SourcesInv
  <2> QED
    BY <1>2, <2>1, <2>2 DEF RowFor
<1>3. CASE UNCHANGED <<job, approved>>
  BY <1>1, <1>2, <1>3 DEF SourcesInv, Approved
<1>4. ASSUME NEW j \in Jobs, JobStep(j), ~Rename(j)
      PROVE  \A k \in Jobs : job'[k].step \in Recorded => RowFor(By(k))'
  <2>1. PICK r : Moves(j, r)
    BY <1>4, JobMoves
  <2>2. ASSUME r.step \in Recorded PROVE RowFor(By(j))'
    <3>1. PICK source : source = By(j)
      OBVIOUS
    <3>2. By(j)' = source
      BY <2>1, <2>2, <3>1 DEF Moves, Becomes, Records, By
    <3>3. By(j) \in Sources
      BY <2>1, <2>2, <3>1, <3>2 DEF TypeInv, JobsWork, Working, Moves, Becomes, By, Sources,
         Recorded, DescribeSteps
    <3>4. metadata \in Seq(Sources)
      BY DEF TypeInv, Typed
    <3>5. CASE job[j].step \in Recorded \/ (metadata # <<>> /\ metadata[1] = By(j))
      <4>1. RowFor(source)
        BY <3>1, <3>4, <3>5 DEF SourcesInv, RowFor
      <4>2. RowFor(source)'
        BY <4>1, RowsKept
      <4> QED
        BY <3>2, <4>2 DEF RowFor
    <3>6. CASE metadata' = Append(metadata, By(j))
      BY <3>1, <3>2, <3>3, <3>4, <3>6 DEF RowFor
    <3> QED
      BY <2>1, <2>2, <3>5, <3>6 DEF Moves, Records
  <2> QED
    BY <1>1, <2>1, <2>2 DEF Moves, Becomes
<1>5. ASSUME NEW j \in Jobs, JobStep(j) PROVE \A id \in Approved' : RowFor(approved[id].by)'
  <2>1. CASE UNCHANGED approved
    BY <1>2, <2>1 DEF Approved
  <2>2. CASE ApproveTemplate(j) \/ ApproveProposal(j)
    <3>1. Approves(j) /\ job[j].step \in {"approve", "propose"}
      BY <2>2 DEF ApproveTemplate, ApproveProposal, At
    <3>2. Adds(j)
      BY <3>1, ApprovesType
    <3>3. RowFor(By(j)) /\ UNCHANGED metadata
      BY <3>1 DEF SourcesInv, Recorded, Approves
    <3>4. ASSUME NEW id \in Approved' PROVE RowFor(approved[id].by)'
      <4>1. id \in Ids /\ approved'[id] # NoApproval
        BY <3>4 DEF Approved
      <4>2. CASE id \in Approved
        BY <1>2, <3>2, <4>2 DEF Adds
      <4>3. CASE id \notin Approved
        <5>1. approved'[id].by = By(j)
          BY <3>2, <4>1, <4>3 DEF Adds, Approved
        <5> QED
          BY <3>3, <5>1 DEF RowFor
      <4> QED
        BY <4>2, <4>3
    <3> QED
      BY <3>4
  <2> QED
    BY <1>5, <2>1, <2>2 DEF JobStep, Generate, WriteProduct, WriteFactsManifest, Describe,
       ReadMetadata, InsertMetadata, OpenFacts, Product, Ask, Freeze, CheckProgress, Stage, Fill,
       CloseProducts, WriteManifest, Validate, Rename, Ends, progress
<1>6. ASSUME NEW j \in Jobs, Rename(j)
      PROVE  \A k \in Jobs : job'[k].step \in Recorded => RowFor(By(k))'
  BY <1>1, <1>6, RenameSpares
<1>7. CASE RemoveFacts \/ UNCHANGED vars
  BY <1>3, <1>7 DEF RemoveFacts, vars, progress
<1> QED
  BY <1>4, <1>5, <1>6, <1>7 DEF Next, SourcesInv

-------------------------------------------------------------------------------
(* The artifact *)

\* Who uses the directory output.partial, and who writes to the artifact.
UsersInv ==
  /\ \A k \in Jobs : job[k].step \in StagedSteps => k \in staging.freezes \/ staging = Absent
  /\ \A k \in Jobs : job[k].writes = "staging" => k \in staging.freezes
  /\ \A k \in Jobs : job[k].writes = "output" => output.freezes # {} /\ ~Unshared(output)

\* How far a freeze that has the directory for itself has come.
Prepared(r) ==
  /\ HasProductsOf(staging, r.source)
  /\ r.step = "fill" => r.writes = "staging" /\ Len(staging.products) = r.next - 1
  /\ r.step # "fill" => r.source \in Contents
  /\ r.step = "rename" => Valid(staging)

PreparedInv ==
  \A j \in Jobs : staging.freezes = {j} /\ job[j].step \in StagedSteps => Prepared(job[j])

FreezeInv == UsersInv /\ PreparedInv /\ FrozenIsComplete

LEMMA FreezeInit == Init => FreezeInv
<1> SUFFICES ASSUME Init PROVE FreezeInv
  OBVIOUS
<1>1. \A j \in Jobs : job[j].step = "idle" /\ job[j].writes = "none"
  BY IdleType DEF Init
<1> QED
  BY <1>1 DEF Init, FreezeInv, UsersInv, PreparedInv, FrozenIsComplete, StagedSteps

LEMMA ApprovalsKept ==
  ASSUME TypeInv, [Next]_vars, NEW id \in Approved
  PROVE  id \in Approved' /\ approved'[id] = approved[id]
<1>1. CASE UNCHANGED approved
  BY <1>1 DEF Approved
<1>2. ASSUME NEW j \in Jobs, ApproveTemplate(j) \/ ApproveProposal(j)
      PROVE  id \in Approved' /\ approved'[id] = approved[id]
  <2>1. Approves(j) /\ job[j].step \in {"approve", "propose"}
    BY <1>2 DEF ApproveTemplate, ApproveProposal, At
  <2>2. Adds(j)
    BY <2>1, ApprovesType
  <2> QED
    BY <2>2 DEF Adds, Approved
<1> QED
  BY <1>1, <1>2 DEF Next, JobStep, RemoveFacts, vars, Generate, WriteProduct, WriteFactsManifest,
     Describe, ReadMetadata, InsertMetadata, OpenFacts, Product, Ask,
     Freeze, CheckProgress, Stage, Fill, CloseProducts, WriteManifest, Validate, Rename, Ends, progress

LEMMA ProductsKept ==
  ASSUME TypeInv, [Next]_vars, NEW c, NEW directory, HasProductsOf(directory, c)
  PROVE  HasProductsOf(directory, c)'
  BY ApprovalsKept DEF HasProductsOf

\* A step that leaves both directories alone, and every job that uses one, but
\* may add approvals.
LEMMA FreezeKept ==
  ASSUME TypeInv, FreezeInv, [Next]_vars, UNCHANGED <<staging, output>>,
         \A k \in Jobs : /\ job'[k].step \in StagedSteps => job'[k] = job[k]
                         /\ job'[k].writes # "none" => job'[k] = job[k]
  PROVE  FreezeInv'
<1>1. UsersInv'
  BY DEF FreezeInv, UsersInv, Unshared
<1>2. ASSUME NEW c, HasProductsOf(staging, c) PROVE HasProductsOf(staging, c)'
  BY <1>2, ApprovalsKept DEF HasProductsOf
<1>3. ASSUME NEW c, HasProductsOf(output, c) PROVE HasProductsOf(output, c)'
  BY <1>3, ApprovalsKept DEF HasProductsOf
<1>4. PreparedInv'
  <2> SUFFICES ASSUME NEW j \in Jobs, staging'.freezes = {j}, job'[j].step \in StagedSteps
               PROVE  Prepared(job[j])'
    BY DEF PreparedInv
  <2>1. job'[j] = job[j] /\ Prepared(job[j])
    BY DEF FreezeInv, PreparedInv
  <2>2. PICK c : c = job[j].source
    OBVIOUS
  <2>3. HasProductsOf(staging, c)'
    BY <1>2, <2>1, <2>2 DEF Prepared
  <2> QED
    BY <2>1, <2>2, <2>3 DEF Prepared, Valid
<1>5. FrozenIsComplete'
  BY <1>3 DEF FreezeInv, FrozenIsComplete, Unshared, Valid
<1> QED
  BY <1>1, <1>4, <1>5 DEF FreezeInv

\* Where a freeze that is alone writes its next line, the file grows by that line.
LEMMA WrittenNext ==
  ASSUME NEW file \in ProductFiles, NEW n \in Nat, Len(file) = n - 1, NEW line,
         \A i \in DOMAIN file : file[i].id[1] = line.id[1],
         NEW f \in Written(file, n, line)
  PROVE  DOMAIN f = 1..n /\ Len(f) = n /\ f[n] = line /\ \A i \in 1..(n-1) : f[i] = file[i]
<1>1. PICK torn \in SUBSET {i \in DOMAIN file : file[i].id[1] # line.id[1]} :
         f = [i \in 1..(IF n > Len(file) THEN n ELSE Len(file)) |->
                IF i = n THEN line
                ELSE IF i > Len(file) \/ i \in torn THEN Unreadable ELSE file[i]]
  BY DEF Written
<1>2. torn = {}
  BY <1>1
<1>3. n > Len(file)
  OBVIOUS
<1>4. f = [i \in 1..n |-> IF i = n THEN line ELSE IF i > Len(file) THEN Unreadable ELSE file[i]]
  BY <1>1, <1>2, <1>3
<1> QED
  BY <1>3, <1>4

LEMMA AbsentUsers == Absent.freezes = {} /\ Absent.products = <<>>
  BY DEF Absent

LEMMA StageFreeze ==
  ASSUME TypeInv, FreezeInv, NEW j \in Jobs, Stage(j)
  PROVE  FreezeInv'
<1>1. /\ job'[j] = StageOpened(j) /\ \A k \in Jobs \ {j} : job'[k] = job[k]
      /\ job'[j].step = "fill" /\ job'[j].writes = "staging" /\ job'[j].next = 1
      /\ staging'.products = <<>>
      /\ staging'.freezes = {j} \cup {k \in Jobs : job[k].step \in StagedSteps}
  BY StageType DEF Becomes
<1>2. \A k \in Jobs : job[k].writes # "none" => job[k].step \in StagedSteps
  BY DEF TypeInv, JobsWork, Working, StagedSteps
<1>3. UNCHANGED <<output, approved>>
  BY DEF Stage, progress
<1>4. UsersInv'
  BY <1>1, <1>2, <1>3 DEF FreezeInv, UsersInv, Unshared
<1>5. Prepared(job[j])'
  BY <1>1 DEF Prepared, HasProductsOf
<1>6. \A k \in Jobs : staging'.freezes = {k} => k = j
  BY <1>1
<1>7. PreparedInv'
  BY <1>5, <1>6 DEF PreparedInv
<1>8. FrozenIsComplete'
  BY <1>3 DEF FreezeInv, FrozenIsComplete, Unshared, Valid, HasProductsOf, Approved
<1> QED
  BY <1>4, <1>7, <1>8 DEF FreezeInv

LEMMA FillFreeze ==
  ASSUME TypeInv, FreezeInv, NEW j \in Jobs, Fill(j)
  PROVE  FreezeInv'
<1>1. /\ \A k \in Jobs \ {j} : job'[k] = job[k]
      /\ job'[j].step = "fill" /\ job'[j].next = job[j].next + 1
      /\ job'[j].source = job[j].source /\ job'[j].writes = job[j].writes
  BY FillJob DEF Becomes
<1>2. staging'.freezes = staging.freezes /\ output'.freezes = output.freezes
  BY FillFiles
<1>3. job[j].step = "fill" /\ job[j].step \in StagedSteps /\ UNCHANGED approved
  BY DEF Fill, At, StagedSteps, progress
<1>4. UsersInv'
  <2>1. CASE job[j].writes = "staging"
    <3>1. j \in staging.freezes /\ staging # Absent
      BY <2>1, AbsentUsers DEF FreezeInv, UsersInv
    <3> QED
      BY <1>1, <1>2, <1>3, <3>1 DEF FreezeInv, UsersInv, Unshared
  <2>2. CASE job[j].writes # "staging"
    <3>1. UNCHANGED staging
      BY <2>2, FillFiles
    <3> QED
      BY <1>1, <1>2, <1>3, <3>1 DEF FreezeInv, UsersInv, Unshared
  <2> QED
    BY <2>1, <2>2
<1>5. PreparedInv'
  <2> SUFFICES ASSUME NEW x \in Jobs, staging'.freezes = {x}, job'[x].step \in StagedSteps
               PROVE  Prepared(job[x])'
    BY DEF PreparedInv
  <2>1. job[x].step \in StagedSteps /\ Prepared(job[x])
    BY <1>1, <1>2, <1>3 DEF FreezeInv, PreparedInv
  <2>2. CASE job[j].writes = "staging"
    <3>1. x = j
      BY <1>2, <2>2 DEF FreezeInv, UsersInv
    <3> DEFINE n == job[j].next
               file == staging.products
    <3>2. Len(file) = n - 1 /\ HasProductsOf(staging, job[j].source)
      BY <1>3, <2>1, <3>1 DEF Prepared
    <3>3. n \in Nat /\ n >= 1 /\ Id(j) \in Approved /\ Line(j).id = Id(j)
          /\ Line(j).selected = approved[Id(j)].selected
      BY LineType
    <3>4. file \in ProductFiles /\ DOMAIN file = 1..(n - 1)
      BY <3>2, <3>3 DEF TypeInv, Typed, Directories, ProductFiles
    <3>5. \A i \in DOMAIN file : file[i].id[1] = Line(j).id[1]
      <4>1. \A i \in DOMAIN file : file[i].id = <<job[j].source, i>>
        <5>1. \A i \in DOMAIN file : \E s :
                 file[i] = [id |-> <<job[j].source, i>>, selected |-> s]
          BY <3>2 DEF HasProductsOf
        <5>2. ASSUME NEW i \in DOMAIN file PROVE file[i].id = <<job[j].source, i>>
          <6>1. PICK s, id : id = <<job[j].source, i>> /\ file[i] = [id |-> id, selected |-> s]
            BY <5>1
          <6> HIDE DEF file
          <6> QED
            BY <6>1
        <5> QED
          BY <5>2
      <4>2. Line(j).id = <<job[j].source, job[j].next>>
        BY <3>3 DEF Id
      <4> QED
        BY <4>1, <4>2
    <3>6. staging'.products \in Written(file, n, Line(j))
      BY <2>2, FillFiles
    <3>7. PICK f : f = staging'.products
      OBVIOUS
    <3> HIDE DEF n, file
    <3>8. DOMAIN f = 1..n /\ Len(f) = n /\ f[n] = Line(j) /\ \A i \in 1..(n-1) : f[i] = file[i]
      <4>1. PICK line : line = Line(j)
        OBVIOUS
      <4>2. f \in Written(file, n, line) /\ \A i \in DOMAIN file : file[i].id[1] = line.id[1]
        BY <3>5, <3>6, <3>7, <4>1
      <4>3. Len(file) = n - 1 /\ n \in Nat /\ file \in ProductFiles
        BY <3>2, <3>3, <3>4 DEF n, file
      <4>4. PICK m \in Nat, old \in ProductFiles : m = n /\ old = file
        BY <4>3
      <4>5. /\ f \in Written(old, m, line) /\ Len(old) = m - 1
            /\ \A i \in DOMAIN old : old[i].id[1] = line.id[1]
        <5>1. f \in Written(old, m, line)
          BY <4>2, <4>4
        <5>2. \A i \in DOMAIN old : old[i].id[1] = line.id[1]
          BY <4>2, <4>4
        <5> QED
          BY <4>3, <4>4, <5>1, <5>2
      <4>6. DOMAIN f = 1..m /\ Len(f) = m /\ f[m] = line /\ \A i \in 1..(m-1) : f[i] = old[i]
        BY <4>5, WrittenNext
      <4> QED
        BY <4>1, <4>4, <4>6
    <3>9. Line(j) = [id |-> <<job[j].source, n>>, selected |-> approved[<<job[j].source, n>>].selected]
          /\ <<job[j].source, n>> \in Approved
      BY <3>3 DEF Line, Id, n
    <3>10. \A i \in 1..n : <<job[j].source, i>> \in Approved
             /\ f[i] = [id |-> <<job[j].source, i>>, selected |-> approved[<<job[j].source, i>>].selected]
      <4> SUFFICES ASSUME NEW i \in 1..n
                   PROVE  <<job[j].source, i>> \in Approved
             /\ f[i] = [id |-> <<job[j].source, i>>, selected |-> approved[<<job[j].source, i>>].selected]
        OBVIOUS
      <4>1. CASE i = n
        BY <3>8, <3>9, <4>1
      <4>2. CASE i # n
        <5>1. i \in 1..(n - 1)
          BY <3>3, <4>2
        <5> QED
          BY <3>2, <3>4, <3>8, <5>1 DEF HasProductsOf, file
      <4> QED
        BY <4>1, <4>2
    <3>11. HasProductsOf(staging, job[j].source)'
      BY <1>1, <1>3, <3>7, <3>8, <3>10 DEF HasProductsOf, Approved
    <3>12. Len(staging'.products) = job'[j].next - 1
      BY <1>1, <3>3, <3>7, <3>8 DEF n
    <3> QED
      BY <1>1, <2>2, <3>1, <3>11, <3>12 DEF Prepared
  <2>3. CASE job[j].writes # "staging"
    <3>1. x # j
      BY <1>3, <2>1, <2>3 DEF Prepared
    <3>2. job'[x] = job[x] /\ UNCHANGED staging
      BY <1>1, <2>3, <3>1, FillFiles
    <3> QED
      BY <1>3, <2>1, <3>2 DEF Prepared, HasProductsOf, Valid, Approved
  <2> QED
    BY <2>2, <2>3
<1>6. FrozenIsComplete'
  <2>1. CASE job[j].writes = "staging"
    <3>1. UNCHANGED output
      BY <2>1, FillFiles
    <3> QED
      BY <1>3, <3>1 DEF FreezeInv, FrozenIsComplete, Unshared, Valid, HasProductsOf, Approved
  <2>2. CASE job[j].writes # "staging"
    <3>1. ~Unshared(output)
      BY <2>2, FillFiles DEF FreezeInv, UsersInv
    <3> QED
      BY <1>2, <3>1 DEF FrozenIsComplete, Unshared
  <2> QED
    BY <2>1, <2>2
<1> QED
  BY <1>4, <1>5, <1>6 DEF FreezeInv

\* A step of a freeze that has the file closed, or closes it: nothing is written
\* but the manifest.
Advances(j) ==
  /\ \A k \in Jobs \ {j} : job'[k] = job[k]
  /\ job[j].step \in StagedSteps /\ job'[j].step \in StagedSteps \ {"fill"}
  /\ job'[j].writes = "none" /\ job'[j].source = job[j].source
  /\ staging'.products = staging.products /\ staging'.freezes = staging.freezes
  /\ UNCHANGED <<output, approved>>
  /\ staging' # staging => staging # Absent
  /\ job[j].step = "fill" => job[j].source \in Contents
  /\ job'[j].step = "rename" => Valid(staging')

LEMMA AdvancesFreeze ==
  ASSUME TypeInv, FreezeInv, NEW j \in Jobs, Advances(j), staging' # staging => job'[j].step = "validate"
  PROVE  FreezeInv'
<1>1. UsersInv'
  BY DEF Advances, FreezeInv, UsersInv, Unshared
<1>2. PreparedInv'
  <2> SUFFICES ASSUME NEW x \in Jobs, staging'.freezes = {x}, job'[x].step \in StagedSteps
               PROVE  Prepared(job[x])'
    BY DEF PreparedInv
  <2>1. job[x].step \in StagedSteps /\ staging.freezes = {x} /\ Prepared(job[x])
    BY DEF Advances, FreezeInv, PreparedInv
  <2>2. job'[x].source = job[x].source /\ HasProductsOf(staging, job[x].source)'
    BY <2>1 DEF Advances, Prepared, HasProductsOf, Approved
  <2>3. CASE x = j
    BY <2>1, <2>2, <2>3 DEF Advances, Prepared
  <2>4. CASE x # j
    <3>1. job'[x] = job[x]
      BY <2>4 DEF Advances
    <3>2. UNCHANGED staging
      <4>1. SUFFICES ASSUME staging' # staging PROVE FALSE
        OBVIOUS
      <4>2. j \in staging.freezes
        BY <4>1 DEF Advances, FreezeInv, UsersInv
      <4> QED
        BY <2>1, <2>4, <4>2
    <3> QED
      BY <2>1, <2>2, <3>1, <3>2 DEF Prepared, Valid
  <2> QED
    BY <2>3, <2>4
<1>3. FrozenIsComplete'
  BY DEF Advances, FreezeInv, FrozenIsComplete, Unshared, Valid, HasProductsOf, Approved
<1> QED
  BY <1>1, <1>2, <1>3 DEF FreezeInv

LEMMA CloseFreeze ==
  ASSUME TypeInv, FreezeInv, NEW j \in Jobs, CloseProducts(j)
  PROVE  FreezeInv'
<1>1. Becomes(j, [job[j] EXCEPT !.step = "manifest", !.writes = "none"])
      /\ job'[j].step = "manifest" /\ job'[j].writes = "none" /\ job'[j].source = job[j].source
  BY CloseType
<1>2. job[j].source \in Contents
  BY DEF TypeInv, Typed, JobRecords, CloseProducts
<1>3. UNCHANGED <<staging, output, approved>> /\ job[j].step = "fill"
  BY DEF CloseProducts, At, progress
<1>4. Advances(j)
  BY <1>1, <1>2, <1>3 DEF Advances, Becomes, StagedSteps
<1> QED
  BY <1>3, <1>4, AdvancesFreeze

LEMMA ChecksFreeze ==
  ASSUME TypeInv, FreezeInv, NEW j \in Jobs, WriteManifest(j) \/ Validate(j)
  PROVE  FreezeInv'
<1>1. PICK step \in {"validate", "rename"} :
        Goes(j, step) /\ (WriteManifest(j) => step = "validate") /\ (step = "rename" => Validate(j))
  BY DEF WriteManifest, Validate
<1>2. /\ metadata # <<>> /\ UNCHANGED metadata /\ job[j].step \in {"manifest", "validate"}
      /\ job[j].writes = "none" /\ job[j] \in JobRecords
  BY DEF WriteManifest, Validate, At, progress, TypeInv, Typed, JobsWork, Working, FreezeSteps,
     StagedSteps
<1>3. Becomes(j, [job[j] EXCEPT !.step = step])
  BY <1>1, <1>2, GoesType DEF FreezeSteps, StagedSteps
<1>4. job'[j].step = step /\ job'[j].writes = "none" /\ job'[j].source = job[j].source
  BY <1>2, <1>3 DEF Becomes, JobRecords
<1>5. /\ staging'.products = staging.products /\ staging'.freezes = staging.freezes
      /\ staging # Absent /\ UNCHANGED <<output, approved>>
      /\ Validate(j) => UNCHANGED staging /\ Valid(staging)
  BY ManifestType DEF WriteManifest, Validate, progress
<1>6. step = "rename" => Valid(staging')
  BY <1>1, <1>5
<1>7. Advances(j)
  BY <1>2, <1>3, <1>4, <1>5, <1>6 DEF Advances, Becomes, StagedSteps
<1>8. staging' # staging => job'[j].step = "validate"
  BY <1>1, <1>4, <1>5
<1> QED
  BY <1>7, <1>8, AdvancesFreeze

LEMMA RenameFreeze ==
  ASSUME TypeInv, FreezeInv, NEW j \in Jobs, Rename(j)
  PROVE  FreezeInv'
<1>1. /\ staging # Absent /\ output = Absent /\ output' = staging /\ staging' = Absent
      /\ UNCHANGED approved /\ job[j].step = "rename"
  BY DEF Rename, At, progress
<1>2. /\ job'[j].step = "idle" /\ job'[j].writes = "none"
      /\ \A k \in Jobs : job[k].writes # "staging" /\ k # j => job'[k] = job[k]
      /\ \A k \in Jobs : job[k].writes = "staging" /\ k # j => job'[k].writes = "output"
  BY RenameType, IdleType
<1>3. j \in staging.freezes
  BY <1>1 DEF FreezeInv, UsersInv, StagedSteps
<1>4. UsersInv'
  <2>1. \A k \in Jobs : job[k].writes # "output"
    BY <1>1, AbsentUsers DEF FreezeInv, UsersInv
  <2>2. \A k \in Jobs : job'[k].writes = "output" => k # j /\ k \in staging.freezes
    BY <1>2, <2>1 DEF FreezeInv, UsersInv
  <2>3. \A k \in Jobs : job'[k].writes # "staging"
    BY <1>2
  <2> QED
    BY <1>1, <1>3, <2>2, <2>3 DEF UsersInv, Unshared
<1>5. PreparedInv'
  BY <1>1, AbsentUsers DEF PreparedInv
<1>6. FrozenIsComplete'
  <2>1. SUFFICES ASSUME Unshared(staging)
                 PROVE  Valid(staging) /\ \E c \in Contents : HasProductsOf(staging, c)
    <3>1. ASSUME Valid(staging), NEW c \in Contents, HasProductsOf(staging, c)
          PROVE  FrozenIsComplete'
      BY <1>1, <3>1 DEF FrozenIsComplete, Valid, HasProductsOf, Approved
    <3>2. ~Unshared(staging) => FrozenIsComplete'
      BY <1>1 DEF FrozenIsComplete, Unshared
    <3> QED
      BY <3>1, <3>2
  <2>2. staging.freezes = {j}
    BY <1>3, <2>1 DEF Unshared
  <2>3. Prepared(job[j])
    BY <1>1, <2>2 DEF FreezeInv, PreparedInv, StagedSteps
  <2> QED
    BY <1>1, <2>3 DEF Prepared
<1> QED
  BY <1>4, <1>5, <1>6 DEF FreezeInv

\* No other step begins, or goes on with, the use of a directory.
LEMMA StepsElsewhere ==
  ASSUME TypeInv, NEW j \in Jobs, JobStep(j), ~Stage(j), ~Fill(j), ~CloseProducts(j),
         ~WriteManifest(j), ~Validate(j), ~Rename(j)
  PROVE  job'[j].step \notin StagedSteps /\ \A k \in Jobs \ {j} : job'[k] = job[k]
<1>1. CASE Generate(j)
  <2>1. PICK c \in Contents : Starts(j, "generate", c, NoContent)
    BY <1>1 DEF Generate
  <2>2. Becomes(j, [Idle EXCEPT !.step = "generate", !.content = c, !.mode = NoContent])
    BY <2>1, StartsEffect DEF TypeInv
  <2> QED
    BY <2>2 DEF Becomes, Idle, StagedSteps
<1>2. CASE Describe(j)
  <2>1. PICK c \in Contents, mode \in Modes : Starts(j, "connect", c, mode)
    BY <1>2 DEF Describe
  <2>2. Becomes(j, [Idle EXCEPT !.step = "connect", !.content = c, !.mode = mode])
    BY <2>1, StartsEffect DEF TypeInv
  <2> QED
    BY <2>2 DEF Becomes, Idle, StagedSteps
<1>3. CASE Freeze(j)
  <2>1. PICK c \in Contents : Starts(j, "progress", c, NoContent)
    BY <1>3 DEF Freeze
  <2>2. Becomes(j, [Idle EXCEPT !.step = "progress", !.content = c, !.mode = NoContent])
    BY <2>1, StartsEffect DEF TypeInv
  <2> QED
    BY <2>2 DEF Becomes, Idle, StagedSteps
<1>4. CASE WriteProduct(j)
  BY <1>4 DEF WriteProduct, At, StagedSteps
<1>5. CASE WriteFactsManifest(j) \/ Ends(j)
  BY <1>5, IdleType, JobSet DEF WriteFactsManifest, Ends, TypeInv, Becomes, StagedSteps
<1>6. CASE ReadMetadata(j) \/ InsertMetadata(j) \/ CheckProgress(j)
  <2>1. PICK step \in {"insert", "open", "stage"} : Goes(j, step)
    BY <1>6 DEF ReadMetadata, InsertMetadata, CheckProgress
  <2>2. job[j] \in JobRecords
    BY DEF TypeInv, Typed
  <2>3. Becomes(j, [job[j] EXCEPT !.step = step])
    BY <2>1, GoesEffect DEF TypeInv, DescribeSteps, FreezeSteps
  <2> QED
    BY <2>2, <2>3 DEF Becomes, JobRecords, StagedSteps
<1>7. CASE OpenFacts(j)
  <2>1. Becomes(j, Opened(j)) /\ job[j] \in JobRecords
    BY <1>7, OpensEffect DEF OpenFacts, TypeInv, Typed
  <2> QED
    BY <2>1 DEF Becomes, Opened, JobRecords, StagedSteps
<1>8. CASE Product(j)
  <2>1. PICK r : Becomes(j, r) /\ TemplateChosen(j, r)
    BY <1>8, ProductType
  <2> QED
    BY <2>1 DEF Becomes, TemplateChosen, StagedSteps
<1>9. CASE Ask(j)
  <2>1. PICK r : Becomes(j, r) /\ r.step = "propose"
    BY <1>9, AskType
  <2> QED
    BY <2>1 DEF Becomes, StagedSteps
<1>10. CASE ApproveTemplate(j) \/ ApproveProposal(j)
  <2>1. Approves(j) /\ job[j].step \in {"approve", "propose"}
    BY <1>10 DEF ApproveTemplate, ApproveProposal, At
  <2>2. PICK r : Becomes(j, r) /\ r.step = "product"
    BY <2>1, ApprovesType
  <2> QED
    BY <2>2 DEF Becomes, StagedSteps
<1> QED
  BY <1>1, <1>2, <1>3, <1>4, <1>5, <1>6, <1>7, <1>8, <1>9, <1>10 DEF JobStep

LEMMA FreezeInvStep == TypeInv /\ TypeInv' /\ FreezeInv /\ [Next]_vars => FreezeInv'
<1> SUFFICES ASSUME TypeInv, TypeInv', FreezeInv, [Next]_vars PROVE FreezeInv'
  OBVIOUS
<1>1. ASSUME NEW j \in Jobs, JobStep(j), ~Stage(j), ~Fill(j), ~CloseProducts(j),
             ~WriteManifest(j), ~Validate(j), ~Rename(j)
      PROVE  FreezeInv'
  <2>1. job'[j].step \notin StagedSteps /\ \A k \in Jobs \ {j} : job'[k] = job[k]
    BY <1>1, StepsElsewhere
  <2>2. job'[j].writes = "none"
    BY <2>1 DEF TypeInv, JobsWork, Working, StagedSteps
  <2>3. UNCHANGED <<staging, output>>
    BY <1>1 DEF JobStep, Generate, WriteProduct, WriteFactsManifest, Describe, ReadMetadata,
       InsertMetadata, OpenFacts, Product, Ask, ApproveTemplate, ApproveProposal, Approves, Freeze,
       CheckProgress, Ends
  <2> QED
    BY <2>1, <2>2, <2>3, FreezeKept
<1>2. CASE RemoveFacts \/ UNCHANGED vars
  BY <1>2, FreezeKept DEF RemoveFacts, vars
<1> QED
  BY <1>1, <1>2, StageFreeze, FillFreeze, CloseFreeze, ChecksFreeze, RenameFreeze DEF Next

-------------------------------------------------------------------------------
(* Theorems *)

LEMMA SpecInv == Spec => [](TypeInv /\ TemplatesInv /\ SourcesInv /\ FreezeInv)
  BY TypeInit, TemplatesInit, SourcesInit, FreezeInit, TypeStep, TemplatesStep, SourcesStep,
     FreezeInvStep, PTL DEF Spec

\* Products of a category that were described with templates have one selection,
\* however many jobs ask for it and wherever they end.
THEOREM TemplatesBind == Spec => []TemplateIsLaw
  BY SpecInv, TemplatesImply, PTL

\* While one row of metadata is there, all descriptions come from its source.
THEOREM DescriptionsHaveOneSource == Spec => []OneProvenance
  BY SpecInv, SourcesImply, PTL

\* The artifact of a freeze that shared its directory with no other is what was
\* validated: every product, with the description approved for it.
THEOREM ArtifactIsComplete == Spec => []FrozenIsComplete
  BY SpecInv, PTL DEF FreezeInv
===============================================================================
