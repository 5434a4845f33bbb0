------------------------------ MODULE CatalogJobs ------------------------------
(***************************************************************************)
(* The offline jobs of shop/catalog_jobs.py: facts writes a file of        *)
(* products and its manifest, describe lets a model put the sentences of   *)
(* each product in order and keeps what it approves in an SQLite file, and *)
(* freeze makes of both the artifact that is ingested.                     *)
(*                                                                         *)
(* Jobs run at the same time, and each may end anywhere: its process dies, *)
(* a check fails, the model cannot be reached or its reply is rejected, or *)
(* the products it may describe are used up.  An operator may remove the   *)
(* facts to generate others.                                               *)
(*                                                                         *)
(* Two freezes share the directory output.partial: one may empty, or write *)
(* over, the products that another is writing, has validated or has just   *)
(* renamed to the artifact.                                                *)
(*                                                                         *)
(* Left out: the contents of products (module CatalogFacts), the table of  *)
(* rejections, which nothing reads, the compressed form of the artifact,   *)
(* and a file that is removed while it is being generated.  Products are   *)
(* written a line at a time: what the buffers of a file hold back is the   *)
(* same as lines that are not written yet.                                 *)
(***************************************************************************)
EXTENDS Integers, Sequences, FiniteSetsExt, Functions

CONSTANTS
  Jobs,        \* processes
  Contents,    \* what seeds and profiles generate
  Category,    \* the categories of the products of a file, in its order
  Selections,  \* orders of the sentences of a product
  Modes,       \* models and modes of describe
  Templates,   \* those with templates
  NoContent, NoSelection,
  MaxStarts    \* bound of the model: jobs that are started

ASSUME ConstantsAssumption ==
  /\ NoContent \notin Contents
  /\ NoSelection \notin Selections
  /\ Templates \subseteq Modes
  /\ Category \in Seq(STRING) /\ Category # <<>>
  /\ MaxStarts \in Nat

Count == Len(Category)

\* The id of a product has the seed and its place.
Ids == Contents \X (1..Count)

VARIABLES
  facts,      \* the file of products: its content and how many lines it has
  manifest,   \* the content that the manifest beside it is about
  metadata,   \* SQLite: the rows of metadata, in the order of their insertion
  approved,   \* SQLite: the selection of each product, and the job that got it
  templates,  \* SQLite: the selection of each category
  staging,    \* the directory output.partial
  output,     \* the artifact
  job,        \* each process
  starts      \* how many jobs were started

vars == <<facts, manifest, metadata, approved, templates, staging, output, job, starts>>

progress == <<metadata, approved, templates>>

-------------------------------------------------------------------------------
(* Files and rows *)

NoFacts == [content |-> NoContent, lines |-> 0]

\* _facts_metadata: the checksum and the count agree with the manifest.
Complete(c) == facts = [content |-> c, lines |-> Count] /\ manifest = c

NoApproval == [selected |-> NoSelection, by |-> <<NoContent, NoContent>>]

Approved == {id \in Ids : approved[id] # NoApproval}

\* products: the id and the selection of each line, or Unreadable; manifest: the
\* row of metadata that is copied into it and the products its checksum is of;
\* freezes (history): those that had emptied the products and were under way
\* when they were emptied last.
Unreadable == [id |-> <<NoContent, 0>>, selected |-> NoSelection]

NoManifest == [stored |-> <<NoContent, NoContent>>, checksum |-> <<>>]

Absent == [products |-> <<>>, manifest |-> NoManifest, freezes |-> {}]

\* Variant of Valid: the number of products is not compared.
ValidPart(artifact) == artifact.manifest.checksum = artifact.products

\* validate_artifact.
Valid(artifact) ==
  LET products == artifact.products IN
  /\ artifact.manifest.checksum = products
  /\ Len(products) = Count
  /\ \A i, k \in 1..Count :
       products[i] # Unreadable /\ (products[i].id = products[k].id => i = k)

\* What a file may be when a line is written at its place, the nth.  What lies
\* before it, if the file was emptied meanwhile, is a hole; the lines of other
\* facts begin elsewhere, and any of them may be torn.
Written(file, n, line) ==
  LET others == {i \in DOMAIN file : file[i].id[1] # line.id[1]}
      length == IF n > Len(file) THEN n ELSE Len(file) IN
  {[i \in 1..length |-> IF i = n THEN line
                        ELSE IF i > Len(file) \/ i \in torn THEN Unreadable ELSE file[i]] :
     torn \in SUBSET others}

-------------------------------------------------------------------------------
(* Processes *)

\* content, mode: the arguments and the facts they were checked with; source,
\* lines: the file the job has open; next: the line it is at; writes: the
\* directory of the products that a freeze has open.
Idle == [step |-> "idle", content |-> NoContent, mode |-> NoContent,
         source |-> NoContent, lines |-> 0, next |-> 0, selected |-> NoSelection,
         writes |-> "none"]

At(j, step) == job[j].step = step

Goes(j, step) == job' = [job EXCEPT ![j].step = step]

Starts(j, step, content, mode) ==
  /\ At(j, "idle") /\ starts < MaxStarts
  /\ starts' = starts + 1
  /\ job' = [job EXCEPT ![j] = [Idle EXCEPT !.step = step, !.content = content, !.mode = mode]]

\* The job opens the file of facts that is there now, at its first line.
Opens(j, step) ==
  job' = [job EXCEPT ![j].step = step, ![j].source = facts.content,
                     ![j].lines = facts.lines, ![j].next = 1]

By(j) == <<job[j].content, job[j].mode>>

Id(j) == <<job[j].source, job[j].next>>

CategoryOf(j) == Category[job[j].next]

Init ==
  /\ facts = NoFacts /\ manifest = NoContent
  /\ metadata = <<>>
  /\ approved = [id \in Ids |-> NoApproval]
  /\ templates = [c \in Range(Category) |-> NoSelection]
  /\ staging = Absent /\ output = Absent
  /\ job = [j \in Jobs |-> Idle]
  /\ starts = 0

\* A job ends with what it has done: it dies, raises or has nothing left to do.
Ends(j) ==
  /\ ~At(j, "idle")
  /\ job' = [job EXCEPT ![j] = Idle]
  /\ UNCHANGED <<facts, manifest, progress, staging, output, starts>>

-------------------------------------------------------------------------------
(* facts *)

\* The file is created, and must not exist.
Generate(j) ==
  /\ facts = NoFacts
  /\ \E c \in Contents :
       /\ Starts(j, "generate", c, NoContent)
       /\ facts' = [content |-> c, lines |-> 0]
  /\ UNCHANGED <<manifest, progress, staging, output>>

WriteProduct(j) ==
  /\ At(j, "generate") /\ facts.lines < Count
  /\ facts' = [facts EXCEPT !.lines = @ + 1]
  /\ UNCHANGED <<manifest, progress, staging, output, job, starts>>

WriteFactsManifest(j) ==
  /\ At(j, "generate") /\ facts.lines = Count
  /\ manifest' = job[j].content
  /\ job' = [job EXCEPT ![j] = Idle]
  /\ UNCHANGED <<facts, progress, staging, output, starts>>

\* The operator removes the facts, and perhaps their manifest.
RemoveFacts ==
  /\ facts # NoFacts
  /\ \A j \in Jobs : ~At(j, "generate")
  /\ facts' = NoFacts
  /\ manifest' \in {manifest, NoContent}
  /\ UNCHANGED <<progress, staging, output, job, starts>>

-------------------------------------------------------------------------------
(* describe *)

Describe(j) ==
  /\ \E c \in Contents, mode \in Modes : Complete(c) /\ Starts(j, "connect", c, mode)
  /\ UNCHANGED <<facts, manifest, progress, staging, output>>

\* Variant of Belongs: what other jobs have recorded does not matter.
BelongsToAll(j) == TRUE

\* The row that is read first is of the same facts, model and mode.
Belongs(j) == metadata[1] = By(j)

\* The job goes on, or finds no row and will insert its own.
ReadMetadata(j) ==
  /\ At(j, "connect")
  /\ \/ metadata = <<>> /\ Goes(j, "insert")
     \/ metadata # <<>> /\ Belongs(j) /\ Goes(j, "open")
  /\ UNCHANGED <<facts, manifest, progress, staging, output, starts>>

InsertMetadata(j) ==
  /\ At(j, "insert")
  /\ metadata' = Append(metadata, By(j))
  /\ Goes(j, "open")
  /\ UNCHANGED <<facts, manifest, approved, templates, staging, output, starts>>

OpenFacts(j) ==
  /\ At(j, "open") /\ facts # NoFacts
  /\ Opens(j, "product")
  /\ UNCHANGED <<facts, manifest, progress, staging, output, starts>>

\* The template that a product will get, unless the model is asked for it.
Template(j) == IF job[j].mode \in Templates THEN templates[CategoryOf(j)] ELSE NoSelection

\* A product that is approved is skipped; one whose category has a template
\* takes that; for any other the model is asked.
Product(j) ==
  /\ At(j, "product") /\ job[j].next <= job[j].lines
  /\ \/ /\ Id(j) \in Approved
        /\ job' = [job EXCEPT ![j].next = @ + 1]
     \/ /\ Id(j) \notin Approved /\ Template(j) # NoSelection
        /\ job' = [job EXCEPT ![j].step = "approve", ![j].selected = Template(j)]
     \/ /\ Id(j) \notin Approved /\ Template(j) = NoSelection
        /\ Goes(j, "ask")
  /\ UNCHANGED <<facts, manifest, progress, staging, output, starts>>

\* The model replies with all sentences of the product, in some order.
Ask(j) ==
  /\ At(j, "ask")
  /\ \E s \in Selections : job' = [job EXCEPT ![j].step = "propose", ![j].selected = s]
  /\ UNCHANGED <<facts, manifest, progress, staging, output, starts>>

\* The primary key of approved does not let a product be approved twice.
Approves(j) ==
  /\ Id(j) \notin Approved
  /\ approved' = [approved EXCEPT ![Id(j)] = [selected |-> job[j].selected, by |-> By(j)]]
  /\ job' = [job EXCEPT ![j].step = "product", ![j].next = @ + 1, ![j].selected = NoSelection]
  /\ UNCHANGED <<facts, manifest, metadata, staging, output, starts>>

ApproveTemplate(j) ==
  /\ At(j, "approve")
  /\ Approves(j)
  /\ UNCHANGED templates

\* Variant of WithTemplate: the proposal is not kept.
WithoutTemplate(j) == templates

WithTemplate(j) == [templates EXCEPT ![CategoryOf(j)] = job[j].selected]

\* A proposal becomes the template of the category, if none was made meanwhile:
\* both rows are inserted, or none.
ApproveProposal(j) ==
  /\ At(j, "propose")
  /\ Approves(j)
  /\ IF job[j].mode \in Templates
     THEN /\ templates[CategoryOf(j)] = NoSelection
          /\ templates' = WithTemplate(j)
     ELSE UNCHANGED templates

-------------------------------------------------------------------------------
(* freeze *)

Freeze(j) ==
  /\ \E c \in Contents : Complete(c) /\ Starts(j, "progress", c, NoContent)
  /\ UNCHANGED <<facts, manifest, progress, staging, output>>

CheckProgress(j) ==
  /\ At(j, "progress")
  /\ metadata # <<>> /\ metadata[1][1] = job[j].content
  /\ Cardinality(Approved) = Count
  /\ output = Absent
  /\ Goes(j, "stage")
  /\ UNCHANGED <<facts, manifest, progress, staging, output, starts>>

\* The steps of a freeze that uses the directory output.partial.
StagedSteps == {"fill", "manifest", "validate", "rename"}

\* The directory is made, unless it is there, its file of products is emptied,
\* and the facts are opened once more.
Stage(j) ==
  /\ At(j, "stage")
  /\ staging' = [staging EXCEPT !.products = <<>>,
                                !.freezes = {j} \cup {k \in Jobs : job[k].step \in StagedSteps}]
  /\ job' = [job EXCEPT ![j].step = "fill", ![j].source = facts.content,
                        ![j].lines = facts.lines, ![j].next = 1, ![j].writes = "staging"]
  /\ UNCHANGED <<facts, manifest, progress, output, starts>>

Line(j) == [id |-> Id(j), selected |-> approved[Id(j)].selected]

\* The next line, in the file that the job has open, wherever that is by now.
Fill(j) ==
  /\ At(j, "fill") /\ job[j].next <= job[j].lines
  /\ Id(j) \in Approved
  /\ \/ /\ job[j].writes = "staging"
        /\ \E file \in Written(staging.products, job[j].next, Line(j)) :
             staging' = [staging EXCEPT !.products = file]
        /\ UNCHANGED output
     \/ /\ job[j].writes = "output"
        /\ \E file \in Written(output.products, job[j].next, Line(j)) :
             output' = [output EXCEPT !.products = file]
        /\ UNCHANGED staging
  /\ job' = [job EXCEPT ![j].next = @ + 1]
  /\ UNCHANGED <<facts, manifest, progress, starts>>

CloseProducts(j) ==
  /\ At(j, "fill") /\ job[j].next > job[j].lines
  /\ job[j].source # NoContent
  /\ job' = [job EXCEPT ![j].step = "manifest", ![j].writes = "none"]
  /\ UNCHANGED <<facts, manifest, progress, staging, output, starts>>

\* The checksum is of the file that is there, whoever has written it.
WriteManifest(j) ==
  /\ At(j, "manifest") /\ staging # Absent
  /\ staging' = [staging EXCEPT !.manifest = [stored |-> metadata[1], checksum |-> staging.products]]
  /\ Goes(j, "validate")
  /\ UNCHANGED <<facts, manifest, progress, output, starts>>

Validate(j) ==
  /\ At(j, "validate") /\ staging # Absent
  /\ Valid(staging)
  /\ Goes(j, "rename")
  /\ UNCHANGED <<facts, manifest, progress, staging, output, starts>>

\* What is there is renamed, with the files that others have open in it.
Rename(j) ==
  /\ At(j, "rename")
  /\ staging # Absent /\ output = Absent
  /\ output' = staging /\ staging' = Absent
  /\ job' = [k \in Jobs |-> IF k = j THEN Idle
                            ELSE IF job[k].writes = "staging" THEN [job[k] EXCEPT !.writes = "output"]
                            ELSE job[k]]
  /\ UNCHANGED <<facts, manifest, progress, starts>>

JobStep(j) ==
  \/ Generate(j) \/ WriteProduct(j) \/ WriteFactsManifest(j)
  \/ Describe(j) \/ ReadMetadata(j) \/ InsertMetadata(j) \/ OpenFacts(j)
  \/ Product(j) \/ Ask(j) \/ ApproveTemplate(j) \/ ApproveProposal(j)
  \/ Freeze(j) \/ CheckProgress(j) \/ Stage(j) \/ Fill(j) \/ CloseProducts(j)
  \/ WriteManifest(j) \/ Validate(j) \/ Rename(j)
  \/ Ends(j)

Next == RemoveFacts \/ \E j \in Jobs : JobStep(j)

Spec == Init /\ [][Next]_vars

-------------------------------------------------------------------------------
(* Properties *)

\* All products of a category that were described with templates have the same
\* selection, though jobs ask for the category at the same time, die between
\* the model's reply and the commit, and are resumed by others.
TemplateIsLaw ==
  LET templated == {id \in Approved : approved[id].by[2] \in Templates} IN
  \A id, other \in templated :
    Category[id[2]] = Category[other[2]] => approved[id].selected = approved[other].selected

\* A job that finds another's row in the progress adds nothing to it: while one
\* row is recorded, all descriptions come from the model and the mode it names.
OneProvenance ==
  Len(metadata) = 1 => \A id \in Approved : approved[id].by = metadata[1]

\* The products of a directory are those of one file of facts, in its order, each
\* with the description that was approved for it.
HasProductsOf(directory, c) ==
  \A i \in DOMAIN directory.products :
    LET id == <<c, i>> IN
      id \in Approved /\ directory.products[i] = [id |-> id, selected |-> approved[id].selected]

\* One freeze only had the directory in use since its products were emptied last.
Unshared(directory) == \E j \in Jobs : directory.freezes = {j}

\* The artifact of a freeze that shared its directory with no other is what its
\* manifest has the checksum of, and has all products of some facts, each with the description that
\* was approved for it: though freezes die while they write its parts and leave
\* them to others, and the facts are removed, or generated again, after they
\* were checked.
FrozenIsComplete ==
  output # Absent /\ Unshared(output) =>
    /\ Len(output.products) = Count /\ output.manifest.checksum = output.products
    /\ \E c \in Contents : HasProductsOf(output, c)

\* Expectation, refuted by TLC: what is frozen is what was validated.  A second
\* freeze empties the products between validation and rename, and perhaps dies.
FrozenIsValid == output # Absent => Valid(output)

\* Expectation, refuted by TLC: the manifest is about the facts whose products
\* it has a checksum of.  describe and freeze check the facts and open them
\* again, and compare what they have checked only.
ManifestNamesProducts ==
  output # Absent => \A i \in DOMAIN output.products :
                       output.products[i].id[1] = output.manifest.stored[1]

\* Expectation, refuted by TLC: the progress belongs to one job's arguments.
\* Two jobs that start on an empty progress both insert a row, and go on.
OneRow == Len(metadata) <= 1
================================================================================
