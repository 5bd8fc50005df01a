------------------------------- MODULE OpsPlans -------------------------------
(***************************************************************************)
(* The wiki operations of the vault server (ops/runner.ts, executors.ts):  *)
(* contribute plans held for ten minutes, the reservations of the pages    *)
(* they will create, what applying a plan does, and the operation that     *)
(* writes pages without a plan (research).  One project; a page is its     *)
(* normalised slug and a number, 1 for the plain name.                     *)
(***************************************************************************)
EXTENDS Integers, FiniteSets

CONSTANTS
  Slugs,       \* slugs a completion may propose to create
  Plans,       \* contributes, from the text to the applied plan
  Researches,  \* research operations
  Ttl,         \* how long a plan is held
  MaxFile      \* bound: numbers of a page's name

ASSUME OpsAssumption == Ttl \in Nat /\ MaxFile \in Nat \ {0}

VARIABLES
  jobs,      \* operation -> where it is, the slugs it wants to create, its page in progress
  held,      \* reservedSlugs: slug -> time left, Unheld if there is no reservation
  research   \* files of sources/research: <<slug, number>> -> the operation that wrote it last

opsVars == <<jobs, held, research>>

Operations == Plans \cup Researches
Files == Slugs \X (1..MaxFile)
NoOne == "none"
NoFile == <<"none", 0>>

\* A deadline that has passed is -1 until prunePlans removes it.
Past == -1
Unheld == -2

New == [pc |-> "new", slugs |-> {}, disk |-> {}, left |-> 0, file |-> NoFile]

OpsInit ==
  /\ jobs = [o \in Operations |-> New] /\ held = [s \in Slugs |-> Unheld]
  /\ research = [f \in Files |-> NoOne]

At(o, pc) == jobs[o].pc = pc
OnDisk == {s \in Slugs : \E k \in 1..MaxFile : research[<<s, k>>] # NoOne}

-----------------------------------------------------------------------------
(* prunePlans *)

Pruned == [s \in Slugs |-> IF held[s] = Past THEN Unheld ELSE held[s]]

Expired(o) == At(o, "pending") /\ jobs[o].left = Past

WithoutExpired == [o \in Operations |-> IF Expired(o) THEN [New EXCEPT !.pc = "over"] ELSE jobs[o]]

-----------------------------------------------------------------------------
(* Contribute *)

\* The text is saved and gathered, plans are pruned, the model is asked and answers; a completion
\* that fails ends the operation.  Then plans are pruned again.
Complete(o, slugs) ==
  /\ o \in Plans /\ At(o, "new")
  /\ jobs' = [WithoutExpired EXCEPT ![o].pc = "listing", ![o].slugs = slugs]
  /\ held' = Pruned /\ UNCHANGED research

\* The directory is read; the answer comes later.
ReadNames(o) ==
  /\ At(o, "listing")
  /\ jobs' = [jobs EXCEPT ![o].pc = "listed", ![o].disk = OnDisk]
  /\ UNCHANGED <<held, research>>

\* Bug: only the directory is looked at.
Free_DiskOnly(o) == jobs[o].slugs \ jobs[o].disk

\* guardDuplicatePages: an expired reservation counts until the next pruning.
Free(o) == {s \in jobs[o].slugs \ jobs[o].disk : held[s] = Unheld}

\* The listing has arrived: what is left of the plan is held, and its pages are reserved.
Hold(o) ==
  /\ At(o, "listed")
  /\ jobs' = [jobs EXCEPT ![o] = [New EXCEPT !.pc = "pending", !.slugs = Free(o), !.left = Ttl]]
  /\ held' = [s \in Slugs |-> IF s \in Free(o) THEN Ttl ELSE held[s]]
  /\ UNCHANGED research

MayApply(o) == At(o, "pending") /\ jobs[o].left # Past

\* applyContributePlan: the plan is consumed and its reservations are gone before a page of the
\* selection is written; an empty selection is an error, and the plan is consumed all the same.
Apply(o, selected) ==
  /\ MayApply(o) /\ selected \subseteq jobs[o].slugs
  /\ jobs' = [WithoutExpired EXCEPT ![o] = [New EXCEPT !.pc = "apply", !.slugs = selected]]
  /\ held' = [s \in Slugs |-> IF s \in jobs[o].slugs THEN Unheld ELSE Pruned[s]]
  /\ UNCHANGED research

\* runResearch: no plan, no guard.
Research(o, slugs) ==
  /\ o \in Researches /\ At(o, "new")
  /\ jobs' = [jobs EXCEPT ![o].pc = "apply", ![o].slugs = slugs]
  /\ UNCHANGED <<held, research>>

-----------------------------------------------------------------------------
(* create_research_page *)

\* The next action of the selection; those for one slug count as one.
CreatePage(o, s) ==
  /\ At(o, "apply") /\ jobs[o].file = NoFile /\ s \in jobs[o].slugs
  /\ jobs' = [jobs EXCEPT ![o].slugs = @ \ {s}, ![o].file = <<s, 1>>]
  /\ UNCHANGED <<held, research>>

NextName(f) == <<f[1], f[2] + 1>>

\* The loop over the names: one that exists leads to the next number.
FindName(o) ==
  LET f == jobs[o].file
  IN /\ At(o, "apply") /\ f # NoFile
     /\ IF research[f] # NoOne
        THEN f[2] < MaxFile /\ jobs' = [jobs EXCEPT ![o].file = NextName(f)]
        ELSE jobs' = [jobs EXCEPT ![o].pc = "write"]
     /\ UNCHANGED <<held, research>>

WritePage(o) ==
  /\ At(o, "write")
  /\ research' = [research EXCEPT ![jobs[o].file] = o]
  /\ jobs' = [jobs EXCEPT ![o].pc = "apply", ![o].file = NoFile]
  /\ UNCHANGED held

\* Pages are renamed or deleted by others.
RemovePage(f) ==
  /\ research[f] # NoOne /\ research' = [research EXCEPT ![f] = NoOne]
  /\ UNCHANGED <<jobs, held>>

OpsTick ==
  LET less(t) == IF t < 0 THEN t ELSE t - 1
  IN /\ jobs' = [o \in Operations |-> IF At(o, "pending") THEN [jobs[o] EXCEPT !.left = less(@)] ELSE jobs[o]]
     /\ held' = [s \in Slugs |-> less(held[s])]
     /\ UNCHANGED research

OpsNext ==
  \/ OpsTick
  \/ \E o \in Operations :
       \/ ReadNames(o) \/ Hold(o) \/ FindName(o) \/ WritePage(o)
       \/ \E slugs \in SUBSET Slugs : Complete(o, slugs) \/ Apply(o, slugs) \/ Research(o, slugs)
       \/ \E s \in Slugs : CreatePage(o, s)
  \/ \E f \in Files : RemovePage(f)

-----------------------------------------------------------------------------
OpsTypeOK ==
  /\ \A o \in Operations :
       /\ jobs[o].pc \in {"new", "listing", "listed", "pending", "apply", "write", "over"}
       /\ jobs[o].slugs \subseteq Slugs /\ jobs[o].disk \subseteq Slugs /\ jobs[o].left \in Past..Ttl
       /\ jobs[o].file \in Files \cup {NoFile}
  /\ held \in [Slugs -> Unheld..Ttl]
  /\ research \in [Files -> Operations \cup {NoOne}]

Waiting == {o \in Plans : MayApply(o)}

\* A plan that can still be applied holds the reservation of every page it will create, for as
\* long as it can be applied, and no page is in two such plans ("so two concurrent contributes
\* cannot both propose the same new page"); a reservation without a plan cannot outlive its time.
PlansHoldTheirPages ==
  /\ \A o \in Waiting : \A s \in jobs[o].slugs : held[s] = jobs[o].left
  /\ \A o, q \in Waiting : o # q => jobs[o].slugs \cap jobs[q].slugs = {}
  /\ \A s \in Slugs : held[s] >= 0 => \E o \in Waiting : s \in jobs[o].slugs
=============================================================================
