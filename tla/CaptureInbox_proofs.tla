------------------------- MODULE CaptureInbox_proofs -------------------------
(***************************************************************************)
(* No capture is lost and none is ingested more often than it was asked    *)
(* for, with any number of captures, ticks, retries, deletions and         *)
(* restarts between any two file operations.                               *)
(*                                                                         *)
(* A capture's file leaves the queue only when its copy exists (Copied),   *)
(* and a file is torn only while somebody writes it (TornIsWritten).  The  *)
(* worker may ingest a capture once because its file says "queued" only    *)
(* until somebody has taken it up, and only one tick is at work; every     *)
(* other document is that of a retry request (Paid).                       *)
(***************************************************************************)
EXTENDS CaptureInbox, FiniteSetTheorems, TLAPS

Works(p, e) == procs[p].id = e

\* What the steps of processOne leave in the record r of process p.
StageOK(p, r) ==
  /\ r.id \in Ids <=> r.pc \notin {"idle", "next"}
  /\ r.goal = "none" <=> r.pc \in {"idle", "next", "look", "compile"}
  /\ r.pc = "unlink" => r.goal \in {"compiled", "failed"}
  /\ r.goal = "failed" \/ r.pc = "next" => p \in Ticks

Stages == \A p \in Procs : StageOK(p, procs[p])

\* The flag keeps the ticks apart, and a tick takes each capture of its list up once.
OneTick ==
  /\ \A t \in Ticks : ~At(t, "idle") => running
  /\ \A t, u \in Ticks : ~At(t, "idle") /\ ~At(u, "idle") => t = u
  /\ \A t \in Ticks : procs[t].id \notin pending[t] /\ (At(t, "idle") => pending[t] = {})

\* A capture whose request was not answered: its file is torn or not there, and nobody gets past
\* reading it.
NotYetAccepted ==
  /\ deleted \subseteq accepted /\ adding \cap accepted = {}
  /\ \A e \in adding : files["inbox"][e] = "torn"
  /\ \A e \in Ids \ accepted :
       /\ files["inbox"][e] \in {"none", "torn"}
       /\ files["processed"][e] = "none" /\ files["failed"][e] = "none"
       /\ tries[e] = 0 /\ ingested[e] = 0
       /\ \A p \in Procs : Works(p, e) =>
            /\ files["inbox"][e] = "torn"
            /\ procs[p].pc = "look" \/ (procs[p].pc = "read" /\ procs[p].goal = "failed")
       /\ \A t \in Ticks : e \in pending[t] => files["inbox"][e] = "torn"

Moves(p) == procs[p].pc \in {"write", "unlink"} /\ procs[p].goal \in {"compiled", "failed"}

\* A kept capture has a file; whoever is about to unlink the queue's has made its copy.
Copied ==
  \A e \in Kept :
    /\ \E d \in Dirs : files[d][e] # "none"
    /\ \A p \in Procs : Works(p, e) /\ Moves(p) => files[DirOf(procs[p].goal)][e] # "none"

\* Without a restart, a torn file has a writer.
Written(d, e) ==
  \/ d = "inbox" /\ e \in adding
  \/ \E p \in Procs : Works(p, e) /\ At(p, "write") /\ DirOf(procs[p].goal) = d

TornIsWritten == crashes = 0 => \A d \in Dirs, e \in Ids : files[d][e] = "torn" => Written(d, e)

\* Past the look and before the document is stored.
TakenUp(p) ==
  \/ procs[p].pc \in {"read", "open", "write"} /\ procs[p].goal = "processing"
  \/ procs[p].pc = "compile"

\* What a tick has listed stays in the queue or has been compiled until the tick looks at it.
ListedStays ==
  \A t \in Ticks, e \in Kept : e \in pending[t] \/ (Works(t, e) /\ At(t, "look")) =>
    files["inbox"][e] # "none" \/ files["processed"][e] # "none"

\* Whoever has marked a capture has replaced "queued".
Marked ==
  \A p \in Procs, e \in Kept :
    Works(p, e) /\ (At(p, "compile") \/ (At(p, "write") /\ procs[p].goal = "processing"))
      => files["inbox"][e] # "queued"

\* The worker's own document of a capture is still to come.
Fresh(e) ==
  \/ e \notin accepted
  \/ files["inbox"][e] = "queued"
  \/ \E t \in Ticks : Works(t, e) /\ TakenUp(t)

\* The retries whose document of a capture is still to come.
Open(e) == {c \in Retries : Works(c, e) /\ (At(c, "look") \/ TakenUp(c))}

\* Documents stored and documents to come are those of the worker and of the retries.
PaidFor(e) ==
  /\ IsFiniteSet(Open(e))
  /\ ingested[e] + Cardinality(Open(e)) + (IF Fresh(e) THEN 1 ELSE 0) <= 1 + tries[e]

Paid == \A e \in Ids \ deleted : PaidFor(e)

\* The inductive invariant.
InboxInv ==
  /\ TypeOK /\ Stages /\ OneTick /\ NotYetAccepted
  /\ Copied /\ TornIsWritten /\ ListedStays /\ Marked /\ Paid

-----------------------------------------------------------------------------
(* What the steps of processOne do, without what does not matter here *)

Rec(e, pc, goal) == [id |-> e, pc |-> pc, goal |-> goal]

\* A process that is through with its capture.
Ended(p) == IF p \in Ticks THEN Rec(NoId, "next", "none") ELSE Rec(NoId, "idle", "none")

\* A process that fails: the worker's marks the capture.
Failed(p) == IF p \in Ticks THEN Rec(procs[p].id, "read", "failed") ELSE Ended(p)

Becomes(p, r) == procs' = [procs EXCEPT ![p] = r]

Working(p) == procs[p].pc \notin {"idle", "next"}

LEMMA Recs ==
  ASSUME procs \in [Procs -> ProcRecord], NEW p \in Procs
  PROVE  /\ procs[p] = Rec(procs[p].id, procs[p].pc, procs[p].goal)
         /\ Done(p) => Becomes(p, Ended(p))
         /\ Throw(p) => Becomes(p, Failed(p))
         /\ \A pc, goal : Go(p, pc, goal) => Becomes(p, Rec(procs[p].id, pc, goal))
<1>1. procs[p] = Rec(procs[p].id, procs[p].pc, procs[p].goal)
  BY DEF ProcRecord, Rec
<1>2. ASSUME NEW pc, NEW goal, Go(p, pc, goal) PROVE Becomes(p, Rec(procs[p].id, pc, goal))
  BY <1>2 DEF Go, Rec, Becomes
<1>3. Done(p) => Becomes(p, Ended(p))
  BY DEF Done, Ended, Becomes, Rec, Idle
<1>4. Throw(p) => Becomes(p, Failed(p))
  BY <1>2, <1>3 DEF Throw, Failed
<1> QED BY <1>1, <1>2, <1>3, <1>4

\* Only what an upload, a deletion, a tick's list and a restart change.
Bystanders == <<pending, running, adding, deleting, accepted, deleted, tries, crashes>>

LEMMA LookDoes ==
  ASSUME procs \in [Procs -> ProcRecord], NEW p \in Procs, Look(p)
  PROVE  /\ At(p, "look") /\ UNCHANGED <<files, ingested, Bystanders>>
         /\ \/ Becomes(p, Rec(procs[p].id, "read", "processing")) /\ Visible(procs[p].id) \in {"queued", "failed"}
            \/ Becomes(p, Failed(p)) /\ Visible(procs[p].id) = "torn"
            \/ Becomes(p, Ended(p))
<1> DEFINE s == Visible(procs[p].id)
<1>1. CASE s = "torn"
  BY <1>1, Recs DEF Look, Bystanders, history, MayProcess
<1>2. CASE s \in {"queued", "failed"}
  BY <1>2, Recs DEF Look, Bystanders, history, MayProcess
<1>3. CASE s \notin {"torn", "queued", "failed"}
  BY <1>3, Recs DEF Look, Bystanders, history, MayProcess
<1> QED BY <1>1, <1>2, <1>3

LEMMA MarkReadDoes ==
  ASSUME procs \in [Procs -> ProcRecord], NEW p \in Procs, MarkRead(p)
  PROVE  /\ At(p, "read") /\ UNCHANGED <<files, ingested, Bystanders>>
         /\ \/ Becomes(p, Ended(p))
            \/ Becomes(p, Failed(p)) /\ Visible(procs[p].id) = "torn" /\ procs[p].goal # "failed"
            \/ /\ Becomes(p, Rec(procs[p].id, "compile", "none"))
               /\ Visible(procs[p].id) = "none" /\ procs[p].goal = "processing"
            \/ Becomes(p, Rec(procs[p].id, "open", procs[p].goal)) /\ Visible(procs[p].id) \notin {"none", "torn"}
<1> DEFINE s == Visible(procs[p].id)
<1>1. CASE s = "torn"
  BY <1>1, Recs DEF MarkRead, Bystanders, history
<1>2. CASE s = "none"
  BY <1>2, Recs DEF MarkRead, Bystanders, history
<1>3. CASE s \notin {"torn", "none"}
  BY <1>3, Recs DEF MarkRead, Bystanders, history
<1> QED BY <1>1, <1>2, <1>3

LEMMA MarkOpenDoes ==
  ASSUME procs \in [Procs -> ProcRecord], NEW p \in Procs, MarkOpen(p)
  PROVE  /\ At(p, "open") /\ UNCHANGED <<ingested, Bystanders>>
         /\ files' = [files EXCEPT ![DirOf(procs[p].goal)][procs[p].id] = "torn"]
         /\ Becomes(p, Rec(procs[p].id, "write", procs[p].goal))
BY Recs DEF MarkOpen, Bystanders, history

LEMMA MarkWriteDoes ==
  ASSUME procs \in [Procs -> ProcRecord], NEW p \in Procs, MarkWrite(p)
  PROVE  /\ At(p, "write") /\ UNCHANGED <<ingested, Bystanders>>
         /\ files' = [files EXCEPT ![DirOf(procs[p].goal)][procs[p].id] = IF @ = "none" THEN @ ELSE procs[p].goal]
         /\ \/ Becomes(p, Rec(procs[p].id, "compile", "none")) /\ procs[p].goal = "processing"
            \/ Becomes(p, Rec(procs[p].id, "unlink", procs[p].goal)) /\ procs[p].goal # "processing"
<1>1. CASE procs[p].goal = "processing"
  BY <1>1, Recs DEF MarkWrite, Bystanders, history
<1>2. CASE procs[p].goal # "processing"
  BY <1>2, Recs DEF MarkWrite, Bystanders, history
<1> QED BY <1>1, <1>2

LEMMA MarkUnlinkDoes ==
  ASSUME procs \in [Procs -> ProcRecord], NEW p \in Procs, MarkUnlink(p)
  PROVE  /\ At(p, "unlink") /\ UNCHANGED <<ingested, Bystanders>>
         /\ files' = [files EXCEPT !["inbox"][procs[p].id] = "none"]
         /\ Becomes(p, Ended(p))
BY Recs DEF MarkUnlink, Bystanders, history

LEMMA CompileDoes ==
  ASSUME procs \in [Procs -> ProcRecord], NEW p \in Procs, Compile(p)
  PROVE  /\ At(p, "compile") /\ UNCHANGED <<files, Bystanders>>
         /\ ingested' = ingested \/ ingested' = [ingested EXCEPT ![procs[p].id] = @ + 1]
         /\ Becomes(p, Failed(p)) \/ Becomes(p, Rec(procs[p].id, "read", "compiled"))
BY Recs DEF Compile, Bystanders

\* All of them together.
LEMMA StepDoes ==
  ASSUME TypeOK, Stages, NEW p \in Procs, ProcessStep(p)
  PROVE  /\ Working(p) /\ UNCHANGED Bystanders
         /\ \E r \in ProcRecord :
              /\ Becomes(p, r) /\ StageOK(p, r)
              /\ r.id = procs[p].id \/ r = Ended(p)
              /\ p \in Ticks => r.pc # "idle"
<1>1. procs \in [Procs -> ProcRecord] /\ procs[p] \in ProcRecord /\ StageOK(p, procs[p])
  BY DEF TypeOK, Stages
<1>2. Ended(p) \in ProcRecord /\ StageOK(p, Ended(p)) /\ (p \in Ticks => Ended(p).pc # "idle")
  BY InboxAssumption DEF Ended, Rec, ProcRecord, StageOK
<1>3. ASSUME Working(p)
      PROVE  Failed(p) \in ProcRecord /\ StageOK(p, Failed(p)) /\ (p \in Ticks => Failed(p).pc # "idle")
             /\ (Failed(p).id = procs[p].id \/ Failed(p) = Ended(p))
  BY <1>1, <1>2, <1>3 DEF Failed, Rec, ProcRecord, StageOK, Working
<1> DEFINE e == procs[p].id
           goal == procs[p].goal
<1>4. CASE Look(p)
  <2>1. At(p, "look") /\ UNCHANGED Bystanders
        /\ (Becomes(p, Rec(e, "read", "processing")) \/ Becomes(p, Failed(p)) \/ Becomes(p, Ended(p)))
    BY <1>1, <1>4, LookDoes DEF Bystanders
  <2> QED BY <1>1, <1>2, <1>3, <2>1 DEF At, Working, Rec, ProcRecord, StageOK
<1>5. CASE MarkRead(p)
  <2>1. At(p, "read") /\ UNCHANGED Bystanders
        /\ (\/ Becomes(p, Ended(p)) \/ Becomes(p, Failed(p))
            \/ Becomes(p, Rec(e, "compile", "none")) \/ Becomes(p, Rec(e, "open", goal)))
    BY <1>1, <1>5, MarkReadDoes DEF Bystanders
  <2> QED BY <1>1, <1>2, <1>3, <2>1 DEF At, Working, Rec, ProcRecord, StageOK
<1>6. CASE MarkOpen(p)
  <2>1. At(p, "open") /\ UNCHANGED Bystanders /\ Becomes(p, Rec(e, "write", goal))
    BY <1>1, <1>6, MarkOpenDoes DEF Bystanders
  <2> QED BY <1>1, <2>1 DEF At, Working, Rec, ProcRecord, StageOK
<1>7. CASE MarkWrite(p)
  <2>1. At(p, "write") /\ UNCHANGED Bystanders
        /\ (\/ Becomes(p, Rec(e, "compile", "none"))
            \/ Becomes(p, Rec(e, "unlink", goal)) /\ goal # "processing")
    BY <1>1, <1>7, MarkWriteDoes DEF Bystanders
  <2> QED BY <1>1, <2>1 DEF At, Working, Rec, ProcRecord, StageOK
<1>8. CASE MarkUnlink(p)
  <2>1. At(p, "unlink") /\ UNCHANGED Bystanders /\ Becomes(p, Ended(p))
    BY <1>1, <1>8, MarkUnlinkDoes DEF Bystanders
  <2> QED BY <1>1, <1>2, <2>1 DEF At, Working
<1>9. CASE Compile(p)
  <2>1. At(p, "compile") /\ UNCHANGED Bystanders
        /\ (Becomes(p, Failed(p)) \/ Becomes(p, Rec(e, "read", "compiled")))
    BY <1>1, <1>9, CompileDoes DEF Bystanders
  <2> QED BY <1>1, <1>3, <2>1 DEF At, Working, Rec, ProcRecord, StageOK
<1> QED BY <1>4, <1>5, <1>6, <1>7, <1>8, <1>9 DEF ProcessStep

-----------------------------------------------------------------------------
(* The steps of Next, each with what it keeps *)

LEMMA ProcessTypes ==
  ASSUME TypeOK, Stages, NEW p \in Procs, ProcessStep(p)
  PROVE  TypeOK'
<1>1. /\ pending' = pending /\ running' = running /\ adding' = adding /\ deleting' = deleting
      /\ accepted' = accepted /\ deleted' = deleted /\ tries' = tries /\ crashes' = crashes
  BY StepDoes DEF Bystanders
<1>2. procs' \in [Procs -> ProcRecord]
  BY StepDoes DEF Becomes, TypeOK
<1>3. procs \in [Procs -> ProcRecord] /\ procs[p] \in ProcRecord /\ StageOK(p, procs[p])
  BY DEF TypeOK, Stages
<1> DEFINE All == UNION {Contents[d] : d \in Dirs}
<1>4. files' \in [Dirs -> [Ids -> All]] /\ (\A d \in Dirs, e \in Ids : files'[d][e] \in Contents[d])
  <2>1. ASSUME NEW d \in Dirs, NEW e \in Ids, NEW c \in Contents[d], files' = [files EXCEPT ![d][e] = c]
        PROVE  files' \in [Dirs -> [Ids -> All]] /\ (\A dd \in Dirs, ee \in Ids : files'[dd][ee] \in Contents[dd])
    <3>1. c \in All
      OBVIOUS
    <3> HIDE DEF All
    <3> QED BY <2>1, <3>1 DEF TypeOK, All
  <2>2. CASE files' = files
    BY <2>2 DEF TypeOK
  <2>3. CASE MarkOpen(p) \/ MarkWrite(p)
    <3>1. procs[p].id \in Ids /\ procs[p].goal \in {"processing", "compiled", "failed"}
      BY <1>3, <2>3, MarkOpenDoes, MarkWriteDoes DEF StageOK, At, ProcRecord
    <3>2. DirOf(procs[p].goal) \in Dirs /\ {"none", "torn", procs[p].goal} \subseteq Contents[DirOf(procs[p].goal)]
      BY <3>1 DEF DirOf, Dirs, Contents
    <3> QED BY <1>3, <2>1, <2>3, <3>1, <3>2, MarkOpenDoes, MarkWriteDoes
  <2>4. CASE MarkUnlink(p)
    <3>1. procs[p].id \in Ids /\ "inbox" \in Dirs /\ "none" \in Contents["inbox"]
      BY <1>3, <2>4, MarkUnlinkDoes DEF StageOK, At, Dirs, Contents
    <3> QED BY <1>3, <2>1, <2>4, <3>1, MarkUnlinkDoes
  <2> QED BY <1>3, <2>2, <2>3, <2>4, LookDoes, MarkReadDoes, CompileDoes DEF ProcessStep
<1>5. ingested' \in [Ids -> Nat]
  <2>1. CASE Compile(p)
    BY <1>3, <2>1, CompileDoes DEF TypeOK
  <2> QED BY <1>3, <2>1, LookDoes, MarkReadDoes, MarkOpenDoes, MarkWriteDoes, MarkUnlinkDoes DEF ProcessStep, TypeOK
<1> QED BY <1>1, <1>2, <1>4, <1>5 DEF TypeOK

LEMMA TypesKept == TypeOK /\ Stages /\ [Next]_vars => TypeOK'
<1> SUFFICES ASSUME TypeOK, Stages, [Next]_vars PROVE TypeOK'
  OBVIOUS
<1> USE DEF TypeOK, history
<1>1. ASSUME NEW e \in Ids, AddOpen(e) PROVE TypeOK'
  BY <1>1 DEF AddOpen, Contents, Dirs
<1>2. ASSUME NEW e \in Ids, AddWrite(e) PROVE TypeOK'
  BY <1>2 DEF AddWrite, Contents, Dirs
<1>3. ASSUME NEW e \in Ids, Delete(e) PROVE TypeOK'
  BY <1>3 DEF Delete, Contents, Dirs
<1>4. ASSUME NEW c \in Retries, NEW e \in Ids, Retry(c, e) PROVE TypeOK'
  BY <1>4 DEF Retry, Looking, ProcRecord, Procs
<1>5. ASSUME NEW t \in Ticks, Tick(t) PROVE TypeOK'
  <2>1. procs' \in [Procs -> ProcRecord]
    BY <1>5 DEF Tick, Go, ProcRecord, Procs
  <2>2. pending' \in [Ticks -> SUBSET Ids]
    BY <1>5 DEF Tick
  <2> QED BY <1>5, <2>1, <2>2 DEF Tick
<1>6. ASSUME NEW t \in Ticks, TickNext(t) PROVE TypeOK'
  <2>1. procs' \in [Procs -> ProcRecord]
    <3>1. \A e \in pending[t] : Looking(e) \in ProcRecord
      BY DEF Looking, ProcRecord
    <3>2. Idle \in ProcRecord
      BY DEF Idle, ProcRecord
    <3> QED BY <1>6, <3>1, <3>2 DEF TickNext
  <2>2. pending' \in [Ticks -> SUBSET Ids] /\ running' \in BOOLEAN
    BY <1>6 DEF TickNext
  <2> QED BY <1>6, <2>1, <2>2 DEF TickNext
<1>7. ASSUME NEW p \in Procs, ProcessStep(p) PROVE TypeOK'
  BY <1>7, ProcessTypes
<1>8. CASE Crash
  <2>1. procs' \in [Procs -> ProcRecord]
    BY <1>8 DEF Crash, Idle, ProcRecord
  <2>2. crashes' \in 0..MaxCrashes
    BY <1>8, InboxAssumption DEF Crash
  <2>3. deleting' \in [Ids -> 0..3] /\ pending' \in [Ticks -> SUBSET Ids]
    BY <1>8 DEF Crash
  <2> QED BY <1>8, <2>1, <2>2, <2>3 DEF Crash
<1>9. CASE UNCHANGED vars
  BY <1>9 DEF vars
<1> QED BY <1>1, <1>2, <1>3, <1>4, <1>5, <1>6, <1>7, <1>8, <1>9 DEF Next

LEMMA StagesKept == TypeOK /\ Stages /\ [Next]_vars => Stages'
<1> SUFFICES ASSUME TypeOK, Stages, [Next]_vars PROVE Stages'
  OBVIOUS
<1>1. ASSUME procs' = procs PROVE Stages'
  BY <1>1 DEF Stages, StageOK
<1>2. ASSUME NEW p \in Procs, NEW r, Becomes(p, r), StageOK(p, r) PROVE Stages'
  BY <1>2 DEF Stages, TypeOK, Becomes
<1>3. ASSUME NEW c \in Retries, NEW e \in Ids, Retry(c, e) PROVE Stages'
  <2>1. Becomes(c, Rec(e, "look", "none"))
    BY <1>3 DEF Retry, Becomes, Rec, Looking
  <2>2. StageOK(c, Rec(e, "look", "none"))
    BY DEF StageOK, Rec
  <2> QED BY <1>2, <2>1, <2>2 DEF Procs
<1>4. ASSUME NEW t \in Ticks, Tick(t) PROVE Stages'
  <2>1. procs[t].id = NoId \/ procs[t].id \notin Ids
    BY <1>4 DEF Tick, At, Stages, StageOK, Procs
  <2>2. Becomes(t, Rec(procs[t].id, "next", "none"))
    BY <1>4 DEF Tick, Go, Becomes, Rec
  <2>3. StageOK(t, Rec(procs[t].id, "next", "none"))
    BY <2>1, InboxAssumption DEF StageOK, Rec
  <2> QED BY <1>2, <2>2, <2>3 DEF Procs
<1>5. ASSUME NEW t \in Ticks, TickNext(t) PROVE Stages'
  <2>1. CASE \E e \in pending[t] : procs' = [procs EXCEPT ![t] = Looking(e)]
    <3>1. PICK e \in pending[t] : Becomes(t, Rec(e, "look", "none"))
      BY <2>1 DEF Becomes, Rec, Looking
    <3>2. e \in Ids
      BY DEF TypeOK
    <3>3. StageOK(t, Rec(e, "look", "none"))
      BY <3>2 DEF StageOK, Rec
    <3> QED BY <1>2, <3>1, <3>3 DEF Procs
  <2>2. CASE procs' = [procs EXCEPT ![t] = Idle]
    <3>1. StageOK(t, Idle)
      BY InboxAssumption DEF StageOK, Idle
    <3> QED BY <1>2, <2>2, <3>1 DEF Procs, Becomes
  <2> QED BY <1>5, <2>1, <2>2 DEF TickNext
<1>6. ASSUME NEW p \in Procs, ProcessStep(p) PROVE Stages'
  BY <1>2, <1>6, StepDoes
<1>7. CASE Crash
  BY <1>7, InboxAssumption DEF Crash, Stages, StageOK, Idle
<1> QED BY <1>1, <1>3, <1>4, <1>5, <1>6, <1>7 DEF Next, AddOpen, AddWrite, Delete, vars

LEMMA OneTickKept == TypeOK /\ Stages /\ OneTick /\ [Next]_vars => OneTick'
<1> SUFFICES ASSUME TypeOK, Stages, OneTick, [Next]_vars PROVE OneTick'
  OBVIOUS
<1> USE DEF OneTick, At
<1>1. ASSUME procs' = procs, pending' = pending, running' = running PROVE OneTick'
  BY <1>1
<1>2. ASSUME NEW c \in Retries, NEW e \in Ids, Retry(c, e) PROVE OneTick'
  <2>1. \A t \in Ticks : procs'[t] = procs[t]
    BY <1>2, InboxAssumption DEF Retry, TypeOK, Procs
  <2> QED BY <1>2, <2>1 DEF Retry
<1>3. ASSUME NEW t \in Ticks, Tick(t) PROVE OneTick'
  <2>1. \A u \in Ticks : At(u, "idle") /\ procs[u].id \notin Ids
    BY <1>3 DEF Tick, MayTick, Stages, StageOK, Procs
  <2>2. \A u \in Ticks : procs'[u].pc = (IF u = t THEN "next" ELSE "idle") /\ procs'[u].id \notin Ids
    BY <1>3, <2>1 DEF Tick, Go, TypeOK, Procs
  <2>3. \A u \in Ticks : pending'[u] \subseteq Ids /\ (u # t => pending'[u] = pending[u])
    BY <1>3 DEF Tick, TypeOK
  <2> QED BY <1>3, <2>1, <2>2, <2>3 DEF Tick
<1>4. ASSUME NEW t \in Ticks, TickNext(t) PROVE OneTick'
  <2>1. \A u \in Ticks : u # t => At(u, "idle")
    BY <1>4 DEF TickNext
  <2>2. \A u \in Ticks : u # t => procs'[u] = procs[u] /\ pending'[u] = pending[u]
    BY <1>4 DEF TickNext, TypeOK, Procs
  <2>3. CASE pending[t] = {} /\ procs' = [procs EXCEPT ![t] = Idle] /\ running' = FALSE /\ UNCHANGED pending
    <3>1. procs'[t] = Idle /\ pending'[t] = {}
      BY <2>3 DEF TypeOK, Procs
    <3>2. procs'[t].pc = "idle" /\ procs'[t].id \notin pending'[t] /\ pending'[t] = {}
      BY <3>1, InboxAssumption DEF Idle
    <3> QED BY <2>1, <2>2, <3>2
  <2>4. CASE \E e \in pending[t] : /\ pending' = [pending EXCEPT ![t] = @ \ {e}]
                                  /\ procs' = [procs EXCEPT ![t] = Looking(e)]
                                  /\ UNCHANGED running
    <3>1. PICK e \in pending[t] : pending'[t] = pending[t] \ {e} /\ procs'[t].id = e /\ procs'[t].pc = "look"
      BY <2>4 DEF TypeOK, Procs, Looking
    <3>2. running' = running /\ running
      BY <1>4, <2>4 DEF TickNext
    <3> QED BY <2>1, <2>2, <3>1, <3>2
  <2> QED BY <1>4, <2>3, <2>4 DEF TickNext
<1>5. ASSUME NEW p \in Procs, ProcessStep(p) PROVE OneTick'
  <2>1. pending' = pending /\ running' = running /\ Working(p)
    BY <1>5, StepDoes DEF Bystanders
  <2>2. PICK r : Becomes(p, r) /\ (r.id = procs[p].id \/ r = Ended(p)) /\ (p \in Ticks => r.pc # "idle")
    BY <1>5, StepDoes
  <2>3. \A q \in Procs : procs'[q] = IF q = p THEN r ELSE procs[q]
    BY <2>2 DEF Becomes, TypeOK
  <2>4. p \in Ticks => r.id \notin pending[p]
    <3>1. Ended(p).id = NoId
      BY DEF Ended, Rec
    <3>2. p \in Ticks => NoId \notin pending[p]
      BY InboxAssumption DEF TypeOK
    <3> QED BY <2>2, <3>1, <3>2
  <2> QED BY <2>1, <2>2, <2>3, <2>4 DEF Working, Procs
<1>6. CASE Crash
  BY <1>6, InboxAssumption DEF Crash, Idle, Procs
<1> QED BY <1>1, <1>2, <1>3, <1>4, <1>5, <1>6 DEF Next, AddOpen, AddWrite, Delete, vars

\* One file changes.
OneFile(d, e, c) ==
  \A dd \in Dirs, ee \in Ids : files'[dd][ee] = IF dd = d /\ ee = e THEN c ELSE files[dd][ee]

\* What a process step does to the files, as functions of capture and directory.
LEMMA FilesAfter ==
  ASSUME TypeOK, Stages, NEW p \in Procs, ProcessStep(p)
  PROVE  LET e == procs[p].id
             d == DirOf(procs[p].goal)
         IN /\ e \in Ids
            /\ \/ files' = files /\ ~At(p, "open") /\ ~At(p, "write") /\ ~At(p, "unlink")
               \/ MarkOpen(p) /\ At(p, "open") /\ d \in Dirs /\ OneFile(d, e, "torn")
               \/ /\ MarkWrite(p) /\ At(p, "write") /\ d \in Dirs
                  /\ procs[p].goal \in {"processing", "compiled", "failed"}
                  /\ OneFile(d, e, IF files[d][e] = "none" THEN "none" ELSE procs[p].goal)
               \/ MarkUnlink(p) /\ At(p, "unlink") /\ OneFile("inbox", e, "none")
<1> DEFINE e == procs[p].id
           d == DirOf(procs[p].goal)
<1>1. procs \in [Procs -> ProcRecord] /\ procs[p] \in ProcRecord /\ StageOK(p, procs[p])
  BY DEF TypeOK, Stages
<1>2. e \in Ids
  BY <1>1, StepDoes DEF Working, StageOK
<1>3. files \in [Dirs -> [Ids -> UNION {Contents[x] : x \in Dirs}]]
  BY DEF TypeOK
<1>4. ASSUME NEW x \in Dirs, NEW c, files' = [files EXCEPT ![x][e] = c] PROVE OneFile(x, e, c)
  BY <1>2, <1>3, <1>4 DEF OneFile
<1>5. At(p, "open") \/ At(p, "write") => d \in Dirs /\ procs[p].goal \in {"processing", "compiled", "failed"}
  BY <1>1 DEF At, StageOK, ProcRecord, DirOf, Dirs
<1>6. CASE Look(p) \/ MarkRead(p) \/ Compile(p)
  BY <1>1, <1>2, <1>6, LookDoes, MarkReadDoes, CompileDoes DEF At
<1>7. CASE MarkOpen(p)
  BY <1>1, <1>2, <1>4, <1>5, <1>7, MarkOpenDoes
<1>8. CASE MarkWrite(p)
  BY <1>1, <1>2, <1>4, <1>5, <1>8, MarkWriteDoes
<1>9. CASE MarkUnlink(p)
  BY <1>1, <1>2, <1>4, <1>9, MarkUnlinkDoes DEF Dirs
<1> QED BY <1>6, <1>7, <1>8, <1>9 DEF ProcessStep

LEMMA NotYetAcceptedKept ==
  TypeOK /\ Stages /\ NotYetAccepted /\ [Next]_vars => NotYetAccepted'
<1> SUFFICES ASSUME TypeOK, Stages, NotYetAccepted, [Next]_vars PROVE NotYetAccepted'
  OBVIOUS
<1>1. ASSUME NEW e \in Ids, AddOpen(e) PROVE NotYetAccepted'
  BY <1>1 DEF AddOpen, NotYetAccepted, TypeOK, Dirs, Works, history
<1>2. ASSUME NEW e \in Ids, AddWrite(e) PROVE NotYetAccepted'
  BY <1>2 DEF AddWrite, NotYetAccepted, TypeOK, Dirs, Works
<1>3. ASSUME NEW e \in Ids, Delete(e) PROVE NotYetAccepted'
  BY <1>3 DEF Delete, NotYetAccepted, TypeOK, Dirs, Works
<1>4. ASSUME NEW c \in Retries, NEW e \in Ids, Retry(c, e) PROVE NotYetAccepted'
  <2>1. \A p \in Procs : procs'[p] = IF p = c THEN Looking(e) ELSE procs[p]
    BY <1>4 DEF Retry, TypeOK
  <2>2. \A f \in Ids \ accepted : tries'[f] = tries[f]
    BY <1>4 DEF Retry, TypeOK
  <2> QED BY <1>4, <2>1, <2>2 DEF Retry, NotYetAccepted, Works, Looking
<1>5. ASSUME NEW t \in Ticks, Tick(t) PROVE NotYetAccepted'
  <2>1. \A p \in Procs : procs'[p] = procs[p] \/ procs'[p].id \notin Ids
    BY <1>5 DEF Tick, At, Go, TypeOK, Stages, StageOK, Procs
  <2>2. \A u \in Ticks : pending'[u] = IF u = t THEN {e \in Ids : files["inbox"][e] # "none"} ELSE pending[u]
    BY <1>5 DEF Tick, TypeOK
  <2> QED BY <1>5, <2>1, <2>2 DEF Tick, NotYetAccepted, Works, history
<1>6. ASSUME NEW t \in Ticks, TickNext(t) PROVE NotYetAccepted'
  <2>1. \A u \in Ticks : pending'[u] \subseteq pending[u]
    BY <1>6 DEF TickNext, TypeOK
  <2>2. \A p \in Procs :
          \/ procs'[p] = procs[p]
          \/ procs'[p].id \notin Ids
          \/ p = t /\ procs'[p].pc = "look" /\ procs'[p].id \in pending[t]
    <3>1. CASE procs' = [procs EXCEPT ![t] = Idle]
      <4>1. procs'[t].id \notin Ids /\ \A p \in Procs : p # t => procs'[p] = procs[p]
        BY <3>1, InboxAssumption DEF TypeOK, Procs, Idle
      <4> QED BY <4>1
    <3>2. CASE \E e \in pending[t] : procs' = [procs EXCEPT ![t] = Looking(e)]
      <4>1. PICK e \in pending[t] : procs' = [procs EXCEPT ![t] = Looking(e)]
        BY <3>2
      <4>2. /\ procs'[t].pc = "look" /\ procs'[t].id \in pending[t]
            /\ \A p \in Procs : p # t => procs'[p] = procs[p]
        BY <4>1 DEF TypeOK, Procs, Looking
      <4> QED BY <4>2
    <3> QED BY <1>6, <3>1, <3>2 DEF TickNext
  <2> QED BY <1>6, <2>1, <2>2 DEF TickNext, NotYetAccepted, Works, history
<1>7. ASSUME NEW p \in Procs, ProcessStep(p) PROVE NotYetAccepted'
  <2> DEFINE e == procs[p].id
  <2>1. UNCHANGED <<pending, adding, accepted, deleted, tries>> /\ procs[p] \in ProcRecord /\ StageOK(p, procs[p])
    BY <1>7, StepDoes DEF Bystanders, TypeOK, Stages
  <2>2. PICK r : Becomes(p, r) /\ (r.id = e \/ r = Ended(p))
    BY <1>7, StepDoes
  <2>3. \A q \in Procs : procs'[q] = IF q = p THEN r ELSE procs[q]
    BY <2>2 DEF Becomes, TypeOK
  <2>4. Ended(p).id \notin Ids
    BY InboxAssumption DEF Ended, Rec
  <2>5. CASE e \in accepted
    <3>1. \A f \in Ids \ accepted, d \in Dirs : files'[d][f] = files[d][f]
      BY <1>7, <2>5, FilesAfter DEF OneFile
    <3>2. \A f \in Ids \ accepted : ingested'[f] = ingested[f]
      BY <1>7, <2>5, LookDoes, MarkReadDoes, MarkOpenDoes, MarkWriteDoes, MarkUnlinkDoes, CompileDoes
         DEF ProcessStep, TypeOK
    <3> QED BY <2>1, <2>2, <2>3, <2>4, <2>5, <3>1, <3>2 DEF NotYetAccepted, Works, Dirs, TypeOK
  <2>6. CASE e \notin accepted
    <3>1. e \in Ids /\ Visible(e) = "torn"
      BY <1>7, <2>6, FilesAfter DEF NotYetAccepted, Works, Visible
    <3>2. procs[p].pc = "look" \/ (procs[p].pc = "read" /\ procs[p].goal = "failed")
      BY <2>6, <3>1 DEF NotYetAccepted, Works
    <3>3. UNCHANGED <<files, ingested>> /\ (Becomes(p, Failed(p)) \/ Becomes(p, Ended(p)))
      BY <1>7, <3>1, <3>2, LookDoes, MarkReadDoes, MarkOpenDoes, MarkWriteDoes, MarkUnlinkDoes, CompileDoes
         DEF ProcessStep, TypeOK, At
    <3>4. r \in {Failed(p), Ended(p)}
      BY <2>2, <3>3 DEF Becomes, TypeOK
    <3>5. r.id \notin Ids \/ (r.pc = "read" /\ r.goal = "failed")
      BY <2>4, <3>4 DEF Failed, Rec
    <3> QED BY <2>1, <2>3, <2>6, <3>1, <3>3, <3>5, <2>2, <2>4 DEF NotYetAccepted, Works
  <2> QED BY <2>5, <2>6
<1>8. CASE Crash
  BY <1>8, InboxAssumption DEF Crash, NotYetAccepted, Works, Idle
<1>9. CASE UNCHANGED vars
  BY <1>9 DEF vars, NotYetAccepted, Works
<1> QED BY <1>1, <1>2, <1>3, <1>4, <1>5, <1>6, <1>7, <1>8, <1>9 DEF Next

LEMMA CopiedKept ==
  TypeOK /\ Stages /\ NotYetAccepted /\ Copied /\ [Next]_vars => Copied'
<1> SUFFICES ASSUME TypeOK, Stages, NotYetAccepted, Copied, [Next]_vars PROVE Copied'
  OBVIOUS
<1> USE DEF Kept, Works
<1>1. ASSUME NEW e \in Ids, AddOpen(e) PROVE Copied'
  <2>1. \A f \in Kept, d \in Dirs : files'[d][f] = files[d][f]
    BY <1>1 DEF AddOpen, TypeOK
  <2>2. \A p \in Procs : Moves(p) => DirOf(procs[p].goal) \in Dirs
    BY DEF Moves, DirOf, Dirs
  <2> QED BY <1>1, <2>1, <2>2 DEF AddOpen, Copied, Moves, history, TypeOK
<1>2. ASSUME NEW e \in Ids, AddWrite(e) PROVE Copied'
  <2>1. \A f \in Ids, d \in Dirs : files'[d][f] = "none" <=> files[d][f] = "none"
    BY <1>2 DEF AddWrite, TypeOK, Dirs
  <2>2. \A p \in Procs : Moves(p) => DirOf(procs[p].goal) \in Dirs
    BY DEF Moves, DirOf, Dirs
  <2>3. e \notin accepted /\ files["inbox"][e] # "none" /\ "inbox" \in Dirs
    BY <1>2 DEF AddWrite, NotYetAccepted, Dirs
  <2>4. \A p \in Procs : procs[p].id = e => ~Moves(p)
    BY <2>3 DEF NotYetAccepted, Moves
  <2> QED BY <1>2, <2>1, <2>2, <2>3, <2>4 DEF AddWrite, Copied, Moves, TypeOK
<1>3. ASSUME NEW e \in Ids, Delete(e) PROVE Copied'
  <2>1. \A f \in Ids \ {e}, d \in Dirs : files'[d][f] = files[d][f]
    BY <1>3 DEF Delete, TypeOK
  <2>2. \A p \in Procs : Moves(p) => DirOf(procs[p].goal) \in Dirs
    BY DEF Moves, DirOf, Dirs
  <2> QED BY <1>3, <2>1, <2>2 DEF Delete, Copied, Moves, TypeOK
<1>4. ASSUME UNCHANGED <<files, accepted, deleted>>,
             \A p \in Procs : procs'[p] = procs[p] \/ procs'[p].pc \notin {"write", "unlink"}
      PROVE  Copied'
  BY <1>4 DEF Copied, Moves
<1>5. ASSUME NEW c \in Retries, NEW e \in Ids, Retry(c, e) PROVE Copied'
  <2>1. \A p \in Procs : procs'[p] = IF p = c THEN Looking(e) ELSE procs[p]
    BY <1>5 DEF Retry, TypeOK
  <2> QED BY <1>4, <1>5, <2>1 DEF Retry, Looking
<1>6. ASSUME NEW t \in Ticks, Tick(t) PROVE Copied'
  <2>1. \A p \in Procs : procs'[p] = procs[p] \/ procs'[p].pc = "next"
    BY <1>6 DEF Tick, Go, TypeOK
  <2> QED BY <1>4, <1>6, <2>1 DEF Tick, history
<1>7. ASSUME NEW t \in Ticks, TickNext(t) PROVE Copied'
  <2>1. Idle.pc = "idle" /\ \A e : Looking(e).pc = "look"
    BY DEF Idle, Looking
  <2>2. \/ \E e \in pending[t] : procs' = [procs EXCEPT ![t] = Looking(e)]
        \/ procs' = [procs EXCEPT ![t] = Idle]
    BY <1>7 DEF TickNext
  <2>3. \A p \in Procs : procs'[p] = procs[p] \/ procs'[p].pc \in {"idle", "look"}
    BY <2>1, <2>2 DEF TypeOK
  <2> QED BY <1>4, <1>7, <2>3 DEF TickNext, history
<1>8. ASSUME NEW p \in Procs, ProcessStep(p) PROVE Copied'
  <2> DEFINE e == procs[p].id
             goal == procs[p].goal
  <2>1. /\ UNCHANGED <<accepted, deleted>> /\ procs \in [Procs -> ProcRecord]
        /\ procs[p] \in ProcRecord /\ StageOK(p, procs[p])
    BY <1>8, StepDoes DEF Bystanders, TypeOK, Stages
  <2>2. PICK r : Becomes(p, r)
    BY <1>8, StepDoes
  <2>3. \A q \in Procs : procs'[q] = IF q = p THEN r ELSE procs[q]
    BY <2>2 DEF Becomes, TypeOK
  <2>4. CASE Look(p) \/ MarkRead(p) \/ Compile(p)
    <3>1. UNCHANGED files /\ procs'[p].pc \notin {"write", "unlink"}
      BY <2>1, <2>4, LookDoes, MarkReadDoes, CompileDoes DEF Becomes, Failed, Ended, Rec
    <3> QED BY <1>4, <2>1, <2>3, <3>1
  <2>5. CASE MarkOpen(p)
    <3>1. e \in Ids /\ DirOf(goal) \in Dirs /\ OneFile(DirOf(goal), e, "torn")
      BY <1>8, <2>1, <2>5, FilesAfter, MarkOpenDoes, MarkWriteDoes, MarkUnlinkDoes DEF At
    <3>2. procs'[p] = Rec(e, "write", goal)
      BY <2>1, <2>5, MarkOpenDoes DEF Becomes
    <3>3. \A q \in Procs : procs'[q].id = procs[q].id /\ procs'[q].goal = procs[q].goal
                          /\ (q # p => procs'[q] = procs[q])
      BY <2>3, <3>2 DEF Rec
    <3>4. \A d \in Dirs, f \in Ids : files'[d][f] = files[d][f] \/ files'[d][f] = "torn"
      BY <3>1 DEF OneFile
    <3>5. \A q \in Procs : procs[q].pc \in {"write", "unlink"} => DirOf(procs[q].goal) \in Dirs
      BY DEF Stages, StageOK, TypeOK, ProcRecord, DirOf, Dirs
    <3>6. ASSUME NEW f \in Kept' PROVE \E d \in Dirs : files'[d][f] # "none"
      BY <2>1, <3>4 DEF Copied, TypeOK
    <3>7. ASSUME NEW f \in Kept', NEW q \in Procs, Works(q, f)', Moves(q)'
          PROVE  files'[DirOf(procs'[q].goal)][f] # "none"
      <4>1. f \in Ids
        BY <2>1 DEF TypeOK
      <4>2. CASE q = p
        <5>1. files'[DirOf(goal)][e] = "torn"
          BY <3>1 DEF OneFile
        <5> QED BY <3>2, <3>7, <4>2, <5>1 DEF Rec
      <4>3. CASE q # p
        BY <2>1, <3>3, <3>4, <3>5, <3>7, <4>1, <4>3 DEF Copied, Moves
      <4> QED BY <4>2, <4>3
    <3> QED BY <3>6, <3>7 DEF Copied
  <2>6. CASE MarkWrite(p)
    <3>1. /\ e \in Ids /\ DirOf(goal) \in Dirs /\ goal # "none"
          /\ OneFile(DirOf(goal), e, IF files[DirOf(goal)][e] = "none" THEN "none" ELSE goal)
      BY <1>8, <2>1, <2>6, FilesAfter, MarkOpenDoes, MarkWriteDoes, MarkUnlinkDoes DEF At
    <3>2. /\ At(p, "write")
          /\ \/ procs'[p] = Rec(e, "unlink", goal) /\ goal # "processing"
             \/ procs'[p] = Rec(e, "compile", "none")
      BY <2>1, <2>6, MarkWriteDoes DEF Becomes
    <3>3. \A d \in Dirs, f \in Ids : files'[d][f] = "none" <=> files[d][f] = "none"
      BY <3>1 DEF OneFile
    <3>4. \A q \in Procs : Moves(q)' =>
            Moves(q) /\ procs'[q].id = procs[q].id /\ procs'[q].goal = procs[q].goal /\ DirOf(procs[q].goal) \in Dirs
      BY <2>1, <2>3, <3>2 DEF Moves, Rec, At, ProcRecord, DirOf, Dirs
    <3>5. ASSUME NEW f \in Kept'
          PROVE  /\ \E d \in Dirs : files'[d][f] # "none"
                 /\ \A q \in Procs : Works(q, f)' /\ Moves(q)' => files'[DirOf(procs'[q].goal)][f] # "none"
      <4>1. f \in Kept /\ f \in Ids
        BY <2>1 DEF TypeOK
      <4>2. \E d \in Dirs : files'[d][f] # "none"
        BY <3>3, <4>1 DEF Copied
      <4>3. ASSUME NEW q \in Procs, Works(q, f)', Moves(q)' PROVE files'[DirOf(procs'[q].goal)][f] # "none"
        BY <3>3, <3>4, <4>1, <4>3 DEF Copied
      <4> QED BY <4>2, <4>3
    <3> QED BY <3>5 DEF Copied
  <2>7. CASE MarkUnlink(p)
    <3>1. e \in Ids /\ OneFile("inbox", e, "none") /\ Moves(p)
      BY <1>8, <2>1, <2>7, FilesAfter, MarkOpenDoes, MarkWriteDoes, MarkUnlinkDoes DEF At, Moves, StageOK
    <3>2. procs'[p].pc \in {"idle", "next"}
      BY <2>1, <2>7, MarkUnlinkDoes DEF Becomes, Ended, Rec
    <3>3. \A q \in Procs : Moves(q)' =>
            q # p /\ Moves(q) /\ procs'[q] = procs[q] /\ DirOf(procs[q].goal) \in Dirs \ {"inbox"}
      BY <2>3, <3>2 DEF Moves, DirOf, Dirs
    <3>4. \A d \in Dirs \ {"inbox"}, f \in Ids : files'[d][f] = files[d][f]
      BY <3>1 DEF OneFile
    <3>5. DirOf(goal) \in Dirs \ {"inbox"} /\ (e \in Kept => files[DirOf(goal)][e] # "none")
      BY <3>1 DEF Copied, Moves, DirOf, Dirs
    <3>6. \A f \in Ids \ {e}, d \in Dirs : files'[d][f] = files[d][f]
      BY <3>1 DEF OneFile
    <3>7. ASSUME NEW f \in Kept'
          PROVE  /\ \E d \in Dirs : files'[d][f] # "none"
                 /\ \A q \in Procs : Works(q, f)' /\ Moves(q)' => files'[DirOf(procs'[q].goal)][f] # "none"
      <4>1. f \in Kept /\ f \in Ids
        BY <2>1 DEF TypeOK
      <4>2. \E d \in Dirs : files'[d][f] # "none"
        BY <3>4, <3>5, <3>6, <4>1 DEF Copied
      <4>3. ASSUME NEW q \in Procs, Works(q, f)', Moves(q)' PROVE files'[DirOf(procs'[q].goal)][f] # "none"
        BY <3>3, <3>4, <4>1, <4>3 DEF Copied
      <4> QED BY <4>2, <4>3
    <3> QED BY <3>7 DEF Copied
  <2> QED BY <1>8, <2>4, <2>5, <2>6, <2>7 DEF ProcessStep
<1>9. CASE Crash
  BY <1>4, <1>9 DEF Crash, Idle
<1>10. CASE UNCHANGED vars
  BY <1>4, <1>10 DEF vars
<1> QED BY <1>1, <1>2, <1>3, <1>5, <1>6, <1>7, <1>8, <1>9, <1>10 DEF Next

LEMMA TornIsWrittenKept ==
  TypeOK /\ Stages /\ TornIsWritten /\ [Next]_vars => TornIsWritten'
<1> SUFFICES ASSUME TypeOK, Stages, TornIsWritten, [Next]_vars PROVE TornIsWritten'
  OBVIOUS
<1>1. ASSUME crashes' = crashes,
             \A d \in Dirs, e \in Ids : files'[d][e] = "torn" =>
               Written(d, e)' \/ (files[d][e] = "torn" /\ (Written(d, e) => Written(d, e)'))
      PROVE  TornIsWritten'
  BY <1>1 DEF TornIsWritten
<1>2. ASSUME adding \subseteq adding',
             \A p \in Procs : procs'[p] = procs[p] \/ procs[p].pc # "write"
      PROVE  \A d, e : Written(d, e) => Written(d, e)'
  BY <1>2 DEF Written, Works, At
<1>3. ASSUME NEW e \in Ids, AddOpen(e) PROVE TornIsWritten'
  <2>1. \A d \in Dirs, f \in Ids : files'[d][f] = IF d = "inbox" /\ f = e THEN "torn" ELSE files[d][f]
    BY <1>3 DEF AddOpen, TypeOK
  <2>2. Written("inbox", e)'
    BY <1>3 DEF AddOpen, Written
  <2> QED BY <1>1, <1>2, <1>3, <2>1, <2>2 DEF AddOpen, history
<1>4. ASSUME NEW e \in Ids, AddWrite(e) PROVE TornIsWritten'
  <2>1. \A d \in Dirs, f \in Ids : files'[d][f] = "torn" => files[d][f] = "torn" /\ ~(d = "inbox" /\ f = e)
    BY <1>4 DEF AddWrite, TypeOK, Dirs
  <2>2. \A d, f : ~(d = "inbox" /\ f = e) /\ Written(d, f) => Written(d, f)'
    BY <1>4 DEF AddWrite, Written, Works, At
  <2> QED BY <1>1, <1>4, <2>1, <2>2 DEF AddWrite
<1>5. ASSUME NEW e \in Ids, Delete(e) PROVE TornIsWritten'
  <2>1. \A d \in Dirs, f \in Ids : files'[d][f] = "torn" => files[d][f] = "torn"
    BY <1>5 DEF Delete, TypeOK
  <2> QED BY <1>1, <1>2, <1>5, <2>1 DEF Delete
<1>6. ASSUME NEW c \in Retries, NEW e \in Ids, Retry(c, e) PROVE TornIsWritten'
  <2>1. \A p \in Procs : procs'[p] = procs[p] \/ procs[p].pc # "write"
    BY <1>6 DEF Retry, TypeOK, At
  <2> QED BY <1>1, <1>2, <1>6, <2>1 DEF Retry
<1>7. ASSUME NEW t \in Ticks, Tick(t) PROVE TornIsWritten'
  <2>1. \A p \in Procs : procs'[p] = procs[p] \/ procs[p].pc # "write"
    BY <1>7 DEF Tick, Go, TypeOK, At
  <2> QED BY <1>1, <1>2, <1>7, <2>1 DEF Tick, history
<1>8. ASSUME NEW t \in Ticks, TickNext(t) PROVE TornIsWritten'
  <2>1. \A p \in Procs : procs'[p] = procs[p] \/ procs[p].pc # "write"
    BY <1>8 DEF TickNext, TypeOK, At
  <2> QED BY <1>1, <1>2, <1>8, <2>1 DEF TickNext, history
<1>9. ASSUME NEW p \in Procs, ProcessStep(p) PROVE TornIsWritten'
  <2> DEFINE e == procs[p].id
             goal == procs[p].goal
  <2>1. UNCHANGED <<adding, crashes>> /\ procs \in [Procs -> ProcRecord]
    BY <1>9, StepDoes DEF Bystanders, TypeOK
  <2>2. PICK r : Becomes(p, r)
    BY <1>9, StepDoes
  <2>3. \A q \in Procs : procs'[q] = IF q = p THEN r ELSE procs[q]
    BY <2>2 DEF Becomes, TypeOK
  <2>4. CASE ~At(p, "open") /\ ~At(p, "write")
    <3>1. \A d \in Dirs, f \in Ids : files'[d][f] = "torn" => files[d][f] = "torn"
      BY <1>9, <2>4, FilesAfter DEF OneFile
    <3> QED BY <1>1, <1>2, <2>1, <2>3, <2>4, <3>1 DEF At
  <2>5. CASE At(p, "open")
    <3>1. e \in Ids /\ OneFile(DirOf(goal), e, "torn") /\ MarkOpen(p)
      BY <1>9, <2>5, FilesAfter DEF At
    <3>2. procs'[p] = Rec(e, "write", goal)
      BY <2>1, <3>1, MarkOpenDoes DEF Becomes
    <3>3. \A d, f : d = DirOf(goal) /\ f = e => Written(d, f)'
      BY <3>2 DEF Written, Works, At, Rec
    <3>4. \A d, f : Written(d, f) => Written(d, f)'
      BY <1>2, <2>1, <2>3, <2>5 DEF At
    <3>5. \A d \in Dirs, f \in Ids : files'[d][f] = "torn" => files[d][f] = "torn" \/ (d = DirOf(goal) /\ f = e)
      BY <3>1 DEF OneFile
    <3> QED BY <1>1, <2>1, <3>3, <3>4, <3>5
  <2>6. CASE At(p, "write")
    <3>1. /\ e \in Ids /\ goal \in {"processing", "compiled", "failed"}
          /\ OneFile(DirOf(goal), e, IF files[DirOf(goal)][e] = "none" THEN "none" ELSE goal)
      BY <1>9, <2>6, FilesAfter DEF At
    <3>2. \A d \in Dirs, f \in Ids : files'[d][f] = "torn" => files[d][f] = "torn" /\ ~(d = DirOf(goal) /\ f = e)
      BY <3>1 DEF OneFile
    <3>3. ASSUME NEW d, NEW f, Written(d, f), ~(d = DirOf(goal) /\ f = e) PROVE Written(d, f)'
      BY <2>1, <2>3, <3>3 DEF Written, Works, At
    <3> QED BY <1>1, <2>1, <3>2, <3>3
  <2> QED BY <2>4, <2>5, <2>6
<1>10. CASE Crash
  BY <1>10 DEF Crash, TypeOK, TornIsWritten
<1>11. CASE UNCHANGED vars
  BY <1>11 DEF vars, TornIsWritten, Written, Works, At
<1> QED BY <1>3, <1>4, <1>5, <1>6, <1>7, <1>8, <1>9, <1>10, <1>11 DEF Next

LEMMA ListedStaysKept ==
  TypeOK /\ Stages /\ OneTick /\ NotYetAccepted /\ Copied /\ ListedStays /\ [Next]_vars => ListedStays'
<1> SUFFICES ASSUME TypeOK, Stages, OneTick, NotYetAccepted, Copied, ListedStays, [Next]_vars PROVE ListedStays'
  OBVIOUS
<1> DEFINE Listed(t, e) == e \in pending[t] \/ (Works(t, e) /\ At(t, "look"))
           There(e) == files["inbox"][e] # "none" \/ files["processed"][e] # "none"
<1>1. ASSUME \A t \in Ticks, e \in Kept' : Listed(t, e)' =>
               There(e)' \/ (e \in Kept /\ Listed(t, e) /\ (There(e) => There(e)'))
      PROVE  ListedStays'
  BY <1>1 DEF ListedStays
<1>2. ASSUME NEW e \in Ids, AddOpen(e) PROVE ListedStays'
  <2>1. \A f \in Ids : There(f) => There(f)'
    BY <1>2 DEF AddOpen, TypeOK, Dirs
  <2> QED BY <1>1, <1>2, <2>1 DEF AddOpen, Kept, Works, At, history, TypeOK
<1>3. ASSUME NEW e \in Ids, AddWrite(e) PROVE ListedStays'
  <2>1. \A f \in Ids : There(f) <=> There(f)'
    BY <1>3 DEF AddWrite, TypeOK, Dirs
  <2>2. There(e)'
    BY <1>3, <2>1 DEF AddWrite, NotYetAccepted
  <2> QED BY <1>1, <1>3, <2>1, <2>2 DEF AddWrite, Kept, Works, At, TypeOK
<1>4. ASSUME NEW e \in Ids, Delete(e) PROVE ListedStays'
  <2>1. \A f \in Ids \ {e} : There(f) => There(f)'
    BY <1>4 DEF Delete, TypeOK, Dirs
  <2> QED BY <1>1, <1>4, <2>1 DEF Delete, Kept, Works, At, TypeOK
<1>5. ASSUME NEW c \in Retries, NEW e \in Ids, Retry(c, e) PROVE ListedStays'
  <2>1. \A t \in Ticks : procs'[t] = procs[t]
    BY <1>5, InboxAssumption DEF Retry, TypeOK, Procs
  <2> QED BY <1>1, <1>5, <2>1 DEF Retry, Kept, Works, At
<1>6. ASSUME NEW t \in Ticks, Tick(t) PROVE ListedStays'
  <2>1. \A u \in Ticks : pending'[u] = IF u = t THEN {f \in Ids : files["inbox"][f] # "none"} ELSE pending[u]
    BY <1>6 DEF Tick, TypeOK
  <2>2. \A u \in Ticks : procs'[u] = procs[u] \/ procs'[u].pc = "next"
    BY <1>6 DEF Tick, Go, TypeOK, Procs
  <2> QED BY <1>1, <1>6, <2>1, <2>2 DEF Tick, Kept, Works, At, history
<1>7. ASSUME NEW t \in Ticks, TickNext(t) PROVE ListedStays'
  <2>1. CASE procs' = [procs EXCEPT ![t] = Idle] /\ pending' = pending
    <3>1. procs'[t].pc # "look" /\ \A u \in Ticks : u # t => procs'[u] = procs[u]
      BY <2>1 DEF TypeOK, Procs, Idle
    <3> QED BY <1>1, <1>7, <2>1, <3>1 DEF TickNext, Kept, Works, At, history
  <2>2. CASE \E e \in pending[t] : /\ pending' = [pending EXCEPT ![t] = @ \ {e}]
                                   /\ procs' = [procs EXCEPT ![t] = Looking(e)]
    <3>1. PICK e \in pending[t] : /\ pending' = [pending EXCEPT ![t] = @ \ {e}]
                                  /\ procs' = [procs EXCEPT ![t] = Looking(e)]
      BY <2>2
    <3>2. /\ procs'[t].id = e /\ \A u \in Ticks : u # t => procs'[u] = procs[u]
          /\ \A u \in Ticks : pending'[u] \subseteq pending[u]
      BY <3>1 DEF TypeOK, Procs, Looking
    <3> QED BY <1>1, <1>7, <3>2 DEF TickNext, Kept, Works, At, history
  <2> QED BY <1>7, <2>1, <2>2 DEF TickNext
<1>8. ASSUME NEW p \in Procs, ProcessStep(p) PROVE ListedStays'
  <2> DEFINE e == procs[p].id
             goal == procs[p].goal
  <2>1. /\ UNCHANGED <<pending, accepted, deleted>> /\ procs \in [Procs -> ProcRecord]
        /\ StageOK(p, procs[p]) /\ Working(p) /\ e \in Ids
    BY <1>8, StepDoes, FilesAfter DEF Bystanders, TypeOK, Stages
  <2>2. \A q \in Procs \ {p} : procs'[q] = procs[q]
    BY <1>8, StepDoes DEF Becomes, TypeOK
  <2>3. procs'[p].pc # "look"
    <3>1. Ended(p).pc # "look" /\ Failed(p).pc # "look" /\ \A pc, g : Rec(e, pc, g).pc = pc
      BY DEF Failed, Ended, Rec
    <3>2. CASE Look(p) \/ MarkRead(p)
      BY <2>1, <3>1, <3>2, LookDoes, MarkReadDoes DEF Becomes
    <3>3. CASE MarkOpen(p)
      <4>1. procs'[p] = Rec(e, "write", goal)
        BY <2>1, <3>3, MarkOpenDoes DEF Becomes
      <4> QED BY <4>1 DEF Rec
    <3>4. CASE MarkWrite(p)
      <4>1. procs'[p] \in {Rec(e, "compile", "none"), Rec(e, "unlink", goal)}
        BY <2>1, <3>4, MarkWriteDoes DEF Becomes
      <4> QED BY <4>1 DEF Rec
    <3>5. CASE MarkUnlink(p) \/ Compile(p)
      BY <2>1, <3>1, <3>5, MarkUnlinkDoes, CompileDoes DEF Becomes
    <3> QED BY <1>8, <3>2, <3>3, <3>4, <3>5 DEF ProcessStep
  <2>4. \A t \in Ticks : \A f : Listed(t, f)' => Listed(t, f)
    BY <2>1, <2>2, <2>3 DEF Works, At, Procs
  <2>5. CASE ~At(p, "unlink")
    <3>1. \A d \in Dirs, f \in Ids : files[d][f] # "none" => files'[d][f] # "none"
      BY <1>8, <2>5, FilesAfter DEF OneFile
    <3>2. \A f \in Ids : There(f) => There(f)'
      BY <3>1 DEF Dirs
    <3> QED BY <1>1, <2>1, <2>4, <3>2 DEF Kept, TypeOK
  <2>6. CASE At(p, "unlink")
    <3>1. OneFile("inbox", e, "none") /\ procs'[p].pc \in {"idle", "next"}
      BY <1>8, <2>1, <2>6, FilesAfter, MarkUnlinkDoes DEF At, Becomes, Ended, Rec
    <3>2. \A f \in Ids \ {e} : There(f) => There(f)'
      BY <3>1 DEF OneFile, Dirs
    <3>3. CASE goal = "compiled"
      <4>1. e \in Kept => files["processed"][e] # "none"
        BY <2>6, <3>3 DEF Copied, Moves, Works, At, DirOf
      <4>2. files'["processed"][e] = files["processed"][e]
        BY <2>1, <3>1 DEF OneFile, Dirs
      <4> QED BY <1>1, <2>1, <2>4, <3>2, <4>1, <4>2 DEF Kept, TypeOK
    <3>4. CASE goal = "failed"
      <4>1. p \in Ticks /\ ~At(p, "idle")
        BY <2>1, <2>6, <3>4 DEF StageOK, At
      <4>2. \A t \in Ticks : ~Listed(t, e)
        <5>1. \A t \in Ticks \ {p} : At(t, "idle") /\ pending[t] = {}
          BY <4>1 DEF OneTick
        <5>2. e \notin pending[p]
          BY <4>1 DEF OneTick
        <5> QED BY <2>6, <5>1, <5>2 DEF At
      <4> QED BY <1>1, <2>1, <2>4, <3>2, <4>2 DEF Kept, TypeOK
    <3> QED BY <2>1, <2>6, <3>3, <3>4 DEF StageOK, At
  <2> QED BY <2>5, <2>6
<1>9. CASE Crash
  BY <1>1, <1>9, InboxAssumption DEF Crash, Kept, Works, At, Idle, Procs
<1>10. CASE UNCHANGED vars
  BY <1>1, <1>10 DEF vars, Kept, Works, At
<1> QED BY <1>2, <1>3, <1>4, <1>5, <1>6, <1>7, <1>8, <1>9, <1>10 DEF Next

LEMMA MarkedKept ==
  TypeOK /\ Stages /\ NotYetAccepted /\ Marked /\ [Next]_vars => Marked'
<1> SUFFICES ASSUME TypeOK, Stages, NotYetAccepted, Marked, [Next]_vars PROVE Marked'
  OBVIOUS
<1> DEFINE Past(p) == At(p, "compile") \/ (At(p, "write") /\ procs[p].goal = "processing")
<1>1. ASSUME \A p \in Procs, e \in Kept' : Works(p, e)' /\ Past(p)' =>
               \/ /\ e \in Kept /\ Works(p, e) /\ Past(p)
                  /\ files["inbox"][e] # "queued" => files'["inbox"][e] # "queued"
               \/ files'["inbox"][e] # "queued"
      PROVE  Marked'
  BY <1>1 DEF Marked
<1>2. ASSUME \A p \in Procs : procs'[p] = procs[p] \/ procs'[p].pc \notin {"compile", "write"},
             accepted' = accepted, deleted \subseteq deleted',
             \A e \in Ids : files["inbox"][e] # "queued" => files'["inbox"][e] # "queued"
      PROVE  Marked'
  BY <1>1, <1>2 DEF Kept, Works, At, TypeOK
<1>3. ASSUME NEW e \in Ids, AddOpen(e) PROVE Marked'
  BY <1>2, <1>3 DEF AddOpen, TypeOK, Dirs, history
<1>4. ASSUME NEW e \in Ids, AddWrite(e) PROVE Marked'
  <2>1. e \notin accepted /\ \A p \in Procs : Works(p, e) => ~Past(p)
    BY <1>4 DEF AddWrite, NotYetAccepted, At
  <2>2. \A f \in Ids \ {e} : files'["inbox"][f] = files["inbox"][f]
    BY <1>4 DEF AddWrite, TypeOK, Dirs
  <2> QED BY <1>1, <1>4, <2>1, <2>2 DEF AddWrite, Kept, Works, At, TypeOK
<1>5. ASSUME NEW e \in Ids, Delete(e) PROVE Marked'
  <2>1. \A f \in Ids : files'["inbox"][f] = files["inbox"][f] \/ files'["inbox"][f] = "none"
    BY <1>5 DEF Delete, TypeOK, Dirs
  <2> QED BY <1>2, <1>5, <2>1 DEF Delete
<1>6. ASSUME NEW c \in Retries, NEW e \in Ids, Retry(c, e) PROVE Marked'
  <2>1. \A p \in Procs : procs'[p] = IF p = c THEN Looking(e) ELSE procs[p]
    BY <1>6 DEF Retry, TypeOK
  <2> QED BY <1>2, <1>6, <2>1 DEF Retry, Looking
<1>7. ASSUME NEW t \in Ticks, Tick(t) PROVE Marked'
  <2>1. \A p \in Procs : procs'[p] = procs[p] \/ procs'[p].pc = "next"
    BY <1>7 DEF Tick, Go, TypeOK
  <2> QED BY <1>2, <1>7, <2>1 DEF Tick, history
<1>8. ASSUME NEW t \in Ticks, TickNext(t) PROVE Marked'
  <2>1. Idle.pc = "idle" /\ \A e : Looking(e).pc = "look"
    BY DEF Idle, Looking
  <2>2. \/ \E e \in pending[t] : procs' = [procs EXCEPT ![t] = Looking(e)]
        \/ procs' = [procs EXCEPT ![t] = Idle]
    BY <1>8 DEF TickNext
  <2>3. \A p \in Procs : procs'[p] = procs[p] \/ procs'[p].pc \in {"idle", "look"}
    BY <2>1, <2>2 DEF TypeOK
  <2> QED BY <1>2, <1>8, <2>3 DEF TickNext, history
<1>9. ASSUME NEW p \in Procs, ProcessStep(p) PROVE Marked'
  <2>1. PICK e, goal : e = procs[p].id /\ goal = procs[p].goal
    OBVIOUS
  <2>2. UNCHANGED <<accepted, deleted>> /\ procs \in [Procs -> ProcRecord] /\ e \in Ids
    BY <1>9, <2>1, StepDoes, FilesAfter DEF Bystanders, TypeOK
  <2>3. \A q \in Procs \ {p} : procs'[q] = procs[q]
    BY <1>9, StepDoes DEF Becomes, TypeOK
  <2>4. \A f \in Ids : files["inbox"][f] # "queued" => files'["inbox"][f] # "queued"
    BY <1>9, FilesAfter DEF OneFile, Dirs
  <2>5. CASE procs'[p].pc \notin {"compile", "write"}
    BY <1>2, <2>2, <2>3, <2>4, <2>5
  <2>6. CASE MarkRead(p) /\ procs'[p].pc \in {"compile", "write"}
    <3>1. procs'[p].id = e /\ Visible(e) = "none" /\ files' = files
      BY <2>1, <2>2, <2>6, MarkReadDoes DEF Becomes, Ended, Failed, Rec
    <3>2. files'["inbox"][e] # "queued"
      BY <3>1 DEF Visible
    <3> QED BY <1>1, <2>2, <2>3, <2>4, <3>1, <3>2 DEF Kept, Works, At, TypeOK
  <2>7. CASE MarkOpen(p)
    <3>1. procs'[p] = Rec(e, "write", goal) /\ OneFile(DirOf(goal), e, "torn")
      BY <1>9, <2>1, <2>2, <2>7, FilesAfter, MarkOpenDoes DEF Becomes, At
    <3>2. Past(p)' => files'["inbox"][e] # "queued"
      BY <2>2, <3>1 DEF At, Rec, OneFile, DirOf, Dirs
    <3>3. procs'[p].id = e
      BY <3>1 DEF Rec
    <3> HIDE DEF Past
    <3>4. \A q \in Procs \ {p} : Past(q)' => Past(q)
      BY <2>3 DEF Past, At
    <3> QED BY <1>1, <2>2, <2>3, <2>4, <3>2, <3>3, <3>4 DEF Kept, Works, TypeOK
  <2>8. CASE MarkWrite(p) /\ procs'[p].pc \in {"compile", "write"}
    <3>0. /\ At(p, "write")
          /\ \/ procs'[p] = Rec(e, "compile", "none") /\ goal = "processing"
             \/ procs'[p] = Rec(e, "unlink", goal)
      BY <2>1, <2>2, <2>8, MarkWriteDoes DEF Becomes
    <3>1. procs'[p].id = e /\ Works(p, e) /\ Past(p)
      BY <2>1, <2>8, <3>0 DEF Rec, Works
    <3> QED BY <1>1, <2>2, <2>3, <2>4, <3>1 DEF Kept, Works, At, TypeOK
  <2>9. CASE Look(p) \/ MarkUnlink(p)
    <3>1. procs'[p].pc \notin {"compile", "write"}
      BY <2>2, <2>9, LookDoes, MarkUnlinkDoes DEF Becomes, Failed, Ended, Rec
    <3> QED BY <2>5, <3>1
  <2>10. CASE Compile(p)
    <3>1. procs'[p].pc \notin {"compile", "write"}
      BY <2>2, <2>10, CompileDoes DEF Becomes, Failed, Ended, Rec
    <3> QED BY <2>5, <3>1
  <2> QED BY <1>9, <2>5, <2>6, <2>7, <2>8, <2>9, <2>10 DEF ProcessStep
<1>10. CASE Crash
  <2>1. \A p \in Procs : procs'[p].pc = "idle"
    BY <1>10 DEF Crash, Idle
  <2> QED BY <1>2, <1>10, <2>1 DEF Crash
<1>11. CASE UNCHANGED vars
  BY <1>2, <1>11 DEF vars
<1> QED BY <1>3, <1>4, <1>5, <1>6, <1>7, <1>8, <1>9, <1>10, <1>11 DEF Next

-----------------------------------------------------------------------------
(* Counting documents *)

\* Nothing is ingested and nobody new may ingest.
LEMMA NothingIngested ==
  ASSUME TypeOK, NEW e \in Ids, PaidFor(e), Open(e)' \subseteq Open(e), Fresh(e)' => Fresh(e),
         ingested'[e] = ingested[e], tries'[e] = tries[e]
  PROVE  PaidFor(e)'
<1>1. IsFiniteSet(Open(e)') /\ Cardinality(Open(e)') <= Cardinality(Open(e))
  BY FS_Subset DEF PaidFor
<1>2. Cardinality(Open(e)') \in Nat /\ Cardinality(Open(e)) \in Nat /\ ingested[e] \in Nat /\ tries[e] \in Nat
  BY <1>1, FS_CardinalityType DEF PaidFor, TypeOK
<1> QED BY <1>1, <1>2 DEF PaidFor

\* The worker ingests the capture, and may not again.
LEMMA WorkerIngests ==
  ASSUME TypeOK, NEW e \in Ids, PaidFor(e), Open(e)' \subseteq Open(e), Fresh(e), ~Fresh(e)',
         ingested'[e] = ingested[e] + 1, tries'[e] = tries[e]
  PROVE  PaidFor(e)'
<1>1. IsFiniteSet(Open(e)') /\ Cardinality(Open(e)') <= Cardinality(Open(e))
  BY FS_Subset DEF PaidFor
<1>2. Cardinality(Open(e)') \in Nat /\ Cardinality(Open(e)) \in Nat /\ ingested[e] \in Nat /\ tries[e] \in Nat
  BY <1>1, FS_CardinalityType DEF PaidFor, TypeOK
<1> QED BY <1>1, <1>2 DEF PaidFor

\* A retry ingests it.
LEMMA RetryIngests ==
  ASSUME TypeOK, NEW e \in Ids, PaidFor(e), NEW c \in Open(e), Open(e)' \subseteq Open(e) \ {c}, Fresh(e)' => Fresh(e),
         ingested'[e] = ingested[e] + 1, tries'[e] = tries[e]
  PROVE  PaidFor(e)'
<1>1. IsFiniteSet(Open(e) \ {c}) /\ Cardinality(Open(e) \ {c}) = Cardinality(Open(e)) - 1
  BY FS_RemoveElement DEF PaidFor
<1>2. IsFiniteSet(Open(e)') /\ Cardinality(Open(e)') <= Cardinality(Open(e) \ {c})
  BY <1>1, FS_Subset
<1>3. Cardinality(Open(e)') \in Nat /\ Cardinality(Open(e)) \in Nat /\ ingested[e] \in Nat /\ tries[e] \in Nat
  BY <1>2, FS_CardinalityType DEF PaidFor, TypeOK
<1> QED BY <1>1, <1>2, <1>3 DEF PaidFor

\* Another retry is asked for.
LEMMA RetryAsked ==
  ASSUME TypeOK, NEW e \in Ids, PaidFor(e), NEW c, Open(e)' \subseteq Open(e) \cup {c}, Fresh(e)' => Fresh(e),
         ingested'[e] = ingested[e], tries'[e] = tries[e] + 1
  PROVE  PaidFor(e)'
<1>1. /\ IsFiniteSet(Open(e) \cup {c}) /\ Cardinality(Open(e)) \in Nat
      /\ Cardinality(Open(e) \cup {c}) <= Cardinality(Open(e)) + 1
  <2>1. IsFiniteSet(Open(e)) /\ Cardinality(Open(e)) \in Nat
    BY FS_CardinalityType DEF PaidFor
  <2>2. /\ IsFiniteSet(Open(e) \cup {c})
        /\ Cardinality(Open(e) \cup {c}) = IF c \in Open(e) THEN Cardinality(Open(e)) ELSE Cardinality(Open(e)) + 1
    BY <2>1, FS_AddElement
  <2> QED BY <2>1, <2>2
<1>2. IsFiniteSet(Open(e)') /\ Cardinality(Open(e)') <= Cardinality(Open(e) \cup {c})
  BY <1>1, FS_Subset
<1>3. Cardinality(Open(e)') \in Nat /\ Cardinality(Open(e) \cup {c}) \in Nat /\ ingested[e] \in Nat /\ tries[e] \in Nat
  BY <1>1, <1>2, FS_CardinalityType DEF TypeOK
<1> QED BY <1>1, <1>2, <1>3 DEF PaidFor

\* A process step begins to take a capture up only with the look, and stores a document only in the
\* compilation, after which it is not taking the capture up any more.
LEMMA TakingUp ==
  ASSUME TypeOK, Stages, NEW p \in Procs, ProcessStep(p)
  PROVE  /\ ~At(p, "look")'
         /\ TakenUp(p)' => /\ procs'[p].id = procs[p].id
                           /\ TakenUp(p) \/ (At(p, "look") /\ Visible(procs[p].id) \in {"queued", "failed"})
         /\ Compile(p) => At(p, "compile") /\ ~TakenUp(p)'
         /\ ~Compile(p) => ingested' = ingested
<1>1. procs \in [Procs -> ProcRecord] /\ procs[p] \in ProcRecord /\ StageOK(p, procs[p])
  BY DEF TypeOK, Stages
<1> DEFINE e == procs[p].id
           goal == procs[p].goal
<1>2. CASE Look(p)
  <2>1. /\ At(p, "look") /\ ingested' = ingested
        /\ \/ procs'[p] = Rec(e, "read", "processing") /\ Visible(e) \in {"queued", "failed"}
           \/ procs'[p] = Failed(p)
           \/ procs'[p] = Ended(p)
    BY <1>1, <1>2, LookDoes DEF Becomes
  <2>2. ~Compile(p)
    BY <2>1 DEF At, Compile
  <2> QED BY <2>1, <2>2 DEF Rec, Failed, Ended, TakenUp, At
<1>3. CASE MarkRead(p)
  <2>1. /\ At(p, "read") /\ ingested' = ingested
        /\ \/ procs'[p] = Rec(e, "compile", "none") /\ goal = "processing"
           \/ procs'[p] = Rec(e, "open", goal)
           \/ procs'[p] = Failed(p)
           \/ procs'[p] = Ended(p)
    BY <1>1, <1>3, MarkReadDoes DEF Becomes
  <2>2. ~Compile(p)
    BY <2>1 DEF At, Compile
  <2> QED BY <2>1, <2>2 DEF Rec, Failed, Ended, TakenUp, At
<1>4. CASE MarkOpen(p)
  <2>1. At(p, "open") /\ ingested' = ingested /\ procs'[p] = Rec(e, "write", goal)
    BY <1>1, <1>4, MarkOpenDoes DEF Becomes
  <2>2. ~Compile(p)
    BY <2>1 DEF At, Compile
  <2> QED BY <2>1, <2>2 DEF Rec, TakenUp, At
<1>5. CASE MarkWrite(p)
  <2>1. /\ At(p, "write") /\ ingested' = ingested
        /\ \/ procs'[p] = Rec(e, "compile", "none") /\ goal = "processing"
           \/ procs'[p] = Rec(e, "unlink", goal)
    BY <1>1, <1>5, MarkWriteDoes DEF Becomes
  <2>2. ~Compile(p)
    BY <2>1 DEF At, Compile
  <2> QED BY <2>1, <2>2 DEF Rec, TakenUp, At
<1>6. CASE MarkUnlink(p)
  <2>1. At(p, "unlink") /\ ingested' = ingested /\ procs'[p] = Ended(p)
    BY <1>1, <1>6, MarkUnlinkDoes DEF Becomes
  <2>2. ~Compile(p)
    BY <2>1 DEF At, Compile
  <2> QED BY <2>1, <2>2 DEF Rec, Ended, TakenUp, At
<1>7. CASE Compile(p)
  <2>1. /\ At(p, "compile")
        /\ \/ procs'[p] = Rec(e, "read", "compiled")
           \/ procs'[p] = Failed(p)
    BY <1>1, <1>7, CompileDoes DEF Becomes
  <2> QED BY <1>7, <2>1 DEF Rec, Failed, Ended, TakenUp, At
<1> QED BY <1>2, <1>3, <1>4, <1>5, <1>6, <1>7 DEF ProcessStep

\* A tick that takes a kept capture up finds it queued.
LEMMA TickFindsQueued ==
  ASSUME TypeOK, ListedStays, NEW t \in Ticks, NEW e \in Kept, Works(t, e), At(t, "look"),
         Visible(e) \in {"queued", "failed"}
  PROVE  files["inbox"][e] = "queued"
<1>1. files["inbox"][e] # "none" \/ files["processed"][e] # "none"
  BY DEF ListedStays
<1>2. /\ files["inbox"][e] \in {"none", "torn", "queued", "processing"}
      /\ files["processed"][e] \in {"none", "torn", "compiled"}
  BY DEF TypeOK, Kept, Dirs, Contents
<1> QED BY <1>1, <1>2 DEF Visible

LEMMA ProcessPaid ==
  ASSUME InboxInv, NEW p \in Procs, ProcessStep(p)
  PROVE  Paid'
<1> USE DEF InboxInv
<1>1. PICK f : f = procs[p].id
  OBVIOUS
<1>2. UNCHANGED <<accepted, deleted, tries>> /\ procs \in [Procs -> ProcRecord] /\ f \in Ids /\ StageOK(p, procs[p])
  BY <1>1, StepDoes, FilesAfter DEF Bystanders, TypeOK, Stages
<1>3. \A q \in Procs \ {p} : procs'[q] = procs[q]
  BY StepDoes DEF Becomes, TypeOK
<1>4. \A e \in Ids : files'["inbox"][e] = "queued" => files["inbox"][e] = "queued"
  BY FilesAfter DEF OneFile, Dirs
<1>5. procs'[p].id = f \/ procs'[p].id \notin Ids
  BY <1>1, <1>2, StepDoes, InboxAssumption DEF Becomes, Ended, Rec
<1>6. \A e \in Ids : Open(e)' \subseteq Open(e)
  BY <1>1, <1>2, <1>3, <1>5, TakingUp DEF Open, Works, At, TakenUp, Procs
<1>7. \A e \in Ids \ {f} : ingested'[e] = ingested[e]
  BY ZenonT(30), <1>1, <1>2, TakingUp, CompileDoes DEF TypeOK
<1>8. ASSUME NEW e \in Ids \ deleted, e # f PROVE PaidFor(e)'
  <2>1. Fresh(e)' => Fresh(e)
    BY <1>1, <1>2, <1>3, <1>4, <1>5, <1>8 DEF Fresh, Works, TakenUp, At, Procs
  <2>2. PaidFor(e)
    BY DEF Paid
  <2> QED BY <1>2, <1>6, <1>7, <1>8, <2>1, <2>2, NothingIngested
<1>9. ASSUME f \notin deleted PROVE PaidFor(f)'
  <2>1. PaidFor(f) /\ tries'[f] = tries[f]
    BY <1>2, <1>9 DEF Paid
  <2>2. CASE p \in Ticks
    <3>1. \A t \in Ticks \ {p} : ~TakenUp(t) /\ ~TakenUp(t)'
      <4>1. ~At(p, "idle")
        BY StepDoes DEF Working, At
      <4>2. \A t \in Ticks \ {p} : procs[t].pc = "idle" /\ procs'[t].pc = "idle"
        BY <1>3, <2>2, <4>1 DEF OneTick, At, Procs
      <4> QED BY <4>2 DEF TakenUp
    <3>2. CASE Compile(p)
      <4>1. f \in accepted
        BY <1>1, <1>2, <3>2, TakingUp DEF NotYetAccepted, Works, At
      <4>2. Fresh(f) /\ files["inbox"][f] # "queued"
        BY <1>1, <1>2, <1>9, <2>2, <3>2, <4>1, TakingUp DEF Fresh, TakenUp, Works, At, Marked, Kept
      <4>3. ~Fresh(f)'
        BY <1>2, <1>4, <3>1, <3>2, <4>1, <4>2, TakingUp DEF Fresh
      <4>4. ingested'[f] = ingested[f] \/ ingested'[f] = ingested[f] + 1
        BY <1>1, <1>2, <3>2, CompileDoes DEF TypeOK
      <4> QED BY <1>2, <1>6, <2>1, <4>2, <4>3, <4>4, NothingIngested, WorkerIngests
    <3>3. CASE ~Compile(p)
      <4>1. Fresh(f)' => Fresh(f)
        <5>1. CASE f \notin accepted
          BY <5>1 DEF Fresh
        <5>2. CASE f \in accepted /\ TakenUp(p)'
          BY <1>1, <1>2, <1>9, <2>2, <5>2, TakingUp, TickFindsQueued DEF Fresh, Kept, Works
        <5>3. CASE f \in accepted /\ ~TakenUp(p)'
          BY <1>2, <1>4, <3>1, <5>3 DEF Fresh
        <5> QED BY <5>1, <5>2, <5>3
      <4> QED BY <1>2, <1>6, <2>1, <3>3, <4>1, TakingUp, NothingIngested
    <3> QED BY <3>2, <3>3
  <2>3. CASE p \notin Ticks
    <3>1. Fresh(f)' => Fresh(f)
      BY <1>2, <1>3, <1>4, <2>3 DEF Fresh, Works, TakenUp, At, Procs
    <3>2. CASE Compile(p)
      <4>1. p \in Open(f) /\ Open(f)' \subseteq Open(f) \ {p}
        <5>1. At(p, "compile") /\ ~At(p, "look")' /\ ~TakenUp(p)'
          BY <3>2, TakingUp
        <5>2. p \in Retries /\ p \in Open(f)
          BY <1>1, <2>3, <5>1 DEF Procs, Open, Works, TakenUp, At
        <5>3. p \notin Open(f)'
          BY <5>1 DEF Open
        <5> QED BY <1>2, <1>6, <5>2, <5>3
      <4>2. ingested'[f] = ingested[f] \/ ingested'[f] = ingested[f] + 1
        BY <1>1, <1>2, <3>2, CompileDoes DEF TypeOK
      <4> QED BY <1>2, <1>6, <2>1, <3>1, <4>1, <4>2, NothingIngested, RetryIngests
    <3>3. CASE ~Compile(p)
      BY <1>2, <1>6, <2>1, <3>1, <3>3, TakingUp, NothingIngested
    <3> QED BY <3>2, <3>3
  <2> QED BY <2>2, <2>3
<1> QED BY <1>2, <1>8, <1>9 DEF Paid

LEMMA PaidKept == InboxInv /\ [Next]_vars => Paid'
<1> SUFFICES ASSUME InboxInv, [Next]_vars PROVE Paid'
  OBVIOUS
<1> USE DEF InboxInv
\* Requests that take nothing up and make nothing "queued".
<1>1. ASSUME UNCHANGED <<ingested, tries>>, deleted \subseteq deleted',
             \A e \in Ids \ deleted : Open(e)' \subseteq Open(e) /\ (Fresh(e)' => Fresh(e))
      PROVE  Paid'
  BY <1>1, NothingIngested DEF Paid
<1>2. ASSUME NEW e \in Ids, AddOpen(e) PROVE Paid'
  <2>1. \A f \in Ids : files'["inbox"][f] = "queued" => files["inbox"][f] = "queued"
    BY <1>2 DEF AddOpen, TypeOK, Dirs
  <2>2. \A f \in Ids : Open(f)' = Open(f) /\ (Fresh(f)' => Fresh(f))
    BY <1>2, <2>1 DEF AddOpen, Open, Fresh, Works, TakenUp, At, history
  <2> QED BY <1>1, <1>2, <2>2 DEF AddOpen, history
<1>3. ASSUME NEW e \in Ids, AddWrite(e) PROVE Paid'
  <2>1. \A f \in Ids \ {e} : files'["inbox"][f] = files["inbox"][f]
    BY <1>3 DEF AddWrite, TypeOK, Dirs
  <2>2. Fresh(e)
    BY <1>3 DEF AddWrite, NotYetAccepted, Fresh
  <2>3. \A f \in Ids : Open(f)' = Open(f) /\ (Fresh(f)' => Fresh(f))
    BY <1>3, <2>1, <2>2 DEF AddWrite, Open, Fresh, Works, TakenUp, At
  <2> QED BY <1>1, <1>3, <2>3 DEF AddWrite
<1>4. ASSUME NEW e \in Ids, Delete(e) PROVE Paid'
  <2>1. \A f \in Ids : files'["inbox"][f] = "queued" => files["inbox"][f] = "queued"
    BY <1>4 DEF Delete, TypeOK, Dirs
  <2>2. \A f \in Ids : Open(f)' = Open(f) /\ (Fresh(f)' => Fresh(f))
    BY <1>4, <2>1 DEF Delete, Open, Fresh, Works, TakenUp, At
  <2> QED BY <1>1, <1>4, <2>2 DEF Delete
<1>5. ASSUME NEW c \in Retries, NEW e \in Ids, Retry(c, e) PROVE Paid'
  <2>1. UNCHANGED <<files, accepted, deleted, ingested>> /\ tries' = [tries EXCEPT ![e] = @ + 1]
    BY <1>5 DEF Retry
  <2>2. c \notin Ticks /\ \A p \in Procs : procs'[p] = IF p = c THEN Looking(e) ELSE procs[p]
    BY <1>5, InboxAssumption DEF Retry, TypeOK
  <2>3. Looking(e).id = e
    BY DEF Looking
  <2>4. \A f \in Ids : Fresh(f)' => Fresh(f)
    BY <2>1, <2>2 DEF Fresh, Works, TakenUp, At, Procs
  <2>5. \A f \in Ids \ {e} : Open(f)' \subseteq Open(f)
    BY <2>2, <2>3 DEF Open, Works, TakenUp, At, Procs
  <2>6. Open(e)' \subseteq Open(e) \cup {c}
    BY <2>2 DEF Open, Works, TakenUp, At, Procs
  <2>7. ASSUME NEW f \in Ids \ deleted PROVE PaidFor(f)'
    <3>1. PaidFor(f)
      BY DEF Paid
    <3>2. tries'[f] = IF f = e THEN tries[f] + 1 ELSE tries[f]
      BY <2>1 DEF TypeOK
    <3>3. CASE f = e
      BY <2>1, <2>4, <2>6, <3>1, <3>2, <3>3, RetryAsked
    <3>4. CASE f # e
      BY <2>1, <2>4, <2>5, <3>1, <3>2, <3>4, NothingIngested
    <3> QED BY <3>3, <3>4
  <2> QED BY <2>1, <2>7 DEF Paid
<1>6. ASSUME NEW t \in Ticks, UNCHANGED <<files, history>>,
             \A p \in Procs : p # t => procs'[p] = procs[p], procs'[t].pc \in {"idle", "next", "look"}
      PROVE  Paid'
  <2>1. ~TakenUp(t)' /\ t \notin Retries
    BY <1>6, InboxAssumption DEF TakenUp
  <2>2. \A f \in Ids : Open(f)' = Open(f)
    BY <1>6, <2>1 DEF Open, Works, TakenUp, At, Procs
  <2>3. \A f \in Ids : Fresh(f)' => Fresh(f)
    BY <1>6, <2>1 DEF Fresh, Works, TakenUp, At, Procs, history
  <2> QED BY <1>1, <1>6, <2>2, <2>3 DEF history
<1>7. ASSUME NEW t \in Ticks, Tick(t) PROVE Paid'
  <2>1. procs'[t].pc = "next" /\ \A p \in Procs : p # t => procs'[p] = procs[p]
    BY <1>7 DEF Tick, Go, TypeOK, Procs
  <2> QED BY <1>6, <1>7, <2>1 DEF Tick
<1>8. ASSUME NEW t \in Ticks, TickNext(t) PROVE Paid'
  <2>1. Idle.pc = "idle" /\ \A e : Looking(e).pc = "look"
    BY DEF Idle, Looking
  <2>2. \/ \E e \in pending[t] : procs' = [procs EXCEPT ![t] = Looking(e)]
        \/ procs' = [procs EXCEPT ![t] = Idle]
    BY <1>8 DEF TickNext
  <2>3. procs'[t].pc \in {"idle", "look"} /\ \A p \in Procs : p # t => procs'[p] = procs[p]
    BY <2>1, <2>2 DEF TypeOK, Procs
  <2> QED BY <1>6, <1>8, <2>3 DEF TickNext
<1>9. ASSUME NEW p \in Procs, ProcessStep(p) PROVE Paid'
  BY <1>9, ProcessPaid
<1>10. CASE Crash
  <2>1. \A p \in Procs : ~TakenUp(p)' /\ ~At(p, "look")'
    BY <1>10 DEF Crash, Idle, TakenUp, At
  <2>2. \A f \in Ids : Open(f)' \subseteq Open(f) /\ (Fresh(f)' => Fresh(f))
    BY <1>10, <2>1 DEF Crash, Open, Fresh, Procs
  <2> QED BY <1>1, <1>10, <2>2 DEF Crash
<1>11. CASE UNCHANGED vars
  <2>1. \A f \in Ids : Open(f)' = Open(f) /\ (Fresh(f)' => Fresh(f))
    BY <1>11 DEF vars, Open, Fresh, Works, TakenUp, At
  <2> QED BY <1>1, <1>11, <2>1 DEF vars
<1> QED BY <1>2, <1>3, <1>4, <1>5, <1>7, <1>8, <1>9, <1>10, <1>11 DEF Next

-----------------------------------------------------------------------------
LEMMA InitInv == Init => InboxInv
<1> SUFFICES ASSUME Init PROVE InboxInv
  OBVIOUS
<1>1. TypeOK
  <2>1. procs \in [Procs -> ProcRecord]
    BY DEF Init, Idle, ProcRecord
  <2>2. /\ files \in [Dirs -> [Ids -> UNION {Contents[d] : d \in Dirs}]]
        /\ \A d \in Dirs, e \in Ids : files[d][e] \in Contents[d]
    <3>1. "inbox" \in Dirs /\ \A d \in Dirs : "none" \in Contents[d]
      BY DEF Dirs, Contents
    <3>2. "none" \in UNION {Contents[d] : d \in Dirs}
      BY <3>1
    <3> QED BY <3>1, <3>2 DEF Init
  <2>3. crashes \in 0..MaxCrashes
    BY InboxAssumption DEF Init
  <2>4. /\ pending \in [Ticks -> SUBSET Ids] /\ running \in BOOLEAN
        /\ adding \subseteq Ids /\ accepted \subseteq Ids /\ deleted \subseteq Ids
    BY DEF Init
  <2>5. deleting \in [Ids -> 0..3] /\ tries \in [Ids -> Nat] /\ ingested \in [Ids -> Nat]
    BY DEF Init
  <2> QED BY <2>1, <2>2, <2>3, <2>4, <2>5 DEF TypeOK
<1>2. \A p \in Procs : procs[p].pc = "idle" /\ procs[p].id = NoId /\ procs[p].goal = "none"
  BY DEF Init, Idle
<1>3. Stages /\ OneTick
  BY <1>2, InboxAssumption DEF Init, Stages, StageOK, OneTick, At, Procs
<1>4. NotYetAccepted
  BY <1>2, InboxAssumption DEF Init, NotYetAccepted, Works, Dirs
<1>5. Copied /\ ListedStays /\ Marked
  BY <1>2 DEF Init, Copied, ListedStays, Marked, Kept
<1>6. TornIsWritten
  BY DEF Init, TornIsWritten
<1>7. ASSUME NEW e \in Ids PROVE PaidFor(e)
  <2>1. Open(e) = {}
    BY <1>2 DEF Open, TakenUp, At, Procs
  <2>2. IsFiniteSet(Open(e)) /\ Cardinality(Open(e)) = 0
    BY <2>1, FS_EmptySet
  <2>3. ingested[e] = 0 /\ tries[e] = 0
    BY DEF Init
  <2> QED BY <2>2, <2>3 DEF PaidFor
<1> QED BY <1>1, <1>3, <1>4, <1>5, <1>6, <1>7 DEF InboxInv, Paid

LEMMA NextInv == InboxInv /\ [Next]_vars => InboxInv'
BY TypesKept, StagesKept, OneTickKept, NotYetAcceptedKept, CopiedKept, TornIsWrittenKept, ListedStaysKept,
   MarkedKept, PaidKept DEF InboxInv

LEMMA Invariant == Spec => []InboxInv
<1> QED BY InitInv, NextInv, PTL DEF Spec

\* Every variable stays in its type: a file never says what its directory does not hold.
THEOREM TypeCorrect == Spec => []TypeOK
<1>1. InboxInv => TypeOK
  BY DEF InboxInv
<1> QED BY <1>1, Invariant, PTL

\* A kept capture is in some directory at every moment, and whole in one unless it is being written.
THEOREM NoCaptureIsLost == Spec => []NothingLost
<1>1. InboxInv => NothingLost
  <2> SUFFICES ASSUME InboxInv, NEW e \in Kept
               PROVE  /\ \E d \in Dirs : files[d][e] # "none"
                      /\ crashes = 0 /\ (\A p \in Procs : ~(At(p, "write") /\ procs[p].id = e))
                           => \E d \in Dirs : files[d][e] \notin {"none", "torn"}
    BY DEF NothingLost
  <2>1. PICK d \in Dirs : files[d][e] # "none"
    BY DEF InboxInv, Copied
  <2>2. e \in Ids /\ e \notin adding
    BY DEF InboxInv, TypeOK, NotYetAccepted, Kept
  <2>3. ASSUME crashes = 0, \A p \in Procs : ~(At(p, "write") /\ procs[p].id = e)
        PROVE  files[d][e] # "torn"
    BY <2>2, <2>3 DEF InboxInv, TornIsWritten, Written, Works
  <2> QED BY <2>1, <2>3
<1> QED BY <1>1, Invariant, PTL

\* The worker stores a capture's document at most once, and each retry request at most once more.
THEOREM IngestedAsAsked == Spec => []IngestedOncePerRequest
<1>1. InboxInv => IngestedOncePerRequest
  <2> SUFFICES ASSUME InboxInv, NEW e \in Kept PROVE ingested[e] <= 1 + tries[e]
    BY DEF IngestedOncePerRequest
  <2>1. e \in Ids /\ PaidFor(e) /\ ingested[e] \in Nat /\ tries[e] \in Nat
    BY DEF InboxInv, TypeOK, Kept, Paid
  <2>2. Cardinality(Open(e)) \in Nat
    BY <2>1, FS_CardinalityType DEF PaidFor
  <2> QED BY <2>1, <2>2 DEF PaidFor
<1> QED BY <1>1, Invariant, PTL
=============================================================================
