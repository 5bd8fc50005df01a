---------------------------- MODULE CaptureInbox ----------------------------
(***************************************************************************)
(* The capture inbox of the vault server: inbox.ts (one JSON file per      *)
(* capture, in one of three directories), the worker that drains it        *)
(* (capture-worker.ts) and the routes that retry and delete (inbox.ts of   *)
(* routes).                                                                *)
(*                                                                         *)
(* Nothing locks the files: the worker, the retries and the deletions are  *)
(* cut at every await.  A write first truncates the file ("torn", it does  *)
(* not parse) and then fills it; a restart may come between the two.       *)
(***************************************************************************)
EXTENDS Naturals, FiniteSets, Functions

CONSTANTS
  Ids,         \* captures
  Ticks,       \* places for ticks of the worker's timer, numbered
  Retries,     \* places for retry requests
  NoId,
  MaxRetries,  \* bound: retry requests in one behaviour
  MaxDeletes,  \* bound: captures deleted in one behaviour
  MaxCrashes   \* bound: restarts in one behaviour

ASSUME InboxAssumption ==
  /\ NoId \notin Ids /\ Ticks \subseteq Nat /\ Ticks \cap Retries = {}
  /\ MaxRetries \in Nat /\ MaxDeletes \in Nat /\ MaxCrashes \in Nat

VARIABLES
  files,     \* directory -> capture -> what its file says
  procs,     \* runs of processOne: of a tick or of a retry request
  pending,   \* tick -> captures it has listed and not taken up yet
  running,   \* the worker's flag: a tick is at work
  adding,    \* captures whose file is being created
  deleting,  \* capture -> files unlinked so far by its deletion
  accepted,  \* history: captures whose request was answered
  deleted,   \* history: captures somebody has begun to delete
  tries,     \* history: capture -> retry requests
  ingested,  \* history: capture -> raw documents made of it
  crashes    \* restarts so far

vars == <<files, procs, pending, running, adding, deleting, accepted, deleted, tries, ingested, crashes>>
history == <<accepted, deleted, tries, ingested, crashes>>

Dirs == {"inbox", "processed", "failed"}

\* What a file of each directory can say.
Contents == [inbox |-> {"none", "torn", "queued", "processing"},
             processed |-> {"none", "torn", "compiled"},
             failed |-> {"none", "torn", "failed"}]

Procs == Ticks \cup Retries

\* "goal" is the status processOne is about to write.
Idle == [id |-> NoId, pc |-> "idle", goal |-> "none"]
Looking(e) == [id |-> e, pc |-> "look", goal |-> "none"]
ProcRecord == [id : Ids \cup {NoId},
               pc : {"idle", "next", "look", "read", "open", "write", "unlink", "compile"},
               goal : {"none", "processing", "compiled", "failed"}]

Init ==
  /\ files = [d \in Dirs |-> [e \in Ids |-> "none"]]
  /\ procs = [p \in Procs |-> Idle]
  /\ pending = [t \in Ticks |-> {}]
  /\ running = FALSE
  /\ adding = {} /\ deleting = [e \in Ids |-> 0]
  /\ accepted = {} /\ deleted = {}
  /\ tries = [e \in Ids |-> 0] /\ ingested = [e \in Ids |-> 0]
  /\ crashes = 0

\* Inbox.read: the directories in this order.  A move writes the copy before it unlinks the
\* original, so reading one directory after the other finds no less than this.
Visible(e) ==
  IF files["inbox"][e] # "none" THEN files["inbox"][e]
  ELSE IF files["processed"][e] # "none" THEN files["processed"][e]
  ELSE files["failed"][e]

At(p, pc) == procs[p].pc = pc
Go(p, pc, goal) == procs' = [procs EXCEPT ![p] = [id |-> @.id, pc |-> pc, goal |-> goal]]

\* A tick goes on with its list, a retry is answered.
Done(p) == procs' = [procs EXCEPT ![p] = IF p \in Ticks THEN [Idle EXCEPT !.pc = "next"] ELSE Idle]

\* An error in processOne: only the tick marks the capture as failed.
Throw(p) == IF p \in Ticks THEN Go(p, "read", "failed") ELSE Done(p)

-----------------------------------------------------------------------------
(* Inbox.add, for POST /api/capture and the feeds *)

AddOpen(e) ==
  /\ e \notin accepted \cup adding /\ files["inbox"][e] = "none"
  /\ adding' = adding \cup {e}
  /\ files' = [files EXCEPT !["inbox"][e] = "torn"]
  /\ UNCHANGED <<procs, pending, running, deleting, history>>

AddWrite(e) ==
  /\ e \in adding
  /\ adding' = adding \ {e}
  /\ accepted' = accepted \cup {e}
  /\ files' = [files EXCEPT !["inbox"][e] = IF @ = "none" THEN @ ELSE "queued"]
  /\ UNCHANGED <<procs, pending, running, deleting, deleted, tries, ingested, crashes>>

-----------------------------------------------------------------------------
(* The worker's timer *)

\* Bug: the timer starts a tick although one is at work.
MayTick_Always == TRUE

MayTick == ~running

\* Every file of the queue is listed, whatever its status.
Tick(t) ==
  /\ MayTick /\ At(t, "idle") /\ \A u \in Ticks : At(u, "idle") => t <= u
  /\ running' = TRUE
  /\ pending' = [pending EXCEPT ![t] = {e \in Ids : files["inbox"][e] # "none"}]
  /\ Go(t, "next", "none")
  /\ UNCHANGED <<files, adding, deleting, history>>

TickNext(t) ==
  /\ At(t, "next")
  /\ \/ \E e \in pending[t] :
          /\ pending' = [pending EXCEPT ![t] = @ \ {e}]
          /\ procs' = [procs EXCEPT ![t] = Looking(e)]
          /\ UNCHANGED running
     \/ /\ pending[t] = {}
        /\ running' = FALSE
        /\ procs' = [procs EXCEPT ![t] = Idle]
        /\ UNCHANGED pending
  /\ UNCHANGED <<files, adding, deleting, history>>

-----------------------------------------------------------------------------
(* The routes *)

RetriesSoFar == FoldFunction(LAMBDA n, m : n + m, 0, tries)

\* POST /api/inbox/:id/compile.
Retry(c, e) ==
  /\ At(c, "idle") /\ e \in accepted
  /\ RetriesSoFar < MaxRetries
  /\ tries' = [tries EXCEPT ![e] = @ + 1]
  /\ procs' = [procs EXCEPT ![c] = Looking(e)]
  /\ UNCHANGED <<files, pending, running, adding, deleting, accepted, deleted, ingested, crashes>>

\* DELETE /api/inbox/:id: one directory after the other.
Delete(e) ==
  /\ e \in accepted /\ deleting[e] < 3
  /\ Cardinality(deleted \cup {e}) <= MaxDeletes
  /\ LET d == CASE deleting[e] = 0 -> "inbox" [] deleting[e] = 1 -> "processed" [] OTHER -> "failed"
     IN files' = [files EXCEPT ![d][e] = "none"]
  /\ deleting' = [deleting EXCEPT ![e] = @ + 1]
  /\ deleted' = deleted \cup {e}
  /\ UNCHANGED <<procs, pending, running, adding, accepted, tries, ingested, crashes>>

-----------------------------------------------------------------------------
(* processOne *)

\* Bug: only failed captures are taken up.
MayProcess_FailedOnly(status) == status = "failed"

MayProcess(status) == status \in {"queued", "failed"}

Look(p) ==
  /\ At(p, "look")
  /\ LET status == Visible(procs[p].id)
     IN CASE status = "torn"     -> Throw(p)
          [] MayProcess(status)  -> Go(p, "read", "processing")
          [] OTHER               -> Done(p)
  /\ UNCHANGED <<files, pending, running, adding, deleting, history>>

\* The read of markProcessing, markCompiled and markFailed.  A capture that is gone is processed
\* all the same; an error of markFailed is swallowed.
MarkRead(p) ==
  LET goal   == procs[p].goal
      status == Visible(procs[p].id)
  IN /\ At(p, "read")
     /\ CASE status = "torn" -> IF goal = "failed" THEN Done(p) ELSE Throw(p)
          [] status = "none" -> IF goal = "processing" THEN Go(p, "compile", "none") ELSE Done(p)
          [] OTHER           -> Go(p, "open", goal)
     /\ UNCHANGED <<files, pending, running, adding, deleting, history>>

\* Bug: every status is written where the capture is queued.
DirOf_Queue(goal) == "inbox"

DirOf(goal) ==
  CASE goal = "processing" -> "inbox"
    [] goal = "compiled"   -> "processed"
    [] goal = "failed"     -> "failed"

\* Bug: the queue's file is unlinked before the copy is written.
MarkOpen_UnlinksFirst(p) ==
  /\ At(p, "open")
  /\ files' = [files EXCEPT !["inbox"][procs[p].id] = IF procs[p].goal = "processing" THEN "torn" ELSE "none"]
  /\ Go(p, "write", procs[p].goal)
  /\ UNCHANGED <<pending, running, adding, deleting, history>>

MarkOpen(p) ==
  /\ At(p, "open")
  /\ files' = [files EXCEPT ![DirOf(procs[p].goal)][procs[p].id] = "torn"]
  /\ Go(p, "write", procs[p].goal)
  /\ UNCHANGED <<pending, running, adding, deleting, history>>

\* A file that was unlinked while it was open is gone, whatever is written to it.
MarkWrite(p) ==
  LET goal == procs[p].goal
  IN /\ At(p, "write")
     /\ files' = [files EXCEPT ![DirOf(goal)][procs[p].id] = IF @ = "none" THEN @ ELSE goal]
     /\ IF goal = "processing" THEN Go(p, "compile", "none") ELSE Go(p, "unlink", goal)
     /\ UNCHANGED <<pending, running, adding, deleting, history>>

MarkUnlink(p) ==
  /\ At(p, "unlink")
  /\ files' = [files EXCEPT !["inbox"][procs[p].id] = "none"]
  /\ Done(p)
  /\ UNCHANGED <<pending, running, adding, deleting, history>>

\* The text is resolved, stored as a raw document and compiled: it fails before or after the
\* document was stored, or a page was written.
Compile(p) ==
  /\ At(p, "compile")
  /\ \/ Throw(p) /\ UNCHANGED ingested
     \/ /\ ingested' = [ingested EXCEPT ![procs[p].id] = @ + 1]
        /\ Throw(p) \/ Go(p, "read", "compiled")
  /\ UNCHANGED <<files, pending, running, adding, deleting, accepted, deleted, tries, crashes>>

ProcessStep(p) ==
  Look(p) \/ MarkRead(p) \/ MarkOpen(p) \/ MarkWrite(p) \/ MarkUnlink(p) \/ Compile(p)

\* The server restarts: the files stay as they are.
Crash ==
  /\ crashes < MaxCrashes /\ crashes' = crashes + 1
  /\ procs' = [p \in Procs |-> Idle]
  /\ pending' = [t \in Ticks |-> {}]
  /\ running' = FALSE
  /\ adding' = {}
  /\ deleting' = [e \in Ids |-> IF deleting[e] = 3 THEN 3 ELSE 0]
  /\ UNCHANGED <<files, accepted, deleted, tries, ingested>>

-----------------------------------------------------------------------------
Next ==
  \/ \E e \in Ids : AddOpen(e) \/ AddWrite(e) \/ Delete(e)
  \/ \E c \in Retries, e \in Ids : Retry(c, e)
  \/ \E t \in Ticks : Tick(t) \/ TickNext(t)
  \/ \E p \in Procs : ProcessStep(p)
  \/ Crash

\* The timer fires again and again, and every await ends: network calls have timeouts, and the
\* errors of all of them are caught.
Fairness ==
  /\ WF_vars(\E t \in Ticks : Tick(t) \/ TickNext(t) \/ ProcessStep(t))
  /\ \A c \in Retries : WF_vars(ProcessStep(c))

Spec == Init /\ [][Next]_vars /\ Fairness

-----------------------------------------------------------------------------
(* Properties *)

TypeOK ==
  /\ files \in [Dirs -> [Ids -> UNION {Contents[d] : d \in Dirs}]]
  /\ \A d \in Dirs, e \in Ids : files[d][e] \in Contents[d]
  /\ procs \in [Procs -> ProcRecord]
  /\ pending \in [Ticks -> SUBSET Ids] /\ running \in BOOLEAN
  /\ adding \subseteq Ids /\ deleting \in [Ids -> 0..3]
  /\ accepted \subseteq Ids /\ deleted \subseteq Ids
  /\ tries \in [Ids -> Nat] /\ ingested \in [Ids -> Nat]
  /\ crashes \in 0..MaxCrashes

Kept == accepted \ deleted

\* A capture that was accepted and not deleted is in some directory at every moment, and can be
\* read there except while its file is being written or after a restart in the middle of that.
NothingLost ==
  \A e \in Kept :
    /\ \E d \in Dirs : files[d][e] # "none"
    /\ crashes = 0 /\ (\A p \in Procs : ~(At(p, "write") /\ procs[p].id = e))
         => \E d \in Dirs : files[d][e] \notin {"none", "torn"}

\* The worker and the retries store a capture's document at most once each: a tick never repeats
\* what an earlier tick or a restart has left half done.
IngestedOncePerRequest == \A e \in Kept : ingested[e] <= 1 + tries[e]

\* A capture that is queued is taken up, whatever happens to the others.
QueuedTakenUp == \A e \in Ids : Visible(e) = "queued" ~> Visible(e) # "queued"

-----------------------------------------------------------------------------
(* What the comments say and the code does not keep *)

AtWork(e) == \E p \in Procs : procs[p].id = e

\* capture-worker.ts: "The raw doc is preserved; user can retry from the inbox."  A capture nobody
\* is working on was compiled or can be taken up again.
RetryPossible ==
  \A e \in Kept : crashes = 0 /\ ~AtWork(e) => Visible(e) = "compiled" \/ MayProcess(Visible(e))
=============================================================================
