----------------------------- MODULE EmbedQueue -----------------------------
(***************************************************************************)
(* The scheduler of the shared embedding service (service.ts of embed):    *)
(* a queue per vault, a rotation of the vaults that wait, one text at a    *)
(* time, short requests first, and every BulkEvery-th text for bulk.       *)
(*                                                                         *)
(* JavaScript runs a handler to its next await, so each handler is one     *)
(* step; the pump is cut where it awaits the inference ("infer") and the   *)
(* setImmediate before it picks again ("pick").  Authentication, parsing,  *)
(* the rate bucket and the token budget come before the queue and only     *)
(* refuse: they are not modelled here.                                     *)
(***************************************************************************)
EXTENDS Naturals, Sequences, FiniteSets, SequencesExt

CONSTANTS
  Vaults, NoVault,
  Requests, NoRequest,  \* identities for requests, used again when a request is over
  MaxTexts,             \* texts per request
  MaxPendingPerVault, MaxQueue, BulkEvery

ASSUME EmbedAssumption ==
  /\ NoVault \notin Vaults /\ NoRequest \notin Requests
  /\ {MaxTexts, MaxPendingPerVault, MaxQueue, BulkEvery} \subseteq Nat \ {0}

VARIABLES
  job,       \* Requests -> what is known of the request
  queues,    \* vault -> its requests, oldest first
  rotation,  \* vaults with requests, in the order they are served; not the current one
  current,   \* vault whose text is in the model
  running,   \* request whose text is in the model
  pump,      \* idle, start (in enqueue), pick (after the setImmediate) or infer (awaiting the model)
  total,     \* requests in all queues
  streak,    \* priority texts in a row
  row        \* history: priority texts in a row while a bulk request waited

vars == <<job, queues, rotation, current, running, pump, total, streak, row>>

NoJob == [vault |-> NoVault, priority |-> FALSE, left |-> 0, started |-> FALSE, cancelled |-> FALSE]
Job == [vault : Vaults, priority : BOOLEAN, left : 1..MaxTexts, started : BOOLEAN, cancelled : BOOLEAN]

Init ==
  /\ job = [r \in Requests |-> NoJob]
  /\ queues = [v \in Vaults |-> <<>>]
  /\ rotation = <<>>
  /\ current = NoVault /\ running = NoRequest /\ pump = "idle"
  /\ total = 0 /\ streak = 0 /\ row = 0

Live(r, priority) == job[r].priority = priority /\ ~job[r].cancelled

HasLive(v, priority) == \E i \in DOMAIN queues[v] : Live(queues[v][i], priority)

-----------------------------------------------------------------------------
\* Bug: the vault stays in the rotation after its last request.
Dropped_StaysInRotation(r, q, rot) ==
  LET v == job[r].vault
  IN [queues |-> [q EXCEPT ![v] = RemoveFirst(@, r)], rotation |-> rot]

\* remove(): the request leaves its queue, an empty queue leaves the rotation.
Dropped(r, q, rot) ==
  LET v    == job[r].vault
      rest == RemoveFirst(q[v], r)
  IN [queues |-> [q EXCEPT ![v] = rest], rotation |-> IF rest = <<>> THEN RemoveFirst(rot, v) ELSE rot]

\* Bug: the vault that was served goes to the front.
Rotated_ToTheFront(v, q, rot) == IF q[v] # <<>> THEN <<v>> \o rot ELSE rot

\* The vault that was served goes to the end when it still has requests.
Rotated(v, q, rot) == IF q[v] # <<>> /\ ~Contains(rot, v) THEN Append(rot, v) ELSE rot

-----------------------------------------------------------------------------
(* nextJob *)

BulkWaits == \E i \in DOMAIN rotation : HasLive(rotation[i], FALSE)

\* Bug: the streak is compared with the number after it.
BulkTurn_TooLate == BulkWaits /\ streak > BulkEvery + 1

BulkTurn == BulkWaits /\ streak >= BulkEvery

\* The first request of a vault that a pass would take, NoRequest if there is none.
FirstLive(v, priority) ==
  LET i == SelectInSeq(queues[v], LAMBDA r : Live(r, priority))
  IN IF i = 0 THEN NoRequest ELSE queues[v][i]

\* The first vault in turn with a priority request; on a bulk turn the first with a bulk
\* request; otherwise whatever is first.
Candidate(v) ==
  IF BulkTurn THEN FirstLive(v, FALSE)
  ELSE IF \E i \in DOMAIN rotation : HasLive(rotation[i], TRUE) THEN FirstLive(v, TRUE)
  ELSE queues[v][1]

Turn == SelectInSeq(rotation, LAMBDA v : Candidate(v) # NoRequest)

\* A request nobody waits for is cleared away.
Clear(v, r, rot) ==
  LET done == Dropped(r, queues, rot)
  IN /\ job' = [job EXCEPT ![r] = NoJob]
     /\ queues' = done.queues
     /\ rotation' = Rotated(v, done.queues, done.rotation)
     /\ total' = total - 1
     /\ pump' = "pick"
     /\ UNCHANGED <<current, running>>

\* The next text of a request goes to the model.
Infer(v, r, rot) ==
  /\ job' = [job EXCEPT ![r].started = TRUE]
  /\ rotation' = rot
  /\ current' = v /\ running' = r /\ pump' = "infer"
  /\ UNCHANGED <<queues, total>>

\* One round of the pump's loop up to its next await.  The streak is only compared with
\* BulkEvery, and stops there.
Take(i, r) ==
  /\ streak' = IF ~job[r].priority THEN 0 ELSE IF streak < BulkEvery THEN streak + 1 ELSE streak
  /\ row' = IF ~job[r].priority \/ ~BulkWaits THEN 0 ELSE IF row <= BulkEvery THEN row + 1 ELSE row
  /\ IF job[r].cancelled THEN Clear(rotation[i], r, RemoveAt(rotation, i))
     ELSE Infer(rotation[i], r, RemoveAt(rotation, i))

Pick ==
  /\ pump \in {"start", "pick"}
  /\ \/ /\ Turn = 0
        /\ pump' = "idle"
        /\ UNCHANGED <<job, queues, rotation, current, running, total, streak, row>>
     \/ \E i \in {Turn} \ {0} : Take(i, Candidate(rotation[i]))

\* Bug: a request stays queued when its last text was embedded.
Over_NotWhenAnswered(failed) == failed \/ job[running].cancelled

\* No more texts of the running request: it failed, is answered, or nobody waits for it.
Over(failed) == failed \/ job[running].left = 1 \/ job[running].cancelled

\* The model answered, failed, or did not finish in time: the request goes on, is answered, or
\* is over; the vault goes to the end of the rotation.
Inferred ==
  /\ pump = "infer"
  /\ \E over \in {Over(failed) : failed \in BOOLEAN} :
       LET done == IF over THEN Dropped(running, queues, rotation)
                   ELSE [queues |-> queues, rotation |-> rotation]
       IN /\ job' = IF over THEN [job EXCEPT ![running] = NoJob] ELSE [job EXCEPT ![running].left = @ - 1]
          /\ queues' = done.queues
          /\ total' = IF over THEN total - 1 ELSE total
          /\ rotation' = Rotated(current, queues', done.rotation)
  /\ current' = NoVault /\ running' = NoRequest /\ pump' = "pick"
  /\ UNCHANGED <<streak, row>>

-----------------------------------------------------------------------------
(* Requests *)

\* Bug: the running vault's queue is not counted.
Admitted_CapOffByOne(v) == Len(queues[v]) <= MaxPendingPerVault /\ total < MaxQueue

\* The caps of handleEmbed; a request over them is refused and changes nothing.
Admitted(v) == Len(queues[v]) < MaxPendingPerVault /\ total < MaxQueue

Woken == IF pump = "idle" THEN "start" ELSE pump

\* A pump that was just started picks before any other handler runs.
Interruptible == pump # "start"

\* handleEmbed and enqueue: no await between the caps and the queue.
Enqueue(r, v) ==
  /\ Interruptible
  /\ job[r] = NoJob /\ Admitted(v)
  /\ \E priority \in BOOLEAN, n \in 1..MaxTexts :
       job' = [job EXCEPT ![r] = [NoJob EXCEPT !.vault = v, !.priority = priority, !.left = n]]
  /\ queues' = [queues EXCEPT ![v] = Append(@, r)]
  /\ total' = total + 1
  /\ rotation' = IF current # v /\ ~Contains(rotation, v) THEN Append(rotation, v) ELSE rotation
  /\ pump' = Woken
  /\ UNCHANGED <<current, running, streak, row>>

Gone(r) ==
  LET done == Dropped(r, queues, rotation)
  IN /\ job' = [job EXCEPT ![r] = NoJob]
     /\ queues' = done.queues /\ rotation' = done.rotation
     /\ total' = total - 1

Waiting(r) == job[r] # NoJob /\ ~job[r].cancelled

\* The queue timer: a request that was not started is answered busy and dropped.
QueueTimeout(r) ==
  /\ Interruptible /\ Waiting(r) /\ ~job[r].started
  /\ Gone(r)
  /\ UNCHANGED <<current, running, pump, streak, row>>

\* The client went away.  A request that was started is only marked while a text of its vault
\* is in the model, whichever request that text belongs to.
ClientGone(r) ==
  /\ Interruptible /\ Waiting(r)
  /\ IF ~job[r].started \/ current # job[r].vault THEN Gone(r)
     ELSE /\ job' = [job EXCEPT ![r].cancelled = TRUE]
          /\ UNCHANGED <<queues, rotation, total>>
  /\ UNCHANGED <<current, running, pump, streak, row>>

-----------------------------------------------------------------------------
\* Everything but a pick.
Other ==
  \/ Inferred
  \/ \E r \in Requests : \/ \E v \in Vaults : Enqueue(r, v)
                         \/ QueueTimeout(r)
                         \/ ClientGone(r)

Next == Pick \/ Other

\* The event loop runs the pump's continuation, and an inference ends by its result or its timer.
\* The timer of a request is left out on purpose: a request must be served without being given up.
Spec == Init /\ [][Next]_vars /\ WF_vars(Pick \/ Inferred)

-----------------------------------------------------------------------------
(* Properties *)

TypeOK ==
  /\ job \in [Requests -> Job \cup {NoJob}]
  /\ queues \in [Vaults -> Seq(Requests)]
  /\ rotation \in Seq(Vaults)
  /\ current \in Vaults \cup {NoVault} /\ running \in Requests \cup {NoRequest}
  /\ pump \in {"idle", "start", "pick", "infer"}
  /\ total \in Nat /\ streak \in 0..BulkEvery /\ row \in 0..BulkEvery + 1

\* The rotation holds exactly the vaults with requests, each once, the one in the model apart; the
\* running request is in its queue, every request is in one queue, once, and the pump sleeps only
\* when nothing is queued: no wake-up is lost between the end of its loop and an arrival (remove,
\* pump, enqueue).
RotationMatchesQueues ==
  /\ \A i, j \in DOMAIN rotation : rotation[i] = rotation[j] => i = j
  /\ ToSet(rotation) = {v \in Vaults : queues[v] # <<>>} \ {current}
  /\ \A v \in Vaults : \A r \in Requests :
       Cardinality({i \in DOMAIN queues[v] : queues[v][i] = r}) = (IF job[r].vault = v THEN 1 ELSE 0)
  /\ pump = "infer" <=> running # NoRequest
  /\ running # NoRequest => job[running].vault = current
  /\ pump = "idle" => total = 0

\* The caps hold, and the counter they are checked against is the real number (handleEmbed).
CapsHold ==
  /\ total = Cardinality({r \in Requests : job[r] # NoJob})
  /\ total <= MaxQueue
  /\ \A v \in Vaults : Len(queues[v]) <= MaxPendingPerVault

\* Both: queues, rotation, counter and caps agree.
QueuesConsistent == RotationMatchesQueues /\ CapsHold

\* "Every bulkEvery-th text goes to bulk when bulk is waiting": short requests never keep all bulk
\* requests waiting for more than BulkEvery texts in a row (nextJob).
BulkIsServed == row <= BulkEvery

Searches(v) == v # NoVault /\ HasLive(v, TRUE)

\* A request is answered or given up whatever the other vaults send (nextJob, pump); one of bulk
\* as long as its own vault is not searching at the same time.
RequestsAnswered ==
  \A r \in Requests :
    Waiting(r) ~> ~Waiting(r) \/ (~job[r].priority /\ Searches(job[r].vault))
=============================================================================
