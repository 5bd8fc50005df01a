---------------------------- MODULE EmbeddingIndex ----------------------------
(***************************************************************************)
(* The embedding index of the vault server: embedding-indexer.ts and       *)
(* embedding-store.ts.  A sweep embeds every page whose text is not the    *)
(* one of the stored vector, indexOne does so for one page, at any time    *)
(* and also beside a sweep.  Between the reading of a text and the storing *)
(* of its vector lies the call of the embedding service.                   *)
(***************************************************************************)
EXTENDS Naturals, FiniteSets

CONSTANTS
  Slugs,       \* pages
  MaxText,     \* bound: versions of a page
  MaxFaults,   \* bound: failures of the embedding service other than HTTP 500
  SweepMs, MaxSweepMs,
  MaxReboots   \* bound: restarts

VARIABLES
  text,      \* page -> version of its text
  vector,    \* page -> version its stored vector was made of, 0 if there is none
  poisoned,  \* page -> version the service answered with HTTP 500, 0 if none
  refused,   \* history: page -> version the service answered last with HTTP 500
  embeds,    \* runs of embedIfStale: <<"sweep", page>> and <<"one", page>>
  sweep,     \* the timer: waiting for so long, or running; has this run a failure?
  interval,  \* how long to wait after a run with failures
  faults, reboots

embeddingVars == <<text, vector, poisoned, refused, embeds, sweep, interval, faults, reboots>>

Embeds == {"sweep", "one"} \X Slugs
Done == [pc |-> "idle", read |-> 0]
Started == [pc |-> "read", read |-> 0]
Running == [pc |-> "running", failed |-> FALSE, wait |-> 0]

EmbeddingInit ==
  /\ text = [p \in Slugs |-> 1] /\ vector = [p \in Slugs |-> 0] /\ poisoned = [p \in Slugs |-> 0]
  /\ refused = [p \in Slugs |-> 0]
  /\ embeds = [j \in Embeds |-> IF j[1] = "sweep" THEN Started ELSE Done]
  /\ sweep = Running /\ interval = SweepMs
  /\ faults = 0 /\ reboots = 0

At(j, pc) == embeds[j].pc = pc
To(j, pc) == embeds' = [embeds EXCEPT ![j].pc = pc]

-----------------------------------------------------------------------------
(* embedIfStale *)

UpToDate(p) == vector[p] = text[p]

\* The text is read; nothing is done for a stored or a poisoned one.
ReadText(j) ==
  LET p == j[2]
  IN /\ At(j, "read")
     /\ embeds' = [embeds EXCEPT ![j] = IF UpToDate(p) \/ poisoned[p] = text[p] THEN Done
                                        ELSE [pc |-> "embed", read |-> text[p]]]
     /\ UNCHANGED <<text, vector, poisoned, refused, sweep, interval, faults, reboots>>

\* A failure of a sweep's page is counted, one of indexOne is only logged.
EmbedFails(j) ==
  /\ embeds' = [embeds EXCEPT ![j] = Done]
  /\ sweep' = IF j[1] = "sweep" THEN [sweep EXCEPT !.failed = TRUE] ELSE sweep

\* Bug: the text is remembered as poisoned after any failure.
Poisonous_Always(status) == TRUE

\* HTTP 500 is about this text, everything else may pass.
Poisonous(status) == status = 500

Embedded(j) ==
  /\ At(j, "embed")
  /\ \/ /\ poisoned' = [poisoned EXCEPT ![j[2]] = 0] /\ To(j, "store")
        /\ UNCHANGED <<refused, sweep, faults>>
     \/ \E status \in {500, 503} :
          /\ poisoned' = IF Poisonous(status) THEN [poisoned EXCEPT ![j[2]] = embeds[j].read] ELSE poisoned
          /\ refused' = IF status = 500 THEN [refused EXCEPT ![j[2]] = embeds[j].read] ELSE refused
          /\ status # 500 => faults < MaxFaults
          /\ faults' = IF status = 500 THEN faults ELSE faults + 1
          /\ EmbedFails(j)
  /\ UNCHANGED <<text, vector, interval, reboots>>

\* The vector is stored under the hash of the text that was read.
StoreVector(j) ==
  /\ At(j, "store")
  /\ vector' = [vector EXCEPT ![j[2]] = embeds[j].read]
  /\ embeds' = [embeds EXCEPT ![j] = Done]
  /\ UNCHANGED <<text, poisoned, refused, sweep, interval, faults, reboots>>

-----------------------------------------------------------------------------
(* Sweeps and single pages *)

Smaller(a, b) == IF a < b THEN a ELSE b

\* Bug: after a run with failures no timer is set.
NextSweep_NotAfterFailure == IF sweep.failed THEN [sweep EXCEPT !.pc = "off"]
                             ELSE [sweep EXCEPT !.pc = "waiting", !.wait = SweepMs]

NextSweep == [sweep EXCEPT !.pc = "waiting", !.wait = IF sweep.failed THEN interval ELSE SweepMs]

\* The end of run: a failure doubles the interval of the next one, up to the limit.
SweepEnds ==
  /\ sweep.pc = "running" /\ \A p \in Slugs : At(<<"sweep", p>>, "idle")
  /\ sweep' = NextSweep
  /\ interval' = IF sweep.failed THEN Smaller(2 * interval, MaxSweepMs) ELSE SweepMs
  /\ UNCHANGED <<text, vector, poisoned, refused, embeds, faults, reboots>>

\* indexAll, all pages of the batch at once.
SweepStarts ==
  /\ sweep.pc = "waiting"
  /\ sweep' = Running
  /\ embeds' = [j \in Embeds |-> IF j[1] = "sweep" THEN Started ELSE embeds[j]]
  /\ UNCHANGED <<text, vector, poisoned, refused, interval, faults, reboots>>

IndexOne(p) ==
  /\ At(<<"one", p>>, "idle")
  /\ embeds' = [embeds EXCEPT ![<<"one", p>>] = Started]
  /\ UNCHANGED <<text, vector, poisoned, refused, sweep, interval, faults, reboots>>

\* A page is written, here or by the MCP server.
WritePage(p) ==
  /\ text[p] < MaxText /\ text' = [text EXCEPT ![p] = @ + 1]
  /\ UNCHANGED <<vector, poisoned, refused, embeds, sweep, interval, faults, reboots>>

\* The server restarts and sweeps at once; the vectors are files.
Reboot ==
  /\ reboots < MaxReboots /\ reboots' = reboots + 1
  /\ poisoned' = [p \in Slugs |-> 0] /\ sweep' = Running /\ interval' = SweepMs
  /\ embeds' = [j \in Embeds |-> IF j[1] = "sweep" THEN Started ELSE Done]
  /\ UNCHANGED <<text, vector, refused, faults>>

EmbeddingStep(j) == ReadText(j) \/ Embedded(j) \/ StoreVector(j)

EmbeddingNext ==
  \/ \E j \in Embeds : EmbeddingStep(j)
  \/ SweepEnds \/ SweepStarts \/ Reboot
  \/ \E p \in Slugs : IndexOne(p) \/ WritePage(p)

\* Every await ends, timers fire: not indexOne, nobody need call it.
SweepStep == SweepEnds \/ SweepStarts

-----------------------------------------------------------------------------
EmbeddingTypeOK ==
  /\ text \in [Slugs -> 1..MaxText] /\ vector \in [Slugs -> 0..MaxText]
  /\ poisoned \in [Slugs -> 0..MaxText] /\ refused \in [Slugs -> 0..MaxText]
  /\ embeds \in [Embeds -> [pc : {"idle", "read", "embed", "store"}, read : 0..MaxText]]
  /\ sweep \in [pc : {"waiting", "running"}, failed : BOOLEAN, wait : 0..MaxSweepMs]
  /\ interval \in SweepMs..MaxSweepMs
  /\ faults \in 0..MaxFaults /\ reboots \in 0..MaxReboots

\* When pages and service have come to rest, every page has the vector of its newest text, in
\* whatever order older ones were stored, or the service cannot embed that very text.  Sweeps alone
\* bring this about.
NewestStays(p) == <>[](vector[p] = text[p] \/ (poisoned[p] = text[p] /\ refused[p] = text[p]))
=============================================================================
