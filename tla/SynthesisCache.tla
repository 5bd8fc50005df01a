---------------------------- MODULE SynthesisCache ----------------------------
(***************************************************************************)
(* The cached syntheses of the vault server: the files of                  *)
(* synthesis-cache.ts, the worker that rebuilds stale ones                 *)
(* (synthesis-worker.ts) and the two callers of runSynthesis, the worker   *)
(* and POST /api/synthesize.                                               *)
(*                                                                         *)
(* The list of stale topics and the reverse index are files that are read, *)
(* changed after an await and written back whole, each with a writeFile    *)
(* that empties the file first.  Whoever reads one while another is        *)
(* between its read and the end of its write loses a change, or finds the  *)
(* file empty; two writes that overlap may leave neither content.  The     *)
(* marks lost that way, and the pages that change without a mark, are      *)
(* remembered in "excused"; all others must work.                          *)
(***************************************************************************)
EXTENDS Naturals, Sequences, SequencesExt

CONSTANTS
  Pages,        \* slugs
  Topics,       \* topic keys
  Timers,       \* places for ticks of the worker
  Writers,      \* what changes pages: compilations, captures, notes that are saved
  Asker,        \* a POST /api/synthesize with force
  MaxVersion    \* bound: changes of a page

VARIABLES
  page,      \* page -> number of its version
  cached,    \* topic -> the version of each page its synthesis was made from, 0 if not cited
  index,     \* .reverse-index.json: page -> topics
  stale,     \* .stale, in the order of its lines
  jobs,      \* calls in flight
  inflight,  \* the worker's flag
  excused    \* history: topics whose mark was not made, or met a failed run or a race

synthesisVars == <<page, cached, index, stale, jobs, inflight, excused>>

Runs == Timers \cup {Asker}
NoTopic == "none"
Resting == [pc |-> "idle", topic |-> NoTopic, read |-> [p \in Pages |-> 0], list |-> <<>>, slug |-> NoTopic]

SynthesisInit ==
  /\ page = [p \in Pages |-> 1]
  /\ cached = [t \in Topics |-> [p \in Pages |-> 1]]
  /\ index = [p \in Pages |-> Topics]
  /\ stale = <<>> /\ inflight = FALSE /\ excused = {}
  /\ jobs = [j \in Runs \cup Writers |-> Resting]

At(j, pc) == jobs[j].pc = pc
To(j, pc) == jobs' = [jobs EXCEPT ![j] = [Resting EXCEPT !.pc = pc, !.topic = jobs[j].topic]]
Back(j) == jobs' = [jobs EXCEPT ![j] = Resting]

Outdated(t) == \E p \in Pages : cached[t][p] < page[p]

-----------------------------------------------------------------------------
(* markStaleFor *)

\* The write of the list may have begun: who reads it then finds it empty or whole.
WritingList(j) == At(j, "markWrite") \/ At(j, "clearWrite")
ListReads == {stale} \cup {<<>> : j \in {k \in DOMAIN jobs : WritingList(k)}}

\* Excused: what the list did not hold when it was read, and what the caller names.  When writes
\* overlap the file may keep the other list, or neither: all topics are excused.
WriteList(j, list, missed) ==
  \/ stale' = list /\ excused' = excused \cup missed \cup (ToSet(stale) \ ToSet(jobs[j].list))
  \/ /\ \E k \in DOMAIN jobs \ {j} : WritingList(k)
     /\ stale' = <<>> /\ excused' = Topics

\* A page changes.  Only POST /api/ingest/stream marks what cites it, when its compilation has
\* ended well; captures, POST /api/compile/stream and a note that is saved do not.  Excused: the
\* topics that cite the page, and will when their run ends.
Change(w, p) ==
  /\ At(w, "idle") /\ page[p] < MaxVersion
  /\ page' = [page EXCEPT ![p] = @ + 1]
  /\ \/ /\ jobs' = [jobs EXCEPT ![w] = [Resting EXCEPT !.pc = "markIndex", !.slug = p]]
        /\ UNCHANGED excused
     \/ /\ excused' = excused \cup {t \in Topics : cached[t][p] # 0} \cup {jobs[j].topic : j \in {k \in Runs : At(k, "llm")}}
        /\ UNCHANGED jobs
  /\ UNCHANGED <<cached, index, stale, inflight>>

\* Nothing cites the page, or the list is read; an index that is being written does not parse, and
\* the mark is dropped.  Excused: a synthesis that was written and is not in the reverse index yet,
\* and what a dropped mark was for.
MarkRead(w) ==
  LET citing     == index[jobs[w].slug]
      reindexing == {j \in Runs : At(j, "reindex")}
      unindexed  == {jobs[j].topic : j \in reindexing}
  IN /\ At(w, "markIndex")
     /\ \/ citing = {} /\ Back(w) /\ excused' = excused \cup unindexed
        \/ /\ citing # {} /\ excused' = excused \cup unindexed
           /\ \E list \in ListReads : jobs' = [jobs EXCEPT ![w].pc = "markWrite", ![w].list = list]
        \/ reindexing # {} /\ Back(w) /\ excused' = excused \cup unindexed \cup citing
     /\ UNCHANGED <<page, cached, index, stale, inflight>>

\* The new keys behind the ones that were there.
Marked(w) == jobs[w].list \o SetToSeq(index[jobs[w].slug] \ ToSet(jobs[w].list))

MarkWrite(w) ==
  /\ At(w, "markWrite")
  /\ WriteList(w, Marked(w), {}) /\ Back(w)
  /\ UNCHANGED <<page, cached, index, inflight>>

-----------------------------------------------------------------------------
(* The worker and the route *)

\* tick: the flag is looked at before the list is read, and raised after.
SynthesisTick(j) ==
  /\ j \in Timers /\ At(j, "idle") /\ ~inflight
  /\ \E list \in ListReads : jobs' = [jobs EXCEPT ![j].pc = "decide", ![j].list = list]
  /\ UNCHANGED <<page, cached, index, stale, inflight, excused>>

Chosen(list) == Head(list)

Decide(j) ==
  /\ At(j, "decide")
  /\ IF jobs[j].list = <<>> THEN Back(j) /\ UNCHANGED inflight
     ELSE /\ jobs' = [jobs EXCEPT ![j] = [Resting EXCEPT !.pc = "run", !.topic = Chosen(jobs[j].list)]]
          /\ inflight' = TRUE
  /\ UNCHANGED <<page, cached, index, stale, excused>>

Synthesize(t) ==
  /\ At(Asker, "idle")
  /\ jobs' = [jobs EXCEPT ![Asker].pc = "run", ![Asker].topic = t]
  /\ UNCHANGED <<page, cached, index, stale, inflight, excused>>

\* runSynthesis: the pages are read, the answer comes later.
ReadPages(j) ==
  /\ At(j, "run")
  /\ jobs' = [jobs EXCEPT ![j].pc = "llm", ![j].read = page]
  /\ UNCHANGED <<page, cached, index, stale, inflight, excused>>

\* An error, an answer that does not parse (the synthesis then cites nothing), or a synthesis.
\* Excused: the failures, and an answer that is older than the one it replaces.
LlmAnswers(j) ==
  LET t == jobs[j].topic
      uncited == [p \in Pages |-> 0]
  IN /\ At(j, "llm")
     /\ \/ /\ (IF j \in Timers THEN To(j, "clear") ELSE Back(j)) /\ UNCHANGED cached
           /\ excused' = excused \cup {t}
        \/ /\ cached' = [cached EXCEPT ![t] = uncited] /\ To(j, "reindex")
           /\ excused' = excused \cup {t}
        \/ /\ cached' = [cached EXCEPT ![t] = jobs[j].read] /\ To(j, "reindex")
           /\ excused' = IF \E p \in Pages : jobs[j].read[p] < cached[t][p] THEN excused \cup {t} ELSE excused
     /\ UNCHANGED <<page, index, stale, inflight>>

\* rebuildReverseIndex, from all files.  Two that overlap may leave an index that does not parse,
\* until the next one: as one in which nothing cites a page, and all topics are excused.
Reindex(j) ==
  /\ At(j, "reindex")
  /\ \/ index' = [p \in Pages |-> {t \in Topics : cached[t][p] # 0}] /\ UNCHANGED excused
     \/ /\ \E k \in Runs \ {j} : At(k, "reindex")
        /\ index' = [p \in Pages |-> {}] /\ excused' = Topics
  /\ IF j \in Timers THEN To(j, "clear") ELSE Back(j)
  /\ UNCHANGED <<page, cached, stale, inflight>>

ClearRead(j) ==
  /\ At(j, "clear")
  /\ \E list \in ListReads : jobs' = [jobs EXCEPT ![j].pc = "clearWrite", ![j].list = list]
  /\ UNCHANGED <<page, cached, index, stale, inflight, excused>>

\* Bug: the whole list is cleared.
Cleared_All(j) == <<>>

Cleared(j) == SelectSeq(jobs[j].list, LAMBDA t : t # jobs[j].topic)

\* Missed: a mark of this topic for a page that changed after the run had read it.
ClearWrite(j) ==
  /\ At(j, "clearWrite") /\ inflight' = FALSE
  /\ WriteList(j, Cleared(j), {t \in {jobs[j].topic} : Outdated(t)}) /\ Back(j)
  /\ UNCHANGED <<page, cached, index>>

-----------------------------------------------------------------------------
\* The timer of the worker fires every five seconds, and every await ends.
SynthesisStep(j) ==
  \/ SynthesisTick(j) \/ Decide(j) \/ ReadPages(j) \/ LlmAnswers(j) \/ Reindex(j)
  \/ ClearRead(j) \/ ClearWrite(j)

SynthesisNext ==
  \/ \E w \in Writers : MarkRead(w) \/ MarkWrite(w) \/ \E p \in Pages : Change(w, p)
  \/ \E j \in Runs : SynthesisStep(j)
  \/ \E t \in Topics : Synthesize(t)

\* Every await ends.
MarkStep(w) == MarkRead(w) \/ MarkWrite(w)

-----------------------------------------------------------------------------
SynthesisTypeOK ==
  /\ page \in [Pages -> 1..MaxVersion]
  /\ cached \in [Topics -> [Pages -> 0..MaxVersion]]
  /\ index \in [Pages -> SUBSET Topics] /\ ToSet(stale) \subseteq Topics
  /\ inflight \in BOOLEAN /\ excused \subseteq Topics
  /\ \A j \in Runs \cup Writers :
       /\ jobs[j].pc \in {"idle", "markIndex", "markWrite", "decide", "run", "llm", "reindex", "clear", "clearWrite"}
       /\ jobs[j].topic \in Topics \cup {NoTopic} /\ jobs[j].read \in [Pages -> 0..MaxVersion]

\* A topic whose synthesis cites an older version of a page is rebuilt from the newest, unless the
\* change was not marked, its run failed or its mark met one of the races named above.
Rebuilt(t) == Outdated(t) ~> ~Outdated(t) \/ t \in excused
=============================================================================
