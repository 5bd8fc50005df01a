--------------------------- MODULE MCVaultWorkers ---------------------------
(***************************************************************************)
(* The background workers of the vault server that read, wait for another  *)
(* service and write: feeds, syntheses and the embedding index.  They      *)
(* share no state, so that one of them, "part", is at work in each         *)
(* behaviour and the others rest.                                          *)
(*                                                                         *)
(* A feed with an old and a new item that remembers one of them, its timer *)
(* and a poll on request; a page and two topics, two ticks, a writer and a *)
(* request; a page with three versions and a service that fails thrice.    *)
(***************************************************************************)
EXTENDS Feeds

VARIABLES
  part,
  page, cached, index, stale, jobs, inflight, excused,
  text, vector, poisoned, refused, embeds, sweep, interval, faults, reboots

Synthesis == INSTANCE SynthesisCache WITH
  Pages <- {"page"}, Topics <- {"t", "u"}, Timers <- {"tick1", "tick2"}, Writers <- {"writer"},
  Asker <- "ask", MaxVersion <- 2

Embedding == INSTANCE EmbeddingIndex WITH
  Slugs <- {"page"}, MaxText <- 3, MaxFaults <- 3, SweepMs <- 1, MaxSweepMs <- 4, MaxReboots <- 1

synthesisVars == <<page, cached, index, stale, jobs, inflight, excused>>
embeddingVars == <<text, vector, poisoned, refused, embeds, sweep, interval, faults, reboots>>
vars == <<part, feedsVars, synthesisVars, embeddingVars>>

\* A step of one part.
Feeding(step) == part = "feeds" /\ step /\ UNCHANGED <<part, synthesisVars, embeddingVars>>
Synthesizing(step) == part = "syntheses" /\ step /\ UNCHANGED <<part, feedsVars, embeddingVars>>
Indexing(step) == part = "embeddings" /\ step /\ UNCHANGED <<part, feedsVars, synthesisVars>>

WorkersInit ==
  /\ part \in {"feeds", "syntheses", "embeddings"}
  /\ FeedsInit /\ Synthesis!SynthesisInit /\ Embedding!EmbeddingInit

WorkersNext ==
  \/ Feeding(FeedsNext)
  \/ Synthesizing(Synthesis!SynthesisNext)
  \/ Indexing(Embedding!EmbeddingNext)

\* The fairness of each part, for the behaviours in which it is at work; polls on request may hang.
WorkersFairness ==
  /\ WF_vars(Feeding(FeedTick)) /\ SF_vars(Feeding(Answered(Timer)))
  /\ WF_vars(Feeding(FeedsWork(Timer)))
  /\ \A j \in {"tick1", "tick2"} : WF_vars(Synthesizing(Synthesis!SynthesisStep(j)))
  /\ WF_vars(Synthesizing(Synthesis!MarkStep("writer")))
  /\ WF_vars(Indexing(Embedding!SweepStep))
  /\ \A j \in {"sweep", "one"} : WF_vars(Indexing(Embedding!EmbeddingStep(<<j, "page">>)))

WorkersSpec == WorkersInit /\ [][WorkersNext]_vars /\ WorkersFairness

\* Types of the variables of all three: what the files and the workers of rss-worker.ts,
\* synthesis-worker.ts and embedding-indexer.ts hold.
WorkersTypeOK == FeedsTypeOK /\ Synthesis!SynthesisTypeOK /\ Embedding!EmbeddingTypeOK

\* Feeds: a new item that a subscribed feed lists arrives, unless it failed.
ItemsArrive == part = "feeds" => \A i \in Items \ OldItems : Arrives(i)

\* Syntheses: a stale topic is rebuilt, unless its run failed or its mark met a race:
\* "u", which stands behind "t" wherever both are marked at once.
TopicsRebuilt == part = "syntheses" => Synthesis!Rebuilt("u")

\* Embeddings: the vector of the newest text is the one that stays, in whatever order older
\* vectors were stored.
NewestVectorStays == part = "embeddings" => Embedding!NewestStays("page")
=============================================================================
