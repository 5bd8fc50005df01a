-------------------------------- MODULE Feeds --------------------------------
(***************************************************************************)
(* One subscribed feed of the vault server: the store of feeds             *)
(* (feeds/store.ts), the worker that polls it (rss-worker.ts), the routes  *)
(* that change it and the window of recent keys of Inbox.add.              *)
(*                                                                         *)
(* A poll copies the seen items when the answer of the feed's server has   *)
(* arrived, works through the items with an await at each, and marks what  *)
(* it has seen at the end.  The timer's poll has a flag against itself, a  *)
(* poll on request has none: two polls overlap freely.                     *)
(*                                                                         *)
(* Every mark and every change writes feeds.json whole, with a writeFile   *)
(* that empties it first.  "file" is the set of what a reader may find in  *)
(* it: more than one content after two writes that overlapped.             *)
(***************************************************************************)
EXTENDS Naturals, FiniteSets, Sequences, SequencesExt

CONSTANTS
  Items,       \* items the feed will ever have
  OldItems,    \* those that are older than the subscription
  Timer,       \* the poll of the interval timer
  Requests,    \* polls on request: POST /api/feeds/:id/refresh
  Editor,      \* PUT and DELETE of /api/feeds/:id, one after the other
  MaxSeen,     \* how many seen items a feed remembers (200)
  MaxRestarts, \* bound: restarts in one behaviour
  MaxEdits     \* bound: changes of the subscription in one behaviour

ASSUME FeedsAssumption ==
  /\ IsFiniteSet(Items) /\ OldItems \subseteq Items /\ Timer \notin Requests
  /\ Editor \notin Requests \cup {Timer}
  /\ MaxSeen \in Nat /\ MaxRestarts \in Nat /\ MaxEdits \in Nat

VARIABLES
  feed,        \* the subscription in memory: is it known, enabled, its etag, its seen items
  file,        \* feeds.json: the contents that a reader may find
  writing,     \* writes of it in flight: writer -> what the file may be when the write has ended
  listed,      \* the feed's server: items it lists, in the number of its version
  polls,       \* the polls in flight
  polling,     \* the flag "running" of tick
  recent,      \* Inbox.recentKeys: items added within the window of five minutes
  taken,       \* history: counted item -> captures made of it in this life of the server, 2 for more
  forgotten,   \* history: items that fell out of the seen ones
  arrived,     \* history: newer items that became a capture, or whose text or whose capture failed
  overlapped,  \* history: two polls have been in flight at once
  outlasted,   \* history: the window of an item has ended while a poll was at work with an older copy
  wanted,      \* history: the last change left the feed subscribed and enabled
  requested,   \* polls on request that were begun, each once
  restarts, edits

feedsVars == <<feed, file, writing, listed, polls, polling, recent, taken, forgotten, arrived, overlapped,
               outlasted, wanted, requested, restarts, edits>>

Polls == {Timer} \cup Requests
Writers == Polls \cup {Editor}

\* The version of the feed's contents, which is what its etag stands for; 0 is no etag.
Version == Cardinality(listed)

NotPolling == [pc |-> "idle", asked |-> 0, got |-> 0, todo |-> {}, seen |-> {}, new |-> <<>>]

FeedsInit ==
  /\ feed = [known |-> TRUE, enabled |-> TRUE, etag |-> 0, seen |-> <<>>]
  /\ file = {feed} /\ writing = [w \in Writers |-> {}]
  /\ listed = OldItems
  /\ polls = [p \in Polls |-> NotPolling] /\ polling = FALSE
  /\ recent = {} /\ taken = [i \in Items |-> 0] /\ forgotten = {} /\ arrived = {}
  /\ overlapped = FALSE /\ outlasted = FALSE /\ wanted = TRUE /\ requested = {} /\ restarts = 0 /\ edits = 0

PollAt(p, pc) == polls[p].pc = pc

\* The captures of these items are counted; the others are what ItemsOnce makes an exception of.
Counted(i) == i \notin forgotten /\ ~(overlapped /\ outlasted)

Recount == taken' = [i \in Items |-> IF Counted(i)' THEN taken[i] ELSE 0]

-----------------------------------------------------------------------------
(* The store of feeds *)

\* Bug: the etag is that of the moment, not that of the answer that was worked through.
Etag_OfNow(p) == Version

Etag(p) == polls[p].got

\* The newest entries of the list stay.
Newest(list) == IF Len(list) <= MaxSeen THEN list ELSE SubSeq(list, Len(list) - MaxSeen + 1, Len(list))

\* A file that does not parse: list() throws, so that nobody finds a feed.
Torn == [known |-> FALSE, enabled |-> FALSE, etag |-> 0, seen |-> <<>>]

InFlight == UNION {writing[w] : w \in Writers}

\* What a restart finds: what was there, or a write in flight that is complete, or a part of it.
Readable == file \cup InFlight \cup IF InFlight = {} THEN {} ELSE {Torn}

\* save: the list in memory changes at once and is written as it is now.  Of writes that overlap
\* either content may stay, or one with the end of another behind it.
Save(w, content) ==
  LET outcome == {content} \cup IF InFlight = {} THEN {} ELSE InFlight \cup {Torn}
  IN /\ feed' = content
     /\ writing' = [v \in Writers |-> IF v = w \/ writing[v] # {} THEN outcome ELSE {}]
     /\ UNCHANGED file

Saved(w) ==
  /\ writing[w] # {}
  /\ file' = writing[w] /\ writing' = [writing EXCEPT ![w] = {}]

\* PUT and DELETE of /api/feeds/:id.
Edit ==
  /\ edits < MaxEdits /\ edits' = edits + 1 /\ feed.known /\ writing[Editor] = {}
  /\ \/ Save(Editor, [feed EXCEPT !.enabled = ~feed.enabled])
     \/ Save(Editor, [feed EXCEPT !.known = FALSE])
  /\ wanted' = (feed'.known /\ feed'.enabled)
  /\ UNCHANGED <<listed, polls, polling, recent, taken, forgotten, arrived, overlapped, outlasted, requested, restarts>>

EditSaved ==
  /\ Saved(Editor)
  /\ UNCHANGED <<feed, listed, polls, polling, recent, taken, forgotten, arrived, overlapped, outlasted, wanted,
                 requested, restarts, edits>>

-----------------------------------------------------------------------------
(* A poll *)

\* If-None-Match carries the etag of this moment.
Ask(p) ==
  /\ PollAt(p, "idle")
  /\ polls' = [polls EXCEPT ![p] = [NotPolling EXCEPT !.pc = "fetch", !.asked = feed.etag]]
  /\ overlapped' = (overlapped \/ \E q \in Polls : ~PollAt(q, "idle"))
  /\ UNCHANGED <<feed, file, writing, listed, recent, forgotten, arrived, outlasted, wanted, restarts>>
  /\ Recount

\* tick: disabled feeds are left out.
FeedTick == ~polling /\ polling' = TRUE /\ feed.known /\ feed.enabled /\ Ask(Timer) /\ UNCHANGED <<requested, edits>>

\* pollOne: the feed need not be enabled.
PollOne(p) ==
  /\ p \in Requests \ requested /\ requested' = requested \cup {p}
  /\ feed.known /\ Ask(p) /\ UNCHANGED <<polling, edits>>

\* The poll has returned.
Ended(p) ==
  /\ polls' = [polls EXCEPT ![p] = NotPolling]
  /\ polling' = IF p = Timer THEN FALSE ELSE polling

\* markPolled and markError: a feed that is gone is not marked.
Mark(p, content) ==
  IF feed.known
  THEN Save(p, content) /\ polls' = [polls EXCEPT ![p] = [NotPolling EXCEPT !.pc = "save"]] /\ UNCHANGED polling
  ELSE Ended(p) /\ UNCHANGED <<feed, file, writing>>

\* Not modified (which a server without etags never says), an error of any kind, or the contents.
\* The timer's poll marks an error, one on request does not.
Fetched(p) ==
  /\ PollAt(p, "fetch")
  /\ \/ (p = Timer \/ polls[p].asked = Version) /\ Mark(p, feed)
     \/ p # Timer /\ Ended(p) /\ UNCHANGED <<feed, file, writing>>
     \/ /\ polls' = [polls EXCEPT ![p] = [NotPolling EXCEPT !.pc = "items", !.got = Version, !.todo = listed,
                                                            !.seen = ToSet(feed.seen)]]
        /\ UNCHANGED <<feed, file, writing, polling>>
  /\ UNCHANGED <<listed, recent, taken, forgotten, arrived, overlapped, outlasted, wanted, requested, restarts, edits>>

\* The same without the errors: what a server that is up answers.
Answered(p) == Fetched(p) /\ (polls[p].asked = Version \/ polls'[p].pc = "items")

\* Bug: the seen items do not matter.
Skipped_Never(p, i) == FALSE

\* Items that were seen before the answer arrived.
Skipped(p, i) == i \in polls[p].seen

\* On the first poll, those that are older than the subscription.  "First" is asked of the feed at
\* each item, not of the copy.
OnlyMarked(i) == feed.seen = <<>> /\ i \in OldItems

Captured(i) == taken' = IF Counted(i) THEN [taken EXCEPT ![i] = IF taken[i] = 0 THEN 1 ELSE 2] ELSE taken

Treated(p, i, new) ==
  polls' = [polls EXCEPT ![p].todo = @ \ {i}, ![p].new = IF new THEN Append(@, i) ELSE @]

\* One item: skipped, only marked, without usable text, or handed to Inbox.add, which refuses a
\* recent key and otherwise remembers the key before it writes the file.
Item(p, i) ==
  /\ PollAt(p, "items") /\ i \in polls[p].todo
  /\ \/ /\ Skipped(p, i) /\ Treated(p, i, FALSE) /\ UNCHANGED <<recent, taken, arrived>>
     \/ /\ ~Skipped(p, i) /\ (OnlyMarked(i) \/ i \in recent)
        /\ Treated(p, i, TRUE) /\ UNCHANGED <<recent, taken, arrived>>
     \/ /\ ~Skipped(p, i) /\ ~OnlyMarked(i)
        /\ \/ /\ i \notin recent
              /\ recent' = recent \cup {i} /\ Captured(i) /\ Treated(p, i, TRUE)
           \/ /\ recent' \in {recent, recent \cup {i}}
              /\ Treated(p, i, FALSE) /\ UNCHANGED taken
        /\ arrived' = arrived \cup ({i} \ OldItems)
  /\ UNCHANGED <<feed, file, writing, listed, polling, forgotten, overlapped, outlasted, wanted, requested, restarts, edits>>

Finish(p) ==
  LET all == feed.seen \o polls[p].new
  IN /\ PollAt(p, "items") /\ polls[p].todo = {}
     /\ Mark(p, [feed EXCEPT !.etag = IF polls[p].got = 0 THEN feed.etag ELSE Etag(p), !.seen = Newest(all)])
     /\ forgotten' = IF feed.known THEN forgotten \cup (ToSet(all) \ ToSet(Newest(all))) ELSE forgotten
     /\ UNCHANGED <<listed, recent, arrived, overlapped, outlasted, wanted, requested, restarts, edits>>
     /\ Recount

PollSaved(p) ==
  /\ PollAt(p, "save") /\ Saved(p) /\ Ended(p)
  /\ UNCHANGED <<feed, listed, recent, taken, forgotten, arrived, overlapped, outlasted, wanted, requested, restarts, edits>>

-----------------------------------------------------------------------------
(* Around it *)

\* External: a new item appears.
Publish(i) ==
  /\ i \notin listed /\ listed' = listed \cup {i}
  /\ UNCHANGED <<feed, file, writing, polls, polling, recent, taken, forgotten, arrived, overlapped, outlasted, wanted,
                 requested, restarts, edits>>

\* The poll works with seen items from before the item was marked, or is about to on a feed that
\* is gone, where nothing is marked.
Outdated(p, i) ==
  \/ PollAt(p, "items") /\ i \notin polls[p].seen
  \/ PollAt(p, "fetch") /\ ~feed.known

\* The window of Inbox.add ends, whatever polls are at work: nothing bounds how long one takes.
KeyExpires(i) ==
  /\ i \in recent /\ recent' = recent \ {i}
  /\ outlasted' = (outlasted \/ \E p \in Polls : Outdated(p, i))
  /\ UNCHANGED <<feed, file, writing, listed, polls, polling, forgotten, arrived, overlapped, wanted,
                 requested, restarts, edits>>
  /\ Recount

\* The server restarts and reads the file.
FeedsRestart ==
  /\ restarts < MaxRestarts /\ restarts' = restarts + 1
  /\ \E content \in Readable : feed' = content /\ file' = {content}
  /\ writing' = [w \in Writers |-> {}]
  /\ polls' = [p \in Polls |-> NotPolling] /\ polling' = FALSE /\ recent' = {}
  /\ taken' = [i \in Items |-> 0]
  /\ UNCHANGED <<listed, forgotten, arrived, overlapped, outlasted, wanted, requested, edits>>

FeedsNext ==
  \/ FeedTick \/ Edit \/ EditSaved \/ FeedsRestart
  \/ \E p \in Polls : PollOne(p) \/ Fetched(p) \/ Finish(p) \/ PollSaved(p) \/ \E i \in Items : Item(p, i)
  \/ \E i \in Items : Publish(i) \/ KeyExpires(i)

\* The timer fires again and again and every await ends; sooner or later the feed's server is up.
FeedsWork(p) == Fetched(p) \/ Finish(p) \/ PollSaved(p) \/ \E i \in Items : Item(p, i)

-----------------------------------------------------------------------------
Contents == [known : BOOLEAN, enabled : BOOLEAN, etag : 0..Cardinality(Items), seen : Seq(Items)]

FeedsTypeOK ==
  /\ feed \in Contents /\ file \subseteq Contents /\ writing \in [Writers -> SUBSET Contents]
  /\ listed \subseteq Items /\ recent \subseteq Items
  /\ arrived \subseteq Items /\ forgotten \subseteq Items
  /\ polls \in [Polls -> [pc : {"idle", "fetch", "items", "save"}, asked : 0..Cardinality(Items),
                          got : 0..Cardinality(Items), todo : SUBSET Items, seen : SUBSET Items,
                          new : Seq(Items)]]
  /\ polling \in BOOLEAN /\ overlapped \in BOOLEAN /\ outlasted \in BOOLEAN /\ wanted \in BOOLEAN
  /\ taken \in [Items -> 0..2]
  /\ requested \subseteq Requests /\ restarts \in 0..MaxRestarts /\ edits \in 0..MaxEdits

\* In each life of the server an item becomes a capture at most once; again after a restart that fell
\* between the capture and the end of the write that marks it, or that found an older file.  Exceptions:
\* two polls have overlapped and the window of Inbox.add ended while one was at work with an older
\* copy, since no poll is bounded; and an item the feed still lists when it has fallen out of the seen
\* ones.  Without overlapping polls an item that is older than the subscription never becomes a
\* capture ("DO NOT ingest"), but for that last exception.
ItemsOnce ==
  \A i \in Items \ forgotten :
    /\ ~(overlapped /\ outlasted) => taken[i] <= 1
    /\ i \in OldItems /\ ~overlapped => taken[i] = 0

Subscribed == feed.known /\ feed.enabled

\* The last change left the feed subscribed, and a restart has found a file that says less: one that
\* a write left half written, which list() throws on for ever, or an older one.
Lost == wanted /\ restarts > 0 /\ ~Subscribed

\* While the feed is subscribed, an item that is newer than the subscription becomes a capture, or
\* it failed, or the subscription was lost.
Arrives(i) == i \in listed /\ wanted ~> i \in arrived \/ ~wanted \/ Lost
=============================================================================
