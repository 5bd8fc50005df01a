----------------------------- MODULE Feeds_proofs -----------------------------
(***************************************************************************)
(* A feed's item becomes a capture once in a life of the server, for any   *)
(* number of items, polls, edits and restarts, as far as ItemsOnce says.   *)
(*                                                                         *)
(* OnceInv: an item that was captured in this life of the server has left  *)
(* a trace (Traced) that outlives the poll: it is among the seen items, or *)
(* the poll that made it will put it there.  Until then the window of      *)
(* Inbox.add keeps the next one away.  Until a window has ended while a    *)
(* poll was at work with a copy of the seen items from before, the end of  *)
(* one finds the item remembered by all (Remembered).                      *)
(*                                                                         *)
(* OldInv: without overlapping polls the window is not needed: what was    *)
(* captured is seen, or the one poll at work has done it (Own).  What is   *)
(* older than the subscription is marked by the first poll that ends.  A   *)
(* poll that is alone has the seen items of the feed, and all that is old  *)
(* is still to do, marked by it, or seen (OldFound).  Whatever a restart   *)
(* may read of the file has seen the old items, or nothing (OldKnown).     *)
(***************************************************************************)
EXTENDS Feeds, FiniteSetTheorems, SequenceTheorems, TLAPS

\* The poll works through the items of an answer.
Polling(p) == PollAt(p, "items")

\* A capture of this server's life is in the seen items, or will be when the poll that made it ends; a
\* feed that is gone marks nothing.
Traced(i) ==
  \/ i \in ToSet(feed.seen) \/ ~feed.known
  \/ \E p \in Polls : Polling(p) /\ i \notin polls[p].seen /\ i \in ToSet(polls[p].new)

\* No poll takes the item for a new one any more.
Remembered(i) ==
  /\ \A p \in Polls : Polling(p) => i \in polls[p].seen
  /\ i \in ToSet(feed.seen) \/ (~feed.known /\ \A p \in Polls : ~PollAt(p, "fetch"))

OnceFor(i) ==
  /\ taken[i] <= 1
  /\ taken[i] = 1 => Traced(i) /\ (i \in recent \/ Remembered(i))

OnceInv == ~outlasted => \A i \in Items \ forgotten : OnceFor(i)

\* Without overlapping polls: after the first answer all that is older than the subscription is seen.
Alone == \A p, q \in Polls : ~PollAt(p, "idle") /\ ~PollAt(q, "idle") => p = q
OldKnown(content) == content.seen # <<>> => OldItems \subseteq ToSet(content.seen) \cup forgotten
OldFound(p) ==
  /\ polls[p].seen = ToSet(feed.seen)
  /\ OldItems \subseteq polls[p].todo \cup ToSet(polls[p].new) \cup ToSet(feed.seen) \cup forgotten

\* A capture of this life without overlapping polls.
Own(i) ==
  \/ i \in ToSet(feed.seen)
  \/ ~feed.known /\ \A p \in Polls : ~Polling(p) /\ ~PollAt(p, "fetch")
  \/ \E p \in Polls : Polling(p) /\ i \notin polls[p].todo /\ i \in ToSet(polls[p].new)

OldParts ==
  /\ Alone /\ OldKnown(feed) /\ \A content \in Readable : OldKnown(content)
  /\ \A p \in Polls : Polling(p) => OldFound(p)
  /\ \A i \in OldItems \ forgotten : taken[i] = 0
  /\ \A i \in Items \ forgotten : taken[i] <= 1 /\ (taken[i] = 1 => Own(i))

OldInv == ~overlapped => OldParts

FeedsInv == FeedsTypeOK /\ OldItems \subseteq listed /\ OnceInv /\ OldInv

PollRecord == [pc : {"idle", "fetch", "items", "save"}, asked : 0..Cardinality(Items),
               got : 0..Cardinality(Items), todo : SUBSET Items, seen : SUBSET Items, new : Seq(Items)]

LEMMA PollsTyped ==
  ASSUME FeedsTypeOK
  PROVE  /\ polls \in [Polls -> PollRecord] /\ feed.seen \in Seq(Items) /\ feed.known \in BOOLEAN
         /\ taken \in [Items -> 0..2] /\ feed \in Contents
<1>1. polls \in [Polls -> PollRecord] /\ taken \in [Items -> 0..2] /\ feed \in Contents
  BY DEF FeedsTypeOK, PollRecord
<1>2. feed.seen \in Seq(Items) /\ feed.known \in BOOLEAN
  BY <1>1 DEF Contents
<1> QED BY <1>1, <1>2

LEMMA Versions ==
  ASSUME NEW S \in SUBSET Items
  PROVE  Cardinality(S) \in 0..Cardinality(Items) /\ 0 \in 0..Cardinality(Items)
<1>1. /\ Cardinality(S) \in Nat /\ Cardinality(Items) \in Nat /\ Cardinality(S) <= Cardinality(Items)
  BY FeedsAssumption, FS_Subset, FS_CardinalityType
<1> QED BY <1>1

\* Elements of a sequence.
LEMMA Elements ==
  ASSUME NEW S, NEW s \in Seq(S)
  PROVE  /\ ToSet(s) \subseteq S /\ \A x : x \in ToSet(s) <=> \E k \in 1..Len(s) : s[k] = x
         /\ s = <<>> => ToSet(s) = {}
  BY DEF ToSet

LEMMA ElementsJoin ==
  ASSUME NEW S, NEW s \in Seq(S), NEW t \in Seq(S)
  PROVE  /\ s \o t \in Seq(S) /\ ToSet(s \o t) = ToSet(s) \cup ToSet(t)
         /\ s \o t = <<>> <=> s = <<>> /\ t = <<>>
<1>1. /\ s \o t \in Seq(S) /\ Len(s \o t) = Len(s) + Len(t) /\ Len(s) \in Nat /\ Len(t) \in Nat
      /\ \A k \in 1..Len(s) + Len(t) : (s \o t)[k] = IF k <= Len(s) THEN s[k] ELSE t[k - Len(s)]
  BY ConcatProperties
<1> PICK u : u = s \o t
  OBVIOUS
<1>2. \A x : x \in ToSet(u) <=> \E k \in 1..Len(u) : u[k] = x
  BY <1>1, Elements
<1>3. \A x : x \in ToSet(s) <=> \E k \in 1..Len(s) : s[k] = x
  BY Elements
<1>4. \A x : x \in ToSet(t) <=> \E k \in 1..Len(t) : t[k] = x
  BY Elements
<1>5. \A x \in ToSet(s) : x \in ToSet(u)
  BY <1>1, <1>2, <1>3
<1>6. ASSUME NEW x \in ToSet(t) PROVE x \in ToSet(u)
  <2> PICK k \in 1..Len(t) : t[k] = x
    BY <1>4
  <2>1. Len(s) + k \in 1..Len(u) /\ u[Len(s) + k] = x
    BY <1>1
  <2> QED BY <1>2, <2>1
<1>7. ASSUME NEW x \in ToSet(u) PROVE x \in ToSet(s) \cup ToSet(t)
  <2> PICK k \in 1..Len(u) : u[k] = x
    BY <1>2
  <2>1. CASE k <= Len(s)
    BY <1>1, <1>3, <2>1
  <2>2. CASE k > Len(s)
    <3>1. k - Len(s) \in 1..Len(t) /\ t[k - Len(s)] = x
      BY <1>1, <2>2
    <3> QED BY <1>4, <3>1
  <2> QED BY <1>1, <2>1, <2>2
<1>8. u = <<>> <=> s = <<>> /\ t = <<>>
  BY <1>1
<1> QED BY <1>1, <1>5, <1>6, <1>7, <1>8

LEMMA NewestTyped ==
  ASSUME NEW list \in Seq(Items)
  PROVE  Newest(list) \in Seq(Items) /\ (list = <<>> => Newest(list) = <<>>)
<1>1. Len(list) \in Nat /\ MaxSeen \in Nat
  BY FeedsAssumption
<1>2. CASE Len(list) <= MaxSeen
  BY <1>2 DEF Newest
<1>3. CASE ~(Len(list) <= MaxSeen)
  <2>1. Newest(list) = SubSeq(list, Len(list) - MaxSeen + 1, Len(list))
    BY <1>3 DEF Newest
  <2>2. SubSeq(list, Len(list) - MaxSeen + 1, Len(list)) \in Seq(Items)
    BY <1>1, <1>3, SubSeqProperties
  <2>3. list # <<>>
    BY <1>1, <1>3
  <2> QED BY <2>1, <2>2, <2>3
<1> QED BY <1>2, <1>3

-----------------------------------------------------------------------------
(* What the steps do *)

LEMMA ElementsAppend ==
  ASSUME NEW S, NEW s \in Seq(S), NEW e \in S
  PROVE  Append(s, e) \in Seq(S) /\ ToSet(Append(s, e)) = ToSet(s) \cup {e}
<1>1. /\ Append(s, e) \in Seq(S) /\ Len(Append(s, e)) = Len(s) + 1 /\ Len(s) \in Nat
      /\ Append(s, e)[Len(s) + 1] = e /\ \A k \in 1..Len(s) : Append(s, e)[k] = s[k]
  OBVIOUS
<1> DEFINE t == Append(s, e)
<1>2. \A x : x \in ToSet(t) <=> \E k \in 1..Len(t) : t[k] = x
  BY <1>1, Elements
<1>3. \A x : x \in ToSet(s) <=> \E k \in 1..Len(s) : s[k] = x
  BY Elements
<1> HIDE DEF t
<1>4. /\ Len(t) = Len(s) + 1 /\ t[Len(s) + 1] = e /\ \A k \in 1..Len(s) : t[k] = s[k]
  BY <1>1 DEF t
<1>5. \A x : x \in ToSet(t) <=> x \in ToSet(s) \/ x = e
  BY <1>1, <1>2, <1>3, <1>4
<1> QED BY <1>1, <1>5 DEF t

\* One poll moves, the others do not.
Others(p) == \A q \in Polls \ {p} : polls'[q] = polls[q]

LEMMA NotPollingTyped == NotPolling \in PollRecord /\ NotPolling.pc = "idle"
<1>1. 0 \in 0..Cardinality(Items)
  BY Versions
<1> QED BY <1>1 DEF NotPolling, PollRecord

LEMMA PollBecomes ==
  ASSUME FeedsTypeOK, NEW p \in Polls, NEW r \in PollRecord, polls' = [polls EXCEPT ![p] = r]
  PROVE  polls' \in [Polls -> PollRecord] /\ polls'[p] = r /\ Others(p)
<1>1. polls \in [Polls -> PollRecord]
  BY PollsTyped
<1> QED BY <1>1 DEF Others

LEMMA AskDoes ==
  ASSUME FeedsTypeOK, NEW p \in Polls, Ask(p)
  PROVE  /\ polls' \in [Polls -> PollRecord] /\ polls'[p].pc = "fetch" /\ Others(p)
         /\ PollAt(p, "idle")
<1>1. feed.etag \in 0..Cardinality(Items)
  BY DEF FeedsTypeOK, Contents
<1> DEFINE r == [NotPolling EXCEPT !.pc = "fetch", !.asked = feed.etag]
<1>2. r \in PollRecord /\ r.pc = "fetch"
  BY <1>1, NotPollingTyped DEF PollRecord
<1>3. polls' = [polls EXCEPT ![p] = r]
  BY DEF Ask
<1> HIDE DEF r
<1> QED BY <1>2, <1>3, PollBecomes DEF Ask

\* Captures that are counted no more count as none.
LEMMA Recounted ==
  ASSUME FeedsTypeOK, Recount
  PROVE  /\ taken' \in [Items -> 0..2]
         /\ \A i \in Items : taken'[i] = taken[i] \/ taken'[i] = 0
<1> PICK left : left = [i \in Items |-> Counted(i)']
  OBVIOUS
<1>1. \A i \in Items : left[i] = Counted(i)'
  OBVIOUS
<1>2. taken \in [Items -> 0..2]
  BY PollsTyped
<1>3. taken' = [i \in Items |-> IF Counted(i)' THEN taken[i] ELSE 0]
  BY DEF Recount
<1> QED BY <1>2, <1>3

\* The file: a write begins, and ends.
LEMMA StoreTyped ==
  ASSUME FeedsTypeOK
  PROVE  /\ file \subseteq Contents /\ writing \in [Writers -> SUBSET Contents]
         /\ InFlight \subseteq Contents /\ Torn \in Contents /\ Readable \subseteq Contents
<1>1. file \subseteq Contents /\ writing \in [Writers -> SUBSET Contents]
  BY DEF FeedsTypeOK
<1>2. Torn \in Contents
  <2>1. 0 \in 0..Cardinality(Items)
    BY Versions
  <2> QED BY <2>1 DEF Torn, Contents
<1>3. InFlight \subseteq Contents
  BY <1>1 DEF InFlight
<1> QED BY <1>1, <1>2, <1>3 DEF Readable

LEMMA SaveDoes ==
  ASSUME FeedsTypeOK, NEW w \in Writers, NEW content \in Contents, Save(w, content)
  PROVE  /\ feed' = content /\ file' \subseteq Contents /\ writing' \in [Writers -> SUBSET Contents]
         /\ Readable' \subseteq Readable \cup {content, Torn}
<1> PICK outcome : outcome = {content} \cup IF InFlight = {} THEN {} ELSE InFlight \cup {Torn}
  OBVIOUS
<1>1. outcome \subseteq Contents /\ outcome \subseteq Readable \cup {content, Torn}
  BY StoreTyped DEF Readable
<1>2. /\ feed' = content /\ file' = file
      /\ writing' = [v \in Writers |-> IF v = w \/ writing[v] # {} THEN outcome ELSE {}]
  BY DEF Save
<1>3. \A v \in Writers : writing'[v] \subseteq outcome
  BY <1>2
<1>4. InFlight' \subseteq outcome
  BY <1>3 DEF InFlight
<1>5. Readable' \subseteq Readable \cup {content, Torn}
  BY <1>1, <1>2, <1>4 DEF Readable
<1>6. writing' \in [Writers -> SUBSET Contents]
  BY <1>1, <1>2
<1> QED BY <1>2, <1>5, <1>6, StoreTyped

LEMMA SavedDoes ==
  ASSUME FeedsTypeOK, NEW w \in Writers, Saved(w)
  PROVE  /\ file' \subseteq Contents /\ writing' \in [Writers -> SUBSET Contents]
         /\ Readable' \subseteq Readable
<1>1. /\ writing[w] # {} /\ file' = writing[w] /\ writing' = [writing EXCEPT ![w] = {}]
      /\ writing \in [Writers -> SUBSET Contents]
  BY StoreTyped DEF Saved
<1>2. \A v \in Writers : writing'[v] \subseteq writing[v]
  BY <1>1
<1>3. InFlight' \subseteq InFlight /\ writing[w] \subseteq InFlight /\ InFlight # {}
  BY <1>1, <1>2 DEF InFlight
<1>4. Readable' \subseteq Readable
  BY <1>1, <1>3 DEF Readable
<1>5. file' \subseteq Contents
  BY <1>1
<1>6. writing' \in [Writers -> SUBSET Contents]
  BY <1>1
<1> QED BY <1>4, <1>5, <1>6

LEMMA EndedDoes ==
  ASSUME FeedsTypeOK, NEW p \in Polls, Ended(p)
  PROVE  /\ polls' \in [Polls -> PollRecord] /\ polls'[p].pc = "idle" /\ Others(p)
         /\ polling' \in BOOLEAN
<1>1. polls' = [polls EXCEPT ![p] = NotPolling]
  BY DEF Ended
<1>2. polling' \in BOOLEAN
  BY DEF Ended, FeedsTypeOK
<1> QED BY <1>1, <1>2, NotPollingTyped, PollBecomes

LEMMA MarkDoes ==
  ASSUME FeedsTypeOK, NEW p \in Polls, NEW content \in Contents, Mark(p, content)
  PROVE  /\ polls' \in [Polls -> PollRecord] /\ polls'[p].pc \in {"idle", "save"} /\ Others(p)
         /\ polling' \in BOOLEAN
         /\ feed.known => feed' = content
         /\ ~feed.known => feed' = feed
         /\ file' \subseteq Contents /\ writing' \in [Writers -> SUBSET Contents]
         /\ Readable' \subseteq Readable \cup {content, Torn}
         /\ ~feed.known => Readable' = Readable
<1>1. CASE feed.known
  <2> DEFINE r == [NotPolling EXCEPT !.pc = "save"]
  <2>1. r \in PollRecord /\ r.pc = "save"
    BY NotPollingTyped DEF PollRecord
  <2>2. Save(p, content) /\ polls' = [polls EXCEPT ![p] = r] /\ polling' = polling
    BY <1>1 DEF Mark
  <2> HIDE DEF r
  <2>3. polls' \in [Polls -> PollRecord] /\ polls'[p] = r /\ Others(p)
    BY <2>1, <2>2, PollBecomes
  <2>4. polling' \in BOOLEAN /\ p \in Writers
    BY <2>2 DEF FeedsTypeOK, Writers
  <2> QED BY <1>1, <2>1, <2>2, <2>3, <2>4, SaveDoes
<1>2. CASE ~feed.known
  <2>1. Ended(p) /\ feed' = feed /\ file' = file /\ writing' = writing
    BY <1>2 DEF Mark
  <2>2. Readable' = Readable
    BY <2>1 DEF Readable, InFlight
  <2>3. file \subseteq Contents /\ writing \in [Writers -> SUBSET Contents]
    BY StoreTyped
  <2> QED BY <1>2, <2>1, <2>2, <2>3, EndedDoes
<1> QED BY <1>1, <1>2

LEMMA FetchedDoes ==
  ASSUME FeedsTypeOK, NEW p \in Polls, Fetched(p)
  PROVE  /\ polls' \in [Polls -> PollRecord] /\ Others(p) /\ polling' \in BOOLEAN
         /\ PollAt(p, "fetch") /\ feed' = feed
         /\ file' \subseteq Contents /\ writing' \in [Writers -> SUBSET Contents]
         /\ Readable' \subseteq Readable \cup {feed, Torn}
         /\ \/ polls'[p].pc \in {"idle", "save"}
            \/ polls'[p].pc = "items" /\ polls'[p].seen = ToSet(feed.seen) /\ polls'[p].todo = listed
<1>0. ASSUME UNCHANGED <<feed, file, writing>>
      PROVE  /\ feed' = feed /\ file' \subseteq Contents /\ writing' \in [Writers -> SUBSET Contents]
             /\ Readable' \subseteq Readable \cup {feed, Torn}
  <2>1. Readable' = Readable
    BY <1>0 DEF Readable, InFlight
  <2> QED BY <1>0, <2>1, StoreTyped
<1>1. CASE Mark(p, feed)
  <2>1. feed \in Contents /\ feed.known \in BOOLEAN /\ PollAt(p, "fetch")
    BY PollsTyped DEF Fetched
  <2> QED BY <1>1, <2>1, MarkDoes
<1>2. CASE Ended(p) /\ UNCHANGED <<feed, file, writing>>
  BY <1>0, <1>2, EndedDoes DEF Fetched
<1>3. CASE /\ polls' = [polls EXCEPT ![p] = [NotPolling EXCEPT !.pc = "items", !.got = Version, !.todo = listed,
                                                              !.seen = ToSet(feed.seen)]]
           /\ UNCHANGED <<feed, file, writing, polling>>
  <2> DEFINE r == [NotPolling EXCEPT !.pc = "items", !.got = Version, !.todo = listed, !.seen = ToSet(feed.seen)]
  <2>1. listed \subseteq Items /\ ToSet(feed.seen) \subseteq Items /\ polling \in BOOLEAN
    BY PollsTyped, Elements DEF FeedsTypeOK
  <2>2. Version \in 0..Cardinality(Items) /\ 0 \in 0..Cardinality(Items)
    BY <2>1, Versions DEF Version
  <2>3. r \in PollRecord /\ r.pc = "items" /\ r.seen = ToSet(feed.seen) /\ r.todo = listed
    BY <2>1, <2>2, NotPollingTyped DEF PollRecord
  <2>4. polls' = [polls EXCEPT ![p] = r]
    BY <1>3
  <2> HIDE DEF r
  <2>5. polls' \in [Polls -> PollRecord] /\ polls'[p] = r /\ Others(p)
    BY <2>3, <2>4, PollBecomes
  <2>6. UNCHANGED <<feed, file, writing>> /\ polling' \in BOOLEAN
    BY <1>3, <2>1
  <2> QED BY <1>0, <2>3, <2>5, <2>6 DEF Fetched
<1> QED BY <1>1, <1>2, <1>3 DEF Fetched

LEMMA ItemDoes ==
  ASSUME FeedsTypeOK, NEW p \in Polls, NEW i \in Items, NEW new \in BOOLEAN, Treated(p, i, new)
  PROVE  /\ polls' \in [Polls -> PollRecord] /\ Others(p)
         /\ polls'[p].pc = polls[p].pc /\ polls'[p].seen = polls[p].seen
         /\ polls'[p].todo = polls[p].todo \ {i}
         /\ ToSet(polls'[p].new) = ToSet(polls[p].new) \cup IF new THEN {i} ELSE {}
<1>1. polls \in [Polls -> PollRecord]
  BY PollsTyped
<1> DEFINE n == IF new THEN Append(polls[p].new, i) ELSE polls[p].new
<1>2. polls[p].new \in Seq(Items)
  BY <1>1 DEF PollRecord
<1>3. n \in Seq(Items) /\ ToSet(n) = ToSet(polls[p].new) \cup IF new THEN {i} ELSE {}
  <2>1. CASE ~new
    BY <1>2, <2>1
  <2>2. CASE new
    BY <1>2, <2>2, ElementsAppend
  <2> QED BY <2>1, <2>2
<1>4. polls' = [polls EXCEPT ![p] = [[polls[p] EXCEPT !.todo = polls[p].todo \ {i}] EXCEPT !.new = n]]
  BY <1>1 DEF Treated
<1> HIDE DEF n
<1> PICK r : r = [[polls[p] EXCEPT !.todo = polls[p].todo \ {i}] EXCEPT !.new = n]
  OBVIOUS
<1>5. /\ r \in PollRecord /\ r.pc = polls[p].pc /\ r.seen = polls[p].seen
      /\ r.todo = polls[p].todo \ {i} /\ r.new = n
  BY <1>1, <1>3 DEF PollRecord
<1>6. polls' \in [Polls -> PollRecord] /\ polls'[p] = r /\ Others(p)
  BY <1>4, <1>5, PollBecomes
<1> QED BY <1>3, <1>5, <1>6

\* At its end a poll marks what it has seen; what does not stay in the list is forgotten.
LEMMA FinishDoes ==
  ASSUME FeedsTypeOK, NEW p \in Polls, Finish(p)
  PROVE  /\ polls' \in [Polls -> PollRecord] /\ polls'[p].pc \in {"idle", "save"} /\ Others(p)
         /\ polling' \in BOOLEAN
         /\ feed' \in Contents /\ file' \subseteq Contents /\ writing' \in [Writers -> SUBSET Contents]
         /\ forgotten \subseteq forgotten' /\ forgotten' \subseteq Items /\ feed'.known = feed.known
         /\ ~feed.known => feed' = feed /\ forgotten' = forgotten
         /\ feed.known =>
              /\ \A i \in ToSet(feed.seen) \cup ToSet(polls[p].new) : i \in ToSet(feed'.seen) \cup forgotten'
              /\ feed'.seen # <<>> => feed.seen # <<>> \/ polls[p].new # <<>>
         /\ Readable' \subseteq Readable \cup {feed', Torn}
<1>0. feed \in Contents /\ forgotten \subseteq Items
  BY DEF FeedsTypeOK
<1>1. feed.seen \in Seq(Items) /\ polls[p].new \in Seq(Items) /\ polls[p].got \in 0..Cardinality(Items)
  BY PollsTyped DEF PollRecord
<1> PICK all : all = feed.seen \o polls[p].new
  OBVIOUS
<1>2. /\ all \in Seq(Items) /\ ToSet(all) = ToSet(feed.seen) \cup ToSet(polls[p].new)
      /\ all = <<>> <=> feed.seen = <<>> /\ polls[p].new = <<>>
  BY <1>1, ElementsJoin
<1>3. Newest(all) \in Seq(Items) /\ (all = <<>> => Newest(all) = <<>>) /\ ToSet(all) \subseteq Items
  BY <1>2, NewestTyped, Elements
<1> PICK e : e = IF polls[p].got = 0 THEN feed.etag ELSE Etag(p)
  OBVIOUS
<1>4. e \in 0..Cardinality(Items)
  BY <1>0, <1>1 DEF Etag, Contents
<1> PICK content : content = [feed EXCEPT !.etag = e, !.seen = Newest(all)]
  OBVIOUS
<1>5. content \in Contents /\ content.seen = Newest(all) /\ content.known = feed.known
  BY <1>0, <1>3, <1>4 DEF Contents
<1>6. /\ Mark(p, content)
      /\ feed.known => forgotten' = forgotten \cup (ToSet(all) \ ToSet(Newest(all)))
      /\ ~feed.known => forgotten' = forgotten
  BY DEF Finish
<1>7. /\ polls' \in [Polls -> PollRecord] /\ polls'[p].pc \in {"idle", "save"} /\ Others(p)
      /\ polling' \in BOOLEAN
      /\ feed.known => feed' = content
      /\ ~feed.known => feed' = feed
      /\ file' \subseteq Contents /\ writing' \in [Writers -> SUBSET Contents]
      /\ Readable' \subseteq Readable \cup {content, Torn}
      /\ ~feed.known => Readable' = Readable
  BY <1>5, <1>6, MarkDoes
<1>8. CASE ~feed.known
  BY <1>0, <1>6, <1>7, <1>8
<1>9. CASE feed.known
  <2>1. feed' = content /\ forgotten' = forgotten \cup (ToSet(all) \ ToSet(Newest(all)))
    BY <1>6, <1>7, <1>9
  <2>2. feed'.seen # <<>> => feed.seen # <<>> \/ polls[p].new # <<>>
    BY <1>2, <1>3, <1>5, <2>1
  <2>3. \A i \in ToSet(feed.seen) \cup ToSet(polls[p].new) : i \in ToSet(feed'.seen) \cup forgotten'
    BY <1>2, <1>5, <2>1
  <2>4. forgotten \subseteq forgotten' /\ forgotten' \subseteq Items
    BY <1>0, <1>3, <2>1
  <2> QED BY <1>5, <1>7, <1>9, <2>1, <2>2, <2>3, <2>4
<1> QED BY <1>8, <1>9

LEMMA PollSavedDoes ==
  ASSUME FeedsTypeOK, NEW p \in Polls, PollSaved(p)
  PROVE  /\ polls' \in [Polls -> PollRecord] /\ polls'[p].pc = "idle" /\ Others(p) /\ PollAt(p, "save")
         /\ polling' \in BOOLEAN /\ file' \subseteq Contents /\ writing' \in [Writers -> SUBSET Contents]
         /\ Readable' \subseteq Readable
<1>1. Saved(p) /\ Ended(p) /\ PollAt(p, "save") /\ p \in Writers
  BY DEF PollSaved, Writers
<1> QED BY <1>1, SavedDoes, EndedDoes

\* A change of the subscription.
LEMMA EditDoes ==
  ASSUME FeedsTypeOK, Edit
  PROVE  /\ feed' \in Contents /\ feed'.seen = feed.seen /\ feed.known
         /\ file' \subseteq Contents /\ writing' \in [Writers -> SUBSET Contents]
         /\ Readable' \subseteq Readable \cup {feed', Torn}
<1>1. feed \in Contents /\ feed.known /\ Editor \in Writers
  BY DEF FeedsTypeOK, Edit, Writers
<1>2. PICK content \in Contents : content.seen = feed.seen /\ Save(Editor, content)
  <2>1. CASE Save(Editor, [feed EXCEPT !.enabled = ~feed.enabled])
    <3>1. [feed EXCEPT !.enabled = ~feed.enabled] \in Contents /\ [feed EXCEPT !.enabled = ~feed.enabled].seen = feed.seen
      BY <1>1 DEF Contents
    <3> QED BY <2>1, <3>1
  <2>2. CASE Save(Editor, [feed EXCEPT !.known = FALSE])
    <3>1. [feed EXCEPT !.known = FALSE] \in Contents /\ [feed EXCEPT !.known = FALSE].seen = feed.seen
      BY <1>1 DEF Contents
    <3> QED BY <2>2, <3>1
  <2> QED BY <2>1, <2>2 DEF Edit
<1> QED BY <1>1, <1>2, SaveDoes

LEMMA RestartDoes ==
  ASSUME FeedsTypeOK, FeedsRestart
  PROVE  /\ feed' \in Readable /\ feed' \in Contents /\ file' = {feed'} /\ Readable' = {feed'}
         /\ writing' \in [Writers -> SUBSET Contents]
         /\ polls' \in [Polls -> PollRecord] /\ \A p \in Polls : polls'[p].pc = "idle"
<1>1. feed' \in Readable /\ file' = {feed'} /\ writing' = [w \in Writers |-> {}]
      /\ polls' = [p \in Polls |-> NotPolling]
  BY DEF FeedsRestart
<1>2. InFlight' = {}
  BY <1>1 DEF InFlight
<1>3. Readable' = {feed'}
  BY <1>1, <1>2 DEF Readable
<1> QED BY <1>1, <1>3, StoreTyped, NotPollingTyped

-----------------------------------------------------------------------------
(* Types *)

LEMMA FeedsTyped ==
  ASSUME FeedsTypeOK, FeedsNext
  PROVE  FeedsTypeOK'
<1>0. /\ feed \in Contents /\ file \subseteq Contents /\ writing \in [Writers -> SUBSET Contents]
      /\ listed \subseteq Items /\ recent \subseteq Items /\ arrived \subseteq Items /\ forgotten \subseteq Items
      /\ polls \in [Polls -> PollRecord]
      /\ polling \in BOOLEAN /\ overlapped \in BOOLEAN /\ outlasted \in BOOLEAN /\ wanted \in BOOLEAN
      /\ taken \in [Items -> 0..2]
      /\ requested \subseteq Requests /\ restarts \in 0..MaxRestarts /\ edits \in 0..MaxEdits
  BY PollsTyped DEF FeedsTypeOK
<1> DEFINE Typed ==
      /\ feed' \in Contents /\ file' \subseteq Contents /\ writing' \in [Writers -> SUBSET Contents]
      /\ listed' \subseteq Items /\ recent' \subseteq Items /\ arrived' \subseteq Items /\ forgotten' \subseteq Items
      /\ polls' \in [Polls -> PollRecord]
      /\ polling' \in BOOLEAN /\ overlapped' \in BOOLEAN /\ outlasted' \in BOOLEAN /\ wanted' \in BOOLEAN
      /\ taken' \in [Items -> 0..2]
      /\ requested' \subseteq Requests /\ restarts' \in 0..MaxRestarts /\ edits' \in 0..MaxEdits
<1>1. Typed => FeedsTypeOK'
  BY DEF FeedsTypeOK, PollRecord, Contents
<1>2. ASSUME NEW p \in Polls, Ask(p), polling' \in BOOLEAN, requested' \subseteq Requests, edits' = edits PROVE Typed
  <2>1. polls' \in [Polls -> PollRecord] /\ taken' \in [Items -> 0..2]
    BY <1>2, AskDoes, Recounted DEF Ask
  <2>2. overlapped' \in BOOLEAN
    BY <1>0, <1>2 DEF Ask
  <2> QED BY <1>0, <1>2, <2>1, <2>2 DEF Ask
<1>3. CASE FeedTick
  <2>1. Ask(Timer) /\ polling' \in BOOLEAN /\ Timer \in Polls /\ requested' \subseteq Requests /\ edits' = edits
    BY <1>0, <1>3 DEF FeedTick, Polls
  <2> QED BY <1>1, <1>2, <2>1
<1>4. CASE Edit
  <2>1. edits' \in 0..MaxEdits
    BY <1>0, <1>4, FeedsAssumption DEF Edit
  <2>2. UNCHANGED <<listed, polls, polling, recent, taken, forgotten, arrived, overlapped, outlasted, requested, restarts>>
    BY <1>4 DEF Edit
  <2>3. feed' \in Contents /\ file' \subseteq Contents /\ writing' \in [Writers -> SUBSET Contents]
    BY <1>4, EditDoes
  <2>4. wanted' \in BOOLEAN
    <3>1. wanted' = (feed'.known /\ feed'.enabled)
      BY <1>4 DEF Edit
    <3> QED BY <3>1
  <2> QED BY <1>0, <1>1, <2>1, <2>2, <2>3, <2>4
<1>5. CASE EditSaved
  <2>1. Saved(Editor) /\ Editor \in Writers
    BY <1>5 DEF EditSaved, Writers
  <2>2. file' \subseteq Contents /\ writing' \in [Writers -> SUBSET Contents]
    BY <2>1, SavedDoes
  <2> QED BY <1>0, <1>1, <1>5, <2>2 DEF EditSaved
<1>6. CASE FeedsRestart
  <2>1. /\ polls' \in [Polls -> PollRecord] /\ feed' \in Contents /\ file' = {feed'}
        /\ writing' \in [Writers -> SUBSET Contents]
    BY <1>6, RestartDoes
  <2>2. restarts' \in 0..MaxRestarts
    BY <1>0, <1>6, FeedsAssumption DEF FeedsRestart
  <2>3. UNCHANGED <<listed, forgotten, arrived, overlapped, outlasted, wanted, requested, edits>>
    BY <1>6 DEF FeedsRestart
  <2>4. polling' \in BOOLEAN /\ recent' = {}
    BY <1>6 DEF FeedsRestart
  <2>5. taken' \in [Items -> 0..2]
    <3>1. taken' = [i \in Items |-> 0]
      BY <1>6 DEF FeedsRestart
    <3> QED BY <3>1
  <2> QED BY <1>0, <1>1, <2>1, <2>2, <2>3, <2>4, <2>5
<1>7. ASSUME NEW p \in Polls, PollOne(p) PROVE Typed
  <2>1. Ask(p) /\ polling' = polling /\ edits' = edits /\ requested' \subseteq Requests
    BY <1>0, <1>7 DEF PollOne
  <2> QED BY <1>0, <1>2, <2>1
<1>8. ASSUME NEW p \in Polls, Fetched(p) PROVE Typed
  <2>1. /\ polls' \in [Polls -> PollRecord] /\ polling' \in BOOLEAN /\ feed' = feed
        /\ file' \subseteq Contents /\ writing' \in [Writers -> SUBSET Contents]
    BY <1>8, FetchedDoes
  <2>2. UNCHANGED <<listed, recent, taken, forgotten, arrived, overlapped, outlasted, wanted, requested, restarts, edits>>
    BY <1>8 DEF Fetched
  <2> QED BY <1>0, <2>1, <2>2
<1>9. ASSUME NEW p \in Polls, Finish(p) PROVE Typed
  <2>1. /\ polls' \in [Polls -> PollRecord] /\ polling' \in BOOLEAN /\ feed' \in Contents
        /\ file' \subseteq Contents /\ writing' \in [Writers -> SUBSET Contents] /\ forgotten' \subseteq Items
    BY <1>9, FinishDoes
  <2>2. UNCHANGED <<listed, recent, arrived, overlapped, outlasted, wanted, requested, restarts, edits>>
    BY <1>9 DEF Finish
  <2>3. taken' \in [Items -> 0..2]
    BY <1>9, Recounted DEF Finish
  <2> QED BY <1>0, <2>1, <2>2, <2>3
<1>10. ASSUME NEW p \in Polls, PollSaved(p) PROVE Typed
  <2>1. /\ polls' \in [Polls -> PollRecord] /\ polling' \in BOOLEAN
        /\ file' \subseteq Contents /\ writing' \in [Writers -> SUBSET Contents]
    BY <1>10, PollSavedDoes
  <2>2. UNCHANGED <<feed, listed, recent, taken, forgotten, arrived, overlapped, outlasted, wanted, requested, restarts, edits>>
    BY <1>10 DEF PollSaved
  <2> QED BY <1>0, <2>1, <2>2
<1>11. ASSUME NEW p \in Polls, NEW i \in Items, Item(p, i) PROVE Typed
  <2>1. polls' \in [Polls -> PollRecord]
    BY <1>11, ItemDoes DEF Item
  <2>2. recent' \subseteq Items /\ arrived' \subseteq Items
    BY <1>0, <1>11 DEF Item
  <2>3. taken' \in [Items -> 0..2]
    <3>1. taken' = taken \/ \E n \in 1..2 : taken' = [taken EXCEPT ![i] = n]
      <4>1. taken' = taken \/ Captured(i)
        BY <1>11 DEF Item
      <4> DEFINE n == IF taken[i] = 0 THEN 1 ELSE 2
      <4>2. n \in 1..2
        OBVIOUS
      <4>3. Captured(i) => taken' = taken \/ taken' = [taken EXCEPT ![i] = n]
        BY DEF Captured
      <4> HIDE DEF n
      <4> QED BY <4>1, <4>2, <4>3
    <3> QED BY <1>0, <3>1
  <2>4. UNCHANGED <<feed, file, writing, listed, polling, forgotten, overlapped, outlasted, wanted, requested, restarts, edits>>
    BY <1>11 DEF Item
  <2> QED BY <1>0, <2>1, <2>2, <2>3, <2>4
<1>12. ASSUME NEW i \in Items, Publish(i) PROVE Typed
  BY <1>0, <1>12 DEF Publish
<1>13. ASSUME NEW i \in Items, KeyExpires(i) PROVE Typed
  <2>1. taken' \in [Items -> 0..2] /\ outlasted' \in BOOLEAN /\ recent' \subseteq Items
    BY <1>0, <1>13, Recounted DEF KeyExpires
  <2> QED BY <1>0, <1>13, <2>1 DEF KeyExpires
<1> HIDE DEF Typed
<1>14. (\E p \in Polls : PollOne(p) \/ Fetched(p) \/ Finish(p) \/ PollSaved(p) \/ \E i \in Items : Item(p, i)) => Typed
  BY <1>7, <1>8, <1>9, <1>10, <1>11
<1> QED BY <1>1, <1>3, <1>4, <1>5, <1>6, <1>12, <1>13, <1>14 DEF FeedsNext

-----------------------------------------------------------------------------
(* An item once *)

\* A step by which no poll at work is lost and none begins to work for a feed that is gone, and no
\* trace is forgotten.
TracesStay ==
  /\ \A p \in Polls : Polling(p) => /\ Polling(p)' /\ polls'[p].seen = polls[p].seen
                                    /\ ToSet(polls[p].new) \subseteq ToSet(polls'[p].new)
  /\ \A p \in Polls : Polling(p)' => Polling(p) \/ (polls'[p].seen = ToSet(feed.seen) /\ PollAt(p, "fetch"))
  /\ \A p \in Polls : PollAt(p, "fetch")' => PollAt(p, "fetch") \/ feed.known
  /\ feed'.seen = feed.seen /\ (~feed.known => ~feed'.known)
  /\ recent \subseteq recent' /\ forgotten' = forgotten /\ outlasted' = outlasted

LEMMA OnceStill ==
  ASSUME TracesStay, NEW i \in Items, OnceFor(i), taken'[i] = taken[i] \/ taken'[i] = 0
  PROVE  OnceFor(i)'
<1>1. Traced(i) => Traced(i)'
  BY DEF Traced, TracesStay
<1>2. Remembered(i) => Remembered(i)'
  BY DEF Remembered, TracesStay
<1>3. i \in recent => i \in recent'
  BY DEF TracesStay
<1> QED BY <1>1, <1>2, <1>3 DEF OnceFor

\* The same, when nothing is captured at all.
LEMMA AllStill ==
  ASSUME OnceInv, TracesStay, \A i \in Items : taken'[i] = taken[i] \/ taken'[i] = 0
  PROVE  OnceInv'
<1> SUFFICES ASSUME ~outlasted, NEW i \in Items \ forgotten PROVE OnceFor(i)'
  BY DEF OnceInv, TracesStay
<1> QED BY OnceStill DEF OnceInv

\* Items within the capture window of Inbox.add, and those a poll at work has not seen, are told apart.
LEMMA ItemOnce ==
  ASSUME FeedsTypeOK, OnceInv, NEW p \in Polls, NEW j \in Items, Item(p, j)
  PROVE  OnceInv'
<1>0. taken \in [Items -> 0..2]
  BY PollsTyped
<1>1. PICK new \in BOOLEAN : Treated(p, j, new) /\ (new \/ taken' = taken)
  BY DEF Item
<1>2. /\ Others(p) /\ polls'[p].pc = polls[p].pc /\ polls'[p].seen = polls[p].seen
      /\ ToSet(polls'[p].new) = ToSet(polls[p].new) \cup IF new THEN {j} ELSE {}
  BY <1>1, ItemDoes
<1>3. UNCHANGED <<feed, forgotten, outlasted>> /\ recent \subseteq recent' /\ polls[p].pc = "items"
  BY DEF Item, PollAt
<1>4. \A q \in Polls : /\ Polling(q) <=> Polling(q)'
                       /\ PollAt(q, "fetch") <=> PollAt(q, "fetch")'
                       /\ polls'[q].seen = polls[q].seen /\ ToSet(polls[q].new) \subseteq ToSet(polls'[q].new)
  BY <1>2 DEF Others, Polling, PollAt
<1>5. TracesStay
  BY <1>3, <1>4 DEF TracesStay
<1>6. CASE taken' = taken
  BY <1>5, <1>6, AllStill
<1>7. CASE /\ taken' # taken
           /\ j \notin recent /\ ~Skipped(p, j) /\ recent' = recent \cup {j} /\ Captured(j)
  <2> SUFFICES ASSUME ~outlasted, NEW i \in Items \ forgotten PROVE OnceFor(i)'
    BY <1>3 DEF OnceInv
  <2>1. OnceFor(i)
    BY DEF OnceInv
  <2>2. CASE i # j
    <3>1. taken'[i] = taken[i]
      BY <1>0, <1>7, <2>2 DEF Captured
    <3> QED BY <1>5, <2>1, <3>1, OnceStill
  <2>3. CASE i = j
    <3>1. j \notin polls[p].seen
      BY <1>7 DEF Skipped
    <3>2. ~Remembered(j)
      BY <1>3, <3>1 DEF Remembered, Polling, PollAt
    <3>3. taken[j] = 0
      BY <1>0, <1>7, <2>1, <2>3, <3>2 DEF OnceFor
    <3>4. taken'[j] = 1
      <4>1. Counted(j)
        BY <2>3 DEF Counted
      <4>2. taken' = [taken EXCEPT ![j] = 1]
        BY <1>7, <3>3, <4>1 DEF Captured
      <4> QED BY <1>0, <4>2
    <3>5. j \in ToSet(polls'[p].new)
      BY <1>1, <1>2, <1>7
    <3>6. Traced(j)'
      BY <1>2, <1>3, <3>1, <3>5 DEF Traced, Polling, PollAt
    <3> QED BY <1>7, <2>3, <3>4, <3>6 DEF OnceFor
  <2> QED BY <2>2, <2>3
<1> QED BY <1>6, <1>7 DEF Item

LEMMA FinishOnce ==
  ASSUME FeedsTypeOK, OnceInv, NEW p \in Polls, Finish(p)
  PROVE  OnceInv'
<1>1. /\ polls'[p].pc \in {"idle", "save"} /\ Others(p)
      /\ forgotten \subseteq forgotten' /\ feed'.known = feed.known
      /\ ~feed.known => feed' = feed /\ forgotten' = forgotten
      /\ feed.known => \A i \in ToSet(feed.seen) \cup ToSet(polls[p].new) : i \in ToSet(feed'.seen) \cup forgotten'
  BY FinishDoes
<1>2. UNCHANGED <<recent, outlasted>> /\ \A i \in Items : taken'[i] = taken[i] \/ taken'[i] = 0
  BY Recounted DEF Finish
<1> SUFFICES ASSUME ~outlasted, NEW i \in Items \ forgotten' PROVE OnceFor(i)'
  BY <1>2 DEF OnceInv
<1>3. OnceFor(i)
  BY <1>1 DEF OnceInv
<1>4. i \in ToSet(feed.seen) => i \in ToSet(feed'.seen)
  BY <1>1
<1>5. Traced(i) => Traced(i)'
  <2>1. CASE i \in ToSet(feed.seen) \/ ~feed.known
    BY <1>1, <1>4, <2>1 DEF Traced
  <2>2. CASE feed.known /\ i \in ToSet(polls[p].new)
    BY <1>1, <2>2 DEF Traced
  <2>3. ASSUME NEW q \in Polls \ {p}, Polling(q), i \notin polls[q].seen, i \in ToSet(polls[q].new)
        PROVE  Traced(i)'
    BY <1>1, <2>3 DEF Traced, Others, Polling, PollAt
  <2> QED BY <2>1, <2>2, <2>3 DEF Traced
<1>6. Remembered(i) => Remembered(i)'
  <2>1. \A q \in Polls : Polling(q)' => Polling(q) /\ polls'[q].seen = polls[q].seen
    BY <1>1 DEF Others, Polling, PollAt
  <2>2. \A q \in Polls : PollAt(q, "fetch")' => PollAt(q, "fetch")
    BY <1>1 DEF Others, PollAt
  <2> QED BY <1>1, <1>4, <2>1, <2>2 DEF Remembered
<1> QED BY <1>2, <1>3, <1>5, <1>6 DEF OnceFor

LEMMA ExpiryOnce ==
  ASSUME FeedsTypeOK, OnceInv, NEW j \in Items, KeyExpires(j)
  PROVE  OnceInv'
<1>1. /\ UNCHANGED <<feed, polls, forgotten>> /\ recent' = recent \ {j}
      /\ outlasted' = (outlasted \/ \E p \in Polls : Outdated(p, j))
      /\ \A i \in Items : taken'[i] = taken[i] \/ taken'[i] = 0
  BY Recounted DEF KeyExpires
<1> SUFFICES ASSUME ~outlasted', NEW i \in Items \ forgotten PROVE OnceFor(i)'
  BY <1>1 DEF OnceInv
<1>2. ~outlasted /\ \A p \in Polls : ~Outdated(p, j)
  BY <1>1
<1>3. \A p \in Polls : (Polling(p) => j \in polls[p].seen) /\ (PollAt(p, "fetch") => feed.known)
  BY <1>2 DEF Outdated, Polling
<1>4. OnceFor(i)
  BY <1>2 DEF OnceInv
<1>5. (Traced(i) <=> Traced(i)') /\ (Remembered(i) <=> Remembered(i)')
  BY <1>1 DEF Traced, Remembered, Polling, PollAt
<1>6. i = j /\ Traced(i) => Remembered(i)
  BY <1>3 DEF Traced, Remembered
<1> QED BY <1>1, <1>4, <1>5, <1>6 DEF OnceFor

LEMMA OnceKept ==
  ASSUME FeedsTypeOK, OnceInv, FeedsNext
  PROVE  OnceInv'
<1>1. ASSUME NEW p \in Polls, Ask(p), feed.known PROVE OnceInv'
  <2>1. Others(p) /\ polls'[p].pc = "fetch" /\ polls[p].pc = "idle"
    BY <1>1, AskDoes DEF PollAt
  <2>2. UNCHANGED <<feed, recent, forgotten, outlasted>> /\ \A i \in Items : taken'[i] = taken[i] \/ taken'[i] = 0
    BY <1>1, Recounted DEF Ask
  <2>3. \A q \in Polls : /\ Polling(q) => Polling(q)' /\ polls'[q] = polls[q]
                         /\ Polling(q)' => Polling(q)
    BY <2>1 DEF Others, Polling, PollAt
  <2>4. TracesStay
    BY <1>1, <2>2, <2>3 DEF TracesStay
  <2> QED BY <2>2, <2>4, AllStill
<1>2. CASE FeedTick
  BY <1>1, <1>2 DEF FeedTick, Polls
<1>3. CASE Edit
  <2>1. UNCHANGED <<polls, recent, taken, forgotten, outlasted>>
    BY <1>3 DEF Edit
  <2>2. feed'.seen = feed.seen /\ feed.known
    BY <1>3, EditDoes
  <2>3. TracesStay
    BY <2>1, <2>2 DEF TracesStay, Polling, PollAt
  <2> QED BY <2>1, <2>3, AllStill
<1>4. CASE EditSaved
  <2>1. UNCHANGED <<feed, polls, recent, taken, forgotten, outlasted>>
    BY <1>4 DEF EditSaved
  <2>2. TracesStay
    BY <2>1 DEF TracesStay, Polling, PollAt
  <2> QED BY <2>1, <2>2, AllStill
<1>5. CASE FeedsRestart
  <2>1. \A i \in Items : taken'[i] = 0
    BY <1>5 DEF FeedsRestart
  <2> QED BY <2>1 DEF OnceInv, OnceFor
<1>6. ASSUME NEW p \in Polls, PollOne(p) PROVE OnceInv'
  BY <1>1, <1>6 DEF PollOne
<1>7. ASSUME NEW p \in Polls, Fetched(p) PROVE OnceInv'
  <2>1. /\ Others(p) /\ PollAt(p, "fetch") /\ feed' = feed
        /\ polls'[p].pc \in {"idle", "save"} \/ (polls'[p].pc = "items" /\ polls'[p].seen = ToSet(feed.seen))
    BY <1>7, FetchedDoes
  <2>2. UNCHANGED <<recent, taken, forgotten, outlasted>>
    BY <1>7 DEF Fetched
  <2>3. \A q \in Polls :
           /\ Polling(q) => Polling(q)' /\ polls'[q] = polls[q]
           /\ Polling(q)' => Polling(q) \/ (polls'[q].seen = ToSet(feed.seen) /\ PollAt(q, "fetch"))
           /\ PollAt(q, "fetch")' => PollAt(q, "fetch")
    BY <2>1 DEF Others, Polling, PollAt
  <2>4. TracesStay
    BY <2>1, <2>2, <2>3 DEF TracesStay
  <2> QED BY <2>2, <2>4, AllStill
<1>8. ASSUME NEW p \in Polls, PollSaved(p) PROVE OnceInv'
  <2>1. Others(p) /\ polls'[p].pc = "idle" /\ PollAt(p, "save")
    BY <1>8, PollSavedDoes
  <2>2. UNCHANGED <<feed, recent, taken, forgotten, outlasted>>
    BY <1>8 DEF PollSaved
  <2>3. \A q \in Polls : /\ Polling(q) => Polling(q)' /\ polls'[q] = polls[q]
                         /\ Polling(q)' => Polling(q)
                         /\ PollAt(q, "fetch")' => PollAt(q, "fetch")
    BY <2>1 DEF Others, Polling, PollAt
  <2>4. TracesStay
    BY <2>2, <2>3 DEF TracesStay
  <2> QED BY <2>2, <2>4, AllStill
<1>9. ASSUME NEW j \in Items, Publish(j) PROVE OnceInv'
  <2>1. UNCHANGED <<feed, polls, recent, taken, forgotten, outlasted>>
    BY <1>9 DEF Publish
  <2>2. TracesStay
    BY <2>1 DEF TracesStay, Polling, PollAt
  <2> QED BY <2>1, <2>2, AllStill
<1>10. (\E p \in Polls : PollOne(p) \/ Fetched(p) \/ Finish(p) \/ PollSaved(p) \/ \E i \in Items : Item(p, i)) => OnceInv'
  BY <1>6, <1>7, <1>8, FinishOnce, ItemOnce
<1> QED BY <1>2, <1>3, <1>4, <1>5, <1>9, <1>10, ExpiryOnce DEF FeedsNext

-----------------------------------------------------------------------------
(* Without overlapping polls *)

\* A step that begins no second poll, leaves seen items and polls at work alone, captures nothing, and
\* lets a restart read nothing new but what is in memory.
LEMMA OldStill ==
  ASSUME OldParts, feed'.seen = feed.seen, ~feed.known => ~feed'.known, forgotten' = forgotten,
         \A i \in Items : taken'[i] = taken[i] \/ taken'[i] = 0,
         \A q \in Polls : /\ PollAt(q, "idle") => PollAt(q, "idle")'
                          /\ Polling(q)' <=> Polling(q)
                          /\ Polling(q) => polls'[q] = polls[q]
                          /\ PollAt(q, "fetch")' => PollAt(q, "fetch"),
         Readable' \subseteq Readable \cup {feed', Torn}
  PROVE  OldParts'
<1>1. Alone'
  BY DEF OldParts, Alone
<1>2. OldKnown(feed)'
  BY DEF OldParts, OldKnown
<1>3. ASSUME NEW content \in Readable' PROVE OldKnown(content)'
  <2>1. OldKnown(Torn)'
    BY DEF OldKnown, Torn
  <2> QED BY <1>2, <1>3, <2>1 DEF OldParts, OldKnown
<1>4. ASSUME NEW q \in Polls, Polling(q)' PROVE OldFound(q)'
  <2>1. polls'[q] = polls[q] /\ Polling(q)
    BY <1>4
  <2> QED BY <2>1 DEF OldParts, OldFound
<1>5. \A i \in OldItems \ forgotten' : taken'[i] = 0
  BY FeedsAssumption DEF OldParts
<1>6. \A i \in Items \ forgotten' : taken'[i] <= 1 /\ (taken'[i] = 1 => Own(i)')
  BY DEF OldParts, Own
<1> QED BY <1>1, <1>2, <1>3, <1>4, <1>5, <1>6 DEF OldParts

LEMMA AskOld ==
  ASSUME FeedsTypeOK, OldInv, NEW p \in Polls, Ask(p), feed.known
  PROVE  OldInv'
<1>1. polls'[p].pc = "fetch" /\ Others(p) /\ PollAt(p, "idle")
  BY AskDoes
<1>2. /\ UNCHANGED <<feed, file, writing, forgotten>>
      /\ overlapped' = (overlapped \/ \E q \in Polls : ~PollAt(q, "idle"))
      /\ \A i \in Items : taken'[i] = taken[i] \/ taken'[i] = 0
  BY Recounted DEF Ask
<1> SUFFICES ASSUME ~overlapped' PROVE OldParts'
  BY DEF OldInv
<1>3. OldParts /\ \A q \in Polls : PollAt(q, "idle")
  BY <1>2 DEF OldInv
<1>4. \A q \in Polls : q # p => PollAt(q, "idle")'
  BY <1>1, <1>3 DEF Others, PollAt
<1>5. Alone'
  BY <1>4 DEF Alone
<1>6. \A q \in Polls : ~Polling(q)' /\ ~Polling(q)
  BY <1>1, <1>3, <1>4 DEF Polling, PollAt
<1>7. OldKnown(feed)' /\ \A i \in OldItems \ forgotten' : taken'[i] = 0
  BY <1>2, <1>3, FeedsAssumption DEF OldParts, OldKnown
<1>8. \A content \in Readable' : OldKnown(content)'
  <2>1. Readable' = Readable
    BY <1>2 DEF Readable, InFlight
  <2> QED BY <1>2, <1>3, <2>1 DEF OldParts, OldKnown
<1>9. ASSUME NEW i \in Items \ forgotten' PROVE taken'[i] <= 1 /\ (taken'[i] = 1 => Own(i)')
  <2>1. taken[i] <= 1 /\ (taken[i] = 1 => Own(i))
    BY <1>2, <1>3 DEF OldParts
  <2>2. Own(i) => Own(i)'
    BY <1>2, <1>6 DEF Own
  <2> QED BY <1>2, <2>1, <2>2
<1> QED BY <1>5, <1>6, <1>7, <1>8, <1>9 DEF OldParts

LEMMA FetchedOld ==
  ASSUME FeedsTypeOK, OldItems \subseteq listed, OldInv, NEW p \in Polls, Fetched(p)
  PROVE  OldInv'
<1>1. /\ Others(p) /\ PollAt(p, "fetch") /\ feed' = feed
      /\ Readable' \subseteq Readable \cup {feed, Torn}
      /\ \/ polls'[p].pc \in {"idle", "save"}
         \/ polls'[p].pc = "items" /\ polls'[p].seen = ToSet(feed.seen) /\ polls'[p].todo = listed
  BY FetchedDoes
<1>2. UNCHANGED <<taken, forgotten, overlapped>>
  BY DEF Fetched
<1> SUFFICES ASSUME OldParts PROVE OldParts'
  BY <1>2 DEF OldInv
<1>3. Alone'
  <2>1. \A q \in Polls : PollAt(q, "idle") => PollAt(q, "idle")'
    BY <1>1 DEF Others, PollAt
  <2> QED BY <2>1 DEF OldParts, Alone
<1>4. OldKnown(feed)' /\ \A i \in OldItems \ forgotten' : taken'[i] = 0
  BY <1>1, <1>2 DEF OldParts, OldKnown
<1>5. ASSUME NEW content \in Readable' PROVE OldKnown(content)'
  <2>1. OldKnown(Torn)'
    BY DEF OldKnown, Torn
  <2>2. CASE content \in Readable
    BY <1>2, <2>2 DEF OldParts, OldKnown
  <2>3. CASE content = feed
    BY <1>2, <2>3 DEF OldParts, OldKnown
  <2> QED BY <1>1, <2>1, <2>2, <2>3
<1>6. ASSUME NEW q \in Polls \ {p}, Polling(q)' PROVE OldFound(q)'
  <2>1. polls'[q] = polls[q] /\ Polling(q)
    BY <1>1, <1>6 DEF Others, Polling, PollAt
  <2> QED BY <1>1, <1>2, <2>1 DEF OldParts, OldFound
<1>7. Polling(p)' => OldFound(p)'
  BY <1>1, <1>2 DEF Polling, PollAt, OldFound
<1>8. ASSUME NEW i \in Items \ forgotten' PROVE taken'[i] <= 1 /\ (taken'[i] = 1 => Own(i)')
  <2>1. taken[i] <= 1 /\ (taken[i] = 1 => Own(i))
    BY <1>2 DEF OldParts
  <2>2. Own(i) => Own(i)'
    <3>1. \A q \in Polls : Polling(q) => q # p /\ polls'[q] = polls[q] /\ Polling(q)'
      BY <1>1 DEF Others, Polling, PollAt
    <3> QED BY <1>1, <3>1 DEF Own
  <2> QED BY <1>2, <2>1, <2>2
<1> QED BY <1>3, <1>4, <1>5, <1>6, <1>7, <1>8 DEF OldParts

LEMMA ItemOld ==
  ASSUME FeedsTypeOK, OldInv, NEW p \in Polls, NEW j \in Items, Item(p, j)
  PROVE  OldInv'
<1>0. taken \in [Items -> 0..2] /\ OldItems \subseteq Items
  BY PollsTyped, FeedsAssumption
<1>1. PICK new \in BOOLEAN :
        /\ Treated(p, j, new)
        /\ new \/ Skipped(p, j) \/ (~Skipped(p, j) /\ ~OnlyMarked(j))
        /\ taken' = taken \/ (Captured(j) /\ new /\ ~Skipped(p, j) /\ ~OnlyMarked(j))
  BY DEF Item
<1>2. /\ Others(p) /\ polls'[p].pc = polls[p].pc /\ polls'[p].seen = polls[p].seen
      /\ polls'[p].todo = polls[p].todo \ {j}
      /\ ToSet(polls'[p].new) = ToSet(polls[p].new) \cup IF new THEN {j} ELSE {}
  BY <1>1, ItemDoes
<1>3. UNCHANGED <<feed, file, writing, forgotten, overlapped>> /\ Polling(p) /\ j \in polls[p].todo
  BY DEF Item, Polling
<1> SUFFICES ASSUME ~overlapped, OldParts PROVE OldParts'
  BY <1>3 DEF OldInv
<1>4. Alone'
  <2>1. \A q \in Polls : PollAt(q, "idle") <=> PollAt(q, "idle")'
    BY <1>2 DEF Others, PollAt
  <2> QED BY <2>1 DEF OldParts, Alone
<1>5. OldKnown(feed)' /\ \A content \in Readable' : OldKnown(content)'
  <2>1. Readable' = Readable
    BY <1>3 DEF Readable, InFlight
  <2> QED BY <1>3, <2>1 DEF OldParts, OldKnown
<1>6. OldFound(p) /\ OldKnown(feed)
  BY <1>3 DEF OldParts
<1>7. j \in OldItems /\ ~Skipped(p, j) /\ ~OnlyMarked(j) => j \in forgotten
  BY <1>6 DEF OldFound, OldKnown, Skipped, OnlyMarked
<1>8. OldFound(p)'
  <2>1. j \in OldItems => new \/ j \in ToSet(feed.seen) \cup forgotten
    BY <1>1, <1>6, <1>7 DEF OldFound, Skipped
  <2> QED BY <1>2, <1>3, <1>6, <2>1 DEF OldFound
<1>9. ASSUME NEW q \in Polls \ {p}, Polling(q)' PROVE OldFound(q)'
  <2>1. polls'[q] = polls[q] /\ Polling(q)
    BY <1>2, <1>9 DEF Others, Polling, PollAt
  <2> QED BY <1>3, <2>1 DEF OldParts, OldFound
<1>10. ASSUME NEW i \in OldItems \ forgotten' PROVE taken'[i] = 0
  <2>1. taken[i] = 0 /\ i \in Items /\ i \notin forgotten
    BY <1>0, <1>3 DEF OldParts
  <2>2. taken' = taken \/ (Captured(j) /\ i # j)
    BY <1>1, <1>7, <2>1
  <2> QED BY <1>0, <2>1, <2>2 DEF Captured
<1>11. ASSUME NEW i \in Items \ forgotten' PROVE taken'[i] <= 1 /\ (taken'[i] = 1 => Own(i)')
  <2>1. taken[i] <= 1 /\ (taken[i] = 1 => Own(i))
    BY <1>3 DEF OldParts
  <2>2. \A q \in Polls : Polling(q) => q = p
    BY <1>3 DEF OldParts, Alone, Polling, PollAt
  <2>3. Polling(p)'
    BY <1>2, <1>3 DEF Polling, PollAt
  <2>4. Own(i) => Own(i)'
    BY <1>2, <1>3, <2>2, <2>3 DEF Own
  <2>5. CASE taken'[i] = taken[i]
    BY <2>1, <2>4, <2>5
  <2>6. CASE taken'[i] # taken[i]
    <3>1. i = j /\ Captured(j) /\ new /\ ~Skipped(p, j)
      BY <1>0, <1>1, <2>6 DEF Captured
    <3>2. ~Own(j)
      BY <1>3, <1>6, <2>2, <3>1 DEF Own, OldFound, Skipped
    <3>3. taken[j] = 0
      BY <1>0, <2>1, <3>1, <3>2
    <3>4. taken'[j] = 1
      <4>1. Counted(j)
        BY <1>3, <3>1 DEF Counted
      <4>2. taken' = [taken EXCEPT ![j] = 1]
        BY <3>1, <3>3, <4>1 DEF Captured
      <4> QED BY <1>0, <4>2
    <3>5. Own(j)'
      BY <1>2, <2>3, <3>1 DEF Own
    <3> QED BY <3>1, <3>4, <3>5
  <2> QED BY <2>5, <2>6
<1> QED BY <1>4, <1>5, <1>8, <1>9, <1>10, <1>11 DEF OldParts

LEMMA FinishOld ==
  ASSUME FeedsTypeOK, OldInv, NEW p \in Polls, Finish(p)
  PROVE  OldInv'
<1>1. /\ polls'[p].pc \in {"idle", "save"} /\ Others(p)
      /\ forgotten \subseteq forgotten' /\ feed'.known = feed.known
      /\ ~feed.known => feed' = feed
      /\ feed.known => \A i \in ToSet(feed.seen) \cup ToSet(polls[p].new) : i \in ToSet(feed'.seen) \cup forgotten'
      /\ Readable' \subseteq Readable \cup {feed', Torn}
  BY FinishDoes
<1>2. overlapped' = overlapped /\ \A i \in Items : taken'[i] = taken[i] \/ taken'[i] = 0
  BY Recounted DEF Finish
<1>3. Polling(p) /\ polls[p].todo = {}
  BY DEF Finish, Polling
<1> SUFFICES ASSUME OldParts PROVE OldParts'
  BY <1>2 DEF OldInv
<1>4. \A q \in Polls : q # p => PollAt(q, "idle")
  BY <1>3 DEF OldParts, Alone, Polling, PollAt
<1>5. \A q \in Polls : q # p => PollAt(q, "idle")'
  BY <1>1, <1>4 DEF Others, PollAt
<1>6. Alone' /\ \A q \in Polls : ~Polling(q)' /\ ~PollAt(q, "fetch")'
  BY <1>1, <1>5 DEF Alone, Polling, PollAt
<1>7. OldKnown(feed)'
  <2>1. OldItems \subseteq ToSet(polls[p].new) \cup ToSet(feed.seen) \cup forgotten
    BY <1>3 DEF OldParts, OldFound
  <2>2. CASE feed.known
    BY <1>1, <2>1, <2>2 DEF OldKnown
  <2>3. CASE ~feed.known
    BY <1>1, <2>3 DEF OldParts, OldKnown
  <2> QED BY <2>2, <2>3
<1>8. ASSUME NEW content \in Readable' PROVE OldKnown(content)'
  <2>1. OldKnown(Torn)'
    BY DEF OldKnown, Torn
  <2>2. CASE content \in Readable
    BY <1>1, <2>2 DEF OldParts, OldKnown
  <2>3. CASE content = feed'
    BY <1>7, <2>3 DEF OldKnown
  <2> QED BY <1>1, <2>1, <2>2, <2>3
<1>9. \A i \in OldItems \ forgotten' : taken'[i] = 0
  BY <1>1, <1>2, FeedsAssumption DEF OldParts
<1>10. ASSUME NEW i \in Items \ forgotten' PROVE taken'[i] <= 1 /\ (taken'[i] = 1 => Own(i)')
  <2>1. taken[i] <= 1 /\ (taken[i] = 1 => Own(i))
    BY <1>1 DEF OldParts
  <2>2. \A q \in Polls : Polling(q) => q = p
    BY <1>4 DEF Polling, PollAt
  <2>3. Own(i) => i \in ToSet(feed.seen) \cup ToSet(polls[p].new)
    BY <1>3, <2>2 DEF Own
  <2>4. Own(i) => Own(i)'
    <3>1. CASE feed.known
      BY <1>1, <2>3, <3>1 DEF Own
    <3>2. CASE ~feed.known
      BY <1>1, <1>6, <3>2 DEF Own
    <3> QED BY <3>1, <3>2
  <2> QED BY <1>2, <2>1, <2>4
<1> QED BY <1>6, <1>7, <1>8, <1>9, <1>10 DEF OldParts

LEMMA OldKept ==
  ASSUME FeedsTypeOK, OldItems \subseteq listed, OldInv, FeedsNext
  PROVE  OldInv'
<1>1. ASSUME UNCHANGED <<polls, forgotten, overlapped>>, feed'.seen = feed.seen, ~feed.known => ~feed'.known,
             \A i \in Items : taken'[i] = taken[i] \/ taken'[i] = 0, Readable' \subseteq Readable \cup {feed', Torn}
      PROVE  OldInv'
  <2>1. OldParts => OldParts'
    BY <1>1, OldStill DEF PollAt, Polling
  <2> QED BY <1>1, <2>1 DEF OldInv
<1>2. CASE FeedTick
  BY <1>2, AskOld DEF FeedTick, Polls
<1>3. CASE Edit
  <2>1. feed'.seen = feed.seen /\ feed.known /\ Readable' \subseteq Readable \cup {feed', Torn}
    BY <1>3, EditDoes
  <2> QED BY <1>1, <1>3, <2>1 DEF Edit
<1>4. CASE EditSaved
  <2>1. Readable' \subseteq Readable
    BY <1>4, SavedDoes DEF EditSaved, Writers
  <2> QED BY <1>1, <1>4, <2>1 DEF EditSaved
<1>5. CASE FeedsRestart
  <2> SUFFICES ASSUME OldParts PROVE OldParts'
    BY <1>5 DEF OldInv, FeedsRestart
  <2>1. forgotten' = forgotten /\ \A i \in Items : taken'[i] = 0
    BY <1>5 DEF FeedsRestart
  <2>2. feed' \in Readable /\ Readable' = {feed'} /\ \A p \in Polls : polls'[p].pc = "idle"
    BY <1>5, RestartDoes
  <2>3. Alone' /\ \A p \in Polls : ~Polling(p)'
    BY <2>2 DEF Alone, Polling, PollAt
  <2>4. OldKnown(feed)' /\ \A content \in Readable' : OldKnown(content)'
    BY <2>1, <2>2 DEF OldParts, OldKnown
  <2> QED BY <2>1, <2>3, <2>4, FeedsAssumption DEF OldParts
<1>6. ASSUME NEW p \in Polls, PollOne(p) PROVE OldInv'
  BY <1>6, AskOld DEF PollOne
<1>7. ASSUME NEW p \in Polls, PollSaved(p) PROVE OldInv'
  <2> SUFFICES ASSUME OldParts PROVE OldParts'
    BY <1>7 DEF OldInv, PollSaved
  <2>1. UNCHANGED <<feed, taken, forgotten>>
    BY <1>7 DEF PollSaved
  <2>2. Others(p) /\ polls'[p].pc = "idle" /\ PollAt(p, "save") /\ Readable' \subseteq Readable
    BY <1>7, PollSavedDoes
  <2>3. \A q \in Polls : /\ PollAt(q, "idle") => PollAt(q, "idle")'
                         /\ Polling(q)' <=> Polling(q)
                         /\ Polling(q) => polls'[q] = polls[q]
                         /\ PollAt(q, "fetch")' => PollAt(q, "fetch")
    BY <2>2 DEF Others, Polling, PollAt
  <2>4. Readable' \subseteq Readable \cup {feed', Torn} /\ feed'.seen = feed.seen /\ (~feed.known => ~feed'.known)
    BY <2>1, <2>2
  <2> QED BY <2>1, <2>3, <2>4, OldStill
<1>8. ASSUME NEW i \in Items, Publish(i) \/ KeyExpires(i) PROVE OldInv'
  <2>1. UNCHANGED <<feed, file, writing, polls, forgotten, overlapped>>
    BY <1>8 DEF Publish, KeyExpires
  <2>2. Readable' = Readable
    BY <2>1 DEF Readable, InFlight
  <2>3. \A j \in Items : taken'[j] = taken[j] \/ taken'[j] = 0
    BY <1>8, Recounted DEF Publish, KeyExpires
  <2> QED BY <1>1, <2>1, <2>2, <2>3
<1>9. (\E p \in Polls : PollOne(p) \/ Fetched(p) \/ Finish(p) \/ PollSaved(p) \/ \E i \in Items : Item(p, i)) => OldInv'
  BY <1>6, <1>7, FetchedOld, FinishOld, ItemOld
<1> QED BY <1>2, <1>3, <1>4, <1>5, <1>8, <1>9 DEF FeedsNext

-----------------------------------------------------------------------------
(* The theorem *)

LEMMA InitFeeds == FeedsInit => FeedsInv
<1> SUFFICES ASSUME FeedsInit PROVE FeedsInv
  OBVIOUS
<1>1. /\ feed = [known |-> TRUE, enabled |-> TRUE, etag |-> 0, seen |-> <<>>] /\ listed = OldItems
      /\ file = {feed} /\ writing = [w \in Writers |-> {}]
      /\ polls = [p \in Polls |-> NotPolling] /\ polling = FALSE /\ overlapped = FALSE /\ outlasted = FALSE
      /\ recent = {} /\ taken = [i \in Items |-> 0] /\ forgotten = {} /\ arrived = {}
      /\ wanted = TRUE /\ requested = {} /\ restarts = 0 /\ edits = 0
  BY DEF FeedsInit
<1>2. feed \in Contents /\ feed.seen = <<>>
  <2>1. 0 \in 0..Cardinality(Items)
    BY Versions
  <2>2. TRUE \in BOOLEAN
    OBVIOUS
  <2> QED BY <1>1, <2>1, <2>2 DEF Contents
<1>3. FeedsTypeOK
  <2>1. polls \in [Polls -> PollRecord]
    BY <1>1, NotPollingTyped
  <2>2. /\ listed \subseteq Items /\ taken \in [Items -> 0..2] /\ restarts \in 0..MaxRestarts
        /\ edits \in 0..MaxEdits
    BY <1>1, FeedsAssumption
  <2>3. polling \in BOOLEAN /\ overlapped \in BOOLEAN /\ outlasted \in BOOLEAN /\ wanted \in BOOLEAN
    BY <1>1
  <2>4. file \subseteq Contents /\ writing \in [Writers -> SUBSET Contents]
    BY <1>1, <1>2
  <2> QED BY <1>1, <1>2, <2>1, <2>2, <2>3, <2>4 DEF FeedsTypeOK, PollRecord
<1>4. \A p \in Polls : PollAt(p, "idle") /\ ~Polling(p)
  BY <1>1, NotPollingTyped DEF PollAt, Polling
<1>5. OnceInv
  BY <1>1 DEF OnceInv, OnceFor
<1>6. OldParts
  <2>1. \A i \in Items : taken[i] = 0
    BY <1>1
  <2>2. InFlight = {}
    BY <1>1 DEF InFlight
  <2>3. Readable = {feed}
    BY <1>1, <2>2 DEF Readable
  <2> QED BY <1>2, <1>4, <2>1, <2>3, FeedsAssumption DEF OldParts, Alone, OldKnown
<1> QED BY <1>1, <1>3, <1>5, <1>6 DEF FeedsInv, OldInv

LEMMA FeedsStep == FeedsInv /\ [FeedsNext]_feedsVars => FeedsInv'
<1> SUFFICES ASSUME FeedsInv, [FeedsNext]_feedsVars PROVE FeedsInv'
  OBVIOUS
<1>1. CASE FeedsNext
  <2>1. FeedsTypeOK'
    BY <1>1, FeedsTyped DEF FeedsInv
  <2>2. OnceInv' /\ OldInv'
    BY <1>1, OnceKept, OldKept DEF FeedsInv
  <2>3. listed \subseteq listed'
    BY <1>1 DEF FeedsNext, FeedTick, PollOne, Ask, Edit, EditSaved, FeedsRestart, Fetched, Finish, PollSaved, Item,
                Publish, KeyExpires
  <2> QED BY <2>1, <2>2, <2>3 DEF FeedsInv
<1>2. CASE UNCHANGED feedsVars
  <2>1. UNCHANGED <<feed, file, writing, listed, polls, polling, recent, taken, forgotten, arrived, overlapped,
                    outlasted, wanted, requested, restarts, edits>>
    BY <1>2 DEF feedsVars
  <2>2. FeedsTypeOK'
    BY <2>1 DEF FeedsInv, FeedsTypeOK, Contents
  <2>3. OnceInv'
    BY <2>1 DEF FeedsInv, OnceInv, OnceFor, Traced, Remembered, Polling, PollAt
  <2>4. OldInv'
    <3>1. Readable' = Readable
      BY <2>1 DEF Readable, InFlight
    <3> QED BY <2>1, <3>1 DEF FeedsInv, OldInv, OldParts, Alone, OldKnown, OldFound, Own, Polling, PollAt
  <2> QED BY <2>1, <2>2, <2>3, <2>4 DEF FeedsInv
<1> QED BY <1>1, <1>2

\* Feeds: an item becomes a capture once in a life of the server, however the polls of a feed overlap,
\* but for a window of Inbox.add that ends while one of two overlapping polls is at work with an older
\* copy, and for items that fell out of the seen ones; without overlapping polls it holds whatever the
\* windows, and what is older than the subscription is not captured, whatever a restart reads.
THEOREM CapturedOnce == FeedsInit /\ [][FeedsNext]_feedsVars => []ItemsOnce
<1>1. FeedsInv => ItemsOnce
  <2> SUFFICES ASSUME FeedsInv, NEW i \in Items \ forgotten
               PROVE  /\ ~(overlapped /\ outlasted) => taken[i] <= 1
                      /\ i \in OldItems /\ ~overlapped => taken[i] = 0
    BY DEF ItemsOnce
  <2>1. ~outlasted => taken[i] <= 1
    BY DEF FeedsInv, OnceInv, OnceFor
  <2>2. ~overlapped => taken[i] <= 1 /\ (i \in OldItems => taken[i] = 0)
    BY DEF FeedsInv, OldInv, OldParts
  <2> QED BY <2>1, <2>2
<1> QED BY <1>1, InitFeeds, FeedsStep, PTL
=============================================================================
