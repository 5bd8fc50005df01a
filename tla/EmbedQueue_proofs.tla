-------------------------- MODULE EmbedQueue_proofs --------------------------
(***************************************************************************)
(* The queues, the rotation and the caps of the embedding service for any  *)
(* number of vaults, requests and texts, and the share of bulk requests.   *)
(*                                                                         *)
(* Everything rests on QueueInv: a request is in the queue of its vault    *)
(* and nowhere else, a vault with requests is in the rotation or in the    *)
(* model, and what is in the model was started.                            *)
(***************************************************************************)
EXTENDS EmbedQueue, FiniteSetTheorems, SequenceTheorems, WellFoundedInduction, TLAPS

-----------------------------------------------------------------------------
(* Sequences without repetition *)

Distinct(s) == \A i, j \in 1..Len(s) : s[i] = s[j] => i = j

\* A non-empty set of natural numbers has a least element.
LEMMA LeastNat ==
  ASSUME NEW T \in SUBSET Nat, T # {}
  PROVE  \E x \in T : \A y \in T : x <= y
<1>1. IsWellFoundedOn(OpToRel(<, Nat), Nat)
  BY NatLessThanWellFounded
<1>2. PICK R : R = OpToRel(<, Nat)
  OBVIOUS
<1>3. \A x, y \in Nat : x < y => <<x, y>> \in R
  BY <1>2, Zenon DEF OpToRel
<1>4. PICK x \in T : \A y \in T : ~(<<y, x>> \in R)
  BY <1>1, <1>2, WFMin, Zenon
<1>5. \A y \in T : ~(y < x)
  BY <1>3, <1>4
<1> QED BY <1>5

LEMMA MinIsIn ==
  ASSUME NEW T \in SUBSET Nat, T # {}
  PROVE  Min(T) \in T
<1>1. \E x \in T : \A y \in T : x =< y
  BY LeastNat
<1> QED BY <1>1 DEF Min

\* What a sequence is without its i-th element.
LEMMA RemoveAtProperties ==
  ASSUME NEW S, NEW s \in Seq(S), NEW i \in 1..Len(s)
  PROVE  /\ RemoveAt(s, i) \in Seq(S) /\ Len(RemoveAt(s, i)) = Len(s) - 1
         /\ \A j \in 1..Len(s) - 1 : RemoveAt(s, i)[j] = IF j < i THEN s[j] ELSE s[j + 1]
<1> DEFINE a == SubSeq(s, 1, i - 1)
           b == SubSeq(s, i + 1, Len(s))
<1>0. Len(s) \in Nat /\ i \in Nat /\ i >= 1 /\ i <= Len(s)
  OBVIOUS
<1>1. a \in Seq(S) /\ Len(a) = i - 1 /\ \A j \in 1..(i - 1) : a[j] = s[j]
  BY <1>0, SubSeqProperties
<1>2. b \in Seq(S) /\ Len(b) = Len(s) - i /\ \A j \in 1..(Len(s) - i) : b[j] = s[i + j]
  BY <1>0, SubSeqProperties
<1>3. RemoveAt(s, i) = a \o b
  BY DEF RemoveAt
<1> HIDE DEF a, b
<1>4. a \o b \in Seq(S) /\ Len(a \o b) = Len(s) - 1
  <2>1. a \o b \in Seq(S) /\ Len(a \o b) = Len(a) + Len(b)
    BY <1>1, <1>2, ConcatProperties
  <2> QED BY <1>0, <1>1, <1>2, <2>1
<1>5. ASSUME NEW j \in 1..(Len(s) - 1) PROVE (a \o b)[j] = IF j < i THEN s[j] ELSE s[j + 1]
  <2>1. (a \o b)[j] = IF j <= Len(a) THEN a[j] ELSE b[j - Len(a)]
    BY <1>0, <1>1, <1>2, ConcatProperties
  <2> QED BY <1>0, <1>1, <1>2, <2>1
<1> QED BY <1>3, <1>4, <1>5

LEMMA RemoveAtDistinct ==
  ASSUME NEW S, NEW s \in Seq(S), Distinct(s), NEW i \in 1..Len(s)
  PROVE  Distinct(RemoveAt(s, i)) /\ ToSet(RemoveAt(s, i)) = ToSet(s) \ {s[i]}
<1> DEFINE t == RemoveAt(s, i)
<1>0. /\ t \in Seq(S) /\ Len(t) = Len(s) - 1 /\ Len(s) \in Nat
      /\ \A j \in 1..(Len(s) - 1) : t[j] = IF j < i THEN s[j] ELSE s[j + 1]
  BY RemoveAtProperties
<1> HIDE DEF t
<1>1. Distinct(t)
  BY <1>0 DEF Distinct
<1>2. \A x : x \in ToSet(t) <=> \E j \in 1..Len(t) : t[j] = x
  BY <1>0 DEF ToSet
<1>3. \A x : x \in ToSet(s) <=> \E j \in 1..Len(s) : s[j] = x
  BY DEF ToSet
<1>4. ASSUME NEW x \in ToSet(t) PROVE x \in ToSet(s) \ {s[i]}
  <2> PICK j \in 1..Len(t) : t[j] = x
    BY <1>2
  <2> QED BY <1>0, <1>3 DEF Distinct
<1>5. ASSUME NEW x \in ToSet(s), x # s[i] PROVE x \in ToSet(t)
  <2> PICK j \in 1..Len(s) : s[j] = x
    BY <1>3
  <2>1. CASE j < i
    BY <1>0, <1>2, <2>1
  <2>2. CASE j > i
    <3>1. j - 1 \in 1..Len(t) /\ t[j - 1] = x
      BY <1>0, <2>2
    <3> QED BY <1>2, <3>1
  <2> QED BY <1>5, <2>1, <2>2
<1> QED BY <1>1, <1>4, <1>5 DEF t

LEMMA RemoveFirstDistinct ==
  ASSUME NEW S, NEW s \in Seq(S), Distinct(s), NEW e
  PROVE  LET t == RemoveFirst(s, e)
         IN /\ t \in Seq(S) /\ Distinct(t) /\ ToSet(t) = ToSet(s) \ {e}
            /\ e \in ToSet(s) => Len(t) = Len(s) - 1
            /\ e \notin ToSet(s) => t = s
<1> DEFINE I == {i \in 1..Len(s) : s[i] = e}
<1>0. e \in ToSet(s) <=> \E i \in 1..Len(s) : s[i] = e
  BY DEF ToSet
<1>1. CASE e \notin ToSet(s)
  <2>1. RemoveFirst(s, e) = s
    BY <1>0, <1>1 DEF RemoveFirst
  <2> QED BY <1>1, <2>1
<1>2. CASE e \in ToSet(s)
  <2>1. I # {} /\ I \in SUBSET Nat
    BY <1>0, <1>2
  <2>2. PICK i : i = Min(I)
    OBVIOUS
  <2>3. i \in 1..Len(s) /\ s[i] = e
    BY <2>1, <2>2, MinIsIn
  <2>4. SelectInSeq(s, LAMBDA v : v = e) = i
    BY <2>1, <2>2 DEF SelectInSeq
  <2>5. RemoveFirst(s, e) = RemoveAt(s, i)
    BY <1>0, <1>2, <2>4 DEF RemoveFirst
  <2> HIDE DEF I
  <2>6. PICK t : t = RemoveAt(s, i)
    OBVIOUS
  <2>7. t \in Seq(S) /\ Len(t) = Len(s) - 1
    BY <2>3, <2>6, RemoveAtProperties
  <2>8. Distinct(t) /\ ToSet(t) = ToSet(s) \ {e}
    BY <2>3, <2>6, RemoveAtDistinct
  <2>9. RemoveFirst(s, e) = t
    BY <2>5, <2>6
  <2> QED BY <1>2, <2>7, <2>8, <2>9
<1> QED BY <1>1, <1>2

LEMMA AppendDistinct ==
  ASSUME NEW S, NEW s \in Seq(S), Distinct(s), NEW e \in S, e \notin ToSet(s)
  PROVE  /\ Append(s, e) \in Seq(S) /\ Distinct(Append(s, e)) /\ ToSet(Append(s, e)) = ToSet(s) \cup {e}
         /\ Len(Append(s, e)) = Len(s) + 1
<1> DEFINE t == Append(s, e)
<1>0. /\ t \in Seq(S) /\ Len(t) = Len(s) + 1 /\ Len(s) \in Nat
      /\ \A j \in 1..Len(s) : t[j] = s[j] /\ t[Len(s) + 1] = e
  BY AppendProperties
<1>1. t[Len(s) + 1] = e
  BY AppendProperties
<1> HIDE DEF t
<1>2. \A x : x \in ToSet(t) <=> \E j \in 1..Len(t) : t[j] = x
  BY <1>0 DEF ToSet
<1>3. \A x : x \in ToSet(s) <=> \E j \in 1..Len(s) : s[j] = x
  BY DEF ToSet
<1>4. Distinct(t)
  BY <1>0, <1>1, <1>3 DEF Distinct
<1>5. ToSet(t) = ToSet(s) \cup {e}
  BY <1>0, <1>1, <1>2, <1>3
<1> QED BY <1>0, <1>4, <1>5 DEF t

LEMMA ContainsIsIn ==
  ASSUME NEW S, NEW s \in Seq(S), NEW e
  PROVE  Contains(s, e) <=> e \in ToSet(s)
  BY DEF Contains, ToSet

-----------------------------------------------------------------------------
(* The invariant *)

Queued == {r \in Requests : job[r] # NoJob}

\* A request is in the queue of its vault, once.
QueueOfVault ==
  \A v \in Vaults : Distinct(queues[v]) /\ ToSet(queues[v]) = {r \in Requests : job[r].vault = v}

\* A vault with requests is in the rotation, once, or in the model.
VaultInTurn ==
  /\ Distinct(rotation)
  /\ ToSet(rotation) = {v \in Vaults : queues[v] # <<>>} \ {current}

\* The request in the model was started, and nothing else makes the pump wait.
InTheModel ==
  /\ pump = "infer" <=> running # NoRequest
  /\ current = NoVault <=> running = NoRequest
  /\ running # NoRequest => job[running].vault = current /\ job[running].started

\* The counter and the caps.
CountIsReal == IsFiniteSet(Queued) /\ total = Cardinality(Queued) /\ total <= MaxQueue
CapsKept == \A v \in Vaults : Len(queues[v]) <= MaxPendingPerVault

QueueInv ==
  /\ TypeOK
  /\ QueueOfVault /\ VaultInTurn /\ InTheModel
  /\ CountIsReal /\ CapsKept
  /\ pump = "idle" => total = 0
  /\ row <= streak

\* Which vault a request is for says whether it is known.
LEMMA KnownByVault ==
  ASSUME TypeOK, NEW r \in Requests
  PROVE  job[r].vault \in Vaults <=> job[r] # NoJob
<1>1. job[r] \in Job \cup {NoJob}
  BY DEF TypeOK
<1>2. job[r] \in Job => job[r].vault \in Vaults
  BY DEF Job
<1>3. NoJob.vault = NoVault
  BY DEF NoJob
<1> QED BY <1>1, <1>2, <1>3, EmbedAssumption

LEMMA QueueFacts ==
  ASSUME QueueInv, NEW v \in Vaults
  PROVE  /\ queues[v] \in Seq(Requests) /\ Len(queues[v]) \in Nat /\ Distinct(queues[v])
         /\ ToSet(queues[v]) = {r \in Requests : job[r].vault = v}
         /\ \A i \in DOMAIN queues[v] : queues[v][i] \in ToSet(queues[v]) /\ queues[v][i] \in Requests
         /\ queues[v] = <<>> <=> \A r \in Requests : job[r].vault # v
<1>1. queues[v] \in Seq(Requests) /\ Distinct(queues[v])
  BY DEF QueueInv, TypeOK, QueueOfVault
<1>2. ToSet(queues[v]) = {r \in Requests : job[r].vault = v}
  BY DEF QueueInv, QueueOfVault
<1>3. \A i \in DOMAIN queues[v] : queues[v][i] \in ToSet(queues[v])
  BY DEF ToSet
<1>4. ToSet(queues[v]) = {} <=> queues[v] = <<>>
  <2> PICK s : s = queues[v]
    OBVIOUS
  <2>1. s \in Seq(Requests) /\ (Len(s) = 0 <=> s = <<>>) /\ Len(s) \in Nat /\ DOMAIN s = 1..Len(s)
    BY <1>1, EmptySeq
  <2>2. \A x : x \in ToSet(s) <=> \E i \in 1..Len(s) : s[i] = x
    BY <2>1 DEF ToSet
  <2>3. Len(s) = 0 => ToSet(s) = {}
    BY <2>2
  <2>4. Len(s) # 0 => s[1] \in ToSet(s)
    BY <2>1, <2>2
  <2> QED BY <2>1, <2>3, <2>4
<1> QED BY <1>1, <1>2, <1>3, <1>4

\* A request that a scan of a queue finds.
LEMMA FirstLiveIs ==
  ASSUME QueueInv, NEW v \in Vaults, NEW priority
  PROVE  \/ ~HasLive(v, priority) /\ FirstLive(v, priority) = NoRequest
         \/ /\ HasLive(v, priority) /\ FirstLive(v, priority) \in Requests
            /\ job[FirstLive(v, priority)].vault = v /\ job[FirstLive(v, priority)].priority = priority
<1> DEFINE s == queues[v]
           I == {j \in 1..Len(s) : Live(s[j], priority)}
<1>0. s \in Seq(Requests) /\ DOMAIN s = 1..Len(s)
  BY QueueFacts
<1>1. PICK i : i = IF I # {} THEN Min(I) ELSE 0
  OBVIOUS
<1>2. SelectInSeq(s, LAMBDA r : Live(r, priority)) = i
  BY <1>1 DEF SelectInSeq
<1>3. FirstLive(v, priority) = IF i = 0 THEN NoRequest ELSE s[i]
  BY <1>2 DEF FirstLive
<1>4. CASE I = {}
  BY <1>0, <1>1, <1>3, <1>4 DEF HasLive
<1>5. CASE I # {}
  <2>1. i \in I
    <3>1. I \in SUBSET Nat
      OBVIOUS
    <3> HIDE DEF I
    <3> QED BY <1>1, <1>5, <3>1, MinIsIn
  <2>2. FirstLive(v, priority) = s[i] /\ HasLive(v, priority) /\ Live(s[i], priority)
    BY <1>0, <1>3, <2>1 DEF HasLive
  <2>3. s[i] \in Requests /\ job[s[i]].vault = v
    BY <1>0, <2>1, QueueFacts
  <2> QED BY <2>2, <2>3 DEF Live
<1> QED BY <1>4, <1>5

\* What a pass of nextJob finds at a vault in turn.
LEMMA CandidateIs ==
  ASSUME QueueInv, NEW v \in ToSet(rotation)
  PROVE  /\ v \in Vaults /\ queues[v] # <<>> /\ v # current
         /\ \/ Candidate(v) = NoRequest
            \/ /\ Candidate(v) \in Requests /\ job[Candidate(v)].vault = v
               /\ BulkTurn => ~job[Candidate(v)].priority
<1>1. v \in Vaults /\ queues[v] # <<>> /\ v # current
  BY DEF QueueInv, VaultInTurn
<1>2. queues[v][1] \in Requests /\ job[queues[v][1]].vault = v
  BY <1>1, QueueFacts
<1>3. CASE BulkTurn
  BY <1>1, <1>3, FirstLiveIs DEF Candidate
<1>4. CASE ~BulkTurn
  BY <1>1, <1>2, <1>4, FirstLiveIs DEF Candidate
<1> QED BY <1>1, <1>3, <1>4

\* As long as a vault is in the rotation some vault is taken.
LEMMA SomebodyIsNext ==
  ASSUME QueueInv, rotation # <<>>
  PROVE  \E i \in 1..Len(rotation) : Candidate(rotation[i]) # NoRequest
<1>0. rotation \in Seq(Vaults) /\ DOMAIN rotation = 1..Len(rotation) /\ Len(rotation) \in Nat /\ Len(rotation) >= 1
  BY DEF QueueInv, TypeOK
<1>1. \A i \in 1..Len(rotation) : rotation[i] \in ToSet(rotation) /\ rotation[i] \in Vaults
  BY <1>0 DEF ToSet
<1>2. CASE BulkTurn
  <2>1. PICK i \in 1..Len(rotation) : HasLive(rotation[i], FALSE)
    BY <1>0, <1>2 DEF BulkTurn, BulkWaits
  <2>2. FirstLive(rotation[i], FALSE) \in Requests
    BY <1>1, <2>1, FirstLiveIs
  <2> QED BY <1>2, <2>2, EmbedAssumption DEF Candidate
<1>3. CASE ~BulkTurn /\ \E i \in DOMAIN rotation : HasLive(rotation[i], TRUE)
  <2>1. PICK i \in 1..Len(rotation) : HasLive(rotation[i], TRUE)
    BY <1>0, <1>3
  <2>2. FirstLive(rotation[i], TRUE) \in Requests
    BY <1>1, <2>1, FirstLiveIs
  <2> QED BY <1>3, <2>2, EmbedAssumption DEF Candidate
<1>4. CASE ~BulkTurn /\ ~\E i \in DOMAIN rotation : HasLive(rotation[i], TRUE)
  <2>1. 1 \in 1..Len(rotation) /\ queues[rotation[1]] # <<>>
    BY <1>0, <1>1, CandidateIs
  <2>2. queues[rotation[1]][1] \in Requests
    BY <1>1, <2>1, QueueFacts
  <2> QED BY <1>4, <2>1, <2>2, EmbedAssumption DEF Candidate
<1> QED BY <1>2, <1>3, <1>4

LEMMA TurnIs ==
  ASSUME QueueInv
  PROVE  \/ Turn = 0 /\ rotation = <<>>
         \/ Turn \in 1..Len(rotation) /\ Candidate(rotation[Turn]) # NoRequest
<1> DEFINE I == {j \in 1..Len(rotation) : Candidate(rotation[j]) # NoRequest}
<1>1. Turn = IF I # {} THEN Min(I) ELSE 0
  BY DEF Turn, SelectInSeq
<1>2. I # {} => Min(I) \in I
  BY MinIsIn
<1>3. rotation # <<>> => I # {}
  BY SomebodyIsNext
<1> HIDE DEF I
<1>4. I # {} => Turn \in I
  BY <1>1, <1>2
<1> QED BY <1>1, <1>3, <1>4 DEF I

\* The pump's loop ends only when nothing is queued.
LEMMA NothingIsLeft ==
  ASSUME QueueInv, pump # "infer", rotation = <<>>
  PROVE  total = 0
<1>1. current = NoVault
  BY DEF QueueInv, InTheModel
<1>2. ToSet(rotation) = {}
  BY DEF ToSet
<1>3. \A v \in Vaults : queues[v] = <<>>
  BY <1>1, <1>2, EmbedAssumption DEF QueueInv, VaultInTurn
<1>4. \A r \in Requests : job[r].vault \notin Vaults
  BY <1>3, QueueFacts
<1>5. Queued = {}
  BY <1>4, KnownByVault DEF QueueInv, Queued
<1> QED BY <1>5, FS_EmptySet DEF QueueInv, CountIsReal

-----------------------------------------------------------------------------
(* remove() *)

\* A request that is over is in no queue, and every other stays where it is.
LEMMA QueuesWithout ==
  ASSUME QueueInv, NEW r \in Requests, job[r] # NoJob, NEW rot,
         job' = [job EXCEPT ![r] = NoJob], queues' = Dropped(r, queues, rot).queues
  PROVE  /\ job' \in [Requests -> Job \cup {NoJob}]
         /\ queues' \in [Vaults -> Seq(Requests)]
         /\ QueueOfVault' /\ CapsKept'
         /\ \A v \in Vaults \ {job[r].vault} : queues'[v] = queues[v]
         /\ queues'[job[r].vault] = RemoveFirst(queues[job[r].vault], r)
<1> PICK v : v = job[r].vault
  OBVIOUS
<1>0. /\ TypeOK /\ v \in Vaults /\ job \in [Requests -> Job \cup {NoJob}]
      /\ queues \in [Vaults -> Seq(Requests)]
  BY KnownByVault DEF QueueInv, TypeOK
<1> PICK rest : rest = RemoveFirst(queues[v], r)
  OBVIOUS
<1>1. queues' = [queues EXCEPT ![v] = rest]
  BY DEF Dropped
<1>2. r \in ToSet(queues[v])
  BY <1>0, QueueFacts
<1>3. rest \in Seq(Requests) /\ Distinct(rest) /\ ToSet(rest) = ToSet(queues[v]) \ {r}
      /\ Len(rest) = Len(queues[v]) - 1
  <2>1. queues[v] \in Seq(Requests) /\ Distinct(queues[v])
    BY <1>0, QueueFacts
  <2> QED BY <1>2, <2>1, RemoveFirstDistinct
<1>4. job' \in [Requests -> Job \cup {NoJob}] /\ queues' \in [Vaults -> Seq(Requests)]
  BY <1>0, <1>1, <1>3
<1>5. queues'[v] = rest /\ \A w \in Vaults \ {v} : queues'[w] = queues[w]
  BY <1>0, <1>1
<1>6. job'[r] = NoJob /\ \A q \in Requests \ {r} : job'[q] = job[q]
  BY <1>0
<1>7. NoJob.vault \notin Vaults
  BY EmbedAssumption DEF NoJob
<1>8. ASSUME NEW w \in Vaults
      PROVE  Distinct(queues'[w]) /\ ToSet(queues'[w]) = {q \in Requests : job'[q].vault = w}
  <2>1. CASE w = v
    BY <1>0, <1>3, <1>5, <1>6, <1>7, <2>1, QueueFacts
  <2>2. CASE w # v
    BY <1>0, <1>5, <1>6, <1>7, <2>2, QueueFacts
  <2> QED BY <2>1, <2>2
<1>9. CapsKept'
  <2>1. \A w \in Vaults : Len(queues[w]) <= MaxPendingPerVault /\ Len(queues[w]) \in Nat
    BY QueueFacts DEF QueueInv, CapsKept
  <2> QED BY <1>0, <1>3, <1>5, <2>1, EmbedAssumption DEF CapsKept
<1> QED BY <1>4, <1>5, <1>8, <1>9 DEF QueueOfVault

\* The counter goes down with it.
LEMMA OneLess ==
  ASSUME QueueInv, NEW r \in Requests, job[r] # NoJob,
         job' = [job EXCEPT ![r] = NoJob], total' = total - 1
  PROVE  CountIsReal' /\ total' \in Nat /\ total # 0
<1>1. job \in [Requests -> Job \cup {NoJob}]
  BY DEF QueueInv, TypeOK
<1>2. Queued' = Queued \ {r} /\ r \in Queued
  BY <1>1 DEF Queued
<1>3. IsFiniteSet(Queued) /\ total = Cardinality(Queued) /\ total <= MaxQueue /\ total \in Nat /\ MaxQueue \in Nat
  BY EmbedAssumption DEF QueueInv, CountIsReal, TypeOK
<1>4. IsFiniteSet(Queued') /\ Cardinality(Queued') = Cardinality(Queued) - 1
  BY <1>2, <1>3, FS_RemoveElement
<1>5. total # 0
  BY <1>2, <1>3, FS_EmptySet
<1> QED BY <1>3, <1>4, <1>5 DEF CountIsReal

\* The rotation without a vault whose queue became empty.
LEMMA RotationWithout ==
  ASSUME NEW rot \in Seq(Vaults), Distinct(rot), NEW r, NEW q
  PROVE  LET done == Dropped(r, q, rot)
             v    == job[r].vault
         IN /\ done.rotation \in Seq(Vaults) /\ Distinct(done.rotation)
            /\ ToSet(done.rotation) = IF RemoveFirst(q[v], r) = <<>> THEN ToSet(rot) \ {v} ELSE ToSet(rot)
  BY RemoveFirstDistinct DEF Dropped

\* The rotation when a vault comes back from the model.
LEMMA RotationWith ==
  ASSUME NEW rot \in Seq(Vaults), Distinct(rot), NEW v \in Vaults, NEW q
  PROVE  /\ Rotated(v, q, rot) \in Seq(Vaults) /\ Distinct(Rotated(v, q, rot))
         /\ ToSet(Rotated(v, q, rot)) = IF q[v] # <<>> THEN ToSet(rot) \cup {v} ELSE ToSet(rot)
<1>1. Contains(rot, v) <=> v \in ToSet(rot)
  BY ContainsIsIn
<1> QED BY ZenonT(30), <1>1, AppendDistinct DEF Rotated

-----------------------------------------------------------------------------
(* The steps *)

\* A step that leaves every request where it is.
LEMMA RequestsKept ==
  ASSUME QueueInv, job' \in [Requests -> Job \cup {NoJob}], queues' = queues, total' = total,
         \A q \in Requests : job'[q].vault = job[q].vault
  PROVE  QueueOfVault' /\ CapsKept' /\ CountIsReal' /\ queues' \in [Vaults -> Seq(Requests)]
<1>0. TypeOK /\ job \in [Requests -> Job \cup {NoJob}]
  BY DEF QueueInv, TypeOK
<1>1. \A q \in Requests : job'[q] # NoJob <=> job'[q].vault \in Vaults
  BY EmbedAssumption DEF Job, NoJob
<1>2. Queued' = Queued
  BY <1>0, <1>1, KnownByVault DEF Queued
<1>3. CountIsReal'
  BY <1>2 DEF QueueInv, CountIsReal
<1>4. QueueOfVault' /\ CapsKept' /\ queues' \in [Vaults -> Seq(Requests)]
  BY DEF QueueInv, QueueOfVault, CapsKept, TypeOK
<1> QED BY <1>3, <1>4

LEMMA PickEnds ==
  ASSUME QueueInv, Pick, Turn = 0
  PROVE  QueueInv'
<1>1. pump # "infer" /\ pump' = "idle" /\ pump' # "infer"
      /\ UNCHANGED <<job, queues, rotation, current, running, total, streak, row>>
  BY DEF Pick
<1>2. rotation = <<>>
  BY TurnIs, SMT DEF QueueInv
<1>3. total' = 0
  BY <1>1, <1>2, NothingIsLeft
<1> QED BY <1>1, <1>3 DEF QueueInv, TypeOK, QueueOfVault, VaultInTurn, InTheModel, CountIsReal, CapsKept,
                          Queued

\* What a pick takes.
LEMMA PickTakes ==
  ASSUME QueueInv, Pick, Turn # 0
  PROVE  \E i \in 1..Len(rotation), v \in Vaults, r \in Requests :
           /\ v = rotation[i] /\ queues[v] # <<>> /\ job[r].vault = v /\ job[r] # NoJob
           /\ BulkTurn => ~job[r].priority
           /\ Take(i, r)
<1>1. Turn \in 1..Len(rotation) /\ Candidate(rotation[Turn]) # NoRequest
  BY TurnIs
<1>2. PICK i : i = Turn
  OBVIOUS
<1>3. Take(i, Candidate(rotation[i]))
  BY <1>1, <1>2 DEF Pick
<1>4. rotation[i] \in ToSet(rotation)
  BY <1>1, <1>2 DEF ToSet, QueueInv, TypeOK
<1>5. /\ rotation[i] \in Vaults /\ queues[rotation[i]] # <<>>
      /\ Candidate(rotation[i]) \in Requests /\ job[Candidate(rotation[i])].vault = rotation[i]
      /\ BulkTurn => ~job[Candidate(rotation[i])].priority
  BY <1>1, <1>2, <1>4, CandidateIs
<1>6. job[Candidate(rotation[i])] # NoJob
  BY <1>5, KnownByVault DEF QueueInv
<1> QED BY <1>1, <1>2, <1>3, <1>5, <1>6

\* Short texts are counted once more only while it is not the turn of bulk.
LEMMA TakeCounts ==
  ASSUME QueueInv, NEW i, NEW r \in Requests, job[r] # NoJob, BulkTurn => ~job[r].priority, Take(i, r)
  PROVE  streak' \in 0..BulkEvery /\ row' \in 0..BulkEvery + 1 /\ row' <= streak'
<1>1. streak \in 0..BulkEvery /\ row \in 0..BulkEvery + 1 /\ row <= streak /\ BulkEvery \in Nat \ {0}
  BY EmbedAssumption DEF QueueInv, TypeOK
<1>2. streak' = IF ~job[r].priority THEN 0 ELSE IF streak < BulkEvery THEN streak + 1 ELSE streak
  BY DEF Take
<1>3. row' = IF ~job[r].priority \/ ~BulkWaits THEN 0 ELSE IF row <= BulkEvery THEN row + 1 ELSE row
  BY DEF Take
<1>4. CASE ~job[r].priority \/ ~BulkWaits
  BY <1>1, <1>2, <1>3, <1>4
<1>5. CASE job[r].priority /\ BulkWaits
  <2>1. streak < BulkEvery
    BY <1>1, <1>5 DEF BulkTurn
  <2>2. streak' = streak + 1 /\ row' = row + 1
    BY <1>1, <1>2, <1>3, <1>5, <2>1
  <2> QED BY <1>1, <2>1, <2>2
<1> QED BY <1>4, <1>5

LEMMA PickGoesOn ==
  ASSUME QueueInv, Pick, Turn # 0
  PROVE  QueueInv'
<1> PICK i \in 1..Len(rotation), v \in Vaults, r \in Requests :
           /\ v = rotation[i] /\ queues[v] # <<>> /\ job[r].vault = v /\ job[r] # NoJob
           /\ BulkTurn => ~job[r].priority
           /\ Take(i, r)
  BY PickTakes
<1> PICK rot : rot = RemoveAt(rotation, i)
  OBVIOUS
<1>0. /\ TypeOK /\ rotation \in Seq(Vaults) /\ Distinct(rotation)
      /\ ToSet(rotation) = {w \in Vaults : queues[w] # <<>>} \ {current}
      /\ job \in [Requests -> Job \cup {NoJob}] /\ queues \in [Vaults -> Seq(Requests)]
  BY DEF QueueInv, VaultInTurn, TypeOK
<1>1. rot \in Seq(Vaults) /\ Distinct(rot) /\ ToSet(rot) = ToSet(rotation) \ {v}
  <2>1. rot \in Seq(Vaults)
    BY <1>0, RemoveAtProperties
  <2>2. Distinct(rot) /\ ToSet(rot) = ToSet(rotation) \ {rotation[i]}
    BY <1>0, RemoveAtDistinct
  <2> QED BY <2>1, <2>2
<1>2. pump # "infer" /\ running = NoRequest /\ current = NoVault /\ NoVault \notin Vaults /\ NoRequest \notin Requests
  BY EmbedAssumption DEF Pick, QueueInv, InTheModel
<1>3. streak' \in 0..BulkEvery /\ row' \in 0..BulkEvery + 1 /\ row' <= streak'
  BY TakeCounts
<1>4. CASE job[r].cancelled
  <2>1. Clear(v, r, rot)
    BY <1>4 DEF Take
  <2> PICK kept : kept = Dropped(r, queues, rot).rotation
    OBVIOUS
  <2>2. /\ job' = [job EXCEPT ![r] = NoJob] /\ queues' = Dropped(r, queues, rot).queues
        /\ rotation' = Rotated(v, queues', kept) /\ total' = total - 1
        /\ pump' = "pick" /\ current' = current /\ running' = running
    BY <2>1 DEF Clear
  <2>3. /\ job' \in [Requests -> Job \cup {NoJob}] /\ queues' \in [Vaults -> Seq(Requests)]
        /\ QueueOfVault' /\ CapsKept'
        /\ \A w \in Vaults \ {v} : queues'[w] = queues[w]
        /\ queues'[v] = RemoveFirst(queues[v], r)
    BY <2>2, QueuesWithout
  <2>4. CountIsReal' /\ total' \in Nat
    BY <2>2, OneLess
  <2>5. /\ kept \in Seq(Vaults) /\ Distinct(kept)
        /\ ToSet(kept) = IF queues'[v] = <<>> THEN ToSet(rot) \ {v} ELSE ToSet(rot)
    BY ZenonT(30), <1>1, <2>2, <2>3, RotationWithout
  <2>6. /\ rotation' \in Seq(Vaults) /\ Distinct(rotation')
        /\ ToSet(rotation') = IF queues'[v] # <<>> THEN ToSet(kept) \cup {v} ELSE ToSet(kept)
    BY ZenonT(30), <2>2, <2>5, RotationWith
  <2>7. ToSet(rotation') = {w \in Vaults : queues'[w] # <<>>} \ {current'}
    <3>1. ToSet(rot) = {w \in Vaults : queues[w] # <<>>} \ {v}
      BY <1>0, <1>1, <1>2
    <3>2. ToSet(kept) = ToSet(rot)
      BY <2>5, <3>1
    <3>3. \A w \in Vaults : queues'[w] # <<>> <=> IF w = v THEN queues'[v] # <<>> ELSE queues[w] # <<>>
      BY <2>3
    <3>4. ToSet(rotation') = {w \in Vaults : queues'[w] # <<>>}
      BY <2>6, <3>1, <3>2, <3>3
    <3> QED BY <1>2, <2>2, <3>4
  <2>8. VaultInTurn' /\ InTheModel'
    BY <1>2, <2>2, <2>6, <2>7 DEF VaultInTurn, InTheModel
  <2>9. TypeOK'
    BY <1>0, <1>3, <2>2, <2>3, <2>4, <2>6 DEF TypeOK
  <2> QED BY <1>3, <2>2, <2>3, <2>4, <2>8, <2>9 DEF QueueInv
<1>5. CASE ~job[r].cancelled
  <2>1. Infer(v, r, rot)
    BY <1>5 DEF Take
  <2>2. /\ job' = [job EXCEPT ![r].started = TRUE] /\ queues' = queues /\ rotation' = rot /\ total' = total
        /\ current' = v /\ running' = r /\ pump' = "infer"
    BY <2>1 DEF Infer
  <2>3. job[r] \in Job
    BY <1>0
  <2>4. /\ job' \in [Requests -> Job \cup {NoJob}] /\ job'[r].vault = v /\ job'[r].started
        /\ \A q \in Requests : job'[q].vault = job[q].vault
    BY <1>0, <2>2, <2>3 DEF Job
  <2>5. QueueOfVault' /\ CapsKept' /\ CountIsReal' /\ queues' \in [Vaults -> Seq(Requests)]
    BY <2>2, <2>4, RequestsKept
  <2>6. VaultInTurn' /\ InTheModel'
    BY <1>0, <1>1, <1>2, <2>2, <2>4 DEF VaultInTurn, InTheModel
  <2>7. TypeOK'
    BY <1>0, <1>1, <1>3, <2>2, <2>4, <2>5 DEF TypeOK
  <2> QED BY <1>3, <2>2, <2>5, <2>6, <2>7 DEF QueueInv
<1> QED BY <1>4, <1>5

LEMMA InferredKeeps ==
  ASSUME QueueInv, Inferred
  PROVE  QueueInv'
<1> PICK v, r : v = current /\ r = running
  OBVIOUS
<1> PICK over \in {Over(failed) : failed \in BOOLEAN} :
       LET done == IF over THEN Dropped(r, queues, rotation)
                   ELSE [queues |-> queues, rotation |-> rotation]
       IN /\ job' = IF over THEN [job EXCEPT ![r] = NoJob] ELSE [job EXCEPT ![r].left = @ - 1]
          /\ queues' = done.queues
          /\ total' = IF over THEN total - 1 ELSE total
          /\ rotation' = Rotated(v, queues', done.rotation)
  BY DEF Inferred
<1>0. /\ TypeOK /\ rotation \in Seq(Vaults) /\ Distinct(rotation)
      /\ ToSet(rotation) = {w \in Vaults : queues[w] # <<>>} \ {v}
      /\ job \in [Requests -> Job \cup {NoJob}] /\ queues \in [Vaults -> Seq(Requests)]
      /\ NoVault \notin Vaults /\ NoRequest \notin Requests
  BY EmbedAssumption DEF QueueInv, VaultInTurn, TypeOK
<1>1. /\ pump' = "pick" /\ current' = NoVault /\ running' = NoRequest /\ streak' = streak /\ row' = row
      /\ r \in Requests /\ v \in Vaults /\ job[r].vault = v
  BY <1>0 DEF Inferred, QueueInv, InTheModel, TypeOK
<1>2. job[r] # NoJob /\ job[r] \in Job
  BY <1>0, <1>1, KnownByVault
<1>3. InTheModel'
  BY <1>1 DEF InTheModel
<1>4. CASE over
  <2>1. /\ job' = [job EXCEPT ![r] = NoJob] /\ queues' = Dropped(r, queues, rotation).queues
        /\ rotation' = Rotated(v, queues', Dropped(r, queues, rotation).rotation) /\ total' = total - 1
    BY <1>4
  <2> PICK kept : kept = Dropped(r, queues, rotation).rotation
    OBVIOUS
  <2>2. /\ job' \in [Requests -> Job \cup {NoJob}] /\ queues' \in [Vaults -> Seq(Requests)]
        /\ QueueOfVault' /\ CapsKept'
        /\ \A w \in Vaults \ {v} : queues'[w] = queues[w]
        /\ queues'[v] = RemoveFirst(queues[v], r)
    BY <1>1, <1>2, <2>1, QueuesWithout
  <2>3. CountIsReal' /\ total' \in Nat
    BY <1>1, <1>2, <2>1, OneLess
  <2>4. /\ kept \in Seq(Vaults) /\ Distinct(kept)
        /\ ToSet(kept) = IF queues'[v] = <<>> THEN ToSet(rotation) \ {v} ELSE ToSet(rotation)
    BY <1>0, <1>1, <2>1, <2>2, RotationWithout
  <2>5. /\ rotation' \in Seq(Vaults) /\ Distinct(rotation')
        /\ ToSet(rotation') = IF queues'[v] # <<>> THEN ToSet(kept) \cup {v} ELSE ToSet(kept)
    <3> PICK q, new : q = queues' /\ new = rotation'
      OBVIOUS
    <3>1. new = Rotated(v, q, kept)
      BY <2>1
    <3>2. /\ new \in Seq(Vaults) /\ Distinct(new)
          /\ ToSet(new) = IF q[v] # <<>> THEN ToSet(kept) \cup {v} ELSE ToSet(kept)
      <4>1. \A w \in Vaults : \A x :
              /\ Rotated(w, x, kept) \in Seq(Vaults) /\ Distinct(Rotated(w, x, kept))
              /\ ToSet(Rotated(w, x, kept)) = IF x[w] # <<>> THEN ToSet(kept) \cup {w} ELSE ToSet(kept)
        BY <1>1, <2>4, RotationWith
      <4> QED BY <1>1, <3>1, <4>1
    <3> QED BY <3>2
  <2>6. ToSet(rotation') = {w \in Vaults : queues'[w] # <<>>} \ {current'}
    <3>1. ToSet(kept) = ToSet(rotation)
      BY <1>0, <2>4
    <3>2. \A w \in Vaults : queues'[w] # <<>> <=> IF w = v THEN queues'[v] # <<>> ELSE queues[w] # <<>>
      BY <2>2
    <3>3. ToSet(rotation') = {w \in Vaults : queues'[w] # <<>>}
      BY <1>0, <1>1, <2>5, <3>1, <3>2
    <3> QED BY <1>0, <1>1, <3>3
  <2>7. VaultInTurn'
    BY <2>5, <2>6 DEF VaultInTurn
  <2>8. TypeOK'
    BY <1>0, <1>1, <2>2, <2>3, <2>5 DEF TypeOK
  <2> QED BY <1>1, <1>3, <2>2, <2>3, <2>7, <2>8 DEF QueueInv
<1>5. CASE ~over
  <2>1. /\ job' = [job EXCEPT ![r].left = @ - 1] /\ queues' = queues /\ total' = total
        /\ rotation' = Rotated(v, queues', rotation)
    BY <1>5
  <2>2. job[r].left # 1
    BY <1>5 DEF Over
  <2>3. job[r].left - 1 \in 1..MaxTexts
    BY <1>2, <2>2, EmbedAssumption DEF Job
  <2>4. [job[r] EXCEPT !.left = @ - 1] \in Job /\ [job[r] EXCEPT !.left = @ - 1].vault = v
    BY <1>1, <1>2, <2>3 DEF Job
  <2>5. job' \in [Requests -> Job \cup {NoJob}] /\ \A q \in Requests : job'[q].vault = job[q].vault
    <3> PICK less : less = [job[r] EXCEPT !.left = @ - 1]
      OBVIOUS
    <3>1. job' = [job EXCEPT ![r] = less]
      BY <1>0, <1>1, <2>1
    <3>2. less \in Job /\ less.vault = v
      BY <2>4
    <3>3. job' \in [Requests -> Job \cup {NoJob}]
      BY <1>0, <1>1, <3>1, <3>2
    <3>4. \A q \in Requests : job'[q] = IF q = r THEN less ELSE job[q]
      BY <1>0, <1>1, <3>1
    <3> QED BY <1>1, <3>2, <3>3, <3>4
  <2>6. QueueOfVault' /\ CapsKept' /\ CountIsReal' /\ queues' \in [Vaults -> Seq(Requests)]
    BY <2>1, <2>5, RequestsKept
  <2>7. /\ rotation' \in Seq(Vaults) /\ Distinct(rotation')
        /\ ToSet(rotation') = IF queues'[v] # <<>> THEN ToSet(rotation) \cup {v} ELSE ToSet(rotation)
    <3> PICK q, new : q = queues' /\ new = rotation'
      OBVIOUS
    <3>1. new = Rotated(v, q, rotation)
      BY <2>1
    <3>2. /\ new \in Seq(Vaults) /\ Distinct(new)
          /\ ToSet(new) = IF q[v] # <<>> THEN ToSet(rotation) \cup {v} ELSE ToSet(rotation)
      <4>1. \A w \in Vaults : \A x :
              /\ Rotated(w, x, rotation) \in Seq(Vaults) /\ Distinct(Rotated(w, x, rotation))
              /\ ToSet(Rotated(w, x, rotation)) = IF x[w] # <<>> THEN ToSet(rotation) \cup {w} ELSE ToSet(rotation)
        BY <1>0, <1>1, RotationWith
      <4>2. /\ Rotated(v, q, rotation) \in Seq(Vaults) /\ Distinct(Rotated(v, q, rotation))
            /\ ToSet(Rotated(v, q, rotation)) = IF q[v] # <<>> THEN ToSet(rotation) \cup {v} ELSE ToSet(rotation)
        BY <1>1, <4>1
      <4> QED BY <3>1, <4>2
    <3> QED BY <3>2
  <2>8. ToSet(rotation') = {w \in Vaults : queues'[w] # <<>>} \ {current'}
    BY <1>0, <1>1, <2>1, <2>7
  <2>9. VaultInTurn'
    BY <2>7, <2>8 DEF VaultInTurn
  <2>10. TypeOK'
    BY <1>0, <1>1, <2>1, <2>5, <2>6, <2>7 DEF TypeOK
  <2> QED BY <1>1, <1>3, <2>1, <2>6, <2>9, <2>10 DEF QueueInv
<1> QED BY <1>4, <1>5

LEMMA EnqueueKeeps ==
  ASSUME QueueInv, NEW r \in Requests, NEW v \in Vaults, Enqueue(r, v)
  PROVE  QueueInv'
<1> PICK new : /\ \E priority \in BOOLEAN, n \in 1..MaxTexts :
                     new = [NoJob EXCEPT !.vault = v, !.priority = priority, !.left = n]
               /\ job' = [job EXCEPT ![r] = new]
  BY DEF Enqueue
<1>0. /\ TypeOK /\ rotation \in Seq(Vaults) /\ Distinct(rotation)
      /\ ToSet(rotation) = {w \in Vaults : queues[w] # <<>>} \ {current}
      /\ job \in [Requests -> Job \cup {NoJob}] /\ queues \in [Vaults -> Seq(Requests)]
      /\ total \in Nat /\ pump \in {"idle", "start", "pick", "infer"}
      /\ NoVault \notin Vaults /\ NoRequest \notin Requests /\ NoJob.vault = NoVault
      /\ {MaxPendingPerVault, MaxQueue} \subseteq Nat
  BY EmbedAssumption DEF QueueInv, VaultInTurn, TypeOK, NoJob
<1>1. new \in Job /\ new.vault = v
  BY DEF NoJob, Job
<1>2. /\ job[r] = NoJob /\ Len(queues[v]) < MaxPendingPerVault /\ total < MaxQueue
      /\ queues' = [queues EXCEPT ![v] = Append(queues[v], r)] /\ total' = total + 1
      /\ rotation' = IF current # v /\ ~Contains(rotation, v) THEN Append(rotation, v) ELSE rotation
      /\ pump' = Woken /\ current' = current /\ running' = running /\ streak' = streak /\ row' = row
  BY <1>0 DEF Enqueue, Admitted
<1>3. job' \in [Requests -> Job \cup {NoJob}] /\ job'[r] = new /\ \A q \in Requests \ {r} : job'[q] = job[q]
  BY <1>0, <1>1
<1>4. r \notin ToSet(queues[v]) /\ queues[v] \in Seq(Requests) /\ Distinct(queues[v])
  BY <1>0, <1>2, QueueFacts
<1> PICK more : more = Append(queues[v], r)
  OBVIOUS
<1>5. /\ more \in Seq(Requests) /\ Distinct(more) /\ ToSet(more) = ToSet(queues[v]) \cup {r}
      /\ Len(more) = Len(queues[v]) + 1
  BY <1>4, AppendDistinct
<1>6. queues' \in [Vaults -> Seq(Requests)] /\ queues'[v] = more /\ \A w \in Vaults \ {v} : queues'[w] = queues[w]
  BY <1>0, <1>2, <1>5
<1>7. QueueOfVault'
  <2>1. ASSUME NEW w \in Vaults
        PROVE  Distinct(queues'[w]) /\ ToSet(queues'[w]) = {q \in Requests : job'[q].vault = w}
    <3>1. CASE w = v
      <4>1. ToSet(queues[v]) = {q \in Requests : job[q].vault = v}
        BY QueueFacts
      <4>2. {q \in Requests : job'[q].vault = v} = {q \in Requests : job[q].vault = v} \cup {r}
        BY <1>1, <1>3
      <4> QED BY <1>5, <1>6, <3>1, <4>1, <4>2
    <3>2. CASE w # v
      BY <1>0, <1>1, <1>2, <1>3, <1>6, <3>2, QueueFacts
    <3> QED BY <3>1, <3>2
  <2> QED BY <2>1 DEF QueueOfVault
<1>8. CapsKept'
  <2>1. \A w \in Vaults : Len(queues[w]) <= MaxPendingPerVault /\ Len(queues[w]) \in Nat
    BY QueueFacts DEF QueueInv, CapsKept
  <2> QED BY <1>0, <1>2, <1>5, <1>6, <2>1 DEF CapsKept
<1>9. CountIsReal' /\ total' \in Nat
  <2>1. new # NoJob
    BY <1>0, <1>1
  <2>2. Queued' = Queued \cup {r} /\ r \notin Queued
    BY <1>2, <1>3, <2>1 DEF Queued
  <2>3. IsFiniteSet(Queued) /\ total = Cardinality(Queued)
    BY DEF QueueInv, CountIsReal
  <2>4. IsFiniteSet(Queued') /\ Cardinality(Queued') = Cardinality(Queued) + 1
    BY <2>2, <2>3, FS_AddElement
  <2> QED BY <1>0, <1>2, <2>3, <2>4 DEF CountIsReal
<1>10. more # <<>>
  <2>1. r \in ToSet(more)
    BY <1>5
  <2> QED BY <2>1 DEF ToSet
<1>11. VaultInTurn' /\ rotation' \in Seq(Vaults)
  <2>1. Contains(rotation, v) <=> v \in ToSet(rotation)
    BY <1>0, ContainsIsIn
  <2>2. /\ rotation' \in Seq(Vaults) /\ Distinct(rotation')
        /\ ToSet(rotation') = ToSet(rotation) \cup ({v} \ {current})
    <3>1. CASE current # v /\ ~Contains(rotation, v)
      BY <1>0, <1>2, <2>1, <3>1, AppendDistinct
    <3>2. CASE ~(current # v /\ ~Contains(rotation, v))
      BY <1>0, <1>2, <2>1, <3>2
    <3> QED BY <3>1, <3>2
  <2>3. \A w \in Vaults : queues'[w] # <<>> <=> w = v \/ queues[w] # <<>>
    BY <1>6, <1>10
  <2>4. ToSet(rotation') = {w \in Vaults : queues'[w] # <<>>} \ {current}
    BY <1>0, <2>2, <2>3
  <2> QED BY <1>2, <2>2, <2>4 DEF VaultInTurn
<1>12. InTheModel' /\ pump' \in {"idle", "start", "pick", "infer"} /\ pump' # "idle"
  <2>1. running # NoRequest => running # r
    BY <1>0, <1>2, EmbedAssumption DEF QueueInv, InTheModel, TypeOK
  <2>2. running # NoRequest => job'[running] = job[running]
    BY <1>0, <1>3, <2>1 DEF TypeOK
  <2> QED BY <1>0, <1>2, <2>2 DEF QueueInv, InTheModel, Woken
<1>13. TypeOK'
  BY <1>0, <1>2, <1>3, <1>6, <1>9, <1>11, <1>12 DEF TypeOK
<1> QED BY <1>2, <1>7, <1>8, <1>9, <1>11, <1>12, <1>13 DEF QueueInv

\* A request that is dropped is not the one in the model.
LEMMA GoneKeeps ==
  ASSUME QueueInv, NEW r \in Requests, job[r] # NoJob, r # running, Gone(r),
         UNCHANGED <<current, running, pump, streak, row>>
  PROVE  QueueInv'
<1> PICK v : v = job[r].vault
  OBVIOUS
<1>0. /\ TypeOK /\ rotation \in Seq(Vaults) /\ Distinct(rotation) /\ v \in Vaults
      /\ ToSet(rotation) = {w \in Vaults : queues[w] # <<>>} \ {current}
      /\ job \in [Requests -> Job \cup {NoJob}] /\ queues \in [Vaults -> Seq(Requests)]
  BY KnownByVault DEF QueueInv, VaultInTurn, TypeOK
<1>1. /\ job' = [job EXCEPT ![r] = NoJob] /\ queues' = Dropped(r, queues, rotation).queues
      /\ rotation' = Dropped(r, queues, rotation).rotation /\ total' = total - 1
  BY DEF Gone
<1>2. /\ job' \in [Requests -> Job \cup {NoJob}] /\ queues' \in [Vaults -> Seq(Requests)]
      /\ QueueOfVault' /\ CapsKept'
      /\ \A w \in Vaults \ {v} : queues'[w] = queues[w]
      /\ queues'[v] = RemoveFirst(queues[v], r)
  BY <1>1, QueuesWithout
<1>3. CountIsReal' /\ total' \in Nat /\ total # 0
  BY <1>1, OneLess
<1>4. /\ rotation' \in Seq(Vaults) /\ Distinct(rotation')
      /\ ToSet(rotation') = IF queues'[v] = <<>> THEN ToSet(rotation) \ {v} ELSE ToSet(rotation)
  BY ZenonT(30), <1>0, <1>1, <1>2, RotationWithout
<1>5. queues[v] # <<>>
  BY <1>0, QueueFacts
<1>6. ToSet(rotation') = {w \in Vaults : queues'[w] # <<>>} \ {current'}
  <2>1. \A w \in Vaults : queues'[w] # <<>> <=> IF w = v THEN queues'[v] # <<>> ELSE queues[w] # <<>>
    BY <1>2
  <2> QED BY <1>0, <1>4, <1>5, <2>1
<1>7. InTheModel'
  BY <1>0, <1>1 DEF QueueInv, InTheModel, TypeOK
<1>8. VaultInTurn'
  BY <1>4, <1>6 DEF VaultInTurn
<1>9. TypeOK'
  BY <1>0, <1>2, <1>3, <1>4 DEF TypeOK
<1>10. pump' # "idle" /\ row' <= streak'
  BY <1>3 DEF QueueInv
<1> QED BY <1>2, <1>3, <1>7, <1>8, <1>9, <1>10 DEF QueueInv

LEMMA GiveUpKeeps ==
  ASSUME QueueInv, NEW r \in Requests, QueueTimeout(r) \/ ClientGone(r)
  PROVE  QueueInv'
<1>1. job[r] # NoJob
  BY DEF QueueTimeout, ClientGone, Waiting
<1>2. running = r => job[r].started /\ job[r].vault = current
  BY EmbedAssumption DEF QueueInv, InTheModel
<1>3. CASE Gone(r) /\ UNCHANGED <<current, running, pump, streak, row>>
  <2>1. r # running
    <3> SUFFICES ASSUME r = running PROVE FALSE
      OBVIOUS
    <3>1. ~(QueueTimeout(r)) /\ ClientGone(r)
      BY <1>2 DEF QueueTimeout
    <3>2. job' = [job EXCEPT ![r].cancelled = TRUE] /\ job \in [Requests -> Job \cup {NoJob}]
      BY <1>2, <3>1 DEF ClientGone, QueueInv, TypeOK
    <3>3. job'[r] = NoJob /\ job[r] \in Job
      BY <1>1, <1>3, <3>2 DEF Gone
    <3>4. job'[r].vault = job[r].vault
      BY <3>2, <3>3 DEF Job
    <3> QED BY <3>3, <3>4, EmbedAssumption DEF Job, NoJob
  <2> QED BY <1>1, <1>3, <2>1, GoneKeeps
<1>4. CASE /\ job' = [job EXCEPT ![r].cancelled = TRUE]
           /\ UNCHANGED <<queues, rotation, total, current, running, pump, streak, row>>
  <2>1. job \in [Requests -> Job \cup {NoJob}] /\ job[r] \in Job
    BY <1>1 DEF QueueInv, TypeOK
  <2>2. /\ [job[r] EXCEPT !.cancelled = TRUE] \in Job
        /\ [job[r] EXCEPT !.cancelled = TRUE].vault = job[r].vault
        /\ [job[r] EXCEPT !.cancelled = TRUE].started = job[r].started
    BY <2>1 DEF Job
  <2>3. /\ job' \in [Requests -> Job \cup {NoJob}]
        /\ \A q \in Requests : job'[q].vault = job[q].vault /\ job'[q].started = job[q].started
    BY <1>4, <2>1, <2>2
  <2>4. QueueOfVault' /\ CapsKept' /\ CountIsReal'
    BY <1>4, <2>3, RequestsKept
  <2>5. VaultInTurn'
    BY <1>4 DEF QueueInv, VaultInTurn
  <2>6. InTheModel' /\ TypeOK'
    BY <1>4, <2>3 DEF QueueInv, InTheModel, TypeOK
  <2> QED BY <1>4, <2>4, <2>5, <2>6 DEF QueueInv
<1> QED BY <1>3, <1>4 DEF QueueTimeout, ClientGone

LEMMA QueueInit ==
  ASSUME Init
  PROVE  QueueInv
<1>1. TypeOK
  <2>1. <<>> \in Seq(Vaults) /\ <<>> \in Seq(Requests)
    OBVIOUS
  <2> QED BY <2>1, EmbedAssumption DEF Init, TypeOK
<1>2. \A r \in Requests : job[r].vault = NoVault
  BY DEF Init, NoJob
<1>3. ToSet(<<>>) = {} /\ Distinct(<<>>)
  BY DEF ToSet, Distinct
<1>4. QueueOfVault /\ VaultInTurn
  BY <1>2, <1>3, EmbedAssumption DEF Init, QueueOfVault, VaultInTurn
<1>5. Queued = {}
  BY DEF Init, Queued
<1>6. CountIsReal /\ CapsKept
  <2>1. Len(<<>>) = 0
    OBVIOUS
  <2> QED BY <1>5, <2>1, FS_EmptySet, EmbedAssumption DEF Init, CountIsReal, CapsKept
<1>7. InTheModel
  BY DEF Init, InTheModel
<1> QED BY <1>1, <1>4, <1>6, <1>7 DEF QueueInv, Init

LEMMA QueueStep ==
  ASSUME QueueInv, [Next]_vars
  PROVE  QueueInv'
<1>1. CASE Pick
  BY <1>1, PickEnds, PickGoesOn
<1>2. CASE Other
  BY <1>2, InferredKeeps, EnqueueKeeps, GiveUpKeeps DEF Other
<1>3. CASE UNCHANGED vars
  BY <1>3 DEF vars, QueueInv, TypeOK, QueueOfVault, VaultInTurn, InTheModel, CountIsReal, CapsKept, Queued
<1> QED BY <1>1, <1>2, <1>3 DEF Next

LEMMA QueueInvariant == Spec => []QueueInv
<1>1. Init => QueueInv
  BY QueueInit
<1>2. QueueInv /\ [Next]_vars => QueueInv'
  BY QueueStep
<1> QED BY <1>1, <1>2, PTL DEF Spec

-----------------------------------------------------------------------------
(* The theorems *)

\* The queues hold requests, the rotation vaults, and every request is a legal one, whatever order
\* arrivals, timeouts, disconnects, failures and the pump's steps come in.
THEOREM TypeCorrect == Spec => []TypeOK
<1>1. QueueInv => TypeOK
  BY DEF QueueInv
<1> QED BY <1>1, QueueInvariant, PTL

LEMMA QueueInvConsistent ==
  ASSUME QueueInv
  PROVE  QueuesConsistent
<1>1. RotationMatchesQueues
  <2>1. DOMAIN rotation = 1..Len(rotation)
    BY DEF QueueInv, TypeOK
  <2>2. \A i, j \in DOMAIN rotation : rotation[i] = rotation[j] => i = j
    BY <2>1 DEF QueueInv, VaultInTurn, Distinct
  <2>3. ASSUME NEW v \in Vaults, NEW r \in Requests
        PROVE  Cardinality({i \in DOMAIN queues[v] : queues[v][i] = r}) = (IF job[r].vault = v THEN 1 ELSE 0)
    <3> PICK I : I = {i \in DOMAIN queues[v] : queues[v][i] = r}
      OBVIOUS
    <3>1. r \in ToSet(queues[v]) <=> job[r].vault = v
      BY QueueFacts
    <3>2. DOMAIN queues[v] = 1..Len(queues[v]) /\ Distinct(queues[v])
      BY QueueFacts
    <3>3. CASE job[r].vault = v
      <4>1. PICK i \in DOMAIN queues[v] : queues[v][i] = r
        BY <3>1, <3>3 DEF ToSet
      <4>2. I = {i}
        BY <3>2, <4>1 DEF Distinct
      <4> QED BY <3>3, <4>2, FS_Singleton
    <3>4. CASE job[r].vault # v
      <4>1. I = {}
        BY <3>1, <3>4 DEF ToSet
      <4> QED BY <3>4, <4>1, FS_EmptySet
    <3> QED BY <3>3, <3>4
  <2> QED BY <2>2, <2>3 DEF RotationMatchesQueues, QueueInv, VaultInTurn, InTheModel
<1>2. CapsHold
  BY DEF QueueInv, CountIsReal, CapsKept, CapsHold, Queued
<1> QED BY <1>1, <1>2 DEF QueuesConsistent

\* Queues, rotation, counter and caps agree at every moment: no request is queued twice or lost from
\* its queue, no vault with requests drops out of the rotation, the caps hold with the real number of
\* requests, and the pump never sleeps over a request.
THEOREM QueuesAgree == Spec => []QueuesConsistent
<1>1. QueueInv => QueuesConsistent
  BY QueueInvConsistent
<1> QED BY <1>1, QueueInvariant, PTL

\* Bulk requests never wait for more than BulkEvery short texts in a row.
THEOREM BulkGetsItsShare == Spec => []BulkIsServed
<1>1. QueueInv => BulkIsServed
  BY EmbedAssumption DEF QueueInv, TypeOK, BulkIsServed
<1> QED BY <1>1, QueueInvariant, PTL
=============================================================================
