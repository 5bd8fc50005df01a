---------------------------- MODULE McpGate_proofs ----------------------------
(***************************************************************************)
(* A session stays with its owner while requests are on their way,         *)
(* streams stay with their bindings and counters, the table keeps its caps *)
(* and its clocks, and no session is lost sight of without need, for any   *)
(* number of connections, sessions and keys and any limits.                *)
(*                                                                         *)
(* That a session does not change hands follows from where sessions come   *)
(* from: one that is answered to an initialize is new, so that nobody has  *)
(* presented it before (Fresh).  This part (GateInv) does not look at the  *)
(* lists per key.  The caps need them: the list of a key holds exactly its *)
(* bindings, so that what bind() gives up is counted right (TableInv).     *)
(* What is lost sight of depends on what MetaMCP has answered (Told).      *)
(***************************************************************************)
EXTENDS McpGate, FiniteSetTheorems, WellFoundedInduction, TLAPS

Bindings == [Sids -> Binding \cup {Nobody}]
Table == [Requests -> Request \cup {Nobody}]

Types ==
  /\ map \in Bindings /\ req \in Table
  /\ streams \in [Sids -> SUBSET Requests] /\ keyStreams \in [Keys -> Nat]
  /\ metamcp \in [Sids -> {"unused", "live", "gone"}]

\* What is bound or presented was created by MetaMCP, and an initialize presents nothing.
Created ==
  /\ \A s \in Sids : map[s] # Nobody => metamcp[s] # "unused"
  /\ \A r \in Requests : Busy(r) =>
       /\ req[r].sid # Nobody <=> req[r].kind # "initialize"
       /\ req[r].sid # Nobody => metamcp[req[r].sid] # "unused"

\* A session on its way to the initialize that created it: nobody else knows it.
Fresh ==
  \A r \in Requests : Busy(r) /\ req[r].kind = "initialize" /\ req[r].newSid # Nobody =>
    /\ metamcp[req[r].newSid] # "unused" /\ map[req[r].newSid] = Nobody
    /\ \A q \in Requests : Busy(q) =>
         /\ req[q].sid # req[r].newSid
         /\ q # r /\ req[q].kind = "initialize" => req[q].newSid # req[r].newSid

\* A GET that is not closing is a stream of a session that is bound, and only GETs are streams.
Streaming ==
  /\ \A r \in Requests : Busy(r) /\ req[r].kind = "get" /\ req[r].stage # "closing" =>
       r \in streams[req[r].sid] /\ map[req[r].sid] # Nobody
  /\ \A s \in Sids : \A r \in streams[s] : Busy(r) /\ req[r].kind = "get" /\ req[r].sid = s

Gets(k) == {r \in Requests : Busy(r) /\ req[r].kind = "get" /\ req[r].key = k}

Counted ==
  /\ \A k \in Keys : keyStreams[k] = Cardinality(Gets(k)) /\ keyStreams[k] <= MaxStreamsPerKey
  /\ \A s \in Sids : Cardinality(streams[s]) <= MaxStreamsPerSession

\* The inductive invariant.
GateInv == Types /\ Created /\ Fresh /\ Streaming /\ Counted /\ NoSessionChangesHands

LEMMA Limits ==
  /\ MaxStreamsPerSession \in Nat \ {0} /\ MaxStreamsPerKey \in Nat \ {0}
  /\ IdleLimit \in Nat /\ LifetimeLimit \in Nat
BY GateAssumption

LEMMA NoneIsFew ==
  ASSUME NEW S, S = {}
  PROVE  Cardinality(S) = 0 /\ 0 <= MaxStreamsPerSession /\ 0 <= MaxStreamsPerKey
<1>1. Cardinality(S) = 0
  BY FS_EmptySet
<1> QED BY <1>1, Limits

LEMMA InitInv == Init => GateInv
<1> SUFFICES ASSUME Init PROVE GateInv
  OBVIOUS
<1>1. Types
  BY DEF Init, Types, Bindings, Table
<1>2. \A r \in Requests : ~Busy(r)
  BY DEF Init, Busy
<1>3. Created /\ Fresh /\ Streaming /\ NoSessionChangesHands
  BY <1>2 DEF Init, Created, Fresh, Streaming, NoSessionChangesHands
<1>4. Counted
  <2>1. \A k \in Keys : Gets(k) = {}
    BY <1>2 DEF Gets
  <2>2. \A k \in Keys : keyStreams[k] = Cardinality(Gets(k)) /\ keyStreams[k] <= MaxStreamsPerKey
    BY <2>1, NoneIsFew DEF Init
  <2>3. ASSUME NEW s \in Sids PROVE Cardinality(streams[s]) <= MaxStreamsPerSession
    <3>1. streams[s] = {}
      BY DEF Init
    <3> QED BY <3>1, NoneIsFew
  <2> QED BY <2>2, <2>3 DEF Counted
<1> QED BY <1>1, <1>3, <1>4 DEF GateInv

-----------------------------------------------------------------------------
(* Steps that create nothing *)

\* The request is the same one, further on.
Same(q, p) ==
  /\ q # Nobody /\ p # Nobody
  /\ q.kind = p.kind /\ q.key = p.key /\ q.endpoint = p.endpoint /\ q.sid = p.sid /\ q.newSid = p.newSid
  /\ q.stage # "closing" => p.stage # "closing"

\* Some bindings go and their streams are closed; other bindings keep their owners; requests go on
\* or, when they are no GETs, end.
LEMMA StepInv ==
  ASSUME GateInv, NEW S \in SUBSET Sids,
         map' \in Bindings, req' \in Table, streams' \in [Sids -> SUBSET Requests],
         metamcp' \in [Sids -> {"unused", "live", "gone"}], keyStreams' = keyStreams,
         \A s \in Sids : metamcp'[s] = "unused" => metamcp[s] = "unused",
         \A s \in Sids : map'[s] # Nobody =>
           /\ s \notin S /\ map[s] # Nobody
           /\ map'[s].key = map[s].key /\ map'[s].endpoint = map[s].endpoint,
         \A s \in Sids \ S : map[s] # Nobody => map'[s] # Nobody,
         \A s \in Sids : streams'[s] = IF s \in S THEN {} ELSE streams[s],
         \A r \in Requests : \/ req'[r] = Nobody /\ (Busy(r) => req[r].kind # "get")
                             \/ Same(req'[r], req[r]),
         \A s \in S : \A r \in streams[s] : req'[r] # Nobody => req'[r].stage = "closing"
  PROVE  GateInv'
<1>1. Types'
  BY DEF GateInv, Types
<1>2. \A r \in Requests : req[r] = Nobody \/ req[r] \in Request
  BY DEF GateInv, Types, Table
<1>3. Created'
  BY <1>2, NobodyAssumption DEF GateInv, Created, Same, Busy, Request
<1>4. Fresh'
  BY <1>2 DEF GateInv, Fresh, Same, Busy, Request
<1>5. Streaming'
  <2>1. \A s \in Sids : \A r \in streams'[s] : Busy(r)' /\ req'[r].kind = "get" /\ req'[r].sid = s
    BY DEF GateInv, Streaming, Same, Busy, Types
  <2>2. ASSUME NEW r \in Requests, Busy(r)', req'[r].kind = "get", req'[r].stage # "closing"
        PROVE  r \in streams'[req'[r].sid] /\ map'[req'[r].sid] # Nobody
    <3>1. /\ Busy(r) /\ req[r].kind = "get" /\ req[r].stage # "closing" /\ req'[r].sid = req[r].sid
      BY <2>2 DEF Same, Busy
    <3>2. req[r].sid \in Sids
      BY <1>2, <3>1 DEF GateInv, Created, Busy, Request
    <3>3. r \in streams[req[r].sid] /\ map[req[r].sid] # Nobody
      BY <3>1 DEF GateInv, Streaming
    <3>4. req[r].sid \notin S
      BY <2>2, <3>3 DEF Busy
    <3> QED BY <3>1, <3>2, <3>3, <3>4
  <2> QED BY <2>1, <2>2 DEF Streaming
<1>6. Counted'
  <2>1. \A k \in Keys : Gets(k)' = Gets(k)
    BY DEF Gets, Busy, Same
  <2>2. ASSUME NEW s \in Sids PROVE Cardinality(streams'[s]) <= MaxStreamsPerSession
    <3>1. Cardinality(streams[s]) <= MaxStreamsPerSession
      BY DEF GateInv, Counted
    <3>2. streams'[s] = {} \/ streams'[s] = streams[s]
      OBVIOUS
    <3>3. CASE streams'[s] = {}
      BY <3>3, NoneIsFew
    <3> QED BY <3>1, <3>2, <3>3
  <2> QED BY <2>1, <2>2 DEF GateInv, Counted
<1>7. NoSessionChangesHands'
  BY <1>2 DEF GateInv, NoSessionChangesHands, Owns, Same, Busy, Request
<1> QED BY <1>1, <1>3, <1>4, <1>5, <1>6, <1>7 DEF GateInv

-----------------------------------------------------------------------------
(* Removals *)

\* Tables with the same owners.
SameOwners(m, n) ==
  \A s \in Sids : /\ m[s] # Nobody <=> n[s] # Nobody
                  /\ m[s] # Nobody => m[s].key = n[s].key /\ m[s].endpoint = n[s].endpoint

LEMMA RemoveInv ==
  ASSUME GateInv, NEW S \in SUBSET Sids, NEW m \in Bindings, SameOwners(m, map),
         NEW rq \in Table, RemoveBindings(S, m, rq), UNCHANGED <<keyStreams, metamcp>>,
         \A r \in Requests : \/ rq[r] = Nobody /\ (Busy(r) => req[r].kind # "get")
                             \/ Same(rq[r], req[r])
  PROVE  GateInv'
<1> DEFINE closed(r) == \E s \in S : r \in streams[s]
           closing(r) == [rq[r] EXCEPT !.stage = "closing"]
<1>1. \A r \in Requests : req'[r] = IF closed(r) THEN closing(r) ELSE rq[r]
  <2>1. req' = [r \in Requests |-> IF \E s \in Sids : s \in S /\ r \in streams[s] THEN closing(r) ELSE rq[r]]
    BY DEF RemoveBindings, DestroyStreams
  <2> QED BY <2>1
<1>2. \A r \in Requests : closed(r) => Busy(r) /\ req[r].kind = "get"
  BY DEF GateInv, Streaming
<1>3. \A r \in Requests : closed(r) => Same(rq[r], req[r]) /\ rq[r] \in Request
  BY <1>2 DEF Table, Same
<1>4. \A q \in Request : LET c == [q EXCEPT !.stage = "closing"]
                         IN c \in Request /\ c.stage = "closing" /\ c.kind = q.kind /\ c.key = q.key
                            /\ c.endpoint = q.endpoint /\ c.sid = q.sid /\ c.newSid = q.newSid
  BY DEF Request
<1>5. \A r \in Requests : closed(r) => closing(r) \in Request /\ Same(closing(r), req[r]) /\ closing(r).stage = "closing"
  <2> HIDE DEF closed
  <2> QED BY <1>3, <1>4, NobodyAssumption DEF Same
<1>6. req' \in Table
  <2>1. DOMAIN req' = Requests /\ req' = [r \in Requests |-> req'[r]]
    BY DEF RemoveBindings, DestroyStreams
  <2>2. \A r \in Requests : req'[r] \in Request \cup {Nobody}
    BY <1>1, <1>5 DEF Table
  <2> QED BY <2>1, <2>2 DEF Table
<1>7. \A r \in Requests : \/ req'[r] = Nobody /\ (Busy(r) => req[r].kind # "get")
                          \/ Same(req'[r], req[r])
  BY <1>1, <1>5
<1>8. \A s \in S : \A r \in streams[s] : req'[r] # Nobody => req'[r].stage = "closing"
  BY <1>1, <1>5 DEF GateInv, Types
<1>9. /\ map' \in Bindings /\ \A s \in Sids : map'[s] = IF s \in S THEN Nobody ELSE m[s]
      /\ streams' \in [Sids -> SUBSET Requests]
      /\ \A s \in Sids : streams'[s] = IF s \in S THEN {} ELSE streams[s]
  BY DEF RemoveBindings, Bindings, GateInv, Types
<1>10. metamcp' \in [Sids -> {"unused", "live", "gone"}] /\ metamcp' = metamcp /\ keyStreams' = keyStreams
  BY DEF GateInv, Types
<1> HIDE DEF closed, closing
<1> QED BY <1>6, <1>7, <1>8, <1>9, <1>10, StepInv DEF SameOwners

\* A busy request that changes its stage, and one that ends, as RemoveInv wants them.
LEMMA OneRequest ==
  ASSUME GateInv, NEW r \in Requests, Busy(r), NEW q \in Request \cup {Nobody},
         \/ q = Nobody /\ req[r].kind # "get"
         \/ Same(q, req[r])
  PROVE  /\ [req EXCEPT ![r] = q] \in Table
         /\ \A p \in Requests : \/ [req EXCEPT ![r] = q][p] = Nobody /\ (Busy(p) => req[p].kind # "get")
                                \/ Same([req EXCEPT ![r] = q][p], req[p])
BY DEF GateInv, Types, Table, Same, Busy

LEMMA NextStage ==
  ASSUME GateInv, NEW r \in Requests, Busy(r), req[r].stage # "closing",
         NEW stage \in {"free", "body", "sent", "answered", "open", "closing"}
  PROVE  [req[r] EXCEPT !.stage = stage] \in Request /\ Same([req[r] EXCEPT !.stage = stage], req[r])
<1>1. req[r] \in Request
  BY DEF GateInv, Types, Table, Busy
<1>2. /\ [req[r] EXCEPT !.stage = stage] \in Request
      /\ LET c == [req[r] EXCEPT !.stage = stage]
         IN c.kind = req[r].kind /\ c.key = req[r].key
            /\ c.endpoint = req[r].endpoint /\ c.sid = req[r].sid /\ c.newSid = req[r].newSid
  BY <1>1 DEF Request
<1> QED BY <1>1, <1>2, NobodyAssumption DEF Same

LEMMA MapIsBindings == ASSUME GateInv PROVE map \in Bindings /\ SameOwners(map, map)
BY DEF GateInv, Types, SameOwners

LEMMA ArriveExpiredInv ==
  ASSUME GateInv, NEW r \in Requests, NEW s \in Sids, ArriveExpired(r, s) PROVE GateInv'
<1>1. req \in Table /\ \A q \in Requests : (req[q] = Nobody /\ (Busy(q) => req[q].kind # "get")) \/ Same(req[q], req[q])
  BY DEF GateInv, Types, Table, Same, Busy
<1>2. RemoveBindings({s}, map, req) /\ UNCHANGED <<keyStreams, metamcp>>
  BY DEF ArriveExpired
<1>3. {s} \in SUBSET Sids
  OBVIOUS
<1> QED BY <1>1, <1>2, <1>3, MapIsBindings, RemoveInv

LEMMA SweptIsSids == SweptByCapacity \in SUBSET Sids
BY DEF SweptByCapacity, ExpiredSids, Bound, BoundIn

LEMMA EndInitializeInv == ASSUME GateInv, NEW r \in Requests, EndInitialize(r) PROVE GateInv'
<1>1. Busy(r) /\ req[r].stage # "closing" /\ req[r].kind # "get" /\ UNCHANGED <<keyStreams, metamcp>>
  BY DEF EndInitialize, Busy
<1>2. CASE req' = [req EXCEPT ![r] = Nobody] /\ UNCHANGED <<map, perKey, streams, deletes>>
  <2>1. /\ req' \in Table
        /\ \A p \in Requests : (req'[p] = Nobody /\ (Busy(p) => req[p].kind # "get")) \/ Same(req'[p], req[p])
    BY <1>1, <1>2, OneRequest
  <2>2. {} \in SUBSET Sids /\ map' \in Bindings /\ streams' \in [Sids -> SUBSET Requests]
        /\ metamcp' \in [Sids -> {"unused", "live", "gone"}]
    BY <1>1, <1>2 DEF GateInv, Types
  <2> QED BY <1>1, <1>2, <2>1, <2>2, StepInv
<1>3. CASE RemoveBindings(SweptByCapacity, map,
             [req EXCEPT ![r] = IF HasCapacity(req[r].key) THEN [req[r] EXCEPT !.stage = "sent"] ELSE Nobody])
  <2> DEFINE q == IF HasCapacity(req[r].key) THEN [req[r] EXCEPT !.stage = "sent"] ELSE Nobody
  <2>1. q \in Request \cup {Nobody} /\ (q = Nobody \/ Same(q, req[r]))
    BY <1>1, NextStage
  <2> HIDE DEF q
  <2>2. /\ [req EXCEPT ![r] = q] \in Table
        /\ \A p \in Requests : \/ [req EXCEPT ![r] = q][p] = Nobody /\ (Busy(p) => req[p].kind # "get")
                               \/ Same([req EXCEPT ![r] = q][p], req[p])
    BY <1>1, <2>1, OneRequest
  <2>3. RemoveBindings(SweptByCapacity, map, [req EXCEPT ![r] = q])
    BY <1>3 DEF q
  <2> QED BY <1>1, <2>2, <2>3, SweptIsSids, MapIsBindings, RemoveInv
<1> QED BY <1>2, <1>3 DEF EndInitialize

LEMMA StageInv ==
  ASSUME GateInv, NEW r \in Requests, ForwardCall(r) \/ AnswerGet(r) PROVE GateInv'
<1>1. /\ Busy(r) /\ req[r].stage # "closing" /\ UNCHANGED <<map, streams, keyStreams, metamcp>>
      /\ \E stage \in {"sent", "open"} : req' = [req EXCEPT ![r] = [req[r] EXCEPT !.stage = stage]]
  BY DEF ForwardCall, AnswerGet, Busy
<1>2. PICK stage \in {"sent", "open"} : req' = [req EXCEPT ![r] = [req[r] EXCEPT !.stage = stage]]
  BY <1>1
<1>3. [req[r] EXCEPT !.stage = stage] \in Request /\ Same([req[r] EXCEPT !.stage = stage], req[r])
  BY <1>1, NextStage
<1>4. /\ req' \in Table
      /\ \A p \in Requests : (req'[p] = Nobody /\ (Busy(p) => req[p].kind # "get")) \/ Same(req'[p], req[p])
  BY <1>1, <1>2, <1>3, OneRequest
<1>5. {} \in SUBSET Sids /\ map' \in Bindings /\ streams' \in [Sids -> SUBSET Requests]
      /\ metamcp' \in [Sids -> {"unused", "live", "gone"}]
  BY <1>1 DEF GateInv, Types
<1> QED BY <1>1, <1>4, <1>5, StepInv

LEMMA AnswerErrorInv == ASSUME GateInv, NEW r \in Requests, AnswerError(r) PROVE GateInv'
<1> DEFINE S == IF req[r].sid # Nobody /\ req[r].status \in {"401", "404"} THEN {req[r].sid} ELSE {}
           q == Finished(req[r])
<1>1. Busy(r) /\ req[r].stage # "closing" /\ UNCHANGED <<keyStreams, metamcp>> /\ req[r] \in Request
      /\ RemoveBindings(S, map, [req EXCEPT ![r] = q])
  BY DEF AnswerError, Busy, GateInv, Types, Table
<1>2. S \in SUBSET Sids
  BY <1>1 DEF Request
<1>3. q \in Request \cup {Nobody} /\ ((q = Nobody /\ req[r].kind # "get") \/ Same(q, req[r]))
  BY <1>1, NextStage DEF Finished
<1> HIDE DEF q, S
<1>4. /\ [req EXCEPT ![r] = q] \in Table
      /\ \A p \in Requests : \/ [req EXCEPT ![r] = q][p] = Nobody /\ (Busy(p) => req[p].kind # "get")
                             \/ Same([req EXCEPT ![r] = q][p], req[p])
  BY <1>1, <1>3, OneRequest
<1> QED BY <1>1, <1>2, <1>4, MapIsBindings, RemoveInv

LEMMA AnswerCallInv == ASSUME GateInv, NEW r \in Requests, AnswerCall(r) PROVE GateInv'
<1> DEFINE S == IF req[r].kind = "delete" THEN {req[r].sid} ELSE {}
<1>1. Busy(r) /\ req[r].kind # "get" /\ UNCHANGED <<keyStreams, metamcp>> /\ req[r] \in Request
      /\ RemoveBindings(S, map, [req EXCEPT ![r] = Nobody])
  BY DEF AnswerCall, Busy, GateInv, Types, Table
<1>2. S \in SUBSET Sids
  BY <1>1 DEF Request, GateInv, Created
<1> HIDE DEF S
<1>3. /\ [req EXCEPT ![r] = Nobody] \in Table
      /\ \A p \in Requests : \/ [req EXCEPT ![r] = Nobody][p] = Nobody /\ (Busy(p) => req[p].kind # "get")
                             \/ Same([req EXCEPT ![r] = Nobody][p], req[p])
  BY <1>1, OneRequest
<1> QED BY <1>1, <1>2, <1>3, MapIsBindings, RemoveInv

LEMMA SweeperInv == ASSUME GateInv, Sweeper PROVE GateInv'
<1>1. req \in Table /\ \A q \in Requests : (req[q] = Nobody /\ (Busy(q) => req[q].kind # "get")) \/ Same(req[q], req[q])
  BY DEF GateInv, Types, Table, Same, Busy
<1>2. Touched \in Bindings /\ SameOwners(Touched, map)
  <2>1. \A b \in Binding : LET c == [b EXCEPT !.idle = 0]
                           IN c \in Binding /\ c.key = b.key /\ c.endpoint = b.endpoint
    BY Limits DEF Binding
  <2>2. map \in Bindings
    BY DEF GateInv, Types
  <2> QED BY <2>1, <2>2, NobodyAssumption DEF Touched, Bindings, SameOwners
<1>3. {s \in BoundIn(Touched) : Expired(Touched[s])} \in SUBSET Sids
  BY DEF BoundIn
<1>4. RemoveBindings({s \in BoundIn(Touched) : Expired(Touched[s])}, Touched, req) /\ UNCHANGED <<keyStreams, metamcp>>
  BY DEF Sweeper
<1> QED BY <1>1, <1>2, <1>3, <1>4, RemoveInv

LEMMA TickInv == ASSUME GateInv, Tick PROVE GateInv'
<1>1. \A b \in Binding : LET c == [b EXCEPT !.idle = Min2(@ + 1, IdleLimit + 1), !.age = Min2(@ + 1, LifetimeLimit + 1)]
                         IN c \in Binding /\ c.key = b.key /\ c.endpoint = b.endpoint
  <2> SUFFICES ASSUME NEW b \in Binding
               PROVE  LET c == [b EXCEPT !.idle = Min2(@ + 1, IdleLimit + 1), !.age = Min2(@ + 1, LifetimeLimit + 1)]
                      IN c \in Binding /\ c.key = b.key /\ c.endpoint = b.endpoint
    OBVIOUS
  <2> DEFINE i == Min2(b.idle + 1, IdleLimit + 1)
             a == Min2(b.age + 1, LifetimeLimit + 1)
  <2>1. b.idle \in 0..(IdleLimit + 1) /\ b.age \in 0..(LifetimeLimit + 1)
    BY DEF Binding
  <2>2. i \in 0..(IdleLimit + 1) /\ a \in 0..(LifetimeLimit + 1)
    BY <2>1, Limits DEF Min2
  <2> HIDE DEF i, a
  <2>3. LET c == [b EXCEPT !.idle = i, !.age = a] IN c \in Binding /\ c.key = b.key /\ c.endpoint = b.endpoint
    BY <2>2 DEF Binding
  <2> QED BY <2>3 DEF i, a
<1>2. map \in Bindings /\ req \in Table /\ UNCHANGED <<req, streams, keyStreams, metamcp>>
      /\ streams' \in [Sids -> SUBSET Requests] /\ metamcp' \in [Sids -> {"unused", "live", "gone"}]
  BY DEF GateInv, Types, Tick
<1>3. map' \in Bindings /\ SameOwners(map', map)
  <2>1. \A s \in Sids : map[s] # Nobody => map[s] \in Binding
    BY <1>2 DEF Bindings
  <2> DEFINE older(b) == [b EXCEPT !.idle = Min2(@ + 1, IdleLimit + 1), !.age = Min2(@ + 1, LifetimeLimit + 1)]
  <2>2. \A b \in Binding : older(b) \in Binding /\ older(b).key = b.key /\ older(b).endpoint = b.endpoint
    BY <1>1
  <2>3. map' = [s \in Sids |-> IF map[s] = Nobody THEN Nobody ELSE older(map[s])]
    BY DEF Tick
  <2> HIDE DEF older
  <2> QED BY <2>1, <2>2, <2>3, NobodyAssumption DEF Bindings, SameOwners
<1>4. \A p \in Requests : (req'[p] = Nobody /\ (Busy(p) => req[p].kind # "get")) \/ Same(req'[p], req[p])
  BY <1>2 DEF Same, Busy
<1>5. {} \in SUBSET Sids /\ req' \in Table
  BY <1>2
<1> QED BY <1>2, <1>3, <1>4, <1>5, StepInv DEF SameOwners

LEMMA MetaMcpDeletesInv == ASSUME GateInv, NEW d \in Sids, MetaMcpDeletes(d) PROVE GateInv'
<1>1. /\ UNCHANGED <<map, req, streams, keyStreams>>
      /\ map' \in Bindings /\ req' \in Table /\ streams' \in [Sids -> SUBSET Requests]
      /\ metamcp' \in [Sids -> {"unused", "live", "gone"}]
      /\ \A s \in Sids : metamcp'[s] = "unused" => metamcp[s] = "unused"
  BY DEF MetaMcpDeletes, GateInv, Types
<1>2. \A p \in Requests : (req'[p] = Nobody /\ (Busy(p) => req[p].kind # "get")) \/ Same(req'[p], req[p])
  BY <1>1 DEF Same, Busy
<1>3. {} \in SUBSET Sids
  OBVIOUS
<1> QED BY <1>1, <1>2, <1>3, StepInv

-----------------------------------------------------------------------------
(* Steps that create: new requests, new sessions, new bindings *)

\* A request that presents a session arrives; a GET becomes a stream at once.
LEMMA ArriveInv ==
  ASSUME GateInv, NEW r \in Requests, ~Busy(r), NEW q \in Request, req' = [req EXCEPT ![r] = q],
         NEW kind \in Kinds, NEW s \in Sids \cup {Nobody}, q.kind = kind, q.sid = s, q.newSid = Nobody,
         q.stage # "closing",
         s = Nobody <=> kind = "initialize",
         s # Nobody => map[s] # Nobody /\ map[s].key = q.key /\ map[s].endpoint = q.endpoint,
         map' \in Bindings, SameOwners(map', map), metamcp' = metamcp,
         \/ kind # "get" /\ UNCHANGED <<streams, keyStreams>>
         \/ /\ kind = "get" /\ streams' = [streams EXCEPT ![s] = @ \cup {r}]
            /\ keyStreams' = [keyStreams EXCEPT ![q.key] = @ + 1]
            /\ StreamAllowed(q.key, s)
  PROVE  GateInv'
<1>1. /\ req' \in Table /\ req'[r] = q /\ \A p \in Requests : p # r => req'[p] = req[p]
      /\ q # Nobody /\ q.key \in Keys /\ Busy(r)'
      /\ \A p \in Requests : p # r => (Busy(p)' <=> Busy(p))
  BY NobodyAssumption DEF GateInv, Types, Table, Busy, Request
<1>2. \A p \in Requests : Busy(p) => req[p] \in Request
  BY DEF GateInv, Types, Table, Busy
<1>3. CASE kind # "get" /\ UNCHANGED <<streams, keyStreams>>
  <2>1. Types'
    BY <1>1, <1>3 DEF GateInv, Types
  <2>2. Created'
    BY <1>1, <1>3, NobodyAssumption DEF GateInv, Created, SameOwners
  <2>3. Fresh'
    BY <1>1, <1>2, <1>3, NobodyAssumption DEF GateInv, Fresh, SameOwners, Request
  <2>4. Streaming'
    <3>1. \A t \in Sids : \A p \in streams[t] : p \in Requests /\ p # r /\ Busy(p) /\ req[p].kind = "get" /\ req[p].sid = t
      BY DEF GateInv, Streaming, Types
    <3>2. \A p \in Requests : Busy(p) /\ req[p].kind = "get" => req[p].sid \in Sids
      BY <1>2 DEF GateInv, Created, Request
    <3>3. \A t \in Sids : \A p \in streams'[t] : Busy(p)' /\ req'[p].kind = "get" /\ req'[p].sid = t
      BY <1>1, <1>3, <3>1
    <3>4. ASSUME NEW p \in Requests, Busy(p)', req'[p].kind = "get", req'[p].stage # "closing"
          PROVE  p \in streams'[req'[p].sid] /\ map'[req'[p].sid] # Nobody
      <4>1. p # r /\ Busy(p) /\ req'[p] = req[p]
        BY <1>1, <1>3, <3>4
      <4> QED BY <1>3, <3>2, <3>4, <4>1 DEF GateInv, Streaming, SameOwners
    <3> QED BY <3>3, <3>4 DEF Streaming
  <2>5. Counted'
    <3>1. \A k \in Keys : Gets(k)' = Gets(k)
      BY <1>1, <1>3 DEF Gets
    <3> QED BY <1>3, <3>1 DEF GateInv, Counted
  <2>6. NoSessionChangesHands'
    BY <1>1, <1>2, <1>3 DEF GateInv, NoSessionChangesHands, Owns, SameOwners, Request
  <2> QED BY <2>1, <2>2, <2>3, <2>4, <2>5, <2>6 DEF GateInv
<1>4. CASE /\ kind = "get" /\ streams' = [streams EXCEPT ![s] = @ \cup {r}]
           /\ keyStreams' = [keyStreams EXCEPT ![q.key] = @ + 1]
           /\ StreamAllowed(q.key, s)
  <2>0. s \in Sids /\ \A t \in Sids : streams'[t] = IF t = s THEN streams[s] \cup {r} ELSE streams[t]
    BY <1>4 DEF GateInv, Types
  <2>1. Types'
    BY <1>1, <1>4, <2>0 DEF GateInv, Types
  <2>2. Created'
    BY <1>1, <1>4, NobodyAssumption DEF GateInv, Created, SameOwners
  <2>3. Fresh'
    BY <1>1, <1>2, <1>4, <2>0 DEF GateInv, Created, Fresh, SameOwners, Request
  <2>4. Streaming'
    <3>1. \A p \in Requests : Busy(p) /\ req[p].kind = "get" => req[p].sid \in Sids
      BY <1>2 DEF GateInv, Created, Request
    <3>2. \A t \in Sids : \A p \in streams[t] : p \in Requests /\ p # r /\ Busy(p) /\ req[p].kind = "get" /\ req[p].sid = t
      BY DEF GateInv, Streaming, Types
    <3>3. \A t \in Sids : \A p \in streams'[t] : Busy(p)' /\ req'[p].kind = "get" /\ req'[p].sid = t
      BY <1>1, <1>4, <2>0, <3>2
    <3>4. ASSUME NEW p \in Requests, Busy(p)', req'[p].kind = "get", req'[p].stage # "closing"
          PROVE  p \in streams'[req'[p].sid] /\ map'[req'[p].sid] # Nobody
      <4>1. CASE p = r
        BY <1>1, <2>0, <4>1, NobodyAssumption DEF SameOwners
      <4>2. CASE p # r
        BY <1>1, <2>0, <3>1, <3>4, <4>2 DEF GateInv, Streaming, SameOwners
      <4> QED BY <4>1, <4>2
    <3> QED BY <3>3, <3>4 DEF Streaming
  <2>5. Counted'
    <3>1. /\ Gets(q.key)' = Gets(q.key) \cup {r} /\ r \notin Gets(q.key)
          /\ \A k \in Keys : k # q.key => Gets(k)' = Gets(k)
      BY <1>1, <1>4 DEF Gets
    <3>2. /\ IsFiniteSet(Gets(q.key)) /\ IsFiniteSet(streams[s]) /\ r \notin streams[s]
      <4>1. Gets(q.key) \subseteq Requests /\ streams[s] \subseteq Requests /\ r \notin streams[s]
        BY <2>0 DEF Gets, GateInv, Types, Streaming
      <4> QED BY <4>1, NobodyAssumption, FS_Subset
    <3>3. /\ Cardinality(Gets(q.key)') = Cardinality(Gets(q.key)) + 1
          /\ Cardinality(streams'[s]) = Cardinality(streams[s]) + 1
      <4>1. streams'[s] = streams[s] \cup {r}
        BY <2>0
      <4>2. Cardinality(Gets(q.key) \cup {r}) = Cardinality(Gets(q.key)) + 1
        BY <3>1, <3>2, FS_AddElement
      <4>3. Cardinality(streams[s] \cup {r}) = Cardinality(streams[s]) + 1
        BY <3>2, FS_AddElement
      <4> QED BY <3>1, <4>1, <4>2, <4>3
    <3>4. /\ Cardinality(streams[s]) < MaxStreamsPerSession /\ keyStreams[q.key] < MaxStreamsPerKey
      BY <1>4 DEF StreamAllowed
    <3>5. \A k \in Keys : keyStreams'[k] = (IF k = q.key THEN keyStreams[k] + 1 ELSE keyStreams[k])
      BY <1>1, <1>4 DEF GateInv, Types
    <3>6. Cardinality(Gets(q.key)) \in Nat /\ Cardinality(streams[s]) \in Nat
      BY <3>2, FS_CardinalityType
    <3>7. ASSUME NEW k \in Keys
          PROVE  keyStreams'[k] = Cardinality(Gets(k)') /\ keyStreams'[k] <= MaxStreamsPerKey
      <4>1. keyStreams[k] = Cardinality(Gets(k)) /\ keyStreams[k] <= MaxStreamsPerKey /\ keyStreams[k] \in Nat
        BY DEF GateInv, Counted, Types
      <4>2. CASE k = q.key
        BY <4>1, <4>2, <3>3, <3>4, <3>5, Limits
      <4>3. CASE k # q.key
        BY <4>1, <4>3, <3>1, <3>5
      <4> QED BY <4>2, <4>3
    <3>8. ASSUME NEW t \in Sids PROVE Cardinality(streams'[t]) <= MaxStreamsPerSession
      <4>1. CASE t = s
        BY <4>1, <3>3, <3>4, <3>6, Limits
      <4>2. CASE t # s
        BY <4>2, <2>0 DEF GateInv, Counted
      <4> QED BY <4>1, <4>2
    <3> QED BY <3>7, <3>8 DEF Counted
  <2>6. NoSessionChangesHands'
    BY <1>1, <1>2, <1>4, <2>0 DEF GateInv, NoSessionChangesHands, Owns, SameOwners, Request
  <2> QED BY <2>1, <2>2, <2>3, <2>4, <2>5, <2>6 DEF GateInv
<1> QED BY <1>3, <1>4

LEMMA NewIsRequest ==
  ASSUME NEW kind \in Kinds, NEW k \in Keys, NEW e \in Endpoints, NEW s \in Sids \cup {Nobody}
  PROVE  LET q == NewRequest(kind, k, e, s)
         IN /\ q \in Request /\ q.kind = kind /\ q.key = k /\ q.endpoint = e /\ q.sid = s
            /\ q.newSid = Nobody /\ q.stage = "body" /\ q.status = "none"
BY DEF NewRequest, Request

LEMMA Refreshed ==
  ASSUME GateInv, NEW s \in Sids, map[s] # Nobody, map' = [map EXCEPT ![s].idle = 0]
  PROVE  map' \in Bindings /\ SameOwners(map', map)
<1>1. map \in Bindings /\ map[s] \in Binding
  BY DEF GateInv, Types, Bindings
<1>2. LET b == [map[s] EXCEPT !.idle = 0]
      IN b \in Binding /\ b.key = map[s].key /\ b.endpoint = map[s].endpoint
  BY <1>1, Limits DEF Binding
<1>3. map' = [map EXCEPT ![s] = [map[s] EXCEPT !.idle = 0]]
  OBVIOUS
<1> QED BY <1>1, <1>2, <1>3, NobodyAssumption DEF Bindings, SameOwners

LEMMA ArriveInitializeInv ==
  ASSUME GateInv, NEW r \in Requests, NEW k \in Keys, NEW e \in Endpoints, ArriveInitialize(r, k, e)
  PROVE  GateInv'
<1> DEFINE q == NewRequest("initialize", k, e, Nobody)
<1>1. /\ q \in Request /\ q.kind = "initialize" /\ q.key = k /\ q.endpoint = e /\ q.sid = Nobody
      /\ q.newSid = Nobody /\ q.stage = "body" /\ "initialize" \in Kinds
  BY NewIsRequest DEF Kinds
<1>2. ~Busy(r) /\ req' = [req EXCEPT ![r] = q] /\ UNCHANGED <<map, streams, keyStreams, metamcp>>
  BY DEF ArriveInitialize, Busy
<1>3. map' \in Bindings /\ SameOwners(map', map)
  BY <1>2, MapIsBindings
<1> HIDE DEF q
<1> QED BY <1>1, <1>2, <1>3, ArriveInv

LEMMA ArriveCallInv ==
  ASSUME GateInv, NEW r \in Requests, NEW kind \in {"call", "delete"}, NEW k \in Keys, NEW e \in Endpoints,
         NEW s \in Sids, ArriveCall(r, kind, k, e, s)
  PROVE  GateInv'
<1> DEFINE q == NewRequest(kind, k, e, s)
<1>1. /\ q \in Request /\ q.kind = kind /\ q.key = k /\ q.endpoint = e /\ q.sid = s
      /\ q.newSid = Nobody /\ q.stage = "body" /\ kind \in Kinds
  BY NewIsRequest DEF Kinds
<1>2. /\ ~Busy(r) /\ req' = [req EXCEPT ![r] = q] /\ UNCHANGED <<streams, keyStreams, metamcp>>
      /\ map[s] # Nobody /\ map[s].key = k /\ map[s].endpoint = e
      /\ map' = [map EXCEPT ![s].idle = 0]
  BY DEF ArriveCall, Busy, Owns
<1>3. map' \in Bindings /\ SameOwners(map', map)
  BY <1>2, Refreshed
<1> HIDE DEF q
<1> QED BY <1>1, <1>2, <1>3, NobodyAssumption, ArriveInv

LEMMA ArriveGetInv ==
  ASSUME GateInv, NEW r \in Requests, NEW k \in Keys, NEW e \in Endpoints, NEW s \in Sids, ArriveGet(r, k, e, s)
  PROVE  GateInv'
<1> DEFINE q == NewRequest("get", k, e, s)
<1>1. /\ q \in Request /\ q.kind = "get" /\ q.key = k /\ q.endpoint = e /\ q.sid = s
      /\ q.newSid = Nobody /\ q.stage = "body" /\ "get" \in Kinds
  BY NewIsRequest DEF Kinds
<1>2. /\ ~Busy(r) /\ metamcp' = metamcp /\ map[s] # Nobody /\ map[s].key = k /\ map[s].endpoint = e
      /\ map' = [map EXCEPT ![s].idle = 0]
  BY DEF ArriveGet, Busy, Owns
<1>3. map' \in Bindings /\ SameOwners(map', map)
  BY <1>2, Refreshed
<1>4. CASE StreamAllowed(k, s)
  <2>1. /\ streams' = [streams EXCEPT ![s] = @ \cup {r}] /\ keyStreams' = [keyStreams EXCEPT ![k] = @ + 1]
        /\ req' = [req EXCEPT ![r] = q]
    BY <1>4 DEF ArriveGet
  <2> HIDE DEF q
  <2> QED BY <1>1, <1>2, <1>3, <1>4, <2>1, NobodyAssumption, ArriveInv
<1>5. CASE ~StreamAllowed(k, s)
  <2>1. UNCHANGED <<streams, keyStreams, req>>
    BY <1>5 DEF ArriveGet
  <2>2. \A p \in Requests : (req'[p] = Nobody /\ (Busy(p) => req[p].kind # "get")) \/ Same(req'[p], req[p])
    BY <2>1 DEF Same, Busy
  <2>3. {} \in SUBSET Sids /\ req' \in Table /\ streams' \in [Sids -> SUBSET Requests]
        /\ metamcp' \in [Sids -> {"unused", "live", "gone"}]
    BY <1>2, <2>1 DEF GateInv, Types
  <2> QED BY <1>2, <1>3, <2>1, <2>2, <2>3, StepInv DEF SameOwners
<1> QED BY <1>4, <1>5

\* An answer is on its way: only to an initialize does it bring a session, one nobody had before.
LEMMA AnsweredInv ==
  ASSUME GateInv, NEW r \in Requests, Busy(r), req[r].stage = "sent", NEW status \in {"ok", "401", "404", "500"},
         NEW s \in Sids \cup {Nobody}, Answer(r, status, s),
         UNCHANGED <<map, streams, keyStreams>>, metamcp' \in [Sids -> {"unused", "live", "gone"}],
         \A t \in Sids : metamcp'[t] = "unused" => metamcp[t] = "unused",
         req[r].kind = "initialize" /\ s # Nobody => metamcp[s] = "unused" /\ metamcp'[s] # "unused"
  PROVE  GateInv'
<1> DEFINE q == [req[r] EXCEPT !.stage = "answered", !.status = status, !.newSid = s]
<1>1. req[r] \in Request
  BY DEF GateInv, Types, Table, Busy
<1>2. /\ q \in Request /\ q.stage = "answered" /\ q.newSid = s /\ q.kind = req[r].kind /\ q.key = req[r].key
      /\ q.endpoint = req[r].endpoint /\ q.sid = req[r].sid
  BY <1>1 DEF Request
<1>3. req' = [req EXCEPT ![r] = q]
  BY DEF Answer
<1> HIDE DEF q
<1>4. /\ req' \in Table /\ req'[r] = q /\ \A p \in Requests : p # r => req'[p] = req[p]
      /\ q # Nobody /\ \A p \in Requests : Busy(p)' <=> Busy(p)
  BY <1>2, <1>3, NobodyAssumption DEF GateInv, Types, Table, Busy
<1>5. Types'
  BY <1>4 DEF GateInv, Types
<1>6. Created'
  <2>1. \A p \in Requests : Busy(p) => req[p].sid \in Sids \cup {Nobody}
    BY DEF GateInv, Types, Table, Busy, Request
  <2> QED BY <1>2, <1>4, <2>1 DEF GateInv, Created
<1>7. Fresh'
  <2>1. \A p \in Requests : Busy(p) => req[p] \in Request
    BY DEF GateInv, Types, Table, Busy
  <2>2. \A p \in Requests : Busy(p)' => req'[p].sid = req[p].sid /\ req'[p].kind = req[p].kind
    BY <1>2, <1>4
  <2>3. \A p \in Requests : Busy(p) /\ p # r => req'[p] = req[p]
    BY <1>4
  <2>4. CASE req[r].kind = "initialize" /\ s # Nobody
    <3>1. metamcp[s] = "unused" /\ metamcp'[s] # "unused" /\ s \in Sids
      BY <2>4
    <3>2. /\ map[s] = Nobody /\ \A p \in Requests : Busy(p) => req[p].sid # s
          /\ \A p \in Requests : Busy(p) /\ req[p].kind = "initialize" => req[p].newSid # s
      BY <3>1, NobodyAssumption DEF GateInv, Created, Fresh
    <3>3. ASSUME NEW p \in Requests, Busy(p)', req'[p].kind = "initialize", req'[p].newSid # Nobody
          PROVE  /\ metamcp'[req'[p].newSid] # "unused" /\ map'[req'[p].newSid] = Nobody
                 /\ \A t \in Requests : Busy(t)' =>
                      /\ req'[t].sid # req'[p].newSid
                      /\ t # p /\ req'[t].kind = "initialize" => req'[t].newSid # req'[p].newSid
      <4>1. CASE p = r
        BY <1>2, <1>4, <2>2, <3>1, <3>2, <4>1
      <4>2. CASE p # r
        <5>1. req'[p] = req[p] /\ Busy(p) /\ req[p].newSid \in Sids
          BY <1>4, <2>1, <3>3, <4>2 DEF Request
        <5>2. /\ metamcp[req[p].newSid] # "unused" /\ map[req[p].newSid] = Nobody
              /\ \A t \in Requests : Busy(t) =>
                   /\ req[t].sid # req[p].newSid
                   /\ t # p /\ req[t].kind = "initialize" => req[t].newSid # req[p].newSid
          BY <3>3, <5>1 DEF GateInv, Fresh
        <5> QED BY <1>2, <1>4, <2>2, <3>1, <3>2, <3>3, <5>1, <5>2
      <4> QED BY <4>1, <4>2
    <3> QED BY <3>3 DEF Fresh
  <2>5. CASE ~(req[r].kind = "initialize" /\ s # Nobody)
    <3>1. ASSUME NEW p \in Requests, Busy(p)', req'[p].kind = "initialize", req'[p].newSid # Nobody
          PROVE  /\ metamcp'[req'[p].newSid] # "unused" /\ map'[req'[p].newSid] = Nobody
                 /\ \A t \in Requests : Busy(t)' =>
                      /\ req'[t].sid # req'[p].newSid
                      /\ t # p /\ req'[t].kind = "initialize" => req'[t].newSid # req'[p].newSid
      <4>1. p # r /\ req'[p] = req[p] /\ Busy(p)
        BY <1>2, <1>4, <2>5, <3>1
      <4>2. req[p].newSid \in Sids
        BY <2>1, <3>1, <4>1 DEF Request
      <4>3. /\ metamcp[req[p].newSid] # "unused" /\ map[req[p].newSid] = Nobody
            /\ \A t \in Requests : Busy(t) =>
                 /\ req[t].sid # req[p].newSid
                 /\ t # p /\ req[t].kind = "initialize" => req[t].newSid # req[p].newSid
        BY <3>1, <4>1 DEF GateInv, Fresh
      <4> QED BY <1>2, <1>4, <2>2, <2>5, <3>1, <4>1, <4>2, <4>3
    <3> QED BY <3>1 DEF Fresh
  <2> QED BY <2>4, <2>5
<1>8. Streaming'
  <2>1. \A t \in Sids : streams[t] \subseteq Requests
    BY DEF GateInv, Types
  <2>2. \A p \in Requests : Busy(p) => /\ req'[p].kind = req[p].kind /\ req'[p].sid = req[p].sid
                                       /\ req'[p].stage # "closing" => req[p].stage # "closing"
    BY <1>2, <1>4
  <2> QED BY <1>4, <2>1, <2>2 DEF GateInv, Streaming
<1>9. Counted'
  <2>1. \A k \in Keys : Gets(k)' = Gets(k)
    BY <1>2, <1>4 DEF Gets
  <2> QED BY <2>1 DEF GateInv, Counted
<1>10. NoSessionChangesHands'
  BY <1>2, <1>4 DEF GateInv, NoSessionChangesHands, Owns
<1> QED BY <1>5, <1>6, <1>7, <1>8, <1>9, <1>10 DEF GateInv

LEMMA MetaMcpServesInv == ASSUME GateInv, NEW r \in Requests, MetaMcpServes(r) PROVE GateInv'
<1>1. Busy(r) /\ req[r].stage = "sent" /\ UNCHANGED <<map, streams, keyStreams>>
      /\ metamcp \in [Sids -> {"unused", "live", "gone"}] /\ req[r].sid \in Sids \cup {Nobody}
      /\ (req[r].kind # "initialize" => req[r].sid \in Sids)
  BY DEF MetaMcpServes, Busy, GateInv, Types, Table, Request, Created
<1>2. CASE /\ req[r].kind \in {"initialize", "call"}
           /\ \E s \in Sids : /\ metamcp[s] = "unused" /\ metamcp' = [metamcp EXCEPT ![s] = "live"]
                              /\ Answer(r, "ok", s)
  <2>1. PICK s \in Sids : /\ metamcp[s] = "unused" /\ metamcp' = [metamcp EXCEPT ![s] = "live"]
                          /\ Answer(r, "ok", s)
    BY <1>2
  <2>2. /\ metamcp' \in [Sids -> {"unused", "live", "gone"}] /\ metamcp'[s] # "unused"
        /\ \A t \in Sids : metamcp'[t] = "unused" => metamcp[t] = "unused"
    BY <1>1, <2>1
  <2> QED BY <1>1, <2>1, <2>2, AnsweredInv
<1>3. CASE /\ req[r].kind # "initialize" /\ Answer(r, "ok", req[r].sid)
           /\ metamcp' = IF req[r].kind = "delete" THEN [metamcp EXCEPT ![req[r].sid] = "gone"] ELSE metamcp
  <2>1. /\ metamcp' \in [Sids -> {"unused", "live", "gone"}]
        /\ \A t \in Sids : metamcp'[t] = "unused" => metamcp[t] = "unused"
    BY <1>1, <1>3
  <2> QED BY <1>1, <1>3, <2>1, AnsweredInv
<1>4. CASE metamcp' = metamcp /\ \E status \in {"401", "404", "500"} : Answer(r, status, Nobody)
  BY <1>1, <1>4, AnsweredInv
<1> QED BY <1>2, <1>3, <1>4 DEF MetaMcpServes

LEMMA EvictedIsSids == ASSUME NEW k PROVE EvictedByBind(k) \in SUBSET Sids
BY DEF EvictedByBind, Bound, BoundIn

\* bind(): the session is new, so that nothing presents it; the bindings that make room go.
LEMMA BindInv ==
  ASSUME GateInv, NEW r \in Requests, AnswerInitialize(r), HasCapacity(req[r].key),
         NEW gone \in SUBSET Sids, NEW s, s = req[r].newSid,
         map' = [x \in Sids |-> IF x = s THEN [key |-> req[r].key, endpoint |-> req[r].endpoint, idle |-> 0, age |-> 0]
                                ELSE IF x \in gone THEN Nobody ELSE map[x]],
         streams' = [x \in Sids |-> IF x \in gone THEN {} ELSE streams[x]],
         req' = DestroyStreams([req EXCEPT ![r] = Nobody], gone)
  PROVE  GateInv'
<1> DEFINE closed(p) == \E t \in gone : p \in streams[t]
           closing(p) == [req[p] EXCEPT !.stage = "closing"]
<1>1. /\ Busy(r) /\ req[r] \in Request /\ req[r].kind = "initialize" /\ req[r].stage = "answered"
      /\ UNCHANGED <<keyStreams, metamcp>> /\ s \in Sids \cup {Nobody}
      /\ req \in Table /\ map \in Bindings /\ streams \in [Sids -> SUBSET Requests]
  BY DEF AnswerInitialize, Busy, GateInv, Types, Table, Request
<1>2. \A p \in Requests : closed(p) => Busy(p) /\ p # r /\ req[p].kind = "get" /\ req[p] \in Request
  BY <1>1 DEF GateInv, Streaming, Types, Table, Busy
<1>3. \A p \in Requests : req'[p] = IF closed(p) THEN closing(p) ELSE IF p = r THEN Nobody ELSE req[p]
  <2>1. req' = [p \in Requests |-> IF \E t \in Sids : t \in gone /\ p \in streams[t]
                                   THEN [[req EXCEPT ![r] = Nobody][p] EXCEPT !.stage = "closing"]
                                   ELSE [req EXCEPT ![r] = Nobody][p]]
    BY DEF DestroyStreams
  <2>2. \A p \in Requests : [req EXCEPT ![r] = Nobody][p] = IF p = r THEN Nobody ELSE req[p]
    BY <1>1 DEF Table
  <2> QED BY <1>2, <2>1, <2>2
<1>4. \A q \in Request : LET c == [q EXCEPT !.stage = "closing"]
                         IN c \in Request /\ c.stage = "closing" /\ c.kind = q.kind /\ c.key = q.key
                            /\ c.endpoint = q.endpoint /\ c.sid = q.sid /\ c.newSid = q.newSid
  BY DEF Request
<1>5. \A p \in Requests : closed(p) => closing(p) \in Request /\ Same(closing(p), req[p]) /\ closing(p).stage = "closing"
  <2>1. \A p \in Requests : closed(p) => /\ Busy(p) /\ closing(p) \in Request /\ closing(p).stage = "closing"
                                         /\ closing(p).kind = req[p].kind /\ closing(p).key = req[p].key
                                         /\ closing(p).endpoint = req[p].endpoint /\ closing(p).sid = req[p].sid
                                         /\ closing(p).newSid = req[p].newSid
    <3> HIDE DEF closed
    <3> QED BY <1>2, <1>4
  <2> HIDE DEF closed, closing
  <2> QED BY <2>1, NobodyAssumption DEF Same, Busy
<1>6. req' \in Table
  <2>1. DOMAIN req' = Requests /\ req' = [p \in Requests |-> req'[p]]
    BY DEF DestroyStreams
  <2>2. \A p \in Requests : req'[p] \in Request \cup {Nobody}
    BY <1>1, <1>3, <1>5 DEF Table
  <2> QED BY <2>1, <2>2 DEF Table
<1>7. /\ req'[r] = Nobody
      /\ \A p \in Requests : p # r => (Busy(p)' <=> Busy(p)) /\ (Busy(p) => Same(req'[p], req[p]))
      /\ \A p \in Requests : Busy(p)' => p # r
      /\ \A t \in gone : \A p \in streams[t] : req'[p].stage = "closing"
  <2>1. \A t \in gone : \A p \in streams[t] : p \in Requests /\ closed(p)
    BY <1>1
  <2>2. ASSUME NEW p \in Requests
        PROVE  /\ closed(p) => Busy(p) /\ p # r /\ Same(req'[p], req[p]) /\ req'[p].stage = "closing"
               /\ ~closed(p) /\ p # r => req'[p] = req[p]
               /\ p = r => ~closed(p) /\ req'[p] = Nobody
    <3> HIDE DEF closed, closing
    <3> QED BY <1>2, <1>3, <1>5
  <2>3. \A p \in Requests : Busy(p) => Same(req[p], req[p])
    BY DEF Same, Busy
  <2> HIDE DEF closed, closing
  <2>4. \A p \in Requests : Busy(p) /\ p # r => Same(req'[p], req[p])
    BY <2>2, <2>3
  <2>5. \A p \in Requests : p # r => (Busy(p)' <=> Busy(p))
    BY <2>2, <2>4 DEF Same, Busy
  <2> QED BY <1>1, <2>1, <2>2, <2>4, <2>5 DEF Busy
<1> HIDE DEF closed, closing
<1>8. map' \in Bindings /\ \A x \in Sids : /\ x # s => (map'[x] = Nobody /\ x \in gone) \/ (map'[x] = map[x] /\ x \notin gone)
                                           /\ x = s => map'[x] # Nobody
  <2>1. [key |-> req[r].key, endpoint |-> req[r].endpoint, idle |-> 0, age |-> 0] \in Binding
    BY <1>1, Limits DEF Request, Binding
  <2> DEFINE new == [key |-> req[r].key, endpoint |-> req[r].endpoint, idle |-> 0, age |-> 0]
  <2>2. map' = [x \in Sids |-> IF x = s THEN new ELSE IF x \in gone THEN Nobody ELSE map[x]] /\ new \in Binding
    BY <2>1
  <2> HIDE DEF new
  <2>3. new # Nobody
    BY <2>2, NobodyAssumption
  <2>4. ASSUME NEW x \in Sids
        PROVE  /\ x # s => (map'[x] = Nobody /\ x \in gone) \/ (map'[x] = map[x] /\ x \notin gone)
               /\ x = s => map'[x] # Nobody
    BY <2>2, <2>3
  <2>5. \A x \in Sids : map[x] \in Binding \cup {Nobody}
    BY <1>1 DEF Bindings
  <2>6. map' \in Bindings
    BY <2>2, <2>5 DEF Bindings
  <2> QED BY <2>4, <2>6
<1>9. s \in Sids => /\ metamcp[s] # "unused" /\ map[s] = Nobody
                    /\ \A p \in Requests : Busy(p) =>
                         /\ req[p].sid # s
                         /\ p # r /\ req[p].kind = "initialize" => req[p].newSid # s
  BY <1>1, NobodyAssumption DEF GateInv, Fresh
<1>10. \A p \in Requests : Busy(p) => req[p] \in Request
  BY <1>1 DEF Table, Busy
<1>11. streams' \in [Sids -> SUBSET Requests] /\ \A t \in Sids : streams'[t] = IF t \in gone THEN {} ELSE streams[t]
  BY <1>1
<1>12. Types'
  BY <1>1, <1>6, <1>8, <1>11 DEF GateInv, Types
<1>13. Created'
  <2>1. \A x \in Sids : map'[x] # Nobody => metamcp'[x] # "unused"
    <3>1. metamcp' = metamcp
      BY <1>1
    <3> QED BY <1>8, <1>9, <3>1 DEF GateInv, Created
  <2>2. ASSUME NEW p \in Requests, Busy(p)'
        PROVE  /\ req'[p].sid # Nobody <=> req'[p].kind # "initialize"
               /\ req'[p].sid # Nobody => metamcp'[req'[p].sid] # "unused"
    <3>1. p # r /\ Busy(p) /\ req'[p].sid = req[p].sid /\ req'[p].kind = req[p].kind
      BY <1>7, <2>2 DEF Same
    <3> QED BY <1>1, <3>1 DEF GateInv, Created
  <2> QED BY <2>1, <2>2 DEF Created
<1>14. Fresh'
  <2> SUFFICES ASSUME NEW p \in Requests, Busy(p)', req'[p].kind = "initialize", req'[p].newSid # Nobody
               PROVE  /\ metamcp'[req'[p].newSid] # "unused" /\ map'[req'[p].newSid] = Nobody
                      /\ \A t \in Requests : Busy(t)' =>
                           /\ req'[t].sid # req'[p].newSid
                           /\ t # p /\ req'[t].kind = "initialize" => req'[t].newSid # req'[p].newSid
    BY DEF Fresh
  <2>0. \A t \in Requests : Busy(t)' => /\ t # r /\ Busy(t) /\ req'[t].kind = req[t].kind
                                         /\ req'[t].sid = req[t].sid /\ req'[t].newSid = req[t].newSid
    BY <1>7 DEF Same
  <2>1. /\ p # r /\ Busy(p) /\ req[p].kind = "initialize" /\ req'[p].newSid = req[p].newSid
        /\ req[p].newSid # Nobody /\ req[p].newSid \in Sids
    <3>1. /\ p # r /\ Busy(p) /\ req[p].kind = "initialize" /\ req'[p].newSid = req[p].newSid
          /\ req[p].newSid # Nobody
      BY <2>0
    <3>2. req[p].newSid \in Sids \cup {Nobody}
      BY <1>10, <3>1 DEF Request
    <3> QED BY <3>1, <3>2
  <2>2. req[p].newSid # s
    BY <1>9, <2>1
  <2>3. /\ metamcp[req[p].newSid] # "unused" /\ map[req[p].newSid] = Nobody
        /\ \A t \in Requests : Busy(t) =>
             /\ req[t].sid # req[p].newSid
             /\ t # p /\ req[t].kind = "initialize" => req[t].newSid # req[p].newSid
    BY <2>1 DEF GateInv, Fresh
  <2>4. map'[req[p].newSid] = Nobody /\ metamcp' = metamcp
    BY <1>1, <1>8, <2>1, <2>2, <2>3
  <2> QED BY <2>0, <2>1, <2>3, <2>4
<1>15. Streaming'
  <2>1. \A t \in Sids : \A p \in streams'[t] : Busy(p)' /\ req'[p].kind = "get" /\ req'[p].sid = t
    <3>1. \A t \in Sids : \A p \in streams[t] : p \in Requests /\ p # r /\ Busy(p) /\ req[p].kind = "get" /\ req[p].sid = t
      BY <1>1 DEF GateInv, Streaming
    <3>2. \A p \in Requests : Busy(p) /\ p # r => Busy(p)' /\ req'[p].kind = req[p].kind /\ req'[p].sid = req[p].sid
      BY <1>7 DEF Same
    <3>3. \A t \in Sids : streams'[t] \subseteq streams[t]
      BY <1>11
    <3> QED BY ZenonT(30), <3>1, <3>2, <3>3
  <2>2. ASSUME NEW p \in Requests, Busy(p)', req'[p].kind = "get", req'[p].stage # "closing"
        PROVE  p \in streams'[req'[p].sid] /\ map'[req'[p].sid] # Nobody
    <3>1. p # r /\ Busy(p) /\ req[p].kind = "get" /\ req[p].stage # "closing" /\ req'[p].sid = req[p].sid
      BY <1>7, <2>2 DEF Same
    <3>2. req[p].sid \in Sids
      BY <1>10, <3>1 DEF GateInv, Created, Request
    <3>3. p \in streams[req[p].sid] /\ map[req[p].sid] # Nobody
      BY <3>1 DEF GateInv, Streaming
    <3>4. req[p].sid \notin gone
      BY <1>7, <2>2, <3>3
    <3> QED BY <1>8, <1>11, <3>1, <3>2, <3>3, <3>4
  <2> QED BY <2>1, <2>2 DEF Streaming
<1>16. Counted'
  <2>1. \A k \in Keys : Gets(k)' = Gets(k)
    BY <1>1, <1>7 DEF Gets, Same
  <2>2. ASSUME NEW t \in Sids PROVE Cardinality(streams'[t]) <= MaxStreamsPerSession
    <3>1. Cardinality(streams[t]) <= MaxStreamsPerSession
      BY DEF GateInv, Counted
    <3>2. CASE streams'[t] = {}
      BY <3>2, NoneIsFew
    <3> QED BY <1>11, <3>1, <3>2
  <2> QED BY <1>1, <2>1, <2>2 DEF GateInv, Counted
<1>17. NoSessionChangesHands'
  <2> SUFFICES ASSUME NEW p \in Requests, Busy(p)', req'[p].sid # Nobody, map'[req'[p].sid] # Nobody
               PROVE  map'[req'[p].sid].key = req'[p].key /\ map'[req'[p].sid].endpoint = req'[p].endpoint
    BY DEF NoSessionChangesHands, Owns
  <2>1. /\ p # r /\ Busy(p) /\ req'[p].sid = req[p].sid /\ req'[p].key = req[p].key
        /\ req'[p].endpoint = req[p].endpoint /\ req[p].sid \in Sids
    <3>1. /\ p # r /\ Busy(p) /\ req'[p].sid = req[p].sid /\ req'[p].key = req[p].key
          /\ req'[p].endpoint = req[p].endpoint
      BY <1>7 DEF Same
    <3>2. req[p].sid \in Sids \cup {Nobody}
      BY <1>10, <3>1 DEF Request
    <3> QED BY <3>1, <3>2
  <2>2. req[p].sid # s /\ map'[req[p].sid] = map[req[p].sid]
    BY <1>8, <1>9, <2>1
  <2>3. req[p].sid # Nobody /\ map[req[p].sid] # Nobody
    BY <2>1, <2>2
  <2>4. map[req[p].sid].key = req[p].key /\ map[req[p].sid].endpoint = req[p].endpoint
    BY <2>1, <2>3 DEF GateInv, NoSessionChangesHands, Owns
  <2> QED BY <2>1, <2>2, <2>4
<1> QED BY <1>12, <1>13, <1>14, <1>15, <1>16, <1>17 DEF GateInv

LEMMA AnswerInitializeInv == ASSUME GateInv, NEW r \in Requests, AnswerInitialize(r) PROVE GateInv'
<1> DEFINE k == req[r].key
           gone == SweptByCapacity \cup EvictedByBind(k)
<1>1. Busy(r) /\ req[r].kind = "initialize" /\ UNCHANGED <<keyStreams, metamcp>>
  BY DEF AnswerInitialize, Busy
<1>2. gone \in SUBSET Sids
  BY SweptIsSids, EvictedIsSids
<1>3. CASE HasCapacity(k)
  <2>1. /\ map' = [x \in Sids |-> IF x = req[r].newSid
                                  THEN [key |-> k, endpoint |-> req[r].endpoint, idle |-> 0, age |-> 0]
                                  ELSE IF x \in gone THEN Nobody ELSE map[x]]
        /\ streams' = [x \in Sids |-> IF x \in gone THEN {} ELSE streams[x]]
        /\ req' = DestroyStreams([req EXCEPT ![r] = Nobody], gone)
    BY <1>3 DEF AnswerInitialize
  <2> HIDE DEF gone
  <2> QED BY <1>2, <1>3, <2>1, BindInv
<1>4. CASE ~HasCapacity(k)
  <2>1. RemoveBindings(SweptByCapacity, map, [req EXCEPT ![r] = Nobody])
    BY <1>4 DEF AnswerInitialize
  <2>2. /\ [req EXCEPT ![r] = Nobody] \in Table
        /\ \A p \in Requests : \/ [req EXCEPT ![r] = Nobody][p] = Nobody /\ (Busy(p) => req[p].kind # "get")
                               \/ Same([req EXCEPT ![r] = Nobody][p], req[p])
    BY <1>1, OneRequest
  <2> QED BY <1>1, <2>1, <2>2, SweptIsSids, MapIsBindings, RemoveInv
<1> QED BY <1>3, <1>4

\* A close event takes a GET out of its counters, whatever became of its binding.
LEMMA CloseInv == ASSUME GateInv, NEW r \in Requests, Close(r) PROVE GateInv'
<1>1. Busy(r) /\ req' = [req EXCEPT ![r] = Nobody] /\ UNCHANGED <<map, metamcp>> /\ req[r] \in Request
      /\ req \in Table
  BY DEF Close, Busy, GateInv, Types, Table
<1>2. CASE req[r].kind # "get"
  <2>1. UNCHANGED <<streams, keyStreams>>
    BY <1>2 DEF Close
  <2>2. /\ req' \in Table
        /\ \A p \in Requests : (req'[p] = Nobody /\ (Busy(p) => req[p].kind # "get")) \/ Same(req'[p], req[p])
    BY <1>1, <1>2, OneRequest
  <2>3. {} \in SUBSET Sids /\ map' \in Bindings /\ streams' \in [Sids -> SUBSET Requests]
        /\ metamcp' \in [Sids -> {"unused", "live", "gone"}]
    BY <1>1, <2>1 DEF GateInv, Types
  <2> QED BY <1>1, <2>1, <2>2, <2>3, StepInv
<1>3. CASE req[r].kind = "get"
  <2>0. PICK k, s : k = req[r].key /\ s = req[r].sid
    OBVIOUS
  <2>1. k \in Keys /\ s \in Sids
    BY <1>1, <1>3, <2>0 DEF Request, GateInv, Created
  <2>2. /\ streams' = [streams EXCEPT ![s] = @ \ {r}] /\ keyStreams' = [keyStreams EXCEPT ![k] = @ - 1]
        /\ streams \in [Sids -> SUBSET Requests] /\ keyStreams \in [Keys -> Nat]
    BY <1>3, <2>0 DEF Close, GateInv, Types
  <2>3. /\ req' \in Table /\ req'[r] = Nobody /\ ~Busy(r)' /\ \A p \in Requests : p # r => req'[p] = req[p]
        /\ \A p \in Requests : p # r => (Busy(p)' <=> Busy(p))
    BY <1>1 DEF Table, Busy
  <2>4. \A t \in Sids : streams'[t] = (IF t = s THEN streams[t] \ {r} ELSE streams[t])
    BY <2>1, <2>2
  <2>5. /\ Gets(k)' = Gets(k) \ {r} /\ r \in Gets(k) /\ \A j \in Keys : j # k => Gets(j)' = Gets(j)
    <3>1. \A j \in Keys : \A p \in Requests : p \in Gets(j)' <=> p # r /\ p \in Gets(j)
      BY <2>3 DEF Gets
    <3>2. \A j \in Keys : Gets(j)' \subseteq Requests /\ Gets(j) \subseteq Requests
      BY DEF Gets
    <3>3. r \in Gets(k) /\ \A j \in Keys : j # k => r \notin Gets(j)
      BY <1>1, <1>3, <2>0 DEF Gets
    <3>4. ASSUME NEW j \in Keys PROVE Gets(j)' = Gets(j) \ {r}
      BY <3>1, <3>2
    <3>5. ASSUME NEW j \in Keys, j # k PROVE Gets(j)' = Gets(j)
      BY <3>3, <3>4, <3>5
    <3>6. \A j \in Keys : j # k => Gets(j)' = Gets(j)
      BY <3>5
    <3>7. Gets(k)' = Gets(k) \ {r}
      BY <2>1, <3>4
    <3> QED BY <3>3, <3>6, <3>7
  <2>6. Cardinality(Gets(k)') = Cardinality(Gets(k)) - 1 /\ Cardinality(Gets(k)') \in Nat
    <3>1. IsFiniteSet(Gets(k)) /\ IsFiniteSet(Gets(k) \ {r})
      <4>1. Gets(k) \subseteq Requests /\ Gets(k) \ {r} \subseteq Requests
        BY DEF Gets
      <4> QED BY <4>1, NobodyAssumption, FS_Subset
    <3>2. Cardinality(Gets(k) \ {r}) = Cardinality(Gets(k)) - 1 /\ Cardinality(Gets(k) \ {r}) \in Nat
      BY <2>5, <3>1, FS_RemoveElement, FS_CardinalityType
    <3> QED BY <2>5, <3>2
  <2>7. Counted'
    <3>1. ASSUME NEW j \in Keys
          PROVE  keyStreams'[j] = Cardinality(Gets(j)') /\ keyStreams'[j] <= MaxStreamsPerKey
      <4>1. keyStreams[j] = Cardinality(Gets(j)) /\ keyStreams[j] <= MaxStreamsPerKey /\ keyStreams[j] \in Nat
        BY <2>2 DEF GateInv, Counted
      <4>2. CASE j = k
        <5>1. keyStreams'[j] = keyStreams[j] - 1
          BY <2>1, <2>2, <4>2
        <5>2. Cardinality(Gets(j)') = Cardinality(Gets(j)) - 1
          BY <2>6, <4>2
        <5> QED BY <4>1, <5>1, <5>2, Limits
      <4>3. CASE j # k
        BY <2>1, <2>2, <2>5, <4>1, <4>3
      <4> QED BY <4>2, <4>3
    <3>2. ASSUME NEW t \in Sids PROVE Cardinality(streams'[t]) <= MaxStreamsPerSession
      <4>1. streams'[t] \subseteq streams[t] /\ streams[t] \subseteq Requests /\ IsFiniteSet(streams[t])
        <5>1. streams'[t] \subseteq streams[t] /\ streams[t] \subseteq Requests
          BY <2>2, <2>4
        <5> QED BY <5>1, NobodyAssumption, FS_Subset
      <4>2. Cardinality(streams'[t]) <= Cardinality(streams[t]) /\ IsFiniteSet(streams'[t])
        BY <4>1, FS_Subset
      <4>3. Cardinality(streams[t]) <= MaxStreamsPerSession
        BY DEF GateInv, Counted
      <4>4. Cardinality(streams'[t]) \in Nat /\ Cardinality(streams[t]) \in Nat
        BY <4>1, <4>2, FS_CardinalityType
      <4> QED BY <4>2, <4>3, <4>4, Limits
    <3> QED BY <3>1, <3>2 DEF Counted
  <2>8. Types'
    <3>1. keyStreams[k] = Cardinality(Gets(k))
      BY <2>1 DEF GateInv, Counted
    <3>2. keyStreams[k] - 1 \in Nat
      BY <2>6, <3>1
    <3>3. keyStreams' \in [Keys -> Nat] /\ streams' \in [Sids -> SUBSET Requests]
      BY <2>2, <3>2
    <3> QED BY <1>1, <2>3, <3>3 DEF GateInv, Types
  <2>9. Created'
    BY <1>1, <2>3 DEF GateInv, Created
  <2>10. Fresh'
    BY <1>1, <2>3 DEF GateInv, Fresh
  <2>11. Streaming'
    <3>1. \A t \in Sids : \A p \in streams[t] : p \in Requests /\ Busy(p) /\ req[p].kind = "get" /\ req[p].sid = t
      BY <2>2 DEF GateInv, Streaming
    <3>2. ASSUME NEW t \in Sids, NEW p \in streams'[t] PROVE p # r /\ p \in streams[t]
      <4>1. CASE t = s
        <5>1. streams'[t] = streams[t] \ {r}
          BY <2>4, <4>1
        <5> QED BY <5>1
      <4>2. CASE t # s
        <5>1. streams'[t] = streams[t]
          BY <2>4, <4>2
        <5> QED BY <2>0, <3>1, <4>2, <5>1
      <4> QED BY <4>1, <4>2
    <3>3. \A p \in Requests : Busy(p) /\ req[p].kind = "get" => req[p].sid \in Sids
      BY DEF GateInv, Types, Table, Busy, Created, Request
    <3>4. ASSUME NEW p \in Requests, Busy(p)', req'[p].kind = "get", req'[p].stage # "closing"
          PROVE  p \in streams'[req'[p].sid] /\ map'[req'[p].sid] # Nobody
      <4>1. p # r /\ Busy(p) /\ req'[p] = req[p] /\ req[p].sid \in Sids
        BY <2>3, <3>3, <3>4
      <4>2. p \in streams[req[p].sid] /\ map[req[p].sid] # Nobody
        BY <3>4, <4>1 DEF GateInv, Streaming
      <4>3. p \in streams'[req[p].sid]
        BY <2>4, <4>1, <4>2
      <4> QED BY <1>1, <4>1, <4>2, <4>3
    <3> QED BY <2>3, <3>1, <3>2, <3>4 DEF Streaming
  <2>12. NoSessionChangesHands'
    BY <1>1, <2>3 DEF GateInv, NoSessionChangesHands, Owns
  <2> QED BY <2>7, <2>8, <2>9, <2>10, <2>11, <2>12 DEF GateInv
<1> QED BY <1>2, <1>3

-----------------------------------------------------------------------------
LEMMA NextInv == ASSUME GateInv, [Next]_vars PROVE GateInv'
<1>1. CASE UNCHANGED vars
  BY <1>1 DEF vars, GateInv, Types, Created, Fresh, Streaming, Counted, Gets, Busy, NoSessionChangesHands, Owns
<1>2. CASE Next
  <2>1. CASE Progress
    BY <2>1, StageInv, EndInitializeInv, MetaMcpServesInv, AnswerErrorInv, AnswerInitializeInv,
       AnswerCallInv, MetaMcpDeletesInv
    DEF Progress
  <2>2. CASE \E r \in Requests, k \in Keys, e \in Endpoints : ArriveInitialize(r, k, e)
    BY <2>2, ArriveInitializeInv
  <2>3. CASE \E r \in Requests, s \in Sids : ArriveExpired(r, s)
    BY <2>3, ArriveExpiredInv
  <2>4. CASE \E r \in Requests, k \in Keys, e \in Endpoints, s \in Sids :
               ArriveCall(r, "call", k, e, s) \/ ArriveCall(r, "delete", k, e, s) \/ ArriveGet(r, k, e, s)
    BY <2>4, ArriveCallInv, ArriveGetInv
  <2> QED BY <1>2, <2>1, <2>2, <2>3, <2>4, CloseInv, SweeperInv, TickInv DEF Next
<1> QED BY <1>1, <1>2

LEMMA Always == Spec => []GateInv
BY InitInv, NextInv, PTL DEF Spec

\* Whatever happens between the three callbacks of a request, its session is bound to the key and
\* the endpoint it was checked for, or to nobody.
THEOREM SessionsStayWithOwners == Spec => []NoSessionChangesHands
<1>1. GateInv => NoSessionChangesHands
  BY DEF GateInv
<1> QED BY <1>1, Always, PTL

\* Streams die with their bindings, the counters of the keys are exact, and both limits hold.
THEOREM StreamsAlwaysFollow == Spec => []StreamsFollowBindings
<1>1. GateInv => StreamsFollowBindings
  <2> SUFFICES ASSUME GateInv PROVE StreamsFollowBindings
    OBVIOUS
  <2>1. ASSUME NEW r \in Requests, Busy(r), req[r].kind = "get", req[r].stage # "closing"
        PROVE  r \in streams[req[r].sid] /\ Owns(req[r].sid, req[r].key, req[r].endpoint)
    <3>1. r \in streams[req[r].sid] /\ map[req[r].sid] # Nobody
      BY <2>1 DEF GateInv, Streaming
    <3>2. req[r].sid # Nobody
      BY <2>1 DEF GateInv, Created
    <3> QED BY <2>1, <3>1, <3>2 DEF GateInv, NoSessionChangesHands
  <2> QED BY <2>1 DEF GateInv, Counted, Gets, StreamsFollowBindings
<1> QED BY <1>1, Always, PTL

-----------------------------------------------------------------------------
(* Lists of sessions *)

Elements(list) == {list[i] : i \in DOMAIN list}
Once(list) == \A i, j \in DOMAIN list : list[i] = list[j] => i = j

\* A non-empty set of natural numbers has a least element.
LEMMA LeastNat ==
  ASSUME NEW T \in SUBSET Nat, T # {}
  PROVE  \E x \in T : \A y \in T : x <= y
<1>1. IsWellFoundedOn(OpToRel(<, Nat), Nat)
  BY NatLessThanWellFounded
<1>2. PICK R : R = OpToRel(<, Nat)
  OBVIOUS
<1>3. \A x, y \in Nat : x < y => <<x, y>> \in R
  BY <1>2, Zenon DEF OpToRel
<1>4. PICK x \in T : \A y \in T : ~(<<y, x>> \in R)
  BY <1>1, <1>2, WFMin, Zenon
<1>5. \A y \in T : ~(y < x)
  BY <1>3, <1>4
<1> QED BY <1>5

LEMMA MinIsIn ==
  ASSUME NEW T \in SUBSET Nat, T # {}
  PROVE  Min(T) \in T
<1>1. \E x \in T : \A y \in T : x =< y
  BY LeastNat
<1> QED BY <1>1 DEF Min

\* A list without repetition is as long as the set of its elements is large.
LEMMA OnceIsCounted ==
  ASSUME NEW T, NEW list \in Seq(T), Once(list)
  PROVE  IsFiniteSet(Elements(list)) /\ Cardinality(Elements(list)) = Len(list) /\ Len(list) \in Nat
<1>1. Len(list) \in Nat /\ DOMAIN list = 1..Len(list) /\ list \in [1..Len(list) -> T]
  OBVIOUS
<1> DEFINE f == [i \in 1..Len(list) |-> list[i]]
<1>2. f \in [1..Len(list) -> Elements(list)]
  BY <1>1 DEF Elements
<1>3. \A i, j \in 1..Len(list) : f[i] = f[j] => i = j
  BY <1>1 DEF Once
<1>4. \A x \in Elements(list) : \E i \in 1..Len(list) : f[i] = x
  BY <1>1 DEF Elements
<1> HIDE DEF f
<1>5. f \in Bijection(1..Len(list), Elements(list))
  BY <1>2, <1>3, <1>4 DEF Bijection, Injection, Surjection, IsInjective
<1>6. ExistsBijection(1..Len(list), Elements(list))
  BY <1>5 DEF ExistsBijection
<1>7. IsFiniteSet(1..Len(list)) /\ Cardinality(1..Len(list)) = Len(list)
  BY <1>1, FS_Interval
<1> QED BY <1>1, <1>6, <1>7, FS_Bijection

\* The places of a set of numbers: the n-th is the one with n - 1 smaller ones.
LEMMA Places ==
  ASSUME NEW K \in SUBSET Nat, IsFiniteSet(K),
         NEW n \in 1..Cardinality(K)
  PROVE  \E i \in K : Cardinality({j \in K : j <= i}) = n
<1> DEFINE c(i) == Cardinality({j \in K : j <= i})
           f == [i \in K |-> c(i)]
<1>1. ASSUME NEW i \in K
      PROVE  IsFiniteSet({j \in K : j <= i}) /\ c(i) \in 1..Cardinality(K)
  <2>1. IsFiniteSet({j \in K : j <= i}) /\ c(i) <= Cardinality(K)
    BY FS_Subset
  <2>2. c(i) \in Nat /\ Cardinality(K) \in Nat
    BY <2>1, FS_CardinalityType
  <2>3. i \in {j \in K : j <= i}
    OBVIOUS
  <2>4. c(i) # 0
    BY <2>1, <2>3, FS_EmptySet
  <2> HIDE DEF c
  <2> QED BY <2>1, <2>2, <2>4
<1>2. ASSUME NEW i \in K, NEW j \in K, i < j
      PROVE  c(i) # c(j)
  <2> PICK I, J : I = {x \in K : x <= i} /\ J = {x \in K : x <= j}
    OBVIOUS
  <2>1. I \in SUBSET J
    <3>1. \A x \in K : x <= i => x <= j
      BY <1>2
    <3> QED BY <3>1
  <2>2. j \in J /\ j \notin I
    BY <1>2
  <2>3. IsFiniteSet(J)
    BY <1>1
  <2>4. Cardinality(I) # Cardinality(J)
    BY <2>1, <2>2, <2>3, FS_Subset
  <2> QED BY <2>4
<1>3. IsFiniteSet(1..Cardinality(K)) /\ Cardinality(1..Cardinality(K)) = Cardinality(K)
  <2>1. Cardinality(K) \in Nat
    BY FS_CardinalityType
  <2> QED BY <2>1, FS_Interval
<1> HIDE DEF c
<1>4. f \in [K -> 1..Cardinality(K)]
  BY <1>1
<1>5. \A i, j \in K : f[i] = f[j] => i = j
  BY <1>2
<1> HIDE DEF f
<1>6. f \in Injection(K, 1..Cardinality(K))
  BY <1>4, <1>5 DEF Injection, IsInjective
<1>7. f \in Surjection(K, 1..Cardinality(K))
  BY <1>3, <1>6, FS_Injection
<1>8. PICK i \in K : f[i] = n
  BY <1>7 DEF Surjection
<1> QED BY <1>8 DEF f, c

\* What Without leaves: a list of the elements outside S, each as often as before.
LEMMA WithoutKeeps ==
  ASSUME NEW T, NEW list \in Seq(T), NEW S
  PROVE  /\ Without(list, S) \in Seq(T)
         /\ Elements(Without(list, S)) = Elements(list) \ S
         /\ Once(list) => Once(Without(list, S))
<1> DEFINE stays == {i \in DOMAIN list : list[i] \notin S}
           rank(i) == Cardinality({j \in stays : j <= i})
           At(n) == CHOOSE i \in stays : rank(i) = n
<1>1. /\ Len(list) \in Nat /\ DOMAIN list = 1..Len(list) /\ list \in [1..Len(list) -> T]
      /\ stays \in SUBSET (1..Len(list)) /\ stays \in SUBSET Nat
  OBVIOUS
<1>2. IsFiniteSet(stays) /\ Cardinality(stays) \in Nat
  <2>1. IsFiniteSet(1..Len(list))
    BY <1>1, FS_Interval
  <2> QED BY <1>1, <2>1, FS_Subset, FS_CardinalityType
<1>3. Without(list, S) = [n \in 1..Cardinality(stays) |-> list[At(n)]]
  BY DEF Without
<1>4. \A i : i \in stays <=> i \in 1..Len(list) /\ list[i] \notin S
  BY <1>1
<1> PICK K : K = stays
  OBVIOUS
<1>5. \A n \in 1..Cardinality(K) : \E i \in K : Cardinality({j \in K : j <= i}) = n
  <2> HIDE DEF stays
  <2> QED BY <1>1, <1>2, Places
<1>6. ASSUME NEW n \in 1..Cardinality(K) PROVE At(n) \in K /\ rank(At(n)) = n
  <2>1. \E i \in stays : rank(i) = n
    BY <1>5
  <2> HIDE DEF stays, rank
  <2> QED BY <2>1
<1>7. ASSUME NEW i \in K PROVE rank(i) \in 1..Cardinality(K)
  <2> PICK I : I = {j \in K : j <= i}
    OBVIOUS
  <2>1. I \in SUBSET K /\ i \in I /\ rank(i) = Cardinality(I)
    BY <1>1
  <2>2. IsFiniteSet(I) /\ Cardinality(I) <= Cardinality(K) /\ Cardinality(I) \in Nat
    BY <1>2, <2>1, FS_Subset, FS_CardinalityType
  <2>3. Cardinality(I) # 0
    BY <2>1, <2>2, FS_EmptySet
  <2> HIDE DEF rank
  <2> QED BY <1>2, <2>1, <2>2, <2>3
<1>8. ASSUME NEW i \in K, NEW j \in K, rank(i) = rank(j) PROVE i = j
  <2> SUFFICES ASSUME NEW a \in K, NEW b \in K, a < b, rank(a) = rank(b) PROVE FALSE
    <3>1. i < j \/ j < i \/ i = j
      BY <1>1
    <3> QED BY <1>8, <3>1
  <2> PICK I, J : I = {x \in K : x <= a} /\ J = {x \in K : x <= b}
    OBVIOUS
  <2>0. a \in Nat /\ b \in Nat /\ K \in SUBSET Nat
    BY <1>1
  <2>1. I \in SUBSET J
    <3>1. \A x \in K : x <= a => x <= b
      BY <2>0
    <3> QED BY <3>1
  <2>2. b \in J /\ b \notin I /\ J \in SUBSET K
    BY <2>0
  <2>3. IsFiniteSet(J)
    BY <1>2, <2>2, FS_Subset
  <2>4. Cardinality(I) # Cardinality(J)
    BY <2>1, <2>2, <2>3, FS_Subset
  <2> QED BY <2>4
<1> PICK at : at = [n \in 1..Cardinality(K) |-> At(n)]
  OBVIOUS
<1>9. /\ at \in [1..Cardinality(K) -> K]
      /\ \A m, n \in 1..Cardinality(K) : at[m] = at[n] => m = n
      /\ \A i \in K : \E n \in 1..Cardinality(K) : at[n] = i
  <2>1. \A n \in 1..Cardinality(K) : at[n] = At(n)
    OBVIOUS
  <2>2. \A n \in 1..Cardinality(K) : at[n] \in K /\ rank(at[n]) = n
    BY <1>6, <2>1
  <2> HIDE DEF rank, At, stays
  <2>3. \A m, n \in 1..Cardinality(K) : at[m] = at[n] => m = n
    BY <2>2
  <2>4. \A i \in K : at[rank(i)] = i
    BY <1>7, <1>8, <2>2
  <2> QED BY <1>7, <2>2, <2>3, <2>4
<1>10. Without(list, S) = [n \in 1..Cardinality(K) |-> list[at[n]]]
  BY <1>3
<1> HIDE DEF stays, rank, At
<1> PICK w : w = Without(list, S)
  OBVIOUS
<1>11. /\ w \in Seq(T) /\ DOMAIN w = 1..Cardinality(K)
       /\ \A n \in 1..Cardinality(K) : w[n] = list[at[n]] /\ at[n] \in 1..Len(list)
  <2>1. \A n \in 1..Cardinality(K) : at[n] \in 1..Len(list)
    BY <1>1, <1>9
  <2>2. \A n \in 1..Cardinality(K) : list[at[n]] \in T
    BY <1>1, <2>1
  <2>3. DOMAIN w = 1..Cardinality(K) /\ \A n \in 1..Cardinality(K) : w[n] = list[at[n]]
    BY <1>10
  <2>4. w \in [1..Cardinality(K) -> T]
    BY <1>10, <2>2
  <2>5. Cardinality(K) \in Nat
    BY <1>2
  <2>6. w \in Seq(T)
    BY <2>4, <2>5
  <2> QED BY <2>1, <2>3, <2>6
<1>12. Elements(w) = Elements(list) \ S
  BY <1>1, <1>4, <1>9, <1>11 DEF Elements
<1>13. Once(list) => Once(w)
  BY <1>1, <1>9, <1>11 DEF Once
<1> QED BY <1>11, <1>12, <1>13

-----------------------------------------------------------------------------
(* The table and its lists, the caps, the clocks *)

OwnedBy(k) == {s \in Sids : map[s] # Nobody /\ map[s].key = k}

\* The list of a key holds its bindings, each once.
Listed ==
  /\ perKey \in [Keys -> Seq(Sids)]
  /\ \A k \in Keys : Once(perKey[k]) /\ Elements(perKey[k]) = OwnedBy(k)

Capped == IsFiniteSet(Bound) /\ GateWithinCaps

\* A session with a stream was touched since the last sweep.
Timely ==
  /\ sinceSweep \in 0..SweepInterval
  /\ \A s \in Sids : map[s] # Nobody /\ streams[s] # {} => map[s].idle <= sinceSweep
  /\ sinceSweep = 0 => \A s \in Sids : map[s] # Nobody => ~Expired(map[s])

\* An initialize that succeeded brings a session.
OkIsNew ==
  \A r \in Requests : Busy(r) /\ req[r].kind = "initialize" /\ req[r].status = "ok" => req[r].newSid # Nobody

\* With GateInv, the inductive invariant of the table.
TableInv == Listed /\ Capped /\ Timely /\ OkIsNew /\ deletes \subseteq Sids

LEMMA Caps ==
  /\ MaxBindings \in Nat \ {0} /\ MaxPerKey \in Nat \ {0}
  /\ SweepInterval \in Nat \ {0} /\ SweepInterval <= IdleLimit
  /\ IdleLimit \in Nat \ {0} /\ LifetimeLimit \in Nat \ {0}
BY GateAssumption

LEMMA BoundOne == ASSUME GateInv, NEW s \in Sids, map[s] # Nobody
                  PROVE  map[s] \in Binding /\ map[s].idle \in Nat /\ map[s].age \in Nat
BY Limits DEF GateInv, Types, Bindings, Binding

LEMMA TableInit == Init => TableInv
<1> SUFFICES ASSUME Init PROVE TableInv
  OBVIOUS
<1>1. Listed
  BY DEF Init, Listed, Once, Elements, OwnedBy
<1>2. Capped
  <2>1. Bound = {} /\ \A k \in Keys : Len(perKey[k]) = 0
    BY DEF Init, Bound, BoundIn
  <2>2. IsFiniteSet(Bound) /\ Cardinality(Bound) = 0
    BY <2>1, FS_EmptySet
  <2> QED BY <2>1, <2>2, Caps DEF Capped, GateWithinCaps
<1>3. Timely
  BY Caps DEF Init, Timely
<1>4. OkIsNew /\ deletes \subseteq Sids
  BY DEF Init, OkIsNew, Busy
<1> QED BY <1>1, <1>2, <1>3, <1>4 DEF TableInv

\* The length of a key's list.
LEMMA ListLength ==
  ASSUME Listed, NEW k \in Keys
  PROVE  /\ perKey[k] \in Seq(Sids) /\ IsFiniteSet(OwnedBy(k))
         /\ Len(perKey[k]) = Cardinality(OwnedBy(k)) /\ Len(perKey[k]) \in Nat
BY OnceIsCounted DEF Listed

\* No binding changes its owner, no list changes.
LEMMA OwnersStay ==
  ASSUME TableInv, SameOwners(map', map), UNCHANGED perKey
  PROVE  Listed' /\ Capped'
<1>1. Bound' = Bound
  BY DEF Bound, BoundIn, SameOwners
<1>2. \A k \in Keys : OwnedBy(k)' = OwnedBy(k)
  BY DEF OwnedBy, SameOwners
<1> QED BY <1>1, <1>2 DEF TableInv, Listed, Capped, GateWithinCaps

\* Bindings go.
LEMMA SomeGo ==
  ASSUME TableInv, NEW S \in SUBSET Sids, NEW m \in Bindings, SameOwners(m, map),
         map' = [s \in Sids |-> IF s \in S THEN Nobody ELSE m[s]],
         perKey' = [k \in Keys |-> Without(perKey[k], S)]
  PROVE  Listed' /\ Capped'
<1>1. \A s \in Sids : /\ map'[s] # Nobody <=> s \notin S /\ map[s] # Nobody
                      /\ map'[s] # Nobody => map'[s].key = map[s].key
  BY DEF SameOwners
<1>2. Bound' = Bound \ S
  BY <1>1 DEF Bound, BoundIn
<1>3. \A k \in Keys : OwnedBy(k)' = OwnedBy(k) \ S
  BY <1>1 DEF OwnedBy
<1>4. ASSUME NEW k \in Keys
      PROVE  /\ perKey'[k] \in Seq(Sids) /\ Once(perKey'[k])
             /\ Elements(perKey'[k]) = OwnedBy(k)'
  <2>1. perKey[k] \in Seq(Sids) /\ Once(perKey[k]) /\ Elements(perKey[k]) = OwnedBy(k)
    BY DEF TableInv, Listed
  <2>2. perKey'[k] = Without(perKey[k], S)
    OBVIOUS
  <2> PICK list, w : list = perKey[k] /\ w = Without(list, S)
    OBVIOUS
  <2>3. list \in Seq(Sids) /\ Once(list)
    BY <2>1
  <2>4. w \in Seq(Sids) /\ Once(w) /\ Elements(w) = Elements(list) \ S
    BY <2>3, WithoutKeeps
  <2>5. OwnedBy(k)' = OwnedBy(k) \ S
    BY <1>3
  <2>6. perKey'[k] = w
    BY <2>2
  <2> QED BY <2>1, <2>4, <2>5, <2>6
<1>5. Listed'
  BY <1>4 DEF Listed
<1>6. ASSUME NEW k \in Keys PROVE Len(perKey'[k]) <= MaxPerKey
  <2>1. Len(perKey[k]) <= MaxPerKey /\ Len(perKey[k]) = Cardinality(OwnedBy(k)) /\ IsFiniteSet(OwnedBy(k))
        /\ Len(perKey[k]) \in Nat
    BY ListLength DEF TableInv, Capped, GateWithinCaps
  <2>2. Len(perKey'[k]) = Cardinality(OwnedBy(k)') /\ Len(perKey'[k]) \in Nat
    BY <1>4, OnceIsCounted
  <2>3. Cardinality(OwnedBy(k) \ S) <= Cardinality(OwnedBy(k))
    BY <2>1, FS_Subset
  <2>4. OwnedBy(k)' = OwnedBy(k) \ S
    BY <1>3
  <2>5. Len(perKey'[k]) = Cardinality(OwnedBy(k) \ S)
    BY <2>2, <2>4
  <2> QED BY <2>1, <2>2, <2>3, <2>5, Caps
<1>7. Capped'
  <2>1. IsFiniteSet(Bound) /\ Cardinality(Bound) <= MaxBindings
    BY DEF TableInv, Capped, GateWithinCaps
  <2>2. IsFiniteSet(Bound \ S) /\ Cardinality(Bound \ S) <= Cardinality(Bound)
    BY <2>1, FS_Subset
  <2>3. Cardinality(Bound \ S) \in Nat /\ Cardinality(Bound) \in Nat
    BY <2>1, <2>2, FS_CardinalityType
  <2>4. IsFiniteSet(Bound') /\ Cardinality(Bound') <= MaxBindings
    BY <1>2, <2>1, <2>2, <2>3, Caps
  <2> QED BY <1>6, <2>4 DEF Capped, GateWithinCaps
<1> QED BY <1>5, <1>7

\* Clocks only go back to zero, and streams only end, between two ticks.
LEMMA ClocksKeep ==
  ASSUME GateInv, TableInv, sinceSweep' = sinceSweep,
         \A s \in Sids : map'[s] # Nobody =>
           /\ \/ map'[s].idle = 0
              \/ map[s] # Nobody /\ map'[s].idle = map[s].idle /\ (streams'[s] # {} => streams[s] # {})
           /\ map'[s].age = 0 \/ (map[s] # Nobody /\ map'[s].age = map[s].age)
  PROVE  Timely'
<1>1. sinceSweep \in 0..SweepInterval /\ sinceSweep \in Nat
  BY Caps DEF TableInv, Timely
<1>2. ASSUME NEW s \in Sids, map'[s] # Nobody, streams'[s] # {}
      PROVE  map'[s].idle <= sinceSweep
  BY <1>1, <1>2 DEF TableInv, Timely
<1>3. ASSUME sinceSweep = 0, NEW s \in Sids, map'[s] # Nobody
      PROVE  ~Expired(map'[s])
  <2>1. map[s] # Nobody => ~Expired(map[s])
    BY <1>3 DEF TableInv, Timely
  <2>2. map'[s].idle = 0 \/ (map[s] # Nobody /\ map'[s].idle = map[s].idle)
    BY <1>3
  <2>3. map'[s].age = 0 \/ (map[s] # Nobody /\ map'[s].age = map[s].age)
    BY <1>3
  <2>4. ~(map'[s].idle > IdleLimit)
    BY <2>1, <2>2, Caps DEF Expired
  <2>5. ~(map'[s].age > LifetimeLimit)
    BY <2>1, <2>3, Caps DEF Expired
  <2> QED BY <2>4, <2>5 DEF Expired
<1> QED BY <1>1, <1>2, <1>3 DEF Timely

\* Requests that go on keep what MetaMCP answered.
LEMMA AnswersKeep ==
  ASSUME TableInv,
         \A p \in Requests : req'[p] # Nobody =>
           \/ /\ Busy(p) /\ req'[p].kind = req[p].kind
              /\ req'[p].status = req[p].status /\ req'[p].newSid = req[p].newSid
           \/ req'[p].status # "ok" \/ req'[p].kind # "initialize" \/ req'[p].newSid # Nobody
  PROVE  OkIsNew'
BY DEF TableInv, OkIsNew, Busy

\* The same for requests whose streams may be closed on the way.
LEMMA AnswersKeepClosing ==
  ASSUME GateInv, TableInv, NEW S \in SUBSET Sids, NEW rq \in Table, req' = DestroyStreams(rq, S),
         \A p \in Requests : Busy(p) /\ req[p].kind = "get" => rq[p] # Nobody,
         \A p \in Requests : rq[p] # Nobody =>
            /\ Busy(p) /\ rq[p].kind = req[p].kind
            /\ rq[p].status = req[p].status /\ rq[p].newSid = req[p].newSid
  PROVE  OkIsNew'
<1>1. ASSUME NEW p \in Requests, req'[p] # Nobody
      PROVE  /\ Busy(p) /\ req'[p].kind = req[p].kind
             /\ req'[p].status = req[p].status /\ req'[p].newSid = req[p].newSid
  <2>1. CASE \E s \in S : p \in streams[s]
    <3>1. Busy(p) /\ req[p].kind = "get"
      BY <2>1 DEF GateInv, Streaming
    <3>2. rq[p] # Nobody /\ rq[p] \in Request
      BY <3>1 DEF Table
    <3>3. \A q \in Request : LET c == [q EXCEPT !.stage = "closing"]
                             IN c.kind = q.kind /\ c.status = q.status /\ c.newSid = q.newSid
      BY DEF Request
    <3>4. req'[p] = [rq[p] EXCEPT !.stage = "closing"]
      BY <2>1 DEF DestroyStreams
    <3> QED BY <3>1, <3>2, <3>3, <3>4
  <2>2. CASE ~ \E s \in S : p \in streams[s]
    <3>1. req'[p] = rq[p]
      BY <2>2 DEF DestroyStreams
    <3> QED BY <1>1, <3>1
  <2> QED BY <2>1, <2>2
<1> QED BY <1>1, AnswersKeep

\* A removal between two ticks.
LEMMA RemoveTable ==
  ASSUME GateInv, TableInv, NEW S \in SUBSET Sids, NEW rq \in Table, RemoveBindings(S, map, rq),
         sinceSweep' = sinceSweep, deletes' \subseteq Sids,
         \A p \in Requests : Busy(p) /\ req[p].kind = "get" => rq[p] # Nobody,
         \A p \in Requests : rq[p] # Nobody =>
            /\ Busy(p) /\ rq[p].kind = req[p].kind
            /\ rq[p].status = req[p].status /\ rq[p].newSid = req[p].newSid
  PROVE  TableInv'
<1>1. /\ map' = [s \in Sids |-> IF s \in S THEN Nobody ELSE map[s]]
      /\ perKey' = [k \in Keys |-> Without(perKey[k], S)]
      /\ streams' = [s \in Sids |-> IF s \in S THEN {} ELSE streams[s]]
      /\ req' = DestroyStreams(rq, S)
  BY DEF RemoveBindings
<1>2. Listed' /\ Capped'
  BY <1>1, MapIsBindings, SomeGo
<1>3. OkIsNew'
  BY <1>1, AnswersKeepClosing
<1>4. Timely'
  <2>1. \A s \in Sids : map'[s] # Nobody =>
           /\ map[s] # Nobody /\ map'[s].idle = map[s].idle /\ map'[s].age = map[s].age
           /\ (streams'[s] # {} => streams[s] # {})
    BY <1>1
  <2> QED BY <2>1, ClocksKeep
<1> QED BY <1>2, <1>3, <1>4 DEF TableInv

\* What RemoveTable asks of a request that changes.
LEMMA OneAnswer ==
  ASSUME GateInv, NEW r \in Requests, Busy(r), NEW q \in Request \cup {Nobody},
         q = Nobody => req[r].kind # "get",
         q # Nobody => q.kind = req[r].kind /\ q.status = req[r].status /\ q.newSid = req[r].newSid
  PROVE  /\ [req EXCEPT ![r] = q] \in Table
         /\ \A p \in Requests : Busy(p) /\ req[p].kind = "get" => [req EXCEPT ![r] = q][p] # Nobody
         /\ \A p \in Requests : [req EXCEPT ![r] = q][p] # Nobody =>
              /\ Busy(p) /\ [req EXCEPT ![r] = q][p].kind = req[p].kind
              /\ [req EXCEPT ![r] = q][p].status = req[p].status
              /\ [req EXCEPT ![r] = q][p].newSid = req[p].newSid
<1>1. \A p \in Requests : [req EXCEPT ![r] = q][p] = IF p = r THEN q ELSE req[p]
  BY DEF GateInv, Types, Table
<1>2. [req EXCEPT ![r] = q] \in Table
  BY DEF GateInv, Types, Table
<1> QED BY <1>1, <1>2 DEF Busy

LEMMA StageOnly ==
  ASSUME NEW q \in Request, NEW stage \in {"free", "body", "sent", "answered", "open", "closing"}
  PROVE  /\ [q EXCEPT !.stage = stage] \in Request
         /\ [q EXCEPT !.stage = stage].kind = q.kind
         /\ [q EXCEPT !.stage = stage].status = q.status
         /\ [q EXCEPT !.stage = stage].newSid = q.newSid
BY DEF Request

LEMMA BusyOne == ASSUME GateInv, NEW r \in Requests, Busy(r)
                 PROVE  req[r] \in Request /\ req[r] # Nobody
BY DEF GateInv, Types, Table, Busy

LEMMA ArriveExpiredTable ==
  ASSUME GateInv, TableInv, NEW r \in Requests, NEW s \in Sids, ArriveExpired(r, s) PROVE TableInv'
<1>1. req \in Table
  BY DEF GateInv, Types
<1>2. RemoveBindings({s}, map, req) /\ sinceSweep' = sinceSweep /\ deletes' \subseteq Sids
  BY DEF ArriveExpired, DeleteUpstream, TableInv
<1>3. {s} \in SUBSET Sids
  OBVIOUS
<1> QED BY <1>1, <1>2, <1>3, RemoveTable DEF Busy

LEMMA AnswerErrorTable ==
  ASSUME GateInv, TableInv, NEW r \in Requests, AnswerError(r) PROVE TableInv'
<1> DEFINE S == IF req[r].sid # Nobody /\ req[r].status \in {"401", "404"} THEN {req[r].sid} ELSE {}
           q == Finished(req[r])
<1>1. /\ Busy(r) /\ req[r] \in Request /\ RemoveBindings(S, map, [req EXCEPT ![r] = q])
      /\ sinceSweep' = sinceSweep /\ deletes' \subseteq Sids
  BY DEF AnswerError, Busy, GateInv, Types, Table, TableInv
<1>2. S \in SUBSET Sids
  BY <1>1 DEF Request
<1>3. /\ q \in Request \cup {Nobody} /\ (q = Nobody => req[r].kind # "get")
      /\ q # Nobody => q.kind = req[r].kind /\ q.status = req[r].status /\ q.newSid = req[r].newSid
  BY <1>1, StageOnly, NobodyAssumption DEF Finished
<1> HIDE DEF q, S
<1> PICK rq : rq = [req EXCEPT ![r] = q]
  OBVIOUS
<1>4. /\ rq \in Table
      /\ \A p \in Requests : Busy(p) /\ req[p].kind = "get" => rq[p] # Nobody
      /\ \A p \in Requests : rq[p] # Nobody =>
            /\ Busy(p) /\ rq[p].kind = req[p].kind
            /\ rq[p].status = req[p].status /\ rq[p].newSid = req[p].newSid
  BY <1>1, <1>3, OneAnswer
<1> QED BY <1>1, <1>2, <1>4, RemoveTable

LEMMA AnswerCallTable ==
  ASSUME GateInv, TableInv, NEW r \in Requests, AnswerCall(r) PROVE TableInv'
<1> DEFINE S == IF req[r].kind = "delete" THEN {req[r].sid} ELSE {}
<1>1. /\ Busy(r) /\ req[r].kind # "get" /\ req[r] \in Request
      /\ RemoveBindings(S, map, [req EXCEPT ![r] = Nobody])
      /\ sinceSweep' = sinceSweep /\ deletes' \subseteq Sids
  BY DEF AnswerCall, Busy, GateInv, Types, Table, TableInv
<1>2. S \in SUBSET Sids
  BY <1>1 DEF Request, GateInv, Created
<1> HIDE DEF S
<1> PICK q, rq : q = Nobody /\ rq = [req EXCEPT ![r] = q]
  OBVIOUS
<1>3. /\ rq \in Table
      /\ \A p \in Requests : Busy(p) /\ req[p].kind = "get" => rq[p] # Nobody
      /\ \A p \in Requests : rq[p] # Nobody =>
            /\ Busy(p) /\ rq[p].kind = req[p].kind
            /\ rq[p].status = req[p].status /\ rq[p].newSid = req[p].newSid
  <2>1. rq \in Table /\ \A p \in Requests : rq[p] = IF p = r THEN Nobody ELSE req[p]
    BY DEF GateInv, Types, Table
  <2> QED BY <1>1, <2>1 DEF Busy
<1> QED BY <1>1, <1>2, <1>3, RemoveTable

LEMMA EndInitializeTable ==
  ASSUME GateInv, TableInv, NEW r \in Requests, EndInitialize(r) PROVE TableInv'
<1>1. /\ Busy(r) /\ req[r] \in Request /\ req[r].kind # "get" /\ sinceSweep' = sinceSweep
  BY BusyOne DEF EndInitialize, Busy
<1>2. CASE req' = [req EXCEPT ![r] = Nobody] /\ UNCHANGED <<map, perKey, streams, deletes>>
  <2>1. \A p \in Requests : req'[p] # Nobody =>
              /\ Busy(p) /\ req'[p].kind = req[p].kind
              /\ req'[p].status = req[p].status /\ req'[p].newSid = req[p].newSid
    BY <1>1, <1>2, OneAnswer
  <2>2. OkIsNew'
    BY <2>1, AnswersKeep
  <2>3. Listed' /\ Capped'
    BY <1>2, MapIsBindings, OwnersStay
  <2>4. Timely'
    BY <1>1, <1>2, ClocksKeep
  <2> QED BY <1>2, <2>2, <2>3, <2>4 DEF TableInv
<1>3. CASE /\ RemoveBindings(SweptByCapacity, map,
                [req EXCEPT ![r] = IF HasCapacity(req[r].key) THEN [req[r] EXCEPT !.stage = "sent"] ELSE Nobody])
           /\ DeleteUpstream(SweptByCapacity)
  <2> DEFINE q == IF HasCapacity(req[r].key) THEN [req[r] EXCEPT !.stage = "sent"] ELSE Nobody
  <2>1. /\ q \in Request \cup {Nobody}
        /\ q # Nobody => q.kind = req[r].kind /\ q.status = req[r].status /\ q.newSid = req[r].newSid
    BY <1>1, StageOnly
  <2>2. RemoveBindings(SweptByCapacity, map, [req EXCEPT ![r] = q])
    BY <1>3
  <2> HIDE DEF q
  <2> PICK rq : rq = [req EXCEPT ![r] = q]
    OBVIOUS
  <2>3. /\ rq \in Table
        /\ \A p \in Requests : Busy(p) /\ req[p].kind = "get" => rq[p] # Nobody
        /\ \A p \in Requests : rq[p] # Nobody =>
              /\ Busy(p) /\ rq[p].kind = req[p].kind
              /\ rq[p].status = req[p].status /\ rq[p].newSid = req[p].newSid
    BY <1>1, <2>1, OneAnswer
  <2>4. deletes' \subseteq Sids
    BY <1>3, SweptIsSids DEF DeleteUpstream, TableInv
  <2> QED BY <1>1, <2>2, <2>3, <2>4, SweptIsSids, RemoveTable
<1> QED BY <1>2, <1>3 DEF EndInitialize

\* A step of one request that leaves the table alone.
LEMMA RequestTable ==
  ASSUME GateInv, TableInv, NEW r \in Requests, NEW q \in Request \cup {Nobody}, req' = [req EXCEPT ![r] = q],
         UNCHANGED <<map, perKey, sinceSweep>>, deletes' \subseteq Sids,
         \A s \in Sids : streams'[s] # {} => streams[s] # {},
         q = Nobody \/ q.status # "ok" \/ q.kind # "initialize" \/ q.newSid # Nobody
         \/ /\ Busy(r) /\ q.kind = req[r].kind
            /\ q.status = req[r].status /\ q.newSid = req[r].newSid
  PROVE  TableInv'
<1>1. \A p \in Requests : req'[p] = IF p = r THEN q ELSE req[p]
  BY DEF GateInv, Types, Table
<1>2. OkIsNew'
  BY <1>1, AnswersKeep DEF Busy
<1>3. Listed' /\ Capped'
  BY MapIsBindings, OwnersStay
<1>4. Timely'
  BY ClocksKeep
<1> QED BY <1>2, <1>3, <1>4 DEF TableInv

LEMMA ArriveInitializeTable ==
  ASSUME GateInv, TableInv, NEW r \in Requests, NEW k \in Keys, NEW e \in Endpoints, ArriveInitialize(r, k, e)
  PROVE  TableInv'
<1>1. "initialize" \in Kinds /\ Nobody \in Sids \cup {Nobody}
  BY DEF Kinds
<1> PICK q : q = NewRequest("initialize", k, e, Nobody)
  OBVIOUS
<1>2. q \in Request /\ q.status = "none"
  BY <1>1, NewIsRequest
<1>3. /\ req' = [req EXCEPT ![r] = q] /\ UNCHANGED <<map, perKey, streams, sinceSweep>> /\ deletes' \subseteq Sids
  BY DEF ArriveInitialize, TableInv
<1> QED BY <1>2, <1>3, RequestTable

\* A binding that is touched.
LEMMA TouchTable ==
  ASSUME GateInv, TableInv, NEW s \in Sids, map[s] # Nobody, map' = [map EXCEPT ![s].idle = 0],
         sinceSweep' = sinceSweep, perKey' = perKey,
         \A t \in Sids : t # s => streams'[t] = streams[t]
  PROVE  Listed' /\ Capped' /\ Timely'
<1>1. \A b \in Binding : LET c == [b EXCEPT !.idle = 0]
                         IN c.key = b.key /\ c.endpoint = b.endpoint /\ c.idle = 0 /\ c.age = b.age /\ c \in Binding
  BY Limits DEF Binding
<1> PICK c : c = [map[s] EXCEPT !.idle = 0]
  OBVIOUS
<1>2. map[s] \in Binding /\ map \in Bindings
  BY BoundOne, MapIsBindings
<1>3. c.key = map[s].key /\ c.endpoint = map[s].endpoint /\ c.idle = 0 /\ c.age = map[s].age /\ c # Nobody
  BY <1>1, <1>2, NobodyAssumption
<1>4. \A t \in Sids : map'[t] = IF t = s THEN c ELSE map[t]
  BY <1>2 DEF Bindings
<1>5. SameOwners(map', map)
  BY <1>3, <1>4 DEF SameOwners
<1>6. Listed' /\ Capped'
  BY <1>5, OwnersStay
<1>7. Timely'
  <2>1. \A t \in Sids : map'[t] # Nobody =>
           /\ \/ map'[t].idle = 0
              \/ map[t] # Nobody /\ map'[t].idle = map[t].idle /\ (streams'[t] # {} => streams[t] # {})
           /\ map'[t].age = 0 \/ (map[t] # Nobody /\ map'[t].age = map[t].age)
    BY <1>3, <1>4
  <2> QED BY <2>1, ClocksKeep
<1> QED BY <1>6, <1>7

LEMMA ArriveCallTable ==
  ASSUME GateInv, TableInv, NEW r \in Requests, NEW kind \in {"call", "delete"}, NEW k \in Keys, NEW e \in Endpoints,
         NEW s \in Sids, ArriveCall(r, kind, k, e, s)
  PROVE  TableInv'
<1> PICK q : q = NewRequest(kind, k, e, s)
  OBVIOUS
<1>1. q \in Request /\ q.status = "none"
  <2>1. kind \in Kinds /\ s \in Sids \cup {Nobody}
    BY DEF Kinds
  <2> QED BY <2>1, NewIsRequest
<1>2. /\ map[s] # Nobody /\ map' = [map EXCEPT ![s].idle = 0] /\ req' = [req EXCEPT ![r] = q]
      /\ UNCHANGED <<perKey, streams, deletes, sinceSweep>>
  BY DEF ArriveCall, Owns
<1>3. Listed' /\ Capped' /\ Timely'
  BY <1>2, TouchTable
<1>4. \A p \in Requests : req'[p] = IF p = r THEN q ELSE req[p]
  BY <1>2 DEF GateInv, Types, Table
<1>5. OkIsNew'
  BY <1>1, <1>4, AnswersKeep DEF Busy
<1> QED BY <1>2, <1>3, <1>5 DEF TableInv

LEMMA ArriveGetTable ==
  ASSUME GateInv, TableInv, NEW r \in Requests, NEW k \in Keys, NEW e \in Endpoints,
         NEW s \in Sids, ArriveGet(r, k, e, s)
  PROVE  TableInv'
<1> PICK q : q = NewRequest("get", k, e, s)
  OBVIOUS
<1>1. q \in Request /\ q.status = "none"
  <2>1. "get" \in Kinds /\ s \in Sids \cup {Nobody}
    BY DEF Kinds
  <2> QED BY <2>1, NewIsRequest
<1>2. /\ map[s] # Nobody /\ map' = [map EXCEPT ![s].idle = 0]
      /\ \/ streams' = [streams EXCEPT ![s] = @ \cup {r}] /\ req' = [req EXCEPT ![r] = q]
         \/ streams' = streams /\ req' = req
      /\ UNCHANGED <<perKey, deletes, sinceSweep>>
  BY DEF ArriveGet, Owns
<1>3. \A t \in Sids : t # s => streams'[t] = streams[t]
  BY <1>2 DEF GateInv, Types
<1>4. Listed' /\ Capped' /\ Timely'
  BY <1>2, <1>3, TouchTable
<1>5. \A p \in Requests : req'[p] = req[p] \/ req'[p] = q
  BY <1>2 DEF GateInv, Types, Table
<1>6. OkIsNew'
  BY <1>1, <1>5, AnswersKeep DEF Busy
<1> QED BY <1>2, <1>4, <1>6 DEF TableInv

LEMMA StageTable ==
  ASSUME GateInv, TableInv, NEW r \in Requests, ForwardCall(r) \/ AnswerGet(r) PROVE TableInv'
<1>1. PICK stage \in {"sent", "open"} : req' = [req EXCEPT ![r] = [req[r] EXCEPT !.stage = stage]]
  BY DEF ForwardCall, AnswerGet
<1>2. Busy(r) /\ UNCHANGED <<map, perKey, streams, deletes, sinceSweep>> /\ req[r] \in Request
  BY BusyOne DEF ForwardCall, AnswerGet, Busy
<1> PICK q : q = [req[r] EXCEPT !.stage = stage]
  OBVIOUS
<1>3. q \in Request /\ q.kind = req[r].kind /\ q.status = req[r].status /\ q.newSid = req[r].newSid
  BY ZenonT(30), <1>2, StageOnly
<1>4. req' = [req EXCEPT ![r] = q] /\ deletes' \subseteq Sids
  BY <1>1, <1>2 DEF TableInv
<1> QED BY <1>2, <1>3, <1>4, RequestTable

LEMMA MetaMcpServesTable ==
  ASSUME GateInv, TableInv, NEW r \in Requests, MetaMcpServes(r) PROVE TableInv'
<1>1. /\ Busy(r) /\ req[r] \in Request /\ UNCHANGED <<map, perKey, streams, deletes, sinceSweep>>
  BY BusyOne DEF MetaMcpServes, Busy
<1>2. PICK status \in {"ok", "401", "404", "500"}, s \in Sids \cup {Nobody} :
         /\ Answer(r, status, s)
         /\ status # "ok" \/ s # Nobody
  <2>1. CASE req[r].kind = "initialize"
    <3>1. \/ \E s \in Sids : Answer(r, "ok", s)
          \/ \E status \in {"401", "500"} : Answer(r, status, Nobody)
      BY <2>1 DEF MetaMcpServes
    <3> QED BY <3>1, NobodyAssumption
  <2>2. CASE req[r].kind # "initialize"
    <3>1. \/ \E s \in Sids : Answer(r, "ok", s)
          \/ Answer(r, "ok", req[r].sid)
          \/ \E status \in {"401", "404", "500"} : Answer(r, status, Nobody)
      BY <2>2 DEF MetaMcpServes
    <3>2. req[r].sid \in Sids
      BY <1>1, <2>2 DEF GateInv, Created, Request
    <3> QED BY <3>1, <3>2, NobodyAssumption
  <2> QED BY <2>1, <2>2
<1> DEFINE q == [req[r] EXCEPT !.stage = "answered", !.status = status, !.newSid = s]
<1>3. q \in Request /\ q.status = status /\ q.newSid = s
  BY <1>1 DEF Request
<1>4. req' = [req EXCEPT ![r] = q]
  BY <1>2 DEF Answer
<1> HIDE DEF q
<1>5. deletes' \subseteq Sids
  BY <1>1 DEF TableInv
<1> QED BY <1>1, <1>2, <1>3, <1>4, <1>5, RequestTable

LEMMA MetaMcpDeletesTable ==
  ASSUME GateInv, TableInv, NEW s \in Sids, MetaMcpDeletes(s) PROVE TableInv'
<1>1. UNCHANGED <<map, perKey, req, streams, sinceSweep>> /\ deletes' \subseteq Sids
  BY DEF MetaMcpDeletes, TableInv
<1>2. OkIsNew'
  BY <1>1, AnswersKeep DEF Busy
<1>3. Listed' /\ Capped'
  BY <1>1, MapIsBindings, OwnersStay
<1>4. Timely'
  BY <1>1, ClocksKeep
<1> QED BY <1>1, <1>2, <1>3, <1>4 DEF TableInv

LEMMA CloseTable == ASSUME GateInv, TableInv, NEW r \in Requests, Close(r) PROVE TableInv'
<1>1. /\ Busy(r) /\ req' = [req EXCEPT ![r] = Nobody] /\ UNCHANGED <<map, perKey, deletes, sinceSweep>>
  BY DEF Close, Busy
<1>2. \A s \in Sids : streams'[s] # {} => streams[s] # {}
  <2>1. streams \in [Sids -> SUBSET Requests]
    BY DEF GateInv, Types
  <2>2. CASE req[r].kind = "get"
    <3> PICK t : t = req[r].sid
      OBVIOUS
    <3>1. streams' = [streams EXCEPT ![t] = @ \ {r}]
      BY <2>2 DEF Close
    <3> QED BY <2>1, <3>1
  <2>3. CASE req[r].kind # "get"
    BY <2>3 DEF Close
  <2> QED BY <2>2, <2>3
<1> PICK q : q = Nobody
  OBVIOUS
<1>3. req' = [req EXCEPT ![r] = q] /\ deletes' \subseteq Sids /\ q \in Request \cup {Nobody}
  BY <1>1 DEF TableInv
<1> QED BY <1>1, <1>2, <1>3, RequestTable

LEMMA SweeperTable == ASSUME GateInv, TableInv, Sweeper PROVE TableInv'
<1> PICK m : m = Touched
  OBVIOUS
<1> PICK S : S = {s \in BoundIn(m) : Expired(m[s])}
  OBVIOUS
<1>1. m \in Bindings /\ SameOwners(m, map)
  <2>1. \A b \in Binding : LET c == [b EXCEPT !.idle = 0]
                           IN c \in Binding /\ c.key = b.key /\ c.endpoint = b.endpoint
    BY Limits DEF Binding
  <2>2. map \in Bindings
    BY DEF GateInv, Types
  <2> QED BY <2>1, <2>2, NobodyAssumption DEF Touched, Bindings, SameOwners
<1>2. RemoveBindings(S, m, req) /\ deletes' = deletes \cup S /\ sinceSweep' = 0
  BY DEF Sweeper, DeleteUpstream
<1>3. S \in SUBSET Sids
  BY DEF BoundIn
<1>4. /\ map' = [s \in Sids |-> IF s \in S THEN Nobody ELSE m[s]]
      /\ perKey' = [k \in Keys |-> Without(perKey[k], S)]
      /\ streams' = [s \in Sids |-> IF s \in S THEN {} ELSE streams[s]]
      /\ req' = DestroyStreams(req, S)
  BY <1>2 DEF RemoveBindings
<1>5. Listed' /\ Capped'
  BY <1>1, <1>3, <1>4, SomeGo
<1>6. OkIsNew'
  <2>1. req \in Table
    BY DEF GateInv, Types
  <2> QED BY <1>3, <1>4, <2>1, AnswersKeepClosing DEF Busy
<1>7. Timely'
  <2>1. ASSUME NEW s \in Sids, map'[s] # Nobody PROVE ~Expired(map'[s])
    <3>1. s \notin S /\ map'[s] = m[s]
      BY <1>4, <2>1
    <3>2. s \in BoundIn(m)
      BY <2>1, <3>1 DEF BoundIn
    <3> QED BY <3>1, <3>2
  <2>2. ASSUME NEW s \in Sids, map'[s] # Nobody, streams'[s] # {} PROVE map'[s].idle <= 0
    <3>1. map'[s] = m[s] /\ streams[s] # {}
      BY <1>4, <2>2
    <3>2. map[s] # Nobody
      BY <1>1, <2>2, <3>1 DEF SameOwners
    <3>3. m[s] = [map[s] EXCEPT !.idle = 0]
      BY <3>1, <3>2 DEF Touched
    <3>4. map[s] \in Binding
      BY <3>2, BoundOne
    <3>5. m[s].idle = 0
      BY <3>3, <3>4 DEF Binding
    <3> QED BY <3>1, <3>5
  <2>3. 0 \in 0..SweepInterval
    BY Caps
  <2> QED BY <1>2, <2>1, <2>2, <2>3 DEF Timely
<1>8. deletes' \subseteq Sids
  BY <1>2, <1>3 DEF TableInv
<1> QED BY <1>5, <1>6, <1>7, <1>8 DEF TableInv

LEMMA TickTable == ASSUME GateInv, TableInv, Tick PROVE TableInv'
<1>1. /\ sinceSweep < SweepInterval /\ sinceSweep' = sinceSweep + 1
      /\ UNCHANGED <<perKey, req, streams, deletes>>
  BY DEF Tick
<1>2. ASSUME NEW s \in Sids
      PROVE  /\ map[s] = Nobody => map'[s] = Nobody
             /\ map[s] # Nobody =>
                  /\ map'[s] # Nobody /\ map'[s].key = map[s].key /\ map'[s].endpoint = map[s].endpoint
                  /\ map'[s].idle = Min2(map[s].idle + 1, IdleLimit + 1)
  <2>1. CASE map[s] = Nobody
    BY <2>1 DEF Tick
  <2>2. CASE map[s] # Nobody
    <3> PICK b, i, a : b = map[s] /\ i = Min2(b.idle + 1, IdleLimit + 1) /\ a = Min2(b.age + 1, LifetimeLimit + 1)
      OBVIOUS
    <3>1. b \in Binding /\ b.idle \in Nat /\ b.age \in Nat
      BY <2>2, BoundOne
    <3>2. i \in 0..(IdleLimit + 1) /\ a \in 0..(LifetimeLimit + 1)
      BY <3>1, Limits DEF Min2
    <3>3. map'[s] = [b EXCEPT !.idle = i, !.age = a]
      BY <2>2 DEF Tick
    <3>4. LET c == [b EXCEPT !.idle = i, !.age = a]
          IN c \in Binding /\ c.key = b.key /\ c.endpoint = b.endpoint /\ c.idle = i
      BY <3>1, <3>2 DEF Binding
    <3> QED BY <2>2, <3>3, <3>4, NobodyAssumption
  <2> QED BY <2>1, <2>2
<1>3. SameOwners(map', map)
  BY <1>2 DEF SameOwners
<1>4. Listed' /\ Capped'
  BY <1>1, <1>3, OwnersStay
<1>5. OkIsNew'
  BY <1>1, AnswersKeep DEF Busy
<1>6. Timely'
  <2>1. sinceSweep \in Nat /\ sinceSweep' \in 0..SweepInterval /\ sinceSweep' # 0
    BY <1>1, Caps DEF TableInv, Timely
  <2>2. ASSUME NEW s \in Sids, map'[s] # Nobody, streams'[s] # {} PROVE map'[s].idle <= sinceSweep'
    <3>1. map[s] # Nobody /\ map'[s].idle = Min2(map[s].idle + 1, IdleLimit + 1)
      BY <1>2, <2>2
    <3>2. map[s].idle <= sinceSweep /\ map[s].idle \in Nat
      BY <1>1, <2>2, <3>1, BoundOne DEF TableInv, Timely
    <3> QED BY <1>1, <2>1, <3>1, <3>2, Caps DEF Min2
  <2> QED BY <2>1, <2>2 DEF Timely
<1> QED BY <1>1, <1>4, <1>5, <1>6 DEF TableInv

\* A list with one more session at its end, and with nothing more.
LEMMA ListGrows ==
  ASSUME NEW T, NEW list \in Seq(T), Once(list), NEW x \in T
  PROVE  /\ list \o <<>> = list
         /\ list \o <<x>> \in Seq(T) /\ Elements(list \o <<x>>) = Elements(list) \cup {x}
         /\ Len(list \o <<x>>) = Len(list) + 1
         /\ x \notin Elements(list) => Once(list \o <<x>>)
<1> PICK w, n : w = list \o <<x>> /\ n = Len(list)
  OBVIOUS
<1>1. /\ n \in Nat /\ DOMAIN list = 1..n /\ w \in Seq(T) /\ Len(w) = n + 1 /\ DOMAIN w = 1..(n + 1)
      /\ w[n + 1] = x /\ \A i \in 1..n : w[i] = list[i]
  OBVIOUS
<1>2. list \o <<>> = list
  OBVIOUS
<1>3. \A i \in 1..(n + 1) : i \in 1..n \/ i = n + 1
  BY <1>1
<1>4. \A i \in 1..n : i \in 1..(n + 1) /\ i # n + 1
  BY <1>1
<1>5. n + 1 \in 1..(n + 1)
  BY <1>1
<1>6. Elements(w) = Elements(list) \cup {x}
  BY <1>1, <1>3, <1>4, <1>5 DEF Elements
<1>7. ASSUME x \notin Elements(list) PROVE Once(w)
  <2>1. \A i \in 1..n : list[i] # x
    BY <1>1, <1>7 DEF Elements
  <2>2. \A i, j \in 1..n : list[i] = list[j] => i = j
    BY <1>1 DEF Once
  <2> QED BY <1>1, <1>3, <2>1, <2>2 DEF Once
<1> QED BY <1>1, <1>2, <1>6, <1>7

\* The first elements of a list.
LEMMA FirstElements ==
  ASSUME NEW T, NEW list \in Seq(T), Once(list), NEW n \in 0..Len(list)
  PROVE  /\ IsFiniteSet({list[i] : i \in 1..n}) /\ Cardinality({list[i] : i \in 1..n}) = n
         /\ {list[i] : i \in 1..n} \subseteq Elements(list)
<1> PICK w : w = [i \in 1..n |-> list[i]]
  OBVIOUS
<1>1. Len(list) \in Nat /\ n \in Nat /\ n <= Len(list) /\ DOMAIN list = 1..Len(list) /\ list \in [1..Len(list) -> T]
  OBVIOUS
<1>2. \A i \in 1..n : i \in 1..Len(list) /\ list[i] \in T
  BY <1>1
<1>3. w \in Seq(T) /\ DOMAIN w = 1..n /\ Len(w) = n
  <2>1. w \in [1..n -> T]
    BY <1>2
  <2> QED BY <1>1, <2>1
<1>4. Once(w)
  BY <1>1, <1>2, <1>3 DEF Once
<1>5. Elements(w) = {list[i] : i \in 1..n}
  BY <1>3 DEF Elements
<1>6. {list[i] : i \in 1..n} \subseteq Elements(list)
  BY <1>1, <1>2 DEF Elements
<1> QED BY <1>3, <1>4, <1>5, <1>6, OnceIsCounted

\* How many sessions a key gives up: enough for both caps when there is room for the key at all.
LEMMA EvictionsAreEnough ==
  ASSUME NEW own \in Seq(Sids), NEW size \in Nat, size <= MaxBindings, size < MaxBindings \/ own # <<>>
  PROVE  LET n == Evictions(own, size)
         IN n \in 0..Len(own) /\ Len(own) - n < MaxPerKey /\ size - n < MaxBindings
<1> PICK N : N = {n \in 0..Len(own) : /\ Len(own) - n < MaxPerKey
                                      /\ size - n < MaxBindings \/ Len(own) = n}
  OBVIOUS
<1>1. Len(own) \in Nat /\ (own # <<>> => Len(own) > 0)
  OBVIOUS
<1>2. Len(own) \in N
  BY <1>1, Caps
<1>3. N \in SUBSET Nat
  BY <1>1
<1>4. Min(N) \in N
  BY <1>2, <1>3, MinIsIn
<1> PICK n : n = Evictions(own, size)
  OBVIOUS
<1>5. n \in N
  BY <1>4 DEF Evictions
<1> QED BY <1>1, <1>5, Caps

\* bind(): what makes room, and that it is enough.
LEMMA RoomIsMade ==
  ASSUME TableInv, NEW k \in Keys, HasCapacity(k)
  PROVE  LET E == EvictedByBind(k)
             here == Bound \ SweptByCapacity
             mine == OwnedBy(k) \ SweptByCapacity
         IN /\ E \subseteq mine /\ IsFiniteSet(E) /\ IsFiniteSet(here) /\ IsFiniteSet(mine)
            /\ Cardinality(here) - Cardinality(E) < MaxBindings
            /\ Cardinality(mine) - Cardinality(E) < MaxPerKey
<1> PICK swept, own, size, n :
       /\ swept = SweptByCapacity /\ own = Without(perKey[k], swept)
       /\ size = Cardinality(Bound \ swept) /\ n = Evictions(own, size)
  OBVIOUS
<1>1. own \in Seq(Sids) /\ Once(own) /\ Elements(own) = OwnedBy(k) \ swept
  <2>1. perKey[k] \in Seq(Sids) /\ Once(perKey[k]) /\ Elements(perKey[k]) = OwnedBy(k)
    BY DEF TableInv, Listed
  <2> PICK list : list = perKey[k]
    OBVIOUS
  <2>2. own \in Seq(Sids) /\ Once(own) /\ Elements(own) = Elements(list) \ swept
    BY <2>1, WithoutKeeps
  <2> QED BY <2>1, <2>2
<1>2. IsFiniteSet(OwnedBy(k) \ swept) /\ Cardinality(OwnedBy(k) \ swept) = Len(own)
  BY <1>1, OnceIsCounted
<1>3. IsFiniteSet(Bound \ swept) /\ size \in Nat /\ size <= MaxBindings
  <2>1. IsFiniteSet(Bound) /\ Cardinality(Bound) <= MaxBindings
    BY DEF TableInv, Capped, GateWithinCaps
  <2>2. IsFiniteSet(Bound \ swept) /\ Cardinality(Bound \ swept) <= Cardinality(Bound)
    BY <2>1, FS_Subset
  <2>3. Cardinality(Bound \ swept) \in Nat /\ Cardinality(Bound) \in Nat
    BY <2>1, <2>2, FS_CardinalityType
  <2> QED BY <2>1, <2>2, <2>3, Caps
<1>4. size < MaxBindings \/ own # <<>>
  BY DEF HasCapacity
<1>5. n \in 0..Len(own) /\ Len(own) - n < MaxPerKey /\ size - n < MaxBindings
  BY <1>1, <1>3, <1>4, EvictionsAreEnough
<1> PICK first : first = {own[i] : i \in 1..n}
  OBVIOUS
<1>6. IsFiniteSet(first) /\ Cardinality(first) = n /\ first \subseteq OwnedBy(k) \ swept
  <2>1. \A list \in Seq(Sids) : \A m \in 0..Len(list) : Once(list) =>
           /\ IsFiniteSet({list[i] : i \in 1..m}) /\ Cardinality({list[i] : i \in 1..m}) = m
           /\ {list[i] : i \in 1..m} \subseteq Elements(list)
    BY FirstElements
  <2> QED BY <1>1, <1>5, <2>1
<1>7. EvictedByBind(k) = first
  <2>1. EvictedByBind(k) = {t \in Bound : \E i \in 1..n : own[i] = t}
    BY DEF EvictedByBind
  <2>2. OwnedBy(k) \subseteq Bound
    BY DEF OwnedBy, Bound, BoundIn
  <2> QED BY <1>6, <2>1, <2>2
<1> QED BY <1>2, <1>3, <1>5, <1>6, <1>7

\* What is left of a finite set without some of its elements.
LEMMA PartsOf ==
  ASSUME NEW B, IsFiniteSet(B), NEW E \in SUBSET B
  PROVE  IsFiniteSet(B \ E) /\ Cardinality(B \ E) = Cardinality(B) - Cardinality(E)
<1>1. IsFiniteSet(B \ E) /\ IsFiniteSet(E) /\ (B \ E) \in SUBSET B
  BY FS_Subset
<1>2. (B \ E) \cup E = B /\ (B \ E) \cap E = {}
  OBVIOUS
<1>3. Cardinality((B \ E) \cup E) = Cardinality(B \ E) + Cardinality(E) - Cardinality((B \ E) \cap E)
  BY <1>1, FS_Union
<1>4. Cardinality((B \ E) \cap E) = 0
  BY <1>2, FS_EmptySet
<1>5. Cardinality(B \ E) \in Nat /\ Cardinality(E) \in Nat
  BY <1>1, FS_CardinalityType
<1> QED BY <1>1, <1>2, <1>3, <1>4, <1>5

LEMMA BindTable ==
  ASSUME GateInv, TableInv, NEW r \in Requests, AnswerInitialize(r), HasCapacity(req[r].key)
  PROVE  TableInv'
<1> PICK k, s, gone : /\ k = req[r].key /\ s = req[r].newSid
                      /\ gone = SweptByCapacity \cup EvictedByBind(k)
  OBVIOUS
<1>0. /\ map' = [x \in Sids |-> IF x = s THEN [key |-> k, endpoint |-> req[r].endpoint, idle |-> 0, age |-> 0]
                                ELSE IF x \in gone THEN Nobody ELSE map[x]]
      /\ perKey' = [x \in Keys |-> Without(perKey[x], gone) \o IF x = k THEN <<s>> ELSE <<>>]
      /\ streams' = [x \in Sids |-> IF x \in gone THEN {} ELSE streams[x]]
      /\ req' = DestroyStreams([req EXCEPT ![r] = Nobody], gone)
      /\ deletes' = deletes \cup gone
  BY DEF AnswerInitialize, DeleteUpstream
<1>1. /\ Busy(r) /\ req[r] \in Request /\ req[r].kind = "initialize" /\ req[r].status = "ok"
      /\ sinceSweep' = sinceSweep
  BY BusyOne DEF AnswerInitialize, Busy
<1>2. k \in Keys /\ s \in Sids /\ s # Nobody /\ map[s] = Nobody /\ req[r].endpoint \in Endpoints
  BY <1>1 DEF Request, TableInv, OkIsNew, GateInv, Fresh
<1>3. gone \in SUBSET Sids
  BY SweptIsSids, EvictedIsSids
<1> PICK new : new = [key |-> k, endpoint |-> req[r].endpoint, idle |-> 0, age |-> 0]
  OBVIOUS
<1>4. new # Nobody /\ new.key = k /\ new.idle = 0 /\ new.age = 0
  <2>1. new \in Binding
    BY <1>2, Limits DEF Binding
  <2> QED BY <2>1, NobodyAssumption
<1>5. \A x \in Sids : map'[x] = IF x = s THEN new ELSE IF x \in gone THEN Nobody ELSE map[x]
  BY <1>0
<1>6. s \notin Bound /\ s \notin OwnedBy(k)
  BY <1>2 DEF Bound, BoundIn, OwnedBy
<1>7. Bound' = (Bound \ gone) \cup {s}
  BY <1>2, <1>4, <1>5 DEF Bound, BoundIn
<1>8. \A x \in Keys : OwnedBy(x)' = (OwnedBy(x) \ gone) \cup IF x = k THEN {s} ELSE {}
  BY <1>2, <1>4, <1>5 DEF OwnedBy
<1> PICK swept, E : swept = SweptByCapacity /\ E = EvictedByBind(k)
  OBVIOUS
<1>9. /\ E \subseteq OwnedBy(k) \ swept /\ IsFiniteSet(E)
      /\ IsFiniteSet(Bound \ swept) /\ IsFiniteSet(OwnedBy(k) \ swept)
      /\ Cardinality(Bound \ swept) - Cardinality(E) < MaxBindings
      /\ Cardinality(OwnedBy(k) \ swept) - Cardinality(E) < MaxPerKey
  BY <1>2, RoomIsMade
<1>10. gone = swept \cup E
  OBVIOUS
<1>11. ASSUME NEW x \in Keys
       PROVE  /\ perKey'[x] \in Seq(Sids) /\ Once(perKey'[x]) /\ Elements(perKey'[x]) = OwnedBy(x)'
  <2> PICK list, w : list = perKey[x] /\ w = Without(list, gone)
    OBVIOUS
  <2>1. list \in Seq(Sids) /\ Once(list) /\ Elements(list) = OwnedBy(x)
    BY DEF TableInv, Listed
  <2>2. w \in Seq(Sids) /\ Once(w) /\ Elements(w) = OwnedBy(x) \ gone
    BY <2>1, WithoutKeeps
  <2>3. /\ w \o <<>> = w /\ w \o <<s>> \in Seq(Sids) /\ Elements(w \o <<s>>) = Elements(w) \cup {s}
        /\ s \notin Elements(w) => Once(w \o <<s>>)
    <3>1. \A u \in Seq(Sids) : \A y \in Sids : Once(u) =>
             /\ u \o <<>> = u /\ u \o <<y>> \in Seq(Sids) /\ Elements(u \o <<y>>) = Elements(u) \cup {y}
             /\ y \notin Elements(u) => Once(u \o <<y>>)
      BY ListGrows
    <3> QED BY <1>2, <2>2, <3>1
  <2>4. perKey'[x] = IF x = k THEN w \o <<s>> ELSE w
    BY <1>0, <2>3
  <2>5. OwnedBy(x)' = (OwnedBy(x) \ gone) \cup IF x = k THEN {s} ELSE {}
    BY <1>8
  <2>6. x = k => s \notin Elements(w)
    BY <1>6, <2>2
  <2> QED BY <2>2, <2>3, <2>4, <2>5, <2>6
<1>12. Listed'
  <2>1. perKey' \in [Keys -> Seq(Sids)]
    BY <1>0, <1>11
  <2> QED BY <1>11, <2>1 DEF Listed
<1>13. IsFiniteSet(Bound') /\ Cardinality(Bound') <= MaxBindings
  <2> PICK B : B = Bound \ swept
    OBVIOUS
  <2>1. Bound' = (B \ E) \cup {s} /\ s \notin B /\ E \subseteq B
    BY <1>6, <1>7, <1>9, <1>10 DEF OwnedBy, Bound, BoundIn
  <2>2. IsFiniteSet(B \ E) /\ Cardinality(B \ E) = Cardinality(B) - Cardinality(E)
    BY <1>9, <2>1, PartsOf
  <2>3. IsFiniteSet(Bound') /\ Cardinality(Bound') = Cardinality(B) - Cardinality(E) + 1
    <3> PICK D : D = B \ E
      OBVIOUS
    <3>1. IsFiniteSet(D) /\ s \notin D
      BY <2>1, <2>2
    <3>2. IsFiniteSet(D \cup {s}) /\ Cardinality(D \cup {s}) = Cardinality(D) + 1
      BY <3>1, FS_AddElement
    <3> QED BY <2>1, <2>2, <3>2
  <2>4. Cardinality(B) \in Nat /\ Cardinality(E) \in Nat
    BY <1>9, FS_CardinalityType
  <2> QED BY <1>9, <2>3, <2>4, Caps
<1>14. ASSUME NEW x \in Keys PROVE Len(perKey'[x]) <= MaxPerKey
  <2>1. Len(perKey'[x]) = Cardinality(OwnedBy(x)') /\ Len(perKey'[x]) \in Nat
    BY <1>11, OnceIsCounted
  <2>2. CASE x = k
    <3> PICK M : M = OwnedBy(k) \ swept
      OBVIOUS
    <3>1. OwnedBy(x)' = (M \ E) \cup {s} /\ s \notin M /\ E \subseteq M
      <4>1. OwnedBy(x)' = (OwnedBy(x) \ gone) \cup {s}
        BY <1>8, <2>2
      <4> QED BY <1>6, <1>9, <1>10, <2>2, <4>1
    <3>2. IsFiniteSet(M \ E) /\ Cardinality(M \ E) = Cardinality(M) - Cardinality(E)
      BY <1>9, <3>1, PartsOf
    <3>3. Cardinality(OwnedBy(x)') = Cardinality(M) - Cardinality(E) + 1
      <4> PICK D : D = M \ E
        OBVIOUS
      <4>1. IsFiniteSet(D) /\ s \notin D
        BY <3>1, <3>2
      <4>2. IsFiniteSet(D \cup {s}) /\ Cardinality(D \cup {s}) = Cardinality(D) + 1
        BY <4>1, FS_AddElement
      <4> QED BY <3>1, <3>2, <4>2
    <3>4. Cardinality(M) \in Nat /\ Cardinality(E) \in Nat
      BY <1>9, FS_CardinalityType
    <3>5. Cardinality(M) - Cardinality(E) < MaxPerKey
      BY <1>9
    <3>6. Len(perKey'[x]) = Cardinality(M) - Cardinality(E) + 1
      BY <2>1, <3>3
    <3>7. Cardinality(M) - Cardinality(E) + 1 <= MaxPerKey
      BY <3>4, <3>5, Caps
    <3> QED BY <3>6, <3>7
  <2>3. CASE x # k
    <3>1. OwnedBy(x)' = OwnedBy(x) \ gone
      BY <1>8, <2>3
    <3>2. /\ IsFiniteSet(OwnedBy(x)) /\ Cardinality(OwnedBy(x)) = Len(perKey[x])
          /\ Len(perKey[x]) <= MaxPerKey /\ Len(perKey[x]) \in Nat
      BY ListLength DEF TableInv, Capped, GateWithinCaps
    <3>3. Cardinality(OwnedBy(x) \ gone) <= Cardinality(OwnedBy(x))
      BY <3>2, FS_Subset
    <3>4. Len(perKey'[x]) = Cardinality(OwnedBy(x) \ gone)
      BY <2>1, <3>1
    <3>5. Cardinality(OwnedBy(x) \ gone) \in Nat
      BY <2>1, <3>4
    <3>6. Cardinality(OwnedBy(x) \ gone) <= MaxPerKey
      BY <3>2, <3>3, <3>5, Caps
    <3> QED BY <3>4, <3>6
  <2> QED BY <2>2, <2>3
<1>15. Capped'
  BY <1>13, <1>14 DEF Capped, GateWithinCaps
<1>16. OkIsNew'
  <2> PICK rq : rq = [req EXCEPT ![r] = Nobody]
    OBVIOUS
  <2>1. rq \in Table /\ \A p \in Requests : rq[p] = IF p = r THEN Nobody ELSE req[p]
    BY DEF GateInv, Types, Table
  <2>2. /\ \A p \in Requests : Busy(p) /\ req[p].kind = "get" => rq[p] # Nobody
        /\ \A p \in Requests : rq[p] # Nobody =>
             /\ Busy(p) /\ rq[p].kind = req[p].kind
             /\ rq[p].status = req[p].status /\ rq[p].newSid = req[p].newSid
    BY <1>1, <2>1 DEF Busy
  <2>3. req' = DestroyStreams(rq, gone)
    BY <1>0
  <2> QED BY <1>3, <2>1, <2>2, <2>3, AnswersKeepClosing
<1>17. Timely'
  <2>1. \A x \in Sids : streams'[x] # {} => streams[x] # {}
    BY <1>0
  <2>2. \A x \in Sids : map'[x] # Nobody =>
           /\ \/ map'[x].idle = 0
              \/ map[x] # Nobody /\ map'[x].idle = map[x].idle /\ (streams'[x] # {} => streams[x] # {})
           /\ map'[x].age = 0 \/ (map[x] # Nobody /\ map'[x].age = map[x].age)
    BY <1>4, <1>5, <2>1
  <2> QED BY <1>1, <2>2, ClocksKeep
<1> QED BY <1>0, <1>3, <1>12, <1>15, <1>16, <1>17 DEF TableInv

LEMMA AnswerInitializeTable ==
  ASSUME GateInv, TableInv, NEW r \in Requests, AnswerInitialize(r) PROVE TableInv'
<1> PICK k, s : k = req[r].key /\ s = req[r].newSid
  OBVIOUS
<1>1. /\ Busy(r) /\ req[r] \in Request /\ req[r].kind = "initialize" /\ req[r].status = "ok"
      /\ sinceSweep' = sinceSweep
  BY BusyOne DEF AnswerInitialize, Busy
<1>2. CASE HasCapacity(k)
  BY <1>2, BindTable
<1>3. CASE ~HasCapacity(k)
  <2> PICK q, rq : q = Nobody /\ rq = [req EXCEPT ![r] = q]
    OBVIOUS
  <2>1. RemoveBindings(SweptByCapacity, map, rq) /\ deletes' = deletes \cup (SweptByCapacity \cup {s})
    BY <1>3 DEF AnswerInitialize, DeleteUpstream
  <2>2. s \in Sids
    BY <1>1 DEF Request, TableInv, OkIsNew
  <2>3. rq \in Table /\ \A p \in Requests : rq[p] = IF p = r THEN Nobody ELSE req[p]
    BY DEF GateInv, Types, Table
  <2>4. /\ \A p \in Requests : Busy(p) /\ req[p].kind = "get" => rq[p] # Nobody
        /\ \A p \in Requests : rq[p] # Nobody =>
             /\ Busy(p) /\ rq[p].kind = req[p].kind
             /\ rq[p].status = req[p].status /\ rq[p].newSid = req[p].newSid
    BY <1>1, <2>3 DEF Busy
  <2>5. deletes' \subseteq Sids
    BY <2>1, <2>2, SweptIsSids DEF TableInv
  <2> QED BY <1>1, <2>1, <2>3, <2>4, <2>5, SweptIsSids, RemoveTable
<1> QED BY <1>2, <1>3

LEMMA NextTable == ASSUME GateInv, TableInv, [Next]_vars PROVE TableInv'
<1>1. CASE UNCHANGED vars
  <2>1. UNCHANGED <<map, perKey, req, streams, deletes, sinceSweep>>
    BY <1>1 DEF vars
  <2>2. OkIsNew'
    BY <2>1, AnswersKeep DEF Busy
  <2>3. Listed' /\ Capped'
    BY <2>1, MapIsBindings, OwnersStay
  <2>4. Timely'
    BY <2>1, ClocksKeep
  <2> QED BY <2>1, <2>2, <2>3, <2>4 DEF TableInv
<1>2. CASE Next
  <2>1. CASE Progress
    BY <2>1, StageTable, EndInitializeTable, MetaMcpServesTable, AnswerErrorTable, AnswerInitializeTable,
       AnswerCallTable, MetaMcpDeletesTable
    DEF Progress
  <2>2. CASE \E r \in Requests, k \in Keys, e \in Endpoints : ArriveInitialize(r, k, e)
    BY <2>2, ArriveInitializeTable
  <2>3. CASE \E r \in Requests, s \in Sids : ArriveExpired(r, s)
    BY <2>3, ArriveExpiredTable
  <2>4. CASE \E r \in Requests, k \in Keys, e \in Endpoints, s \in Sids :
               ArriveCall(r, "call", k, e, s) \/ ArriveCall(r, "delete", k, e, s) \/ ArriveGet(r, k, e, s)
    BY <2>4, ArriveCallTable, ArriveGetTable
  <2> QED BY <1>2, <2>1, <2>2, <2>3, <2>4, CloseTable, SweeperTable, TickTable DEF Next
<1> QED BY <1>1, <1>2

LEMMA AlwaysTable == Spec => [](GateInv /\ TableInv)
BY InitInv, TableInit, NextInv, NextTable, PTL DEF Spec

\* Every variable of the gate stays in its range, the lists of the keys and the clocks of the
\* bindings included.
THEOREM TypeCorrect == Spec => []TypeOK
<1>1. GateInv /\ TableInv => TypeOK
  BY DEF GateInv, Types, Bindings, Table, TableInv, Listed, Timely, TypeOK
<1> QED BY <1>1, AlwaysTable, PTL

\* Both caps of the binding table hold although MetaMCP's answers arrive long after the capacity was
\* checked, and several at a time: bind() gives up enough sessions of the key, or refuses.
THEOREM CapsAlwaysHold == Spec => []GateWithinCaps
<1>1. TableInv => GateWithinCaps
  BY DEF TableInv, Capped
<1> QED BY <1>1, AlwaysTable, PTL

\* A session with an open stream never idles out, and right after a sweep no binding is expired.
THEOREM IdleSessionsExpire == Spec => []SessionsExpireWhenIdle
<1>1. GateInv /\ TableInv => SessionsExpireWhenIdle
  <2> SUFFICES ASSUME GateInv, TableInv PROVE SessionsExpireWhenIdle
    OBVIOUS
  <2>1. ASSUME NEW s \in Bound, streams[s] # {} PROVE map[s].idle <= IdleLimit
    <3>1. s \in Sids /\ map[s] # Nobody
      BY DEF Bound, BoundIn
    <3>2. map[s].idle <= sinceSweep /\ map[s].idle \in Nat
      BY <2>1, <3>1, BoundOne DEF TableInv, Timely
    <3>3. sinceSweep \in 0..SweepInterval
      BY DEF TableInv, Timely
    <3> QED BY <3>2, <3>3, Caps
  <2>2. sinceSweep = 0 => ExpiredSids = {}
    BY DEF TableInv, Timely, ExpiredSids, Bound, BoundIn
  <2> QED BY <2>1, <2>2 DEF SessionsExpireWhenIdle
<1> QED BY <1>1, AlwaysTable, PTL

-----------------------------------------------------------------------------
(* Sessions that MetaMCP keeps and the gate has lost *)

\* What an answer says of MetaMCP's sessions; a session that an initialize made comes with the answer.
ToldOf(q, m) ==
  /\ q.kind \in {"initialize", "call"} /\ q.newSid # Nobody => q.stage = "answered" /\ q.status = "ok"
  /\ q.kind \notin {"initialize", "call"} /\ q.newSid # Nobody => q.newSid = q.sid
  /\ q.status = "404" \/ (q.kind = "delete" /\ q.status = "ok") => q.sid \in Sids /\ m[q.sid] = "gone"

\* With GateInv and TableInv, the inductive invariant of what MetaMCP has answered.
Told == \A r \in Requests : Busy(r) => ToldOf(req[r], metamcp)

\* A session is on its way to the request.
Carries(r) == Busy(r) /\ req[r].kind \in {"initialize", "call"} /\ req[r].newSid # Nobody

\* MetaMCP has rejected the key of the session.
Rejected(s) == \E r \in Requests : Busy(r) /\ req[r].stage = "answered" /\ req[r].sid = s /\ req[r].status = "401"

\* The request has the answer it had.
Keeps(q, p) ==
  /\ q # Nobody /\ p # Nobody
  /\ q.kind = p.kind /\ q.sid = p.sid /\ q.status = p.status /\ q.newSid = p.newSid
  /\ q.stage = p.stage \/ p.kind \notin {"initialize", "call"} \/ p.newSid = Nobody

\* The action of SessionsNotLeaked.
NoneLost ==
  \A s \in Sids :
    metamcp[s] = "live" /\ Accounted(s) /\ metamcp'[s] = "live" /\ ~Accounted(s)' =>
      \/ s \in deletes
      \/ \E r \in Requests : Brings(r, s) /\ req'[r] = Nobody /\ UNCHANGED map
      \/ \E r \in Requests : /\ Busy(r) /\ req[r].stage = "answered"
                             /\ req[r].sid = s /\ req[r].status = "401"

\* A step loses no session if the bindings that go are deleted in MetaMCP, gone there or rejected, and
\* what an initialize carried is bound or deleted when the request ends, unless the client hung up.
LEMMA NothingLost ==
  ASSUME Told, \A s \in Sids : metamcp[s] = "gone" => metamcp'[s] = "gone",
         \A s \in Sids : map[s] # Nobody => map'[s] # Nobody \/ s \in deletes' \/ metamcp[s] # "live" \/ Rejected(s),
         \A p \in Requests :
           \/ Keeps(req'[p], req[p])
           \/ /\ req'[p] = Nobody
              /\ Carries(p) => map'[req[p].newSid] # Nobody \/ req[p].newSid \in deletes' \/ map' = map
           \/ req'[p] # Nobody /\ ~Carries(p) /\ ToldOf(req'[p], metamcp')
  PROVE  Told' /\ NoneLost
<1>1. Told'
  <2> SUFFICES ASSUME NEW p \in Requests, req'[p] # Nobody PROVE ToldOf(req'[p], metamcp')
    BY DEF Told, Busy
  <2>1. CASE Keeps(req'[p], req[p])
    <3>1. ToldOf(req[p], metamcp)
      BY <2>1 DEF Told, Busy, Keeps
    <3> QED BY <2>1, <3>1 DEF ToldOf, Keeps
  <2> QED BY <2>1
<1>2. NoneLost
  <2> SUFFICES ASSUME NEW s \in Sids, metamcp[s] = "live", Accounted(s), ~Accounted(s)', s \notin deletes, ~Rejected(s)
               PROVE  \E r \in Requests : Brings(r, s) /\ req'[r] = Nobody /\ UNCHANGED map
    BY DEF NoneLost, Rejected
  <2>1. map'[s] = Nobody /\ s \notin deletes'
        /\ \A r \in Requests : ~(req'[r] # Nobody /\ req'[r].newSid = s /\ req'[r].sid # s)
    BY DEF Accounted, Bound, BoundIn, Busy, Brings
  <2>2. map[s] = Nobody
    BY <2>1
  <2>3. PICK r \in Requests : Brings(r, s)
    BY <2>2 DEF Accounted, Bound, BoundIn
  <2>4. Carries(r)
    BY <2>3, NobodyAssumption DEF Carries, Told, ToldOf, Brings
  <2>5. ~Keeps(req'[r], req[r])
    BY <2>1, <2>3 DEF Keeps, Brings
  <2>6. req'[r] = Nobody /\ map' = map
    BY <2>1, <2>3, <2>4, <2>5 DEF Brings
  <2> QED BY <2>3, <2>6
<1> QED BY <1>1, <1>2

LEMMA SameKeeps == ASSUME NEW q, q # Nobody PROVE Keeps(q, q)
BY DEF Keeps

\* A stream that is closed keeps its answer.
LEMMA ClosingKeeps ==
  ASSUME GateInv, NEW S \in SUBSET Sids, NEW rq \in Table, req' = DestroyStreams(rq, S),
         \A p \in Requests : Busy(p) /\ req[p].kind = "get" => rq[p] # Nobody,
         NEW p \in Requests, rq[p] = Nobody \/ Keeps(rq[p], req[p])
  PROVE  (rq[p] = Nobody /\ req'[p] = Nobody) \/ Keeps(req'[p], req[p])
<1>1. CASE \E s \in S : p \in streams[s]
  <2>1. Busy(p) /\ req[p].kind = "get"
    BY <1>1 DEF GateInv, Streaming
  <2>2. rq[p] # Nobody /\ rq[p] \in Request /\ Keeps(rq[p], req[p])
    BY <2>1 DEF Table
  <2>3. \A q \in Request : LET c == [q EXCEPT !.stage = "closing"]
                           IN c \in Request /\ c.kind = q.kind /\ c.sid = q.sid /\ c.status = q.status /\ c.newSid = q.newSid
    BY DEF Request
  <2>4. req'[p] = [rq[p] EXCEPT !.stage = "closing"]
    BY <1>1 DEF DestroyStreams
  <2>5. /\ req'[p] # Nobody /\ req'[p].kind = rq[p].kind /\ req'[p].sid = rq[p].sid
        /\ req'[p].status = rq[p].status /\ req'[p].newSid = rq[p].newSid
    BY <2>2, <2>3, <2>4, NobodyAssumption
  <2> QED BY <2>1, <2>2, <2>5 DEF Keeps
<1>2. CASE ~ \E s \in S : p \in streams[s]
  <2>1. req'[p] = rq[p]
    BY <1>2 DEF DestroyStreams
  <2> QED BY <2>1
<1> QED BY <1>1, <1>2

\* One request becomes q.
Becomes(rq, r, q) == rq = [req EXCEPT ![r] = q]

LEMMA OthersKeep ==
  ASSUME GateInv, NEW r \in Requests, NEW q \in Request \cup {Nobody}, NEW rq, Becomes(rq, r, q),
         req[r].kind # "get" \/ q # Nobody \/ ~Busy(r)
  PROVE  /\ rq \in Table /\ rq[r] = q
         /\ \A p \in Requests : Busy(p) /\ req[p].kind = "get" => rq[p] # Nobody
         /\ \A p \in Requests : p # r => rq[p] = Nobody \/ Keeps(rq[p], req[p])
         /\ \A p \in Requests : p # r /\ rq[p] = Nobody => ~Busy(p)
<1>1. rq \in Table /\ \A p \in Requests : rq[p] = IF p = r THEN q ELSE req[p]
  BY DEF GateInv, Types, Table, Becomes
<1> QED BY <1>1, SameKeeps DEF Busy

\* Bindings are removed: those in S, from a table with the same sessions.
LEMMA RemovalLoses ==
  ASSUME GateInv, Told, NEW S \in SUBSET Sids, NEW m, \A s \in Sids : map[s] # Nobody => m[s] # Nobody,
         NEW rq \in Table, RemoveBindings(S, m, rq),
         \A s \in Sids : metamcp[s] = "gone" => metamcp'[s] = "gone",
         \A s \in S : s \in deletes' \/ metamcp[s] # "live" \/ Rejected(s),
         \A p \in Requests : Busy(p) /\ req[p].kind = "get" => rq[p] # Nobody,
         \A p \in Requests : rq[p] = Nobody \/ Keeps(rq[p], req[p]),
         \A p \in Requests : Carries(p) /\ rq[p] = Nobody => req[p].newSid \in deletes'
  PROVE  Told' /\ NoneLost
<1>1. map' = [s \in Sids |-> IF s \in S THEN Nobody ELSE m[s]] /\ req' = DestroyStreams(rq, S)
  BY DEF RemoveBindings
<1>2. \A s \in Sids : map[s] # Nobody => map'[s] # Nobody \/ s \in deletes' \/ metamcp[s] # "live" \/ Rejected(s)
  BY <1>1
<1>3. \A p \in Requests : \/ Keeps(req'[p], req[p])
                          \/ req'[p] = Nobody /\ (Carries(p) => req[p].newSid \in deletes')
  BY <1>1, ClosingKeeps
<1>4. \A p \in Requests :
        \/ Keeps(req'[p], req[p])
        \/ /\ req'[p] = Nobody
           /\ Carries(p) => map'[req[p].newSid] # Nobody \/ req[p].newSid \in deletes' \/ map' = map
        \/ req'[p] # Nobody /\ ~Carries(p) /\ ToldOf(req'[p], metamcp')
  BY <1>3
<1> QED BY <1>2, <1>4, NothingLost

LEMMA ArriveExpiredLoses ==
  ASSUME GateInv, Told, NEW r \in Requests, NEW s \in Sids, ArriveExpired(r, s) PROVE Told' /\ NoneLost
<1>1. req \in Table /\ {s} \in SUBSET Sids
  BY DEF GateInv, Types
<1>2. RemoveBindings({s}, map, req) /\ s \in deletes' /\ metamcp' = metamcp
  BY DEF ArriveExpired, DeleteUpstream
<1>3. \A p \in Requests : req[p] = Nobody \/ Keeps(req[p], req[p])
  BY SameKeeps
<1> QED BY <1>1, <1>2, <1>3, RemovalLoses DEF Busy, Carries

LEMMA SweeperLoses == ASSUME GateInv, Told, Sweeper PROVE Told' /\ NoneLost
<1> PICK gone : gone = {s \in BoundIn(Touched) : Expired(Touched[s])}
  OBVIOUS
<1>1. req \in Table /\ gone \in SUBSET Sids
  BY DEF GateInv, Types, BoundIn
<1>2. RemoveBindings(gone, Touched, req) /\ gone \subseteq deletes' /\ metamcp' = metamcp
  BY DEF Sweeper, DeleteUpstream
<1>3. \A p \in Requests : req[p] = Nobody \/ Keeps(req[p], req[p])
  BY SameKeeps
<1>4. \A s \in Sids : map[s] # Nobody => Touched[s] # Nobody
  <2> SUFFICES ASSUME NEW s \in Sids, map[s] # Nobody PROVE Touched[s] # Nobody
    OBVIOUS
  <2>1. map[s] \in Binding
    BY DEF GateInv, Types, Bindings
  <2>2. \A b \in Binding : [b EXCEPT !.idle = 0] \in Binding
    BY Limits DEF Binding
  <2> QED BY <2>1, <2>2, NobodyAssumption DEF Touched
<1> QED BY <1>1, <1>2, <1>3, <1>4, RemovalLoses DEF Busy, Carries

LEMMA EndInitializeLoses ==
  ASSUME GateInv, Told, NEW r \in Requests, EndInitialize(r) PROVE Told' /\ NoneLost
<1>1. /\ Busy(r) /\ req[r] \in Request /\ req[r].kind = "initialize" /\ req[r].stage = "body" /\ metamcp' = metamcp
  BY BusyOne DEF EndInitialize, Busy
<1>2. req[r].newSid = Nobody /\ ~Carries(r)
  BY <1>1 DEF Told, ToldOf, Carries
<1>3. CASE req' = [req EXCEPT ![r] = Nobody] /\ UNCHANGED <<map, perKey, streams, deletes>>
  <2>0. Becomes(req', r, Nobody) /\ Nobody \in Request \cup {Nobody}
    BY <1>3 DEF Becomes
  <2>1. /\ req'[r] = Nobody
        /\ \A p \in Requests : p # r => req'[p] = Nobody \/ Keeps(req'[p], req[p])
        /\ \A p \in Requests : p # r /\ req'[p] = Nobody => ~Busy(p)
    BY <1>1, <2>0, OthersKeep
  <2>2. \A p \in Requests :
          \/ Keeps(req'[p], req[p])
          \/ /\ req'[p] = Nobody
             /\ Carries(p) => map'[req[p].newSid] # Nobody \/ req[p].newSid \in deletes' \/ map' = map
          \/ req'[p] # Nobody /\ ~Carries(p) /\ ToldOf(req'[p], metamcp')
    BY <1>3, <2>1
  <2> QED BY <1>1, <1>3, <2>2, NothingLost
<1>4. CASE /\ RemoveBindings(SweptByCapacity, map,
                [req EXCEPT ![r] = IF HasCapacity(req[r].key) THEN [req[r] EXCEPT !.stage = "sent"] ELSE Nobody])
           /\ DeleteUpstream(SweptByCapacity)
  <2>0. PICK q : q = IF HasCapacity(req[r].key) THEN [req[r] EXCEPT !.stage = "sent"] ELSE Nobody
    OBVIOUS
  <2>1. q \in Request \cup {Nobody} /\ (q = Nobody \/ Keeps(q, req[r]))
    <3>1. LET c == [req[r] EXCEPT !.stage = "sent"]
          IN c \in Request /\ c.kind = req[r].kind /\ c.sid = req[r].sid /\ c.status = req[r].status /\ c.newSid = req[r].newSid
      BY <1>1 DEF Request
    <3> QED BY <1>1, <1>2, <2>0, <3>1, NobodyAssumption DEF Keeps, Busy
  <2> PICK rq : Becomes(rq, r, q)
    BY DEF Becomes
  <2>2. RemoveBindings(SweptByCapacity, map, rq) /\ SweptByCapacity \subseteq deletes'
    BY <1>4, <2>0 DEF DeleteUpstream, Becomes
  <2>3. /\ rq \in Table /\ rq[r] = q
        /\ \A p \in Requests : Busy(p) /\ req[p].kind = "get" => rq[p] # Nobody
        /\ \A p \in Requests : p # r => rq[p] = Nobody \/ Keeps(rq[p], req[p])
        /\ \A p \in Requests : p # r /\ rq[p] = Nobody => ~Busy(p)
    <3>1. Busy(r) /\ q \in Request \cup {Nobody} /\ (req[r].kind # "get" \/ q # Nobody \/ ~Busy(r))
      BY <1>1, <2>1
    <3> QED BY <3>1, OthersKeep
  <2>4. \A p \in Requests : rq[p] = Nobody \/ Keeps(rq[p], req[p])
    BY <2>1, <2>3
  <2>5. \A p \in Requests : Carries(p) /\ rq[p] = Nobody => req[p].newSid \in deletes'
    BY <1>2, <2>3 DEF Carries
  <2> QED BY <1>1, <2>2, <2>3, <2>4, <2>5, SweptIsSids, RemovalLoses
<1> QED BY <1>3, <1>4 DEF EndInitialize

LEMMA AnswerErrorLoses ==
  ASSUME GateInv, Told, NEW r \in Requests, AnswerError(r) PROVE Told' /\ NoneLost
<1> DEFINE S == IF req[r].sid # Nobody /\ req[r].status \in {"401", "404"} THEN {req[r].sid} ELSE {}
<1>0. PICK q : q = Finished(req[r])
  OBVIOUS
<1>1. /\ Busy(r) /\ req[r] \in Request /\ RemoveBindings(S, map, [req EXCEPT ![r] = q])
      /\ req[r].stage = "answered" /\ req[r].status # "ok" /\ metamcp' = metamcp
  BY <1>0 DEF AnswerError, Busy, GateInv, Types, Table
<1>2. S \in SUBSET Sids
  BY <1>1 DEF Request
<1>3. ToldOf(req[r], metamcp)
  BY <1>1 DEF Told
<1>4. \A s \in S : metamcp[s] # "live" \/ Rejected(s)
  BY <1>1, <1>3 DEF ToldOf, Rejected
<1>5. ~Carries(r)
  BY <1>1, <1>3 DEF ToldOf, Carries
<1>6. /\ q \in Request \cup {Nobody} /\ (q = Nobody => req[r].kind # "get")
      /\ q = Nobody \/ Keeps(q, req[r])
  <2>1. LET c == [req[r] EXCEPT !.stage = "closing"]
        IN c \in Request /\ c.kind = req[r].kind /\ c.sid = req[r].sid /\ c.status = req[r].status /\ c.newSid = req[r].newSid
    BY <1>1 DEF Request
  <2> QED BY <1>0, <1>1, <2>1, NobodyAssumption DEF Finished, Keeps, Busy
<1> HIDE DEF S
<1> PICK rq : Becomes(rq, r, q)
  BY DEF Becomes
<1>7. /\ rq \in Table /\ rq[r] = q
      /\ \A p \in Requests : Busy(p) /\ req[p].kind = "get" => rq[p] # Nobody
      /\ \A p \in Requests : p # r => rq[p] = Nobody \/ Keeps(rq[p], req[p])
      /\ \A p \in Requests : p # r /\ rq[p] = Nobody => ~Busy(p)
  <2>1. Busy(r) /\ q \in Request \cup {Nobody} /\ (req[r].kind # "get" \/ q # Nobody \/ ~Busy(r))
    BY <1>1, <1>6
  <2> QED BY <2>1, OthersKeep
<1>8. \A p \in Requests : rq[p] = Nobody \/ Keeps(rq[p], req[p])
  BY <1>6, <1>7
<1>9. \A p \in Requests : Carries(p) /\ rq[p] = Nobody => req[p].newSid \in deletes'
  BY <1>5, <1>7 DEF Carries
<1>10. RemoveBindings(S, map, rq)
  BY <1>1 DEF Becomes
<1> QED BY <1>1, <1>2, <1>4, <1>10, <1>7, <1>8, <1>9, RemovalLoses

\* Only one request changes.
LEMMA OneLoses ==
  ASSUME GateInv, Told, NEW r \in Requests, NEW q \in Request \cup {Nobody}, Becomes(req', r, q),
         \A s \in Sids : metamcp[s] = "gone" => metamcp'[s] = "gone",
         \A s \in Sids : map[s] # Nobody => map'[s] # Nobody,
         \/ Keeps(q, req[r])
         \/ q = Nobody /\ (Carries(r) => map' = map)
         \/ q # Nobody /\ ~Carries(r) /\ ToldOf(q, metamcp')
  PROVE  Told' /\ NoneLost
<1>1. \A p \in Requests : req'[p] = IF p = r THEN q ELSE req[p]
  BY DEF GateInv, Types, Table, Becomes
<1>2. \A p \in Requests : p # r => Keeps(req'[p], req[p]) \/ (req'[p] = Nobody /\ ~Carries(p))
  BY <1>1, SameKeeps DEF Carries, Busy
<1>3. \A p \in Requests :
        \/ Keeps(req'[p], req[p])
        \/ /\ req'[p] = Nobody
           /\ Carries(p) => map'[req[p].newSid] # Nobody \/ req[p].newSid \in deletes' \/ map' = map
        \/ req'[p] # Nobody /\ ~Carries(p) /\ ToldOf(req'[p], metamcp')
  BY <1>1, <1>2
<1> QED BY <1>3, NothingLost

LEMMA AnswerCallLoses ==
  ASSUME GateInv, Told, NEW r \in Requests, AnswerCall(r) PROVE Told' /\ NoneLost
<1> DEFINE S == IF req[r].kind = "delete" THEN {req[r].sid} ELSE {}
<1>1. /\ Busy(r) /\ req[r].kind \notin {"get", "initialize"} /\ req[r] \in Request
      /\ RemoveBindings(S, map, [req EXCEPT ![r] = Nobody])
      /\ req[r].status = "ok" /\ metamcp' = metamcp
  BY DEF AnswerCall, Busy, GateInv, Types, Table
<1>2. ToldOf(req[r], metamcp) /\ (req[r].kind = "delete" => ~Carries(r))
  BY <1>1 DEF Told, Carries
<1>3. S \in SUBSET Sids /\ \A s \in S : metamcp[s] # "live"
  BY <1>1, <1>2 DEF ToldOf
<1>a. CASE req[r].kind # "delete"
  <2>1. S = {} /\ map \in [Sids -> Binding \cup {Nobody}] /\ req \in [Requests -> Request \cup {Nobody}]
    BY <1>a DEF GateInv, Types, Bindings, Table
  <2>2. map' = map
    BY <1>1, <2>1 DEF RemoveBindings
  <2>3. Becomes(req', r, Nobody)
    BY <1>1, <2>1 DEF RemoveBindings, DestroyStreams, Becomes
  <2> QED BY <1>1, <2>2, <2>3, OneLoses
<1>b. SUFFICES ASSUME req[r].kind = "delete" PROVE Told' /\ NoneLost
  BY <1>a
<1> HIDE DEF S
<1> PICK q, rq : q = Nobody /\ Becomes(rq, r, q) /\ q \in Request \cup {Nobody}
  BY DEF Becomes
<1>4. /\ rq \in Table /\ rq[r] = q
      /\ \A p \in Requests : Busy(p) /\ req[p].kind = "get" => rq[p] # Nobody
      /\ \A p \in Requests : p # r => rq[p] = Nobody \/ Keeps(rq[p], req[p])
      /\ \A p \in Requests : p # r /\ rq[p] = Nobody => ~Busy(p)
  BY <1>1, OthersKeep
<1>5. \A p \in Requests : rq[p] = Nobody \/ Keeps(rq[p], req[p])
  BY <1>4
<1>6. \A p \in Requests : Carries(p) /\ rq[p] = Nobody => req[p].newSid \in deletes'
  BY <1>b, <1>2, <1>4 DEF Carries
<1>7. RemoveBindings(S, map, rq)
  BY <1>1 DEF Becomes
<1> QED BY <1>1, <1>3, <1>7, <1>4, <1>5, <1>6, RemovalLoses

\* A connection that takes a new request.
LEMMA ArrivalLoses ==
  ASSUME GateInv, Told, NEW r \in Requests, ~Busy(r), NEW kind \in Kinds, NEW k \in Keys, NEW e \in Endpoints,
         NEW s \in Sids \cup {Nobody}, req' = [req EXCEPT ![r] = NewRequest(kind, k, e, s)],
         metamcp' = metamcp, \A t \in Sids : map[t] # Nobody => map'[t] # Nobody
  PROVE  Told' /\ NoneLost
<1>1. PICK q : q = NewRequest(kind, k, e, s)
  OBVIOUS
<1>2. /\ q \in Request /\ q.newSid = Nobody /\ q.status = "none"
  BY <1>1, NewIsRequest
<1>3. Becomes(req', r, q)
  BY <1>1 DEF Becomes
<1>4. q # Nobody /\ ~Carries(r) /\ ToldOf(q, metamcp')
  BY <1>2, NobodyAssumption DEF ToldOf, Carries
<1> QED BY <1>2, <1>3, <1>4, OneLoses

LEMMA ArriveInitializeLoses ==
  ASSUME GateInv, Told, NEW r \in Requests, NEW k \in Keys, NEW e \in Endpoints, ArriveInitialize(r, k, e)
  PROVE  Told' /\ NoneLost
<1>1. /\ ~Busy(r) /\ metamcp' = metamcp /\ map' = map /\ "initialize" \in Kinds /\ Nobody \in Sids \cup {Nobody}
      /\ req' = [req EXCEPT ![r] = NewRequest("initialize", k, e, Nobody)]
  BY DEF ArriveInitialize, Busy, Kinds
<1> QED BY <1>1, ArrivalLoses

LEMMA ArriveCallLoses ==
  ASSUME GateInv, Told, NEW r \in Requests, NEW k \in Keys, NEW e \in Endpoints, NEW s \in Sids,
         ArriveCall(r, "call", k, e, s) \/ ArriveCall(r, "delete", k, e, s) \/ ArriveGet(r, k, e, s)
  PROVE  Told' /\ NoneLost
<1>1. ~Busy(r) /\ metamcp' = metamcp /\ map[s] # Nobody /\ map' = [map EXCEPT ![s].idle = 0]
  BY DEF ArriveCall, ArriveGet, Busy, Bound, BoundIn
<1>2. \A t \in Sids : map[t] # Nobody => map'[t] # Nobody
  BY <1>1, Refreshed DEF SameOwners
<1>3. ASSUME NEW kind \in {"call", "delete", "get"}, req' = [req EXCEPT ![r] = NewRequest(kind, k, e, s)]
      PROVE  Told' /\ NoneLost
  <2>1. kind \in Kinds /\ s \in Sids \cup {Nobody}
    BY DEF Kinds
  <2> QED BY <1>1, <1>2, <1>3, <2>1, ArrivalLoses
<1>4. CASE req' = req
  <2>1. \A p \in Requests : Keeps(req'[p], req[p]) \/ (req'[p] = Nobody /\ ~Carries(p))
    BY <1>4, SameKeeps DEF Carries, Busy
  <2> QED BY <1>1, <1>2, <2>1, NothingLost
<1> QED BY <1>3, <1>4 DEF ArriveCall, ArriveGet

LEMMA StageLoses ==
  ASSUME GateInv, Told, NEW r \in Requests, ForwardCall(r) \/ AnswerGet(r) PROVE Told' /\ NoneLost
<1>1. /\ Busy(r) /\ req[r] \in Request /\ req[r].kind # "initialize" /\ map' = map /\ metamcp' = metamcp
      /\ \E stage \in {"sent", "open"} : req' = [req EXCEPT ![r] = [req[r] EXCEPT !.stage = stage]]
  BY BusyOne DEF ForwardCall, AnswerGet, Busy
<1>2. PICK stage \in {"sent", "open"} : req' = [req EXCEPT ![r] = [req[r] EXCEPT !.stage = stage]]
  BY <1>1
<1>3. PICK q : q = [req[r] EXCEPT !.stage = stage]
  OBVIOUS
<1>4. q \in Request /\ q.kind = req[r].kind /\ q.sid = req[r].sid /\ q.status = req[r].status /\ q.newSid = req[r].newSid
  BY <1>1, <1>3 DEF Request
<1>5. Becomes(req', r, q)
  BY <1>2, <1>3 DEF Becomes
<1>6. req[r].kind = "get" \/ req[r].kind = "delete" \/ req[r].newSid = Nobody
  <2>1. ToldOf(req[r], metamcp) /\ (req[r].kind = "get" \/ req[r].stage = "body")
    BY <1>1 DEF Told, ForwardCall, AnswerGet
  <2>2. req[r].kind \in {"call", "get", "delete"}
    BY <1>1 DEF Request, Kinds
  <2> QED BY <2>1, <2>2 DEF ToldOf
<1>7. Keeps(q, req[r])
  BY <1>1, <1>4, <1>6, NobodyAssumption DEF Keeps, Busy
<1> QED BY <1>1, <1>4, <1>5, <1>7, OneLoses

LEMMA CloseLoses == ASSUME GateInv, Told, NEW r \in Requests, Close(r) PROVE Told' /\ NoneLost
<1>1. Becomes(req', r, Nobody) /\ map' = map /\ metamcp' = metamcp /\ Nobody \in Request \cup {Nobody}
  BY DEF Close, Becomes
<1> QED BY <1>1, OneLoses

LEMMA TickLoses == ASSUME GateInv, Told, Tick PROVE Told' /\ NoneLost
<1>1. req' = req /\ metamcp' = metamcp
  BY DEF Tick
<1>2. \A p \in Requests : Keeps(req'[p], req[p]) \/ (req'[p] = Nobody /\ ~Carries(p))
  BY <1>1, SameKeeps DEF Carries, Busy
<1>3. \A s \in Sids : map[s] # Nobody => map'[s] # Nobody
  <2> SUFFICES ASSUME NEW s \in Sids, map[s] # Nobody PROVE map'[s] # Nobody
    OBVIOUS
  <2>1. map[s] \in Binding
    BY DEF GateInv, Types, Bindings
  <2>2. map'[s] = [map[s] EXCEPT !.idle = Min2(map[s].idle + 1, IdleLimit + 1), !.age = Min2(map[s].age + 1, LifetimeLimit + 1)]
    BY DEF Tick
  <2>3. /\ map[s].idle \in 0..(IdleLimit + 1) /\ map[s].age \in 0..(LifetimeLimit + 1)
    BY <2>1 DEF Binding
  <2>4. /\ Min2(map[s].idle + 1, IdleLimit + 1) \in 0..(IdleLimit + 1)
        /\ Min2(map[s].age + 1, LifetimeLimit + 1) \in 0..(LifetimeLimit + 1)
    BY <2>3, Limits DEF Min2
  <2>5. \A i \in 0..(IdleLimit + 1), a \in 0..(LifetimeLimit + 1) : [map[s] EXCEPT !.idle = i, !.age = a] \in Binding
    BY <2>1 DEF Binding
  <2> QED BY <2>2, <2>4, <2>5, NobodyAssumption
<1> QED BY <1>1, <1>2, <1>3, NothingLost

\* A DELETE of the gate: what it was for is no longer in deletes.
LEMMA MetaMcpDeletesLoses == ASSUME GateInv, Told, NEW d \in Sids, MetaMcpDeletes(d) PROVE Told' /\ NoneLost
<1>1. req' = req /\ map' = map
  BY DEF MetaMcpDeletes
<1>2. \A p \in Requests : Keeps(req'[p], req[p]) \/ (req'[p] = Nobody /\ ~Carries(p))
  BY <1>1, SameKeeps DEF Carries, Busy
<1>3. \A s \in Sids : metamcp[s] = "gone" => metamcp'[s] = "gone"
  BY DEF MetaMcpDeletes, GateInv, Types
<1> QED BY <1>1, <1>2, <1>3, NothingLost

\* What the request is once MetaMCP has answered it.
LEMMA AnswerFields ==
  ASSUME GateInv, NEW r \in Requests, Busy(r), NEW status \in {"ok", "401", "404", "500"}, NEW s \in Sids \cup {Nobody},
         Answer(r, status, s)
  PROVE  \E q \in Request : /\ Becomes(req', r, q) /\ q.kind = req[r].kind /\ q.sid = req[r].sid
                            /\ q.stage = "answered" /\ q.status = status /\ q.newSid = s
<1>1. PICK q : q = [req[r] EXCEPT !.stage = "answered", !.status = status, !.newSid = s]
  OBVIOUS
<1>2. req[r] \in Request
  BY BusyOne
<1>3. /\ q \in Request /\ q.kind = req[r].kind /\ q.sid = req[r].sid
      /\ q.stage = "answered" /\ q.status = status /\ q.newSid = s
  BY <1>1, <1>2 DEF Request
<1>4. Becomes(req', r, q)
  BY <1>1 DEF Answer, Becomes
<1> QED BY <1>3, <1>4

LEMMA MetaMcpServesLoses == ASSUME GateInv, Told, NEW r \in Requests, MetaMcpServes(r) PROVE Told' /\ NoneLost
<1>1. /\ Busy(r) /\ req[r].stage = "sent" /\ map' = map /\ req[r].sid \in Sids \cup {Nobody}
      /\ (req[r].kind # "initialize" => req[r].sid \in Sids) /\ metamcp \in [Sids -> {"unused", "live", "gone"}]
  BY DEF MetaMcpServes, Busy, GateInv, Types, Table, Request, Created
<1>2. ~Carries(r)
  BY <1>1 DEF Told, ToldOf, Carries
<1>3. ASSUME NEW status \in {"ok", "401", "404", "500"}, NEW s \in Sids \cup {Nobody}, Answer(r, status, s),
             \A t \in Sids : metamcp[t] = "gone" => metamcp'[t] = "gone",
             req[r].kind \in {"initialize", "call"} => status = "ok" \/ s = Nobody,
             req[r].kind \notin {"initialize", "call"} => s = Nobody \/ s = req[r].sid,
             status = "404" \/ (req[r].kind = "delete" /\ status = "ok") => req[r].sid \in Sids /\ metamcp'[req[r].sid] = "gone"
      PROVE  Told' /\ NoneLost
  <2>1. PICK q \in Request : /\ Becomes(req', r, q) /\ q.kind = req[r].kind /\ q.sid = req[r].sid
                             /\ q.stage = "answered" /\ q.status = status /\ q.newSid = s
    BY <1>1, <1>3, AnswerFields
  <2>2. q # Nobody /\ ToldOf(q, metamcp')
    BY <1>3, <2>1, NobodyAssumption DEF ToldOf
  <2> QED BY <1>1, <1>2, <1>3, <2>1, <2>2, OneLoses
<1>4. CASE /\ req[r].kind \in {"initialize", "call"}
           /\ \E s \in Sids : /\ metamcp[s] = "unused" /\ metamcp' = [metamcp EXCEPT ![s] = "live"]
                              /\ Answer(r, "ok", s)
  <2>1. PICK s \in Sids : /\ metamcp[s] = "unused" /\ metamcp' = [metamcp EXCEPT ![s] = "live"]
                          /\ Answer(r, "ok", s)
    BY <1>4
  <2>2. \A t \in Sids : metamcp[t] = "gone" => metamcp'[t] = "gone"
    BY <1>1, <2>1
  <2> QED BY <1>3, <1>4, <2>1, <2>2
<1>5. CASE /\ req[r].kind # "initialize" /\ Answer(r, "ok", req[r].sid)
           /\ metamcp' = IF req[r].kind = "delete" THEN [metamcp EXCEPT ![req[r].sid] = "gone"] ELSE metamcp
  <2>1. /\ \A t \in Sids : metamcp[t] = "gone" => metamcp'[t] = "gone"
        /\ req[r].kind = "delete" => metamcp'[req[r].sid] = "gone"
    BY <1>1, <1>5
  <2> QED BY <1>1, <1>3, <1>5, <2>1
<1>6. CASE req[r].kind # "initialize" /\ metamcp[req[r].sid] = "gone" /\ metamcp' = metamcp /\ Answer(r, "404", Nobody)
  BY <1>1, <1>3, <1>6
<1>7. CASE metamcp' = metamcp /\ \E status \in {"401", "500"} : Answer(r, status, Nobody)
  BY <1>3, <1>7
<1> QED BY <1>4, <1>5, <1>6, <1>7 DEF MetaMcpServes

\* bind() keeps the session of the initialize or deletes it, and deletes what makes room for it.
LEMMA AnswerInitializeLoses ==
  ASSUME GateInv, TableInv, Told, NEW r \in Requests, AnswerInitialize(r) PROVE Told' /\ NoneLost
<1> PICK s : s = req[r].newSid
  OBVIOUS
<1>1. /\ Busy(r) /\ req[r] \in Request /\ req[r].kind = "initialize" /\ req[r].status = "ok" /\ metamcp' = metamcp
  BY BusyOne DEF AnswerInitialize, Busy
<1>2. s \in Sids
  BY <1>1 DEF Request, TableInv, OkIsNew
<1> PICK q, rq : q = Nobody /\ Becomes(rq, r, q) /\ q \in Request \cup {Nobody}
  BY DEF Becomes
<1>3. /\ rq \in Table /\ rq[r] = q
      /\ \A p \in Requests : Busy(p) /\ req[p].kind = "get" => rq[p] # Nobody
      /\ \A p \in Requests : p # r => rq[p] = Nobody \/ Keeps(rq[p], req[p])
      /\ \A p \in Requests : p # r /\ rq[p] = Nobody => ~Busy(p)
  BY <1>1, OthersKeep
<1>4. \A p \in Requests : rq[p] = Nobody \/ Keeps(rq[p], req[p])
  BY <1>3
<1>5. CASE HasCapacity(req[r].key)
  <2> PICK gone : gone = SweptByCapacity \cup EvictedByBind(req[r].key)
    OBVIOUS
  <2>1. /\ map' = [x \in Sids |-> IF x = s THEN [key |-> req[r].key, endpoint |-> req[r].endpoint, idle |-> 0, age |-> 0]
                                  ELSE IF x \in gone THEN Nobody ELSE map[x]]
        /\ req' = DestroyStreams(rq, gone) /\ gone \subseteq deletes' /\ gone \in SUBSET Sids
    BY <1>5, SweptIsSids, EvictedIsSids DEF AnswerInitialize, DeleteUpstream, Becomes
  <2>2. map'[s] # Nobody
    <3>1. [key |-> req[r].key, endpoint |-> req[r].endpoint, idle |-> 0, age |-> 0] \in Binding
      BY <1>1, Limits DEF Binding, Request
    <3> QED BY <1>2, <2>1, <3>1, NobodyAssumption
  <2>3. \A t \in Sids : map[t] # Nobody => map'[t] # Nobody \/ t \in deletes'
    BY <2>1, <2>2
  <2>4. \A p \in Requests : Keeps(req'[p], req[p]) \/ (req'[p] = Nobody /\ rq[p] = Nobody)
    BY <1>3, <1>4, <2>1, ClosingKeeps
  <2>5. \A p \in Requests : Carries(p) /\ rq[p] = Nobody => map'[req[p].newSid] # Nobody
    BY <1>3, <2>2 DEF Carries
  <2>6. \A p \in Requests :
          \/ Keeps(req'[p], req[p])
          \/ /\ req'[p] = Nobody
             /\ Carries(p) => map'[req[p].newSid] # Nobody \/ req[p].newSid \in deletes' \/ map' = map
          \/ req'[p] # Nobody /\ ~Carries(p) /\ ToldOf(req'[p], metamcp')
    BY <2>4, <2>5
  <2> QED BY <1>1, <2>3, <2>6, NothingLost
<1>6. CASE ~HasCapacity(req[r].key)
  <2>1. RemoveBindings(SweptByCapacity, map, rq) /\ SweptByCapacity \subseteq deletes' /\ s \in deletes'
    BY <1>6 DEF AnswerInitialize, DeleteUpstream, Becomes
  <2>2. \A p \in Requests : Carries(p) /\ rq[p] = Nobody => req[p].newSid \in deletes'
    BY <1>3, <2>1 DEF Carries
  <2> QED BY <1>1, <1>3, <1>4, <2>1, <2>2, SweptIsSids, RemovalLoses
<1> QED BY <1>5, <1>6

LEMMA NextLoses == ASSUME GateInv, TableInv, Told, Next PROVE Told' /\ NoneLost
<1>1. CASE Progress
  BY <1>1, StageLoses, EndInitializeLoses, MetaMcpServesLoses, AnswerErrorLoses, AnswerInitializeLoses,
     AnswerCallLoses, MetaMcpDeletesLoses
  DEF Progress
<1>2. CASE \E r \in Requests, k \in Keys, e \in Endpoints : ArriveInitialize(r, k, e)
  BY <1>2, ArriveInitializeLoses
<1>3. CASE \E r \in Requests, s \in Sids : ArriveExpired(r, s)
  BY <1>3, ArriveExpiredLoses
<1>4. CASE \E r \in Requests, k \in Keys, e \in Endpoints, s \in Sids :
             ArriveCall(r, "call", k, e, s) \/ ArriveCall(r, "delete", k, e, s) \/ ArriveGet(r, k, e, s)
  BY <1>4, ArriveCallLoses
<1> QED BY <1>1, <1>2, <1>3, <1>4, CloseLoses, SweeperLoses, TickLoses DEF Next

\* The gate loses sight of a live session of MetaMCP only when its own DELETE failed, when MetaMCP rejected
\* the session's key, or when the answer that brings the session binds nothing: the client hung up first, or
\* the initialize was sent on an existing session.  Whatever is swept, given up or refused otherwise is
\* deleted there (gate.ts: onRemove, and the branches of the answer to a request).
THEOREM NoSessionIsLost == Spec => SessionsNotLeaked
<1>1. Init => Told
  BY DEF Init, Told, Busy
<1>2. GateInv /\ TableInv /\ Told /\ [Next]_vars => Told'
  <2>1. ASSUME Told, UNCHANGED vars PROVE Told'
    BY <2>1 DEF vars, Told, Busy
  <2> QED BY <2>1, NextLoses
<1>3. GateInv /\ TableInv /\ Told /\ Next => NoneLost
  BY NextLoses
<1>4. [][NoneLost]_vars => SessionsNotLeaked
  BY PTL DEF NoneLost, SessionsNotLeaked
<1> QED BY <1>1, <1>2, <1>3, <1>4, AlwaysTable, PTL DEF Spec
=============================================================================
