------------------------------ MODULE McpGate ------------------------------
(***************************************************************************)
(* The session-binding proxy in front of MetaMCP (deploy/stack/mcp-gate/   *)
(* src/gate.ts).  A request is handled in three callbacks: when its        *)
(* headers arrive (createServer handler), when its body has ended, and     *)
(* when MetaMCP answers.  Between them other requests, the sweeper and the *)
(* close events of responses run, so what the first callback checked may   *)
(* be stale in the third.                                                  *)
(*                                                                         *)
(* The binding table is used at the granularity of its calls (module       *)
(* Bindings has the loops inside them).  MetaMCP is external: it creates   *)
(* a session per initialize, answers 404 for sessions it does not know and *)
(* may answer 401 or 500 at any time.                                      *)
(***************************************************************************)
EXTENDS Naturals, Sequences, FiniteSets, FiniteSetsExt

CONSTANTS
    Requests,        \* connections, each carrying one request at a time
    Sids,            \* session ids MetaMCP can create, each at most once
    Keys, Endpoints,
    IdleLimit, LifetimeLimit, SweepInterval,   \* in ticks
    MaxBindings, MaxPerKey,                            \* caps of the binding table
    MaxStreamsPerSession, MaxStreamsPerKey,
    Nobody

\* main.ts: the limits are positive and the sweeper runs far more often
\* (60 s) than sessions idle out (1 h).
ASSUME GateAssumption ==
    /\ {IdleLimit, LifetimeLimit, SweepInterval, MaxBindings, MaxPerKey,
        MaxStreamsPerSession, MaxStreamsPerKey} \subseteq Nat \ {0}
    /\ SweepInterval <= IdleLimit

VARIABLES
    map,        \* bindings: Sids -> [key, endpoint, idle, age] or Nobody
    perKey,     \* bindings: Keys -> sequence of session ids, oldest first
    req,        \* Requests -> the request in progress
    streams,    \* Sids -> open GET responses
    keyStreams, \* streamsPerKey: Keys -> number
    metamcp,    \* external: Sids -> "unused", "live" or "gone"
    deletes,    \* DELETE requests of the gate itself, not yet answered
    sinceSweep  \* ticks since the sweeper ran

vars == <<map, perKey, req, streams, keyStreams, metamcp, deletes, sinceSweep>>

Binding == [key : Keys, endpoint : Endpoints,
            idle : 0..(IdleLimit + 1), age : 0..(LifetimeLimit + 1)]

Kinds == {"initialize", "call", "get", "delete"}

\* stage: "body" - headers accepted, body outstanding; "sent" - forwarded;
\* "answered" - MetaMCP's answer is on its way back; "open" - a GET response
\* is streaming; "closing" - the response was ended or destroyed by the gate
\* and its close event is outstanding.
Request == [stage : {"free", "body", "sent", "answered", "open", "closing"},
            kind : Kinds, key : Keys, endpoint : Endpoints, sid : Sids \cup {Nobody},
            status : {"none", "ok", "401", "404", "500"}, newSid : Sids \cup {Nobody}]

\* The absence of a binding, a session or a request is none of them; the connections are finitely many.
ASSUME NobodyAssumption ==
    /\ Nobody \notin Binding /\ Nobody \notin Sids /\ Nobody \notin Request
    /\ IsFiniteSet(Requests)

TypeOK ==
    /\ map \in [Sids -> Binding \cup {Nobody}]
    /\ perKey \in [Keys -> Seq(Sids)]
    /\ req \in [Requests -> Request \cup {Nobody}]
    /\ streams \in [Sids -> SUBSET Requests]
    /\ keyStreams \in [Keys -> Nat]
    /\ metamcp \in [Sids -> {"unused", "live", "gone"}]
    /\ deletes \subseteq Sids
    /\ sinceSweep \in 0..SweepInterval

Init ==
    /\ map = [s \in Sids |-> Nobody]
    /\ perKey = [k \in Keys |-> <<>>]
    /\ req = [r \in Requests |-> Nobody]
    /\ streams = [s \in Sids |-> {}]
    /\ keyStreams = [k \in Keys |-> 0]
    /\ metamcp = [s \in Sids |-> "unused"]
    /\ deletes = {}
    /\ sinceSweep = 0

----------------------------------------------------------------------------
(* The binding table *)

BoundIn(m) == {s \in Sids : m[s] # Nobody}

Bound == BoundIn(map)

Expired(b) == b.idle > IdleLimit \/ b.age > LifetimeLimit

ExpiredSids == {s \in Bound : Expired(map[s])}

Owns(s, k, e) == map[s] # Nobody /\ map[s].key = k /\ map[s].endpoint = e

\* A list without the sessions in S, in its order: the n-th that stays has n - 1 before it.
Without(list, S) ==
    LET stays == {i \in DOMAIN list : list[i] \notin S}
        At(n) == CHOOSE i \in stays : Cardinality({j \in stays : j <= i}) = n
    IN  [n \in 1..Cardinality(stays) |-> list[At(n)]]

\* hasCapacity sweeps a full table, and only a full one.
SweptByCapacity == IF Cardinality(Bound) < MaxBindings THEN {} ELSE ExpiredSids

HasCapacity(k) ==
    \/ Cardinality(Bound \ SweptByCapacity) < MaxBindings
    \/ Without(perKey[k], SweptByCapacity) # <<>>

\* How many of its own sessions, oldest first, a key gives up in bind.
Evictions(own, size) ==
    Min({n \in 0..Len(own) : /\ Len(own) - n < MaxPerKey
                             /\ size - n < MaxBindings \/ Len(own) = n})

EvictedByBind(k) ==
    LET own == Without(perKey[k], SweptByCapacity)
        n   == Evictions(own, Cardinality(Bound \ SweptByCapacity))
    IN  {s \in Bound : \E i \in 1..n : own[i] = s}

----------------------------------------------------------------------------
(* onRemove: streams of a removed binding are destroyed (their close events
   follow later); evicted and expired bindings are deleted in MetaMCP with the
   key that made them. *)

DestroyStreams(rq, S) ==
    [r \in Requests |-> IF \E s \in S : r \in streams[s]
                        THEN [rq[r] EXCEPT !.stage = "closing"] ELSE rq[r]]

\* Bug: the streams of a removed binding are forgotten, not destroyed.
RemoveBindings_KeepsStreams(S, m, rq) ==
    /\ map' = [s \in Sids |-> IF s \in S THEN Nobody ELSE m[s]]
    /\ perKey' = [k \in Keys |-> Without(perKey[k], S)]
    /\ streams' = [s \in Sids |-> IF s \in S THEN {} ELSE streams[s]]
    /\ req' = rq

\* The bindings in S leave the table m; rq is what the step otherwise makes of req.
RemoveBindings(S, m, rq) ==
    /\ map' = [s \in Sids |-> IF s \in S THEN Nobody ELSE m[s]]
    /\ perKey' = [k \in Keys |-> Without(perKey[k], S)]
    /\ streams' = [s \in Sids |-> IF s \in S THEN {} ELSE streams[s]]
    /\ req' = DestroyStreams(rq, S)

DeleteUpstream(S) == deletes' = deletes \cup S

----------------------------------------------------------------------------
(* Handler steps *)

NewRequest(kind, k, e, s) ==
    [stage |-> "body", kind |-> kind, key |-> k, endpoint |-> e, sid |-> s,
     status |-> "none", newSid |-> Nobody]

\* A POST without a session id: headers are accepted, the rest is decided on
\* the body.
ArriveInitialize(r, k, e) ==
    /\ req[r] = Nobody
    /\ req' = [req EXCEPT ![r] = NewRequest("initialize", k, e, Nobody)]
    /\ UNCHANGED <<map, perKey, streams, keyStreams, metamcp, deletes, sinceSweep>>

\* A request that presents an expired session: 404, and check() removes it.
ArriveExpired(r, s) ==
    /\ req[r] = Nobody
    /\ s \in ExpiredSids
    /\ RemoveBindings({s}, map, req)
    /\ DeleteUpstream({s})
    /\ UNCHANGED <<keyStreams, metamcp, sinceSweep>>

\* Bug: only the endpoint of a session is compared.
ArriveCall_AnyKey(r, kind, k, e, s) ==
    /\ req[r] = Nobody
    /\ s \in Bound \ ExpiredSids
    /\ map[s].endpoint = e
    /\ map' = [map EXCEPT ![s].idle = 0]
    /\ req' = [req EXCEPT ![r] = NewRequest(kind, k, e, s)]
    /\ UNCHANGED <<perKey, streams, keyStreams, metamcp, deletes, sinceSweep>>

\* A POST or DELETE of the owner; everyone else is answered 404 and nothing
\* changes.  check() refreshes lastSeen.
ArriveCall(r, kind, k, e, s) ==
    /\ req[r] = Nobody
    /\ s \in Bound \ ExpiredSids
    /\ Owns(s, k, e)
    /\ map' = [map EXCEPT ![s].idle = 0]
    /\ req' = [req EXCEPT ![r] = NewRequest(kind, k, e, s)]
    /\ UNCHANGED <<perKey, streams, keyStreams, metamcp, deletes, sinceSweep>>

StreamAllowed(k, s) ==
    /\ Cardinality(streams[s]) < MaxStreamsPerSession
    /\ keyStreams[k] < MaxStreamsPerKey

\* A GET of the owner: counted as a stream at once, or 429 (lastSeen is
\* refreshed either way).
ArriveGet(r, k, e, s) ==
    /\ req[r] = Nobody
    /\ s \in Bound \ ExpiredSids
    /\ Owns(s, k, e)
    /\ map' = [map EXCEPT ![s].idle = 0]
    /\ IF StreamAllowed(k, s)
       THEN /\ streams' = [streams EXCEPT ![s] = @ \cup {r}]
            /\ keyStreams' = [keyStreams EXCEPT ![k] = @ + 1]
            /\ req' = [req EXCEPT ![r] = NewRequest("get", k, e, s)]
       ELSE UNCHANGED <<streams, keyStreams, req>>
    /\ UNCHANGED <<perKey, metamcp, deletes, sinceSweep>>

\* The body of a request with a session id has ended: forward it.
ForwardCall(r) ==
    /\ req[r] # Nobody
    /\ req[r].stage = "body"
    /\ req[r].kind # "initialize"
    /\ req' = [req EXCEPT ![r].stage = "sent"]
    /\ UNCHANGED <<map, perKey, streams, keyStreams, metamcp, deletes, sinceSweep>>

\* The body of an initialize has ended: refused by the rate limit (429, any
\* time), by a full table (503, after hasCapacity swept it), or forwarded.
EndInitialize(r) ==
    /\ req[r] # Nobody
    /\ req[r].stage = "body"
    /\ req[r].kind = "initialize"
    /\ \/ /\ req' = [req EXCEPT ![r] = Nobody]
          /\ UNCHANGED <<map, perKey, streams, deletes>>
       \/ /\ RemoveBindings(SweptByCapacity, map,
                 [req EXCEPT ![r] = IF HasCapacity(req[r].key)
                                    THEN [req[r] EXCEPT !.stage = "sent"] ELSE Nobody])
          /\ DeleteUpstream(SweptByCapacity)
    /\ UNCHANGED <<keyStreams, metamcp, sinceSweep>>

----------------------------------------------------------------------------
(* MetaMCP (external) *)

Answer(r, status, s) ==
    req' = [req EXCEPT ![r].stage = "answered", ![r].status = status, ![r].newSid = s]

\* MetaMCP serves a request that reached it.  It opens a session for every initialize, also for one sent
\* on an existing session: that is a "call" to the gate (test/hardening.test.ts:25).
MetaMcpServes(r) ==
    /\ req[r] # Nobody
    /\ req[r].stage = "sent"
    /\ \/ /\ req[r].kind \in {"initialize", "call"}
          /\ \E s \in Sids : /\ metamcp[s] = "unused"
                             /\ metamcp' = [metamcp EXCEPT ![s] = "live"]
                             /\ Answer(r, "ok", s)
       \/ /\ req[r].kind # "initialize"
          /\ metamcp[req[r].sid] = "live"
          /\ metamcp' = IF req[r].kind = "delete"
                        THEN [metamcp EXCEPT ![req[r].sid] = "gone"] ELSE metamcp
          /\ Answer(r, "ok", req[r].sid)
       \/ /\ req[r].kind # "initialize"
          /\ metamcp[req[r].sid] = "gone"
          /\ Answer(r, "404", Nobody)
          /\ UNCHANGED metamcp
       \/ \E status \in {"401", "500"} : Answer(r, status, Nobody) /\ UNCHANGED metamcp
    /\ UNCHANGED <<map, perKey, streams, keyStreams, deletes, sinceSweep>>

\* A DELETE sent by the gate arrives, or is given up (error, 10 s timeout).
MetaMcpDeletes(s) ==
    /\ s \in deletes
    /\ deletes' = deletes \ {s}
    /\ metamcp' \in {metamcp, [metamcp EXCEPT ![s] = "gone"]}
    /\ UNCHANGED <<map, perKey, req, streams, keyStreams, sinceSweep>>

----------------------------------------------------------------------------
(* Answers *)

\* What becomes of a request whose answer was passed on: an ordinary one is
\* over, a stream's close event is outstanding.
Finished(q) == IF q.kind = "get" THEN [q EXCEPT !.stage = "closing"] ELSE Nobody

\* MetaMCP's answer has an error status; 401 and 404 unbind the session.
AnswerError(r) ==
    /\ req[r] # Nobody
    /\ req[r].stage = "answered"
    /\ req[r].status # "ok"
    /\ RemoveBindings(IF req[r].sid # Nobody /\ req[r].status \in {"401", "404"}
                      THEN {req[r].sid} ELSE {},
                      map, [req EXCEPT ![r] = Finished(req[r])])
    /\ UNCHANGED <<keyStreams, metamcp, deletes, sinceSweep>>

\* Bug: the capacity checked before forwarding is trusted.
AnswerInitialize_NoRecheck(r) ==
    /\ req[r] # Nobody
    /\ req[r].stage = "answered"
    /\ req[r].status = "ok"
    /\ req[r].kind = "initialize"
    /\ map' = [map EXCEPT ![req[r].newSid] = [key |-> req[r].key, endpoint |-> req[r].endpoint,
                                              idle |-> 0, age |-> 0]]
    /\ perKey' = [perKey EXCEPT ![req[r].key] = Append(@, req[r].newSid)]
    /\ req' = [req EXCEPT ![r] = Nobody]
    /\ UNCHANGED <<streams, keyStreams, metamcp, deletes, sinceSweep>>

\* An initialize succeeded: bind() decides again, the table may have filled up
\* meanwhile.  A session that cannot be bound is deleted in MetaMCP (503).
AnswerInitialize(r) ==
    /\ req[r] # Nobody
    /\ req[r].stage = "answered"
    /\ req[r].status = "ok"
    /\ req[r].kind = "initialize"
    /\ LET k == req[r].key
           s == req[r].newSid
           rest == [req EXCEPT ![r] = Nobody]
       IN  \/ /\ HasCapacity(k)
              /\ LET gone == SweptByCapacity \cup EvictedByBind(k)
                 IN  /\ map' = [x \in Sids |->
                                  IF x = s THEN [key |-> k, endpoint |-> req[r].endpoint,
                                                 idle |-> 0, age |-> 0]
                                  ELSE IF x \in gone THEN Nobody ELSE map[x]]
                     /\ perKey' = [x \in Keys |-> Without(perKey[x], gone)
                                                    \o IF x = k THEN <<s>> ELSE <<>>]
                     /\ streams' = [x \in Sids |-> IF x \in gone THEN {} ELSE streams[x]]
                     /\ req' = DestroyStreams(rest, gone)
                     /\ DeleteUpstream(gone)
           \/ /\ ~HasCapacity(k)
              /\ RemoveBindings(SweptByCapacity, map, rest)
              /\ DeleteUpstream(SweptByCapacity \cup {s})
    /\ UNCHANGED <<keyStreams, metamcp, sinceSweep>>

\* A successful call or DELETE of a session; the latter unbinds it.  The id of another session in the answer
\* is not handed out, and that is all the gate does with it.
AnswerCall(r) ==
    /\ req[r] # Nobody
    /\ req[r].stage = "answered"
    /\ req[r].status = "ok"
    /\ req[r].kind \in {"call", "delete"}
    /\ RemoveBindings(IF req[r].kind = "delete" THEN {req[r].sid} ELSE {},
                      map, [req EXCEPT ![r] = Nobody])
    /\ UNCHANGED <<keyStreams, metamcp, deletes, sinceSweep>>

\* A successful GET streams until someone closes it.
AnswerGet(r) ==
    /\ req[r] # Nobody
    /\ req[r].stage = "answered"
    /\ req[r].status = "ok"
    /\ req[r].kind = "get"
    /\ req' = [req EXCEPT ![r].stage = "open"]
    /\ UNCHANGED <<map, perKey, streams, keyStreams, metamcp, deletes, sinceSweep>>

----------------------------------------------------------------------------
(* Close events, sweeper, time *)

\* Bug: every response gives a stream back, not only a GET's.
Close_CountsEveryRequest(r) ==
    /\ req[r] # Nobody
    /\ streams' = [s \in Sids |-> streams[s] \ {r}]
    /\ keyStreams' = [keyStreams EXCEPT ![req[r].key] = @ - 1]
    /\ req' = [req EXCEPT ![r] = Nobody]
    /\ UNCHANGED <<map, perKey, metamcp, deletes, sinceSweep>>

\* The close event of a response, after the gate ended or destroyed it or
\* because the client (or the idle limit of a stream) closed it; an upstream
\* request still running is dropped.
Close(r) ==
    /\ req[r] # Nobody
    /\ LET k == req[r].key
           s == req[r].sid
       IN  IF req[r].kind = "get"
           THEN /\ streams' = [streams EXCEPT ![s] = @ \ {r}]
                /\ keyStreams' = [keyStreams EXCEPT ![k] = @ - 1]
           ELSE UNCHANGED <<streams, keyStreams>>
    /\ req' = [req EXCEPT ![r] = Nobody]
    /\ UNCHANGED <<map, perKey, metamcp, deletes, sinceSweep>>

\* Bug: streams are not counted as activity.
Touched_Not == map

\* Sessions with an open stream count as active.
Touched == [s \in Sids |-> IF streams[s] # {} /\ map[s] # Nobody
                           THEN [map[s] EXCEPT !.idle = 0] ELSE map[s]]

\* Bug: expired bindings are dropped without telling MetaMCP.
Sweeper_NoDelete ==
    /\ sinceSweep = SweepInterval
    /\ RemoveBindings({s \in BoundIn(Touched) : Expired(Touched[s])}, Touched, req)
    /\ sinceSweep' = 0
    /\ UNCHANGED <<keyStreams, metamcp, deletes>>

\* The interval timer: touch first, then sweep.
Sweeper ==
    /\ sinceSweep = SweepInterval
    /\ LET gone == {s \in BoundIn(Touched) : Expired(Touched[s])}
       IN  /\ RemoveBindings(gone, Touched, req)
           /\ DeleteUpstream(gone)
    /\ sinceSweep' = 0
    /\ UNCHANGED <<keyStreams, metamcp>>

Min2(a, b) == IF a <= b THEN a ELSE b

\* A tick; the sweeper is not late by more than it.
Tick ==
    /\ sinceSweep < SweepInterval
    /\ sinceSweep' = sinceSweep + 1
    /\ map' = [s \in Sids |->
                 IF map[s] = Nobody THEN Nobody
                 ELSE [map[s] EXCEPT !.idle = Min2(@ + 1, IdleLimit + 1),
                                     !.age = Min2(@ + 1, LifetimeLimit + 1)]]
    /\ UNCHANGED <<perKey, req, streams, keyStreams, metamcp, deletes>>

\* The callbacks that handle what has already been received.
Progress ==
    \/ \E r \in Requests :
          \/ ForwardCall(r) \/ EndInitialize(r) \/ MetaMcpServes(r)
          \/ AnswerError(r) \/ AnswerInitialize(r) \/ AnswerCall(r) \/ AnswerGet(r)
    \/ \E s \in Sids : MetaMcpDeletes(s)

Next ==
    \/ \E r \in Requests, k \in Keys, e \in Endpoints : ArriveInitialize(r, k, e)
    \/ \E r \in Requests, s \in Sids : ArriveExpired(r, s)
    \/ \E r \in Requests, k \in Keys, e \in Endpoints, s \in Sids :
          \/ ArriveCall(r, "call", k, e, s)
          \/ ArriveCall(r, "delete", k, e, s)
          \/ ArriveGet(r, k, e, s)
    \/ Progress
    \/ \E r \in Requests : Close(r)
    \/ Sweeper
    \/ Tick

Spec == Init /\ [][Next]_vars

----------------------------------------------------------------------------
(* Properties *)

Busy(r) == req[r] # Nobody

\* Streams, their bindings and their counters stay together: an open stream
\* belongs to a bound session of the same key and endpoint (by whatever path a
\* binding goes away, its streams are destroyed with it), and the counter of a
\* key is exactly the number of its streams whose close event is outstanding,
\* although streams end through removal, error answers and disconnects.  Both
\* limits hold.
StreamsFollowBindings ==
    /\ \A r \in Requests :
          Busy(r) /\ req[r].kind = "get" /\ req[r].stage # "closing" =>
              /\ r \in streams[req[r].sid]
              /\ Owns(req[r].sid, req[r].key, req[r].endpoint)
    /\ \A k \in Keys :
          /\ keyStreams[k] = Cardinality({r \in Requests :
                                 Busy(r) /\ req[r].kind = "get" /\ req[r].key = k})
          /\ keyStreams[k] <= MaxStreamsPerKey
    /\ \A s \in Sids : Cardinality(streams[s]) <= MaxStreamsPerSession

\* A request in progress was checked before its body was read; when it is
\* forwarded and answered later its session is still bound to the same key and
\* endpoint or to nobody, never to somebody else.
NoSessionChangesHands ==
    \A r \in Requests :
        Busy(r) /\ req[r].sid # Nobody /\ map[req[r].sid] # Nobody =>
            Owns(req[r].sid, req[r].key, req[r].endpoint)

\* An open stream is activity: its session never idles out, also not in the
\* sweeps a full table triggers between two runs of the sweeper.  Whatever else
\* expired is gone after the sweeper has run, though nobody presents its id.
SessionsExpireWhenIdle ==
    /\ \A s \in Bound : streams[s] # {} => map[s].idle <= IdleLimit
    /\ sinceSweep = 0 => ExpiredSids = {}

\* The table never exceeds its caps although MetaMCP's answers arrive after
\* the capacity was checked, and several at a time.
GateWithinCaps ==
    /\ Cardinality(Bound) <= MaxBindings
    /\ \A k \in Keys : Len(perKey[k]) <= MaxPerKey

\* The answer to the request brings a session of MetaMCP the gate has not seen.
Brings(r, s) == Busy(r) /\ req[r].newSid = s /\ req[r].sid # s

\* The gate still knows a MetaMCP session: it is bound, being deleted, or in
\* the answer to the initialize that created it.
Accounted(s) == s \in Bound \/ s \in deletes \/ \E r \in Requests : Brings(r, s)

\* The gate loses sight of a live MetaMCP session only when its own DELETE
\* fails, when MetaMCP rejected the session's key, and when the request that
\* brings the session ends with the table as it was: the client hung up before
\* the answer, or the initialize was sent on an existing session, whose answer
\* is passed on without the new session's id (gate.ts:256).
SessionsNotLeaked ==
    [][\A s \in Sids :
          metamcp[s] = "live" /\ Accounted(s) /\ metamcp'[s] = "live" /\ ~Accounted(s)' =>
             \/ s \in deletes
             \/ \E r \in Requests : Brings(r, s) /\ req'[r] = Nobody /\ UNCHANGED map
             \/ \E r \in Requests : /\ Busy(r) /\ req[r].stage = "answered"
                                    /\ req[r].sid = s /\ req[r].status = "401"]_vars
=============================================================================
