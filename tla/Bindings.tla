------------------------------ MODULE Bindings ------------------------------
(***************************************************************************)
(* The session table of the mcp-gate (deploy/stack/mcp-gate/src/           *)
(* bindings.ts): a map from session id to its binding and, beside it, one  *)
(* list of session ids per API key, oldest first.  Every public method     *)
(* runs to completion without yielding; its loops (the sweep over all      *)
(* bindings, the eviction loop of bind) are modelled step by step, `pc'    *)
(* naming the loop a running call is in.                                   *)
(*                                                                         *)
(* Time is kept as ages: `idle' is now - lastSeen and `age' is             *)
(* now - created, both saturating one above the limit they are compared    *)
(* with, so the model needs no bound on the clock.                         *)
(***************************************************************************)
EXTENDS Naturals, Sequences, FiniteSets

CONSTANTS
    Sids,          \* session ids MetaMCP can hand out
    Keys,          \* API key hashes
    Endpoints,     \* endpoint names
    IdleLimit,     \* opts.idleMs in ticks
    LifetimeLimit, \* opts.lifetimeMs in ticks
    Max,           \* opts.max
    MaxPerKey,     \* opts.maxPerKey
    Nobody         \* no binding

Binding == [key : Keys, endpoint : Endpoints,
            idle : 0..(IdleLimit + 1), age : 0..(LifetimeLimit + 1)]

\* main.ts reads both caps with int(), which accepts only values above 0.
ASSUME BindingsAssumption ==
    /\ IdleLimit \in Nat
    /\ LifetimeLimit \in Nat
    /\ Max \in Nat \ {0}
    /\ MaxPerKey \in Nat \ {0}
    /\ Nobody \notin Binding
    /\ Nobody \notin [key : Keys, endpoint : Endpoints]
    /\ IsFiniteSet(Sids)

VARIABLES
    map,      \* #map: Sids -> Binding or Nobody
    perKey,   \* #perKey: Keys -> sequence of session ids, <<>> when absent
    pc,       \* "ready" between calls, else the loop the running call is in
    call,     \* the running (or last) call and its arguments
    ret       \* what the last call returned

vars == <<map, perKey, pc, call, ret>>

Ops == {"none", "tick", "check", "touch", "unbind", "sweep", "hasCapacity", "bind"}

Calls == [op : Ops, sid : Sids \cup {Nobody}, key : Keys \cup {Nobody},
          endpoint : Endpoints \cup {Nobody}]

Call(op, s, k, e) == [op |-> op, sid |-> s, key |-> k, endpoint |-> e]

TypeOK ==
    /\ map \in [Sids -> Binding \cup {Nobody}]
    /\ perKey \in [Keys -> Seq(Sids)]
    /\ pc \in {"ready", "sweep", "room", "evict"}
    /\ call \in Calls
    /\ ret \in BOOLEAN

Init ==
    /\ map = [s \in Sids |-> Nobody]
    /\ perKey = [k \in Keys |-> <<>>]
    /\ pc = "ready"
    /\ call = Call("none", Nobody, Nobody, Nobody)
    /\ ret = FALSE

Bound == {s \in Sids : map[s] # Nobody}

SidsOf(k) == {s \in Bound : map[s].key = k}

Expired(b) == b.idle > IdleLimit \/ b.age > LifetimeLimit

Min2(a, b) == IF a <= b THEN a ELSE b

\* own.filter((s) => s !== sid); the lists hold no id twice (ListsMatchMap).
Without(list, s) ==
    IF \E i \in 1..Len(list) : list[i] = s
    THEN LET p == CHOOSE i \in 1..Len(list) : list[i] = s
         IN  [i \in 1..(Len(list) - 1) |-> IF i < p THEN list[i] ELSE list[i + 1]]
    ELSE list

\* #remove(sid): out of the map and out of the list of its key.
Remove(s) ==
    IF map[s] = Nobody
    THEN UNCHANGED <<map, perKey>>
    ELSE /\ map' = [map EXCEPT ![s] = Nobody]
         /\ perKey' = [perKey EXCEPT ![map[s].key] = Without(@, s)]

----------------------------------------------------------------------------
\* Time passes between calls.
Tick ==
    /\ pc = "ready"
    /\ map' = [s \in Sids |->
                 IF map[s] = Nobody THEN Nobody
                 ELSE [map[s] EXCEPT !.idle = Min2(@ + 1, IdleLimit + 1),
                                     !.age = Min2(@ + 1, LifetimeLimit + 1)]]
    /\ call' = Call("tick", Nobody, Nobody, Nobody)
    /\ UNCHANGED <<perKey, pc, ret>>

\* check(sid, keyHash, endpoint): expired bindings go, the owner's use
\* refreshes lastSeen, everyone else is refused.
CheckSession(s, k, e) ==
    /\ pc = "ready"
    /\ call' = Call("check", s, k, e)
    /\ \/ /\ map[s] = Nobody
          /\ ret' = FALSE
          /\ UNCHANGED <<map, perKey>>
       \/ /\ map[s] # Nobody
          /\ Expired(map[s])
          /\ Remove(s)
          /\ ret' = FALSE
       \/ /\ map[s] # Nobody
          /\ ~Expired(map[s])
          /\ IF map[s].key = k /\ map[s].endpoint = e
             THEN map' = [map EXCEPT ![s].idle = 0] /\ ret' = TRUE
             ELSE UNCHANGED map /\ ret' = FALSE
          /\ UNCHANGED perKey
    /\ UNCHANGED pc

\* touch(sid)
Touch(s) ==
    /\ pc = "ready"
    /\ map[s] # Nobody
    /\ map' = [map EXCEPT ![s].idle = 0]
    /\ call' = Call("touch", s, Nobody, Nobody)
    /\ UNCHANGED <<perKey, pc, ret>>

\* unbind(sid)
Unbind(s) ==
    /\ pc = "ready"
    /\ map[s] # Nobody
    /\ Remove(s)
    /\ call' = Call("unbind", s, Nobody, Nobody)
    /\ UNCHANGED <<pc, ret>>

\* sweep() called by the gate's interval timer
StartSweep ==
    /\ pc = "ready"
    /\ pc' = "sweep"
    /\ call' = Call("sweep", Nobody, Nobody, Nobody)
    /\ UNCHANGED <<map, perKey, ret>>

HasRoom == Cardinality(Bound) < Max

\* hasCapacity(keyHash) called by the gate before it forwards an initialize
StartHasCapacity(k) ==
    /\ pc = "ready"
    /\ call' = Call("hasCapacity", Nobody, k, Nobody)
    /\ IF HasRoom
       THEN ret' = TRUE /\ UNCHANGED pc
       ELSE pc' = "sweep" /\ UNCHANGED ret
    /\ UNCHANGED <<map, perKey>>

\* Bug: any key is told it owns an id that is bound already.
StartBind_TrustsKnownId(s, k, e) ==
    /\ pc = "ready"
    /\ call' = Call("bind", s, k, e)
    /\ \/ map[s] # Nobody /\ ret' = TRUE /\ UNCHANGED pc
       \/ map[s] = Nobody /\ pc' = (IF HasRoom THEN "evict" ELSE "sweep") /\ UNCHANGED ret
    /\ UNCHANGED <<map, perKey>>

\* Bug: the last caller wins instead of the first owner.
StartBind_LastWins(s, k, e) ==
    /\ pc = "ready"
    /\ call' = Call("bind", s, k, e)
    /\ pc' = IF HasRoom THEN "evict" ELSE "sweep"
    /\ UNCHANGED <<map, perKey, ret>>

\* bind(sid, keyHash, endpoint): an id that is bound already keeps its
\* owner; otherwise hasCapacity decides, sweeping first when the table is full.
StartBind(s, k, e) ==
    /\ pc = "ready"
    /\ call' = Call("bind", s, k, e)
    /\ \/ /\ map[s] # Nobody
          /\ ret' = (map[s].key = k)
          /\ UNCHANGED pc
       \/ /\ map[s] = Nobody
          /\ pc' = IF HasRoom THEN "evict" ELSE "sweep"
          /\ UNCHANGED ret
    /\ UNCHANGED <<map, perKey>>

\* One iteration of the sweep loop that finds an expired binding.
SweepOne(s) ==
    /\ pc = "sweep"
    /\ map[s] # Nobody
    /\ Expired(map[s])
    /\ Remove(s)
    /\ UNCHANGED <<pc, call, ret>>

\* The sweep is over; hasCapacity (alone or inside bind) goes on after it.
SweepDone ==
    /\ pc = "sweep"
    /\ \A s \in Bound : ~Expired(map[s])
    /\ pc' = IF call.op = "sweep" THEN "ready" ELSE "room"
    /\ UNCHANGED <<map, perKey, call, ret>>

\* The second half of hasCapacity: a full table still takes a key that can
\* give up a binding of its own.
Decide ==
    /\ pc = "room"
    /\ \/ /\ HasRoom \/ Len(perKey[call.key]) > 0
          /\ IF call.op = "bind"
             THEN pc' = "evict" /\ UNCHANGED ret
             ELSE pc' = "ready" /\ ret' = TRUE
       \/ /\ ~HasRoom
          /\ Len(perKey[call.key]) = 0
          /\ pc' = "ready"
          /\ ret' = FALSE
    /\ UNCHANGED <<map, perKey, call>>

\* Bug: off by one in the cap of a key.
MustEvict_OffByOne(k) ==
    \/ Len(perKey[k]) > MaxPerKey
    \/ Cardinality(Bound) >= Max /\ Len(perKey[k]) > 0

\* The condition that keeps the loop of bind evicting.
MustEvict(k) ==
    \/ Len(perKey[k]) >= MaxPerKey
    \/ Cardinality(Bound) >= Max /\ Len(perKey[k]) > 0

\* Bug: the victim is taken from the whole table.
EvictOne_AnyKey ==
    /\ pc = "evict"
    /\ MustEvict(call.key)
    /\ \E s \in Bound : Remove(s)
    /\ UNCHANGED <<pc, call, ret>>

\* One iteration of bind's loop: the key loses its own oldest binding.
EvictOne ==
    /\ pc = "evict"
    /\ MustEvict(call.key)
    /\ Remove(perKey[call.key][1])
    /\ UNCHANGED <<pc, call, ret>>

\* Bug: the endpoint is not stored with the binding.
Insert_NoEndpoint ==
    /\ pc = "evict"
    /\ ~MustEvict(call.key)
    /\ map' = [map EXCEPT ![call.sid] = [key |-> call.key, endpoint |-> Nobody,
                                         idle |-> 0, age |-> 0]]
    /\ perKey' = [perKey EXCEPT ![call.key] = Append(@, call.sid)]
    /\ ret' = TRUE
    /\ pc' = "ready"
    /\ UNCHANGED call

\* Bug: the newest session is put in front of the list.
Insert_InFront ==
    /\ pc = "evict"
    /\ ~MustEvict(call.key)
    /\ map' = [map EXCEPT ![call.sid] = [key |-> call.key, endpoint |-> call.endpoint,
                                         idle |-> 0, age |-> 0]]
    /\ perKey' = [perKey EXCEPT ![call.key] = <<call.sid>> \o @]
    /\ ret' = TRUE
    /\ pc' = "ready"
    /\ UNCHANGED call

\* The loop is left, the binding is made.
Insert ==
    /\ pc = "evict"
    /\ ~MustEvict(call.key)
    /\ map' = [map EXCEPT ![call.sid] = [key |-> call.key, endpoint |-> call.endpoint,
                                         idle |-> 0, age |-> 0]]
    /\ perKey' = [perKey EXCEPT ![call.key] = Append(@, call.sid)]
    /\ ret' = TRUE
    /\ pc' = "ready"
    /\ UNCHANGED call

\* The steps of a call that is running.
Step ==
    \/ \E s \in Sids : SweepOne(s)
    \/ SweepDone
    \/ Decide
    \/ EvictOne
    \/ Insert

Next ==
    \/ Tick
    \/ \E s \in Sids, k \in Keys, e \in Endpoints : CheckSession(s, k, e)
    \/ \E s \in Sids : Touch(s)
    \/ \E s \in Sids : Unbind(s)
    \/ StartSweep
    \/ \E k \in Keys : StartHasCapacity(k)
    \/ \E s \in Sids, k \in Keys, e \in Endpoints : StartBind(s, k, e)
    \/ Step

Spec == Init /\ [][Next]_vars
----------------------------------------------------------------------------
(* Properties *)

\* The two structures tell the same story after every single removal and
\* insertion: the list of a key holds exactly the ids bound to that key, each
\* once, the oldest binding first.  A divergence would make bind evict a
\* foreign, unknown or younger id, or spin in its for(;;) loop.
ListsMatchMap ==
    \A k \in Keys :
        /\ \A s \in Sids : s \in SidsOf(k) <=> \E i \in 1..Len(perKey[k]) : perKey[k][i] = s
        /\ \A i, j \in 1..Len(perKey[k]) :
              /\ perKey[k][i] = perKey[k][j] => i = j
              /\ i < j => map[perKey[k][i]].age >= map[perKey[k][j]].age

\* Neither the global cap nor the cap of a key is ever exceeded, whatever
\* interleaving of evictions, expiries and new sessions led here.
WithinCaps ==
    /\ Cardinality(Bound) <= Max
    /\ \A k \in Keys : Len(perKey[k]) <= MaxPerKey

\* What bind() and hasCapacity() answered is true: the caller's key owns the
\* session exactly when bind said so (the gate hands the id out on the strength
\* of it), and a key is refused only by a table that is full of live bindings
\* of other keys, whatever was swept before.
AnswersAreTrue ==
    pc = "ready" =>
        /\ call.op = "bind" =>
              (ret <=> map[call.sid] # Nobody /\ map[call.sid].key = call.key)
        /\ ~ret /\ (call.op = "hasCapacity" \/ (call.op = "bind" /\ map[call.sid] = Nobody)) =>
              /\ Cardinality(Bound) = Max
              /\ SidsOf(call.key) = {}
              /\ \A s \in Bound : ~Expired(map[s])

\* A binding leaves the table only because it expired, because its own
\* session was unbound, or because its own key needed the place: one key can
\* never push out another key's session.
RemovedForCause ==
    [][\A s \in Bound : map'[s] = Nobody =>
          \/ Expired(map[s])
          \/ call'.op = "unbind" /\ call'.sid = s
          \/ call'.op = "bind" /\ call'.key = map[s].key]_vars

\* The table implements the abstract owner map.
ownerOf == [s \in Sids |-> IF map[s] = Nobody THEN Nobody
                           ELSE [key |-> map[s].key, endpoint |-> map[s].endpoint]]

Owners == INSTANCE SessionOwners WITH owner <- ownerOf

ImplementsOwners == Owners!Spec
=============================================================================
