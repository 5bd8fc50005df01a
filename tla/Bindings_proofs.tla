-------------------------- MODULE Bindings_proofs --------------------------
(***************************************************************************)
(* Proofs about the binding table of the mcp-gate, for any sets of         *)
(* sessions, keys and endpoints and any limits.                            *)
(***************************************************************************)
EXTENDS Bindings, FiniteSetTheorems, TLAPS

Distinct(list) == \A i, j \in 1..Len(list) : list[i] = list[j] => i = j

Holds(list, x) == \E i \in 1..Len(list) : list[i] = x

----------------------------------------------------------------------------
(* Filtering one id out of a list without repetitions keeps it a list      *)
(* without repetitions that holds everything else.                         *)

LEMMA WithoutPresent ==
    ASSUME NEW S, NEW list \in Seq(S), NEW s, Distinct(list), Holds(list, s)
    PROVE  /\ Without(list, s) \in Seq(S)
           /\ Len(Without(list, s)) = Len(list) - 1
           /\ Distinct(Without(list, s))
           /\ \A x : Holds(Without(list, s), x) <=> Holds(list, x) /\ x # s
<1> DEFINE p == CHOOSE i \in 1..Len(list) : list[i] = s
           w == [i \in 1..(Len(list) - 1) |-> IF i < p THEN list[i] ELSE list[i + 1]]
           n == Len(list)
<1>1. p \in 1..n /\ list[p] = s
  BY DEF Holds
<1>2. n \in Nat /\ n >= 1 /\ \A i \in 1..n : list[i] \in S
  BY <1>1
<1>3. Without(list, s) = w
  BY DEF Without, Holds
<1> HIDE DEF p
<1>4. \A i \in 1..(n - 1) : w[i] \in S
  BY <1>1, <1>2
<1>5. w \in Seq(S) /\ Len(w) = n - 1
  <2>1. w \in [1..(n - 1) -> S] /\ n - 1 \in Nat
    BY <1>2, <1>4
  <2>2. QED
    BY <2>1
<1>6. Distinct(w)
  BY <1>1, <1>2, <1>5 DEF Distinct
<1>7. ASSUME NEW x, Holds(w, x) PROVE Holds(list, x) /\ x # s
  <2>1. PICK i \in 1..(n - 1) : w[i] = x
    BY <1>7, <1>5 DEF Holds
  <2>2. CASE i < p
    BY <2>1, <2>2, <1>1, <1>2 DEF Holds, Distinct
  <2>3. CASE ~(i < p)
    BY <2>1, <2>3, <1>1, <1>2 DEF Holds, Distinct
  <2>4. QED
    BY <2>2, <2>3
<1>8. ASSUME NEW x, Holds(list, x), x # s PROVE Holds(w, x)
  <2>1. PICK i \in 1..n : list[i] = x
    BY <1>8 DEF Holds
  <2>2. CASE i < p
    <3>1. i \in 1..(n - 1) /\ w[i] = x
      BY <2>1, <2>2, <1>1, <1>2
    <3>2. QED
      BY <3>1, <1>5 DEF Holds
  <2>3. CASE i > p
    <3>1. i - 1 \in 1..(n - 1) /\ w[i - 1] = x
      BY <2>1, <2>3, <1>1, <1>2
    <3>2. QED
      BY <3>1, <1>5 DEF Holds
  <2>4. QED
    BY <2>1, <2>2, <2>3, <1>1, <1>2, <1>8
<1>9. QED
  BY <1>3, <1>5, <1>6, <1>7, <1>8

----------------------------------------------------------------------------
(* The inductive invariant: the caps and the agreement of map and lists    *)
(* are not inductive alone.  A bind that is past its capacity check must   *)
(* still find room when its loop ends: either the table is not full or the *)
(* key has a binding of its own to give up.                                *)

\* A key's list holds exactly the key's sessions.
Listed(k) == \A s \in Sids : Holds(perKey[k], s) <=> map[s] # Nobody /\ map[s].key = k

CallInv ==
    /\ pc # "ready" => call.op \in {"sweep", "hasCapacity", "bind"}
    /\ pc \in {"room", "evict"} => call.op # "sweep"
    /\ pc = "evict" => call.op = "bind"
    /\ call.op \in {"hasCapacity", "bind"} => call.key \in Keys
    /\ call.op = "bind" => call.sid \in Sids /\ call.endpoint \in Endpoints
    /\ call.op = "bind" /\ pc # "ready" => map[call.sid] = Nobody
    /\ pc = "evict" => HasRoom \/ Len(perKey[call.key]) > 0

ListsInv == \A k \in Keys : Distinct(perKey[k]) /\ Listed(k)

IInv == TypeOK /\ CallInv /\ ListsInv /\ WithinCaps

LEMMA BoundFinite ==
    ASSUME TypeOK
    PROVE  IsFiniteSet(Bound) /\ Cardinality(Bound) \in Nat
BY BindingsAssumption, FS_Subset, FS_CardinalityType DEF Bound

\* Removing a bound id keeps both structures well-typed and in agreement, and
\* makes the table and the list of its key one shorter.
LEMMA RemoveKeeps ==
    ASSUME IInv, NEW s \in Sids, map[s] # Nobody, Remove(s)
    PROVE  /\ map' \in [Sids -> Binding \cup {Nobody}]
           /\ perKey' \in [Keys -> Seq(Sids)]
           /\ ListsInv'
           /\ WithinCaps'
           /\ Cardinality(Bound') = Cardinality(Bound) - 1
           /\ HasRoom'
           /\ \A x \in Sids : map[x] = Nobody => map'[x] = Nobody
<1> DEFINE b == map[s].key
<1>1. map[s] \in Binding /\ b \in Keys
  BY DEF IInv, TypeOK, Binding
<1>2. perKey[b] \in Seq(Sids) /\ Distinct(perKey[b]) /\ Holds(perKey[b], s)
  BY <1>1 DEF IInv, TypeOK, ListsInv, Listed
<1>3. /\ Without(perKey[b], s) \in Seq(Sids)
      /\ Len(Without(perKey[b], s)) = Len(perKey[b]) - 1
      /\ Distinct(Without(perKey[b], s))
      /\ \A x : Holds(Without(perKey[b], s), x) <=> Holds(perKey[b], x) /\ x # s
  BY <1>2, WithoutPresent
<1>4. /\ map' = [map EXCEPT ![s] = Nobody]
      /\ perKey' = [perKey EXCEPT ![b] = Without(perKey[b], s)]
  BY DEF Remove
<1>5. map' \in [Sids -> Binding \cup {Nobody}]
  BY <1>4 DEF IInv, TypeOK
<1>6. perKey' \in [Keys -> Seq(Sids)]
  BY <1>3, <1>4 DEF IInv, TypeOK
<1>7. ListsInv'
  <2> SUFFICES ASSUME NEW k \in Keys PROVE Distinct(perKey'[k]) /\ Listed(k)'
    BY DEF ListsInv
  <2>1. CASE k = b
    <3>1. perKey'[k] = Without(perKey[b], s)
      BY <2>1, <1>4 DEF IInv, TypeOK
    <3>2. ASSUME NEW x \in Sids
          PROVE Holds(perKey'[k], x) <=> map'[x] # Nobody /\ map'[x].key = k
      <4>1. Holds(perKey[b], x) <=> map[x] # Nobody /\ map[x].key = b
        BY <1>1 DEF IInv, ListsInv, Listed
      <4>2. QED
        BY <4>1, <3>1, <2>1, <1>3, <1>4 DEF IInv, TypeOK
    <3>3. QED
      BY <3>1, <3>2, <1>3 DEF Listed
  <2>2. CASE k # b
    <3>1. perKey'[k] = perKey[k]
      BY <2>2, <1>4 DEF IInv, TypeOK
    <3>2. ASSUME NEW x \in Sids
          PROVE Holds(perKey'[k], x) <=> map'[x] # Nobody /\ map'[x].key = k
      <4>1. Holds(perKey[k], x) <=> map[x] # Nobody /\ map[x].key = k
        BY DEF IInv, ListsInv, Listed
      <4>2. QED
        BY <4>1, <3>1, <2>2, <1>4 DEF IInv, TypeOK
    <3>3. QED
      BY <3>1, <3>2 DEF Listed, IInv, ListsInv
  <2>3. QED
    BY <2>1, <2>2
<1>8. Bound' = Bound \ {s} /\ s \in Bound
  BY <1>4 DEF Bound, IInv, TypeOK
<1>9. Cardinality(Bound') = Cardinality(Bound) - 1 /\ Cardinality(Bound) \in Nat
  BY <1>8, BoundFinite, FS_RemoveElement DEF IInv
<1>10. WithinCaps' /\ HasRoom'
  <2>1. Cardinality(Bound') < Max /\ Cardinality(Bound') <= Max
    BY <1>9, BindingsAssumption DEF IInv, WithinCaps
  <2>2. ASSUME NEW k \in Keys PROVE Len(perKey'[k]) <= MaxPerKey
    <3>1. perKey'[k] = IF k = b THEN Without(perKey[b], s) ELSE perKey[k]
      BY <1>4 DEF IInv, TypeOK
    <3>2. Len(perKey[k]) <= MaxPerKey /\ Len(perKey[k]) \in Nat
      BY DEF IInv, WithinCaps, TypeOK
    <3>3. QED
      BY <3>1, <3>2, <1>3, BindingsAssumption
  <2>3. QED
    BY <2>1, <2>2 DEF WithinCaps, HasRoom
<1>11. QED
  BY <1>4, <1>5, <1>6, <1>7, <1>9, <1>10 DEF IInv, TypeOK

LEMMA InitIInv == Init => IInv
<1> SUFFICES ASSUME Init PROVE IInv
  OBVIOUS
<1>1. TypeOK
  <2>1. call \in Calls
    BY DEF Init, Calls, Call, Ops
  <2>2. perKey \in [Keys -> Seq(Sids)]
    BY DEF Init
  <2>3. QED
    BY <2>1, <2>2 DEF Init, TypeOK
<1>2. CallInv
  BY DEF Init, CallInv, Call
<1>3. ListsInv
  BY DEF Init, ListsInv, Listed, Distinct, Holds
<1>4. WithinCaps
  <2>1. Bound = {}
    BY DEF Init, Bound
  <2>2. QED
    BY <2>1, FS_EmptySet, BindingsAssumption DEF Init, WithinCaps
<1>5. QED
  BY <1>1, <1>2, <1>3, <1>4 DEF IInv

\* A step that removes nothing and adds nothing keeps lists and caps.
LEMMA SameBindings ==
    ASSUME IInv, UNCHANGED perKey,
           \A s \in Sids : /\ map'[s] = Nobody <=> map[s] = Nobody
                           /\ map[s] # Nobody => map'[s].key = map[s].key
    PROVE  ListsInv' /\ WithinCaps' /\ (HasRoom' <=> HasRoom)
<1>1. Bound' = Bound
  <2>1. \A s : s \in Bound' <=> s \in Bound
    BY DEF Bound
  <2>2. QED
    BY <2>1
<1>2. WithinCaps' /\ (HasRoom' <=> HasRoom)
  BY <1>1 DEF IInv, WithinCaps, HasRoom
<1>3. ListsInv'
  BY DEF IInv, ListsInv, Listed
<1>4. QED
  BY <1>2, <1>3

LEMMA TickKeeps == IInv /\ Tick => IInv'
<1> SUFFICES ASSUME IInv, Tick PROVE IInv'
  OBVIOUS
<1>1. ASSUME NEW s \in Sids, map[s] # Nobody
      PROVE  map'[s] \in Binding /\ map'[s].key = map[s].key
  <2>1. map[s] \in Binding
    BY <1>1 DEF IInv, TypeOK
  <2>2. map'[s] = [map[s] EXCEPT !.idle = Min2(map[s].idle + 1, IdleLimit + 1),
                                 !.age = Min2(map[s].age + 1, LifetimeLimit + 1)]
    BY <1>1 DEF Tick
  <2>3. /\ Min2(map[s].idle + 1, IdleLimit + 1) \in 0..(IdleLimit + 1)
        /\ Min2(map[s].age + 1, LifetimeLimit + 1) \in 0..(LifetimeLimit + 1)
    BY <2>1, BindingsAssumption DEF Min2, Binding
  <2>4. QED
    BY <2>1, <2>2, <2>3 DEF Binding
<1>2. \A s \in Sids : map'[s] = Nobody <=> map[s] = Nobody
  BY <1>1, BindingsAssumption DEF Tick
<1>3. TypeOK'
  <2>1. map' \in [Sids -> Binding \cup {Nobody}]
    <3>1. map' = [s \in Sids |-> map'[s]]
      BY DEF Tick
    <3>2. QED
      BY <3>1, <1>1, <1>2
  <2>2. QED
    BY <2>1 DEF Tick, IInv, TypeOK, Calls, Call, Ops
<1>4. CallInv'
  BY DEF Tick, CallInv, Call, IInv
<1>5. ListsInv' /\ WithinCaps'
  BY <1>1, <1>2, SameBindings DEF Tick
<1>6. QED
  BY <1>3, <1>4, <1>5 DEF IInv

LEMMA CheckKeeps ==
    ASSUME IInv, NEW s \in Sids, NEW k \in Keys, NEW e \in Endpoints, CheckSession(s, k, e)
    PROVE  IInv'
<1>1. CASE map[s] # Nobody /\ Remove(s)
  <2>1. TypeOK'
    BY <1>1, RemoveKeeps DEF CheckSession, IInv, TypeOK, Calls, Call, Ops
  <2>2. CallInv'
    BY DEF CheckSession, CallInv, Call, IInv
  <2>3. QED
    BY <1>1, <2>1, <2>2, RemoveKeeps DEF IInv
<1>2. CASE perKey' = perKey /\ (map' = map \/ (map[s] # Nobody /\ map' = [map EXCEPT ![s].idle = 0]))
  <2>1. ASSUME NEW x \in Sids, map[x] # Nobody
        PROVE  map'[x] \in Binding /\ map'[x].key = map[x].key
    <3>1. map[x] \in Binding
      BY <2>1 DEF IInv, TypeOK
    <3>2. map'[x] = map[x] \/ map'[x] = [map[x] EXCEPT !.idle = 0]
      BY <1>2 DEF IInv, TypeOK
    <3>3. QED
      BY <3>1, <3>2, BindingsAssumption DEF Binding
  <2>2. \A x \in Sids : map'[x] = Nobody <=> map[x] = Nobody
    BY <1>2, <2>1, BindingsAssumption DEF IInv, TypeOK
  <2>3. map' \in [Sids -> Binding \cup {Nobody}]
    <3>1. map' = [x \in Sids |-> map'[x]]
      BY <1>2 DEF IInv, TypeOK
    <3>2. QED
      BY <3>1, <2>1, <2>2
  <2>4. TypeOK'
    BY <1>2, <2>3 DEF CheckSession, IInv, TypeOK, Calls, Call, Ops
  <2>5. CallInv'
    BY DEF CheckSession, CallInv, Call, IInv
  <2>6. QED
    BY <1>2, <2>1, <2>2, <2>4, <2>5, SameBindings DEF IInv
<1>3. \/ map[s] # Nobody /\ Remove(s)
      \/ /\ perKey' = perKey
         /\ \/ map' = map
            \/ map[s] # Nobody /\ map' = [map EXCEPT ![s].idle = 0]
  <2>1. CASE map[s] = Nobody
    BY <2>1 DEF CheckSession
  <2>2. CASE map[s] # Nobody /\ Expired(map[s])
    BY <2>2 DEF CheckSession
  <2>3. CASE map[s] # Nobody /\ ~Expired(map[s])
    BY <2>3 DEF CheckSession
  <2>4. QED
    BY <2>1, <2>2, <2>3
<1>4. QED
  BY <1>1, <1>2, <1>3

\* Steps that only move the running call on.
LEMMA OnlyCallChanges ==
    ASSUME IInv, UNCHANGED <<map, perKey>>
    PROVE  ListsInv' /\ WithinCaps' /\ (HasRoom' <=> HasRoom)
<1>1. /\ UNCHANGED perKey
      /\ \A s \in Sids : /\ map'[s] = Nobody <=> map[s] = Nobody
                         /\ map[s] # Nobody => map'[s].key = map[s].key
  OBVIOUS
<1>2. QED
  BY <1>1, SameBindings

LEMMA TouchKeeps ==
    ASSUME IInv, NEW s \in Sids, Touch(s)
    PROVE  IInv'
<1>1. map[s] \in Binding
  BY DEF Touch, IInv, TypeOK
<1>2. ASSUME NEW x \in Sids, map[x] # Nobody
      PROVE  map'[x] \in Binding /\ map'[x].key = map[x].key
  <2>1. map[x] \in Binding
    BY <1>2 DEF IInv, TypeOK
  <2>2. map'[x] = map[x] \/ map'[x] = [map[x] EXCEPT !.idle = 0]
    BY DEF IInv, TypeOK, Touch
  <2>3. QED
    BY <2>1, <2>2, BindingsAssumption DEF Binding
<1>3. \A x \in Sids : map'[x] = Nobody <=> map[x] = Nobody
  BY <1>1, <1>2, BindingsAssumption DEF IInv, TypeOK, Touch
<1>4. map' \in [Sids -> Binding \cup {Nobody}]
  <2>1. map' = [x \in Sids |-> map'[x]]
    BY DEF IInv, TypeOK, Touch
  <2>2. QED
    BY <2>1, <1>2, <1>3
<1>5. TypeOK'
  BY <1>4 DEF Touch, IInv, TypeOK, Calls, Call, Ops
<1>6. CallInv'
  BY DEF Touch, CallInv, Call, IInv
<1>7. QED
  BY <1>2, <1>3, <1>5, <1>6, SameBindings DEF IInv, Touch

LEMMA UnbindKeeps ==
    ASSUME IInv, NEW s \in Sids, Unbind(s)
    PROVE  IInv'
<1>1. TypeOK'
  BY RemoveKeeps DEF Unbind, IInv, TypeOK, Calls, Call, Ops
<1>2. CallInv'
  BY DEF Unbind, CallInv, Call, IInv
<1>3. QED
  BY <1>1, <1>2, RemoveKeeps DEF IInv, Unbind

LEMMA StartSweepKeeps == IInv /\ StartSweep => IInv'
<1> SUFFICES ASSUME IInv, StartSweep PROVE IInv'
  OBVIOUS
<1>1. TypeOK'
  BY DEF StartSweep, IInv, TypeOK, Calls, Call, Ops
<1>2. CallInv'
  BY DEF StartSweep, CallInv, Call, IInv
<1>3. QED
  BY <1>1, <1>2, OnlyCallChanges DEF IInv, StartSweep

LEMMA StartHasCapacityKeeps ==
    ASSUME IInv, NEW k \in Keys, StartHasCapacity(k)
    PROVE  IInv'
<1>1. TypeOK'
  BY DEF StartHasCapacity, IInv, TypeOK, Calls, Call, Ops
<1>2. CallInv'
  BY DEF StartHasCapacity, CallInv, Call, IInv
<1>3. QED
  BY <1>1, <1>2, OnlyCallChanges DEF IInv, StartHasCapacity

LEMMA StartBindKeeps ==
    ASSUME IInv, NEW s \in Sids, NEW k \in Keys, NEW e \in Endpoints, StartBind(s, k, e)
    PROVE  IInv'
<1>1. map' = map /\ perKey' = perKey /\ (HasRoom' <=> HasRoom)
  BY OnlyCallChanges DEF StartBind
<1>2. /\ call' = Call("bind", s, k, e)
      /\ \/ map[s] # Nobody /\ pc' = pc /\ pc = "ready"
         \/ map[s] = Nobody /\ pc' = IF HasRoom THEN "evict" ELSE "sweep"
  BY DEF StartBind
<1>3. TypeOK'
  BY DEF StartBind, IInv, TypeOK, Calls, Call, Ops
<1>4. CallInv'
  BY <1>1, <1>2 DEF CallInv, Call
<1>5. QED
  BY <1>3, <1>4, OnlyCallChanges DEF IInv, StartBind

LEMMA SweepOneKeeps ==
    ASSUME IInv, NEW s \in Sids, SweepOne(s)
    PROVE  IInv'
<1>1. TypeOK'
  BY RemoveKeeps DEF SweepOne, IInv, TypeOK
<1>2. CallInv'
  BY RemoveKeeps DEF SweepOne, CallInv, IInv
<1>3. QED
  BY <1>1, <1>2, RemoveKeeps DEF IInv, SweepOne

LEMMA SweepDoneKeeps == IInv /\ SweepDone => IInv'
<1> SUFFICES ASSUME IInv, SweepDone PROVE IInv'
  OBVIOUS
<1>1. TypeOK'
  BY DEF SweepDone, IInv, TypeOK
<1>2. CallInv'
  BY DEF SweepDone, CallInv, IInv
<1>3. QED
  BY <1>1, <1>2, OnlyCallChanges DEF IInv, SweepDone

LEMMA DecideKeeps == IInv /\ Decide => IInv'
<1> SUFFICES ASSUME IInv, Decide PROVE IInv'
  OBVIOUS
<1>1. \/ call.op = "bind" /\ pc' = "evict" /\ (HasRoom \/ Len(perKey[call.key]) > 0)
      \/ pc' = "ready"
  BY DEF Decide
<1>2. map' = map /\ perKey' = perKey /\ call' = call
  BY DEF Decide
<1>3. HasRoom' <=> HasRoom
  BY <1>2, OnlyCallChanges
<1>4. TypeOK'
  BY DEF Decide, IInv, TypeOK
<1>5. CallInv'
  <2>1. pc = "room"
    BY DEF Decide
  <2>2. QED
    BY <1>1, <1>2, <1>3, <2>1 DEF CallInv, IInv
<1>6. QED
  BY <1>2, <1>4, <1>5, OnlyCallChanges DEF IInv

\* The victim of an eviction is bound, and bound by the calling key.
LEMMA VictimIsOwn ==
    ASSUME IInv, EvictOne
    PROVE  /\ perKey[call.key][1] \in Sids
           /\ map[perKey[call.key][1]] # Nobody
           /\ map[perKey[call.key][1]].key = call.key
<1>1. call.key \in Keys
  BY DEF EvictOne, CallInv, IInv
<1>2. perKey[call.key] \in Seq(Sids) /\ Listed(call.key)
  BY <1>1 DEF IInv, TypeOK, ListsInv
<1>3. Len(perKey[call.key]) > 0
  BY <1>1, <1>2, BindingsAssumption DEF EvictOne, MustEvict
<1>4. perKey[call.key][1] \in Sids /\ Holds(perKey[call.key], perKey[call.key][1])
  BY <1>2, <1>3 DEF Holds
<1>5. QED
  BY <1>2, <1>4 DEF Listed

LEMMA EvictOneKeeps == IInv /\ EvictOne => IInv'
<1> SUFFICES ASSUME IInv, EvictOne PROVE IInv'
  OBVIOUS
<1> DEFINE v == perKey[call.key][1]
<1>1. v \in Sids /\ map[v] # Nobody /\ Remove(v)
  BY VictimIsOwn DEF EvictOne
<1> HIDE DEF v
<1>2. TypeOK'
  BY <1>1, RemoveKeeps DEF EvictOne, IInv, TypeOK
<1>3. CallInv'
  BY <1>1, RemoveKeeps DEF EvictOne, CallInv, IInv
<1>4. QED
  BY <1>1, <1>2, <1>3, RemoveKeeps DEF IInv

LEMMA InsertKeeps == IInv /\ Insert => IInv'
<1> SUFFICES ASSUME IInv, Insert PROVE IInv'
  OBVIOUS
<1> DEFINE c == call.sid
           k == call.key
<1>1. /\ pc = "evict" /\ call.op = "bind"
      /\ c \in Sids /\ k \in Keys /\ call.endpoint \in Endpoints
      /\ map[c] = Nobody
      /\ HasRoom \/ Len(perKey[k]) > 0
      /\ perKey[k] \in Seq(Sids)
  BY DEF Insert, CallInv, IInv, TypeOK
<1>2. /\ Len(perKey[k]) < MaxPerKey
      /\ Cardinality(Bound) < Max
  <2>1. Len(perKey[k]) \in Nat /\ Cardinality(Bound) \in Nat
    BY <1>1, BoundFinite DEF IInv
  <2>2. QED
    BY <2>1, <1>1, BindingsAssumption DEF Insert, MustEvict, HasRoom
<1>3. PICK nb \in Binding : /\ nb.key = k
                            /\ map' = [map EXCEPT ![c] = nb]
  <2>1. [key |-> k, endpoint |-> call.endpoint, idle |-> 0, age |-> 0] \in Binding
    BY <1>1, BindingsAssumption DEF Binding
  <2>2. QED
    BY <2>1 DEF Insert
<1>4. nb # Nobody
  BY BindingsAssumption
<1>5. perKey' = [perKey EXCEPT ![k] = Append(perKey[k], c)]
  BY DEF Insert
<1>6. /\ Append(perKey[k], c) \in Seq(Sids)
      /\ Len(Append(perKey[k], c)) = Len(perKey[k]) + 1
      /\ \A i \in 1..Len(perKey[k]) : Append(perKey[k], c)[i] = perKey[k][i]
      /\ Append(perKey[k], c)[Len(perKey[k]) + 1] = c
  BY <1>1
<1> HIDE DEF c, k
<1>7. TypeOK'
  <2>1. map' \in [Sids -> Binding \cup {Nobody}]
    BY <1>3 DEF IInv, TypeOK
  <2>2. perKey' \in [Keys -> Seq(Sids)]
    BY <1>5, <1>6 DEF IInv, TypeOK
  <2>3. QED
    BY <2>1, <2>2 DEF Insert, IInv, TypeOK
<1>8. CallInv'
  BY <1>1 DEF Insert, CallInv, IInv, c, k
<1>9. ~Holds(perKey[k], c)
  BY <1>1 DEF IInv, ListsInv, Listed
<1>10. ListsInv'
  <2> SUFFICES ASSUME NEW j \in Keys PROVE Distinct(perKey'[j]) /\ Listed(j)'
    BY DEF ListsInv
  <2>1. Distinct(perKey[j]) /\ Listed(j)
    BY DEF IInv, ListsInv
  <2>2. CASE j = k
    <3>1. perKey'[j] = Append(perKey[k], c)
      BY <2>2, <1>5 DEF IInv, TypeOK
    <3>2. \A x : Holds(perKey'[j], x) <=> Holds(perKey[k], x) \/ x = c
      <4>1. Len(perKey[k]) \in Nat
        BY <1>1
      <4>2. QED
        BY <4>1, <3>1, <1>6 DEF Holds
    <3>3. Distinct(perKey'[j])
      <4>1. Len(perKey[k]) \in Nat
        BY <1>1
      <4>2. QED
        BY <4>1, <3>1, <2>1, <2>2, <1>6, <1>9 DEF Distinct, Holds
    <3>4. ASSUME NEW x \in Sids
          PROVE Holds(perKey'[j], x) <=> map'[x] # Nobody /\ map'[x].key = j
      BY <3>2, <2>1, <2>2, <1>1, <1>3, <1>4 DEF Listed, IInv, TypeOK
    <3>5. QED
      BY <3>3, <3>4 DEF Listed
  <2>3. CASE j # k
    <3>1. perKey'[j] = perKey[j]
      BY <2>3, <1>5 DEF IInv, TypeOK
    <3>2. ASSUME NEW x \in Sids
          PROVE Holds(perKey'[j], x) <=> map'[x] # Nobody /\ map'[x].key = j
      BY <3>1, <2>1, <2>3, <1>1, <1>3, <1>4 DEF Listed, IInv, TypeOK
    <3>3. QED
      BY <3>1, <3>2, <2>1 DEF Listed
  <2>4. QED
    BY <2>2, <2>3
<1>11. WithinCaps'
  <2>1. Bound' = Bound \cup {c} /\ c \notin Bound
    BY <1>1, <1>3, <1>4 DEF Bound, IInv, TypeOK
  <2>2. Cardinality(Bound') = Cardinality(Bound) + 1 /\ Cardinality(Bound) \in Nat
    BY <2>1, BoundFinite, FS_AddElement DEF IInv
  <2>3. Cardinality(Bound') <= Max
    BY <2>2, <1>2, BindingsAssumption
  <2>4. ASSUME NEW j \in Keys PROVE Len(perKey'[j]) <= MaxPerKey
    <3>1. perKey'[j] = IF j = k THEN Append(perKey[k], c) ELSE perKey[j]
      BY <1>5 DEF IInv, TypeOK
    <3>2. Len(perKey[j]) <= MaxPerKey /\ Len(perKey[j]) \in Nat
      BY DEF IInv, WithinCaps, TypeOK
    <3>3. QED
      BY <3>1, <3>2, <1>2, <1>6, BindingsAssumption
  <2>5. QED
    BY <2>3, <2>4 DEF WithinCaps
<1>12. QED
  BY <1>7, <1>8, <1>10, <1>11 DEF IInv

LEMMA StutterKeeps == IInv /\ UNCHANGED vars => IInv'
<1> SUFFICES ASSUME IInv, UNCHANGED vars PROVE IInv'
  OBVIOUS
<1>1. TypeOK'
  BY DEF vars, IInv, TypeOK
<1>2. CallInv'
  BY OnlyCallChanges DEF vars, CallInv, IInv
<1>3. QED
  BY <1>1, <1>2, OnlyCallChanges DEF vars, IInv

LEMMA NextKeeps == IInv /\ [Next]_vars => IInv'
<1> SUFFICES ASSUME IInv, [Next]_vars PROVE IInv'
  OBVIOUS
<1>1. CASE Tick
  BY <1>1, TickKeeps
<1>2. CASE \E s \in Sids, k \in Keys, e \in Endpoints : CheckSession(s, k, e)
  BY <1>2, CheckKeeps
<1>3. CASE \E s \in Sids : Touch(s)
  BY <1>3, TouchKeeps
<1>4. CASE \E s \in Sids : Unbind(s)
  BY <1>4, UnbindKeeps
<1>5. CASE StartSweep
  BY <1>5, StartSweepKeeps
<1>6. CASE \E k \in Keys : StartHasCapacity(k)
  BY <1>6, StartHasCapacityKeeps
<1>7. CASE \E s \in Sids, k \in Keys, e \in Endpoints : StartBind(s, k, e)
  BY <1>7, StartBindKeeps
<1>8. CASE Step
  BY <1>8, SweepOneKeeps, SweepDoneKeeps, DecideKeeps, EvictOneKeeps, InsertKeeps DEF Step
<1>9. CASE UNCHANGED vars
  BY <1>9, StutterKeeps
<1>10. QED
  BY <1>1, <1>2, <1>3, <1>4, <1>5, <1>6, <1>7, <1>8, <1>9 DEF Next

LEMMA Inductive == Spec => []IInv
BY InitIInv, NextKeeps, PTL DEF Spec

----------------------------------------------------------------------------
(* The lists are in the order of the bindings' ages.  Ages grow together,  *)
(* so only a removal from the middle and an insertion touch the order.     *)

OrderOf(k, list, m) ==
    \A i, j \in 1..Len(list) : i < j => m[list[i]].age >= m[list[j]].age

OrderInv == \A k \in Keys : OrderOf(k, perKey[k], map)

LEMMA ListsInvIsListsMatchMap == ListsInv /\ OrderInv <=> ListsMatchMap
BY SMTT(20) DEF ListsInv, OrderInv, OrderOf, ListsMatchMap, Distinct, Listed, Holds, SidsOf, Bound

\* The ids of rest stand in list in the same order.
InOrderOf(rest, list) ==
    \A i, j \in 1..Len(rest) : i < j =>
        \E a, b \in 1..Len(list) : a < b /\ list[a] = rest[i] /\ list[b] = rest[j]

\* What remains of a list without one of its ids keeps its order.
LEMMA WithoutOrder ==
    ASSUME NEW S, NEW list \in Seq(S), NEW s, Distinct(list), Holds(list, s)
    PROVE  InOrderOf(Without(list, s), list)
<1> SUFFICES ASSUME NEW i \in 1..Len(Without(list, s)), NEW j \in 1..Len(Without(list, s)), i < j
             PROVE  \E a, b \in 1..Len(list) :
                       a < b /\ list[a] = Without(list, s)[i] /\ list[b] = Without(list, s)[j]
  BY DEF InOrderOf
<1> DEFINE p == CHOOSE x \in 1..Len(list) : list[x] = s
           n == Len(list)
<1>1. p \in 1..n /\ n \in Nat
  BY DEF Holds
<1>2. Without(list, s) = [x \in 1..(n - 1) |-> IF x < p THEN list[x] ELSE list[x + 1]]
  BY DEF Without, Holds
<1>3. Len(Without(list, s)) = n - 1
  BY WithoutPresent
<1> HIDE DEF p
<1>4. i \in 1..(n - 1) /\ j \in 1..(n - 1)
  BY <1>3
<1> DEFINE a == IF i < p THEN i ELSE i + 1
           b == IF j < p THEN j ELSE j + 1
<1>5. a \in 1..n /\ b \in 1..n /\ a < b
  BY <1>1, <1>4
<1>6. list[a] = Without(list, s)[i] /\ list[b] = Without(list, s)[j]
  BY <1>2, <1>4
<1>7. QED
  BY <1>5, <1>6

\* Every id of a list is bound.
LEMMA ListedIsBound ==
    ASSUME IInv, NEW k \in Keys, NEW i \in 1..Len(perKey[k])
    PROVE  perKey[k][i] \in Sids /\ map[perKey[k][i]] \in Binding
<1>1. perKey[k] \in Seq(Sids) /\ Listed(k)
  BY DEF IInv, TypeOK, ListsInv
<1>2. perKey[k][i] \in Sids /\ Holds(perKey[k], perKey[k][i])
  BY <1>1 DEF Holds
<1>3. QED
  BY <1>1, <1>2 DEF Listed, IInv, TypeOK

\* Steps that change no age and no list.
LEMMA SameAges ==
    ASSUME IInv, OrderInv, UNCHANGED perKey,
           \A s \in Sids : map[s] # Nobody => map'[s].age = map[s].age
    PROVE  OrderInv'
<1> SUFFICES ASSUME NEW k \in Keys, NEW i \in 1..Len(perKey[k]), NEW j \in 1..Len(perKey[k]), i < j
             PROVE  map'[perKey[k][i]].age >= map'[perKey[k][j]].age
  BY DEF OrderInv, OrderOf
<1>1. /\ perKey[k][i] \in Sids /\ map[perKey[k][i]] # Nobody
      /\ perKey[k][j] \in Sids /\ map[perKey[k][j]] # Nobody
  BY ListedIsBound, BindingsAssumption
<1>2. map[perKey[k][i]].age >= map[perKey[k][j]].age
  BY DEF OrderInv, OrderOf
<1>3. QED
  BY <1>1, <1>2

LEMMA TickOrder == IInv /\ OrderInv /\ Tick => OrderInv'
<1> SUFFICES ASSUME IInv, OrderInv, Tick, NEW k \in Keys,
                    NEW i \in 1..Len(perKey[k]), NEW j \in 1..Len(perKey[k]), i < j
             PROVE  map'[perKey[k][i]].age >= map'[perKey[k][j]].age
  BY DEF OrderInv, OrderOf, Tick
<1>1. ASSUME NEW s \in Sids, map[s] \in Binding
      PROVE  map'[s].age = Min2(map[s].age + 1, LifetimeLimit + 1) /\ map[s].age \in Nat
  <2>1. map'[s] = [map[s] EXCEPT !.idle = Min2(map[s].idle + 1, IdleLimit + 1),
                                 !.age = Min2(map[s].age + 1, LifetimeLimit + 1)]
    BY <1>1, BindingsAssumption DEF Tick
  <2>2. QED
    BY <1>1, <2>1, BindingsAssumption DEF Binding
<1>2. /\ perKey[k][i] \in Sids /\ map[perKey[k][i]] \in Binding
      /\ perKey[k][j] \in Sids /\ map[perKey[k][j]] \in Binding
  BY ListedIsBound
<1>3. map[perKey[k][i]].age >= map[perKey[k][j]].age
  BY DEF OrderInv, OrderOf
<1>4. \A x, y \in Nat : x >= y => Min2(x + 1, LifetimeLimit + 1) >= Min2(y + 1, LifetimeLimit + 1)
  BY BindingsAssumption DEF Min2
<1>5. QED
  <2> DEFINE s == perKey[k][i]
             t == perKey[k][j]
  <2>1. map'[s].age = Min2(map[s].age + 1, LifetimeLimit + 1) /\ map[s].age \in Nat
    BY <1>1, <1>2
  <2>2. map'[t].age = Min2(map[t].age + 1, LifetimeLimit + 1) /\ map[t].age \in Nat
    BY <1>1, <1>2
  <2>3. QED
    BY <2>1, <2>2, <1>3, <1>4

LEMMA RemoveOrder ==
    ASSUME IInv, OrderInv, NEW s \in Sids, map[s] # Nobody, Remove(s)
    PROVE  OrderInv'
<1> DEFINE b == map[s].key
<1>1. b \in Keys
  BY DEF IInv, TypeOK, Binding
<1>2. perKey[b] \in Seq(Sids) /\ Distinct(perKey[b]) /\ Holds(perKey[b], s)
  BY <1>1 DEF IInv, TypeOK, ListsInv, Listed
<1>3. /\ map' = [map EXCEPT ![s] = Nobody]
      /\ perKey' = [perKey EXCEPT ![b] = Without(perKey[b], s)]
  BY DEF Remove
<1>4. \A x \in Sids : x # s => map'[x] = map[x]
  BY <1>3 DEF IInv, TypeOK
<1> SUFFICES ASSUME NEW k \in Keys, NEW i \in 1..Len(perKey'[k]), NEW j \in 1..Len(perKey'[k]), i < j
             PROVE  map'[perKey'[k][i]].age >= map'[perKey'[k][j]].age
  BY DEF OrderInv, OrderOf
<1>5. PICK c \in 1..Len(perKey[k]), d \in 1..Len(perKey[k]) :
         c < d /\ perKey[k][c] = perKey'[k][i] /\ perKey[k][d] = perKey'[k][j]
  <2>1. CASE k = b
    <3>1. perKey'[k] = Without(perKey[b], s)
      BY <2>1, <1>3 DEF IInv, TypeOK
    <3>2. InOrderOf(Without(perKey[b], s), perKey[b])
      BY <1>2, WithoutOrder
    <3>3. QED
      BY <2>1, <3>1, <3>2 DEF InOrderOf
  <2>2. CASE k # b
    BY <2>2, <1>3 DEF IInv, TypeOK
  <2>3. QED
    BY <2>1, <2>2
<1>6. perKey'[k][i] # s /\ perKey'[k][j] # s
  <2>1. ListsInv' /\ map'[s] = Nobody
    BY <1>3, RemoveKeeps DEF IInv, TypeOK
  <2>2. \A x \in 1..Len(perKey'[k]) : Holds(perKey'[k], perKey'[k][x])
    BY DEF Holds
  <2>3. ~Holds(perKey'[k], s)
    BY <2>1 DEF ListsInv, Listed
  <2>4. QED
    BY <2>2, <2>3
<1>7. /\ perKey[k][c] \in Sids /\ perKey[k][d] \in Sids
      /\ map[perKey[k][c]].age >= map[perKey[k][d]].age
  BY <1>5, ListedIsBound DEF OrderInv, OrderOf
<1>8. QED
  BY <1>4, <1>5, <1>6, <1>7

LEMMA InsertOrder == IInv /\ OrderInv /\ Insert => OrderInv'
<1> SUFFICES ASSUME IInv, OrderInv, Insert PROVE OrderInv'
  OBVIOUS
<1> DEFINE c == call.sid
           h == call.key
           nb == [key |-> call.key, endpoint |-> call.endpoint, idle |-> 0, age |-> 0]
<1>1. c \in Sids /\ h \in Keys /\ map[c] = Nobody /\ perKey[h] \in Seq(Sids)
  BY DEF Insert, CallInv, IInv, TypeOK
<1>2. map' = [map EXCEPT ![c] = nb] /\ perKey' = [perKey EXCEPT ![h] = Append(perKey[h], c)]
  BY DEF Insert
<1>3. map'[c].age = 0 /\ \A x \in Sids : x # c => map'[x] = map[x]
  BY <1>1, <1>2 DEF IInv, TypeOK
<1> HIDE DEF c, h, nb
<1> SUFFICES ASSUME NEW k \in Keys, NEW i \in 1..Len(perKey'[k]), NEW j \in 1..Len(perKey'[k]), i < j
             PROVE  map'[perKey'[k][i]].age >= map'[perKey'[k][j]].age
  BY DEF OrderInv, OrderOf
<1>4. /\ perKey[k] \in Seq(Sids) /\ Len(perKey[k]) \in Nat
      /\ perKey'[k] = IF k = h THEN Append(perKey[h], c) ELSE perKey[k]
  BY <1>1, <1>2 DEF IInv, TypeOK
<1>5. \A x \in 1..Len(perKey[k]) : /\ perKey'[k][x] = perKey[k][x]
                                   /\ perKey[k][x] \in Sids /\ perKey[k][x] # c
                                   /\ map'[perKey[k][x]] = map[perKey[k][x]]
                                   /\ map[perKey[k][x]].age \in Nat
  <2> SUFFICES ASSUME NEW x \in 1..Len(perKey[k])
               PROVE  /\ perKey'[k][x] = perKey[k][x]
                      /\ perKey[k][x] \in Sids /\ perKey[k][x] # c
                      /\ map'[perKey[k][x]] = map[perKey[k][x]]
                      /\ map[perKey[k][x]].age \in Nat
    OBVIOUS
  <2>1. perKey'[k][x] = perKey[k][x]
    BY <1>4
  <2>2. perKey[k][x] \in Sids /\ map[perKey[k][x]] \in Binding
    BY ListedIsBound
  <2>3. map[perKey[k][x]].age \in Nat /\ perKey[k][x] # c
    BY <2>2, <1>1, BindingsAssumption DEF Binding
  <2>4. QED
    BY <2>1, <2>2, <2>3, <1>3
<1>6. CASE j \in 1..Len(perKey[k])
  <2>1. i \in 1..Len(perKey[k])
    BY <1>4, <1>6
  <2>2. QED
    BY <1>5, <1>6, <2>1 DEF OrderInv, OrderOf
<1>7. CASE j \notin 1..Len(perKey[k])
  <2>1. k = h /\ i \in 1..Len(perKey[k]) /\ perKey'[k][j] = c
    BY <1>4, <1>7
  <2>2. QED
    BY <2>1, <1>3, <1>5
<1>8. QED
  BY <1>6, <1>7

LEMMA NextOrder == IInv /\ OrderInv /\ [Next]_vars => OrderInv'
<1> SUFFICES ASSUME IInv, OrderInv, [Next]_vars PROVE OrderInv'
  OBVIOUS
<1>1. ASSUME NEW s \in Sids, map[s] # Nobody, map' = [map EXCEPT ![s].idle = 0], UNCHANGED perKey
      PROVE  OrderInv'
  <2>1. \A x \in Sids : map[x] # Nobody => map'[x].age = map[x].age
    BY <1>1 DEF IInv, TypeOK, Binding
  <2>2. QED
    BY <1>1, <2>1, SameAges
<1>2. ASSUME UNCHANGED <<map, perKey>> PROVE OrderInv'
  BY <1>2, SameAges
<1>3. ASSUME NEW s \in Sids, NEW k \in Keys, NEW e \in Endpoints, CheckSession(s, k, e)
      PROVE  OrderInv'
  <2>1. \/ map[s] # Nobody /\ Remove(s)
        \/ UNCHANGED <<map, perKey>>
        \/ map[s] # Nobody /\ map' = [map EXCEPT ![s].idle = 0] /\ UNCHANGED perKey
    BY <1>3 DEF CheckSession
  <2>2. QED
    BY <2>1, <1>1, <1>2, RemoveOrder
<1>4. ASSUME NEW s \in Sids, Touch(s) PROVE OrderInv'
  BY <1>4, <1>1 DEF Touch
<1>5. ASSUME NEW s \in Sids, Unbind(s) \/ SweepOne(s) PROVE OrderInv'
  BY <1>5, RemoveOrder DEF Unbind, SweepOne
<1>6. CASE EvictOne
  <2>1. PICK s \in Sids : map[s] # Nobody /\ Remove(s)
    BY <1>6, VictimIsOwn DEF EvictOne
  <2>2. QED
    BY <2>1, RemoveOrder
<1>7. CASE Tick \/ Insert
  BY <1>7, TickOrder, InsertOrder
<1>8. QED
  BY <1>2, <1>3, <1>4, <1>5, <1>6, <1>7
  DEF Next, Step, StartSweep, StartHasCapacity, StartBind, SweepDone, Decide, vars

LEMMA Ordered == Spec => []OrderInv
<1>1. Init => OrderInv
  BY DEF Init, OrderInv, OrderOf
<1>2. QED
  BY <1>1, NextOrder, Inductive, PTL DEF Spec

----------------------------------------------------------------------------
(* What bind and hasCapacity answer.  A refusal is decided after a sweep,  *)
(* when nothing that expired is left in the table.                         *)

SweptInv == pc = "room" => \A s \in Bound : ~Expired(map[s])

LEMMA DecideAnswers == IInv /\ SweptInv /\ Decide => AnswersAreTrue'
<1> SUFFICES ASSUME IInv, SweptInv, Decide PROVE AnswersAreTrue'
  OBVIOUS
<1>1. /\ pc = "room" /\ UNCHANGED <<map, perKey, call>>
      /\ call.op \in {"hasCapacity", "bind"} /\ call.key \in Keys
      /\ call.op = "bind" => call.sid \in Sids /\ map[call.sid] = Nobody
  BY DEF Decide, CallInv, IInv
<1>2. CASE ~HasRoom /\ Len(perKey[call.key]) = 0 /\ ret' = FALSE
  <2>1. Cardinality(Bound) = Max
    BY <1>2, BoundFinite, BindingsAssumption DEF HasRoom, IInv, WithinCaps
  <2>2. SidsOf(call.key) = {}
    <3>1. \A s : ~Holds(perKey[call.key], s)
      BY <1>2 DEF Holds
    <3>2. QED
      BY <3>1, <1>1 DEF SidsOf, Bound, IInv, ListsInv, Listed
  <2>3. \A s \in Bound : ~Expired(map[s])
    BY <1>1 DEF SweptInv
  <2>4. Bound' = Bound /\ SidsOf(call.key)' = SidsOf(call.key)
    BY <1>1 DEF Bound, SidsOf
  <2>5. \A s \in Bound' : ~Expired(map'[s])
    BY <2>3, <2>4, <1>1
  <2>6. call.op = "bind" => ~(map'[call'.sid] # Nobody /\ map'[call'.sid].key = call'.key)
    BY <1>1
  <2>7. QED
    BY <1>1, <1>2, <2>1, <2>2, <2>4, <2>5, <2>6 DEF AnswersAreTrue
<1>3. CASE call.op = "bind" /\ pc' = "evict"
  BY <1>3 DEF AnswersAreTrue
<1>4. CASE call.op # "bind" /\ ret' = TRUE
  BY <1>1, <1>4 DEF AnswersAreTrue
<1>5. QED
  BY <1>2, <1>3, <1>4 DEF Decide

LEMMA InsertAnswers == IInv /\ Insert => AnswersAreTrue'
<1> SUFFICES ASSUME IInv, Insert PROVE AnswersAreTrue'
  OBVIOUS
<1>1. call.sid \in Sids /\ call.key \in Keys /\ call.endpoint \in Endpoints
  BY DEF Insert, CallInv, IInv
<1> DEFINE nb == [key |-> call.key, endpoint |-> call.endpoint, idle |-> 0, age |-> 0]
<1>2. nb # Nobody /\ nb.key = call.key
  BY <1>1, BindingsAssumption DEF Binding
<1>3. map'[call.sid] = nb /\ call' = call /\ ret' = TRUE
  BY <1>1 DEF Insert, IInv, TypeOK
<1>4. QED
  BY <1>2, <1>3 DEF AnswersAreTrue

LEMMA NextAnswers ==
    IInv /\ SweptInv /\ AnswersAreTrue /\ [Next]_vars => (SweptInv /\ AnswersAreTrue)'
<1> SUFFICES ASSUME IInv, SweptInv, AnswersAreTrue, [Next]_vars PROVE (SweptInv /\ AnswersAreTrue)'
  OBVIOUS
<1>1. CASE Tick \/ StartSweep
  <2>1. pc' # "room" /\ call'.op \notin {"bind", "hasCapacity"}
    <3>1. CASE Tick
      <4>1. pc = "ready" /\ pc' = pc /\ call'.op = "tick"
        BY <3>1, Zenon DEF Tick, Call
      <4>2. QED
        BY <4>1
    <3>2. CASE StartSweep
      BY <3>2 DEF StartSweep, Call
    <3>3. QED
      BY <1>1, <3>1, <3>2
  <2>2. QED
    BY <2>1 DEF SweptInv, AnswersAreTrue
<1>2. ASSUME NEW s \in Sids, NEW k \in Keys, NEW e \in Endpoints, CheckSession(s, k, e)
      PROVE  (SweptInv /\ AnswersAreTrue)'
  BY <1>2 DEF CheckSession, Call, SweptInv, AnswersAreTrue
<1>3. ASSUME NEW s \in Sids, Touch(s) \/ Unbind(s) PROVE (SweptInv /\ AnswersAreTrue)'
  BY <1>3 DEF Touch, Unbind, Call, SweptInv, AnswersAreTrue
<1>4. ASSUME NEW k \in Keys, StartHasCapacity(k) PROVE (SweptInv /\ AnswersAreTrue)'
  BY <1>4 DEF StartHasCapacity, Call, SweptInv, AnswersAreTrue
<1>5. ASSUME NEW s \in Sids, NEW k \in Keys, NEW e \in Endpoints, StartBind(s, k, e)
      PROVE  (SweptInv /\ AnswersAreTrue)'
  BY <1>5 DEF StartBind, Call, SweptInv, AnswersAreTrue
<1>6. ASSUME NEW s \in Sids, SweepOne(s) PROVE (SweptInv /\ AnswersAreTrue)'
  BY <1>6 DEF SweepOne, SweptInv, AnswersAreTrue
<1>7. CASE SweepDone
  <2>1. Bound' = Bound /\ \A s \in Bound' : ~Expired(map'[s])
    BY <1>7 DEF SweepDone, Bound
  <2>2. QED
    BY <1>7, <2>1 DEF SweepDone, SweptInv, AnswersAreTrue
<1>8. CASE Decide
  BY <1>8, DecideAnswers DEF Decide, SweptInv
<1>9. CASE EvictOne
  BY <1>9 DEF EvictOne, SweptInv, AnswersAreTrue
<1>10. CASE Insert
  BY <1>10, InsertAnswers DEF Insert, SweptInv
<1>11. CASE UNCHANGED vars
  BY <1>11 DEF vars, SweptInv, AnswersAreTrue, Bound, SidsOf
<1>12. QED
  BY <1>1, <1>2, <1>3, <1>4, <1>5, <1>6, <1>7, <1>8, <1>9, <1>10, <1>11 DEF Next, Step

----------------------------------------------------------------------------
\* The table's variables always have their types.
THEOREM TypeCorrect == Spec => []TypeOK
<1>1. IInv => TypeOK
  BY DEF IInv
<1>2. QED
  BY <1>1, Inductive, PTL

\* #map and #perKey never disagree and every list is oldest first, for any
\* number of sessions and keys.
THEOREM ListsAlwaysMatch == Spec => []ListsMatchMap
<1>1. IInv /\ OrderInv => ListsMatchMap
  BY ListsInvIsListsMatchMap DEF IInv
<1>2. QED
  BY <1>1, Inductive, Ordered, PTL

\* The global cap and the cap per key hold, for any limits above 0.
THEOREM CapsHold == Spec => []WithinCaps
<1>1. IInv => WithinCaps
  BY DEF IInv
<1>2. QED
  BY <1>1, Inductive, PTL

\* bind and hasCapacity never answer anything the table does not bear out.
THEOREM AnswersAlwaysTrue == Spec => []AnswersAreTrue
<1>1. Init => SweptInv /\ AnswersAreTrue
  BY DEF Init, Call, SweptInv, AnswersAreTrue
<1>2. QED
  BY <1>1, NextAnswers, Inductive, PTL DEF Spec

\* No key ever pushes out another key's live session.
THEOREM OnlyForCause == Spec => RemovedForCause
<1> DEFINE A == \A s \in Bound : map'[s] = Nobody =>
                  \/ Expired(map[s])
                  \/ call'.op = "unbind" /\ call'.sid = s
                  \/ call'.op = "bind" /\ call'.key = map[s].key
<1>1. IInv /\ Next => A
  <2> SUFFICES ASSUME IInv, Next, NEW s \in Bound, map'[s] = Nobody
               PROVE  \/ Expired(map[s])
                      \/ call'.op = "unbind" /\ call'.sid = s
                      \/ call'.op = "bind" /\ call'.key = map[s].key
    OBVIOUS
  <2>1. s \in Sids /\ map[s] # Nobody /\ map[s] \in Binding
    BY DEF Bound, IInv, TypeOK
  <2>2. ASSUME NEW x \in Sids, Remove(x) PROVE s = x
    BY <2>1, <2>2 DEF Remove, IInv, TypeOK
  <2>3. CASE Tick
    <3>1. map'[s] = [map[s] EXCEPT !.idle = Min2(map[s].idle + 1, IdleLimit + 1),
                                   !.age = Min2(map[s].age + 1, LifetimeLimit + 1)]
      BY <2>1, <2>3 DEF Tick
    <3>2. map'[s] \in Binding
      <4>1. /\ Min2(map[s].idle + 1, IdleLimit + 1) \in 0..(IdleLimit + 1)
            /\ Min2(map[s].age + 1, LifetimeLimit + 1) \in 0..(LifetimeLimit + 1)
        BY <2>1, BindingsAssumption DEF Min2, Binding
      <4>2. QED
        BY <4>1, <3>1, <2>1 DEF Binding
    <3>3. QED
      BY <3>2, BindingsAssumption
  <2>4. ASSUME NEW x \in Sids, map'[s] = map[s] \/ map'[s] = [map[s] EXCEPT !.idle = 0]
        PROVE FALSE
    <3>1. [map[s] EXCEPT !.idle = 0] \in Binding
      BY <2>1, BindingsAssumption DEF Binding
    <3>2. QED
      BY <3>1, <2>1, <2>4, BindingsAssumption
  <2>5. ASSUME NEW x \in Sids, NEW k \in Keys, NEW e \in Endpoints, CheckSession(x, k, e)
        PROVE  Expired(map[s])
    <3>1. \/ Remove(x) /\ Expired(map[x])
          \/ map' = map
          \/ map' = [map EXCEPT ![x].idle = 0]
      BY <2>5 DEF CheckSession
    <3>2. QED
      BY <3>1, <2>1, <2>2, <2>4 DEF IInv, TypeOK
  <2>6. ASSUME NEW x \in Sids, Touch(x) PROVE FALSE
    BY <2>6, <2>1, <2>4 DEF Touch, IInv, TypeOK
  <2>7. ASSUME NEW x \in Sids, Unbind(x) PROVE call'.op = "unbind" /\ call'.sid = s
    BY <2>7, <2>2 DEF Unbind, Call
  <2>8. ASSUME map' = map PROVE FALSE
    BY <2>8, <2>1
  <2>9. ASSUME NEW x \in Sids, SweepOne(x) PROVE Expired(map[s])
    BY <2>9, <2>2 DEF SweepOne
  <2>10. CASE EvictOne
    BY <2>10, <2>2, VictimIsOwn DEF EvictOne, CallInv, IInv
  <2>11. CASE Insert
    <3>1. call.sid \in Sids /\ map[call.sid] = Nobody
      BY <2>11 DEF Insert, CallInv, IInv
    <3>2. map'[s] = map[s]
      BY <3>1, <2>1, <2>11 DEF Insert, IInv, TypeOK
    <3>3. QED
      BY <3>2, <2>1
  <2>12. QED
    BY <2>3, <2>5, <2>6, <2>7, <2>8, <2>9, <2>10, <2>11
    DEF Next, Step, StartSweep, StartHasCapacity, StartBind, SweepDone, Decide
<1>2. IInv /\ [Next]_vars => [A]_vars
  BY <1>1
<1>3. QED
  BY <1>2, Inductive, PTL DEF Spec, RemovedForCause

----------------------------------------------------------------------------
(* The table implements the abstract owner map: insertions are grants,     *)
(* removals are releases, everything else is invisible.                    *)

LEMMA NobodyIsNoOwner ==
    \A k \in Keys, e \in Endpoints : [key |-> k, endpoint |-> e] # Nobody
BY BindingsAssumption

LEMMA SameCardinality == \A S : Owners!Cardinality(S) = Cardinality(S)
BY DEF Owners!Cardinality, Cardinality

LEMMA OwnersFit == IInv => Owners!Fits(ownerOf)
<1> SUFFICES ASSUME IInv PROVE Owners!Fits(ownerOf)
  OBVIOUS
<1>1. \A s \in Sids : /\ ownerOf[s] = Nobody <=> map[s] = Nobody
                      /\ map[s] # Nobody => ownerOf[s].key = map[s].key
  BY NobodyIsNoOwner DEF ownerOf, IInv, TypeOK, Binding
<1>2. Owners!Owned(ownerOf) = Bound
  BY <1>1 DEF Owners!Owned, Bound
<1>3. ASSUME NEW k \in Keys
      PROVE  Cardinality(Owners!OwnedBy(ownerOf, k)) <= MaxPerKey
  <2> DEFINE l == perKey[k]
             T == Owners!OwnedBy(ownerOf, k)
  <2>1. l \in Seq(Sids) /\ Len(l) \in Nat /\ Len(l) <= MaxPerKey /\ Listed(k)
    BY DEF IInv, TypeOK, WithinCaps, ListsInv
  <2>2. \A x : x \in T <=> x \in Sids /\ Holds(l, x)
    BY <1>1, <1>2, <2>1 DEF Owners!OwnedBy, Bound, Listed
  <2>3. \A i \in 1..Len(l) : l[i] \in T
    BY <2>1, <2>2 DEF Holds
  <2>4. l \in Surjection(1..Len(l), T)
    <3>1. l \in [1..Len(l) -> T]
      BY <2>1, <2>3
    <3>2. \A x \in T : \E i \in 1..Len(l) : l[i] = x
      BY <2>2 DEF Holds
    <3>3. QED
      BY <3>1, <3>2 DEF Surjection
  <2>5. IsFiniteSet(1..Len(l)) /\ Cardinality(1..Len(l)) = Len(l)
    BY SMTT(20), <2>1, FS_Interval
  <2>6. IsFiniteSet(T) /\ Cardinality(T) <= Len(l)
    BY <2>4, <2>5, FS_Surjection
  <2>7. Cardinality(T) \in Nat
    BY <2>6, FS_CardinalityType
  <2>8. QED
    BY <2>1, <2>6, <2>7, BindingsAssumption
<1>4. QED
  BY <1>2, <1>3, SameCardinality DEF IInv, WithinCaps, Owners!Fits

\* A binding that leaves the map is a release, anything that keeps key and
\* endpoint of every session is a stutter.
LEMMA RemoveReleases ==
    ASSUME IInv, NEW s \in Sids, map[s] # Nobody, Remove(s)
    PROVE  Owners!Release(s)
<1>1. ownerOf[s] # Nobody
  BY NobodyIsNoOwner DEF ownerOf, IInv, TypeOK, Binding
<1>2. ownerOf' = [ownerOf EXCEPT ![s] = Nobody]
  BY DEF Remove, ownerOf, IInv, TypeOK
<1>3. QED
  BY <1>1, <1>2 DEF Owners!Release

LEMMA SameOwners ==
    ASSUME IInv, \A s \in Sids : /\ map'[s] = Nobody <=> map[s] = Nobody
                                 /\ map[s] # Nobody => /\ map'[s].key = map[s].key
                                                       /\ map'[s].endpoint = map[s].endpoint
    PROVE  ownerOf' = ownerOf
BY DEF ownerOf

LEMMA OwnersFitNext == IInv' => Owners!Fits(ownerOf)'
BY OwnersFit, PTL

LEMMA InsertGrants ==
    ASSUME IInv, IInv', Insert
    PROVE  Owners!Grant(call.sid, call.key, call.endpoint)
<1> DEFINE b == [key |-> call.key, endpoint |-> call.endpoint, idle |-> 0, age |-> 0]
<1>1. /\ call.sid \in Sids /\ call.key \in Keys /\ call.endpoint \in Endpoints
      /\ map[call.sid] = Nobody
  BY DEF Insert, CallInv, IInv
<1>2. b \in Binding /\ b # Nobody /\ map' = [map EXCEPT ![call.sid] = b]
  BY <1>1, BindingsAssumption DEF Insert, Binding
<1>3. b.key = call.key /\ b.endpoint = call.endpoint
  OBVIOUS
<1> HIDE DEF b
<1>4. ownerOf[call.sid] = Nobody
  BY <1>1 DEF ownerOf
<1>5. ownerOf' = [ownerOf EXCEPT ![call.sid] = [key |-> call.key, endpoint |-> call.endpoint]]
  BY <1>1, <1>2, <1>3 DEF ownerOf, IInv, TypeOK
<1>6. Owners!Fits(ownerOf')
  BY OwnersFitNext DEF Owners!Fits, Owners!Owned, Owners!OwnedBy
<1>7. QED
  BY <1>4, <1>5, <1>6 DEF Owners!Grant

LEMMA StepRefines == IInv /\ IInv' /\ [Next]_vars => [Owners!Next]_ownerOf
<1> SUFFICES ASSUME IInv, IInv', [Next]_vars PROVE Owners!Next \/ ownerOf' = ownerOf
  OBVIOUS
<1>1. ASSUME NEW s \in Sids, map[s] # Nobody, Remove(s) PROVE Owners!Next
  BY <1>1, RemoveReleases DEF Owners!Next
<1>2. ASSUME map' = map PROVE ownerOf' = ownerOf
  BY <1>2 DEF ownerOf
<1>3. ASSUME NEW s \in Sids, map[s] # Nobody, map' = [map EXCEPT ![s].idle = 0]
      PROVE  ownerOf' = ownerOf
  <2>1. ASSUME NEW x \in Sids, map[x] # Nobody
        PROVE  /\ map'[x] # Nobody
               /\ map'[x].key = map[x].key /\ map'[x].endpoint = map[x].endpoint
    <3>1. map[x] \in Binding
      BY <2>1 DEF IInv, TypeOK
    <3>2. map'[x] = map[x] \/ map'[x] = [map[x] EXCEPT !.idle = 0]
      BY <1>3 DEF IInv, TypeOK
    <3>3. [map[x] EXCEPT !.idle = 0] \in Binding
      BY <3>1, BindingsAssumption DEF Binding
    <3>4. QED
      BY <3>1, <3>2, <3>3, BindingsAssumption DEF Binding
  <2>2. \A x \in Sids : map[x] = Nobody => map'[x] = Nobody
    BY <1>3 DEF IInv, TypeOK
  <2>3. QED
    BY <2>1, <2>2, SameOwners
<1>4. CASE Tick
  <2>1. ASSUME NEW x \in Sids, map[x] # Nobody
        PROVE  /\ map'[x] # Nobody
               /\ map'[x].key = map[x].key /\ map'[x].endpoint = map[x].endpoint
    <3>1. map[x] \in Binding
      BY <2>1 DEF IInv, TypeOK
    <3>2. map'[x] = [map[x] EXCEPT !.idle = Min2(map[x].idle + 1, IdleLimit + 1),
                                   !.age = Min2(map[x].age + 1, LifetimeLimit + 1)]
      BY <2>1, <1>4 DEF Tick
    <3>3. /\ Min2(map[x].idle + 1, IdleLimit + 1) \in 0..(IdleLimit + 1)
          /\ Min2(map[x].age + 1, LifetimeLimit + 1) \in 0..(LifetimeLimit + 1)
      BY <3>1, BindingsAssumption DEF Min2, Binding
    <3>4. map'[x] \in Binding
      BY <3>1, <3>2, <3>3 DEF Binding
    <3>5. QED
      BY <3>1, <3>2, <3>4, BindingsAssumption DEF Binding
  <2>2. \A x \in Sids : map[x] = Nobody => map'[x] = Nobody
    BY <1>4 DEF Tick
  <2>3. QED
    BY <2>1, <2>2, SameOwners
<1>5. ASSUME NEW s \in Sids, NEW k \in Keys, NEW e \in Endpoints, CheckSession(s, k, e)
      PROVE  Owners!Next \/ ownerOf' = ownerOf
  <2>1. \/ map[s] # Nobody /\ Remove(s)
        \/ map' = map
        \/ map[s] # Nobody /\ map' = [map EXCEPT ![s].idle = 0]
    BY <1>5 DEF CheckSession
  <2>2. QED
    BY <2>1, <1>1, <1>2, <1>3
<1>6. ASSUME NEW s \in Sids, Touch(s) PROVE ownerOf' = ownerOf
  BY <1>6, <1>3 DEF Touch
<1>7. ASSUME NEW s \in Sids, Unbind(s) \/ SweepOne(s) PROVE Owners!Next
  BY <1>7, <1>1 DEF Unbind, SweepOne
<1>8. CASE EvictOne
  BY <1>8, <1>1, VictimIsOwn DEF EvictOne
<1>9. CASE Insert
  <2>1. Owners!Grant(call.sid, call.key, call.endpoint)
    BY <1>9, InsertGrants
  <2>2. call.sid \in Sids /\ call.key \in Keys /\ call.endpoint \in Endpoints
    BY <1>9 DEF Insert, CallInv, IInv
  <2>3. QED
    BY <2>1, <2>2 DEF Owners!Next
<1>10. QED
  BY <1>2, <1>4, <1>5, <1>6, <1>7, <1>8, <1>9
  DEF Next, Step, StartSweep, StartHasCapacity, StartBind, SweepDone, Decide, vars

\* The binding table implements the abstract owner map: one owner per
\* session, never replaced without a release, and the caps.
THEOREM TableImplementsOwners == Spec => ImplementsOwners
<1>1. Init => Owners!Init
  BY DEF Init, Owners!Init, ownerOf
<1>2. IInv /\ IInv' /\ [Next]_vars => [Owners!Next]_ownerOf
  BY StepRefines
<1>3. QED
  BY <1>1, <1>2, Inductive, PTL DEF Spec, Owners!Spec, ImplementsOwners
=============================================================================
