--------------------------- MODULE McpServer_proofs ---------------------------
(***************************************************************************)
(* Three theorems about the MCP server, for every number of sessions and   *)
(* calls and all limits: neither profile ever has more sessions than its   *)
(* cap, no session in which a call runs is closed for another session or   *)
(* by the timer, and readers make no more LLM calls than their budgets     *)
(* allow.                                                                  *)
(*                                                                         *)
(* The caps are not inductive without the second half of the property: the *)
(* counter "pending" is the number of the sessions that are initializing.  *)
(* With it, every step is a statement about the cardinalities of two sets  *)
(* per profile, the open sessions and the starting ones.  The pins rest on *)
(* another invariant: the counter of a session is the number of its calls, *)
(* also when it is over and an id whose session is over is used again.     *)
(* The budgets rest on a third: for every age, a window holds as many      *)
(* calls up to that age as were granted, and its entries are sorted, so    *)
(* that what is old stands at the head, where hasCapacity looks for it.    *)
(***************************************************************************)
EXTENDS McpServer, FiniteSetTheorems, SequenceTheorems, WellFoundedInduction, TLAPS

\* The inductive invariant.
CapsInv ==
  /\ phase \in [Ids -> Phases] /\ profile \in [Ids -> Profiles]
  /\ pending \in [Profiles -> Int]
  /\ SessionsWithinCaps

\* What a step must show about one profile.
Within(p) == CountFor(p) <= CapFor[p] /\ pending[p] = Cardinality(Starting(p))

-----------------------------------------------------------------------------
(* Cardinalities *)

LEMMA SetsFinite ==
  \A p \in Profiles :
    /\ IsFiniteSet(Open(p)) /\ Cardinality(Open(p)) \in Nat
    /\ IsFiniteSet(Starting(p)) /\ Cardinality(Starting(p)) \in Nat
    /\ CapFor[p] \in Nat \ {0}
<1>1. TAKE p \in Profiles
<1>2. Open(p) \subseteq Ids /\ Starting(p) \subseteq Ids
  BY DEF Open, Starting
<1>3. IsFiniteSet(Open(p)) /\ IsFiniteSet(Starting(p))
  BY <1>2, IdsFinite, FS_Subset
<1>4. CapFor[p] \in Nat \ {0}
  BY CapsArePositive
<1> QED BY <1>3, <1>4, FS_CardinalityType

\* The same for the next state, of which nothing need be known.
LEMMA NextSetsFinite ==
  \A p \in Profiles :
    /\ IsFiniteSet(Open(p)') /\ Cardinality(Open(p)') \in Nat
    /\ IsFiniteSet(Starting(p)') /\ Cardinality(Starting(p)') \in Nat
<1>1. TAKE p \in Profiles
<1>2. Open(p)' \subseteq Ids /\ Starting(p)' \subseteq Ids
  BY DEF Open, Starting
<1> QED BY <1>2, IdsFinite, FS_Subset, FS_CardinalityType

LEMMA AddOne ==
  ASSUME NEW S, IsFiniteSet(S), NEW x, x \notin S
  PROVE  Cardinality(S \cup {x}) = Cardinality(S) + 1
BY FS_AddElement

LEMMA RemoveOne ==
  ASSUME NEW S, IsFiniteSet(S), NEW x \in S
  PROVE  Cardinality(S \ {x}) = Cardinality(S) - 1
BY FS_RemoveElement

\* A profile whose two sets and whose counter stay keeps its cap.
LEMMA SameStays ==
  ASSUME NEW p \in Profiles, Within(p),
         Open(p)' \subseteq Open(p), Starting(p)' = Starting(p), pending'[p] = pending[p]
  PROVE  Within(p)'
<1>1. Cardinality(Open(p)') <= Cardinality(Open(p))
  BY SetsFinite, FS_Subset
<1>2. CountFor(p)' = pending'[p] + Cardinality(Open(p)')
  BY DEF CountFor
<1> QED BY <1>1, <1>2, SetsFinite, NextSetsFinite DEF Within, CountFor

-----------------------------------------------------------------------------
(* Steps *)

LEMMA InitCaps == Init => CapsInv
<1> SUFFICES ASSUME Init PROVE CapsInv
  OBVIOUS
<1>1. phase \in [Ids -> Phases] /\ profile \in [Ids -> Profiles] /\ pending \in [Profiles -> Int]
  BY DEF Init, Phases, Profiles
<1>2. ASSUME NEW p \in Profiles
      PROVE  CountFor(p) <= CapFor[p] /\ pending[p] = Cardinality(Starting(p))
  <2>1. Open(p) = {} /\ Starting(p) = {}
    BY DEF Open, Starting, Init
  <2>2. pending[p] = 0
    BY DEF Init
  <2> QED BY <2>1, <2>2, SetsFinite, FS_EmptySet DEF CountFor
<1> QED BY <1>1, <1>2 DEF CapsInv, SessionsWithinCaps

\* An initialize request: one session starts, in place of an old one if there is no room.
LEMMA InitializeCaps ==
  ASSUME CapsInv, NEW i \in Ids, NEW p \in Profiles, Initialize(i, p)
  PROVE  CapsInv'
<1>1. PICK gone \in SUBSET Open(p) :
        /\ Start(i, p, gone) /\ phase[i] = "unused"
        /\ \/ gone = {} /\ HasRoom(p)
           \/ \E old \in Open(p) : gone = {old}
  BY DEF Initialize, LeastRecentlyUsed, Evictable
<1>2. i \notin gone /\ i \notin Starting(p) /\ (\A q \in Profiles : i \notin Open(q) /\ i \notin Starting(q))
  BY <1>1 DEF Open, Starting
<1>3. phase' \in [Ids -> Phases] /\ profile' \in [Ids -> Profiles] /\ pending' \in [Profiles -> Int]
  BY <1>1 DEF CapsInv, Start, Closed, Phases
<1>4. Starting(p)' = Starting(p) \cup {i} /\ Open(p)' = Open(p) \ gone /\ pending'[p] = pending[p] + 1
  BY <1>1, <1>2 DEF CapsInv, Start, Closed, Starting, Open
<1>5. Within(p)'
  <2>1. Cardinality(Starting(p)') = Cardinality(Starting(p)) + 1
    BY <1>2, <1>4, SetsFinite, AddOne
  <2>2. CASE gone = {} /\ HasRoom(p)
    <3>1. Cardinality(Open(p)') = Cardinality(Open(p))
      BY <1>4, <2>2
    <3>2. CountFor(p)' = CountFor(p) + 1
      BY <1>4, <3>1, SetsFinite DEF CountFor, CapsInv, SessionsWithinCaps
    <3>3. CountFor(p) < CapFor[p] /\ CountFor(p) \in Int /\ pending[p] = Cardinality(Starting(p))
      BY <2>2, SetsFinite DEF HasRoom, CountFor, CapsInv, SessionsWithinCaps
    <3> QED BY <1>4, <2>1, <3>2, <3>3, SetsFinite DEF Within
  <2>3. CASE \E old \in Open(p) : gone = {old}
    <3>1. Cardinality(Open(p)') = Cardinality(Open(p)) - 1
      BY <1>4, <2>3, SetsFinite, RemoveOne
    <3>2. CountFor(p)' = CountFor(p)
      BY <1>4, <3>1, SetsFinite DEF CountFor, CapsInv, SessionsWithinCaps
    <3>3. CountFor(p) <= CapFor[p] /\ pending[p] = Cardinality(Starting(p))
      BY DEF CapsInv, SessionsWithinCaps
    <3> QED BY <1>4, <2>1, <3>2, <3>3 DEF Within
  <2> QED BY <1>1, <2>2, <2>3
<1>6. ASSUME NEW q \in Profiles, q # p
      PROVE  Within(q)'
  <2>1. Open(q)' \subseteq Open(q)
    BY <1>1, <1>2, <1>6 DEF CapsInv, Start, Closed, Open
  <2>2. Starting(q)' = Starting(q)
    BY <1>1, <1>2, <1>6 DEF CapsInv, Start, Closed, Open, Starting
  <2>3. pending'[q] = pending[q]
    BY <1>1, <1>6 DEF CapsInv, Start
  <2> QED BY <2>1, <2>2, <2>3, SameStays DEF CapsInv, SessionsWithinCaps, Within
<1> QED BY <1>3, <1>5, <1>6 DEF CapsInv, SessionsWithinCaps, Within

\* A session is registered: one that started is open.
LEMMA RegisteredCaps ==
  ASSUME CapsInv, NEW i \in Ids, Registered(i)
  PROVE  CapsInv'
<1>0. PICK p \in Profiles : p = profile[i]
  BY DEF CapsInv
<1>1. i \in Starting(p) /\ (\A q \in Profiles : i \notin Open(q))
  BY <1>0 DEF CapsInv, Registered, Starting, Open
<1>2. phase' \in [Ids -> Phases] /\ profile' = profile /\ pending' \in [Profiles -> Int]
  BY <1>0, <1>1 DEF CapsInv, Registered, Settled, Phases
<1>3. Starting(p)' = Starting(p) \ {i} /\ Open(p)' = Open(p) \cup {i} /\ pending'[p] = pending[p] - 1
  BY <1>0, <1>1, <1>2 DEF CapsInv, Registered, Settled, Starting, Open
<1>4. Within(p)'
  <2>1. Cardinality(Starting(p)') = Cardinality(Starting(p)) - 1
    BY <1>1, <1>3, SetsFinite, RemoveOne
  <2>2. Cardinality(Open(p)') = Cardinality(Open(p)) + 1
    BY <1>1, <1>3, SetsFinite, AddOne
  <2>3. CountFor(p) <= CapFor[p] /\ pending[p] = Cardinality(Starting(p))
    BY <1>1 DEF CapsInv, SessionsWithinCaps
  <2>4. CountFor(p)' = CountFor(p)
    BY <1>1, <1>3, <2>2, <2>3, SetsFinite DEF CountFor
  <2> QED BY <1>3, <2>1, <2>3, <2>4 DEF Within
<1>5. ASSUME NEW q \in Profiles, q # p
      PROVE  Within(q)'
  <2>1. Open(q)' = Open(q) /\ Starting(q)' = Starting(q) /\ pending'[q] = pending[q]
    BY <1>0, <1>1, <1>2, <1>5 DEF CapsInv, Registered, Settled, Open, Starting
  <2> QED BY <2>1, SameStays DEF CapsInv, SessionsWithinCaps, Within
<1> QED BY <1>2, <1>4, <1>5 DEF CapsInv, SessionsWithinCaps, Within

\* A session is not registered: it counts no longer.
LEMMA NotRegisteredCaps ==
  ASSUME CapsInv, NEW i \in Ids, NotRegistered(i)
  PROVE  CapsInv'
<1>0. PICK p \in Profiles : p = profile[i]
  BY DEF CapsInv
<1>1. i \in Starting(p) /\ (\A q \in Profiles : i \notin Open(q))
  BY <1>0 DEF CapsInv, NotRegistered, Starting, Open
<1>2. phase' \in [Ids -> Phases] /\ profile' = profile /\ pending' \in [Profiles -> Int]
  BY <1>0, <1>1 DEF CapsInv, NotRegistered, Released, Closed, Phases
<1>3. Starting(p)' = Starting(p) \ {i} /\ Open(p)' = Open(p) /\ pending'[p] = pending[p] - 1
  BY <1>0, <1>1, <1>2 DEF CapsInv, NotRegistered, Released, Closed, Starting, Open
<1>4. Within(p)'
  <2>1. Cardinality(Starting(p)') = Cardinality(Starting(p)) - 1
    BY <1>1, <1>3, SetsFinite, RemoveOne
  <2>2. CountFor(p) <= CapFor[p] /\ pending[p] = Cardinality(Starting(p))
    BY <1>1 DEF CapsInv, SessionsWithinCaps
  <2>3. CountFor(p)' = CountFor(p) - 1 /\ CountFor(p) \in Int
    BY <1>1, <1>3, <2>2, SetsFinite DEF CountFor
  <2> QED BY <1>1, <1>3, <2>1, <2>2, <2>3, SetsFinite DEF Within
<1>5. ASSUME NEW q \in Profiles, q # p
      PROVE  Within(q)'
  <2>1. Open(q)' = Open(q) /\ Starting(q)' = Starting(q) /\ pending'[q] = pending[q]
    BY <1>0, <1>1, <1>2, <1>5 DEF CapsInv, NotRegistered, Released, Closed, Open, Starting
  <2> QED BY <2>1, SameStays DEF CapsInv, SessionsWithinCaps, Within
<1> QED BY <1>2, <1>4, <1>5 DEF CapsInv, SessionsWithinCaps, Within

\* Open sessions are closed, by the timer or by their client.
LEMMA ClosedCaps ==
  ASSUME CapsInv, NEW gone \in SUBSET {i \in Ids : phase[i] = "open"},
         phase' = Closed(gone), profile' = profile, pending' = pending
  PROVE  CapsInv'
<1>1. phase' \in [Ids -> Phases]
  BY DEF CapsInv, Closed, Phases
<1>2. ASSUME NEW q \in Profiles
      PROVE  Within(q)'
  <2>1. Open(q)' \subseteq Open(q) /\ Starting(q)' = Starting(q) /\ pending'[q] = pending[q]
    BY DEF CapsInv, Closed, Open, Starting
  <2> QED BY <2>1, SameStays DEF CapsInv, SessionsWithinCaps, Within
<1> QED BY <1>1, <1>2 DEF CapsInv, SessionsWithinCaps, Within

\* An id becomes free for the next session.
LEMMA ReuseCaps ==
  ASSUME CapsInv, NEW i \in Ids, Reuse(i)
  PROVE  CapsInv'
<1>1. phase' \in [Ids -> Phases] /\ profile' \in [Ids -> Profiles] /\ pending' = pending
  BY DEF CapsInv, Reuse, Phases, Profiles
<1>2. ASSUME NEW q \in Profiles
      PROVE  Within(q)'
  <2>1. Open(q)' = Open(q) /\ Starting(q)' = Starting(q) /\ pending'[q] = pending[q]
    BY <1>1 DEF CapsInv, Reuse, Open, Starting
  <2> QED BY <2>1, SameStays DEF CapsInv, SessionsWithinCaps, Within
<1> QED BY <1>1, <1>2 DEF CapsInv, SessionsWithinCaps, Within

\* Everything else leaves sessions and counter alone.
LEMMA UnchangedCaps ==
  ASSUME CapsInv, UNCHANGED <<phase, profile, pending>>
  PROVE  CapsInv'
BY DEF CapsInv, SessionsWithinCaps, CountFor, Open, Starting

LEMMA StepCaps == CapsInv /\ [Next]_vars => CapsInv'
<1> SUFFICES ASSUME CapsInv, [Next]_vars PROVE CapsInv'
  OBVIOUS
<1>1. CASE \E i \in Ids, p \in Profiles : Initialize(i, p)
  BY <1>1, InitializeCaps
<1>2. CASE \E i \in Ids : Registered(i)
  BY <1>2, RegisteredCaps
<1>3. CASE \E i \in Ids : NotRegistered(i)
  BY <1>3, NotRegisteredCaps
<1>4. CASE \E i \in Ids : Reuse(i)
  BY <1>4, ReuseCaps
<1>5. CASE Sweep
  <2>1. Idle \in SUBSET {i \in Ids : phase[i] = "open"}
    BY DEF Idle
  <2>2. phase' = Closed(Idle) /\ profile' = profile /\ pending' = pending
    BY <1>5 DEF Sweep
  <2> QED BY <2>1, <2>2, ClosedCaps
<1>6. CASE \E c \in Calls : Delete(c)
  <2>1. PICK c \in Calls : Delete(c)
    BY <1>6
  <2>2. phase' = Closed({call[c]} \cap {i \in Ids : phase[i] = "open"}) /\ profile' = profile /\ pending' = pending
    BY <2>1 DEF Delete, Closed
  <2> QED BY <2>2, ClosedCaps
<1>7. CASE \/ Tick
           \/ \E i \in Ids : Stream(i)
           \/ \E c \in Calls : CallEnds(c) \/ LlmCall(c) \/ \E i \in Ids : Call(c, i)
  <2>1. UNCHANGED <<phase, profile, pending>>
    BY <1>7 DEF Tick, Stream, CallEnds, LlmCall, Call
  <2> QED BY <2>1, UnchangedCaps
<1>8. CASE UNCHANGED vars
  BY <1>8, UnchangedCaps DEF vars
<1> QED BY <1>1, <1>2, <1>3, <1>4, <1>5, <1>6, <1>7, <1>8 DEF Next

-----------------------------------------------------------------------------
\* Neither profile has more sessions than its cap, those that are initializing included, and the
\* counter of the initializing ones is their number: in every behaviour of the MCP server, whatever
\* fails, is evicted, swept or closed.
THEOREM CapsAlwaysHold == Spec => []SessionsWithinCaps
<1>1. CapsInv => SessionsWithinCaps
  BY DEF CapsInv
<1> QED BY <1>1, InitCaps, StepCaps, PTL DEF Spec

-----------------------------------------------------------------------------
(* Pins *)

\* The inductive invariant: a session's counter is the number of its calls, and there is no call
\* in a session before it is open.
PinsInv ==
  /\ phase \in [Ids -> Phases] /\ profile \in [Ids -> Profiles]
  /\ inFlight \in [Ids -> Int] /\ call \in [Calls -> Ids \cup {NoSession}]
  /\ \A i \in Ids : /\ inFlight[i] = Cardinality(CallsOf(i))
                    /\ phase[i] \in {"unused", "starting"} => CallsOf(i) = {}

LEMMA CallsOfFinite == \A i \in Ids : IsFiniteSet(CallsOf(i)) /\ Cardinality(CallsOf(i)) \in Nat
<1>1. TAKE i \in Ids
<1>2. CallsOf(i) \subseteq Calls
  BY DEF CallsOf
<1> QED BY <1>2, CallsFinite, FS_Subset, FS_CardinalityType

LEMMA InitPins == Init => PinsInv
<1> SUFFICES ASSUME Init PROVE PinsInv
  OBVIOUS
<1>1. \A i \in Ids : CallsOf(i) = {}
  BY NoSessionIsNoId DEF Init, CallsOf
<1>2. \A i \in Ids : inFlight[i] = Cardinality(CallsOf(i))
  <2>1. Cardinality({}) = 0
    BY FS_EmptySet
  <2> QED BY <1>1, <2>1 DEF Init
<1>3. /\ phase \in [Ids -> Phases] /\ profile \in [Ids -> Profiles]
      /\ inFlight \in [Ids -> Int] /\ call \in [Calls -> Ids \cup {NoSession}]
  BY DEF Init, Phases, Profiles
<1> QED BY <1>1, <1>2, <1>3 DEF PinsInv

\* Sessions start and end; no call does.
LEMMA PhasePins ==
  ASSUME PinsInv, UNCHANGED <<inFlight, call>>,
         phase' \in [Ids -> Phases], profile' \in [Ids -> Profiles],
         \A i \in Ids : phase'[i] \in {"unused", "starting"} => phase[i] \in {"unused", "starting"} \/ CallsOf(i) = {}
  PROVE  PinsInv'
<1>1. \A i \in Ids : CallsOf(i)' = CallsOf(i)
  BY DEF CallsOf
<1> QED BY <1>1 DEF PinsInv

\* A session opens, or an id becomes free: its counter starts anew, and there is no call to count.
LEMMA ResetPins ==
  ASSUME PinsInv, NEW i \in Ids, CallsOf(i) = {}, call' = call,
         inFlight' = [inFlight EXCEPT ![i] = 0],
         phase' \in [Ids -> Phases], profile' \in [Ids -> Profiles],
         \A j \in Ids : j # i => phase'[j] = phase[j]
  PROVE  PinsInv'
<1>1. \A j \in Ids : CallsOf(j)' = CallsOf(j)
  BY DEF CallsOf
<1>2. inFlight' \in [Ids -> Int]
  BY DEF PinsInv
<1>3. inFlight'[i] = 0 /\ \A j \in Ids : j # i => inFlight'[j] = inFlight[j]
  BY DEF PinsInv
<1>4. Cardinality(CallsOf(i)) = 0
  BY FS_EmptySet
<1> QED BY <1>1, <1>2, <1>3, <1>4 DEF PinsInv

LEMMA CallPins ==
  ASSUME PinsInv, NEW c \in Calls, NEW i \in Ids, Call(c, i)
  PROVE  PinsInv'
<1>1. c \notin CallsOf(i) /\ CallsOf(i)' = CallsOf(i) \cup {c}
  BY NoSessionIsNoId DEF PinsInv, Call, CallsOf
<1>2. \A j \in Ids : j # i => CallsOf(j)' = CallsOf(j)
  BY NoSessionIsNoId DEF PinsInv, Call, CallsOf
<1>3. Cardinality(CallsOf(i)') = Cardinality(CallsOf(i)) + 1
  BY <1>1, CallsOfFinite, AddOne
<1>4. /\ inFlight' \in [Ids -> Int] /\ call' \in [Calls -> Ids \cup {NoSession}]
      /\ inFlight'[i] = inFlight[i] + 1 /\ \A j \in Ids : j # i => inFlight'[j] = inFlight[j]
  BY DEF PinsInv, Call
<1>5. phase' = phase /\ profile' = profile /\ phase[i] = "open"
  BY DEF Call
<1> QED BY <1>1, <1>2, <1>3, <1>4, <1>5 DEF PinsInv

LEMMA CallEndsPins ==
  ASSUME PinsInv, NEW c \in Calls, CallEnds(c)
  PROVE  PinsInv'
<1>0. PICK i \in Ids : i = call[c]
  BY DEF PinsInv, CallEnds
<1>1. c \in CallsOf(i) /\ CallsOf(i)' = CallsOf(i) \ {c}
  BY <1>0, NoSessionIsNoId DEF PinsInv, CallEnds, CallsOf
<1>2. \A j \in Ids : j # i => CallsOf(j)' = CallsOf(j)
  BY <1>0, NoSessionIsNoId DEF PinsInv, CallEnds, CallsOf
<1>3. Cardinality(CallsOf(i)') = Cardinality(CallsOf(i)) - 1
  BY <1>1, CallsOfFinite, RemoveOne
<1>4. /\ inFlight' \in [Ids -> Int] /\ call' \in [Calls -> Ids \cup {NoSession}]
      /\ inFlight'[i] = inFlight[i] - 1 /\ \A j \in Ids : j # i => inFlight'[j] = inFlight[j]
  BY <1>0 DEF PinsInv, CallEnds
<1>5. phase' = phase /\ profile' = profile
  BY DEF CallEnds
<1> QED BY <1>1, <1>2, <1>3, <1>4, <1>5 DEF PinsInv

LEMMA StepPins == PinsInv /\ [Next]_vars => PinsInv'
<1> SUFFICES ASSUME PinsInv, [Next]_vars PROVE PinsInv'
  OBVIOUS
<1>1. CASE \E i \in Ids, p \in Profiles : Initialize(i, p)
  <2>1. PICK i \in Ids, p \in Profiles : Initialize(i, p)
    BY <1>1
  <2>2. PICK gone \in SUBSET Ids : Start(i, p, gone) /\ phase[i] = "unused" /\ UNCHANGED <<inFlight, call>>
    BY <2>1 DEF Initialize, LeastRecentlyUsed, Evictable, Open
  <2> QED BY <2>2, PhasePins DEF PinsInv, Start, Closed, Phases
<1>2. CASE \E i \in Ids : Registered(i)
  <2>1. PICK i \in Ids : Registered(i)
    BY <1>2
  <2>2. CallsOf(i) = {}
    BY <2>1 DEF PinsInv, Registered
  <2> QED BY <2>1, <2>2, ResetPins DEF PinsInv, Registered, Phases
<1>3. CASE \E i \in Ids : NotRegistered(i)
  BY <1>3, PhasePins DEF PinsInv, NotRegistered, Closed, Phases
<1>4. CASE \E i \in Ids : Reuse(i)
  <2>1. PICK i \in Ids : Reuse(i)
    BY <1>4
  <2>2. CallsOf(i) = {}
    BY <2>1 DEF CallsOf, Reuse
  <2> QED BY <2>1, <2>2, ResetPins DEF PinsInv, Reuse, Phases, Profiles
<1>5. CASE Sweep
  BY <1>5, PhasePins DEF PinsInv, Sweep, Closed, Phases
<1>6. CASE \E c \in Calls : Delete(c)
  BY <1>6, PhasePins DEF PinsInv, Delete, Closed, Phases
<1>7. CASE \E c \in Calls, i \in Ids : Call(c, i)
  BY <1>7, CallPins
<1>8. CASE \E c \in Calls : CallEnds(c)
  BY <1>8, CallEndsPins
<1>9. CASE \/ Tick \/ UNCHANGED vars
           \/ \E i \in Ids : Stream(i)
           \/ \E c \in Calls : LlmCall(c)
  <2>1. UNCHANGED <<phase, profile, inFlight, call>>
    BY <1>9 DEF Tick, Stream, LlmCall, vars
  <2> QED BY <2>1, PhasePins DEF PinsInv
<1> QED BY <1>1, <1>2, <1>3, <1>4, <1>5, <1>6, <1>7, <1>8, <1>9 DEF Next

\* A session without a call in flight has none.
LEMMA UnpinnedHasNoCall ==
  ASSUME PinsInv, NEW i \in Ids, inFlight[i] = 0
  PROVE  CallsOf(i) = {}
<1>1. Cardinality(CallsOf(i)) = 0
  BY DEF PinsInv
<1> QED BY <1>1, CallsOfFinite, FS_EmptySet

LEMMA StepClosesForCause ==
  PinsInv /\ [Next]_vars
    => [\A i \in Ids : phase[i] = "open" /\ phase'[i] # "open" => ClosedForCause(i)]_vars
<1> SUFFICES ASSUME PinsInv, Next, NEW i \in Ids, phase[i] = "open", phase'[i] # "open"
             PROVE  ClosedForCause(i)
  OBVIOUS
<1>1. CASE \E j \in Ids, p \in Profiles : Initialize(j, p)
  <2>1. PICK j \in Ids, p \in Profiles : Initialize(j, p)
    BY <1>1
  <2>2. PICK gone \in SUBSET Evictable(p) : Start(j, p, gone) /\ phase[j] = "unused"
    BY <2>1 DEF Initialize, LeastRecentlyUsed
  <2>3. i \in gone
    BY <2>2 DEF Start, Closed, PinsInv
  <2>4. inFlight[i] = 0 /\ profile[i] = p
    BY <2>2, <2>3 DEF Evictable, Open
  <2>5. phase'[j] = "starting" /\ profile'[j] = profile[i]
    BY <2>2, <2>4 DEF Start, Closed, PinsInv
  <2> QED BY <2>2, <2>4, <2>5, UnpinnedHasNoCall DEF ClosedForCause
<1>2. CASE Sweep
  <2>1. i \in Idle
    BY <1>2 DEF Sweep, Closed
  <2>2. inFlight[i] = 0 /\ seen[i] > IdleMs
    BY <2>1 DEF Idle
  <2> QED BY <2>2, UnpinnedHasNoCall DEF ClosedForCause
<1>3. CASE \E c \in Calls : Delete(c)
  <2>1. PICK c \in Calls : Delete(c)
    BY <1>3
  <2>2. call[c] = i
    BY <2>1 DEF Delete, Closed
  <2> QED BY <2>1, <2>2 DEF ClosedForCause
<1>4. CASE \E j \in Ids : Registered(j) \/ NotRegistered(j) \/ Reuse(j)
  <2>1. PICK j \in Ids : Registered(j) \/ NotRegistered(j) \/ Reuse(j)
    BY <1>4
  <2>2. phase[j] # "open" /\ \A k \in Ids : k # j => phase'[k] = phase[k]
    BY <2>1 DEF Registered, NotRegistered, Reuse, Closed, PinsInv
  <2> QED BY <2>2
<1>5. CASE \/ Tick
           \/ \E j \in Ids : Stream(j)
           \/ \E c \in Calls : CallEnds(c) \/ LlmCall(c) \/ \E j \in Ids : Call(c, j)
  BY <1>5 DEF Tick, Stream, CallEnds, LlmCall, Call
<1> QED BY <1>1, <1>2, <1>3, <1>4, <1>5 DEF Next

\* A session in which a call runs is closed by its own client alone; one without calls also by the
\* timer when it is idle, or by an initialize request of its own profile.
THEOREM PinnedAlwaysStay == Spec => PinnedSessionsStay
BY InitPins, StepPins, StepClosesForCause, PTL DEF Spec, PinnedSessionsStay

-----------------------------------------------------------------------------
(* Windows *)

\* Windows hold ages, the oldest first.
Sorted(w) == \A j, k \in 1..Len(w) : j <= k => w[j] >= w[k]

\* The places of the calls that are not older than a.
UpTo(w, a) == {k \in 1..Len(w) : w[k] <= a}

LEMMA UpToFinite ==
  ASSUME NEW w \in Seq(Nat), NEW a \in Nat
  PROVE  IsFiniteSet(UpTo(w, a)) /\ Cardinality(UpTo(w, a)) \in Nat /\ UpTo(w, a) \in SUBSET Nat
<1>1. Len(w) \in Nat
  BY LenProperties
<1>2. UpTo(w, a) \in SUBSET (1..Len(w)) /\ IsFiniteSet(1..Len(w))
  BY <1>1, FS_Interval DEF UpTo
<1> QED BY <1>1, <1>2, FS_Subset, FS_CardinalityType

\* A set of places that is moved is as large as before.
LEMMA MovedSet ==
  ASSUME NEW A \in SUBSET Int, IsFiniteSet(A), NEW B \in SUBSET Int, NEW n \in Int,
         \A k \in Int : k \in B <=> k + n \in A
  PROVE  IsFiniteSet(B) /\ Cardinality(B) = Cardinality(A)
<1> DEFINE f == [k \in A |-> k - n]
<1>1. f \in [A -> B]
  OBVIOUS
<1>2. \A j, k \in A : f[j] = f[k] => j = k
  OBVIOUS
<1>3. \A k \in B : \E j \in A : f[j] = k
  OBVIOUS
<1> HIDE DEF f
<1>4. f \in Bijection(A, B)
  BY <1>1, <1>2, <1>3 DEF Bijection, Injection, Surjection, IsInjective
<1>5. ExistsBijection(A, B)
  BY <1>4 DEF ExistsBijection
<1> QED BY <1>5, FS_Bijection

LEMMA LeastNat ==
  ASSUME NEW T \in SUBSET Nat, T # {}
  PROVE  \E x \in T : \A y \in T : x <= y
<1>1. IsWellFoundedOn(OpToRel(<, Nat), Nat)
  BY NatLessThanWellFounded
<1>2. PICK R : R = OpToRel(<, Nat)
  OBVIOUS
<1>3. \A x, y \in Nat : x < y => <<x, y>> \in R
  BY <1>2, Zenon DEF OpToRel
<1>4. PICK x \in T : \A y \in T : ~(<<y, x>> \in R)
  BY <1>1, <1>2, WFMin, Zenon
<1>5. \A y \in T : ~(y < x)
  BY <1>3, <1>4
<1> QED BY <1>5

\* What is old at the head of a window is all that is old in it.
LEMMA OldAtHead ==
  ASSUME NEW w \in Seq(Nat), Sorted(w)
  PROVE  /\ Shifted(w) \in 0..Len(w)
         /\ \A k \in 1..Len(w) : w[k] < WindowMs <=> k > Shifted(w)
<1>1. Len(w) \in Nat /\ w \in [1..Len(w) -> Nat]
  BY LenProperties
<1> DEFINE T == {n \in 0..Len(w) : n < Len(w) => w[n + 1] < WindowMs}
<1>2. T \in SUBSET Nat /\ Len(w) \in T
  BY <1>1
<1>3. PICK n \in T : \A m \in T : n <= m
  BY <1>2, LeastNat
<1>4. ASSUME NEW k \in 1..n PROVE w[k] >= WindowMs
  <2>0. k \in Nat /\ n \in 0..Len(w) /\ k <= n /\ k > 0
    BY <1>1
  <2>1. k - 1 \in 0..Len(w) /\ k - 1 < Len(w) /\ ~(n <= k - 1)
    BY <1>1, <2>0
  <2>2. k - 1 \notin T
    BY <1>3, <2>1
  <2>3. k - 1 + 1 = k /\ w[k] \in Nat
    BY <1>1, <2>0, <2>1
  <2> QED BY <2>1, <2>2, <2>3, LimitsAreNatural
<1>5. n \in 0..Len(w) /\ (\A k \in 1..n : w[k] >= WindowMs) /\ (n < Len(w) => w[n + 1] < WindowMs)
  BY <1>4
<1>6. PICK s : s = Shifted(w)
  OBVIOUS
<1>7. s \in 0..Len(w) /\ (\A k \in 1..s : w[k] >= WindowMs) /\ (s < Len(w) => w[s + 1] < WindowMs)
  BY <1>5, <1>6, Zenon DEF Shifted
<1>8. ASSUME NEW k \in 1..Len(w) PROVE w[k] < WindowMs <=> k > s
  <2>1. CASE k <= s
    <3>1. k \in 1..s
      BY <1>1, <1>7, <2>1
    <3> QED BY <1>1, <1>7, <2>1, <3>1, LimitsAreNatural
  <2>2. CASE k > s
    <3>1. s + 1 \in 1..Len(w) /\ s + 1 <= k /\ w[s + 1] < WindowMs
      BY <1>1, <1>7, <2>2
    <3>2. w[s + 1] >= w[k]
      BY <3>1 DEF Sorted
    <3>3. w[s + 1] \in Nat /\ w[k] \in Nat
      BY <1>1, <3>1
    <3> QED BY <2>2, <3>1, <3>2, <3>3, LimitsAreNatural
  <2> QED BY <1>1, <1>7, <2>1, <2>2
<1> QED BY <1>6, <1>7, <1>8

\* The rest of a sequence, from some place on.
LEMMA RestOf ==
  ASSUME NEW S, NEW w \in Seq(S), NEW n \in 0..Len(w)
  PROVE  /\ SubSeq(w, n + 1, Len(w)) \in Seq(S)
         /\ Len(SubSeq(w, n + 1, Len(w))) = Len(w) - n
         /\ \A k \in 1..Len(w) - n : SubSeq(w, n + 1, Len(w))[k] = w[k + n]
<1>1. Len(w) \in Nat /\ n \in Nat /\ n <= Len(w) /\ \A k \in 1..Len(w) : w[k] \in S
  BY LenProperties
<1>2. n + 1 \in Int /\ Len(w) \in Int /\ \A k \in n + 1..Len(w) : w[k] \in S
  BY <1>1
<1>3. /\ SubSeq(w, n + 1, Len(w)) \in Seq(S)
      /\ Len(SubSeq(w, n + 1, Len(w))) = IF n + 1 <= Len(w) THEN Len(w) - (n + 1) + 1 ELSE 0
      /\ \A k \in 1..Len(w) - (n + 1) + 1 : SubSeq(w, n + 1, Len(w))[k] = w[n + 1 + k - 1]
  BY <1>2, SubSeqProperties
<1>4. \A k \in 1..Len(w) - n : k \in 1..Len(w) - (n + 1) + 1 /\ n + 1 + k - 1 = k + n
  BY <1>1
<1>5. Len(SubSeq(w, n + 1, Len(w))) = Len(w) - n
  BY <1>1, <1>3
<1> QED BY <1>3, <1>4, <1>5

\* What is left of a window is sorted too, is young, and has every young call of it.
LEMMA YoungIs ==
  ASSUME NEW m \in Nat, NEW w \in Seq(0..m), Sorted(w)
  PROVE  /\ Young(w) \in Seq(0..m) /\ Sorted(Young(w))
         /\ \A a \in 0..WindowMs - 1 : Cardinality(UpTo(Young(w), a)) = Cardinality(UpTo(w, a))
         /\ Len(Young(w)) = Cardinality(UpTo(w, WindowMs - 1))
<1>0. w \in Seq(Nat)
  BY SeqMonotonic, 0..m \subseteq Nat
<1>1. Len(w) \in Nat /\ w \in [1..Len(w) -> 0..m]
  BY LenProperties
<1>2. PICK n \in 0..Len(w) : n = Shifted(w)
  BY <1>0, OldAtHead
<1>3. \A k \in 1..Len(w) : w[k] < WindowMs <=> k > n
  BY <1>0, <1>2, OldAtHead
<1>4. PICK y : y = Young(w)
  OBVIOUS
<1>5. y = SubSeq(w, n + 1, Len(w))
  BY <1>2, <1>4 DEF Young
<1>6. y \in Seq(0..m) /\ Len(y) = Len(w) - n /\ \A k \in 1..Len(w) - n : y[k] = w[k + n]
  BY <1>5, RestOf
<1>7. Sorted(y)
  <2>1. ASSUME NEW j \in 1..Len(y), NEW k \in 1..Len(y), j <= k PROVE y[j] >= y[k]
    <3>1. j + n \in 1..Len(w) /\ k + n \in 1..Len(w) /\ j + n <= k + n
      BY <1>1, <1>6, <2>1
    <3>2. y[j] = w[j + n] /\ y[k] = w[k + n]
      BY <1>6
    <3> QED BY <3>1, <3>2 DEF Sorted
  <2> QED BY <2>1 DEF Sorted
<1>8. ASSUME NEW a \in 0..WindowMs - 1 PROVE Cardinality(UpTo(y, a)) = Cardinality(UpTo(w, a))
  <2>1. UpTo(w, a) \in SUBSET Int /\ IsFiniteSet(UpTo(w, a)) /\ UpTo(y, a) \in SUBSET Int
    BY <1>0, UpToFinite, LimitsAreNatural DEF UpTo
  <2>2. ASSUME NEW k \in Int PROVE k \in UpTo(y, a) <=> k + n \in UpTo(w, a)
    <3>1. CASE k \in 1..Len(w) - n
      <4>1. k + n \in 1..Len(w) /\ k \in 1..Len(y) /\ y[k] = w[k + n]
        BY <1>1, <1>6, <3>1
      <4> QED BY <4>1 DEF UpTo
    <3>2. CASE k \notin 1..Len(w) - n
      <4>1. k \notin UpTo(y, a)
        BY <1>6, <3>2 DEF UpTo
      <4>2. ASSUME k + n \in UpTo(w, a) PROVE FALSE
        <5>1. k + n \in 1..Len(w) /\ w[k + n] <= a
          BY <4>2 DEF UpTo
        <5>2. w[k + n] < WindowMs
          BY <1>1, <5>1, LimitsAreNatural
        <5>3. k + n > n
          BY <1>3, <5>1, <5>2
        <5> QED BY <1>1, <3>2, <5>1, <5>3
      <4> QED BY <4>1, <4>2
    <3> QED BY <3>1, <3>2
  <2>3. \A A, B \in SUBSET Int :
          IsFiniteSet(A) /\ (\A k \in Int : k \in B <=> k + n \in A) => Cardinality(B) = Cardinality(A)
    <3>1. n \in Int
      BY <1>1
    <3> QED BY <3>1, MovedSet
  <2> QED BY <2>1, <2>2, <2>3
<1>9. Len(y) = Cardinality(UpTo(y, WindowMs - 1))
  <2>1. ASSUME NEW k \in 1..Len(y) PROVE y[k] <= WindowMs - 1
    <3>1. k + n \in 1..Len(w) /\ k + n > n /\ y[k] = w[k + n]
      BY <1>1, <1>6
    <3> QED BY <1>1, <1>3, <3>1, LimitsAreNatural
  <2>2. UpTo(y, WindowMs - 1) = 1..Len(y)
    BY <2>1 DEF UpTo
  <2>3. Len(y) \in Nat
    BY <1>1, <1>6
  <2>4. \A l \in Nat : Cardinality(1..l) = l
    BY FS_Interval
  <2> QED BY <2>2, <2>3, <2>4
<1>10. WindowMs - 1 \in 0..WindowMs - 1
  BY LimitsAreNatural
<1> QED BY <1>4, <1>6, <1>7, <1>8, <1>9, <1>10

\* A tick makes everything in a window older, up to the limit.
LEMMA AgedIs ==
  ASSUME NEW w \in Seq(0..WindowMs), Sorted(w),
         NEW v, v = [k \in DOMAIN w |-> Older(w[k], WindowMs)]
  PROVE  /\ v \in Seq(0..WindowMs) /\ Sorted(v)
         /\ \A a \in 0..WindowMs - 1 :
              Cardinality(UpTo(v, a)) = IF a = 0 THEN 0 ELSE Cardinality(UpTo(w, a - 1))
<1>1. Len(w) \in Nat /\ w \in [1..Len(w) -> 0..WindowMs] /\ DOMAIN w = 1..Len(w)
  BY LenProperties
<1>2. \A k \in 1..Len(w) : v[k] = Older(w[k], WindowMs) /\ w[k] \in 0..WindowMs
  BY <1>1
<1>3. \A k \in 1..Len(w) : v[k] \in 0..WindowMs
  BY <1>2, LimitsAreNatural DEF Older
<1>4. v \in [1..Len(w) -> 0..WindowMs]
  BY <1>1, <1>3
<1>5. v \in Seq(0..WindowMs) /\ Len(v) = Len(w)
  BY <1>1, <1>4
<1>6. Sorted(v)
  <2>1. ASSUME NEW j \in 1..Len(v), NEW k \in 1..Len(v), j <= k PROVE v[j] >= v[k]
    <3>1. w[j] >= w[k]
      BY <1>5, <2>1 DEF Sorted
    <3>2. w[j] \in 0..WindowMs /\ w[k] \in 0..WindowMs
      BY <1>2, <1>5
    <3>3. v[j] = Older(w[j], WindowMs) /\ v[k] = Older(w[k], WindowMs)
      BY <1>2, <1>5
    <3>4. \A x, y \in 0..WindowMs : x >= y => Older(x, WindowMs) >= Older(y, WindowMs)
      BY LimitsAreNatural DEF Older
    <3> QED BY <3>1, <3>2, <3>3, <3>4
  <2> QED BY <2>1 DEF Sorted
<1>7. ASSUME NEW a \in 0..WindowMs - 1
      PROVE  Cardinality(UpTo(v, a)) = IF a = 0 THEN 0 ELSE Cardinality(UpTo(w, a - 1))
  <2>1. \A k \in 1..Len(w) : v[k] <= a <=> a > 0 /\ w[k] <= a - 1
    BY <1>2, LimitsAreNatural DEF Older
  <2>2. CASE a = 0
    <3>1. UpTo(v, a) = {}
      BY <1>5, <2>1, <2>2 DEF UpTo
    <3> QED BY <2>2, <3>1, FS_EmptySet
  <2>3. CASE a # 0
    <3>1. a > 0
      BY <2>3, LimitsAreNatural
    <3>2. UpTo(v, a) = UpTo(w, a - 1)
      BY <1>5, <2>1, <3>1 DEF UpTo
    <3> QED BY <2>3, <3>2
  <2> QED BY <2>2, <2>3
<1> QED BY <1>5, <1>6, <1>7

\* A call that is recorded counts as one at every age.
LEMMA RecordedIs ==
  ASSUME NEW m \in Nat, NEW w \in Seq(0..m), Sorted(w)
  PROVE  /\ Append(w, 0) \in Seq(0..m) /\ Sorted(Append(w, 0))
         /\ \A a \in Nat : Cardinality(UpTo(Append(w, 0), a)) = Cardinality(UpTo(w, a)) + 1
<1>0. w \in Seq(Nat)
  BY SeqMonotonic, 0..m \subseteq Nat
<1>1. Len(w) \in Nat /\ w \in [1..Len(w) -> 0..m]
  BY LenProperties
<1>2. PICK v : v = Append(w, 0)
  OBVIOUS
<1>3. /\ v \in Seq(0..m) /\ Len(v) = Len(w) + 1 /\ v[Len(w) + 1] = 0
      /\ \A k \in 1..Len(w) : v[k] = w[k]
  BY <1>2, AppendProperties, 0 \in 0..m
<1>4. Sorted(v)
  <2>1. ASSUME NEW j \in 1..Len(v), NEW k \in 1..Len(v), j <= k PROVE v[j] >= v[k]
    <3>1. CASE k = Len(w) + 1
      <4>1. v[j] \in 0..m
        BY <1>3
      <4> QED BY <1>3, <3>1, <4>1
    <3>2. CASE k # Len(w) + 1
      <4>1. j \in 1..Len(w) /\ k \in 1..Len(w)
        BY <1>1, <1>3, <2>1, <3>2
      <4>2. w[j] >= w[k]
        BY <2>1, <4>1 DEF Sorted
      <4> QED BY <1>3, <4>1, <4>2
    <3> QED BY <3>1, <3>2
  <2> QED BY <2>1 DEF Sorted
<1>5. ASSUME NEW a \in Nat PROVE Cardinality(UpTo(v, a)) = Cardinality(UpTo(w, a)) + 1
  <2>1. UpTo(v, a) = UpTo(w, a) \cup {Len(w) + 1} /\ Len(w) + 1 \notin UpTo(w, a)
    BY <1>1, <1>3 DEF UpTo
  <2> QED BY <1>0, <2>1, UpToFinite, AddOne
<1> QED BY <1>2, <1>3, <1>4, <1>5

-----------------------------------------------------------------------------
(* The calls that were granted *)

Recent == 0..WindowMs - 1

\* The ages of calls, and the places of those of one session that are not older than a.
Ages(g) == [k \in 1..Len(g) |-> g[k][2]]
CallsBy(g, i, a) == {k \in 1..Len(g) : g[k][1] = i /\ g[k][2] <= a}

Callers == Ids \cup {NoSession}
GrantedCalls == Seq(Callers \X Recent)

LEMMA SeqOf ==
  ASSUME NEW S, NEW n \in Nat, NEW f \in [1..n -> S]
  PROVE  f \in Seq(S) /\ Len(f) = n
OBVIOUS

LEMMA AgesIs ==
  ASSUME NEW T, NEW g \in Seq(Callers \X T)
  PROVE  Ages(g) \in Seq(T) /\ Len(Ages(g)) = Len(g) /\ \A k \in 1..Len(g) : Ages(g)[k] = g[k][2]
<1>1. Len(g) \in Nat /\ g \in [1..Len(g) -> Callers \X T]
  BY LenProperties
<1>2. PICK v : v = Ages(g)
  OBVIOUS
<1>3. v \in [1..Len(g) -> T] /\ \A k \in 1..Len(g) : v[k] = g[k][2]
  BY <1>1, <1>2 DEF Ages
<1>4. v \in Seq(T) /\ Len(v) = Len(g)
  BY <1>1, <1>3
<1> QED BY <1>2, <1>3, <1>4

LEMMA GrantedAges ==
  ASSUME NEW g \in GrantedCalls
  PROVE  /\ Len(g) \in Nat /\ DOMAIN g = 1..Len(g)
         /\ \A k \in 1..Len(g) : g[k] \in Callers \X Recent
         /\ Ages(g) \in Seq(Recent) /\ Ages(g) \in Seq(Nat)
         /\ Len(Ages(g)) = Len(g) /\ \A k \in 1..Len(g) : Ages(g)[k] = g[k][2] /\ g[k][2] \in Recent
<1>1. g \in Seq(Callers \X Recent)
  BY DEF GrantedCalls
<1>2. Len(g) \in Nat /\ DOMAIN g = 1..Len(g) /\ \A k \in 1..Len(g) : g[k] \in Callers \X Recent
  BY <1>1, LenProperties
<1>3. Ages(g) \in Seq(Recent) /\ Len(Ages(g)) = Len(g) /\ \A k \in 1..Len(g) : Ages(g)[k] = g[k][2]
  BY <1>1, AgesIs
<1>4. Recent \subseteq Nat
  BY LimitsAreNatural DEF Recent
<1>5. Ages(g) \in Seq(Nat)
  BY <1>3, <1>4, SeqMonotonic
<1> QED BY <1>2, <1>3, <1>5

LEMMA CallsByFinite ==
  ASSUME NEW S, NEW g \in Seq(S), NEW i, NEW a
  PROVE  /\ CallsBy(g, i, a) \in SUBSET Int /\ IsFiniteSet(CallsBy(g, i, a))
         /\ Cardinality(CallsBy(g, i, a)) \in Nat
<1>1. Len(g) \in Nat
  BY LenProperties
<1>2. CallsBy(g, i, a) \in SUBSET (1..Len(g)) /\ IsFiniteSet(1..Len(g))
  BY <1>1, FS_Interval DEF CallsBy
<1>3. CallsBy(g, i, a) \in SUBSET Int
  BY <1>1, <1>2
<1> QED BY <1>2, <1>3, FS_Subset, FS_CardinalityType

\* What a session made is what it made within the window: all ages are recent.
LEMMA MadeIs ==
  ASSUME granted \in GrantedCalls, NEW i
  PROVE  /\ Made(i) = CallsBy(granted, i, WindowMs - 1)
         /\ \A a \in Nat : Made(i) = {} => CallsBy(granted, i, a) = {}
<1>1. granted \in Seq(Callers \X Recent)
  BY DEF GrantedCalls
<1>2. DOMAIN granted = 1..Len(granted) /\ \A k \in 1..Len(granted) : granted[k] \in Callers \X Recent
  BY <1>1, LenProperties
<1>3. \A k \in 1..Len(granted) : granted[k][2] \in 0..WindowMs - 1
  BY <1>2 DEF Recent
<1>4. \A k \in 1..Len(granted) : granted[k][2] <= WindowMs - 1
  BY <1>3, LimitsAreNatural
<1> QED BY <1>2, <1>4 DEF Made, CallsBy

\* Of the calls g remain, a tick later, the calls h.
AllOlder(g, h) ==
  /\ h \in GrantedCalls /\ Sorted(Ages(h)) /\ Len(h) <= Len(g)
  /\ \A a \in Recent :
       Cardinality(UpTo(Ages(h), a)) = IF a = 0 THEN 0 ELSE Cardinality(UpTo(Ages(g), a - 1))
  /\ \A i : \A a \in Recent :
       Cardinality(CallsBy(h, i, a)) = IF a = 0 THEN 0 ELSE Cardinality(CallsBy(g, i, a - 1))

\* To the calls g a new one of session j has come.
OneMore(g, h, j) ==
  /\ h \in GrantedCalls /\ Sorted(Ages(h)) /\ Len(h) = Len(g) + 1
  /\ \A a \in Recent : Cardinality(UpTo(Ages(h), a)) = Cardinality(UpTo(Ages(g), a)) + 1
  /\ \A a \in Recent : Cardinality(CallsBy(h, j, a)) = Cardinality(CallsBy(g, j, a)) + 1
  /\ \A i \in Ids : \A a \in Recent : i # j => CallsBy(h, i, a) = CallsBy(g, i, a)

\* What is left when the first n calls are forgotten and the others are older by one.
LEMMA OlderCalls ==
  ASSUME NEW g \in GrantedCalls, Sorted(Ages(g)), NEW n \in 0..Len(g), NEW h \in Seq(Callers \X Nat),
         \A k \in 1..Len(g) : g[k][2] + 1 < WindowMs <=> k > n,
         Len(h) = Len(g) - n,
         \A k \in 1..Len(h) : h[k][1] = g[k + n][1] /\ h[k][2] = g[k + n][2] + 1
  PROVE  AllOlder(g, h)
<1>1. /\ Len(g) \in Nat /\ Len(Ages(g)) = Len(g) /\ Ages(g) \in Seq(Nat)
      /\ \A k \in 1..Len(g) : Ages(g)[k] = g[k][2] /\ g[k][2] \in Recent
  BY GrantedAges
<1>2. n \in Int /\ Len(h) \in Nat /\ Len(h) <= Len(g) /\ \A k \in 1..Len(h) : h[k] \in Callers \X Nat
  BY <1>1, LenProperties
<1>3. \A k \in 1..Len(h) : k + n \in 1..Len(g) /\ k + n > n
  BY <1>1
<1>4. \A x \in Recent : x + 1 < WindowMs => x + 1 \in Recent
  BY LimitsAreNatural DEF Recent
<1>5. ASSUME NEW k \in 1..Len(h)
      PROVE  g[k + n][2] \in Recent /\ h[k][2] = g[k + n][2] + 1 /\ h[k][2] \in Recent
  <2>1. k + n \in 1..Len(g) /\ g[k + n][2] \in Recent /\ g[k + n][2] + 1 < WindowMs
    BY <1>1, <1>3
  <2> QED BY <1>4, <2>1
<1>6. h \in GrantedCalls
  <2>1. ASSUME NEW k \in 1..Len(h) PROVE h[k] \in Callers \X Recent
    <3>1. h[k] \in Callers \X Nat /\ h[k][2] \in Recent
      BY <1>2, <1>5
    <3> QED BY <3>1
  <2>2. h \in [1..Len(h) -> Callers \X Nat]
    BY LenProperties
  <2>3. h \in [1..Len(h) -> Callers \X Recent]
    BY <2>1, <2>2
  <2>4. h \in Seq(Callers \X Recent)
    BY <1>2, <2>3, SeqOf
  <2> QED BY <2>4 DEF GrantedCalls
<1>7. Len(Ages(h)) = Len(h) /\ \A k \in 1..Len(h) : Ages(h)[k] = h[k][2]
  BY <1>6, GrantedAges
<1>8. Sorted(Ages(h))
  <2>1. ASSUME NEW j \in 1..Len(h), NEW k \in 1..Len(h), j <= k PROVE h[j][2] >= h[k][2]
    <3>1. j + n \in 1..Len(g) /\ k + n \in 1..Len(g) /\ j + n <= k + n
      BY <1>2, <1>3, <2>1
    <3>2. Ages(g)[j + n] >= Ages(g)[k + n]
      BY <1>1, <3>1 DEF Sorted
    <3>3. g[j + n][2] >= g[k + n][2]
      BY <1>1, <3>1, <3>2
    <3>4. \A x, y \in Recent : x >= y => x + 1 >= y + 1
      BY LimitsAreNatural DEF Recent
    <3> QED BY <1>5, <3>3, <3>4
  <2> QED BY <1>7, <2>1 DEF Sorted
<1>9. \A A, B \in SUBSET Int :
        IsFiniteSet(A) /\ (\A k \in Int : k \in B <=> k + n \in A) => Cardinality(B) = Cardinality(A)
  BY <1>2, MovedSet
<1>10. \A x, a \in Recent : /\ a = 0 => ~(x + 1 <= a)
                            /\ a # 0 => (x + 1 <= a <=> x <= a - 1)
                            /\ a # 0 /\ x <= a - 1 => x + 1 < WindowMs
  BY LimitsAreNatural DEF Recent
<1>11. \A k \in Int : k \notin 1..Len(h) => k + n \notin 1..Len(g) \/ ~(k + n > n)
  BY <1>1, <1>2
<1>12. ASSUME NEW a \in Recent, a # 0, NEW k \in Int
       PROVE  k \in 1..Len(h) /\ h[k][2] <= a <=> k + n \in 1..Len(g) /\ g[k + n][2] <= a - 1
  <2>1. CASE k \in 1..Len(h)
    BY <1>3, <1>5, <1>10, <1>12, <2>1
  <2>2. CASE k \notin 1..Len(h)
    <3>1. ASSUME k + n \in 1..Len(g), g[k + n][2] <= a - 1 PROVE FALSE
      <4>1. g[k + n][2] + 1 < WindowMs
        BY <1>1, <1>10, <1>12, <3>1
      <4> QED BY <1>11, <2>2, <3>1, <4>1
    <3> QED BY <2>2, <3>1
  <2> QED BY <2>1, <2>2
<1>13. /\ \A a : UpTo(Ages(h), a) = {k \in 1..Len(h) : h[k][2] <= a}
       /\ \A a : UpTo(Ages(g), a) = {k \in 1..Len(g) : g[k][2] <= a}
  BY <1>1, <1>7 DEF UpTo
<1>14. ASSUME NEW a \in Recent
       PROVE  Cardinality(UpTo(Ages(h), a)) = IF a = 0 THEN 0 ELSE Cardinality(UpTo(Ages(g), a - 1))
  <2>1. CASE a = 0
    <3>1. UpTo(Ages(h), a) = {}
      <4>1. \A k \in 1..Len(h) : ~(h[k][2] <= a)
        BY <1>5, <1>10, <2>1
      <4> QED BY <1>13, <4>1
    <3> QED BY <2>1, <3>1, FS_EmptySet
  <2>2. CASE a # 0
    <3>1. ASSUME NEW k \in Int PROVE k \in UpTo(Ages(h), a) <=> k + n \in UpTo(Ages(g), a - 1)
      <4>1. k \in UpTo(Ages(h), a) <=> k \in 1..Len(h) /\ h[k][2] <= a
        BY <1>13
      <4>2. k + n \in UpTo(Ages(g), a - 1) <=> k + n \in 1..Len(g) /\ g[k + n][2] <= a - 1
        BY <1>13
      <4> QED BY <1>12, <2>2, <4>1, <4>2
    <3>2. UpTo(Ages(h), a) \in SUBSET Int /\ UpTo(Ages(g), a - 1) \in SUBSET Int
      BY DEF UpTo
    <3>3. IsFiniteSet(UpTo(Ages(g), a - 1))
      <4>1. a - 1 \in Nat
        BY <2>2, LimitsAreNatural DEF Recent
      <4> QED BY <1>1, <4>1, UpToFinite
    <3> QED BY <1>9, <2>2, <3>1, <3>2, <3>3
  <2> QED BY <2>1, <2>2
<1>15. ASSUME NEW i, NEW a \in Recent
       PROVE  Cardinality(CallsBy(h, i, a)) = IF a = 0 THEN 0 ELSE Cardinality(CallsBy(g, i, a - 1))
  <2>1. CASE a = 0
    <3>1. CallsBy(h, i, a) = {}
      BY <1>5, <1>10, <2>1 DEF CallsBy
    <3> QED BY <2>1, <3>1, FS_EmptySet
  <2>2. CASE a # 0
    <3>1. ASSUME NEW k \in Int PROVE k \in CallsBy(h, i, a) <=> k + n \in CallsBy(g, i, a - 1)
      <4>1. k \in CallsBy(h, i, a) <=> (k \in 1..Len(h) /\ h[k][2] <= a) /\ h[k][1] = i
        BY DEF CallsBy
      <4>2. k + n \in CallsBy(g, i, a - 1) <=> (k + n \in 1..Len(g) /\ g[k + n][2] <= a - 1) /\ g[k + n][1] = i
        BY DEF CallsBy
      <4>3. k \in 1..Len(h) => h[k][1] = g[k + n][1]
        OBVIOUS
      <4> QED BY <1>12, <2>2, <4>1, <4>2, <4>3
    <3>2. /\ CallsBy(h, i, a) \in SUBSET Int /\ CallsBy(g, i, a - 1) \in SUBSET Int
          /\ IsFiniteSet(CallsBy(g, i, a - 1))
      BY <1>6, CallsByFinite DEF GrantedCalls
    <3> QED BY <1>9, <2>2, <3>1, <3>2
  <2> QED BY <2>1, <2>2
<1> QED BY <1>2, <1>6, <1>8, <1>14, <1>15 DEF AllOlder

\* A tick makes all calls older and forgets those that have left the window.
LEMMA ForgottenIs ==
  ASSUME NEW g \in GrantedCalls, Sorted(Ages(g)),
         NEW o, o = [k \in DOMAIN g |-> <<g[k][1], g[k][2] + 1>>],
         NEW h, h = SubSeq(o, Cardinality({k \in DOMAIN o : o[k][2] >= WindowMs}) + 1, Len(o))
  PROVE  AllOlder(g, h)
<1>1. /\ Len(g) \in Nat /\ DOMAIN g = 1..Len(g) /\ \A k \in 1..Len(g) : g[k] \in Callers \X Recent
      /\ Len(Ages(g)) = Len(g) /\ Ages(g) \in Seq(Nat)
      /\ \A k \in 1..Len(g) : Ages(g)[k] = g[k][2] /\ g[k][2] \in Recent
  BY GrantedAges
<1>2. PICK q : q = o
  OBVIOUS
<1>3. DOMAIN q = 1..Len(g) /\ q \in [1..Len(g) -> Callers \X Nat]
  <2>1. \A x \in Recent : x + 1 \in Nat
    BY LimitsAreNatural DEF Recent
  <2>2. \A k \in 1..Len(g) : <<g[k][1], g[k][2] + 1>> \in Callers \X Nat
    BY <1>1, <2>1
  <2> QED BY <1>1, <1>2, <2>2
<1>4. \A k \in 1..Len(g) : q[k][1] = g[k][1] /\ q[k][2] = g[k][2] + 1 /\ q[k][2] \in Nat
  <2>1. \A k \in 1..Len(g) : q[k] = <<g[k][1], g[k][2] + 1>> /\ q[k] \in Callers \X Nat
    BY <1>1, <1>2, <1>3
  <2> QED BY <2>1
<1>5. q \in Seq(Callers \X Nat) /\ Len(q) = Len(g)
  BY <1>1, <1>3, SeqOf
<1>6. Ages(q) \in Seq(Nat) /\ Len(Ages(q)) = Len(q) /\ \A k \in 1..Len(q) : Ages(q)[k] = q[k][2]
  BY <1>5, AgesIs
<1>7. Sorted(Ages(q))
  <2>1. ASSUME NEW j \in 1..Len(g), NEW k \in 1..Len(g), j <= k PROVE q[j][2] >= q[k][2]
    <3>1. Ages(g)[j] >= Ages(g)[k]
      BY <1>1, <2>1 DEF Sorted
    <3>2. g[j][2] >= g[k][2]
      BY <1>1, <3>1
    <3>3. \A x, y \in Recent : x >= y => x + 1 >= y + 1
      BY LimitsAreNatural DEF Recent
    <3> QED BY <1>1, <1>4, <3>2, <3>3
  <2> QED BY <1>5, <1>6, <2>1 DEF Sorted
<1>8. PICK n \in 0..Len(g) : \A k \in 1..Len(g) : q[k][2] < WindowMs <=> k > n
  <2>1. /\ Shifted(Ages(q)) \in 0..Len(Ages(q))
        /\ \A k \in 1..Len(Ages(q)) : Ages(q)[k] < WindowMs <=> k > Shifted(Ages(q))
    BY <1>6, <1>7, OldAtHead
  <2> QED BY <1>5, <1>6, <2>1
<1>9. Cardinality({k \in DOMAIN q : q[k][2] >= WindowMs}) = n
  <2>1. \A k \in 1..Len(g) : q[k][2] >= WindowMs <=> k <= n
    BY <1>1, <1>4, <1>8, LimitsAreNatural
  <2>2. {k \in DOMAIN q : q[k][2] >= WindowMs} = 1..n
    BY <1>1, <1>3, <2>1
  <2>3. \A l \in Nat : Cardinality(1..l) = l
    BY FS_Interval
  <2>4. n \in Nat
    BY <1>1
  <2> QED BY <2>2, <2>3, <2>4
<1>10. PICK r : r = SubSeq(q, n + 1, Len(q))
  OBVIOUS
<1>11. h = r
  BY <1>2, <1>9, <1>10
<1>12. r \in Seq(Callers \X Nat) /\ Len(r) = Len(g) - n /\ \A k \in 1..Len(g) - n : r[k] = q[k + n]
  BY <1>5, <1>10, RestOf
<1>13. \A k \in 1..Len(r) : r[k][1] = g[k + n][1] /\ r[k][2] = g[k + n][2] + 1
  <2>1. \A k \in 1..Len(r) : k + n \in 1..Len(g) /\ r[k] = q[k + n]
    BY SMTT(20), <1>1, <1>12
  <2> QED BY <1>4, <2>1
<1>14. \A k \in 1..Len(g) : g[k][2] + 1 < WindowMs <=> k > n
  BY <1>4, <1>8
<1>15. AllOlder(g, r)
  BY <1>12, <1>13, <1>14, OlderCalls
<1> QED BY <1>11, <1>15

\* A call that is recorded is one more of its session at every age, and none of another's.
LEMMA GrantedIs ==
  ASSUME NEW g \in GrantedCalls, Sorted(Ages(g)), NEW j \in Ids, NEW h, h = Append(g, <<j, 0>>)
  PROVE  OneMore(g, h, j)
<1>1. g \in Seq(Callers \X Recent) /\ <<j, 0>> \in Callers \X Recent
  BY LimitsAreNatural DEF GrantedCalls, Recent, Callers
<1>2. Len(g) \in Nat /\ h \in Seq(Callers \X Recent) /\ Len(h) = Len(g) + 1
  BY <1>1, AppendProperties, LenProperties
<1>3. h[Len(g) + 1] = <<j, 0>> /\ \A k \in 1..Len(g) : h[k] = g[k]
  BY <1>1, AppendProperties
<1>4. /\ Ages(g) \in Seq(Recent) /\ Len(Ages(g)) = Len(g) /\ \A k \in 1..Len(g) : Ages(g)[k] = g[k][2]
      /\ Ages(h) \in Seq(Recent) /\ Len(Ages(h)) = Len(h) /\ \A k \in 1..Len(h) : Ages(h)[k] = h[k][2]
  <2>1. \A f \in GrantedCalls :
          Ages(f) \in Seq(Recent) /\ Len(Ages(f)) = Len(f) /\ \A k \in 1..Len(f) : Ages(f)[k] = f[k][2]
    BY GrantedAges
  <2> QED BY <1>2, <2>1 DEF GrantedCalls
<1>5. Ages(h) = Append(Ages(g), 0)
  <2>1. PICK v : v = Append(Ages(g), 0)
    OBVIOUS
  <2>2. 0 \in Recent
    BY LimitsAreNatural DEF Recent
  <2>3. /\ v \in Seq(Recent) /\ Len(v) = Len(g) + 1 /\ v[Len(g) + 1] = 0
        /\ \A k \in 1..Len(g) : v[k] = g[k][2]
    BY <1>4, <2>1, <2>2, AppendProperties
  <2>4. ASSUME NEW k \in 1..Len(h) PROVE Ages(h)[k] = v[k]
    <3>1. CASE k = Len(g) + 1
      BY <1>3, <1>4, <2>3, <3>1
    <3>2. CASE k # Len(g) + 1
      <4>1. k \in 1..Len(g)
        BY <1>2, <3>2
      <4> QED BY <1>3, <1>4, <2>3, <4>1
    <3> QED BY <3>1, <3>2
  <2>5. Ages(h) = v
    BY <1>2, <1>4, <2>3, <2>4, SeqEqual
  <2> QED BY <2>1, <2>5
<1>6. Sorted(Ages(h)) /\ \A a \in Recent : Cardinality(UpTo(Ages(h), a)) = Cardinality(UpTo(Ages(g), a)) + 1
  <2>1. WindowMs - 1 \in Nat /\ Ages(g) \in Seq(0..WindowMs - 1) /\ \A a \in Recent : a \in Nat
    BY <1>4, LimitsAreNatural DEF Recent
  <2> QED BY <1>5, <2>1, RecordedIs
<1>7. ASSUME NEW a \in Recent PROVE Cardinality(CallsBy(h, j, a)) = Cardinality(CallsBy(g, j, a)) + 1
  <2>1. a >= 0
    BY LimitsAreNatural DEF Recent
  <2>2. CallsBy(h, j, a) = CallsBy(g, j, a) \cup {Len(g) + 1} /\ Len(g) + 1 \notin CallsBy(g, j, a)
    BY <1>2, <1>3, <2>1 DEF CallsBy
  <2> QED BY <1>1, <2>2, CallsByFinite, AddOne
<1>8. ASSUME NEW i \in Ids, NEW a \in Recent, i # j PROVE CallsBy(h, i, a) = CallsBy(g, i, a)
  BY <1>2, <1>3, <1>8 DEF CallsBy
<1> QED BY <1>2, <1>6, <1>7, <1>8 DEF OneMore, GrantedCalls

-----------------------------------------------------------------------------
(* Budgets *)

\* The inductive invariant: at every age the windows hold as many calls as were granted, the shared
\* one of all and each session's its own, and a session that is not open yet has made none.
Windows ==
  /\ window \in [Ids -> Seq(0..WindowMs)] /\ \A i \in Ids : Sorted(window[i])
  /\ tokenWindow \in Seq(0..WindowMs) /\ Sorted(tokenWindow)
  /\ granted \in GrantedCalls /\ Sorted(Ages(granted))

SharedAgrees == \A a \in Recent : Cardinality(UpTo(tokenWindow, a)) = Cardinality(UpTo(Ages(granted), a))

OwnAgrees ==
  \A i \in Ids : \A a \in Recent : Cardinality(UpTo(window[i], a)) = Cardinality(CallsBy(granted, i, a))

NoneYet == \A i \in Ids : phase[i] \in {"unused", "starting"} => Made(i) = {}

WithinBudgets ==
  Len(granted) <= PerToken /\ \A i \in Ids : Cardinality(CallsBy(granted, i, WindowMs - 1)) <= PerSession

BudgetInv == Windows /\ SharedAgrees /\ OwnAgrees /\ NoneYet /\ WithinBudgets

LEMMA LastIsRecent == WindowMs - 1 \in Recent /\ Recent \subseteq Nat /\ 0 \in Recent
BY LimitsAreNatural DEF Recent

LEMMA NothingMade ==
  /\ <<>> \in Seq(0..WindowMs) /\ Sorted(<<>>) /\ <<>> \in GrantedCalls /\ Sorted(Ages(<<>>))
  /\ \A a : UpTo(<<>>, a) = {} /\ UpTo(Ages(<<>>), a) = {} /\ \A i : CallsBy(<<>>, i, a) = {}
<1>1. Len(<<>>) = 0 /\ \A S : <<>> \in Seq(S)
  BY EmptySeq
<1>2. Len(Ages(<<>>)) = 0
  BY <1>1, GrantedAges DEF GrantedCalls
<1> QED BY <1>1, <1>2 DEF Sorted, GrantedCalls, UpTo, CallsBy

LEMMA InitBudgets == Init => BudgetInv
<1> SUFFICES ASSUME Init PROVE BudgetInv
  OBVIOUS
<1>1. window = [i \in Ids |-> <<>>] /\ tokenWindow = <<>> /\ granted = <<>>
  BY DEF Init
<1>2. Windows
  BY <1>1, NothingMade DEF Windows
<1>3. SharedAgrees /\ OwnAgrees
  BY <1>1, NothingMade DEF SharedAgrees, OwnAgrees
<1>4. NoneYet
  BY <1>1 DEF NoneYet, Made
<1>5. WithinBudgets
  <2>1. Len(granted) = 0
    BY <1>1, EmptySeq
  <2>2. \A i \in Ids : Cardinality(CallsBy(granted, i, WindowMs - 1)) = 0
    BY <1>1, NothingMade, FS_EmptySet
  <2> QED BY <2>1, <2>2, LimitsAreNatural DEF WithinBudgets
<1> QED BY <1>2, <1>3, <1>4, <1>5 DEF BudgetInv

\* The length of what is left of the windows.
LEMMA YoungLengths ==
  ASSUME BudgetInv
  PROVE  /\ Len(Young(tokenWindow)) = Len(granted)
         /\ \A i \in Ids : Len(Young(window[i])) = Cardinality(CallsBy(granted, i, WindowMs - 1))
<1>1. WindowMs \in Nat
  BY LimitsAreNatural
<1>2. ASSUME NEW i \in Ids PROVE Len(Young(window[i])) = Cardinality(UpTo(window[i], WindowMs - 1))
  <2>1. window[i] \in Seq(0..WindowMs) /\ Sorted(window[i])
    BY DEF BudgetInv, Windows
  <2> QED BY <1>1, <2>1, YoungIs
<1>3. Len(Young(tokenWindow)) = Cardinality(UpTo(Ages(granted), WindowMs - 1))
  <2>1. tokenWindow \in Seq(0..WindowMs) /\ Sorted(tokenWindow)
    BY DEF BudgetInv, Windows
  <2>2. Len(Young(tokenWindow)) = Cardinality(UpTo(tokenWindow, WindowMs - 1))
    BY <1>1, <2>1, YoungIs
  <2> QED BY <2>2, LastIsRecent DEF BudgetInv, SharedAgrees
<1>4. UpTo(Ages(granted), WindowMs - 1) = 1..Len(granted) /\ Len(granted) \in Nat
  <2>1. granted \in GrantedCalls
    BY DEF BudgetInv, Windows
  <2>2. /\ Len(granted) \in Nat /\ Len(Ages(granted)) = Len(granted)
        /\ \A k \in 1..Len(granted) : Ages(granted)[k] \in Recent
    BY <2>1, GrantedAges
  <2>3. \A x \in Recent : x <= WindowMs - 1
    BY LimitsAreNatural DEF Recent
  <2> QED BY <2>2, <2>3 DEF UpTo
<1>5. Cardinality(1..Len(granted)) = Len(granted)
  <2>1. \A l \in Nat : Cardinality(1..l) = l
    BY FS_Interval
  <2> QED BY <1>4, <2>1
<1> QED BY <1>2, <1>3, <1>4, <1>5, LastIsRecent DEF BudgetInv, OwnAgrees

\* Sessions start and end; no window changes.
LEMMA PhaseBudgets ==
  ASSUME BudgetInv, UNCHANGED <<window, tokenWindow, granted>>,
         \A i \in Ids : phase'[i] \in {"unused", "starting"} => phase[i] \in {"unused", "starting"}
  PROVE  BudgetInv'
<1>1. NoneYet'
  BY DEF BudgetInv, NoneYet, Made
<1> QED BY <1>1 DEF BudgetInv, Windows, SharedAgrees, OwnAgrees, WithinBudgets

\* A session opens: it has made no calls, and its window is empty.
LEMMA RegisteredBudgets ==
  ASSUME BudgetInv, PinsInv, NEW i \in Ids, Registered(i)
  PROVE  BudgetInv'
<1>1. /\ window' = [window EXCEPT ![i] = <<>>] /\ tokenWindow' = tokenWindow /\ granted' = granted
      /\ phase[i] = "starting" /\ phase' = [phase EXCEPT ![i] = "open"]
  BY DEF Registered
<1>2. window'[i] = <<>> /\ \A j \in Ids : j # i => window'[j] = window[j]
  BY <1>1 DEF BudgetInv, Windows
<1>3. Windows'
  <2>1. window' \in [Ids -> Seq(0..WindowMs)]
    BY <1>1, NothingMade DEF BudgetInv, Windows
  <2> QED BY <1>1, <1>2, <2>1, NothingMade DEF BudgetInv, Windows
<1>4. OwnAgrees'
  <2>1. ASSUME NEW j \in Ids, NEW a \in Recent
        PROVE  Cardinality(UpTo(window'[j], a)) = Cardinality(CallsBy(granted, j, a))
    <3>1. CASE j = i
      <4>1. Made(i) = {}
        BY <1>1 DEF BudgetInv, NoneYet
      <4>2. CallsBy(granted, i, a) = {} /\ UpTo(window'[i], a) = {}
        BY <1>2, <4>1, MadeIs, NothingMade, LastIsRecent DEF BudgetInv, Windows
      <4> QED BY <3>1, <4>2
    <3>2. CASE j # i
      BY <1>2, <3>2 DEF BudgetInv, OwnAgrees
    <3> QED BY <3>1, <3>2
  <2> QED BY <1>1, <2>1 DEF OwnAgrees
<1>5. NoneYet'
  BY <1>1 DEF BudgetInv, NoneYet, Made, PinsInv
<1> QED BY <1>1, <1>3, <1>4, <1>5 DEF BudgetInv, SharedAgrees, WithinBudgets

\* An id is used again: its calls are no session's any more.
LEMMA ReuseBudgets ==
  ASSUME BudgetInv, PinsInv, NEW i \in Ids, Reuse(i)
  PROVE  BudgetInv'
<1> DEFINE h == [k \in DOMAIN granted |-> IF granted[k][1] = i THEN <<NoSession, granted[k][2]>> ELSE granted[k]]
<1>1. /\ window' = [window EXCEPT ![i] = <<>>] /\ tokenWindow' = tokenWindow /\ granted' = h
      /\ phase' = [phase EXCEPT ![i] = "unused"]
  BY DEF Reuse
<1>2. window'[i] = <<>> /\ \A j \in Ids : j # i => window'[j] = window[j]
  BY <1>1 DEF BudgetInv, Windows
<1>3. granted \in GrantedCalls
  BY DEF BudgetInv, Windows
<1>4. /\ Len(granted) \in Nat /\ DOMAIN granted = 1..Len(granted)
      /\ \A k \in 1..Len(granted) : granted[k] \in Callers \X Recent
      /\ Len(Ages(granted)) = Len(granted) /\ Ages(granted) \in Seq(Recent)
      /\ \A k \in 1..Len(granted) : Ages(granted)[k] = granted[k][2]
  BY <1>3, GrantedAges
<1>5. ASSUME NEW k \in 1..Len(granted)
      PROVE  /\ h[k] \in Callers \X Recent /\ h[k][2] = granted[k][2]
             /\ h[k][1] = IF granted[k][1] = i THEN NoSession ELSE granted[k][1]
  BY <1>4 DEF Callers
<1>6. DOMAIN h = 1..Len(granted) /\ h \in [1..Len(granted) -> Callers \X Recent]
  BY <1>4, <1>5
<1> HIDE DEF h
<1>7. h \in Seq(Callers \X Recent) /\ Len(h) = Len(granted)
  BY <1>4, <1>6, SeqOf
<1>8. h \in GrantedCalls
  BY <1>7 DEF GrantedCalls
<1>9. Ages(h) = Ages(granted)
  <2>1. Ages(h) \in Seq(Recent) /\ Len(Ages(h)) = Len(h) /\ \A k \in 1..Len(h) : Ages(h)[k] = h[k][2]
    BY <1>8, GrantedAges
  <2>2. \A k \in 1..Len(Ages(h)) : Ages(h)[k] = Ages(granted)[k]
    BY <1>4, <1>5, <1>7, <2>1
  <2>3. Len(Ages(h)) = Len(Ages(granted))
    BY <1>4, <1>7, <2>1
  <2> QED BY <1>4, <2>1, <2>2, <2>3, SeqEqual
<1>10. \A a : CallsBy(h, i, a) = {} /\ \A j \in Ids : j # i => CallsBy(h, j, a) = CallsBy(granted, j, a)
  BY <1>5, <1>7, NoSessionIsNoId DEF CallsBy
<1>11. Windows'
  <2>1. window' \in [Ids -> Seq(0..WindowMs)]
    BY <1>1, NothingMade DEF BudgetInv, Windows
  <2> QED BY <1>1, <1>2, <1>8, <1>9, <2>1, NothingMade DEF BudgetInv, Windows
<1>12. SharedAgrees'
  BY <1>1, <1>9 DEF BudgetInv, SharedAgrees
<1>13. OwnAgrees'
  <2>1. ASSUME NEW j \in Ids, NEW a \in Recent
        PROVE  Cardinality(UpTo(window'[j], a)) = Cardinality(CallsBy(h, j, a))
    <3>1. CASE j = i
      <4>1. UpTo(window'[i], a) = {}
        BY <1>2, NothingMade
      <4> QED BY <1>10, <3>1, <4>1
    <3>2. CASE j # i
      BY <1>2, <1>10, <3>2 DEF BudgetInv, OwnAgrees
    <3> QED BY <3>1, <3>2
  <2> QED BY <1>1, <2>1 DEF OwnAgrees
<1>14. NoneYet'
  <2>1. ASSUME NEW j \in Ids, phase'[j] \in {"unused", "starting"} PROVE Made(j)' = {}
    <3>1. Made(j)' = {k \in 1..Len(granted) : h[k][1] = j}
      BY <1>1, <1>6 DEF Made
    <3>2. CASE j = i
      BY <1>5, <3>1, <3>2, NoSessionIsNoId
    <3>3. CASE j # i
      <4>1. phase'[j] = phase[j]
        BY <1>1, <3>3 DEF PinsInv
      <4>2. Made(j) = {}
        BY <2>1, <4>1 DEF BudgetInv, NoneYet
      <4>3. \A k \in 1..Len(granted) : granted[k][1] # j
        BY <1>4, <4>2 DEF Made
      <4> QED BY <1>5, <3>1, <4>3, NoSessionIsNoId
    <3> QED BY <3>2, <3>3
  <2> QED BY <2>1 DEF NoneYet
<1>15. WithinBudgets'
  <2>1. ASSUME NEW j \in Ids PROVE Cardinality(CallsBy(h, j, WindowMs - 1)) <= PerSession
    <3>1. CASE j = i
      <4>1. Cardinality(CallsBy(h, i, WindowMs - 1)) = 0
        BY <1>10, FS_EmptySet
      <4> QED BY <3>1, <4>1, LimitsAreNatural
    <3>2. CASE j # i
      BY <1>10, <3>2 DEF BudgetInv, WithinBudgets
    <3> QED BY <3>1, <3>2
  <2> QED BY <1>1, <1>7, <2>1 DEF BudgetInv, WithinBudgets
<1> QED BY <1>11, <1>12, <1>13, <1>14, <1>15 DEF BudgetInv

\* An LLM call: both windows forget what is old and record, or neither records.
LEMMA LlmCallBudgets ==
  ASSUME BudgetInv, PinsInv, NEW c \in Calls, LlmCall(c)
  PROVE  BudgetInv'
<1>0. PICK i \in Ids : i = call[c]
  BY DEF PinsInv, LlmCall
<1> DEFINE own == HasCapacity(window[i], PerSession)
           both == own /\ HasCapacity(tokenWindow, PerToken)
<1>1. /\ window' = [window EXCEPT ![i] = IF both THEN Append(Young(window[i]), 0) ELSE Young(window[i])]
      /\ tokenWindow' = IF both THEN Append(Young(tokenWindow), 0) ELSE IF own THEN Young(tokenWindow) ELSE tokenWindow
      /\ granted' = IF both THEN Append(granted, <<i, 0>>) ELSE granted
      /\ phase' = phase
  BY <1>0 DEF LlmCall, Recorded
<1>2. phase[i] \notin {"unused", "starting"}
  <2>1. c \in CallsOf(i)
    BY <1>0 DEF CallsOf
  <2> QED BY <2>1 DEF PinsInv
<1>3. WindowMs \in Nat
  BY LimitsAreNatural
<1>4. window[i] \in Seq(0..WindowMs) /\ Sorted(window[i]) /\ tokenWindow \in Seq(0..WindowMs) /\ Sorted(tokenWindow)
  BY DEF BudgetInv, Windows
<1>5. PICK y : y = Young(window[i])
  OBVIOUS
<1>6. PICK t : t = Young(tokenWindow)
  OBVIOUS
<1>7. /\ y \in Seq(0..WindowMs) /\ Sorted(y)
      /\ \A a \in Recent : Cardinality(UpTo(y, a)) = Cardinality(UpTo(window[i], a))
  BY <1>3, <1>4, <1>5, YoungIs DEF Recent
<1>8. /\ t \in Seq(0..WindowMs) /\ Sorted(t)
      /\ \A a \in Recent : Cardinality(UpTo(t, a)) = Cardinality(UpTo(tokenWindow, a))
  BY <1>3, <1>4, <1>6, YoungIs DEF Recent
<1>9. granted \in GrantedCalls /\ Sorted(Ages(granted))
  BY DEF BudgetInv, Windows
<1>10. own => Cardinality(CallsBy(granted, i, WindowMs - 1)) < PerSession
  BY YoungLengths DEF HasCapacity
<1>11. both => Len(granted) < PerToken
  BY YoungLengths DEF HasCapacity
<1>12. window' = [window EXCEPT ![i] = IF both THEN Append(y, 0) ELSE y]
  BY <1>1, <1>5
<1>13. tokenWindow' = IF both THEN Append(t, 0) ELSE IF own THEN t ELSE tokenWindow
  BY <1>1, <1>6
<1> HIDE DEF own, both
<1>14. CASE ~both
  <2>1. window'[i] = y /\ granted' = granted /\ \A j \in Ids : j # i => window'[j] = window[j]
    BY <1>1, <1>12, <1>14 DEF BudgetInv, Windows
  <2>2. tokenWindow' = t \/ tokenWindow' = tokenWindow
    BY <1>13, <1>14
  <2>3. Windows'
    <3>1. window' \in [Ids -> Seq(0..WindowMs)]
      BY <1>7, <1>12, <1>14 DEF BudgetInv, Windows
    <3> QED BY <1>4, <1>7, <1>8, <2>1, <2>2, <3>1 DEF BudgetInv, Windows
  <2>4. SharedAgrees'
    BY <1>8, <2>1, <2>2 DEF BudgetInv, SharedAgrees
  <2>5. OwnAgrees'
    BY <1>7, <2>1 DEF BudgetInv, OwnAgrees
  <2>6. NoneYet' /\ WithinBudgets'
    BY <1>1, <2>1 DEF BudgetInv, NoneYet, Made, WithinBudgets
  <2> QED BY <2>3, <2>4, <2>5, <2>6 DEF BudgetInv
<1>15. CASE both
  <2>0. own
    BY <1>15 DEF both
  <2>1. PICK z : z = Append(y, 0)
    OBVIOUS
  <2>2. PICK s : s = Append(t, 0)
    OBVIOUS
  <2>3. PICK h : h = Append(granted, <<i, 0>>)
    OBVIOUS
  <2>4. window' = [window EXCEPT ![i] = z] /\ tokenWindow' = s /\ granted' = h
    BY <1>1, <1>12, <1>13, <1>15, <2>1, <2>2, <2>3
  <2>5. window'[i] = z /\ \A j \in Ids : j # i => window'[j] = window[j]
    BY <2>4 DEF BudgetInv, Windows
  <2>6. /\ z \in Seq(0..WindowMs) /\ Sorted(z)
        /\ \A a \in Nat : Cardinality(UpTo(z, a)) = Cardinality(UpTo(y, a)) + 1
    BY <1>3, <1>7, <2>1, RecordedIs
  <2>7. /\ s \in Seq(0..WindowMs) /\ Sorted(s)
        /\ \A a \in Nat : Cardinality(UpTo(s, a)) = Cardinality(UpTo(t, a)) + 1
    BY <1>3, <1>8, <2>2, RecordedIs
  <2>8. /\ h \in GrantedCalls /\ Sorted(Ages(h)) /\ Len(h) = Len(granted) + 1
        /\ \A a \in Recent : Cardinality(UpTo(Ages(h), a)) = Cardinality(UpTo(Ages(granted), a)) + 1
        /\ \A a \in Recent : Cardinality(CallsBy(h, i, a)) = Cardinality(CallsBy(granted, i, a)) + 1
        /\ \A j \in Ids : \A a \in Recent : j # i => CallsBy(h, j, a) = CallsBy(granted, j, a)
    <3>1. \A f : f = Append(granted, <<i, 0>>) => OneMore(granted, f, i)
      BY <1>9, GrantedIs
    <3>2. OneMore(granted, h, i)
      BY <2>3, <3>1
    <3> QED BY <3>2 DEF OneMore
  <2>9. Windows'
    <3>1. window' \in [Ids -> Seq(0..WindowMs)]
      BY <2>4, <2>6 DEF BudgetInv, Windows
    <3> QED BY <2>4, <2>5, <2>6, <2>7, <2>8, <3>1 DEF BudgetInv, Windows
  <2>10. SharedAgrees'
    BY <1>8, <2>4, <2>7, <2>8, LastIsRecent DEF BudgetInv, SharedAgrees
  <2>11. OwnAgrees'
    <3>1. ASSUME NEW j \in Ids, NEW a \in Recent
          PROVE  Cardinality(UpTo(window'[j], a)) = Cardinality(CallsBy(h, j, a))
      <4>1. CASE j = i
        <5>1. Cardinality(UpTo(window[i], a)) = Cardinality(CallsBy(granted, i, a))
          BY DEF BudgetInv, OwnAgrees
        <5> QED BY <1>7, <2>5, <2>6, <2>8, <4>1, <5>1, LastIsRecent
      <4>2. CASE j # i
        BY <2>5, <2>8, <4>2 DEF BudgetInv, OwnAgrees
      <4> QED BY <4>1, <4>2
    <3> QED BY <2>4, <3>1 DEF OwnAgrees
  <2>12. NoneYet'
    <3>1. ASSUME NEW j \in Ids, phase'[j] \in {"unused", "starting"} PROVE Made(j)' = {}
      <4>1. j # i /\ Made(j) = {}
        BY <1>1, <1>2, <3>1 DEF BudgetInv, NoneYet
      <4>2. /\ DOMAIN granted = 1..Len(granted) /\ DOMAIN h = 1..Len(h) /\ Len(granted) \in Nat
            /\ h[Len(granted) + 1] = <<i, 0>> /\ \A k \in 1..Len(granted) : h[k] = granted[k]
        <5>1. granted \in Seq(Callers \X Recent) /\ <<i, 0>> \in Callers \X Recent
          BY <1>9, LastIsRecent DEF GrantedCalls, Callers
        <5>2. h[Len(granted) + 1] = <<i, 0>> /\ \A k \in 1..Len(granted) : h[k] = granted[k]
          BY <2>3, <5>1, AppendProperties
        <5> QED BY <1>9, <2>8, <5>2, GrantedAges
      <4>3. \A k \in DOMAIN h : h[k][1] # j
        BY <2>8, <4>1, <4>2 DEF Made
      <4> QED BY <2>4, <4>3 DEF Made
    <3> QED BY <3>1 DEF NoneYet
  <2>13. WithinBudgets'
    <3>1. Len(h) <= PerToken
      <4>1. Len(granted) \in Nat
        BY <1>9, GrantedAges
      <4> QED BY <1>11, <1>15, <2>8, <4>1, LimitsAreNatural
    <3>2. ASSUME NEW j \in Ids PROVE Cardinality(CallsBy(h, j, WindowMs - 1)) <= PerSession
      <4>1. CASE j = i
        <5>1. Cardinality(CallsBy(granted, i, WindowMs - 1)) \in Nat
          BY <1>9, CallsByFinite DEF GrantedCalls
        <5>2. Cardinality(CallsBy(h, i, WindowMs - 1)) = Cardinality(CallsBy(granted, i, WindowMs - 1)) + 1
          BY <2>8, LastIsRecent
        <5> QED BY <1>10, <2>0, <4>1, <5>1, <5>2, LimitsAreNatural
      <4>2. CASE j # i
        BY <2>8, <4>2, LastIsRecent DEF BudgetInv, WithinBudgets
      <4> QED BY <4>1, <4>2
    <3> QED BY <2>4, <3>1, <3>2 DEF WithinBudgets
  <2> QED BY <2>9, <2>10, <2>11, <2>12, <2>13 DEF BudgetInv
<1> QED BY <1>14, <1>15

\* A tick: what was granted at one age is granted at the next, in every window alike.
LEMMA TickBudgets ==
  ASSUME BudgetInv, Tick
  PROVE  BudgetInv'
<1>1. PICK o : o = [k \in DOMAIN granted |-> <<granted[k][1], granted[k][2] + 1>>]
  OBVIOUS
<1>2. PICK h : h = SubSeq(o, Cardinality({k \in DOMAIN o : o[k][2] >= WindowMs}) + 1, Len(o))
  OBVIOUS
<1>3. PICK v : v = [i \in Ids |-> [k \in DOMAIN window[i] |-> Older(window[i][k], WindowMs)]]
  OBVIOUS
<1>4. PICK t : t = [k \in DOMAIN tokenWindow |-> Older(tokenWindow[k], WindowMs)]
  OBVIOUS
<1>5. granted' = h /\ window' = v /\ tokenWindow' = t /\ phase' = phase
  BY <1>1, <1>2, <1>3, <1>4 DEF Tick
<1>6. granted \in GrantedCalls /\ Sorted(Ages(granted))
  BY DEF BudgetInv, Windows
<1>7. /\ h \in GrantedCalls /\ Sorted(Ages(h)) /\ Len(h) <= Len(granted)
      /\ \A a \in Recent :
           Cardinality(UpTo(Ages(h), a)) = IF a = 0 THEN 0 ELSE Cardinality(UpTo(Ages(granted), a - 1))
      /\ \A i : \A a \in Recent :
           Cardinality(CallsBy(h, i, a)) = IF a = 0 THEN 0 ELSE Cardinality(CallsBy(granted, i, a - 1))
  <2>1. \A q, r : /\ q = [k \in DOMAIN granted |-> <<granted[k][1], granted[k][2] + 1>>]
                 /\ r = SubSeq(q, Cardinality({k \in DOMAIN q : q[k][2] >= WindowMs}) + 1, Len(q))
                 => AllOlder(granted, r)
    BY <1>6, ForgottenIs
  <2>2. AllOlder(granted, h)
    BY <1>1, <1>2, <2>1
  <2> QED BY <2>2 DEF AllOlder
<1>8. /\ t \in Seq(0..WindowMs) /\ Sorted(t)
      /\ \A a \in Recent :
           Cardinality(UpTo(t, a)) = IF a = 0 THEN 0 ELSE Cardinality(UpTo(tokenWindow, a - 1))
  <2>1. tokenWindow \in Seq(0..WindowMs) /\ Sorted(tokenWindow)
    BY DEF BudgetInv, Windows
  <2> QED BY <1>4, <2>1, AgedIs DEF Recent
<1>9. ASSUME NEW i \in Ids
      PROVE  /\ v[i] \in Seq(0..WindowMs) /\ Sorted(v[i])
             /\ \A a \in Recent :
                  Cardinality(UpTo(v[i], a)) = IF a = 0 THEN 0 ELSE Cardinality(UpTo(window[i], a - 1))
  <2>1. window[i] \in Seq(0..WindowMs) /\ Sorted(window[i])
    BY DEF BudgetInv, Windows
  <2>2. PICK u : u = [k \in DOMAIN window[i] |-> Older(window[i][k], WindowMs)]
    OBVIOUS
  <2>3. v[i] = u
    BY <1>3, <2>2
  <2>4. /\ u \in Seq(0..WindowMs) /\ Sorted(u)
        /\ \A a \in Recent :
             Cardinality(UpTo(u, a)) = IF a = 0 THEN 0 ELSE Cardinality(UpTo(window[i], a - 1))
    BY <2>1, <2>2, AgedIs DEF Recent
  <2> QED BY <2>3, <2>4
<1>10. \A a \in Recent : a # 0 => a - 1 \in Recent
  BY LimitsAreNatural DEF Recent
<1>11. Windows'
  <2>1. v \in [Ids -> Seq(0..WindowMs)]
    <3>1. DOMAIN v = Ids /\ v = [i \in Ids |-> v[i]]
      BY <1>3
    <3> QED BY <1>9, <3>1
  <2> QED BY <1>5, <1>7, <1>8, <1>9, <2>1 DEF Windows
<1>12. SharedAgrees'
  BY <1>5, <1>7, <1>8, <1>10 DEF BudgetInv, SharedAgrees
<1>13. OwnAgrees'
  <2>1. ASSUME NEW i \in Ids, NEW a \in Recent
        PROVE  Cardinality(UpTo(v[i], a)) = Cardinality(CallsBy(h, i, a))
    <3>1. Cardinality(UpTo(v[i], a)) = IF a = 0 THEN 0 ELSE Cardinality(UpTo(window[i], a - 1))
      BY <1>9
    <3>2. Cardinality(CallsBy(h, i, a)) = IF a = 0 THEN 0 ELSE Cardinality(CallsBy(granted, i, a - 1))
      BY <1>7
    <3>3. a # 0 => Cardinality(UpTo(window[i], a - 1)) = Cardinality(CallsBy(granted, i, a - 1))
      BY <1>10 DEF BudgetInv, OwnAgrees
    <3> QED BY <3>1, <3>2, <3>3
  <2> QED BY <1>5, <2>1 DEF OwnAgrees
<1>14. \A i \in Ids : Cardinality(CallsBy(h, i, WindowMs - 1)) <= Cardinality(CallsBy(granted, i, WindowMs - 1))
  <2>1. TAKE i \in Ids
  <2>2. /\ Cardinality(CallsBy(granted, i, WindowMs - 1)) \in Nat /\ IsFiniteSet(CallsBy(granted, i, WindowMs - 1))
    BY <1>6, CallsByFinite DEF GrantedCalls
  <2>3. CASE WindowMs - 1 = 0
    <3>1. Cardinality(CallsBy(h, i, WindowMs - 1)) = 0
      BY <1>7, <2>3, LastIsRecent
    <3> QED BY <2>2, <3>1
  <2>4. CASE WindowMs - 1 # 0
    <3>1. Cardinality(CallsBy(h, i, WindowMs - 1)) = Cardinality(CallsBy(granted, i, WindowMs - 1 - 1))
      BY <1>7, <2>4, LastIsRecent
    <3>2. CallsBy(granted, i, WindowMs - 1 - 1) \subseteq CallsBy(granted, i, WindowMs - 1)
      <4>1. \A k \in 1..Len(granted) : granted[k][2] \in Recent
        BY <1>6, GrantedAges
      <4>2. \A x \in Recent : x <= WindowMs - 1 - 1 => x <= WindowMs - 1
        BY LimitsAreNatural DEF Recent
      <4> QED BY <4>1, <4>2 DEF CallsBy
    <3> QED BY <2>2, <3>1, <3>2, FS_Subset
  <2> QED BY <2>3, <2>4
<1>15. WithinBudgets'
  <2>1. Len(h) \in Nat /\ Len(granted) \in Nat
    BY <1>6, <1>7, GrantedAges
  <2>2. Len(h) <= PerToken
    BY <1>7, <2>1, LimitsAreNatural DEF BudgetInv, WithinBudgets
  <2>3. ASSUME NEW i \in Ids PROVE Cardinality(CallsBy(h, i, WindowMs - 1)) <= PerSession
    <3>1. /\ Cardinality(CallsBy(granted, i, WindowMs - 1)) \in Nat
          /\ Cardinality(CallsBy(h, i, WindowMs - 1)) \in Nat
      BY <1>6, <1>7, CallsByFinite DEF GrantedCalls
    <3> QED BY <1>14, <3>1, LimitsAreNatural DEF BudgetInv, WithinBudgets
  <2> QED BY <1>5, <2>2, <2>3 DEF WithinBudgets
<1>16. NoneYet'
  <2>1. ASSUME NEW i \in Ids, phase[i] \in {"unused", "starting"} PROVE Made(i)' = {}
    <3>1. Made(i) = {}
      BY <2>1 DEF BudgetInv, NoneYet
    <3>2. \A a \in Recent : CallsBy(granted, i, a) = {}
      BY <1>6, <3>1, MadeIs, LastIsRecent
    <3>3. Cardinality(CallsBy(h, i, WindowMs - 1)) = 0
      <4>1. Cardinality({}) = 0
        BY FS_EmptySet
      <4>2. \A a \in Recent : Cardinality(CallsBy(granted, i, a)) = 0
        BY <3>2, <4>1
      <4>3. PICK a : a = WindowMs - 1
        OBVIOUS
      <4>4. Cardinality(CallsBy(h, i, a)) = IF a = 0 THEN 0 ELSE Cardinality(CallsBy(granted, i, a - 1))
        BY <1>7, <4>3, LastIsRecent
      <4>5. a # 0 => a - 1 \in Recent
        BY <1>10, <4>3, LastIsRecent
      <4> QED BY <4>2, <4>3, <4>4, <4>5
    <3>4. CallsBy(h, i, WindowMs - 1) = {}
      BY <1>7, <3>3, CallsByFinite, FS_EmptySet DEF GrantedCalls
    <3>5. Made(i)' = CallsBy(h, i, WindowMs - 1)
      <4>1. (granted \in GrantedCalls => Made(i) = CallsBy(granted, i, WindowMs - 1))'
        BY MadeIs, PTL
      <4> QED BY <1>5, <1>7, <4>1
    <3> QED BY <3>4, <3>5
  <2> QED BY <1>5, <2>1 DEF NoneYet
<1> QED BY <1>11, <1>12, <1>13, <1>15, <1>16 DEF BudgetInv

LEMMA StepBudgets == BudgetInv /\ PinsInv /\ [Next]_vars => BudgetInv'
<1> SUFFICES ASSUME BudgetInv, PinsInv, [Next]_vars PROVE BudgetInv'
  OBVIOUS
<1>1. CASE \E i \in Ids, p \in Profiles : Initialize(i, p)
  <2>1. PICK i \in Ids, p \in Profiles : Initialize(i, p)
    BY <1>1
  <2>2. PICK gone \in SUBSET Ids : Start(i, p, gone) /\ phase[i] = "unused" /\ UNCHANGED <<window, tokenWindow, granted>>
    BY <2>1 DEF Initialize, LeastRecentlyUsed, Evictable, Open
  <2> QED BY <2>2, PhaseBudgets DEF PinsInv, Start, Closed
<1>2. CASE \E i \in Ids : Registered(i)
  BY <1>2, RegisteredBudgets
<1>3. CASE \E i \in Ids : NotRegistered(i)
  BY <1>3, PhaseBudgets DEF NotRegistered, Closed
<1>4. CASE \E i \in Ids : Reuse(i)
  BY <1>4, ReuseBudgets
<1>5. CASE Sweep
  BY <1>5, PhaseBudgets DEF Sweep, Closed
<1>6. CASE \E c \in Calls : Delete(c)
  BY <1>6, PhaseBudgets DEF Delete, Closed
<1>7. CASE \E c \in Calls : LlmCall(c)
  BY <1>7, LlmCallBudgets
<1>8. CASE Tick
  BY <1>8, TickBudgets
<1>9. CASE \/ UNCHANGED vars
           \/ \E i \in Ids : Stream(i)
           \/ \E c \in Calls : CallEnds(c) \/ \E i \in Ids : Call(c, i)
  <2>1. UNCHANGED <<phase, window, tokenWindow, granted>>
    BY <1>9 DEF Stream, CallEnds, Call, vars
  <2> QED BY <2>1, PhaseBudgets
<1> QED BY <1>1, <1>2, <1>3, <1>4, <1>5, <1>6, <1>7, <1>8, <1>9 DEF Next

LEMMA BudgetsFollow == BudgetInv => LlmBudgets
<1> SUFFICES ASSUME BudgetInv PROVE LlmBudgets
  OBVIOUS
<1>1. \A i \in Ids : Made(i) = CallsBy(granted, i, WindowMs - 1)
  BY MadeIs DEF BudgetInv, Windows
<1> QED BY <1>1, YoungLengths DEF LlmBudgets, BudgetInv, WithinBudgets

\* No session of readers is granted more LLM calls within one window than its own limit, all of them
\* together not more than the shared one, however many sessions come and go, for all limits; and the
\* windows count exactly the calls that were made: what is refused takes nothing from any budget.
THEOREM BudgetsAlwaysHold == Spec => []LlmBudgets
BY InitPins, StepPins, InitBudgets, StepBudgets, BudgetsFollow, PTL DEF Spec
=============================================================================
