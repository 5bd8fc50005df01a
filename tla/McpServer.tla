------------------------------ MODULE McpServer ------------------------------
(***************************************************************************)
(* The MCP server of a vault over HTTP (apps/mcp/src/http.ts): sessions of *)
(* the two access profiles with their caps, the calls that pin a session,  *)
(* eviction and the sweep of idle sessions, and the two sliding windows    *)
(* that limit the LLM calls of readers (lib/rate-limit.ts, index.ts).      *)
(*                                                                         *)
(* Times are kept as ages, which stop growing at the limit they are        *)
(* compared with.  An id is a session from the initialize request on; when *)
(* it is over it stands for the next session.                              *)
(***************************************************************************)
EXTENDS Integers, Sequences, FiniteSets

CONSTANTS
  Ids,         \* sessions, from the initialize request to their end
  Calls,       \* POST and DELETE requests that name a session
  CapFor,      \* profile -> number of its sessions
  IdleMs,      \* a session is idle when it is older than this
  PerSession, PerToken, WindowMs   \* the limits of readers' LLM calls

Profiles == {"full", "readonly"}

ASSUME IdsFinite == IsFiniteSet(Ids)
ASSUME CallsFinite == IsFiniteSet(Calls)
ASSUME CapsArePositive == CapFor \in [Profiles -> Nat \ {0}]

\* readerLlmRateLimitFromEnv refuses everything else.
ASSUME LimitsAreNatural == PerSession \in Nat /\ PerToken \in Nat /\ WindowMs \in Nat \ {0}

VARIABLES
  phase,      \* id -> where the session is; "open" ids are the keys of the map "sessions"
  profile,    \* id -> the profile of the token that opened it
  seen,       \* id -> age of lastSeen
  inFlight,   \* id -> the counter that pins the session
  pending,    \* profile -> sessions that are initializing
  call,       \* call -> the session it runs in, or nothing
  window,     \* id -> SlidingWindow of its LLM calls, as ages
  tokenWindow,\* the window all readers share
  granted     \* history: <<id, age>> of the LLM calls made within WindowMs, the oldest first and
              \* without the id when its session is forgotten

vars == <<phase, profile, seen, inFlight, pending, call, window, tokenWindow, granted>>

NoSession == "none"

ASSUME NoSessionIsNoId == NoSession \notin Ids

Init ==
  /\ phase = [i \in Ids |-> "unused"] /\ profile = [i \in Ids |-> "full"]
  /\ seen = [i \in Ids |-> 0] /\ inFlight = [i \in Ids |-> 0]
  /\ pending = [p \in Profiles |-> 0] /\ call = [c \in Calls |-> NoSession]
  /\ window = [i \in Ids |-> <<>>] /\ tokenWindow = <<>> /\ granted = <<>>

-----------------------------------------------------------------------------
(* Sessions *)

Open(p) == {i \in Ids : phase[i] = "open" /\ profile[i] = p}
CountFor(p) == pending[p] + Cardinality(Open(p))

\* Bug: running calls do not pin a session.
Evictable_Any(p) == Open(p)

Evictable(p) == {i \in Open(p) : inFlight[i] = 0}

LeastRecentlyUsed(p) == {i \in Evictable(p) : \A j \in Evictable(p) : seen[j] <= seen[i]}

\* Bug: sessions that are initializing do not count.
HasRoom_OpenOnly(p) == Cardinality(Open(p)) < CapFor[p]

HasRoom(p) == CountFor(p) < CapFor[p]

\* What becomes of an id whose session is closed: a call that runs in it goes on.
Closed(gone) == [i \in Ids |-> IF i \in gone THEN "over" ELSE phase[i]]

Start(i, p, gone) ==
  /\ phase' = [Closed(gone) EXCEPT ![i] = "starting"] /\ profile' = [profile EXCEPT ![i] = p]
  /\ pending' = [pending EXCEPT ![p] = @ + 1]

\* A POST without a session whose body, now complete, is an initialize request: there is room, or
\* an old session makes room, one being enough because the count never exceeds the cap.
\* Otherwise the answer is 503 and nothing changes.
Initialize(i, p) ==
  /\ phase[i] = "unused"
  /\ \/ HasRoom(p) /\ Start(i, p, {})
     \/ ~HasRoom(p) /\ \E old \in LeastRecentlyUsed(p) : Start(i, p, {old})
  /\ UNCHANGED <<seen, inFlight, call, window, tokenWindow, granted>>

\* Bug: the finally block counts down again, for a session that was registered.
Settled_FinallyToo(p) == [pending EXCEPT ![p] = @ - 2]

Settled(p) == [pending EXCEPT ![p] = @ - 1]

\* onsessioninitialized: a new server with a new window for its LLM calls.
Registered(i) ==
  /\ phase[i] = "starting"
  /\ phase' = [phase EXCEPT ![i] = "open"]
  /\ pending' = Settled(profile[i])
  /\ seen' = [seen EXCEPT ![i] = 0] /\ inFlight' = [inFlight EXCEPT ![i] = 0]
  /\ window' = [window EXCEPT ![i] = <<>>]
  /\ UNCHANGED <<profile, call, tokenWindow, granted>>

Released(p) == [pending EXCEPT ![p] = @ - 1]

\* The transport refuses the request, or connect throws: the finally block.
NotRegistered(i) ==
  /\ phase[i] = "starting"
  /\ phase' = Closed({i}) /\ pending' = Released(profile[i])
  /\ UNCHANGED <<profile, seen, inFlight, call, window, tokenWindow, granted>>

\* The interval timer.
Idle == {i \in Ids : phase[i] = "open" /\ inFlight[i] = 0 /\ seen[i] > IdleMs}

Sweep ==
  /\ Idle # {} /\ phase' = Closed(Idle)
  /\ UNCHANGED <<profile, seen, inFlight, pending, call, window, tokenWindow, granted>>

\* An id without a session and without a call stands for the next session: what the last one
\* was granted still counts for all readers.
Reuse(i) ==
  /\ phase[i] = "over" /\ \A c \in Calls : call[c] # i
  /\ phase' = [phase EXCEPT ![i] = "unused"] /\ profile' = [profile EXCEPT ![i] = "full"]
  /\ seen' = [seen EXCEPT ![i] = 0] /\ inFlight' = [inFlight EXCEPT ![i] = 0]
  /\ window' = [window EXCEPT ![i] = <<>>]
  /\ granted' = [k \in DOMAIN granted |-> IF granted[k][1] = i THEN <<NoSession, granted[k][2]>> ELSE granted[k]]
  /\ UNCHANGED <<pending, call, tokenWindow>>

-----------------------------------------------------------------------------
(* Requests of a session, with the token of its profile *)

Seen(i) == seen' = [seen EXCEPT ![i] = 0]

\* A GET opens the stream of notifications and pins nothing.
Stream(i) ==
  /\ phase[i] = "open" /\ Seen(i)
  /\ UNCHANGED <<phase, profile, inFlight, pending, call, window, tokenWindow, granted>>

Call(c, i) ==
  /\ call[c] = NoSession /\ phase[i] = "open"
  /\ call' = [call EXCEPT ![c] = i] /\ Seen(i)
  /\ inFlight' = [inFlight EXCEPT ![i] = @ + 1]
  /\ UNCHANGED <<phase, profile, pending, window, tokenWindow, granted>>

\* res "close".
CallEnds(c) ==
  /\ call[c] # NoSession
  /\ call' = [call EXCEPT ![c] = NoSession] /\ Seen(call[c])
  /\ inFlight' = [inFlight EXCEPT ![call[c]] = @ - 1]
  /\ UNCHANGED <<phase, profile, pending, window, tokenWindow, granted>>

\* The call is a DELETE: the transport closes, whatever else runs in the session.
Delete(c) ==
  /\ call[c] # NoSession /\ phase[call[c]] = "open"
  /\ phase' = Closed({call[c]})
  /\ UNCHANGED <<profile, seen, inFlight, pending, call, window, tokenWindow, granted>>

-----------------------------------------------------------------------------
(* LLM calls of readers *)

\* hasCapacity shifts out what is old as long as it stands at the head, and counts the rest.
Shifted(w) == CHOOSE n \in 0..Len(w) : /\ \A k \in 1..n : w[k] >= WindowMs
                                       /\ n < Len(w) => w[n + 1] < WindowMs
Young(w) == SubSeq(w, Shifted(w) + 1, Len(w))

HasCapacity(w, limit) == Len(Young(w)) < limit

\* acquireAll stops at the first window without capacity, and records in all or in none.
\* Bug: a window records as soon as it has capacity.
Recorded_AtOnce(w, mine, both) == IF mine THEN Append(Young(w), 0) ELSE Young(w)

Recorded(w, mine, both) == IF both THEN Append(Young(w), 0) ELSE Young(w)

LlmCall(c) ==
  LET i    == call[c]
      own  == HasCapacity(window[i], PerSession)
      both == own /\ HasCapacity(tokenWindow, PerToken)
  IN /\ i # NoSession /\ profile[i] = "readonly"
     /\ window' = [window EXCEPT ![i] = Recorded(@, own, both)]
     /\ tokenWindow' = IF both THEN Append(Young(tokenWindow), 0)
                       ELSE IF own THEN Young(tokenWindow) ELSE tokenWindow
     /\ granted' = IF both THEN Append(granted, <<i, 0>>) ELSE granted
     /\ UNCHANGED <<phase, profile, seen, inFlight, pending, call>>

-----------------------------------------------------------------------------
Older(age, limit) == IF age < limit THEN age + 1 ELSE age

Tick ==
  LET aged(w) == [k \in DOMAIN w |-> Older(w[k], WindowMs)]
      older == [k \in DOMAIN granted |-> <<granted[k][1], granted[k][2] + 1>>]
      past  == Cardinality({k \in DOMAIN older : older[k][2] >= WindowMs})
  IN /\ seen' = [i \in Ids |-> IF phase[i] = "open" THEN Older(seen[i], IdleMs + 1) ELSE seen[i]]
     /\ window' = [i \in Ids |-> aged(window[i])] /\ tokenWindow' = aged(tokenWindow)
     /\ granted' = SubSeq(older, past + 1, Len(older))
     /\ UNCHANGED <<phase, profile, inFlight, pending, call>>

Next ==
  \/ Sweep \/ Tick
  \/ \E i \in Ids :
       \/ \E p \in Profiles : Initialize(i, p)
       \/ Registered(i) \/ NotRegistered(i) \/ Reuse(i) \/ Stream(i)
  \/ \E c \in Calls : CallEnds(c) \/ Delete(c) \/ LlmCall(c) \/ \E i \in Ids : Call(c, i)

Spec == Init /\ [][Next]_vars

-----------------------------------------------------------------------------
(* Properties *)

Phases == {"unused", "starting", "open", "over"}

\* Types of the variables.
TypeOK ==
  /\ phase \in [Ids -> Phases] /\ profile \in [Ids -> Profiles]
  /\ seen \in [Ids -> 0..IdleMs + 1] /\ inFlight \in [Ids -> 0..Cardinality(Calls)]
  /\ pending \in [Profiles -> Nat] /\ call \in [Calls -> Ids \cup {NoSession}]
  /\ window \in [Ids -> Seq(0..WindowMs)] /\ tokenWindow \in Seq(0..WindowMs)
  /\ granted \in Seq((Ids \cup {NoSession}) \X Nat)

Starting(p) == {i \in Ids : phase[i] = "starting" /\ profile[i] = p}

\* Neither profile has more sessions than its cap, those that are initializing included, and what
\* is counted as initializing is initializing: nothing that fails is counted for ever.
SessionsWithinCaps ==
  \A p \in Profiles :
    /\ CountFor(p) <= CapFor[p]
    /\ pending[p] = Cardinality(Starting(p))

Made(i) == {k \in DOMAIN granted : granted[k][1] = i}

\* Of the LLM calls made within one window no session has made more than PerSession and all
\* readers together not more than PerToken, however many sessions were opened and closed; and a
\* refused call takes nothing from any budget.
LlmBudgets ==
  /\ Len(Young(tokenWindow)) = Len(granted) /\ Len(granted) <= PerToken
  /\ \A i \in Ids : Len(Young(window[i])) = Cardinality(Made(i)) /\ Cardinality(Made(i)) <= PerSession

CallsOf(i) == {c \in Calls : call[c] = i}

\* Why an open session may be closed: its client ends it, or it has no call and is idle or makes
\* room for one of its own profile.
ClosedForCause(i) ==
  \/ \E c \in Calls : Delete(c) /\ call[c] = i
  \/ /\ CallsOf(i) = {}
     /\ \/ seen[i] > IdleMs
        \/ \E j \in Ids : phase[j] = "unused" /\ phase'[j] = "starting" /\ profile'[j] = profile[i]

\* No initialize request and no timer closes a session in which a call is running, and none
\* closes a session of the other profile: only its own client can.
PinnedSessionsStay ==
  [][\A i \in Ids : phase[i] = "open" /\ phase'[i] # "open" => ClosedForCause(i)]_vars
=============================================================================
