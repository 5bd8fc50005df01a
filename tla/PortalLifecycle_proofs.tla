------------------------ MODULE PortalLifecycle_proofs ------------------------
(***************************************************************************)
(* Types of the portal and its provisioning, and the slots of the vaults   *)
(* as a pool, for any number of employees, slots and calls, any failures   *)
(* and restarts.  Off means off, and readers of a leaky vault stay out,    *)
(* where no call is cut off halfway; groups, web sessions and keys are     *)
(* those of the state where no call fails.                                 *)
(***************************************************************************)
EXTENDS PortalLifecycle, FiniteSetTheorems, SequenceTheorems, WellFoundedInduction, TLAPS

-----------------------------------------------------------------------------
(* Least elements *)

\* A non-empty set of natural numbers has a least element.
LEMMA LeastNat ==
  ASSUME NEW T \in SUBSET Nat, T # {}
  PROVE  \E x \in T : \A y \in T : x <= y
<1>1. IsWellFoundedOn(OpToRel(<, Nat), Nat)
  BY NatLessThanWellFounded
<1>2. PICK R : R = OpToRel(<, Nat)
  OBVIOUS
<1>3. \A x, y \in Nat : x < y => <<x, y>> \in R
  BY <1>2, Zenon DEF OpToRel
<1>4. PICK x \in T : \A y \in T : ~(<<y, x>> \in R)
  BY <1>1, <1>2, WFMin, Zenon
<1>5. \A y \in T : ~(y < x)
  BY <1>3, <1>4
<1> QED BY <1>5

\* A finite set of natural numbers has a greatest element.
LEMMA MaxNat ==
  ASSUME NEW S \in SUBSET Nat, IsFiniteSet(S), S # {}
  PROVE  Max(S) \in S /\ \A x \in S : x <= Max(S)
<1> DEFINE HasMax(T) == \E x \in T : \A y \in T : y <= x
           Without == {T \in SUBSET S : T # {} /\ ~HasMax(T)}
<1>1. Without = {}
  <2> SUFFICES ASSUME Without # {} PROVE FALSE
    OBVIOUS
  <2> DEFINE Sizes == {Cardinality(T) : T \in Without}
  <2>1. \A T \in Without : IsFiniteSet(T) /\ Cardinality(T) \in Nat
    BY FS_Subset, FS_CardinalityType
  <2>2. Sizes \in SUBSET Nat /\ Sizes # {}
    BY <2>1
  <2>3. PICK k \in Sizes : \A l \in Sizes : k <= l
    <3> HIDE DEF Sizes
    <3> QED BY <2>2, LeastNat
  <2>4. PICK T \in Without : \A U \in Without : Cardinality(T) <= Cardinality(U)
    BY <2>3
  <2>5. PICK x \in T : TRUE
    OBVIOUS
  <2>6. IsFiniteSet(T) /\ Cardinality(T \ {x}) = Cardinality(T) - 1 /\ Cardinality(T) \in Nat
    BY <2>1, <2>5, FS_RemoveElement
  <2>7. T \ {x} \notin Without
    <3> HIDE DEF Without
    <3>1. SUFFICES ASSUME T \ {x} \in Without PROVE FALSE
      OBVIOUS
    <3>2. Cardinality(T) <= Cardinality(T \ {x})
      BY <2>4, <3>1
    <3> QED BY <2>6, <3>2
  <2>8. T \in SUBSET S /\ ~HasMax(T)
    OBVIOUS
  <2>9. CASE T \ {x} = {}
    BY <2>5, <2>8, <2>9
  <2>10. CASE HasMax(T \ {x})
    <3>1. PICK z \in T \ {x} : \A y \in T \ {x} : y <= z
      BY <2>10
    <3>2. x \in Nat /\ z \in Nat /\ T \subseteq Nat
      BY <2>5, <2>8, <3>1
    <3>3. CASE z <= x
      <4>1. \A y \in T : y <= x
        BY <3>1, <3>2, <3>3
      <4> QED BY <2>5, <2>8, <4>1
    <3>4. CASE x <= z
      <4>1. \A y \in T : y <= z
        BY <3>1, <3>4
      <4> QED BY <2>8, <3>1, <4>1
    <3> QED BY <3>2, <3>3, <3>4
  <2> QED BY <2>5, <2>7, <2>8, <2>9, <2>10
<1>2. PICK x \in S : \A y \in S : y <= x
  BY <1>1
<1>3. \E m \in S : \A y \in S : m >= y
  BY <1>2
<1> QED BY <1>3 DEF Max

\* The users of a run are taken in the order of their slots: there always is a next one.
LEMMA NextInOrder ==
  ASSUME NEW S \in SUBSET Names, S # {}, NEW spec \in Specs
  PROVE  \E n \in S : \A m \in S : spec[n].slot <= spec[m].slot
<1> DEFINE T == {spec[n].slot : n \in S}
<1>1. \A n \in Names : spec[n].slot \in Nat
  <2> SUFFICES ASSUME NEW n \in Names PROVE spec[n].slot \in Nat
    OBVIOUS
  <2>1. spec[n] \in Access \cup {NoAccess}
    BY DEF Specs
  <2>2. CASE spec[n] \in Access
    BY <2>2, ProvisionerAssumption DEF Access
  <2>3. CASE spec[n] = NoAccess
    BY <2>3 DEF NoAccess
  <2> QED BY <2>1, <2>2, <2>3
<1>2. T \in SUBSET Nat /\ T # {}
  BY <1>1
<1>3. PICK x \in T : \A y \in T : x <= y
  BY <1>2, LeastNat
<1> QED BY <1>3

-----------------------------------------------------------------------------
(* The stages of an operation *)

StagesOf(op) ==
  CASE op = "invite"      -> {"ensure", "savepk", "rollback", "link", "provision", "waiting"}
    [] op = "resend"      -> {"ensure", "savepk", "link"}
    [] op = "role"        -> {"revoke", "patch", "ensure", "savepk", "rollback", "groups", "sessions",
                              "provision", "waiting"}
    [] op = "disable"     -> {"revoke", "patch", "deactivate", "sessions", "provision", "waiting"}
    [] op = "enable"      -> {"ensure", "savepk", "activate", "status", "provision", "waiting"}
    [] op = "remove"      -> {"revoke", "patch", "deactivate", "sessions", "delete", "retire",
                              "provision", "waiting"}
    [] op = "rotate"      -> {"provision", "waiting"}
    [] op = "reprovision" -> {"provision", "waiting"}
    [] OTHER              -> {"idle"}

OpsOnUser == {"resend", "role", "disable", "enable", "remove", "rotate"}

\* A call goes through the stages of its operation, and knows the employee it is for.
StageOK(call) ==
  /\ call.pc \in StagesOf(call.op)
  /\ call.op \in OpsOnUser \cup {"invite"} => call.name \in Names /\ call.u \in UserRecord
  /\ call.op = "role" => call.role \in Roles

Stages == \A c \in Calls : StageOK(calls[c])

\* A run is somebody's, and it treats a user between the servers and the key.
RunIsFor ==
  /\ run.step = "none" => run = NoRun
  /\ run.step # "none" => run.call \in Calls
  /\ run.step \in {"keys", "issue"} => run.at \in Names

TypeInv == TypeOK /\ Stages /\ RunIsFor

-----------------------------------------------------------------------------
(* Types: the provisioning *)

LEMMA NoRunTyped == NoRun \in RunRecord
  BY DEF NoRun, RunRecord, Specs

\* The part of the invariant that a step of a run disturbs.
RunTyped == run \in RunRecord /\ RunIsFor /\ mcp \in [Names -> McpRecord] /\ faults \in 0..MaxFaults

LEMMA FaultsTyped ==
  ASSUME NEW kind, faults \in 0..MaxFaults, Fails(kind) \/ Works
  PROVE  faults' \in 0..MaxFaults
  BY ProvisionerAssumption DEF Fails, Works

LEMMA UserDoneTyped ==
  ASSUME run \in RunRecord, run.step # "none", RunIsFor, NEW n \in Names,
         run' \in {UserOk(n), UserFailed(n)}
  PROVE  run' \in RunRecord /\ RunIsFor'
<1>1. UserDone(n) \in RunRecord /\ UserDone(n).step = "users" /\ UserDone(n).call = run.call
  BY DEF UserDone, RunRecord
<1>2. UserOk(n) \in RunRecord /\ UserOk(n).step = "users" /\ UserOk(n).call = run.call
  BY <1>1 DEF UserOk, RunRecord
<1>3. UserFailed(n) \in RunRecord /\ UserFailed(n).step = "users" /\ UserFailed(n).call = run.call
  BY <1>1 DEF UserFailed, RunRecord
<1> QED BY <1>2, <1>3 DEF RunIsFor

LEMMA KeyDeletedTyped ==
  ASSUME NEW n \in Names, mcp \in [Names -> McpRecord]
  PROVE  KeysDeleted(n) \in [Names -> McpRecord]
  BY DEF KeysDeleted, McpRecord

\* Someone is being treated: the step is none of "none" and names the user.
LEMMA RunStepTyped ==
  ASSUME RunTyped, RunStep
  PROVE  RunTyped'
<1> USE DEF RunTyped
<1>1. CASE \E n \in Names : RemoveAccount(n)
  <2> PICK n \in Names : RemoveAccount(n)
    BY <1>1
  <2>1. run.step # "none"
    BY DEF RemoveAccount, RunIsFor, NoRun
  <2>2. faults' \in 0..MaxFaults
    BY FaultsTyped DEF RemoveAccount
  <2>3. mcp' \in [Names -> McpRecord]
    <3>1. NoMcp \in McpRecord
      BY DEF NoMcp, McpRecord
    <3>2. [mcp EXCEPT ![n] = NoMcp] \in [Names -> McpRecord]
      BY <3>1
    <3> QED BY <3>2, KeyDeletedTyped DEF RemoveAccount
  <2>4. run' \in RunRecord /\ run'.step = run.step /\ run'.call = run.call /\ run'.at = run.at
    BY DEF RemoveAccount, RunRecord
  <2> QED BY <2>1, <2>2, <2>3, <2>4 DEF RunIsFor
<1>2. CASE ReconcileServers
  <2>1. run.step = "users" /\ run.spec \in Specs /\ run.todo \in SUBSET Names /\ run.todo # {}
    BY <1>2 DEF ReconcileServers, RunRecord
  <2> DEFINE n == NextUser
  <2>2. n \in Names
    BY <2>1, NextInOrder DEF NextUser
  <2> HIDE DEF n
  <2>3. faults' \in 0..MaxFaults
    BY <1>2, FaultsTyped DEF ReconcileServers
  <2>4. run.spec[n] \in Access \cup {NoAccess}
    BY <2>1, <2>2 DEF Specs
  <2>5. CASE /\ mcp' = [mcp EXCEPT ![n].account = TRUE, ![n].servers = run.spec[n]]
             /\ run' = [run EXCEPT !.at = n, !.step = "keys",
                                   !.changed = mcp[n].servers \notin {NoAccess, run.spec[n]}]
    <3>1. mcp' \in [Names -> McpRecord]
      BY <2>2, <2>4, <2>5 DEF McpRecord
    <3>2. run' \in RunRecord /\ run'.step = "keys" /\ run'.call = run.call /\ run'.at = n
      BY <2>2, <2>5 DEF RunRecord
    <3> QED BY <2>1, <2>2, <2>3, <3>1, <3>2 DEF RunIsFor
  <2>6. CASE mcp' = [mcp EXCEPT ![n].account = TRUE] /\ run' = UserFailed(n)
    <3>1. mcp' \in [Names -> McpRecord]
      BY <2>2, <2>6 DEF McpRecord
    <3> QED BY <2>1, <2>2, <2>3, <2>6, <3>1, UserDoneTyped
  <2> QED BY <1>2, <2>5, <2>6 DEF ReconcileServers, n
<1>3. CASE ReconcileKeys
  <2>1. run.step = "keys" /\ run.at \in Names
    BY <1>3 DEF ReconcileKeys, RunIsFor
  <2>2. faults' \in 0..MaxFaults
    BY <1>3, FaultsTyped DEF ReconcileKeys
  <2>3. mcp' \in [Names -> McpRecord]
    BY <1>3, <2>1, KeyDeletedTyped DEF ReconcileKeys
  <2>4. CASE run' = [run EXCEPT !.step = "issue"]
    BY <2>1, <2>2, <2>3, <2>4 DEF RunIsFor, RunRecord
  <2>5. CASE run' \in {UserOk(run.at), UserFailed(run.at)}
    BY <2>1, <2>2, <2>3, <2>5, UserDoneTyped
  <2> QED BY <1>3, <2>4, <2>5 DEF ReconcileKeys
<1>4. CASE IssueKey
  <2>1. run.step = "issue" /\ run.at \in Names
    BY <1>4 DEF IssueKey, RunIsFor
  <2>2. faults' \in 0..MaxFaults
    BY <1>4, FaultsTyped DEF IssueKey
  <2>3. [mcp EXCEPT ![run.at].key = mcp[run.at].servers] \in [Names -> McpRecord]
    BY <2>1 DEF McpRecord
  <2>4. mcp' \in [Names -> McpRecord]
    BY <1>4, <2>3 DEF IssueKey
  <2>5. run' \in {UserOk(run.at), UserFailed(run.at)}
    BY <1>4 DEF IssueKey
  <2> QED BY <2>1, <2>2, <2>4, <2>5, UserDoneTyped
<1>5. CASE Tripwire
  <2>1. run.step = "users" /\ run.spec \in Specs /\ run.clients \in SUBSET Names /\ run.clients # {}
    BY <1>5 DEF Tripwire, RunRecord
  <2> DEFINE n == CHOOSE m \in run.clients :
                    \A k \in run.clients : run.spec[m].slot <= run.spec[k].slot
             passed == [run EXCEPT !.clients = @ \ {n}]
             failed == [passed EXCEPT !.failed = @ \cup {n}]
  <2>2. n \in Names
    BY <2>1, NextInOrder
  <2> HIDE DEF n
  <2>3. faults' \in 0..MaxFaults
    BY <1>5, FaultsTyped DEF Tripwire
  <2>4. mcp' = mcp \/ mcp' = KeysDeleted(n)
    BY <1>5 DEF Tripwire, n
  <2>5. mcp' \in [Names -> McpRecord]
    BY <2>2, <2>4, KeyDeletedTyped
  <2>6. run' = passed \/ run' = failed
    BY <1>5 DEF Tripwire, n
  <2>7. passed \in RunRecord /\ passed.step = run.step /\ passed.call = run.call
    BY <2>2 DEF RunRecord
  <2>8. failed \in RunRecord /\ failed.step = run.step /\ failed.call = run.call
    BY <2>2, <2>7 DEF RunRecord
  <2> QED BY <2>1, <2>3, <2>5, <2>6, <2>7, <2>8 DEF RunIsFor
<1> QED BY <1>1, <1>2, <1>3, <1>4, <1>5 DEF RunStep

LEMMA StartRunTyped ==
  ASSUME RunTyped, queue \in Seq([call : Calls, rotate : SUBSET Names]),
         NEW spec \in Specs, StartRun(spec)
  PROVE  RunTyped' /\ queue' \in Seq([call : Calls, rotate : SUBSET Names])
<1> DEFINE head == Head(queue)
           fresh == [NoRun EXCEPT !.call = head.call, !.rotate = head.rotate,
                                  !.spec = spec, !.step = "users"]
           entry == [call : Calls, rotate : SUBSET Names]
<1>1. head \in entry /\ queue' \in Seq(entry)
  <2>1. queue # <<>> /\ queue' = Tail(queue)
    BY DEF StartRun
  <2> HIDE DEF entry
  <2> QED BY <2>1, HeadTailProperties DEF entry
<1>2. fresh \in RunRecord /\ fresh.step = "users" /\ fresh.call \in Calls
  BY <1>1 DEF NoRun, RunRecord
<1>3. faults' \in 0..MaxFaults
  BY FaultsTyped DEF StartRun, RunTyped
<1>4. Listed(spec) \subseteq Names
  BY DEF Listed
<1>5. PICK gone \in SUBSET Names : run' \in {
          [fresh EXCEPT !.todo = Listed(spec), !.removals = gone],
          [fresh EXCEPT !.failed = Listed(spec), !.error = TRUE],
          [fresh EXCEPT !.todo = Listed(spec), !.error = TRUE]}
  BY DEF StartRun
<1> HIDE DEF fresh
<1>6. run' \in RunRecord /\ run'.step = "users" /\ run'.call \in Calls
  BY ZenonT(30), <1>2, <1>4, <1>5 DEF RunRecord
<1> QED BY <1>1, <1>3, <1>6 DEF RunTyped, RunIsFor, StartRun

-----------------------------------------------------------------------------
(* Types: the operations *)

CallsTyped == calls \in [Calls -> CallRecord] /\ Stages

LEMMA CallBecomes ==
  ASSUME CallsTyped, NEW c \in Calls, NEW r \in CallRecord, StageOK(r), calls' = [calls EXCEPT ![c] = r]
  PROVE  CallsTyped'
<1>1. calls' \in [Calls -> CallRecord]
  BY DEF CallsTyped
<1>2. \A d \in Calls : calls'[d] = IF d = c THEN r ELSE calls[d]
  BY DEF CallsTyped
<1>3. \A d \in Calls : StageOK(calls'[d])
  BY <1>2 DEF CallsTyped, Stages
<1> QED BY <1>1, <1>3 DEF CallsTyped, Stages

LEMMA ReturnTyped ==
  ASSUME CallsTyped, NEW c \in Calls, Return(c)
  PROVE  CallsTyped'
<1>1. Idle \in CallRecord
  BY DEF Idle, CallRecord, PCs
<1>2. StageOK(Idle)
  BY DEF Idle, StageOK, StagesOf, OpsOnUser
<1> QED BY <1>1, <1>2, CallBecomes DEF Return

LEMMA StagesAreStages ==
  ASSUME NEW op
  PROVE  StagesOf(op) \subseteq PCs
  BY DEF StagesOf, PCs

LEMMA MovedTyped ==
  ASSUME CallsTyped, NEW c \in Calls, NEW pc \in StagesOf(calls[c].op)
  PROVE  /\ [calls[c] EXCEPT !.pc = pc] \in CallRecord
         /\ StageOK([calls[c] EXCEPT !.pc = pc])
<1>1. calls[c] \in CallRecord /\ StageOK(calls[c]) /\ pc \in PCs
  BY StagesAreStages DEF CallsTyped, Stages
<1>2. [calls[c] EXCEPT !.pc = pc] \in CallRecord
  BY <1>1 DEF CallRecord
<1>3. StageOK([calls[c] EXCEPT !.pc = pc])
  BY <1>1 DEF StageOK, CallRecord
<1> QED BY <1>2, <1>3

LEMMA ToTyped ==
  ASSUME CallsTyped, NEW c \in Calls, NEW pc \in StagesOf(calls[c].op), To(c, pc)
  PROVE  CallsTyped'
<1>1. calls' = [calls EXCEPT ![c] = [calls[c] EXCEPT !.pc = pc]]
  BY DEF To, CallsTyped
<1> QED BY <1>1, MovedTyped, CallBecomes

\* A failure is remembered on the way.
LEMMA UncleanTyped ==
  ASSUME CallsTyped, NEW c \in Calls, NEW pc \in StagesOf(calls[c].op),
         calls' = [calls EXCEPT ![c].pc = pc, ![c].clean = FALSE]
  PROVE  CallsTyped'
<1> DEFINE moved == [calls[c] EXCEPT !.pc = pc]
           r     == [moved EXCEPT !.clean = FALSE]
<1>1. moved \in CallRecord /\ StageOK(moved)
  BY MovedTyped
<1>2. calls' = [calls EXCEPT ![c] = r]
  BY DEF CallsTyped
<1> HIDE DEF moved
<1>3. r \in CallRecord
  BY <1>1 DEF CallRecord
<1>4. r.op = moved.op /\ r.pc = moved.pc /\ r.name = moved.name /\ r.u = moved.u /\ r.role = moved.role
  BY <1>1 DEF CallRecord
<1>5. StageOK(r)
  BY <1>1, <1>4 DEF StageOK
<1> QED BY <1>2, <1>3, <1>5, CallBecomes

\* The account that was found is remembered on the way.
LEMMA EnsuredTyped ==
  ASSUME CallsTyped, NEW c \in Calls, NEW pc \in StagesOf(calls[c].op), NEW pk \in Nat,
         calls' = [calls EXCEPT ![c].pc = pc, ![c].pk = pk]
  PROVE  CallsTyped'
<1> DEFINE moved == [calls[c] EXCEPT !.pc = pc]
           r     == [moved EXCEPT !.pk = pk]
<1>1. moved \in CallRecord /\ StageOK(moved)
  BY MovedTyped
<1>2. calls' = [calls EXCEPT ![c] = r]
  BY DEF CallsTyped
<1> HIDE DEF moved
<1>3. r \in CallRecord
  BY <1>1 DEF CallRecord
<1>4. r.op = moved.op /\ r.pc = moved.pc /\ r.name = moved.name /\ r.u = moved.u /\ r.role = moved.role
  BY <1>1 DEF CallRecord
<1>5. StageOK(r)
  BY <1>1, <1>4 DEF StageOK
<1> QED BY <1>2, <1>3, <1>5, CallBecomes

\* An operation that leaves something half done is one on an employee.
LEMMA HalfDoneTyped ==
  ASSUME CallsTyped, NEW c \in Calls
  PROVE  HalfDone(c) \subseteq Names
<1>1. StageOK(calls[c])
  BY DEF CallsTyped, Stages
<1> QED BY <1>1 DEF HalfDone, StageOK, OpsOnUser

\* What an operation that answers leaves: its place is free again, and the promise may be noted.
LEMMA AnsweredTyped ==
  ASSUME CallsTyped, off \subseteq Names /\ erred \subseteq Names, NEW c \in Calls, Succeed(c) \/ Throw(c)
  PROVE  CallsTyped' /\ off' \subseteq Names /\ erred' \subseteq Names
<1>1. Return(c)
  BY DEF Succeed, Throw
<1>2. CASE Throw(c)
  <2>1. HalfDone(c) \subseteq Names
    BY HalfDoneTyped
  <2> QED BY <1>1, <1>2, <2>1, ReturnTyped DEF Throw
<1>3. CASE Succeed(c)
  <2>1. StageOK(calls[c])
    BY DEF CallsTyped, Stages
  <2>2. calls[c].op \in {"disable", "remove"} => calls[c].name \in Names
    BY <2>1 DEF StageOK, OpsOnUser
  <2>3. off' \subseteq Names
    BY <1>3, <2>2 DEF Succeed
  <2>4. erred' \subseteq Names
    BY <1>3 DEF Succeed
  <2> QED BY <1>1, <2>3, <2>4, ReturnTyped
<1> QED BY <1>2, <1>3

\* How the steps move an operation on.
Moves(c) ==
  \/ Succeed(c) \/ Throw(c)
  \/ \E pc \in StagesOf(calls[c].op) : ToQuietly(c, pc)
  \/ \E pc \in StagesOf(calls[c].op) :
       calls' = [calls EXCEPT ![c].pc = pc, ![c].clean = FALSE] /\ UNCHANGED <<off, erred>>
  \/ \E pc \in StagesOf(calls[c].op), pk \in Nat :
       calls' = [calls EXCEPT ![c].pc = pc, ![c].pk = pk] /\ UNCHANGED <<off, erred>>

LEMMA MovesTyped ==
  ASSUME CallsTyped, off \subseteq Names /\ erred \subseteq Names, NEW c \in Calls, Moves(c)
  PROVE  CallsTyped' /\ off' \subseteq Names /\ erred' \subseteq Names
<1>1. CASE Succeed(c) \/ Throw(c)
  BY <1>1, AnsweredTyped
<1>2. CASE \E pc \in StagesOf(calls[c].op) : ToQuietly(c, pc)
  BY <1>2, ToTyped DEF ToQuietly
<1>3. CASE \E pc \in StagesOf(calls[c].op) :
             calls' = [calls EXCEPT ![c].pc = pc, ![c].clean = FALSE] /\ UNCHANGED <<off, erred>>
  BY <1>3, UncleanTyped
<1>4. CASE \E pc \in StagesOf(calls[c].op), pk \in Nat :
             calls' = [calls EXCEPT ![c].pc = pc, ![c].pk = pk] /\ UNCHANGED <<off, erred>>
  BY <1>4, EnsuredTyped
<1> QED BY <1>1, <1>2, <1>3, <1>4 DEF Moves

\* Which stage an operation goes to next: always one of its own.
LEMMA NextStages ==
  ASSUME TypeInv, NEW c \in Calls
  PROVE  /\ calls[c] \in CallRecord /\ StageOK(calls[c])
         /\ At(c, "revoke") => "patch" \in StagesOf(calls[c].op)
         /\ At(c, "patch") => AfterPatch(calls[c]) \in StagesOf(calls[c].op)
         /\ At(c, "ensure") => "savepk" \in StagesOf(calls[c].op)
         /\ At(c, "savepk") => AfterEnsure(calls[c].op) \in StagesOf(calls[c].op)
         /\ At(c, "savepk") /\ calls[c].op = "role" => "rollback" \in StagesOf(calls[c].op)
         /\ At(c, "groups") => {"sessions", "rollback"} \subseteq StagesOf(calls[c].op)
         /\ At(c, "deactivate") => {"sessions", "provision"} \subseteq StagesOf(calls[c].op)
         /\ At(c, "sessions") => "provision" \in StagesOf(calls[c].op)
         /\ At(c, "sessions") /\ calls[c].op = "remove" => "delete" \in StagesOf(calls[c].op)
         /\ At(c, "delete") => {"retire", "provision"} \subseteq StagesOf(calls[c].op)
         /\ At(c, "retire") => "provision" \in StagesOf(calls[c].op)
         /\ At(c, "activate") => "status" \in StagesOf(calls[c].op)
         /\ At(c, "status") => "provision" \in StagesOf(calls[c].op)
         /\ At(c, "provision") => "waiting" \in StagesOf(calls[c].op)
<1>1. calls[c] \in CallRecord /\ StageOK(calls[c])
  BY DEF TypeInv, TypeOK, Stages
<1>2. calls[c].pc \in StagesOf(calls[c].op)
  BY <1>1 DEF StageOK
<1> DEFINE op == calls[c].op
           pc == calls[c].pc
<1>3. /\ pc = "revoke" => op \in {"role", "disable", "remove"}
      /\ pc = "patch" => op \in {"role", "disable", "remove"}
      /\ pc = "ensure" => op \in {"invite", "resend", "role", "enable"}
      /\ pc = "savepk" => op \in {"invite", "resend", "role", "enable"}
      /\ pc = "groups" => op = "role"
      /\ pc = "deactivate" => op \in {"disable", "remove"}
      /\ pc = "sessions" => op \in {"role", "disable", "remove"}
      /\ pc = "delete" => op = "remove"
      /\ pc = "retire" => op = "remove"
      /\ pc \in {"activate", "status"} => op = "enable"
      /\ pc = "provision" => op \in {"invite", "role", "disable", "enable", "remove", "rotate", "reprovision"}
  BY <1>2 DEF StagesOf
<1>4. pc = "patch" => AfterPatch(calls[c]) \in StagesOf(calls[c].op)
  BY <1>3 DEF AfterPatch, StagesOf
<1>5. pc = "savepk" => AfterEnsure(calls[c].op) \in StagesOf(calls[c].op)
  BY <1>3 DEF AfterEnsure, StagesOf
<1>6. /\ pc = "delete" => {"retire", "provision"} \subseteq StagesOf(op)
      /\ pc = "deactivate" => {"sessions", "provision"} \subseteq StagesOf(op)
      /\ pc = "groups" => {"sessions", "rollback"} \subseteq StagesOf(op)
  BY <1>3 DEF StagesOf
<1>7. /\ pc = "revoke" => "patch" \in StagesOf(op)
      /\ pc = "ensure" => "savepk" \in StagesOf(op)
      /\ pc = "savepk" /\ op = "role" => "rollback" \in StagesOf(op)
      /\ pc \in {"sessions", "retire", "status"} => "provision" \in StagesOf(op)
      /\ pc = "sessions" /\ op = "remove" => "delete" \in StagesOf(op)
      /\ pc = "activate" => "status" \in StagesOf(op)
      /\ pc = "provision" => "waiting" \in StagesOf(op)
  BY <1>3 DEF StagesOf
<1> QED BY <1>1, <1>4, <1>5, <1>6, <1>7 DEF At

\* Between its first read and its last write an operation knows its employee.
LEMMA OfUser ==
  ASSUME TypeInv, NEW c \in Calls, calls[c].pc \notin {"idle", "provision", "waiting"}
  PROVE  /\ calls[c].name \in Names /\ calls[c].u \in UserRecord
         /\ calls[c].op = "role" => calls[c].role \in Roles
<1>1. StageOK(calls[c])
  BY DEF TypeInv, Stages
<1>2. calls[c].op \in OpsOnUser \cup {"invite"}
  BY <1>1 DEF StageOK, StagesOf, OpsOnUser
<1> QED BY <1>1, <1>2 DEF StageOK

LEMMA AccountEnsured ==
  ASSUME TypeInv, NEW n \in Names, NEW groups \in Access, Ensured(n, groups)
  PROVE  /\ accounts' \in [Names -> AccountRecord \cup {NoAccount}] /\ nextPk' \in Nat \ {0}
         /\ accounts'[n].pk \in Nat
<1>1. accounts \in [Names -> AccountRecord \cup {NoAccount}] /\ nextPk \in Nat \ {0}
  BY DEF TypeInv, TypeOK
<1>2. CASE accounts[n] = NoAccount
  <2> DEFINE fresh == [NoAccount EXCEPT !.pk = nextPk, !.active = TRUE, !.groups = groups]
  <2>1. fresh \in AccountRecord
    BY <1>1 DEF NoAccount, AccountRecord
  <2>2. accounts' = [accounts EXCEPT ![n] = fresh] /\ nextPk' = nextPk + 1
    BY <1>2 DEF Ensured
  <2> HIDE DEF fresh
  <2>3. accounts' \in [Names -> AccountRecord \cup {NoAccount}] /\ accounts'[n] = fresh
    BY <1>1, <2>1, <2>2
  <2>4. fresh.pk \in Nat
    BY <2>1 DEF AccountRecord
  <2> QED BY <1>1, <2>2, <2>3, <2>4
<1>3. CASE accounts[n] # NoAccount
  <2>1. accounts[n] \in AccountRecord
    BY <1>1, <1>3
  <2>2. [accounts[n] EXCEPT !.groups = groups] \in AccountRecord
    BY <2>1 DEF AccountRecord
  <2>3. accounts' = [accounts EXCEPT ![n] = [accounts[n] EXCEPT !.groups = groups]] /\ nextPk' = nextPk
    BY <1>1, <1>3 DEF Ensured
  <2>4. accounts' \in [Names -> AccountRecord \cup {NoAccount}] /\ accounts'[n] \in AccountRecord
    BY <1>1, <2>2, <2>3
  <2> QED BY <1>1, <2>3, <2>4 DEF AccountRecord
<1> QED BY <1>2, <1>3

\* The groups an operation asks for are those of its employee's slot.
LEMMA GroupsTyped ==
  ASSUME TypeInv, NEW c \in Calls, At(c, "ensure")
  PROVE  [slot |-> calls[c].u.slot,
          role |-> IF calls[c].op = "role" THEN calls[c].role ELSE calls[c].u.role] \in Access
  BY OfUser DEF At, UserRecord, Access

LEMMA AuthentikErrorMoves ==
  ASSUME TypeInv, NEW c \in Calls, At(c, "ensure"), OnAuthentikError(c)
  PROVE  Moves(c)
<1>1. calls[c].op \in {"invite", "role"} => "rollback" \in StagesOf(calls[c].op)
  BY DEF StagesOf
<1> QED BY <1>1 DEF OnAuthentikError, Moves

LEMMA StepFailsMoves ==
  ASSUME TypeInv, NEW c \in Calls, "provision" \in StagesOf(calls[c].op), NEW done, StepFails(c, done)
  PROVE  Moves(c)
  BY DEF StepFails, Moves, Throw

\* Every step moves its operation to a stage of that operation, or ends it.
LEMMA ContinueMoves ==
  ASSUME TypeInv, NEW c \in Calls, Continue(c)
  PROVE  Moves(c)
<1>0. /\ calls[c] \in CallRecord /\ StageOK(calls[c])
      /\ calls[c].pk \in Nat
  BY NextStages DEF CallRecord
<1>1. CASE Revoke(c)
  <2>1. "patch" \in StagesOf(calls[c].op)
    BY <1>1, NextStages DEF Revoke
  <2> QED BY <1>1, <2>1 DEF Revoke, Moves, ToQuietly
<1>2. CASE Patch(c)
  <2>1. AfterPatch(calls[c]) \in StagesOf(calls[c].op)
    BY <1>2, NextStages DEF Patch
  <2> QED BY <1>2, <2>1 DEF Patch, Moves
<1>3. CASE EnsureUser(c)
  <2>1. At(c, "ensure") /\ "savepk" \in StagesOf(calls[c].op)
    BY <1>3, NextStages DEF EnsureUser
  <2>2. CASE OnAuthentikError(c)
    BY <2>1, <2>2, AuthentikErrorMoves
  <2>3. CASE /\ Ensured(calls[c].name, [slot |-> calls[c].u.slot,
                            role |-> IF calls[c].op = "role" THEN calls[c].role ELSE calls[c].u.role])
             /\ calls' = [calls EXCEPT ![c].pc = "savepk", ![c].pk = accounts'[calls[c].name].pk]
             /\ UNCHANGED <<off, erred>>
    <3>1. accounts'[calls[c].name].pk \in Nat
      BY <2>1, <2>3, OfUser, GroupsTyped, AccountEnsured DEF At
    <3> QED BY <2>1, <2>3, <3>1 DEF Moves
  <2> QED BY <1>3, <2>2, <2>3 DEF EnsureUser
<1>4. CASE SavePk(c)
  <2>1. /\ AfterEnsure(calls[c].op) \in StagesOf(calls[c].op)
        /\ calls[c].op = "role" => "rollback" \in StagesOf(calls[c].op)
    BY <1>4, NextStages DEF SavePk
  <2> QED BY <1>4, <2>1 DEF SavePk, Moves
<1>5. CASE Rollback(c)
  BY <1>5 DEF Rollback, Moves
<1>6. CASE InviteLink(c)
  <2>1. calls[c].op = "invite" => "provision" \in StagesOf(calls[c].op)
    BY DEF StagesOf
  <2> QED BY <1>6, <2>1 DEF InviteLink, Moves
<1>7. CASE SetGroups(c)
  <2>1. {"sessions", "rollback"} \subseteq StagesOf(calls[c].op)
    BY <1>7, NextStages DEF SetGroups
  <2>2. (To(c, "sessions") \/ To(c, "rollback")) /\ UNCHANGED <<off, erred>>
    BY <1>7 DEF SetGroups
  <2> QED BY <2>1, <2>2 DEF Moves, ToQuietly
<1>8. CASE Deactivate(c)
  <2>1. {"sessions", "provision"} \subseteq StagesOf(calls[c].op)
    BY <1>8, NextStages DEF Deactivate
  <2>2. ToQuietly(c, "sessions") \/ \E done : StepFails(c, done)
    BY <1>8 DEF Deactivate
  <2> QED BY <2>1, <2>2, StepFailsMoves DEF Moves
<1>9. CASE EndSessions(c)
  <2>1. /\ "provision" \in StagesOf(calls[c].op)
        /\ calls[c].op = "remove" => "delete" \in StagesOf(calls[c].op)
    BY <1>9, NextStages DEF EndSessions
  <2>2. \/ ToQuietly(c, IF calls[c].op = "remove" THEN "delete" ELSE "provision")
        \/ \E done : StepFails(c, done)
    BY <1>9 DEF EndSessions
  <2> QED BY <2>1, <2>2, StepFailsMoves DEF Moves
<1>10. CASE DeleteUser(c)
  <2>1. {"retire", "provision"} \subseteq StagesOf(calls[c].op)
    BY <1>10, NextStages DEF DeleteUser
  <2>2. ToQuietly(c, "retire") \/ \E done : StepFails(c, done)
    BY <1>10 DEF DeleteUser
  <2> QED BY <2>1, <2>2, StepFailsMoves DEF Moves
<1>11. CASE Retire(c)
  <2>1. "provision" \in StagesOf(calls[c].op)
    BY <1>11, NextStages DEF Retire
  <2> QED BY <1>11, <2>1 DEF Retire, Moves
<1>12. CASE ActivateAccount(c)
  <2>1. "status" \in StagesOf(calls[c].op)
    BY <1>12, NextStages DEF ActivateAccount
  <2>2. ToQuietly(c, "status") \/ Throw(c)
    BY <1>12 DEF ActivateAccount
  <2> QED BY <2>1, <2>2 DEF Moves
<1>13. CASE SetStatus(c)
  <2>1. "provision" \in StagesOf(calls[c].op)
    BY <1>13, NextStages DEF SetStatus
  <2> QED BY <1>13, <2>1 DEF SetStatus, Moves
<1>14. CASE Provision(c)
  <2>1. "waiting" \in StagesOf(calls[c].op)
    BY <1>14, NextStages DEF Provision
  <2> QED BY <1>14, <2>1 DEF Provision, Moves, ToQuietly
<1> QED BY <1>1, <1>2, <1>3, <1>4, <1>5, <1>6, <1>7, <1>8, <1>9, <1>10, <1>11, <1>12, <1>13, <1>14
        DEF Continue

\* What the steps leave in the other variables.
DataTyped ==
  /\ users \in [Names -> UserRecord \cup {NoUser}]
  /\ retired \subseteq RetiredRecord
  /\ accounts \in [Names -> AccountRecord \cup {NoAccount}]
  /\ nextPk \in Nat \ {0} /\ begun \in 0..MaxCalls /\ crashes \in 0..MaxCrashes
  /\ mcp \in [Names -> McpRecord]
  /\ queue \in Seq([call : Calls, rotate : SUBSET Names])
  /\ faults \in 0..MaxFaults

LEMMA TypeInvParts ==
  TypeInv <=> CallsTyped /\ DataTyped /\ off \subseteq Names /\ erred \subseteq Names /\ run \in RunRecord /\ RunIsFor
  BY DEF TypeInv, TypeOK, ProvisionerTypeOK, CallsTyped, DataTyped

LEMMA TypeInvNext ==
  ASSUME CallsTyped', DataTyped', off' \subseteq Names /\ erred' \subseteq Names, run' \in RunRecord, RunIsFor'
  PROVE  TypeInv'
  BY DEF TypeInv, TypeOK, ProvisionerTypeOK, CallsTyped, DataTyped

LEMMA UserTyped ==
  ASSUME DataTyped, NEW n \in Names, Known(n)
  PROVE  /\ users[n] \in UserRecord
         /\ \A role \in Roles : [users EXCEPT ![n].role = role] \in [Names -> UserRecord \cup {NoUser}]
         /\ \A status \in {"invited", "active", "disabled"} :
              [users EXCEPT ![n].status = status] \in [Names -> UserRecord \cup {NoUser}]
         /\ \A pk \in Nat : [users EXCEPT ![n].pk = pk] \in [Names -> UserRecord \cup {NoUser}]
<1>1. users[n] \in UserRecord /\ users \in [Names -> UserRecord \cup {NoUser}]
  BY DEF DataTyped, Known
<1>2. ASSUME NEW role \in Roles PROVE [users EXCEPT ![n].role = role] \in [Names -> UserRecord \cup {NoUser}]
  BY <1>1 DEF UserRecord
<1>3. ASSUME NEW status \in {"invited", "active", "disabled"}
      PROVE  [users EXCEPT ![n].status = status] \in [Names -> UserRecord \cup {NoUser}]
  BY <1>1 DEF UserRecord
<1>4. ASSUME NEW pk \in Nat PROVE [users EXCEPT ![n].pk = pk] \in [Names -> UserRecord \cup {NoUser}]
  BY <1>1 DEF UserRecord
<1> QED BY <1>1, <1>2, <1>3, <1>4


\* What the calls by primary key make of the accounts.
Regrouped(pk, groups) == [n \in Names |-> IF n \in Account(pk)
                            THEN [accounts[n] EXCEPT !.groups = groups] ELSE accounts[n]]
SetActive(pk, active) == [n \in Names |-> IF n \in Account(pk)
                            THEN [accounts[n] EXCEPT !.active = active] ELSE accounts[n]]
LoggedOut(pk) == [n \in Names |-> IF n \in Account(pk)
                    THEN [accounts[n] EXCEPT !.web = NoAccess] ELSE accounts[n]]
Deleted(pk) == [n \in Names |-> IF n \in Account(pk) THEN NoAccount ELSE accounts[n]]

LEMMA AccountsTyped ==
  ASSUME DataTyped, NEW pk
  PROVE  /\ \A groups \in Access : Regrouped(pk, groups) \in [Names -> AccountRecord \cup {NoAccount}]
         /\ \A active \in BOOLEAN : SetActive(pk, active) \in [Names -> AccountRecord \cup {NoAccount}]
         /\ LoggedOut(pk) \in [Names -> AccountRecord \cup {NoAccount}]
         /\ Deleted(pk) \in [Names -> AccountRecord \cup {NoAccount}]
<1>1. \A n \in Names : accounts[n] \in AccountRecord \cup {NoAccount}
  BY DEF DataTyped
<1>2. \A n \in Account(pk) : accounts[n] \in AccountRecord
  BY <1>1 DEF Account
<1>3. ASSUME NEW groups \in Access
      PROVE  Regrouped(pk, groups) \in [Names -> AccountRecord \cup {NoAccount}]
  <2>1. \A n \in Account(pk) : [accounts[n] EXCEPT !.groups = groups] \in AccountRecord
    BY <1>2 DEF AccountRecord
  <2> QED BY <1>1, <2>1 DEF Regrouped
<1>4. ASSUME NEW active \in BOOLEAN
      PROVE  SetActive(pk, active) \in [Names -> AccountRecord \cup {NoAccount}]
  <2>1. \A n \in Account(pk) : [accounts[n] EXCEPT !.active = active] \in AccountRecord
    BY <1>2 DEF AccountRecord
  <2> QED BY <1>1, <2>1 DEF SetActive
<1>5. \A n \in Account(pk) : [accounts[n] EXCEPT !.web = NoAccess] \in AccountRecord
  BY <1>2 DEF AccountRecord
<1>8. LoggedOut(pk) \in [Names -> AccountRecord \cup {NoAccount}]
  BY <1>1, <1>5 DEF LoggedOut
<1>9. Deleted(pk) \in [Names -> AccountRecord \cup {NoAccount}]
  BY <1>1 DEF Deleted
<1> QED BY <1>3, <1>4, <1>8, <1>9

\* A call to Authentik either did its work or left everything.
LEMMA ExternalTyped ==
  ASSUME DataTyped, NEW done \in [Names -> AccountRecord \cup {NoAccount}],
         (accounts' = done /\ Works) \/ (UNCHANGED accounts /\ Works) \/ Unanswered(done),
         UNCHANGED <<users, retired, nextPk, begun, crashes, mcp, queue>>
  PROVE  DataTyped'
<1>1. accounts' \in {accounts, done} /\ (Works \/ \E kind : Fails(kind))
  BY DEF Unanswered
<1>2. faults' \in 0..MaxFaults
  BY <1>1, FaultsTyped DEF DataTyped
<1> QED BY <1>1, <1>2 DEF DataTyped

\* Every step keeps the types of what it writes.
LEMMA ContinueData ==
  ASSUME TypeInv, NEW c \in Calls, Continue(c)
  PROVE  DataTyped' /\ run' = run
<1> DEFINE n == calls[c].name
<1>0. DataTyped /\ CallsTyped /\ calls[c] \in CallRecord
  BY TypeInvParts DEF CallsTyped
<1>1. CASE Revoke(c)
  <2>1. n \in Names
    BY <1>1, OfUser DEF Revoke, At
  <2>2. mcp' \in [Names -> McpRecord]
    BY <1>0, <1>1, <2>1, KeyDeletedTyped DEF Revoke, DataTyped
  <2>3. faults' \in 0..MaxFaults
    BY <1>0, <1>1, FaultsTyped DEF Revoke, DataTyped
  <2> QED BY <1>0, <1>1, <2>2, <2>3 DEF Revoke, DataTyped
<1>2. CASE Patch(c)
  <2>1. n \in Names /\ (calls[c].op = "role" => calls[c].role \in Roles)
    BY <1>2, OfUser DEF Patch, At
  <2>2. users' \in [Names -> UserRecord \cup {NoUser}]
    <3>1. users \in [Names -> UserRecord \cup {NoUser}]
      BY <1>0 DEF DataTyped
    <3>2. CASE ~Known(n)
      BY <1>2, <3>1, <3>2 DEF Patch
    <3>3. CASE Known(n)
      <4>1. [users EXCEPT ![n].status = "disabled"] \in [Names -> UserRecord \cup {NoUser}]
        BY <1>0, <2>1, <3>3, UserTyped
      <4>2. calls[c].op = "role" => [users EXCEPT ![n].role = calls[c].role] \in [Names -> UserRecord \cup {NoUser}]
        BY <1>0, <2>1, <3>3, UserTyped
      <4> QED BY <1>2, <3>3, <4>1, <4>2 DEF Patch
    <3> QED BY <3>2, <3>3
  <2> QED BY <1>0, <1>2, <2>2 DEF Patch, DataTyped, provisionerVars
<1>3. CASE EnsureUser(c)
  <2>1. At(c, "ensure") /\ n \in Names
    BY <1>3, OfUser DEF EnsureUser, At
  <2>2. PICK groups \in Access : (UNCHANGED <<accounts, nextPk>>) \/ Ensured(n, groups)
    BY <1>3, <2>1, GroupsTyped DEF EnsureUser
  <2>3. accounts' \in [Names -> AccountRecord \cup {NoAccount}] /\ nextPk' \in Nat \ {0}
    BY <1>0, <2>1, <2>2, AccountEnsured DEF DataTyped
  <2>4. faults' \in 0..MaxFaults
    BY <1>0, <1>3, FaultsTyped DEF EnsureUser, DataTyped
  <2> QED BY <1>0, <1>3, <2>3, <2>4 DEF EnsureUser, DataTyped
<1>4. CASE SavePk(c)
  <2>1. n \in Names /\ calls[c].pk \in Nat
    BY <1>0, <1>4, OfUser DEF SavePk, At, CallRecord
  <2>2. users' \in [Names -> UserRecord \cup {NoUser}]
    <3>1. users \in [Names -> UserRecord \cup {NoUser}]
      BY <1>0 DEF DataTyped
    <3>2. CASE ~Known(n)
      BY <1>4, <3>1, <3>2 DEF SavePk
    <3>3. CASE Known(n)
      <4>1. [users EXCEPT ![n].pk = calls[c].pk] \in [Names -> UserRecord \cup {NoUser}]
        BY <1>0, <2>1, <3>3, UserTyped
      <4> QED BY <1>4, <3>1, <3>3, <4>1 DEF SavePk
    <3> QED BY <3>2, <3>3
  <2> QED BY <1>0, <1>4, <2>2 DEF SavePk, DataTyped, provisionerVars
<1>5. CASE Rollback(c)
  <2>1. n \in Names /\ calls[c].u \in UserRecord
    BY <1>5, OfUser DEF Rollback, At
  <2>2. [users EXCEPT ![n] = NoUser] \in [Names -> UserRecord \cup {NoUser}]
    BY <1>0 DEF DataTyped
  <2>3. users' \in [Names -> UserRecord \cup {NoUser}]
    <3>1. users \in [Names -> UserRecord \cup {NoUser}] /\ calls[c].u.role \in Roles
      BY <1>0, <2>1 DEF DataTyped, UserRecord
    <3>2. CASE ~Known(n)
      BY <1>5, <2>2, <3>1, <3>2 DEF Rollback
    <3>3. CASE Known(n)
      <4>1. [users EXCEPT ![n].role = calls[c].u.role] \in [Names -> UserRecord \cup {NoUser}]
        BY <1>0, <2>1, <3>1, <3>3, UserTyped
      <4> QED BY <1>5, <2>2, <3>3, <4>1 DEF Rollback
    <3> QED BY <3>2, <3>3
  <2>4. calls[c].former \in RetiredRecord \cup {NoRetired}
    BY <1>0 DEF CallRecord
  <2>5. retired' \subseteq RetiredRecord
    BY <1>0, <1>5, <2>4 DEF Rollback, DataTyped
  <2> QED BY <1>0, <1>5, <2>3, <2>5 DEF Rollback, DataTyped, provisionerVars
<1>6. CASE InviteLink(c)
  <2>1. faults' \in 0..MaxFaults
    BY <1>0, <1>6, FaultsTyped DEF InviteLink, DataTyped
  <2> QED BY <1>0, <1>6, <2>1 DEF InviteLink, DataTyped
<1>7. CASE SetGroups(c)
  <2> DEFINE groups == [slot |-> calls[c].u.slot, role |-> calls[c].role]
  <2>1. calls[c].op = "role"
    BY <1>0, <1>7, NextStages DEF SetGroups, At, StageOK, StagesOf
  <2>2. groups \in Access
    BY <1>7, <2>1, OfUser DEF SetGroups, At, UserRecord, Access
  <2>3. Regrouped(calls[c].pk, groups) \in [Names -> AccountRecord \cup {NoAccount}]
    BY <1>0, <2>2, AccountsTyped
  <2> QED BY <1>7, <2>3, <1>0, ExternalTyped DEF SetGroups, Regrouped
<1>8. CASE Deactivate(c)
  <2>1. SetActive(calls[c].u.pk, FALSE) \in [Names -> AccountRecord \cup {NoAccount}]
    BY <1>0, AccountsTyped
  <2> QED BY <1>8, <2>1, <1>0, ExternalTyped DEF Deactivate, StepFails, SetActive
<1>9. CASE EndSessions(c)
  <2>1. \A pk : LoggedOut(pk) \in [Names -> AccountRecord \cup {NoAccount}]
    BY <1>0, AccountsTyped
  <2> QED BY ZenonT(30), <1>9, <2>1, <1>0, ExternalTyped DEF EndSessions, StepFails, LoggedOut
<1>10. CASE DeleteUser(c)
  <2>1. Deleted(calls[c].u.pk) \in [Names -> AccountRecord \cup {NoAccount}]
    BY <1>0, AccountsTyped
  <2> QED BY <1>10, <2>1, <1>0, ExternalTyped DEF DeleteUser, StepFails, Deleted
<1>11. CASE Retire(c)
  <2>1. n \in Names /\ calls[c].u \in UserRecord /\ calls[c].number \in Nat
    BY <1>0, <1>11, OfUser DEF Retire, At, CallRecord
  <2>2. [users EXCEPT ![n] = NoUser] \in [Names -> UserRecord \cup {NoUser}]
    BY <1>0 DEF DataTyped
  <2>3. [slot |-> calls[c].u.slot, former |-> n, by |-> calls[c].number] \in RetiredRecord
    BY <2>1 DEF RetiredRecord, UserRecord
  <2> QED BY <1>0, <1>11, <2>2, <2>3 DEF Retire, DataTyped, provisionerVars
<1>12. CASE ActivateAccount(c)
  <2>1. SetActive(calls[c].pk, TRUE) \in [Names -> AccountRecord \cup {NoAccount}]
    BY <1>0, AccountsTyped
  <2> QED BY <1>12, <2>1, <1>0, ExternalTyped DEF ActivateAccount, SetActive
<1>13. CASE SetStatus(c)
  <2>1. n \in Names
    BY <1>13, OfUser DEF SetStatus, At
  <2>2. users' \in [Names -> UserRecord \cup {NoUser}]
    <3>1. users \in [Names -> UserRecord \cup {NoUser}]
      BY <1>0 DEF DataTyped
    <3>2. CASE ~Known(n)
      BY <1>13, <3>1, <3>2 DEF SetStatus
    <3>3. CASE Known(n)
      <4>1. \A status \in {"active", "invited"} : [users EXCEPT ![n].status = status] \in [Names -> UserRecord \cup {NoUser}]
        BY <1>0, <2>1, <3>3, UserTyped
      <4> QED BY <1>13, <3>3, <4>1 DEF SetStatus
    <3> QED BY <3>2, <3>3
  <2> QED BY <1>0, <1>13, <2>2 DEF SetStatus, DataTyped, provisionerVars
<1>14. CASE Provision(c)
  <2>1. calls[c].op = "rotate" => n \in Names
    BY <1>0, NextStages DEF StageOK, OpsOnUser
  <2> DEFINE entry == [call : Calls, rotate : SUBSET Names]
             new   == [call |-> c, rotate |-> IF calls[c].op = "rotate" THEN {n} ELSE {}]
  <2>2. new \in entry /\ queue \in Seq(entry) /\ queue' = Append(queue, new)
    BY <1>0, <1>14, <2>1 DEF Provision, Enqueue, DataTyped
  <2>3. queue' \in Seq(entry)
    <3> HIDE DEF entry, new
    <3> QED BY <2>2, AppendProperties
  <2> QED BY <1>0, <1>14, <2>3 DEF Provision, DataTyped
<1> QED BY <1>1, <1>2, <1>3, <1>4, <1>5, <1>6, <1>7, <1>8, <1>9, <1>10, <1>11, <1>12, <1>13, <1>14
        DEF Continue

LEMMA ContinueTyped ==
  ASSUME TypeInv, NEW c \in Calls, Continue(c)
  PROVE  TypeInv'
<1>1. CallsTyped' /\ off' \subseteq Names /\ erred' \subseteq Names
  BY TypeInvParts, ContinueMoves, MovesTyped
<1>2. DataTyped' /\ run' = run
  BY ContinueData
<1>3. run' \in RunRecord /\ RunIsFor'
  BY <1>2, TypeInvParts DEF RunIsFor
<1> QED BY <1>1, <1>2, <1>3, TypeInvNext

-----------------------------------------------------------------------------
(* Types: what begins, the runs, the restart *)

LEMMA OpenedTyped ==
  ASSUME TypeInv, NEW c \in Calls, NEW op \in OpsOnUser \cup {"invite"}, NEW n \in Names,
         NEW pc \in StagesOf(op), begun' \in Nat
  PROVE  /\ Opened(c, op, n, pc) \in CallRecord
         /\ Opened(c, op, n, pc).op = op /\ Opened(c, op, n, pc).pc = pc
         /\ Opened(c, op, n, pc).name = n /\ Opened(c, op, n, pc).u = users[n]
<1>1. op \in AllOps \cup {"none"} /\ pc \in PCs
  BY StagesAreStages DEF OpsOnUser, AllOps
<1>2. users[n] \in UserRecord \cup {NoUser}
  BY DEF TypeInv, TypeOK
<1> QED BY <1>1, <1>2 DEF Opened, Idle, CallRecord

LEMMA BeginsTyped ==
  ASSUME TypeInv, NEW c \in Calls, NEW op, NEW n, Begins(c, op, n)
  PROVE  begun' \in 0..MaxCalls /\ begun' \in Nat
  BY LifecycleAssumption DEF Begins, TypeInv, TypeOK

LEMMA AdmitTyped ==
  ASSUME TypeInv, NEW c \in Calls, NEW n \in Names, NEW role \in Roles, NEW slot \in Slots,
         NEW former \in RetiredRecord \cup {NoRetired}, begun' \in 0..MaxCalls,
         Admit(c, n, role, slot, former)
  PROVE  TypeInv'
<1> DEFINE new  == Reserved(n, role, slot)
           call == Opened(c, "invite", n, "ensure")
           r    == [call EXCEPT !.role = role, !.u = new, !.former = former]
<1>1. new \in UserRecord
  BY DEF Reserved, UserRecord
<1>2. "ensure" \in StagesOf("invite") /\ begun' \in Nat
  BY LifecycleAssumption DEF StagesOf
<1>3. call \in CallRecord /\ call.op = "invite" /\ call.pc = "ensure" /\ call.name = n
  BY <1>2, OpenedTyped
<1>4. calls' = [calls EXCEPT ![c] = r] /\ users' = [users EXCEPT ![n] = new]
  BY DEF Admit
<1> HIDE DEF call, new
<1>5. r \in CallRecord /\ r.op = "invite" /\ r.pc = "ensure" /\ r.name = n /\ r.u = new
  BY <1>1, <1>3 DEF CallRecord
<1>6. StageOK(r)
  BY <1>1, <1>2, <1>5 DEF StageOK
<1>7. CallsTyped'
  BY <1>4, <1>5, <1>6, CallBecomes, TypeInvParts
<1>8. DataTyped'
  BY <1>1, <1>4, TypeInvParts DEF Admit, DataTyped, provisionerVars
<1>9. off' \subseteq Names /\ erred' \subseteq Names /\ run' \in RunRecord /\ RunIsFor'
  BY TypeInvParts DEF Admit, provisionerVars, RunIsFor
<1> QED BY <1>7, <1>8, <1>9, TypeInvNext

LEMMA BeginTyped ==
  ASSUME TypeInv, NEW c \in Calls, Begin(c)
  PROVE  TypeInv'
<1>0. CallsTyped /\ DataTyped /\ off \subseteq Names /\ erred \subseteq Names /\ run \in RunRecord /\ RunIsFor
  BY TypeInvParts
<1>1. CASE \E n \in Names, role \in Roles : Invite(c, n, role)
  <2> PICK n \in Names, role \in Roles : Invite(c, n, role)
    BY <1>1
  <2> QED BY BeginsTyped, AdmitTyped DEF Invite
<1>2. CASE \E n \in Names, role \in Roles : InviteRestoring(c, n, role)
  <2> PICK n \in Names, role \in Roles : InviteRestoring(c, n, role)
    BY <1>2
  <2>1. begun' \in 0..MaxCalls
    BY BeginsTyped DEF InviteRestoring
  <2>2. PICK r \in retired : Admit(c, n, role, r.slot, r)
    BY DEF InviteRestoring
  <2>3. r \in RetiredRecord /\ r.slot \in Slots
    BY <1>0 DEF DataTyped, RetiredRecord
  <2> QED BY <2>1, <2>2, <2>3, AdmitTyped
<1>3. CASE \E n \in Names, op \in OpsOnUser : OnUser(c, op, n)
  <2> PICK n \in Names, op \in OpsOnUser : OnUser(c, op, n)
    BY <1>3
  <2>1. begun' \in 0..MaxCalls /\ begun' \in Nat
    BY BeginsTyped DEF OnUser
  <2>2. FirstStep(op) \in StagesOf(op)
    BY DEF OpsOnUser, FirstStep, StagesOf
  <2> DEFINE call == Opened(c, op, n, FirstStep(op))
  <2>3. /\ call \in CallRecord /\ call.op = op /\ call.pc = FirstStep(op) /\ call.name = n
        /\ call.u = users[n]
    BY <2>1, <2>2, OpenedTyped
  <2>4. users[n] \in UserRecord
    BY <1>0 DEF OnUser, Known, DataTyped
  <2>5. PICK role \in IF op = "role" THEN Roles ELSE {"none"} :
          calls' = [calls EXCEPT ![c] = [call EXCEPT !.role = role]]
    BY DEF OnUser
  <2> DEFINE r == [call EXCEPT !.role = role]
  <2> HIDE DEF call
  <2>6. r \in CallRecord /\ r.op = op /\ r.pc = FirstStep(op) /\ r.name = n /\ r.u = users[n] /\ r.role = role
    BY <2>3, <2>5 DEF CallRecord, Roles
  <2>7. StageOK(r)
    BY <2>2, <2>4, <2>5, <2>6 DEF StageOK
  <2>8. CallsTyped'
    BY <1>0, <2>5, <2>6, <2>7, CallBecomes
  <2>9. DataTyped' /\ off' \subseteq Names /\ erred' \subseteq Names /\ run' \in RunRecord /\ RunIsFor'
    BY <1>0, <2>1 DEF OnUser, DataTyped, provisionerVars, RunIsFor
  <2> QED BY <2>8, <2>9, TypeInvNext
<1>4. CASE Reprovision(c)
  <2> DEFINE r == [Idle EXCEPT !.op = "reprovision", !.pc = "provision", !.number = begun']
  <2>1. begun' \in 0..MaxCalls /\ begun' \in Nat
    BY <1>4, BeginsTyped DEF Reprovision
  <2>2. r \in CallRecord /\ r.op = "reprovision" /\ r.pc = "provision"
    BY <2>1 DEF Idle, CallRecord, AllOps, PCs
  <2>3. StageOK(r)
    BY <2>2 DEF StageOK, StagesOf, OpsOnUser
  <2>4. CallsTyped'
    BY <1>0, <1>4, <2>2, <2>3, CallBecomes DEF Reprovision
  <2>5. DataTyped' /\ off' \subseteq Names /\ erred' \subseteq Names /\ run' \in RunRecord /\ RunIsFor'
    BY <1>0, <1>4, <2>1 DEF Reprovision, DataTyped, provisionerVars, RunIsFor
  <2> QED BY <2>4, <2>5, TypeInvNext
<1>5. CASE ReleaseSlot(c)
  <2>1. begun' \in 0..MaxCalls
    BY <1>5, BeginsTyped DEF ReleaseSlot
  <2>2. retired' \subseteq RetiredRecord
    BY <1>0, <1>5 DEF ReleaseSlot, DataTyped
  <2>3. CallsTyped' /\ off' \subseteq Names /\ erred' \subseteq Names /\ run' \in RunRecord /\ RunIsFor'
    BY <1>0, <1>5 DEF ReleaseSlot, provisionerVars, RunIsFor, CallsTyped, Stages
  <2>4. DataTyped'
    BY <1>0, <1>5, <2>1, <2>2 DEF ReleaseSlot, DataTyped, provisionerVars
  <2> QED BY <2>3, <2>4, TypeInvNext
<1> QED BY <1>1, <1>2, <1>3, <1>4, <1>5 DEF Begin, OpsOnUser

LEMMA SpecTyped ==
  ASSUME TypeInv
  PROVE  ToUsersJson \in Specs
<1>1. \A n \in Names : Known(n) => users[n] \in UserRecord
  BY DEF TypeInv, TypeOK, Known
<1>2. \A n \in Names : Known(n) => AccessOf(users[n]) \in Access
  BY <1>1 DEF AccessOf, Access, UserRecord
<1> QED BY <1>2 DEF ToUsersJson, Specs

LEMMA RunningTyped ==
  ASSUME TypeInv, Running
  PROVE  TypeInv'
<1>0. CallsTyped /\ DataTyped /\ off \subseteq Names /\ erred \subseteq Names /\ run \in RunRecord /\ RunIsFor /\ RunTyped
  BY TypeInvParts DEF RunTyped, DataTyped
<1>1. CASE BeginRun
  <2>1. RunTyped' /\ queue' \in Seq([call : Calls, rotate : SUBSET Names])
    BY <1>0, <1>1, SpecTyped, StartRunTyped DEF BeginRun, DataTyped
  <2>2. CallsTyped' /\ off' \subseteq Names /\ erred' \subseteq Names
    BY <1>0, <1>1 DEF BeginRun, portalVars, CallsTyped, Stages
  <2>3. DataTyped'
    BY <1>0, <1>1, <2>1 DEF BeginRun, portalVars, DataTyped, RunTyped
  <2> QED BY <2>1, <2>2, <2>3, TypeInvNext DEF RunTyped
<1>2. CASE RunStep /\ UNCHANGED portalVars
  <2>1. RunTyped'
    BY <1>0, <1>2, RunStepTyped
  <2>2. CallsTyped' /\ off' \subseteq Names /\ erred' \subseteq Names
    BY <1>0, <1>2 DEF portalVars, CallsTyped, Stages
  <2>3. UNCHANGED queue
    BY <1>2 DEF RunStep, RemoveAccount, ReconcileServers, ReconcileKeys, IssueKey, Tripwire
  <2>4. DataTyped'
    BY <1>0, <1>2, <2>1, <2>3 DEF portalVars, DataTyped, RunTyped
  <2> QED BY <2>1, <2>2, <2>4, TypeInvNext DEF RunTyped
<1>3. CASE FinishRun
  <2>1. run.call \in Calls /\ run' = NoRun /\ UNCHANGED <<mcp, queue, faults>>
    BY <1>0, <1>3 DEF FinishRun, EndRun, RunEnded, RunIsFor
  <2>2. Succeed(run.call) \/ Throw(run.call)
    BY <1>3 DEF FinishRun
  <2>3. CallsTyped' /\ off' \subseteq Names /\ erred' \subseteq Names
    BY <1>0, <2>1, <2>2, AnsweredTyped
  <2>4. \A n \in Names : Known(n) => \A p \in {"ok", "failed"} : [users[n] EXCEPT !.prov = p] \in UserRecord
    <3> SUFFICES ASSUME NEW n \in Names, Known(n), NEW p \in {"ok", "failed"}
                 PROVE  [users[n] EXCEPT !.prov = p] \in UserRecord
      OBVIOUS
    <3>1. users[n] \in UserRecord
      BY <1>0 DEF DataTyped, Known
    <3> QED BY <3>1 DEF UserRecord
  <2>5. users' \in [Names -> UserRecord \cup {NoUser}]
    <3>1. \A n \in Names : users[n] \in UserRecord \cup {NoUser}
      BY <1>0 DEF DataTyped
    <3>2. PICK listed : /\ listed \subseteq {n \in Names : Known(n)}
                        /\ users' = [n \in Names |-> IF n \in listed
                             THEN [users[n] EXCEPT !.prov = IF n \in run.failed THEN "failed" ELSE "ok"]
                             ELSE users[n]]
      BY <1>3 DEF FinishRun, Listed
    <3> QED BY <2>4, <3>1, <3>2
  <2>6. DataTyped'
    BY <1>0, <1>3, <2>1, <2>5 DEF FinishRun, DataTyped
  <2>7. run' \in RunRecord /\ RunIsFor'
    BY <2>1, NoRunTyped DEF RunIsFor, NoRun
  <2> QED BY <2>3, <2>6, <2>7, TypeInvNext
<1> QED BY <1>1, <1>2, <1>3 DEF Running

LEMMA OthersTyped ==
  ASSUME TypeInv, Crash \/ \E n \in Names : Activate(n) \/ LogIn(n)
  PROVE  TypeInv'
<1>0. CallsTyped /\ DataTyped /\ off \subseteq Names /\ erred \subseteq Names /\ run \in RunRecord /\ RunIsFor
  BY TypeInvParts
<1>1. CASE Crash
  <2>1. Idle \in CallRecord /\ StageOK(Idle)
    BY DEF Idle, CallRecord, PCs, StageOK, StagesOf, OpsOnUser
  <2>2. calls' = [c \in Calls |-> Idle] /\ queue' = <<>> /\ run' = NoRun
    BY <1>1 DEF Crash
  <2>3. CallsTyped' /\ off' \subseteq Names /\ erred' \subseteq Names
    <3>1. UNION {HalfDone(c) : c \in Calls} \subseteq Names
      BY <1>0, HalfDoneTyped
    <3> QED BY <1>0, <1>1, <2>1, <2>2, <3>1 DEF Crash, CallsTyped, Stages
  <2>4. queue' \in Seq([call : Calls, rotate : SUBSET Names])
    BY <2>2
  <2>5. DataTyped'
    BY <1>0, <1>1, <2>4, LifecycleAssumption DEF Crash, DataTyped
  <2>6. run' \in RunRecord /\ RunIsFor'
    BY <2>2, NoRunTyped DEF RunIsFor, NoRun
  <2> QED BY <2>3, <2>5, <2>6, TypeInvNext
<1>2. CASE \E n \in Names : Activate(n)
  <2> PICK n \in Names : Activate(n)
    BY <1>2
  <2>1. users[n] \in UserRecord
    BY <1>0 DEF DataTyped, Activate, NoUser
  <2>2. [[users[n] EXCEPT !.status = "active"] EXCEPT !.visited = TRUE] \in UserRecord
    BY <2>1 DEF UserRecord
  <2>3. users' = [users EXCEPT ![n] = [[users[n] EXCEPT !.status = "active"] EXCEPT !.visited = TRUE]]
    BY <1>0 DEF Activate, DataTyped
  <2>4. users' \in [Names -> UserRecord \cup {NoUser}]
    BY <1>0, <2>2, <2>3 DEF DataTyped
  <2>5. CallsTyped' /\ off' \subseteq Names /\ erred' \subseteq Names /\ run' \in RunRecord /\ RunIsFor'
    BY <1>0 DEF Activate, provisionerVars, CallsTyped, Stages, RunIsFor
  <2>6. DataTyped'
    BY <1>0, <2>4 DEF Activate, DataTyped, provisionerVars
  <2> QED BY <2>5, <2>6, TypeInvNext
<1>3. CASE \E n \in Names : LogIn(n)
  <2> PICK n \in Names : LogIn(n)
    BY <1>3
  <2>1. accounts[n] \in AccountRecord
    BY <1>0 DEF DataTyped, LogIn, NoAccount
  <2>2. [accounts[n] EXCEPT !.web = accounts[n].groups] \in AccountRecord
    BY <2>1 DEF AccountRecord
  <2>3. accounts' = [accounts EXCEPT ![n] = [accounts[n] EXCEPT !.web = accounts[n].groups]]
    BY <1>0 DEF LogIn, DataTyped
  <2>4. accounts' \in [Names -> AccountRecord \cup {NoAccount}]
    BY <1>0, <2>2, <2>3 DEF DataTyped
  <2>5. CallsTyped' /\ off' \subseteq Names /\ erred' \subseteq Names /\ run' \in RunRecord /\ RunIsFor'
    BY <1>0 DEF LogIn, provisionerVars, CallsTyped, Stages, RunIsFor
  <2>6. DataTyped'
    BY <1>0, <2>4 DEF LogIn, DataTyped, provisionerVars
  <2> QED BY <2>5, <2>6, TypeInvNext
<1> QED BY <1>1, <1>2, <1>3

LEMMA InitTyped ==
  ASSUME Init
  PROVE  TypeInv
<1>1. \A n \in Names : Staff[n] \in Access \cup {NoAccess}
  BY LifecycleAssumption DEF Specs
<1>2. \A n \in Names : Staff[n] # NoAccess =>
        /\ Staff[n] \in Access /\ Staff[n].slot \in Slots /\ Staff[n].role \in Roles
        /\ Staff[n].slot \in Nat \ {0}
  BY <1>1, ProvisionerAssumption DEF Access
<1>3. users \in [Names -> UserRecord \cup {NoUser}]
  BY <1>2 DEF Init, UserRecord
<1>4. accounts \in [Names -> AccountRecord \cup {NoAccount}]
  BY <1>2 DEF Init, AccountRecord
<1>5. mcp \in [Names -> McpRecord]
  BY <1>1 DEF Init, McpRecord
<1>6. nextPk \in Nat \ {0}
  <2>1. Slots \cup {0} \in SUBSET Nat /\ IsFiniteSet(Slots \cup {0}) /\ Slots \cup {0} # {}
    BY ProvisionerAssumption, FS_AddElement
  <2>2. Max(Slots \cup {0}) \in Nat
    BY <2>1, MaxNat
  <2> QED BY <2>2 DEF Init
<1>7. DataTyped
  <2>1. queue \in Seq([call : Calls, rotate : SUBSET Names]) /\ faults \in 0..MaxFaults
    BY ProvisionerAssumption DEF Init
  <2>2. begun \in 0..MaxCalls /\ crashes \in 0..MaxCrashes /\ retired \subseteq RetiredRecord
    BY LifecycleAssumption DEF Init
  <2> QED BY <1>3, <1>4, <1>5, <1>6, <2>1, <2>2 DEF DataTyped
<1>8. Idle \in CallRecord /\ StageOK(Idle)
  BY DEF Idle, CallRecord, PCs, StageOK, StagesOf, OpsOnUser
<1>9. CallsTyped /\ off \subseteq Names /\ erred \subseteq Names
  BY <1>8 DEF Init, CallsTyped, Stages
<1>10. run \in RunRecord /\ RunIsFor
  BY NoRunTyped DEF Init, RunIsFor, NoRun
<1> QED BY <1>7, <1>9, <1>10, TypeInvParts

LEMMA StepTyped ==
  ASSUME TypeInv, [Next]_vars
  PROVE  TypeInv'
<1>1. CASE UNCHANGED vars
  BY <1>1 DEF vars, provisionerVars, portalVars, TypeInv, TypeOK, ProvisionerTypeOK, Stages, RunIsFor
<1>2. CASE Next
  BY <1>2, BeginTyped, ContinueTyped, RunningTyped, OthersTyped DEF Next
<1> QED BY <1>1, <1>2

\* Whatever fails, restarts or overlaps, every record of the portal, of Authentik, of MetaMCP and of
\* the operations in flight is a legal one, and no operation leaves the stages of its kind.
THEOREM TypeCorrect == Spec => []TypeOK
<1>1. Init => TypeInv
  BY InitTyped
<1>2. TypeInv /\ [Next]_vars => TypeInv'
  BY StepTyped
<1>3. TypeInv => TypeOK
  BY DEF TypeInv
<1> QED BY <1>1, <1>2, <1>3, PTL DEF Spec

-----------------------------------------------------------------------------
(* The slots *)

\* An invitation that may still be rolled back and a removal that has not retired the slot yet rely
\* on the employee holding the slot they read at their start.
Claims(call) ==
  \/ call.op = "invite" /\ call.pc \in {"ensure", "savepk", "rollback", "link"}
  \/ call.op = "remove" /\ call.pc \notin {"provision", "waiting"}

ClaimOK(call) ==
  /\ Claims(call) => Known(call.name) /\ users[call.name].slot = call.u.slot
  /\ call.op = "invite" /\ call.former # NoRetired =>
       call.former.slot = call.u.slot /\ call.former.former = call.name

ClaimsHold == \A c \in Calls : ClaimOK(calls[c])

\* Without overlap only a rotation runs beside another operation of the same employee.
OneCallEach ==
  \A c, d \in Calls : c # d /\ calls[c].name = calls[d].name /\ calls[c].name # NoName =>
    calls[c].op = "rotate" \/ calls[d].op = "rotate"

\* A slot has one employee, or one retired entry.
OneOwner ==
  /\ \A m, n \in Names : Known(m) /\ Known(n) /\ users[m].slot = users[n].slot => m = n
  /\ \A r \in retired, n \in Names : Known(n) => users[n].slot # r.slot
  /\ \A r, t \in retired : r.slot = t.slot => r = t

PoolInv == TypeInv /\ ClaimsHold /\ OneCallEach /\ OneOwner

\* A record stands for an employee exactly when it has a slot.
KnownBySlot == \A n \in Names : Known(n) <=> users[n].slot # 0

LEMMA KnownHaveSlots ==
  TypeInv => KnownBySlot
<1> SUFFICES ASSUME TypeInv, NEW n \in Names PROVE Known(n) <=> users[n].slot # 0
  BY DEF KnownBySlot
<1>1. users[n] \in UserRecord \cup {NoUser}
  BY DEF TypeInv, TypeOK
<1>2. users[n] \in UserRecord => users[n].slot # 0
  BY ProvisionerAssumption DEF UserRecord
<1>3. NoUser.slot = 0
  BY DEF NoUser
<1> QED BY <1>1, <1>2, <1>3 DEF Known

LEMMA KnownHaveSlotsNext ==
  ASSUME TypeInv' PROVE KnownBySlot'
<1>1. (TypeInv => KnownBySlot)'
  BY KnownHaveSlots, PTL
<1> QED BY <1>1

\* A step that neither gives nor takes a slot.
SlotsKept == retired' = retired /\ \A n \in Names : users'[n].slot = users[n].slot

\* The employee whose record a step changes.
OnlyOf(n) == \A m \in Names \ {n} : users'[m] = users[m]

\* The three steps of an operation that give or take a slot.
LEMMA ContinueSlots ==
  ASSUME TypeInv, NEW c \in Calls, Continue(c)
  PROVE  /\ OnlyOf(calls[c].name)
         /\ calls[c].pc = "provision" => UNCHANGED <<users, retired>> /\ To(c, "waiting")
         /\ calls[c].pc # "waiting"
         /\ \/ SlotsKept
            \/ Rollback(c) /\ calls[c].op = "invite"
            \/ Retire(c)
<1> DEFINE n == calls[c].name
<1>0. users \in [Names -> UserRecord \cup {NoUser}]
  BY DEF TypeInv, TypeOK
<1>1. CASE UNCHANGED <<users, retired>>
  <2>1. calls[c].pc = "provision" => Provision(c)
    BY DEF Continue, At, Revoke, Patch, EnsureUser, SavePk, Rollback, InviteLink, SetGroups, Deactivate,
           EndSessions, DeleteUser, Retire, ActivateAccount, SetStatus
  <2>2. calls[c].pc # "waiting"
    BY DEF Continue, At, Revoke, Patch, EnsureUser, SavePk, Rollback, InviteLink, SetGroups, Deactivate,
           EndSessions, DeleteUser, Retire, ActivateAccount, SetStatus, Provision
  <2> QED BY <1>1, <2>1, <2>2 DEF OnlyOf, SlotsKept, Provision
<1>2. CASE Revoke(c) \/ EnsureUser(c) \/ InviteLink(c) \/ SetGroups(c) \/ Deactivate(c) \/ EndSessions(c)
           \/ DeleteUser(c) \/ ActivateAccount(c) \/ Provision(c)
  BY <1>1, <1>2 DEF Revoke, EnsureUser, InviteLink, SetGroups, Deactivate, EndSessions, DeleteUser,
                    ActivateAccount, Provision
<1>3. CASE Patch(c) \/ SavePk(c) \/ SetStatus(c)
  <2>1. calls[c].pc \in {"patch", "savepk", "status"} /\ retired' = retired
    BY <1>3 DEF Patch, SavePk, SetStatus, At
  <2>2. n \in Names
    BY <2>1, OfUser
  <2>3. \/ users' = users
        \/ \E x : users' = [users EXCEPT ![n].role = x]
        \/ \E x : users' = [users EXCEPT ![n].status = x]
        \/ \E x : users' = [users EXCEPT ![n].pk = x]
    BY <1>3 DEF Patch, SavePk, SetStatus
  <2>4. users' = users \/ Known(n)
    BY <1>3 DEF Patch, SavePk, SetStatus
  <2>5. \A m \in Names : users'[m].slot = users[m].slot
    <3>1. CASE users' = users
      BY <3>1
    <3>2. CASE Known(n)
      <4>1. users[n] \in UserRecord
        BY <1>0, <2>2, <3>2 DEF Known
      <4>2. CASE \E x : users' = [users EXCEPT ![n].role = x]
        BY <1>0, <4>1, <4>2 DEF UserRecord
      <4>3. CASE \E x : users' = [users EXCEPT ![n].status = x]
        BY <1>0, <4>1, <4>3 DEF UserRecord
      <4>4. CASE \E x : users' = [users EXCEPT ![n].pk = x]
        BY <1>0, <4>1, <4>4 DEF UserRecord
      <4> QED BY <2>3, <3>1, <4>2, <4>3, <4>4
    <3> QED BY <2>4, <3>1, <3>2
  <2> QED BY <1>0, <2>1, <2>3, <2>5 DEF OnlyOf, SlotsKept
<1>4. CASE Rollback(c)
  <2>1. calls[c].pc = "rollback" /\ n \in Names
    BY <1>4, OfUser DEF Rollback, At
  <2>2. CASE calls[c].op = "invite"
    BY <1>0, <1>4, <2>1, <2>2 DEF Rollback, OnlyOf
  <2>3. CASE calls[c].op # "invite"
    <3>1. users' = users \/ users' = [users EXCEPT ![n].role = calls[c].u.role]
      BY <1>4, <2>3 DEF Rollback
    <3>2. \A m \in Names : users'[m].slot = users[m].slot
      BY <1>0, <2>1, <3>1 DEF UserRecord, NoUser
    <3> QED BY <1>0, <1>4, <2>1, <2>3, <3>1, <3>2 DEF Rollback, OnlyOf, SlotsKept
  <2> QED BY <2>2, <2>3
<1>5. CASE Retire(c)
  BY <1>0, <1>5 DEF Retire, At, OnlyOf
<1> QED BY <1>2, <1>3, <1>4, <1>5 DEF Continue

\* How a step that goes on moves the operations: each stays what it is, or is over.
LEMMA MovesCalls ==
  ASSUME TypeInv, NEW c \in Calls, Moves(c)
  PROVE  /\ \A d \in Calls \ {c} : calls'[d] = calls[d]
         /\ \/ calls'[c] = Idle
            \/ /\ calls'[c].op = calls[c].op /\ calls'[c].name = calls[c].name /\ calls'[c].u = calls[c].u
               /\ calls'[c].former = calls[c].former
<1>1. calls \in [Calls -> CallRecord]
  BY DEF TypeInv, TypeOK
<1>2. CASE Succeed(c) \/ Throw(c)
  BY <1>1, <1>2 DEF Succeed, Throw, Return
<1>3. CASE \E pc \in StagesOf(calls[c].op) : ToQuietly(c, pc)
  BY <1>1, <1>3 DEF ToQuietly, To, CallRecord
<1>4. CASE \E pc \in StagesOf(calls[c].op) : calls' = [calls EXCEPT ![c].pc = pc, ![c].clean = FALSE]
  BY <1>1, <1>4 DEF CallRecord
<1>5. CASE \E pc \in StagesOf(calls[c].op), pk \in Nat : calls' = [calls EXCEPT ![c].pc = pc, ![c].pk = pk]
  BY <1>1, <1>5 DEF CallRecord
<1> QED BY <1>2, <1>3, <1>4, <1>5 DEF Moves

\* A step that keeps the slots keeps their owners.
LEMMA OwnersKept ==
  ASSUME TypeInv, TypeInv', OneOwner, SlotsKept
  PROVE  OneOwner'
<1>1. KnownBySlot /\ KnownBySlot'
  BY KnownHaveSlots, KnownHaveSlotsNext
<1>2. \A n \in Names : Known(n)' <=> Known(n)
  BY <1>1 DEF KnownBySlot, SlotsKept
<1> QED BY <1>2 DEF OneOwner, SlotsKept

\* A slot that leaves its employee is free or is retired once.
LEMMA OwnerGone ==
  ASSUME TypeInv, OneOwner, NEW n \in Names, Known(n), NEW R,
         users' = [users EXCEPT ![n] = NoUser], retired' = retired \cup R,
         \A r, t \in R : r = t, \A r \in R : r.slot = users[n].slot
  PROVE  OneOwner'
<1>1. users \in [Names -> UserRecord \cup {NoUser}]
  BY DEF TypeInv, TypeOK
<1>2. ~Known(n)' /\ \A m \in Names \ {n} : users'[m] = users[m] /\ Known(m)' = Known(m)
  BY <1>1 DEF Known
<1>3. \A m \in Names : Known(m)' => m # n /\ Known(m) /\ users'[m] = users[m]
  BY <1>2
<1>4. \A r \in retired' : r \in retired \/ r \in R
  OBVIOUS
<1>5. \A m, k \in Names : Known(m)' /\ Known(k)' /\ users'[m].slot = users'[k].slot => m = k
  BY <1>3 DEF OneOwner
<1>6. \A r \in retired', m \in Names : Known(m)' => users'[m].slot # r.slot
  BY <1>3, <1>4 DEF OneOwner
<1>7. \A r, t \in retired' : r.slot = t.slot => r = t
  BY <1>4 DEF OneOwner
<1> QED BY <1>5, <1>6, <1>7 DEF OneOwner

LEMMA ContinueOwners ==
  ASSUME PoolInv, TypeInv', NEW c \in Calls, Continue(c)
  PROVE  OneOwner'
<1> DEFINE n == calls[c].name
<1>0. TypeInv /\ OneOwner /\ ClaimOK(calls[c])
  BY DEF PoolInv, ClaimsHold
<1>1. CASE SlotsKept
  BY <1>0, <1>1, OwnersKept
<1>2. CASE Rollback(c) /\ calls[c].op = "invite"
  <2>1. calls[c].pc = "rollback" /\ n \in Names
    BY <1>0, <1>2, OfUser DEF Rollback, At
  <2>2. Known(n) /\ users[n].slot = calls[c].u.slot
    BY <1>0, <1>2, <2>1 DEF ClaimOK, Claims
  <2> DEFINE R == {calls[c].former} \ {NoRetired}
  <2>3. \A r \in R : r.slot = users[n].slot
    BY <1>0, <1>2, <2>2 DEF ClaimOK
  <2>4. users' = [users EXCEPT ![n] = NoUser] /\ retired' = retired \cup R
    BY <1>2 DEF Rollback
  <2>5. \A r, t \in R : r = t
    OBVIOUS
  <2> HIDE DEF R
  <2> QED BY <1>0, <2>1, <2>2, <2>3, <2>4, <2>5, OwnerGone
<1>3. CASE Retire(c)
  <2>1. calls[c].pc = "retire" /\ n \in Names
    BY <1>0, <1>3, OfUser DEF Retire, At
  <2>2. calls[c].op = "remove"
    BY <1>0, <2>1, NextStages DEF StageOK, StagesOf
  <2>3. Known(n) /\ users[n].slot = calls[c].u.slot
    BY <1>0, <2>1, <2>2 DEF ClaimOK, Claims
  <2> DEFINE R == {[slot |-> calls[c].u.slot, former |-> calls[c].name, by |-> calls[c].number]}
  <2>4. users' = [users EXCEPT ![n] = NoUser] /\ retired' = retired \cup R
    BY <1>3 DEF Retire
  <2>5. (\A r, t \in R : r = t) /\ \A r \in R : r.slot = users[n].slot
    BY <2>3
  <2> HIDE DEF R
  <2> QED BY <1>0, <2>1, <2>3, <2>4, <2>5, OwnerGone
<1> QED BY <1>0, <1>1, <1>2, <1>3, ContinueSlots

LEMMA ContinueClaims ==
  ASSUME PoolInv, TypeInv', NEW c \in Calls, Continue(c)
  PROVE  ClaimsHold' /\ OneCallEach'
<1>0. TypeInv /\ OneCallEach /\ ClaimsHold /\ KnownBySlot /\ KnownBySlot'
  BY KnownHaveSlots, KnownHaveSlotsNext DEF PoolInv
<1>1. /\ \A d \in Calls \ {c} : calls'[d] = calls[d]
      /\ \/ calls'[c] = Idle
         \/ /\ calls'[c].op = calls[c].op /\ calls'[c].name = calls[c].name /\ calls'[c].u = calls[c].u
            /\ calls'[c].former = calls[c].former
  BY <1>0, ContinueMoves, MovesCalls
<1>2. Idle.name = NoName /\ Idle.op = "none"
  BY DEF Idle
<1>3. OneCallEach'
  BY <1>0, <1>1, <1>2 DEF OneCallEach
<1>4. \A d \in Calls \ {c} : Claims(calls[d]) =>
        calls[d].name \in Names /\ users'[calls[d].name] = users[calls[d].name]
  <2> SUFFICES ASSUME NEW d \in Calls \ {c}, Claims(calls[d])
               PROVE  calls[d].name \in Names /\ users'[calls[d].name] = users[calls[d].name]
    OBVIOUS
  <2>1. calls[d].op \in {"invite", "remove"}
    BY DEF Claims
  <2>2. calls[d].name \in Names /\ calls[d].name # NoName
    BY <1>0, <2>1, NextStages, ProvisionerAssumption DEF StageOK, OpsOnUser
  <2>3. CASE calls[c].name # calls[d].name
    BY <1>0, <2>2, <2>3, ContinueSlots DEF OnlyOf
  <2>4. CASE calls[c].name = calls[d].name
    <3>1. calls[c].op = "rotate"
      BY <1>0, <2>1, <2>2, <2>4 DEF OneCallEach
    <3>2. calls[c].pc \in {"provision", "waiting"}
      BY <1>0, <3>1, NextStages DEF StageOK, StagesOf
    <3> QED BY <1>0, <2>2, <3>2, ContinueSlots
  <2> QED BY <2>3, <2>4
<1>5. ASSUME NEW d \in Calls \ {c} PROVE ClaimOK(calls[d])'
  <2>1. calls'[d] = calls[d] /\ ClaimOK(calls[d])
    BY <1>0, <1>1 DEF ClaimsHold
  <2> QED BY <1>4, <2>1 DEF ClaimOK, Claims, Known
<1>6. ClaimOK(calls[c])'
  <2>1. CASE calls'[c] = Idle
    BY <1>2, <2>1 DEF ClaimOK, Claims
  <2>2. CASE calls'[c] # Idle
    <3>1. /\ calls'[c].op = calls[c].op /\ calls'[c].name = calls[c].name /\ calls'[c].u = calls[c].u
          /\ calls'[c].former = calls[c].former
      BY <1>1, <2>2
    <3>2. calls[c].pc # "waiting" /\ ClaimOK(calls[c]) /\ calls \in [Calls -> CallRecord]
      BY <1>0, ContinueSlots DEF ClaimsHold, TypeInv, TypeOK
    <3>3. calls[c].pc = "provision" => calls'[c].pc = "waiting"
      BY <1>0, <3>2, ContinueSlots DEF To, CallRecord
    <3>4. calls[c].pc \in StagesOf(calls[c].op)
      BY <1>0, NextStages DEF StageOK
    <3>5. Claims(calls'[c]) => Claims(calls[c])
      BY <3>1, <3>2, <3>3, <3>4 DEF Claims, StagesOf
    <3>6. CASE SlotsKept
      <4>1. Claims(calls[c]) => calls[c].name \in Names
        BY <1>0, NextStages DEF Claims, StageOK, OpsOnUser
      <4> QED BY <1>0, <3>1, <3>2, <3>5, <3>6, <4>1 DEF ClaimOK, KnownBySlot, SlotsKept, Claims
    <3>7. CASE Rollback(c)
      BY <2>2, <3>2, <3>7 DEF Rollback, Throw, Return
    <3>8. CASE Retire(c)
      <4>1. calls'[c].pc = "provision" /\ calls[c].op = "remove"
        BY <1>0, <3>2, <3>4, <3>8 DEF Retire, At, ToQuietly, To, CallRecord, StagesOf
      <4> QED BY <3>1, <3>2, <4>1 DEF ClaimOK, Claims
    <3> QED BY <1>0, <3>6, <3>7, <3>8, ContinueSlots
  <2> QED BY <2>1, <2>2
<1>7. ClaimsHold'
  BY <1>5, <1>6 DEF ClaimsHold
<1> QED BY <1>3, <1>7

\* A new call r, for an employee nobody else but a rotation is at work on.
LEMMA CallsWith ==
  ASSUME PoolInv, NEW c \in Calls, NEW r, calls' = [calls EXCEPT ![c] = r],
         \A d \in Calls : calls[d].name # r.name \/ calls[d].op = "rotate" \/ r.op = "rotate"
                            \/ r.name = NoName,
         r.name \in Names => OnlyOf(r.name),
         r.name \notin Names => users' = users,
         r.op = "rotate" => users' = users,
         ClaimOK(r)'
  PROVE  ClaimsHold' /\ OneCallEach'
<1>0. calls \in [Calls -> CallRecord] /\ TypeInv /\ OneCallEach /\ ClaimsHold
  BY DEF PoolInv, TypeInv, TypeOK
<1>1. calls'[c] = r /\ \A d \in Calls \ {c} : calls'[d] = calls[d]
  BY <1>0
<1>2. OneCallEach'
  BY <1>0, <1>1 DEF OneCallEach
<1>3. ASSUME NEW d \in Calls \ {c} PROVE ClaimOK(calls[d])'
  <2>1. calls'[d] = calls[d] /\ ClaimOK(calls[d])
    BY <1>0, <1>1 DEF ClaimsHold
  <2>2. ASSUME Claims(calls[d]) PROVE users'[calls[d].name] = users[calls[d].name]
    <3>1. calls[d].op \in {"invite", "remove"}
      BY <2>2 DEF Claims
    <3>2. calls[d].name \in Names /\ calls[d].name # NoName
      BY <1>0, <3>1, NextStages, ProvisionerAssumption DEF StageOK, OpsOnUser
    <3>3. CASE calls[d].name = r.name
      BY <3>1, <3>2, <3>3
    <3>4. CASE calls[d].name # r.name
      BY <3>2, <3>4 DEF OnlyOf
    <3> QED BY <3>3, <3>4
  <2> QED BY <2>1, <2>2 DEF ClaimOK, Claims, Known
<1>4. ClaimOK(calls[c])'
  BY <1>1 DEF ClaimOK, Claims, Known
<1> QED BY <1>2, <1>3, <1>4 DEF ClaimsHold

\* An invitation takes a slot nobody has, or one that only its own retired entry has.
LEMMA AdmitPool ==
  ASSUME PoolInv, TypeInv', NEW c \in Calls, NEW n \in Names, NEW role \in Roles, NEW slot \in Slots,
         NEW former \in RetiredRecord \cup {NoRetired}, begun' \in Nat,
         \A d \in Calls : calls[d].name # n \/ calls[d].op = "rotate",
         ~Known(n), \A m \in Names : Known(m) => users[m].slot # slot,
         \A r \in retired \ {former} : r.slot # slot,
         former # NoRetired => former.slot = slot /\ former.former = n,
         Admit(c, n, role, slot, former)
  PROVE  PoolInv'
<1> DEFINE new  == Reserved(n, role, slot)
           call == Opened(c, "invite", n, "ensure")
<1> PICK r : r = [call EXCEPT !.role = role, !.u = new, !.former = former]
  OBVIOUS
<1>1. new.slot = slot /\ new # NoUser
  BY ProvisionerAssumption DEF Reserved, NoUser
<1>2. "ensure" \in StagesOf("invite") /\ TypeInv /\ OneOwner
  BY DEF StagesOf, PoolInv
<1>3. call \in CallRecord /\ call.op = "invite" /\ call.pc = "ensure" /\ call.name = n
  BY <1>2, OpenedTyped
<1>4. calls' = [calls EXCEPT ![c] = r] /\ users' = [users EXCEPT ![n] = new] /\ retired' = retired \ {former}
  BY DEF Admit
<1> HIDE DEF call, new
<1>5. r.op = "invite" /\ r.pc = "ensure" /\ r.name = n /\ r.u = new /\ r.former = former
  BY <1>3 DEF CallRecord
<1>6. users \in [Names -> UserRecord \cup {NoUser}]
  BY <1>2 DEF TypeInv, TypeOK
<1>7. users'[n] = new /\ OnlyOf(n)
  BY <1>4, <1>6 DEF OnlyOf
<1>8. ClaimOK(r)'
  BY <1>1, <1>5, <1>7 DEF ClaimOK, Known
<1>9. ClaimsHold' /\ OneCallEach'
  BY <1>4, <1>5, <1>7, <1>8, CallsWith
<1>10. \A m \in Names \ {n} : users'[m] = users[m] /\ Known(m)' = Known(m)
  BY <1>7 DEF OnlyOf, Known
<1>11. OneOwner'
  <2>1. \A m, k \in Names : Known(m)' /\ Known(k)' /\ users'[m].slot = users'[k].slot => m = k
    BY <1>1, <1>2, <1>7, <1>10 DEF OneOwner
  <2>2. \A t \in retired', m \in Names : Known(m)' => users'[m].slot # t.slot
    BY <1>1, <1>2, <1>4, <1>7, <1>10 DEF OneOwner
  <2>3. \A t, x \in retired' : t.slot = x.slot => t = x
    BY <1>2, <1>4 DEF OneOwner
  <2> QED BY <2>1, <2>2, <2>3 DEF OneOwner
<1> QED BY <1>9, <1>11 DEF PoolInv

LEMMA NewCallAlone ==
  ASSUME ~Overlap, NEW c \in Calls, NEW op, NEW n \in Names, Begins(c, op, n), op # "rotate"
  PROVE  \A d \in Calls : calls[d].name # n \/ calls[d].op = "rotate"
  BY ProvisionerAssumption DEF Begins

\* The slots an invitation may take.
LEMMA InvitePool ==
  ASSUME PoolInv, TypeInv', ~Overlap, NEW c \in Calls, NEW n \in Names, NEW role \in Roles,
         Invite(c, n, role) \/ InviteRestoring(c, n, role)
  PROVE  PoolInv'
<1>0. TypeInv /\ OneOwner /\ ~Known(n) /\ \A r \in retired : r.slot \in Slots /\ r \in RetiredRecord
  BY DEF PoolInv, Invite, InviteRestoring, TypeInv, TypeOK, RetiredRecord
<1>1. begun' \in Nat /\ \A d \in Calls : calls[d].name # n \/ calls[d].op = "rotate"
  BY <1>0, BeginsTyped, NewCallAlone DEF Invite, InviteRestoring
<1>2. CASE Invite(c, n, role)
  <2>1. PICK s \in Slots : IsNextFreeSlot(s) /\ Admit(c, n, role, s, NoRetired)
    BY <1>2 DEF Invite
  <2>2. /\ \A m \in Names : Known(m) => users[m].slot # s
        /\ \A r \in retired : r.slot # s
    BY <2>1 DEF IsNextFreeSlot, FreeSlots, Taken
  <2> QED BY <1>0, <1>1, <2>1, <2>2, AdmitPool
<1>3. CASE InviteRestoring(c, n, role)
  <2>1. PICK r \in retired : r.former = n /\ Admit(c, n, role, r.slot, r)
    BY <1>3 DEF InviteRestoring
  <2>2. /\ \A m \in Names : Known(m) => users[m].slot # r.slot
        /\ \A t \in retired \ {r} : t.slot # r.slot
    BY <1>0 DEF OneOwner
  <2> QED BY <1>0, <1>1, <2>1, <2>2, AdmitPool
<1> QED BY <1>2, <1>3

LEMMA BeginPool ==
  ASSUME PoolInv, TypeInv', ~Overlap, NEW c \in Calls, Begin(c)
  PROVE  PoolInv'
<1>0. TypeInv /\ OneOwner /\ ClaimsHold /\ OneCallEach
  BY DEF PoolInv
<1>1. CASE \E n \in Names, role \in Roles : Invite(c, n, role) \/ InviteRestoring(c, n, role)
  BY <1>1, InvitePool
<1>2. CASE \E n \in Names, op \in OpsOnUser : OnUser(c, op, n)
  <2> PICK n \in Names, op \in OpsOnUser : OnUser(c, op, n)
    BY <1>2
  <2>1. begun' \in Nat
    BY <1>0, BeginsTyped DEF OnUser
  <2>2. FirstStep(op) \in StagesOf(op)
    BY DEF OpsOnUser, FirstStep, StagesOf
  <2> DEFINE call == Opened(c, op, n, FirstStep(op))
  <2>3. /\ call \in CallRecord /\ call.op = op /\ call.pc = FirstStep(op) /\ call.name = n
        /\ call.u = users[n]
    BY <1>0, <2>1, <2>2, OpenedTyped
  <2>4. PICK role : calls' = [calls EXCEPT ![c] = [call EXCEPT !.role = role]]
    BY DEF OnUser
  <2> PICK r : r = [call EXCEPT !.role = role]
    OBVIOUS
  <2> HIDE DEF call
  <2>5. r.op = op /\ r.pc = FirstStep(op) /\ r.name = n /\ r.u = users[n]
    BY <2>3 DEF CallRecord
  <2>6. users' = users /\ retired' = retired /\ calls' = [calls EXCEPT ![c] = r]
    BY <2>4 DEF OnUser
  <2>7. op # "rotate" => \A d \in Calls : calls[d].name # n \/ calls[d].op = "rotate"
    BY NewCallAlone DEF OnUser
  <2>8. ClaimOK(r)'
    BY <2>5, <2>6 DEF ClaimOK, Claims, Known, OnUser, OpsOnUser
  <2>9. ClaimsHold' /\ OneCallEach'
    BY <2>5, <2>6, <2>7, <2>8, CallsWith DEF OnlyOf
  <2>10. OneOwner'
    BY <1>0, <2>6, OwnersKept DEF SlotsKept
  <2> QED BY <2>9, <2>10 DEF PoolInv
<1>3. CASE Reprovision(c)
  <2> PICK r : r = [Idle EXCEPT !.op = "reprovision", !.pc = "provision", !.number = begun']
    OBVIOUS
  <2>1. calls' = [calls EXCEPT ![c] = r] /\ users' = users /\ retired' = retired
    BY <1>3 DEF Reprovision
  <2>2. r.op = "reprovision" /\ r.name = NoName
    BY DEF Idle
  <2>3. ClaimOK(r)'
    BY <2>2 DEF ClaimOK, Claims
  <2>4. ClaimsHold' /\ OneCallEach'
    BY <2>1, <2>2, <2>3, CallsWith, ProvisionerAssumption
  <2>5. OneOwner'
    BY <1>0, <2>1, OwnersKept DEF SlotsKept
  <2> QED BY <2>4, <2>5 DEF PoolInv
<1>4. CASE ReleaseSlot(c)
  <2>1. users' = users /\ calls' = calls /\ retired' \subseteq retired
    BY <1>4 DEF ReleaseSlot
  <2>2. ClaimsHold' /\ OneCallEach'
    BY <1>0, <2>1 DEF ClaimsHold, OneCallEach, ClaimOK, Known
  <2>3. OneOwner'
    BY <1>0, <2>1 DEF OneOwner, Known
  <2> QED BY <2>2, <2>3 DEF PoolInv
<1> QED BY <1>1, <1>2, <1>3, <1>4 DEF Begin, OpsOnUser

\* The steps of nobody's operation keep the slots, and what they end was at its end.
LEMMA OtherSlots ==
  ASSUME TypeInv, Running \/ Crash \/ (\E n \in Names : Activate(n) \/ LogIn(n)) \/ UNCHANGED vars
  PROVE  SlotsKept /\ \A c \in Calls : calls'[c] = calls[c] \/ calls'[c] = Idle
<1>0. users \in [Names -> UserRecord \cup {NoUser}] /\ calls \in [Calls -> CallRecord] /\ RunIsFor
  BY DEF TypeInv, TypeOK
<1>1. CASE BeginRun \/ (RunStep /\ UNCHANGED portalVars) \/ UNCHANGED vars \/ \E n \in Names : LogIn(n)
  BY <1>1 DEF BeginRun, portalVars, vars, LogIn, SlotsKept
<1>2. CASE FinishRun
  <2>1. PICK listed : /\ listed \subseteq {n \in Names : Known(n)}
                      /\ users' = [n \in Names |-> IF n \in listed
                           THEN [users[n] EXCEPT !.prov = IF n \in run.failed THEN "failed" ELSE "ok"]
                           ELSE users[n]]
    BY <1>2 DEF FinishRun, Listed
  <2>2. \A n \in listed : users[n] \in UserRecord
    BY <1>0, <2>1 DEF Known
  <2>3. \A n \in Names : users'[n].slot = users[n].slot
    BY <2>1, <2>2 DEF UserRecord
  <2>4. Return(run.call) /\ retired' = retired
    BY <1>2 DEF FinishRun, Succeed, Throw
  <2> QED BY <1>0, <2>3, <2>4 DEF SlotsKept, Return
<1>3. CASE Crash
  BY <1>3 DEF Crash, SlotsKept
<1>4. CASE \E n \in Names : Activate(n)
  <2> PICK n \in Names : Activate(n)
    BY <1>4
  <2>1. users[n] \in UserRecord
    BY <1>0 DEF Activate, NoUser
  <2>2. users' = [users EXCEPT ![n] = [[users[n] EXCEPT !.status = "active"] EXCEPT !.visited = TRUE]]
    BY <1>0 DEF Activate
  <2>3. [[users[n] EXCEPT !.status = "active"] EXCEPT !.visited = TRUE].slot = users[n].slot
    BY <2>1 DEF UserRecord
  <2> QED BY <1>0, <2>2, <2>3 DEF Activate, SlotsKept
<1> QED BY <1>1, <1>2, <1>3, <1>4 DEF Running

LEMMA OtherPool ==
  ASSUME PoolInv, TypeInv', SlotsKept, \A c \in Calls : calls'[c] = calls[c] \/ calls'[c] = Idle
  PROVE  PoolInv'
<1>0. TypeInv /\ OneOwner /\ ClaimsHold /\ OneCallEach /\ KnownBySlot /\ KnownBySlot'
  BY KnownHaveSlots, KnownHaveSlotsNext DEF PoolInv
<1>1. Idle.name = NoName /\ Idle.op = "none"
  BY DEF Idle
<1>2. OneCallEach'
  BY <1>0, <1>1 DEF OneCallEach
<1>3. ASSUME NEW c \in Calls PROVE ClaimOK(calls[c])'
  <2>1. CASE calls'[c] = Idle
    BY <1>1, <2>1 DEF ClaimOK, Claims
  <2>2. CASE calls'[c] = calls[c]
    <3>1. Claims(calls[c]) => calls[c].name \in Names
      BY <1>0, NextStages DEF Claims, StageOK, OpsOnUser
    <3>2. ClaimOK(calls[c])
      BY <1>0 DEF ClaimsHold
    <3> QED BY <1>0, <2>2, <3>1, <3>2 DEF ClaimOK, KnownBySlot, SlotsKept, Claims
  <2> QED BY <2>1, <2>2
<1>4. OneOwner'
  BY <1>0, OwnersKept
<1> QED BY <1>2, <1>3, <1>4 DEF PoolInv, ClaimsHold

LEMMA InitPool ==
  ASSUME Init
  PROVE  PoolInv
<1>0. TypeInv /\ KnownBySlot
  BY InitTyped, KnownHaveSlots
<1>1. ClaimsHold /\ OneCallEach
  <2>1. \A c \in Calls : calls[c] = Idle /\ calls[c].name = NoName /\ calls[c].op = "none"
    BY DEF Init, Idle
  <2> QED BY <2>1 DEF ClaimsHold, OneCallEach, ClaimOK, Claims
<1>2. \A n \in Names : Known(n) => n \in Listed(Staff) /\ users[n].slot = Staff[n].slot
  BY DEF Init, Known, Listed
<1>3. OneOwner
  BY <1>2, LifecycleAssumption DEF OneOwner, Init, ValidSpec
<1> QED BY <1>0, <1>1, <1>3 DEF PoolInv

LEMMA StepPool ==
  ASSUME PoolInv, ~Overlap, [Next]_vars
  PROVE  PoolInv'
<1>1. TypeInv'
  BY StepTyped DEF PoolInv
<1>2. CASE \E c \in Calls : Begin(c)
  BY <1>1, <1>2, BeginPool
<1>3. CASE \E c \in Calls : Continue(c)
  BY <1>1, <1>3, ContinueOwners, ContinueClaims DEF PoolInv
<1>4. CASE Running \/ Crash \/ (\E n \in Names : Activate(n) \/ LogIn(n)) \/ UNCHANGED vars
  BY <1>1, <1>4, OtherSlots, OtherPool DEF PoolInv
<1> QED BY <1>2, <1>3, <1>4 DEF Next

-----------------------------------------------------------------------------
(* The slots as a pool *)

\* What the pool says of each slot: its one holder, its one former owner, or that it is free.
PoolShape ==
  /\ \A n \in Names : Known(n) => users[n].slot \in Slots /\ Pool[users[n].slot] = Slots_!Held(n)
  /\ \A r \in retired : r.slot \in Slots /\ r.former \in Names /\ Pool[r.slot] = Slots_!Retired(r.former)
  /\ \A s \in FreeSlots : Pool[s] = Slots_!Free
  /\ \A s \in Slots : s \in FreeSlots \/ (\E r \in retired : r.slot = s)
                       \/ (\E n \in Names : Known(n) /\ users[n].slot = s)

LEMMA PoolShapeHolds ==
  PoolInv => PoolShape
<1> SUFFICES ASSUME PoolInv PROVE PoolShape
  OBVIOUS
<1>0. OneOwner /\ retired \subseteq RetiredRecord /\ users \in [Names -> UserRecord \cup {NoUser}]
  BY DEF PoolInv, TypeInv, TypeOK
<1>1. ASSUME NEW n \in Names, Known(n)
      PROVE  users[n].slot \in Slots /\ Pool[users[n].slot] = Slots_!Held(n)
  <2> DEFINE s == users[n].slot
  <2>1. s \in Slots
    BY <1>0, <1>1 DEF Known, UserRecord
  <2>2. Holders(s) = {n}
    BY <1>0, <1>1 DEF Holders, OneOwner
  <2>3. Formers(s) = {}
    BY <1>0, <1>1 DEF Formers, OneOwner
  <2> QED BY <2>1, <2>2, <2>3 DEF Pool, Slots_!Held
<1>2. ASSUME NEW r \in retired
      PROVE  r.slot \in Slots /\ r.former \in Names /\ Pool[r.slot] = Slots_!Retired(r.former)
  <2> DEFINE s == r.slot
  <2>1. s \in Slots /\ r.former \in Names
    BY <1>0 DEF RetiredRecord
  <2>2. Holders(s) = {}
    BY <1>0 DEF Holders, OneOwner
  <2>3. Formers(s) = {r.former}
    BY <1>0 DEF Formers, OneOwner
  <2> QED BY <2>1, <2>2, <2>3 DEF Pool, Slots_!Retired
<1>3. ASSUME NEW s \in FreeSlots PROVE Pool[s] = Slots_!Free
  <2>1. s \in Slots /\ Holders(s) = {} /\ Formers(s) = {}
    BY DEF FreeSlots, Taken, Holders, Formers
  <2> QED BY <2>1 DEF Pool, Slots_!Free
<1>4. \A s \in Slots : s \in FreeSlots \/ (\E r \in retired : r.slot = s)
                        \/ (\E n \in Names : Known(n) /\ users[n].slot = s)
  BY DEF FreeSlots, Taken
<1> QED BY <1>1, <1>2, <1>3, <1>4 DEF PoolShape

LEMMA PoolShapeNext ==
  ASSUME PoolInv' PROVE PoolShape'
<1>1. (PoolInv => PoolShape)'
  BY PoolShapeHolds, PTL
<1> QED BY <1>1

\* The three kinds of slots differ, and so do the slots of different employees.
LEMMA StatesDiffer ==
  ASSUME NEW m, NEW n
  PROVE  /\ Slots_!Held(m) = Slots_!Held(n) => m = n
         /\ Slots_!Retired(m) = Slots_!Retired(n) => m = n
         /\ Slots_!Held(m) # Slots_!Retired(n) /\ Slots_!Held(m) # Slots_!Free
         /\ Slots_!Retired(m) # Slots_!Free
<1>1. /\ Slots_!Held(m).kind = "held" /\ Slots_!Held(m).who = {m} /\ Slots_!Held(n).who = {n}
      /\ Slots_!Retired(m).kind = "retired" /\ Slots_!Retired(m).who = {m} /\ Slots_!Retired(n).who = {n}
      /\ Slots_!Retired(n).kind = "retired" /\ Slots_!Free.kind = "free"
  BY DEF Slots_!Held, Slots_!Retired, Slots_!Free
<1>2. {m} = {n} => m = n
  OBVIOUS
<1> QED BY <1>1, <1>2

\* An employee the portal does not know holds no slot of the pool.
LEMMA UnknownHoldNothing ==
  ASSUME PoolInv, NEW n \in Names, ~Known(n)
  PROVE  Slots_!HoldsNothing(n)
<1> SUFFICES ASSUME NEW s \in Slots PROVE Pool[s] # Slots_!Held(n)
  BY DEF Slots_!HoldsNothing
<1>1. PoolShape
  BY PoolShapeHolds
<1>2. CASE s \in FreeSlots
  BY <1>1, <1>2, StatesDiffer DEF PoolShape
<1>3. CASE \E r \in retired : r.slot = s
  BY <1>1, <1>3, StatesDiffer DEF PoolShape
<1>4. CASE \E m \in Names : Known(m) /\ users[m].slot = s
  BY <1>1, <1>4, StatesDiffer DEF PoolShape
<1> QED BY <1>1, <1>2, <1>3, <1>4 DEF PoolShape

\* A step that touches one slot.
LEMMA OneSlot ==
  ASSUME NEW s \in Slots, \A t \in Slots \ {s} : Holders(t)' = Holders(t) /\ Formers(t)' = Formers(t)
  PROVE  Pool' = [Pool EXCEPT ![s] = Pool'[s]]
<1>1. \A t \in Slots \ {s} : Pool'[t] = Pool[t]
  BY DEF Pool
<1>2. Pool = [t \in Slots |-> Pool[t]] /\ Pool' = [t \in Slots |-> Pool'[t]]
  BY DEF Pool
<1> HIDE DEF Pool
<1> QED BY <1>1, <1>2

\* Between a state in which nobody has the slot and one in which n has it.
LEMMA TakenFrom ==
  ASSUME PoolInv, PoolInv', NEW n \in Names, NEW s \in Slots, OnlyOf(n), ~Known(n), Known(n)',
         users'[n].slot = s, NEW R, retired' = retired \ R, \A r \in R \cap retired : r.slot = s
  PROVE  Pool' = [Pool EXCEPT ![s] = Slots_!Held(n)]
<1>1. \A m \in Names \ {n} : users'[m] = users[m] /\ Known(m)' = Known(m)
  BY DEF OnlyOf, Known
<1>2. ASSUME NEW t \in Slots \ {s} PROVE Holders(t)' = Holders(t) /\ Formers(t)' = Formers(t)
  BY <1>1 DEF Holders, Formers
<1>3. Pool'[s] = Slots_!Held(n)
  BY PoolShapeNext DEF PoolShape
<1> QED BY <1>2, <1>3, OneSlot

\* Between a state in which n has the slot and one in which it is free or retired.
LEMMA LeftBy ==
  ASSUME PoolInv, PoolInv', NEW n \in Names, OnlyOf(n), Known(n), ~Known(n)',
         NEW R, retired' = retired \cup R, \A r \in R : r.slot = users[n].slot
  PROVE  \E s \in Slots :
           /\ s = users[n].slot /\ Pool[s] = Slots_!Held(n)
           /\ R = {} => Pool' = [Pool EXCEPT ![s] = Slots_!Free]
           /\ \A r \in R : Pool' = [Pool EXCEPT ![s] = Slots_!Retired(r.former)]
<1> DEFINE s == users[n].slot
<1>0. PoolShape /\ PoolShape'
  BY PoolShapeHolds, PoolShapeNext
<1>1. s \in Slots /\ Pool[s] = Slots_!Held(n)
  BY <1>0 DEF PoolShape
<1>2. \A m \in Names \ {n} : users'[m] = users[m] /\ Known(m)' = Known(m)
  BY DEF OnlyOf, Known
<1>3. ASSUME NEW t \in Slots \ {s} PROVE Holders(t)' = Holders(t) /\ Formers(t)' = Formers(t)
  BY <1>2 DEF Holders, Formers
<1>4. PICK x : x = s
  OBVIOUS
<1>5. Pool' = [Pool EXCEPT ![x] = Pool'[x]]
  BY <1>1, <1>3, <1>4, OneSlot
<1>6. ASSUME NEW r \in R PROVE Pool'[x] = Slots_!Retired(r.former)
  BY <1>0, <1>4 DEF PoolShape
<1>7. ASSUME R = {} PROVE Pool'[x] = Slots_!Free
  <2>1. \A r \in retired : r.slot # x
    BY <1>4 DEF PoolInv, OneOwner
  <2>2. \A m \in Names : Known(m)' => users'[m].slot # x
    BY <1>2, <1>4 DEF PoolInv, OneOwner
  <2>3. x \in FreeSlots'
    BY <1>1, <1>4, <1>7, <2>1, <2>2 DEF FreeSlots, Taken
  <2> QED BY <1>0, <2>3 DEF PoolShape
<1> QED BY <1>1, <1>4, <1>5, <1>6, <1>7

\* A step that keeps the slots keeps the pool.
LEMMA PoolKept ==
  ASSUME TypeInv, TypeInv', SlotsKept
  PROVE  Pool' = Pool
<1>1. \A n \in Names : Known(n)' <=> Known(n)
  BY KnownHaveSlots, KnownHaveSlotsNext DEF KnownBySlot, SlotsKept
<1>2. \A s \in Slots : Holders(s)' = Holders(s) /\ Formers(s)' = Formers(s)
  BY <1>1 DEF SlotsKept, Holders, Formers
<1> QED BY <1>2 DEF Pool

LEMMA NoUserUnknown ==
  ASSUME NEW n \in Names, users' = [users EXCEPT ![n] = NoUser], TypeInv
  PROVE  ~Known(n)' /\ OnlyOf(n)
<1>1. users \in [Names -> UserRecord \cup {NoUser}]
  BY DEF TypeInv, TypeOK
<1> QED BY <1>1 DEF Known, OnlyOf

\* An invitation is a move of the pool.
LEMMA AdmitMove ==
  ASSUME PoolInv, PoolInv', NEW c \in Calls, NEW n \in Names, NEW role, NEW s \in Slots, NEW former,
         ~Known(n), Admit(c, n, role, s, former), former \in retired => former.slot = s
  PROVE  Pool' = [Pool EXCEPT ![s] = Slots_!Held(n)] /\ Slots_!HoldsNothing(n)
<1>1. users \in [Names -> UserRecord \cup {NoUser}]
  BY DEF PoolInv, TypeInv, TypeOK
<1>2. users'[n] = Reserved(n, role, s) /\ OnlyOf(n)
  BY <1>1 DEF Admit, OnlyOf
<1>3. Known(n)' /\ users'[n].slot = s
  BY <1>2, ProvisionerAssumption DEF Known, Reserved, NoUser
<1>4. retired' = retired \ {former}
  BY DEF Admit
<1>5. \A r \in {former} \cap retired : r.slot = s
  OBVIOUS
<1>6. Pool' = [Pool EXCEPT ![s] = Slots_!Held(n)]
  BY <1>2, <1>3, <1>4, <1>5, TakenFrom
<1> QED BY <1>6, UnknownHoldNothing

LEMMA BeginMove ==
  ASSUME PoolInv, PoolInv', NEW c \in Calls, Begin(c)
  PROVE  Slots_!Next \/ Pool' = Pool
<1>0. TypeInv /\ TypeInv' /\ OneOwner /\ PoolShape /\ PoolShape' /\ retired \subseteq RetiredRecord
  BY PoolShapeHolds, PoolShapeNext DEF PoolInv, TypeInv, TypeOK
<1>1. CASE \E n \in Names, role \in Roles : Invite(c, n, role)
  <2> PICK n \in Names, role \in Roles : Invite(c, n, role)
    BY <1>1
  <2>1. PICK s \in Slots : IsNextFreeSlot(s) /\ Admit(c, n, role, s, NoRetired)
    BY DEF Invite
  <2>2. ~Known(n)
    BY DEF Invite
  <2>3. NoRetired \notin retired
    BY <1>0, ProvisionerAssumption DEF RetiredRecord, NoRetired
  <2>4. Pool' = [Pool EXCEPT ![s] = Slots_!Held(n)] /\ Slots_!HoldsNothing(n)
    BY <2>1, <2>2, <2>3, AdmitMove
  <2>5. s \in FreeSlots /\ \A t \in FreeSlots : s <= t
    BY <2>1 DEF IsNextFreeSlot
  <2>6. Pool[s] = Slots_!Free
    BY <1>0, <2>5 DEF PoolShape
  <2>7. \A t \in Slots : Pool[t] = Slots_!Free => t \in FreeSlots
    BY <1>0, StatesDiffer DEF PoolShape
  <2>8. Slots_!Assign(n, s)
    BY <2>4, <2>5, <2>6, <2>7 DEF Slots_!Assign
  <2> QED BY <2>8 DEF Slots_!Next
<1>2. CASE \E n \in Names, role \in Roles : InviteRestoring(c, n, role)
  <2> PICK n \in Names, role \in Roles : InviteRestoring(c, n, role)
    BY <1>2
  <2>1. PICK r \in retired : r.former = n /\ Admit(c, n, role, r.slot, r)
    BY DEF InviteRestoring
  <2>2. ~Known(n)
    BY DEF InviteRestoring
  <2>3. r.slot \in Slots /\ Pool[r.slot] = Slots_!Retired(n)
    BY <1>0, <2>1 DEF PoolShape
  <2>4. Pool' = [Pool EXCEPT ![r.slot] = Slots_!Held(n)] /\ Slots_!HoldsNothing(n)
    BY <2>1, <2>2, <2>3, AdmitMove
  <2>5. Slots_!Restore(n, r.slot)
    BY <2>3, <2>4 DEF Slots_!Restore
  <2> QED BY <2>3, <2>5 DEF Slots_!Next
<1>3. CASE (\E n \in Names, op \in OpsOnUser : OnUser(c, op, n)) \/ Reprovision(c)
  <2>1. SlotsKept
    BY <1>3 DEF OnUser, Reprovision, SlotsKept
  <2> QED BY <1>0, <2>1, PoolKept
<1>4. CASE ReleaseSlot(c)
  <2>1. PICK r \in retired : retired' = retired \ {r}
    BY <1>4 DEF ReleaseSlot
  <2>2. users' = users
    BY <1>4 DEF ReleaseSlot
  <2>3. PICK s \in Slots : s = r.slot /\ Pool[s] = Slots_!Retired(r.former) /\ r.former \in Names
    BY <1>0 DEF PoolShape
  <2>4. ASSUME NEW t \in Slots \ {s} PROVE Holders(t)' = Holders(t) /\ Formers(t)' = Formers(t)
    BY <2>1, <2>2, <2>3 DEF Holders, Formers, Known
  <2>5. \A x \in retired' : x.slot # s
    BY <1>0, <2>1, <2>3 DEF OneOwner
  <2>6. \A n \in Names : Known(n)' => users'[n].slot # s
    BY <1>0, <2>2, <2>3 DEF OneOwner, Known
  <2>7. s \in FreeSlots'
    BY <2>5, <2>6 DEF FreeSlots, Taken
  <2>8. Pool' = [Pool EXCEPT ![s] = Slots_!Free]
    BY <1>0, <2>4, <2>7, OneSlot DEF PoolShape
  <2>9. Slots_!Release(s)
    BY <2>3, <2>8 DEF Slots_!Release
  <2> QED BY <2>9 DEF Slots_!Next
<1> QED BY <1>1, <1>2, <1>3, <1>4 DEF Begin, OpsOnUser

LEMMA ContinueMove ==
  ASSUME PoolInv, PoolInv', NEW c \in Calls, Continue(c)
  PROVE  Slots_!Next \/ Pool' = Pool
<1> PICK n : n = calls[c].name
  OBVIOUS
<1>0. TypeInv /\ TypeInv' /\ ClaimOK(calls[c]) /\ calls[c] \in CallRecord
  BY DEF PoolInv, ClaimsHold, TypeInv, TypeOK
<1>1. CASE SlotsKept
  BY <1>0, <1>1, PoolKept
<1>2. CASE Rollback(c) /\ calls[c].op = "invite"
  <2>1. calls[c].pc = "rollback" /\ n \in Names
    BY <1>0, <1>2, OfUser DEF Rollback, At
  <2>2. Known(n) /\ users[n].slot = calls[c].u.slot
    BY <1>0, <1>2, <2>1 DEF ClaimOK, Claims
  <2>3. users' = [users EXCEPT ![n] = NoUser] /\ retired' = retired \cup ({calls[c].former} \ {NoRetired})
    BY <1>2 DEF Rollback
  <2>4. ~Known(n)' /\ OnlyOf(n)
    BY <1>0, <2>1, <2>3, NoUserUnknown
  <2>5. PICK R : R = {calls[c].former} \ {NoRetired}
    OBVIOUS
  <2>6. \A r \in R : r.slot = users[n].slot /\ r.former = n
    BY <1>0, <1>2, <2>2, <2>5 DEF ClaimOK
  <2>7. PICK s \in Slots :
           /\ s = users[n].slot /\ Pool[s] = Slots_!Held(n)
           /\ R = {} => Pool' = [Pool EXCEPT ![s] = Slots_!Free]
           /\ \A r \in R : Pool' = [Pool EXCEPT ![s] = Slots_!Retired(r.former)]
    BY <2>1, <2>2, <2>3, <2>4, <2>5, <2>6, LeftBy
  <2>8. Pool' \in {[Pool EXCEPT ![s] = Slots_!Free], [Pool EXCEPT ![s] = Slots_!Retired(n)]}
    BY <2>6, <2>7
  <2>9. Slots_!GiveBack(n, s)
    BY <2>7, <2>8 DEF Slots_!GiveBack
  <2> QED BY <2>1, <2>9 DEF Slots_!Next
<1>3. CASE Retire(c)
  <2>1. calls[c].pc = "retire" /\ n \in Names
    BY <1>0, <1>3, OfUser DEF Retire, At
  <2>2. calls[c].op = "remove"
    BY <1>0, <2>1, NextStages DEF StageOK, StagesOf
  <2>3. Known(n) /\ users[n].slot = calls[c].u.slot
    BY <1>0, <2>1, <2>2 DEF ClaimOK, Claims
  <2>4. PICK r : r = [slot |-> calls[c].u.slot, former |-> n, by |-> calls[c].number]
    OBVIOUS
  <2>5. users' = [users EXCEPT ![n] = NoUser] /\ retired' = retired \cup {r}
    BY <1>3, <2>4 DEF Retire
  <2>6. ~Known(n)' /\ OnlyOf(n)
    BY <1>0, <2>1, <2>5, NoUserUnknown
  <2>7. r.former = n /\ r.slot = users[n].slot
    BY <2>3, <2>4
  <2>8. PICK s \in Slots :
           /\ s = users[n].slot /\ Pool[s] = Slots_!Held(n)
           /\ Pool' = [Pool EXCEPT ![s] = Slots_!Retired(r.former)]
    <3>1. PICK R : R = {r}
      OBVIOUS
    <3>2. retired' = retired \cup R /\ \A x \in R : x.slot = users[n].slot
      BY <2>5, <2>7, <3>1
    <3>3. \E s \in Slots :
             /\ s = users[n].slot /\ Pool[s] = Slots_!Held(n)
             /\ R = {} => Pool' = [Pool EXCEPT ![s] = Slots_!Free]
             /\ \A x \in R : Pool' = [Pool EXCEPT ![s] = Slots_!Retired(x.former)]
      BY <2>1, <2>3, <2>6, <3>2, LeftBy
    <3> QED BY <3>1, <3>3
  <2>9. Slots_!Retire(n, s)
    BY <2>7, <2>8 DEF Slots_!Retire
  <2> QED BY <2>1, <2>9 DEF Slots_!Next
<1> QED BY <1>0, <1>1, <1>2, <1>3, ContinueSlots

LEMMA PoolStarts ==
  ASSUME PoolInv, retired = {}
  PROVE  Slots_!Init
<1>1. PoolShape
  BY PoolShapeHolds
<1>2. ASSUME NEW s \in Slots PROVE Pool[s] \in {Slots_!Free} \cup {Slots_!Held(n) : n \in Names}
  <2>1. CASE s \in FreeSlots
    BY <1>1, <2>1 DEF PoolShape
  <2>2. CASE \E n \in Names : Known(n) /\ users[n].slot = s
    BY <1>1, <2>2 DEF PoolShape
  <2> QED BY <1>1, <2>1, <2>2 DEF PoolShape
<1>3. Pool = [s \in Slots |-> Pool[s]]
  BY DEF Pool
<1> HIDE DEF Pool
<1> QED BY <1>2, <1>3 DEF Slots_!Init

\* When two admin calls for one employee never overlap, every step of every operation, and whatever
\* fails or restarts, is a legal move of the slot pool: a vault has one employee or one former owner,
\* the lowest free vault is handed out, a retired one only to its former owner or after a release.
THEOREM SlotsAreAPool == ~Overlap => (Spec => ImplementsSlotPool)
<1> SUFFICES ASSUME ~Overlap PROVE Spec => ImplementsSlotPool
  OBVIOUS
<1>1. Init => PoolInv /\ Slots_!Init
  BY InitPool, PoolStarts DEF Init
<1>2. PoolInv /\ [Next]_vars => PoolInv'
  BY StepPool
<1>3. PoolInv /\ PoolInv' /\ [Next]_vars => [Slots_!Next]_Pool
  <2> SUFFICES ASSUME PoolInv, PoolInv', [Next]_vars PROVE Slots_!Next \/ Pool' = Pool
    OBVIOUS
  <2>1. CASE \E c \in Calls : Begin(c)
    BY <2>1, BeginMove
  <2>2. CASE \E c \in Calls : Continue(c)
    BY <2>2, ContinueMove
  <2>3. CASE Running \/ Crash \/ (\E n \in Names : Activate(n) \/ LogIn(n)) \/ UNCHANGED vars
    BY <2>3, OtherSlots, PoolKept DEF PoolInv
  <2> QED BY <2>1, <2>2, <2>3 DEF Next
<1> QED BY <1>1, <1>2, <1>3, PTL DEF Spec, ImplementsSlotPool, Slots_!Spec

-----------------------------------------------------------------------------
(* Off means off *)

\* What an admin does to an employee; until it asks for its provisioning such an operation is acting.
AdminOps == {"invite", "resend", "role", "disable", "enable", "remove"}
Acting(call) == call.op \in AdminOps /\ call.pc \notin {"provision", "waiting"}

\* The employee of an acting operation stays in the state, and the key it uses is the account's.
KeyKnown(call) ==
  Acting(call) =>
    LET n == call.name
    IN /\ Known(n)
       /\ call.op \in {"resend", "role", "enable"} /\ call.pc \in {"revoke", "patch", "ensure", "savepk"} =>
            call.u.pk = users[n].pk
       /\ call.op \in {"disable", "remove"} => call.u.pk = users[n].pk
       /\ call.op = "invite" /\ call.pc \in {"ensure", "rollback"} => users[n].pk = 0
       /\ call.pc = "savepk" => accounts[n].pk # 0
       /\ call.pc \in {"savepk", "groups", "activate"} => call.pk = accounts[n].pk
       /\ call.op = "role" /\ call.pc = "sessions" => call.pk = accounts[n].pk
       /\ call.pc = "retire" => accounts[n].pk = 0

\* The state has the key of the account, except between the two writes.
Linked(n) ==
  \/ users[n].pk = accounts[n].pk
  \/ \E c \in Calls : calls[c].name = n /\ calls[c].pc \in {"savepk", "retire"}

\* Keys of accounts are given once.
KeysGiven ==
  /\ \A n \in Names : accounts[n].pk < nextPk
  /\ \A m, n \in Names : accounts[m].pk = accounts[n].pk /\ accounts[n].pk # 0 => m = n

KeyInv == KeysGiven /\ (\A n \in Names : Linked(n)) /\ \A c \in Calls : KeyKnown(calls[c])

\* Whom a run leaves no key.
Unlisted(n) == ~Known(n) \/ users[n].status = "disabled"

\* An account nobody can use.
Dead(n) == ~accounts[n].active /\ accounts[n].web = NoAccess

\* What an operation knows of an employee who is off, or will be when it answers.
OffKnown(call) ==
  LET n == call.name
  IN /\ call.op \in {"invite", "resend", "enable"} => n \notin off
     /\ call.op = "role" /\ call.u.status # "disabled" => n \notin off
     /\ call.op = "role" /\ call.u.status = "disabled" =>
          call.pc \in {"revoke", "patch", "provision", "waiting"}
     /\ call.op \in {"disable", "remove"} =>
          /\ call.pc \notin {"revoke", "patch"} => Unlisted(n)
          /\ call.pc \in {"sessions", "delete"} => ~accounts[n].active
          /\ call.pc \in {"provision", "waiting"} /\ call.clean => Dead(n)

\* Nobody who is off has a key, or is about to get one.
OffHolds(n) == Unlisted(n) /\ Dead(n) /\ mcp[n].key = NoAccess /\ n \notin Listed(run.spec)

OffInv == (\A c \in Calls : OffKnown(calls[c])) /\ \A n \in off : OffHolds(n)

\* A run is for a call that waits for it, and each call waits for one.
Waits(c) == c \in Calls /\ calls[c].pc = "waiting"

QueueWaits ==
  /\ \A i \in 1..Len(queue) : Waits(queue[i].call) /\ queue[i].call # run.call
  /\ \A i, j \in 1..Len(queue) : queue[i].call = queue[j].call => i = j

\* It leaves an account only to the users of its spec, which was read after the operation it is for
\* had written that an employee is off.
Targets ==
  run.step # "none" =>
    /\ Waits(run.call)
    /\ calls[run.call].op \in {"disable", "remove"} => calls[run.call].name \notin Listed(run.spec)
    /\ run.todo \subseteq Listed(run.spec)
    /\ run.step \in {"keys", "issue"} =>
         run.at \in Listed(run.spec) /\ mcp[run.at].account /\ run.removals = {}
    /\ \A n \in Names : mcp[n].account => n \in Listed(run.spec) \/ n \in run.removals

KeysHaveAccounts == \A n \in Names : mcp[n].key # NoAccess => mcp[n].account

RunInv == KeysHaveAccounts /\ Targets /\ QueueWaits

PortalInv == PoolInv /\ KeyInv /\ OffInv /\ RunInv

\* No query of the database fails, no answer of Authentik is lost on its way and the portal does not restart;
\* calls to MetaMCP may fail and Authentik may refuse a call at any step.
NothingHalfDone == ~Overlap /\ {"db", "lost"} \cap FaultKinds = {} /\ MaxCrashes = 0

-----------------------------------------------------------------------------
LEMMA StageOps ==
  ASSUME TypeInv, NEW c \in Calls
  PROVE  LET op == calls[c].op
             pc == calls[c].pc
         IN /\ pc \in {"revoke", "patch"} => op \in {"role", "disable", "remove"}
            /\ pc \in {"ensure", "savepk"} => op \in {"invite", "resend", "role", "enable"}
            /\ pc = "rollback" => op \in {"invite", "role"}
            /\ pc = "link" => op \in {"invite", "resend"}
            /\ pc = "groups" => op = "role"
            /\ pc = "deactivate" => op \in {"disable", "remove"}
            /\ pc = "sessions" => op \in {"role", "disable", "remove"}
            /\ pc \in {"delete", "retire"} => op = "remove"
            /\ pc \in {"activate", "status"} => op = "enable"
            /\ pc \notin {"idle", "provision", "waiting"} => op \in AdminOps
            /\ op \in AdminOps => pc # "idle" /\ calls[c].name \in Names
  <1>1. calls[c].pc \in StagesOf(calls[c].op) /\ StageOK(calls[c])
    BY DEF TypeInv, Stages, StageOK
  <1>2. calls[c].op \in AdminOps => calls[c].name \in Names
    BY <1>1 DEF StageOK, AdminOps, OpsOnUser
  <1> QED BY <1>1, <1>2 DEF StagesOf, AdminOps

LEMMA PositiveKeys ==
  ASSUME TypeInv, NEW n \in Names
  PROVE  /\ accounts[n].pk \in Nat /\ (accounts[n].pk = 0 <=> accounts[n] = NoAccount)
         /\ accounts[n].pk = 0 => Dead(n)
         /\ Account(0) = {}
<1>1. accounts \in [Names -> AccountRecord \cup {NoAccount}]
  BY DEF TypeInv, TypeOK
<1>2. \A m \in Names : accounts[m].pk \in Nat /\ (accounts[m].pk = 0 <=> accounts[m] = NoAccount)
  BY <1>1 DEF AccountRecord, NoAccount
<1>3. NoAccount.active = FALSE /\ NoAccount.web = NoAccess
  BY DEF NoAccount
<1>4. accounts[n].pk = 0 => Dead(n)
  BY <1>2, <1>3 DEF Dead
<1> QED BY <1>2, <1>4 DEF Account

\* The account of a key is that of the employee who has it.
LEMMA AccountOf ==
  ASSUME TypeInv, KeysGiven, NEW n \in Names
  PROVE  Account(accounts[n].pk) = IF accounts[n] = NoAccount THEN {} ELSE {n}
<1>1. CASE accounts[n] = NoAccount
  <2>1. accounts[n].pk = 0
    BY <1>1, PositiveKeys
  <2> QED BY <1>1, <2>1, PositiveKeys
<1>2. CASE accounts[n] # NoAccount
  <2>1. accounts[n].pk # 0
    BY <1>2, PositiveKeys
  <2>2. \A m \in Names : accounts[m].pk = accounts[n].pk => m = n
    BY <2>1 DEF KeysGiven
  <2> QED BY <1>2, <2>2 DEF Account
<1> QED BY <1>1, <1>2

LEMMA UsersTyped ==
  ASSUME TypeInv, NEW n \in Names
  PROVE  users \in [Names -> UserRecord \cup {NoUser}] /\ (Known(n) => users[n] \in UserRecord)
         /\ NoUser \notin UserRecord /\ users[n].pk \in Nat /\ NoUser.pk = 0
<1>1. users \in [Names -> UserRecord \cup {NoUser}]
  BY DEF TypeInv, TypeOK
<1>2. NoUser \notin UserRecord /\ NoUser.pk = 0
  BY ProvisionerAssumption DEF UserRecord, NoUser
<1>3. users[n].pk \in Nat
  BY <1>1 DEF UserRecord, NoUser
<1> QED BY <1>1, <1>2, <1>3 DEF Known

\* What an acting operation may rely on.
LEMMA ActingFacts ==
  ASSUME PortalInv, NEW c \in Calls, calls[c].pc \notin {"idle", "provision", "waiting"}
  PROVE  LET n == calls[c].name
         IN /\ n \in Names /\ calls[c] \in CallRecord /\ Acting(calls[c])
            /\ KeyKnown(calls[c]) /\ OffKnown(calls[c]) /\ (n \in off => OffHolds(n))
            /\ Known(n) /\ users[n] \in UserRecord
            /\ calls[c].pc \notin {"savepk", "retire"} => users[n].pk = accounts[n].pk
<1> DEFINE n == calls[c].name
<1>1. TypeInv /\ OneCallEach /\ KeyKnown(calls[c]) /\ OffKnown(calls[c]) /\ (n \in off => OffHolds(n))
  BY DEF PortalInv, PoolInv, KeyInv, OffInv
<1>2. n \in Names /\ calls[c] \in CallRecord /\ calls[c].op \in AdminOps
  BY <1>1, StageOps, NextStages
<1>3. Acting(calls[c]) /\ Known(n) /\ users[n] \in UserRecord
  BY <1>1, <1>2, UsersTyped DEF Acting, KeyKnown
<1>4. ASSUME calls[c].pc \notin {"savepk", "retire"} PROVE users[n].pk = accounts[n].pk
  <2>1. Linked(n)
    BY <1>2 DEF PortalInv, KeyInv
  <2>2. ASSUME NEW d \in Calls, calls[d].name = n, calls[d].pc \in {"savepk", "retire"} PROVE FALSE
    <3>1. d # c /\ calls[d].op \in AdminOps
      BY <1>1, <1>4, <2>2, StageOps
    <3>2. n # NoName
      BY <1>2, ProvisionerAssumption
    <3>3. calls[c].op = "rotate" \/ calls[d].op = "rotate"
      BY <1>1, <2>2, <3>1, <3>2 DEF OneCallEach
    <3> QED BY <1>2, <3>1, <3>3 DEF AdminOps
  <2> QED BY <2>1, <2>2 DEF Linked
<1> QED BY <1>1, <1>2, <1>3, <1>4

\* An operation that goes on keeps what it is and what it read.
LEMMA GoesOn ==
  ASSUME TypeInv, NEW c \in Calls, NEW pc, To(c, pc)
  PROVE  /\ calls'[c].pc = pc /\ calls'[c].op = calls[c].op /\ calls'[c].name = calls[c].name
         /\ calls'[c].u = calls[c].u /\ calls'[c].role = calls[c].role
         /\ calls'[c].pk = calls[c].pk /\ calls'[c].clean = calls[c].clean
<1>1. calls \in [Calls -> CallRecord]
  BY DEF TypeInv, TypeOK
<1> QED BY <1>1 DEF To, CallRecord

LEMMA Ends ==
  ASSUME TypeInv, NEW c \in Calls, Return(c)
  PROVE  calls'[c].op = "none" /\ calls'[c].pc = "idle"
<1>1. calls \in [Calls -> CallRecord]
  BY DEF TypeInv, TypeOK
<1> QED BY <1>1 DEF Return, Idle

\* What a step of an operation does to its employee, as far as the invariant is about it.
Effect(c, n) ==
  /\ \A m \in Names \ {n} : users'[m] = users[m] /\ accounts'[m] = accounts[m]
  /\ off' \subseteq off /\ nextPk <= nextPk'
  /\ KeyKnown(calls[c])' /\ OffKnown(calls[c])'
  /\ accounts'[n].pk < nextPk' /\ accounts'[n].pk \in {0, accounts[n].pk, nextPk}
  /\ \/ users'[n].pk = accounts'[n].pk
     \/ calls'[c].name = n /\ calls'[c].pc \in {"savepk", "retire"}
  /\ n \in off' => Unlisted(n)' /\ Dead(n)'

\* An operation that has ended knows nothing more.
LEMMA EndKnows ==
  ASSUME TypeInv, NEW c \in Calls, Return(c)
  PROVE  KeyKnown(calls[c])' /\ OffKnown(calls[c])'
  BY Ends DEF KeyKnown, OffKnown, Acting, AdminOps

LEMMA RevokeEffect ==
  ASSUME PortalInv, NothingHalfDone, NEW c \in Calls, Revoke(c), NEW n, n = calls[c].name
  PROVE  Effect(c, n)
<1>1. calls[c].pc = "revoke" /\ TypeInv /\ KeysGiven
  BY DEF Revoke, At, PortalInv, PoolInv, KeyInv
<1>2. calls[c].op \in {"role", "disable", "remove"}
  BY <1>1, StageOps
<1>3. /\ n \in Names /\ Acting(calls[c]) /\ KeyKnown(calls[c]) /\ OffKnown(calls[c])
      /\ (n \in off => OffHolds(n)) /\ Known(n) /\ users[n].pk = accounts[n].pk
  BY <1>1, ActingFacts
<1>4. To(c, "patch") /\ UNCHANGED <<users, accounts, off, nextPk>>
  BY DEF Revoke, NothingHalfDone, Fails
<1>5. calls'[c].pc = "patch" /\ calls'[c].op = calls[c].op /\ calls'[c].name = n /\ calls'[c].u = calls[c].u
  BY <1>1, <1>4, GoesOn
<1>6. KeyKnown(calls[c])'
  BY <1>1, <1>2, <1>3, <1>4, <1>5 DEF KeyKnown, Known
<1>7. OffKnown(calls[c])'
  BY <1>1, <1>2, <1>3, <1>4, <1>5 DEF OffKnown
<1>8. n \in off => Unlisted(n)' /\ Dead(n)'
  BY <1>3, <1>4 DEF OffHolds, Unlisted, Dead, Known
<1>9. nextPk \in Nat
  BY <1>1 DEF TypeInv, TypeOK
<1> QED BY <1>1, <1>3, <1>4, <1>6, <1>7, <1>8, <1>9 DEF Effect, KeysGiven

LEMMA PatchEffect ==
  ASSUME PortalInv, NothingHalfDone, NEW c \in Calls, Patch(c), NEW n, n = calls[c].name
  PROVE  Effect(c, n)
<1>1. calls[c].pc = "patch" /\ TypeInv /\ KeysGiven
  BY DEF Patch, At, PortalInv, PoolInv, KeyInv
<1>2. calls[c].op \in {"role", "disable", "remove"}
  BY <1>1, StageOps
<1>3. /\ n \in Names /\ Acting(calls[c]) /\ KeyKnown(calls[c]) /\ OffKnown(calls[c])
      /\ (n \in off => OffHolds(n)) /\ Known(n) /\ users[n] \in UserRecord /\ users[n].pk = accounts[n].pk
      /\ calls[c] \in CallRecord
  BY <1>1, ActingFacts
<1> DEFINE call == calls[c]
<1>4. /\ users' = IF call.op = "role" THEN [users EXCEPT ![n].role = call.role]
                  ELSE [users EXCEPT ![n].status = "disabled"]
      /\ (Throw(c) \/ ToQuietly(c, AfterPatch(call))) /\ UNCHANGED <<accounts, nextPk>>
  BY <1>3 DEF Patch
<1>5. off' = off
  BY <1>4 DEF Throw, ToQuietly
<1>6. /\ users'[n].pk = users[n].pk /\ users'[n].slot = users[n].slot
      /\ users'[n].status = IF call.op = "role" THEN users[n].status ELSE "disabled"
      /\ \A m \in Names \ {n} : users'[m] = users[m]
  BY <1>1, <1>3, <1>4, UsersTyped DEF UserRecord
<1>7. Known(n)'
  BY <1>3, <1>6, ProvisionerAssumption DEF Known, UserRecord, NoUser
<1>8. Unlisted(n)' = IF call.op = "role" THEN Unlisted(n) ELSE TRUE
  BY <1>3, <1>6, <1>7 DEF Unlisted
<1>9. ASSUME Throw(c) PROVE KeyKnown(calls[c])' /\ OffKnown(calls[c])'
  BY <1>1, <1>9, EndKnows DEF Throw
<1>10. ASSUME ToQuietly(c, AfterPatch(call)) PROVE KeyKnown(calls[c])' /\ OffKnown(calls[c])'
  <2>1. /\ calls'[c].pc = AfterPatch(call) /\ calls'[c].op = call.op /\ calls'[c].name = n
        /\ calls'[c].u = call.u
    BY <1>1, <1>10, GoesOn DEF ToQuietly
  <2>2. /\ call.op = "role" => AfterPatch(call) = IF call.u.status = "disabled" THEN "provision" ELSE "ensure"
        /\ call.op = "disable" => AfterPatch(call) = IF call.u.pk = 0 THEN "provision" ELSE "deactivate"
        /\ call.op = "remove" => AfterPatch(call) = IF call.u.pk = 0 THEN "retire" ELSE "deactivate"
    BY DEF AfterPatch
  <2>3. call.op \in {"disable", "remove"} => call.u.pk = accounts[n].pk
    BY <1>3 DEF KeyKnown
  <2>4. call.u.pk = users[n].pk
    BY <1>1, <1>2, <1>3 DEF KeyKnown
  <2>5. KeyKnown(calls[c])'
    BY <1>2, <1>3, <1>4, <1>6, <1>7, <2>1, <2>2, <2>4 DEF KeyKnown
  <2>6. call.op = "disable" /\ AfterPatch(call) = "provision" => Dead(n)
    BY <1>1, <1>3, <2>2, <2>3, PositiveKeys
  <2>7. OffKnown(calls[c])'
    BY <1>1, <1>2, <1>3, <1>4, <1>5, <1>8, <2>1, <2>2, <2>6 DEF OffKnown, Dead
  <2> QED BY <2>5, <2>7
<1>11. n \in off => Unlisted(n)' /\ Dead(n)'
  BY <1>3, <1>4, <1>8 DEF OffHolds, Dead
<1>12. nextPk \in Nat
  BY <1>1 DEF TypeInv, TypeOK
<1>13. KeyKnown(calls[c])' /\ OffKnown(calls[c])'
  BY <1>4, <1>9, <1>10
<1> QED BY <1>1, <1>3, <1>4, <1>5, <1>6, <1>11, <1>12, <1>13 DEF Effect, KeysGiven

\* An operation that may create or enable an account is for nobody who is off.
LEMMA NotOff ==
  ASSUME PortalInv, NEW c \in Calls,
         calls[c].pc \in {"ensure", "savepk", "rollback", "link", "groups", "activate", "status"}
  PROVE  calls[c].name \notin off /\ (calls[c].op = "role" => calls[c].u.status # "disabled")
<1>1. TypeInv /\ OffKnown(calls[c])
  BY DEF PortalInv, PoolInv, OffInv
<1>2. calls[c].op \in {"invite", "resend", "role", "enable"}
  BY <1>1, StageOps
<1> QED BY <1>1, <1>2 DEF OffKnown

\* What is left to show of a step for somebody who is not off.
LEMMA EffectOn ==
  ASSUME PortalInv, NEW c \in Calls, NEW n, n = calls[c].name, n \notin off, off' = off,
         \A m \in Names \ {n} : users'[m] = users[m] /\ accounts'[m] = accounts[m],
         \/ calls'[c].op = calls[c].op /\ calls'[c].name = n /\ calls'[c].u = calls[c].u
         \/ Return(c),
         calls[c].op \in {"invite", "resend", "role", "enable"},
         calls[c].op = "role" => calls[c].u.status # "disabled",
         KeyKnown(calls[c])' \/ Return(c), nextPk <= nextPk',
         accounts'[n].pk < nextPk',
         accounts'[n].pk \in {0, accounts[n].pk, nextPk},
         \/ users'[n].pk = accounts'[n].pk
         \/ calls'[c].name = n /\ calls'[c].pc \in {"savepk", "retire"}
  PROVE  Effect(c, n)
<1>1. TypeInv
  BY DEF PortalInv, PoolInv
<1>2. KeyKnown(calls[c])'
  BY <1>1, EndKnows
<1>3. OffKnown(calls[c])'
  <2>1. CASE Return(c)
    BY <1>1, <2>1, EndKnows
  <2>2. CASE calls'[c].op = calls[c].op /\ calls'[c].name = n /\ calls'[c].u = calls[c].u
    BY <2>2 DEF OffKnown
  <2> QED BY <2>1, <2>2
<1> QED BY <1>2, <1>3 DEF Effect

\* What ensureUser leaves: the account there was, or a new one with a new key.
LEMMA EnsuredKeys ==
  ASSUME TypeInv, KeysGiven, NEW n \in Names, NEW groups, Ensured(n, groups)
  PROVE  /\ \A m \in Names \ {n} : accounts'[m] = accounts[m]
         /\ nextPk \in Nat /\ nextPk <= nextPk'
         /\ accounts'[n].pk < nextPk' /\ accounts'[n].pk \in {accounts[n].pk, nextPk}
         /\ accounts'[n].pk # 0
<1>1. accounts \in [Names -> AccountRecord \cup {NoAccount}] /\ nextPk \in Nat \ {0}
  BY DEF TypeInv, TypeOK
<1>2. CASE accounts[n] = NoAccount
  <2> DEFINE fresh == [NoAccount EXCEPT !.pk = nextPk, !.active = TRUE, !.groups = groups]
  <2>1. accounts' = [accounts EXCEPT ![n] = fresh] /\ nextPk' = nextPk + 1
    BY <1>2 DEF Ensured
  <2>2. fresh.pk = nextPk
    BY DEF NoAccount
  <2> HIDE DEF fresh
  <2> QED BY <1>1, <2>1, <2>2
<1>3. CASE accounts[n] # NoAccount
  <2>1. accounts[n] \in AccountRecord
    BY <1>1, <1>3
  <2>2. accounts' = [accounts EXCEPT ![n] = [accounts[n] EXCEPT !.groups = groups]] /\ nextPk' = nextPk
    BY <1>1, <1>3 DEF Ensured
  <2>3. [accounts[n] EXCEPT !.groups = groups].pk = accounts[n].pk
    BY <2>1 DEF AccountRecord
  <2>4. accounts[n].pk # 0 /\ accounts[n].pk < nextPk
    BY <1>3, PositiveKeys DEF KeysGiven
  <2> QED BY <1>1, <2>2, <2>3, <2>4
<1> QED BY <1>2, <1>3

LEMMA EnsureEffect ==
  ASSUME PortalInv, NothingHalfDone, NEW c \in Calls, EnsureUser(c), NEW n, n = calls[c].name
  PROVE  Effect(c, n)
<1>1. calls[c].pc = "ensure" /\ TypeInv /\ KeysGiven
  BY DEF EnsureUser, At, PortalInv, PoolInv, KeyInv
<1>2. calls[c].op \in {"invite", "resend", "role", "enable"}
  BY <1>1, StageOps
<1>3. /\ n \in Names /\ Acting(calls[c]) /\ KeyKnown(calls[c]) /\ Known(n) /\ users[n].pk = accounts[n].pk
      /\ calls[c] \in CallRecord
  BY <1>1, ActingFacts
<1>4. n \notin off /\ (calls[c].op = "role" => calls[c].u.status # "disabled")
  BY <1>1, NotOff
<1>5. users' = users /\ nextPk \in Nat /\ accounts[n].pk < nextPk
  BY <1>1, <1>3 DEF EnsureUser, TypeInv, TypeOK, KeysGiven
<1>6. CASE OnAuthentikError(c) /\ UNCHANGED <<accounts, nextPk>>
  <2>1. off' = off /\ (Return(c) \/ (calls[c].op \in {"invite", "role"} /\ To(c, "rollback")))
    BY <1>6 DEF OnAuthentikError, Throw, ToQuietly
  <2>2. ASSUME calls[c].op \in {"invite", "role"}, To(c, "rollback")
        PROVE  /\ calls'[c].op = calls[c].op /\ calls'[c].name = n /\ calls'[c].u = calls[c].u
               /\ KeyKnown(calls[c])'
    <3>1. /\ calls'[c].pc = "rollback" /\ calls'[c].op = calls[c].op /\ calls'[c].name = n
          /\ calls'[c].u = calls[c].u
      BY <1>1, <2>2, GoesOn
    <3>2. KeyKnown(calls[c])'
      BY <1>1, <1>3, <1>5, <2>2, <3>1 DEF KeyKnown, Known
    <3> QED BY <3>1, <3>2
  <2>3. /\ accounts' = accounts /\ nextPk' = nextPk /\ nextPk <= nextPk'
        /\ accounts'[n].pk < nextPk' /\ accounts'[n].pk \in {0, accounts[n].pk, nextPk}
        /\ users'[n].pk = accounts'[n].pk
    BY <1>3, <1>5, <1>6
  <2> QED BY <1>2, <1>4, <1>5, <2>1, <2>2, <2>3, EffectOn
<1>7. CASE /\ \E groups : Ensured(n, groups)
           /\ calls' = [calls EXCEPT ![c].pc = "savepk", ![c].pk = accounts'[n].pk]
           /\ UNCHANGED off
  <2>1. PICK groups : Ensured(n, groups)
    BY <1>7
  <2>2. /\ \A m \in Names \ {n} : accounts'[m] = accounts[m]
        /\ nextPk \in Nat /\ nextPk <= nextPk'
        /\ accounts'[n].pk < nextPk' /\ accounts'[n].pk \in {accounts[n].pk, nextPk}
        /\ accounts'[n].pk # 0
    BY <1>1, <1>3, <2>1, EnsuredKeys
  <2>3. /\ calls'[c].pc = "savepk" /\ calls'[c].op = calls[c].op /\ calls'[c].name = n
        /\ calls'[c].u = calls[c].u /\ calls'[c].pk = accounts'[n].pk
    <3>1. calls \in [Calls -> CallRecord]
      BY <1>1 DEF TypeInv, TypeOK
    <3> QED BY <1>7, <3>1 DEF CallRecord
  <2>4. KeyKnown(calls[c])'
    BY <1>1, <1>2, <1>3, <1>5, <2>2, <2>3 DEF KeyKnown, Known
  <2> QED BY <1>2, <1>4, <1>5, <1>7, <2>2, <2>3, <2>4, EffectOn
<1>8. ~Fails("lost")
  BY DEF NothingHalfDone, Fails
<1> QED BY <1>6, <1>7, <1>8 DEF EnsureUser

\* The step writes one field of the record of an employee.
LEMMA SavePkEffect ==
  ASSUME PortalInv, NothingHalfDone, NEW c \in Calls, SavePk(c), NEW n, n = calls[c].name
  PROVE  Effect(c, n)
<1>1. calls[c].pc = "savepk" /\ TypeInv /\ KeysGiven
  BY DEF SavePk, At, PortalInv, PoolInv, KeyInv
<1>2. calls[c].op \in {"invite", "resend", "role", "enable"}
  BY <1>1, StageOps
<1>3. /\ n \in Names /\ Acting(calls[c]) /\ KeyKnown(calls[c]) /\ Known(n) /\ users[n] \in UserRecord
      /\ calls[c] \in CallRecord
  BY <1>1, ActingFacts
<1>4. n \notin off /\ (calls[c].op = "role" => calls[c].u.status # "disabled")
  BY <1>1, NotOff
<1>5. accounts' = accounts /\ nextPk' = nextPk /\ nextPk \in Nat /\ accounts[n].pk < nextPk
  BY <1>1, <1>3 DEF SavePk, TypeInv, TypeOK, KeysGiven
<1>6. calls[c].pk = accounts[n].pk /\ (calls[c].op # "invite" => calls[c].u.pk = users[n].pk)
  BY <1>1, <1>2, <1>3 DEF KeyKnown
<1>7. ToQuietly(c, AfterEnsure(calls[c].op)) /\ (users' = users \/ users' = [users EXCEPT ![n].pk = calls[c].pk])
  BY <1>3 DEF SavePk
<1>8. /\ \A m \in Names \ {n} : users'[m] = users[m]
      /\ users'[n].pk = accounts[n].pk /\ users'[n].slot = users[n].slot
  <2>1. CASE calls[c].op # "invite" /\ calls[c].pk = calls[c].u.pk /\ users' = users
    BY <1>6, <2>1
  <2>2. CASE users' = [users EXCEPT ![n].pk = calls[c].pk]
    BY <1>1, <1>3, <1>6, <2>2, UsersTyped DEF UserRecord
  <2> QED BY <1>3, <2>1, <2>2 DEF SavePk
<1>9. Known(n)'
  BY <1>3, <1>8, ProvisionerAssumption DEF Known, UserRecord, NoUser
<1>10. /\ calls'[c].pc = AfterEnsure(calls[c].op) /\ calls'[c].op = calls[c].op /\ calls'[c].name = n
       /\ calls'[c].u = calls[c].u /\ calls'[c].pk = calls[c].pk
  BY <1>1, <1>7, GoesOn DEF ToQuietly
<1>11. /\ calls[c].op \in {"invite", "resend"} => AfterEnsure(calls[c].op) = "link"
       /\ calls[c].op = "role" => AfterEnsure(calls[c].op) = "groups"
       /\ calls[c].op = "enable" => AfterEnsure(calls[c].op) = "activate"
  BY DEF AfterEnsure
<1>12. KeyKnown(calls[c])'
  BY <1>2, <1>3, <1>5, <1>6, <1>8, <1>9, <1>10, <1>11 DEF KeyKnown, Acting
<1>13. off' = off
  BY <1>7 DEF ToQuietly
<1>14. nextPk <= nextPk' /\ accounts'[n].pk < nextPk' /\ accounts'[n].pk \in {0, accounts[n].pk, nextPk}
  BY <1>5
<1> QED BY <1>2, <1>4, <1>5, <1>8, <1>10, <1>12, <1>13, <1>14, EffectOn

LEMMA RollbackEffect ==
  ASSUME PortalInv, NothingHalfDone, NEW c \in Calls, Rollback(c), NEW n, n = calls[c].name
  PROVE  Effect(c, n)
<1>1. calls[c].pc = "rollback" /\ TypeInv /\ KeysGiven
  BY DEF Rollback, At, PortalInv, PoolInv, KeyInv
<1>2. calls[c].op \in {"invite", "role"}
  BY <1>1, StageOps
<1>3. /\ n \in Names /\ Acting(calls[c]) /\ KeyKnown(calls[c]) /\ Known(n) /\ users[n] \in UserRecord
      /\ users[n].pk = accounts[n].pk
  BY <1>1, ActingFacts
<1>4. n \notin off /\ (calls[c].op = "role" => calls[c].u.status # "disabled")
  BY <1>1, NotOff
<1>5. /\ accounts' = accounts /\ nextPk' = nextPk /\ nextPk \in Nat /\ accounts[n].pk < nextPk
      /\ off' = off /\ Return(c)
  BY <1>1, <1>3 DEF Rollback, Throw, TypeInv, TypeOK, KeysGiven
<1>6. users' = [users EXCEPT ![n] = NoUser] \/ users' = [users EXCEPT ![n].role = calls[c].u.role]
  BY <1>3 DEF Rollback
<1>7. calls[c].op = "invite" => accounts[n].pk = 0
  BY <1>1, <1>3 DEF KeyKnown
<1>8. (\A m \in Names \ {n} : users'[m] = users[m]) /\ users'[n].pk = accounts[n].pk
  <2>1. CASE calls[c].op = "invite"
    <3>1. users' = [users EXCEPT ![n] = NoUser]
      BY <2>1 DEF Rollback
    <3> QED BY <1>1, <1>3, <1>7, <2>1, <3>1, UsersTyped
  <2>2. CASE calls[c].op # "invite"
    <3>1. users' = [users EXCEPT ![n].role = calls[c].u.role]
      BY <1>3, <2>2 DEF Rollback
    <3> QED BY <1>1, <1>3, <3>1, UsersTyped DEF UserRecord
  <2> QED BY <2>1, <2>2
<1>9. nextPk <= nextPk' /\ accounts'[n].pk < nextPk' /\ accounts'[n].pk \in {0, accounts[n].pk, nextPk}
  BY <1>5
<1> QED BY <1>2, <1>4, <1>5, <1>8, <1>9, EffectOn

\* What the calls to Authentik by the key of an employee's account do to the accounts.
LEMMA MappedAccounts ==
  ASSUME TypeInv, KeysGiven, NEW n \in Names, NEW groups, NEW active \in BOOLEAN
  PROVE  LET pk == accounts[n].pk
         IN /\ \A m \in Names \ {n} : /\ Regrouped(pk, groups)[m] = accounts[m]
                                      /\ SetActive(pk, active)[m] = accounts[m]
                                      /\ LoggedOut(pk)[m] = accounts[m] /\ Deleted(pk)[m] = accounts[m]
            /\ Regrouped(pk, groups)[n].pk = pk
            /\ SetActive(pk, active)[n].pk = pk
            /\ LoggedOut(pk)[n].pk = pk
            /\ Deleted(pk)[n] = NoAccount
            /\ ~SetActive(pk, FALSE)[n].active /\ SetActive(pk, FALSE)[n].web = accounts[n].web
            /\ LoggedOut(pk)[n].web = NoAccess /\ LoggedOut(pk)[n].active = accounts[n].active
<1>1. accounts \in [Names -> AccountRecord \cup {NoAccount}]
  BY DEF TypeInv, TypeOK
<1>2. CASE accounts[n] = NoAccount
  <2>1. Account(accounts[n].pk) = {}
    BY <1>2, AccountOf
  <2>2. /\ \A m \in Names : /\ Regrouped(accounts[n].pk, groups)[m] = accounts[m]
                            /\ SetActive(accounts[n].pk, active)[m] = accounts[m]
                            /\ SetActive(accounts[n].pk, FALSE)[m] = accounts[m]
                            /\ LoggedOut(accounts[n].pk)[m] = accounts[m] /\ Deleted(accounts[n].pk)[m] = accounts[m]
    BY <2>1 DEF Regrouped, SetActive, LoggedOut, Deleted
  <2>3. ~accounts[n].active /\ accounts[n].web = NoAccess
    BY <1>2 DEF NoAccount
  <2> QED BY <1>2, <2>2, <2>3
<1>3. CASE accounts[n] # NoAccount
  <2>1. Account(accounts[n].pk) = {n} /\ accounts[n] \in AccountRecord
    BY <1>1, <1>3, AccountOf
  <2>2. \A m \in Names \ {n} : /\ Regrouped(accounts[n].pk, groups)[m] = accounts[m]
                               /\ SetActive(accounts[n].pk, active)[m] = accounts[m]
                               /\ LoggedOut(accounts[n].pk)[m] = accounts[m]
                               /\ Deleted(accounts[n].pk)[m] = accounts[m]
    BY <2>1 DEF Regrouped, SetActive, LoggedOut, Deleted
  <2>3. /\ Regrouped(accounts[n].pk, groups)[n] = [accounts[n] EXCEPT !.groups = groups]
        /\ SetActive(accounts[n].pk, active)[n] = [accounts[n] EXCEPT !.active = active]
        /\ SetActive(accounts[n].pk, FALSE)[n] = [accounts[n] EXCEPT !.active = FALSE]
        /\ LoggedOut(accounts[n].pk)[n] = [accounts[n] EXCEPT !.web = NoAccess]
        /\ Deleted(accounts[n].pk)[n] = NoAccount
    BY <2>1 DEF Regrouped, SetActive, LoggedOut, Deleted
  <2>4. /\ [accounts[n] EXCEPT !.groups = groups].pk = accounts[n].pk
        /\ [accounts[n] EXCEPT !.active = active].pk = accounts[n].pk
        /\ [accounts[n] EXCEPT !.active = FALSE].active = FALSE
        /\ [accounts[n] EXCEPT !.active = FALSE].web = accounts[n].web
        /\ [accounts[n] EXCEPT !.web = NoAccess].pk = accounts[n].pk
        /\ [accounts[n] EXCEPT !.web = NoAccess].active = accounts[n].active
        /\ [accounts[n] EXCEPT !.web = NoAccess].web = NoAccess
    BY <2>1 DEF AccountRecord
  <2> QED BY <2>2, <2>3, <2>4
<1> QED BY <1>2, <1>3

LEMMA RegroupedAccount ==
  ASSUME TypeInv, KeysGiven, NEW n \in Names, NEW groups, accounts' = Regrouped(accounts[n].pk, groups)
  PROVE  (\A m \in Names \ {n} : accounts'[m] = accounts[m]) /\ accounts'[n].pk = accounts[n].pk
<1>1. TRUE \in BOOLEAN
  OBVIOUS
<1> QED BY <1>1, MappedAccounts

LEMMA SwitchedAccount ==
  ASSUME TypeInv, KeysGiven, NEW n \in Names, NEW active \in BOOLEAN,
         accounts' = SetActive(accounts[n].pk, active)
  PROVE  (\A m \in Names \ {n} : accounts'[m] = accounts[m]) /\ accounts'[n].pk = accounts[n].pk
<1> PICK groups : groups = NoAccess
  OBVIOUS
<1> QED BY MappedAccounts

LEMMA LinkEffect ==
  ASSUME PortalInv, NothingHalfDone, NEW c \in Calls, InviteLink(c), NEW n, n = calls[c].name
  PROVE  Effect(c, n)
<1>1. calls[c].pc = "link" /\ TypeInv /\ KeysGiven
  BY DEF InviteLink, At, PortalInv, PoolInv, KeyInv
<1>2. calls[c].op \in {"invite", "resend"}
  BY <1>1, StageOps
<1>3. /\ n \in Names /\ Acting(calls[c]) /\ KeyKnown(calls[c]) /\ Known(n) /\ users[n].pk = accounts[n].pk
  BY <1>1, ActingFacts
<1>4. n \notin off
  BY <1>1, NotOff
<1>5. UNCHANGED <<users, accounts, nextPk, off>> /\ nextPk \in Nat /\ accounts[n].pk < nextPk
  BY <1>1, <1>2, <1>3 DEF InviteLink, Succeed, Throw, ToQuietly, TypeInv, TypeOK, KeysGiven
<1>6. Return(c) \/ To(c, "provision")
  BY DEF InviteLink, Succeed, Throw, ToQuietly
<1>7. ASSUME To(c, "provision")
      PROVE  /\ calls'[c].op = calls[c].op /\ calls'[c].name = n /\ calls'[c].u = calls[c].u
             /\ KeyKnown(calls[c])'
  BY <1>1, <1>7, GoesOn DEF KeyKnown, Acting
<1>8. /\ nextPk <= nextPk' /\ accounts'[n].pk < nextPk' /\ accounts'[n].pk \in {0, accounts[n].pk, nextPk}
      /\ users'[n].pk = accounts'[n].pk
  BY <1>3, <1>5
<1> QED BY <1>2, <1>4, <1>5, <1>6, <1>7, <1>8, EffectOn

LEMMA GroupsEffect ==
  ASSUME PortalInv, NothingHalfDone, NEW c \in Calls, SetGroups(c), NEW n, n = calls[c].name
  PROVE  Effect(c, n)
<1>1. calls[c].pc = "groups" /\ TypeInv /\ KeysGiven
  BY DEF SetGroups, At, PortalInv, PoolInv, KeyInv
<1>2. calls[c].op = "role"
  BY <1>1, StageOps
<1>3. /\ n \in Names /\ Acting(calls[c]) /\ KeyKnown(calls[c]) /\ Known(n) /\ users[n].pk = accounts[n].pk
      /\ calls[c].pk = accounts[n].pk
  BY <1>1, ActingFacts DEF KeyKnown
<1>4. n \notin off /\ calls[c].u.status # "disabled"
  BY <1>1, <1>2, NotOff
<1>5. UNCHANGED <<users, nextPk, off>> /\ nextPk \in Nat /\ accounts[n].pk < nextPk
  BY <1>1, <1>3 DEF SetGroups, TypeInv, TypeOK, KeysGiven
<1>6. PICK pc \in {"sessions", "rollback"} : To(c, pc)
  BY DEF SetGroups
<1>7. PICK groups : accounts' = accounts \/ accounts' = Regrouped(accounts[n].pk, groups)
  BY <1>3 DEF SetGroups, Unanswered, NothingHalfDone, Fails, Regrouped
<1>8. (\A m \in Names \ {n} : accounts'[m] = accounts[m]) /\ accounts'[n].pk = accounts[n].pk
  BY <1>1, <1>3, <1>7, RegroupedAccount
<1>9. /\ calls'[c].op = calls[c].op /\ calls'[c].name = n /\ calls'[c].u = calls[c].u
      /\ calls'[c].pc = pc /\ calls'[c].pk = calls[c].pk
  BY <1>1, <1>6, GoesOn
<1>10. KeyKnown(calls[c])'
  BY <1>2, <1>3, <1>5, <1>8, <1>9 DEF KeyKnown, Known
<1>11. /\ nextPk <= nextPk' /\ accounts'[n].pk < nextPk' /\ accounts'[n].pk \in {0, accounts[n].pk, nextPk}
       /\ users'[n].pk = accounts'[n].pk
  BY <1>3, <1>5, <1>8
<1> QED BY <1>2, <1>4, <1>5, <1>8, <1>9, <1>10, <1>11, EffectOn

LEMMA ActivateEffect ==
  ASSUME PortalInv, NothingHalfDone, NEW c \in Calls, ActivateAccount(c), NEW n, n = calls[c].name
  PROVE  Effect(c, n)
<1>1. calls[c].pc = "activate" /\ TypeInv /\ KeysGiven
  BY DEF ActivateAccount, At, PortalInv, PoolInv, KeyInv
<1>2. calls[c].op = "enable"
  BY <1>1, StageOps
<1>3. /\ n \in Names /\ Acting(calls[c]) /\ KeyKnown(calls[c]) /\ Known(n) /\ users[n].pk = accounts[n].pk
      /\ calls[c].pk = accounts[n].pk
  BY <1>1, ActingFacts DEF KeyKnown
<1>4. n \notin off
  BY <1>1, NotOff
<1>5. UNCHANGED <<users, nextPk, off>> /\ nextPk \in Nat /\ accounts[n].pk < nextPk
  BY <1>1, <1>3 DEF ActivateAccount, ToQuietly, Throw, TypeInv, TypeOK, KeysGiven
<1>6. To(c, "status") \/ Return(c)
  BY DEF ActivateAccount, ToQuietly, Throw
<1>7. accounts' = accounts \/ accounts' = SetActive(accounts[n].pk, TRUE)
  BY <1>3 DEF ActivateAccount, Unanswered, NothingHalfDone, Fails, SetActive
<1>8. (\A m \in Names \ {n} : accounts'[m] = accounts[m]) /\ accounts'[n].pk = accounts[n].pk
  BY <1>1, <1>3, <1>7, SwitchedAccount
<1>9. ASSUME To(c, "status")
      PROVE  /\ calls'[c].op = calls[c].op /\ calls'[c].name = n /\ calls'[c].u = calls[c].u
             /\ KeyKnown(calls[c])'
  <2>1. /\ calls'[c].op = calls[c].op /\ calls'[c].name = n /\ calls'[c].u = calls[c].u
        /\ calls'[c].pc = "status"
    BY <1>1, <1>9, GoesOn
  <2>2. KeyKnown(calls[c])'
    BY <1>2, <1>3, <1>5, <1>8, <2>1 DEF KeyKnown, Known
  <2> QED BY <2>1, <2>2
<1>10. /\ nextPk <= nextPk' /\ accounts'[n].pk < nextPk' /\ accounts'[n].pk \in {0, accounts[n].pk, nextPk}
       /\ users'[n].pk = accounts'[n].pk
  BY <1>3, <1>5, <1>8
<1> QED BY <1>2, <1>4, <1>5, <1>6, <1>8, <1>9, <1>10, EffectOn

LEMMA StatusEffect ==
  ASSUME PortalInv, NothingHalfDone, NEW c \in Calls, SetStatus(c), NEW n, n = calls[c].name
  PROVE  Effect(c, n)
<1>1. calls[c].pc = "status" /\ TypeInv /\ KeysGiven
  BY DEF SetStatus, At, PortalInv, PoolInv, KeyInv
<1>2. calls[c].op = "enable"
  BY <1>1, StageOps
<1>3. /\ n \in Names /\ Acting(calls[c]) /\ KeyKnown(calls[c]) /\ Known(n) /\ users[n] \in UserRecord
      /\ users[n].pk = accounts[n].pk
  BY <1>1, ActingFacts
<1>4. n \notin off
  BY <1>1, NotOff
<1>5. UNCHANGED <<accounts, nextPk, off>> /\ nextPk \in Nat /\ accounts[n].pk < nextPk
  BY <1>1, <1>3 DEF SetStatus, ToQuietly, Throw, TypeInv, TypeOK, KeysGiven
<1>6. To(c, "provision") /\ \E s : users' = [users EXCEPT ![n].status = s]
  BY <1>3 DEF SetStatus, ToQuietly
<1>7. (\A m \in Names \ {n} : users'[m] = users[m]) /\ users'[n].pk = users[n].pk
  <2> PICK s : users' = [users EXCEPT ![n].status = s]
    BY <1>6
  <2> QED BY <1>1, <1>3, UsersTyped DEF UserRecord
<1>8. /\ calls'[c].op = calls[c].op /\ calls'[c].name = n /\ calls'[c].u = calls[c].u
      /\ KeyKnown(calls[c])'
  BY <1>1, <1>6, GoesOn DEF KeyKnown, Acting
<1>9. /\ nextPk <= nextPk' /\ accounts'[n].pk < nextPk' /\ accounts'[n].pk \in {0, accounts[n].pk, nextPk}
      /\ users'[n].pk = accounts'[n].pk
  BY <1>3, <1>5, <1>7
<1> QED BY <1>2, <1>4, <1>5, <1>7, <1>8, <1>9, EffectOn

\* Switching an employee off: what the three calls to Authentik leave.
LEMMA SwitchingOff ==
  ASSUME TypeInv, KeysGiven, NEW n \in Names,
         \/ accounts' = accounts
         \/ accounts' = SetActive(accounts[n].pk, FALSE)
         \/ accounts' = LoggedOut(accounts[n].pk)
         \/ accounts' = Deleted(accounts[n].pk)
  PROVE  /\ \A m \in Names \ {n} : accounts'[m] = accounts[m]
         /\ accounts'[n].pk \in {0, accounts[n].pk} /\ accounts'[n].pk < nextPk /\ nextPk \in Nat
         /\ ~accounts[n].active => ~accounts'[n].active
         /\ Dead(n) => Dead(n)'
         /\ accounts' = SetActive(accounts[n].pk, FALSE) => ~accounts'[n].active
         /\ accounts' = LoggedOut(accounts[n].pk) => accounts'[n].web = NoAccess
         /\ accounts' = Deleted(accounts[n].pk) => accounts'[n].pk = 0
         /\ accounts' # Deleted(accounts[n].pk) => accounts'[n].pk = accounts[n].pk
<1> PICK groups : groups = NoAccess
  OBVIOUS
<1> FALSE \in BOOLEAN
  OBVIOUS
<1>1. /\ \A m \in Names \ {n} : /\ SetActive(accounts[n].pk, FALSE)[m] = accounts[m]
                                /\ LoggedOut(accounts[n].pk)[m] = accounts[m]
                                /\ Deleted(accounts[n].pk)[m] = accounts[m]
      /\ SetActive(accounts[n].pk, FALSE)[n].pk = accounts[n].pk
      /\ LoggedOut(accounts[n].pk)[n].pk = accounts[n].pk
      /\ Deleted(accounts[n].pk)[n] = NoAccount
      /\ ~SetActive(accounts[n].pk, FALSE)[n].active
      /\ SetActive(accounts[n].pk, FALSE)[n].web = accounts[n].web
      /\ LoggedOut(accounts[n].pk)[n].web = NoAccess
      /\ LoggedOut(accounts[n].pk)[n].active = accounts[n].active
  BY MappedAccounts
<1>2. NoAccount.pk = 0 /\ ~NoAccount.active /\ NoAccount.web = NoAccess
  BY DEF NoAccount
<1>3. accounts[n].pk < nextPk /\ nextPk \in Nat /\ nextPk > 0
  BY DEF KeysGiven, TypeInv, TypeOK
<1>4. CASE accounts' = accounts
  <2>1. SetActive(accounts[n].pk, FALSE) = accounts => ~accounts[n].active
    BY <1>1
  <2>2. LoggedOut(accounts[n].pk) = accounts => accounts[n].web = NoAccess
    BY <1>1
  <2>3. Deleted(accounts[n].pk) = accounts => accounts[n].pk = 0
    BY <1>1, <1>2
  <2> QED BY <1>3, <1>4, <2>1, <2>2, <2>3 DEF Dead
<1>5. CASE accounts' = SetActive(accounts[n].pk, FALSE)
  <2> PICK a : a = SetActive(accounts[n].pk, FALSE)
    OBVIOUS
  <2>1. accounts' = a
    BY <1>5
  <2>2. /\ \A m \in Names \ {n} : accounts'[m] = accounts[m]
        /\ accounts'[n].pk = accounts[n].pk /\ ~accounts'[n].active /\ accounts'[n].web = accounts[n].web
    BY <1>1, <1>5
  <2>3. a = LoggedOut(accounts[n].pk) => accounts'[n].web = NoAccess
    BY <1>1, <2>1
  <2>4. a = Deleted(accounts[n].pk) => accounts'[n].pk = 0
    BY <1>1, <1>2, <2>1
  <2> QED BY <1>3, <1>5, <2>2, <2>3, <2>4 DEF Dead
<1>6. CASE accounts' = LoggedOut(accounts[n].pk)
  <2>2. /\ \A m \in Names \ {n} : accounts'[m] = accounts[m]
        /\ accounts'[n].pk = accounts[n].pk /\ accounts'[n].active = accounts[n].active
        /\ accounts'[n].web = NoAccess
    BY <1>1, <1>6
  <2>3. accounts' = SetActive(accounts[n].pk, FALSE) => ~accounts'[n].active
    BY <1>1
  <2>4. accounts' = Deleted(accounts[n].pk) => accounts'[n].pk = 0
    BY <1>1, <1>2
  <2> QED BY <1>3, <1>6, <2>2, <2>3, <2>4 DEF Dead
<1>7. CASE accounts' = Deleted(accounts[n].pk)
  <2>2. /\ \A m \in Names \ {n} : accounts'[m] = accounts[m]
        /\ accounts'[n].pk = 0 /\ ~accounts'[n].active /\ accounts'[n].web = NoAccess
    BY <1>1, <1>2, <1>7
  <2> QED BY <1>3, <1>7, <2>2 DEF Dead
<1> QED BY <1>4, <1>5, <1>6, <1>7

LEMMA DeactivateEffect ==
  ASSUME PortalInv, NothingHalfDone, NEW c \in Calls, Deactivate(c), NEW n, n = calls[c].name
  PROVE  Effect(c, n)
<1>1. calls[c].pc = "deactivate" /\ TypeInv /\ KeysGiven
  BY DEF Deactivate, At, PortalInv, PoolInv, KeyInv
<1>2. calls[c].op \in {"disable", "remove"}
  BY <1>1, StageOps
<1>3. /\ n \in Names /\ Acting(calls[c]) /\ KeyKnown(calls[c]) /\ OffKnown(calls[c])
      /\ (n \in off => OffHolds(n)) /\ Known(n) /\ users[n].pk = accounts[n].pk
      /\ calls[c].u.pk = accounts[n].pk /\ calls[c] \in CallRecord
  BY <1>1, <1>2, ActingFacts DEF KeyKnown
<1>4. Unlisted(n)
  BY <1>1, <1>2, <1>3 DEF OffKnown
<1>5. UNCHANGED <<users, nextPk, off>>
  BY DEF Deactivate, ToQuietly, StepFails, Throw
<1>6. \/ accounts' = SetActive(accounts[n].pk, FALSE) /\ To(c, "sessions")
      \/ /\ accounts' = accounts
         /\ \/ Return(c)
            \/ calls[c].op = "disable" /\ calls' = [calls EXCEPT ![c].pc = "provision", ![c].clean = FALSE]
  BY <1>2, <1>3 DEF Deactivate, StepFails, Throw, ToQuietly, Unanswered, NothingHalfDone, Fails, SetActive
<1>7. /\ \A m \in Names \ {n} : accounts'[m] = accounts[m]
      /\ accounts'[n].pk \in {0, accounts[n].pk} /\ accounts'[n].pk < nextPk /\ nextPk \in Nat
      /\ Dead(n) => Dead(n)'
  BY <1>1, <1>3, <1>6, SwitchingOff
<1>8. /\ accounts' = SetActive(accounts[n].pk, FALSE) => ~accounts'[n].active
      /\ accounts'[n].pk = accounts[n].pk
  <2>1. CASE accounts' = accounts
    BY <1>1, <1>3, <2>1, SwitchingOff
  <2>2. CASE accounts' = SetActive(accounts[n].pk, FALSE)
    BY <1>1, <1>3, <2>2, SwitchingOff, SwitchedAccount
  <2> QED BY <1>6, <2>1, <2>2
<1>9. KeyKnown(calls[c])' /\ OffKnown(calls[c])'
  <2>1. CASE accounts' = SetActive(accounts[n].pk, FALSE) /\ To(c, "sessions")
    <3>1. /\ calls'[c].op = calls[c].op /\ calls'[c].name = n /\ calls'[c].u = calls[c].u
          /\ calls'[c].pc = "sessions"
      BY <1>1, <2>1, GoesOn
    <3>2. KeyKnown(calls[c])'
      BY <1>2, <1>3, <1>5, <1>8, <3>1 DEF KeyKnown, Known
    <3>3. OffKnown(calls[c])'
      BY <1>2, <1>3, <1>4, <1>5, <1>8, <2>1, <3>1 DEF OffKnown, Unlisted, Known
    <3> QED BY <3>2, <3>3
  <2>2. CASE Return(c)
    BY <1>1, <2>2, EndKnows
  <2>3. CASE calls[c].op = "disable" /\ calls' = [calls EXCEPT ![c].pc = "provision", ![c].clean = FALSE]
    <3>1. calls \in [Calls -> CallRecord]
      BY <1>1 DEF TypeInv, TypeOK
    <3>2. /\ calls'[c].op = "disable" /\ calls'[c].name = n /\ calls'[c].pc = "provision"
          /\ calls'[c].clean = FALSE
      BY <2>3, <3>1 DEF CallRecord
    <3> QED BY <1>4, <1>5, <3>2 DEF KeyKnown, Acting, OffKnown, Unlisted, Known
  <2> QED BY <1>6, <2>1, <2>2, <2>3
<1>10. n \in off => Unlisted(n)' /\ Dead(n)'
  BY <1>3, <1>4, <1>5, <1>7 DEF OffHolds, Unlisted, Known
<1>11. nextPk <= nextPk' /\ accounts'[n].pk < nextPk' /\ users'[n].pk = accounts'[n].pk
  BY <1>3, <1>5, <1>7, <1>8
<1> QED BY <1>5, <1>7, <1>9, <1>10, <1>11 DEF Effect

LEMMA SessionsEffect ==
  ASSUME PortalInv, NothingHalfDone, NEW c \in Calls, EndSessions(c), NEW n, n = calls[c].name
  PROVE  Effect(c, n)
<1>1. calls[c].pc = "sessions" /\ TypeInv /\ KeysGiven
  BY DEF EndSessions, At, PortalInv, PoolInv, KeyInv
<1>2. calls[c].op \in {"role", "disable", "remove"}
  BY <1>1, StageOps
<1>3. /\ n \in Names /\ Acting(calls[c]) /\ KeyKnown(calls[c]) /\ OffKnown(calls[c])
      /\ (n \in off => OffHolds(n)) /\ Known(n) /\ users[n].pk = accounts[n].pk /\ calls[c] \in CallRecord
  BY <1>1, ActingFacts
<1>4. (IF calls[c].op = "role" THEN calls[c].pk ELSE calls[c].u.pk) = accounts[n].pk
  BY <1>1, <1>2, <1>3 DEF KeyKnown
<1>5. UNCHANGED <<users, nextPk, off>>
  BY DEF EndSessions, ToQuietly, StepFails, Throw
<1>6. \/ /\ accounts' = LoggedOut(accounts[n].pk)
         /\ To(c, IF calls[c].op = "remove" THEN "delete" ELSE "provision")
      \/ /\ accounts' = accounts
         /\ \/ Return(c)
            \/ /\ calls[c].op \in {"role", "disable"}
               /\ calls' = [calls EXCEPT ![c].pc = "provision", ![c].clean = FALSE]
  BY <1>2, <1>4 DEF EndSessions, StepFails, Throw, ToQuietly, Unanswered, NothingHalfDone, Fails, LoggedOut
<1>7. /\ \A m \in Names \ {n} : accounts'[m] = accounts[m]
      /\ accounts'[n].pk \in {0, accounts[n].pk} /\ accounts'[n].pk < nextPk /\ nextPk \in Nat
      /\ ~accounts[n].active => ~accounts'[n].active
      /\ Dead(n) => Dead(n)'
      /\ accounts' = LoggedOut(accounts[n].pk) => accounts'[n].web = NoAccess
  BY <1>1, <1>3, <1>6, SwitchingOff
<1>8. accounts'[n].pk = accounts[n].pk
  <2>1. CASE accounts' = LoggedOut(accounts[n].pk)
    <3> PICK groups : groups = NoAccess
      OBVIOUS
    <3>1. FALSE \in BOOLEAN
      OBVIOUS
    <3>2. LoggedOut(accounts[n].pk)[n].pk = accounts[n].pk
      BY <1>1, <1>3, <3>1, MappedAccounts
    <3> QED BY <2>1, <3>2
  <2> QED BY <1>6, <2>1
<1>9. calls[c].op \in {"disable", "remove"} => Unlisted(n) /\ ~accounts[n].active
  BY <1>1, <1>3 DEF OffKnown
<1>10. calls[c].op = "role" => n \notin off
  BY <1>1, <1>3 DEF OffKnown
<1>11. KeyKnown(calls[c])' /\ OffKnown(calls[c])'
  <2>1. CASE /\ accounts' = LoggedOut(accounts[n].pk)
             /\ To(c, IF calls[c].op = "remove" THEN "delete" ELSE "provision")
    <3>1. /\ calls'[c].op = calls[c].op /\ calls'[c].name = n /\ calls'[c].u = calls[c].u
          /\ calls'[c].pc = IF calls[c].op = "remove" THEN "delete" ELSE "provision"
      BY <1>1, <2>1, GoesOn
    <3>2. KeyKnown(calls[c])'
      BY <1>2, <1>3, <1>4, <1>5, <1>8, <3>1 DEF KeyKnown, Known, Acting
    <3>3. calls[c].op \in {"disable", "remove"} => Unlisted(n)' /\ ~accounts'[n].active /\ Dead(n)'
      BY <1>5, <1>7, <1>9, <2>1 DEF Unlisted, Known, Dead
    <3>4. OffKnown(calls[c])'
      BY <1>2, <1>5, <1>10, <3>1, <3>3 DEF OffKnown
    <3> QED BY <3>2, <3>4
  <2>2. CASE Return(c)
    BY <1>1, <2>2, EndKnows
  <2>3. CASE /\ calls[c].op \in {"role", "disable"}
             /\ calls' = [calls EXCEPT ![c].pc = "provision", ![c].clean = FALSE]
    <3>1. calls \in [Calls -> CallRecord]
      BY <1>1 DEF TypeInv, TypeOK
    <3>2. /\ calls'[c].op = calls[c].op /\ calls'[c].name = n /\ calls'[c].pc = "provision"
          /\ calls'[c].clean = FALSE
      BY <2>3, <3>1 DEF CallRecord
    <3>3. calls[c].op = "disable" => Unlisted(n)'
      BY <1>5, <1>9 DEF Unlisted, Known
    <3> QED BY <1>5, <1>10, <2>3, <3>2, <3>3 DEF KeyKnown, Acting, OffKnown
  <2> QED BY <1>6, <2>1, <2>2, <2>3
<1>12. n \in off => Unlisted(n)' /\ Dead(n)'
  BY <1>3, <1>5, <1>7 DEF OffHolds, Unlisted, Known
<1>13. nextPk <= nextPk' /\ accounts'[n].pk < nextPk' /\ users'[n].pk = accounts'[n].pk
  BY <1>3, <1>5, <1>7, <1>8
<1> QED BY <1>5, <1>7, <1>11, <1>12, <1>13 DEF Effect

LEMMA DeleteEffect ==
  ASSUME PortalInv, NothingHalfDone, NEW c \in Calls, DeleteUser(c), NEW n, n = calls[c].name
  PROVE  Effect(c, n)
<1>1. calls[c].pc = "delete" /\ TypeInv /\ KeysGiven
  BY DEF DeleteUser, At, PortalInv, PoolInv, KeyInv
<1>2. calls[c].op = "remove"
  BY <1>1, StageOps
<1>3. /\ n \in Names /\ Acting(calls[c]) /\ KeyKnown(calls[c]) /\ OffKnown(calls[c])
      /\ (n \in off => OffHolds(n)) /\ Known(n) /\ users[n].pk = accounts[n].pk
      /\ calls[c].u.pk = accounts[n].pk
  BY <1>1, <1>2, ActingFacts DEF KeyKnown
<1>4. Unlisted(n)
  BY <1>1, <1>2, <1>3 DEF OffKnown
<1>5. UNCHANGED <<users, nextPk, off>>
  BY DEF DeleteUser, ToQuietly, StepFails, Throw
<1>6. \/ accounts' = Deleted(accounts[n].pk) /\ To(c, "retire")
      \/ accounts' = accounts /\ Return(c)
  BY <1>2, <1>3 DEF DeleteUser, StepFails, Throw, ToQuietly, Unanswered, NothingHalfDone, Fails, Deleted
<1>7. /\ \A m \in Names \ {n} : accounts'[m] = accounts[m]
      /\ accounts'[n].pk \in {0, accounts[n].pk} /\ accounts'[n].pk < nextPk /\ nextPk \in Nat
      /\ Dead(n) => Dead(n)'
      /\ accounts' = Deleted(accounts[n].pk) => accounts'[n].pk = 0
  BY <1>1, <1>3, <1>6, SwitchingOff
<1>8. n \in off => Unlisted(n)' /\ Dead(n)'
  BY <1>3, <1>4, <1>5, <1>7 DEF OffHolds, Unlisted, Known
<1>9. nextPk <= nextPk' /\ accounts'[n].pk < nextPk'
  BY <1>5, <1>7
<1>10. CASE accounts' = Deleted(accounts[n].pk) /\ To(c, "retire")
  <2>1. /\ calls'[c].op = calls[c].op /\ calls'[c].name = n /\ calls'[c].u = calls[c].u
        /\ calls'[c].pc = "retire"
    BY <1>1, <1>10, GoesOn
  <2>2. KeyKnown(calls[c])'
    BY <1>2, <1>3, <1>5, <1>7, <1>10, <2>1 DEF KeyKnown, Known
  <2>3. OffKnown(calls[c])'
    BY <1>2, <1>4, <1>5, <2>1 DEF OffKnown, Unlisted, Known
  <2> QED BY <1>5, <1>7, <1>8, <1>9, <2>1, <2>2, <2>3 DEF Effect
<1>11. CASE accounts' = accounts /\ Return(c)
  <2>1. KeyKnown(calls[c])' /\ OffKnown(calls[c])'
    BY <1>1, <1>11, EndKnows
  <2> QED BY <1>3, <1>5, <1>7, <1>8, <1>9, <1>11, <2>1 DEF Effect
<1> QED BY <1>6, <1>10, <1>11

LEMMA RetireEffect ==
  ASSUME PortalInv, NothingHalfDone, NEW c \in Calls, Retire(c), NEW n, n = calls[c].name
  PROVE  Effect(c, n)
<1>1. calls[c].pc = "retire" /\ TypeInv /\ KeysGiven
  BY DEF Retire, At, PortalInv, PoolInv, KeyInv
<1>2. calls[c].op = "remove"
  BY <1>1, StageOps
<1>3. n \in Names /\ accounts[n].pk = 0
  BY <1>1, ActingFacts DEF KeyKnown
<1>4. /\ users' = [users EXCEPT ![n] = NoUser] /\ UNCHANGED <<accounts, nextPk, off>>
      /\ To(c, "provision")
  BY DEF Retire, ToQuietly
<1>5. users'[n] = NoUser /\ (\A m \in Names \ {n} : users'[m] = users[m]) /\ NoUser.pk = 0
  BY <1>1, <1>3, <1>4, UsersTyped
<1>6. /\ calls'[c].op = calls[c].op /\ calls'[c].name = n /\ calls'[c].u = calls[c].u
      /\ calls'[c].pc = "provision"
  BY <1>1, <1>4, GoesOn
<1>7. Unlisted(n)' /\ Dead(n)'
  BY <1>1, <1>3, <1>4, <1>5, PositiveKeys DEF Unlisted, Known, Dead
<1>8. KeyKnown(calls[c])' /\ OffKnown(calls[c])'
  BY <1>2, <1>6, <1>7 DEF KeyKnown, Acting, OffKnown
<1>9. nextPk \in Nat /\ accounts[n].pk < nextPk
  BY <1>1, <1>3 DEF TypeInv, TypeOK, KeysGiven
<1> QED BY <1>3, <1>4, <1>5, <1>7, <1>8, <1>9 DEF Effect

\* A step that leaves an employee as the invariant sees them.
Same(m) ==
  /\ (users'[m] # NoUser <=> Known(m)) /\ users'[m].pk = users[m].pk
  /\ (users'[m].status = "disabled" <=> users[m].status = "disabled")
  /\ accounts'[m].pk = accounts[m].pk
  /\ ~accounts[m].active => ~accounts'[m].active
  /\ Dead(m) => accounts'[m].web = NoAccess

\* An operation that is not touched still knows what it knew.
LEMMA KnowsStill ==
  ASSUME TypeInv, NEW d \in Calls, KeyKnown(calls[d]), OffKnown(calls[d]), calls'[d] = calls[d],
         calls[d].op \in AdminOps =>
           Same(calls[d].name) /\ (calls[d].name \in off' => calls[d].name \in off)
  PROVE  KeyKnown(calls[d])' /\ OffKnown(calls[d])'
<1>1. CASE calls[d].op \notin AdminOps
  BY <1>1 DEF KeyKnown, OffKnown, Acting, AdminOps
<1>2. CASE calls[d].op \in AdminOps
  <2> PICK n \in Names : n = calls[d].name
    BY <1>2, StageOps
  <2>1. Same(n) /\ (n \in off' => n \in off)
    BY <1>2
  <2>2. KeyKnown(calls[d])'
    BY <2>1 DEF KeyKnown, Acting, Same, Known
  <2>3. Unlisted(n) => Unlisted(n)'
    BY <2>1 DEF Unlisted, Same, Known
  <2>4. Dead(n) => Dead(n)'
    BY <2>1 DEF Dead, Same
  <2>5. ~accounts[n].active => ~accounts'[n].active
    BY <2>1 DEF Same
  <2>6. OffKnown(calls[d])'
    BY <2>1, <2>3, <2>4, <2>5 DEF OffKnown
  <2> QED BY <2>2, <2>6
<1> QED BY <1>1, <1>2

\* A step of one operation, for one employee.
LEMMA EffectKeys ==
  ASSUME PortalInv, NEW c \in Calls, NEW n \in Names, Effect(c, n), nextPk' \in Nat,
         calls[c].name = n \/ calls[c].pc = "idle",
         \A d \in Calls \ {c} : calls'[d] = calls[d],
         \A d \in Calls \ {c} : calls[d].op \in AdminOps => calls[d].name # n
  PROVE  KeyInv' /\ \A d \in Calls : OffKnown(calls[d])'
<1>0. TypeInv /\ KeysGiven /\ (\A m \in Names : Linked(m)) /\ \A d \in Calls : KeyKnown(calls[d]) /\ OffKnown(calls[d])
  BY DEF PortalInv, PoolInv, KeyInv, OffInv
<1>1. \A m \in Names \ {n} : users'[m] = users[m] /\ accounts'[m] = accounts[m]
  BY DEF Effect
<1>2. ASSUME NEW d \in Calls PROVE KeyKnown(calls[d])' /\ OffKnown(calls[d])'
  <2>1. CASE d = c
    BY <2>1 DEF Effect
  <2>2. CASE d # c
    <3>1. calls[d].op \in AdminOps => calls[d].name \in Names \ {n}
      BY <1>0, <2>2, StageOps
    <3>2. calls[d].op \in AdminOps => Same(calls[d].name)
      BY <1>1, <3>1 DEF Same, Known, Dead
    <3>3. off' \subseteq off
      BY DEF Effect
    <3> QED BY <1>0, <2>2, <3>2, <3>3, KnowsStill
  <2> QED BY <2>1, <2>2
<1>3. KeysGiven'
  <2>1. \A m \in Names : accounts[m].pk \in Nat /\ accounts[m].pk < nextPk
    BY <1>0, PositiveKeys DEF KeysGiven
  <2>2. nextPk \in Nat /\ nextPk' \in Nat /\ nextPk <= nextPk'
    BY <1>0 DEF Effect, TypeInv, TypeOK
  <2>3. accounts'[n].pk < nextPk' /\ accounts'[n].pk \in {0, accounts[n].pk, nextPk}
    BY DEF Effect
  <2>4. \A m \in Names : accounts'[m].pk < nextPk'
    <3>1. \A m \in Names \ {n} : accounts'[m].pk < nextPk'
      BY <1>1, <2>1, <2>2
    <3> QED BY <2>3, <3>1
  <2>5. ASSUME NEW m \in Names, NEW k \in Names, accounts'[m].pk = accounts'[k].pk, accounts'[k].pk # 0
        PROVE  m = k
    <3>1. \A x, y \in Names : accounts[x].pk = accounts[y].pk /\ accounts[y].pk # 0 => x = y
      BY <1>0 DEF KeysGiven
    <3>2. \A x \in Names \ {n} : accounts'[x].pk = accounts[x].pk /\ accounts[x].pk # nextPk
      BY <1>1, <2>1, <2>2
    <3> QED BY <2>3, <2>5, <3>1, <3>2
  <2> QED BY <2>4, <2>5 DEF KeysGiven
<1>4. ASSUME NEW m \in Names PROVE Linked(m)'
  <2>1. CASE m = n
    BY <2>1 DEF Effect, Linked
  <2>2. CASE m # n
    <3>1. users'[m] = users[m] /\ accounts'[m] = accounts[m]
      BY <1>1, <2>2
    <3>2. ASSUME NEW d \in Calls, calls[d].name = m, calls[d].pc \in {"savepk", "retire"}
          PROVE  calls'[d] = calls[d]
      BY <2>2, <3>2
    <3> QED BY <1>0, <3>1, <3>2 DEF Linked
  <2> QED BY <2>1, <2>2
<1> QED BY <1>2, <1>3, <1>4 DEF KeyInv

\* A step that changes nobody.
LEMMA SameKeys ==
  ASSUME PortalInv, \A m \in Names : Same(m), nextPk' = nextPk,
         \A d \in Calls :
           \/ /\ calls'[d] = calls[d]
              /\ calls[d].op \in AdminOps => (calls[d].name \in off' => calls[d].name \in off)
           \/ /\ calls[d].pc \notin {"savepk", "retire"}
              /\ KeyKnown(calls[d])' /\ OffKnown(calls[d])'
  PROVE  KeyInv' /\ \A d \in Calls : OffKnown(calls[d])'
<1>0. TypeInv /\ KeysGiven /\ (\A m \in Names : Linked(m)) /\ \A d \in Calls : KeyKnown(calls[d]) /\ OffKnown(calls[d])
  BY DEF PortalInv, PoolInv, KeyInv, OffInv
<1>1. ASSUME NEW d \in Calls PROVE KeyKnown(calls[d])' /\ OffKnown(calls[d])'
  <2>1. CASE /\ calls'[d] = calls[d]
             /\ calls[d].op \in AdminOps => (calls[d].name \in off' => calls[d].name \in off)
    <3>1. calls[d].op \in AdminOps => Same(calls[d].name)
      BY <1>0, StageOps
    <3> QED BY <1>0, <2>1, <3>1, KnowsStill
  <2> QED BY <2>1
<1>2. \A m \in Names : users'[m].pk = users[m].pk /\ accounts'[m].pk = accounts[m].pk
  BY DEF Same
<1>3. KeysGiven'
  BY <1>0, <1>2 DEF KeysGiven
<1>4. \A d \in Calls : calls[d].pc \in {"savepk", "retire"} => calls'[d] = calls[d]
  OBVIOUS
<1>5. ASSUME NEW m \in Names PROVE Linked(m)'
  BY <1>0, <1>2, <1>4 DEF Linked
<1> QED BY <1>1, <1>3, <1>5 DEF KeyInv

\* Those who are off stay so.
LEMMA OffStill ==
  ASSUME PortalInv, \A m \in Names : m \notin Listed(run.spec) => m \notin Listed(run'.spec),
         \A m \in Names : mcp[m].key = NoAccess => mcp'[m].key = NoAccess, off \subseteq Names,
         off' \subseteq off, \A m \in off' : Unlisted(m)' /\ Dead(m)'
  PROVE  \A m \in off' : OffHolds(m)'
<1>1. \A m \in off : OffHolds(m)
  BY DEF PortalInv, OffInv
<1>2. Listed(run.spec)' = Listed(run'.spec)
  BY DEF Listed
<1> QED BY <1>1, <1>2 DEF OffHolds

LEMMA UntouchedOff ==
  ASSUME PortalInv, NEW m \in off, Same(m)
  PROVE  Unlisted(m)' /\ Dead(m)'
<1>1. OffHolds(m)
  BY DEF PortalInv, OffInv
<1> QED BY <1>1 DEF OffHolds, Unlisted, Known, Dead, Same

\* The run and its queue go on.
LEMMA RunStill ==
  ASSUME PortalInv, UNCHANGED <<queue, run>>,
         \A m \in Names : /\ mcp'[m].account = mcp[m].account
                          /\ mcp'[m].key = NoAccess \/ mcp'[m].key = mcp[m].key,
         \A d \in Calls : Waits(d) => calls'[d] = calls[d]
  PROVE  RunInv'
<1>0. KeysHaveAccounts /\ Targets /\ QueueWaits /\ RunIsFor /\ run \in RunRecord
  BY DEF PortalInv, RunInv, PoolInv, TypeInv, TypeOK, ProvisionerTypeOK
<1>1. KeysHaveAccounts'
  BY <1>0 DEF KeysHaveAccounts
<1>2. QueueWaits'
  BY <1>0 DEF QueueWaits, Waits
<1>3. Targets'
  <2>1. run.step \in {"keys", "issue"} => run.at \in Names
    BY <1>0 DEF RunIsFor
  <2>2. Listed(run.spec)' = Listed(run.spec)
    BY DEF Listed
  <2>3. run.step # "none" => Waits(run.call) /\ calls'[run.call] = calls[run.call]
    BY <1>0 DEF Targets, Waits
  <2> QED BY <1>0, <2>1, <2>2, <2>3 DEF Targets, Waits
<1> QED BY <1>1, <1>2, <1>3 DEF RunInv

\* Every step but the last before the provisioning is for one employee, and at most takes a key away.
LEMMA ContinueEffect ==
  ASSUME PortalInv, NothingHalfDone, NEW c \in Calls, Continue(c), ~Provision(c),
         NEW n, n = calls[c].name
  PROVE  /\ Effect(c, n) /\ n \in Names /\ Acting(calls[c])
         /\ UNCHANGED <<queue, run>> /\ (mcp' = mcp \/ mcp' = KeysDeleted(n))
<1>1. UNCHANGED <<queue, run>> /\ (mcp' = mcp \/ mcp' = KeysDeleted(n))
  BY DEF Continue, Revoke, Patch, EnsureUser, SavePk, Rollback, InviteLink, SetGroups, Deactivate, EndSessions,
         DeleteUser, Retire, ActivateAccount, SetStatus, provisionerVars
<1>2. Effect(c, n)
  BY RevokeEffect, PatchEffect, EnsureEffect, SavePkEffect, RollbackEffect, LinkEffect, GroupsEffect,
     DeactivateEffect, SessionsEffect, DeleteEffect, RetireEffect, ActivateEffect, StatusEffect
     DEF Continue
<1>3. calls[c].pc \notin {"idle", "provision", "waiting"}
  BY DEF Continue, Revoke, Patch, EnsureUser, SavePk, Rollback, InviteLink, SetGroups, Deactivate, EndSessions,
         DeleteUser, Retire, ActivateAccount, SetStatus, At
<1>4. n \in Names /\ Acting(calls[c])
  BY <1>3, ActingFacts
<1> QED BY <1>1, <1>2, <1>4

\* Taking a key away.
LEMMA KeysGone ==
  ASSUME TypeInv, NEW n \in Names, mcp' = mcp \/ mcp' = KeysDeleted(n)
  PROVE  \A m \in Names : /\ mcp'[m].account = mcp[m].account
                          /\ mcp'[m].key = NoAccess \/ mcp'[m].key = mcp[m].key
<1>1. mcp \in [Names -> McpRecord]
  BY DEF TypeInv, TypeOK, ProvisionerTypeOK
<1>2. CASE mcp' = mcp
  BY <1>2
<1>3. CASE mcp' = KeysDeleted(n)
  <2>1. mcp' = [mcp EXCEPT ![n] = [mcp[n] EXCEPT !.key = NoAccess]]
    BY <1>1, <1>3 DEF KeysDeleted
  <2>2. mcp[n] \in McpRecord
    BY <1>1
  <2>3. /\ [mcp[n] EXCEPT !.key = NoAccess].account = mcp[n].account
        /\ [mcp[n] EXCEPT !.key = NoAccess].key = NoAccess
    BY <2>2 DEF McpRecord
  <2> QED BY <1>1, <2>1, <2>3
<1> QED BY <1>2, <1>3

LEMMA ContinueOff ==
  ASSUME PortalInv, NothingHalfDone, TypeInv', NEW c \in Calls, Continue(c), ~Provision(c)
  PROVE  KeyInv' /\ OffInv' /\ RunInv'
<1> PICK n : n = calls[c].name
  OBVIOUS
<1>0. TypeInv /\ OneCallEach
  BY DEF PortalInv, PoolInv
<1>1. /\ Effect(c, n) /\ n \in Names /\ Acting(calls[c])
      /\ UNCHANGED <<queue, run>> /\ (mcp' = mcp \/ mcp' = KeysDeleted(n))
  BY ContinueEffect
<1>2. \A d \in Calls \ {c} : calls'[d] = calls[d]
  BY <1>0, ContinueMoves, MovesCalls
<1>3. \A d \in Calls \ {c} : calls[d].op \in AdminOps => calls[d].name # n
  <2>1. n # NoName
    BY <1>1, ProvisionerAssumption
  <2>2. \A d \in Calls : calls[d].op \in AdminOps => calls[d].op # "rotate"
    BY DEF AdminOps
  <2> QED BY <1>0, <1>1, <2>1, <2>2 DEF OneCallEach, Acting
<1>4. nextPk' \in Nat
  BY DEF TypeInv, TypeOK
<1>5. KeyInv' /\ \A d \in Calls : OffKnown(calls[d])'
  BY <1>1, <1>2, <1>3, <1>4, EffectKeys
<1>6. \A m \in Names : /\ mcp'[m].account = mcp[m].account
                       /\ mcp'[m].key = NoAccess \/ mcp'[m].key = mcp[m].key
  BY <1>0, <1>1, KeysGone
<1>7. calls[c].pc # "waiting"
  BY <1>1 DEF Acting
<1>8. RunInv'
  BY <1>1, <1>2, <1>6, <1>7, RunStill DEF Waits
<1>9. \A m \in off' : OffHolds(m)'
  <2>1. off' \subseteq off /\ off \subseteq Names
    BY <1>0, <1>1 DEF Effect, TypeInv, TypeOK
  <2>2. \A m \in off' \ {n} : Same(m)
    BY <1>1, <2>1 DEF Effect, Same, Known, Dead
  <2>3. ASSUME NEW m \in off' PROVE Unlisted(m)' /\ Dead(m)'
    <3>1. CASE m = n
      BY <1>1, <3>1 DEF Effect
    <3>2. CASE m # n
      BY <2>1, <2>2, <3>2, UntouchedOff
    <3> QED BY <3>1, <3>2
  <2>4. \A m \in Names : mcp[m].key = NoAccess => mcp'[m].key = NoAccess
    BY <1>6
  <2>5. \A m \in Names : m \notin Listed(run.spec) => m \notin Listed(run'.spec)
    BY <1>1
  <2> QED BY <2>1, <2>3, <2>4, <2>5, OffStill
<1> QED BY <1>5, <1>8, <1>9 DEF OffInv

\* Asking for the provisioning: a place in the queue.
LEMMA ProvisionOff ==
  ASSUME PortalInv, TypeInv', NEW c \in Calls, Provision(c)
  PROVE  KeyInv' /\ OffInv' /\ RunInv'
<1>0. /\ TypeInv /\ KeyKnown(calls[c]) /\ OffKnown(calls[c]) /\ off \subseteq Names /\ RunIsFor
      /\ calls \in [Calls -> CallRecord] /\ KeysHaveAccounts /\ Targets /\ QueueWaits
  BY DEF PortalInv, PoolInv, KeyInv, OffInv, RunInv, TypeInv, TypeOK
<1>1. /\ calls[c].pc = "provision" /\ To(c, "waiting")
      /\ UNCHANGED <<users, accounts, nextPk, off, mcp, run>>
  BY DEF Provision, At
<1>2. PICK rotate \in SUBSET Names : queue' = Append(queue, [call |-> c, rotate |-> rotate])
  <2>1. calls[c].op = "rotate" => calls[c].name \in Names
    BY <1>0, NextStages DEF StageOK, OpsOnUser
  <2> QED BY <2>1 DEF Provision, Enqueue
<1>3. /\ calls'[c].pc = "waiting" /\ calls'[c].op = calls[c].op /\ calls'[c].name = calls[c].name
      /\ calls'[c].u = calls[c].u /\ calls'[c].clean = calls[c].clean
      /\ \A d \in Calls \ {c} : calls'[d] = calls[d]
  BY <1>0, <1>1, GoesOn DEF To
<1>4. KeyKnown(calls[c])'
  BY <1>3 DEF KeyKnown, Acting
<1>5. OffKnown(calls[c])'
  BY <1>0, <1>1, <1>3 DEF OffKnown, Unlisted, Known, Dead
<1>6. \A m \in Names : Same(m)
  BY <1>1 DEF Same, Known, Dead
<1>7. KeyInv' /\ \A d \in Calls : OffKnown(calls[d])'
  BY <1>1, <1>3, <1>4, <1>5, <1>6, SameKeys
<1>8. \A m \in off' : OffHolds(m)'
  BY <1>1 DEF PortalInv, OffInv, OffHolds, Unlisted, Known, Dead, Listed
<1>9. \A d \in Calls : Waits(d) => d # c /\ calls'[d] = calls[d]
  BY <1>1, <1>3 DEF Waits
<1>10. KeysHaveAccounts' /\ Targets'
  <2>1. KeysHaveAccounts'
    BY <1>0, <1>1 DEF KeysHaveAccounts
  <2>2. run.step # "none" => Waits(run.call) /\ calls'[run.call] = calls[run.call]
    BY <1>0, <1>9 DEF Targets, Waits
  <2>3. Listed(run.spec)' = Listed(run.spec)
    BY <1>1 DEF Listed
  <2>4. Targets'
    BY <1>0, <1>1, <2>2, <2>3 DEF Targets, Waits
  <2> QED BY <2>1, <2>4
<1>11. QueueWaits'
  <2> DEFINE entry == [call |-> c, rotate |-> rotate]
  <2>1. queue \in Seq([call : Calls, rotate : SUBSET Names])
    BY <1>0 DEF TypeInv, TypeOK, ProvisionerTypeOK
  <2>2. /\ Len(queue') = Len(queue) + 1 /\ queue'[Len(queue) + 1].call = c
        /\ \A i \in 1..Len(queue) : queue'[i] = queue[i]
    BY <1>2, <2>1
  <2>3. Len(queue) \in Nat
    BY <2>1
  <2>4. \A i \in 1..Len(queue) : Waits(queue[i].call) /\ queue[i].call # run.call
    BY <1>0 DEF QueueWaits
  <2>5. \A i \in 1..Len(queue) : queue[i].call # c /\ queue[i].call \in Calls /\ calls'[queue[i].call] = calls[queue[i].call]
    BY <1>9, <2>4 DEF Waits
  <2>6. run'.call # c
    BY <1>0, <1>1, <1>9, ProvisionerAssumption DEF Targets, RunIsFor, NoRun, Waits
  <2>7. \A i \in 1..Len(queue') : i \in 1..Len(queue) \/ i = Len(queue) + 1
    BY <2>2, <2>3
  <2>8. ASSUME NEW i \in 1..Len(queue') 
        PROVE  /\ queue'[i].call \in Calls /\ calls'[queue'[i].call].pc = "waiting"
               /\ queue'[i].call # run'.call
    <3>1. CASE i \in 1..Len(queue)
      BY <1>1, <2>2, <2>4, <2>5, <3>1 DEF Waits
    <3>2. CASE i = Len(queue) + 1
      BY <1>3, <2>2, <2>6, <3>2 DEF Waits
    <3> QED BY <2>7, <3>1, <3>2
  <2>9. ASSUME NEW i \in 1..Len(queue'), NEW j \in 1..Len(queue'), queue'[i].call = queue'[j].call
        PROVE  i = j
    <3>1. CASE i \in 1..Len(queue) /\ j \in 1..Len(queue)
      BY <1>0, <2>2, <2>9, <3>1 DEF QueueWaits
    <3>2. CASE i = Len(queue) + 1 \/ j = Len(queue) + 1
      BY <2>2, <2>5, <2>7, <2>9, <3>2
    <3> QED BY <2>7, <3>1, <3>2
  <2> QED BY <2>8, <2>9 DEF QueueWaits, Waits
<1> QED BY <1>7, <1>8, <1>10, <1>11 DEF OffInv, RunInv

\* A new operation takes nothing from those that wait.
LEMMA BeginRunInv ==
  ASSUME PortalInv, NEW c \in Calls, calls[c].pc = "idle", UNCHANGED provisionerVars,
         \A d \in Calls \ {c} : calls'[d] = calls[d]
  PROVE  RunInv'
<1>1. UNCHANGED <<queue, run, mcp>>
  BY DEF provisionerVars
<1>2. \A d \in Calls : Waits(d) => d # c
  BY DEF Waits
<1> QED BY <1>1, <1>2, RunStill

LEMMA AdmitOff ==
  ASSUME PortalInv, ~Overlap, TypeInv', NEW c \in Calls, NEW n \in Names, NEW role \in Roles, NEW slot \in Slots,
         NEW former, ~Known(n), calls[c].pc = "idle", begun' \in Nat,
         \A d \in Calls : calls[d].name # n \/ calls[d].op = "rotate",
         Admit(c, n, role, slot, former)
  PROVE  KeyInv' /\ OffInv' /\ RunInv'
<1>0. TypeInv /\ Linked(n) /\ KeysGiven /\ off \subseteq Names /\ calls \in [Calls -> CallRecord]
  BY DEF PortalInv, PoolInv, KeyInv, TypeInv, TypeOK
<1> PICK new : new = Reserved(n, role, slot)
  OBVIOUS
<1> DEFINE call == Opened(c, "invite", n, "ensure")
<1>1. new.pk = 0 /\ new # NoUser
  BY ProvisionerAssumption DEF Reserved, NoUser
<1>2. "ensure" \in StagesOf("invite")
  BY DEF StagesOf
<1>3. call \in CallRecord /\ call.op = "invite" /\ call.pc = "ensure" /\ call.name = n
  BY <1>0, <1>2, OpenedTyped
<1>4. /\ calls' = [calls EXCEPT ![c] = [call EXCEPT !.role = role, !.u = new, !.former = former]]
      /\ users' = [users EXCEPT ![n] = new] /\ off' = off \ {n}
      /\ UNCHANGED <<accounts, nextPk, provisionerVars>>
  BY DEF Admit
<1> HIDE DEF call
<1>5. PICK r : calls' = [calls EXCEPT ![c] = r] /\ r.op = "invite" /\ r.pc = "ensure" /\ r.name = n
  <2> DEFINE q == [call EXCEPT !.role = role, !.u = new, !.former = former]
  <2>1. q.op = "invite" /\ q.pc = "ensure" /\ q.name = n
    BY <1>3 DEF CallRecord
  <2>2. calls' = [calls EXCEPT ![c] = q]
    BY <1>4
  <2> HIDE DEF q
  <2> QED BY <2>1, <2>2
<1>6. calls'[c] = r /\ \A d \in Calls \ {c} : calls'[d] = calls[d]
  BY <1>0, <1>5
<1>7. users'[n] = new /\ \A m \in Names \ {n} : users'[m] = users[m]
  BY <1>0, <1>4, UsersTyped
<1>8. \A d \in Calls : calls[d].op \in AdminOps => calls[d].name # n
  BY DEF AdminOps
<1>9. accounts[n].pk = 0
  <2>1. \A d \in Calls : calls[d].pc \in {"savepk", "retire"} => calls[d].name # n
    BY <1>0, <1>8, StageOps
  <2>2. users[n].pk = 0
    BY <1>0, UsersTyped DEF Known
  <2> QED BY <1>0, <2>1, <2>2 DEF Linked
<1>10. KeyKnown(calls[c])'
  BY <1>1, <1>5, <1>6, <1>7 DEF KeyKnown, Known
<1>11. OffKnown(calls[c])'
  BY <1>4, <1>5, <1>6 DEF OffKnown
<1>12. nextPk' \in Nat /\ nextPk = nextPk' /\ accounts[n].pk < nextPk
  BY <1>0, <1>4 DEF TypeInv, TypeOK, KeysGiven
<1>13. Effect(c, n)
  <2>1. users'[n].pk = 0 /\ accounts'[n].pk = 0 /\ n \notin off' /\ off' \subseteq off
    BY <1>1, <1>4, <1>7, <1>9
  <2>2. accounts'[n].pk < nextPk' /\ nextPk <= nextPk'
    BY <1>4, <1>12
  <2>3. \A m \in Names \ {n} : users'[m] = users[m] /\ accounts'[m] = accounts[m]
    BY <1>4, <1>7
  <2> QED BY <1>10, <1>11, <2>1, <2>2, <2>3 DEF Effect
<1>14. KeyInv' /\ \A d \in Calls : OffKnown(calls[d])'
  BY <1>6, <1>8, <1>12, <1>13, EffectKeys
<1>15. \A m \in off' : OffHolds(m)'
  <2>1. \A m \in off' : m \in off /\ Same(m)
    BY <1>0, <1>4, <1>7 DEF Same, Known, Dead
  <2>2. mcp' = mcp /\ run' = run
    BY <1>4 DEF provisionerVars
  <2>3. \A m \in off' : Unlisted(m)' /\ Dead(m)'
    BY <2>1, UntouchedOff
  <2>4. off' \subseteq off
    BY <1>4
  <2> QED BY <1>0, <2>2, <2>3, <2>4, OffStill
<1>16. RunInv'
  BY <1>4, <1>6, BeginRunInv
<1> QED BY <1>14, <1>15, <1>16 DEF OffInv

\* An operation that begins with a read of its employee.
LEMMA OnUserOff ==
  ASSUME PortalInv, TypeInv', NEW c \in Calls, NEW n \in Names, NEW op \in OpsOnUser, OnUser(c, op, n)
  PROVE  KeyInv' /\ OffInv' /\ RunInv'
<1>0. TypeInv /\ off \subseteq Names /\ calls \in [Calls -> CallRecord] /\ Known(n) /\ \A m \in off : OffHolds(m)
  BY DEF PortalInv, PoolInv, TypeInv, TypeOK, OnUser, OffInv
<1>1. begun' \in Nat
  BY <1>0, BeginsTyped DEF OnUser
<1>2. FirstStep(op) \in StagesOf(op)
  BY DEF OpsOnUser, FirstStep, StagesOf
<1> DEFINE call == Opened(c, op, n, FirstStep(op))
<1>3. /\ call \in CallRecord /\ call.op = op /\ call.pc = FirstStep(op) /\ call.name = n
      /\ call.u = users[n]
  BY <1>0, <1>1, <1>2, OpenedTyped
<1>4. PICK role : calls' = [calls EXCEPT ![c] = [call EXCEPT !.role = role]]
  BY DEF OnUser
<1> HIDE DEF call
<1>5. PICK r : /\ calls' = [calls EXCEPT ![c] = r]
               /\ r.op = op /\ r.pc = FirstStep(op) /\ r.name = n /\ r.u = users[n]
  <2> DEFINE q == [call EXCEPT !.role = role]
  <2>1. q.op = op /\ q.pc = FirstStep(op) /\ q.name = n /\ q.u = users[n]
    BY <1>3 DEF CallRecord
  <2>2. calls' = [calls EXCEPT ![c] = q]
    BY <1>4
  <2> HIDE DEF q
  <2> QED BY <2>1, <2>2
<1>6. calls'[c] = r /\ \A d \in Calls \ {c} : calls'[d] = calls[d]
  BY <1>0, <1>5
<1>7. /\ UNCHANGED <<users, accounts, nextPk, provisionerVars>> /\ calls[c].pc = "idle"
      /\ off' = IF op = "enable" THEN off \ {n} ELSE off
  BY DEF OnUser, Begins, At
<1>8. /\ op \in {"role", "disable", "remove"} => FirstStep(op) = "revoke"
      /\ op \in {"resend", "enable"} => FirstStep(op) = "ensure"
      /\ op = "rotate" => FirstStep(op) = "provision"
  BY DEF FirstStep
<1>9. KeyKnown(calls[c])'
  BY <1>0, <1>5, <1>6, <1>7, <1>8 DEF KeyKnown, Known, Acting, AdminOps, OpsOnUser
<1>10. users[n].status # "disabled" => n \notin off
  BY <1>0 DEF OffHolds, Unlisted
<1>11. op = "resend" => n \notin off
  BY <1>10 DEF OnUser, Allowed
<1>12. OffKnown(calls[c])'
  BY <1>5, <1>6, <1>7, <1>8, <1>10, <1>11 DEF OffKnown, OpsOnUser
<1>13. \A m \in Names : Same(m)
  BY <1>7 DEF Same, Known, Dead
<1>14. off' \subseteq off
  BY <1>7
<1>15. KeyInv' /\ \A d \in Calls : OffKnown(calls[d])'
  BY <1>6, <1>7, <1>9, <1>12, <1>13, <1>14, SameKeys
<1>16. \A m \in off' : OffHolds(m)'
  <2>1. mcp' = mcp /\ run' = run
    BY <1>7 DEF provisionerVars
  <2>2. \A m \in off' : Unlisted(m)' /\ Dead(m)'
    BY <1>0, <1>13, <1>14, UntouchedOff
  <2> QED BY <1>0, <1>14, <2>1, <2>2, OffStill
<1>17. RunInv'
  BY <1>6, <1>7, BeginRunInv
<1> QED BY <1>15, <1>16, <1>17 DEF OffInv

\* A step that changes none of what the invariant is about.
LEMMA UnchangedOff ==
  ASSUME PortalInv, UNCHANGED <<users, accounts, nextPk, off, provisionerVars>>, NEW c \in Calls,
         \A d \in Calls \ {c} : calls'[d] = calls[d],
         calls'[c] = calls[c] \/ (calls[c].pc = "idle" /\ calls'[c].op = "reprovision")
  PROVE  KeyInv' /\ OffInv' /\ RunInv'
<1>0. off \subseteq Names /\ UNCHANGED <<queue, run, mcp>>
  BY DEF PortalInv, PoolInv, TypeInv, TypeOK, provisionerVars
<1>1. \A m \in Names : Same(m)
  BY DEF Same, Known, Dead
<1>2. calls'[c].op = "reprovision" => KeyKnown(calls[c])' /\ OffKnown(calls[c])'
  BY DEF KeyKnown, OffKnown, Acting, AdminOps
<1>3. KeyInv' /\ \A d \in Calls : OffKnown(calls[d])'
  BY <1>1, <1>2, SameKeys
<1>4. \A m \in off' : OffHolds(m)'
  <2>1. \A m \in off' : Unlisted(m)' /\ Dead(m)'
    BY <1>0, <1>1, UntouchedOff
  <2> QED BY <1>0, <2>1, OffStill
<1>5. \A d \in Calls : Waits(d) => calls'[d] = calls[d]
  BY DEF Waits
<1>6. RunInv'
  BY <1>0, <1>5, RunStill
<1> QED BY <1>3, <1>4, <1>6 DEF OffInv

LEMMA BeginOff ==
  ASSUME PortalInv, ~Overlap, TypeInv', NEW c \in Calls, Begin(c)
  PROVE  KeyInv' /\ OffInv' /\ RunInv'
<1>0. TypeInv /\ calls \in [Calls -> CallRecord]
  BY DEF PortalInv, PoolInv, TypeInv, TypeOK
<1>1. CASE \E n \in Names, role \in Roles : Invite(c, n, role) \/ InviteRestoring(c, n, role)
  <2> PICK n \in Names, role \in Roles : Invite(c, n, role) \/ InviteRestoring(c, n, role)
    BY <1>1
  <2>1. ~Known(n) /\ calls[c].pc = "idle"
    BY DEF Invite, InviteRestoring, Begins, At
  <2>2. begun' \in Nat /\ \A d \in Calls : calls[d].name # n \/ calls[d].op = "rotate"
    BY <1>0, BeginsTyped, NewCallAlone DEF Invite, InviteRestoring
  <2>3. \E slot \in Slots : \E former : Admit(c, n, role, slot, former)
    BY <1>0 DEF Invite, InviteRestoring, TypeInv, TypeOK, RetiredRecord
  <2> QED BY <2>1, <2>2, <2>3, AdmitOff
<1>2. CASE \E n \in Names, op \in OpsOnUser : OnUser(c, op, n)
  BY <1>2, OnUserOff
<1>3. CASE Reprovision(c)
  <2>1. /\ calls' = [calls EXCEPT ![c] = [Idle EXCEPT !.op = "reprovision", !.pc = "provision", !.number = begun']]
        /\ UNCHANGED <<users, accounts, nextPk, off, provisionerVars>> /\ calls[c].pc = "idle"
    BY <1>3 DEF Reprovision, Begins, At
  <2>2. calls'[c].op = "reprovision" /\ \A d \in Calls \ {c} : calls'[d] = calls[d]
    BY <1>0, <2>1 DEF Idle
  <2> QED BY <2>1, <2>2, UnchangedOff
<1>4. CASE ReleaseSlot(c)
  <2>1. UNCHANGED <<users, accounts, nextPk, off, provisionerVars, calls>>
    BY <1>4 DEF ReleaseSlot
  <2> QED BY <2>1, UnchangedOff
<1> QED BY <1>1, <1>2, <1>3, <1>4 DEF Begin, OpsOnUser

\* The users of the spec are those who are known and not disabled.
LEMMA SpecLists ==
  ASSUME TypeInv, OneOwner
  PROVE  ValidSpec(ToUsersJson) /\ \A n \in Names : n \in Listed(ToUsersJson) <=> ~Unlisted(n)
<1>1. \A n \in Names : Known(n) => users[n].slot # 0
  BY KnownHaveSlots DEF KnownBySlot
<1>2. \A n \in Names : Known(n) => AccessOf(users[n]) # NoAccess /\ AccessOf(users[n]).slot = users[n].slot
  BY <1>1 DEF AccessOf, NoAccess
<1>3. \A n \in Names : n \in Listed(ToUsersJson) <=> ~Unlisted(n)
  BY <1>2 DEF Listed, ToUsersJson, Unlisted
<1>4. \A n \in Listed(ToUsersJson) : n \in Names /\ Known(n) /\ ToUsersJson[n].slot = users[n].slot
  BY <1>2 DEF Listed, ToUsersJson
<1>5. ValidSpec(ToUsersJson)
  BY <1>4 DEF ValidSpec, OneOwner
<1> QED BY <1>3, <1>5

\* A run begins for the first that waits, with the spec of this moment.
LEMMA RunBegins ==
  ASSUME PortalInv, NothingHalfDone, BeginRun
  PROVE  /\ run.step = "none" /\ queue # <<>> /\ queue' = Tail(queue) /\ mcp' = mcp
         /\ run'.call = Head(queue).call /\ run'.spec = ToUsersJson /\ run'.step = "users"
         /\ run'.todo = Listed(ToUsersJson)
         /\ \A n \in Names : mcp[n].account => n \in Listed(ToUsersJson) \/ n \in run'.removals
<1>1. ValidSpec(ToUsersJson) /\ ~Fails("db")
  BY SpecLists DEF PortalInv, PoolInv, NothingHalfDone, Fails
<1>2. queue # <<>> /\ queue' = Tail(queue) /\ mcp' = mcp /\ run = NoRun
  BY DEF BeginRun, StartRun
<1> DEFINE fresh == [NoRun EXCEPT !.call = Head(queue).call, !.rotate = Head(queue).rotate,
                                  !.spec = ToUsersJson, !.step = "users"]
           gone == {n \in Names : mcp[n].account /\ n \notin Listed(ToUsersJson)}
<1>3. run' = [fresh EXCEPT !.todo = Listed(ToUsersJson), !.removals = gone]
  BY <1>1 DEF BeginRun, StartRun
<1> PICK spec, listed, removals : spec = ToUsersJson /\ listed = Listed(ToUsersJson) /\ removals = gone
  OBVIOUS
<1>4. run' = [call |-> Head(queue).call, rotate |-> Head(queue).rotate, spec |-> spec,
              removals |-> removals, todo |-> listed, at |-> NoName, step |-> "users", changed |-> FALSE,
              clients |-> {}, failed |-> {}, error |-> FALSE]
  BY <1>3 DEF NoRun
<1>5. /\ run'.call = Head(queue).call /\ run'.spec = ToUsersJson /\ run'.step = "users"
      /\ run'.todo = Listed(ToUsersJson) /\ run'.removals = gone
  BY <1>4
<1>6. run.step = "none"
  BY <1>2 DEF NoRun
<1> QED BY <1>2, <1>5, <1>6

LEMMA BeginRunOff ==
  ASSUME PortalInv, NothingHalfDone, TypeInv', BeginRun
  PROVE  KeyInv' /\ OffInv' /\ RunInv'
<1>0. /\ TypeInv /\ OneOwner /\ OffInv /\ QueueWaits /\ KeysHaveAccounts /\ off \subseteq Names
      /\ queue \in Seq([call : Calls, rotate : SUBSET Names])
  BY DEF PortalInv, PoolInv, RunInv, TypeInv, TypeOK, ProvisionerTypeOK
<1>1. UNCHANGED <<users, accounts, nextPk, calls, off>>
  BY DEF BeginRun, portalVars
<1>2. /\ queue # <<>> /\ queue' = Tail(queue) /\ mcp' = mcp
      /\ run'.call = Head(queue).call /\ run'.spec = ToUsersJson /\ run'.step = "users"
      /\ run'.todo = Listed(ToUsersJson)
      /\ \A n \in Names : mcp[n].account => n \in Listed(ToUsersJson) \/ n \in run'.removals
  BY RunBegins
<1>3. \A n \in Names : n \in Listed(ToUsersJson) <=> ~Unlisted(n)
  BY <1>0, SpecLists
<1>4. Listed(run.spec)' = Listed(ToUsersJson)
  BY <1>2 DEF Listed
<1>5. KeyInv' /\ \A d \in Calls : OffKnown(calls[d])'
  BY <1>0, <1>1 DEF PortalInv, KeyInv, KeysGiven, Linked, KeyKnown, Acting, Known, OffInv, OffKnown, Unlisted, Dead
<1>6. \A n \in off' : OffHolds(n)'
  BY <1>0, <1>1, <1>2, <1>3, <1>4 DEF OffInv, OffHolds, Unlisted, Known, Dead
<1>7. KeysHaveAccounts'
  BY <1>0, <1>2 DEF KeysHaveAccounts
<1>8. /\ Len(queue) \in Nat \ {0} /\ Head(queue) = queue[1] /\ Len(queue') = Len(queue) - 1
      /\ \A i \in 1..Len(queue') : i + 1 \in 1..Len(queue) /\ queue'[i] = queue[i + 1]
  BY <1>0, <1>2
<1>9. Waits(run'.call) /\ \A i \in 1..Len(queue') : Waits(queue'[i].call) /\ queue'[i].call # run'.call
  <2>1. 1 \in 1..Len(queue) /\ \A i \in 1..Len(queue') : i + 1 # 1
    BY <1>8
  <2> QED BY <1>0, <1>2, <1>8, <2>1 DEF QueueWaits
<1>10. \A i, j \in 1..Len(queue') : queue'[i].call = queue'[j].call => i = j
  <2>1. \A i, j \in 1..Len(queue') : i + 1 = j + 1 => i = j
    BY <1>8
  <2> QED BY SMTT(20), <1>0, <1>8, <2>1 DEF QueueWaits
<1>11. QueueWaits'
  BY <1>1, <1>9, <1>10 DEF QueueWaits, Waits
<1>12. calls[run'.call].op \in {"disable", "remove"} => calls[run'.call].name \notin Listed(ToUsersJson)
  <2>1. OffKnown(calls[run'.call]) /\ calls[run'.call].pc = "waiting"
    BY <1>0, <1>9 DEF OffInv, Waits
  <2>2. ASSUME calls[run'.call].op \in {"disable", "remove"}
        PROVE  Unlisted(calls[run'.call].name) /\ calls[run'.call].name \in Names
    BY <1>0, <1>9, <2>1, <2>2, StageOps DEF OffKnown, AdminOps, Waits
  <2> QED BY <1>3, <2>2
<1>13. Targets'
  BY <1>1, <1>2, <1>4, <1>9, <1>12 DEF Targets, Waits
<1> QED BY <1>5, <1>6, <1>7, <1>11, <1>13 DEF OffInv, RunInv

\* What a step of a run leaves as it is: whom it is for, and that only users of its spec get a key.
RunGoes ==
  /\ run.step # "none" /\ run'.step # "none" /\ run'.call = run.call /\ run'.spec = run.spec
  /\ run'.todo \subseteq run.todo /\ queue' = queue
  /\ run'.step \in {"keys", "issue"} =>
       run'.at \in Listed(run.spec) /\ mcp'[run'.at].account /\ run'.removals = {}
  /\ \A n \in Names :
       /\ mcp'[n].account => mcp[n].account \/ n \in run.todo
       /\ n \in run.removals => n \in run'.removals \/ ~mcp'[n].account
       /\ \/ mcp'[n].key = NoAccess
          \/ mcp'[n].key = mcp[n].key /\ (mcp[n].account => mcp'[n].account)
          \/ n \in Listed(run.spec) /\ mcp'[n].account

LEMMA DoneFields ==
  ASSUME run \in RunRecord, NEW n, run' \in {UserOk(n), UserFailed(n)}
  PROVE  /\ run'.step = "users" /\ run'.call = run.call /\ run'.spec = run.spec
         /\ run'.todo \subseteq run.todo /\ run'.removals = run.removals
<1>1. /\ UserDone(n) \in [call : {run.call}, rotate : {run.rotate}, spec : {run.spec},
                          removals : {run.removals}, todo : {run.todo \ {n}}, at : {NoName}, step : {"users"},
                          changed : {FALSE}, clients : {run.clients}, failed : {run.failed}, error : {run.error}]
  BY DEF UserDone, RunRecord
<1>2. /\ UserOk(n).step = "users" /\ UserOk(n).call = run.call /\ UserOk(n).spec = run.spec
      /\ UserOk(n).todo = run.todo \ {n} /\ UserOk(n).removals = run.removals
  BY <1>1 DEF UserOk
<1>3. /\ UserFailed(n).step = "users" /\ UserFailed(n).call = run.call /\ UserFailed(n).spec = run.spec
      /\ UserFailed(n).todo = run.todo \ {n} /\ UserFailed(n).removals = run.removals
  BY <1>1 DEF UserFailed
<1> QED BY <1>2, <1>3

LEMMA RunGoesOn ==
  ASSUME TypeInv, Targets, "db" \notin FaultKinds, RunStep
  PROVE  RunGoes
<1>0. run \in RunRecord /\ mcp \in [Names -> McpRecord] /\ RunIsFor /\ UNCHANGED queue
  BY DEF TypeInv, TypeOK, ProvisionerTypeOK, RunStep, RemoveAccount, ReconcileServers, ReconcileKeys, IssueKey,
         Tripwire
<1>1. ASSUME NEW n \in Names, RemoveAccount(n) PROVE RunGoes
  <2>1. /\ n \in run.removals /\ mcp' = [mcp EXCEPT ![n] = NoMcp]
        /\ run' = [run EXCEPT !.removals = @ \ {n}]
    BY <1>1 DEF RemoveAccount, Fails
  <2>2. run.step # "none"
    BY <1>0, <2>1 DEF RunIsFor, NoRun
  <2>3. run.step \notin {"keys", "issue"}
    BY <2>1, <2>2 DEF Targets
  <2>4. /\ run'.step = run.step /\ run'.call = run.call /\ run'.spec = run.spec /\ run'.todo = run.todo
        /\ run'.removals = run.removals \ {n}
    BY <1>0, <2>1 DEF RunRecord
  <2>5. ~NoMcp.account /\ NoMcp.key = NoAccess
    BY DEF NoMcp
  <2>6. mcp'[n] = NoMcp /\ \A m \in Names \ {n} : mcp'[m] = mcp[m]
    BY <1>0, <2>1
  <2> QED BY <1>0, <2>2, <2>3, <2>4, <2>5, <2>6 DEF RunGoes
<1>2. CASE ReconcileServers
  <2>1. run.step = "users" /\ run.spec \in Specs /\ run.todo \in SUBSET Names /\ run.todo # {} /\ run.removals = {}
    BY <1>0, <1>2 DEF ReconcileServers, RunRecord
  <2> DEFINE n == NextUser
  <2>2. n \in run.todo
    BY <2>1, NextInOrder DEF NextUser
  <2>3. n \in Listed(run.spec) /\ n \in Names
    BY <2>1, <2>2 DEF Targets
  <2>4. /\ \/ mcp' = [mcp EXCEPT ![n].account = TRUE, ![n].servers = run.spec[n]]
           \/ mcp' = [mcp EXCEPT ![n].account = TRUE]
        /\ \/ run' = [run EXCEPT !.at = n, !.step = "keys",
                                 !.changed = mcp[n].servers \notin {NoAccess, run.spec[n]}]
           \/ run' = UserFailed(n)
    BY <1>2 DEF ReconcileServers
  <2> HIDE DEF n
  <2>5. mcp'[n].account /\ mcp'[n].key = mcp[n].key /\ \A m \in Names \ {n} : mcp'[m] = mcp[m]
    <3>1. mcp[n] \in McpRecord
      BY <1>0, <2>3
    <3>2. \/ mcp' = [mcp EXCEPT ![n] = [[mcp[n] EXCEPT !.account = TRUE] EXCEPT !.servers = run.spec[n]]]
          \/ mcp' = [mcp EXCEPT ![n] = [mcp[n] EXCEPT !.account = TRUE]]
      BY <1>0, <2>3, <2>4
    <3>3. /\ [mcp[n] EXCEPT !.account = TRUE].account /\ [mcp[n] EXCEPT !.account = TRUE].key = mcp[n].key
          /\ [[mcp[n] EXCEPT !.account = TRUE] EXCEPT !.servers = run.spec[n]].account
          /\ [[mcp[n] EXCEPT !.account = TRUE] EXCEPT !.servers = run.spec[n]].key = mcp[n].key
      BY <3>1 DEF McpRecord
    <3> QED BY <1>0, <2>3, <3>2, <3>3
  <2>6. /\ run'.step \in {"keys", "users"} /\ run'.call = run.call /\ run'.spec = run.spec
        /\ run'.todo \subseteq run.todo /\ run'.removals = run.removals
        /\ run'.step = "keys" => run'.at = n
    <3>1. CASE run' = UserFailed(n)
      BY <1>0, <3>1, DoneFields
    <3>2. CASE run' = [run EXCEPT !.at = n, !.step = "keys",
                                 !.changed = mcp[n].servers \notin {NoAccess, run.spec[n]}]
      BY <1>0, <3>2 DEF RunRecord
    <3> QED BY <2>4, <3>1, <3>2
  <2> QED BY <1>0, <2>1, <2>2, <2>3, <2>5, <2>6 DEF RunGoes
<1>3. CASE ReconcileKeys
  <2>1. /\ run.step = "keys" /\ run.at \in Names /\ run.at \in Listed(run.spec) /\ mcp[run.at].account
        /\ run.removals = {}
    BY <1>0, <1>3 DEF ReconcileKeys, RunIsFor, Targets
  <2>2. /\ mcp' = mcp \/ mcp' = KeysDeleted(run.at)
        /\ run' = [run EXCEPT !.step = "issue"] \/ run' \in {UserOk(run.at), UserFailed(run.at)}
    BY <1>3 DEF ReconcileKeys
  <2>3. \A m \in Names : /\ mcp'[m].account = mcp[m].account
                         /\ mcp'[m].key = NoAccess \/ mcp'[m].key = mcp[m].key
    BY <2>1, <2>2, KeysGone
  <2>4. /\ run'.step \in {"issue", "users"} /\ run'.call = run.call /\ run'.spec = run.spec
        /\ run'.todo \subseteq run.todo /\ run'.removals = run.removals
        /\ run'.step = "issue" => run'.at = run.at
    <3>1. CASE run' \in {UserOk(run.at), UserFailed(run.at)}
      BY <1>0, <3>1, DoneFields
    <3>2. CASE run' = [run EXCEPT !.step = "issue"]
      BY <1>0, <3>2 DEF RunRecord
    <3> QED BY <2>2, <3>1, <3>2
  <2> QED BY <1>0, <2>1, <2>3, <2>4 DEF RunGoes
<1>4. CASE IssueKey
  <2>1. /\ run.step = "issue" /\ run.at \in Names /\ run.at \in Listed(run.spec) /\ mcp[run.at].account
        /\ run.removals = {}
    BY <1>0, <1>4 DEF IssueKey, RunIsFor, Targets
  <2>2. /\ mcp' = mcp \/ mcp' = [mcp EXCEPT ![run.at].key = mcp[run.at].servers]
        /\ run' \in {UserOk(run.at), UserFailed(run.at)}
    BY <1>4 DEF IssueKey
  <2>3. /\ \A m \in Names \ {run.at} : mcp'[m] = mcp[m]
        /\ mcp'[run.at].account = mcp[run.at].account
    <3>1. mcp[run.at] \in McpRecord
      BY <1>0, <2>1
    <3>2. [mcp[run.at] EXCEPT !.key = mcp[run.at].servers].account = mcp[run.at].account
      BY <3>1 DEF McpRecord
    <3>3. mcp' = mcp \/ mcp' = [mcp EXCEPT ![run.at] = [mcp[run.at] EXCEPT !.key = mcp[run.at].servers]]
      BY <1>0, <2>1, <2>2
    <3> QED BY <1>0, <2>1, <3>2, <3>3
  <2>4. /\ run'.step = "users" /\ run'.call = run.call /\ run'.spec = run.spec
        /\ run'.todo \subseteq run.todo /\ run'.removals = run.removals
    BY <1>0, <2>2, DoneFields
  <2> QED BY <1>0, <2>1, <2>3, <2>4 DEF RunGoes
<1>5. CASE Tripwire
  <2>1. run.step = "users" /\ run.spec \in Specs /\ run.clients \in SUBSET Names /\ run.clients # {}
    BY <1>0, <1>5 DEF Tripwire, RunRecord
  <2> DEFINE n == CHOOSE m \in run.clients :
                    \A k \in run.clients : run.spec[m].slot <= run.spec[k].slot
             passed == [run EXCEPT !.clients = @ \ {n}]
             failed == [passed EXCEPT !.failed = @ \cup {n}]
  <2>2. n \in Names
    BY <2>1, NextInOrder
  <2> HIDE DEF n
  <2>3. mcp' = mcp \/ mcp' = KeysDeleted(n)
    BY <1>5 DEF Tripwire, n
  <2>4. \A m \in Names : /\ mcp'[m].account = mcp[m].account
                         /\ mcp'[m].key = NoAccess \/ mcp'[m].key = mcp[m].key
    BY <2>2, <2>3, KeysGone
  <2>5. run' = passed \/ run' = failed
    BY <1>5 DEF Tripwire, n
  <2>6. /\ passed \in RunRecord /\ passed.step = run.step /\ passed.call = run.call /\ passed.spec = run.spec
        /\ passed.todo = run.todo /\ passed.removals = run.removals
    BY <1>0, <2>2 DEF RunRecord
  <2>7. /\ failed.step = run.step /\ failed.call = run.call /\ failed.spec = run.spec
        /\ failed.todo = run.todo /\ failed.removals = run.removals
    BY <2>6 DEF RunRecord
  <2> QED BY <1>0, <2>1, <2>4, <2>5, <2>6, <2>7 DEF RunGoes
<1> QED BY <1>1, <1>2, <1>3, <1>4, <1>5 DEF RunStep

LEMMA RunStepOff ==
  ASSUME PortalInv, NothingHalfDone, RunStep, UNCHANGED portalVars
  PROVE  KeyInv' /\ OffInv' /\ RunInv'
<1>0. TypeInv /\ OffInv /\ QueueWaits /\ KeysHaveAccounts /\ Targets /\ off \subseteq Names
  BY DEF PortalInv, PoolInv, RunInv, TypeInv, TypeOK
<1>1. UNCHANGED <<users, accounts, nextPk, calls, off>>
  BY DEF portalVars
<1>2. RunGoes
  BY <1>0, RunGoesOn DEF NothingHalfDone
<1>3. Listed(run.spec)' = Listed(run.spec)
  BY <1>2 DEF RunGoes, Listed
<1>4. KeyInv' /\ \A d \in Calls : OffKnown(calls[d])'
  BY <1>0, <1>1 DEF PortalInv, KeyInv, KeysGiven, Linked, KeyKnown, Acting, Known, OffInv, OffKnown, Unlisted, Dead
<1>5. \A n \in off' : OffHolds(n)'
  <2>1. \A n \in off : mcp[n].key = NoAccess /\ n \notin Listed(run.spec)
    BY <1>0 DEF OffInv, OffHolds
  <2>2. \A n \in off : mcp'[n].key = NoAccess
    BY <1>0, <1>2, <2>1 DEF RunGoes
  <2> QED BY <1>0, <1>1, <1>3, <2>1, <2>2 DEF OffInv, OffHolds, Unlisted, Known, Dead
<1>6. KeysHaveAccounts'
  BY <1>0, <1>2 DEF KeysHaveAccounts, RunGoes
<1>7. QueueWaits'
  BY <1>0, <1>1, <1>2 DEF QueueWaits, Waits, RunGoes
<1>8. Targets'
  <2>1. Waits(run.call) /\ run.todo \subseteq Listed(run.spec)
    BY <1>0, <1>2 DEF Targets, RunGoes
  <2>2. \A n \in Names : mcp'[n].account => n \in Listed(run.spec) \/ n \in run'.removals
    BY <1>0, <1>2, <2>1 DEF Targets, RunGoes
  <2>3. calls[run.call].op \in {"disable", "remove"} => calls[run.call].name \notin Listed(run.spec)
    BY <1>0, <1>2 DEF Targets, RunGoes
  <2> QED BY <1>1, <1>2, <1>3, <2>1, <2>2, <2>3 DEF Targets, Waits, RunGoes
<1> QED BY <1>4, <1>5, <1>6, <1>7, <1>8 DEF OffInv, RunInv

\* At the end of its run a disable or a remove has reached everything the employee had.
LEMMA FinishRunOff ==
  ASSUME PortalInv, TypeInv', FinishRun
  PROVE  KeyInv' /\ OffInv' /\ RunInv'
<1>0. /\ TypeInv /\ OffInv /\ OneCallEach /\ QueueWaits /\ KeysHaveAccounts /\ Targets /\ off \subseteq Names
      /\ calls \in [Calls -> CallRecord] /\ users \in [Names -> UserRecord \cup {NoUser}]
  BY DEF PortalInv, PoolInv, RunInv, TypeInv, TypeOK
<1> PICK c : c = run.call
  OBVIOUS
<1>1. /\ run # NoRun /\ run.removals = {} /\ run' = NoRun /\ UNCHANGED <<mcp, queue, accounts, nextPk>>
      /\ (Succeed(c) /\ calls[c].clean) \/ Throw(c)
  BY DEF FinishRun, EndRun, RunEnded
<1>2. run.step # "none" /\ c \in Calls /\ calls[c].pc = "waiting"
  BY <1>0, <1>1 DEF TypeInv, RunIsFor, Targets, Waits
<1>3. Return(c) /\ calls' = [calls EXCEPT ![c] = Idle]
  BY <1>1 DEF Succeed, Throw, Return
<1>4. \A d \in Calls \ {c} : calls'[d] = calls[d]
  BY <1>0, <1>3
<1>5. \A m \in Names : Same(m)
  <2> SUFFICES ASSUME NEW m \in Names PROVE Same(m)
    OBVIOUS
  <2>1. \/ users'[m] = users[m]
        \/ Known(m) /\ users'[m] \in {[users[m] EXCEPT !.prov = "failed"], [users[m] EXCEPT !.prov = "ok"]}
    BY DEF FinishRun
  <2>2. CASE users'[m] = users[m]
    BY <1>1, <2>2 DEF Same, Known, Dead
  <2>3. CASE Known(m) /\ users'[m] \in {[users[m] EXCEPT !.prov = "failed"], [users[m] EXCEPT !.prov = "ok"]}
    <3>1. users[m] \in UserRecord
      BY <1>0, <2>3 DEF Known
    <3>2. /\ users'[m].pk = users[m].pk /\ users'[m].status = users[m].status /\ users'[m].slot = users[m].slot
      BY <2>3, <3>1 DEF UserRecord
    <3>3. users[m].slot # 0 /\ NoUser.slot = 0
      BY <3>1, ProvisionerAssumption DEF UserRecord, NoUser
    <3>4. users'[m] # NoUser
      BY <3>2, <3>3
    <3> QED BY <1>1, <2>3, <3>2, <3>4 DEF Same, Known, Dead
  <2> QED BY <2>1, <2>2, <2>3
<1>6. \A m \in off' : m \in off \/ (m = calls[c].name /\ calls[c].op \in {"disable", "remove"} /\ calls[c].clean)
  BY <1>1 DEF Succeed, Throw
<1>7. ASSUME NEW m \in off' PROVE m \in Names /\ Unlisted(m) /\ Dead(m) /\ mcp[m].key = NoAccess
  <2>1. CASE m \in off
    BY <1>0, <2>1 DEF OffInv, OffHolds
  <2>2. CASE m = calls[c].name /\ calls[c].op \in {"disable", "remove"} /\ calls[c].clean
    <3>1. m \in Names
      BY <1>0, <1>2, <2>2, StageOps DEF AdminOps
    <3>2. OffKnown(calls[c])
      BY <1>0, <1>2 DEF OffInv
    <3>3. Unlisted(m) /\ Dead(m)
      BY <1>2, <2>2, <3>2 DEF OffKnown
    <3>4. m \notin Listed(run.spec) /\ ~mcp[m].account
      BY <1>0, <1>1, <1>2, <2>2, <3>1 DEF Targets
    <3> QED BY <1>0, <3>1, <3>3, <3>4 DEF KeysHaveAccounts
  <2> QED BY <1>6, <2>1, <2>2
<1>8. KeyInv' /\ \A d \in Calls : OffKnown(calls[d])'
  <2>1. KeyKnown(calls[c])' /\ OffKnown(calls[c])'
    BY <1>0, <1>2, <1>3, EndKnows
  <2>2. ASSUME NEW d \in Calls \ {c}, calls[d].op \in AdminOps, calls[d].name \in off'
        PROVE  calls[d].name \in off
    <3>1. calls[d].name \in Names /\ calls[d].name # NoName /\ calls[d].op # "rotate"
      BY <1>0, <2>2, StageOps, ProvisionerAssumption DEF AdminOps
    <3>2. calls[d].name = calls[c].name => calls[c].op = "rotate"
      BY <1>0, <1>2, <3>1 DEF OneCallEach
    <3> QED BY <1>6, <2>2, <3>2
  <2> QED BY <1>1, <1>2, <1>4, <1>5, <2>1, <2>2, SameKeys
<1>9. \A m \in off' : OffHolds(m)'
  <2>1. Listed(run.spec)' = {}
    BY <1>1 DEF Listed, NoRun
  <2>2. ASSUME NEW m \in off' PROVE Unlisted(m)' /\ Dead(m)'
    BY <1>5, <1>7, <2>2 DEF Same, Unlisted, Known, Dead
  <2> QED BY <1>1, <1>7, <2>1, <2>2 DEF OffHolds
<1>10. KeysHaveAccounts'
  BY <1>0, <1>1 DEF KeysHaveAccounts
<1>11. Targets'
  BY <1>1 DEF Targets, NoRun
<1>12. QueueWaits'
  <2>1. run'.call \notin Calls
    BY <1>1, ProvisionerAssumption DEF NoRun
  <2>2. \A i \in 1..Len(queue) : queue[i].call \in Calls /\ calls[queue[i].call].pc = "waiting" /\ queue[i].call # c
    BY <1>0 DEF QueueWaits, Waits
  <2> QED BY <1>0, <1>1, <1>4, <2>1, <2>2 DEF QueueWaits, Waits
<1> QED BY <1>8, <1>9, <1>10, <1>11, <1>12 DEF OffInv, RunInv

\* A step that touches no operation and leaves every employee as the invariant sees them.
LEMMA SameOff ==
  ASSUME PortalInv, UNCHANGED <<nextPk, off, calls, provisionerVars>>, \A m \in Names : Same(m)
  PROVE  KeyInv' /\ OffInv' /\ RunInv'
<1>0. off \subseteq Names /\ UNCHANGED <<queue, run, mcp>>
  BY DEF PortalInv, PoolInv, TypeInv, TypeOK, provisionerVars
<1>1. KeyInv' /\ \A d \in Calls : OffKnown(calls[d])'
  BY SameKeys
<1>2. \A m \in off' : OffHolds(m)'
  <2>1. \A m \in off' : Unlisted(m)' /\ Dead(m)'
    BY <1>0, UntouchedOff
  <2> QED BY <1>0, <2>1, OffStill
<1>3. RunInv'
  BY <1>0, RunStill
<1> QED BY <1>1, <1>2, <1>3 DEF OffInv

LEMMA EmployeeOff ==
  ASSUME PortalInv, NEW n \in Names, Activate(n) \/ LogIn(n)
  PROVE  KeyInv' /\ OffInv' /\ RunInv'
<1>0. TypeInv /\ users \in [Names -> UserRecord \cup {NoUser}] /\ accounts \in [Names -> AccountRecord \cup {NoAccount}]
  BY DEF PortalInv, PoolInv, TypeInv, TypeOK
<1>1. UNCHANGED <<nextPk, off, calls, provisionerVars>>
  BY DEF Activate, LogIn
<1>2. CASE Activate(n)
  <2>1. users[n] \in UserRecord /\ users[n].status = "invited" /\ accounts' = accounts
    BY <1>0, <1>2 DEF Activate, NoUser
  <2>2. users' = [users EXCEPT ![n] = [[users[n] EXCEPT !.status = "active"] EXCEPT !.visited = TRUE]]
    BY <1>0, <1>2 DEF Activate
  <2>3. PICK u : u = [[users[n] EXCEPT !.status = "active"] EXCEPT !.visited = TRUE]
    OBVIOUS
  <2>4. u.pk = users[n].pk /\ u.status = "active" /\ u.slot = users[n].slot
    BY <2>1, <2>3 DEF UserRecord
  <2>5. users[n].slot # 0 /\ NoUser.slot = 0
    BY <2>1, ProvisionerAssumption DEF UserRecord, NoUser
  <2>6. users'[n] = u /\ \A m \in Names \ {n} : users'[m] = users[m]
    BY <1>0, <2>2, <2>3
  <2>7. users[n] # NoUser /\ users'[n] # NoUser
    BY <2>4, <2>5, <2>6
  <2>8. \A m \in Names : Same(m)
    BY <2>1, <2>4, <2>6, <2>7 DEF Same, Known, Dead
  <2> QED BY <1>1, <2>8, SameOff
<1>3. CASE LogIn(n)
  <2>1. accounts[n] \in AccountRecord /\ accounts[n].active /\ users' = users
    BY <1>0, <1>3 DEF LogIn, NoAccount
  <2>2. accounts' = [accounts EXCEPT ![n] = [accounts[n] EXCEPT !.web = accounts[n].groups]]
    BY <1>0, <1>3 DEF LogIn
  <2>3. /\ [accounts[n] EXCEPT !.web = accounts[n].groups].pk = accounts[n].pk
    BY <2>1 DEF AccountRecord
  <2>4. accounts'[n].pk = accounts[n].pk /\ \A m \in Names \ {n} : accounts'[m] = accounts[m]
    BY <1>0, <2>2, <2>3
  <2>5. \A m \in Names : Same(m)
    BY <2>1, <2>4 DEF Same, Known, Dead
  <2> QED BY <1>1, <2>5, SameOff
<1> QED BY <1>2, <1>3

LEMMA InitOff ==
  ASSUME Init
  PROVE  KeyInv /\ OffInv /\ RunInv
<1>1. \A n \in Names : Staff[n] \in Access \cup {NoAccess}
  BY LifecycleAssumption DEF Specs
<1>2. \A n \in Names : Staff[n] # NoAccess => Staff[n].slot \in Slots /\ Staff[n].slot # 0
  BY <1>1, ProvisionerAssumption DEF Access
<1>3. \A n \in Names : accounts[n].pk = (IF Staff[n] = NoAccess THEN 0 ELSE Staff[n].slot)
                       /\ users[n].pk = accounts[n].pk
  BY DEF Init, NoAccount, NoUser
<1>4. \A s \in Slots \cup {0} : s <= Max(Slots \cup {0}) /\ Max(Slots \cup {0}) \in Nat /\ s \in Nat
  <2>1. Slots \cup {0} \in SUBSET Nat /\ IsFiniteSet(Slots \cup {0}) /\ Slots \cup {0} # {}
    BY ProvisionerAssumption, FS_AddElement
  <2>2. Max(Slots \cup {0}) \in Slots \cup {0} /\ \A s \in Slots \cup {0} : s <= Max(Slots \cup {0})
    BY <2>1, MaxNat
  <2> QED BY <2>1, <2>2
<1>5. KeysGiven
  <2>1. \A n \in Names : accounts[n].pk \in Slots \cup {0}
    BY <1>2, <1>3
  <2>2. nextPk = Max(Slots \cup {0}) + 1
    BY DEF Init
  <2>3. \A n \in Names : accounts[n].pk < nextPk
    BY <1>4, <2>1, <2>2
  <2>4. ASSUME NEW m \in Names, NEW n \in Names, accounts[m].pk = accounts[n].pk, accounts[n].pk # 0 PROVE m = n
    BY <1>3, <2>4, LifecycleAssumption DEF ValidSpec, Listed
  <2> QED BY <2>3, <2>4 DEF KeysGiven
<1>6. \A n \in Names : Linked(n)
  BY <1>3 DEF Linked
<1>7. \A c \in Calls : calls[c].op = "none"
  BY DEF Init, Idle
<1>8. \A c \in Calls : KeyKnown(calls[c]) /\ OffKnown(calls[c])
  BY <1>7 DEF KeyKnown, OffKnown, Acting, AdminOps
<1>9. off = {}
  BY DEF Init
<1>10. KeysHaveAccounts
  BY DEF Init, KeysHaveAccounts
<1>11. Targets
  BY DEF Init, Targets, NoRun
<1>12. QueueWaits
  <2>1. queue = <<>> /\ Len(queue) = 0
    BY DEF Init
  <2>2. 1..Len(queue) = {}
    BY <2>1
  <2> QED BY <2>2 DEF QueueWaits
<1> QED BY <1>5, <1>6, <1>8, <1>9, <1>10, <1>11, <1>12 DEF KeyInv, OffInv, RunInv

LEMMA StepOff ==
  ASSUME PortalInv, NothingHalfDone, [Next]_vars
  PROVE  PortalInv'
<1>0. TypeInv /\ PoolInv /\ ~Overlap
  BY DEF PortalInv, PoolInv, NothingHalfDone
<1>1. TypeInv' /\ PoolInv'
  BY <1>0, StepTyped, StepPool
<1>2. ASSUME NEW c \in Calls, Begin(c) PROVE KeyInv' /\ OffInv' /\ RunInv'
  BY <1>0, <1>1, <1>2, BeginOff
<1>3. ASSUME NEW c \in Calls, Continue(c) PROVE KeyInv' /\ OffInv' /\ RunInv'
  BY <1>1, <1>3, ContinueOff, ProvisionOff
<1>4. CASE Running
  BY <1>1, <1>4, BeginRunOff, RunStepOff, FinishRunOff DEF Running, PortalInv
<1>5. ~Crash
  BY <1>0 DEF Crash, NothingHalfDone, TypeInv, TypeOK
<1>6. CASE UNCHANGED vars
  <2>1. UNCHANGED <<nextPk, off, calls, provisionerVars>> /\ \A m \in Names : Same(m)
    BY <1>6 DEF vars, portalVars, Same, Known, Dead
  <2>2. KeyInv' /\ OffInv' /\ RunInv'
    BY <2>1, SameOff
  <2> QED BY <1>1, <2>2 DEF PortalInv
<1> QED BY <1>1, <1>2, <1>3, <1>4, <1>5, <1>6, EmployeeOff DEF Next, PortalInv

\* After disable or remove has answered with success nothing of that employee works any more, until the
\* next invite or enable (service.ts: disable and remove; metamcp.ts).
THEOREM OffStaysOff == NothingHalfDone => (Spec => []OffMeansOff)
<1> SUFFICES ASSUME NothingHalfDone PROVE Spec => []OffMeansOff
  OBVIOUS
<1>1. Init => PortalInv
  BY InitPool, InitOff DEF PortalInv
<1>2. PortalInv /\ [Next]_vars => PortalInv'
  BY StepOff
<1>3. PortalInv => OffMeansOff
  BY DEF PortalInv, OffInv, OffHolds, Dead, OffMeansOff
<1> QED BY <1>1, <1>2, <1>3, PTL DEF Spec

-----------------------------------------------------------------------------
(* The steps of a run, field by field *)

\* MetaMCP and its database answer: what a run begins it carries out.
RunsWork == {"db", "http"} \cap FaultKinds = {}

\* A step of a run leaves what the run is for, and changes what MetaMCP has of one user.
RunBecomes(step, at, removals, todo, clients, failed) ==
  /\ run'.call = run.call /\ run'.spec = run.spec
  /\ run'.step = step /\ run'.at = at /\ run'.removals = removals /\ run'.todo = todo
  /\ run'.clients = clients /\ run'.failed = failed

McpOf(n, servers, key) ==
  /\ mcp'[n].servers = servers /\ mcp'[n].key = key
  /\ \A m \in Names \ {n} : mcp'[m] = mcp[m]

Removed(n) ==
  /\ n \in run.removals /\ McpOf(n, NoAccess, NoAccess)
  /\ RunBecomes(run.step, run.at, run.removals \ {n}, run.todo, run.clients, run.failed)
  /\ run'.changed = run.changed

ServersSet(n) ==
  /\ run.step = "users" /\ n \in run.todo /\ McpOf(n, run.spec[n], mcp[n].key)
  /\ RunBecomes("keys", n, run.removals, run.todo, run.clients, run.failed)
  /\ run'.changed <=> mcp[n].servers \notin {NoAccess, run.spec[n]}

KeyKept(n) ==
  /\ run.step = "keys" /\ n = run.at /\ mcp[n].key # NoAccess /\ ~run.changed /\ mcp' = mcp
  /\ RunBecomes("users", NoName, run.removals, run.todo \ {n}, run.clients \cup {n}, run.failed)

KeyDropped(n) ==
  /\ run.step = "keys" /\ n = run.at /\ McpOf(n, mcp[n].servers, NoAccess)
  /\ RunBecomes("issue", n, run.removals, run.todo, run.clients, run.failed)

KeyIssued(n) ==
  /\ run.step = "issue" /\ n = run.at /\ McpOf(n, mcp[n].servers, mcp[n].servers)
  /\ RunBecomes("users", NoName, run.removals, run.todo \ {n}, run.clients \cup {n}, run.failed)

Probed(n) ==
  /\ run.step = "users" /\ run.todo = {} /\ n \in run.clients
  /\ \/ /\ mcp[n].key # NoAccess /\ ~Trips(n) /\ mcp' = mcp
        /\ RunBecomes("users", run.at, run.removals, {}, run.clients \ {n}, run.failed)
     \/ /\ mcp[n].key = NoAccess \/ Trips(n)
        /\ McpOf(n, mcp[n].servers, NoAccess)
        /\ RunBecomes("users", run.at, run.removals, {}, run.clients \ {n}, run.failed \cup {n})

\* A key taken away leaves the servers.
LEMMA KeyTaken ==
  ASSUME TypeInv, NEW n \in Names, mcp' = KeysDeleted(n)
  PROVE  McpOf(n, mcp[n].servers, NoAccess)
<1>1. mcp \in [Names -> McpRecord]
  BY DEF TypeInv, TypeOK, ProvisionerTypeOK
<1>2. mcp' = [mcp EXCEPT ![n] = [mcp[n] EXCEPT !.key = NoAccess]]
  BY <1>1 DEF KeysDeleted
<1>3. mcp[n] \in McpRecord
  BY <1>1
<1>4. /\ [mcp[n] EXCEPT !.key = NoAccess].servers = mcp[n].servers
      /\ [mcp[n] EXCEPT !.key = NoAccess].key = NoAccess
  BY <1>3 DEF McpRecord
<1> QED BY <1>1, <1>2, <1>4 DEF McpOf

LEMMA UserOkFields ==
  ASSUME run \in RunRecord, NEW n, run' = UserOk(n)
  PROVE  RunBecomes("users", NoName, run.removals, run.todo \ {n}, run.clients \cup {n}, run.failed)
<1>1. /\ UserDone(n) \in [call : {run.call}, rotate : {run.rotate}, spec : {run.spec},
                          removals : {run.removals}, todo : {run.todo \ {n}}, at : {NoName}, step : {"users"},
                          changed : {FALSE}, clients : {run.clients}, failed : {run.failed}, error : {run.error}]
  BY DEF UserDone, RunRecord
<1> DEFINE ok == [UserDone(n) EXCEPT !.clients = run.clients \cup {n}]
<1>2. /\ ok.step = "users" /\ ok.call = run.call /\ ok.spec = run.spec /\ ok.at = NoName
      /\ ok.todo = run.todo \ {n} /\ ok.removals = run.removals /\ ok.failed = run.failed
      /\ ok.clients = run.clients \cup {n}
  BY <1>1
<1>3. UserOk(n) = ok
  BY <1>1 DEF UserOk
<1> HIDE DEF ok
<1> QED BY <1>2, <1>3 DEF RunBecomes

LEMMA RunSteps ==
  ASSUME TypeInv, RunsWork, RunStep
  PROVE  /\ run.step # "none"
         /\ \E n \in Names : Removed(n) \/ ServersSet(n) \/ KeyKept(n) \/ KeyDropped(n) \/ KeyIssued(n) \/ Probed(n)
<1>0. run \in RunRecord /\ mcp \in [Names -> McpRecord] /\ RunIsFor /\ ~Fails("db") /\ ~Fails("http")
  BY DEF TypeInv, TypeOK, ProvisionerTypeOK, RunsWork, Fails
<1>1. ASSUME NEW n \in Names, RemoveAccount(n) PROVE run.step # "none" /\ Removed(n)
  <2>1. /\ n \in run.removals /\ mcp' = [mcp EXCEPT ![n] = NoMcp]
        /\ run' = [run EXCEPT !.removals = @ \ {n}]
    BY <1>0, <1>1 DEF RemoveAccount
  <2>2. run.step # "none"
    BY <1>0, <2>1 DEF RunIsFor, NoRun
  <2>3. /\ RunBecomes(run.step, run.at, run.removals \ {n}, run.todo, run.clients, run.failed)
        /\ run'.changed = run.changed
    BY <1>0, <2>1 DEF RunRecord, RunBecomes
  <2>4. McpOf(n, NoAccess, NoAccess)
    BY <1>0, <2>1 DEF McpOf, NoMcp
  <2> QED BY <2>1, <2>2, <2>3, <2>4 DEF Removed
<1>2. ASSUME ReconcileServers PROVE run.step # "none" /\ \E n \in Names : ServersSet(n)
  <2>1. run.step = "users" /\ run.spec \in Specs /\ run.todo \in SUBSET Names /\ run.todo # {}
    BY <1>0, <1>2 DEF ReconcileServers, RunRecord
  <2> DEFINE n == NextUser
             changed == mcp[n].servers \notin {NoAccess, run.spec[n]}
  <2>2. n \in run.todo
    BY <2>1, NextInOrder DEF NextUser
  <2>3. /\ mcp' = [mcp EXCEPT ![n].account = TRUE, ![n].servers = run.spec[n]]
        /\ run' = [run EXCEPT !.at = n, !.step = "keys", !.changed = changed]
    BY <1>0, <1>2 DEF ReconcileServers
  <2> HIDE DEF n, changed
  <2>4. /\ RunBecomes("keys", n, run.removals, run.todo, run.clients, run.failed)
        /\ run'.changed = changed
    BY <1>0, <2>3 DEF RunRecord, RunBecomes
  <2>5. McpOf(n, run.spec[n], mcp[n].key)
    <3>1. mcp[n] \in McpRecord /\ n \in Names
      BY <1>0, <2>1, <2>2
    <3>2. mcp' = [mcp EXCEPT ![n] = [[mcp[n] EXCEPT !.account = TRUE] EXCEPT !.servers = run.spec[n]]]
      BY <1>0, <2>3, <3>1
    <3>3. /\ [[mcp[n] EXCEPT !.account = TRUE] EXCEPT !.servers = run.spec[n]].servers = run.spec[n]
          /\ [[mcp[n] EXCEPT !.account = TRUE] EXCEPT !.servers = run.spec[n]].key = mcp[n].key
      BY <3>1 DEF McpRecord
    <3> QED BY <1>0, <3>1, <3>2, <3>3 DEF McpOf
  <2>6. run'.changed <=> mcp[n].servers \notin {NoAccess, run.spec[n]}
    BY <2>4, Zenon DEF changed
  <2>7. n \in Names /\ ServersSet(n)
    BY <2>1, <2>2, <2>4, <2>5, <2>6 DEF ServersSet
  <2> QED BY <2>1, <2>7
<1>3. ASSUME ReconcileKeys PROVE run.step # "none" /\ \E n \in Names : KeyKept(n) \/ KeyDropped(n)
  <2>1. run.step = "keys" /\ run.at \in Names
    BY <1>0, <1>3 DEF ReconcileKeys, RunIsFor
  <2>2. CASE mcp[run.at].key # NoAccess /\ ~Replace /\ run' = UserOk(run.at) /\ UNCHANGED mcp
    <3>1. RunBecomes("users", NoName, run.removals, run.todo \ {run.at}, run.clients \cup {run.at}, run.failed)
      BY <1>0, <2>2, UserOkFields
    <3>2. KeyKept(run.at)
      BY <2>1, <2>2, <3>1 DEF KeyKept, Replace
    <3> QED BY <2>1, <3>2
  <2>3. CASE mcp' = KeysDeleted(run.at) /\ run' = [run EXCEPT !.step = "issue"]
    <3>1. RunBecomes("issue", run.at, run.removals, run.todo, run.clients, run.failed)
      BY <1>0, <2>3 DEF RunRecord, RunBecomes
    <3>2. KeyDropped(run.at)
      BY <2>1, <2>3, <3>1, KeyTaken DEF KeyDropped
    <3> QED BY <2>1, <3>2
  <2> QED BY <1>0, <1>3, <2>2, <2>3 DEF ReconcileKeys
<1>4. ASSUME IssueKey PROVE run.step # "none" /\ \E n \in Names : KeyIssued(n)
  <2> DEFINE n == run.at
  <2>1. run.step = "issue" /\ n \in Names
    BY <1>0, <1>4 DEF IssueKey, RunIsFor
  <2>2. mcp' = [mcp EXCEPT ![n].key = mcp[n].servers] /\ run' = UserOk(n)
    BY <1>0, <1>4 DEF IssueKey
  <2>3. RunBecomes("users", NoName, run.removals, run.todo \ {n}, run.clients \cup {n}, run.failed)
    BY <1>0, <2>2, UserOkFields
  <2>4. McpOf(n, mcp[n].servers, mcp[n].servers)
    <3>1. mcp[n] \in McpRecord
      BY <1>0, <2>1
    <3>2. /\ [mcp[n] EXCEPT !.key = mcp[n].servers].key = mcp[n].servers
          /\ [mcp[n] EXCEPT !.key = mcp[n].servers].servers = mcp[n].servers
      BY <3>1 DEF McpRecord
    <3>3. mcp' = [mcp EXCEPT ![n] = [mcp[n] EXCEPT !.key = mcp[n].servers]]
      BY <1>0, <2>1, <2>2
    <3> QED BY <1>0, <2>1, <3>2, <3>3 DEF McpOf
  <2>5. KeyIssued(n)
    BY <2>1, <2>3, <2>4 DEF KeyIssued
  <2> QED BY <2>1, <2>5
<1>5. ASSUME Tripwire PROVE run.step # "none" /\ \E n \in Names : Probed(n)
  <2>1. run.step = "users" /\ run.todo = {} /\ run.spec \in Specs /\ run.clients \in SUBSET Names /\ run.clients # {}
    BY <1>0, <1>5 DEF Tripwire, RunRecord
  <2> DEFINE n == CHOOSE m \in run.clients :
                    \A k \in run.clients : run.spec[m].slot <= run.spec[k].slot
             passed == [run EXCEPT !.clients = @ \ {n}]
             failed == [passed EXCEPT !.failed = @ \cup {n}]
  <2>2. n \in run.clients /\ n \in Names
    BY <2>1, NextInOrder
  <2>3. \/ mcp[n].key # NoAccess /\ ~Trips(n) /\ run' = passed /\ mcp' = mcp
        \/ mcp[n].key # NoAccess /\ Trips(n) /\ run' = failed /\ mcp' = KeysDeleted(n)
        \/ mcp[n].key = NoAccess /\ run' = failed /\ mcp' = mcp
    BY <1>0, <1>5, Zenon DEF Tripwire
  <2> HIDE DEF n
  <2>4. /\ passed \in RunRecord /\ passed.step = run.step /\ passed.call = run.call /\ passed.spec = run.spec
        /\ passed.todo = run.todo /\ passed.removals = run.removals /\ passed.at = run.at
        /\ passed.clients = run.clients \ {n} /\ passed.failed = run.failed
    BY <1>0, <2>2 DEF RunRecord
  <2>5. /\ failed.step = run.step /\ failed.call = run.call /\ failed.spec = run.spec
        /\ failed.todo = run.todo /\ failed.removals = run.removals /\ failed.at = run.at
        /\ failed.clients = run.clients \ {n} /\ failed.failed = run.failed \cup {n}
    BY <2>4 DEF RunRecord
  <2> HIDE DEF passed, failed
  <2>6. mcp[n].key = NoAccess /\ mcp' = mcp => McpOf(n, mcp[n].servers, NoAccess)
    BY DEF McpOf
  <2>7. mcp' = KeysDeleted(n) => McpOf(n, mcp[n].servers, NoAccess)
    BY <2>2, KeyTaken
  <2>8. run' = passed => RunBecomes("users", run.at, run.removals, {}, run.clients \ {n}, run.failed)
    BY <2>1, <2>4 DEF RunBecomes
  <2>9. run' = failed => RunBecomes("users", run.at, run.removals, {}, run.clients \ {n}, run.failed \cup {n})
    BY <2>1, <2>5 DEF RunBecomes
  <2>10. Probed(n)
    BY <2>1, <2>2, <2>3, <2>6, <2>7, <2>8, <2>9, Zenon DEF Probed
  <2> QED BY <2>1, <2>2, <2>10
<1> QED BY <1>1, <1>2, <1>3, <1>4, <1>5 DEF RunStep

-----------------------------------------------------------------------------
(* Readers of a leaky vault *)

\* How far a run has come: whom it is done with has the servers of its spec, and a key that the
\* tripwire has not looked at yet belongs to one of its clients.
RunWorks ==
  run.step # "none" =>
    /\ run.removals \cap Listed(run.spec) = {}
    /\ run.todo \subseteq Listed(run.spec)
    /\ run.clients \subseteq Listed(run.spec) \ run.todo
    /\ run.step \in {"keys", "issue"} => run.at \in run.todo /\ mcp[run.at].servers = run.spec[run.at]
    /\ \A n \in run.clients : mcp[n].servers = run.spec[n]
    /\ \A n \in Listed(run.spec) \ (run.todo \cup run.failed) :
         mcp[n].servers = run.spec[n] /\ (n \in run.clients \/ ~Trips(n))

InHand(n) == n \in run.clients \/ (run.step \in {"keys", "issue"} /\ run.at = n)

\* A reader's servers come with a key only while the run that set them is not done with the user, and
\* only until its end the portal may still show what an earlier run has left.
CutOff(n) ==
  mcp[n].servers.role = "reader" =>
    /\ mcp[n].key # NoAccess => InHand(n)
    /\ users[n].prov = "ok" => InHand(n) \/ n \in run.failed \cap Listed(run.spec)

CutInv == TypeInv /\ RunWorks /\ \A n \in Names : CutOff(n)

LEMMA RunStarts ==
  ASSUME RunsWork, BeginRun
  PROVE  /\ run = NoRun /\ mcp' = mcp /\ run'.spec = ToUsersJson /\ run'.step = "users" /\ run'.clients = {}
         /\ run'.at = NoName /\ run'.changed = FALSE /\ run'.removals \cap Listed(ToUsersJson) = {}
         /\ \/ run'.todo = Listed(ToUsersJson) /\ run'.failed = {}
            \/ run'.todo = {} /\ run'.failed = Listed(ToUsersJson)
         /\ ValidSpec(ToUsersJson) => run'.todo = Listed(ToUsersJson) /\ run'.failed = {}
<1> DEFINE spec == ToUsersJson
           listed == Listed(ToUsersJson)
           gone == {n \in Names : mcp[n].account /\ n \notin Listed(ToUsersJson)}
           fresh == [NoRun EXCEPT !.call = Head(queue).call, !.rotate = Head(queue).rotate,
                                  !.spec = ToUsersJson, !.step = "users"]
<1>1. /\ run = NoRun /\ mcp' = mcp
      /\ run' = IF ValidSpec(ToUsersJson) THEN [fresh EXCEPT !.todo = listed, !.removals = gone]
                ELSE [fresh EXCEPT !.failed = listed, !.error = TRUE]
  BY DEF BeginRun, StartRun, RunsWork, Fails
<1>2. gone \cap listed = {}
  OBVIOUS
<1>3. spec = ToUsersJson /\ listed = Listed(ToUsersJson)
  OBVIOUS
<1>0. fresh = [NoRun EXCEPT !.call = Head(queue).call, !.rotate = Head(queue).rotate,
                            !.spec = spec, !.step = "users"]
  OBVIOUS
<1> HIDE DEF spec, listed, gone, fresh
<1>4. fresh = [call |-> Head(queue).call, rotate |-> Head(queue).rotate, spec |-> spec,
               removals |-> {}, todo |-> {}, at |-> NoName, step |-> "users", changed |-> FALSE,
               clients |-> {}, failed |-> {}, error |-> FALSE]
  BY <1>0 DEF NoRun
<1>5. CASE ValidSpec(ToUsersJson)
  <2>1. run' = [fresh EXCEPT !.todo = listed, !.removals = gone]
    BY <1>1, <1>5
  <2>2. /\ run'.spec = spec /\ run'.step = "users" /\ run'.clients = {} /\ run'.at = NoName
        /\ run'.changed = FALSE /\ run'.removals = gone /\ run'.todo = listed /\ run'.failed = {}
    BY <1>4, <2>1
  <2> QED BY <1>1, <1>2, <1>3, <2>2
<1>6. CASE ~ValidSpec(ToUsersJson)
  <2>1. run' = [fresh EXCEPT !.failed = listed, !.error = TRUE]
    BY <1>1, <1>6
  <2>2. /\ run'.spec = spec /\ run'.step = "users" /\ run'.clients = {} /\ run'.at = NoName
        /\ run'.changed = FALSE /\ run'.removals = {} /\ run'.todo = {} /\ run'.failed = listed
    BY <1>4, <2>1
  <2> QED BY <1>1, <1>3, <1>6, <2>2
<1> QED BY <1>5, <1>6

LEMMA BeginRunWorks ==
  ASSUME RunsWork, BeginRun
  PROVE  RunWorks'
<1>1. /\ mcp' = mcp /\ run'.spec = ToUsersJson /\ run'.step = "users" /\ run'.clients = {}
      /\ run'.removals \cap Listed(ToUsersJson) = {}
      /\ \/ run'.todo = Listed(ToUsersJson) /\ run'.failed = {}
         \/ run'.todo = {} /\ run'.failed = Listed(ToUsersJson)
  BY RunStarts
<1>2. Listed(run.spec)' = Listed(ToUsersJson)
  BY <1>1 DEF Listed
<1> QED BY <1>1, <1>2 DEF RunWorks

\* A step of a run keeps both, for the users it does not treat and for the one it treats.
LEMMA RunStepWorks ==
  ASSUME TypeInv, RunsWork, RunWorks, RunStep
  PROVE  RunWorks'
<1>1. run.step # "none"
  BY RunSteps
<1> PICK n \in Names : Removed(n) \/ ServersSet(n) \/ KeyKept(n) \/ KeyDropped(n) \/ KeyIssued(n) \/ Probed(n)
  BY RunSteps
<1>2. run'.spec = run.spec
  BY DEF Removed, ServersSet, KeyKept, KeyDropped, KeyIssued, Probed, RunBecomes
<1>3. Listed(run.spec)' = Listed(run.spec) /\ \A m \in Names : Trips(m)' <=> Trips(m)
  BY <1>2 DEF Listed, Trips
<1>4. Listed(run.spec) \subseteq Names
  BY DEF Listed
<1>5. CASE Removed(n)
  BY <1>1, <1>2, <1>3, <1>4, <1>5 DEF Removed, McpOf, RunBecomes, RunWorks
<1>6. CASE ServersSet(n)
  BY <1>1, <1>2, <1>3, <1>4, <1>6 DEF ServersSet, McpOf, RunBecomes, RunWorks
<1>7. CASE KeyKept(n)
  BY <1>1, <1>2, <1>3, <1>4, <1>7 DEF KeyKept, RunBecomes, RunWorks
<1>8. CASE KeyDropped(n)
  BY <1>1, <1>2, <1>3, <1>4, <1>8 DEF KeyDropped, McpOf, RunBecomes, RunWorks
<1>9. CASE KeyIssued(n)
  BY <1>1, <1>2, <1>3, <1>4, <1>9 DEF KeyIssued, McpOf, RunBecomes, RunWorks
<1>10. CASE Probed(n)
  BY <1>1, <1>2, <1>3, <1>4, <1>10 DEF Probed, McpOf, RunBecomes, RunWorks
<1> QED BY <1>5, <1>6, <1>7, <1>8, <1>9, <1>10

LEMMA RunStepCuts ==
  ASSUME TypeInv, RunsWork, LeakyReader, RunWorks, \A m \in Names : CutOff(m), RunStep, users' = users
  PROVE  \A m \in Names : CutOff(m)'
<1>1. run.step # "none"
  BY RunSteps
<1> PICK n \in Names : Removed(n) \/ ServersSet(n) \/ KeyKept(n) \/ KeyDropped(n) \/ KeyIssued(n) \/ Probed(n)
  BY RunSteps
<1>2. run'.spec = run.spec
  BY DEF Removed, ServersSet, KeyKept, KeyDropped, KeyIssued, Probed, RunBecomes
<1>3. Listed(run.spec)' = Listed(run.spec)
  BY <1>2 DEF Listed
<1>4. CASE Removed(n)
  BY <1>2, <1>3, <1>4 DEF Removed, McpOf, RunBecomes, CutOff, InHand, NoAccess
<1>5. CASE ServersSet(n)
  BY <1>2, <1>3, <1>5 DEF ServersSet, McpOf, RunBecomes, CutOff, InHand
<1>6. CASE KeyKept(n)
  BY <1>2, <1>3, <1>6 DEF KeyKept, RunBecomes, CutOff, InHand
<1>7. CASE KeyDropped(n)
  BY <1>2, <1>3, <1>7 DEF KeyDropped, McpOf, RunBecomes, CutOff, InHand
<1>8. CASE KeyIssued(n)
  BY <1>2, <1>3, <1>8 DEF KeyIssued, McpOf, RunBecomes, CutOff, InHand
<1>9. CASE Probed(n)
  <2>1. n \in Listed(run.spec) /\ mcp[n].servers = run.spec[n]
    BY <1>1, <1>9 DEF Probed, RunWorks
  <2>2. mcp[n].servers.role = "reader" => Trips(n)
    BY <2>1 DEF Trips
  <2> QED BY <1>2, <1>3, <1>9, <2>1, <2>2 DEF Probed, McpOf, RunBecomes, CutOff, InHand
<1> QED BY <1>4, <1>5, <1>6, <1>7, <1>8, <1>9

\* What the portal shows of a provisioning is written at the end of a run, and at an invitation.
ProvKept == \A m \in Names : users'[m].prov = "ok" => users[m].prov = "ok"

LEMMA ContinueProv ==
  ASSUME TypeInv, NEW c \in Calls, Continue(c)
  PROVE  ProvKept
<1> DEFINE n == calls[c].name
<1>0. users \in [Names -> UserRecord \cup {NoUser}] /\ NoUser.prov = "none"
  BY DEF TypeInv, TypeOK, NoUser
<1>1. CASE users' = users
  BY <1>1 DEF ProvKept
<1>2. CASE users' = [users EXCEPT ![n] = NoUser]
  BY <1>0, <1>2 DEF ProvKept
<1>3. CASE Known(n) /\ \E role : users' = [users EXCEPT ![n].role = role]
  BY <1>0, <1>3 DEF ProvKept, UserRecord, NoUser
<1>4. CASE Known(n) /\ \E status : users' = [users EXCEPT ![n].status = status]
  BY <1>0, <1>4 DEF ProvKept, UserRecord, NoUser
<1>5. CASE Known(n) /\ \E pk : users' = [users EXCEPT ![n].pk = pk]
  BY <1>0, <1>5 DEF ProvKept, UserRecord, NoUser
<1>6. \/ users' = users \/ users' = [users EXCEPT ![n] = NoUser]
      \/ Known(n) /\ \E role : users' = [users EXCEPT ![n].role = role]
      \/ Known(n) /\ \E status : users' = [users EXCEPT ![n].status = status]
      \/ Known(n) /\ \E pk : users' = [users EXCEPT ![n].pk = pk]
  BY DEF Continue, Revoke, Patch, EnsureUser, SavePk, Rollback, InviteLink, SetGroups, Deactivate, EndSessions,
         DeleteUser, Retire, ActivateAccount, SetStatus, Provision
<1> QED BY <1>1, <1>2, <1>3, <1>4, <1>5, <1>6

LEMMA BeginProv ==
  ASSUME TypeInv, NEW c \in Calls, Begin(c)
  PROVE  ProvKept
<1>0. users \in [Names -> UserRecord \cup {NoUser}]
  BY DEF TypeInv, TypeOK
<1>1. ASSUME NEW n \in Names, NEW role, NEW slot, users' = [users EXCEPT ![n] = Reserved(n, role, slot)]
      PROVE  ProvKept
  BY <1>0, <1>1 DEF ProvKept, Reserved
<1>2. CASE \E n \in Names, role \in Roles : Invite(c, n, role) \/ InviteRestoring(c, n, role)
  BY <1>1, <1>2 DEF Invite, InviteRestoring, Admit
<1>3. CASE users' = users
  BY <1>3 DEF ProvKept
<1> QED BY <1>2, <1>3 DEF Begin, OnUser, Reprovision, ReleaseSlot

LEMMA EmployeeProv ==
  ASSUME TypeInv, NEW n \in Names, Activate(n) \/ LogIn(n)
  PROVE  ProvKept
<1>0. users \in [Names -> UserRecord \cup {NoUser}]
  BY DEF TypeInv, TypeOK
<1>1. CASE users' = users
  BY <1>1 DEF ProvKept
<1>2. CASE users' = [users EXCEPT ![n] = [[users[n] EXCEPT !.status = "active"] EXCEPT !.visited = TRUE]]
  <2>1. [[users[n] EXCEPT !.status = "active"] EXCEPT !.visited = TRUE].prov = users[n].prov
    BY <1>0 DEF UserRecord, NoUser
  <2> QED BY <1>0, <1>2, <2>1 DEF ProvKept
<1>3. Activate(n) => users' = [users EXCEPT ![n] = [[users[n] EXCEPT !.status = "active"] EXCEPT !.visited = TRUE]]
  BY <1>0 DEF Activate
<1> QED BY <1>1, <1>2, <1>3 DEF LogIn

\* Beside a run keys are only taken away.
LEMMA BesideRuns ==
  ASSUME TypeInv, NEW c \in Calls, Begin(c) \/ Continue(c)
  PROVE  /\ run' = run
         /\ mcp' = mcp \/ (calls[c].name \in Names /\ mcp' = KeysDeleted(calls[c].name))
<1>1. CASE Begin(c)
  BY <1>1 DEF Begin, Invite, InviteRestoring, Admit, OnUser, Reprovision, ReleaseSlot, provisionerVars
<1>2. CASE Continue(c)
  <2>1. calls[c].pc = "revoke" => calls[c].name \in Names
    BY StageOps DEF AdminOps
  <2> QED BY <1>2, <2>1 DEF Continue, Revoke, Patch, EnsureUser, SavePk, Rollback, InviteLink, SetGroups, Deactivate,
         EndSessions, DeleteUser, Retire, ActivateAccount, SetStatus, Provision, provisionerVars, At
<1> QED BY <1>1, <1>2

LEMMA ServersStay ==
  ASSUME TypeInv, mcp' = mcp \/ (\E n \in Names : mcp' = KeysDeleted(n))
  PROVE  \A m \in Names : mcp'[m].servers = mcp[m].servers /\ mcp'[m].key \in {NoAccess, mcp[m].key}
<1>1. CASE mcp' = mcp
  BY <1>1
<1>2. ASSUME NEW n \in Names, mcp' = KeysDeleted(n), NEW m \in Names
      PROVE  mcp'[m].servers = mcp[m].servers /\ mcp'[m].key \in {NoAccess, mcp[m].key}
  BY <1>2, KeyTaken DEF McpOf
<1> QED BY <1>1, <1>2

\* Such a step keeps both.
LEMMA BesideWorks ==
  ASSUME RunWorks, run' = run, \A m \in Names : mcp'[m].servers = mcp[m].servers
  PROVE  RunWorks'
<1>1. Listed(run.spec)' = Listed(run.spec) /\ Listed(run.spec) \subseteq Names /\ \A m \in Names : Trips(m)' <=> Trips(m)
  BY DEF Listed, Trips
<1>2. run.step # "none" => run.clients \subseteq Names /\ run.todo \subseteq Names
  BY <1>1 DEF RunWorks
<1> QED BY <1>1, <1>2 DEF RunWorks

LEMMA BesideCuts ==
  ASSUME TypeInv, RunWorks, \A m \in Names : CutOff(m), ProvKept, run' = run,
         mcp' = mcp \/ (\E n \in Names : mcp' = KeysDeleted(n))
  PROVE  RunWorks' /\ \A m \in Names : CutOff(m)'
<1>1. \A m \in Names : mcp'[m].servers = mcp[m].servers /\ mcp'[m].key \in {NoAccess, mcp[m].key}
  BY ServersStay
<1>2. Listed(run.spec)' = Listed(run.spec)
  BY DEF Listed
<1>3. \A m \in Names : CutOff(m)'
  BY <1>1, <1>2 DEF CutOff, InHand, ProvKept
<1> QED BY <1>1, <1>3, BesideWorks

LEMMA FinishWorks ==
  ASSUME FinishRun PROVE RunWorks'
<1>1. run' = NoRun
  BY DEF FinishRun, EndRun
<1> QED BY <1>1 DEF RunWorks, NoRun

\* The end of a run: whoever it was not done with has failed, and the portal shows it.
LEMMA FinishCuts ==
  ASSUME TypeInv, LeakyReader, RunWorks, \A m \in Names : CutOff(m), FinishRun
  PROVE  RunWorks' /\ \A m \in Names : CutOff(m)'
<1>0. run \in RunRecord /\ users \in [Names -> UserRecord \cup {NoUser}] /\ RunIsFor
  BY DEF TypeInv, TypeOK, ProvisionerTypeOK
<1>1. /\ run # NoRun /\ run.step = "users" /\ run.todo = {} /\ run.clients = {} /\ run' = NoRun /\ mcp' = mcp
  BY DEF FinishRun, EndRun, RunEnded
<1>2. RunWorks'
  BY FinishWorks
<1>3. ASSUME NEW m \in Names, mcp[m].servers.role = "reader" PROVE mcp[m].key = NoAccess /\ users'[m].prov # "ok"
  <2>1. mcp[m].key = NoAccess
    BY <1>1, <1>3 DEF CutOff, InHand
  <2>2. CASE m \in Listed(run.spec) /\ Known(m)
    <3>1. m \in run.failed
      <4>1. SUFFICES ASSUME m \notin run.failed PROVE FALSE
        OBVIOUS
      <4>2. mcp[m].servers = run.spec[m] /\ ~Trips(m)
        BY <1>1, <2>2, <4>1 DEF RunWorks
      <4> QED BY <1>3, <4>2 DEF Trips
    <3>2. users'[m] = [users[m] EXCEPT !.prov = "failed"]
      BY <2>2, <3>1 DEF FinishRun
    <3>3. users[m] \in UserRecord
      BY <1>0, <2>2 DEF Known
    <3> QED BY <2>1, <3>2, <3>3 DEF UserRecord
  <2>3. CASE ~(m \in Listed(run.spec) /\ Known(m))
    <3>1. users'[m] = users[m]
      BY <2>3 DEF FinishRun
    <3>2. users[m].prov # "ok"
      <4>1. users[m].prov = "ok" => m \in Listed(run.spec)
        BY <1>1, <1>3 DEF CutOff, InHand
      <4>2. ~Known(m) => users[m].prov # "ok"
        BY DEF Known, NoUser
      <4> QED BY <2>3, <4>1, <4>2
    <3> QED BY <2>1, <3>1, <3>2
  <2> QED BY <2>2, <2>3
<1>4. \A m \in Names : CutOff(m)'
  BY <1>1, <1>3 DEF CutOff
<1> QED BY <1>2, <1>4

LEMMA CutStep ==
  ASSUME CutInv, RunsWork, MaxCrashes = 0, LeakyReader, [Next]_vars
  PROVE  CutInv'
<1>0. TypeInv /\ RunWorks /\ (\A n \in Names : CutOff(n)) /\ TypeInv'
  BY StepTyped DEF CutInv
<1>1. ASSUME NEW c \in Calls, Begin(c) \/ Continue(c) PROVE CutInv'
  <2>1. ProvKept
    BY <1>0, <1>1, BeginProv, ContinueProv
  <2> QED BY <1>0, <1>1, <2>1, BesideRuns, BesideCuts DEF CutInv
<1>2. CASE BeginRun
  <2>1. RunWorks' /\ run = NoRun /\ mcp' = mcp /\ users' = users
    BY <1>2, RunStarts, BeginRunWorks DEF BeginRun, portalVars
  <2>2. NoRun.clients = {} /\ NoRun.step = "none" /\ NoRun.failed = {}
    BY DEF NoRun
  <2>3. ASSUME NEW n \in Names PROVE CutOff(n)'
    <3>1. mcp[n].servers.role = "reader" => mcp[n].key = NoAccess /\ users[n].prov # "ok"
      BY <1>0, <2>1, <2>2 DEF CutOff, InHand
    <3> QED BY <2>1, <3>1 DEF CutOff
  <2> QED BY <1>0, <2>1, <2>3 DEF CutInv
<1>3. CASE RunStep /\ UNCHANGED portalVars
  BY <1>0, <1>3, RunStepWorks, RunStepCuts DEF CutInv, portalVars
<1>4. CASE FinishRun
  BY <1>0, <1>4, FinishCuts DEF CutInv
<1>5. ASSUME NEW n \in Names, Activate(n) \/ LogIn(n) PROVE CutInv'
  <2>1. run' = run /\ mcp' = mcp
    BY <1>5 DEF Activate, LogIn, provisionerVars
  <2> QED BY <1>0, <1>5, <2>1, EmployeeProv, BesideCuts DEF CutInv
<1>6. ~Crash
  BY <1>0 DEF Crash, TypeInv, TypeOK
<1>7. CASE UNCHANGED vars
  <2>1. run' = run /\ mcp' = mcp /\ ProvKept
    BY <1>7 DEF vars, portalVars, provisionerVars, ProvKept
  <2> QED BY <1>0, <2>1, BesideCuts DEF CutInv
<1> QED BY <1>1, <1>2, <1>3, <1>4, <1>5, <1>6, <1>7 DEF Next, Running

\* MetaMCP and its database answer, the portal is not restarted, and the token has always been leaky:
\* nobody was provisioned as a reader before it was.  (Calls to Authentik may fail or lose their answer,
\* and operations on one employee may overlap.)
LeakIsSeen == RunsWork /\ MaxCrashes = 0 /\ (LeakyReader => \A n \in Names : Staff[n].role # "reader")

\* With a token that exposes write tools no reader ends up with a key that works, and the portal shows
\* the failure (the tripwire of metamcp.ts).
THEOREM LeakyReadersStayOut == LeakIsSeen => (Spec => []LeakyReadersCutOff)
<1> SUFFICES ASSUME LeakIsSeen PROVE Spec => []LeakyReadersCutOff
  OBVIOUS
<1>1. CASE ~LeakyReader
  <2>1. LeakyReadersCutOff
    BY <1>1 DEF LeakyReadersCutOff
  <2> QED BY <2>1, PTL
<1>2. CASE LeakyReader
  <2>1. Init => CutInv
    <3> SUFFICES ASSUME Init PROVE CutInv
      OBVIOUS
    <3>1. run = NoRun /\ \A n \in Names : mcp[n].servers = Staff[n]
      BY DEF Init
    <3> QED BY <1>2, <3>1, InitTyped DEF CutInv, RunWorks, CutOff, NoRun, LeakIsSeen
  <2>2. CutInv /\ [Next]_vars => CutInv'
    BY <1>2, CutStep DEF LeakIsSeen
  <2>3. CutInv => LeakyReadersCutOff
    <3> SUFFICES ASSUME CutInv, Quiet, NEW n \in Names, Known(n), users[n].role = "reader",
                        users[n].prov # "pending", mcp[n].servers = AccessOf(users[n])
                 PROVE  mcp[n].key = NoAccess /\ users[n].prov = "failed"
      BY DEF LeakyReadersCutOff
    <3>1. run = NoRun /\ mcp[n].servers.role = "reader"
      BY DEF Quiet, AccessOf
    <3>2. mcp[n].key = NoAccess /\ users[n].prov # "ok"
      BY <3>1 DEF CutInv, CutOff, InHand, NoRun
    <3>3. users[n].prov \in {"pending", "ok", "failed"}
      BY DEF CutInv, TypeInv, TypeOK, Known, UserRecord
    <3> QED BY <3>2, <3>3
  <2> QED BY <2>1, <2>2, <2>3, PTL DEF Spec
<1> QED BY <1>1, <1>2

-----------------------------------------------------------------------------
(* Groups and web sessions *)

\* What an operation read at its start, and the key it got, still fit its employee.
CallCurrent(call) ==
  LET n == call.name
  IN /\ call.clean \/ (call.op \in {"role", "disable"} /\ ~Acting(call))
     /\ call.op = "role" /\ call.u.status # "disabled" /\ call.clean /\ call.pc \in {"sessions", "provision", "waiting"} =>
          /\ users[n].status # "disabled" /\ accounts[n].groups = AccessOf(users[n])
          /\ call.pc # "sessions" => accounts[n].web \in {NoAccess, accounts[n].groups}
     /\ Acting(call) /\ call.pc # "rollback" =>
          /\ call.u.slot = users[n].slot
          /\ call.op # "role" => call.u.role = users[n].role
          /\ call.op = "role" =>
               /\ call.u.status = "disabled" <=> users[n].status = "disabled"
               /\ call.pc \notin {"revoke", "patch"} => call.role = users[n].role
          /\ call.op \in {"invite", "resend"} => users[n].status # "disabled"
          /\ call.op = "enable" =>
               /\ users[n].status = "disabled"
               /\ call.pc # "ensure" => accounts[n].groups = AccessOf(users[n])
          /\ call.pc \in {"link", "groups", "activate"} => call.pk = accounts[n].pk /\ call.pk # 0
     /\ call.op = "enable" /\ ~Acting(call) => users[n].status # "disabled"

\* The groups and the open web sessions of an employee, who may be in the hands of an operation: a role
\* change writes the state first and ends the sessions last, enable changes the account first.
WebOf(n, call) ==
  /\ Known(n) /\ accounts[n] # NoAccount =>
       /\ accounts[n].groups.slot = users[n].slot
       /\ \/ accounts[n].groups = AccessOf(users[n])
          \/ users[n].status = "disabled"
          \/ call.op = "role" /\ call.pc = "ensure"
  /\ \/ accounts[n].web \in {NoAccess, accounts[n].groups}
     \/ call.op = "role" /\ call.pc \in {"savepk", "groups", "sessions"}
  /\ users[n].status = "disabled" =>
       \/ Dead(n)
       \/ call.op \in {"disable", "remove"}
       \/ call.op = "enable" /\ call.pc \in {"savepk", "activate", "status"}

\* Nothing is said of an employee after an error, or while an operation is about to answer with one.
WebUnder(n, call) == n \in erred \/ ~call.clean \/ call.pc = "rollback" \/ WebOf(n, call)

WebKnown(n) ==
  WebUnder(n, Idle) \/ \E c \in Calls : calls[c].name = n /\ calls[c].op \in AdminOps /\ WebUnder(n, calls[c])

WebInv == (\A c \in Calls : CallCurrent(calls[c])) /\ \A n \in Names : WebKnown(n)

WebAll == PortalInv /\ WebInv

\* A step that leaves an employee as this invariant sees them.
Alike(m) ==
  /\ users'[m].slot = users[m].slot /\ users'[m].role = users[m].role
  /\ users'[m].status = "disabled" <=> users[m].status = "disabled"
  /\ users'[m] # NoUser <=> users[m] # NoUser
  /\ accounts'[m] = accounts[m]
  /\ m \in erred => m \in erred'

LEMMA AlikeAccess ==
  ASSUME NEW m, Alike(m)
  PROVE  /\ AccessOf(users[m])' = AccessOf(users[m]) /\ AccessOf(users'[m]) = AccessOf(users[m])
         /\ (Known(m)' <=> Known(m)) /\ (Dead(m)' <=> Dead(m))
         /\ \A call : WebUnder(m, call) => WebUnder(m, call)'
<1>1. /\ AccessOf(users[m])' = AccessOf(users[m]) /\ AccessOf(users'[m]) = AccessOf(users[m])
  BY DEF Alike, AccessOf
<1>2. (Known(m)' <=> Known(m)) /\ (Dead(m)' <=> Dead(m))
  BY DEF Alike, Known, Dead
<1>3. ASSUME NEW call, WebUnder(m, call) PROVE WebUnder(m, call)'
  BY <1>1, <1>2, <1>3 DEF WebUnder, WebOf, Alike
<1> QED BY <1>1, <1>2, <1>3

\* A step of one operation on one employee keeps what the others know.
LEMMA WebKept ==
  ASSUME WebAll, NEW c, NEW n,
         \A m \in Names \ {n} : Alike(m),
         \A d \in Calls \ {c} : calls'[d] = calls[d] /\ (calls[d].op \in AdminOps => calls[d].name # n),
         c \in Calls => (calls[c].op \in AdminOps => calls[c].name = n) /\ CallCurrent(calls[c])',
         n \in Names => WebKnown(n)'
  PROVE  WebInv'
<1>0. TypeInv /\ (\A d \in Calls : CallCurrent(calls[d])) /\ (\A m \in Names : WebKnown(m))
  BY DEF WebAll, PortalInv, PoolInv, WebInv
<1>1. ASSUME NEW d \in Calls \ {c} PROVE CallCurrent(calls[d])'
  <2>1. CASE calls[d].op \in AdminOps
    <3> DEFINE m == calls[d].name
    <3>1. m \in Names \ {n} /\ CallCurrent(calls[d]) /\ calls'[d] = calls[d]
      BY <1>0, <1>1, <2>1, StageOps
    <3>2. Alike(m) /\ AccessOf(users[m])' = AccessOf(users[m])
      BY <3>1, AlikeAccess
    <3> QED BY <3>1, <3>2 DEF CallCurrent, Acting, Alike
  <2>2. CASE calls[d].op \notin AdminOps
    BY <1>0, <1>1, <2>2 DEF CallCurrent, Acting, AdminOps
  <2> QED BY <2>1, <2>2
<1>2. ASSUME NEW m \in Names \ {n} PROVE WebKnown(m)'
  <2>1. Alike(m) /\ WebKnown(m)
    BY <1>0, <1>2
  <2>2. CASE WebUnder(m, Idle)
    BY <2>1, <2>2, AlikeAccess DEF WebKnown
  <2>3. ASSUME NEW d \in Calls, calls[d].name = m, calls[d].op \in AdminOps, WebUnder(m, calls[d]) PROVE WebKnown(m)'
    <3>1. d # c /\ calls'[d] = calls[d]
      BY <1>2, <2>3
    <3>2. WebUnder(m, calls[d])'
      <4>1. PICK call : call = calls[d]
        OBVIOUS
      <4>2. WebUnder(m, call)'
        BY <2>1, <2>3, <4>1, AlikeAccess
      <4> QED BY <3>1, <4>1, <4>2 DEF WebUnder
    <3> QED BY <2>3, <3>1, <3>2 DEF WebKnown
  <2> QED BY <2>1, <2>2, <2>3 DEF WebKnown
<1>3. \A d \in Calls : CallCurrent(calls[d])'
  BY <1>1
<1>4. \A m \in Names : WebKnown(m)'
  BY <1>2
<1> QED BY <1>3, <1>4 DEF WebInv

\* An operation on an employee is the only one, and this is how it finds them.
LEMMA OnlyCall ==
  ASSUME PortalInv, NEW c \in Calls, calls[c].op \in AdminOps
  PROVE  \A d \in Calls \ {c} : calls[d].op \in AdminOps => calls[d].name # calls[c].name
<1>1. TypeInv /\ OneCallEach
  BY DEF PortalInv, PoolInv
<1>2. calls[c].name # NoName
  BY <1>1, StageOps, ProvisionerAssumption
<1> QED BY <1>1, <1>2 DEF OneCallEach, AdminOps

LEMMA FoundBy ==
  ASSUME WebAll, NEW c \in Calls, calls[c].op \in AdminOps
  PROVE  /\ CallCurrent(calls[c]) /\ WebUnder(calls[c].name, calls[c]) /\ calls[c].name \in Names
         /\ Acting(calls[c]) /\ calls[c].pc # "rollback" =>
              calls[c].clean /\ (calls[c].name \in erred \/ WebOf(calls[c].name, calls[c]))
<1> DEFINE n == calls[c].name
<1>1. TypeInv /\ CallCurrent(calls[c]) /\ n \in Names
  BY StageOps DEF WebAll, PortalInv, PoolInv, WebInv
<1>2. WebKnown(n)
  BY <1>1 DEF WebAll, WebInv
<1>3. WebUnder(n, Idle) => WebUnder(n, calls[c])
  BY DEF WebUnder, WebOf, Idle
<1>4. \A d \in Calls : calls[d].name = n /\ calls[d].op \in AdminOps => d = c
  BY OnlyCall DEF WebAll
<1>5. WebUnder(n, calls[c])
  BY <1>1, <1>2, <1>3, <1>4 DEF WebKnown
<1>6. Acting(calls[c]) => calls[c].clean
  BY <1>1 DEF CallCurrent
<1> QED BY <1>1, <1>5, <1>6 DEF WebUnder

\* What a step of an operation has to leave behind.
Leaves(c, n) ==
  /\ CallCurrent(calls[c])' /\ WebUnder(n, calls[c])'
  /\ calls'[c] = Idle \/ (calls'[c].op \in AdminOps /\ calls'[c].name = n)

LEMMA LeavesKnown ==
  ASSUME NEW c \in Calls, NEW n, Leaves(c, n)
  PROVE  CallCurrent(calls[c])' /\ WebKnown(n)'
<1>1. calls'[c] = Idle => WebUnder(n, Idle)'
  BY DEF Leaves, WebUnder, WebOf
<1> QED BY <1>1 DEF Leaves, WebKnown

\* A step that ends an operation on an employee who is not in its hands.
LEMMA EndLeaves ==
  ASSUME TypeInv, NEW c \in Calls, NEW n, Return(c), WebUnder(n, Idle)'
  PROVE  Leaves(c, n)
<1>1. calls'[c] = Idle
  BY DEF TypeInv, TypeOK, Return
<1>2. Idle.op = "none" /\ Idle.pc = "idle" /\ Idle.clean
  BY DEF Idle
<1>3. WebUnder(n, calls[c])'
  BY <1>1 DEF WebUnder, WebOf
<1> QED BY <1>1, <1>2, <1>3 DEF Leaves, CallCurrent, Acting, AdminOps

\* An operation that ends in an error leaves nothing to know.
LEMMA ThrowLeaves ==
  ASSUME TypeInv, NEW c \in Calls, NEW n, n = calls[c].name, Throw(c), calls[c].op \in AdminOps \ {"resend"}
  PROVE  Leaves(c, n)
<1>1. n \in erred' /\ Return(c)
  BY DEF Throw, HalfDone, AdminOps
<1> QED BY <1>1, EndLeaves DEF WebUnder

\* Nor does one that is to be undone, or has noted an error.
LEMMA SpoiltLeaves ==
  ASSUME WebAll, NEW c \in Calls, NEW n, n = calls[c].name, calls[c].op \in AdminOps,
         \/ To(c, "rollback") /\ Acting(calls[c])
         \/ /\ calls' = [calls EXCEPT ![c].pc = "provision", ![c].clean = FALSE]
            /\ calls[c].op \in {"role", "disable"}
  PROVE  Leaves(c, n)
<1>1. TypeInv /\ calls \in [Calls -> CallRecord] /\ CallCurrent(calls[c])
  BY DEF WebAll, PortalInv, PoolInv, TypeInv, TypeOK, WebInv
<1>2. CASE To(c, "rollback") /\ Acting(calls[c])
  <2>1. /\ calls'[c].pc = "rollback" /\ calls'[c].op = calls[c].op /\ calls'[c].name = n
        /\ calls'[c].clean = calls[c].clean
    BY <1>1, <1>2, GoesOn
  <2>2. calls[c].clean
    BY <1>1, <1>2 DEF CallCurrent
  <2> QED BY <2>1, <2>2 DEF Leaves, CallCurrent, Acting, WebUnder
<1>3. CASE /\ calls' = [calls EXCEPT ![c].pc = "provision", ![c].clean = FALSE]
           /\ calls[c].op \in {"role", "disable"}
  <2>1. /\ calls'[c].pc = "provision" /\ calls'[c].op = calls[c].op /\ calls'[c].name = n
        /\ calls'[c].clean = FALSE
    BY <1>1, <1>3 DEF CallRecord
  <2> QED BY <1>3, <2>1 DEF Leaves, CallCurrent, Acting, WebUnder
<1> QED BY <1>2, <1>3

\* disable and a role change note the error, remove stops.
LEMMA StepFailsLeaves ==
  ASSUME WebAll, NEW c \in Calls, NEW n, n = calls[c].name, calls[c].op \in {"role", "disable", "remove"},
         \E done : StepFails(c, done)
  PROVE  Leaves(c, n)
<1>1. TypeInv /\ calls[c].op \in AdminOps
  BY DEF WebAll, PortalInv, PoolInv, AdminOps
<1>2. CASE calls[c].op = "remove"
  BY <1>1, <1>2, ThrowLeaves DEF StepFails
<1>3. CASE calls[c].op # "remove"
  BY <1>1, <1>3, SpoiltLeaves DEF StepFails
<1> QED BY <1>2, <1>3

\* A step of an operation on an employee who is excused already, or whom it leaves as the invariant says.
LEMMA UnderNext ==
  ASSUME NEW n, NEW c, n \in erred => n \in erred', n \notin erred => WebOf(n, calls[c])'
  PROVE  WebUnder(n, calls[c])'
  BY DEF WebUnder

LEMMA RevokeWeb ==
  ASSUME WebAll, NothingHalfDone, NEW c \in Calls, Revoke(c), NEW n, n = calls[c].name
  PROVE  Leaves(c, n)
<1>1. calls[c].pc = "revoke" /\ TypeInv
  BY DEF Revoke, At, WebAll, PortalInv, PoolInv
<1>2. calls[c].op \in {"role", "disable", "remove"} /\ calls[c].op \in AdminOps
  BY <1>1, StageOps DEF AdminOps
<1>3. CallCurrent(calls[c]) /\ calls[c].clean /\ (n \in erred \/ WebOf(n, calls[c]))
  BY <1>1, <1>2, FoundBy DEF Acting
<1>4. To(c, "patch") /\ UNCHANGED <<users, accounts, erred>>
  BY DEF Revoke, NothingHalfDone, Fails
<1>5. /\ calls'[c].pc = "patch" /\ calls'[c].op = calls[c].op /\ calls'[c].name = n /\ calls'[c].u = calls[c].u
      /\ calls'[c].clean = calls[c].clean
  BY <1>1, <1>4, GoesOn
<1>6. CallCurrent(calls[c])'
  BY <1>1, <1>2, <1>3, <1>4, <1>5 DEF CallCurrent, Acting
<1>7. WebUnder(n, calls[c])'
  BY <1>1, <1>2, <1>3, <1>4, <1>5, UnderNext DEF WebOf, Known, Dead, AccessOf
<1> QED BY <1>2, <1>5, <1>6, <1>7 DEF Leaves

LEMMA PatchWeb ==
  ASSUME WebAll, NothingHalfDone, NEW c \in Calls, Patch(c), NEW n, n = calls[c].name
  PROVE  Leaves(c, n)
<1>1. calls[c].pc = "patch" /\ TypeInv /\ PortalInv
  BY DEF Patch, At, WebAll, PortalInv, PoolInv
<1>2. calls[c].op \in {"role", "disable", "remove"} /\ calls[c].op \in AdminOps
  BY <1>1, StageOps DEF AdminOps
<1>3. /\ CallCurrent(calls[c]) /\ calls[c].clean /\ (n \in erred \/ WebOf(n, calls[c])) /\ Known(n) /\ users[n] \in UserRecord /\ n \in Names
      /\ Acting(calls[c])
  BY <1>1, <1>2, FoundBy, ActingFacts DEF Acting
<1> DEFINE call == calls[c]
<1>4. /\ users' = IF call.op = "role" THEN [users EXCEPT ![n].role = call.role]
                  ELSE [users EXCEPT ![n].status = "disabled"]
      /\ To(c, AfterPatch(call)) /\ accounts' = accounts /\ erred' = erred
  BY <1>3 DEF Patch, ToQuietly, CallCurrent
<1>5. /\ users'[n].slot = users[n].slot
      /\ users'[n].role = IF call.op = "role" THEN call.role ELSE users[n].role
      /\ users'[n].status = IF call.op = "role" THEN users[n].status ELSE "disabled"
  BY <1>1, <1>3, <1>4, UsersTyped DEF UserRecord
<1>6. /\ calls'[c].pc = AfterPatch(call) /\ calls'[c].op = call.op /\ calls'[c].name = n
      /\ calls'[c].u = call.u /\ calls'[c].role = call.role /\ calls'[c].clean = call.clean
  BY <1>1, <1>4, GoesOn
<1>7. /\ call.op = "role" => AfterPatch(call) = IF call.u.status = "disabled" THEN "provision" ELSE "ensure"
      /\ call.op = "disable" => AfterPatch(call) = IF call.u.pk = 0 THEN "provision" ELSE "deactivate"
      /\ call.op = "remove" => AfterPatch(call) = IF call.u.pk = 0 THEN "retire" ELSE "deactivate"
  BY DEF AfterPatch
<1>8. CallCurrent(calls[c])'
  BY <1>1, <1>2, <1>3, <1>4, <1>5, <1>6, <1>7 DEF CallCurrent, Acting
<1>9. ASSUME n \notin erred PROVE WebOf(n, calls[c])'
  <2>1. Known(n) /\ accounts[n] # NoAccount => accounts[n].groups.slot = users[n].slot
    BY <1>3, <1>9 DEF WebOf
  <2>2. accounts[n].web \in {NoAccess, accounts[n].groups}
    BY <1>1, <1>3, <1>9 DEF WebOf
  <2>3. CASE call.op = "role"
    <3>1. users[n].status = "disabled" => Dead(n)
      BY <1>3, <1>9, <2>3 DEF WebOf
    <3>2. users[n].status = "disabled" \/ AfterPatch(call) = "ensure"
      BY <1>1, <1>3, <1>7, <2>3 DEF CallCurrent
    <3> QED BY <1>3, <1>4, <1>5, <1>6, <2>1, <2>2, <2>3, <3>1, <3>2 DEF WebOf, Dead
  <2>4. CASE call.op \in {"disable", "remove"}
    BY <1>3, <1>4, <1>5, <1>6, <2>1, <2>2, <2>4 DEF WebOf
  <2> QED BY <1>2, <2>3, <2>4
<1> QED BY <1>2, <1>4, <1>6, <1>8, <1>9, UnderNext DEF Leaves

\* What ensureUser leaves of the groups and the session.
LEMMA EnsuredWeb ==
  ASSUME TypeInv, NEW n \in Names, NEW groups, Ensured(n, groups)
  PROVE  accounts'[n].groups = groups /\ accounts'[n].web = accounts[n].web
<1>1. accounts \in [Names -> AccountRecord \cup {NoAccount}]
  BY DEF TypeInv, TypeOK
<1>2. CASE accounts[n] = NoAccount
  <2> DEFINE fresh == [NoAccount EXCEPT !.pk = nextPk, !.active = TRUE, !.groups = groups]
  <2>1. accounts' = [accounts EXCEPT ![n] = fresh]
    BY <1>2 DEF Ensured
  <2>2. fresh.groups = groups /\ fresh.web = NoAccount.web
    BY DEF NoAccount
  <2> HIDE DEF fresh
  <2> QED BY <1>1, <1>2, <2>1, <2>2
<1>3. CASE accounts[n] # NoAccount
  <2>1. accounts[n] \in AccountRecord
    BY <1>1, <1>3
  <2>2. accounts' = [accounts EXCEPT ![n] = [accounts[n] EXCEPT !.groups = groups]]
    BY <1>1, <1>3 DEF Ensured
  <2>3. /\ [accounts[n] EXCEPT !.groups = groups].groups = groups
        /\ [accounts[n] EXCEPT !.groups = groups].web = accounts[n].web
    BY <2>1 DEF AccountRecord
  <2> QED BY <1>1, <2>2, <2>3
<1> QED BY <1>2, <1>3

LEMMA EnsureWeb ==
  ASSUME WebAll, NothingHalfDone, NEW c \in Calls, EnsureUser(c), NEW n, n = calls[c].name
  PROVE  Leaves(c, n)
<1>1. calls[c].pc = "ensure" /\ TypeInv /\ PortalInv
  BY DEF EnsureUser, At, WebAll, PortalInv, PoolInv
<1>2. calls[c].op \in {"invite", "resend", "role", "enable"} /\ calls[c].op \in AdminOps
  BY <1>1, StageOps DEF AdminOps
<1>3. /\ CallCurrent(calls[c]) /\ calls[c].clean /\ (n \in erred \/ WebOf(n, calls[c])) /\ Known(n)
      /\ users[n] \in UserRecord /\ n \in Names /\ Acting(calls[c]) /\ KeyKnown(calls[c]) /\ users[n].pk = accounts[n].pk
  BY <1>1, <1>2, FoundBy, ActingFacts DEF Acting
<1> DEFINE call == calls[c]
           groups == [slot |-> call.u.slot, role |-> IF call.op = "role" THEN call.role ELSE call.u.role]
<1>4. call.u.slot = users[n].slot /\ groups = AccessOf(users[n])
  BY <1>1, <1>3 DEF CallCurrent, AccessOf
<1>5. \/ /\ Ensured(n, groups) /\ users' = users /\ erred' = erred
         /\ calls' = [calls EXCEPT ![c].pc = "savepk", ![c].pk = accounts'[n].pk]
      \/ OnAuthentikError(c) /\ users' = users /\ accounts' = accounts
  BY DEF EnsureUser, NothingHalfDone, Fails
<1> SUFFICES ASSUME /\ Ensured(n, groups) /\ users' = users /\ erred' = erred
                    /\ calls' = [calls EXCEPT ![c].pc = "savepk", ![c].pk = accounts'[n].pk]
             PROVE  Leaves(c, n)
  <2>1. ASSUME OnAuthentikError(c), users' = users, accounts' = accounts PROVE Leaves(c, n)
    <3>1. CASE call.op \in {"invite", "role"}
      <4>1. To(c, "rollback")
        BY <2>1, <3>1 DEF OnAuthentikError, ToQuietly
      <4> QED BY <1>2, <1>3, <4>1, SpoiltLeaves
    <3>2. CASE call.op = "enable"
      <4>1. Throw(c)
        BY <2>1, <3>2 DEF OnAuthentikError
      <4> QED BY <1>1, <1>2, <3>2, <4>1, ThrowLeaves
    <3>3. CASE call.op = "resend"
      <4>1. Throw(c)
        BY <2>1, <3>3 DEF OnAuthentikError
      <4>2. Return(c) /\ erred' = erred
        BY <3>3, <4>1 DEF Throw, HalfDone
      <4>3. n \notin erred => WebOf(n, Idle)'
        BY <1>1, <1>3, <2>1, <3>3 DEF WebOf, Known, Dead, AccessOf
      <4>4. WebUnder(n, Idle)'
        BY <4>2, <4>3 DEF WebUnder
      <4> QED BY <1>1, <4>2, <4>4, EndLeaves
    <3> QED BY <1>2, <3>1, <3>2, <3>3
  <2> QED BY <1>5, <2>1
<1>6. /\ Ensured(n, groups) /\ users' = users /\ erred' = erred
      /\ calls' = [calls EXCEPT ![c].pc = "savepk", ![c].pk = accounts'[n].pk]
  OBVIOUS
<1>7. accounts'[n].groups = groups /\ accounts'[n].web = accounts[n].web
  BY <1>1, <1>3, <1>6, EnsuredWeb
<1>8. /\ calls'[c].pc = "savepk" /\ calls'[c].op = call.op /\ calls'[c].name = n /\ calls'[c].role = call.role
      /\ calls'[c].u = call.u /\ calls'[c].clean = call.clean
  <2>1. calls \in [Calls -> CallRecord]
    BY <1>1 DEF TypeInv, TypeOK
  <2> QED BY <1>6, <2>1 DEF CallRecord
<1>9. AccessOf(users[n])' = AccessOf(users[n])
  BY <1>6 DEF AccessOf
<1>10. CallCurrent(calls[c])'
  <2>1. accounts'[n].groups = AccessOf(users[n])'
    BY <1>4, <1>7, <1>9
  <2> HIDE DEF groups
  <2> QED BY <1>1, <1>2, <1>3, <1>6, <1>8, <2>1 DEF CallCurrent, Acting
<1>11. n \notin erred /\ call.op # "role" => accounts[n].web \in {NoAccess, AccessOf(users[n])}
  <2> SUFFICES ASSUME n \notin erred PROVE call.op # "role" => accounts[n].web \in {NoAccess, AccessOf(users[n])}
    OBVIOUS
  <2>1. CASE call.op = "invite"
    <3>1. accounts[n] = NoAccount
      BY <1>1, <1>3, <2>1, PositiveKeys DEF KeyKnown
    <3> QED BY <3>1 DEF NoAccount
  <2>2. CASE call.op = "resend"
    <3>1. users[n].status # "disabled"
      BY <1>1, <1>3, <2>2 DEF CallCurrent
    <3>2. CASE accounts[n] = NoAccount
      BY <3>2 DEF NoAccount
    <3>3. CASE accounts[n] # NoAccount
      BY <1>3, <2>2, <3>1, <3>3 DEF WebOf
    <3> QED BY <3>2, <3>3
  <2>3. CASE call.op = "enable"
    <3>1. Dead(n)
      BY <1>1, <1>3, <2>3 DEF CallCurrent, WebOf
    <3> QED BY <3>1 DEF Dead
  <2> QED BY <1>2, <2>1, <2>2, <2>3
<1>12. ASSUME n \notin erred PROVE WebOf(n, calls[c])'
  <2>1. groups.slot = users[n].slot
    BY <1>4
  <2>2. accounts'[n].web \in {NoAccess, accounts'[n].groups} \/ call.op = "role"
    BY <1>4, <1>7, <1>11, <1>12
  <2>3. users[n].status = "disabled" => call.op = "enable"
    BY <1>1, <1>2, <1>3, NotOff DEF CallCurrent
  <2> HIDE DEF groups
  <2> QED BY <1>4, <1>6, <1>7, <1>8, <1>9, <2>1, <2>2, <2>3 DEF WebOf, Known
<1> QED BY <1>2, <1>6, <1>8, <1>10, <1>12, UnderNext DEF Leaves

LEMMA SavePkWeb ==
  ASSUME WebAll, NothingHalfDone, NEW c \in Calls, SavePk(c), NEW n, n = calls[c].name
  PROVE  Leaves(c, n)
<1>1. calls[c].pc = "savepk" /\ TypeInv /\ PortalInv
  BY DEF SavePk, At, WebAll, PortalInv, PoolInv
<1>2. calls[c].op \in {"invite", "resend", "role", "enable"} /\ calls[c].op \in AdminOps
  BY <1>1, StageOps DEF AdminOps
<1>3. /\ CallCurrent(calls[c]) /\ calls[c].clean /\ (n \in erred \/ WebOf(n, calls[c])) /\ Known(n) /\ users[n] \in UserRecord /\ n \in Names
      /\ Acting(calls[c]) /\ calls[c].pk = accounts[n].pk /\ accounts[n].pk # 0
  BY <1>1, <1>2, FoundBy, ActingFacts DEF KeyKnown, Acting
<1> DEFINE call == calls[c]
<1>4. /\ users' = users \/ users' = [users EXCEPT ![n].pk = call.pk]
      /\ To(c, AfterEnsure(call.op)) /\ accounts' = accounts /\ erred' = erred
  BY <1>3 DEF SavePk, ToQuietly
<1>5. users'[n].slot = users[n].slot /\ users'[n].role = users[n].role /\ users'[n].status = users[n].status
  <2>1. users \in [Names -> UserRecord \cup {NoUser}]
    BY <1>1 DEF TypeInv, TypeOK
  <2> QED BY <1>3, <1>4, <2>1 DEF UserRecord
<1>6. /\ calls'[c].pc = AfterEnsure(call.op) /\ calls'[c].op = call.op /\ calls'[c].name = n
      /\ calls'[c].u = call.u /\ calls'[c].role = call.role /\ calls'[c].clean = call.clean /\ calls'[c].pk = call.pk
  BY <1>1, <1>4, GoesOn
<1>7. /\ call.op \in {"invite", "resend"} => AfterEnsure(call.op) = "link"
      /\ call.op = "role" => AfterEnsure(call.op) = "groups"
      /\ call.op = "enable" => AfterEnsure(call.op) = "activate"
  BY DEF AfterEnsure
<1>8. AccessOf(users[n])' = AccessOf(users[n])
  BY <1>5 DEF AccessOf
<1>9. CallCurrent(calls[c])'
  BY <1>1, <1>2, <1>3, <1>4, <1>5, <1>6, <1>7, <1>8 DEF CallCurrent, Acting
<1>10. WebUnder(n, calls[c])'
  BY <1>1, <1>2, <1>3, <1>4, <1>5, <1>6, <1>7, <1>8, UnderNext DEF WebOf, Dead
<1> QED BY <1>2, <1>6, <1>9, <1>10 DEF Leaves

\* What the calls to Authentik by key leave of the groups and the session of the account.
LEMMA MappedWeb ==
  ASSUME TypeInv, KeysGiven, NEW n \in Names, NEW groups, NEW active \in BOOLEAN
  PROVE  LET pk == accounts[n].pk
         IN /\ accounts[n] # NoAccount => Regrouped(pk, groups)[n].groups = groups
            /\ Regrouped(pk, groups)[n].web = accounts[n].web
            /\ SetActive(pk, active)[n].groups = accounts[n].groups
            /\ SetActive(pk, active)[n].web = accounts[n].web
            /\ LoggedOut(pk)[n].groups = accounts[n].groups
            /\ LoggedOut(pk)[n].web = NoAccess
            /\ Deleted(pk)[n] = NoAccount
            /\ accounts[n] = NoAccount => SetActive(pk, active)[n] = NoAccount /\ LoggedOut(pk)[n] = NoAccount
            /\ SetActive(pk, active)[n] # NoAccount /\ active => SetActive(pk, active)[n].active
<1>1. accounts \in [Names -> AccountRecord \cup {NoAccount}]
  BY DEF TypeInv, TypeOK
<1>2. CASE accounts[n] = NoAccount
  <2>1. Account(accounts[n].pk) = {}
    BY <1>2, AccountOf
  <2>2. NoAccount.web = NoAccess
    BY DEF NoAccount
  <2> QED BY <1>2, <2>1, <2>2 DEF Regrouped, SetActive, LoggedOut, Deleted
<1>3. CASE accounts[n] # NoAccount
  <2>1. Account(accounts[n].pk) = {n} /\ accounts[n] \in AccountRecord
    BY <1>1, <1>3, AccountOf
  <2>2. /\ Regrouped(accounts[n].pk, groups)[n] = [accounts[n] EXCEPT !.groups = groups]
        /\ SetActive(accounts[n].pk, active)[n] = [accounts[n] EXCEPT !.active = active]
        /\ LoggedOut(accounts[n].pk)[n] = [accounts[n] EXCEPT !.web = NoAccess]
        /\ Deleted(accounts[n].pk)[n] = NoAccount
    BY <2>1 DEF Regrouped, SetActive, LoggedOut, Deleted
  <2>3. /\ [accounts[n] EXCEPT !.groups = groups].groups = groups
        /\ [accounts[n] EXCEPT !.groups = groups].web = accounts[n].web
        /\ [accounts[n] EXCEPT !.active = active].groups = accounts[n].groups
        /\ [accounts[n] EXCEPT !.active = active].web = accounts[n].web
        /\ [accounts[n] EXCEPT !.active = active].active = active
        /\ [accounts[n] EXCEPT !.web = NoAccess].groups = accounts[n].groups
        /\ [accounts[n] EXCEPT !.web = NoAccess].web = NoAccess
    BY <2>1 DEF AccountRecord
  <2> QED BY <1>3, <2>2, <2>3
<1> QED BY <1>2, <1>3

\* What every operation relies on before its step.
LEMMA ActingWeb ==
  ASSUME WebAll, NEW c \in Calls, calls[c].pc \notin {"idle", "provision", "waiting", "rollback"}, NEW n, n = calls[c].name
  PROVE  /\ PortalInv /\ TypeInv /\ KeysGiven /\ CallCurrent(calls[c]) /\ n \in Names
         /\ calls[c].clean /\ (n \in erred \/ WebOf(n, calls[c]))
         /\ Acting(calls[c]) /\ calls[c].op \in AdminOps /\ KeyKnown(calls[c]) /\ OffKnown(calls[c])
         /\ Known(n) /\ users[n] \in UserRecord
         /\ calls[c].pc \notin {"savepk", "retire"} => users[n].pk = accounts[n].pk
<1>1. PortalInv /\ TypeInv /\ KeysGiven
  BY DEF WebAll, PortalInv, PoolInv, KeyInv
<1>2. calls[c].op \in AdminOps
  BY <1>1, StageOps
<1> QED BY <1>1, <1>2, FoundBy, ActingFacts DEF Acting

LEMMA LinkWeb ==
  ASSUME WebAll, NothingHalfDone, NEW c \in Calls, InviteLink(c), NEW n, n = calls[c].name
  PROVE  Leaves(c, n)
<1>1. calls[c].pc = "link"
  BY DEF InviteLink, At
<1>2. /\ TypeInv /\ KeysGiven /\ CallCurrent(calls[c]) /\ calls[c].clean /\ (n \in erred \/ WebOf(n, calls[c]))
      /\ n \in Names /\ Acting(calls[c])
  BY <1>1, ActingWeb
<1>3. calls[c].op \in {"invite", "resend"} /\ calls[c].op \in AdminOps
  BY <1>1, <1>2, StageOps DEF AdminOps
<1>4. /\ UNCHANGED <<users, accounts>> /\ (n \in erred => n \in erred')
      /\ To(c, "provision") \/ Return(c)
  BY <1>3 DEF InviteLink, Succeed, Throw, ToQuietly
<1>5. AccessOf(users[n])' = AccessOf(users[n]) /\ (Known(n)' <=> Known(n)) /\ (Dead(n)' <=> Dead(n))
  BY <1>4 DEF AccessOf, Known, Dead
<1>6. CASE Return(c)
  <2>1. n \notin erred => WebOf(n, Idle)'
    BY <1>1, <1>2, <1>3, <1>4, <1>5 DEF WebOf
  <2> QED BY <1>2, <1>4, <1>6, <2>1, EndLeaves DEF WebUnder
<1>7. CASE To(c, "provision")
  <2>1. /\ calls'[c].pc = "provision" /\ calls'[c].op = calls[c].op /\ calls'[c].name = n
        /\ calls'[c].clean = calls[c].clean
    BY <1>2, <1>7, GoesOn
  <2>2. CallCurrent(calls[c])'
    BY <1>2, <1>3, <2>1 DEF CallCurrent, Acting
  <2>3. WebUnder(n, calls[c])'
    <3>1. n \notin erred => WebOf(n, calls[c])'
      BY <1>1, <1>2, <1>3, <1>4, <1>5, <2>1 DEF WebOf
    <3> QED BY <1>4, <3>1, UnderNext
  <2> QED BY <1>3, <2>1, <2>2, <2>3 DEF Leaves
<1> QED BY <1>4, <1>6, <1>7

LEMMA GroupsWeb ==
  ASSUME WebAll, NothingHalfDone, NEW c \in Calls, SetGroups(c), NEW n, n = calls[c].name
  PROVE  Leaves(c, n)
<1>1. calls[c].pc = "groups"
  BY DEF SetGroups, At
<1>2. /\ TypeInv /\ KeysGiven /\ CallCurrent(calls[c]) /\ calls[c].clean /\ (n \in erred \/ WebOf(n, calls[c]))
      /\ n \in Names /\ Acting(calls[c]) /\ Known(n)
  BY <1>1, ActingWeb
<1>3. calls[c].op = "role" /\ calls[c].op \in AdminOps
  BY <1>1, <1>2, StageOps DEF AdminOps
<1> DEFINE groups == [slot |-> calls[c].u.slot, role |-> calls[c].role]
<1>4. groups = AccessOf(users[n]) /\ calls[c].pk = accounts[n].pk /\ accounts[n].pk # 0
  BY <1>1, <1>2, <1>3 DEF CallCurrent, AccessOf
<1>5. accounts[n] # NoAccount /\ Account(calls[c].pk) # {}
  BY <1>2, <1>4, AccountOf, PositiveKeys
<1>6. \/ UNCHANGED <<users, erred>> /\ accounts' = Regrouped(accounts[n].pk, groups) /\ To(c, "sessions")
      \/ To(c, "rollback")
  BY <1>4, <1>5 DEF SetGroups, Unanswered, NothingHalfDone, Fails, Regrouped
<1> HIDE DEF groups
<1> SUFFICES ASSUME UNCHANGED <<users, erred>>, accounts' = Regrouped(accounts[n].pk, groups), To(c, "sessions")
             PROVE  Leaves(c, n)
  BY <1>2, <1>3, <1>6, SpoiltLeaves
<1>7. accounts'[n].groups = groups
  <2>1. TRUE \in BOOLEAN
    OBVIOUS
  <2> QED BY <1>2, <1>5, <2>1, MappedWeb
<1>8. /\ calls'[c].pc = "sessions" /\ calls'[c].op = "role" /\ calls'[c].name = n /\ calls'[c].u = calls[c].u
      /\ calls'[c].role = calls[c].role /\ calls'[c].clean = calls[c].clean
  BY <1>2, <1>3, GoesOn
<1>9. users[n].status # "disabled"
  BY <1>1, <1>2, <1>3 DEF CallCurrent, OffKnown, WebAll, PortalInv, OffInv
<1>10. AccessOf(users[n])' = AccessOf(users[n]) /\ AccessOf(users[n]).slot = users[n].slot
  BY DEF AccessOf
<1>11. CallCurrent(calls[c])'
  BY <1>1, <1>2, <1>3, <1>4, <1>7, <1>8, <1>9, <1>10 DEF CallCurrent, Acting
<1>12. WebOf(n, calls[c])'
  BY <1>4, <1>7, <1>8, <1>9, <1>10 DEF WebOf
<1> QED BY <1>3, <1>8, <1>11, <1>12, UnderNext DEF Leaves

LEMMA DeactivateWeb ==
  ASSUME WebAll, NothingHalfDone, NEW c \in Calls, Deactivate(c), NEW n, n = calls[c].name
  PROVE  Leaves(c, n)
<1>1. calls[c].pc = "deactivate"
  BY DEF Deactivate, At
<1>2. /\ TypeInv /\ KeysGiven /\ CallCurrent(calls[c]) /\ calls[c].clean /\ (n \in erred \/ WebOf(n, calls[c]))
      /\ n \in Names /\ Acting(calls[c]) /\ Known(n) /\ KeyKnown(calls[c]) /\ users[n].pk = accounts[n].pk
  BY <1>1, ActingWeb
<1>3. calls[c].op \in {"disable", "remove"} /\ calls[c].op \in AdminOps
  BY <1>1, <1>2, StageOps DEF AdminOps
<1>4. calls[c].u.pk = accounts[n].pk
  BY <1>2, <1>3 DEF KeyKnown
<1>5. \/ UNCHANGED <<users, erred>> /\ accounts' = SetActive(accounts[n].pk, FALSE) /\ To(c, "sessions")
      \/ \E done : StepFails(c, done)
  BY <1>4 DEF Deactivate, ToQuietly, SetActive
<1> SUFFICES ASSUME UNCHANGED <<users, erred>>, accounts' = SetActive(accounts[n].pk, FALSE), To(c, "sessions")
             PROVE  Leaves(c, n)
  BY <1>2, <1>3, <1>5, StepFailsLeaves
<1>6. /\ accounts'[n].groups = accounts[n].groups /\ accounts'[n].web = accounts[n].web
      /\ accounts[n] = NoAccount => accounts'[n] = NoAccount
  <2>1. FALSE \in BOOLEAN
    OBVIOUS
  <2> QED BY <1>2, <2>1, MappedWeb
<1>7. /\ calls'[c].pc = "sessions" /\ calls'[c].op = calls[c].op /\ calls'[c].name = n /\ calls'[c].u = calls[c].u
      /\ calls'[c].clean = calls[c].clean
  BY <1>2, GoesOn
<1>8. CallCurrent(calls[c])'
  BY <1>1, <1>2, <1>3, <1>7 DEF CallCurrent, Acting
<1>9. WebUnder(n, calls[c])'
  BY <1>2, <1>3, <1>6, <1>7, UnderNext DEF WebOf, Known, AccessOf
<1> QED BY <1>3, <1>7, <1>8, <1>9 DEF Leaves

LEMMA SessionsWeb ==
  ASSUME WebAll, NothingHalfDone, NEW c \in Calls, EndSessions(c), NEW n, n = calls[c].name
  PROVE  Leaves(c, n)
<1>1. calls[c].pc = "sessions"
  BY DEF EndSessions, At
<1>2. /\ TypeInv /\ KeysGiven /\ CallCurrent(calls[c]) /\ calls[c].clean /\ (n \in erred \/ WebOf(n, calls[c]))
      /\ n \in Names /\ Acting(calls[c]) /\ Known(n) /\ KeyKnown(calls[c]) /\ OffKnown(calls[c])
  BY <1>1, ActingWeb
<1>3. calls[c].op \in {"role", "disable", "remove"} /\ calls[c].op \in AdminOps
  BY <1>1, <1>2, StageOps DEF AdminOps
<1>4. (IF calls[c].op = "role" THEN calls[c].pk ELSE calls[c].u.pk) = accounts[n].pk
  <2>1. calls[c].u.pk = users[n].pk \/ calls[c].op = "role"
    BY <1>2, <1>3 DEF KeyKnown
  <2>2. users[n].pk = accounts[n].pk
    BY <1>1, ActingWeb
  <2> QED BY <1>1, <1>2, <2>1, <2>2 DEF KeyKnown
<1> DEFINE next == IF calls[c].op = "remove" THEN "delete" ELSE "provision"
<1>5. \/ /\ UNCHANGED <<users, erred>> /\ accounts' = LoggedOut(accounts[n].pk)
         /\ To(c, next)
      \/ \E done : StepFails(c, done)
  BY <1>4 DEF EndSessions, ToQuietly, LoggedOut
<1>6. calls[c].op # "remove" => next = "provision"
  OBVIOUS
<1>7. calls[c].op = "remove" => next = "delete"
  OBVIOUS
<1> HIDE DEF next
<1> SUFFICES ASSUME UNCHANGED <<users, erred>>, accounts' = LoggedOut(accounts[n].pk), To(c, next)
             PROVE  Leaves(c, n)
  BY <1>2, <1>3, <1>5, StepFailsLeaves
<1>8. /\ accounts'[n].groups = accounts[n].groups /\ accounts'[n].web = NoAccess
      /\ accounts[n] = NoAccount => accounts'[n] = NoAccount
  <2>1. FALSE \in BOOLEAN
    OBVIOUS
  <2> QED BY <1>2, <2>1, MappedWeb
<1>9. /\ calls'[c].pc = next /\ calls'[c].op = calls[c].op /\ calls'[c].name = n /\ calls'[c].u = calls[c].u
      /\ calls'[c].clean = calls[c].clean
  BY <1>2, GoesOn
<1>10. CallCurrent(calls[c])'
  <2>1. calls[c].op = "role" =>
          /\ users'[n].status # "disabled" /\ accounts'[n].groups = AccessOf(users[n])'
          /\ accounts'[n].web \in {NoAccess, accounts'[n].groups}
    BY <1>1, <1>2, <1>8 DEF CallCurrent, OffKnown, AccessOf
  <2> QED BY <1>1, <1>2, <1>3, <1>9, <1>6, <1>7, <2>1 DEF CallCurrent, Acting
<1>11. WebUnder(n, calls[c])'
  <2>1. calls[c].op = "role" => users[n].status # "disabled"
    BY <1>1, <1>2 DEF CallCurrent, OffKnown
  <2> QED BY <1>1, <1>2, <1>3, <1>8, <1>9, <1>6, <1>7, <2>1, UnderNext DEF WebOf, Known, AccessOf
<1> QED BY <1>3, <1>9, <1>10, <1>11 DEF Leaves

LEMMA DeleteWeb ==
  ASSUME WebAll, NothingHalfDone, NEW c \in Calls, DeleteUser(c), NEW n, n = calls[c].name
  PROVE  Leaves(c, n)
<1>1. calls[c].pc = "delete"
  BY DEF DeleteUser, At
<1>2. /\ TypeInv /\ KeysGiven /\ CallCurrent(calls[c]) /\ n \in Names
      /\ Acting(calls[c]) /\ KeyKnown(calls[c]) /\ users[n].pk = accounts[n].pk
  BY <1>1, ActingWeb
<1>3. calls[c].op = "remove" /\ calls[c].op \in AdminOps
  BY <1>1, <1>2, StageOps DEF AdminOps
<1>4. calls[c].u.pk = accounts[n].pk
  BY <1>2, <1>3 DEF KeyKnown
<1>5. \/ UNCHANGED <<users, erred>> /\ accounts' = Deleted(accounts[n].pk) /\ To(c, "retire")
      \/ \E done : StepFails(c, done)
  BY <1>4 DEF DeleteUser, ToQuietly, Deleted
<1> SUFFICES ASSUME UNCHANGED <<users, erred>>, accounts' = Deleted(accounts[n].pk), To(c, "retire")
             PROVE  Leaves(c, n)
  BY <1>2, <1>3, <1>5, StepFailsLeaves
<1>6. accounts'[n] = NoAccount /\ NoAccount.web = NoAccess
  <2>1. FALSE \in BOOLEAN
    OBVIOUS
  <2> QED BY <1>2, <2>1, MappedWeb DEF NoAccount
<1>7. /\ calls'[c].pc = "retire" /\ calls'[c].op = calls[c].op /\ calls'[c].name = n /\ calls'[c].u = calls[c].u
      /\ calls'[c].clean = calls[c].clean
  BY <1>2, GoesOn
<1>8. CallCurrent(calls[c])'
  BY <1>1, <1>2, <1>3, <1>7 DEF CallCurrent, Acting
<1>9. WebUnder(n, calls[c])'
  BY <1>3, <1>6, <1>7 DEF WebUnder, WebOf
<1> QED BY <1>3, <1>7, <1>8, <1>9 DEF Leaves

LEMMA RetireWeb ==
  ASSUME WebAll, NothingHalfDone, NEW c \in Calls, Retire(c), NEW n, n = calls[c].name
  PROVE  Leaves(c, n)
<1>1. calls[c].pc = "retire"
  BY DEF Retire, At
<1>2. /\ TypeInv /\ CallCurrent(calls[c]) /\ n \in Names /\ KeyKnown(calls[c]) /\ Acting(calls[c])
  BY <1>1, ActingWeb
<1>3. calls[c].op = "remove" /\ calls[c].op \in AdminOps
  BY <1>1, <1>2, StageOps DEF AdminOps
<1>4. users' = [users EXCEPT ![n] = NoUser] /\ accounts' = accounts /\ To(c, "provision")
  BY DEF Retire, ToQuietly
<1>5. users'[n] = NoUser /\ accounts'[n] = NoAccount /\ NoAccount.web = NoAccess
  <2>1. accounts[n].pk = 0
    BY <1>1, <1>2 DEF KeyKnown
  <2> QED BY <1>2, <1>4, <2>1, UsersTyped, PositiveKeys DEF NoAccount
<1>6. /\ calls'[c].pc = "provision" /\ calls'[c].op = calls[c].op /\ calls'[c].name = n /\ calls'[c].clean = calls[c].clean
  BY <1>2, <1>4, GoesOn
<1>7. CallCurrent(calls[c])'
  BY <1>2, <1>3, <1>6 DEF CallCurrent, Acting
<1>8. WebUnder(n, calls[c])'
  BY <1>3, <1>5, <1>6 DEF WebUnder, WebOf
<1> QED BY <1>3, <1>6, <1>7, <1>8 DEF Leaves

LEMMA ActivateWeb ==
  ASSUME WebAll, NothingHalfDone, NEW c \in Calls, ActivateAccount(c), NEW n, n = calls[c].name
  PROVE  Leaves(c, n)
<1>1. calls[c].pc = "activate"
  BY DEF ActivateAccount, At
<1>2. /\ TypeInv /\ KeysGiven /\ CallCurrent(calls[c]) /\ calls[c].clean /\ (n \in erred \/ WebOf(n, calls[c])) /\ n \in Names /\ Acting(calls[c])
  BY <1>1, ActingWeb
<1>3. calls[c].op = "enable" /\ calls[c].op \in AdminOps
  BY <1>1, <1>2, StageOps DEF AdminOps
<1>4. calls[c].pk = accounts[n].pk /\ accounts[n].pk # 0
  BY <1>1, <1>2 DEF CallCurrent
<1>5. accounts[n] # NoAccount /\ Account(calls[c].pk) # {}
  BY <1>2, <1>4, AccountOf, PositiveKeys
<1>6. \/ UNCHANGED <<users, erred>> /\ accounts' = SetActive(accounts[n].pk, TRUE) /\ To(c, "status")
      \/ Throw(c)
  BY <1>4, <1>5 DEF ActivateAccount, ToQuietly, SetActive
<1> SUFFICES ASSUME UNCHANGED <<users, erred>>, accounts' = SetActive(accounts[n].pk, TRUE), To(c, "status")
             PROVE  Leaves(c, n)
  BY <1>2, <1>3, <1>6, ThrowLeaves
<1>7. accounts'[n].groups = accounts[n].groups /\ accounts'[n].web = accounts[n].web
  <2>1. TRUE \in BOOLEAN
    OBVIOUS
  <2> QED BY <1>2, <2>1, MappedWeb
<1>8. /\ calls'[c].pc = "status" /\ calls'[c].op = calls[c].op /\ calls'[c].name = n /\ calls'[c].u = calls[c].u
      /\ calls'[c].clean = calls[c].clean
  BY <1>2, GoesOn
<1>9. AccessOf(users[n])' = AccessOf(users[n])
  BY DEF AccessOf
<1>10. CallCurrent(calls[c])'
  BY <1>1, <1>2, <1>3, <1>7, <1>8, <1>9 DEF CallCurrent, Acting
<1>11. WebUnder(n, calls[c])'
  BY <1>1, <1>2, <1>3, <1>5, <1>7, <1>8, <1>9, UnderNext DEF WebOf, Known
<1> QED BY <1>3, <1>8, <1>10, <1>11 DEF Leaves

LEMMA StatusWeb ==
  ASSUME WebAll, NothingHalfDone, NEW c \in Calls, SetStatus(c), NEW n, n = calls[c].name
  PROVE  Leaves(c, n)
<1>1. calls[c].pc = "status"
  BY DEF SetStatus, At
<1>2. /\ TypeInv /\ CallCurrent(calls[c]) /\ calls[c].clean /\ (n \in erred \/ WebOf(n, calls[c])) /\ n \in Names /\ Acting(calls[c]) /\ Known(n)
      /\ users[n] \in UserRecord
  BY <1>1, ActingWeb
<1>3. calls[c].op = "enable" /\ calls[c].op \in AdminOps
  BY <1>1, <1>2, StageOps DEF AdminOps
<1>4. /\ users' = [users EXCEPT ![n].status = IF users[n].visited THEN "active" ELSE "invited"]
      /\ accounts' = accounts /\ To(c, "provision") /\ erred' = erred
  BY <1>2 DEF SetStatus, ToQuietly
<1>5. users'[n].slot = users[n].slot /\ users'[n].role = users[n].role /\ users'[n].status # "disabled"
  BY <1>2, <1>4, UsersTyped DEF UserRecord
<1>6. /\ calls'[c].pc = "provision" /\ calls'[c].op = calls[c].op /\ calls'[c].name = n /\ calls'[c].clean = calls[c].clean
  BY <1>2, <1>4, GoesOn
<1>7. AccessOf(users[n])' = AccessOf(users[n])
  BY <1>5 DEF AccessOf
<1>8. CallCurrent(calls[c])'
  BY <1>2, <1>3, <1>5, <1>6 DEF CallCurrent, Acting
<1>9. WebUnder(n, calls[c])'
  <2>1. accounts[n].groups = AccessOf(users[n])
    BY <1>1, <1>2, <1>3 DEF CallCurrent
  <2>2. AccessOf(users[n]).slot = users[n].slot
    BY DEF AccessOf
  <2> QED BY <1>1, <1>2, <1>3, <1>4, <1>5, <1>6, <1>7, <2>1, <2>2, UnderNext DEF WebOf
<1> QED BY <1>3, <1>6, <1>8, <1>9 DEF Leaves

LEMMA RollbackWeb ==
  ASSUME WebAll, NEW c \in Calls, Rollback(c), NEW n, n = calls[c].name
  PROVE  Leaves(c, n)
<1>1. TypeInv /\ calls[c].pc = "rollback" /\ Throw(c)
  BY DEF WebAll, PortalInv, PoolInv, Rollback, At
<1>2. calls[c].op \in AdminOps \ {"resend"}
  BY <1>1, StageOps DEF AdminOps
<1> QED BY <1>1, <1>2, ThrowLeaves

\* Only a role change that answers with success takes a name out of "erred".
LEMMA ErredStays ==
  ASSUME TypeInv, NEW c \in Calls, Continue(c)
  PROVE  \A m \in Names : m \in erred => m \in erred'
<1>1. CASE InviteLink(c)
  <2>1. calls[c].op # "role"
    BY <1>1, StageOps DEF InviteLink, At
  <2> QED BY <1>1, <2>1 DEF InviteLink, Succeed, Throw, ToQuietly
<1>2. CASE EnsureUser(c) \/ SavePk(c) \/ Patch(c) \/ Rollback(c) \/ SetStatus(c) \/ ActivateAccount(c)
  BY <1>2 DEF EnsureUser, SavePk, Patch, Rollback, SetStatus, ActivateAccount, OnAuthentikError, Throw, ToQuietly
<1>3. CASE Deactivate(c) \/ EndSessions(c) \/ DeleteUser(c)
  BY <1>3 DEF Deactivate, EndSessions, DeleteUser, StepFails, Throw, ToQuietly
<1>4. CASE Revoke(c) \/ SetGroups(c) \/ Retire(c) \/ Provision(c)
  BY <1>4 DEF Revoke, SetGroups, Retire, Provision, ToQuietly
<1> QED BY <1>1, <1>2, <1>3, <1>4 DEF Continue

LEMMA ContinueWeb ==
  ASSUME WebAll, NothingHalfDone, NEW c \in Calls, Continue(c), ~Provision(c)
  PROVE  WebInv'
<1> PICK n : n = calls[c].name
  OBVIOUS
<1>1. PortalInv /\ TypeInv /\ NothingHalfDone /\ CallCurrent(calls[c])
  BY DEF WebAll, PortalInv, PoolInv, WebInv, NothingHalfDone
<1>2. Effect(c, n) /\ n \in Names /\ Acting(calls[c])
  BY <1>1, ContinueEffect
<1>3. \A d \in Calls \ {c} : calls'[d] = calls[d]
  BY <1>1, ContinueMoves, MovesCalls
<1>4. \A d \in Calls \ {c} : calls[d].op \in AdminOps => calls[d].name # n
  BY <1>1, <1>2, OnlyCall DEF Acting
<1>5. \A m \in Names \ {n} : m \in erred => m \in erred'
  BY <1>1, ErredStays
<1>6. Leaves(c, n)
  BY RollbackWeb, RevokeWeb, PatchWeb, EnsureWeb, SavePkWeb, LinkWeb, GroupsWeb, DeactivateWeb, SessionsWeb, DeleteWeb,
     RetireWeb, ActivateWeb, StatusWeb DEF Continue
<1>7. \A m \in Names \ {n} : Alike(m)
  BY <1>2, <1>5 DEF Effect, Alike
<1> QED BY <1>3, <1>4, <1>6, <1>7, LeavesKnown, WebKept

\* A step that touches no operation, or one that waits, and nobody's access.
LEMMA SameWeb ==
  ASSUME WebAll, calls' = calls, \A m \in Names : Alike(m)
  PROVE  WebInv'
<1> PICK c : c \notin Calls
  BY ProvisionerAssumption
<1> PICK n : n \notin Names
  BY ProvisionerAssumption
<1>1. \A d \in Calls : calls[d].op \in AdminOps => calls[d].name # n
  BY StageOps DEF WebAll, PortalInv, PoolInv
<1> QED BY <1>1, WebKept

LEMMA UntouchedWeb ==
  ASSUME WebAll, users' = users, accounts' = accounts, calls' = calls, erred' = erred
  PROVE  WebInv'
  BY SameWeb DEF Alike

LEMMA ProvisionWeb ==
  ASSUME WebAll, NEW c \in Calls, Provision(c)
  PROVE  WebInv'
<1> PICK call, n : call = calls[c] /\ n = calls[c].name
  OBVIOUS
<1>1. TypeInv /\ calls \in [Calls -> CallRecord] /\ CallCurrent(call) /\ PortalInv
  BY DEF WebAll, PortalInv, PoolInv, TypeInv, TypeOK, WebInv
<1>2. call.pc = "provision" /\ To(c, "waiting") /\ UNCHANGED <<users, accounts, erred>>
  BY DEF Provision, At
<1>3. /\ calls'[c].pc = "waiting" /\ calls'[c].op = call.op /\ calls'[c].name = n /\ calls'[c].clean = call.clean
      /\ calls'[c].u = call.u /\ \A d \in Calls \ {c} : calls'[d] = calls[d]
  BY <1>1, <1>2, GoesOn DEF To
<1>4. CallCurrent(calls[c])'
  BY <1>1, <1>2, <1>3 DEF CallCurrent, Acting, AccessOf
<1>5. \A m \in Names : Alike(m)
  BY <1>2 DEF Alike
<1>6. CASE call.op \in AdminOps
  <2>1. WebUnder(n, call)
    BY <1>6, FoundBy
  <2>2. WebUnder(n, calls[c])'
    BY <1>2, <1>3, <2>1 DEF WebUnder, WebOf, Known, Dead, AccessOf
  <2>3. WebKnown(n)'
    BY <1>3, <1>6, <2>2 DEF WebKnown
  <2>4. \A d \in Calls \ {c} : calls[d].op \in AdminOps => calls[d].name # n
    BY <1>1, <1>6, OnlyCall
  <2> QED BY <1>3, <1>4, <1>5, <2>3, <2>4, WebKept
<1>7. CASE call.op \notin AdminOps
  <2> PICK m : m \notin Names
    BY ProvisionerAssumption
  <2>1. \A d \in Calls : calls[d].op \in AdminOps => calls[d].name # m
    BY <1>1, StageOps
  <2>2. c \in Calls => (calls[c].op \in AdminOps => calls[c].name = m) /\ CallCurrent(calls[c])'
    BY <1>4, <1>7
  <2>3. \A d \in Calls \ {c} : calls'[d] = calls[d] /\ (calls[d].op \in AdminOps => calls[d].name # m)
    BY <1>3, <2>1
  <2>4. (\A x \in Names \ {m} : Alike(x)) /\ (m \in Names => WebKnown(m)')
    BY <1>5
  <2> QED BY <2>2, <2>3, <2>4, WebKept
<1> QED BY <1>6, <1>7

LEMMA AdmitWeb ==
  ASSUME WebAll, NEW c \in Calls, NEW n \in Names, NEW role \in Roles, NEW slot \in Slots,
         NEW former, ~Known(n), calls[c].pc = "idle", begun' \in Nat,
         \A d \in Calls : calls[d].name # n \/ calls[d].op = "rotate",
         Admit(c, n, role, slot, former)
  PROVE  WebInv'
<1>0. TypeInv /\ Linked(n) /\ KeysGiven /\ calls \in [Calls -> CallRecord]
  BY DEF WebAll, PortalInv, PoolInv, KeyInv, TypeInv, TypeOK
<1> DEFINE new == Reserved(n, role, slot)
           call == Opened(c, "invite", n, "ensure")
           q == [call EXCEPT !.role = role, !.u = new, !.former = former]
<1>1. /\ new.slot = slot /\ new.role = role /\ new.status = "invited" /\ new # NoUser
  BY ProvisionerAssumption DEF Reserved, NoUser
<1>2. "ensure" \in StagesOf("invite")
  BY DEF StagesOf
<1>3. call \in CallRecord /\ call.op = "invite" /\ call.pc = "ensure" /\ call.name = n
  BY <1>0, <1>2, OpenedTyped
<1>4. call.clean
  BY DEF Opened, Idle
<1>5. /\ calls' = [calls EXCEPT ![c] = q] /\ users' = [users EXCEPT ![n] = new] /\ accounts' = accounts
      /\ erred' = erred
  BY DEF Admit
<1> HIDE DEF call, new
<1>6. q.op = "invite" /\ q.pc = "ensure" /\ q.name = n /\ q.u = new /\ q.clean
  BY <1>3, <1>4 DEF CallRecord
<1> HIDE DEF q
<1>7. calls'[c] = q /\ (\A d \in Calls \ {c} : calls'[d] = calls[d]) /\ users'[n] = new
      /\ \A m \in Names \ {n} : users'[m] = users[m]
  BY <1>0, <1>5, UsersTyped
<1>8. \A d \in Calls : calls[d].op \in AdminOps => calls[d].name # n
  BY DEF AdminOps
<1>9. accounts[n] = NoAccount
  <2>1. \A d \in Calls : calls[d].pc \in {"savepk", "retire"} => calls[d].name # n
    BY <1>0, <1>8, StageOps
  <2>2. users[n].pk = 0
    BY <1>0, UsersTyped DEF Known
  <2> QED BY <1>0, <2>1, <2>2, PositiveKeys DEF Linked
<1>10. CallCurrent(calls[c])'
  BY <1>1, <1>6, <1>7 DEF CallCurrent, Acting
<1>11. WebKnown(n)'
  BY <1>1, <1>5, <1>7, <1>9 DEF WebKnown, WebUnder, WebOf, NoAccount
<1>12. \A m \in Names \ {n} : Alike(m)
  BY <1>5, <1>7 DEF Alike
<1>13. calls[c].op \notin AdminOps
  BY <1>0, StageOps
<1> QED BY <1>7, <1>8, <1>10, <1>11, <1>12, <1>13, WebKept

LEMMA OnUserWeb ==
  ASSUME WebAll, ~Overlap, NEW c \in Calls, NEW n \in Names, NEW op \in OpsOnUser, OnUser(c, op, n)
  PROVE  WebInv'
<1>0. TypeInv /\ calls \in [Calls -> CallRecord] /\ WebKnown(n)
  BY DEF WebAll, PortalInv, PoolInv, TypeInv, TypeOK, WebInv
<1>1. begun' \in Nat /\ calls[c].pc = "idle" /\ calls[c].op \notin AdminOps
  <2>1. begun' \in Nat
    BY <1>0, BeginsTyped DEF OnUser
  <2>2. calls[c].pc = "idle"
    BY DEF OnUser, Begins, At
  <2> QED BY <1>0, <2>1, <2>2, StageOps
<1>2. FirstStep(op) \in StagesOf(op)
  BY DEF OpsOnUser, FirstStep, StagesOf
<1> DEFINE call == Opened(c, op, n, FirstStep(op))
<1>3. /\ call \in CallRecord /\ call.op = op /\ call.pc = FirstStep(op) /\ call.name = n
      /\ call.u = users[n]
  BY <1>0, <1>1, <1>2, OpenedTyped
<1>4. call.clean
  BY DEF Opened, Idle
<1>5. PICK role : calls' = [calls EXCEPT ![c] = [call EXCEPT !.role = role]]
  BY DEF OnUser
<1> HIDE DEF call
<1> DEFINE q == [call EXCEPT !.role = role]
<1>6. q.op = op /\ q.pc = FirstStep(op) /\ q.name = n /\ q.u = users[n] /\ q.clean
  BY <1>3, <1>4 DEF CallRecord
<1> HIDE DEF q
<1>7. calls'[c] = q /\ (\A d \in Calls \ {c} : calls'[d] = calls[d]) /\ UNCHANGED <<users, accounts, erred>>
  <2>1. calls' = [calls EXCEPT ![c] = q]
    BY <1>5 DEF q
  <2> QED BY <1>0, <2>1 DEF OnUser
<1>8. /\ op \in {"role", "disable", "remove"} => FirstStep(op) = "revoke"
      /\ op \in {"resend", "enable"} => FirstStep(op) = "ensure"
      /\ op = "rotate" => FirstStep(op) = "provision"
  BY DEF FirstStep
<1>9. /\ op = "resend" => users[n].status = "invited"
      /\ op = "enable" => users[n].status = "disabled"
  BY DEF OnUser, Allowed
<1>10. CallCurrent(calls[c])'
  BY <1>6, <1>7, <1>8, <1>9 DEF CallCurrent, Acting, AdminOps, OpsOnUser
<1>11. \A m \in Names : Alike(m)
  BY <1>7 DEF Alike
<1>12. CASE op = "rotate"
  <2> PICK m : m \notin Names
    BY ProvisionerAssumption
  <2>1. \A d \in Calls : calls[d].op \in AdminOps => calls[d].name # m
    BY <1>0, StageOps
  <2> QED BY <1>1, <1>7, <1>10, <1>11, <2>1, WebKept
<1>13. CASE op # "rotate"
  <2>1. \A d \in Calls : calls[d].op \in AdminOps => calls[d].name # n
    BY <1>13, NewCallAlone DEF OnUser, AdminOps
  <2>2. WebKnown(n)'
    <3>1. WebUnder(n, Idle)
      BY <1>0, <2>1 DEF WebKnown
    <3>2. WebUnder(n, Idle)'
      BY <1>11, <3>1, AlikeAccess DEF Idle
    <3> QED BY <3>2 DEF WebKnown
  <2> QED BY <1>1, <1>7, <1>10, <1>11, <2>1, <2>2, WebKept
<1> QED BY <1>12, <1>13

LEMMA BeginWeb ==
  ASSUME WebAll, ~Overlap, NEW c \in Calls, Begin(c)
  PROVE  WebInv'
<1>0. TypeInv /\ calls \in [Calls -> CallRecord]
  BY DEF WebAll, PortalInv, PoolInv, TypeInv, TypeOK
<1>1. CASE \E n \in Names, role \in Roles : Invite(c, n, role) \/ InviteRestoring(c, n, role)
  <2> PICK n \in Names, role \in Roles : Invite(c, n, role) \/ InviteRestoring(c, n, role)
    BY <1>1
  <2>1. ~Known(n) /\ calls[c].pc = "idle"
    BY DEF Invite, InviteRestoring, Begins, At
  <2>2. begun' \in Nat /\ \A d \in Calls : calls[d].name # n \/ calls[d].op = "rotate"
    BY <1>0, BeginsTyped, NewCallAlone DEF Invite, InviteRestoring
  <2>3. \E slot \in Slots : \E former : Admit(c, n, role, slot, former)
    BY <1>0 DEF Invite, InviteRestoring, TypeInv, TypeOK, RetiredRecord
  <2> QED BY <2>1, <2>2, <2>3, AdmitWeb
<1>2. CASE \E n \in Names, op \in OpsOnUser : OnUser(c, op, n)
  BY <1>2, OnUserWeb
<1>3. CASE Reprovision(c)
  <2> DEFINE q == [Idle EXCEPT !.op = "reprovision", !.pc = "provision", !.number = begun']
  <2>1. calls' = [calls EXCEPT ![c] = q] /\ UNCHANGED <<users, accounts, erred>> /\ calls[c].pc = "idle"
    BY <1>3 DEF Reprovision, Begins, At
  <2>2. q.op = "reprovision" /\ q.pc = "provision" /\ q.clean
    BY DEF Idle
  <2> HIDE DEF q
  <2>3. calls'[c] = q /\ \A d \in Calls \ {c} : calls'[d] = calls[d]
    BY <1>0, <2>1
  <2>4. CallCurrent(calls[c])'
    BY <2>2, <2>3 DEF CallCurrent, Acting, AdminOps
  <2>5. \A m \in Names : Alike(m)
    BY <2>1 DEF Alike
  <2> PICK n : n \notin Names
    BY ProvisionerAssumption
  <2>6. \A d \in Calls : calls[d].op \in AdminOps => calls[d].name # n
    BY <1>0, StageOps
  <2>7. calls[c].op \notin AdminOps
    BY <1>0, <2>1, StageOps
  <2> QED BY <2>3, <2>4, <2>5, <2>6, <2>7, WebKept
<1>4. CASE ReleaseSlot(c)
  BY <1>4, UntouchedWeb DEF ReleaseSlot
<1> QED BY <1>1, <1>2, <1>3, <1>4 DEF Begin, OpsOnUser

LEMMA FinishRunWeb ==
  ASSUME WebAll, FinishRun
  PROVE  WebInv'
<1>0. /\ TypeInv /\ OffInv /\ Targets /\ PortalInv /\ RunIsFor
      /\ calls \in [Calls -> CallRecord] /\ users \in [Names -> UserRecord \cup {NoUser}]
  BY DEF WebAll, PortalInv, PoolInv, RunInv, TypeInv, TypeOK
<1> PICK c, n : c = run.call /\ n = calls[c].name
  OBVIOUS
<1>1. run # NoRun /\ accounts' = accounts /\ Return(c)
  BY DEF FinishRun, EndRun, RunEnded, Succeed, Throw
<1>2. c \in Calls /\ calls[c].pc = "waiting"
  BY <1>0, <1>1 DEF RunIsFor, Targets, Waits
<1>3. \A d \in Calls \ {c} : calls'[d] = calls[d]
  BY <1>0, <1>1 DEF Return
<1>4. ASSUME NEW m \in Names
      PROVE  /\ users'[m].slot = users[m].slot /\ users'[m].role = users[m].role /\ users'[m].status = users[m].status
             /\ users'[m] # NoUser <=> users[m] # NoUser
  <2>1. \/ users'[m] = users[m]
        \/ Known(m) /\ users'[m] \in {[users[m] EXCEPT !.prov = "failed"], [users[m] EXCEPT !.prov = "ok"]}
    BY DEF FinishRun
  <2>2. CASE Known(m) /\ users'[m] \in {[users[m] EXCEPT !.prov = "failed"], [users[m] EXCEPT !.prov = "ok"]}
    <3>1. users[m] \in UserRecord
      BY <1>0, <2>2 DEF Known
    <3>2. users'[m].role = users[m].role /\ users'[m].status = users[m].status /\ users'[m].slot = users[m].slot
      BY <2>2, <3>1 DEF UserRecord
    <3>3. users[m].slot # 0 /\ NoUser.slot = 0
      BY <3>1, ProvisionerAssumption DEF UserRecord, NoUser
    <3> QED BY <2>2, <3>2, <3>3 DEF Known
  <2> QED BY <2>1, <2>2
<1>5. ASSUME NEW m \in Names, m # n \/ calls[c].op # "role" PROVE Alike(m)
  <2>1. m \in erred => m \in erred'
    BY <1>1, <1>5 DEF FinishRun, Succeed, Throw
  <2> QED BY <1>1, <1>4, <2>1 DEF Alike
<1>6. CASE calls[c].op \in AdminOps
  <2>1. CallCurrent(calls[c]) /\ WebUnder(n, calls[c]) /\ n \in Names
    BY <1>2, <1>6, FoundBy
  <2>2. OffKnown(calls[c])
    BY <1>0, <1>2 DEF OffInv
  <2>3. AccessOf(users[n])' = AccessOf(users[n]) /\ (Known(n)' <=> Known(n)) /\ (Dead(n)' <=> Dead(n))
    BY <1>1, <1>4, <2>1 DEF AccessOf, Known, Dead
  <2>4. ASSUME n \notin erred' PROVE WebOf(n, Idle)'
    <3>1. calls[c].clean /\ calls[c].op # "rotate"
      BY <1>1, <1>6, <2>1, <2>4 DEF FinishRun, Throw, HalfDone, CallCurrent, AdminOps
    <3>2. CASE calls[c].op = "role" /\ calls[c].u.status # "disabled"
      <4>1. /\ users[n].status # "disabled" /\ accounts[n].groups = AccessOf(users[n])
            /\ accounts[n].web \in {NoAccess, accounts[n].groups}
        BY <1>2, <2>1, <3>1, <3>2 DEF CallCurrent
      <4> QED BY <1>1, <1>4, <2>1, <2>3, <4>1 DEF WebOf, AccessOf
    <3>3. CASE ~(calls[c].op = "role" /\ calls[c].u.status # "disabled")
      <4>1. WebOf(n, calls[c])
        BY <1>1, <1>2, <2>1, <2>4, <3>1, <3>3 DEF WebUnder, FinishRun, Succeed
      <4>2. users[n].status = "disabled" => Dead(n)
        BY <1>2, <2>1, <2>2, <3>1, <4>1 DEF WebOf, OffKnown, CallCurrent, Acting
      <4> QED BY <1>1, <1>2, <1>4, <2>1, <2>3, <4>1, <4>2 DEF WebOf
    <3> QED BY <3>2, <3>3
  <2>5. WebUnder(n, Idle)'
    BY <2>4 DEF WebUnder
  <2>6. Leaves(c, n)
    BY <1>0, <1>1, <1>2, <2>5, EndLeaves
  <2>7. CallCurrent(calls[c])' /\ WebKnown(n)'
    BY <1>2, <2>6, LeavesKnown
  <2>8. \A d \in Calls \ {c} : calls[d].op \in AdminOps => calls[d].name # n
    BY <1>0, <1>2, <1>6, OnlyCall
  <2>9. \A m \in Names \ {n} : Alike(m)
    BY <1>5
  <2> QED BY <1>2, <1>3, <2>7, <2>8, <2>9, WebKept
<1>7. CASE calls[c].op \notin AdminOps
  <2> PICK m : m \notin Names
    BY ProvisionerAssumption
  <2>1. \A d \in Calls : calls[d].op \in AdminOps => calls[d].name # m
    BY <1>0, StageOps
  <2>2. calls'[c] = Idle
    BY <1>0, <1>1, <1>2 DEF Return
  <2>3. CallCurrent(calls[c])'
    BY <2>2 DEF CallCurrent, Acting, AdminOps, Idle
  <2>4. \A k \in Names \ {m} : Alike(k)
    BY <1>5, <1>7 DEF AdminOps
  <2> QED BY <1>3, <1>7, <2>1, <2>3, <2>4, WebKept
<1> QED BY <1>6, <1>7

LEMMA LogInWeb ==
  ASSUME WebAll, NEW n \in Names, LogIn(n)
  PROVE  WebInv'
<1>0. /\ accounts \in [Names -> AccountRecord \cup {NoAccount}]
      /\ (\A d \in Calls : CallCurrent(calls[d])) /\ (\A m \in Names : WebKnown(m))
  BY DEF WebAll, PortalInv, PoolInv, TypeInv, TypeOK, WebInv
<1>1. accounts[n] \in AccountRecord /\ accounts[n].active /\ UNCHANGED <<users, calls, erred>>
  BY <1>0 DEF LogIn, NoAccount
<1> DEFINE open == [accounts[n] EXCEPT !.web = accounts[n].groups]
<1>2. accounts' = [accounts EXCEPT ![n] = open]
  BY <1>0 DEF LogIn
<1>3. /\ open.pk = accounts[n].pk /\ open.groups = accounts[n].groups /\ open.web = accounts[n].groups
      /\ open.active
  BY <1>1 DEF AccountRecord
<1> HIDE DEF open
<1>4. accounts'[n] = open /\ \A m \in Names \ {n} : accounts'[m] = accounts[m]
  BY <1>0, <1>2
<1>5. \A m : AccessOf(users[m])' = AccessOf(users[m])
  BY <1>1 DEF AccessOf
<1>6. ASSUME NEW d \in Calls PROVE CallCurrent(calls[d])'
  <2>1. calls[d].op \in AdminOps => calls[d].name \in Names
    BY StageOps DEF WebAll, PortalInv, PoolInv
  <2>2. \A m \in Names : /\ accounts'[m].pk = accounts[m].pk /\ accounts'[m].groups = accounts[m].groups
                        /\ accounts'[m].web \in {accounts[m].web, accounts[m].groups}
    BY <1>3, <1>4
  <2> PICK call, m : call = calls[d] /\ m = calls[d].name
    OBVIOUS
  <2>3. CallCurrent(call) /\ calls'[d] = call /\ call.name = m
    BY <1>0, <1>1
  <2>4. CASE call.op \in AdminOps
    <3>1. /\ accounts'[m].pk = accounts[m].pk /\ accounts'[m].groups = accounts[m].groups
          /\ accounts'[m].web \in {accounts[m].web, accounts[m].groups}
          /\ users'[m] = users[m] /\ AccessOf(users[m])' = AccessOf(users[m])
      BY <1>1, <1>5, <2>1, <2>2, <2>4
    <3> QED BY <2>3, <3>1 DEF CallCurrent, Acting
  <2>5. CASE call.op \notin AdminOps
    BY <2>3, <2>5 DEF CallCurrent, Acting, AdminOps
  <2> QED BY <2>4, <2>5
<1>7. ASSUME NEW m \in Names, NEW call, WebUnder(m, call) PROVE WebUnder(m, call)'
  <2>1. CASE m = n
    <3>1. accounts[n] # NoAccount
      BY <1>1 DEF NoAccount
    <3> QED BY <1>1, <1>3, <1>4, <1>5, <1>7, <2>1, <3>1 DEF WebUnder, WebOf, Dead, Known
  <2>2. CASE m # n
    <3>1. Alike(m)
      BY <1>1, <1>4, <2>2 DEF Alike
    <3> QED BY <1>7, <3>1, AlikeAccess
  <2> QED BY <2>1, <2>2
<1>8. ASSUME NEW m \in Names PROVE WebKnown(m)'
  <2>1. CASE WebUnder(m, Idle)
    BY <1>7, <2>1 DEF WebKnown, Idle
  <2>2. ASSUME NEW d \in Calls, calls[d].name = m, calls[d].op \in AdminOps, WebUnder(m, calls[d]) PROVE WebKnown(m)'
    <3> PICK call : call = calls[d]
      OBVIOUS
    <3>1. WebUnder(m, call)'
      BY <1>7, <2>2
    <3>2. WebUnder(m, calls[d])'
      BY <1>1, <3>1 DEF WebUnder, WebOf
    <3> QED BY <1>1, <2>2, <3>2 DEF WebKnown
  <2> QED BY <1>0, <2>1, <2>2 DEF WebKnown
<1> QED BY <1>6, <1>8 DEF WebInv

LEMMA FirstVisitWeb ==
  ASSUME WebAll, NEW n \in Names, Activate(n)
  PROVE  WebInv'
<1>0. users \in [Names -> UserRecord \cup {NoUser}]
  BY DEF WebAll, PortalInv, PoolInv, TypeInv, TypeOK
<1>1. users[n] \in UserRecord /\ users[n].status = "invited" /\ UNCHANGED <<accounts, calls, erred>>
  BY <1>0 DEF Activate, NoUser
<1> DEFINE u == [[users[n] EXCEPT !.status = "active"] EXCEPT !.visited = TRUE]
<1>2. users' = [users EXCEPT ![n] = u]
  BY <1>0 DEF Activate
<1>3. u.role = users[n].role /\ u.status = "active" /\ u.slot = users[n].slot
  BY <1>1 DEF UserRecord
<1>4. users[n].slot # 0 /\ NoUser.slot = 0
  BY <1>1, ProvisionerAssumption DEF UserRecord, NoUser
<1> HIDE DEF u
<1>5. users'[n] = u /\ \A m \in Names \ {n} : users'[m] = users[m]
  BY <1>0, <1>2
<1>6. users[n] # NoUser /\ users'[n] # NoUser
  BY <1>3, <1>4, <1>5
<1>7. \A m \in Names : Alike(m)
  BY <1>1, <1>3, <1>5, <1>6 DEF Alike
<1> QED BY <1>1, <1>7, SameWeb

LEMMA InitWeb ==
  ASSUME Init
  PROVE  WebInv
<1>1. \A c \in Calls : calls[c] = Idle
  BY DEF Init
<1>2. \A c \in Calls : CallCurrent(calls[c])
  BY <1>1 DEF CallCurrent, Acting, AdminOps, Idle
<1>3. ASSUME NEW n \in Names PROVE WebOf(n, Idle)
  <2>1. Staff[n] \in Access \cup {NoAccess}
    BY LifecycleAssumption DEF Specs
  <2>2. CASE Staff[n] = NoAccess
    BY <2>2 DEF Init, WebOf, NoAccount, NoUser
  <2>3. CASE Staff[n] # NoAccess
    <3>1. /\ users[n].slot = Staff[n].slot /\ users[n].role = Staff[n].role /\ users[n].status = "active"
          /\ accounts[n].groups = Staff[n] /\ accounts[n].web = NoAccess
      BY <2>3 DEF Init
    <3>2. AccessOf(users[n]) = Staff[n]
      BY <2>1, <2>3, <3>1 DEF AccessOf, Access
    <3> QED BY <3>1, <3>2 DEF WebOf
  <2> QED BY <2>2, <2>3
<1> QED BY <1>2, <1>3 DEF WebInv, WebKnown, WebUnder

LEMMA StepWeb ==
  ASSUME WebAll, NothingHalfDone, [Next]_vars
  PROVE  WebAll'
<1>0. PortalInv /\ NothingHalfDone /\ ~Overlap /\ PortalInv'
  BY StepOff DEF WebAll, NothingHalfDone
<1>1. ASSUME NEW c \in Calls, Begin(c) \/ Continue(c) PROVE WebInv'
  BY <1>0, <1>1, BeginWeb, ContinueWeb, ProvisionWeb
<1>2. ASSUME Running PROVE WebInv'
  <2>1. FinishRun \/ UNCHANGED <<users, accounts, calls, erred>>
    BY <1>2 DEF Running, BeginRun, portalVars
  <2> QED BY <2>1, FinishRunWeb, UntouchedWeb
<1>3. ~Crash
  BY <1>0 DEF Crash, NothingHalfDone, PortalInv, PoolInv, TypeInv, TypeOK
<1>4. ASSUME UNCHANGED vars PROVE WebInv'
  <2>1. UNCHANGED <<users, accounts, calls, erred>>
    BY <1>4 DEF vars, portalVars
  <2> QED BY <2>1, UntouchedWeb
<1> QED BY <1>0, <1>1, <1>2, <1>3, <1>4, LogInWeb, FirstVisitWeb DEF Next, WebAll

\* When everything has settled, the groups in Authentik are those of the user's slot and role, and an
\* open web session carries no other groups than the account has, but for those an operation that answered
\* with an error has left half changed and no role change has mended since (service.ts: the order of the
\* steps of changeRole, its rollback, enable and resend; authentik.ts: ensureUser and setGroups).
THEOREM WebAccessStaysCurrent == NothingHalfDone => (Spec => []WebAccessCurrent)
<1> SUFFICES ASSUME NothingHalfDone PROVE Spec => []WebAccessCurrent
  OBVIOUS
<1>1. Init => WebAll
  BY InitPool, InitOff, InitWeb DEF PortalInv, WebAll
<1>2. WebAll /\ [Next]_vars => WebAll'
  BY StepWeb
<1>3. WebAll => WebAccessCurrent
  <2> SUFFICES ASSUME WebAll, Quiet, NEW n \in Names \ erred
               PROVE  /\ Known(n) /\ users[n].status # "disabled" /\ accounts[n] # NoAccount
                           => accounts[n].groups = AccessOf(users[n])
                      /\ accounts[n].web \in {NoAccess, accounts[n].groups}
    BY DEF WebAccessCurrent
  <2>1. WebUnder(n, Idle)
    BY DEF WebAll, WebInv, WebKnown, Quiet
  <2>2. Idle.clean /\ Idle.pc = "idle" /\ Idle.op = "none"
    BY DEF Idle
  <2> QED BY <2>1, <2>2 DEF WebUnder, WebOf
<1> QED BY <1>1, <1>2, <1>3, PTL DEF Spec

-----------------------------------------------------------------------------
(* Keys match users *)

\* Authentik may refuse a call at any step; the calls of the runs and of the revocation are answered.
RunsAnswered == ~Overlap /\ FaultKinds \subseteq {"authentik"} /\ MaxCrashes = 0

\* Operations that change what an employee may reach; each of them ends with a run that has read its result.
ChangingOps == {"invite", "role", "disable", "enable", "remove"}
Changing(c, n) == c \in Calls /\ calls[c].name = n /\ calls[c].op \in ChangingOps
Busy(n) == \E c \in Calls : Changing(c, n)

\* By an operation the run is not for: that one's run is still to come.
BusyElse(n) == \E c \in Calls : Changing(c, n) /\ c # run.call

\* A key is that of the servers, unless the run is about to replace it.
Keyed(n) == mcp[n].key \in {NoAccess, mcp[n].servers} \/ (run.at = n /\ run.step = "keys" /\ run.changed)

\* An operation on the employee has ended in an error, and the run is not that of the next one.
Spoilt(n) == n \in erred /\ ~Changing(run.call, n)

SpecCurrent(n) == run.step # "none" => run.spec[n] = ToUsersJson[n] \/ BusyElse(n) \/ Spoilt(n)

RunDone(n) ==
  n \in Listed(run.spec) \ (run.todo \cup run.failed) => mcp[n].key # NoAccess \/ BusyElse(n) \/ Spoilt(n)

\* Whoever is shown as provisioned has the servers of the state and a key, unless the run has just taken it
\* away to issue a new one or the portal is about to show the failure.
KeyGood(n) ==
  Known(n) /\ users[n].status # "disabled" /\ users[n].prov = "ok" /\ ~Busy(n) /\ n \notin erred =>
    /\ mcp[n].servers = AccessOf(users[n])
    /\ mcp[n].key # NoAccess \/ (run.step = "issue" /\ run.at = n) \/ n \in run.failed

NoKey(n) ==
  Unlisted(n) =>
    \/ n \in erred
    \/ mcp[n].key = NoAccess /\ n \notin Listed(run.spec)
    \/ \E c \in Calls : calls[c].name = n /\ calls[c].op \in {"disable", "remove"}

KeyState(n) == Keyed(n) /\ SpecCurrent(n) /\ RunDone(n) /\ KeyGood(n) /\ NoKey(n)

KeysAll == WebAll /\ RunWorks /\ \A n \in Names : KeyState(n)

\* The run is for a call that waits.
LEMMA RunWaits ==
  ASSUME PortalInv, NEW c \in Calls, calls[c].pc # "waiting"
  PROVE  c # run.call
<1>1. RunIsFor /\ Targets
  BY DEF PortalInv, PoolInv, TypeInv, RunInv
<1>2. CASE run.step # "none"
  BY <1>1, <1>2 DEF Targets, Waits
<1>3. CASE run.step = "none"
  BY <1>1, <1>3, ProvisionerAssumption DEF RunIsFor, NoRun
<1> QED BY <1>2, <1>3

\* A step beside the run: what it does to an employee whose access it changes is covered by its operation,
\* of the others it changes nothing that a key depends on.
Settled(m) ==
  /\ users'[m].slot = users[m].slot /\ users'[m].role = users[m].role
  /\ users'[m].status = "disabled" <=> users[m].status = "disabled"
  /\ users'[m] # NoUser <=> users[m] # NoUser
  /\ users'[m].prov = users[m].prov
  /\ mcp'[m] = mcp[m]

LEMMA BesideKeys ==
  ASSUME KeysAll, NEW c, c \in Calls => c # run.call, run' = run,
         \A m \in Names : mcp'[m].servers = mcp[m].servers /\ mcp'[m].key \in {NoAccess, mcp[m].key},
         \A d \in Calls \ {c} : calls'[d] = calls[d],
         \A m \in Names : m \in erred => m \in erred',
         \A m \in Names : Changing(c, m) => m \in erred' \/ (Changing(c, m)' /\ calls'[c].op = calls[c].op),
         \A m \in Names : Changing(c, m) \/ Changing(c, m)' \/ Settled(m),
         \A m \in Names : Unlisted(m)' => \/ Unlisted(m) \/ m \in erred'
                                          \/ (Changing(c, m)' /\ calls'[c].op \in {"disable", "remove"})
  PROVE  RunWorks' /\ \A n \in Names : KeyState(n)'
<1>1. RunWorks'
  BY BesideWorks DEF KeysAll
<1>2. ASSUME NEW n \in Names PROVE KeyState(n)'
  <2>0. Keyed(n) /\ SpecCurrent(n) /\ RunDone(n) /\ KeyGood(n) /\ NoKey(n) /\ PortalInv
    BY DEF KeysAll, KeyState, WebAll
  <2>1. Listed(run.spec)' = Listed(run.spec)
    BY DEF Listed
  <2>2. Keyed(n)'
    BY <2>0 DEF Keyed
  <2>3. Changing(run.call, n)' <=> Changing(run.call, n)
    BY DEF Changing
  <2>4. ASSUME Changing(c, n)' PROVE SpecCurrent(n)' /\ RunDone(n)' /\ KeyGood(n)'
    <3>1. c \in Calls /\ Busy(n)' /\ BusyElse(n)'
      BY <2>4 DEF Changing, Busy, BusyElse
    <3> QED BY <3>1 DEF SpecCurrent, RunDone, KeyGood
  <2>5. ASSUME Changing(c, n), ~Changing(c, n)' PROVE SpecCurrent(n)' /\ RunDone(n)' /\ KeyGood(n)'
    <3>1. n \in erred' /\ c \in Calls /\ calls[c].op \in AdminOps /\ calls[c].name = n
      BY <2>5 DEF Changing, ChangingOps, AdminOps
    <3>2. ~Changing(run.call, n)
      <4>1. \A d \in Calls \ {c} : calls[d].op \in AdminOps => calls[d].name # n
        BY <2>0, <3>1, OnlyCall
      <4> QED BY <3>1, <4>1 DEF Changing, ChangingOps, AdminOps
    <3>3. Spoilt(n)'
      BY <2>3, <3>1, <3>2 DEF Spoilt
    <3> QED BY <3>1, <3>3 DEF SpecCurrent, RunDone, KeyGood
  <2>6. ASSUME ~Changing(c, n), ~Changing(c, n)' PROVE SpecCurrent(n)' /\ RunDone(n)' /\ KeyGood(n)'
    <3>1. Settled(n) /\ (n \in erred => n \in erred')
      BY <2>6
    <3>2. \A d \in Calls : Changing(d, n)' <=> Changing(d, n)
      BY <2>6 DEF Changing
    <3>3. (Busy(n)' <=> Busy(n)) /\ (BusyElse(n)' <=> BusyElse(n)) /\ (Spoilt(n) => Spoilt(n)')
      BY <2>3, <3>1, <3>2 DEF Busy, BusyElse, Spoilt
    <3>4. AccessOf(users[n])' = AccessOf(users[n]) /\ AccessOf(users'[n]) = AccessOf(users[n]) /\ (Known(n)' <=> Known(n))
      BY <3>1 DEF Settled, AccessOf, Known
    <3>5. ToUsersJson[n]' = ToUsersJson[n]
      BY <3>1, <3>4 DEF ToUsersJson, Settled
    <3>6. SpecCurrent(n)'
      BY <2>0, <3>3, <3>5 DEF SpecCurrent
    <3>7. RunDone(n)'
      BY <2>0, <2>1, <3>1, <3>3 DEF RunDone, Settled
    <3>8. KeyGood(n)'
      BY <2>0, <3>1, <3>3, <3>4 DEF KeyGood, Settled
    <3> QED BY <3>6, <3>7, <3>8
  <2>7. NoKey(n)'
    <3>1. ASSUME Unlisted(n)', n \notin erred', ~(Changing(c, n)' /\ calls'[c].op \in {"disable", "remove"})
          PROVE  \/ mcp'[n].key = NoAccess /\ n \notin Listed(run.spec)'
                 \/ \E d \in Calls : calls'[d].name = n /\ calls'[d].op \in {"disable", "remove"}
      <4>1. Unlisted(n) /\ n \notin erred
        BY <3>1
      <4>2. ASSUME NEW d \in Calls, calls[d].name = n, calls[d].op \in {"disable", "remove"}
            PROVE  calls'[d].name = n /\ calls'[d].op \in {"disable", "remove"}
        <5>1. d = c => Changing(c, n)
          BY <4>2 DEF Changing, ChangingOps
        <5> QED BY <3>1, <4>2, <5>1 DEF Changing
      <4> QED BY <2>0, <2>1, <4>1, <4>2 DEF NoKey
    <3>2. Changing(c, n)' => c \in Calls /\ calls'[c].name = n
      BY DEF Changing
    <3> QED BY <3>1, <3>2 DEF NoKey
  <2>8. SpecCurrent(n)' /\ RunDone(n)' /\ KeyGood(n)'
    BY <2>4, <2>5, <2>6
  <2> QED BY <2>2, <2>7, <2>8 DEF KeyState
<1> QED BY <1>1, <1>2

\* A changing operation goes on until its run has ended, or it ends in an error.
LEMMA ChangingStays ==
  ASSUME PortalInv, NEW c \in Calls, Continue(c), calls[c].op \in ChangingOps
  PROVE  \/ calls'[c].op = calls[c].op /\ calls'[c].name = calls[c].name
         \/ calls[c].name \in erred'
<1> DEFINE Goes == calls'[c].op = calls[c].op /\ calls'[c].name = calls[c].name
<1>1. TypeInv /\ calls \in [Calls -> CallRecord]
  BY DEF PortalInv, PoolInv, TypeInv, TypeOK
<1>2. Throw(c) => calls[c].name \in erred'
  BY DEF Throw, HalfDone, ChangingOps
<1>3. ASSUME NEW pc, To(c, pc) PROVE Goes
  BY <1>1, <1>3, GoesOn
<1>4. calls' = [calls EXCEPT ![c].pc = "savepk", ![c].pk = accounts'[calls[c].name].pk] => Goes
  BY <1>1 DEF CallRecord
<1>5. ASSUME NEW pc, calls' = [calls EXCEPT ![c].pc = pc, ![c].clean = FALSE] PROVE Goes
  BY <1>1, <1>5 DEF CallRecord
<1>6. CASE EnsureUser(c)
  BY <1>2, <1>3, <1>4, <1>6 DEF EnsureUser, OnAuthentikError, ToQuietly
<1>7. CASE InviteLink(c)
  <2>1. calls[c].op = "invite"
    BY <1>1, <1>7, StageOps DEF InviteLink, At, ChangingOps
  <2> QED BY <1>2, <1>3, <1>7, <2>1 DEF InviteLink, ToQuietly
<1>8. CASE Patch(c) \/ SavePk(c) \/ Rollback(c) \/ ActivateAccount(c) \/ SetStatus(c)
  BY <1>2, <1>3, <1>8 DEF Patch, SavePk, Rollback, ActivateAccount, SetStatus, ToQuietly
<1>9. CASE Revoke(c) \/ SetGroups(c) \/ Retire(c) \/ Provision(c)
  BY <1>3, <1>5, <1>9 DEF Revoke, SetGroups, Retire, Provision, ToQuietly
<1>10. CASE Deactivate(c) \/ EndSessions(c) \/ DeleteUser(c)
  BY <1>2, <1>3, <1>5, <1>10 DEF Deactivate, EndSessions, DeleteUser, StepFails, ToQuietly
<1> QED BY <1>6, <1>7, <1>8, <1>9, <1>10 DEF Continue

\* Only disable and remove take somebody off the list, and a resend changes nothing but the key of the account.
LEMMA ListedStays ==
  ASSUME WebAll, NothingHalfDone, NEW c \in Calls, Continue(c), ~Provision(c),
         calls[c].op \notin {"disable", "remove"}, NEW n, n = calls[c].name
  PROVE  Unlisted(n)' => Unlisted(n) \/ n \in erred'
<1>0. Rollback(c) => n \in erred'
  <2>1. Rollback(c) => calls[c].op \in {"invite", "role"} /\ Throw(c)
    BY StageOps DEF Rollback, At, WebAll, PortalInv, PoolInv
  <2> QED BY <2>1 DEF Throw, HalfDone
<1> SUFFICES ASSUME ~Rollback(c) PROVE Unlisted(n)' => Unlisted(n)
  BY <1>0
<1>1. calls[c].pc \notin {"idle", "provision", "waiting", "rollback"}
  BY DEF Continue, Revoke, Patch, EnsureUser, SavePk, InviteLink, SetGroups, Deactivate, EndSessions,
         DeleteUser, Retire, ActivateAccount, SetStatus, At
<1>2. /\ PortalInv /\ TypeInv /\ CallCurrent(calls[c]) /\ n \in Names /\ Known(n) /\ users[n] \in UserRecord
  BY <1>1, ActingWeb
<1>3. users \in [Names -> UserRecord \cup {NoUser}] /\ NoUser.slot = 0 /\ users[n].slot # 0
  BY <1>2, ProvisionerAssumption DEF TypeInv, TypeOK, NoUser, UserRecord
<1>4. ~Retire(c)
  BY <1>2, StageOps DEF Retire, At
<1>5. CASE users' = users
  BY <1>5 DEF Unlisted, Known
<1>6. CASE \E role : users' = [users EXCEPT ![n].role = role]
  BY <1>2, <1>3, <1>6 DEF UserRecord, Unlisted, Known
<1>7. CASE \E pk : users' = [users EXCEPT ![n].pk = pk]
  BY <1>2, <1>3, <1>7 DEF UserRecord, Unlisted, Known
<1>8. CASE \E status : status # "disabled" /\ users' = [users EXCEPT ![n].status = status]
  BY <1>2, <1>3, <1>8 DEF UserRecord, Unlisted, Known
<1>9. Patch(c) => users' = [users EXCEPT ![n].role = calls[c].role]
  <2>1. Patch(c) => calls[c].op = "role"
    BY <1>2, StageOps DEF Patch, At
  <2> QED BY <1>2, <2>1 DEF Patch
<1>10. SetStatus(c) => \E status : status # "disabled" /\ users' = [users EXCEPT ![n].status = status]
  <2>1. (IF users[n].visited THEN "active" ELSE "invited") # "disabled"
    OBVIOUS
  <2> QED BY <1>2, <2>1 DEF SetStatus
<1>11. SavePk(c) => users' = users \/ users' = [users EXCEPT ![n].pk = calls[c].pk]
  BY DEF SavePk
<1>12. \/ Patch(c) \/ SetStatus(c) \/ SavePk(c) \/ users' = users
  BY <1>4 DEF Continue, Revoke, EnsureUser, InviteLink, SetGroups, Deactivate, EndSessions, DeleteUser, ActivateAccount
<1> QED BY <1>5, <1>6, <1>7, <1>8, <1>9, <1>10, <1>11, <1>12

LEMMA ResendSettled ==
  ASSUME WebAll, NothingHalfDone, NEW c \in Calls, Continue(c), ~Provision(c), calls[c].op = "resend"
  PROVE  /\ \A m \in Names : Settled(m)
         /\ calls'[c].op \in {"none", "resend"}
<1> PICK n : n = calls[c].name
  OBVIOUS
<1>0. calls[c].pc \notin {"idle", "provision", "waiting", "rollback"}
  BY StageOps DEF WebAll, PortalInv, PoolInv, Continue, Revoke, Patch, EnsureUser, SavePk, Rollback, InviteLink, SetGroups, Deactivate, EndSessions,
         DeleteUser, Retire, ActivateAccount, SetStatus, At
<1>1. /\ PortalInv /\ TypeInv /\ CallCurrent(calls[c]) /\ n \in Names /\ Known(n) /\ users[n] \in UserRecord
  BY <1>0, ActingWeb
<1>2. users \in [Names -> UserRecord \cup {NoUser}] /\ NoUser.slot = 0 /\ users[n].slot # 0
  BY <1>1, ProvisionerAssumption DEF TypeInv, TypeOK, NoUser, UserRecord
<1>3. EnsureUser(c) \/ SavePk(c) \/ InviteLink(c)
  BY <1>1, StageOps DEF Continue, Revoke, Patch, Rollback, SetGroups, Deactivate, EndSessions,
         DeleteUser, Retire, ActivateAccount, SetStatus, At, CallCurrent
<1>4. mcp' = mcp /\ (users' = users \/ users' = [users EXCEPT ![n].pk = calls[c].pk])
  BY <1>3 DEF EnsureUser, SavePk, InviteLink, provisionerVars
<1>5. ASSUME NEW m \in Names PROVE Settled(m)
  <2>1. CASE users' = users
    BY <1>4, <2>1 DEF Settled
  <2>2. CASE users' = [users EXCEPT ![n].pk = calls[c].pk] /\ m = n
    <3>1. /\ users'[n].slot = users[n].slot /\ users'[n].role = users[n].role
          /\ users'[n].status = users[n].status /\ users'[n].prov = users[n].prov
      BY <1>1, <1>2, <2>2 DEF UserRecord
    <3> QED BY <1>1, <1>2, <1>4, <2>2, <3>1 DEF Settled, Known
  <2>3. CASE users' = [users EXCEPT ![n].pk = calls[c].pk] /\ m # n
    BY <1>2, <1>4, <2>3 DEF Settled
  <2> QED BY <1>4, <2>1, <2>2, <2>3
<1>6. calls'[c].op \in {"none", "resend"}
  <2>1. calls \in [Calls -> CallRecord]
    BY <1>1 DEF TypeInv, TypeOK
  <2>2. ASSUME NEW pc, To(c, pc) PROVE calls'[c].op = "resend"
    BY <1>1, <2>2, GoesOn
  <2>3. Return(c) => calls'[c].op = "none"
    BY <1>1, Ends
  <2>4. calls' = [calls EXCEPT ![c].pc = "savepk", ![c].pk = accounts'[n].pk] => calls'[c].op = "resend"
    BY <2>1 DEF CallRecord
  <2>5. \/ Return(c) \/ (\E pc : To(c, pc))
        \/ calls' = [calls EXCEPT ![c].pc = "savepk", ![c].pk = accounts'[n].pk]
    BY <1>3 DEF EnsureUser, SavePk, InviteLink, OnAuthentikError, Succeed, Throw, ToQuietly, NothingHalfDone, Fails
  <2> QED BY <2>2, <2>3, <2>4, <2>5
<1> QED BY <1>5, <1>6

LEMMA KeysInHand ==
  ASSUME KeysAll
  PROVE  /\ PortalInv /\ TypeInv /\ RunWorks /\ Targets /\ KeysHaveAccounts /\ calls \in [Calls -> CallRecord]
         /\ users \in [Names -> UserRecord \cup {NoUser}] /\ ValidSpec(ToUsersJson)
         /\ \A n \in Names : KeyState(n) /\ (n \in Listed(ToUsersJson) <=> ~Unlisted(n))
<1>1. PortalInv /\ TypeInv /\ RunWorks /\ (\A n \in Names : KeyState(n)) /\ OneOwner /\ Targets /\ KeysHaveAccounts
  BY DEF KeysAll, WebAll, PortalInv, PoolInv, RunInv
<1>2. calls \in [Calls -> CallRecord] /\ users \in [Names -> UserRecord \cup {NoUser}]
  BY <1>1 DEF TypeInv, TypeOK
<1> QED BY <1>1, <1>2, SpecLists

LEMMA UntouchedSettled ==
  ASSUME users' = users, mcp' = mcp
  PROVE  \A m \in Names : Settled(m) /\ (Unlisted(m)' => Unlisted(m))
                          /\ mcp'[m].servers = mcp[m].servers /\ mcp'[m].key \in {NoAccess, mcp[m].key}
  BY DEF Settled, Unlisted, Known

LEMMA ContinueKeys ==
  ASSUME KeysAll, NothingHalfDone, NEW c \in Calls, Continue(c)
  PROVE  RunWorks' /\ \A n \in Names : KeyState(n)'
<1>0. PortalInv /\ TypeInv /\ WebAll /\ NothingHalfDone
  BY KeysInHand DEF KeysAll, NothingHalfDone
<1> PICK n : n = calls[c].name
  OBVIOUS
<1>1. (\A d \in Calls \ {c} : calls'[d] = calls[d]) /\ \A m \in Names : m \in erred => m \in erred'
  BY <1>0, ContinueMoves, MovesCalls, ErredStays
<1>2. CASE Provision(c)
  <2>1. calls[c].pc = "provision" /\ To(c, "waiting") /\ users' = users /\ mcp' = mcp /\ run' = run
    BY <1>2 DEF Provision, At
  <2>2. calls'[c].op = calls[c].op /\ calls'[c].name = calls[c].name
    BY <1>0, <2>1, GoesOn
  <2>3. c # run.call
    BY <1>0, <2>1, RunWaits
  <2>4. \A m \in Names : Changing(c, m) => Changing(c, m)' /\ calls'[c].op = calls[c].op
    BY <2>2 DEF Changing
  <2> QED BY <1>1, <2>1, <2>3, <2>4, UntouchedSettled, BesideKeys
<1>3. CASE ~Provision(c)
  <2>1. Effect(c, n) /\ n \in Names /\ Acting(calls[c]) /\ run' = run /\ (mcp' = mcp \/ mcp' = KeysDeleted(n))
    BY <1>0, <1>3, ContinueEffect
  <2>2. c # run.call
    BY <1>0, <2>1, RunWaits DEF Acting
  <2>3. \A m \in Names : mcp'[m].servers = mcp[m].servers /\ mcp'[m].key \in {NoAccess, mcp[m].key}
    BY <1>0, <2>1, ServersStay
  <2>4. CASE calls[c].op = "resend"
    <3>1. \A m \in Names : Settled(m)
      BY <1>0, <1>3, <2>4, ResendSettled
    <3>2. \A m \in Names : Unlisted(m)' => Unlisted(m)
      BY <3>1 DEF Settled, Unlisted, Known
    <3>3. \A m \in Names : ~Changing(c, m)
      BY <2>4 DEF Changing, ChangingOps
    <3> QED BY <1>1, <2>1, <2>2, <2>3, <3>1, <3>2, <3>3, BesideKeys
  <2>5. CASE calls[c].op # "resend"
    <3>1. calls[c].op \in ChangingOps
      BY <2>1, <2>5 DEF Acting, AdminOps, ChangingOps
    <3>2. (calls'[c].op = calls[c].op /\ calls'[c].name = n) \/ n \in erred'
      BY <1>0, <3>1, ChangingStays
    <3>3. \A m \in Names : Changing(c, m) => m \in erred' \/ (Changing(c, m)' /\ calls'[c].op = calls[c].op)
      BY <3>2 DEF Changing
    <3>4. Changing(c, n)
      BY <3>1 DEF Changing
    <3>5. ASSUME NEW m \in Names \ {n} PROVE Settled(m) /\ (Unlisted(m)' => Unlisted(m))
      <4>1. users'[m] = users[m]
        BY <2>1, <3>5 DEF Effect
      <4>2. mcp'[m] = mcp[m]
        BY <1>0, <2>1, <3>5, KeyTaken DEF McpOf
      <4> QED BY <4>1, <4>2 DEF Settled, Unlisted, Known
    <3>6. Unlisted(n)' => \/ Unlisted(n) \/ n \in erred'
                           \/ (Changing(c, n)' /\ calls'[c].op \in {"disable", "remove"})
      <4>1. CASE calls[c].op \in {"disable", "remove"}
        BY <3>2, <3>4, <4>1 DEF Changing
      <4>2. CASE calls[c].op \notin {"disable", "remove"}
        BY <1>0, <1>3, <4>2, ListedStays
      <4> QED BY <4>1, <4>2
    <3>7. \A m \in Names : Unlisted(m)' => \/ Unlisted(m) \/ m \in erred'
                                            \/ (Changing(c, m)' /\ calls'[c].op \in {"disable", "remove"})
      BY <3>5, <3>6
    <3>8. \A m \in Names : Changing(c, m) \/ Changing(c, m)' \/ Settled(m)
      BY <3>4, <3>5
    <3> QED BY <1>1, <2>1, <2>2, <2>3, <3>3, <3>7, <3>8, BesideKeys
  <2> QED BY <2>4, <2>5
<1> QED BY <1>2, <1>3

LEMMA AdmitKeys ==
  ASSUME KeysAll, NEW c \in Calls, NEW n \in Names, NEW role \in Roles, NEW slot \in Slots,
         NEW former, calls[c].pc = "idle", begun' \in Nat, Admit(c, n, role, slot, former)
  PROVE  RunWorks' /\ \A m \in Names : KeyState(m)'
<1>0. PortalInv /\ TypeInv /\ calls \in [Calls -> CallRecord] /\ users \in [Names -> UserRecord \cup {NoUser}]
  BY KeysInHand
<1> DEFINE new == Reserved(n, role, slot)
           call == Opened(c, "invite", n, "ensure")
           q == [call EXCEPT !.role = role, !.u = new, !.former = former]
<1>1. /\ new.slot = slot /\ new.role = role /\ new.status = "invited" /\ new # NoUser
  BY ProvisionerAssumption DEF Reserved, NoUser
<1>2. "ensure" \in StagesOf("invite")
  BY DEF StagesOf
<1>3. call \in CallRecord /\ call.op = "invite" /\ call.pc = "ensure" /\ call.name = n
  BY <1>0, <1>2, OpenedTyped
<1>4. /\ calls' = [calls EXCEPT ![c] = q] /\ users' = [users EXCEPT ![n] = new] /\ mcp' = mcp /\ run' = run
      /\ erred' = erred
  BY DEF Admit, provisionerVars
<1> HIDE DEF call, new
<1>5. q.op = "invite" /\ q.name = n
  BY <1>3 DEF CallRecord
<1> HIDE DEF q
<1>6. calls'[c] = q /\ (\A d \in Calls \ {c} : calls'[d] = calls[d]) /\ users'[n] = new
      /\ \A m \in Names \ {n} : users'[m] = users[m]
  BY <1>0, <1>4
<1>7. c # run.call
  BY <1>0, RunWaits
<1>8. \A m \in Names : ~Changing(c, m)
  BY <1>0, StageOps DEF Changing, ChangingOps, AdminOps
<1>9. Changing(c, n)'
  BY <1>5, <1>6 DEF Changing, ChangingOps
<1>10. \A m \in Names : Changing(c, m)' \/ Settled(m)
  BY <1>4, <1>6, <1>9 DEF Settled
<1>11. \A m \in Names : Unlisted(m)' => Unlisted(m)
  BY <1>1, <1>6 DEF Unlisted, Known
<1>12. \A m \in Names : mcp'[m].servers = mcp[m].servers /\ mcp'[m].key \in {NoAccess, mcp[m].key}
  BY <1>4
<1> QED BY <1>4, <1>6, <1>7, <1>8, <1>10, <1>11, <1>12, BesideKeys

LEMMA BeginKeys ==
  ASSUME KeysAll, NEW c \in Calls, Begin(c)
  PROVE  RunWorks' /\ \A m \in Names : KeyState(m)'
<1>0. PortalInv /\ TypeInv /\ calls \in [Calls -> CallRecord]
  BY KeysInHand
<1>1. CASE \E n \in Names, role \in Roles : Invite(c, n, role) \/ InviteRestoring(c, n, role)
  <2> PICK n \in Names, role \in Roles : Invite(c, n, role) \/ InviteRestoring(c, n, role)
    BY <1>1
  <2>1. calls[c].pc = "idle"
    BY DEF Invite, InviteRestoring, Begins, At
  <2>2. begun' \in Nat
    BY <1>0, BeginsTyped DEF Invite, InviteRestoring
  <2>3. \E slot \in Slots : \E former : Admit(c, n, role, slot, former)
    BY <1>0 DEF Invite, InviteRestoring, TypeInv, TypeOK, RetiredRecord
  <2> QED BY <2>1, <2>2, <2>3, AdmitKeys
<1>2. CASE (\E n \in Names, op \in OpsOnUser : OnUser(c, op, n)) \/ Reprovision(c) \/ ReleaseSlot(c)
  <2>1. users' = users /\ mcp' = mcp /\ run' = run /\ erred' = erred /\ calls[c].pc = "idle"
    BY <1>2 DEF OnUser, Reprovision, ReleaseSlot, provisionerVars, Begins, At
  <2>2. \A d \in Calls \ {c} : calls'[d] = calls[d]
    BY <1>0, <1>2 DEF OnUser, Reprovision, ReleaseSlot
  <2>3. c # run.call
    BY <1>0, <2>1, RunWaits
  <2>4. \A m \in Names : ~Changing(c, m)
    BY <1>0, <2>1, StageOps DEF Changing, ChangingOps, AdminOps
  <2> QED BY <2>1, <2>2, <2>3, <2>4, UntouchedSettled, BesideKeys
<1> QED BY <1>1, <1>2 DEF Begin, OpsOnUser

\* Steps of nobody's operation.
LEMMA OutsideKeys ==
  ASSUME KeysAll, calls' = calls, run' = run, mcp' = mcp, erred' = erred, \A m \in Names : Settled(m)
  PROVE  RunWorks' /\ \A m \in Names : KeyState(m)'
<1> PICK c : c \notin Calls
  BY ProvisionerAssumption
<1>1. \A m \in Names : ~Changing(c, m)
  BY DEF Changing
<1>2. \A m \in Names : Unlisted(m)' => Unlisted(m)
  BY DEF Settled, Unlisted, Known
<1>3. \A m \in Names : mcp'[m].servers = mcp[m].servers /\ mcp'[m].key \in {NoAccess, mcp[m].key}
  OBVIOUS
<1>4. \A d \in Calls \ {c} : calls'[d] = calls[d]
  OBVIOUS
<1> QED BY <1>1, <1>2, <1>3, <1>4, BesideKeys

LEMMA FirstVisitKeys ==
  ASSUME KeysAll, NEW n \in Names, Activate(n)
  PROVE  RunWorks' /\ \A m \in Names : KeyState(m)'
<1>0. users \in [Names -> UserRecord \cup {NoUser}]
  BY KeysInHand
<1>1. users[n] \in UserRecord /\ users[n].status = "invited" /\ UNCHANGED <<calls, run, mcp, erred>>
  BY <1>0 DEF Activate, NoUser, provisionerVars
<1> DEFINE u == [[users[n] EXCEPT !.status = "active"] EXCEPT !.visited = TRUE]
<1>2. users' = [users EXCEPT ![n] = u]
  BY <1>0 DEF Activate
<1>3. u.role = users[n].role /\ u.status = "active" /\ u.slot = users[n].slot /\ u.prov = users[n].prov
  BY <1>1 DEF UserRecord
<1>4. users[n].slot # 0 /\ NoUser.slot = 0
  BY <1>1, ProvisionerAssumption DEF UserRecord, NoUser
<1> HIDE DEF u
<1>5. users'[n] = u /\ \A m \in Names \ {n} : users'[m] = users[m]
  BY <1>0, <1>2
<1>6. users[n] # NoUser /\ users'[n] # NoUser
  BY <1>3, <1>4, <1>5
<1>7. \A m \in Names : Settled(m)
  BY <1>1, <1>3, <1>5, <1>6 DEF Settled
<1> QED BY <1>1, <1>7, OutsideKeys

\* The steps of a run change neither the operations nor the users.
LEMMA RunningAlike ==
  ASSUME users' = users, calls' = calls, NEW n
  PROVE  /\ (Known(n)' <=> Known(n)) /\ (Unlisted(n)' <=> Unlisted(n)) /\ (Busy(n)' <=> Busy(n))
         /\ AccessOf(users[n])' = AccessOf(users[n]) /\ ToUsersJson[n]' = ToUsersJson[n]
<1>1. \A m : (Known(m)' <=> Known(m)) /\ AccessOf(users[m])' = AccessOf(users[m])
  BY DEF Known, AccessOf
<1>2. ToUsersJson' = ToUsersJson
  BY <1>1 DEF ToUsersJson
<1> QED BY <1>1, <1>2 DEF Unlisted, Known, Busy, Changing

LEMMA BeginRunKeys ==
  ASSUME KeysAll, RunsWork, BeginRun, NEW n \in Names
  PROVE  KeyState(n)'
<1>0. /\ Keyed(n) /\ SpecCurrent(n) /\ RunDone(n) /\ KeyGood(n) /\ NoKey(n) /\ ValidSpec(ToUsersJson)
      /\ n \in Listed(ToUsersJson) <=> ~Unlisted(n)
  BY KeysInHand DEF KeyState
<1>1. users' = users /\ calls' = calls /\ erred' = erred
  BY DEF BeginRun, portalVars
<1>2. /\ run = NoRun /\ mcp' = mcp /\ run'.spec = ToUsersJson /\ run'.step = "users"
      /\ run'.todo = Listed(ToUsersJson) /\ run'.failed = {}
  BY <1>0, RunStarts
<1>3. NoRun.step = "none" /\ NoRun.failed = {}
  BY DEF NoRun
<1>4. Listed(run.spec)' = Listed(ToUsersJson)
  BY <1>2 DEF Listed
<1>5. /\ (Known(n)' <=> Known(n)) /\ (Unlisted(n)' <=> Unlisted(n)) /\ (Busy(n)' <=> Busy(n))
      /\ AccessOf(users[n])' = AccessOf(users[n]) /\ ToUsersJson[n]' = ToUsersJson[n]
  BY <1>1, RunningAlike
<1>6. Keyed(n)'
  BY <1>0, <1>2, <1>3 DEF Keyed
<1>7. SpecCurrent(n)'
  BY <1>2, <1>5 DEF SpecCurrent
<1>8. RunDone(n)'
  BY <1>2, <1>4 DEF RunDone
<1>9. KeyGood(n)'
  BY <1>0, <1>1, <1>2, <1>3, <1>5 DEF KeyGood
<1>10. NoKey(n)'
  BY <1>0, <1>1, <1>2, <1>4, <1>5 DEF NoKey
<1> QED BY <1>6, <1>7, <1>8, <1>9, <1>10 DEF KeyState

LEMMA RunStepKeys ==
  ASSUME KeysAll, RunsWork, RunStep, UNCHANGED portalVars, NEW n \in Names
  PROVE  KeyState(n)'
<1>0. /\ TypeInv /\ RunWorks /\ Keyed(n) /\ SpecCurrent(n) /\ RunDone(n) /\ KeyGood(n) /\ NoKey(n)
      /\ n \in Listed(ToUsersJson) <=> ~Unlisted(n)
  BY KeysInHand DEF KeyState
<1>1. users' = users /\ calls' = calls /\ erred' = erred
  BY DEF portalVars
<1>2. run.step # "none"
  BY <1>0, RunSteps
<1> PICK m \in Names : Removed(m) \/ ServersSet(m) \/ KeyKept(m) \/ KeyDropped(m) \/ KeyIssued(m) \/ Probed(m)
  BY <1>0, RunSteps
<1>3. run'.spec = run.spec /\ run'.call = run.call
  BY DEF Removed, ServersSet, KeyKept, KeyDropped, KeyIssued, Probed, RunBecomes
<1>4. Listed(run.spec)' = Listed(run.spec)
  BY <1>3 DEF Listed
<1>5. /\ (Known(n)' <=> Known(n)) /\ (Unlisted(n)' <=> Unlisted(n)) /\ (Busy(n)' <=> Busy(n))
      /\ AccessOf(users[n])' = AccessOf(users[n]) /\ ToUsersJson[n]' = ToUsersJson[n]
  BY <1>1, RunningAlike
<1>6. (BusyElse(n)' <=> BusyElse(n)) /\ (Spoilt(n)' <=> Spoilt(n))
  BY <1>1, <1>3 DEF BusyElse, Changing, Spoilt
<1>7. SpecCurrent(n)'
  BY <1>0, <1>2, <1>3, <1>5, <1>6 DEF SpecCurrent
<1>8. Known(n) /\ users[n].status # "disabled" /\ ~Busy(n) /\ n \notin erred =>
        run.spec[n] = AccessOf(users[n]) /\ n \in Listed(run.spec)
  <2>1. SUFFICES ASSUME Known(n), users[n].status # "disabled", ~Busy(n), n \notin erred
                 PROVE  run.spec[n] = AccessOf(users[n]) /\ n \in Listed(run.spec)
    OBVIOUS
  <2>2. run.spec[n] = ToUsersJson[n]
    BY <1>0, <1>2, <2>1 DEF SpecCurrent, Busy, BusyElse, Spoilt
  <2>3. n \in Listed(ToUsersJson) /\ ToUsersJson[n] = AccessOf(users[n])
    BY <1>0, <2>1 DEF Unlisted, ToUsersJson
  <2> QED BY <2>2, <2>3 DEF Listed
<1>9. ASSUME Keyed(n)', RunDone(n)', KeyGood(n)', NoKey(n)' PROVE KeyState(n)'
  BY <1>7, <1>9 DEF KeyState
<1>10. NoKey(n)'
  <2>1. CASE mcp[n].key = NoAccess /\ n \notin Listed(run.spec)
    <3>1. mcp'[n].key = NoAccess
      <4>1. ~KeyIssued(n)
        BY <1>0, <1>2, <2>1 DEF KeyIssued, RunWorks
      <4> QED BY <2>1, <4>1 DEF Removed, ServersSet, KeyKept, KeyDropped, KeyIssued, Probed, McpOf
    <3> QED BY <1>4, <2>1, <3>1 DEF NoKey
  <2>2. CASE ~(mcp[n].key = NoAccess /\ n \notin Listed(run.spec))
    BY <1>0, <1>1, <1>5, <2>2 DEF NoKey
  <2> QED BY <2>1, <2>2
<1>11. CASE Removed(m)
  <2>1. m \notin Listed(run.spec)
    BY <1>0, <1>2, <1>11 DEF Removed, RunWorks
  <2>2. Keyed(n)'
    BY <1>0, <1>11 DEF Removed, McpOf, RunBecomes, Keyed
  <2>3. RunDone(n)'
    BY <1>0, <1>4, <1>6, <1>11, <2>1 DEF Removed, McpOf, RunBecomes, RunDone
  <2>4. KeyGood(n)'
    BY <1>0, <1>1, <1>5, <1>8, <1>11, <2>1 DEF Removed, McpOf, RunBecomes, KeyGood
  <2> QED BY <1>9, <1>10, <2>2, <2>3, <2>4
<1>12. CASE ServersSet(m)
  <2>1. m \in Listed(run.spec)
    BY <1>0, <1>2, <1>12 DEF ServersSet, RunWorks
  <2>2. Keyed(n)'
    BY <1>0, <1>12 DEF ServersSet, McpOf, RunBecomes, Keyed
  <2>3. RunDone(n)'
    BY <1>0, <1>4, <1>6, <1>12 DEF ServersSet, McpOf, RunBecomes, RunDone
  <2>4. KeyGood(n)'
    BY <1>0, <1>1, <1>5, <1>8, <1>12 DEF ServersSet, McpOf, RunBecomes, KeyGood
  <2> QED BY <1>9, <1>10, <2>2, <2>3, <2>4
<1>13. CASE KeyKept(m)
  <2>2. Keyed(n)'
    BY <1>0, <1>13 DEF KeyKept, RunBecomes, Keyed
  <2>3. RunDone(n)'
    BY <1>0, <1>4, <1>6, <1>13 DEF KeyKept, RunBecomes, RunDone
  <2>4. KeyGood(n)'
    BY <1>0, <1>1, <1>5, <1>13 DEF KeyKept, RunBecomes, KeyGood
  <2> QED BY <1>9, <1>10, <2>2, <2>3, <2>4
<1>14. CASE KeyDropped(m)
  <2>1. m \in run.todo
    BY <1>0, <1>2, <1>14 DEF KeyDropped, RunWorks
  <2>2. Keyed(n)'
    BY <1>0, <1>14 DEF KeyDropped, McpOf, RunBecomes, Keyed
  <2>3. RunDone(n)'
    BY <1>0, <1>4, <1>6, <1>14, <2>1 DEF KeyDropped, McpOf, RunBecomes, RunDone
  <2>4. KeyGood(n)'
    BY <1>0, <1>1, <1>5, <1>14 DEF KeyDropped, McpOf, RunBecomes, KeyGood
  <2> QED BY <1>9, <1>10, <2>2, <2>3, <2>4
<1>15. CASE KeyIssued(m)
  <2>1. mcp[m].servers # NoAccess
    BY <1>0, <1>2, <1>15 DEF KeyIssued, RunWorks, Listed
  <2>2. Keyed(n)'
    BY <1>0, <1>15 DEF KeyIssued, McpOf, RunBecomes, Keyed
  <2>3. RunDone(n)'
    BY <1>0, <1>4, <1>6, <1>15, <2>1 DEF KeyIssued, McpOf, RunBecomes, RunDone
  <2>4. KeyGood(n)'
    BY <1>0, <1>1, <1>5, <1>15, <2>1 DEF KeyIssued, McpOf, RunBecomes, KeyGood
  <2> QED BY <1>9, <1>10, <2>2, <2>3, <2>4
<1>16. CASE Probed(m)
  <2>2. Keyed(n)'
    BY <1>0, <1>16 DEF Probed, McpOf, RunBecomes, Keyed
  <2>3. RunDone(n)'
    BY <1>0, <1>4, <1>6, <1>16 DEF Probed, McpOf, RunBecomes, RunDone
  <2>4. KeyGood(n)'
    BY <1>0, <1>1, <1>5, <1>16 DEF Probed, McpOf, RunBecomes, KeyGood
  <2> QED BY <1>9, <1>10, <2>2, <2>3, <2>4
<1> QED BY <1>11, <1>12, <1>13, <1>14, <1>15, <1>16

LEMMA FinishKeys ==
  ASSUME KeysAll, FinishRun, NEW n \in Names
  PROVE  KeyState(n)'
<1>0. /\ TypeInv /\ RunWorks /\ Keyed(n) /\ SpecCurrent(n) /\ RunDone(n) /\ KeyGood(n) /\ NoKey(n)
      /\ n \in Listed(ToUsersJson) <=> ~Unlisted(n)
      /\ Targets /\ KeysHaveAccounts /\ RunIsFor /\ PortalInv
      /\ calls \in [Calls -> CallRecord] /\ users \in [Names -> UserRecord \cup {NoUser}]
  BY KeysInHand DEF KeyState, TypeInv
<1> PICK c : c = run.call
  OBVIOUS
<1>1. /\ run # NoRun /\ run.step = "users" /\ run.removals = {} /\ run.todo = {} /\ run' = NoRun /\ mcp' = mcp
      /\ Return(c)
  BY DEF FinishRun, EndRun, RunEnded, Succeed, Throw
<1>2. c \in Calls /\ \A d \in Calls \ {c} : calls'[d] = calls[d]
  BY <1>0, <1>1 DEF RunIsFor, Return
<1>3. /\ NoRun.step = "none" /\ \A m \in Names : NoRun.spec[m] = NoAccess
  BY DEF NoRun
<1>4. Listed(run.spec)' = {}
  BY <1>1, <1>3 DEF Listed
<1>5. BusyElse(n) => Busy(n)'
  BY <1>2 DEF BusyElse, Busy, Changing
<1>6. /\ users'[n].slot = users[n].slot /\ users'[n].role = users[n].role /\ users'[n].status = users[n].status
      /\ (users'[n] # NoUser <=> users[n] # NoUser)
      /\ n \in Listed(run.spec) /\ Known(n) /\ users'[n].prov = "ok" => n \notin run.failed
  <2>1. CASE ~(n \in Listed(run.spec) /\ Known(n))
    <3>1. users'[n] = users[n]
      BY <2>1 DEF FinishRun
    <3> QED BY <2>1, <3>1
  <2>2. CASE n \in Listed(run.spec) /\ Known(n)
    <3>1. users[n] \in UserRecord
      BY <1>0, <2>2 DEF Known
    <3>2. users[n].slot # 0 /\ NoUser.slot = 0
      BY <3>1, ProvisionerAssumption DEF UserRecord, NoUser
    <3>3. users'[n] = [users[n] EXCEPT !.prov = IF n \in run.failed THEN "failed" ELSE "ok"]
      BY <2>2 DEF FinishRun
    <3>4. CASE n \in run.failed
      <4>1. users'[n] = [users[n] EXCEPT !.prov = "failed"]
        BY <3>3, <3>4
      <4>2. /\ users'[n].slot = users[n].slot /\ users'[n].role = users[n].role
            /\ users'[n].status = users[n].status /\ users'[n].prov = "failed"
        BY <3>1, <4>1 DEF UserRecord
      <4> QED BY <2>2, <3>2, <4>2 DEF Known
    <3>5. CASE n \notin run.failed
      <4>1. users'[n] = [users[n] EXCEPT !.prov = "ok"]
        BY <3>3, <3>5
      <4>2. /\ users'[n].slot = users[n].slot /\ users'[n].role = users[n].role
            /\ users'[n].status = users[n].status
        BY <3>1, <4>1 DEF UserRecord
      <4> QED BY <2>2, <3>2, <3>5, <4>2 DEF Known
    <3> QED BY <3>4, <3>5
  <2> QED BY <2>1, <2>2
<1>7. /\ (Known(n)' <=> Known(n)) /\ (Unlisted(n)' <=> Unlisted(n)) /\ AccessOf(users[n])' = AccessOf(users[n])
  BY <1>6 DEF Known, Unlisted, AccessOf
<1>8. Keyed(n)' /\ SpecCurrent(n)' /\ RunDone(n)'
  BY <1>0, <1>1, <1>3, <1>4 DEF Keyed, SpecCurrent, RunDone
\* An employee an error is noted of is either still excused, or the run is that of the role change that mends it.
<1>9. n \in erred' \/ ~Spoilt(n)
  <2>1. n \in erred /\ n # calls[c].name => n \in erred'
    BY DEF FinishRun, Succeed, Throw
  <2>2. n \in erred /\ calls[c].op \notin ChangingOps => n \in erred'
    BY DEF FinishRun, Succeed, Throw, ChangingOps
  <2> QED BY <1>2, <2>1, <2>2 DEF Spoilt, Changing
<1>10. KeyGood(n)'
  <2>1. SUFFICES ASSUME Known(n), users[n].status # "disabled", users'[n].prov = "ok", ~BusyElse(n), ~Spoilt(n)
                 PROVE  mcp[n].servers = AccessOf(users[n]) /\ mcp[n].key # NoAccess
    BY <1>1, <1>5, <1>6, <1>7, <1>9 DEF KeyGood
  <2>2. run.spec[n] = ToUsersJson[n] /\ n \in Listed(ToUsersJson) /\ ToUsersJson[n] = AccessOf(users[n])
    BY <1>0, <1>1, <2>1 DEF SpecCurrent, Unlisted, ToUsersJson
  <2>3. n \in Listed(run.spec)
    BY <2>2 DEF Listed
  <2>4. n \in Listed(run.spec) \ (run.todo \cup run.failed)
    BY <1>1, <1>6, <2>1, <2>3
  <2>5. mcp[n].servers = run.spec[n]
    BY <1>0, <1>1, <2>4 DEF RunWorks
  <2>6. mcp[n].key # NoAccess
    BY <1>0, <2>1, <2>4 DEF RunDone
  <2> QED BY <2>2, <2>5, <2>6
<1>11. n \notin Listed(run.spec) => mcp[n].key = NoAccess
  BY <1>0, <1>1 DEF Targets, KeysHaveAccounts
<1>12. NoKey(n)'
  <2>1. SUFFICES ASSUME Unlisted(n), n \notin erred'
                 PROVE  \/ mcp[n].key = NoAccess
                        \/ \E e \in Calls : calls'[e].name = n /\ calls'[e].op \in {"disable", "remove"}
    BY <1>1, <1>4, <1>7 DEF NoKey
  <2>2. CASE n \in erred
    <3>1. Changing(c, n)
      BY <1>9, <2>1, <2>2 DEF Spoilt
    <3>2. ~BusyElse(n) /\ ~Spoilt(n)
      <4>1. calls[c].op \in AdminOps /\ calls[c].name = n
        BY <3>1 DEF Changing, ChangingOps, AdminOps
      <4>2. \A d \in Calls \ {c} : calls[d].op \in AdminOps => calls[d].name # n
        BY <1>0, <1>2, <4>1, OnlyCall
      <4> QED BY <3>1, <4>2 DEF BusyElse, Spoilt, Changing, ChangingOps, AdminOps
    <3>3. run.spec[n] = ToUsersJson[n]
      BY <1>0, <1>1, <3>2 DEF SpecCurrent
    <3> QED BY <1>0, <1>11, <2>1, <3>3 DEF Listed
  <2>3. CASE n \notin erred /\ ~(mcp[n].key = NoAccess /\ n \notin Listed(run.spec))
    <3>1. PICK d \in Calls : calls[d].name = n /\ calls[d].op \in {"disable", "remove"}
      BY <1>0, <2>1, <2>3 DEF NoKey
    <3>2. CASE d = c
      <4>1. n \notin Listed(run.spec)
        BY <1>0, <1>1, <2>1, <3>1, <3>2 DEF Targets
      <4> QED BY <1>11, <4>1
    <3>3. CASE d # c
      BY <1>2, <3>1, <3>3
    <3> QED BY <3>2, <3>3
  <2> QED BY <2>2, <2>3
<1> QED BY <1>8, <1>10, <1>12 DEF KeyState

LEMMA InitKeys ==
  ASSUME Init
  PROVE  RunWorks /\ \A n \in Names : KeyState(n)
<1>1. run = NoRun /\ NoRun.step = "none" /\ NoRun.failed = {} /\ \A m \in Names : NoRun.spec[m] = NoAccess
  BY DEF Init, NoRun
<1>2. Listed(run.spec) = {}
  BY <1>1 DEF Listed
<1>3. ASSUME NEW n \in Names PROVE KeyState(n)
  <2>1. Staff[n] \in Access \cup {NoAccess}
    BY LifecycleAssumption DEF Specs
  <2>2. mcp[n].servers = Staff[n] /\ mcp[n].key = Staff[n]
    BY DEF Init
  <2>3. Keyed(n) /\ SpecCurrent(n) /\ RunDone(n)
    BY <1>1, <1>2, <2>2 DEF Keyed, SpecCurrent, RunDone
  <2>4. CASE Staff[n] = NoAccess
    <3>1. users[n] = NoUser
      BY <2>4 DEF Init
    <3> QED BY <1>2, <2>2, <2>3, <2>4, <3>1 DEF KeyState, KeyGood, NoKey, Known
  <2>5. CASE Staff[n] # NoAccess
    <3>1. users[n].slot = Staff[n].slot /\ users[n].role = Staff[n].role /\ users[n].status = "active"
      BY <2>5 DEF Init
    <3>2. AccessOf(users[n]) = Staff[n]
      BY <2>1, <2>5, <3>1 DEF AccessOf, Access
    <3>3. Staff[n].slot # 0
      BY <2>1, <2>5, ProvisionerAssumption DEF Access
    <3>4. ~Unlisted(n)
      BY <3>1, <3>3 DEF Unlisted, Known, NoUser
    <3> QED BY <2>2, <2>3, <2>5, <3>2, <3>4 DEF KeyState, KeyGood, NoKey
  <2> QED BY <2>4, <2>5
<1> QED BY <1>1, <1>3 DEF RunWorks

LEMMA StepKeys ==
  ASSUME KeysAll, RunsAnswered, [Next]_vars
  PROVE  KeysAll'
<1>0. WebAll /\ TypeInv /\ NothingHalfDone /\ RunsWork /\ RunWorks
  BY DEF KeysAll, WebAll, PortalInv, PoolInv, RunsAnswered, NothingHalfDone, RunsWork
<1>1. WebAll'
  BY <1>0, StepWeb
<1>2. ASSUME NEW c \in Calls, Begin(c) \/ Continue(c) PROVE KeysAll'
  BY <1>0, <1>1, <1>2, BeginKeys, ContinueKeys DEF KeysAll
<1>3. CASE BeginRun
  BY <1>0, <1>1, <1>3, BeginRunWorks, BeginRunKeys DEF KeysAll
<1>4. CASE RunStep /\ UNCHANGED portalVars
  BY <1>0, <1>1, <1>4, RunStepWorks, RunStepKeys DEF KeysAll
<1>5. CASE FinishRun
  BY <1>1, <1>5, FinishWorks, FinishKeys DEF KeysAll
<1>6. ASSUME NEW n \in Names, Activate(n) PROVE KeysAll'
  BY <1>1, <1>6, FirstVisitKeys DEF KeysAll
<1>7. ASSUME calls' = calls, run' = run, mcp' = mcp, users' = users, erred' = erred PROVE KeysAll'
  BY <1>1, <1>7, UntouchedSettled, OutsideKeys DEF KeysAll
<1>8. ASSUME NEW n \in Names, LogIn(n) PROVE KeysAll'
  BY <1>7, <1>8 DEF LogIn, provisionerVars
<1>9. CASE UNCHANGED vars
  BY <1>7, <1>9 DEF vars, portalVars, provisionerVars
<1>10. ~Crash
  BY <1>0 DEF Crash, RunsAnswered, TypeInv, TypeOK, NothingHalfDone
<1> QED BY <1>2, <1>3, <1>4, <1>5, <1>6, <1>8, <1>9, <1>10 DEF Next, Running

\* When everything has settled, exactly the users the portal shows as provisioned have a live key, and
\* it gives the slot and role of the state, but for those an error of Authentik has left half changed and
\* no role change has mended since (service.ts: every operation that gets to its end ends with a run that
\* reads the state when its turn comes; metamcp.ts: the run replaces a key whose servers have changed).
THEOREM KeysStayMatched == RunsAnswered => (Spec => []KeysMatchUsers)
<1> SUFFICES ASSUME RunsAnswered PROVE Spec => []KeysMatchUsers
  OBVIOUS
<1>1. Init => KeysAll
  BY InitPool, InitOff, InitWeb, InitKeys DEF PortalInv, WebAll, KeysAll
<1>2. KeysAll /\ [Next]_vars => KeysAll'
  BY StepKeys
<1>3. KeysAll => KeysMatchUsers
  <2> SUFFICES ASSUME KeysAll, Quiet, NEW n \in Names \ erred
               PROVE  /\ Known(n) /\ users[n].status # "disabled" /\ users[n].prov = "ok" => mcp[n].key = AccessOf(users[n])
                      /\ mcp[n].key # NoAccess => ToUsersJson[n] # NoAccess
    BY DEF KeysMatchUsers
  <2>1. Keyed(n) /\ KeyGood(n) /\ NoKey(n) /\ (n \in Listed(ToUsersJson) <=> ~Unlisted(n))
    BY KeysInHand DEF KeyState
  <2>2. run = NoRun /\ NoRun.step = "none" /\ NoRun.failed = {} /\ \A c \in Calls : calls[c].op = "none"
    BY DEF Quiet, NoRun, Idle
  <2>3. ~Busy(n) /\ ~\E c \in Calls : calls[c].name = n /\ calls[c].op \in {"disable", "remove"}
    BY <2>2 DEF Busy, Changing, ChangingOps
  <2>4. Known(n) /\ users[n].status # "disabled" /\ users[n].prov = "ok" => mcp[n].key = AccessOf(users[n])
    BY <2>1, <2>2, <2>3 DEF Keyed, KeyGood
  <2>5. mcp[n].key # NoAccess => ToUsersJson[n] # NoAccess
    BY <2>1, <2>3 DEF NoKey, Listed
  <2> QED BY <2>4, <2>5
<1> QED BY <1>1, <1>2, <1>3, PTL DEF Spec
=============================================================================
