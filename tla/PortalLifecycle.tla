-------------------------- MODULE PortalLifecycle --------------------------
(***************************************************************************)
(* service.ts of the portal: invite, resend, role change, disable, enable, *)
(* remove, release of a slot, re-provisioning, and the employee's own      *)
(* activation and key rotation.                                            *)
(*                                                                         *)
(* An operation is a chain of steps, cut at every await.  What it read     *)
(* before an await (the user record "u") is what it uses afterwards, while *)
(* other operations, reconcile runs, logins and a crash of the process     *)
(* happen in between.  store.update is atomic: state.ts serialises it.     *)
(* MetaMCP is the module Provisioner; Authentik is an external service.    *)
(***************************************************************************)
EXTENDS Provisioner, FiniteSetsExt

CONSTANTS
  Staff,        \* employees that already work at the start: name -> access
  Ops,          \* operations that are offered
  Overlap,      \* may two admin calls for the same employee be in flight together?
  MaxCalls,     \* bound: operations in one behaviour
  MaxCrashes    \* bound: restarts of the portal in one behaviour

AllOps == {"invite", "restore", "resend", "role", "disable", "enable", "remove",
           "release", "reprovision", "rotate", "activate", "login"}

ASSUME LifecycleAssumption ==
  /\ Staff \in Specs /\ ValidSpec(Staff)
  /\ Ops \subseteq AllOps
  /\ Overlap \in BOOLEAN
  /\ MaxCalls \in Nat /\ MaxCrashes \in Nat

VARIABLES
  users,      \* state.json: name -> record of the employee
  retired,    \* state.json: retired slots, each entry with the call that wrote it
  accounts,   \* Authentik: name -> account
  nextPk,     \* Authentik: next primary key
  calls,      \* the operations in flight
  begun,      \* operations begun so far
  crashes,    \* restarts so far
  off,        \* names whose last disable or remove was answered with success
  erred       \* names with an operation that ended in an error half-way, until a role change succeeds

portalVars == <<users, retired, accounts, nextPk, calls, begun, crashes, off, erred>>
vars == <<provisionerVars, portalVars>>

NoUser == [slot |-> 0, role |-> "none", status |-> "none", pk |-> 0, visited |-> FALSE,
           prov |-> "none"]
UserRecord == [slot : Slots, role : Roles, status : {"invited", "active", "disabled"},
               pk : Nat, visited : BOOLEAN, prov : {"pending", "ok", "failed"}]

NoRetired == [slot |-> 0, former |-> NoName, by |-> 0]
RetiredRecord == [slot : Slots, former : Names, by : Nat]

\* Groups an account is in, and groups an open web session carries.
NoAccount == [pk |-> 0, active |-> FALSE, groups |-> NoAccess, web |-> NoAccess]
AccountRecord == [pk : Nat \ {0}, active : BOOLEAN, groups : Access, web : Access \cup {NoAccess}]

Idle == [op |-> "none", pc |-> "idle", name |-> NoName, role |-> "none", number |-> 0,
         u |-> NoUser, pk |-> 0, former |-> NoRetired, clean |-> TRUE]

PCs == {"idle", "revoke", "patch", "ensure", "savepk", "rollback", "link", "groups", "deactivate",
        "sessions", "delete", "retire", "activate", "status", "provision", "waiting"}

CallRecord == [op : AllOps \cup {"none"}, pc : PCs, name : Names \cup {NoName},
               role : Roles \cup {"none"}, number : Nat, u : UserRecord \cup {NoUser},
               pk : Nat, former : RetiredRecord \cup {NoRetired}, clean : BOOLEAN]

Known(n)    == users[n] # NoUser
Account(pk) == {n \in Names : accounts[n] # NoAccount /\ accounts[n].pk = pk}
AccessOf(u) == [slot |-> u.slot, role |-> u.role]

\* Bug: disabled users stay in the spec.
ToUsersJson_WithDisabled ==
  [n \in Names |-> IF Known(n) THEN AccessOf(users[n]) ELSE NoAccess]

\* toUsersJson: disabled users are left out.
ToUsersJson ==
  [n \in Names |-> IF Known(n) /\ users[n].status # "disabled" THEN AccessOf(users[n]) ELSE NoAccess]

Taken == {users[n].slot : n \in {m \in Names : Known(m)}} \cup {r.slot : r \in retired}

FreeSlots == Slots \ Taken

IsNextFreeSlot(s) == s \in FreeSlots /\ \A t \in FreeSlots : s <= t

Init ==
  /\ users = [n \in Names |-> IF Staff[n] = NoAccess THEN NoUser
                ELSE [slot |-> Staff[n].slot, role |-> Staff[n].role, status |-> "active",
                      pk |-> Staff[n].slot, visited |-> TRUE, prov |-> "ok"]]
  /\ accounts = [n \in Names |-> IF Staff[n] = NoAccess THEN NoAccount
                   ELSE [pk |-> Staff[n].slot, active |-> TRUE, groups |-> Staff[n], web |-> NoAccess]]
  /\ mcp = [n \in Names |-> [account |-> Staff[n] # NoAccess, servers |-> Staff[n], key |-> Staff[n]]]
  /\ nextPk = Max(Slots \cup {0}) + 1
  /\ retired = {}
  /\ queue = <<>> /\ run = NoRun /\ faults = 0
  /\ calls = [c \in Calls |-> Idle]
  /\ begun = 0 /\ crashes = 0 /\ off = {} /\ erred = {}

-----------------------------------------------------------------------------
(* Operations in flight *)

At(c, pc) == calls[c].pc = pc

\* One admin normally acts on an employee from one browser tab; nothing in the code enforces it.
Begins(c, op, n) ==
  /\ op \in Ops /\ begun < MaxCalls /\ begun' = begun + 1
  /\ At(c, "idle")
  /\ \/ Overlap
     \/ op = "rotate" \/ n = NoName
     \/ \A d \in Calls : calls[d].name # n \/ calls[d].op = "rotate"

Opened(c, op, n, pc) ==
  [Idle EXCEPT !.op = op, !.name = n, !.pc = pc, !.number = begun', !.u = users[n]]

To(c, pc) == calls' = [calls EXCEPT ![c].pc = pc]

Return(c) == calls' = [calls EXCEPT ![c] = Idle]

\* What the admin was told is kept in "off" and "erred" for the properties: disable and remove promise
\* something, an error means that access may be half changed, and a role change sets it anew.
Succeed(c) ==
  /\ Return(c)
  /\ off' = IF calls[c].op \in {"disable", "remove"} THEN off \cup {calls[c].name} ELSE off
  /\ erred' = IF calls[c].op = "role" /\ calls[c].u.status # "disabled" THEN erred \ {calls[c].name} ELSE erred

\* Whose access an operation may leave half changed when it does not get to its end.
HalfDone(c) == IF calls[c].op \in {"invite", "role", "disable", "enable", "remove"} THEN {calls[c].name} ELSE {}

Throw(c) == Return(c) /\ UNCHANGED off /\ erred' = erred \cup HalfDone(c)

ToQuietly(c, pc) == To(c, pc) /\ UNCHANGED <<off, erred>>

-----------------------------------------------------------------------------
(* What an operation does when its request arrives: validation and the      *)
(* first read or the first update of the state.                             *)

Reserved(n, role, slot) ==
  [slot |-> slot, role |-> role, status |-> "invited", pk |-> 0, visited |-> FALSE, prov |-> "pending"]

Admit(c, n, role, slot, former) ==
  /\ users' = [users EXCEPT ![n] = Reserved(n, role, slot)]
  /\ retired' = retired \ {former}
  /\ calls' = [calls EXCEPT ![c] = [Opened(c, "invite", n, "ensure") EXCEPT
                                      !.role = role, !.u = Reserved(n, role, slot), !.former = former]]
  /\ off' = off \ {n}
  /\ UNCHANGED <<accounts, nextPk, crashes, erred, provisionerVars>>

Invite(c, n, role) ==
  /\ ~Known(n)
  /\ Begins(c, "invite", n)
  /\ \E s \in Slots : IsNextFreeSlot(s) /\ Admit(c, n, role, s, NoRetired)

\* Bug: anybody gets the retired slot, not only its former owner.
InviteRestoring_AnyFormer(c, n, role) ==
  /\ ~Known(n)
  /\ Begins(c, "restore", n)
  /\ \E r \in retired : Admit(c, n, role, r.slot, r)

InviteRestoring(c, n, role) ==
  /\ ~Known(n)
  /\ Begins(c, "restore", n)
  /\ \E r \in retired : r.former = n /\ Admit(c, n, role, r.slot, r)

\* Operations on an employee whose record they read first.
FirstStep(op) ==
  CASE op \in {"role", "disable", "remove"} -> "revoke"
    [] op \in {"resend", "enable"}          -> "ensure"
    [] op = "rotate"                        -> "provision"

Allowed(op, u) ==
  CASE op = "resend" -> u.status = "invited"
    [] op = "enable" -> u.status = "disabled"
    [] op = "rotate" -> u.status # "disabled"
    [] OTHER         -> TRUE

OnUser(c, op, n) ==
  /\ Known(n) /\ Allowed(op, users[n])
  /\ Begins(c, op, n)
  /\ \E role \in IF op = "role" THEN Roles ELSE {"none"} :
       calls' = [calls EXCEPT ![c] = [Opened(c, op, n, FirstStep(op)) EXCEPT !.role = role]]
  /\ off' = IF op = "enable" THEN off \ {n} ELSE off
  /\ UNCHANGED <<users, retired, accounts, nextPk, crashes, erred, provisionerVars>>

Reprovision(c) ==
  /\ Begins(c, "reprovision", NoName)
  /\ calls' = [calls EXCEPT ![c] = [Idle EXCEPT !.op = "reprovision", !.pc = "provision", !.number = begun']]
  /\ UNCHANGED <<users, retired, accounts, nextPk, crashes, off, erred, provisionerVars>>

\* One update and done.
ReleaseSlot(c) ==
  /\ Begins(c, "release", NoName)
  /\ \E r \in retired : retired' = retired \ {r}
  /\ UNCHANGED <<users, accounts, nextPk, calls, crashes, off, erred, provisionerVars>>

\* First visit: the status is looked at again inside the update.
Activate(n) ==
  /\ "activate" \in Ops
  /\ users[n].status = "invited"
  /\ users' = [users EXCEPT ![n].status = "active", ![n].visited = TRUE]
  /\ UNCHANGED <<retired, accounts, nextPk, calls, begun, crashes, off, erred, provisionerVars>>

\* External: an employee logs in at Authentik; the session carries the groups of that moment.
LogIn(n) ==
  /\ "login" \in Ops
  /\ accounts[n].active /\ accounts[n].web # accounts[n].groups
  /\ accounts' = [accounts EXCEPT ![n].web = accounts[n].groups]
  /\ UNCHANGED <<users, retired, nextPk, calls, begun, crashes, off, erred, provisionerVars>>

-----------------------------------------------------------------------------
(* The steps *)

\* The call did nothing, or it did its work ("done") and only the answer was lost.
Unanswered(done) ==
  \/ Fails("authentik") /\ UNCHANGED accounts
  \/ Fails("lost") /\ accounts' = done

\* #revoke: straight to the database; a failure is remembered and reported at the end.
Revoke(c) ==
  /\ At(c, "revoke")
  /\ \/ /\ mcp' = KeysDeleted(calls[c].name) /\ Works
        /\ To(c, "patch")
     \/ /\ Fails("db") /\ UNCHANGED mcp
        /\ calls' = [calls EXCEPT ![c].pc = "patch", ![c].clean = FALSE]
  /\ UNCHANGED <<users, retired, accounts, nextPk, begun, crashes, off, erred, queue, run>>

AfterPatch(call) ==
  CASE call.op = "role"   -> IF call.u.status = "disabled" THEN "provision" ELSE "ensure"
    [] call.op = "disable" -> IF call.u.pk = 0 THEN "provision" ELSE "deactivate"
    [] call.op = "remove"  -> IF call.u.pk = 0 THEN "retire" ELSE "deactivate"

\* #patch of the new role or of the status disabled; a user who is gone is a 404.
Patch(c) ==
  LET call == calls[c]
      n    == call.name
  IN /\ At(c, "patch")
     /\ \/ /\ ~Known(n) /\ Throw(c) /\ UNCHANGED users
        \/ /\ Known(n)
           /\ users' = IF call.op = "role" THEN [users EXCEPT ![n].role = call.role]
                       ELSE [users EXCEPT ![n].status = "disabled"]
           /\ IF call.op = "remove" /\ ~call.clean THEN Throw(c)
              ELSE ToQuietly(c, AfterPatch(call))
     /\ UNCHANGED <<retired, accounts, nextPk, begun, crashes, provisionerVars>>

\* What a failed Authentik call means for the operation.
OnAuthentikError(c) ==
  CASE calls[c].op \in {"invite", "role"} -> ToQuietly(c, "rollback")
    [] OTHER                              -> Throw(c)

\* ensureUser: adopt the portal's own account of this slot, or create one; an account of
\* another slot is refused.  A lost answer is an error although the account has changed.
Ensured(n, groups) ==
  IF accounts[n] = NoAccount
  THEN /\ accounts' = [accounts EXCEPT ![n] = [NoAccount EXCEPT !.pk = nextPk, !.active = TRUE, !.groups = groups]]
       /\ nextPk' = nextPk + 1
  ELSE /\ accounts' = [accounts EXCEPT ![n].groups = groups]
       /\ UNCHANGED nextPk

EnsureUser(c) ==
  LET call   == calls[c]
      n      == call.name
      role   == IF call.op = "role" THEN call.role ELSE call.u.role
      groups == [slot |-> call.u.slot, role |-> role]
      mine   == accounts[n] = NoAccount \/ accounts[n].groups.slot = call.u.slot
  IN /\ At(c, "ensure")
     /\ \/ /\ mine /\ Works /\ Ensured(n, groups)
           /\ calls' = [calls EXCEPT ![c].pc = "savepk", ![c].pk = accounts'[n].pk]
           /\ UNCHANGED <<off, erred>>
        \/ /\ ~mine /\ Works /\ OnAuthentikError(c) /\ UNCHANGED <<accounts, nextPk>>
        \/ /\ Fails("authentik") /\ OnAuthentikError(c) /\ UNCHANGED <<accounts, nextPk>>
        \/ /\ mine /\ Fails("lost") /\ Ensured(n, groups) /\ OnAuthentikError(c)
     /\ UNCHANGED <<users, retired, begun, crashes, mcp, queue, run>>

AfterEnsure(op) ==
  CASE op \in {"invite", "resend"} -> "link"
    [] op = "role"                 -> "groups"
    [] op = "enable"               -> "activate"

\* The pk is written to the state: always by invite, otherwise only when it is new.
SavePk(c) ==
  LET call == calls[c]
      n    == call.name
  IN /\ At(c, "savepk")
     /\ \/ /\ call.op # "invite" /\ call.pk = call.u.pk
           /\ ToQuietly(c, AfterEnsure(call.op)) /\ UNCHANGED users
        \/ /\ call.op = "invite" \/ call.pk # call.u.pk
           /\ Known(n)
           /\ users' = [users EXCEPT ![n].pk = call.pk]
           /\ ToQuietly(c, AfterEnsure(call.op))
        \/ /\ call.op = "invite" \/ call.pk # call.u.pk
           /\ ~Known(n) /\ UNCHANGED users
           /\ IF call.op = "role" THEN ToQuietly(c, "rollback") ELSE Throw(c)
     /\ UNCHANGED <<retired, accounts, nextPk, begun, crashes, provisionerVars>>

\* Bug: the former entry is put back without asking whether there was one.
Rollback_PushesAlways(c) ==
  LET call == calls[c]
      n    == call.name
  IN /\ At(c, "rollback")
     /\ users' = [users EXCEPT ![n] = NoUser]
     /\ retired' = retired \cup {call.former}
     /\ Throw(c)
     /\ UNCHANGED <<accounts, nextPk, begun, crashes, provisionerVars>>

\* Undoing after an Authentik error: invite drops the user by name, a role change writes the
\* old role back.  Neither runs the provisioning.
Rollback(c) ==
  LET call == calls[c]
      n    == call.name
  IN /\ At(c, "rollback")
     /\ IF call.op = "invite"
        THEN /\ users' = [users EXCEPT ![n] = NoUser]
             /\ retired' = retired \cup ({call.former} \ {NoRetired})
        ELSE /\ users' = IF Known(n) THEN [users EXCEPT ![n].role = call.u.role] ELSE users
             /\ UNCHANGED retired
     /\ Throw(c)
     /\ UNCHANGED <<accounts, nextPk, begun, crashes, provisionerVars>>

\* The invitation link of the account; resend ends here.
InviteLink(c) ==
  /\ At(c, "link")
  /\ \/ /\ Account(calls[c].pk) # {} /\ Works
        /\ IF calls[c].op = "invite" THEN ToQuietly(c, "provision") ELSE Succeed(c)
     \/ /\ Account(calls[c].pk) = {} /\ Works /\ Throw(c)
     \/ /\ Fails("authentik") /\ Throw(c)
  /\ UNCHANGED <<users, retired, accounts, nextPk, begun, crashes, mcp, queue, run>>

\* Bug: the open web sessions are not ended.
SetGroups_KeepsSessions(c) ==
  LET call == calls[c]
  IN /\ At(c, "groups") /\ Account(call.pk) # {} /\ Works
     /\ accounts' = [n \in Names |-> IF n \in Account(call.pk)
                       THEN [accounts[n] EXCEPT !.groups = [slot |-> call.u.slot, role |-> call.role]]
                       ELSE accounts[n]]
     /\ To(c, "provision")
     /\ UNCHANGED <<users, retired, nextPk, begun, crashes, off, erred, mcp, queue, run>>

\* setGroups by pk, for the slot that was read at the start.
SetGroups(c) ==
  LET call   == calls[c]
      groups == [slot |-> call.u.slot, role |-> call.role]
      swapped == [n \in Names |-> IF n \in Account(call.pk)
                                  THEN [accounts[n] EXCEPT !.groups = groups] ELSE accounts[n]]
  IN /\ At(c, "groups")
     /\ \/ /\ Account(call.pk) # {} /\ Works
           /\ accounts' = swapped /\ To(c, "sessions")
        \/ /\ Account(call.pk) = {} /\ Works
           /\ To(c, "rollback") /\ UNCHANGED accounts
        \/ /\ Unanswered(swapped) /\ To(c, "rollback")
     /\ UNCHANGED <<users, retired, nextPk, begun, crashes, off, erred, mcp, queue, run>>

\* An error of disable or of a role change is remembered; remove stops.
StepFails(c, done) ==
  /\ Unanswered(done)
  /\ IF calls[c].op = "remove" THEN Throw(c)
     ELSE calls' = [calls EXCEPT ![c].pc = "provision", ![c].clean = FALSE] /\ UNCHANGED <<off, erred>>

\* setActive(false) with the pk that was read at the start; an account that is gone is fine.
Deactivate(c) ==
  LET inactive == [n \in Names |-> IF n \in Account(calls[c].u.pk)
                                   THEN [accounts[n] EXCEPT !.active = FALSE] ELSE accounts[n]]
  IN /\ At(c, "deactivate")
     /\ \/ accounts' = inactive /\ Works /\ ToQuietly(c, "sessions")
        \/ StepFails(c, inactive)
     /\ UNCHANGED <<users, retired, nextPk, begun, crashes, mcp, queue, run>>

EndSessions(c) ==
  LET pk    == IF calls[c].op = "role" THEN calls[c].pk ELSE calls[c].u.pk
      ended == [n \in Names |-> IF n \in Account(pk)
                                THEN [accounts[n] EXCEPT !.web = NoAccess] ELSE accounts[n]]
  IN /\ At(c, "sessions")
     /\ \/ /\ accounts' = ended /\ Works
           /\ ToQuietly(c, IF calls[c].op = "remove" THEN "delete" ELSE "provision")
        \/ StepFails(c, ended)
     /\ UNCHANGED <<users, retired, nextPk, begun, crashes, mcp, queue, run>>

DeleteUser(c) ==
  LET deleted == [n \in Names |-> IF n \in Account(calls[c].u.pk) THEN NoAccount ELSE accounts[n]]
  IN /\ At(c, "delete")
     /\ \/ accounts' = deleted /\ Works /\ ToQuietly(c, "retire")
        \/ StepFails(c, deleted)
     /\ UNCHANGED <<users, retired, nextPk, begun, crashes, mcp, queue, run>>

\* The user leaves the state by name, the slot that was read at the start is retired.
Retire(c) ==
  LET call == calls[c]
  IN /\ At(c, "retire")
     /\ users' = [users EXCEPT ![call.name] = NoUser]
     /\ retired' = retired \cup {[slot |-> call.u.slot, former |-> call.name, by |-> call.number]}
     /\ ToQuietly(c, "provision")
     /\ UNCHANGED <<accounts, nextPk, begun, crashes, provisionerVars>>

\* enable: setActive(true), then the status.
ActivateAccount(c) ==
  LET enabled == [n \in Names |-> IF n \in Account(calls[c].pk)
                                  THEN [accounts[n] EXCEPT !.active = TRUE] ELSE accounts[n]]
  IN /\ At(c, "activate")
     /\ \/ /\ Account(calls[c].pk) # {} /\ Works
           /\ accounts' = enabled /\ ToQuietly(c, "status")
        \/ /\ Account(calls[c].pk) = {} /\ Works /\ Throw(c) /\ UNCHANGED accounts
        \/ /\ Unanswered(enabled) /\ Throw(c)
     /\ UNCHANGED <<users, retired, nextPk, begun, crashes, mcp, queue, run>>

SetStatus(c) ==
  LET n == calls[c].name
  IN /\ At(c, "status")
     /\ \/ /\ Known(n)
           /\ users' = [users EXCEPT ![n].status = IF users[n].visited THEN "active" ELSE "invited"]
           /\ ToQuietly(c, "provision")
        \/ ~Known(n) /\ Throw(c) /\ UNCHANGED users
     /\ UNCHANGED <<retired, accounts, nextPk, begun, crashes, provisionerVars>>

\* #provision: a place in the queue of runs.
Provision(c) ==
  /\ At(c, "provision")
  /\ Enqueue(c, IF calls[c].op = "rotate" THEN {calls[c].name} ELSE {})
  /\ To(c, "waiting")
  /\ UNCHANGED <<users, retired, accounts, nextPk, begun, crashes, off, erred, mcp, run, faults>>

\* The spec is read from the state when the run's turn comes.
BeginRun == StartRun(ToUsersJson) /\ UNCHANGED portalVars

\* The end of a run: the queue moves on, #provision records the outcome for the users of the
\* spec, and the operation answers.  Only a rotation looks at the result of the run.
FinishRun ==
  LET c      == run.call
      listed == {n \in Listed(run.spec) : Known(n)}
  IN /\ EndRun
     /\ users' = [n \in Names |-> IF n \in listed
                    THEN [users[n] EXCEPT !.prov = IF n \in run.failed THEN "failed" ELSE "ok"]
                    ELSE users[n]]
     /\ IF calls[c].clean /\ (calls[c].op = "rotate" => RunOk) THEN Succeed(c) ELSE Throw(c)
     /\ UNCHANGED <<retired, accounts, nextPk, begun, crashes>>

\* The portal restarts: what was in flight is gone, what was written stays.
Crash ==
  /\ crashes < MaxCrashes /\ crashes' = crashes + 1
  /\ calls' = [c \in Calls |-> Idle]
  /\ erred' = erred \cup UNION {HalfDone(c) : c \in Calls}
  /\ queue' = <<>> /\ run' = NoRun
  /\ UNCHANGED <<mcp, faults, users, retired, accounts, nextPk, begun, off>>

-----------------------------------------------------------------------------
Begin(c) ==
  \/ \E n \in Names, role \in Roles : Invite(c, n, role) \/ InviteRestoring(c, n, role)
  \/ \E n \in Names, op \in {"resend", "role", "disable", "enable", "remove", "rotate"} : OnUser(c, op, n)
  \/ Reprovision(c)
  \/ ReleaseSlot(c)

Continue(c) ==
  \/ Revoke(c) \/ Patch(c) \/ EnsureUser(c) \/ SavePk(c) \/ Rollback(c) \/ InviteLink(c)
  \/ SetGroups(c) \/ Deactivate(c) \/ EndSessions(c) \/ DeleteUser(c) \/ Retire(c)
  \/ ActivateAccount(c) \/ SetStatus(c) \/ Provision(c)

Running == BeginRun \/ (RunStep /\ UNCHANGED portalVars) \/ FinishRun

Next ==
  \/ \E c \in Calls : Begin(c) \/ Continue(c)
  \/ Running
  \/ \E n \in Names : Activate(n) \/ LogIn(n)
  \/ Crash

\* Every call to Authentik has a timeout (authentik.ts) and every write of the state settles.  A query of
\* MetaMCP's database has none (main.ts: pg.Pool), and each of the steps "revoke", BeginRun and RunStep
\* waits for at least one: any of them may hang for ever.
Fairness == WF_vars(FinishRun) /\ \A c \in Calls : WF_vars(~At(c, "revoke") /\ Continue(c))

Spec == Init /\ [][Next]_vars /\ Fairness

-----------------------------------------------------------------------------
(* Properties *)

TypeOK ==
  /\ ProvisionerTypeOK
  /\ users \in [Names -> UserRecord \cup {NoUser}]
  /\ retired \subseteq RetiredRecord
  /\ accounts \in [Names -> AccountRecord \cup {NoAccount}]
  /\ nextPk \in Nat \ {0} /\ begun \in 0..MaxCalls /\ crashes \in 0..MaxCrashes
  /\ calls \in [Calls -> CallRecord]
  /\ off \subseteq Names /\ erred \subseteq Names

Quiet == (\A c \in Calls : calls[c] = Idle) /\ run = NoRun /\ queue = <<>>

\* The vaults as the pool of slots: a vault two employees hold, or one that is kept for a former
\* employee while somebody holds it, is no state of the pool (service.ts: reserve, rollback, retire,
\* release).
Holders(s) == {n \in Names : Known(n) /\ users[n].slot = s}
Formers(s) == {r.former : r \in {t \in retired : t.slot = s}}
Pool == [s \in Slots |->
           CASE Formers(s) = {} /\ Holders(s) = {} -> [kind |-> "free", who |-> {}]
             [] Formers(s) = {} /\ Holders(s) # {} -> [kind |-> "held", who |-> Holders(s)]
             [] OTHER -> [kind |-> "retired", who |-> Formers(s) \cup Holders(s)]]

Slots_ == INSTANCE SlotPool WITH pool <- Pool

\* Every operation, half-done, failed or cut off by a restart, is a legal move of the slot pool:
\* the lowest free slot for an invitation, a retired one only for its former owner or after a release.
ImplementsSlotPool == Slots_!Spec

\* After disable or remove has answered with success nothing of that employee works any more: no
\* MetaMCP key, no account that can log in, no open web session, until the next invite or enable.
OffMeansOff ==
  \A n \in off : /\ mcp[n].key = NoAccess
                 /\ ~accounts[n].active /\ accounts[n].web = NoAccess

\* When everything has settled, exactly the users the portal shows as provisioned have a live key, and
\* it gives the slot and role of the state, again but for those an error has left half changed.
\* service.ts on remove: "a user left behind by a failed step is never provisioned again".
KeysMatchUsers ==
  Quiet => \A n \in Names \ erred :
    /\ Known(n) /\ users[n].status # "disabled" /\ users[n].prov = "ok" => mcp[n].key = AccessOf(users[n])
    /\ mcp[n].key # NoAccess => ToUsersJson[n] # NoAccess

\* When everything has settled, the groups in Authentik are those of the user's slot and role, and an
\* open web session carries no other groups than the account has.  An operation that answered with an error
\* may have left the access half changed: service.ts:319 writes the old role back and leaves the new
\* groups.  The next role change that answers with success mends it.
WebAccessCurrent ==
  Quiet => \A n \in Names \ erred :
    /\ Known(n) /\ users[n].status # "disabled" /\ accounts[n] # NoAccount
         => accounts[n].groups = AccessOf(users[n])
    /\ accounts[n].web \in {NoAccess, accounts[n].groups}

\* Every operation that was begun answers, whatever fails on the way, unless it waits for ever for a query
\* that hangs: its own revocation, or one of the run in front of it in the queue, its own or another's.
RunAwaitsDb ==
  IF run = NoRun THEN queue # <<>>
  ELSE run.step # "users" \/ run.removals # {} \/ run.todo # {} \/ run.clients # {}

Hangs(c) == At(c, "revoke") \/ (At(c, "waiting") /\ RunAwaitsDb)

CallsAnswer == \A c \in Calls : []<>At(c, "idle") \/ <>[]Hangs(c)

\* With a "read-only" token that exposes write tools, no reader ends up with a key that works, and
\* the portal shows the failure (the tripwire of metamcp.ts).
LeakyReadersCutOff ==
  Quiet /\ LeakyReader => \A n \in Names :
    Known(n) /\ users[n].role = "reader" /\ users[n].prov # "pending" /\ mcp[n].servers = AccessOf(users[n])
      => mcp[n].key = NoAccess /\ users[n].prov = "failed"

-----------------------------------------------------------------------------
(* What the documentation says and the code does not keep *)

\* docs/setup-portal.md on the company vault: writers use it also in the browser, readers do not.
ReadersStayOutOfBrowser ==
  Quiet => \A n \in Names : Known(n) /\ users[n].role = "reader" => accounts[n].groups.role # "writer"
=============================================================================
