---------------------------- MODULE Provisioner ----------------------------
(***************************************************************************)
(* metamcp.ts of the portal: the reconcile runs that bring MetaMCP to the  *)
(* state of the portal, one at a time, and the key revocation that goes    *)
(* straight to MetaMCP's database, outside the queue of the runs.          *)
(*                                                                         *)
(* One step per stretch of #reconcile between two awaits that matters: the *)
(* accounts that must go, then for each listed user the servers, the keys  *)
(* and the probe of the tool list.  The state a run works from ("spec") is *)
(* handed in by the composing module at the moment the run starts.         *)
(***************************************************************************)
EXTENDS Naturals, Sequences, FiniteSets

CONSTANTS
  Names,        \* user names
  Slots,        \* deployed slots, in deployment order
  Calls,        \* places for API calls that are in flight together
  NoName, NoCall,
  LeakyReader,  \* the vault's "read-only" token exposes tools that write
  FaultKinds,   \* which calls may fail: "db", "http", "authentik", "lost"
  MaxFaults     \* bound: failures in one behaviour

ASSUME ProvisionerAssumption ==
  /\ Slots \subseteq Nat \ {0} /\ IsFiniteSet(Slots)
  /\ NoName \notin Names /\ NoCall \notin Calls
  /\ LeakyReader \in BOOLEAN
  /\ FaultKinds \subseteq {"db", "http", "authentik", "lost"}
  /\ MaxFaults \in Nat

VARIABLES
  mcp,      \* MetaMCP: per name its account, its servers and its API key
  queue,    \* reconcile calls waiting for their turn
  run,      \* the run in progress
  faults    \* failures so far

provisionerVars == <<mcp, queue, run, faults>>

Roles == {"reader", "writer"}

\* What a vault token, a group set or a key gives: an own vault and a role on the company vault.
Access == [slot : Slots, role : Roles]
NoAccess == [slot |-> 0, role |-> "none"]

\* "key" is the access of the servers at the time the key was issued: sessions opened
\* with it keep these upstream credentials for as long as the key itself is accepted.
NoMcp == [account |-> FALSE, servers |-> NoAccess, key |-> NoAccess]
McpRecord == [account : BOOLEAN, servers : Access \cup {NoAccess}, key : Access \cup {NoAccess}]

Specs == [Names -> Access \cup {NoAccess}]
Listed(spec) == {n \in Names : spec[n] # NoAccess}

NoRun == [call |-> NoCall, rotate |-> {}, spec |-> [n \in Names |-> NoAccess],
          removals |-> {}, todo |-> {}, at |-> NoName, step |-> "none", changed |-> FALSE,
          clients |-> {}, failed |-> {}, error |-> FALSE]

RunRecord == [call : Calls \cup {NoCall}, rotate : SUBSET Names, spec : Specs,
              removals : SUBSET Names, todo : SUBSET Names, at : Names \cup {NoName},
              step : {"none", "users", "keys", "issue"}, changed : BOOLEAN,
              clients : SUBSET Names, failed : SUBSET Names, error : BOOLEAN]

ProvisionerTypeOK ==
  /\ mcp \in [Names -> McpRecord]
  /\ queue \in Seq([call : Calls, rotate : SUBSET Names])
  /\ run \in RunRecord
  /\ faults \in 0..MaxFaults

Fails(kind) == kind \in FaultKinds /\ faults < MaxFaults /\ faults' = faults + 1
Works == faults' = faults

-----------------------------------------------------------------------------
(* Outside the queue *)

KeysDeleted(n) == [mcp EXCEPT ![n].key = NoAccess]

Enqueue(c, rotate) == queue' = Append(queue, [call |-> c, rotate |-> rotate])

-----------------------------------------------------------------------------
(* One run *)

ValidSpec(spec) == \A m, n \in Listed(spec) : m # n => spec[m].slot # spec[n].slot

\* The spec is read here, when the run's turn has come, not when it was queued.
\* A structural error fails everyone; a failed select skips only the removals.
StartRun(spec) ==
  /\ run = NoRun /\ queue # <<>>
  /\ queue' = Tail(queue)
  /\ LET fresh == [NoRun EXCEPT !.call = Head(queue).call, !.rotate = Head(queue).rotate,
                                !.spec = spec, !.step = "users"]
         gone  == {n \in Names : mcp[n].account /\ n \notin Listed(spec)}
     IN \/ /\ Works
           /\ run' = IF ValidSpec(spec)
                     THEN [fresh EXCEPT !.todo = Listed(spec), !.removals = gone]
                     ELSE [fresh EXCEPT !.failed = Listed(spec), !.error = TRUE]
        \/ /\ ValidSpec(spec) /\ Fails("db")
           /\ run' = [fresh EXCEPT !.todo = Listed(spec), !.error = TRUE]
  /\ UNCHANGED mcp

\* Keys first, then MetaMCP's own clean-up, then the row: a failing sign-in is caught and
\* the row still goes.  Only the database itself failing ends the loop, with the keys
\* deleted or not.
RemoveAccount(n) ==
  /\ n \in run.removals
  /\ \/ /\ Works
        /\ mcp' = [mcp EXCEPT ![n] = NoMcp]
        /\ run' = [run EXCEPT !.removals = @ \ {n}]
     \/ /\ Fails("db")
        /\ mcp' \in {mcp, KeysDeleted(n)}
        /\ run' = [run EXCEPT !.removals = {}, !.error = TRUE]
  /\ UNCHANGED queue

NextUser == CHOOSE n \in run.todo : \A m \in run.todo : run.spec[n].slot <= run.spec[m].slot

UserDone(n)   == [run EXCEPT !.todo = @ \ {n}, !.at = NoName, !.step = "users", !.changed = FALSE]
UserFailed(n) == [UserDone(n) EXCEPT !.failed = @ \cup {n}]
UserOk(n)     == [UserDone(n) EXCEPT !.clients = @ \cup {n}]

\* The two servers, the namespace and the endpoint: created, or updated when they differ.
ReconcileServers ==
  /\ run.step = "users" /\ run.removals = {} /\ run.todo # {}
  /\ LET n == NextUser
     IN \/ /\ Works
           /\ mcp' = [mcp EXCEPT ![n].account = TRUE, ![n].servers = run.spec[n]]
           /\ run' = [run EXCEPT !.at = n, !.step = "keys",
                                 !.changed = mcp[n].servers \notin {NoAccess, run.spec[n]}]
        \/ /\ Fails("http")
           /\ mcp' = [mcp EXCEPT ![n].account = TRUE]
           /\ run' = UserFailed(n)
  /\ UNCHANGED queue

\* Bug: only a rotation replaces the key.
Replace_RotationOnly == run.at \in run.rotate

Replace == run.changed \/ run.at \in run.rotate

\* A key that must be replaced is deleted; one that may stay is kept.
ReconcileKeys ==
  /\ run.step = "keys"
  /\ \/ /\ mcp[run.at].key # NoAccess /\ ~Replace
        /\ run' = UserOk(run.at)
        /\ UNCHANGED mcp
        /\ Works
     \/ /\ mcp[run.at].key = NoAccess \/ Replace
        /\ mcp' = KeysDeleted(run.at)
        /\ run' = [run EXCEPT !.step = "issue"]
        /\ Works
     \/ /\ Fails("http")
        /\ run' = UserFailed(run.at)
        /\ UNCHANGED mcp
  /\ UNCHANGED queue

IssueKey ==
  /\ run.step = "issue"
  /\ \/ /\ mcp' = [mcp EXCEPT ![run.at].key = mcp[run.at].servers]
        /\ run' = UserOk(run.at)
        /\ Works
     \/ /\ mcp' \in {mcp, [mcp EXCEPT ![run.at].key = mcp[run.at].servers]}
        /\ run' = UserFailed(run.at)
        /\ Fails("http")
  /\ UNCHANGED queue

\* Bug: the role check is the wrong way round.
Trips_Writers(n) == LeakyReader /\ run.spec[n].role = "writer"

\* The tools are listed with the user's key; a reader with write tools loses the key.
Trips(n) == LeakyReader /\ run.spec[n].role = "reader"

Tripwire ==
  /\ run.step = "users" /\ run.removals = {} /\ run.todo = {} /\ run.clients # {}
  /\ LET n      == CHOOSE m \in run.clients :
                     \A k \in run.clients : run.spec[m].slot <= run.spec[k].slot
         passed == [run EXCEPT !.clients = @ \ {n}]
         failed == [passed EXCEPT !.failed = @ \cup {n}]
     IN \/ /\ mcp[n].key # NoAccess /\ ~Trips(n) /\ Works
           /\ run' = passed
           /\ UNCHANGED mcp
        \/ /\ mcp[n].key # NoAccess /\ Trips(n) /\ Works
           /\ run' = failed
           /\ mcp' = KeysDeleted(n)
        \/ /\ mcp[n].key = NoAccess /\ Works
           /\ run' = failed
           /\ UNCHANGED mcp
        \/ /\ Fails("http") \/ (Trips(n) /\ Fails("db"))
           /\ run' = failed
           /\ UNCHANGED mcp
  /\ UNCHANGED queue

\* Bug: a failed run never gives the queue back.
RunEnded_OnlyIfOk ==
  /\ run # NoRun /\ run.step = "users" /\ run.removals = {} /\ run.todo = {} /\ run.clients = {}
  /\ run.failed = {} /\ ~run.error

RunEnded ==
  run # NoRun /\ run.step = "users" /\ run.removals = {} /\ run.todo = {} /\ run.clients = {}

RunOk == run.failed = {} /\ ~run.error

\* The queue goes on whatever the result of this run.
EndRun == RunEnded /\ run' = NoRun /\ UNCHANGED <<mcp, queue, faults>>

\* The steps of a run that has started.
RunStep ==
  \/ \E n \in Names : RemoveAccount(n)
  \/ ReconcileServers
  \/ ReconcileKeys
  \/ IssueKey
  \/ Tripwire
=============================================================================
