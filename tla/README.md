# Verification of Lokyy Brain V2

TLA+ models of the parts of Lokyy Brain where several requests, timers, services or restarts meet,
TLC runs that check them on small instances, and TLAPS proofs, for every value of the constants, of
the session table and the requests of the mcp-gate, the slots of the portal, the queues of the
embedding service, the capture inbox, the sessions and LLM budgets of the MCP server, the paired
devices, the plans of the wiki operations and the trash. Source paths below are relative to the repository.

1. [The system: inventory](#1-the-system-inventory)
2. [Plan](#2-plan)
3. [Modules and the code they model](#3-modules-and-the-code-they-model)
4. [Runs](#4-runs)
5. [Fairness and deadlock](#5-fairness-and-deadlock)
6. [Proofs](#6-proofs)
7. [Disagreements](#7-disagreements)
8. [What is not modelled](#8-what-is-not-modelled)

How to run: `tlc -workers 2 -config X.cfg M` for a run, `tlapm M.tla` for each of
`Bindings_proofs`, `McpGate_proofs`, `PortalLifecycle_proofs`, `EmbedQueue_proofs`,
`CaptureInbox_proofs`, `McpServer_proofs`, `VaultRequests_proofs` (devices, trash, wiki
operations and the note pane) and `Feeds_proofs`.
`PROJECT.json` lists components, runs, mutants, the map from definitions to source lines, the hazards
and the theorems.

## 1. The system: inventory

One company server runs a vault per employee and one for the company, behind a login service
(Authentik), an aggregator of MCP servers (MetaMCP), a gate in front of it, a shared embedding
service and a portal in which administrators invite and remove employees.

| Component | State it keeps | Operations | Interacts with | What is hard | What makes it correct |
|---|---|---|---|---|---|
| **mcp-gate: session table** (`deploy/stack/mcp-gate/src/bindings.ts`) | map from MCP session id to owner; per API key the list of its ids, oldest first | bind, check, touch, unbind, sweep, hasCapacity | called by the gate's callbacks; calls `onRemove` | two structures kept in step inside two loops; a full table | both agree, caps hold, no key pushes out another's session, no loop spins |
| **mcp-gate: requests** (`gate.ts`, `main.ts`) | requests in progress, open streams, counters, a sweeper | headers, body and answer callbacks; close events; sweeper; its own DELETEs | binding table; MetaMCP over HTTP; clients | what the first callback checked is stale in the third; close events come late | no session changes hands, caps and stream limits hold, a stream dies with its binding and keeps it alive, sessions are not leaked upstream |
| **portal: employees** (`apps/portal/src/server/service.ts`, `state.ts`, `slots.ts`) | `state.json`: users, retired slots | invite, restore, resend, role, disable, enable, remove, release, reprovision, rotate key, first visit | Authentik through authentik-gate; the provisioner; employees' browsers | each operation is a chain of awaits over two services that can fail at each; two operations at once; restarts | one employee per slot, off means off, key and groups are those of the role, every call answers |
| **portal: provisioning** (`metamcp.ts`) | queue of reconcile runs; MetaMCP's accounts, servers and keys | reconcile (users, servers, keys, tripwire), revoke | MetaMCP's database and API | the runs are serialised, revocations are not; a run works from a state that may be old | keys only for listed users, a reader's key never carries write tools |
| **embedding service** (`deploy/stack/embed/src/service.ts`) | a queue per vault, the rotation, the streak of short requests, the pump | embed request, queue timer, disconnect, pump | vaults over HTTP; the model | the pump awaits between picks while handlers change the queues; two priorities in one rotation | the rotation matches the queues, caps, no lost wake-up, every request is answered |
| **vault server: capture inbox** (`apps/server/src/lib/inbox.ts`, `capture-worker.ts`, `routes/inbox.ts`) | one JSON file per capture in three directories | add, tick of the worker, compile/retry, delete | capture clients, RSS worker, compiler, LLM | nothing locks the files; moves are a write and an unlink | nothing is lost, nothing is ingested twice, a queued capture is taken up |
| **vault server: feeds** (`lib/rss-worker.ts`, core `feeds/store.ts`) | feeds with their seen items and validators | tick, poll one, add, update, remove | inbox, feed servers | polls overlap and have no bound; single items fail; the file is written at every poll | an item comes once, and comes at all |
| **vault server: synthesis cache** (`lib/synthesis-cache.ts`, `synthesis-worker.ts`) | list of stale topics, cache files | mark stale, rebuild, clear | wiki writes, LLM | list read, await, written back whole; not every writer marks | a marked change of a page leads to a rebuild |
| **vault server: embedding index** (`lib/embedding-indexer.ts`, `embedder.ts`) | vectors per page, back-off | sweep, index one, remove | embedding service, wiki writes | two versions of a page in flight | the newest version is stored last |
| **vault server: wiki operations** (`ops/runner.ts`, `executors.ts`) | plans held for ten minutes, slug reservations, locks | plan, execute, cancel, expire | wiki store, LLM | a directory listing, reservations and writes with awaits between them | two plans that wait never propose one page |
| **vault server: devices** (`lib/devices.ts`) | list of devices as a file and a cache, pair codes | pair, redeem, verify, revoke | the routes | the cache is filled after an await, the file truncated and written whole | an answered pairing or revocation stays |
| vault server: briefs, repetition | last brief, cards | send brief, review | timers and routes | timer and manual run | one brief a day |
| **MCP server** (`apps/mcp/src/http.ts`, `lib/rate-limit.ts`) | sessions per profile, those being opened, two sliding windows per reader session | open, call, stream, close, sweep, LLM call | gate, wiki store | checks before an await, requests that outlive their session | caps and LLM budgets hold, a session at work is not closed for another |
| **core: trash** (`storage/file_store.ts`) | files, entries with manifests | move, restore, purge, empty | the trash routes, every writer | paths one by one, one manifest | no content is lost |
| core: compile, classify, analysis, search, wiki | none of their own | text and graph algorithms | vault server, MCP server | sequential | (functions) |
| **web application: note editor** (`apps/web/src/components/NotePane.tsx`, `editor/LivePreviewEditor.tsx`) | title, body, three timers, requests in flight | type, save, switch note or view | the tree routes | three savers that know nothing of each other; callbacks that see an old render | what is shown is what was saved, and in its own file |
| web application: the rest, clients, deployment scripts | view state | requests to the routes above | – | – | – |

The hazards of this code, each at its line, are in `PROJECT.json`.

## 2. Plan

Written first, because they decide who may see which vault, then what may stop answering, then what
may be lost:

1. `SessionOwners`, `Bindings` – checked, refined and proved.
2. `McpGate` – checked, its invariants proved. It uses the table at the granularity
   of its calls, which `Bindings` justifies.
3. `SlotPool`, `Provisioner`, `PortalLifecycle` – checked; `PortalLifecycle` composes `Provisioner`
   and refines `SlotPool`, which is proved.
4. `EmbedQueue`, `EmbedTurns` – checked, the invariants proved.
5. `CaptureInbox` – checked, the invariants proved.
6. `Feeds`, with the window of recent captures of `Inbox.add` – checked, the invariant proved.
7. `SynthesisCache`, `EmbeddingIndex` – checked.
8. `McpServer`, `OpsPlans`, `Trash` – checked and proved.
9. `Devices` – checked and proved.
10. `NoteEditor` – checked and proved.

What would come next:

11. `TokenBucket`, the rate limits of gate and embedding service, with a bound on what is granted.
12. The brief scheduler: the timer beside a manual run.
13. Pure functions against reference definitions: SM-2 (core `srs`), rank fusion (core `search`).

Theorems worth proving next: what of `KeysMatchUsers` is left when calls to MetaMCP fail (it does not hold
as it stands, section 7), and the safety properties of `SynthesisCache` and `EmbeddingIndex`.

## 3. Modules and the code they model

| Module | Stands for | State | Actions |
|---|---|---|---|
| `SessionOwners` | the promise of bindings.ts (its header comment) | owner of each session | `Grant`, `Release` |
| `Bindings` | bindings.ts, every public method and each iteration of its two loops | `map` = `#map`, `perKey` = `#perKey`, `pc`/`call`/`ret` the method in progress | `CheckSession`, `Touch`, `Unbind`, `StartSweep`/`SweepOne`/`SweepDone`, `StartHasCapacity`/`Decide`, `StartBind`/`EvictOne`/`Insert`, `Tick` |
| `McpGate` | gate.ts and the sweeper of main.ts | bindings, `req` = connections with their stage, `streams`, `keyStreams` = `streamsPerKey`, `deletes`; `metamcp` is external and opens a session for every initialize, also one on an existing session | one action per callback: arrival of headers, end of body, answer, close event, sweeper |
| `SlotPool` | what the portal promises about slots | slot: free, held or retired | `Assign`, `Restore`, `GiveBack`, `Retire`, `Release` |
| `Provisioner` | metamcp.ts | `mcp` (accounts, servers, keys), `queue` and `run` of reconcile calls | `StartRun`, `RemoveAccount`, `ReconcileServers`, `ReconcileKeys`, `IssueKey`, `Tripwire`, `EndRun`; `KeysDeleted` outside the queue |
| `PortalLifecycle` | service.ts on top of it; state.ts is one atomic update | `users`, `retired` = state.json, `accounts` = Authentik (external), `calls` in flight | one action per stretch between two awaits, see below |
| `EmbedQueue` | service.ts of embed | `queues`, `rotation`, `current`, `total`, `streak` by name; `pump` says at which await the loop is | `Enqueue`, `QueueTimeout`, `ClientGone`, `Pick`, `Inferred` |
| `EmbedTurns` | the same with a history variable | `passed`: how often a bulk request was passed over | – |
| `CaptureInbox` | inbox.ts, capture-worker.ts, the inbox routes | `files` by directory, `procs` = runs of `processOne`, `running` | `AddOpen`/`AddWrite`, `Tick`/`TickNext`, `Retry`, `Delete`, `Look`, `MarkRead`/`MarkOpen`/`MarkWrite`/`MarkUnlink`, `Compile`, `Crash` |

| `Feeds` | rss-worker.ts, feeds/store.ts, the feed routes, the window of `Inbox.add` | `feed` = the cache, `file` = what a reader may find in feeds.json, `writing` = writes of it in flight, `polls` in flight with their copy of the seen items, `polling` = the flag, `recent` = `recentKeys`; the feed's server is external | `FeedTick`, `PollOne`, `Fetched`, `Item`, `Finish`, `PollSaved`, `Edit`/`EditSaved`, `KeyExpires`, `FeedsRestart` |
| `SynthesisCache` | synthesis-cache.ts, synthesis-worker.ts, the writers of pages with and without `markStaleFor`, POST /api/synthesize | `cached`, `index`, `stale` = the files, `jobs` in flight, `inflight` | `Change`, `MarkRead`/`MarkWrite`; `SynthesisTick`, `Decide`, `Synthesize`, `ReadPages`, `LlmAnswers`, `Reindex`, `ClearRead`/`ClearWrite` |
| `EmbeddingIndex` | embedding-indexer.ts, embedding-store.ts | `vector` = stored vectors, `poisoned`, `embeds` = runs of `embedIfStale`, `sweep`/`interval` = timer and back-off | `ReadText`, `Embedded`, `StoreVector`, `SweepStarts`/`SweepEnds`, `IndexOne`, `WritePage`, `Reboot` |
| `McpServer` | http.ts and rate-limit.ts of apps/mcp | `phase`, `profile`, `seen`, `inFlight` by session, `pending` by profile, the windows | `Initialize`, `Registered`/`NotRegistered`, `Sweep`, `Stream`, `Call`/`CallEnds`, `Delete`, `LlmCall`, `Tick`; `Reuse` lets an id stand for the next session |
| `Trash` | file_store.ts, routes/trash.ts | `file`, `entry`, `dirs`, `manifest`, the requests in flight | `MoveToTrash`, `LookAt`/`MoveFile`, `WriteManifest`; `Restore`, `LookForRoom`/`PutBack`, `RemoveEntry`; `PermanentlyDelete`, `EmptyTrash`, `WriteFile`, `Halt` |
| `Devices` | devices.ts | `codes`, `lists` = arrays in memory, `cache`, `disk`, `writing` = what each write in flight may leave, `ops` in flight | `Redeem`, `Ask`, `Load`/`ReadFile`, `Change`, `Matched`, `Written`, `Boot` (also within a write) |
| `OpsPlans` | runner.ts and executors.ts: contribute and research | `jobs`, `held` = `reservedSlugs` with deadlines, `research` = files | `Complete`, `ReadNames`, `Hold`, `Apply`, `Research`, `CreatePage`, `FindName`, `WritePage`, `RemovePage`, `OpsTick` |
| `NoteEditor` | NotePane.tsx, LivePreviewEditor.tsx, GET and PUT of routes/tree/crud.ts | `files` on the server, `pane` = state and refs of pane and editor, `loads`/`puts` in flight, `late` = `sourceSaveTimer`; `mixed` and `excused` remember the races | `EditTitle`, `EditBody`; `TitleTimer`, `BodyTimer`, `LateTimer`, `Command`, `Write`, `Saved`/`Refused`; `OpenNote`, `Read`, `Loaded`/`NotLoaded`, `Switch`, `Leave` |

`MCBindings`, `MCMcpGate`, `MCPortal` and `MCEmbedTurns` give symmetry sets and the initial staff.
`MCVaultRequests` puts `McpServer`, `Trash`, `Devices`, `OpsPlans` and `NoteEditor` beside each other,
`MCVaultWorkers` puts `Feeds`, `SynthesisCache` and `EmbeddingIndex`. The modules of such a group share
no state in the code (different files, maps and processes), so interleaving them would only multiply
their states: the variable `part` picks the one at work in a behaviour, and the states add up.

The `_proofs` modules hold the theorems (section 6).
Definitions called `X_SomeBug` with the comment "Bug:" are mutants: the mutated forms against which
the properties are tested. They are used by no specification.

**JavaScript and steps.** A handler runs without interruption to its next `await` or callback, so
that stretch is one step; everything it read before is stale afterwards. `Bindings` is finer than
that (its methods never yield): its loops are cut into iterations so that the invariants are those
of the loops.

**Time.** No clock: in `Bindings`, `McpGate`, `McpServer` and `OpsPlans` there are ages or times left,
which saturate one beyond the limit they are compared with; elsewhere a timer may fire at any moment.
So may the window of five minutes in which `Inbox.add` remembers a key end at any moment, also while
the poll that made the key is at work: nothing bounds a poll, which takes up to 15 seconds per item.

**Portal operations.** A call holds the user record `u` it read at its start, as the code does, and
uses it in all later steps: the slot, the primary key of the account, the old role. A step that calls
Authentik or MetaMCP can work, fail without effect, or work and lose its answer (a timeout); kinds of
failures are "db", "http" (MetaMCP), "authentik" and "lost". After an error the operation goes where
the code's catch goes: rollback, remember and continue, or throw. `Overlap` allows two
administrators' calls on one employee in flight together; nothing in the code forbids it, and the
runs that set it to FALSE say what holds as long as it does not happen. The employee's own rotation
of the key always overlaps. `off` remembers whose last disable or remove was answered with success,
`erred` who has had an operation that was answered with an error (or cut off by a restart) and no
successful change of the role since: their access may be half changed.
A key is modelled by the access (slot and role) of the servers at the time it was issued, because
sessions opened with a key keep those credentials. The lookup and the write of `ensureUser` are one
step. Mail, audit log, company and LLM settings, and the uniqueness of mail addresses are left out.

**Files.** `fs.writeFile` truncates the file and then fills it. Between the two its contents are torn: a
reader's `JSON.parse` throws, a reader of the list `.stale` finds it empty. A restart in between leaves the
file torn, and two writes of one file that overlap may leave either content or a mixture that does not
parse. Inbox, feeds.json, devices.json, the list of stale topics and the reverse index are all written like
this. An inbox file that was unlinked while open stays gone.

## 4. Runs

Passing runs; each property has a mutant (`PROJECT.json`) that violates it.

| Run | What it checks | Bounds |
|---|---|---|
| `bindings` | map and lists agree, oldest first (`ListsMatchMap`), `WithinCaps`, `AnswersAreTrue` (bind's answer, and refusal only when full of live sessions), `RemovedForCause`, refinement of `SessionOwners` | 4 sessions, 3 keys, 2 endpoints, table of 3, 2 per key, both ages expire |
| `gate` | `NoSessionChangesHands`, `GateWithinCaps`, `StreamsFollowBindings` (also the counters), `SessionsExpireWhenIdle` (a stream keeps its session, the sweeper takes the others), `SessionsNotLeaked` (which names the four ways in which MetaMCP's sessions are left behind) | 2 connections, 3 sessions, 2 keys, table of 2, one stream per session and key |
| `portal_slots` | refinement of `SlotPool` (a slot has one owner), `CallsAnswer` (unless the call waits for a database query that hangs) | 2 employees, 2 slots, 3 calls, 2 at a time; one failing or lost call; one restart |
| `portal_access` | once settled: `KeysMatchUsers`, `WebAccessCurrent` (groups and sessions), for everybody outside `erred` | every operation, 3 calls, 2 at a time, logins; one call that Authentik refuses |
| `portal_off` | `OffMeansOff` (after a successful disable or remove: no key, no login, no open web session), `LeakyReadersCutOff` | 3 calls, 2 at a time; one failing Authentik call; a vault whose read-only token exposes write tools |
| `embed_queue` | `QueuesConsistent` (`RotationMatchesQueues`: no wake-up is lost either; `CapsHold`), `BulkIsServed`, `RequestsAnswered` | 2 vaults, 3 requests in flight of up to 2 texts, again and again; 2 per vault, 3 in all; every third text for bulk |
| `capture` | `NothingLost`, `IngestedOncePerRequest`, `QueuedTakenUp` | 2 captures, a retry request, a deletion, a restart |
| `vault_requests`, sessions | `SessionsWithinCaps`, `PinnedSessionsStay`, `LlmBudgets` | 3 sessions, 2 requests, caps 1 and 2, one LLM call per session and two in all within two ticks |
| `vault_requests`, trash | `ContentsKept` | 2 paths, 2 deletions, 2 restores, one new content, halts at any time |
| `vault_requests`, devices | `AnswersAreKept` | one paired device, 2 requests for one code, a revocation, a verification, one restart, also within a write |
| `vault_requests`, plans | `PlansHoldTheirPages` | 2 plans, a research operation, 2 slugs, 2 names each, plans held for one tick |
| `vault_requests`, note pane | `EditsAreSaved` | 2 notes; 4 acts of the user (an edit, command-S, another note or view, leaving) or failed requests, from the first load on; 5 were checked too, in a run of its own |
| `vault_workers`, feeds | `ItemsOnce`, `ItemsArrive` | an old and a new item, a memory of one; timer and poll on request; one edit, one restart, also within a write of feeds.json |
| `vault_workers`, syntheses | `TopicsRebuilt` | a page with 2 versions, 2 topics, 2 ticks, a writer that marks or does not, a request with force |
| `vault_workers`, embeddings | `NewestVectorStays` | a page with 3 versions, 3 failures other than HTTP 500, back-off 1, 2, 4, one restart |

In `vault_requests` and `vault_workers` one type invariant covers all parts (`PartsTypeOK`,
`WorkersTypeOK`); the other runs have `TypeOK`. The properties of code that has
races it does not close (`ItemsOnce`, `ItemsArrive`, `TopicsRebuilt`, `AnswersAreKept`, `EditsAreSaved`,
`KeysMatchUsers`, `WebAccessCurrent`) name those races in the property, with a history variable that is set
at the very step at which the race happens (`overlapped`, `outlasted`, `forgotten`, `arrived`, `excused`,
`coldRace`, `writeRace`, `mixed`, `erred`) or, for a subscription that a write of feeds.json has lost, with
`Lost`: what they say is that nothing else breaks the promise. The races themselves are in section 7.

Violation runs, each a disagreement between a comment or doc and the code (section 7):
`role_undone`, `embed_bulk_starved`, `capture_stuck`.

**Why these bounds.** The caps of tables and queues are set below the number of sessions or requests,
so that eviction, refusal and sweeps happen all the time. A hazard of two actors needs two calls in
flight and a third thing that changes under them: three calls in the portal, two connections and a
sweeper in the gate, two deletions and two restores in the trash. Identities are reused when a request
is over (gate, embed, MCP server), so their number bounds what is in flight and not the length of a
behaviour; the portal bounds the operations of a behaviour (`MaxCalls`), failures (`MaxFaults`) and
restarts (`MaxCrashes`), the inbox retries, deletions and restarts, the other modules contents,
versions, edits and restarts (`Max...`). One failure is enough to reach every catch; what two failures
in one operation do is not checked. A feed that remembers one item stands for one that remembers 200:
the case that counts is a list longer than the memory. A page needs three versions for two vectors to
be in flight while a third text is written. Symmetry is used for keys, sessions, connections and calls
where no liveness property is checked. `BulkEvery` is 2: with 1 and two vaults `RequestsAnswered`
does not hold (section 7).

## 5. Fairness and deadlock

- `Bindings`, `McpGate`, `McpServer`, `Trash`, `Devices`, `OpsPlans` have none: what is checked of them
  is safety.
- `PortalLifecycle`: weak fairness of the steps of an operation that call Authentik or write the state:
  those calls have timeouts (authentik.ts) and those promises settle. Not fair is whatever waits for
  MetaMCP's database: the pool of main.ts:31 has no timeout, nor has the DELETE of metamcp.ts:381 a signal,
  so the step "revoke", the start of a run and its steps may hang for ever. `CallsAnswer` says
  that an operation answers or waits for one of these, its own or that of a run in front of it. Nothing
  forces an operation to begin, an employee to log in, or a failure.
- `EmbedQueue`: weak fairness of the pump: `setImmediate` fires, and an inference ends by its result
  or by its own timer. The queue timers of requests are deliberately not fair: a request must be
  answered because it is served, not because it is given up.
- `CaptureInbox`: weak fairness of the worker and of each retry: `setInterval` fires again and again,
  and fetching, transcription and the LLM adapters end by themselves or by timeouts.
- `Feeds`: weak fairness of the timer and of the steps of each poll (fetches have timeouts), and strong
  fairness of the answers to the timer's polls: a feed's server that is asked again and again is up
  sooner or later. Both are for the timer's poll only: a poll on request need not happen and may hang, an
  item need not be published.
- `SynthesisCache`: weak fairness of the steps of each tick (a timer of five seconds, an LLM with a timeout)
  and of a compilation that has begun to mark. Failing answers are not excluded, they end in `excused`.
- `EmbeddingIndex`: weak fairness of the timer and of runs that have begun; `indexOne` need not be
  called. Failures other than HTTP 500 are finitely many (`MaxFaults`), HTTP 500 is not bounded.

Deadlock is checked except in the portal runs and the two `vault` runs: there operations, contents or
versions are bounded and everything comes to rest.

## 6. Proofs

All theorems are of the specifications that TLC runs, for every value of the constants under the
assumptions named here.

| Theorem | Statement | Assumptions |
|---|---|---|
| `Bindings_proofs!TypeCorrect` | `Spec => []TypeOK` | `BindingsAssumption`: caps are positive, which `int()` in main.ts enforces; the set of sessions is finite |
| `Bindings_proofs!ListsAlwaysMatch` | `Spec => []ListsMatchMap`: map and lists agree, oldest binding first, also between two iterations | the same |
| `Bindings_proofs!CapsHold` | `Spec => []WithinCaps` | the same |
| `Bindings_proofs!AnswersAlwaysTrue` | `Spec => []AnswersAreTrue` | the same |
| `Bindings_proofs!OnlyForCause` | `Spec => RemovedForCause`: a binding goes because it expired, was unbound, or was given up for its own key | the same |
| `Bindings_proofs!TableImplementsOwners` | `Spec => ImplementsOwners` | the same |
| `McpGate_proofs!TypeCorrect` | `Spec => []TypeOK` | the two assumptions of `McpGate` |
| `McpGate_proofs!SessionsStayWithOwners` | `Spec => []NoSessionChangesHands` | `NobodyAssumption`: "nobody" is no binding, session or connection; connections are finitely many |
| `McpGate_proofs!StreamsAlwaysFollow` | `Spec => []StreamsFollowBindings` | the same |
| `McpGate_proofs!CapsAlwaysHold` | `Spec => []GateWithinCaps` | `GateAssumption`: limits are positive, the sweeper runs at least once per idle limit (main.ts) |
| `McpGate_proofs!IdleSessionsExpire` | `Spec => []SessionsExpireWhenIdle` | the same |
| `McpGate_proofs!NoSessionIsLost` | `Spec => SessionsNotLeaked` | the same |
| `PortalLifecycle_proofs!TypeCorrect` | `Spec => []TypeOK` | `ProvisionerAssumption`: finitely many slots, numbered from 1; `LifecycleAssumption`: the initial staff is a valid list |
| `PortalLifecycle_proofs!SlotsAreAPool` | `~Overlap => (Spec => ImplementsSlotPool)` | the same, and that no two administrators' calls on one employee overlap; with overlap it does not hold (section 7) |
| `PortalLifecycle_proofs!OffStaysOff` | `NothingHalfDone => (Spec => []OffMeansOff)` | the same; no two administrators' calls on one employee overlap, no call to MetaMCP's database fails, no answer of Authentik is lost, the portal is not restarted |
| `PortalLifecycle_proofs!LeakyReadersStayOut` | `LeakIsSeen => (Spec => []LeakyReadersCutOff)` | the first two; MetaMCP and its database answer, the portal is not restarted, and if the token leaks, nobody was a reader at the start. Overlapping calls, failing calls to Authentik and lost answers are in |
| `PortalLifecycle_proofs!WebAccessStaysCurrent` | `NothingHalfDone => (Spec => []WebAccessCurrent)` | as for `OffStaysOff`: Authentik may refuse any number of calls and runs may fail over HTTP |
| `PortalLifecycle_proofs!KeysStayMatched` | `RunsAnswered => (Spec => []KeysMatchUsers)` | no two administrators' calls on one employee overlap, calls to MetaMCP do not fail, no answer is lost, the portal is not restarted; Authentik may refuse any number of calls |
| `EmbedQueue_proofs!TypeCorrect` | `Spec => []TypeOK` | `EmbedAssumption`: caps and `BulkEvery` are positive |
| `EmbedQueue_proofs!QueuesAgree` | `Spec => []QueuesConsistent` | the same |
| `EmbedQueue_proofs!BulkGetsItsShare` | `Spec => []BulkIsServed` | the same |
| `CaptureInbox_proofs!TypeCorrect` | `Spec => []TypeOK` | `InboxAssumption`: ticks and retries are different processes, the bounds are natural numbers |
| `CaptureInbox_proofs!NoCaptureIsLost` | `Spec => []NothingLost` | the same |
| `CaptureInbox_proofs!IngestedAsAsked` | `Spec => []IngestedOncePerRequest` | the same |
| `McpServer_proofs!CapsAlwaysHold` | `Spec => []SessionsWithinCaps` | `CapsArePositive`; finitely many session ids and requests |
| `McpServer_proofs!PinnedAlwaysStay` | `Spec => PinnedSessionsStay` | the same |
| `McpServer_proofs!BudgetsAlwaysHold` | `Spec => []LlmBudgets` | the same, and `LimitsAreNatural`: what `readerLlmRateLimitFromEnv` accepts |
| `VaultRequests_proofs!AnswersAlwaysKept` | `Distinct => (DevicesInit /\ [][DevicesNext]_devicesVars => []AnswersAreKept)` | `Distinct`: a request is of one kind, and a device that is being paired is not one paired before |
| `VaultRequests_proofs!PlansAlwaysHoldTheirPages` | `OpsInit /\ [][OpsNext]_opsVars => []PlansHoldTheirPages` | `OpsAssumption`: `Ttl` is a natural number, a page has at least one name |
| `VaultRequests_proofs!ContentsAlwaysKept` | `TrashInit /\ [][TrashNext]_trashVars => ContentsKept` | `NoPathIsNone` |
| `VaultRequests_proofs!EditsStaySaved` | `NotesInit /\ [][NotesNext]_noteVars => []EditsAreSaved` | `NotesAssumption`: "none" and "unread" are no notes, the note that is open first is one, the bound is positive |
| `Feeds_proofs!CapturedOnce` | `FeedsInit /\ [][FeedsNext]_feedsVars => []ItemsOnce` | `FeedsAssumption`: finitely many items, the timer's poll is not one on request and the editor neither, the bounds are natural numbers |

**Bindings.** The inductive invariant ties three things together. `WithinCaps` alone is not
inductive: `Insert` keeps the caps only because the loop's condition has just been false for the
*list* of the key, so the list must have as many entries as the key has bindings (`ListsInv`), and a
full table without own entries must have been refused before the loop (`CallInv`, which ties `pc` to
the running call: in "evict" the call is a bind of an id that is not bound, and there is room or an own
binding). `RemoveKeeps` is the lemma for every removal: taking one id out of the map and its list
keeps both structures in step. There is one lemma per action; `NextKeeps` collects them.
`OnlyForCause` uses that the victim of an eviction is the key's own (`VictimIsOwn`), which is
`ListsInv` again. The order of a list is that of the ages of its bindings: an insertion appends the
youngest, a removal leaves the order of the others. The refinement maps the table to `ownerOf`; a step
of bind's loop is a `Release`, `Insert` is a `Grant` that needs the caps after it.

**McpGate.** `GateInv` strengthens the two invariants with `Fresh`: a session that an answer to an
initialize carries is bound to nobody and presented by no other connection, because MetaMCP has just
made it. Without it the binding made by that answer could be that of a request which is between its
checks. `Created` says that what is bound or presented is an id MetaMCP has made, `Streaming` which
stage a connection with a stream is in, and `Counted` that the counter of a key is the cardinality of its
streams, whose owner may be gone: the close event that comes after an eviction finds the set gone and
the counter not. `TableInv` is a second invariant on top of it, for caps and expiry: the list of a key
holds exactly its bindings, each once (`Listed`), so that what a bind gives up is counted right and the
table shrinks by as much as the list (`Capped`); and a session with a stream was touched since the last
sweep, so that at most `SweepInterval` has passed (`Timely`). A full table is swept before anything is
given up, and the number that `Without` takes from a list is that of the removed elements in it, for
which sets and sequences are counted together by rank. What the gate loses sight of depends on what
MetaMCP has answered: `Told` says that a session it answered 404 for, or deleted on the client's request,
is gone there. A request carries a new session when MetaMCP has opened one for it, which it does for every
initialize, also for one that the gate takes for a call because it came on an existing session. `NothingLost`
is then the one rule for every step: what leaves the table is in `deletes`, gone or rejected, and what a
request carried is bound or in `deletes` when the request ends, unless it ends with the table as it was. That
is the exception of the property: the client hung up, or the answer belongs to an existing session and the
gate strips the new id from it (section 7).

**PortalLifecycle.** Types are not evident here, since a call carries the record it read at its start
through all its steps: `Stages` says which fields are set at which stage, `RunIsFor` whose run is in
progress and that it is at a user between the servers and the key. `NextInOrder` gives the user a run
takes next. `PoolInv` adds what makes the slots a pool: a call that works on an employee's slot has in its
copy the slot that `state.json` has (`ClaimsHold`), which is lost as soon as two administrators' calls on
one employee overlap (`OneCallEach` excludes it; the employee's own rotation may overlap, and it changes no
slot); and a slot has one employee or one retired entry (`OneOwner`). The refinement maps `state.json` to
the pool; each stretch of an operation is then a step of it or a stutter, the failures, rollbacks and
restarts included.

That off means off is about three places at once, and `PortalInv` has a part for each. `KeyInv`: the
`authentikPk` of `state.json`, which disable and remove read before their first await, is the account's,
except between the two writes of an operation that is in progress, and no other operation on that employee
is; keys of accounts are given once, so that what is done by key is done to that employee (`AccountOf`).
`OffInv` follows a disable or a remove through its stages: from the patch on the employee is not listed,
once deactivated the account cannot log in, and only then the sessions are ended, or a new one would slip
in between; and no operation that creates or enables an account is for somebody who is off. `RunInv` is
about the runs, which read the state when their turn comes: a call waits for one run (`QueueWaits`), the
run of a disable or remove has a spec without that employee, so at its end either the account has been
removed or there was none (`Targets`), whatever key an earlier run, which still listed the employee,
issued after the revocation; and a key needs an account (`KeysHaveAccounts`). `Effect` says what a step of
an operation may do to its employee; there is one lemma per action which shows it, and `EffectKeys`,
`OffStill` and `RunStill` carry the invariant over it.

The hypothesis `NothingHalfDone` leaves out what makes the property false (section 7): an answer that is lost,
or a restart, between the creation of the account and the patch of its key leaves an account which a later
remove skips; a failure of the database in the removals of a run leaves the key that an earlier run issued,
and disable answers with success all the same. Refused calls to Authentik and failing calls to
MetaMCP's interface are in, in any number and at any step.

The other three theorems of the portal are about what runs of reconciliation leave. `RunSteps` reduces a step
of a run to six shapes: an account is removed, servers are set, a key is kept, dropped or issued, a client is
probed by the tripwire; each names the fields it changes, and everything below is shown shape by shape.
`RunWorks` says what a run has done so far: whoever is no longer in `todo` and has not failed has the servers
of the run's spec, and is either in `clients`, which the tripwire still goes through, or no reader of a leaky
token.

That readers of a leaky token stay out (`CutOff`): a reader's key exists only while the run has that reader in
hand, and `state.json` shows such a reader as provisioned only until the run's failures are written back. This
needs no order of the administrators' calls, since it follows MetaMCP's own record of the role and not the
portal's; it needs that runs come to their end, because the tripwire is the run's last step, and that no
reader's key is older than the leak (the run revokes a key only when the servers change).

Groups and sessions (`WebInv`): `CallCurrent` says that what an operation read at its start still fits the
employee when it writes, and `WebUnder` what may differ at which stage of which call: the groups only between
the patch of the role and `ensureUser`, a session only until the same call ends it. A refused call to Authentik
breaks it, because the rollback of the role does not take the groups back (section 7). From the error on
nothing is said of that employee (`erred`), of all others everything; and the next change of the role that
ends well must find its way back from whatever the error has left: it writes the role, the groups and ends
the sessions, so that at its end `WebOf` holds again without having held before.

Keys (`KeyState`): the key is that of the user's servers unless the run is about to replace it (`Keyed`); the
spec of the run in progress is that of the state, or an operation on the employee is under way whose own run
is still to come (`SpecCurrent`, `BusyElse`); who is shown as provisioned has the servers of the state and a
key, or the run has just taken it away to issue a new one, or has failed and is about to show it (`KeyGood`);
and who is not listed has no key, or the disable or remove that took them off the list has not finished
(`NoKey`). An employee in `erred` is left out of the last two; the runs go on around them, with a spec that
may be old for them alone (`Spoilt`), until the run of their next change of the role, which has read the
state after it. Runs for other employees, rotations and reprovisioning happen in between: `BesideKeys` is the frame
lemma for whatever is not about the employee, and `RunWaits` says that the run is never for a call that has
not yet asked for one. That calls to MetaMCP do not fail (`RunsAnswered`) is needed: TLC shows the violation with one "http" fault
(section 7).

**EmbedQueue.** `QueueInv` counts instead of following the code: a request is in the queue of its vault,
once, exactly while it is known (`QueueOfVault`); a vault with requests is in the rotation or is the one in
the model (`VaultInTurn`); what is in the model was started and not yet taken away (`InTheModel`). The
pump's await is between the last two, and each handler that runs there keeps them. That the pump sleeps
only over empty queues then follows from the counter being the real number (`CountIsReal`).
`BulkIsServed` needs `row <= streak`: the model's count of short texts in a row is never above the code's
streak, which a bulk turn resets.

**CaptureInbox.** `InboxInv` follows a capture through its files: its file leaves the queue only when its
copy is complete (`Copied`), a torn file is being written by somebody or was left by a restart
(`TornIsWritten`), what a tick has in its list is in the queue or compiled until the tick looks at it (`ListedStays`,
with the flag that keeps the ticks apart, `OneTick`), whoever is past the first mark has marked it
(`Marked`). `Paid` bounds the documents: what was ingested and what is still on its way to be, together, are
at most one of the worker and one of each retry request.

**McpServer.** `CountFor` adds a counter to the size of a set. The invariant is that the counter is the
number of sessions in "starting", so that a registration moves one from the counter to the map; an
eviction happens only at the cap, and makes exactly the room the new session takes. For the pins the
counter `inFlight` is the number of the session's calls in progress, also after the session was closed
and until its last call has ended, which is why an id may not be used again before. For the budgets
(`BudgetInv`) a window must agree with the history of granted calls at *every* age, not only at the limit,
since time makes every entry older at once: up to each age the window of a session holds as many calls as
that session was granted, and the shared one as many as all were. Entries are sorted, so that the old ones
are at the head, where `hasCapacity` looks.

**Devices.** As long as the file was never read twice at once there is one list: whoever has a list has
the cache (`OneList`), in each life of the server. It only gains devices and revocations, so that what an operation did to it is still
there when its write ends and it answers (`Done`). That needs `Asked`: a device is not revoked before its
pairing was answered. The file is the list or is about to be, as long as no two writes overlap
(`FileFollows`): a restart then finds the list from before the write, that from after it, both of which keep
what was answered, or a torn file, from which no operation gets a list any more. After an overlap only a
restart brings the file back, which is the exception the property makes (`CacheKeeps`). A verification
remembers in `since` what had been answered of its device when it began; if that was the revocation, the
list it looks at has the device revoked (`NoneFooled`). One that began before may await argon2 while the
revocation is answered, and accepts (section 7).

**Wiki operations.** Reservations are kept per page, plans per operation, and both are pruned in one
pass by the same deadline: the invariant `HoldInv` says that a page's reservation and its plan carry the
same time left, that no two waiting plans share a page, and that a reservation with time left belongs to
a waiting plan. So `Apply`, which deletes the reservations of its own pages, deletes no other plan's.

**Trash.** A content sits in one place at each moment, so that the rename of a move or a restore loses none
unless its target is taken. `TrashInv`: a request that has not begun has an empty entry (`Fresh`: so a
rename into it overwrites nothing), an entry with a manifest holds only paths which the manifest lists
(`ManifestFull`), and a restore has put back, skipped or still to do every path of its entry (`Tried`); so
what the removal of the entry destroys was skipped.

**Note pane.** `NoteInv` holds of the note the pane shows as long as it has met none of the races that
`mixed` and `excused` record. For the title and for the body, each: it is *kept*, that is every save on its
way that is not yet written carries it, and the file has it or such a save of the editor or of the source view will write it; or something is
still to save it (`TitleSafe`, `BodySafe`). For the title that is its timer, or a save of the pane that
is running while the title is dirty, since the effect sets the timer anew when that save ends with an error; a save of
the pane is not counted on by itself, because after an error only a dirty title is tried again. When a save
ends well the title is no longer dirty, whatever was typed meanwhile. So it must be known that a
save which carries the title of now has put it into the file and that no older one is to be written after it: `InOrder`,
which holds because a newly typed title is in no save and no file (`TitlesDated`). The pane's flag
`saving` belongs to a request in flight (`InFlight`), and a save of a note shown before cannot carry
the dirty title of this one. `OwnTexts` is the second half of the property, with the loads and the saves
on their way and the timer of the source view. `TextsStay` says what a step may do to texts; each action is
shown to be such a step, and `OwnKept` and `DatedKept` do the rest.

**Feeds.** Three things keep a second capture of an item away, each for a time: the window of `Inbox.add`,
the copy of the seen items that a poll took when the feed answered, and the seen items themselves. `OnceInv`
says where an item stands once this life of the server has captured it. It has a trace (`Traced`): it is
among the seen items, or the poll that made it carries it and will put it there. And it is within the
window, or no poll at work can take it for new (`Remembered`). When the window of an item ends, either the
item is remembered, or a poll is at work with an older copy; the step sets `outlasted`, and from then on
this half is void. `taken` counts the captures of one life of the server, since a restart loses the trace
of a poll in flight. `OldInv` is the other half, for as long as no two polls have overlapped, whatever
windows end: a poll that is alone has the seen items of the feed in its copy, so that what was captured is
seen or is the poll's own work (`Own`). Everything old is still to do, already marked, or seen (`OldFound`),
so that the end of the first poll leaves all of it seen, and an item that is not skipped later is not old;
and whatever a restart may read of the file has either the old items among the seen ones or no seen ones at
all (`OldKnown`). "DO NOT ingest" fails with overlapping polls, because "is this the first poll?" is asked
of the feed and not of the copy (section 7).

**Sequences and the provers.** What a recursive operator returns cannot be proved by induction with the
installed provers, and `SelectSeq` cannot even be expanded. The models therefore say what the code's
filters do without it: `RemoveFirst` (the code's `splice` at `indexOf`) and `SelectInSeq`, which are
definitions by `CHOOSE`; `Without` by rank; `Young` as what follows the first entries that are old
(`Shifted`, as the code shifts them). The least elements these need exist by the well-foundedness of the
natural numbers (`LeastNat`).

Only model-checked: everything about `SynthesisCache` and `EmbeddingIndex`; the two type invariants that join several modules (`PartsTypeOK`, `WorkersTypeOK`); all
liveness properties, since liveness under fairness and ENABLED are out of the provers' reach.

## 7. Disagreements

Kept as violation runs:

- **A promotion that fails leaves a reader in the browser** (`role_undone`). `changeRole` to writer
  sets the writer's groups in `ensureAuthentik` (service.ts:316), `setGroups` fails, the role is
  written back; the groups stay. docs/setup-portal.md:15: readers use the company vault only through
  MCP.
- **Bulk requests lose their turns** (`embed_bulk_starved`). One rotation serves both classes; a vault
  that searches is put behind on each short text, and on the bulk turn the other vault's bulk request
  is taken every time. service.ts:9: "one vault cannot starve the others".
- **A failed retry is final** (`capture_stuck`). The compile button's route marks the capture
  "processing" and reports the error, but only the worker's tick marks it "failed"; the next retry
  answers ok and does nothing. capture-worker.ts:115: "user can retry from the inbox".

Found with the same models, with the constants that show them; no run is kept for them:

| What happens | Where | How to see it |
|---|---|---|
| An initialize that is sent on an existing session is a call to the gate; MetaMCP opens another session for it, whose id the gate strips from the answer and neither binds nor deletes | gate.ts:256; hardening.test.ts:25, 113 | `MCMcpGate`, `SessionsNotLeaked` without the exception for requests that end with the table as it was |
| A query of MetaMCP's database that hangs blocks the queue of runs, and with it every operation of every employee: the pool has no timeout, the DELETE of a session no signal | main.ts:31, metamcp.ts:381 | `CallsAnswer` without `Hangs` |
| A reconcile run reads the promoted role before Authentik has answered; the promotion fails, the writer's key stays with a reader | service.ts:319 | `KeysMatchUsers` without `erred`, ops role and rotate |
| A failed role change has revoked the key first and runs no provisioning: shown as provisioned, no key | service.ts:321 | ops role, `KeysMatchUsers` without `erred` |
| A run changes the servers and fails before the keys; the next run sees no change and keeps the old key | metamcp.ts:300 | ops role and reprovision, one "http" fault, `KeysMatchUsers`: the role change answers with success |
| Two removals of one employee overlap; the slower one retires the slot after it was released and given away | service.ts:397 | `Overlap` TRUE, ops remove, release, invite, 4 calls, `ImplementsSlotPool` |
| A restart between the creation of the account and the patch of its key: a later remove answers success and leaves the account | service.ts:382 | ops invite, remove, one restart, `OffMeansOff` |
| disable ignores the outcome of its own run; a run in progress issued a key after the revocation, the removal fails | service.ts:350 | ops rotate, disable, one "db" fault, `OffMeansOff` |
| remove throws at Authentik without a run; a run in progress has issued a key | service.ts:393 | ops rotate, remove, `KeysMatchUsers` without `erred` |
| The answer to the creation of an account is lost; the slot is free, the account stays in its group | service.ts:282 | ops invite, one "lost" fault |
| An invitation rolled back while a run in progress listed the user: a key for a name that is not listed | service.ts:282 | two calls, `KeysMatchUsers` without `erred` |
| enable and remove overlap: the slower enable creates the account of a removed user again | service.ts:316 | `Overlap` TRUE, ops enable, remove |
| With `EMBED_BULK_EVERY` not above the number of other searching vaults, a vault's own bulk text pushes its searches behind for ever | embed service.ts:177 | `EmbedQueue`, `BulkEvery = 1`, `RequestsAnswered` |
| A started request whose client left is kept, and counted against its vault's cap, until a bulk turn or a quiet moment clears it | embed service.ts:246 | `EmbedQueue`, a request that stays cancelled |
| A capture deleted while it is being processed comes back as "processing" or "compiled", and its page is written | inbox.ts:98–112 | `CaptureInbox`, one deletion during `MarkOpen` |
| A retried capture is listed twice, compiled and failed | inbox.ts:111 | `CaptureInbox`, a failed tick, then a retry that works |
| A restart in the middle of a write leaves a capture that does not parse and that neither tick nor retry clears away; its file stays | inbox.ts:101 | `CaptureInbox`, one restart, `NothingLost` with "torn" counted as lost |
| Two overlapping polls of a feed: the question "is this the first poll?" is asked of the live feed at each item, the seen items are a copy; the slower one captures items older than the subscription ("DO NOT ingest") | rss-worker.ts:135 | `ItemsOnce` without `overlapped` |
| Two polls of a feed overlap and one of them is longer than the five minutes in which `Inbox.add` remembers a key (items are fetched one by one, up to 15 seconds each): it captures again what the other has captured | rss-worker.ts:128–169, inbox.ts:31 | `ItemsOnce` without `outlasted` |
| A restart within a write of feeds.json, which every poll makes, leaves a file that does not parse: `list()` throws at every tick from then on (the handler of index.ts:98 keeps the process alive), and no feed is polled any more | feeds/store.ts:39–46, 148 | `ItemsArrive` without `Lost`, one restart |
| Two writes of feeds.json overlap: the older content may stay, so that after a restart items come again or a change of the subscription is undone, or a mixture that does not parse | feeds/store.ts:148 | the same |
| A feed remembers its last 200 items: one that lists more forgets some at every poll and captures them at the next, also those older than the subscription | feeds/store.ts:120 | `ItemsOnce` without `forgotten` |
| A poll of a feed that was removed goes on making captures | rss-worker.ts:120 | `Feeds`, an `Edit` between `Fetched` and `Item` |
| `Inbox.add` remembers the key before the file is written: if the write fails, the next attempt within five minutes counts as a repetition and the item is marked seen | inbox.ts:58 | `ItemsArrive` with `arrived` for captures only |
| The etag is stored although items of that answer failed: they come again only when the feed changes | rss-worker.ts:171 | the same |
| Pages that change by a capture, by POST /api/compile/stream or by a note that is saved mark no topic, nor does an ingest whose compilation throws: what cites them stays as it is until something else marks it | capture-worker.ts:90–127, compile-stream.ts, tree/crud.ts:122, ingest-stream.ts:55 | `TopicsRebuilt` without the `excused` of `Change` |
| A mark that meets the reverse index half written is dropped: `JSON.parse` throws and the caller ignores it; a list of stale topics that is read half written is taken for an empty one and written back as such | synthesis-cache.ts:68, 89, 119; ingest-stream.ts:56 | `TopicsRebuilt` without the `excused` of `MarkRead`, `WriteList` |
| A mark made while the topic is being synthesised is cleared at the end of that run, and a synthesis that failed or did not parse clears the mark too | synthesis-worker.ts:36 | `TopicsRebuilt` without `excused` |
| The list of stale topics is read, awaited and written back whole: one of two changes is lost | synthesis-cache.ts:66 | the same |
| A vector of an older text can be stored over a newer one; it is repaired by the next sweep and not before | embedding-indexer.ts:220 | `EmbeddingIndex` without `SweepStarts` |
| Two concurrent deletions of one page: the slower one's rename fails and leaves an entry without a manifest, which no list shows | file_store.ts:166 | `Trash`, `moving[m].pc = "failed"` |
| A restore destroys the files it skipped when it removes the entry, and its rename overwrites a file written since it looked | file_store.ts:284–289 | `ContentsKept` without those two disjuncts |
| Two operations that find the cache of devices empty both load the file, and the changes made in one of the lists are lost: a revoked device is accepted again after the next write | devices.ts:83 | `AnswersAreKept` without `coldRace` |
| Two writes of devices.json overlap; the older list may be the one that stays, which a restart then loads | devices.ts:98 | `AnswersAreKept` without `writeRace` |
| A restart within a write of devices.json leaves a file that does not parse: every operation on devices throws from then on, and the pairings and revocations in it are gone. Two writes that overlap may leave the same | devices.ts:83–91, 98 | `AnswersAreKept` with `Keeps(disk)` alone, one restart |
| A verification that awaits argon2 while the device's revocation is answered still accepts the device, once | devices.ts:61–66 | `AnswersAreKept` with the state of now in place of `since` |
| The reservations of a plan are released before its pages are written, and the listing of another plan may be older: the second plan then proposes a page the first is writing | runner.ts:208, 245 | `OpsPlans`, `Apply` between `Complete` and `Hold` of another |
| The loop over the names of a new page looks, awaits and writes: two operations find the same name free and the later one overwrites | executors.ts:33 | `OpsPlans`, two `FindName` before a `WritePage` |
| An expired reservation blocks its page until something prunes | runner.ts:74 | `OpsPlans`, `Hold` at `held[s] = Past` |
| A title typed while the pane is saving counts as saved when that save ends | NotePane.tsx:244 | `EditsAreSaved` without the excuse of `Saved` |
| The editor's timer that fires during a save of the editor, and the source view's that was set during one of the pane, save nothing and are not set again | LivePreviewEditor.tsx:387, NotePane.tsx:358 | without the excuses of `BodyTimer`, `LateTimer` |
| A body edited less than two seconds before the view is switched, another note opened or the pane left is not saved ("flush whatever the active editor has" keeps it in the pane only); a title not saved yet is lost in the same way | LivePreviewEditor.tsx:685, NotePane.tsx:391 | without the excuses of `Switch`, `Leave` |
| In the source view the title's timer and command-S save the body of the last load or save, over a newer one | NotePane.tsx:221 | without `StaleText` |
| Two savers' requests for one note cross, and the older text stays | NotePane.tsx:224 | without `Crossing` |
| The timer of the source view outlives its note: it writes the next note's title over that note's file, and its end gives the next note's editor the old body | NotePane.tsx:361, 380 | without `mixed` in `LateTimer`, `Saved` |
| A load that comes late fills the pane of the note opened since; one that fails leaves the text of the note before, under the new name; command-S during a load writes that text, or "Untitled", into the file | NotePane.tsx:165, 187, 298 | without `mixed` in `Loaded`, `NotLoaded`, `Command` |

## 8. What is not modelled

- authentik-gate and Authentik appear only as the portal sees them: an account with key, groups and
  sessions, and every way a call can end. The gate's policy is a check per request without state.
- Rate buckets (gate, embed, portal): in the gate a refusal at any time, elsewhere left out. They
  compute with wall-clock times in floating point.
- In the inbox: the upload of audio and images, the contents of a capture. In the feeds: how a feed is
  parsed, more than one feed (feeds share the file they are stored in, and a tick works through a list it
  took at its start, so that one removed meanwhile is polled once more).
- A write that fails although the server goes on (a full disk) in feeds, devices and syntheses, and two
  first loads of feeds.json at once, of which each would make a cache of its own, as in `Devices`.
- Restarts of the synthesis worker: the list of stale topics and the syntheses are files, and one that falls
  into a write has the effect of a read of a half-written file, which stays.
- Several new pages of one name in one plan (runner.ts:123–137): `OpsPlans` has a set of names, in which they
  count as one.
- The tools of the MCP server and which pages a reader may see: a pure function of path and profile.
- The other operations of the wiki (lint, build, context edits): each is one LLM call and one apply,
  without a reservation.
- The brief scheduler (a check and a write of one date, with the sending between them; see the hazards)
  and the repetition of cards (arithmetic on one card).
- HTTP routing, settings, mail and audit log of the portal; the provisioning script of MetaMCP, which
  runs once before the portal.
- The text and graph algorithms of `packages/core` (compile, classify, analysis, search): sequential
  functions of strings, without state. Modelling them would mean to write them again.
- In the note editor: the renaming of untitled notes, the timer after a pasted image (one more `doSave`), an
  empty body when the view is switched, and the editor's menus.
- The rest of the web application, the clients (extension, Android, iOS, CLI, desktop), the generators of deployment files and
  the start-up scripts. They are more than half of the source lines; what state they have is a view
  of the server's answers or the text they generate.
