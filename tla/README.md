# A TLA+ model of Atlas

Atlas is a browser portal. A *coordinator* (Node.js, SQLite) serves the shell,
leases browsing sessions to *nodes*, and tells each node which sessions it may
serve. A node relays the website traffic of those sessions. In the visitor's
browser, trusted workers own the storage and the cookies of the websites that
run in sandboxed documents, and what those websites store follows the profile to
the cloud: change by change, and as backups. This directory holds a model of the
parts of that system whose correctness depends on the order of events, the TLC
runs that check it on small instances, and TLAPS proofs for every instance.

All of the modelled code is JavaScript or TypeScript: a handler runs without
interruption from one `await` to the next, and between two awaits anything else
may run. The models cut handlers exactly there. Paths below are relative to
`src/`.

1. [Inventory](#inventory)
2. [The modules](#the-modules)
3. [The runs](#the-runs)
4. [The proofs](#the-proofs)
5. [What the runs found](#what-the-runs-found)
6. [What is not modelled](#what-is-not-modelled)
7. [Plan](#plan)

## Inventory

| Component | State | Operations | What is hard | What makes it correct |
|---|---|---|---|---|
| Node control dispatcher, `server/node-control-dispatch.mjs` | one flight per node endpoint, each with an active and a queued batch; `closed` | request, drain, send, close | a request during a send; a failing send with callers behind it; close during a send | a push that resolves delivered a state read after the request; everybody settles |
| Frontend assignments, `server/frontend-assignments.mjs` | leases, records, reservations with their expiry, markers of retired initial requests | operate (new, initial, restore, renew), select, commit, release, retireInitial, cleanup | two windows of one browser; a lost answer; a push that fails after the reservation was reused; node moves | one successor for an owner; a failed replacement leaves the current pin; what was revoked stays so |
| Node pool, `server/node-pool.mjs` | lease rows with generations, tombstones, nodes and their state, `nodeControlRevision` | operate, select, allocateLease, release, prune, heartbeat, update, nodeState, attach, remove | rows read before a push and used after it; a crash between insert and delete; overlap of select and operate | a generation has one life; revocation is final; a session has one replacement |
| Node agent, `server/node-service.mjs`, `server/node.mjs` | last control revision and time, state, leases, grants | applyControl, authorize, heartbeat, restart, pairing | pushes and heartbeat replies overtake each other, are lost or late; clocks | it stops serving in bounded time with no message at all; old snapshots revive nothing |
| Storage rendezvous, `server/sandbox-storage-rendezvous.mjs` | owners with a socket and a grace timer; documents with a last sequence, waiting commits and early receipts | register, bind, commit marker, worker result, upgrade, close, revoke, sweep | every handler awaits the coordinator; results before markers; sockets replaced meanwhile | a marker is answered once, truthfully, and always |
| AI router, `server/ai.mjs`, `ai-stream.mjs`, `ai-budget.mjs` | per-client and global slots; usage rows of minute and day windows; cooldowns | admit, reserve, fetch, stream, settle, cool, fail over, abort | settling after the window ended; failing over after a partial answer; concurrent cooldowns | slots and usage are exact; an answer has one author; Retry-After is true |
| Cookie rendezvous, `server/sandbox-cookie-rendezvous.mjs` | as the storage rendezvous, with encrypted results and read batches | as above | as above | as above |
| Request limits, `server/request-limits.mjs`, `server/store.mjs` | counters per key and window; the policy | limit, save | policy change between windows | no key admits more than its rule |
| Relay, `server/runtime.mjs` | upgraded sockets, per-session counts, Wisp connections, TCP queues | upgrade, relay, recheck, maintain | a relay is authorized once and lives for hours; close during DNS or connect | no relay outlives its session's service by more than a bound |
| Native resource gateway, `server/native-resource-gateway.mjs` | owners, enrolments, requests in flight | enrol, upgrade, request, answer | a request outliving its owner | every request is answered or refused |
| Hub integration, `server/hub-*.mjs` | qualified sessions, endpoints, the control cursor | poll, qualify, rotate, revoke | control lost or reordered; a stale qualification | a session outlives its qualification by a bound |
| Browser: assignment coordinator, `runtime/frontend-assignment.ts` | one durable record in local storage, the Web Lock, an in-memory lease | startup check, renewal, select, reconnect, confirm, accept, activate, recovery | a flow given up between any two steps; lost answers; a lease revoked or forgotten while a replacement is pending | the browser never loses sight of a lease it owns; a pending replacement is resolved or dropped |
| Browser: frontend runtime, `runtime/shared-assignment-coordinator.ts`, `web/src/browsing-session.ts` | tabs that share a coordinator, relays over its assignment | start, stop, adopt | a tab that stops while the shared start is awaited | one coordinator for the tabs |
| Browser: storage and cookie workers, `runtime/sandbox-storage-*.ts`, `sandbox-local-storage.ts`, `sandbox-cookie-*.ts`, `*-local-receipt.ts` | mirrors of website data, receipts in shared memory | mutate, commit, notify, report | synchronous calls over asynchronous storage | a mutator returns after its commit; mirrors converge |
| Browser: IndexedDB, `runtime/sandbox-idb.ts`, `local-idb-*.ts` | transactions, quotas, catalogs | open, upgrade, transact, delete | version changes against open connections | the order of the specification of IndexedDB |
| Browser: profile synchronization, `web/src/profile-client.ts`, `profile-sync-scheduler.ts`, `runtime/profile-sync.ts`, `profile-store.ts` | the durable outbox and heads, a fencing epoch, the scheduler's versions, deadline and pause | change, notice, drain, prepare, commit, acknowledge, retry, take over | a change during a drain; a lost answer; another browser in between; a restart anywhere; a missed notice | every change is saved once, in order, and kept until then |
| Browser: profile stores, `runtime/profile-*.ts` | schemas, migrations, codecs, recovery archives | open, migrate, compact, restore | | what is read is what was written |
| Backups, `runtime/local-dirty-v2.ts`, `backup-v2-*.ts`, `web/src/backup-v2-*.ts` | the dirty ledger beside the website's rows; the spool with a job, a head and a prepared checkpoint; the server's head and staging | mark, collect; capture, seal, publish, cancel, acknowledge, evict | pages read while the website writes; a crash between any two steps; a publication that arrives after it was cancelled; a database that is deleted and created again | a restore finds one moment, a later backup a later one; no change is forgotten |
| Document runtime, `runtime/opaque-*.ts`, `host.ts`, `original-*.ts`, `scramjet-*.ts` | rewritten documents, frames, workers | boot, navigate, rewrite | the DOM | compatibility with websites |
| Shell, `web/src/*.tsx`; `scripts/`; pinned third-party runtime | views | | | |

### How they interact

    browser --operate/commit/select--> Frontend assignments --\
                                                               > Node pool tables
    browser --operate/select/release--> Node pool -----------/       |
         allocateLease() and grant() await a push                     | nodeState()
                         |                                            v
                  Node control dispatcher  == POST /node/control ==> Node agent
                  heartbeat reply          ======================>   authorize()
                                                                      ^
    browser --- ticket (session, generation) --- relay ---------------+

    sandboxed document --marker--> Storage rendezvous <--result-- trusted worker
    visitor --chat--> AI router --fetch--> providers; ai_usage, ai_cooldowns

    browser windows --record, Web Lock--> assignment coordinator
         --operate/select/commit--> Frontend assignments
    agent.authorize() <--upgrade, recheck-- relay <--streams-- browser

    website --change + outbox entry--> profile sync --commit(base, epoch)--> cloud
    website --change + dirty marker--> ledger --> capture --> spool --publish--> cloud

The lease tables are shared state of the pool and of the assignments. The
dispatcher is the only way either of them reaches a node while a request waits;
the reply to a node's heartbeat is the other. Neither confirms a revocation:
`release()` pushes nothing, and the node learns of it from whichever snapshot
comes next, or stops 45 seconds after the last one.

## The modules

`PROJECT.json` maps every definition to its lines. Variables under "history" in
the modules record the past for a property; no action reads them.

**`ControlPush`** is the contract the pool and the assignments rely on when they
await a push: it settles once, requests of one endpoint settle in the order they
were accepted, and if a push resolves the node has learnt a state of the tables
no older than the request. A refusal (dispatcher full or closed) is immediate.
**`NodeControlDispatch`** is the dispatcher, one action per stretch between
awaits; the tables are a version number. It implements `ControlPush`
(`ImplementsControlPush`). `MaxVersion` bounds table changes; `MaxPending` is
the dispatcher's own limit. A POST that timed out may still arrive later.

**`FrontendAssignments`** has the tables as one record of sets (`db`), the
handlers up to their push (`OperateInitial`, `OperateNew`, `OperateExisting`,
`Select`, `Commit`), and what they do after it (`OfferReturns`, `CommitReturns`,
`PushFails`). `cleanup()` and `prune()` run inside the handlers as in the code.
The dispatcher appears as its contract (`ControlPush`): pushes to one endpoint
settle in order (`CanSettle`), which `Implements` proves of the dispatcher.
Time is three facts that once true stay true, a lease is idle, a reservation is
over a minute old, an initial request over thirty.

**`LeasePool`** is the same for the older protocol: `operate()`, `select()`,
`allocateLease()`, `retire()`, `prune()`, `release()`, with the generation of a
session. `Restart` drops the activations in flight and keeps the tables, so a
restore cut between inserting the new row and deleting the tombstone leaves
both. It implements **`SessionLives`** (`ImplementsSessionLives`), the contract of
a session with generations: a life begins above every ticket signed before and
never after a revocation, a ticket is for the life its session leads, and whoever
takes a session's place ends it in the same step. The contract knows nothing of
tombstones, pushes, failures or restarts.
**`NodeAuthority`** EXTENDS the pool with revisions, snapshots in flight, the
agent and a clock. A step of the composition is a step of `LeasePool` together
with what it does to the messages, so the pool is not described twice.
**`NodeRelay`** EXTENDS that again with the sockets of `server/runtime.mjs`: an
upgrade asks `authorize()` once, and the relay it opens is asked for again by
`authorizationTimer` and whenever a snapshot is applied. The clock cannot pass
the timer (`Around`); nothing else is scheduled. A destroyed socket keeps its
place in the counts until its close event. A relay may end at any time for a
reason of its own.

**`AssignmentCoordinator`** EXTENDS `FrontendAssignments`: the browser's flows
become the clients of the server's handlers, which are not described twice. One
durable `record` is what all windows share, and one `flow` at a time holds the
Web Lock; `flow.at` is the step that is due and `flow.op` the handler it waits
for. A flow may be given up wherever it waits, and the handler it asked runs on.

**`StorageRendezvous`** is one owner of the rendezvous: its documents, its
sockets one after the other, the commit requests and the worker's results. A
request (`Post`, then `Refuse` or `Commit`), an upgrade (`Upgrade`, `Attach`)
and a result (`Report`, `Handle`) are each cut where `valid(owner)` is awaited,
whose verdict is arbitrary.

**`AiRouter`** is the chat route. A chat awaits only its provider; the step
after an await contains all that follows it in the code, as far as the
reservation at the next provider. Windows are ticks, providers are numbered in
the order of the configuration, tokens are small numbers.

**`ProfileJournal`** is what a profile promises for the changes of a website.
**`ProfileScheduler`** is the scheduler's state machine, `Arm` included: its
version numbers appear only in two comparisons and its deadlines as a timer that
is set or not. **`ProfileSync`** EXTENDS it with the outboxes, the drain and its
jobs, the requests on the wire and the cloud. A job is cut at each of its
awaits: it prepares an entry (the base is durable before the request), sends, is
answered, and acknowledges the head and the outbox in one transaction, or in two
where the head is in the catalog (`Directories`). The faults are a restart, a
network that is down, a late or a lost request, another browser that takes the
stream, and a full quota; `MaxFaults` bounds how many happen.

**`BackupChain`** is what a backup promises. **`LocalDirty`** is the ledger,
written in the native transaction of the change; it also collects markers slice
by slice, and moves with its database. **`BackupCapture`** is a capture of one
namespace while the website writes: pages by key, catch-up passes, the last
look.
**`BackupPublish`** is the actor over both, cut at each request and each durable
write; the server is external. A step of the website may come between any two.

`MC*` modules declare the model values and a symmetry set where one is used (the
symmetric sets are not distinguished by any definition, and no run with symmetry
checks liveness). `StorageRendezvous` needs none and is run directly.

Definitions that begin with `Mut` are variants of the definition after them with
one plausible mistake. Nothing uses them; substituting one makes the property
named beside it in `PROJECT.json` fail, which shows that the run could fail.

## The runs

| Run | Instance | Shows |
|---|---|---|
| `dispatch` | 2 callers, 2 endpoints, 1 flight allowed, 1 table change | nobody lost, nobody overtaken; every request settles, close returns; refinement of `ControlPush`, which says that a resolved push was fresh and that the pushes of an endpoint settle in order |
| `assign_browser` | the coordinator with 2 handlers, a legacy pin, an initial capability and 2 more, 1 node; at most 3 leases and 2 revocations (`MCBound`) | one reservation and one successor for an owner; a failed replacement leaves the pin; the browser never loses sight of a lease it owns |
| `assign_initial` | an initial request and a replacement on 2 nodes with 2 endpoints that change at any time, 2 handlers | revocation is final; a pin never moves; a lost confirmation can be repeated; no successor of a revoked owner |
| `assign_moved_pin` | 1 node, changing endpoints, 3 handlers | **violation**, see below |
| `coordinator_ended` | as `assign_browser`, 3 capabilities | **violation**, see below |
| `pool` | 3 sessions, 2 generations | one life for a generation, one replacement, revocation final, across restarts; refinement of `SessionLives` |
| `authority` | 1 session, 2 generations, 2 snapshots, both on their way at most, 5 ticks, idle time 4, freshness, delay and recheck 1, 2 relays | the node stops in time, revives nothing, knows a session when its ticket is handed out, and its relays end in time, at once if it is told |
| `storage_rendezvous` | 1 document, 2 commit requests, 2 sockets, 2 sequences, limits of 1 | answers are true, unique and always come; the receipts kept are the newest |
| `ai_router` | a chat and a title request, 2 clients, 2 providers, minute of 2 ticks and day of 3 | slots and usage exact, one author, a true Retry-After |
| `ai_retry_after` | 3 chats, 1 provider | **violation**, see below |
| `backup` | 3 keys, 2 markers allowed, slices of 2, 2 transactions after the first state, 2 lives of the database, 1 catch-up pass, 2 checkpoint sequences, 5 identities | refinement of `BackupChain`; no change forgotten; a prepared checkpoint is kept and can always be published; the heads agree; a collection that ended left nothing |
| `profile_sync` | a website with 2 changes and one with 1 whose heads are in the catalog, turns of 2 entries, any one of six faults | refinement of `ProfileJournal`; a lost answer is recognized; nothing stranded; every change saved |

*Why the bounds are enough.* Each hazard in `PROJECT.json` needs two actors that
overlap, or one actor and one event in its awaits; all runs have at least that,
and the limits of pools and queues are set to 1 so that they are reached. Two
generations are what a stale ticket needs, two revisions what a reordering
needs, and two relays what the loop over sockets needs. In `authority` the idle
time (4) exceeds freshness plus delay (2), so that a node which ignored its
clock would be caught, and the clock (5) exceeds the idle time. In `ai_router`
the end of the day does not coincide with the end of a minute, one request fills
a minute and two tokens a day, and clients are limited to one reply, so each of
the three can be what refuses a request. In `backup` the transactions overflow
the ledger, clear the store and reorder keys around a cursor, and two checkpoint
sequences are what a cancelled one and its successor need; five identities are
never all referred to, and one that nothing refers to is fresh again. In
`profile_sync` one fault at any of the steps is enough for each hazard listed
for it. A repeated confirmation needs an owner on a second endpoint and is
reached only in `assign_initial`. `TypeOK` and its kin are not listed as run
properties; they are conjuncts of the inductive invariants where a proof exists.

*Ends.* `CHECK_DEADLOCK FALSE` is set where the model really may stop: its
clock, its versions or its sockets are bounded, or its requests are made once.
`pool` never stops and is checked for deadlock, and so is `profile_sync`, where
a probe is always possible.

*Fairness.* `NodeControlDispatch`: a microtask that was queued runs (`Drain`), a
POST ends because it has a three-second timeout (`SendReturns \/ SendFails`),
and `close()` continues once its drains have ended. No POST is obliged to
arrive. `StorageRendezvous`: the timer of a waiting commit fires, and
`validateOwner` returns because the code races it against a timer, so that the
handler goes on to refuse or to commit. Nothing obliges workers, sockets or
documents to do anything. `ProfileSync`: the event loop goes on (`System`:
timers that are set fire, jobs take their next step, a request arrives or times
out), and `checkPendingBackups()` runs again while an outbox is not empty
(`Probe`, on each renewal tick, `profile-client.ts:1460`). Nothing obliges a
notice, a flush or a user's retry to come, and faults are bounded.
`EveryChangeSaved` therefore says: saved, or background work paused after a
refusal that needs the user. The other modules check safety only.

## The proofs

All are for every value of the constants, under the named assumptions of the
modules (natural bounds, `None` outside the sets, the legacy and the initial
capabilities disjoint, limits of the AI router from 1 as `server/ai-config.mjs`
demands, transactions that are sequences of a website's operations). Each module
proves that an inductive invariant holds initially and is kept by every action,
action by action, and derives the properties from it. TLC checked the inductive
invariants on the instances of the runs before they were proved; they are no
properties of the runs.

* **`NodeControlDispatch_proofs`**. `IInv`: the two batches of an endpoint are
  disjoint and hold exactly its waiting callers (`BatchesHoldWaiters`), no
  version is from the future, the snapshot in flight covers the active batch
  (`SnapshotCovers`), a queued caller has seen no send start, and whoever asked
  before a caller that is being sent for is being sent for too
  (`BatchesInOrder`, over the history variable `earlier`). From it:
  `Fresh`, `NobodyLost`, `ServedNext`, `Quiet`, `Silent`, `Bounded`, and
  `Implements`: every step is a step of `ControlPush` or a stutter.
* **`FrontendAssignments_proofs`**. Revocation is not inductive by itself: an
  initial capability can be derived again from its request, so the proof needs
  that an answered request leaves a lease or a tombstone as long as it is valid
  (`InitialsLeaveTraces`), and that a predecessor is dead (`PredecessorsDead`).
  From it: `Final`, `SingleSuccessor`, `CommitsContinueTheLiving`. Every step
  either removes rows or inserts one lease that had none (`StepShape`), from
  which `PinsStay` and `SingleReservation` follow. `Repeats` needs a second
  invariant (`Repeatable`): a lease that continues another keeps its record for
  as long as it lives.
  `PinsSurvive` is about the order of pushes. `QInv` says that nobody
  waits twice (`Queued`), that the handler which inserted a reservation stands
  before everyone else who uses it (`CreatorFirst`), and that pushes go to the
  node's endpoint and a reservation is not established while the handler that
  inserted it waits (`AskedAndOpen`). Pushes of one endpoint settle in order, so whoever could take the
  reservation back has settled before anyone could have committed it. The order
  needs an endpoint to stay; the run `assign_moved_pin` shows what happens when
  it does not. `BrowserClient` shows that every step of `AssignmentCoordinator`
  is a step of `FrontendAssignments` over stable endpoints or leaves the server
  alone, so that the theorems about the handlers hold with the browser, among
  them `BrowserPinsSurvive`.
  `BrowserKeepsItsOwner` needs an invariant of both sides (`WInv`). Of the tables
  (`LeasesOK`): when a replacement is established or has expired, its predecessor
  is gone, and a predecessor's predecessor always. Of the record (`RecordOK`): it
  names a replacement together with its predecessor, and an active lease that is
  neither is gone. Of the handlers (`CommitsOK`, `AskedOK`): whoever can still
  confirm a reservation confirms the one written down. Of the flow (`FlowOK`):
  what it may rely on at each step, above all that every other lease of the
  record is over when one is activated. What the server does never disturbs the
  browser's part (`ServerKeeps`), because for a lease that exists things only
  end (`Stays`); so each action is split into the server's half and the
  browser's.
* **`LeasePool_proofs`**. The generation of an issued ticket never exceeds the
  row, or else the tombstone it could be restored from, and while a restore
  could be taken back the tombstone has to bound it too (`Held`). Without the
  last part a failed restore would free a generation for which a ticket exists.
  From it: `Final`, `OneSuccessor`, `OneLife`, `ReplacesTheLiving`, and, with the
  fact that nobody is to take its own place (`OfAnother`), `KeepsLives`: every
  step of the tables is a step of `SessionLives` or a stutter.
* **`NodeAuthority_proofs`** first shows that every step of the composition is a
  step of `LeasePool` (`Implements`), so that the pool's invariant comes for
  free. `Sound` then says what the tables allow a snapshot of a revision to
  contain: an ended generation only if the snapshot is older than the end, an
  expiry never later than the row's, and every session whose activation asked
  for it before it was made. It holds of all snapshots on their way and of the
  one applied. From it: `Stops`, `EndedStaysEnded`, `Usable`, `IdleStops`.
* The second part of **`NodeAuthority_proofs`** is about `NodeRelay`. It shows that
  the system around the relays does not notice them (`ImplementsAuthority`), so `AInv` holds here too. Of an open relay it
  adds that the snapshot in force grants its generation, and that the
  coordinator wanted it served not long before the last round of checks
  (`Lately`). From it: `RelaysEnd`, with the bound freshness + delay + recheck,
  and `ControlCloses`.
* **`StorageRendezvous_proofs`**. A request that took its sequence has it for
  itself because `doc.last` has passed it (`CallsInv`); `pending` holds the
  waiting requests and nothing else, and a revoked owner has no document left
  (`PendingInv`); receipts and results on their way say what the worker said
  (`ResultsInv`). What can happen to one request in a step is one of five shapes
  (`CallStep`). From it: `NobodyLeftBehind`, `Truthful`, `AnsweredOnce`, and
  with a second invariant `GraceGuards` and `ReceiptsWaitAhead`. `NewestReceipts`
  needs that a document holds finitely many receipts and one of a sequence
  (`RInv`): then each round of the loop that drops the oldest receipt removes
  one, and the one it removes has `MaxReceipts` later ones.
* **`AiRouter_proofs`**. An answer that has begun is streaming, and a streaming
  chat never changes its provider (`BegunIsStreaming`); whoever counted passes
  `Over` once (`Counted`, by cardinalities). From it: `OneModel`, `Slots`. The
  usage rows need lemmas about sums over finite sets, and an invariant (`AInv`)
  that no chat has a cost in a window yet to come or with a provider it has not
  tried: a row that starts afresh would otherwise owe them. From it: `Windows`.
  `RetryAfterIsAChance` follows the minimum a failing chat collects from provider
  to provider; it needs that a window outlives the clock and that every limit
  admits one request in an empty window, hence the limits from 1.
* **`ProfileSync_proofs`**. The scheduler first: while a change is pending there
  is a timer, a flight or a pause (`SchedulerNeverIdle`). Then the journal
  (`JournalInv`): what the outbox lacks the cloud has, the cloud has a prefix of
  what was made, a turn is a first part of the outbox, and a commit on the wire
  carries the base its entry was prepared on. From it: `LostAnswersExplained`,
  `NothingIsStranded`, and `Refinement`: every step is a step of
  `ProfileJournal` or a stutter.
* **`BackupPublish_proofs`**. The invariant `BInv` has four parts. `SiteInv`: a
  ledger has a marker or a size record for every row, counts what it holds, and
  past states of one life of the database have rising generations. `SpoolInv`:
  the prepared checkpoint and the server's head are one publication apart at
  most, and what the server has staged is what was sealed. `JobInv`: what the
  capture has of a key in step with its ledger is what the website has, or a
  change of that key is ahead of the capture's cursor or marked after its target. `CloudInv`: where website
  and cloud differ, the ledger marks it or a baseline is due. The last is the
  property that no change is forgotten, and it is not inductive without the other
  three: an acknowledgement drops the marks a capture has seen, which is right
  because the capture has their rows (`JobInv`) and the server has the capture
  (`SpoolInv`). Each operation of a transaction keeps `SiteInv`; that a
  transaction does follows by a least counterexample. From `BInv`:
  `BackupNothingForgotten`, `BackupNeverInConflict`, `BackupPreparedIsKept`,
  `BackupHeadsAgree`, `BackupRowsCapturable`, `BackupSweepLeavesNothing`, and
  `BackupImplementsBackupChain`: every step is a step of `BackupChain` or a
  stutter, so that a restore finds one moment (`BackupIsOneMoment`).

The induction theorems of the library take an operator as a parameter, which the
provers cannot instantiate. Where an induction is needed (sums, the operations of
a transaction, the rounds of a loop) it is over a set of naturals: the set of
counterexamples has a least element (`WFMin`), and that is refuted.

Every invariant and every safety property of the passing runs is proved. Only
model-checked is liveness (`EveryRequestSettles`, `CloseEnds`,
`EveryCommitAnswered`, `EveryChangeSaved`): fairness and ENABLED are beyond the
prover.

## What the runs found

* **`assign_moved_pin`, a bug.** `reserve()` takes its reservation back when its
  push fails, by hash, whether or not it has been committed meanwhile. Pushes to
  one endpoint settle in order, which protects it, unless the node's endpoint
  changes: then a second handler reuses the reservation over the new endpoint,
  the browser commits it, and the first push, failing late over the old
  endpoint, deletes the committed lease. The predecessor is revoked by then, so
  the browser is left without a session and without a tombstone that says why.
  `server/node-pool.mjs:647`: "A failed replacement never destroys the current
  pin."
* **`ai_retry_after`, documentation.** `cool()` overwrites. A provider that asks
  for a long rest is called again early if a concurrent request to it fails
  afterwards without a Retry-After, since the default cooldown then replaces the
  one asked for. `docs/AI.md:36`: "`Retry-After` is respected".
* **`coordinator_ended`, a bug.** `reconnect()` resolves a pending replacement
  first and throws when that is refused. Once the candidate has lapsed and the
  predecessor was revoked, or forgotten after seven idle days, the question for
  the predecessor (`runtime/frontend-assignment.ts:644`) is refused every time
  and the pending record stays, so no reconnect ever starts a fresh owner.
  `tests/frontend-assignment.test.mjs:408`: "only explicit reconnect starts a
  fresh private owner".

## What is not modelled

* In the modelled components: choosing a node by load, runtime hosts, Hub
  ownership of leases, ticket signatures and their own expiry, statistics,
  validation and wording of requests and answers. Nodes are not attached or
  removed; one node is followed in `NodeAuthority`. The database is not rolled
  back: if the coordinator were restored from an old copy, `nodeControlRevision`
  would regress and nodes would ignore it until restarted.
* In `NodeRelay`: Wisp streams and TCP sockets, among them a stream that is
  closed while its name resolves (`server/runtime.mjs:44`); the choice of the
  relays that maintenance reaps (they may end at any time); the checks of a
  ticket itself and the tickets of frontend assignments.
* In `AssignmentCoordinator`: renewal timers and hints (a check may begin at any
  time), the relays (a probe succeeds or the flow is given up), generations, the
  lease in memory when the storage is cleared, the status each tab shows, the
  adoption of a lease another window validated, and the joining of flows that
  ask the same. A page comes with a lease of the older protocol, or with none; a
  window that is opened with the recorded lease of another is left out. A request
  is handled when it is made, or never. A node that is
  down is a push that fails. A reservation is not idle for longer than the
  session it continues.
* In `StorageRendezvous`: several owners and the limit on them, heartbeat
  messages, shutting the server down. In `AiRouter`: providers with different
  limits, and the configuration changing during a chat.
* In `ProfileSync`: restore and repair, the compaction of entries, the streams
  of preferences and of the profile itself, sign-out (a restart), recovery
  archives, hashes of payloads. A takeover is one step, a probe one step with
  its await, and a refusal by authorization is treated as one by quota. A
  website has one stream.
* In the backups: registration and seeding of replicas, baselines that are asked
  for, the schedule that shares a run among namespaces, byte budgets, records
  and parts split into fragments, the content of schemas, discovery and the
  worker's hints, and liveness. A checkpoint holds one namespace. The backup
  server is external: it publishes a staged checkpoint once, on the head it was
  prepared for.
* The other components of the inventory. The document runtime and the shell are
  dominated by the DOM and by data (parsing, rewriting, rendering); the
  third-party runtime is pinned and vendored; scripts and tests are not part of
  the running system. The remaining ones have protocols worth modelling and are
  in the plan.

## Plan

Done: the lease protocol from the browser's record over the tables to the relays
of a node, the storage rendezvous, the AI router, profile synchronization, and
backups. Next, in order of importance:

1. `StorageMirror`: the synchronous storage façade, the worker's commit and its
   receipts in shared memory, composed with `StorageRendezvous` through an
   abstract "marker is answered truthfully" in the manner of `ControlPush`.
2. The streams of a relay: upgrade, connect, the close of a stream while it
   resolves or connects, retirement of superseded relays.
3. Attaching, moving and removing nodes in the composition of pool and agent.
4. `SharedCoordinator`: tabs that share one startup.
5. Several namespaces in one checkpoint, with the schedule that shares a run.
