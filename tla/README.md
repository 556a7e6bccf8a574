# PolySIEM in TLA+

PolySIEM keeps an inventory of a homelab in step with the systems it describes, runs
workflows over it, and steers the traffic of a privacy router. This directory models the parts
of it in which the order of events matters, checks them with TLC on small instances, and
proves every safety property that holds with TLAPS, for all instances. Paths below are relative to
the repository; `lib/` stands for `src/lib/`.

Contents: [the system](#the-system) · [the modules](#the-modules) · [the runs](#the-runs) ·
[what disagrees with the documentation](#where-the-code-and-its-comments-part) ·
[the proofs](#the-proofs) · [remarks](#remarks) · [what is not modelled](#what-is-not-modelled) ·
[plan](#plan)

## The system

Two programs, on two kinds of machine, and two shell agents.

**The application** is one Next.js process (replicas are possible) over PostgreSQL. It has no
threads: what interleaves are async functions, at every `await`, and replicas. At boot
(`instrumentation.ts`) it starts five schedulers, each a `setInterval` with a `ticking` flag,
and takes up interrupted investigations.

**The privacy proxy** (`native/privacy-proxy`) is a Rust daemon on the privacy router: worker
threads with an epoll loop each, a publisher thread that writes a statistics file and sweeps
the exits, and a signal thread. netfilter redirects LAN connections to it; it peeks at the
hostname, decides which exit the flow takes, and relays.

**The agents** (`lib/integrations/edge-nat/agent.ts`, `lib/integrations/privacy-router/agent.ts`)
are shell scripts that the application installs on edge servers and privacy routers and talks to
over SSH. They apply rulesets and report state.

| Component | State it keeps | Operations | What is hard about it | What makes it correct |
|---|---|---|---|---|
| proxy worker loop (`worker.rs`) | slab of flows, free list, pipe pool, gauge | accept, peek and decide, connect, relay, close, maintain | events copied out of the kernel before they are handled; slots reused; edge-triggered listener; descriptors that run out | no slot is given twice; a flow holds what its state says; nobody is turned away while there is room; the queue drains; a quiet flow is reaped |
| relay and throttle (`relay.rs`, `throttle.rs`) | two pumps with a pipe each, token bucket | fill, drain, finish, take and refill | edge-triggered readiness against partial splices and a rate limit | no lost wakeup; every byte arrives, before the half-close; the rate holds; bytes are counted once |
| accounting table (`stats.rs`) | index of rows, atomic counters, gauge, file | slot_for, count, end, render | a lock taken twice, a table that fills from both ends, a reader row by row | rows distinct; no flow unaccounted; the file never goes back |
| proxy server (`server.rs`) | generation, exit flags, stop flag | reload, publish, sweep, stop | workers that still hold an older generation | flows judged by fresh flags |
| traffic ingest (`lib/services/privacy-router-traffic.ts`) | cursor, samples, rollups | poll: read file twice, difference, commit | proxy restarts, a clock that is set, overlapping polls | nothing counted twice; cursor and rollup move together |
| integration sync (`lib/integrations/engine.ts`, `sync-helpers.ts`) | inventory rows, SyncRun, advisory lock | runSync, fetch, apply, sweep | the lock's transaction may end before the work; partial snapshots | rows say what the snapshot said; nothing removed early; the lock comes free |
| workflow executor (`lib/workflows/executor.ts`) | in-memory step states, run and step rows | waves, slices, steps, finish | concurrent steps, failures, failed writes, circular references | actions run only when reached; run and steps agree; it ends |
| workflow triggers (`lib/workflows/scheduler.ts`, `*-trigger-runner.ts`) | cursors per trigger, runs | tick, evaluate, save, start | cursors saved before the runs; ties at the cursor | every event fires at most once, and none is passed over |
| investigation worker (`lib/ai/agent/worker.ts`) | ticket status, running/wake flags | enqueue, kick, drain, requeue at boot | a loop that may die, flags against awaits | every queued ticket is settled, one run at a time |
| AI scan and tickets (`lib/ai/scan/`) | scan runs, tickets | tick, trigger, apply a finding | scans that overlap, context read minutes before | a scan never opens a closed ticket; what it overwrites it has read; every run is settled |
| edge NAT (`lib/services/edge-networks.ts`, agent) | desired and applied revision, snapshot; chains, dispatchers and files on the edge | edit, prepare, apply over SSH, finish, clear, sync, enrol | the lock is free during SSH; writers without the lock; lost answers; an agent that is killed | traffic meets whole generations; what is recorded was installed and survives a reboot; a wrong claim of being in sync is withdrawn |
| connectors (`lib/services/connectors.ts`) | links, tunnel addresses | link, unlink | concurrent allocation | no address given twice |
| backups, updates (`lib/backup`, `lib/updates`) | lists and states each in one setting | read, change, write back | concurrent writers of a setting | no lost update |

How they meet: the publisher's file is the only link from `ProxyStats` to `TrafficIngest` (the
agent prints it, the application reads it over SSH). A worker's flow obtains its row from the table
when it is decided and counts on it when it relays. Syncs, scans, polls and workflow ticks share
nothing but the database. Threat triggers read the tickets that scans create. Edge applies
and connectors share one advisory lock per edge.

The behaviours that tests hardly reach are listed, each at its line, under `hazards` in
`PROJECT.json`, with the properties that stand against them; they are forty, the worst first of
each part. The ones below are real and belong to parts that no module models yet, or to choices
a module takes as given:

* *Workflow triggers*: a schedule's due-ness is read from the newest run of any trigger
  (`scheduler.ts:209`), and its run is started without the id of the node (`:216`).
* *Edge NAT*: address allocation (`connectors.ts:696`).
* *Settings*: a second, failed record for a good backup (`backup/service.ts:310`); the run history
  is one setting, read, changed and written back (`:245`); the update agent's report against the
  repair on read (`updates/request.ts:66`); the last administrator (`users.ts:44`).
* *Proxy server*: only the newest generation's exit flags are refreshed (`server.rs:393`).
* *Sync scheduler*: a tick works through a list of `lastSyncAt` it read at its start
  (`integrations/scheduler.ts:25`); the lock makes a needless run of it, nothing worse.

## The modules

| Module | Models | Composed with |
|---|---|---|
| `FlowAdmission` | abstract: what a worker promises a client connection | refined by `ProxyWorker` |
| `ProxyWorker` | one worker thread and the kernel around it | `INSTANCE FlowAdmission` |
| `ProxyRelay` | the bytes of one flow | stands below `ProxyWorker`, which keeps only a pass's outcome |
| `ProxyStats` | the accounting table, flows and publisher | its file is what `TrafficIngest` reads |
| `TrafficIngest` | from the file to the monthly totals | starts where `ProxyStats` ends |
| `SyncEngine` | one integration's syncs | |
| `WorkflowRun` | one run of a workflow | |
| `VersionedConfig` | abstract: what pushing numbered rulesets to a host promises | refined by `EdgeApply` |
| `EdgeApply` | the control plane's applies and the agent on the edge server | `INSTANCE VersionedConfig` |
| `InvestigationQueue` | the investigation worker of one process after another | works on the tickets of `TicketScan`; neither reads the other's columns |
| `TicketScan` | log scans, and the operators who work on the same tickets | opens the tickets `ThreatTrigger` fires for |
| `ThreatTrigger` | one trigger for new tickets | starts the runs `WorkflowRun` models |
| `MC*` | constants, symmetry and instances for TLC | each extends one module |
| `ProxyWorkerProofs`, `ProxyStatsProofs`, `SyncEngineProofs`, `EdgeApplyProofs`, `InvestigationQueueProofs`, `TicketScanProofs` | theorems and proofs | each extends one module |
| `TrafficProofs`, `WorkflowProofs` | theorems and proofs | `TrafficIngest` and `ProxyRelay`; `WorkflowRun` and `ThreatTrigger` |

Definitions keep the names of the code. A definition called `X_Something`, just before `X`, is
`X` with a plausible mistake in it, and its comment says which: each property has one that
breaks it. Two proof modules extend two components each, so the names of `TrafficIngest` and
`ThreatTrigger` that every specification has carry a prefix (`IngestInit`, `TriggerNext`). `map`
in `PROJECT.json` gives the source lines of every definition.

**ProxyWorker.** `flows` is the slab, `res` what `Worker` keeps beside it (the free list, a
stack as in the code; idle pipes and `PipePool.live`; the gauge). `phase` is where
`Worker::run` stands: waiting, in a batch, in `accept_ready`, in `maintain`. `EpollWait` copies
events out of the kernel; `FlowReady` handles one of them by the slot it names, whatever
connection is in that slot by then, which is the heart of the model. `Peek`, `Decide`,
`OpenUpstream`, `Connected`, `Relay`, `Close` and `Teardown` are the functions of those names
(`ready` dispatches to them) and are composed into one step as they are in the code, since only
the thread itself writes flows. `Kernel` steps complete connects, bring connections and make
flows go quiet between any two of them. `Scarce` lets every call that makes a descriptor or
a watch fail. The outcome of parsing and of rule matching is free.

**ProxyRelay.** Two pumps as in `relay.rs`; the body of `Worker::relay` is taken splice by splice:
take an allowance from the bucket, fill, drain, finish, count, set the timer. Between any two the
peers send, half-close, read or reset, and the bucket refills. The kernel reports an edge once, and
for room only to a writer it has refused. Bytes are counted, not told apart.

**ProxyStats.** A flow is a process: `Decide` (a rule has been found), `FindNamed` and
`FindFold` (the two critical sections of `slot_for`, between which others run), `CountOnRow`
and `CountFlow` (two counters, two steps), `AddBytes`, `EndLoad` and `EndSwap` (the
compare-and-swap that lowers the gauge). The publisher is another: it reads each row's
counters in a step of its own and renames the file.

**TrafficIngest.** The proxy counts, publishes, restarts. A poll reads `STARTED`, then the `SERVICE`
lines (two readings of the file), then the cursor, and commits; it may fail at each step and the
process may die. The transaction is `Store`, all or nothing. The clock is PolySIEM's and may be set.

**SyncEngine.** A caller's `runSync` is a sequence of statements on other connections than the one
that holds the advisory lock. The transaction may run out under it; any statement may throw; the
process may die. `inventory` has the status, `missCount` and `lastSeenAt` of each entity's row; a
snapshot is complete, complete with the family excluded, or partial. Two ghost variables count what
was really missing and remember whether a transaction ever expired.

**WorkflowRun.** `wf` is any graph `validateGraph` accepts. What `executeWorkflow` knows (`state`,
`outputs`, `result`, `failed`, `started`) is kept apart from what the database says (`run`, `step`).
`FormWave`, `Sort`, `StartChunk`, `EndWave` and `Unblock` are `executeWaves`; `MarkRunning`,
`Succeed` or `Fail`, `MarkSuccess`, `MarkFailed` are `runNode` between its awaits; `Throw` is a
`Promise.all` that rejects, `Die` the process's end. A query may fail with or without having taken
effect.

**EdgeApply.** The control plane's side is `row` (the settings of the integration: `rulesRevision`,
the desired hash, what is recorded as applied, the pending flag, the last snapshot) and one record
per apply. `Prepare` and `Finalize` are the two transactions of `applyEdgeRules`; between them the
request is in `inbox`, in the agent's hands or answered, and edits, other applies, `SyncStore` and
`PinHostKey` write the same row, the last two without the lock. The agent holds its lock through
`AgentBuild`, `AgentSwap`, `AgentSaveState`, `AgentSaveRules` and `AgentDone`; `AgentFail` is its
trap, `AgentKilled` has none, and `Reboot` leaves the two files. A ruleset is its own hash.

**InvestigationQueue.** `inv` and `order` are the two columns of the tickets that make the queue,
and survive `Crash`; `worker` is `workerState` with the step `drainLoop` is at; `calls` are requests
between reading a ticket, marking it and `kickWorker`; `sweep` is `requeueStragglers` at boot;
`auto` are the investigations a scan runs without the queue. Every statement may fail.

**TicketScan.** `scan` is what a `runScan` carries in memory: its context of tickets, read once, the
scope it is in, the plan of the finding being written. `PlanFinding` is the decision of
`applyFinding` and `Updated` its update; another scan, or an operator's step, may come between the
two. `runs` are the rows by which the scheduler and `triggerScan` see each other, and
`FailStale` the fifteen minutes. `enabled` is the setting: while it is off a tick returns before
anything else, and a request scans all the same; operators change it at any time. Tickets
opened by hand, and the edits only those allow, are left out.

**ThreatTrigger.** A ticket has its `createdAt` when its row is sent (`Submit`) and is visible later
(`Opened`); scans and operators regrade it. `Arm` stores the first cursor; `Query` takes a
batch past the cursor; `StoreCursor` and `Fire` come in that order.

## The runs

| Run | Instance | Question and answer |
|---|---|---|
| `worker_ample` | 3 connections, 2 slots, batches of 1 flow event, nothing scarce, fair | With every resource at hand the pipe pool is exact and has pipes for every admitted flow (`PoolExact`); the worker implements `FlowAdmission`; the accept queue drains though the listener is edge-triggered (`QueuedIsAccepted`); a quiet flow loses its slot (`QuietFlowIsReaped`). |
| `worker_scarce` | 3 redirected connections and one not, 2 slots, batches of 2, all failures | Slab and holdings stay exact under stale events and any failure, the pool within its limit. |
| `stats` | 3 flows, 2 hosts, 2 actions, a table of 2 rows | The table fills from both ends while it is rendered: rows stay distinct, each flow keeps a reported row, the gauge is exact, and the file never takes anything back. |
| `ingest_serial` | 1 pair, 1 poll at a time, clock set at will | No byte is counted twice, and between two readings of one proxy the total moves as the cursor does: through restarts, crashes, failures and torn readings. |
| `ingest_overlap` | 2 polls at a time | *Violated*: both store the same interval. |
| `relay` | pipes of 2, send buffer 1, bucket 1, up to 3 bytes out and 1 in, fair | No lost wakeup, the half-close comes last, a finished flow is whole, bytes counted once, the rate holds, and every stream that ends arrives unless a peer resets. |
| `sync_intime` | 1 entity, 2 callers, 3 runs, threshold 2, overruns allowed, fair | Until a sync outlives its transaction, rows say what the snapshot said and nothing is removed before its misses. The lock always comes free, overruns or not. |
| `workflow` | every valid graph of 2 triggers and 2 steps with at most one reference, and 5 of up to 6 steps; 2 at a time, with faults, fair | Actions run only where the run has got to; the run's row agrees with its steps'; success is exactly the live branch; final rows stay; it ends. |
| `edge_push` | 2 applies, 2 revisions, 1 ruleset and the empty one, and 1 mishap anywhere (a fault, or a row that has changed is written back), fair | Generations are never mixed (`TrafficMeetsWholeGenerations`); box and record implement `VersionedConfig`; what is recorded survives a reboot; a wrong claim of being in sync is withdrawn by the next sync; after a reboot the dispatchers lead back to what is on disk. |
| `investigations` | 2 tickets, 2 requests at a time and 3 in all, 2 failed statements, any number of crashes, fair | Nobody is left behind unless a statement failed (`NobodyIsForgotten`), and once the process stays up every queued or running ticket is settled (`QueuedIsSettled`). |
| `scan` | the scheduler and a request, 2 scans, 1 scope, 2 findings on 1 ticket, 3 severities, 1 edit, 1 failed statement, crashes, scanning enabled and disabled at will, fair | No scan opens a closed ticket; text of a closed one, and a severity, change for the worse only on a reading that is out of date (`DecisionsStand`); every run is settled, by its end or as stale, as long as scanning stays enabled or requests keep coming (`ScanIsSettled`). |
| `trigger` | 3 tickets, batches of 1, 3 instants, 1 failed statement, 1 crash, fair | No ticket starts two runs and the backlog none (`FiredOnce`); whatever the cursor has not passed fires, but for ties, crashes and regrading (`OpenedIsFired`). |

Type correctness is checked in every run but `workflow`'s and `worker_ample`'s, as a conjunct of a
property where it is not listed, and proved of all modules.

### Bounds

Each bound keeps the case the properties are about. Two slots and three connections make one
connection wait for, or be refused, a slot and let a freed slot be reused within a batch; batches of
two put a stale event behind the one that frees its slot (without scarcity, batches of one suffice
for the liveness questions, and keep the temporal check in reach). The fourth connection of
`worker_scarce` is dropped before it takes a slot. A table of two rows is the smallest with a named
region and an overflow region that meet, and three flows are more than it has rows; a host that is
called `other` is left to the theorems. Three instants,
an interval of one and counts up to three let the ingest see a restart, a duplicate instant and a
clock set back. A pipe of two against a send buffer of one leaves bytes behind in a drain, a bucket
of one against three bytes needs two refills, and one byte inwards is enough for the directions to
disturb each other. Three runs and a threshold of two are what it takes to age a row to REMOVED; two
callers, what it takes to contend. The small graphs of `workflow` contain every shape of two steps
between two triggers; the five others are named in `MCWorkflowRun` for what they add. Two applies
overtake each other at the agent's lock and at the second transaction; two revisions make one of
them stale, and one mishap, which may be a kill between any two of the agent's steps, is enough to
leave the files of one revision and the chains of another; several of them together are left to the
theorems, which bound nothing. Two tickets and three requests let one be
asked for while the loop is between its last query and its end, and again while it runs; two
failures reach the handler's own failure. Two scans are the least that overlap, and two findings let
one scan write twice to the ticket on which both work. Three tickets in three
instants, taken one by one, put ties at the cut and rows that become visible behind the cursor.

`MaxBatch`, `MaxBytes`, `MaxClock`, `MaxCount`, `MaxStarted`, `MaxOut`, `MaxIn`, `MaxRuns`,
`MaxApplies`, `MaxRev`, `MaxMishaps`, `MaxFaults`, `MaxRequests`, `MaxFailures`, `MaxScans`,
`MaxFindings`, `MaxEdits` and `MaxCrashes` are bounds of the model and appear in guards; the other
constants are parameters of the code. Symmetry is used over interchangeable connections, flows, hosts,
labels and polls, and never with a liveness property.

Deadlock is not checked in `relay`, `workflow` and `edge_push`: a flow and a run of a workflow come
to an end, and the model of the edge runs out of revisions and faults. The worker, the publisher,
the pollers, the callers, the schedulers and the investigation loop have always something to do.

### Fairness

* *Worker*: weak fairness of the loop (`epoll_wait` returns within 200 ms), and strong fairness of
  the maintenance sweep's being due (it is, every second, whatever the events). Nothing is assumed
  of peers or of the kernel.
* *Relay*: weak fairness of the worker, of time, and of peers that read. `StreamArrives`
  is void for a peer that does not, and the idle reaper (`ProxyWorker`) is what deals with it.
* *Sync*: weak fairness of a call's steps: each request has a timeout. Locks, overruns and crashes
  are never forced.
* *Workflow*: weak fairness of `executeWaves` and of the steps. That an action settles is an
  assumption: `executeWorkflow` has no time limit of its own. An action that hangs would keep its
  run, and the scheduler's tick, for ever.
* *Edge*: weak fairness of the sync (a scheduler starts it again and again), of an agent at work and
  of the boot unit, which systemd restarts every five seconds without a limit. Answers, edits and
  faults are never forced.
* *Investigations*: weak fairness of requests under way, of the loop, of the boot sweep and of the
  restart; the agent ends because it is aborted after four minutes. `QueuedIsSettled` supposes that
  the process stays up from some time on.
* *Scan*: weak fairness of the scheduler's asking, which it does only while scanning is enabled, of
  every scan's next step and of the fifteen minutes. What a scan asks of Elasticsearch and of the model
  has a timeout of its own. An automatic investigation is called without a signal (`engine.ts:325`), and
  what its report call waits for is left to the provider's client: that it ends is an assumption.
  Nobody is made to enable scanning or to ask; `SomebodyAsks` is the condition of `ScanIsSettled`.
* *Trigger*: weak fairness of the evaluation, which the scheduler starts every minute.

## Where the code and its comments part

One run ends in a counterexample to something the repository says of itself.

**Overlapping polls are stored twice** (`ingest_overlap`, `privacy-router-traffic.ts:404`).
*"A duplicate or concurrent poll is harmless"* (`stats.rs:8`). The cursor is read before
the transaction that replaces it, and the transaction does not look at it again. It takes
two ticks, or two replicas, at once.

Other places where code and comment part were met while modelling. The models do what the code does,
and their properties are worded so as to except it; each can be seen by strengthening the property
named.

| Where | What it says | What the code does | How the models take it |
|---|---|---|---|
| `worker.rs:365` | "Every per-flow error closes that flow" (`:236`) | a token names a slot and no generation: an error of a closed flow, behind it in one batch, ends the flow that was given the slot. No accounting is disturbed | no property says who closes a flow |
| `worker.rs:563` | `PipePool.live` is the number of pipes there are | when the second pipe of a pair cannot be made the first is dropped but stays counted, so the limit is reached too early, never passed | `PoolExact` is checked with nothing scarce |
| `engine.ts:47` | "Serialized cluster-wide" (`:16`) | after 600 s Prisma ends the transaction that holds the lock, and the sync goes on beside the next | `expired` in `SweepReconcilesInTime` and `RemovedOnlyAfterMisses` |
| `executor.ts:296` | "A step failure fails the run and SKIPs every step not yet started" (`:32`) | the slices of one wave are all started | `ActionsRunWhenReached` speaks of reached steps |
| `edge-networks.ts:291`, `edge-sync-presentation.ts:114` | "The relay is running exactly the ports saved here." | after a lost acknowledgement and a revert the edge runs a ruleset that the claim is not about, until the next sync | `WrongClaimIsDropped` |
| `threat-trigger-runner.ts:15` | "so it is exact" | tickets of the cursor's very instant, or committed behind it, never fire | `Tied`, and `After` the cursor, in `OpenedIsFired` |
| `engine.ts:281` of the scan | "Only escalate severity"; a closed ticket's content is the operator's | a ticket is written as it was read before every model call, so a severity may be lowered and the text of a closed ticket replaced | `ReadOf` in `DecisionsStand` |
| `engine.ts:319` of the scan | "failures are swallowed" | a failed automatic investigation counts against its scope: a run may be FAILED with all scopes fine | the verdict of a run is left open |
| `services/scan.ts:73` | "A scan is already running" | look for a running scan, then create: two may start | nothing in `TicketScan` assumes one |
| `ai/scan/scheduler.ts:28` | "stale — process exited mid-run" | a live scan older than fifteen minutes is failed, and later overwrites FAILED | `ScanIsSettled` asks that a run is settled, not once |
| `ai/scan/scheduler.ts:24` | "A crashed process can leave a RUNNING row behind — fail it" (`:26`) | a tick returns before that line while scanning is disabled, which is the default; a manual scan runs all the same, and if its process dies its row says RUNNING until the next request | `enabled` in `Ask`, `SomebodyAsks` in `ScanIsSettled` |

## The proofs

TLC says what holds of the instances above; these theorems hold for every value of the constants
that satisfies the modules' `ASSUME`s, which say no more than that sizes are numbers (positive
where the code's are) and that null values are not among the values they stand beside. Two further
hypotheses appear in theorems, where the code needs them: `Pollers = {p}`, one poll at a time, for
the ingest (`ingest_overlap` shows what happens without it), and `~Scarce`, for `WorkerPoolExact` and
`WorkerImplementsAdmission` (a pipe that cannot be made turns a client away too, and stays counted).
The model's bounds are constants of the theorems as well; their values are not used.

| Theorem | States | Argument |
|---|---|---|
| `WorkerTypeOK`, `WorkerSlabConsistent`, `WorkerHoldingsMatchState` | types; each vacant slot is free once; a flow holds what its state says, whatever events are stale and whatever fails | below |
| `WorkerPoolBounded`, `WorkerPoolExact` | the pool never passes its limit, whatever fails; with nothing scarce it is exact and no admitted flow goes without | below |
| `WorkerImplementsAdmission` | with nothing scarce the worker implements `FlowAdmission`, for any connections, slots and batches | below |
| `StatsTypeOK`, `StatsRowsDistinct`, `StatsFoldNotLoss`, `StatsMislabelledOnlyWhenFull`, `StatsGaugeExact` | the table's rows, its last resort and the gauge, for any number of flows on any table | below |
| `StatsPublishedNeverGoesBack` | no file takes back what an earlier one said, though rows are read one by one | below |
| `IngestTypeCorrect` | types of the ingest, with any number of polls at a time | each action |
| `IngestNeverOvercounts`, `IngestMovesTogether` | with one poll at a time no byte is counted twice, and the total moves as the cursor does: for any pairs, restarts, clocks, crashes and failures | below |
| `RelayTypeCorrect`, `RelayNeverSleepsOnWork`, `RelayStreamsWhole`, `RelayCountsEveryByte`, `RelayRateHolds` | all that `relay` checks but its liveness: for any pipe, send buffer, bucket and traffic, limited or not | below |
| `WorkflowTypeOK`, `WorkflowActionsRunWhenReached`, `WorkflowRunAgreesWithSteps`, `WorkflowSuccessIsExact`, `WorkflowFinalIsFinal` | the executor on any set of valid graphs, any cap, with and without faults | below |
| `SyncReconcilesInTime`, `SyncRemovesOnlyAfterMisses` | the sweep, for any entities, callers, threshold and number of runs | below |
| `EdgeKeepsPromise`, `EdgeMeetsWholeGenerations`, `EdgeRecordSurvivesReboot` | control plane and box implement `VersionedConfig`; traffic meets whole generations; the record survives a reboot: for any rulesets, applies, revisions and mishaps | below |
| `QueueForgetsNobody` | no ticket is left behind, for any tickets, requests and crashes | below |
| `ScanDecisionsStand` | what scans may do to tickets, for any tickets, requests, scopes, severities and failures | below |
| `TriggerFiresOnce` | at most one run for a ticket, for any tickets, batch size and crashes | below |

**ProxyWorker.** `IInv` is `TablesOK /\ LoopOK /\ PendingLive`. The two tables are inductive once
the loop's list is known to name live slots: `maintain` collects slots and visits them one by one,
and each visit may close only its own (`PendingLive`). A handler works on a slot that is *handed* to
it (`Handed`): neither free nor anyone else's. The lemmas say of `Keep`, `Teardown`, `Close`,
`Relay`, `Connected`, `OpenUpstream` and `Peek` in turn that from a handed slot and a well-shaped
flow they restore the tables; each action then hands over a slot.

The pool (`PoolOK`) is a second pass over the same functions, with a cardinality: what was made is
at least the idle pipes and two for each flow that holds a pair, and exactly that with nothing scarce.
`Ready` and `Handled` say what a handler may assume and what it leaves behind; since a pair
is taken only when idle ones or the limit allow, and the limit is two for each slot, the limit is never
in the way of a flow that has a slot. The refinement uses that (`ConnOK`: a connection is in one place
at a time, and in one slot at most). Under `Status` each step is shown to be one of `FlowAdmission`'s
or to change nothing: the hard case is a stale event that ends whoever has the slot now, which the
abstract specification must see as an end of that connection and of no other.

**ProxyStats.** `RowsDistinct` is not inductive: `IInv` adds that the two regions cover exactly
the slots rows have, do not meet and keep to their limits (`IndexOK`), and that a flow past
`slot_for` has a slot in use whose row is of its own action unless the table is exhausted
(`FlowOK`). `InsertPreserves` grows either region. The gauge is
a cardinality of flows; that a step moves both sides alike is where the
theorems about finite sets are used.

For the file, `HistoryOK` says of the publisher half-way through a rendering that each line of the
last file is either behind a row still to be read, which has at least its counters, or continued by a
line already drafted: rows are not taken back, counters do not shrink, and the rows to be read were
taken at once.

**TrafficIngest.** A reading of a pair is on its way through four places: the cursor, the reading
the poll holds, the file, the running proxy. `OnTheWay` sums what each gains on the one before (a
place that has less gains nothing, since that is a restart) and says the sum is at most what has been
counted and is not in the total. Counting extends the last gain and the truth alike; a restart, a
publication, a reading or a failure only replaces one place by its neighbour's value, which cannot
make the sum larger (`Gain` obeys a triangle inequality); a commit moves the first gain into the
total. `STARTED`, and with it the clock, plays no part: a baseline gains nothing, and two proxies that
were started in the same second are two more readings. What the argument needs is that the cursor the
poll has read is still the cursor when it commits (`SeenOK`), which is what two polls at a time break.

**ProxyRelay.** `RelayOK` has five parts. `BytesOK`: a byte sent is unread, in the pipe or delivered.
`EndsOK`: the end of file is seen when nothing is left to read, and the half-close follows in the
step that empties the pipe. `TallyOK`: what has been counted and what this pass has moved is what was
taken in; and an allowance that is not limited cannot be used up by it. `WakeOK` carries the
property that matters: what a round of the pass has visited, without anything having moved in that
round, is at rest, unless an edge has come since or the allowance is used up. It is not enough to say
this of a pass that has ended. A round takes both directions in turn and another follows as long as
one of them moved something: a splice may give work to what was at rest when it was visited, and
`progress` is what sends the pass round again.

**WorkflowRun.** `IInv` is `TypeOK` with five parts: `Control` (steps are under way in the
current slice and nowhere else), `StepOK` (how far `runNode` has come fixes what memory and row
can say), `ReachOK` (why a step is where it is: it was *reached* and what leads to it *decided*,
or it is *blocked*), `FailureHasStep`, and `RunOK` (the two properties of a finished run). The
lemma that carries it is `DecidedStays`: what has been decided of a step's predecessors no later
step of the executor or of a sibling undoes. The step that is run for want of a ready
one is the hard case, since it has been neither decided nor reached; it is blocked
because the first step that has not started, in topological order, has decided predecessors, so
that it can only wait for a reference, and that reference has no output. That there is a
first one is the well-foundedness of the naturals.

**SyncEngine.** `IInv` says of times that they come from the clock and, until a transaction expires,
that only the holder of the lock is under way (`LockOK`), how far a run has come and what the rows
say for it (`StageOK`: before it applies, every row was last seen before its start; after, exactly
its snapshot's rows were not), and that a row's `missCount` never runs ahead of what was missing
(`AgesOK`). The hard state is between the two statements of the sweep: there a row that was not
removed has been missing once more than its `missCount` says, and a run that stops there leaves it
that way.

**EdgeApply.** `IInv` has five parts. `HistoryOK`: whatever is on its way, in the agent, in a file
or in a row that may be written back was sent with its number, and what is recorded was installed.
`AgentOK`: the agent's number is not behind the state file, nor that behind the request file.
`SessionsOK`: an apply has one request, which waits, is worked on or has been answered. `ChainsOK`:
chains jumped to, or about to be, are there. `FreshOK`, as long as no row has been written back:
numbers are not used again, so a request that waits is news to the box, and what it confirms it has
also saved for the boot. The refinement is proved as a step simulation: each step is one of
`VersionedConfig`'s or changes nothing it sees.

**InvestigationQueue.** `IInv` adds to the property that a loop that is off or asking has no
ticket and no flag, and that a request keeps its ticket; the race of a request with the end of a drain
is in `KickedOK`.

**TicketScan.** What a scan has read of, there is, since tickets are never deleted (`KnownOK`), so
that a plan to update meets a row; `UpdatedType` says what the update may change.

**ThreatTrigger.** The cursor is at most one instant and never goes back; what waits to be fired is
past the stored cursor before it is stored and behind it after; a ticket that has fired is behind it
and not waiting. The newest of a batch exists by the well-foundedness of the naturals.

The invariants were model-checked before they were proved. Only model-checked: liveness
(`QueuedIsAccepted`, `QuietFlowIsReaped`, `StreamArrives`, `LockIsReleased`, `RunEnds`,
`WrongClaimIsDropped`, `RestoredAfterBoot`, `QueuedIsSettled`, `ScanIsSettled`, `OpenedIsFired`),
which is out of TLAPS's reach.

No module updates two fields of a nested record with one `[x EXCEPT ![f].a = .., ![f].b = ..]`: the
translation of that form to SMT in version 1.4.5 of the proof system loses updates, and a proof
could lean on that. The record is written out, or made by an operator.

## Remarks

Met while modelling; none of them is a violation of something the repository promises in so many
words.

* A stale *writable* event makes a flow that is still connecting take its pipes and relay; its
  splices find nothing to do, so it is harmless.
* `DEGRADED_FLOW_CAP` is raised for a pipe that could not be made too; `DEGRADED_FD_LIMIT` is
  never raised.
* An `accept` that fails for want of descriptors leaves the backlog to the next edge: without
  another connection the queue waits. `QueuedIsAccepted` is therefore checked with nothing scarce.
* `slot_for`'s last resort counts a flow on the first `other` row, whatever its action, when a
  second action overflows into a full table; its comment takes this for impossible (`stats.rs:248`).
  `MislabelledOnlyWhenFull` states exactly when it happens.
* `Hostname::parse` accepts `other`, which `stats.rs:122` takes for a name no host can have. The
  rows do not collide: one table row then stands for both.
* A run of a workflow whose process dies stays RUNNING; nothing takes it up.
* A scheduled run is started without the id of its trigger node (`workflows/scheduler.ts:216`): in a
  graph with a manual and a schedule trigger the branch of the manual one runs.
* `markFailed` swallows its own failure (`worker.ts:164`), and the query for the next ticket is
  outside the inner `try`: a failed statement may leave a ticket queued or running until somebody
  asks again or the process is restarted. `QueuedIsSettled` excepts exactly that.
* Numbers of rulesets are used again once a row that was read before an apply is written back after
  it; a box that has the number with another ruleset refuses it, and `RecordedSurvivesReboot` is
  stated for rows not written back.

## What is not modelled

* *Data*: hostnames, packets, rule sets, templates' values, snapshots' attributes. Parsing
  (`parser.rs`, `hostname.rs`), longest-suffix matching (`rules.rs`), formatting and redaction are
  pure functions over strings with unit tests of their own.
* *Integration drivers, notification actions, language models*: external systems; whatever they answer is
  a free choice in the models that call them.
* *Web interface, route handlers, schema, packaging*: no protocol of their own.
* *Users, tokens, TLS, pollers, retrieval, MCP, topology, checks*: request-scoped or derived;
  the few rules among them that concurrent requests can break are listed under `hazards`.

`components` in `PROJECT.json` has all parts with the reason for each.

## Plan

Modelled: the worker, the relay, the table, the ingest, the sync, the executor, the edge apply, the
investigation queue, the scan and the ticket trigger, with proofs of all the safety properties of each.
What would come next:

1. `SettingsStore`: read-change-write of one setting by backups, updates and destinations.
2. `ProxyServer`: generations, exit sweep, reload and shutdown; composes with `ProxyWorker`'s verdicts.
3. `Connectors`: links and tunnel addresses beside `EdgeApply`, whose advisory lock they share.
4. The schedule and the Elasticsearch triggers beside `ThreatTrigger`, down to the choice of the
trigger node.

Proofs: abstract specifications for the relay (a pair of byte streams) and for the ingest (a ledger
that only gains), and the step simulations that show them implemented; that each row of the table
counts what its flows have sent; and that a published file is a reading `TrafficIngest` may start from.

## Running it

    tlc -config ProxyWorker_scarce.cfg MCProxyWorker
    tlapm ProxyWorkerProofs.tla

The longest run takes about two minutes on two workers, the longest proof module a minute and a half.
