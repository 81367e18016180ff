# WardenAgent in TLA+

WardenAgent serves an agent over HTTP: a *run* is a conversation in which a model answers with text or
with tool calls, a policy lets a call pass, denies it or holds it until a human approves, and every step
is written to a database so that a crash of the process does not lose the run. Around that core are a
gateway, a browser front end, a tool layer with sandbox, sub-agents and outside tools, a robot with its
safety gate, and the stores, ledgers and maintenance jobs of a service.

This directory holds TLA+ models of those parts, the TLC configurations that check them on small
instances, and proofs, checked by TLAPS, of the properties that matter most for every value of the
constants. Paths below are relative to `src/src/warden_agent/` unless they start with `src/`.

* [1. Inventory](#1-inventory)
* [2. Modules](#2-modules)
* [3. Runs](#3-runs)
* [4. Where the code and its documentation part](#4-where-the-code-and-its-documentation-part)
* [5. Theorems](#5-theorems)
* [6. Only model-checked](#6-only-model-checked)
* [7. Not modelled](#7-not-modelled)
* [8. Plan](#8-plan)

To check everything: `tlc -config X.cfg M` for each run of section 3 and `tlapm M.tla` for each
`*_proof.tla`.

## 1. Inventory

| Part | State it keeps | Operations | What is hard about it |
|---|---|---|---|
| Run status machine `core/run/status.py` | `AgentRun._status` | `mark_queued`, `start`, `resume`, `wait_for_approval`, `begin_completing`, `complete`, `fail`, `restart` | used by drivers that crash between two saves |
| Agent session `runtime/session.py` | history, pending ticket, gated call, latest checkpoint, in memory and again in the database | `start`, `approve`, `reject`, `resume`, the loop | each database write is separate: a crash falls between any two |
| Checkpoints, recovery `runtime/checkpoint.py`, `recovery.py`, `worker.py` | one row per run; a plan in memory | `capture`, `restore`, `plan`, `run_once` | a failed write is swallowed; the plan is old when it is used |
| Run lock `runtime/locking.py`, table `run_locks` | owner and expiry per run; the lease's `lost` flag | `acquire`, `renew`, `release`, `owner_of`; heartbeat thread | late threads, expiry, statements that are not one transaction |
| Session registry `web/session_registry.py` | LRU/TTL cache of session objects, per replica | `get`, `remove`, eviction | replicas do not see each other's caches |
| Gateway, authentication, roles `web/server.py`, `auth.py`, `routes/` | owners of runs, approval history, idempotency keys | middleware, handlers | what an authorization rests on changes before the handler acts |
| Streams `web/routes/chat.py`, bus `web/coordination.py` | slots of the gate, queue of a response, events | `/chat/stream`, `/events`, publish, poll | the driver outlives its response; ids that commit out of order |
| Idempotency `web/server.py`, `coordination.py` | a row per key | `get`, `reserve`, `put`, `release`, sweep | store calls raise between the effect and the answer |
| Limits `web/outbound.py`, `ratelimit.py` | windows, quota, slots | the gates, `hit`, sweep | counters read with one clock and swept with another |
| Audit log and archive `web/audit.py`, `runtime/archive.py` | hash chains, anchors, files | append, verify, export, archive | concurrent writers, torn lines, edits by administrators |
| Stores `store/sqlite.py`, `postgres.py` | every table, one shared connection | one method per row operation, schema at start | what is one transaction and what is not; reconnects |
| Conversation `runtime/session.py`, `loop/cognition.py` | messages and their rows | save, complete, cut | a result without its call, or the reverse |
| Tools `tool/stability.py` | breaker, count of stuck threads | `execute` | threads that outlive their timeout |
| Agent loop, policy, planner, intent `loop/`, `policy/` | history, plan, cost, suspicion | `run` | order of the guards |
| Models `model/`, choices `web/routes/models.py` | assembled fragments; keys, choices, probes | stream, select, test | one model object under many chats; reads apart from writes |
| Memory `memory/`, retrieval `rag/` | memories; index and fingerprint | propose, decide, recall, purge; build, search | decisions on what was read before; interrupted rebuilds |
| Credentials `credential/`, `store/vault.py` | encrypted records, leases | import, rotate, lend, revoke | processes with different keys |
| Execution `execution/`, patches `git/` | processes, sandbox copies; a tree | run, kill, shut down; merge | descendants, eviction; the tree moves on |
| Sub-agents `multiagent/` | outputs of tasks, registered agents | batch, chain, supervise | tasks that end after the report |
| Outside tools `tool/`, `mcp/`, `skill/` | pages, search errors, tool lists, packages | fetch, search, call, activate | late lines, redirects, shared errors |
| Robot `embodiment/` | latch, target, pose; bytes of the line | reflex loop, tools, parser | nothing holds a lock |
| Server start `web/run_server.py`, `core/settings.py` | a configuration per process | `main` | replicas of different configurations |
| Maintenance `runtime/backup.py`, `maintenance.py`, `alerting.py`, telemetry | backups, spans, gauges | back up, prune, scan, export | the newest that is kept may be broken |
| Front end `src/web/src/` | bubbles, busy flag, polls, list, panels | event handlers, effects | answers that come for what is no longer shown |
| Scripts `src/scripts/` | mutants in the sources | `mutant_check`, `mutation_shards` | killed in the middle of a write |

How they meet: the middleware authenticates a request, finds the run's owner and passes the request to a
handler. A handler takes the run lock (`_acquire_run`), gets the session object from the replica's
registry, which rebuilds it from the database when it is not cached, and calls `start`, `approve` or
`reject` on it. These drive the loop, which writes messages, status rows, checkpoints and tickets through
the store, calls tools through the stability layer and publishes events on the bus; a streamed response
carries frames from the driver's thread to the browser, which polls the rest. The recovery worker plans
over all checkpoints, takes the run lock one run at a time and calls `resume` on a fresh session object.
The heartbeat of a lease runs in a thread of its own. Processes share nothing but the database.

What makes each part correct:

* status machine: a stored status changes only as the methods allow, crashes or not;
* session: no call is executed twice, a held call at most once per approval of it, a refused one never; a
  run that waits has something to approve; a failure is on record before the run is called failed;
* recovery: an interrupted run is taken up again, a settled one is left alone, retries end;
* lock: one lease at a time within its lifetime; a lock is taken over only when it expired; a lease
  with a punctual heartbeat keeps its lock; a lease that lost it is told;
* registry: a cached session is what the database would give;
* gateway: what a request does, its user may do at that moment; a decision is on the ticket it names;
* idempotency: one execution per key, and a key never stays blocked;
* streams: one driver, events in the order of turns, slots and leases given back, an end on the bus;
* tools and loop: no side effect twice after a timeout, stuck threads bounded, guards before effects;
* robot: under a stop no torque is sent that was not under way already, and the torque goes;
* ledgers: what nobody changed verifies, what was changed is found; counters and alarms tell the truth;
* stored data: what was written stays readable through rotations, upgrades and prunings, and is read as it
  was meant.

`PROJECT.json` lists all components with what is left out, and under `hazards` the forty places in the
code where one of these could most easily break without a test noticing.

## 2. Modules

### The core

| Module | Models | Role |
|---|---|---|
| `AgentRun` | `core/run/status.py` | statuses, allowed sources and target of each method, as plain operators |
| `RunLifecycle` | what the status machine promises | abstract specification: one variable, the status; its steps are the calls the session makes between two saves |
| `AgentSession` | `runtime/session.py`, `checkpoint.py`, `recovery.py`, `worker.py`, registry, approval and chat routes | the core: one run, several replicas and workers, database and crashes; it implements `RunLifecycle` |
| `RunLock` | `runtime/locking.py` and the `run_locks` statements of both stores | the lease lock with clock, heartbeat and crashes |
| `ChatStream` | `web/routes/chat.py`, the SSE gate, the events of one run, the browser's reconnect | streamed turns: endpoint, driver thread, queue, generator, connection |
| `MCAgentSession` | | sets of tools and the symmetry of replicas for TLC |
| `AgentSession_proof`, `RunLock_proof`, `ChatStream_proof` | | theorems |

#### AgentSession

State in the database: `runStatus` (the row), `ticket` (`pending_approvals`), `cp` (the checkpoint row),
`noted`/`answered` (the assistant messages with a tool call and the tool messages), `history` (decisions
recorded by the approvals route). State in memory: `cache[r]` (the registry's object in replica `r`),
`plan[w]` (what worker `w` decided to do), and for the driver in charge `mem` (its session object),
`iter`, `call`, `batch`, `ok`. `pc` and `drv` say where the driver is and who it is; `pc = "idle"` is a
free run lock. `asked`, `granted`, `refused` and `executed` are observations.

Every database write is the boundary of an action, because a crash can fall there; what happens in
memory between two writes is one action. `start()` is `BeginChat`, `Restart`, `Queue`; the loop is
`Model`, `ModelCallsTools`/`ModelAnswers`/`ModelSaysNothing`/`ModelFails`, `Note`, the verdicts
`Deny`/`Ask`/`Hint`/`Allow`, `Execute`, `Result`, `Exhausted`; `_hold_for_approval` is `Ask`,
`HoldStatus`, `HoldCheckpoint`; `_mark_completed` and what follows it is `Complete`, `DoneCheckpoint`;
`_mark_failed` is `Fail`, `FailPersist`; `approve()` is `BeginApprove`, `Execute`, `ApprovedResult`,
`ApprovedClear`, then the loop; `reject()` is `BeginReject`, `RejectedStatus`, `RejectedResult`, then the
loop; `resume()` is `BeginResume`, `Restore`, and for a retry `Retry`, `Restart`, `Queue`. `Get` and
`Evict` are the registry's, `Plan` and `SkipHeld` the worker's, `Crash` may hit any process at any time.

The session keeps `shown` (the ticket the human sees) and `gated` (the call an approval would execute)
apart because `AgentSession.__init__` finds the second by the tool's name: after a restart it is the last
unanswered call of the same tool. `Capture` keeps the rule that the session remembers a checkpoint whose
write failed. Driving is assumed to be exclusive here; that it is exclusive is `RunLock`'s subject.

#### RunLock

A lease is one `RunLease`. `row` is the lock; `pc` is the thread that acquires, drives and stops; `beat`
is the heartbeat thread. Time is a counter that both read: `at` and `read` are readings which may have
grown old by the time a statement uses them, `due` is when the lease's next step is due. A lease not in
`Slow` makes it at most `MaxLag` late; a lease in `Slow` (a long GC pause, SIGSTOP) at any time.
With `Shared = FALSE` the lock is `InProcessRunLock`: each method runs under one mutex. With
`Shared = TRUE` it is `SqlRunLock` on PostgreSQL in autocommit: `acquire` is the upsert and the SELECT
that verifies it (`Acquire`, `Verify`), `owner_of` is a SELECT and a DELETE (`OwnerOf`, `Cleanup`), and
`_reconnecting` may run a statement twice. `Crash` removes the threads; a shared row stays.

#### ChatStream

One run and several requests to `/chat/stream`. `drv[s]` is the endpoint's handler and, from `"run"` on,
the driver thread: it produces frames (`Emit`), publishes the end of its turn (`Publish`), offers the last
frame (`OfferEnd`), stops the lease and gives the slot back (`Stop`) and offers the end marker
(`OfferEof`). `gen[s]` is the generator that carries the frames to the browser, `frames[s]` the queue
between the two; `Offer` waits while the queue is full unless the generator has been closed.
`client_gone` and `worker_done` are not variables of their own: `Gone` and `Done` read them off `gen` and
`drv`. The connection breaks in `Disconnect`, and the generator notices when it next sends (`Resume`).
`TimesOut` and `Check` are the heartbeat window and the test of `worker_done` after it, two steps because
frames may come in between. `Drop` is what Starlette does with a response whose client has gone before
the generator ran: no `finally` runs. `watch[s]` is the browser's subscription to `/events` after a stream
that ended without its terminal frame.

`log` holds the turn of every published event; the bus keeps the last `Keep` of them, and a subscription
that starts at sequence 0 gets `Oldest` first. `active` is the counter of the gate and `lock` the run's
lease, which here does not expire before its owner releases it, except after a release that raised
(`Expire`). Merged into one action are: the end of the session and its publication, and `worker_done`,
`lease.stop` and the slot's return. `PlainTurn` is a turn of the routes that do not stream.

### Three suites

The other parts are smaller and share no state with one another. They are checked in three suites: a suite
has a variable `part`, a behaviour picks a part at the start, runs the steps of that part's module and
leaves the variables of the others as they are. So each part is explored by itself, and its properties are
properties of the suite.

| Suite | Extends | Parts (`part`: module, next-state relation) |
|---|---|---|
| `MCTools`: what the agent acts with | `ToolStability` | `tool`: ToolStability; `loop`: AgentLoop; `exec`, `sandbox`: ExecBroker (`Next`, `Sandbox`); `batch`, `team`: Dispatch (`Next`, `Team`); `client`: ModelClient; `patch`: PatchFile; `models`, `leases`: ModelChoice (`Choose`, `LendOnly`); `mutants`, `shard`: MutantCheck (`Next`, `suggest_tests`); `page`, `search`, `mcp`, `skill`: OutsideTools |
| `MCEdges`: where the program meets the world | `Gateway` | `gate`: Gateway; `reflex`: Embodiment; `serial`, `frames`: SerialLink (`Next`, `Parse`); `start`: ServerStart; `page`: Browser; `poll`, `list`, `models`: Panels |
| `MCRecords`: what is written down and read again | `Idempotency` | `idempotency`; `audit`: AuditChain; `archive`: Archive; `events`: EventLog; `history`: History; `vault`: KeyRotation; `schema`: SchemaStart; `backup`: Backup; `limits`: Limits; `memory`: Memory; `corpus`: KnowledgeIndex; `index`: VectorIndex; `connection`: SharedConnection; `export`, `watch`, `measure`: Telemetry |

`Tools_proof`, `Edges_proof`, `Gateway_proof`, `Records_proof` and `Prompt_proof` hold the theorems about
them (`Prompt_proof` those about the history, the index and the chunks of `MCRecords`).

#### The gateway and the server

| Module | State and actions |
|---|---|
| `Gateway` | `row`, `ticket` are the database; `creator`, `sess`, `own`, `held` the registry of the process; `req[q]` is a request: who, what on which runs, and where it is. `Admit` is the middleware (authenticate, role, owner of each named run), then per kind `Lock`, `Find`, `Drive`, `Finish` (`_acquire_run`, `registry.get`, the drive, the release), `Create`, `Save`, `Judge`, `Act` (approve, reject), `Check`, `Remove`, `Erase` (the two deletions), `Restart`. A drive is three steps here (`AgentSession` has it in full). |
| `Idempotency` | One key and its requests: `Lookup`, `Reserve`, `Execute` (`call_next`), then `Put` for a 2xx and `Release` for everything else, each one statement and one commit. With `StoreFaults` a store call may raise, `put` before or after its row was written, and `reserve` may be repeated on a new connection (`ReserveRepeated`). `Crash` ends a request without its handler; `Sweep` takes old placeholders and answers alike. Ages (`since`) count to `TTL + 1`. |
| `ServerStart` | A configuration is a function from variables to what their text means. `ENV_SPECS` joins the sections of the registry, with texts that stand for all others. `main` is the chain of refusals of `run_server.main`; `Edit` is the operator, `Start`/`Stop` a replica, `Take` a user who starts to use a listed key. `Callers`, `Source`, `_build_policy`, `Store` are what a running server makes of the environment it has read, `Assembled` is the store that each of its parts keeps its state in. |
| `Limits` | The gates of an outbound request (`Hit` with its shared row, `Slot`), `Sweep` with the other clock, `Restart`, `Tick`. A caller's reading of the clock may lag. `passed` is the history of the times at which a gate was opened, since the sweep last took its row while the window might count. |

#### What the agent acts with

| Module | State and actions |
|---|---|
| `ToolStability` | Calls and their attempt threads: `Call`, `Cool`, `Start`, `Finish`/`Settle` (the thread), `Reap`, `TimeOut`, `Abandon` or `GiveUp`, then `Count`, `Mark`, `Reset` (the breaker), `Continue`. The lock of the counters covers one action each; everything else interleaves. |
| `AgentLoop` | `Begin`, then rounds: `Model` or `Exhausted`, `Reply`, `Late`; per call of the answer `Refused`, `Hint`, `Fail`, `Repeat`, `Succeed`; `Observe`. `Verdict` is the strictest of the rules and of the escalation after tainted output; `intent_hint` is the router, `plan_with_model` the planner's bounds. |
| `ExecBroker` | `active` is the list of processes; `Execute`, `Track` (eviction), `Return`, `TimeOut`, `Kill`, `Shutdown`; processes may be deaf to SIGTERM and leave heirs that write. Part `sandbox`: `detect_isolation_tier`, `resolve_enforced_isolation`, the copy (`Enter`, `Start`, `Cleanup`). |
| `Dispatch` | A batch under one deadline (`StartTask`, `EndTask`, `Wait`, `Tell`, `TellLate`, `Report`), a chain (`run_sequential`), an agent as a tool (`Ask`, `Substitute`, `Degrade`); part `team`: which tools agents get (`Register`). |
| `ModelClient` | `Send` writes the name map of the shared model object, `Fragment` assembles calls by index, `Respond` and `StreamEnds` give the answer with the names mapped back. |
| `PatchFile` | `AddHunk`/`Delete` write a diff of the commit, `Edit` and `Commit` change the tree and HEAD, `Merge` checks the base and parses, `ApplyNext` applies a file (`ApplyFile`: `Reached` and `Take`, hunk after hunk and line after line), `Report` answers. `Patched` is what the diff says of a file. |
| `ModelChoice` | `vault`, `choice`, `row`, `sess`, `probes`; requests read and write them in steps (`ReadKey`, `Resolve`, `Register`, `Switch`, `Probe`); `Chat`, `Get`, `Evict`, `delete_run`, `Restart`. Part `leases`: `issue`, `lease_get`, `revoke`, the purge, step by step. |
| `MutantCheck` | `file` and its backup, `manifest`; `Hold`, `Mutate`, `Test`, `PutBack`, `Unnote`, `Settle`, with `Kill` and `Interrupt` at any step and `Edit` in between; `suggest_tests` is the greedy cover of a shard. |
| `OutsideTools` | Parts of their own: a fetch that resolves, judges, pins and follows redirects; a provider shared by searchers; a client of an MCP server with stray and late lines, and Warden's own server; packages of instructions. |

#### Where the program meets the world

| Module | State and actions |
|---|---|
| `Embodiment` | Supervisor (`stop`, `lastTarget`, `lastPose`), `target`, the loop threads' `tick`, and the device. Agents: `Move` and `Assign` (judged and assigned apart), `Hold`, `Estop`, `Reset`. A loop: `Look`, `Halt` or `Pass`, `Aim`, `Slack`, `Send`, each with its failures, `Quit`, `Collapse`. `StartBeside` is a start after a join that timed out. |
| `SerialLink` | `Poll` writes the next number, `Answer` and `Lose` are device and line, `Chunk` is a read that takes the first answer with the right number, `TimeOut`, `GiveUp`. The parser: `Feed`, then `NoStart`, `Garbage`, `Half`, `BadLength`, `BadCrc`, `Hand` until it rests. |
| `Browser` | One conversation on the page and everything that comes back for it: `Send`, `Frame`, `Ended`, `Close`, `Resume`, `Stop`, `Switch`, `Refresh`, `Decide` and `Decided` (a card's decision, before and after its await), `Effects`, `Mounted`, `Reloaded`. A step is what runs without a break. |
| `Panels` | `Poll`: the timer chain of `usePolling.ts`; `List`: gestures, deletions and the change of the user; `Panel`: the choice of a model. |

#### What is written down and read again

| Module | State and actions |
|---|---|
| `AuditChain` | `Lock`, `ReadHead`, `Insert`, `Commit`/`Rollback`, `AnchorNote` per replica; `Edit`, `Cut`, `CutTail` are an administrator; `VerifyChain` and `Verify` walk the chain, `_cmd_audit_export` exports from where the last one ended. A digest is the tuple of what was hashed. |
| `Archive` | Commands: `WriteFile`, `ReadManifest`, `AppendEntry`, and `Dies` between or within them; `ChangeFile`, `ChangeEntry`, `RemoveEntry`; `VerifyArchive`. |
| `EventLog` | `AppendEvent` and `CommitEvent` (PostgreSQL gives the id before the commit), `TrimEvents`, `Poll`, `DropChannel`. |
| `History` | `messages` and `rows`: `Chat`, `ModelCalls`, `ToolResult`, `Hold`, `Approve`, `Reject`, `Reload`, `Resume`; `EnsureToolResults`, `manage_context` and `RequestLists` are what a request to the model is made of. |
| `KeyRotation` | `keyring` per process, encrypted records in `vault`; `Register`, `Delete`, `TakeNewKey`, `DropOldKey`, and the rotation command: `Begin`, `Visit`, `Rewrite`, `Report`, `Killed`. |
| `SchemaStart` | A start of old or new code on SQLite (statement by statement) or PostgreSQL (one transaction under a lock): `ReadVersion`, `HasColumn`, `AddColumn`, `RecordVersion`, `CommitSchema`, `Stop`. |
| `Backup` | `BeginBackup`, `EndBackup` with its check, `Prune`, `Restore`, and writes and damage of the database. |
| `Memory` | Proposals, decisions in several statements (`Confirm`; the old row found, `Supersede`, and saved, `SaveSuperseded`; `Activate`; `Reject`, `SaveRejected`), `Expire`, `Purge`, `Crash`; two ways of recall. `closed`, `overtaken` and `revived` are histories that no step reads. |
| `KnowledgeIndex`, `VectorIndex` | Reuse or rebuild of the stored index with stops in between; linear, inverted and fused ranking over small vectors, chunks of a text. |
| `SharedConnection` | Threads of one `PostgresStore`: blocks under a mutex, other methods without, `Reconnect`, `RollBack`, `Drop`. A write is the number of its operation and statement. |
| `Telemetry` | `Export`: a queue of spans and its worker until shutdown; `Watch`: gauge, sweep and `warden stuck`; `Measure`: histograms. |

Pure algorithms (the planner's bounds, the intent router, the repair and cut of a history, hunks, the cover
of a shard, the ranking functions, the configuration checks) are operators of these modules; their
properties compare them with a definition of what they are for over all inputs of the bounds.

## 3. Runs

Nine runs pass, three show a violation.

| Run | Question |
|---|---|
| `SessionOneProcess` (`MCAgentSession`) | One serving process, four requests, two crashes between any two writes, calls of one tool: `SingleExecution` (no call is executed twice, but for one that a rebuilt session took for the held one), `RefusedNotExecuted`, `HeldHasTicket`, `FailedIsCheckpointed`, `CacheCoherent`, and the stored status refines `RunLifecycle` (`RefinesLifecycle`) |
| `SessionShared` (`MCAgentSession`) | Two replicas with stale caches, a worker with a stale plan, two calls of one tool, lost checkpoint writes, a crash: `GrantedExecutions` (a held call is executed at most once per approval of that call), `WorkersLeaveSettled` |
| `SessionLiveness` (`MCAgentSession`) | A replica and a worker under fairness, a crash, eviction: `DriveEnds`, `InterruptedIsResumed` |
| `LockInProcess` (`RunLock`) | In-process lock, one punctual and two slow leases: `Exclusive`, `HolderKeepsLock`, `LossIsNoticed` |
| `LockShared` (`RunLock`) | Shared lock, three slow leases, renewals that raise, repeated statements: `OverlapOnlyOfWiped` (two leases drive at once only after an `owner_of` deleted the lock of one of them), `NoOrphanedLock` |
| `ChatStream` (`ChatStream`) | Two streams and a plain turn, a browser that comes and goes, a driver whose publishing and release raise: `SlotsCounted`, `DrivesAlone`, `TurnsInOrder`, `EndIsOnTheBus`, `LeaseReturned`, `ResponseEnds` |
| `Tools` (`MCTools`) | `ThreadsBounded` (threads past their timeout), `NoDoubleEffect` (after a timeout), `LoopGuards` (taint gates what follows, budget first, a complex task has a plan and earns its stages, hints doubt), `NothingLost` (one statement per part: processes, sandbox tier, tasks, fragments, sources, keys, leases, pages, searches, remote calls, packages), `AppliedAsPlanned` (a patch's hunks), `EverythingEnds` (runs of the loop and commands) |
| `Edges` (`MCEdges`) | `AccessHolds` (owners, roles, tickets), `StopBinds` (the robot's stop), `ReadingsTrue` (the device's line and frames, the servers' environment), `PageTells` (the page and its panels), `EdgesProgress` (a stop is carried out, a page lets its user type) |
| `Records` (`MCRecords`) | `OncePerKey`, `AnswersAgree`, `KeyRecovers` (idempotency), `LedgersTell` (audit, archive, spans, alarms, metrics), `ReadersTold` (events, connection, memories, index), `OldDataReadable` (credentials, schema, backups), `LimitsHold`, `PromptIsSound` (history and retrieval) |
| `StaleReplica`, `PatchCut`, `LiveWindows` | expected violations, see section 4 |

### Bounds

Calls, turns, crashes, faults and clocks are bounded by constants that appear in the guards of the actions
that count them. They are chosen so that the case a property is about happens, and one more:

* `SessionOneProcess`: three calls of one tool, two in a response, so that a rebuilt session confuses them
  and a hold cuts a plan; two iterations; four turns (chat that holds a call, chat that executes another,
  crash, decision, chat); two crashes; all verdicts of the policy; no eviction. `SessionShared`: two replicas and a worker, two calls
  of the same tool, one iteration, two attempts, two turns, one crash, checkpoint faults. `SessionLiveness`:
  one call, two iterations, two attempts, two turns, one crash, eviction. `StaleReplica`: two replicas,
  three turns and no crash.
* `LockInProcess`: a TTL of four, an interval of one and a lag of one let the punctual lease renew and
  outlive its first expiry (the clock goes to five) while two slow ones act on readings a whole TTL old.
  `LockShared`: three slow leases are one that leaves, one that takes over and one that comes in between.
* `ChatStream`: a queue of one and two frames a turn, so that the driver waits for its browser and the queue
  is full with either frame; two streams and a plain turn compete for one lease and their two subscriptions
  for two slots.
* `Tools`: two callers with three threads, at most one stuck thread, two attempts, a threshold of one; the
  loop has four calls, three iterations, rounds of two, a budget of one, a planner limited to one stage and the fallback's four; the
  broker has one process slot, an heir and processes deaf to SIGTERM, the sandbox two threads and every
  declaration, specification and host; three tasks on two workers with one retry, four tools (two pure), two
  agents; two chats with two calls in two fragments; a file of three lines and two hunks; two users (one
  administrator), one run, two requests and a restart, two borrowers of two leases; two source files, two
  cases, two starts and one edit; three tests by three lines for a shard; three addresses of which one is
  not public, two redirects, three bytes; two searchers; two remote tools, two operations, one stray line;
  two aliases with three versions.
* `Edges`: three requests of an administrator, a user and a viewer on one run, two tickets, one restart; one
  agent beside two loop threads, three positions and one fault; ten polls with numbers modulo four, two
  attempts, five losses; six bytes over an alphabet of four with payloads of up to two, in reads of one or
  two; two servers, two users, two keys and two edits of three deployments; two conversations with two
  messages, three frames, decisions on cards before the last of them, one switch or refresh; four loads of a poll; two rows, two users and one deletion;
  three models and three probes.
* `Records`: four requests with one key (one that dies with it, one that is swept while late, two that
  compete for what is left), a TTL of two and executions that may last as long; two replicas and four audit
  rows with an anchor every two; two archive commands, two names, three writes; two runs, one event kept,
  four ids, pages of two; two texts, two calls, six messages of which the last four are kept (six in the
  code); two servers and two credentials; two starters of up to version four; two backups kept of four;
  windows of two and three seconds with one request each, a clock of five and a wall clock far enough ahead
  of it for the sweep to take every row, as on a real host; three proposals by two threads,
  one expiry; three sources of two pieces, three crashes; three vectors of two components; three operations
  of two statements, one failure, one drop; four spans in a queue of two; two runs watched for two ticks.

`CHECK_DEADLOCK FALSE` is set because a bounded instance stops when its requests or its clock run out.

### Fairness

No fairness is put on requests, on people, on faults or on crashes, nor on what a model answers.

* `AgentSession!FairSpec`: the driver's step and each worker's step are weakly fair: a live thread goes on,
  and `run_forever` polls until the process ends (an operator's worker, or `recover --apply` again and again:
  the server starts none of its own). `SessionLiveness` excludes failing checkpoint writes,
  because the program promises no progress when the database refuses every write.
* `ChatStream!FairSpec`: the driver thread and the generator of each stream are weakly fair: a model call
  ends (its client has a timeout, `model/deepseek.py:129`), and the server iterates a response as long as
  the client reads or until it finds the client gone. `ResponseEnds` needs the heartbeat to be on, its
  default: without it nothing ends the response of a driver that died in its `finally`.
* `Idempotency!Fairness`: the sweep, the clock and each request that has arrived go on, unless it dies. The
  sweep is that of the shared table; the table in one process is gone with it.
* `AgentLoop!Fairness`: a run that has begun goes on. `ExecBroker!Fairness`: a thread in `execute` goes on;
  its process need not end, it is waited for with a time limit.
* `Embodiment!Fairness`: a loop thread that is alive ticks. A thread may die (`Collapse`), after which the
  property asks nothing of it.
* `Browser!BrowserFairness`: a response ends, by the server or by the time limit of the client
  (`src/web/src/lib/api.ts:118-141`), and effects follow a render.

### Symmetry

`SymmetricReplicas` is used in `SessionShared` and `StaleReplica` only, which check safety: nothing
distinguishes one replica from another there.

### Mutants

`PROJECT.json` lists for each property of a passing run a definition and a faulty variant of it, which
stands before it in its module (`SameSeqAny`, `AimUnjudged`, `OwnerOfRow`, ...). With the variant in place
TLC finds the property violated in the run's own configuration.

## 4. Where the code and its documentation part

Three runs show a sentence of the repository that the code does not keep:

* `StaleReplica`: a replica serves `approve` from a cached session whose call another replica has already
  approved and executed (`web/session_registry.py:132`): the call runs twice.
  `src/docs/deployment-boundaries.md:87` calls the per-replica cache correct.
* `PatchCut`: the parser ends a hunk at any line that begins with `---` or `+++` (`git/patch.py:155`), also at
  a removed line whose text begins with two dashes: the rest of the hunk is dropped and the apply reports
  success, against `git/patch.py:12`.
* `LiveWindows`: the sweep compares the starts of rate windows, which are readings of a monotonic clock,
  with the time of day (`runtime/maintenance.py:111`): windows in force are deleted, against
  `store/sqlite.py:711`. `LimitsHold` (run `Records`, with the same clocks) says what then remains of the limit.

The same models show more, which is kept here and not as runs. Where the name of an operator is given, it
is a definition of the module that TLC refutes.

**Runs, recovery, approval**

* `_hold_for_approval` saves WAITING_APPROVAL before its checkpoint (`runtime/session.py:825`); after a crash
  in between recovery continues a run that waits for a human (`NeverResumedWithoutHuman`), which
  `runtime/worker.py:14` excludes.
* `resume()` decides by the checkpoint it finds, not by the plan, and does not look at the limit
  (`worker.py:95`): a run planned for resumption that fails meanwhile is retried past it (`AttemptsBounded`).
* A crash after approve()'s RUNNING save (`session.py:400`) leaves a ticket that can no longer be approved,
  because `resume()` refuses RUNNING; line 850 says it can. A crash inside reject() (`:412`) leaves a run
  that waits without a ticket; `HeldHasTicket` leaves that case out.
* A crash between the COMPLETED row and the done checkpoint (`:634`) makes recovery run a completed run
  again. A crash between the RUNNING row and the first checkpoint (`:292`) leaves a run recovery does not
  know.
* A chat while a ticket is open may execute another call of the same tool; when a crash loses its result, the
  session built next takes it for the held one (`:243`), and approve() executes it again in place of the
  call a human saw. `SingleExecution` says so: a call that was never held but released is executed twice at
  most, every other one once. reject() likewise answers the other call; neither is executed after that
  (`RefusedNotExecuted` is about both).
* A decision is recorded after the continuation returned (`web/routes/approvals.py:85`): when that raises,
  an executed call has no decision in the history. `GET /approvals` lists only sessions in memory.
* `delete_run` takes no run lock, and its two steps let a run re-created in between be deleted
  (`web/routes/runs.py:93-98`; `AccessHolds` leaves such runs out, `torn`). A request that is then denied
  still claims a fresh run id (`note_creator`). `POST /memory/.../confirm` counts as a query for the viewer
  role. With several processes two users may both be admitted to a fresh run id.

**Lock, streams, idempotency**

* `run_lock_owner` deletes the expired row it saw by `run_id` alone (`store/sqlite.py:919`), also when the
  lock has been taken over since: on a shared database an unexpired lock then changes hands and two leases
  drive, against `runtime/locking.py:1`: with `LockShared`'s constants TLC refutes `Exclusive`.
  `OverlapOnlyOfWiped` is what remains. A renewal that raises ends the
  heartbeat with `lost` unset (`runtime/locking.py:270`).
* `/events` reads the bus from sequence 0 (`web/routes/chat.py:323`) and the browser shows the first terminal
  event: a reconnected browser may show an earlier turn's reply (`ResumesOwnTurn`, against `chat.py:180`).
* `worker_done` is read after the window ran out (`chat.py:274`): the last frame may stay in a queue nobody
  reads. A release that raises (`:259`) and a response dropped before its generator ran (`:339`) keep their
  slot for the life of the process.
* An execution whose `put` raises is answered 500 and its key freed, so that a retry executes again.
* `SqlEventBus.poll` with only undecodable rows spins until its timeout (`coordination.py:306-320`);
  `_reconnecting` may duplicate an event.

**Stores, ledgers, maintenance**

* PostgresStore's one connection: `commit()` of one method inside another thread's block raises although
  `postgres.py:118-119` calls it harmless (`CommitsHarmless`); statements of other threads share the block's
  fate; a block whose connection was replaced exits silently (`ReturnedIsStored`). SQLite's `delete_run` has
  no rollback when a DELETE fails (`sqlite.py:372-380`).
* Message deduplication covers the whole run (`sqlite.py:321-328`), so a repeated sentence is not recorded
  although `session.py:905-909` asks for it (`RepeatedTurnStored`). The context cut may begin with a tool
  result whose call was cut (`ResultsFollow`), and may cut the question itself (`QuestionIsSent`).
* `verify_chain` reads the rows and then the anchor (`audit.py:326-366`): false alarms under writers. A torn
  manifest line fails `verify_archive` for ever; the removal of the last entry is not found
  (`AnyChangeFound`); overlapping commands chain two entries to one predecessor.
* Rotation reads and writes a credential in two steps and covers only the scopes it finds
  (`DocumentedRotation`, against `src/docs/operations.md:267-270`); a deleted credential may come back. A
  credential that is registered again makes its old leases valid again.
* Two SQLite starters race between `has_column` and ALTER; old code may record its version over a newer one.
  A broken backup stays and counts as newest for the pruning (`NoneBroken`, against
  `src/docs/operations.md:155`).
* Memories: `approve` saves what it found, without looking again (`memory/service.py:93-107`): a confirm that
  has read a candidate before it is refused, superseded or purged makes it ACTIVE afterwards, against
  `service.py:111`, by which a refused candidate stays out (`RefusedForGood`). `RefusedStaysOut` says that this
  is the only way back. Two pending proposals of one key can both become active; a newer pending one hides
  the active one (`ActiveIsFound`). The index's fingerprint omits the embedder, and an interrupted rebuild followed by
  a rollback serves a partial index (`ServesItsSource` with `Returns = TRUE`).
* Telemetry: a span submitted by a thread that fetched the exporter before shutdown is lost uncounted
  (`QueueIsFlushed`); `warden stuck --notify` exits 0 although an alert was lost (`LossShows`), and a listing
  of 200 runs misorders the longest waits (`LongestNamed`); `counter()` writes while `render` iterates
  (`RenderSucceeds`).
* Replicas on PostgreSQL share the audit log and the memory (`run_server.py:719-722`, `:761-771`,
  `audit.py:796-807`), which is what `SharedIsShared` states; the docstring at `run_server.py:506-507` and the
  error text at `:365` still say that each replica keeps its own (`LogAndMemoryApart`, which every server with
  `WARDEN_SHARED_STATE` and the audit log refutes).
* `recover --apply` without shared state takes an in-process lock, so it does not exclude a server on the
  same database (`cli.py:784`).

**Tools, agents, models**

* A tool whose trigger is in its own name is never held back by the intent router, because the note with
  the call's name is part of what is searched (`loop.py:265-270`). A degraded call counts as a success, so
  the plan advances (`loop.py:84`); the fallback of `plan_with_model` does not pass `max_steps` on
  (`planner.py:284`), so a planner limited to fewer than four stages yields four where the model's answer is
  of no use (`PlansCapped`, against `planner.py:282`); the meter is never reset per run (`usage.py:68`).
* Agents of a supervisor get `memory.remember` although `registry.py:10` says read-only tools only
  (`AgentsReadOnly`); tasks of one name overwrite each other's output (`OutputOfEach`); timed-out tasks
  keep running, and an exception in a chain loses the outputs so far.
* The broker evicts the oldest process even if it has ended, misses an evicted one that ignores SIGTERM at
  shutdown (`ProcessCap`), and waits for descendants after a kill (`ExecuteReturns`, against
  `broker.py:9-10`). The reported isolation tier is resolved apart from the enforced one (`ReportedAsIs`).
* A patch applied to an edited tree removes other lines, as the context is not compared; a conflict in a
  later file leaves earlier files changed.
* Two chats share `_name_unmap` (`NamesOwn`, `deepseek.py:199-202`); truncated arguments become `{}`.
* A run may drive once with another model than its owner's choice (`DrivesWithChoice`); overlapping
  selections write an old key back over a new import.
* Outside tools: `last_error` is shared by concurrent searches (`FailureTold`); a refused remote call counts
  as a success (`OkHasRun`); the branch without a version becomes the newest (`NumbersFirst`); two aliases
  of one name share a card (`OwnCard`); a redirect without `Location` is an empty page (`OnlyPages`).
* `mutant_check`: two runs at a time corrupt a source; edits made during a test run are overwritten; the
  evidence of a subset is written as a pass (`EvidenceExpected`).

**Edges**

* Robot: `hold()` between the two reads of `_target` kills the reflex thread and the device keeps its torque
  (`reflex.py:173-178`); `reset` keeps the target, so motion resumes (`ResetIsNoMotion`, against
  `safety.py:14-15`); a start after a join that timed out runs two loops; two readers of the serial adapter
  raise false alarms (`NoFalseAlarm`).
* Page: after a stop the next reply is appended to the old bubble (`StoppedKept`, `ChatView.tsx:375, 428`); a
  load of the history that lands after a message was sent replaces it. The reply to a decision on a card
  (`ChatView.tsx:345-373`) and a reload (`:324-334`) go to whatever list is shown when they come: after a change
  of the conversation a bubble, or a whole history, of the one that was left stands under the new one
  (`AllInPlace`, against `ChatView.tsx:138-142`; `FramesInPlace` allows these two only). "No approval is
  waiting" takes the cards of the new one away as well (`:336-339`). Panels: hiding and showing during a
  load starts a second chain (`OneChain`); probes have no order (`NewestVerdict`); decisions go by run, so a
  second click decides the next ticket unseen.
* Configuration: once `WARDEN_API_KEYS` is set, `WARDEN_API_KEY` silently stops working; nothing keeps
  replicas from sharing their state only in part.

## 5. Theorems

TLC checks the instances above; the following hold for every value of the constants. Each theorem rests on
an inductive invariant: it holds initially, every step of every actor keeps it, and it implies the
property. `AgentSession_proof` and the others have a lemma for each of these facts, and in the step lemma
one step per action. For the suites a further lemma says that a step of another part leaves the part's
variables alone (`ReflexSteps`, `ReadingSteps`, ...); it is what makes a theorem about a part a theorem
about the suite.

### The session (`AgentSession_proof`)

For any replicas, workers, tools and bounds, with stale caches and plans, evictions, crashes and lost writes:

* `TypeCorrect`: `Spec => []TypeOK`, by `TypeInv`: `TypeOK` with `Shape`, which says that a driver has a
  session object, that the steps which handle a call have one in hand, and that the calls still in the batch
  fit into `MaxCalls`.
* `ApprovalGate`: `Spec => []GrantedExecutions`. The property is not inductive: between approve()'s grant
  and the effect it needs a strict inequality (`AtGrant`), a call executed on the policy's word must not
  have been held before (`AtVerdict`, `AtExec`), for which a call that is noted now must be new
  (`Untouched`), and every ticket and gate, cached ones included, must be for a call that has been noted
  (`GatesNoted`). `GrantInv` is the conjunction.
* `SettledRunsAreLeft`: `Spec => WorkersLeaveSettled`. `WorkerInv` says what is known in each step of a
  worker's drive: past `Restore` and until the drive's own last write the checkpoint is resumable or
  retryable, because `resume()` decides on the checkpoint it reads under the lock and not on the plan.

For one process that owns its database, whose checkpoint writes do not fail and which evicts nothing
(`OneProcess`, the deployment that the documentation starts from; section 4 shows why the first two are
needed):

* `OneProcessIsCoherent`, `FailureIsCheckpointed`, `WaitingCanBeApproved`: `CacheCoherent`,
  `FailedIsCheckpointed` and `HeldHasTicket` at every crash point, by `OneInv`, which adds what the driver's
  object and the rows agree on in each step (`DriverAgrees`).
* `SessionImplementsLifecycle`: `Spec => RefinesLifecycle`: every step of the session is a step of
  `RunLifecycle` or leaves its status. `PermitInv` gives the stored status at each place from which the
  driver writes one, so that each write is a call the lifecycle permits there.
* `ExecutedOnce`, `RefusedStaysRefused`: `SingleExecution` and `RefusedNotExecuted`, also where `__init__`
  finds another call of the same tool than the one on the ticket. `OnceInv`: while the run waits, every
  session object, rebuilt or cached, gates the call on the ticket or a later one (`GatesSound`); the one on
  the ticket has been neither executed nor answered, and no later one was released (`Unspent`); up to its
  effect a call is not refused, and unless a session mistook it not executed (`BeforeEffect`); the ticket
  is for the last call that was held and comes after all refused ones (`TicketIsLast`).

### Lock, streams, keys

* `RunLock_proof`: `LockTypes`. `LeaseExclusion`: with the in-process lock `Exclusive` holds for every TTL
  and every lateness; `ExclusionInv` says that a lease that drives within its lifetime owns the row that
  says so and that acquire's reading is never ahead of the clock. `OverlapNeedsWipe`:
  `OverlapOnlyOfWiped` in every deployment, with the split statements, repeated ones and renewals that raise
  of the shared one: whoever writes the row finds it expired, or its own (`SharedInv`).
  `HeartbeatKeepsLock`: `HolderKeepsLock` if `Interval + 2 * MaxLag < TTL` and renewals do not raise;
  `TimelyInv` ties the expiry of a held lock to the time the next heartbeat is due. `RefusedOwnsNothing`:
  `NoOrphanedLock` in every deployment (`OwnRowInv`). `HolderIsTold`: `LossIsNoticed` if renewals do not
  raise (`ToldInv`).
* `ChatStream_proof`, for any number of streams: `StreamTypes`, with it the bound of a queue and of the
  gate's counter; `OneDriver` and `EventOrder` (`DrivesAlone`, `TurnsInOrder`) by `OrderInv`: a driver holds
  the lease until it has stopped it and its turn is the latest one (`DriverInv`), and no event is of a turn
  that has not begun (`LogInv`). `SlotsAreCounted`: the counter is the cardinality of the responses and
  subscriptions that hold a slot. `EndReachesTheBus`: `EndIsOnTheBus`, by what is known at each place of the
  driver about the end of its turn (`EndsOf`).
* `Records_proof`: `KeyTypes`; `OneEffect` and `OneAnswer` (`OncePerKey`, `AnswersAgree`) if no request runs
  longer than the retention (`ShortRequests`; a day by default). `KeyInv`: a request that holds the key
  within the TTL is named by the row, a stored answer is of a request that succeeded (`StoredInv`), an
  answer that was seen is still the row's while it is young.

### Stored data (`Records_proof`)

* `OldDataStays`: `RecordsSpec => OldDataReadable`. `VaultInv`: what a rotation run has passed is renewed as
  long as nobody writes with the old key alone, and the rest is in `todo` or `failed`. `SchemaInv`: the
  columns below the one a starter is at are there, and PostgreSQL's draft is written under its lock.
  `BackupInv`: behind the last good backup there are only the failed ones and the one under way, so that as
  long as these are fewer than `Keep` the pruning does not reach it.
* `ReadersAreTold`: `RecordsSpec => []ReadersTold`. `EventInv`: ids below a cursor have been committed, and
  the newest event of a run stays. `LinkInv`: the lock is held exactly inside a method with a block, the
  open block is of a connection that is there (`Guarded`), and while none drops it has all statements so far
  (`Steady`). `MemoryInv`: what is in force was approved, and if it was closed, brought back by an approval
  that had found it before; no candidate is closed, an approval of what has been closed since knows itself
  `overtaken`, and what is being proposed is known to nobody else (`Aware`), which makes it inductive.
  `CorpusInv`: with one process and sources that do not return, a fingerprint stands only over all pieces.
* `LedgersAreTrue`: `RecordsSpec => []LedgersTell`, for any replicas, rows, commands, files, spans, runs,
  thresholds and values. *Audit log* (`AuditInv`): ids grow with the log (`Grown`), the hash of a row is
  that of its text as it was written, and who has inserted holds the lock, has read the head and comes
  after all; the chain is stated link by link (`PrevOf`), so that no walk needs induction: a row that was
  edited does not fit its hash, one that was cut leaves a link that nothing fills, and a note names a row
  that is there (`IsRow`) unless somebody interfered. *Archive* (`ShelfInv`): half a line is the last
  one; entries are numbered, linked and name files as they were, unless two commands overlapped or
  somebody meddled. *Spans* (`SpanInv`): a span is in one place or was posted, dropped or lost, and
  the counters are cardinalities of those sets. *Watch* (`WatchInv`): a ticket is of the present tick until
  its run waits (`WaitsInOrder`), so that of the runs late at a moment there are only fewer later (`Moved`,
  `FewerLate`): a count or a list made by a scan stays large enough for the moment it names (`ScanTrue`).
  *Histograms* (`MeasureInv`): a bucket is the number of values up to its bound.
* `SlotsAreGivenBack`: in the part of the limits `SlotsBalanced` holds always, by `SlotInv`: who waits
  at a gate holds no slot, and slots given and slots held make up the maximum.
* `WindowsAreKept`: `RecordsSpec => []LimitsHold`, wherever the wall clock stands and whenever the sweep runs.
  `QuotaInv` ties the shared row to the history of the openings: all but the last `counter` of them are older
  than the window that the row is for (`WindowTrue`), and those passed before are `2 * MaxRequests` apart by a
  window (`Spaced`). A sweep that takes a row whose window cannot count any more leaves that true
  (`WindowEnds`); one that takes it earlier, as the deployed sweep does whenever it runs (`LiveWindows`,
  section 4), begins the history anew. So in an interval of a window with `k` such sweeps a gate opens at most
  `2 * (k + 1) * MaxRequests` times.

### What the model is told (`Prompt_proof`)

What a list is mapped, filtered or ranked to is computed element by element, so its properties need
induction. The library's induction theorems take operators, which the installed provers cannot instantiate;
`WFMin` with `NatLessThanWellFounded` takes sets. From it come three lemmas that take sets and functions
only: `LeastOf` (a set of numbers has a least one), `Induction` (a set with 0 and all successors is `Nat`)
and `Recursion` (for a rule given as a function, the function it defines step by step exists). Definitions
are proved through the function that their `LET` names.

* `PromptIsBuiltSoundly`: `RecordsSpec => []PromptIsSound`, for any history, context, window, vectors,
  weights, queries and sizes. *History* (`StoryInv`): every message is a row, the rows in the order in which
  they were said first. Whatever `manage_context` has cut away, `EnsureToolResults` leaves behind each call
  its results (`AllAnswered`), as the fold over the messages keeps `Filled`: what was taken is answered, but
  for the one call that is open and has only results behind it (`HeldOpen`). *Index* (`IndexInv`): the
  postings of a dimension are the vectors that have it, so a vector that no posting of the query names has
  the product 0 with it. *Rankings* (`Ranked`): in a strict order of finitely many hits the number of better
  ones is the place, each place is taken once, and so two ways to the same hits give one list. *Fusion*:
  scores are fractions, compared by cross products; if both rankings have `i` before `j`, so has the fused
  one (`MoreOrders`, `TwiceFirst`).
* `ChunksAlwaysCover`: every character of a document of any length is in a piece, for any size of a piece
  and any overlap.

### Tools (`Tools_proof`)

* `StabilityTypes`. `StuckThreads`: `ThreadsBounded`: the threads counted as stuck are those abandoned and
  not settled, each of one call (`Owned`, `Apart`), so they exceed the cap by the calls in flight at most.
  `EffectsAreSingle`: `NoDoubleEffect`, as a call that may have effects tries again only when none of its
  threads may act (`OneActs`).
* `LoopTypes`; `LoopKeepsItsGuards`: `ToolsSpec => LoopGuards` for any tools, rules, budget, plans and words.
  `LoopInv`: calls wait in a round only, which the meter let begin; a suspicious output left a hit; the
  stages done, and the one this round may complete, are covered by calls that succeeded. That a complex task has
  a plan, the model's within the limit or the fallback's four stages, is a lemma about the planner's
  operators (`PlanSizes`).
* `NothingIsLost`: `ToolsSpec => []NothingLost`, for any callers, tasks, keys, cases and remote answers. Every
  part has an inductive invariant; `PartsInv` joins them, and a step of the module is a step of one part:
  * *Commands* (`ExecInv`): a thread that executes nothing has no process. *Sandbox* (`TierInv`, `BoxInv`):
    what was resolved is no weaker than any word that was given, a directory is of a thread that uses it.
  * *Batch* (`BatchInv`): between two waits no task has ended unseen (`Reporting`); the results told are those
    of the tasks before, in the order of the tasks (`Chained`); after a failure in the chain nothing later has
    begun (`Raised`). *Fragments* (`ClientInv`): of each call exactly the fragments that were sent are
    there, and with the first one its name.
  * *Models* (`SeatsInv`, `VaultInv`): who waits for a key's record or has it, and what the request will
    do with it (`Serves`); no two requests of one user import or delete one key (`OneAtATime`). *Leases*
    (`LeaseInv`): a credential is handed out on a lease that was still on, and young, when it was looked at.
  * *Mutant check* (`MutantInv`): in every place, also one where the process was killed or half a text
    was written, people's text is in the file or in a backup that the manifest names (`Safe`, `Known`,
    `Working`). *Shards* (`ShardInv`): every test that was picked runs a line that the earlier ones do
    not, and as the numbers are well-founded there is a best test as long as a line is left (`SomeBest`).
  * *Pages*, *searches*, *remote tools*, *packages* (`FetchInv`, `SearchInv`, `McpInv`, `SkillInv`): the address
    in use is the one that was judged; the provider's last error is of the search that tells it; an answer
    is of the request with its number, which ran at most once for each attempt; a card is bound to the
    newest package of its time.

* `PatchesApplyAsPlanned`: `ToolsSpec => []AppliedAsPlanned`, for any number of files, hunks and lines. The
  author's hunks are in their order, and the old side of each is the text at its place (`InPlace`).
  `HunkTaken`: if the text that follows is the old side of a hunk, its lines append the new side and move on
  by the length of the old one, by induction over the lines. `FileApplied`: hunk after hunk the gate is where
  the last one ended, by induction over the hunks. `PatchInv`: while nobody has edited the tree, the files
  that the gate has passed are what the diff says of them, and the others what the commit has.

### Edges (`Gateway_proof`, `Edges_proof`)

* `AuthorizationStands`: `Spec => AccessHolds` for any users, runs, requests and restarts. `GateInv`: objects
  of different requests are different (`ObjectsApart`); who drives has the lock (`Locked`) and is alone at
  its run unless a deletion is under way (`Alone`); a request in a handler was entitled to it and its owner
  still is the run's (`Entitled`, `Owned`); object, registry and row agree on owner and ticket (`Agrees`);
  no two runs have one ticket (`TicketsApart`); a decision under way is on the ticket it named (`Judged`).
* `StopIsBinding`: `EdgesSpec => []StopBinds`, for any loops and agents. The property is inductive with the
  places a loop can be at (`Ticks`): only `Aim` and `Slack` load a torque, and they look at the latch.
* `ReadingsAreTrue`: `EdgesSpec => ReadingsTrue`. *Parser* (any bytes, header, lengths and cuts): `ParserInv`
  says that frames handed out are whole and apart, that every place passed over is one of them, lies in one,
  or will never begin one whatever is received (`Never`), and that the parser rests only before an
  unfinished start (`Resting`). *Line* (any readers, number space and faults): `LineInv` says that what is
  under way and what is awaited is within one number space of the latest poll; numbers that close which are
  the same modulo the space are the same (`SameNumber`). *Servers*: `StartInv` says that a running
  configuration has passed `main`, and that a key somebody sends stays listed unless the configuration is
  refused; `SoundIsGuarded` derives the guards from `main`.
* `PageIsTold`: `EdgesSpec => PageTells`, for any rooms, streams, frames, renders, loads, conversations,
  models and probes. *Page* (`PageInv`): what is written is numbered by its stream and frame (`Numbered`)
  and stands in its conversation, or was out as a load or a decision when that was left (`InPlace`, `Left`); text that goes on has the open bubble, that of its first frame
  (`Open`), and only the current stream may still add to what is told (`Speaks`). *Poll* (`PollInv`): the
  newest load is of the key on the screen, and its answer is no older than what is shown. *List*
  (`ListInv`): the pointer has chosen what it was pressed on (`Held`), and what is shown is the user's own or
  deleted by an answer to come. *Keys* (`KeyInv`): what is typed is typed for the editor that is open.

### Assumptions

Those of the modules, which TLC evaluates on every run, and the ones a theorem states:

* `AgentSession`: `BoundsAssumption`, `ProcessAssumption`, `ToolAssumption`, `ChoiceAssumption` (bounds are
  numbers, workers are no replicas, verdicts and requests are of their kinds);
* `RunLock`: `TimeAssumption`, `NobodyAssumption`; `ChatStream`: `SizesAssumption`, `StreamAssumption`;
  `Idempotency`: `RetentionAssumption`, `RequestAssumption`; `ToolStability`: `StabilityAssumption`;
  `Gateway`: `NamesAssumption`;
* the suites: `LoopAssumption`, `OutsideAssumption`, `LeaseAssumption`, `ModelAssumption`, `BatchAssumption`,
  `MutantAssumption`, `ClientAssumption`, `PatchAssumption` (`MCTools`), `LineAssumption`, `KeyAssumption` and `PageAssumption` (`MCEdges`),
  `StartersAssumption`, `BackupAssumption`, `EventAssumption`, `MemoryAssumption`, `SourceAssumption`,
  `ReplicaAssumption`, `SpanAssumption`, `WatchAssumption`, `ValueAssumption`, `LinkAssumption`,
  `QuotaAssumption`, `StoryAssumption`, `IndexAssumption` (`MCRecords`): sizes are numbers, the placeholder for nobody is nobody.

`SerialLink!Poll` assumes that neither an answer under way nor an attempt lasts as long as all numbers
(256 polls); `ServerStart!Edit` that the operator takes no key off the list that its owner still sends;
`KeyRotation`, `Backup` and `SharedConnection` state their properties for the time in which nobody writes
with the old key alone, fewer than `Keep` backups failed, and the connection holds.

## 6. Only model-checked

* Liveness: `DriveEnds`, `InterruptedIsResumed`, `LeaseReturned`, `ResponseEnds`, `EverythingEnds`,
  `EdgesProgress`, `KeyRecovers`. Fairness and ENABLED are beyond the proof system.

All other invariants and action properties of the passing runs are theorems of section 5.

## 7. Not modelled

Message texts, prompt wording, logging, formats and layout are left out everywhere; cryptography is a
relation between keys and records, a digest is what was hashed, a score is exact. `ChatStream` leaves out
the contents of frames, keep-alive comments and the crash of the process while it streams; `run_typed` is
`ModelAnswers` with a content that does not fit. `Browser` leaves out unmounting, scrolling and banners.
The simulators of the robot are numeric. The clustered vector index is approximate by design. The text
patterns of the injection guard, the extraction of facts from texts, the listing and paging queries of the
stores, RetryPolicy and the in-memory store are left out. Not modelled at all: evaluations and demos, and
the repository's checking scripts other than the mutant check and its shards. `PROJECT.json` lists for each
component what is left out.

## 8. Plan

Done: the core with its proofs, the three suites, theorems for thirty-three of the forty checked properties;
the other seven are the liveness properties of section 6. What is left: the limits without the sweeps of
`WindowsHold`, once the code compares readings of one clock, and the evaluations.
