# Verification of the SOC platform's network IDS

This directory holds TLA+ models of the SOC platform (`src/ids-platform`): of its
backend and of the part of its frontend that keeps a screen up to date; the TLC
configurations that check them on small instances, and proofs of the main properties
of the backend's core for every instance, checked by TLAPS.  Paths below are relative
to `src/ids-platform/backend` unless they start with `src/`.

The backend is one Python program: a FastAPI event loop, a capture thread, a
"flow-timeout-checker" thread, a pool of detection workers and PostgreSQL.  Packets
become flows, flows become alerts, alerts become responses and news on the analysts'
screens.  Each of these hand-overs crosses threads, and most of them cross a database
transaction or calls that fail halfway.  That path is modelled from the frame on the
wire to the browser; beside it the model versions that classification depends on, the
requests by which accounts, sessions and incidents change, and the copies that several
worker processes of the deployment keep of what they share.

Contents

1. Inventory: the parts, their state, their operations, what is hard
2. The modules and how they correspond to the code
3. What each run checks, its bounds, and why they are enough
4. Fairness
5. What is proved, from which assumptions
6. What the runs found in the code
7. What is only model-checked, and what is not modelled
8. Plan

---

## 1. Inventory

### The path of a packet

```
 capture thread ──add_packet──▶ FlowManager ──on_flow_closed──▶ DetectionService
 (PacketCapture)                (table, lock)  on_periodic_        (queue, workers)
      ▲                              ▲         classify                  │
      │ start / stop                 │ sweeps                            ▼
 CaptureService ──start / stop──▶ timeout thread                AlertService
 (event loop)                                              (one transaction: flow,
                     WebSocket clients ◀───broadcast─────── alert, rollup)
                     (tasks of the loop)                                 │ on_alert_persisted
             admin: clear data ──DELETE──▶ PostgreSQL ◀──────────────────┤
                                               ▲                         ▼
             analyst: execute, roll back ──────┴───── ResponseService (policy, iptables,
                                                       blocked_ips, response_history)
```

### Parts

| Part | State it keeps | Operations | What is hard |
|---|---|---|---|
| Frames and features, `packet_capture/packet_parser.py`, `flow_features.py`, `feature_mapper.py` | the fields of a `Flow` | `Flow.add_packet`, `extract_nf_flow_features`, `map_to_model_features`, `predict` | a flow is read while it is written; a dictionary that grows during a loop; a model that changes between two looks at it |
| Flow table, `packet_capture/flow_manager.py` | `_flows`, `_last_periodic_classify`, the flow objects, `_stop_event`, the timeout thread | `add_packet`, `start`, `stop`, `close_all`, the reaping and the periodic sweep | three kinds of thread pop flows under a lock and close them after it; a thread that dies silently; join that times out |
| Capture, `services/capture_service.py`, `packet_capture/capture.py` | the current `PacketCapture`, its `_running`, a thread per session | `start_capture`, `stop_capture`, backend start and stop | failed starts, stops that raise, threads that outlive their session, all feeding one flow manager |
| Detection, `detection/*.py` | a FIFO queue, worker threads, `_alerts` (bounded) | `handle_flow_closed`, `classify_flow`, `_store_alert` | several workers on one flow; a bounded list; errors of the model |
| Alert persistence, `services/alert_service.py`, `database/repositories/*.py` | `flow_history`, `alerts`, `attack_statistics` | `handle_detection`: three writes and one commit, then broadcast, enrichment and response | row locks, read-then-write of a counter, rows deleted between statements, partial failure |
| Attack simulation, `services/testing_service.py` | the same tables | `simulate_attack` | shares the subscribers of real detections |
| Clearing, `api/routes/admin.py` | a transaction over the same tables | `clear_data` | DELETEs that interleave with detections |
| Response engine, `response_engine/*.py` | the policy of each process, `iptables`, `blocked_ips`, `response_history`, `alerts.status` | `handle_alert`, `execute_manual`, `rollback`, policy update, the actions | a firewall call and a transaction per action; a rollback over two sessions; several processes |
| Model lifecycle, `services/prediction_service.py`, `ml/predictor.py`, `ml/train_one.py` | the cached predictor, version directories, training flags | load, switch, delete, reset, train, cancel | an unlocked fast path; a directory that exists before its files; a training thread |
| Threat intelligence, `threat_intelligence/*.py` | `threat_indicators`, a TTL cache per process, without a lock | `check_ip`, enrichment, the sync of the feed at every start | expiry races in worker threads; several processes that fill one table |
| Authentication, `auth/*.py` | `user_sessions`, `users`, `role_permissions` | login, refresh, logout, registration, roles, deactivation, passwords, seeding | what a dependency checked is acted on later, in another transaction's company; a handler that keeps the event loop while it waits for a row; seeding by several processes |
| Incidents, `services/incident_service.py` | `incidents` with a JSON timeline | create, update | lost updates of the timeline and of the status |
| WebSockets, `websocket/*.py` | the set of connections of a process | connect, disconnect, broadcast from threads | a set that changes during a broadcast; clients that die or stand still |
| Live screen, `src/ids-platform/frontend/src` (socket, context, tokens) | a socket and timers per page, the tokens all pages share | sign in, reconnect, refresh, log out | reconnects, refreshes of two pages, a page without a token |
| Notifications, `notifications/*.py` | channel settings in a file and in the memory of each process | send on three channels, update settings | partial failure of channels; several writers of one file |
| Analytics, reports, read-only routes, the rest of the frontend | none of their own | queries | none |

### What makes each part correct

- **Flow table**: every flow captured is handed to detection exactly once, whoever
  pops it; no packet joins a finished flow; every flow is closed in the end.
- **Capture**: every capture thread can be stopped; when a stop has returned nothing
  is left behind; sessions use the flow manager only as it allows.
- **Detection and persistence**: at most one alert per flow; an alert is recorded,
  then published, then answered, each once; the rows of a detection appear together
  and refer to rows that exist; the rollup does not over-count; no job hangs.
- **Responses**: a block that a rollback can take back belongs to one response; a
  response is rolled back once and in the mode in which it was executed; the status
  of an alert tells what happened; whatever was executed is recorded.
- **Model lifecycle**: a version directory is never overwritten and never served half
  written; a reset unloads; the newest complete version comes into service; training
  ends, and does not interrupt classification; an activated version stays.
- **Features**: a closed flow is classified on exactly its packets; a flow that still
  grows on something between what it was and what it is; no flow is lost silently for
  any other reason than the three the code has.
- **Authentication**: what a request was granted was allowed at some moment while it
  was served, whatever other requests do; every request is answered; every process
  comes into service.
- **Incidents**: updates that follow one another keep every entry and respect the order
  of the statuses.
- **Live screen**: an alert is shown once, and shown to everyone who was connected when
  it was published and stays so; screens settle with a live connection.
- **Shared copies**: what an operator was told is saved stays saved; a tag that the table
  no longer has goes out of use.

The hazards behind these, at the line where each of them bites, are the list
`hazards` of `PROJECT.json`, with the properties that would catch them.

---

## 2. The modules and how they correspond to the code

| Module | What it is |
|---|---|
| `FlowLedger` | abstract: what the flow table promises its subscriber, without threads |
| `FlowManager` | the flow table and its threads; implements `FlowLedger` |
| `CaptureService` | extends `FlowManager` with capture sessions; its steps are steps of `FlowManager` |
| `AlertLifecycle` | abstract: the life of an alert |
| `DetectionPipeline` | queue, workers, transaction, subscribers, clears; implements `AlertLifecycle` |
| `ResponseEngine` | policy, actions, firewall, history, rollback |
| `ModelRegistry` | version directories, the cached predictor, requests about them, the training thread |
| `ApiRequests` | worker processes and the requests about accounts, sessions and incidents, each in a transaction |
| `LiveFlow` | one flow from its frames to the vector a model is asked about |
| `LiveUpdates` | alerts on their way to the pages of a browser |
| `SharedCopies` | the reputation cache and the channel settings of several processes |
| `MC*` | instances of these for TLC |
| `*Proofs` | theorems about the module they extend |

### FlowManager

A step is a maximal run of one thread between two points where another can see or
change the table: a section under `_lock`, or one callback.  Flow objects live in
`heap` under an identity, because a thread may hold a flow that the table no longer
holds.

| State | Code | | Action | Code |
|---|---|---|---|---|
| `table` | `_flows` | | `AddPacket` | `add_packet` up to the end of its lock |
| `heap`, `nextId` | the `Flow` objects | | `CloseTerminated` | its `_close` after the lock |
| `stamp` | `_last_periodic_classify` | | `ReapExpired`, `CloseExpired` | the reaping sweep |
| `holding` | `close_now` of `add_packet` | | `PeriodicScan`, `PeriodicCallback` | `_periodic_classify_long_flows` |
| `reaper`, `expired`, `chosen` | the timeout thread, its locals | | `ReaperExits` | `wait()` returns true |
| `stopEvent` | `_stop_event` | | `Start`, `Stop` | `start()`, first half of `stop()` |
| `ctl`, `remaining` | where `stop()` is, `close_all`'s list | | `CloseAll`, `CloseRemaining` | `close_all()` |
| `closes` | history: calls of `on_flow_closed` | | `Tick` | time |

Instants are kept as ages that saturate at the threshold they are compared with, so
behaviours are infinite and states finite; a packet may reach `add_packet` some time
after its timestamp (`Lags`).  `stop()`'s `join(timeout)` is taken to return early only
in the middle of a sweep: a thread in `wait()` wakes at once when the event is set.
`PeriodicScan` is what the code does, not what its comment says: the loop variable is
used after the loop, and is unbound if the table was empty, which ends the thread.

### CaptureService

Extends `FlowManager`: a `Sniffer` is the capture thread of a session.  `capture`,
`running` and `handler` are the service's fields and the point the event loop has
reached in a request; `backend` is the state of each session's thread.  `StartCapture`,
`BackendStarts`, `BackendFails` are `start_capture`; `StopNeverRan`, `StopBackend`,
`StopFlows`, `FinishStop` are `stop_capture` with the `finally` of
`PacketCapture.stop`.  A thread that `stop()` gave up on is `"left"`: Scapy's join has a
timeout, the PyShark backend joins nothing, and such a thread may still deliver packets.
The steps inside the flow manager are its own actions, conjoined with `UNCHANGED
sessionVars`; nothing is restated.

### DetectionPipeline

A job is one call of `handle_flow_closed` that was queued.  Its `pc` walks through
`Stages`; a step is one SQL statement, one commit, or one call of another component.
Two statements are merged where no other transaction can tell: the insertion of the
flow row and of the alert row (the alert refers to the flow row of its own
transaction).  The database is PostgreSQL under READ COMMITTED, the default that
`DATABASE_URL` and `connection.py` leave in place:

- a statement sees the rows committed before it (`rows`, `total`), not a snapshot of
  the transaction;
- an INSERT waits for another transaction that inserted or deleted the same key
  (`InsertRows`), an UPDATE or DELETE for one that changed the same row
  (`WriteStatistics`, `Delete`): a guard that is false while the lock is held;
- a failed statement rolls the whole session back (`Rollback`).

`read` is the counter a worker has read into Python; two workers may read the same
value, and the model then loses an increment, as the code does.  `gone` is what a clear
has deleted and not committed.  `Tag` chooses among `Tags` freely, because the
reputation of an address may change between the two checks.  The severity that a tag
implies is not kept: no property is about it.

| Action | Code |
|---|---|
| `Submit`, `Take` | `handle_flow_closed`, the executor's queue |
| `Classify` | `_process_flow`, `classify_flow`, `_store_alert` |
| `InsertRows` | `_persist_flow`, `_persist_alert` |
| `ReadStatistics`, `WriteStatistics` | `AttackStatisticsRepository.upsert` |
| `Commit`, `DatabaseError` | `session_scope` |
| `Publish`, `Enrich`, `Tag`, `Respond` | the broadcast and the subscribers `main.py` composes |
| `Simulate` | `simulate_attack` |
| `StartClear`, `Delete`, `CommitClear` | `clear_data` |

### ResponseEngine

An actor is a detection worker or the event loop of a server process.  A step is one
locked read of the policy, one call of `iptables`, or one transaction.  `chain` is the
number of DROP rules the kernel holds for an address, `blocked` its row in
`blocked_ips`, `history` the rows of `response_history` in the order of their commits.
`HandleAlert` and `ReadMode` are the two locked reads that begin an automated
response; `ExecuteManual` is one step because nothing else runs on that loop between
them.  `BlockIp`/`InsertBlocked` and `UnblockIp`/`MarkUnblocked` are the two halves of
the firewall actions; a call of `iptables` that fails may have taken effect (a timeout
is one of the ways).  `StartRollback` and `RecordRollback` are the two sessions of
`rollback`.  `OtherAction` stands for the actions of `recovery.py` and `notifications.py`
and for quarantine: nothing they touch is modelled but whether they succeed, and
`RecoveryFails` and `NotificationFails` say which of them may fail, a call to a service
in live mode or a row of the audit log.  `of`, in a row of `history`, is no column: it
names the row a rollback was made for, so that properties can speak of it.  Severities
are reduced to the one policy entry that applies.

### ModelRegistry

A caller of `get_predictor()` is a worker that classifies, the event loop that serves
one administrator's request at a time, or the training thread.  A step is a section
under `_predictor_lock`, a look at the disk and the cache without the lock, or one file
operation.

| State | Code | | Action | Code |
|---|---|---|---|---|
| `dirs`, `files`, `run` | `models/`, and which training run made each directory | | `AskNewest` | `get_predictor()` without a version, up to the comparison |
| `cached`, `loaded` | `_predictor`, `_loaded_version_dir` | | `Take`, `Load` | the second read of the fast path; the section under the lock |
| `call` | where each caller is in `get_predictor()`, and its result | | `Classify`, `Classified` | `Detector.classify_flow` |
| `op`, `at` | the request, and where the loop is in it | | `SwitchModel`, `DeleteModel`, `ResetModels`, `ModelInfo` | the routes |
| `doomed`, `listed`, `active` | locals of `delete_model`, `reset_models` | | `Answered`, `ListFiles`, `Unlink`, `RemoveDirectory`, `Unload` | the rest of the two |
| `trainer`, `target`, `unsaved` | `_run_training`, `run_family`, `train_model` | | `TrainModel`, `CancelTraining` | the routes |
| `training`, `asked` | `_training`, `_cancel_requested` | | `MakeDirectory`, `Save`, `AskLoaded`, `Activate`, `Activated`, `TrainingFails` | the thread |

The files are three groups in the order in which they are saved: the scaler, the
optional ones (imputer, encoders), and the model with its metadata.  `load_model_bundle`
insists on the first and the last.  A load is one step although it reads several files:
nothing that holds the lock waits, and the only operation that could fall between two
reads and change the result, a deletion, gives the result of a deletion before or after
the load.  The first step of `AskNewest` merges the resolution of the newest directory
with the first comparison with the cache; whatever fills the cache between them is
found again under the lock.  A directory that a training run is still filling counts as
a directory, as in `latest_version_dir`.

### ApiRequests

The deployment runs several uvicorn processes.  A route is a dependency that loads and
authorises the caller, in a thread, and an `async def` handler whose database calls are
synchronous: from its first query to its return it keeps the event loop of its process,
also while a flush waits for a row that another transaction has locked.  What it
flushed is committed later, by a thread the loop has to dispatch.  A step is one of
these stretches, under READ COMMITTED.

| State | Code | | Action | Code |
|---|---|---|---|---|
| `accounts`, `sessions`, `granted`, `incidents` | the committed tables | | `Accept`, `Authorize` | arrival, `get_current_user`, `require_permission` |
| `loop` | whose handler keeps the loop of a process | | `Login` ... `SetActive` | `auth/routes.py` with `authentication.py` |
| `phase`, `proc`, `call` | the request | | `OpenIncident`, `UpdateIncident` | `api/routes/incidents.py`, `incident_service.py` |
| `seen` | the caller's row as the dependency loaded it | | `Flush`, `Dispatch`, `Commit` | the flush of the audit entry, `get_db` |
| `rows`, `draft` | what its transaction locks and will store | | `SeedRead`, `SeedFlush`, `SeedCommit` | `seed_default_data`, at every start |
| `witnessed`, `met` | history: what was true, and who was served, while it ran | | `Crash`, `Expire`, `OperatorRevokes`, `EmailTaken` | what happens to it |

An update of an incident changes the columns it names: two updates that overlap each
write back the timeline they read, as in the code.  A timeline entry is the request that
wrote it, so that a lost one can be seen.

### LiveFlow

`FlowManager` counts packets; `LiveFlow` is the inside of one flow.  `Arrive`, `Write`
and `LastWrite` are the writes of `Flow.add_packet` one by one, in the order of the code
(the flags of a packet in any order: they are a frozenset).  A worker takes a job and
reads the same object in the order of `extract_nf_flow_features`: one step per field
(`Read`), and one per turn of the loop over `flag_counts` (`Scan`), which raises if the
dictionary grew.  `Map` computes every feature of the code from what was read and fits
it to the names of the predictor; `Predict` asks the predictor that is loaded by then.
`Captured`, `Parses` and `Parsed` are the filter and the parser.  Spread, skewness and
entropy stand as the counts they are computed from, fractions as pairs.

### LiveUpdates

A connection is one record for both of its ends: the page's socket, what is on the wire,
and the task of the server's route.  `Publish` is `run_coroutine_threadsafe` of a worker
thread; `Start`, `Send` and `Finish` are what one broadcast task does between two awaits
of `ConnectionManager.broadcast`.  A page is `AlertSocket` with the effect that owns it
(`SignIn`, `Leave`, `Receive`, `Dropped`, `Retry`) and the Axios interceptor that
exchanges tokens (`Refresh`, `Rotate`, `Granted`, `SessionExpired`); `store` is the
`localStorage` of all pages.  `Cut`, `Stall`, `Unstall`, `Restart` and `Expire` happen to
them, at most `MaxEvents` times.  `owed`, in a connection, is history: the alerts that
were published after it was registered and that it has not shown.

### SharedCopies

Two caches of each process.  `Boot` and `Record` are the row of the model in service that
a start writes first, if there is a model (`Trained`): its version is unique, so of two
starts that found no row the second raises and is started again.  `Boot`, or `Record`,
goes on with the query of the sync of the indicator file, and `Synced` is its
transaction, which inserts or updates what the query found; the table has no unique key
on the address, so `rows` may come to hold two.  `Get`, `Delete`,
`Query` and `Set` are the steps of `check_ip` without a lock, of several threads;
`QueryFails` is an exception of the provider, and the answer "Unknown" is cached like any
other.  `PutSettings`, `SaveTruncates` and `SaveWrites` are a save of one channel:
read the file, change, empty the file, write it; `GetChannel` is the first use of the
settings by a process.  `promised` and `excused` are history: the last save that was
answered, and the channels of which nothing is claimed because two saves overlapped.

### Operators named `Faulty...` and `Unbounded...`

They occur in no specification.  Each is what a plausible mistake would make of the
definition that follows it (a dropped guard, a missing reset); replacing the definition
by it must make TLC refute a property.  `PROJECT.json` lists the pairs under `mutants`.

---

## 3. Runs

Each run is `tlc -config <cfg> <module>`.  Bounds are CONSTANTs, named in the module.

| Run (cfg) | States | Question and result |
|---|---|---|
| `flow_manager` (FlowManager) | 124,886 | Two capture threads, the timeout thread and a controller over a TCP and a UDP key: one owner per flow at every moment, only open flows in the table, every behaviour is one of `FlowLedger`, and every flow is closed in the end while the timeout thread lives. Holds. |
| `flow_manager_reaper_dies` | | A started manager closes every flow, also one that never goes idle, with the periodic classifier that `capture_service` wires. Violated, see 6. |
| `capture_sessions` (CaptureServiceSessions) | 394,573 | Two sessions, one after the other, each of which may fail to start, stop, raise while stopping or leave its thread behind, three flows: no orphan capture, nothing left behind, the flow manager used as specified, every flow handed over. Holds. |
| `pipeline_pool` (DetectionPipelinePool) | 153,731 | Three jobs or simulated attacks of two flows on two workers, failing statements: one alert per flow, no over-count, alerts stay visible. Holds. |
| `pipeline_clears` (DetectionPipelineClears) | 407,594 | Two jobs while an administrator clears all tables again and again: references hold, the life cycle holds, no job is blocked for ever. Holds. |
| `response_runs` (ResponseEngineRuns) | 241,451 | Two workers and an analyst answer and roll back two alerts of one attacker while the policy changes and calls and transactions fail: one undoable block, one rollback per response in the mode of the response, and a status that tells the last run. Holds. |
| `response_lost_rows` | | Every executed action is recorded. Violated, see 6. |
| `model_registry_requests` (ModelRegistryRequests) | 124,383 | Every request an administrator can make, again and again, while a training run, which may fail or be cancelled at any checkpoint, and a worker use the same directories: no version is overwritten or served half saved, a reset unloads, the newest complete version comes into service, training ends. Holds. |
| `api_requests` (ApiRequests) | 343,781 | Two processes, two of sixteen requests that may overlap on one loop or on two, on an established or an empty database, a crash, an expiry or a grant taken away: what was granted had been allowed while the request ran, timeline entries are lost only to an overlapping update, every request ends unless its event loop hangs, and every process comes to serve. Holds. |
| `live_flow` (LiveFlow) | 1,715,634 | Up to three packets written field by field while a worker reads field by field, a periodic classification beside the final one, and a change of the model: closed flows are measured exactly, growing ones within what they were, and every loss is one of the three the code has. Holds. |
| `live_updates` (LiveUpdates) | 420,402 | Two pages of one browser, one alert, two cuts, stalls, restarts, expiries or logouts: no alert is shown twice, who was connected and stays so gets it, and screens settle with live connections. Holds. |
| `shared_copies` (SharedCopies) | 835,373 | Two processes that start on one indicator table and save one settings file, two detections at a time, crashes, edits of the feed and failing queries: tags that are gone go out of use, and what was answered as saved stays in the file. Holds. |

Why these bounds are enough:

- *Flow table.*  Two keys are needed for a sweep that pops more than one flow and for
  `chosen` to be the wrong one; two flow objects for a key that is used again while its
  first flow is still being closed; two capture threads because sessions can overlap.
  Thresholds of 1 and 2 ticks separate "idle" from "too long"; `PacketCap = MinPackets
  = 2` separates flows that qualify for periodic classification from those that do not.
- *Sessions.*  Two sessions are what it takes for one to inherit what the other left;
  three flows, of one key, allow one per session and one opened between stop and
  drain.
- *Pipeline.*  Two workers are what it takes for a race; three jobs make one of them
  wait in the queue; two flows allow the same flow twice and different flows of one
  type.  `MaxStored = 2` is exceeded by three alerts.  In `pipeline_clears` nothing
  bounds how often the clear is asked for.
- *Responses.*  Two runs of up to two actions and their rollbacks, three actors, and one
  address: every race over `blocked_ips` needs only one address and two actors.
  Workers, and alerts of one attacker, are interchangeable (no property names one), so
  they are a symmetry set; the run checks invariants only.

- *Model versions.*  One worker, the loop and the training thread are three callers,
  one more than the two that can disagree about the cache.  One installed version and
  one training run give two versions, and one number used for both when the installed
  one is deleted before the run makes its directory, which is the hardest case for
  "never overwritten".  Requests are not bounded.

- *Requests.*  Every property relates two requests, or one request and one event, and
  a third would only add another pair; two processes are what it takes for one to commit
  while the other's handler keeps its loop.  Every kind of request is there, against the
  one account, session and incident they can meet on.  Three sessions leave one for each
  request beside the first; three incidents likewise.
- *Features.*  Two packets are the least that is classified, a third can arrive during the
  reading of two.  The frames have both directions, both protocols, times out of order, a
  frame larger than every bucket of the histogram, one on a bucket's edge, a flag that is
  not among the base flags, and one the filter drops.  A second worker would read the
  same flow and write nothing.
- *Live screen.*  Two pages are what it takes for one to use up or clear the tokens of the
  other, and for a broadcast to have someone left after a client that fails.  One alert
  suffices, because the properties compare a page with one alert; two events allow a
  failure and a second one during the recovery from it.
- *Copies.*  Two processes for one table and one file, two threads for one cache entry, two
  saves for the second to find what the first has written; one of two channels is the one
  that neither save names.

`CHECK_DEADLOCK FALSE` stands where a bounded number of jobs, requests, packets or
events has been used up.

---

## 4. Fairness

Fairness is stated per thread, for steps that nothing outside the program delays, and
never for the environment: nobody must send packets, start or stop a capture, clear, or
roll back, and no fairness obliges a call to fail.

- `FlowManager`: weak fairness of time, of the timeout thread, of a `stop()` begun, and
  of each capture thread's close after its lock.  The lock is held for a bounded time
  and threads are preempted by the interpreter, so a thread that can run does.
- `CaptureService`: the same, plus a stop request that was begun.  No capture thread is
  obliged to notice that it was asked to end.
- `DetectionPipeline`: weak fairness of the clear; *strong* fairness of each job, since
  its steps are enabled and disabled by the row locks of others.  PostgreSQL grants a row lock in
  the order of requests, so a job that is unblocked again and again does go on.
- `ModelRegistry`: weak fairness of the training thread, of the request in progress and
  of each worker, which is never out of flows to classify.  No request is obliged to be
  made and no training to fail; a lock that is held is released within the same step.
- `ApiRequests`: weak fairness of the work as a whole: as long as a loop, a thread, the
  database or the supervisor has something to do, one of them does it.  This is enough,
  because a request has finitely many steps; nobody has to call.
- `LiveUpdates`: weak fairness of each page's callbacks, of the answers to its requests, of
  each connection's route and of each broadcast task; a client that stands still goes on
  or times out on the server's ping.  Nobody has to log in, publish or be cut off.
- `SharedCopies`: weak fairness of each lookup begun, of time, and of a process being
  started again.  No detection has to come and nobody has to save.
- `ResponseEngine` and `LiveFlow` state no liveness: a response ends by itself, step after
  step, and that a flow is closed is `FlowManager`'s.

---

## 5. Proofs

`tlapm <module>` checks each of them; all obligations are proved, nothing is assumed
beyond the ASSUMEs of the modules, which TLC evaluates on every run.

| Theorem | Says | Needs |
|---|---|---|
| `CaptureProofs!TypeCorrect` | `Spec => []TypeOK` | |
| `ExactlyOneOwnerHolds` | `Spec => []ExactlyOneOwner` | `OwnerInv` |
| `ClosedAtMostOnceHolds` | `Spec => []ClosedAtMostOnce` | `OwnerInv` |
| `TableFlowsAreOpenHolds` | `Spec => []TableFlowsAreOpen` | `OpenInv` |
| `ImplementsLedger` | `Spec => Ledger!Spec` | `OpenInv` |
| `ServiceTypeCorrect` | `ServiceSpec => []ServiceTypeOK` | |
| `SessionsUseFlowTable` | `ServiceSpec => Spec` of `FlowManager` | |
| `SessionsImplementLedger` | `ServiceSpec => Ledger!Spec` | both of the above |
| `NoOrphanCaptureHolds`, `NothingLeftBehindHolds` | the invariants of sessions | `SessionInv`, `OwnerInv` |
| `DetectionPipelineProofs!TypeCorrect` | `Spec => []TypeOK` | |
| `OneAlertPerFlowHolds`, `RowsReferToRowsHolds` | the invariants of the tables | `IInv` |
| `ImplementsLifecycle` | `Spec => Lifecycle!Spec` | `IInv` |
| `GeneratedAlertsStayVisibleHolds` | `Spec => []GeneratedAlertsStayVisible` | `IInv` |
| `RollupWithinAlertsHolds` | `Spec => []RollupWithinAlerts` | `RollupInv`, `IInv` |
| `ResponseEngineProofs!TypeCorrect` | `Spec => []TypeOK` | `TInv` |
| `OneUndoableBlockHolds` | `Spec => []OneUndoableBlock` | `ClaimInv` |
| `RollbackKeepsModeHolds` | `Spec => []RollbackKeepsMode` | `ModeInv` |
| `RolledBackOnceHolds` | `SoleServer => (Spec => []RolledBackOnce)` | `OnceInv` |
| `StatusTellsLastRunHolds` | `Spec => []StatusTellsLastRun` | `StatusInv` |
| `ModelRegistryProofs!RegistryTypeCorrect` | `Spec => []TypeOK` | `TypeInv` |
| `VersionsAreNotOverwritten` | `Spec => NothingOverwritten` | `RegistryInv` |
| `HalfSavedNeverServed` | `Spec => []HalfSavedIsNotServed` | `RegistryInv` |
| `ResetLeavesNothing` | `Spec => ResetUnloads` | `TypeInv` |
| `ApiRequestsProofs!SuccessWasEntitledHolds` | `Spec => []SuccessWasEntitled` | `EntitledInv` |
| `EntriesLostOnlyToOverlapHolds` | `Spec => []EntriesLostOnlyToOverlap` | `TimelineInv`, `ApiInputs` |
| `CreatedOnceHolds` | `Spec => []CreatedOnce` | `AccountsInv`, `ApiInputs` |
| `AccountsAreKeptHolds` | `Spec => AccountsAreKept` | `AccountsInv`, `ApiInputs` |
| `SessionsEndForGoodHolds` | `Spec => SessionsEndForGood` | `SessionInv`, `ApiInputs` |
| `LiveUpdatesProofs!TypeCorrect` | `Spec => []TypeOK` | |
| `NothingShownTwiceHolds` | `Spec => []NothingShownTwice` | `ScreenInv` |
| `OwedIsOnItsWayHolds` | `Spec => []OwedIsOnItsWay` | `DebtInv`, `ScreenInv` |
| `ServedAreRegistered` | `Spec => []RegisteredInv` | `DebtInv` |
| `LiveFlowProofs!Invariance` | `Spec => []IInv` | `IInv` |
| `ClosedFlowsAreExactHolds` | `Spec => []ClosedFlowsAreExact` | `IInv` |
| `SnapshotsAreBracketedHolds` | `Spec => []SnapshotsAreBracketed` | `IInv` |
| `LossesAreExplainedHolds` | `Spec => []LossesAreExplained` | `IInv` |
| `SharedCopiesProofs!SavedSettingsStayHolds` | `Spec => []SavedSettingsStay` | `SavesInv` |
| `RowsAreBoundedHolds` | `Spec => []RowsAreBounded` | `RowsInv`, finitely many processes |
| `QueriesFindTheAddressHolds` | `Spec => QueriesFindTheAddress` | `RowsInv` |

The arguments, and why the invariants are what they are:

- **Owners of a flow.**  `ExactlyOneOwner` counts owners through a set of tagged pairs,
  which no prover can take apart step by step.  `OwnerInv` says the same pairwise:
  `TableInv` (two keys never file one flow, a filed flow is born and not closed),
  `SnifferInv`, `ListInv` (what a thread holds is in no table, in no other list, and not
  closed) and `CountInv` (a flow is closed once if nobody holds it, else never).  Every
  action moves a flow from exactly one of these places to another.  `OpenInv` adds that
  a filed flow carries the key it is filed under and has seen no FIN.
- **The ledger.**  A flow's stage in `FlowLedger` is computed from where it is; popping
  by a sweep or by `close_all` is `End(S)` for the set popped, and clock ticks stutter.
- **Sessions.**  `ServiceStepIsFlowStep`: each step of the service is a step of
  `FlowManager` or leaves it unchanged, hence `SessionsUseFlowTable`, and every theorem
  about the flow table holds under sessions.  `SessionInv` relates the request handler,
  the capture threads and the flow manager: between sessions the table is empty unless a
  thread was left, which, with `OwnerInv`, gives `NothingLeftBehind`.
- **Tables.**  `IInv` adds to `OneAlertPerFlow` and `RowsReferToRows` what they rest on:
  no two transactions hold one flow's row (`TransactionInv`), a row locked for deletion
  is there, and what a clear has deleted is closed under references from below
  (`ClearInv`).  The last conjunct is the reason that the order of the scopes matters.
- **The life of an alert.**  A job's stage is a function of its `pc`; only `Commit` and
  `Simulate` store an alert, and `IInv` gives the guard of `Record`.
- **The rollup.**  `RollupInv` adds that a worker between its SELECT and its commit holds
  a count that the alerts then committed cover.  Alerts of a type only get more
  (`RecordedGrows`), so when it writes one more than it read, its own alert is the one
  that pays for it; two workers that read the same count lose one detection, never add
  one.  A clear only lowers the count.
- **Blocks.**  A *claim* is an undoable block in a run's results or in the history.
  `ClaimInv` says that a claimed address is listed in `blocked_ips` and has one claim.
  Only `InsertBlocked` makes a claim, and only for an unlisted address; no action ever
  removes the row from `blocked_ips`.
- **Rollbacks.**  `ModeInv`: an actor that rolls back row r carries r's mode, and rows
  only ever change in `undone`.  `OnceInv`: a row under rollback is not yet undone and
  only one actor has it in hand.  The second needs `SoleServer`, that there is one
  event loop: the row is checked in one session and marked in another.  The deployment
  starts four server processes (`src/ids-platform/deployment/backend.Dockerfile`), so
  there the assumption fails; the theorem says exactly what one process guarantees.
- **Statuses.**  `GroupInv`: the runs under way have groups of their own, which no
  recorded run has; so the rows of the last recorded run are exactly those its
  transaction appended, and `Outcome`, computed from the same results, is what they say.
  A rollback's row inherits the group of the row it takes back and is no run.
- **Versions.**  `TypeInv` needs `RoomInv`, that numbers never run out: a version number
  grows by at most one with each training run, so every directory leaves a number for
  each run to come.  `NextVersion` is no existing directory because it follows the
  maximum, which exists by well-foundedness (`LeastExists`).  `RunInv` and `SaveInv` say
  that until a run has written its metadata, its directory is the only trace of it: no
  other directory, and no predictor, is of that run.  A predictor that lacks the
  encoders is therefore of a directory nobody writes to any more.  `EmptyInv` (only
  directories have files) is what makes the reuse of a number harmless.
- **Requests.**  `EntitledInv` says which check has been passed in which phase: the
  caller's by the dependency, the call's by the handler.  Its third part is the reason
  the theorem is not obvious: two handlers rely on the caller's row the dependency
  loaded (a profile's current password, a role set for oneself), so what they rely on
  must already have been so when the row was loaded.
- **Timelines.**  An update that follows another may find its entry gone, but then it
  finds the entry of one that was served together with it.  `StoreInv` carries this
  from what an update read (`UpdateIncident`) to what it stores (`Commit`): every
  request that stored before has its entry or such a *trace* in what is about to be
  stored, or was served together with the one that stores.  `MetInv` (all that are
  served now were seen together) pays for those that commit in between.
- **Accounts.**  Between a handler's check and its commit other requests run.  `LockInv`
  (no two open transactions hold one row) is why what the flush found is still so at the
  commit (`ChangeInv`): the account an update changes is there, the name a creation uses
  is free.  A creation that commits therefore never meets an account, and a second one of
  the name never reaches its commit.  `SeedInv` says that nobody is served before some
  account exists, so that a start which finds none races no request; it rests on the
  assumption that a database without accounts has no grants, both being stored by the
  first start.  An update stores one column, so `AccountsAreKept` lets no update undo
  another's.
- **Sessions of users.**  The number a transaction is about to store is nobody else's
  (`SessionInv`), so a commit adds a row or revokes one; none brings a row back.
- **Screens.**  `SocketInv`: a page has at most one open connection, the one it knows,
  and a timer only while it has none; this is why one cut may schedule one reconnect.
  `DeliverInv`: for each alert and connection, still to be sent, on the wire and shown
  exclude one another, and what a page has shown is not under way on the connection it
  has.  `LinkInv` is what makes a send to a page that has left harmless.
- **What is owed.**  An alert a connection is owed passes from the queue of broadcast
  tasks to the connections a task has left, and from there to the wire; `DebtInv` follows
  it.  A broadcast gives up only connections that are down, and one that is down is owed
  nothing.  `OwedIsOnItsWay` is the safety half of `ConnectedGetAll`: nothing owed is
  ever dropped.  That it arrives needs fairness and stays with TLC.
- **A flow that is read while it is written.**  `FlowInv` says what each field holds while
  a packet is written: the contributions of those packets of which that field is done
  (`Done`).  `ReadOk` says what a worker has read: every field is of some number of packets
  between those the flow had when the reading began (`since`) and those it has now.  For a
  closed flow the two bounds are one number, which is `ClosedFlowsAreExact`; for a growing
  one they are `SnapshotsAreBracketed`.  `CountsLater` is the one relation between two
  fields: packets are counted after their lengths are listed, so a histogram never holds
  more than the packets read later.  `ScanningInv` says that a loop over `flag_counts`
  that raises met a flag of a packet that came after the reading began, and `MappedInv`
  that a worker which saw no change of the model has the names its predictor wants; these
  two give `LossesAreExplained`.  Sums need no induction theorem: a sum is the last of
  the running totals that lead to it, which exist and are unique (`TotalsExist`,
  `SumIsLast`, both from a least counterexample, `LeastExists`), so one more packet adds
  one term.
- **Settings.**  Between reading and writing the file a save carries the promised value
  of every channel but its own (`CarryInv`); two saves at one time have their channels
  excused (`OverlapInv`), so that no promise changes under a save that matters.
- **Rows of an address.**  `BoundInv` counts together the rows there are and the processes
  that found none and will add one: only while there is no row can their number grow, and
  then it is at most that of the processes.  A process that serves has found a row or
  added one (`KnownInv`), so a query that answers finds the address.

Out of the prover's reach, and so checked by TLC only: liveness under fairness
(`OpenFlowsClose`, `QueuedJobsEnd`, `StopHandsOverEveryFlow`, `NewestIsServed`,
`TrainingEnds`, `AnsweredUnlessHung`, `WorkersServe`, `ConnectedGetAll`, `ViewsSettle`,
`ReputationsCatchUp`).  There is no RECURSIVE operator.  Every safety property of a
passing run is a theorem.  `ApiRequests!TypeOK` is in no run and not proved as a whole:
what the proofs need of types is in `RequestType`, `TimelineType`, `AccountType` and
`SessionInv`, as it is in `SettingsType` and `StartType` for `SharedCopies`; the types of
`LiveFlow` are part of its `IInv`.  `ClosedAtMostOnceHolds` is a theorem without a run of
its own: `FlowLedger` has a flow closed once, and the run checks that refinement.  So are
those about `CreatedOnce`, `AccountsAreKept`, `SessionsEndForGood`, `RegisteredInv`,
`RowsAreBounded` and `QueriesFindTheAddress`, which stand beside their proofs; TLC found
no counterexample to them on the instances of `api_requests`, `live_updates` and
`shared_copies`.

---

## 6. What the runs found in the code

1. **The timeout thread dies on an empty table** (`flow_manager_reaper_dies`,
   `packet_capture/flow_manager.py:352-354`).  The variable `flow` of the periodic scan
   is used after the loop; with an empty table it is unbound, and the handler of the
   exception uses it again.  From then on no flow is closed on idleness or duration
   until the capture is stopped.
2. **A run that succeeds in part leaves no record** (`response_lost_rows`,
   `response_engine/response_service.py:138`): the status `partially_responded` does not
   fit the column, and the transaction that holds the rows of the run is rolled back.

Behaviours the models have and no run makes a claim about.  Packets, flows and alerts:

- The periodic scan stamps every long-lived flow as classified and classifies the last
  one scanned (`flow_manager.py:352-354`; `PeriodicScan`, `stamp`, `chosen`).
- The final verdict of a periodically classified flow is dropped, because its
  `flow_history` row exists (`alert_service.py:84`; `InsertRows`).
- A clear of all tables can fail although children are deleted first, since each DELETE
  sees what was committed before it (`api/routes/admin.py:97`; `Delete`).
- The first two detections of a type may both insert the rollup row; one of the two is
  lost with its alert (`database/repositories/statistics.py:41`; `DatabaseError`).
- A periodic classification reads a flow that is being written: packet counts, bytes,
  lengths and times are of different instants (`packet_capture/flow_features.py:99`;
  `Read`).  `SnapshotsAreBracketed` says how far apart they can be.
- The histogram of packet sizes has no bucket for a frame above 1514 bytes
  (`flow_features.py:113`).
- A feature a model expects and the pipeline does not compute is zero
  (`packet_capture/feature_mapper.py:46`), although the function's comment has it raise.
  The models of `src/ids-platform/scripts/train_model.py` share no name with live flows.
- `Detector.classify_flow` may ask one predictor for its features and another for its
  prediction (`detection/detector.py:49-52`; `Map`, `Predict`); the flow is dropped.

Models:

- The directory of a training run is the newest from the moment it is made, so
  `get_predictor()` fails for every flow until the run has written its files, or until
  somebody deletes the directory if the run fails (`ml/artifacts.py:98`; `MakeDirectory`).
- An activation is undone by the next call of anybody else, who asks for the newest
  version (`services/prediction_service.py:72`; `SwitchModel`).
- The unlocked fast path of `get_predictor()` can return None while another thread
  reloads (`ml/predictor.py:286`; `Take`); the flow is dropped.
- A version that is deleted while a newer, incomplete one exists stays in memory, and a
  training run that is given its number is then not loaded: the cache compares paths
  (`prediction_service.py:280`; `Hit`).

Requests:

- Two refreshes of one token that overlap both succeed and leave two live sessions
  (`auth/authentication.py:169`; `Refresh`, `Commit`): each was entitled when it asked.
- Two logins of one user in one process can hang it: the second handler keeps the event
  loop while it waits for a row of the first, whose commit only that loop can dispatch
  (`Hung`).
- A start grants default permissions again that were taken away
  (`auth/authentication.py:92`; `SeedRead`); two starts on an empty database make one of
  them fail and start again (`SeedOutcome`).
- Two updates of an incident that overlap lose a timeline entry, and can reopen a
  closed one (`services/incident_service.py:69`; `UpdateIncident`).

Screens and copies:

- With the four processes of `src/ids-platform/deployment/backend.Dockerfile`, a page whose
  socket another process accepted than the one that captures gets no events.
- A page that finds no token when its timer fires does not try again, also after a login
  in another tab (`src/ids-platform/frontend/src/services/websocketService.ts:33`;
  `Stranded`).
- Two pages may send one refresh token at the same time; the one that is refused clears
  the tokens of both (`SessionExpired`).
- Starts that overlap give an address several rows (`threat_intelligence/feeds.py:84`;
  `Synced`), although `main.py:53` says that the synchronisation "upserts by value, never
  duplicates": it looks for the row with a query, and no constraint backs it.  There are
  at most as many as processes (`RowsAreBoundedHolds`); which one answers is not
  specified.
- Two detections that find the same expired entry both delete it; the second one's
  KeyError ends it (`threat_intelligence/reputation.py:59`; `Delete`).
- A process that loads the settings while another has just emptied the file believes that
  no channel is set (`Loaded`), and its next save stores that; other processes keep using
  the settings they loaded first.

---

## 7. What is not modelled, and why

- Analytics, reports and the read-only routes: they query what the modelled components
  keep and change nothing.  Severity tables and the arithmetic of models, of training and
  of evaluation: their results are inputs chosen freely (`Classify`'s type, `Enrich`'s
  tag, the class of a vector).
- Wording, logging, audit entries (one in the transaction of each successful request),
  latency counters, the deque of recent packets, the validation of requests' fields: no
  property is about them.
- `DetectionService.shutdown`: it ends submissions that nothing obliges.
- The crash of a process, in the modules of the detection path: nothing is resumed after a
  restart, queued jobs are lost, and the database is as its last commit left it, which
  every invariant over tables covers.  `ApiRequests`, `LiveUpdates` and `SharedCopies`,
  where something outlives the process, have crashes.
- The pages of the frontend and its cached queries; the packet and response events, which
  travel as the alerts do.
- The parts listed as `not_modelled` in `PROJECT.json`: what is left of them is data
  without behaviour, start-up configuration, or statements about tables that the modules
  have where they matter.

---

## 8. Plan

Written, in this order: `FlowLedger`, `FlowManager`, `AlertLifecycle`,
`DetectionPipeline`, `CaptureService` (composing sessions with `FlowManager`),
`ResponseEngine`, `ModelRegistry`, and their proofs; `ApiRequests`, `LiveFlow`,
`LiveUpdates`, `SharedCopies`, and proofs about all four of these.

Next, by importance:

1. The registry's abstract specification: a register of complete versions that
   classification reads, which `ModelRegistry` implements when nobody trains; and the
   model behind a number, so that a predictor that outlives its version is seen.
2. The response engine with its policy file, written in place
   (`response_engine/response_rules.py:119`), through a crash and a restart; and with
   several server processes: the rollback that two of them make of one row, and what it
   takes to prevent it.

The project keeps one run per question.  Where a later module asks a more important
one, the run whose question is the narrowest gives way and becomes an observation of
section 6.
