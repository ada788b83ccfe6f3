# cloud-control-stable: TLA+ models, model checking and proofs

The repository is a control plane for Android phones: a Go server (`server/`), an
EasyClick agent on each phone (`client/easyclick/src/js/main.js`) and a web console.
Operators and cron jobs start *tasks*; the server hands a task to its devices over
WebSocket or MQTT, the phones execute it and report back. What is hard about it is
everything between those two: losses, retries, reconnects, restarts of either side,
late reports of old runs, and timeouts on both sides.

All paths below are relative to `src/`.

## 1. Inventory

| component | state | operations | interacts with |
|---|---|---|---|
| Reliable delivery, `server/handlers/delivery.go` | rows of `command_deliveries` (status, attempts, next_retry_at, created_at) | send, retry tick, reconnect wake-up, acknowledge, exhaustion and TTL sweeps | hub (send), task_devices (marks rows running), read loop (ack) |
| Task lifecycle, `server/handlers/task.go` | `tasks.status`, `task_devices` rows (status, run_id, deadline_at) | start, stop, reset, repair, dispatch; CRUD, sharing | delivery, scheduler |
| Scheduler, `server/handlers/scheduler.go` | cron entries, dispatchQueue (256), dispatchPending, next_run_at | cron tick, enqueue, one dispatch worker, catch-up after a restart, stop | task lifecycle |
| Task watchdog, `server/handlers/task_watchdog.go` | none of its own | scan of overdue rows, guarded timeout, cancel command | task rows, delivery |
| Hub and read loop, `server/handlers/websocket.go` | clients, heartbeat cache, database and media queues with byte budgets, screenshot quota | register, unregister, replace, send, ack, task_status, heartbeat, media | every other part |
| Embedded MQTT broker, `server/handlers/mqtt.go` | device sessions, QoS 1 window | connect, subscribe, publish, PUBACK, resend | hub |
| External MQTT bridge, `external_mqtt.go`, `mqtt_service_account.go` | a third-party client | publish, receive | hub |
| Device identity, `device_auth.go` | devices, token digests, quota | auto-registration, recovery, confirmation | read loop |
| Devices and groups, `device.go`, `access.go` | devices, groups, shares | CRUD, release of devices (resets task rows) | task rows |
| Client releases, `client_update.go` | releases of a channel | create, activate, roll back, latest | - |
| Resources, `resource.go`, `storage_guard.go` | files and their rows | upload, replace, delete, share | disk watermark |
| Background jobs, `background.go` | alert cooldowns, backup state | retention, alerts, backups | every table |
| Accounts, `auth.go`, `middleware/` | users, login attempts, tokens | login, logout, refresh, check of tokens | console |
| Phone agent, `main.js` | command history, event outbox, task journal, runtime lease (all persisted); current task, transports, log queue, stream session | claim, acknowledge, execute, cancel, report, flush, recover, connect, beat, stream | server |
| Phone MQTT client, `client/easyclick/src/slib/mqtt_transport.js` | socket, reader and ping threads, write lock | connect, read, ping, send, close | agent, broker |
| Automation scripts, `js/douyin.js`, `js/common.js` | running time, visits made (memory and storage) | hidcs loops, HID recovery | agent (run by a task) |
| Web console, `web/src` | session (store and localStorage), in-flight flags of tables | login, logout, token check, refresh | HTTP interface |
| EasyClick interface, `client/easyclick/libs` | - | third-party wrappers around the phone's runtime (about 18000 lines) | agent |
| The rest: scripts, data, templates, dashboard, deployment | - | CRUD, shell | - |

The interactions that matter:

- a *send* writes a delivery row, hands a copy to the hub and then, after the send,
  updates both the delivery row and the device's `task_devices` row;
- the *retry worker* does the same from a snapshot of the rows, concurrently;
- the phone *claims* a command (history, persisted), *acknowledges* it (outbox,
  persisted), then *executes* it; its status reports go through the same outbox;
- *reports* are applied by four database workers in any order, and repeated until the
  phone has seen their `event_ack`;
- the *watchdog*, *cron job*, *dispatch worker* and *HTTP handlers* all write the same
  task and rows in separate statements without a lock.

What makes each component correct, and the hazards (with their lines, in
`PROJECT.json`):

- delivery: a row is honest (acknowledged only if claimed), final, and settles; the
  phone runs a command at most once; copies are bounded; only the newest run of a task
  stays live;
- tasks: a row is done only for a run that was completed, and failed only for one that
  failed, was overdue or was stopped; every running row ends; an accepted start is
  queued; occurrences do not overlap or complete one another;
- hub: one live connection per device, no closed client in the table, heartbeats of
  two script instances merge to the newest state and are all written;
- phone: an event is kept until it is settled and terminal states are never evicted,
  only one script instance serves, a run that began is not forgotten, is ended by one
  report and always ends, the
  phone comes back online on one main channel, streams and scripts end;
- broker: a QoS 1 message is acknowledged or its connection is closed;
- console: an ended session leaves the screen, a table comes to show its filter's rows;
- scheduler restart: a missed time is caught up at most once;
- quotas and budgets: never exceeded, given back on every path.

## 2. Modules

| module | models |
|---|---|
| `DeliveryContract` | what a caller of `SendCommandWithDelivery` may rely on, for one phone: abstract states of a command at the server and at the phone |
| `CommandDelivery` | the delivery end to end at the granularity of single statements: sender goroutines, retry worker, hub, ack branch, the phone's reader threads with their list of commands, ack and outbox |
| `CommandDelivery_proofs`, `CommandDelivery_refines` | its safety theorems; the proof that it implements `DeliveryContract` |
| `TaskRuns`, `TaskRuns_proofs` | one task on its devices: operator requests, cron job, dispatch queue and worker, watchdog, task_status branch, what a phone runs and reports; deliveries reduced to "live or not", on top of what `CommandDelivery` establishes |
| `PhoneOutbox`, `PhoneOutbox_proofs` | the phone's event outbox: load, quotas, priorities, expiry, flush, event_ack, by any number of threads |
| `PhoneExecutor`, `PhoneExecutor_proofs` | what runs on the phone: executeTask, its watchdog, the stop commands, the local script, the journal, HID recovery, restarts, in threads that share globals |
| `PhoneChannels`, `PhoneChannels_proofs` | MQTT with its WebSocket fallback: connect, callbacks, reconnect timer, the 15-second check, heartbeat timers |
| `RuntimeLease` | the lease in storage that keeps a second instance of the script off a phone |
| `MqttLink` | one connection of the phone's MQTT client: threads, write lock, silent and broken networks, close(); the coding of packet lengths |
| `LogQueue` | the phone's log queue and its overlapping flushes |
| `ScreenStream` | sessions and timers of the screen stream |
| `AutomationLoop` | the loops of `hidcs()`: running time, quotas of visits, nights, lost home page |
| `HubTable` | which connection of a device the server sends to: hub loop with its two queues, the broker's own table |
| `HeartbeatStore` | heartbeats of several script instances merged, flushed to the devices table, and the offline monitor |
| `CronRecovery` | a cron task across stops and crashes of the server: next_run_at, catch-up, dispatch queue |
| `MqttQoS1` | the broker's window of unacknowledged commands of one connection |
| `WebSession` | the console's session: store, interceptors, router guard, and the server's login, logout and check of tokens |
| `WebTables` | the console's tables that refresh every three seconds |
| `MCCommandDelivery`, `MCTaskRuns`, `MCPhoneExecutor` | instances and the bounds `FewInFlight`, `FewUnderWay`, `FewerUnderWay` |
| `MCPeriphery` | eleven of the modules above side by side: they share nothing, so a behaviour picks one and leaves the others as they start |
| `ServerTables_proofs` | the theorems about `HubTable`, `HeartbeatStore` and `CronRecovery` |
| `Periphery_proofs` | the theorems about `RuntimeLease`, `LogQueue`, `AutomationLoop` and the packet lengths of `MqttLink`, and the types of all eleven parts of `MCPeriphery` |

How they fit together: `PhoneExecutor` assumes a command is claimed and acked once
(`CommandDelivery`) and that a queued report is safe (`PhoneOutbox`); `TaskRuns`
describes the phone by the run it is in and by its reports, and lets a restart report any
run the phone has begun: what its threads do and what the journal is left with is
`PhoneExecutor`'s; `CommandDelivery` sees the connection as up or down, which is `HubTable`,
`MqttQoS1` and `MqttLink` on the way, kept up by `PhoneChannels`; `CronRecovery` is the
crash of the server that `TaskRuns` leaves out.

### CommandDelivery and the code

A command is a `cmd_id`. `status`, `attempts`, `due` (next_retry_at has passed),
`expired` (older than the TTL) and `rowId` are its `command_deliveries` row. The sender
goroutine of each command is `sender[c]`, one value per statement of
`SendCommandWithDelivery`: supersede, create, attempt, record. The retry worker is
`worker`, with the batch and the attempts counts its query copied (`snapshot`): the
code computes `attempts + 1` from that copy, and the model keeps that. `TickScan` and
`WakeScan` are the two queries (the wake-up of a reconnecting device does not wait for
`next_retry_at`), `WorkerFinish` the two sweeps at the end of a tick. `Connect` and
`Disconnect` are the hub; `downlink` counts copies on their way, `uplink` and
`confirms` hold acks and event_acks.

On the phone, messages come in on the WebSocket's thread and on the MQTT reader's, and
both exist while the transports change (main.js:1096, :1213): `Readers`. Each has the
message it is `handling` and its `stage`: load, test, insert and put are the parts of
`claimCloudCommand`, between any two of which another reader may run; then the message is
claimed, acked and executed. `history` is the list of handled commands in memory, `stored`
the one in storage, `loaded` whether memory has one at all; it is made empty before the
stored one is read (main.js:473), and `encoded` is the text a reader is about to write.
`Extended` drops some entry when the list is full and leaves open which is the oldest.
`outbox` holds the unconfirmed acks.

Faults are actions that count against `MaxFaults`: a crash of either side, a failing
statement, a failing read ("load") or write ("store") of the list, a claim that overlaps
another one, a lost or repeated copy, an evicted ack, an elapsed TTL. `FaultKinds` says
which an instance allows. A failing read leaves an empty list, which the next claim
writes over the stored one (main.js:487, :507). `forgetful` becomes true with each of the
three ways in which the phone may lose track of a command: a claim that was not written,
a list with commands in it that was not read, two claims at a time. `crossed` holds the
pairs of sends that were both between supersede and create.

### TaskRuns and the code

`task` is `tasks.status` (0 stopped, 1 started, 2 completed) and `row[d]` the
`task_devices` row: status, run_id, and whether `deadline_at` is set. The statuses 3
(failed) and 4 (timed out or stopped) are one value: no code in the model's scope tells
them apart. `pending` and `queued` are `dispatchPending` and `dispatchQueue`.
`dispatch`, `operator`, `cron` and `watchdog` are the program counters of the
goroutines: every handler is cut at every database statement and at every send. An
accepted send leaves a *note*, the update of the row to "running" that
`attemptCommandDelivery` makes after the send (`NoteSent`). Each run has a number, so
"an older run" has a meaning; `NoRun` is a row that was never dispatched, and a message
without run_id (a pushed task).

### PhoneOutbox

`outbox` is `gCloudEventOutbox`, `stored` its copy in storage; an item is its kind, the
run or command it is about, and its place in the order. A thread's `pc` cuts
loadCloudEventOutbox, queueCloudEvent, flushCloudEventOutbox and acknowledgeCloudEvent
where the code reads the array after writing it, replaces it, or calls storage or network;
eviction removes one item per step. EasyClick's own timers and socket readers are threads
(`libs/thread.js:7`) and take no lock: `Threads` are any number of them, and their calls
interleave at any of these cuts. The load makes the array empty and then reads the stored
one; a failing read, or a text that does not parse, leaves it empty (main.js:294), and the
next save writes that over what was stored. `atRisk` records what the code does not
protect: the event of a call that another one overlaps, and everything in storage when
its read fails or when a second call comes while it is being read. Expired items leave
only with the next queueCloudEvent. The retry interval of 10 s is shorter than the
heartbeat's 30 s, so every heartbeat sends the same first 20 events again until they are
confirmed.

### PhoneExecutor

`cur`, `terminalSent`, `journal` and the watchdog's timer are the globals of `main.js`;
the socket reader, main, the watchdog, the anti-sleep timer, HID stopping and each
script are actors with a program counter. A test of globals and the assignments behind
it are one step; a call of storage, network or thread library ends it. cancelThread may
stop a script where it is, or let it go on to its catch and finally. With
`Direct = TRUE` the script was started by hand and runs a local script beside tasks.
`unnamed` are runs ended by a report without run_id (`common.js:438`), `undercut` runs
whose `gIsRunning` another thread cleared before a new task began. The journal is read
and erased in two calls (`ReadJournal`, `EraseJournal`: main.js:544, :546), each of which
may fail. `unjournaled` are the runs whose journal is lost: storage failed to write or
read it, or the late end of another run erased it, either one of the same task, since
clearActiveTaskJournal compares the task and not the run, or one that had read the
journal before theirs was written.

### PhoneChannels, RuntimeLease, MqttLink, LogQueue, ScreenStream

`PhoneChannels` keeps the objects of both transports with their callbacks: `ws` and
`mqtt` are the globals, `link` the state of every connection object ever made, and a
connection that nothing refers to may still call back. `RuntimeLease` is one record in
storage, read, written and read back in three steps; a timer that is held up for the
whole TTL and a failing storage are faults. cleanup() gives the lease up first
(main.js:1952), and goes on serving until it has closed its connections (1955-1986): the
stage "closing". In `MqttLink` the thread that connects, the
reader, the ping timer, a sender and a closer share the socket and the write lock; a
network can be up, full (a write blocks), silent (nothing arrives and no error comes) or
broken. The coding of the remaining length is `Encode` and `Decode`; the reader reads
`Decode(Encode(n))`, at lengths that include the limit 2097152 and the first above it.
`LogQueue` counts entries, so that "which were sent" has a meaning. `ScreenStream` has
one loop of timers per session, and a capture that may outlast it.

### HubTable, HeartbeatStore, CronRecovery, MqttQoS1

`HubTable` follows one device, whose connections are numbered in the order it opens
them; `phase` is the goroutine of each, `register` and `unregister` the hub's channels,
which `select` serves in any order, `brokered` the broker's table. In `HeartbeatStore`
the read loops merge heartbeats of several `instance_id`s with different `state_seq`s;
the flush is cut at every access to the two maps and the database, none of which it
locks; the states running and paused are one. In `CronRecovery` the times of the task
are 1, 2, ...; the cron library's next time, the callback between its statements,
`next_run_at`, the in-memory queue and the worker survive or do not survive a crash. The
policies run_once and latest are the same code, although README.md:14 lists three
strategies. `MqttQoS1` has the packet ids, the window, the send queue, the retry loop's
list and the write loop of one connection.

### AutomationLoop, WebSession, WebTables

`AutomationLoop` keeps of `hidcs()` when it looks at the clock, at the page and at the
counters; a visit is one step, what is tapped is left out. The store and localStorage of
`WebSession` are written together, so one variable stands for both; every request is a
pair of steps, and the answer finds the session as it is by then. The server of
`WebSession` is `ServeLogin` (a new token), `ServeLogout` (outside of JWTAuth: it answers
and ends no token) and `ServeGuarded` (JWTAuth); `Revoke` is a token that expires or an
account that is locked or given a new token_version. `WebTables` has the
three pages as one module: two guard a request in flight, the third does not.

## 3. Runs

Twelve runs, by their cfg. Bounds are constants of the modules or constraints of the MC
modules.

| run | bounds | shows |
|---|---|---|
| `delivery_safety` | 1 command, 2 attempts, 2 readers (symmetric), any 2 faults of 9 kinds (all but the TTL) | `AcknowledgedWasClaimed`, `ExecutedAtMostOnce`, `SendsBounded`, `TerminalIsFinal`, and that the model implements `DeliveryContract` |
| `delivery_two_runs` | 2 commands of 2 runs, whose sends overlap in any way, 1 attempt, no fault, 1 reader, few messages in flight | `SingleLiveRun` |
| `delivery_liveness` | 1 command, 2 attempts, 1 reader, 1 fault of 5 kinds (crash of either side, database, loss, TTL) | `LiveRowSettles`, `QueuedAckIsConfirmed` |
| `runs_operators` | 1 device, direct mode; any 2 of cron, start, push; 1 disturbance (stop, reset, release, crash, repeated report); `FewerUnderWay` | `DoneIsEarned`, `FailedIsEarned` |
| `runs_reliable` | 1 device, reliable mode, 2 cron ticks, `FewUnderWay` | `DoneIsEarned` |
| `runs_watchdog` | 2 devices, direct mode, one cron tick or repair | `RunningRowIsWatched`, `RunningRowEnds` |
| `runs_stuck_row` | 1 device, reliable mode, 1 cron tick | `RunningRowEnds` is **violated** |
| `outbox` | 2 threads, 1 overlapping call, 2 events of any kind, 1 item or 3 units of bytes, 1 per flush, 1 fault (crash, failing read or write, expiry, loss) | `KeptUntilSettled`, `OutboxIsBounded`, `KeptEventsSettle` |
| `executor_safety` | 2 runs of 2 tasks, 2 scripts, HID and direct start, 2 disturbances (stops, cancels, restarts, ...); symmetry of runs and scripts | `OneEndPerRun`, `CurrentIsJournaled`, `BegunIsAccounted` |
| `executor_liveness` | the same with 1 disturbance, fair threads | `BegunRunEnds` |
| `channels` | 2 WebSockets and 2 MQTT transports at a time, 1 fault | `OneMainChannel`, `StaysOnline` |
| `periphery` | see below | sixteen properties of eleven modules |

`periphery` checks, by module: `RuntimeLease` (3 instances, 1 stall or fault)
`OneInstance`; `MqttLink` (2 failures, 1 send) `LostIsTold`, `CloseReturns`; `LogQueue`
(5 entries, limit 3, batch 2) `LogsAreSent`; `ScreenStream` (2 sessions) `StreamEnds`;
`AutomationLoop` (2 starts, limit 2, 1 fault) `QuotaKept`, `LoopEnds`; `WebSession`
(2 tokens, 2 events) `RevokedSessionEnds`; `WebTables` (2 filters, 3 changes, 2 errors)
`TableCatchesUp`; `HubTable` (2 connections, 1 timeout) `NewestIsReachable`;
`HeartbeatStore` (2 reporters, 3 beats, 1 held back) `BusyIsKept`, `UnwrittenIsMarked`,
`GoneIsOfflineIfFair`; `CronRecovery` (times 1..3, window 2, 2 restarts, 1 refusal)
`ExecutedOnce`; `MqttQoS1` (3 packet ids, window 2, 2 attempts, 3 commands)
`SentIsSettled`; and the type invariants of all of them (`TypesOK`). The type invariants
of the other modules are proved (section 5).

Why the bounds are enough. One command suffices for the delivery properties of one row,
because rows only meet in the supersede statement, which has its own run, and in the
order of a batch, which no property depends on. Two readers are the smallest number that
overlaps. An elapsed lifetime only matters to the sweep; it is among the faults of
`delivery_liveness`, and the theorems cover it for the safety properties. Two attempts are the smallest number at
which the sender's and the worker's stale counts disagree; two faults let any kind
follow any other. For tasks, two runs are the smallest number at which "old" and "new"
differ; one disturbance is a stop or a crash, say, at any point of the two. Repairs,
which multiply the interleavings most, are left to `runs_watchdog` and to the theorems,
which cover every request. Two devices are needed only where one row's end depends on another's. The outbox holds one
item of the two that are queued, so that every kind is evicted or protected by another;
one overlapping call lets any two calls interleave at every cut. The executor has two runs and two script
threads, the smallest number at which a late cleanup meets the next run; two
disturbances let a stop follow a restart or another stop. Two objects of each transport
let a replaced one call back while the next is connecting. Three instances let one
refuse, one hold and one steal a lease. Every safety property of a passing run is also
proved for every value of the bounds (section 5); of liveness the bounds above are all
there is.

Most instances do not check for deadlock: when nobody makes a request any more and the
phones are idle, or the bound on faults is used up, the system rests. The delivery
instances do check it (the connection can always come and go).

### Fairness

`ServerFairness` of `CommandDelivery`: the goroutine of a send and the retry worker
are scheduled, time passes, and the ticker is not starved by wake-ups (`select` chooses
at random, hence SF). Nothing is assumed of the phone or the network; `LiveRowSettles`
therefore holds for a phone that never comes back. `PhoneFairness`, a hypothesis of
`QueuedAckIsConfirmed` alone, says that the phone's event loop runs, the phone
reconnects, and a message that is sent again and again arrives in the end.
`ServerFairness` of `TaskRuns` covers the goroutines, deadlines, and requests that have
begun; operators, phones and the network are free to do nothing.

In every other module threads and timers run (WF) and nobody has to make a request:

- `PhoneOutbox`: heartbeats come and the phone reconnects again and again, and the server
  confirms what is sent again and again (SF: an item may be lost and resent in between);
- `PhoneExecutor`: an armed timer fires; a script may hang for ever;
- `PhoneChannels`: timers fire and an attempt to connect comes to an end, by an answer or
  by an error; the number of faults is bounded, so the network stays up in the end;
- `MqttLink`: the lock goes round (SF per actor, as a fair lock gives it), TCP gives up on a peer that
  acknowledges nothing, and a silent connection grows stale;
- `ScreenStream`: a capture ends, the limit of five minutes passes; `AutomationLoop`: time
  passes, and an evening does not come each time the loop looks at the clock (SF);
- `WebSession`, `WebTables`: requests are answered, be it by their timeout, and the timers
  of the page fire;
- `HeartbeatStore`: the goroutines run; the database may refuse every write of the flush;
- `MqttQoS1`: the goroutines run; the device need not answer.

In `MCPeriphery` each of these is the hypothesis of its own property, for behaviours in
which that part runs.

## 4. Where the code and its documents disagree

One is a run (see `findings` in `PROJECT.json`): `runs_stuck_row`. The send of the
watchdog's own cancel command marks the row it has just timed out as running again,
without a deadline.

The others are stated in the modules and refuted by TLC within seconds to minutes. To
see one, put it in place of the properties of the named cfg, or change its constants as
said.

On the server:

- `SingleLiveRun` without its exception `crossed` (delivery.go:127, README.md:23), in
  `delivery_two_runs`: supersede and insert are two statements; two sends of different runs
  can both supersede before either inserts, and both rows stay live.
- `QueuedRoundIsNotCompleted` (README.md:23), `TaskRuns` with one device,
  `Reliable = FALSE, Requests = {"cron"}, MaxRequests = 2, MaxDisturbances = 0`: a cron
  tick leaves the old run_id in the rows until the worker dispatches; a late report of
  the old run completes the new round.
- `TickFindsNothingRunning` (docs/长期在线与实时任务说明.md:22), the same with
  `Reliable = TRUE`: a dispatch with `Sent == 0` stops the task although its deliveries
  stay queued; once the device runs them, the next tick starts the task again.
- `AcceptedStartIsQueued` (task.go:515), `Reliable = FALSE, Requests = {"start", "stop"},
  MaxRequests = 2, MaxDisturbances = 1`: `EnqueueTask` coalesces on a flag the worker
  clears only after its last statement, so a start in between is accepted and never
  dispatched.
- `DoneIsEarned` without its exception for `NoRun`, with `Requests = {"start", "push"}`: a
  pushed task carries no run_id, and its end is credited to whatever run the row holds.
- `NewestIsReachableAlways` (websocket.go:416), in `periphery`: mqtt.go:179 registers a
  connection with the broker and with the hub in two steps, and two connections can take
  them in different orders.
- `NoGhost` (websocket.go:700), in `periphery`: `select` may take the end of a connection
  before its start, and the closed connection stays in the table.
- `UnwrittenIsMarkedAlways` (websocket.go:1167): an update between the comparison of the
  mark's version and its deletion leaves an entry unwritten until the next heartbeat.
- `ExecutedOnceAlways` (README.md:22), `RunningIsPursued` (scheduler.go:295), in
  `periphery`: if the write of next_run_at is lost, a time is executed again after a
  restart; a crash between `status = 1` and the dispatch leaves a task that is running
  for ever, whose later ticks are coalesced.

On the phone:

- `ExecutedAtMostOnce` without its exception `forgetful` (main.js:493, README.md:24), in
  `delivery_safety`: with `FaultKinds = {"phone", "load"}`, a read of the list that fails
  after a restart leaves it empty, and a resent command runs again; with
  `{"phone", "store"}` the claim was never written; with `{"overlap", "duplicate"}` two
  readers test the list before either has added the command.
- `KeptUntilSettledAlways` (README.md:27), in `outbox`: with `MaxFaults = 0`, event_ack
  filters the array into a new one while another thread pushes to the old one, and the
  event is gone; with `FaultKinds = {"crash", "read"}`, `MaxFaults = 2`, `MaxOverlaps = 0`, a
  failing read after a restart lets the next save erase all that waited.
- `OutboxIsBounded` without its exception `atRisk` (main.js:317), in `outbox`: the limit is
  tested and the victim chosen on an array another thread has changed by the next step.
- `CurrentIsJournaledAlways` (main.js:527), in `executor_safety`, also with
  `TaskOf <- SameTask`: a late end erases the journal of the next run, of the same task
  (the run is not compared) or of another (the journal was read before it was saved), or
  the journal could not be written; a restart then reports nothing of the run.
- `RestartLosesNoRun` (README.md:27), in `executor_safety`: a restart between the end of
  a run and its report, or between the report of its beginning and the journal, loses
  it.
- `ConnectedBeats` (README.md:14), in `channels`: stopHeartbeat of a late callback or of
  the 15-second check can come after startHeartbeat of the new connection; the phone
  stays connected without heartbeats.
- `OneInstanceAlways` (main.js:638), in `periphery`: an instance that stops gives up the
  lease before it stops its task and closes its connections, and meanwhile handles
  commands beside its successor; and read, write and verification of the lease are not
  one step.
- `StartsAreHeard`, in `periphery`: a stop between the comparison of the session and the
  arming of the next timer leaves `gStreamTimer` set, and later starts do nothing.
- `LogsAreSentAlways` (main.js:613), in `periphery`: the queue was shifted, or flushed by
  another thread, while a batch was sent; others are removed in its place.
- `QuotaIsDaily` (douyin.js:460): nothing ever sets the "daily" counters back.

In the console: `LogoutRevokes` (the server goes on accepting the token of a session that was
logged out), `LoggedOutSeesLogin` (the menu does not wait for logout, so the guard
leads back to the application), `UserIsOfSession` (a late answer to fetchUserInfo of an
earlier session makes the console authenticated without a token), in `WebSession` with the
bounds of `periphery`; `NoDeviceNoRows` (the
answer for the device chosen before is shown).

Properties that are checked with an exception name it in their own comment:

| exception | of | excuses |
|---|---|---|
| `forgetful` | `ExecutedAtMostOnce`, `DeliveryContract` | a claim not written, a list not read, two claims at a time |
| `crossed` | `SingleLiveRun` | two sends that were both between supersede and create |
| a pushed task's `NoRun` | `DoneIsEarned`, `FailedIsEarned` | its reports match any run |
| `atRisk` | `KeptUntilSettled`, `OutboxIsBounded`, `KeptEventsSettle` | an event whose own call was overlapped; what was in storage when it could not be read, or was read by two |
| `undercut`, `unjournaled` | `BegunIsAccounted`, `CurrentIsJournaled`, `BegunRunEnds` | `gIsRunning` cleared by another thread; a journal erased by another run's end, or not written or read |
| `breach`, "closing" | `OneInstance` | two acquisitions at a time, a stalled timer, failing storage; an instance in cleanup() |
| `overtaken` | `NewestIsReachable` | an older connection registered after the newest |
| `overlapped` | `UnwrittenIsMarked` | an update between comparing and deleting a mark |
| `unsaved` | `ExecutedOnce` | a lost write of next_run_at |
| `raced` | `LogsAreSent` | the front of the queue moved during a flush |

Each is a window in the code, named above; the property says that nothing else goes
wrong, and its unexcepted form is among the refuted ones.

## 5. Proofs

`CommandDelivery_proofs`, for every finite set of commands and every value of the
bounds:

- `TypeCorrect`: `Spec => []TypeOK`. `TypeOK` is not inductive alone: the phone's steps use
  `handling` as an index, so the invariant includes that a reader at a stage other than
  "none" has a command in hand (`StageMatchesHandling`).
- `AcknowledgementsAreHonest`: `Spec => []AcknowledgedWasClaimed`. The inductive
  invariant `DeliveryInv` follows every trace of an acknowledgement back to a claim: ids
  in the histories, the message in hand, the outbox and the acks on the wire are all
  claimed (`AcksComeFromClaims`).
- `TerminalRowsAreFinal`: `Spec => TerminalIsFinal`. Every writer of a status is guarded
  by "still live", except the insert; that the insert never meets an existing row is
  the part `NoRowBeforeCreate` of the invariant.
- `AtMostOnce`: a list that can hold every command implies
  `Spec => []ExecutedAtMostOnce`, for any set of readers. The inductive invariant
  `HistoryCoversExecs` says that, while nothing was forgotten, one reader at a time is
  claiming, and memory has what storage has or what that reader is about to write
  (`ListsAgree`); and that every command that ran or was claimed is in storage, and one
  that was claimed is in one reader's hands and has not run (`RunsAreStored`). So neither a
  duplicate nor a restart makes a command new again. The hypothesis is the documented
  limit of 500 ids (README.md:24); without it the claim is false.

`CommandDelivery_refines` proves `DeliveryImplementsContract`: if the history can hold
every command, `Spec => ImplementsContract`, where the abstract state is computed from
the concrete one (`ServerView`, `PhoneView`). Each action maps to a step of the contract
or to a stutter; which one it is depends on facts that are not in the state it changes,
so the step is proved under `RefinementInv`: `DeliveryInv` and `HistoryCoversExecs` from
above, that a copy or a message in hand belongs to a command with a row
(`CopiesHaveRows`: the phone cannot take what was never issued), and that a command that
ran was taken (`RunsWereClaimed`).

`TaskRuns_proofs`, for every finite set of devices, any set of requests, both delivery
modes and every value of the bounds:

- `TaskRunsTypes`: `Spec => []TypeOK`. The bound on run_ids is not inductive: the worker
  hands one out long after the request. `RunsAreRequested` counts what is still owed (an
  operator about to enqueue, a cron callback, a queued task, a worker that has not read
  its task yet), and `lastRun` plus that never exceeds the requests made.
- `RowsStep`, a lemma, lists all that a step can do to a row: leave it, close or reset
  it, mark it as running with a deadline (or without one for a reason: reliable mode, or
  a push), or set it from a report that matches it. `NotesAreReliable` is the invariant
  behind it.
- `RunningRowsAreWatched`: `Spec => []RunningRowIsWatched`, from `RowsStep`.
- `DoneRowsAreEarned`: `Spec => []DoneIsEarned`, from `RowsStep` and from the fact that
  what is on its way to the server was reported (`ReportsWereMade`) and that the record
  of reports only grows.
- `FailedRowsAreEarned`: `Spec => []FailedIsEarned`. A timeout is applied in another
  transaction than the scan that selected it, and only to a row that still has the run of
  the scan: `SelectedAreGivenUp` says that what the watchdog still holds was found overdue,
  under the run it names.

`CommandDelivery_proofs` has two more, each with an invariant of its own:

- `SendsAreBounded`: `Spec => []SendsBounded`, a copy per attempt from the sender and from
  the worker, and one per crash or failed write. What is stale is which count the next write
  starts from, so `BudgetInv` bounds the sends by the count in the row *and* by the count
  in the worker's copy: before the sender's own write the two agree, after it neither is
  more than `MaxAttempts` behind. It needs that a row has one id (`RowsAreOrdered`), so that
  the worker has one copy at most in flight.
- `OneLiveRun`: `Spec => []SingleLiveRun`, however sends overlap. The invariant
  `OthersAreCrossed` says that a sender between its two statements meets a live row of
  another run only if that row's sender was between them too.

`PhoneExecutor_proofs`, for any finite set of runs (of the same task or not), any tasks,
scripts and disturbances, from the invariant `ExecutorInv`:

- `ExecutorTypeCorrect`; `OneEnd`: `Spec => []OneEndPerRun`. The right to report an end is
  with the current run or with one thread (`OneRight`), and a thread that is through with
  finishCurrentTask leaves nothing to claim (`ThroughIsClosed`); a restart passes the
  right to the recovery, at which point an end has been reported at most as often as the
  phone was restarted (`EndsCounted`).
- `CurrentJournaled`, `BegunAccounted`: `Spec => []CurrentIsJournaled` and
  `Spec => []BegunIsAccounted`. `JournalFollows` holds from the moment the reader has
  written the journal; that a run is not reported as begun before is `BeginningIsNew`.
  That the journal is read and erased in two steps is why the record of a thread's read
  (`other`) is part of `unjournaled`: a run that saves its journal between the two loses it.

`PhoneOutbox_proofs`, for any limits, events and faults:

- `OutboxTypes`; `OutboxStaysBounded`: `Spec => []OutboxIsBounded`; and `KeptEventsStay`:
  `Spec => []KeptUntilSettled`; all for any set of threads and overlaps. An event that is
  not at risk was queued by a call that was alone (`AloneInv`). The invariant `KeptInv` says
  of every such event that was written and is not settled that it is in storage, in the
  array once that is loaded, and in whatever copy any thread is about to put in place of
  either; `PlacesInv` that no two events share a place, so that an event_ack for one does
  not settle another.

`PhoneChannels_proofs`, for any number of connections and faults:

- `ChannelTypes`, from `ChannelsInv`: a thread waits for a connection of the kind it asked
  for.
- `OneMainChannelKept`: `Spec => []OneMainChannel`, inductive with `ChannelsInv`: a second
  channel comes up only in a step that leaves its thread about to close one of the two.

`ServerTables_proofs`, for any number of connections, reporters, heartbeats, times and
restarts:

- `HubTypes`, and `CommandsReachTheNewest`: `HubSpec => []NewestIsReachable`. `QueuesInv`
  ties the contents of the two channels to the phases of the goroutines: a connection
  waits for its registration once it is opened, and for its removal once its goroutine is
  through. So whoever replaces the newest connection was queued behind it, which
  `overtaken` records, and whoever is removed has ended.
- `HeartbeatTypes`, and `BusyStaysVisible`: `HeartbeatSpec => []BusyIsKept`, from
  `BusyInv`: the entry belongs to the reporter that was heard to be running, shows it, and
  is recent; messages on their way carry the name of their own reporter.
- `UnwrittenStaysMarked`: `HeartbeatSpec => []UnwrittenIsMarked`, from `FlushInv`, which
  says for every stage of the flush what the row holds: behind means newer and marked;
  after the write the row is the newest unless an update came in between.
- `MissedTimesRunOnce`: `CronSpec => []ExecutedOnce`, for every policy and window. The
  inductive invariant `TimesAreFresh` (until a write of next_run_at is lost) says which
  times were not executed: those ahead of the clock, those a callback is about to
  execute, those `next_run_at` stands for except between execution and `persistNextRun`,
  and those the cron library will call for.
- `OneExecutionPerLife`: what is left when writes of next_run_at are lost: a time is executed
  at most once between two restarts. `CronTypes` needs it, since the type says how often a
  time can be executed.

`Periphery_proofs`, for every value of the bounds of each part:

- `TypeCorrect`, and `OneInstanceServes`: `Spec => []OneInstance` of `RuntimeLease`, for any
  set of instances. `OneInstance` says nothing of a lease that is written and not yet
  verified; the inductive `LeaseInv` says that, until the window is hit, the holder owns the
  record (`HolderOwns`), whoever is about to write is alone (`WriterAlone`), and every
  running instance has its timer.
- `LogEntriesAreSent`: `Log!Spec => []LogsAreSent`. `LogInv`: what has passed sendWS was
  sent, and until a race there is one flush, whose batch is still the front of the queue,
  so that removing by number removes those entries.
- `QuotaIsKept`: `Loop!Spec => []QuotaKept`. Visits are tallied twice, against the count
  in storage and against the count of the running script (`StoredTallies`,
  `CountedTallies`): a failing write lets the first fall behind, a restart sets the second
  back to the first, and neither is inductive without the other.
- `LengthsSurvive`: for every length below 128^4, the reader's decoding of the writer's four
  bytes is the length itself, or a refusal above 2 MB. TLC sees the lengths of the run.
- `AllTypes`: `PeripherySpec => []TypesOK`. A behaviour of the composition is a behaviour of
  each part (`EachPart`), so each part's own invariant carries over. In `MqttLink` that
  whoever writes holds the lock needs that no step returns to a write but that of the
  lock (`LinkThreads`).

The assumptions are those the modules name: `CommandsAssumption`, `BoundsAssumption`,
`DevicesAssumption`, `RequestsAssumption`, `InstancesAssumption`, those of the phone's three
modules, and one for each part of `MCPeriphery`, which states them so that TLC evaluates
them there. They say that bounds are natural numbers, sets of names are finite where
something is counted, and limits are at least what the code needs to move at all (a
batch, a window and the attempts of a QoS 1 command are at least one; the code has
`mqttQoS1MaxAttempts = 3`, mqtt.go:25).

Every safety property of the passing runs is stated by a theorem. Only model-checked: all
liveness (`LiveRowSettles`, `QueuedAckIsConfirmed`, `RunningRowEnds`, `KeptEventsSettle`,
`BegunRunEnds`, `StaysOnline` and the eight of `periphery`), which is out of the
prover's reach, as is ENABLED.

## 6. What is left out

In `CommandDelivery`: batching of device ids (a loop over the modelled send); the
limit of 20 events per flush (one command queues one ack; `PhoneOutbox` has it); commands
without a cmd_id, which bypass the table; the branches of `attemptCommandDelivery` that
are unreachable with the table enabled; acks with `ok = false`, which the phone never
sends for a command it has claimed. In `TaskRuns`: the phone's threads and its journal,
of which `PhoneExecutor` has the detail (a restart may report any run that was begun, or
none); time is reduced to "the deadline passes at some point"; one dispatch batch of 100 devices; one operator request at a time
(cron, worker, watchdog and phones run beside it); failing statements of the task
handlers; a crash of the server (`CronRecovery`).

On the phone: pause and resume, the guard of the settings page and a failing doHome in
stopLocalBusiness (`PhoneExecutor`); what a visit taps (`AutomationLoop`); fields of
packets and the text of messages everywhere. In the two runs of `PhoneExecutor` the tasks
differ; two runs of the same task are the instance `SameTask` of section 4, and the theorems
cover both.

Not modelled at all: the external MQTT client (third party); byte budgets of the
database and media queues, screenshots; device identity and quota; client releases;
resources; CRUD and reporting handlers over single statements; the forms of the console;
deployment scripts; parsing of packets and messages. `client/easyclick/libs` is a vendored
interface of the EasyClick runtime and holds most of the JavaScript of the repository: the
modules describe only what the agent uses of it.

## 7. Plan

Done: sections 2 to 5. Next, most important first:

1. Proofs: `TaskRuns` as an implementation of an abstract account of a task's rounds, and
   `PhoneExecutor` of the phone that `TaskRuns` assumes; the hub's
   table with several devices.
2. `AutoRegistration`: the quota counted and the device created in separate statements
   (device_auth.go:207).
3. `ClientRelease`: activation and rollback, at most one active release of a channel
   (client_update.go:91), and the phone's update (main.js).
4. `ResourceStore` and the queue budgets: file and row consistent after a failure
   (resource.go:194), bytes given back on every path (websocket.go:611, :767).
5. The ordered stop of the hub (websocket.go:637) and the crash of the server in
   `TaskRuns`.
