# Verification of VM-Harness

VM-Harness creates, runs and watches virtual machines and containers: a PyQt5
desktop program, a command line, a REST API, a streaming bridge and an MCP
server over the same back ends. This directory holds TLA+ models of the parts
whose correctness depends on the order in which things happen, the TLC runs
that check them on small instances, and proofs that TLAPS checks for every
value of the constants.

`src/` below is the root of the repository; the Python package `vm_harness` is
`src/src/vm_harness`. `PROJECT.json` lists components, runs, mutants, findings,
hazards and theorems, and maps every definition to the lines it translates.

To repeat a run: `tlc -config MCServer.cfg MCServer`.
To repeat a proof: `tlapm QEMULifecycleProofs.tla`.

## 1. The system

### Components and their state

| part | state it keeps | what is hard | what makes it correct | module |
|---|---|---|---|---|
| `gui/resilience.py` `AtomicState` | map of VM states; state file, temporary file, write-ahead log | crashes between any two file operations; errors swallowed; `recover()` takes no lock | a save that returned is never lost; the lock is released | `AtomicState` implements `DurableMap` |
| `gui/process_guardian.py` | a primary, backups, restart times, a running flag | a monitor thread beside callers, without a lock | a dead primary is replaced; after `stop()` only what slipped past it runs | `ProcessGuardian` |
| `gui/snapshot_scheduler.py` | schedules, what is due, snapshots by name | retention knows age and owner only from names; `qemu-img` may fail at each step | the last N snapshots of a schedule are kept | `SnapshotScheduler` |
| `gui/multi_vm.py` | configurations and their files, processes, ports | the manager dies and knows its QEMUs no more; imports, refusals; callers write statuses; two managers live over one directory | of one manager: ports differ, no process is lost, the status it sets is true | `MultiVMManager` |
| `gui/multi_vm_qmp_bridge.py` | bridge per VM or a placeholder, mode, active VM | loops stopped before they run; switches | a loop that runs is one the table knows | `MultiVMBridge` |
| `gui/metrics_store.py` | three tables of samples | cutoffs used twice; late samples | a sample is counted once; a history has its samples | `MetricsStore` |
| `gui/qmp_bridge.py` `QMPBridge` | one client, three flags | every call runs a retry loop of its own over shared state | the flag tells the truth; calls end; a connection comes back | `QMPBridge` |
| `qmp_client.py` `QMPClient` | one socket, a connected flag | replies carry no identity; events and late replies share the stream; several tasks | a reply belongs to its command; handshake first; reads end | `QMPChannel` |
| `hypervisor/qemu/backend.py` `QEMUBackend` | a process, a client and a port per VM name | every wait lets other calls in; guests exit on their own; the server restarts | no running process is forgotten or doubled; a client belongs to its VM | `QEMULifecycle` |
| `streaming_bridge.py` `StreamingBridge` | registry of clients by id, latest frame | the loop is suspended inside its walk; ids are chosen by clients | connected clients are registered and get frames | `StreamBroadcast` |
| `continuum/manager.py` | routes per node, their connections, a lock | the lock is taken by some and not by others; every close may wait | an open connection has an owner; `connect()` gives a live one; shutdown ends | `ContinuumRoutes` |
| `api_server.py` `APIKeyRegistry` | secret to metadata, key id to secret | two dictionaries changed in several ways | the id shown can be revoked | `APIKeyRegistry` |
| `security/credentials.py` | entries and secrets, in memory and in two kinds of files | kills and failed writes between the files; a cache | a retired secret stays refused, the last one given out works | `CredentialStore` |
| `container/kubernetes/watcher.py` | tasks by watch id | a clean-up by id; streams that block the loop; tasks that never begin | a watch that runs can be stopped; stopping ends | `KubeWatcher` |
| `api/middleware/rate_limit.py` | a bucket per caller | filled when looked at, by overlapping requests | nobody gets more than burst and rate allow | `RateLimit` |
| alert rules, VM cloner, audit logs, load balancer, discovery, second write-ahead log, SSH keys | lists and files changed by one thread | sequential mistakes | | not modelled (section 6) |
| REST routes, MCP server, other hypervisors, containers, SSH, transports | little or none between calls | I/O | | not modelled |
| GUI panels, Android, web, build, CI | presentation; clients | | | not modelled |

### How they interact

* API handlers, GUI panels and MCP tools call a **back end** from tasks of one
  event loop. `QEMUBackend` starts QEMU with `Popen`, keeps the process under
  the VM's name, and opens a **QMPClient** to the port in the VM's file. A
  request passes the **rate limit** and the **key registry** or the
  **credentials** before its handler runs.
* The desktop program does not go through the back end to talk to a running VM:
  its **QMPBridge** owns a thread with a loop; the GUI thread posts calls with
  `run_coroutine_threadsafe`; results come back as Qt signals. A main-window
  timer reconnects, a panel timer polls. `headless_server.py` uses the
  **VM manager** and one bridge per VM (`multi_vm_qmp_bridge.py`).
* Qt timers run the **snapshot scheduler** and the **metrics store**'s thinning;
  samples are taken by another timer.
* **QEMU** serves one monitor connection at a time and sends events on it.
* Phones and browsers open WebSockets to the **StreamingBridge**, whose capture
  thread leaves the newest frame for the broadcast loop.
* The **Continuum manager** is asked for connections by tasks of one event loop;
  a clean-up task and `shutdown()` share its table.
* `AtomicState` is written by threads of the process that owns VM states, and
  repaired by health check and crash handler; the classes of `resilience.py` are
  exercised by the tests, the application does not start them yet.

### What is hard

Interleavings of tasks at every `await` (back end, client, bridges, routes,
registry, watches), a second thread (guardian, savers, bridge loops), crashes
and failed writes between file operations (`AtomicState`, credentials, VM
files), QEMU dying or answering late (client, back end, bridges), and state
that is checked before a wait and used after it. `PROJECT.json`, "hazards",
lists them at their lines, each with the properties that watch it.

## 2. The modules

Each component has a module `X` (state, actions, properties). An action is one
uninterrupted piece of code: up to the next `await` that can really suspend, the
next file operation, or the next step another thread can see. Definitions whose
comment begins with "Fault" are wrong variants of an action, used only to check
that a property notices them; no specification uses them.

**Sums.** Components of one program that share no state are checked side by side
in one TLC run: `MCDesktop` (state, guardian, snapshots, manager, bridge table,
metrics), `MCServer` (QMP client, streaming, keys, credentials, watches, rates),
`MCConnections` (QMP bridge, routes). A variable `part` says which component a
behaviour runs; the others keep their initial state, so that the state space is
the sum of the components' and not their product. Nothing is lost by this: no
action reads another component's variables. Each action of a component is a
disjunct of the sum's next-state relation, and the sum's specification assumes
each component's own fairness. The proofs are about the components themselves;
`DesktopParts`, `ServerParts` and `ConnectionsParts` prove that a behaviour of a
sum is one of each component, and carry every theorem over to the sums.

### AtomicState (and DurableMap)

A `VMState` is a version number; the n-th save of a name writes version n. The
log is a sequence of good, cut-short ("torn") and run-together ("glued") lines.
`Save, AppendWal, UpdateMemory, WriteTmp, Rename, ClearWal, SaveReturns` are the
steps of `save()` and `_commit()` in their order; `AppendFails` raises to the
caller and releases the lock, `CommitFails` is swallowed as in the code.
`Recover, ReadFile, ReplayWal, UnlinkWal` and a commit are `recover()`, which
does not take the lock. `Crash` may fall anywhere, also inside an append;
`Restart` is `__init__` and `_load()`. `Checksum` keeps the one thing about the
hash that matters: it covers the checksum field itself.

`DurableMap` says what callers rely on: a returned save is durable, an
unreturned one may or may not be seen after a restart.

Simplifications: writing the temporary file is one step (a half-written one is
never renamed, since only the writer renames, and is never read); a log line
that lacks only its newline counts as cut short.

### ProcessGuardian

The module begins after `start()`. The monitor's loop is `Test` (of `_running`),
`Poll` (of the process), and `_handle_crash()` as `GiveUp`, `PromoteBackup` then
`StartSpare`, or `RestartPrimary`. `stop()` and `restart_primary()` kill the
primary in two steps, `Terminate` and then `Forget` or `WaitExpires`, between
which the monitor may install another process. `KillBackup`, `ClearBackups` walk
the list by position as the code does, beside a monitor that changes it.
A process is put into `slipped` by the step that takes it out of `stop()`'s reach:
it was installed behind `stop()` (lines 87, 189, 203), it was a primary that still
ran when another took its place or a call forgot it (87, 125, 189), the list moved
up under the walk (188), or `kill()` raised and `stop()` ended there (124). Mere
concurrency puts nothing there. Left out: a second `start()`, which would run two
monitors.

### SnapshotScheduler

`IntervalTimer`, `PollVM` and `TriggerManual` find what is due; `Execute` makes
one snapshot and enforces retention; `Surplus` is what the retention is about to
delete, and `Leaves` what is left of it: everything when the list fails (lines
103-120) or does not show the schedule's own snapshots, what cannot be deleted when
deletions fail (line 386). `ExecuteFails` is a creation that fails, or one that
`qemu-img` finishes after it was given up. `behind` records the schedules whose last
retention was not carried through. `TriggerManual` runs disabled schedules too.
`Matches` and `Rank` are all that the code knows from a name: whose prefix it has
(its own, unless there is a space in it) and where it sorts. `TimeSetBack` is the
end of summer time. Left out: the file of schedules, `update_schedule()` of other
fields than `enabled`, two schedules of one name, more than one disk.

### MultiVMManager

A configuration is a port and a status, in memory and in its file. `Allocates`
is the walk to the next free port; `AddRefused` spends a port. `StartVM`,
`StopVM`, `RemoveVM`, `IsRunning`, `PauseVM`, `ResumeVM`, `PollStatus` and
`ImportVM` are the calls; `RestartManager` is the death of the manager between
two calls or inside a write, and the next one loading the files. `UpdateVM` is
`update_vm()`, whose caller may write any status, and any port of a VM that is not
in `_running`. `fresh` and `told` remember where a port and a status came from:
`fresh` holds the VMs whose port this manager has allocated and nobody changed,
`told` those whose status a file or a caller brought and the manager has not set
since.

The desktop program has two managers alive over one directory, in the dashboard
(`panels_multi_vm_dashboard.py:177`) and in the switcher (`panels_vm_switcher.py:36`).
The module is one of them. Of the other it has what the first can meet: files
written or deleted (`OtherSaves`) and processes listening on ports (`OtherStarts`).
Its properties are each of one manager: two managers do give out the same port, and
each may run the same VM.

### MultiVMBridge

A bridge's loop is "ready" (its thread has said so), then "entered". `stop()`
ends an entered loop and misses a ready one (`StopAllOf`, `stray`). `AddStarted`
and `AddLazily` are `add_vm()` in the two modes, `SwitchOver`,
`SwitchReference`, `AddAndSwitch` are `switch_to_vm()`, which in switch mode
makes a bridge only if the caller knows the URI, for none was stored. Left out:
what one bridge does with its client (`QMPBridge`'s subject).

### MetricsStore

Samples and rows with the time their bucket begins. `Downsample` is the one
transaction of `downsample()`: both copies and all deletions with their cutoffs.
`History` is `get_history()`: one table, chosen by the window. Averages are left
out; what a row is made of (`of`) determines them.

### QMPChannel

Commands are numbered as they are written; a line of the stream is the
greeting, an event or the reply to a number. `Open, TakeGreeting, Negotiate`
are `connect()`, `Send` writes, `TakeReply` takes the *next* line whatever it is,
`Wait` is the `StreamReader`'s single waiter (a second task raises after it has
written), `Timeout` leaves the reply behind, `Disconnect`/`Disconnected` close.
`Greet, Answer, EmitEvent, QemuExits` are QEMU as far as the client sees it.

### QEMULifecycle

`Create, Destroy, Start` never suspend before the process runs, because
`_create_disk`, `find_vm` and `_load_vm_config` contain no real wait, so each is
one action; `start_vm()` then polls for QMP (`Poll`, `Connect`, `ConnectFails`)
until a `Deadline`. `Stop`, `StopForced`, `Query` with `PowerdownAnswered`,
`PowerdownFails`, `QueryEnds`, `Closed` are the waits of the other calls; `Reap`
is the poll of a status query. Pause, resume, reset, shutdown and status differ
only in the command and share `Query`. `Bind` and `Exit` are QEMU's,
`Restart` ends the server and forgets everything but the VM's files. A client
is the process it was connected to: that is what can be stale.

Left out: half-open monitor connections after a greeting timeout, VMs created
with an explicit port, snapshots, disks, screenshots, migration. With
`Slow = TRUE` any deadline may pass; with `FALSE` no wait reaches its deadline
while a process of the VM is alive.

### StreamBroadcast

`Connect` registers a session under the id in its request; `HandlerEnds` removes
that *id*. The loop is `BeginRound`, one `Visit` per entry which may suspend
(until `Drained`), and the clean-up by id in `RoundEnds`; `RoundAborted` is the
walk that finds the registry at another size and gives the round up, with its
list of broken clients. `Stop` clears `running`, which ends the loop after its
round, and closes the sessions registered then one after another (`CloseOne`). Left out: picture settings, input injection, pace, docker
terminals (they touch neither registry nor loop), and the case in which
CPython's dict compaction makes a walk skip an entry for one round.

### QMPBridge

Calls are slots; each that needs a client runs its own `_get_client()` loop:
`Attempt` (a new client replaces `self._client` at once), `OpenSucceeds` /
`OpenFails`, `Shaken` / `ShakeRaises` / `ShakeFails`, `BackoffEnds`. Commands are
`Send`/`SendEnds`; `disconnect()` sets a flag in the GUI thread (`Disconnect`) and
closes later in the loop (`DisconnectRuns`, `Closed`). `conn[c].ahead` are the open
connections QEMU accepted earlier: it serves a connection when none is ahead.
`Become` says which clients are still referred to; the others are collected,
which closes their sockets (CPython 3.11.5 and later; with older versions,
which `pyproject.toml` allows, they stay open and QEMU goes on serving them,
`qmp_bridge.py:179`: not modelled). `overlap` records that two calls connected or
disconnected at once. Left out: starting and stopping the bridge's thread
(`stop()` is called nowhere), signals, the length of waits.

### ContinuumRoutes

The asyncio lock is its holder and its queue; a release hands it to the first
that waits. `connect()` is `BeginConnect`, `Establish` or `EstablishFails`, the
wait for the lock, `Install` and, when an old route is in the way, `OldClosed`.
`send_to()` goes on through `Reinstall` (the second store of the same connection
by `_reconnect_route()`), `SendDone` or `SendFails` and `Drop`.
`DisconnectNode` takes no lock. `CleanUp` .. `StaleClosed` are the clean-up
round, `CancelCleaner`, `Shutdown` .. `RouteShut` are `shutdown()`. `dropped`
holds the connections taken out of the table without being closed. Which
routes are stale is left open: any may be. Left out: the failover of degraded
routes (nothing marks a route DEGRADED), `recv_from()`, streams.

### APIKeyRegistry, CredentialStore, RateLimit

In `APIKeyRegistry` no handler waits, so each call is an action; a token may be
presented again until it expires, and `RevokeMachine` leaves `_by_id` as it was,
as the code does. In `CredentialStore` a call changes memory first
(`CreateKey, RotateKey, RevokeCredential`), then writes the secret's file and
credentials.json (`WriteSecret, WriteIndex`, each of which may fail unnoticed)
and returns; `Killed` may fall anywhere and cut a write short; `Validate` is the
reading of files into the cache. `retired` and `shown` remember what callers
were told. In `RateLimit` tokens are counted in the unit one tick adds `Rate`
of; `Respond` fills the bucket once more, for the header; `CountFrom` lets the
count begin at any moment, so that the bound is one about every interval.

### KubeWatcher

A watch is a task: new, opening (the executor makes the generator), streaming,
over. While one streams the event loop is stuck (`Stuck`), as the loop over the
events has no `await`. `CleanUpWatch` removes the entry of its id, whosever it
is (`robbed`). A watch of an unknown type raises before its `try`, and a task
cancelled before its first step never begins (`NeverBegins`).

### How the modules fit

`QMPChannel` is one client over one connection, in detail. `QEMULifecycle` and
`QMPBridge` take from it only what it shows about the connected flag (nothing but
`disconnect()` resets it) and add many clients, processes and ports.
`MultiVMBridge` takes a bridge as a loop that runs or not. `DurableMap` is the
abstract specification that `AtomicState` implements.

## 3. What TLC checks

| run | instance | result |
|---|---|---|
| `state_crash` | `AtomicState`: 2 names, 2 savers, 3 versions, 3 crashes, sound disk; names and savers symmetric | `AckedDurable`: no crash point loses an acknowledged save or replays an old line over it; `RefinesDurableMap` |
| `desktop` | `MCDesktop`: six components | State: `FirstCrashSafe` (a swallowed commit error is made up for by the log until the next death, unless lines were glued or `recover()` ran), `LockReleased`. Guardian: `OnlySlippedRemain`, `PrimaryReplaced`. Snapshots: `KeepsLastApart`. Manager: `FreshPortsApart`, `LaunchedTracked`, `StatusBacked`. Bridges: `LoopsOwned`. Metrics: `SampleOnce` |
| `server` | `MCServer`: six components | QMP client: `OrderlyReplies`, `OrderlyHandshake` until an event, a timeout or a second sender, `NeverResyncs` (after that the client never recovers by itself), `ReadEnds`. Streaming: `NoGhost`, `KeptRegistered`, `FrameReaches`. Keys: `ShownIdRevokes`. Credentials: `RetiredRefused`, `ShownOpens`. Watches: `WatchListed`, `StopReturns`. Rates: `WindowBounded` |
| `connections` | `MCConnections`: two components | QMP bridge: `InStep`, `CallsEnd`, `Settles`. Continuum: `RouteOwned`, `ConnectGivesLive`, `ShutdownEnds` |
| `vm_safe` | `QEMULifecycle`: 2 VMs, 2 tasks, 2 processes, 2 ports, slow QEMU, 1 restart | `NoOrphan`, `OwnClient`, `DestroyStopped`, `StartEnds` |
| `state_recover` | 2 names, a saver, a recoverer | **violated** `RecoverKeepsAcked`: every saved state looks corrupted, and `recover()` beside a save loses an acknowledged state |
| `qmp_timeout` | 1 task | **violated** `ReplyMatches`: after a timeout every reply is the one before |
| `vm_twice` | 1 VM, 1 task, slow QEMU | **violated** `OneProcess`: a start that gave up leaves its process running; the next start runs a second one on the same disk |
| `vm_graceful` | 1 VM, 1 task, prompt QEMU | **violated** `GracefulFirst`: after a guest shut itself down, the stop of its next process kills it without a powerdown |
| `stream_phones` | 3 sessions, two with one id | **violated** `ConnectedRegistered`: a second phone takes the first one's frames |
| `bridge_drop` | 1 call, 2 clients | **violated** `Reconnects`: after QEMU died the bridge hands out the dead client for ever |
| `metrics_history` | `MetricsStore` | **violated** `HistoryCovers`: a sample just taken is in no history longer than a day |

Every property of a run that passes has a mutant in `PROJECT.json`: a variant of
an action with a plausible mistake, under which TLC finds the property violated.

Several properties carry a condition, and say nothing of what it exempts:

* `slipped`, `robbed`, `dropped`, `stray`, `lost` name one process, watch, connection
  or loop each. They are set by the step that does the harm, to the thing that is
  harmed, so that the property says this is the *only* way to the bad state. It does
  not say that the harm never happens: the code does nothing against it.
* `told`, `fresh` and `restarts = 0` tell what the code itself has done from what it
  was told by files, callers and earlier processes.
* `overlap` (QMP bridge) is set whenever two calls connect or disconnect at the same
  time, whether harm follows or not. `InStep` and `Settles` therefore say nothing of
  overlapping calls, nor of a try in flight at a `disconnect()`; `CallsEnd` does.
* `Apart` and `backs = 0` (snapshots) and `damaged` (credentials) are
  preconditions on names, the clock and the disk.

Where such a condition exempts all of a hazard, `PROJECT.json` lists the hazard
without a property and says so.

### Bounds, and why they are enough

* Two names, VMs, ids or nodes, two tasks: the code's per-name state is never
  related to a third name, and every wait is between a task and one other that
  changes what it read. The proofs remove these bounds for the safety properties.
* State: a crash, a save after it and a second crash before anything is
  committed need two of each; `state_crash` has one more. In `desktop` there is one
  name, since a failing disk does not relate names except through the log's order;
  2 savers, a recoverer, 2 versions, 2 crashes.
* Guardian: `Backups = 1`, `MaxRestarts = 2`, `MaxProcs = 4`: a promotion, a spare, a
  restart without a backup, and the budget used up.
* Snapshots: an interval schedule and an on-stop one, `Keep = 1`, three snapshots,
  any creation, list or deletion failing, one step of the clock and one set-back: two snapshots in one second, in order,
  and out of order. A third name, whose prefix is another's, is only in the
  documented divergence (section 5), which `Apart` leaves out.
* Manager: 2 VMs, 2 ports, 2 launches, 2 managers in turn and `MaxOutside = 1`, one
  call of `update_vm()` or step of the other live manager: a process left behind or
  not ours and the one started beside it, a status or a port written by a caller. Bridges: 2 machines, 3 bridges: two and a replacement.
* Metrics: buckets 2 and 4, windows 3, 6 and 8, clock 14, three samples up to one
  tick late: windows that are no multiple of a bucket, samples at every edge,
  rows that pass through two tables in one run and the end of the last window.
* QMP client: `MaxCmd = 3`: the handshake's command, one whose reply is late and
  one that takes it. `MaxEvents = 1`: one line too many shifts all later replies.
* Streaming: 3 sessions, two of them with one id. Keys: 3 secrets on 2 machines, 4
  ids: a secret paired twice, its machine revoked, and another. Credentials: 2
  keys, 3 secrets (one rotation), 2 mishaps: a failed write and a kill. Watches: 2
  ids, 2 callers, 2 watches: one being stopped and its successor. Rates: 2 callers,
  `Rate 1`, `Burst 3`, `Cost 2`: a burst that is no multiple of the cost.
* QMP bridge: 2 calls, 3 clients (one per call and the one in `self._client`;
  identities are reused, so the number of connections is not bounded), 2
  attempts, 2 starts of QEMU, 1 missed deadline, 1 disconnect. Continuum: 2 nodes,
  2 clients beside the clean-up and `shutdown()`, 2 connections (an old route and
  its replacement), one attempt and one send each.
* Back end: `MaxProc = 2`, `MaxPort = 2`, `MaxRestart = 1`: a process that is
  forgotten and a second one; two ports so that VMs have different ones, and a
  restart that gives one out twice.

### Deadlock

`bridge_drop` checks for deadlock. In the other models the system may really
stop: bounded saves, commands, processes, samples, keys, watches and connections
are used up, threads return, and QEMU need not do anything; there
`CHECK_DEADLOCK FALSE` is set and the liveness properties say what must not get
stuck.

### Fairness

* `AtomicState`: a thread inside `save()` or `recover()` waits for nothing, so it
  runs on. Beginning a save, crashing and restarting are not fair.
* `ProcessGuardian`: the monitor and the two callers are threads and are
  scheduled; every wait of theirs has a deadline. Strong fairness of the restart
  that succeeds: `Popen` does not raise for ever.
* `QMPChannel`: the event loop runs every task that can run, and read deadlines
  pass. QEMU owes nothing.
* `QEMULifecycle`: tasks run on; QEMU opens its port or exits; the deadline of a
  start comes although connection tries begin and end between (strong fairness:
  the deadline is tested once per try).
* `StreamBroadcast`: the capture thread gets a frame; a suspended send ends (the
  client reads or its connection dies); a dead WebSocket ends its handler.
* `QMPBridge`: tasks run on; the main window's reconnect timer
  (`main_window.py:954`) and a panel's poll (`panels_telemetry.py:746`) fire for
  ever. QEMU is not obliged to start or to stay.
* `KubeWatcher`: the event loop runs every task that is ready; a stream need not
  end, and `StopReturns` allows for one that does not.
* `ContinuumRoutes`: probes and attempts have deadlines, a send or a close ends or
  raises, so each step of a call, of the clean-up and of `shutdown()` comes;
  beginning a call, or a round of the clean-up, is not fair.

## 4. What is proved

All proofs hold for any sets of threads, tasks, calls, VMs, nodes, people and
sessions, and any bounds, that satisfy the named `ASSUME`s of each module (some
sets are assumed finite, because the model counts them).

| module | theorem | argument |
|---|---|---|
| `AtomicStateProofs` | `TypeCorrect` | typing with `PlacesOK` |
| | `AckedNeverLost`: `AckedDurable` always, if the disk works and nobody calls `recover()` | invariant below |
| | `FirstCrashLosesNothing`: `FirstCrashSafe` always, on any disk and beside any `recover()` | `CrashInv`, below |
| | `ImplementsDurableMap`: `RefinesDurableMap`, if the disk works and nobody calls `recover()` | the two invariants above and `NotAhead`; `MapStep` maps every step to one of `DurableMap` or to none |
| `QMPChannelProofs` | `ChannelType` | typing |
| | `RepliesMatch`, `HandshakeFirst` | while undisturbed, commands, stream and reader together hold at most one line (`OneLine`) |
| | `SurplusStays`: `NeverResyncs` | each step's change of lines and of reading tasks, counted; `WaiterWaits`: whoever is woken was waiting, so that an arriving line adds no reader |
| `QEMULifecycleProofs` | `LifecycleType`, `ClientsAreOwn` | `FiledInv`, `PortInv`: ports of VMs differ until a restart, and a client was opened to the port of its name |
| | `NothingOrphaned`, `DestroysStopped` | a live process is tracked or lost; only the tracked one is removed, and only when dead or killed |
| | `OneProcessInTime`: no second QEMU of a VM, if no deadline passes while QEMU lives and until the server restarts | `NoneLost`: nothing else loses a process |
| `QMPBridgeProofs` | `BridgeType`, `ConnectedIsTrue` | `HoldsClient, OneAtATime, OwnTry` |
| `DesktopProofs` | `ManagerType`, `PortsAreApart`, `NoneIsLost`, `StatusIsBacked` | `ManagerInv`: shapes, ports handed out lie behind the next one to try, launches are numbered in order |
| | `TableType`, `LoopsAreOwned` | `TableInv`: an entry is a bridge that was made, no two entries hold one bridge, a running loop has an entry |
| `UpkeepProofs` | `GuardianType`, `StopReachesTheRest` | `ReachInv`: every process that runs and has not slipped is the primary before `stop()` has dealt with it, or a backup the walk has still to meet |
| | `SnapshotType`, `LastAreKept` | `SnapInv`, below |
| | `MetricsType`, `SamplesCountOnce` | `MetricsInv`, below |
| | `DesktopType`, `DesktopSafe`: all of the desktop program's invariants, of `DesktopSpec` | `DesktopParts` |
| `ServerProofs` | `StreamType`, `NobodyIsAGhost`, `OwnIdIsKept` | `Owned, Accepted, BrokenGone, KeptRegistered` |
| | `DistinctIdsConnected`: `ConnectedRegistered`, if no two sessions have one id | from `OwnIdIsKept` |
| | `APIKeyType`, `ShownIdIsRevocable` | `RegistryInv`: ids are used once, and an id in the metadata leads back to its secret |
| | `StoreType`, `RetiredStaysRefused`, `ShownStaysOpen` | `StoreInv`, `Agree`, `Settled`, below |
| | `RateType`, `AdmittedBounded` | `Balance`: what was admitted and what the bucket holds are together at most a full bucket and what was added since |
| | `KubeType`, `WatchesAreListed` | `WatchInv`: a task that was made is the last of its id, is cancelled, or was robbed; `AskedInv`: no two ids have one task, so the table is finite and `stop_all()` walks a list of ids |
| | `ServerType`, `ServerSafe`: all of the server's invariants and `NeverResyncs`, of `ServerSpec` | `ServerParts` |
| `ConnectionsProofs` | `RoutesType`, `RoutesAreOwned`, `ConnectedIsLive` | `RoutesInv`, below; `CountInv` |
| | `LockIsServed`: nobody waits for a free lock, who waits stands in line or has been handed it, who holds it has a step to take that releases it | `LineInv`: the line holds who waits, each once, and never the holder |
| | `ConnectionsType`, `ConnectionsSafe`: all of both components' invariants and `ConnectGivesLive`, of `ConnectionsSpec` | `ConnectionsParts` |

Every invariant and every action property of a passing run is stated by one of
these theorems, without fairness and for all values of the constants. Two
theorems bound a disagreement of section 5: `OneProcessInTime` and
`DistinctIdsConnected` say under which condition the promise is kept after all.
`LockIsServed` is the safety half of `ShutdownEnds`: the lock of the routes is
never lost, whatever is cancelled while it waits for it.

Why the invariants are needed:

* `AckedDurable` speaks of what a process started *now* would read. It is not
  inductive: a commit replaces the file by memory, so memory must be at least
  as new (`DiskInv`); the temporary file is renamed one step after it was
  written, so it must be too (`CommitInv`); and a state acknowledged by one
  thread must not be overwritten by an older one of another, which is what the
  lock gives (`LockInv`: who is inside holds it and saves the newest version).
* `FirstCrashSafe` allows commits to fail. A failed one leaves the file behind
  memory; what makes up for it is the line in the log, which stays there until a
  commit has succeeded. `KeptInv` follows that: how far the commit of the thread
  inside `save()` has come, that the temporary file and then the file hold every
  save this process acknowledged, and that what a new process would read has every
  line already written. Lines are read up to the first bad one, so `TornLast`
  (a cut-short line is the last one) is needed too; and `HoldsInv` holds even
  when `recover()` runs, because only a process that never ran it keeps `KeptInv`.
* `RefinesDurableMap` needs that nothing on the disk or in memory is newer than the
  newest save (`NotAhead`): a restart of the map may find an unreturned save, but
  not one that was never begun.
* `OnlySlippedRemain` speaks of the end of `stop()`. Before it, `ReachInv` says which
  processes are left at each of its steps: the walk kills by position, so the
  invariant names the backups at and after `turn`.
* `StatusBacked` goes both ways, and `told` follows a status through imports, files,
  `update_vm()` and `resume_vm()` until the manager sets it itself.
* `KeepsLastApart` needs that serial numbers are used once and grow with time
  (`Counted`, `Growing`), that a file belongs to the schedule that made it
  (`Genuine`), and that, unless the clock went back, names sort as they were made
  (`InTime`). Of two snapshots with one name the older is met first;
  `RetentionKeepsLast` counts, under that order, those before a given one.
* `SampleOnce` needs that each row stands for one bucket and no sample is in two
  rows (`Bucketed`), nor in two tables (`Disjoint`, `Without`). The cutoffs do the
  rest: a raw sample leaves in the step that copies it, a minute's row in the
  step that copies it into its hour, and both are told by where the bucket
  begins. `FloorTwice` is why: the hour of a minute's beginning is the hour of the
  sample.
* `OrderlyReplies` says nothing about lines still under way. The
  strengthening counts them: connection, commands, stream and the reading task
  together hold one answer, for the command that task wrote last.
* `OwnClient` needs that no two VMs have one port, that a call which is connecting
  remembers a process of its own VM, and that a process keeps its port.
* `KeptRegistered` needs that the ids in the list of broken clients belong to a
  session that has really gone, because the clean-up deletes by id later.
* `InStep` needs that, without overlap, at most one call is changing the client
  and that the client it tries is the one in `self._client`.
* `RetiredRefused` needs an account of every place a secret can be in: each secret
  belongs to one key (`OneOwner`) and secrets in files, cache and calls are
  numbered in the order they were made; a retired secret is in no file and no
  cache of a key that still counts, which the steps of the call that retires it
  establish one file at a time (`Progress`), and a secret left in a file belongs
  to a key whose entry is dead (`DeadIfKept`). `ShownOpens` needs that without a lost write
  cache, file and index agree between calls (`Agree`), and how far they are from
  agreeing inside one (`Settled`).
* `RouteOwned` and `ConnectGivesLive` need that whoever closes a route or walks
  the table under the lock really holds it and is the only one to do so
  (`LockHeld`), that the route being closed is still the table's or was removed
  from it (`OldInPlace`), that a connection not yet installed is known to its
  call only (`Private`), that numbers not used yet appear nowhere (`NothingOld`,
  `AllMade`, `NothingMine`), and that the list `shutdown()` made is complete:
  nobody can add to the table while it holds the lock (`ListComplete`).

Each preservation proof has a step per action; the invariants were checked
with TLC before they were proved.

### Only model-checked

* Liveness: `LockReleased`, `ReadEnds`, `StartEnds`, `FrameReaches`, `CallsEnd`,
  `Settles`, `PrimaryReplaced`, `StopReturns`, `ShutdownEnds`. Fairness and
  `ENABLED` are beyond the prover, as is induction over data and anything about
  `RECURSIVE` operators (none is used).
* That the disagreements of section 5 exist: a counterexample is a behaviour, and
  TLC finds it.

## 5. Disagreements found

Seven, each with a run that shows it and the sentence of the repository it
contradicts (`PROJECT.json`, "findings"): a reply after a timeout is taken for
the next one's; a start that gives up leaves a process behind; a graceful stop
of a VM that was started before is not graceful; `recover()` loses acknowledged
states; two phones with one id; a bridge that never reconnects; a history that
lacks its most recent part.

Shown by a condition of a property that passes (drop the condition and TLC finds
the case):

* `snapshot_scheduler.py:6`, "keep last N snapshots per schedule": the snapshots of
  a schedule `a_b` count for a schedule `a` too (line 379), and after the local
  time was set back the newest one is the first to go (`Apart`, `backs`). A list or a
  deletion that fails goes unnoticed (lines 103-120, 386), and more than N stay until
  a later retention succeeds (`behind`); a schedule with a space in its name never
  finds its snapshots in the list, which is split at spaces (lines 114-116).
* `process_guardian.py:68`, "Stop the guardian and all processes.": not those the
  monitor installs or moves while `stop()` runs (`slipped`).
* `multi_vm.py:239`, "auto-allocation to avoid conflicts": imports (line 291) and a
  restart bring ports that collide with those given out; a QEMU that outlives its
  manager, or that the other live manager runs, is started again on the same disk
  (line 459); `update_vm()` writes a status with no process behind it (line 408), and
  `resume_vm()` asks the status only (line 540).
* `multi_vm_qmp_bridge.py:83`: a loop stopped before it is entered runs for ever.
* `credentials.py`: a rotation or revocation whose file writes all fail returns
  success, and the old secret opens the server after a restart (`onDisk`).
* `watcher.py:448`: a watch restarted under its id while the first one stops loses
  its entry and can never be stopped.
* `continuum/manager.py:359, 444, 249`: connections dropped without being closed.

Seen while reading, without a model: `docs/ARCHITECTURE.md:951` marks the append to
the log as the point from which a save survives crashes, although
`resilience.py:217` removes the log after a replay, before anything is committed
(harmless as long as every commit works, as `AckedNeverLost` shows); the docstrings
of `is_connected` (`qmp_client.py:154`) and `_wait_for_qmp` (`backend.py:1064`);
ports given out twice after a restart (`backend.py:116`);
`FailoverManager.trigger_failover()` takes a lock and calls a method that takes it
again (`resilience.py:522`); the hot reloader forgets a change within its debounce
time (`resilience.py:463`) and its first scan is thrown away;
`multi_vm_qmp_bridge.py:364`: adding a placeholder's VM again in switch mode calls
a method of None; `api_server.py:375`: `revoke_by_machine_id()` looks `_by_id` up by
the wrong key and always returns an empty list; `security/audit.py`:
`verify_chain()` cannot succeed, as `to_dict()` omits the previous hash;
`security/pairing.py`: the secret `complete_pairing()` returns is never validated
by anything; `metrics_store.py:353`: late samples give a bucket several rows (line 397 then takes the mean of means
without their counts); `AlertRule.duration_sec` is never used;
`vm_cloner.py:231`: a failed conversion is reported as failed and then as finished
if the partial file exists, and `CloneDialog` calls a worker without its
`disk_format`; `hypervisor/registry.py` registers factories that its own look-up
does not read; `streaming_bridge.py:474`: a session that connects during `stop()`
is not closed; `ssh_client.py:52`: two tools that find no cached connection both
connect, and the first connection is overwritten and never closed (the lock declared
at line 27 is not taken); `continuum/quic.py:402`: a socket made non-blocking is then
read in an executor, so the read raises at once instead of waiting.

## 6. What is not modelled, and why

* Parts whose mistakes are sequential, and named above: VM cloner, alert rules,
  audit logs, plug-ins, settings. Interleaving adds nothing to them.
* `gui/atomic_state.py`: a second write-ahead log that nothing imports and about
  which `AtomicState` asks every question. Hot reloader, failover and health checks:
  started by no program of the repository.
* Load balancer and discovery: a list of connections per node, used only by
  multi-connection streams, whose calls share one counter under one lock (it
  counts the healthy connections and indexes the metrics of all,
  `load_balancer.py:107`), and lists of nodes; routes do not go through either. SSH keys of the credentials.
* I/O layers (transports, SSH, containers, other hypervisors, MCP tools): one call
  is one external program or socket operation, with no state two calls disagree about.
* Cryptography and role checks: pure functions without interleaving.
* Presentation, build, CI, Android, web and Rust clients: what they can do to the
  system is in the models as the environment's actions.
* Of the modelled parts: what section 2 names as left out, and in `QEMUBackend`
  snapshots, disks, screenshots and migration.

The larger part of the repository's lines is of these kinds (widgets, dialogs,
argument lists for external programs, build and CI scripts, clients), and a model
of them would have no state worth checking; so the map covers a small share of
the lines, and most of the lines in which state is shared.

## 7. Plan

Done, in this order: `DurableMap` and `AtomicState`; `QMPChannel`; `QEMULifecycle`;
`StreamBroadcast`; `QMPBridge`; then `ProcessGuardian`, `SnapshotScheduler`,
`MultiVMManager`, `MultiVMBridge`, `APIKeyRegistry`, `KubeWatcher`, `RateLimit`,
`CredentialStore`, `ContinuumRoutes`, `MetricsStore`, with the proofs of section 4.

Then the proofs: every invariant and action property of the passing runs, the
refinement of `DurableMap`, and the theorems about the sums.

Next:

1. Conditions under which the other broken promises hold, as `OneProcessInTime` does
   for `start_vm()`: `GracefulFirst` for a VM whose client is not stale,
   `ReplyMatches` for a connection that never was disturbed.
2. The remaining operations of `QEMUBackend` (snapshots, disks, migration), as
   further cases of `Query`.
