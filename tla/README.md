# TrueSpec agent: TLA+ models, checks and proofs

This directory models the endpoint agent of this repository (Go, `cmd/agent`
and `internal/`) in TLA+, checks small instances with TLC and proves the
properties that matter most with TLAPS for every instance. `PROJECT.json` maps
every definition to the source lines it stands for and lists the components,
runs, mutants, hazards, findings and theorems.

## 1. Inventory

The agent is one process under a service manager. `main` starts `run` in a
goroutine and a tray loop; `run` loads the configuration, bootstraps an identity
with the server, then starts the services (policy, health, scheduler) and waits
for its context. Files on disk are the only thing that survives a process.

### Components

| Part | State it keeps | Operations | Talks to | Hard behaviours | Correct when | Module |
|---|---|---|---|---|---|---|
| Start-up and configuration, `cmd/agent/main.go`, `internal/config` | config file; `*Config` in memory; exit status | `run`, `Load`, `Save`, validations, `MarkBootstrapped` | identity manager, file system, environment, service manager | crash between and inside writes, stop at any step, failed `Save` that is only a warning | what is saved is what runs, no token is saved, every start ends, an attended agent comes up | `AgentLifecycle` |
| Identity and bootstrap, `internal/identity` | certificate, key and CA files; `agentID` | `RunBootstrap`, `saveCertificates`, `NeedsRebootstrap`, `VerifyIdentity`, `RetryWithBackoff` | server, file system | lost replies, retries, mixed files of two identities | a running agent is one identity | `AgentLifecycle` |
| Offline buffer, `internal/buffer` | directory of `batch_<UnixNano>.json`, `currentSize` | `New`, `Write`, `ReadAll`, `Clear`, `Prune` | file system | failing walks, writes, reads, removals; torn files; clock ties; restarts | within the limit; nothing removed that was not sent, except by `Prune`, oldest first | `OfflineBuffer` |
| Telemetry sender, `internal/sender` | `queue`, `mu`, the context | `Send`, `flush`, `sendWithRetry`, `flushBuffer`, the `Start` loop | server, offline buffer, callers | mutex held over retries, cancellation in a back-off, lost replies, half a drain | delivered or kept until the process ends; every call returns | `TelemetrySender`, `TelemetryDelivery` |
| Scheduler, `internal/scheduler` | collectors, `running`, `stopCh`, wait group | `Start`, `Stop`, `AddCollector`, `RemoveCollector`, one job per collector | collectors, main | select with several ready cases, hanging collectors, calls in any order | `Stop` returns, jobs end, listed collectors collect | `Scheduler` |
| Logger, `internal/logging/logger.go` | file, `currentSize`, numbered backups, `mu`, level | `log`, `rotate`, `SetLevel`, `Close` | file system, standard output | rotation cut short or failing, renames whose errors are dropped, re-entrant mutex | calls return, only old lines are deleted unless a rename failed, backups in order | `RotatingLogger` |
| Updater, `internal/updater` | the executable, its `.old` neighbours, the download | `PerformUpdate`, `Rollback` | server, file system, service manager | failing renames, crash between steps, `os.Executable` after a rename | only verified binaries, a runnable copy stays, `Rollback` restores | `Updater` |
| Services and shutdown, steps 11-14 of `run`, signal handler, tray | context, tray loop | `cancel`, `systray.Quit` | all of the above | `main` does not wait for `run`; three ways to ask for the end, at any step | a cancelled agent winds down, a signal ends it, nothing is stopped twice | `AgentServices` |
| Policy engine, `internal/policy` | pointer to the current policy, RW mutex | `Refresh`, `Get`, `IsCollectorEnabled`, `GetCollectorInterval` | server | fetch without the context, answers older than what is published | the policy the server settles on arrives | `PolicyEngine` |
| Health monitor, `internal/health` | `stopCh`, ticker | `Start`, `Stop`, `sendHeartbeat` | server | two ways to stop, a second `Stop`, an interval of zero | the loop ends, no panic | `HealthMonitor` |
| Audit log, `internal/logging/audit.go` | append-only file, mutex | `LogEvent` and its wrappers, `Close` | file system | writes that fail or stop short, failing syncs, power loss, closed file | an event that returned nil stays, events are in order | `AuditLog` |
| Windows service, `internal/service/windows.go` | service state, `stopCh` | `Execute`, install, uninstall, start | service manager | pause and stop in any order, a state that is old when used | what is removed stays down, install works again after a failure | `ServiceControl` |
| Linux and macOS service, `internal/service` | the unit or plist, what the manager knows | install, uninstall, start, stop | `systemctl`, `launchctl` | sequences of calls whose errors are partly dropped, reboots in between | the same | `ServiceControl` |
| File collector, `internal/collectors/fs` | none | `ScanOS`, `Move`, `BuildFSTree` | file system, a reader | reader gone, copy cut short | `Move` keeps a copy | - |
| Process operations, `internal/collectors/processes` | none | `Start`, `Stop`, `Kill`, `Restart` | OS | pid reuse, ignored failures | the process asked for is meant | - |
| Metric collectors | none | `Collect` | OS | may hang | - | in `Scheduler`, as calls that end, fail or hang |

`internal/search` is an empty package. `pkg/api` (generated interfaces),
`tests/`, `scripts/`, `installers/` and `docs/` hold no logic of the agent.

Not wired together: nothing in the repository calls `NewSender`, `NewUpdater`,
`NewLogger`, `NewAuditLogger`, `internal/service` or the file and process operations; the collectors' data is only
logged (`scheduler.go:127`), and the scheduler is given the policy engine but asks it nothing. Each of these parts is modelled with the callers its
API allows, named in its section below.

## 2. How the modules correspond to the code

Every module has one action per handler, operation or step; `PROJECT.json`
names the lines. Operators marked "Mutant" are not part of a specification: each
is a plausible bug of the definition that follows, and replacing that definition
by it makes a run report the property it is there for.

**OfflineBuffer.** `files` is the directory (time stamp of the name to batch and
number of bytes that arrived), `currentSize` the counter. Each operation runs
under `Buffer.mu`, so it is one action; a crash inside `Write` or inside the
removal loops of `Clear` and `Prune` is an action of its own. A file whose bytes
did not all arrive does not parse. A `Write` may read the clock value of the last
one again (coarse clocks), a new process never does.

**TelemetrySender** drives the buffer through `Disk == INSTANCE OfflineBuffer`.
`mu` and `step` say who holds `Sender.mu` and where its flush is: `sending` and
`backoff` (`sendWithRetry`), `buffering` (`BufferWrite`), `reading` and
`draining` (`flushBuffer`). The server may take a batch although the agent sees
an error. The queue holds one element per data point; points stand for the
telemetry batches that `Send` appends.

**TelemetryDelivery** is what the sender promises: a point handed to `Send` is
delivered, maybe more than once, and is given up only when the process ends.
`KeepsDeliveryPromise` is the refinement.

**AgentLifecycle.** `disk` is the four files, `pc` the step of `run` (`load` to
`running`), the names of the files standing for the writes. An identity is one
model value: what one reply of the server contains, and `missing` the fields that the
reply lacks: one of the three PEM texts, the agent_id, or all. `again` tells the bootstrap
of step 9 from the one of step 4. Only the fields of the configuration that the
control depends on are kept (bootstrapped, agent_id, install_token with org_id).

**Scheduler.** `jobs` is the sequence of goroutines that were started, each with
its context and where it is in its loop; `stopping` is a `Stop` that waits with
the mutex. Ticks may come at any moment.

**RotatingLogger.** `disk[0]` is the log, `disk[n]` the backup `.n`, each a set of
numbered lines; lines have the size 1. A goroutine that waits for the mutex it
holds is `stuck`. A rotation is one step that takes the set of files whose rename fails: each of
these stays where it is, the next one is renamed over it (`Moved`, `Renamed`), and a log that
stays is opened again and counted from 0. `replaced` and `uncounted` remember the lines this costs
or leaves out of the count; no guard reads them.

**Updater.** Path 0 is what the service manager starts, path n + 1 is path n with
`.old` behind it. A binary is its version, whether it matches its checksum and
whether it is executable. The three systems differ in what `os.Executable`
returns after the running file was renamed and in what may be done to a running
file; both are external to the repository and are marked so in `PROJECT.json`.

**AgentServices** is `main` and steps 11 to 14 of `run` over three instances that
share its variables: `Sched == INSTANCE Scheduler`, `Policy == INSTANCE
PolicyEngine` and `Health == INSTANCE HealthMonitor`; `ctxDone` is the one context
of all of them. `at` is the step of `run`, `signal` what the handler has done,
`tray` the loop that `main` sits in; when it is `"gone"` the process is, and no
action of anybody is possible any more (`Alive`). Starting up (`AgentLifecycle`) is
one step, which may fail. **PolicyEngine** separates the request, the server's
answer and its adoption, so that the server can publish in between.
**HealthMonitor** has the goroutine's ticker, whose creation panics without an interval.

**AuditLog.** `file` is what the writes left, in order: whole lines, a JSON without
its newline, or a part; each piece is in the system's cache, on the disk, or was
given up by a failed sync. The clock is not set back. A crash of the process keeps the cache, a loss of power
keeps what is on the disk and any part of the rest.

**ServiceControl.** `step` is the step of the administrator's call, one action per
call to the service manager; `unit`, `known`, `enabled` and `agent` are what the
manager has. The three systems are three sets of steps over these variables. On
Windows `agent` and `request` are the two ends of `Execute`'s channels.

## 3. Runs

| Run | Question | Bounds | Result |
|---|---|---|---|
| `buffer_faults` | the limit, the count and `Prune` with every kind of failure | batches of 1 and 2 bytes, limit 3, 5 clock values | pass |
| `sender_delivery` | refinement of `TelemetryDelivery`, removal only after delivery; `Send` returns with the server down for ever; delivery with a server that recovers | 2 points, 2 collectors and the ticker, batch 2, 2 attempts, limit 3, 4 clock values | pass |
| `sender_unreadable` | the same removal property when a file cannot be opened once | 3 points | violation |
| `start_faults` | safety and liveness of start-up over any number of starts | 5 identities, 2 attempts, every fault | pass |
| `start_first` | a first start in which nothing fails ends well | 5 identities | violation |
| `scheduler_calls` | any sequence of calls | 2 collectors of which one hangs, 3 goroutines, 3 entries of the list | pass |
| `logger_files` | rotation above level INFO, every failure | 2 goroutines, files of 2 lines, 2 backups, 6 lines | pass |
| `logger_stuck` | rotation at level INFO, nothing failing | 4 lines | violation |
| `update_faults` | update and rollback with every failure and restarts | 3 versions, 3 systems, 6 calls | pass |
| `services_shutdown` | a signal, a click on Quit or a failure at any step, with a collector that hangs and a server that does not answer | 2 collectors of which one hangs, 2 policies | pass |
| `audit_log` | events acknowledged before failures of every kind | 4 events, 3 readings of the clock, any number of processes | pass |
| `service_control` | installs and removals whose calls fail, with reboots | 3 systems, any number of calls | pass |

Why the bounds are enough. Buffer: limit 3 with batches of 1 and 2 gives a full, an
exactly full and an over-full directory (after a restart), and five clock values
allow a name collision, a crash and a restart in one behaviour. Sender: two collectors and the
ticker compete for the mutex; two points with batch size 2 give a queue shorter than a
batch, a flush of a full one, and after a failure a buffer with two files that hold a
point twice, so that a drain can stop half-way and the limit refuses a third; the order of
attempts does not depend on their number beyond two. Start-up: four
files hold at most four identities and the process one more, so a fifth identity
is always there to be issued; starts are unbounded. Scheduler: three goroutines
allow a default, an added and a duplicate or restarted one. Logger: six lines of
files of two make three rotations over two backups, one more than it takes to
fill them, so that the third deletes the oldest; each rename of each rotation can fail. Updater: six calls allow an update, a rollback, failed calls
in between and restarts after each. Services: one collector hangs and one does not, so that
`Stop` times out over one job while the other must end; two policies are enough for an
answer to be older than what is published. Audit log: four events allow an
acknowledged one, one that failed before it and two that race after it.

A property that only a fault can break is run with that fault. Premises name the
faults they exclude: `GrowsWithinLimit` starts from a count that is not below the
disk (failing walks, writes and removals make it so); `OnlyOldDeleted` excepts the lines of a
backup whose own rename failed, `NeverUndercounts` those a rotation found in a log it could not
rename (a failing rename breaks both without the exception); `RunsAsItself` allows an empty
CA or agent_id where this process's reply lacked it; `NeverPanics` requires a
heartbeat_interval; `RemovedStaysDown` names a failed `launchctl unload`; `CopyStays` excludes a failed `chmod`;
`RollbackRestores` is checked with a restart between updates (`RestartFirst`).
Deadlock is checked except in the logger, update, scheduler, services, audit and
service runs: there the bounded calls run out, the process has ended, or nobody wants
anything any more.

### Fairness

- Sender (`Progress`): the HTTP client has a timeout and `time.After` fires, so a
  flush under way continues (WF); `sync.Mutex` serves a waiting goroutine in
  the end (SF for each collector and for the ticker); the ticker fires (WF).
  Delivery further assumes that of endless attempts one succeeds (`ServerRecovers`).
- Start-up (`LiveSpec`): `run` continues (WF), the service manager starts the
  agent again after a crash only, because every other end has exit status 0
  (WF of `AutoRestart`). `ComesUp` further assumes someone who starts it after every
  end, the token in the environment and a server that takes one of endless requests.
- Scheduler: the 30 second timer fires (WF), a `Collect` returns unless its
  collector hangs (WF), `select` picks at random and so takes a case that is
  ready again and again (SF).
- Logger: a goroutine that waits for a mutex that is given back gets it (SF).
- Services (`Progress`): the HTTP client gives up after 30 seconds and `Stop` after
  another 30, so `run` always goes on (WF); its `select`, the monitor's and the jobs' take a
  case that is ready again and again (SF); a `Collect` returns unless its collector
  hangs. `SignalEnds` further assumes that `systray.Quit` ends the tray's loop
  (`TrayWorks`), `PolicyArrives` that one of endless refreshes succeeds (`ServerWorks`): from some point on the
  agent keeps the policy that the server settled on, though an older answer may still be adopted after that;
  `WindsDown` assumes nothing of either.
- Service control: an administrator who was not successful repeats both calls, each
  of which ends, `Execute` goes on, and not every wait of the removal is too short.

## 4. Proofs

| Module | Theorems | Assumptions |
|---|---|---|
| `OfflineBuffer_proofs` | `TypeCorrect`, `GrowsCorrect`, `PruneCorrect`, `LimitCorrect`, `CountCorrect`, `OverLimitCorrect` | the named ones of `OfflineBuffer`: positive sizes, a natural limit, clock values in Nat |
| `TelemetrySender_proofs` | `TypeCorrect`, `GrowsCorrect`, `LimitCorrect`, `DeliveryCorrect`, `ClearedCorrect` | those of `TelemetrySender`; `LimitCorrect`: no walk, write or removal fails; the last two: every buffer file can be opened (`"read" \notin Faults`) |
| `AgentLifecycle_proofs` | `TypeCorrect`, `IdentityCorrect`, `RestartCorrect`, `TokenCorrect`, `BootstrapCorrect` | those of `AgentLifecycle`: the markers are no identities, at least one attempt |
| `AuditLog_proofs` | `TypeCorrect`, `AckedCorrect`, `OrderCorrect` | that of `AuditLog`: a natural number of clock ticks |
| `Scheduler_proofs` | `TypeCorrect`, `Collecting`, `StopWaitsForAll` | those of `Scheduler`: the defaults are a sequence of collectors |
| `RotatingLogger_proofs` | `TypeCorrect`, `BackupsInOrder`, `DeletesOldest`, `CountsAll`, `DeletesLate` | those of `RotatingLogger`: positive sizes |
| `Updater_proofs` | `TypeCorrect`, `InstallsVerified`, `KeepsACopy`, `SwapKeeps`, `RollsBack` | those of `Updater`; only `RollsBack` also `RestartFirst` |
| `Services_proofs` | of `AgentServices`: `TypeCorrect`, `NoPanic`, `UsesScheduler`, `AgentCollects`, `RunFindsItsServices`, `RunToldEverybody`; of `ServiceControl`: `ServiceTypeCorrect`, `StaysRemoved` | those of both modules: the scheduler's, `Default` is no policy of a server, the three systems |

*Buffer.* `LimitHolds` is not inductive: `Write` looks at the count only. The
invariant adds `NeverUndercounts` (a live buffer counts at least what is on
disk), established by `New` and kept by every operation, and `OverLimitIsExact`,
which is why the subtraction in `Prune` stays a natural number. `LimitHolds` and
`NeverUndercounts` are proved without failing walks, writes and removals;
`GrowsWithinLimit`, which TLC checks, holds with all of them: a write goes through only
if the count has room for it, so from a count that is not too low the disk has room too. The lemmas
`DiskUseSplit` and `DiskUsePut` say how removing and replacing files change the use of
the disk. `PruneCorrect` needs `OverLimitIsExact` once more: only because a count over the
limit is exact does removing everything bring it to 0, and so within the limit. The rest is that
the use of the files before a file grows with its age (`UseGrows`), so that what goes is
a piece from the old end (`PrunedIsOld`).

*Sender.* The steps of the buffer are those of `OfflineBuffer`, so its invariant
carries over through the equalities at the head of the module, and with it what the buffer says of
its limit: `GrowsCorrect` with every fault, `LimitCorrect` only if the count is never wrong. For the
refinement, `Promise` says what is held where: a file of the current clock value
holds points that are still queued or delivered (so overwriting it loses
nothing), and what a drain has passed is delivered (so `Clear` loses nothing).
Each step then maps to a step of `TelemetryDelivery` or to a stutter.

*Start-up.* `IInv` says that the files are written in order from one reply
(`WritesInOrder`), as far as the reply has them (`Field`, `Reported`), and that an agent
that is past its last write has all four of its own (`Checked`). The second is inductive only because of lemma `AlwaysAgain`: the
expiry check of `NeedsRebootstrap` (`bootstrap.go:102`) pairs the certificate
with a nil key, which fails always, so every process bootstraps in step 9. A repair of
that line needs another argument, because `VerifyIdentity` compares the certificate with
its key only: a crash between the writes can leave the CA and agent_id of another reply.

*Audit log.* `AckedKept` and `InOrder` are not inductive without the mutex. The
invariant adds that it has one holder (`Exclusive`), that the line of the holder that
is about to sync is the last of the file and still in the cache (`LineAtEnd`, so the
sync brings just this line to the disk), and that no stamp is ahead of the clock or of the
stamp about to be written (`StampsPast`). A piece that is on the disk is changed by no step.

*Scheduler.* The invariant adds to `ListedCollects` that the wait group is the number of
goroutines that have not returned (`WaitGroupCounts`); without it `wg` could not be shown
to stay a natural number when a job returns. `ListedCollects` compares two counts: `Start`
keeps it by the map from the entries of the list to the new goroutines, `RemoveCollector` by
the map from the entries that stay to where they were, and a job that returns was told to, so
that the premise is gone. `StopWaitsForAll` follows: a `Stop` that saw the wait group at zero
has no goroutine left.

*Logger.* `rotate` is one step of the specification and several renames of the code, so its
proof goes through disks that no state has: `Sound(d, w, ms)` says of any disk what `NewestFirst`
and `OnlyOldDeleted` say of the one there is. That the renames keep it, whichever of them fail, rests
on where each file came from (`Source`): the numbers that the files had before are in the same order
as those they have now, so `NewestFirst` needs no exception, and a file that none came from is the
last one or one whose own rename failed (`RenamedFiles`). `OnlyOldDeleted` alone is not inductive:
what is deleted is the oldest only while the backups are in order. `OpenLogExists` ties the handle to
the file for `NeverUndercounts`. `DeletesLate` adds that a step without a failed rename loses lines only
while the last place is taken; `Gap` says that what a failed rename cost never comes back, so that
the lines it excepts are those of this step.

*Updater.* For any number of calls the invariant says where an update is on the disk: between its
two renames the executable has no file and its backup is what was there (`Midway`), the process
runs the file it was started from wherever that was renamed to (`RunningFile`), and behind each
binary that a crash left without its mode bit there is one that can be run (`CopyBehind`), over
which nothing is renamed (`NotOverLast`). The last two make `CopyStays` inductive, and
hold whether or not the agent is restarted between updates. `RollbackRestores` needs the restarts:
under `RestartFirst` there are never more than two files (`TwoFiles`), and the second is the version
replaced (`OlderIsReplaced`). TLC finds a counterexample without `RestartFirst`.

*Services.* `AgentServices` makes of the scheduler only calls that `Scheduler` allows
(`UsesScheduler`), so the invariant of `Scheduler_proofs` carries over, and with it
`ListedCollects`. What is added relates each service to the step of `run`: a request for the policy is
under way exactly in `Refresh` (`FetchInStep`), the monitor is off before its step and closed
at the last one only (`MonitorInStep`), the scheduler runs from `Start` to the end of `Stop`, and
its `stopCh` is closed by the only `Stop` (`SchedulerInStep`). `NeverPanics` is not inductive without
the last two: they exclude the second close. `RunFindsItsServices` says that no guard of a
service holds `run` up in the model where the code would go on, and `RunToldEverybody` that nothing was
left running untold.

*Service control.* `RemovedStaysDown` is about one step; that this step finds nothing to start
is the invariant `RemovedIsGone`: after a successful removal there is no unit, and the manager has
forgotten it, except where `launchctl unload` failed. It is inductive once the steps of a
removal are tied to their system and the unit is known to be gone before the last one.

What TLC checks and is not proved is the liveness (`SendReturns`,
`EventuallyDelivered`, `Settles`, `ComesUp`, `StopEnds`, `JobsEnd`, `LogReturns`,
`WindsDown`, `SignalEnds`, `PolicyArrives`, `InstallSucceeds`), which with ENABLED is outside
what the provers do. Each invariant and each action property that a passing run checks is a
theorem. Every inductive invariant was checked by TLC on the constants of the component's run
before it was proved. No module has a RECURSIVE operator, and no theorem needs induction over data.

## 5. Where code and documents disagree

Shown by a run:

- `sender_unreadable`: `ReadAll` skips a file it cannot open (`buffer.go:90-93`),
  and `Clear` then deletes it, undelivered (SECURITY.md:112).
- `start_first`: a first start bootstraps, clears the token and then needs it
  again in step 9, so it ends with an error (BOOTSTRAP_QUICKSTART.md:33).
- `logger_stuck`: the first rotation at level INFO or below locks the mutex it
  holds (`logger.go:171`).

Met while modelling, not a run of their own:

- `Clear` sets `currentSize` to 0 although a removal failed (`buffer.go:117,122`);
  the directory can then outgrow its limit (SECURITY.md:111). The premise of
  `GrowsWithinLimit` excludes it.
- At a shutdown the sender's loop returns without a last flush
  (`sender.go:232`), so a queue shorter than a batch is lost; SECURITY.md:354
  claims "Graceful shutdown (no data loss)". `TelemetryDelivery` allows it.
- `NeedsRebootstrap` is always true, so a valid identity is bootstrapped again on
  every start, against BOOTSTRAP_QUICKSTART.md:226-229; and without the token in
  the environment an expired certificate is not renewed, against :231-234.
- A token that the operator writes to the configuration (INSTALLATION.md:236) is
  never used: `Load` finds the file and `ValidateRuntime` refuses it. `ComesUp` names the case.
- An error ends with status 0, so `Restart=on-failure` does not apply
  (`main.go:45`, SECURITY.md:356).
- The unit's `ProtectSystem=strict` leaves `/etc/your-agent` read-only, so `Save` fails there.
- A second `Stop` of the scheduler after a second `Start` panics (`scheduler.go:140`).
- Two updates before a restart put the first update into `.old`, so `Rollback`
  brings back a version that never ran; on Linux the second one replaces `.old`
  instead of the agent, because `os.Executable` follows the running file. Setting
  `RestartFirst = FALSE` in the update run shows both.
- The "atomic swap" of an update (`updater.go:199`) is two renames and a chmod: a crash after
  the first leaves nothing at the agent's path, one after the second a file that
  cannot be executed, so the service manager can start nothing; `CopyStays` says that a
  runnable copy is still there.
- A bootstrap reply that decodes but has no agent_id is saved as a success; every later
  start fails its validation. In step 9 nothing validates it at all, so the agent runs
  with an empty agent_id, or CA, until its next start.
- README.md:119 says that collectors can be disabled by the server; the scheduler never asks
  the policy engine, so no policy changes what is collected or how often.
- A configuration without heartbeat_interval is accepted and kills the agent in
  `time.NewTicker` (`health.go:49`). Durations written as "60s" do not parse into a `time.Duration`.
- `calculateDelay` adds its jitter after the cap: a delay can be 375 seconds although
  `MaxDelay` is 5 minutes, and ten attempts take about 20 minutes, not the 45 of
  BOOTSTRAP_QUICKSTART.md:292.
- `rotate` looks at no error of `os.Rename` (`logger.go:152,157`). If a backup cannot be moved, the next
  one is renamed over it, so newer lines are deleted while older ones are kept (LOGGING.md:57); if the
  log cannot be moved it is opened again, appended to and counted from 0 (`:160,169`), so a log that can never be
  renamed grows without a limit (LOGGING.md:48). `OnlyOldDeleted` and `NeverUndercounts` name these lines.
- SECURITY.md:190 promises that an update's code signature is verified; `verifySignature`
  (`updater.go:174-196`) is a stub that logs a line and accepts every file on the three systems. `OnlyVerified` is
  about the checksum only.
- An audit event appended after a write that stopped short shares its line with the
  part, so the file is not one JSON per line (LOGGING.md:105), although the event was acknowledged.
- An uninstall removes no data (SECURITY.md:275, :358), and reports success when stop, disable or
  unload failed. Windows' `Execute` reports a running agent and runs none.

## 6. Not modelled

- Contents of telemetry, messages, certificates and log lines, beyond what the
  control depends on; sizes of log lines (all 1).
- Two agent processes at one time on the same files; the service manager starts one.
- The deprecated `Bootstrap` method, which nothing calls, and the TLS client.
- Data races outside a mutex: `logger.go:119` reads the level unlocked. The model
  reads the level at the call and again in `rotate`; a torn word is not modelled.
- Downloads left over in the temp directory after a crash.
- The lengths of the retry delays (`calculateDelay`): floating point with random jitter, on which
  no state depends. The durations and sizes of the configuration, except that
  heartbeat_interval may be missing.
- `ScanOS`, `Move` and the tree of `internal/collectors/fs`, and the process operations:
  nothing in the agent calls them, they keep no state between calls, and what can go
  wrong with them (a reader that left, a copy cut short, a pid that was given to another
  process) goes wrong inside one call.
- What audit events and policies say; getters that change nothing.
- Calls to the service manager by two administrators at one time.

## 7. Plan

Modelled by now: every component of `cmd/agent` and `internal/` that keeps state, with every
safety property of the runs proved. What is left, in this order:

1. Start-up in `AgentServices`: that `AgentLifecycle` refines its step `StartUp`, so that what is
   proved of either holds of the whole agent.
2. The safety half of the liveness properties: what each wait waits for (in `WindsDown`, that a step of
   `run` other than its `select` can always be taken) as invariants with proofs.
3. A second agent process on the same files in `AgentLifecycle` (`ErrBootstrapInProgress` is
   declared in `errors.go:11` and never used).
