# CloudPath: formal models

TLA+ models of the CloudPath Server, its Edge gateways, the plugins both run
and the Applications the Server hosts; TLC configurations that check them on
small instances; and theorems about them that TLAPS checks for every instance.
Everything is translated from the Go code in `src/`; the lines of every
definition are in `PROJECT.json` ("map").

Contents: [the system](#1-the-system) · [the modules](#2-the-modules) ·
[modules and code](#3-modules-and-code) · [runs](#4-runs) ·
[fairness](#5-fairness) · [proofs](#6-proofs) ·
[disagreements found](#7-disagreements-between-code-and-documentation) ·
[what is not modelled](#8-what-is-not-modelled) · [plan](#9-what-comes-next)

## 1. The system

CloudPath is an IoT platform. A **Server** (REST, WebSocket hub, SQLite) owns
what should be: devices, commands, the desired set of plugin instances, the
jobs of Applications, the accounts. **Edge** gateways own devices; each keeps
one WebSocket to the Server, supervises the devices behind it, and runs driver
plugins as child processes. The Server runs Application plugins the same way.

| component | state | operations | talks to |
|---|---|---|---|
| desired authority (`server/plugin_plane.go`, `plugin_write.go`, `store/plugin.go`) | SQLite: instance rows, one revision row per (tenant, edge); memory: `pluginPlane` | create, update, delete (each takes the next revision), reconcile, load after restart | pushes snapshots to the Edge's link |
| desired synchronizer (`plugincontrol/sync.go`, `edge/pluginsync.go`) | applied cache in memory and on disk, boot id, report sequence | `HandleDesired`, `Status` | acknowledges to the Server, drives the instance host |
| report cursor (`server/plugin_sync.go`, `store/plugin.go`, `plugin_projection.go`) | boot, sequence, retired boots, observations; memory and rows | `applyPluginStatus`, `applyPluginAck` | fed by the synchronizer |
| command delivery (`server/server.go`, `apphost.go`, `ws.go`, `edge/wsclient.go`, `edge.go`) | command rows, link queues, send queue, doubt window, offline buffer | request, write, execute, acknowledge, sweep | REST clients, Applications, devices |
| links and presence (`server/ws.go`, `server.go`) | registered links, device views, tenant bindings, browser queues | hello, takeover, reports, cleanup, hydration, fan-out | Edges, browsers, the store |
| device supervision (`edge/edge.go`, `external_driver.go`) | a goroutine per device, last report | open, back-off, poll, report | wsClient, drivers |
| instance convergence (`plugincontrol/applier.go`, `host.go`) | state files, hosts | `ApplySnapshot`, `applyOne`, `retireAbsent`, replay | process groups |
| instances and process groups (`pluginhost/manager.go`) | records, groups, sessions | reconcile, remove, restore, probe | supervisors |
| process supervisor (`pluginhost/supervisor.go`, `session.go`) | process, connection, crash budget | run, disable, enable, restart, shut down | plugin processes |
| Application runtime (`appruntime/`) | instance records, event queues, effect keys | start, stop, events, effects | Application processes |
| Application host (`server/apphost.go`, `app_binding_conflicts.go`, `application/`) | running instances, bindings | reconcile pass, bind, route, request commands | runtime, commands, process plane |
| scheduled jobs (`server/app_jobs.go`, `cron.go`, `store/scheduled_jobs.go`) | job rows, next run | declare, cancel, claim, dispatch | runtime |
| accounts (`server/auth_handlers.go`, `users_tokens.go`, `auth/`, `store/`) | users, sessions, tokens, limiter | set up, log in, change, revoke | every handler |
| plugin installation (`registry/`, `plugincontrol/`, `cmd/cloudpath`) | `plugins.lock`, manifests, assets, instance states | install, update, enable, disable, remove | GitHub sources |
| events, audit, catalog, secrets, SDK transport, web UI | rows, files | append, read, render | - |

What is hard:

* *two authorities of time.* The plane in memory and the rows in SQLite are
  changed one after the other, under different locks, and each decides for
  itself what is late.
* *check, then act, under another lock.* A hello is checked under `s.mu`,
  persisted without it and registered under it again; a report is checked
  against its link under `s.mu` and applied under `p.mu`; bindings are compared
  with the running Applications before a start and not after it.
* *connections die unnoticed.* A half-open connection accepts writes; a new
  hello evicts the old link while its messages are still being read.
* *goroutine per message.* Snapshots, commands and reports overtake one another.
* *restarts.* The Edge gets a new boot id and counts from 1 again; the Server
  forgets everything that is not in a row; a plugin process may survive the
  kill for a while.
* *shared processes.* Instances of one plugin share a process; to stop the last
  one stops it, and whoever counts may be late.
* *who ends a command.* The acknowledgement, the sweeper and the request that
  gives up all write the final status and all notify the Application.
* *processes without a common lock.* Every command line call is a process, and
  `plugins.lock` is read at its beginning and written at its end.

`PROJECT.json` ("hazards") lists the places in the code where this could go
wrong, and the property that would notice.

## 2. The modules

| module | of | properties | proved |
|---|---|---|---|
| `DesiredContract` | abstract control plane: a log of desired states, an Edge that moves forward along it, a Server that credits no more than was completed | (specification) | (refined by `DesiredSync`) |
| `DesiredSync` | desired authority, senders, links, synchronizer | one payload per revision, contract, convergence | first two |
| `ReportCursor` | reports, two cursors, restarts | replaced processes stay out, the newest is heard, rows agree with memory | all |
| `CommandDelivery` | commands end to end | executed once, the acknowledgement decides, one taker of each reference, not lost, settles | safety |
| `EdgeLinks` | hello, takeover, presence, tenants, browsers | presence is true, bindings agree, frames stay in their tenant | all |
| `DeviceSupervisor` | one device, its reports, one connection | the Server catches up | |
| `PluginSupervisor` | the Run loop of one plugin process | one live process, HEALTHY is real, both flags are followed | safety |
| `PluginManager` | instances bound to process groups | (used by `InstanceHost`) | |
| `InstanceHost` | desired snapshots over the Manager, state files, replay | configuration is held, right version, no orphan, stopped is stopped | all |
| `AppRuntime` | sessions of Applications in one process | (used by `AppHost`) | |
| `AppHost` | reconcile passes over the runtime | no orphan session, one owner, siblings survive, healing | safety |
| `Binding` | matching, addressing, conflicts (pure operators) | what is addressed later is what was bound, one driver | both |
| `Cron` | fields, sets, the scan for the next minute (pure operators) | (used by `AppJobs`) | what the scan finds |
| `AppJobs` | declarations, cancels, the minute loop | once unless written back, on schedule, nothing stays due | safety |
| `Accounts` | setup, login, limiter, sessions, users, tokens | an admin remains, sessions end, login is limited | all |
| `PluginInstall` | install, update and instance commands | authentic entries, confirmed permissions, trust kept unless overtaken | all |

`InstanceHost` EXTENDS `PluginManager`, `AppHost` EXTENDS `AppRuntime`,
`AppJobs` EXTENDS `Cron`: each composed module has the variables and actions of
the one below, and its steps are steps of both. `DesiredSync` INSTANCEs
`DesiredContract` with a refinement mapping. Where two modules meet without
being composed, the upper one uses an outcome the lower one allows:
`DesiredSync!Partial` (any mixture of old and new instances) is what
`InstanceHost` does to a snapshot; the `up`/`leaving`/`exits` of `AppRuntime`
and the `life` of a group in `PluginManager` are what `PluginSupervisor` shows
of itself.

`*_proofs` hold the theorems of a module; `MC*` give its constants values.
`InstanceHost_proofs` has those of `PluginSupervisor` too, and `AppHost_proofs`
those of `Binding` and `AppJobs`, which run in the same program; that is why the
definitions of `PluginSupervisor` and `AppJobs` have names of their own
(`SupervisorSpec`, `JobsSpec`, ...), so that one module can extend both.
Operators with a comment *Mutant* or *deviant* are plausible mistakes; no
specification uses them. Each stands beside the definition it deviates from,
and putting it in that definition's place breaks the property that is meant to
notice ("mutants" in `PROJECT.json`).

## 3. Modules and code

### DesiredSync

One (tenant, edge) pair: the plane of another edge shares only the quota.

* **Server.** `dbRev`, `dbContent`, `dbApplied` are the rows; `plane` is
  `pluginEdgePlane`; `writer` is the handler that holds `writeMu`. A write is
  three steps, as in the code: the transaction (`CreateInstance`,
  `UpdateInstance`, `DeleteInstance`: row and revision), `Remember`
  (`remember`/`forget`, under `p.mu`), `WritePush` (`pushPluginDesired`).
  Role checks, `If-Match` conflicts and bad requests change nothing.
* **Senders.** `pushes` are the calls of `sendPluginDesiredToLink` under way:
  of a write, of a reconcile request, of a hello. Each has its link already,
  then takes the snapshot (`TakeSnapshot`), then enqueues or drops it
  (`EnqueueSnapshot`). Only writes are serialised.
* **Loading.** `Ensured` is the set of planes `ensureLoadedLocked` may produce:
  normally what the rows say; with an empty desired set also the zero plane.
* **Links.** A member of `Links` is a connection object, used again once
  nothing refers to it. `alive` is the network's view; `reg` and `current` the
  Server's; `session` the Edge's.
* **Edge.** `todo[w]`, `reply[w]` are goroutines of `onPluginDesired`;
  `HandleDesired` runs under `s.mu`, so it is one step: `AnswerOnly`
  (`Stale`, `Mismatch`, `Replay`), `Install`, `InstallFails`. `cache` is the
  applied cache, `disk` its file (whose write may fail), `local` what runs.
* **Data.** A row is one member of `Configs`, the digest is the content.

`issued`, `installed`, `lastInstall` are history; no guard reads them. The
contract allows one way back: a Server that restarts while nothing is desired may
begin at revision 0 again (`Fallback`, finding 1), and an Edge without its applied
cache takes that snapshot.

### ReportCursor

* **Edge.** `boot` is the process, `seq` the sequence of `Syncer.Status`.
  Reporting is three steps: `Number` (under `s.mu`), `Observe`,
  `EnqueueReport`. `ApplyDesired` enqueues a `plugin_ack` and makes a report due.
* **Server.** `Receive` is the link check under `s.mu`; `IgnoreStatus`,
  `AcceptStatus`, `ApplyAck` are what follows under `p.mu`. `mem` is the plane
  (16 retired boots: `MaxRetired`), `row` the cursor columns and the projection
  (one previous boot). An accepted report is several transactions; `RowPartly`
  is what failures leave, `ServerRestart` may come after the first.
* **Data.** Boot ids are numbered in the order the processes start, which the
  Server never sees: it compares them for equality only.

Two exceptions are named. `InOrder`: once a replaced process was heard after its
successor, the plane takes the successor for the late one (section 7).
`Remembered`: in addition, no restart found the rows without the report accepted
last. Accepting a report and writing it are two things, and a failed write is
only logged; a Server that restarts then does not know which process it heard.

### CommandDelivery

* **Server.** `status` is the row, `call` the request: `Create`, `MarkSent`,
  `Offer` or `Refuse` (the queue of the link), then the wait, which ends by the
  writer's result (`Delivered`), or by the link or the request (`GiveUp`), then
  `MarkFailed` and `Erred`. `refs` is `AppHost.appCmds`, `told` the
  `RequestCompleted` events its runtime took, `missed` why one was not told: the
  reference is deleted first, and a refusal (queue full, instance not running)
  leaves only a log line. `Sweep` and `NotifySwept` are `timeoutOnce`;
  `ReadAck` and `NotifyAck` the read loop.
* **Edge.** `job[c]` is the goroutine of a command: `Execute`, `ReadOnline`,
  `EnqueueAck`. `out`, `pending` and `inflight` are the send queue, the offline
  buffer and the doubt window of `wsClient`. `phase` are the points of `run`
  and `session` between which `enqueue` behaves differently.
* **Time.** No clock: any command in flight may be old enough for the sweeper,
  which is more than can happen, and safe for what is checked. `Prompt` says
  that a connection on which something was lost ends within `ackDoubtWindow`;
  `OutcomeNotLost` is claimed only then.

Allowed by these properties, though a reader may not expect it: a request
answered as failed may have been executed, and a late acknowledgement replaces
`timeout`, of which the Application was told.

### EdgeLinks

The steps of `handleEdgeWS` between two locks: `Hello` (authentication and the
collision check under `s.mu`), `Persist` (`UpsertDevicesTenant`, one
transaction), `Register` or `RegisterRefused` (under `s.mu` again), `Flush` and
`Tell` (store and browsers, outside it), the read loop, `Unregister` (the
deferred cleanup), `MarkOffline` (after it), `Restart` (a Server that knows only
its rows). `BrowserConnects` takes the snapshot under the lock and
`SnapshotWritten` writes it beside the pump. `slug` is the tenant a link goes by:
of its token, or, when that tenant cannot be looked up (`ws.go:193`), as the hello
says (`HelloTenant`, a tenant that exists). A message may name no device: ownership
is not asked then (`ws.go:361`), the state goes to the view of the empty key
(`blank`) and its frame to the browsers of every tenant. `BindingAgrees` and
`FramesStayInTenant` name both as exceptions (`Misnamed`, `Blank`); frames of other
kinds without a device (events, acknowledgements) go the same way and are not
modelled. `unowned` (history) are the keys
last written by a link that was not the registered one; for these `PresenceIsTrue`
claims nothing, which is finding 6.

### DeviceSupervisor

`Open`, `OpenFails`, `PortDies`, `Retry` are `supervise`, `Observe` the stream
of an external Driver; a report of a goroutine is a snapshot, the enqueuing and
the record of what was sent, each a step. `due` stands for the report interval
and the heartbeat.

### PluginSupervisor

`pc` are the selects of `Run` and `runOnce`; a launch is a slot, whose process
(`proc`), handshake line and connection move on their own. `again` is a second
line, `open` whether the listener of the launch still accepts.
`wake` and `restartCh` are the one-place channels, so a token may be consumed
by a select that does not mean it.

### PluginManager and InstanceHost

`op` is the reconciliation that holds `ops`, at its next step. The steps settle
the groups that an earlier one left behind (`Settle`), choose or create the group
(`Choose`, or `Deactivate` when the definition is disabled), `Wait` for its
session, `Configure`, `Check`, `Switch`, and `Rollback` on failure.
`DisableInstance` and `RemoveRecord` are one step each; `CollectProbes` looks at
targets that `Judge` decides on later. A group crashes at any time and comes
back step by step (`Crash`, `Authenticated`, `Restored`, `Publish`). `applied`
is what each process was sent. `InstanceHost` adds `ApplySnapshot` instance by
instance, the state files (`file`) and `Restart`, which replays them. `acked` is
what an instance was last reported as.

### AppRuntime, AppHost, Binding

A record of `Recs` is an `instanceRecord` with two goroutines (`workers`) and a
context. `StartInstance` is split at the points where another goroutine may
act: registration, opening of the stream, `Running`. `stopRecord` cancels, waits
for the grace, and forgets. A pass of `AppHost.reconcile` applies the rows to
the process plane, chooses under `h.mu`, stops and then starts one instance
after the other. `Binding` has the matching of `application.Binder`, the lookup
of the entity of an effect, the routing of a device event and the conflict check
as operators over small worlds of devices; `MCAppHost` states its two
properties for every state in which something runs.

### Cron and AppJobs

`Cron` is the parser's result (sets per field), `Matches` (`matches`, with the
rule that a restricted day of the month and day of the week are alternatives),
and `NextAfter`, the first minute within `ScanLimit` that matches, on a small
calendar with a constant offset. `Later` is the loop over the missed times in
`dispatchScheduledJob`. `AppJobs` has the effects (idempotency keys in
`executed`), the table, and the minute loop: `Scan`, `Claim` (the row moves on
before anything is dispatched), `Dispatch`, `Expire`. An effect reads the clock (`Execute`) and is at the store afterwards
(`writing`) until `WriteRow` or `WriteRowFails`, since the store waits and tries
again while the database is busy; a rebuilt session does not stop it. `rewound`
(history) counts the declarations that wrote back the time of a run claimed since
they computed it. `rev` counts the
declarations of a row, which the code does not; `raced` (history) are the
schedules a pass claimed with the expression of an older declaration.

### Accounts

A request is a process: what it resolved or read may be old when it writes.
`UpdateUser` reads a snapshot and its write fails when anything was written
since (`stale`). The limiter keeps `MaxKeys` windows. `late` (history) are
sessions of logins that had read the user before a change; `evicted` are clients
whose record made room for another one.

### PluginInstall

`proc[r]` is where a command is: manifest fetched, replaced entry read,
permissions confirmed, release and asset chosen, trust planned, asset
downloaded, manifest written, lock loaded, lock saved. Authors commit, publish
and upload again in between. `Stop` ends a command anywhere, with what it has
written left behind. `overtaken[r]` (history) are the plugins whose entry another
command changed after `r` looked at it: at the beginning for the plugin it installs,
in the copy of the lock for all others. The attestation mode of trust, whose
verifier no command configures, is left out.

## 4. Runs

| run | checks | bounds | what makes them enough |
|---|---|---|---|
| `desired_sync` | `OnePayloadPerRevision`, `RefinesContract` | 1 instance, 2 writes, 2 links, 2 goroutines; `Budget`: one reconcile, or one crash and one failed application | an eviction with messages of the old link still read, two snapshots applied in the other order, a set that becomes empty again |
| `desired_live` | `Convergence` | 2 writes, 1 broken connection, 1 goroutine, queues of 4 | the snapshot of the last write may be on the connection that breaks |
| `report_order` | `NewestIsHeard`, `RowsAgree`, `ReplacedStaysOut`, `NeverBehindItsNumber` | 3 Edge processes of 2 reports each, 2 goroutines that report (`Budget`: at the same time in the first two processes), 1 change, 2 links, 1 restart, 1 failed write | three processes tell one previous boot from a list; with two goroutines the report with the larger number may carry the older observation, and be enqueued first or last |
| `command` | `AckDecides`, `CompletedOnce`, `OutcomeNotLost`, `ExecutedOnce`, `Settles`, `Completes` | 1 command, 2 links, every queue of one place, 1 break, 1 failed write, 1 restart of either side | takeover, doubt window and restart meet on one command; commands interact only through full queues |
| `edge_links` | `PresenceIsTrue`, `BindingAgrees`, `FramesStayInTenant` | 1 edge_id, 2 tenants, 4 links, 2 devices, 1 browser with a queue of one, 1 restart, 1 message (`Budget`: of one of three links; four connect without messages) | two links of one tenant (takeover), one of the other with a device, one without any, which collides with nothing in memory |
| `device_supervisor` | `ServerCatchesUp` | 1 device, 2 events of the environment, queue of 2 | two changes are what two reporters can send in the wrong order |
| `plugin_supervisor` | `OneLiveProcess`, `HealthyIsReal`, `DisabledStops`, `EnabledRuns` | 2 processes at a time, budget of 1 crash, 2 calls | Disable followed by Enable before the loop looks; an old process that outlives its kill |
| `instance_host` | `ConfiguredIsHeld`, `BoundToVersion`, `NoOrphan`, `StoppedIsStopped` | 2 instances, 2 versions, 2 configurations, 2 groups, 5 sessions, 2 snapshots, 2 faults (`Budget`: a second snapshot after at most one fault, while one instance is in use) | a shared process and one of its own, upgrade with a crash in between, a snapshot repeated on top of what a failed application left, restart and replay |
| `app_host` | `NoOrphanSession`, `ActuatorHasOneOwner`, `SiblingsSurvive`, `HealsUnlessStuck`, `AddressedAsBound`, `OneDriver` | 2 instances, 2 records, 2 actuators, 3 writes, 1 fault, 1 relaunch; worlds of 2 devices with 2 entities and 2 tenants | siblings in one process that swap their actuators; the same entity name on two devices |
| `app_jobs` | `OnceUnlessWrittenBack`, `OnSchedule`, `NothingStaysDue` | 2 schedules, 4 expressions, 2 effects, 4 minutes, grace of 1, 1 crash | an expression further apart than the scan looks, one that never parses, a run missed beyond the grace, a declaration written after its minute was claimed |
| `accounts` | `AlwaysAnAdmin`, `SessionsEnd`, `LoginLimited` | 2 users, 2 requests, 1 session, 1 token, 2 clients, 1 limiter record, 1 restart | two administrators that demote each other; eviction from the limiter |
| `plugin_install` | `EntryIsAuthentic`, `PermissionsWereConfirmed`, `TrustKeptUnlessOvertaken` | 2 plugins, 2 sources, 2 versions, 2 processes, 3 commands, 1 repeated upload (`Budget`: authors rest while the second plugin is in use) | a move between sources with another publisher, an asset that changes under its tag, an entry replaced while a command downloads, an old copy of the lock written over a newer entry of the other plugin |

`MaxSessions`, `MaxEpoch`, `MaxTime`, `MaxRevision`, `MaxEffects`, ... bound
counters in guards; each is declared with its meaning in its module. A
CONSTRAINT `Budget` keeps expensive cases out of one behaviour while each is
explored with everything else: in `desired_sync` a reconcile request and a crash;
the four others are named in the table. The theorems have no such limit. Symmetry
(of links, goroutines, groups, requests) is used in runs without liveness
properties only. `TypeOK` is the first part of each proved invariant; in
modules without proofs it documents the variables.

Deadlock is not checked (`CHECK_DEADLOCK FALSE`) where, with writes, breaks and
crashes used up and everything delivered, the modelled system rests; in the
other runs it is: browsers, reconcile passes and tickers never run out of steps,
and `PluginSupervisor` has an explicit `Done`, so any other stop would be a hang.

## 5. Fairness

Weak fairness of the steps of goroutines that exist, and of nothing else. The
Go scheduler and the loops of the code give it; locks are held for bounded work.

* `DesiredSync`, `CommandDelivery`: senders, pumps, read loops, workers, the
  redialling of `wsClient.run`, the ticker of the sweeper. Two assumptions are
  about the world: a connection that both ends use is read in the end, and a
  dead one is noticed in the end (the Server pings every 30 s; the Edge has no ping
  of its own, its read loop fails when the Server gives up, `wsclient.go:199`). In `desired_live`
  no application fails and no queue is full, since a dropped or failed snapshot
  is not repeated before the next write, reconcile or hello.
* `DeviceSupervisor`: the supervise loop, the poll and report tickers, the
  Driver's stream, reconnection and delivery. `Heartbeat` is TRUE: without it a
  dropped report is repaired by nothing.
* `PluginSupervisor`: the Run loop (its selects have timers, so one branch is
  always ready), the exit of a process that was killed, and the handlers of
  its connections. Nothing makes a process print, connect or exit on its own.
* `AppHost`: the reconcile ticker, the relaunch by the supervisor, the exit of a
  process that was asked to leave, the goroutines of a session.
* `AppJobs`: the clock, the receive loop, the minute loop, whoever restarts the
  Server.

Writes, requests, failures, breaks and crashes are never fair; most are bounded
in number, which is how "after the last one" is said. `DisabledStops` and
`EnabledRuns` are conditional on the flag staying as it is.

## 6. Proofs

Eight modules have theorems about eleven specifications and the operators of
`Binding` and `Cron`, for all values of the constants that satisfy the named
assumptions; TLC evaluates these assumptions in every run. In
the cfg files the constants are a few model values; in the theorems any number of
instances, links, goroutines, commands, groups or plugins, and any bounds.

| theorem | statement |
|---|---|
| `DesiredSync_proofs!TypeCorrect`, `Coherence` | `Spec => []TypeOK`, `Spec => []Coherent` |
| `DesiredSync_proofs!OnePayload` | `Spec => []OnePayloadPerRevision` |
| `DesiredSync_proofs!AckedInstalled` | `Spec => []AckedWasInstalled` |
| `DesiredSync_proofs!SnapshotsInOrder` | `Spec => []OrderOK` |
| `DesiredSync_proofs!Refinement` | `Spec => RefinesContract` |
| `ReportCursor_proofs!TypeCorrect`, `CursorsAgree` | `Spec => []TypeOK`, `Spec => []Cursors` |
| `ReportCursor_proofs!NewestHeard` | `Spec => []NewestIsHeard` |
| `ReportCursor_proofs!RowsAgreeAlways` | `Spec => []RowsAgree` |
| `ReportCursor_proofs!ReplacedOut` | `Spec => ReplacedStaysOut` |
| `ReportCursor_proofs!NeverBehind` | `Spec => NeverBehindItsNumber` |
| `CommandDelivery_proofs!CommandTypes`, `CommandsConsistent` | `Spec => []TypeOK`, `Spec => []Consistent` |
| `CommandDelivery_proofs!ExecutesOnce` | `Spec => ExecutedOnce` |
| `CommandDelivery_proofs!AcknowledgementDecides` | `Spec => []AckDecides` |
| `CommandDelivery_proofs!CompletesOnce` | `Spec => []CompletedOnce` |
| `CommandDelivery_proofs!OutcomesKept` | `Spec => []OutcomeNotLost` |
| `Accounts_proofs!SessionsAreEnded` | `Spec => []SessionsEnd` |
| `Accounts_proofs!AdminRemains` | `~LegacyToken => (Spec => []AlwaysAnAdmin)` |
| `Accounts_proofs!LoginIsLimited` | `Spec => []LoginLimited` |
| `PluginInstall_proofs!PermissionsConfirmed` | `Spec => []PermissionsWereConfirmed` |
| `PluginInstall_proofs!EntriesAuthentic` | `Spec => []EntryIsAuthentic` |
| `PluginInstall_proofs!TrustKept` | `Spec => TrustKeptUnlessOvertaken` |
| `EdgeLinks_proofs!BindingsAgree` | `Spec => []BindingAgrees` |
| `EdgeLinks_proofs!FramesStay` | `Spec => []FramesStayInTenant` |
| `EdgeLinks_proofs!PresenceHolds` | `Spec => []PresenceIsTrue` |
| `InstanceHost_proofs!TypeCorrect` | `Spec => []TypeOK` |
| `InstanceHost_proofs!ConfigurationHeld` | `Spec => []ConfiguredIsHeld` |
| `InstanceHost_proofs!VersionBound` | `Spec => []BoundToVersion` |
| `InstanceHost_proofs!NothingOrphaned` | `Spec => []NoOrphan` |
| `InstanceHost_proofs!StoppedMeansStopped` | `Spec => []StoppedIsStopped` |
| `InstanceHost_proofs!SupervisorConsistent` | `SupervisorSpec => []LoopInv` |
| `InstanceHost_proofs!OneProcess` | `SupervisorSpec => []OneLiveProcess` |
| `InstanceHost_proofs!HealthyReal` | `SupervisorSpec => []HealthyIsReal` |
| `AppHost_proofs!TypeCorrect` | `Spec => []TypeOK` |
| `AppHost_proofs!SessionsAreKnown` | `Spec => []NoOrphanSession` |
| `AppHost_proofs!OwnersApart` | `Spec => []ActuatorHasOneOwner` |
| `AppHost_proofs!SiblingsAreSafe` | `Spec => SiblingsSurvive` |
| `AppHost_proofs!OneDriverAlways` | `Spec => []OneDriver` |
| `AppHost_proofs!AddressedAlways` | `Spec => []AddressedAsBound` |
| `AppHost_proofs!JobsTypeCorrect` | `JobsSpec => [](JobsTypeOK /\ JobsInv)` |
| `AppHost_proofs!DispatchedOnce` | `JobsSpec => []OnceUnlessWrittenBack` |
| `AppHost_proofs!RhythmKept` | `JobsSpec => []OnSchedule` |

Why each needs a stronger invariant:

* **DesiredSync.** `OnePayloadPerRevision` speaks of the snapshot a goroutine is
  about to handle and the ack about to be applied, and says nothing of where
  they come from. `Coherent` does: a revision names one issued snapshot and the
  rows hold the newest (`HistoryOK`); a loaded plane is the rows, except between
  a transaction and `Remember` (`PlaneOK`); at most one sender belongs to a
  write (`WriterOK`); queues, senders, goroutines, cache and file hold issued
  snapshots, and every `applied` under way is of an installed one (`CarriedOK`).
* **The refinement.** That every step of `DesiredSync` is one of the contract
  follows from `Coherent` but for one thing: an installation must not go back.
  The Edge compares a snapshot with its cache only, and the cache may be lost.
  `OrderOK` says why that suffices: on a live connection, in every sender, queue
  and goroutine, a snapshot is not behind the last one completed, or the Edge
  will answer it without effect (`InOrder`, `Sendable`); the plane was not ahead
  of what it sent; only the live connection is the session's. The revisions have
  no gap, so the log of the contract is the set of issued snapshots. The exception
  of revision 0 appears in it as `Fallback`, on both sides.
* **ReportCursor.** `Cursors` has three parts. `NumbersOK`: whatever is under
  way was numbered after what it is newer than, and observed after it was
  numbered. `HeardOK`: the accepted report is of the process heard last, which
  with `InOrder` is the greatest heard. `CursorOK`: plane and rows stand at the
  accepted report, the rows perhaps behind after a failed write; a report under
  way of a replaced process finds that process among the retired boots, or a
  Server that loaded from the rows has no link left that carries one. The last is
  where `RetiredAssumption` (fewer processes than the list holds) is needed.
* **CommandDelivery.** The three properties look at one row, and are broken by
  messages that cannot be under way. `Consistent` says which can: stages in
  order, a frame in one place at most and gone once started, acknowledgements
  that say what the device did, a reference only until somebody took it (and then
  one was told, or one refusal recorded). Nothing
  is assumed of `Prompt`. For `OutcomeNotLost`, `DoubtOK` adds that an entry of
  the doubt window was read, is still on the live connection, or that connection
  is dead and its session will put the entry back.
* **PluginSupervisor.** `LoopPassOK` ties the place in the loop to the process of the
  pass and to the connections accepted for it; `LoopSessionOK` says what must have
  happened to the current process before each place: announced, counted,
  restored, published, in this order.
* **Accounts.** `EpochOK`: a transaction whose snapshot is current is not about
  to write an older epoch. `AdminOK`: such a transaction is not about to remove
  the last administrator, and whoever was admitted was admitted by a user.
  With a legacy token anybody who has it may write before the first
  installation, hence the assumption `~LegacyToken` of `AdminRemains`; the run has it too.
  `LimitOK`: of a client that was never evicted, what the limiter still keeps is
  exactly what was let through within the window, so that to count the one is to
  count the other, although both are cut at different moments. It rests on lemmas
  about `Recent`: what is recent later is recent now (`RecentTwice`). The clients
  need not be finitely many; the records are.
* **PluginInstall.** What a command looked at long ago still counts:
  `PermissionInv` (what was confirmed for it stays confirmed), `EvidenceInv`
  (its plan is evidence for the version it fetched; also the *copy* of the lock
  it holds is authentic, because nothing leaves the store), `PlanInv` (its plan
  was compared with the entry it looked at), `LookInv` (what it looked at is still
  the entry of the lock, and so is every other entry of its copy, unless somebody
  overtook it). The last two give `TrustKeptUnlessOvertaken`; that nothing but
  `SaveLock` writes the lock is `OneWriter`.
* **EdgeLinks.** `BindInv`: all rows of an edge are of one tenant and keep it, a
  link past its transaction finds its tenant in the rows it declared, a
  registered link has its own `edge_id`. The transaction decides; neither of the
  two checks under the lock is used by the proof. `FrameInv`: what is shown is
  bound (on an edge none of whose links goes by a wrong name), and what a link has changed is bound to its tenant, so the frame told
  after the lock goes to its owner. Devices and edges are finite sets
  (`LinkAssumption`), which the order of frames in a queue needs. `PresenceInv`
  is about the times in between, of which `PresenceIsTrue` says nothing: a link
  that runs unregistered was cancelled (`ReplacedOut`), a registered one is shown
  as it last said (`AsReported`), and whatever is online is so because of the
  registered link or of one removed whose `MarkOffline` is still to come
  (`Explained`).
* **InstanceHost.** The four properties hold at one place because of what was
  done at another, so all of them rest on one invariant, `HostInv`, over Manager
  and Host. `OpOK`: the reconciliation that holds `ops` carries what its stage
  needs. `GroupsOK`, `BoundOK`: a bound group lives, was not cancelled and runs
  the version of the key it is bound by (`BoundToVersion`). `PlacedOK`: the group
  an operation chose is still the bound one when it gets there, or a new one that
  nobody else knows. `ServedOK`: a running process is used, cancelled, or that
  new one, hence `NoOrphan`. `OwnOK`, `StopOK`: a process of an instance's own is
  bound to it, waited for, or about to be bound; once it is neither, nothing of
  it runs, and an instance whose turn is over is not started again by the same
  snapshot, which is `StoppedIsStopped`. `SessionsOK`: a session number names one
  process. `ReplayOK`: what a relaunched process is about to be sent is what
  the record still says, or is marked as changed since. `HeldOK`:
  a process holds what its records say, but for the one configuration that is
  just being offered; a rollback puts that right. `ConfiguredIsHeld` follows.

* **AppHost.** The three properties are about open sessions and entries of
  `h.running`, which change at different steps of one pass, while sessions also
  end by themselves. `RecordsOK`: what is open is known, which is
  `NoOrphanSession`. `PassOK`: what the pass has in hand at each step; an entry
  that will be started again is stopped first. `OwnersOK`: an open session is of
  the row its entry came from, but for the one just being started or stopped, and
  the row of that one was compared with every other entry and still is apart from
  it, since nothing else writes `h.running` in between. Shutdown is
  sent when no entry is left (`SiblingsSurvive`).
* **Binding.** Nothing moves here: the theorems say of every number of devices,
  entities and requirements what the run says of two of each. A valid binding
  means exactly one candidate, and the candidates are exactly the declared
  entities of the tenant's devices (`CandidatesAre`), so whatever device a command
  may reach later was a candidate, hence the one that was meant.
* **AppJobs.** `SentOK`: a revision of a row is an effect that was sent. `ScanOK`:
  a row a pass holds is the table's, or older; with the same revision it has the
  same expression, so a claim over a declaration is told from one that is not
  (`OnSchedule`). `RunsOK`: a run that was dispatched, and the one just claimed,
  is not after the pass; and when it was claimed as often as the declarations that
  wrote its time back allow, its time is neither in the table nor in what the pass
  holds, though a claim writes over whatever it finds (`OnceUnlessWrittenBack`).
  `PendingOK`: what is at the store has a time of its expression. What the scan and the loop over the missed times return is
  proved, not assumed: `ScanFinds`, `LaterIsLater`.

*Induction over data.* The library's theorems about it need an operator as an
argument, which no installed prover can give. Where a recursive function had to
be understood (`Candidates`, `Later`, `Recent`), the proof goes by the least number
at which the claim would fail, by the library's well-foundedness of the natural
numbers. What `SelectSeq` and the folds return stays closed to the provers; for
that reason those three are recursive functions, which are the loops of the code.

Every safety invariant and every action property that a run checks is a theorem,
`OneDriver` and `AddressedAsBound` included. Only model-checked: the liveness
properties `Convergence`, `Settles`, `Completes`, `DisabledStops`, `EnabledRuns`,
`HealsUnlessStuck`, `NothingStaysDue` and `ServerCatchesUp`; liveness and ENABLED
are beyond the prover. The greedy choice of `Binding` (`Greedy`) and the parser
of `Cron` are used by the proofs only through what is validated afterwards, and
not analysed themselves.

## 7. Disagreements between code and documentation

The properties state what holds with these named as exceptions. In full, with
the quoted lines, in `PROJECT.json` ("findings").

1. `control-plane-sync.md` promises that a restart recovers the revision. For an
   edge whose desired set is empty and that reports nothing it is 0
   (`plugin_plane.go:193`), until the next write.
2. The same document promises that late messages of an old process are refused.
   One that passed the link check before its process was replaced, and of whose
   process nothing had been accepted, is accepted, and then the running process
   is refused (`plugin_sync.go:119`).
3. `SetPluginEdgeApplied` is documented to advance `applied_revision`; with the
   cursor it is given it refuses itself (`store/plugin.go:618`).
4. A comment says a final command status is not overwritten. A request that gives
   up after its frame was written replaces a stored `ok` (`apphost.go:1244`).
5. A comment says what finds no room in the send queue is tried at the next
   tick; it waits for the next session (`wsclient.go:415`).
6. A comment says a superseded link does not touch its successor's devices;
   `markEdgeOffline` and state reports of such a link do (`ws.go:325, 366`).
7. A comment says a failed instance is forgotten; after the grace its record
   stays and every start fails (`runtime.go:549`); and `Running` may be set over
   a failure (`runtime.go:229`).
8. A comment calls an effect of an instance that is not running unreachable; an
   effect of its first event is (`apphost.go:842`).
9. A comment says a change to an empty configuration is sent; after a disable it
   is not (`manager.go:668`).
10. The API document says a password reset ends all sessions; one of a login
    under way is created after it (`auth_handlers.go:244`).
11. A comment says concurrent installs must not drop each other's lock entries;
    the mutex is one of a process (`install.go:302`).
12. The capability document says an exclusive actuator has one driver; the check
    compares exact capabilities of a list of four (`app_binding_conflicts.go:31`).
13. A comment says a claimed run is not selected again; a declaration that computed
    the same minute before the claim and was written after it brings it back
    (`apphost.go:1021`); `OnceUnlessWrittenBack` says that nothing else does.
14. A comment says an update does not replace a verified installation by an
    unreviewed one; it compares with the entry read at its beginning
    (`install.go:147`). `TrustKeptUnlessOvertaken` says of 11 and 14 that nothing
    but such an overtaken command loses or downgrades an entry.

## 8. What is not modelled

Per component, with reasons, in `PROJECT.json`. In short:

* *the RPC transport of plugins* (`sdk/go/rpc`): its users see a call that
  answers, fails or is cut; a stream nobody reads may block a connection, which
  is listed as a hazard without a property.
* *events, observations, samples, audit*: single appends and windowed queries.
* *secrets, redaction, validation of requests, rendering, manifests and their
  parser*: data.
* *the contents of state, descriptor and capability documents*, the built-in
  drivers, the Edge driver host (a lookup between sessions and RPCs).
* *the initial commands after opening a device* (`edge.go:372`), which bypass the
  command lock: what two interleaved writes do depends on the driver.
* *daylight saving time* in cron; the migrations; catalog, UI assets, web UI,
  command line plumbing and deployment.

Abstractions inside the modelled parts: real time; JSON, digests and message
bodies; SQLite as atomic transactions that may fail; a connection as bounded
FIFO queues with a cut. `ReportCursor` assumes that fewer Edge processes come
and go than the list of retired boots holds while one report waits for a lock.

## 9. What comes next

Proofs: that `nextAfter` finds the first match and not just one (by the same
least number), that `Greedy` returns valid bindings when it succeeds. Models: an
abstract life of a command refined by `CommandDelivery`; the transport with
streams that are not read; larger calendars with a changing offset.
