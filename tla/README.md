# A TLA+ verification of Barton Core

Barton Core is a library that runs inside a home hub. It discovers and pairs
devices over Zigbee, Matter and other protocols, keeps a database of them,
watches whether they still communicate, and offers them to a client as
endpoints with resources. This directory holds TLA+ models of its parts, TLC
configurations that check them on small instances, and TLAPS proofs. All paths
below are relative to the root of the repository; `core/src/` is abbreviated to
the file name where that is clear.

Contents: [Inventory](#inventory), [Modules and code](#modules-and-code),
[Runs](#runs), [Bounds](#bounds), [Fairness](#fairness), [Proofs](#proofs),
[Disagreements](#disagreements-with-docs-and-comments),
[Not modelled](#not-modelled), [Plan](#plan).

To repeat a run: `tlc -config MC_Watchdog_time.cfg MC_Watchdog`. To check the
proofs: `tlapm CommFailWatchdogProofs.tla`.

## Inventory

| Part | State | Operations | What makes it hard |
|---|---|---|---|
| Device service (`deviceService.c`) | flags of readiness, `activeDiscoveries`, `pendingReconfiguration`, `markedForRemoval`, rejected and failed devices | start and shutdown, discover, pair, remove, reconfigure, read and write resources | one file, eight mutexes, calls of clients, of drivers and of subsystem threads interleaved |
| Subsystem manager (`subsystemManager.c`) | table of subsystems, their `ready` flags, `allDriversStarted`, callback | initialize, all drivers started, (de)initialized by a subsystem, shutdown | a gate that two threads can open, flags that live through a restart |
| Communication watchdog (`deviceCommunicationWatchdog.c`, `deviceServiceCommFail.c`) | table of devices with countdown, monitor thread, callbacks | monitor, pet, force failure, set timeout, init, term | two mutexes, callbacks outside of both, 32-bit milliseconds |
| Database (`database/jsonDatabase.c`) | map of devices, map of locators, dirty flags, one file per device | add, save, remove, reload, restore, lookups | failing writes, lazy writes, crashes |
| Descriptor lists (`deviceDescriptorHandler.c`) | two URLs, two files, recorded URL and checksum, two task ids | update, cancel, download, become ready for pairing | repeating tasks that outlive their replacement |
| ZHAL (`zhal/c/src/`) | a queue per device, the set of sent requests, a worker thread | init, term, send a request, answer, time out | four mutexes and two conditions per request |
| Zigbee subsystem (`subsystems/zigbee/`) | reference count of discovering drivers, processed, unclaimed and interviewed devices, early commands | start and stop discovery, device events, low power mode, network health | interviews that straddle discoveries |
| Matter subsystem (`subsystems/matter/`) | initialisation with backoff, commissioning, device caches | init, commission, subscribe | callbacks of the Matter stack against timeouts |
| Thread subsystem (`subsystems/thread/`) | initialisation task | init, network info | as above |
| Drivers (`core/deviceDrivers/`) | per device data | callbacks of the service | mostly conversion |
| Events, configuration, observability, API, reference application | little | forwarding | little |

How they interact: the client calls the **device service**, which asks the
**driver manager** for the drivers of a device class and starts **discovery**;
drivers start it in their **subsystem**. A subsystem interviews a device that
joins and hands it to a driver, which calls the service back to **pair** it.
Pairing writes the **database** and emits events. Traffic of a paired device
pets the **watchdog**, whose failures are written as a resource. Devices whose
driver or descriptor changed are **reconfigured** later by a delayed task. The
**subsystem manager** tells the service when devices can be used at all, the
**descriptor lists** when pairing is possible.

`PROJECT.json` lists every part with its status, and under `hazards` each
behaviour that is hard to test, at its line, with the properties aimed at it.

## Modules and code

Every module models threads as processes whose steps are the critical sections
of the code: what happens under a mutex is one action, what happens between two
critical sections can be interleaved. Strings, payloads and log output are
abstracted to model values. Definitions keep the names of the C functions where
one action is one function; a name such as `TermJoin` or `MonitorUnlink` is one
critical section of a longer function. `PROJECT.json` maps each definition to
its lines. Operators whose comment begins with "Mutant" are deliberately wrong
variants of the definition that follows them; each one breaks the property it
is listed with, which shows that the property depends on the code it is about.

**CommFailWatchdog** — `deviceCommunicationWatchdog.c` and the policy of
`deviceServiceCommFail.c`. The table is `monitored`, `info` (timeout, countdown
and age of the last setting of the countdown) and `inCommFail`; `commFail` is
the communicationFailure resource. Radio threads pet devices or force failures
(`PetDevice`, `ForceDeviceInCommFail`, then read and invoke the callback),
setter threads carry out `deviceServiceCommFailSetDeviceTimeoutSecs`, remover
threads remove devices, and the monitor thread (`ThreadWake`, `ThreadScan`,
`ThreadInvoke`...) collects expired devices and publishes them. `Tick` lets a
unit of time pass. `WatchdogInit` starts the thread and `WatchdogInitTable` creates
the table later, under the same mutex: a setter that comes in between finds the
watchdog running and no table, and its device stays unmonitored. Devices
stand for those that the watchdog looks after: for a driver with
`customCommFail` the setter returns early, and the callback that tells a driver
of a new timeout changes none of this state. `freed` records an entry that the table keeps after it was
freed; `quiet` and `contacted` are clocks that only properties read.

**SubsystemManager** — `subsystemManager.c` with the parts of `deviceService.c`
and `deviceDriverManager.c` that start, gate and shut down. One process per
subsystem and one for the service. A report is the sequence `CheckLock`,
`CheckOne`..., `CheckDone`, `ReadCallback`, `ReadyForDevicesCallback`, because
the check takes and releases a lock for every subsystem.

**DiscoverySession** — the abstract view that the rest of the service has of
discovery: a class has no session, or one with a mode and a filter that do not
change until it ends.

**Discovery** — `deviceServiceDiscoverStart`, its phases (support check, event,
drivers, rollback or monitors), `deviceServiceDiscoverStop`, the monitor
threads and their tables at shutdown. `discovering` is the set of drivers that
scan: a driver that scans serves one class (`SupportsAssumption`), and its stop
ignores the class it is given. `crossed` is history: the classes whose session
began while a monitor of an earlier life was still running. The classes of a
call are a set, and the filter is the same for all. It implements DiscoverySession (property
`Implements`, with the refinement mapping in `Session`).

**Pairing** — `deviceServiceDeviceFound` and `deviceServiceRemoveDevice`, one
step per call that reads or changes shared state. It is composed with
DiscoverySession, which Discovery implements, rather than with Discovery
itself: sessions begin and end under the device that is being paired. The end
of a session is four steps of its monitor (`ending`): drivers stop, rejected
devices are cleared, then failed ones, and the session is unlinked. A driver
may be in charge of a device from `configureDevice` on, so that a pairing that
fails later has something to give back. `unwanted`, `disturbed` and `contested`
are history: a removal during a pairing (before or after the last look at the
mark), a session that did not last, and a removal that overlapped a pairing, a
recovery that failed or a new device found in a recovery.

**JsonDatabase** — `database/jsonDatabase.c`. Every public function runs under
one mutex and is one action. A device is a function from its items to values;
`devices` and `locators` are the two maps, `stored` the files, `dirty` the
marks. Writes in `Failing` may fail; its members "Load" and "Uri" stand for
files that cannot be read, or only permissively, and for items whose URI is not
below that of their device. `durable` is a history variable: the
values that a restart may legitimately bring back.

**ZhalRequests** — `zhalImpl.c` and `zhalAsyncReceiver.c`: callers of
`zhalSendRequest`, the worker thread, one thread per transmission, the receiver
of answers, and `zhalTerm`/`zhalInit`. `busy` is `isBusy` of each queue.

**ZigbeeDiscovery** — the discovery part of `zigbeeSubsystem.c` and the device
callbacks of `zigbeeEventHandler.c`. A starter and one stopper per driver run
through the critical sections of start and stop; `handler` holds the threads
that interview a device, whose outcome is that it is claimed, rejected, failed
or unclaimed. A session may be a recovery (`recovering`, by the drivers in
`Recoverers`), which turns new devices away and interviews known ones. The
monitor of every session, not only of the last, clears rejected and failed
devices at its end. History: `evicted` (paired devices that were told to
leave), `overtaken` (devices whose interview met the end of a session, or took
place in a recovery), `overlapped` (a driver was started while the last one was
being stopped).

**Reconfiguration** — the delayed task of `deviceService.c` (3600–3790 and
4720–5060), with removal, shutdown and the check-in of sleepy devices. A
context is a slot of `ctx`; `required` is the metadata that makes the next start ask
again. Scheduling, the removal of the old device and the addition of the new
one may fail. History: `unfinished` (begun and not succeeded), `overlapped` (two
tasks of the device ran at once), `asked` and `removed` (by a client).

**DescriptorHandler** — `deviceDescriptorHandler.c` and the background
processing in `deviceService.c`. Repeating tasks (an external library) are
slots of `tasks`; `taskId` holds the id the handler knows. The code of the two
lists differs only in names and in what happens without a URL; the module
follows one of them, either one, and sees of the other that it is valid. An
update is asked for on the thread of its caller, by Init or by the setter of a
property, and nothing orders these calls (`call`). Init reads the URL, reads
the file and publishes in three steps. Recording the URL or the checksum may
fail, which nobody notices. The override of the allowlist and the regular URL
are one URL, the one that counts. History: `overlapped` (two calls, or a call
and the end of a task), `misrecorded`.

Code outside the repository (threads, hash maps, delayed and repeating tasks,
storage, GLib) is modelled from its use and marked `external` in the map.

## Runs

Runs that pass:

| Run | Configuration | Properties | What it shows |
|---|---|---|---|
| watchdog_time | `MC_Watchdog_time.cfg` | `TypeOK`, `TimeAccounted`, `NoEarlyFailure` | Ticks, pets, removals, timeout changes and a restart of the watchdog in every order: no silence is lost, and no device is collected as failed before its whole timeout has passed. |
| watchdog_full | `MC_Watchdog_full.cfg` | `MonitorGoneAfterTerm`, `ExpiryIsPublished` | Two threads set timeouts and one reports radio traffic, with fast mode and low power mode, while the watchdog is initialised and terminated: after termination no monitor thread and no monitored device is left, and a device whose time has run out is published as failed unless it is heard of, removed or the watchdog stops. |
| subsystems_gate | `MC_Subsystems_gate.cfg` | `TypeOK`, `NoMissedReadiness`, `ReadyOnlyWhenAllAre` | Subsystems come up, and one of them goes down again, in any order while the service starts its drivers and shuts down: the ready callback fires only when all are ready and the drivers started, and the last report is never missed by both sides. |
| discovery_scan | `MC_Discovery_scan.cfg` | `TypeOK`, `NoOrphanedScan`, `SessionScansUnlessCrossed`, `Implements`, `SessionEnds` | Failing starts, rollbacks, stops, timeouts, a shutdown and a restart: no driver is left scanning without an owner, a session that waits scans unless the monitor of an earlier life crossed it, a timed session ends, and the rest of the service sees the sessions of DiscoverySession. |
| database_saves | `MC_JsonDatabase_saves.cfg` | `TypeOK`, `LookupsAgree`, `CleanIsStored`, `SavedSurvives`, `RemovedIsForgotten` | All operations that change devices, with failing writes (but for those of an added endpoint and of the first system properties), failing deletes, lazy saves, crashes, reloads and restores; uuids are new, URIs well formed and files readable: memory, locators and files stay consistent and what was saved survives. |
| pairing_pair | `MC_Pairing_pair.cfg` | `TypeOK`, `UncontestedAgree`, `MarkedInTimeIsGone`, `FiltersHonoured` | A device is found, filtered, configured, persisted or rolled back, recovered and removed, at any time and in any order, while sessions of its class and of another one begin and end: driver, database and client agree in the end unless a removal and a pairing overlapped or a recovery went wrong, filters are honoured while the session lasts, and a device marked in time is not added. |
| zhal_requests | `MC_ZhalRequests_requests.cfg` | `TypeOK`, `BusyIsAccurate`, `NoForgottenWork`, `ReturnsUnlessMutexLost` | Answers, late answers, failed transmissions, timeouts, zhalTerm and a second zhalInit in every order: a queue is busy exactly while one of its items is in flight, the worker is woken when there is work, and every call returns unless the mutex of the queues was left locked. |
| zigbee_session | `MC_ZigbeeDiscovery_session.cfg` | `TypeOK`, `RefCountAccurate`, `SessionRunsUnlessOverlapped`, `KnownDevicesStayUnlessOvertaken` | Starts and stops of two drivers with failures, recoveries, joins, interviews, rejections and early commands: the reference count is right, the network is open while a driver discovers unless a start and a stop overlapped, and (with the same exception) a paired device is told to leave only if its interview was overtaken by the end of a session or belonged to a recovery. |
| reconfiguration_tasks | `MC_Reconfiguration_tasks.cfg` | `TypeOK`, `OneTaskPerDevice`, `RetriedAfterRestart`, `PendingEndsIfScheduled` | Requests, check-ins, failing steps, timeouts, removals, shutdown and a crash: a device has at most one task until it is removed or the service shuts down, a reconfiguration that did not succeed is asked for again as long as the device is in the database and no two of its tasks ran at once, and every scheduled one ends. |
| descriptors_update | `MC_DescriptorHandler_update.cfg` | `TypeOK`, `OneUpdateUnlessOverlapped`, `UpdatesAreProcessed`, `LatestWinsUnlessOverlapped`, `TrustedUnlessOverlapped`, `BecomesReadyUnlessCleared` | Init and a setter of the URL call for updates of a list on their own threads, downloads and records fail, and the process crashes at any point: unless calls overlapped there is one update, the list of the last URL wins, a file that would not be fetched again is the right one (if URL and checksum could be recorded) and pairing becomes possible; and a fetched list is always processed. |

## Bounds

All counters and sets that are unbounded in the program are bounded by named
constants.

- **Watchdog.** One device suffices: no step of the code relates two devices
  except the batch of the monitor thread, and a device's fate does not depend
  on the rest of the batch. `U32` stands for 2^32 and is scaled down with
  `MillisPerSec`. In `watchdog_time`, `Timeouts` contains 0 (not monitored), 1 and
  2 seconds of 2 ticks, so that a timeout can be shortened below the silence so
  far. In `watchdog_full` two setters race on the table; a second is one tick,
  to keep the run small. Both runs have two lives of the watchdog
  (`MaxRestarts = 2` counts both starts).
- **Subsystems.** Two subsystems, of which one is `Flaky`, that is, may go down
  again: the order of their reports matters, and a third adds only more orders
  of the same kind. One life of the service; a second one (`MaxStarts = 2`) is
  among the disagreements.
- **Discovery.** Two classes and three drivers, two of which serve the same
  class and one of which cannot recover, one filter, two kinds of timeout, two
  lives of the service, and two monitor contexts, so that a monitor on its way
  out, or left over from the life before, meets the next one. `DiscoverStart`
  is not called while there are too few free contexts: that guard is a bound.
- **Database.** One device with six items and two values. All operations work
  on one device at a time under one mutex, so a second one only multiplies the
  states; the states of one device include every combination of memory, file
  and mark.
- **Pairing.** One device, which one of the two filters of its class does not
  match, and two classes, so that sessions of another class, with one filter
  (`FiltersFor`), come and go as well. Two
  devices at once did not finish in ten minutes, so pairings of different
  devices that overlap are not checked.
- **ZHAL.** Two requests for one device, so that one waits in the queue while
  the other is in flight, and two calls of `zhalInit`.
- **Zigbee discovery.** Two drivers, one device that one of them claims, two
  cycles of discovery; the driver that claims the device also recovers.
- **Reconfiguration.** One device and two contexts, so that a second task can
  be asked for while the first one is there; one crash.
- **Descriptors.** One list, two URLs, two tasks in one life of the process
  (that of Init and that of a change), one change, two runs of the processing at
  a time, one crash. With two changes and neither crash nor processing
  (`MaxChanges = 2`, `MaxTasks = 3`, `MaxRuns = 0`, `MaxCrashes = 0`) the invariants
  hold as well. With two changes and a crash `TrustedUnlessOverlapped` does not:
  see the disagreements.

No run uses symmetry: with sets this small it saves little, and it is unsound
for liveness.

Where a property holds only under a restriction that the program does not
guarantee, the property says so itself, and the unrestricted one is stated
beside it and listed under [Disagreements](#disagreements-with-docs-and-comments):
`SessionScansUnlessCrossed`, `SessionEnds` (before a restart),
`UncontestedAgree`, `FiltersHonoured`, `MarkedInTimeIsGone`,
`ReturnsUnlessMutexLost`, `SessionRunsUnlessOverlapped`,
`KnownDevicesStayUnlessOvertaken`, `OneTaskPerDevice` (before a removal or a
shutdown), `RetriedAfterRestart` (one task of the device at a time, and the
device is in the database), `PendingEndsIfScheduled`,
`OneUpdateUnlessOverlapped`, `LatestWinsUnlessOverlapped`,
`TrustedUnlessOverlapped`, `UpdatesAreProcessed`, `BecomesReadyUnlessCleared`.
Except for `SessionEnds` the exceptions are causes that the model records, not
bounds on the number of steps. The restrictions made by constants are: watchdog
time without fast or low power mode (`FastDivisors`, `LpmMillis`; both change
countdowns on purpose) and with one setter; one life of the subsystem manager; no
second add of a known uuid (`AddKnown`), no failure of two of the database's
writes, no unreadable file and no bad URI (`Failing`); one change of a descriptor
URL (`MaxChanges`).

`CHECK_DEADLOCK FALSE` is set where a bounded system comes to rest: all starts,
requests, changes or contexts are used up. The watchdog, the database and
pairing can always take a step, and deadlock is checked there.

## Fairness

Liveness is checked under the `FairSpec` of the module. What is assumed of the
scheduler is that a thread that can take a step takes it at last; no fairness
is assumed of clients, radios, devices or the network, except as follows.

- *Watchdog*: the monitor thread and a radio thread that owes a callback.
- *Discovery*: a call returns, a shutdown completes, a monitor runs and its
  timeout expires. Strong fairness for the last critical section of a monitor
  (`MonitorUnlink`), because the mutex it wants can be taken by others again
  and again without being held for ever.
- *ZHAL*: callers, worker, transmissions and termination; timeouts expire, and
  the sockets of a transmission have timeouts of their own. Answers may never
  come.
- *Reconfiguration*: a delayed task that was scheduled starts and runs; its wait for a sleepy
  device ends after 30 minutes.
- *Descriptors*: the threads of Init and of setters run, the other list is
  fetched at last, and repeating tasks repeat; strong fairness of
  `downloadFile`, that is, a URL that is tried again for ever is fetched once.
  Without it no service could promise to become ready.

## Proofs

`CommFailWatchdogProofs` proves, for every set of devices, threads and
timeouts:

- `TypeCorrect`: `Spec => []TypeOK`. The conjuncts need the arithmetic of 32-bit
  countdowns (lemmas `Arithmetic`, `Division`, `InfoUpdate`,
  `DivisorPositive`).
- `MonitorGone`: `Spec => []MonitorGoneAfterTerm`. The property is not
  inductive: a thread could be started again by a service that is down. The
  invariant `ServiceInv` adds that the watchdog is not running while the service
  is down or joins the thread.
- `TimeIsAccounted`: `Spec => []TimeAccounted` under `PlainTime`: no fast or low
  power mode, no product that overflows, and at most one thread that sets
  timeouts. The invariant `TimeInv` adds that no record was freed and that a
  setter that is about to monitor a device found it unmonitored. Every part of
  `PlainTime` is needed: fast mode divides countdowns, low power mode replaces
  them, and overflow and a second setter are among the disagreements
  (`TimerResetOnCommunication`, `MonitoredRecordsLive`).
- `NeverEarly`: `Spec => NoEarlyFailure` under `PlainTime`: from `TimeAccounted`,
  a countdown at zero means a silence of at least the timeout.

The constants are constrained only by the named assumptions in
`CommFailWatchdog` (`U32Assumption`, `TimeoutsAssumption`, `FastAssumption`,
`LpmAssumption`, `MinUpdateAssumption`, `MaxRestartsAssumption`,
`NoDeviceAssumption`), which TLC evaluates in every run of that
module.

Only model-checked: everything else, in particular all liveness properties
(fairness and ENABLED are out of the prover's reach), the refinement
`Implements`, and the invariants of the other modules, which the plan takes up.
No module uses RECURSIVE operators, and none needs induction over data.

## Disagreements with docs and comments

Two runs check one statement of a document or comment each and end with a
counterexample; `PROJECT.json` quotes the statement with its place. Further
properties that one might expect of the code, and that fail, follow them.

| Run | Property | Where | What happens |
|---|---|---|---|
| discovery_lost | `StopIsAnnounced` | deviceService.c:865 | A stop that arrives before the monitor thread waits on its condition is lost, and a session without a timeout goes on for ever. |
| zhal_shutdown | `RequestReturns` | zhal/c/src/zhalImpl.c:416 | A caller that finds the queues gone returns with their mutex locked, and every later call blocks. |

The following have no run of their own. The property is defined in the module;
its comment quotes a document or comment of the repository where it comes from
one. It fails when it takes the place of the properties of the named
configuration, with the change given. Invariants were checked under `Spec`.

| Property | Configuration | Change | Where | What happens |
|---|---|---|---|---|
| `FailureReflectedInResource` | `MC_Watchdog_time.cfg` | `Radios = {r1, r2}`, `Removers = {}`, `Timeouts = {1}` | deviceCommunicationWatchdog.c:252 | A pet and a forced failure of one device invoke their callbacks outside of the mutex, in the opposite order of their changes: the watchdog's flag and the communicationFailure resource end up different. |
| `NoCallbackAfterTerm` | `MC_Watchdog_time.cfg` | none | deviceCommunicationWatchdog.c:247 | A radio thread that copied the callback before the watchdog was terminated invokes it after termination has returned (the comment at :135 says that this is prevented). |
| `MonitoredRecordsLive` | `MC_Watchdog_time.cfg` | `Setters = {s1, s2}` | deviceCommunicationWatchdog.c:182 | Two threads that set the timeout of a new device both find it unmonitored; the second insertion frees the record that the table keeps. |
| `TimerResetOnCommunication` | `MC_Watchdog_time.cfg` | `Timeouts = {3}` | deviceCommunicationWatchdog.c:226 | A timeout whose milliseconds exceed `uint32_t` is reset to the wrapped product. |
| `ContactWrittenOncePerWindow` | `MC_Watchdog_time.cfg` | `MinUpdateInterval = 2` | deviceCommunicationWatchdog.c:226 | The debounce window is measured from the last setting of the countdown, not from the last write, so a chatty device never has dateLastContacted written. |
| `ReadyOnlyWhenAllAre` | `MC_Subsystems_gate.cfg` | `Flaky = {}`, `MaxStarts = 2`, `Spec` | subsystemManager.c:634 | `allDriversStarted` is not reset by a shutdown: after a restart the gate opens before the drivers are started. |
| `ReadyOnlyWhileStarted` | `MC_Subsystems_gate.cfg` | `Flaky = {}` | deviceService.c:3292 | A subsystem that comes up during shutdown sets the ready flag, and the stopped service keeps it. |
| `StopIsAnnounced` | `MC_Discovery_lost.cfg` | `Classes = {sensor, light}`, `Drivers` and `Discovers = {zigbeeSensor, zigbeeLight}`, `Supports <- TwoDrivers`, `Timeouts = {"timed"}`, `Monitors = {m1, m2}` | deviceService.c:787 | The started event of a call also lists classes that are in `activeDiscoveries` only because their monitor, which has sent their stopped event, has yet to remove them; for those no stopped event follows. |
| `StopIsAnnounced` | `MC_Discovery_lost.cfg` | `NeverReject = {zigbeeSensor}`, `Discovers = {}`, `Timeouts = {"timed"}` | deviceService.c:3430 | A class whose drivers have no discovery callback, as those of Matter, gets a session whose end is not announced. |
| `SessionScans` | `MC_Discovery_scan.cfg` | none | deviceService.c:3458 | The monitor of a session from before a restart stops the drivers of the session that was started after it. |
| `RejectableDriversWait` | `MC_Discovery_scan.cfg` | `NeverReject = {hue}`, `MaxStarts = 1`, `Spec` | deviceService.c:560 | The drivers of a class are looked up again, without the filter by readiness, when they are started (the comment at :455 says that those not tagged neverReject are removed). |
| `LookupsAgree` | `MC_JsonDatabase_saves.cfg` | `AddKnown = TRUE` | database/jsonDatabase.c:1060 | Adding a device whose uuid is in use fails and takes the locators of the device that is there with it (the comment at :442 says that the addition is atomic). |
| `CleanIsStored` | `MC_JsonDatabase_saves.cfg` | `Failing = {"AddEndpoint"}` | database/jsonDatabase.c:1126 | An endpoint whose device cannot be written stays in memory in an entry that is not marked dirty. |
| `SavedSurvives`, `RemovedIsForgotten` | `MC_JsonDatabase_saves.cfg` | `Failing = {"Initialize"}` | database/jsonDatabase.c:758 | When the first write of the system properties fails, devices that are saved later are not loaded at the next start. |
| `CleanIsStored`, `SavedSurvives`, `RemovedIsForgotten` | `MC_JsonDatabase_saves.cfg` | `Failing = {"Load"}` | database/jsonDatabase.c:666 | A device that cannot be read at a start, or only permissively, or all of them when the system properties cannot be parsed, is absent from memory or there in part, while its file remains. |
| `LookupsAgree`, `CleanIsStored` | `MC_JsonDatabase_saves.cfg` | `Failing = {"Uri"}` | database/jsonDatabase.c:1133, 1798 | An endpoint with an item that has a bad URI is refused but leaves locators behind; metadata with a bad URI stays in the device, in an entry that is not marked dirty. |
| `DriverMatchesDatabase` | `MC_Pairing_pair.cfg` | none | deviceService.c:2604 | A known device whose recovery fails is removed from its driver and stays in the database; a device removed between its addition to the database and devicePersisted (:2594) is left with its driver; and a new device that is found while its class is being recovered is reported as paired without being added. |
| `ClientMatchesDatabase` | `MC_Pairing_pair.cfg` | none | deviceService.c:1052 | A device that pairs again while its removal is under way is announced before its removal is. |
| `FiltersApplied` | `MC_Pairing_pair.cfg` | none | deviceService.c:2538 | The session of a device that is being configured ends, and the device is added without its filters. |
| `RemovalSticks` | `MC_Pairing_pair.cfg` | none | deviceService.c:1060 | A removal marks a device after its pairing looked for the mark: the device is kept. |
| `MarkIsForThisPairing` | `MC_Pairing_pair.cfg` | none | deviceService.c:2572 | The mark of a removal of a device that is not there makes a later pairing of it fail. |
| `SessionRuns` | `MC_ZigbeeDiscovery_session.cfg` | none | subsystems/zigbee/zigbeeSubsystem.c:1384 | The last stop closes the network after a start that overlaps with it has opened it. |
| `KnownDevicesStay` | `MC_ZigbeeDiscovery_session.cfg` | none | subsystems/zigbee/zigbeeSubsystem.c:1038 | An interview that straddles two discoveries leaves a paired device among the unclaimed ones, and it is told to leave. So it is when the end of another session clears the failed devices (deviceService.c:3463) during the interview of one of them, and when a known device is interviewed in a recovery and claimed by no driver. |
| `UnclaimedToldToLeave` | `MC_ZigbeeDiscovery_session.cfg` | none | subsystems/zigbee/zigbeeSubsystem.c:1038 | A device whose interview ends after discovery stopped is added to the unclaimed ones and not told to leave. |
| `PrematureCommandsLive` | `MC_ZigbeeDiscovery_session.cfg` | none | subsystems/zigbee/zigbeeSubsystem.c:1322 | A cluster command that arrives while a second discovery starts uses the map of premature commands after it was destroyed. |
| `DeviceKept` | `MC_Reconfiguration_tasks.cfg` | none | deviceService.c:3750 | A crash between the removal of the old device and the addition of the new one, or a failed addition, whose result is not looked at, loses the device. |
| `RemovedStaysAway` | `MC_Reconfiguration_tasks.cfg` | none | deviceService.c:4764 | A removal does not look whether the cancellation of a task succeeded; a task that has started by then adds the device again. |
| `ShutdownWaitsForTasks` | `MC_Reconfiguration_tasks.cfg` | none | deviceService.c:4817 | Shutdown drops the entry of a task that it cannot cancel any more, and does not wait for it. |
| `PendingEnds` | `MC_Reconfiguration_tasks.cfg` | none | deviceService.c:5038 | When the delayed task cannot be scheduled its context stays in the map, and the device is never reconfigured in this life of the service. |
| `OneUpdate` | `MC_DescriptorHandler_update.cfg` | none | deviceDescriptorHandler.c:242, 429 | Two calls that overlap both find no task and both start one; and the destructor of a finished task clears the id of its successor, which is then not cancelled. |
| `LatestWins` | `MC_DescriptorHandler_update.cfg` | none | deviceDescriptorHandler.c:122 | Init reads the old URL, a setter starts the update for the new one, and Init then cancels it and fetches the old list. |
| `TrustedFileIsRight` | `MC_DescriptorHandler_update.cfg` | none | deviceDescriptorHandler.c:380 | Two updates that run at once record the URL of one with the file of the other; a URL or checksum that is not recorded leaves the old one beside the new. |
| `TrustedUnlessOverlapped` | `MC_DescriptorHandler_update.cfg` | `MaxChanges = 2` | deviceDescriptorHandler.c:380 | A crash between the two records leaves the new URL beside the old checksum; when the URL is changed back, the file then fetched matches that checksum, and until its own URL is recorded it is trusted as the list of the other one. |
| `ChangesAreProcessed` | `MC_DescriptorHandler_update.cfg` | none | deviceDescriptorHandler.c:471 | A denylist that is removed is not processed by the drivers until something else has them do so. |
| `BecomesReady` | `MC_DescriptorHandler_update.cfg` | none | deviceDescriptorHandler.c:466 | When the denylist URL is cleared before its download succeeded the denylist never becomes valid, and pairing never possible. The same happens when the update of a setter completes between the look of Init at the file (:138) and its critical section (:146). |

## Not modelled

- **Conversion and I/O**: JSON, XML and Zigbee message formats, sockets, D-Bus,
  the Matter SDK. No property here depends on them beyond success or failure.
- **Resources and metadata** of the device service, with their caching policies
  and events; planned.
- **Drivers**: what they configure and convert. Their callbacks into the service
  are part of the models.
- **Matter and Thread subsystems**: planned. SBMD scripts stay out: what a
  script computes is not a question of this kind.
- **API, reference application, observability, configuration**: they forward,
  print or count.
- In modelled parts: migration of subsystem data, broadcasts to all subsystems
  and configuration restore (subsystem manager); the device migrator
  (pairing); network initialisation (ZHAL); low power mode and network health
  (Zigbee); destruction of the descriptor handler.

## Plan

Done: the nine components above, in the order watchdog, subsystem manager,
discovery and sessions, database, pairing (composed with sessions), request
queues, Zigbee discovery, reconfiguration, descriptor lists; the proofs about
the watchdog.

Next modules, in this order:

1. *Resources*: `updateResource`, `deviceServiceWriteResource` and metadata, with
   two updaters, the lazy save modes and events. Composition with JsonDatabase
   through an abstract store that JsonDatabase implements.
2. *MatterLifecycle*: initialisation with backoff of the Matter subsystem and
   the task of the Thread subsystem, against shutdown; composed with the
   interface of SubsystemManager.
3. *ZigbeeHealth*: low power mode, and the thread that checks whether all
   devices are in communication failure, against the watchdog.
4. *ZhalEvents*: duplicate suppression and one thread per event.
5. *MatterCommissioning* and *MatterOperations*: orchestrator, discoverer and
   device cache, promises of asynchronous operations against timeouts.
6. *FirmwareUpgrade* of the Zigbee drivers, *Versions* of the descriptor library
   (operators checked against a reference definition).

Next theorems:

1. *JsonDatabase*: `TypeOK`; `LookupsAgree` when no known uuid is added again;
   `CleanIsStored` when no write of an endpoint fails; `RemovedIsForgotten`.
2. *SubsystemManager*: `TypeOK`, `ReadyOnlyWhenAllAre` for one start.
3. *Discovery*: `TypeOK`, `NoOrphanedScan`, and the refinement of
   DiscoverySession.
4. *ZhalRequests*: `BusyIsAccurate`.
5. *Reconfiguration*: `OneTaskPerDevice`, `RetriedAfterRestart`.
