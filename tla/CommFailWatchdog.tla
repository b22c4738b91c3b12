-------------------------- MODULE CommFailWatchdog --------------------------
(***************************************************************************)
(* The communication watchdog (core/src/deviceCommunicationWatchdog.c) and *)
(* the comm-fail glue of the device service (deviceServiceCommFail.c).     *)
(*                                                                         *)
(* The watchdog keeps a table of monitored devices under one mutex and its *)
(* running flag and callbacks under another.  A device is marked in        *)
(* communication failure under the table mutex, but the callback that      *)
(* publishes the change runs after the mutex is released.  One action is   *)
(* one critical section, or one callback.                                  *)
(*                                                                         *)
(* The code keeps a remaining time and the clock value at which it was     *)
(* set, and subtracts; here Tick counts the remaining time down, which is  *)
(* the same number.                                                        *)
(***************************************************************************)
EXTENDS Integers, FiniteSets

CONSTANTS
    Devices,            \* device uuids
    NoDevice,           \* not a uuid
    Radios,             \* threads that pet a device or force it into failure
    Setters,            \* threads in deviceServiceCommFailSetDeviceTimeoutSecs
    Removers,           \* threads in a driver's deviceRemoved
    Timeouts,           \* commFailTimeoutSeconds values (0 disables)
    MillisPerSec,       \* the 1000 of commFailTimeoutSeconds * 1000
    U32,                \* the modulus of uint32_t
    FastDivisors,       \* what fast comm fail divides by; {} when never used
    LpmMillis,          \* times restored when leaving low power mode
    MinUpdateInterval,  \* MIN_UPDATE_INTERVAL_MILLIS
    MaxRestarts         \* bound on Init/Term cycles

ASSUME TimeoutsAssumption == Timeouts \subseteq 0 .. (U32 - 1) /\ Timeouts # {}
ASSUME U32Assumption == U32 \in Nat \ {0} /\ MillisPerSec \in Nat \ {0}
ASSUME FastAssumption == FastDivisors \subseteq Nat \ {0}
ASSUME LpmAssumption == LpmMillis \subseteq 0 .. (U32 - 1)
ASSUME MinUpdateAssumption == MinUpdateInterval \in Nat
ASSUME MaxRestartsAssumption == MaxRestarts \in Nat
ASSUME NoDeviceAssumption == NoDevice \notin Devices

VARIABLES
    service,    \* the service thread: "down", "starting", "up" or "joining" the monitor
    running,    \* the running flag
    callbacks,  \* TRUE iff failedCallback and restoredCallback are set
    fast,       \* fastCommFailTimer: 1, or the divisor in force
    thread,     \* the monitor thread: [pc, divisor, batch, uuid]
    monitored,  \* keys of the monitoredDevices table
    info,       \* times of the table's records, meaningful for monitored devices
    inCommFail, \* devices whose record has inCommFail set
    freed,      \* devices whose record the table holds but has been destroyed
    commFail,   \* devices whose communicationFailure resource is "true"
    database,   \* devices the device database holds
    radio,      \* per Radios thread: [pc, uuid]
    setter,     \* per Setters thread: [pc, uuid, secs, isCommFail]
    remover,    \* per Removers thread: [pc, uuid]
    contacted,  \* time since dateLastContacted was written, saturating
    quiet,      \* time since the device was last heard of, saturating
    restarts    \* how many times Init has run

vars == <<service, running, callbacks, fast, thread, monitored, info,
          inCommFail, freed, commFail, database, radio, setter, remover, contacted, quiet, restarts>>

serviceVars == <<service, running, callbacks, fast, restarts>>
tableVars   == <<monitored, info, inCommFail, freed>>
clientVars  == <<radio, setter, remover>>
deviceVars  == <<commFail, database>>
clockVars   == <<contacted, quiet>>

-----------------------------------------------------------------------------
(* Data *)

\* The unsigned 32-bit product commFailTimeoutSeconds * 1000.
SecsToMillis(secs) == (secs * MillisPerSec) % U32

\* The product as arithmetic has it, which is what the timeout means.
TimeoutMillis(secs) == secs * MillisPerSec

QuietCap == U32 * MillisPerSec

\* MonitoredDeviceInfo.  sinceSync is the age of
\* commFailRemainingLastSyncMillis, saturating at the only value it is compared
\* with.
Info == [timeout : Timeouts, remaining : 0 .. (U32 - 1), sinceSync : 0 .. MinUpdateInterval]

ThreadPcs == {"none", "wait", "scan", "notify", "invoke", "exited"}
RadioPcs  == {"idle", "readRestored", "restored", "readFailed", "failed"}
SetterPcs == {"idle", "isMonitored", "stop", "monitor"}

TypeOK ==
    /\ service \in {"down", "starting", "up", "joining"}
    /\ running \in BOOLEAN
    /\ callbacks \in BOOLEAN
    /\ fast \in FastDivisors \cup {1}
    /\ thread \in [pc : ThreadPcs, divisor : FastDivisors \cup {1},
                   batch : SUBSET Devices, uuid : Devices \cup {NoDevice}]
    /\ monitored \in SUBSET Devices
    /\ info \in [Devices -> Info]
    /\ inCommFail \in SUBSET Devices
    /\ freed \in SUBSET Devices
    /\ commFail \in SUBSET Devices
    /\ database \in SUBSET Devices
    /\ radio \in [Radios -> [pc : RadioPcs, uuid : Devices \cup {NoDevice}]]
    /\ setter \in [Setters -> [pc : SetterPcs, uuid : Devices \cup {NoDevice},
                               secs : Timeouts, isCommFail : BOOLEAN]]
    /\ \A s \in Setters : setter[s].pc # "idle" => setter[s].uuid \in Devices
    /\ remover \in [Removers -> [pc : {"idle", "stop"}, uuid : Devices \cup {NoDevice}]]
    /\ contacted \in [Devices -> 0 .. MinUpdateInterval]
    /\ quiet \in [Devices -> 0 .. QuietCap]
    /\ restarts \in 0 .. MaxRestarts

AnyTimeout == CHOOSE t \in Timeouts : TRUE

Init ==
    /\ service = "down"
    /\ running = FALSE
    /\ callbacks = FALSE
    /\ fast = 1
    /\ thread = [pc |-> "none", divisor |-> 1, batch |-> {}, uuid |-> NoDevice]
    /\ monitored = {}
    /\ info = [d \in Devices |-> [timeout |-> AnyTimeout, remaining |-> 0, sinceSync |-> 0]]
    /\ inCommFail = {}
    /\ freed = {}
    /\ commFail \in SUBSET Devices
    /\ database = Devices
    /\ radio = [r \in Radios |-> [pc |-> "idle", uuid |-> NoDevice]]
    /\ setter = [s \in Setters |-> [pc |-> "idle", uuid |-> NoDevice,
                                    secs |-> AnyTimeout, isCommFail |-> FALSE]]
    /\ remover = [x \in Removers |-> [pc |-> "idle", uuid |-> NoDevice]]
    /\ contacted = [d \in Devices |-> 0]
    /\ quiet = [d \in Devices |-> 0]
    /\ restarts = 0

\* setMillisUntilCommFail: a new remaining time, and a new sync time.
Synced(d, millis) == [timeout |-> info[d].timeout, remaining |-> millis, sinceSync |-> 0]

-----------------------------------------------------------------------------
(* The service thread: start and stop of the watchdog *)

\* deviceCommunicationWatchdogInit, under controlMutex, sets running and creates the thread ...
WatchdogInit ==
    /\ service = "down"
    /\ restarts < MaxRestarts
    /\ ~callbacks
    /\ service' = "starting"
    /\ running' = TRUE
    /\ thread' = [pc |-> "wait", divisor |-> 1, batch |-> {}, uuid |-> NoDevice]
    /\ restarts' = restarts + 1
    /\ UNCHANGED <<callbacks, fast, tableVars, deviceVars, clientVars, clockVars>>

\* ... before there is a table. The fast flag is read from the FAST_COMM_FAIL_PROP property.
WatchdogInitTable ==
    /\ service = "starting"
    /\ service' = "up"
    /\ monitored' = {} /\ inCommFail' = {} /\ freed' = {}
    /\ callbacks' = TRUE
    /\ fast' \in FastDivisors \cup {1}
    /\ UNCHANGED <<running, restarts, thread, info, deviceVars, clientVars, clockVars>>

\* controlMutex is held from the one step to the other.
ControlMutexFree == service # "starting"

\* deviceCommunicationWatchdogTerm up to the join.
TermSignal ==
    /\ service = "up"
    /\ running
    /\ service' = "joining"
    /\ running' = FALSE
    /\ callbacks' = FALSE
    /\ UNCHANGED <<fast, restarts, thread, tableVars, deviceVars, clientVars, clockVars>>

\* A mutant: Term returns without joining the monitor thread.
TermNoJoin ==
    /\ service = "joining"
    /\ service' = "down"
    /\ monitored' = {} /\ inCommFail' = {} /\ freed' = {}
    /\ UNCHANGED <<running, callbacks, fast, restarts, thread, info,
                   deviceVars, clientVars, clockVars>>

\* The join, then the destruction of the table.
TermJoin ==
    /\ service = "joining"
    /\ thread.pc = "exited"
    /\ service' = "down"
    /\ monitored' = {} /\ inCommFail' = {} /\ freed' = {}
    /\ UNCHANGED <<running, callbacks, fast, restarts, thread, info,
                   deviceVars, clientVars, clockVars>>

\* deviceCommunicationWatchdogSetFastCommfail, on a property change.
SetFastCommfail ==
    /\ service = "up"
    /\ fast' \in FastDivisors \cup {1}
    /\ UNCHANGED <<service, running, callbacks, restarts, thread, tableVars,
                   deviceVars, clientVars, clockVars>>

-----------------------------------------------------------------------------
(* The monitor thread, commFailWatchdogThreadProc *)

\* The wait on controlCond ends by its timeout, by a broadcast
\* (SetMonitorInterval, CheckDevices, SetFastCommfail, Term) or spuriously;
\* running is tested on both sides of it.
ThreadWake ==
    /\ thread.pc = "wait" /\ ControlMutexFree
    /\ thread' = IF running THEN [thread EXCEPT !.pc = "scan", !.divisor = fast]
                            ELSE [thread EXCEPT !.pc = "exited"]
    /\ UNCHANGED <<serviceVars, tableVars, deviceVars, clientVars, clockVars>>

MillisLeft(d) == info[d].remaining \div thread.divisor

\* A mutant: a device with a millisecond left already counts as expired.
ExpiredOffByOne == {d \in monitored : MillisLeft(d) <= 1 /\ d \notin inCommFail}

Expired == {d \in monitored : MillisLeft(d) = 0 /\ d \notin inCommFail}

\* A mutant: an expired device is marked but not collected for notification.
ThreadScanForgets ==
    /\ thread.pc = "scan"
    /\ inCommFail' = inCommFail \cup Expired
    /\ thread' = [thread EXCEPT !.pc = "notify"]
    /\ UNCHANGED <<serviceVars, monitored, info, freed, deviceVars, clientVars, clockVars>>

\* One pass over the table: every expired device is marked and collected, and
\* what is left of every device's time is written back with a new sync time.
ThreadScan ==
    /\ thread.pc = "scan"
    /\ info' = [d \in Devices |->
                  IF d \in monitored
                  THEN Synced(d, MillisLeft(d)) ELSE info[d]]
    /\ inCommFail' = inCommFail \cup Expired
    /\ thread' = [thread EXCEPT !.pc = "notify", !.batch = Expired]
    /\ UNCHANGED <<serviceVars, monitored, freed, deviceVars, clientVars, clockVars>>

\* The head of the notification loop: read failedCallback under controlMutex.
ThreadReadCallback ==
    /\ thread.pc = "notify"
    /\ \E d \in thread.batch :
          thread' = IF callbacks
                    THEN [thread EXCEPT !.pc = "invoke", !.batch = @ \ {d}, !.uuid = d]
                    ELSE [thread EXCEPT !.batch = @ \ {d}]
    /\ UNCHANGED <<serviceVars, tableVars, deviceVars, clientVars, clockVars>>

ThreadDone ==
    /\ thread.pc = "notify"
    /\ thread.batch = {}
    /\ thread' = [thread EXCEPT !.pc = "wait"]
    /\ UNCHANGED <<serviceVars, tableVars, deviceVars, clientVars, clockVars>>

\* deviceCommFailCallback: a device that is no longer in the database is
\* ignored, otherwise its driver sets the communicationFailure resource.
PublishFailed(d) ==
    commFail' = IF d \in database THEN commFail \cup {d} ELSE commFail

\* deviceCommRestoreCallback, which also writes dateLastContacted.
PublishRestored(d) ==
    /\ commFail' = IF d \in database THEN commFail \ {d} ELSE commFail
    /\ contacted' = IF d \in database THEN [contacted EXCEPT ![d] = 0] ELSE contacted

ThreadInvoke ==
    /\ thread.pc = "invoke"
    /\ PublishFailed(thread.uuid)
    /\ thread' = [thread EXCEPT !.pc = "notify", !.uuid = NoDevice]
    /\ UNCHANGED <<serviceVars, tableVars, database, clientVars, clockVars>>

-----------------------------------------------------------------------------
(* Communication with devices, reported by the radio's event threads *)

RadioGoes(r, pc, d) == radio' = [radio EXCEPT ![r] = [pc |-> pc, uuid |-> d]]

\* A mutant: only a device in failure gets its time back.
PetDeviceNoReset(r, d) ==
    /\ radio[r].pc = "idle"
    /\ d \notin inCommFail
    /\ quiet' = [quiet EXCEPT ![d] = 0]
    /\ UNCHANGED <<serviceVars, thread, tableVars, deviceVars, clientVars, contacted>>

\* deviceCommunicationWatchdogPetDevice under monitoredDevicesMutex: the time
\* restarts, dateLastContacted is written unless the last sync is too recent,
\* and a device in failure is cleared with a notification to follow.
PetDevice(r, d) ==
    /\ radio[r].pc = "idle"
    /\ IF d \in monitored
       THEN /\ info' = [info EXCEPT ![d] = Synced(d, SecsToMillis(info[d].timeout))]
            /\ inCommFail' = inCommFail \ {d}
            /\ contacted' = IF info[d].sinceSync >= MinUpdateInterval
                            THEN [contacted EXCEPT ![d] = 0] ELSE contacted
            /\ IF d \in inCommFail THEN RadioGoes(r, "readRestored", d)
                                   ELSE UNCHANGED radio
       ELSE UNCHANGED <<info, inCommFail, contacted, radio>>
    /\ quiet' = [quiet EXCEPT ![d] = 0]
    /\ UNCHANGED <<serviceVars, thread, monitored, freed, deviceVars, setter, remover>>

\* restoredCallback is read under controlMutex and called after it.
PetReadCallback(r) ==
    /\ radio[r].pc = "readRestored" /\ ControlMutexFree
    /\ IF callbacks THEN RadioGoes(r, "restored", radio[r].uuid)
                    ELSE RadioGoes(r, "idle", NoDevice)
    /\ UNCHANGED <<serviceVars, thread, tableVars, deviceVars, setter, remover, clockVars>>

PetInvoke(r) ==
    /\ radio[r].pc = "restored"
    /\ PublishRestored(radio[r].uuid)
    /\ RadioGoes(r, "idle", NoDevice)
    /\ UNCHANGED <<serviceVars, thread, tableVars, database, setter, remover, quiet>>

\* deviceCommunicationWatchdogForceDeviceInCommFail under the table mutex.
ForceDeviceInCommFail(r, d) ==
    /\ radio[r].pc = "idle"
    /\ d \in monitored \ inCommFail
    /\ inCommFail' = inCommFail \cup {d}
    /\ RadioGoes(r, "readFailed", d)
    /\ UNCHANGED <<serviceVars, thread, monitored, info, freed, deviceVars, setter, remover, clockVars>>

ForceReadCallback(r) ==
    /\ radio[r].pc = "readFailed" /\ ControlMutexFree
    /\ IF callbacks THEN RadioGoes(r, "failed", radio[r].uuid)
                    ELSE RadioGoes(r, "idle", NoDevice)
    /\ UNCHANGED <<serviceVars, thread, tableVars, deviceVars, setter, remover, clockVars>>

ForceInvoke(r) ==
    /\ radio[r].pc = "failed"
    /\ PublishFailed(radio[r].uuid)
    /\ RadioGoes(r, "idle", NoDevice)
    /\ UNCHANGED <<serviceVars, thread, tableVars, database, setter, remover, clockVars>>

\* deviceCommunicationWatchdogSetTimeRemainingForDeviceFromLPM: the time the
\* radio kept while the host slept replaces the remaining time.
SetTimeRemainingForDeviceFromLPM(d) ==
    /\ d \in monitored \ inCommFail
    /\ \E millis \in LpmMillis :
          info' = [info EXCEPT ![d] = Synced(d, millis)]
    /\ UNCHANGED <<serviceVars, thread, monitored, inCommFail, freed, deviceVars,
                   clientVars, clockVars>>

-----------------------------------------------------------------------------
(* deviceServiceCommFailSetDeviceTimeoutSecs: snapshot, test, stop, monitor *)

SetterGoes(s, pc) == setter' = [setter EXCEPT ![s].pc = pc]

\* The device, its communicationFailure resource included, was read from the
\* database before the call.  Devices are those of drivers without customCommFail:
\* for the others the call returns at once.  A driver's commFailTimeoutSecsChanged,
\* called first, changes no state of the watchdog.
SetDeviceTimeout(s, d) ==
    /\ setter[s].pc = "idle"
    /\ d \in database
    /\ \E secs \in Timeouts :
          setter' = [setter EXCEPT ![s] = [pc |-> "isMonitored", uuid |-> d, secs |-> secs,
                                           isCommFail |-> d \in commFail]]
    /\ UNCHANGED <<serviceVars, thread, tableVars, deviceVars, radio, remover, clockVars>>

\* The same call at the end of a pairing: the new device is not in failure.
PairDevice(s, d) ==
    /\ setter[s].pc = "idle"
    /\ d \notin database
    /\ service = "up"
    /\ database' = database \cup {d}
    /\ commFail' = commFail \ {d}
    /\ \E secs \in Timeouts :
          setter' = [setter EXCEPT ![s] = [pc |-> "isMonitored", uuid |-> d, secs |-> secs,
                                           isCommFail |-> FALSE]]
    /\ UNCHANGED <<serviceVars, thread, tableVars, radio, remover, clockVars>>

SetterIsMonitored(s) ==
    /\ setter[s].pc = "isMonitored"
    /\ SetterGoes(s, IF setter[s].uuid \in monitored THEN "stop" ELSE "monitor")
    /\ UNCHANGED <<serviceVars, thread, tableVars, deviceVars, radio, remover, clockVars>>

\* deviceCommunicationWatchdogStopMonitoringDevice.
Forget(d) ==
    /\ monitored' = monitored \ {d}
    /\ inCommFail' = inCommFail \ {d}
    /\ freed' = freed \ {d}

SetterStop(s) ==
    /\ setter[s].pc = "stop"
    /\ Forget(setter[s].uuid)
    /\ SetterGoes(s, "monitor")
    /\ UNCHANGED <<serviceVars, thread, info, deviceVars, radio, remover, clockVars>>

\* deviceCommunicationWatchdogMonitorDevice.  It tests running, which is set before
\* there is a table: inserting into none destroys the record, and the device is not
\* monitored.  Inserting under a key that is already there stores the new record,
\* and then destroys it.
SetterMonitor(s) ==
    LET d == setter[s].uuid
        secs == setter[s].secs
    IN  /\ setter[s].pc = "monitor"
        /\ setter' = [setter EXCEPT ![s] = [pc |-> "idle", uuid |-> NoDevice,
                                            secs |-> AnyTimeout, isCommFail |-> FALSE]]
        /\ IF running /\ service # "starting" /\ secs # 0
           THEN /\ monitored' = monitored \cup {d}
                /\ info' = [info EXCEPT ![d] =
                              [timeout |-> secs, remaining |-> SecsToMillis(secs), sinceSync |-> 0]]
                /\ inCommFail' = IF setter[s].isCommFail THEN inCommFail \cup {d}
                                                         ELSE inCommFail \ {d}
                /\ freed' = freed \cup ({d} \cap monitored)
                /\ quiet' = [quiet EXCEPT ![d] = 0]
           ELSE UNCHANGED <<tableVars, quiet>>
        /\ UNCHANGED <<serviceVars, thread, deviceVars, radio, remover, contacted>>

\* A destroyed record that the table still holds is memory others may reuse.
ScribbleFreed(d) ==
    /\ d \in freed
    /\ inCommFail' \in {inCommFail \ {d}, inCommFail \cup {d}}
    /\ \E n \in 0 .. (U32 - 1) : info' = [info EXCEPT ![d].remaining = n]
    /\ UNCHANGED <<serviceVars, thread, monitored, freed, deviceVars, clientVars, clockVars>>

-----------------------------------------------------------------------------
(* deviceServiceRemoveDevice: out of the database, then deviceRemoved *)

RemoveFromDatabase(x, d) ==
    /\ remover[x].pc = "idle"
    /\ d \in database
    /\ database' = database \ {d}
    /\ remover' = [remover EXCEPT ![x] = [pc |-> "stop", uuid |-> d]]
    /\ UNCHANGED <<serviceVars, thread, tableVars, commFail, radio, setter, clockVars>>

StopMonitoringDevice(x) ==
    /\ remover[x].pc = "stop"
    /\ Forget(remover[x].uuid)
    /\ remover' = [remover EXCEPT ![x] = [pc |-> "idle", uuid |-> NoDevice]]
    /\ UNCHANGED <<serviceVars, thread, info, deviceVars, radio, setter, clockVars>>

-----------------------------------------------------------------------------
(* Time *)

Down(n) == IF n = 0 THEN 0 ELSE n - 1
Up(n, cap) == IF n < cap THEN n + 1 ELSE n

\* A mutant: the subtraction of getMillisUntilCommFail without its test that the
\* remaining time exceeds the elapsed time.
TickUnguarded ==
    /\ info' = [d \in Devices |-> [info[d] EXCEPT !.remaining = @ - 1]]
    /\ UNCHANGED <<serviceVars, thread, monitored, inCommFail, freed, deviceVars,
                   clientVars, clockVars>>

\* A millisecond passes; only a running watchdog looks at the clock.
Tick ==
    /\ service # "down"
    /\ info' = [d \in Devices |-> [info[d] EXCEPT !.remaining = Down(@),
                                                  !.sinceSync = Up(@, MinUpdateInterval)]]
    /\ contacted' = [d \in Devices |-> Up(contacted[d], MinUpdateInterval)]
    /\ quiet' = [d \in Devices |-> Up(quiet[d], QuietCap)]
    /\ UNCHANGED <<serviceVars, thread, monitored, inCommFail, freed, deviceVars, clientVars>>

-----------------------------------------------------------------------------

ThreadNext == ThreadWake \/ ThreadScan \/ ThreadReadCallback \/ ThreadInvoke \/ ThreadDone

RadioFinish(r) == PetReadCallback(r) \/ PetInvoke(r) \/ ForceReadCallback(r) \/ ForceInvoke(r)

Next ==
    \/ WatchdogInit \/ WatchdogInitTable \/ TermSignal \/ TermJoin \/ SetFastCommfail
    \/ ThreadNext
    \/ \E r \in Radios : \/ RadioFinish(r)
                         \/ \E d \in Devices : PetDevice(r, d) \/ ForceDeviceInCommFail(r, d)
    \/ \E s \in Setters : \/ SetterIsMonitored(s) \/ SetterStop(s) \/ SetterMonitor(s)
                          \/ \E d \in Devices : SetDeviceTimeout(s, d) \/ PairDevice(s, d)
    \/ \E x \in Removers : \/ StopMonitoringDevice(x)
                           \/ \E d \in Devices : RemoveFromDatabase(x, d)
    \/ \E d \in Devices : SetTimeRemainingForDeviceFromLPM(d) \/ ScribbleFreed(d)
    \/ Tick

Spec == Init /\ [][Next]_vars

\* The monitor thread and a radio thread that owes a notification are ordinary
\* threads that the scheduler does not starve, and neither waits on a lock held
\* for longer than a critical section.
FairSpec == Spec /\ WF_vars(ThreadNext) /\ \A r \in Radios : WF_vars(RadioFinish(r))

-----------------------------------------------------------------------------
(* Properties *)

\* The watchdog never loses time: what is left of a device's timeout together
\* with the time since the device was last heard of (or monitoring began) is at
\* least the timeout.  Through fast mode, LPM or a wrapped product it could be
\* less, and the device would be reported too early.
TimeAccounted ==
    \A d \in monitored : info[d].remaining + quiet[d] >= TimeoutMillis(info[d].timeout)

\* The monitor thread reports a device only when it has really been silent for
\* its whole timeout (commFailWatchdogThreadProc, the expiry test).
NoEarlyFailure ==
    [][\A d \in thread'.batch \ thread.batch : quiet[d] >= TimeoutMillis(info[d].timeout)]_vars

\* Once deviceCommunicationWatchdogTerm has returned, the monitor thread is gone:
\* it was joined, and no device it collected is still to be reported.
MonitorGoneAfterTerm ==
    service = "down" => thread.pc \in {"none", "exited"} /\ monitored = {}

\* A device whose time has run out is published as failed by the monitor thread,
\* unless it is heard of or given time, removed, its record is destroyed, or the
\* watchdog stops.
ExpiryIsPublished ==
    \A d \in Devices :
        (d \in monitored \ inCommFail /\ info[d].remaining = 0 /\ running)
          ~> (\/ d \in commFail \/ info[d].remaining > 0
              \/ d \notin monitored \/ d \notin database \/ d \in freed \/ ~running)

\* The watchdog is up, and nobody is in the middle of an operation on d.
Quiescent(d) ==
    /\ service = "up"
    /\ d \notin thread.batch /\ thread.uuid # d
    /\ \A r \in Radios : radio[r].uuid # d
    /\ \A s \in Setters : setter[s].uuid # d

\* What the architecture document says: a device the watchdog has determined to
\* be in communication failure has its communicationFailure resource set.
FailureReflectedInResource ==
    \A d \in monitored \cap database : Quiescent(d) /\ d \in inCommFail => d \in commFail

\* What the comment in deviceCommunicationWatchdogTerm says: no other thread
\* invokes a callback once it has returned.
NoCallbackAfterTerm ==
    service = "down" => \A r \in Radios : radio[r].pc \notin {"restored", "failed"}

\* What the comment in deviceCommunicationWatchdogMonitorDevice says: monitoring
\* a device that is already monitored is handled; the table holds live records.
MonitoredRecordsLive == freed = {}

\* What the specification says of a pet: the remaining time becomes
\* commFailTimeoutSeconds * 1000.
TimerResetOnCommunication ==
    [][\A r \in Radios, d \in monitored :
          PetDevice(r, d) => info'[d].remaining = TimeoutMillis(info[d].timeout)]_vars

\* What the specification says of rapid events: the dateLastContacted write is
\* debounced to once per window, so a pet a window after the last write writes.
ContactWrittenOncePerWindow ==
    [][\A r \in Radios, d \in monitored :
          PetDevice(r, d) /\ contacted[d] >= MinUpdateInterval => contacted'[d] = 0]_vars
=============================================================================
