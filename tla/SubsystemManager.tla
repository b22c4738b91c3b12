-------------------------- MODULE SubsystemManager --------------------------
(***************************************************************************)
(* The readiness gate of the device service: core/src/subsystemManager.c,  *)
(* and deviceServiceStart, deviceServiceShutdown and                       *)
(* subsystemManagerReadyForDevicesCallback of core/src/deviceService.c.    *)
(*                                                                         *)
(* Every subsystem reports that it is ready, or no longer ready, from a    *)
(* thread of its own; the thread that starts the service reports that all  *)
(* drivers have started.  Whoever completes the condition calls            *)
(* readyForDevicesCB.  The readiness of all subsystems is read one         *)
(* registration at a time under the read lock of the table; the callback   *)
(* is read and called under no lock.                                       *)
(*                                                                         *)
(* Subsystem threads are numbered by the start of the service that made    *)
(* them, because shutdown does not wait for them.                          *)
(***************************************************************************)
EXTENDS Naturals, FiniteSets

CONSTANTS
    Subsystems,  \* registered subsystems: zigbee, matter, thread
    Flaky,       \* those that report themselves unready while in operation
    Service,     \* the thread that starts and stops the service
    MaxStarts    \* bound on starts of the service in one process

ASSUME FlakyAssumption == Flaky \subseteq Subsystems
ASSUME MaxStartsAssumption == MaxStarts \in Nat
ASSUME ServiceAssumption == Service \notin Subsystems \X (1 .. MaxStarts)

SubsystemThreads == Subsystems \X (1 .. MaxStarts)
Threads == SubsystemThreads \cup {Service}

VARIABLES
    starts,                     \* how often the service has been started
    service,                    \* where the service thread is in Start or Shutdown
    table,                      \* keys of the subsystems table; {} when it is NULL
    tableSet,                   \* TRUE iff the table is not NULL
    initialized,                \* subsystems whose initialize() this start has called
    ready,                      \* subsystems whose registration is marked ready
    allDriversStarted,
    callbackSet,                \* readyForDevicesCB is not NULL
    driversStarted,             \* drivers are between startup() and shutdown()
    subsystemsReadyForDevices,  \* what deviceServiceIsReadyForDeviceOperation returns
    pool,                       \* deviceInitializerThreadPool: "none", or what it was given
    pc,                         \* per thread, where it is in reporting readiness
    seen                        \* per thread, registrations its scan found ready

vars == <<starts, service, table, tableSet, initialized, ready, allDriversStarted, callbackSet,
          driversStarted, subsystemsReadyForDevices, pool, pc, seen>>

serviceVars == <<starts, service, initialized, driversStarted, pool>>
managerVars == <<table, tableSet, allDriversStarted, callbackSet>>

Pcs == {"off", "init", "check", "scan", "callback", "call", "schedule", "idle"}
ServicePcs == {"stopped", "initialize", "startDrivers", "report", "running",
               "drain", "stopDrivers", "stopManager", "stopSubsystems"}

TypeOK ==
    /\ starts \in 0 .. MaxStarts
    /\ service \in ServicePcs
    /\ table \subseteq Subsystems
    /\ tableSet \in BOOLEAN
    /\ initialized \subseteq Subsystems
    /\ ready \subseteq Subsystems
    /\ allDriversStarted \in BOOLEAN
    /\ callbackSet \in BOOLEAN
    /\ driversStarted \in BOOLEAN
    /\ subsystemsReadyForDevices \in BOOLEAN
    /\ pool \in {"none", "empty", "devices"}
    /\ pc \in [Threads -> Pcs]
    /\ seen \in [Threads -> SUBSET Subsystems]

Init ==
    /\ starts = 0
    /\ service = "stopped"
    /\ table = {} /\ tableSet = FALSE
    /\ initialized = {}
    /\ ready = {}
    /\ allDriversStarted = FALSE
    /\ callbackSet = FALSE
    /\ driversStarted = FALSE
    /\ subsystemsReadyForDevices = FALSE
    /\ pool = "none"
    /\ pc = [t \in Threads |-> "off"]
    /\ seen = [t \in Threads |-> {}]

Goes(t, where) == pc' = [pc EXCEPT ![t] = where]

\* Threads in subsystemManagerIsReadyForDevices hold the table's read lock.
WriteLockFree == \A t \in Threads : pc[t] # "scan"

-----------------------------------------------------------------------------
(* deviceServiceStart *)

\* deviceServiceStart up to and including the publication of the table in
\* subsystemManagerInitialize, which leaves out the subsystems that the
\* device.subsystem.disable property names.
Start ==
    /\ service = "stopped" /\ starts < MaxStarts
    /\ WriteLockFree
    /\ starts' = starts + 1
    /\ service' = "initialize"
    /\ pool' = "empty"
    /\ \E disabled \in SUBSET Subsystems : table' = Subsystems \ disabled
    /\ tableSet' = TRUE
    /\ ready' = {}
    /\ initialized' = {}
    /\ callbackSet' = TRUE
    /\ UNCHANGED <<allDriversStarted, driversStarted, subsystemsReadyForDevices, pc, seen>>

\* initializeSubsystemCallback: the subsystem starts to bring itself up in a
\* thread of its own.
InitializeSubsystem(s) ==
    /\ service = "initialize"
    /\ s \in table \ initialized
    /\ initialized' = initialized \cup {s}
    /\ ready' = ready \ {s}
    /\ Goes(<<s, starts>>, "init")
    /\ UNCHANGED <<starts, service, driversStarted, pool, managerVars,
                   subsystemsReadyForDevices, seen>>

\* deviceDriverManagerStartDeviceDrivers.
StartDrivers ==
    /\ service = "initialize"
    /\ initialized = table
    /\ service' = "startDrivers"
    /\ driversStarted' = TRUE
    /\ UNCHANGED <<starts, initialized, pool, managerVars, ready,
                   subsystemsReadyForDevices, pc, seen>>

\* subsystemManagerAllDriversStarted up to its check.
AllDriversStarted ==
    /\ service = "startDrivers"
    /\ WriteLockFree
    /\ allDriversStarted' = TRUE
    /\ service' = "report"
    /\ Goes(Service, "check")
    /\ UNCHANGED <<starts, initialized, driversStarted, pool, table, tableSet, callbackSet, ready,
                   subsystemsReadyForDevices, seen>>

Started ==
    /\ service = "report"
    /\ pc[Service] = "idle"
    /\ service' = "running"
    /\ Goes(Service, "off")
    /\ UNCHANGED <<starts, initialized, driversStarted, pool, managerVars, ready,
                   subsystemsReadyForDevices, seen>>

-----------------------------------------------------------------------------
(* A subsystem reports itself ready, or not ready *)

\* A mutant: readiness is filed under the thread instead of the subsystem.
OnSubsystemInitializedWrongKey(s, g) ==
    /\ pc[<<s, g>>] = "init"
    /\ ready' = ready \cup {<<s, g>>}
    /\ Goes(<<s, g>>, "check")
    /\ UNCHANGED <<serviceVars, managerVars, subsystemsReadyForDevices, seen>>

\* A mutant: the subsystem is marked ready, and nobody looks whether it was the
\* last one.
OnSubsystemInitializedNoCheck(s, g) ==
    /\ pc[<<s, g>>] = "init"
    /\ ready' = ready \cup ({s} \cap table)
    /\ Goes(<<s, g>>, "idle")
    /\ UNCHANGED <<serviceVars, managerVars, subsystemsReadyForDevices, seen>>

\* onSubsystemInitialized up to its check: a subsystem that is not in the table,
\* or that finds no table, is ignored.
OnSubsystemInitialized(s, g) ==
    /\ pc[<<s, g>>] = "init"
    /\ ready' = ready \cup ({s} \cap table)
    /\ Goes(<<s, g>>, "check")
    /\ UNCHANGED <<serviceVars, managerVars, subsystemsReadyForDevices, seen>>

\* onSubsystemDeinitialized while the service runs; the subsystem goes on trying
\* to come up.  Nothing tells the device service.
OnSubsystemDeinitialized(s, g) ==
    /\ s \in Flaky /\ g = starts
    /\ pc[<<s, g>>] = "idle"
    /\ ready' = ready \ {s}
    /\ Goes(<<s, g>>, "init")
    /\ UNCHANGED <<serviceVars, managerVars, subsystemsReadyForDevices, seen>>

\* subsystemManagerIsReadyForDevices takes the read lock; without a table the
\* answer is no.
CheckLock(t) ==
    /\ pc[t] = "check"
    /\ seen' = [seen EXCEPT ![t] = {}]
    /\ Goes(t, IF tableSet THEN "scan" ELSE "idle")
    /\ UNCHANGED <<serviceVars, managerVars, ready, subsystemsReadyForDevices>>

\* One registration of the scan.
CheckOne(t) ==
    /\ pc[t] = "scan"
    /\ \E s \in table \ seen[t] :
          IF s \in ready THEN /\ seen' = [seen EXCEPT ![t] = @ \cup {s}]
                              /\ UNCHANGED pc
                         ELSE /\ Goes(t, "idle")
                              /\ UNCHANGED seen
    /\ UNCHANGED <<serviceVars, managerVars, ready, subsystemsReadyForDevices>>

\* A mutant: the scan ends without looking at allDriversStarted.
CheckDoneIgnoringDrivers(t) ==
    /\ pc[t] = "scan"
    /\ seen[t] = table
    /\ Goes(t, "callback")
    /\ UNCHANGED <<serviceVars, managerVars, ready, subsystemsReadyForDevices, seen>>

\* The end of the scan: all are ready; the answer also needs allDriversStarted.
CheckDone(t) ==
    /\ pc[t] = "scan"
    /\ seen[t] = table
    /\ Goes(t, IF allDriversStarted THEN "callback" ELSE "idle")
    /\ UNCHANGED <<serviceVars, managerVars, ready, subsystemsReadyForDevices, seen>>

\* readyForDevicesCB is read, and called if it is not NULL.
ReadCallback(t) ==
    /\ pc[t] = "callback"
    /\ Goes(t, IF callbackSet THEN "call" ELSE "idle")
    /\ UNCHANGED <<serviceVars, managerVars, ready, subsystemsReadyForDevices, seen>>

\* subsystemManagerReadyForDevicesCallback sets the flag and tells the drivers
\* and the clients.
ReadyForDevicesCallback(t) ==
    /\ pc[t] = "call"
    /\ subsystemsReadyForDevices' = TRUE
    /\ Goes(t, "schedule")
    /\ UNCHANGED <<serviceVars, managerVars, ready, seen>>

\* startDeviceInitialization: one task per device; without a pool the tasks are
\* refused.
StartDeviceInitialization(t) ==
    /\ pc[t] = "schedule"
    /\ pool' = IF pool = "none" THEN "none" ELSE "devices"
    /\ Goes(t, "idle")
    /\ UNCHANGED <<starts, service, initialized, driversStarted, managerVars, ready,
                   subsystemsReadyForDevices, seen>>

-----------------------------------------------------------------------------
(* deviceServiceShutdown *)

ShutdownBegin ==
    /\ service = "running"
    /\ service' = "drain"
    /\ subsystemsReadyForDevices' = FALSE
    /\ UNCHANGED <<starts, initialized, driversStarted, pool, managerVars, ready, pc, seen>>

\* threadPoolDestroy of the initializer pool.
DrainPool ==
    /\ service = "drain"
    /\ service' = "stopDrivers"
    /\ pool' = "none"
    /\ UNCHANGED <<starts, initialized, driversStarted, managerVars, ready,
                   subsystemsReadyForDevices, pc, seen>>

\* shutdownDeviceDriverManager.
StopDrivers ==
    /\ service = "stopDrivers"
    /\ service' = "stopManager"
    /\ driversStarted' = FALSE
    /\ UNCHANGED <<starts, initialized, pool, managerVars, ready,
                   subsystemsReadyForDevices, pc, seen>>

\* subsystemManagerShutdown takes the table and the callback away.
\* allDriversStarted stays as it is.
StopManager ==
    /\ service = "stopManager"
    /\ WriteLockFree
    /\ service' = "stopSubsystems"
    /\ tableSet' = FALSE
    /\ table' = {}
    /\ callbackSet' = FALSE
    /\ UNCHANGED <<starts, initialized, driversStarted, pool, allDriversStarted, ready,
                   subsystemsReadyForDevices, pc, seen>>

\* shutdownSubsystemCallback.  A subsystem that is not in the middle of anything
\* stops; one that is bringing itself up may not notice and report ready later.
ShutdownSubsystem(s) ==
    /\ service = "stopSubsystems"
    /\ s \in initialized
    /\ initialized' = initialized \ {s}
    /\ ready' = ready \ {s}
    /\ \/ pc[<<s, starts>>] \in {"init", "idle"} /\ Goes(<<s, starts>>, "off")
       \/ pc[<<s, starts>>] # "idle" /\ UNCHANGED pc
    /\ UNCHANGED <<starts, service, driversStarted, pool, managerVars,
                   subsystemsReadyForDevices, seen>>

ShutdownDone ==
    /\ service = "stopSubsystems"
    /\ initialized = {}
    /\ service' = "stopped"
    /\ UNCHANGED <<starts, initialized, driversStarted, pool, managerVars, ready,
                   subsystemsReadyForDevices, pc, seen>>

-----------------------------------------------------------------------------

ServiceNext ==
    \/ Start \/ StartDrivers \/ AllDriversStarted \/ Started
    \/ \E s \in Subsystems : InitializeSubsystem(s) \/ ShutdownSubsystem(s)
    \/ ShutdownBegin \/ DrainPool \/ StopDrivers \/ StopManager \/ ShutdownDone

\* A thread that reports readiness runs to the end of its report.
Report(t) ==
    \/ CheckLock(t) \/ CheckOne(t) \/ CheckDone(t)
    \/ ReadCallback(t) \/ ReadyForDevicesCallback(t) \/ StartDeviceInitialization(t)

Next ==
    \/ ServiceNext
    \/ \E s \in Subsystems, g \in 1 .. MaxStarts :
          OnSubsystemInitialized(s, g) \/ OnSubsystemDeinitialized(s, g)
    \/ \E t \in Threads : Report(t)

Spec == Init /\ [][Next]_vars

-----------------------------------------------------------------------------
(* Properties *)

Reporting == {t \in Threads : pc[t] \in {"check", "scan", "callback", "call", "schedule"}}

AllReady == tableSet /\ table \subseteq ready /\ allDriversStarted

\* The gate is not missed: whichever of the subsystems and the service thread is
\* last, once nobody is in the middle of a report, a service all of whose
\* subsystems are ready and whose drivers have started has been told so and has
\* its devices queued for initialization.
NoMissedReadiness ==
    service = "running" /\ AllReady /\ Reporting = {}
       => subsystemsReadyForDevices /\ pool = "devices"

\* What the core services specification says of the gate: the callback fires
\* only when all registered subsystems are ready and all drivers are started,
\* though the subsystems are looked at one by one (one that goes down again may
\* have done so meanwhile, and a shutdown does not wait for a report).
ReadyOnlyWhenAllAre ==
    [][\A t \in Threads :
          ReadyForDevicesCallback(t) /\ service \in {"initialize", "startDrivers", "report", "running"}
             => table \ Flaky \subseteq ready /\ driversStarted]_vars

\* The status record says that the flag means that the service is ready to
\* process operations on devices: a stopped service is not.
ReadyOnlyWhileStarted == service = "stopped" => ~subsystemsReadyForDevices
=============================================================================
