----------------------------- MODULE Discovery -----------------------------
(***************************************************************************)
(* Device discovery and recovery: deviceServiceDiscoverStart,              *)
(* deviceServiceDiscoverStop and the monitor thread of each device class   *)
(* in core/src/deviceService.c.                                            *)
(*                                                                         *)
(* DiscoverStart holds discoveryControlMutex from its first check to its   *)
(* last monitor, while it calls into the drivers; so `call' is the one     *)
(* call in progress and the mutex is free iff it is idle.  A monitor       *)
(* thread waits once for a signal or its timeout, stops the drivers that   *)
(* were started, tells the client, and only then takes the mutex to leave  *)
(* activeDiscoveries.  Monitors are detached: shutting the service down    *)
(* does not end them, and the drivers live as long as the process.  A      *)
(* driver is told the class when it starts and stops, and heeds it in      *)
(* neither: stopping it ends its whole scan.  A client names each class    *)
(* once; discoveryTimeoutSeconds, which only the status report shows, is   *)
(* left out.                                                               *)
(***************************************************************************)
EXTENDS Naturals, FiniteSets

CONSTANTS
    Classes,      \* device classes
    Filters,      \* filters a client may pass
    Drivers,      \* registered device drivers
    Supports,     \* per driver, its supportedDeviceClasses
    NeverReject,  \* drivers that bypass the device descriptors
    Discovers,    \* drivers with a discoverDevices callback
    Recovers,     \* drivers with a recoverDevices callback
    Timeouts,     \* "timed" (seconds > 0) and "untimed" (0) calls to consider
    Monitors,     \* addresses of monitor contexts; bounds the monitors alive at once
    MaxStarts     \* bound on starts of the service in one process

\* Every driver that scans has one class (zigbeeDriverCommon.c, philipsHueDeviceDriver.c).
ASSUME SupportsAssumption ==
    /\ Supports \in [Drivers -> SUBSET Classes]
    /\ \A d \in Discovers \cup Recovers : \E c \in Classes : Supports[d] = {c}
ASSUME DriversAssumption == NeverReject \cup Discovers \cup Recovers \subseteq Drivers
ASSUME TimeoutsAssumption == Timeouts \subseteq {"timed", "untimed"}

VARIABLES
    starts,             \* how often the service has been started
    service,            \* "up", "stopping" or "down"
    ready,              \* which of "operation" and "descriptors" are ready
    activeDiscoveries,  \* per class, the context of its monitor, or NoMonitor
    call,               \* the DiscoverStart in progress; idle iff the mutex is free
    discovering,        \* drivers that are scanning
    monitor,            \* per context, what its monitor thread does
    announced,          \* classes the client was told are being discovered
    stopAsked,          \* announced classes the client has asked to stop
    crossed             \* history: classes whose session began while a monitor of an earlier
                        \* session of the class was still running

vars == <<starts, service, ready, activeDiscoveries, call, discovering, monitor, announced,
          stopAsked, crossed>>

NoMonitor == "none"
Modes == {"discovery", "recovery"}
Pairs == Drivers \X Classes

Idle == [pc |-> "idle"]
Calls == {Idle} \cup [pc : {"drivers", "monitors", "rollback"}, classes : SUBSET Classes,
                      mode : Modes, filter : Filters, timeout : Timeouts,
                      todo : SUBSET Pairs, started : SUBSET Pairs, failed : SUBSET Pairs]

Free == [pc |-> "free"]
Contexts == {Free} \cup [pc : {"created", "waiting", "stopping", "unlink"}, class : Classes,
                         mode : Modes, filter : Filters, timeout : Timeouts,
                         drivers : SUBSET Drivers]

\* The types; and no entry of activeDiscoveries dangles.
TypeOK ==
    /\ starts \in 1 .. MaxStarts
    /\ service \in {"up", "stopping", "down"}
    /\ ready \subseteq {"operation", "descriptors"}
    /\ activeDiscoveries \in [Classes -> Monitors \cup {NoMonitor}]
    /\ call \in Calls
    /\ discovering \subseteq Drivers
    /\ monitor \in [Monitors -> Contexts]
    /\ \A c \in Classes : activeDiscoveries[c] # NoMonitor => monitor[activeDiscoveries[c]] # Free
    /\ announced \subseteq Classes
    /\ stopAsked \subseteq Classes
    /\ crossed \subseteq Classes

Init ==
    /\ starts = 1
    /\ service = "up"
    /\ ready = {}
    /\ activeDiscoveries = [c \in Classes |-> NoMonitor]
    /\ call = Idle
    /\ discovering = {}
    /\ monitor = [m \in Monitors |-> Free]
    /\ announced = {}
    /\ stopAsked = {}
    /\ crossed = {}

Active == {c \in Classes : activeDiscoveries[c] # NoMonitor}
DriversOf(c) == {d \in Drivers : c \in Supports[d]}

-----------------------------------------------------------------------------
(* deviceServiceDiscoverStart *)

\* Before the service is ready for devices only drivers that never reject remain.
getDriversForDiscovery(c) ==
    IF "operation" \in ready THEN DriversOf(c) ELSE DriversOf(c) \cap NeverReject

validateDeviceClassForDiscovery(c, mode) ==
    /\ getDriversForDiscovery(c) # {}
    /\ mode = "recovery" => getDriversForDiscovery(c) \cap Recovers # {}

checkDescriptorReadinessForDiscovery(c) ==
    "descriptors" \in ready \/ getDriversForDiscovery(c) \cap NeverReject # {}

FreeMonitors == {m \in Monitors : monitor[m] = Free}

\* Classes of which a monitor runs that is not the one of activeDiscoveries.
LeftOver ==
    {c \in Classes : \E m \in Monitors \ FreeMonitors :
                        monitor[m].class = c /\ activeDiscoveries[c] # m}

\* Mutant: classes that are already being discovered are not skipped.
DiscoverStartAgain(classes, mode, filter, timeout) ==
    /\ service = "up" /\ call = Idle
    /\ classes # {} /\ Cardinality(classes) <= Cardinality(FreeMonitors)
    /\ \A c \in classes : /\ validateDeviceClassForDiscovery(c, mode)
                          /\ checkDescriptorReadinessForDiscovery(c)
    /\ announced' = announced \cup classes \cup Active
    /\ call' = [pc |-> "drivers", classes |-> classes, mode |-> mode, filter |-> filter,
                timeout |-> timeout,
                todo |-> {p \in Drivers \X classes : p[2] \in Supports[p[1]]},
                started |-> {}, failed |-> {}]
    /\ crossed' = (crossed \ classes) \cup (classes \cap LeftOver)
    /\ UNCHANGED <<starts, service, ready, activeDiscoveries, discovering, monitor, stopAsked>>

\* Phase 1, and the event of phase 2.  Classes already in discovery are skipped but
\* listed in the event; a call that fails here changes nothing.
DiscoverStart(classes, mode, filter, timeout) ==
    LET new == classes \ Active IN
    /\ service = "up" /\ call = Idle
    /\ new # {} /\ Cardinality(new) <= Cardinality(FreeMonitors)
    /\ \A c \in new : /\ validateDeviceClassForDiscovery(c, mode)
                      /\ checkDescriptorReadinessForDiscovery(c)
    /\ announced' = announced \cup new \cup Active
    /\ call' = [pc |-> "drivers", classes |-> new, mode |-> mode, filter |-> filter,
                timeout |-> timeout, todo |-> {p \in Drivers \X new : p[2] \in Supports[p[1]]},
                started |-> {}, failed |-> {}]
    /\ crossed' = (crossed \ new) \cup (new \cap LeftOver)
    /\ UNCHANGED <<starts, service, ready, activeDiscoveries, discovering, monitor, stopAsked>>

Skipped(d) ==
    \/ d \notin NeverReject /\ "descriptors" \notin ready
    \/ call.mode = "recovery" /\ d \notin Recovers
    \/ call.mode = "discovery" /\ d \notin Discovers

\* Phase 2, one driver: it is passed over, starts to scan, or fails to.
startDriverDiscoveryForDeviceClass(d, c) ==
    /\ call.pc = "drivers" /\ <<d, c>> \in call.todo
    /\ \/ /\ Skipped(d)
          /\ call' = [call EXCEPT !.todo = @ \ {<<d, c>>}]
          /\ UNCHANGED discovering
       \/ /\ ~Skipped(d)
          /\ call' = [call EXCEPT !.todo = @ \ {<<d, c>>}, !.started = @ \cup {<<d, c>>}]
          /\ discovering' = discovering \cup {d}
       \/ /\ ~Skipped(d)
          /\ call' = [call EXCEPT !.todo = @ \ {<<d, c>>}, !.failed = @ \cup {<<d, c>>}]
          /\ UNCHANGED discovering
    /\ UNCHANGED <<starts, service, ready, activeDiscoveries, monitor, announced, stopAsked, crossed>>

AllDriversAsked ==
    /\ call.pc = "drivers" /\ call.todo = {}
    /\ call' = [call EXCEPT !.pc = IF call.failed = {} THEN "monitors" ELSE "rollback"]
    /\ UNCHANGED <<starts, service, ready, activeDiscoveries, discovering, monitor, announced,
                   stopAsked, crossed>>

\* The call returns, and releases the mutex, with the last class it works through.
CallAfter(c) ==
    IF call.classes = {c} THEN Idle ELSE [call EXCEPT !.classes = @ \ {c}]

StartedFor(c) == {d \in Drivers : <<d, c>> \in call.started}

\* Mutant: the drivers that did start are not stopped.
RollbackForgetsDrivers(c) ==
    /\ call.pc = "rollback" /\ c \in call.classes
    /\ announced' = announced \ {c}
    /\ stopAsked' = stopAsked \ {c}
    /\ call' = CallAfter(c)
    /\ UNCHANGED <<starts, service, ready, activeDiscoveries, discovering, monitor, crossed>>

\* Phase 3 when a driver failed: stop what was started and take the announcement back.
rollbackFailedDiscovery(c) ==
    /\ call.pc = "rollback" /\ c \in call.classes
    /\ discovering' = discovering \ StartedFor(c)
    /\ announced' = announced \ {c}
    /\ stopAsked' = stopAsked \ {c}
    /\ call' = CallAfter(c)
    /\ UNCHANGED <<starts, service, ready, activeDiscoveries, monitor, crossed>>

\* Phase 3 otherwise: one monitor thread for each class.
startDiscoveryMonitors(c, m) ==
    /\ call.pc = "monitors" /\ c \in call.classes
    /\ m \in FreeMonitors
    /\ monitor' = [monitor EXCEPT ![m] =
                     [pc |-> "created", class |-> c, mode |-> call.mode, filter |-> call.filter,
                      timeout |-> call.timeout, drivers |-> StartedFor(c)]]
    /\ activeDiscoveries' = [activeDiscoveries EXCEPT ![c] = m]
    /\ call' = CallAfter(c)
    /\ UNCHANGED <<starts, service, ready, discovering, announced, stopAsked, crossed>>

-----------------------------------------------------------------------------
(* discoveryMonitorThreadProc *)

\* Enter the wait, unless no driver was started: then there is nothing to wait for.
MonitorBegin(m) ==
    /\ monitor[m].pc = "created"
    /\ monitor' = [monitor EXCEPT ![m].pc =
                     IF monitor[m].drivers = {} THEN "unlink" ELSE "waiting"]
    /\ UNCHANGED <<starts, service, ready, activeDiscoveries, call, discovering, announced,
                   stopAsked, crossed>>

\* Mutant: the two kinds of wait are swapped.
MonitorTimeoutSwapped(m) ==
    /\ monitor[m].pc = "waiting" /\ monitor[m].timeout = "untimed"
    /\ monitor' = [monitor EXCEPT ![m].pc = "stopping"]
    /\ UNCHANGED <<starts, service, ready, activeDiscoveries, call, discovering, announced,
                   stopAsked, crossed>>

MonitorTimeout(m) ==
    /\ monitor[m].pc = "waiting" /\ monitor[m].timeout = "timed"
    /\ monitor' = [monitor EXCEPT ![m].pc = "stopping"]
    /\ UNCHANGED <<starts, service, ready, activeDiscoveries, call, discovering, announced,
                   stopAsked, crossed>>

\* stopDiscoveringDevices of one driver, which ends its scan whatever class it is told.
MonitorStopDriver(m, d) ==
    /\ monitor[m].pc = "stopping" /\ d \in monitor[m].drivers
    /\ discovering' = discovering \ {d}
    /\ monitor' = [monitor EXCEPT ![m].drivers = @ \ {d}]
    /\ UNCHANGED <<starts, service, ready, activeDiscoveries, call, announced, stopAsked, crossed>>

\* The stopped event.  (That rejected and failed devices are forgotten here is in Pairing.)
MonitorReport(m) ==
    /\ monitor[m].pc = "stopping" /\ monitor[m].drivers = {}
    /\ announced' = announced \ {monitor[m].class}
    /\ stopAsked' = stopAsked \ {monitor[m].class}
    /\ monitor' = [monitor EXCEPT ![m].pc = "unlink"]
    /\ UNCHANGED <<starts, service, ready, activeDiscoveries, call, discovering, crossed>>

\* Mutant: the context is freed and its entry is left behind.
MonitorUnlinkDangling(m) ==
    /\ monitor[m].pc = "unlink" /\ call = Idle
    /\ monitor' = [monitor EXCEPT ![m] = Free]
    /\ UNCHANGED <<starts, service, ready, activeDiscoveries, call, discovering, announced,
                   stopAsked, crossed>>

\* The entry is deleted by class, if the table exists; the context is freed.
MonitorUnlink(m) ==
    /\ monitor[m].pc = "unlink" /\ call = Idle
    /\ activeDiscoveries' = [activeDiscoveries EXCEPT ![monitor[m].class] = NoMonitor]
    /\ monitor' = [monitor EXCEPT ![m] = Free]
    /\ UNCHANGED <<starts, service, ready, call, discovering, announced, stopAsked, crossed>>

-----------------------------------------------------------------------------
(* deviceServiceDiscoverStop *)

\* Signals the condition of each class; only a monitor that is waiting notices.
DiscoverStop(classes) ==
    LET signalled == {activeDiscoveries[c] : c \in classes \cap Active} IN
    /\ service = "up" /\ call = Idle
    /\ stopAsked' = stopAsked \cup (classes \cap announced)
    /\ monitor' = [m \in Monitors |->
                     IF m \in signalled /\ monitor[m].pc = "waiting"
                     THEN [monitor[m] EXCEPT !.pc = "stopping"] ELSE monitor[m]]
    /\ UNCHANGED <<starts, service, ready, activeDiscoveries, call, discovering, announced, crossed>>

-----------------------------------------------------------------------------
(* The service around it *)

\* The subsystems, or the device descriptors, become ready.
BecomeReady(what) ==
    /\ service = "up" /\ what \notin ready
    /\ ready' = ready \cup {what}
    /\ UNCHANGED <<starts, service, activeDiscoveries, call, discovering, monitor, announced,
                   stopAsked, crossed>>

ShutdownBegin ==
    /\ service = "up"
    /\ service' = "stopping"
    /\ ready' = {}
    /\ UNCHANGED <<starts, activeDiscoveries, call, discovering, monitor, announced, stopAsked, crossed>>

\* The table is destroyed under the mutex; contexts and threads are left as they are.
ShutdownTables ==
    /\ service = "stopping" /\ call = Idle
    /\ service' = "down"
    /\ activeDiscoveries' = [c \in Classes |-> NoMonitor]
    /\ announced' = {}
    /\ stopAsked' = {}
    /\ UNCHANGED <<starts, ready, call, discovering, monitor, crossed>>

Restart ==
    /\ service = "down" /\ starts < MaxStarts
    /\ service' = "up"
    /\ starts' = starts + 1
    /\ UNCHANGED <<ready, activeDiscoveries, call, discovering, monitor, announced, stopAsked, crossed>>

CallStep ==
    \/ \E d \in Drivers, c \in Classes : startDriverDiscoveryForDeviceClass(d, c)
    \/ AllDriversAsked
    \/ \E c \in Classes : rollbackFailedDiscovery(c)
    \/ \E c \in Classes, m \in Monitors : startDiscoveryMonitors(c, m)

MonitorStep(m) ==
    \/ MonitorBegin(m)
    \/ MonitorTimeout(m)
    \/ \E d \in Drivers : MonitorStopDriver(m, d)
    \/ MonitorReport(m)
    \/ MonitorUnlink(m)

Next ==
    \/ \E classes \in SUBSET Classes, mode \in Modes, filter \in Filters, timeout \in Timeouts :
          DiscoverStart(classes, mode, filter, timeout)
    \/ \E classes \in SUBSET Classes \ {{}} : DiscoverStop(classes)
    \/ CallStep
    \/ \E m \in Monitors : MonitorStep(m)
    \/ \E what \in {"operation", "descriptors"} : BecomeReady(what)
    \/ ShutdownBegin \/ ShutdownTables \/ Restart

Spec == Init /\ [][Next]_vars

\* A call in progress returns, a shutdown completes, and a monitor thread runs and its
\* timeout expires.  The mutex is not held for ever, but a thread that wants it may see it
\* taken again and again.
FairSpec ==
    /\ Spec
    /\ WF_vars(CallStep) /\ WF_vars(ShutdownTables)
    /\ \A m \in Monitors : WF_vars(MonitorStep(m)) /\ SF_vars(MonitorUnlink(m))

-----------------------------------------------------------------------------
(* Properties *)

Session == INSTANCE DiscoverySession WITH
    session <- [c \in Classes |->
                  IF activeDiscoveries[c] = NoMonitor THEN [mode |-> "none"]
                  ELSE [mode |-> monitor[activeDiscoveries[c]].mode,
                        filter |-> monitor[activeDiscoveries[c]].filter]]

\* What activeDiscoveries shows to the rest of the service is a discovery session: a class
\* has one at a time and its mode and filters do not change under those who look at it, in
\* spite of calls that overlap with monitors on their way out.
Implements == Session!Spec

\* A driver scans only for the call that started it or for a monitor that has yet to stop
\* it: no failure, rollback, stop or timeout leaves a driver scanning with no one to end it.
NoOrphanedScan ==
    \A d \in discovering :
        \/ call # Idle /\ \E c \in Classes : <<d, c>> \in call.started
        \/ \E m \in Monitors : monitor[m] # Free /\ d \in monitor[m].drivers

\* While the monitor of class c waits, the drivers started for it are discovering.
ScansFor(c) ==
    LET m == monitor[activeDiscoveries[c]] IN
    m # Free /\ m.pc = "waiting" => m.drivers \subseteq discovering

\* A session that has neither timed out nor been stopped scans ("the number of seconds to
\* perform discovery before automatically stopping.  If 0 is specified, discovery will
\* continue forever until explicitly stopped").
SessionScans == \A c \in Active : ScansFor(c)

\* ... unless a monitor that outlived a shutdown was still running when the session began:
\* that one stops the drivers of its class.  No other call, rollback, timeout, stop or
\* monitor on its way out takes a driver away from a session.
SessionScansUnlessCrossed == \A c \in Active \ crossed : ScansFor(c)

\* A session with a timeout ends: the class leaves activeDiscoveries and none of its drivers
\* is scanning any more.  A shutdown does not change that; a restart may, by a new session
\* for the class.
SessionEnds ==
    \A c \in Classes :
        (/\ starts = 1 /\ activeDiscoveries[c] # NoMonitor
         /\ monitor[activeDiscoveries[c]].timeout = "timed")
            ~> \/ starts > 1
               \/ activeDiscoveries[c] = NoMonitor /\ DriversOf(c) \cap discovering = {}

\* A client that asks to stop a class it was told is being discovered is told that it has
\* stopped ("the service SHALL stop scanning, emit a discovery-stopped signal").
StopIsAnnounced == \A c \in Classes : c \in stopAsked ~> c \notin stopAsked

\* Until the service is ready for device operation only drivers that never reject are
\* started ("if we are not fully ready for device operation, remove all drivers that are
\* not tagged for neverReject").
RejectableDriversWait ==
    [][call # Idle /\ call' # Idle =>
         \A p \in call'.started \ call.started : p[1] \in NeverReject \/ "operation" \in ready]_vars
=============================================================================
