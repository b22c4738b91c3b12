-------------------------- MODULE ZigbeeDiscovery --------------------------
(***************************************************************************)
(* Discovery in the Zigbee subsystem: the reference count by which Zigbee  *)
(* drivers open and close the network (zigbeeSubsystem.c), the interview   *)
(* of devices that join it (zigbeeEventHandler.c) and the devices that no  *)
(* driver claims.                                                          *)
(*                                                                         *)
(* Drivers are started one at a time (deviceServiceDiscoverStart holds     *)
(* discoveryControlMutex) and stopped by monitor threads, each for itself. *)
(* Every event of the network is handled in a thread of its own; here at   *)
(* most one join and one announce of a device are handled at a time.       *)
(* A session discovers new devices or recovers known ones; the monitor     *)
(* that stops a driver clears the rejected and the failed devices of all   *)
(* sessions before it ends its own.                                        *)
(***************************************************************************)
EXTENDS Integers, FiniteSets

CONSTANTS
    Drivers,    \* Zigbee device drivers
    Devices,    \* devices in reach, by their eui64
    Claims,     \* per driver, the devices it claims
    Recoverers, \* drivers that may be started for a recovery
    MaxCycles   \* bound on how often the network is opened

ASSUME ClaimsAssumption ==
    Claims \in [Drivers -> SUBSET Devices] /\ Recoverers \subseteq Drivers

VARIABLES
    cycles,             \* how often the network was opened
    overlapped,         \* history: a driver was started while the last one was being stopped
    discoveringRefCount,
    joinOpen,           \* the stack lets devices join
    discoveryActive,    \* drivers with the flag set
    recovering,         \* drivers whose session is a recovery
    starter,            \* the driver being started and how far that is
    stopper,            \* per driver, how far its stop is
    devicesProcessed,   \* [exists, set]: devices interviewed in this discovery
    premature,          \* the map prematureClusterCommands: "null", "map", "freed", or
                        \* "used" when it was used after it was freed
    announcedDevices,   \* per device, which of its events were saved
    events,             \* per device, events on their way
    handler,            \* per device and kind of event, the thread that handles it
    network,            \* devices on the network
    known,              \* devices that were paired
    rejected,           \* devices that were rejected
    failed,             \* devices that failed to pair
    unclaimedDevices,
    overtaken,          \* history: devices whose interview was overtaken, or began when known
    evicted             \* history: devices told to leave as unclaimed while known

vars == <<cycles, overlapped, discoveringRefCount, joinOpen, discoveryActive, recovering,
          starter, stopper, devicesProcessed, premature, announcedDevices, events,
          handler, network, known, rejected, failed, unclaimedDevices, overtaken, evicted>>

sessionVars == <<cycles, overlapped, discoveringRefCount, joinOpen, discoveryActive, recovering,
                 starter, stopper>>
deviceVars == <<events, handler, network, known, rejected, failed, unclaimedDevices, overtaken,
                evicted>>

Kinds == {"join", "announce"}
None == "none"
Idle == [pc |-> "idle", driver |-> None]
NoMap == [exists |-> FALSE, set |-> {}]

TypeOK ==
    /\ cycles \in 0 .. MaxCycles
    /\ discoveringRefCount \in 0 .. Cardinality(Drivers)
    /\ \A b \in {overlapped, joinOpen} : b \in BOOLEAN
    /\ discoveryActive \subseteq Drivers /\ recovering \subseteq Drivers
    /\ starter.pc \in {"idle", "running", "premature", "enable", "undo", "undoPremature"}
    /\ stopper \in [Drivers -> {"no", "disable", "leave", "cleanup", "rejected", "failed"}]
    /\ devicesProcessed.exists \in BOOLEAN /\ devicesProcessed.set \subseteq Devices
    /\ premature \in {"null", "map", "freed", "used"}
    /\ announcedDevices \in [Devices -> SUBSET Kinds]
    /\ events \in [Devices -> SUBSET Kinds]
    /\ handler \in [Devices \X Kinds -> {"idle", "process", "details", "claim", "unclaimed"}]
    /\ \A s \in {network, known, rejected, failed, unclaimedDevices, overtaken, evicted} :
        s \subseteq Devices

Init ==
    /\ cycles = 0 /\ overlapped = FALSE
    /\ discoveringRefCount = 0 /\ joinOpen = FALSE /\ discoveryActive = {} /\ recovering = {}
    /\ starter = Idle
    /\ stopper = [r \in Drivers |-> "no"]
    /\ devicesProcessed = NoMap
    /\ premature = "null"
    /\ announcedDevices = [d \in Devices |-> {}]
    /\ events = [d \in Devices |-> {}]
    /\ handler = [t \in Devices \X Kinds |-> "idle"]
    /\ network = {} /\ known = {} /\ rejected = {} /\ failed = {} /\ unclaimedDevices = {}
    /\ overtaken = {} /\ evicted = {}

NoAnnounces == [d \in Devices |-> {}]

\* The last driver is being stopped: the network is closed or about to be.
Closing == \E r \in Drivers : stopper[r] \in {"disable", "leave", "cleanup"}

\* deviceServiceIsInRecoveryMode: a session is a recovery until its monitor ends it.
repairing == recovering # {}

\* An interview of d is under way or about to begin.
Interviewed(d) == events[d] # {} \/ \E k \in Kinds : handler[<<d, k>>] # "idle"

-----------------------------------------------------------------------------
(* zigbeeSubsystemStartDiscoveringDevices *)

\* The driver sets its flag, to discover or to recover; the first one goes on to open the network.
StartDiscoveringDevices(r) ==
    /\ starter = Idle
    /\ r \notin discoveryActive /\ stopper[r] = "no"
    /\ overlapped' = (overlapped \/ Closing)
    /\ recovering' \in {recovering, recovering \cup ({r} \cap Recoverers)}
    /\ discoveryActive' = discoveryActive \cup {r}
    /\ discoveringRefCount' = discoveringRefCount + 1
    /\ \/ /\ discoveringRefCount = 0
          /\ cycles < MaxCycles /\ cycles' = cycles + 1
          /\ starter' = [pc |-> "running", driver |-> r]
          /\ premature' = CASE premature = "null" -> "null"
                            [] premature = "map" -> "freed"
                            [] OTHER -> "used"
       \/ /\ discoveringRefCount # 0
          /\ UNCHANGED <<cycles, starter, premature>>
    /\ UNCHANGED <<joinOpen, stopper, devicesProcessed, announcedDevices>>
    /\ UNCHANGED deviceVars

StartRunning ==
    /\ starter.pc = "running"
    /\ devicesProcessed' = [exists |-> TRUE, set |-> {}]
    /\ starter' = [starter EXCEPT !.pc = "premature"]
    /\ UNCHANGED <<cycles, overlapped, discoveringRefCount, joinOpen, discoveryActive, recovering,
                   stopper,
                   premature, announcedDevices>>
    /\ UNCHANGED deviceVars

StartPremature ==
    /\ starter.pc = "premature"
    /\ premature' = "map"
    /\ starter' = [starter EXCEPT !.pc = "enable"]
    /\ UNCHANGED <<cycles, overlapped, discoveringRefCount, joinOpen, discoveryActive, recovering,
                   stopper,
                   devicesProcessed, announcedDevices>>
    /\ UNCHANGED deviceVars

\* Mutant: a failed start keeps its reference.
EnableJoinKeepsReference ==
    /\ starter.pc = "enable"
    /\ \/ joinOpen' = TRUE /\ starter' = Idle
       \/ starter' = [starter EXCEPT !.pc = "undo"] /\ UNCHANGED joinOpen
    /\ UNCHANGED <<cycles, overlapped, discoveringRefCount, discoveryActive, recovering, stopper,
                   devicesProcessed, premature, announcedDevices>>
    /\ UNCHANGED deviceVars

\* Mutant: a failed start gives its reference back twice.
EnableJoinReleasesTwice ==
    /\ starter.pc = "enable"
    /\ \/ joinOpen' = TRUE /\ starter' = Idle /\ UNCHANGED discoveringRefCount
       \/ /\ starter' = [starter EXCEPT !.pc = "undo"]
          /\ discoveringRefCount' = discoveringRefCount - 2
          /\ UNCHANGED joinOpen
    /\ UNCHANGED <<cycles, overlapped, discoveryActive, recovering, stopper, devicesProcessed,
                   premature, announcedDevices>>
    /\ UNCHANGED deviceVars

\* zhalNetworkEnableJoin succeeds, or the reference is given back.
EnableJoin ==
    /\ starter.pc = "enable"
    /\ \/ joinOpen' = TRUE /\ starter' = Idle /\ UNCHANGED discoveringRefCount
       \/ /\ starter' = [starter EXCEPT !.pc = "undo"]
          /\ discoveringRefCount' = discoveringRefCount - 1
          /\ UNCHANGED joinOpen
    /\ UNCHANGED <<cycles, overlapped, discoveryActive, recovering, stopper, devicesProcessed,
                   premature, announcedDevices>>
    /\ UNCHANGED deviceVars

StartUndo ==
    /\ starter.pc = "undo"
    /\ devicesProcessed' = NoMap
    /\ announcedDevices' = NoAnnounces
    /\ starter' = [starter EXCEPT !.pc = "undoPremature"]
    /\ UNCHANGED <<cycles, overlapped, discoveringRefCount, joinOpen, discoveryActive, recovering,
                   stopper,
                   premature>>
    /\ UNCHANGED deviceVars

StartFailed ==
    /\ starter.pc = "undoPremature"
    /\ premature' = "null"
    /\ discoveryActive' = discoveryActive \ {starter.driver}
    /\ recovering' = recovering \ {starter.driver}
    /\ starter' = Idle
    /\ UNCHANGED <<cycles, overlapped, discoveringRefCount, joinOpen, stopper, devicesProcessed,
                   announcedDevices>>
    /\ UNCHANGED deviceVars

-----------------------------------------------------------------------------
(* zigbeeSubsystemStopDiscoveringDevices *)

\* Mutant: the network is closed when the first driver stops.
StopAtFirstDriver(r) ==
    /\ r \in discoveryActive /\ starter.driver # r
    /\ discoveryActive' = discoveryActive \ {r}
    /\ discoveringRefCount' = discoveringRefCount - 1
    /\ stopper' = [stopper EXCEPT ![r] = "disable"]
    /\ UNCHANGED <<cycles, overlapped, joinOpen, recovering, starter, devicesProcessed, premature, announcedDevices>>
    /\ UNCHANGED deviceVars

\* The last driver goes on to close the network; the monitor of any other is done with it.
StopDiscoveringDevices(r) ==
    /\ r \in discoveryActive /\ starter.driver # r
    /\ discoveryActive' = discoveryActive \ {r}
    /\ discoveringRefCount' = discoveringRefCount - 1
    /\ stopper' = [stopper EXCEPT ![r] = IF discoveringRefCount = 1 THEN "disable" ELSE "rejected"]
    /\ UNCHANGED <<cycles, overlapped, joinOpen, recovering, starter, devicesProcessed, premature, announcedDevices>>
    /\ UNCHANGED deviceVars

DisableJoin(r) ==
    /\ stopper[r] = "disable"
    /\ joinOpen' = FALSE
    /\ stopper' = [stopper EXCEPT ![r] = "leave"]
    /\ UNCHANGED <<cycles, overlapped, discoveringRefCount, discoveryActive, recovering, starter,
                   devicesProcessed, premature, announcedDevices>>
    /\ UNCHANGED deviceVars

RequestUnclaimedDevicesLeave(r) ==
    /\ stopper[r] = "leave"
    /\ stopper' = [stopper EXCEPT ![r] = "cleanup"]
    /\ network' = network \ unclaimedDevices
    /\ evicted' = evicted \cup (unclaimedDevices \cap known)
    /\ overtaken' = overtaken \cup {d \in Devices : Interviewed(d)}
    /\ unclaimedDevices' = {}
    /\ UNCHANGED <<cycles, overlapped, discoveringRefCount, joinOpen, discoveryActive, recovering,
                   starter, devicesProcessed, premature, announcedDevices, events,
                   handler, known, rejected, failed>>

\* zigbeeEventHandlerDiscoveryRunning(false)
DiscoveryNotRunning(r) ==
    /\ stopper[r] = "cleanup"
    /\ devicesProcessed' = NoMap
    /\ announcedDevices' = NoAnnounces
    /\ stopper' = [stopper EXCEPT ![r] = "rejected"]
    /\ UNCHANGED <<cycles, overlapped, discoveringRefCount, joinOpen, discoveryActive, recovering,
                   starter, premature>>
    /\ UNCHANGED deviceVars

\* The monitor that stopped the driver clears the rejected devices, of every session ...
clearRejectedDevices(r) ==
    /\ stopper[r] = "rejected"
    /\ rejected' = {}
    /\ stopper' = [stopper EXCEPT ![r] = "failed"]
    /\ UNCHANGED <<cycles, overlapped, discoveringRefCount, joinOpen, discoveryActive, recovering,
                   starter, devicesProcessed, premature, announcedDevices, events,
                   handler, network, known, failed, unclaimedDevices, overtaken, evicted>>

\* ... and the failed ones, and ends its session.
clearPairingFailedDevices(r) ==
    /\ stopper[r] = "failed"
    /\ failed' = {}
    /\ overtaken' = overtaken \cup {d \in failed : Interviewed(d)}
    /\ recovering' = recovering \ {r}
    /\ stopper' = [stopper EXCEPT ![r] = "no"]
    /\ UNCHANGED <<cycles, overlapped, discoveringRefCount, joinOpen, discoveryActive, starter,
                   devicesProcessed, premature, announcedDevices, events, handler,
                   network, known, rejected, unclaimedDevices, evicted>>

-----------------------------------------------------------------------------
(* Devices and their events *)

\* A device joins the open network, which the stack reports by two events.
Join(d) ==
    /\ joinOpen /\ d \notin network
    /\ network' = network \cup {d}
    /\ events' = [events EXCEPT ![d] = Kinds]
    /\ UNCHANGED <<devicesProcessed, premature, announcedDevices, handler, known, rejected,
                   failed, unclaimedDevices, overtaken, evicted>>
    /\ UNCHANGED sessionVars

\* Its owner resets a device, which then leaves the network.
Reset(d) ==
    /\ d \in network
    /\ network' = network \ {d}
    /\ UNCHANGED <<devicesProcessed, premature, announcedDevices, events, handler, known,
                   rejected, failed, unclaimedDevices, overtaken, evicted>>
    /\ UNCHANGED sessionVars

\* deviceJoined of a device that was rejected, or is new during a recovery, has it leave; such
\* an announce, and the events of a known device outside a recovery, change nothing here.
DeviceTurnedAway(d, k) ==
    /\ k \in events[d] /\ handler[<<d, k>>] = "idle"
    /\ (k = "join" /\ d \in rejected) \/ (d \in known) # repairing
    /\ events' = [events EXCEPT ![d] = @ \ {k}]
    /\ network' = IF k = "join" /\ (d \in rejected \/ d \notin known)
                  THEN network \ {d} ELSE network
    /\ UNCHANGED <<devicesProcessed, premature, announcedDevices, handler, known,
                   rejected, failed, unclaimedDevices, overtaken, evicted>>
    /\ UNCHANGED sessionVars

\* deviceJoined and deviceAnnounced of a new device, or of a known one during a recovery: it is
\* processed once both were seen.
DeviceEvent(d, k) ==
    /\ k \in events[d] /\ handler[<<d, k>>] = "idle"
    /\ ~(k = "join" /\ d \in rejected) /\ (d \in known) = repairing
    /\ events' = [events EXCEPT ![d] = @ \ {k}]
    /\ announcedDevices' = [announcedDevices EXCEPT ![d] = @ \cup {k}]
    /\ handler' = IF announcedDevices'[d] = Kinds
                  THEN [handler EXCEPT ![<<d, k>>] = "process"] ELSE handler
    /\ devicesProcessed' = IF k = "join" /\ d \in failed
                           THEN [devicesProcessed EXCEPT !.set = @ \ {d}] ELSE devicesProcessed
    /\ overtaken' = overtaken \cup ({d} \cap known)
    /\ UNCHANGED <<premature, network, known, rejected, failed, unclaimedDevices, evicted>>
    /\ UNCHANGED sessionVars

processNewDevice(d, k) ==
    /\ handler[<<d, k>>] = "process"
    /\ \/ /\ d \in devicesProcessed.set
          /\ handler' = [handler EXCEPT ![<<d, k>>] = "idle"]
          /\ UNCHANGED devicesProcessed
       \/ /\ d \notin devicesProcessed.set
          /\ handler' = [handler EXCEPT ![<<d, k>>] = "details"]
          /\ devicesProcessed' = IF devicesProcessed.exists
                                 THEN [devicesProcessed EXCEPT !.set = @ \cup {d}]
                                 ELSE devicesProcessed
    /\ UNCHANGED <<premature, announcedDevices, events, network, known, rejected,
                   failed, unclaimedDevices, overtaken, evicted>>
    /\ UNCHANGED sessionVars

\* The interview succeeds, or the device is forgotten and told to leave.
DiscoverDeviceDetails(d, k) ==
    /\ handler[<<d, k>>] = "details"
    /\ announcedDevices' = [announcedDevices EXCEPT ![d] = {}]
    /\ \/ /\ handler' = [handler EXCEPT ![<<d, k>>] = "claim"]
          /\ UNCHANGED <<devicesProcessed, network>>
       \/ /\ handler' = [handler EXCEPT ![<<d, k>>] = "idle"]
          /\ devicesProcessed' = [devicesProcessed EXCEPT !.set = @ \ {d}]
          /\ network' = network \ {d}
    /\ UNCHANGED <<premature, events, known, rejected, failed, unclaimedDevices, overtaken,
                   evicted>>
    /\ UNCHANGED sessionVars

\* The drivers that are discovering are asked. One that claims the device pairs it (a recovered
\* one is in the database already), or rejects it or fails to pair it and then has it reset.
ClaimDiscoveredDevice(d, k) ==
    /\ handler[<<d, k>>] = "claim"
    /\ \/ \E r \in discoveryActive :
            /\ d \in Claims[r]
            /\ \/ /\ known' = IF r \in recovering THEN known ELSE known \cup {d}
                  /\ handler' = [handler EXCEPT ![<<d, k>>] = "idle"]
                  /\ UNCHANGED <<rejected, failed, network>>
               \/ /\ \/ rejected' = rejected \cup {d} /\ UNCHANGED failed
                     \/ failed' = failed \cup {d} /\ UNCHANGED rejected
                  /\ network' = network \ {d}
                  /\ handler' = [handler EXCEPT ![<<d, k>>] = "unclaimed"]
                  /\ UNCHANGED known
       \/ /\ \A r \in discoveryActive : d \notin Claims[r]
          /\ handler' = [handler EXCEPT ![<<d, k>>] = "unclaimed"]
          /\ UNCHANGED <<known, rejected, failed, network>>
    /\ UNCHANGED <<devicesProcessed, premature, announcedDevices, events,
                   unclaimedDevices, overtaken, evicted>>
    /\ UNCHANGED sessionVars

\* Mutant: a device that failed to pair is remembered as well.
FailedIsUnclaimed(d, k) ==
    /\ handler[<<d, k>>] = "unclaimed"
    /\ handler' = [handler EXCEPT ![<<d, k>>] = "idle"]
    /\ unclaimedDevices' = unclaimedDevices \cup {d}
    /\ UNCHANGED <<devicesProcessed, premature, announcedDevices, events, network, known,
                   rejected, failed, overtaken, evicted>>
    /\ UNCHANGED sessionVars

\* A device that was not claimed, and has not failed to pair, is remembered.
DeviceDiscovered(d, k) ==
    /\ handler[<<d, k>>] = "unclaimed"
    /\ handler' = [handler EXCEPT ![<<d, k>>] = "idle"]
    /\ unclaimedDevices' = IF d \in failed THEN unclaimedDevices ELSE unclaimedDevices \cup {d}
    /\ UNCHANGED <<devicesProcessed, premature, announcedDevices, events, network, known,
                   rejected, failed, overtaken, evicted>>
    /\ UNCHANGED sessionVars

\* A cluster command of a device that is not known is saved while discovering.
ClusterCommandReceived(d) ==
    /\ d \in network \ known
    /\ discoveringRefCount > 0
    /\ premature' = IF premature \in {"null", "map"} THEN "map" ELSE "used"
    /\ UNCHANGED <<devicesProcessed, announcedDevices>>
    /\ UNCHANGED <<sessionVars, deviceVars>>

StartStep == StartRunning \/ StartPremature \/ EnableJoin \/ StartUndo \/ StartFailed
StopStep(r) ==
    \/ DisableJoin(r) \/ RequestUnclaimedDevicesLeave(r) \/ DiscoveryNotRunning(r)
    \/ clearRejectedDevices(r) \/ clearPairingFailedDevices(r)
HandlerStep(d, k) ==
    \/ processNewDevice(d, k) \/ DiscoverDeviceDetails(d, k) \/ ClaimDiscoveredDevice(d, k)
    \/ DeviceDiscovered(d, k)

Next ==
    \/ \E r \in Drivers : StartDiscoveringDevices(r) \/ StopDiscoveringDevices(r) \/ StopStep(r)
    \/ StartStep
    \/ \E d \in Devices :
        \/ Join(d) \/ Reset(d) \/ ClusterCommandReceived(d)
        \/ \E k \in Kinds : DeviceTurnedAway(d, k) \/ DeviceEvent(d, k) \/ HandlerStep(d, k)

Spec == Init /\ [][Next]_vars

-----------------------------------------------------------------------------
(* Properties *)

\* discoveringRefCount counts the drivers that are discovering, whatever starts fail and
\* whatever stops run at the same time; a failing start has given its reference back.
RefCountAccurate ==
    discoveringRefCount =
        Cardinality(discoveryActive) - (IF starter.pc \in {"undo", "undoPremature"} THEN 1 ELSE 0)

\* While a driver is discovering, and no start is under way, devices can join and are
\* interviewed once: the network is closed and the discovery ended only when "no more
\* devices [are] being discovered".
SessionRuns ==
    discoveryActive # {} /\ starter = Idle => joinOpen /\ devicesProcessed.exists

\* ... as long as no driver has been started while the last one was being stopped.
SessionRunsUnlessOverlapped == ~overlapped => SessionRuns

\* Only unclaimed devices are told to leave after discovery: not one that was paired.
KnownDevicesStay == evicted = {}

\* ... as long as no driver has been started while the last one was being stopped, and unless
\* the interview of the device was overtaken: by the end of the discovery it began in, or, after
\* it failed, by the end of any session, which clears the failed devices. A known device
\* that is interviewed again in a recovery, and that no driver then claims, is told to leave too.
KnownDevicesStayUnlessOvertaken == ~overlapped => evicted \subseteq overtaken

\* "we keep track of unclaimed devices so that they can be told to leave after discovery
\* stops": when nothing is going on, none is left.
UnclaimedToldToLeave ==
    /\ discoveringRefCount = 0 /\ starter = Idle /\ \A r \in Drivers : stopper[r] = "no"
    /\ \A t \in Devices \X Kinds : handler[t] = "idle"
    => unclaimedDevices = {}

\* prematureClusterCommands is a map or NULL whenever it is used under its mutex.
PrematureCommandsLive == premature # "used"
=============================================================================
