------------------------------ MODULE Pairing ------------------------------
(***************************************************************************)
(* How a device that a driver has found becomes a device of the service,   *)
(* and how it is removed again: deviceServiceDeviceFound and               *)
(* deviceServiceRemoveDevice in core/src/deviceService.c, fed by           *)
(* deviceJoined and processNewDevice in                                    *)
(* core/src/subsystems/zigbee/zigbeeEventHandler.c.                        *)
(*                                                                         *)
(* Pairing runs on a thread of the subsystem, removal on a thread of the   *)
(* client, and sessions (module DiscoverySession) begin and end under      *)
(* both.  No lock spans two of the steps below.  The database is the set   *)
(* of the devices in it; its inside is module JsonDatabase.                *)
(***************************************************************************)
EXTENDS FiniteSets

CONSTANTS
    Devices,       \* devices within reach
    Classes,       \* device classes
    ClassOf,       \* per device, its class
    Filters,       \* discovery filters
    FiltersFor,    \* per class, those the clients use
    Matches        \* per filter, the devices that match it

ASSUME ClassOfAssumption == ClassOf \in [Devices -> Classes]
ASSUME FiltersForAssumption == FiltersFor \in [Classes -> SUBSET Filters]
ASSUME MatchesAssumption == Matches \in [Filters -> SUBSET Devices]

VARIABLES
    session,    \* per class, the session in activeDiscoveries
    ending,     \* per class, what the monitor of its session has yet to do
    found,      \* per device, how far its pairing is
    db,         \* devices in the database
    driven,     \* devices their driver holds: a model of its own, a monitor, a listener
    told,       \* devices the client was told of, by device-added and device-removed
    marked,     \* markedForRemoval
    rejected,   \* rejected
    failed,     \* failedToPair
    processed,  \* devicesProcessed of the zigbee event handler
    removing,   \* per device, how far its removal is
    disturbed,  \* history: devices whose session changed since they joined
    unwanted,   \* history: per device, whether a client removed it while it was being paired,
                \* and marked it before the last look at the mark
    contested   \* history: devices whose removal and pairing overlapped, whose recovery failed,
                \* or that were new and taken for a recovered device

vars == <<session, ending, found, db, driven, told, marked, rejected, failed, processed,
          removing, disturbed, unwanted, contested>>

Session == INSTANCE DiscoverySession

Idle == [pc |-> "idle"]
Steps == {"configure", "filter", "check", "finalize", "event", "emit", "persisted", "undo"}
Findings == {Idle, [pc |-> "details"]} \cup
            [pc : Steps, repair : BOOLEAN, ok : BOOLEAN,
             session : Session!Sessions \cup {Session!NoSession}]

TypeOK ==
    /\ session \in [Classes -> Session!Sessions \cup {Session!NoSession}]
    /\ ending \in [Classes -> {"no", "rejected", "failed", "unlink"}]
    /\ \A c \in Classes : ending[c] # "no" => session[c] # Session!NoSession
    /\ found \in [Devices -> Findings]
    /\ unwanted \in [Devices -> {"no", "asked", "inTime"}]
    /\ removing \in [Devices -> {"idle", "known", "driver", "event", "unknown"}]
    /\ \A s \in {db, driven, told, marked, rejected, failed, processed, disturbed,
                 contested} :
          s \subseteq Devices

\* A service that is up, with some devices paired before.
Init ==
    /\ session = [c \in Classes |-> Session!NoSession]
    /\ found = [d \in Devices |-> Idle]
    /\ removing = [d \in Devices |-> "idle"]
    /\ db \in SUBSET Devices /\ driven = db /\ told = db
    /\ marked = {} /\ rejected = {} /\ failed = {} /\ processed = {}
    /\ ending = [c \in Classes |-> "no"] /\ disturbed = {} /\ contested = {}
    /\ unwanted = [d \in Devices |-> "no"]

-----------------------------------------------------------------------------
(* Sessions *)

Scanning == {c \in Classes : session[c] # Session!NoSession /\ ending[c] = "no"}
InPairing(c) == {d \in Devices : ClassOf[d] = c /\ found[d] # Idle}

Begin(c, s) ==
    /\ s.filter \in FiltersFor[c]
    /\ Session!Begin(c, s)
    /\ disturbed' = disturbed \cup InPairing(c)
    /\ UNCHANGED <<ending, found, db, driven, told, marked, rejected, failed, processed,
                   removing, unwanted, contested>>

\* The monitor stops the drivers; with the last scan goes devicesProcessed.
MonitorStops(c) ==
    /\ c \in Scanning
    /\ ending' = [ending EXCEPT ![c] = "rejected"]
    /\ processed' = IF Scanning = {c} THEN {} ELSE processed
    /\ UNCHANGED <<session, found, db, driven, told, marked, rejected, failed, removing,
                   disturbed, unwanted, contested>>

\* It forgets who was rejected, in any class ...
clearRejectedDevices(c) ==
    /\ ending[c] = "rejected"
    /\ ending' = [ending EXCEPT ![c] = "failed"]
    /\ rejected' = {}
    /\ UNCHANGED <<session, found, db, driven, told, marked, failed, processed, removing,
                   disturbed, unwanted, contested>>

\* ... and who failed.
clearPairingFailedDevices(c) ==
    /\ ending[c] = "failed"
    /\ ending' = [ending EXCEPT ![c] = "unlink"]
    /\ failed' = {}
    /\ UNCHANGED <<session, found, db, driven, told, marked, rejected, processed, removing,
                   disturbed, unwanted, contested>>

\* Mutant: the entry is deleted, the state of its monitor is not.
UnlinkKeepsEnding(c) ==
    /\ ending[c] = "unlink"
    /\ Session!End(c)
    /\ disturbed' = disturbed \cup InPairing(c)
    /\ UNCHANGED <<ending, found, db, driven, told, marked, rejected, failed, processed,
                   removing, unwanted, contested>>

MonitorUnlinks(c) ==
    /\ ending[c] = "unlink"
    /\ Session!End(c)
    /\ ending' = [ending EXCEPT ![c] = "no"]
    /\ disturbed' = disturbed \cup InPairing(c)
    /\ UNCHANGED <<found, db, driven, told, marked, rejected, failed, processed, removing,
                   unwanted, contested>>

\* Outside of any session the processing of new descriptors forgets them too.
deviceServiceProcessDeviceDescriptors ==
    /\ \A c \in Classes : session[c] = Session!NoSession
    /\ rejected' = {} /\ failed' = {}
    /\ UNCHANGED <<session, ending, found, db, driven, told, marked, processed, removing,
                   disturbed, unwanted, contested>>

-----------------------------------------------------------------------------
(* A device joins and is found *)

deviceServiceIsInRecoveryMode == \E c \in Classes : session[c].mode = "recovery"

\* The device has joined and announced.  A known device is of interest only to a recovery,
\* an unknown one only to a discovery; one that failed to pair gets another chance.
deviceJoined(d) ==
    /\ Scanning # {} /\ found[d] = Idle
    /\ d \notin rejected
    /\ (d \in db) = deviceServiceIsInRecoveryMode
    /\ d \notin processed \/ d \in failed
    /\ processed' = processed \cup {d}
    /\ found' = [found EXCEPT ![d] = [pc |-> "details"]]
    /\ disturbed' = disturbed \ {d}
    /\ unwanted' = [unwanted EXCEPT ![d] = "no"]
    /\ contested' = IF removing[d] = "idle" THEN contested ELSE contested \cup {d}
    /\ UNCHANGED <<session, ending, db, driven, told, marked, rejected, failed, removing>>

\* The details cannot be read: the device is forgotten and asked to leave.
DetailsMissing(d) ==
    /\ found[d].pc = "details"
    /\ processed' = processed \ {d}
    /\ found' = [found EXCEPT ![d] = Idle]
    /\ UNCHANGED <<session, ending, db, driven, told, marked, rejected, failed, removing,
                   disturbed, unwanted, contested>>

\* deviceServiceDeviceFound reads the mode once, whether or not the device is known.  A
\* denylisted device, or one without a descriptor, is rejected.
deviceServiceDeviceFound(d) ==
    LET s == session[ClassOf[d]]
        repair == s.mode = "recovery"
    IN  /\ found[d].pc = "details"
        /\ \/ /\ rejected' = rejected \cup {d}
              /\ found' = [found EXCEPT ![d] = Idle]
              /\ UNCHANGED contested
           \/ /\ found' = [found EXCEPT ![d] =
                    [pc |-> "configure", repair |-> repair, ok |-> TRUE, session |-> s]]
              /\ contested' = IF repair /\ d \notin db THEN contested \cup {d} ELSE contested
              /\ UNCHANGED rejected
        /\ UNCHANGED <<session, ending, db, driven, told, marked, failed, processed, removing,
                       disturbed, unwanted>>

Goto(d, pc) == found' = [found EXCEPT ![d].pc = pc]

\* configureDevice, fetchInitialResourceValues and registerResources of the driver.  A
\* driver may hold the device from its configureDevice on, as that of Philips Hue does.
ConfigureDevice(d) ==
    /\ found[d].pc = "configure"
    /\ Goto(d, "filter") \/ Goto(d, "undo")
    /\ driven' \in {driven, driven \cup {d}}
    /\ UNCHANGED <<session, ending, db, told, marked, rejected, failed, processed, removing,
                   disturbed, unwanted, contested>>

\* Mutant: of the filters only the first is looked at, and it matches.
FiltersIgnored(d) ==
    /\ found[d].pc = "filter"
    /\ Goto(d, "check") \/ Goto(d, "undo")
    /\ UNCHANGED <<session, ending, db, driven, told, marked, rejected, failed, processed,
                   removing, disturbed, unwanted, contested>>

\* The filters of the session there is now, if any; then the driver may still refuse in
\* processDeviceDescriptor.
checkDeviceDiscoveryFilters(d) ==
    LET s == session[ClassOf[d]] IN
    /\ found[d].pc = "filter"
    /\ \/ (s # Session!NoSession => d \in Matches[s.filter]) /\ Goto(d, "check")
       \/ Goto(d, "undo")
    /\ UNCHANGED <<session, ending, db, driven, told, marked, rejected, failed, processed,
                   removing, disturbed, unwanted, contested>>

\* Mutant: the mark is deleted and the device is kept.
MarkIgnored(d) ==
    /\ found[d].pc = "check"
    /\ marked' = marked \ {d}
    /\ Goto(d, "finalize")
    /\ UNCHANGED <<session, ending, db, driven, told, rejected, failed, processed, removing,
                   disturbed, unwanted, contested>>

\* The final check for a removal.
CheckMarkedForRemoval(d) ==
    /\ found[d].pc = "check"
    /\ marked' = marked \ {d}
    /\ Goto(d, IF d \in marked THEN "undo" ELSE "finalize")
    /\ UNCHANGED <<session, ending, db, driven, told, rejected, failed, processed, removing,
                   disturbed, unwanted, contested>>

\* A recovered device has its values updated, any other is added; the database refuses one
\* that it has, and may fail to write any.
finalizeNewDevice(d) ==
    /\ found[d].pc = "finalize"
    /\ \/ /\ found[d].repair
          /\ Goto(d, "event")
          /\ UNCHANGED db
       \/ /\ ~found[d].repair /\ d \notin db
          /\ db' = db \cup {d}
          /\ Goto(d, "event")
       \/ /\ ~found[d].repair
          /\ found' = [found EXCEPT ![d].pc = "event", ![d].ok = FALSE]
          /\ UNCHANGED db
    /\ UNCHANGED <<session, ending, driven, told, marked, rejected, failed, processed, removing,
                   disturbed, unwanted, contested>>

AfterEvent(d) == IF found[d].ok THEN "persisted" ELSE "undo"

\* sendDeviceAddedEvent looks the device up, and says nothing of one that is not there.
sendDeviceAddedEvent(d) ==
    /\ found[d].pc = "event"
    /\ Goto(d, IF d \in db /\ ~found[d].repair THEN "emit" ELSE AfterEvent(d))
    /\ UNCHANGED <<session, ending, db, driven, told, marked, rejected, failed, processed,
                   removing, disturbed, unwanted, contested>>

EmitDeviceAdded(d) ==
    /\ found[d].pc = "emit"
    /\ told' = told \cup {d}
    /\ Goto(d, AfterEvent(d))
    /\ UNCHANGED <<session, ending, db, driven, marked, rejected, failed, processed, removing,
                   disturbed, unwanted, contested>>

\* devicePersisted: the driver holds a new device at the latest from here on.
DevicePersisted(d) ==
    /\ found[d].pc = "persisted"
    /\ driven' = IF found[d].repair THEN driven ELSE driven \cup {d}
    /\ found' = [found EXCEPT ![d] = Idle]
    /\ UNCHANGED <<session, ending, db, told, marked, rejected, failed, processed, removing,
                   disturbed, unwanted, contested>>

\* Mutant: the driver is not told.
PairingFailedKeepsModel(d) ==
    /\ found[d].pc = "undo"
    /\ failed' = failed \cup {d}
    /\ found' = [found EXCEPT ![d] = Idle]
    /\ contested' = IF d \in db THEN contested \cup {d} ELSE contested
    /\ UNCHANGED <<session, ending, db, driven, told, marked, rejected, processed, removing,
                   disturbed, unwanted>>

\* deviceRemoved of the driver, which drops what it holds of the device.
PairingFailed(d) ==
    /\ found[d].pc = "undo"
    /\ driven' = driven \ {d}
    /\ failed' = failed \cup {d}
    /\ found' = [found EXCEPT ![d] = Idle]
    /\ contested' = IF d \in db THEN contested \cup {d} ELSE contested
    /\ UNCHANGED <<session, ending, db, told, marked, rejected, processed, removing, disturbed,
                   unwanted>>

-----------------------------------------------------------------------------
(* deviceServiceRemoveDevice *)

\* The device is looked up.
deviceServiceRemoveDevice(d) ==
    /\ removing[d] = "idle"
    /\ removing' = [removing EXCEPT ![d] = IF d \in db THEN "known" ELSE "unknown"]
    /\ unwanted' = IF d \notin db /\ found[d] # Idle /\ unwanted[d] = "no"
                   THEN [unwanted EXCEPT ![d] = "asked"] ELSE unwanted
    /\ contested' = IF found[d] = Idle THEN contested ELSE contested \cup {d}
    /\ UNCHANGED <<session, ending, found, db, driven, told, marked, rejected, failed, processed,
                   disturbed>>

BeforeCheck(d) == found[d].pc \in {"details", "configure", "filter", "check"}

MarkForRemoval(d) ==
    /\ removing[d] = "unknown"
    /\ marked' = marked \cup {d}
    /\ removing' = [removing EXCEPT ![d] = "idle"]
    /\ unwanted' = IF unwanted[d] = "asked" /\ BeforeCheck(d)
                   THEN [unwanted EXCEPT ![d] = "inTime"] ELSE unwanted
    /\ UNCHANGED <<session, ending, found, db, driven, told, rejected, failed, processed,
                   disturbed, contested>>

RemoveFromDatabase(d) ==
    /\ removing[d] = "known"
    /\ db' = db \ {d}
    /\ removing' = [removing EXCEPT ![d] = IF d \in db THEN "driver" ELSE "idle"]
    /\ UNCHANGED <<session, ending, found, driven, told, marked, rejected, failed, processed,
                   disturbed, unwanted, contested>>

RemoveFromDriver(d) ==
    /\ removing[d] = "driver"
    /\ driven' = driven \ {d}
    /\ removing' = [removing EXCEPT ![d] = "event"]
    /\ UNCHANGED <<session, ending, found, db, told, marked, rejected, failed, processed,
                   disturbed, unwanted, contested>>

sendDeviceRemovedEvent(d) ==
    /\ removing[d] = "event"
    /\ told' = told \ {d}
    /\ removing' = [removing EXCEPT ![d] = "idle"]
    /\ UNCHANGED <<session, ending, found, db, driven, marked, rejected, failed, processed,
                   disturbed, unwanted, contested>>

PairingStep(d) ==
    \/ DetailsMissing(d)
    \/ deviceServiceDeviceFound(d)
    \/ ConfigureDevice(d)
    \/ checkDeviceDiscoveryFilters(d)
    \/ CheckMarkedForRemoval(d)
    \/ finalizeNewDevice(d)
    \/ sendDeviceAddedEvent(d)
    \/ EmitDeviceAdded(d)
    \/ DevicePersisted(d)
    \/ PairingFailed(d)

RemovalStep(d) ==
    \/ MarkForRemoval(d)
    \/ RemoveFromDatabase(d)
    \/ RemoveFromDriver(d)
    \/ sendDeviceRemovedEvent(d)

Next ==
    \/ \E c \in Classes :
          \/ \E s \in Session!Sessions : Begin(c, s)
          \/ MonitorStops(c) \/ clearRejectedDevices(c) \/ clearPairingFailedDevices(c)
          \/ MonitorUnlinks(c)
    \/ deviceServiceProcessDeviceDescriptors
    \/ \E d \in Devices : \/ deviceJoined(d)
                          \/ PairingStep(d)
                          \/ deviceServiceRemoveDevice(d)
                          \/ RemovalStep(d)

Spec == Init /\ [][Next]_vars

-----------------------------------------------------------------------------
(* Properties *)

Settled(d) == found[d] = Idle /\ removing[d] = "idle"

\* Once neither is at work on a device, pairing and removal leave the driver in charge of
\* exactly the devices in the database, whichever step failed ("We need to make sure the
\* managing driver is told to remove any persistent models of the device").
DriverMatchesDatabase == \A d \in Devices : Settled(d) => (d \in driven <=> d \in db)

\* ... and the client knows exactly of them, by the device-added and device-removed events.
ClientMatchesDatabase == \A d \in Devices : Settled(d) => (d \in told <=> d \in db)

\* The driver is in charge of exactly the devices in the database, and the client knows of
\* exactly those, through any sequence of sessions, failures and retries: what a driver took
\* in configureDevice it gives back when a later step fails.  Excepted are devices whose
\* removals overlapped their pairings, whose recoveries failed, or that were found as new
\* while their class was being recovered.
UncontestedAgree ==
    \A d \in Devices \ contested :
        Settled(d) => /\ (d \in driven <=> d \in db)
                      /\ (d \in told <=> d \in db)

MatchesSession(d, s) == s = Session!NoSession \/ d \in Matches[s.filter]

\* A device that is added matches the filters of its session, provided that the session
\* lasted from its join until it is added.
FiltersHonoured ==
    [][\A d \in db' \ db : d \notin disturbed => MatchesSession(d, found[d].session)]_vars

\* "Filters SHALL be applied during device discovery to match only devices whose resources
\* match the filter criteria": also to a device found by a session that ends meanwhile.
FiltersApplied == [][\A d \in db' \ db : MatchesSession(d, found[d].session)]_vars

\* A device that a client removes while it "may currently be being added", and that is
\* marked before the last look at the mark, is not there when both are done, whatever other
\* removals, failures and sessions come in between.
MarkedInTimeIsGone == \A d \in Devices : unwanted[d] = "inTime" /\ Settled(d) => d \notin db

\* The removal of a device that is being added removes it ("It may currently be being added.
\* Add the uuid to the toRemove list").
RemovalSticks == \A d \in Devices : unwanted[d] # "no" /\ Settled(d) => d \notin db

\* A pairing is given up for a mark only when a client removed the device during that pairing.
MarkIsForThisPairing ==
    [][\A d \in marked \ marked' : unwanted[d] # "no"]_vars
=============================================================================
