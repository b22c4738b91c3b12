-------------------------- MODULE Reconfiguration --------------------------
(***************************************************************************)
(* Reconfiguration of devices in core/src/deviceService.c: a device that   *)
(* needs it at startup (its class version is outdated, or its metadata     *)
(* asks for it), or that was upgraded, is configured anew by a delayed     *)
(* task, which then replaces it in the database.  A context per device, in *)
(* the map pendingReconfiguration, lets others wake the task (a sleepy     *)
(* device that checks in), wait for it or cancel it (the removal of the    *)
(* device, shutdown).                                                      *)
(*                                                                         *)
(* The database writes every change of a device through to storage (see    *)
(* JsonDatabase), so that it survives a crash, or reports that it failed.  *)
(***************************************************************************)
EXTENDS Integers, FiniteSets

CONSTANTS
    Devices,    \* devices, by their uuid
    Contexts,   \* reconfiguration contexts, each used once
    Sleepy,     \* devices that are configured only once they check in
    MaxCrashes  \* bound on crashes

VARIABLES
    db,         \* devices in the database
    required,   \* devices with the metadata reconfigurationRequired
    unfinished, \* history: devices whose last reconfiguration has begun and not succeeded
    overlapped, \* history: devices of which one task has started while another one ran
    asked,      \* history: devices a client has asked to remove
    removed,    \* history: devices whose removal succeeded
    pendingReconfiguration,  \* per device, its context or None
    ctx,        \* per context: [pc, device, handle, signaled, terminate]
    remover,    \* per device, the thread that removes it: [pc, ctx]
    shutdown,   \* how far the shutdown is: [pc, waits]
    crashes

vars == <<db, required, unfinished, overlapped, asked, removed, pendingReconfiguration, ctx, remover,
          shutdown, crashes>>
dbVars == <<db, required, unfinished, overlapped, asked, removed>>

None == "none"
MAX_PENDING_RECONFIGURATION_WAIT_COUNT == 2

TaskRunning == {"configure", "replace", "add", "clear", "finish"}
ContextSteps == {"unused", "checked", "put", "unscheduled", "waiting", "done"} \cup TaskRunning

TypeOK ==
    /\ \A s \in {db, required, unfinished, overlapped, asked, removed} : s \subseteq Devices
    /\ pendingReconfiguration \in [Devices -> Contexts \cup {None}]
    /\ ctx \in [Contexts -> [pc : ContextSteps, device : Devices \cup {None}, handle : BOOLEAN,
                             signaled : BOOLEAN, terminate : BOOLEAN]]
    /\ \A d \in Devices : /\ remover[d].pc \in {"no", "check", "cancel", "waiting", "db"}
                          /\ remover[d].ctx \in Contexts \cup {None}
    /\ shutdown.pc \in {"no", "waiting", "closed"}
    /\ shutdown.waits \in 0 .. MAX_PENDING_RECONFIGURATION_WAIT_COUNT
    /\ crashes \in 0 .. MaxCrashes
    \* A context in the map is the one of its device, and not used up.
    /\ \A d \in Devices : pendingReconfiguration[d] # None =>
            /\ ctx[pendingReconfiguration[d]].device = d
            /\ ctx[pendingReconfiguration[d]].pc \notin {"unused", "checked", "done"}

Unused == [pc |-> "unused", device |-> None, handle |-> FALSE, signaled |-> FALSE,
           terminate |-> FALSE]
Ended == [Unused EXCEPT !.pc = "done"]
NotRemoving == [pc |-> "no", ctx |-> None]

\* All devices are in the database.
Init ==
    /\ db = Devices /\ required = {}
    /\ unfinished = {} /\ overlapped = {} /\ asked = {} /\ removed = {}
    /\ pendingReconfiguration = [d \in Devices |-> None]
    /\ ctx = [c \in Contexts |-> Unused]
    /\ remover = [d \in Devices |-> NotRemoving]
    /\ shutdown = [pc |-> "no", waits |-> 0]
    /\ crashes = 0

Open == shutdown.pc # "closed"
Step(c, pc) == ctx' = [ctx EXCEPT ![c] = IF pc = "done" THEN Ended ELSE [@ EXCEPT !.pc = pc]]
Signal(c, stop) == [ctx EXCEPT ![c] = IF @.pc = "done" THEN @
                                      ELSE [@ EXCEPT !.signaled = TRUE, !.terminate = stop]]

\* deviceServiceRemoveReconfigureDeviceContext: by the uuid, whatever context is there.
Drop(d) == IF Open THEN [pendingReconfiguration EXCEPT ![d] = None] ELSE pendingReconfiguration

\* One wait of waitForPendingReconfigurationsToComplete ends; there are only so many.
ShutdownWaitEnds ==
    /\ shutdown.pc = "waiting" /\ shutdown.waits < MAX_PENDING_RECONFIGURATION_WAIT_COUNT
    /\ shutdown' = [shutdown EXCEPT !.waits = @ + 1]

\* deviceServiceDeviceNeedsReconfiguring, as far as it is the metadata that says so.
NeedsReconfiguring(d) == d \in db /\ d \in required

-----------------------------------------------------------------------------
(* deviceServiceReconfigureDevice *)

NewContext == CHOOSE c \in Contexts : ctx[c].pc = "unused"

\* Called at startup for a device that needs it, and by drivers after an upgrade.
deviceServiceReconfigureDevice(c, d) ==
    /\ ctx[c].pc = "unused" /\ c = NewContext
    /\ pendingReconfiguration[d] = None
    /\ ctx' = [ctx EXCEPT ![c].pc = "checked", ![c].device = d]
    /\ UNCHANGED <<dbVars, pendingReconfiguration, remover, shutdown, crashes>>

\* Mutant: a context that came first is replaced.
SetContextReplaces(c) ==
    /\ ctx[c].pc = "checked"
    /\ pendingReconfiguration' = IF Open THEN [pendingReconfiguration EXCEPT ![ctx[c].device] = c]
                                 ELSE pendingReconfiguration
    /\ Step(c, IF Open THEN "put" ELSE "done")
    /\ UNCHANGED <<dbVars, remover, shutdown, crashes>>

\* The map takes the context unless it has another one by now, or is gone.
SetReconfigureDeviceContext(c) ==
    /\ ctx[c].pc = "checked"
    /\ \/ /\ Open /\ pendingReconfiguration[ctx[c].device] = None
          /\ pendingReconfiguration' = [pendingReconfiguration EXCEPT ![ctx[c].device] = c]
          /\ Step(c, "put")
       \/ /\ ~Open \/ pendingReconfiguration[ctx[c].device] # None
          /\ Step(c, "done")
          /\ UNCHANGED pendingReconfiguration
    /\ UNCHANGED <<dbVars, remover, shutdown, crashes>>

\* When scheduleDelayTask fails no one takes the context out of the map.
ScheduleTask(c) ==
    /\ ctx[c].pc = "put"
    /\ Step(c, "waiting") \/ Step(c, "unscheduled")
    /\ UNCHANGED <<dbVars, pendingReconfiguration, remover, shutdown, crashes>>

\* The handle is stored once the task is scheduled, which may run by then.
StoreTaskHandle(c) ==
    /\ ctx[c].pc \in TaskRunning \cup {"waiting"} /\ ~ctx[c].handle
    /\ ctx' = [ctx EXCEPT ![c].handle = TRUE]
    /\ UNCHANGED <<dbVars, pendingReconfiguration, remover, shutdown, crashes>>

-----------------------------------------------------------------------------
(* reconfigureDeviceTask *)

OtherTasks(c) == {e \in Contexts \ {c} : ctx[e].device = ctx[c].device /\ ctx[e].pc \in TaskRunning}

\* Mutant: the task does not set the metadata first.
TaskStartsUnmarked(c) ==
    /\ ctx[c].pc = "waiting"
    /\ Step(c, IF ctx[c].device \in db THEN "configure" ELSE "finish")
    /\ unfinished' = unfinished \cup {ctx[c].device}
    /\ overlapped' = overlapped \cup {ctx[e].device : e \in OtherTasks(c)}
    /\ UNCHANGED <<db, required, asked, removed, pendingReconfiguration, remover, shutdown, crashes>>

\* Set the metadata, then load the device.
TaskStarts(c) ==
    /\ ctx[c].pc = "waiting"
    /\ required' = required \cup ({ctx[c].device} \cap db)
    /\ Step(c, IF ctx[c].device \in db THEN "configure" ELSE "finish")
    /\ unfinished' = unfinished \cup {ctx[c].device}
    /\ overlapped' = overlapped \cup {ctx[e].device : e \in OtherTasks(c)}
    /\ UNCHANGED <<db, asked, removed, pendingReconfiguration, remover, shutdown, crashes>>

\* deviceServiceWaitForReconfigure: a sleepy device is waited for as long as its context is
\* in the map (whichever it is), for 30 minutes at most.
Await(d) ==
    LET p == pendingReconfiguration[d]
    IN  d \in Sleepy /\ p # None => ctx[p].signaled /\ ~ctx[p].terminate
Abandon(d) == d \in Sleepy /\ pendingReconfiguration[d] # None

\* Configure a new instance of the device, which may fail at any of its steps.
Configure(c) ==
    /\ ctx[c].pc = "configure"
    /\ \/ Await(ctx[c].device) /\ Step(c, "replace")
       \/ (Await(ctx[c].device) \/ Abandon(ctx[c].device)) /\ Step(c, "finish")
    /\ UNCHANGED <<dbVars, pendingReconfiguration, remover, shutdown, crashes>>

\* jsonDatabaseRemoveDeviceById, which may fail; its result is not looked at.
RemoveOldDevice(c) ==
    /\ ctx[c].pc = "replace"
    /\ \/ db' = db \ {ctx[c].device} /\ required' = required \ {ctx[c].device}
       \/ UNCHANGED <<db, required>>
    /\ Step(c, "add")
    /\ UNCHANGED <<unfinished, overlapped, asked, removed, pendingReconfiguration, remover,
                   shutdown, crashes>>

\* finalizeNewDevice writes the new device, with the metadata taken from the old one. When it
\* cannot be written it is lost. When the old one is still there the new one is not taken, and
\* the metadata, whose URI is no longer known then, stays.
AddNewDevice(c) ==
    /\ ctx[c].pc = "add"
    /\ \/ /\ ctx[c].device \notin db
          /\ db' = db \cup {ctx[c].device}
          /\ required' = required \cup {ctx[c].device}
          /\ unfinished' = unfinished \ {ctx[c].device}
          /\ Step(c, "clear")
       \/ /\ ctx[c].device \notin db
          /\ Step(c, "clear")
          /\ UNCHANGED <<db, required, unfinished>>
       \/ /\ ctx[c].device \in db
          /\ Step(c, "finish")
          /\ UNCHANGED <<db, required, unfinished>>
    /\ UNCHANGED <<overlapped, asked, removed, pendingReconfiguration, remover, shutdown, crashes>>

ClearRequired(c) ==
    /\ ctx[c].pc = "clear"
    /\ required' = required \ {ctx[c].device}
    /\ Step(c, "finish")
    /\ UNCHANGED <<db, unfinished, overlapped, asked, removed, pendingReconfiguration, remover,
                   shutdown, crashes>>

\* Mutant: a task that ends leaves its context in the map.
TaskKeepsContext(c) ==
    /\ ctx[c].pc = "finish"
    /\ Step(c, "done")
    /\ UNCHANGED <<dbVars, pendingReconfiguration, remover, shutdown, crashes>>

\* The context leaves the map, which wakes a shutdown that waits (once for several tasks, if
\* they end before it has woken up).
TaskFinishes(c) ==
    /\ ctx[c].pc = "finish"
    /\ Step(c, "done")
    /\ pendingReconfiguration' = Drop(ctx[c].device)
    /\ \/ UNCHANGED shutdown
       \/ ShutdownWaitEnds
    /\ UNCHANGED <<dbVars, remover, crashes>>

\* handlePollControlCheckin: a device that checks in wakes its task.
CheckIn(d) ==
    /\ Open /\ d \in Sleepy /\ pendingReconfiguration[d] # None
    /\ ctx' = Signal(pendingReconfiguration[d], FALSE)
    /\ UNCHANGED <<dbVars, pendingReconfiguration, remover, shutdown, crashes>>

-----------------------------------------------------------------------------
(* deviceServiceRemoveDevice *)

deviceServiceRemoveDevice(d) ==
    /\ d \in db /\ remover[d].pc = "no"
    /\ remover' = [remover EXCEPT ![d] =
            IF Open /\ pendingReconfiguration[d] # None
            THEN [pc |-> "check", ctx |-> pendingReconfiguration[d]]
            ELSE [pc |-> "db", ctx |-> None]]
    /\ asked' = asked \cup {d}
    /\ UNCHANGED <<db, required, unfinished, overlapped, removed, pendingReconfiguration, ctx,
                   shutdown, crashes>>

\* waitForOrCancelPendingReconfiguration: cancel a task that waits, else ask it to end.
CheckTask(d) ==
    /\ remover[d].pc = "check"
    /\ \/ /\ ctx[remover[d].ctx].pc = "waiting" /\ ctx[remover[d].ctx].handle
          /\ remover' = [remover EXCEPT ![d].pc = "cancel"]
          /\ UNCHANGED ctx
       \/ /\ ~(ctx[remover[d].ctx].pc = "waiting" /\ ctx[remover[d].ctx].handle)
          /\ ctx' = Signal(remover[d].ctx, TRUE)
          /\ remover' = [remover EXCEPT ![d] = [pc |-> "waiting", ctx |-> None]]
    /\ UNCHANGED <<dbVars, pendingReconfiguration, shutdown, crashes>>

\* The task may have started since it was looked at.
CancelTask(d) ==
    /\ remover[d].pc = "cancel"
    /\ ctx' = [ctx EXCEPT ![remover[d].ctx] = IF @.pc = "waiting" THEN Ended ELSE @]
    /\ pendingReconfiguration' = Drop(d)
    /\ remover' = [remover EXCEPT ![d] = [pc |-> "db", ctx |-> None]]
    /\ UNCHANGED <<dbVars, shutdown, crashes>>

\* Until the context has left the map, or for a minute.
WaitForTask(d) ==
    /\ remover[d].pc = "waiting"
    /\ remover' = [remover EXCEPT ![d] = [pc |-> "db", ctx |-> None]]
    /\ UNCHANGED <<dbVars, pendingReconfiguration, ctx, shutdown, crashes>>

\* Remove the device from the database and report it; this fails if it is not there.
RemoveFromDatabase(d) ==
    /\ remover[d].pc = "db"
    /\ db' = db \ {d} /\ required' = required \ {d}
    /\ removed' = IF d \in db THEN removed \cup {d} ELSE removed
    /\ remover' = [remover EXCEPT ![d] = NotRemoving]
    /\ UNCHANGED <<unfinished, overlapped, asked, pendingReconfiguration, ctx, shutdown, crashes>>

-----------------------------------------------------------------------------
(* deviceServiceShutdown, and a crash *)

Pending == {pendingReconfiguration[d] : d \in Devices} \ {None}
Cancelable == {c \in Pending : ctx[c].pc = "waiting" /\ ctx[c].handle}

\* cancelPendingReconfigurationTasks: some tasks may have started since they were looked at.
ShutdownCancels ==
    /\ shutdown.pc = "no"
    /\ \E started \in SUBSET Cancelable :
        ctx' = [c \in Contexts |->
                  IF c \in Cancelable \ started THEN Ended
                  ELSE IF c \in Pending \ Cancelable
                       THEN [ctx[c] EXCEPT !.signaled = TRUE, !.terminate = TRUE]
                  ELSE ctx[c]]
    /\ pendingReconfiguration' =
            [d \in Devices |-> IF pendingReconfiguration[d] \in Cancelable THEN None
                               ELSE pendingReconfiguration[d]]
    /\ shutdown' = [shutdown EXCEPT !.pc = "waiting"]
    /\ UNCHANGED <<dbVars, remover, crashes>>

ShutdownWaitExpires ==
    /\ Pending # {}
    /\ ShutdownWaitEnds
    /\ UNCHANGED <<dbVars, pendingReconfiguration, ctx, remover, crashes>>

\* pendingReconfiguration is destroyed.
ShutdownCloses ==
    /\ shutdown.pc = "waiting"
    /\ Pending = {} \/ shutdown.waits = MAX_PENDING_RECONFIGURATION_WAIT_COUNT
    /\ shutdown' = [shutdown EXCEPT !.pc = "closed"]
    /\ pendingReconfiguration' = [d \in Devices |-> None]
    /\ UNCHANGED <<dbVars, ctx, remover, crashes>>

\* A crash ends all threads; at the next start the database is what it was.
Crash ==
    /\ crashes < MaxCrashes
    /\ crashes' = crashes + 1
    /\ ctx' = [c \in Contexts |-> IF ctx[c].pc = "unused" THEN Unused ELSE Ended]
    /\ pendingReconfiguration' = [d \in Devices |-> None]
    /\ remover' = [d \in Devices |-> NotRemoving]
    /\ shutdown' = [pc |-> "no", waits |-> 0]
    /\ UNCHANGED dbVars

TaskStep(c) ==
    \/ SetReconfigureDeviceContext(c) \/ ScheduleTask(c) \/ TaskStarts(c) \/ Configure(c)
    \/ RemoveOldDevice(c) \/ AddNewDevice(c) \/ ClearRequired(c) \/ TaskFinishes(c)

Next ==
    \/ \E c \in Contexts : \/ \E d \in Devices : deviceServiceReconfigureDevice(c, d)
                           \/ StoreTaskHandle(c) \/ TaskStep(c)
    \/ \E d \in Devices : \/ CheckIn(d) \/ deviceServiceRemoveDevice(d) \/ CheckTask(d)
                          \/ CancelTask(d) \/ WaitForTask(d) \/ RemoveFromDatabase(d)
    \/ ShutdownCancels \/ ShutdownWaitExpires \/ ShutdownCloses \/ Crash

Spec == Init /\ [][Next]_vars

\* A delayed task is started and runs; a sleepy device is waited for 30 minutes at most.
FairSpec == Spec /\ \A c \in Contexts : WF_vars(TaskStep(c))

-----------------------------------------------------------------------------
(* Properties *)

\* A device that no one has asked to remove has one reconfiguration task at most, until the
\* service is shut down: "schedule a reconfiguration task if one is not already scheduled"
\* holds though the check and the entry into the map are apart.
OneTaskPerDevice ==
    shutdown.pc = "no" =>
        \A c, e \in {f \in Contexts : ctx[f].pc \in TaskRunning \cup {"waiting"}} :
            ctx[c].device = ctx[e].device => c = e \/ ctx[c].device \in asked

\* No device is lost: one that was not removed is in the database, but for the moment in which
\* its task replaces it.
DeviceKept ==
    \A d \in Devices \ removed :
        d \in db \/ \E c \in Contexts : ctx[c].device = d /\ ctx[c].pc = "add"

\* A reconfiguration that was begun and did not succeed (a failure of any step, an abandoned
\* wait, a crash) is asked for again at the next start, as long as its device is in the
\* database. Two tasks of a device at once (see OneTaskPerDevice) share its metadata: the one
\* that succeeds also clears what the other one has set.
RetriedAfterRestart ==
    \A d \in (unfinished \cap db) \ overlapped : NeedsReconfiguring(d)

\* A device that was removed does not come back: its reconfiguration "needs to be waited on or
\* canceled before we can safely remove it".
RemovedStaysAway == removed \cap db = {}

\* Shutdown goes on only when no reconfiguration runs any more: it is to "wait for the running
\* ones to complete".
ShutdownWaitsForTasks ==
    shutdown.pc = "closed" => \A c \in Contexts : ctx[c].pc \notin TaskRunning

\* Every pending reconfiguration comes to an end, so that removal and shutdown need not give up.
PendingEnds ==
    \A d \in Devices : pendingReconfiguration[d] # None ~> pendingReconfiguration[d] = None

\* ... unless its task could not be scheduled: its context then stays until the service ends.
PendingEndsIfScheduled ==
    \A d \in Devices :
        pendingReconfiguration[d] # None
          ~> \/ pendingReconfiguration[d] = None
             \/ ctx[pendingReconfiguration[d]].pc = "unscheduled"
=============================================================================
