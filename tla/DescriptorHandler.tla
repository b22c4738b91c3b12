------------------------- MODULE DescriptorHandler -------------------------
(***************************************************************************)
(* The device descriptor lists (core/src/deviceDescriptorHandler.c): the   *)
(* allowlist and the denylist are fetched from configured URLs by          *)
(* repeating background tasks.  Devices may be paired once both lists are  *)
(* valid.  The URL and the checksum of the file last fetched are kept as   *)
(* system properties, so that an unchanged list is not fetched again.      *)
(*                                                                         *)
(* An update is asked for by deviceServiceDeviceDescriptorsInit, on the    *)
(* thread of the starting client, and by propertyChangedHandler, on the    *)
(* thread that sets the property.  Nothing orders these calls: each takes  *)
(* deviceDescriptorMutex to read the id of the running task and again to   *)
(* start its own, and cancels in between.                                  *)
(*                                                                         *)
(* The code of the two lists is the same but for names, with variables of  *)
(* their own, and they meet in the readiness for pairing.  The module      *)
(* follows one of them, `list', and sees of the other that it is valid.    *)
(* The content of the list is named by the URL it came from, and so is its *)
(* checksum.  The URL of the allowlist stands for the property that        *)
(* counts: the override if there is one, else the regular one.             *)
(***************************************************************************)
EXTENDS Naturals

CONSTANTS
    Urls,        \* the URLs the list can be fetched from
    FirstUrls,   \* what may be configured at first
    NoUrl,       \* no URL configured, no file, no system property
    MaxTasks,    \* bound: update tasks created in one life of the process
    MaxChanges,  \* bound: changes of the configured URL
    MaxRuns,     \* bound: runs of the descriptor processing under way
    MaxCrashes   \* bound: restarts of the process

Contents == Urls \cup {NoUrl}
NoTask == 0
TaskIds == 1 .. MaxTasks

\* The calls of the update function: that of Init, and one for each change of the URL.
Starter == 0
Callers == 0 .. MaxChanges

VARIABLES
    list,       \* the list: "allow" or "deny"
    url,        \* URL configured in the property provider
    file,       \* content of the local file
    sysUrl,     \* system property CURRENT_..._URL
    sysMd5,     \* system property CURRENT_..._MD5
    start,      \* deviceServiceDeviceDescriptorsInit: how far it is, the URL and validity it read
    valid,      \* isAllowlistValid / isDenylistValid
    otherValid, \* the same of the other list
    armed,      \* readyForPairingCB # NULL
    ready,      \* isDeviceDescriptorsListReady
    taskId,     \* allowlistTaskId / denylistTaskId
    tasks,      \* task id -> the repeating task
    created,    \* task ids handed out
    call,       \* caller -> the update function it is in
    scheduled,  \* deviceDescriptorProcessorTask # 0
    processing, \* number of runs of deviceServiceProcessDeviceDescriptors under way
    stale,      \* the list changed since the parsed descriptors were last dropped
    unprocessed,\* the list changed since the drivers last processed it
    changes, crashes,
    overlapped, \* history: two calls, or a call and the end of a task, overlapped
    misrecorded \* history: a URL or a checksum could not be recorded

disk == <<list, url, file, sysUrl, sysMd5>>
readiness == <<start, valid, otherValid, armed, ready>>
taskVars == <<taskId, tasks, created>>
processor == <<scheduled, processing, stale, unprocessed>>
bounds == <<changes, crashes>>
history == <<overlapped, misrecorded>>
vars == <<disk, readiness, taskVars, call, processor, bounds, history>>

TaskStates == {"none", "check", "download", "waiting", "seturl", "setmd5",
               "finish", "notify", "destroy"}
NoUpdate == [url |-> NoUrl, state |-> "none", updated |-> FALSE]
NoCall == [pc |-> "idle", url |-> NoUrl, id |-> NoTask]
NotStarted == [pc |-> "off", url |-> NoUrl, valid |-> FALSE]

(* Every variable keeps to its type. *)
TypeOK ==
    /\ list \in {"allow", "deny"}
    /\ url \in Contents /\ file \in Contents /\ sysUrl \in Contents /\ sysMd5 \in Contents
    /\ start \in [pc : {"off", "files", "lock", "on"}, url : Contents, valid : BOOLEAN]
    /\ taskId \in {NoTask} \cup TaskIds
    /\ tasks \in [TaskIds -> [url : Contents, state : TaskStates, updated : BOOLEAN]]
    /\ created \in 0 .. MaxTasks
    /\ call \in [Callers -> [pc : {"idle", "read", "cancel", "await", "start"}, url : Contents,
                             id : {NoTask} \cup TaskIds]]
    /\ processing \in 0 .. MaxRuns
    /\ {valid, otherValid, armed, ready, scheduled, stale, unprocessed, overlapped, misrecorded}
          \subseteq BOOLEAN
    /\ changes \in 0 .. MaxChanges /\ crashes \in 0 .. MaxCrashes

Init ==
    /\ list \in {"allow", "deny"}
    /\ url \in FirstUrls
    /\ file \in {NoUrl, url} /\ sysUrl = file /\ sysMd5 = file
    /\ start = NotStarted /\ valid = FALSE /\ otherValid \in BOOLEAN
    /\ armed = FALSE /\ ready = FALSE
    /\ taskId = NoTask /\ tasks = [i \in TaskIds |-> NoUpdate] /\ created = 0
    /\ call = [k \in Callers |-> NoCall]
    /\ scheduled = FALSE /\ processing = 0 /\ stale = FALSE /\ unprocessed = TRUE
    /\ changes = 0 /\ crashes = 0
    /\ overlapped = FALSE /\ misrecorded = FALSE

-----------------------------------------------------------------------------
(* readyForPairingCB, once per startup: pairing becomes possible and the   *)
(* descriptors are to be processed.                                        *)
checkAndSetReadyForPairing(bothValid, cb) ==
    LET fires == bothValid /\ cb
    IN  /\ armed' = (cb /\ ~fires)
        /\ ready' = (ready \/ fires)
        /\ scheduled' = (scheduled \/ fires)

Called == \E k \in Callers : call[k].pc # "idle"
Live == \E i \in TaskIds : tasks[i].state # "none"

\* deviceServiceDeviceDescriptorsInit reads the configured URL ...
InitReadUrl ==
    /\ start.pc = "off"
    /\ start' = [start EXCEPT !.pc = "files", !.url = url]
    /\ overlapped' = (overlapped \/ Called \/ Live)
    /\ UNCHANGED <<disk, valid, otherValid, armed, ready, taskVars, call, processor, bounds,
                   misrecorded>>

(* Mutant: a missing denylist is never valid. *)
LocallyValidStrict == file # NoUrl

(* A denylist is optional: without a URL it is valid. *)
LocallyValid == file # NoUrl \/ (list = "deny" /\ start.url = NoUrl)

\* ... and the local file, without the lock ...
InitReadFile ==
    /\ start.pc = "files"
    /\ start' = [start EXCEPT !.pc = "lock", !.valid = LocallyValid]
    /\ UNCHANGED <<disk, valid, otherValid, armed, ready, taskVars, call, processor, bounds,
                   history>>

CallFor(u) == [NoCall EXCEPT !.pc = "read", !.url = u]

\* ... publishes what it found under the lock, and goes on to the update.  Without a URL
\* none is started for the allowlist.
deviceServiceDeviceDescriptorsInit ==
    /\ start.pc = "lock"
    /\ start' = [start EXCEPT !.pc = "on", !.url = NoUrl, !.valid = FALSE]
    /\ valid' = start.valid
    /\ checkAndSetReadyForPairing(start.valid /\ otherValid, TRUE)
    /\ call' = IF list = "allow" /\ start.url = NoUrl THEN call
               ELSE [call EXCEPT ![Starter] = CallFor(start.url)]
    /\ UNCHANGED <<disk, otherValid, taskVars, processing, stale, unprocessed, bounds, history>>

\* The configured URL changes.  Its setter goes on to the update, except when the override
\* of the allowlist is deleted and there is no regular URL to restore.
propertyChangedHandler(u) ==
    /\ changes < MaxChanges /\ u # url
    /\ changes' = changes + 1
    /\ url' = u
    /\ \/ /\ call' = [call EXCEPT ![changes + 1] = CallFor(u)]
          /\ overlapped' = (overlapped \/ Called \/ start.pc \in {"files", "lock"})
       \/ /\ list = "allow" /\ u = NoUrl
          /\ UNCHANGED <<call, overlapped>>
    /\ UNCHANGED <<list, file, sysUrl, sysMd5, readiness, taskVars, processor, crashes,
                   misrecorded>>

\* The other list is fetched, after Init; its own races are those of this one.
OtherFetched ==
    /\ start.pc = "on" /\ ~otherValid
    /\ otherValid' = TRUE
    /\ checkAndSetReadyForPairing(valid, armed)
    /\ UNCHANGED <<disk, start, valid, taskVars, call, processing, stale, unprocessed, bounds,
                   history>>

-----------------------------------------------------------------------------
(* deviceDescriptorsUpdateAllowlist, deviceDescriptorsUpdateDenylist *)

(* Mutant: the running task is not remembered for cancelling. *)
CancelNothing(k) ==
    /\ call[k].pc = "read"
    /\ call' = [call EXCEPT ![k].pc = "start"]
    /\ UNCHANGED <<disk, readiness, taskVars, processor, bounds, history>>

(* cancelAllowlistUpdate, cancelDenylistUpdate: the id is read under the   *)
(* lock, the task is cancelled after the lock is released.                 *)
cancelUpdate(k) ==
    /\ call[k].pc = "read"
    /\ call' = [call EXCEPT ![k].pc = IF taskId = NoTask THEN "start" ELSE "cancel",
                            ![k].id = taskId]
    /\ UNCHANGED <<disk, readiness, taskVars, processor, bounds, history>>

(* A task that waits for its next try is destroyed and its destructor      *)
(* clears the id; when there is no such task the caller does.  A task that *)
(* runs is not started again, and is waited for.                           *)
cancelPolicyRepeatingTask(k) ==
    LET c == call[k]
        state == tasks[c.id].state
    IN  /\ \/ /\ c.pc = "cancel" /\ state \notin {"waiting", "none"}
              /\ call' = [call EXCEPT ![k].pc = "await"]
              /\ UNCHANGED <<tasks, taskId>>
           \/ /\ c.pc \in {"cancel", "await"}
              /\ state = "waiting" \/ (state = "none" /\ c.pc = "cancel")
              /\ call' = [call EXCEPT ![k].pc = "start", ![k].id = NoTask]
              /\ tasks' = [tasks EXCEPT ![c.id] = NoUpdate]
              /\ taskId' = NoTask
           \/ /\ c.pc = "await" /\ state = "none"
              /\ call' = [call EXCEPT ![k].pc = "start", ![k].id = NoTask]
              /\ UNCHANGED <<tasks, taskId>>
        /\ UNCHANGED <<disk, readiness, created, processor, bounds, history>>

\* A task has cleared the id, and its destructor will do so again.
Ending == \E i \in TaskIds : tasks[i].state \in {"notify", "destroy"}

(* Mutant: the id stored is not the one of the task created. *)
StartUpdateMiscounts(k) ==
    /\ call[k].pc = "start" /\ call[k].url # NoUrl
    /\ call' = [call EXCEPT ![k] = NoCall]
    /\ created < MaxTasks /\ created' = created + 1
    /\ tasks' = [tasks EXCEPT ![created + 1] =
                   [url |-> call[k].url, state |-> "check", updated |-> FALSE]]
    /\ taskId' = created + 2
    /\ overlapped' = (overlapped \/ Ending)
    /\ UNCHANGED <<disk, readiness, processor, bounds, misrecorded>>

(* A repeating task is created under the lock. *)
StartUpdate(k) ==
    /\ call[k].pc = "start" /\ call[k].url # NoUrl
    /\ call' = [call EXCEPT ![k] = NoCall]
    /\ created < MaxTasks /\ created' = created + 1
    /\ tasks' = [tasks EXCEPT ![created + 1] =
                   [url |-> call[k].url, state |-> "check", updated |-> FALSE]]
    /\ taskId' = created + 1
    /\ overlapped' = (overlapped \/ Ending)
    /\ UNCHANGED <<disk, readiness, processor, bounds, misrecorded>>

(* Without a URL no task is started, and a local denylist is removed. *)
ClearList(k) ==
    /\ call[k].pc = "start" /\ call[k].url = NoUrl
    /\ call' = [call EXCEPT ![k] = NoCall]
    /\ IF list = "deny" /\ file # NoUrl
       THEN stale' = TRUE /\ unprocessed' = TRUE
       ELSE UNCHANGED <<stale, unprocessed>>
    /\ IF list = "deny"
       THEN file' = NoUrl /\ sysUrl' = NoUrl /\ sysMd5' = NoUrl
       ELSE UNCHANGED <<file, sysUrl, sysMd5>>
    /\ UNCHANGED <<list, url, readiness, taskVars, scheduled, processing, bounds, history>>

-----------------------------------------------------------------------------
(* updateAllowlistTaskFunc, updateDenylistTaskFunc *)

Move(i, from, to) ==
    /\ tasks[i].state = from
    /\ tasks' = [tasks EXCEPT ![i].state = to]

(* Mutant: the URL of the file is not compared. *)
NeedsUpdatingByMd5(u) == NoUrl \in {sysUrl, sysMd5, file} \/ sysMd5 # file

(* Mutant: the checksum of the file is not compared. *)
NeedsUpdatingByUrl(u) == NoUrl \in {sysUrl, sysMd5, file} \/ sysUrl # u

fileNeedsUpdating(u) == NoUrl \in {sysUrl, sysMd5, file} \/ sysUrl # u \/ sysMd5 # file

updateTaskFunc(i) ==
    /\ Move(i, "check", IF fileNeedsUpdating(tasks[i].url) THEN "download" ELSE "finish")
    /\ UNCHANGED <<disk, readiness, taskId, created, call, processor, bounds, history>>

(* The file is fetched aside, validated and renamed into place. *)
downloadFile(i) ==
    /\ tasks[i].state = "download"
    /\ tasks' = [tasks EXCEPT ![i].state = "seturl", ![i].updated = TRUE]
    /\ file' = tasks[i].url
    /\ stale' = TRUE /\ unprocessed' = TRUE
    /\ UNCHANGED <<list, url, sysUrl, sysMd5, readiness, taskId, created, call, scheduled,
                   processing, bounds, history>>

(* The fetch fails or is cancelled: the task tries again after a delay ... *)
DownloadFails(i) ==
    /\ Move(i, "download", "waiting")
    /\ UNCHANGED <<disk, readiness, taskId, created, call, processor, bounds, history>>

(* ... unless it was cancelled while it ran. *)
Retry(i) ==
    /\ ~\E k \in Callers : call[k].pc = "await" /\ call[k].id = i
    /\ Move(i, "waiting", "check")
    /\ UNCHANGED <<disk, readiness, taskId, created, call, processor, bounds, history>>

(* The URL is recorded, or the old one stays: nobody looks at the result. *)
SetCurrentUrl(i) ==
    /\ Move(i, "seturl", "setmd5")
    /\ \/ sysUrl' = tasks[i].url /\ UNCHANGED misrecorded
       \/ misrecorded' = TRUE /\ UNCHANGED sysUrl
    /\ UNCHANGED <<list, url, file, sysMd5, readiness, taskId, created, call, processor, bounds,
                   overlapped>>

(* So is the checksum. *)
SetCurrentMd5(i) ==
    /\ Move(i, "setmd5", "finish")
    /\ \/ sysMd5' = file /\ UNCHANGED misrecorded
       \/ misrecorded' = TRUE /\ UNCHANGED sysMd5
    /\ UNCHANGED <<list, url, file, sysUrl, readiness, taskId, created, call, processor, bounds,
                   overlapped>>

(* The list is up to date: the task id is cleared and the list is valid.   *)
(* Only a list that was fetched can make the service ready for pairing.    *)
UpToDate(i) ==
    LET updated == tasks[i].updated
    IN  /\ Move(i, "finish", IF updated THEN "notify" ELSE "destroy")
        /\ taskId' = NoTask
        /\ valid' = TRUE
        /\ IF updated THEN checkAndSetReadyForPairing(otherValid, armed)
                      ELSE UNCHANGED <<armed, ready, scheduled>>
        /\ UNCHANGED <<disk, start, otherValid, created, call, processing, stale, unprocessed,
                       bounds, history>>

(* descriptorsUpdatedCB, once Init has set it. *)
descriptorsUpdatedCallback(i) ==
    /\ Move(i, "notify", "destroy")
    /\ scheduled' = (scheduled \/ start.pc = "on")
    /\ UNCHANGED <<disk, readiness, taskId, created, call, processing, stale, unprocessed,
                   bounds, history>>

(* The destructor clears the task id, whichever task it names by now. *)
destroyTaskObjectsFunc(i) ==
    /\ tasks[i].state = "destroy"
    /\ tasks' = [tasks EXCEPT ![i] = NoUpdate]
    /\ taskId' = NoTask
    /\ UNCHANGED <<disk, readiness, created, call, processor, bounds, history>>

-----------------------------------------------------------------------------
(* deviceServiceProcessDeviceDescriptors drops the parsed descriptors and  *)
(* then, one run at a time, hands the drivers those it looks up.  A        *)
(* look-up, also that of a device being paired, parses the lists unless    *)
(* that was done since they were dropped.                                  *)

\* The scheduled task begins; what is scheduled from now on makes another run.
processDeviceDescriptorsBackgroundTask ==
    /\ scheduled /\ processing < MaxRuns
    /\ scheduled' = FALSE
    /\ processing' = processing + 1
    /\ stale' = FALSE
    /\ UNCHANGED <<disk, readiness, taskVars, call, unprocessed, bounds, history>>

\* A change of the firmware URL processes the descriptors on the thread of its setter.
\* (Followed once the service is ready: before, no property speaks of the processing.)
FirmwareUrlChanges ==
    /\ ready /\ processing < MaxRuns
    /\ processing' = processing + 1
    /\ stale' = FALSE
    /\ UNCHANGED <<disk, readiness, taskVars, call, scheduled, unprocessed, bounds, history>>

(* Mutant: what was scheduled meanwhile is forgotten at the end. *)
ProcessingEndsSchedule ==
    /\ processing > 0
    /\ processing' = processing - 1
    /\ unprocessed' = (unprocessed /\ stale)
    /\ scheduled' = FALSE
    /\ UNCHANGED <<disk, readiness, taskVars, call, stale, bounds, history>>

\* A list that changed since the descriptors were dropped may have been parsed before that,
\* and counts as not processed.
deviceServiceProcessDeviceDescriptors ==
    /\ processing > 0
    /\ processing' = processing - 1
    /\ unprocessed' = (unprocessed /\ stale)
    /\ UNCHANGED <<disk, readiness, taskVars, call, scheduled, stale, bounds, history>>

(* The process is killed.  Files, properties and the database remain. *)
Crash ==
    /\ crashes < MaxCrashes /\ crashes' = crashes + 1
    /\ start' = NotStarted /\ valid' = FALSE /\ armed' = FALSE /\ ready' = FALSE
    /\ taskId' = NoTask /\ tasks' = [i \in TaskIds |-> NoUpdate] /\ created' = 0
    /\ call' = [k \in Callers |-> NoCall]
    /\ scheduled' = FALSE /\ processing' = 0 /\ stale' = FALSE /\ unprocessed' = TRUE
    /\ UNCHANGED <<disk, otherValid, changes, history>>

-----------------------------------------------------------------------------
Task(i) ==
    \/ updateTaskFunc(i) \/ downloadFile(i) \/ DownloadFails(i) \/ Retry(i)
    \/ SetCurrentUrl(i) \/ SetCurrentMd5(i) \/ UpToDate(i)
    \/ descriptorsUpdatedCallback(i) \/ destroyTaskObjectsFunc(i)

Starting == InitReadUrl \/ InitReadFile \/ deviceServiceDeviceDescriptorsInit

Calling(k) == cancelUpdate(k) \/ cancelPolicyRepeatingTask(k) \/ StartUpdate(k) \/ ClearList(k)

Processing == processDeviceDescriptorsBackgroundTask \/ deviceServiceProcessDeviceDescriptors

Next ==
    \/ Starting \/ Processing \/ OtherFetched \/ FirmwareUrlChanges
    \/ \E k \in Callers : Calling(k)
    \/ \E i \in TaskIds : Task(i)
    \/ \E u \in Contents : propertyChangedHandler(u)
    \/ Crash

Spec == Init /\ [][Next]_vars

(* The threads that start the service or set a property go on, and so do   *)
(* the tasks; a URL that is tried again and again is fetched at last (the  *)
(* tasks repeat until then).                                               *)
FairSpec ==
    /\ Spec
    /\ WF_vars(Starting \/ OtherFetched \/ \E k \in Callers : Calling(k))
    /\ WF_vars(\E i \in TaskIds : Task(i))
    /\ SF_vars(\E i \in TaskIds : downloadFile(i))

-----------------------------------------------------------------------------
Idle == start.pc = "on" /\ ~Called /\ ~Live

Updating == {i \in TaskIds : tasks[i].state \in {"check", "download", "waiting", "seturl", "setmd5"}}

(* One update at a time: an earlier one is cancelled first                 *)
(* (deviceDescriptorsUpdateAllowlist).                                     *)
OneUpdate == \A i, j \in Updating : i = j

(* ... whatever fails, is retried or is cancelled, and through a crash,    *)
(* unless two calls overlapped or a task was started before the destructor *)
(* of the one before had run.                                              *)
OneUpdateUnlessOverlapped == overlapped \/ OneUpdate

(* The descriptors the service settles on are those of the URL last        *)
(* configured (the file is replaced as long as an update is under way).    *)
LatestWins == Idle /\ url # NoUrl => file = url

(* ... a change before, during or after an update, or just before a crash, *)
(* wins, with the same exception and unless a URL could not be recorded.   *)
LatestWinsUnlessOverlapped == overlapped \/ misrecorded \/ LatestWins

(* A list that would not be fetched for a URL is the list of that URL, at  *)
(* whatever point of an update the process died (fileNeedsUpdating).       *)
TrustedFileIsRight == \A u \in Urls : ~fileNeedsUpdating(u) => file = u

(* ... unless a second task replaced the file between the two records of   *)
(* the first, or a URL that is not recorded left the old one beside the    *)
(* new checksum.                                                           *)
TrustedUnlessOverlapped == overlapped \/ misrecorded \/ TrustedFileIsRight

(* A list that changed is processed by the drivers, or the processing is   *)
(* still to come: a change during a run of it is not missed.               *)
ChangesAreProcessed ==
    ready /\ unprocessed =>
        \/ scheduled
        \/ processing > 0 /\ ~stale
        \/ \E i \in TaskIds : tasks[i].state \in {"seturl", "setmd5", "finish", "notify"}

(* ... except for a denylist that is removed, of which nobody is told.     *)
UpdatesAreProcessed == file = NoUrl \/ ChangesAreProcessed

(* Whatever fails and is retried, pairing becomes possible and stays so    *)
(* (checkAndSetReadyForPairing), if there is an allowlist.                 *)
BecomesReady == <>[](ready \/ (list = "allow" /\ url = NoUrl))

(* ... also through changes of the URL and a crash, with two exceptions.   *)
(* A change took the URL of the denylist away before there was one, whose  *)
(* removal does not make the list valid.  Or a change overlapped with      *)
(* Init, which then publishes what it found in the file before.            *)
BecomesReadyUnlessCleared ==
    <>[](ready \/ overlapped \/ (url = NoUrl /\ (list = "allow" \/ changes > 0)))
=============================================================================
