---------------------------- MODULE ZhalRequests ----------------------------
(***************************************************************************)
(* Requests to the Zigbee stack: core/src/zhal/c/src/zhalImpl.c and        *)
(* zhalAsyncReceiver.c.                                                    *)
(*                                                                         *)
(* A caller of zhalSendRequest puts a work item into the queue of its      *)
(* device and waits, for at most its timeout.  One worker thread takes     *)
(* the head of each queue that is not busy and transmits it; the stack     *)
(* (ZigbeeCore, another process) answers later by a datagram, which a      *)
(* detached thread of its own matches with the pending item.  The lock of  *)
(* an item is held by its caller except while it waits, and by the worker  *)
(* while it transmits; the steps below are what runs between two locks.    *)
(* Every request has an id of its own and is sent once.                    *)
(***************************************************************************)
EXTENDS Integers, Sequences, SequencesExt, FiniteSets

CONSTANTS
    Requests,   \* requests, by their ids
    Devices,    \* devices, by their eui64
    DeviceOf,   \* per request, the device it is for
    MaxInits    \* bound on the calls of zhalInit

ASSUME DeviceOfAssumption == DeviceOf \in [Requests -> Devices]

VARIABLES
    inits,      \* calls of zhalInit so far
    term,       \* how far zhalTerm is; "up" when it is not running
    tables,     \* deviceQueues exists
    mutexLost,  \* deviceQueuesMutex was left locked by a thread that is done with it
    queue,      \* per device, its queue of work items
    busy,       \* per device queue, isBusy
    asyncRequests,  \* items that await their response
    orphaned,   \* items whose device queue is no longer in deviceQueues
    call,       \* per request, where its caller is
    worker,     \* where the worker is, its available work and the item in hand
    woken,      \* items whose condition was signalled
    timedOut,   \* items with the flag timedOut
    core,       \* requests the stack has and may answer
    ipc,        \* per request, where the thread that handles its response is
    pending     \* items zhalTerm has yet to signal

vars == <<inits, term, tables, mutexLost, queue, busy, asyncRequests, orphaned, call, worker,
          woken, timedOut, core, ipc, pending>>

CallerSteps == {"idle", "checked", "push", "signal", "waiting", "expired", "expiredSent",
                "expiredUnsent", "resignal", "done"}
WorkerSteps == {"scan", "waiting", "work", "xmit", "abort", "abortSent", "abortUnsent", "gone"}
None == "none"

TypeOK ==
    /\ inits \in 1 .. MaxInits
    /\ term \in {"up", "receiver", "worker", "join", "async", "queues", "signal", "down"}
    /\ tables \in BOOLEAN /\ mutexLost \in BOOLEAN
    /\ \A d \in Devices : /\ ToSet(queue[d]) \subseteq {r \in Requests : DeviceOf[r] = d}
                          /\ busy[d] \in 0 .. 1
    /\ call \in [Requests -> CallerSteps]
    /\ worker.pc \in WorkerSteps /\ worker.todo \subseteq Requests
    /\ worker.item \in Requests \cup {None}
    /\ ipc \in [Requests -> {"none", "found", "busy", "item", "signal", "done"}]
    /\ \A s \in {asyncRequests, orphaned, woken, timedOut, core, pending} : s \subseteq Requests

NewWorker == [pc |-> "scan", todo |-> {}, item |-> None]

\* zhalInit has returned.
Init ==
    /\ inits = 1 /\ term = "up" /\ tables = TRUE /\ mutexLost = FALSE
    /\ queue = [d \in Devices |-> <<>>]
    /\ busy = [d \in Devices |-> 0]
    /\ call = [r \in Requests |-> "idle"]
    /\ worker = NewWorker
    /\ ipc = [r \in Requests |-> "none"]
    /\ asyncRequests = {} /\ orphaned = {} /\ woken = {} /\ timedOut = {}
    /\ core = {} /\ pending = {}

initialized == term = "up"
workerShutdown == term \in {"join", "async", "queues", "signal", "down"}

\* The lock of an item is free but for its caller.
ItemFree(r) == ~(worker.item = r /\ worker.pc \in {"xmit", "abort", "abortSent", "abortUnsent"})

\* The worker keeps workerMutex while it looks for work, for ever if it cannot get the other one.
WorkerMutexFree == ~(worker.pc = "scan" /\ mutexLost)

\* pthread_cond_signal(&workerCond), under workerMutex.
SignalWorker ==
    /\ WorkerMutexFree
    /\ worker' = IF worker.pc = "waiting" THEN [worker EXCEPT !.pc = "scan"] ELSE worker

Release(r) == IF r \in orphaned THEN busy ELSE [busy EXCEPT ![DeviceOf[r]] = @ - 1]

-----------------------------------------------------------------------------
(* zhalSendRequest *)

\* A caller that finds zhal not initialized returns at once and is not modelled.
zhalSendRequest(r) ==
    /\ call[r] = "idle" /\ initialized
    /\ call' = [call EXCEPT ![r] = "checked"]
    /\ UNCHANGED <<inits, term, tables, mutexLost, queue, busy, asyncRequests, orphaned, worker,
                   woken, timedOut, core, ipc, pending>>

\* Get or create the device queue.  After a shutdown the caller returns with the mutex locked.
AcquireQueue(r) ==
    /\ call[r] = "checked" /\ ~mutexLost
    /\ call' = [call EXCEPT ![r] = IF tables THEN "push" ELSE "done"]
    /\ mutexLost' = ~tables
    /\ UNCHANGED <<inits, term, tables, queue, busy, asyncRequests, orphaned, worker, woken,
                   timedOut, core, ipc, pending>>

EnqueueItem(r) ==
    /\ call[r] = "push"
    /\ queue' = IF r \in orphaned THEN queue ELSE [queue EXCEPT ![DeviceOf[r]] = Append(@, r)]
    /\ call' = [call EXCEPT ![r] = "signal"]
    /\ UNCHANGED <<inits, term, tables, mutexLost, busy, asyncRequests, orphaned, worker, woken,
                   timedOut, core, ipc, pending>>

SignalAndWait(r) ==
    /\ call[r] = "signal"
    /\ SignalWorker
    /\ call' = [call EXCEPT ![r] = "waiting"]
    /\ UNCHANGED <<inits, term, tables, mutexLost, queue, busy, asyncRequests, orphaned, woken,
                   timedOut, core, ipc, pending>>

\* The wait ends by a signal, with the response or without one.
WakeUp(r) ==
    /\ call[r] = "waiting" /\ r \in woken /\ ItemFree(r)
    /\ call' = [call EXCEPT ![r] = "done"]
    /\ UNCHANGED <<inits, term, tables, mutexLost, queue, busy, asyncRequests, orphaned, worker,
                   woken, timedOut, core, ipc, pending>>

\* Mutant: the wait is timed only until the item is sent.
ExpireUnsentOnly(r) ==
    /\ call[r] = "waiting" /\ ItemFree(r) /\ r \notin asyncRequests
    /\ call' = [call EXCEPT ![r] = "expired"]
    /\ UNCHANGED <<inits, term, tables, mutexLost, queue, busy, asyncRequests, orphaned, worker,
                   woken, timedOut, core, ipc, pending>>

\* The wait ends by its timeout, maybe just after a signal.
Expire(r) ==
    /\ call[r] = "waiting" /\ ItemFree(r)
    /\ call' = [call EXCEPT ![r] = "expired"]
    /\ UNCHANGED <<inits, term, tables, mutexLost, queue, busy, asyncRequests, orphaned, worker,
                   woken, timedOut, core, ipc, pending>>

ExpireAsync(r) ==
    /\ call[r] = "expired"
    /\ asyncRequests' = asyncRequests \ {r}
    /\ call' = [call EXCEPT ![r] = IF r \in asyncRequests THEN "expiredSent" ELSE "expiredUnsent"]
    /\ UNCHANGED <<inits, term, tables, mutexLost, queue, busy, orphaned, worker, woken, timedOut,
                   core, ipc, pending>>

\* Mutant: the busy counter is decremented for every item that times out.
ExpireAlwaysReleases(r) ==
    /\ call[r] \in {"expiredSent", "expiredUnsent"}
    /\ queue' = [queue EXCEPT ![DeviceOf[r]] = SelectSeq(@, LAMBDA q : q # r)]
    /\ busy' = Release(r)
    /\ timedOut' = IF call[r] = "expiredUnsent" /\ r \notin ToSet(queue[DeviceOf[r]])
                   THEN timedOut \cup {r} ELSE timedOut
    /\ call' = [call EXCEPT ![r] = "resignal"]
    /\ UNCHANGED <<inits, term, tables, mutexLost, asyncRequests, orphaned, worker, woken, core,
                   ipc, pending>>

\* Under the lock of the device queue: an item that was sent frees its queue, one that was
\* not is taken out of it, and one that the worker has in hand is flagged (so is here an item
\* of a queue that has left the table, which no worker will look at).
ExpireQueue(r) ==
    /\ call[r] \in {"expiredSent", "expiredUnsent"}
    /\ queue' = [queue EXCEPT ![DeviceOf[r]] = SelectSeq(@, LAMBDA q : q # r)]
    /\ busy' = IF call[r] = "expiredSent" THEN Release(r) ELSE busy
    /\ timedOut' = IF call[r] = "expiredUnsent" /\ r \notin ToSet(queue[DeviceOf[r]])
                   THEN timedOut \cup {r} ELSE timedOut
    /\ call' = [call EXCEPT ![r] = "resignal"]
    /\ UNCHANGED <<inits, term, tables, mutexLost, asyncRequests, orphaned, worker, woken, core,
                   ipc, pending>>

\* Mutant: an expired request does not tell the worker that its queue is free.
ExpireSilently(r) ==
    /\ call[r] = "resignal"
    /\ call' = [call EXCEPT ![r] = "done"]
    /\ UNCHANGED <<inits, term, tables, mutexLost, queue, busy, asyncRequests, orphaned, worker,
                   woken, timedOut, core, ipc, pending>>

ExpireSignal(r) ==
    /\ call[r] = "resignal"
    /\ SignalWorker
    /\ call' = [call EXCEPT ![r] = "done"]
    /\ UNCHANGED <<inits, term, tables, mutexLost, queue, busy, asyncRequests, orphaned, woken,
                   timedOut, core, ipc, pending>>

-----------------------------------------------------------------------------
(* workerThreadProc *)

Ready == {d \in Devices : busy[d] = 0 /\ queue[d] # <<>>}

\* Leave on shutdown; else take the head of every ready queue, or wait.
getAvailableWork ==
    /\ worker.pc = "scan"
    /\ \/ /\ workerShutdown
          /\ worker' = [worker EXCEPT !.pc = "gone"]
          /\ UNCHANGED queue
       \/ /\ ~workerShutdown /\ ~mutexLost /\ Ready = {}
          /\ worker' = [worker EXCEPT !.pc = "waiting"]
          /\ UNCHANGED queue
       \/ /\ ~workerShutdown /\ ~mutexLost /\ Ready # {}
          /\ worker' = [worker EXCEPT !.pc = "work", !.todo = {Head(queue[d]) : d \in Ready}]
          /\ queue' = [d \in Devices |-> IF d \in Ready THEN Tail(queue[d]) ELSE queue[d]]
    /\ UNCHANGED <<inits, term, tables, mutexLost, busy, asyncRequests, orphaned, call, woken,
                   timedOut, core, ipc, pending>>

\* Lock an item once its caller waits (or has given up); register it and set its queue busy.
workOnItem(r) ==
    /\ worker.pc = "work" /\ r \in worker.todo
    /\ call[r] \in {"waiting", "done"}
    /\ \/ /\ r \in timedOut
          /\ worker' = [worker EXCEPT !.todo = @ \ {r}]
          /\ UNCHANGED <<asyncRequests, busy>>
       \/ /\ r \notin timedOut
          /\ worker' = [worker EXCEPT !.pc = "xmit", !.item = r]
          /\ asyncRequests' = asyncRequests \cup {r}
          /\ busy' = [busy EXCEPT ![DeviceOf[r]] = @ + 1]
    /\ UNCHANGED <<inits, term, tables, mutexLost, queue, orphaned, call, woken, timedOut, core,
                   ipc, pending>>

PutDown == [worker EXCEPT !.pc = "work", !.todo = @ \ {worker.item}, !.item = None]

\* Transmit.  Where that fails the stack may have the request all the same.
xmit ==
    /\ worker.pc = "xmit"
    /\ \/ worker' = PutDown /\ core' = core \cup {worker.item}
       \/ worker' = [worker EXCEPT !.pc = "abort"] /\ core' \in {core, core \cup {worker.item}}
    /\ UNCHANGED <<inits, term, tables, mutexLost, queue, busy, asyncRequests, orphaned, call,
                   woken, timedOut, ipc, pending>>

AbortAsync ==
    /\ worker.pc = "abort"
    /\ asyncRequests' = asyncRequests \ {worker.item}
    /\ worker' = [worker EXCEPT !.pc =
                    IF worker.item \in asyncRequests THEN "abortSent" ELSE "abortUnsent"]
    /\ UNCHANGED <<inits, term, tables, mutexLost, queue, busy, orphaned, call, woken, timedOut,
                   core, ipc, pending>>

AbortItem ==
    /\ worker.pc \in {"abortSent", "abortUnsent"}
    /\ busy' = IF worker.pc = "abortSent" THEN Release(worker.item) ELSE busy
    /\ woken' = woken \cup {worker.item}
    /\ worker' = PutDown
    /\ UNCHANGED <<inits, term, tables, mutexLost, queue, asyncRequests, orphaned, call, timedOut,
                   core, ipc, pending>>

WorkDone ==
    /\ worker.pc = "work" /\ worker.todo = {}
    /\ worker' = [worker EXCEPT !.pc = "scan"]
    /\ UNCHANGED <<inits, term, tables, mutexLost, queue, busy, asyncRequests, orphaned, call,
                   woken, timedOut, core, ipc, pending>>

-----------------------------------------------------------------------------
(* The stack, and handleIpcResponse in a thread of its own *)

Respond(r) ==
    /\ r \in core /\ term \in {"up", "receiver"}
    /\ core' = core \ {r}
    /\ ipc' = [ipc EXCEPT ![r] = "found"]
    /\ UNCHANGED <<inits, term, tables, mutexLost, queue, busy, asyncRequests, orphaned, call,
                   worker, woken, timedOut, pending>>

LoseResponse(r) ==
    /\ r \in core
    /\ core' = core \ {r}
    /\ UNCHANGED <<inits, term, tables, mutexLost, queue, busy, asyncRequests, orphaned, call,
                   worker, woken, timedOut, ipc, pending>>

\* Look the item up and delete it from asyncRequests.
IpcFind(r) ==
    /\ ipc[r] = "found"
    /\ asyncRequests' = asyncRequests \ {r}
    /\ ipc' = [ipc EXCEPT ![r] = IF r \in asyncRequests THEN "busy" ELSE "signal"]
    /\ UNCHANGED <<inits, term, tables, mutexLost, queue, busy, orphaned, call, worker, woken,
                   timedOut, core, pending>>

IpcRelease(r) ==
    /\ ipc[r] = "busy"
    /\ busy' = Release(r)
    /\ ipc' = [ipc EXCEPT ![r] = "item"]
    /\ UNCHANGED <<inits, term, tables, mutexLost, queue, asyncRequests, orphaned, call, worker,
                   woken, timedOut, core, pending>>

\* Store the response and signal the caller, who may have given up.
IpcAnswer(r) ==
    /\ ipc[r] = "item" /\ ItemFree(r) /\ call[r] \in {"waiting", "done"}
    /\ woken' = woken \cup {r}
    /\ ipc' = [ipc EXCEPT ![r] = "signal"]
    /\ UNCHANGED <<inits, term, tables, mutexLost, queue, busy, asyncRequests, orphaned, call,
                   worker, timedOut, core, pending>>

IpcSignal(r) ==
    /\ ipc[r] = "signal"
    /\ SignalWorker
    /\ ipc' = [ipc EXCEPT ![r] = "done"]
    /\ UNCHANGED <<inits, term, tables, mutexLost, queue, busy, asyncRequests, orphaned, call,
                   woken, timedOut, core, pending>>

-----------------------------------------------------------------------------
(* zhalTerm and zhalInit *)

zhalTerm ==
    /\ term = "up" /\ inits < MaxInits
    /\ term' = "receiver"
    /\ UNCHANGED <<inits, tables, mutexLost, queue, busy, asyncRequests, orphaned, call, worker,
                   woken, timedOut, core, ipc, pending>>

\* Threads that handle responses are detached and go on.
zhalAsyncReceiverStop ==
    /\ term = "receiver"
    /\ term' = "worker"
    /\ UNCHANGED <<inits, tables, mutexLost, queue, busy, asyncRequests, orphaned, call, worker,
                   woken, timedOut, core, ipc, pending>>

TermShutdownWorker ==
    /\ term = "worker"
    /\ SignalWorker
    /\ term' = "join"
    /\ UNCHANGED <<inits, tables, mutexLost, queue, busy, asyncRequests, orphaned, call, woken,
                   timedOut, core, ipc, pending>>

TermJoinWorker ==
    /\ term = "join" /\ worker.pc = "gone"
    /\ term' = "async"
    /\ UNCHANGED <<inits, tables, mutexLost, queue, busy, asyncRequests, orphaned, call, worker,
                   woken, timedOut, core, ipc, pending>>

TermAsyncRequests ==
    /\ term = "async"
    /\ pending' = asyncRequests
    /\ asyncRequests' = {}
    /\ term' = "queues"
    /\ UNCHANGED <<inits, tables, mutexLost, queue, busy, orphaned, call, worker, woken, timedOut,
                   core, ipc>>

\* Mutant: the queues and their busy counters outlive the shutdown.
TermKeepsQueues ==
    /\ term = "queues" /\ ~mutexLost
    /\ pending' = pending \cup UNION {ToSet(queue[d]) : d \in Devices}
    /\ tables' = FALSE
    /\ orphaned' = orphaned \cup {r \in Requests : call[r] \notin {"idle", "checked"}}
    /\ term' = "signal"
    /\ UNCHANGED <<inits, mutexLost, queue, busy, asyncRequests, call, worker, woken, timedOut,
                   core, ipc>>

\* The queues leave the table; those who hold one keep it.
TermDeviceQueues ==
    /\ term = "queues" /\ ~mutexLost
    /\ pending' = pending \cup UNION {ToSet(queue[d]) : d \in Devices}
    /\ tables' = FALSE
    /\ queue' = [d \in Devices |-> <<>>]
    /\ busy' = [d \in Devices |-> 0]
    /\ orphaned' = orphaned \cup {r \in Requests : call[r] \notin {"idle", "checked"}}
    /\ term' = "signal"
    /\ UNCHANGED <<inits, mutexLost, asyncRequests, call, worker, woken, timedOut, core, ipc>>

\* Wake the caller of a pending item, once it waits.
TermSignal(r) ==
    /\ term = "signal" /\ r \in pending /\ call[r] \in {"waiting", "done"}
    /\ woken' = woken \cup {r}
    /\ pending' = pending \ {r}
    /\ UNCHANGED <<inits, term, tables, mutexLost, queue, busy, asyncRequests, orphaned, call,
                   worker, timedOut, core, ipc>>

TermDone ==
    /\ term = "signal" /\ pending = {}
    /\ term' = "down"
    /\ UNCHANGED <<inits, tables, mutexLost, queue, busy, asyncRequests, orphaned, call, worker,
                   woken, timedOut, core, ipc, pending>>

zhalInit ==
    /\ term = "down" /\ ~mutexLost
    /\ inits' = inits + 1
    /\ term' = "up"
    /\ tables' = TRUE
    /\ worker' = NewWorker
    /\ UNCHANGED <<mutexLost, queue, busy, asyncRequests, orphaned, call, woken, timedOut, core,
                   ipc, pending>>

CallerStep(r) ==
    \/ AcquireQueue(r) \/ EnqueueItem(r) \/ SignalAndWait(r) \/ WakeUp(r)
    \/ Expire(r) \/ ExpireAsync(r) \/ ExpireQueue(r) \/ ExpireSignal(r)
WorkerStep ==
    getAvailableWork \/ (\E r \in Requests : workOnItem(r)) \/ xmit \/ AbortAsync \/ AbortItem
    \/ WorkDone
IpcStep(r) == IpcFind(r) \/ IpcRelease(r) \/ IpcAnswer(r) \/ IpcSignal(r)
TermStep ==
    \/ zhalAsyncReceiverStop \/ TermShutdownWorker \/ TermJoinWorker \/ TermAsyncRequests
    \/ TermDeviceQueues \/ (\E r \in Requests : TermSignal(r)) \/ TermDone

Next ==
    \/ \E r \in Requests : \/ zhalSendRequest(r) \/ CallerStep(r)
                           \/ Respond(r) \/ LoseResponse(r) \/ IpcStep(r)
    \/ WorkerStep
    \/ zhalTerm \/ TermStep \/ zhalInit

Spec == Init /\ [][Next]_vars

\* Threads run, timeouts expire and a transmission ends (its sockets have timeouts), each
\* whatever the others do; the stack need not answer.
FairSpec ==
    /\ Spec
    /\ \A r \in Requests : WF_vars(CallerStep(r)) /\ WF_vars(IpcStep(r))
    /\ WF_vars(WorkerStep) /\ WF_vars(TermStep)

-----------------------------------------------------------------------------
(* Properties *)

\* Items that account for a busy queue: those that await their response, and those just taken
\* out of asyncRequests by the thread that is about to decrement isBusy.
Holding(d) ==
    {r \in Requests \ orphaned : DeviceOf[r] = d /\
        \/ r \in asyncRequests
        \/ ipc[r] = "busy"
        \/ call[r] = "expiredSent"
        \/ worker.item = r /\ worker.pc = "abortSent"}

\* isBusy counts the items of a device that are being sent or await their response, and there
\* is at most one: answers, timeouts and failed transmissions, in any order, decrement it once
\* for each item ("device queue is already busy" and "is still busy" are never logged).
BusyIsAccurate ==
    term # "queues" => \A d \in Devices : /\ busy[d] = Cardinality(Holding(d))
                                          /\ busy[d] <= 1

\* No work is forgotten: when the worker waits while an item could be sent, someone is on the
\* way to wake it.
NoForgottenWork ==
    worker.pc = "waiting" /\ Ready # {} =>
        \/ \E r \in Requests : call[r] \in {"signal", "resignal"} \/ ipc[r] \in {"item", "signal"}
        \/ term = "worker"

\* "This blocks until the full operation is complete or it times out": every call of
\* zhalSendRequest returns.
RequestReturns == \A r \in Requests : call[r] # "idle" ~> call[r] = "done"

\* Every call returns, whatever is lost, late or shut down, unless deviceQueuesMutex was left
\* locked by a caller that came after zhalTerm had destroyed the queues.
ReturnsUnlessMutexLost == \A r \in Requests : call[r] # "idle" ~> call[r] = "done" \/ mutexLost
=============================================================================
