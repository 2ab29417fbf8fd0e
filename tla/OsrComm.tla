------------------------------ MODULE OsrComm ------------------------------
(***************************************************************************)
(* The inverted-call driver, 09/inverted_call/driver/comm.cpp.             *)
(*                                                                         *)
(* Application threads (Clients) read and write a data device.  Each IRP   *)
(* becomes a data request that waits on the read or write queue until a    *)
(* service thread (Workers) answers it.  Service threads get requests and  *)
(* send responses through a control device: a request and a waiting        *)
(* service IRP meet at the pair RequestQueue / ServiceQueue.               *)
(*                                                                         *)
(* ServiceQueueLock and RequestQueueLock nest, so they are explicit.  The  *)
(* locks of the read and the write queue are only ever taken alone, around *)
(* one critical section with no other lock in it: that section is a step.  *)
(*                                                                         *)
(* The first access to freed pool or to a completed IRP is undefined; the  *)
(* model stops there, with bugcheck saying why.                            *)
(*                                                                         *)
(* Name_Slip is Name with a plausible slip in it; nothing uses it, and the *)
(* property that would be lost with it is named in PROJECT.json.           *)
(***************************************************************************)
EXTENDS Naturals, Sequences, FiniteSets

CONSTANTS
  Clients,          \* application threads, each with a file object of its own
  Workers,          \* threads of the service, each with one control IRP
  Blocks,           \* the pool that data requests are allocated from
  Control,          \* the file object of the control device
  Nil,              \* no thread, no block
  IdLimit,          \* OsrRequestID is counted modulo IdLimit (2^32 in the code)
  MaxRequests,      \* bound on the data requests issued in a behaviour
  ResourceFaults,   \* may MDL allocation, page locking, mapping and copying fail?
  ControlCloses,    \* may the service close the control device?
  DataCloses        \* may an application close its handle during a call?

Ops == {"read", "write"}
Ids == 0 .. IdLimit - 1
DataRequest == [client : Clients, op : Ops, id : Ids, irp : {"pending", "completed"}]

ASSUME NilAssumption ==
  /\ Nil \notin Clients \cup Workers \cup Blocks \cup DataRequest
  /\ Clients \cap Workers = {}
  /\ Control \notin Clients
ASSUME BoundAssumption ==
  /\ IdLimit \in Nat /\ IdLimit > 2
  /\ MaxRequests \in Nat
ASSUME SwitchAssumption == {ResourceFaults, ControlCloses, DataCloses} \subseteq BOOLEAN

VARIABLES
  DeviceState,      \* of the data device: "none", "active" or "inactive"
  ServiceQueue,     \* service IRPs waiting for a request, by their thread
  RequestQueue,     \* requests waiting for a service thread
  queue,            \* ReadRequestQueue and WriteRequestQueue, by operation
  serviceLock,      \* the owner of ServiceQueueLock
  requestLock,      \* the owner of RequestQueueLock
  heap,             \* the data request in each pool block, Nil when free
  OsrRequestID,     \* the last request identifier handed out
  issued,           \* requests issued so far (ghost, for MaxRequests)
  cpc, creq,        \* where a client is, and its dataRequest pointer
  dataIrp,          \* the status of the IRP a client waits for
  wpc, wreq,        \* where a worker is, and its dataRequest pointer
  held,             \* the request the worker's buffer holds
  file,             \* how far the cleanup of each file object has got
  leaked,           \* was a control IRP abandoned without being completed?
  bugcheck          \* the first undefined access, "no" before it

queues == <<ServiceQueue, RequestQueue, queue>>
locks  == <<serviceLock, requestLock>>
memory == <<heap, OsrRequestID, issued>>
client == <<cpc, creq, dataIrp>>
worker == <<wpc, wreq, held, leaked>>
files  == <<file, DeviceState>>
vars   == <<queues, locks, memory, client, worker, files, bugcheck>>

Threads == Clients \cup Workers
Files   == Clients \cup {Control}
Stages  == {"closed", "open", "service", "request", "read", "write", "cleaned"}
Zeroed  == [id |-> 0, type |-> "zero"]

\* DriverEntry leaves the queues empty; OsrRequestID starts at 0xFFFFFFFE.
Init ==
  /\ DeviceState = "none"
  /\ ServiceQueue = <<>>
  /\ RequestQueue = <<>>
  /\ queue = [op \in Ops |-> {}]
  /\ serviceLock = Nil
  /\ requestLock = Nil
  /\ heap = [b \in Blocks |-> Nil]
  /\ OsrRequestID = IdLimit - 2
  /\ issued = 0
  /\ cpc = [c \in Clients |-> "idle"]
  /\ creq = [c \in Clients |-> Nil]
  /\ dataIrp = [c \in Clients |-> "none"]
  /\ wpc = [w \in Workers |-> "idle"]
  /\ wreq = [w \in Workers |-> Nil]
  /\ held = [w \in Workers |-> Zeroed]
  /\ file = [f \in Files |-> IF f = Control THEN "closed" ELSE "open"]
  /\ leaked = FALSE
  /\ bugcheck = "no"

-----------------------------------------------------------------------------
(* Memory.                                                                 *)

Linked == {RequestQueue[i] : i \in DOMAIN RequestQueue}

\* A freed block that is still linked: any list operation next to it is undefined.
RequestQueueDangles == \E b \in Linked : heap[b] = Nil
QueueDangles(op)    == \E b \in queue[op] : heap[b] = Nil

\* The entry of a failed write: its IRP was completed and is gone.
Stale(b) == heap[b] # Nil /\ heap[b].irp = "completed"
QueueStale(op) == \E b \in queue[op] : Stale(b)

\* The client's request was completed and freed under its feet.
RequestGone(c) == heap[creq[c]] = Nil \/ dataIrp[c] # "pending"

\* RemoveEntryList and ExFreePool, for requests on the read or write queue.
RemoveAndFree_Forgotten(gone, op) == UNCHANGED <<queue, heap>>
RemoveAndFree(gone, op) ==
  /\ queue' = [queue EXCEPT ![op] = @ \ gone]
  /\ heap' = [b \in Blocks |-> IF b \in gone THEN Nil ELSE heap[b]]

\* InterlockedIncrement on a ULONG.
NextRequestID_NoRollOver == OsrRequestID + 1
NextRequestID == (OsrRequestID + 1) % IdLimit

\* Every step but the undefined ones.
Defined == bugcheck = "no" /\ bugcheck' = "no"

Bugcheck(why) ==
  /\ bugcheck = "no"
  /\ bugcheck' = why
  /\ UNCHANGED <<queues, locks, memory, client, worker, files>>

-----------------------------------------------------------------------------
(* OsrCommReadWrite, on the data device.                                   *)

\* Anything but an active device fails the IRP at once and changes nothing;
\* so does a pool with no free block.
StartReadWrite(c, op, b) ==
  /\ Defined
  /\ cpc[c] = "idle"
  /\ file[c] = "open"
  /\ DeviceState = "active"
  /\ issued < MaxRequests
  /\ heap[b] = Nil
  /\ b \notin Linked \cup queue["read"] \cup queue["write"]
  /\ OsrRequestID' = NextRequestID
  /\ heap' = [heap EXCEPT ![b] =
                [client |-> c, op |-> op, id |-> NextRequestID, irp |-> "pending"]]
  /\ issued' = issued + 1
  /\ creq' = [creq EXCEPT ![c] = b]
  /\ dataIrp' = [dataIrp EXCEPT ![c] = "pending"]
  /\ cpc' = [cpc EXCEPT ![c] = "enqueue"]
  /\ UNCHANGED <<queues, locks, worker, files>>

\* Under the read or write queue lock.
Enqueue(c) ==
  /\ Defined
  /\ cpc[c] = "enqueue"
  /\ ~RequestGone(c)
  /\ ~QueueDangles(heap[creq[c]].op)
  /\ queue' = [queue EXCEPT ![heap[creq[c]].op] = @ \cup {creq[c]}]
  /\ cpc' = [cpc EXCEPT ![c] = "acquireService"]
  /\ UNCHANGED <<ServiceQueue, RequestQueue, locks, memory, creq, dataIrp, worker,
                 files>>

ClientAcquireService(c) ==
  /\ Defined
  /\ cpc[c] = "acquireService"
  /\ serviceLock = Nil
  /\ serviceLock' = c
  /\ cpc' = [cpc EXCEPT ![c] = "holdsService"]
  /\ UNCHANGED <<queues, requestLock, memory, creq, dataIrp, worker, files>>

\* No service IRP waits: take RequestQueueLock as well ...
ClientAcquireRequest_Unchecked(c) ==
  /\ Defined
  /\ cpc[c] = "holdsService"
  /\ requestLock = Nil
  /\ requestLock' = c
  /\ cpc' = [cpc EXCEPT ![c] = "holdsBoth"]
  /\ UNCHANGED <<queues, serviceLock, memory, creq, dataIrp, worker, files>>
ClientAcquireRequest(c) ==
  /\ Defined
  /\ cpc[c] = "holdsService"
  /\ ServiceQueue = <<>>
  /\ requestLock = Nil
  /\ requestLock' = c
  /\ cpc' = [cpc EXCEPT ![c] = "holdsBoth"]
  /\ UNCHANGED <<queues, serviceLock, memory, creq, dataIrp, worker, files>>

\* ... and leave the request for the next one.
QueueRequest(c) ==
  /\ Defined
  /\ cpc[c] = "holdsBoth"
  /\ ~RequestGone(c)
  /\ ~RequestQueueDangles
  /\ RequestQueue' = Append(RequestQueue, creq[c])
  /\ serviceLock' = Nil
  /\ requestLock' = Nil
  /\ cpc' = [cpc EXCEPT ![c] = "wait"]
  /\ UNCHANGED <<ServiceQueue, queue, memory, creq, dataIrp, worker, files>>

\* The service IRP at the head is completed with the request.
HandToService(c) ==
  LET w == Head(ServiceQueue)  r == heap[creq[c]] IN
  /\ Defined
  /\ cpc[c] = "holdsService"
  /\ ServiceQueue # <<>>
  /\ ~RequestGone(c)
  /\ ServiceQueue' = Tail(ServiceQueue)
  /\ held' = [held EXCEPT ![w] = [id |-> r.id, type |-> r.op]]
  /\ wpc' = [wpc EXCEPT ![w] = "answer"]
  /\ serviceLock' = Nil
  /\ cpc' = [cpc EXCEPT ![c] = "wait"]
  /\ UNCHANGED <<RequestQueue, queue, requestLock, memory, creq, dataIrp, wreq, leaked,
                 files>>

\* The failure paths of a write release the lock first ...
FailWrite(c) ==
  /\ Defined
  /\ ResourceFaults
  /\ cpc[c] = "holdsService"
  /\ ServiceQueue # <<>>
  /\ ~RequestGone(c)
  /\ heap[creq[c]].op = "write"
  /\ serviceLock' = Nil
  /\ cpc' = [cpc EXCEPT ![c] = "fail"]
  /\ UNCHANGED <<RequestQueue, queue, requestLock, memory, creq, dataIrp, wreq, leaked,
                 files>>

\* IoAllocateMdl returns NULL or MmProbeAndLockProcessPages raises: the service
\* IRP goes back, to the tail.
FailWriteNoMdl_DropsIrp(c) ==
  /\ FailWrite(c)
  /\ ServiceQueue' = Tail(ServiceQueue)
  /\ UNCHANGED <<wpc, held>>
FailWriteNoMdl(c) ==
  /\ FailWrite(c)
  /\ ServiceQueue' = Append(Tail(ServiceQueue), Head(ServiceQueue))
  /\ UNCHANGED <<wpc, held>>

\* No system PTEs: the service IRP fails, its Information is 0 and the thread's
\* zeroed buffer is not written.
FailWriteNoPte(c) ==
  /\ FailWrite(c)
  /\ ServiceQueue' = Tail(ServiceQueue)
  /\ wpc' = [wpc EXCEPT ![Head(ServiceQueue)] = "answer"]
  /\ UNCHANGED held

\* ... and then complete the data IRP; its request stays on the write queue.
CompleteFailedWrite(c) ==
  /\ Defined
  /\ cpc[c] = "fail"
  /\ ~RequestGone(c)
  /\ heap' = [heap EXCEPT ![creq[c]].irp = "completed"]
  /\ dataIrp' = [dataIrp EXCEPT ![c] = "error"]
  /\ cpc' = [cpc EXCEPT ![c] = "wait"]
  /\ UNCHANGED <<queues, locks, OsrRequestID, issued, creq, worker, files>>

\* The I/O manager: the synchronous call returns once its IRP is completed.
Return(c) ==
  /\ Defined
  /\ cpc[c] = "wait"
  /\ dataIrp[c] # "pending"
  /\ dataIrp' = [dataIrp EXCEPT ![c] = "none"]
  /\ creq' = [creq EXCEPT ![c] = Nil]
  /\ cpc' = [cpc EXCEPT ![c] = "idle"]
  /\ UNCHANGED <<queues, locks, memory, worker, files>>

-----------------------------------------------------------------------------
(* OsrCommDeviceControl, on the control device.                            *)

\* OSR_COMM_CONTROL_GET_REQUEST, sent with a zeroed buffer.
GetRequest(w) ==
  /\ Defined
  /\ wpc[w] = "idle"
  /\ file[Control] = "open"
  /\ held' = [held EXCEPT ![w] = Zeroed]
  /\ wpc' = [wpc EXCEPT ![w] = "acquireService"]
  /\ UNCHANGED <<queues, locks, memory, client, wreq, leaked, files>>

\* SEND_RESPONSE completes the control IRP and lets the thread go; GET_AND_SEND
\* goes on to ProcessControlRequest.
AfterResponse(w) == \E pc \in {"idle", "acquireService"} :
  /\ wpc' = [wpc EXCEPT ![w] = pc]
  /\ held' = [held EXCEPT ![w] = Zeroed]

Sends(w) ==
  /\ wpc[w] = "answer"
  /\ file[Control] = "open"

\* The requests a response matches, by their identifier alone: the walk reads no
\* IRP of the entries it steps over.  The code takes the first match it meets.
Matching_AnyRequest(w) == queue[held[w].type]
Matching(w) == {b \in queue[held[w].type] : heap[b].id = held[w].id}

\* ProcessResponse finds the request: copy, complete, free.  The copy may raise,
\* which fails the data IRP only.
Respond(w) ==
  /\ Defined
  /\ Sends(w)
  /\ held[w].type \in Ops
  /\ ~QueueDangles(held[w].type)
  /\ \E b \in Matching(w), result \in {"success"} \cup IF ResourceFaults THEN {"error"} ELSE {} :
       /\ ~Stale(b)
       /\ RemoveAndFree({b}, held[w].type)
       /\ dataIrp' = [dataIrp EXCEPT ![heap[b].client] = result]
  /\ AfterResponse(w)
  /\ UNCHANGED <<ServiceQueue, RequestQueue, locks, OsrRequestID, issued, cpc, creq,
                 wreq, leaked, files>>

\* No request has this identifier (it was cancelled meanwhile): still a success.
RespondToNobody(w) ==
  /\ Defined
  /\ Sends(w)
  /\ held[w].type \in Ops
  /\ ~QueueDangles(held[w].type)
  /\ Matching(w) = {}
  /\ AfterResponse(w)
  /\ UNCHANGED <<queues, locks, memory, client, wreq, leaked, files>>

\* When ProcessResponse fails, OsrCommDeviceControl returns the status and
\* nobody completes the control IRP.
Abandon(w) ==
  /\ leaked' = TRUE
  /\ wpc' = [wpc EXCEPT ![w] = "idle"]
  /\ held' = [held EXCEPT ![w] = Zeroed]

RespondWithBadType(w) ==
  /\ Defined
  /\ Sends(w)
  /\ held[w].type \notin Ops
  /\ Abandon(w)
  /\ UNCHANGED <<queues, locks, memory, client, wreq, files>>

RespondUnmapped(w) ==
  /\ Defined
  /\ ResourceFaults
  /\ Sends(w)
  /\ held[w].type \in Ops
  /\ ~QueueDangles(held[w].type)
  /\ \E b \in Matching(w) :
       /\ ~Stale(b)
       /\ RemoveAndFree({b}, held[w].type)
       /\ dataIrp' = [dataIrp EXCEPT ![heap[b].client] = "error"]
  /\ Abandon(w)
  /\ UNCHANGED <<ServiceQueue, RequestQueue, locks, OsrRequestID, issued, cpc, creq,
                 wreq, files>>

WorkerAcquireService(w) ==
  /\ Defined
  /\ wpc[w] = "acquireService"
  /\ serviceLock = Nil
  /\ serviceLock' = w
  /\ wpc' = [wpc EXCEPT ![w] = "holdsService"]
  /\ UNCHANGED <<queues, requestLock, memory, client, wreq, held, leaked, files>>

WorkerAcquireRequest(w) ==
  /\ Defined
  /\ wpc[w] = "holdsService"
  /\ requestLock = Nil
  /\ requestLock' = w
  /\ wpc' = [wpc EXCEPT ![w] = "holdsBoth"]
  /\ UNCHANGED <<queues, serviceLock, memory, client, wreq, held, leaked, files>>

ReleaseBoth_KeepsRequestLock ==
  /\ serviceLock' = Nil
  /\ UNCHANGED requestLock
ReleaseBoth ==
  /\ serviceLock' = Nil
  /\ requestLock' = Nil

\* ProcessControlRequest: a request waits ...
TakeRequest_Peeks(w) ==
  /\ Defined
  /\ wpc[w] = "holdsBoth"
  /\ RequestQueue # <<>>
  /\ ~RequestQueueDangles
  /\ wreq' = [wreq EXCEPT ![w] = Head(RequestQueue)]
  /\ ReleaseBoth
  /\ wpc' = [wpc EXCEPT ![w] = "deliver"]
  /\ UNCHANGED <<queues, memory, client, held, leaked, files>>
TakeRequest(w) ==
  /\ Defined
  /\ wpc[w] = "holdsBoth"
  /\ RequestQueue # <<>>
  /\ ~RequestQueueDangles
  /\ wreq' = [wreq EXCEPT ![w] = Head(RequestQueue)]
  /\ RequestQueue' = Tail(RequestQueue)
  /\ ReleaseBoth
  /\ wpc' = [wpc EXCEPT ![w] = "deliver"]
  /\ UNCHANGED <<ServiceQueue, queue, memory, client, held, leaked, files>>

\* ... or the service IRP does.
QueueServiceIrp_Unchecked(w) ==
  /\ Defined
  /\ wpc[w] = "holdsBoth"
  /\ ServiceQueue' = Append(ServiceQueue, w)
  /\ ReleaseBoth
  /\ wpc' = [wpc EXCEPT ![w] = "pending"]
  /\ UNCHANGED <<RequestQueue, queue, memory, client, wreq, held, leaked, files>>
QueueServiceIrp(w) ==
  /\ Defined
  /\ wpc[w] = "holdsBoth"
  /\ RequestQueue = <<>>
  /\ ServiceQueue' = Append(ServiceQueue, w)
  /\ ReleaseBoth
  /\ wpc' = [wpc EXCEPT ![w] = "pending"]
  /\ UNCHANGED <<RequestQueue, queue, memory, client, wreq, held, leaked, files>>

\* With both locks released, the request is copied to the service IRP.
DeliverGone(w) == ~(heap[wreq[w]] # Nil /\ heap[wreq[w]].irp = "pending")

Deliver(w) ==
  LET r == heap[wreq[w]] IN
  /\ Defined
  /\ wpc[w] = "deliver"
  /\ ~DeliverGone(w)
  /\ held' = [held EXCEPT ![w] = [id |-> r.id, type |-> r.op]]
  /\ wreq' = [wreq EXCEPT ![w] = Nil]
  /\ wpc' = [wpc EXCEPT ![w] = "answer"]
  /\ UNCHANGED <<queues, locks, memory, client, leaked, files>>

\* The data buffer cannot be mapped: the data IRP fails, its request is freed but
\* stays on the write queue, and the thread gets success with no request in it.
DeliverUnmapped(w) ==
  LET b == wreq[w] IN
  /\ Defined
  /\ ResourceFaults
  /\ wpc[w] = "deliver"
  /\ ~DeliverGone(w)
  /\ heap[b].op = "write"
  /\ heap' = [heap EXCEPT ![b] = Nil]
  /\ dataIrp' = [dataIrp EXCEPT ![heap[b].client] = "error"]
  /\ wreq' = [wreq EXCEPT ![w] = Nil]
  /\ wpc' = [wpc EXCEPT ![w] = "answer"]
  /\ UNCHANGED <<queues, locks, OsrRequestID, issued, cpc, creq, held, leaked, files>>

\* The copy raises: the control IRP completes, the request stays on the write
\* queue and no thread was told of it.
DeliverCopyFails(w) ==
  /\ Defined
  /\ ResourceFaults
  /\ wpc[w] = "deliver"
  /\ ~DeliverGone(w)
  /\ heap[wreq[w]].op = "write"
  /\ wreq' = [wreq EXCEPT ![w] = Nil]
  /\ wpc' = [wpc EXCEPT ![w] = "idle"]
  /\ UNCHANGED <<queues, locks, memory, client, held, leaked, files>>

-----------------------------------------------------------------------------
(* OsrCommCreate, OsrCommCleanup and OsrCommClose.                         *)

\* The control device is exclusive; opening it activates the data device.
CreateControl ==
  /\ Defined
  /\ file[Control] = "closed"
  /\ file' = [file EXCEPT ![Control] = "open"]
  /\ DeviceState' = "active"
  /\ UNCHANGED <<queues, locks, memory, client, worker>>

\* The last handle is closed, whatever its threads are doing.
StartCleanup(f) ==
  /\ Defined
  /\ IF f = Control THEN ControlCloses ELSE DataCloses
  /\ file[f] = "open"
  /\ file' = [file EXCEPT ![f] = "service"]
  /\ DeviceState' = IF f = Control THEN "inactive" ELSE DeviceState
  /\ UNCHANGED <<queues, locks, memory, client, worker>>

\* CancelPendingRequestList on the service and request queues reads every entry
\* through the wrong list link: it skips the entry (a zero word) or dies.
CancelMisread(f) == \E stage \in {"service", "request"} :
  /\ Defined
  /\ file[f] = stage
  /\ IF stage = "service" THEN serviceLock = Nil ELSE requestLock = Nil
  /\ file' = [file EXCEPT ![f] = IF stage = "service" THEN "request" ELSE "read"]
  /\ UNCHANGED <<queues, locks, memory, client, worker, DeviceState>>

\* CancelPendingRequestList on the read and then the write queue.
Cancelled(f, op) ==
  {b \in queue[op] : heap[b] # Nil /\ (f = Control \/ heap[b].client = f)}

CancelDataQueue(f) == \E op \in Ops :
  LET gone == Cancelled(f, op) IN
  /\ Defined
  /\ file[f] = op
  /\ ~QueueDangles(op) /\ ~QueueStale(op)
  /\ RemoveAndFree(gone, op)
  /\ dataIrp' = [c \in Clients |->
       IF \E b \in gone : heap[b].client = c THEN "cancelled" ELSE dataIrp[c]]
  /\ file' = [file EXCEPT ![f] = IF op = "read" THEN "write" ELSE "cleaned"]
  /\ UNCHANGED <<ServiceQueue, RequestQueue, locks, OsrRequestID, issued, cpc, creq,
                 worker, DeviceState>>

\* The file object goes when its last IRP does; a new service starts afresh.
CloseControl ==
  /\ Defined
  /\ file[Control] = "cleaned"
  /\ ~leaked
  /\ \A w \in Workers : wpc[w] \in {"idle", "answer"}
  /\ file' = [file EXCEPT ![Control] = "closed"]
  /\ wpc' = [w \in Workers |-> "idle"]
  /\ held' = [w \in Workers |-> Zeroed]
  /\ UNCHANGED <<queues, locks, memory, client, wreq, leaked, DeviceState>>

-----------------------------------------------------------------------------
(* Undefined accesses.                                                     *)

UseAfterFree ==
  /\ \/ \E c \in Clients :
          \/ cpc[c] = "enqueue" /\ RequestGone(c)
          \/ cpc[c] = "enqueue" /\ ~RequestGone(c) /\ QueueDangles(heap[creq[c]].op)
          \/ cpc[c] = "holdsBoth" /\ (RequestGone(c) \/ RequestQueueDangles)
          \/ cpc[c] = "holdsService" /\ ServiceQueue # <<>> /\ RequestGone(c)
     \/ \E w \in Workers :
          \/ Sends(w) /\ held[w].type \in Ops /\ QueueDangles(held[w].type)
          \/ wpc[w] = "holdsBoth" /\ RequestQueueDangles
          \/ wpc[w] = "deliver" /\ DeliverGone(w)
     \/ \E f \in Files, op \in Ops : file[f] = op /\ QueueDangles(op)
     \* cleanup of a data handle reads the file object of every entry's IRP
     \/ \E f \in Clients, op \in Ops : file[f] = op /\ QueueStale(op)
     \* the pool hands out a block that is still linked, and it is zeroed
     \/ \E c \in Clients, op \in Ops :
          /\ cpc[c] = "idle" /\ file[c] = "open" /\ DeviceState = "active"
          /\ QueueDangles(op) \/ RequestQueueDangles
  /\ Bugcheck("useAfterFree")

\* A cleanup cancels, or a response matches, a request whose IRP was completed
\* before; or a cleanup cancelled the IRP that a failing write is to complete.
DoubleCompletion ==
  /\ \/ \E f \in Files, op \in Ops :
          file[f] = op /\ \E b \in Cancelled(f, op) : Stale(b)
     \/ \E w \in Workers :
          /\ Sends(w) /\ held[w].type \in Ops /\ ~QueueDangles(held[w].type)
          /\ \E b \in Matching(w) : Stale(b)
     \/ \E c \in Clients : cpc[c] = "fail" /\ RequestGone(c)
  /\ Bugcheck("doubleCompletion")

MisreadList ==
  /\ \E f \in Files :
       \/ file[f] = "service" /\ serviceLock = Nil /\ ServiceQueue # <<>>
       \/ file[f] = "request" /\ requestLock = Nil /\ RequestQueue # <<>>
  /\ Bugcheck("misreadList")

-----------------------------------------------------------------------------
ClientStep(c) ==
  \/ Enqueue(c)
  \/ ClientAcquireService(c)
  \/ ClientAcquireRequest(c)
  \/ QueueRequest(c)
  \/ HandToService(c)
  \/ FailWriteNoMdl(c)
  \/ FailWriteNoPte(c)
  \/ CompleteFailedWrite(c)
  \/ Return(c)

WorkerStep(w) ==
  \/ GetRequest(w)
  \/ Respond(w)
  \/ RespondToNobody(w)
  \/ RespondWithBadType(w)
  \/ RespondUnmapped(w)
  \/ WorkerAcquireService(w)
  \/ WorkerAcquireRequest(w)
  \/ TakeRequest(w)
  \/ QueueServiceIrp(w)
  \/ Deliver(w)
  \/ DeliverUnmapped(w)
  \/ DeliverCopyFails(w)

FileStep(f) ==
  \/ StartCleanup(f)
  \/ CancelMisread(f)
  \/ CancelDataQueue(f)

\* Nothing runs in the driver: every thread is outside it or waits for an IRP.
\* (A thread stuck on a lock is not quiescent, and TLC reports the deadlock.)
Quiescent ==
  /\ \/ bugcheck # "no"
     \/ /\ \A c \in Clients : cpc[c] \in {"idle", "wait"}
        /\ \A w \in Workers : wpc[w] \in {"idle", "answer", "pending"}
  /\ UNCHANGED vars

Running ==
  \/ \E c \in Clients, op \in Ops, b \in Blocks : StartReadWrite(c, op, b)
  \/ \E c \in Clients : ClientStep(c)
  \/ \E w \in Workers : WorkerStep(w)
  \/ CreateControl
  \/ CloseControl
  \/ \E f \in Files : FileStep(f)
  \/ UseAfterFree
  \/ DoubleCompletion
  \/ MisreadList

Next == Running \/ Quiescent

Spec == Init /\ [][Next]_vars

\* Every thread inside the driver is scheduled, the service keeps getting and
\* answering requests, and a cleanup that has started goes on.  Applications
\* need not call, and nobody needs to close a handle.
FairSpec ==
  /\ Spec
  /\ \A c \in Clients : WF_vars(ClientStep(c))
  /\ \A w \in Workers : WF_vars(WorkerStep(w))
  /\ \A f \in Files : WF_vars(CancelMisread(f) \/ CancelDataQueue(f))
  /\ WF_vars(CreateControl)

-----------------------------------------------------------------------------
(* Properties.                                                             *)

ClientPcs == {"idle", "enqueue", "acquireService", "holdsService", "holdsBoth",
              "fail", "wait"}
WorkerPcs == {"idle", "acquireService", "holdsService", "holdsBoth", "pending",
              "deliver", "answer"}
IrpStatus == {"none", "pending", "success", "error", "cancelled"}

\* Every variable of the driver stays within its type.
TypeOK ==
  /\ DeviceState \in {"none", "active", "inactive"}
  /\ ServiceQueue \in Seq(Workers)
  /\ RequestQueue \in Seq(Blocks)
  /\ queue \in [Ops -> SUBSET Blocks]
  /\ serviceLock \in Threads \cup {Nil}
  /\ requestLock \in Threads \cup {Nil}
  /\ heap \in [Blocks -> DataRequest \cup {Nil}]
  /\ OsrRequestID \in Ids
  /\ issued \in 0 .. MaxRequests
  /\ cpc \in [Clients -> ClientPcs]
  /\ creq \in [Clients -> Blocks \cup {Nil}]
  /\ dataIrp \in [Clients -> IrpStatus]
  /\ wpc \in [Workers -> WorkerPcs]
  /\ wreq \in [Workers -> Blocks \cup {Nil}]
  /\ held \in [Workers -> [id : Ids, type : Ops \cup {"zero"}]]
  /\ file \in [Files -> Stages]
  /\ leaked \in BOOLEAN
  /\ bugcheck \in {"no", "useAfterFree", "doubleCompletion", "misreadList"}

\* A request and a service IRP never wait for each other: OsrCommReadWrite and
\* ProcessControlRequest each look at the other's queue under its lock before
\* they wait on their own, so one of the two queues is always empty.
NoMissedRendezvous == ServiceQueue = <<>> \/ RequestQueue = <<>>

InsideClient(c) == cpc[c] \in {"holdsService", "holdsBoth"}
InsideWorker(w) == wpc[w] \in {"holdsService", "holdsBoth"}

\* Each lock is owned exactly by the thread that is in its critical section: every
\* break and return of OsrCommReadWrite and ProcessControlRequest releases what
\* it took, and no two threads are inside.
LocksHeldOnlyInside ==
  /\ \A c \in Clients :
       /\ serviceLock = c <=> InsideClient(c)
       /\ requestLock = c <=> cpc[c] = "holdsBoth"
  /\ \A w \in Workers :
       /\ serviceLock = w <=> InsideWorker(w)
       /\ requestLock = w <=> wpc[w] = "holdsBoth"

\* A service IRP that was answered STATUS_PENDING is on ServiceQueue, once, and
\* no other IRP is: the paths of OsrCommReadWrite that take one off the queue
\* complete it or put it back.
ServiceIrpAccounted ==
  /\ \A i, j \in DOMAIN ServiceQueue : ServiceQueue[i] = ServiceQueue[j] => i = j
  /\ \A w \in Workers :
       wpc[w] = "pending" <=> \E i \in DOMAIN ServiceQueue : ServiceQueue[i] = w

\* The worker's buffer holds the request of this block.
Holds(w, b) ==
  /\ wpc[w] = "answer"
  /\ heap[b] # Nil
  /\ held[w] = [id |-> heap[b].id, type |-> heap[b].op]

\* Where a request can be once its client waits for it.
Places(b) ==
  {i \in DOMAIN RequestQueue : RequestQueue[i] = b}
  \cup {w \in Workers : wpc[w] = "deliver" /\ wreq[w] = b}
  \cup {w \in Workers : Holds(w, b)}

\* While resources last and no handle is closed, a client that waits for its IRP
\* has its request in exactly one place: on RequestQueue, on its way to one
\* service thread, or with one service thread.  None is lost or handed out twice.
EveryRequestHasOnePlace ==
  \A c \in Clients : cpc[c] = "wait" /\ dataIrp[c] = "pending" =>
    /\ Cardinality(Places(creq[c])) = 1
    /\ creq[c] \in queue[heap[creq[c]].op]

\* An IRP is completed once: a cleanup that cancels, a thread that answers and a
\* write that fails never complete the same call twice, neither while its client
\* waits nor through an entry that is left on a queue after it has returned.
CompletedOnce ==
  [][/\ bugcheck' # "doubleCompletion"
     /\ \A c \in Clients :
          dataIrp'[c] \in {"success", "error", "cancelled"} /\ dataIrp'[c] # dataIrp[c]
            => dataIrp[c] = "pending"]_vars

\* The driver keeps the promise of ReflectedCall.
Served(w) ==
  LET mine == {c \in Clients : dataIrp[c] = "pending" /\ Holds(w, creq[c])} IN
  IF wpc[w] = "deliver" THEN heap[wreq[w]].client
  ELSE IF mine # {} THEN CHOOSE c \in mine : TRUE ELSE Nil

Promise == INSTANCE ReflectedCall WITH
  call <- [c \in Clients |-> CASE dataIrp[c] = "none" -> "idle"
                                [] dataIrp[c] = "pending" -> "waiting"
                                [] OTHER -> "answered"],
  serving <- [w \in Workers |-> Served(w)]

\* Each call is accepted by one service thread and answered by that thread: the
\* queues, the locks and the identifiers implement ReflectedCall.
PromiseKept == Promise!Spec

\* A client's read or write returns: no thread waits for ever for a request that
\* a free service thread could answer.
EveryCallReturns == \A c \in Clients : cpc[c] = "wait" ~> cpc[c] = "idle"

-----------------------------------------------------------------------------
(* What the comments of comm.cpp and comm.h say and the code does not do.  *)

\* comm.cpp:240: closing the control device cancels all pending requests on the
\* service queue.
CleanupCancelsServiceIrps ==
  file[Control] = "cleaned" /\ bugcheck = "no" =>
    \A w \in Workers : wpc[w] # "pending"

\* comm.cpp:626: what a service thread delivers is the request it removed from
\* RequestQueue, so no request is ever in two places.
DeliversWhatItRemoved ==
  \A b \in Blocks : heap[b] # Nil => Cardinality(Places(b)) <= 1

\* comm.cpp:1141: the failure paths of a write clean up what they were doing; no
\* request of a completed IRP is completed again.
NoDoubleCompletion == bugcheck # "doubleCompletion"
=============================================================================
