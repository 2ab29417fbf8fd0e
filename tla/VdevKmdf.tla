------------------------------ MODULE VdevKmdf ------------------------------
(* The KMDF driver of the IEEE 1394 virtual device                           *)
(* (src/05/1394_kmdf/vdev_hybrid/kmdf). Its default queue is parallel: every *)
(* caller's request is in the driver at once, in the routine its I/O control *)
(* code selects. The driver keeps a record of every address range,           *)
(* configuration-ROM entry and isochronous resource it holds on the bus,     *)
(* each list under a spin lock of its own, a generation count that work      *)
(* items refresh after a bus reset, and a manual queue of requests that wait *)
(* for the next reset.                                                       *)
(*                                                                           *)
(* A caller has one request at a time (DeviceIoControl is synchronous in     *)
(* every client of the repository), so a request is named by its caller. A   *)
(* step of a routine ends where it gives up the processor or a lock: at the  *)
(* submission of an IRB, at the bus's answer, at the request's completion.   *)
(* Name_Slip is Name with a plausible slip in it; nothing uses it.           *)
EXTENDS Bus1394, Sequences

CONSTANTS
  Apps,         \* callers
  None,         \* no handle, no memory block
  Ops,          \* operations the callers ask for (a bound of an instance)
  Faults,       \* what may go wrong: "memory", "bus", "mdl", "record", "send",
                \* "generation", "item", "start", "notify"
  MaxResets,    \* bound on the bus resets of a behaviour
  InlineBus     \* an assumption on the bus, which the driver does not enforce: it
                \* answers an asynchronous IRB before WdfRequestSend returns

ASSUME NoneIsNone == None \notin Handles \cup Buffers
ASSUME ResetsBounded == MaxResets \in Nat

VARIABLES
  at,         \* where the caller's request is
  call,       \* the request: operation and handle
  st,         \* the status it is completed with
  irb,        \* the IRB sent for it: "none", "sent", "granted" or "refused"
  block,      \* the memory block (record, buffer, MDL) its routine holds
  addresses,  \* AsyncAddressData, under AsyncSpinLock
  cromData,   \* CromData, under CromSpinLock
  isochData,  \* IsochResourceData, under IsochResourceSpinLock
  pool,       \* memory blocks allocated from the pool
  generation, \* GenerationCount
  updates,    \* runs of UpdateGenerationCount: 0 is D0Entry, i the ith reset
  resetting,  \* BusResetRoutine: "no", "called" or "answering"
  overtaken,  \* history, read by no action: the last reset came while a run of
              \* UpdateGenerationCount had the count before it in hand
  waiting,    \* BusResetRequestsQueue
  pnp,        \* how far the framework has brought the device up or down
  halted      \* the system stopped on a null pointer

request == <<at, call, st>>
sent == <<irb, block>>
records == <<addresses, cromData, isochData, pool>>
counting == <<generation, updates, resetting, overtaken, waiting>>
counts == <<generation, updates, resetting, overtaken>>
device == <<pnp, halted>>
kmdfVars == <<request, sent, records, counting, device, bus>>

Stages == {"app", "driver", "bus", "sent", "waiting", "completed"}
PnpStages == {"absent", "added", "prepared", "entering", "running", "stopping",
              "off", "released", "cleaning", "gone"}
NoCall == [op |-> "none", h |-> None, size |-> "fits"]

(* The buffers of a call: they fit the operation, are shorter than its       *)
(* structure, ask for zero bytes, or there is no input buffer.               *)
Sizes == {"fits", "short", "zero", "empty"}
NoUpdate == [phase |-> "none", gen |-> 0]
AddressOps == {"AllocateAddressRange", "FreeAddressRange"}
CromOps == {"AddCrom", "RemoveCrom"}
ResourceOps == {"IsochAllocateResources", "IsochFreeResources"}
NotificationOps == {"RegisterNotification", "DeregisterNotification"}
LedgerOps == AddressOps \cup CromOps \cup ResourceOps \cup NotificationOps

KmdfType ==
  /\ at \in [Apps -> Stages \cup {"filter", "queued", "lost"}]
  /\ call \in [Apps -> [op : Ops \cup {"none"}, h : Handles \cup {None}, size : Sizes]]
  /\ st \in [Apps -> {"none", "ok", "failed"}]
  /\ irb \in [Apps -> {"none", "sent", "granted", "refused"}]
  /\ block \in [Apps -> Buffers \cup {None}]
  /\ addresses \subseteq Entry
  /\ cromData \subseteq Entry
  /\ isochData \subseteq Handles
  /\ pool \subseteq Buffers
  /\ generation \in 0..MaxResets
  /\ updates \in [0..MaxResets -> [phase : {"none", "queued", "read", "done", "failed"}, gen : 0..MaxResets]]
  /\ resetting \in {"no", "called", "answering"}
  /\ overtaken \in BOOLEAN
  /\ waiting \in Seq(Apps)
  /\ pnp \in PnpStages
  /\ halted \in BOOLEAN
  /\ bus \in BusType

KmdfInit ==
  /\ at = [a \in Apps |-> "app"]
  /\ call = [a \in Apps |-> NoCall]
  /\ st = [a \in Apps |-> "none"]
  /\ irb = [a \in Apps |-> "none"]
  /\ block = [a \in Apps |-> None]
  /\ addresses = {} /\ cromData = {} /\ isochData = {} /\ pool = {}
  /\ generation = 0
  /\ updates = [i \in 0..MaxResets |-> NoUpdate]
  /\ resetting = "no" /\ overtaken = FALSE
  /\ waiting = <<>>
  /\ pnp = "absent"
  /\ halted = FALSE
  /\ BusInit

-----------------------------------------------------------------------------
(* What the routines share.                                                  *)

Moves(a, stage) == at' = [at EXCEPT ![a] = stage]

(* WdfRequestComplete with the routine's status.                             *)
Completes(a, status) ==
  /\ Moves(a, "completed")
  /\ st' = [st EXCEPT ![a] = status]
  /\ call' = [call EXCEPT ![a] = NoCall]

(* EvtIoDeviceControl selects the routine by the control code.               *)
Dispatched(a, op) ==
  at[a] = "driver" /\ call[a].op = op /\ call[a].size # "empty" /\ ~halted

(* A request is refused before anything of it is kept.                       *)
Fails(a) == Completes(a, "failed") /\ UNCHANGED <<sent, records, counting, device, bus>>

(* kmdf1394_SubmitIrpSynch: the thread waits for the bus.                    *)
SubmitIrpSynch(a) ==
  /\ Moves(a, "bus")
  /\ irb' = [irb EXCEPT ![a] = "sent"]
  /\ UNCHANGED <<call, st>>

(* The memory a routine asks for is there, or it is not.                     *)
OutOfMemory == "memory" \in Faults

(* The bus refuses what it cannot grant; a faulty bus refuses anything.      *)
AtBus(a) == at[a] \in {"bus", "sent"} /\ irb[a] = "sent" /\ ~halted
Answers(a, answer) ==
  /\ irb' = [irb EXCEPT ![a] = answer]
  /\ UNCHANGED <<at, st, block, records, counting, device>>

(* The routine that fills an IRB from the packet, submits it and returns     *)
(* what the bus says: the IRB's memory is its only resource.                 *)
Forwards(a, op) ==
  /\ Dispatched(a, op)
  /\ \/ SubmitIrpSynch(a) /\ UNCHANGED <<block, records, counting, device, bus>>
     \/ OutOfMemory /\ Fails(a)

BusServes(a) ==
  /\ AtBus(a) /\ at[a] = "bus" /\ call[a].op \notin LedgerOps
  /\ irb' = [irb EXCEPT ![a] = "none"]
  /\ \/ Completes(a, "ok")
     \/ "bus" \in Faults /\ Completes(a, "failed")
  /\ UNCHANGED <<block, records, counting, device, bus>>

(* The bus turns down an IRB the driver acts on.                             *)
BusRefuses(a) ==
  /\ AtBus(a) /\ call[a].op \in LedgerOps
  /\ \/ "bus" \in Faults
     \/ call[a].op = "AllocateAddressRange" /\ HandlesOf(bus.addresses) = Handles
     \/ call[a].op = "FreeAddressRange" /\ call[a].h \notin HandlesOf(bus.addresses)
     \/ call[a].op = "AddCrom" /\ HandlesOf(bus.crom) = Handles
     \/ call[a].op = "RemoveCrom" /\ call[a].h \notin HandlesOf(bus.crom)
     \/ call[a].op = "IsochAllocateResources" /\ bus.isoch = Handles
     \/ call[a].op = "IsochFreeResources" /\ call[a].h \notin bus.isoch
  /\ Answers(a, "refused")
  /\ UNCHANGED <<call, bus>>

(* The bus grants it: the handle of something new comes back in the IRB.     *)
BusGrants(a) ==
  /\ AtBus(a)
  /\ Answers(a, "granted")
  /\ \E h \in Handles :
       /\ call' = [call EXCEPT ![a].h = h]
       /\ \/ call[a].op = "AllocateAddressRange" /\ AllocatesAddress(h, block[a])
          \/ call[a].op = "AddCrom" /\ AddsCrom(h, block[a])
          \/ call[a].op = "IsochAllocateResources" /\ AllocatesIsoch(h)
          \/ /\ h = call[a].h
             /\ \/ call[a].op = "FreeAddressRange" /\ FreesAddress(h)
                \/ call[a].op = "RemoveCrom" /\ RemovesCrom(h)
                \/ call[a].op = "IsochFreeResources" /\ FreesIsoch(h)

BusRegisters(a) ==
  /\ AtBus(a) /\ call[a].op \in NotificationOps
  /\ Registers(call[a].op = "RegisterNotification")
  /\ Answers(a, "granted") /\ UNCHANGED call

(* A routine resumes with the bus's answer.                                  *)
Resumes(a, op, answer) ==
  /\ at[a] \in {"bus", "sent"} /\ call[a].op = op /\ irb[a] = answer /\ ~halted

Released(a) ==
  /\ irb' = [irb EXCEPT ![a] = "none"]
  /\ block' = [block EXCEPT ![a] = None]

-----------------------------------------------------------------------------
(* kmdf_vdev_async.c                                                         *)

(* AllocateAddressRange takes the record, its buffer, its range table, its   *)
(* MDL, the IRB and the framework's memory object, undoing all of it when    *)
(* one is missing, and sends the IRB asynchronously. A send that fails       *)
(* undoes nothing.                                                           *)
AllocateAddressRange(a) ==
  /\ Dispatched(a, "AllocateAddressRange")
  /\ \/ /\ OutOfMemory \/ pool = Buffers
        /\ Fails(a)
     \/ \E buf \in Buffers \ pool :
          /\ pool' = pool \cup {buf}
          /\ \/ /\ Moves(a, "sent")
                /\ irb' = [irb EXCEPT ![a] = "sent"]
                /\ block' = [block EXCEPT ![a] = buf]
                /\ UNCHANGED <<call, st>>
             \/ "send" \in Faults /\ Completes(a, "failed") /\ UNCHANGED sent
          /\ UNCHANGED <<addresses, cromData, isochData, counting, device, bus>>

AllocateAddressRangeCompletion_Leak(a) ==
  /\ \/ /\ Resumes(a, "AllocateAddressRange", "granted")
        /\ addresses' = addresses \cup {[h |-> call[a].h, buf |-> block[a]]}
     \/ Resumes(a, "AllocateAddressRange", "refused") /\ UNCHANGED addresses
  /\ Released(a)
  /\ UNCHANGED <<request, cromData, isochData, pool, counting, device, bus>>

(* The completion routine: it records the range at the head of the list and  *)
(* writes the handle into the caller's packet, or frees everything.          *)
AllocateAddressRangeCompletion(a) ==
  /\ \/ /\ Resumes(a, "AllocateAddressRange", "granted")
        /\ addresses' = addresses \cup {[h |-> call[a].h, buf |-> block[a]]}
        /\ UNCHANGED pool
     \/ /\ Resumes(a, "AllocateAddressRange", "refused")
        /\ pool' = pool \ {block[a]}
        /\ UNCHANGED addresses
  /\ Released(a)
  /\ UNCHANGED <<request, cromData, isochData, counting, device, bus>>

FreeAddressRange_StaysListed(a) ==
  /\ Dispatched(a, "FreeAddressRange")
  /\ \/ call[a].h \notin HandlesOf(addresses) /\ Fails(a)
     \/ \E e \in WithHandle(addresses, call[a].h) :
          /\ block' = [block EXCEPT ![a] = e.buf]
          /\ SubmitIrpSynch(a)
          /\ UNCHANGED <<records, counting, device, bus>>

(* FreeAddressRange takes the record off the list before it asks the bus,    *)
(* and puts it back when there is no IRB or the bus refuses.                 *)
FreeAddressRange(a) ==
  /\ Dispatched(a, "FreeAddressRange")
  /\ \/ /\ call[a].h \notin HandlesOf(addresses)
        /\ Fails(a)
     \/ \E e \in WithHandle(addresses, call[a].h) :
          /\ addresses' = addresses \ {e}
          /\ block' = [block EXCEPT ![a] = e.buf]
          /\ Moves(a, "bus")
          /\ \/ irb' = [irb EXCEPT ![a] = "sent"]
             \/ OutOfMemory /\ irb' = [irb EXCEPT ![a] = "refused"]
          /\ UNCHANGED <<call, st, cromData, isochData, pool, counting, device, bus>>

FreeAddressRangeAnswered_Forgets(a) ==
  /\ Resumes(a, "FreeAddressRange", "granted") \/ Resumes(a, "FreeAddressRange", "refused")
  /\ pool' = pool \ {block[a]}
  /\ Completes(a, "ok")
  /\ Released(a)
  /\ UNCHANGED <<addresses, cromData, isochData, counting, device, bus>>

FreeAddressRangeAnswered(a) ==
  /\ \/ /\ Resumes(a, "FreeAddressRange", "granted")
        /\ pool' = pool \ {block[a]}
        /\ Completes(a, "ok")
        /\ UNCHANGED addresses
     \/ /\ Resumes(a, "FreeAddressRange", "refused")
        /\ addresses' = addresses \cup {[h |-> call[a].h, buf |-> block[a]]}
        /\ Completes(a, "failed")
        /\ UNCHANGED pool
  /\ Released(a)
  /\ UNCHANGED <<cromData, isochData, counting, device, bus>>

(* The data of a range is copied under the lock; an unknown handle is an     *)
(* invalid parameter.                                                        *)
FindsAddress(a, op) ==
  /\ Dispatched(a, op)
  /\ Completes(a, IF call[a].h \in HandlesOf(addresses) THEN "ok" ELSE "failed")
  /\ UNCHANGED <<sent, records, counting, device, bus>>

GetAddressData(a) == FindsAddress(a, "GetAddressData")
SetAddressData(a) == FindsAddress(a, "SetAddressData")

(* Read, write, lock and stream send their IRB asynchronously; each undoes   *)
(* its IRB, MDL and memory object when one is missing or the send fails.     *)
Starts(a, op) ==
  /\ Dispatched(a, op)
  /\ \/ /\ Moves(a, "sent")
        /\ irb' = [irb EXCEPT ![a] = "sent"]
        /\ UNCHANGED <<call, st, block, records, counting, device, bus>>
     \/ (OutOfMemory \/ "send" \in Faults) /\ Fails(a)

AsyncRead(a) == Starts(a, "AsyncRead")
AsyncWrite(a) == Starts(a, "AsyncWrite")
AsyncLock(a) == Starts(a, "AsyncLock")
AsyncStream(a) == Starts(a, "AsyncStream")

(* Their completion routines free the IRB and its MDL whatever the bus said, *)
(* and do not touch the request.                                             *)
TransferCompletion(a, op) ==
  /\ irb[a] = "sent" /\ call[a].op = op
  /\ irb' = [irb EXCEPT ![a] = "none"]
  /\ UNCHANGED <<request, block, records, counting, device, bus>>

AsyncReadCompletion(a) == TransferCompletion(a, "AsyncRead")
AsyncWriteCompletion(a) == TransferCompletion(a, "AsyncWrite")
AsyncLockCompletion(a) == TransferCompletion(a, "AsyncLock")
AsyncStreamCompletion(a) == TransferCompletion(a, "AsyncStream")

(* kmdf1394_SubmitIrpAsync returns success once WdfRequestSend took the      *)
(* request, and EvtIoDeviceControl completes it: a bus that has not answered *)
(* by then still holds it. InlineBus is an assumption on the environment: it *)
(* takes the behaviours of such a bus away, and what rests on it says so.    *)
SubmitIrpAsync(a) ==
  /\ at[a] = "sent" /\ ~halted
  /\ InlineBus => irb[a] = "none"
  /\ Completes(a, "ok")
  /\ UNCHANGED <<sent, records, counting, device, bus>>

-----------------------------------------------------------------------------
(* kmdf_vdev_isoch.c                                                         *)

IsochAllocateBandwidth(a) == Forwards(a, "IsochAllocateBandwidth")
IsochAllocateChannel(a) == Forwards(a, "IsochAllocateChannel")
IsochFreeBandwidth(a) == Forwards(a, "IsochFreeBandwidth")
IsochFreeChannel(a) == Forwards(a, "IsochFreeChannel")
IsochListen(a) == Forwards(a, "IsochListen")
IsochQueryCurrentCycleTime(a) == Forwards(a, "IsochQueryCurrentCycleTime")
IsochQueryResources(a) == Forwards(a, "IsochQueryResources")
IsochSetChannelBandwidth(a) == Forwards(a, "IsochSetChannelBandwidth")
IsochModifyStreamProperties(a) == Forwards(a, "IsochModifyStreamProperties")
IsochStop(a) == Forwards(a, "IsochStop")
IsochTalk(a) == Forwards(a, "IsochTalk")

IsochAllocateResources(a) == Forwards(a, "IsochAllocateResources")

(* The record is made once the bus has granted the resources; without it the *)
(* request succeeds all the same.                                            *)
IsochAllocateResourcesAnswered(a) ==
  /\ \/ /\ Resumes(a, "IsochAllocateResources", "granted")
        /\ \/ isochData' = isochData \cup {call[a].h}
           \/ "record" \in Faults /\ UNCHANGED isochData
        /\ Completes(a, "ok")
     \/ /\ Resumes(a, "IsochAllocateResources", "refused")
        /\ Completes(a, "failed") /\ UNCHANGED isochData
  /\ Released(a)
  /\ UNCHANGED <<addresses, cromData, pool, counting, device, bus>>

(* The record goes before the bus is asked and does not come back; a handle  *)
(* without a record is passed on too.                                        *)
IsochFreeResources(a) ==
  /\ Dispatched(a, "IsochFreeResources")
  /\ \/ /\ isochData' = isochData \ {call[a].h}
        /\ SubmitIrpSynch(a)
        /\ UNCHANGED <<block, addresses, cromData, pool, counting, device, bus>>
     \/ OutOfMemory /\ Fails(a)

IsochFreeResourcesAnswered(a) ==
  /\ \/ Resumes(a, "IsochFreeResources", "granted") /\ Completes(a, "ok")
     \/ Resumes(a, "IsochFreeResources", "refused") /\ Completes(a, "failed")
  /\ Released(a)
  /\ UNCHANGED <<records, counting, device, bus>>

(* Attach and detach are not implemented: EvtIoDeviceControl refuses both.   *)
IsochAttachBuffers(a) == Dispatched(a, "IsochAttachBuffers") /\ Fails(a)
IsochDetachBuffers(a) == Dispatched(a, "IsochDetachBuffers") /\ Fails(a)

-----------------------------------------------------------------------------
(* kmdf_vdev_api.c                                                           *)

GetLocalHostInformation(a) == Forwards(a, "GetLocalHostInformation")
Get1394AddressFromDeviceObject(a) == Forwards(a, "Get1394AddressFromDeviceObject")
GetMaxSpeedBetweenDevices(a) == Forwards(a, "GetMaxSpeedBetweenDevices")
SetDeviceXmitProperties(a) == Forwards(a, "SetDeviceXmitProperties")
BusReset(a) == Forwards(a, "BusReset")
GetGenerationCount(a) == Forwards(a, "GetGenerationCount")
SendPhyConfigurationPacket(a) == Forwards(a, "SendPhyConfigurationPacket")
Control(a) == Dispatched(a, "Control") /\ Fails(a)
GetConfigurationInformation(a) == Dispatched(a, "GetConfigurationInformation") /\ Fails(a)

(* SetLocalHostProperties. The gap count is only passed on. ROM data to add  *)
(* is copied into a block first; a missing MDL loses the block's buffer.     *)
SetGapCount(a) == Forwards(a, "SetGapCount")

AddCrom(a) ==
  /\ Dispatched(a, "AddCrom")
  /\ \/ /\ OutOfMemory \/ pool = Buffers
        /\ Fails(a)
     \/ \E buf \in Buffers \ pool :
          /\ pool' = pool \cup {buf}
          /\ \/ SubmitIrpSynch(a) /\ block' = [block EXCEPT ![a] = buf]
             \/ "mdl" \in Faults /\ Completes(a, "failed") /\ UNCHANGED sent
          /\ UNCHANGED <<addresses, cromData, isochData, counting, device, bus>>

AddCromAnswered_Leak(a) ==
  /\ \/ /\ Resumes(a, "AddCrom", "granted")
        /\ cromData' = cromData \cup {[h |-> call[a].h, buf |-> block[a]]}
        /\ Completes(a, "ok")
     \/ Resumes(a, "AddCrom", "refused") /\ Completes(a, "failed") /\ UNCHANGED cromData
  /\ Released(a)
  /\ UNCHANGED <<addresses, isochData, pool, counting, device, bus>>

AddCromAnswered(a) ==
  /\ \/ /\ Resumes(a, "AddCrom", "granted")
        /\ cromData' = cromData \cup {[h |-> call[a].h, buf |-> block[a]]}
        /\ Completes(a, "ok") /\ UNCHANGED pool
     \/ /\ Resumes(a, "AddCrom", "refused")
        /\ pool' = pool \ {block[a]}
        /\ Completes(a, "failed") /\ UNCHANGED cromData
  /\ Released(a)
  /\ UNCHANGED <<addresses, isochData, counting, device, bus>>

(* ROM data to remove leaves the bus first; then the list is searched for    *)
(* the handle, and what was found is freed without a test that it was.       *)
RemoveCrom(a) == Forwards(a, "RemoveCrom")

RemoveCromAnswered_Keeps(a) ==
  /\ \E answer \in {"granted", "refused"} : Resumes(a, "RemoveCrom", answer)
  /\ Completes(a, "ok")
  /\ Released(a)
  /\ UNCHANGED <<records, counting, device, bus>>

RemoveCromAnswered(a) ==
  /\ \/ /\ Resumes(a, "RemoveCrom", "granted")
        /\ \/ \E e \in WithHandle(cromData, call[a].h) :
                /\ cromData' = cromData \ {e}
                /\ pool' = pool \ {e.buf}
                /\ Completes(a, "ok") /\ UNCHANGED halted
           \/ /\ call[a].h \notin HandlesOf(cromData)
              /\ halted' = TRUE
              /\ UNCHANGED <<request, cromData, pool>>
     \/ /\ Resumes(a, "RemoveCrom", "refused")
        /\ Completes(a, "failed") /\ UNCHANGED <<cromData, pool, halted>>
  /\ Released(a)
  /\ UNCHANGED <<addresses, isochData, counting, pnp, bus>>

(* A caller may register the driver's reset routine again, or deregister it. *)
BusResetNotification(a) ==
  \/ Forwards(a, "RegisterNotification")
  \/ Forwards(a, "DeregisterNotification")

BusResetNotificationAnswered(a) ==
  \E op \in NotificationOps, answer \in {"granted", "refused"} :
    /\ Resumes(a, op, answer)
    /\ Completes(a, IF answer = "granted" THEN "ok" ELSE "failed")
    /\ Released(a)
    /\ UNCHANGED <<records, counting, device, bus>>

(* BUS_RESET_NOTIFY: the request waits in the manual queue for a reset, or   *)
(* is completed at once when the queue does not take it.                     *)
BusResetNotify(a) ==
  /\ Dispatched(a, "BusResetNotify")
  /\ \/ /\ Moves(a, "waiting")
        /\ waiting' = Append(waiting, a)
        /\ UNCHANGED <<call, st, sent, records, counts, device, bus>>
     \/ "notify" \in Faults /\ Fails(a)

-----------------------------------------------------------------------------
(* The generation count and bus resets.                                      *)

Updating(i) == updates[i].phase \in {"queued", "read"}

UpdateReads_AtTheReset(i) ==
  /\ updates[i].phase = "queued"
  /\ updates' = [updates EXCEPT ![i] = [phase |-> "read", gen |-> i]]
  /\ UNCHANGED <<request, sent, records, generation, resetting, overtaken, waiting, device, bus>>

(* UpdateGenerationCount asks the bus, then assigns what it was told: two    *)
(* steps, with no lock around them.                                          *)
UpdateReads(i) ==
  /\ updates[i].phase = "queued"
  /\ updates' = [updates EXCEPT ![i] = [phase |-> "read", gen |-> bus.generation]]
  /\ UNCHANGED <<request, sent, records, generation, resetting, overtaken, waiting, device, bus>>

UpdateAssigns(i) ==
  /\ updates[i].phase = "read"
  /\ generation' = updates[i].gen
  /\ updates' = [updates EXCEPT ![i] = [NoUpdate EXCEPT !.phase = "done"]]
  /\ UNCHANGED <<request, sent, records, resetting, overtaken, waiting, device, bus>>

(* No request object, no IRB, or a bus that refuses: the count stays.        *)
UpdateFails(i) ==
  /\ updates[i].phase = "queued"
  /\ (IF i = 0 THEN "start" ELSE "generation") \in Faults
  /\ updates' = [updates EXCEPT ![i] = [NoUpdate EXCEPT !.phase = "failed"]]
  /\ UNCHANGED <<request, sent, records, generation, resetting, overtaken, waiting, device, bus>>

UpdateGenerationCount(i) == UpdateReads(i) \/ UpdateAssigns(i) \/ UpdateFails(i)

BusResetRoutineWorkItem == \E i \in 1..MaxResets : UpdateGenerationCount(i)

(* The bus resets and calls the registered routine.                          *)
BusResets ==
  /\ bus.generation < MaxResets /\ resetting = "no"
  /\ Resets
  /\ resetting' = IF bus.registered THEN "called" ELSE "no"
  /\ overtaken' = (\E i \in 0..MaxResets : updates[i].phase = "read")
  /\ UNCHANGED <<request, sent, records, generation, updates, waiting, device>>

(* It queues a work item of its own for this reset; without one it returns   *)
(* and leaves the waiting requests alone.                                    *)
BusResetRoutineQueuesItem ==
  /\ resetting = "called"
  /\ \/ /\ updates' = [updates EXCEPT ![bus.generation].phase = "queued"]
        /\ resetting' = "answering"
     \/ /\ "item" \in Faults
        /\ resetting' = "no"
        /\ UNCHANGED updates
  /\ UNCHANGED <<request, sent, records, generation, overtaken, waiting, device, bus>>

BusResetRoutineAnswers_One ==
  /\ resetting = "answering"
  /\ resetting' = "no"
  /\ \/ waiting # <<>> /\ Completes(Head(waiting), "ok") /\ waiting' = Tail(waiting)
     \/ waiting = <<>> /\ UNCHANGED <<request, waiting>>
  /\ UNCHANGED <<sent, records, generation, updates, overtaken, device, bus>>

(* Then it completes the waiting requests one by one until there is none.    *)
BusResetRoutineAnswers ==
  /\ resetting = "answering"
  /\ \/ /\ waiting # <<>>
        /\ Completes(Head(waiting), "ok")
        /\ waiting' = Tail(waiting)
        /\ UNCHANGED resetting
     \/ /\ waiting = <<>>
        /\ resetting' = "no"
        /\ UNCHANGED <<request, waiting>>
  /\ UNCHANGED <<sent, records, generation, updates, overtaken, device, bus>>

BusResetRoutine == BusResetRoutineQueuesItem \/ BusResetRoutineAnswers

-----------------------------------------------------------------------------
(* Plug and Play: kmdf_vdev_pnp.c. The order of the callbacks, and that the  *)
(* power-managed default queue holds requests back until the device runs and *)
(* is drained before it stops, are the framework's.                          *)

Reaches(stage) == pnp' = stage /\ UNCHANGED halted

(* EvtDeviceAdd: the device, its interface, its queues, locks and lists, in  *)
(* that order; the first that fails ends it.                                 *)
EvtDeviceAdd ==
  /\ pnp = "absent"
  /\ Reaches("added") \/ ("start" \in Faults /\ Reaches("gone"))
  /\ UNCHANGED <<request, sent, records, counting, bus>>

(* EvtPrepareHardware registers the reset routine, before the count is read. *)
EvtPrepareHardware ==
  /\ pnp = "added"
  /\ \/ Registers(TRUE) /\ Reaches("prepared")
     \/ "start" \in Faults /\ Reaches("gone") /\ UNCHANGED bus
  /\ UNCHANGED <<request, sent, records, counting>>

(* EvtDeviceD0Entry is one run of UpdateGenerationCount, and fails with it.  *)
EvtDeviceD0Entry ==
  /\ pnp = "prepared"
  /\ Reaches("entering")
  /\ updates' = [updates EXCEPT ![0].phase = "queued"]
  /\ UNCHANGED <<request, sent, records, generation, resetting, overtaken, waiting, bus>>

D0EntryRuns ==
  /\ pnp = "entering"
  /\ \/ UpdateReads(0)
     \/ UpdateFails(0)

D0EntryAssigns ==
  /\ pnp = "entering" /\ updates[0].phase = "read"
  /\ generation' = updates[0].gen
  /\ updates' = [updates EXCEPT ![0] = [NoUpdate EXCEPT !.phase = "done"]]
  /\ Reaches("running")
  /\ UNCHANGED <<request, sent, records, resetting, overtaken, waiting, bus>>

D0EntryFails ==
  /\ pnp = "entering" /\ ~Updating(0)
  /\ Reaches("off")
  /\ UNCHANGED <<request, sent, records, counting, bus>>

(* The device is removed: no new request is let in, and those that wait in   *)
(* the manual queue are cancelled.                                           *)
RemoveDevice ==
  /\ pnp = "running"
  /\ Reaches("stopping")
  /\ UNCHANGED <<request, sent, records, counting, bus>>

PurgeQueue ==
  /\ pnp = "stopping" /\ waiting # <<>>
  /\ Completes(Head(waiting), "failed")
  /\ waiting' = Tail(waiting)
  /\ UNCHANGED <<sent, records, counts, device, bus>>

EvtDeviceD0Exit ==
  /\ pnp = "stopping"
  /\ \A a \in Apps : at[a] \notin {"driver", "bus", "sent", "waiting"}
  /\ Reaches("off")
  /\ UNCHANGED <<request, sent, records, counting, bus>>

EvtReleaseHardware_MustDeregister ==
  /\ pnp = "off" /\ resetting = "no" /\ bus.registered
  /\ Reaches("released") /\ Registers(FALSE)
  /\ UNCHANGED <<request, sent, records, counting>>

(* EvtReleaseHardware deregisters the routine; a failure is only logged.     *)
EvtReleaseHardware ==
  /\ pnp = "off" /\ resetting = "no"
  /\ Reaches("released")
  /\ Registers(FALSE) \/ ("start" \in Faults /\ UNCHANGED bus)
  /\ UNCHANGED <<request, sent, records, counting>>

(* EvtDeviceSelfManagedIoCleanup frees the memory of every ROM entry and     *)
(* every address range, and tells the bus of neither.                        *)
CleanupFreesMemory ==
  /\ pnp = "released"
  /\ Reaches("cleaning")
  /\ pool' = pool \ (BuffersOf(cromData) \cup BuffersOf(addresses))
  /\ cromData' = {} /\ addresses' = {}
  /\ UNCHANGED <<request, sent, isochData, counting, bus>>

(* Its last loop runs while the isochronous list is not empty, and takes its *)
(* entry from the ROM list, which is: the list never gets shorter.           *)
CleanupFreesIsoch ==
  /\ pnp = "cleaning"
  /\ isochData = {}
  /\ \A i \in 0..MaxResets : ~Updating(i)
  /\ Reaches("gone")
  /\ UNCHANGED <<request, sent, records, counting, bus>>

-----------------------------------------------------------------------------
(* Callers.                                                                  *)

(* The handle a request carries: whatever the caller has, right or stale.    *)
HandlesFor(op) ==
  IF op \in {"FreeAddressRange", "GetAddressData", "SetAddressData", "RemoveCrom",
             "IsochFreeResources"}
    THEN Handles ELSE {None}

Asks(a, op, size) ==
  \E h \in HandlesFor(op) :
    call' = [call EXCEPT ![a] = [op |-> op, h |-> h, size |-> size]]

(* A program calls DeviceIoControl on the driver's interface with buffers    *)
(* that fit.                                                                 *)
DeviceIoControl(a) ==
  /\ at[a] = "app" /\ irb[a] = "none" /\ pnp = "running"
  /\ \E op \in Ops : Asks(a, op, "fits")
  /\ Moves(a, "driver")
  /\ UNCHANGED <<st, sent, records, counting, device, bus>>

(* A device that does not run refuses the call at once.                      *)
CallRefused(a) == at[a] = "app" /\ pnp # "running" /\ UNCHANGED kmdfVars

Returns(a) ==
  /\ at[a] = "completed"
  /\ Moves(a, "app")
  /\ st' = [st EXCEPT ![a] = "none"]
  /\ UNCHANGED call
  /\ UNCHANGED <<sent, records, counting, device, bus>>

-----------------------------------------------------------------------------
(* A dispatched request, by the file its routine is in.                      *)
AsyncRequest(a) ==
  \/ AllocateAddressRange(a) \/ FreeAddressRange(a)
  \/ GetAddressData(a) \/ SetAddressData(a)
  \/ AsyncRead(a) \/ AsyncWrite(a) \/ AsyncLock(a) \/ AsyncStream(a)

IsochRequest(a) ==
  \/ IsochAllocateBandwidth(a) \/ IsochFreeBandwidth(a)
  \/ IsochAllocateChannel(a) \/ IsochFreeChannel(a)
  \/ IsochAllocateResources(a) \/ IsochFreeResources(a)
  \/ IsochAttachBuffers(a) \/ IsochDetachBuffers(a)
  \/ IsochListen(a) \/ IsochTalk(a) \/ IsochStop(a)
  \/ IsochQueryCurrentCycleTime(a) \/ IsochQueryResources(a)
  \/ IsochSetChannelBandwidth(a) \/ IsochModifyStreamProperties(a)

ApiRequest(a) ==
  \/ GetLocalHostInformation(a) \/ Get1394AddressFromDeviceObject(a)
  \/ GetMaxSpeedBetweenDevices(a) \/ SetDeviceXmitProperties(a)
  \/ SendPhyConfigurationPacket(a) \/ BusReset(a) \/ GetGenerationCount(a)
  \/ Control(a) \/ GetConfigurationInformation(a)
  \/ SetGapCount(a) \/ AddCrom(a) \/ RemoveCrom(a)
  \/ BusResetNotification(a) \/ BusResetNotify(a)

(* EvtIoDeviceControl asks for the input buffer before it looks at the code. *)
NoInput(a) == at[a] = "driver" /\ call[a].size = "empty" /\ ~halted /\ Fails(a)

EvtIoDeviceControl(a) ==
  /\ at[a] = "driver"
  /\ AsyncRequest(a) \/ IsochRequest(a) \/ ApiRequest(a) \/ NoInput(a)

BusAnswers(a) ==
  irb[a] = "sent" /\ (BusServes(a) \/ BusRefuses(a) \/ BusGrants(a) \/ BusRegisters(a))

(* The routine, or its completion routine, goes on with the bus's answer.    *)
GoesOn(a) ==
  /\ irb[a] # "none"
  /\ \/ AllocateAddressRangeCompletion(a) \/ FreeAddressRangeAnswered(a)
     \/ AsyncReadCompletion(a) \/ AsyncWriteCompletion(a)
     \/ AsyncLockCompletion(a) \/ AsyncStreamCompletion(a)
     \/ IsochAllocateResourcesAnswered(a) \/ IsochFreeResourcesAnswered(a)
     \/ AddCromAnswered(a) \/ RemoveCromAnswered(a)
     \/ BusResetNotificationAnswered(a)

Serve(a) == EvtIoDeviceControl(a) \/ BusAnswers(a) \/ GoesOn(a) \/ SubmitIrpAsync(a)

StartDevice == EvtDeviceAdd \/ EvtPrepareHardware \/ EvtDeviceD0Entry \/ D0EntryRuns
               \/ D0EntryAssigns \/ D0EntryFails
StopDevice == PurgeQueue \/ EvtDeviceD0Exit \/ EvtReleaseHardware
              \/ CleanupFreesMemory \/ CleanupFreesIsoch

KmdfNext ==
  \/ \E a \in Apps : Serve(a) \/ DeviceIoControl(a) \/ CallRefused(a) \/ Returns(a)
  \/ BusResetRoutineWorkItem \/ BusResetRoutine \/ BusResets
  \/ StartDevice \/ StopDevice \/ RemoveDevice

(* The threads of the driver, the work items, the bus and the framework go   *)
(* on; a call, a reset and a removal need not come.                          *)
KmdfFairness ==
  /\ \A a \in Apps : WF_kmdfVars(Serve(a) \/ Returns(a))
  /\ WF_kmdfVars(BusResetRoutine)
  /\ WF_kmdfVars(BusResetRoutineWorkItem \/ StartDevice \/ StopDevice)

KmdfSpec == KmdfInit /\ [][KmdfNext]_kmdfVars /\ KmdfFairness

-----------------------------------------------------------------------------
(* Properties.                                                               *)

Up == pnp \notin {"cleaning", "gone"}
InFlight(ops) == {a \in Apps : call[a].op \in ops /\ irb[a] # "none"}

(* While an IRB that belongs to a request is out, the request is still the   *)
(* driver's: the completion routine writes the handle "back in to our        *)
(* original packet" and the bus writes into the packet's buffer.             *)
OriginalPacketHeld ==
  \A a \in Apps : irb[a] # "none" => at[a] \in {"bus", "sent"}

(* Every address range the bus has is on the driver's list, except the one   *)
(* an allocation has just been granted and the one a free has taken off and  *)
(* not yet had answered; and nothing else is on the list.                    *)
AddressListIsTheBusLedger ==
  LET granted == {[h |-> call[a].h, buf |-> block[a]] :
                    a \in {x \in InFlight({"AllocateAddressRange"}) : irb[x] = "granted"}}
      leaving == {[h |-> call[a].h, buf |-> block[a]] :
                    a \in {x \in InFlight({"FreeAddressRange"}) : irb[x] # "granted"}}
  IN Up => /\ bus.addresses = addresses \cup granted \cup leaving
           /\ addresses \cap (granted \cup leaving) = {}

(* Every memory block has exactly one owner: a record on one of the lists,   *)
(* or a routine under way. So none leaks and none is freed twice.            *)
Owners(buf) ==
  [list : {"addresses"}, owner : {e \in addresses : e.buf = buf}]
  \cup [list : {"cromData"}, owner : {e \in cromData : e.buf = buf}]
  \cup [list : {"routine"}, owner : {a \in Apps : block[a] = buf}]

EveryBlockHasOneOwner ==
  \A buf \in Buffers : Cardinality(Owners(buf)) = (IF buf \in pool THEN 1 ELSE 0)

(* Once the last reset's run of UpdateGenerationCount has succeeded, the     *)
(* driver's count is the bus's and stays so until the next reset, however    *)
(* many other runs, late or early, are still to assign theirs. It fails only *)
(* where a run had the count before that reset in hand (overtaken), and the  *)
(* next reset that overtakes none mends it: the count that AsyncRead,        *)
(* AsyncWrite and AsyncLock put into their IRBs is one the bus accepts.      *)
GenerationIsCurrent ==
  ~overtaken /\ updates[bus.generation].phase = "done" => generation = bus.generation

(* When no run of UpdateGenerationCount is under way, no reset is being      *)
(* handled and the last reset's run has not failed, the driver's count is    *)
(* the bus's, whatever came before.                                          *)
CountFollowsEveryReset ==
  pnp = "running" /\ resetting = "no" /\ (\A i \in 0..MaxResets : ~Updating(i))
  /\ updates[bus.generation].phase # "failed" => generation = bus.generation

(* A request that waits for a reset is answered by the next one.             *)
NoRequestSleepsThroughAReset ==
  \A a \in Apps : (at[a] = "waiting" /\ resetting = "called") ~> at[a] # "waiting"

(* Every call comes back, except the one that asks to wait for a reset.      *)
EveryCallReturns ==
  \A a \in Apps : (at[a] # "app" /\ call[a].op # "BusResetNotify") ~> at[a] = "app"

(* A removal comes to its end, as long as no isochronous record is left.     *)
RemovalEnds == (pnp = "stopping") ~> (pnp = "gone" \/ isochData # {})

(* The driver implements the table of address ranges. A range is there when  *)
(* the bus has it, an allocation takes effect when the bus grants it, a free *)
(* when the bus frees, a lookup under the spin lock.                         *)
Allocated(a) ==
  call[a].op = "AllocateAddressRange" /\ at[a] = "sent" /\ irb[a] \in {"granted", "none"}
Freed(a) == call[a].op = "FreeAddressRange" /\ irb[a] = "granted"

Table == INSTANCE AddressTable WITH
  ranges <- HandlesOf(bus.addresses),
  doing <- [a \in Apps |->
              IF call[a].op \in AddressOps \cup {"GetAddressData", "SetAddressData"}
                 /\ ~Allocated(a) /\ ~Freed(a)
                THEN [op |-> call[a].op, h |-> call[a].h] ELSE [op |-> "none", h |-> None]],
  outcome <- [a \in Apps |-> IF Allocated(a) \/ Freed(a) THEN "ok" ELSE st[a]]

ImplementsTable == Table!Spec
=============================================================================
