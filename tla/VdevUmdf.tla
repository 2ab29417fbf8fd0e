------------------------------ MODULE VdevUmdf ------------------------------
(* The UMDF filter of the IEEE 1394 virtual device                           *)
(* (src/05/1394_kmdf/vdev_hybrid/umdf), above the KMDF driver in the device  *)
(* stack. Its parallel queue is the default one: it checks the buffers of    *)
(* the requests that may run at the same time and sends them down, and       *)
(* forwards all others to its sequential queue, which sends one down at a    *)
(* time and waits for it.                                                    *)
EXTENDS VdevKmdf

ASSUME NoneIsNobody == None \notin Apps

VARIABLES
  filter,   \* how far the filter's device is set up
  seqQueue, \* the sequential queue
  serving   \* the caller whose request the sequential queue is handling

umdfVars == <<filter, seqQueue, serving>>

FilterStages == {"absent", "created", "parallel", "ready"}

UmdfType ==
  /\ filter \in FilterStages
  /\ seqQueue \in Seq(Apps)
  /\ serving \in Apps \cup {None}

UmdfInit == filter = "absent" /\ seqQueue = <<>> /\ serving = None

ParallelOps == AddressOps \cup {"GetAddressData", "SetAddressData", "AsyncRead",
  "AsyncWrite", "AsyncLock", "AsyncStream", "BusReset"} \cup NotificationOps

-----------------------------------------------------------------------------
(* Setting up, after EvtDeviceAdd: device, parallel queue, sequential queue, *)
(* interface; what fails takes the device down.                              *)
SetsUp(from, to) ==
  /\ pnp = "added" /\ filter = from
  /\ \/ filter' = to /\ UNCHANGED pnp
     \/ "start" \in Faults /\ pnp' = "gone" /\ UNCHANGED filter
  /\ UNCHANGED <<request, sent, records, counting, halted, bus, seqQueue, serving>>

OnDeviceAdd == SetsUp("absent", "created")
CreateParallelQueue == SetsUp("created", "parallel")
CreateSequentialQueue == SetsUp("parallel", "ready")
Configure == CreateParallelQueue \/ CreateSequentialQueue

-----------------------------------------------------------------------------
(* The parallel queue: CVDevParallelQueue::OnDeviceIoControl.                *)

AtFilter(a, ops) == at[a] = "filter" /\ call[a].op \in ops /\ ~halted
AtSequential(a, ops) == at[a] = "queued" /\ serving = a /\ call[a].op \in ops /\ ~halted

(* A request whose buffers are wrong is completed here. The others go to the *)
(* lower device, which takes them only while it runs; a failed Send          *)
(* completes the request.                                                    *)
SendsDown(a, bad) ==
  /\ IF call[a].size \notin bad /\ pnp = "running"
       THEN Moves(a, "driver") /\ UNCHANGED <<call, st>>
       ELSE Completes(a, "failed")
  /\ UNCHANGED <<sent, records, counting, device, bus, umdfVars>>

ParallelLock(a) == AtFilter(a, {"AsyncLock"}) /\ SendsDown(a, {"short", "empty"})
ParallelTransfer(a) ==
  /\ AtFilter(a, {"AsyncRead", "AsyncWrite", "AsyncStream"})
  /\ SendsDown(a, {"short", "zero", "empty"})
ParallelReset(a) ==
  /\ AtFilter(a, {"BusReset"} \cup NotificationOps)
  /\ SendsDown(a, {"short", "empty"})
ParallelAddressData(a) ==
  /\ AtFilter(a, {"GetAddressData", "SetAddressData"})
  /\ SendsDown(a, {"short", "zero", "empty"})
ParallelAddressRange(a) == AtFilter(a, AddressOps) /\ SendsDown(a, {"short", "empty"})

ParallelDefault_SendsDown(a) == AtFilter(a, Ops \ ParallelOps) /\ SendsDown(a, {"short"})

(* Every other code is forwarded to the sequential queue. The result of      *)
(* ForwardToIoQueue is not kept: one that fails is never completed.          *)
ParallelDefault(a) ==
  /\ AtFilter(a, Ops \ ParallelOps)
  /\ \/ seqQueue' = Append(seqQueue, a) /\ Moves(a, "queued")
     \/ "forward" \in Faults /\ Moves(a, "lost") /\ UNCHANGED seqQueue
  /\ UNCHANGED <<call, st, sent, records, counting, device, bus, filter, serving>>

(* OnCompletion: the context it compares with control codes is the address   *)
(* of a dead stack variable, so every request ends in a plain Complete.      *)
OnCompletion(a) ==
  /\ at[a] = "completed" /\ serving # a
  /\ Returns(a)
  /\ UNCHANGED umdfVars

-----------------------------------------------------------------------------
(* The sequential queue: CVDevSequentialQueue::OnDeviceIoControl.            *)

(* WdfIoQueueDispatchSequential: the next request is presented when the one  *)
(* before it has been completed.                                             *)
SequentialPresents ==
  /\ serving = None /\ seqQueue # <<>>
  /\ serving' = Head(seqQueue)
  /\ seqQueue' = Tail(seqQueue)
  /\ UNCHANGED <<filter, kmdfVars>>

(* SubmitRequestToLower is synchronous: the handler waits for the driver.    *)
SequentialAllocates(a) ==
  /\ AtSequential(a, {"IsochAllocateBandwidth", "IsochAllocateChannel",
                      "IsochAllocateResources"})
  /\ SendsDown(a, {"short", "empty"})
SequentialFrees(a) ==
  /\ AtSequential(a, {"IsochFreeBandwidth", "IsochFreeChannel", "IsochFreeResources"})
  /\ SendsDown(a, {"short", "empty"})
SequentialStreams(a) ==
  /\ AtSequential(a, {"IsochListen", "IsochTalk", "IsochStop", "IsochSetChannelBandwidth"})
  /\ SendsDown(a, {"short", "empty"})
(* Only the output buffer of these two is looked at.                         *)
SequentialCycleTime(a) ==
  AtSequential(a, {"IsochQueryCurrentCycleTime"}) /\ SendsDown(a, {"short"})
SequentialGeneration(a) ==
  AtSequential(a, {"GetGenerationCount"}) /\ SendsDown(a, {"short"})
SequentialAsksBus(a) ==
  /\ AtSequential(a, {"Get1394AddressFromDeviceObject", "GetMaxSpeedBetweenDevices",
                      "SendPhyConfigurationPacket", "SetDeviceXmitProperties"})
  /\ SendsDown(a, {"short", "empty"})
(* An information level the filter does not know counts as a short buffer.   *)
SequentialGetsHost(a) ==
  AtSequential(a, {"GetLocalHostInformation"}) /\ SendsDown(a, {"short"})
SequentialSetsHost(a) ==
  AtSequential(a, {"SetGapCount"} \cup CromOps) /\ SendsDown(a, {"short", "empty"})
SequentialControl(a) == AtSequential(a, {"Control"}) /\ SendsDown(a, {})
(* What the queue has no interface for, or no case for, it refuses.          *)
SequentialRefuses(a) ==
  /\ AtSequential(a, {"IsochAttachBuffers", "IsochDetachBuffers",
                      "GetConfigurationInformation", "IsochQueryResources",
                      "IsochModifyStreamProperties", "BusResetNotify"})
  /\ SendsDown(a, Sizes)

SequentialCompletes_StillServing(a) ==
  /\ at[a] = "completed" /\ serving = a
  /\ Returns(a)
  /\ UNCHANGED umdfVars

SequentialCompletes(a) ==
  /\ at[a] = "completed" /\ serving = a
  /\ serving' = None
  /\ Returns(a)
  /\ UNCHANGED <<filter, seqQueue>>

(* The framework cancels what waits in the queue of a device that stops.     *)
PurgeSequential ==
  /\ pnp # "running" /\ seqQueue # <<>>
  /\ Completes(Head(seqQueue), "failed")
  /\ seqQueue' = Tail(seqQueue)
  /\ UNCHANGED <<sent, records, counting, device, bus, filter, serving>>

-----------------------------------------------------------------------------
Parallel(a) ==
  \/ ParallelLock(a) \/ ParallelTransfer(a) \/ ParallelReset(a)
  \/ ParallelAddressData(a) \/ ParallelAddressRange(a) \/ ParallelDefault(a)

Sequential(a) ==
  \/ SequentialAllocates(a) \/ SequentialFrees(a) \/ SequentialStreams(a)
  \/ SequentialCycleTime(a) \/ SequentialGeneration(a) \/ SequentialAsksBus(a)
  \/ SequentialGetsHost(a)
  \/ SequentialSetsHost(a) \/ SequentialControl(a) \/ SequentialRefuses(a)

Filters(a) == Parallel(a) \/ Sequential(a) \/ OnCompletion(a) \/ SequentialCompletes(a)

(* The KMDF driver's own steps, as part of the stack.                        *)
Kernel(a) == Serve(a) /\ UNCHANGED umdfVars
KernelStarts ==
  /\ StartDevice /\ UNCHANGED umdfVars
  /\ pnp = "added" => filter = "ready"

(* The filter sits above the driver: it is stopped first, so its handlers    *)
(* have ended when the driver leaves D0.                                     *)
KernelStops ==
  /\ StopDevice /\ UNCHANGED umdfVars
  /\ pnp = "stopping" => \A a \in Apps : at[a] \notin {"filter", "queued", "lost"}
=============================================================================
