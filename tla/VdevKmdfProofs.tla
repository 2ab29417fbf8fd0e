--------------------------- MODULE VdevKmdfProofs ---------------------------
(***************************************************************************)
(* Theorems about VdevKmdf, for any number of callers, handles, memory       *)
(* blocks and bus resets.                                                    *)
(*                                                                           *)
(* The argument goes over what a step does to the requests that have an IRB  *)
(* out and to the lists, not over the fifty actions each time: CoreStep      *)
(* names the few things a step can do to them (most do nothing: Quiet), and  *)
(* KmdfShape shows that every step does one of them.  Each invariant then    *)
(* follows by cases of CoreStep.  The lemmas speak of a step of the driver,  *)
(* not of KmdfSpec, so that Wdf1394Proofs uses them for the device stack.    *)
(***************************************************************************)
EXTENDS VdevKmdf, FiniteSetTheorems, TLAPS

-----------------------------------------------------------------------------
(* The invariants.                                                           *)

\* KmdfType in parts, and that the bus counts no further than the bound.
RequestType ==
  /\ at \in [Apps -> Stages \cup {"filter", "queued", "lost"}]
  /\ call \in [Apps -> [op : Ops \cup {"none"}, h : Handles \cup {None}, size : Sizes]]
  /\ st \in [Apps -> {"none", "ok", "failed"}]
SentType ==
  /\ irb \in [Apps -> {"none", "sent", "granted", "refused"}]
  /\ block \in [Apps -> Buffers \cup {None}]
RecordsType ==
  /\ addresses \subseteq Entry
  /\ cromData \subseteq Entry
  /\ isochData \subseteq Handles
  /\ pool \subseteq Buffers
CountingType ==
  /\ generation \in 0..MaxResets
  /\ updates \in [0..MaxResets -> [phase : {"none", "queued", "read", "done", "failed"}, gen : 0..MaxResets]]
  /\ resetting \in {"no", "called", "answering"}
  /\ overtaken \in BOOLEAN
  /\ waiting \in Seq(Apps)
DeviceType ==
  /\ pnp \in PnpStages
  /\ halted \in BOOLEAN
LedgerType == bus \in BusType /\ bus.generation \in 0..MaxResets

KmdfTypeInv ==
  RequestType /\ SentType /\ RecordsType /\ CountingType /\ DeviceType /\ LedgerType

\* The manual queue holds each request that waits once.
WaitingInv ==
  /\ \A i \in 1..Len(waiting) : at[waiting[i]] = "waiting"
  /\ \A i, j \in 1..Len(waiting) : waiting[i] = waiting[j] => i = j

\* The operations whose routine holds a memory block while its IRB is out.
BlockOps == AddressOps \cup {"AddCrom"}

\* A routine holds a block exactly while the IRB of such an operation is out,
\* and knows a handle once the bus has granted one or the list gave it.
HoldingInv ==
  \A a \in Apps :
    /\ block[a] # None <=> irb[a] # "none" /\ call[a].op \in BlockOps
    /\ irb[a] # "none" /\ call[a].op = "FreeAddressRange" => call[a].h \in Handles
    /\ irb[a] = "granted" /\ call[a].op \notin NotificationOps => call[a].h \in Handles

FlightInv == WaitingInv /\ OriginalPacketHeld /\ HoldingInv

\* Every block has at most one owner, and an owned block is allocated.
OwnedOnce ==
  /\ \A a, b \in Apps : block[a] = block[b] /\ block[a] # None => a = b
  /\ \A e, f \in addresses : e.buf = f.buf => e = f
  /\ \A e, f \in cromData : e.buf = f.buf => e = f
  /\ \A e \in addresses, f \in cromData : e.buf # f.buf
  /\ \A e \in addresses \cup cromData, a \in Apps : e.buf # block[a]
  /\ \A e \in addresses \cup cromData : e.buf \in pool
  /\ \A a \in Apps : block[a] # None => block[a] \in pool

\* Every allocated block has an owner.
NoneLeaks ==
  \A buf \in pool : \/ \E a \in Apps : block[a] = buf
                    \/ \E e \in addresses \cup cromData : e.buf = buf

\* The range the routine of a holds, and whether only the bus has it.
Held(a) == [h |-> call[a].h, buf |-> block[a]]
OnBusOnly(a) ==
  \/ call[a].op = "AllocateAddressRange" /\ irb[a] = "granted"
  \/ call[a].op = "FreeAddressRange" /\ irb[a] \in {"sent", "refused"}

\* The driver's list and the ranges in transit against the bus's ledger.
LedgerInv ==
  /\ addresses \subseteq bus.addresses
  /\ \A a \in Apps : OnBusOnly(a) => Held(a) \in bus.addresses
  /\ Up => \A e \in bus.addresses : e \in addresses \/ \E a \in Apps : OnBusOnly(a) /\ e = Held(a)
  /\ \A e, f \in bus.addresses : e.h = f.h => e = f

BusIsRecord ==
  bus = [addresses |-> bus.addresses, crom |-> bus.crom, isoch |-> bus.isoch,
         generation |-> bus.generation, registered |-> bus.registered]

\* What the argument about the count needs of the types of its state.
CountType ==
  /\ updates \in [0..MaxResets -> [phase : {"none", "queued", "read", "done", "failed"},
                                   gen : 0..MaxResets]]
  /\ BusIsRecord /\ bus.generation \in 0..MaxResets

\* A reset that has not come has no run of UpdateGenerationCount yet; unless the
\* last reset overtook one, a run that has read a count has read the bus's, and
\* the run of the last reset has left the driver that count.
CountInv ==
  /\ CountType
  /\ \A i \in 0..MaxResets : bus.generation < i => updates[i].phase = "none"
  /\ ~overtaken =>
       \A i \in 0..MaxResets : updates[i].phase = "read" => updates[i].gen = bus.generation
  /\ GenerationIsCurrent

-----------------------------------------------------------------------------
(* What a step does to the requests with an IRB out and to the lists.        *)

\* The bus's ledger stays as it is; its count and its registration may not.
LedgerKept ==
  bus'.addresses = bus.addresses /\ bus'.crom = bus.crom /\ bus'.isoch = bus.isoch

\* No list, no IRB and no request that has an IRB out changes.
Quiet ==
  /\ UNCHANGED <<irb, block, addresses, cromData, isochData, pool, halted>>
  /\ LedgerKept
  /\ \A x \in Apps : irb[x] # "none" => at'[x] = at[x] /\ call'[x] = call[x]
  /\ Up' => Up

\* The routine of a sends its IRB, or finds that it cannot make one.
Launches(a, answers) ==
  /\ at[a] = "driver" /\ irb[a] = "none"
  /\ \E stage \in {"bus", "sent"} : Moves(a, stage)
  /\ \E answer \in answers : irb' = [irb EXCEPT ![a] = answer]
  /\ UNCHANGED <<call, halted, pnp, bus>>

\* An operation with no list and no block.
Forwarded(a) ==
  /\ call[a].op \notin BlockOps \cup {"IsochFreeResources"}
  /\ Launches(a, {"sent"})
  /\ UNCHANGED <<block, addresses, cromData, isochData, pool>>

Takes(a) ==
  /\ call[a].op \in {"AllocateAddressRange", "AddCrom"}
  /\ Launches(a, {"sent"})
  /\ \E buf \in Buffers \ pool :
       pool' = pool \cup {buf} /\ block' = [block EXCEPT ![a] = buf]
  /\ UNCHANGED <<addresses, cromData, isochData>>

\* A block is taken and forgotten, as the send or the MDL fails.
Spills(a) ==
  /\ at[a] = "driver" /\ irb[a] = "none"
  /\ "send" \in Faults \/ "mdl" \in Faults
  /\ \E buf \in Buffers \ pool : pool' = pool \cup {buf}
  /\ \A x \in Apps : x # a => at'[x] = at[x] /\ call'[x] = call[x]
  /\ UNCHANGED <<irb, block, addresses, cromData, isochData, halted, pnp, bus>>

Delists(a) ==
  /\ call[a].op = "FreeAddressRange"
  /\ Launches(a, {"sent", "refused"})
  /\ \E e \in WithHandle(addresses, call[a].h) :
       addresses' = addresses \ {e} /\ block' = [block EXCEPT ![a] = e.buf]
  /\ UNCHANGED <<cromData, isochData, pool>>

DelistsIsoch(a) ==
  /\ call[a].op = "IsochFreeResources"
  /\ Launches(a, {"sent"})
  /\ isochData' = isochData \ {call[a].h}
  /\ UNCHANGED <<block, addresses, cromData, pool>>

\* The bus answers without a change of its ledger.
Answered(a) ==
  /\ irb[a] = "sent"
  /\ \/ call[a].op \in LedgerOps /\ irb' = [irb EXCEPT ![a] = "refused"]
     \/ call[a].op \in NotificationOps /\ irb' = [irb EXCEPT ![a] = "granted"]
  /\ LedgerKept
  /\ UNCHANGED <<at, call, block, addresses, cromData, isochData, pool, halted, pnp>>

\* The IRB of an operation with no list and no block is done with.
Settled(a) ==
  /\ irb[a] # "none" /\ call[a].op \notin AddressOps \cup CromOps \cup ResourceOps
  /\ irb' = [irb EXCEPT ![a] = "none"]
  /\ block' \in {block, [block EXCEPT ![a] = None]}
  /\ \A x \in Apps : x # a => at'[x] = at[x] /\ call'[x] = call[x]
  /\ UNCHANGED <<addresses, cromData, isochData, pool, halted, pnp, bus>>

Ends(a) ==
  \/ AllocateAddressRangeCompletion(a) \/ FreeAddressRangeAnswered(a)
  \/ AddCromAnswered(a) \/ RemoveCromAnswered(a)
  \/ IsochAllocateResourcesAnswered(a) \/ IsochFreeResourcesAnswered(a)

RequestStep(a) ==
  \/ Forwarded(a) \/ Takes(a) \/ Spills(a) \/ Delists(a) \/ DelistsIsoch(a)
  \/ Answered(a) \/ BusGrants(a) \/ Settled(a) \/ Ends(a)

CoreStep == Quiet \/ (\E a \in Apps : RequestStep(a)) \/ CleanupFreesMemory

LEMMA StepOf ==
  ASSUME NEW a \in Apps, RequestStep(a) PROVE CoreStep
BY DEF CoreStep

\* A request whose IRB is not out may be completed or moved.
LEMMA MovedQuiet ==
  ASSUME KmdfType, NEW a \in Apps, irb[a] = "none",
         \A x \in Apps : x # a => at'[x] = at[x] /\ call'[x] = call[x],
         UNCHANGED <<irb, block, addresses, cromData, isochData, pool, device, bus>>
  PROVE  CoreStep
BY DEF CoreStep, Quiet, LedgerKept, Up, device

LEMMA CompletesOne ==
  ASSUME KmdfType, NEW a \in Apps, NEW status, Completes(a, status)
  PROVE  \A x \in Apps : x # a => at'[x] = at[x] /\ call'[x] = call[x]
BY DEF KmdfType, Completes, Moves

LEMMA CompletesQuiet ==
  ASSUME KmdfType, NEW a \in Apps, irb[a] = "none", NEW status, Completes(a, status),
         UNCHANGED <<sent, records, device, bus>>
  PROVE  CoreStep
BY CompletesOne, MovedQuiet DEF sent, records, device

LEMMA FailsQuiet ==
  ASSUME KmdfType, NEW a \in Apps, irb[a] = "none", Fails(a)
  PROVE  CoreStep
BY CompletesQuiet DEF Fails

LEMMA DriverHasNoIrb ==
  ASSUME OriginalPacketHeld, NEW a \in Apps, at[a] \notin {"bus", "sent"}
  PROVE  irb[a] = "none"
BY DEF OriginalPacketHeld

LEMMA ForwardsShape ==
  ASSUME KmdfType, OriginalPacketHeld, NEW a \in Apps,
         NEW op, op \notin BlockOps \cup {"IsochFreeResources"},
         Forwards(a, op) \/ Starts(a, op)
  PROVE  CoreStep
<1>1. irb[a] = "none"
      BY DriverHasNoIrb DEF Forwards, Starts, Dispatched
<1>2. CASE Fails(a)
      BY <1>1, <1>2, FailsQuiet
<1>3. CASE Forwards(a, op) /\ ~Fails(a)
      BY <1>1, <1>3, StepOf
      DEF Forwards, Dispatched, SubmitIrpSynch, RequestStep, Forwarded, Launches,
          records, device
<1>4. CASE Starts(a, op) /\ ~Fails(a)
      BY <1>1, <1>4, StepOf
      DEF Starts, Dispatched, RequestStep, Forwarded, Launches, records, device
<1> QED BY <1>2, <1>3, <1>4

\* The routines of kmdf_vdev_async.c.
LEMMA AsyncShape ==
  ASSUME KmdfType, OriginalPacketHeld, NEW a \in Apps, AsyncRequest(a)
  PROVE  CoreStep
<1>1. CASE AllocateAddressRange(a)
  <2>1. irb[a] = "none" /\ at[a] = "driver" /\ call[a].op = "AllocateAddressRange"
        BY <1>1, DriverHasNoIrb DEF AllocateAddressRange, Dispatched
  <2>2. CASE Fails(a)
        BY <2>1, <2>2, FailsQuiet
  <2>3. ASSUME NEW buf \in Buffers \ pool, pool' = pool \cup {buf},
               Moves(a, "sent"), irb' = [irb EXCEPT ![a] = "sent"],
               block' = [block EXCEPT ![a] = buf], UNCHANGED <<call, st>>,
               UNCHANGED <<addresses, cromData, isochData, counting, device, bus>>
        PROVE  CoreStep
        BY <2>1, <2>3, StepOf DEF RequestStep, Takes, Launches, device
  <2>4. ASSUME NEW buf \in Buffers \ pool, pool' = pool \cup {buf},
               "send" \in Faults, Completes(a, "failed"), UNCHANGED sent,
               UNCHANGED <<addresses, cromData, isochData, counting, device, bus>>
        PROVE  CoreStep
        BY <2>1, <2>4, StepOf, CompletesOne DEF RequestStep, Spills, sent, device
  <2> QED BY <1>1, <2>2, <2>3, <2>4 DEF AllocateAddressRange
<1>2. CASE FreeAddressRange(a)
  <2>1. irb[a] = "none" /\ at[a] = "driver" /\ call[a].op = "FreeAddressRange"
        BY <1>2, DriverHasNoIrb DEF FreeAddressRange, Dispatched
  <2>2. CASE Fails(a)
        BY <2>1, <2>2, FailsQuiet
  <2>3. CASE ~Fails(a)
        BY <1>2, <2>1, <2>3, StepOf
        DEF FreeAddressRange, RequestStep, Delists, Launches, device
  <2> QED BY <2>2, <2>3
<1>3. CASE GetAddressData(a) \/ SetAddressData(a)
      BY <1>3, DriverHasNoIrb, CompletesQuiet
      DEF GetAddressData, SetAddressData, FindsAddress, Dispatched
<1>4. CASE AsyncRead(a) \/ AsyncWrite(a) \/ AsyncLock(a) \/ AsyncStream(a)
      BY <1>4, ForwardsShape
      DEF AsyncRead, AsyncWrite, AsyncLock, AsyncStream, BlockOps, AddressOps
<1> QED BY <1>1, <1>2, <1>3, <1>4 DEF AsyncRequest

\* The routines of kmdf_vdev_isoch.c and of kmdf_vdev_api.c.
LEMMA IsochShape ==
  ASSUME KmdfType, OriginalPacketHeld, NEW a \in Apps, IsochRequest(a)
  PROVE  CoreStep
<1>1. CASE IsochFreeResources(a)
  <2>1. irb[a] = "none" /\ at[a] = "driver" /\ call[a].op = "IsochFreeResources"
        BY <1>1, DriverHasNoIrb DEF IsochFreeResources, Dispatched
  <2>2. CASE Fails(a)
        BY <2>1, <2>2, FailsQuiet
  <2>3. CASE ~Fails(a)
        BY <1>1, <2>1, <2>3, StepOf
        DEF IsochFreeResources, SubmitIrpSynch, RequestStep, DelistsIsoch, Launches, device
  <2> QED BY <2>2, <2>3
<1>2. CASE IsochAttachBuffers(a) \/ IsochDetachBuffers(a)
      BY <1>2, DriverHasNoIrb, FailsQuiet DEF IsochAttachBuffers, IsochDetachBuffers, Dispatched
<1>3. CASE ~IsochFreeResources(a) /\ ~(IsochAttachBuffers(a) \/ IsochDetachBuffers(a))
      BY <1>3, ForwardsShape
      DEF IsochRequest, BlockOps, AddressOps, IsochAllocateBandwidth, IsochFreeBandwidth,
          IsochAllocateChannel, IsochFreeChannel, IsochAllocateResources, IsochListen,
          IsochTalk, IsochStop, IsochQueryCurrentCycleTime, IsochQueryResources,
          IsochSetChannelBandwidth, IsochModifyStreamProperties
<1> QED BY <1>1, <1>2, <1>3

LEMMA ApiShape ==
  ASSUME KmdfType, OriginalPacketHeld, NEW a \in Apps, ApiRequest(a)
  PROVE  CoreStep
<1>1. CASE AddCrom(a)
  <2>1. irb[a] = "none" /\ at[a] = "driver" /\ call[a].op = "AddCrom"
        BY <1>1, DriverHasNoIrb DEF AddCrom, Dispatched
  <2>2. CASE Fails(a)
        BY <2>1, <2>2, FailsQuiet
  <2>3. ASSUME NEW buf \in Buffers \ pool, pool' = pool \cup {buf},
               SubmitIrpSynch(a), block' = [block EXCEPT ![a] = buf],
               UNCHANGED <<addresses, cromData, isochData, counting, device, bus>>
        PROVE  CoreStep
        BY <2>1, <2>3, StepOf DEF SubmitIrpSynch, RequestStep, Takes, Launches, device
  <2>4. ASSUME NEW buf \in Buffers \ pool, pool' = pool \cup {buf},
               "mdl" \in Faults, Completes(a, "failed"), UNCHANGED sent,
               UNCHANGED <<addresses, cromData, isochData, counting, device, bus>>
        PROVE  CoreStep
        BY <2>1, <2>4, StepOf, CompletesOne DEF RequestStep, Spills, sent, device
  <2> QED BY <1>1, <2>2, <2>3, <2>4 DEF AddCrom
<1>2. CASE Control(a) \/ GetConfigurationInformation(a)
      BY <1>2, DriverHasNoIrb, FailsQuiet DEF Control, GetConfigurationInformation, Dispatched
<1>3. CASE BusResetNotify(a)
  <2>1. CASE Fails(a)
        BY <1>3, <2>1, DriverHasNoIrb, FailsQuiet DEF BusResetNotify, Dispatched
  <2>2. CASE ~Fails(a)
    <3>1. irb[a] = "none" /\ \A x \in Apps : x # a => at'[x] = at[x] /\ call'[x] = call[x]
          BY <1>3, <2>2, DriverHasNoIrb DEF BusResetNotify, Dispatched, Moves, KmdfType
    <3> QED BY <1>3, <2>2, <3>1, MovedQuiet DEF BusResetNotify, sent, records
  <2> QED BY <2>1, <2>2
<1>4. ASSUME ApiRequest(a), ~AddCrom(a), ~Control(a), ~GetConfigurationInformation(a),
             ~BusResetNotify(a)
      PROVE  CoreStep
      BY <1>4, ForwardsShape
      DEF ApiRequest, BlockOps, AddressOps, GetLocalHostInformation,
          Get1394AddressFromDeviceObject, GetMaxSpeedBetweenDevices,
          SetDeviceXmitProperties, SendPhyConfigurationPacket, BusReset,
          GetGenerationCount, SetGapCount, RemoveCrom, BusResetNotification
<1> QED BY <1>1, <1>2, <1>3, <1>4

\* What the bus does with an IRB, and what the routine does next.
LEMMA BusShape ==
  ASSUME KmdfType, NEW a \in Apps, BusAnswers(a)
  PROVE  CoreStep
<1>1. CASE BusServes(a)
      BY <1>1, StepOf, CompletesOne
      DEF BusServes, AtBus, RequestStep, Settled, LedgerOps, records, device
<1>2. CASE BusRefuses(a)
      BY <1>2, StepOf
      DEF BusRefuses, AtBus, Answers, RequestStep, Answered, LedgerKept, records, device
<1>3. CASE BusGrants(a)
      BY <1>3, StepOf DEF RequestStep
<1>4. CASE BusRegisters(a)
  <2>1. LedgerKept
        BY <1>4 DEF BusRegisters, Registers, LedgerKept, KmdfType, BusType
  <2> QED BY <1>4, <2>1, StepOf
          DEF BusRegisters, AtBus, Answers, RequestStep, Answered, records, device
<1> QED BY <1>1, <1>2, <1>3, <1>4 DEF BusAnswers

LEMMA GoesOnShape ==
  ASSUME KmdfType, NEW a \in Apps, GoesOn(a)
  PROVE  CoreStep
<1>1. CASE Ends(a)
      BY <1>1, StepOf DEF RequestStep
<1>2. ASSUME NEW op \in {"AsyncRead", "AsyncWrite", "AsyncLock", "AsyncStream"},
             TransferCompletion(a, op)
      PROVE  CoreStep
      BY <1>2, StepOf
      DEF TransferCompletion, RequestStep, Settled, AddressOps, CromOps, ResourceOps,
          request, records, device
<1>3. CASE BusResetNotificationAnswered(a)
      BY <1>3, StepOf, CompletesOne
      DEF BusResetNotificationAnswered, Resumes, Released, RequestStep, Settled,
          NotificationOps, AddressOps, CromOps, ResourceOps, records, device
<1> QED BY <1>1, <1>2, <1>3
        DEF GoesOn, Ends, AsyncReadCompletion, AsyncWriteCompletion, AsyncLockCompletion,
            AsyncStreamCompletion

\* Any step the driver and the bus take for a request.  A bus that answers
\* inline has answered when SubmitIrpAsync returns.
LEMMA ServeShape ==
  ASSUME KmdfType, OriginalPacketHeld, InlineBus, NEW a \in Apps, Serve(a)
  PROVE  CoreStep
<1>1. CASE NoInput(a)
      BY <1>1, DriverHasNoIrb, FailsQuiet DEF NoInput
<1>2. CASE SubmitIrpAsync(a)
      BY <1>2, CompletesQuiet DEF SubmitIrpAsync
<1> QED BY <1>1, <1>2, AsyncShape, IsochShape, ApiShape, BusShape, GoesOnShape
        DEF Serve, EvtIoDeviceControl

\* Resets, work items, and the framework.
LEMMA HeadWaits ==
  ASSUME KmdfType, WaitingInv, OriginalPacketHeld, waiting # <<>>
  PROVE  Head(waiting) \in Apps /\ at[Head(waiting)] = "waiting" /\ irb[Head(waiting)] = "none"
<1>1. Len(waiting) \in Nat \ {0} /\ Head(waiting) = waiting[1] /\ waiting[1] \in Apps
      BY DEF KmdfType
<1>2. at[waiting[1]] = "waiting"
      BY <1>1 DEF WaitingInv
<1> QED BY <1>1, <1>2, DriverHasNoIrb

LEMMA StillQuiet ==
  ASSUME UNCHANGED <<request, sent, records, halted>>, LedgerKept, Up' => Up
  PROVE  CoreStep
BY DEF CoreStep, Quiet, request, sent, records

LEMMA UpdateShape ==
  ASSUME NEW i, UpdateGenerationCount(i)
  PROVE  CoreStep
BY StillQuiet
DEF UpdateGenerationCount, UpdateReads, UpdateAssigns, UpdateFails, device, LedgerKept, Up

LEMMA ResetShape ==
  ASSUME KmdfType, WaitingInv, OriginalPacketHeld, BusResetRoutine \/ BusResets
  PROVE  CoreStep
<1>1. CASE BusResets
      BY <1>1, StillQuiet DEF BusResets, Resets, LedgerKept, KmdfType, BusType, device, Up
<1>2. CASE BusResetRoutineQueuesItem
      BY <1>2, StillQuiet DEF BusResetRoutineQueuesItem, LedgerKept, device, Up
<1>3. CASE BusResetRoutineAnswers /\ waiting = <<>>
      BY <1>3, StillQuiet DEF BusResetRoutineAnswers, LedgerKept, device, Up
<1>4. CASE BusResetRoutineAnswers /\ waiting # <<>>
      BY <1>4, HeadWaits, CompletesQuiet DEF BusResetRoutineAnswers
<1> QED BY <1>1, <1>2, <1>3, <1>4 DEF BusResetRoutine

LEMMA StartShape ==
  ASSUME KmdfType, StartDevice
  PROVE  CoreStep
<1>1. LedgerKept
      BY DEF StartDevice, EvtDeviceAdd, EvtPrepareHardware, EvtDeviceD0Entry, D0EntryRuns,
             D0EntryAssigns, D0EntryFails, UpdateReads, UpdateFails, Registers, LedgerKept,
             KmdfType, BusType
<1>2. UNCHANGED <<request, sent, records, halted>> /\ (Up' => Up)
      BY DEF StartDevice, EvtDeviceAdd, EvtPrepareHardware, EvtDeviceD0Entry, D0EntryRuns,
             D0EntryAssigns, D0EntryFails, UpdateReads, UpdateFails, Reaches, Up, device
<1> QED BY <1>1, <1>2, StillQuiet

LEMMA StopShape ==
  ASSUME KmdfType, WaitingInv, OriginalPacketHeld, StopDevice \/ RemoveDevice
  PROVE  CoreStep
<1>1. CASE PurgeQueue
      BY <1>1, HeadWaits, CompletesQuiet DEF PurgeQueue
<1>2. CASE CleanupFreesMemory
      BY <1>2 DEF CoreStep
<1>3. CASE EvtReleaseHardware
  <2>1. LedgerKept
        BY <1>3 DEF EvtReleaseHardware, Registers, LedgerKept, KmdfType, BusType
  <2> QED BY <1>3, <2>1, StillQuiet DEF EvtReleaseHardware, Reaches, Up
<1>4. CASE EvtDeviceD0Exit \/ CleanupFreesIsoch \/ RemoveDevice
      BY <1>4, StillQuiet
      DEF EvtDeviceD0Exit, CleanupFreesIsoch, RemoveDevice, Reaches, LedgerKept, Up
<1> QED BY <1>1, <1>2, <1>3, <1>4 DEF StopDevice

LEMMA CallerShape ==
  ASSUME KmdfType, OriginalPacketHeld, NEW a \in Apps,
         DeviceIoControl(a) \/ CallRefused(a) \/ Returns(a)
  PROVE  CoreStep
<1>1. CASE CallRefused(a)
      BY <1>1, StillQuiet
      DEF CallRefused, kmdfVars, request, sent, records, device, LedgerKept, Up
<1>2. CASE DeviceIoControl(a) \/ Returns(a)
  <2>1. irb[a] = "none"
        BY <1>2, DriverHasNoIrb DEF DeviceIoControl, Returns
  <2>2. \A x \in Apps : x # a => at'[x] = at[x] /\ call'[x] = call[x]
        BY <1>2 DEF DeviceIoControl, Asks, Returns, Moves, KmdfType
  <2> QED BY <1>2, <2>1, <2>2, MovedQuiet DEF DeviceIoControl, Returns, sent, records
<1> QED BY <1>1, <1>2

LEMMA KmdfShape ==
  ASSUME KmdfType, WaitingInv, OriginalPacketHeld, InlineBus, [KmdfNext]_kmdfVars
  PROVE  CoreStep
<1>1. CASE UNCHANGED kmdfVars
      BY <1>1, StillQuiet DEF kmdfVars, device, LedgerKept, Up
<1>2. ASSUME NEW i, UpdateGenerationCount(i)
      PROVE  CoreStep
      BY <1>2, UpdateShape
<1> QED BY <1>1, <1>2, ServeShape, CallerShape, ResetShape, StartShape, StopShape
        DEF KmdfNext, BusResetRoutineWorkItem

-----------------------------------------------------------------------------
(* Types.                                                                    *)

LEMMA TypeInParts ==
  KmdfTypeInv <=> KmdfType /\ bus.generation \in 0..MaxResets
BY DEF KmdfTypeInv, KmdfType, RequestType, SentType, RecordsType, CountingType, DeviceType,
       LedgerType

LEMMA MovesType ==
  ASSUME RequestType, NEW a \in Apps, NEW stage \in Stages \cup {"filter", "queued", "lost"},
         Moves(a, stage), UNCHANGED <<call, st>>
  PROVE  RequestType'
BY DEF RequestType, Moves

LEMMA CompletesType ==
  ASSUME RequestType, NEW a \in Apps, NEW status \in {"ok", "failed"}, Completes(a, status)
  PROVE  RequestType'
BY DEF RequestType, Completes, Moves, NoCall, Sizes, Stages

LEMMA ForwardsType ==
  ASSUME KmdfTypeInv, NEW a \in Apps, NEW op, Forwards(a, op) \/ Starts(a, op)
  PROVE  KmdfTypeInv'
<1>1. RequestType'
  <2>1. CASE Fails(a)
        BY <2>1, CompletesType DEF KmdfTypeInv, Fails
  <2>2. CASE ~Fails(a)
        BY <2>2, MovesType DEF KmdfTypeInv, Forwards, Starts, SubmitIrpSynch, Stages
  <2> QED BY <2>1, <2>2
<1>2. SentType' /\ UNCHANGED <<records, counting, device, bus>>
      BY DEF KmdfTypeInv, Forwards, Starts, SubmitIrpSynch, Fails, SentType, sent
<1> QED BY <1>1, <1>2
        DEF KmdfTypeInv, RecordsType, CountingType, DeviceType, LedgerType, records, counting, device

LEMMA FailsType ==
  ASSUME KmdfTypeInv, NEW a \in Apps, Fails(a)
  PROVE  KmdfTypeInv'
BY CompletesType
DEF KmdfTypeInv, Fails, SentType, RecordsType, CountingType, DeviceType, LedgerType, sent, records,
    counting, device

LEMMA AsyncType ==
  ASSUME KmdfTypeInv, NEW a \in Apps, AsyncRequest(a)
  PROVE  KmdfTypeInv'
<1>1. CASE AllocateAddressRange(a) /\ ~Fails(a)
  <2>1. RequestType'
        BY <1>1, MovesType, CompletesType DEF KmdfTypeInv, AllocateAddressRange, Stages
  <2>2. SentType' /\ RecordsType' /\ UNCHANGED <<counting, device, bus>>
        BY <1>1 DEF KmdfTypeInv, AllocateAddressRange, SentType, RecordsType, sent
  <2> QED BY <2>1, <2>2
          DEF KmdfTypeInv, CountingType, DeviceType, LedgerType, counting, device
<1>2. CASE FreeAddressRange(a) /\ ~Fails(a)
  <2>1. RequestType'
        BY <1>2, MovesType DEF KmdfTypeInv, FreeAddressRange, Stages
  <2>2. SentType' /\ RecordsType' /\ UNCHANGED <<counting, device, bus>>
        BY <1>2 DEF KmdfTypeInv, FreeAddressRange, SentType, RecordsType, WithHandle, Entry
  <2> QED BY <2>1, <2>2
          DEF KmdfTypeInv, CountingType, DeviceType, LedgerType, counting, device
<1>3. CASE GetAddressData(a) \/ SetAddressData(a)
  <2>1. RequestType'
        BY <1>3, CompletesType DEF KmdfTypeInv, GetAddressData, SetAddressData, FindsAddress
  <2> QED BY <1>3, <2>1
          DEF KmdfTypeInv, GetAddressData, SetAddressData, FindsAddress, SentType, RecordsType,
              CountingType, DeviceType, LedgerType, sent, records, counting, device
<1> QED BY <1>1, <1>2, <1>3, FailsType, ForwardsType
        DEF AsyncRequest, AsyncRead, AsyncWrite, AsyncLock, AsyncStream

LEMMA IsochType ==
  ASSUME KmdfTypeInv, NEW a \in Apps, IsochRequest(a)
  PROVE  KmdfTypeInv'
<1>1. CASE IsochFreeResources(a) /\ ~Fails(a)
  <2>1. RequestType'
        BY <1>1, MovesType DEF KmdfTypeInv, IsochFreeResources, SubmitIrpSynch, Stages
  <2>2. SentType' /\ RecordsType' /\ UNCHANGED <<counting, device, bus>>
        BY <1>1 DEF KmdfTypeInv, IsochFreeResources, SubmitIrpSynch, SentType, RecordsType
  <2> QED BY <2>1, <2>2
          DEF KmdfTypeInv, CountingType, DeviceType, LedgerType, counting, device
<1>2. CASE Fails(a)
      BY <1>2, FailsType
<1>3. CASE ~IsochFreeResources(a) /\ ~Fails(a)
      BY <1>3, ForwardsType
      DEF IsochRequest, IsochAllocateBandwidth, IsochFreeBandwidth, IsochAllocateChannel,
          IsochFreeChannel, IsochAllocateResources, IsochListen, IsochTalk, IsochStop,
          IsochQueryCurrentCycleTime, IsochQueryResources, IsochSetChannelBandwidth,
          IsochModifyStreamProperties, IsochAttachBuffers, IsochDetachBuffers
<1> QED BY <1>1, <1>2, <1>3

LEMMA ApiType ==
  ASSUME KmdfTypeInv, NEW a \in Apps, ApiRequest(a)
  PROVE  KmdfTypeInv'
<1>1. CASE AddCrom(a) /\ ~Fails(a)
  <2>1. RequestType'
        BY <1>1, MovesType, CompletesType DEF KmdfTypeInv, AddCrom, SubmitIrpSynch, Stages
  <2>2. SentType' /\ RecordsType' /\ UNCHANGED <<counting, device, bus>>
        BY <1>1 DEF KmdfTypeInv, AddCrom, SubmitIrpSynch, SentType, RecordsType, sent
  <2> QED BY <2>1, <2>2
          DEF KmdfTypeInv, CountingType, DeviceType, LedgerType, counting, device
<1>2. CASE BusResetNotify(a) /\ ~Fails(a)
  <2>1. RequestType'
        BY <1>2, MovesType DEF KmdfTypeInv, BusResetNotify, Stages
  <2>2. CountingType'
        BY <1>2 DEF KmdfTypeInv, BusResetNotify, CountingType, counts
  <2> QED BY <1>2, <2>1, <2>2
          DEF KmdfTypeInv, BusResetNotify, SentType, RecordsType, DeviceType, LedgerType, sent, records, device
<1>3. CASE Fails(a)
      BY <1>3, FailsType
<1>4. CASE ~AddCrom(a) /\ ~BusResetNotify(a) /\ ~Fails(a)
      BY <1>4, ForwardsType
      DEF ApiRequest, GetLocalHostInformation, Get1394AddressFromDeviceObject,
          GetMaxSpeedBetweenDevices, SetDeviceXmitProperties, SendPhyConfigurationPacket,
          BusReset, GetGenerationCount, SetGapCount, RemoveCrom, BusResetNotification,
          Control, GetConfigurationInformation
<1> QED BY <1>1, <1>2, <1>3, <1>4

LEMMA AnswersType ==
  ASSUME KmdfTypeInv, HoldingInv, NEW a \in Apps, BusAnswers(a)
  PROVE  KmdfTypeInv'
<1>1. CASE BusServes(a)
  <2>1. RequestType'
        BY <1>1, CompletesType DEF KmdfTypeInv, BusServes
  <2>2. SentType'
        BY <1>1 DEF KmdfTypeInv, BusServes, SentType
  <2> QED BY <1>1, <2>1, <2>2
          DEF KmdfTypeInv, BusServes, RecordsType, CountingType, DeviceType, LedgerType,
              records, counting, device
<1>2. CASE BusRefuses(a)
      BY <1>2
      DEF KmdfTypeInv, BusRefuses, Answers, RequestType, SentType, RecordsType,
          CountingType, DeviceType, LedgerType, records, counting, device
<1>3. CASE BusRegisters(a)
  <2>1. LedgerType'
        BY <1>3 DEF KmdfTypeInv, BusRegisters, Registers, LedgerType, BusType
  <2> QED BY <1>3, <2>1
          DEF KmdfTypeInv, BusRegisters, Answers, RequestType, SentType, RecordsType,
              CountingType, DeviceType, records, counting, device
<1>4. CASE BusGrants(a)
  <2>1. PICK h \in Handles :
          /\ call' = [call EXCEPT ![a].h = h]
          /\ \/ call[a].op = "AllocateAddressRange" /\ AllocatesAddress(h, block[a])
             \/ call[a].op = "AddCrom" /\ AddsCrom(h, block[a])
             \/ call[a].op = "IsochAllocateResources" /\ AllocatesIsoch(h)
             \/ /\ h = call[a].h
                /\ \/ call[a].op = "FreeAddressRange" /\ FreesAddress(h)
                   \/ call[a].op = "RemoveCrom" /\ RemovesCrom(h)
                   \/ call[a].op = "IsochFreeResources" /\ FreesIsoch(h)
        BY <1>4 DEF BusGrants
  <2>2. RequestType'
        BY <1>4, <2>1 DEF KmdfTypeInv, BusGrants, Answers, RequestType
  <2>3. SentType'
        BY <1>4 DEF KmdfTypeInv, BusGrants, Answers, SentType
  <2>4. call[a].op \in {"AllocateAddressRange", "AddCrom"} => block[a] \in Buffers
        BY <1>4 DEF KmdfTypeInv, BusGrants, AtBus, HoldingInv, BlockOps, AddressOps, SentType
  <2>5. LedgerType'
    <3>1. CASE call[a].op = "AllocateAddressRange" /\ AllocatesAddress(h, block[a])
          BY <2>4, <3>1 DEF KmdfTypeInv, AllocatesAddress, LedgerType, BusType, Entry
    <3>2. CASE call[a].op = "AddCrom" /\ AddsCrom(h, block[a])
          BY <2>4, <3>2 DEF KmdfTypeInv, AddsCrom, LedgerType, BusType, Entry
    <3>3. CASE AllocatesIsoch(h) \/ FreesIsoch(h)
          BY <3>3 DEF KmdfTypeInv, AllocatesIsoch, FreesIsoch, LedgerType, BusType
    <3>4. CASE FreesAddress(h) \/ RemovesCrom(h)
          BY <3>4 DEF KmdfTypeInv, FreesAddress, RemovesCrom, WithHandle, LedgerType, BusType
    <3> QED BY <2>1, <3>1, <3>2, <3>3, <3>4
  <2> QED BY <1>4, <2>2, <2>3, <2>5
          DEF KmdfTypeInv, BusGrants, Answers, RecordsType, CountingType, DeviceType,
              records, counting, device
<1> QED BY <1>1, <1>2, <1>3, <1>4 DEF BusAnswers

LEMMA ReleasedType ==
  ASSUME SentType, NEW a \in Apps, Released(a)
  PROVE  SentType'
BY DEF SentType, Released

LEMMA EndsType ==
  ASSUME KmdfTypeInv, HoldingInv, NEW a \in Apps, GoesOn(a)
  PROVE  KmdfTypeInv'
<1>1. /\ irb[a] = "granted" /\ call[a].op \notin NotificationOps => call[a].h \in Handles
      /\ irb[a] # "none" /\ call[a].op \in BlockOps => block[a] \in Buffers
      BY DEF KmdfTypeInv, HoldingInv, SentType
<1>2. irb[a] # "none" /\ call[a].op = "FreeAddressRange"
        => [h |-> call[a].h, buf |-> block[a]] \in Entry
      BY <1>1 DEF HoldingInv, BlockOps, AddressOps, Entry
<1>3. CASE AllocateAddressRangeCompletion(a)
  <2>1. RecordsType'
        BY <1>1, <1>3
        DEF KmdfTypeInv, AllocateAddressRangeCompletion, Resumes, RecordsType, BlockOps,
            AddressOps, NotificationOps, Entry
  <2> QED BY <1>3, <2>1, ReleasedType
          DEF KmdfTypeInv, AllocateAddressRangeCompletion, RequestType, CountingType,
              DeviceType, LedgerType, request, counting, device
<1>4. CASE FreeAddressRangeAnswered(a)
  <2>1. RecordsType'
        BY <1>2, <1>4 DEF KmdfTypeInv, FreeAddressRangeAnswered, Resumes, RecordsType
  <2>2. RequestType'
        BY <1>4, CompletesType DEF KmdfTypeInv, FreeAddressRangeAnswered
  <2> QED BY <1>4, <2>1, <2>2, ReleasedType
          DEF KmdfTypeInv, FreeAddressRangeAnswered, CountingType, DeviceType, LedgerType,
              counting, device
<1>5. CASE \E op \in {"AsyncRead", "AsyncWrite", "AsyncLock", "AsyncStream"} :
             TransferCompletion(a, op)
      BY <1>5
      DEF KmdfTypeInv, TransferCompletion, RequestType, SentType, RecordsType,
          CountingType, DeviceType, LedgerType, request, records, counting, device
<1>6. CASE IsochAllocateResourcesAnswered(a)
  <2>1. RecordsType'
        BY <1>1, <1>6
        DEF KmdfTypeInv, IsochAllocateResourcesAnswered, Resumes, RecordsType, NotificationOps
  <2>2. RequestType'
        BY <1>6, CompletesType DEF KmdfTypeInv, IsochAllocateResourcesAnswered
  <2> QED BY <1>6, <2>1, <2>2, ReleasedType
          DEF KmdfTypeInv, IsochAllocateResourcesAnswered, CountingType, DeviceType,
              LedgerType, counting, device
<1>7. CASE IsochFreeResourcesAnswered(a) \/ BusResetNotificationAnswered(a)
  <2>1. PICK status \in {"ok", "failed"} : Completes(a, status)
        BY <1>7 DEF IsochFreeResourcesAnswered, BusResetNotificationAnswered
  <2>2. RequestType' /\ SentType'
        BY <1>7, <2>1, CompletesType, ReleasedType
        DEF KmdfTypeInv, IsochFreeResourcesAnswered, BusResetNotificationAnswered
  <2> QED BY <1>7, <2>2
          DEF KmdfTypeInv, IsochFreeResourcesAnswered, BusResetNotificationAnswered,
              RecordsType, CountingType, DeviceType, LedgerType, records, counting, device
<1>8. CASE AddCromAnswered(a)
  <2>1. RecordsType'
        BY <1>1, <1>8
        DEF KmdfTypeInv, AddCromAnswered, Resumes, RecordsType, NotificationOps, BlockOps, Entry
  <2>2. RequestType'
        BY <1>8, CompletesType DEF KmdfTypeInv, AddCromAnswered
  <2> QED BY <1>8, <2>1, <2>2, ReleasedType
          DEF KmdfTypeInv, AddCromAnswered, CountingType, DeviceType, LedgerType, counting, device
<1>9. CASE RemoveCromAnswered(a)
  <2>1. RecordsType'
        BY <1>9 DEF KmdfTypeInv, RemoveCromAnswered, RecordsType
  <2>2. RequestType'
        BY <1>9, CompletesType DEF KmdfTypeInv, RemoveCromAnswered, RequestType, request
  <2>3. DeviceType'
        BY <1>9 DEF KmdfTypeInv, RemoveCromAnswered, DeviceType
  <2> QED BY <1>9, <2>1, <2>2, <2>3, ReleasedType
          DEF KmdfTypeInv, RemoveCromAnswered, CountingType, LedgerType, counting
<1> QED BY <1>3, <1>4, <1>5, <1>6, <1>7, <1>8, <1>9
        DEF GoesOn, AsyncReadCompletion, AsyncWriteCompletion, AsyncLockCompletion,
            AsyncStreamCompletion

LEMMA ServeType ==
  ASSUME KmdfTypeInv, HoldingInv, NEW a \in Apps, Serve(a)
  PROVE  KmdfTypeInv'
<1>1. CASE SubmitIrpAsync(a)
  <2>1. RequestType'
        BY <1>1, CompletesType DEF KmdfTypeInv, SubmitIrpAsync
  <2> QED BY <1>1, <2>1
          DEF KmdfTypeInv, SubmitIrpAsync, SentType, RecordsType, CountingType, DeviceType,
              LedgerType, sent, records, counting, device
<1> QED BY <1>1, AsyncType, IsochType, ApiType, FailsType, AnswersType, EndsType
        DEF Serve, EvtIoDeviceControl, NoInput

\* Every routine of the driver leaves what it does not name alone.
LEMMA CountingStep ==
  ASSUME KmdfTypeInv, CountingType', UNCHANGED <<request, sent, records, device, bus>>
  PROVE  KmdfTypeInv'
BY DEF KmdfTypeInv, RequestType, SentType, RecordsType, DeviceType, LedgerType,
       request, sent, records, device

LEMMA UpdatesType ==
  ASSUME CountingType, LedgerType, NEW i \in 0..MaxResets,
         UpdateReads(i) \/ UpdateAssigns(i) \/ UpdateFails(i)
  PROVE  CountingType'
<1>1. CASE UpdateReads(i)
  <2>1. [phase |-> "read", gen |-> bus.generation]
          \in [phase : {"none", "queued", "read", "done", "failed"}, gen : 0..MaxResets]
        BY DEF LedgerType
  <2> QED BY <1>1, <2>1 DEF UpdateReads, CountingType
<1>2. [NoUpdate EXCEPT !.phase = "done"]
        \in [phase : {"none", "queued", "read", "done", "failed"}, gen : 0..MaxResets]
      BY ResetsBounded DEF NoUpdate
<1>3. CASE UpdateAssigns(i)
      BY <1>2, <1>3 DEF UpdateAssigns, CountingType
<1>4. CASE UpdateFails(i)
  <2>1. [NoUpdate EXCEPT !.phase = "failed"]
          \in [phase : {"none", "queued", "read", "done", "failed"}, gen : 0..MaxResets]
        BY ResetsBounded DEF NoUpdate
  <2> QED BY <1>4, <2>1 DEF UpdateFails, CountingType
<1> QED BY <1>1, <1>3, <1>4

LEMMA UpdateType ==
  ASSUME KmdfTypeInv, NEW i \in 0..MaxResets, UpdateGenerationCount(i)
  PROVE  KmdfTypeInv'
BY UpdatesType, CountingStep
DEF KmdfTypeInv, UpdateGenerationCount, UpdateReads, UpdateAssigns, UpdateFails

\* The first of the manual queue is answered.
LEMMA AnswersHead ==
  ASSUME KmdfTypeInv, waiting # <<>>, NEW status \in {"ok", "failed"},
         Completes(Head(waiting), status), waiting' = Tail(waiting),
         UNCHANGED <<sent, records, counts, device, bus>>
  PROVE  KmdfTypeInv'
<1>1. Head(waiting) \in Apps /\ Tail(waiting) \in Seq(Apps)
      BY DEF KmdfTypeInv, CountingType
<1>2. RequestType'
      BY <1>1, CompletesType DEF KmdfTypeInv
<1> QED BY <1>1, <1>2
        DEF KmdfTypeInv, SentType, RecordsType, CountingType, DeviceType, LedgerType,
            sent, records, counts, device

LEMMA ResetType ==
  ASSUME KmdfTypeInv, BusResetRoutine \/ BusResets
  PROVE  KmdfTypeInv'
<1>1. CASE BusResets
  <2>1. LedgerType'
        BY <1>1, ResetsBounded DEF KmdfTypeInv, BusResets, Resets, LedgerType, BusType
  <2> QED BY <1>1, <2>1
          DEF KmdfTypeInv, BusResets, RequestType, SentType, RecordsType, CountingType,
              DeviceType, request, sent, records, device
<1>2. CASE BusResetRoutineQueuesItem
  <2>1. CountingType'
        BY <1>2 DEF KmdfTypeInv, BusResetRoutineQueuesItem, CountingType, LedgerType
  <2> QED BY <1>2, <2>1, CountingStep DEF BusResetRoutineQueuesItem
<1>3. CASE BusResetRoutineAnswers /\ waiting = <<>>
  <2>1. CountingType'
        BY <1>3 DEF KmdfTypeInv, BusResetRoutineAnswers, CountingType
  <2> QED BY <1>3, <2>1, CountingStep DEF BusResetRoutineAnswers
<1>4. CASE BusResetRoutineAnswers /\ waiting # <<>>
      BY <1>4, AnswersHead DEF BusResetRoutineAnswers, counts
<1> QED BY <1>1, <1>2, <1>3, <1>4 DEF BusResetRoutine

LEMMA StartType ==
  ASSUME KmdfTypeInv, StartDevice
  PROVE  KmdfTypeInv'
<1>1. CountingType'
  <2>1. 0 \in 0..MaxResets
        BY ResetsBounded
  <2>2. CASE D0EntryRuns
        BY <2>1, <2>2, UpdatesType DEF KmdfTypeInv, D0EntryRuns
  <2>3. CASE D0EntryAssigns
        BY <2>3, ResetsBounded DEF KmdfTypeInv, D0EntryAssigns, CountingType, NoUpdate
  <2>4. CASE EvtDeviceD0Entry
        BY <2>1, <2>4 DEF KmdfTypeInv, EvtDeviceD0Entry, CountingType
  <2> QED BY <2>2, <2>3, <2>4
          DEF KmdfTypeInv, StartDevice, EvtDeviceAdd, EvtPrepareHardware, D0EntryFails,
              CountingType, counting
<1>2. LedgerType'
      BY DEF KmdfTypeInv, StartDevice, EvtDeviceAdd, EvtPrepareHardware, EvtDeviceD0Entry,
             D0EntryRuns, D0EntryAssigns, D0EntryFails, UpdateReads, UpdateFails, Registers,
             BusType, LedgerType
<1>3. DeviceType' /\ UNCHANGED <<request, sent, records>>
      BY DEF KmdfTypeInv, StartDevice, EvtDeviceAdd, EvtPrepareHardware, EvtDeviceD0Entry,
             D0EntryRuns, D0EntryAssigns, D0EntryFails, UpdateReads, UpdateFails, Reaches,
             PnpStages, DeviceType, device
<1> QED BY <1>1, <1>2, <1>3
        DEF KmdfTypeInv, RequestType, SentType, RecordsType, request, sent, records

LEMMA StopType ==
  ASSUME KmdfTypeInv, StopDevice \/ RemoveDevice
  PROVE  KmdfTypeInv'
<1>1. CASE PurgeQueue
      BY <1>1, AnswersHead DEF PurgeQueue
<1>2. CASE ~PurgeQueue
  <2>1. LedgerType'
        BY <1>2 DEF KmdfTypeInv, StopDevice, RemoveDevice, EvtDeviceD0Exit,
           EvtReleaseHardware, CleanupFreesMemory, CleanupFreesIsoch, Registers, BusType, LedgerType
  <2>2. RecordsType'
        BY <1>2 DEF KmdfTypeInv, StopDevice, RemoveDevice, EvtDeviceD0Exit,
           EvtReleaseHardware, CleanupFreesMemory, CleanupFreesIsoch, RecordsType, records
  <2>3. DeviceType' /\ UNCHANGED <<request, sent, counting>>
        BY <1>2 DEF KmdfTypeInv, StopDevice, RemoveDevice, EvtDeviceD0Exit,
           EvtReleaseHardware, CleanupFreesMemory, CleanupFreesIsoch, Reaches, PnpStages, DeviceType
  <2> QED BY <2>1, <2>2, <2>3
          DEF KmdfTypeInv, RequestType, SentType, CountingType, request, sent, counting
<1> QED BY <1>1, <1>2

\* A request that begins or ends at its caller.
LEMMA RequestOnly ==
  ASSUME KmdfTypeInv, RequestType', UNCHANGED <<sent, records, counting, device, bus>>
  PROVE  KmdfTypeInv'
BY DEF KmdfTypeInv, SentType, RecordsType, CountingType, DeviceType, LedgerType, sent,
       records, counting, device

LEMMA CallerType ==
  ASSUME KmdfTypeInv, NEW a \in Apps, DeviceIoControl(a) \/ CallRefused(a) \/ Returns(a)
  PROVE  KmdfTypeInv'
<1>1. CASE CallRefused(a)
      BY <1>1, RequestOnly DEF KmdfTypeInv, CallRefused, kmdfVars, RequestType, request
<1>2. CASE DeviceIoControl(a)
  <2>1. RequestType'
        BY <1>2 DEF KmdfTypeInv, DeviceIoControl, Asks, HandlesFor, Moves, RequestType,
                    Stages, Sizes
  <2> QED BY <1>2, <2>1, RequestOnly DEF DeviceIoControl
<1>3. CASE Returns(a)
  <2>1. RequestType'
        BY <1>3 DEF KmdfTypeInv, Returns, Moves, RequestType, Stages
  <2> QED BY <1>3, <2>1, RequestOnly DEF Returns
<1> QED BY <1>1, <1>2, <1>3

LEMMA KmdfNextType ==
  ASSUME KmdfTypeInv, HoldingInv, [KmdfNext]_kmdfVars
  PROVE  KmdfTypeInv'
<1>1. CASE UNCHANGED kmdfVars
      BY <1>1, RequestOnly DEF KmdfTypeInv, kmdfVars, RequestType, request
<1>2. 1..MaxResets \subseteq 0..MaxResets
      OBVIOUS
<1> QED BY <1>1, <1>2, ServeType, CallerType, ResetType, StartType, StopType, UpdateType
        DEF KmdfNext, BusResetRoutineWorkItem

-----------------------------------------------------------------------------
(* The requests in flight: the packet is held, the blocks are where they     *)
(* belong, and who waits is in the manual queue once.                        *)

\* What a routine that goes on with the bus's answer leaves behind.
LEMMA EndsRelease ==
  ASSUME KmdfType, NEW a \in Apps, Ends(a)
  PROVE  /\ irb[a] # "none" /\ Released(a)
         /\ \A x \in Apps : x # a => at'[x] = at[x] /\ call'[x] = call[x]
<1>1. irb[a] # "none" /\ Released(a)
      BY DEF Ends, AllocateAddressRangeCompletion, FreeAddressRangeAnswered, AddCromAnswered,
             RemoveCromAnswered, IsochAllocateResourcesAnswered, IsochFreeResourcesAnswered,
             Resumes
<1>2. UNCHANGED request \/ \E status : Completes(a, status)
      BY DEF Ends, AllocateAddressRangeCompletion, FreeAddressRangeAnswered, AddCromAnswered,
             RemoveCromAnswered, IsochAllocateResourcesAnswered, IsochFreeResourcesAnswered
<1> QED BY <1>1, <1>2, CompletesOne DEF request

LEMMA PacketStep ==
  ASSUME KmdfType, OriginalPacketHeld, CoreStep
  PROVE  OriginalPacketHeld'
<1>1. CASE Quiet
      BY <1>1 DEF Quiet, OriginalPacketHeld
<1>2. CASE CleanupFreesMemory
      BY <1>2 DEF CleanupFreesMemory, OriginalPacketHeld, request, sent
<1>3. ASSUME NEW a \in Apps, RequestStep(a)
      PROVE  OriginalPacketHeld'
  <2>1. ASSUME NEW answers, Launches(a, answers) PROVE OriginalPacketHeld'
        BY <2>1 DEF Launches, Moves, OriginalPacketHeld, KmdfType
  <2>2. CASE Spills(a)
        BY <2>2 DEF Spills, OriginalPacketHeld
  <2>3. CASE Answered(a) \/ BusGrants(a)
        BY <2>3 DEF Answered, BusGrants, AtBus, Answers, OriginalPacketHeld, KmdfType
  <2>4. CASE Settled(a)
        BY <2>4 DEF Settled, OriginalPacketHeld, KmdfType
  <2>5. CASE Ends(a)
        BY <2>5, EndsRelease DEF Released, OriginalPacketHeld, KmdfType
  <2> QED BY <1>3, <2>1, <2>2, <2>3, <2>4, <2>5
          DEF RequestStep, Forwarded, Takes, Delists, DelistsIsoch
<1> QED BY <1>1, <1>2, <1>3 DEF CoreStep

LEMMA HoldingStep ==
  ASSUME KmdfType, HoldingInv, CoreStep
  PROVE  HoldingInv'
<1>1. CASE Quiet
      BY <1>1 DEF Quiet, HoldingInv
<1>2. CASE CleanupFreesMemory
      BY <1>2 DEF CleanupFreesMemory, HoldingInv, request, sent
<1>3. ASSUME NEW a \in Apps, RequestStep(a)
      PROVE  HoldingInv'
  <2>1. CASE Forwarded(a) \/ DelistsIsoch(a)
        BY <2>1
        DEF Forwarded, DelistsIsoch, Launches, HoldingInv, KmdfType, BlockOps, AddressOps
  <2>2. CASE Takes(a)
        BY <2>2, NoneIsNone DEF Takes, Launches, HoldingInv, KmdfType, BlockOps, AddressOps
  <2>3. CASE Delists(a)
    <3>1. PICK e \in addresses : e.h = call[a].h /\ block' = [block EXCEPT ![a] = e.buf]
          BY <2>3 DEF Delists, WithHandle
    <3>2. e.h \in Handles /\ e.buf \in Buffers /\ e.buf # None
          BY <3>1, NoneIsNone DEF KmdfType, Entry
    <3> QED BY <2>3, <3>1, <3>2
            DEF Delists, Launches, HoldingInv, KmdfType, BlockOps, AddressOps
  <2>4. CASE Spills(a)
        BY <2>4 DEF Spills, HoldingInv
  <2>5. CASE Answered(a)
        BY <2>5 DEF Answered, HoldingInv, KmdfType
  <2>6. CASE BusGrants(a)
        BY <2>6 DEF BusGrants, AtBus, Answers, HoldingInv, KmdfType
  <2>7. CASE Settled(a)
        BY <2>7 DEF Settled, HoldingInv, KmdfType, BlockOps, CromOps, NotificationOps, AddressOps
  <2>8. CASE Ends(a)
        BY <2>8, EndsRelease DEF Released, HoldingInv, KmdfType
  <2> QED BY <1>3, <2>1, <2>2, <2>3, <2>4, <2>5, <2>6, <2>7, <2>8 DEF RequestStep
<1> QED BY <1>1, <1>2, <1>3 DEF CoreStep

\* What a step does to the manual queue.
WaitStep ==
  \/ UNCHANGED waiting /\ \A x \in Apps : at[x] = "waiting" => at'[x] = "waiting"
  \/ \E a \in Apps : /\ at[a] # "waiting"
                     /\ waiting' = Append(waiting, a)
                     /\ at' = [at EXCEPT ![a] = "waiting"]
  \/ /\ waiting # <<>>
     /\ waiting' = Tail(waiting)
     /\ at' = [at EXCEPT ![Head(waiting)] = "completed"]

LEMMA WaitingStep ==
  ASSUME KmdfType, WaitingInv, WaitStep
  PROVE  WaitingInv'
<1> DEFINE n == Len(waiting)
<1>1. n \in Nat /\ \A i \in 1..n : waiting[i] \in Apps
      BY DEF KmdfType
<1>2. CASE UNCHANGED waiting /\ \A x \in Apps : at[x] = "waiting" => at'[x] = "waiting"
      BY <1>1, <1>2 DEF WaitingInv
<1>3. ASSUME NEW a \in Apps, at[a] # "waiting", waiting' = Append(waiting, a),
             at' = [at EXCEPT ![a] = "waiting"]
      PROVE  WaitingInv'
  <2>1. /\ Len(waiting') = n + 1
        /\ \A i \in 1..n : waiting'[i] = waiting[i]
        /\ waiting'[n + 1] = a
        BY <1>3 DEF KmdfType
  <2>2. \A i \in 1..n : waiting[i] # a
        BY <1>3 DEF WaitingInv
  <2>3. \A i \in 1..(n + 1) : i \in 1..n \/ i = n + 1
        BY <1>1
  <2>4. \A x \in Apps : at'[x] = IF x = a THEN "waiting" ELSE at[x]
        BY <1>3 DEF KmdfType
  <2> QED BY <1>1, <2>1, <2>2, <2>3, <2>4 DEF WaitingInv
<1>4. CASE /\ waiting # <<>> /\ waiting' = Tail(waiting)
           /\ at' = [at EXCEPT ![Head(waiting)] = "completed"]
  <2>1. /\ n > 0 /\ Head(waiting) = waiting[1] /\ Len(waiting') = n - 1
        /\ \A i \in 1..(n - 1) : waiting'[i] = waiting[i + 1]
        BY <1>4 DEF KmdfType
  <2>2. \A i \in 1..(n - 1) : i + 1 \in 1..n /\ waiting[i + 1] # waiting[1]
        BY <1>1, <2>1 DEF WaitingInv
  <2>3. \A x \in Apps : x # waiting[1] => at'[x] = at[x]
        BY <1>4, <2>1 DEF KmdfType
  <2>4. \A i \in 1..(n - 1) : at'[waiting'[i]] = "waiting"
        BY <1>1, <2>1, <2>2, <2>3 DEF WaitingInv
  <2>5. ASSUME NEW i \in 1..(n - 1), NEW j \in 1..(n - 1), waiting'[i] = waiting'[j]
        PROVE  i = j
    <3>1. waiting[i + 1] = waiting[j + 1]
          BY <2>1, <2>5
    <3>2. i + 1 = j + 1
          BY <2>2, <3>1 DEF WaitingInv
    <3> QED BY <3>2
  <2> QED BY <2>1, <2>4, <2>5 DEF WaitingInv
<1> QED BY <1>2, <1>3, <1>4 DEF WaitStep

\* The steps that move one request, which does not wait.
LEMMA WaitersStay ==
  ASSUME KmdfType, NEW a \in Apps, at[a] # "waiting", UNCHANGED waiting,
         \/ \E stage : Moves(a, stage)
         \/ \E status : Completes(a, status)
         \/ UNCHANGED at
  PROVE  WaitStep
BY DEF WaitStep, Completes, Moves, KmdfType

LEMMA RoutineWaits ==
  ASSUME KmdfType, NEW a \in Apps, EvtIoDeviceControl(a)
  PROVE  WaitStep
<1>1. at[a] # "waiting"
      BY DEF EvtIoDeviceControl
<1>2. CASE AsyncRequest(a)
  <2>1. UNCHANGED waiting /\ \/ \E stage : Moves(a, stage)
                             \/ \E status : Completes(a, status)
        BY <1>2
        DEF AsyncRequest, AllocateAddressRange, FreeAddressRange, GetAddressData,
            SetAddressData, FindsAddress, AsyncRead, AsyncWrite, AsyncLock, AsyncStream,
            Starts, Fails, SubmitIrpSynch, counting
  <2> QED BY <1>1, <2>1, WaitersStay
<1>3. CASE IsochRequest(a)
  <2>1. UNCHANGED waiting /\ \/ \E stage : Moves(a, stage)
                             \/ \E status : Completes(a, status)
        BY <1>3
        DEF IsochRequest, IsochAllocateBandwidth, IsochFreeBandwidth, IsochAllocateChannel,
            IsochFreeChannel, IsochAllocateResources, IsochFreeResources, IsochListen,
            IsochTalk, IsochStop, IsochQueryCurrentCycleTime, IsochQueryResources,
            IsochSetChannelBandwidth, IsochModifyStreamProperties, IsochAttachBuffers,
            IsochDetachBuffers, Forwards, Fails, SubmitIrpSynch, counting
  <2> QED BY <1>1, <2>1, WaitersStay
<1>4. CASE ApiRequest(a) /\ ~BusResetNotify(a)
  <2>1. UNCHANGED waiting /\ \/ \E stage : Moves(a, stage)
                             \/ \E status : Completes(a, status)
        BY <1>4
        DEF ApiRequest, GetLocalHostInformation, Get1394AddressFromDeviceObject,
            GetMaxSpeedBetweenDevices, SetDeviceXmitProperties, SendPhyConfigurationPacket,
            BusReset, GetGenerationCount, Control, GetConfigurationInformation, SetGapCount,
            AddCrom, RemoveCrom, BusResetNotification, Forwards, Fails, SubmitIrpSynch, counting
  <2> QED BY <1>1, <2>1, WaitersStay
<1>5. CASE BusResetNotify(a)
  <2>1. CASE Fails(a)
        BY <1>1, <2>1, WaitersStay DEF Fails, counting
  <2>2. CASE ~Fails(a)
        BY <1>1, <1>5, <2>2 DEF BusResetNotify, Moves, WaitStep
  <2> QED BY <2>1, <2>2
<1>6. CASE NoInput(a)
      BY <1>1, <1>6, WaitersStay DEF NoInput, Fails, counting
<1> QED BY <1>2, <1>3, <1>4, <1>5, <1>6 DEF EvtIoDeviceControl

LEMMA ServeWaits ==
  ASSUME KmdfType, OriginalPacketHeld, NEW a \in Apps, Serve(a)
  PROVE  WaitStep
<1>1. CASE EvtIoDeviceControl(a)
      BY <1>1, RoutineWaits
<1>2. CASE BusAnswers(a)
  <2>1. at[a] # "waiting"
        BY <1>2 DEF BusAnswers, BusServes, BusRefuses, BusGrants, BusRegisters, AtBus
  <2>2. UNCHANGED waiting /\ (UNCHANGED at \/ \E status : Completes(a, status))
        BY <1>2 DEF BusAnswers, BusServes, BusRefuses, BusGrants, BusRegisters, Answers, counting
  <2> QED BY <2>1, <2>2, WaitersStay
<1>3. CASE GoesOn(a)
  <2>1. at[a] # "waiting"
        BY <1>3 DEF GoesOn, OriginalPacketHeld
  <2>2. UNCHANGED waiting /\ (UNCHANGED at \/ \E status : Completes(a, status))
        BY <1>3
        DEF GoesOn, AllocateAddressRangeCompletion, FreeAddressRangeAnswered,
            AsyncReadCompletion, AsyncWriteCompletion, AsyncLockCompletion,
            AsyncStreamCompletion, TransferCompletion, IsochAllocateResourcesAnswered,
            IsochFreeResourcesAnswered, AddCromAnswered, RemoveCromAnswered,
            BusResetNotificationAnswered, counting, request
  <2> QED BY <2>1, <2>2, WaitersStay
<1>4. CASE SubmitIrpAsync(a)
      BY <1>4, WaitersStay DEF SubmitIrpAsync, counting
<1> QED BY <1>1, <1>2, <1>3, <1>4 DEF Serve

LEMMA QueueWaits ==
  ASSUME BusResetRoutine \/ BusResets \/ StopDevice \/ RemoveDevice \/ StartDevice
         \/ \E i : UpdateGenerationCount(i)
  PROVE  WaitStep
<1>1. CASE PurgeQueue \/ BusResetRoutineAnswers
      BY <1>1 DEF PurgeQueue, BusResetRoutineAnswers, Completes, Moves, WaitStep, request
<1>2. CASE ~(PurgeQueue \/ BusResetRoutineAnswers)
  <2>1. UNCHANGED <<waiting, at>>
        BY <1>2
        DEF BusResetRoutine, BusResetRoutineQueuesItem, BusResets, StopDevice,
            EvtDeviceD0Exit, EvtReleaseHardware, CleanupFreesMemory, CleanupFreesIsoch,
            RemoveDevice, StartDevice, EvtDeviceAdd, EvtPrepareHardware, EvtDeviceD0Entry,
            D0EntryRuns, D0EntryAssigns, D0EntryFails, UpdateGenerationCount, UpdateReads,
            UpdateAssigns, UpdateFails, counting, request
  <2> QED BY <2>1 DEF WaitStep
<1> QED BY <1>1, <1>2

LEMMA KmdfWaits ==
  ASSUME KmdfType, OriginalPacketHeld, [KmdfNext]_kmdfVars
  PROVE  WaitStep
<1>1. CASE UNCHANGED kmdfVars
      BY <1>1 DEF kmdfVars, request, counting, WaitStep
<1>2. ASSUME NEW a \in Apps, DeviceIoControl(a) \/ CallRefused(a) \/ Returns(a)
      PROVE  WaitStep
  <2>1. CASE CallRefused(a)
        BY <2>1 DEF CallRefused, kmdfVars, request, counting, WaitStep
  <2>2. CASE DeviceIoControl(a) \/ Returns(a)
        BY <2>2, WaitersStay DEF DeviceIoControl, Returns, counting
  <2> QED BY <1>2, <2>1, <2>2
<1> QED BY <1>1, <1>2, ServeWaits, QueueWaits DEF KmdfNext, BusResetRoutineWorkItem

-----------------------------------------------------------------------------
(* The core of the driver's state, step by step.                             *)

FlightCore == KmdfTypeInv /\ FlightInv

LEMMA FlightInit ==
  ASSUME KmdfInit PROVE FlightCore
<1>1. KmdfTypeInv
  <2>1. RequestType
        BY DEF KmdfInit, RequestType, NoCall, Stages, Sizes
  <2>2. SentType /\ RecordsType /\ DeviceType
        BY DEF KmdfInit, SentType, RecordsType, DeviceType, PnpStages
  <2>3. NoUpdate \in [phase : {"none", "queued", "read", "done", "failed"}, gen : 0..MaxResets]
        BY ResetsBounded DEF NoUpdate
  <2>4. CountingType
        BY <2>3, ResetsBounded DEF KmdfInit, CountingType
  <2>5. LedgerType
        BY ResetsBounded DEF KmdfInit, BusInit, LedgerType, BusType
  <2> QED BY <2>1, <2>2, <2>4, <2>5 DEF KmdfTypeInv
<1>2. FlightInv
      BY DEF KmdfInit, FlightInv, WaitingInv, OriginalPacketHeld, HoldingInv
<1> QED BY <1>1, <1>2 DEF FlightCore

LEMMA FlightStep ==
  ASSUME FlightCore, InlineBus, [KmdfNext]_kmdfVars
  PROVE  FlightCore' /\ CoreStep
<1>1. KmdfType
      BY TypeInParts DEF FlightCore
<1>2. CoreStep /\ WaitStep
      BY <1>1, KmdfShape, KmdfWaits DEF FlightCore, FlightInv
<1>3. KmdfTypeInv'
      BY KmdfNextType DEF FlightCore, FlightInv
<1>4. OriginalPacketHeld' /\ HoldingInv' /\ WaitingInv'
      BY <1>1, <1>2, PacketStep, HoldingStep, WaitingStep DEF FlightCore, FlightInv
<1> QED BY <1>2, <1>3, <1>4 DEF FlightCore, FlightInv

-----------------------------------------------------------------------------
(* Memory blocks.                                                            *)

\* The ways a block changes hands.
BlockTaken ==
  \E a \in Apps, buf \in Buffers \ pool :
    /\ block[a] = None
    /\ pool' = pool \cup {buf} /\ block' = [block EXCEPT ![a] = buf]
    /\ UNCHANGED <<addresses, cromData>>
BlockSpilt ==
  \E buf \in Buffers \ pool :
    /\ "send" \in Faults \/ "mdl" \in Faults
    /\ pool' = pool \cup {buf}
    /\ UNCHANGED <<block, addresses, cromData>>
BlockDelisted ==
  \E a \in Apps, e \in addresses :
    /\ block[a] = None
    /\ addresses' = addresses \ {e} /\ block' = [block EXCEPT ![a] = e.buf]
    /\ UNCHANGED <<pool, cromData>>
BlockListed ==
  \E a \in Apps, h \in Handles :
    /\ block[a] # None /\ block' = [block EXCEPT ![a] = None]
    /\ \/ /\ addresses' = addresses \cup {[h |-> h, buf |-> block[a]]}
          /\ UNCHANGED cromData
       \/ /\ cromData' = cromData \cup {[h |-> h, buf |-> block[a]]}
          /\ UNCHANGED addresses
    /\ UNCHANGED pool
BlockFreed ==
  \E a \in Apps :
    /\ block[a] # None /\ block' = [block EXCEPT ![a] = None]
    /\ pool' = pool \ {block[a]}
    /\ UNCHANGED <<addresses, cromData>>
CromFreed ==
  \E e \in cromData :
    /\ cromData' = cromData \ {e} /\ pool' = pool \ {e.buf}
    /\ UNCHANGED <<block, addresses>>
AllFreed ==
  /\ pool' = pool \ (BuffersOf(cromData) \cup BuffersOf(addresses))
  /\ cromData' = {} /\ addresses' = {}
  /\ UNCHANGED block

BlocksStep ==
  \/ UNCHANGED <<block, addresses, cromData, pool>>
  \/ BlockTaken \/ BlockSpilt \/ BlockDelisted \/ BlockListed
  \/ BlockFreed \/ CromFreed \/ AllFreed

LEMMA BlocksShape ==
  ASSUME KmdfType, HoldingInv, CoreStep
  PROVE  BlocksStep
<1>1. CASE Quiet \/ CleanupFreesMemory
      BY <1>1 DEF Quiet, CleanupFreesMemory, BlocksStep, AllFreed, sent
<1>2. ASSUME NEW a \in Apps, RequestStep(a)
      PROVE  BlocksStep
  <2>1. \/ call[a].op \notin BlockOps
        \/ irb[a] = "none"
        => block[a] = None /\ [block EXCEPT ![a] = None] = block
        BY DEF HoldingInv, KmdfType
  <2>2. CASE Forwarded(a) \/ DelistsIsoch(a) \/ Answered(a) \/ BusGrants(a)
        BY <2>2
        DEF Forwarded, DelistsIsoch, Answered, BusGrants, Answers, BlocksStep, records
  <2>3. CASE Takes(a)
        BY <2>1, <2>3 DEF Takes, Launches, BlocksStep, BlockTaken
  <2>4. CASE Spills(a)
        BY <2>4 DEF Spills, BlocksStep, BlockSpilt
  <2>5. CASE Delists(a)
        BY <2>1, <2>5 DEF Delists, Launches, WithHandle, BlocksStep, BlockDelisted
  <2>6. CASE Settled(a)
        BY <2>1, <2>6
        DEF Settled, BlocksStep, BlockOps, AddressOps, CromOps, ResourceOps
  <2>7. CASE Ends(a)
    <3>1. CASE AllocateAddressRangeCompletion(a) \/ FreeAddressRangeAnswered(a)
               \/ AddCromAnswered(a)
      <4>1. /\ block[a] # None
            /\ irb[a] = "granted" => call[a].h \in Handles
            /\ call[a].op = "FreeAddressRange" => call[a].h \in Handles
            BY <3>1
            DEF AllocateAddressRangeCompletion, FreeAddressRangeAnswered, AddCromAnswered,
                Resumes, HoldingInv, BlockOps, AddressOps, NotificationOps
      <4> QED BY <3>1, <4>1
              DEF AllocateAddressRangeCompletion, FreeAddressRangeAnswered, AddCromAnswered,
                  Resumes, Released, BlocksStep, BlockListed, BlockFreed
    <3>2. CASE IsochAllocateResourcesAnswered(a) \/ IsochFreeResourcesAnswered(a)
      <4>1. UNCHANGED block
            BY <2>1, <3>2
            DEF IsochAllocateResourcesAnswered, IsochFreeResourcesAnswered, Resumes, Released,
                BlockOps, AddressOps
      <4> QED BY <3>2, <4>1
              DEF IsochAllocateResourcesAnswered, IsochFreeResourcesAnswered, BlocksStep, records
    <3>3. CASE RemoveCromAnswered(a)
      <4>1. UNCHANGED block
            BY <2>1, <3>3 DEF RemoveCromAnswered, Resumes, Released, BlockOps, AddressOps
      <4> QED BY <3>3, <4>1 DEF RemoveCromAnswered, WithHandle, BlocksStep, CromFreed
    <3> QED BY <2>7, <3>1, <3>2, <3>3 DEF Ends
  <2> QED BY <1>2, <2>2, <2>3, <2>4, <2>5, <2>6, <2>7 DEF RequestStep
<1> QED BY <1>1, <1>2 DEF CoreStep

LEMMA OwnedStep ==
  ASSUME KmdfType, OwnedOnce, BlocksStep
  PROVE  OwnedOnce'
<1>1. CASE UNCHANGED <<block, addresses, cromData, pool>> \/ BlockSpilt
      BY <1>1 DEF BlockSpilt, OwnedOnce
<1>2. CASE BlockTaken
  <2>1. PICK a \in Apps, buf \in Buffers \ pool :
          /\ block[a] = None
          /\ pool' = pool \cup {buf} /\ block' = [block EXCEPT ![a] = buf]
          /\ UNCHANGED <<addresses, cromData>>
        BY <1>2 DEF BlockTaken
  <2>2. \A x \in Apps : block'[x] = IF x = a THEN buf ELSE block[x]
        BY <2>1 DEF KmdfType
  <2> QED BY <2>1, <2>2 DEF OwnedOnce
<1>3. CASE BlockDelisted
  <2>1. PICK a \in Apps, e \in addresses :
          /\ block[a] = None
          /\ addresses' = addresses \ {e} /\ block' = [block EXCEPT ![a] = e.buf]
          /\ UNCHANGED <<pool, cromData>>
        BY <1>3 DEF BlockDelisted
  <2>2. \A x \in Apps : block'[x] = IF x = a THEN e.buf ELSE block[x]
        BY <2>1 DEF KmdfType
  <2> QED BY <2>1, <2>2 DEF OwnedOnce
<1>4. CASE BlockListed
  <2>1. PICK a \in Apps, h \in Handles :
          /\ block[a] # None /\ block' = [block EXCEPT ![a] = None]
          /\ \/ /\ addresses' = addresses \cup {[h |-> h, buf |-> block[a]]}
                /\ UNCHANGED cromData
             \/ /\ cromData' = cromData \cup {[h |-> h, buf |-> block[a]]}
                /\ UNCHANGED addresses
          /\ UNCHANGED pool
        BY <1>4 DEF BlockListed
  <2>2. \A x \in Apps : block'[x] = IF x = a THEN None ELSE block[x]
        BY <2>1 DEF KmdfType
  <2>3. \A e \in Entry : e.buf # None
        BY NoneIsNone DEF Entry
  <2> QED BY <2>1, <2>2, <2>3 DEF OwnedOnce, KmdfType
<1>5. CASE BlockFreed
  <2>1. PICK a \in Apps :
          /\ block[a] # None /\ block' = [block EXCEPT ![a] = None]
          /\ pool' = pool \ {block[a]}
          /\ UNCHANGED <<addresses, cromData>>
        BY <1>5 DEF BlockFreed
  <2>2. \A x \in Apps : block'[x] = IF x = a THEN None ELSE block[x]
        BY <2>1 DEF KmdfType
  <2>3. \A e \in Entry : e.buf # None
        BY NoneIsNone DEF Entry
  <2> QED BY <2>1, <2>2, <2>3 DEF OwnedOnce, KmdfType
<1>6. CASE CromFreed
      BY <1>6, NoneIsNone DEF CromFreed, OwnedOnce, KmdfType, Entry
<1>7. CASE AllFreed
  <2>1. \A a \in Apps : block[a] \notin BuffersOf(cromData) \cup BuffersOf(addresses)
        BY DEF OwnedOnce, BuffersOf
  <2> QED BY <1>7, <2>1 DEF AllFreed, OwnedOnce
<1> QED BY <1>1, <1>2, <1>3, <1>4, <1>5, <1>6, <1>7 DEF BlocksStep

LEMMA LeakStep ==
  ASSUME KmdfType, OwnedOnce, NoneLeaks, BlocksStep, "send" \notin Faults, "mdl" \notin Faults
  PROVE  NoneLeaks'
<1>1. CASE UNCHANGED <<block, addresses, cromData, pool>> \/ BlockSpilt
      BY <1>1 DEF BlockSpilt, NoneLeaks
<1>2. CASE BlockTaken
  <2>1. PICK a \in Apps, buf \in Buffers \ pool :
          /\ block[a] = None
          /\ pool' = pool \cup {buf} /\ block' = [block EXCEPT ![a] = buf]
          /\ UNCHANGED <<addresses, cromData>>
        BY <1>2 DEF BlockTaken
  <2>2. block'[a] = buf /\ \A x \in Apps : block[x] # None => block'[x] = block[x]
        BY <2>1 DEF KmdfType
  <2>3. \A x \in Buffers : x # None
        BY NoneIsNone
  <2> QED BY <2>1, <2>2, <2>3 DEF NoneLeaks, KmdfType
<1>3. CASE BlockDelisted
  <2>1. PICK a \in Apps, e \in addresses :
          /\ block[a] = None
          /\ addresses' = addresses \ {e} /\ block' = [block EXCEPT ![a] = e.buf]
          /\ UNCHANGED <<pool, cromData>>
        BY <1>3 DEF BlockDelisted
  <2>2. block'[a] = e.buf /\ \A x \in Apps : block[x] # None => block'[x] = block[x]
        BY <2>1 DEF KmdfType
  <2>3. \A x \in Buffers : x # None
        BY NoneIsNone
  <2> QED BY <2>1, <2>2, <2>3 DEF NoneLeaks, KmdfType
<1>4. CASE BlockListed
  <2>1. PICK a \in Apps, h \in Handles :
          /\ block[a] # None /\ block' = [block EXCEPT ![a] = None]
          /\ \/ /\ addresses' = addresses \cup {[h |-> h, buf |-> block[a]]}
                /\ UNCHANGED cromData
             \/ /\ cromData' = cromData \cup {[h |-> h, buf |-> block[a]]}
                /\ UNCHANGED addresses
          /\ UNCHANGED pool
        BY <1>4 DEF BlockListed
  <2> DEFINE new == [h |-> h, buf |-> block[a]]
  <2>2. new \in addresses' \cup cromData' /\ new.buf = block[a]
        BY <2>1
  <2>3. \A x \in Apps : x # a => block'[x] = block[x]
        BY <2>1 DEF KmdfType
  <2>4. addresses \cup cromData \subseteq addresses' \cup cromData'
        BY <2>1
  <2> HIDE DEF new
  <2> QED BY <2>1, <2>2, <2>3, <2>4 DEF NoneLeaks
<1>5. CASE BlockFreed
      BY <1>5 DEF BlockFreed, NoneLeaks, KmdfType
<1>6. CASE CromFreed
      BY <1>6 DEF CromFreed, NoneLeaks
<1>7. CASE AllFreed
      BY <1>7 DEF AllFreed, NoneLeaks, BuffersOf
<1> QED BY <1>1, <1>2, <1>3, <1>4, <1>5, <1>6, <1>7 DEF BlocksStep

\* The two invariants say what EveryBlockHasOneOwner counts.
LEMMA OneOwner ==
  ASSUME KmdfType, OwnedOnce, NoneLeaks
  PROVE  EveryBlockHasOneOwner
<1> SUFFICES ASSUME NEW buf \in Buffers
             PROVE  Cardinality(Owners(buf)) = (IF buf \in pool THEN 1 ELSE 0)
    BY DEF EveryBlockHasOneOwner
<1> DEFINE listed(e) == [list |-> "addresses", owner |-> e]
           rom(e)    == [list |-> "cromData", owner |-> e]
           held(a)   == [list |-> "routine", owner |-> a]
<1>1. buf # None
      BY NoneIsNone
<1>2. \A o \in Owners(buf) :
        \/ \E e \in addresses : e.buf = buf /\ o = listed(e)
        \/ \E e \in cromData : e.buf = buf /\ o = rom(e)
        \/ \E a \in Apps : block[a] = buf /\ o = held(a)
      BY DEF Owners
<1>3. CASE buf \notin pool
  <2>1. Owners(buf) = {}
        BY <1>1, <1>2, <1>3 DEF OwnedOnce
  <2> QED BY <1>3, <2>1, FS_EmptySet
<1>4. ASSUME NEW e \in addresses, e.buf = buf
      PROVE  Owners(buf) = {listed(e)} /\ buf \in pool
  <2>1. listed(e) \in Owners(buf)
        BY <1>4 DEF Owners
  <2>2. \A o \in Owners(buf) : o = listed(e)
        BY <1>2, <1>4 DEF OwnedOnce
  <2> QED BY <1>4, <2>1, <2>2 DEF OwnedOnce
<1>5. ASSUME NEW e \in cromData, e.buf = buf
      PROVE  Owners(buf) = {rom(e)} /\ buf \in pool
  <2>1. rom(e) \in Owners(buf)
        BY <1>5 DEF Owners
  <2>2. \A o \in Owners(buf) : o = rom(e)
        BY <1>2, <1>5 DEF OwnedOnce
  <2> QED BY <1>5, <2>1, <2>2 DEF OwnedOnce
<1>6. ASSUME NEW a \in Apps, block[a] = buf
      PROVE  Owners(buf) = {held(a)} /\ buf \in pool
  <2>1. held(a) \in Owners(buf)
        BY <1>6 DEF Owners
  <2>2. \A o \in Owners(buf) : o = held(a)
        BY <1>1, <1>2, <1>6 DEF OwnedOnce
  <2> QED BY <1>1, <1>6, <2>1, <2>2 DEF OwnedOnce
<1>7. CASE buf \in pool
  <2>1. \E o : Owners(buf) = {o}
        BY <1>4, <1>5, <1>6, <1>7 DEF NoneLeaks
  <2> QED BY <1>7, <2>1, FS_Singleton
<1> QED BY <1>3, <1>7

\* What holds of blocks whatever fails, and what holds when no send and no MDL
\* is refused.
BlocksCore == FlightCore /\ OwnedOnce

LEMMA BlocksInit ==
  ASSUME KmdfInit PROVE BlocksCore /\ NoneLeaks
BY FlightInit, NoneIsNone DEF BlocksCore, KmdfInit, OwnedOnce, NoneLeaks

LEMMA BlocksCoreStep ==
  ASSUME BlocksCore, InlineBus, [KmdfNext]_kmdfVars
  PROVE  BlocksCore' /\ BlocksStep /\ CoreStep
<1>1. FlightCore' /\ CoreStep
      BY FlightStep DEF BlocksCore
<1>2. KmdfType /\ BlocksStep
      BY <1>1, BlocksShape, TypeInParts DEF BlocksCore, FlightCore, FlightInv
<1> QED BY <1>1, <1>2, OwnedStep DEF BlocksCore

(***************************************************************************)
(* Every memory block of the driver (record, buffer and MDL) has exactly one *)
(* owner, a record on a list or a routine under way, and so none is freed    *)
(* twice and none leaks, as long as no send and no MDL allocation fails:     *)
(* AllocateAddressRange and SetLocalHostProperties forget their block then.  *)
(***************************************************************************)
THEOREM BlocksHaveOneOwner ==
  ASSUME InlineBus, "send" \notin Faults, "mdl" \notin Faults
  PROVE  KmdfSpec => []EveryBlockHasOneOwner
<1> DEFINE Inv == BlocksCore /\ NoneLeaks
<1>1. KmdfInit => Inv
      BY BlocksInit
<1>2. Inv /\ [KmdfNext]_kmdfVars => Inv'
      BY BlocksCoreStep, LeakStep, TypeInParts DEF BlocksCore, FlightCore
<1>3. Inv => EveryBlockHasOneOwner
      BY OneOwner, TypeInParts DEF BlocksCore, FlightCore
<1> QED BY <1>1, <1>2, <1>3, PTL DEF KmdfSpec

-----------------------------------------------------------------------------
(* The list of address ranges and the bus's ledger.                          *)

\* What a range in transit is made of.
LEMMA InTransit ==
  ASSUME KmdfType, HoldingInv, NEW a \in Apps, OnBusOnly(a)
  PROVE  block[a] # None /\ Held(a) \in Entry
BY DEF KmdfType, HoldingInv, OnBusOnly, BlockOps, AddressOps, NotificationOps, Entry, Held

\* Requests that do not change keep what they have in transit.
LEMMA TransitStays ==
  ASSUME NEW a \in Apps, irb'[a] = irb[a], irb[a] # "none" => call'[a] = call[a],
         irb[a] # "none" => block'[a] = block[a]
  PROVE  /\ OnBusOnly(a)' <=> OnBusOnly(a)
         /\ OnBusOnly(a) => Held(a)' = Held(a)
BY DEF OnBusOnly, Held

\* A step that leaves the list, the ledger and what is in transit alone.
LEMMA LedgerStays ==
  ASSUME LedgerInv, UNCHANGED addresses, bus'.addresses = bus.addresses, Up' => Up,
         \A a \in Apps : /\ OnBusOnly(a)' <=> OnBusOnly(a)
                         /\ OnBusOnly(a) => Held(a)' = Held(a)
  PROVE  LedgerInv'
BY DEF LedgerInv

LEMMA GrantKeepsLedger ==
  ASSUME KmdfType, HoldingInv, OwnedOnce, LedgerInv, NEW a \in Apps, BusGrants(a)
  PROVE  LedgerInv'
<1>1. PICK h \in Handles :
        /\ call' = [call EXCEPT ![a].h = h]
        /\ \/ call[a].op = "AllocateAddressRange" /\ AllocatesAddress(h, block[a])
           \/ call[a].op = "AddCrom" /\ AddsCrom(h, block[a])
           \/ call[a].op = "IsochAllocateResources" /\ AllocatesIsoch(h)
           \/ /\ h = call[a].h
              /\ \/ call[a].op = "FreeAddressRange" /\ FreesAddress(h)
                 \/ call[a].op = "RemoveCrom" /\ RemovesCrom(h)
                 \/ call[a].op = "IsochFreeResources" /\ FreesIsoch(h)
      BY DEF BusGrants
<1>2. /\ irb[a] = "sent" /\ irb' = [irb EXCEPT ![a] = "granted"]
      /\ UNCHANGED <<block, addresses, pnp>>
      BY DEF BusGrants, AtBus, Answers, records, device
<1>3. \A x \in Apps : x # a => (/\ OnBusOnly(x)' <=> OnBusOnly(x)
                                /\ OnBusOnly(x) => Held(x)' = Held(x))
      BY <1>1, <1>2 DEF OnBusOnly, Held, KmdfType
<1>4. /\ OnBusOnly(a) <=> call[a].op = "FreeAddressRange"
      /\ OnBusOnly(a)' <=> call[a].op = "AllocateAddressRange"
      /\ Held(a)' = [h |-> h, buf |-> block[a]]
      BY <1>1, <1>2 DEF OnBusOnly, Held, KmdfType
<1>5. CASE call[a].op = "AllocateAddressRange" /\ AllocatesAddress(h, block[a])
  <2>1. /\ bus.addresses' = bus.addresses \cup {Held(a)'}
        /\ \A e \in bus.addresses : e.h # h
        /\ ~OnBusOnly(a)
        BY <1>4, <1>5 DEF AllocatesAddress, HandlesOf, KmdfType, BusType
  <2>2. OnBusOnly(a)' /\ Held(a)'.h = h
        BY <1>4, <1>5
  <2> QED BY <1>2, <1>3, <2>1, <2>2 DEF LedgerInv, Up
<1>6. CASE call[a].op = "FreeAddressRange" /\ h = call[a].h /\ FreesAddress(h)
  <2>1. /\ bus.addresses' = bus.addresses \ WithHandle(bus.addresses, h)
        /\ OnBusOnly(a) /\ ~OnBusOnly(a)' /\ Held(a).h = h
        BY <1>4, <1>6 DEF FreesAddress, KmdfType, BusType, Held
  <2>2. bus.addresses' = bus.addresses \ {Held(a)}
        BY <2>1 DEF WithHandle, LedgerInv
  <2>3. block[a] # None
        BY <2>1, InTransit
  <2>4. \A e \in addresses : e # Held(a)
        BY DEF OwnedOnce, Held
  <2>5. \A x \in Apps : x # a /\ OnBusOnly(x) => Held(x) # Held(a)
        BY <2>3 DEF OwnedOnce, Held
  <2> QED BY <1>2, <1>3, <2>1, <2>2, <2>4, <2>5 DEF LedgerInv, Up
<1>7. CASE call[a].op \notin AddressOps
  <2>1. bus.addresses' = bus.addresses
        BY <1>1, <1>7
        DEF AddsCrom, AllocatesIsoch, RemovesCrom, FreesIsoch, AddressOps, KmdfType, BusType
  <2>2. ~OnBusOnly(a) /\ ~OnBusOnly(a)'
        BY <1>4, <1>7 DEF AddressOps
  <2> QED BY <1>2, <1>3, <2>1, <2>2, LedgerStays DEF Up
<1> QED BY <1>1, <1>5, <1>6, <1>7 DEF AddressOps

LEMMA EndKeepsLedger ==
  ASSUME KmdfType, HoldingInv, OwnedOnce, LedgerInv, NEW a \in Apps, Ends(a)
  PROVE  LedgerInv'
<1>1. /\ irb[a] # "none" /\ Released(a) /\ UNCHANGED bus /\ (Up' => Up)
      /\ \A x \in Apps : x # a => call'[x] = call[x]
  <2>1. UNCHANGED <<bus, pnp>>
        BY DEF Ends, AllocateAddressRangeCompletion, FreeAddressRangeAnswered, AddCromAnswered,
               RemoveCromAnswered, IsochAllocateResourcesAnswered, IsochFreeResourcesAnswered, device
  <2> QED BY <2>1, EndsRelease DEF Up
<1>2. /\ ~OnBusOnly(a)'
      /\ \A x \in Apps : x # a => (/\ OnBusOnly(x)' <=> OnBusOnly(x)
                                   /\ OnBusOnly(x) => Held(x)' = Held(x))
      BY <1>1 DEF Released, OnBusOnly, Held, KmdfType
<1>3. CASE OnBusOnly(a)
  <2>1. addresses' = addresses \cup {Held(a)}
        BY <1>3
        DEF Ends, AllocateAddressRangeCompletion, FreeAddressRangeAnswered, AddCromAnswered,
            RemoveCromAnswered, IsochAllocateResourcesAnswered, IsochFreeResourcesAnswered,
            Resumes, OnBusOnly, Held
  <2> QED BY <1>1, <1>2, <1>3, <2>1 DEF LedgerInv
<1>4. CASE ~OnBusOnly(a)
  <2>1. addresses' = addresses
        BY <1>4
        DEF Ends, AllocateAddressRangeCompletion, FreeAddressRangeAnswered, AddCromAnswered,
            RemoveCromAnswered, IsochAllocateResourcesAnswered, IsochFreeResourcesAnswered,
            Resumes, OnBusOnly, Held, records
  <2> QED BY <1>1, <1>2, <1>4, <2>1, LedgerStays
<1> QED BY <1>3, <1>4

LEMMA LedgerStep ==
  ASSUME KmdfType, HoldingInv, OwnedOnce, LedgerInv, CoreStep
  PROVE  LedgerInv'
<1>1. CASE Quiet
      BY <1>1, TransitStays, LedgerStays DEF Quiet, LedgerKept
<1>2. CASE CleanupFreesMemory
  <2>1. ~Up'
        BY <1>2 DEF CleanupFreesMemory, Reaches, Up
  <2>2. UNCHANGED <<irb, call, block, bus>>
        BY <1>2 DEF CleanupFreesMemory, request, sent
  <2> QED BY <1>2, <2>1, <2>2 DEF CleanupFreesMemory, LedgerInv, OnBusOnly, Held
<1>3. ASSUME NEW a \in Apps, RequestStep(a)
      PROVE  LedgerInv'
  <2>1. CASE Forwarded(a) \/ DelistsIsoch(a)
    <3>1. \A x \in Apps : /\ OnBusOnly(x)' <=> OnBusOnly(x)
                          /\ OnBusOnly(x) => Held(x)' = Held(x)
          BY <2>1 DEF Forwarded, DelistsIsoch, Launches, OnBusOnly, Held, KmdfType, BlockOps, AddressOps
    <3> QED BY <2>1, <3>1, LedgerStays DEF Forwarded, DelistsIsoch, Launches, Up
  <2>2. CASE Takes(a)
    <3>1. \A x \in Apps : /\ OnBusOnly(x)' <=> OnBusOnly(x)
                          /\ OnBusOnly(x) => Held(x)' = Held(x)
          BY <2>2 DEF Takes, Launches, OnBusOnly, Held, KmdfType
    <3> QED BY <2>2, <3>1, LedgerStays DEF Takes, Launches, Up
  <2>3. CASE Spills(a)
    <3>1. \A x \in Apps : irb[x] # "none" => call'[x] = call[x]
          BY <2>3 DEF Spills
    <3> QED BY <2>3, <3>1, TransitStays, LedgerStays DEF Spills, Up
  <2>4. CASE Answered(a)
    <3>1. \A x \in Apps : /\ OnBusOnly(x)' <=> OnBusOnly(x)
                          /\ OnBusOnly(x) => Held(x)' = Held(x)
          BY <2>4 DEF Answered, OnBusOnly, Held, KmdfType, NotificationOps, LedgerOps
    <3> QED BY <2>4, <3>1, LedgerStays DEF Answered, LedgerKept, Up
  <2>5. CASE Settled(a)
    <3>1. \A x \in Apps : x # a => block'[x] = block[x] /\ irb'[x] = irb[x] /\ call'[x] = call[x]
          BY <2>5 DEF Settled, KmdfType
    <3>2. ~OnBusOnly(a) /\ ~OnBusOnly(a)'
          BY <2>5 DEF Settled, OnBusOnly, KmdfType, AddressOps
    <3>3. \A x \in Apps : /\ OnBusOnly(x)' <=> OnBusOnly(x)
                          /\ OnBusOnly(x) => Held(x)' = Held(x)
          BY <3>1, <3>2, TransitStays
    <3> QED BY <2>5, <3>3, LedgerStays DEF Settled, Up
  <2>6. CASE Delists(a)
    <3>1. PICK e \in addresses : /\ e.h = call[a].h
                                 /\ addresses' = addresses \ {e}
                                 /\ block' = [block EXCEPT ![a] = e.buf]
          BY <2>6 DEF Delists, WithHandle
    <3>2. OnBusOnly(a)' /\ Held(a)' = e /\ ~OnBusOnly(a)
          BY <2>6, <3>1 DEF Delists, Launches, OnBusOnly, Held, KmdfType, Entry
    <3>3. \A x \in Apps : x # a => (/\ OnBusOnly(x)' <=> OnBusOnly(x)
                                    /\ OnBusOnly(x) => Held(x)' = Held(x))
          BY <2>6, <3>1 DEF Delists, Launches, OnBusOnly, Held, KmdfType
    <3>4. UNCHANGED bus /\ (Up' => Up)
          BY <2>6 DEF Delists, Launches, Up
    <3> QED BY <3>1, <3>2, <3>3, <3>4 DEF LedgerInv
  <2>7. CASE BusGrants(a)
        BY <2>7, GrantKeepsLedger
  <2>8. CASE Ends(a)
        BY <2>8, EndKeepsLedger
  <2> QED BY <1>3, <2>1, <2>2, <2>3, <2>4, <2>5, <2>6, <2>7, <2>8 DEF RequestStep
<1> QED BY <1>1, <1>2, <1>3 DEF CoreStep

\* The invariant says what AddressListIsTheBusLedger says.
LEMMA LedgerSays ==
  ASSUME KmdfType, OwnedOnce, LedgerInv
  PROVE  AddressListIsTheBusLedger
<1> DEFINE granted == {[h |-> call[a].h, buf |-> block[a]] :
                         a \in {x \in InFlight({"AllocateAddressRange"}) : irb[x] = "granted"}}
           leaving == {[h |-> call[a].h, buf |-> block[a]] :
                         a \in {x \in InFlight({"FreeAddressRange"}) : irb[x] # "granted"}}
<1>1. granted \cup leaving = {Held(a) : a \in {x \in Apps : OnBusOnly(x)}}
      BY DEF InFlight, OnBusOnly, Held, KmdfType
<1> HIDE DEF granted, leaving
<1>2. Up => bus.addresses = addresses \cup (granted \cup leaving)
      BY <1>1 DEF LedgerInv
<1>3. addresses \cap (granted \cup leaving) = {}
      BY <1>1 DEF OwnedOnce, Held
<1> QED BY <1>2, <1>3 DEF AddressListIsTheBusLedger, granted, leaving

AddressCore == BlocksCore /\ LedgerInv

LEMMA AddressInit ==
  ASSUME KmdfInit PROVE AddressCore
BY BlocksInit DEF AddressCore, KmdfInit, BusInit, LedgerInv, OnBusOnly

LEMMA AddressStep ==
  ASSUME AddressCore, InlineBus, [KmdfNext]_kmdfVars
  PROVE  AddressCore'
<1>1. BlocksCore' /\ CoreStep
      BY BlocksCoreStep DEF AddressCore
<1>2. KmdfType /\ HoldingInv /\ OwnedOnce
      BY TypeInParts DEF AddressCore, BlocksCore, FlightCore, FlightInv
<1> QED BY <1>1, <1>2, LedgerStep DEF AddressCore

(***************************************************************************)
(* Until the cleanup of a removal, the driver's list of address ranges and   *)
(* the ranges in transit are exactly the bus's ledger, and no range is both  *)
(* listed and in transit, whatever allocation, MDL, send or IRB fails.       *)
(***************************************************************************)
THEOREM ListIsLedger ==
  ASSUME InlineBus PROVE KmdfSpec => []AddressListIsTheBusLedger
<1>1. KmdfInit => AddressCore
      BY AddressInit
<1>2. AddressCore /\ [KmdfNext]_kmdfVars => AddressCore'
      BY AddressStep
<1>3. AddressCore => AddressListIsTheBusLedger
      BY LedgerSays, TypeInParts DEF AddressCore, BlocksCore, FlightCore
<1> QED BY <1>1, <1>2, <1>3, PTL DEF KmdfSpec

-----------------------------------------------------------------------------
(* The generation count.                                                     *)

CountKept ==
  /\ UNCHANGED <<generation, updates, overtaken>>
  /\ bus'.generation = bus.generation
  /\ BusIsRecord'

LEMMA CountKeptStep ==
  ASSUME CountInv, CountKept PROVE CountInv'
BY DEF CountInv, CountType, CountKept, GenerationIsCurrent

\* A routine of the driver changes neither the count nor the bus.
LEMMA RoutineCount ==
  ASSUME BusIsRecord, NEW a \in Apps, EvtIoDeviceControl(a) \/ GoesOn(a) \/ SubmitIrpAsync(a)
  PROVE  CountKept
<1>1. CASE AsyncRequest(a)
      BY <1>1
      DEF AsyncRequest, AllocateAddressRange, FreeAddressRange, GetAddressData, SetAddressData,
          FindsAddress, AsyncRead, AsyncWrite, AsyncLock, AsyncStream, Starts, Fails, counting,
          CountKept, BusIsRecord
<1>2. CASE IsochRequest(a)
      BY <1>2
      DEF IsochRequest, IsochAllocateBandwidth, IsochFreeBandwidth, IsochAllocateChannel,
          IsochFreeChannel, IsochAllocateResources, IsochFreeResources, IsochListen,
          IsochTalk, IsochStop, IsochQueryCurrentCycleTime, IsochQueryResources,
          IsochSetChannelBandwidth, IsochModifyStreamProperties, IsochAttachBuffers,
          IsochDetachBuffers, Forwards, Fails, counting, CountKept, BusIsRecord
<1>3. CASE ApiRequest(a)
      BY <1>3
      DEF ApiRequest, GetLocalHostInformation, Get1394AddressFromDeviceObject,
          GetMaxSpeedBetweenDevices, SetDeviceXmitProperties, SendPhyConfigurationPacket,
          BusReset, GetGenerationCount, Control, GetConfigurationInformation, SetGapCount,
          AddCrom, RemoveCrom, BusResetNotification, BusResetNotify, Forwards, Fails,
          counting, counts, CountKept, BusIsRecord
<1>4. CASE NoInput(a) \/ SubmitIrpAsync(a)
      BY <1>4 DEF NoInput, SubmitIrpAsync, Fails, counting, CountKept, BusIsRecord
<1>5. CASE GoesOn(a)
      BY <1>5
      DEF GoesOn, AllocateAddressRangeCompletion, FreeAddressRangeAnswered,
          AsyncReadCompletion, AsyncWriteCompletion, AsyncLockCompletion,
          AsyncStreamCompletion, TransferCompletion, IsochAllocateResourcesAnswered,
          IsochFreeResourcesAnswered, AddCromAnswered, RemoveCromAnswered,
          BusResetNotificationAnswered, counting, CountKept, BusIsRecord
<1> QED BY <1>1, <1>2, <1>3, <1>4, <1>5 DEF EvtIoDeviceControl

\* Nor does the bus when it answers.
LEMMA ServeCount ==
  ASSUME BusIsRecord, NEW a \in Apps, Serve(a)
  PROVE  CountKept
<1>1. CASE BusAnswers(a)
  <2>1. UNCHANGED <<generation, updates, overtaken>>
        BY <1>1 DEF BusAnswers, BusServes, BusRefuses, BusGrants, BusRegisters, Answers, counting
  <2>2. CASE BusRegisters(a)
        BY <2>1, <2>2 DEF BusRegisters, Registers, CountKept, BusIsRecord
  <2>3. CASE BusGrants(a)
        BY <2>1, <2>3
        DEF BusGrants, AllocatesAddress, AddsCrom, AllocatesIsoch, FreesAddress, RemovesCrom,
            FreesIsoch, CountKept, BusIsRecord
  <2>4. CASE BusServes(a) \/ BusRefuses(a)
        BY <2>1, <2>4 DEF BusServes, BusRefuses, CountKept, BusIsRecord
  <2> QED BY <1>1, <2>2, <2>3, <2>4 DEF BusAnswers
<1>2. CASE ~BusAnswers(a)
      BY <1>2, RoutineCount DEF Serve
<1> QED BY <1>1, <1>2

\* A run of UpdateGenerationCount takes its two steps.
LEMMA ReadsCount ==
  ASSUME CountInv, NEW i \in 0..MaxResets, UpdateReads(i)
  PROVE  CountInv'
<1>1. \A j \in 0..MaxResets : updates'[j] =
        IF j = i THEN [phase |-> "read", gen |-> bus.generation] ELSE updates[j]
      BY DEF UpdateReads, CountInv, CountType
<1>2. CountType'
      BY DEF UpdateReads, CountInv, CountType, BusIsRecord
<1>3. UNCHANGED <<generation, overtaken, bus>> /\ updates[i].phase = "queued"
      BY DEF UpdateReads
<1> QED BY <1>1, <1>2, <1>3 DEF CountInv, CountType, GenerationIsCurrent

LEMMA AssignsCount ==
  ASSUME CountInv, NEW i \in 0..MaxResets, updates[i].phase = "read",
         generation' = updates[i].gen, UNCHANGED <<overtaken, bus>>,
         updates' = [updates EXCEPT ![i] = [NoUpdate EXCEPT !.phase = "done"]]
  PROVE  CountInv'
<1>1. [NoUpdate EXCEPT !.phase = "done"] = [phase |-> "done", gen |-> 0]
      BY DEF NoUpdate
<1>2. \A j \in 0..MaxResets : updates'[j] =
        IF j = i THEN [phase |-> "done", gen |-> 0] ELSE updates[j]
      BY <1>1 DEF CountInv, CountType
<1>3. CountType'
      BY <1>1, ResetsBounded DEF CountInv, CountType, BusIsRecord
<1>4. ~overtaken => generation' = bus.generation
      BY DEF CountInv
<1> QED BY <1>2, <1>3, <1>4 DEF CountInv, CountType, GenerationIsCurrent

LEMMA FailsCount ==
  ASSUME CountInv, NEW i \in 0..MaxResets, UpdateFails(i)
  PROVE  CountInv'
<1>1. [NoUpdate EXCEPT !.phase = "failed"] = [phase |-> "failed", gen |-> 0]
      BY DEF NoUpdate
<1>2. \A j \in 0..MaxResets : updates'[j] =
        IF j = i THEN [phase |-> "failed", gen |-> 0] ELSE updates[j]
      BY <1>1 DEF UpdateFails, CountInv, CountType
<1>3. CountType'
      BY <1>1, ResetsBounded DEF UpdateFails, CountInv, CountType, BusIsRecord
<1>4. UNCHANGED <<generation, overtaken, bus>> /\ updates[i].phase = "queued"
      BY DEF UpdateFails
<1> QED BY <1>2, <1>3, <1>4 DEF CountInv, CountType, GenerationIsCurrent

\* A run that is queued: the reset routine's or EvtDeviceD0Entry's.
LEMMA QueuedCount ==
  ASSUME CountInv, NEW i \in 0..MaxResets, i <= bus.generation,
         updates' = [updates EXCEPT ![i].phase = "queued"],
         UNCHANGED <<generation, overtaken, bus>>
  PROVE  CountInv'
<1>1. \A j \in 0..MaxResets : /\ j # i => updates'[j] = updates[j]
                              /\ j = i => updates'[j].phase = "queued"
      BY DEF CountInv, CountType
<1>2. CountType'
      BY DEF CountInv, CountType, BusIsRecord
<1> QED BY <1>1, <1>2 DEF CountInv, CountType, GenerationIsCurrent

LEMMA UpdateCount ==
  ASSUME CountInv, NEW i \in 0..MaxResets, UpdateGenerationCount(i)
  PROVE  CountInv'
BY ReadsCount, AssignsCount, FailsCount DEF UpdateGenerationCount, UpdateAssigns

LEMMA ResetCount ==
  ASSUME CountInv, BusResetRoutine \/ BusResets
  PROVE  CountInv'
<1>1. CASE BusResets
  <2>1. /\ UNCHANGED <<generation, updates>>
        /\ overtaken' = \E i \in 0..MaxResets : updates[i].phase = "read"
        BY <1>1 DEF BusResets
  <2>2. bus'.generation = bus.generation + 1 /\ BusIsRecord' /\ bus.generation < MaxResets
        BY <1>1 DEF BusResets, Resets, CountInv, CountType, BusIsRecord
  <2>3. bus'.generation \in 0..MaxResets /\ bus.generation < bus'.generation
    <3>1. bus.generation \in Nat /\ MaxResets \in Nat
          BY ResetsBounded DEF CountInv, CountType
    <3> QED BY <2>2, <3>1
  <2>4. CountType'
        BY <2>1, <2>2, <2>3 DEF CountInv, CountType
  <2>5. \A i \in 0..MaxResets : bus'.generation <= i => updates[i].phase = "none"
        BY <2>2, ResetsBounded DEF CountInv, CountType
  <2>6. \A i \in 0..MaxResets : bus'.generation < i => updates'[i].phase = "none"
        BY <2>1, <2>3, <2>5, ResetsBounded
  <2>7. updates'[bus'.generation].phase = "none"
        BY <2>1, <2>3, <2>5, ResetsBounded
  <2> QED BY <2>1, <2>4, <2>6, <2>7 DEF CountInv, GenerationIsCurrent
<1>2. CASE BusResetRoutineQueuesItem
  <2>1. CASE UNCHANGED updates
        BY <1>2, <2>1, CountKeptStep 
        DEF BusResetRoutineQueuesItem, CountKept, BusIsRecord, CountInv, CountType
  <2>2. CASE updates' = [updates EXCEPT ![bus.generation].phase = "queued"]
    <3>1. UNCHANGED <<generation, overtaken, bus>>
          BY <1>2 DEF BusResetRoutineQueuesItem
    <3>2. bus.generation \in 0..MaxResets /\ bus.generation <= bus.generation
          BY DEF CountInv, CountType
    <3> QED BY <2>2, <3>1, <3>2, QueuedCount
  <2> QED BY <1>2, <2>1, <2>2 DEF BusResetRoutineQueuesItem
<1>3. CASE BusResetRoutineAnswers
      BY <1>3, CountKeptStep DEF BusResetRoutineAnswers, CountKept, BusIsRecord, CountInv,
             CountType
<1> QED BY <1>1, <1>2, <1>3 DEF BusResetRoutine

LEMMA StartCount ==
  ASSUME CountInv, StartDevice
  PROVE  CountInv'
<1>1. 0 \in 0..MaxResets /\ 0 <= bus.generation
      BY ResetsBounded DEF CountInv, CountType
<1>2. CASE EvtDeviceAdd \/ EvtPrepareHardware \/ D0EntryFails
      BY <1>2, CountKeptStep
      DEF EvtDeviceAdd, EvtPrepareHardware, D0EntryFails, Registers, counting, CountKept,
          BusIsRecord, CountInv, CountType
<1>3. CASE EvtDeviceD0Entry
      BY <1>1, <1>3, QueuedCount DEF EvtDeviceD0Entry
<1>4. CASE D0EntryRuns
      BY <1>1, <1>4, ReadsCount, FailsCount DEF D0EntryRuns
<1>5. CASE D0EntryAssigns
      BY <1>1, <1>5, AssignsCount DEF D0EntryAssigns
<1> QED BY <1>2, <1>3, <1>4, <1>5 DEF StartDevice

LEMMA StopCount ==
  ASSUME BusIsRecord, StopDevice \/ RemoveDevice
  PROVE  CountKept
BY DEF StopDevice, RemoveDevice, PurgeQueue, EvtDeviceD0Exit, EvtReleaseHardware, Registers,
       CleanupFreesMemory, CleanupFreesIsoch, counting, counts, CountKept, BusIsRecord

LEMMA CountStep ==
  ASSUME CountInv, [KmdfNext]_kmdfVars
  PROVE  CountInv'
<1>1. CASE UNCHANGED kmdfVars
      BY <1>1, CountKeptStep DEF kmdfVars, counting, CountKept, BusIsRecord, CountInv, CountType
<1>2. ASSUME NEW a \in Apps, DeviceIoControl(a) \/ CallRefused(a) \/ Returns(a)
      PROVE  CountKept
      BY <1>2 DEF DeviceIoControl, CallRefused, Returns, kmdfVars, counting, CountKept,
                  BusIsRecord, CountInv, CountType
<1>3. \A i \in 1..MaxResets : i \in 0..MaxResets
      BY ResetsBounded
<1>4. BusIsRecord
      BY DEF CountInv, CountType
<1> QED BY <1>1, <1>2, <1>3, <1>4, ServeCount, CountKeptStep, UpdateCount, ResetCount, StartCount,
           StopCount
        DEF KmdfNext, BusResetRoutineWorkItem

(***************************************************************************)
(* Once the run of UpdateGenerationCount for the last reset has succeeded,   *)
(* the driver's count is the bus's until the next reset, unless that reset   *)
(* came while another run had the count before it in hand: whatever fails,   *)
(* whoever deregisters the reset routine, however late the other runs are    *)
(* and however many resets have been lost or overtaken before.               *)
(***************************************************************************)
THEOREM CountIsCurrent == KmdfSpec => []GenerationIsCurrent
<1>1. KmdfInit => CountInv
  <2>1. NoUpdate \in [phase : {"none", "queued", "read", "done", "failed"}, gen : 0..MaxResets]
        BY ResetsBounded DEF NoUpdate
  <2> QED BY <2>1, ResetsBounded
          DEF KmdfInit, BusInit, CountInv, CountType, BusIsRecord, NoUpdate, GenerationIsCurrent
<1>2. CountInv /\ [KmdfNext]_kmdfVars => CountInv'
      BY CountStep
<1>3. CountInv => GenerationIsCurrent
      BY DEF CountInv
<1> QED BY <1>1, <1>2, <1>3, PTL DEF KmdfSpec
=============================================================================
