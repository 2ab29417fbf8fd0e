--------------------------- MODULE VdevTableProofs ---------------------------
(***************************************************************************)
(* VdevKmdf implements AddressTable, for any number of callers, handles and  *)
(* memory blocks: a theorem, step by step.                                   *)
(*                                                                           *)
(* Doing and Outcome are what the refinement mapping makes of one caller.    *)
(* TableMove(a) says in their terms that the step changes nothing but a's    *)
(* call, in one of the ways AddressTable allows; every step of the driver is *)
(* a TableMove of someone, or none of the table's.                           *)
(***************************************************************************)
EXTENDS VdevKmdfProofs

Lookups == {"GetAddressData", "SetAddressData"}
TableOps == AddressOps \cup Lookups
IdleCall == [op |-> "none", h |-> None]

\* The refinement mapping, for one caller.
Doing(a) ==
  IF call[a].op \in TableOps /\ ~Allocated(a) /\ ~Freed(a)
    THEN [op |-> call[a].op, h |-> call[a].h] ELSE IdleCall
Outcome(a) == IF Allocated(a) \/ Freed(a) THEN "ok" ELSE st[a]
Ranges == HandlesOf(bus.addresses)

\* Where a request of each operation can be, and when it has a status.
AnswerInv ==
  \A a \in Apps :
    /\ at[a] \in {"app", "completed"} => call[a] = NoCall
    /\ at[a] = "sent" => call[a].op \notin {"FreeAddressRange"} \cup Lookups
    /\ at[a] = "bus" => call[a].op \notin {"AllocateAddressRange"} \cup Lookups
    /\ at[a] = "waiting" => call[a].op = "BusResetNotify"
    /\ st[a] = "none" <=> at[a] # "completed"

-----------------------------------------------------------------------------
(* What a step does to the requests.                                         *)

Completed(a) == at[a] \notin {"app", "completed"} /\ \E status \in {"ok", "failed"} : Completes(a, status)
ToBus(a) ==
  /\ at[a] = "driver" /\ call[a].op \notin {"AllocateAddressRange"} \cup Lookups
  /\ Moves(a, "bus") /\ UNCHANGED <<call, st>>
ToSent(a) ==
  /\ at[a] = "driver" /\ call[a].op \notin {"FreeAddressRange"} \cup Lookups
  /\ Moves(a, "sent") /\ UNCHANGED <<call, st>>
ToWaiting(a) ==
  /\ at[a] = "driver" /\ call[a].op = "BusResetNotify"
  /\ Moves(a, "waiting") /\ UNCHANGED <<call, st>>
GetsHandle(a) ==
  /\ at[a] \in {"bus", "sent"} /\ UNCHANGED <<at, st>>
  /\ \E h \in Handles : call' = [call EXCEPT ![a].h = h]
Begins(a) ==
  /\ at[a] = "app" /\ Moves(a, "driver") /\ UNCHANGED st
  /\ \E op \in Ops : Asks(a, op, "fits")

AnswerStep ==
  \/ UNCHANGED request
  \/ \E a \in Apps : \/ Completed(a) \/ ToBus(a) \/ ToSent(a) \/ ToWaiting(a)
                     \/ GetsHandle(a) \/ Begins(a) \/ Returns(a)

LEMMA AnswerKept ==
  ASSUME KmdfType, AnswerInv, AnswerStep
  PROVE  AnswerInv'
<1>1. CASE UNCHANGED request
      BY <1>1 DEF request, AnswerInv
<1>2. ASSUME NEW a \in Apps,
             \/ Completed(a) \/ ToBus(a) \/ ToSent(a) \/ ToWaiting(a)
             \/ GetsHandle(a) \/ Begins(a) \/ Returns(a)
      PROVE  AnswerInv'
  <2>1. \A x \in Apps : x # a => at'[x] = at[x] /\ call'[x] = call[x] /\ st'[x] = st[x]
        BY <1>2
        DEF Completed, Completes, Moves, ToBus, ToSent, ToWaiting, GetsHandle, Begins, Asks,
            Returns, KmdfType
  <2>2. CASE Completed(a)
        BY <2>1, <2>2 DEF Completed, Completes, Moves, NoCall, AnswerInv, KmdfType
  <2>3. CASE ToBus(a) \/ ToSent(a) \/ ToWaiting(a)
        BY <2>1, <2>3 DEF ToBus, ToSent, ToWaiting, Moves, AnswerInv, KmdfType
  <2>4. CASE GetsHandle(a)
        BY <2>1, <2>4 DEF GetsHandle, AnswerInv, KmdfType
  <2>5. CASE Begins(a)
        BY <2>1, <2>5 DEF Begins, Moves, AnswerInv, KmdfType
  <2>6. CASE Returns(a)
        BY <2>1, <2>6 DEF Returns, Moves, AnswerInv, KmdfType
  <2> QED BY <1>2, <2>2, <2>3, <2>4, <2>5, <2>6
<1> QED BY <1>1, <1>2 DEF AnswerStep

LEMMA AnswerOne ==
  ASSUME NEW a \in Apps,
         \/ Completed(a) \/ ToBus(a) \/ ToSent(a) \/ ToWaiting(a)
         \/ GetsHandle(a) \/ Begins(a) \/ Returns(a)
  PROVE  AnswerStep
BY DEF AnswerStep

LEMMA ForwardsAnswer ==
  ASSUME NEW a \in Apps, NEW op, Forwards(a, op) \/ Starts(a, op), op \notin TableOps
  PROVE  ToBus(a) \/ ToSent(a) \/ Completed(a)
BY DEF Forwards, Starts, Dispatched, SubmitIrpSynch, Fails, Completed, ToBus, ToSent, TableOps,
       AddressOps, Lookups

LEMMA FailsAnswer ==
  ASSUME NEW a \in Apps, at[a] = "driver", Fails(a)
  PROVE  Completed(a)
BY DEF Fails, Completed

\* The routines that are no routine of the table.
OtherRoutine(a) ==
  /\ EvtIoDeviceControl(a)
  /\ ~(AllocateAddressRange(a) \/ FreeAddressRange(a) \/ GetAddressData(a) \/ SetAddressData(a))

\* They have another operation, or fail for want of an input buffer.
LEMMA OtherRoutines ==
  ASSUME NEW a \in Apps, OtherRoutine(a)
  PROVE  /\ at[a] = "driver"
         /\ \/ Completed(a)
            \/ call[a].op \notin TableOps /\ (ToBus(a) \/ ToSent(a) \/ ToWaiting(a))
         /\ UNCHANGED bus
         /\ NoInput(a) \/ call[a].op \notin TableOps
<1>1. at[a] = "driver"
      BY DEF OtherRoutine, EvtIoDeviceControl
<1>2. CASE NoInput(a)
      BY <1>1, <1>2, FailsAnswer DEF NoInput, Fails
<1>3. CASE AsyncRequest(a)
  <2>1. PICK op \in {"AsyncRead", "AsyncWrite", "AsyncLock", "AsyncStream"} : Starts(a, op)
        BY <1>3 DEF OtherRoutine, AsyncRequest, AsyncRead, AsyncWrite, AsyncLock, AsyncStream
  <2>2. op \notin TableOps /\ call[a].op = op /\ UNCHANGED bus
        BY <2>1 DEF Starts, Dispatched, TableOps, AddressOps, Lookups, Fails
  <2> QED BY <1>1, <2>1, <2>2, ForwardsAnswer DEF ToBus, ToSent
<1>4. CASE IsochRequest(a)
  <2>1. \/ \E op \in {"IsochAllocateBandwidth", "IsochFreeBandwidth", "IsochAllocateChannel",
                      "IsochFreeChannel", "IsochAllocateResources", "IsochListen", "IsochTalk",
                      "IsochStop", "IsochQueryCurrentCycleTime", "IsochQueryResources",
                      "IsochSetChannelBandwidth", "IsochModifyStreamProperties"} :
               Forwards(a, op)
        \/ IsochFreeResources(a)
        \/ IsochAttachBuffers(a) \/ IsochDetachBuffers(a)
        BY <1>4
        DEF IsochRequest, IsochAllocateBandwidth, IsochFreeBandwidth, IsochAllocateChannel,
            IsochFreeChannel, IsochAllocateResources, IsochListen, IsochTalk, IsochStop,
            IsochQueryCurrentCycleTime, IsochQueryResources, IsochSetChannelBandwidth,
            IsochModifyStreamProperties
  <2>2. ASSUME NEW op, op \notin TableOps, Forwards(a, op)
        PROVE  call[a].op \notin TableOps /\ UNCHANGED bus /\ (ToBus(a) \/ ToSent(a) \/ Completed(a))
        BY <2>2, ForwardsAnswer DEF Forwards, Dispatched, Fails
  <2>3. CASE IsochFreeResources(a)
        BY <1>1, <2>3, FailsAnswer
        DEF IsochFreeResources, Dispatched, SubmitIrpSynch, ToBus, TableOps, AddressOps,
            Lookups, Fails
  <2>4. CASE IsochAttachBuffers(a) \/ IsochDetachBuffers(a)
        BY <1>1, <2>4, FailsAnswer
        DEF IsochAttachBuffers, IsochDetachBuffers, Dispatched, TableOps, AddressOps, Lookups, Fails
  <2> QED BY <1>1, <2>1, <2>2, <2>3, <2>4 DEF TableOps, AddressOps, Lookups
<1>5. CASE ApiRequest(a)
  <2>1. \/ \E op \in {"GetLocalHostInformation", "Get1394AddressFromDeviceObject",
                      "GetMaxSpeedBetweenDevices", "SetDeviceXmitProperties",
                      "SendPhyConfigurationPacket", "BusReset", "GetGenerationCount",
                      "SetGapCount", "RemoveCrom", "RegisterNotification",
                      "DeregisterNotification"} : Forwards(a, op)
        \/ Control(a) \/ GetConfigurationInformation(a) \/ AddCrom(a) \/ BusResetNotify(a)
        BY <1>5
        DEF ApiRequest, GetLocalHostInformation, Get1394AddressFromDeviceObject,
            GetMaxSpeedBetweenDevices, SetDeviceXmitProperties, SendPhyConfigurationPacket,
            BusReset, GetGenerationCount, SetGapCount, RemoveCrom, BusResetNotification
  <2>2. ASSUME NEW op, op \notin TableOps, Forwards(a, op)
        PROVE  call[a].op \notin TableOps /\ UNCHANGED bus /\ (ToBus(a) \/ ToSent(a) \/ Completed(a))
        BY <2>2, ForwardsAnswer DEF Forwards, Dispatched, Fails
  <2>3. CASE Control(a) \/ GetConfigurationInformation(a)
        BY <1>1, <2>3, FailsAnswer
        DEF Control, GetConfigurationInformation, Dispatched, TableOps, AddressOps, Lookups, Fails
  <2>4. CASE AddCrom(a)
        BY <1>1, <2>4, FailsAnswer
        DEF AddCrom, Dispatched, SubmitIrpSynch, Completed, ToBus, TableOps, AddressOps,
            Lookups, Fails
  <2>5. CASE BusResetNotify(a)
        BY <1>1, <2>5, FailsAnswer
        DEF BusResetNotify, Dispatched, ToWaiting, TableOps, AddressOps, Lookups, Fails
  <2> QED BY <1>1, <2>1, <2>2, <2>3, <2>4, <2>5 DEF TableOps, AddressOps, Lookups
<1> QED BY <1>2, <1>3, <1>4, <1>5 DEF OtherRoutine, EvtIoDeviceControl

LEMMA RoutineAnswer ==
  ASSUME NEW a \in Apps, EvtIoDeviceControl(a)
  PROVE  Completed(a) \/ ToBus(a) \/ ToSent(a) \/ ToWaiting(a)
<1>1. at[a] = "driver"
      BY DEF EvtIoDeviceControl
<1>2. CASE AllocateAddressRange(a)
      BY <1>1, <1>2, FailsAnswer DEF AllocateAddressRange, Dispatched, ToSent, Completed, Lookups
<1>3. CASE FreeAddressRange(a)
      BY <1>1, <1>3, FailsAnswer DEF FreeAddressRange, Dispatched, ToBus, Lookups
<1>4. CASE GetAddressData(a) \/ SetAddressData(a)
      BY <1>1, <1>4 DEF GetAddressData, SetAddressData, FindsAddress, Completed
<1>5. CASE OtherRoutine(a)
      BY <1>5, OtherRoutines
<1> QED BY <1>2, <1>3, <1>4, <1>5 DEF OtherRoutine

LEMMA BusAnswer ==
  ASSUME NEW a \in Apps, BusAnswers(a)
  PROVE  Completed(a) \/ GetsHandle(a) \/ UNCHANGED request
<1>1. CASE BusServes(a)
      BY <1>1 DEF BusServes, AtBus, Completed
<1>2. CASE BusGrants(a)
      BY <1>2 DEF BusGrants, AtBus, Answers, GetsHandle
<1>3. CASE BusRefuses(a) \/ BusRegisters(a)
      BY <1>3 DEF BusRefuses, BusRegisters, Answers, request
<1> QED BY <1>1, <1>2, <1>3 DEF BusAnswers

LEMMA GoesOnAnswer ==
  ASSUME OriginalPacketHeld, NEW a \in Apps, GoesOn(a)
  PROVE  Completed(a) \/ UNCHANGED request
<1>1. at[a] \in {"bus", "sent"}
      BY DEF GoesOn, OriginalPacketHeld
<1> QED BY <1>1
        DEF GoesOn, AllocateAddressRangeCompletion, FreeAddressRangeAnswered,
            AsyncReadCompletion, AsyncWriteCompletion, AsyncLockCompletion,
            AsyncStreamCompletion, TransferCompletion, IsochAllocateResourcesAnswered,
            IsochFreeResourcesAnswered, AddCromAnswered, RemoveCromAnswered,
            BusResetNotificationAnswered, Completed

\* The steps of nobody's request, and the first of the manual queue's.
LEMMA OthersAnswer ==
  ASSUME KmdfType, WaitingInv, OriginalPacketHeld,
         \/ BusResetRoutine \/ BusResets \/ StartDevice \/ StopDevice \/ RemoveDevice
         \/ \E i : UpdateGenerationCount(i)
  PROVE  /\ UNCHANGED sent /\ bus'.addresses = bus.addresses
         /\ \/ UNCHANGED request
            \/ \E a \in Apps : at[a] = "waiting" /\ Completed(a)
<1>1. CASE PurgeQueue \/ (BusResetRoutineAnswers /\ waiting # <<>>)
      BY <1>1, HeadWaits DEF PurgeQueue, BusResetRoutineAnswers, Completed
<1>2. CASE ~PurgeQueue /\ ~(BusResetRoutineAnswers /\ waiting # <<>>)
  <2>1. UNCHANGED <<request, sent>>
        BY <1>2
        DEF BusResetRoutine, BusResetRoutineAnswers, BusResetRoutineQueuesItem, BusResets,
            StopDevice, EvtDeviceD0Exit, EvtReleaseHardware, CleanupFreesMemory,
            CleanupFreesIsoch, RemoveDevice, StartDevice, EvtDeviceAdd, EvtPrepareHardware,
            EvtDeviceD0Entry, D0EntryRuns, D0EntryAssigns, D0EntryFails,
            UpdateGenerationCount, UpdateReads, UpdateAssigns, UpdateFails
  <2>2. bus'.addresses = bus.addresses
        BY <1>2
        DEF BusResetRoutine, BusResetRoutineAnswers, BusResetRoutineQueuesItem, BusResets,
            Resets, StopDevice, EvtDeviceD0Exit, EvtReleaseHardware, CleanupFreesMemory,
            CleanupFreesIsoch, RemoveDevice, StartDevice, EvtDeviceAdd, EvtPrepareHardware,
            EvtDeviceD0Entry, D0EntryRuns, D0EntryAssigns, D0EntryFails, Registers,
            UpdateGenerationCount, UpdateReads, UpdateAssigns, UpdateFails, KmdfType, BusType
  <2> QED BY <2>1, <2>2
<1> QED BY <1>1, <1>2

LEMMA KmdfAnswer ==
  ASSUME KmdfType, WaitingInv, OriginalPacketHeld, [KmdfNext]_kmdfVars
  PROVE  AnswerStep
<1>1. CASE UNCHANGED kmdfVars
      BY <1>1 DEF kmdfVars, AnswerStep
<1>2. ASSUME NEW a \in Apps, Serve(a) PROVE AnswerStep
  <2>1. CASE SubmitIrpAsync(a)
        BY <2>1, AnswerOne DEF SubmitIrpAsync, Completed
  <2> QED BY <1>2, <2>1, AnswerOne, RoutineAnswer, BusAnswer, GoesOnAnswer
          DEF Serve, AnswerStep
<1>3. ASSUME NEW a \in Apps, DeviceIoControl(a) \/ CallRefused(a) \/ Returns(a)
      PROVE  AnswerStep
      BY <1>3 DEF DeviceIoControl, CallRefused, kmdfVars, Begins, AnswerStep
<1> QED BY <1>1, <1>2, <1>3, OthersAnswer DEF KmdfNext, BusResetRoutineWorkItem, AnswerStep

-----------------------------------------------------------------------------
(* What a step looks like from the table.                                    *)

Seen(a) == <<Doing(a), Outcome(a)>>
Alone(a) ==
  \A x \in Apps : x # a => /\ at'[x] = at[x] /\ call'[x] = call[x]
                           /\ st'[x] = st[x] /\ irb'[x] = irb[x]

Effect(a, result) == Doing(a)' = IdleCall /\ Outcome(a)' = result
TableCall(a) ==
  /\ Doing(a) = IdleCall /\ Outcome(a) = "none" /\ UNCHANGED <<Ranges, Outcome(a)>>
  /\ \E op \in TableOps, h \in Handles \cup {None} : Doing(a)' = [op |-> op, h |-> h]
TableAllocate(a) ==
  /\ Doing(a).op = "AllocateAddressRange" /\ Effect(a, "ok")
  /\ UNCHANGED Ranges \/ \E h \in Handles \ Ranges : Ranges' = Ranges \cup {h}
TableFree(a) ==
  /\ Doing(a).op = "FreeAddressRange" /\ Effect(a, "ok")
  /\ Doing(a).h \in Ranges /\ Ranges' = Ranges \ {Doing(a).h}
TableLookup(a) ==
  Doing(a).op \in Lookups /\ Doing(a).h \in Ranges /\ Effect(a, "ok") /\ UNCHANGED Ranges
TableFail(a) == Doing(a) # IdleCall /\ Effect(a, "failed") /\ UNCHANGED Ranges
TableOther(a) ==
  /\ Doing(a) = IdleCall /\ UNCHANGED Ranges
  /\ \E result \in {"ok", "failed"} : Effect(a, result)
TableAnswer(a) ==
  Outcome(a) # "none" /\ Outcome(a)' = "none" /\ UNCHANGED <<Ranges, Doing(a)>>

TableMove(a) ==
  \/ TableCall(a) \/ TableAllocate(a) \/ TableFree(a) \/ TableLookup(a)
  \/ TableFail(a) \/ TableOther(a) \/ TableAnswer(a)
  \/ UNCHANGED <<Ranges, Seen(a)>>

LEMMA OthersUnseen ==
  ASSUME NEW a \in Apps, Alone(a), NEW x \in Apps, x # a
  PROVE  UNCHANGED Seen(x)
BY DEF Alone, Seen, Doing, Outcome, Allocated, Freed

\* A move of one caller is a step of the table.
LEMMA MoveIsNext ==
  ASSUME NEW a \in Apps, TableMove(a), \A x \in Apps : x # a => UNCHANGED Seen(x)
  PROVE  [Table!Next]_(Table!vars)
<1> DEFINE D == [x \in Apps |-> Doing(x)]
           O == [x \in Apps |-> Outcome(x)]
<1>1. Table!vars = <<Ranges, D, O>> /\ Table!vars' = <<Ranges', D', O'>>
      BY DEF Table!vars, Doing, Outcome, Ranges, TableOps, Lookups, IdleCall
<1>2. /\ \A x \in Apps : D[x] = Doing(x) /\ O[x] = Outcome(x)
      /\ \A x \in Apps : D'[x] = Doing(x)' /\ O'[x] = Outcome(x)'
      OBVIOUS
<1>3. \A x \in Apps : x # a => D'[x] = D[x] /\ O'[x] = O[x]
      BY <1>2 DEF Seen
<1>4. /\ D' = [D EXCEPT ![a] = Doing(a)']
      /\ O' = [O EXCEPT ![a] = Outcome(a)']
      BY <1>2, <1>3
<1>5. /\ Doing(a)' = Doing(a) => D' = D
      /\ Outcome(a)' = Outcome(a) => O' = O
      BY <1>2, <1>3
<1> HIDE DEF D, O
<1>6. CASE TableCall(a)
  <2>1. PICK op \in TableOps, h \in Handles \cup {None} : Doing(a)' = [op |-> op, h |-> h]
        BY <1>6 DEF TableCall
  <2>2. D' = [D EXCEPT ![a] = [op |-> op, h |-> h]] /\ O' = O /\ Ranges' = Ranges
        BY <1>4, <1>5, <1>6, <2>1 DEF TableCall
  <2>3. D[a] = IdleCall /\ O[a] = "none"
        BY <1>2, <1>6 DEF TableCall
  <2> QED BY <2>2, <2>3
          DEF Table!Next, Table!Call, Table!Idle, Table!Lookups, IdleCall, TableOps, AddressOps,
              Lookups, D, O, Doing, Outcome, Ranges
<1>7. ASSUME NEW result \in {"ok", "failed"}, Effect(a, result)
      PROVE  Table!TakesEffect(a, result)
      BY <1>4, <1>7
      DEF Effect, Table!TakesEffect, Table!Idle, IdleCall, D, O, Doing, Outcome, TableOps, Lookups
<1>8. CASE TableAllocate(a)
      BY <1>2, <1>7, <1>8
      DEF TableAllocate, Table!Next, Table!Allocate, Table!Does, D, Doing, Ranges, TableOps,
          Lookups, IdleCall
<1>9. CASE TableFree(a)
      BY <1>2, <1>7, <1>9
      DEF TableFree, Table!Next, Table!Free, Table!Does, D, Doing, Ranges, TableOps, Lookups,
          IdleCall
<1>10. CASE TableLookup(a)
       BY <1>2, <1>7, <1>10
       DEF TableLookup, Table!Next, Table!Lookup, Table!Lookups, D, Doing, Ranges, TableOps,
           Lookups, IdleCall
<1>11. CASE TableFail(a)
       BY <1>2, <1>7, <1>11
       DEF TableFail, Table!Next, Table!Fail, Table!Idle, D, Doing, Ranges, TableOps, Lookups,
           IdleCall
<1>12. CASE TableOther(a)
  <2>1. PICK result \in {"ok", "failed"} : Effect(a, result)
        BY <1>12 DEF TableOther
  <2>2. O' = [O EXCEPT ![a] = result] /\ D' = D /\ Ranges' = Ranges
        BY <1>4, <1>5, <1>12, <2>1 DEF TableOther, Effect
  <2>3. D[a] = IdleCall
        BY <1>2, <1>12 DEF TableOther
  <2>4. Table!Other(a)
        BY <2>2, <2>3
        DEF Table!Other, Table!Idle, IdleCall, TableOps, Lookups, D, O, Doing, Outcome, Ranges
  <2> QED BY <2>4 DEF Table!Next
<1>13. CASE TableAnswer(a)
  <2>1. O' = [O EXCEPT ![a] = "none"] /\ D' = D /\ Ranges' = Ranges /\ O[a] # "none"
        BY <1>2, <1>4, <1>5, <1>13 DEF TableAnswer
  <2> QED BY <2>1
          DEF Table!Next, Table!Answer, IdleCall, TableOps, Lookups, D, O, Doing, Outcome, Ranges
<1>14. CASE UNCHANGED <<Ranges, Seen(a)>>
       BY <1>1, <1>5, <1>14 DEF Seen
<1> QED BY <1>6, <1>8, <1>9, <1>10, <1>11, <1>12, <1>13, <1>14 DEF TableMove

-----------------------------------------------------------------------------
(* Every step of the driver is a move of one caller, or of none.             *)

\* A step on behalf of a caller leaves the others' requests alone.
LEMMA ServeAlone ==
  ASSUME KmdfType, NEW a \in Apps, Serve(a)
  PROVE  Alone(a)
<1> USE DEF Alone, KmdfType, Moves, Completes, request, sent
<1>1. CASE AsyncRequest(a)
      BY <1>1
      DEF AsyncRequest, AllocateAddressRange, FreeAddressRange, GetAddressData, SetAddressData,
          FindsAddress, AsyncRead, AsyncWrite, AsyncLock, AsyncStream, Starts, Fails
<1>2. CASE IsochRequest(a)
      BY <1>2
      DEF IsochRequest, IsochAllocateBandwidth, IsochFreeBandwidth, IsochAllocateChannel,
          IsochFreeChannel, IsochAllocateResources, IsochFreeResources, IsochListen,
          IsochTalk, IsochStop, IsochQueryCurrentCycleTime, IsochQueryResources,
          IsochSetChannelBandwidth, IsochModifyStreamProperties, IsochAttachBuffers,
          IsochDetachBuffers, Forwards, Fails, SubmitIrpSynch
<1>3. CASE ApiRequest(a)
      BY <1>3
      DEF ApiRequest, GetLocalHostInformation, Get1394AddressFromDeviceObject,
          GetMaxSpeedBetweenDevices, SetDeviceXmitProperties, SendPhyConfigurationPacket,
          BusReset, GetGenerationCount, Control, GetConfigurationInformation, SetGapCount,
          AddCrom, RemoveCrom, BusResetNotification, BusResetNotify, Forwards, Fails,
          SubmitIrpSynch
<1>4. CASE NoInput(a) \/ SubmitIrpAsync(a)
      BY <1>4 DEF NoInput, SubmitIrpAsync, Fails
<1>5. CASE GoesOn(a)
      BY <1>5
      DEF GoesOn, AllocateAddressRangeCompletion, FreeAddressRangeAnswered,
          AsyncReadCompletion, AsyncWriteCompletion, AsyncLockCompletion,
          AsyncStreamCompletion, TransferCompletion, IsochAllocateResourcesAnswered,
          IsochFreeResourcesAnswered, AddCromAnswered, RemoveCromAnswered,
          BusResetNotificationAnswered, Released
<1>6. CASE BusAnswers(a)
      BY <1>6 DEF BusAnswers, BusServes, BusRefuses, BusGrants, BusRegisters, Answers
<1> QED BY <1>1, <1>2, <1>3, <1>4, <1>5, <1>6 DEF Serve, EvtIoDeviceControl

\* A call that is answered is seen as answered.
LEMMA CompletesEffect ==
  ASSUME KmdfType, NEW a \in Apps, NEW status, Completes(a, status)
  PROVE  Effect(a, status)
BY DEF Completes, KmdfType, Effect, Doing, Outcome, Allocated, Freed, NoCall, TableOps, AddressOps,
       Lookups, IdleCall

LEMMA CompletesMove ==
  ASSUME KmdfType, NEW a \in Apps, call[a].op \notin TableOps, Completed(a),
         bus'.addresses = bus.addresses
  PROVE  TableMove(a)
<1>1. PICK status \in {"ok", "failed"} : Completes(a, status)
      BY DEF Completed
<1>2. Doing(a) = IdleCall /\ UNCHANGED Ranges
      BY DEF Doing, Ranges
<1> QED BY <1>1, <1>2, CompletesEffect DEF TableMove, TableOther

\* A request of another operation that goes on is not seen.
LEMMA UnseenMove ==
  ASSUME NEW a \in Apps, call[a].op \notin TableOps, call'[a].op = call[a].op,
         st'[a] = st[a], bus'.addresses = bus.addresses
  PROVE  TableMove(a)
BY DEF TableMove, Seen, Doing, Outcome, Ranges, Allocated, Freed, TableOps, AddressOps

LEMMA RoutineMove ==
  ASSUME KmdfType, OriginalPacketHeld, LedgerInv, AnswerInv,
         NEW a \in Apps, EvtIoDeviceControl(a)
  PROVE  TableMove(a)
<1>1. at[a] = "driver" /\ irb[a] = "none" /\ st[a] = "none"
      BY DriverHasNoIrb DEF EvtIoDeviceControl, AnswerInv
<1>2. ~Allocated(a) /\ ~Freed(a)
      BY <1>1 DEF Allocated, Freed
<1>3. call[a].op \in TableOps => Doing(a) = [op |-> call[a].op, h |-> call[a].h] /\ Doing(a) # IdleCall
      BY <1>2 DEF Doing, IdleCall, TableOps, AddressOps, Lookups
<1>4. ASSUME Fails(a) PROVE TableMove(a)
  <2>1. Completed(a) /\ Completes(a, "failed") /\ UNCHANGED bus
        BY <1>1, <1>4 DEF Completed, Fails
  <2>2. CASE call[a].op \in TableOps
        BY <1>3, <2>1, <2>2, CompletesEffect DEF TableMove, TableFail, Ranges
  <2> QED BY <2>1, <2>2, CompletesMove
<1>5. CASE AllocateAddressRange(a)
  <2>1. CASE Moves(a, "sent") /\ irb' = [irb EXCEPT ![a] = "sent"] /\ UNCHANGED <<call, st, bus>>
        BY <1>2, <2>1
        DEF TableMove, Seen, Doing, Outcome, Ranges, Allocated, Freed, KmdfType
  <2>2. CASE Completes(a, "failed") /\ UNCHANGED bus
    <3>1. call[a].op \in TableOps
          BY <1>5 DEF AllocateAddressRange, Dispatched, TableOps, AddressOps
    <3> QED BY <1>3, <2>2, <3>1, CompletesEffect DEF TableMove, TableFail, Ranges
  <2> QED BY <1>4, <1>5, <2>1, <2>2 DEF AllocateAddressRange
<1>6. CASE FreeAddressRange(a)
  <2>1. CASE /\ UNCHANGED <<call, st, bus>>
             /\ \E answer \in {"sent", "refused"} : irb' = [irb EXCEPT ![a] = answer]
             /\ call[a].op = "FreeAddressRange"
        BY <1>2, <2>1
        DEF TableMove, Seen, Doing, Outcome, Ranges, Allocated, Freed, KmdfType
  <2> QED BY <1>4, <1>6, <2>1 DEF FreeAddressRange, Dispatched
<1>7. CASE GetAddressData(a) \/ SetAddressData(a)
  <2>1. /\ call[a].op \in Lookups /\ UNCHANGED bus
        /\ Completes(a, IF call[a].h \in HandlesOf(addresses) THEN "ok" ELSE "failed")
        BY <1>7 DEF GetAddressData, SetAddressData, FindsAddress, Dispatched, Lookups
  <2>2. call[a].h \in HandlesOf(addresses) => call[a].h \in Ranges
        BY DEF Ranges, HandlesOf, LedgerInv
  <2> QED BY <1>3, <2>1, <2>2, CompletesEffect
          DEF TableMove, TableLookup, TableFail, TableOps, Ranges
<1>8. CASE NoInput(a)
      BY <1>4, <1>8 DEF NoInput
<1>9. CASE OtherRoutine(a) /\ ~NoInput(a)
  <2>1. call[a].op \notin TableOps /\ UNCHANGED bus
        BY <1>9, OtherRoutines
  <2>2. CASE Completed(a)
        BY <2>1, <2>2, CompletesMove
  <2>3. CASE UNCHANGED <<call, st>>
        BY <2>1, <2>3, UnseenMove
  <2> QED BY <1>9, <2>2, <2>3, OtherRoutines DEF ToBus, ToSent, ToWaiting
<1> QED BY <1>5, <1>6, <1>7, <1>8, <1>9 DEF OtherRoutine

LEMMA BusMove ==
  ASSUME KmdfType, HoldingInv, AnswerInv, NEW a \in Apps, BusAnswers(a)
  PROVE  TableMove(a)
<1>1. at[a] \in {"bus", "sent"} /\ irb[a] = "sent" /\ st[a] = "none"
      BY DEF BusAnswers, BusServes, BusRefuses, BusGrants, BusRegisters, AtBus, AnswerInv
<1>2. ~Allocated(a) /\ ~Freed(a)
      BY <1>1 DEF Allocated, Freed
<1>3. CASE BusServes(a)
  <2>1. call[a].op \notin TableOps
        BY <1>3 DEF BusServes, LedgerOps, TableOps, AnswerInv
  <2> QED BY <1>1, <1>3, <2>1, CompletesMove DEF BusServes, Completed
<1>4. CASE BusRefuses(a)
      BY <1>2, <1>4
      DEF BusRefuses, Answers, TableMove, Seen, Doing, Outcome, Ranges, Allocated, Freed, KmdfType
<1>5. CASE BusRegisters(a)
  <2>1. call[a].op \notin TableOps /\ UNCHANGED <<call, st>>
        BY <1>5 DEF BusRegisters, Answers, NotificationOps, TableOps, AddressOps, Lookups
  <2>2. bus'.addresses = bus.addresses
        BY <1>5 DEF BusRegisters, Registers, KmdfType, BusType
  <2> QED BY <2>1, <2>2, UnseenMove
<1>6. CASE BusGrants(a)
  <2>1. PICK h \in Handles :
          /\ call' = [call EXCEPT ![a].h = h]
          /\ \/ call[a].op = "AllocateAddressRange" /\ AllocatesAddress(h, block[a])
             \/ call[a].op = "AddCrom" /\ AddsCrom(h, block[a])
             \/ call[a].op = "IsochAllocateResources" /\ AllocatesIsoch(h)
             \/ /\ h = call[a].h
                /\ \/ call[a].op = "FreeAddressRange" /\ FreesAddress(h)
                   \/ call[a].op = "RemoveCrom" /\ RemovesCrom(h)
                   \/ call[a].op = "IsochFreeResources" /\ FreesIsoch(h)
        BY <1>6 DEF BusGrants
  <2>2. /\ call'[a].op = call[a].op /\ UNCHANGED <<at, st>> /\ irb'[a] = "granted"
        BY <1>6, <2>1 DEF BusGrants, Answers, KmdfType
  <2>3. CASE call[a].op = "AllocateAddressRange" /\ AllocatesAddress(h, block[a])
    <3>1. at[a] = "sent"
          BY <1>1, <2>3 DEF AnswerInv
    <3>2. Allocated(a)'
          BY <2>2, <2>3, <3>1 DEF Allocated
    <3> DEFINE e == [h |-> h, buf |-> block[a]]
    <3>3. bus'.addresses = bus.addresses \cup {e} /\ h \notin Ranges
          BY <2>3 DEF AllocatesAddress, Ranges, KmdfType, BusType
    <3>4. e.h = h
          OBVIOUS
    <3> HIDE DEF e
    <3>5. Ranges' = Ranges \cup {h}
          BY <3>3, <3>4 DEF Ranges, HandlesOf
    <3>6. Effect(a, "ok")
          BY <3>2 DEF Effect, Doing, Outcome
    <3> QED BY <1>2, <2>3, <3>5, <3>6, <3>3 DEF TableMove, TableAllocate, Doing, TableOps, AddressOps
  <2>4. CASE h = call[a].h /\ call[a].op = "FreeAddressRange" /\ FreesAddress(h)
    <3>1. Freed(a)'
          BY <2>2, <2>4 DEF Freed
    <3>2. Ranges' = Ranges \ {h} /\ h \in Ranges
          BY <2>4 DEF FreesAddress, Ranges, HandlesOf, WithHandle, KmdfType, BusType
    <3>3. Effect(a, "ok")
          BY <3>1 DEF Effect, Doing, Outcome
    <3> QED BY <1>2, <2>4, <3>2, <3>3 DEF TableMove, TableFree, Doing, TableOps, AddressOps
  <2>5. CASE call[a].op \in CromOps \cup ResourceOps /\ bus'.addresses = bus.addresses
    <3>1. call[a].op \notin TableOps
          BY <2>5 DEF CromOps, ResourceOps, TableOps, AddressOps, Lookups
    <3> QED BY <2>2, <2>5, <3>1, UnseenMove
  <2> QED BY <2>1, <2>3, <2>4, <2>5
          DEF CromOps, ResourceOps, AddsCrom, AllocatesIsoch, RemovesCrom, FreesIsoch, KmdfType,
              BusType
<1> QED BY <1>3, <1>4, <1>5, <1>6 DEF BusAnswers

LEMMA GoesOnMove ==
  ASSUME KmdfType, OriginalPacketHeld, AnswerInv, NEW a \in Apps, GoesOn(a)
  PROVE  TableMove(a)
<1>1. at[a] \in {"bus", "sent"} /\ irb[a] # "none" /\ st[a] = "none"
      BY DEF GoesOn, OriginalPacketHeld, AnswerInv
<1>2. CASE AllocateAddressRangeCompletion(a)
  <2>1. /\ call[a].op = "AllocateAddressRange" /\ at[a] = "sent" /\ irb'[a] = "none"
        /\ UNCHANGED <<at, call, st, bus>>
        BY <1>2
        DEF AllocateAddressRangeCompletion, Resumes, Released, request, AnswerInv, KmdfType
  <2>2. Effect(a, "ok") /\ UNCHANGED Ranges
        BY <2>1 DEF Effect, Doing, Outcome, Allocated, Ranges
  <2>3. CASE irb[a] = "granted"
        BY <2>1, <2>2, <2>3
        DEF TableMove, Effect, Seen, Doing, Outcome, Allocated, Ranges
  <2>4. CASE irb[a] = "refused"
        BY <2>1, <2>2, <2>4
        DEF TableMove, TableAllocate, Doing, Allocated, Freed, TableOps, AddressOps
  <2> QED BY <1>2, <2>3, <2>4 DEF AllocateAddressRangeCompletion, Resumes
<1>3. CASE FreeAddressRangeAnswered(a)
  <2>1. call[a].op = "FreeAddressRange" /\ UNCHANGED Ranges
        BY <1>3 DEF FreeAddressRangeAnswered, Resumes, Ranges
  <2>2. CASE irb[a] = "granted" /\ Completes(a, "ok")
        BY <2>1, <2>2, CompletesEffect
        DEF TableMove, Effect, Seen, Doing, Outcome, Freed
  <2>3. CASE irb[a] = "refused" /\ Completes(a, "failed")
    <3>1. Doing(a) # IdleCall
          BY <2>1, <2>3 DEF Doing, Freed, Allocated, TableOps, AddressOps, IdleCall
    <3> QED BY <2>1, <2>3, <3>1, CompletesEffect DEF TableMove, TableFail
  <2> QED BY <1>3, <2>2, <2>3 DEF FreeAddressRangeAnswered, Resumes
<1>4. CASE ~AllocateAddressRangeCompletion(a) /\ ~FreeAddressRangeAnswered(a)
  <2>1. call[a].op \notin TableOps /\ UNCHANGED bus
        BY <1>4
        DEF GoesOn, AsyncReadCompletion, AsyncWriteCompletion, AsyncLockCompletion,
            AsyncStreamCompletion, TransferCompletion, IsochAllocateResourcesAnswered,
            IsochFreeResourcesAnswered, AddCromAnswered, RemoveCromAnswered,
            BusResetNotificationAnswered, Resumes, NotificationOps, TableOps, AddressOps, Lookups
  <2> QED BY <2>1, GoesOnAnswer, CompletesMove, UnseenMove DEF request
<1> QED BY <1>2, <1>3, <1>4

LEMMA SubmitMove ==
  ASSUME KmdfType, AnswerInv, InlineBus, NEW a \in Apps, SubmitIrpAsync(a)
  PROVE  TableMove(a)
<1>1. at[a] = "sent" /\ irb[a] = "none" /\ Completes(a, "ok") /\ UNCHANGED bus
      BY DEF SubmitIrpAsync
<1>2. CASE call[a].op = "AllocateAddressRange"
      BY <1>1, <1>2, CompletesEffect
      DEF TableMove, Effect, Seen, Doing, Outcome, Allocated, Ranges
<1>3. CASE call[a].op # "AllocateAddressRange"
  <2>1. call[a].op \notin TableOps
        BY <1>1, <1>3 DEF AnswerInv, TableOps, AddressOps
  <2> QED BY <1>1, <2>1, CompletesMove DEF Completed
<1> QED BY <1>2, <1>3

LEMMA CallerMove ==
  ASSUME KmdfType, OriginalPacketHeld, AnswerInv, NEW a \in Apps,
         DeviceIoControl(a) \/ CallRefused(a) \/ Returns(a)
  PROVE  TableMove(a) /\ Alone(a)
<1>1. CASE DeviceIoControl(a)
  <2>1. PICK op \in Ops, h \in Handles \cup {None} :
          call' = [call EXCEPT ![a] = [op |-> op, h |-> h, size |-> "fits"]]
        BY <1>1 DEF DeviceIoControl, Asks, HandlesFor
  <2>2. /\ at[a] = "app" /\ irb[a] = "none" /\ call[a] = NoCall /\ st[a] = "none"
        /\ at'[a] = "driver" /\ UNCHANGED <<irb, st, bus>>
        BY <1>1 DEF DeviceIoControl, Moves, sent, AnswerInv, KmdfType
  <2>3. ~Allocated(a) /\ ~Freed(a) /\ ~Allocated(a)' /\ ~Freed(a)'
        BY <2>2 DEF Allocated, Freed
  <2>4. Doing(a) = IdleCall /\ Outcome(a) = "none" /\ UNCHANGED <<Ranges, Outcome(a)>>
        BY <2>2, <2>3 DEF Doing, Outcome, Ranges, NoCall, TableOps, AddressOps, Lookups
  <2>5. Doing(a)' = IF op \in TableOps THEN [op |-> op, h |-> h] ELSE IdleCall
    <3>1. call'[a].op = op /\ call'[a].h = h
          BY <2>1 DEF KmdfType
    <3> QED BY <2>3, <3>1 DEF Doing
  <2>6. Alone(a)
        BY <2>1, <2>2, <1>1 DEF Alone, DeviceIoControl, Moves, KmdfType
  <2>7. CASE op \in TableOps
        BY <2>4, <2>5, <2>7, <2>6 DEF TableMove, TableCall
  <2>8. CASE op \notin TableOps
        BY <2>4, <2>5, <2>8, <2>6 DEF TableMove, Seen
  <2> QED BY <2>7, <2>8
<1>2. CASE CallRefused(a)
      BY <1>2
      DEF CallRefused, kmdfVars, request, sent, TableMove, Seen, Doing, Outcome, Ranges,
          Allocated, Freed, Alone
<1>3. CASE Returns(a)
  <2>1. /\ at[a] = "completed" /\ irb[a] = "none" /\ call[a] = NoCall /\ st[a] # "none"
        /\ at'[a] = "app" /\ st'[a] = "none" /\ UNCHANGED <<irb, call, bus>>
        BY <1>3, DriverHasNoIrb DEF Returns, Moves, sent, AnswerInv, KmdfType
  <2>2. TableAnswer(a)
        BY <2>1
        DEF TableAnswer, Doing, Outcome, Ranges, Allocated, Freed, NoCall, TableOps,
            AddressOps, Lookups
  <2>3. Alone(a)
        BY <1>3, <2>1 DEF Alone, Returns, Moves, KmdfType
  <2> QED BY <2>2, <2>3 DEF TableMove
<1> QED BY <1>1, <1>2, <1>3

\* The steps of nobody's request end at most a notification request.
LEMMA OthersMove ==
  ASSUME KmdfType, WaitingInv, OriginalPacketHeld, AnswerInv,
         \/ BusResetRoutine \/ BusResets \/ StartDevice \/ StopDevice \/ RemoveDevice
         \/ \E i : UpdateGenerationCount(i)
  PROVE  UNCHANGED Table!vars \/ \E a \in Apps : TableMove(a) /\ Alone(a)
<1>1. UNCHANGED irb /\ bus'.addresses = bus.addresses
      BY OthersAnswer DEF sent
<1>2. CASE UNCHANGED request
      BY <1>1, <1>2 DEF request, Table!vars, Allocated, Freed
<1>3. ASSUME NEW a \in Apps, at[a] = "waiting", Completed(a)
      PROVE  TableMove(a) /\ Alone(a)
  <2>1. call[a].op \notin TableOps
        BY <1>3 DEF AnswerInv, TableOps, AddressOps, Lookups
  <2>2. TableMove(a)
        BY <1>1, <1>3, <2>1, CompletesMove
  <2> QED BY <1>1, <1>3, <2>2 DEF Completed, Completes, Moves, Alone, KmdfType
<1> QED BY <1>2, <1>3, OthersAnswer

TableCore == AddressCore /\ AnswerInv

LEMMA TableInit ==
  ASSUME KmdfInit PROVE TableCore /\ Table!Init
<1>1. TableCore
      BY AddressInit DEF TableCore, AnswerInv, KmdfInit, NoCall
<1>2. Table!Init
      BY DEF KmdfInit, BusInit, HandlesOf, NoCall, AddressOps, Allocated, Freed, Table!Init, Table!Idle
<1> QED BY <1>1, <1>2

LEMMA TableStep ==
  ASSUME TableCore, InlineBus, [KmdfNext]_kmdfVars
  PROVE  TableCore' /\ [Table!Next]_(Table!vars)
<1>1. KmdfType /\ WaitingInv /\ OriginalPacketHeld /\ HoldingInv /\ LedgerInv /\ AnswerInv
      BY TypeInParts DEF TableCore, AddressCore, BlocksCore, FlightCore, FlightInv
<1>2. TableCore'
      BY <1>1, AddressStep, KmdfAnswer, AnswerKept DEF TableCore
<1>3. ASSUME NEW a \in Apps, TableMove(a), Alone(a)
      PROVE  [Table!Next]_(Table!vars)
      BY <1>3, MoveIsNext, OthersUnseen
<1>4. ASSUME NEW a \in Apps, Serve(a)
      PROVE  [Table!Next]_(Table!vars)
      BY <1>1, <1>3, <1>4, ServeAlone, RoutineMove, BusMove, GoesOnMove, SubmitMove DEF Serve
<1>5. ASSUME NEW a \in Apps, DeviceIoControl(a) \/ CallRefused(a) \/ Returns(a)
      PROVE  [Table!Next]_(Table!vars)
      BY <1>1, <1>3, <1>5, CallerMove
<1>6. CASE \/ BusResetRoutine \/ BusResets \/ StartDevice \/ StopDevice \/ RemoveDevice
           \/ \E i : UpdateGenerationCount(i)
  <2>1. UNCHANGED Table!vars \/ \E a \in Apps : TableMove(a) /\ Alone(a)
        BY <1>1, <1>6, OthersMove
  <2> QED BY <1>2, <1>3, <2>1
<1>7. CASE UNCHANGED kmdfVars
  <2>1. UNCHANGED Table!vars
        BY <1>7 DEF kmdfVars, request, sent, Table!vars, Allocated, Freed
  <2> QED BY <1>2, <2>1
<1> QED BY <1>2, <1>4, <1>5, <1>6, <1>7 DEF KmdfNext, BusResetRoutineWorkItem

(***************************************************************************)
(* The driver implements the table of address ranges: whatever the callers   *)
(* interleave and whatever memory or bus fails, each call to allocate, free, *)
(* read or write a range takes effect at one instant, a handle is handed out *)
(* to one allocation and taken back by one free, and a lookup answered "ok"  *)
(* saw a range that was there.                                               *)
(***************************************************************************)
THEOREM KmdfImplementsTable ==
  ASSUME InlineBus PROVE KmdfSpec => ImplementsTable
<1>1. KmdfInit => TableCore /\ Table!Init
      BY TableInit
<1>2. TableCore /\ [KmdfNext]_kmdfVars => TableCore' /\ [Table!Next]_(Table!vars)
      BY TableStep
<1> QED BY <1>1, <1>2, PTL DEF KmdfSpec, ImplementsTable, Table!Spec
==============================================================================
