------------------------- MODULE VirtualAsioProofs -------------------------
(***************************************************************************)
(* Theorems about VirtualAsio, for any number of event pairs and threads,   *)
(* whatever fails, however slow the threads are and whenever the host      *)
(* leaves, unless a theorem says otherwise.                                 *)
(***************************************************************************)
EXTENDS VirtualAsio, TLAPS

-----------------------------------------------------------------------------
(* Types.  A thread that waits has a pair to wait on.  The invariant is cut  *)
(* into the kernel's part, the object's and the threads', since most        *)
(* actions leave two of the three alone.                                    *)

WaitsOnPair == \A t \in Threads : tpc[t] = "wait" => tpair[t] \in Pairs

PoolType ==
  /\ tpc \in [Threads -> ThreadStages]
  /\ tpair \in [Threads -> Pairs \cup {Nil}]
  /\ WaitsOnPair

ObjectType ==
  /\ object \in BOOLEAN
  /\ hVASIODriver \in BOOLEAN
  /\ callbacks \in BOOLEAN
  /\ started \in BOOLEAN
  /\ bCloseEvent \in BOOLEAN
  /\ hSyncEvent \in Pairs \cup {Nil}
  /\ hASIOThread \in Threads \cup {Nil}
  /\ handles \in SUBSET Pairs
  /\ hpc \in HostStages
  /\ disposing \in BOOLEAN

TypeInv == AsioTypeOK /\ WaitsOnPair

LEMMA TypeParts == TypeInv <=> KernelType /\ ObjectType /\ PoolType
BY DEF TypeInv, AsioTypeOK, UserType, ObjectType, PoolType

LEMMA TypePartsNext == TypeInv' <=> KernelType' /\ ObjectType' /\ PoolType'
BY DEF TypeInv, AsioTypeOK, UserType, ObjectType, PoolType

LEMMA TypeInit == Init => TypeInv
<1> SUFFICES ASSUME Init PROVE TypeInv
    OBVIOUS
<1>1. KernelType
      BY DEF Init, KernelInit, KernelType, Halves
<1>2. ObjectType
  <2>1. /\ {object, hVASIODriver, callbacks, started, bCloseEvent} \subseteq BOOLEAN
        /\ disposing \in BOOLEAN
        BY Zenon DEF Init
  <2>2. hpc \in HostStages /\ handles \in SUBSET Pairs
        BY DEF Init, HostStages
  <2>3. hSyncEvent \in Pairs \cup {Nil} /\ hASIOThread \in Threads \cup {Nil}
        BY DEF Init
  <2> QED BY <2>1, <2>2, <2>3 DEF ObjectType
<1>3. PoolType
      BY DEF Init, PoolType, WaitsOnPair, ThreadStages, Halves
<1> QED BY <1>1, <1>2, <1>3, TypeParts

LEMMA KernelKept ==
  ASSUME KernelType, UNCHANGED <<kernel, signalled, fault>>
  PROVE  KernelType'
BY DEF KernelType, kernel, stream

LEMMA ObjectKept ==
  ASSUME ObjectType, UNCHANGED <<flags, sync, host>>
  PROVE  ObjectType'
BY DEF ObjectType, flags, sync, host

LEMMA PoolKept ==
  ASSUME PoolType, UNCHANGED pool
  PROVE  PoolType'
BY DEF PoolType, WaitsOnPair, pool

LEMMA TypeStutter ==
  ASSUME TypeInv, UNCHANGED vars
  PROVE  TypeInv'
BY TypeParts, TypePartsNext, KernelKept, ObjectKept, PoolKept DEF vars, user

\* A step of the timer, its DPC or the loader.
LEMMA TypeKernel ==
  ASSUME TypeInv, Kernel
  PROVE  TypeInv'
<1>1. UserType' /\ WaitsOnPair'
      BY DEF Kernel, TypeInv, AsioTypeOK, UserType, WaitsOnPair, user, flags, sync, host, pool
<1> SUFFICES KernelType'
    BY <1>1 DEF TypeInv, AsioTypeOK
<1> USE DEF TypeInv, AsioTypeOK, KernelType
<1>2. CASE Expire
      BY <1>2 DEF Expire, stream, TakeStopEvent, Halves
<1>3. CASE Tick
      BY <1>3 DEF Tick, stream, TakeStopEvent, Halves
<1>4. CASE Rearm
      BY <1>4 DEF Rearm, stream, TakeStopEvent, Halves
<1>5. CASE Acknowledge
      BY <1>5 DEF Acknowledge, stream, TakeStopEvent, Halves
<1>6. CASE FinishUnload
      BY <1>6 DEF FinishUnload, stream, TakeStopEvent, Halves
<1>7. CASE DriverEntry
      BY <1>7 DEF DriverEntry, stream, TakeStopEvent, Halves
<1>8. CASE DrvUnload(~hVASIODriver)
      BY <1>8 DEF DrvUnload, StopDPC
<1> QED BY <1>2, <1>3, <1>4, <1>5, <1>6, <1>7, <1>8 DEF Kernel, Dpc

\* A step of the host's thread.
LEMMA TypeHost ==
  ASSUME TypeInv, HostCall \/ HostStep
  PROVE  TypeInv'
<1>1. KernelType /\ ObjectType /\ PoolType
      BY TypeParts
<1> SUFFICES KernelType' /\ ObjectType' /\ PoolType'
    BY TypePartsNext
<1>2. CASE Construct
  <2>1. KernelType'
        BY <1>1, <1>2, KernelKept DEF Construct, NoKernelChange
  <2>2. ObjectType'
    <3>1. /\ {object', hVASIODriver', callbacks', started', bCloseEvent'} \subseteq BOOLEAN
          /\ disposing' = disposing
          BY <1>2, Zenon DEF Construct
    <3>2. hpc' = hpc /\ handles' = handles
          BY <1>2 DEF Construct
    <3>3. hSyncEvent' \in Pairs \cup {Nil} /\ hASIOThread' \in Threads \cup {Nil}
          BY <1>2 DEF Construct
    <3> QED BY <1>1, <3>1, <3>2, <3>3 DEF ObjectType
  <2>3. PoolType'
        BY <1>1, <1>2, PoolKept DEF Construct
  <2> QED BY <2>1, <2>2, <2>3
<1>3. CASE OpenDevice
  <2>1. KernelType'
        BY <1>1, <1>3, KernelKept DEF OpenDevice, NoKernelChange
  <2>2. ObjectType'
        BY <1>1, <1>3 DEF ObjectType, HostStages, OpenDevice, Goto, flags, sync, host
  <2>3. PoolType'
        BY <1>1, <1>3, PoolKept DEF OpenDevice
  <2> QED BY <2>1, <2>2, <2>3
<1>4. CASE CreateBuffers
  <2>1. KernelType'
        BY <1>1, <1>4, KernelKept DEF CreateBuffers, NoKernelChange
  <2>2. ObjectType'
        BY <1>1, <1>4 DEF ObjectType, HostStages, CreateBuffers, Goto, flags, sync, host
  <2>3. PoolType'
        BY <1>1, <1>4, PoolKept DEF CreateBuffers
  <2> QED BY <2>1, <2>2, <2>3
<1>5. CASE SetBuffers
  <2>1. KernelType'
        BY <1>1, <1>5 DEF KernelType, ObjectType, SetBuffers, kernel, stream, AsioSetBuffers
  <2>2. ObjectType'
        BY <1>1, <1>5 DEF ObjectType, HostStages, SetBuffers, Goto, flags, sync, host, AsioSetBuffers
  <2>3. PoolType'
        BY <1>1, <1>5, PoolKept DEF SetBuffers
  <2> QED BY <2>1, <2>2, <2>3
<1>6. CASE DisposeBuffers
  <2>1. KernelType'
        BY <1>1, <1>6, KernelKept DEF DisposeBuffers, NoKernelChange
  <2>2. ObjectType'
        BY <1>1, <1>6 DEF ObjectType, HostStages, DisposeBuffers, Goto, flags, sync, host
  <2>3. PoolType'
        BY <1>1, <1>6, PoolKept DEF DisposeBuffers
  <2> QED BY <2>1, <2>2, <2>3
<1>7. CASE Destroy
  <2>1. KernelType'
        BY <1>1, <1>7, KernelKept DEF Destroy, NoKernelChange
  <2>2. ObjectType'
        BY <1>1, <1>7 DEF ObjectType, HostStages, Destroy, Goto, flags, sync, host
  <2>3. PoolType'
        BY <1>1, <1>7, PoolKept DEF Destroy
  <2> QED BY <2>1, <2>2, <2>3
<1>8. CASE FinishDestroy
  <2>1. KernelType'
        BY <1>1, <1>8, KernelKept DEF FinishDestroy, NoKernelChange
  <2>2. ObjectType'
        BY <1>1, <1>8 DEF ObjectType, HostStages, FinishDestroy, Goto, flags, sync, host
  <2>3. PoolType'
        BY <1>1, <1>8, PoolKept DEF FinishDestroy
  <2> QED BY <2>1, <2>2, <2>3
<1>9. CASE Start
  <2>1. KernelType'
        BY <1>1, <1>9 DEF KernelType, ObjectType, Start, kernel, stream, Unused
  <2>2. ObjectType'
    <3>1. /\ {started', bCloseEvent'} \subseteq BOOLEAN
          /\ UNCHANGED <<object, hVASIODriver, callbacks, disposing, hASIOThread>>
          BY <1>9, Zenon DEF Start, Goto
    <3>2. hpc' \in HostStages
          BY <1>1, <1>9 DEF Start, Goto, ObjectType, HostStages
    <3>3. hSyncEvent' \in Pairs \cup {Nil} /\ handles' \in SUBSET Pairs
          BY <1>1, <1>9 DEF Start, Unused, ObjectType
    <3> QED BY <1>1, <3>1, <3>2, <3>3 DEF ObjectType
  <2>3. PoolType'
        BY <1>1, <1>9, PoolKept DEF Start
  <2> QED BY <2>1, <2>2, <2>3
<1>10. CASE SetEvents
  <2>1. KernelType'
        BY <1>1, <1>10 DEF KernelType, ObjectType, SetEvents, kernel, stream, AsioSetEvent
  <2>2. ObjectType'
        BY <1>1, <1>10 DEF ObjectType, HostStages, SetEvents, Goto, flags, sync, host, AsioSetEvent
  <2>3. PoolType'
        BY <1>1, <1>10 DEF PoolType, WaitsOnPair, ThreadStages, SetEvents
  <2> QED BY <2>1, <2>2, <2>3
<1>11. CASE StartStream
  <2>1. KernelType'
        BY <1>1, <1>11 DEF KernelType, ObjectType, StartStream, kernel, stream, StartDPC
  <2>2. ObjectType'
        BY <1>1, <1>11 DEF ObjectType, HostStages, StartStream, Goto, flags, sync, host, StartDPC
  <2>3. PoolType'
        BY <1>1, <1>11, PoolKept DEF StartStream
  <2> QED BY <2>1, <2>2, <2>3
<1>12. CASE SetStarted
  <2>1. KernelType'
        BY <1>1, <1>12, KernelKept DEF SetStarted, NoKernelChange
  <2>2. ObjectType'
        BY <1>1, <1>12 DEF ObjectType, HostStages, SetStarted, Goto, flags, sync, host
  <2>3. PoolType'
        BY <1>1, <1>12, PoolKept DEF SetStarted
  <2> QED BY <2>1, <2>2, <2>3
<1>13. CASE Stop
  <2>1. KernelType'
        BY <1>1, <1>13, KernelKept DEF Stop, NoKernelChange
  <2>2. ObjectType'
        BY <1>1, <1>13 DEF ObjectType, HostStages, Stop, Goto, flags, sync, host
  <2>3. PoolType'
        BY <1>1, <1>13, PoolKept DEF Stop
  <2> QED BY <2>1, <2>2, <2>3
<1>14. CASE StopStream
  <2>1. KernelType'
        BY <1>1, <1>14 DEF KernelType, ObjectType, StopStream, kernel, stream, StopDPC
  <2>2. ObjectType'
        BY <1>1, <1>14 DEF ObjectType, HostStages, StopStream, Goto, flags, sync, host, StopDPC
  <2>3. PoolType'
        BY <1>1, <1>14, PoolKept DEF StopStream
  <2> QED BY <2>1, <2>2, <2>3
<1>15. CASE StreamStopped
  <2>1. KernelType'
        BY <1>1, <1>15 DEF KernelType, ObjectType, StreamStopped, kernel, stream, TakeStopEvent
  <2>2. ObjectType'
        BY <1>1, <1>15 DEF ObjectType, HostStages, StreamStopped, Goto, flags, sync, host, TakeStopEvent
  <2>3. PoolType'
        BY <1>1, <1>15, PoolKept DEF StreamStopped
  <2> QED BY <2>1, <2>2, <2>3
<1>16. CASE ReleaseEvents
  <2>1. KernelType'
        BY <1>1, <1>16 DEF KernelType, ObjectType, ReleaseEvents, kernel, stream, AsioReleaseEvent
  <2>2. ObjectType'
        BY <1>1, <1>16 DEF ObjectType, HostStages, ReleaseEvents, Goto, flags, sync, host, AsioReleaseEvent, AfterStop
  <2>3. PoolType'
        BY <1>1, <1>16, PoolKept DEF ReleaseEvents
  <2> QED BY <2>1, <2>2, <2>3
<1>17. CASE Join
  <2>1. KernelType'
        BY <1>1, <1>17, KernelKept DEF Join, NoKernelChange
  <2>2. ObjectType'
        BY <1>1, <1>17 DEF ObjectType, HostStages, Join, Goto, flags, sync, host, AfterStop
  <2>3. PoolType'
        BY <1>1, <1>17, PoolKept DEF Join
  <2> QED BY <2>1, <2>2, <2>3
<1>18. CASE ReleaseBuffers
  <2>1. KernelType'
        BY <1>1, <1>18 DEF KernelType, ObjectType, ReleaseBuffers, kernel, stream, AsioReleaseBuffers
  <2>2. ObjectType'
        BY <1>1, <1>18 DEF ObjectType, HostStages, ReleaseBuffers, Goto, flags, sync, host, AsioReleaseBuffers
  <2>3. PoolType'
        BY <1>1, <1>18, PoolKept DEF ReleaseBuffers
  <2> QED BY <2>1, <2>2, <2>3
<1> QED BY <1>2, <1>3, <1>4, <1>5, <1>6, <1>7, <1>8, <1>9, <1>10, <1>11, <1>12, <1>13, <1>14, <1>15, <1>16, <1>17, <1>18 DEF HostCall, HostStep

\* A step of an ASIOThread.
LEMMA TypeThread ==
  ASSUME TypeInv, NEW t \in Threads, Thread(t)
  PROVE  TypeInv'
<1> USE DEF TypeInv, AsioTypeOK, KernelType, UserType, WaitsOnPair, kernel, stream,
            flags, sync, host, ThreadAt, Step, ThreadStages, Halves
<1>1. CASE Loop(t)
      BY <1>1 DEF Loop
<1>2. CASE Wake(t)
      BY <1>2 DEF Wake
<1>3. CASE CheckStarted(t)
      BY <1>3 DEF CheckStarted
<1>4. CASE CallHost(t)
      BY <1>4 DEF CallHost
<1>5. CASE HostReturns(t)
      BY <1>5 DEF HostReturns
<1>6. CASE Output(t)
      BY <1>6 DEF Output
<1>7. CASE CopyDone(t)
      BY <1>7 DEF CopyDone
<1>8. CASE Dangling(t)
      BY <1>8 DEF Dangling, NoKernelChange, user, pool
<1> QED BY <1>1, <1>2, <1>3, <1>4, <1>5, <1>6, <1>7, <1>8 DEF Thread

\* Every variable keeps its type: the fields of the object, the driver's
\* extension and the position of every thread (VirtualAsio!AsioTypeOK).
THEOREM AsioTypes == Spec => []AsioTypeOK
<1>1. TypeInv /\ [Next]_vars => TypeInv'
      BY TypeStutter, TypeKernel, TypeHost, TypeThread DEF Next
<1>2. TypeInv => AsioTypeOK
      BY DEF TypeInv
<1> QED BY TypeInit, <1>1, <1>2, PTL DEF Spec

-----------------------------------------------------------------------------
(* The handshake of StopDPC.  StopHandshake is not inductive alone: that the *)
(* DPC finds an event needs to know how far the host's thread has got, and  *)
(* that nobody else stops the driver meanwhile.                             *)

HookInv ==
  \* The timer runs only for an event the driver holds.
  /\ hEvent = Nil => bStoppingDPC /\ ~Active
  /\ dpc # "idle" => timer = "idle"
  /\ dpc = "ack" => bStoppingDPC
  /\ ~bStoppingDPC => Active
  \* The host's thread hooks and unhooks the events while the kernel is quiet.
  /\ hpc = "starting" => hEvent # Nil /\ bStoppingDPC /\ ~Active
  /\ hpc = "unhook" => bStoppingDPC /\ ~Active
  \* It is in the driver only through a handle, which keeps the driver loaded.
  /\ hpc \notin {"idle", "leaving", "dispose"} => hVASIODriver
  /\ hVASIODriver => driver = "loaded"
  /\ ~object => hpc = "idle"

IInv == StopHandshake /\ HookInv /\ SignalsOnlyHeldEvents

LEMMA InvInit == Init => IInv
BY DEF Init, KernelInit, IInv, StopHandshake, HookInv, SignalsOnlyHeldEvents, Active, Waiting

\* What IInv depends on, and no more.
LEMMA InvKept ==
  ASSUME IInv,
         UNCHANGED <<driver, hEvent, stream, StopDPCEvent, object, hVASIODriver, hpc>>,
         fault' # "NullEvent"
  PROVE  IInv'
BY DEF IInv, StopHandshake, HookInv, SignalsOnlyHeldEvents, Active, Waiting, stream

\* A step of the timer, its DPC or the loader.
LEMMA InvKernel ==
  ASSUME TypeInv, IInv, Kernel
  PROVE  IInv'
<1>1. UNCHANGED <<object, hVASIODriver, hpc>>
      BY DEF Kernel, user, host
<1>2. /\ {bStoppingDPC, StopDPCEvent, hVASIODriver} \subseteq BOOLEAN
      /\ timer \in {"idle", "armed"}
      BY DEF TypeInv, AsioTypeOK, KernelType, UserType
<1> USE <1>1, <1>2 DEF IInv, StopHandshake, HookInv, SignalsOnlyHeldEvents, Active, Waiting, Sound
<1>3. CASE Expire
      BY <1>3 DEF Expire
<1>4. CASE Tick
      BY <1>4 DEF Tick
<1>5. CASE Rearm
      BY <1>5 DEF Rearm
<1>6. CASE Acknowledge
      BY <1>6 DEF Acknowledge
<1>7. CASE DrvUnload(~hVASIODriver)
      BY <1>7 DEF DrvUnload, StopDPC
<1>8. CASE FinishUnload
      BY <1>8 DEF FinishUnload, TakeStopEvent, stream
<1>9. CASE DriverEntry
      BY <1>9 DEF DriverEntry
<1> QED BY <1>3, <1>4, <1>5, <1>6, <1>7, <1>8, <1>9 DEF Kernel, Dpc

\* A step of the host's thread.
LEMMA InvHost ==
  ASSUME TypeInv, IInv, HostCall \/ HostStep
  PROVE  IInv'
<1>1. /\ {bStoppingDPC, StopDPCEvent, object, hVASIODriver} \subseteq BOOLEAN
      /\ timer \in {"idle", "armed"}
      BY DEF TypeInv, AsioTypeOK, KernelType, UserType
<1> USE <1>1 DEF IInv, StopHandshake, HookInv, SignalsOnlyHeldEvents, Active, Waiting,
                 At, Sound, Goto, NoKernelChange, kernel, stream, flags, sync
<1>2. CASE Construct
      BY <1>2 DEF Construct
<1>3. CASE OpenDevice
      BY <1>3 DEF OpenDevice
<1>4. CASE CreateBuffers
      BY <1>4 DEF CreateBuffers
<1>5. CASE SetBuffers
      BY <1>5 DEF SetBuffers
<1>6. CASE DisposeBuffers
      BY <1>6 DEF DisposeBuffers
<1>7. CASE Destroy
      BY <1>7 DEF Destroy
<1>8. CASE FinishDestroy
      BY <1>8 DEF FinishDestroy
<1>9. CASE Start
      BY <1>9 DEF Start
<1>10. CASE SetEvents
  <2>1. /\ hpc = "events"
        /\ UNCHANGED <<driver, bStoppingDPC, StopDPCEvent, timer, dpc, object, hVASIODriver, fault>>
        BY <1>10 DEF SetEvents
  <2>2. \/ hpc' = "idle" /\ hEvent' = hEvent
        \/ hpc' = "starting" /\ hEvent = Nil /\ hEvent' # Nil
        BY <1>10 DEF SetEvents, AsioSetEvent
  <2> QED BY <2>1, <2>2
<1>11. CASE StartStream
      BY <1>11 DEF StartStream, StartDPC
<1>12. CASE SetStarted
      BY <1>12 DEF SetStarted
<1>13. CASE Stop
      BY <1>13 DEF Stop
<1>14. CASE StopStream
      BY <1>14 DEF StopStream, StopDPC
<1>15. CASE StreamStopped
      BY <1>15 DEF StreamStopped, TakeStopEvent
<1>16. CASE ReleaseEvents
      BY <1>16 DEF ReleaseEvents, AsioReleaseEvent, AfterStop
<1>17. CASE Join
      BY <1>17 DEF Join, AfterStop
<1>18. CASE ReleaseBuffers
      BY <1>18 DEF ReleaseBuffers
<1> QED BY <1>2, <1>3, <1>4, <1>5, <1>6, <1>7, <1>8, <1>9, <1>10, <1>11, <1>12, <1>13, <1>14, <1>15, <1>16, <1>17, <1>18 DEF HostCall, HostStep

\* An ASIOThread leaves the driver and the host's thread alone, and the faults
\* it can meet are others.
LEMMA InvThread ==
  ASSUME IInv, NEW t \in Threads, Thread(t)
  PROVE  IInv'
<1>1. UNCHANGED <<kernel, object, hVASIODriver, hpc>>
  <2>1. CASE Dangling(t)
        BY <2>1 DEF Dangling, NoKernelChange, user, host
  <2>2. CASE ~Dangling(t)
        BY <2>2 DEF Thread, Loop, Wake, CheckStarted, CallHost, HostReturns, Output,
                    CopyDone, ThreadAt, host
  <2> QED BY <2>1, <2>2
<1>2. fault' # "NullEvent"
      BY DEF Thread, Loop, Wake, CheckStarted, CallHost, HostReturns, Output,
             CopyDone, Dangling, ThreadAt, Sound
<1> QED BY <1>1, <1>2, InvKept DEF kernel

LEMMA InvHolds == Spec => []IInv
<1>1. TypeInv /\ IInv /\ [Next]_vars => IInv'
  <2>1. CASE UNCHANGED vars
        BY <2>1, InvKept DEF vars, kernel, user, host, IInv, SignalsOnlyHeldEvents
  <2> QED BY <2>1, InvKernel, InvHost, InvThread DEF Next
<1>2. TypeInv /\ [Next]_vars => TypeInv'
      BY TypeStutter, TypeKernel, TypeHost, TypeThread DEF Next
<1> QED BY TypeInit, InvInit, <1>1, <1>2, PTL DEF Spec

\* StopDPC's flag and event fit the timer and its DPC at every moment: nobody
\* waits in vain and no event is left over for a later wait (ASIO.c, TimerDpc and
\* StopDPC), however many pairs and threads there are and whatever fails.
THEOREM StopIsAHandshake == Spec => []StopHandshake
BY InvHolds, PTL DEF IInv

\* TimerDpc never passes KeSetEvent a null event: the events are hooked before
\* the timer starts and released after it has stopped (ASIO.c, TimerDpc).
THEOREM NoMissingEvent == Spec => []SignalsOnlyHeldEvents
BY InvHolds, PTL DEF IInv

-----------------------------------------------------------------------------
(* What the kernel keeps for a host without buffers.  The callback table goes *)
(* first and the locked pages last, with a whole stop() in between, so the   *)
(* invariant says for each stage of the host's thread what is left to do.   *)

Quiet == mdl = {} /\ bStoppingDPC

QuietInv ==
  \* Nobody to give the buffers back: there are none.
  /\ ~object => Quiet
  /\ ~hVASIODriver => Quiet
  /\ hpc \in {"idle", "leaving"} /\ ~callbacks => Quiet
  /\ hpc = "leaving" => ~callbacks
  \* createBuffers() and start() go on only with a table.
  /\ hpc \in {"lock", "events", "starting", "started"} => callbacks
  \* A stop() that is part of disposeBuffers() has the buffers before it.
  /\ hpc \in {"dispose", "unlock"} => ~callbacks
  /\ hpc \in {"stop", "stopWait", "unhook", "join"} =>
       /\ disposing => ~callbacks
       /\ ~callbacks => disposing \/ Quiet
  /\ hpc \in {"join", "unlock"} => bStoppingDPC

LEMMA QuietInit == Init => QuietInv
BY DEF Init, KernelInit, QuietInv, Quiet

\* What QuietInv depends on, and no more.
LEMMA QuietKept ==
  ASSUME QuietInv,
         UNCHANGED <<mdl, bStoppingDPC, object, hVASIODriver, hpc, callbacks, disposing>>
  PROVE  QuietInv'
BY DEF QuietInv, Quiet

\* A step of the timer, its DPC or the loader stops the stream or leaves it.
LEMMA QuietKernel ==
  ASSUME TypeInv, QuietInv, Kernel
  PROVE  QuietInv'
<1>1. UNCHANGED <<object, hVASIODriver, hpc, callbacks, disposing>>
      BY DEF Kernel, user, host, flags
<1>2. \/ UNCHANGED <<mdl, bStoppingDPC>>
      \/ bStoppingDPC' = TRUE /\ (mdl' = mdl \/ mdl' = {})
      BY DEF Kernel, Expire, Tick, Rearm, Acknowledge, DrvUnload, StopDPC,
             FinishUnload, DriverEntry, stream
<1> QED BY <1>1, <1>2 DEF QuietInv, Quiet

\* A step of the host's thread.
LEMMA QuietHost ==
  ASSUME ~ReleaseRunning, TypeInv, IInv, QuietInv, HostCall \/ HostStep
  PROVE  QuietInv'
<1>1. /\ {bStoppingDPC, object, hVASIODriver, callbacks, disposing} \subseteq BOOLEAN
      /\ hpc = "unhook" => bStoppingDPC
      /\ hpc \notin {"idle", "leaving", "dispose"} => hVASIODriver
      /\ ~object => hpc = "idle"
      BY DEF TypeInv, AsioTypeOK, KernelType, UserType, IInv, HookInv
<1> USE <1>1 DEF QuietInv, Quiet,
                 At, Sound, Goto, NoKernelChange, kernel, stream, flags, sync, pool
<1>2. CASE Construct
      BY <1>2 DEF Construct
<1>3. CASE OpenDevice
      BY <1>3 DEF OpenDevice
<1>4. CASE CreateBuffers
      BY <1>4 DEF CreateBuffers
<1>5. CASE SetBuffers
  <2>1. /\ hpc = "lock"
        /\ UNCHANGED <<bStoppingDPC, object, hVASIODriver, disposing>>
        BY <1>5 DEF SetBuffers
  <2>2. \/ hpc' = "idle" /\ callbacks' = callbacks
        \/ hpc' = "dispose" /\ ~callbacks'
        BY <1>5 DEF SetBuffers
  <2> QED BY <2>1, <2>2
<1>6. CASE DisposeBuffers
      BY <1>6 DEF DisposeBuffers
<1>7. CASE Destroy
      BY <1>7 DEF Destroy
<1>8. CASE FinishDestroy
      BY <1>8 DEF FinishDestroy
<1>9. CASE Start
      BY <1>9 DEF Start
<1>10. CASE SetEvents
  <2>1. UNCHANGED <<mdl, bStoppingDPC, object, hVASIODriver, callbacks, disposing>>
        BY <1>10 DEF SetEvents
  <2>2. hpc = "events" /\ hpc' \in {"idle", "starting"}
        BY <1>10 DEF SetEvents
  <2> QED BY <2>1, <2>2
<1>11. CASE StartStream
      BY <1>11 DEF StartStream, StartDPC
<1>12. CASE SetStarted
      BY <1>12 DEF SetStarted
<1>13. CASE Stop
      BY <1>13 DEF Stop
<1>14. CASE StopStream
      BY <1>14 DEF StopStream, StopDPC
<1>15. CASE StreamStopped
      BY <1>15 DEF StreamStopped
<1>16. CASE ReleaseEvents
  <2>1. UNCHANGED <<mdl, bStoppingDPC, object, hVASIODriver, callbacks, disposing>>
        BY <1>16 DEF ReleaseEvents
  <2>2. hpc = "unhook" /\ hpc' \in {"join", AfterStop}
        BY <1>16 DEF ReleaseEvents
  <2> QED BY <2>1, <2>2 DEF AfterStop
<1>17. CASE Join
      BY <1>17 DEF Join, AfterStop
<1>18. CASE ReleaseBuffers
      BY <1>18 DEF ReleaseBuffers, AsioReleaseBuffers
<1> QED BY <1>2, <1>3, <1>4, <1>5, <1>6, <1>7, <1>8, <1>9, <1>10, <1>11, <1>12, <1>13, <1>14, <1>15, <1>16, <1>17, <1>18 DEF HostCall, HostStep

\* An ASIOThread leaves the driver, the object and its table alone.
LEMMA ThreadLeaves ==
  ASSUME NEW t \in Threads, Thread(t)
  PROVE  UNCHANGED <<kernel, flags, sync, host>>
<1>1. CASE Dangling(t)
      BY <1>1 DEF Dangling, NoKernelChange, user
<1>2. CASE ~Dangling(t)
      BY <1>2 DEF Thread, Loop, Wake, CheckStarted, CallHost, HostReturns, Output,
                  CopyDone, ThreadAt
<1> QED BY <1>1, <1>2

LEMMA QuietThread ==
  ASSUME QuietInv, NEW t \in Threads, Thread(t)
  PROVE  QuietInv'
BY ThreadLeaves, QuietKept DEF kernel, stream, flags, host

\* A host that has disposed of its buffers, or could not create them, leaves the
\* kernel with no page locked and no timer (asiosmpl.cpp, createBuffers and
\* disposeBuffers; ASIO.c, AsioSetBuffers), whatever failed on the way and
\* however slow the threads are.  The host of the theorem calls
\* disposeBuffers() before it lets the object go: without that the destructor
\* leaves both behind (ExitStops).
THEOREM DisposedIsQuiet ==
  ASSUME ~ReleaseRunning
  PROVE  Spec => []DisposedMeansQuiet
<1>1. TypeInv /\ IInv /\ QuietInv /\ [Next]_vars => QuietInv'
  <2>1. CASE UNCHANGED vars
        BY <2>1, QuietKept DEF vars, kernel, stream, user, flags, host
  <2> QED BY <2>1, QuietKernel, QuietHost, QuietThread DEF Next
<1>2. TypeInv /\ [Next]_vars => TypeInv'
      BY TypeStutter, TypeKernel, TypeHost, TypeThread DEF Next
<1>3. QuietInv => DisposedMeansQuiet
      BY DEF QuietInv, DisposedMeansQuiet, Quiet
<1> QED BY TypeInit, InvHolds, QuietInit, <1>1, <1>2, <1>3, PTL DEF Spec

-----------------------------------------------------------------------------
(* After stop().  Only one thread of the object can ever call the host: the  *)
(* last one start() made.  Another that is left waits for a pair nobody      *)
(* signals, because a second start() replaced the object's pair under it     *)
(* and the kernel kept the first.                                            *)

Orphan(t) ==
  /\ tpc[t] = "wait"
  /\ tpair[t] \notin {hEvent, hSyncEvent}
  /\ signalled[tpair[t]] = {}

Harmless(t) == tpc[t] = "none" \/ Orphan(t)
Settled == \A t \in Threads : Harmless(t)

\* The stages of stop() in which its thread may still be on its way out.
Stopping == hpc \in {"stop", "stopWait", "unhook", "join", "leaving"}

\* With an object only the thread of hASIOThread runs, and it has a pair.
OneRuns == object => \A t \in Threads :
             Harmless(t) \/ (t = hASIOThread /\ hSyncEvent # Nil)

\* None runs where the driver has no pair, no handle is open, or stop() is over.
NoneRuns ==
  object =>
    /\ hEvent = Nil /\ hpc \notin {"join", "leaving"} => Settled
    /\ ~hVASIODriver /\ hpc # "leaving" => Settled
    /\ bCloseEvent /\ ~Stopping => Settled

StageInv ==
  object =>
    /\ hpc \in {"events", "starting", "started"} => ~bCloseEvent
    /\ hpc = "join" => hEvent = Nil /\ hSyncEvent # Nil

ThreadInv == OneRuns /\ NoneRuns /\ StageInv

LEMMA ThreadInit == Init => ThreadInv
BY DEF Init, ThreadInv, OneRuns, NoneRuns, StageInv

\* A thread stays harmless while its pair is neither signalled nor taken again.
LEMMA StaysHarmless ==
  ASSUME NEW t \in Threads, Harmless(t), UNCHANGED pool,
         tpc[t] = "wait" => /\ tpair[t] \notin {hEvent', hSyncEvent'}
                            /\ signalled'[tpair[t]] = signalled[tpair[t]]
  PROVE  Harmless(t)'
BY DEF Harmless, Orphan, pool

LEMMA ThreadInvKept ==
  ASSUME ThreadInv,
         UNCHANGED <<hEvent, signalled, object, hVASIODriver, hpc, bCloseEvent, sync, pool>>
  PROVE  ThreadInv'
BY DEF ThreadInv, OneRuns, NoneRuns, StageInv, Settled, Harmless, Orphan, Stopping, sync, pool

\* The DPC signals the driver's pair, which no orphan waits for; unloading and
\* loading take the driver's pair away, when no handle is open.
LEMMA ThreadKernel ==
  ASSUME TypeInv, IInv, ThreadInv, Kernel
  PROVE  ThreadInv'
<1>1. UNCHANGED <<object, hVASIODriver, hpc, bCloseEvent, sync, pool>>
      BY DEF Kernel, user, host, flags
<1>2. CASE UNCHANGED <<hEvent, signalled>>
      BY <1>1, <1>2, ThreadInvKept
<1>3. CASE Tick
  <2>1. /\ hEvent' = hEvent
        /\ \A p \in Pairs : p # hEvent => signalled'[p] = signalled[p]
        BY <1>3 DEF Tick, TypeInv, AsioTypeOK, KernelType
  <2>2. ASSUME NEW t \in Threads, Harmless(t) PROVE Harmless(t)'
    <3>1. tpc[t] = "wait" => tpair[t] \in Pairs /\ tpair[t] \notin {hEvent, hSyncEvent}
          BY <2>2 DEF Harmless, Orphan, TypeInv, WaitsOnPair
    <3> QED BY <1>1, <2>1, <2>2, <3>1, StaysHarmless DEF sync
  <2>3. Settled => Settled'
        BY <2>2 DEF Settled
  <2>4. OneRuns'
        BY <1>1, <2>2 DEF ThreadInv, OneRuns, sync
  <2>5. NoneRuns' /\ StageInv'
        BY <1>1, <2>1, <2>3 DEF ThreadInv, NoneRuns, StageInv, Stopping, sync
  <2> QED BY <2>4, <2>5 DEF ThreadInv
<1>4. CASE DriverEntry
  <2>1. hEvent' = Nil /\ UNCHANGED signalled
        BY <1>4 DEF DriverEntry
  <2>2. ~hVASIODriver /\ hpc \in {"idle", "leaving", "dispose"}
        BY <1>4 DEF DriverEntry, IInv, HookInv
  <2>3. ASSUME NEW t \in Threads, Harmless(t) PROVE Harmless(t)'
    <3>1. tpc[t] = "wait" => tpair[t] \in Pairs /\ tpair[t] # hSyncEvent
          BY <2>3 DEF Harmless, Orphan, TypeInv, WaitsOnPair
    <3> QED BY <1>1, <2>1, <2>3, <3>1, StaysHarmless, AsioConstants DEF sync
  <2>4. Settled => Settled'
        BY <2>3 DEF Settled
  <2>5. OneRuns'
        BY <1>1, <2>3 DEF ThreadInv, OneRuns, sync
  <2>6. NoneRuns' /\ StageInv'
        BY <1>1, <2>1, <2>2, <2>4 DEF ThreadInv, NoneRuns, StageInv, Stopping, sync
  <2> QED BY <2>5, <2>6 DEF ThreadInv
<1> QED BY <1>2, <1>3, <1>4 DEF Kernel, Dpc, Expire, Rearm, Acknowledge, DrvUnload, FinishUnload

\* A thread that is harmless takes no step; so the one that takes a step is the
\* object's, and none is to be settled.
LEMMA ThreadThread ==
  ASSUME TypeInv, ThreadInv, NEW t \in Threads, Thread(t)
  PROVE  ThreadInv'
<1>1. UNCHANGED <<kernel, flags, sync, host>>
      BY ThreadLeaves
<1>2. CASE ~object
      BY <1>1, <1>2 DEF ThreadInv, OneRuns, NoneRuns, StageInv, host
<1>3. CASE object
  <2>1. ~Harmless(t)
        BY <1>3 DEF Thread, Loop, Wake, CheckStarted, CallHost, HostReturns, Output,
                    CopyDone, Dangling, ThreadAt, Harmless, Orphan
  <2>2. t = hASIOThread /\ hSyncEvent # Nil
        BY <1>3, <2>1 DEF ThreadInv, OneRuns
  <2>3. ~Settled
        BY <2>1 DEF Settled
  <2>4. /\ \A u \in Threads : u # t => tpc'[u] = tpc[u] /\ tpair'[u] = tpair[u]
        /\ \A p \in Pairs : (tpc[t] = "wait" /\ p = tpair[t]) \/ signalled'[p] = signalled[p]
        BY <1>3 DEF Thread, Loop, Wake, CheckStarted, CallHost, HostReturns, Output,
                    CopyDone, Dangling, ThreadAt, Step, TypeInv, AsioTypeOK, KernelType,
                    UserType, NoKernelChange, user, pool
  <2>5. ASSUME NEW u \in Threads, Harmless(u), u # t PROVE Harmless(u)'
    <3>1. CASE tpc[u] = "none"
          BY <2>4, <2>5, <3>1 DEF Harmless
    <3>2. CASE Orphan(u)
      <4>1. tpair[u] \in Pairs
            BY <3>2 DEF Orphan, TypeInv, WaitsOnPair
      <4>2. signalled'[tpair[u]] \subseteq signalled[tpair[u]]
            BY <1>3, <4>1 DEF Thread, Loop, Wake, CheckStarted, CallHost, HostReturns, Output,
                    CopyDone, Dangling, ThreadAt, Step, TypeInv, AsioTypeOK, KernelType,
                    NoKernelChange
      <4> QED BY <1>1, <2>4, <2>5, <3>2, <4>2 DEF Harmless, Orphan, sync, kernel
    <3> QED BY <2>5, <3>1, <3>2 DEF Harmless
  <2>6. OneRuns'
        BY <1>1, <2>2, <2>5 DEF ThreadInv, OneRuns, sync, host
  <2>7. NoneRuns' /\ StageInv'
        BY <1>1, <1>3, <2>3 DEF ThreadInv, NoneRuns, StageInv, Stopping, sync, kernel, host, flags
  <2> QED BY <2>6, <2>7 DEF ThreadInv
<1> QED BY <1>2, <1>3 DEF TypeInv, AsioTypeOK, UserType

\* Where the events, the pool and the object's pair stay, so do the harmless.
LEMMA HarmlessKept ==
  ASSUME UNCHANGED <<hEvent, signalled, sync, pool>>
  PROVE  /\ Settled' <=> Settled
         /\ object' = object /\ OneRuns => OneRuns'
BY DEF Settled, Harmless, Orphan, OneRuns, sync, pool

\* A step of the host's thread that touches neither events nor threads.
LEMMA ThreadHostKeeps ==
  ASSUME TypeInv, IInv, ThreadInv,
         \/ OpenDevice \/ CreateBuffers \/ SetBuffers \/ DisposeBuffers \/ Destroy
         \/ StartStream \/ SetStarted \/ Stop \/ StopStream \/ StreamStopped
         \/ ReleaseBuffers
  PROVE  ThreadInv'
<1>1. UNCHANGED <<hEvent, signalled, sync, pool, object>>
  <2>1. CASE OpenDevice \/ CreateBuffers \/ DisposeBuffers \/ Destroy \/ SetStarted \/ Stop
        BY <2>1 DEF OpenDevice, CreateBuffers, DisposeBuffers, Destroy, SetStarted, Stop,
                    NoKernelChange, kernel, Goto
  <2>2. CASE StreamStopped \/ ReleaseBuffers
        BY <2>2 DEF StreamStopped, ReleaseBuffers, Goto
  <2>3. CASE SetBuffers
        BY <2>3 DEF SetBuffers, AsioSetBuffers, Goto
  <2>4. CASE StartStream
        BY <2>4 DEF StartStream, StartDPC, Goto
  <2>5. CASE StopStream
        BY <2>5 DEF StopStream, StopDPC, Goto
  <2> QED BY <2>1, <2>2, <2>3, <2>4, <2>5
<1>2. OneRuns' /\ (Settled' <=> Settled)
      BY <1>1, HarmlessKept DEF ThreadInv
<1>3. /\ object
      /\ {object, hVASIODriver, bCloseEvent} \subseteq BOOLEAN
      BY DEF OpenDevice, CreateBuffers, SetBuffers, DisposeBuffers, Destroy, StartStream,
             SetStarted, Stop, StopStream, StreamStopped, ReleaseBuffers, At,
             TypeInv, AsioTypeOK, UserType
<1> SUFFICES NoneRuns' /\ StageInv'
    BY <1>2 DEF ThreadInv
<1> HIDE DEF Settled
<1> USE <1>1, <1>2, <1>3 DEF ThreadInv, NoneRuns, StageInv, Stopping, At, Goto,
                             NoKernelChange, kernel, sync, flags
<1>4. CASE OpenDevice
      BY <1>4 DEF OpenDevice
<1>5. CASE CreateBuffers
      BY <1>5 DEF CreateBuffers
<1>6. CASE SetBuffers
  <2>1. hpc = "lock" /\ hpc' \in {"idle", "dispose"} /\ UNCHANGED <<hVASIODriver, bCloseEvent>>
        BY <1>6 DEF SetBuffers
  <2> QED BY <2>1
<1>7. CASE DisposeBuffers
      BY <1>7 DEF DisposeBuffers
<1>8. CASE Destroy
      BY <1>8 DEF Destroy
<1>9. CASE StartStream
      BY <1>9 DEF StartStream
<1>10. CASE SetStarted
      BY <1>10 DEF SetStarted
<1>11. CASE Stop
      BY <1>11 DEF Stop
<1>12. CASE StopStream
      BY <1>12 DEF StopStream, StopDPC
<1>13. CASE StreamStopped
      BY <1>13 DEF StreamStopped
<1>14. CASE ReleaseBuffers
      BY <1>14 DEF ReleaseBuffers
<1> QED BY <1>4, <1>5, <1>6, <1>7, <1>8, <1>9, <1>10, <1>11, <1>12, <1>13, <1>14

\* A start() takes a pair nobody waits for.
LEMMA ThreadStart ==
  ASSUME ~Faults, TypeInv, IInv, ThreadInv, Start
  PROVE  ThreadInv'
<1>1. /\ object /\ object' /\ hpc = "idle"
      /\ bCloseEvent' = FALSE
      /\ UNCHANGED <<hEvent, hASIOThread, hVASIODriver, pool>>
      /\ hpc' \in {"idle", "events"}
      BY DEF Start, At, Goto, kernel
<1>2. CASE UNCHANGED <<hSyncEvent, handles, signalled>>
  <2>1. OneRuns' /\ (Settled' <=> Settled)
        BY <1>1, <1>2, HarmlessKept DEF ThreadInv, sync
  <2> QED BY <1>1, <2>1 DEF ThreadInv, NoneRuns, StageInv, Stopping
<1>3. CASE \E p \in Unused : hSyncEvent' = p /\ signalled' = [signalled EXCEPT ![p] = {}]
  <2>1. PICK p \in Unused : hSyncEvent' = p /\ signalled' = [signalled EXCEPT ![p] = {}]
        BY <1>3
  <2>2. p \in Pairs /\ p # Nil /\ p # hEvent
        BY AsioConstants DEF Unused
  <2>3. ASSUME NEW t \in Threads, Harmless(t) PROVE Harmless(t)'
    <3>1. tpc[t] = "wait" => tpair[t] \in Pairs /\ tpair[t] # p /\ tpair[t] # hEvent
          BY <2>3 DEF Unused, Harmless, Orphan, TypeInv, WaitsOnPair
    <3>2. tpc[t] = "wait" => signalled'[tpair[t]] = signalled[tpair[t]]
          BY <2>1, <3>1 DEF TypeInv, AsioTypeOK, KernelType
    <3> QED BY <1>1, <2>1, <2>3, <3>1, <3>2, StaysHarmless
  <2>4. Settled => Settled'
        BY <2>3 DEF Settled
  <2>5. OneRuns'
        BY <1>1, <2>1, <2>2, <2>3 DEF ThreadInv, OneRuns
  <2>6. NoneRuns' /\ StageInv'
        BY <1>1, <2>4 DEF ThreadInv, NoneRuns, StageInv, Stopping
  <2> QED BY <2>5, <2>6 DEF ThreadInv
<1> QED BY <1>2, <1>3 DEF Start

\* The driver takes a pair only when it has none, and then no thread runs: the
\* new thread is the only one.
LEMMA ThreadSetEvents ==
  ASSUME ~Faults, TypeInv, IInv, ThreadInv, SetEvents
  PROVE  ThreadInv'
<1>1. /\ object /\ object' /\ hpc = "events" /\ hVASIODriver
      /\ UNCHANGED <<hVASIODriver, bCloseEvent, signalled, hSyncEvent, handles, tpair>>
      BY DEF SetEvents, At, Goto, flags, IInv, HookInv
<1>2. ~bCloseEvent
      BY <1>1 DEF ThreadInv, StageInv
<1>3. CASE hpc' = "idle" /\ UNCHANGED <<hEvent, hASIOThread, tpc>>
  <2>1. OneRuns' /\ (Settled' <=> Settled)
        BY <1>1, <1>3, HarmlessKept DEF ThreadInv, sync, pool
  <2> QED BY <1>1, <1>2, <1>3, <2>1 DEF ThreadInv, NoneRuns, StageInv, Stopping
<1>4. CASE /\ hpc' = "starting" /\ hEvent = Nil /\ hEvent' = hSyncEvent /\ hSyncEvent # Nil
           /\ \E t \in Threads : /\ tpc[t] = "none"
                                 /\ hASIOThread' = t
                                 /\ tpc' = [tpc EXCEPT ![t] = "test"]
  <2>1. PICK t \in Threads : /\ tpc[t] = "none"
                             /\ hASIOThread' = t
                             /\ tpc' = [tpc EXCEPT ![t] = "test"]
        BY <1>4
  <2>2. Settled
        BY <1>1, <1>4 DEF ThreadInv, NoneRuns
  <2>3. \A u \in Threads : u # t => Harmless(u)'
        BY <1>1, <1>4, <2>1, <2>2 DEF Settled, Harmless, Orphan, TypeInv, AsioTypeOK, UserType
  <2>4. OneRuns'
        BY <1>1, <1>4, <2>1, <2>3 DEF OneRuns
  <2>5. NoneRuns' /\ StageInv'
        BY <1>1, <1>2, <1>4 DEF NoneRuns, StageInv, Stopping
  <2> QED BY <2>4, <2>5 DEF ThreadInv
<1>5. \/ hpc' = "idle" /\ UNCHANGED <<hEvent, hASIOThread, tpc>>
      \/ /\ hpc' = "starting" /\ hEvent = Nil /\ hEvent' = hSyncEvent /\ hSyncEvent # Nil
         /\ \E t \in Threads : /\ tpc[t] = "none"
                               /\ hASIOThread' = t
                               /\ tpc' = [tpc EXCEPT ![t] = "test"]
      BY DEF SetEvents, AsioSetEvent, Goto
<1> QED BY <1>3, <1>4, <1>5

\* The driver lets its pair go, and the object's is signalled, which no orphan
\* waits for.
LEMMA ThreadReleaseEvents ==
  ASSUME TypeInv, IInv, ThreadInv, ReleaseEvents
  PROVE  ThreadInv'
<1>1. /\ object /\ object' /\ hpc = "unhook" /\ hVASIODriver
      /\ UNCHANGED <<hVASIODriver, bCloseEvent, sync, pool>>
      BY DEF ReleaseEvents, At, Goto, flags, IInv, HookInv
<1>2. CASE hSyncEvent = Nil
  <2>1. UNCHANGED <<hEvent, signalled>> /\ hpc' \in {"unlock", "idle"}
        BY <1>2 DEF ReleaseEvents, Goto, AfterStop
  <2>2. OneRuns' /\ (Settled' <=> Settled)
        BY <1>1, <2>1, HarmlessKept DEF ThreadInv
  <2>3. Settled
        BY <1>1, <1>2 DEF ThreadInv, OneRuns, Settled
  <2> QED BY <1>1, <2>1, <2>2, <2>3 DEF ThreadInv, NoneRuns, StageInv, Stopping
<1>3. CASE hSyncEvent # Nil
  <2>1. /\ hEvent' = Nil
        /\ signalled' = [signalled EXCEPT ![hSyncEvent] = Halves]
        /\ hpc' = "join"
        BY <1>3 DEF ReleaseEvents, AsioReleaseEvent, Goto
  <2>2. ASSUME NEW t \in Threads, Harmless(t) PROVE Harmless(t)'
    <3>1. tpc[t] = "wait" => tpair[t] \in Pairs /\ tpair[t] # Nil /\ tpair[t] # hSyncEvent
          BY <2>2, AsioConstants DEF Harmless, Orphan, TypeInv, WaitsOnPair
    <3>2. tpc[t] = "wait" => signalled'[tpair[t]] = signalled[tpair[t]]
          BY <2>1, <3>1 DEF TypeInv, AsioTypeOK, KernelType
    <3> QED BY <1>1, <2>1, <2>2, <3>1, <3>2, StaysHarmless DEF sync
  <2>3. OneRuns'
        BY <1>1, <2>2 DEF ThreadInv, OneRuns, sync
  <2>4. NoneRuns'
    <3>1. Settled => Settled'
          BY <2>2 DEF Settled
    <3> QED BY <1>1, <2>1, <3>1 DEF ThreadInv, NoneRuns, Stopping
  <2>5. StageInv'
        BY <1>1, <1>3, <2>1 DEF StageInv, sync
  <2> QED BY <2>3, <2>4, <2>5 DEF ThreadInv
<1> QED BY <1>2, <1>3

\* stop() goes on when its thread has ended or waits for a pair that is gone.
LEMMA ThreadJoin ==
  ASSUME ~SlowThreads, TypeInv, IInv, ThreadInv, Join
  PROVE  ThreadInv'
<1>1. /\ object /\ object' /\ hpc = "join"
      /\ UNCHANGED <<hEvent, signalled, hVASIODriver, bCloseEvent, pool>>
      /\ hSyncEvent' = Nil
      /\ hpc' \in {"unlock", "idle"}
      BY DEF Join, At, Goto, AfterStop, NoKernelChange, kernel, flags
<1>2. hEvent = Nil
      BY <1>1 DEF ThreadInv, StageInv
<1>3. ASSUME NEW t \in Threads PROVE Harmless(t)'
  <2>1. tpc[t] = "wait" => tpair[t] # Nil
        BY <1>3, AsioConstants DEF TypeInv, WaitsOnPair
  <2>2. CASE Harmless(t)
        BY <1>1, <1>2, <2>1, <2>2, <1>3, StaysHarmless
  <2>3. CASE t = hASIOThread
    <3>1. tpc[t] = "none" \/ Stuck(t)
          BY <1>3, <2>3, AsioConstants DEF Join, ThreadJoined
    <3> QED BY <1>1, <1>2, <2>1, <3>1 DEF Stuck, Harmless, Orphan, pool
  <2> QED BY <1>1, <1>3, <2>2, <2>3 DEF ThreadInv, OneRuns
<1>4. Settled'
      BY <1>3 DEF Settled
<1> QED BY <1>1, <1>3, <1>4 DEF ThreadInv, OneRuns, NoneRuns, StageInv

\* A step of the host's thread.
LEMMA ThreadHost ==
  ASSUME ~Faults, ~SlowThreads, TypeInv, IInv, ThreadInv, HostCall \/ HostStep
  PROVE  ThreadInv'
<1>1. CASE Construct
  <2>1. /\ \A t \in Threads : tpc[t] = "none"
        /\ UNCHANGED pool
        /\ hpc = "idle" /\ hpc' = hpc
        BY <1>1 DEF Construct, IInv, HookInv
  <2>2. \A t \in Threads : Harmless(t)'
        BY <2>1 DEF Harmless, pool
  <2> QED BY <2>1, <2>2 DEF ThreadInv, OneRuns, NoneRuns, StageInv, Settled
<1>2. CASE FinishDestroy
      BY <1>2 DEF FinishDestroy, ThreadInv, OneRuns, NoneRuns, StageInv
<1> QED BY <1>1, <1>2, ThreadHostKeeps, ThreadStart, ThreadSetEvents, ThreadReleaseEvents,
           ThreadJoin DEF HostCall, HostStep

\* On return from stop() no thread is in a call of the host, nor does it enter
\* one while the buffers are released, whatever the order of start() and stop()
\* and whenever the object goes (asiosmpl.cpp, stop and ASIOThread).  The theorem
\* is about threads that get to run within the second stop() waits for them and
\* a system that has events to give: without one start() drops the pair its
\* running thread waits for, and stop() then waits for no thread.
THEOREM StopEndsTheSwitching ==
  ASSUME ~Faults, ~SlowThreads
  PROVE  Spec => []StopMeansNoSwitch
<1>1. TypeInv /\ IInv /\ ThreadInv /\ [Next]_vars => ThreadInv'
  <2>1. CASE UNCHANGED vars
        BY <2>1, ThreadInvKept DEF vars, kernel, user, host, flags
  <2> QED BY <2>1, ThreadKernel, ThreadHost, ThreadThread DEF Next
<1>2. TypeInv /\ [Next]_vars => TypeInv'
      BY TypeStutter, TypeKernel, TypeHost, TypeThread DEF Next
<1>3. ThreadInv => StopMeansNoSwitch
      BY DEF ThreadInv, NoneRuns, Stopping, Settled, Harmless, Orphan, StopMeansNoSwitch
<1> QED BY TypeInit, InvHolds, ThreadInit, <1>1, <1>2, <1>3, PTL DEF Spec
=============================================================================
