----------------------------- MODULE AsioKernel -----------------------------
(***************************************************************************)
(* The kernel driver of the virtual ASIO device, 11/Kernel/Source.  A timer *)
(* whose DPC re-arms it signals two user events in turn.  StopDPC raises a  *)
(* flag and waits for the DPC to see it.                                    *)
(*                                                                         *)
(* The control requests are operators on the device extension; VirtualAsio *)
(* issues them.  It opens one synchronous handle, so the I/O manager runs   *)
(* them one at a time: only the DPC, on another processor, comes between.   *)
(***************************************************************************)
EXTENDS Naturals

CONSTANTS
  Pairs,            \* pairs of synchronisation events a program can create
  Nil               \* no pair, no thread

Halves == {0, 1}                       \* of the double buffer, and of a pair
Slots  == {"in", "out"} \X Halves      \* the MDL arrays; every channel is alike

VARIABLES
  driver,           \* "loaded", "unloading" or "unloaded"
  hEvent,           \* the pair whose two objects the extension references
  nBuffer,          \* the half whose event is signalled next
  bStoppingDPC,
  StopDPCEvent,     \* is the synchronisation event signalled?
  timer,            \* "idle" or "armed"
  dpc,              \* "idle", or what the running DPC does next
  mdl,              \* the slots whose pages are locked and mapped
  signalled,        \* of each pair, the events in the signalled state
  fault             \* the first access that crashes, "no" before it

stream == <<nBuffer, bStoppingDPC, timer, dpc>>
kernel == <<driver, hEvent, stream, StopDPCEvent, mdl>>

KernelType ==
  /\ driver \in {"loaded", "unloading", "unloaded"}
  /\ hEvent \in Pairs \cup {Nil}
  /\ nBuffer \in Halves
  /\ bStoppingDPC \in BOOLEAN
  /\ StopDPCEvent \in BOOLEAN
  /\ timer \in {"idle", "armed"}
  /\ dpc \in {"idle", "tick", "rearm", "ack"}
  /\ mdl \in SUBSET Slots
  /\ signalled \in [Pairs -> SUBSET Halves]
  /\ fault \in {"no", "NullEvent", "NullCallback", "ObjectGone"}

\* DriverEntry: a zeroed extension, and nothing to stop.
KernelInit ==
  /\ driver = "loaded"
  /\ hEvent = Nil
  /\ nBuffer = 0
  /\ bStoppingDPC = TRUE
  /\ StopDPCEvent = FALSE
  /\ timer = "idle"
  /\ dpc = "idle"
  /\ mdl = {}
  /\ signalled = [p \in Pairs |-> {}]
  /\ fault = "no"

\* Nothing is modelled past the first fault.
Sound == fault = "no"

-----------------------------------------------------------------------------
(* The timer and its DPC.                                                   *)

\* The timer expires; TimerDpc looks at the flag first.
Expire ==
  /\ Sound
  /\ timer = "armed"
  /\ timer' = "idle"
  /\ dpc' = IF bStoppingDPC THEN "ack" ELSE "tick"
  /\ UNCHANGED <<driver, hEvent, nBuffer, bStoppingDPC, StopDPCEvent, mdl, signalled, fault>>

\* KeSetEvent of the current half's event, and on to the other half.
Tick_NoFlip ==
  /\ Sound
  /\ dpc = "tick"
  /\ hEvent # Nil
  /\ signalled' = [signalled EXCEPT ![hEvent] = @ \cup {nBuffer}]
  /\ nBuffer' = nBuffer + 1
  /\ dpc' = "rearm"
  /\ UNCHANGED <<driver, hEvent, bStoppingDPC, timer, StopDPCEvent, mdl, fault>>
Tick ==
  /\ Sound
  /\ dpc = "tick"
  /\ IF hEvent = Nil
     THEN /\ fault' = "NullEvent"
          /\ UNCHANGED <<signalled, nBuffer, dpc>>
     ELSE /\ signalled' = [signalled EXCEPT ![hEvent] = @ \cup {nBuffer}]
          /\ nBuffer' = 1 - nBuffer
          /\ dpc' = "rearm"
          /\ UNCHANGED fault
  /\ UNCHANGED <<driver, hEvent, bStoppingDPC, timer, StopDPCEvent, mdl>>

\* KeSetTimer for the next block; nothing looks at the flag again.
Rearm_OneShot ==
  /\ Sound
  /\ dpc = "rearm"
  /\ dpc' = "idle"
  /\ UNCHANGED <<driver, hEvent, nBuffer, bStoppingDPC, timer, StopDPCEvent, mdl, signalled, fault>>
Rearm ==
  /\ Sound
  /\ dpc = "rearm"
  /\ timer' = "armed"
  /\ dpc' = "idle"
  /\ UNCHANGED <<driver, hEvent, nBuffer, bStoppingDPC, StopDPCEvent, mdl, signalled, fault>>

\* The DPC saw the flag: it lets StopDPC go and leaves the timer alone.
Acknowledge ==
  /\ Sound
  /\ dpc = "ack"
  /\ StopDPCEvent' = TRUE
  /\ dpc' = "idle"
  /\ UNCHANGED <<driver, hEvent, nBuffer, bStoppingDPC, timer, mdl, signalled, fault>>

Dpc == Expire \/ Tick \/ Rearm \/ Acknowledge

-----------------------------------------------------------------------------
(* The control requests.                                                    *)

\* StopDPC: at once when nothing runs, else raise the flag and wait.
StopDPC(stopped, waits) ==
  /\ IF bStoppingDPC THEN stopped ELSE waits
  /\ bStoppingDPC' = TRUE
  /\ UNCHANGED <<nBuffer, timer, dpc, StopDPCEvent>>

\* The wait in StopDPC takes the event with it.
TakeStopEvent ==
  /\ StopDPCEvent
  /\ StopDPCEvent' = FALSE

\* IOCTL_ASIO_START.  nBuffer keeps the half it was at.
StartDPC_StillStopping ==
  /\ timer' = "armed"
  /\ UNCHANGED <<driver, hEvent, nBuffer, dpc, bStoppingDPC, StopDPCEvent, mdl>>
StartDPC ==
  /\ bStoppingDPC' = FALSE
  /\ timer' = "armed"
  /\ UNCHANGED <<driver, hEvent, nBuffer, dpc, StopDPCEvent, mdl>>

\* IOCTL_ASIO_EVENT: a pair is taken only while there is none; a reference
\* that cannot be had leaves none.
AsioSetEvent(pair, ok, mayFail) ==
  \/ /\ ok
     /\ pair # Nil
     /\ hEvent = Nil
     /\ hEvent' = pair
  \/ /\ ~ok
     /\ pair = Nil \/ hEvent # Nil \/ mayFail
     /\ UNCHANGED hEvent

AsioReleaseEvent == hEvent' = Nil

\* IOCTL_ASIO_BUFFERS.  Buffers are set only while none are.  An MDL that
\* cannot be allocated rolls everything back; pages that cannot be locked
\* leave their slot empty, and the call succeeds without them.
AsioSetBuffers(ok, mayFail) ==
  \/ /\ ok
     /\ mdl = {}
     /\ \E unlockable \in SUBSET Slots :
          /\ unlockable # {} => mayFail
          /\ mdl' = Slots \ unlockable
  \/ /\ ~ok
     /\ mdl # {} \/ mayFail
     /\ UNCHANGED mdl

AsioReleaseBuffers == mdl' = {}

-----------------------------------------------------------------------------
(* Loading and unloading, once no handle is open.                           *)

DrvUnload(unopened) ==
  /\ Sound
  /\ driver = "loaded"
  /\ unopened
  /\ StopDPC(driver' = "unloaded", driver' = "unloading")
  /\ UNCHANGED <<hEvent, mdl, signalled, fault>>

FinishUnload ==
  /\ Sound
  /\ driver = "unloading"
  /\ TakeStopEvent
  /\ driver' = "unloaded"
  /\ UNCHANGED <<hEvent, stream, mdl, signalled, fault>>

\* A new extension: what the old one referenced and locked stays so for ever.
DriverEntry_NothingToStop ==
  /\ Sound
  /\ driver = "unloaded"
  /\ driver' = "loaded"
  /\ hEvent' = Nil
  /\ nBuffer' = 0
  /\ bStoppingDPC' = FALSE
  /\ mdl' = {}
  /\ UNCHANGED <<timer, dpc, StopDPCEvent, signalled, fault>>
DriverEntry ==
  /\ Sound
  /\ driver = "unloaded"
  /\ driver' = "loaded"
  /\ hEvent' = Nil
  /\ nBuffer' = 0
  /\ bStoppingDPC' = TRUE
  /\ mdl' = {}
  /\ UNCHANGED <<timer, dpc, StopDPCEvent, signalled, fault>>
=============================================================================
