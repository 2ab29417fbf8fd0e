---------------------------- MODULE VirtualAsio ----------------------------
(***************************************************************************)
(* The virtual ASIO device: the driver object an audio program (the host)  *)
(* loads, 11/ASIO/Source/asiosmpl.cpp, on top of the kernel driver.         *)
(*                                                                         *)
(* The host's thread calls the methods one at a time, in any order.  Each   *)
(* start() creates an ASIOThread that waits for the kernel's events and     *)
(* calls the host back.  The fields of the object are shared without a     *)
(* lock.  A method is one action per control request or wait; what it does *)
(* before one is part of the step that leads there.                        *)
(*                                                                         *)
(* Name_Slip is Name with a plausible slip in it; see OsrComm.              *)
(***************************************************************************)
EXTENDS AsioKernel

CONSTANTS
  Threads,          \* slots for ASIOThreads that have not ended
  Faults,           \* may memory, MDLs, page locking, references, threads fail?
  SlowThreads,      \* may a thread that can run not do so within a second?
  ReleaseRunning    \* may the host drop the object before disposeBuffers()?

ASSUME AsioConstants ==
  /\ Nil \notin Pairs \cup Threads
  /\ {Faults, SlowThreads, ReleaseRunning} \subseteq BOOLEAN

VARIABLES
  object,           \* is there a VirtualAsio object?
  hVASIODriver,     \* is its handle open?
  callbacks,        \* is the host's callback table set?
  started, bCloseEvent,
  hSyncEvent,       \* the object's pair of events
  hASIOThread,      \* the thread the last start() created
  handles,          \* pairs whose user handles are open
  hpc,              \* where the host's thread is in the object
  disposing,        \* was its stop() called by disposeBuffers()?
  tpc,              \* where each ASIOThread is
  tpair             \* the pair it waits on

flags == <<callbacks, started, bCloseEvent>>
sync  == <<hSyncEvent, hASIOThread, handles>>
host  == <<object, hVASIODriver, hpc, disposing>>
pool  == <<tpc, tpair>>
user  == <<flags, sync, host, pool>>
vars  == <<kernel, signalled, fault, user>>

HostStages ==
  {"idle", "lock", "dispose", "events", "starting", "started",
   "stop", "stopWait", "unhook", "join", "unlock", "leaving"}
ThreadStages ==
  {"none", "test", "wait", "woken", "call", "callback", "ready", "copy"}

UserType ==
  /\ object \in BOOLEAN
  /\ hVASIODriver \in BOOLEAN
  /\ callbacks \in BOOLEAN
  /\ started \in BOOLEAN
  /\ bCloseEvent \in BOOLEAN
  /\ hSyncEvent \in Pairs \cup {Nil}
  /\ hASIOThread \in Threads \cup {Nil}
  /\ handles \in SUBSET Pairs
  /\ hpc \in HostStages
  /\ disposing \in BOOLEAN
  /\ tpc \in [Threads -> ThreadStages]
  /\ tpair \in [Threads -> Pairs \cup {Nil}]

Init ==
  /\ KernelInit
  /\ object = FALSE
  /\ hVASIODriver = FALSE
  /\ callbacks = FALSE
  /\ started = FALSE
  /\ bCloseEvent = FALSE
  /\ hSyncEvent = Nil
  /\ hASIOThread = Nil
  /\ handles = {}
  /\ hpc = "idle"
  /\ disposing = FALSE
  /\ tpc = [t \in Threads |-> "none"]
  /\ tpair = [t \in Threads |-> Nil]

At(stage) == Sound /\ object /\ hpc = stage
Goto(stage) == hpc' = stage /\ UNCHANGED <<object, hVASIODriver>>
NoKernelChange == UNCHANGED <<kernel, signalled>>

-----------------------------------------------------------------------------
(* The object: construction, init(), createBuffers(), destruction.          *)

\* The constructor, which leaves bCloseEvent as it finds it.  The threads of an
\* earlier object have ended (a bound: a dangling thread is a fault anyway).
Construct ==
  /\ Sound
  /\ ~object
  /\ \A t \in Threads : tpc[t] = "none"
  /\ object' = TRUE
  /\ hVASIODriver' = FALSE
  /\ callbacks' = FALSE
  /\ started' = FALSE
  /\ bCloseEvent' \in BOOLEAN
  /\ hSyncEvent' = Nil
  /\ hASIOThread' = Nil
  /\ NoKernelChange
  /\ UNCHANGED <<fault, handles, hpc, disposing, pool>>

\* init(): opens the device while the driver is loaded.
OpenDevice ==
  /\ At("idle")
  /\ ~hVASIODriver
  /\ driver = "loaded"
  /\ hVASIODriver' = TRUE
  /\ NoKernelChange
  /\ UNCHANGED <<fault, flags, sync, object, hpc, disposing, pool>>

\* createBuffers(), before the buffers go to the kernel.
CreateBuffers ==
  /\ At("idle")
  /\ hVASIODriver
  /\ \/ callbacks' = TRUE /\ Goto("lock")
     \/ Faults /\ callbacks' = FALSE /\ Goto("dispose")
  /\ NoKernelChange
  /\ UNCHANGED <<fault, started, bCloseEvent, sync, disposing, pool>>

\* IOCTL_ASIO_BUFFERS; if it fails, createBuffers() disposes of what there is.
SetBuffers_NoDispose ==
  /\ At("lock")
  /\ \/ AsioSetBuffers(TRUE, Faults) /\ UNCHANGED callbacks
     \/ AsioSetBuffers(FALSE, Faults) /\ callbacks' = FALSE
  /\ Goto("idle")
  /\ UNCHANGED <<driver, hEvent, stream, StopDPCEvent, signalled, fault>>
  /\ UNCHANGED <<started, bCloseEvent, sync, disposing, pool>>
SetBuffers ==
  /\ At("lock")
  /\ \/ AsioSetBuffers(TRUE, Faults) /\ Goto("idle") /\ UNCHANGED callbacks
     \/ AsioSetBuffers(FALSE, Faults) /\ Goto("dispose") /\ callbacks' = FALSE
  /\ UNCHANGED <<driver, hEvent, stream, StopDPCEvent, signalled, fault>>
  /\ UNCHANGED <<started, bCloseEvent, sync, disposing, pool>>

\* disposeBuffers(): the callbacks go first, then it calls stop().
DisposeBuffers ==
  /\ At("idle")
  /\ callbacks' = FALSE
  /\ Goto("dispose")
  /\ NoKernelChange
  /\ UNCHANGED <<fault, started, bCloseEvent, sync, disposing, pool>>

\* The destructor closes the handle first; its stop() and disposeBuffers()
\* then only set the flags, for their control requests fail.
Destroy ==
  /\ At("idle")
  /\ ReleaseRunning \/ (~callbacks /\ hSyncEvent = Nil)
  /\ hVASIODriver' = FALSE
  /\ started' = FALSE
  /\ bCloseEvent' = TRUE
  /\ hpc' = "leaving"
  /\ NoKernelChange
  /\ UNCHANGED <<fault, callbacks, sync, object, disposing, pool>>

FinishDestroy ==
  /\ At("leaving")
  /\ object' = FALSE
  /\ callbacks' = FALSE
  /\ hpc' = "idle"
  /\ NoKernelChange
  /\ UNCHANGED <<fault, started, bCloseEvent, sync, hVASIODriver, disposing, pool>>

-----------------------------------------------------------------------------
(* start()                                                                  *)

\* Pairs that nothing refers to: CreateEvent makes one of them.  A start() in a
\* running stream leaks a pair, so Pairs bounds how many of these there are.
Unused == {p \in Pairs : /\ p \notin handles
                         /\ p # hEvent
                         /\ \A t \in Threads : tpc[t] = "wait" => tpair[t] # p}

\* The flags are reset even by a start() that goes no further.
Start ==
  /\ At("idle")
  /\ started' = FALSE
  /\ bCloseEvent' = FALSE
  /\ IF callbacks /\ hVASIODriver
     THEN /\ Goto("events")
          /\ \/ \E p \in Unused : /\ hSyncEvent' = p
                                  /\ handles' = handles \cup {p}
                                  /\ signalled' = [signalled EXCEPT ![p] = {}]
             \/ Faults /\ hSyncEvent' = Nil /\ UNCHANGED <<handles, signalled>>
     ELSE UNCHANGED <<hpc, object, hVASIODriver, hSyncEvent, handles, signalled>>
  /\ UNCHANGED <<kernel, fault, callbacks, hASIOThread, disposing, pool>>

\* IOCTL_ASIO_EVENT.  When it is refused start() returns at once, with its new
\* events in the object; else the thread is created.
SetEvents ==
  /\ At("events")
  /\ \/ /\ AsioSetEvent(hSyncEvent, FALSE, Faults)
        /\ Goto("idle")
        /\ UNCHANGED <<hASIOThread, tpc>>
     \/ /\ AsioSetEvent(hSyncEvent, TRUE, Faults)
        /\ Goto("starting")
        /\ \/ \E t \in Threads : /\ tpc[t] = "none"
                                 /\ hASIOThread' = t
                                 /\ tpc' = [tpc EXCEPT ![t] = "test"]
           \/ Faults /\ hASIOThread' = Nil /\ UNCHANGED tpc  \* CreateThread fails
  /\ UNCHANGED <<driver, stream, StopDPCEvent, mdl, signalled, fault>>
  /\ UNCHANGED <<flags, hSyncEvent, handles, disposing, tpair>>

\* IOCTL_ASIO_START, which never fails.
StartStream ==
  /\ At("starting")
  /\ StartDPC
  /\ Goto("started")
  /\ UNCHANGED <<signalled, fault, flags, sync, disposing, pool>>

SetStarted ==
  /\ At("started")
  /\ started' = TRUE
  /\ Goto("idle")
  /\ NoKernelChange
  /\ UNCHANGED <<fault, callbacks, bCloseEvent, sync, disposing, pool>>

-----------------------------------------------------------------------------
(* stop(), by the host or by disposeBuffers()                               *)

\* Without a handle stop() sets the flags and returns, and so does
\* disposeBuffers() when its own request fails.
Stop ==
  /\ At("idle") \/ At("dispose")
  /\ started' = FALSE
  /\ bCloseEvent' = TRUE
  /\ disposing' = (hpc = "dispose" /\ hVASIODriver)
  /\ Goto(IF hVASIODriver THEN "stop" ELSE "idle")
  /\ NoKernelChange
  /\ UNCHANGED <<fault, callbacks, sync, pool>>

\* IOCTL_ASIO_STOP.
StopStream_NoWait ==
  /\ At("stop")
  /\ Goto("unhook")
  /\ bStoppingDPC' = TRUE
  /\ UNCHANGED <<nBuffer, timer, dpc, StopDPCEvent>>
  /\ UNCHANGED <<driver, hEvent, mdl, signalled, fault>>
  /\ UNCHANGED <<flags, sync, disposing, pool>>
StopStream ==
  /\ At("stop")
  /\ StopDPC(Goto("unhook"), Goto("stopWait"))
  /\ UNCHANGED <<driver, hEvent, mdl, signalled, fault>>
  /\ UNCHANGED <<flags, sync, disposing, pool>>

StreamStopped ==
  /\ At("stopWait")
  /\ TakeStopEvent
  /\ Goto("unhook")
  /\ UNCHANGED <<driver, hEvent, stream, mdl, signalled, fault>>
  /\ UNCHANGED <<flags, sync, disposing, pool>>

AfterStop == IF disposing THEN "unlock" ELSE "idle"

\* IOCTL_ASIO_EVENT lets the events go; both are set to wake the thread.
ReleaseEvents ==
  /\ At("unhook")
  /\ IF hSyncEvent = Nil
     THEN Goto(AfterStop) /\ UNCHANGED <<hEvent, signalled>>
     ELSE /\ AsioReleaseEvent
          /\ signalled' = [signalled EXCEPT ![hSyncEvent] = Halves]
          /\ Goto("join")
  /\ UNCHANGED <<driver, stream, StopDPCEvent, mdl, fault>>
  /\ UNCHANGED <<flags, sync, disposing, pool>>

\* A thread that waits for events nobody will signal.
Stuck(t) == tpc[t] = "wait" /\ signalled[tpair[t]] = {}

\* The wait for the thread ends with it, or after a second.
ThreadJoined_Anyway == TRUE
ThreadJoined ==
  hASIOThread # Nil =>
    tpc[hASIOThread] = "none" \/ Stuck(hASIOThread) \/ SlowThreads

Join ==
  /\ At("join")
  /\ ThreadJoined
  /\ handles' = handles \ {hSyncEvent}
  /\ hSyncEvent' = Nil
  /\ hASIOThread' = Nil
  /\ Goto(AfterStop)
  /\ NoKernelChange
  /\ UNCHANGED <<fault, flags, disposing, pool>>

\* disposeBuffers() after stop(): IOCTL_ASIO_BUFFERS, then the memory is freed.
ReleaseBuffers ==
  /\ At("unlock")
  /\ AsioReleaseBuffers
  /\ Goto("idle")
  /\ UNCHANGED <<driver, hEvent, stream, StopDPCEvent, signalled, fault>>
  /\ UNCHANGED <<flags, sync, disposing, pool>>

-----------------------------------------------------------------------------
(* ASIOThread                                                               *)

\* The object it reads is gone.
Dangling(t) ==
  /\ Sound
  /\ ~object
  /\ tpc[t] \in {"test", "woken", "ready"}
  /\ fault' = "ObjectGone"
  /\ NoKernelChange
  /\ UNCHANGED user

ThreadAt(t, stage) ==
  /\ Sound
  /\ tpc[t] = stage
  /\ UNCHANGED <<kernel, sync, host, flags>>
Step(t, stage) == tpc' = [tpc EXCEPT ![t] = stage]

\* The head of the loop.  Waiting on no event fails and counts as event 1.
Loop(t) ==
  /\ object
  /\ ThreadAt(t, "test")
  /\ \/ bCloseEvent /\ Step(t, "none") /\ UNCHANGED tpair
     \/ /\ ~bCloseEvent /\ hSyncEvent # Nil
        /\ Step(t, "wait")
        /\ tpair' = [tpair EXCEPT ![t] = hSyncEvent]
     \/ /\ ~bCloseEvent /\ hSyncEvent = Nil
        /\ Step(t, "woken")
        /\ UNCHANGED tpair
  /\ UNCHANGED <<signalled, fault>>

\* WaitForMultipleObjects takes the first signalled event.
Wake(t) ==
  /\ ThreadAt(t, "wait")
  /\ \E i \in signalled[tpair[t]] :
       /\ i = 1 => 0 \notin signalled[tpair[t]]
       /\ signalled' = [signalled EXCEPT ![tpair[t]] = @ \ {i}]
  /\ tpair' = [tpair EXCEPT ![t] = Nil]
  /\ Step(t, "woken")
  /\ UNCHANGED fault

\* bufferSwitch(), if the stream is started and the callbacks are set.
CheckStarted(t) ==
  /\ object
  /\ ThreadAt(t, "woken")
  /\ Step(t, IF started /\ ~bCloseEvent /\ callbacks THEN "call" ELSE "test")
  /\ UNCHANGED <<signalled, fault, tpair>>

\* The call through the table, which may have gone since.
CallHost(t) ==
  /\ ThreadAt(t, "call")
  /\ IF callbacks
     THEN Step(t, "callback") /\ UNCHANGED fault
     ELSE /\ fault' = IF object THEN "NullCallback" ELSE "ObjectGone"
          /\ UNCHANGED tpc
  /\ UNCHANGED <<signalled, tpair>>

HostReturns(t) ==
  /\ ThreadAt(t, "callback")
  /\ Step(t, "ready")
  /\ UNCHANGED <<signalled, fault, tpair>>

\* output(): one more look at the flag, then IOCTL_ASIO_BUFFER_READY.
Output(t) ==
  /\ object
  /\ ThreadAt(t, "ready")
  /\ Step(t, IF hVASIODriver /\ started THEN "copy" ELSE "test")
  /\ UNCHANGED <<signalled, fault, tpair>>

\* The request waits while IOCTL_ASIO_STOP has the handle.
CopyDone(t) ==
  /\ ThreadAt(t, "copy")
  /\ hpc # "stopWait"
  /\ Step(t, "test")
  /\ UNCHANGED <<signalled, fault, tpair>>

Thread(t) == Loop(t) \/ Wake(t) \/ CheckStarted(t) \/ CallHost(t)
             \/ HostReturns(t) \/ Output(t) \/ CopyDone(t) \/ Dangling(t)
-----------------------------------------------------------------------------
\* What the host's thread goes on to do inside a method.
HostStep == SetBuffers \/ SetEvents \/ StartStream \/ SetStarted
            \/ (Stop /\ hpc = "dispose") \/ StopStream \/ StreamStopped
            \/ ReleaseEvents \/ Join \/ ReleaseBuffers \/ FinishDestroy

HostCall == Construct \/ OpenDevice \/ CreateBuffers \/ DisposeBuffers
            \/ Destroy \/ Start \/ (Stop /\ hpc = "idle")

\* The kernel's own steps leave the object and its threads alone.
Kernel ==
  \/ Expire /\ UNCHANGED user
  \/ Tick /\ UNCHANGED user
  \/ Rearm /\ UNCHANGED user
  \/ Acknowledge /\ UNCHANGED user
  \/ DrvUnload(~hVASIODriver) /\ UNCHANGED user
  \/ FinishUnload /\ UNCHANGED user
  \/ DriverEntry /\ UNCHANGED user

Next == HostCall \/ HostStep \/ Kernel \/ \E t \in Threads : Thread(t)

Spec == Init /\ [][Next]_vars

\* The kernel expires timers and schedules threads; a callback returns.
FairSpec ==
  /\ Spec
  /\ WF_vars(HostStep)
  /\ WF_vars(Dpc /\ UNCHANGED user)
  /\ WF_vars(FinishUnload /\ UNCHANGED user)
  /\ \A t \in Threads : WF_vars(Thread(t))
-----------------------------------------------------------------------------
(* Properties.                                                              *)

\* Every variable keeps its type (asiosmpl.h, Main.h).
AsioTypeOK == KernelType /\ UserType

\* TimerDpc never signals an event the driver does not hold: stop() ends the
\* timer before it lets the events go, and start() hooks them before it starts
\* the timer, whatever the order of the calls and whichever of them fail.
SignalsOnlyHeldEvents == fault # "NullEvent"

\* The flag and the event of StopDPC fit the timer: while the timer or its DPC
\* is active somebody may stop it or is waiting for it, the event is signalled
\* only for a waiter and after the last DPC, and no waiter waits in vain.
Waiting == hpc = "stopWait" \/ driver = "unloading"
Active  == timer = "armed" \/ dpc # "idle"
StopHandshake ==
  /\ Active => ~bStoppingDPC \/ Waiting
  /\ StopDPCEvent => Waiting /\ ~Active
  /\ Waiting => bStoppingDPC /\ (Active \/ StopDPCEvent)
  /\ driver = "unloaded" => ~Active

\* On return from stop() no thread calls the host, nor does one while the
\* buffers are released.
StopMeansNoSwitch ==
  object /\ bCloseEvent /\ hpc \in {"idle", "unlock"} =>
    \A t \in Threads : tpc[t] \notin {"call", "callback"}

\* While the host has no buffers, or createBuffers() has failed, the kernel has
\* none of its pages locked and runs no timer for it.
DisposedMeansQuiet ==
  object /\ ~callbacks /\ hpc = "idle" => mdl = {} /\ bStoppingDPC

\* Every method and the unloading of the driver return.
EveryAsioCallReturns ==
  /\ hpc # "idle" ~> hpc = "idle" \/ fault # "no"
  /\ driver = "unloading" ~> driver = "unloaded" \/ fault # "no"

\* A started stream calls the host again and again until it is stopped.
Switching == \E t \in Threads : tpc[t] = "callback"
StreamKeepsSwitching == started ~> Switching \/ ~started \/ fault # "no"

\* asio.h:1615: ASIODisposeBuffers() implies ASIOStop(), which lets no call
\* through a table that is gone.
NoCallThroughNull == fault # "NullCallback"

\* asio.h:931: ASIOExit() implies ASIOStop() and ASIODisposeBuffers().
ExitStops == ~object /\ hpc = "idle" => mdl = {} /\ bStoppingDPC
=============================================================================
