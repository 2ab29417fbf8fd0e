# Formal models of the Windows driver samples

The repository is the source code of a book on Windows drivers: some dozen
independent programs, most of them a kernel driver with the user-mode program
that talks to it. This directory holds TLA+ models of them, the TLC
configurations that check the models, and theorems that TLAPS proves.

## 1. Inventory

Each component: the state it keeps, its operations, how it interacts, what is
hard about it, and what makes it correct.

### 1.1 Inverted call (`09/inverted_call`)

An application reads and writes a *data device*; the driver turns each IRP into
a request that a user-mode *service* fetches and answers through an exclusive
*control device*.

- **State.** Four lists. `ReadRequestQueue` and `WriteRequestQueue` hold the
  requests of all outstanding IRPs. `RequestQueue` links the same requests, by a
  second link, while no service thread has them. `ServiceQueue` links the IRPs of
  service threads that wait, by a link inside the IRP. Each list has a fast
  mutex. `DeviceState` enables the data device; `OsrRequestID` counts requests.
- **Operations.** `OsrCommCreate`, `OsrCommCleanup`, `OsrCommClose`,
  `OsrCommReadWrite`, `OsrCommDeviceControl` (get a request, send a response, or
  both); `DriverEntry` and `Unload`; in the service `Run`, `GetRequest`,
  `SendResponse` and the service control handler.
- **Hard.** A request and a service IRP must meet at two queues under two nested
  locks; a request is on two lists at once and three parties may free it; a
  handle is closed while calls run; every step of a write may fail.
- **Correct when** no request and service IRP wait for each other, a request goes
  to one service thread, an answer reaches its own request, every IRP is
  completed exactly once, and every path releases its locks.

### 1.2 1394 virtual device (`05/1394_kmdf/vdev_hybrid`)

A KMDF driver over the 1394 bus driver, a UMDF filter above it and a test
application.

- **State.** Lists of address ranges (`AsyncAddressData`), configuration ROM entries
  (`CromData`) and isochronous resources (`IsochResourceData`), each under a spin lock;
  the generation count; a manual queue of requests that wait for a bus reset. In
  the filter a parallel and a sequential queue. In the application the open
  handle and the list of devices.
- **Operations.** Some thirty ioctls that submit an IRB to the bus and record or
  forget a handle; Plug and Play callbacks; the bus-reset routine and its work items.
- **Hard.** A list and the bus change in two steps with no lock over both; a bus
  request may fail, or be answered after its sender has gone on; work items
  race; the clean-up frees what the bus may still use.
- **Correct when** the lists hold exactly what the bus has granted, every memory block
  has one owner, the generation count follows every reset, every call returns and
  a removal ends.

### 1.3 CY001 USB board (`04/WDF_CY001`, `06/WDF_CY001`, `06/UsbBaseClass`)

The same USB driver in C and in C++ over a base class.

- **State.** Five queues (entry, serial, bulk, and two manual ones that hold requests until
  an event), the continuous reader of the interrupt pipe, the display to be restored.
- **Operations.** Some twenty ioctls, bulk read and write, the reader's callback, power
  up and down, prepare and release hardware, surprise removal, firmware upload.
- **Hard.** Requests move between queues that the framework turns off under them; a
  canceller, the reader, a drain and a purge race for one request; the framework
  waits for what the driver owns.
- **Correct when** every request is completed once, none is forgotten, a stopped
  reader leaves no read behind, a sleep keeps the display and ends.

### 1.4 Audio splitter (`10/Splitter`)

A kernel-streaming filter with one input and two output pins. State: pins, formats
and stream positions. Operations: `Process`, `DispatchSetFormat`,
`IntersectHandler`, `AudioPosition`. Hard: the filter's control mutex is dropped
around a call into the next filter. Correct when the output pins get the same frames
and no filter waits for itself.

### 1.5 Virtual ASIO (`11/Kernel`, `11/ASIO`, `11/AsioSimTool`)

A kernel driver that loops audio back on a timer, the ASIO driver an audio
program loads, and a test console. State: two buffers per channel, two events, a
timer and its DPC, a stop flag and event. Operations: open and close, set events
and buffers, start, stop, release. Hard: the DPC against stopping and releasing,
partial failure while buffers are locked. Correct when stopping returns with no
timer left, and the DPC never touches what was released.

### 1.6 Installer and small samples (`14/DrvInst`, `04/CY001_ClsInst`, `01`, `06/simClass`, `06/WDM`, `13`)

The installer drives SetupAPI from a wizard; the others are first examples and
INF files without state worth a model.

`PROJECT.json` lists every component with its status, and every hazard at the line
where it bites.

## 2. Modules and how they compose

| Part | Modules | Proofs |
|---|---|---|
| inverted-call driver, its requests | `OsrComm`, implements `ReflectedCall` | `OsrCommProofs` |
| inverted-call driver, its loading, and the service | `OsrDriver` inside `Reflector` | `ReflectorProofs` |
| virtual ASIO | `AsioKernel` inside `VirtualAsio`; `AsioBuffers` | `VirtualAsioProofs`, `AsioBuffersProofs` |
| 1394 virtual device | `Bus1394` inside `VdevKmdf` (implements `AddressTable`) inside `VdevUmdf` inside `Wdf1394` | `VdevKmdfProofs`, `VdevTableProofs`, `Wdf1394Proofs` |
| CY001 board | `Cy001` | `Cy001Proofs` |

`MC...` modules add symmetry sets and lists of operations for TLC. `Cy001`, `Reflector` and
`AsioBuffers` need neither and are checked as they are. An operator named
`Name_Slip` is `Name` with a plausible mistake in it; no specification uses it: a run in
which it stands for `Name` shows that a property notices.

Two kinds of configuration. Those that are runs in `PROJECT.json` pass, or
show a contradiction to a comment of the source (`completed_twice`, `vdev_packet`). The others
are *counterexamples*: each makes TLC find a behaviour of the code that one would not
expect, and is named in the section of its part. Each takes seconds. One more configuration,
`MCVdevKmdfResets.cfg`, holds and is no run because it takes minutes (5.3).

What is proved and what is not. Every invariant, action property and refinement that a passing
run checks is also a theorem, for every value of the constants that its hypotheses allow. A
hypothesis on a switch (`~Faults`, `InlineBus` ...) is there because the property is false without it; the
section of each part names the counterexample. Where a run leaves a hazard's failing case out, `PROJECT.json`
says so at the hazard and names the configuration that shows the case. The liveness properties (`EveryCallReturns`,
`EveryAsioCallReturns`, `StreamKeepsSwitching`, `NoRequestSleepsThroughAReset`, `RemovalEnds`,
`PowerDownEnds`, `StopEnds`) are only model-checked: fairness and `ENABLED` are outside the prover's
reach. So are the findings, which are behaviours and not theorems.

Worth doing next: `IsochRecordsAreLive` as an equality for callers that never pass a handle for an
address, the promise of `ReflectedCall` with identifiers reused once their call has returned, and a
second handle on the virtual ASIO device.

## 3. The inverted-call driver

### 3.1 Modules

| Module | What it is |
|---|---|
| `ReflectedCall` | What a client is promised: its call is accepted by one service thread, answered by that thread, and returns. No queue, no lock. |
| `OsrComm` | The driver: one action per critical section or per stretch of a handler between two of them. |
| `OsrCommProofs` | The theorems and their proofs. |
| `MCOsrComm` | Adds the symmetry set for TLC; the configurations give the constants. |

### 3.2 State and code

| Variable | Code |
|---|---|
| `ServiceQueue`, `RequestQueue` | the two lists of the control extension, as sequences |
| `queue` | `ReadRequestQueue` and `WriteRequestQueue`; sets, for the walks look at every entry |
| `serviceLock`, `requestLock` | the owners of the two nested fast mutexes |
| `heap` | what each pool block holds: `Nil`, or an `OSR_COMM_DATA_REQUEST` and whether its IRP was completed |
| `cpc`, `creq`, `dataIrp` | a thread in `OsrCommReadWrite`: where it is, its `dataRequest`, the status of its IRP |
| `wpc`, `wreq`, `held` | a thread of the service: where it is in the driver, its `dataRequest`, the request in its user buffer |
| `file`, `DeviceState` | how far the clean-up of each file object has got; the state of the data device |
| `leaked`, `bugcheck` | was a control IRP abandoned; the first undefined access |

Atomicity. The two nested locks are variables and every acquisition is a step. The
locks of the read and the write queue are only taken alone, around one critical
section, so that section is one step. What a thread does between two shared
accesses is part of the step before or after it. A failing write releases its
lock in one step and completes its IRP in the next, as the code does.

Undefined behaviour. A freed block that is still linked, an IRP that was completed
and is still linked, and a list walked through the wrong link are where the code
leaves C and the kernel's rules. `UseAfterFree`, `DoubleCompletion` and
`MisreadList` stop the model at the first such access. The entry of a failed write (`Stale`) is
no such thing as long as it is only stepped over: its block is allocated, and
`ProcessResponse` compares identifiers and reads no IRP before one matches. A cleanup
completes its IRP again (`DoubleCompletion`), or first reads the file object of
that IRP (`UseAfterFree`). A freed block may also be
allocated again before anyone looks at it: then nothing is undefined, and the
stale pointer leads to another request (`DeliversWhatItRemoved`). The misread of
a list may also go unnoticed and skip the entry (`CancelMisread`): the word the
code takes for `Irp` may be zero.

Left out: the data, buffer lengths and their checks (the service always passes
whole structures), the text of names, and a request for which no pool block is
free, which fails at once and changes nothing. The service in the repository
runs one thread; the driver is written for several ("a service thread is available
right now"), and so is the model.

### 3.3 Runs

| Run | Question | Bounds |
|---|---|---|
| `service` | Does the driver implement `ReflectedCall`, is each request in one place, and does every call return? | 2 clients, 2 service threads, 4 requests, identifiers modulo 4: the counter rolls over after the second request, as 0xFFFFFFFE does; no symmetry (liveness) |
| `faults` | Do the failure paths keep locks and service IRPs in order? | every resource may fail and the service may close; 2 + 2 threads, 3 requests |
| `closes` | Do the rendezvous and completion survive closing of any handle at any time? No write fails here | 2 + 2 threads, 2 requests |

Two clients and two service threads make every pair of parties meet: client with
client at the locks, client with worker at the queues, two workers with two
answers in either order, one request behind another while no service thread waits.
`MaxRequests` bounds the requests of a behaviour and `IdLimit` the identifiers;
nothing else is bounded.

The run `completed_twice` (`MCOsrCommCompletedTwice.cfg`: one client, one service thread, one
request) ends in a violation of `NoDoubleCompletion`: a write finds no system PTEs, its IRP is completed
and its request left on `WriteRequestQueue`; the service closes the control device, and
`CancelPendingRequestList`, called for every file object, takes the entry and completes the IRP
again. It takes both, the failure and the closing: the identifier of such a write was never handed out, so
an answer steps over its entry. Two more counterexamples are about closing a handle:

| Configuration | Violates | What happens |
|---|---|---|
| `MCOsrCommStrandedIrp.cfg` | `CleanupCancelsServiceIrps` | the clean-up walks `ServiceQueue` through another list's link and passes over the service's IRP |
| `MCOsrCommReusedBlock.cfg` | `DeliversWhatItRemoved` | a request is freed by a clean-up and its block is taken by another before the service thread that removed it uses it |

The model follows the code in three more places where a comment says otherwise; no
property can hold there, so no run asks:

- `comm.cpp:266` says that closing a data handle removes its pending requests from the
  queue. `CancelPendingRequestList` walks `RequestQueue` through the wrong link, so a
  freed request may stay there (`CancelMisread`, `RequestQueueDangles`).
- `comm.cpp:428` says that the caller of `ProcessResponse` completes the control IRP.
  `OsrCommDeviceControl` returns the error without completing it (`leaked`); it
  happens after a write whose buffer cannot be mapped, which gives the service a
  request of type 0 to answer.
- `comm.cpp:221-223` and `comm.h:138` say that once the control device is closed nobody waits
  for an answer. A client that saw the device active before still queues its request.

Fairness (`FairSpec`, run `service`): weak fairness of each client's and each
service thread's next step, for the kernel schedules every thread and a fast
mutex is handed over to a waiter; of a clean-up that has begun; and of the opening of
the control device, for the service's `Run` retries it every second. Nobody has
to call or to close.

### 3.4 Proofs (`OsrCommProofs`)

For every set of clients, service threads and blocks, every bound, and any
combination of failures and closings; from the three assumptions named in
`OsrComm` (the sets are disjoint where it matters, `IdLimit` > 2, the switches are
Booleans):

- `TypesPreserved`: `TypeOK`. It is not inductive alone: a client that is about to
  link its request must have one. `PointersSet` says so, and `TypeInv` is the
  conjunction.
- `LocksAreHeldOnlyInside`: `LocksHeldOnlyInside` is inductive given `TypeInv`.
- `ServiceIrpsAreAccounted`: `ServiceIrpAccounted` is inductive given `TypeInv`;
  `AppendOnce` and `TailOnce` say what putting an IRP back and taking one off do
  to a queue without repetitions.
- `RendezvousIsNeverMissed`: `NoMissedRendezvous` needs `StillEmpty`: a client that
  holds both locks looked at `ServiceQueue` when it took the first, and the lock
  (`LocksHeldOnlyInside`) kept it empty since.

- `CallsCompleteOnce`: the action property `CompletedOnce`, when no resource fails, whoever closes what
  (`~ResourceFaults`); and, whatever fails, while the handles stay open and there are no more calls than
  identifiers (`OpenHandles`). With both a failure and a closing it is false (run `completed_twice`).
  `IrpInv` says that heap and calls agree: a block whose IRP is pending is its client's current request, and
  a client whose IRP is pending has such a block. Without failures no entry is ever stale
  (`NothingFailed`). With failures `ServiceInv` says why nobody comes back to the entry of a
  failed write: what `RequestQueue` and the service threads know of is `Lodged`, its client waits and its
  IRP is pending, each with one thread (`LodgedInv`); what a thread's buffer holds was numbered by the driver
  (`HeldInv`), and no two requests have one number (`SerialInv`).
- `RequestsHaveOnePlace`: `EveryRequestHasOnePlace`, under `Undisturbed`: no failure, no closing, and
  no more calls than identifiers. `CallsInv` is inductive under it and has four parts. Handles stay open
  (`HandlesOpen`). The *k*-th call got the *k*-th identifier, so no two blocks share one, also
  across the roll-over (`SerialInv`). Program counters, pointers, IRPs and heap tell the same story
  (`CallInv`). A request whose client waits is on `RequestQueue` or with a service
  thread, in exactly one of these places, and the read or write queue has it until it is answered
  (`PlaceInv`).
- `DriverKeepsThePromise`: `PromiseKept`, the refinement of `ReflectedCall`, under `Undisturbed`.
  `PromiseStep` goes over the actions: `TakeRequest` and `HandToService` are the accepting, `Respond` is the
  answering, the rest moves nothing that the promise sees (`QuietMove`). The mapping finds the
  client of a thread that holds an answer by its identifier; `ServedIs` shows that there is one such client.

`Undisturbed` cannot be dropped. After a failure or a closing a request may be in two places or its
client's IRP completed under it (`MCOsrCommReusedBlock.cfg`, run `completed_twice`); and a service thread
that sits on one request while the counter goes all the way round answers whichever call
has the identifier then.

Only model-checked: the liveness property `EveryCallReturns`.

## 4. The virtual ASIO device

### 4.1 Modules

| Module | What it is |
|---|---|
| `AsioKernel` | The kernel driver: the timer DPC step by step, the control requests as operators on the device extension, loading and unloading. |
| `VirtualAsio` | The user-mode object and its threads on top of it: one action per control request or wait of a method, one per shared access of `ASIOThread`. Extends `AsioKernel`. |
| `AsioBuffers` | Where the halves of the double buffers are, for the host and for the kernel, and the copy from output to input. |
| `VirtualAsioProofs` | The theorems and their proofs. |
| `MCVirtualAsio` | Adds the symmetry sets for TLC. |

### 4.2 State and code

| Variable | Code |
|---|---|
| `hEvent`, `nBuffer`, `bStoppingDPC`, `StopDPCEvent` | the fields of `DEVICE_EXTENSION`; `hEvent` is the pair, whose two pointers are set and cleared together |
| `timer`, `dpc` | is `Timer` in the timer queue; what a running `TimerDpc` does next |
| `mdl` | the slots of the four MDL arrays that are locked and mapped; one input and one output channel stand for all |
| `signalled` | the state of the two kernel event objects of each pair |
| `driver` | loaded, waiting in `DrvUnload`, or unloaded |
| `object`, `hVASIODriver`, `callbacks`, `started`, `bCloseEvent`, `hSyncEvent`, `hASIOThread` | the `VirtualAsio` object and its fields |
| `handles` | the pairs whose user handles are open |
| `hpc`, `disposing` | where the host's thread is in a method, and whether `disposeBuffers()` called its `stop()` |
| `tpc`, `tpair` | each `ASIOThread`: where it is and the pair it waits on |
| `fault` | the first undefined access: a null event, a null callback table, or the freed object |

Atomicity. The object opens one synchronous handle, so the I/O manager runs its
control requests one at a time; only the DPC, on another processor, comes between
their steps. A control request is therefore one step, except that `StopDPC` waits
between two. `TimerDpc` is cut where the other side can see a difference: the
test of the flag, the signal, the re-arming, the acknowledgement. `ASIOThread`
is cut between its test of the fields and its call through the table, and around
every wait and callback. A step after a fault does not exist.

The host calls any method in any order, including `start()` in a running stream,
`stop()` twice and `createBuffers()` with buffers. What it may not do unless
`ReleaseRunning` is set is drop the object before `disposeBuffers()`.

Left out: a second program with a handle of its own (the device is not exclusive);
the DPC's return after it has set `StopDPCEvent`, which may race the unmapping of
the driver's code; real time, so an armed timer just expires; a second object
before the threads of the first have ended; sample rates, clock sources, time
information and the registration.

`AsioBuffers` counts memory in blocks of `blockFrames` samples. What the kernel reads
outside an allocation is `Empty` or stays what it was: the model only says that it is not
the host's data.

### 4.3 Runs

| Run | Question | Bounds |
|---|---|---|
| `asio_safety` | Do the DPC, `StopDPC` and the event pair fit together, and is the kernel quiet while the host has no buffers? | 2 pairs, 1 thread, every failure, slow threads |
| `asio_calls` | Does every method return, does a stream keep switching, and is the host quiet after `stop()`? | 2 pairs, 2 threads, nothing fails, threads run within a second, the host may leave a running stream behind, so that `DrvUnload` has something to wait for |
| `asio_loop` | Does half 0 loop for every list of active channels? | up to 3 inputs and 3 outputs |

`Pairs` bounds the event pairs that exist at a time: a `start()` in a running stream
leaks one, so two let a stream run on one pair while the object holds another.
`Threads` bounds the threads that have not ended; a stream and a thread that outlived
its own make two.
Only `asio_calls` assumes that the wait of one second in `stop()` is long enough for a
thread that can run. No deadlock is looked for: a
fault ends a behaviour, and a host need not call anything; `EveryAsioCallReturns`
finds methods that get stuck instead.

Four counterexamples, the first two of what `asio.h` documents of
`ASIODisposeBuffers` and `ASIOExit`, the third of what a comment says of the double buffers, the
last of the wait in `stop()`:

| Configuration | Violates | What happens |
|---|---|---|
| `MCVirtualAsioNullTable.cfg` | `NoCallThroughNull` | `disposeBuffers()` clears the callback table between the thread's test and its call |
| `MCVirtualAsioExit.cfg` | `ExitStops` | a host that releases the object of a running stream leaves timer and events behind |
| `AsioBuffersSecond.cfg` | `SecondHalfLoops` | the second half is looked for past the end of the allocation |
| `MCVirtualAsioSlow.cfg` | `StopMeansNoSwitch` | `stop()` goes on after a second while its thread is still to call the host |

Of the third the model only says that the host's data does not loop, not what
the copy overwrites.

Three more divergences from `asio.h` that no property of a run covers:

- `asio.h:959`: the first call after `ASIOStart()` is for index 0. The first event a new
  stream signals is event 0, and `ASIOThread` turns that into half 1. Which half a
  callback is for is therefore left out of `VirtualAsio`.
- `asio.h:1009`: no callback after `ASIOStop()` has returned. `stop()` waits a second and
  returns whether or not the thread has ended, so `StopMeansNoSwitch` holds only
  without `SlowThreads` (`MCVirtualAsioSlow.cfg`).
- `asio.h:1583`: a driver that cannot select channels has to handle it. The kernel's table is
  indexed by channel number and cut at the number of active channels; a channel past
  it is never copied, and `FirstHalfLoops` is stated for the others (`Seen`).

`ReleaseRunning` is set in `asio_calls` and `MCVirtualAsioExit.cfg` only: with it
`DisposedMeansQuiet` fails for the next object, for the reason the latter shows.

Fairness (`FairSpec`, run `asio_calls`): weak fairness of the host's thread inside a
method, of the timer and its DPC, of the wait in `DrvUnload`, and of each `ASIOThread`.
The kernel expires armed timers, runs queued DPCs and schedules threads, and a
callback returns. No method has to be called.

### 4.4 Proofs (`VirtualAsioProofs`, `AsioBuffersProofs`)

For every set of pairs and threads, with any failure, slow threads, and a host that
leaves at any time, unless stated.

- `AsioTypes`: `AsioTypeOK`, together with `WaitsOnPair`: a thread that waits has a
  pair to wait on. The invariant is cut into three parts, because most actions leave
  two of them alone.
- `StopIsAHandshake` and `NoMissingEvent`: `StopHandshake` and
  `SignalsOnlyHeldEvents` hold by the inductive invariant `IInv`. What they lack
  alone is `HookInv`: without an event pair there is no timer and the flag is up;
  the timer is not armed while its DPC runs; between hooking the events and starting
  the timer, and between stopping it and releasing them, the kernel is quiet; and the
  host's thread is in the driver only through a handle, which keeps `DrvUnload` away.

- `DisposedIsQuiet`: `DisposedMeansQuiet`, when no running stream is released (`~ReleaseRunning`; otherwise
  the next object finds a running timer, `MCVirtualAsioExit.cfg`). `QuietInv` says at which points of
  which method the kernel is quiet: without an object, a handle or a table; and
  after each step of `disposeBuffers()`, of a `createBuffers()` that fails, and of `stop()`, what is already
  given back.
- `StopEndsTheSwitching`: `StopMeansNoSwitch`, when nothing fails and a thread ends within
  the second that `stop()` waits (`~Faults`, `~SlowThreads`). With a failing `CreateEvent` a second `start()` leaves the
  first one's thread without anyone who waits for it. `ThreadInv` says that at most the thread of
  `hASIOThread` runs and that none does once `stop()` is over. Its difficulty is a `start()` in a
  running stream: the old thread waits on a pair that nobody signals any more. It never ends, but
  it calls nobody either: it is an `Orphan`, and `StaysHarmless` says that it stays one.
- `FirstHalfLoopsBack`: `FirstHalfLoops`, for any set of channels and any list of active ones, from the
  assumption that `Nil` is no channel. `LoopInv` adds the shape of the maps and that between the copy and
  the next one half 0 is still what the host was given.

Only model-checked: the two liveness properties. `SecondHalfLoops`, `ExitStops` and `NoCallThroughNull` are violated.

## 5. The 1394 virtual device

### 5.1 Modules

| Module | What it is |
|---|---|
| `Bus1394` | External: the ledger of what the bus driver has handed out, its generation, and whether a reset routine is registered. |
| `VdevKmdf` | The KMDF driver: one action per stretch of a routine between two points where it gives up a lock or the processor. |
| `AddressTable` | What callers are promised of address ranges: each call takes effect at one instant. |
| `VdevUmdf` | The filter: what each queue's handler checks, forwards and sends down. |
| `Wdf1394` | The test application's menu commands as the requests they send, and other programs. |

### 5.2 State and code

| Variable | Code |
|---|---|
| `at`, `call`, `st` | each caller's request: where it is, operation and handle, status. `DeviceIoControl` is synchronous in every client, so a request is named by its caller |
| `irb`, `block` | the IRB sent for it, and the memory its routine holds |
| `addresses`, `cromData`, `isochData` | the lists of `DEVICE_EXTENSION`; the list's spin lock makes a walk of one of them one step |
| `pool` | the memory blocks allocated and not freed |
| `generation`, `updates` | `GenerationCount`; each run of `UpdateGenerationCount`, from `EvtDeviceD0Entry` (0) or the work item of a reset |
| `resetting`, `waiting` | where `BusResetRoutine` is; the manual queue of `IOCTL_BUS_RESET_NOTIFY` requests |
| `pnp`, `halted` | where the device is in its life; a list was read where it has no record |
| `bus` | the bus driver's ledger |
| `filter`, `seqQueue`, `serving` | the filter's set-up; its sequential queue and what that is serving |
| `gHandle`, `numDevices`, `selected` | `g_hTestDevice`, `DeviceData.numDevices`, `SelectedDevice` |

An `ExAllocatePool` that fails, a bus that refuses, a manual queue that takes no request (`"notify"`), a
callback that fails in set-up, each is a member of `Faults`.

`InlineBus` is an assumption on the bus driver, which no line of this one enforces: it answers an
asynchronous IRB before `WdfRequestSend` returns. `SubmitIrpAsync` returns right after the send, and
`EvtIoDeviceControl` then completes the request, so the code is right with such a bus only; run
`vdev_packet` drops the assumption and shows what happens. Whether the packet is still there is asked in
that run alone, for with `InlineBus` there is nothing to ask.

Resets come at any time, also two in a row. `overtaken` is a history variable: did the last reset
come while a run of `UpdateGenerationCount` had the count before it in hand, read and not yet assigned? That run
may assign last. `GenerationIsCurrent` excepts this case and no other; `CountFollowsEveryReset` does not except
it and is violated.

Left out: the data of reads and writes; lengths but for whether a
buffer is what the handler asks for; the reference counts of the filter's COM objects. The attach
and detach routines with their timeout (`kmdf_vdev_isoch.c:775-946`) cannot be reached:
`EvtIoDeviceControl` refuses both requests.

### 5.3 Runs

| Run | Question | Bounds |
|---|---|---|
| `vdev_table` | Do the driver's lists, memory and generation count agree with the bus when two callers race, and do the address ranges behave like `AddressTable`? | 2 callers, 2 handles, 2 memory blocks, 1 reset at any time; memory, bus, work items' requests, the manual queue and set-up may fail; the operations on address ranges, one asynchronous transfer, and those that the filter never lets through |
| `vdev_stack` | Does the filter keep isochronous and ROM records in step, does every call return and every removal end? | 1 window with every menu command, 1 other program on the racing operations, 1 handle, 1 block, no reset |
| `vdev_packet` | Is the request still there when the completion routine writes to it? Violated. | as `vdev_table`, with a bus that answers later |

Two callers and two handles let a free race a free, an allocation and a lookup of the same
and of another range. With one handle the two programs of `vdev_stack` always meet
at the same record. Resets are left to `vdev_table`: they touch nothing that the filter does. Its one reset races
the update of `EvtDeviceD0Entry`, the calls and the removal. `MCVdevKmdfResets.cfg`
checks `GenerationIsCurrent` with three resets, so that four updates race, every fault and a bus that
answers late; it holds (5.5 million states, four minutes).

Counterexamples:

| Configuration | Violates | What happens |
|---|---|---|
| `MCVdevKmdfStale.cfg` | `CountFollowsEveryReset` | two resets close together: the older work item has read the count before the second one and assigns last |
| `MCVdevKmdfSend.cfg` | `EveryBlockHasOneOwner` | `WdfRequestSend` refuses an allocation, whose memory nobody frees then |
| `MCWdf1394Deregistered.cfg` | `CountFollowsEveryReset` | the user takes away the reset routine that the driver registered: no update runs for the next reset |
| `MCWdf1394Removal.cfg` | `RemovalCompletes` | an isochronous record is left; the clean-up tests its list and takes from another, for ever |
| `MCWdf1394List.cfg` | `ListedDevicesExist` | each opening of the dialog counts the device again |
| `MCWdf1394Forward.cfg` | `EveryCallReturns` | forwarding fails and the result is not looked at |

Fairness (`KmdfSpec`, `HybridSpec`): weak fairness of each request in the driver and the filter
(threads run, and the bus answers what it was sent), of the reset routine, of work items, and of the
framework that starts and stops the device and presents queued requests. Nobody has to
call, to reset the bus or to remove the device.

### 5.4 Proofs (`VdevKmdfProofs`, `VdevTableProofs`, `Wdf1394Proofs`)

For any callers, windows, handles and memory blocks, any number of resets, and any `Faults` and `Ops` that the hypotheses
leave in. Assumed of the constants: those in `VdevKmdf`, that `None` is no caller
(`NoneIsNobody`), that `MaxListed` is a number (`ListBounded`). Every theorem but `CountIsCurrent` assumes `InlineBus`: without it
the packet is gone when the completion routine writes to it (run `vdev_packet`), and nothing that depends on the
handle in it can hold.

The driver has many actions. `VdevKmdfProofs` first says what they do to the requests and lists, in a
dozen ways (`CoreStep`: a request starts, is sent, is granted, refused, put on a list ...); `BlocksStep` says the same of
memory. Each invariant is proved from these shapes, so the actions themselves are opened twice only.

- `BlocksHaveOneOwner`: `EveryBlockHasOneOwner`, from `FlightInv` (a request waits in the manual queue once
  and has no IRB out; a routine holds a block exactly while an IRB that needs one is out), `OwnedOnce` (no two of the lists and routines have
  the same block, and what they have is allocated) and `NoneLeaks` (what is allocated, one of them has). The
  property counts owners; `OneOwner` turns the count into these two. It needs that
  `"send"` and `"mdl"` are not in `Faults`: the two failures after which nobody frees
  (`MCVdevKmdfSend.cfg`, `kmdf_vdev_api.c:774`). `OwnedOnce` holds with them too.
- `ListIsLedger`: `AddressListIsTheBusLedger`, from `LedgerInv`. The difficult part is a free that the bus
  refuses: its record is off the list while others allocate, and comes back.
- `CountIsCurrent`: `GenerationIsCurrent`, with no hypothesis: any number of resets and of late runs, any faults,
  any bus, whether or not the driver's reset routine is still registered. `CountInv` adds that no run belongs to a
  reset to come, and that each run that has read a count has read the bus's, unless the last reset overtook it. `overtaken` cannot be dropped (`MCVdevKmdfStale.cfg`); nor can the condition that the last
  reset's run succeeded (`MCWdf1394Deregistered.cfg`).
- `KmdfImplementsTable`: `ImplementsTable`. An allocation takes effect when the bus grants it, a free when the bus
  grants it, a lookup when it walks the list. `AnswerInv` says where a request of
  each operation can be and when it has a status. That a lookup sees what `AddressTable` says is `ListIsLedger`: the list
  may lack a range only while its call has not taken effect or is being freed.

`Wdf1394Proofs` puts filter and application on top. `MenuOps \subseteq Ops` there only says that `Ops` has the
operations that the menu asks for.

- `StackIsTyped`: `HybridType`.
- `CromIsTheBuss`, `RecordsAreLive`: `CromMatchesTheBus` and `IsochRecordsAreLive`. Records and bus change in two
  steps with no lock over both. `SerialInv` says why nobody comes between: a
  request of such an operation is in the driver only while the sequential queue serves it. `CromInv`
  and `IsochInv` then need to speak of one request only (`OneAtATime`).
- `StackBlocksHaveOneOwner`, `StackListIsLedger`: the two theorems of the driver, with the filter and every menu
  command on top (`StackStep`: each step of the whole is one of the driver or leaves it alone).

Only model-checked: the liveness properties.

## 6. The CY001 board

### 6.1 State and code

`Cy001` is one module for both drivers: `driver` says which is loaded, and only the handler
of the serial queue and what a forgotten request does to that queue differ.

| Variable | Code |
|---|---|
| `place`, `done` | each request: the queue it is on, or the handler or pipe that has it; how often it was completed since it was sent |
| `failed`, `loaded` | what an upload reported; the chunks it has written |
| `power`, `target`, `queuesOn` | the framework: where the device is between D0 and sleep or removal, where it is going, whether the power-managed queues deliver |
| `configured`, `reading` | `bIntPipeConfigured`; is the interrupt pipe's target started |
| `saved` | `byPre7Seg` and `byPreLEDs`, one register here |
| `display`, `ram`, `before` | the board: what it shows, its firmware, and what it showed when its power went off |

A handler that does not wait is one step; one that loops over a queue (`ClearSyncQueue`,
`InterruptReadStop`) or over chunks (`FirmwareUpload`) takes a step for each turn, and one
that sends a request on leaves the rest to the completion routine. The framework is external and
follows its contract: it turns queues off and waits for all the driver owns before `EvtDeviceD0Exit`;
a retrieval from a queue that is off answers `STATUS_WDF_PAUSED`; forwarding to a purged queue fails.

`OneUploadAtATime` is an assumption on the applications, which no line of the driver enforces: none asks for
an upload while another runs. The parallel queue would let it run; fault `"uploads"` drops the assumption
(`Cy001Uploads.cfg`).

Left out: bytes, lengths and descriptors; which of its requests a queue hands out first; the
classes of the C++ driver.

### 6.2 Runs

| Run | Question | Bounds |
|---|---|---|
| `cy001` | Is each request completed once and none forgotten, does `STOP_INT_READ` leave no read behind, does the display survive a sleep, is an upload in RAM, do calls and power-downs end? | 2 requests of any kind used again and again, both drivers, 2 display values, 2 chunks; key presses, cancels, both kinds of sleep and surprise removal between any two steps; no transfer fails while the board is there; one upload at a time |

Two requests make each race there is a race of two: a canceller, a key press, a drain, a purge
and a power-down against a request, and a request in a handler against another on a queue.

Deadlock is not looked for: a board that was pulled out stops the system. Liveness is checked instead.

| Configuration | Violates | What happens |
|---|---|---|
| `Cy001Sleep.cfg` | `SleepStrandsNoRead` | the queues are off when the power-down drains them: reads of keys stay, and nothing starts the reader again |
| `Cy001Uploads.cfg` | `UploadLoadsTheImage` | two uploads mix their chunks, and both succeed |
| `Cy001Usb.cfg` | `DisplaySurvivesSleep` | a transfer fails in `PwrD0Exit` or `PwrD0Entry`, whose result nobody reads |
| `Cy001Silent.cfg` | `PowerDownEnds` | a bulk read that is never answered keeps the framework waiting |
| `Cy001Serial.cfg` | `NoRequestIsLost` | the C++ driver's serial queue calls the parallel handler, which forwards the request to the queue it came from |

Fairness (`CySpec`): weak fairness of each request's handler and of the answer to it (the board answers, or
the control request's two seconds end), and of the framework's steps; strong fairness of each delivery,
because a queue may be turned off and on again and again, and per request, because a queue hands out the
oldest first. Nobody has to call, to cancel, to press a key, to put the machine to sleep or to unplug.

### 6.3 Proofs (`Cy001Proofs`)

For any requests, displays and chunks, from the assumption `Cy001Assumption` on the constants. The fifty
actions are gone over twice: `RequestsShape` says in which few ways a step changes the requests (one is sent,
one moves, some are answered, an upload goes on, a drain ends), `RestShape` which steps change
anything else. The invariants are then proved from the two:

- `TypesHold`, `OneCompletion`, `OnlyPurgesLose`: `CyType` and the two invariants, inside `IInv`. It adds
  that the serial queue serves one request (`SerialIsSerial`, theorem `OneAtATime`), that an upload has
  chunks left to write, and what the power machine guarantees (`StateInv`): a request
  whose handler stops the reader has stopped it, queues deliver only in D0 or just
  after the board was pulled out, and the driver owns nothing while the board is off.
- `DrainsAll`: `StopDrainsTheReads`, from `OneAtATime` and that the reader is stopped while its stop drains.
- `UploadsLoad`: `UploadLoadsTheImage` when `"uploads" \notin Faults`; `OneUpload` and `CountedIsLoaded` say that
  one request uploads at a time and that what it has counted is in RAM.
- `SleepKeepsDisplay`: `DisplaySurvivesSleep` when `"usb" \notin Faults`; `SavedIsShown` says that from
  `PwrD0Exit` until the wake the saved value is the one shown before.

Only model-checked: `EveryCallReturns` and `PowerDownEnds`, which are liveness properties.

## 7. Loading the inverted-call driver and running its service

### 7.1 State and code

| Variable | Code |
|---|---|
| `at` | the step `DriverEntry` is at, or unloaded, loaded, bug-checked |
| `block`, `extension`, `objects` | the names' pool blocks, those the device extensions point to, devices and links |
| `freedTwice` | has a block been freed that was not allocated: undefined, so the machine stops or nothing is noticed |
| `main`, `handler` | where `ServiceMain`'s thread and the control manager's thread are |
| `state`, `reported` | `m_Status.dwCurrentState`, and what the manager was last told |
| `m_bIsRunning`, `connected`, `event`, `irp` | the flag both threads use; is the control device open; the event and the IRP of `Run`'s `OVERLAPPED` |

`DriverEntry` is one action per allocation or object, each of which may fail; its failure paths are what they are
in the code, the frees that come twice included. Between the two threads of the service every access to
`m_Status` or `m_bIsRunning` is a step, and so is each call of `SetServiceStatus`, which is
taken to arrive at the manager at once. What the driver does with a control IRP is left open here; that is `OsrComm`.

### 7.2 Runs

Run `reflector`: the driver is loaded and unloaded, any step may fail (`LoadFaults`), and the
service is started and stopped, again and again; nothing is bounded. A driver that is
not loaded has left nothing; a turn of the loop leaves nothing; a stop ends.
A stop comes only once `m_bIsRunning` is set (`EarlyStop = FALSE`). Deadlock is not looked for, for a
bug-checked machine stops.

| Configuration | Violates | What happens |
|---|---|---|
| `ReflectorEarlyStop.cfg` | `StopEnds` | a stop between the report of `SERVICE_RUNNING` and `m_bIsRunning = TRUE` is overwritten |
| `ReflectorUnload.cfg` | `NoBlockIsFreedTwice` | a load that succeeds frees the driver's name, and so does `Unload` |
| `ReflectorFrame.cfg` | `FrameOutlivesItsIrp` | `Run` returns while the driver has the IRP of its stack variables |

Fairness (`ReflectorSpec`): weak fairness of both threads of the service and of the driver's taking a response. Nobody
has to load the driver, to start or stop the service, or to send a request.

### 7.3 Proofs (`ReflectorProofs`)

For every `LoadFaults` and `EarlyStop`: `TypesHold`, `NothingIsLeft`, `TurnsHoldNothing`, and `StoppedLetsGo`: a service that
has stopped has closed the control device, which is exclusive. `NothingIsLeft` needs
`HeldWhere`: at each step of `DriverEntry`, which blocks are allocated and which of them the
extensions point to. The other two need `HoldsWhere`: at each step of `Run` and
`ServiceMain`, whether the device, the event and the IRP are held. `StopEnds` is only model-checked.

## 8. Not modelled

- **Audio splitter.** What matters is what AVStream and the next filter do while the control mutex is
  dropped, and the source has only the calls.
- **Driver installer.** Dialogs in front of single SetupAPI calls; what they change is in Windows.
- **CY001 class installer, C++ class samples, first samples, INF files, AsioSimTool, the inverted-call
  test program.** No state that outlives a call, or nothing concurrent.
- **ASIO SDK and COM base classes.** Third-party sources.
- **C++ base class of the CY001 driver.** One static object serves every board; the model has one board.

Hazards seen in the code that no property covers, beyond those `PROJECT.json` lists with a reason:

- Virtual ASIO: `DrvUnload` may return while the DPC that set `StopDPCEvent` still returns (`Main.c:116`); `ulTicks`
  wraps and the next expiry is an absolute time (`ASIO.c:50`); a second program's handle changes the first one's
  stream (`ASIO.c:250`); `start()` in a running stream loses its thread (`asiosmpl.cpp:274`).
- CY001: `GetBulkPipe` looks for an interrupt pipe (`Util.c:120`); a new alternate setting leaves stale pipe
  handles (`DeviceIO.c:268`); a memory object per call lives as long as the device (`Util.c:318`); the status of an empty
  firmware image is never set (`Util.c:540`).
- 1394: a ROM entry whose MDL cannot be made leaks its buffer (`kmdf_vdev_api.c:774`, fault `"mdl"`); a resource whose
  record cannot be made is never freed (`kmdf_vdev_isoch.c:201`, fault `"record"`); two menu commands
  pass a handle where its address belongs and send nothing (`exe/isoch.c:862` and `1049`).
- Splitter: what `Pin.cpp:307` read before it dropped the mutex may be stale after.
