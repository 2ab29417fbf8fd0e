------------------------------- MODULE Cy001 -------------------------------
(* The driver of the CY001 USB board, in C (04/WDF_CY001) and in C++
   (06/WDF_CY001): five queues, of which the last two only hold what an event
   will complete,

      DeviceIoControl -> entry (parallel) -> serial (sequential) -> keys
                               |
                               +-> sync                     (both manual)
      ReadFile, WriteFile -> bulk (sequential)

   the continuous reader of the interrupt pipe, the display (digitron and LEDs,
   one register here) that is saved and restored around a sleep, and firmware
   that is loaded chunk by chunk.  The framework is external: the queues are
   power-managed, so it turns them off and waits for every request the driver
   owns before it takes the board out of D0, and a retrieval from a queue that
   is off answers STATUS_WDF_PAUSED.  Which of its requests a queue hands out
   first is left open.                                                         *)
EXTENDS Naturals

CONSTANTS
  Requests,     \* the requests of the application, each used again and again
  Drivers,      \* subset of {"C", "Cpp"}
  Displays,     \* values of the display register
  Chunks,       \* pieces of CHUNK_SIZE bytes of a firmware image
  Faults,       \* "usb": a transfer fails; "uploads": two uploads at a time
  BoardTalks,   \* a bulk read is answered
  None

ASSUME Cy001Assumption ==
  /\ Drivers \subseteq {"C", "Cpp"} /\ Drivers # {}
  /\ Displays # {} /\ Chunks \in Nat \ {0}
  /\ Faults \subseteq {"usb", "uploads"}
  /\ BoardTalks \in BOOLEAN
  /\ None \notin Requests

VARIABLES
  driver,        \* which of the two is loaded
  place,         \* where each request is
  done,          \* how often it was completed since it was sent
  failed,        \* its last completion reported a failed upload
  loaded,        \* chunks a running upload has written
  power, target, \* the framework's power state, and where it is going
  queuesOn,      \* the queues deliver and can be drained
  configured,    \* bIntPipeConfigured
  reading,       \* the interrupt pipe's target is started
  saved,         \* byPre7Seg, byPreLEDs
  display,       \* board: what the digitron and the LEDs show
  before,        \* what the board showed when its power went off
  ram            \* board: whose chunk is at each place of the firmware RAM

requestVars == <<place, done, failed, loaded>>
powerVars   == <<power, target, queuesOn>>
readerVars  == <<configured, reading>>
boardVars   == <<display, before, ram>>
vars == <<driver, requestVars, powerVars, readerVars, saved, boardVars>>

Queued == {"entry", "serial", "bulk", "sync", "keys"}

(* The driver owns a request from its presentation until it completes it or
   puts it on another queue; "lost" is owned and forgotten.                  *)
Owned  == {"parallel", "uploading", "releasing", "served", "stopping", "control",
           "bulkServed", "read", "written", "lost"}
Places == {"app"} \cup Queued \cup Owned

CyType ==
  /\ driver \in Drivers
  /\ place \in [Requests -> Places]
  /\ done \in [Requests -> 0..2]
  /\ failed \in [Requests -> BOOLEAN]
  /\ loaded \in [Requests -> 0..Chunks]
  /\ power \in {"absent", "entering", "D0", "surprised", "unplugged", "leaving",
                "exited", "asleep", "gone"}
  /\ target \in {"D2", "D3", "gone"}
  /\ queuesOn \in BOOLEAN /\ configured \in BOOLEAN /\ reading \in BOOLEAN
  /\ reading => configured
  /\ saved \in Displays /\ display \in Displays /\ before \in Displays \cup {None}
  /\ ram \in [1..Chunks -> Requests \cup {None}]

CyInit ==
  /\ driver \in Drivers
  /\ place = [r \in Requests |-> "app"]
  /\ done = [r \in Requests |-> 1]
  /\ failed = [r \in Requests |-> FALSE]
  /\ loaded = [r \in Requests |-> 0]
  /\ power = "absent" /\ target = "D3" /\ queuesOn = FALSE
  /\ configured = FALSE /\ reading = FALSE
  /\ display \in Displays /\ saved = display
  /\ before = None
  /\ ram = [c \in 1..Chunks |-> None]
-----------------------------------------------------------------------------
(* Requests and queues. *)

Works == target # "gone"                         \* a transfer on the bus may succeed
MayFail == target = "gone" \/ "usb" \in Faults     \* ... or fail
Purged == target = "gone" /\ power \in {"leaving", "exited", "gone"}

UNCHANGEDButRequests ==
  UNCHANGED <<driver, powerVars, readerVars, saved, boardVars>>

(* WdfRequestComplete of each of the requests; what a completion says is kept
   for uploads only.                                                         *)
Returns(rs, f) ==
  /\ place'  = [r \in Requests |-> IF r \in rs THEN "app" ELSE place[r]]
  /\ done'   = [r \in Requests |-> IF r \in rs /\ done[r] < 2 THEN done[r] + 1 ELSE done[r]]
  /\ failed' = [r \in Requests |-> IF r \in rs THEN f ELSE failed[r]]
  /\ loaded' = [r \in Requests |-> IF r \in rs THEN 0 ELSE loaded[r]]

CompletesAll(rs) == Returns(rs, FALSE)
Completes(r) == CompletesAll({r})
Fails(r) == Returns({r}, TRUE)

GoesTo(r, p) == /\ place' = [place EXCEPT ![r] = p]
                /\ UNCHANGED <<done, failed, loaded>>

(* WdfRequestForwardToIoQueue: a queue that is off still takes requests, a
   purged one does not.                                                      *)
ForwardsTo(r, q) == ~Purged /\ GoesTo(r, q)

(* WdfIoQueueRetrieveNextRequest succeeds with r, or finds nothing. *)
Retrieves(q, r) == queuesOn /\ place[r] = q
RetrievesNone(q) == \A r \in Requests : ~Retrieves(q, r)

CompletesOneOf(q) == \E r \in Requests : Retrieves(q, r) /\ Completes(r)

(* GetOneSyncRequest and CompleteSyncRequest. *)
CompleteSyncRequest ==
  \/ CompletesOneOf("sync")
  \/ RetrievesNone("sync") /\ UNCHANGED requestVars

Calls(r, q) ==
  /\ place[r] = "app" /\ power \notin {"absent", "gone"} /\ Works
  /\ place' = [place EXCEPT ![r] = q]
  /\ done' = [done EXCEPT ![r] = 0]
  /\ failed' = [failed EXCEPT ![r] = FALSE]
  /\ UNCHANGED loaded

DeviceIoControl(r) == Calls(r, "entry") /\ UNCHANGEDButRequests

ReadWriteFile(r) == Calls(r, "bulk") /\ UNCHANGEDButRequests

(* The application gives up a request that is queued or sent to a pipe. *)
Cancel(r) ==
  /\ place[r] \in Queued \cup {"read", "written"}
  /\ Completes(r) /\ UNCHANGEDButRequests

Idle(places) == \A r \in Requests : place[r] \notin places

EntryPresents(r) ==
  /\ queuesOn /\ place[r] = "entry" /\ GoesTo(r, "parallel") /\ UNCHANGEDButRequests

Presents(q, r, p, busy) ==
  Retrieves(q, r) /\ Idle(busy) /\ GoesTo(r, p) /\ UNCHANGEDButRequests

InSerial == {"served", "stopping", "control"}

(* In C++ a request that is never completed keeps its place in the queue. *)
SerialPresents(r) ==
  Presents("serial", r, "served", InSerial \cup IF driver = "Cpp" THEN {"lost"} ELSE {})

BulkPresents(r) == Presents("bulk", r, "bulkServed", {"bulkServed", "read", "written"})
-----------------------------------------------------------------------------
(* DeviceIoControlParallel. *)

InParallel(r) == place[r] = "parallel"

(* Requests that are answered on the spot, whatever the board said. *)
AnsweredAtOnce(r) == InParallel(r) /\ Completes(r) /\ UNCHANGEDButRequests

GetDriverVersion(r)     == AnsweredAtOnce(r)
GetDescriptors(r)       == AnsweredAtOnce(r)
SetInterface(r)         == AnsweredAtOnce(r)
FirmwareReset(r)        == AnsweredAtOnce(r)
PipeReset(r)            == AnsweredAtOnce(r)
GetLastError(r)         == AnsweredAtOnce(r)
UsbSetOrClearFeature(r) == AnsweredAtOnce(r)
ReadRAM(r)              == AnsweredAtOnce(r)

(* Mutant: a request parked on the sync queue is also completed. *)
UsbSync_Completes(r) ==
  /\ InParallel(r) /\ ~Purged
  /\ place' = [place EXCEPT ![r] = "sync"]
  /\ done' = [done EXCEPT ![r] = 1]
  /\ UNCHANGED <<failed, loaded>> /\ UNCHANGEDButRequests

UsbSync(r) == /\ InParallel(r)
              /\ \/ ForwardsTo(r, "sync")
                 \/ Purged /\ Completes(r)
              /\ UNCHANGEDButRequests

SyncRelease(r) == /\ InParallel(r) /\ GoesTo(r, "releasing") /\ UNCHANGEDButRequests

(* Mutant: the loop does not end at STATUS_WDF_PAUSED. *)
ClearSyncQueue_Spins(r) ==
  /\ place[r] = "releasing"
  /\ \/ CompletesOneOf("sync")
     \/ RetrievesNone("sync") /\ queuesOn /\ Completes(r)
  /\ UNCHANGEDButRequests

ClearSyncQueue(r) ==
  /\ place[r] = "releasing"
  /\ \/ CompletesOneOf("sync")
     \/ RetrievesNone("sync") /\ Completes(r)
  /\ UNCHANGEDButRequests

(* IOCTL_USB_ABORTPIPE, IOCTL_USB_PIPE_ABORT: what the pipe holds comes back. *)
AbortPipe(r) ==
  /\ InParallel(r) /\ Works
  /\ \E p \in {"read", "written"} :
       CompletesAll({r} \cup {x \in Requests : place[x] = p})
  /\ UNCHANGEDButRequests

(* IOCTL_FIRMWARE_UPLOAD: the parallel queue lets any number of them run. *)
UploadStarts(r) ==
  InParallel(r) /\ GoesTo(r, "uploading") /\ UNCHANGEDButRequests

(* An assumption on the applications, which no line of the driver enforces:
   none asks for an upload while another runs.                               *)
OneUploadAtATime == "uploads" \in Faults \/ Idle({"uploading"})

(* Mutant: the chunks are counted without the last, shorter one. *)
FirmwareUpload_Short(r) ==
  /\ place[r] = "uploading"
  /\ IF Works /\ loaded[r] + 1 < Chunks
     THEN /\ ram' = [ram EXCEPT ![loaded[r] + 1] = r]
          /\ loaded' = [loaded EXCEPT ![r] = @ + 1]
          /\ UNCHANGED <<place, done, failed>>
     ELSE Returns({r}, ~Works) /\ UNCHANGED ram
  /\ UNCHANGED <<driver, powerVars, readerVars, saved, display, before>>

(* One turn of FirmwareUpload's loop; the last one returns. *)
FirmwareUpload(r) ==
  /\ place[r] = "uploading"
  /\ LET i == loaded[r] + 1 IN
       \/ /\ Works /\ ram' = [ram EXCEPT ![i] = r]
          /\ IF i = Chunks THEN Completes(r)
             ELSE /\ loaded' = [loaded EXCEPT ![r] = i]
                  /\ UNCHANGED <<place, done, failed>>
       \/ MayFail /\ Fails(r) /\ UNCHANGED ram
  /\ UNCHANGED <<driver, powerVars, readerVars, saved, display, before>>

(* Mutant: nor does a queue that is off take the request. *)
ForwardToSerial_Off(r) ==
  /\ InParallel(r)
  /\ IF queuesOn THEN ForwardsTo(r, "serial") ELSE GoesTo(r, "lost")
  /\ UNCHANGEDButRequests

(* The default branch does not look at the result of forwarding. *)
ForwardToSerial(r) ==
  /\ InParallel(r)
  /\ \/ ForwardsTo(r, "serial")
     \/ Purged /\ GoesTo(r, "lost")
  /\ UNCHANGEDButRequests
-----------------------------------------------------------------------------
(* DeviceIoControlSerial in C; in C++ the serial queue calls the parallel
   handler, whose default branch forwards to the queue the request came from:
   the framework refuses and nobody completes it.                            *)

Served(r) == driver = "C" /\ place[r] = "served"

ParallelHandlesSerial(r) ==
  /\ driver = "Cpp" /\ place[r] = "served" /\ GoesTo(r, "lost") /\ UNCHANGEDButRequests

(* The request succeeds whether or not the transfer did. *)
Shows(r) ==
  /\ \/ Works /\ display' \in Displays
     \/ MayFail /\ UNCHANGED display
  /\ Completes(r)
  /\ UNCHANGED <<driver, powerVars, readerVars, saved, before, ram>>

SetDigitron(r) == Served(r) /\ Shows(r)
SetLEDs(r)     == Served(r) /\ Shows(r)
GetDigitron(r) == Served(r) /\ Completes(r) /\ UNCHANGEDButRequests
GetLEDs(r)     == Served(r) /\ Completes(r) /\ UNCHANGEDButRequests

(* Mutant: an unknown request is not completed. *)
UnknownRequest_Returns(r) == Served(r) /\ GoesTo(r, "lost") /\ UNCHANGEDButRequests

UnknownRequest(r) == Served(r) /\ Completes(r) /\ UNCHANGEDButRequests

UsbControlRequest(r) ==
  /\ Served(r)
  /\ \/ Works /\ GoesTo(r, "control")
     \/ Completes(r)
  /\ UNCHANGEDButRequests

(* The board answers, or the two seconds are over, or the board has gone. *)
ControlRequestComplete(r) ==
  /\ place[r] = "control"
  /\ Completes(r) /\ UNCHANGEDButRequests

(* Mutant: bIntPipeConfigured is never set. *)
InterruptReadStart_Unset(r) ==
  /\ Served(r)
  /\ \/ Works /\ reading' = TRUE /\ Completes(r)
     \/ MayFail /\ Completes(r) /\ UNCHANGED reading
  /\ UNCHANGED <<driver, powerVars, configured, saved, boardVars>>

(* The reader is configured once, then the pipe's target is started each time;
   a start that fails after it leaves the pipe configured.                    *)
InterruptReadStart(r) ==
  /\ Served(r)
  /\ \/ Works /\ configured' = TRUE /\ reading' = TRUE /\ Completes(r)
     \/ /\ MayFail /\ Completes(r)
        /\ configured' \in {configured, TRUE} /\ UNCHANGED reading
  /\ UNCHANGED <<driver, powerVars, saved, boardVars>>

ReadKeys(r) == /\ Served(r)
               /\ \/ ForwardsTo(r, "keys")
                  \/ Purged /\ Completes(r)
               /\ UNCHANGEDButRequests

InterruptReadStop(r) ==
  /\ Served(r) /\ GoesTo(r, "stopping") /\ reading' = FALSE
  /\ UNCHANGED <<driver, powerVars, configured, saved, boardVars>>

(* Mutant: the target is stopped, the queue is not drained. *)
InterruptReadDrains_Not(r) ==
  place[r] = "stopping" /\ Completes(r) /\ UNCHANGEDButRequests

InterruptReadDrains(r) ==
  /\ place[r] = "stopping"
  /\ \/ CompletesOneOf("keys")
     \/ RetrievesNone("keys") /\ Completes(r)
  /\ UNCHANGEDButRequests

(* A key is pressed: the reader's callback completes the oldest read, and
   drops the key when there is none.                                          *)
InterruptRead ==
  reading /\ Works /\ CompletesOneOf("keys") /\ UNCHANGEDButRequests
-----------------------------------------------------------------------------
(* BulkRead, BulkWrite and their completion routines. *)

Sends(r, p) ==
  /\ place[r] = "bulkServed"
  /\ \/ Works /\ GoesTo(r, p)
     \/ MayFail /\ Completes(r)
  /\ UNCHANGEDButRequests

BulkRead(r)  == Sends(r, "read")
BulkWrite(r) == Sends(r, "written")

(* The board's answer, or the failure of what a vanished board held. *)
SentCompletes(r, p) == place[r] = p /\ Completes(r) /\ UNCHANGEDButRequests

BulkReadComplete(r)  == (Works => BoardTalks) /\ SentCompletes(r, "read")
BulkWriteComplete(r) == SentCompletes(r, "written")
-----------------------------------------------------------------------------
(* Plug and Play and power. *)

PnpPrepareHardware ==
  /\ power = "absent" /\ power' = "entering"
  /\ UNCHANGED <<driver, requestVars, target, queuesOn, readerVars, saved, boardVars>>

(* Mutant: the display is restored from D3 in place of D2. *)
PwrD0Entry_FromD3 ==
  /\ power = "entering"
  /\ power' = "D0" /\ queuesOn' = TRUE /\ before' = None
  /\ display' = IF target = "D3" THEN saved ELSE display
  /\ CompleteSyncRequest
  /\ UNCHANGED <<driver, target, readerVars, saved, ram>>

(* CompleteSyncRequest(ENTERD0) finds its queue still off. *)
PwrD0Entry ==
  /\ power = "entering"
  /\ power' = "D0" /\ queuesOn' = TRUE /\ before' = None
  /\ IF target = "D2" THEN \/ display' = saved
                           \/ MayFail /\ UNCHANGED display
                      ELSE UNCHANGED display
  /\ CompleteSyncRequest
  /\ UNCHANGED <<driver, target, readerVars, saved, ram>>

(* Idle for ten seconds (D2), or the system sleeps. *)
Sleeps(t) ==
  /\ power = "D0" /\ power' = "leaving" /\ target' = t /\ queuesOn' = FALSE
  /\ UNCHANGED <<driver, requestVars, readerVars, saved, boardVars>>

(* The framework has waited for what the driver owns.  The drains of the sync
   and keys queues find them off.                                            *)
PwrD0Exit ==
  /\ power = "leaving" /\ Idle(Owned) /\ power' = "exited"
  /\ IF target = "D2" THEN \/ saved' = display
                           \/ MayFail /\ UNCHANGED saved
                      ELSE UNCHANGED saved
  /\ reading' = FALSE
  /\ CompleteSyncRequest
  /\ UNCHANGED <<driver, target, queuesOn, configured, boardVars>>

(* The board is off: it comes back with any display and without firmware. *)
PowerGoesOff ==
  /\ power = "exited" /\ target # "gone" /\ power' = "asleep"
  /\ before' = display /\ display' \in Displays
  /\ ram' = [c \in 1..Chunks |-> None]
  /\ UNCHANGED <<driver, requestVars, target, queuesOn, readerVars, saved>>

Wakes ==
  /\ power = "asleep" /\ power' = "entering"
  /\ UNCHANGED <<driver, requestVars, target, queuesOn, readerVars, saved, boardVars>>

(* The board is pulled out: EvtDeviceSurpriseRemoval, then the purge. *)
PnpSurpriseRemove ==
  /\ power \in {"D0", "asleep"}
  /\ power' = IF power = "D0" THEN "surprised" ELSE "unplugged"
  /\ target' = "gone" /\ before' = None
  /\ CompleteSyncRequest
  /\ UNCHANGED <<driver, queuesOn, readerVars, saved, display, ram>>

PurgeQueues ==
  /\ power \in {"surprised", "unplugged"}
  /\ power' = IF power = "surprised" THEN "leaving" ELSE "exited"
  /\ queuesOn' = FALSE
  /\ CompletesAll({r \in Requests : place[r] \in Queued})
  /\ UNCHANGED <<driver, target, readerVars, saved, boardVars>>

PnpReleaseHardware ==
  /\ power = "exited" /\ target = "gone" /\ power' = "gone"
  /\ UNCHANGED <<driver, requestVars, target, queuesOn, readerVars, saved, boardVars>>
-----------------------------------------------------------------------------
Handlers(r) ==
  \/ GetDriverVersion(r) \/ GetDescriptors(r) \/ SetInterface(r) \/ FirmwareReset(r)
  \/ PipeReset(r) \/ GetLastError(r) \/ UsbSetOrClearFeature(r) \/ ReadRAM(r)
  \/ UsbSync(r) \/ SyncRelease(r) \/ ClearSyncQueue(r) \/ AbortPipe(r)
  \/ (UploadStarts(r) /\ OneUploadAtATime) \/ FirmwareUpload(r) \/ ForwardToSerial(r)
  \/ ParallelHandlesSerial(r) \/ SetDigitron(r) \/ SetLEDs(r)
  \/ GetDigitron(r) \/ GetLEDs(r)  \/ UnknownRequest(r) \/ UsbControlRequest(r) \/ InterruptReadStart(r)
  \/ ReadKeys(r) \/ InterruptReadStop(r) \/ InterruptReadDrains(r) \/ BulkRead(r) \/ BulkWrite(r)

Answers(r) == ControlRequestComplete(r) \/ BulkReadComplete(r) \/ BulkWriteComplete(r)

Framework == PnpPrepareHardware \/ PwrD0Entry \/ PwrD0Exit \/ PowerGoesOff
             \/ Wakes \/ PurgeQueues \/ PnpReleaseHardware

CyNext ==
  \/ \E r \in Requests :
       \/ DeviceIoControl(r) \/ ReadWriteFile(r) \/ Cancel(r)
       \/ EntryPresents(r) \/ SerialPresents(r) \/ BulkPresents(r)
       \/ Handlers(r) \/ Answers(r)
  \/ InterruptRead
  \/ Framework \/ PnpSurpriseRemove
  \/ \E t \in {"D2", "D3"} : Sleeps(t)

(* Handlers run, the bus answers or times out, the framework takes its steps
   and a sleeping machine wakes.  A queue may be turned off again and again, so
   its deliveries are strongly fair, and to each request, for it hands out the
   oldest first.  Nobody has to call, cancel, press a key, put the machine to
   sleep or pull out the board.                                               *)
CyFairness ==
  /\ \A r \in Requests : /\ WF_vars(Handlers(r)) /\ WF_vars(Answers(r))
                         /\ SF_vars(EntryPresents(r))
                         /\ SF_vars(SerialPresents(r)) /\ SF_vars(BulkPresents(r))
  /\ WF_vars(Framework)

CySpec == CyInit /\ [][CyNext]_vars /\ CyFairness
-----------------------------------------------------------------------------
(* A request is completed once for each time it is sent: none while a queue, a
   handler or the bus still has it, none twice, whoever of the canceller, the
   reader, the drains and the purge comes first.                             *)
CompletedOnce == \A r \in Requests : done[r] = IF place[r] = "app" THEN 1 ELSE 0

(* A sequential queue never has two requests with its handlers, however the
   parallel handler, forwarding and power changes interleave.                *)
SerialIsSerial ==
  \A r, s \in Requests : place[r] \in InSerial /\ place[s] \in InSerial => r = s

(* The C driver loses a request only when the purge of a removal overtakes the
   forwarding to the serial queue, whose result nobody reads.                *)
LostOnlyToAPurge == \A r \in Requests : place[r] = "lost" => driver = "Cpp" \/ Purged

(* IOCTL_STOP_INT_READ returns with no read of keys left, unless the queues
   were turned off meanwhile: the reader that would complete them has stopped. *)
StopDrainsTheReads ==
  [][\A r \in Requests : place[r] = "stopping" /\ place'[r] = "app" /\ queuesOn
       => ~reading' /\ \A k \in Requests : place'[k] # "keys"]_vars

(* What the board shows survives a sleep in D2, whatever is written to it before
   the framework has waited for the requests under way.                      *)
DisplaySurvivesSleep ==
  [][power = "entering" /\ power' = "D0" /\ target = "D2" /\ before # None
       => display' = before]_vars

(* An upload that reports success has put every chunk of its image into RAM. *)
UploadLoadsTheImage ==
  [][\A r \in Requests : place[r] = "uploading" /\ place'[r] = "app" /\ ~failed'[r]
       => \A c \in 1..Chunks : ram'[c] = r]_vars

(* Every request of the C driver comes back or is parked on the queue its event
   completes; a release may run as long as new sync requests arrive.          *)
EveryCallReturns ==
  \A r \in Requests :
    driver = "C" /\ place[r] # "app"
      ~> place[r] \in {"app", "sync", "keys", "releasing"} \/ (place[r] = "lost" /\ Purged)

(* A sleep or a removal of the board ends: nothing the C driver holds keeps the
   framework waiting, but for a request lost to the purge.                    *)
PowerDownEnds ==
  driver = "C" /\ power = "leaving"
    ~> power # "leaving" \/ \E r \in Requests : place[r] = "lost"

(* PwrD0Exit strands no read of keys when it stops the reader that would
   complete them: nothing starts the reader again when the board wakes.       *)
SleepStrandsNoRead ==
  [][power = "leaving" /\ power' = "exited" /\ reading
       => \A k \in Requests : place'[k] # "keys"]_vars

(* While the board works no request is lost in a handler. *)
NoRequestIsLost == Works => \A r \in Requests : place[r] # "lost"
=============================================================================
