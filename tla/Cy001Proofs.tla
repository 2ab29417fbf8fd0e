---------------------------- MODULE Cy001Proofs ----------------------------
(***************************************************************************)
(* Theorems about Cy001, for any number of requests, chunks and display     *)
(* values, either driver, and whatever is unplugged when.                   *)
(*                                                                          *)
(* The argument goes over what a step does to the requests, not over the    *)
(* fifty actions each time: RequestsShape says once that a step leaves the  *)
(* requests alone, sends one, moves one under the conditions of May, answers *)
(* some that nobody uploads or drains for, takes an upload on, or ends a    *)
(* drain.  RestShape says which steps touch anything else.  The invariants  *)
(* follow from the two.                                                     *)
(***************************************************************************)
EXTENDS Cy001, TLAPS

-----------------------------------------------------------------------------
(* What a step does to the requests.                                         *)

Busy == {"app", "uploading", "stopping"}

\* Under which conditions r may be moved to p.
May(r, p) ==
  /\ place[r] \notin {"app", "uploading"}
  /\ p \in InSerial => place[r] \in InSerial \/ Idle(InSerial)
  /\ p \in Owned => place[r] \in Owned \/ queuesOn
  /\ p = "lost" => driver = "Cpp" \/ Purged
  /\ p = "uploading" => "uploads" \in Faults \/ Idle({"uploading"})
  /\ p = "stopping" => reading' = FALSE

Sent     == \E r \in Requests, q \in {"entry", "bulk"} : Calls(r, q)
Moved    == \E r \in Requests, p \in Places \ {"app"} : GoesTo(r, p) /\ May(r, p)
Answered == \E rs \in SUBSET {x \in Requests : place[x] \notin Busy} : CompletesAll(rs)
Uploaded == \E r \in Requests : FirmwareUpload(r)
Drained  == \E r \in Requests :
              place[r] = "stopping" /\ RetrievesNone("keys") /\ Completes(r) /\ UNCHANGED reading

RequestsStep ==
  UNCHANGED requestVars \/ Sent \/ Moved \/ Answered \/ Uploaded \/ Drained

LEMMA MovedOne ==
  ASSUME NEW r \in Requests, NEW p \in Places \ {"app"}, GoesTo(r, p), May(r, p)
  PROVE  RequestsStep
BY DEF RequestsStep, Moved

LEMMA AnsweredOne ==
  ASSUME NEW r \in Requests, place[r] \notin Busy, Completes(r)
  PROVE  RequestsStep
<1>1. {r} \in SUBSET {x \in Requests : place[x] \notin Busy}
      OBVIOUS
<1> QED BY <1>1 DEF RequestsStep, Answered, Completes

LEMMA AnsweredSome ==
  ASSUME NEW rs, rs \subseteq {x \in Requests : place[x] \notin Busy}, CompletesAll(rs)
  PROVE  RequestsStep
BY DEF RequestsStep, Answered

LEMMA SyncShape ==
  ASSUME CompleteSyncRequest
  PROVE  RequestsStep
<1>1. CASE UNCHANGED requestVars
      BY <1>1 DEF RequestsStep
<1>2. CASE CompletesOneOf("sync")
      BY <1>2, AnsweredOne DEF CompletesOneOf, Retrieves, Busy
<1> QED BY <1>1, <1>2 DEF CompleteSyncRequest

\* The handlers of the parallel queue.
LEMMA ParallelShape ==
  ASSUME NEW r \in Requests,
         \/ GetDriverVersion(r) \/ GetDescriptors(r) \/ SetInterface(r) \/ FirmwareReset(r)
         \/ PipeReset(r) \/ GetLastError(r) \/ UsbSetOrClearFeature(r) \/ ReadRAM(r)
         \/ UsbSync(r) \/ SyncRelease(r) \/ ClearSyncQueue(r) \/ AbortPipe(r)
         \/ (UploadStarts(r) /\ OneUploadAtATime) \/ ForwardToSerial(r)
  PROVE  RequestsStep
<1>1. CASE AnsweredAtOnce(r)
      BY <1>1, AnsweredOne DEF AnsweredAtOnce, InParallel, Busy
<1>2. CASE UsbSync(r)
  <2>1. CASE ForwardsTo(r, "sync")
        BY <1>2, <2>1, MovedOne
        DEF UsbSync, InParallel, ForwardsTo, May, InSerial, Owned, Places, Queued
  <2>2. CASE Completes(r)
        BY <1>2, <2>2, AnsweredOne DEF UsbSync, InParallel, Busy
  <2> QED BY <1>2, <2>1, <2>2 DEF UsbSync
<1>3. CASE SyncRelease(r)
      BY <1>3, MovedOne DEF SyncRelease, InParallel, May, InSerial, Owned, Places
<1>4. CASE ClearSyncQueue(r)
  <2>1. CASE CompletesOneOf("sync")
        BY <2>1, AnsweredOne DEF CompletesOneOf, Retrieves, Busy
  <2>2. CASE Completes(r)
        BY <1>4, <2>2, AnsweredOne DEF ClearSyncQueue, Busy
  <2> QED BY <1>4, <2>1, <2>2 DEF ClearSyncQueue
<1>5. CASE AbortPipe(r)
  <2>1. PICK p \in {"read", "written"} :
          CompletesAll({r} \cup {x \in Requests : place[x] = p})
        BY <1>5 DEF AbortPipe
  <2> QED BY <1>5, <2>1, AnsweredSome DEF AbortPipe, InParallel, Busy
<1>6. CASE UploadStarts(r) /\ OneUploadAtATime
      BY <1>6, MovedOne DEF UploadStarts, OneUploadAtATime, InParallel, May, InSerial, Owned, Places
<1>7. CASE ForwardToSerial(r)
  <2>1. CASE ForwardsTo(r, "serial")
        BY <1>7, <2>1, MovedOne
        DEF ForwardToSerial, InParallel, ForwardsTo, May, InSerial, Owned, Places, Queued
  <2>2. CASE Purged /\ GoesTo(r, "lost")
        BY <1>7, <2>2, MovedOne
        DEF ForwardToSerial, InParallel, May, InSerial, Owned, Places
  <2> QED BY <1>7, <2>1, <2>2 DEF ForwardToSerial
<1> QED BY <1>1, <1>2, <1>3, <1>4, <1>5, <1>6, <1>7
        DEF GetDriverVersion, GetDescriptors, SetInterface, FirmwareReset, PipeReset,
            GetLastError, UsbSetOrClearFeature, ReadRAM

\* The handlers of the serial queue and of the bulk queue.
LEMMA SerialShape ==
  ASSUME NEW r \in Requests,
         \/ ParallelHandlesSerial(r) \/ SetDigitron(r) \/ SetLEDs(r) \/ GetDigitron(r)
         \/ GetLEDs(r) \/ UnknownRequest(r) \/ UsbControlRequest(r)
         \/ InterruptReadStart(r) \/ ReadKeys(r) \/ InterruptReadStop(r)
         \/ InterruptReadDrains(r) \/ BulkRead(r) \/ BulkWrite(r)
  PROVE  RequestsStep
<1>1. CASE ParallelHandlesSerial(r)
      BY <1>1, MovedOne DEF ParallelHandlesSerial, May, InSerial, Owned, Places
<1>2. CASE Served(r) /\ Completes(r)
      BY <1>2, AnsweredOne DEF Served, Busy
<1>3. CASE Served(r) /\ GoesTo(r, "control")
      BY <1>3, MovedOne DEF Served, May, InSerial, Owned, Places
<1>4. CASE Served(r) /\ GoesTo(r, "keys")
      BY <1>4, MovedOne DEF Served, May, InSerial, Owned, Places, Queued
<1>5. CASE InterruptReadStop(r)
      BY <1>5, MovedOne DEF InterruptReadStop, Served, May, InSerial, Owned, Places
<1>6. CASE InterruptReadDrains(r)
  <2>1. CASE CompletesOneOf("keys")
        BY <2>1, AnsweredOne DEF CompletesOneOf, Retrieves, Busy
  <2>2. CASE RetrievesNone("keys") /\ Completes(r)
        BY <1>6, <2>2 DEF InterruptReadDrains, UNCHANGEDButRequests, readerVars, RequestsStep, Drained
  <2> QED BY <1>6, <2>1, <2>2 DEF InterruptReadDrains
<1>7. CASE BulkRead(r) \/ BulkWrite(r)
  <2>1. CASE Completes(r)
        BY <1>7, <2>1, AnsweredOne DEF BulkRead, BulkWrite, Sends, Busy
  <2>2. CASE GoesTo(r, "read") \/ GoesTo(r, "written")
        BY <1>7, <2>2, MovedOne DEF BulkRead, BulkWrite, Sends, May, InSerial, Owned, Places
  <2> QED BY <1>7, <2>1, <2>2 DEF BulkRead, BulkWrite, Sends
<1> QED BY <1>1, <1>2, <1>3, <1>4, <1>5, <1>6, <1>7
        DEF SetDigitron, SetLEDs, Shows, GetDigitron, GetLEDs, UnknownRequest,
            UsbControlRequest, InterruptReadStart, ReadKeys, ForwardsTo

\* A step leaves the requests alone or does one of five things to them.
LEMMA RequestsShape ==
  ASSUME [CyNext]_vars
  PROVE  RequestsStep
<1>1. CASE UNCHANGED vars
      BY <1>1 DEF vars, RequestsStep
<1>2. ASSUME NEW r \in Requests, DeviceIoControl(r) \/ ReadWriteFile(r) PROVE RequestsStep
      BY <1>2 DEF DeviceIoControl, ReadWriteFile, RequestsStep, Sent
<1>3. ASSUME NEW r \in Requests, Cancel(r) PROVE RequestsStep
      BY <1>3, AnsweredOne DEF Cancel, Queued, Busy
<1>4. ASSUME NEW r \in Requests, EntryPresents(r) PROVE RequestsStep
      BY <1>4, MovedOne DEF EntryPresents, May, InSerial, Owned, Places
<1>5. ASSUME NEW r \in Requests, SerialPresents(r) PROVE RequestsStep
  <2>1. Idle(InSerial)
        BY <1>5 DEF SerialPresents, Presents, Idle
  <2> QED BY <1>5, <2>1, MovedOne
          DEF SerialPresents, Presents, Retrieves, May, InSerial, Owned, Places
<1>6. ASSUME NEW r \in Requests, BulkPresents(r) PROVE RequestsStep
      BY <1>6, MovedOne DEF BulkPresents, Presents, Retrieves, May, InSerial, Owned, Places
<1>7. ASSUME NEW r \in Requests, Handlers(r) PROVE RequestsStep
  <2>1. CASE FirmwareUpload(r)
        BY <2>1 DEF RequestsStep, Uploaded
  <2> QED BY <1>7, <2>1, ParallelShape, SerialShape DEF Handlers
<1>8. ASSUME NEW r \in Requests, Answers(r) PROVE RequestsStep
      BY <1>8, AnsweredOne
      DEF Answers, ControlRequestComplete, BulkReadComplete, BulkWriteComplete,
          SentCompletes, Busy
<1>9. CASE InterruptRead
      BY <1>9, AnsweredOne DEF InterruptRead, CompletesOneOf, Retrieves, Busy
<1>10. CASE Framework
  <2>1. CASE PwrD0Entry \/ PwrD0Exit
        BY <2>1, SyncShape DEF PwrD0Entry, PwrD0Exit
  <2>2. CASE PurgeQueues
        BY <2>2, AnsweredSome DEF PurgeQueues, Queued, Busy
  <2> QED BY <1>10, <2>1, <2>2
          DEF Framework, PnpPrepareHardware, PowerGoesOff, Wakes, PnpReleaseHardware,
              RequestsStep
<1>11. CASE PnpSurpriseRemove
       BY <1>11, SyncShape DEF PnpSurpriseRemove
<1>12. ASSUME NEW t, Sleeps(t) PROVE RequestsStep
       BY <1>12 DEF Sleeps, RequestsStep
<1> QED BY <1>1, <1>2, <1>3, <1>4, <1>5, <1>6, <1>7, <1>8, <1>9, <1>10, <1>11, <1>12
        DEF CyNext

-----------------------------------------------------------------------------
(* What a step does to everything else.                                      *)

Handled(r) == FirmwareUpload(r) \/ SetDigitron(r) \/ SetLEDs(r)
              \/ InterruptReadStart(r) \/ InterruptReadStop(r)

Powered == Framework \/ PnpSurpriseRemove \/ \E t \in {"D2", "D3"} : Sleeps(t)

RestStep == UNCHANGEDButRequests \/ (\E r \in Requests : Handled(r)) \/ Powered

LEMMA RestShape ==
  ASSUME [CyNext]_vars
  PROVE  RestStep
<1>1. CASE UNCHANGED vars
      BY <1>1 DEF vars, RestStep, UNCHANGEDButRequests
<1>2. ASSUME NEW r \in Requests,
             \/ DeviceIoControl(r) \/ ReadWriteFile(r) \/ Cancel(r)
             \/ EntryPresents(r) \/ SerialPresents(r) \/ BulkPresents(r) \/ Answers(r)
      PROVE  RestStep
      BY <1>2 DEF DeviceIoControl, ReadWriteFile, Cancel, EntryPresents, SerialPresents,
                  BulkPresents, Presents, Answers, ControlRequestComplete,
                  BulkReadComplete, BulkWriteComplete, SentCompletes, RestStep
<1>3. ASSUME NEW r \in Requests, Handlers(r) PROVE RestStep
  <2>1. CASE Handled(r)
        BY <2>1 DEF RestStep
  <2>2. CASE ~Handled(r)
        BY <1>3, <2>2
        DEF Handlers, Handled, GetDriverVersion, GetDescriptors, SetInterface,
            FirmwareReset, PipeReset, GetLastError, UsbSetOrClearFeature, ReadRAM,
            AnsweredAtOnce, UsbSync, SyncRelease, ClearSyncQueue, AbortPipe,
            UploadStarts, ForwardToSerial, ParallelHandlesSerial, GetDigitron, GetLEDs,
            UnknownRequest, UsbControlRequest, ReadKeys, InterruptReadDrains, BulkRead,
            BulkWrite, Sends, RestStep
  <2> QED BY <2>1, <2>2
<1>4. CASE InterruptRead
      BY <1>4 DEF InterruptRead, RestStep
<1>5. CASE Powered
      BY <1>5 DEF RestStep
<1> QED BY <1>1, <1>2, <1>3, <1>4, <1>5 DEF CyNext, Powered

-----------------------------------------------------------------------------
(* The inductive invariant.  A queue delivers only in D0, and nothing is with a *)
(* handler or on the bus while the board is off: the framework has waited.      *)

StoppingHasStopped == \A r \in Requests : place[r] = "stopping" => ~reading

OnlyD0Delivers == queuesOn <=> power \in {"D0", "surprised"}

Off == {"absent", "exited", "asleep", "entering", "unplugged", "gone"}
QuietWhileOff == power \in Off => Idle(Owned)

UploadsEndInTime ==
  \A r \in Requests : loaded[r] < Chunks /\ (place[r] # "uploading" => loaded[r] = 0)

RequestsInv == CompletedOnce /\ SerialIsSerial /\ LostOnlyToAPurge /\ UploadsEndInTime
StateInv    == StoppingHasStopped /\ OnlyD0Delivers /\ QuietWhileOff

IInv == CyType /\ RequestsInv /\ StateInv

RequestsType ==
  /\ place \in [Requests -> Places]
  /\ done \in [Requests -> 0..2]
  /\ failed \in [Requests -> BOOLEAN]
  /\ loaded \in [Requests -> 0..Chunks]

RestType ==
  /\ driver \in Drivers
  /\ power \in {"absent", "entering", "D0", "surprised", "unplugged", "leaving",
                "exited", "asleep", "gone"}
  /\ target \in {"D2", "D3", "gone"}
  /\ queuesOn \in BOOLEAN /\ configured \in BOOLEAN /\ reading \in BOOLEAN
  /\ reading => configured
  /\ saved \in Displays /\ display \in Displays /\ before \in Displays \cup {None}
  /\ ram \in [1..Chunks -> Requests \cup {None}]

LEMMA TypeParts == CyType <=> RequestsType /\ RestType
BY DEF CyType, RequestsType, RestType

LEMMA TypePartsNext == CyType' <=> RequestsType' /\ RestType'
BY DEF CyType, RequestsType, RestType

LEMMA InvInit == CyInit => IInv
<1> SUFFICES ASSUME CyInit PROVE IInv
    OBVIOUS
<1> USE Cy001Assumption
<1>1. RequestsType
      BY DEF CyInit, RequestsType, Places
<1>2. RestType
  <2>1. saved \in Displays /\ display \in Displays /\ ram \in [1..Chunks -> Requests \cup {None}]
        BY DEF CyInit
  <2>2. configured \in BOOLEAN /\ reading \in BOOLEAN /\ queuesOn \in BOOLEAN
        BY Zenon DEF CyInit
  <2> QED BY <2>1, <2>2 DEF CyInit, RestType
<1>3. RequestsInv
      BY DEF CyInit, RequestsInv, CompletedOnce, SerialIsSerial, LostOnlyToAPurge,
             UploadsEndInTime, InSerial
<1>4. StateInv
      BY DEF CyInit, StateInv, StoppingHasStopped, OnlyD0Delivers, QuietWhileOff,
             Idle, Owned
<1> QED BY <1>1, <1>2, <1>3, <1>4, TypeParts DEF IInv

\* A turn of an upload's loop returns, or counts a chunk that is not the last.
LEMMA UploadTurns ==
  ASSUME NEW r \in Requests, FirmwareUpload(r)
  PROVE  /\ place[r] = "uploading"
         /\ \/ \E f \in BOOLEAN : Returns({r}, f)
            \/ /\ loaded' = [loaded EXCEPT ![r] = loaded[r] + 1] /\ loaded[r] + 1 # Chunks
               /\ UNCHANGED <<place, done, failed>>
<1>1. CASE Returns({r}, FALSE) \/ Returns({r}, TRUE)
      BY <1>1 DEF FirmwareUpload
<1> QED BY <1>1 DEF FirmwareUpload, Completes, Fails, CompletesAll

\* An answer: what a set of requests that nobody uploads for becomes.
LEMMA ReturnsKeepsType ==
  ASSUME RequestsType, NEW rs, NEW f \in BOOLEAN, Returns(rs, f)
  PROVE  RequestsType'
BY Cy001Assumption DEF RequestsType, Returns, Places

LEMMA RequestsTypeNext ==
  ASSUME RequestsType, UploadsEndInTime, RequestsStep
  PROVE  RequestsType'
<1>1. CASE UNCHANGED requestVars
      BY <1>1 DEF RequestsType, requestVars
<1>2. CASE Sent
      BY <1>2 DEF Sent, Calls, RequestsType, Places, Queued
<1>3. CASE Moved
      BY <1>3 DEF Moved, GoesTo, RequestsType
<1>4. CASE Answered
      BY <1>4, ReturnsKeepsType DEF Answered, CompletesAll
<1>5. CASE Drained
      BY <1>5, ReturnsKeepsType DEF Drained, Completes, CompletesAll
<1>6. CASE Uploaded
  <2>1. PICK r \in Requests : FirmwareUpload(r)
        BY <1>6 DEF Uploaded
  <2>2. CASE \E f \in BOOLEAN : Returns({r}, f)
        BY <2>2, ReturnsKeepsType
  <2>3. CASE /\ loaded' = [loaded EXCEPT ![r] = loaded[r] + 1] /\ loaded[r] + 1 # Chunks
             /\ UNCHANGED <<place, done, failed>>
        BY <2>3, Cy001Assumption DEF RequestsType, UploadsEndInTime
  <2> QED BY <2>1, <2>2, <2>3, UploadTurns
<1> QED BY <1>1, <1>2, <1>3, <1>4, <1>5, <1>6 DEF RequestsStep

LEMMA RestTypeNext ==
  ASSUME RestType, RequestsType, UploadsEndInTime, RestStep
  PROVE  RestType'
<1>1. CASE UNCHANGEDButRequests
      BY <1>1 DEF UNCHANGEDButRequests, RestType, powerVars, readerVars, boardVars
<1>2. ASSUME NEW r \in Requests, FirmwareUpload(r) PROVE RestType'
  <2>1. loaded[r] + 1 \in 1..Chunks
        BY Cy001Assumption DEF RequestsType, UploadsEndInTime
  <2>2. ram' \in [1..Chunks -> Requests \cup {None}]
        BY <1>2, <2>1 DEF FirmwareUpload, RestType
  <2> QED BY <1>2, <2>2 DEF FirmwareUpload, RestType, powerVars, readerVars
<1>3. ASSUME NEW r \in Requests, SetDigitron(r) \/ SetLEDs(r) PROVE RestType'
      BY <1>3 DEF SetDigitron, SetLEDs, Shows, RestType, powerVars, readerVars
<1>4. ASSUME NEW r \in Requests, InterruptReadStart(r) \/ InterruptReadStop(r) PROVE RestType'
  <2>1. configured' \in BOOLEAN /\ reading' \in BOOLEAN /\ (reading' => configured')
    <3>1. CASE configured' = TRUE /\ reading' = TRUE
          BY <3>1
    <3>2. CASE reading' = FALSE /\ UNCHANGED configured
          BY <3>2 DEF RestType
    <3>3. CASE configured' \in {configured, TRUE} /\ UNCHANGED reading
          BY <3>3 DEF RestType
    <3> QED BY <1>4, <3>1, <3>2, <3>3 DEF InterruptReadStart, InterruptReadStop
  <2> QED BY <1>4, <2>1
          DEF InterruptReadStart, InterruptReadStop, RestType, powerVars, boardVars
<1>5. CASE PnpPrepareHardware \/ Wakes \/ PnpReleaseHardware
      BY <1>5 DEF PnpPrepareHardware, Wakes, PnpReleaseHardware, RestType, readerVars, boardVars
<1>6. CASE PwrD0Entry
      BY <1>6 DEF PwrD0Entry, RestType, readerVars
<1>7. CASE PwrD0Exit
      BY <1>7 DEF PwrD0Exit, RestType, boardVars
<1>8. CASE PowerGoesOff
      BY <1>8 DEF PowerGoesOff, RestType, readerVars
<1>9. CASE PurgeQueues
      BY <1>9 DEF PurgeQueues, RestType, readerVars, boardVars
<1>10. CASE PnpSurpriseRemove
       BY <1>10 DEF PnpSurpriseRemove, RestType, readerVars
<1>11. ASSUME NEW t \in {"D2", "D3"}, Sleeps(t) PROVE RestType'
       BY <1>11 DEF Sleeps, RestType, readerVars, boardVars
<1> QED BY <1>1, <1>2, <1>3, <1>4, <1>5, <1>6, <1>7, <1>8, <1>9, <1>10, <1>11
        DEF RestStep, Handled, Powered, Framework

-----------------------------------------------------------------------------
(* The invariant is kept.                                                    *)

LEMMA PurgedStays ==
  ASSUME RestStep
  PROVE  driver' = driver /\ (Purged => Purged')
BY DEF RestStep, UNCHANGEDButRequests, Handled, FirmwareUpload, SetDigitron, SetLEDs, Shows,
       InterruptReadStart, InterruptReadStop, Powered, Framework, PnpPrepareHardware,
       PwrD0Entry, PwrD0Exit, PowerGoesOff, Wakes, PurgeQueues, PnpReleaseHardware,
       PnpSurpriseRemove, Sleeps, powerVars, Purged

LEMMA CompletedOnceNext ==
  ASSUME RequestsType, CompletedOnce, RequestsStep
  PROVE  CompletedOnce'
<1> USE DEF RequestsType, CompletedOnce
<1>1. CASE UNCHANGED requestVars
      BY <1>1 DEF requestVars
<1>2. CASE Sent
      BY <1>2 DEF Sent, Calls
<1>3. CASE Moved
      BY <1>3 DEF Moved, GoesTo, May
<1>4. CASE Answered
      BY <1>4 DEF Answered, CompletesAll, Returns, Busy
<1>5. CASE Drained
      BY <1>5 DEF Drained, Completes, CompletesAll, Returns
<1>6. CASE Uploaded
  <2>1. PICK r \in Requests : FirmwareUpload(r)
        BY <1>6 DEF Uploaded
  <2>2. CASE \E f \in BOOLEAN : Returns({r}, f)
    <3>1. place[r] = "uploading"
          BY <2>1, UploadTurns
    <3>2. PICK f \in BOOLEAN : Returns({r}, f)
          BY <2>2
    <3> QED BY <3>1, <3>2 DEF Returns
  <2>3. CASE UNCHANGED <<place, done>> /\ loaded' = [loaded EXCEPT ![r] = loaded[r] + 1]
             /\ loaded[r] + 1 # Chunks
    <3>1. place[r] = "uploading"
          BY <2>1, UploadTurns
    <3> QED BY <3>1, <2>3
  <2> QED BY <2>1, <2>2, <2>3, UploadTurns
<1> QED BY <1>1, <1>2, <1>3, <1>4, <1>5, <1>6 DEF RequestsStep

\* What comes into a set of places comes by a move, or is sent there.
LEMMA PlacesEntered ==
  ASSUME RequestsType, RequestsStep, NEW x \in Requests, place'[x] # place[x]
  PROVE  \/ place'[x] \in {"app", "entry", "bulk"}
         \/ /\ May(x, place'[x])
            /\ \A y \in Requests : y # x => place'[y] = place[y]
<1> USE DEF RequestsType
<1>1. CASE UNCHANGED requestVars
      BY <1>1 DEF requestVars
<1>2. CASE Sent
      BY <1>2 DEF Sent, Calls
<1>3. CASE Moved
  <2>1. PICK r \in Requests, p \in Places \ {"app"} : GoesTo(r, p) /\ May(r, p)
        BY <1>3 DEF Moved
  <2>2. r = x /\ place'[x] = p
        BY <2>1 DEF GoesTo
  <2>3. \A y \in Requests : y # x => place'[y] = place[y]
        BY <2>1, <2>2 DEF GoesTo
  <2> QED BY <2>1, <2>2, <2>3
<1>4. CASE Answered
      BY <1>4 DEF Answered, CompletesAll, Returns
<1>5. CASE Drained
      BY <1>5 DEF Drained, Completes, CompletesAll, Returns
<1>6. CASE Uploaded
  <2>1. PICK r \in Requests : FirmwareUpload(r)
        BY <1>6 DEF Uploaded
  <2>2. CASE \E f \in BOOLEAN : Returns({r}, f)
    <3>1. place[r] = "uploading"
          BY <2>1, UploadTurns
    <3>2. PICK f \in BOOLEAN : Returns({r}, f)
          BY <2>2
    <3> QED BY <3>1, <3>2 DEF Returns
  <2>3. CASE UNCHANGED <<place, done>> /\ loaded' = [loaded EXCEPT ![r] = loaded[r] + 1]
             /\ loaded[r] + 1 # Chunks
    <3>1. place[r] = "uploading"
          BY <2>1, UploadTurns
    <3> QED BY <3>1, <2>3
  <2> QED BY <2>1, <2>2, <2>3, UploadTurns
<1> QED BY <1>1, <1>2, <1>3, <1>4, <1>5, <1>6 DEF RequestsStep

LEMMA SerialNext ==
  ASSUME RequestsType, SerialIsSerial, RequestsStep
  PROVE  SerialIsSerial'
<1> SUFFICES ASSUME NEW r \in Requests, NEW s \in Requests,
                    place'[r] \in InSerial, place'[s] \in InSerial, r # s
             PROVE  FALSE
    BY DEF SerialIsSerial, InSerial
<1>1. CASE place'[r] # place[r]
  <2>1. May(r, place'[r]) /\ place'[s] = place[s]
        BY <1>1, PlacesEntered DEF InSerial
  <2> QED BY <2>1 DEF May, Idle, SerialIsSerial
<1>2. CASE place'[s] # place[s]
  <2>1. May(s, place'[s]) /\ place'[r] = place[r]
        BY <1>2, PlacesEntered DEF InSerial
  <2> QED BY <2>1 DEF May, Idle, SerialIsSerial
<1> QED BY <1>1, <1>2 DEF SerialIsSerial

LEMMA LostNext ==
  ASSUME RequestsType, LostOnlyToAPurge, RequestsStep, RestStep
  PROVE  LostOnlyToAPurge'
<1> SUFFICES ASSUME NEW r \in Requests, place'[r] = "lost"
             PROVE  driver' = "Cpp" \/ Purged'
    BY DEF LostOnlyToAPurge
<1>1. driver = "Cpp" \/ Purged
      BY PlacesEntered DEF LostOnlyToAPurge, May
<1> QED BY <1>1, PurgedStays

LEMMA UploadsNext ==
  ASSUME RequestsType, UploadsEndInTime, RequestsStep
  PROVE  UploadsEndInTime'
<1> USE Cy001Assumption DEF RequestsType, UploadsEndInTime
<1>1. CASE UNCHANGED requestVars
      BY <1>1 DEF requestVars
<1>2. CASE Sent
      BY <1>2 DEF Sent, Calls
<1>3. CASE Moved
      BY <1>3 DEF Moved, GoesTo, May
<1>4. CASE Answered
      BY <1>4 DEF Answered, CompletesAll, Returns, Busy
<1>5. CASE Drained
      BY <1>5 DEF Drained, Completes, CompletesAll, Returns
<1>6. CASE Uploaded
  <2>1. PICK r \in Requests : FirmwareUpload(r)
        BY <1>6 DEF Uploaded
  <2>2. CASE \E f \in BOOLEAN : Returns({r}, f)
    <3>1. place[r] = "uploading"
          BY <2>1, UploadTurns
    <3>2. PICK f \in BOOLEAN : Returns({r}, f)
          BY <2>2
    <3> QED BY <3>1, <3>2 DEF Returns
  <2>3. CASE UNCHANGED <<place, done>> /\ loaded' = [loaded EXCEPT ![r] = loaded[r] + 1]
             /\ loaded[r] + 1 # Chunks
    <3>1. place[r] = "uploading"
          BY <2>1, UploadTurns
    <3> QED BY <3>1, <2>3
  <2> QED BY <2>1, <2>2, <2>3, UploadTurns
<1> QED BY <1>1, <1>2, <1>3, <1>4, <1>5, <1>6 DEF RequestsStep

\* Only IOCTL_START_INT_READ starts the reader, from the serial queue.
LEMMA ReaderStarts ==
  ASSUME RestStep, reading', ~reading
  PROVE  \E r \in Requests : place[r] = "served"
BY DEF RestStep, UNCHANGEDButRequests, Handled, FirmwareUpload, SetDigitron, SetLEDs, Shows,
       InterruptReadStart, InterruptReadStop, Served, Powered, Framework,
       PnpPrepareHardware, PwrD0Entry, PwrD0Exit, PowerGoesOff, Wakes, PurgeQueues,
       PnpReleaseHardware, PnpSurpriseRemove, Sleeps, readerVars

LEMMA StoppingNext ==
  ASSUME RequestsType, SerialIsSerial, StoppingHasStopped, RequestsStep, RestStep
  PROVE  StoppingHasStopped'
<1> SUFFICES ASSUME NEW r \in Requests, place'[r] = "stopping", reading' PROVE FALSE
    BY DEF StoppingHasStopped
<1>1. place[r] = "stopping"
      BY PlacesEntered DEF May
<1>2. PICK s \in Requests : place[s] = "served"
      BY <1>1, ReaderStarts DEF StoppingHasStopped
<1> QED BY <1>1, <1>2 DEF SerialIsSerial, InSerial

LEMMA DeliversNext ==
  ASSUME OnlyD0Delivers, RestStep
  PROVE  OnlyD0Delivers'
<1>1. ASSUME NEW r \in Requests, Handled(r) PROVE OnlyD0Delivers'
  <2>1. UNCHANGED powerVars
        BY <1>1 DEF Handled, FirmwareUpload, SetDigitron, SetLEDs, Shows,
                    InterruptReadStart, InterruptReadStop, powerVars
  <2> QED BY <2>1 DEF OnlyD0Delivers, powerVars
<1>2. CASE UNCHANGEDButRequests
      BY <1>2 DEF UNCHANGEDButRequests, OnlyD0Delivers, powerVars
<1>3. CASE Powered
      BY <1>3 DEF Powered, Framework, PnpPrepareHardware, PwrD0Entry, PwrD0Exit, PowerGoesOff,
                  Wakes, PurgeQueues, PnpReleaseHardware, PnpSurpriseRemove, Sleeps,
                  OnlyD0Delivers, powerVars
<1> QED BY <1>1, <1>2, <1>3 DEF RestStep

\* The board goes off only when the framework has waited for what is under way.
LEMMA OffIsQuiet ==
  ASSUME OnlyD0Delivers, QuietWhileOff, RestStep, power' \in Off
  PROVE  Idle(Owned) /\ ~queuesOn
<1>1. CASE power \in Off
      BY <1>1 DEF OnlyD0Delivers, QuietWhileOff, Off
<1>2. CASE power \notin Off
  <2>1. PwrD0Exit
        BY <1>2
        DEF RestStep, UNCHANGEDButRequests, Handled, FirmwareUpload, SetDigitron, SetLEDs,
            Shows, InterruptReadStart, InterruptReadStop, Powered, Framework,
            PnpPrepareHardware, PwrD0Entry, PowerGoesOff, Wakes, PurgeQueues,
            PnpReleaseHardware, PnpSurpriseRemove, Sleeps, powerVars, Off
  <2> QED BY <2>1 DEF PwrD0Exit, OnlyD0Delivers
<1> QED BY <1>1, <1>2

LEMMA QuietNext ==
  ASSUME RequestsType, OnlyD0Delivers, QuietWhileOff, RequestsStep, RestStep
  PROVE  QuietWhileOff'
<1> SUFFICES ASSUME power' \in Off, NEW r \in Requests, place'[r] \in Owned
             PROVE  FALSE
    BY DEF QuietWhileOff, Idle, Off, Owned
<1>1. Idle(Owned) /\ ~queuesOn
      BY OffIsQuiet
<1>2. place'[r] # place[r]
      BY <1>1 DEF Idle
<1>3. May(r, place'[r])
      BY <1>2, PlacesEntered DEF Owned
<1> QED BY <1>1, <1>3 DEF May, Idle

LEMMA InvHolds == CySpec => []IInv
<1>1. IInv /\ [CyNext]_vars => IInv'
  <2> SUFFICES ASSUME IInv, [CyNext]_vars PROVE IInv'
      OBVIOUS
  <2>1. RequestsStep /\ RestStep /\ RequestsType /\ RestType
        BY RequestsShape, RestShape, TypeParts DEF IInv
  <2>2. CyType'
        BY <2>1, RequestsTypeNext, RestTypeNext, TypePartsNext DEF IInv, RequestsInv
  <2>3. RequestsInv'
        BY <2>1, CompletedOnceNext, SerialNext, LostNext, UploadsNext DEF IInv, RequestsInv
  <2>4. StateInv'
        BY <2>1, StoppingNext, DeliversNext, QuietNext DEF IInv, RequestsInv, StateInv
  <2> QED BY <2>2, <2>3, <2>4 DEF IInv
<1> QED BY InvInit, <1>1, PTL DEF CySpec

-----------------------------------------------------------------------------
(* What follows for the requests.                                            *)

\* Every variable of the driver, the framework and the board keeps its type.
THEOREM TypesHold == CySpec => []CyType
BY InvHolds, PTL DEF IInv

\* Whoever of the canceller, the reader, the drains, the board and the purge comes
\* first, a request is completed once for each time it is sent (WdfRequestComplete
\* in DeviceIO.c, ReadWrite.c and Util.c).
THEOREM OneCompletion == CySpec => []CompletedOnce
BY InvHolds, PTL DEF IInv, RequestsInv

\* The serial queue (CreateWDFQueues in Device.c) never has two requests in
\* DeviceIoControlSerial or with the asynchronous control transfer it starts.
THEOREM OneAtATime == CySpec => []SerialIsSerial
BY InvHolds, PTL DEF IInv, RequestsInv

\* The default branch of DeviceIoControlParallel loses a request of the C driver
\* only when a removal has purged the serial queue.
THEOREM OnlyPurgesLose == CySpec => []LostOnlyToAPurge
BY InvHolds, PTL DEF IInv, RequestsInv

\* InterruptReadStop of Util.c returns with the reader stopped and no read of keys
\* left on its queue, as long as the queues are on.
THEOREM DrainsAll == CySpec => StopDrainsTheReads
<1>1. IInv /\ [CyNext]_vars =>
        [\A r \in Requests : place[r] = "stopping" /\ place'[r] = "app" /\ queuesOn
           => ~reading' /\ \A k \in Requests : place'[k] # "keys"]_vars
  <2> SUFFICES ASSUME IInv, [CyNext]_vars,
                      NEW r \in Requests, place[r] = "stopping", place'[r] = "app", queuesOn,
                      NEW k \in Requests
               PROVE  ~reading' /\ place'[k] # "keys"
      OBVIOUS
  <2>1. RequestsStep /\ RequestsType /\ ~reading
        BY RequestsShape, TypeParts DEF IInv, StateInv, StoppingHasStopped
  <2>2. place[r] = "stopping" /\ RetrievesNone("keys") /\ Completes(r) /\ reading' = reading
    <3>1. ~UNCHANGED requestVars /\ ~Sent
          BY <2>1 DEF requestVars, Sent, Calls, RequestsType
    <3>2. ~Moved
          BY <2>1 DEF Moved, GoesTo, RequestsType
    <3>3. ~Answered
          BY <2>1 DEF Answered, CompletesAll, Returns, Busy, RequestsType
    <3>4. ~Uploaded
      <4> SUFFICES ASSUME NEW s \in Requests, FirmwareUpload(s) PROVE FALSE
          BY DEF Uploaded
      <4>1. place[s] = "uploading" /\ s # r
            BY UploadTurns
      <4> QED BY <4>1, <2>1, UploadTurns DEF Returns
    <3>5. PICK s \in Requests : /\ place[s] = "stopping" /\ RetrievesNone("keys")
                                /\ Completes(s) /\ reading' = reading
          BY <2>1, <3>1, <3>2, <3>3, <3>4 DEF RequestsStep, Drained
    <3>6. s = r
          BY <3>5, <2>1 DEF Completes, CompletesAll, Returns
    <3> QED BY <3>5, <3>6
  <2>3. place[k] # "keys"
        BY <2>2 DEF RetrievesNone, Retrieves
  <2> QED BY <2>1, <2>2, <2>3 DEF Completes, CompletesAll, Returns
<1> QED BY <1>1, InvHolds, PTL DEF CySpec, StopDrainsTheReads

-----------------------------------------------------------------------------
(* The firmware: with one upload at a time, what it has counted is in RAM.   *)

OneUpload ==
  \A r, s \in Requests : place[r] = "uploading" /\ place[s] = "uploading" => r = s

CountedIsLoaded ==
  \A r \in Requests : place[r] = "uploading" => \A c \in 1..loaded[r] : ram[c] = r

LEMMA OneUploadNext ==
  ASSUME "uploads" \notin Faults, RequestsType, OneUpload, RequestsStep
  PROVE  OneUpload'
<1> SUFFICES ASSUME NEW r \in Requests, NEW s \in Requests,
                    place'[r] = "uploading", place'[s] = "uploading", r # s
             PROVE  FALSE
    BY DEF OneUpload
<1>1. CASE place'[r] # place[r]
  <2>1. May(r, place'[r]) /\ place'[s] = place[s]
        BY <1>1, PlacesEntered
  <2> QED BY <2>1 DEF May, Idle
<1>2. CASE place'[s] # place[s]
  <2>1. May(s, place'[s]) /\ place'[r] = place[r]
        BY <1>2, PlacesEntered
  <2> QED BY <2>1 DEF May, Idle
<1> QED BY <1>1, <1>2 DEF OneUpload

LEMMA CountKept ==
  ASSUME RequestsType, RequestsStep, ~Uploaded, NEW r \in Requests, place'[r] = "uploading"
  PROVE  loaded'[r] = loaded[r]
<1>1. CASE UNCHANGED requestVars
      BY <1>1 DEF requestVars
<1>2. CASE Sent \/ Moved
      BY <1>2 DEF Sent, Calls, Moved, GoesTo
<1>3. CASE Answered
      BY <1>3 DEF Answered, CompletesAll, Returns
<1>4. CASE Drained
      BY <1>4 DEF Drained, Completes, CompletesAll, Returns
<1> QED BY <1>1, <1>2, <1>3, <1>4 DEF RequestsStep

LEMMA RamShape ==
  ASSUME RestStep
  PROVE  ram' = ram \/ Uploaded \/ PowerGoesOff
BY DEF RestStep, UNCHANGEDButRequests, Handled, Uploaded, SetDigitron, SetLEDs, Shows,
       InterruptReadStart, InterruptReadStop, Powered, Framework, PnpPrepareHardware,
       PwrD0Entry, PwrD0Exit, Wakes, PurgeQueues, PnpReleaseHardware,
       PnpSurpriseRemove, Sleeps, boardVars

LEMMA CountedNext ==
  ASSUME IInv, OneUpload, CountedIsLoaded, RequestsStep, RestStep
  PROVE  CountedIsLoaded'
<1> SUFFICES ASSUME NEW r \in Requests, place'[r] = "uploading", NEW c \in 1..loaded'[r]
             PROVE  ram'[c] = r
    BY DEF CountedIsLoaded
<1>1. RequestsType /\ RestType /\ UploadsEndInTime /\ QuietWhileOff
      BY TypeParts DEF IInv, RequestsInv, StateInv
<1>2. CASE Uploaded
  <2>1. PICK s \in Requests : FirmwareUpload(s)
        BY <1>2 DEF Uploaded
  <2>2. /\ place[s] = "uploading" /\ (place'[s] # "app" => place' = place)
        /\ \A x \in Requests : place'[x] \in {"app", place[x]}
        BY <2>1, <1>1, UploadTurns DEF Returns, RequestsType
  <2>3. s = r /\ place' = place
        BY <2>2 DEF OneUpload
  <2>4. ~Completes(r) /\ ~Fails(r)
        BY DEF Completes, Fails, CompletesAll, Returns
  <2>5. ram' = [ram EXCEPT ![loaded[r] + 1] = r] /\ loaded' = [loaded EXCEPT ![r] = loaded[r] + 1]
        BY <2>1, <2>3, <2>4 DEF FirmwareUpload
  <2>6. loaded[r] \in 0..Chunks /\ loaded[r] < Chunks /\ loaded'[r] = loaded[r] + 1
        BY <2>5, <1>1 DEF RequestsType, UploadsEndInTime
  <2>7. CASE c = loaded[r] + 1
        BY <2>5, <2>6, <2>7, <1>1, Cy001Assumption DEF RestType
  <2>8. CASE c \in 1..loaded[r]
    <3>1. ram[c] = r /\ place[r] = "uploading"
          BY <2>2, <2>3, <2>8 DEF CountedIsLoaded
    <3> QED BY <3>1, <2>5, <2>6, <2>8, <1>1, Cy001Assumption DEF RestType
  <2> QED BY <2>6, <2>7, <2>8
<1>3. CASE ~Uploaded
  <2>1. loaded'[r] = loaded[r]
        BY <1>1, <1>3, CountKept
  <2>2. place[r] = "uploading"
        BY <2>1, <1>1, Cy001Assumption DEF UploadsEndInTime, RequestsType
  <2>3. ~PowerGoesOff
        BY <2>2, <1>1 DEF PowerGoesOff, QuietWhileOff, Off, Idle, Owned
  <2> QED BY <2>1, <2>2, <2>3, <1>3, RamShape DEF CountedIsLoaded
<1> QED BY <1>2, <1>3

\* FirmwareUpload of Util.c: an image that is reported as loaded is in RAM, chunk by
\* chunk, if no two uploads run at a time; DeviceIO.c does not see to that.
THEOREM UploadsLoad ==
  ASSUME "uploads" \notin Faults
  PROVE  CySpec => UploadLoadsTheImage
<1>1. CyInit => OneUpload /\ CountedIsLoaded
      BY DEF CyInit, OneUpload, CountedIsLoaded
<1>2. IInv /\ OneUpload /\ CountedIsLoaded /\ [CyNext]_vars => (OneUpload /\ CountedIsLoaded)'
      BY RequestsShape, RestShape, TypeParts, OneUploadNext, CountedNext DEF IInv
<1>3. IInv /\ OneUpload /\ CountedIsLoaded /\ [CyNext]_vars =>
        [\A r \in Requests : place[r] = "uploading" /\ place'[r] = "app" /\ ~failed'[r]
           => \A c \in 1..Chunks : ram'[c] = r]_vars
  <2> SUFFICES ASSUME IInv, CountedIsLoaded, [CyNext]_vars, NEW r \in Requests,
                      place[r] = "uploading", place'[r] = "app", ~failed'[r],
                      NEW c \in 1..Chunks
               PROVE  ram'[c] = r
      OBVIOUS
  <2>1. RequestsStep /\ RequestsType /\ RestType /\ UploadsEndInTime
        BY RequestsShape, TypeParts DEF IInv, RequestsInv
  <2>2. FirmwareUpload(r)
    <3>1. ~UNCHANGED requestVars /\ ~Sent
          BY <2>1 DEF requestVars, Sent, Calls, RequestsType
    <3>2. ~Moved
          BY <2>1 DEF Moved, GoesTo, RequestsType
    <3>3. ~Answered /\ ~Drained
          BY <2>1 DEF Answered, Drained, Completes, CompletesAll, Returns, Busy, RequestsType
    <3>4. PICK s \in Requests : FirmwareUpload(s)
          BY <2>1, <3>1, <3>2, <3>3 DEF RequestsStep, Uploaded
    <3>5. s = r
          BY <3>4, <2>1, UploadTurns DEF Returns, RequestsType
    <3> QED BY <3>4, <3>5
  <2>3. ~Fails(r)
        BY DEF Fails, Returns
  <2>4. loaded[r] + 1 = Chunks /\ ram' = [ram EXCEPT ![loaded[r] + 1] = r]
        BY <2>1, <2>2, <2>3 DEF FirmwareUpload, RequestsType
  <2>5. loaded[r] \in Nat /\ (c = Chunks \/ c \in 1..loaded[r])
        BY <2>1, <2>4, Cy001Assumption DEF RequestsType
  <2> QED BY <2>1, <2>4, <2>5, Cy001Assumption DEF RestType, CountedIsLoaded
<1> QED BY <1>1, <1>2, <1>3, InvHolds, PTL DEF CySpec, UploadLoadsTheImage

-----------------------------------------------------------------------------
(* The display: what PwrD0Exit saved is what the board showed.               *)

SavedIsShown ==
  /\ power = "absent" => before = None
  /\ power = "exited" /\ target = "D2" => saved = display
  /\ power \in {"asleep", "entering"} /\ target = "D2" /\ before # None => saved = before
  /\ power \in {"surprised", "unplugged"} => target = "gone"

LEMMA SavedNext ==
  ASSUME "usb" \notin Faults, QuietWhileOff, SavedIsShown, RestStep
  PROVE  SavedIsShown'
<1> USE DEF SavedIsShown
<1>1. CASE UNCHANGEDButRequests
      BY <1>1 DEF UNCHANGEDButRequests, powerVars, boardVars
<1>2. ASSUME NEW r \in Requests,
             FirmwareUpload(r) \/ InterruptReadStart(r) \/ InterruptReadStop(r)
      PROVE  SavedIsShown'
      BY <1>2 DEF FirmwareUpload, InterruptReadStart, InterruptReadStop, powerVars, boardVars
<1>3. ASSUME NEW r \in Requests, SetDigitron(r) \/ SetLEDs(r) PROVE SavedIsShown'
  <2>1. power \notin Off
        BY <1>3 DEF SetDigitron, SetLEDs, Served, QuietWhileOff, Idle, Owned
  <2> QED BY <1>3, <2>1 DEF SetDigitron, SetLEDs, Shows, powerVars, Off
<1>4. CASE PnpPrepareHardware \/ Wakes \/ PnpReleaseHardware
      BY <1>4 DEF PnpPrepareHardware, Wakes, PnpReleaseHardware, boardVars
<1>5. CASE PwrD0Entry
      BY <1>5 DEF PwrD0Entry
<1>6. CASE PwrD0Exit
      BY <1>6 DEF PwrD0Exit, MayFail, boardVars
<1>7. CASE PowerGoesOff
      BY <1>7 DEF PowerGoesOff
<1>8. CASE PurgeQueues \/ PnpSurpriseRemove
      BY <1>8 DEF PurgeQueues, PnpSurpriseRemove, boardVars
<1>9. ASSUME NEW t \in {"D2", "D3"}, Sleeps(t) PROVE SavedIsShown'
      BY <1>9 DEF Sleeps, boardVars
<1> QED BY <1>1, <1>2, <1>3, <1>4, <1>5, <1>6, <1>7, <1>8, <1>9
        DEF RestStep, Handled, Powered, Framework

\* PwrD0Exit and PwrD0Entry of Pnp_Pwr.c: the display survives a sleep in D2, if the
\* transfers work.
THEOREM SleepKeepsDisplay ==
  ASSUME "usb" \notin Faults
  PROVE  CySpec => DisplaySurvivesSleep
<1>1. CyInit => SavedIsShown
      BY DEF CyInit, SavedIsShown
<1>2. IInv /\ SavedIsShown /\ [CyNext]_vars => SavedIsShown'
      BY RestShape, SavedNext DEF IInv, StateInv
<1>3. IInv /\ SavedIsShown /\ [CyNext]_vars =>
        [power = "entering" /\ power' = "D0" /\ target = "D2" /\ before # None
           => display' = before]_vars
  <2> SUFFICES ASSUME SavedIsShown, [CyNext]_vars, power = "entering", power' = "D0",
                      target = "D2", before # None
               PROVE  display' = before
      OBVIOUS
  <2>1. PwrD0Entry
        BY RestShape
        DEF RestStep, UNCHANGEDButRequests, Handled, FirmwareUpload, SetDigitron, SetLEDs,
            Shows, InterruptReadStart, InterruptReadStop, Powered, Framework,
            PnpPrepareHardware, PwrD0Exit, PowerGoesOff, Wakes, PurgeQueues,
            PnpReleaseHardware, PnpSurpriseRemove, Sleeps, powerVars
  <2> QED BY <2>1 DEF PwrD0Entry, MayFail, SavedIsShown
<1> QED BY <1>1, <1>2, <1>3, InvHolds, PTL DEF CySpec, DisplaySurvivesSleep
=============================================================================
