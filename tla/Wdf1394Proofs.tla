---------------------------- MODULE Wdf1394Proofs ----------------------------
(***************************************************************************)
(* Theorems about the device stack of Wdf1394: the test application and      *)
(* other programs, the UMDF filter and the KMDF driver, for any number of    *)
(* windows, programs, handles and memory blocks.                             *)
(*                                                                           *)
(* The lists of the driver are changed by one step and the bus's ledger by   *)
(* another, so what the driver knows of ROM entries and isochronous          *)
(* resources is right only because the filter's sequential queue lets one    *)
(* such request at a time into the driver: SerialInv.  The rest of the       *)
(* argument goes over CoreStep, as for the driver alone.                     *)
(***************************************************************************)
EXTENDS Wdf1394, VdevTableProofs

-----------------------------------------------------------------------------
(* The invariants.                                                           *)

InDriver == {"driver", "bus", "sent", "waiting"}

\* What waits in the sequential queue waits there once; the request it serves
\* has left the queue and is not answered yet; and a request of an operation
\* that is not parallel gets past the filter only while it is served.
SerialInv ==
  /\ \A i \in 1..Len(seqQueue) : at[seqQueue[i]] = "queued" /\ seqQueue[i] # serving
  /\ \A i, j \in 1..Len(seqQueue) : seqQueue[i] = seqQueue[j] => i = j
  /\ serving # None => at[serving] \in InDriver \cup {"queued", "completed"}
  /\ \A a \in Apps : at[a] \in InDriver /\ call[a].op \notin ParallelOps => serving = a

\* An addition that the bus has granted and the list does not show yet, and a
\* removal that the bus has granted and the list still shows.
Adding(a) == call[a].op = "AddCrom" /\ irb[a] = "granted"
Removing(a) == call[a].op = "RemoveCrom" /\ irb[a] = "granted"

\* Until the clean-up, the ROM list and the bus's ROM differ by these, and what
\* a granted removal looks for is on the list, once.
CromInv ==
  Up => /\ ~halted
        /\ \A e, f \in cromData : e.h = f.h => e = f
        /\ \A a \in Apps : Adding(a) => call[a].h \notin HandlesOf(cromData)
        /\ \A a \in Apps : Removing(a) => call[a].h \in HandlesOf(cromData)
        /\ \A e \in Entry :
             e \in bus.crom <=>
               /\ e \in cromData \/ \E a \in Apps : Adding(a) /\ e = Held(a)
               /\ ~\E a \in Apps : Removing(a) /\ e.h = call[a].h

\* Resources that a request has just got, and resources it is giving back.
Getting(a) == call[a].op = "IsochAllocateResources" /\ irb[a] = "granted"
GivingBack(a) == call[a].op = "IsochFreeResources" /\ irb[a] # "none"

\* A record is of something the bus has given out, and of neither of these.
IsochInv ==
  /\ isochData \subseteq bus.isoch
  /\ \A a \in Apps : Getting(a) => call[a].h \in bus.isoch /\ call[a].h \notin isochData
  /\ \A a \in Apps : GivingBack(a) => call[a].h \notin isochData

-----------------------------------------------------------------------------
(* The sequential queue.                                                     *)

\* What the driver does to the requests, seen from the filter.
DriverStep ==
  /\ UNCHANGED <<seqQueue, serving>>
  /\ \A x \in Apps :
       \/ at'[x] = at[x] /\ call'[x].op = call[x].op
       \/ /\ at[x] \in InDriver
          /\ \/ at'[x] = "completed"
             \/ at'[x] \in InDriver /\ call'[x].op = call[x].op

LEMMA SerialDriver ==
  ASSUME KmdfType, UmdfType, SerialInv, DriverStep
  PROVE  SerialInv'
<1>1. \A i \in 1..Len(seqQueue) : seqQueue[i] \in Apps
      BY DEF UmdfType
<1>2. \A i \in 1..Len(seqQueue) : at'[seqQueue[i]] = "queued"
      BY <1>1 DEF SerialInv, DriverStep, InDriver
<1>3. serving # None => at'[serving] \in InDriver \cup {"queued", "completed"}
      BY DEF SerialInv, DriverStep, UmdfType
<1>4. \A a \in Apps : at'[a] \in InDriver /\ call'[a].op \notin ParallelOps => serving = a
      BY DEF SerialInv, DriverStep, InDriver
<1> QED BY <1>2, <1>3, <1>4 DEF SerialInv, DriverStep

LEMMA RequestMoves ==
  ASSUME KmdfType, NEW a \in Apps, at[a] \in InDriver,
         \A x \in Apps : x # a => at'[x] = at[x] /\ call'[x] = call[x],
         \/ at'[a] = "completed"
         \/ at'[a] \in InDriver /\ call'[a].op = call[a].op,
         UNCHANGED <<seqQueue, serving>>
  PROVE  DriverStep
BY DEF DriverStep

LEMMA KernelSerial ==
  ASSUME KmdfType, OriginalPacketHeld, NEW a \in Apps, Kernel(a)
  PROVE  DriverStep
<1>1. /\ Serve(a) /\ UNCHANGED <<seqQueue, serving>>
      /\ \A x \in Apps : x # a => at'[x] = at[x] /\ call'[x] = call[x]
      BY ServeAlone DEF Kernel, umdfVars, Alone
<1>2. at[a] \in InDriver
      BY <1>1
      DEF Serve, EvtIoDeviceControl, BusAnswers, BusServes, BusRefuses, BusGrants, BusRegisters,
          AtBus, GoesOn, SubmitIrpAsync, OriginalPacketHeld, InDriver
<1>3. \/ Completed(a) \/ ToBus(a) \/ ToSent(a) \/ ToWaiting(a) \/ GetsHandle(a)
      \/ UNCHANGED request
  <2>1. CASE SubmitIrpAsync(a)
        BY <2>1 DEF SubmitIrpAsync, Completed
  <2> QED BY <1>1, <2>1, RoutineAnswer, BusAnswer, GoesOnAnswer DEF Serve
<1>4. \/ at'[a] = "completed"
      \/ at'[a] \in InDriver /\ call'[a].op = call[a].op
      BY <1>2, <1>3
      DEF Completed, Completes, Moves, ToBus, ToSent, ToWaiting, GetsHandle, request, InDriver,
          KmdfType
<1> QED BY <1>1, <1>2, <1>4, RequestMoves

LEMMA OthersSerial ==
  ASSUME KmdfType, WaitingInv, OriginalPacketHeld, UNCHANGED <<seqQueue, serving>>,
         \/ BusResetRoutine \/ BusResets \/ StartDevice \/ StopDevice \/ RemoveDevice
         \/ \E i : UpdateGenerationCount(i)
  PROVE  DriverStep
<1>1. CASE UNCHANGED request
      BY <1>1 DEF request, DriverStep
<1>2. ASSUME NEW a \in Apps, at[a] = "waiting", Completed(a)
      PROVE  DriverStep
  <2>1. /\ at'[a] = "completed"
        /\ \A x \in Apps : x # a => at'[x] = at[x] /\ call'[x] = call[x]
        BY <1>2, CompletesOne DEF Completed, Completes, Moves, KmdfType
  <2> QED BY <1>2, <2>1, RequestMoves DEF InDriver
<1> QED BY <1>1, <1>2, OthersAnswer

\* A request that the filter does not serve and that is not queued is moved,
\* not past the filter unless its operation is parallel.
LEMMA SerialBeside ==
  ASSUME KmdfType, UmdfType, SerialInv, NEW a \in Apps, serving # a, at[a] # "queued",
         \A x \in Apps : x # a => at'[x] = at[x] /\ call'[x] = call[x],
         at'[a] \in InDriver => call'[a].op \in ParallelOps,
         UNCHANGED <<seqQueue, serving>>
  PROVE  SerialInv'
<1>1. \A i \in 1..Len(seqQueue) : seqQueue[i] \in Apps /\ seqQueue[i] # a
      BY DEF UmdfType, SerialInv
<1>2. serving # None => serving \in Apps
      BY DEF UmdfType
<1> QED BY <1>1, <1>2 DEF SerialInv

LEMMA SendsDownMoves ==
  ASSUME KmdfType, NEW a \in Apps, NEW bad, SendsDown(a, bad)
  PROVE  /\ \A x \in Apps : x # a => at'[x] = at[x] /\ call'[x] = call[x]
         /\ \/ at'[a] = "driver" /\ call'[a] = call[a]
            \/ at'[a] = "completed" /\ call'[a] = NoCall
         /\ UNCHANGED <<seqQueue, serving>>
BY DEF SendsDown, Moves, Completes, KmdfType, umdfVars

LEMMA ParallelSerial ==
  ASSUME KmdfType, UmdfType, SerialInv, NEW a \in Apps, Parallel(a)
  PROVE  SerialInv'
<1>1. at[a] = "filter" /\ serving # a
      BY NoneIsNobody
      DEF Parallel, ParallelLock, ParallelTransfer, ParallelReset, ParallelAddressData,
          ParallelAddressRange, ParallelDefault, AtFilter, SerialInv, InDriver
<1>2. ASSUME NEW bad, SendsDown(a, bad), call[a].op \in ParallelOps
      PROVE  SerialInv'
      BY <1>1, <1>2, SendsDownMoves, SerialBeside DEF InDriver
<1>3. CASE ParallelDefault(a)
  <2>1. CASE Moves(a, "lost") /\ UNCHANGED seqQueue
    <3>1. /\ at'[a] = "lost"
          /\ \A x \in Apps : x # a => at'[x] = at[x] /\ call'[x] = call[x]
          BY <1>3, <2>1 DEF ParallelDefault, Moves, KmdfType
    <3> QED BY <1>1, <1>3, <2>1, <3>1, SerialBeside DEF ParallelDefault, InDriver
  <2>2. CASE seqQueue' = Append(seqQueue, a) /\ Moves(a, "queued")
    <3> DEFINE n == Len(seqQueue)
    <3>1. /\ n \in Nat /\ Len(seqQueue') = n + 1 /\ seqQueue'[n + 1] = a
          /\ \A i \in 1..n : seqQueue'[i] = seqQueue[i] /\ seqQueue[i] \in Apps
          BY <2>2 DEF UmdfType
    <3>2. /\ \A x \in Apps : at'[x] = IF x = a THEN "queued" ELSE at[x]
          /\ UNCHANGED <<call, serving>>
          BY <1>3, <2>2 DEF ParallelDefault, Moves, KmdfType
    <3>3. \A i \in 1..(n + 1) : i \in 1..n \/ i = n + 1
          BY <3>1
    <3>4. \A i \in 1..n : seqQueue[i] # a
          BY <1>1 DEF SerialInv
    <3>5. \A i \in 1..(n + 1) : at'[seqQueue'[i]] = "queued" /\ seqQueue'[i] # serving
          BY <1>1, <3>1, <3>2, <3>3 DEF SerialInv
    <3>6. \A i, j \in 1..(n + 1) : seqQueue'[i] = seqQueue'[j] => i = j
          BY <3>1, <3>3, <3>4 DEF SerialInv
    <3>7. serving # None => at'[serving] \in InDriver \cup {"queued", "completed"}
          BY <3>2 DEF SerialInv, UmdfType
    <3>8. \A x \in Apps : at'[x] \in InDriver /\ call'[x].op \notin ParallelOps => serving = x
          BY <3>2 DEF SerialInv, InDriver
    <3> HIDE DEF n
    <3> QED BY <3>1, <3>2, <3>5, <3>6, <3>7, <3>8 DEF SerialInv
  <2> QED BY <1>3, <2>1, <2>2 DEF ParallelDefault
<1> QED BY <1>2, <1>3
    DEF Parallel, ParallelLock, ParallelTransfer, ParallelReset, ParallelAddressData,
        ParallelAddressRange, AtFilter, ParallelOps

LEMMA SequentialSerial ==
  ASSUME KmdfType, UmdfType, SerialInv, NEW a \in Apps, Sequential(a)
  PROVE  SerialInv'
<1>1. PICK bad : at[a] = "queued" /\ serving = a /\ SendsDown(a, bad)
      BY DEF Sequential, SequentialAllocates, SequentialFrees, SequentialStreams,
             SequentialCycleTime, SequentialGeneration, SequentialAsksBus, SequentialGetsHost,
             SequentialSetsHost, SequentialControl, SequentialRefuses, AtSequential
<1>2. /\ at'[a] \in InDriver \cup {"completed"}
      /\ \A x \in Apps : x # a => at'[x] = at[x] /\ call'[x] = call[x]
      /\ UNCHANGED <<seqQueue, serving>>
      BY <1>1, SendsDownMoves DEF InDriver
<1>3. \A i \in 1..Len(seqQueue) : seqQueue[i] \in Apps /\ seqQueue[i] # a
      BY <1>1 DEF SerialInv, UmdfType
<1> QED BY <1>1, <1>2, <1>3 DEF SerialInv

LEMMA ReturnsSerial ==
  ASSUME KmdfType, UmdfType, SerialInv, NEW a \in Apps, OnCompletion(a) \/ SequentialCompletes(a)
  PROVE  SerialInv'
<1>1. /\ at[a] = "completed" /\ at'[a] = "app" /\ UNCHANGED <<call, seqQueue>>
      /\ \A x \in Apps : x # a => at'[x] = at[x]
      BY DEF OnCompletion, SequentialCompletes, Returns, Moves, umdfVars, KmdfType
<1>2. CASE OnCompletion(a)
      BY <1>1, <1>2, SerialBeside DEF OnCompletion, umdfVars, InDriver
<1>3. CASE SequentialCompletes(a)
  <2>1. \A i \in 1..Len(seqQueue) : seqQueue[i] \in Apps /\ seqQueue[i] # a
        BY <1>1 DEF SerialInv, UmdfType
  <2>2. serving = a /\ serving' = None
        BY <1>3 DEF SequentialCompletes
  <2>3. \A x \in Apps : ~(at'[x] \in InDriver /\ call'[x].op \notin ParallelOps)
        BY <1>1, <2>2 DEF SerialInv, InDriver
  <2>4. \A i \in 1..Len(seqQueue) : seqQueue[i] # None
        BY <2>1, NoneIsNobody
  <2> QED BY <1>1, <2>1, <2>2, <2>3, <2>4 DEF SerialInv
<1> QED BY <1>2, <1>3

\* The head of the sequential queue leaves it.
LEMMA QueueHead ==
  ASSUME KmdfType, UmdfType, SerialInv, seqQueue # <<>>, seqQueue' = Tail(seqQueue)
  PROVE  /\ Head(seqQueue) \in Apps /\ at[Head(seqQueue)] = "queued" /\ Head(seqQueue) # serving
         /\ \A i \in 1..Len(seqQueue') : /\ seqQueue'[i] \in Apps /\ at[seqQueue'[i]] = "queued"
                                         /\ seqQueue'[i] # Head(seqQueue)
                                         /\ seqQueue'[i] # serving
         /\ \A i, j \in 1..Len(seqQueue') : seqQueue'[i] = seqQueue'[j] => i = j
<1> DEFINE n == Len(seqQueue)
<1>1. /\ n \in Nat /\ n > 0 /\ Head(seqQueue) = seqQueue[1] /\ Len(seqQueue') = n - 1
      /\ \A i \in 1..n : seqQueue[i] \in Apps
      /\ \A i \in 1..(n - 1) : seqQueue'[i] = seqQueue[i + 1]
      BY DEF UmdfType
<1>2. \A i \in 1..(n - 1) : i + 1 \in 1..n /\ i + 1 # 1
      BY <1>1
<1>3. /\ \A i \in 1..n : at[seqQueue[i]] = "queued" /\ seqQueue[i] # serving
      /\ \A i, j \in 1..n : seqQueue[i] = seqQueue[j] => i = j
      BY DEF SerialInv
<1>4. 1 \in 1..n
      BY <1>1
<1> HIDE DEF n
<1>5. \A i, j \in 1..(n - 1) : seqQueue'[i] = seqQueue'[j] => i = j
  <2> SUFFICES ASSUME NEW i \in 1..(n - 1), NEW j \in 1..(n - 1), seqQueue'[i] = seqQueue'[j]
               PROVE  i = j
      OBVIOUS
  <2>1. i + 1 = j + 1
        BY <1>1, <1>2, <1>3
  <2> QED BY <2>1, <1>1
<1> QED BY <1>1, <1>2, <1>3, <1>4, <1>5

LEMMA PresentsSerial ==
  ASSUME KmdfType, UmdfType, SerialInv, SequentialPresents
  PROVE  SerialInv'
<1>1. /\ serving = None /\ serving' = Head(seqQueue) /\ seqQueue # <<>>
      /\ seqQueue' = Tail(seqQueue) /\ UNCHANGED <<at, call>>
      BY DEF SequentialPresents, kmdfVars, request
<1>2. \A a \in Apps : ~(at[a] \in InDriver /\ call[a].op \notin ParallelOps)
      BY <1>1, NoneIsNobody DEF SerialInv
<1> QED BY <1>1, <1>2, QueueHead DEF SerialInv

LEMMA PurgesSerial ==
  ASSUME KmdfType, UmdfType, SerialInv, PurgeSequential
  PROVE  SerialInv'
<1> DEFINE a == Head(seqQueue)
<1>1. /\ seqQueue # <<>> /\ seqQueue' = Tail(seqQueue) /\ UNCHANGED serving
      /\ Completes(a, "failed")
      BY DEF PurgeSequential
<1>2. /\ a \in Apps /\ a # serving
      BY <1>1, QueueHead
<1> HIDE DEF a
<1>3. /\ at'[a] = "completed"
      /\ \A x \in Apps : x # a => at'[x] = at[x] /\ call'[x] = call[x]
      BY <1>1, <1>2 DEF Completes, Moves, KmdfType
<1>4. \A i \in 1..Len(seqQueue') : at'[seqQueue'[i]] = "queued" /\ seqQueue'[i] # serving
      BY <1>1, <1>3, QueueHead DEF a
<1>5. serving # None => at'[serving] \in InDriver \cup {"queued", "completed"}
      BY <1>2, <1>3 DEF SerialInv, UmdfType
<1>6. \A x \in Apps : at'[x] \in InDriver /\ call'[x].op \notin ParallelOps => serving = x
      BY <1>3 DEF SerialInv, InDriver
<1> QED BY <1>1, <1>4, <1>5, <1>6, QueueHead DEF SerialInv

-----------------------------------------------------------------------------
(* The configuration ROM and the isochronous resources.                      *)

\* At most one request of an operation that is not parallel has its IRB out.
OneAtATime ==
  \A a, b \in Apps :
    /\ irb[a] # "none" /\ call[a].op \notin ParallelOps
    /\ irb[b] # "none" /\ call[b].op \notin ParallelOps
    => a = b

LEMMA OneSerial ==
  ASSUME OriginalPacketHeld, SerialInv
  PROVE  OneAtATime
<1>1. \A a \in Apps : irb[a] # "none" /\ call[a].op \notin ParallelOps => serving = a
      BY DEF OriginalPacketHeld, SerialInv, InDriver
<1> QED BY <1>1 DEF OneAtATime

LEMMA CromStays ==
  ASSUME CromInv, UNCHANGED <<cromData, halted>>, bus'.crom = bus.crom, Up' => Up,
         \A a \in Apps : /\ Adding(a)' <=> Adding(a)
                         /\ Removing(a)' <=> Removing(a)
                         /\ Adding(a) \/ Removing(a) => call'[a] = call[a] /\ block'[a] = block[a]
  PROVE  CromInv'
BY DEF CromInv, Held

LEMMA GrantKeepsCrom ==
  ASSUME KmdfType, HoldingInv, OneAtATime, CromInv, NEW a \in Apps, BusGrants(a)
  PROVE  CromInv'
<1>1. PICK h \in Handles :
        /\ call' = [call EXCEPT ![a].h = h]
        /\ \/ call[a].op = "AllocateAddressRange" /\ AllocatesAddress(h, block[a])
           \/ call[a].op = "AddCrom" /\ AddsCrom(h, block[a])
           \/ call[a].op = "IsochAllocateResources" /\ AllocatesIsoch(h)
           \/ /\ h = call[a].h
              /\ \/ call[a].op = "FreeAddressRange" /\ FreesAddress(h)
                 \/ call[a].op = "RemoveCrom" /\ RemovesCrom(h)
                 \/ call[a].op = "IsochFreeResources" /\ FreesIsoch(h)
      BY DEF BusGrants
<1>2. /\ irb[a] = "sent" /\ irb' = [irb EXCEPT ![a] = "granted"]
      /\ UNCHANGED <<block, cromData, pnp, halted>>
      BY DEF BusGrants, AtBus, Answers, records, device
<1>3. /\ \A x \in Apps : x # a => call'[x] = call[x] /\ irb'[x] = irb[x]
      /\ call'[a].op = call[a].op /\ call'[a].h = h /\ irb'[a] = "granted"
      BY <1>1, <1>2 DEF KmdfType
<1>4. /\ ~Adding(a) /\ ~Removing(a)
      /\ Adding(a)' <=> call[a].op = "AddCrom"
      /\ Removing(a)' <=> call[a].op = "RemoveCrom"
      BY <1>2, <1>3 DEF Adding, Removing
<1>5. \A x \in Apps : x # a => /\ Adding(x)' <=> Adding(x)
                               /\ Removing(x)' <=> Removing(x)
      BY <1>3 DEF Adding, Removing
<1>6. Up' <=> Up
      BY <1>2 DEF Up
<1>7. CASE call[a].op \notin CromOps
  <2>1. bus'.crom = bus.crom
        BY <1>1, <1>7
        DEF AllocatesAddress, AllocatesIsoch, FreesAddress, FreesIsoch, CromOps, KmdfType, BusType
  <2> QED BY <1>2, <1>3, <1>4, <1>5, <1>6, <1>7, <2>1, CromStays DEF CromOps
<1>8. CASE call[a].op \in CromOps
  <2>1. \A x \in Apps : ~Adding(x) /\ ~Removing(x)
        BY <1>2, <1>4, <1>8
        DEF OneAtATime, Adding, Removing, CromOps, ParallelOps, AddressOps, NotificationOps
  <2>2. Up => bus.crom = cromData
        BY <2>1 DEF CromInv, KmdfType, BusType
  <2>3. CASE call[a].op = "AddCrom" /\ AddsCrom(h, block[a])
    <3>1. /\ Held(a)' = [h |-> h, buf |-> block[a]] /\ Held(a)'.h = h /\ Held(a)' \in Entry
          BY <1>2, <1>3, <2>3 DEF Held, HoldingInv, BlockOps, KmdfType, Entry
    <3>2. bus'.crom = bus.crom \cup {Held(a)'} /\ h \notin HandlesOf(bus.crom)
          BY <2>3, <3>1 DEF AddsCrom, KmdfType, BusType
    <3>3. \A x \in Apps : (Adding(x)' <=> x = a) /\ ~Removing(x)'
          BY <1>4, <1>5, <2>1, <2>3
    <3> QED BY <1>2, <1>3, <1>6, <2>2, <3>1, <3>2, <3>3 DEF CromInv
  <2>4. CASE call[a].op = "RemoveCrom" /\ RemovesCrom(h)
    <3>1. /\ bus'.crom = {e \in bus.crom : e.h # h}
          /\ h \in HandlesOf(bus.crom)
          BY <2>4 DEF RemovesCrom, WithHandle, KmdfType, BusType
    <3>2. \A x \in Apps : ~Adding(x)' /\ (Removing(x)' <=> x = a)
          BY <1>4, <1>5, <2>1, <2>4
    <3> QED BY <1>2, <1>3, <1>6, <2>2, <3>1, <3>2 DEF CromInv
  <2> QED BY <1>1, <1>8, <2>3, <2>4 DEF CromOps
<1> QED BY <1>7, <1>8

LEMMA EndKeepsCrom ==
  ASSUME KmdfType, HoldingInv, OneAtATime, CromInv, NEW a \in Apps, Ends(a)
  PROVE  CromInv'
<1>1. /\ irb[a] # "none" /\ UNCHANGED <<bus, pnp>> /\ irb'[a] = "none"
      /\ \A x \in Apps : x # a => call'[x] = call[x] /\ irb'[x] = irb[x] /\ block'[x] = block[x]
  <2>1. UNCHANGED <<bus, pnp>>
        BY DEF Ends, AllocateAddressRangeCompletion, FreeAddressRangeAnswered, AddCromAnswered,
               RemoveCromAnswered, IsochAllocateResourcesAnswered, IsochFreeResourcesAnswered, device
  <2> QED BY <2>1, EndsRelease DEF Released, KmdfType
<1>2. /\ ~Adding(a)' /\ ~Removing(a)' /\ (Up' <=> Up)
      /\ \A x \in Apps : x # a => /\ Adding(x)' <=> Adding(x)
                                  /\ Removing(x)' <=> Removing(x)
      BY <1>1 DEF Adding, Removing, Up
<1>3. Adding(a) \/ Removing(a) => \A x \in Apps : x # a => ~Adding(x) /\ ~Removing(x)
      BY DEF OneAtATime, Adding, Removing, ParallelOps, AddressOps, NotificationOps
<1>4. CASE ~Adding(a) /\ ~Removing(a)
  <2>1. UNCHANGED <<cromData, halted>>
        BY <1>4
        DEF Ends, AllocateAddressRangeCompletion, FreeAddressRangeAnswered, AddCromAnswered,
            RemoveCromAnswered, IsochAllocateResourcesAnswered, IsochFreeResourcesAnswered,
            Resumes, Adding, Removing, records, device
  <2> QED BY <1>1, <1>2, <1>4, <2>1, CromStays
<1>5. CASE Adding(a)
  <2>1. cromData' = cromData \cup {Held(a)} /\ UNCHANGED halted
        BY <1>5
        DEF Ends, AllocateAddressRangeCompletion, FreeAddressRangeAnswered, AddCromAnswered,
            RemoveCromAnswered, IsochAllocateResourcesAnswered, IsochFreeResourcesAnswered,
            Resumes, Adding, Held, device
  <2>2. \A x \in Apps : (Adding(x) <=> x = a) /\ ~Removing(x) /\ ~Adding(x)' /\ ~Removing(x)'
        BY <1>2, <1>3, <1>5 DEF Adding, Removing
  <2>3. Held(a).h = call[a].h
        BY DEF Held
  <2>4. Up => \A e \in cromData : e.h # call[a].h
        BY <1>5 DEF CromInv, HandlesOf
  <2> QED BY <1>1, <1>2, <2>1, <2>2, <2>3, <2>4 DEF CromInv
<1>6. CASE Removing(a)
  <2>1. SUFFICES ASSUME Up PROVE CromInv'
        BY <1>2 DEF CromInv
  <2>2. call[a].h \in HandlesOf(cromData)
        BY <1>6, <2>1 DEF CromInv
  <2>3. PICK e \in cromData : e.h = call[a].h /\ cromData' = cromData \ {e} /\ UNCHANGED halted
        BY <1>6, <2>2
        DEF Ends, AllocateAddressRangeCompletion, FreeAddressRangeAnswered, AddCromAnswered,
            RemoveCromAnswered, IsochAllocateResourcesAnswered, IsochFreeResourcesAnswered,
            Resumes, Removing, WithHandle
  <2>4. \A x \in Apps : (Removing(x) <=> x = a) /\ ~Adding(x) /\ ~Adding(x)' /\ ~Removing(x)'
        BY <1>2, <1>3, <1>6 DEF Adding, Removing
  <2>5. \A f \in cromData : f.h = call[a].h => f = e
        BY <2>1, <2>3 DEF CromInv
  <2> QED BY <1>1, <1>2, <2>1, <2>3, <2>4, <2>5 DEF CromInv
<1> QED BY <1>4, <1>5, <1>6

LEMMA CromStep ==
  ASSUME KmdfType, HoldingInv, OneAtATime, CromInv, CoreStep
  PROVE  CromInv'
<1>1. CASE Quiet
  <2>1. \A x \in Apps : /\ Adding(x)' <=> Adding(x)
                        /\ Removing(x)' <=> Removing(x)
                        /\ Adding(x) \/ Removing(x) => call'[x] = call[x] /\ block'[x] = block[x]
        BY <1>1 DEF Quiet, Adding, Removing
  <2> QED BY <1>1, <2>1, CromStays DEF Quiet, LedgerKept
<1>2. CASE CleanupFreesMemory
      BY <1>2 DEF CleanupFreesMemory, Reaches, Up, CromInv
<1>3. ASSUME NEW a \in Apps,
             Forwarded(a) \/ Takes(a) \/ Spills(a) \/ Delists(a) \/ DelistsIsoch(a)
      PROVE  CromInv'
  <2>1. \A x \in Apps : /\ Adding(x)' <=> Adding(x)
                        /\ Removing(x)' <=> Removing(x)
                        /\ Adding(x) \/ Removing(x) => call'[x] = call[x] /\ block'[x] = block[x]
        BY <1>3
        DEF Forwarded, Takes, Spills, Delists, DelistsIsoch, Launches, Adding, Removing, KmdfType
  <2>2. UNCHANGED <<cromData, halted, bus, pnp>>
        BY <1>3 DEF Forwarded, Takes, Spills, Delists, DelistsIsoch, Launches
  <2> QED BY <2>1, <2>2, CromStays DEF Up
<1>4. ASSUME NEW a \in Apps, Answered(a) \/ Settled(a)
      PROVE  CromInv'
  <2>1. \A x \in Apps : /\ Adding(x)' <=> Adding(x)
                        /\ Removing(x)' <=> Removing(x)
                        /\ Adding(x) \/ Removing(x) => call'[x] = call[x] /\ block'[x] = block[x]
        BY <1>4
        DEF Answered, Settled, Adding, Removing, LedgerOps, CromOps, NotificationOps, KmdfType
  <2>2. UNCHANGED <<cromData, halted, pnp>> /\ bus'.crom = bus.crom
        BY <1>4 DEF Answered, Settled, LedgerKept
  <2> QED BY <2>1, <2>2, CromStays DEF Up
<1> QED BY <1>1, <1>2, <1>3, <1>4, GrantKeepsCrom, EndKeepsCrom DEF CoreStep, RequestStep

\* The invariant says what CromMatchesTheBus says.
LEMMA CromSays ==
  ASSUME KmdfType, HoldingInv, CromInv
  PROVE  CromMatchesTheBus
<1> DEFINE granted == {[h |-> call[a].h, buf |-> block[a]] :
                         a \in {x \in InFlight({"AddCrom"}) : irb[x] = "granted"}}
           removed == UNION {WithHandle(cromData, call[a].h) :
                         a \in {x \in InFlight({"RemoveCrom"}) : irb[x] = "granted"}}
<1>1. \A e : e \in granted <=> \E a \in Apps : Adding(a) /\ e = Held(a)
      BY DEF InFlight, Adding, Held
<1>2. \A e : e \in removed <=> e \in cromData /\ \E a \in Apps : Removing(a) /\ e.h = call[a].h
      BY DEF InFlight, Removing, WithHandle
<1> HIDE DEF granted, removed
<1>3. ASSUME Up PROVE bus.crom = (cromData \cup granted) \ removed
  <2>1. ASSUME NEW e \in bus.crom PROVE e \in (cromData \cup granted) \ removed
        BY <1>1, <1>2, <1>3, <2>1 DEF CromInv, KmdfType, BusType
  <2>2. ASSUME NEW e \in (cromData \cup granted) \ removed PROVE e \in bus.crom
    <3>1. \A a \in Apps : Adding(a) => Held(a) \in Entry
          BY DEF HoldingInv, Adding, Held, BlockOps, NotificationOps, KmdfType, Entry
    <3>2. e \in Entry
          BY <1>1, <2>2, <3>1 DEF KmdfType
    <3>3. CASE e \in cromData
          BY <1>2, <1>3, <2>2, <3>2, <3>3 DEF CromInv
    <3>4. ASSUME NEW a \in Apps, Adding(a), e = Held(a)
          PROVE  e \in bus.crom
      <4>1. e.h \notin HandlesOf(cromData)
            BY <1>3, <3>4 DEF CromInv, Held
      <4>2. \A x \in Apps : Removing(x) => e.h # call[x].h
            BY <1>3, <4>1 DEF CromInv
      <4> QED BY <1>3, <3>2, <3>4, <4>2 DEF CromInv
    <3> QED BY <1>1, <2>2, <3>3, <3>4
  <2> QED BY <2>1, <2>2
<1> QED BY <1>3 DEF CromMatchesTheBus, CromInv, granted, removed

LEMMA IsochStays ==
  ASSUME IsochInv, UNCHANGED isochData, bus'.isoch = bus.isoch,
         \A a \in Apps : /\ Getting(a)' => Getting(a)
                         /\ GivingBack(a)' => GivingBack(a)
                         /\ Getting(a)' \/ GivingBack(a)' => call'[a] = call[a]
  PROVE  IsochInv'
BY DEF IsochInv

LEMMA GrantKeepsIsoch ==
  ASSUME KmdfType, OneAtATime, IsochInv, NEW a \in Apps, BusGrants(a)
  PROVE  IsochInv'
<1>1. PICK h \in Handles :
        /\ call' = [call EXCEPT ![a].h = h]
        /\ \/ call[a].op = "AllocateAddressRange" /\ AllocatesAddress(h, block[a])
           \/ call[a].op = "AddCrom" /\ AddsCrom(h, block[a])
           \/ call[a].op = "IsochAllocateResources" /\ AllocatesIsoch(h)
           \/ /\ h = call[a].h
              /\ \/ call[a].op = "FreeAddressRange" /\ FreesAddress(h)
                 \/ call[a].op = "RemoveCrom" /\ RemovesCrom(h)
                 \/ call[a].op = "IsochFreeResources" /\ FreesIsoch(h)
      BY DEF BusGrants
<1>2. irb[a] = "sent" /\ irb' = [irb EXCEPT ![a] = "granted"] /\ UNCHANGED isochData
      BY DEF BusGrants, AtBus, Answers, records
<1>3. /\ \A x \in Apps : x # a => call'[x] = call[x] /\ irb'[x] = irb[x]
      /\ call'[a].op = call[a].op /\ call'[a].h = h /\ irb'[a] = "granted"
      BY <1>1, <1>2 DEF KmdfType
<1>4. \A x \in Apps : x # a => /\ Getting(x)' <=> Getting(x)
                               /\ GivingBack(x)' <=> GivingBack(x)
      BY <1>3 DEF Getting, GivingBack
<1>5. /\ Getting(a)' <=> call[a].op = "IsochAllocateResources"
      /\ GivingBack(a)' <=> call[a].op = "IsochFreeResources"
      /\ GivingBack(a) <=> call[a].op = "IsochFreeResources"
      BY <1>2, <1>3 DEF Getting, GivingBack
<1>6. CASE call[a].op \notin ResourceOps
  <2>1. bus'.isoch = bus.isoch
        BY <1>1, <1>6
        DEF AllocatesAddress, FreesAddress, AddsCrom, RemovesCrom, ResourceOps, KmdfType, BusType
  <2> QED BY <1>2, <1>3, <1>4, <1>5, <1>6, <2>1, IsochStays DEF ResourceOps
<1>7. CASE call[a].op \in ResourceOps
  <2>1. \A x \in Apps : x # a => ~Getting(x) /\ ~GivingBack(x)
        BY <1>2, <1>7
        DEF OneAtATime, Getting, GivingBack, ResourceOps, ParallelOps, AddressOps, NotificationOps
  <2>2. CASE call[a].op = "IsochAllocateResources" /\ AllocatesIsoch(h)
    <3>1. bus'.isoch = bus.isoch \cup {h} /\ h \notin bus.isoch
          BY <2>2 DEF AllocatesIsoch, KmdfType, BusType
    <3> QED BY <1>2, <1>3, <1>4, <1>5, <2>1, <2>2, <3>1 DEF IsochInv
  <2>3. CASE call[a].op = "IsochFreeResources" /\ h = call[a].h /\ FreesIsoch(h)
    <3>1. bus'.isoch = bus.isoch \ {h}
          BY <2>3 DEF FreesIsoch, KmdfType, BusType
    <3>2. h \notin isochData
          BY <1>5, <2>3 DEF IsochInv
    <3> QED BY <1>2, <1>3, <1>4, <1>5, <2>1, <2>3, <3>1, <3>2 DEF IsochInv
  <2> QED BY <1>1, <1>7, <2>2, <2>3 DEF ResourceOps
<1> QED BY <1>6, <1>7

LEMMA IsochStep ==
  ASSUME KmdfType, OneAtATime, IsochInv, CoreStep
  PROVE  IsochInv'
<1>1. CASE Quiet \/ CleanupFreesMemory
  <2>1. \A x \in Apps : /\ Getting(x)' => Getting(x)
                        /\ GivingBack(x)' => GivingBack(x)
                        /\ Getting(x)' \/ GivingBack(x)' => call'[x] = call[x]
        BY <1>1 DEF Quiet, CleanupFreesMemory, request, sent, Getting, GivingBack
  <2> QED BY <1>1, <2>1, IsochStays DEF Quiet, LedgerKept, CleanupFreesMemory
<1>2. ASSUME NEW a \in Apps, Forwarded(a) \/ Takes(a) \/ Spills(a) \/ Delists(a)
      PROVE  IsochInv'
  <2>1. \A x \in Apps : /\ Getting(x)' => Getting(x)
                        /\ GivingBack(x)' => GivingBack(x)
                        /\ Getting(x)' \/ GivingBack(x)' => call'[x] = call[x]
        BY <1>2
        DEF Forwarded, Takes, Spills, Delists, Launches, Getting, GivingBack, KmdfType
  <2>2. UNCHANGED <<isochData, bus>>
        BY <1>2 DEF Forwarded, Takes, Spills, Delists, Launches
  <2> QED BY <2>1, <2>2, IsochStays
<1>3. ASSUME NEW a \in Apps, Answered(a) \/ Settled(a)
      PROVE  IsochInv'
  <2>1. \A x \in Apps : /\ Getting(x)' => Getting(x)
                        /\ GivingBack(x)' => GivingBack(x)
                        /\ Getting(x)' \/ GivingBack(x)' => call'[x] = call[x]
        BY <1>3
        DEF Answered, Settled, Getting, GivingBack, LedgerOps, NotificationOps, KmdfType
  <2>2. UNCHANGED isochData /\ bus'.isoch = bus.isoch
        BY <1>3 DEF Answered, Settled, LedgerKept
  <2> QED BY <2>1, <2>2, IsochStays
<1>4. ASSUME NEW a \in Apps, DelistsIsoch(a)
      PROVE  IsochInv'
  <2>1. /\ isochData' = isochData \ {call[a].h} /\ UNCHANGED <<bus, call>>
        /\ call[a].op = "IsochFreeResources"
        /\ \A x \in Apps : x # a => irb'[x] = irb[x]
        BY <1>4 DEF DelistsIsoch, Launches, KmdfType
  <2> QED BY <2>1 DEF IsochInv, Getting, GivingBack
<1>5. ASSUME NEW a \in Apps, Ends(a)
      PROVE  IsochInv'
  <2>1. /\ irb[a] # "none" /\ UNCHANGED bus /\ irb'[a] = "none"
        /\ \A x \in Apps : x # a => call'[x] = call[x] /\ irb'[x] = irb[x]
    <3>1. UNCHANGED bus
          BY <1>5
          DEF Ends, AllocateAddressRangeCompletion, FreeAddressRangeAnswered, AddCromAnswered,
              RemoveCromAnswered, IsochAllocateResourcesAnswered, IsochFreeResourcesAnswered
    <3> QED BY <1>5, <3>1, EndsRelease DEF Released, KmdfType
  <2>2. /\ ~Getting(a)' /\ ~GivingBack(a)'
        /\ \A x \in Apps : x # a => /\ Getting(x)' <=> Getting(x)
                                    /\ GivingBack(x)' <=> GivingBack(x)
        BY <2>1 DEF Getting, GivingBack
  <2>3. CASE UNCHANGED isochData
        BY <2>1, <2>2, <2>3, IsochStays
  <2>4. CASE Getting(a) /\ isochData' = isochData \cup {call[a].h}
    <3>1. \A x \in Apps : x # a => ~Getting(x) /\ ~GivingBack(x)
          BY <2>4 DEF OneAtATime, Getting, GivingBack, ParallelOps, AddressOps, NotificationOps
    <3> QED BY <2>1, <2>2, <2>4, <3>1 DEF IsochInv
  <2> QED BY <1>5, <2>3, <2>4
          DEF Ends, AllocateAddressRangeCompletion, FreeAddressRangeAnswered, AddCromAnswered,
              RemoveCromAnswered, IsochAllocateResourcesAnswered, IsochFreeResourcesAnswered,
              Resumes, Getting, records
<1> QED BY <1>1, <1>2, <1>3, <1>4, <1>5, GrantKeepsIsoch DEF CoreStep, RequestStep

\* The invariant says what IsochRecordsAreLive says.
LEMMA IsochSays ==
  ASSUME IsochInv
  PROVE  IsochRecordsAreLive
BY DEF IsochInv, IsochRecordsAreLive, InFlight, Getting, GivingBack

-----------------------------------------------------------------------------
(* The steps of the stack.                                                   *)

\* The operations that the menu asks for.
MenuOps ==
  {"AllocateAddressRange", "FreeAddressRange", "AsyncRead", "AsyncWrite", "AsyncLock",
   "AsyncStream", "IsochAllocateBandwidth", "IsochAllocateChannel", "IsochAllocateResources",
   "IsochAttachBuffers", "IsochDetachBuffers", "IsochFreeChannel", "IsochListen",
   "IsochQueryCurrentCycleTime", "IsochQueryResources", "IsochSetChannelBandwidth",
   "IsochStop", "IsochTalk", "BusReset", "GetGenerationCount", "GetLocalHostInformation",
   "Get1394AddressFromDeviceObject", "Control", "GetMaxSpeedBetweenDevices",
   "GetConfigurationInformation", "SetDeviceXmitProperties", "SendPhyConfigurationPacket",
   "RegisterNotification", "DeregisterNotification", "SetGapCount", "AddCrom", "RemoveCrom"}

\* What the driver's invariants need of a step.
StackStep == CoreStep /\ WaitStep /\ KmdfTypeInv'

\* A request is moved above the driver.
LEMMA AboveStep ==
  ASSUME FlightCore, NEW a \in Apps, at[a] \notin {"bus", "sent", "waiting"},
         \A x \in Apps : x # a => at'[x] = at[x] /\ call'[x] = call[x],
         RequestType', UNCHANGED <<sent, records, counting, device, bus>>
  PROVE  StackStep
<1>1. KmdfType /\ OriginalPacketHeld
      BY TypeInParts DEF FlightCore, FlightInv
<1>2. irb[a] = "none"
      BY <1>1, DriverHasNoIrb
<1>3. CoreStep
      BY <1>1, <1>2, MovedQuiet DEF sent, records
<1>4. WaitStep
      BY DEF WaitStep, counting
<1>5. KmdfTypeInv'
      BY RequestOnly DEF FlightCore
<1> QED BY <1>3, <1>4, <1>5 DEF StackStep

LEMMA StillStep ==
  ASSUME FlightCore, UNCHANGED kmdfVars
  PROVE  StackStep
<1>1. CoreStep
      BY StillQuiet DEF kmdfVars, device, LedgerKept, Up
<1>2. WaitStep
      BY DEF WaitStep, kmdfVars, request, counting
<1>3. KmdfTypeInv'
  <2> USE DEF kmdfVars, request, sent, records, counting, device
  <2>1. RequestType' /\ SentType' /\ RecordsType'
        BY DEF FlightCore, KmdfTypeInv, RequestType, SentType, RecordsType
  <2>2. CountingType' /\ DeviceType' /\ LedgerType'
        BY DEF FlightCore, KmdfTypeInv, CountingType, DeviceType, LedgerType
  <2> QED BY <2>1, <2>2 DEF KmdfTypeInv
<1> QED BY <1>1, <1>2, <1>3 DEF StackStep

LEMMA CompletesAbove ==
  ASSUME FlightCore, NEW a \in Apps, at[a] \notin {"bus", "sent", "waiting"},
         NEW status \in {"ok", "failed"}, Completes(a, status),
         UNCHANGED <<sent, records, counting, device, bus>>
  PROVE  StackStep
<1>1. KmdfType /\ RequestType
      BY TypeInParts DEF FlightCore, KmdfTypeInv
<1> QED BY <1>1, CompletesOne, CompletesType, AboveStep

LEMMA MovesAbove ==
  ASSUME FlightCore, NEW a \in Apps, at[a] \notin {"bus", "sent", "waiting"},
         NEW stage \in Stages \cup {"filter", "queued", "lost"}, Moves(a, stage),
         UNCHANGED <<call, st, sent, records, counting, device, bus>>
  PROVE  StackStep
<1>1. KmdfType /\ RequestType
      BY TypeInParts DEF FlightCore, KmdfTypeInv
<1>2. \A x \in Apps : x # a => at'[x] = at[x] /\ call'[x] = call[x]
      BY <1>1 DEF Moves, KmdfType
<1> QED BY <1>1, <1>2, MovesType, AboveStep

LEMMA SendsDownStep ==
  ASSUME FlightCore, NEW a \in Apps, at[a] \in {"filter", "queued"}, NEW bad, SendsDown(a, bad)
  PROVE  StackStep
<1>1. "driver" \in Stages \cup {"filter", "queued", "lost"}
      BY DEF Stages
<1> QED BY <1>1, CompletesAbove, MovesAbove DEF SendsDown

LEMMA FiltersStep ==
  ASSUME FlightCore, NEW a \in Apps, Filters(a)
  PROVE  StackStep
<1>1. CASE OnCompletion(a) \/ SequentialCompletes(a)
  <2>1. Returns(a)
        BY <1>1 DEF OnCompletion, SequentialCompletes
  <2>2. /\ at[a] = "completed" /\ Moves(a, "app") /\ st' = [st EXCEPT ![a] = "none"]
        /\ UNCHANGED <<call, sent, records, counting, device, bus>>
        BY <2>1 DEF Returns
  <2>3. \A x \in Apps : x # a => at'[x] = at[x] /\ call'[x] = call[x]
        BY <2>2, TypeInParts DEF Moves, KmdfType, FlightCore
  <2>4. RequestType'
        BY <2>2 DEF FlightCore, KmdfTypeInv, RequestType, Moves, Stages
  <2> QED BY <2>2, <2>3, <2>4, AboveStep
<1>2. CASE ParallelDefault(a)
  <2>1. \E stage \in {"queued", "lost"} : Moves(a, stage)
        BY <1>2 DEF ParallelDefault
  <2> QED BY <1>2, <2>1, MovesAbove DEF ParallelDefault, AtFilter
<1>3. ASSUME NEW bad, at[a] \in {"filter", "queued"}, SendsDown(a, bad)
      PROVE  StackStep
      BY <1>3, SendsDownStep
<1>4. CASE Parallel(a) /\ ~ParallelDefault(a)
      BY <1>3, <1>4
      DEF Parallel, ParallelLock, ParallelTransfer, ParallelReset, ParallelAddressData,
          ParallelAddressRange, AtFilter
<1>5. CASE Sequential(a)
      BY <1>3, <1>5
      DEF Sequential, SequentialAllocates, SequentialFrees, SequentialStreams,
          SequentialCycleTime, SequentialGeneration, SequentialAsksBus, SequentialGetsHost,
          SequentialSetsHost, SequentialControl, SequentialRefuses, AtSequential
<1> QED BY <1>1, <1>2, <1>4, <1>5 DEF Filters

LEMMA AsksStep ==
  ASSUME FlightCore, NEW a \in Apps, at[a] = "app", NEW op \in Ops, NEW size \in Sizes,
         Asks(a, op, size), Moves(a, "filter"),
         UNCHANGED <<st, sent, records, counting, device, bus>>
  PROVE  StackStep
<1>1. KmdfType /\ RequestType
      BY TypeInParts DEF FlightCore, KmdfTypeInv
<1>2. PICK h \in Handles \cup {None} :
        call' = [call EXCEPT ![a] = [op |-> op, h |-> h, size |-> size]]
      BY DEF Asks, HandlesFor
<1>3. \A x \in Apps : x # a => at'[x] = at[x] /\ call'[x] = call[x]
      BY <1>1, <1>2 DEF Moves, KmdfType
<1>4. RequestType'
      BY <1>1, <1>2 DEF RequestType, Moves
<1> QED BY <1>3, <1>4, AboveStep

LEMMA MenuStep ==
  ASSUME MenuOps \subseteq Ops, NEW w \in Windows, AsyncMenu(w) \/ IsochMenu(w) \/ ApiMenu(w)
  PROVE  \/ UNCHANGED hybridVars
         \/ \E op \in Ops, size \in Sizes : SendRequest(w, op, size)
<1>1. MenuOps \subseteq Ops /\ {"fits", "short", "zero", "empty"} \subseteq Sizes
      BY DEF Sizes
<1>2. CASE AsyncMenu(w)
      BY <1>1, <1>2
      DEF AsyncMenu, w1394_AllocateAddressRange, w1394_FreeAddressRange, w1394_AsyncRead,
          w1394_AsyncWrite, w1394_AsyncLock, w1394_AsyncStream, Sends, MenuOps
<1>3. CASE IsochMenu(w)
      BY <1>1, <1>3
      DEF IsochMenu, w1394_IsochAllocateBandwidth, w1394_IsochFreeBandwidth,
          w1394_IsochAllocateChannel, w1394_IsochFreeChannel, w1394_IsochAllocateResources,
          w1394_IsochFreeResources, w1394_IsochAttachBuffers, w1394_IsochDetachBuffers,
          w1394_IsochListen, w1394_IsochTalk, w1394_IsochStop,
          w1394_IsochQueryCurrentCycleTime, w1394_IsochQueryResources,
          w1394_IsochSetChannelBandwidth, NothingSent, Sends, MenuOps
<1>4. CASE ApiMenu(w)
      BY <1>1, <1>4
      DEF ApiMenu, w1394_BusReset, w1394_GetGenerationCount, w1394_GetLocalHostInfo,
          w1394_Get1394AddressFromDeviceObject, w1394_Control,
          w1394_GetMaxSpeedBetweenDevices, w1394_GetConfigurationInfo,
          w1394_SetDeviceXmitProperties, w1394_SendPhyConfigPacket,
          w1394_BusResetNotification, w1394_SetLocalHostInfo, Sends, MenuOps
<1> QED BY <1>2, <1>3, <1>4

HybridCore == AddressCore /\ UmdfType /\ ExeType /\ SerialInv /\ CromInv /\ IsochInv

LEMMA HybridHas ==
  ASSUME HybridCore
  PROVE  /\ FlightCore /\ KmdfType /\ WaitingInv /\ OriginalPacketHeld /\ HoldingInv
         /\ OwnedOnce /\ LedgerInv /\ UmdfType /\ ExeType /\ SerialInv /\ CromInv /\ IsochInv
BY TypeInParts DEF HybridCore, AddressCore, BlocksCore, FlightCore, FlightInv

\* What a step of the stack keeps besides the driver's invariants.
AboveKept == SerialInv' /\ UmdfType' /\ ExeType'

LEMMA DriverKept ==
  ASSUME HybridCore, DriverStep, UNCHANGED <<umdfVars, exeVars>>
  PROVE  AboveKept
<1>1. SerialInv'
      BY HybridHas, SerialDriver
<1>2. UmdfType' /\ ExeType'
      BY HybridHas DEF UmdfType, ExeType, umdfVars, exeVars
<1> QED BY <1>1, <1>2 DEF AboveKept

LEMMA SendRequestKept ==
  ASSUME HybridCore, NEW a \in Apps, NEW op \in Ops, NEW size \in Sizes,
         at[a] = "app", Asks(a, op, size), Moves(a, "filter"),
         UNCHANGED <<st, sent, records, counting, device, bus, umdfVars, exeVars>>
  PROVE  StackStep /\ AboveKept
<1>1. StackStep
      BY AsksStep, HybridHas
<1>2. /\ \A x \in Apps : x # a => at'[x] = at[x] /\ call'[x] = call[x]
      /\ at'[a] = "filter" /\ serving # a
      BY HybridHas, NoneIsNobody DEF Asks, Moves, KmdfType, SerialInv, InDriver
<1>3. SerialInv'
      BY <1>2, HybridHas, SerialBeside DEF umdfVars, InDriver
<1>4. UmdfType' /\ ExeType'
      BY HybridHas DEF UmdfType, ExeType, umdfVars, exeVars
<1> QED BY <1>1, <1>3, <1>4 DEF AboveKept

LEMMA SelectsKept ==
  ASSUME HybridCore, NEW w \in Windows, SelectsDevice(w)
  PROVE  StackStep /\ AboveKept
<1>1. UNCHANGED <<kmdfVars, umdfVars>>
      BY DEF SelectsDevice
<1>2. StackStep
      BY <1>1, HybridHas, StillStep
<1>3. SerialInv' /\ UmdfType'
      BY <1>1, HybridHas DEF SerialInv, UmdfType, kmdfVars, request, umdfVars
<1>4. numDevices' \in [Windows -> 0..MaxListed]
  <2>1. numDevices[w] + 1 \in 0..MaxListed
        BY HybridHas, ListBounded DEF SelectsDevice, ExeType
  <2> QED BY <2>1, HybridHas DEF SelectsDevice, FillDeviceList, ExeType
<1>5. /\ selected' \in [Windows -> {"none", "device", "blank"}]
      /\ gHandle' \in [Windows -> BOOLEAN]
  <2>1. CASE UNCHANGED <<selected, gHandle>>
        BY <2>1, HybridHas DEF ExeType
  <2>2. ASSUME NEW name \in {"none", "device", "blank"},
               selected' = [selected EXCEPT ![w] = name],
               gHandle' = [gHandle EXCEPT ![w] = OpenDevice(w, name)]
        PROVE  <1>5!1 /\ <1>5!2
    <3>1. OpenDevice(w, name) \in BOOLEAN
          BY DEF OpenDevice
    <3> HIDE DEF OpenDevice
    <3> QED BY <2>2, <3>1, HybridHas DEF ExeType
  <2>3. selected[w] \in {"none", "device", "blank"}
        BY HybridHas DEF ExeType
  <2> QED BY <2>1, <2>2, <2>3 DEF SelectsDevice, SelectVirtualTestDevice
<1> QED BY <1>2, <1>3, <1>4, <1>5 DEF AboveKept, ExeType

LEMMA FiltersKept ==
  ASSUME HybridCore, NEW a \in Apps, Filters(a), UNCHANGED exeVars
  PROVE  StackStep /\ AboveKept
<1>1. StackStep
      BY HybridHas, FiltersStep
<1>2. SerialInv'
      BY HybridHas, ParallelSerial, SequentialSerial, ReturnsSerial DEF Filters
<1>3. UmdfType'
  <2>1. CASE ParallelDefault(a)
        BY <2>1, HybridHas DEF ParallelDefault, UmdfType
  <2>2. CASE SequentialCompletes(a)
        BY <2>2, HybridHas DEF SequentialCompletes, UmdfType
  <2>3. CASE UNCHANGED umdfVars
        BY <2>3, HybridHas DEF umdfVars, UmdfType
  <2> QED BY <2>1, <2>2, <2>3
          DEF Filters, Parallel, ParallelLock, ParallelTransfer, ParallelReset,
              ParallelAddressData, ParallelAddressRange, Sequential, SequentialAllocates,
              SequentialFrees, SequentialStreams, SequentialCycleTime, SequentialGeneration,
              SequentialAsksBus, SequentialGetsHost, SequentialSetsHost, SequentialControl,
              SequentialRefuses, SendsDown, OnCompletion
<1>4. ExeType'
      BY HybridHas DEF ExeType, exeVars
<1> QED BY <1>1, <1>2, <1>3, <1>4 DEF AboveKept

LEMMA KernelKept ==
  ASSUME HybridCore, InlineBus, NEW a \in Apps, Kernel(a), UNCHANGED exeVars
  PROVE  StackStep /\ AboveKept
<1>1. CoreStep /\ WaitStep /\ KmdfTypeInv'
      BY HybridHas, ServeShape, ServeWaits, ServeType DEF Kernel, FlightCore
<1>2. DriverStep
      BY HybridHas, KernelSerial
<1>3. AboveKept
      BY <1>2, DriverKept DEF Kernel
<1> QED BY <1>1, <1>3 DEF StackStep

LEMMA OthersKept ==
  ASSUME HybridCore, UNCHANGED <<umdfVars, exeVars>>,
         \/ BusResetRoutine \/ BusResets \/ StartDevice \/ StopDevice \/ RemoveDevice
         \/ BusResetRoutineWorkItem
  PROVE  StackStep /\ AboveKept
<1>1. KmdfTypeInv
      BY HybridHas DEF FlightCore
<1>2. CASE BusResetRoutineWorkItem
  <2>1. PICK i \in 1..MaxResets : UpdateGenerationCount(i)
        BY <1>2 DEF BusResetRoutineWorkItem
  <2>2. i \in 0..MaxResets
        BY ResetsBounded
  <2>3. CoreStep /\ WaitStep /\ KmdfTypeInv'
        BY <1>1, <2>1, <2>2, UpdateShape, QueueWaits, UpdateType
  <2> QED BY <2>1, <2>3, HybridHas, OthersSerial, DriverKept DEF StackStep, umdfVars
<1>3. CASE BusResetRoutine \/ BusResets \/ StartDevice \/ StopDevice \/ RemoveDevice
  <2>1. CoreStep
        BY <1>3, HybridHas, ResetShape, StartShape, StopShape
  <2>2. WaitStep
        BY <1>3, QueueWaits
  <2>3. KmdfTypeInv'
        BY <1>1, <1>3, ResetType, StartType, StopType
  <2>4. AboveKept
        BY <1>3, HybridHas, OthersSerial, DriverKept DEF umdfVars
  <2> QED BY <2>1, <2>2, <2>3, <2>4 DEF StackStep
<1> QED BY <1>2, <1>3

\* The filter's device is set up, or takes the stack down.
LEMMA SetsUpKept ==
  ASSUME HybridCore, OnDeviceAdd \/ Configure, UNCHANGED exeVars
  PROVE  StackStep /\ AboveKept
<1>1. /\ UNCHANGED <<request, sent, records, counting, halted, bus, seqQueue, serving>>
      /\ pnp = "added" /\ pnp' \in {"added", "gone"} /\ filter' \in FilterStages
      BY HybridHas
      DEF OnDeviceAdd, Configure, CreateParallelQueue, CreateSequentialQueue, SetsUp,
          FilterStages, UmdfType
<1>2. CoreStep
      BY <1>1, StillQuiet DEF LedgerKept, Up
<1>3. WaitStep
      BY <1>1 DEF WaitStep, request, counting
<1>4. KmdfTypeInv'
  <2> USE DEF request, sent, records, counting
  <2>1. RequestType' /\ SentType' /\ RecordsType'
        BY <1>1, HybridHas DEF FlightCore, KmdfTypeInv, RequestType, SentType, RecordsType
  <2>2. CountingType' /\ LedgerType'
        BY <1>1, HybridHas DEF FlightCore, KmdfTypeInv, CountingType, LedgerType
  <2>3. DeviceType'
        BY <1>1, HybridHas DEF FlightCore, KmdfTypeInv, DeviceType, PnpStages
  <2> QED BY <2>1, <2>2, <2>3 DEF KmdfTypeInv
<1>5. SerialInv' /\ UmdfType' /\ ExeType'
      BY <1>1, HybridHas DEF SerialInv, UmdfType, ExeType, exeVars, request
<1> QED BY <1>2, <1>3, <1>4, <1>5 DEF StackStep, AboveKept

LEMMA QueueKept ==
  ASSUME HybridCore, PurgeSequential \/ SequentialPresents, UNCHANGED exeVars
  PROVE  StackStep /\ AboveKept
<1>1. /\ seqQueue # <<>> /\ seqQueue' = Tail(seqQueue) /\ UNCHANGED filter
      /\ serving' \in {serving, Head(seqQueue)}
      BY DEF PurgeSequential, SequentialPresents
<1>2. Head(seqQueue) \in Apps /\ at[Head(seqQueue)] = "queued"
      BY <1>1, HybridHas, QueueHead
<1>3. UmdfType' /\ ExeType'
      BY <1>1, <1>2, HybridHas DEF UmdfType, ExeType, exeVars
<1>4. SerialInv'
      BY HybridHas, PurgesSerial, PresentsSerial
<1>5. StackStep
      BY <1>2, HybridHas, CompletesAbove, StillStep DEF PurgeSequential, SequentialPresents
<1> QED BY <1>3, <1>4, <1>5 DEF AboveKept

LEMMA StillKept ==
  ASSUME HybridCore, UNCHANGED hybridVars
  PROVE  StackStep /\ AboveKept
<1>1. UNCHANGED <<kmdfVars, umdfVars, exeVars>>
      BY DEF hybridVars
<1>2. DriverStep
      BY <1>1 DEF DriverStep, kmdfVars, request, umdfVars
<1> QED BY <1>1, <1>2, HybridHas, StillStep, DriverKept

LEMMA HybridNextKept ==
  ASSUME HybridCore, InlineBus, MenuOps \subseteq Ops, [HybridNext]_hybridVars
  PROVE  StackStep /\ AboveKept
<1>1. ASSUME NEW a \in Apps, Driver(a) PROVE StackStep /\ AboveKept
      BY <1>1, KernelKept, FiltersKept DEF Driver
<1>2. ASSUME NEW w \in Windows, w1394_AppWndProc(w) PROVE StackStep /\ AboveKept
  <2>1. ASSUME NEW op \in Ops, NEW size \in Sizes, SendRequest(w, op, size)
        PROVE  StackStep /\ AboveKept
        BY <2>1, SendRequestKept, AppsAreClients DEF SendRequest
  <2> QED BY <1>2, <2>1, SelectsKept, MenuStep, StillKept DEF w1394_AppWndProc
<1>3. ASSUME NEW p \in Programs, ProgramAsks(p) PROVE StackStep /\ AboveKept
  <2>1. PICK op \in Ops : Asks(p, op, "fits")
        BY <1>3, ClientOpsAreOps DEF ProgramAsks
  <2> QED BY <1>3, <2>1, SendRequestKept, AppsAreClients DEF ProgramAsks, Sizes
<1>4. CASE Framework
      BY <1>4, OthersKept, SetsUpKept, QueueKept DEF Framework, KernelStarts, KernelStops
<1>5. CASE Presents
      BY <1>5, QueueKept DEF Presents
<1>6. CASE Around
      BY <1>6, OthersKept DEF Around
<1>7. CASE CallFails \/ UNCHANGED hybridVars
      BY <1>7, StillKept DEF CallFails
<1> QED BY <1>1, <1>2, <1>3, <1>4, <1>5, <1>6, <1>7 DEF HybridNext

LEMMA HybridStart ==
  ASSUME HybridInit PROVE HybridCore
<1>1. AddressCore
      BY AddressInit DEF HybridInit
<1>2. UmdfType /\ ExeType
      BY ListBounded DEF HybridInit, UmdfInit, UmdfType, ExeType, FilterStages
<1>3. SerialInv
      BY NoneIsNobody DEF HybridInit, UmdfInit, KmdfInit, SerialInv, InDriver
<1>4. CromInv /\ IsochInv
      BY DEF HybridInit, KmdfInit, BusInit, CromInv, IsochInv, Adding, Removing, Getting,
             GivingBack
<1> QED BY <1>1, <1>2, <1>3, <1>4 DEF HybridCore

LEMMA HybridStep ==
  ASSUME HybridCore, InlineBus, MenuOps \subseteq Ops, [HybridNext]_hybridVars
  PROVE  HybridCore' /\ BlocksStep
<1>1. StackStep /\ AboveKept
      BY HybridNextKept
<1>2. OriginalPacketHeld' /\ HoldingInv' /\ WaitingInv'
      BY <1>1, HybridHas, PacketStep, HoldingStep, WaitingStep DEF StackStep
<1>3. BlocksStep /\ LedgerInv'
      BY <1>1, HybridHas, BlocksShape, LedgerStep DEF StackStep
<1>4. OwnedOnce'
      BY <1>3, HybridHas, OwnedStep
<1>5. AddressCore'
      BY <1>1, <1>2, <1>3, <1>4 DEF StackStep, AddressCore, BlocksCore, FlightCore, FlightInv
<1>6. CromInv' /\ IsochInv'
      BY <1>1, HybridHas, OneSerial, CromStep, IsochStep DEF StackStep
<1> QED BY <1>1, <1>3, <1>5, <1>6 DEF HybridCore, AboveKept

(***************************************************************************)
(* The types of the stack: in particular the filter's sequential queue holds *)
(* requests, the application's device count stays within its bound, and the  *)
(* driver's lists hold entries.                                              *)
(***************************************************************************)
THEOREM StackIsTyped ==
  ASSUME InlineBus, MenuOps \subseteq Ops
  PROVE  HybridSpec => []HybridType
<1>1. HybridInit => HybridCore
      BY HybridStart
<1>2. HybridCore /\ [HybridNext]_hybridVars => HybridCore'
      BY HybridStep
<1>3. HybridCore => HybridType
      BY HybridHas DEF HybridType
<1> QED BY <1>1, <1>2, <1>3, PTL DEF HybridSpec

(***************************************************************************)
(* Until the clean-up of a removal, the driver's list of ROM entries is what *)
(* the bus's ROM holds, but for the one entry whose addition or removal the  *)
(* bus has granted and the routine has not recorded yet; and the removal     *)
(* routine, which frees what its search finds without looking, finds it.     *)
(***************************************************************************)
THEOREM CromIsTheBuss ==
  ASSUME InlineBus, MenuOps \subseteq Ops
  PROVE  HybridSpec => []CromMatchesTheBus
<1>1. HybridInit => HybridCore
      BY HybridStart
<1>2. HybridCore /\ [HybridNext]_hybridVars => HybridCore'
      BY HybridStep
<1>3. HybridCore => CromMatchesTheBus
      BY HybridHas, CromSays
<1> QED BY <1>1, <1>2, <1>3, PTL DEF HybridSpec

(***************************************************************************)
(* Every isochronous record is of resources the bus has given out, and none  *)
(* of what a request has just been granted or is giving back: the records    *)
(* change in two steps with no lock over both.                               *)
(***************************************************************************)
THEOREM RecordsAreLive ==
  ASSUME InlineBus, MenuOps \subseteq Ops
  PROVE  HybridSpec => []IsochRecordsAreLive
<1>1. HybridInit => HybridCore
      BY HybridStart
<1>2. HybridCore /\ [HybridNext]_hybridVars => HybridCore'
      BY HybridStep
<1>3. HybridCore => IsochRecordsAreLive
      BY HybridHas, IsochSays
<1> QED BY <1>1, <1>2, <1>3, PTL DEF HybridSpec

(***************************************************************************)
(* In the stack, too, every memory block of the driver has exactly one owner *)
(* as long as no send and no MDL allocation fails.                           *)
(***************************************************************************)
THEOREM StackBlocksHaveOneOwner ==
  ASSUME InlineBus, MenuOps \subseteq Ops, "send" \notin Faults, "mdl" \notin Faults
  PROVE  HybridSpec => []EveryBlockHasOneOwner
<1>1. HybridInit => HybridCore /\ NoneLeaks
      BY HybridStart, BlocksInit DEF HybridInit
<1>2. HybridCore /\ NoneLeaks /\ [HybridNext]_hybridVars => HybridCore' /\ NoneLeaks'
      BY HybridStep, HybridHas, LeakStep
<1>3. HybridCore /\ NoneLeaks => EveryBlockHasOneOwner
      BY HybridHas, OneOwner
<1> QED BY <1>1, <1>2, <1>3, PTL DEF HybridSpec

(***************************************************************************)
(* In the stack, too, the driver's list of address ranges is the bus's       *)
(* ledger, although the filter lets any number of these requests through.    *)
(***************************************************************************)
THEOREM StackListIsLedger ==
  ASSUME InlineBus, MenuOps \subseteq Ops
  PROVE  HybridSpec => []AddressListIsTheBusLedger
<1>1. HybridInit => HybridCore
      BY HybridStart
<1>2. HybridCore /\ [HybridNext]_hybridVars => HybridCore'
      BY HybridStep
<1>3. HybridCore => AddressListIsTheBusLedger
      BY HybridHas, LedgerSays
<1> QED BY <1>1, <1>2, <1>3, PTL DEF HybridSpec
==============================================================================
