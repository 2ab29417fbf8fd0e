--------------------------- MODULE OsrCommProofs ---------------------------
(***************************************************************************)
(* Theorems about OsrComm, for any sets of threads and pool blocks, any    *)
(* bound on identifiers and requests, and whatever may fail or be closed,  *)
(* unless a theorem says otherwise.                                        *)
(***************************************************************************)
EXTENDS OsrComm, SequenceTheorems, FiniteSetTheorems, TLAPS

-----------------------------------------------------------------------------
(* Types.  A thread that is about to use its dataRequest pointer has one.  *)

PointersSet ==
  /\ \A c \in Clients : cpc[c] # "idle" => creq[c] \in Blocks
  /\ \A w \in Workers : wpc[w] = "deliver" => wreq[w] \in Blocks

TypeInv == TypeOK /\ PointersSet

LEMMA TypeInit == Init => TypeInv
<1> SUFFICES ASSUME Init PROVE TypeInv
    OBVIOUS
<1>1. OsrRequestID \in Ids /\ 0 \in Ids /\ issued \in 0 .. MaxRequests
      BY BoundAssumption DEF Init, Ids
<1>2. /\ held \in [Workers -> [id : Ids, type : Ops \cup {"zero"}]]
      /\ file \in [Files -> Stages]
      BY <1>1 DEF Init, Zeroed, Stages
<1>3. /\ ServiceQueue \in Seq(Workers)
      /\ RequestQueue \in Seq(Blocks)
      /\ queue \in [Ops -> SUBSET Blocks]
      /\ heap \in [Blocks -> DataRequest \cup {Nil}]
      BY DEF Init
<1>4. TypeOK
      BY <1>1, <1>2, <1>3 DEF Init, TypeOK, Threads, ClientPcs, WorkerPcs, IrpStatus
<1>5. PointersSet
      BY DEF Init, PointersSet
<1> QED BY <1>4, <1>5 DEF TypeInv

\* The request of a client whose IRP is still pending is in the heap.
LEMMA RequestThere ==
  ASSUME TypeInv, NEW c \in Clients, cpc[c] # "idle", ~RequestGone(c)
  PROVE  /\ creq[c] \in Blocks
         /\ heap[creq[c]] \in DataRequest
         /\ heap[creq[c]].op \in Ops
         /\ heap[creq[c]].id \in Ids
<1>1. creq[c] \in Blocks
      BY DEF TypeInv, PointersSet
<1>2. heap[creq[c]] \in DataRequest
      BY <1>1 DEF TypeInv, TypeOK, RequestGone
<1> QED BY <1>1, <1>2 DEF DataRequest

\* So is the request a service thread is about to deliver.
LEMMA DeliveryThere ==
  ASSUME TypeInv, NEW w \in Workers, wpc[w] = "deliver", ~DeliverGone(w)
  PROVE  /\ wreq[w] \in Blocks
         /\ heap[wreq[w]] \in DataRequest
         /\ heap[wreq[w]].op \in Ops
         /\ heap[wreq[w]].id \in Ids
<1>1. wreq[w] \in Blocks
      BY DEF TypeInv, PointersSet
<1>2. heap[wreq[w]] \in DataRequest
      BY <1>1 DEF TypeInv, TypeOK, DeliverGone
<1> QED BY <1>1, <1>2 DEF DataRequest

\* The head of a queue that is not empty is one of its members.
LEMMA QueueHead ==
  ASSUME NEW S, NEW s \in Seq(S), s # <<>>
  PROVE  Head(s) \in S /\ Tail(s) \in Seq(S)
BY HeadTailProperties

\* A client's step keeps the types.
LEMMA TypeClient ==
  ASSUME TypeInv, NEW c \in Clients, ClientStep(c)
  PROVE  TypeInv'
<1> USE DEF TypeInv
<1>1. CASE Enqueue(c)
  <2>1. creq[c] \in Blocks /\ heap[creq[c]].op \in Ops
        BY <1>1, RequestThere DEF Enqueue
  <2>2. queue' \in [Ops -> SUBSET Blocks]
        BY <1>1, <2>1 DEF Enqueue, TypeOK
  <2>3. cpc' \in [Clients -> ClientPcs]
        BY <1>1 DEF Enqueue, TypeOK, ClientPcs
  <2>4. TypeOK'
        BY <1>1, <2>2, <2>3 DEF Enqueue, TypeOK, Defined, locks, memory, worker, files
  <2>5. PointersSet'
        BY <1>1 DEF Enqueue, PointersSet, worker, TypeOK
  <2> QED BY <2>4, <2>5
<1>2. CASE ClientAcquireService(c)
  <2>1. TypeOK'
        BY <1>2 DEF ClientAcquireService, TypeOK, Defined, queues, memory, worker, files,
                    Threads, ClientPcs
  <2>2. PointersSet'
        BY <1>2 DEF ClientAcquireService, PointersSet, TypeOK, worker
  <2> QED BY <2>1, <2>2
<1>3. CASE ClientAcquireRequest(c)
  <2>1. TypeOK'
        BY <1>3 DEF ClientAcquireRequest, TypeOK, Defined, queues, memory, worker, files,
                    Threads, ClientPcs
  <2>2. PointersSet'
        BY <1>3 DEF ClientAcquireRequest, PointersSet, TypeOK, worker
  <2> QED BY <2>1, <2>2
<1>4. CASE QueueRequest(c)
  <2>1. creq[c] \in Blocks
        BY <1>4, RequestThere DEF QueueRequest
  <2>2. RequestQueue' \in Seq(Blocks)
        BY <1>4, <2>1 DEF QueueRequest, TypeOK
  <2>3. TypeOK'
        BY <1>4, <2>2 DEF QueueRequest, TypeOK, Defined, memory, worker, files, ClientPcs
  <2>4. PointersSet'
        BY <1>4 DEF QueueRequest, PointersSet, TypeOK, worker
  <2> QED BY <2>3, <2>4
<1>5. CASE HandToService(c)
  <2>1. Head(ServiceQueue) \in Workers /\ Tail(ServiceQueue) \in Seq(Workers)
        BY <1>5, QueueHead DEF HandToService, TypeOK
  <2>2. heap[creq[c]].op \in Ops /\ heap[creq[c]].id \in Ids
        BY <1>5, RequestThere DEF HandToService
  <2>3. held' \in [Workers -> [id : Ids, type : Ops \cup {"zero"}]]
        BY <1>5, <2>2 DEF HandToService, TypeOK
  <2>4. TypeOK'
        BY <1>5, <2>1, <2>3
        DEF HandToService, TypeOK, Defined, memory, files, ClientPcs, WorkerPcs
  <2>5. PointersSet'
        BY <1>5 DEF HandToService, PointersSet, TypeOK
  <2> QED BY <2>4, <2>5
<1>6. ASSUME FailWriteNoMdl(c) \/ FailWriteNoPte(c) PROVE TypeInv'
  <2>1. Head(ServiceQueue) \in Workers /\ Tail(ServiceQueue) \in Seq(Workers)
        BY <1>6, QueueHead DEF FailWriteNoMdl, FailWriteNoPte, FailWrite, TypeOK
  <2>2. ServiceQueue' \in Seq(Workers)
        BY <1>6, <2>1 DEF FailWriteNoMdl, FailWriteNoPte
  <2>3. wpc' \in [Workers -> WorkerPcs] /\ UNCHANGED held
        BY <1>6 DEF FailWriteNoMdl, FailWriteNoPte, TypeOK, WorkerPcs
  <2>4. TypeOK'
        BY <1>6, <2>2, <2>3
        DEF FailWriteNoMdl, FailWriteNoPte, FailWrite, TypeOK, Defined, memory, files, ClientPcs
  <2>5. PointersSet'
        BY <1>6 DEF FailWriteNoMdl, FailWriteNoPte, FailWrite, PointersSet, TypeOK
  <2> QED BY <2>4, <2>5
<1>7. CASE CompleteFailedWrite(c)
  <2>1. creq[c] \in Blocks /\ heap[creq[c]] \in DataRequest
        BY <1>7, RequestThere DEF CompleteFailedWrite
  <2>2. heap' \in [Blocks -> DataRequest \cup {Nil}]
        BY <1>7, <2>1 DEF CompleteFailedWrite, TypeOK, DataRequest
  <2>3. TypeOK'
        BY <1>7, <2>2 DEF CompleteFailedWrite, TypeOK, Defined, queues, locks, worker,
                          files, ClientPcs, IrpStatus
  <2>4. PointersSet'
        BY <1>7 DEF CompleteFailedWrite, PointersSet, TypeOK, worker
  <2> QED BY <2>3, <2>4
<1>8. CASE Return(c)
  <2>1. TypeOK'
        BY <1>8 DEF Return, TypeOK, Defined, queues, locks, memory, worker, files,
                    ClientPcs, IrpStatus
  <2>2. PointersSet'
        BY <1>8 DEF Return, PointersSet, TypeOK, worker
  <2> QED BY <2>1, <2>2
<1> QED BY <1>1, <1>2, <1>3, <1>4, <1>5, <1>6, <1>7, <1>8 DEF ClientStep

\* What an answer does to the read or write queue and to the heap.
LEMMA RemoveAndFreeType ==
  ASSUME TypeOK, NEW gone, NEW op \in Ops, RemoveAndFree(gone, op)
  PROVE  /\ queue' \in [Ops -> SUBSET Blocks]
         /\ heap' \in [Blocks -> DataRequest \cup {Nil}]
BY DEF TypeOK, RemoveAndFree

\* A service thread's buffer once its answer has been sent.
LEMMA ZeroedType == Zeroed \in [id : Ids, type : Ops \cup {"zero"}]
<1>1. 0 \in Ids
      BY BoundAssumption DEF Ids
<1> QED BY <1>1 DEF Zeroed

LEMMA AfterResponseType ==
  ASSUME TypeOK, NEW w \in Workers, AfterResponse(w) \/ Abandon(w)
  PROVE  /\ wpc' \in [Workers -> WorkerPcs]
         /\ held' \in [Workers -> [id : Ids, type : Ops \cup {"zero"}]]
         /\ \A v \in Workers : wpc'[v] = "deliver" => wpc[v] = "deliver"
<1>1. PICK pc \in {"idle", "acquireService"} :
        wpc' = [wpc EXCEPT ![w] = pc] /\ held' = [held EXCEPT ![w] = Zeroed]
      BY DEF AfterResponse, Abandon
<1>2. wpc' \in [Workers -> WorkerPcs]
      BY <1>1 DEF TypeOK, WorkerPcs
<1>3. held' \in [Workers -> [id : Ids, type : Ops \cup {"zero"}]]
      BY <1>1, ZeroedType DEF TypeOK
<1> QED BY <1>1, <1>2, <1>3 DEF TypeOK

\* A service thread's step keeps the types.
LEMMA TypeWorker ==
  ASSUME TypeInv, NEW w \in Workers, WorkerStep(w)
  PROVE  TypeInv'
<1> USE DEF TypeInv
<1>1. CASE GetRequest(w)
  <2>1. TypeOK'
        BY <1>1, ZeroedType DEF GetRequest, TypeOK, Defined, queues, locks, memory, client,
                                files, WorkerPcs
  <2>2. PointersSet'
        BY <1>1 DEF GetRequest, PointersSet, TypeOK, client
  <2> QED BY <2>1, <2>2
<1>2. CASE Respond(w)
  <2>1. PICK b \in Matching(w), result \in {"success", "error"} :
          /\ RemoveAndFree({b}, held[w].type)
          /\ dataIrp' = [dataIrp EXCEPT ![heap[b].client] = result]
        BY <1>2 DEF Respond
  <2>2. /\ queue' \in [Ops -> SUBSET Blocks]
        /\ heap' \in [Blocks -> DataRequest \cup {Nil}]
        BY <1>2, <2>1, RemoveAndFreeType DEF Respond
  <2>3. dataIrp' \in [Clients -> IrpStatus]
        BY <2>1 DEF TypeOK, IrpStatus
  <2>4. AfterResponse(w)
        BY <1>2 DEF Respond
  <2>5. TypeOK'
        BY <1>2, <2>2, <2>3, <2>4, AfterResponseType DEF Respond, TypeOK, Defined, locks, files
  <2>6. PointersSet'
        BY <1>2, <2>4, AfterResponseType DEF Respond, PointersSet
  <2> QED BY <2>5, <2>6
<1>3. CASE RespondToNobody(w)
  <2>1. AfterResponse(w)
        BY <1>3 DEF RespondToNobody
  <2>2. TypeOK'
        BY <1>3, <2>1, AfterResponseType
        DEF RespondToNobody, TypeOK, Defined, queues, locks, memory, client, files
  <2>3. PointersSet'
        BY <1>3, <2>1, AfterResponseType DEF RespondToNobody, PointersSet, client
  <2> QED BY <2>2, <2>3
<1>4. CASE RespondWithBadType(w)
  <2>1. Abandon(w) /\ leaked' \in BOOLEAN
        BY <1>4 DEF RespondWithBadType, Abandon
  <2>2. TypeOK'
        BY <1>4, <2>1, AfterResponseType
        DEF RespondWithBadType, TypeOK, Defined, queues, locks, memory, client, files
  <2>3. PointersSet'
        BY <1>4, <2>1, AfterResponseType DEF RespondWithBadType, PointersSet, client
  <2> QED BY <2>2, <2>3
<1>5. CASE RespondUnmapped(w)
  <2>1. PICK b \in Matching(w) :
          /\ RemoveAndFree({b}, held[w].type)
          /\ dataIrp' = [dataIrp EXCEPT ![heap[b].client] = "error"]
        BY <1>5 DEF RespondUnmapped
  <2>2. /\ queue' \in [Ops -> SUBSET Blocks]
        /\ heap' \in [Blocks -> DataRequest \cup {Nil}]
        BY <1>5, <2>1, RemoveAndFreeType DEF RespondUnmapped
  <2>3. dataIrp' \in [Clients -> IrpStatus]
        BY <2>1 DEF TypeOK, IrpStatus
  <2>4. Abandon(w) /\ leaked' \in BOOLEAN
        BY <1>5 DEF RespondUnmapped, Abandon
  <2>5. TypeOK'
        BY <1>5, <2>2, <2>3, <2>4, AfterResponseType
        DEF RespondUnmapped, TypeOK, Defined, locks, files
  <2>6. PointersSet'
        BY <1>5, <2>4, AfterResponseType DEF RespondUnmapped, PointersSet
  <2> QED BY <2>5, <2>6
<1>6. CASE WorkerAcquireService(w)
  <2>1. TypeOK'
        BY <1>6 DEF WorkerAcquireService, TypeOK, Defined, queues, memory, client, files,
                    Threads, WorkerPcs
  <2>2. PointersSet'
        BY <1>6 DEF WorkerAcquireService, PointersSet, TypeOK, client
  <2> QED BY <2>1, <2>2
<1>7. CASE WorkerAcquireRequest(w)
  <2>1. TypeOK'
        BY <1>7 DEF WorkerAcquireRequest, TypeOK, Defined, queues, memory, client, files,
                    Threads, WorkerPcs
  <2>2. PointersSet'
        BY <1>7 DEF WorkerAcquireRequest, PointersSet, TypeOK, client
  <2> QED BY <2>1, <2>2
<1>8. CASE TakeRequest(w)
  <2>1. Head(RequestQueue) \in Blocks /\ Tail(RequestQueue) \in Seq(Blocks)
        BY <1>8, QueueHead DEF TakeRequest, TypeOK
  <2>2. TypeOK'
        BY <1>8, <2>1 DEF TakeRequest, TypeOK, Defined, ReleaseBoth, memory, client, files,
                          WorkerPcs
  <2>3. PointersSet'
        BY <1>8, <2>1 DEF TakeRequest, PointersSet, TypeOK, client
  <2> QED BY <2>2, <2>3
<1>9. CASE QueueServiceIrp(w)
  <2>1. ServiceQueue' \in Seq(Workers)
        BY <1>9 DEF QueueServiceIrp, TypeOK
  <2>2. TypeOK'
        BY <1>9, <2>1 DEF QueueServiceIrp, TypeOK, Defined, ReleaseBoth, memory, client,
                          files, WorkerPcs
  <2>3. PointersSet'
        BY <1>9 DEF QueueServiceIrp, PointersSet, TypeOK, client
  <2> QED BY <2>2, <2>3
<1>10. CASE Deliver(w)
  <2>1. heap[wreq[w]].op \in Ops /\ heap[wreq[w]].id \in Ids
        BY <1>10, DeliveryThere DEF Deliver
  <2>2. held' \in [Workers -> [id : Ids, type : Ops \cup {"zero"}]]
        BY <1>10, <2>1 DEF Deliver, TypeOK
  <2>3. TypeOK'
        BY <1>10, <2>2 DEF Deliver, TypeOK, Defined, queues, locks, memory, client, files,
                           WorkerPcs
  <2>4. PointersSet'
        BY <1>10 DEF Deliver, PointersSet, TypeOK, client
  <2> QED BY <2>3, <2>4
<1>11. CASE DeliverUnmapped(w)
  <2>1. heap' \in [Blocks -> DataRequest \cup {Nil}]
        BY <1>11 DEF DeliverUnmapped, TypeOK
  <2>2. TypeOK'
        BY <1>11, <2>1 DEF DeliverUnmapped, TypeOK, Defined, queues, locks, files, WorkerPcs,
                           IrpStatus
  <2>3. PointersSet'
        BY <1>11 DEF DeliverUnmapped, PointersSet, TypeOK
  <2> QED BY <2>2, <2>3
<1>12. CASE DeliverCopyFails(w)
  <2>1. TypeOK'
        BY <1>12 DEF DeliverCopyFails, TypeOK, Defined, queues, locks, memory, client, files,
                     WorkerPcs
  <2>2. PointersSet'
        BY <1>12 DEF DeliverCopyFails, PointersSet, TypeOK, client
  <2> QED BY <2>1, <2>2
<1> QED BY <1>1, <1>2, <1>3, <1>4, <1>5, <1>6, <1>7, <1>8, <1>9, <1>10, <1>11, <1>12
        DEF WorkerStep

\* A new call keeps the types: the identifier rolls over at IdLimit.
LEMMA TypeStart ==
  ASSUME TypeInv, NEW c \in Clients, NEW op \in Ops, NEW b \in Blocks,
         StartReadWrite(c, op, b)
  PROVE  TypeInv'
<1> USE DEF TypeInv
<1>1. NextRequestID \in Ids
      BY BoundAssumption DEF NextRequestID, TypeOK, Ids
<1>2. [client |-> c, op |-> op, id |-> NextRequestID, irp |-> "pending"] \in DataRequest
      BY <1>1 DEF DataRequest
<1>3. heap' \in [Blocks -> DataRequest \cup {Nil}]
      BY <1>2 DEF TypeOK, StartReadWrite
<1>4. OsrRequestID' \in Ids /\ issued' \in 0 .. MaxRequests
      BY <1>1, BoundAssumption DEF TypeOK, StartReadWrite
<1>5. TypeOK'
      BY <1>3, <1>4 DEF TypeOK, StartReadWrite, Defined, queues, locks, worker, files,
                        ClientPcs, IrpStatus
<1>6. PointersSet'
      BY DEF PointersSet, StartReadWrite, TypeOK, worker
<1> QED BY <1>5, <1>6

\* Opening, cleaning up and closing file objects keep the types.
LEMMA TypeFile ==
  ASSUME TypeInv, CreateControl \/ CloseControl \/ \E f \in Files : FileStep(f)
  PROVE  TypeInv'
<1> USE DEF TypeInv
<1>1. CASE CreateControl
  <2>1. TypeOK'
        BY <1>1 DEF CreateControl, TypeOK, Defined, queues, locks, memory, client, worker,
                    Stages
  <2>2. PointersSet'
        BY <1>1 DEF CreateControl, PointersSet, client, worker
  <2> QED BY <2>1, <2>2
<1>2. CASE CloseControl
  <2>1. held' \in [Workers -> [id : Ids, type : Ops \cup {"zero"}]]
        BY <1>2, ZeroedType DEF CloseControl
  <2>2. TypeOK'
        BY <1>2, <2>1 DEF CloseControl, TypeOK, Defined, queues, locks, memory, client,
                          Stages, WorkerPcs
  <2>3. PointersSet'
        BY <1>2 DEF CloseControl, PointersSet, client
  <2> QED BY <2>2, <2>3
<1>3. ASSUME NEW f \in Files, FileStep(f) PROVE TypeInv'
  <2>1. CASE StartCleanup(f)
    <3>1. TypeOK'
          BY <2>1 DEF StartCleanup, TypeOK, Defined, queues, locks, memory, client, worker,
                      Stages
    <3>2. PointersSet'
          BY <2>1 DEF StartCleanup, PointersSet, client, worker
    <3> QED BY <3>1, <3>2
  <2>2. CASE CancelMisread(f)
    <3>1. TypeOK'
          BY <2>2 DEF CancelMisread, TypeOK, Defined, queues, locks, memory, client, worker,
                      Stages
    <3>2. PointersSet'
          BY <2>2 DEF CancelMisread, PointersSet, client, worker
    <3> QED BY <3>1, <3>2
  <2>3. CASE CancelDataQueue(f)
    <3>1. PICK op \in Ops : RemoveAndFree(Cancelled(f, op), op)
          BY <2>3 DEF CancelDataQueue
    <3>2. /\ queue' \in [Ops -> SUBSET Blocks]
          /\ heap' \in [Blocks -> DataRequest \cup {Nil}]
          BY <3>1, RemoveAndFreeType
    <3>3. dataIrp' \in [Clients -> IrpStatus]
          BY <2>3 DEF CancelDataQueue, TypeOK, IrpStatus
    <3>4. file' \in [Files -> Stages]
          BY <2>3 DEF CancelDataQueue, TypeOK, Stages
    <3>5. TypeOK'
          BY <2>3, <3>2, <3>3, <3>4 DEF CancelDataQueue, TypeOK, Defined, locks, worker
    <3>6. PointersSet'
          BY <2>3 DEF CancelDataQueue, PointersSet, worker
    <3> QED BY <3>5, <3>6
  <2> QED BY <1>3, <2>1, <2>2, <2>3 DEF FileStep
<1> QED BY <1>1, <1>2, <1>3

\* An undefined access changes nothing but bugcheck.
LEMMA BugcheckStep ==
  ASSUME UseAfterFree \/ DoubleCompletion \/ MisreadList
  PROVE  /\ bugcheck' \in {"useAfterFree", "doubleCompletion", "misreadList"}
         /\ UNCHANGED <<queues, locks, memory, client, worker, files>>
BY DEF UseAfterFree, DoubleCompletion, MisreadList, Bugcheck

LEMMA TypeStep == TypeInv /\ [Next]_vars => TypeInv'
<1> SUFFICES ASSUME TypeInv, [Next]_vars PROVE TypeInv'
    OBVIOUS
<1>1. ASSUME NEW c \in Clients, NEW op \in Ops, NEW b \in Blocks, StartReadWrite(c, op, b)
      PROVE  TypeInv'
      BY <1>1, TypeStart
<1>2. ASSUME NEW c \in Clients, ClientStep(c) PROVE TypeInv'
      BY <1>2, TypeClient
<1>3. ASSUME NEW w \in Workers, WorkerStep(w) PROVE TypeInv'
      BY <1>3, TypeWorker
<1>4. ASSUME CreateControl \/ CloseControl \/ \E f \in Files : FileStep(f) PROVE TypeInv'
      BY <1>4, TypeFile
<1>5. ASSUME UseAfterFree \/ DoubleCompletion \/ MisreadList PROVE TypeInv'
      BY <1>5, BugcheckStep
      DEF TypeInv, TypeOK, PointersSet, queues, locks, memory, client, worker, files
<1>6. CASE UNCHANGED vars
      BY <1>6
      DEF TypeInv, TypeOK, PointersSet, vars, queues, locks, memory, client, worker, files
<1> QED BY <1>1, <1>2, <1>3, <1>4, <1>5, <1>6 DEF Next, Running, Quiescent

LEMMA TypeInvariant == Spec => []TypeInv
BY TypeInit, TypeStep, PTL DEF Spec

\* TypeOK, for every instance: no step of any thread leaves the types of the
\* queues, the heap, the identifiers or the program counters.
THEOREM TypesPreserved == Spec => []TypeOK
<1>1. TypeInv => TypeOK
      BY DEF TypeInv
<1> QED BY <1>1, TypeInvariant, PTL

-----------------------------------------------------------------------------
(* Locks.                                                                  *)

LEMMA ThreadsDistinct ==
  /\ Nil \notin Clients /\ Nil \notin Workers
  /\ \A c \in Clients, w \in Workers : c # w
BY NilAssumption

LEMMA LocksInit == Init => LocksHeldOnlyInside
BY ThreadsDistinct DEF Init, LocksHeldOnlyInside, InsideClient, InsideWorker

\* A client takes the two locks in order and gives them back together; handing a
\* request over touches the program counter of a thread that holds neither.
LEMMA LocksClient ==
  ASSUME TypeInv, LocksHeldOnlyInside, NEW c \in Clients, ClientStep(c)
  PROVE  LocksHeldOnlyInside'
<1> USE ThreadsDistinct DEF LocksHeldOnlyInside, InsideClient, InsideWorker
<1>0. cpc \in [Clients -> ClientPcs] /\ wpc \in [Workers -> WorkerPcs]
      BY DEF TypeInv, TypeOK
<1>1. CASE Enqueue(c)
      BY <1>0, <1>1 DEF Enqueue, locks, worker
<1>2. CASE ClientAcquireService(c)
      BY <1>0, <1>2 DEF ClientAcquireService, worker
<1>3. CASE ClientAcquireRequest(c)
      BY <1>0, <1>3 DEF ClientAcquireRequest, worker
<1>4. CASE QueueRequest(c)
      BY <1>0, <1>4 DEF QueueRequest, worker
<1>5. CASE HandToService(c)
      BY <1>0, <1>5 DEF HandToService
<1>6. CASE FailWriteNoMdl(c)
      BY <1>0, <1>6 DEF FailWriteNoMdl, FailWrite
<1>7. CASE FailWriteNoPte(c)
      BY <1>0, <1>7 DEF FailWriteNoPte, FailWrite
<1>8. CASE CompleteFailedWrite(c)
      BY <1>0, <1>8 DEF CompleteFailedWrite, locks, worker
<1>9. CASE Return(c)
      BY <1>0, <1>9 DEF Return, locks, worker
<1> QED BY <1>1, <1>2, <1>3, <1>4, <1>5, <1>6, <1>7, <1>8, <1>9 DEF ClientStep

\* So does a service thread.
LEMMA LocksWorker ==
  ASSUME TypeInv, LocksHeldOnlyInside, NEW w \in Workers, WorkerStep(w)
  PROVE  LocksHeldOnlyInside'
<1> USE ThreadsDistinct DEF LocksHeldOnlyInside, InsideClient, InsideWorker
<1>0. cpc \in [Clients -> ClientPcs] /\ wpc \in [Workers -> WorkerPcs]
      BY DEF TypeInv, TypeOK
<1>1. CASE GetRequest(w)
      BY <1>0, <1>1 DEF GetRequest, locks, client
<1>2. CASE Respond(w)
      BY <1>0, <1>2 DEF Respond, Sends, AfterResponse, locks
<1>3. CASE RespondToNobody(w)
      BY <1>0, <1>3 DEF RespondToNobody, Sends, AfterResponse, locks, client
<1>4. CASE RespondWithBadType(w)
      BY <1>0, <1>4 DEF RespondWithBadType, Sends, Abandon, locks, client
<1>5. CASE RespondUnmapped(w)
      BY <1>0, <1>5 DEF RespondUnmapped, Sends, Abandon, locks
<1>6. CASE WorkerAcquireService(w)
      BY <1>0, <1>6 DEF WorkerAcquireService, client
<1>7. CASE WorkerAcquireRequest(w)
      BY <1>0, <1>7 DEF WorkerAcquireRequest, client
<1>8. CASE TakeRequest(w)
      BY <1>0, <1>8 DEF TakeRequest, ReleaseBoth, client
<1>9. CASE QueueServiceIrp(w)
      BY <1>0, <1>9 DEF QueueServiceIrp, ReleaseBoth, client
<1>10. CASE Deliver(w)
      BY <1>0, <1>10 DEF Deliver, locks, client
<1>11. CASE DeliverUnmapped(w)
      BY <1>0, <1>11 DEF DeliverUnmapped, locks
<1>12. CASE DeliverCopyFails(w)
      BY <1>0, <1>12 DEF DeliverCopyFails, locks, client
<1> QED BY <1>1, <1>2, <1>3, <1>4, <1>5, <1>6, <1>7, <1>8, <1>9, <1>10, <1>11, <1>12
        DEF WorkerStep

LEMMA LocksStep == TypeInv /\ LocksHeldOnlyInside /\ [Next]_vars => LocksHeldOnlyInside'
<1> SUFFICES ASSUME TypeInv, LocksHeldOnlyInside, [Next]_vars PROVE LocksHeldOnlyInside'
    OBVIOUS
<1> USE DEF LocksHeldOnlyInside, InsideClient, InsideWorker
<1>0. cpc \in [Clients -> ClientPcs] /\ wpc \in [Workers -> WorkerPcs]
      BY DEF TypeInv, TypeOK
<1>1. ASSUME NEW c \in Clients, NEW op \in Ops, NEW b \in Blocks, StartReadWrite(c, op, b)
      PROVE  LocksHeldOnlyInside'
      BY <1>0, <1>1 DEF StartReadWrite, locks, worker
<1>2. ASSUME NEW c \in Clients, ClientStep(c) PROVE LocksHeldOnlyInside'
      BY <1>2, LocksClient
<1>3. ASSUME NEW w \in Workers, WorkerStep(w) PROVE LocksHeldOnlyInside'
      BY <1>3, LocksWorker
<1>4. CASE CreateControl
      BY <1>4 DEF CreateControl, locks, client, worker
<1>5. CASE CloseControl
      BY <1>5 DEF CloseControl, locks, client
<1>6. ASSUME NEW f \in Files, FileStep(f) PROVE LocksHeldOnlyInside'
      BY <1>6 DEF FileStep, StartCleanup, CancelMisread, CancelDataQueue, locks, client, worker
<1>7. ASSUME UseAfterFree \/ DoubleCompletion \/ MisreadList PROVE LocksHeldOnlyInside'
      BY <1>7, BugcheckStep DEF locks, client, worker
<1>8. CASE UNCHANGED vars
      BY <1>8 DEF vars, locks, client, worker
<1> QED BY <1>1, <1>2, <1>3, <1>4, <1>5, <1>6, <1>7, <1>8 DEF Next, Running, Quiescent

\* ServiceQueueLock and RequestQueueLock are each held by the thread inside the
\* section they guard, for any number of threads, on every path out of
\* OsrCommReadWrite and ProcessControlRequest.
THEOREM LocksAreHeldOnlyInside == Spec => []LocksHeldOnlyInside
BY TypeInvariant, LocksInit, LocksStep, PTL DEF Spec

-----------------------------------------------------------------------------
(* The service queue.                                                      *)

Waits(w, q)  == \E i \in DOMAIN q : q[i] = w
WaitsOnce(q) == \A i, j \in DOMAIN q : q[i] = q[j] => i = j

LEMMA AppendOnce ==
  ASSUME NEW S, NEW q \in Seq(S), NEW s \in S, WaitsOnce(q), ~Waits(s, q)
  PROVE  /\ WaitsOnce(Append(q, s))
         /\ \A t : Waits(t, Append(q, s)) <=> (t = s \/ Waits(t, q))
<1>1. /\ Len(q) \in Nat
      /\ DOMAIN q = 1 .. Len(q)
      /\ DOMAIN Append(q, s) = 1 .. Len(q) + 1
      /\ \A i \in 1 .. Len(q) : Append(q, s)[i] = q[i]
      /\ Append(q, s)[Len(q) + 1] = s
      BY AppendProperties, LenProperties
<1>2. WaitsOnce(Append(q, s))
      BY <1>1 DEF WaitsOnce, Waits
<1>3. ASSUME NEW t PROVE Waits(t, Append(q, s)) <=> (t = s \/ Waits(t, q))
      BY <1>1 DEF Waits
<1> QED BY <1>2, <1>3

LEMMA TailOnce ==
  ASSUME NEW S, NEW q \in Seq(S), q # <<>>, WaitsOnce(q)
  PROVE  /\ Head(q) \in S /\ Tail(q) \in Seq(S)
         /\ WaitsOnce(Tail(q))
         /\ Waits(Head(q), q)
         /\ \A t : Waits(t, Tail(q)) <=> (t # Head(q) /\ Waits(t, q))
<1>1. /\ Len(q) \in Nat \ {0}
      /\ DOMAIN q = 1 .. Len(q)
      /\ Tail(q) \in Seq(S)
      /\ DOMAIN Tail(q) = 1 .. Len(q) - 1
      /\ \A i \in 1 .. Len(q) - 1 : Tail(q)[i] = q[i + 1]
      /\ Head(q) = q[1]
      /\ Head(q) \in S
      BY HeadTailProperties, LenProperties, EmptySeq
<1>2. WaitsOnce(Tail(q))
      BY <1>1 DEF WaitsOnce
<1>3. Waits(Head(q), q)
      BY <1>1 DEF Waits
<1>4. ASSUME NEW t PROVE Waits(t, Tail(q)) <=> (t # Head(q) /\ Waits(t, q))
  <2>1. ASSUME Waits(t, Tail(q)) PROVE t # Head(q) /\ Waits(t, q)
        BY <1>1, <2>1 DEF Waits, WaitsOnce
  <2>2. ASSUME t # Head(q), Waits(t, q) PROVE Waits(t, Tail(q))
    <3>1. PICK i \in 1 .. Len(q) : q[i] = t
          BY <1>1, <2>2 DEF Waits
    <3>2. i - 1 \in 1 .. Len(q) - 1 /\ Tail(q)[i - 1] = t
          BY <1>1, <2>2, <3>1
    <3> QED BY <1>1, <3>2 DEF Waits
  <2> QED BY <2>1, <2>2
<1> QED BY <1>1, <1>2, <1>3, <1>4

\* ServiceIrpAccounted in terms of Waits.
LEMMA AccountedDef ==
  ServiceIrpAccounted <=>
    /\ WaitsOnce(ServiceQueue)
    /\ \A w \in Workers : wpc[w] = "pending" <=> Waits(w, ServiceQueue)
BY DEF ServiceIrpAccounted, WaitsOnce, Waits

LEMMA AccountedInit == Init => ServiceIrpAccounted
BY DEF Init, ServiceIrpAccounted

\* Nothing pending starts or stops waiting.
LEMMA AccountedStutter ==
  ASSUME ServiceIrpAccounted, UNCHANGED ServiceQueue,
         \A w \in Workers : wpc'[w] = "pending" <=> wpc[w] = "pending"
  PROVE  ServiceIrpAccounted'
BY DEF ServiceIrpAccounted

LEMMA AccountedClient ==
  ASSUME TypeInv, ServiceIrpAccounted, NEW c \in Clients, ClientStep(c)
  PROVE  ServiceIrpAccounted'
<1>0. wpc \in [Workers -> WorkerPcs] /\ ServiceQueue \in Seq(Workers)
      BY DEF TypeInv, TypeOK
<1> DEFINE w == Head(ServiceQueue)
<1>1. CASE Enqueue(c)
      BY <1>1, AccountedStutter DEF Enqueue, worker
<1>2. CASE ClientAcquireService(c)
      BY <1>2, AccountedStutter DEF ClientAcquireService, queues, worker
<1>3. CASE ClientAcquireRequest(c)
      BY <1>3, AccountedStutter DEF ClientAcquireRequest, queues, worker
<1>4. CASE QueueRequest(c)
      BY <1>4, AccountedStutter DEF QueueRequest, worker
<1>5. ASSUME ServiceQueue # <<>>, ServiceQueue' = Tail(ServiceQueue),
             wpc' = [wpc EXCEPT ![w] = "answer"]
      PROVE  ServiceIrpAccounted'
  <2>1. /\ WaitsOnce(ServiceQueue)
        /\ \A v \in Workers : wpc[v] = "pending" <=> Waits(v, ServiceQueue)
        BY AccountedDef
  <2>2. /\ w \in Workers
        /\ WaitsOnce(Tail(ServiceQueue))
        /\ \A v : Waits(v, Tail(ServiceQueue)) <=> (v # w /\ Waits(v, ServiceQueue))
        BY <1>0, <1>5, <2>1, TailOnce
  <2>3. \A v \in Workers : wpc'[v] = "pending" <=> (v # w /\ wpc[v] = "pending")
        BY <1>0, <1>5, <2>2
  <2>4. \A v \in Workers : Waits(v, ServiceQueue') <=> wpc'[v] = "pending"
        BY <1>5, <2>1, <2>2, <2>3
  <2> QED BY <1>5, <2>2, <2>4 DEF ServiceIrpAccounted, Waits, WaitsOnce
<1>6. CASE HandToService(c)
      BY <1>5, <1>6 DEF HandToService
<1>7. CASE FailWriteNoPte(c)
      BY <1>5, <1>7 DEF FailWriteNoPte, FailWrite
<1>8. CASE FailWriteNoMdl(c)
  <2>1. ServiceQueue # <<>> /\ ServiceQueue' = Append(Tail(ServiceQueue), w) /\ wpc' = wpc
        BY <1>8 DEF FailWriteNoMdl, FailWrite
  <2>2. /\ WaitsOnce(ServiceQueue)
        /\ \A v \in Workers : wpc[v] = "pending" <=> Waits(v, ServiceQueue)
        BY AccountedDef
  <2>3. /\ w \in Workers /\ Tail(ServiceQueue) \in Seq(Workers)
        /\ WaitsOnce(Tail(ServiceQueue))
        /\ Waits(w, ServiceQueue)
        /\ \A v : Waits(v, Tail(ServiceQueue)) <=> (v # w /\ Waits(v, ServiceQueue))
        BY <1>0, <2>1, <2>2, TailOnce
  <2>4. /\ WaitsOnce(Append(Tail(ServiceQueue), w))
        /\ \A v : Waits(v, Append(Tail(ServiceQueue), w))
                   <=> (v = w \/ Waits(v, Tail(ServiceQueue)))
        BY <2>3, AppendOnce
  <2>5. \A v \in Workers : Waits(v, ServiceQueue') <=> wpc'[v] = "pending"
        BY <2>1, <2>2, <2>3, <2>4
  <2> QED BY <2>1, <2>4, <2>5 DEF ServiceIrpAccounted, Waits, WaitsOnce
<1>9. CASE CompleteFailedWrite(c)
      BY <1>9, AccountedStutter DEF CompleteFailedWrite, queues, worker
<1>10. CASE Return(c)
      BY <1>10, AccountedStutter DEF Return, queues, worker
<1> QED BY <1>1, <1>2, <1>3, <1>4, <1>6, <1>7, <1>8, <1>9, <1>10 DEF ClientStep

LEMMA AccountedWorker ==
  ASSUME TypeInv, ServiceIrpAccounted, NEW w \in Workers, WorkerStep(w)
  PROVE  ServiceIrpAccounted'
<1>0. wpc \in [Workers -> WorkerPcs] /\ ServiceQueue \in Seq(Workers)
      BY DEF TypeInv, TypeOK
<1>1. ASSUME UNCHANGED ServiceQueue, wpc[w] # "pending",
             NEW pc \in WorkerPcs \ {"pending"}, wpc' = [wpc EXCEPT ![w] = pc]
      PROVE  ServiceIrpAccounted'
  <2>1. \A v \in Workers : wpc'[v] = "pending" <=> wpc[v] = "pending"
        BY <1>0, <1>1
  <2> QED BY <1>1, <2>1, AccountedStutter
<1>2. CASE GetRequest(w)
      BY <1>1, <1>2 DEF GetRequest, queues, WorkerPcs
<1>3. CASE Respond(w)
      BY <1>1, <1>3 DEF Respond, Sends, AfterResponse, WorkerPcs
<1>4. CASE RespondToNobody(w)
      BY <1>1, <1>4 DEF RespondToNobody, Sends, AfterResponse, queues, WorkerPcs
<1>5. CASE RespondWithBadType(w)
      BY <1>1, <1>5 DEF RespondWithBadType, Sends, Abandon, queues, WorkerPcs
<1>6. CASE RespondUnmapped(w)
      BY <1>1, <1>6 DEF RespondUnmapped, Sends, Abandon, WorkerPcs
<1>7. CASE WorkerAcquireService(w)
      BY <1>1, <1>7 DEF WorkerAcquireService, queues, WorkerPcs
<1>8. CASE WorkerAcquireRequest(w)
      BY <1>1, <1>8 DEF WorkerAcquireRequest, queues, WorkerPcs
<1>9. CASE TakeRequest(w)
      BY <1>1, <1>9 DEF TakeRequest, WorkerPcs
<1>10. CASE QueueServiceIrp(w)
  <2>1. /\ wpc[w] = "holdsBoth"
        /\ ServiceQueue' = Append(ServiceQueue, w)
        /\ wpc' = [wpc EXCEPT ![w] = "pending"]
        BY <1>10 DEF QueueServiceIrp
  <2>2. /\ WaitsOnce(ServiceQueue)
        /\ \A v \in Workers : wpc[v] = "pending" <=> Waits(v, ServiceQueue)
        BY AccountedDef
  <2>3. /\ WaitsOnce(Append(ServiceQueue, w))
        /\ \A v : Waits(v, Append(ServiceQueue, w)) <=> (v = w \/ Waits(v, ServiceQueue))
        BY <1>0, <2>1, <2>2, AppendOnce
  <2>4. \A v \in Workers : Waits(v, ServiceQueue') <=> wpc'[v] = "pending"
        BY <1>0, <2>1, <2>2, <2>3
  <2> QED BY <2>1, <2>3, <2>4 DEF ServiceIrpAccounted, Waits, WaitsOnce
<1>11. CASE Deliver(w)
      BY <1>1, <1>11 DEF Deliver, queues, WorkerPcs
<1>12. CASE DeliverUnmapped(w)
      BY <1>1, <1>12 DEF DeliverUnmapped, queues, WorkerPcs
<1>13. CASE DeliverCopyFails(w)
      BY <1>1, <1>13 DEF DeliverCopyFails, queues, WorkerPcs
<1> QED BY <1>2, <1>3, <1>4, <1>5, <1>6, <1>7, <1>8, <1>9, <1>10, <1>11, <1>12, <1>13
        DEF WorkerStep

LEMMA AccountedStep == TypeInv /\ ServiceIrpAccounted /\ [Next]_vars => ServiceIrpAccounted'
<1> SUFFICES ASSUME TypeInv, ServiceIrpAccounted, [Next]_vars PROVE ServiceIrpAccounted'
    OBVIOUS
<1>1. ASSUME NEW c \in Clients, NEW op \in Ops, NEW b \in Blocks, StartReadWrite(c, op, b)
      PROVE  ServiceIrpAccounted'
      BY <1>1, AccountedStutter DEF StartReadWrite, queues, worker
<1>2. ASSUME NEW c \in Clients, ClientStep(c) PROVE ServiceIrpAccounted'
      BY <1>2, AccountedClient
<1>3. ASSUME NEW w \in Workers, WorkerStep(w) PROVE ServiceIrpAccounted'
      BY <1>3, AccountedWorker
<1>4. CASE CreateControl
      BY <1>4, AccountedStutter DEF CreateControl, queues, worker
<1>5. CASE CloseControl
  <2>1. \A w \in Workers : wpc[w] # "pending" /\ wpc'[w] # "pending"
        BY <1>5 DEF CloseControl
  <2> QED BY <1>5, <2>1, AccountedStutter DEF CloseControl, queues
<1>6. ASSUME NEW f \in Files, FileStep(f) PROVE ServiceIrpAccounted'
      BY <1>6, AccountedStutter
      DEF FileStep, StartCleanup, CancelMisread, CancelDataQueue, queues, worker
<1>7. ASSUME UseAfterFree \/ DoubleCompletion \/ MisreadList PROVE ServiceIrpAccounted'
      BY <1>7, BugcheckStep, AccountedStutter DEF queues, worker
<1>8. CASE UNCHANGED vars
      BY <1>8, AccountedStutter DEF vars, queues, worker
<1> QED BY <1>1, <1>2, <1>3, <1>4, <1>5, <1>6, <1>7, <1>8 DEF Next, Running, Quiescent

\* Every service IRP that ProcessControlRequest leaves pending is on ServiceQueue
\* exactly once and nothing else is, for any number of threads and on every
\* failure path of OsrCommReadWrite.
THEOREM ServiceIrpsAreAccounted == Spec => []ServiceIrpAccounted
BY TypeInvariant, AccountedInit, AccountedStep, PTL DEF Spec

-----------------------------------------------------------------------------
(* The rendezvous.  A client that holds both locks looked at ServiceQueue  *)
(* after it took ServiceQueueLock, so the queue is still empty.            *)

StillEmpty == \A c \in Clients : cpc[c] = "holdsBoth" => ServiceQueue = <<>>

RendezvousInv == NoMissedRendezvous /\ StillEmpty

LEMMA RendezvousInit == Init => RendezvousInv
BY DEF Init, RendezvousInv, NoMissedRendezvous, StillEmpty

LEMMA RendezvousClient ==
  ASSUME TypeInv, LocksHeldOnlyInside, RendezvousInv, NEW c \in Clients, ClientStep(c)
  PROVE  RendezvousInv'
<1> USE DEF RendezvousInv, NoMissedRendezvous, StillEmpty
<1>0. cpc \in [Clients -> ClientPcs]
      BY DEF TypeInv, TypeOK
<1>1. CASE Enqueue(c)
      BY <1>0, <1>1 DEF Enqueue
<1>2. CASE ClientAcquireService(c)
      BY <1>0, <1>2 DEF ClientAcquireService, queues
<1>3. CASE ClientAcquireRequest(c)
      BY <1>0, <1>3 DEF ClientAcquireRequest, queues
<1>4. CASE QueueRequest(c)
      BY <1>0, <1>4 DEF QueueRequest
<1>5. ASSUME ServiceQueue # <<>>, RequestQueue' = RequestQueue,
             NEW pc \in {"fail", "wait"}, cpc' = [cpc EXCEPT ![c] = pc]
      PROVE  RendezvousInv'
      BY <1>0, <1>5
<1>6. CASE HandToService(c)
      BY <1>5, <1>6 DEF HandToService
<1>7. CASE FailWriteNoMdl(c)
      BY <1>5, <1>7 DEF FailWriteNoMdl, FailWrite
<1>8. CASE FailWriteNoPte(c)
      BY <1>5, <1>8 DEF FailWriteNoPte, FailWrite
<1>9. CASE CompleteFailedWrite(c)
      BY <1>0, <1>9 DEF CompleteFailedWrite, queues
<1>10. CASE Return(c)
      BY <1>0, <1>10 DEF Return, queues
<1> QED BY <1>1, <1>2, <1>3, <1>4, <1>6, <1>7, <1>8, <1>9, <1>10 DEF ClientStep

LEMMA RendezvousWorker ==
  ASSUME TypeInv, LocksHeldOnlyInside, RendezvousInv, NEW w \in Workers, WorkerStep(w)
  PROVE  RendezvousInv'
<1> USE DEF RendezvousInv, NoMissedRendezvous, StillEmpty
<1>1. CASE TakeRequest(w)
  <2>1. RequestQueue # <<>> /\ UNCHANGED <<ServiceQueue, cpc>>
        BY <1>1 DEF TakeRequest, client
  <2>2. ServiceQueue = <<>>
        BY <2>1
  <2> QED BY <2>1, <2>2
<1>2. CASE QueueServiceIrp(w)
  <2>1. \A c \in Clients : cpc[c] # "holdsBoth"
        BY <1>2, ThreadsDistinct
        DEF QueueServiceIrp, LocksHeldOnlyInside, InsideWorker, InsideClient
  <2> QED BY <1>2, <2>1 DEF QueueServiceIrp, client
<1>3. ASSUME UNCHANGED <<ServiceQueue, RequestQueue, cpc>> PROVE RendezvousInv'
      BY <1>3
<1> QED BY <1>1, <1>2, <1>3
    DEF WorkerStep, GetRequest, Respond, RespondToNobody, RespondWithBadType,
        RespondUnmapped, WorkerAcquireService, WorkerAcquireRequest, Deliver,
        DeliverUnmapped, DeliverCopyFails, queues, client

LEMMA RendezvousStep ==
  TypeInv /\ LocksHeldOnlyInside /\ RendezvousInv /\ [Next]_vars => RendezvousInv'
<1> SUFFICES ASSUME TypeInv, LocksHeldOnlyInside, RendezvousInv, [Next]_vars
             PROVE  RendezvousInv'
    OBVIOUS
<1> USE DEF RendezvousInv, NoMissedRendezvous, StillEmpty
<1>1. ASSUME NEW c \in Clients, NEW op \in Ops, NEW b \in Blocks, StartReadWrite(c, op, b)
      PROVE  RendezvousInv'
      BY <1>1 DEF StartReadWrite, queues, TypeInv, TypeOK
<1>2. ASSUME NEW c \in Clients, ClientStep(c) PROVE RendezvousInv'
      BY <1>2, RendezvousClient
<1>3. ASSUME NEW w \in Workers, WorkerStep(w) PROVE RendezvousInv'
      BY <1>3, RendezvousWorker
<1>4. CASE CreateControl \/ CloseControl
      BY <1>4 DEF CreateControl, CloseControl, queues, client
<1>5. ASSUME NEW f \in Files, FileStep(f) PROVE RendezvousInv'
      BY <1>5 DEF FileStep, StartCleanup, CancelMisread, CancelDataQueue, queues, client
<1>6. ASSUME UseAfterFree \/ DoubleCompletion \/ MisreadList PROVE RendezvousInv'
      BY <1>6, BugcheckStep DEF queues, client
<1>7. CASE UNCHANGED vars
      BY <1>7 DEF vars, queues, client
<1> QED BY <1>1, <1>2, <1>3, <1>4, <1>5, <1>6, <1>7 DEF Next, Running, Quiescent

\* No request waits on RequestQueue while a service IRP waits on ServiceQueue:
\* the two locks, taken in that order around both looks, leave no window in
\* which each side misses the other.
THEOREM RendezvousIsNeverMissed == Spec => []NoMissedRendezvous
<1>1. RendezvousInv => NoMissedRendezvous
      BY DEF RendezvousInv
<1> QED BY <1>1, TypeInvariant, LocksAreHeldOnlyInside, RendezvousInit, RendezvousStep, PTL
        DEF Spec

-----------------------------------------------------------------------------
(* Where a request is.  While no resource fails, no handle is closed and an  *)
(* identifier is handed out once, the calls, the heap, the queues and the    *)
(* service threads' buffers tell the same story; the invariant says which.   *)

Undisturbed ==
  /\ ~ResourceFaults /\ ~ControlCloses /\ ~DataCloses
  /\ MaxRequests <= IdLimit

HandlesOpen ==
  /\ file[Control] \in {"closed", "open"}
  /\ \A c \in Clients : file[c] = "open"

\* The k-th identifier: the count starts two before it rolls over.
Serial(k) == IF k < 2 THEN IdLimit - 2 + k ELSE k - 2

Used(b) == heap[b] # Nil

SerialInv ==
  /\ OsrRequestID = Serial(issued)
  /\ \A b \in Blocks : Used(b) => \E k \in 1 .. issued : heap[b].id = Serial(k)
  /\ \A a, b \in Blocks : Used(a) /\ Used(b) /\ heap[a].id = heap[b].id => a = b

\* A call has a request from the moment it starts until its IRP is completed; the
\* request is on the read or write queue once the client has put it there.
CallInv ==
  /\ \A c \in Clients :
       /\ dataIrp[c] = "none" <=> cpc[c] = "idle"
       /\ cpc[c] \notin {"idle", "wait"} => dataIrp[c] = "pending"
       /\ dataIrp[c] = "pending" =>
            /\ cpc[c] # "fail"
            /\ creq[c] \in Blocks /\ Used(creq[c]) /\ heap[creq[c]].client = c
  /\ \A b \in Blocks : Used(b) =>
       /\ dataIrp[heap[b].client] = "pending"
       /\ creq[heap[b].client] = b
       /\ heap[b].irp = "pending"
  /\ \A op \in Ops, b \in Blocks :
       b \in queue[op] <=> Used(b) /\ heap[b].op = op /\ cpc[heap[b].client] # "enqueue"

\* A request whose client has left it, and the service thread it is with.
Parked(b) == Used(b) /\ cpc[heap[b].client] = "wait"
With(w, b) == (wpc[w] = "deliver" /\ wreq[w] = b) \/ Holds(w, b)
Serves(w) == wpc[w] \in {"deliver", "answer"}

PlaceInv ==
  /\ WaitsOnce(RequestQueue)
  /\ \A b \in Blocks : Waits(b, RequestQueue) => Parked(b)
  /\ \A w \in Workers : Serves(w) => \E b \in Blocks : With(w, b)
  /\ \A w \in Workers, b \in Blocks : With(w, b) => Parked(b) /\ ~Waits(b, RequestQueue)
  /\ \A v, w \in Workers, b \in Blocks : With(v, b) /\ With(w, b) => v = w
  /\ \A b \in Blocks : Parked(b) =>
       Waits(b, RequestQueue) \/ \E w \in Workers : With(w, b)

CallsInv == HandlesOpen /\ SerialInv /\ CallInv /\ PlaceInv

\* A request in the heap has a client, an operation and an identifier.
LEMMA UsedFacts ==
  ASSUME TypeInv, NEW b \in Blocks, Used(b)
  PROVE  /\ heap[b] \in DataRequest
         /\ heap[b].client \in Clients
         /\ heap[b].op \in Ops
         /\ heap[b].id \in Ids
BY DEF TypeInv, TypeOK, Used, DataRequest

\* A service thread serves one request.
LEMMA WithOne ==
  ASSUME CallsInv, NEW w \in Workers, NEW a \in Blocks, NEW b \in Blocks,
         With(w, a), With(w, b)
  PROVE  a = b
BY DEF CallsInv, SerialInv, With, Holds, Used

\* The next identifier is the next serial, and no request in the heap has it.
LEMMA NextSerial ==
  ASSUME MaxRequests <= IdLimit, TypeInv, SerialInv, issued < MaxRequests
  PROVE  /\ NextRequestID = Serial(issued + 1)
         /\ \A b \in Blocks : Used(b) => heap[b].id # NextRequestID
<1>1. issued \in Nat /\ issued + 1 <= IdLimit /\ IdLimit \in Nat /\ IdLimit > 2
      BY BoundAssumption DEF TypeInv, TypeOK
<1>2. ASSUME NEW n \in 0 .. IdLimit - 2 PROVE (n + 1) % IdLimit = n + 1
      BY <1>1
<1>3. IdLimit % IdLimit = 0
      BY <1>1
<1>4. NextRequestID = Serial(issued + 1)
  <2>1. CASE issued = 1
        BY <1>1, <1>3, <2>1 DEF NextRequestID, SerialInv, Serial
  <2>2. CASE issued # 1
    <3>1. /\ Serial(issued) \in 0 .. IdLimit - 2
          /\ Serial(issued) + 1 = Serial(issued + 1)
          BY <1>1, <2>2 DEF Serial
    <3> QED BY <1>2, <3>1 DEF NextRequestID, SerialInv
  <2> QED BY <2>1, <2>2
<1>5. ASSUME NEW k \in 1 .. issued PROVE Serial(k) # Serial(issued + 1)
      BY <1>1 DEF Serial
<1> QED BY <1>4, <1>5 DEF SerialInv

LEMMA CallsInit == Init => CallsInv
<1> SUFFICES ASSUME Init PROVE CallsInv
    OBVIOUS
<1>1. HandlesOpen
      BY NilAssumption DEF Init, HandlesOpen, Files
<1>2. SerialInv
      BY BoundAssumption DEF Init, SerialInv, Serial, Used
<1>3. CallInv
      BY DEF Init, CallInv, Used
<1>4. PlaceInv
      BY DEF Init, PlaceInv, WaitsOnce, Waits, Parked, Used, With, Holds, Serves
<1> QED BY <1>1, <1>2, <1>3, <1>4 DEF CallsInv

\* Requests stay where they are while the heap, the queue and what the clients
\* and the service threads have to do with it stay.
LEMMA PlaceSame ==
  ASSUME PlaceInv, UNCHANGED RequestQueue,
         \A b \in Blocks : Parked(b)' <=> Parked(b),
         \A w \in Workers : Serves(w)' <=> Serves(w),
         \A w \in Workers, b \in Blocks : With(w, b)' <=> With(w, b)
  PROVE  PlaceInv'
BY DEF PlaceInv

\* What CallsInv depends on, and no more: a step between two stages before the
\* client waits, or of a thread that has no request, does not matter.
LEMMA CallsKept ==
  ASSUME TypeInv, CallsInv,
         UNCHANGED <<RequestQueue, queue, heap, OsrRequestID, issued, creq, dataIrp>>,
         HandlesOpen',
         \A c \in Clients :
           \/ cpc'[c] = cpc[c]
           \/ {cpc[c], cpc'[c]} \subseteq {"acquireService", "holdsService", "holdsBoth"},
         \A w \in Workers :
           \/ wpc'[w] = wpc[w] /\ wreq'[w] = wreq[w] /\ held'[w] = held[w]
           \/ ~Serves(w) /\ ~Serves(w)'
  PROVE  CallsInv'
<1>1. SerialInv'
      BY DEF CallsInv, SerialInv, Used
<1>2. \A b \in Blocks : Used(b) => heap[b].client \in Clients
      BY UsedFacts
<1>3. CallInv'
      BY <1>2 DEF CallsInv, CallInv, Used
<1>4. \A b \in Blocks : Parked(b)' <=> Parked(b)
      BY <1>2 DEF Parked, Used
<1>5. \A w \in Workers : Serves(w)' <=> Serves(w)
      BY DEF Serves
<1>6. \A w \in Workers, b \in Blocks : With(w, b)' <=> With(w, b)
      BY DEF With, Holds, Serves
<1>7. PlaceInv'
      BY <1>4, <1>5, <1>6, PlaceSame DEF CallsInv
<1> QED BY <1>1, <1>3, <1>7 DEF CallsInv

\* A new request has an identifier and a block nothing refers to.
LEMMA CallsStart ==
  ASSUME Undisturbed, TypeInv, CallsInv, NEW c \in Clients, NEW op \in Ops, NEW b \in Blocks,
         StartReadWrite(c, op, b)
  PROVE  CallsInv'
<1> DEFINE r == [client |-> c, op |-> op, id |-> NextRequestID, irp |-> "pending"]
<1>1. /\ cpc[c] = "idle" /\ heap[b] = Nil /\ issued < MaxRequests
      /\ b \notin queue["read"] /\ b \notin queue["write"]
      /\ OsrRequestID' = NextRequestID /\ issued' = issued + 1
      /\ UNCHANGED <<ServiceQueue, RequestQueue, queue, wpc, wreq, held, file>>
      BY DEF StartReadWrite, queues, worker, files
<1>2. /\ heap'[b] = r
      /\ \A a \in Blocks : a # b => heap'[a] = heap[a]
      /\ creq'[c] = b /\ dataIrp'[c] = "pending" /\ cpc'[c] = "enqueue"
      /\ \A d \in Clients : d # c => /\ creq'[d] = creq[d]
                                     /\ dataIrp'[d] = dataIrp[d]
                                     /\ cpc'[d] = cpc[d]
      BY DEF StartReadWrite, TypeInv, TypeOK
<1>3. r # Nil
  <2>1. NextRequestID \in Ids
        BY BoundAssumption DEF NextRequestID, TypeInv, TypeOK, Ids
  <2> QED BY <2>1, NilAssumption DEF DataRequest
<1>4. \A a \in Blocks : Used(a) => a # b /\ heap[a].client \in Clients /\ heap[a].client # c
      BY <1>1, UsedFacts DEF CallsInv, CallInv, Used
<1>5. \A a \in Blocks : Used(a)' <=> (a = b \/ Used(a))
      BY <1>2, <1>3 DEF Used
<1>6. NextRequestID = Serial(issued + 1) /\ \A a \in Blocks : Used(a) => heap[a].id # NextRequestID
      BY <1>1, NextSerial DEF CallsInv, Undisturbed
<1>7. HandlesOpen'
      BY <1>1 DEF CallsInv, HandlesOpen
<1>8. SerialInv'
  <2>1. OsrRequestID' = Serial(issued')
        BY <1>1, <1>6
  <2>2. issued \in Nat
        BY BoundAssumption DEF TypeInv, TypeOK
  <2>3. ASSUME NEW a \in Blocks, Used(a)' PROVE \E k \in 1 .. issued' : heap'[a].id = Serial(k)
    <3>1. CASE a = b
          BY <1>1, <1>2, <1>6, <2>2, <3>1
    <3>2. CASE a # b
      <4>1. PICK k \in 1 .. issued : heap[a].id = Serial(k)
            BY <1>5, <2>3, <3>2 DEF CallsInv, SerialInv
      <4> QED BY <1>1, <1>2, <2>2, <3>2, <4>1
    <3> QED BY <3>1, <3>2
  <2>4. ASSUME NEW a \in Blocks, NEW d \in Blocks, Used(a)', Used(d)', heap'[a].id = heap'[d].id
        PROVE  a = d
        BY <1>2, <1>5, <1>6, <2>4 DEF CallsInv, SerialInv
  <2> QED BY <2>1, <2>3, <2>4 DEF SerialInv, Serial
<1>9. CallInv'
  <2>1. ASSUME NEW d \in Clients
        PROVE  /\ dataIrp'[d] = "none" <=> cpc'[d] = "idle"
               /\ cpc'[d] \notin {"idle", "wait"} => dataIrp'[d] = "pending"
               /\ dataIrp'[d] = "pending" =>
                    /\ cpc'[d] # "fail"
                    /\ creq'[d] \in Blocks /\ Used(creq[d])' /\ heap'[creq'[d]].client = d
    <3>1. CASE d = c
          BY <1>2, <1>3, <3>1 DEF Used
    <3>2. CASE d # c
          BY <1>2, <1>4, <3>2 DEF CallsInv, CallInv, Used
    <3> QED BY <3>1, <3>2
  <2>2. ASSUME NEW a \in Blocks, Used(a)'
        PROVE  /\ dataIrp'[heap'[a].client] = "pending"
               /\ creq'[heap'[a].client] = a
               /\ heap'[a].irp = "pending"
        BY <1>2, <1>4, <1>5, <2>2 DEF CallsInv, CallInv
  <2>3. ASSUME NEW o \in Ops, NEW a \in Blocks
        PROVE  a \in queue'[o] <=> Used(a)' /\ heap'[a].op = o /\ cpc'[heap'[a].client] # "enqueue"
    <3>1. CASE a = b
          BY <1>1, <1>2, <3>1 DEF Ops
    <3>2. CASE a # b
          BY <1>1, <1>2, <1>4, <1>5, <3>2 DEF CallsInv, CallInv
    <3> QED BY <3>1, <3>2
  <2> QED BY <2>1, <2>2, <2>3 DEF CallInv
<1>10. PlaceInv'
  <2>1. \A a \in Blocks : Parked(a)' <=> Parked(a)
        BY <1>1, <1>2, <1>4, <1>5 DEF Parked, Used
  <2>2. ASSUME NEW w \in Workers, NEW a \in Blocks PROVE With(w, a)' <=> With(w, a)
    <3>1. CASE a # b
          BY <1>1, <1>2, <3>1 DEF With, Holds
    <3>2. CASE a = b
      <4>1. ~With(w, b)
            BY <1>1 DEF CallsInv, PlaceInv, Parked, Used
      <4>2. ASSUME wpc[w] = "answer" PROVE held[w].id # NextRequestID
        <5>1. PICK d \in Blocks : With(w, d)
              BY <4>2 DEF CallsInv, PlaceInv, Serves
        <5>2. Used(d) /\ held[w].id = heap[d].id
              BY <4>2, <5>1 DEF With, Holds, Used
        <5> QED BY <1>6, <5>2
      <4> QED BY <1>1, <1>2, <3>2, <4>1, <4>2 DEF With, Holds
    <3> QED BY <3>1, <3>2
  <2>3. \A w \in Workers : Serves(w)' <=> Serves(w)
        BY <1>1 DEF Serves
  <2> QED BY <1>1, <2>1, <2>2, <2>3, PlaceSame DEF CallsInv
<1> QED BY <1>7, <1>8, <1>9, <1>10 DEF CallsInv

\* A client's step.
LEMMA CallsClient ==
  ASSUME Undisturbed, TypeInv, ServiceIrpAccounted, CallsInv, NEW c \in Clients, ClientStep(c)
  PROVE  CallsInv'
<1>0. /\ cpc \in [Clients -> ClientPcs] /\ wpc \in [Workers -> WorkerPcs]
      /\ held \in [Workers -> [id : Ids, type : Ops \cup {"zero"}]]
      BY DEF TypeInv, TypeOK
<1>1. \A d \in Clients : d # c => cpc'[d] = cpc[d]
      BY <1>0 DEF ClientStep, Enqueue, ClientAcquireService, ClientAcquireRequest, QueueRequest,
                  HandToService, FailWriteNoMdl, FailWriteNoPte, FailWrite,
                  CompleteFailedWrite, Return
<1>2. HandlesOpen' /\ UNCHANGED <<OsrRequestID, issued>>
      BY DEF CallsInv, HandlesOpen, ClientStep, Enqueue, ClientAcquireService,
             ClientAcquireRequest, QueueRequest, HandToService, FailWriteNoMdl,
             FailWriteNoPte, FailWrite, CompleteFailedWrite, Return, files, memory
<1>3. CASE Enqueue(c)
  <2> DEFINE b == creq[c]
  <2>1. /\ cpc[c] = "enqueue" /\ cpc'[c] = "acquireService"
        /\ queue' = [queue EXCEPT ![heap[b].op] = @ \cup {b}]
        /\ UNCHANGED <<RequestQueue, heap, creq, dataIrp, wpc, wreq, held>>
        BY <1>0, <1>3 DEF Enqueue, memory, worker
  <2>2. b \in Blocks /\ Used(b) /\ heap[b].client = c /\ dataIrp[c] = "pending"
        BY <2>1 DEF CallsInv, CallInv
  <2>3. SerialInv'
        BY <1>2, <2>1 DEF CallsInv, SerialInv, Used
  <2>4. CallInv'
    <3>1. ASSUME NEW d \in Clients
          PROVE  /\ dataIrp'[d] = "none" <=> cpc'[d] = "idle"
                 /\ cpc'[d] \notin {"idle", "wait"} => dataIrp'[d] = "pending"
                 /\ dataIrp'[d] = "pending" =>
                      /\ cpc'[d] # "fail"
                      /\ creq'[d] \in Blocks /\ Used(creq[d])' /\ heap'[creq'[d]].client = d
          BY <1>1, <2>1, <2>2 DEF CallsInv, CallInv, Used
    <3>2. ASSUME NEW o \in Ops, NEW a \in Blocks
          PROVE  a \in queue'[o] <=> Used(a)' /\ heap'[a].op = o /\ cpc'[heap'[a].client] # "enqueue"
      <4>1. CASE a = b
        <5>1. heap[b].op \in Ops /\ (b \in queue'[o] <=> heap[b].op = o \/ b \in queue[o])
              BY <2>1, <2>2, UsedFacts DEF TypeInv, TypeOK
        <5>2. b \notin queue[o]
              BY <2>1, <2>2 DEF CallsInv, CallInv
        <5> QED BY <2>1, <2>2, <4>1, <5>1, <5>2 DEF Used
      <4>2. CASE a # b
        <5>1. a \in queue'[o] <=> a \in queue[o]
              BY <2>1, <4>2 DEF TypeInv, TypeOK
        <5>2. Used(a) => heap[a].client \in Clients /\ heap[a].client # c
              BY <4>2, UsedFacts DEF CallsInv, CallInv
        <5> QED BY <1>1, <2>1, <5>1, <5>2 DEF CallsInv, CallInv, Used
      <4> QED BY <4>1, <4>2
    <3>3. ASSUME NEW a \in Blocks, Used(a)'
          PROVE  /\ dataIrp'[heap'[a].client] = "pending"
                 /\ creq'[heap'[a].client] = a
                 /\ heap'[a].irp = "pending"
          BY <2>1, <3>3 DEF CallsInv, CallInv, Used
    <3> QED BY <3>1, <3>2, <3>3 DEF CallInv
  <2>5. PlaceInv'
    <3>1. ASSUME NEW a \in Blocks PROVE Parked(a)' <=> Parked(a)
          BY <1>1, <2>1, UsedFacts DEF Parked, Used
    <3>2. \A w \in Workers : Serves(w)' <=> Serves(w)
          BY <2>1 DEF Serves
    <3>3. \A w \in Workers, a \in Blocks : With(w, a)' <=> With(w, a)
          BY <2>1 DEF With, Holds
    <3> QED BY <2>1, <3>1, <3>2, <3>3, PlaceSame DEF CallsInv
  <2> QED BY <1>2, <2>3, <2>4, <2>5 DEF CallsInv
<1>4. CASE ClientAcquireService(c) \/ ClientAcquireRequest(c)
  <2>1. /\ {cpc[c], cpc'[c]} \subseteq {"acquireService", "holdsService", "holdsBoth"}
        /\ UNCHANGED <<RequestQueue, queue, heap, creq, dataIrp, wpc, wreq, held>>
        BY <1>0, <1>4 DEF ClientAcquireService, ClientAcquireRequest, queues, memory, worker
  <2> QED BY <1>1, <1>2, <2>1, CallsKept
<1>5. CASE Return(c)
  <2>1. /\ cpc[c] = "wait" /\ cpc'[c] = "idle" /\ dataIrp[c] # "pending" /\ dataIrp'[c] = "none"
        /\ \A d \in Clients : d # c => dataIrp'[d] = dataIrp[d] /\ creq'[d] = creq[d]
        /\ UNCHANGED <<RequestQueue, queue, heap, wpc, wreq, held>>
        BY <1>0, <1>5 DEF Return, queues, memory, worker, TypeInv, TypeOK
  <2>2. \A a \in Blocks : Used(a) => heap[a].client \in Clients /\ heap[a].client # c
        BY <2>1, UsedFacts DEF CallsInv, CallInv
  <2>3. SerialInv'
        BY <1>2, <2>1 DEF CallsInv, SerialInv, Used
  <2>4. CallInv'
        BY <1>1, <2>1, <2>2 DEF CallsInv, CallInv, Used
  <2>5. PlaceInv'
    <3>1. \A a \in Blocks : Parked(a)' <=> Parked(a)
          BY <1>1, <2>1, <2>2 DEF Parked, Used
    <3>2. \A w \in Workers : Serves(w)' <=> Serves(w)
          BY <2>1 DEF Serves
    <3>3. \A w \in Workers, a \in Blocks : With(w, a)' <=> With(w, a)
          BY <2>1 DEF With, Holds
    <3> QED BY <2>1, <3>1, <3>2, <3>3, PlaceSame DEF CallsInv
  <2> QED BY <1>2, <2>3, <2>4, <2>5 DEF CallsInv
<1>6. CASE FailWriteNoMdl(c) \/ FailWriteNoPte(c) \/ CompleteFailedWrite(c)
      BY <1>6 DEF FailWriteNoMdl, FailWriteNoPte, FailWrite, CompleteFailedWrite, Undisturbed,
                  CallsInv, CallInv
<1>7. ASSUME cpc[c] \in {"holdsService", "holdsBoth"}, cpc'[c] = "wait",
             UNCHANGED <<queue, heap, creq, dataIrp>>
      PROVE  /\ SerialInv' /\ CallInv'
             /\ creq[c] \in Blocks /\ Used(creq[c]) /\ heap[creq[c]].client = c
             /\ ~Parked(creq[c])
             /\ \A a \in Blocks : Parked(a)' <=> (a = creq[c] \/ Parked(a))
  <2>1. creq[c] \in Blocks /\ Used(creq[c]) /\ heap[creq[c]].client = c
        BY <1>7 DEF CallsInv, CallInv
  <2>2. \A a \in Blocks : Used(a) => heap[a].client \in Clients /\ (heap[a].client = c => a = creq[c])
        BY UsedFacts DEF CallsInv, CallInv
  <2>3. SerialInv'
        BY <1>2, <1>7 DEF CallsInv, SerialInv, Used
  <2>4. CallInv'
        BY <1>1, <1>7, <2>2 DEF CallsInv, CallInv, Used
  <2>5. ~Parked(creq[c]) /\ \A a \in Blocks : Parked(a)' <=> (a = creq[c] \/ Parked(a))
        BY <1>1, <1>7, <2>1, <2>2 DEF Parked, Used
  <2> QED BY <2>1, <2>3, <2>4, <2>5
<1>8. CASE QueueRequest(c)
  <2> DEFINE b == creq[c]
  <2>1. /\ cpc[c] = "holdsBoth" /\ cpc'[c] = "wait"
        /\ RequestQueue' = Append(RequestQueue, b)
        /\ UNCHANGED <<queue, heap, creq, dataIrp, wpc, wreq, held>>
        BY <1>0, <1>8 DEF QueueRequest, memory, worker
  <2>2. /\ SerialInv' /\ CallInv'
        /\ b \in Blocks /\ ~Parked(b)
        /\ \A a \in Blocks : Parked(a)' <=> (a = b \/ Parked(a))
        BY <1>7, <2>1
  <2>3. RequestQueue \in Seq(Blocks)
        BY DEF TypeInv, TypeOK
  <2>4. WaitsOnce(RequestQueue) /\ ~Waits(b, RequestQueue) /\ \A w \in Workers : ~With(w, b)
        BY <2>2 DEF CallsInv, PlaceInv
  <2>5. /\ WaitsOnce(RequestQueue')
        /\ \A a \in Blocks : Waits(a, RequestQueue') <=> (a = b \/ Waits(a, RequestQueue))
        BY <2>1, <2>2, <2>3, <2>4, AppendOnce
  <2>6. \A w \in Workers : Serves(w)' <=> Serves(w)
        BY <2>1 DEF Serves
  <2>7. \A w \in Workers, a \in Blocks : With(w, a)' <=> With(w, a)
        BY <2>1 DEF With, Holds
  <2>8. PlaceInv'
    <3> HIDE DEF b
    <3> QED BY <2>2, <2>4, <2>5, <2>6, <2>7 DEF CallsInv, PlaceInv
  <2> QED BY <1>2, <2>2, <2>8 DEF CallsInv
<1>9. CASE HandToService(c)
  <2>1. ServiceQueue # <<>> /\ cpc[c] = "holdsService" /\ cpc'[c] = "wait"
        BY <1>0, <1>9 DEF HandToService
  <2>2. PICK w \in Workers : w = Head(ServiceQueue) /\ wpc[w] = "pending"
        BY <2>1, AccountedDef, TailOnce DEF TypeInv, TypeOK
  <2>3. PICK b \in Blocks : b = creq[c]
        BY <2>1 DEF CallsInv, CallInv
  <2>4. /\ wpc' = [wpc EXCEPT ![w] = "answer"]
        /\ held' = [held EXCEPT ![w] = [id |-> heap[b].id, type |-> heap[b].op]]
        /\ UNCHANGED <<RequestQueue, queue, heap, creq, dataIrp, wreq>>
        BY <1>9, <2>2, <2>3 DEF HandToService, memory
  <2>5. /\ \A v \in Workers : v # w => wpc'[v] = wpc[v] /\ held'[v] = held[v]
        /\ wpc'[w] = "answer"
        /\ held'[w] = [id |-> heap[b].id, type |-> heap[b].op]
        BY <1>0, <2>4
  <2>6. /\ SerialInv' /\ CallInv'
        /\ Used(b) /\ ~Parked(b)
        /\ \A a \in Blocks : Parked(a)' <=> (a = b \/ Parked(a))
        BY <1>7, <2>1, <2>3, <2>4
  <2>7. \A a \in Blocks : ~With(w, a)
        BY <2>2 DEF With, Holds
  <2>8. \A v \in Workers, a \in Blocks : With(v, a)' <=> (With(v, a) \/ (v = w /\ a = b))
    <3>1. ASSUME NEW v \in Workers, NEW a \in Blocks, v # w PROVE With(v, a)' <=> With(v, a)
          BY <2>4, <2>5, <3>1 DEF With, Holds
    <3>2. ASSUME NEW a \in Blocks PROVE With(w, a)' <=> a = b
      <4>1. With(w, a)' <=> Used(a) /\ heap[a].id = heap[b].id /\ heap[a].op = heap[b].op
            BY <2>4, <2>5 DEF With, Holds, Used
      <4>2. Used(a) /\ heap[a].id = heap[b].id => a = b
            BY <2>6 DEF CallsInv, SerialInv
      <4> QED BY <2>6, <4>1, <4>2
    <3> QED BY <2>7, <3>1, <3>2
  <2>9. \A v \in Workers : Serves(v)' <=> (v = w \/ Serves(v))
        BY <2>5 DEF Serves
  <2>10. ~Waits(b, RequestQueue) /\ \A v \in Workers : ~With(v, b)
        BY <2>6 DEF CallsInv, PlaceInv
  <2>11. PlaceInv'
        BY <2>4, <2>6, <2>7, <2>8, <2>9, <2>10 DEF CallsInv, PlaceInv
  <2> QED BY <1>2, <2>6, <2>11 DEF CallsInv
<1> QED BY <1>3, <1>4, <1>5, <1>6, <1>8, <1>9 DEF ClientStep

\* An answer frees the one request the service thread served.
LEMMA CallsRespond ==
  ASSUME Undisturbed, TypeInv, CallsInv, NEW w \in Workers, Respond(w)
  PROVE  /\ CallsInv'
         /\ \E b \in Blocks :
              /\ With(w, b)
              /\ dataIrp' = [dataIrp EXCEPT ![heap[b].client] = "success"]
              /\ heap' = [heap EXCEPT ![b] = Nil]
              /\ \A v \in Workers, a \in Blocks : With(v, a)' <=> (v # w /\ With(v, a))
<1>1. PICK b \in Matching(w) :
        /\ RemoveAndFree({b}, held[w].type)
        /\ dataIrp' = [dataIrp EXCEPT ![heap[b].client] = "success"]
      BY DEF Respond, Undisturbed
<1>2. /\ wpc[w] = "answer" /\ held[w].type \in Ops
      /\ AfterResponse(w)
      /\ UNCHANGED <<RequestQueue, OsrRequestID, issued, cpc, creq, wreq, file>>
      BY DEF Respond, Sends, files
<1>3. PICK o \in Ops : o = held[w].type
      BY <1>2
<1>4. b \in queue[o] /\ heap[b].id = held[w].id /\ b \in Blocks
      BY <1>3 DEF Matching, TypeInv, TypeOK
<1>5. Used(b) /\ heap[b].op = o
      BY <1>4 DEF CallsInv, CallInv
<1>6. PICK d \in Clients : d = heap[b].client
      BY <1>4, <1>5, UsedFacts
<1>7. With(w, b)
  <2>1. PICK a \in Blocks : With(w, a)
        BY <1>2 DEF CallsInv, PlaceInv, Serves
  <2>2. Used(a) /\ held[w].id = heap[a].id
        BY <1>2, <2>1 DEF With, Holds, Used
  <2>3. a = b
        BY <1>4, <1>5, <2>2 DEF CallsInv, SerialInv
  <2> QED BY <2>1, <2>3
<1>8. Parked(b) /\ ~Waits(b, RequestQueue) /\ cpc[d] = "wait" /\ creq[d] = b
  <2>1. Parked(b) /\ ~Waits(b, RequestQueue)
        BY <1>4, <1>7 DEF CallsInv, PlaceInv
  <2> QED BY <1>4, <1>5, <1>6, <2>1 DEF Parked, CallsInv, CallInv
<1>9. /\ heap'[b] = Nil
      /\ \A a \in Blocks : a # b => heap'[a] = heap[a]
      /\ \A p \in Ops, a \in Blocks : a \in queue'[p] <=> a \in queue[p] /\ ~(p = o /\ a = b)
      /\ dataIrp'[d] = "success"
      /\ \A c \in Clients : c # d => dataIrp'[c] = dataIrp[c]
      /\ heap' = [heap EXCEPT ![b] = Nil]
      BY <1>1, <1>3, <1>4, <1>6 DEF RemoveAndFree, TypeInv, TypeOK
<1>10. /\ wpc'[w] \in {"idle", "acquireService"}
       /\ \A v \in Workers : v # w => wpc'[v] = wpc[v] /\ held'[v] = held[v]
      BY <1>2 DEF AfterResponse, TypeInv, TypeOK
<1>11. \A a \in Blocks : /\ Used(a)' <=> a # b /\ Used(a)
                         /\ a # b /\ Used(a) => heap[a].client \in Clients /\ heap[a].client # d
  <2>1. \A a \in Blocks : Used(a)' <=> a # b /\ Used(a)
        BY <1>9 DEF Used
  <2>2. \A a \in Blocks : a # b /\ Used(a) => heap[a].client \in Clients /\ heap[a].client # d
        BY <1>8, UsedFacts DEF CallsInv, CallInv
  <2> QED BY <2>1, <2>2
<1>12. HandlesOpen'
      BY <1>2 DEF CallsInv, HandlesOpen
<1>13. SerialInv'
  <2>1. OsrRequestID' = Serial(issued') /\ issued' = issued
        BY <1>2 DEF CallsInv, SerialInv, Serial
  <2>2. \A a \in Blocks : Used(a)' => Used(a) /\ heap'[a].id = heap[a].id
        BY <1>9, <1>11
  <2> QED BY <2>1, <2>2 DEF CallsInv, SerialInv
<1>14. CallInv'
  <2>1. ASSUME NEW c \in Clients
        PROVE  /\ dataIrp'[c] = "none" <=> cpc'[c] = "idle"
               /\ cpc'[c] \notin {"idle", "wait"} => dataIrp'[c] = "pending"
               /\ dataIrp'[c] = "pending" =>
                    /\ cpc'[c] # "fail"
                    /\ creq'[c] \in Blocks /\ Used(creq[c])' /\ heap'[creq'[c]].client = c
    <3>1. CASE c = d
          BY <1>2, <1>8, <1>9, <3>1
    <3>2. CASE c # d
      <4>1. dataIrp[c] = "pending" => creq[c] \in Blocks /\ creq[c] # b
            BY <1>6, <3>2 DEF CallsInv, CallInv
      <4> QED BY <1>2, <1>9, <3>2, <4>1 DEF CallsInv, CallInv, Used
    <3> QED BY <3>1, <3>2
  <2>2. ASSUME NEW a \in Blocks, Used(a)'
        PROVE  /\ dataIrp'[heap'[a].client] = "pending"
               /\ creq'[heap'[a].client] = a
               /\ heap'[a].irp = "pending"
        BY <1>2, <1>9, <1>11, <2>2 DEF CallsInv, CallInv
  <2>3. ASSUME NEW p \in Ops, NEW a \in Blocks
        PROVE  a \in queue'[p] <=> Used(a)' /\ heap'[a].op = p /\ cpc'[heap'[a].client] # "enqueue"
    <3>1. CASE a = b
          BY <1>5, <1>9, <1>11, <3>1 DEF CallsInv, CallInv
    <3>2. CASE a # b
          BY <1>2, <1>9, <1>11, <3>2 DEF CallsInv, CallInv
    <3> QED BY <3>1, <3>2
  <2> QED BY <2>1, <2>2, <2>3 DEF CallInv
<1>15. ASSUME NEW v \in Workers, NEW a \in Blocks PROVE With(v, a)' <=> v # w /\ With(v, a)
  <2>1. CASE v = w
        BY <1>10, <2>1 DEF With, Holds
  <2>2. CASE v # w /\ a # b
        BY <1>2, <1>9, <1>10, <2>2 DEF With, Holds
  <2>3. CASE v # w /\ a = b
    <3>1. ~With(v, b)
          BY <1>4, <1>7, <2>3 DEF CallsInv, PlaceInv
    <3>2. ~With(v, b)'
          BY <1>2, <1>9, <1>10, <2>3, <3>1 DEF With, Holds
    <3> QED BY <2>3, <3>1, <3>2
  <2> QED BY <2>1, <2>2, <2>3
<1>16. PlaceInv'
  <2>1. \A a \in Blocks : Parked(a)' <=> a # b /\ Parked(a)
        BY <1>2, <1>9, <1>11 DEF Parked
  <2>2. \A v \in Workers : Serves(v)' <=> v # w /\ Serves(v)
        BY <1>10 DEF Serves
  <2>3. \A a \in Blocks : With(w, a) => a = b
        BY <1>4, <1>7, WithOne
  <2>4. ASSUME NEW v \in Workers, NEW a \in Blocks, With(v, a)'
        PROVE  Parked(a)' /\ ~Waits(a, RequestQueue)
    <3>1. v # w /\ With(v, a)
          BY <1>15, <2>4
    <3>2. a # b
          BY <1>4, <1>7, <3>1 DEF CallsInv, PlaceInv
    <3> QED BY <2>1, <3>1, <3>2 DEF CallsInv, PlaceInv
  <2>5. ASSUME NEW a \in Blocks, Parked(a)'
        PROVE  Waits(a, RequestQueue) \/ \E v \in Workers : With(v, a)'
    <3>1. a # b /\ Parked(a)
          BY <2>1, <2>5
    <3> QED BY <1>15, <2>3, <3>1 DEF CallsInv, PlaceInv
  <2>6. \A a \in Blocks : Waits(a, RequestQueue) => Parked(a)'
        BY <1>8, <2>1 DEF CallsInv, PlaceInv
  <2>7. \A v \in Workers : Serves(v)' => \E a \in Blocks : With(v, a)'
        BY <1>15, <2>2 DEF CallsInv, PlaceInv
  <2>8. \A v, u \in Workers, a \in Blocks : With(v, a)' /\ With(u, a)' => v = u
        BY <1>15 DEF CallsInv, PlaceInv
  <2>9. WaitsOnce(RequestQueue) /\ RequestQueue' = RequestQueue
        BY <1>2 DEF CallsInv, PlaceInv
  <2> QED BY <2>4, <2>5, <2>6, <2>7, <2>8, <2>9 DEF PlaceInv
<1> QED BY <1>1, <1>4, <1>7, <1>9, <1>12, <1>13, <1>14, <1>15, <1>16 DEF CallsInv

\* The request at the head of RequestQueue goes to the service thread.
LEMMA CallsTake ==
  ASSUME Undisturbed, TypeInv, CallsInv, NEW w \in Workers, TakeRequest(w)
  PROVE  /\ CallsInv'
         /\ \E b \in Blocks :
              /\ Parked(b) /\ \A v \in Workers : ~With(v, b)
              /\ \A a \in Blocks : ~With(w, a)
              /\ \A v \in Workers, a \in Blocks : With(v, a)' <=> (With(v, a) \/ (v = w /\ a = b))
<1>1. /\ wpc[w] = "holdsBoth" /\ RequestQueue # <<>>
      /\ RequestQueue' = Tail(RequestQueue)
      /\ wreq' = [wreq EXCEPT ![w] = Head(RequestQueue)]
      /\ wpc' = [wpc EXCEPT ![w] = "deliver"]
      /\ UNCHANGED <<queue, heap, OsrRequestID, issued, cpc, creq, dataIrp, held, file>>
      BY DEF TakeRequest, memory, client, files
<1>2. RequestQueue \in Seq(Blocks) /\ WaitsOnce(RequestQueue)
      BY DEF TypeInv, TypeOK, CallsInv, PlaceInv
<1>3. PICK b \in Blocks : b = Head(RequestQueue)
      BY <1>1, <1>2, TailOnce
<1>4. /\ WaitsOnce(RequestQueue') /\ Waits(b, RequestQueue)
      /\ \A a \in Blocks : Waits(a, RequestQueue') <=> a # b /\ Waits(a, RequestQueue)
      BY <1>1, <1>2, <1>3, TailOnce
<1>5. Parked(b) /\ \A v \in Workers : ~With(v, b)
      BY <1>4 DEF CallsInv, PlaceInv
<1>6. \A a \in Blocks : ~With(w, a)
      BY <1>1 DEF With, Holds
<1>7. /\ wpc'[w] = "deliver" /\ wreq'[w] = b
      /\ \A v \in Workers : v # w => wpc'[v] = wpc[v] /\ wreq'[v] = wreq[v]
      BY <1>1, <1>3 DEF TypeInv, TypeOK
<1>8. \A v \in Workers, a \in Blocks : With(v, a)' <=> (With(v, a) \/ (v = w /\ a = b))
      BY <1>1, <1>6, <1>7 DEF With, Holds
<1>9. \A v \in Workers : Serves(v)' <=> (v = w \/ Serves(v))
      BY <1>7 DEF Serves
<1>10. \A a \in Blocks : Parked(a)' <=> Parked(a)
      BY <1>1 DEF Parked, Used
<1>11. PlaceInv'
      BY <1>4, <1>5, <1>6, <1>8, <1>9, <1>10 DEF CallsInv, PlaceInv
<1>12. HandlesOpen' /\ SerialInv' /\ CallInv'
      BY <1>1 DEF CallsInv, HandlesOpen, SerialInv, Serial, CallInv, Used
<1> QED BY <1>5, <1>6, <1>8, <1>11, <1>12 DEF CallsInv

\* A delivery leaves each request where it is: the one the service thread was
\* about to deliver is now the one its buffer holds.
LEMMA CallsDeliver ==
  ASSUME Undisturbed, TypeInv, CallsInv, NEW w \in Workers, Deliver(w)
  PROVE  /\ CallsInv'
         /\ \A v \in Workers, a \in Blocks : With(v, a)' <=> With(v, a)
<1>1. /\ wpc[w] = "deliver"
      /\ held' = [held EXCEPT ![w] = [id |-> heap[wreq[w]].id, type |-> heap[wreq[w]].op]]
      /\ wreq' = [wreq EXCEPT ![w] = Nil]
      /\ wpc' = [wpc EXCEPT ![w] = "answer"]
      /\ UNCHANGED <<RequestQueue, queue, heap, OsrRequestID, issued, cpc, creq, dataIrp, file>>
      BY DEF Deliver, queues, memory, client, files
<1>2. PICK b \in Blocks : b = wreq[w]
      BY <1>1 DEF TypeInv, PointersSet
<1>3. With(w, b) /\ \A a \in Blocks : With(w, a) <=> a = b
      BY <1>1, <1>2 DEF With, Holds
<1>4. Used(b)
      BY <1>3 DEF CallsInv, PlaceInv, Parked
<1>5. /\ wpc'[w] = "answer"
      /\ held'[w] = [id |-> heap[b].id, type |-> heap[b].op]
      /\ \A v \in Workers : v # w => wpc'[v] = wpc[v] /\ wreq'[v] = wreq[v] /\ held'[v] = held[v]
      BY <1>1, <1>2 DEF TypeInv, TypeOK
<1>6. ASSUME NEW a \in Blocks PROVE With(w, a)' <=> a = b
  <2>1. With(w, a)' <=> Used(a) /\ heap[a].id = heap[b].id /\ heap[a].op = heap[b].op
        BY <1>1, <1>5 DEF With, Holds, Used
  <2>2. Used(a) /\ heap[a].id = heap[b].id => a = b
        BY <1>4 DEF CallsInv, SerialInv
  <2> QED BY <1>4, <2>1, <2>2
<1>7. ASSUME NEW v \in Workers, NEW a \in Blocks PROVE With(v, a)' <=> With(v, a)
  <2>1. CASE v = w
        BY <1>3, <1>6, <2>1
  <2>2. CASE v # w
        BY <1>1, <1>5, <2>2 DEF With, Holds
  <2> QED BY <2>1, <2>2
<1>8. PlaceInv'
  <2>1. \A a \in Blocks : Parked(a)' <=> Parked(a)
        BY <1>1 DEF Parked, Used
  <2>2. \A v \in Workers : Serves(v)' <=> Serves(v)
        BY <1>1, <1>5 DEF Serves
  <2> QED BY <1>1, <1>7, <2>1, <2>2, PlaceSame DEF CallsInv
<1>9. HandlesOpen' /\ SerialInv' /\ CallInv'
      BY <1>1 DEF CallsInv, HandlesOpen, SerialInv, Serial, CallInv, Used
<1> QED BY <1>7, <1>8, <1>9 DEF CallsInv

\* A service thread that answers has a request, so its answer finds one.
LEMMA AnswerFinds ==
  ASSUME TypeInv, CallsInv, NEW w \in Workers, wpc[w] = "answer"
  PROVE  \E b \in Blocks : With(w, b) /\ held[w].type = heap[b].op /\ b \in Matching(w)
<1>1. PICK b \in Blocks : With(w, b)
      BY DEF CallsInv, PlaceInv, Serves
<1>2. Used(b) /\ held[w].id = heap[b].id /\ held[w].type = heap[b].op
      BY <1>1 DEF With, Holds, Used
<1>3. Parked(b)
      BY <1>1 DEF CallsInv, PlaceInv
<1>4. b \in queue[heap[b].op]
      BY <1>2, <1>3, UsedFacts DEF CallsInv, CallInv, Parked
<1> QED BY <1>1, <1>2, <1>4 DEF Matching

\* A service thread's step.
LEMMA CallsWorker ==
  ASSUME Undisturbed, TypeInv, CallsInv, NEW w \in Workers, WorkerStep(w)
  PROVE  CallsInv'
<1>1. CASE Respond(w)
      BY <1>1, CallsRespond
<1>2. CASE TakeRequest(w)
      BY <1>2, CallsTake
<1>3. CASE Deliver(w)
      BY <1>3, CallsDeliver
<1>4. CASE GetRequest(w) \/ WorkerAcquireService(w) \/ WorkerAcquireRequest(w) \/ QueueServiceIrp(w)
  <2>1. UNCHANGED <<RequestQueue, queue, heap, OsrRequestID, issued, creq, dataIrp, cpc, file>>
        BY <1>4 DEF GetRequest, WorkerAcquireService, WorkerAcquireRequest, QueueServiceIrp,
                    queues, memory, client, files
  <2>2. /\ ~Serves(w) /\ ~Serves(w)'
        /\ \A v \in Workers : v # w => wpc'[v] = wpc[v] /\ wreq'[v] = wreq[v] /\ held'[v] = held[v]
        BY <1>4 DEF GetRequest, WorkerAcquireService, WorkerAcquireRequest, QueueServiceIrp,
                    Serves, TypeInv, TypeOK
  <2>3. HandlesOpen'
        BY <2>1 DEF CallsInv, HandlesOpen
  <2> QED BY <2>1, <2>2, <2>3, CallsKept
<1>5. CASE RespondToNobody(w) \/ RespondWithBadType(w)
  <2>1. wpc[w] = "answer" /\ (held[w].type \notin Ops \/ Matching(w) = {})
        BY <1>5 DEF RespondToNobody, RespondWithBadType, Sends
  <2>2. PICK b \in Blocks : With(w, b) /\ held[w].type = heap[b].op /\ b \in Matching(w)
        BY <2>1, AnswerFinds
  <2>3. heap[b].op \in Ops
        BY <2>2, UsedFacts DEF CallsInv, PlaceInv, Parked
  <2> QED BY <2>1, <2>2, <2>3
<1>6. CASE RespondUnmapped(w) \/ DeliverUnmapped(w) \/ DeliverCopyFails(w)
      BY <1>6 DEF RespondUnmapped, DeliverUnmapped, DeliverCopyFails, Undisturbed
<1> QED BY <1>1, <1>2, <1>3, <1>4, <1>5, <1>6 DEF WorkerStep

LEMMA CallsStep ==
  ASSUME Undisturbed, TypeInv, ServiceIrpAccounted, CallsInv, [Next]_vars
  PROVE  CallsInv'
<1>1. ASSUME NEW c \in Clients, NEW op \in Ops, NEW b \in Blocks, StartReadWrite(c, op, b)
      PROVE  CallsInv'
      BY <1>1, CallsStart
<1>2. ASSUME NEW c \in Clients, ClientStep(c) PROVE CallsInv'
      BY <1>2, CallsClient
<1>3. ASSUME NEW w \in Workers, WorkerStep(w) PROVE CallsInv'
      BY <1>3, CallsWorker
<1>4. CASE CreateControl
  <2>1. UNCHANGED <<RequestQueue, queue, heap, OsrRequestID, issued, cpc, creq, dataIrp, wpc, wreq, held>>
        BY <1>4 DEF CreateControl, queues, memory, client, worker
  <2>2. HandlesOpen'
        BY <1>4, NilAssumption DEF CreateControl, CallsInv, HandlesOpen, TypeInv, TypeOK, Files
  <2> QED BY <2>1, <2>2, CallsKept
<1>5. CASE CloseControl
      BY <1>5 DEF CloseControl, CallsInv, HandlesOpen
<1>6. ASSUME NEW f \in Files, FileStep(f) PROVE CallsInv'
      BY <1>6 DEF FileStep, StartCleanup, CancelMisread, CancelDataQueue, Undisturbed,
                  CallsInv, HandlesOpen, Files, Ops
<1>7. ASSUME UNCHANGED <<queues, locks, memory, client, worker, files>> PROVE CallsInv'
  <2>1. UNCHANGED <<RequestQueue, queue, heap, OsrRequestID, issued, cpc, creq, dataIrp, wpc, wreq, held, file>>
        BY <1>7 DEF queues, memory, client, worker, files
  <2>2. HandlesOpen'
        BY <2>1 DEF CallsInv, HandlesOpen
  <2> QED BY <2>1, <2>2, CallsKept
<1>8. CASE UNCHANGED vars
      BY <1>7, <1>8 DEF vars
<1>9. CASE UseAfterFree \/ DoubleCompletion \/ MisreadList
      BY <1>7, <1>9, BugcheckStep
<1> QED BY <1>1, <1>2, <1>3, <1>4, <1>5, <1>6, <1>8, <1>9 DEF Next, Running, Quiescent

LEMMA CallsHold ==
  ASSUME Undisturbed
  PROVE  Spec => []CallsInv
<1>1. TypeInv /\ ServiceIrpAccounted /\ CallsInv /\ [Next]_vars => CallsInv'
      BY CallsStep
<1> QED BY <1>1, TypeInvariant, ServiceIrpsAreAccounted, CallsInit, PTL DEF Spec

\* A client that waits for its IRP has its request in exactly one place: on
\* RequestQueue, on its way to one service thread, or with one service thread
\* (comm.cpp, OsrCommReadWrite, ProcessControlRequest and ProcessResponse).  The
\* theorem is about a system without failures, with open handles and with no more
\* calls than identifiers; with a failure or a cleanup it is not so
\* (DeliversWhatItRemoved, NoDoubleCompletion).
THEOREM RequestsHaveOnePlace ==
  ASSUME Undisturbed
  PROVE  Spec => []EveryRequestHasOnePlace
<1>1. ASSUME TypeInv, CallsInv PROVE EveryRequestHasOnePlace
  <2> SUFFICES ASSUME NEW c \in Clients, cpc[c] = "wait", dataIrp[c] = "pending"
               PROVE  /\ Cardinality(Places(creq[c])) = 1
                      /\ creq[c] \in queue[heap[creq[c]].op]
      BY DEF EveryRequestHasOnePlace
  <2>1. PICK b \in Blocks : b = creq[c]
        BY <1>1 DEF CallsInv, CallInv
  <2>2. Used(b) /\ heap[b].client = c /\ Parked(b)
        BY <1>1, <2>1 DEF CallsInv, CallInv, Parked
  <2>3. b \in queue[heap[b].op]
        BY <1>1, <2>2, UsedFacts DEF CallsInv, CallInv
  <2>4. Places(b) = {i \in DOMAIN RequestQueue : RequestQueue[i] = b} \cup {w \in Workers : With(w, b)}
        BY DEF Places, With
  <2>5. \E p : Places(b) = {p}
    <3>1. CASE Waits(b, RequestQueue)
      <4>1. PICK i \in DOMAIN RequestQueue : RequestQueue[i] = b
            BY <3>1 DEF Waits
      <4>2. {j \in DOMAIN RequestQueue : RequestQueue[j] = b} = {i}
            BY <1>1, <4>1 DEF CallsInv, PlaceInv, WaitsOnce
      <4>3. {w \in Workers : With(w, b)} = {}
            BY <1>1, <3>1 DEF CallsInv, PlaceInv
      <4> QED BY <2>4, <4>2, <4>3
    <3>2. CASE ~Waits(b, RequestQueue)
      <4>1. PICK w \in Workers : With(w, b)
            BY <1>1, <2>2, <3>2 DEF CallsInv, PlaceInv
      <4>2. {v \in Workers : With(v, b)} = {w}
            BY <1>1, <4>1 DEF CallsInv, PlaceInv
      <4>3. {j \in DOMAIN RequestQueue : RequestQueue[j] = b} = {}
            BY <3>2 DEF Waits
      <4> QED BY <2>4, <4>2, <4>3
    <3> QED BY <3>1, <3>2
  <2>6. Cardinality(Places(b)) = 1
        BY <2>5, FS_Singleton
  <2> QED BY <2>1, <2>3, <2>6
<1> QED BY <1>1, TypeInvariant, CallsHold, PTL

-----------------------------------------------------------------------------
(* The promise.  Each step of the driver is a step of ReflectedCall or none: *)
(* a service thread serves the client whose request it is with.              *)

CallOf(c) == CASE dataIrp[c] = "none" -> "idle"
               [] dataIrp[c] = "pending" -> "waiting"
               [] OTHER -> "answered"

Calls   == [c \in Clients |-> CallOf(c)]
Serving == [w \in Workers |-> Served(w)]

LEMMA PromiseVars == Promise!vars = <<Calls, Serving>> /\ Promise!vars' = <<Calls', Serving'>>
BY DEF Promise!vars, Calls, Serving, CallOf

\* Whom a service thread serves, in terms of the request it is with.
LEMMA ServedIs ==
  ASSUME TypeInv, CallsInv, NEW w \in Workers
  PROVE  /\ \A b \in Blocks : With(w, b) => Served(w) = heap[b].client
         /\ (\A b \in Blocks : ~With(w, b)) => Served(w) = Nil
<1> DEFINE mine == {c \in Clients : dataIrp[c] = "pending" /\ Holds(w, creq[c])}
<1>1. Served(w) = IF wpc[w] = "deliver" THEN heap[wreq[w]].client
                  ELSE IF mine # {} THEN CHOOSE c \in mine : TRUE ELSE Nil
      BY DEF Served
<1>2. \A c \in mine : creq[c] \in Blocks /\ With(w, creq[c]) /\ heap[creq[c]].client = c
      BY DEF CallsInv, CallInv, With
<1> HIDE DEF mine
<1>3. ASSUME NEW b \in Blocks, With(w, b) PROVE Served(w) = heap[b].client
  <2>1. CASE wpc[w] = "deliver"
        BY <1>1, <1>3, <2>1 DEF With, Holds
  <2>2. CASE wpc[w] # "deliver"
    <3>1. Holds(w, b) /\ Used(b)
          BY <1>3, <2>2 DEF With, Holds, Used
    <3>2. heap[b].client \in mine
          BY <3>1, UsedFacts DEF CallsInv, CallInv, mine
    <3>3. \A c \in mine : c = heap[b].client
          BY <1>2, <1>3, WithOne
    <3> QED BY <1>1, <2>2, <3>2, <3>3
  <2> QED BY <2>1, <2>2
<1>4. ASSUME \A b \in Blocks : ~With(w, b) PROVE Served(w) = Nil
  <2>1. wpc[w] # "deliver"
        BY <1>4 DEF CallsInv, PlaceInv, Serves
  <2>2. mine = {}
        BY <1>2, <1>4
  <2> QED BY <1>1, <2>1, <2>2
<1> QED BY <1>3, <1>4

\* The same of the next state.
LEMMA ServedIsNext ==
  ASSUME TypeInv', CallsInv', NEW w \in Workers
  PROVE  /\ \A b \in Blocks : With(w, b)' => Served(w)' = heap'[b].client
         /\ (\A b \in Blocks : ~With(w, b)') => Served(w)' = Nil
<1> DEFINE mine == {c \in Clients : dataIrp'[c] = "pending" /\ Holds(w, creq[c])'}
<1>1. Served(w)' = IF wpc'[w] = "deliver" THEN heap'[wreq'[w]].client
                   ELSE IF mine # {} THEN CHOOSE c \in mine : TRUE ELSE Nil
      BY DEF Served
<1>2. \A c \in mine : creq'[c] \in Blocks /\ With(w, creq[c])' /\ heap'[creq'[c]].client = c
      BY DEF CallsInv, CallInv, With
<1>3. \A a, b \in Blocks : With(w, a)' /\ With(w, b)' => a = b
      BY DEF CallsInv, SerialInv, With, Holds, Used
<1> HIDE DEF mine
<1>4. ASSUME NEW b \in Blocks, With(w, b)' PROVE Served(w)' = heap'[b].client
  <2>1. CASE wpc'[w] = "deliver"
        BY <1>1, <1>4, <2>1 DEF With, Holds
  <2>2. CASE wpc'[w] # "deliver"
    <3>1. Holds(w, b)' /\ Used(b)'
          BY <1>4, <2>2 DEF With, Holds, Used
    <3>2. heap'[b].client \in mine
          BY <3>1 DEF TypeInv, TypeOK, DataRequest, Used, CallsInv, CallInv, mine
    <3>3. \A c \in mine : c = heap'[b].client
          BY <1>2, <1>3, <1>4
    <3> QED BY <1>1, <2>2, <3>2, <3>3
  <2> QED BY <2>1, <2>2
<1>5. ASSUME \A b \in Blocks : ~With(w, b)' PROVE Served(w)' = Nil
  <2>1. wpc'[w] # "deliver"
        BY <1>5 DEF CallsInv, PlaceInv, Serves
  <2>2. mine = {}
        BY <1>2, <1>5
  <2> QED BY <1>1, <2>1, <2>2
<1> QED BY <1>4, <1>5

\* Where the requests stay with their service threads, these serve the same.
LEMMA ServingSame ==
  ASSUME TypeInv, CallsInv, TypeInv', CallsInv',
         \A w \in Workers, b \in Blocks : With(w, b)' <=> With(w, b),
         \A b \in Blocks : Used(b) => heap'[b] = heap[b]
  PROVE  Serving' = Serving
<1>1. ASSUME NEW w \in Workers PROVE Served(w)' = Served(w)
  <2>1. CASE \E b \in Blocks : With(w, b)
    <3>1. PICK b \in Blocks : With(w, b)
          BY <2>1
    <3>2. Used(b)
          BY <3>1 DEF CallsInv, PlaceInv, Parked
    <3> QED BY <3>1, <3>2, ServedIs, ServedIsNext
  <2>2. CASE \A b \in Blocks : ~With(w, b)
        BY <2>2, ServedIs, ServedIsNext
  <2> QED BY <2>1, <2>2
<1> QED BY <1>1 DEF Serving

\* A request that comes to a service thread is a call accepted by it.
LEMMA AcceptMove ==
  ASSUME TypeInv, CallsInv, TypeInv', CallsInv', NEW w \in Workers, NEW b \in Blocks,
         Used(b), UNCHANGED <<heap, dataIrp>>,
         \A v \in Workers : ~With(v, b),
         \A a \in Blocks : ~With(w, a),
         \A v \in Workers, a \in Blocks : With(v, a)' <=> (With(v, a) \/ (v = w /\ a = b))
  PROVE  Promise!Next
<1>1. PICK c \in Clients : c = heap[b].client
      BY UsedFacts
<1>2. dataIrp[c] = "pending" /\ creq[c] = b
      BY <1>1 DEF CallsInv, CallInv
<1>3. Calls[c] = "waiting" /\ Calls' = Calls
      BY <1>2 DEF Calls, CallOf
<1>4. Served(w) = Nil /\ Served(w)' = c
      BY <1>1, ServedIs, ServedIsNext
<1>5. ASSUME NEW v \in Workers PROVE Served(v) # c
  <2>1. CASE \E a \in Blocks : With(v, a)
    <3>1. PICK a \in Blocks : With(v, a)
          BY <2>1
    <3>2. Used(a) /\ a # b
          BY <3>1 DEF CallsInv, PlaceInv, Parked
    <3> QED BY <1>1, <1>2, <3>1, <3>2, ServedIs DEF CallsInv, CallInv
  <2>2. CASE \A a \in Blocks : ~With(v, a)
        BY <2>2, ServedIs, NilAssumption
  <2> QED BY <2>1, <2>2
<1>6. ASSUME NEW v \in Workers, v # w PROVE Served(v)' = Served(v)
  <2>1. CASE \E a \in Blocks : With(v, a)
        BY <1>6, <2>1, ServedIs, ServedIsNext
  <2>2. CASE \A a \in Blocks : ~With(v, a)
        BY <1>6, <2>2, ServedIs, ServedIsNext
  <2> QED BY <2>1, <2>2
<1>7. Serving' = [Serving EXCEPT ![w] = c]
      BY <1>4, <1>6 DEF Serving
<1>8. Serving[w] = Nil /\ \A v \in Workers : Serving[v] # c
      BY <1>4, <1>5 DEF Serving
<1>9. Promise!Accept(w, c)
      BY <1>3, <1>7, <1>8 DEF Promise!Accept, Calls, CallOf, Serving
<1> QED BY <1>9 DEF Promise!Next

\* An answer of the driver is one of ReflectedCall.
LEMMA AnswerMove ==
  ASSUME Undisturbed, TypeInv, CallsInv, TypeInv', CallsInv', NEW w \in Workers, Respond(w)
  PROVE  Promise!Next
<1>1. PICK b \in Blocks :
        /\ With(w, b)
        /\ dataIrp' = [dataIrp EXCEPT ![heap[b].client] = "success"]
        /\ heap' = [heap EXCEPT ![b] = Nil]
        /\ \A v \in Workers, a \in Blocks : With(v, a)' <=> (v # w /\ With(v, a))
      BY CallsRespond
<1>2. Used(b)
      BY <1>1 DEF CallsInv, PlaceInv, Parked
<1>3. PICK c \in Clients : c = heap[b].client
      BY <1>2, UsedFacts
<1>4. Served(w) = c /\ Served(w)' = Nil
      BY <1>1, <1>3, ServedIs, ServedIsNext
<1>5. c # Nil
      BY NilAssumption
<1>6. Calls' = [Calls EXCEPT ![c] = "answered"]
  <2>1. dataIrp'[c] = "success" /\ \A d \in Clients : d # c => dataIrp'[d] = dataIrp[d]
        BY <1>1, <1>3 DEF TypeInv, TypeOK
  <2> QED BY <2>1 DEF Calls, CallOf
<1>7. ASSUME NEW v \in Workers, v # w PROVE Served(v)' = Served(v)
  <2>1. CASE \E a \in Blocks : With(v, a)
    <3>1. PICK a \in Blocks : With(v, a)
          BY <2>1
    <3>2. a # b
          BY <1>1, <1>7, <3>1 DEF CallsInv, PlaceInv
    <3>3. heap'[a] = heap[a]
          BY <1>1, <3>2 DEF TypeInv, TypeOK
    <3> QED BY <1>1, <1>7, <3>1, <3>3, ServedIs, ServedIsNext
  <2>2. CASE \A a \in Blocks : ~With(v, a)
        BY <1>1, <1>7, <2>2, ServedIs, ServedIsNext
  <2> QED BY <2>1, <2>2
<1>8. Serving[w] = c /\ Serving' = [Serving EXCEPT ![w] = Nil]
      BY <1>4, <1>7 DEF Serving
<1>9. Promise!Answer(w)
      BY <1>5, <1>6, <1>8 DEF Promise!Answer, Calls, CallOf, Serving
<1> QED BY <1>9 DEF Promise!Next

\* A step that changes neither a call nor where a request is.
LEMMA QuietMove ==
  ASSUME TypeInv, CallsInv, TypeInv', CallsInv', UNCHANGED <<heap, dataIrp>>,
         \A w \in Workers, b \in Blocks : With(w, b)' <=> With(w, b)
  PROVE  UNCHANGED Promise!vars
<1>1. Serving' = Serving
      BY ServingSame
<1>2. Calls' = Calls
      BY DEF Calls, CallOf
<1> QED BY <1>1, <1>2, PromiseVars

LEMMA ClientMove ==
  ASSUME Undisturbed, TypeInv, CallsInv, ServiceIrpAccounted, TypeInv', CallsInv',
         NEW c \in Clients, ClientStep(c)
  PROVE  [Promise!Next]_(Promise!vars)
<1>0. /\ wpc \in [Workers -> WorkerPcs]
      /\ held \in [Workers -> [id : Ids, type : Ops \cup {"zero"}]]
      BY DEF TypeInv, TypeOK
<1>1. CASE Enqueue(c) \/ ClientAcquireService(c) \/ ClientAcquireRequest(c) \/ QueueRequest(c)
  <2>1. UNCHANGED <<heap, dataIrp, wpc, wreq, held>>
        BY <1>1 DEF Enqueue, ClientAcquireService, ClientAcquireRequest, QueueRequest,
                    memory, worker
  <2>2. \A w \in Workers, b \in Blocks : With(w, b)' <=> With(w, b)
        BY <2>1 DEF With, Holds
  <2> QED BY <2>1, <2>2, QuietMove
<1>2. CASE HandToService(c)
  <2>1. ServiceQueue # <<>> /\ cpc[c] = "holdsService"
        BY <1>2 DEF HandToService
  <2>2. PICK w \in Workers : w = Head(ServiceQueue) /\ wpc[w] = "pending"
        BY <2>1, AccountedDef, TailOnce DEF TypeInv, TypeOK
  <2>3. PICK b \in Blocks : b = creq[c] /\ Used(b) /\ heap[b].client = c
        BY <2>1 DEF CallsInv, CallInv
  <2>4. /\ \A v \in Workers : v # w => wpc'[v] = wpc[v] /\ held'[v] = held[v]
        /\ wpc'[w] = "answer"
        /\ held'[w] = [id |-> heap[b].id, type |-> heap[b].op]
        /\ UNCHANGED <<heap, creq, dataIrp, wreq>>
        BY <1>0, <1>2, <2>2, <2>3 DEF HandToService, memory
  <2>5. ~Parked(b) /\ \A v \in Workers : ~With(v, b)
        BY <2>1, <2>3 DEF Parked, CallsInv, PlaceInv
  <2>6. \A a \in Blocks : ~With(w, a)
        BY <2>2 DEF With, Holds
  <2>7. \A v \in Workers, a \in Blocks : With(v, a)' <=> (With(v, a) \/ (v = w /\ a = b))
    <3>1. ASSUME NEW v \in Workers, NEW a \in Blocks, v # w PROVE With(v, a)' <=> With(v, a)
          BY <2>4, <3>1 DEF With, Holds
    <3>2. ASSUME NEW a \in Blocks PROVE With(w, a)' <=> a = b
      <4>1. With(w, a)' <=> Used(a) /\ heap[a].id = heap[b].id /\ heap[a].op = heap[b].op
            BY <2>4 DEF With, Holds, Used
      <4>2. Used(a) /\ heap[a].id = heap[b].id => a = b
            BY <2>3 DEF CallsInv, SerialInv
      <4> QED BY <2>3, <4>1, <4>2
    <3> QED BY <2>6, <3>1, <3>2
  <2> QED BY <2>3, <2>4, <2>5, <2>6, <2>7, AcceptMove
<1>3. CASE Return(c)
  <2>1. /\ dataIrp[c] # "pending" /\ cpc[c] = "wait"
        /\ dataIrp' = [dataIrp EXCEPT ![c] = "none"]
        /\ UNCHANGED <<heap, wpc, wreq, held>>
        BY <1>3 DEF Return, memory, worker
  <2>2. dataIrp[c] # "none"
        BY <2>1 DEF CallsInv, CallInv
  <2>3. Calls[c] = "answered" /\ Calls' = [Calls EXCEPT ![c] = "idle"]
        BY <2>1, <2>2 DEF Calls, CallOf, TypeInv, TypeOK
  <2>4. Serving' = Serving
    <3>1. \A w \in Workers, b \in Blocks : With(w, b)' <=> With(w, b)
          BY <2>1 DEF With, Holds
    <3> QED BY <2>1, <3>1, ServingSame
  <2>5. Promise!Return(c)
        BY <2>3, <2>4 DEF Promise!Return, Calls, CallOf, Serving
  <2> QED BY <2>5 DEF Promise!Next
<1>4. CASE FailWriteNoMdl(c) \/ FailWriteNoPte(c) \/ CompleteFailedWrite(c)
      BY <1>4 DEF FailWriteNoMdl, FailWriteNoPte, FailWrite, CompleteFailedWrite, Undisturbed,
                  CallsInv, CallInv
<1> QED BY <1>1, <1>2, <1>3, <1>4 DEF ClientStep

LEMMA WorkerMove ==
  ASSUME Undisturbed, TypeInv, CallsInv, TypeInv', CallsInv', NEW w \in Workers, WorkerStep(w)
  PROVE  [Promise!Next]_(Promise!vars)
<1>1. CASE Respond(w)
      BY <1>1, AnswerMove
<1>2. CASE TakeRequest(w)
  <2>1. PICK b \in Blocks :
          /\ Parked(b) /\ \A v \in Workers : ~With(v, b)
          /\ \A a \in Blocks : ~With(w, a)
          /\ \A v \in Workers, a \in Blocks : With(v, a)' <=> (With(v, a) \/ (v = w /\ a = b))
        BY <1>2, CallsTake
  <2>2. Used(b) /\ UNCHANGED <<heap, dataIrp>>
        BY <1>2, <2>1 DEF TakeRequest, memory, client, Parked
  <2> QED BY <2>1, <2>2, AcceptMove
<1>3. CASE Deliver(w)
  <2>1. UNCHANGED <<heap, dataIrp>>
        BY <1>3 DEF Deliver, memory, client
  <2> QED BY <1>3, <2>1, CallsDeliver, QuietMove
<1>4. CASE GetRequest(w) \/ WorkerAcquireService(w) \/ WorkerAcquireRequest(w) \/ QueueServiceIrp(w)
  <2>1. UNCHANGED <<heap, dataIrp>>
        BY <1>4 DEF GetRequest, WorkerAcquireService, WorkerAcquireRequest, QueueServiceIrp,
                    memory, client
  <2>2. /\ ~Serves(w) /\ ~Serves(w)'
        /\ \A v \in Workers : v # w => wpc'[v] = wpc[v] /\ wreq'[v] = wreq[v] /\ held'[v] = held[v]
        BY <1>4 DEF GetRequest, WorkerAcquireService, WorkerAcquireRequest, QueueServiceIrp,
                    Serves, TypeInv, TypeOK
  <2>3. \A v \in Workers, b \in Blocks : With(v, b)' <=> With(v, b)
        BY <2>1, <2>2 DEF With, Holds, Serves
  <2> QED BY <2>1, <2>3, QuietMove
<1>5. CASE RespondToNobody(w) \/ RespondWithBadType(w)
  <2>1. wpc[w] = "answer" /\ (held[w].type \notin Ops \/ Matching(w) = {})
        BY <1>5 DEF RespondToNobody, RespondWithBadType, Sends
  <2>2. PICK b \in Blocks : With(w, b) /\ held[w].type = heap[b].op /\ b \in Matching(w)
        BY <2>1, AnswerFinds
  <2>3. heap[b].op \in Ops
        BY <2>2, UsedFacts DEF CallsInv, PlaceInv, Parked
  <2> QED BY <2>1, <2>2, <2>3
<1>6. CASE RespondUnmapped(w) \/ DeliverUnmapped(w) \/ DeliverCopyFails(w)
      BY <1>6 DEF RespondUnmapped, DeliverUnmapped, DeliverCopyFails, Undisturbed
<1> QED BY <1>1, <1>2, <1>3, <1>4, <1>5, <1>6 DEF WorkerStep

\* A new call.
LEMMA StartMove ==
  ASSUME TypeInv, CallsInv, TypeInv', CallsInv', NEW c \in Clients, NEW op \in Ops,
         NEW b \in Blocks, StartReadWrite(c, op, b)
  PROVE  [Promise!Next]_(Promise!vars)
<1>1. /\ cpc[c] = "idle" /\ heap[b] = Nil
      /\ dataIrp' = [dataIrp EXCEPT ![c] = "pending"]
      /\ UNCHANGED <<wpc, wreq, held>>
      /\ \A a \in Blocks : a # b => heap'[a] = heap[a]
      /\ heap'[b].client = c /\ cpc'[c] = "enqueue"
      BY DEF StartReadWrite, worker, TypeInv, TypeOK
<1>2. dataIrp[c] = "none"
      BY <1>1 DEF CallsInv, CallInv
<1>3. Calls[c] = "idle" /\ Calls' = [Calls EXCEPT ![c] = "waiting"]
      BY <1>1, <1>2 DEF Calls, CallOf, TypeInv, TypeOK
<1>4. ASSUME NEW w \in Workers, NEW a \in Blocks PROVE With(w, a)' <=> With(w, a)
  <2>1. CASE a # b
        BY <1>1, <2>1 DEF With, Holds
  <2>2. CASE a = b
    <3>1. ~With(w, b)
          BY <1>1 DEF CallsInv, PlaceInv, Parked, Used
    <3>2. ~Parked(b)'
          BY <1>1 DEF Parked
    <3>3. ~With(w, b)'
          BY <3>2 DEF CallsInv, PlaceInv
    <3> QED BY <2>2, <3>1, <3>3
  <2> QED BY <2>1, <2>2
<1>5. Serving' = Serving
      BY <1>1, <1>4, ServingSame DEF Used
<1>6. Promise!Call(c)
      BY <1>3, <1>5 DEF Promise!Call, Calls, CallOf, Serving
<1> QED BY <1>6 DEF Promise!Next

LEMMA PromiseStep ==
  ASSUME Undisturbed, TypeInv, CallsInv, ServiceIrpAccounted, TypeInv', CallsInv', [Next]_vars
  PROVE  [Promise!Next]_(Promise!vars)
<1>1. ASSUME NEW c \in Clients, NEW op \in Ops, NEW b \in Blocks, StartReadWrite(c, op, b)
      PROVE  [Promise!Next]_(Promise!vars)
      BY <1>1, StartMove
<1>2. ASSUME NEW c \in Clients, ClientStep(c) PROVE [Promise!Next]_(Promise!vars)
      BY <1>2, ClientMove
<1>3. ASSUME NEW w \in Workers, WorkerStep(w) PROVE [Promise!Next]_(Promise!vars)
      BY <1>3, WorkerMove
<1>4. ASSUME UNCHANGED <<memory, client, worker>> PROVE [Promise!Next]_(Promise!vars)
  <2>1. UNCHANGED <<heap, dataIrp, wpc, wreq, held>>
        BY <1>4 DEF memory, client, worker
  <2>2. \A w \in Workers, b \in Blocks : With(w, b)' <=> With(w, b)
        BY <2>1 DEF With, Holds
  <2> QED BY <2>1, <2>2, QuietMove
<1>5. CASE CreateControl \/ UNCHANGED vars
      BY <1>4, <1>5 DEF CreateControl, vars
<1>6. CASE CloseControl
      BY <1>6 DEF CloseControl, CallsInv, HandlesOpen
<1>7. ASSUME NEW f \in Files, FileStep(f) PROVE [Promise!Next]_(Promise!vars)
      BY <1>7 DEF FileStep, StartCleanup, CancelMisread, CancelDataQueue, Undisturbed,
                  CallsInv, HandlesOpen, Files, Ops
<1>8. CASE UseAfterFree \/ DoubleCompletion \/ MisreadList
      BY <1>4, <1>8, BugcheckStep
<1> QED BY <1>1, <1>2, <1>3, <1>5, <1>6, <1>7, <1>8 DEF Next, Running, Quiescent

\* The driver keeps the promise of ReflectedCall: each call is accepted by one
\* service thread at most and answered by that thread, through whatever
\* interleaving of the two queues, the two locks and the identifiers (comm.cpp).
\* As before: without failures, with open handles and with no more calls than
\* identifiers.
THEOREM DriverKeepsThePromise ==
  ASSUME Undisturbed
  PROVE  Spec => PromiseKept
<1>1. Init => Promise!Init
  <2> SUFFICES ASSUME Init PROVE Promise!Init
      OBVIOUS
  <2>1. ASSUME NEW w \in Workers PROVE Served(w) = Nil
        BY DEF Init, Served
  <2>2. \A c \in Clients : dataIrp[c] = "none"
        BY DEF Init
  <2> QED BY <2>1, <2>2 DEF Promise!Init
<1>2. /\ TypeInv /\ CallsInv /\ ServiceIrpAccounted /\ TypeInv' /\ CallsInv' /\ [Next]_vars
      => [Promise!Next]_(Promise!vars)
      BY PromiseStep
<1> QED BY <1>1, <1>2, TypeInvariant, CallsHold, ServiceIrpsAreAccounted, PTL
        DEF Spec, PromiseKept, Promise!Spec

-----------------------------------------------------------------------------
(* One completion for each call.                                           *)

\* The request in this block still has its IRP.
Live(b) == heap[b] # Nil /\ heap[b].irp = "pending"

\* The heap and the calls agree: a request whose IRP is pending is its client's,
\* and a client whose IRP is pending has such a request.
IrpInv ==
  /\ \A b \in Blocks : Live(b) =>
       creq[heap[b].client] = b /\ dataIrp[heap[b].client] = "pending"
  /\ \A c \in Clients : dataIrp[c] = "pending" =>
       cpc[c] # "idle" /\ creq[c] \in Blocks /\ Live(creq[c]) /\ heap[creq[c]].client = c

\* The client of a block that is in use.
LEMMA ClientOf ==
  ASSUME TypeInv, NEW b \in Blocks, heap[b] # Nil
  PROVE  heap[b].client \in Clients /\ heap[b].irp \in {"pending", "completed"}
<1>1. heap[b] \in DataRequest
      BY DEF TypeInv, TypeOK
<1> QED BY <1>1 DEF DataRequest

\* A step that completes no IRP and starts no call.
LEMMA IrpKept ==
  ASSUME IrpInv, UNCHANGED <<heap, creq, dataIrp>>,
         \A c \in Clients : cpc'[c] = "idle" => cpc[c] = "idle"
  PROVE  IrpInv'
BY DEF IrpInv, Live

\* A step that frees requests and completes their IRPs, one or many.
LEMMA IrpFreed ==
  ASSUME TypeInv, IrpInv, UNCHANGED <<cpc, creq>>,
         NEW gone \in SUBSET Blocks, \A b \in gone : Live(b),
         \A b \in Blocks : heap'[b] = IF b \in gone THEN Nil ELSE heap[b],
         \A c \in Clients : IF \E b \in gone : heap[b].client = c
                            THEN dataIrp'[c] # "pending" ELSE dataIrp'[c] = dataIrp[c]
  PROVE  /\ IrpInv'
         /\ \A c \in Clients : dataIrp'[c] # dataIrp[c] => dataIrp[c] = "pending"
<1>1. ASSUME NEW b \in Blocks, Live(b)'
      PROVE  (creq[heap[b].client] = b /\ dataIrp[heap[b].client] = "pending")'
  <2>1. b \notin gone /\ heap'[b] = heap[b] /\ Live(b)
        BY <1>1 DEF Live
  <2>2. heap[b].client \in Clients
        BY <2>1, ClientOf DEF Live
  <2>3. creq[heap[b].client] = b /\ dataIrp[heap[b].client] = "pending"
        BY <2>1 DEF IrpInv
  <2>4. ~ \E d \in gone : heap[d].client = heap[b].client
        BY <2>1, <2>3 DEF IrpInv
  <2> QED BY <2>1, <2>2, <2>3, <2>4
<1>2. ASSUME NEW c \in Clients, dataIrp'[c] = "pending"
      PROVE  (cpc[c] # "idle" /\ creq[c] \in Blocks /\ Live(creq[c])
                /\ heap[creq[c]].client = c)'
  <2>1. dataIrp[c] = "pending" /\ ~ \E b \in gone : heap[b].client = c
        BY <1>2
  <2>2. cpc[c] # "idle" /\ creq[c] \in Blocks /\ Live(creq[c]) /\ heap[creq[c]].client = c
        BY <2>1 DEF IrpInv
  <2>3. heap'[creq[c]] = heap[creq[c]]
        BY <2>1, <2>2
  <2> QED BY <2>2, <2>3 DEF Live
<1>3. ASSUME NEW c \in Clients, dataIrp'[c] # dataIrp[c] PROVE dataIrp[c] = "pending"
  <2>1. PICK b \in gone : heap[b].client = c
        BY <1>3
  <2> QED BY <2>1 DEF IrpInv
<1> QED BY <1>1, <1>2, <1>3 DEF IrpInv

LEMMA IrpInit == Init => IrpInv
BY DEF Init, IrpInv, Live

\* What is proved of every step: the invariant, and that it completes no IRP
\* that is not pending.
IrpStep ==
  /\ IrpInv'
  /\ \A c \in Clients :
       dataIrp'[c] \in {"success", "error", "cancelled"} /\ dataIrp'[c] # dataIrp[c]
         => dataIrp[c] = "pending"

\* A new call gets a free block, and its client had no call before.
LEMMA IrpStart ==
  ASSUME TypeInv, IrpInv, NEW c \in Clients, NEW op \in Ops, NEW b \in Blocks,
         StartReadWrite(c, op, b)
  PROVE  IrpStep
<1>1. /\ cpc[c] = "idle" /\ heap[b] = Nil
      /\ heap'[b].client = c /\ heap'[b].irp = "pending" /\ heap'[b] # Nil
      /\ creq'[c] = b /\ dataIrp'[c] = "pending" /\ cpc'[c] = "enqueue"
  <2>1. heap' = [heap EXCEPT ![b] =
                   [client |-> c, op |-> op, id |-> NextRequestID, irp |-> "pending"]]
        BY DEF StartReadWrite
  <2>2. TypeInv'
        BY TypeStart
  <2>3. heap'[b] = [client |-> c, op |-> op, id |-> NextRequestID, irp |-> "pending"]
        BY <2>1 DEF TypeInv, TypeOK
  <2>4. heap'[b] # Nil
    <3>1. heap'[b] \in DataRequest \cup {Nil}
          BY <2>2 DEF TypeInv, TypeOK
    <3>2. NextRequestID \in Ids
          BY BoundAssumption DEF TypeInv, TypeOK, NextRequestID, Ids
    <3>3. heap'[b] \in DataRequest
          BY <2>3, <3>2 DEF DataRequest
    <3> QED BY <3>3, NilAssumption
  <2> QED BY <2>3, <2>4 DEF StartReadWrite, TypeInv, TypeOK
<1>2. /\ \A d \in Blocks \ {b} : heap'[d] = heap[d]
      /\ \A d \in Clients \ {c} : /\ creq'[d] = creq[d] /\ dataIrp'[d] = dataIrp[d]
                                  /\ cpc'[d] = cpc[d]
      BY DEF StartReadWrite, TypeInv, TypeOK
<1>3. dataIrp[c] # "pending"
      BY <1>1 DEF IrpInv
<1>4. ASSUME NEW d \in Blocks, Live(d)'
      PROVE  (creq[heap[d].client] = d /\ dataIrp[heap[d].client] = "pending")'
  <2>1. CASE d = b
        BY <1>1, <2>1
  <2>2. CASE d # b
    <3>1. heap'[d] = heap[d] /\ Live(d)
          BY <1>2, <1>4, <2>2 DEF Live
    <3>2. heap[d].client \in Clients
          BY <3>1, ClientOf DEF Live
    <3>3. creq[heap[d].client] = d /\ dataIrp[heap[d].client] = "pending"
          BY <3>1 DEF IrpInv
    <3> QED BY <1>2, <1>3, <3>1, <3>2, <3>3
  <2> QED BY <2>1, <2>2
<1>5. ASSUME NEW d \in Clients, dataIrp'[d] = "pending"
      PROVE  (cpc[d] # "idle" /\ creq[d] \in Blocks /\ Live(creq[d])
                /\ heap[creq[d]].client = d)'
  <2>1. CASE d = c
        BY <1>1, <2>1 DEF Live
  <2>2. CASE d # c
    <3>1. /\ creq'[d] = creq[d] /\ dataIrp[d] = "pending" /\ cpc'[d] = cpc[d]
          BY <1>2, <1>5, <2>2
    <3>2. /\ cpc[d] # "idle" /\ creq[d] \in Blocks
          /\ Live(creq[d]) /\ heap[creq[d]].client = d
          BY <3>1 DEF IrpInv
    <3>3. creq[d] # b
          BY <1>1, <3>2 DEF Live
    <3>4. heap'[creq[d]] = heap[creq[d]]
          BY <1>2, <3>2, <3>3
    <3> QED BY <3>1, <3>2, <3>4 DEF Live
  <2> QED BY <2>1, <2>2
<1> QED BY <1>1, <1>2, <1>4, <1>5 DEF IrpStep, IrpInv

\* A client's step completes only its own IRP, and only a failing write does.
LEMMA IrpClient ==
  ASSUME TypeInv, IrpInv, NEW c \in Clients, ClientStep(c)
  PROVE  IrpStep
<1>1. ASSUME \/ Enqueue(c) \/ ClientAcquireService(c) \/ ClientAcquireRequest(c)
             \/ QueueRequest(c) \/ HandToService(c)
             \/ FailWriteNoMdl(c) \/ FailWriteNoPte(c)
      PROVE  IrpStep
  <2>1. UNCHANGED <<heap, creq, dataIrp>>
        BY <1>1 DEF Enqueue, ClientAcquireService, ClientAcquireRequest, QueueRequest,
           HandToService, FailWriteNoMdl, FailWriteNoPte, FailWrite, memory
  <2>2. \A d \in Clients : cpc'[d] = "idle" => cpc[d] = "idle"
        BY <1>1 DEF Enqueue, ClientAcquireService, ClientAcquireRequest, QueueRequest,
           HandToService, FailWriteNoMdl, FailWriteNoPte, FailWrite, TypeInv, TypeOK
  <2> QED BY <2>1, <2>2, IrpKept DEF IrpStep
<1>2. CASE CompleteFailedWrite(c)
  <2>1. /\ dataIrp[c] = "pending" /\ cpc[c] = "fail"
        /\ creq[c] \in Blocks /\ Live(creq[c]) /\ heap[creq[c]].client = c
        BY <1>2 DEF CompleteFailedWrite, RequestGone, IrpInv
  <2>2. /\ heap'[creq[c]].irp = "completed"
        /\ \A b \in Blocks \ {creq[c]} : heap'[b] = heap[b]
    <3>1. heap[creq[c]] \in DataRequest
          BY <2>1 DEF TypeInv, TypeOK, Live
    <3>2. heap' = [heap EXCEPT ![creq[c]] = [@ EXCEPT !.irp = "completed"]]
          BY <1>2 DEF CompleteFailedWrite
    <3> QED BY <2>1, <3>1, <3>2 DEF DataRequest, TypeInv, TypeOK
  <2>3. /\ dataIrp'[c] = "error"
        /\ \A d \in Clients \ {c} : dataIrp'[d] = dataIrp[d]
        /\ \A d \in Clients : creq'[d] = creq[d] /\ (cpc'[d] = "idle" => cpc[d] = "idle")
        BY <1>2 DEF CompleteFailedWrite, TypeInv, TypeOK
  <2>4. ASSUME NEW b \in Blocks, Live(b)'
        PROVE  (creq[heap[b].client] = b /\ dataIrp[heap[b].client] = "pending")'
    <3>1. b # creq[c]
          BY <2>2, <2>4 DEF Live
    <3>2. heap'[b] = heap[b] /\ Live(b)
          BY <2>2, <2>4, <3>1 DEF Live
    <3>3. heap[b].client \in Clients /\ creq[heap[b].client] = b
            /\ dataIrp[heap[b].client] = "pending"
          BY <3>2, ClientOf DEF Live, IrpInv
    <3> QED BY <2>3, <3>1, <3>2, <3>3
  <2>5. ASSUME NEW d \in Clients, dataIrp'[d] = "pending"
        PROVE  (cpc[d] # "idle" /\ creq[d] \in Blocks /\ Live(creq[d])
                  /\ heap[creq[d]].client = d)'
    <3>1. d # c /\ dataIrp[d] = "pending"
          BY <2>3, <2>5
    <3>2. cpc[d] # "idle" /\ creq[d] \in Blocks /\ Live(creq[d]) /\ heap[creq[d]].client = d
          BY <3>1 DEF IrpInv
    <3>3. heap'[creq[d]] = heap[creq[d]]
          BY <2>1, <2>2, <3>1, <3>2
    <3> QED BY <2>3, <3>2, <3>3 DEF Live
  <2> QED BY <2>1, <2>3, <2>4, <2>5 DEF IrpStep, IrpInv
<1>3. CASE Return(c)
  <2>1. /\ dataIrp[c] # "pending" /\ dataIrp'[c] = "none" /\ heap' = heap
        /\ \A d \in Clients \ {c} : /\ creq'[d] = creq[d] /\ dataIrp'[d] = dataIrp[d]
                                    /\ cpc'[d] = cpc[d]
        BY <1>3 DEF Return, memory, TypeInv, TypeOK
  <2>2. ASSUME NEW b \in Blocks, Live(b)'
        PROVE  (creq[heap[b].client] = b /\ dataIrp[heap[b].client] = "pending")'
    <3>1. Live(b)
          BY <2>1, <2>2 DEF Live
    <3>2. heap[b].client \in Clients /\ creq[heap[b].client] = b
            /\ dataIrp[heap[b].client] = "pending"
          BY <3>1, ClientOf DEF Live, IrpInv
    <3> QED BY <2>1, <3>2
  <2>3. ASSUME NEW d \in Clients, dataIrp'[d] = "pending"
        PROVE  (cpc[d] # "idle" /\ creq[d] \in Blocks /\ Live(creq[d])
                  /\ heap[creq[d]].client = d)'
        BY <2>1, <2>3 DEF IrpInv, Live
  <2> QED BY <2>1, <2>2, <2>3 DEF IrpStep, IrpInv
<1> QED BY <1>1, <1>2, <1>3 DEF ClientStep

\* A thread of the service completes the IRP of the request it frees.
LEMMA IrpWorker ==
  ASSUME TypeInv, IrpInv, NEW w \in Workers, WorkerStep(w)
  PROVE  IrpStep
<1>1. ASSUME NEW b \in Blocks, Live(b), NEW result, result # "pending",
             UNCHANGED <<cpc, creq>>,
             \A d \in Blocks : heap'[d] = IF d = b THEN Nil ELSE heap[d],
             dataIrp' = [dataIrp EXCEPT ![heap[b].client] = result]
      PROVE  IrpStep
  <2>1. \A c \in Clients : IF c = heap[b].client THEN dataIrp'[c] # "pending"
                           ELSE dataIrp'[c] = dataIrp[c]
        BY <1>1 DEF TypeInv, TypeOK
  <2>2. \A c \in Clients : IF \E d \in {b} : heap[d].client = c THEN dataIrp'[c] # "pending"
                           ELSE dataIrp'[c] = dataIrp[c]
        BY <2>1
  <2>3. {b} \in SUBSET Blocks /\ \A d \in {b} : Live(d)
        BY <1>1
  <2>4. \A d \in Blocks : heap'[d] = IF d \in {b} THEN Nil ELSE heap[d]
        BY <1>1
  <2>5. UNCHANGED <<cpc, creq>>
        BY <1>1
  <2>6. /\ IrpInv'
        /\ \A c \in Clients : dataIrp'[c] # dataIrp[c] => dataIrp[c] = "pending"
        BY <2>2, <2>3, <2>4, <2>5, IrpFreed
  <2> QED BY <2>6 DEF IrpStep
<1>2. ASSUME NEW b \in Matching(w), held[w].type \in Ops,
             ~QueueDangles(held[w].type), ~Stale(b),
             RemoveAndFree({b}, held[w].type)
      PROVE  /\ b \in Blocks /\ Live(b)
             /\ \A d \in Blocks : heap'[d] = IF d = b THEN Nil ELSE heap[d]
  <2>1. b \in queue[held[w].type] /\ b \in Blocks
        BY <1>2 DEF Matching, TypeInv, TypeOK
  <2>2. heap[b] # Nil /\ heap[b].irp # "completed"
        BY <1>2, <2>1 DEF QueueDangles, Stale
  <2>3. Live(b)
        BY <2>1, <2>2, ClientOf DEF Live
  <2> QED BY <1>2, <2>1, <2>3 DEF RemoveAndFree
<1>3. CASE Respond(w)
  <2>1. PICK b \in Matching(w), result \in {"success", "error"} :
          /\ ~Stale(b)
          /\ RemoveAndFree({b}, held[w].type)
          /\ dataIrp' = [dataIrp EXCEPT ![heap[b].client] = result]
        BY <1>3 DEF Respond
  <2>2. /\ held[w].type \in Ops /\ ~QueueDangles(held[w].type)
        /\ UNCHANGED <<cpc, creq>>
        BY <1>3 DEF Respond
  <2>3. /\ b \in Blocks /\ Live(b)
        /\ \A d \in Blocks : heap'[d] = IF d = b THEN Nil ELSE heap[d]
        BY <1>2, <2>1, <2>2
  <2>4. result # "pending"
        OBVIOUS
  <2> QED BY <1>1, <2>1, <2>2, <2>3, <2>4
<1>4. CASE RespondUnmapped(w)
  <2>1. PICK b \in Matching(w) :
          /\ ~Stale(b)
          /\ RemoveAndFree({b}, held[w].type)
          /\ dataIrp' = [dataIrp EXCEPT ![heap[b].client] = "error"]
        BY <1>4 DEF RespondUnmapped
  <2>2. /\ held[w].type \in Ops /\ ~QueueDangles(held[w].type)
        /\ UNCHANGED <<cpc, creq>>
        BY <1>4 DEF RespondUnmapped
  <2>3. /\ b \in Blocks /\ Live(b)
        /\ \A d \in Blocks : heap'[d] = IF d = b THEN Nil ELSE heap[d]
        BY <1>2, <2>1, <2>2
  <2> QED BY <1>1, <2>1, <2>2, <2>3
<1>5. CASE DeliverUnmapped(w)
  <2>1. wreq[w] \in Blocks /\ Live(wreq[w])
        BY <1>5, DeliveryThere DEF DeliverUnmapped, DeliverGone, Live
  <2>2. /\ UNCHANGED <<cpc, creq>>
        /\ \A d \in Blocks : heap'[d] = IF d = wreq[w] THEN Nil ELSE heap[d]
        /\ dataIrp' = [dataIrp EXCEPT ![heap[wreq[w]].client] = "error"]
        BY <1>5, <2>1 DEF DeliverUnmapped, TypeInv, TypeOK
  <2> QED BY <1>1, <2>1, <2>2
<1>6. ASSUME \/ GetRequest(w) \/ RespondToNobody(w) \/ RespondWithBadType(w)
             \/ WorkerAcquireService(w) \/ WorkerAcquireRequest(w) \/ TakeRequest(w)
             \/ QueueServiceIrp(w) \/ Deliver(w) \/ DeliverCopyFails(w)
      PROVE  IrpStep
  <2>1. UNCHANGED <<heap, cpc, creq, dataIrp>>
        BY <1>6 DEF GetRequest, RespondToNobody, RespondWithBadType, WorkerAcquireService,
           WorkerAcquireRequest, TakeRequest, QueueServiceIrp, Deliver, DeliverCopyFails,
           memory, client
  <2> QED BY <2>1, IrpKept DEF IrpStep
<1> QED BY <1>3, <1>4, <1>5, <1>6 DEF WorkerStep

\* A cleanup completes the IRPs of the requests it frees, and no others.
LEMMA IrpFile ==
  ASSUME TypeInv, IrpInv, NEW f \in Files, FileStep(f)
  PROVE  IrpStep
<1>1. CASE CancelDataQueue(f)
  <2>1. PICK op \in Ops :
          /\ ~QueueDangles(op) /\ ~QueueStale(op)
          /\ RemoveAndFree(Cancelled(f, op), op)
          /\ dataIrp' = [c \in Clients |->
               IF \E b \in Cancelled(f, op) : heap[b].client = c THEN "cancelled"
               ELSE dataIrp[c]]
        BY <1>1 DEF CancelDataQueue
  <2>2. Cancelled(f, op) \in SUBSET Blocks /\ Cancelled(f, op) \subseteq queue[op]
        BY DEF Cancelled, TypeInv, TypeOK
  <2>3. \A b \in Cancelled(f, op) : Live(b)
        BY <2>1, <2>2, ClientOf DEF QueueDangles, QueueStale, Stale, Live
  <2>4. \A b \in Blocks : heap'[b] = IF b \in Cancelled(f, op) THEN Nil ELSE heap[b]
        BY <2>1 DEF RemoveAndFree
  <2>5. \A c \in Clients : IF \E b \in Cancelled(f, op) : heap[b].client = c
                           THEN dataIrp'[c] # "pending" ELSE dataIrp'[c] = dataIrp[c]
        BY <2>1
  <2>6. UNCHANGED <<cpc, creq>>
        BY <1>1 DEF CancelDataQueue
  <2>7. /\ IrpInv'
        /\ \A c \in Clients : dataIrp'[c] # dataIrp[c] => dataIrp[c] = "pending"
        BY <2>2, <2>3, <2>4, <2>5, <2>6, IrpFreed
  <2> QED BY <2>7 DEF IrpStep
<1>2. CASE StartCleanup(f) \/ CancelMisread(f)
  <2>1. UNCHANGED <<heap, cpc, creq, dataIrp>>
        BY <1>2 DEF StartCleanup, CancelMisread, memory, client
  <2> QED BY <2>1, IrpKept DEF IrpStep
<1> QED BY <1>1, <1>2 DEF FileStep

LEMMA IrpEveryStep == TypeInv /\ IrpInv /\ [Next]_vars => IrpStep
<1> SUFFICES ASSUME TypeInv, IrpInv, [Next]_vars PROVE IrpStep
    OBVIOUS
<1>1. ASSUME NEW c \in Clients, NEW op \in Ops, NEW b \in Blocks, StartReadWrite(c, op, b)
      PROVE  IrpStep
      BY <1>1, IrpStart
<1>2. ASSUME NEW c \in Clients, ClientStep(c) PROVE IrpStep
      BY <1>2, IrpClient
<1>3. ASSUME NEW w \in Workers, WorkerStep(w) PROVE IrpStep
      BY <1>3, IrpWorker
<1>4. ASSUME NEW f \in Files, FileStep(f) PROVE IrpStep
      BY <1>4, IrpFile
<1>5. ASSUME \/ CreateControl \/ CloseControl \/ UNCHANGED vars
             \/ UseAfterFree \/ DoubleCompletion \/ MisreadList
      PROVE  IrpStep
  <2>1. UNCHANGED <<memory, client>>
        BY <1>5, BugcheckStep DEF CreateControl, CloseControl, vars
  <2>2. UNCHANGED <<heap, cpc, creq, dataIrp>>
        BY <2>1 DEF memory, client
  <2> QED BY <2>2, IrpKept DEF IrpStep
<1> QED BY <1>1, <1>2, <1>3, <1>4, <1>5 DEF Next, Running, Quiescent

-----------------------------------------------------------------------------
(* Failing writes.  The identifier of a write that failed was never given to *)
(* a service thread, so while no handle is closed nobody completes its IRP   *)
(* again: the walk of ProcessResponse steps over the entry it left.  What    *)
(* the service knows of is lodged: its client waits and its IRP is pending.  *)

OpenHandles ==
  /\ ~ControlCloses /\ ~DataCloses
  /\ MaxRequests <= IdLimit

Lodged(b) == Live(b) /\ cpc[heap[b].client] = "wait"

\* The service thread is to deliver this request, or its buffer has its identifier.
Knows(w, b) ==
  \/ wpc[w] = "deliver" /\ wreq[w] = b
  \/ /\ wpc[w] = "answer" /\ held[w].type \in Ops
     /\ Used(b) /\ held[w].id = heap[b].id

EarlyInv == \A c \in Clients : cpc[c] \notin {"idle", "wait"} => dataIrp[c] = "pending"

HeldInv == \A w \in Workers :
  /\ wpc[w] # "answer" => held[w].type \notin Ops
  /\ held[w].type \in Ops => \E k \in 1 .. issued : held[w].id = Serial(k)

LodgedInv ==
  /\ WaitsOnce(RequestQueue)
  /\ \A b \in Blocks : Waits(b, RequestQueue) => Lodged(b)
  /\ \A w \in Workers, b \in Blocks : Knows(w, b) => Lodged(b) /\ ~Waits(b, RequestQueue)
  /\ \A v, w \in Workers, b \in Blocks : Knows(v, b) /\ Knows(w, b) => v = w

ServiceInv == HandlesOpen /\ SerialInv /\ EarlyInv /\ HeldInv /\ LodgedInv

LEMMA ServiceInit == Init => ServiceInv
<1> SUFFICES ASSUME Init PROVE ServiceInv
    OBVIOUS
<1>1. HandlesOpen
      BY NilAssumption DEF Init, HandlesOpen, Files
<1>2. SerialInv
      BY BoundAssumption DEF Init, SerialInv, Serial, Used
<1>3. EarlyInv /\ HeldInv
      BY DEF Init, EarlyInv, HeldInv, Zeroed, Ops
<1>4. LodgedInv
      BY DEF Init, LodgedInv, WaitsOnce, Waits, Knows
<1> QED BY <1>1, <1>2, <1>3, <1>4 DEF ServiceInv

\* A step after which the service knows no more requests than before.
LEMMA LodgedKept ==
  ASSUME LodgedInv, UNCHANGED RequestQueue,
         \A w \in Workers, b \in Blocks : Knows(w, b)' => Knows(w, b),
         \A b \in Blocks :
           Lodged(b) /\ (Waits(b, RequestQueue) \/ \E w \in Workers : Knows(w, b)') => Lodged(b)'
  PROVE  LodgedInv'
BY DEF LodgedInv

\* A step that frees no request and completes no IRP keeps the identifiers.
LEMMA SerialKept ==
  ASSUME SerialInv, UNCHANGED <<OsrRequestID, issued>>,
         \A b \in Blocks : Used(b)' => Used(b) /\ heap'[b].id = heap[b].id
  PROVE  SerialInv'
BY DEF SerialInv, Serial

\* The request of a client that has a pending IRP and does not wait yet.
LEMMA EarlyRequest ==
  ASSUME IrpInv, ServiceInv, NEW c \in Clients, cpc[c] \notin {"idle", "wait"}
  PROVE  /\ creq[c] \in Blocks /\ Live(creq[c]) /\ heap[creq[c]].client = c
         /\ ~Lodged(creq[c]) /\ ~Waits(creq[c], RequestQueue)
         /\ \A w \in Workers : ~Knows(w, creq[c])
<1>1. creq[c] \in Blocks /\ Live(creq[c]) /\ heap[creq[c]].client = c
      BY DEF ServiceInv, EarlyInv, IrpInv
<1>2. ~Lodged(creq[c])
      BY <1>1 DEF Lodged
<1> QED BY <1>1, <1>2 DEF ServiceInv, LodgedInv

\* A new request has an identifier and a block nobody knows of.
LEMMA ServiceStart ==
  ASSUME OpenHandles, TypeInv, ServiceInv, NEW c \in Clients, NEW op \in Ops, NEW b \in Blocks,
         StartReadWrite(c, op, b)
  PROVE  ServiceInv'
<1> DEFINE r == [client |-> c, op |-> op, id |-> NextRequestID, irp |-> "pending"]
<1>1. /\ cpc[c] = "idle" /\ heap[b] = Nil /\ issued < MaxRequests
      /\ OsrRequestID' = NextRequestID /\ issued' = issued + 1
      /\ UNCHANGED <<RequestQueue, wpc, wreq, held, file>>
      BY DEF StartReadWrite, queues, worker, files
<1>2. /\ heap'[b] = r
      /\ \A a \in Blocks : a # b => heap'[a] = heap[a]
      /\ dataIrp'[c] = "pending" /\ cpc'[c] = "enqueue"
      /\ \A d \in Clients : d # c => dataIrp'[d] = dataIrp[d] /\ cpc'[d] = cpc[d]
      BY DEF StartReadWrite, TypeInv, TypeOK
<1>3. issued \in Nat /\ SerialInv /\ MaxRequests <= IdLimit
      BY DEF TypeInv, TypeOK, ServiceInv, OpenHandles
<1>4. /\ NextRequestID = Serial(issued + 1)
      /\ \A a \in Blocks : Used(a) => heap[a].id # NextRequestID
      BY <1>1, <1>3, NextSerial
<1>5. \A k \in 1 .. issued : Serial(k) # Serial(issued + 1)
      BY <1>1, <1>3, BoundAssumption DEF Serial
<1>6. SerialInv'
  <2>1. \A a \in Blocks : Used(a)' => a = b \/ Used(a)
        BY <1>2 DEF Used
  <2>2. ASSUME NEW a \in Blocks, Used(a)' PROVE \E k \in 1 .. issued' : heap'[a].id = Serial(k)
    <3>1. CASE a = b
          BY <1>1, <1>2, <1>3, <1>4, <3>1
    <3>2. CASE a # b
          BY <1>1, <1>2, <1>3, <2>1, <2>2, <3>2 DEF SerialInv
    <3> QED BY <3>1, <3>2
  <2>3. ASSUME NEW a \in Blocks, NEW d \in Blocks, Used(a)', Used(d)', heap'[a].id = heap'[d].id
        PROVE  a = d
    <3>1. CASE a # b /\ d # b
          BY <1>2, <1>3, <2>1, <2>3, <3>1 DEF SerialInv
    <3>2. CASE a = b /\ d # b
          BY <1>2, <1>4, <2>1, <2>3, <3>2
    <3>3. CASE a # b /\ d = b
          BY <1>2, <1>4, <2>1, <2>3, <3>3
    <3> QED BY <3>1, <3>2, <3>3
  <2>4. OsrRequestID' = Serial(issued')
        BY <1>1, <1>4
  <2>5. \A k : Serial(k)' = Serial(k)
        BY DEF Serial
  <2> QED BY <2>2, <2>3, <2>4, <2>5 DEF SerialInv
<1>7. EarlyInv'
      BY <1>2 DEF ServiceInv, EarlyInv
<1>8. HeldInv'
  <2>1. \A w \in Workers :
          /\ wpc'[w] # "answer" => held'[w].type \notin Ops
          /\ held'[w].type \in Ops => \E k \in 1 .. issued : held'[w].id = Serial(k)
        BY <1>1 DEF ServiceInv, HeldInv
  <2>2. 1 .. issued \subseteq 1 .. issued' /\ \A k : Serial(k)' = Serial(k)
        BY <1>1, <1>3 DEF Serial
  <2> QED BY <2>1, <2>2 DEF HeldInv
<1>9. LodgedInv'
  <2>1. ASSUME NEW w \in Workers, NEW a \in Blocks, Knows(w, a)' PROVE Knows(w, a)
    <3>1. CASE a # b
          BY <1>1, <1>2, <2>1, <3>1 DEF Knows, Used
    <3>2. CASE a = b /\ wpc[w] = "answer"
      <4>1. held[w].type \in Ops /\ held[w].id = NextRequestID
            BY <1>1, <1>2, <2>1, <3>2 DEF Knows
      <4>2. \E k \in 1 .. issued : held[w].id = Serial(k)
            BY <4>1 DEF ServiceInv, HeldInv
      <4> QED BY <1>4, <1>5, <4>1, <4>2
    <3>3. CASE a = b /\ wpc[w] # "answer"
          BY <1>1, <2>1, <3>3 DEF Knows
    <3> QED BY <3>1, <3>2, <3>3
  <2>2. ASSUME NEW a \in Blocks, Lodged(a) PROVE Lodged(a)'
    <3>1. a # b /\ heap'[a] = heap[a]
          BY <1>1, <1>2, <2>2 DEF Lodged, Live
    <3>2. heap[a].client \in Clients /\ heap[a].client # c
          BY <1>1, <2>2, ClientOf DEF Lodged, Live
    <3> QED BY <1>2, <2>2, <3>1, <3>2 DEF Lodged, Live
  <2> QED BY <1>1, <2>1, <2>2, LodgedKept DEF ServiceInv
<1> QED BY <1>1, <1>6, <1>7, <1>8, <1>9 DEF ServiceInv, HandlesOpen

\* A client's step: a request is lodged when its client starts to wait, unless
\* the write has failed.
LEMMA ServiceClient ==
  ASSUME TypeInv, ServiceIrpAccounted, IrpInv, ServiceInv, NEW c \in Clients, ClientStep(c)
  PROVE  ServiceInv'
<1>0. /\ cpc \in [Clients -> ClientPcs] /\ wpc \in [Workers -> WorkerPcs]
      /\ held \in [Workers -> [id : Ids, type : Ops \cup {"zero"}]]
      BY DEF TypeInv, TypeOK
<1>1. \A d \in Clients : d # c => cpc'[d] = cpc[d] /\ dataIrp'[d] = dataIrp[d]
      BY <1>0 DEF ClientStep, Enqueue, ClientAcquireService, ClientAcquireRequest, QueueRequest,
                  HandToService, FailWriteNoMdl, FailWriteNoPte, FailWrite,
                  CompleteFailedWrite, Return, TypeInv, TypeOK
<1>2. HandlesOpen' /\ UNCHANGED <<OsrRequestID, issued>>
      BY DEF ServiceInv, HandlesOpen, ClientStep, Enqueue, ClientAcquireService,
             ClientAcquireRequest, QueueRequest, HandToService, FailWriteNoMdl,
             FailWriteNoPte, FailWrite, CompleteFailedWrite, Return, files, memory
<1>4. ASSUME UNCHANGED <<wpc, held>> PROVE HeldInv'
      BY <1>2, <1>4 DEF ServiceInv, HeldInv, Serial
<1>5. ASSUME UNCHANGED <<heap, dataIrp>>, cpc[c] # "idle",
             cpc[c] = "wait" => cpc'[c] = "wait" /\ dataIrp[c] = "pending"
      PROVE  SerialInv' /\ EarlyInv'
  <2>1. SerialInv'
        BY <1>2, <1>5, SerialKept DEF ServiceInv, Used
  <2>2. dataIrp[c] = "pending"
        BY <1>5 DEF ServiceInv, EarlyInv
  <2> QED BY <1>1, <1>5, <2>1, <2>2 DEF ServiceInv, EarlyInv
\* a step before the client waits
<1>6. CASE \/ Enqueue(c) \/ ClientAcquireService(c) \/ ClientAcquireRequest(c) \/ FailWriteNoMdl(c)
  <2>1. /\ cpc[c] \notin {"idle", "wait"}
        /\ UNCHANGED <<RequestQueue, heap, dataIrp, wpc, wreq, held>>
        BY <1>6 DEF Enqueue, ClientAcquireService, ClientAcquireRequest, FailWriteNoMdl, FailWrite,
                    queues, memory, worker
  <2>2. \A b \in Blocks : Lodged(b) => Lodged(b)'
    <3> SUFFICES ASSUME NEW b \in Blocks, Lodged(b) PROVE Lodged(b)'
        OBVIOUS
    <3>1. heap[b].client \in Clients /\ heap[b].client # c
          BY <2>1, ClientOf DEF Lodged, Live
    <3> QED BY <1>1, <2>1, <3>1 DEF Lodged, Live
  <2>3. \A w \in Workers, b \in Blocks : Knows(w, b)' => Knows(w, b)
        BY <2>1 DEF Knows, Used
  <2>4. LodgedInv'
        BY <2>1, <2>2, <2>3, LodgedKept DEF ServiceInv
  <2> QED BY <1>2, <1>4, <1>5, <2>1, <2>4 DEF ServiceInv
\* no system PTEs: the service thread's buffer is still zeroed
<1>7. CASE FailWriteNoPte(c)
  <2>1. /\ cpc[c] = "holdsService" /\ ServiceQueue # <<>>
        /\ UNCHANGED <<RequestQueue, heap, dataIrp, wreq, held>>
        BY <1>7 DEF FailWriteNoPte, FailWrite, memory
  <2>2. PICK w \in Workers : w = Head(ServiceQueue) /\ wpc[w] = "pending"
        BY <2>1, AccountedDef, TailOnce DEF TypeInv, TypeOK
  <2>3. /\ wpc'[w] = "answer" /\ held[w].type \notin Ops
        /\ \A v \in Workers : v # w => wpc'[v] = wpc[v]
        BY <1>0, <1>7, <2>2 DEF FailWriteNoPte, ServiceInv, HeldInv
  <2>4. HeldInv'
        BY <1>2, <2>1, <2>3 DEF ServiceInv, HeldInv, Serial
  <2>5. \A v \in Workers, b \in Blocks : Knows(v, b)' => Knows(v, b)
        BY <2>1, <2>3 DEF Knows, Used
  <2>6. \A b \in Blocks : Lodged(b) => Lodged(b)'
    <3> SUFFICES ASSUME NEW b \in Blocks, Lodged(b) PROVE Lodged(b)'
        OBVIOUS
    <3>1. heap[b].client \in Clients /\ heap[b].client # c
          BY <2>1, ClientOf DEF Lodged, Live
    <3> QED BY <1>1, <2>1, <3>1 DEF Lodged, Live
  <2>7. LodgedInv'
        BY <2>1, <2>5, <2>6, LodgedKept DEF ServiceInv
  <2> QED BY <1>2, <1>5, <2>1, <2>4, <2>7 DEF ServiceInv
<1>8. CASE CompleteFailedWrite(c)
  <2>1. /\ cpc[c] = "fail" /\ cpc'[c] = "wait"
        /\ UNCHANGED <<RequestQueue, wpc, wreq, held>>
        BY <1>0, <1>8 DEF CompleteFailedWrite, queues, worker
  <2>2. PICK b \in Blocks : b = creq[c] /\ Live(b) /\ heap[b].client = c
        BY <2>1, EarlyRequest
  <2>3. /\ heap'[b] = [heap[b] EXCEPT !.irp = "completed"]
        /\ \A a \in Blocks : a # b => heap'[a] = heap[a]
        BY <1>8, <2>2 DEF CompleteFailedWrite, TypeInv, TypeOK
  <2>4. heap[b] \in DataRequest
        BY <2>2 DEF TypeInv, TypeOK, Live
  <2>5. heap'[b].id = heap[b].id /\ \A a \in Blocks : Used(a)' => Used(a)
        BY <2>2, <2>3, <2>4 DEF DataRequest, Used, Live
  <2>6. SerialInv'
        BY <1>2, <2>3, <2>5, SerialKept DEF ServiceInv
  <2>7. EarlyInv'
        BY <1>1, <2>1 DEF ServiceInv, EarlyInv
  <2>8. \A w \in Workers, a \in Blocks : Knows(w, a)' => Knows(w, a)
        BY <2>1, <2>3, <2>5 DEF Knows
  <2>9. \A a \in Blocks : Lodged(a) => Lodged(a)'
    <3> SUFFICES ASSUME NEW a \in Blocks, Lodged(a) PROVE Lodged(a)'
        OBVIOUS
    <3>1. heap[a].client \in Clients /\ heap[a].client # c /\ a # b
          BY <2>1, <2>2, ClientOf DEF Lodged, Live
    <3> QED BY <1>1, <2>3, <3>1 DEF Lodged, Live
  <2>10. LodgedInv'
        BY <2>1, <2>8, <2>9, LodgedKept DEF ServiceInv
  <2> QED BY <1>2, <1>4, <2>1, <2>6, <2>7, <2>10 DEF ServiceInv
<1>9. CASE Return(c)
  <2>1. /\ cpc[c] = "wait" /\ cpc'[c] = "idle" /\ dataIrp[c] # "pending"
        /\ UNCHANGED <<RequestQueue, heap, wpc, wreq, held>>
        BY <1>0, <1>9 DEF Return, queues, memory, worker
  <2>2. SerialInv' /\ EarlyInv'
        BY <1>1, <1>2, <2>1, SerialKept DEF ServiceInv, EarlyInv, Used
  <2>3. \A w \in Workers, b \in Blocks : Knows(w, b)' => Knows(w, b)
        BY <2>1 DEF Knows, Used
  <2>4. \A b \in Blocks : Lodged(b) => Lodged(b)'
    <3> SUFFICES ASSUME NEW b \in Blocks, Lodged(b) PROVE Lodged(b)'
        OBVIOUS
    <3>1. heap[b].client \in Clients /\ heap[b].client # c
          BY <2>1, ClientOf DEF Lodged, Live, IrpInv
    <3> QED BY <1>1, <2>1, <3>1 DEF Lodged, Live
  <2>5. LodgedInv'
        BY <2>1, <2>3, <2>4, LodgedKept DEF ServiceInv
  <2> QED BY <1>2, <1>4, <2>1, <2>2, <2>5 DEF ServiceInv
<1>10. ASSUME cpc[c] \in {"holdsService", "holdsBoth"}, cpc'[c] = "wait", UNCHANGED <<heap, creq>>
       PROVE  /\ creq[c] \in Blocks /\ Lodged(creq[c])'
              /\ \A a \in Blocks : Lodged(a) => Lodged(a)' /\ a # creq[c]
  <2>1. creq[c] \in Blocks /\ Live(creq[c]) /\ heap[creq[c]].client = c /\ ~Lodged(creq[c])
        BY <1>10, EarlyRequest
  <2>2. ASSUME NEW a \in Blocks, Lodged(a) PROVE Lodged(a)'
    <3>1. heap[a].client \in Clients /\ heap[a].client # c
          BY <1>10, <2>2, ClientOf DEF Lodged, Live
    <3> QED BY <1>1, <1>10, <2>2, <3>1 DEF Lodged, Live
  <2> QED BY <1>10, <2>1, <2>2 DEF Lodged, Live
<1>11. CASE QueueRequest(c)
  <2>1. /\ cpc[c] = "holdsBoth" /\ cpc'[c] = "wait"
        /\ RequestQueue' = Append(RequestQueue, creq[c])
        /\ UNCHANGED <<heap, creq, dataIrp, wpc, wreq, held>>
        BY <1>0, <1>11 DEF QueueRequest, memory, worker
  <2>2. PICK b \in Blocks : b = creq[c] /\ Lodged(b)'
        BY <1>10, <2>1
  <2>3. \A a \in Blocks : Lodged(a) => Lodged(a)'
        BY <1>10, <2>1
  <2>4. ~Waits(b, RequestQueue) /\ \A w \in Workers : ~Knows(w, b)
        BY <2>1, <2>2, EarlyRequest
  <2>5. /\ WaitsOnce(RequestQueue')
        /\ \A a \in Blocks : Waits(a, RequestQueue') <=> (a = b \/ Waits(a, RequestQueue))
        BY <2>1, <2>2, <2>4, AppendOnce DEF TypeInv, TypeOK, ServiceInv, LodgedInv
  <2>6. \A w \in Workers, a \in Blocks : Knows(w, a)' <=> Knows(w, a)
        BY <2>1 DEF Knows, Used
  <2>7. LodgedInv'
        BY <2>2, <2>3, <2>4, <2>5, <2>6 DEF ServiceInv, LodgedInv
  <2>8. SerialInv' /\ EarlyInv'
        BY <1>1, <1>2, <2>1, SerialKept DEF ServiceInv, EarlyInv, Used
  <2> QED BY <1>2, <1>4, <2>1, <2>7, <2>8 DEF ServiceInv
<1>12. CASE HandToService(c)
  <2>1. /\ cpc[c] = "holdsService" /\ cpc'[c] = "wait" /\ ServiceQueue # <<>>
        /\ UNCHANGED <<RequestQueue, heap, creq, dataIrp, wreq>>
        BY <1>0, <1>12 DEF HandToService, memory
  <2>2. PICK w \in Workers : w = Head(ServiceQueue) /\ wpc[w] = "pending"
        BY <2>1, AccountedDef, TailOnce DEF TypeInv, TypeOK
  <2>3. PICK b \in Blocks : b = creq[c] /\ Lodged(b)'
        BY <1>10, <2>1
  <2>4. /\ wpc' = [wpc EXCEPT ![w] = "answer"]
        /\ held' = [held EXCEPT ![w] = [id |-> heap[b].id, type |-> heap[b].op]]
        BY <1>12, <2>2, <2>3 DEF HandToService
  <2>5. /\ wpc'[w] = "answer" /\ held'[w].id = heap[b].id
        /\ \A v \in Workers : v # w => wpc'[v] = wpc[v] /\ held'[v] = held[v]
        BY <1>0, <2>4
  <2>6. Used(b) /\ ~Waits(b, RequestQueue) /\ \A v \in Workers : ~Knows(v, b)
        BY <2>1, <2>3, EarlyRequest DEF Live, Used
  <2>7. \A a \in Blocks : Lodged(a) => Lodged(a)'
        BY <1>10, <2>1
  <2>8. ASSUME NEW v \in Workers, NEW a \in Blocks, Knows(v, a)'
        PROVE  IF v = w THEN a = b ELSE Knows(v, a)
    <3>1. CASE v = w
      <4>1. Used(a) /\ heap[a].id = heap[b].id
            BY <2>1, <2>5, <2>8, <3>1 DEF Knows, Used
      <4> QED BY <2>6, <3>1, <4>1 DEF ServiceInv, SerialInv
    <3>2. CASE v # w
          BY <2>1, <2>5, <2>8, <3>2 DEF Knows, Used
    <3> QED BY <3>1, <3>2
  <2>9. LodgedInv'
        BY <2>1, <2>3, <2>6, <2>7, <2>8 DEF ServiceInv, LodgedInv
  <2>10. HeldInv'
    <3>1. \E k \in 1 .. issued : heap[b].id = Serial(k)
          BY <2>6 DEF ServiceInv, SerialInv
    <3> QED BY <1>2, <2>5, <3>1 DEF ServiceInv, HeldInv, Serial
  <2>11. SerialInv' /\ EarlyInv'
        BY <1>1, <1>2, <2>1, SerialKept DEF ServiceInv, EarlyInv, Used
  <2> QED BY <1>2, <2>9, <2>10, <2>11 DEF ServiceInv
<1> QED BY <1>6, <1>7, <1>8, <1>9, <1>11, <1>12 DEF ClientStep

\* An answer finds a request the service thread knows of, and frees it.
LEMMA ServiceAnswer ==
  ASSUME TypeInv, ServiceInv, NEW w \in Workers, NEW b \in Blocks, Knows(w, b),
         UNCHANGED <<RequestQueue, OsrRequestID, issued, cpc, file>>,
         \A a \in Blocks : heap'[a] = IF a = b THEN Nil ELSE heap[a],
         \A c \in Clients : c # heap[b].client => dataIrp'[c] = dataIrp[c],
         \A v \in Workers : v # w =>
           wpc'[v] = wpc[v] /\ wreq'[v] = wreq[v] /\ held'[v] = held[v],
         wpc'[w] # "deliver", held'[w].type \notin Ops
  PROVE  ServiceInv'
<1>1. Lodged(b) /\ ~Waits(b, RequestQueue) /\ \A v \in Workers : Knows(v, b) => v = w
      BY DEF ServiceInv, LodgedInv
<1>2. HandlesOpen'
      BY DEF ServiceInv, HandlesOpen
<1>3. SerialInv'
      BY SerialKept DEF ServiceInv, Used
<1>4. EarlyInv'
      BY <1>1 DEF ServiceInv, EarlyInv, Lodged
<1>5. HeldInv'
  <2>1. \A v \in Workers : /\ wpc'[v] # "answer" => held'[v].type \notin Ops
                           /\ held'[v].type \in Ops => \E k \in 1 .. issued : held'[v].id = Serial(k)
        BY DEF ServiceInv, HeldInv
  <2>2. \A k : Serial(k)' = Serial(k)
        BY DEF Serial
  <2> QED BY <2>1, <2>2 DEF HeldInv
<1>6. ASSUME NEW v \in Workers, NEW a \in Blocks, Knows(v, a)' PROVE v # w /\ a # b /\ Knows(v, a)
  <2>1. v # w
        BY <1>6 DEF Knows
  <2>2. CASE a # b
        BY <1>6, <2>1, <2>2 DEF Knows, Used
  <2>3. CASE a = b
    <3>1. wpc[v] = "deliver" /\ wreq[v] = b
          BY <1>6, <2>1, <2>3 DEF Knows, Used
    <3> QED BY <1>1, <2>1, <3>1 DEF Knows
  <2> QED BY <2>1, <2>2, <2>3
<1>7. \A a \in Blocks : a # b /\ Lodged(a) => Lodged(a)'
      BY DEF Lodged, Live
<1>8. LodgedInv'
      BY <1>1, <1>6, <1>7, LodgedKept DEF ServiceInv
<1> QED BY <1>2, <1>3, <1>4, <1>5, <1>8 DEF ServiceInv

\* A service thread's step that leaves the heap alone, and knows no more after it.
LEMMA ServiceIdle ==
  ASSUME ServiceInv, NEW w \in Workers,
         UNCHANGED <<RequestQueue, heap, OsrRequestID, issued, cpc, dataIrp, file>>,
         \A v \in Workers : v # w =>
           wpc'[v] = wpc[v] /\ wreq'[v] = wreq[v] /\ held'[v] = held[v],
         wpc'[w] # "deliver", held'[w].type \notin Ops
  PROVE  ServiceInv'
<1>1. HandlesOpen' /\ EarlyInv'
      BY DEF ServiceInv, HandlesOpen, EarlyInv
<1>2. SerialInv'
      BY SerialKept DEF ServiceInv, Used
<1>3. HeldInv'
  <2>1. \A v \in Workers : /\ wpc'[v] # "answer" => held'[v].type \notin Ops
                           /\ held'[v].type \in Ops => \E k \in 1 .. issued : held'[v].id = Serial(k)
        BY DEF ServiceInv, HeldInv
  <2>2. \A k : Serial(k)' = Serial(k)
        BY DEF Serial
  <2> QED BY <2>1, <2>2 DEF HeldInv
<1>4. \A v \in Workers, a \in Blocks : Knows(v, a)' => Knows(v, a)
      BY DEF Knows, Used
<1>5. \A a \in Blocks : Lodged(a) => Lodged(a)'
      BY DEF Lodged, Live
<1>6. LodgedInv'
      BY <1>4, <1>5, LodgedKept DEF ServiceInv
<1> QED BY <1>1, <1>2, <1>3, <1>6 DEF ServiceInv

LEMMA ServiceWorker ==
  ASSUME TypeInv, ServiceInv, NEW w \in Workers, WorkerStep(w)
  PROVE  ServiceInv'
<1>0. /\ wpc \in [Workers -> WorkerPcs] /\ wreq \in [Workers -> Blocks \cup {Nil}]
      /\ held \in [Workers -> [id : Ids, type : Ops \cup {"zero"}]]
      /\ heap \in [Blocks -> DataRequest \cup {Nil}] /\ dataIrp \in [Clients -> IrpStatus]
      BY DEF TypeInv, TypeOK
<1>1. Zeroed.type \notin Ops
      BY DEF Zeroed, Ops
<1>2. CASE Respond(w) \/ RespondUnmapped(w)
  <2>1. PICK b \in Matching(w), result \in {"success", "error"} :
          /\ RemoveAndFree({b}, held[w].type)
          /\ dataIrp' = [dataIrp EXCEPT ![heap[b].client] = result]
        BY <1>2 DEF Respond, RespondUnmapped
  <2>2. /\ wpc[w] = "answer" /\ held[w].type \in Ops /\ ~QueueDangles(held[w].type)
        /\ AfterResponse(w) \/ Abandon(w)
        /\ UNCHANGED <<RequestQueue, OsrRequestID, issued, cpc, wreq, file>>
        BY <1>2 DEF Respond, RespondUnmapped, Sends, files
  <2>3. b \in Blocks /\ heap[b].id = held[w].id /\ Used(b)
        BY <2>2 DEF Matching, QueueDangles, Used, TypeInv, TypeOK
  <2>4. Knows(w, b)
        BY <2>2, <2>3 DEF Knows
  <2>5. \A a \in Blocks : heap'[a] = IF a = b THEN Nil ELSE heap[a]
        BY <2>1 DEF RemoveAndFree
  <2>6. \A c \in Clients : c # heap[b].client => dataIrp'[c] = dataIrp[c]
        BY <1>0, <2>1
  <2>7. /\ wpc'[w] # "deliver" /\ held'[w].type \notin Ops
        /\ \A v \in Workers : v # w =>
             wpc'[v] = wpc[v] /\ wreq'[v] = wreq[v] /\ held'[v] = held[v]
        BY <1>0, <1>1, <2>2 DEF AfterResponse, Abandon
  <2> QED BY <2>2, <2>3, <2>4, <2>5, <2>6, <2>7, ServiceAnswer
<1>3. CASE DeliverUnmapped(w)
  <2>1. PICK b \in Blocks : b = wreq[w]
        BY <1>3 DEF DeliverUnmapped, TypeInv, PointersSet
  <2>2. /\ wpc[w] = "deliver" /\ Knows(w, b)
        /\ UNCHANGED <<RequestQueue, OsrRequestID, issued, cpc, held, file>>
        BY <1>3, <2>1 DEF DeliverUnmapped, Knows, queues, files
  <2>3. \A a \in Blocks : heap'[a] = IF a = b THEN Nil ELSE heap[a]
        BY <1>0, <1>3, <2>1 DEF DeliverUnmapped
  <2>4. \A c \in Clients : c # heap[b].client => dataIrp'[c] = dataIrp[c]
        BY <1>0, <1>3, <2>1 DEF DeliverUnmapped
  <2>5. held[w].type \notin Ops
        BY <2>2 DEF ServiceInv, HeldInv
  <2>6. /\ wpc'[w] # "deliver" /\ held'[w].type \notin Ops
        /\ \A v \in Workers : v # w =>
             wpc'[v] = wpc[v] /\ wreq'[v] = wreq[v] /\ held'[v] = held[v]
        BY <1>0, <1>3, <2>2, <2>5 DEF DeliverUnmapped
  <2> QED BY <2>2, <2>3, <2>4, <2>6, ServiceAnswer
<1>4. CASE RespondToNobody(w) \/ RespondWithBadType(w) \/ GetRequest(w)
  <2>1. UNCHANGED <<RequestQueue, heap, OsrRequestID, issued, cpc, dataIrp, file>>
        BY <1>4 DEF RespondToNobody, RespondWithBadType, GetRequest, queues, memory, client, files
  <2>2. /\ wpc'[w] # "deliver" /\ held'[w].type \notin Ops
        /\ \A v \in Workers : v # w =>
             wpc'[v] = wpc[v] /\ wreq'[v] = wreq[v] /\ held'[v] = held[v]
        BY <1>0, <1>1, <1>4 DEF RespondToNobody, RespondWithBadType, GetRequest, AfterResponse, Abandon
  <2> QED BY <2>1, <2>2, ServiceIdle
<1>5. CASE \/ WorkerAcquireService(w) \/ WorkerAcquireRequest(w) \/ QueueServiceIrp(w)
           \/ DeliverCopyFails(w)
  <2>1. /\ wpc[w] # "answer"
        /\ UNCHANGED <<RequestQueue, heap, OsrRequestID, issued, cpc, dataIrp, file, held>>
        BY <1>5 DEF WorkerAcquireService, WorkerAcquireRequest, QueueServiceIrp, DeliverCopyFails,
                    queues, memory, client, files
  <2>2. held[w].type \notin Ops
        BY <2>1 DEF ServiceInv, HeldInv
  <2>3. /\ wpc'[w] # "deliver"
        /\ \A v \in Workers : v # w => wpc'[v] = wpc[v] /\ wreq'[v] = wreq[v]
        BY <1>0, <1>5 DEF WorkerAcquireService, WorkerAcquireRequest, QueueServiceIrp,
                          DeliverCopyFails
  <2> QED BY <2>1, <2>2, <2>3, ServiceIdle
<1>6. CASE TakeRequest(w)
  <2>1. /\ wpc[w] = "holdsBoth" /\ RequestQueue # <<>>
        /\ RequestQueue' = Tail(RequestQueue)
        /\ wreq' = [wreq EXCEPT ![w] = Head(RequestQueue)]
        /\ wpc' = [wpc EXCEPT ![w] = "deliver"]
        /\ UNCHANGED <<heap, OsrRequestID, issued, cpc, dataIrp, held, file>>
        BY <1>6 DEF TakeRequest, memory, client, files
  <2>2. RequestQueue \in Seq(Blocks) /\ WaitsOnce(RequestQueue)
        BY DEF TypeInv, TypeOK, ServiceInv, LodgedInv
  <2>3. PICK b \in Blocks : b = Head(RequestQueue)
        BY <2>1, <2>2, TailOnce
  <2>4. /\ WaitsOnce(RequestQueue') /\ Waits(b, RequestQueue)
        /\ \A a \in Blocks : Waits(a, RequestQueue') <=> a # b /\ Waits(a, RequestQueue)
        BY <2>1, <2>2, <2>3, TailOnce
  <2>5. Lodged(b) /\ \A v \in Workers : ~Knows(v, b)
        BY <2>4 DEF ServiceInv, LodgedInv
  <2>6. /\ wpc'[w] = "deliver" /\ wreq'[w] = b
        /\ \A v \in Workers : v # w => wpc'[v] = wpc[v] /\ wreq'[v] = wreq[v]
        BY <1>0, <2>1, <2>3
  <2>7. \A v \in Workers, a \in Blocks : Knows(v, a)' => IF v = w THEN a = b ELSE Knows(v, a)
        BY <2>1, <2>6 DEF Knows, Used
  <2>8. \A a \in Blocks : Lodged(a) => Lodged(a)'
        BY <2>1 DEF Lodged, Live
  <2>9. LodgedInv'
        BY <2>4, <2>5, <2>7, <2>8 DEF ServiceInv, LodgedInv
  <2>10. HandlesOpen' /\ EarlyInv' /\ SerialInv'
        BY <2>1, SerialKept DEF ServiceInv, HandlesOpen, EarlyInv, Used
  <2>11. HeldInv'
        BY <2>1, <2>6 DEF ServiceInv, HeldInv, Serial
  <2> QED BY <2>9, <2>10, <2>11 DEF ServiceInv
<1>7. CASE Deliver(w)
  <2>1. PICK b \in Blocks : b = wreq[w]
        BY <1>7 DEF Deliver, TypeInv, PointersSet
  <2>2. /\ wpc[w] = "deliver" /\ Knows(w, b)
        /\ held' = [held EXCEPT ![w] = [id |-> heap[b].id, type |-> heap[b].op]]
        /\ UNCHANGED <<RequestQueue, heap, OsrRequestID, issued, cpc, dataIrp, file>>
        BY <1>7, <2>1 DEF Deliver, Knows, queues, memory, client, files
  <2>3. /\ wpc'[w] = "answer" /\ held'[w].id = heap[b].id
        /\ \A v \in Workers : v # w => wpc'[v] = wpc[v] /\ wreq'[v] = wreq[v] /\ held'[v] = held[v]
        BY <1>0, <1>7, <2>2 DEF Deliver
  <2>4. Used(b)
        BY <2>2 DEF ServiceInv, LodgedInv, Lodged, Live, Used
  <2>5. ASSUME NEW v \in Workers, NEW a \in Blocks, Knows(v, a)' PROVE Knows(v, a)
    <3>1. CASE v = w
      <4>1. Used(a) /\ heap[a].id = heap[b].id
            BY <2>2, <2>3, <2>5, <3>1 DEF Knows, Used
      <4>2. a = b
            BY <2>4, <4>1 DEF ServiceInv, SerialInv
      <4> QED BY <2>2, <3>1, <4>2
    <3>2. CASE v # w
          BY <2>2, <2>3, <2>5, <3>2 DEF Knows, Used
    <3> QED BY <3>1, <3>2
  <2>6. \A a \in Blocks : Lodged(a) => Lodged(a)'
        BY <2>2 DEF Lodged, Live
  <2>7. LodgedInv'
        BY <2>2, <2>5, <2>6, LodgedKept DEF ServiceInv
  <2>8. HandlesOpen' /\ EarlyInv' /\ SerialInv'
        BY <2>2, SerialKept DEF ServiceInv, HandlesOpen, EarlyInv, Used
  <2>9. HeldInv'
    <3>1. \E k \in 1 .. issued : heap[b].id = Serial(k)
          BY <2>4 DEF ServiceInv, SerialInv
    <3> QED BY <2>2, <2>3, <3>1 DEF ServiceInv, HeldInv, Serial
  <2> QED BY <2>7, <2>8, <2>9 DEF ServiceInv
<1> QED BY <1>2, <1>3, <1>4, <1>5, <1>6, <1>7 DEF WorkerStep

LEMMA ServiceStep ==
  ASSUME OpenHandles, TypeInv, ServiceIrpAccounted, IrpInv, ServiceInv, [Next]_vars
  PROVE  ServiceInv'
<1>1. ASSUME NEW c \in Clients, NEW op \in Ops, NEW b \in Blocks, StartReadWrite(c, op, b)
      PROVE  ServiceInv'
      BY <1>1, ServiceStart
<1>2. ASSUME NEW c \in Clients, ClientStep(c) PROVE ServiceInv'
      BY <1>2, ServiceClient
<1>3. ASSUME NEW w \in Workers, WorkerStep(w) PROVE ServiceInv'
      BY <1>3, ServiceWorker
<1>4. ASSUME UNCHANGED <<queues, memory, client, worker>>, HandlesOpen' PROVE ServiceInv'
  <2>1. UNCHANGED <<RequestQueue, heap, OsrRequestID, issued, cpc, dataIrp, wpc, wreq, held>>
        BY <1>4 DEF queues, memory, client, worker
  <2>2. SerialInv' /\ EarlyInv' /\ HeldInv'
        BY <2>1, SerialKept DEF ServiceInv, EarlyInv, HeldInv, Serial, Used
  <2>3. \A w \in Workers, b \in Blocks : Knows(w, b)' => Knows(w, b)
        BY <2>1 DEF Knows, Used
  <2>4. \A b \in Blocks : Lodged(b) => Lodged(b)'
        BY <2>1 DEF Lodged, Live
  <2>5. LodgedInv'
        BY <2>1, <2>3, <2>4, LodgedKept DEF ServiceInv
  <2> QED BY <1>4, <2>2, <2>5 DEF ServiceInv
<1>5. CASE CreateControl
  <2>1. HandlesOpen'
        BY <1>5, NilAssumption DEF CreateControl, ServiceInv, HandlesOpen, TypeInv, TypeOK, Files
  <2> QED BY <1>4, <1>5, <2>1 DEF CreateControl
<1>6. CASE CloseControl
      BY <1>6 DEF CloseControl, ServiceInv, HandlesOpen
<1>7. ASSUME NEW f \in Files, FileStep(f) PROVE ServiceInv'
      BY <1>7 DEF FileStep, StartCleanup, CancelMisread, CancelDataQueue, OpenHandles,
                  ServiceInv, HandlesOpen, Files, Ops
<1>8. CASE UNCHANGED vars \/ UseAfterFree \/ DoubleCompletion \/ MisreadList
  <2>1. UNCHANGED <<queues, memory, client, worker, files>>
        BY <1>8, BugcheckStep DEF vars
  <2>2. HandlesOpen'
        BY <2>1 DEF ServiceInv, HandlesOpen, files
  <2> QED BY <1>4, <2>1, <2>2
<1> QED BY <1>1, <1>2, <1>3, <1>5, <1>6, <1>7, <1>8 DEF Next, Running, Quiescent

\* Nobody can complete an IRP again: no cleanup runs, a response matches only
\* what the service knows of, and a failing write's own IRP is still pending.
LEMMA ServiceNeverDouble ==
  ASSUME TypeInv, IrpInv, ServiceInv
  PROVE  ~DoubleCompletion
<1>1. ASSUME NEW f \in Files, NEW op \in Ops, file[f] = op PROVE FALSE
      BY <1>1 DEF ServiceInv, HandlesOpen, Files, Ops
<1>2. ASSUME NEW w \in Workers, Sends(w), held[w].type \in Ops, ~QueueDangles(held[w].type),
             NEW b \in Matching(w), Stale(b)
      PROVE  FALSE
  <2>1. b \in Blocks /\ Knows(w, b)
        BY <1>2 DEF Sends, Matching, QueueDangles, Knows, Used, TypeInv, TypeOK
  <2> QED BY <1>2, <2>1 DEF ServiceInv, LodgedInv, Lodged, Live, Stale
<1>3. ASSUME NEW c \in Clients, cpc[c] = "fail", RequestGone(c) PROVE FALSE
  <2>1. Live(creq[c]) /\ dataIrp[c] = "pending"
        BY <1>3, EarlyRequest DEF ServiceInv, EarlyInv
  <2> QED BY <1>3, <2>1 DEF RequestGone, Live
<1> QED BY <1>1, <1>2, <1>3 DEF DoubleCompletion

\* While resources last no write fails, and every request on the heap has its IRP.
NothingFailed ==
  /\ \A c \in Clients : cpc[c] # "fail"
  /\ \A b \in Blocks : Used(b) => heap[b].irp = "pending"

LEMMA NothingFails ==
  ASSUME ~ResourceFaults, TypeInv, NothingFailed, [Next]_vars
  PROVE  NothingFailed'
<1>0. /\ cpc \in [Clients -> ClientPcs]
      /\ heap \in [Blocks -> DataRequest \cup {Nil}]
      BY DEF TypeInv, TypeOK
<1>1. ASSUME NEW c \in Clients, NEW op \in Ops, NEW b \in Blocks, StartReadWrite(c, op, b)
      PROVE  NothingFailed'
      BY <1>0, <1>1 DEF StartReadWrite, NothingFailed, Used
<1>2. ASSUME NEW c \in Clients, ClientStep(c) PROVE NothingFailed'
  <2>1. heap' = heap /\ \A d \in Clients : cpc'[d] # "fail"
        BY <1>0, <1>2 DEF ClientStep, Enqueue, ClientAcquireService, ClientAcquireRequest,
           QueueRequest, HandToService, FailWriteNoMdl, FailWriteNoPte, FailWrite,
           CompleteFailedWrite, Return, memory, NothingFailed
  <2> QED BY <2>1 DEF NothingFailed, Used
<1>3. ASSUME \A b \in Blocks : heap'[b] \in {heap[b], Nil}, UNCHANGED cpc
      PROVE  NothingFailed'
      BY <1>3 DEF NothingFailed, Used
<1>4. ASSUME NEW w \in Workers, WorkerStep(w) PROVE NothingFailed'
  <2>1. \A b \in Blocks : heap'[b] \in {heap[b], Nil}
        BY <1>0, <1>4 DEF WorkerStep, GetRequest, Respond, RespondToNobody, RespondWithBadType,
           RespondUnmapped, WorkerAcquireService, WorkerAcquireRequest, TakeRequest,
           QueueServiceIrp, Deliver, DeliverUnmapped, DeliverCopyFails, RemoveAndFree, memory
  <2>2. UNCHANGED cpc
        BY <1>4 DEF WorkerStep, GetRequest, Respond, RespondToNobody, RespondWithBadType,
           RespondUnmapped, WorkerAcquireService, WorkerAcquireRequest, TakeRequest,
           QueueServiceIrp, Deliver, DeliverUnmapped, DeliverCopyFails, client
  <2> QED BY <1>3, <2>1, <2>2
<1>5. ASSUME NEW f \in Files, FileStep(f) PROVE NothingFailed'
  <2>1. /\ \A b \in Blocks : heap'[b] \in {heap[b], Nil}
        /\ UNCHANGED cpc
        BY <1>0, <1>5 DEF FileStep, StartCleanup, CancelMisread, CancelDataQueue, RemoveAndFree,
           memory, client
  <2> QED BY <1>3, <2>1
<1>6. CASE \/ CreateControl \/ CloseControl \/ UNCHANGED vars
           \/ UseAfterFree \/ DoubleCompletion \/ MisreadList
  <2>1. UNCHANGED <<memory, client>>
        BY <1>6, BugcheckStep DEF CreateControl, CloseControl, vars
  <2> QED BY <1>3, <2>1 DEF memory, client
<1> QED BY <1>1, <1>2, <1>4, <1>5, <1>6 DEF Next, Running, Quiescent

LEMMA FailureNeverDouble ==
  ASSUME TypeInv, NothingFailed
  PROVE  ~DoubleCompletion
BY DEF NothingFailed, DoubleCompletion, Stale, Used, Cancelled, Matching, TypeInv, TypeOK

\* A step that no undefined access ends is IrpStep's.
LEMMA CompletedOnceStep ==
  ASSUME TypeInv, IrpInv, bugcheck # "doubleCompletion", ~DoubleCompletion, [Next]_vars
  PROVE  /\ bugcheck' # "doubleCompletion"
         /\ \A c \in Clients :
              dataIrp'[c] \in {"success", "error", "cancelled"} /\ dataIrp'[c] # dataIrp[c]
                => dataIrp[c] = "pending"
<1>1. IrpStep
      BY IrpEveryStep
<1>2. bugcheck' # "doubleCompletion"
      BY DEF Next, Running, Quiescent, vars, StartReadWrite, CreateControl, CloseControl,
         ClientStep, Enqueue, ClientAcquireService, ClientAcquireRequest,
         QueueRequest, HandToService, FailWriteNoMdl, FailWriteNoPte, FailWrite,
         CompleteFailedWrite, Return, WorkerStep, GetRequest, Respond, RespondToNobody,
         RespondWithBadType, RespondUnmapped, WorkerAcquireService, WorkerAcquireRequest,
         TakeRequest, QueueServiceIrp, Deliver, DeliverUnmapped, DeliverCopyFails, FileStep,
         StartCleanup, CancelMisread, CancelDataQueue, Defined, UseAfterFree, MisreadList, Bugcheck
<1> QED BY <1>1, <1>2 DEF IrpStep

\* No IRP of a client is completed twice (comm.cpp): not by the service thread
\* that answers, the one that cannot map the buffer, the write that fails or the
\* cleanup that cancels.  It takes both kinds of trouble to break this, a write
\* that fails and a handle that is closed (NoDoubleCompletion shows how): the
\* theorem holds when no resource fails, whoever closes what and when, and it
\* holds whatever fails while the handles stay open and no identifier comes twice.
THEOREM CallsCompleteOnce ==
  ASSUME ~ResourceFaults \/ OpenHandles
  PROVE  Spec => CompletedOnce
<1> DEFINE NotYet == bugcheck # "doubleCompletion"
<1>1. TypeInv /\ IrpInv /\ [Next]_vars => IrpInv'
      BY IrpEveryStep DEF IrpStep
<1>2. Init => NotYet
      BY DEF Init
<1>3. CASE ~ResourceFaults
  <2>1. Init => NothingFailed
        BY DEF Init, NothingFailed, Used
  <2>2. TypeInv /\ NothingFailed /\ [Next]_vars => NothingFailed'
        BY <1>3, NothingFails
  <2>3. TypeInv /\ IrpInv /\ NothingFailed /\ NotYet /\ [Next]_vars => NotYet'
        BY FailureNeverDouble, CompletedOnceStep
  <2>4. TypeInv /\ IrpInv /\ NothingFailed /\ NotYet /\ [Next]_vars =>
        [/\ bugcheck' # "doubleCompletion"
         /\ \A c \in Clients :
              dataIrp'[c] \in {"success", "error", "cancelled"} /\ dataIrp'[c] # dataIrp[c]
                => dataIrp[c] = "pending"]_vars
        BY FailureNeverDouble, CompletedOnceStep
  <2> QED BY <1>1, <1>2, <2>1, <2>2, <2>3, <2>4, TypeInvariant, IrpInit, PTL
          DEF Spec, CompletedOnce
<1>4. CASE OpenHandles
  <2>1. TypeInv /\ ServiceIrpAccounted /\ IrpInv /\ ServiceInv /\ [Next]_vars => ServiceInv'
        BY <1>4, ServiceStep
  <2>2. TypeInv /\ IrpInv /\ ServiceInv /\ NotYet /\ [Next]_vars => NotYet'
        BY ServiceNeverDouble, CompletedOnceStep
  <2>3. TypeInv /\ IrpInv /\ ServiceInv /\ NotYet /\ [Next]_vars =>
        [/\ bugcheck' # "doubleCompletion"
         /\ \A c \in Clients :
              dataIrp'[c] \in {"success", "error", "cancelled"} /\ dataIrp'[c] # dataIrp[c]
                => dataIrp[c] = "pending"]_vars
        BY ServiceNeverDouble, CompletedOnceStep
  <2> QED BY <1>1, <1>2, <2>1, <2>2, <2>3, TypeInvariant, ServiceIrpsAreAccounted, IrpInit,
             ServiceInit, PTL DEF Spec, CompletedOnce
<1> QED BY <1>3, <1>4
=============================================================================
