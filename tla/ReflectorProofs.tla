-------------------------- MODULE ReflectorProofs --------------------------
(***************************************************************************)
(* Theorems about Reflector, whichever steps of the load may fail and        *)
(* whenever a stop comes.  The driver and the service share no variable, so  *)
(* each has an invariant of its own.                                         *)
(***************************************************************************)
EXTENDS Reflector, TLAPS

-----------------------------------------------------------------------------
(* The driver: DriverEntry and Unload between them free whatever is live, for *)
(* a live block is one the extensions point to or one of the two names that  *)
(* DriverEntry keeps in its own frame, and the first steps know which.       *)

Live == {b \in Blocks : block[b] = "live"}

HeldWhere ==
  /\ Live \subseteq extension \cup {"driverName", "deviceName"}
  /\ at \in {"unloaded", "driverName"} => Live = {}
  /\ at = "deviceName" => Live \subseteq {"driverName"}
  /\ at = "registryPath" => extension = {"driverName"}
  /\ at = "loaded" => Live \subseteq extension
  /\ at \in {"unloaded", "driverName", "deviceName", "controlDevice"}
       => extension = {} /\ objects = {}

DriverInv == DriverType /\ HeldWhere

LEMMA DriverStarts == DriverInit => DriverInv
BY DEF DriverInit, DriverInv, DriverType, HeldWhere, Live, Blocks, Objects, LoadSteps

\* What frees every live block leaves the driver unloaded with nothing, or stops
\* the machine.
LEMMA FreesAllKeeps ==
  ASSUME DriverInv, NEW bs, NEW twice \in BOOLEAN, Live \subseteq bs, FreesAll(bs, twice)
  PROVE  DriverInv'
<1>1. block' \in [Blocks -> {"none", "live", "freed"}] /\ Live' = {}
      BY DEF FreesAll, DriverInv, DriverType, Live
<1>2. freedTwice' \in BOOLEAN
  <2>1. CASE twice
        BY <2>1, Zenon DEF FreesAll
  <2>2. CASE ~twice
        BY <2>2, Zenon DEF FreesAll, DriverInv, DriverType
  <2> QED BY <2>1, <2>2
<1>3. extension' = {} /\ objects' = {} /\ at' \in {"unloaded", "bugcheck"}
      BY DEF FreesAll
<1> QED BY <1>1, <1>2, <1>3 DEF DriverInv, DriverType, HeldWhere, LoadSteps, Objects

LEMMA UnloadsKeeps ==
  ASSUME DriverInv, NEW bs, Live \subseteq bs \cup extension, Unloads(bs)
  PROVE  DriverInv'
<1> DEFINE twice == \/ bs \cap extension # {}
                    \/ \E b \in bs \cup extension : block[b] # "live"
<1>1. twice \in BOOLEAN
      BY Zenon
<1>2. FreesAll(bs \cup extension, twice)
      BY DEF Unloads
<1> HIDE DEF twice
<1> QED BY <1>1, <1>2, FreesAllKeeps

LEMMA MadeOne ==
  ASSUME DriverInv, NEW b \in Blocks, Made(b)
  PROVE  /\ block' \in [Blocks -> {"none", "live", "freed"}]
         /\ Live' = Live \cup {b}
         /\ UNCHANGED <<objects, freedTwice>>
BY DEF Made, DriverInv, DriverType, Live

\* The later steps that allocate: only the first part of HeldWhere is about them.
LEMMA MadeKeeps ==
  ASSUME DriverInv, NEW b \in Blocks, Made(b),
         at' \in {"controlLinkName", "controlLink", "dataDevice", "dataLink"},
         extension' = extension \cup {b} \/ (b = "deviceName" /\ UNCHANGED extension)
  PROVE  DriverInv'
<1>1. /\ block' \in [Blocks -> {"none", "live", "freed"}]
      /\ Live' = Live \cup {b}
      /\ UNCHANGED <<objects, freedTwice>>
      BY MadeOne
<1>2. extension' \subseteq Blocks /\ extension \subseteq extension' /\ Live \subseteq extension \cup {"driverName", "deviceName"}
      BY DEF DriverInv, DriverType, HeldWhere
<1>3. b \in extension' \cup {"driverName", "deviceName"}
      OBVIOUS
<1>4. Live' \subseteq extension' \cup {"driverName", "deviceName"}
      BY <1>1, <1>2, <1>3
<1>5. at' \in LoadSteps
      BY DEF LoadSteps, Blocks, Objects
<1>6. DriverType'
      BY <1>1, <1>2, <1>5 DEF DriverInv, DriverType
<1>7. HeldWhere'
      BY <1>4 DEF HeldWhere
<1> QED BY <1>6, <1>7 DEF DriverInv

LEMMA DriverNext ==
  ASSUME DriverInv, DriverEntry \/ Unload
  PROVE  DriverInv'
<1> USE DEF DriverInv
<1>1. CASE LoadDriver
      BY <1>1 DEF LoadDriver, DriverType, HeldWhere, Live, LoadSteps, Blocks, Objects
<1>2. CASE DriverName
  <2>1. CASE Made("driverName") /\ at' = "deviceName" /\ UNCHANGED extension
        BY <1>2, <2>1, MadeOne DEF DriverName, DriverType, HeldWhere, LoadSteps, Blocks
  <2>2. CASE Abandons({})
        BY <1>2, <2>2, FreesAllKeeps DEF DriverName, Abandons, HeldWhere
  <2> QED BY <1>2, <2>1, <2>2 DEF DriverName
<1>3. CASE DeviceName
  <2>1. CASE Made("deviceName") /\ at' = "controlDevice" /\ UNCHANGED extension
        BY <1>3, <2>1, MadeOne DEF DeviceName, DriverType, HeldWhere, LoadSteps, Blocks, Objects
  <2>2. CASE Abandons({"driverName"})
        BY <1>3, <2>2, FreesAllKeeps DEF DeviceName, Abandons, HeldWhere
  <2> QED BY <1>3, <2>1, <2>2 DEF DeviceName
<1>4. CASE ControlDevice
  <2>1. CASE UNCHANGED <<block, freedTwice>>
        BY <1>4, <2>1 DEF ControlDevice, Abandons, FreesAll, DriverType, HeldWhere, Live, LoadSteps, Blocks,
                          Objects
  <2>2. CASE Abandons({"deviceName", "driverName"})
        BY <1>4, <2>2, FreesAllKeeps DEF ControlDevice, Abandons, HeldWhere
  <2> QED BY <1>4, <2>1, <2>2 DEF ControlDevice
<1>5. CASE RegistryPath
  <2>1. CASE /\ Made("registryPath") /\ at' = "controlLinkName"
             /\ extension' = extension \cup {"registryPath"}
        BY <2>1, MadeKeeps DEF Blocks
  <2>2. CASE Abandons({"driverName", "deviceName"})
        BY <1>5, <2>2, FreesAllKeeps DEF RegistryPath, Abandons, HeldWhere
  <2> QED BY <1>5, <2>1, <2>2 DEF RegistryPath
<1>6. CASE ControlLinkName
  <2>1. CASE /\ Made("controlLinkName") /\ at' = "controlLink"
             /\ extension' = extension \cup {"controlLinkName"}
        BY <2>1, MadeKeeps DEF Blocks
  <2>2. CASE at' = "bugcheck"
        BY <1>6, <2>2
        DEF ControlLinkName, DriverType, HeldWhere, Live, LoadSteps, Blocks, Objects
  <2> QED BY <1>6, <2>1, <2>2 DEF ControlLinkName
<1>7. CASE ControlLink
  <2>1. CASE FreesAll({"deviceName", "driverName"} \cup extension, TRUE)
        BY <1>7, <2>1, FreesAllKeeps DEF ControlLink, HeldWhere
  <2>2. CASE /\ at' = "dataDeviceName" /\ objects' = objects \cup {"controlLink"}
             /\ block' = [block EXCEPT !["deviceName"] = "freed"]
             /\ UNCHANGED <<extension, freedTwice>>
        BY <1>7, <2>2 DEF ControlLink, DriverType, HeldWhere, Live, LoadSteps, Blocks, Objects
  <2> QED BY <1>7, <2>1, <2>2 DEF ControlLink
<1>8. CASE DataDeviceName
  <2>1. CASE Made("deviceName") /\ at' = "dataDevice" /\ UNCHANGED extension
        BY <2>1, MadeKeeps DEF Blocks
  <2>2. CASE Unloads({"deviceName", "driverName"})
        BY <1>8, <2>2, UnloadsKeeps DEF DataDeviceName, HeldWhere
  <2> QED BY <1>8, <2>1, <2>2 DEF DataDeviceName
<1>9. CASE DataDevice
  <2>1. CASE UNCHANGED <<block, extension, freedTwice>> /\ at' = "dataLinkName"
             /\ objects' = objects \cup {"dataDevice"}
        BY <1>9, <2>1 DEF DataDevice, DriverType, HeldWhere, Live, LoadSteps, Blocks, Objects
  <2>2. CASE Unloads({"deviceName", "driverName"})
        BY <1>9, <2>2, UnloadsKeeps DEF DataDevice, HeldWhere
  <2> QED BY <1>9, <2>1, <2>2 DEF DataDevice
<1>10. CASE DataLinkName
  <2>1. CASE /\ Made("dataLinkName") /\ at' = "dataLink"
             /\ extension' = extension \cup {"dataLinkName"}
        BY <2>1, MadeKeeps DEF Blocks
  <2>2. CASE Unloads({"deviceName", "driverName"})
        BY <1>10, <2>2, UnloadsKeeps DEF DataLinkName, HeldWhere
  <2> QED BY <1>10, <2>1, <2>2 DEF DataLinkName
<1>11. CASE DataLink
  <2>1. CASE /\ at' = "loaded" /\ objects' = objects \cup {"dataLink"}
             /\ block' = [block EXCEPT !["deviceName"] = "freed", !["driverName"] = "freed"]
             /\ UNCHANGED <<extension, freedTwice>>
        BY <1>11, <2>1 DEF DataLink, DriverType, HeldWhere, Live, LoadSteps, Blocks, Objects
  <2>2. CASE Unloads({"deviceName", "driverName"})
        BY <1>11, <2>2, UnloadsKeeps DEF DataLink, HeldWhere
  <2> QED BY <1>11, <2>1, <2>2 DEF DataLink
<1>12. CASE Unload
       BY <1>12, UnloadsKeeps DEF Unload, HeldWhere
<1> QED BY <1>1, <1>2, <1>3, <1>4, <1>5, <1>6, <1>7, <1>8, <1>9, <1>10, <1>11, <1>12
        DEF DriverEntry

-----------------------------------------------------------------------------
(* The service: what Run holds where ServiceMain is.                          *)

ServiceType ==
  /\ main \in InRun \cup {"none", "pending", "initialized", "ready", "readyReports",
                          "running", "leaving", "stopped", "left"}
  /\ handler \in {"idle", "stop", "report", "clear", "last"}
  /\ state \in States /\ reported \in States
  /\ m_bIsRunning \in BOOLEAN /\ connected \in BOOLEAN /\ event \in BOOLEAN
  /\ irp \in {"none", "get", "got", "send", "sent"}

NoCallYet == {"none", "pending", "initialized", "ready", "readyReports", "running",
              "loop", "connected"}

HoldsWhere ==
  /\ main \in NoCallYet => ~event /\ irp = "none"
  /\ main \in {"leaving", "stopped", "left"} => ~connected

ServiceInv == ServiceType /\ HoldsWhere

serviceVars == <<main, handler, statusVars, m_bIsRunning, runVars>>

LEMMA ServiceStarts == ReflectorInit => ServiceInv
<1> SUFFICES ASSUME ReflectorInit PROVE ServiceInv
    OBVIOUS
<1>1. {m_bIsRunning, connected, event} \subseteq BOOLEAN
      BY Zenon DEF ReflectorInit
<1> QED BY <1>1 DEF ReflectorInit, ServiceInv, ServiceType, HoldsWhere, States, NoCallYet

LEMMA ServiceKept ==
  ASSUME ServiceInv, UNCHANGED serviceVars
  PROVE  ServiceInv'
BY DEF ServiceInv, ServiceType, HoldsWhere, serviceVars, statusVars, runVars

LEMMA ServiceMainKeeps ==
  ASSUME ServiceInv, StartService \/ ServiceMain
  PROVE  ServiceInv'
<1> USE DEF ServiceInv, ServiceType, HoldsWhere, NoCallYet, States, InRun
<1>1. CASE StartService
  <2>1. {m_bIsRunning', connected', event'} \subseteq BOOLEAN
        BY <1>1, Zenon DEF StartService
  <2> QED BY <1>1, <2>1 DEF StartService
<1>2. CASE Initialize \/ InitializeRuns \/ ServiceStops
      BY <1>2 DEF Initialize, InitializeRuns, ServiceStops, SetsStatus, ReportsStatus,
                  MainGoes, runVars
<1>3. CASE OnInit
  <2>1. connected' \in BOOLEAN
        BY <1>3, Zenon DEF OnInit
  <2> QED BY <1>3, <2>1 DEF OnInit, MainGoes, statusVars
<1>4. CASE SetsRunning
      BY <1>4 DEF SetsRunning, MainGoes, statusVars, runVars
<1> QED BY <1>1, <1>2, <1>3, <1>4 DEF ServiceMain

LEMMA RunKeeps ==
  ASSUME ServiceInv, Run \/ RequestArrives \/ ResponseTaken
  PROVE  ServiceInv'
<1> USE DEF ServiceInv, ServiceType, HoldsWhere, NoCallYet, InRun, RunsOn, MainGoes,
            statusVars, runVars
<1>1. CASE RunConnects
      BY <1>1 DEF RunConnects
<1>2. CASE GetRequest
  <2>1. CASE RunsOn("connected", "getting") /\ event' = TRUE /\ irp' = "get" /\ UNCHANGED connected
    <3>1. event' \in BOOLEAN
          BY <2>1, Zenon
    <3> QED BY <2>1, <3>1
  <2>2. CASE RunsOn("connected", "loop") /\ UNCHANGED runVars
        BY <2>2
  <2> QED BY <1>2, <2>1, <2>2 DEF GetRequest
<1>3. CASE SendResponse \/ ResponseSent
      BY <1>3 DEF SendResponse, ResponseSent
<1>4. CASE RunEnds
      BY <1>4 DEF RunEnds
<1>5. CASE ExitStageLeft
      BY <1>5 DEF ExitStageLeft
<1>6. CASE RequestArrives \/ ResponseTaken
      BY <1>6 DEF RequestArrives, ResponseTaken
<1> QED BY <1>1, <1>2, <1>3, <1>4, <1>5, <1>6 DEF Run

LEMMA HandlerKeeps ==
  ASSUME ServiceInv, StopControl \/ InterrogateControl \/ Handler
  PROVE  ServiceInv'
<1>1. UNCHANGED <<main, runVars>>
      BY DEF StopControl, InterrogateControl, Handler, HandlerStops, HandlerUpdates, HandlerGoes
<1>2. handler' \in {"idle", "stop", "report", "clear", "last"}
      BY DEF StopControl, InterrogateControl, Handler, HandlerStops, HandlerUpdates, HandlerGoes
<1>3. state' \in {"STOP_PENDING", state} /\ reported' \in {state, reported}
      BY DEF StopControl, InterrogateControl, Handler, HandlerStops, HandlerUpdates,
             HandlerGoes, statusVars
<1>4. m_bIsRunning' \in BOOLEAN
  <2>1. m_bIsRunning' = FALSE \/ m_bIsRunning' = m_bIsRunning
        BY Zenon DEF StopControl, InterrogateControl, Handler, HandlerStops, HandlerUpdates
  <2> QED BY <2>1 DEF ServiceInv, ServiceType
<1> QED BY <1>1, <1>2, <1>3, <1>4
        DEF ServiceInv, ServiceType, HoldsWhere, States, runVars

-----------------------------------------------------------------------------
LEMMA InvHolds == ReflectorSpec => [](DriverInv /\ ServiceInv)
<1>1. ReflectorInit => DriverInv /\ ServiceInv
      BY DriverStarts, ServiceStarts DEF ReflectorInit
<1>2. DriverInv /\ ServiceInv /\ [ReflectorNext]_reflectorVars => (DriverInv /\ ServiceInv)'
  <2> SUFFICES ASSUME DriverInv, ServiceInv, [ReflectorNext]_reflectorVars
               PROVE  DriverInv' /\ ServiceInv'
      OBVIOUS
  <2>1. CASE (DriverEntry \/ Unload) /\ ServiceUnchanged
        BY <2>1, DriverNext, ServiceKept DEF ServiceUnchanged, serviceVars
  <2>2. ASSUME UNCHANGED driverVars PROVE DriverInv'
        BY <2>2 DEF driverVars, DriverInv, DriverType, HeldWhere, Live
  <2>3. CASE UNCHANGED reflectorVars
        BY <2>2, <2>3, ServiceKept DEF reflectorVars, serviceVars
  <2>4. CASE StartService \/ ServiceMain
        BY <2>2, <2>4, ServiceMainKeeps
        DEF StartService, ServiceMain, Initialize, OnInit, InitializeRuns, ServiceStops,
            SetsStatus, ReportsStatus, SetsRunning, MainGoes
  <2>5. CASE Run \/ RequestArrives \/ ResponseTaken
        BY <2>2, <2>5, RunKeeps
        DEF Run, RunConnects, GetRequest, SendResponse, ResponseSent, RunEnds,
            ExitStageLeft, RequestArrives, ResponseTaken, RunsOn, MainGoes
  <2>6. CASE StopControl \/ InterrogateControl \/ Handler
        BY <2>2, <2>6, HandlerKeeps
        DEF StopControl, InterrogateControl, Handler, HandlerStops, HandlerUpdates, HandlerGoes
  <2> QED BY <2>1, <2>3, <2>4, <2>5, <2>6 DEF ReflectorNext
<1> QED BY <1>1, <1>2, PTL DEF ReflectorSpec

\* Every variable of the driver's load and of the service keeps its type.
THEOREM TypesHold == ReflectorSpec => []ReflectorType
BY InvHolds, PTL DEF DriverInv, ServiceInv, ServiceType, ReflectorType

\* DriverEntry and Unload of comm.cpp: a driver that is not loaded has left no
\* device, no link and no block of memory, whichever step failed.
THEOREM NothingIsLeft == ReflectorSpec => []UnloadedLeavesNothing
<1>1. DriverInv => UnloadedLeavesNothing
      BY DEF DriverInv, HeldWhere, Live, UnloadedLeavesNothing
<1> QED BY <1>1, InvHolds, PTL

\* CReflectorService::Run begins each turn with neither an event nor an IRP.
THEOREM TurnsHoldNothing == ReflectorSpec => []LoopHoldsNothing
<1>1. ServiceInv => LoopHoldsNothing
      BY DEF ServiceInv, HoldsWhere, NoCallYet, LoopHoldsNothing
<1> QED BY <1>1, InvHolds, PTL

\* A service that has stopped has closed the exclusive control device.
THEOREM StoppedLetsGo == ReflectorSpec => []StoppedServiceLetsGo
<1>1. ServiceInv => StoppedServiceLetsGo
      BY DEF ServiceInv, HoldsWhere, StoppedServiceLetsGo
<1> QED BY <1>1, InvHolds, PTL
=============================================================================
