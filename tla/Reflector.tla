----------------------------- MODULE Reflector -----------------------------
(* The reflector service on a driver that is loaded and unloaded: ServiceMain's
   thread, which runs CReflectorService::Run, and the thread the service control
   manager calls Handler on.  They share m_Status and m_bIsRunning without a
   lock.  What the driver does with a control IRP is left open: it pends and is
   completed when a request comes (OsrComm has the details).                  *)
EXTENDS OsrDriver

CONSTANT EarlyStop       \* a stop may come before m_bIsRunning is set

ASSUME StopAssumption == EarlyStop \in BOOLEAN

VARIABLES
  main,          \* where ServiceMain is
  handler,       \* where Handler is
  state,         \* m_Status.dwCurrentState
  reported,      \* what the control manager was last told
  m_bIsRunning,
  connected,     \* m_OsrControlHandle is open
  event,         \* the OVERLAPPED's event is open
  irp            \* the control IRP of Run's OVERLAPPED

statusVars == <<state, reported>>
runVars == <<connected, event, irp>>
reflectorVars == <<driverVars, main, handler, statusVars, m_bIsRunning, runVars>>

InRun == {"loop", "connected", "getting", "sending", "exit"}
States == {"STOPPED", "START_PENDING", "RUNNING", "STOP_PENDING"}

ReflectorType ==
  /\ DriverType
  /\ main \in InRun \cup {"none", "pending", "initialized", "ready", "readyReports",
                          "running", "leaving", "stopped", "left"}
  /\ handler \in {"idle", "stop", "report", "clear", "last"}
  /\ state \in States /\ reported \in States
  /\ m_bIsRunning \in BOOLEAN /\ connected \in BOOLEAN /\ event \in BOOLEAN
  /\ irp \in {"none", "get", "got", "send", "sent"}

ReflectorInit ==
  /\ DriverInit
  /\ main = "none" /\ handler = "idle"
  /\ state = "STOPPED" /\ reported = "STOPPED"
  /\ m_bIsRunning = FALSE /\ connected = FALSE /\ event = FALSE /\ irp = "none"

MainGoes(from, to) == main = from /\ main' = to /\ UNCHANGED <<driverVars, handler>>
-----------------------------------------------------------------------------
(* ServiceMain and Initialize. *)

(* Mutant: the status is never given a state. *)
StartService_NoState ==
  /\ main \in {"none", "left"} /\ handler = "idle" /\ main' = "pending"
  /\ state' = "unset" /\ m_bIsRunning' = FALSE
  /\ connected' = FALSE /\ event' = FALSE /\ irp' = "none"
  /\ UNCHANGED <<driverVars, handler, reported>>

StartService ==
  /\ main \in {"none", "left"} /\ handler = "idle" /\ main' = "pending"
  /\ state' = "START_PENDING" /\ m_bIsRunning' = FALSE
  /\ connected' = FALSE /\ event' = FALSE /\ irp' = "none"
  /\ UNCHANGED <<driverVars, handler, reported>>

Initialize ==
  /\ MainGoes("pending", "initialized") /\ reported' = state
  /\ UNCHANGED <<state, m_bIsRunning, runVars>>

(* The service starts whether or not it can open the control device. *)
OnInit ==
  /\ MainGoes("initialized", "ready")
  /\ connected' = (at = "loaded")
  /\ UNCHANGED <<statusVars, m_bIsRunning, event, irp>>

SetsStatus(from, to, s) ==
  /\ MainGoes(from, to) /\ state' = s
  /\ UNCHANGED <<reported, m_bIsRunning, runVars>>

ReportsStatus(from, to) ==
  /\ MainGoes(from, to) /\ reported' = state
  /\ UNCHANGED <<state, m_bIsRunning, runVars>>

InitializeRuns == SetsStatus("ready", "readyReports", "RUNNING")
                  \/ ReportsStatus("readyReports", "running")

SetsRunning ==
  /\ MainGoes("running", "loop") /\ m_bIsRunning' = TRUE
  /\ UNCHANGED <<statusVars, runVars>>

ServiceStops == SetsStatus("leaving", "stopped", "STOPPED")
                \/ ReportsStatus("stopped", "left")
-----------------------------------------------------------------------------
(* CReflectorService::Run. *)

RunsOn(from, to) == MainGoes(from, to) /\ UNCHANGED <<statusVars, m_bIsRunning>>

RunConnects ==
  /\ RunsOn("loop", "connected") /\ m_bIsRunning
  /\ connected \/ at = "loaded"
  /\ connected' = TRUE /\ UNCHANGED <<event, irp>>

(* Mutant: the event stays open when the driver refuses. *)
GetRequest_KeepsEvent ==
  \/ /\ RunsOn("connected", "getting")
     /\ event' = TRUE /\ irp' = "get" /\ UNCHANGED connected
  \/ RunsOn("connected", "loop") /\ event' = TRUE /\ UNCHANGED <<connected, irp>>

(* The driver takes the IRP or refuses it. *)
GetRequest ==
  \/ /\ RunsOn("connected", "getting")
     /\ event' = TRUE /\ irp' = "get" /\ UNCHANGED connected
  \/ RunsOn("connected", "loop") /\ UNCHANGED runVars

SendResponse ==
  /\ irp = "got"
  /\ \/ /\ RunsOn("getting", "sending") /\ irp' = "send" /\ UNCHANGED event
     \/ /\ RunsOn("getting", "loop") /\ irp' = "none" /\ event' = FALSE
  /\ UNCHANGED connected

ResponseSent ==
  /\ RunsOn("sending", "loop") /\ irp = "sent"
  /\ irp' = "none" /\ event' = FALSE /\ UNCHANGED connected

(* Mutant: a request or a response that pends is waited for without an end. *)
RunEnds_Waits == ~m_bIsRunning /\ UNCHANGED runVars /\ RunsOn("loop", "exit")

(* m_bIsRunning is looked at between two requests and while an IRP pends. *)
RunEnds ==
  /\ ~m_bIsRunning /\ UNCHANGED runVars
  /\ \/ RunsOn("loop", "exit")
     \/ RunsOn("getting", "exit") /\ irp = "get"
     \/ RunsOn("sending", "exit") /\ irp = "send"

ExitStageLeft == RunsOn("exit", "leaving") /\ connected' = FALSE /\ UNCHANGED <<event, irp>>

RequestArrives ==
  /\ irp = "get" /\ connected /\ irp' = "got"
  /\ UNCHANGED <<driverVars, main, handler, statusVars, m_bIsRunning, connected, event>>

ResponseTaken ==
  /\ irp = "send" /\ irp' = "sent"
  /\ UNCHANGED <<driverVars, main, handler, statusVars, m_bIsRunning, connected, event>>
-----------------------------------------------------------------------------
(* Handler. *)

HandlerGoes(from, to) ==
  /\ handler = from /\ handler' = to /\ UNCHANGED <<driverVars, main, runVars>>

(* SERVICE_CONTROL_STOP: the manager sends it to a service that runs. *)
StopControl ==
  /\ reported = "RUNNING"
  /\ EarlyStop \/ m_bIsRunning
  /\ HandlerGoes("idle", "stop") /\ UNCHANGED <<statusVars, m_bIsRunning>>

InterrogateControl ==
  /\ reported # "STOPPED"
  /\ HandlerGoes("idle", "last") /\ UNCHANGED <<statusVars, m_bIsRunning>>

HandlerStops ==
  \/ /\ HandlerGoes("stop", "report") /\ state' = "STOP_PENDING"
     /\ UNCHANGED <<reported, m_bIsRunning>>
  \/ /\ HandlerGoes("report", "clear") /\ reported' = state
     /\ UNCHANGED <<state, m_bIsRunning>>
  \/ /\ HandlerGoes("clear", "last") /\ m_bIsRunning' = FALSE
     /\ UNCHANGED statusVars

(* Every control ends with an update of the status, as it is by then. *)
HandlerUpdates ==
  /\ HandlerGoes("last", "idle") /\ reported' = state
  /\ UNCHANGED <<state, m_bIsRunning>>
-----------------------------------------------------------------------------
ServiceMain == Initialize \/ OnInit \/ InitializeRuns \/ SetsRunning \/ ServiceStops
Run == RunConnects \/ GetRequest \/ SendResponse \/ ResponseSent \/ RunEnds \/ ExitStageLeft
Handler == HandlerStops \/ HandlerUpdates

ServiceUnchanged == UNCHANGED <<main, handler, statusVars, m_bIsRunning, runVars>>

(* A driver is unloaded when nobody has a handle of its devices; a machine that
   has stopped does nothing more.                                            *)
ReflectorNext ==
  /\ at # "bugcheck"
  /\ \/ DriverEntry /\ ServiceUnchanged
     \/ ~connected /\ Unload /\ ServiceUnchanged
     \/ StartService \/ ServiceMain \/ Run \/ RequestArrives \/ ResponseTaken
     \/ StopControl \/ InterrogateControl \/ Handler

(* Both threads of the service run on and the driver takes a response.  Nobody
   has to start or stop the service, to load the driver or to send a request. *)
ReflectorFairness ==
  /\ WF_reflectorVars(at # "bugcheck" /\ ServiceMain) /\ WF_reflectorVars(at # "bugcheck" /\ Run)
  /\ WF_reflectorVars(at # "bugcheck" /\ Handler)
  /\ WF_reflectorVars(at # "bugcheck" /\ ResponseTaken)

ReflectorSpec == ReflectorInit /\ [][ReflectorNext]_reflectorVars /\ ReflectorFairness
-----------------------------------------------------------------------------
(* Between two requests Run holds neither an event nor an IRP, whichever of the
   calls of the last turn failed: an event kept is one more for each turn.     *)
LoopHoldsNothing == main = "loop" => ~event /\ irp = "none"

(* A service that has stopped holds no handle of the control device, so that the
   driver can be unloaded and the device, which is exclusive, opened again.    *)
StoppedServiceLetsGo == main = "left" => ~connected

(* A stop that the service has acknowledged ends. *)
StopEnds == reported = "STOP_PENDING" ~> reported = "STOPPED" \/ at = "bugcheck"

(* Run does not return while the driver has the IRP that its OVERLAPPED and its
   buffer, both on Run's stack, are for.                                      *)
FrameOutlivesItsIrp == irp \in {"get", "send"} => main \in InRun
=============================================================================
