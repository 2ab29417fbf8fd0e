------------------------------ MODULE Wdf1394 ------------------------------
(* The 1394 test application (src/05/1394_kmdf/vdev_hybrid/exe), windows of  *)
(* it and other programs, on the device stack of the UMDF filter and the     *)
(* KMDF driver. A window has one thread: a menu command shows its dialog,    *)
(* where the user gives any values or cancels, and sends one request with    *)
(* SendRequest, which waits for it.                                          *)
EXTENDS VdevUmdf

CONSTANTS
  Windows,   \* windows of the application
  Programs,  \* other programs on the interface, whose buffers fit
  ClientOps, \* the operations the other programs ask for
  MaxListed  \* bound on the device list's count

ASSUME AppsAreClients == Apps = Windows \cup Programs /\ Windows \cap Programs = {}
ASSUME ClientOpsAreOps == ClientOps \subseteq Ops
ASSUME ListBounded == MaxListed \in Nat

VARIABLES
  gHandle,    \* g_hTestDevice: the window holds the device open
  numDevices, \* DeviceData.numDevices
  selected    \* SelectedDevice: "none", "device" or "blank"

exeVars == <<gHandle, numDevices, selected>>
hybridVars == <<kmdfVars, umdfVars, exeVars>>

ExeType ==
  /\ gHandle \in [Windows -> BOOLEAN]
  /\ numDevices \in [Windows -> 0..MaxListed]
  /\ selected \in [Windows -> {"none", "device", "blank"}]

HybridType == KmdfType /\ UmdfType /\ ExeType

HybridInit ==
  /\ KmdfInit /\ UmdfInit
  /\ gHandle = [w \in Windows |-> FALSE]
  /\ numDevices = [w \in Windows |-> 0]
  /\ selected = [w \in Windows |-> "none"]

-----------------------------------------------------------------------------
(* wdf1394.c and util.c                                                      *)

FillDeviceList_Twice(w) ==
  numDevices' = [numDevices EXCEPT ![w] = IF pnp = "running" THEN @ + 2 ELSE @]

(* FillDeviceList finds the device's interface, writes it to entry 0 and     *)
(* counts it once more, whether it was listed before or not.                 *)
FillDeviceList(w) ==
  numDevices' = [numDevices EXCEPT ![w] = IF pnp = "running" THEN @ + 1 ELSE @]

(* CreateFile on the selected name succeeds for a device that runs.          *)
OpenDevice(w, name) == name = "device" /\ pnp = "running"

(* The list box offers numDevices names, all but the first of them blank. OK *)
(* closes the handle and opens the choice; a failed open leaves none.        *)
SelectVirtualTestDevice(w) ==
  \/ UNCHANGED <<selected, gHandle>>
  \/ \E name \in {selected[w]} \cup (IF numDevices'[w] > 0 THEN {"device"} ELSE {})
                 \cup (IF numDevices'[w] > 1 THEN {"blank"} ELSE {}) :
       /\ selected' = [selected EXCEPT ![w] = name]
       /\ gHandle' = [gHandle EXCEPT ![w] = OpenDevice(w, name)]

(* IDM_SELECT_VIRTUAL_TEST_DEVICE.                                           *)
SelectsDevice(w) ==
  /\ at[w] = "app" /\ numDevices[w] < MaxListed
  /\ FillDeviceList(w)
  /\ IF numDevices'[w] > 0 THEN SelectVirtualTestDevice(w) ELSE UNCHANGED <<selected, gHandle>>
  /\ UNCHANGED <<kmdfVars, umdfVars>>

(* SendRequest on a handle that is not open, or to a device that does not    *)
(* run, fails at once.                                                       *)
SendRequest(w, op, size) ==
  /\ at[w] = "app" /\ irb[w] = "none" /\ gHandle[w] /\ pnp = "running"
  /\ Asks(w, op, size)
  /\ Moves(w, "filter")
  /\ UNCHANGED <<st, sent, records, counting, device, bus, umdfVars, exeVars>>

Sends(w, op) == SendRequest(w, op, "fits")

(* DeviceIoControl cannot read an input buffer that is a handle's value.     *)
NothingSent(w) == at[w] = "app" /\ gHandle[w] /\ UNCHANGED hybridVars

-----------------------------------------------------------------------------
(* async.c                                                                   *)
w1394_AllocateAddressRange(w) == Sends(w, "AllocateAddressRange")
w1394_FreeAddressRange(w) == Sends(w, "FreeAddressRange")
w1394_AsyncRead(w) == \E size \in {"fits", "zero"} : SendRequest(w, "AsyncRead", size)
w1394_AsyncWrite(w) == \E size \in {"fits", "zero"} : SendRequest(w, "AsyncWrite", size)
(* Without an output buffer: the filter refuses it.                          *)
w1394_AsyncLock(w) == SendRequest(w, "AsyncLock", "short")
w1394_AsyncStream(w) == \E size \in {"fits", "zero"} : SendRequest(w, "AsyncStream", size)

-----------------------------------------------------------------------------
(* isoch.c                                                                   *)
w1394_IsochAllocateBandwidth(w) == Sends(w, "IsochAllocateBandwidth")
w1394_IsochAllocateChannel(w) == Sends(w, "IsochAllocateChannel")
w1394_IsochAllocateResources(w) == Sends(w, "IsochAllocateResources")
w1394_IsochAttachBuffers(w) == Sends(w, "IsochAttachBuffers")
w1394_IsochDetachBuffers(w) == Sends(w, "IsochDetachBuffers")
(* These two pass the handle where its address belongs.                      *)
w1394_IsochFreeBandwidth(w) == NothingSent(w)
w1394_IsochFreeResources(w) == NothingSent(w)
w1394_IsochFreeChannel(w) == Sends(w, "IsochFreeChannel")
w1394_IsochListen(w) == Sends(w, "IsochListen")
(* Without an output buffer: the filter refuses it.                          *)
w1394_IsochQueryCurrentCycleTime(w) == SendRequest(w, "IsochQueryCurrentCycleTime", "short")
w1394_IsochQueryResources(w) == Sends(w, "IsochQueryResources")
w1394_IsochSetChannelBandwidth(w) == Sends(w, "IsochSetChannelBandwidth")
w1394_IsochStop(w) == Sends(w, "IsochStop")
w1394_IsochTalk(w) == Sends(w, "IsochTalk")

-----------------------------------------------------------------------------
(* 1394.c                                                                    *)
w1394_BusReset(w) == Sends(w, "BusReset")
(* Without an input buffer: the KMDF driver refuses it.                      *)
w1394_GetGenerationCount(w) == SendRequest(w, "GetGenerationCount", "empty")
(* Levels 1 to 7, of which the filter refuses 5 and 6.                       *)
w1394_GetLocalHostInfo(w) ==
  \E size \in {"fits", "short"} : SendRequest(w, "GetLocalHostInformation", size)
w1394_Get1394AddressFromDeviceObject(w) == Sends(w, "Get1394AddressFromDeviceObject")
w1394_Control(w) == SendRequest(w, "Control", "empty")
w1394_GetMaxSpeedBetweenDevices(w) == Sends(w, "GetMaxSpeedBetweenDevices")
w1394_GetConfigurationInfo(w) == SendRequest(w, "GetConfigurationInformation", "empty")
w1394_SetDeviceXmitProperties(w) == Sends(w, "SetDeviceXmitProperties")
w1394_SendPhyConfigPacket(w) == Sends(w, "SendPhyConfigurationPacket")
(* The user may take away the reset routine that the driver registered.      *)
w1394_BusResetNotification(w) ==
  \/ Sends(w, "RegisterNotification")
  \/ Sends(w, "DeregisterNotification")
w1394_SetLocalHostInfo(w) ==
  \/ Sends(w, "SetGapCount")
  \/ Sends(w, "AddCrom")
  \/ Sends(w, "RemoveCrom")

-----------------------------------------------------------------------------
(* w1394_AppWndProc: the menu.                                               *)
AsyncMenu(w) ==
  \/ w1394_AllocateAddressRange(w) \/ w1394_FreeAddressRange(w)
  \/ w1394_AsyncRead(w) \/ w1394_AsyncWrite(w)
  \/ w1394_AsyncLock(w) \/ w1394_AsyncStream(w)

IsochMenu(w) ==
  \/ w1394_IsochAllocateBandwidth(w) \/ w1394_IsochFreeBandwidth(w)
  \/ w1394_IsochAllocateChannel(w) \/ w1394_IsochFreeChannel(w)
  \/ w1394_IsochAllocateResources(w) \/ w1394_IsochFreeResources(w)
  \/ w1394_IsochAttachBuffers(w) \/ w1394_IsochDetachBuffers(w)
  \/ w1394_IsochListen(w) \/ w1394_IsochTalk(w) \/ w1394_IsochStop(w)
  \/ w1394_IsochQueryCurrentCycleTime(w) \/ w1394_IsochQueryResources(w)
  \/ w1394_IsochSetChannelBandwidth(w)

ApiMenu(w) ==
  \/ w1394_BusReset(w) \/ w1394_GetGenerationCount(w) \/ w1394_GetLocalHostInfo(w)
  \/ w1394_Get1394AddressFromDeviceObject(w) \/ w1394_Control(w)
  \/ w1394_GetMaxSpeedBetweenDevices(w) \/ w1394_GetConfigurationInfo(w)
  \/ w1394_SetDeviceXmitProperties(w) \/ w1394_SendPhyConfigPacket(w)
  \/ w1394_BusResetNotification(w) \/ w1394_SetLocalHostInfo(w)

w1394_AppWndProc(w) == SelectsDevice(w) \/ AsyncMenu(w) \/ IsochMenu(w) \/ ApiMenu(w)

(* Another program, with the device open.                                    *)
ProgramAsks(p) ==
  /\ at[p] = "app" /\ irb[p] = "none" /\ pnp = "running"
  /\ \E op \in ClientOps : Asks(p, op, "fits")
  /\ Moves(p, "filter")
  /\ UNCHANGED <<st, sent, records, counting, device, bus, umdfVars, exeVars>>

(* A call to a device that does not run, or without a handle.                *)
CallFails == \E a \in Apps : at[a] = "app" /\ UNCHANGED hybridVars

-----------------------------------------------------------------------------
Driver(a) == (Kernel(a) \/ Filters(a)) /\ UNCHANGED exeVars
Framework ==
  (KernelStarts \/ KernelStops \/ OnDeviceAdd \/ Configure \/ PurgeSequential)
  /\ UNCHANGED exeVars
Presents == SequentialPresents /\ UNCHANGED exeVars
WorkItems == BusResetRoutineWorkItem /\ UNCHANGED <<umdfVars, exeVars>>
ResetRoutine == BusResetRoutine /\ UNCHANGED <<umdfVars, exeVars>>
Around ==
  /\ BusResetRoutineWorkItem \/ BusResetRoutine \/ BusResets \/ RemoveDevice
  /\ UNCHANGED <<umdfVars, exeVars>>

HybridNext ==
  \/ \E a \in Apps : Driver(a)
  \/ \E w \in Windows : w1394_AppWndProc(w)
  \/ \E p \in Programs : ProgramAsks(p)
  \/ Framework \/ Presents \/ Around \/ CallFails

HybridFairness ==
  /\ \A a \in Apps : WF_hybridVars(Driver(a))
  /\ WF_hybridVars(Presents) /\ WF_hybridVars(ResetRoutine)
  /\ WF_hybridVars(WorkItems \/ Framework)

HybridSpec == HybridInit /\ [][HybridNext]_hybridVars /\ HybridFairness

-----------------------------------------------------------------------------
(* Properties.                                                               *)

(* Each isochronous record is of a resource the bus still has, and of none   *)
(* that a request is being granted or has just freed. Record and resource    *)
(* change in two steps with no lock over both, so this rests on the filter's *)
(* sequential queue.                                                         *)
IsochRecordsAreLive ==
  LET granted == {call[a].h : a \in {x \in InFlight({"IsochAllocateResources"}) :
                                       irb[x] = "granted"}}
      freeing == {call[a].h : a \in {x \in InFlight({"IsochFreeResources"}) :
                                       irb[x] # "granted"}}
  IN isochData \subseteq bus.isoch /\ isochData \cap (granted \cup freeing) = {}

(* The same for the configuration ROM, whose removal frees the record's      *)
(* memory: a second removal of the handle would find no record and stop the  *)
(* system.                                                                   *)
CromMatchesTheBus ==
  LET granted == {[h |-> call[a].h, buf |-> block[a]] :
                    a \in {x \in InFlight({"AddCrom"}) : irb[x] = "granted"}}
      removed == UNION {WithHandle(cromData, call[a].h) :
                    a \in {x \in InFlight({"RemoveCrom"}) : irb[x] = "granted"}}
  IN Up => /\ bus.crom = (cromData \cup granted) \ removed
           /\ ~halted

(* The list box offers the devices there are: the source has one driver and  *)
(* finds one interface.                                                      *)
ListedDevicesExist == \A w \in Windows : numDevices[w] <= 1

(* A removal ends, whatever the window did.                                  *)
RemovalCompletes == (pnp = "stopping") ~> (pnp = "gone")
=============================================================================
