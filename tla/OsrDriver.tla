----------------------------- MODULE OsrDriver -----------------------------
(* DriverEntry and Unload of the inverted-call driver (comm.cpp): pool blocks
   for names, a control and a data device and a symbolic link to each, made one
   after the other.  A step that fails frees what DriverEntry still holds and,
   once the control device exists, calls Unload, which frees what the device
   extensions point to.  Memory that is freed a second time is undefined
   behaviour: the machine stops, or nothing is noticed.                        *)
EXTENDS TLC

CONSTANT LoadFaults      \* "memory": an allocation fails; "names": a device
                         \* or a link cannot be created

ASSUME LoadAssumption == LoadFaults \subseteq {"memory", "names"}

VARIABLES
  at,            \* the step DriverEntry is at, or what became of the driver
  block,         \* the pool blocks
  extension,     \* the blocks the device extensions point to
  objects,       \* devices and links that exist
  freedTwice     \* a block that was not allocated has been freed

driverVars == <<at, block, extension, objects, freedTwice>>

Blocks  == {"driverName", "deviceName", "registryPath", "controlLinkName", "dataLinkName"}
Objects == {"controlDevice", "controlLink", "dataDevice", "dataLink"}
LoadSteps == Blocks \cup Objects \cup {"dataDeviceName"}

DriverType ==
  /\ at \in LoadSteps \cup {"unloaded", "loaded", "bugcheck"}
  /\ block \in [Blocks -> {"none", "live", "freed"}]
  /\ extension \subseteq Blocks /\ objects \subseteq Objects
  /\ freedTwice \in BOOLEAN

DriverInit ==
  /\ at = "unloaded" /\ block = [b \in Blocks |-> "none"]
  /\ extension = {} /\ objects = {} /\ freedTwice = FALSE
-----------------------------------------------------------------------------
LoadDriver ==
  /\ at = "unloaded" /\ at' = "driverName"
  /\ block' = [b \in Blocks |-> "none"]
  /\ UNCHANGED <<extension, objects, freedTwice>>

(* ExFreePool of each block; twice: one of them is not allocated. *)
FreesAll(bs, twice) ==
  /\ block' = [b \in Blocks |-> IF b \in bs /\ block[b] = "live" THEN "freed" ELSE block[b]]
  /\ freedTwice' = (freedTwice \/ twice)
  /\ extension' = {} /\ objects' = {}
  /\ \/ at' = "unloaded"
     \/ twice /\ at' = "bugcheck"

(* DriverEntry frees bs itself and returns, the control device deleted. *)
Abandons(bs) == FreesAll(bs, FALSE)

(* Unload, after DriverEntry has freed bs. *)
Unloads(bs) ==
  FreesAll(bs \cup extension,
           \/ bs \cap extension # {}
           \/ \E b \in bs \cup extension : block[b] # "live")

Made(b) == block' = [block EXCEPT ![b] = "live"] /\ UNCHANGED <<objects, freedTwice>>

DriverName ==
  /\ at = "driverName"
  /\ \/ Made("driverName") /\ at' = "deviceName" /\ UNCHANGED extension
     \/ "memory" \in LoadFaults /\ Abandons({})

DeviceName ==
  /\ at = "deviceName"
  /\ \/ Made("deviceName") /\ at' = "controlDevice" /\ UNCHANGED extension
     \/ "memory" \in LoadFaults /\ Abandons({"driverName"})

ControlDevice ==
  /\ at = "controlDevice"
  /\ \/ /\ at' = "registryPath" /\ objects' = {"controlDevice"}
        /\ extension' = {"driverName"} /\ UNCHANGED <<block, freedTwice>>
     \/ "names" \in LoadFaults /\ Abandons({"deviceName", "driverName"})

(* Mutant: the failure path forgets the device's name. *)
RegistryPath_Forgets ==
  /\ at = "registryPath"
  /\ \/ /\ Made("registryPath") /\ at' = "controlLinkName"
        /\ extension' = extension \cup {"registryPath"}
     \/ "memory" \in LoadFaults /\ Abandons({"driverName"})

RegistryPath ==
  /\ at = "registryPath"
  /\ \/ /\ Made("registryPath") /\ at' = "controlLinkName"
        /\ extension' = extension \cup {"registryPath"}
     \/ "memory" \in LoadFaults /\ Abandons({"driverName", "deviceName"})

(* The failure path frees the device's name twice, unloads and goes on: it
   copies into the buffer it did not get.                                    *)
ControlLinkName ==
  /\ at = "controlLinkName"
  /\ \/ /\ Made("controlLinkName") /\ at' = "controlLink"
        /\ extension' = extension \cup {"controlLinkName"}
     \/ /\ "memory" \in LoadFaults
        /\ at' = "bugcheck" /\ freedTwice' = TRUE
        /\ block' = [b \in Blocks |-> IF block[b] = "live" THEN "freed" ELSE block[b]]
        /\ extension' = {} /\ objects' = {}

(* The device's name goes first, and again when the link cannot be made. *)
ControlLink ==
  /\ at = "controlLink"
  /\ \/ /\ at' = "dataDeviceName" /\ objects' = objects \cup {"controlLink"}
        /\ block' = [block EXCEPT !["deviceName"] = "freed"]
        /\ UNCHANGED <<extension, freedTwice>>
     \/ /\ "names" \in LoadFaults
        /\ FreesAll({"deviceName", "driverName"} \cup extension, TRUE)

DataDeviceName ==
  /\ at = "dataDeviceName"
  /\ \/ Made("deviceName") /\ at' = "dataDevice" /\ UNCHANGED extension
     \/ "memory" \in LoadFaults /\ Unloads({"deviceName", "driverName"})

DataDevice ==
  /\ at = "dataDevice"
  /\ \/ /\ at' = "dataLinkName" /\ objects' = objects \cup {"dataDevice"}
        /\ UNCHANGED <<block, extension, freedTwice>>
     \/ "names" \in LoadFaults /\ Unloads({"deviceName", "driverName"})

DataLinkName ==
  /\ at = "dataLinkName"
  /\ \/ /\ Made("dataLinkName") /\ at' = "dataLink"
        /\ extension' = extension \cup {"dataLinkName"}
     \/ "memory" \in LoadFaults /\ Unloads({"deviceName", "driverName"})

(* Both names are freed, although the control extension keeps the driver's. *)
DataLink ==
  /\ at = "dataLink"
  /\ \/ /\ at' = "loaded" /\ objects' = objects \cup {"dataLink"}
        /\ block' = [block EXCEPT !["deviceName"] = "freed", !["driverName"] = "freed"]
        /\ UNCHANGED <<extension, freedTwice>>
     \/ "names" \in LoadFaults /\ Unloads({"deviceName", "driverName"})

Unload == at = "loaded" /\ Unloads({})

DriverEntry ==
  \/ LoadDriver \/ DriverName \/ DeviceName \/ ControlDevice \/ RegistryPath
  \/ ControlLinkName \/ ControlLink \/ DataDeviceName \/ DataDevice
  \/ DataLinkName \/ DataLink
-----------------------------------------------------------------------------
(* A driver that is not loaded, because a step of DriverEntry failed or because
   it was unloaded, has left no device, no link and no memory behind.         *)
UnloadedLeavesNothing ==
  at = "unloaded" => objects = {} /\ \A b \in Blocks : block[b] # "live"

(* No block of memory is freed that is not allocated. *)
NoBlockIsFreedTwice == ~freedTwice
=============================================================================
