------------------------------ MODULE Bus1394 ------------------------------
(* The IEEE 1394 bus driver under the virtual device driver, as far as the   *)
(* virtual device driver uses it: the ledger of what it has handed out (an   *)
(* address range and a configuration-ROM entry with the memory that backs    *)
(* it, isochronous resources by handle), its generation count, and whether a *)
(* reset routine is registered with it. It is external: each operator is the *)
(* effect an I/O request block (IRB) has on the ledger when the bus grants   *)
(* it.                                                                       *)
EXTENDS Integers, FiniteSets

CONSTANTS Handles, Buffers

VARIABLE bus

Entry == [h : Handles, buf : Buffers]

BusType == [addresses : SUBSET Entry, crom : SUBSET Entry,
            isoch : SUBSET Handles, generation : Nat, registered : BOOLEAN]

HandlesOf(entries) == {e.h : e \in entries}
BuffersOf(entries) == {e.buf : e \in entries}
WithHandle(entries, h) == {e \in entries : e.h = h}

BusInit == bus = [addresses |-> {}, crom |-> {}, isoch |-> {},
                  generation |-> 0, registered |-> FALSE]

(* REQUEST_ALLOCATE_ADDRESS_RANGE and REQUEST_FREE_ADDRESS_RANGE.            *)
AllocatesAddress(h, buf) ==
  /\ h \notin HandlesOf(bus.addresses)
  /\ bus' = [bus EXCEPT !.addresses = @ \cup {[h |-> h, buf |-> buf]}]

FreesAddress(h) ==
  /\ h \in HandlesOf(bus.addresses)
  /\ bus' = [bus EXCEPT !.addresses = @ \ WithHandle(@, h)]

(* REQUEST_SET_LOCAL_HOST_PROPERTIES, level MODIFY_CROM: add and remove.     *)
AddsCrom(h, buf) ==
  /\ h \notin HandlesOf(bus.crom)
  /\ bus' = [bus EXCEPT !.crom = @ \cup {[h |-> h, buf |-> buf]}]

RemovesCrom(h) ==
  /\ h \in HandlesOf(bus.crom)
  /\ bus' = [bus EXCEPT !.crom = @ \ WithHandle(@, h)]

(* REQUEST_ISOCH_ALLOCATE_RESOURCES and REQUEST_ISOCH_FREE_RESOURCES.        *)
AllocatesIsoch(h) ==
  /\ h \notin bus.isoch
  /\ bus' = [bus EXCEPT !.isoch = @ \cup {h}]

FreesIsoch(h) ==
  /\ h \in bus.isoch
  /\ bus' = [bus EXCEPT !.isoch = @ \ {h}]

(* REQUEST_BUS_RESET_NOTIFICATION: the driver's reset routine is called on   *)
(* every reset until it is deregistered.                                     *)
Registers(on) == bus' = [bus EXCEPT !.registered = on]

(* A bus reset gives the bus a new generation.                               *)
Resets == bus' = [bus EXCEPT !.generation = @ + 1]
=============================================================================
