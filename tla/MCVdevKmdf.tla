----------------------------- MODULE MCVdevKmdf -----------------------------
(* VdevKmdf for TLC: callers, handles and memory blocks are interchangeable. *)
EXTENDS VdevKmdf, TLC

Symmetry == Permutations(Apps) \cup Permutations(Handles) \cup Permutations(Buffers)

(* Operations whose routines keep records, one whose IRB is asynchronous and
   the ones that never pass the filter above the driver.                     *)
AddressTableOps ==
  {"AllocateAddressRange", "FreeAddressRange", "GetAddressData", "AsyncLock",
   "IsochQueryResources", "IsochModifyStreamProperties",
   "GetConfigurationInformation", "BusResetNotify"}
=============================================================================
