----------------------------- MODULE MCWdf1394 -----------------------------
(* Wdf1394 for TLC.                                                          *)
EXTENDS Wdf1394, TLC

HybridSymmetry == Permutations(Handles) \cup Permutations(Buffers)

(* Every operation the application or the filter knows.                      *)
AllOps ==
  AddressOps \cup CromOps \cup ResourceOps \cup NotificationOps \cup
  {"GetAddressData", "SetAddressData", "AsyncRead", "AsyncWrite", "AsyncLock",
   "AsyncStream", "IsochAllocateBandwidth", "IsochAllocateChannel",
   "IsochAttachBuffers", "IsochDetachBuffers", "IsochFreeBandwidth",
   "IsochFreeChannel", "IsochListen", "IsochQueryCurrentCycleTime",
   "IsochQueryResources", "IsochSetChannelBandwidth", "IsochModifyStreamProperties",
   "IsochStop", "IsochTalk", "GetLocalHostInformation",
   "Get1394AddressFromDeviceObject", "Control", "GetMaxSpeedBetweenDevices",
   "SetDeviceXmitProperties", "GetConfigurationInformation", "BusReset",
   "GetGenerationCount", "SendPhyConfigurationPacket", "SetGapCount",
   "BusResetNotify"}

(* What the other program races the window with.                             *)
RacingOps == CromOps \cup ResourceOps
=============================================================================
