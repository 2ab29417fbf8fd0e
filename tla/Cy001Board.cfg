SPECIFICATION CySpec
CONSTANTS
  Requests = {r1, r2}
  Drivers = {"C", "Cpp"}
  Displays = {0, 1}
  Chunks = 2
  Faults = {}
  BoardTalks = TRUE
  None = None
CHECK_DEADLOCK FALSE
INVARIANTS CyType CompletedOnce LostOnlyToAPurge
PROPERTIES StopDrainsTheReads DisplaySurvivesSleep UploadLoadsTheImage EveryCallReturns PowerDownEnds
