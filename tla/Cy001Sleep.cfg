SPECIFICATION CySpec
CONSTANTS
  Requests = {r1, r2}
  Drivers = {"C"}
  Displays = {0, 1}
  Chunks = 2
  Faults = {}
  BoardTalks = TRUE
  None = None
CHECK_DEADLOCK FALSE
PROPERTY SleepStrandsNoRead
