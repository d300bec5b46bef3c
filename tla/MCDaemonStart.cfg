SPECIFICATION PartsSpec
CONSTANTS
  p1 = p1
  p2 = p2
  p3 = p3
  here = here
  there = there
  Procs = {p1, p2, p3}
  Locations = {here, there}
  Placements <- MCPlacements
  None = None
  Faults = {"kill", "stall", "fail"}
  MaxKills = 1
CHECK_DEADLOCK FALSE
INVARIANT OneDaemon
INVARIANT RunningReached
PROPERTY SomeoneServes
PROPERTY DoublesEnd
