SPECIFICATION FairSpec
CONSTANTS
  n1 = n1
  n2 = n2
  s1 = s1
  s2 = s2
  Nodes = {n1}
  Subs = {s1}
  Filter <- AllOfIt
  Pollers = {}
  Event <- MCEvent
  BufferSize = 1
  Reverts = FALSE
  Window = 2
  MaxEpoch = 1
  MaxWrites = 3
  MaxFaults = 2
CHECK_DEADLOCK FALSE
PROPERTY ChangesArrive
