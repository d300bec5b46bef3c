SPECIFICATION Spec
CONSTANTS
  n1 = n1
  n2 = n2
  s1 = s1
  s2 = s2
  Nodes = {n1, n2}
  Subs = {s1}
  Filter <- AllOfIt
  Pollers = {}
  Event <- MCEvent
  BufferSize = 2
  Reverts = FALSE
  Window = 1
  MaxEpoch = 0
  MaxWrites = 2
  MaxFaults = 0
CHECK_DEADLOCK FALSE
PROPERTY DeletesAreReal
