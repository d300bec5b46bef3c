SPECIFICATION PartsSpec
CONSTANTS
  n1 = n1
  n2 = n2
  s1 = s1
  s2 = s2
  Nodes = {n1, n2}
  Subs = {s1}
  Filter <- AllButOne
  Pollers = {p1}
  Event <- MCEvent
  BufferSize = 2
  Reverts = FALSE
  Window = 2
  MaxEpoch = 1
  MaxWrites = 3
  MaxFaults = 1
CHECK_DEADLOCK FALSE
INVARIANT TypeOK
INVARIANT ViewsCatchUp
INVARIANT DeliveredInOrder
INVARIANT PollersInformed
