SPECIFICATION FairSpec
CONSTANTS
  Local = {n1, n2}
  Peer = p
  Callers = {c1}
  Syncs = {}
  Writes = {"edit", "terminal"}
  Faults = {"crash", "fail"}
  MultiLocation = FALSE
  MaxVersion = 3
CHECK_DEADLOCK FALSE
PROPERTY EditReachesDisk
INVARIANT CaughtUp
INVARIANT NothingForgotten
