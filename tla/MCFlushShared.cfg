SPECIFICATION FairSpec
CONSTANTS
  Local = {n1}
  Peer = p
  Callers = {c1}
  Syncs = {s1}
  Writes = {"edit", "terminal", "claim"}
  Faults = {"stop", "slow", "crash", "fail"}
  MultiLocation = TRUE
  MaxVersion = 2
CHECK_DEADLOCK FALSE
INVARIANT TypeOK
INVARIANT DrainEnds
PROPERTY DurableAnswered
