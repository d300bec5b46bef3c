SPECIFICATION PartsSpec
CONSTANTS
  Nodes = {n1, n2}
  MaxEdges = 3
  Faults = {"delete", "deleteNode", "reload", "pull", "restart", "rebuild"}
  Agents = {a1, a2}
  Files = {f1, f2}
  Tracked = {f1}
  MaxCommits = 2
  MaxStepsRun = 3
SYMMETRY Interchangeable
CHECK_DEADLOCK FALSE
INVARIANT CheckedAcyclic
INVARIANT EdgesReachFile
INVARIANT TrailersBacked
