SPECIFICATION PartsSpec
CONSTANTS
  Event = {x, y}
  Readers = {r1}
  BufferSize = 2
  MaxEpoch = 1
  MaxEvents = 4
  Writers = {w1, w2}
  Nobody = nobody
  LockFaults = {"kill", "old"}
  MaxTasks = 2
  Issues = {i1}
  Aliases = {"bare"}
  Clients = {c1, c2}
  Diffs = {d1}
  Rounds = {m1}
  Window = 100
  MaxEdits = 1
  MaxFails = 1
CHECK_DEADLOCK FALSE
INVARIANT BufferIsTail
INVARIANT IdsDistinct
INVARIANT OneCopy
PROPERTY KeepsPromise
PROPERTY CopiesConverge
