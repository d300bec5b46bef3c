SPECIFICATION PartsSpec
CONSTANTS
  Keys = {k1, k2}
  Callers = {c1, c2, c3}
  NoOne = none
  Max = 1
  Faults = {"delete", "lapse", "fail"}
  MaxNodes = 2
  OneByOne = TRUE
  MaxHooks = 4
  MaxLives = 2
CHECK_DEADLOCK FALSE
INVARIANT OneNodePerKey
INVARIANT OneCreateInFlight
INVARIANT FileFollowsMachine
PROPERTY Answered
PROPERTY EndedSessionsClose
