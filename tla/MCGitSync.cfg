SPECIFICATION FairSpec
CONSTANTS
  a = a
  b = b
  n = n
  Machines = {a, b}
  Ids = {n}
  Fields = {"title", "status"}
  Values <- MCValues
  Absent = Absent
  NoLine = NoLine
  MultiLocation = TRUE
  MaxTime = 1
  MaxWrites = 2
  MaxFaults = 1
CHECK_DEADLOCK FALSE
INVARIANT TypeOK
PROPERTY PushKeepsOthers
PROPERTY SuccessIsSynced
PROPERTY Converges
