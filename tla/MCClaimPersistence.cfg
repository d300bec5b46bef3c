SPECIFICATION PersistSpec
CONSTANTS
  t1 = t1
  a = a
  b = b
  agentA = agentA
  agentB = agentB
  Tasks = {t1}
  Workers = {a, b}
  Agents = {agentA, agentB}
  AgentOf <- MCAgentOf
  NoAgent = NoAgent
  Blocks = {}
  TaskActions = {}
  Leases = {1}
  MaxNow = 1
  MaxFence = 2
  MaxRestarts = 1
  MaxPulls = 2
  TheirLines <- MCTheirLines
CHECK_DEADLOCK FALSE
INVARIANT ClaimHasExpiry
INVARIANT LeaseSurvives
