SPECIFICATION FairSpec
CONSTANTS
  t1 = t1
  t2 = t2
  a1 = a1
  a2 = a2
  b = b
  agentA = agentA
  agentB = agentB
  Tasks = {t1}
  Workers = {a1, a2, b}
  Agents = {agentA, agentB}
  AgentOf <- MCAgentOf
  NoAgent = NoAgent
  Blocks <- NoBlocks
  TaskActions = {"close", "reopen"}
  Leases = {1, 2}
  MaxNow = 2
  MaxFence = 3
INVARIANT TypeOK
INVARIANT LeaseHonoured
INVARIANT FenceIdentifiesAgent
PROPERTY ClaimFencesOutOthers
PROPERTY LapsedClaimEnds
CHECK_DEADLOCK FALSE
