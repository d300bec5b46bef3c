---------------------------- MODULE MCDaemonStart ----------------------------
(* Instances of DaemonStart of two kinds: a behaviour has two processes of one *)
(* location that may stall, or three of one or two locations that do not.     *)
EXTENDS DaemonStart

CONSTANTS p1, p2, p3, here, there

AllHere == [p \in Procs |-> here]
OneThere == [p \in Procs |-> IF p = p3 THEN there ELSE here]
MCPlacements == {AllHere, OneThere}

VARIABLE stalls

PartsInit ==
  /\ stalls \in BOOLEAN /\ DaemonInit
  /\ stalls => at = AllHere

PartsNext ==
  /\ UNCHANGED stalls /\ DaemonNext
  /\ IF stalls THEN pc'[p3] = "new"
     ELSE \A l \in stale' \ stale : ~Alive(guard[l])

PartsSpec ==
  /\ PartsInit /\ [][PartsNext]_<<stalls, daemonVars>>
  /\ \A p \in Procs : WF_daemonVars(DaemonStep(p))
=============================================================================
