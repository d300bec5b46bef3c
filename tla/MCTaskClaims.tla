---------------------------- MODULE MCTaskClaims ----------------------------
(* Instances of TaskClaims: sessions a1 and a2 share an agent id, b does not. *)
EXTENDS TaskClaims

CONSTANTS t1, t2, a1, a2, b, agentA, agentB

MCAgentOf == [w \in Workers |-> IF w = b THEN agentB ELSE agentA]
MCBlocks == {<<t1, t2>>}
NoBlocks == {}
NoActions == {}
SomeActions == {"close", "reopen"}
=============================================================================
