------------------------- MODULE MCClaimPersistence -------------------------
(* Instances of ClaimPersistence. *)
EXTENDS ClaimPersistence

CONSTANTS t1, a, b, agentA, agentB

MCAgentOf == [w \in Workers |-> IF w = b THEN agentB ELSE agentA]

MCTheirLines ==
  {[claimedBy |-> c[1], lockUntil |-> c[2], fence |-> c[3], status |-> "open", archived |-> FALSE] :
     c \in {<<NoAgent, 0, 0>>, <<agentB, 1, 1>>}}
=============================================================================
