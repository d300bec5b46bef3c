---------------------------- MODULE MCGraphEdges ----------------------------
(* Instances of GraphEdges, whose nodes are interchangeable, and of          *)
(* Checkpoints beside it: a behaviour is one of one of the two.              *)
EXTENDS GraphEdges, Checkpoints, TLC

VARIABLE part

PartsInit ==
  /\ part \in {"edges", "checkpoints"}
  /\ Init /\ CheckpointsInit

PartsNext ==
  /\ UNCHANGED part
  /\ \/ part = "edges" /\ Next /\ UNCHANGED checkpointVars
     \/ part = "checkpoints" /\ CheckpointsNext /\ UNCHANGED vars

PartsSpec == PartsInit /\ [][PartsNext]_<<part, vars, checkpointVars>>

Interchangeable == Permutations(Nodes)
=============================================================================
