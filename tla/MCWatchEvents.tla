--------------------------- MODULE MCWatchEvents ---------------------------
(* Instances of WatchEvents. *)
EXTENDS WatchEvents

CONSTANTS n1, n2, s1, s2

MCEvent == [node : Nodes, content : 0..2]
AllOfIt == [s \in Subs |-> Nodes \X (1..2)]
AllButOne == [s \in Subs |-> (Nodes \X (1..2)) \ {<<n1, 2>>}]
OneEach == [s \in Subs |-> IF s = s1 THEN {n1} \X (1..2) ELSE {n2} \X (1..2)]
=============================================================================
