---------------------------- MODULE MCWatchParts ----------------------------
(* Instances of WatchEvents of two kinds: a behaviour has all the faults and *)
(* no agent that polls, or an agent that polls, fewer writes and faults and  *)
(* a subscriber that never reads the graph.                                  *)
EXTENDS MCWatchEvents

VARIABLE polled

PartsInit == polled \in BOOLEAN /\ Init

PartsNext ==
  /\ UNCHANGED polled /\ Next
  /\ IF polled THEN /\ writes' + 2 * faults' <= MaxWrites
                    /\ \A s \in Subs : asked'[s] # "query"
     ELSE UNCHANGED poll

PartsSpec == PartsInit /\ [][PartsNext]_<<polled, vars>>
=============================================================================
