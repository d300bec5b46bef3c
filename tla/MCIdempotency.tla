---------------------------- MODULE MCIdempotency ----------------------------
(* Instances of Idempotency, and of SessionLog beside it: a behaviour is one *)
(* of one of the two, chosen at the start, and the other stands still.       *)
EXTENDS Idempotency, SessionLog

VARIABLE part

PartsInit ==
  /\ part \in {"creates", "sessions"}
  /\ Init /\ SessionInit
  /\ part = "sessions" => \A c, d \in Callers : key[c] = key[d]

PartsNext ==
  /\ UNCHANGED part
  /\ \/ part = "creates" /\ Next /\ UNCHANGED sessionVars
     \/ part = "sessions" /\ SessionNext /\ UNCHANGED vars

PartsSpec ==
  /\ PartsInit /\ [][PartsNext]_<<part, vars, sessionVars>>
  /\ Fairness /\ SessionFairness
=============================================================================
