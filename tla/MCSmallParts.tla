---------------------------- MODULE MCSmallParts ----------------------------
(* EventReplay, FileLock and ProviderStore, which share nothing: a behaviour *)
(* is one of one of them, chosen at the start, and the others stand still.   *)
(* Of the provider, there is the watch with one request at a time, or there  *)
(* are several requests, of which one gets and deletes nothing.              *)
EXTENDS EventReplay, FileLock, ProviderStore

VARIABLE part

PartsInit ==
  /\ part \in {"events", "lock", "requests", "watch"}
  /\ Init /\ FileLockInit /\ ProviderInit
  /\ part \in {"requests", "watch"} \/ remote = [i \in Issues |-> "unborn"]

One == CHOOSE c \in Clients : TRUE

Allowed(k, call) ==
  CASE part = "requests" -> /\ k \in Diffs => call = Idle
                            /\ k = One => call.op \notin {"get", "delete"}
    [] part = "watch" -> k \in Clients \ {One} => call = Idle
    [] OTHER -> FALSE

PartsNext ==
  /\ UNCHANGED part
  /\ \/ part = "events" /\ Next /\ UNCHANGED <<fileLockVars, providerVars>>
     \/ part = "lock" /\ FileLockNext /\ UNCHANGED <<vars, providerVars>>
     \/ /\ ProviderNext /\ \A k \in Handlers : Allowed(k, calls'[k])
        /\ UNCHANGED <<vars, fileLockVars>>

PartsSpec ==
  /\ PartsInit /\ [][PartsNext]_<<part, vars, fileLockVars, providerVars>>
  /\ ProviderFairness
=============================================================================
