----------------------------- MODULE Idempotency -----------------------------
(***************************************************************************)
(* graph.create with an idempotency key: run() of src/daemon/idempotency.ts*)
(* as src/daemon/methods/graph.ts calls it.  Concurrent and later retries  *)
(* of one create should get one node, while nodes are deleted, entries     *)
(* lapse, creates fail and the table is full.                              *)
(*                                                                         *)
(* A step ends where the code awaits: fetch() and create() may wait for a  *)
(* provider.  Time is abstract: an entry may lapse at any moment.          *)
(***************************************************************************)
EXTENDS Naturals, FiniteSets, Sequences

CONSTANTS
  Keys,
  Callers,   \* graph.create requests
  NoOne,
  Max,       \* entries the table keeps
  Faults,    \* what else may happen, of AllFaults
  MaxNodes   \* bound on the nodes created

AllFaults == {"delete", "lapse", "fail"}
Nodes == 1..MaxNodes
None == 0

ASSUME IdempotencyAssumption ==
  NoOne \notin Callers /\ Max \in Nat \ {0} /\ MaxNodes \in Nat /\ Faults \subseteq AllFaults

VARIABLES
  exists,   \* the nodes in the graph
  created,  \* how many nodes there have been
  entry,    \* entry[k]: the node of the key's entry, or None
  lapsed,   \* the keys whose entry is past its expiresAt
  order,    \* the keys with an entry, oldest first
  owner,    \* owner[k]: whose create of this key is in flight, or NoOne
  waiting,  \* waiting[k]: who awaits that create, in the order they came
  pc,       \* where each request is
  key,      \* the key it carries
  node,     \* the node it fetches, or was given
  made,     \* history: the nodes made for a key in its present window
  misled,   \* history: the requests that found their node deleted
  remade    \* history: the nodes such requests made

graph == <<exists, created>>
table == <<entry, lapsed, order>>
inflight == <<owner, waiting>>
history == <<made, misled, remade>>
vars == <<graph, table, inflight, pc, key, node, history>>

Places == {"idle", "fetching", "waiting", "creating"}

TypeOK ==
  /\ exists \subseteq Nodes /\ created \in 0..MaxNodes
  /\ entry \in [Keys -> Nodes \cup {None}] /\ lapsed \subseteq Keys
  /\ order \in Seq(Keys) /\ Len(order) <= Max
  /\ \A k \in Keys : entry[k] # None <=> \E i \in DOMAIN order : order[i] = k
  /\ owner \in [Keys -> Callers \cup {NoOne}]
  /\ waiting \in [Keys -> Seq(Callers)]
  /\ pc \in [Callers -> Places]
  /\ key \in [Callers -> Keys] /\ node \in [Callers -> Nodes \cup {None}]
  /\ made \in [Keys -> SUBSET Nodes] /\ misled \subseteq Callers /\ remade \subseteq Nodes

Init ==
  /\ exists = {} /\ created = 0
  /\ entry = [k \in Keys |-> None] /\ lapsed = {} /\ order = << >>
  /\ owner = [k \in Keys |-> NoOne] /\ waiting = [k \in Keys |-> << >>]
  /\ pc = [c \in Callers |-> "idle"] /\ key \in [Callers -> Keys]
  /\ node = [c \in Callers |-> None] /\ made = [k \in Keys |-> {}]
  /\ misled = {} /\ remade = {}

Without(s, k) == SelectSeq(s, LAMBDA x : x # k)

\* Mutation: nobody is seen to own the key until the create is under way.
JoinOrOwnLate(c, k) ==
  /\ owner' = [owner EXCEPT ![k] = c]
  /\ pc' = [pc EXCEPT ![c] = "creating"]
  /\ UNCHANGED waiting

\* The head of run()'s loop: await the create in flight, or own the key.
JoinOrOwn(c, k) ==
  \/ /\ owner[k] # NoOne
     /\ waiting' = [waiting EXCEPT ![k] = Append(@, c)]
     /\ pc' = [pc EXCEPT ![c] = "waiting"]
     /\ UNCHANGED owner
  \/ /\ owner[k] = NoOne
     /\ owner' = [owner EXCEPT ![k] = c]
     /\ pc' = [pc EXCEPT ![c] = "creating"]
     /\ UNCHANGED waiting

\* run(), with an entry in force: its node is looked up.
RunKnown(c, k) ==
  /\ pc[c] = "idle" /\ entry[k] # None /\ k \notin lapsed
  /\ key' = [key EXCEPT ![c] = k]
  /\ node' = [node EXCEPT ![c] = entry[k]]
  /\ pc' = [pc EXCEPT ![c] = "fetching"]
  /\ misled' = misled \ {c}
  /\ UNCHANGED <<graph, table, inflight, made, remade>>

\* run(), with none: get() drops an entry that has lapsed.
RunNew(c, k) ==
  /\ pc[c] = "idle" /\ (entry[k] = None \/ k \in lapsed)
  /\ key' = [key EXCEPT ![c] = k]
  /\ entry' = [entry EXCEPT ![k] = None]
  /\ lapsed' = lapsed \ {k}
  /\ order' = Without(order, k)
  /\ JoinOrOwn(c, k)
  /\ misled' = misled \ {c}
  /\ UNCHANGED <<graph, node, made, remade>>

\* fetch() answers: the node is there and is the result, or it is gone.
Fetched(c) ==
  /\ pc[c] = "fetching"
  /\ IF node[c] \in exists
     THEN pc' = [pc EXCEPT ![c] = "idle"] /\ UNCHANGED <<inflight, misled>>
     ELSE JoinOrOwn(c, key[c]) /\ misled' = misled \cup {c}
  /\ UNCHANGED <<graph, table, key, node, made, remade>>

\* Mutation: off by one.
EvictLate(s) == IF Len(s) > Max + 1 THEN SubSeq(s, Len(s) - Max + 1, Len(s)) ELSE s

\* set() drops the oldest entries of a table that is too large.
Evict(s) == IF Len(s) > Max THEN SubSeq(s, Len(s) - Max + 1, Len(s)) ELSE s

Awaiting(k) == {waiting[k][i] : i \in DOMAIN waiting[k]}

\* create() resolves: the entry is set, and whoever awaits it fetches the node.
CreateDone(c) ==
  /\ pc[c] = "creating" /\ created < MaxNodes
  /\ LET k == key[c]
         n == created + 1
         kept == Evict(Append(Without(order, k), k))
         Kept(j) == \E i \in DOMAIN kept : kept[i] = j
     IN  /\ created' = n /\ exists' = exists \cup {n}
         /\ order' = kept
         /\ entry' = [j \in Keys |-> IF j = k THEN n ELSE IF Kept(j) THEN entry[j] ELSE None]
         /\ lapsed' = {j \in lapsed \ {k} : Kept(j)}
         /\ owner' = [owner EXCEPT ![k] = NoOne]
         /\ waiting' = [waiting EXCEPT ![k] = << >>]
         /\ pc' = [d \in Callers |-> IF d = c THEN "idle"
                                     ELSE IF d \in Awaiting(k) THEN "fetching" ELSE pc[d]]
         /\ node' = [d \in Callers |-> IF d = c \/ d \in Awaiting(k) THEN n ELSE node[d]]
         /\ made' = [j \in Keys |-> IF j = k THEN made[k] \cup {n}
                                    ELSE IF Kept(j) THEN made[j] ELSE {}]
         /\ remade' = IF c \in misled THEN remade \cup {n} ELSE remade
  /\ UNCHANGED <<key, misled>>

\* Mutation: whoever awaited a create that failed is left waiting.
CreateFailsQuietly(c) ==
  /\ pc[c] = "creating" /\ ("fail" \in Faults \/ created = MaxNodes)
  /\ owner' = [owner EXCEPT ![key[c]] = NoOne]
  /\ pc' = [pc EXCEPT ![c] = "idle"]
  /\ UNCHANGED <<graph, table, waiting, key, node, history>>

\* create() throws: the first of those who await it owns the key, the others
\* now await that one.
CreateFails(c) ==
  /\ pc[c] = "creating" /\ ("fail" \in Faults \/ created = MaxNodes)
  /\ LET k == key[c] IN
       IF waiting[k] = << >>
       THEN /\ owner' = [owner EXCEPT ![k] = NoOne]
            /\ pc' = [pc EXCEPT ![c] = "idle"]
            /\ UNCHANGED waiting
       ELSE /\ owner' = [owner EXCEPT ![k] = Head(waiting[k])]
            /\ pc' = [pc EXCEPT ![c] = "idle", ![Head(waiting[k])] = "creating"]
            /\ waiting' = [waiting EXCEPT ![k] = Tail(@)]
  /\ UNCHANGED <<graph, table, key, node, history>>

\* Somebody deletes the node.
Delete(n) ==
  /\ "delete" \in Faults /\ n \in exists
  /\ exists' = exists \ {n}
  /\ UNCHANGED <<created, table, inflight, pc, key, node, history>>

\* ttlMs is over for the key's entry, and with it the window.
Lapse(k) ==
  /\ "lapse" \in Faults /\ entry[k] # None /\ k \notin lapsed
  /\ lapsed' = lapsed \cup {k}
  /\ made' = [made EXCEPT ![k] = {}]
  /\ UNCHANGED <<graph, entry, order, inflight, pc, key, node, misled, remade>>

Next ==
  \/ \E c \in Callers, k \in Keys : RunKnown(c, k) \/ RunNew(c, k)
  \/ \E c \in Callers : Fetched(c) \/ CreateDone(c) \/ CreateFails(c)
  \/ \E n \in exists : Delete(n)
  \/ \E k \in Keys : Lapse(k)

Spec == Init /\ [][Next]_vars

\* fetch() and create() come to an end.
Fairness ==
  \A c \in Callers : WF_vars(Fetched(c)) /\ WF_vars(CreateDone(c) \/ CreateFails(c))

FairSpec == Spec /\ Fairness

(***************************************************************************)
(* Properties.                                                             *)
(***************************************************************************)

\* At most one create per key is in flight, and it is its owner's: fetches,
\* failures, deletes and retries never let a second one in (the reservation).
OneCreateInFlight ==
  \A c \in Callers : pc[c] = "creating" <=> owner[key[c]] = c

\* Retries of one create make one node: of the requests with a key, within its
\* window, one makes a node; others only if they found theirs deleted (run()).
OneNodePerKey ==
  \A k \in Keys : \A m, n \in made[k] \ remade : m = n

\* Every request is answered, or fails: nobody awaits a create that is not in
\* flight, whoever failed or was deleted meanwhile (run()'s loop).
Answered == \A c \in Callers : pc[c] # "idle" ~> pc[c] = "idle"

\* A key has one node in the graph, within its window (idempotency.ts: "Run
\* `create` at most once per `key`").
OneLiveNodePerKey ==
  \A k \in Keys : \A m, n \in made[k] \cap exists : m = n
=============================================================================
