---------------------- MODULE IdempotencySessionProofs -----------------------
(***************************************************************************)
(* Proofs about Idempotency, for any keys, requests and table size: the    *)
(* reservation admits one create per key whatever happens, and in a window *)
(* one node is made, but for requests that found theirs deleted; and about *)
(* SessionLog, for any bounds.                                             *)
(***************************************************************************)
EXTENDS Idempotency, SessionLog, TLAPS

\* Who owns a key is creating its node; who awaits that create is waiting, once.
Reserved ==
  /\ owner \in [Keys -> Callers \cup {NoOne}]
  /\ waiting \in [Keys -> Seq(Callers)]
  /\ pc \in [Callers -> Places]
  /\ key \in [Callers -> Keys]
  /\ \A c \in Callers, k \in Keys : owner[k] = c => pc[c] = "creating" /\ key[c] = k
  /\ \A c \in Callers : pc[c] = "creating" => owner[key[c]] = c
  /\ \A k \in Keys : \A i \in 1..Len(waiting[k]) :
       pc[waiting[k][i]] = "waiting" /\ key[waiting[k][i]] = k
  /\ \A k \in Keys : \A i, j \in 1..Len(waiting[k]) :
       waiting[k][i] = waiting[k][j] => i = j

LEMMA ReservedInit == Init => Reserved
BY IdempotencyAssumption DEF Init, Reserved, Places

\* A request at the head of the loop joins the queue or becomes the owner.
LEMMA JoinOrOwnKeeps ==
  ASSUME Reserved, NEW c \in Callers, NEW k \in Keys,
         pc[c] \in {"idle", "fetching"},
         key' = [key EXCEPT ![c] = k], JoinOrOwn(c, k)
  PROVE  Reserved'
<1> USE IdempotencyAssumption
<1>0. \A d \in Callers, j \in Keys : owner[j] = d => d # c
  BY DEF Reserved
<1>1. CASE owner[k] # NoOne
  <2>1. /\ waiting' = [waiting EXCEPT ![k] = Append(waiting[k], c)]
        /\ pc' = [pc EXCEPT ![c] = "waiting"] /\ owner' = owner
    BY <1>1 DEF JoinOrOwn
  <2>2. \A j \in Keys : \A i \in 1..Len(waiting[j]) : waiting[j][i] # c /\ waiting[j][i] \in Callers
    BY DEF Reserved
  <2>3. /\ owner' \in [Keys -> Callers \cup {NoOne}] /\ waiting' \in [Keys -> Seq(Callers)]
        /\ pc' \in [Callers -> Places] /\ key' \in [Callers -> Keys]
    BY <2>1 DEF Reserved, Places
  <2>4. \A d \in Callers, j \in Keys : owner'[j] = d => pc'[d] = "creating" /\ key'[d] = j
    BY <2>1, <1>0 DEF Reserved
  <2>5. \A d \in Callers : pc'[d] = "creating" => owner'[key'[d]] = d
    BY <2>1 DEF Reserved
  <2>6. waiting[k] \in Seq(Callers)
    BY DEF Reserved
  <2>7. /\ Len(waiting'[k]) = Len(waiting[k]) + 1
        /\ \A i \in 1..Len(waiting[k]) : waiting'[k][i] = waiting[k][i]
        /\ waiting'[k][Len(waiting[k]) + 1] = c
        /\ \A j \in Keys : j # k => waiting'[j] = waiting[j]
    BY <2>1, <2>6 DEF Reserved
  <2>8. \A j \in Keys : \A i \in 1..Len(waiting'[j]) :
          pc'[waiting'[j][i]] = "waiting" /\ key'[waiting'[j][i]] = j
    <3> SUFFICES ASSUME NEW j \in Keys, NEW i \in 1..Len(waiting'[j])
                 PROVE  pc'[waiting'[j][i]] = "waiting" /\ key'[waiting'[j][i]] = j
      OBVIOUS
    <3>1. CASE j # k
      BY <3>1, <2>1, <2>2, <2>7 DEF Reserved
    <3>2. CASE j = k /\ i \in 1..Len(waiting[k])
      BY <3>2, <2>1, <2>2, <2>7 DEF Reserved
    <3>3. CASE j = k /\ i = Len(waiting[k]) + 1
      BY <3>3, <2>1, <2>7 DEF Reserved
    <3>. QED  BY <3>1, <3>2, <3>3, <2>6, <2>7
  <2>9. \A j \in Keys : \A i, m \in 1..Len(waiting'[j]) : waiting'[j][i] = waiting'[j][m] => i = m
    <3> SUFFICES ASSUME NEW j \in Keys, NEW i \in 1..Len(waiting'[j]), NEW m \in 1..Len(waiting'[j]),
                        waiting'[j][i] = waiting'[j][m]
                 PROVE  i = m
      OBVIOUS
    <3>1. CASE j # k
      BY <3>1, <2>7 DEF Reserved
    <3>2. CASE j = k /\ i <= Len(waiting[k]) /\ m <= Len(waiting[k])
      <4>1. i \in 1..Len(waiting[k]) /\ m \in 1..Len(waiting[k])
        BY <3>2, <2>6, <2>7
      <4>2. waiting[k][i] = waiting[k][m]
        BY <3>2, <4>1, <2>7
      <4>. QED  BY <4>1, <4>2 DEF Reserved
    <3>3. CASE j = k /\ (i > Len(waiting[k]) \/ m > Len(waiting[k]))
      <4>1. /\ i \in 1..Len(waiting[k]) \/ i = Len(waiting[k]) + 1
            /\ m \in 1..Len(waiting[k]) \/ m = Len(waiting[k]) + 1
        BY <3>3, <2>6, <2>7
      <4>2. \A x \in 1..Len(waiting[k]) : waiting'[k][x] # c
        BY <2>2, <2>7
      <4>. QED  BY <3>3, <4>1, <4>2, <2>6, <2>7
    <3>. QED  BY <3>1, <3>2, <3>3, <2>6
  <2>. QED  BY <2>3, <2>4, <2>5, <2>8, <2>9 DEF Reserved
<1>2. CASE owner[k] = NoOne
  <2>1. /\ owner' = [owner EXCEPT ![k] = c] /\ pc' = [pc EXCEPT ![c] = "creating"]
        /\ waiting' = waiting
    BY <1>2 DEF JoinOrOwn
  <2>2. \A j \in Keys : \A i \in 1..Len(waiting[j]) : waiting[j][i] # c /\ waiting[j][i] \in Callers
    BY DEF Reserved
  <2>3. /\ owner' \in [Keys -> Callers \cup {NoOne}] /\ waiting' \in [Keys -> Seq(Callers)]
        /\ pc' \in [Callers -> Places] /\ key' \in [Callers -> Keys]
    BY <2>1 DEF Reserved, Places
  <2>4. \A d \in Callers, j \in Keys : owner'[j] = d => pc'[d] = "creating" /\ key'[d] = j
    BY <2>1, <1>0 DEF Reserved
  <2>5. \A d \in Callers : pc'[d] = "creating" => owner'[key'[d]] = d
    BY <2>1, <1>2 DEF Reserved
  <2>6. \A j \in Keys : \A i \in 1..Len(waiting'[j]) :
          pc'[waiting'[j][i]] = "waiting" /\ key'[waiting'[j][i]] = j
    BY <2>1, <2>2 DEF Reserved
  <2>7. \A j \in Keys : \A i, m \in 1..Len(waiting'[j]) : waiting'[j][i] = waiting'[j][m] => i = m
    BY <2>1 DEF Reserved
  <2>. QED  BY <2>3, <2>4, <2>5, <2>6, <2>7 DEF Reserved
<1>. QED  BY <1>1, <1>2

LEMMA CreateDoneKeeps ==
  ASSUME Reserved, NEW c \in Callers, CreateDone(c)
  PROVE  Reserved'
<1> USE IdempotencyAssumption
<1> DEFINE k == key[c]
<1>0. k \in Keys /\ pc[c] = "creating" /\ owner[k] = c /\ key' = key
  BY DEF Reserved, CreateDone
<1>1. /\ owner' = [owner EXCEPT ![k] = NoOne]
      /\ waiting' = [waiting EXCEPT ![k] = << >>]
      /\ pc' = [d \in Callers |-> IF d = c THEN "idle"
                                  ELSE IF d \in Awaiting(k) THEN "fetching" ELSE pc[d]]
  BY DEF CreateDone
<1>2. \A d \in Awaiting(k) : pc[d] = "waiting" /\ key[d] = k
  <2>1. waiting[k] \in Seq(Callers) /\ DOMAIN waiting[k] = 1..Len(waiting[k])
    BY <1>0 DEF Reserved
  <2>2. ASSUME NEW i \in 1..Len(waiting[k])
        PROVE  pc[waiting[k][i]] = "waiting" /\ key[waiting[k][i]] = k
    BY <1>0 DEF Reserved
  <2> HIDE DEF k
  <2>. QED  BY <2>1, <2>2 DEF Awaiting
<1>3. /\ owner' \in [Keys -> Callers \cup {NoOne}] /\ waiting' \in [Keys -> Seq(Callers)]
      /\ pc' \in [Callers -> Places] /\ key' \in [Callers -> Keys]
  BY <1>0, <1>1 DEF Reserved, Places
<1>4. \A d \in Callers, j \in Keys : owner'[j] = d => pc'[d] = "creating" /\ key'[d] = j
  BY <1>0, <1>1, <1>2 DEF Reserved
<1>5. \A d \in Callers : pc'[d] = "creating" => owner'[key'[d]] = d
  BY <1>0, <1>1, <1>2 DEF Reserved
<1>6. \A j \in Keys : \A i \in 1..Len(waiting'[j]) :
        pc'[waiting'[j][i]] = "waiting" /\ key'[waiting'[j][i]] = j
  <2> SUFFICES ASSUME NEW j \in Keys, NEW i \in 1..Len(waiting'[j])
               PROVE  pc'[waiting'[j][i]] = "waiting" /\ key'[waiting'[j][i]] = j
    OBVIOUS
  <2>1. j # k /\ waiting'[j] = waiting[j]
    BY <1>0, <1>1 DEF Reserved
  <2>2. pc[waiting[j][i]] = "waiting" /\ key[waiting[j][i]] = j /\ waiting[j][i] \in Callers
    BY <2>1 DEF Reserved
  <2>. QED  BY <2>1, <2>2, <1>0, <1>1, <1>2
<1>7. \A j \in Keys : \A i, m \in 1..Len(waiting'[j]) : waiting'[j][i] = waiting'[j][m] => i = m
  BY <1>0, <1>1 DEF Reserved
<1>. QED  BY <1>3, <1>4, <1>5, <1>6, <1>7 DEF Reserved

LEMMA CreateFailsKeeps ==
  ASSUME Reserved, NEW c \in Callers, CreateFails(c)
  PROVE  Reserved'
<1> USE IdempotencyAssumption
<1> DEFINE k == key[c]
<1>0. /\ k \in Keys /\ pc[c] = "creating" /\ owner[k] = c /\ key' = key
      /\ waiting[k] \in Seq(Callers) /\ pc \in [Callers -> Places]
  BY DEF Reserved, CreateFails
<1>1. CASE waiting[k] = << >>
  <2>1. /\ owner' = [owner EXCEPT ![k] = NoOne] /\ pc' = [pc EXCEPT ![c] = "idle"]
        /\ waiting' = waiting
    BY <1>1 DEF CreateFails
  <2>2. \A j \in Keys : \A i \in 1..Len(waiting[j]) : waiting[j][i] # c /\ waiting[j][i] \in Callers
    BY <1>0 DEF Reserved
  <2>3. /\ owner' \in [Keys -> Callers \cup {NoOne}] /\ waiting' \in [Keys -> Seq(Callers)]
        /\ pc' \in [Callers -> Places] /\ key' \in [Callers -> Keys]
    BY <1>0, <2>1 DEF Reserved, Places
  <2>4. \A d \in Callers, j \in Keys : owner'[j] = d => pc'[d] = "creating" /\ key'[d] = j
    BY <1>0, <2>1 DEF Reserved
  <2>5. \A d \in Callers : pc'[d] = "creating" => owner'[key'[d]] = d
    BY <1>0, <2>1 DEF Reserved
  <2>6. \A j \in Keys : \A i \in 1..Len(waiting'[j]) :
          pc'[waiting'[j][i]] = "waiting" /\ key'[waiting'[j][i]] = j
    <3>1. \A d \in Callers : d # c => pc'[d] = pc[d] /\ key'[d] = key[d]
      BY <1>0, <2>1
    <3> HIDE DEF k
    <3>. QED  BY <2>1, <2>2, <3>1 DEF Reserved
  <2>7. \A j \in Keys : \A i, m \in 1..Len(waiting'[j]) : waiting'[j][i] = waiting'[j][m] => i = m
    BY <2>1 DEF Reserved
  <2>. QED  BY <2>3, <2>4, <2>5, <2>6, <2>7 DEF Reserved
<1>2. CASE waiting[k] # << >>
  <2> DEFINE h == Head(waiting[k])
             n == Len(waiting[k])
  <2>1. /\ owner' = [owner EXCEPT ![k] = h]
        /\ pc' = [pc EXCEPT ![c] = "idle", ![h] = "creating"]
        /\ waiting' = [waiting EXCEPT ![k] = Tail(waiting[k])]
    BY <1>2 DEF CreateFails
  <2>2. /\ n \in Nat /\ n > 0 /\ h = waiting[k][1] /\ h \in Callers
        /\ Len(Tail(waiting[k])) = n - 1
        /\ \A i \in 1..(n - 1) : Tail(waiting[k])[i] = waiting[k][i + 1]
    BY <1>0, <1>2
  <2>3. pc[h] = "waiting" /\ key[h] = k /\ h # c
    BY <1>0, <2>2 DEF Reserved
  <2>4. /\ owner' \in [Keys -> Callers \cup {NoOne}] /\ waiting' \in [Keys -> Seq(Callers)]
        /\ pc' \in [Callers -> Places] /\ key' \in [Callers -> Keys]
    <3>1. Tail(waiting[k]) \in Seq(Callers)
      BY <1>0, <1>2
    <3> HIDE DEF h
    <3>. QED  BY <1>0, <2>1, <2>2, <3>1 DEF Reserved, Places
  <2>5. \A d \in Callers, j \in Keys : owner'[j] = d => pc'[d] = "creating" /\ key'[d] = j
    BY <1>0, <2>1, <2>2, <2>3 DEF Reserved
  <2>6. \A d \in Callers : pc'[d] = "creating" => owner'[key'[d]] = d
    BY <1>0, <2>1, <2>2, <2>3 DEF Reserved
  <2>7. ASSUME NEW j \in Keys, NEW i \in 1..Len(waiting'[j])
        PROVE  pc'[waiting'[j][i]] = "waiting" /\ key'[waiting'[j][i]] = j
    <3>1. CASE j # k
      <4>1. waiting'[j] = waiting[j]
        BY <3>1, <2>1 DEF Reserved
      <4>2. waiting[j] \in Seq(Callers) /\ i \in 1..Len(waiting[j])
        BY <4>1 DEF Reserved
      <4>3. /\ pc[waiting[j][i]] = "waiting" /\ key[waiting[j][i]] = j
            /\ waiting[j][i] \in Callers
        BY <4>2 DEF Reserved
      <4>4. waiting[j][i] # c /\ waiting[j][i] # h
        BY <4>3, <3>1, <1>0, <2>3
      <4>5. pc'[waiting[j][i]] = pc[waiting[j][i]]
        BY <4>3, <4>4, <2>1, <1>0
      <4>. QED  BY <4>1, <4>3, <4>5, <1>0
    <3>2. CASE j = k
      <4>1. waiting'[k] = Tail(waiting[k])
        BY <2>1, <1>0 DEF Reserved
      <4>2. i \in 1..(n - 1) /\ i + 1 \in 1..n /\ waiting'[k][i] = waiting[k][i + 1]
        BY <3>2, <4>1, <2>2
      <4>3. /\ pc[waiting[k][i + 1]] = "waiting" /\ key[waiting[k][i + 1]] = k
            /\ waiting[k][i + 1] \in Callers /\ waiting[k][i + 1] # h
        BY <4>2, <2>2, <1>0 DEF Reserved
      <4>4. pc'[waiting[k][i + 1]] = pc[waiting[k][i + 1]]
        BY <4>3, <2>1, <1>0
      <4>. QED  BY <3>2, <4>2, <4>3, <4>4, <1>0
    <3>. QED  BY <3>1, <3>2
  <2>8. ASSUME NEW j \in Keys, NEW i \in 1..Len(waiting'[j]), NEW m \in 1..Len(waiting'[j]),
               waiting'[j][i] = waiting'[j][m]
        PROVE  i = m
    <3>1. CASE j # k
      BY <3>1, <2>1, <2>8 DEF Reserved
    <3>2. CASE j = k
      <4>1. waiting'[k] = Tail(waiting[k])
        BY <2>1, <1>0 DEF Reserved
      <4>2. /\ i \in 1..(n - 1) /\ m \in 1..(n - 1)
            /\ i + 1 \in 1..n /\ m + 1 \in 1..n
            /\ waiting[k][i + 1] = waiting[k][m + 1]
        BY <3>2, <4>1, <2>2, <2>8
      <4>3. \A x, y \in 1..Len(waiting[k]) : waiting[k][x] = waiting[k][y] => x = y
        BY <1>0 DEF Reserved
      <4> HIDE DEF k
      <4>4. i + 1 = m + 1
        BY <4>2, <4>3
      <4>. QED  BY <4>2, <4>4, <2>2
    <3>. QED  BY <3>1, <3>2
  <2>. QED  BY <2>4, <2>5, <2>6, <2>7, <2>8 DEF Reserved
<1>. QED  BY <1>1, <1>2

LEMMA ReservedStep == Reserved /\ [Next]_vars => Reserved'
<1> SUFFICES ASSUME Reserved, [Next]_vars PROVE Reserved'
  OBVIOUS
<1>1. ASSUME NEW c \in Callers, NEW k \in Keys, RunKnown(c, k)
      PROVE  Reserved'
  <2>1. \A j \in Keys : \A i \in 1..Len(waiting[j]) : waiting[j][i] # c /\ waiting[j][i] \in Callers
    BY <1>1 DEF RunKnown, Reserved
  <2>2. \A j \in Keys : owner[j] # c
    BY <1>1 DEF RunKnown, Reserved
  <2>. QED  BY <1>1, <2>1, <2>2 DEF RunKnown, Reserved, Places, inflight
<1>2. ASSUME NEW c \in Callers, NEW k \in Keys, RunNew(c, k)
      PROVE  Reserved'
  BY <1>2, JoinOrOwnKeeps DEF RunNew
<1>3. ASSUME NEW c \in Callers, Fetched(c)
      PROVE  Reserved'
  <2>0. key[c] \in Keys
    BY DEF Reserved
  <2>1. CASE node[c] \in exists
    <3>1. pc[c] = "fetching" /\ pc' = [pc EXCEPT ![c] = "idle"] /\ UNCHANGED <<owner, waiting, key>>
      BY <1>3, <2>1 DEF Fetched, inflight
    <3>2. \A j \in Keys : \A i \in 1..Len(waiting[j]) : waiting[j][i] # c /\ waiting[j][i] \in Callers
      BY <3>1 DEF Reserved
    <3>. QED  BY <3>1, <3>2 DEF Reserved, Places
  <2>2. CASE node[c] \notin exists
    <3>1. pc[c] = "fetching" /\ JoinOrOwn(c, key[c]) /\ key' = key
      BY <1>3, <2>2 DEF Fetched
    <3>2. key' = [key EXCEPT ![c] = key[c]]
      BY <3>1 DEF Reserved
    <3>. QED  BY <3>1, <3>2, <2>0, JoinOrOwnKeeps
  <2>. QED  BY <2>1, <2>2
<1>4. CASE UNCHANGED <<owner, waiting, pc, key>>
  BY <1>4 DEF Reserved
<1>5. ASSUME NEW n \in exists, Delete(n)
      PROVE  UNCHANGED <<owner, waiting, pc, key>>
  BY <1>5 DEF Delete, inflight
<1>6. ASSUME NEW k \in Keys, Lapse(k)
      PROVE  UNCHANGED <<owner, waiting, pc, key>>
  BY <1>6 DEF Lapse, inflight
<1>7. CASE UNCHANGED vars
  BY <1>4, <1>7 DEF vars, inflight
<1>. QED  BY <1>1, <1>2, <1>3, <1>4, <1>5, <1>6, <1>7, CreateDoneKeeps, CreateFailsKeeps DEF Next

\* For any requests and faults: of the creates of one key at most one is in flight.
THEOREM ReservationHolds == Spec => []OneCreateInFlight
<1>1. Reserved => OneCreateInFlight
  BY DEF Reserved, OneCreateInFlight
<1>. QED  BY <1>1, ReservedInit, ReservedStep, PTL DEF Spec

\* The nodes of a key's window made by requests that had found none deleted.
Fresh(k) == made[k] \ remade

\* A key without an entry in force has no fresh node, nor has one whose create is
\* in flight for, or awaited by, a request that found no node deleted.
WindowInv ==
  /\ created \in Nat /\ entry \in [Keys -> Nat] /\ made \in [Keys -> SUBSET Nat]
  /\ \A k \in Keys : entry[k] = None \/ k \in lapsed => Fresh(k) = {}
  /\ \A k \in Keys : owner[k] # NoOne /\ owner[k] \notin misled => Fresh(k) = {}
  /\ \A k \in Keys : \A i \in 1..Len(waiting[k]) : waiting[k][i] \notin misled => Fresh(k) = {}
  /\ \A k \in Keys : \A m, n \in Fresh(k) : m = n

LEMMA WindowInit == Init => WindowInv
<1> USE IdempotencyAssumption
<1>. QED  BY DEF Init, WindowInv, Fresh, None, Nodes

\* A request that joins or owns has found a node deleted, or no fresh node.
LEMMA JoinOrOwnFresh ==
  ASSUME Reserved, WindowInv, NEW c \in Callers, NEW k \in Keys,
         pc[c] \in {"idle", "fetching"}, JoinOrOwn(c, k),
         c \in misled' \/ Fresh(k) = {},
         \A d \in Callers \ {c} : d \in misled' <=> d \in misled
  PROVE  /\ \A j \in Keys : owner'[j] # NoOne /\ owner'[j] \notin misled' => Fresh(j) = {}
         /\ \A j \in Keys : \A i \in 1..Len(waiting'[j]) :
              waiting'[j][i] \notin misled' => Fresh(j) = {}
<1> USE IdempotencyAssumption
<1>1. \A j \in Keys : owner[j] # NoOne => owner[j] \in Callers \ {c}
  BY DEF Reserved
<1>2. \A j \in Keys : \A i \in 1..Len(waiting[j]) : waiting[j][i] \in Callers \ {c}
  BY DEF Reserved
<1>3. \A j \in Keys : owner'[j] = owner[j] \/ (j = k /\ owner'[j] = c)
  BY DEF JoinOrOwn, Reserved
<1>4. waiting[k] \in Seq(Callers)
  BY DEF Reserved
<1>5. \A j \in Keys : waiting'[j] = waiting[j] \/ (j = k /\ waiting'[j] = Append(waiting[k], c))
  BY DEF JoinOrOwn, Reserved
<1>6. ASSUME NEW j \in Keys, owner'[j] # NoOne, owner'[j] \notin misled'
      PROVE  Fresh(j) = {}
  BY <1>1, <1>3, <1>6 DEF WindowInv
<1>7. ASSUME NEW j \in Keys, NEW i \in 1..Len(waiting'[j]), waiting'[j][i] \notin misled'
      PROVE  Fresh(j) = {}
  <2>1. CASE waiting'[j] = waiting[j]
    <3>1. waiting[j][i] \in Callers \ {c} /\ waiting[j][i] \notin misled
      BY <1>2, <1>7, <2>1
    <3>. QED  BY <3>1, <1>7, <2>1 DEF WindowInv
  <2>2. CASE j = k /\ waiting'[j] = Append(waiting[k], c)
    <3>1. CASE i \in 1..Len(waiting[k])
      <4>1. waiting'[j][i] = waiting[k][i]
        BY <1>4, <2>2, <3>1
      <4>2. waiting[k][i] \in Callers \ {c} /\ waiting[k][i] \notin misled
        BY <1>2, <1>7, <3>1, <4>1
      <4>. QED  BY <4>2, <2>2, <3>1 DEF WindowInv
    <3>2. CASE i = Len(waiting[k]) + 1
      BY <1>4, <1>7, <2>2, <3>2
    <3>. QED  BY <1>4, <1>7, <2>2, <3>1, <3>2
  <2>. QED  BY <1>5, <2>1, <2>2
<1>. QED  BY <1>6, <1>7

LEMMA CreateDoneKeepsWindow ==
  ASSUME Reserved, WindowInv, NEW c \in Callers, CreateDone(c)
  PROVE  WindowInv'
<1> USE IdempotencyAssumption
<1> DEFINE k == key[c]
           n == created + 1
           kept == Evict(Append(Without(order, k), k))
           Kept(j) == \E i \in DOMAIN kept : kept[i] = j
<1>0. pc[c] = "creating" /\ k \in Keys /\ owner[k] = c
  BY DEF Reserved, CreateDone
<1>1. /\ k \in Keys /\ owner[k] = c /\ n \in Nat /\ n # None
      /\ c \in misled \/ Fresh(k) = {}
  <2> HIDE DEF k
  <2>. QED  BY <1>0 DEF WindowInv, None
<1>2. /\ created' = n /\ misled' = misled
      /\ owner' = [owner EXCEPT ![k] = NoOne] /\ waiting' = [waiting EXCEPT ![k] = << >>]
      /\ entry' = [j \in Keys |-> IF j = k THEN n ELSE IF Kept(j) THEN entry[j] ELSE None]
      /\ lapsed' = {j \in lapsed \ {k} : Kept(j)}
      /\ made' = [j \in Keys |-> IF j = k THEN made[k] \cup {n}
                                 ELSE IF Kept(j) THEN made[j] ELSE {}]
      /\ remade' = IF c \in misled THEN remade \cup {n} ELSE remade
  BY DEF CreateDone
<1> HIDE DEF Kept, kept, n, k
<1>3. created' \in Nat /\ entry' \in [Keys -> Nat] /\ made' \in [Keys -> SUBSET Nat]
  BY <1>1, <1>2 DEF WindowInv, None
<1>4. \A j \in Keys : j # k => Fresh(j)' = {} \/ Fresh(j)' \subseteq Fresh(j)
  BY <1>2 DEF Fresh, WindowInv
<1>5. ASSUME NEW j \in Keys, j = k
      PROVE  Fresh(j)' \subseteq Fresh(j) \/ Fresh(j)' \subseteq {n}
  <2>1. made'[j] = made[j] \cup {n}
    BY <1>2, <1>5
  <2>2. CASE c \in misled
    BY <1>2, <2>1, <2>2 DEF Fresh
  <2>3. CASE c \notin misled
    <3>1. Fresh(j) = {} /\ remade' = remade
      BY <1>1, <1>2, <1>5, <2>3
    <3>. QED  BY <2>1, <3>1 DEF Fresh
  <2>. QED  BY <2>2, <2>3
<1>6. ASSUME NEW j \in Keys, entry'[j] = None \/ j \in lapsed'
      PROVE  Fresh(j)' = {}
  <2>1. j # k
    BY <1>6, <1>1, <1>2
  <2>2. CASE Kept(j)
    <3>1. entry'[j] = entry[j] /\ (j \in lapsed' => j \in lapsed)
      BY <1>2, <2>1, <2>2
    <3>2. Fresh(j) = {}
      BY <3>1, <1>6 DEF WindowInv
    <3>. QED  BY <3>2, <2>1, <1>4
  <2>3. CASE ~Kept(j)
    <3>1. made'[j] = {}
      BY <1>2, <2>1, <2>3
    <3>. QED  BY <3>1 DEF Fresh
  <2>. QED  BY <2>2, <2>3
<1>7. \A j \in Keys : owner'[j] # NoOne /\ owner'[j] \notin misled' => Fresh(j)' = {}
  <2>1. \A j \in Keys : owner'[j] # NoOne => j # k /\ owner'[j] = owner[j]
    BY <1>1, <1>2 DEF Reserved
  <2>. QED  BY <2>1, <1>2, <1>4 DEF WindowInv
<1>8. \A j \in Keys : \A i \in 1..Len(waiting'[j]) : waiting'[j][i] \notin misled' => Fresh(j)' = {}
  <2>1. \A j \in Keys : \A i \in 1..Len(waiting'[j]) : j # k /\ waiting'[j] = waiting[j]
    BY <1>1, <1>2 DEF Reserved
  <2>. QED  BY <2>1, <1>2, <1>4 DEF WindowInv
<1>9. \A j \in Keys : \A x, y \in Fresh(j)' : x = y
  BY <1>4, <1>5 DEF WindowInv
<1>. QED  BY <1>3, <1>6, <1>7, <1>8, <1>9 DEF WindowInv

LEMMA CreateFailsKeepsWindow ==
  ASSUME Reserved, WindowInv, NEW c \in Callers, CreateFails(c)
  PROVE  WindowInv'
<1> USE IdempotencyAssumption
<1> DEFINE k == key[c]
<1>0. k \in Keys /\ waiting[k] \in Seq(Callers)
  BY DEF Reserved
<1>1. UNCHANGED <<created, entry, lapsed, made, misled, remade>>
  BY DEF CreateFails, graph, table, history
<1>2. \A j \in Keys : Fresh(j)' = Fresh(j)
  BY <1>1 DEF Fresh
<1>3. CASE waiting[k] = << >>
  <2>1. owner' = [owner EXCEPT ![k] = NoOne] /\ waiting' = waiting
    BY <1>3 DEF CreateFails
  <2>2. \A j \in Keys : owner'[j] # NoOne => owner'[j] = owner[j]
    BY <1>0, <2>1 DEF Reserved
  <2>. QED  BY <1>1, <1>2, <2>1, <2>2 DEF WindowInv
<1>4. CASE waiting[k] # << >>
  <2>1. owner' = [owner EXCEPT ![k] = Head(waiting[k])] /\ waiting' = [waiting EXCEPT ![k] = Tail(waiting[k])]
    BY <1>4 DEF CreateFails
  <2>2. /\ 1 \in 1..Len(waiting[k]) /\ Head(waiting[k]) = waiting[k][1]
        /\ Len(Tail(waiting[k])) = Len(waiting[k]) - 1
        /\ \A i \in 1..Len(Tail(waiting[k])) :
             i + 1 \in 1..Len(waiting[k]) /\ Tail(waiting[k])[i] = waiting[k][i + 1]
    BY <1>0, <1>4
  <2> HIDE DEF k
  <2>3. \A j \in Keys : owner'[j] = owner[j] \/ (j = k /\ owner'[j] = waiting[k][1])
    BY <1>0, <2>1, <2>2 DEF Reserved
  <2>4. \A j \in Keys : waiting'[j] = waiting[j] \/ (j = k /\ waiting'[j] = Tail(waiting[k]))
    BY <1>0, <2>1 DEF Reserved
  <2>5. \A j \in Keys : owner'[j] # NoOne /\ owner'[j] \notin misled => Fresh(j) = {}
    BY <2>2, <2>3 DEF WindowInv
  <2>6. \A j \in Keys : \A i \in 1..Len(waiting'[j]) : waiting'[j][i] \notin misled => Fresh(j) = {}
    BY <1>0, <2>2, <2>4 DEF WindowInv
  <2>. QED  BY <1>1, <1>2, <2>5, <2>6 DEF WindowInv
<1>. QED  BY <1>3, <1>4

LEMMA WindowStep == Reserved /\ WindowInv /\ [Next]_vars => WindowInv'
<1> SUFFICES ASSUME Reserved, WindowInv, [Next]_vars PROVE WindowInv'
  OBVIOUS
<1> USE IdempotencyAssumption
<1>0. /\ \A j \in Keys : owner[j] # NoOne => pc[owner[j]] = "creating"
      /\ \A j \in Keys : \A i \in 1..Len(waiting[j]) : pc[waiting[j][i]] = "waiting"
  BY DEF Reserved
<1>1. ASSUME NEW c \in Callers, NEW k \in Keys, RunKnown(c, k)
      PROVE  WindowInv'
  <2>1. /\ pc[c] = "idle" /\ misled' = misled \ {c}
        /\ UNCHANGED <<created, entry, lapsed, owner, waiting, made, remade>>
    BY <1>1 DEF RunKnown, graph, table, inflight
  <2>2. /\ \A j \in Keys : owner[j] # NoOne => owner[j] # c
        /\ \A j \in Keys : \A i \in 1..Len(waiting[j]) : waiting[j][i] # c
    BY <1>0, <2>1
  <2>. QED  BY <2>1, <2>2 DEF WindowInv, Fresh
<1>2. ASSUME NEW c \in Callers, NEW k \in Keys, RunNew(c, k)
      PROVE  WindowInv'
  <2>1. /\ Fresh(k) = {} /\ entry' = [entry EXCEPT ![k] = None] /\ lapsed' = lapsed \ {k}
        /\ pc[c] = "idle" /\ misled' = misled \ {c} /\ JoinOrOwn(c, k)
        /\ UNCHANGED <<created, made, remade>>
    BY <1>2 DEF RunNew, WindowInv, graph
  <2>2. \A j \in Keys : Fresh(j)' = Fresh(j)
    BY <2>1 DEF Fresh
  <2>3. /\ \A j \in Keys : owner'[j] # NoOne /\ owner'[j] \notin misled' => Fresh(j) = {}
        /\ \A j \in Keys : \A i \in 1..Len(waiting'[j]) :
             waiting'[j][i] \notin misled' => Fresh(j) = {}
    BY <2>1, JoinOrOwnFresh
  <2>4. /\ entry' \in [Keys -> Nat]
        /\ \A j \in Keys : entry'[j] = None \/ j \in lapsed' => Fresh(j) = {}
    BY <2>1 DEF WindowInv, None
  <2>. QED  BY <2>1, <2>2, <2>3, <2>4 DEF WindowInv
<1>3. ASSUME NEW c \in Callers, Fetched(c)
      PROVE  WindowInv'
  <2>1. UNCHANGED <<created, entry, lapsed, made, remade>> /\ \A j \in Keys : Fresh(j)' = Fresh(j)
    BY <1>3 DEF Fetched, graph, table, Fresh
  <2>2. CASE node[c] \in exists
    <3>1. UNCHANGED <<owner, waiting, misled>>
      BY <1>3, <2>2 DEF Fetched, inflight
    <3>. QED  BY <2>1, <3>1 DEF WindowInv
  <2>3. CASE node[c] \notin exists
    <3>1. pc[c] = "fetching" /\ key[c] \in Keys /\ JoinOrOwn(c, key[c]) /\ misled' = misled \cup {c}
      BY <1>3, <2>3 DEF Fetched, Reserved
    <3>2. /\ \A j \in Keys : owner'[j] # NoOne /\ owner'[j] \notin misled' => Fresh(j) = {}
          /\ \A j \in Keys : \A i \in 1..Len(waiting'[j]) :
               waiting'[j][i] \notin misled' => Fresh(j) = {}
      BY <3>1, JoinOrOwnFresh
    <3>. QED  BY <2>1, <3>2 DEF WindowInv
  <2>. QED  BY <2>2, <2>3
<1>4. ASSUME NEW k \in Keys, Lapse(k)
      PROVE  WindowInv'
  <2>1. /\ lapsed' = lapsed \cup {k} /\ made' = [made EXCEPT ![k] = {}]
        /\ UNCHANGED <<created, entry, owner, waiting, misled, remade>>
    BY <1>4 DEF Lapse, graph, inflight
  <2>2. /\ Fresh(k)' = {} /\ \A j \in Keys : j # k => Fresh(j)' = Fresh(j)
        /\ made' \in [Keys -> SUBSET Nat]
    BY <2>1 DEF Fresh, WindowInv
  <2>. QED  BY <2>1, <2>2 DEF WindowInv
<1>5. ASSUME NEW n \in exists, Delete(n)
      PROVE  WindowInv'
  BY <1>5 DEF Delete, table, inflight, history, WindowInv, Fresh
<1>6. CASE UNCHANGED vars
  BY <1>6 DEF vars, graph, table, inflight, history, WindowInv, Fresh
<1>. QED  BY <1>1, <1>2, <1>3, <1>4, <1>5, <1>6, CreateDoneKeepsWindow, CreateFailsKeepsWindow DEF Next

\* For any requests, deletes, lapses, failures and table size: within a window, the
\* requests that did not find their node deleted make one node (run()).
THEOREM RetriesMakeOneNode == Spec => []OneNodePerKey
<1>1. WindowInv => OneNodePerKey
  BY DEF WindowInv, Fresh, OneNodePerKey
<1>2. Reserved /\ WindowInv /\ [Next]_vars => (Reserved /\ WindowInv)'
  BY ReservedStep, WindowStep
<1>. QED  BY <1>1, <1>2, ReservedInit, WindowInit, PTL DEF Spec

(***************************************************************************)
(* The file of a session follows its state machine, for any number of      *)
(* hooks and starts of the daemon, if the agent runs its hooks one by one. *)
(***************************************************************************)

\* What the agent is doing is what its events said.
Agreeing ==
  /\ agent = "off"  <=> truth \in {"none", "ended"}
  /\ agent = "idle" <=> truth = "idle"
  /\ agent = "turn" <=> truth = "active"

\* The file says what the events announced so far lead to.
Followed == \/ state = truth
            \/ truth = "ended" /\ state = "none" /\ aged

\* Where the hook of an event that sets the phase is to lead.
Aimed(h) == /\ h.event = "TurnStart" => truth = "active"
            /\ h.event = "TurnEnd" => truth = "idle"
            /\ h.event = "SessionStop" => truth = "ended"

\* It will, once the agent's hook has saved: the hook's event leads from what the
\* file says to the phase it has to say.
Pending ==
  LET h == hooks["agent"]
  IN  /\ truth = Transition(state, h.event)
      /\ h.event = "TurnEnd" => state = "active"
      /\ h.event \in {"Compaction", "SessionStop"} => state \in {"idle", "active"}
      /\ h.at = "reload" => h.event = "TurnStart" /\ state # "none" /\ ~aged
      /\ h.at = "unlink" => h.event \in {"SessionStart", "TurnStart"}

SessionTyped ==
  /\ agent \in {"off", "idle", "turn"} /\ truth \in Phases /\ state \in Phases
  /\ aged \in BOOLEAN /\ astray \in BOOLEAN
  /\ hooks \in [Runners -> [event : Announcements \cup {"none", "GitCommit"},
                            at : {"done", "load", "reload", "unlink", "save"}, loaded : Phases]]

SessionInv ==
  /\ SessionTyped
  /\ hooks["agent2"].at = "done"
  /\ hooks["git"].event \in {"none", "GitCommit"}
  /\ hooks["agent"].at # "done" => hooks["agent"].event \in Announcements
  /\ hooks["git"].at # "reload"
  /\ hooks["git"].at = "save" => hooks["git"].loaded # "none"
  /\ aged => state \in {"ended", "none"}
  /\ Agreeing
  /\ hooks["agent"].at # "done" => Aimed(hooks["agent"])
  /\ ~astray /\ hooks["agent"].at = "done" => Followed
  /\ ~astray /\ hooks["agent"].at # "done" => Pending

USE DEF Runners, Phases, Announcements

LEMMA SessionInvInit == SessionInit => SessionInv
<1> SUFFICES ASSUME SessionInit PROVE SessionInv
  OBVIOUS
<1>1. \A r \in Runners : hooks[r] = NoHook
  BY DEF SessionInit
<1>2. hooks \in [Runners -> [event : Announcements \cup {"none", "GitCommit"},
                            at : {"done", "load", "reload", "unlink", "save"}, loaded : Phases]]
  BY DEF SessionInit, NoHook
<1>3. SessionTyped /\ Agreeing /\ Followed
  BY <1>2 DEF SessionInit, SessionTyped, Agreeing, Followed
<1>4. QED
  BY <1>1, <1>3 DEF SessionInit, SessionInv, NoHook

LEMMA DispatchKeeps ==
  ASSUME OneByOne, SessionInv, NEW event \in Announcements, Dispatch("agent", event)
  PROVE  SessionInv'
<1> USE DEF SessionInv
<1>1. /\ hooks["agent"].at = "done" /\ UNCHANGED <<state, aged, astray>>
      /\ hooks' = [hooks EXCEPT !["agent"] = [event |-> event, at |-> "load", loaded |-> "none"]]
      /\ truth' = Transition(truth, event) /\ Lawful(event) # "never" /\ agent' = Lawful(event)
  BY DEF Dispatch, Announce, fileVars
<1>2. SessionTyped' /\ Agreeing'
  BY <1>1 DEF SessionTyped, Agreeing, Lawful, Transition, TransitionFromIdle, TransitionFromActive, TransitionFromEnded
<1>3. hooks'["agent2"] = hooks["agent2"] /\ hooks'["git"] = hooks["git"]
      /\ hooks'["agent"] = [event |-> event, at |-> "load", loaded |-> "none"]
  BY <1>1 DEF SessionTyped
<1>a. Aimed(hooks["agent"])'
  BY <1>1, <1>3 DEF Aimed, Agreeing, Lawful, SessionTyped,
       Transition, TransitionFromIdle, TransitionFromActive, TransitionFromEnded
<1>4. ASSUME ~astray PROVE Pending'
  <2>1. Followed
    BY <1>1, <1>4
  <2>2. QED
    BY <1>1, <1>3, <2>1 DEF Pending, Followed, Agreeing, Lawful, SessionTyped,
         Transition, TransitionFromIdle, TransitionFromActive, TransitionFromEnded
<1>5. QED
  BY <1>1, <1>2, <1>3, <1>a, <1>4

LEMMA LoadKeeps ==
  ASSUME SessionInv, NEW r \in Runners, Load(r)
  PROVE  SessionInv'
<1> USE DEF SessionInv
<1>1. PICK at \in {"unlink", "done", "save"} :
        /\ hooks' = [hooks EXCEPT ![r].at = at, ![r].loaded = state]
        /\ at = "unlink" <=> aged /\ state = "ended"
        /\ at = "done" => state = "none" /\ ~(Makes(r) /\ hooks[r].at = "load")
        /\ at = "save" => state # "none" \/ (Makes(r) /\ hooks[r].at = "load")
  BY DEF Load, Go, SessionTyped
<1>2. hooks[r].at \in {"load", "reload"} /\ UNCHANGED <<state, aged, astray, truth, agent>>
  BY DEF Load, fileVars
<1>3. SessionTyped' /\ Agreeing'
  BY <1>1, <1>2 DEF SessionTyped, Agreeing
<1>4. /\ \A q \in Runners : q # r => hooks'[q] = hooks[q]
      /\ hooks'[r].event = hooks[r].event /\ hooks'[r].at = at /\ hooks'[r].loaded = state
  BY <1>1 DEF SessionTyped
<1>5. CASE r = "agent"
  BY <1>1, <1>2, <1>3, <1>4, <1>5 DEF Pending, Followed, Makes, Transition, Aimed
<1>6. CASE r = "git"
  BY <1>1, <1>2, <1>3, <1>4, <1>6 DEF Pending, Followed, Makes, Aimed
<1>7. QED
  BY <1>2, <1>5, <1>6

LEMMA UnlinkKeeps ==
  ASSUME SessionInv, NEW r \in Runners, Unlink(r)
  PROVE  SessionInv'
<1> USE DEF SessionInv
<1>1. PICK at \in {"done", "save"} :
        /\ hooks' = [hooks EXCEPT ![r].at = at, ![r].loaded = "none"]
        /\ at = "save" <=> Makes(r)
  BY DEF Unlink, Go, SessionTyped
<1>2. /\ hooks[r].at = "unlink" /\ UNCHANGED <<aged, truth, agent>>
      /\ \/ state' = "none" /\ astray' = (astray \/ (state # "none" /\ ~aged))
         \/ UNCHANGED <<state, astray>>
  BY DEF Unlink, Write, fileVars
<1>3. SessionTyped' /\ Agreeing'
  BY <1>1, <1>2 DEF SessionTyped, Agreeing
<1>4. /\ \A q \in Runners : q # r => hooks'[q] = hooks[q]
      /\ hooks'[r].event = hooks[r].event /\ hooks'[r].at = at /\ hooks'[r].loaded = "none"
  BY <1>1 DEF SessionTyped
<1>a. astray' \in BOOLEAN /\ (~astray' => ~astray) /\ (aged' => state' \in {"ended", "none"})
  BY <1>2 DEF SessionTyped
<1>5. CASE r = "agent"
  <2>1. at = "save" => Aimed(hooks["agent"])'
    BY <1>2, <1>4, <1>5 DEF Aimed
  <2>2. ASSUME ~astray' PROVE Pending' /\ at = "save"
    <3>1. Pending /\ hooks["agent"].event \in {"SessionStart", "TurnStart"}
      BY <1>2, <1>5, <1>a, <2>2 DEF Pending
    <3>2. at = "save" /\ hooks'["agent"].at = "save" /\ hooks'["agent"].event = hooks["agent"].event
      BY <1>1, <1>4, <1>5, <3>1 DEF Makes
    <3>3. CASE state' = state
      BY <1>2, <3>1, <3>2, <3>3 DEF Pending
    <3>4. CASE state' = "none" /\ state # "none"
      <4>1. state = "ended"
        BY <1>2, <2>2, <3>4
      <4>2. QED
        BY <1>2, <3>1, <3>2, <3>4, <4>1 DEF Pending, Transition, TransitionFromEnded
    <3>5. QED
      BY <1>2, <3>3, <3>4
  <2>3. QED
    BY <1>1, <1>2, <1>3, <1>4, <1>5, <1>a, <2>1, <2>2
<1>6. CASE r = "git"
  <2>1. /\ hooks'["agent"] = hooks["agent"] /\ hooks'["agent2"] = hooks["agent2"]
        /\ hooks'["git"].at = "done" /\ hooks'["git"].event = hooks["git"].event
    BY <1>1, <1>4, <1>6 DEF Makes
  <2>2. Aimed(hooks["agent"]) => Aimed(hooks["agent"])'
    BY <1>2, <2>1 DEF Aimed
  <2>3. ASSUME ~astray' PROVE (Followed => Followed') /\ (hooks["agent"].at # "done" /\ Pending => Pending')
    <3>1. CASE state' = state
      BY <1>2, <2>1, <3>1 DEF Followed, Pending
    <3>2. CASE state' = "none" /\ state # "none"
      <4>1. state = "ended" /\ aged
        BY <1>2, <2>3, <3>2
      <4>2. QED
        BY <1>2, <2>1, <3>2, <4>1 DEF Followed, Pending, Transition, TransitionFromEnded, Agreeing
    <3>3. QED
      BY <1>2, <3>1, <3>2
  <2>4. QED
    BY <1>3, <1>a, <2>1, <2>2, <2>3
<1>7. QED
  BY <1>2, <1>5, <1>6

LEMMA SaveKeeps ==
  ASSUME SessionInv, NEW r \in Runners, Save(r)
  PROVE  SessionInv'
<1> USE DEF SessionInv
<1> DEFINE makes == hooks[r].event = "TurnStart" /\ hooks[r].loaded = "none"
           at == IF makes THEN "reload" ELSE "done"
<1>1. hooks' = [hooks EXCEPT ![r].at = at, ![r].loaded = "none"]
  BY DEF Save, Go
<1>2. /\ hooks[r].at = "save" /\ UNCHANGED <<truth, agent>> /\ aged' = FALSE
      /\ state' = Handled(IF makes THEN "SessionStart" ELSE hooks[r].event, hooks[r].loaded)
      /\ astray' = IF Sets(hooks[r].event) /\ ~makes THEN FALSE ELSE (astray \/ Overwrites(r))
  BY DEF Save, Write
<1>a. state' \in Phases
  <2>1. hooks[r].loaded \in Phases
    BY DEF SessionTyped
  <2>2. \A e : Handled(e, hooks[r].loaded) \in Phases
    BY <2>1 DEF Handled
  <2>3. QED  BY <1>2, <2>2
<1>b. hooks' \in [Runners -> [event : Announcements \cup {"none", "GitCommit"},
                             at : {"done", "load", "reload", "unlink", "save"}, loaded : Phases]]
  <2>1. at \in {"done", "load", "reload", "unlink", "save"} /\ "none" \in Phases
    OBVIOUS
  <2>2. QED  BY <1>1, <2>1 DEF SessionTyped
<1>3. SessionTyped' /\ Agreeing'
  <2>1. astray' \in BOOLEAN
    BY <1>2
  <2>2. QED  BY <1>2, <1>a, <1>b, <2>1 DEF SessionTyped, Agreeing
<1>4. /\ \A q \in Runners : q # r => hooks'[q] = hooks[q]
      /\ hooks'[r].event = hooks[r].event /\ hooks'[r].at = at /\ hooks'[r].loaded = "none"
  BY <1>1 DEF SessionTyped
<1>c. \A e : Sets(e) <=> e \in {"TurnStart", "TurnEnd", "SessionStop"}
  BY DEF Sets
<1>5. CASE r = "agent"
  <2>1. at # "done" => Aimed(hooks["agent"])'
    BY <1>2, <1>4, <1>5 DEF Aimed
  <2>2. SUFFICES ASSUME ~astray'
                 PROVE  /\ at = "done" => Followed'
                        /\ at # "done" => Pending'
    <3>1. /\ hooks'["agent2"] = hooks["agent2"] /\ hooks'["git"] = hooks["git"]
          /\ hooks'["agent"].event = hooks["agent"].event /\ hooks'["agent"].at = at /\ ~aged'
          /\ hooks["agent"].at # "done"
      BY <1>2, <1>4, <1>5
    <3> HIDE DEF at, makes
    <3>2. QED
      BY <1>3, <2>1, <3>1
  <2>3. hooks[r].event \in Announcements
    BY <1>2, <1>5
  <2>4. CASE Sets(hooks[r].event) /\ ~makes
    <3>1. Aimed(hooks["agent"])
      BY <1>2, <1>5
    <3>2. state' = truth'
      BY <1>2, <1>5, <1>c, <2>4, <3>1 DEF Aimed, Handled
    <3>3. QED
      BY <2>4, <3>2 DEF Followed
  <2>5. CASE ~(Sets(hooks[r].event) /\ ~makes)
    <3>1. /\ Pending
          /\ state = hooks[r].loaded \/ (hooks[r].loaded = "none" /\ state = "ended")
      BY <1>2, <1>5, <2>2, <2>5 DEF Overwrites
    <3>2. CASE makes
      BY <1>2, <1>4, <1>5, <3>1, <3>2 DEF Pending, Handled, Transition, TransitionFromIdle, TransitionFromEnded
    <3>3. CASE ~makes
      <4>1. hooks[r].event \in {"SessionStart", "Compaction"}
        BY <1>c, <2>3, <2>5, <3>3
      <4>2. state' = truth'
        BY <1>2, <1>5, <3>1, <3>3, <4>1 DEF Pending, Handled, SessionTyped,
           Transition, TransitionFromIdle, TransitionFromActive, TransitionFromEnded
      <4>3. QED
        BY <3>3, <4>2 DEF Followed
    <3>4. QED
      BY <3>2, <3>3
  <2>6. QED
    BY <2>4, <2>5
<1>6. CASE r = "git"
  <2>1. /\ hooks[r].event = "GitCommit" \/ hooks[r].event = "none"
        /\ hooks[r].loaded # "none" /\ ~makes /\ at = "done"
    BY <1>2, <1>6
  <2>2. astray' = (astray \/ Overwrites(r)) /\ state' = hooks[r].loaded
    BY <1>2, <1>c, <2>1 DEF Handled
  <2>3. ~astray' => ~astray /\ state' = state
    BY <2>1, <2>2 DEF Overwrites
  <2>4. QED
    BY <1>1, <1>2, <1>3, <1>4, <1>6, <2>1, <2>2, <2>3 DEF Pending, Followed, Aimed
<1>7. QED
  BY <1>2, <1>5, <1>6

\* A hook that ends without a save leads the file astray, unless it had nothing to
\* change in it.
LEMMA HookFailsKeeps ==
  ASSUME SessionInv, NEW r \in Runners, HookFails(r)
  PROVE  SessionInv'
<1> USE DEF SessionInv
<1>1. /\ hooks' = [hooks EXCEPT ![r].at = "done", ![r].loaded = "none"]
      /\ hooks[r].at # "done" /\ UNCHANGED <<state, aged, truth, agent>>
      /\ astray' = (astray \/ hooks[r].event \notin {"Compaction", "GitCommit"})
  BY DEF HookFails, Go, fileVars
<1>2. SessionTyped' /\ Agreeing'
  BY <1>1 DEF SessionTyped, Agreeing
<1>3. /\ \A q \in Runners : q # r => hooks'[q] = hooks[q]
      /\ hooks'[r].event = hooks[r].event /\ hooks'[r].at = "done" /\ hooks'[r].loaded = "none"
  BY <1>1 DEF SessionTyped
<1>4. CASE r = "agent"
  <2>1. ~astray' => Followed
    BY <1>1, <1>4 DEF Pending, Followed, Transition, TransitionFromIdle, TransitionFromActive, SessionTyped
  <2>2. QED
    BY <1>1, <1>2, <1>3, <1>4, <2>1 DEF Followed
<1>5. CASE r = "git"
  BY <1>1, <1>2, <1>3, <1>5 DEF Pending, Followed, Aimed
<1>6. QED
  BY <1>1, <1>4, <1>5

LEMMA SessionInvStep == OneByOne /\ SessionInv /\ [SessionNext]_sessionVars => SessionInv'
<1> SUFFICES ASSUME OneByOne, SessionInv, [SessionNext]_sessionVars PROVE SessionInv'
  OBVIOUS
<1>1. ASSUME NEW event \in Announcements, Dispatch("agent", event) PROVE SessionInv'
  BY <1>1, DispatchKeeps
<1>2. CASE PostCommit
  BY <1>2 DEF PostCommit, Announce, fileVars, SessionInv, SessionTyped, Agreeing, Followed, Pending, Aimed
<1>3. CASE GetsOld
  BY <1>3 DEF GetsOld, fileVars, SessionInv, SessionTyped, Agreeing, Followed, Pending, Aimed
<1>4. ASSUME NEW r \in Runners, Load(r) \/ Unlink(r) \/ Save(r) \/ HookFails(r) PROVE SessionInv'
  BY <1>4, LoadKeeps, UnlinkKeeps, SaveKeeps, HookFailsKeeps
<1>5. CASE UNCHANGED <<state, hookVars>>
  BY <1>5 DEF hookVars, SessionInv, SessionTyped, Agreeing, Followed, Pending, Aimed
<1>6. CASE \/ StartWatcher \/ WatcherReady \/ StopWatcher \/ Debounced \/ Deleted
           \/ Close \/ CloseFails \/ UNCHANGED sessionVars
  BY <1>5, <1>6 DEF StartWatcher, WatcherReady, StopWatcher, Debounced, Deleted, Close, CloseFails,
       sessionVars, fileVars
<1>7. ASSUME SessionNext PROVE SessionInv'
  <2>1. \/ \E event \in Announcements : Dispatch("agent", event)
        \/ PostCommit \/ GetsOld
        \/ \E r \in Runners : Load(r) \/ Unlink(r) \/ Save(r) \/ HookFails(r)
        \/ StartWatcher \/ WatcherReady \/ StopWatcher \/ Debounced \/ Deleted \/ Close \/ CloseFails
    BY <1>7 DEF SessionNext
  <2>2. QED
    BY <2>1, <1>1, <1>2, <1>3, <1>4, <1>6
<1>8. QED
  BY <1>6, <1>7

\* A session's file says the phase its state machine is in whenever no hook is
\* running, unless a hook was lost, or wrote over another's write, since the last
\* one that sets the phase was saved: hooks/lifecycle.ts and the post-commit hook,
\* with the stale files the load unlinks and the hooks that throw or are killed.
THEOREM FileFollows == OneByOne => (SessionSpec => []FileFollowsMachine)
<1> SUFFICES ASSUME OneByOne PROVE SessionSpec => []FileFollowsMachine
  OBVIOUS
<1>1. SessionInv /\ [SessionNext]_sessionVars => SessionInv'
  BY SessionInvStep
<1>2. SessionInv => FileFollowsMachine
  BY DEF SessionInv, FileFollowsMachine, Followed
<1>3. QED
  BY <1>1, <1>2, SessionInvInit, PTL DEF SessionSpec
=============================================================================
