---------------------------- MODULE ClaimProofs ----------------------------
(***************************************************************************)
(* Proofs about TaskClaims, for any tasks, sessions, agents, leases and    *)
(* bounds, and about ClaimPersistence, for any number of restarts.         *)
(***************************************************************************)
EXTENDS ClaimPersistence, TLAPS

(***************************************************************************)
(* Every step is one of five kinds; the kinds are what the proofs split on.*)
(***************************************************************************)
\* A step that leaves claims, tokens and the clock alone.
Elsewhere ==
  /\ \A t \in Tasks : /\ row'[t].claimedBy = row[t].claimedBy
                      /\ row'[t].lockUntil = row[t].lockUntil
                      /\ row'[t].fence = row[t].fence
  /\ UNCHANGED <<now, token, cut>>

\* The type of the variables is preserved by every step.
LEMMA TypeStep == TypeOK /\ [Next]_vars => TypeOK'
<1> USE ConstantsAssumption DEF TypeOK, Row, Token, Statuses
<1>2. TypeOK /\ [Next]_vars => TypeOK'
  <2> SUFFICES ASSUME TypeOK, [Next]_vars PROVE TypeOK'
    OBVIOUS
  <2>0. ASSUME NEW w \in Workers, NEW t \in Tasks, NEW force \in BOOLEAN, NEW lease \in Leases,
               ClaimLands(w, t, force, lease)
        PROVE  row' \in [Tasks -> Row] /\ token' \in [Workers -> [Tasks -> Token]]
               /\ cut' \subseteq Workers \X Tasks
    <3>1. AgentOf[w] \in Agents /\ lease \in Nat /\ row[t] \in Row
      OBVIOUS
    <3>2. row[t].fence + 1 \in Nat /\ now + lease \in Nat
      BY <3>1
    <3>3. row' \in [Tasks -> Row]
      BY <2>0, <3>1, <3>2 DEF ClaimLands
    <3>4. token' \in [Workers -> [Tasks -> Token]]
      BY <2>0, <3>1, <3>2 DEF ClaimLands
    <3>5. cut' \subseteq Workers \X Tasks
      BY <2>0 DEF ClaimLands, Siblings
    <3>6. QED  BY <3>3, <3>4, <3>5
  <2>1. ASSUME NEW w \in Workers, NEW t \in Tasks, NEW force \in BOOLEAN, NEW lease \in Leases,
               Claim(w, t, force, lease)
        PROVE  TypeOK'
    BY <2>0, <2>1 DEF Claim
  <2>2. ASSUME NEW w \in Workers, NEW t \in Tasks, NEW fenced \in BOOLEAN, Release(w, t, fenced)
        PROVE  TypeOK'
    <3>1. row' \in [Tasks -> Row]
      BY <2>2 DEF Release, Unclaimed
    <3>2. token' \in [Workers -> [Tasks -> Token]]
      BY <2>2 DEF Release, NoToken
    <3>3. cut' \subseteq Workers \X Tasks
      BY <2>2 DEF Release, Siblings
    <3>4. QED  BY <3>1, <3>2, <3>3, <2>2 DEF Release
  <2>3. ASSUME NEW w \in Workers, NEW t \in Tasks, NEW fenced \in BOOLEAN, NEW lease \in Leases,
               Renew(w, t, fenced, lease)
        PROVE  TypeOK'
    <3>0. now + lease \in Nat /\ row[t].fence \in Nat /\ row[t] \in Row
      OBVIOUS
    <3>1. row' \in [Tasks -> Row]
      <4>1. row' = [row EXCEPT ![t].lockUntil = now + lease]
        BY <2>3 DEF Renew
      <4>2. [row[t] EXCEPT !.lockUntil = now + lease] \in Row
        BY <3>0
      <4>3. QED  BY <4>1, <4>2
    <3>2. token' \in [Workers -> [Tasks -> Token]]
      BY <2>3, <3>0 DEF Renew
    <3>3. cut' \subseteq Workers \X Tasks
      BY <2>3 DEF Renew, Siblings
    <3>4. QED  BY <3>1, <3>2, <3>3, <2>3 DEF Renew
  <2>4. CASE SweepExpiredClaims
    BY <2>4 DEF SweepExpiredClaims, Unclaimed
  <2>5. ASSUME NEW w \in Workers, ClaimNextStart(w)
        PROVE  TypeOK'
    BY <2>5 DEF ClaimNextStart
  <2>6. ASSUME NEW w \in Workers, NEW t \in Tasks, NEW lease \in Leases, ClaimNextTake(w, t, lease)
        PROVE  TypeOK'
    BY <2>0, <2>6 DEF ClaimNextTake
  <2>7. ASSUME NEW w \in Workers, NEW t \in Tasks, ClaimNextSkip(w, t)
        PROVE  TypeOK'
    BY <2>7 DEF ClaimNextSkip
  <2>8. ASSUME NEW t \in Tasks, NEW action \in TaskActions, Transition(t, action)
        PROVE  TypeOK'
    <3>1. StatusAfter(action) \in Statuses
      <4>1. action \in {"start", "block", "close", "abandon", "complete", "fail", "reopen"}
        BY <2>8 DEF Transition, ValidActions
      <4>2. QED  BY <4>1 DEF StatusAfter
    <3>2. row' \in [Tasks -> Row]
      BY <2>8, <3>1 DEF Transition
    <3>3. QED  BY <2>8, <3>2 DEF Transition
  <2>9. ASSUME NEW t \in Tasks, SetArchived(t)
        PROVE  TypeOK'
    BY <2>9 DEF SetArchived
  <2>10. CASE Tick
    BY <2>10 DEF Tick
  <2>11. CASE UNCHANGED vars
    BY <2>11 DEF vars
  <2>12. QED
    BY <2>1, <2>2, <2>3, <2>4, <2>5, <2>6, <2>7, <2>8, <2>9, <2>10, <2>11
       DEF Next, ClaimStep, ClaimNextStep, GraphStep
<1>3. QED
  BY <1>2

\* Every variable keeps its type (TaskClaims!Spec).
THEOREM TypeCorrect == Spec => []TypeOK
<1>1. Init => TypeOK
  BY ConstantsAssumption DEF Init, NoToken, TypeOK, Row, Token, Statuses
<1>2. QED
  BY <1>1, TypeStep, PTL DEF Spec

(***************************************************************************)
(* The inductive invariant.  Its step proof looks at one session w and one *)
(* task t, and at the four ways a claim, a token or the clock can change.  *)
(***************************************************************************)
IInv == TypeOK /\ LeaseHonoured /\ FenceBound /\ FenceOwner /\ FenceIdentifiesAgent

\* Every step is a claim, a release, a renewal, a sweep, a tick of the clock or
\* a step that leaves claims and tokens alone.
LEMMA StepKinds ==
  ASSUME TypeOK, [Next]_vars
  PROVE  \/ \E w \in Workers, t \in Tasks, force \in BOOLEAN, lease \in Leases :
              ClaimLands(w, t, force, lease) /\ now' = now
         \/ \E w \in Workers, t \in Tasks, fenced \in BOOLEAN : Release(w, t, fenced)
         \/ \E w \in Workers, t \in Tasks, fenced \in BOOLEAN, lease \in Leases :
              Renew(w, t, fenced, lease)
         \/ SweepExpiredClaims
         \/ Tick
         \/ Elsewhere
<1>1. ASSUME NEW t \in Tasks, NEW action \in TaskActions, Transition(t, action)
      PROVE  Elsewhere
  BY <1>1 DEF Transition, Elsewhere, TypeOK, Row
<1>2. ASSUME NEW t \in Tasks, SetArchived(t)
      PROVE  Elsewhere
  BY <1>2 DEF SetArchived, Elsewhere, TypeOK, Row
<1>3. ASSUME NEW w \in Workers, ClaimNextStart(w) \/ \E t \in Tasks : ClaimNextSkip(w, t)
      PROVE  Elsewhere
  BY <1>3 DEF ClaimNextStart, ClaimNextSkip, Elsewhere
<1>4. CASE UNCHANGED vars
  BY <1>4 DEF vars, Elsewhere
<1>5. ASSUME NEW w \in Workers, NEW t \in Tasks, NEW lease \in Leases, ClaimNextTake(w, t, lease)
      PROVE  ClaimLands(w, t, FALSE, lease) /\ now' = now
  BY <1>5 DEF ClaimNextTake
<1>6. ASSUME NEW w \in Workers, NEW t \in Tasks, NEW force \in BOOLEAN, NEW lease \in Leases,
             Claim(w, t, force, lease)
      PROVE  ClaimLands(w, t, force, lease) /\ now' = now
  BY <1>6 DEF Claim
<1>7. QED
  BY <1>1, <1>2, <1>3, <1>4, <1>5, <1>6 DEF Next, ClaimStep, ClaimNextStep, GraphStep

\* What a claim that lands writes, field by field.
LEMMA ClaimLandsEffect ==
  ASSUME TypeOK, NEW w \in Workers, NEW t \in Tasks, NEW force \in BOOLEAN, NEW lease \in Leases,
         ClaimLands(w, t, force, lease)
  PROVE  /\ row'[t].claimedBy = AgentOf[w] /\ row'[t].lockUntil = now + lease
         /\ row'[t].fence = row[t].fence + 1
         /\ token'[w][t].fence = row[t].fence + 1 /\ token'[w][t].until = now + lease
         /\ \A s \in Tasks \ {t} : row'[s] = row[s]
         /\ \A v \in Workers, s \in Tasks : (v # w \/ s # t) => token'[v][s] = token[v][s]
         /\ \A v \in Workers, s \in Tasks :
              <<v, s>> \notin cut' /\ (v # w \/ s # t) =>
                /\ <<v, s>> \notin cut
                /\ (s = t => ~force /\ AgentOf[v] # AgentOf[w])
  BY DEF ClaimLands, TypeOK, Row, Token, Siblings

LEMMA ReleaseEffect ==
  ASSUME TypeOK, NEW w \in Workers, NEW t \in Tasks, NEW fenced \in BOOLEAN, Release(w, t, fenced)
  PROVE  /\ row[t].claimedBy = AgentOf[w]
         /\ row'[t].claimedBy = NoAgent /\ row'[t].lockUntil = 0 /\ row'[t].fence = row[t].fence
         /\ token'[w][t] = NoToken
         /\ \A s \in Tasks \ {t} : row'[s] = row[s]
         /\ \A v \in Workers, s \in Tasks : (v # w \/ s # t) => token'[v][s] = token[v][s]
         /\ \A v \in Workers, s \in Tasks :
              <<v, s>> \notin cut' => /\ <<v, s>> \notin cut
                                     /\ (s = t /\ v # w => AgentOf[v] # AgentOf[w])
  BY DEF Release, HeldFor, Unclaimed, TypeOK, Row, Token, Siblings

LEMMA RenewEffect ==
  ASSUME TypeOK, NEW w \in Workers, NEW t \in Tasks, NEW fenced \in BOOLEAN, NEW lease \in Leases,
         Renew(w, t, fenced, lease)
  PROVE  /\ row[t].claimedBy = AgentOf[w]
         /\ row'[t].claimedBy = AgentOf[w] /\ row'[t].lockUntil = now + lease
         /\ row'[t].fence = row[t].fence
         /\ token'[w][t].fence = row[t].fence /\ token'[w][t].until = now + lease
         /\ \A s \in Tasks \ {t} : row'[s] = row[s]
         /\ \A v \in Workers, s \in Tasks : (v # w \/ s # t) => token'[v][s] = token[v][s]
         /\ \A v \in Workers, s \in Tasks :
              <<v, s>> \notin cut' /\ (v # w \/ s # t) =>
                /\ <<v, s>> \notin cut
                /\ (s = t /\ AgentOf[v] = AgentOf[w] => now + lease >= row[t].lockUntil)
  BY ConstantsAssumption DEF Renew, HeldFor, TypeOK, Row, Token, Siblings

LEMMA SweepEffect ==
  ASSUME TypeOK, SweepExpiredClaims
  PROVE  /\ \A t \in Tasks :
              /\ row'[t].fence = row[t].fence
              /\ row'[t].claimedBy = row[t].claimedBy \/ row'[t].claimedBy = NoAgent
              /\ row[t].lockUntil > now => row'[t] = row[t]
         /\ UNCHANGED <<now, token, cut>>
<1>1. ASSUME NEW t \in Tasks
      PROVE  /\ row'[t].fence = row[t].fence
             /\ row'[t].claimedBy = row[t].claimedBy \/ row'[t].claimedBy = NoAgent
             /\ row[t].lockUntil > now => row'[t] = row[t]
  <2>1. row'[t] = IF Expired(row[t]) THEN Unclaimed(row[t]) ELSE row[t]
    BY DEF SweepExpiredClaims
  <2>2. row[t] \in Row /\ now \in Nat /\ row[t].lockUntil \in Nat
    BY DEF TypeOK, Row
  <2>3. Unclaimed(row[t]).fence = row[t].fence /\ Unclaimed(row[t]).claimedBy = NoAgent
    BY <2>2 DEF Unclaimed, Row
  <2>4. row[t].lockUntil > now => ~Expired(row[t])
    BY <2>2 DEF Expired
  <2>5. QED  BY <2>1, <2>3, <2>4
<1>2. QED
  BY <1>1 DEF SweepExpiredClaims

\* The invariant is preserved by every step.
LEMMA IInvStep == IInv /\ [Next]_vars => IInv'
<1> SUFFICES ASSUME IInv, [Next]_vars PROVE IInv'
  OBVIOUS
<1>0. TypeOK /\ TypeOK'
  BY TypeStep DEF IInv
<1> DEFINE Good == LeaseHonoured /\ FenceBound /\ FenceOwner /\ FenceIdentifiesAgent
<1>1. ASSUME NEW w \in Workers, NEW t \in Tasks, NEW force \in BOOLEAN, NEW lease \in Leases,
             ClaimLands(w, t, force, lease), now' = now
      PROVE  Good'
  <2> USE <1>0, ClaimLandsEffect, <1>1 DEF IInv, TypeOK, Row, Token
  <2>1. LeaseHonoured'
    <3> SUFFICES ASSUME NEW v \in Workers, NEW s \in Tasks, Live(v, s)', <<v, s>> \notin cut'
                 PROVE  /\ row'[s].claimedBy = AgentOf[v]
                        /\ row'[s].fence = token'[v][s].fence
                        /\ row'[s].lockUntil >= token'[v][s].until
      BY DEF LeaseHonoured
    <3>1. CASE v = w /\ s = t
      <4>1. now + lease \in Nat
        BY ConstantsAssumption
      <4>2. QED  BY <3>1, <4>1
    <3>2. CASE (v # w \/ s # t)
      <4>1. token'[v][s] = token[v][s] /\ Live(v, s) /\ <<v, s>> \notin cut
        BY <3>2 DEF Live
      <4>2. /\ row[s].claimedBy = AgentOf[v]
            /\ row[s].fence = token[v][s].fence
            /\ row[s].lockUntil >= token[v][s].until
        BY <4>1 DEF LeaseHonoured
      <4>3. CASE s # t
        BY <4>1, <4>2, <4>3
      <4>4. CASE s = t
        <5>1. ~force /\ AgentOf[v] # AgentOf[w]
          BY <3>2, <4>4
        <5>2. Claimable(row[t], AgentOf[w])
          BY <5>1 DEF ClaimLands
        <5>3. row[t].claimedBy # NoAgent /\ row[t].claimedBy # AgentOf[w]
          BY <4>2, <4>4, <5>1, ConstantsAssumption
        <5>4. row[t].lockUntil <= now
          BY <5>2, <5>3 DEF Claimable
        <5>5. token[v][s].until > now /\ row[t].lockUntil \in Nat /\ token[v][s].until \in Nat
          BY <4>1 DEF Live
        <5>6. QED  BY <4>2, <4>4, <5>4, <5>5
      <4>5. QED  BY <4>3, <4>4
    <3>3. QED  BY <3>1, <3>2
  <2>2. FenceBound'
    <3>1. ASSUME NEW v \in Workers, NEW s \in Tasks
          PROVE  token'[v][s].fence <= row'[s].fence
      <4>1. token[v][s].fence \in Nat /\ row[s].fence \in Nat /\ row[t].fence \in Nat
            /\ token[v][s].fence <= row[s].fence
        BY DEF FenceBound
      <4>2. CASE v = w /\ s = t
        BY <4>1, <4>2
      <4>3. CASE (v # w \/ s # t) /\ s = t
        BY <4>1, <4>3
      <4>4. CASE s # t
        BY <4>1, <4>4
      <4>5. QED  BY <4>2, <4>3, <4>4
    <3>2. ASSUME NEW s \in Tasks, row'[s].claimedBy # NoAgent
          PROVE  row'[s].fence > 0
      <4>1. CASE s = t
        BY <4>1
      <4>2. CASE s # t
        BY <3>2, <4>2 DEF FenceBound
      <4>3. QED  BY <4>1, <4>2
    <3>3. QED  BY <3>1, <3>2 DEF FenceBound
  <2>3. ASSUME NEW v \in Workers, v # w
        PROVE  token'[v][t].fence < row'[t].fence
    <3>1. token'[v][t] = token[v][t] /\ token[v][t].fence <= row[t].fence
      BY <2>3 DEF FenceBound
    <3>2. token[v][t].fence \in Nat /\ row[t].fence \in Nat
      OBVIOUS
    <3>3. QED  BY <3>1, <3>2
  <2>4. FenceOwner'
    <3> SUFFICES ASSUME NEW v \in Workers, NEW s \in Tasks,
                        token'[v][s].fence = row'[s].fence, row'[s].claimedBy # NoAgent
                 PROVE  row'[s].claimedBy = AgentOf[v]
      BY DEF FenceOwner
    <3>1. CASE s # t
      <4>1. row'[s] = row[s] /\ token'[v][s] = token[v][s]
        BY <3>1
      <4>2. QED  BY <4>1 DEF FenceOwner
    <3>2. CASE s = t
      <4>1. v = w
        BY <2>3, <3>2
      <4>2. QED  BY <3>2, <4>1
    <3>3. QED  BY <3>1, <3>2
  <2>5. FenceIdentifiesAgent'
    <3> SUFFICES ASSUME NEW u \in Workers, NEW v \in Workers, NEW s \in Tasks,
                        token'[u][s].fence = token'[v][s].fence, token'[u][s].fence > 0
                 PROVE  AgentOf[u] = AgentOf[v]
      BY DEF FenceIdentifiesAgent
    <3>1. CASE s # t
      BY <3>1 DEF FenceIdentifiesAgent
    <3>2. CASE s = t /\ u # w /\ v # w
      BY <3>2 DEF FenceIdentifiesAgent
    <3>3. CASE s = t /\ (u = w \/ v = w)
      <4>1. token'[w][t].fence = row'[t].fence /\ row'[t].fence \in Nat
        OBVIOUS
      <4>2. u # w => token'[u][t].fence # row'[t].fence
        BY <2>3, <4>1
      <4>3. v # w => token'[v][t].fence # row'[t].fence
        BY <2>3, <4>1
      <4>4. QED  BY <3>3, <4>1, <4>2, <4>3
    <3>4. QED  BY <3>1, <3>2, <3>3
  <2>6. QED  BY <2>1, <2>2, <2>4, <2>5
<1>2. ASSUME NEW w \in Workers, NEW t \in Tasks, NEW fenced \in BOOLEAN, Release(w, t, fenced)
      PROVE  Good'
  <2> USE <1>0, ReleaseEffect, <1>2 DEF IInv, TypeOK, Row, Token, NoToken
  <2>0. now' = now
    BY DEF Release
  <2>1. LeaseHonoured'
    <3> SUFFICES ASSUME NEW v \in Workers, NEW s \in Tasks, Live(v, s)', <<v, s>> \notin cut'
                 PROVE  /\ row'[s].claimedBy = AgentOf[v]
                        /\ row'[s].fence = token'[v][s].fence
                        /\ row'[s].lockUntil >= token'[v][s].until
      BY DEF LeaseHonoured
    <3>1. v # w \/ s # t
      <4>1. token'[w][t].until = 0
        OBVIOUS
      <4>2. ~Live(w, t)'
        BY <4>1, <2>0 DEF Live
      <4>3. QED  BY <4>2
    <3>2. token'[v][s] = token[v][s] /\ Live(v, s) /\ <<v, s>> \notin cut
      <4>1. token'[v][s] = token[v][s]
        BY <3>1
      <4>2. Live(v, s)
        BY <4>1, <2>0 DEF Live
      <4>3. cut \subseteq cut'
        BY DEF Release
      <4>4. QED  BY <4>1, <4>2, <4>3
    <3>3. s # t
      BY <3>1, <3>2 DEF LeaseHonoured
    <3>4. QED  BY <3>2, <3>3 DEF LeaseHonoured
  <2>2. FenceBound'
    <3>1. ASSUME NEW v \in Workers, NEW s \in Tasks
          PROVE  token'[v][s].fence <= row'[s].fence
      <4>1. row'[s].fence = row[s].fence /\ row[s].fence \in Nat
        OBVIOUS
      <4>2. CASE v = w /\ s = t
        BY <4>1, <4>2
      <4>3. CASE v # w \/ s # t
        BY <4>1, <4>3 DEF FenceBound
      <4>4. QED  BY <4>2, <4>3
    <3>2. ASSUME NEW s \in Tasks, row'[s].claimedBy # NoAgent
          PROVE  row'[s].fence > 0
      BY <3>2 DEF FenceBound
    <3>3. QED  BY <3>1, <3>2 DEF FenceBound
  <2>3. FenceOwner'
    <3> SUFFICES ASSUME NEW v \in Workers, NEW s \in Tasks,
                        token'[v][s].fence = row'[s].fence, row'[s].claimedBy # NoAgent
                 PROVE  row'[s].claimedBy = AgentOf[v]
      BY DEF FenceOwner
    <3>1. s # t
      OBVIOUS
    <3>2. row'[s] = row[s] /\ token'[v][s] = token[v][s]
      BY <3>1
    <3>3. QED  BY <3>2 DEF FenceOwner
  <2>4. FenceIdentifiesAgent'
    <3> SUFFICES ASSUME NEW u \in Workers, NEW v \in Workers, NEW s \in Tasks,
                        token'[u][s].fence = token'[v][s].fence, token'[u][s].fence > 0
                 PROVE  AgentOf[u] = AgentOf[v]
      BY DEF FenceIdentifiesAgent
    <3>1. token'[w][t].fence = 0
      OBVIOUS
    <3>2. (u # w \/ s # t) /\ (v # w \/ s # t)
      BY <3>1
    <3>3. token'[u][s] = token[u][s] /\ token'[v][s] = token[v][s]
      BY <3>2
    <3>4. QED  BY <3>3 DEF FenceIdentifiesAgent
  <2>5. QED  BY <2>1, <2>2, <2>3, <2>4
<1>3. ASSUME NEW w \in Workers, NEW t \in Tasks, NEW fenced \in BOOLEAN, NEW lease \in Leases,
             Renew(w, t, fenced, lease)
      PROVE  Good'
  <2> USE <1>0, RenewEffect, <1>3 DEF IInv, TypeOK, Row, Token
  <2>0. now' = now /\ now + lease \in Nat /\ AgentOf[w] # NoAgent
    <3>1. lease \in Nat /\ AgentOf[w] \in Agents /\ NoAgent \notin Agents
      BY ConstantsAssumption
    <3>2. now' = now
      BY DEF Renew
    <3>3. QED  BY <3>1, <3>2
  <2>1. LeaseHonoured'
    <3> SUFFICES ASSUME NEW v \in Workers, NEW s \in Tasks, Live(v, s)', <<v, s>> \notin cut'
                 PROVE  /\ row'[s].claimedBy = AgentOf[v]
                        /\ row'[s].fence = token'[v][s].fence
                        /\ row'[s].lockUntil >= token'[v][s].until
      BY DEF LeaseHonoured
    <3>1. CASE v = w /\ s = t
      BY <3>1, <2>0
    <3>2. CASE (v # w \/ s # t)
      <4>1. token'[v][s] = token[v][s] /\ Live(v, s) /\ <<v, s>> \notin cut
        BY <3>2, <2>0 DEF Live
      <4>2. /\ row[s].claimedBy = AgentOf[v]
            /\ row[s].fence = token[v][s].fence
            /\ row[s].lockUntil >= token[v][s].until
        BY <4>1 DEF LeaseHonoured
      <4>3. CASE s # t
        BY <4>1, <4>2, <4>3
      <4>4. CASE s = t
        <5>1. now + lease >= row[t].lockUntil
          BY <3>2, <4>2, <4>4
        <5>2. token[v][t].until \in Nat /\ row[t].lockUntil \in Nat
          OBVIOUS
        <5>3. QED  BY <4>1, <4>2, <4>4, <5>1, <5>2, <2>0
      <4>5. QED  BY <4>3, <4>4
    <3>3. QED  BY <3>1, <3>2
  <2>2. FenceBound'
    <3>1. ASSUME NEW v \in Workers, NEW s \in Tasks
          PROVE  token'[v][s].fence <= row'[s].fence
      <4>1. row'[s].fence = row[s].fence /\ row[s].fence \in Nat
        OBVIOUS
      <4>2. CASE v = w /\ s = t
        BY <4>1, <4>2
      <4>3. CASE v # w \/ s # t
        BY <4>1, <4>3 DEF FenceBound
      <4>4. QED  BY <4>2, <4>3
    <3>2. ASSUME NEW s \in Tasks, row'[s].claimedBy # NoAgent
          PROVE  row'[s].fence > 0
      <4>1. row[s].claimedBy # NoAgent
        <5>1. CASE s = t
          BY <5>1, <2>0
        <5>2. CASE s # t
          BY <5>2, <3>2
        <5>3. QED  BY <5>1, <5>2
      <4>2. row'[s].fence = row[s].fence
        OBVIOUS
      <4>3. QED  BY <4>1, <4>2 DEF FenceBound
    <3>3. QED  BY <3>1, <3>2 DEF FenceBound
  <2>3. FenceOwner'
    <3> SUFFICES ASSUME NEW v \in Workers, NEW s \in Tasks,
                        token'[v][s].fence = row'[s].fence, row'[s].claimedBy # NoAgent
                 PROVE  row'[s].claimedBy = AgentOf[v]
      BY DEF FenceOwner
    <3>1. CASE v = w /\ s = t
      BY <3>1
    <3>2. CASE (v # w \/ s # t)
      <4>1. row[s].claimedBy # NoAgent /\ row[s].fence = row'[s].fence
            /\ row'[s].claimedBy = row[s].claimedBy
        <5>1. CASE s = t
          BY <5>1, <2>0
        <5>2. CASE s # t
          BY <5>2
        <5>3. QED  BY <5>1, <5>2
      <4>2. QED  BY <3>2, <4>1 DEF FenceOwner
    <3>3. QED  BY <3>1, <3>2
  <2>4. FenceIdentifiesAgent'
    <3> SUFFICES ASSUME NEW u \in Workers, NEW v \in Workers, NEW s \in Tasks,
                        token'[u][s].fence = token'[v][s].fence, token'[u][s].fence > 0
                 PROVE  AgentOf[u] = AgentOf[v]
      BY DEF FenceIdentifiesAgent
    <3>0. ASSUME NEW x \in Workers, x # w, token[x][t].fence = row[t].fence
          PROVE  AgentOf[x] = AgentOf[w]
      <4>1. row[t].claimedBy # NoAgent
        BY <2>0
      <4>2. QED  BY <3>0, <4>1 DEF FenceOwner
    <3>1. CASE s # t \/ (u # w /\ v # w)
      BY <3>1 DEF FenceIdentifiesAgent
    <3>2. CASE s = t /\ (u = w \/ v = w)
      BY <3>0, <3>2
    <3>3. QED  BY <3>1, <3>2
  <2>5. QED  BY <2>1, <2>2, <2>3, <2>4
<1>4. ASSUME SweepExpiredClaims PROVE Good'
  <2> USE <1>0, SweepEffect, <1>4 DEF IInv, TypeOK, Row, Token
  <2>1. LeaseHonoured'
    <3> SUFFICES ASSUME NEW v \in Workers, NEW s \in Tasks, Live(v, s), <<v, s>> \notin cut
                 PROVE  /\ row'[s].claimedBy = AgentOf[v]
                        /\ row'[s].fence = token[v][s].fence
                        /\ row'[s].lockUntil >= token[v][s].until
      BY DEF LeaseHonoured, Live
    <3>1. /\ row[s].claimedBy = AgentOf[v]
          /\ row[s].fence = token[v][s].fence
          /\ row[s].lockUntil >= token[v][s].until
      BY DEF LeaseHonoured
    <3>2. token[v][s].until \in Nat /\ row[s].lockUntil \in Nat /\ now \in Nat
          /\ token[v][s].until > now
      BY DEF Live
    <3>3. row'[s] = row[s]
      BY <3>1, <3>2
    <3>4. QED  BY <3>1, <3>3
  <2>2. FenceBound' /\ FenceOwner' /\ FenceIdentifiesAgent'
    BY DEF FenceBound, FenceOwner, FenceIdentifiesAgent
  <2>3. QED  BY <2>1, <2>2
<1>5. ASSUME Tick PROVE Good'
  <2> USE <1>0, <1>5 DEF IInv, TypeOK, Row, Token, Tick
  <2>1. ASSUME NEW v \in Workers, NEW s \in Tasks, Live(v, s)'
        PROVE  Live(v, s)
    <3>1. token[v][s].until \in Nat
      OBVIOUS
    <3>2. QED  BY <2>1, <3>1 DEF Live
  <2>2. LeaseHonoured'
    BY <2>1 DEF LeaseHonoured
  <2>3. FenceBound' /\ FenceOwner' /\ FenceIdentifiesAgent'
    BY DEF FenceBound, FenceOwner, FenceIdentifiesAgent
  <2>4. QED  BY <2>2, <2>3
<1>6. ASSUME Elsewhere PROVE Good'
  <2>1. UNCHANGED <<now, token, cut>>
    BY <1>6 DEF Elsewhere
  <2>2. LeaseHonoured'
    BY <1>6, <2>1 DEF IInv, Elsewhere, LeaseHonoured, Live
  <2>3. FenceBound' /\ FenceOwner' /\ FenceIdentifiesAgent'
    BY <1>6, <2>1 DEF IInv, Elsewhere, FenceBound, FenceOwner, FenceIdentifiesAgent
  <2>4. QED  BY <2>2, <2>3
<1> HIDE DEF Good
<1>7. Good'
  BY <1>0, <1>1, <1>2, <1>3, <1>4, <1>5, <1>6, StepKinds
<1>8. QED
  BY <1>0, <1>7 DEF IInv, Good

LEMMA IInvInit == Init => IInv
<1> SUFFICES ASSUME Init PROVE IInv
  OBVIOUS
<1>1. TypeOK
  BY ConstantsAssumption DEF Init, NoToken, TypeOK, Row, Token, Statuses
<1>2. QED
  BY <1>1 DEF IInv, Init, NoToken, LeaseHonoured, Live, FenceBound, FenceOwner,
              FenceIdentifiesAgent

LEMMA IInvAlways == Spec => []IInv
  BY IInvInit, IInvStep, PTL DEF Spec

\* Every claim and renewal reply stays true until its lease runs out or a force
\* or a sibling session cuts it short.
THEOREM LeasesAreHonoured == Spec => []LeaseHonoured
<1>1. IInv => LeaseHonoured
  BY DEF IInv
<1>2. QED
  BY <1>1, IInvAlways, PTL

\* A fence is never held under two agent ids.
THEOREM FencesIdentifyAgents == Spec => []FenceIdentifiesAgent
<1>1. IInv => FenceIdentifiesAgent
  BY DEF IInv
<1>2. QED
  BY <1>1, IInvAlways, PTL

\* Two agents never both hold a live lease on a task that nothing cut short.
THEOREM LeasesAreExclusive ==
  Spec => [](\A v \in Workers, w \in Workers, t \in Tasks :
               Live(v, t) /\ Live(w, t) /\ <<v, t>> \notin cut /\ <<w, t>> \notin cut
                 => AgentOf[v] = AgentOf[w])
<1>1. IInv => \A v \in Workers, w \in Workers, t \in Tasks :
               Live(v, t) /\ Live(w, t) /\ <<v, t>> \notin cut /\ <<w, t>> \notin cut
                 => AgentOf[v] = AgentOf[w]
  BY DEF IInv, LeaseHonoured
<1>2. QED
  BY <1>1, IInvAlways, PTL

\* When a claim lands, the fences of all other sessions are stale from then on.
THEOREM ClaimsFenceOutOthers == Spec => ClaimFencesOutOthers
<1>1. ASSUME IInv, [Next]_vars, NEW v \in Workers, NEW t \in Tasks,
             NEW force \in BOOLEAN, NEW lease \in Leases, ClaimLands(v, t, force, lease)
      PROVE  \A w \in Workers \ {v} : ~HeldFor(w, t, TRUE)'
  <2> SUFFICES ASSUME NEW w \in Workers, w # v PROVE token'[w][t].fence # row'[t].fence
    BY DEF HeldFor
  <2>1. token[w][t].fence <= row[t].fence /\ token[w][t].fence \in Nat /\ row[t].fence \in Nat
    BY <1>1 DEF IInv, FenceBound, TypeOK, Row, Token
  <2>2. token'[w][t] = token[w][t] /\ row'[t].fence = row[t].fence + 1
    BY <1>1, ClaimLandsEffect DEF IInv
  <2>3. QED  BY <2>1, <2>2
<1>2. IInv /\ [Next]_vars =>
        [\A v \in Workers, t \in Tasks :
          (\E lease \in Leases : \/ \E force \in BOOLEAN : Claim(v, t, force, lease)
                                 \/ ClaimNextTake(v, t, lease))
            => \A w \in Workers \ {v} : ~HeldFor(w, t, TRUE)']_vars
  BY <1>1 DEF Claim, ClaimNextTake
<1>3. QED
  BY <1>2, IInvAlways, PTL DEF Spec, ClaimFencesOutOthers

-----------------------------------------------------------------------------
(* ClaimPersistence                                                        *)

\* What ClaimHasExpiry says of the rows, said of the lines: a restart brings
\* the rows back from them.
Whole ==
  \A t \in Tasks : t \notin mixed => ~Half(row[t]) /\ ~Half(line[t])

PInv == TypeOK /\ PersistTypeOK /\ Whole /\ LeaseSurvives

\* No step of TaskClaims leaves a claim without an expiry, or the reverse.
LEMMA ExpiryStep ==
  ASSUME TypeOK, [Next]_vars, NEW t \in Tasks, ~Half(row[t])
  PROVE  ~Half(row'[t])
<1> USE ConstantsAssumption
<1>1. /\ row[t].claimedBy = NoAgent <=> row[t].lockUntil = 0
      /\ row \in [Tasks -> Row] /\ row[t] \in Row /\ now \in Nat
  BY DEF Half, TypeOK
<1>2. ASSUME NEW w \in Workers, NEW u \in Tasks, NEW force \in BOOLEAN, NEW lease \in Leases,
             ClaimLands(w, u, force, lease)
      PROVE  row'[t].claimedBy = NoAgent <=> row'[t].lockUntil = 0
  <2>1. now + lease # 0 /\ AgentOf[w] # NoAgent
    BY <1>1
  <2>2. CASE t = u
    <3>1. row'[t].claimedBy = AgentOf[w] /\ row'[t].lockUntil = now + lease
      BY <1>1, <1>2, <2>2 DEF ClaimLands, Row
    <3>2. QED  BY <2>1, <3>1
  <2>3. CASE t # u
    BY <1>1, <1>2, <2>3 DEF ClaimLands
  <2>4. QED  BY <2>2, <2>3
<1>3. ASSUME NEW w \in Workers, NEW u \in Tasks, NEW fenced \in BOOLEAN, Release(w, u, fenced)
      PROVE  row'[t].claimedBy = NoAgent <=> row'[t].lockUntil = 0
  BY <1>1, <1>3 DEF Release, Unclaimed, Row
<1>4. ASSUME NEW w \in Workers, NEW u \in Tasks, NEW fenced \in BOOLEAN, NEW lease \in Leases,
             Renew(w, u, fenced, lease)
      PROVE  row'[t].claimedBy = NoAgent <=> row'[t].lockUntil = 0
  <2>1. now + lease # 0 /\ AgentOf[w] # NoAgent
    BY <1>1
  <2>2. CASE t = u
    <3>1. row'[t].claimedBy = row[t].claimedBy /\ row'[t].lockUntil = now + lease
      BY <1>1, <1>4, <2>2 DEF Renew, Row
    <3>2. row[t].claimedBy = AgentOf[w]
      BY <1>4, <2>2 DEF Renew, HeldFor
    <3>3. QED  BY <2>1, <3>1, <3>2
  <2>3. CASE t # u
    BY <1>1, <1>4, <2>3 DEF Renew
  <2>4. QED  BY <2>2, <2>3
<1>5. ASSUME SweepExpiredClaims
      PROVE  row'[t].claimedBy = NoAgent <=> row'[t].lockUntil = 0
  BY <1>1, <1>5 DEF SweepExpiredClaims, Unclaimed, Row
<1>6. ASSUME Tick
      PROVE  row'[t].claimedBy = NoAgent <=> row'[t].lockUntil = 0
  BY <1>1, <1>6 DEF Tick
<1>7. ASSUME Elsewhere
      PROVE  row'[t].claimedBy = NoAgent <=> row'[t].lockUntil = 0
  BY <1>1, <1>7 DEF Elsewhere
<1>8. row'[t].claimedBy = NoAgent <=> row'[t].lockUntil = 0
  BY StepKinds, <1>2, <1>3, <1>4, <1>5, <1>6, <1>7
<1>9. QED  BY <1>8 DEF Half

\* No step of TaskClaims ends a lease early, whatever the fences say: a claim of
\* another agent waits for its expiry, and only its agent releases or renews it.
LEMMA LeaseStep ==
  ASSUME TypeOK, LeaseSurvives, [Next]_vars
  PROVE  LeaseSurvives'
<1>0. SUFFICES ASSUME NEW v \in Workers, NEW s \in Tasks, Live(v, s)', <<v, s>> \notin cut'
               PROVE  row'[s].claimedBy = AgentOf[v] /\ row'[s].lockUntil >= token'[v][s].until
  BY DEF LeaseSurvives
<1>1. /\ row[s].lockUntil \in Nat /\ token[v][s].until \in Nat /\ now \in Nat
      /\ Live(v, s) /\ <<v, s>> \notin cut =>
           row[s].claimedBy = AgentOf[v] /\ row[s].lockUntil >= token[v][s].until
  BY DEF LeaseSurvives, TypeOK, Row, Token
<1>2. ASSUME NEW w \in Workers, NEW t \in Tasks, NEW force \in BOOLEAN, NEW lease \in Leases,
             ClaimLands(w, t, force, lease), now' = now
      PROVE  row'[s].claimedBy = AgentOf[v] /\ row'[s].lockUntil >= token'[v][s].until
  <2> USE ClaimLandsEffect, <1>2
  <2>1. CASE v = w /\ s = t
    <3>1. now + lease \in Nat
      BY <1>1, ConstantsAssumption
    <3>2. QED  BY <2>1, <3>1
  <2>2. CASE v # w \/ s # t
    <3>1. token'[v][s] = token[v][s] /\ Live(v, s) /\ <<v, s>> \notin cut
      BY <1>0, <2>2 DEF Live
    <3>2. CASE s # t
      BY <1>1, <3>1, <3>2
    <3>3. CASE s = t
      <4>1. ~force /\ AgentOf[v] # AgentOf[w]
        BY <1>0, <2>2, <3>3
      <4>2. Claimable(row[t], AgentOf[w])
        BY <4>1 DEF ClaimLands
      <4>3. row[t].lockUntil <= now
        BY <1>1, <3>1, <3>3, <4>1, <4>2, ConstantsAssumption DEF Claimable
      <4>4. QED  BY <1>1, <3>1, <3>3, <4>3 DEF Live
    <3>4. QED  BY <3>2, <3>3
  <2>3. QED  BY <2>1, <2>2
<1>3. ASSUME NEW w \in Workers, NEW t \in Tasks, NEW fenced \in BOOLEAN, Release(w, t, fenced)
      PROVE  row'[s].claimedBy = AgentOf[v] /\ row'[s].lockUntil >= token'[v][s].until
  <2> USE ReleaseEffect, <1>3
  <2>1. now' = now
    BY DEF Release
  <2>2. v # w \/ s # t
    BY <1>0, <1>1, <2>1 DEF Live, NoToken
  <2>3. token'[v][s] = token[v][s] /\ Live(v, s) /\ <<v, s>> \notin cut
    BY <1>0, <2>1, <2>2 DEF Live
  <2>4. s # t
    BY <1>0, <1>1, <2>2, <2>3
  <2>5. QED  BY <1>1, <2>3, <2>4
<1>4. ASSUME NEW w \in Workers, NEW t \in Tasks, NEW fenced \in BOOLEAN, NEW lease \in Leases,
             Renew(w, t, fenced, lease)
      PROVE  row'[s].claimedBy = AgentOf[v] /\ row'[s].lockUntil >= token'[v][s].until
  <2> USE RenewEffect, <1>4
  <2>1. now' = now /\ now + lease \in Nat
    BY <1>1, ConstantsAssumption DEF Renew
  <2>2. CASE v = w /\ s = t
    BY <2>1, <2>2
  <2>3. CASE v # w \/ s # t
    <3>1. token'[v][s] = token[v][s] /\ Live(v, s) /\ <<v, s>> \notin cut
      BY <1>0, <2>1, <2>3 DEF Live
    <3>2. CASE s # t
      BY <1>1, <3>1, <3>2
    <3>3. CASE s = t
      <4>1. now + lease >= row[t].lockUntil
        BY <1>0, <1>1, <2>3, <3>1, <3>3
      <4>2. QED  BY <1>1, <2>1, <3>1, <3>3, <4>1
    <3>4. QED  BY <3>2, <3>3
  <2>4. QED  BY <2>2, <2>3
<1>5. ASSUME SweepExpiredClaims
      PROVE  row'[s].claimedBy = AgentOf[v] /\ row'[s].lockUntil >= token'[v][s].until
  <2>1. UNCHANGED <<now, token, cut>> /\ (row[s].lockUntil > now => row'[s] = row[s])
    BY <1>5, SweepEffect
  <2>2. Live(v, s) /\ <<v, s>> \notin cut
    BY <1>0, <2>1 DEF Live
  <2>3. QED  BY <1>1, <2>1, <2>2 DEF Live
<1>6. ASSUME Tick
      PROVE  row'[s].claimedBy = AgentOf[v] /\ row'[s].lockUntil >= token'[v][s].until
  <2>1. UNCHANGED <<row, token, cut>> /\ now' = now + 1
    BY <1>6 DEF Tick
  <2>2. Live(v, s) /\ <<v, s>> \notin cut
    BY <1>0, <1>1, <2>1 DEF Live
  <2>3. QED  BY <1>1, <2>1, <2>2
<1>7. ASSUME Elsewhere
      PROVE  row'[s].claimedBy = AgentOf[v] /\ row'[s].lockUntil >= token'[v][s].until
  <2>1. UNCHANGED <<now, token, cut>> /\ row'[s].claimedBy = row[s].claimedBy
        /\ row'[s].lockUntil = row[s].lockUntil
    BY <1>7 DEF Elsewhere
  <2>2. Live(v, s) /\ <<v, s>> \notin cut
    BY <1>0, <2>1 DEF Live
  <2>3. QED  BY <1>1, <2>1, <2>2
<1>8. QED
  BY StepKinds, <1>2, <1>3, <1>4, <1>5, <1>6, <1>7

\* A merged line is a line, each column of it being one of the two sides'.
LEMMA MergedRow ==
  ASSUME NEW b \in Row, NEW o \in Row, NEW their \in Row, NEW newer \in BOOLEAN
  PROVE  Merged(b, o, their, newer) \in Row
<1>1. \A x, y, z : Merge!Resolve(x, y, z, newer) \in {y, z}
  BY DEF Merge!Resolve
<1>2. QED
  BY <1>1 DEF Merged, Row

\* A line brought back by UPDATE or by INSERT is a row, and a whole one if the
\* line is, and the row it updates.
LEMMA BroughtBack ==
  ASSUME NEW r \in Row, NEW l \in Row
  PROVE  /\ Overlay(r, l) \in Row /\ Insert(l) \in Row
         /\ ~Half(r) /\ ~Half(l) => ~Half(Overlay(r, l))
         /\ ~Half(l) => ~Half(Insert(l))
         /\ ClaimOf(Insert(l)) = ClaimOf(l)
         /\ ~Overrides(l, r) => ClaimOf(Overlay(r, l)) = ClaimOf(r)
<1>1. Overlay(r, l) \in Row /\ Insert(l) \in Row
  BY DEF Overlay, Insert, Row
<1>2. /\ Overlay(r, l).claimedBy = IF l.claimedBy = NoAgent THEN r.claimedBy ELSE l.claimedBy
      /\ Overlay(r, l).lockUntil = IF l.lockUntil = 0 THEN r.lockUntil ELSE l.lockUntil
      /\ Insert(l).claimedBy = l.claimedBy /\ Insert(l).lockUntil = l.lockUntil
  BY DEF Overlay, Insert, Row
<1>3. QED
  BY <1>1, <1>2 DEF Half, ClaimOf, Overrides

\* A row that keeps its claim keeps the lease told of it.
LEMMA LeaseKept ==
  ASSUME TypeOK, LeaseSurvives, UNCHANGED <<now, token>>, cut \subseteq cut',
         \A t \in Tasks : LeasesOn({t}) \subseteq cut' \/ ClaimOf(row'[t]) = ClaimOf(row[t])
  PROVE  LeaseSurvives'
<1>0. SUFFICES ASSUME NEW v \in Workers, NEW s \in Tasks, Live(v, s)', <<v, s>> \notin cut'
               PROVE  row'[s].claimedBy = AgentOf[v] /\ row'[s].lockUntil >= token'[v][s].until
  BY DEF LeaseSurvives
<1>1. Live(v, s) /\ <<v, s>> \notin cut
  BY <1>0 DEF Live
<1>2. row'[s].claimedBy = row[s].claimedBy /\ row'[s].lockUntil = row[s].lockUntil
  BY <1>0 DEF LeasesOn, ClaimOf
<1>3. QED
  BY <1>1, <1>2 DEF LeaseSurvives

\* A step of the whole, pulls and restarts included, keeps the invariant.
LEMMA PInvStep == PInv /\ [PersistNext]_pvars => PInv'
<1> USE ConstantsAssumption, PersistAssumption
<1>0. SUFFICES ASSUME PInv, [PersistNext]_pvars PROVE PInv'
  OBVIOUS
<1>1. CASE Next /\ UNCHANGED files
  <2>1. TypeOK' /\ LeaseSurvives'
    BY <1>0, <1>1, TypeStep, LeaseStep DEF PInv
  <2>2. Whole'
    BY <1>0, <1>1, ExpiryStep DEF PInv, Whole, files
  <2>3. QED
    BY <1>0, <1>1, <2>1, <2>2 DEF PInv, PersistTypeOK, files
<1>2. ASSUME NEW t \in Tasks, WriteLine(t)
      PROVE  PInv'
  <2>1. PersistTypeOK'
    BY <1>0, <1>2 DEF WriteLine, PInv, TypeOK, PersistTypeOK
  <2>2. Whole'
    BY <1>0, <1>2 DEF WriteLine, PInv, PersistTypeOK, Whole, vars
  <2>3. QED
    BY <1>0, <1>2, <2>1, <2>2 DEF WriteLine, PInv, TypeOK, LeaseSurvives, Live, vars
<1>3. ASSUME NEW t \in Tasks, NEW their \in TheirLines, NEW newer \in BOOLEAN, NEW got \in BOOLEAN,
             Pull(t, their, newer, got)
      PROVE  PInv'
  <2> DEFINE merged == Merged(base[t], line[t], their, newer)
  <2>1. merged \in Row /\ their \in Row
    BY <1>0, MergedRow DEF PInv, PersistTypeOK
  <2>2. /\ pulls < MaxPulls /\ pulls' = pulls + 1
        /\ line' = [line EXCEPT ![t] = merged]
        /\ base' = [base EXCEPT ![t] = IF got THEN merged ELSE their]
        /\ mixed' = IF ClaimOf(merged) \in {ClaimOf(line[t]), ClaimOf(their)} /\ ~Half(their)
                    THEN mixed ELSE mixed \cup {t}
        /\ UNCHANGED <<vars, restarts>>
    BY <1>3 DEF Pull
  <2> HIDE DEF merged
  <2>3. PersistTypeOK'
    BY <1>0, <2>1, <2>2 DEF PInv, PersistTypeOK
  <2>4. Whole'
    <3>1. SUFFICES ASSUME NEW s \in Tasks, s \notin mixed'
                   PROVE  ~Half(row'[s]) /\ ~Half(line'[s])
      BY DEF Whole
    <3>2. s \notin mixed /\ ~Half(row[s]) /\ ~Half(line[s]) /\ row' = row
      BY <1>0, <2>2, <3>1 DEF PInv, Whole, vars
    <3>3. CASE s # t
      BY <1>0, <2>2, <3>2, <3>3 DEF PInv, PersistTypeOK
    <3>4. CASE s = t
      <4>1. ClaimOf(merged) \in {ClaimOf(line[t]), ClaimOf(their)} /\ ~Half(their)
        BY <2>2, <3>1, <3>4
      <4>2. ~Half(merged)
        BY <3>2, <3>4, <4>1 DEF ClaimOf, Half
      <4>3. line'[s] = merged
        BY <1>0, <2>2, <3>4 DEF PInv, PersistTypeOK
      <4>4. QED  BY <3>2, <4>2, <4>3
    <3>5. QED  BY <3>3, <3>4
  <2>5. QED
    BY <1>0, <2>2, <2>3, <2>4 DEF PInv, TypeOK, LeaseSurvives, Live, vars
<1>4. ASSUME NEW restart \in BOOLEAN, Refresh(restart)
      PROVE  PInv'
  <2>1. ASSUME NEW t \in Tasks
        PROVE  /\ row[t] \in Row /\ line[t] \in Row /\ row'[t] = Overlay(row[t], line[t])
               /\ Overlay(row[t], line[t]) \in Row
    BY <1>0, <1>4, BroughtBack DEF PInv, TypeOK, PersistTypeOK, Refresh
  <2>2. row' \in [Tasks -> Row]
    BY <1>4, <2>1 DEF Refresh
  <2>3. TypeOK'
    BY <1>0, <1>4, <2>2 DEF Refresh, PInv, TypeOK, LeasesOn
  <2>4. Whole'
    BY <1>0, <1>4, <2>1, BroughtBack DEF Refresh, PInv, Whole
  <2>5. ASSUME NEW t \in Tasks
        PROVE  LeasesOn({t}) \subseteq cut' \/ ClaimOf(row'[t]) = ClaimOf(row[t])
    BY <1>4, <2>1, BroughtBack DEF Refresh, LeasesOn
  <2>6. LeaseSurvives'
    BY <1>0, <1>4, <2>5, LeaseKept DEF Refresh, PInv
  <2>7. QED
    BY <1>0, <1>4, <2>3, <2>4, <2>6 DEF Refresh, PInv, PersistTypeOK
<1>5. CASE Rebuild
  <2>1. ASSUME NEW t \in Tasks
        PROVE  /\ row[t] \in Row /\ line[t] \in Row /\ row'[t] = Insert(line[t])
               /\ Insert(line[t]) \in Row
    BY <1>0, <1>5, BroughtBack DEF PInv, TypeOK, PersistTypeOK, Rebuild
  <2>2. row' \in [Tasks -> Row]
    BY <1>5, <2>1 DEF Rebuild
  <2>3. TypeOK'
    BY <1>0, <1>5, <2>2 DEF Rebuild, PInv, TypeOK, LeasesOn
  <2>4. Whole'
    BY <1>0, <1>5, <2>1, BroughtBack DEF Rebuild, PInv, Whole
  <2>5. ASSUME NEW t \in Tasks
        PROVE  LeasesOn({t}) \subseteq cut' \/ ClaimOf(row'[t]) = ClaimOf(row[t])
    BY <1>5, <2>1, BroughtBack DEF Rebuild, LeasesOn
  <2>6. LeaseSurvives'
    BY <1>0, <1>5, <2>5, LeaseKept DEF Rebuild, PInv
  <2>7. QED
    BY <1>0, <1>5, <2>3, <2>4, <2>6 DEF Rebuild, PInv, PersistTypeOK
<1>6. CASE UNCHANGED pvars
  BY <1>0, <1>6 DEF pvars, files, vars, PInv, TypeOK, PersistTypeOK, Whole, LeaseSurvives, Live
<1>7. QED
  BY <1>0, <1>1, <1>2, <1>3, <1>4, <1>5, <1>6 DEF PersistNext

LEMMA PInvAlways == PersistSpec => []PInv
<1>1. PersistInit => PInv
  BY ConstantsAssumption, PersistAssumption
     DEF PersistInit, Init, NoToken, PInv, TypeOK, Row, Token, Statuses,
         PersistTypeOK, Whole, Half, LeaseSurvives, Live
<1>2. QED
  BY <1>1, PInvStep, PTL DEF PersistSpec

\* A claim a row names always has an expiry, through any number of pulls,
\* restarts, reloads and rebuilds, unless a merge put it together from two
\* (initialize, reload, rebuildFromJsonl, fieldLevelMerge).
THEOREM ClaimsHaveExpiry == PersistSpec => []ClaimHasExpiry
<1>1. PInv => ClaimHasExpiry
  BY DEF PInv, Whole, Half, ClaimHasExpiry
<1>2. QED
  BY <1>1, PInvAlways, PTL

\* A lease outlives any number of restarts, reloads and lost caches whose file
\* has its claim, and needs no fence for it (claimNode, insertNodes, updateNode).
THEOREM LeasesSurvive == PersistSpec => []LeaseSurvives
<1>1. PInv => LeaseSurvives
  BY DEF PInv
<1>2. QED
  BY <1>1, PInvAlways, PTL
=============================================================================
