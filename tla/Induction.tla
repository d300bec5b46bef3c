------------------------------ MODULE Induction ------------------------------
(***************************************************************************)
(* Induction over the naturals for sets in place of predicates, and what   *)
(* it says of functions defined by recursion: the library's theorems take  *)
(* an operator as a parameter, which the provers cannot instantiate.       *)
(***************************************************************************)
EXTENDS
  Subsequences, Integers, FiniteSets, SequencesExt, FiniteSetTheorems, WellFoundedInduction, TLAPS

\* A set with 0 and the successors of its numbers has all numbers: otherwise
\* the intervals that end outside of it would have no smallest one.
LEMMA NatSetInduction ==
  ASSUME NEW S, 0 \in S, \A k \in Nat : k \in S => k + 1 \in S
  PROVE  Nat \subseteq S
<1> SUFFICES ASSUME NEW n \in Nat, n \notin S
             PROVE  FALSE
  OBVIOUS
<1> DEFINE T == {0..k : k \in {i \in 0..n : i \notin S}}
<1>1. T \subseteq FiniteSubsetsOf(Nat)
  <2> SUFFICES ASSUME NEW k \in 0..n
               PROVE  0..k \in FiniteSubsetsOf(Nat)
    OBVIOUS
  <2>1. IsFiniteSet(0..k)
    BY FS_Interval
  <2>2. QED
    BY <2>1 DEF FiniteSubsetsOf
<1>2. PICK x \in T : \A y \in T : <<y, x>> \notin StrictSubsetOrdering(Nat)
  <2>1. IsWellFoundedOn(StrictSubsetOrdering(Nat), FiniteSubsetsOf(Nat))
    BY FS_StrictSubsetOrderingWellFounded
  <2>2. T # {}
    OBVIOUS
  <2> HIDE DEF T
  <2>3. QED
    BY <1>1, <2>1, <2>2, WFMin
<1>3. PICK k \in 0..n : k \notin S /\ x = 0..k
  BY <1>2
<1>4. k # 0 /\ k - 1 \in 0..n /\ k - 1 \notin S
  BY <1>3
<1>5. 0..(k - 1) \subseteq 0..k /\ 0..(k - 1) # 0..k
  BY <1>4
<1>6. <<0..(k - 1), 0..k>> \in StrictSubsetOrdering(Nat)
  BY <1>5 DEF StrictSubsetOrdering
<1>7. QED
  BY <1>2, <1>3, <1>4, <1>6

\* The same for the numbers up to a bound.
LEMMA IntervalInduction ==
  ASSUME NEW N \in Nat, NEW S, 0 \in S, \A k \in 0..(N - 1) : k \in S => k + 1 \in S
  PROVE  0..N \subseteq S
<1> DEFINE T == {k \in Nat : k \in 0..N => k \in S}
<1>1. 0 \in T
  OBVIOUS
<1>2. \A k \in Nat : k \in T => k + 1 \in T
  OBVIOUS
<1>3. Nat \subseteq T
  <2> HIDE DEF T
  <2>1. QED
    BY <1>1, <1>2, NatSetInduction
<1>4. QED
  BY <1>3

\* N steps from b, one after the other.
Iterates(f, g, b, N) == f[0] = b /\ \A n \in 1..N : f[n] = g[n][f[n - 1]]

LEMMA Iterated ==
  ASSUME NEW A, NEW N \in Nat, NEW g \in [1..N -> [A -> A]], NEW b \in A
  PROVE  \E f \in [0..N -> A] : Iterates(f, g, b, N)
<1> DEFINE S == {m \in 0..N : \E f \in [0..m -> A] : Iterates(f, g, b, m)}
<1>1. 0 \in S
  <2> DEFINE f == [i \in 0..0 |-> b]
  <2>1. f \in [0..0 -> A] /\ Iterates(f, g, b, 0)
    BY DEF Iterates
  <2> HIDE DEF f
  <2>2. QED
    BY <2>1
<1>2. ASSUME NEW m \in 0..(N - 1), m \in S
      PROVE  m + 1 \in S
  <2>1. PICK f \in [0..m -> A] : Iterates(f, g, b, m)
    BY <1>2
  <2> DEFINE h == [i \in 0..(m + 1) |-> IF i = m + 1 THEN g[m + 1][f[m]] ELSE f[i]]
  <2>2. m + 1 \in 1..N
    OBVIOUS
  <2>3. h \in [0..(m + 1) -> A]
    BY <2>1, <2>2
  <2>4. Iterates(h, g, b, m + 1)
    BY <2>1, <2>2 DEF Iterates
  <2> HIDE DEF h
  <2>5. QED
    BY <2>2, <2>3, <2>4
<1>3. 0..N \subseteq S
  <2> HIDE DEF S
  <2>1. QED
    BY <1>1, <1>2, IntervalInduction
<1>4. QED
  BY <1>3

\* Steps that stay in a set lead to one of its elements.
LEMMA IterationStays ==
  ASSUME NEW A, NEW N \in Nat, NEW r, r[0] \in A, \A n \in 1..N : r[n - 1] \in A => r[n] \in A
  PROVE  r[N] \in A
<1> DEFINE S == {n \in 0..N : r[n] \in A}
<1>1. 0 \in S
  OBVIOUS
<1>2. \A k \in 0..(N - 1) : k \in S => k + 1 \in S
  <2> SUFFICES ASSUME NEW k \in 0..(N - 1), r[k] \in A PROVE r[k + 1] \in A
    OBVIOUS
  <2>1. k + 1 \in 1..N /\ (k + 1) - 1 = k
    OBVIOUS
  <2>2. QED
    BY <2>1
<1>3. 0..N \subseteq S
  <2> HIDE DEF S
  <2>1. QED
    BY <1>1, <1>2, IntervalInduction
<1>4. QED
  BY <1>3

\* f says which elements of s, all those at the positions in J, p is made of.
Picks(f, p, s, J) ==
  /\ f \in [1..Len(p) -> J]
  /\ \A j \in 1..Len(p) : p[j] = s[f[j]]
  /\ \A j, k \in 1..Len(p) : j < k => f[j] < f[k]
  /\ \A i \in J : \E j \in 1..Len(p) : f[j] = i

\* What Picked is made of, one element of s after the other.
Picking(r, s, I, S) ==
  /\ Picked(s, I) = r[Len(s)] /\ r[0] = << >>
  /\ \A n \in 0..Len(s) : r[n] \in Seq(S)
  /\ \A n \in 0..(Len(s) - 1) : r[n + 1] = IF n + 1 \in I THEN Append(r[n], s[n + 1]) ELSE r[n]

LEMMA PickedSteps ==
  ASSUME NEW S, NEW s \in Seq(S), NEW I
  PROVE  \E r : Picking(r, s, I, S)
<1> DEFINE N == Len(s)
           A == Seq(S)
           g == [n \in 1..N |-> [p \in A |-> IF n \in I THEN Append(p, s[n]) ELSE p]]
           r == CHOOSE h : h = [n \in 0..N |-> IF n = 0 THEN << >>
                                               ELSE IF n \in I THEN Append(h[n - 1], s[n]) ELSE h[n - 1]]
<1>1. N \in Nat /\ << >> \in A /\ \A n \in 1..N : s[n] \in S
  OBVIOUS
<1>2. \A n \in 1..N, p \in A : (IF n \in I THEN Append(p, s[n]) ELSE p) \in A
  BY <1>1
<1> HIDE DEF A
<1>3. g \in [1..N -> [A -> A]]
  BY <1>2
<1>4. \A n \in 1..N, p \in A : g[n][p] = IF n \in I THEN Append(p, s[n]) ELSE p
  OBVIOUS
<1> HIDE DEF g
<1>5. PICK f \in [0..N -> A] : Iterates(f, g, << >>, N)
  BY <1>1, <1>3, Iterated
<1>6. f = [n \in 0..N |-> IF n = 0 THEN << >> ELSE IF n \in I THEN Append(f[n - 1], s[n]) ELSE f[n - 1]]
  <2>1. \A n \in 0..N : n # 0 => n \in 1..N /\ n - 1 \in 0..N
    BY <1>1
  <2>2. \A n \in 0..N : n # 0 => f[n] = IF n \in I THEN Append(f[n - 1], s[n]) ELSE f[n - 1]
    BY <1>4, <1>5, <2>1 DEF Iterates
  <2>3. QED
    BY <1>5, <2>2 DEF Iterates
<1>7. r = [n \in 0..N |-> IF n = 0 THEN << >> ELSE IF n \in I THEN Append(r[n - 1], s[n]) ELSE r[n - 1]]
  BY <1>6
<1>8. Picked(s, I) = r[N]
  BY DEF Picked
<1> HIDE DEF r
<1>9. r[0] = << >> /\ \A n \in 0..(N - 1) : r[n + 1] = IF n + 1 \in I THEN Append(r[n], s[n + 1]) ELSE r[n]
  <2>1. 0 \in 0..N /\ \A n \in 0..(N - 1) : n + 1 \in 0..N /\ n + 1 # 0 /\ (n + 1) - 1 = n
    BY <1>1
  <2>2. \A n \in 0..N : r[n] = IF n = 0 THEN << >> ELSE IF n \in I THEN Append(r[n - 1], s[n]) ELSE r[n - 1]
    BY <1>7
  <2>3. ASSUME NEW n \in 0..(N - 1)
        PROVE  r[n + 1] = IF n + 1 \in I THEN Append(r[n], s[n + 1]) ELSE r[n]
    <3>1. r[n + 1] = IF n + 1 \in I THEN Append(r[(n + 1) - 1], s[n + 1]) ELSE r[(n + 1) - 1]
      BY <2>1, <2>2
    <3>2. QED
      BY <2>1, <3>1
  <2>4. QED
    BY <2>1, <2>2, <2>3
<1> DEFINE T == {n \in 0..N : r[n] \in A}
<1>10. 0 \in T
  BY <1>1, <1>9
<1>11. \A k \in 0..(N - 1) : k \in T => k + 1 \in T
  <2> SUFFICES ASSUME NEW k \in 0..(N - 1), r[k] \in A PROVE k + 1 \in T
    OBVIOUS
  <2>1. k + 1 \in 1..N /\ k + 1 \in 0..N
    BY <1>1
  <2>2. QED
    BY <1>2, <1>9, <2>1
<1>12. 0..N \subseteq T
  <2> HIDE DEF T
  <2>1. QED
    BY <1>1, <1>10, <1>11, IntervalInduction
<1>13. \A n \in 0..N : r[n] \in Seq(S)
  BY <1>12 DEF A
<1>14. Picking(r, s, I, S)
  BY <1>8, <1>9, <1>13 DEF Picking
<1>15. QED
  BY <1>14

LEMMA PickedProperties ==
  ASSUME NEW S, NEW s \in Seq(S), NEW I, I \subseteq 1..Len(s)
  PROVE  Picked(s, I) \in Seq(S) /\ \E f : Picks(f, Picked(s, I), s, I)
<1> DEFINE N == Len(s)
<1>00. PICK r : Picking(r, s, I, S)
  BY PickedSteps
<1>1. /\ Picked(s, I) = r[N] /\ r[0] = << >>
      /\ \A n \in 0..N : r[n] \in Seq(S)
      /\ \A n \in 0..(N - 1) : r[n + 1] = IF n + 1 \in I THEN Append(r[n], s[n + 1]) ELSE r[n]
  BY <1>00 DEF Picking
<1> DEFINE J(n) == I \cap 1..n
           T == {n \in 0..N : \E f : Picks(f, r[n], s, J(n))}
<1>0. N \in Nat
  OBVIOUS
<1>2. 0 \in T
  <2> DEFINE f == [j \in 1..0 |-> 0]
  <2>1. Len(r[0]) = 0 /\ J(0) = {}
    BY <1>1
  <2>2. Picks(f, r[0], s, J(0))
    BY <2>1 DEF Picks
  <2> HIDE DEF f, J
  <2>3. QED
    BY <1>0, <2>2
<1>3. \A n \in 0..(N - 1) : n \in T => n + 1 \in T
  <2> SUFFICES ASSUME NEW n \in 0..(N - 1), NEW f, Picks(f, r[n], s, J(n))
               PROVE  \E h : Picks(h, r[n + 1], s, J(n + 1))
    <3> HIDE DEF J
    <3>1. \A n \in 0..(N - 1) : n + 1 \in 0..N
      BY <1>0
    <3>2. QED
      BY <3>1
  <2>0. n + 1 \in 1..N /\ n \in 0..N /\ r[n] \in Seq(S) /\ s[n + 1] \in S
    BY <1>0, <1>1
  <2>1. CASE n + 1 \notin I
    <3>1. J(n + 1) = J(n) /\ r[n + 1] = r[n]
      BY <1>1, <2>1
    <3>2. QED
      BY <3>1
  <2>2. CASE n + 1 \in I
    <3> DEFINE L == Len(r[n])
               h == [j \in 1..(L + 1) |-> IF j = L + 1 THEN n + 1 ELSE f[j]]
    <3>0. r[n + 1] = Append(r[n], s[n + 1])
      BY <1>1, <2>2
    <3>1. /\ L \in Nat /\ Len(r[n + 1]) = L + 1
          /\ r[n + 1][L + 1] = s[n + 1] /\ \A j \in 1..L : r[n + 1][j] = r[n][j]
      BY <2>0, <3>0
    <3>2. J(n + 1) = J(n) \cup {n + 1}
      BY <2>2
    <3>3. /\ f \in [1..L -> J(n)] /\ \A j \in 1..L : r[n][j] = s[f[j]] /\ f[j] < n + 1
          /\ \A j, k \in 1..L : j < k => f[j] < f[k]
          /\ \A i \in J(n) : \E j \in 1..L : f[j] = i
      BY DEF Picks
    <3> HIDE DEF L, J
    <3>4. h \in [1..(L + 1) -> J(n + 1)]
      BY <3>1, <3>2, <3>3
    <3>5. \A j \in 1..(L + 1) : r[n + 1][j] = s[h[j]]
      <4> SUFFICES ASSUME NEW j \in 1..(L + 1) PROVE r[n + 1][j] = s[h[j]]
        OBVIOUS
      <4>1. CASE j = L + 1
        <5>1. h[j] = n + 1
          BY <4>1
        <5>2. QED
          BY <3>1, <4>1, <5>1
      <4>2. CASE j # L + 1
        <5>1. j \in 1..L /\ h[j] = f[j]
          BY <3>1, <4>2
        <5>2. QED
          BY <3>1, <3>3, <5>1
      <4>3. QED
        BY <4>1, <4>2
    <3>6. \A j, k \in 1..(L + 1) : j < k => h[j] < h[k]
      BY <3>1, <3>3
    <3>7. \A i \in J(n + 1) : \E j \in 1..(L + 1) : h[j] = i
      <4> SUFFICES ASSUME NEW i \in J(n + 1) PROVE \E j \in 1..(L + 1) : h[j] = i
        OBVIOUS
      <4>1. CASE i = n + 1
        BY <3>1, <4>1
      <4>2. CASE i \in J(n)
        <5>1. PICK j \in 1..L : f[j] = i
          BY <3>3, <4>2
        <5>2. j \in 1..(L + 1) /\ h[j] = i
          BY <3>1, <5>1
        <5>3. QED
          BY <5>2
      <4>3. QED
        BY <3>2, <4>1, <4>2
    <3> HIDE DEF h
    <3>8. Picks(h, r[n + 1], s, J(n + 1))
      BY <3>1, <3>4, <3>5, <3>6, <3>7 DEF Picks
    <3>9. QED
      BY <3>8
  <2>3. QED
    BY <2>1, <2>2
<1>4. 0..N \subseteq T
  <2> HIDE DEF T
  <2>1. QED
    BY <1>0, <1>2, <1>3, IntervalInduction
<1>5. J(N) = I /\ N \in 0..N
  <2>1. I \cap 1..N = I
    OBVIOUS
  <2>2. QED
    BY <1>0, <2>1
<1>6. \E f : Picks(f, r[N], s, J(N))
  BY <1>4, <1>5
<1>7. QED
  BY <1>1, <1>5, <1>6

\* The elements after a position are a suffix.
LEMMA PickedSuffix ==
  ASSUME NEW S, NEW s \in Seq(S), NEW a \in 0..Len(s)
  PROVE  Picked(s, (a + 1)..Len(s)) = [i \in 1..(Len(s) - a) |-> s[a + i]]
<1> DEFINE N == Len(s)
           I == (a + 1)..N
<1>0. N \in Nat /\ a \in 0..N
  OBVIOUS
<1>1. PICK r : Picking(r, s, I, S)
  BY PickedSteps
<1>2. /\ Picked(s, I) = r[N] /\ r[0] = << >>
      /\ \A n \in 0..N : r[n] \in Seq(S)
      /\ \A n \in 0..(N - 1) : r[n + 1] = IF n + 1 \in I THEN Append(r[n], s[n + 1]) ELSE r[n]
  BY <1>1 DEF Picking
<1> DEFINE len(n) == IF n <= a THEN 0 ELSE n - a
           T == {n \in 0..N : Len(r[n]) = len(n) /\ \A i \in 1..len(n) : r[n][i] = s[a + i]}
<1>3. 0 \in T
  BY <1>0, <1>2
<1>4. \A n \in 0..(N - 1) : n \in T => n + 1 \in T
  <2> SUFFICES ASSUME NEW n \in 0..(N - 1), n \in T
               PROVE  n + 1 \in T
    OBVIOUS
  <2>0. n \in 0..N /\ n + 1 \in 0..N /\ r[n] \in Seq(S) /\ r[n + 1] \in Seq(S)
    BY <1>0, <1>2
  <2>1. CASE n + 1 <= a
    <3>1. r[n + 1] = r[n] /\ len(n + 1) = 0 /\ len(n) = 0
      BY <1>0, <1>2, <2>0, <2>1
    <3>2. QED
      BY <2>0, <3>1
  <2>2. CASE n + 1 > a
    <3>0. n \in Nat /\ a \in Nat /\ a <= n /\ n + 1 \in I
      BY <1>0, <2>2
    <3>1. r[n + 1] = Append(r[n], s[n + 1]) /\ len(n) = n - a /\ len(n + 1) = (n - a) + 1
      <4>1. r[n + 1] = Append(r[n], s[n + 1])
        BY <1>2, <3>0
      <4>2. len(n) = n - a /\ len(n + 1) = (n - a) + 1
        BY <3>0
      <4>3. QED
        BY <4>1, <4>2
    <3>2. Len(r[n]) = n - a /\ \A i \in 1..(n - a) : r[n][i] = s[a + i]
      BY <3>1
    <3> HIDE DEF len
    <3>3. Len(r[n + 1]) = (n - a) + 1 /\ \A i \in 1..((n - a) + 1) : r[n + 1][i] = s[a + i]
      <4>1. /\ Len(r[n + 1]) = (n - a) + 1 /\ r[n + 1][(n - a) + 1] = s[n + 1]
            /\ \A i \in 1..(n - a) : r[n + 1][i] = r[n][i]
        <5>1. s[n + 1] \in S
          BY <3>0
        <5>2. \A q \in Seq(S), x \in S :
                /\ Len(Append(q, x)) = Len(q) + 1 /\ Append(q, x)[Len(q) + 1] = x
                /\ \A i \in 1..Len(q) : Append(q, x)[i] = q[i]
          OBVIOUS
        <5>3. /\ Len(r[n + 1]) = Len(r[n]) + 1 /\ r[n + 1][Len(r[n]) + 1] = s[n + 1]
              /\ \A i \in 1..Len(r[n]) : r[n + 1][i] = r[n][i]
          <6> HIDE DEF I
          <6>1. r[n] \in Seq(S) /\ r[n + 1] = Append(r[n], s[n + 1])
            BY <2>0, <3>1
          <6>2. QED
            BY <5>1, <5>2, <6>1
        <5>4. QED
          BY <3>2, <5>3
      <4>2. \A i \in 1..((n - a) + 1) : i \in 1..(n - a) \/ (i = (n - a) + 1 /\ a + i = n + 1)
        BY <3>0
      <4>3. QED
        BY <3>2, <4>1, <4>2
    <3>4. QED
      BY <2>0, <3>1, <3>3
  <2>3. QED
    BY <1>0, <2>1, <2>2
<1>5. 0..N \subseteq T
  <2> HIDE DEF T
  <2>1. QED
    BY <1>0, <1>3, <1>4, IntervalInduction
<1>6. N \in T /\ len(N) = N - a
  BY <1>0, <1>5
<1>7. r[N] \in Seq(S) /\ Len(r[N]) = N - a /\ \A i \in 1..(N - a) : r[N][i] = s[a + i]
  BY <1>0, <1>2, <1>6
<1> HIDE DEF N, T, len
<1>8. r[N] = [i \in 1..(N - a) |-> r[N][i]]
  <2>1. \A q \in Seq(S) : q = [i \in 1..Len(q) |-> q[i]]
    OBVIOUS
  <2>2. QED
    BY <1>7, <2>1
<1>9. r[N] = [i \in 1..(N - a) |-> s[a + i]]
  BY <1>7, <1>8
<1>10. QED
  BY <1>2, <1>9 DEF N

\* A set as a list: each element once.
LEMMA SetToSeqProperties ==
  ASSUME NEW S, IsFiniteSet(S)
  PROVE  /\ SetToSeq(S) \in Seq(S) /\ Len(SetToSeq(S)) = Cardinality(S)
         /\ \A x \in S : \E i \in 1..Len(SetToSeq(S)) : SetToSeq(S)[i] = x
         /\ \A i, j \in 1..Len(SetToSeq(S)) : SetToSeq(S)[i] = SetToSeq(S)[j] => i = j
<1>1. PICK f \in Bijection(1..Cardinality(S), S) : TRUE
  BY FS_CardinalityType DEF ExistsBijection
<1>2. Cardinality(S) \in Nat
  BY FS_CardinalityType
<1>3. f \in [1..Cardinality(S) -> S] /\ IsInjective(f)
  BY <1>1 DEF Bijection, Injection
<1>4. SetToSeq(S) \in [1..Cardinality(S) -> S] /\ IsInjective(SetToSeq(S))
  BY <1>3 DEF SetToSeq
<1> DEFINE q == SetToSeq(S)
<1> HIDE DEF q
<1>5. q \in [1..Cardinality(S) -> S] /\ IsInjective(q)
  BY <1>4 DEF q
<1>6. q \in Seq(S) /\ Len(q) = Cardinality(S)
  BY <1>2, <1>5
<1>7. \A i, j \in 1..Len(q) : q[i] = q[j] => i = j
  BY <1>5, <1>6 DEF IsInjective
<1>8. q \in Injection(1..Cardinality(S), S)
  BY <1>5 DEF Injection
<1>9. q \in Surjection(1..Cardinality(S), S)
  BY <1>2, <1>8, FS_Injection, FS_Interval
<1>10. \A x \in S : \E i \in 1..Len(q) : q[i] = x
  BY <1>6, <1>9 DEF Surjection
<1>11. QED
  BY <1>6, <1>7, <1>10 DEF q

LEMMA ImageFinite ==
  ASSUME NEW S, IsFiniteSet(S), NEW f
  PROVE  IsFiniteSet({f[x] : x \in S})
<1> DEFINE g == [x \in S |-> f[x]]
           T == {f[x] : x \in S}
<1>1. g \in Surjection(S, T)
  BY DEF Surjection
<1>2. QED
  BY <1>1, FS_Surjection

LEMMA ToSetFinite ==
  ASSUME NEW S, NEW s \in Seq(S)
  PROVE  IsFiniteSet(ToSet(s))
<1>1. IsFiniteSet(1..Len(s))
  BY FS_Interval
<1>2. ToSet(s) = {s[x] : x \in 1..Len(s)}
  BY DEF ToSet
<1>3. QED
  BY <1>1, <1>2, ImageFinite
=============================================================================
