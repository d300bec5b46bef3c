---------------------------- MODULE GitSyncProofs ----------------------------
(***************************************************************************)
(* Proofs about GitSync, and MergeDriver on which its convergence rests,   *)
(* for any machines, nodes, fields and numbers of writes.  SyncInv says    *)
(* which fields a machine's own commits change; a rebase keeps it by       *)
(* induction on the commits replayed.                                      *)
(***************************************************************************)
EXTENDS GitSync, Induction, SequenceTheorems, TLAPS

-----------------------------------------------------------------------------
(* The merge.                                                              *)

\* The merge of two changed lines of a node has, of a field only one side has
\* changed, what that side says: no time stamp, however wrong the clock it is
\* from, undoes an uncontested change (fieldLevelMerge: "Only one side changed").
THEOREM UncontestedChangesAreKept ==
  ASSUME NEW b \in Line, NEW o \in Line, NEW t \in Line, NEW f \in Fields
  PROVE  /\ o.fields[f] = b.fields[f] => MergeLine(b, o, t).fields[f] = t.fields[f]
         /\ t.fields[f] = b.fields[f] => MergeLine(b, o, t).fields[f] = o.fields[f]
<1>1. NoLine \notin {b, o, t}
  BY MergeAssumption
<1>2. CASE b = o
  BY <1>2 DEF MergeLine
<1>3. CASE b # o /\ (b = t \/ o = t)
  BY <1>3 DEF MergeLine
<1>4. CASE b # o /\ ~(b = t \/ o = t)
  <2>1. MergeLine(b, o, t) = FieldLevelMerge(b, o, t)
    BY <1>1, <1>4 DEF MergeLine
  <2>2. FieldLevelMerge(b, o, t).fields[f] =
          Resolve(b.fields[f], o.fields[f], t.fields[f], o.updated >= t.updated)
    BY DEF FieldLevelMerge
  <2>3. QED
    BY <2>1, <2>2 DEF Resolve
<1>5. QED
  BY <1>2, <1>3, <1>4

\* Two machines that merge each other's change of a node, each taking its own for
\* ours, get the same line if the changes have different time stamps; a line may
\* be missing on any side (mergeJsonl).
THEOREM MergeCommutes ==
  ASSUME NEW b \in Line \cup {NoLine}, NEW o \in Line \cup {NoLine},
         NEW t \in Line \cup {NoLine},
         o # NoLine /\ t # NoLine => o.updated # t.updated
  PROVE  MergeLine(b, o, t) = MergeLine(b, t, o)
<1>1. CASE b = o \/ b = t \/ o = t
  BY <1>1 DEF MergeLine
<1>2. CASE ~(b = o \/ b = t \/ o = t) /\ NoLine \notin {b, o, t}
  <2>1. /\ MergeLine(b, o, t) = FieldLevelMerge(b, o, t)
        /\ MergeLine(b, t, o) = FieldLevelMerge(b, t, o)
    BY <1>2 DEF MergeLine
  <2>2. o.updated \in Nat /\ t.updated \in Nat /\ o.updated # t.updated
    BY <1>2 DEF Line
  <2>3. /\ (o.updated >= t.updated) \in BOOLEAN
        /\ (t.updated >= o.updated) = ~(o.updated >= t.updated)
    BY <2>2
  <2>4. \A f \in Fields :
          Resolve(b.fields[f], o.fields[f], t.fields[f], o.updated >= t.updated) =
          Resolve(b.fields[f], t.fields[f], o.fields[f], t.updated >= o.updated)
    BY <2>3 DEF Resolve
  <2>5. FieldLevelMerge(b, o, t) = FieldLevelMerge(b, t, o)
    BY <2>3, <2>4 DEF FieldLevelMerge
  <2>6. QED
    BY <2>1, <2>5
<1>3. CASE ~(b = o \/ b = t \/ o = t) /\ NoLine \in {b, o, t} /\ NoLine \notin {o, t}
  <2>1. o.updated \in Nat /\ t.updated \in Nat /\ o.updated # t.updated
    BY <1>3 DEF Line
  <2>2. PickByNewerTimestamp(o, t) = PickByNewerTimestamp(t, o)
    BY <2>1 DEF PickByNewerTimestamp
  <2>3. QED
    BY <1>3, <2>2 DEF MergeLine
<1>4. CASE ~(b = o \/ b = t \/ o = t) /\ NoLine \in {o, t}
  BY <1>4 DEF MergeLine
<1>5. QED
  BY <1>1, <1>2, <1>3, <1>4

\* Lines of the program have all their fields.
WholeLine == [fields : [Fields -> Values], updated : Nat]
WholeFile == [Ids -> WholeLine \cup {NoLine}]
LocalCommit == [parent : WholeFile, content : WholeFile]
RemoteCommit == [number : Nat, content : WholeFile]
NodeFields == Ids \X Fields
Stage == [kind : Kinds, step : Steps, changed : BOOLEAN, unread : BOOLEAN]

USE DEF NodeFields, Stage

LEMMA WholeIsLine == WholeLine \subseteq Line /\ NoLine \notin WholeLine /\ WholeFile \subseteq File
<1>1. [Fields -> Values] \subseteq [Fields -> Values \cup {Absent}]
  OBVIOUS
<1>2. WholeLine \subseteq Line
  BY <1>1 DEF WholeLine, Line
<1>3. QED
  BY <1>2, MergeAssumption DEF WholeFile, File

LEMMA FieldsMergedType ==
  ASSUME NEW b \in WholeLine, NEW o \in WholeLine, NEW t \in WholeLine
  PROVE  FieldLevelMerge(b, o, t) \in WholeLine
<1>1. \A f \in Fields : Resolve(b.fields[f], o.fields[f], t.fields[f], o.updated >= t.updated) \in Values
  BY DEF Resolve, WholeLine
<1>2. (IF o.updated >= t.updated THEN o.updated ELSE t.updated) \in Nat
  BY DEF WholeLine
<1>3. QED
  BY <1>1, <1>2 DEF FieldLevelMerge, WholeLine

LEMMA MergeLineType ==
  ASSUME NEW b \in WholeLine \cup {NoLine}, NEW o \in WholeLine \cup {NoLine}, NEW t \in WholeLine \cup {NoLine}
  PROVE  MergeLine(b, o, t) \in WholeLine \cup {NoLine}
<1>1. CASE NoLine \notin {b, o, t}
  <2>1. FieldLevelMerge(b, o, t) \in WholeLine
    BY <1>1, FieldsMergedType
  <2>2. QED
    BY <1>1, <2>1 DEF MergeLine
<1>2. CASE NoLine \in {b, o, t}
  BY <1>2 DEF MergeLine, PickByNewerTimestamp
<1>3. QED
  BY <1>1, <1>2

LEMMA MergeType ==
  ASSUME NEW b \in WholeFile, NEW o \in WholeFile, NEW t \in WholeFile
  PROVE  MergeJsonl(b, o, t) \in WholeFile
BY MergeLineType DEF MergeJsonl, WholeFile

LEMMA AtType ==
  ASSUME NEW c \in WholeFile, NEW x \in NodeFields
  PROVE  /\ c[x[1]] = NoLine => At(c, x) = Absent
         /\ c[x[1]] # NoLine => At(c, x) = c[x[1]].fields[x[2]] /\ At(c, x) \in Values /\ c[x[1]] \in WholeLine
BY DEF At, WholeFile, WholeLine

\* What a merge has of a field, seen from either side: the other side's value, but
\* where this side changed it, or brought back a node the other had deleted.
LEMMA MergeFromTheirs ==
  ASSUME NEW b \in WholeFile, NEW o \in WholeFile, NEW t \in WholeFile, NEW x \in NodeFields,
         At(MergeJsonl(b, o, t), x) # At(t, x)
  PROVE  \/ At(o, x) # At(b, x)
         \/ t[x[1]] = NoLine /\ MergeJsonl(b, o, t)[x[1]] # NoLine
<1> DEFINE r == MergeJsonl(b, o, t)
<1>0. /\ x[1] \in Ids /\ x[2] \in Fields
      /\ r \in WholeFile /\ r[x[1]] = MergeLine(b[x[1]], o[x[1]], t[x[1]])
  BY MergeType DEF MergeJsonl
<1> HIDE DEF r
<1>1. CASE NoLine \notin {b[x[1]], o[x[1]], t[x[1]]} /\ ~(b[x[1]] = o[x[1]] \/ b[x[1]] = t[x[1]] \/ o[x[1]] = t[x[1]])
  <2>1. r[x[1]].fields[x[2]] = Resolve(b[x[1]].fields[x[2]], o[x[1]].fields[x[2]], t[x[1]].fields[x[2]],
                                       o[x[1]].updated >= t[x[1]].updated)
    BY <1>0, <1>1 DEF MergeLine, FieldLevelMerge
  <2>2. r[x[1]] # NoLine
    <3>1. r[x[1]] = FieldLevelMerge(b[x[1]], o[x[1]], t[x[1]])
      BY <1>0, <1>1 DEF MergeLine
    <3>2. {b[x[1]], o[x[1]], t[x[1]]} \subseteq WholeLine
      BY <1>0, <1>1 DEF WholeFile
    <3>3. QED
      BY <3>1, <3>2, FieldsMergedType, WholeIsLine
  <2>3. QED
    BY <1>1, <2>1, <2>2 DEF Resolve, At, r
<1>2. CASE b[x[1]] = o[x[1]] \/ b[x[1]] = t[x[1]] \/ o[x[1]] = t[x[1]]
  BY <1>0, <1>2 DEF MergeLine, At, r
<1>3. CASE NoLine \in {b[x[1]], o[x[1]], t[x[1]]} /\ ~(b[x[1]] = o[x[1]] \/ b[x[1]] = t[x[1]] \/ o[x[1]] = t[x[1]])
  <2>1. r[x[1]] \in {o[x[1]], t[x[1]]}
    BY <1>0, <1>3 DEF MergeLine, PickByNewerTimestamp
  <2>2. CASE r[x[1]] = t[x[1]]
    BY <2>2 DEF At, r
  <2>3. CASE r[x[1]] = o[x[1]]
    BY <1>0, <1>3, <2>3, AtType, SyncAssumption DEF MergeLine, r
  <2>4. QED
    BY <2>1, <2>2, <2>3
<1>4. QED
  BY <1>1, <1>2, <1>3

LEMMA MergeFromOurs ==
  ASSUME NEW b \in WholeFile, NEW o \in WholeFile, NEW t \in WholeFile, NEW x \in NodeFields,
         At(MergeJsonl(b, o, t), x) # At(o, x)
  PROVE  \/ At(t, x) # At(b, x)
         \/ o[x[1]] = NoLine /\ MergeJsonl(b, o, t)[x[1]] # NoLine
<1> DEFINE r == MergeJsonl(b, o, t)
<1>0. /\ x[1] \in Ids /\ x[2] \in Fields
      /\ r \in WholeFile /\ r[x[1]] = MergeLine(b[x[1]], o[x[1]], t[x[1]])
  BY MergeType DEF MergeJsonl
<1> HIDE DEF r
<1>1. CASE NoLine \notin {b[x[1]], o[x[1]], t[x[1]]} /\ ~(b[x[1]] = o[x[1]] \/ b[x[1]] = t[x[1]] \/ o[x[1]] = t[x[1]])
  <2>1. r[x[1]].fields[x[2]] = Resolve(b[x[1]].fields[x[2]], o[x[1]].fields[x[2]], t[x[1]].fields[x[2]],
                                       o[x[1]].updated >= t[x[1]].updated)
    BY <1>0, <1>1 DEF MergeLine, FieldLevelMerge
  <2>2. r[x[1]] # NoLine
    <3>1. r[x[1]] = FieldLevelMerge(b[x[1]], o[x[1]], t[x[1]])
      BY <1>0, <1>1 DEF MergeLine
    <3>2. {b[x[1]], o[x[1]], t[x[1]]} \subseteq WholeLine
      BY <1>0, <1>1 DEF WholeFile
    <3>3. QED
      BY <3>1, <3>2, FieldsMergedType, WholeIsLine
  <2>3. QED
    BY <1>1, <2>1, <2>2 DEF Resolve, At, r
<1>2. CASE b[x[1]] = o[x[1]] \/ b[x[1]] = t[x[1]] \/ o[x[1]] = t[x[1]]
  BY <1>0, <1>2 DEF MergeLine, At, r
<1>3. CASE NoLine \in {b[x[1]], o[x[1]], t[x[1]]} /\ ~(b[x[1]] = o[x[1]] \/ b[x[1]] = t[x[1]] \/ o[x[1]] = t[x[1]])
  <2>1. r[x[1]] \in {o[x[1]], t[x[1]]}
    BY <1>0, <1>3 DEF MergeLine, PickByNewerTimestamp
  <2>2. CASE r[x[1]] = o[x[1]]
    BY <2>2 DEF At, r
  <2>3. CASE r[x[1]] = t[x[1]]
    BY <1>0, <1>3, <2>3, AtType, SyncAssumption DEF MergeLine, r
  <2>4. QED
    BY <2>1, <2>2, <2>3
<1>4. QED
  BY <1>1, <1>2, <1>3

LEMMA TipType ==
  ASSUME remote \in RemoteCommit, NEW s \in Seq(LocalCommit)
  PROVE  /\ Tip(s) \in WholeFile
         /\ s # << >> => Len(s) \in 1..Len(s) /\ Tip(s) = s[Len(s)].content
<1>1. CASE s = << >>
  BY <1>1 DEF Tip, RemoteCommit
<1>2. CASE s # << >>
  <2>1. Len(s) \in 1..Len(s)
    BY <1>2
  <2>2. Tip(s) = s[Len(s)].content /\ s[Len(s)] \in LocalCommit
    BY <1>2, <2>1 DEF Tip, Last
  <2>3. QED
    BY <2>1, <2>2 DEF LocalCommit
<1>3. QED
  BY <1>1, <1>2

\* A commit more: dropped, or appended on top of those before it.
LEMMA ReplayCases ==
  ASSUME remote \in RemoteCommit, NEW s \in Seq(LocalCommit), NEW c \in LocalCommit,
         NEW new, new = MergeJsonl(c.parent, Tip(s), c.content)
  PROVE  /\ Replay(s, c) \in Seq(LocalCommit) /\ Tip(Replay(s, c)) = new /\ new \in WholeFile
         /\ \/ Replay(s, c) = s
            \/ /\ Len(Replay(s, c)) = Len(s) + 1
               /\ \A i \in 1..Len(s) : Replay(s, c)[i] = s[i]
               /\ Replay(s, c)[Len(s) + 1] = [parent |-> Tip(s), content |-> new]
<1> DEFINE n == [parent |-> Tip(s), content |-> new]
<1>1. Tip(s) \in WholeFile /\ new \in WholeFile /\ n \in LocalCommit
  BY TipType, MergeType DEF LocalCommit
<1>2. Replay(s, c) = IF new = Tip(s) THEN s ELSE Append(s, n)
  BY DEF Replay
<1>3. n.content = new
  OBVIOUS
<1> HIDE DEF n
<1>4. CASE new = Tip(s)
  BY <1>1, <1>2, <1>4
<1>5. CASE new # Tip(s)
  <2>1. /\ Append(s, n) \in Seq(LocalCommit) /\ Len(Append(s, n)) = Len(s) + 1 /\ Append(s, n) # << >>
        /\ \A i \in 1..Len(s) : Append(s, n)[i] = s[i]
        /\ Append(s, n)[Len(s) + 1] = n
    BY <1>1
  <2>2. Tip(Append(s, n)) = new
    BY <1>3, <2>1 DEF Tip, Last
  <2>3. QED
    BY <1>1, <1>2, <1>5, <2>1, <2>2 DEF n
<1>6. QED
  BY <1>4, <1>5 DEF n

\* The recursion: each commit is replayed on those before it.
LEMMA ReplayedSteps ==
  ASSUME NEW m \in Machines, local[m] \in Seq(LocalCommit), remote \in RemoteCommit,
         NEW N, N = Len(local[m]), NEW r, r = Replayed(m)
  PROVE  /\ N \in Nat
         /\ \A n \in 0..N : r[n] \in Seq(LocalCommit)
         /\ r[0] = << >>
         /\ \A n \in 0..(N - 1) : r[n + 1] = Replay(r[n], local[m][n + 1]) /\ local[m][n + 1] \in LocalCommit
<1> DEFINE A == Seq(LocalCommit)
           g == [n \in 1..N |-> [s \in A |-> Replay(s, local[m][n])]]
<1>1. N \in Nat /\ << >> \in A /\ \A n \in 1..N : local[m][n] \in LocalCommit
  OBVIOUS
<1>0. \A n \in 0..N : n # 0 => n \in 1..N /\ n - 1 \in 0..N
  BY <1>1
<1>2. \A n \in 1..N, s \in A : Replay(s, local[m][n]) \in A
  <2> SUFFICES ASSUME NEW n \in 1..N, NEW s \in A, NEW new, new = MergeJsonl(local[m][n].parent, Tip(s), local[m][n].content)
               PROVE  Replay(s, local[m][n]) \in A
    OBVIOUS
  <2> DEFINE c == local[m][n]
  <2>1. c \in LocalCommit /\ s \in Seq(LocalCommit) /\ new = MergeJsonl(c.parent, Tip(s), c.content)
    BY <1>1
  <2> HIDE DEF c
  <2>2. Replay(s, c) \in Seq(LocalCommit)
    BY <2>1, ReplayCases
  <2>3. QED
    BY <2>2 DEF c
<1> HIDE DEF A
<1>20. g \in [1..N -> [A -> A]]
  BY <1>2
<1>21. \A n \in 1..N, s \in A : g[n][s] = Replay(s, local[m][n])
  OBVIOUS
<1> HIDE DEF g
<1>3. PICK f \in [0..N -> A] : Iterates(f, g, << >>, N)
  BY <1>1, <1>20, Iterated
<1>4. f = [n \in 0..N |-> IF n = 0 THEN << >> ELSE Replay(f[n - 1], local[m][n])]
  <2>1. \A n \in 0..N : n # 0 => f[n] = Replay(f[n - 1], local[m][n])
    BY <1>0, <1>21, <1>3 DEF Iterates
  <2>2. \A n \in 0..N : f[n] = IF n = 0 THEN << >> ELSE Replay(f[n - 1], local[m][n])
    BY <1>3, <2>1 DEF Iterates
  <2>3. QED
    BY <2>2
<1>5. r = [n \in 0..N |-> IF n = 0 THEN << >> ELSE Replay(r[n - 1], local[m][n])]
  <2>1. r = CHOOSE h : h = [n \in 0..N |-> IF n = 0 THEN << >> ELSE Replay(h[n - 1], local[m][n])]
    BY DEF Replayed
  <2>2. QED
    BY <1>4, <2>1
<1>6. r[0] = << >> /\ \A n \in 0..(N - 1) : r[n + 1] = Replay(r[n], local[m][n + 1]) /\ local[m][n + 1] \in LocalCommit
  <2>1. 0 \in 0..N /\ \A n \in 0..(N - 1) : n + 1 \in 0..N /\ n + 1 \in 1..N /\ n + 1 # 0 /\ (n + 1) - 1 = n
    BY <1>1
  <2>2. \A n \in 0..N : r[n] = IF n = 0 THEN << >> ELSE Replay(r[n - 1], local[m][n])
    BY <1>5
  <2>3. r[0] = << >>
    BY <2>1, <2>2
  <2>4. ASSUME NEW n \in 0..(N - 1) PROVE r[n + 1] = Replay(r[n], local[m][n + 1])
    <3>1. r[n + 1] = Replay(r[(n + 1) - 1], local[m][n + 1])
      BY <2>1, <2>2
    <3>2. QED
      BY <2>1, <3>1
  <2>5. QED
    BY <1>1, <2>1, <2>3, <2>4
<1> DEFINE S == {n \in 0..N : r[n] \in A}
<1>7. 0 \in S
  BY <1>1, <1>6
<1>8. \A k \in 0..(N - 1) : k \in S => k + 1 \in S
  <2> SUFFICES ASSUME NEW k \in 0..(N - 1), r[k] \in A PROVE k + 1 \in S
    OBVIOUS
  <2>1. k + 1 \in 1..N /\ k + 1 \in 0..N
    BY <1>1
  <2>2. r[k + 1] \in A
    BY <1>2, <1>6, <2>1
  <2>3. QED
    BY <2>1, <2>2
<1>9. 0..N \subseteq S
  <2> HIDE DEF S
  <2>1. QED
    BY <1>1, <1>7, <1>8, IntervalInduction
<1>11. QED
  BY <1>1, <1>6, <1>9 DEF A

-----------------------------------------------------------------------------
(* The inductive invariant.                                                *)

\* TypeOK, of whole lines: no field of the program's own lines is missing.
SyncTyped ==
  /\ db \in [Machines -> WholeFile] /\ dirty \in [Machines -> SUBSET Ids]
  /\ file \in [Machines -> WholeFile] /\ head \in [Machines -> WholeFile]
  /\ local \in [Machines -> Seq(LocalCommit)]
  /\ base \in [Machines -> RemoteCommit] /\ remote \in RemoteCommit
  /\ at \in [Machines -> Stage]
  /\ failed \in [Machines -> {"none", "commit", "pull", "push"}]
  /\ touched \in [Machines -> BOOLEAN]
  /\ own \in [Machines -> SUBSET NodeFields]
  /\ writes \in 0..MaxWrites

\* Whatever HEAD has of its own, and whatever a commit not yet pushed changes.
OwnsHead(m) == \A x \in NodeFields : At(head[m], x) # At(base[m].content, x) => x \in own[m]
OwnsCommits(m) ==
  \A i \in 1..Len(local[m]), x \in NodeFields :
    At(local[m][i].content, x) # At(local[m][i].parent, x) => x \in own[m]
Owned == \A m \in Machines : OwnsHead(m) /\ OwnsCommits(m)

PushedAll == \A m \in Machines : local[m] = << >> => head[m] = base[m].content

\* A sync.now that left something uncommitted could not read the file's status, or
\* has an error on record that its pull does not clear.
NowCommitted(m) ==
  at[m].kind = "now" /\ ~Idle(m) =>
    Clean(m) \/ at[m].unread \/ failed[m] = "commit" \/ (failed[m] = "pull" /\ at[m].step # "pull")
AllNowCommitted == \A m \in Machines : NowCommitted(m)

SyncInv == SyncTyped /\ Owned /\ PushedAll /\ AllNowCommitted

LEMMA OwnedKept ==
  ASSUME Owned, PushedAll, head' = head, local' = local, base' = base, own' = own
  PROVE  Owned' /\ PushedAll'
<1>1. ASSUME NEW m \in Machines PROVE OwnsHead(m)'
  <2>1. OwnsHead(m)
    BY DEF Owned
  <2>2. QED
    BY <2>1 DEF OwnsHead, At
<1>2. ASSUME NEW m \in Machines PROVE OwnsCommits(m)'
  <2>1. OwnsCommits(m)
    BY DEF Owned
  <2>2. QED
    <3> SUFFICES ASSUME NEW i \in 1..Len(local'[m]), NEW x \in NodeFields,
                        At(local'[m][i].content, x) # At(local'[m][i].parent, x)
                 PROVE  x \in own'[m]
      BY DEF OwnsCommits, At
    <3>1. QED
      BY <2>1 DEF OwnsCommits
<1>3. PushedAll'
  BY DEF PushedAll
<1>4. QED
  BY <1>1, <1>2, <1>3 DEF Owned

BackIn(s) == UNION {BroughtBack(s[i].content) : i \in 1..Len(s)}

\* What the rebased commits change is the machine's own, or a node they brought back.
RebasedOwns(m, s) ==
  \A x \in NodeFields :
    \/ At(Tip(s), x) # At(remote.content, x)
    \/ \E i \in 1..Len(s) : At(s[i].content, x) # At(s[i].parent, x)
    => x \in own[m] \cup BackIn(s)

LEMMA ReplayOwns ==
  ASSUME NEW m \in Machines, remote \in RemoteCommit, NEW s \in Seq(LocalCommit), NEW c \in LocalCommit,
         RebasedOwns(m, s), \A x \in NodeFields : At(c.content, x) # At(c.parent, x) => x \in own[m]
  PROVE  RebasedOwns(m, Replay(s, c))
<1> SUFFICES ASSUME NEW new, new = MergeJsonl(c.parent, Tip(s), c.content)
             PROVE  RebasedOwns(m, Replay(s, c))
  OBVIOUS
<1> DEFINE r == Replay(s, c)
<1>1. /\ r \in Seq(LocalCommit) /\ Tip(r) = new /\ new \in WholeFile
      /\ \/ r = s
         \/ /\ Len(r) = Len(s) + 1
            /\ \A i \in 1..Len(s) : r[i] = s[i]
            /\ r[Len(s) + 1] = [parent |-> Tip(s), content |-> new]
  BY ReplayCases
<1> HIDE DEF r
<1>2. CASE r = s
  BY <1>2 DEF r
<1>3. CASE /\ Len(r) = Len(s) + 1
           /\ \A i \in 1..Len(s) : r[i] = s[i]
           /\ r[Len(s) + 1] = [parent |-> Tip(s), content |-> new]
  <2>1. BackIn(s) \subseteq BackIn(r) /\ BroughtBack(new) \subseteq BackIn(r)
    <3>1. Len(s) \in Nat /\ \A i \in 1..Len(s) : i \in 1..Len(r) /\ r[i].content = s[i].content
      BY <1>3
    <3>2. Len(s) + 1 \in 1..Len(r) /\ r[Len(s) + 1].content = new
      BY <1>3
    <3>3. QED
      BY <3>1, <3>2 DEF BackIn
  <2>2. ASSUME NEW x \in NodeFields, At(Tip(s), x) # At(remote.content, x)
        PROVE  x \in own[m] \cup BackIn(r)
    BY <2>1, <2>2 DEF RebasedOwns
  <2>3. ASSUME NEW x \in NodeFields, At(new, x) # At(Tip(s), x)
        PROVE  x \in own[m] \cup BackIn(r)
    <3>1. Tip(s) \in WholeFile /\ c.parent \in WholeFile /\ c.content \in WholeFile /\ remote.content \in WholeFile
      BY TipType DEF LocalCommit, RemoteCommit
    <3>2. \/ At(c.content, x) # At(c.parent, x)
          \/ Tip(s)[x[1]] = NoLine /\ new[x[1]] # NoLine
      BY <2>3, <3>1, MergeFromOurs
    <3>3. CASE Tip(s)[x[1]] = NoLine /\ new[x[1]] # NoLine
      <4>1. CASE remote.content[x[1]] = NoLine
        <5>1. x \in BroughtBack(new)
          BY <3>3, <4>1 DEF BroughtBack
        <5>2. QED
          BY <2>1, <5>1
      <4>2. CASE remote.content[x[1]] # NoLine
        <5>1. At(Tip(s), x) # At(remote.content, x)
          BY <3>1, <3>3, <4>2, AtType, SyncAssumption
        <5>2. QED
          BY <2>2, <5>1
      <4>3. QED
        BY <4>1, <4>2
    <3>4. QED
      BY <3>2, <3>3
  <2>4. ASSUME NEW x \in NodeFields, At(new, x) # At(remote.content, x)
        PROVE  x \in own[m] \cup BackIn(r)
    BY <2>2, <2>3, <2>4
  <2>5. ASSUME NEW x \in NodeFields, NEW i \in 1..Len(r), At(r[i].content, x) # At(r[i].parent, x)
        PROVE  x \in own[m] \cup BackIn(r)
    <3>1. CASE i \in 1..Len(s)
      <4>1. At(s[i].content, x) # At(s[i].parent, x)
        BY <1>3, <2>5, <3>1
      <4>2. QED
        BY <2>1, <3>1, <4>1 DEF RebasedOwns
    <3>2. CASE i = Len(s) + 1
      <4>1. r[i].content = new /\ r[i].parent = Tip(s)
        BY <1>3, <3>2
      <4>2. QED
        BY <2>3, <2>5, <4>1
    <3>3. i \in 1..Len(s) \/ i = Len(s) + 1
      BY <1>3
    <3>4. QED
      BY <3>1, <3>2, <3>3
  <2>6. QED
    BY <1>1, <2>4, <2>5 DEF RebasedOwns, r
<1>4. QED
  BY <1>1, <1>2, <1>3

LEMMA RebaseOwns ==
  ASSUME NEW m \in Machines, local[m] \in Seq(LocalCommit), remote \in RemoteCommit, OwnsCommits(m)
  PROVE  Rebased(m) \in Seq(LocalCommit) /\ RebasedOwns(m, Rebased(m))
<1> SUFFICES ASSUME NEW N, N = Len(local[m]), NEW r, r = Replayed(m)
             PROVE  r[N] \in Seq(LocalCommit) /\ RebasedOwns(m, r[N])
  BY DEF Rebased
<1>1. /\ N \in Nat
      /\ \A n \in 0..N : r[n] \in Seq(LocalCommit)
      /\ r[0] = << >>
      /\ \A n \in 0..(N - 1) : r[n + 1] = Replay(r[n], local[m][n + 1]) /\ local[m][n + 1] \in LocalCommit
  BY ReplayedSteps
<1> DEFINE S == {n \in 0..N : RebasedOwns(m, r[n])}
<1>2. 0 \in S
  BY <1>1 DEF RebasedOwns, Tip
<1>3. \A k \in 0..(N - 1) : k \in S => k + 1 \in S
  <2> SUFFICES ASSUME NEW k \in 0..(N - 1), RebasedOwns(m, r[k])
               PROVE  k + 1 \in S
    OBVIOUS
  <2>1. k + 1 \in 1..N /\ k + 1 \in 0..N /\ k \in 0..N
    BY <1>1
  <2>2. \A x \in NodeFields : At(local[m][k + 1].content, x) # At(local[m][k + 1].parent, x) => x \in own[m]
    BY <2>1 DEF OwnsCommits
  <2> DEFINE c == local[m][k + 1]
             t == r[k]
  <2>3. /\ c \in LocalCommit /\ t \in Seq(LocalCommit) /\ RebasedOwns(m, t) /\ r[k + 1] = Replay(t, c)
        /\ \A x \in NodeFields : At(c.content, x) # At(c.parent, x) => x \in own[m]
    BY <1>1, <2>1, <2>2
  <2> HIDE DEF c, t
  <2>4. RebasedOwns(m, Replay(t, c))
    BY <2>3, ReplayOwns
  <2>5. QED
    BY <2>1, <2>3, <2>4
<1>4. 0..N \subseteq S
  <2> HIDE DEF S
  <2>1. QED
    BY <1>1, <1>2, <1>3, IntervalInduction
<1>5. N \in 0..N
  BY <1>1
<1>6. QED
  BY <1>1, <1>4, <1>5

-----------------------------------------------------------------------------
(* Every step keeps it.                                                    *)

USE DEF Kinds, Steps

LEMMA SyncInvInit == Init => SyncInv
<1> SUFFICES ASSUME Init PROVE SyncInv
  OBVIOUS
<1>1. First \in WholeFile
  BY SyncAssumption DEF First, WholeFile, WholeLine
<1>2. 0 \in 0..MaxWrites
  BY SyncAssumption
<1>3. SyncTyped
  BY <1>1, <1>2 DEF Init, SyncTyped, RemoteCommit, Nothing
<1>4. QED
  BY <1>3 DEF Init, SyncInv, Owned, OwnsHead, OwnsCommits, PushedAll, AllNowCommitted, NowCommitted, Idle, Nothing

LEMMA FlushedType ==
  ASSUME SyncTyped, NEW m \in Machines
  PROVE  Flushed(m) \in WholeFile
BY DEF SyncTyped, Flushed, WholeFile

LEMMA ReloadedType ==
  ASSUME SyncTyped, NEW m \in Machines, NEW c \in WholeFile
  PROVE  Reloaded(m, c) \in [Machines -> WholeFile]
<1>1. ASSUME NEW row \in WholeLine \cup {NoLine}, NEW line \in WholeLine \cup {NoLine}
      PROVE  Overlaid(row, line) \in WholeLine \cup {NoLine}
  <2>1. CASE line = NoLine \/ row = NoLine
    BY <2>1 DEF Overlaid
  <2>2. CASE ~(line = NoLine \/ row = NoLine)
    <3>1. /\ line.fields = [f \in Fields |-> line.fields[f]] /\ line.updated \in Nat
          /\ \A f \in Fields : line.fields[f] \in Values /\ row.fields[f] \in Values
      BY <2>2 DEF WholeLine
    <3>2. [f \in Fields |-> IF line.fields[f] = Absent THEN row.fields[f] ELSE line.fields[f]] \in [Fields -> Values]
      BY <3>1
    <3>3. QED
      BY <2>2, <3>2 DEF Overlaid, WholeLine
  <2>3. QED
    BY <2>1, <2>2
<1>2. db[m] \in WholeFile
  BY DEF SyncTyped
<1>3. [id \in Ids |-> Overlaid(db[m][id], c[id])] \in WholeFile
  BY <1>1, <1>2 DEF WholeFile
<1>4. QED
  BY <1>3 DEF Reloaded, SyncTyped

\* Steps that leave the repository and the sync under way alone.
LEMMA QuietKeeps ==
  ASSUME SyncInv, SyncTyped', UNCHANGED <<repo, remote, own, at, failed>>,
         \A m \in Machines : Idle(m) \/ file'[m] = file[m]
  PROVE  SyncInv'
<1>1. Owned' /\ PushedAll'
  BY DEF SyncInv, Owned, OwnsHead, OwnsCommits, PushedAll, repo, At
<1>2. AllNowCommitted'
  BY DEF SyncInv, AllNowCommitted, NowCommitted, Clean, Idle, repo
<1>3. QED
  BY <1>1, <1>2 DEF SyncInv

LEMMA WriteKeeps ==
  ASSUME SyncInv, NEW m \in Machines, NEW id \in Ids, NEW f \in Fields, NEW time \in 1..MaxTime,
         Write(m, id, f, time)
  PROVE  SyncInv'
<1>1. db[m][id] \in WholeLine /\ writes + 1 \in Values /\ time \in Nat /\ writes + 1 \in 0..MaxWrites
  BY SyncAssumption DEF SyncInv, SyncTyped, WholeFile, Write
<1>2. db' \in [Machines -> WholeFile]
  <2> DEFINE line == [db[m][id] EXCEPT !.fields[f] = writes + 1, !.updated = time]
  <2>1. line \in WholeLine
    BY <1>1 DEF WholeLine
  <2>2. db' = [db EXCEPT ![m] = [db[m] EXCEPT ![id] = line]]
    BY DEF Write, SyncInv, SyncTyped, WholeFile
  <2> HIDE DEF line
  <2>3. QED
    BY <2>1, <2>2 DEF SyncInv, SyncTyped, WholeFile
<1>3. SyncTyped'
  BY <1>1, <1>2 DEF SyncInv, SyncTyped, Write, repo
<1>4. QED
  BY <1>3, QuietKeeps DEF Write, repo

LEMMA DeleteKeeps ==
  ASSUME SyncInv, NEW m \in Machines, NEW id \in Ids, Delete(m, id)
  PROVE  SyncInv'
<1>1. writes + 1 \in 0..MaxWrites
  BY SyncAssumption DEF SyncInv, SyncTyped, Delete
<1>2. db' \in [Machines -> WholeFile]
  BY DEF Delete, SyncInv, SyncTyped, WholeFile
<1>3. SyncTyped'
  BY <1>1, <1>2 DEF SyncInv, SyncTyped, Delete, repo
<1>4. QED
  BY <1>3, QuietKeeps DEF Delete, repo

LEMMA WatcherReloadKeeps ==
  ASSUME SyncInv, NEW m \in Machines, WatcherReload(m)
  PROVE  SyncInv'
<1>1. db' \in [Machines -> WholeFile]
  BY ReloadedType DEF WatcherReload, SyncInv, SyncTyped
<1>2. SyncTyped'
  BY <1>1 DEF SyncInv, SyncTyped, WatcherReload, repo, bounds
<1>3. QED
  BY <1>2, QuietKeeps DEF WatcherReload, repo

\* A commit owns what it changes.
LEMMA CommitOwns ==
  ASSUME SyncInv, NEW m \in Machines, NEW content \in WholeFile, CommitIfDirty(m, content)
  PROVE  /\ head' \in [Machines -> WholeFile] /\ head'[m] = content
         /\ local' \in [Machines -> Seq(LocalCommit)]
         /\ own' \in [Machines -> SUBSET NodeFields]
         /\ Owned' /\ PushedAll'
         /\ \A k \in Machines \ {m} : head'[k] = head[k]
<1> DEFINE c == [parent |-> head[m], content |-> content]
<1>1. c \in LocalCommit /\ local[m] \in Seq(LocalCommit) /\ head[m] \in WholeFile
  BY DEF SyncInv, SyncTyped, LocalCommit
<1>2. /\ head' = [head EXCEPT ![m] = content]
      /\ local' = IF content = head[m] THEN local ELSE [local EXCEPT ![m] = Append(@, c)]
      /\ own' = [own EXCEPT ![m] = @ \cup {x \in NodeFields : At(content, x) # At(head[m], x)}]
      /\ base' = base
  BY DEF CommitIfDirty
<1>3. /\ head' \in [Machines -> WholeFile] /\ head'[m] = content
      /\ own' \in [Machines -> SUBSET NodeFields]
      /\ \A k \in Machines \ {m} : head'[k] = head[k]
  BY <1>2 DEF SyncInv, SyncTyped
<1>4. local' \in [Machines -> Seq(LocalCommit)]
  <2> HIDE DEF c
  <2>1. Append(local[m], c) \in Seq(LocalCommit)
    BY <1>1
  <2>2. QED
    BY <1>2, <2>1 DEF SyncInv, SyncTyped
<1>5. \A k \in Machines \ {m} : head'[k] = head[k] /\ local'[k] = local[k] /\ own'[k] = own[k]
  BY <1>2 DEF SyncInv, SyncTyped
<1>6. own'[m] = own[m] \cup {x \in NodeFields : At(content, x) # At(head[m], x)}
  BY <1>2 DEF SyncInv, SyncTyped
<1>7. \/ content = head[m] /\ local'[m] = local[m]
      \/ local'[m] = Append(local[m], c)
  BY <1>2 DEF SyncInv, SyncTyped
<1>8. OwnsHead(m)'
  BY <1>2, <1>3, <1>6 DEF SyncInv, Owned, OwnsHead
<1>9. OwnsCommits(m)'
  <2> SUFFICES ASSUME NEW i \in 1..Len(local'[m]), NEW x \in NodeFields,
                      At(local'[m][i].content, x) # At(local'[m][i].parent, x)
               PROVE  x \in own'[m]
    BY DEF OwnsCommits, At
  <2>1. CASE i \in 1..Len(local[m]) /\ local'[m][i] = local[m][i]
    BY <1>6, <2>1 DEF SyncInv, Owned, OwnsCommits
  <2>2. CASE local'[m][i] = c
    BY <1>6, <2>2
  <2>3. \/ i \in 1..Len(local[m]) /\ local'[m][i] = local[m][i]
        \/ local'[m][i] = c
    <3> HIDE DEF c
    <3>1. QED
      BY <1>1, <1>7
  <2>4. QED
    BY <2>1, <2>2, <2>3
<1>10. \A k \in Machines \ {m} : OwnsHead(k)' /\ OwnsCommits(k)'
  <2> SUFFICES ASSUME NEW k \in Machines \ {m}
               PROVE  OwnsHead(k)' /\ OwnsCommits(k)'
    OBVIOUS
  <2>1. head'[k] = head[k] /\ local'[k] = local[k] /\ own'[k] = own[k] /\ base'[k] = base[k]
    BY <1>2, <1>5
  <2>2. OwnsHead(k) /\ OwnsCommits(k)
    BY DEF SyncInv, Owned
  <2>3. OwnsHead(k)'
    BY <2>1, <2>2 DEF OwnsHead, At
  <2>4. OwnsCommits(k)'
    <3> SUFFICES ASSUME NEW i \in 1..Len(local'[k]), NEW x \in NodeFields,
                        At(local'[k][i].content, x) # At(local'[k][i].parent, x)
                 PROVE  x \in own'[k]
      BY DEF OwnsCommits, At
    <3>1. QED
      BY <2>1, <2>2 DEF OwnsCommits
  <2>5. QED
    BY <2>3, <2>4
<1>11. Owned'
  BY <1>8, <1>9, <1>10 DEF Owned
<1>12. PushedAll'
  <2>1. local'[m] = << >> => head'[m] = base'[m].content
    <3> HIDE DEF c
    <3>1. Append(local[m], c) # << >>
      <4>1. Len(Append(local[m], c)) = Len(local[m]) + 1 /\ Len(local[m]) \in Nat
        BY <1>1
      <4>2. QED
        BY <4>1
    <3>2. QED
      BY <1>2, <1>3, <1>7, <3>1 DEF SyncInv, PushedAll
  <2>2. QED
    BY <1>2, <1>5, <2>1 DEF SyncInv, PushedAll
<1>13. QED
  BY <1>3, <1>4, <1>11, <1>12

LEMMA FlushKeeps ==
  ASSUME SyncInv, NEW m \in Machines, Flush(m)
  PROVE  SyncInv'
<1>1. file' \in [Machines -> WholeFile] /\ dirty' \in [Machines -> SUBSET Ids]
  BY FlushedType DEF Flush, SyncInv, SyncTyped
<1>2. CASE MultiLocation /\ CommitIfDirty(m, Flushed(m)) /\ UNCHANGED <<failed, faults>>
  <2>1. CommitIfDirty(m, Flushed(m)) /\ Flushed(m) \in WholeFile
    BY <1>2, FlushedType DEF SyncInv
  <2>2. SyncTyped' /\ Owned' /\ PushedAll'
    BY <1>1, <1>2, <2>1, CommitOwns DEF Flush, SyncInv, SyncTyped, CommitIfDirty
  <2>3. ASSUME NEW k \in Machines PROVE NowCommitted(k)'
    <3>1. CASE k = m
      BY <3>1 DEF Flush, NowCommitted, Idle
    <3>2. CASE k # m
      BY <1>2, <2>1, <3>2, CommitOwns DEF Flush, NowCommitted, Idle, Clean, SyncInv, SyncTyped, AllNowCommitted
    <3>3. QED
      BY <3>1, <3>2
  <2>4. QED
    BY <2>2, <2>3 DEF SyncInv, AllNowCommitted
<1>3. CASE UNCHANGED <<repo, own>> /\ (failed' = failed \/ Fails(m, "commit"))
  <2>1. failed' \in [Machines -> {"none", "commit", "pull", "push"}] /\ (\A k \in Machines \ {m} : failed'[k] = failed[k])
    BY <1>3 DEF Fails, SyncInv, SyncTyped
  <2>2. SyncTyped'
    BY <1>1, <1>3, <2>1 DEF Flush, SyncInv, SyncTyped, repo
  <2>3. Owned' /\ PushedAll'
    BY <1>3, OwnedKept DEF SyncInv, repo
  <2>4. ASSUME NEW k \in Machines PROVE NowCommitted(k)'
    <3>1. CASE k = m
      BY <3>1 DEF Flush, NowCommitted, Idle
    <3>2. CASE k # m
      <4>1. at'[k] = at[k] /\ file'[k] = file[k] /\ head'[k] = head[k] /\ failed'[k] = failed[k]
        BY <1>3, <2>1, <3>2 DEF Flush, SyncInv, SyncTyped, repo
      <4>2. QED
        BY <4>1 DEF NowCommitted, Idle, Clean, SyncInv, AllNowCommitted
    <3>3. QED
      BY <3>1, <3>2
  <2>5. QED
    BY <2>2, <2>3, <2>4 DEF SyncInv, AllNowCommitted
<1>4. QED
  BY <1>2, <1>3 DEF Flush

LEMMA SyncStartsKeeps ==
  ASSUME SyncInv, NEW m \in Machines, NEW kind \in Kinds, SyncStarts(m, kind)
  PROVE  SyncInv'
<1>1. Drained(m, kind) \in WholeFile
  BY FlushedType DEF Drained, SyncInv, SyncTyped
<1>2. file' \in [Machines -> WholeFile] /\ file'[m] = Drained(m, kind) /\ dirty' \in [Machines -> SUBSET Ids]
  BY <1>1 DEF SyncStarts, StillDirty, SyncInv, SyncTyped
<1>3. CommitIfDirty(m, Drained(m, kind))
  BY <1>2 DEF SyncStarts
<1>4. at' \in [Machines -> Stage]
  BY DEF SyncStarts, Started, SyncInv, SyncTyped, Kinds, Steps
<1>50. /\ head' \in [Machines -> WholeFile] /\ head'[m] = Drained(m, kind)
       /\ local' \in [Machines -> Seq(LocalCommit)]
       /\ own' \in [Machines -> SUBSET NodeFields]
       /\ Owned' /\ PushedAll'
  BY <1>1, <1>3, CommitOwns
<1>51. base' = base /\ db' = db /\ remote' = remote /\ failed' = failed /\ touched' = touched /\ writes' = writes
  BY <1>3 DEF SyncStarts, CommitIfDirty, bounds
<1>5. SyncTyped' /\ Owned' /\ PushedAll'
  BY <1>2, <1>4, <1>50, <1>51 DEF SyncInv, SyncTyped
<1>6. ASSUME NEW k \in Machines PROVE NowCommitted(k)'
  <2>1. CASE k = m
    <3>1. file'[k] = head'[k]
      BY <1>2, <1>50, <2>1
    <3>2. QED
      BY <3>1 DEF NowCommitted, Clean, Idle
  <2>2. CASE k # m
    <3>1. at'[k] = at[k] /\ file'[k] = file[k] /\ head'[k] = head[k] /\ failed' = failed
      BY <1>1, <1>3, <2>2, CommitOwns DEF SyncStarts, Started, SyncInv, SyncTyped
    <3>2. QED
      BY <3>1 DEF NowCommitted, Clean, Idle, SyncInv, AllNowCommitted
  <2>3. QED
    BY <2>1, <2>2
<1>7. QED
  BY <1>5, <1>6 DEF SyncInv, AllNowCommitted

LEMMA CommitFailsKeeps ==
  ASSUME SyncInv, NEW m \in Machines, NEW kind \in Kinds, CommitFails(m, kind)
  PROVE  SyncInv'
<1>1. Drained(m, kind) \in WholeFile
  BY FlushedType DEF Drained, SyncInv, SyncTyped
<1>2. file' \in [Machines -> WholeFile] /\ dirty' \in [Machines -> SUBSET Ids]
  BY <1>1 DEF CommitFails, StillDirty, SyncInv, SyncTyped
<1>3. at' \in [Machines -> Stage]
  <2>1. at' = at \/ Started(m, kind, FALSE)
    BY DEF CommitFails
  <2>2. Started(m, kind, FALSE) => at' \in [Machines -> Stage]
    BY DEF Started, SyncInv, SyncTyped, Kinds, Steps
  <2>3. QED
    BY <2>1, <2>2 DEF SyncInv, SyncTyped
<1>4. failed' = [failed EXCEPT ![m] = "commit"]
  BY DEF CommitFails, Fails
<1>5. SyncTyped'
  BY <1>2, <1>3, <1>4 DEF CommitFails, SyncInv, SyncTyped, repo
<1>6. Owned' /\ PushedAll'
  BY OwnedKept DEF CommitFails, SyncInv, repo
<1>7. ASSUME NEW k \in Machines PROVE NowCommitted(k)'
  <2>1. CASE k = m
    <3>1. failed'[k] = "commit"
      BY <1>4, <2>1 DEF SyncInv, SyncTyped
    <3>2. QED
      BY <3>1 DEF NowCommitted, Clean, Idle
  <2>2. CASE k # m
    <3>1. at'[k] = at[k] /\ file'[k] = file[k] /\ head'[k] = head[k] /\ failed'[k] = failed[k]
      BY <1>4, <2>2 DEF CommitFails, Started, repo, SyncInv, SyncTyped
    <3>2. QED
      BY <3>1 DEF NowCommitted, Clean, Idle, SyncInv, AllNowCommitted
  <2>3. QED
    BY <2>1, <2>2
<1>8. QED
  BY <1>5, <1>6, <1>7 DEF SyncInv, AllNowCommitted

LEMMA StatusUnreadKeeps ==
  ASSUME SyncInv, NEW m \in Machines, NEW kind \in Kinds, StatusUnread(m, kind)
  PROVE  SyncInv'
<1>1. Drained(m, kind) \in WholeFile
  BY FlushedType DEF Drained, SyncInv, SyncTyped
<1>2. file' \in [Machines -> WholeFile] /\ dirty' \in [Machines -> SUBSET Ids]
  BY <1>1 DEF StatusUnread, StillDirty, SyncInv, SyncTyped
<1>3. at' \in [Machines -> Stage] /\ at'[m].unread
  BY DEF StatusUnread, Started, SyncInv, SyncTyped, Kinds, Steps
<1>4. SyncTyped'
  BY <1>2, <1>3 DEF StatusUnread, SyncInv, SyncTyped, repo
<1>5. Owned' /\ PushedAll'
  BY OwnedKept DEF StatusUnread, SyncInv, repo
<1>6. ASSUME NEW k \in Machines PROVE NowCommitted(k)'
  <2>1. CASE k = m
    BY <1>3, <2>1 DEF NowCommitted
  <2>2. CASE k # m
    <3>1. at'[k] = at[k] /\ file'[k] = file[k] /\ head'[k] = head[k] /\ failed'[k] = failed[k]
      BY <2>2 DEF StatusUnread, Started, repo, SyncInv, SyncTyped
    <3>2. QED
      BY <3>1 DEF NowCommitted, Clean, Idle, SyncInv, AllNowCommitted
  <2>3. QED
    BY <2>1, <2>2
<1>7. QED
  BY <1>4, <1>5, <1>6 DEF SyncInv, AllNowCommitted

\* The other machines see nothing of a machine's steps but what it pushes.
LEMMA OthersKeep ==
  ASSUME SyncInv, NEW m \in Machines, NEW k \in Machines,
         base'[k] = base[k], head'[k] = head[k], local'[k] = local[k], own'[k] = own[k],
         file'[k] = file[k], at'[k] = at[k], failed'[k] = failed[k]
  PROVE  /\ (OwnsHead(k) /\ OwnsCommits(k))'
         /\ local'[k] = << >> => head'[k] = base'[k].content
         /\ NowCommitted(k)'
<1>0. OwnsHead(k) /\ OwnsCommits(k)
  BY DEF SyncInv, Owned
<1>1. OwnsHead(k)' /\ OwnsCommits(k)'
  <2>1. OwnsHead(k)'
    BY <1>0 DEF OwnsHead, At
  <2>2. OwnsCommits(k)'
    <3> SUFFICES ASSUME NEW i \in 1..Len(local'[k]), NEW x \in NodeFields,
                        At(local'[k][i].content, x) # At(local'[k][i].parent, x)
                 PROVE  x \in own'[k]
      BY DEF OwnsCommits, At
    <3>1. QED
      BY <1>0 DEF OwnsCommits
  <2>3. QED
    BY <2>1, <2>2
<1>2. local'[k] = << >> => head'[k] = base'[k].content
  BY DEF SyncInv, PushedAll
<1>3. NowCommitted(k)'
  BY DEF SyncInv, AllNowCommitted, NowCommitted, Clean, Idle
<1>4. QED
  BY <1>1, <1>2, <1>3

LEMMA ByMachine ==
  ASSUME SyncTyped', NEW m \in Machines,
         \A k \in Machines :
           /\ (OwnsHead(k) /\ OwnsCommits(k))'
           /\ local'[k] = << >> => head'[k] = base'[k].content
           /\ NowCommitted(k)'
  PROVE  SyncInv'
BY DEF SyncInv, Owned, PushedAll, AllNowCommitted

LEMMA PullKeeps ==
  ASSUME SyncInv, NEW m \in Machines, Pull(m)
  PROVE  SyncInv'
<1> SUFFICES ASSUME NEW merged, merged = MergeJsonl(base[m].content, head[m], remote.content)
             PROVE  SyncInv'
  OBVIOUS
<1>0. SyncTyped /\ at[m].step = "pull" /\ m \in DOMAIN at
  BY DEF Pull, SyncInv, SyncTyped
<1>1. /\ base[m].content \in WholeFile /\ head[m] \in WholeFile /\ remote.content \in WholeFile
      /\ merged \in WholeFile
  BY <1>0, MergeType DEF SyncTyped, RemoteCommit
<1>2. /\ failed' = [failed EXCEPT ![m] = IF @ = "pull" THEN "none" ELSE @]
      /\ UNCHANGED <<dirty, local, remote, writes>>
  BY DEF Pull, Succeeds
<1>b. PICK changed \in BOOLEAN : AfterPull(m, changed)
  BY DEF Pull, Behind
<1>3. CASE Behind(m)
  <2>1. /\ head' = [head EXCEPT ![m] = merged] /\ file' = [file EXCEPT ![m] = merged]
        /\ base' = [base EXCEPT ![m] = remote] /\ touched' = [touched EXCEPT ![m] = MultiLocation]
        /\ own' = [own EXCEPT ![m] = @ \cup BroughtBack(merged)]
    BY <1>3 DEF Pull, CheckOut
  <2>2. /\ head' \in [Machines -> WholeFile] /\ file' \in [Machines -> WholeFile]
        /\ base' \in [Machines -> RemoteCommit] /\ touched' \in [Machines -> BOOLEAN]
        /\ own' \in [Machines -> SUBSET NodeFields]
    BY <1>0, <1>1, <2>1, SyncAssumption DEF SyncTyped, BroughtBack
  <2>3. db' \in [Machines -> WholeFile] /\ at' \in [Machines -> Stage]
    <3>1. CASE at[m].kind = "now"
      <4>1. db' = db /\ at' = [at EXCEPT ![m] = [at[m] EXCEPT !.step = "push", !.changed = changed]]
        BY <1>0, <1>b, <3>1 DEF AfterPull, GoesOn, SyncTyped
      <4>2. QED
        BY <1>0, <4>1 DEF SyncTyped
    <3>2. CASE at[m].kind # "now"
      <4>1. at' = [at EXCEPT ![m] = Nothing] /\ db' \in {db, Reloaded(m, file'[m])}
        BY <1>b, <3>2 DEF AfterPull, Returns
      <4>2. QED
        BY <1>0, <2>2, <4>1, ReloadedType DEF Nothing, SyncTyped
    <3>3. QED
      BY <3>1, <3>2
  <2>4. SyncTyped'
    BY <1>0, <1>2, <2>2, <2>3 DEF SyncTyped
  <2>5. ASSUME NEW k \in Machines
        PROVE  /\ (OwnsHead(k) /\ OwnsCommits(k))'
               /\ local'[k] = << >> => head'[k] = base'[k].content
               /\ NowCommitted(k)'
    <3>1. CASE k = m
      <4>1. head'[k] = merged /\ file'[k] = merged /\ base'[k] = remote /\ own'[k] = own[m] \cup BroughtBack(merged)
            /\ local'[k] = local[m]
        BY <1>0, <1>2, <2>1, <3>1 DEF SyncTyped
      <4>2. OwnsHead(k)'
        <5> SUFFICES ASSUME NEW x \in NodeFields, At(merged, x) # At(remote.content, x)
                     PROVE  x \in own[m] \cup BroughtBack(merged)
          BY <4>1 DEF OwnsHead, At
        <5>1. \/ At(head[m], x) # At(base[m].content, x)
              \/ remote.content[x[1]] = NoLine /\ merged[x[1]] # NoLine
          BY <1>1, MergeFromTheirs
        <5>2. QED
          BY <5>1 DEF SyncInv, Owned, OwnsHead, BroughtBack
      <4>3. OwnsCommits(k)'
        <5>1. OwnsCommits(m) /\ own[m] \subseteq own'[k] /\ local'[k] = local[m]
          BY <4>1 DEF SyncInv, Owned
        <5> SUFFICES ASSUME NEW i \in 1..Len(local'[k]), NEW x \in NodeFields,
                            At(local'[k][i].content, x) # At(local'[k][i].parent, x)
                     PROVE  x \in own'[k]
          BY DEF OwnsCommits, At
        <5>2. QED
          BY <5>1 DEF OwnsCommits
      <4>4. local'[k] = << >> => head'[k] = base'[k].content
        <5>1. head[m] = base[m].content => merged = remote.content
          BY <1>1 DEF MergeJsonl, MergeLine, WholeFile
        <5>2. QED
          BY <3>1, <4>1, <5>1 DEF SyncInv, PushedAll
      <4>5. NowCommitted(k)'
        BY <4>1 DEF NowCommitted, Clean, Idle
      <4>6. QED
        BY <4>2, <4>3, <4>4, <4>5
    <3>2. CASE k # m
      <4>1. at'[k] = at[k]
        BY <1>0, <1>b, <3>2 DEF AfterPull, GoesOn, Returns, SyncTyped
      <4>2. QED
        BY <1>0, <1>2, <2>1, <3>2, <4>1, OthersKeep DEF SyncTyped
    <3>3. QED
      BY <3>1, <3>2
  <2>6. QED
    BY <2>4, <2>5, ByMachine
<1>4. CASE ~Behind(m)
  <2>1. UNCHANGED <<head, file, base, touched, own>>
    BY <1>4 DEF Pull
  <2>2. db' \in [Machines -> WholeFile] /\ at' \in [Machines -> Stage]
    <3>1. CASE at[m].kind = "now"
      <4>1. db' = db /\ at' = [at EXCEPT ![m] = [at[m] EXCEPT !.step = "push", !.changed = changed]]
        BY <1>0, <1>b, <3>1 DEF AfterPull, GoesOn, SyncTyped
      <4>2. QED
        BY <1>0, <4>1 DEF SyncTyped
    <3>2. CASE at[m].kind # "now"
      <4>1. at' = [at EXCEPT ![m] = Nothing] /\ db' \in {db, Reloaded(m, file'[m])}
        BY <1>b, <3>2 DEF AfterPull, Returns
      <4>2. file'[m] \in WholeFile
        BY <1>0, <2>1 DEF SyncTyped
      <4>3. QED
        BY <1>0, <4>1, <4>2, ReloadedType DEF Nothing, SyncTyped
    <3>3. QED
      BY <3>1, <3>2
  <2>3. SyncTyped'
    BY <1>0, <1>2, <2>1, <2>2 DEF SyncTyped
  <2>4. Owned' /\ PushedAll'
    BY <1>2, <2>1, OwnedKept DEF SyncInv
  <2>5. ASSUME NEW k \in Machines PROVE NowCommitted(k)'
    <3>1. CASE k = m
      <4>1. at[m].kind = "now" => Clean(m) \/ at[m].unread \/ failed[m] = "commit"
        BY <1>0 DEF SyncInv, AllNowCommitted, NowCommitted, Idle
      <4>2. failed[m] = "commit" => failed'[m] = "commit"
        BY <1>0, <1>2 DEF SyncTyped
      <4>3. at'[m].kind = "now" /\ at'[m].step # "idle" => at[m].kind = "now" /\ at'[m].unread = at[m].unread
        BY <1>0, <1>b DEF AfterPull, GoesOn, Returns, Nothing, SyncTyped
      <4>4. Clean(m) => file'[m] = head'[m]
        BY <2>1 DEF Clean
      <4>5. QED
        BY <3>1, <4>1, <4>2, <4>3, <4>4 DEF NowCommitted, Clean, Idle
    <3>2. CASE k # m
      <4>1. at'[k] = at[k] /\ failed'[k] = failed[k]
        BY <1>0, <1>2, <1>b, <3>2 DEF AfterPull, GoesOn, Returns, SyncTyped
      <4>2. QED
        BY <2>1, <4>1 DEF NowCommitted, Clean, Idle, SyncInv, AllNowCommitted
    <3>3. QED
      BY <3>1, <3>2
  <2>6. QED
    BY <2>3, <2>4, <2>5 DEF SyncInv, AllNowCommitted
<1>5. QED
  BY <1>3, <1>4

LEMMA PullFailsKeeps ==
  ASSUME SyncInv, NEW m \in Machines, PullFails(m)
  PROVE  SyncInv'
<1>0. SyncTyped /\ at[m].step = "pull" /\ failed' = [failed EXCEPT ![m] = "pull"]
      /\ UNCHANGED <<dirty, file, repo, remote, touched, own, writes>>
  BY DEF PullFails, Fails, SyncInv
<1> DEFINE next == IF at[m].kind = "now" THEN [at[m] EXCEPT !.step = "push", !.changed = FALSE] ELSE Nothing
<1>1. at' = [at EXCEPT ![m] = next]
  BY <1>0 DEF PullFails, AfterPull, GoesOn, Returns, SyncTyped
<1>2. db' = db
  BY DEF PullFails, AfterPull, GoesOn, Returns
<1>10. next \in Stage /\ next.step # "pull"
  <2>1. at[m] \in Stage
    BY <1>0 DEF SyncTyped
  <2>2. QED
    BY <2>1 DEF Nothing
<1> HIDE DEF next
<1>3. at' \in [Machines -> Stage]
  BY <1>0, <1>1, <1>10 DEF SyncTyped
<1>4. SyncTyped'
  BY <1>0, <1>2, <1>3 DEF SyncTyped, repo
<1>5. Owned' /\ PushedAll'
  BY <1>0, OwnedKept DEF SyncInv, repo
<1>6. ASSUME NEW k \in Machines PROVE NowCommitted(k)'
  <2>1. CASE k = m
    <3>1. failed'[m] = "pull" /\ at'[m].step # "pull"
      BY <1>0, <1>1, <1>10 DEF SyncTyped
    <3>2. QED
      BY <2>1, <3>1 DEF NowCommitted, Clean, Idle
  <2>2. CASE k # m
    <3>1. at'[k] = at[k] /\ failed'[k] = failed[k] /\ file'[k] = file[k] /\ head'[k] = head[k]
      BY <1>0, <1>1, <2>2 DEF SyncTyped, repo
    <3>2. QED
      BY <3>1 DEF NowCommitted, Clean, Idle, SyncInv, AllNowCommitted
  <2>3. QED
    BY <2>1, <2>2
<1>7. QED
  BY <1>4, <1>5, <1>6 DEF SyncInv, AllNowCommitted

\* A push or its failure ends the sync.
LEMMA ReturnsType ==
  ASSUME SyncTyped, NEW m \in Machines, NEW changed, Returns(m, changed), file' \in [Machines -> WholeFile]
  PROVE  /\ db' \in [Machines -> WholeFile]
         /\ at' = [at EXCEPT ![m] = Nothing]
         /\ at' \in [Machines -> Stage]
<1>1. file'[m] \in WholeFile
  OBVIOUS
<1>2. Reloaded(m, file'[m]) \in [Machines -> WholeFile]
  BY <1>1, ReloadedType
<1>3. QED
  BY <1>2 DEF Returns, Nothing, SyncTyped

LEMMA PushFailsKeeps ==
  ASSUME SyncInv, NEW m \in Machines, PushFails(m)
  PROVE  SyncInv'
<1>0. SyncTyped /\ failed' = [failed EXCEPT ![m] = "push"]
      /\ UNCHANGED <<dirty, file, repo, remote, touched, own, writes>> /\ Returns(m, at[m].changed)
  BY DEF PushFails, Fails, SyncInv
<1>1. /\ db' \in [Machines -> WholeFile]
      /\ at' = [at EXCEPT ![m] = Nothing]
      /\ at' \in [Machines -> Stage]
  BY <1>0, ReturnsType DEF SyncTyped
<1>4. SyncTyped'
  BY <1>0, <1>1 DEF SyncTyped, repo
<1>5. Owned' /\ PushedAll'
  BY <1>0, OwnedKept DEF SyncInv, repo
<1>6. ASSUME NEW k \in Machines PROVE NowCommitted(k)'
  <2>1. CASE k = m
    BY <1>0, <1>1, <2>1 DEF NowCommitted, Idle, Nothing, SyncTyped
  <2>2. CASE k # m
    <3>1. at'[k] = at[k] /\ failed'[k] = failed[k] /\ file'[k] = file[k] /\ head'[k] = head[k]
      BY <1>0, <1>1, <2>2 DEF SyncTyped, repo
    <3>2. QED
      BY <3>1 DEF NowCommitted, Clean, Idle, SyncInv, AllNowCommitted
  <2>3. QED
    BY <2>1, <2>2
<1>7. QED
  BY <1>4, <1>5, <1>6 DEF SyncInv, AllNowCommitted

LEMMA PushKeeps ==
  ASSUME SyncInv, NEW m \in Machines, Push(m)
  PROVE  SyncInv'
<1>0. /\ SyncTyped /\ base[m] = remote /\ Returns(m, at[m].changed)
      /\ remote' = IF local[m] = << >> THEN remote ELSE [number |-> remote.number + 1, content |-> head[m]]
      /\ base' = [base EXCEPT ![m] = remote'] /\ local' = [local EXCEPT ![m] = << >>]
      /\ own' = [own EXCEPT ![m] = {}]
      /\ failed' = [failed EXCEPT ![m] = IF @ = "push" THEN "none" ELSE @]
      /\ UNCHANGED <<dirty, file, head, touched, bounds>>
  BY DEF Push, Behind, Succeeds, SyncInv
<1>1. /\ db' \in [Machines -> WholeFile]
      /\ at' = [at EXCEPT ![m] = Nothing]
      /\ at' \in [Machines -> Stage]
  BY <1>0, ReturnsType DEF SyncTyped
<1>2. remote' \in RemoteCommit /\ remote'.content = head[m]
  BY <1>0 DEF SyncInv, SyncTyped, PushedAll, RemoteCommit
<1>3. SyncTyped'
  BY <1>0, <1>1, <1>2 DEF SyncTyped, bounds
<1>4. ASSUME NEW k \in Machines
      PROVE  /\ (OwnsHead(k) /\ OwnsCommits(k))'
             /\ local'[k] = << >> => head'[k] = base'[k].content
             /\ NowCommitted(k)'
  <2>1. CASE k = m
    <3>1. head'[k] = base'[k].content /\ local'[k] = << >> /\ at'[k] = Nothing
      BY <1>0, <1>1, <1>2, <2>1 DEF SyncTyped
    <3>2. QED
      BY <3>1 DEF OwnsHead, OwnsCommits, NowCommitted, Idle, Nothing, At
  <2>2. CASE k # m
    BY <1>0, <1>1, <2>2, OthersKeep DEF SyncTyped
  <2>3. QED
    BY <2>1, <2>2
<1>5. QED
  BY <1>3, <1>4, ByMachine

LEMMA RebaseKeeps ==
  ASSUME SyncInv, NEW m \in Machines, Rebase(m)
  PROVE  SyncInv'
<1> DEFINE s == Rebased(m)
<1>0. /\ SyncTyped
      /\ local' = [local EXCEPT ![m] = s]
      /\ head' = [head EXCEPT ![m] = Tip(s)] /\ file' = [file EXCEPT ![m] = Tip(s)]
      /\ base' = [base EXCEPT ![m] = remote] /\ touched' = [touched EXCEPT ![m] = MultiLocation]
      /\ own' = [own EXCEPT ![m] = @ \cup UNION {BroughtBack(s[i].content) : i \in DOMAIN s}]
      /\ UNCHANGED <<dirty, remote, failed, bounds>> /\ db' = db
      /\ at' = [at EXCEPT ![m] = [at[m] EXCEPT !.step = "retry", !.changed = at[m].changed]]
  BY DEF Rebase, CheckOut, GoesOn, SyncInv, SyncTyped
<1>1. s \in Seq(LocalCommit) /\ RebasedOwns(m, s)
  BY <1>0, RebaseOwns DEF SyncInv, SyncTyped, Owned
<1> HIDE DEF s
<1>2. Tip(s) \in WholeFile
  BY <1>0, <1>1, TipType DEF SyncTyped
<1>3. UNION {BroughtBack(s[i].content) : i \in DOMAIN s} = BackIn(s)
  BY <1>1 DEF BackIn
<1>4. own' = [own EXCEPT ![m] = @ \cup BackIn(s)]
  BY <1>0, <1>3
<1>5. BackIn(s) \subseteq NodeFields
  BY DEF BackIn, BroughtBack
<1>6. at' \in [Machines -> Stage]
  BY <1>0 DEF SyncTyped
<1>7. SyncTyped'
  BY <1>0, <1>1, <1>2, <1>4, <1>5, <1>6, SyncAssumption DEF SyncTyped, bounds
<1>8. ASSUME NEW k \in Machines
      PROVE  /\ (OwnsHead(k) /\ OwnsCommits(k))'
             /\ local'[k] = << >> => head'[k] = base'[k].content
             /\ NowCommitted(k)'
  <2>1. CASE k = m
    <3>1. /\ head'[k] = Tip(s) /\ file'[k] = Tip(s) /\ base'[k] = remote /\ local'[k] = s
          /\ own'[k] = own[m] \cup BackIn(s)
      BY <1>0, <1>4, <2>1 DEF SyncTyped
    <3>2. (OwnsHead(k) /\ OwnsCommits(k))'
      BY <1>1, <3>1 DEF OwnsHead, OwnsCommits, RebasedOwns, At
    <3>3. s = << >> => Tip(s) = remote.content
      BY DEF Tip
    <3>4. NowCommitted(k)'
      BY <3>1 DEF NowCommitted, Clean, Idle
    <3>5. QED
      BY <3>1, <3>2, <3>3, <3>4
  <2>2. CASE k # m
    BY <1>0, <2>2, OthersKeep DEF SyncTyped
  <2>3. QED
    BY <2>1, <2>2
<1>9. QED
  BY <1>7, <1>8, ByMachine

LEMMA SyncInvStep == SyncInv /\ [Next]_vars => SyncInv'
<1> SUFFICES ASSUME SyncInv, [Next]_vars PROVE SyncInv'
  OBVIOUS
<1>1. ASSUME UNCHANGED vars PROVE SyncInv'
  <2>1. SyncTyped'
    BY <1>1 DEF vars, store, repo, bounds, SyncInv, SyncTyped
  <2>2. QED
    BY <1>1, <2>1, QuietKeeps DEF vars, store, repo
<1>2. ASSUME NEW m \in Machines, NEW id \in Ids, NEW f \in Fields, NEW time \in 1..MaxTime, Write(m, id, f, time)
      PROVE  SyncInv'
  BY <1>2, WriteKeeps
<1>3. ASSUME NEW m \in Machines, NEW id \in Ids, Delete(m, id) PROVE SyncInv'
  BY <1>3, DeleteKeeps
<1>4. ASSUME NEW m \in Machines, Flush(m) PROVE SyncInv'
  BY <1>4, FlushKeeps
<1>5. ASSUME NEW m \in Machines, WatcherReload(m) PROVE SyncInv'
  BY <1>5, WatcherReloadKeeps
<1>6. ASSUME NEW m \in Machines, NEW kind \in Kinds, SyncStarts(m, kind) PROVE SyncInv'
  BY <1>6, SyncStartsKeeps
<1>7. ASSUME NEW m \in Machines, NEW kind \in Kinds, CommitFails(m, kind) PROVE SyncInv'
  BY <1>7, CommitFailsKeeps
<1>a. ASSUME NEW m \in Machines, NEW kind \in Kinds, StatusUnread(m, kind) PROVE SyncInv'
  BY <1>a, StatusUnreadKeeps
<1>8. ASSUME NEW m \in Machines, Step(m) PROVE SyncInv'
  BY <1>8, PullKeeps, PullFailsKeeps, PushKeeps, RebaseKeeps, PushFailsKeeps DEF Step
<1>9. QED
  BY <1>1, <1>2, <1>3, <1>4, <1>5, <1>6, <1>7, <1>a, <1>8 DEF Next

LEMMA SyncInvariant == Spec => []SyncInv
<1>1. QED
  BY SyncInvInit, SyncInvStep, PTL DEF Spec

\* Lines, trees and commits keep their types, whatever is merged, rebased, rolled
\* back or interrupted (git-graph-syncer.ts).
THEOREM TypeInvariant == Spec => []TypeOK
<1>1. SyncInv => TypeOK
  <2> SUFFICES ASSUME SyncTyped PROVE TypeOK
    BY DEF SyncInv
  <2>1. WholeFile \subseteq File
    BY WholeIsLine
  <2>2. RemoteCommit \subseteq Commit /\ LocalCommit \subseteq [parent : File, content : File]
    BY <2>1 DEF RemoteCommit, Commit, LocalCommit
  <2>3. Seq(LocalCommit) \subseteq Seq([parent : File, content : File])
    BY <2>2, SeqMonotonic
  <2>4. QED
    BY <2>1, <2>2, <2>3 DEF SyncTyped, TypeOK
<1>2. QED
  BY <1>1, SyncInvariant, PTL

\* Of the steps that end a sync.now, a push is the one that leaves no error.
LEMMA OnlyPushSucceeds ==
  ASSUME SyncTyped, Next, NEW m \in Machines,
         at[m].kind = "now", ~Idle(m), Idle(m)', failed'[m] = "none"
  PROVE  Push(m)
<1>0. at'[m].step = "idle" /\ at[m].step # "idle" /\ at'[m] # at[m]
  BY DEF Idle
<1>1. ASSUME NEW k \in Machines, k # m PROVE ~Step(k)
  BY <1>0, <1>1 DEF Step, Pull, PullFails, Push, Rebase, PushFails, AfterPull, GoesOn, Returns, SyncTyped
<1>2. ASSUME NEW k \in Machines, NEW kind \in Kinds 
      PROVE  ~SyncStarts(k, kind) /\ ~StatusUnread(k, kind) /\ ~CommitFails(k, kind)
  BY <1>0 DEF SyncStarts, StatusUnread, CommitFails, Started, Idle, SyncTyped
<1>3. Step(m)
  <2>1. \A k \in Machines, id \in Ids, f \in Fields, time \in 1..MaxTime : ~Write(k, id, f, time)
    BY <1>0 DEF Write
  <2>2. \A k \in Machines : ~Flush(k) /\ ~WatcherReload(k) /\ \A id \in Ids : ~Delete(k, id)
    BY <1>0 DEF Delete, Flush, WatcherReload
  <2>3. QED
    BY <1>1, <1>2, <2>1, <2>2 DEF Next
<1>4. ~Pull(m) /\ ~PullFails(m)
  BY <1>0 DEF Pull, PullFails, AfterPull, GoesOn, SyncTyped
<1>5. ~Rebase(m)
  BY <1>0 DEF Rebase, GoesOn, SyncTyped
<1>6. ~PushFails(m)
  BY DEF PushFails, Fails, SyncTyped
<1>7. QED
  BY <1>3, <1>4, <1>5, <1>6 DEF Step

\* A sync.now that returns with no error on record left nothing behind: all its
\* commits are in the remote, with all the remote had, and its working tree is
\* committed, unless the cycle could not read its status (sync.now, push(),
\* commitIfDirty's git status, health.lastErrorOp).
THEOREM EverySuccessIsSynced == Spec => SuccessIsSynced
<1>1. ASSUME SyncInv, Next, NEW m \in Machines, Success(m)
      PROVE  /\ local'[m] = << >> /\ head'[m] = base'[m].content
             /\ file'[m] = head'[m] \/ at[m].unread
  <2>0. SyncTyped
    BY <1>1 DEF SyncInv
  <2>1. Push(m)
    BY <1>1, <2>0, OnlyPushSucceeds DEF Success
  <2>2. local'[m] = << >> /\ head'[m] = base'[m].content
    BY <1>1, <2>0, <2>1 DEF Push, SyncTyped, SyncInv, PushedAll, Behind
  <2>3. failed[m] # "commit" /\ failed[m] # "pull"
    BY <1>1, <2>0, <2>1 DEF Push, Succeeds, SyncTyped, Success
  <2>4. Clean(m) \/ at[m].unread
    BY <1>1, <2>3 DEF SyncInv, AllNowCommitted, NowCommitted, Success
  <2>5. QED
    BY <2>1, <2>2, <2>4 DEF Push, Clean
<1>2. SyncInv /\ [Next]_vars =>
        [\A m \in Machines :
           Success(m) =>
             /\ local'[m] = << >> /\ head'[m] = base'[m].content
             /\ file'[m] = head'[m] \/ at[m].unread]_vars
  BY <1>1
<1>3. QED
  BY <1>2, SyncInvariant, PTL DEF Spec, SuccessIsSynced

\* A push changes what the remote says of a field only if its machine has changed
\* that field, or brought its node back: whatever the clocks say, no merge or
\* rebase undoes another machine's change (mergeJsonl, push()).
THEOREM OthersAreKept == Spec => PushKeepsOthers
<1>1. ASSUME SyncInv, Next, NEW x \in Ids \X Fields, At(remote'.content, x) # At(remote.content, x)
      PROVE  \E m \in Machines : local[m] # << >> /\ local'[m] = << >> /\ x \in own[m]
  <2>0. SyncTyped
    BY <1>1 DEF SyncInv
  <2>1. remote' # remote
    BY <1>1
  <2>2. PICK m \in Machines : Push(m)
    <3>1. \A m \in Machines : ~Pull(m) /\ ~PullFails(m) /\ ~Rebase(m) /\ ~PushFails(m)
      BY <2>1 DEF Pull, PullFails, Rebase, PushFails
    <3>2. ASSUME NEW m \in Machines
          PROVE  /\ \A id \in Ids, f \in Fields, time \in 1..MaxTime : ~Write(m, id, f, time)
                 /\ \A id \in Ids : ~Delete(m, id)
                 /\ ~Flush(m) /\ ~WatcherReload(m)
                 /\ \A kind \in Kinds : ~SyncStarts(m, kind) /\ ~StatusUnread(m, kind) /\ ~CommitFails(m, kind)
      BY <2>1 DEF Write, Delete, Flush, WatcherReload, SyncStarts, StatusUnread, CommitFails
    <3>3. QED
      BY <1>1, <3>1, <3>2 DEF Next, Step
  <2>3. local[m] # << >> /\ local'[m] = << >> /\ remote'.content = head[m] /\ base[m] = remote
    BY <2>0, <2>1, <2>2 DEF Push, Behind, SyncTyped
  <2>4. x \in own[m]
    BY <1>1, <2>3 DEF SyncInv, Owned, OwnsHead
  <2>5. QED
    BY <2>3, <2>4
<1>2. SyncInv /\ [Next]_vars =>
        [\A x \in Ids \X Fields :
           At(remote'.content, x) # At(remote.content, x) =>
             \E m \in Machines :
               local[m] # << >> /\ local'[m] = << >> /\ x \in own[m]]_vars
  BY <1>1
<1>3. QED
  BY <1>2, SyncInvariant, PTL DEF Spec, PushKeepsOthers
=============================================================================
