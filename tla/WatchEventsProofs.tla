--------------------------- MODULE WatchEventsProofs ---------------------------
(***************************************************************************)
(* Proofs about WatchEvents, for any nodes, subscriptions, filters,        *)
(* pollers and buffer size: every handler hears events in their order; and *)
(* when the diff sees every change, pollers are informed and the view of   *)
(* an application that has one subscription catches up.                    *)
(***************************************************************************)
EXTENDS WatchEvents, Induction

Positions == [epoch : Epochs \cup {-1}, seq : Nat]

Stamped == [seq : Nat, epoch : Epochs, event : Event]

Answers == [resync : BOOLEAN, events : Seq(Stamped)]

Contents == [Nodes -> 0..2]

EventMessages == [kind : {"event"}, what : Stamped]

Messages ==
  EventMessages
  \cup [kind : {"subscribe"}, sub : Subs, what : {<< >>}]
  \cup [kind : {"since"}, sub : Subs, what : Answers]
  \cup [kind : {"query"}, sub : Subs, what : Contents]

\* The streams a daemon can have: what is buffered was stamped by this process.
Streams ==
  {s \in [epoch : Epochs, latestSeq : Nat, buffer : Seq(Stamped)] :
     \A i \in 1..Len(s.buffer) : s.buffer[i].epoch = s.epoch /\ s.buffer[i].seq <= s.latestSeq}

Typed ==
  /\ TypeOK
  /\ recent \in Seq(Nodes) /\ stream \in Streams /\ wire \in Seq(Messages)
  /\ pending \in [Subs -> Seq(Stamped)]
  /\ last \in [Subs -> Positions] /\ cursor \in [Subs -> Positions]

\* A request is on its way to the daemon, or its answer to the client, only in the
\* phase that waits for it; never both, and never two answers.
AskedInPhase ==
  \A s \in Subs :
    /\ asked[s] = "subscribe" => phase[s] \in {"subscribing", "resuming"}
    /\ asked[s] = "since" => phase[s] = "backfilling"
    /\ pending[s] # << >> => phase[s] \in {"resuming", "backfilling"}

AnswerInPhase ==
  \A i \in 1..Len(wire) :
    /\ wire[i].kind = "subscribe" =>
         phase[wire[i].sub] \in {"subscribing", "resuming"} /\ asked[wire[i].sub] # "subscribe"
    /\ wire[i].kind = "since" =>
         phase[wire[i].sub] = "backfilling" /\ asked[wire[i].sub] # "since"

OneAnswer ==
  \A i, j \in 1..Len(wire) :
    /\ wire[i].kind \in {"subscribe", "since"}
    /\ wire[j].kind = wire[i].kind /\ wire[j].sub = wire[i].sub
    => i = j

Tokens == AskedInPhase /\ AnswerInPhase /\ OneAnswer

\* Stamped by the process that has the stream st.
Issued(x, st) == x.epoch = st.epoch /\ x.seq <= st.latestSeq

\* Older than every event among the messages w from the i-th on.
OlderFrom(x, w, i) == \A j \in i..Len(w) : w[j].kind = "event" => x.seq < w[j].what.seq

\* No handler has heard an event that is on the wire, or a later one.
WireOrder ==
  \A i \in 1..Len(wire) : wire[i].kind = "event" =>
    /\ Issued(wire[i].what, stream)
    /\ OlderFrom(wire[i].what, wire, i + 1)
    /\ \A s \in Subs : After(wire[i].what, cursor[s])

\* The handler that waits for an answer has heard nothing that is in it, and what
\* comes behind the answer is newer.
AnswerOrder ==
  \A i \in 1..Len(wire) : wire[i].kind = "since" =>
    \A k \in 1..Len(wire[i].what.events) :
      /\ Issued(wire[i].what.events[k], stream)
      /\ OlderFrom(wire[i].what.events[k], wire, i)
      /\ After(wire[i].what.events[k], cursor[wire[i].sub])

PendingOrder ==
  \A s \in Subs : \A k \in 1..Len(pending[s]) :
    /\ Issued(pending[s][k], stream)
    /\ OlderFrom(pending[s][k], wire, 1)
    /\ After(pending[s][k], cursor[s])

CursorOrder ==
  \A s \in Subs :
    /\ cursor[s].epoch <= stream.epoch
    /\ cursor[s].epoch = stream.epoch => cursor[s].seq <= stream.latestSeq

InOrder == WireOrder /\ AnswerOrder /\ PendingOrder /\ CursorOrder /\ DeliveredInOrder

WatchInv == Typed /\ Tokens /\ InOrder

-----------------------------------------------------------------------------
(* What the helpers return.                                                *)

\* Steps that lead from each set of a family into the next lead into the last.
LEMMA IterationReaches ==
  ASSUME NEW N \in Nat, NEW A, NEW r, r[0] \in A[0], \A n \in 1..N : r[n - 1] \in A[n - 1]
           => r[n] \in A[n]
  PROVE  r[N] \in A[N]
<1> DEFINE S == {n \in 0..N : r[n] \in A[n]}
<1>1. 0 \in S
  OBVIOUS
<1>2. \A k \in 0..(N - 1) : k \in S => k + 1 \in S
  <2> SUFFICES ASSUME NEW k \in 0..(N - 1), r[k] \in A[k] PROVE r[k + 1] \in A[k + 1]
    OBVIOUS
  <2>1. k + 1 \in 1..N /\ (k + 1) - 1 = k
    OBVIOUS
  <2>2. QED
    BY <2>1
<1>3. 0..N \subseteq S
  <2> HIDE DEF S
  <2>1. QED
    BY <1>1, <1>2, IntervalInduction
<1>4. QED
  BY <1>3

LEMMA ListedTyped ==
  ASSUME Typed
  PROVE  Listed \in Contents
BY DEF Typed, TypeOK, Listed, Contents

LEMMA DifferencesTyped ==
  ASSUME Typed
  PROVE  Differences \in Seq(Event)
<1> DEFINE listed == Listed
           differ == {n \in Nodes : listed[n] # cache[n]}
           Events(ns) == [i \in DOMAIN SetToSeq(ns) |->
                            [node |-> SetToSeq(ns)[i], content |-> listed[SetToSeq(ns)[i]]]]
<1>1. ASSUME NEW ns, ns \subseteq Nodes
      PROVE  Events(ns) \in Seq(Event)
  <2> DEFINE q == SetToSeq(ns)
  <2>1. IsFiniteSet(ns)
    BY <1>1, FS_Subset, WatchAssumption
  <2>2. q \in Seq(ns)
    BY <2>1, SetToSeqProperties
  <2> HIDE DEF q
  <2>3. \A i \in DOMAIN q : q[i] \in Nodes
    BY <1>1, <2>2
  <2>4. \A i \in DOMAIN q : [node |-> q[i], content |-> listed[q[i]]] \in Event
    <3>1. listed \in Contents
      BY ListedTyped
    <3> HIDE DEF listed
    <3>2. QED
      BY <2>3, <3>1, WatchAssumption DEF Contents
  <2> HIDE DEF listed
  <2>5. [i \in DOMAIN q |-> [node |-> q[i], content |-> listed[q[i]]]] \in Seq(Event)
    <3>1. DOMAIN q = 1..Len(q) /\ Len(q) \in Nat
      BY <2>2
    <3>2. QED
      BY <2>4, <3>1
  <2>6. QED
    BY <2>5 DEF q
<1>2. {n \in differ : listed[n] # 0} \subseteq Nodes
        /\ {n \in differ : listed[n] = 0} \subseteq Nodes
  OBVIOUS
<1>3. Events({n \in differ : listed[n] # 0}) \in Seq(Event)
        /\ Events({n \in differ : listed[n] = 0}) \in Seq(Event)
  <2> HIDE DEF listed, Events, differ
  <2>1. QED
    BY <1>1, <1>2
<1>4. Differences = Events({n \in differ : listed[n] # 0}) \o Events({n \in differ : listed[n] = 0})
  BY DEF Differences
<1> HIDE DEF Events, differ, listed
<1>5. QED
  BY <1>3, <1>4

\* The buffer before the oldest event is dropped.
Grown(s, e) == Append(s.buffer, [seq |-> s.latestSeq + 1, epoch |-> s.epoch, event |-> e])

LEMMA PushKeeps ==
  ASSUME NEW s \in Streams, NEW e \in Event
  PROVE  /\ Push(s, e) \in Streams
         /\ Push(s, e).epoch = s.epoch /\ Push(s, e).latestSeq = s.latestSeq + 1
         /\ Push(s, e).buffer = IF Len(Grown(s, e)) > BufferSize THEN Tail(Grown(s, e))
            ELSE Grown(s, e)
<1> DEFINE x == [seq |-> s.latestSeq + 1, epoch |-> s.epoch, event |-> e]
           b == Append(s.buffer, x)
           k == Len(s.buffer)
           new == IF Len(b) > BufferSize THEN Tail(b) ELSE b
<1>1. /\ s \in [epoch : Epochs, latestSeq : Nat, buffer : Seq(Stamped)]
      /\ s.epoch \in Epochs /\ s.latestSeq \in Nat /\ s.buffer \in Seq(Stamped) /\ k \in Nat
      /\ \A i \in 1..k : s.buffer[i].epoch = s.epoch /\ s.buffer[i].seq <= s.latestSeq
  BY DEF Streams
<1>2. x \in Stamped /\ x.epoch = s.epoch /\ x.seq = s.latestSeq + 1
  BY <1>1 DEF Stamped
<1> DEFINE p == Push(s, e)
<1>3. p = [s EXCEPT !.latestSeq = s.latestSeq + 1, !.buffer = new]
  BY DEF Push
<1> HIDE DEF x
<1>4. b \in Seq(Stamped) /\ Len(b) = k + 1 /\ b[k + 1] = x /\ \A i \in 1..k : b[i] = s.buffer[i]
  BY <1>1, <1>2
<1>5. \A i \in 1..(k + 1) : b[i].epoch = s.epoch /\ b[i].seq <= s.latestSeq + 1
  <2> SUFFICES ASSUME NEW i \in 1..(k + 1) PROVE b[i].epoch = s.epoch /\ b[i].seq <= s.latestSeq + 1
    OBVIOUS
  <2>1. CASE i = k + 1
    BY <1>1, <1>2, <1>4, <2>1
  <2>2. CASE i \in 1..k
    <3>1. s.buffer[i] \in Stamped
      BY <1>1, <2>2
    <3>2. s.buffer[i].seq \in Nat
      BY <3>1 DEF Stamped
    <3>3. b[i] = s.buffer[i] /\ s.buffer[i].epoch = s.epoch /\ s.buffer[i].seq <= s.latestSeq
      BY <1>1, <1>4, <2>2
    <3> HIDE DEF b, k
    <3>4. QED
      BY <1>1, <3>2, <3>3
  <2>3. QED
    BY <1>1, <2>1, <2>2
<1> HIDE DEF b
<1>6. new \in Seq(Stamped) /\ \A i \in 1..Len(new) : new[i].epoch = s.epoch
        /\ new[i].seq <= s.latestSeq + 1
  <2>1. CASE new = b
    BY <1>4, <1>5, <2>1
  <2>2. CASE new = Tail(b)
    <3>1. Tail(b) \in Seq(Stamped) /\ Len(Tail(b)) = k /\ \A i \in 1..k : Tail(b)[i] = b[i + 1]
      BY <1>1, <1>4
    <3>2. \A i \in 1..k : i + 1 \in 1..(k + 1)
      BY <1>1
    <3> HIDE DEF new
    <3>3. QED
      BY <1>5, <2>2, <3>1, <3>2
  <2>3. QED
    BY <2>1, <2>2
<1> HIDE DEF new, k
<1> HIDE DEF p
<1>7. /\ p \in [epoch : Epochs, latestSeq : Nat, buffer : Seq(Stamped)]
      /\ p.epoch = s.epoch /\ p.latestSeq = s.latestSeq + 1 /\ p.buffer = new
  <2>1. new \in Seq(Stamped) /\ s.latestSeq + 1 \in Nat
          /\ s \in [epoch : Epochs, latestSeq : Nat, buffer : Seq(Stamped)]
    BY <1>1, <1>6
  <2> DEFINE m == s.latestSeq + 1
  <2>2. p = [s EXCEPT !.latestSeq = m, !.buffer = new]
    BY <1>3
  <2> HIDE DEF m
  <2>3. /\ p \in [epoch : Epochs, latestSeq : Nat, buffer : Seq(Stamped)]
        /\ p.epoch = s.epoch /\ p.latestSeq = m /\ p.buffer = new
    BY <2>1, <2>2 DEF m
  <2>4. QED
    BY <2>3 DEF m
<1>8. p \in Streams
  BY <1>6, <1>7 DEF Streams
<1>9. new = IF Len(Grown(s, e)) > BufferSize THEN Tail(Grown(s, e)) ELSE Grown(s, e)
  BY DEF new, b, x, Grown
<1>10. QED
  BY <1>7, <1>8, <1>9 DEF p

Pushing(r, s, events) ==
  /\ PushAll(s, events) = r[Len(events)] /\ r[0] = s
  /\ \A n \in 1..Len(events) : r[n] = Push(r[n - 1], events[n])

LEMMA PushAllSteps ==
  ASSUME NEW s \in Streams, NEW events \in Seq(Event)
  PROVE  \E r : Pushing(r, s, events)
<1> DEFINE N == Len(events)
           g == [n \in 1..N |-> [t \in Streams |-> Push(t, events[n])]]
           r == CHOOSE h : h = [n \in 0..N |-> IF n = 0 THEN s ELSE Push(h[n - 1], events[n])]
<1>1. N \in Nat /\ \A n \in 1..N : events[n] \in Event
  OBVIOUS
<1>2. g \in [1..N -> [Streams -> Streams]] /\ \A n \in 1..N,
      t \in Streams : g[n][t] = Push(t, events[n])
  <2>1. \A n \in 1..N, t \in Streams : Push(t, events[n]) \in Streams
    BY <1>1, PushKeeps
  <2>2. QED
    BY <2>1
<1> HIDE DEF g
<1>3. PICK f \in [0..N -> Streams] : Iterates(f, g, s, N)
  BY <1>1, <1>2, Iterated
<1>4. f = [n \in 0..N |-> IF n = 0 THEN s ELSE Push(f[n - 1], events[n])]
  <2>1. \A n \in 0..N : n # 0 => n \in 1..N /\ n - 1 \in 0..N
    BY <1>1
  <2>2. \A n \in 0..N : n # 0 => f[n] = Push(f[n - 1], events[n])
    BY <1>2, <1>3, <2>1 DEF Iterates
  <2>3. QED
    BY <1>3, <2>2 DEF Iterates
<1>5. r = [n \in 0..N |-> IF n = 0 THEN s ELSE Push(r[n - 1], events[n])]
  BY <1>4
<1>6. PushAll(s, events) = r[N]
  BY DEF PushAll
<1> HIDE DEF r
<1>7. r[0] = s /\ \A n \in 1..N : r[n] = Push(r[n - 1], events[n])
  <2>1. 0 \in 0..N /\ \A n \in 1..N : n \in 0..N /\ n # 0
    BY <1>1
  <2>2. QED
    BY <1>5, <2>1
<1>8. Pushing(r, s, events)
  BY <1>6, <1>7 DEF Pushing
<1>9. QED
  BY <1>8

LEMMA PushAllKeeps ==
  ASSUME NEW s \in Streams, NEW events \in Seq(Event)
  PROVE  /\ PushAll(s, events) \in Streams
         /\ PushAll(s, events).epoch = s.epoch
         /\ PushAll(s, events).latestSeq = s.latestSeq + Len(events)
<1> DEFINE N == Len(events)
<1>1. N \in Nat /\ \A n \in 1..N : events[n] \in Event
  OBVIOUS
<1>2. PICK r : Pushing(r, s, events)
  BY PushAllSteps
<1>3. PushAll(s, events) = r[N] /\ r[0] = s /\ \A n \in 1..N : r[n] = Push(r[n - 1], events[n])
  BY <1>2 DEF Pushing
<1> DEFINE A == [n \in 0..N |-> {t \in Streams : t.epoch = s.epoch
             /\ t.latestSeq = s.latestSeq + n}]
<1>4. r[0] \in A[0]
  <2>1. 0 \in 0..N /\ s.latestSeq \in Nat
    BY <1>1 DEF Streams
  <2>2. QED
    BY <1>3, <2>1
<1>5. \A n \in 1..N : r[n - 1] \in A[n - 1] => r[n] \in A[n]
  <2> SUFFICES ASSUME NEW n \in 1..N, r[n - 1] \in A[n - 1] PROVE r[n] \in A[n]
    OBVIOUS
  <2>1. n \in 0..N /\ n - 1 \in 0..N /\ n # 0 /\ s.latestSeq \in Nat
    BY <1>1 DEF Streams
  <2>2. r[n] = Push(r[n - 1], events[n])
    BY <1>3, <2>1
  <2>3. r[n - 1] \in Streams /\ r[n - 1].epoch = s.epoch
          /\ r[n - 1].latestSeq = s.latestSeq + (n - 1)
    BY <2>1
  <2>4. Push(r[n - 1], events[n]) \in Streams /\ Push(r[n - 1], events[n]).epoch = s.epoch
        /\ Push(r[n - 1], events[n]).latestSeq = (s.latestSeq + (n - 1)) + 1
    BY <1>1, <2>3, PushKeeps
  <2>5. (s.latestSeq + (n - 1)) + 1 = s.latestSeq + n
    BY <2>1
  <2>6. QED
    BY <2>1, <2>2, <2>4, <2>5
<1>6. r[N] \in A[N]
  <2> HIDE DEF A
  <2>1. QED
    BY <1>1, <1>4, <1>5, IterationReaches
<1>7. N \in 0..N
  BY <1>1
<1>8. QED
  BY <1>3, <1>6, <1>7

\* The events a diff stamps are new, and go to the connection in their order.
LEMMA NotifyKeeps ==
  ASSUME Typed, NEW events \in Seq(Event), NEW note, note = Notify(Stamp(events))
  PROVE  /\ note \in Seq(EventMessages)
         /\ \A i \in 1..Len(note) :
              /\ note[i].what.epoch = stream.epoch
              /\ note[i].what.seq > stream.latestSeq
              /\ note[i].what.seq <= stream.latestSeq + Len(events)
         /\ \A i, j \in 1..Len(note) : i < j => note[i].what.seq < note[j].what.seq
<1> DEFINE N == Len(events)
           st == Stamp(events)
           I == {i \in DOMAIN st : \E nodes \in bound : Matches(st[i].event, nodes)}
           w == Picked(st, I)
<1>1. N \in Nat /\ stream.latestSeq \in Nat /\ stream.epoch \in Epochs
        /\ \A i \in 1..N : events[i] \in Event
  BY DEF Typed, Streams
<1>2. st = [i \in 1..N |-> [seq |-> stream.latestSeq + i, epoch |-> stream.epoch,
      event |-> events[i]]]
  BY DEF Stamp
<1>3. \A i \in 1..N : [seq |-> stream.latestSeq + i, epoch |-> stream.epoch,
      event |-> events[i]] \in Stamped
  BY <1>1 DEF Stamped
<1>4. w = Wanted(st)
  BY DEF Wanted
<1> HIDE DEF st
<1>5. st \in Seq(Stamped) /\ Len(st) = N /\ DOMAIN st = 1..N
  BY <1>1, <1>2, <1>3
<1>6. \A i \in 1..N : st[i].epoch = stream.epoch /\ st[i].seq = stream.latestSeq + i
  BY <1>2
<1>7. I \subseteq 1..Len(st)
  BY <1>5
<1> HIDE DEF I
<1>8. w \in Seq(Stamped) /\ \E f : Picks(f, w, st, I)
  BY <1>5, <1>7, PickedProperties
<1>9. PICK f : Picks(f, w, st, I)
  BY <1>8
<1> HIDE DEF w
<1>10. /\ \A j \in 1..Len(w) : f[j] \in 1..N /\ w[j] = st[f[j]]
       /\ \A j, k \in 1..Len(w) : j < k => f[j] < f[k]
  BY <1>5, <1>7, <1>9 DEF Picks
<1>11. note = [i \in DOMAIN w |-> [kind |-> "event", what |-> w[i]]]
  BY <1>4 DEF Notify, st
<1>12. DOMAIN w = 1..Len(w) /\ Len(w) \in Nat /\ \A i \in 1..Len(w) : w[i] \in Stamped
  BY <1>8
<1>13. note \in Seq(EventMessages) /\ Len(note) = Len(w) /\ \A i \in 1..Len(w) : note[i].what = w[i]
  BY <1>11, <1>12 DEF EventMessages
<1>14. \A i \in 1..Len(w) : w[i].epoch = stream.epoch /\ w[i].seq = stream.latestSeq + f[i]
  BY <1>6, <1>10
<1> HIDE DEF N
<1>15. ASSUME NEW i \in 1..Len(note)
       PROVE  /\ note[i].what.epoch = stream.epoch
              /\ note[i].what.seq > stream.latestSeq
              /\ note[i].what.seq <= stream.latestSeq + N
  <2>1. f[i] \in 1..N /\ note[i].what = w[i] /\ w[i].epoch = stream.epoch
          /\ w[i].seq = stream.latestSeq + f[i]
    BY <1>10, <1>13, <1>14
  <2>2. QED
    BY <1>1, <2>1
<1>16. ASSUME NEW i \in 1..Len(note), NEW j \in 1..Len(note), i < j
       PROVE  note[i].what.seq < note[j].what.seq
  <2>1. /\ f[i] \in 1..N /\ note[i].what = w[i] /\ w[i].seq = stream.latestSeq + f[i]
        /\ f[j] \in 1..N /\ note[j].what = w[j] /\ w[j].seq = stream.latestSeq + f[j] /\ f[i] < f[j]
    BY <1>10, <1>13, <1>14, <1>16
  <2>2. QED
    BY <1>1, <2>1
<1>17. QED
  BY <1>13, <1>15, <1>16 DEF N

\* What events.since answers was stamped by this process and comes after the cursor.
LEMMA SinceKeeps ==
  ASSUME NEW st \in Streams, NEW c \in Positions
  PROVE  /\ Since(st, c) \in Answers
         /\ \A k \in 1..Len(Since(st, c).events) :
              /\ Since(st, c).events[k].epoch = st.epoch
              /\ Since(st, c).events[k].seq <= st.latestSeq
              /\ After(Since(st, c).events[k], c)
<1>1. CASE Unservable(st, c)
  <2>1. Since(st, c) = [resync |-> TRUE, events |-> << >>]
    BY <1>1 DEF Since
  <2>2. QED
    BY <2>1 DEF Answers
<1>2. CASE ~Unservable(st, c)
  <2> DEFINE I == {i \in DOMAIN st.buffer : st.buffer[i].seq > c.seq}
             p == Picked(st.buffer, I)
  <2>1. Since(st, c) = [resync |-> FALSE, events |-> p] /\ c.epoch = st.epoch
    BY <1>2 DEF Since, Unservable
  <2>2. /\ st.buffer \in Seq(Stamped) /\ DOMAIN st.buffer = 1..Len(st.buffer)
        /\ \A i \in 1..Len(st.buffer) : st.buffer[i].epoch = st.epoch
           /\ st.buffer[i].seq <= st.latestSeq
    BY DEF Streams
  <2>3. I \subseteq 1..Len(st.buffer) /\ \A i \in I : st.buffer[i].seq > c.seq
    BY <2>2
  <2> HIDE DEF I
  <2>4. p \in Seq(Stamped) /\ \E f : Picks(f, p, st.buffer, I)
    BY <2>2, <2>3, PickedProperties
  <2>5. PICK f : Picks(f, p, st.buffer, I)
    BY <2>4
  <2> HIDE DEF p
  <2>6. \A j \in 1..Len(p) : f[j] \in I /\ p[j] = st.buffer[f[j]]
    BY <2>5 DEF Picks
  <2>7. \A j \in 1..Len(p) : p[j].epoch = st.epoch /\ p[j].seq <= st.latestSeq /\ p[j].seq > c.seq
    BY <2>2, <2>3, <2>6
  <2>8. QED
    BY <2>1, <2>4, <2>7 DEF Answers, After
<1>3. QED
  BY <1>1, <1>2

HandlerStates == [last : Positions, cursor : Positions, view : Contents, ordered : BOOLEAN]

At(x) == [epoch |-> x.epoch, seq |-> x.seq]

LEMMA DeliverKeeps ==
  ASSUME NEW c \in HandlerStates, NEW x \in Stamped
  PROVE  /\ Deliver(c, x) \in HandlerStates
         /\ \/ Deliver(c, x) = c
            \/ /\ Deliver(c, x).cursor = At(x) /\ Deliver(c, x).last = At(x)
               /\ Deliver(c, x).ordered = (c.ordered /\ After(x, c.cursor))
               /\ x.epoch # c.last.epoch \/ x.seq > c.last.seq
<1>1. CASE x.epoch = c.last.epoch /\ x.seq <= c.last.seq
  BY <1>1 DEF Deliver
<1>2. CASE ~(x.epoch = c.last.epoch /\ x.seq <= c.last.seq)
  <2> DEFINE v == [c.view EXCEPT ![x.event.node] = x.event.content]
             o == c.ordered /\ After(x, c.cursor)
  <2>1. Deliver(c, x) = [last |-> At(x), cursor |-> At(x), view |-> v, ordered |-> o]
    BY <1>2 DEF Deliver, Delivered, At
  <2>2. x.seq \in Nat /\ x.epoch \in Epochs /\ x.event \in Event /\ c.last.seq \in Nat
          /\ c.view \in Contents
    BY DEF Stamped, HandlerStates, Positions
  <2>3. v \in Contents
    BY <2>2, WatchAssumption DEF Contents
  <2>4. At(x) \in Positions
    BY <2>2 DEF At, Positions
  <2>5. o \in BOOLEAN
    OBVIOUS
  <2> HIDE DEF v, o
  <2>6. Deliver(c, x) \in HandlerStates
    BY <2>1, <2>3, <2>4, <2>5 DEF HandlerStates
  <2>7. Deliver(c, x).cursor = At(x) /\ Deliver(c, x).last = At(x) /\ Deliver(c, x).ordered = o
    BY <2>1
  <2>8. x.epoch # c.last.epoch \/ x.seq > c.last.seq
    BY <1>2, <2>2
  <2>9. QED
    BY <2>6, <2>7, <2>8 DEF o
<1>3. QED
  BY <1>1, <1>2

Delivering(r, c, events) ==
  /\ DeliverAll(c, events) = r[Len(events)] /\ r[0] = c
  /\ \A n \in 1..Len(events) : r[n] = Deliver(r[n - 1], events[n])

LEMMA DeliverAllSteps ==
  ASSUME NEW c \in HandlerStates, NEW events \in Seq(Stamped)
  PROVE  \E r : Delivering(r, c, events)
<1> DEFINE N == Len(events)
           g == [n \in 1..N |-> [h \in HandlerStates |-> Deliver(h, events[n])]]
           r == CHOOSE q : q = [n \in 0..N |-> IF n = 0 THEN c ELSE Deliver(q[n - 1], events[n])]
<1>1. N \in Nat /\ \A n \in 1..N : events[n] \in Stamped
  OBVIOUS
<1>2. g \in [1..N -> [HandlerStates -> HandlerStates]]
      /\ \A n \in 1..N, h \in HandlerStates : g[n][h] = Deliver(h, events[n])
  <2>1. \A n \in 1..N, h \in HandlerStates : Deliver(h, events[n]) \in HandlerStates
    BY <1>1, DeliverKeeps
  <2>2. QED
    BY <2>1
<1> HIDE DEF g
<1>3. PICK f \in [0..N -> HandlerStates] : Iterates(f, g, c, N)
  BY <1>1, <1>2, Iterated
<1>4. \A n \in 0..N : n # 0 => n \in 1..N /\ n - 1 \in 0..N
  BY <1>1
<1>5. f = [n \in 0..N |-> IF n = 0 THEN c ELSE Deliver(f[n - 1], events[n])]
  <2>1. \A n \in 0..N : n # 0 => f[n] = Deliver(f[n - 1], events[n])
    BY <1>2, <1>3, <1>4 DEF Iterates
  <2>2. QED
    BY <1>3, <2>1 DEF Iterates
<1>6. r = [n \in 0..N |-> IF n = 0 THEN c ELSE Deliver(r[n - 1], events[n])]
  BY <1>5
<1>7. DeliverAll(c, events) = r[N]
  BY DEF DeliverAll
<1> HIDE DEF r
<1>8. r[0] = c /\ \A n \in 1..N : r[n] = Deliver(r[n - 1], events[n])
  <2>1. 0 \in 0..N /\ \A n \in 1..N : n \in 0..N /\ n # 0
    BY <1>1
  <2>2. QED
    BY <1>6, <2>1
<1>9. Delivering(r, c, events)
  BY <1>7, <1>8 DEF Delivering
<1>10. QED
  BY <1>9

LEMMA DeliverAllTyped ==
  ASSUME NEW c \in HandlerStates, NEW events \in Seq(Stamped)
  PROVE  DeliverAll(c, events) \in HandlerStates
<1>1. PICK r : Delivering(r, c, events)
  BY DeliverAllSteps
<1>2. Len(events) \in Nat /\ \A n \in 1..Len(events) : events[n] \in Stamped
  OBVIOUS
<1>3. \A n \in 1..Len(events) : r[n - 1] \in HandlerStates => r[n] \in HandlerStates
  BY <1>1, <1>2, DeliverKeeps DEF Delivering
<1>4. r[Len(events)] \in HandlerStates
  BY <1>1, <1>2, <1>3, IterationStays DEF Delivering
<1>5. QED
  BY <1>1, <1>4 DEF Delivering

\* Events of one epoch that all come after the cursor are heard in order, whatever
\* order and however often they come in.
LEMMA DeliverAllOrdered ==
  ASSUME NEW c \in HandlerStates, NEW events \in Seq(Stamped), NEW e \in Int, c.ordered,
         \A i \in 1..Len(events) : events[i].epoch = e /\ After(events[i], c.cursor)
  PROVE  /\ DeliverAll(c, events).ordered
         /\ \/ DeliverAll(c, events).cursor = c.cursor
            \/ \E i \in 1..Len(events) : DeliverAll(c, events).cursor = At(events[i])
<1> DEFINE N == Len(events)
           A == {h \in HandlerStates :
                   /\ h.ordered
                   /\ \/ h.cursor = c.cursor
                      \/ h.cursor = h.last /\ \E i \in 1..N : h.cursor = At(events[i])}
<1>1. PICK r : Delivering(r, c, events)
  BY DeliverAllSteps
<1>2. N \in Nat /\ \A n \in 1..N : events[n] \in Stamped /\ events[n].seq \in Nat
  <2>1. N \in Nat /\ \A n \in 1..N : events[n] \in Stamped
    OBVIOUS
  <2>2. \A x \in Stamped : x.seq \in Nat
    BY DEF Stamped
  <2>3. QED
    BY <2>1, <2>2
<1>3. \A n \in 1..N : r[n - 1] \in A => r[n] \in A
  <2> SUFFICES ASSUME NEW n \in 1..N, r[n - 1] \in A PROVE r[n] \in A
    OBVIOUS
  <2> DEFINE h == r[n - 1]
             x == events[n]
             d == Deliver(h, x)
  <2>1. r[n] = d /\ h \in HandlerStates /\ x \in Stamped /\ x.epoch = e /\ x.seq \in Nat
          /\ After(x, c.cursor)
    BY <1>1, <1>2 DEF Delivering
  <2>2. CASE d = h
    BY <2>1, <2>2
  <2>3. CASE d # h
    <3> HIDE DEF d, x, h
    <3>1. /\ d \in HandlerStates /\ d.cursor = At(x) /\ d.last = At(x)
          /\ d.ordered = (h.ordered /\ After(x, h.cursor))
          /\ x.epoch # h.last.epoch \/ x.seq > h.last.seq
      <4>1. /\ Deliver(h, x) \in HandlerStates
            /\ \/ Deliver(h, x) = h
               \/ /\ Deliver(h, x).cursor = At(x) /\ Deliver(h, x).last = At(x)
                  /\ Deliver(h, x).ordered = (h.ordered /\ After(x, h.cursor))
                  /\ x.epoch # h.last.epoch \/ x.seq > h.last.seq
        BY <2>1, DeliverKeeps
      <4>2. QED
        BY <2>3, <4>1 DEF d
    <3>2. After(x, h.cursor)
      <4>1. CASE h.cursor = c.cursor
        BY <2>1, <4>1
      <4>2. CASE h.cursor = h.last /\ \E i \in 1..N : h.cursor = At(events[i])
        <5>1. h.last.epoch = e
          BY <4>2 DEF At
        <5>2. QED
          BY <2>1, <3>1, <4>2, <5>1 DEF After
      <4>3. QED
        BY <4>1, <4>2 DEF h
    <3>3. d.ordered
      BY <3>1, <3>2 DEF h
    <3>4. \E i \in 1..N : d.cursor = At(events[i])
      BY <3>1 DEF x
    <3>5. QED
      BY <2>1, <3>1, <3>3, <3>4
  <2>4. QED
    BY <2>2, <2>3
<1>4. r[0] \in A
  BY <1>1 DEF Delivering
<1>5. r[N] \in A
  <2> HIDE DEF A
  <2>1. QED
    BY <1>2, <1>3, <1>4, IterationStays
<1>6. QED
  BY <1>1, <1>5 DEF Delivering

-----------------------------------------------------------------------------
(* Types.                                                                  *)

LEMMA MessageTyped ==
  ASSUME NEW m \in Messages
  PROVE  /\ m.kind \in {"event", "subscribe", "since", "query"}
         /\ m.kind = "event" => m.what \in Stamped
         /\ m.kind # "event" => m.sub \in Subs
         /\ m.kind = "since" => m.what \in Answers
         /\ m.kind = "query" => m.what \in Contents
BY DEF Messages, EventMessages

LEMMA WireTyped ==
  ASSUME Typed, NEW i \in 1..Len(wire)
  PROVE  /\ wire[i].kind \in {"event", "subscribe", "since", "query"}
         /\ wire[i].kind = "event" => wire[i].what \in Stamped
         /\ wire[i].kind # "event" => wire[i].sub \in Subs
         /\ wire[i].kind = "since" => wire[i].what \in Answers
         /\ wire[i].kind = "query" => wire[i].what \in Contents
<1>1. wire[i] \in Messages
  BY DEF Typed
<1>2. QED
  BY <1>1, MessageTyped

LEMMA HandlerTyped ==
  ASSUME Typed, NEW s \in Subs
  PROVE  Handler(s) \in HandlerStates
BY DEF Typed, TypeOK, Handler, HandlerStates, Contents

LEMMA BecomeTyped ==
  ASSUME NEW state \in [Subs -> HandlerStates], Become(state)
  PROVE  /\ last' \in [Subs -> Positions] /\ cursor' \in [Subs -> Positions]
         /\ view' \in [Subs -> Contents] /\ ordered' \in [Subs -> BOOLEAN]
<1>1. \A s \in Subs : /\ state[s].last \in Positions /\ state[s].cursor \in Positions
                      /\ state[s].view \in Contents /\ state[s].ordered \in BOOLEAN
  BY DEF HandlerStates
<1>2. QED
  BY <1>1 DEF Become

LEMMA GivenUpTyped ==
  ASSUME Typed, NEW s \in Subs
  PROVE  GivenUp(s) \in HandlerStates
<1>1. pending[s] \in Seq(Stamped)
  BY DEF Typed
<1>2. QED
  BY <1>1, HandlerTyped, DeliverAllTyped DEF GivenUp

LEMMA TouchKeeps ==
  ASSUME Typed, NEW n \in Nodes, Touch(n)
  PROVE  recent' \in Seq(Nodes) /\ ToSet(recent') = Nodes
<1>0. recent \in Seq(Nodes) /\ ToSet(recent) = Nodes
  BY DEF Typed, TypeOK
<1>1. CASE Window >= Cardinality(Nodes)
  BY <1>0, <1>1 DEF Touch
<1>2. CASE ~(Window >= Cardinality(Nodes))
  <2> DEFINE I == {i \in DOMAIN recent : recent[i] # n}
             p == Picked(recent, I)
             q == << n >> \o p
  <2>1. recent' = q
    BY <1>2 DEF Touch
  <2>2. I \subseteq 1..Len(recent) /\ \A i \in 1..Len(recent) : i \in I <=> recent[i] # n
    BY <1>0
  <2> HIDE DEF I
  <2>3. p \in Seq(Nodes) /\ \E f : Picks(f, p, recent, I)
    BY <1>0, <2>2, PickedProperties
  <2>4. PICK f : Picks(f, p, recent, I)
    BY <2>3
  <2> HIDE DEF p
  <2>5. /\ q \in Seq(Nodes) /\ Len(q) = Len(p) + 1 /\ q[1] = n
        /\ \A j \in 1..Len(p) : q[j + 1] = p[j]
    BY <2>3
  <2> HIDE DEF q
  <2>6. ASSUME NEW x \in Nodes
        PROVE  \E j \in 1..Len(q) : q[j] = x
    <3>0. Len(p) \in Nat
      BY <2>3
    <3>1. CASE x = n
      BY <2>5, <3>0, <3>1
    <3>2. CASE x # n
      <4>1. PICK i \in 1..Len(recent) : recent[i] = x
        BY <1>0 DEF ToSet
      <4>2. PICK j \in 1..Len(p) : f[j] = i
        BY <2>2, <2>4, <3>2, <4>1 DEF Picks
      <4>3. p[j] = x
        BY <2>4, <4>1, <4>2 DEF Picks
      <4>4. j + 1 \in 1..Len(q) /\ q[j + 1] = x
        BY <2>5, <3>0, <4>3
      <4>5. QED
        BY <4>4
    <3>3. QED
      BY <3>1, <3>2
  <2>7. ToSet(q) = Nodes
    <3>1. DOMAIN q = 1..Len(q) /\ \A j \in 1..Len(q) : q[j] \in Nodes
      BY <2>5
    <3>2. QED
      BY <2>6, <3>1 DEF ToSet
  <2>8. QED
    BY <2>1, <2>5, <2>7
<1>3. QED
  BY <1>1, <1>2

LEMMA TypedInit == Init => Typed
<1> SUFFICES ASSUME Init PROVE Typed
  OBVIOUS
<1>1. recent \in Seq(Nodes) /\ ToSet(recent) = Nodes
  <2>1. SetToSeq(Nodes) \in Seq(Nodes)
        /\ \A x \in Nodes : \E i \in 1..Len(SetToSeq(Nodes)) : SetToSeq(Nodes)[i] = x
    BY SetToSeqProperties, WatchAssumption
  <2> DEFINE q == SetToSeq(Nodes)
  <2> HIDE DEF q
  <2>2. q \in Seq(Nodes) /\ \A x \in Nodes : \E i \in 1..Len(q) : q[i] = x
    BY <2>1 DEF q
  <2>3. ToSet(q) = Nodes
    BY <2>2 DEF ToSet
  <2>4. recent = q
    BY DEF Init, q
  <2>5. QED
    BY <2>2, <2>3, <2>4
<1>2. 0 \in Epochs /\ NoNodes \in Contents /\ NoCursor \in Positions
  BY BufferAssumption DEF Epochs, NoNodes, Contents, NoCursor, Positions
<1>3. stream \in Streams
  BY <1>2 DEF Init, Fresh, Streams
<1>4. TypeOK
  BY <1>1, <1>2 DEF Init, TypeOK, Phases, Contents, NoCursor
<1>5. QED
  BY <1>1, <1>2, <1>3, <1>4 DEF Init, Typed

LEMMA TypedWrite ==
  ASSUME Typed, NEW n \in Nodes, NEW content \in 0..2, Write(n, content)
  PROVE  Typed'
<1>1. recent' \in Seq(Nodes) /\ ToSet(recent') = Nodes
  BY TouchKeeps DEF Write
<1>2. graph' \in [Nodes -> 0..2]
  BY DEF Typed, TypeOK, Write
<1>3. QED
  BY <1>1, <1>2 DEF Typed, TypeOK, Write, socket, client, handler, Streams

LEMMA TypedDiff ==
  ASSUME Typed, Diff
  PROVE  Typed'
<1> DEFINE ds == Differences
           note == Notify(Stamp(ds))
           pushed == PushAll(stream, ds)
<1>1. ds \in Seq(Event) /\ stream \in Streams /\ wire \in Seq(Messages)
  BY DifferencesTyped DEF Typed
<1> HIDE DEF ds
<1>2. note \in Seq(EventMessages)
  BY <1>1, NotifyKeeps
<1>3. pushed \in Streams
  BY <1>1, PushAllKeeps
<1>4. stream' = pushed /\ wire' = wire \o note /\ cache' = Listed /\ due' = FALSE
  BY DEF Diff, ds
<1> HIDE DEF note, pushed
<1>5. wire' \in Seq(Messages)
  <2>1. note \in Seq(Messages)
    <3>1. EventMessages \subseteq Messages
      BY DEF Messages
    <3>2. QED
      BY <1>2, <3>1
  <2>2. QED
    BY <1>1, <1>4, <2>1
<1>6. cache' \in [Nodes -> 0..2]
  BY <1>4, ListedTyped DEF Contents
<1>7. TypeOK'
  BY <1>4, <1>6 DEF Typed, TypeOK, Diff, client, handler
<1>8. QED
  BY <1>3, <1>4, <1>5, <1>7 DEF Typed, Diff, client, handler

LEMMA TypedServe ==
  ASSUME Typed, NEW s \in Subs, Serve(s)
  PROVE  Typed'
<1>0. wire \in Seq(Messages)
  BY DEF Typed
<1>1. CASE ServeSubscribe(s)
  <2>1. Reply(s, "subscribe", << >>) \in Messages
    BY DEF Reply, Messages
  <2>2. wire' \in Seq(Messages)
    BY <1>0, <1>1, <2>1 DEF ServeSubscribe
  <2>3. cache' \in [Nodes -> 0..2]
    BY <1>1, ListedTyped DEF ServeSubscribe, Contents, Typed, TypeOK
  <2>4. bound' \subseteq SUBSET (Nodes \X (1..2))
    <3>1. bound' = {Filter[s]}
      BY <1>1 DEF ServeSubscribe
    <3>2. Filter[s] \subseteq Nodes \X (1..2)
      BY WatchAssumption
    <3>3. QED
      BY <3>1, <3>2
  <2>5. TypeOK'
    BY <1>1, <2>3, <2>4 DEF ServeSubscribe, Typed, TypeOK, client, handler
  <2>6. QED
    BY <1>1, <2>2, <2>5 DEF ServeSubscribe, Typed, client, handler
<1>2. CASE ServeSince(s)
  <2>1. Since(stream, cursor[s]) \in Answers
    BY SinceKeeps DEF Typed
  <2>2. Reply(s, "since", Since(stream, cursor[s])) \in Messages
    BY <2>1 DEF Reply, Messages
  <2>3. wire' \in Seq(Messages)
    BY <1>0, <1>2, <2>2 DEF ServeSince
  <2>4. QED
    BY <1>2, <2>3 DEF ServeSince, Typed, TypeOK, server, client, handler, Streams
<1>3. CASE ServeQuery(s)
  <2> DEFINE content == [n \in Nodes |-> IF <<n, graph[n]>> \in Filter[s] THEN graph[n] ELSE 0]
  <2>1. content \in Contents
    BY DEF Typed, TypeOK, Contents
  <2>2. Reply(s, "query", content) \in Messages
    BY <2>1 DEF Reply, Messages
  <2>3. wire' \in Seq(Messages)
    BY <1>0, <1>3, <2>2 DEF ServeQuery
  <2>4. QED
    BY <1>3, <2>3 DEF ServeQuery, Typed, TypeOK, server, client, handler, Streams
<1>4. CASE ServeUnsubscribe(s)
  BY <1>4 DEF ServeUnsubscribe, Typed, TypeOK, server, client, handler, Streams
<1>5. QED
  BY <1>1, <1>2, <1>3, <1>4 DEF Serve

LEMMA ReceivedTyped ==
  ASSUME Typed, Received
  PROVE  /\ wire' \in Seq(Messages) /\ 1 \in 1..Len(wire)
         /\ Len(wire') = Len(wire) - 1 /\ \A i \in 1..Len(wire') : wire'[i] = wire[i + 1]
BY DEF Typed, Received

LEMMA TypedReceiveEvent ==
  ASSUME Typed, ReceiveEvent
  PROVE  Typed'
<1> DEFINE x == wire[1].what
           state == [s \in Subs |-> IF Live(s) THEN Deliver(Handler(s), x) ELSE Handler(s)]
<1>1. wire' \in Seq(Messages) /\ 1 \in 1..Len(wire)
  BY ReceivedTyped DEF ReceiveEvent
<1>2. x \in Stamped
  BY <1>1, WireTyped DEF ReceiveEvent
<1>3. state \in [Subs -> HandlerStates]
  <2> SUFFICES ASSUME NEW s \in Subs
               PROVE  (IF Live(s) THEN Deliver(Handler(s), x) ELSE Handler(s)) \in HandlerStates
    OBVIOUS
  <2> HIDE DEF x
  <2>1. Handler(s) \in HandlerStates
    BY HandlerTyped
  <2>2. Deliver(Handler(s), x) \in HandlerStates
    BY <1>2, <2>1, DeliverKeeps
  <2>3. QED
    BY <2>1, <2>2
<1>4. Become(state) /\ pending' = [s \in Subs |-> IF phase[s] = "off" \/ Live(s) THEN pending[s]
                                                  ELSE Append(pending[s], x)]
  BY DEF ReceiveEvent
<1> HIDE DEF state, x
<1>5. pending' \in [Subs -> Seq(Stamped)]
  <2> SUFFICES ASSUME NEW s \in Subs PROVE pending'[s] \in Seq(Stamped)
    BY <1>4
  <2>1. pending[s] \in Seq(Stamped)
    BY DEF Typed
  <2>2. Append(pending[s], x) \in Seq(Stamped)
    BY <1>2, <2>1
  <2>3. QED
    BY <1>4, <2>1, <2>2
<1>6. /\ last' \in [Subs -> Positions] /\ cursor' \in [Subs -> Positions]
      /\ view' \in [Subs -> Contents] /\ ordered' \in [Subs -> BOOLEAN]
  BY <1>3, <1>4, BecomeTyped
<1>7. TypeOK'
  BY <1>6 DEF ReceiveEvent, Typed, TypeOK, server, Contents, Positions
<1>8. QED
  BY <1>1, <1>5, <1>6, <1>7 DEF ReceiveEvent, Typed, server, Streams

LEMMA TypedReceive ==
  ASSUME Typed, Tokens, NEW s \in Subs, Receive(s)
  PROVE  Typed'
<1>0. Received
  BY DEF Receive, ReceiveSubscribed, ReceiveMissed, ReceiveGraph
<1>1. wire' \in Seq(Messages) /\ 1 \in 1..Len(wire)
  BY <1>0, ReceivedTyped
<1>2. CASE ReceiveSubscribed(s)
  <2>1. CASE phase[s] = "subscribing"
    <3>1. phase' = [phase EXCEPT ![s] = "on"] /\ UNCHANGED asked
      BY <1>2, <2>1 DEF ReceiveSubscribed
    <3>2. TypeOK'
      BY <1>2, <2>1, <3>1 DEF ReceiveSubscribed, Typed, TypeOK, server, handler, Phases
    <3>3. QED
      BY <1>1, <1>2, <3>2 DEF ReceiveSubscribed, Typed, server, handler, Streams
  <2>2. CASE phase[s] # "subscribing"
    <3>1. phase' = [phase EXCEPT ![s] = "backfilling"] /\ asked' = [asked EXCEPT ![s] = "since"]
      BY <1>2, <2>2 DEF ReceiveSubscribed
    <3>2. up
      BY <1>1, <1>2 DEF ReceiveSubscribed, Tokens, AnswerInPhase, Typed, TypeOK
    <3>3. TypeOK'
      BY <1>2, <2>2, <3>1, <3>2 DEF ReceiveSubscribed, Typed, TypeOK, server, handler, Phases
    <3>4. QED
      BY <1>1, <1>2, <3>1, <3>3 DEF ReceiveSubscribed, Typed, server, handler, Streams
  <2>3. QED
    BY <2>1, <2>2
<1>3. CASE ReceiveMissed(s)
  <2> DEFINE a == wire[1].what
             state == [w \in Subs |-> IF w = s
               THEN DeliverAll(Handler(s), a.events \o pending[s]) ELSE Handler(w)]
  <2>1. a \in Answers /\ pending[s] \in Seq(Stamped)
    BY <1>1, <1>3, WireTyped DEF ReceiveMissed, Typed
  <2>2. a.events \o pending[s] \in Seq(Stamped)
    BY <2>1 DEF Answers
  <2>3. state \in [Subs -> HandlerStates]
    <3> HIDE DEF a
    <3>1. DeliverAll(Handler(s), a.events \o pending[s]) \in HandlerStates
      BY <2>2, HandlerTyped, DeliverAllTyped
    <3>2. QED
      BY <3>1, HandlerTyped
  <2>4. /\ Become(state) /\ stale' = [stale EXCEPT ![s] = @ \/ a.resync]
        /\ pending' = [pending EXCEPT ![s] = << >>] /\ phase' = [phase EXCEPT ![s] = "on"]
    BY <1>3 DEF ReceiveMissed
  <2> HIDE DEF state, a
  <2>5. /\ last' \in [Subs -> Positions] /\ cursor' \in [Subs -> Positions]
        /\ view' \in [Subs -> Contents] /\ ordered' \in [Subs -> BOOLEAN]
    BY <2>3, <2>4, BecomeTyped
  <2>6. pending' \in [Subs -> Seq(Stamped)]
    BY <2>4 DEF Typed
  <2>7. up /\ up'
    BY <1>1, <1>3 DEF ReceiveMissed, Tokens, AnswerInPhase, Typed, TypeOK
  <2>8. TypeOK'
    BY <1>3, <2>4, <2>5, <2>7 DEF ReceiveMissed, Typed, TypeOK, server, Phases, Contents, Positions
  <2>9. QED
    BY <1>1, <1>3, <2>5, <2>6, <2>8 DEF ReceiveMissed, Typed, server, Streams
<1>4. CASE ReceiveGraph(s)
  <2>1. wire[1].what \in Contents
    BY <1>1, <1>4, WireTyped DEF ReceiveGraph
  <2>2. view' \in [Subs -> Contents] /\ stale' \in [Subs -> BOOLEAN]
    BY <1>4, <2>1 DEF ReceiveGraph, Typed, TypeOK, Contents
  <2>3. TypeOK'
    BY <1>4, <2>2 DEF ReceiveGraph, Typed, TypeOK, server, Contents
  <2>4. QED
    BY <1>1, <1>4, <2>3 DEF ReceiveGraph, Typed, server, Streams
<1>5. QED
  BY <1>2, <1>3, <1>4 DEF Receive

LEMMA TypedSubscribe ==
  ASSUME Typed, NEW s \in Subs, Subscribe(s) \/ Unsubscribe(s) \/ AskQuery(s)
  PROVE  Typed'
<1>1. CASE Subscribe(s)
  <2>1. NoCursor \in Positions
    BY DEF NoCursor, Positions
  <2>2. last' \in [Subs -> Positions]
    BY <1>1, <2>1 DEF Subscribe, Typed
  <2>3. phase' \in [Subs -> Phases]
          /\ asked' \in [Subs -> {"none", "subscribe", "since", "query", "unsubscribe"}]
    BY <1>1 DEF Subscribe, Typed, TypeOK, Phases
  <2>4. up' = TRUE
    BY <1>1 DEF Subscribe, EnsureConnected
  <2>5. TypeOK'
    BY <1>1, <2>3, <2>4 DEF Subscribe, Typed, TypeOK, server
  <2>6. QED
    BY <1>1, <2>2, <2>5 DEF Subscribe, Typed, server, Streams
<1>2. CASE Unsubscribe(s)
  BY <1>2 DEF Unsubscribe, Typed, TypeOK, server, handler, Streams, Phases
<1>3. CASE AskQuery(s)
  BY <1>3 DEF AskQuery, Typed, TypeOK, server, client, handler, Streams
<1>4. QED
  BY <1>1, <1>2, <1>3

LEMMA TypedFails ==
  ASSUME Typed, NEW s \in Subs, BackfillFails(s)
  PROVE  Typed'
<1> DEFINE state == [w \in Subs |-> IF w = s THEN GivenUp(w) ELSE Handler(w)]
<1>1. state \in [Subs -> HandlerStates]
  BY GivenUpTyped, HandlerTyped
<1>2. Become(state)
  <2>1. state = [w \in Subs |-> IF w = s THEN GivenUp(s) ELSE Handler(w)]
    OBVIOUS
  <2> HIDE DEF state
  <2>2. QED
    BY <2>1 DEF BackfillFails
<1> HIDE DEF state
<1>3. /\ last' \in [Subs -> Positions] /\ cursor' \in [Subs -> Positions]
      /\ view' \in [Subs -> Contents] /\ ordered' \in [Subs -> BOOLEAN]
  BY <1>1, <1>2, BecomeTyped
<1>4. up /\ up'
  BY DEF BackfillFails, Typed, TypeOK
<1>5. pending' \in [Subs -> Seq(Stamped)]
  BY DEF BackfillFails, Typed
<1>6. TypeOK'
  BY <1>3, <1>4 DEF BackfillFails, Typed, TypeOK, server, Phases, Contents, Positions
<1>7. QED
  BY <1>3, <1>5, <1>6 DEF BackfillFails, Typed, server, Streams

LEMMA TypedLost ==
  ASSUME Typed, ConnectionLost
  PROVE  /\ last' \in [Subs -> Positions] /\ cursor' \in [Subs -> Positions]
         /\ view' \in [Subs -> Contents] /\ ordered' \in [Subs -> BOOLEAN]
         /\ pending' \in [Subs -> Seq(Stamped)] /\ wire' \in Seq(Messages)
         /\ phase' \in [Subs -> Phases] /\ \A s \in Subs : phase'[s] = "off"
<1> DEFINE state == [s \in Subs |-> GivenUp(s)]
<1>1. state \in [Subs -> HandlerStates]
  BY GivenUpTyped
<1>2. Become(state)
  BY DEF ConnectionLost
<1> HIDE DEF state
<1>3. /\ last' \in [Subs -> Positions] /\ cursor' \in [Subs -> Positions]
      /\ view' \in [Subs -> Contents] /\ ordered' \in [Subs -> BOOLEAN]
  BY <1>1, <1>2, BecomeTyped
<1>4. pending' \in [Subs -> Seq(Stamped)]
  BY DEF ConnectionLost
<1>5. phase' \in [Subs -> Phases] /\ \A s \in Subs : phase'[s] = "off"
  BY DEF ConnectionLost, Phases
<1>6. wire' \in Seq(Messages)
  BY DEF ConnectionLost
<1>7. QED
  BY <1>3, <1>4, <1>5, <1>6

LEMMA TypedDisconnect ==
  ASSUME Typed, Disconnect \/ Restart
  PROVE  Typed'
<1>0. ConnectionLost
  BY DEF Disconnect, Restart
<1>1. /\ last' \in [Subs -> Positions] /\ cursor' \in [Subs -> Positions]
      /\ view' \in [Subs -> Contents] /\ ordered' \in [Subs -> BOOLEAN]
      /\ pending' \in [Subs -> Seq(Stamped)] /\ wire' \in Seq(Messages)
      /\ phase' \in [Subs -> Phases] /\ \A s \in Subs : phase'[s] = "off"
  BY <1>0, TypedLost
<1>2. /\ up' \in BOOLEAN /\ bound' \subseteq SUBSET (Nodes \X (1..2)) /\ stale' \in [Subs -> BOOLEAN]
      /\ asked' \in [Subs -> {"none", "subscribe", "since", "query", "unsubscribe"}]
  BY <1>0 DEF ConnectionLost, Typed, TypeOK
<1>3. CASE Disconnect
  <2>1. TypeOK'
    BY <1>1, <1>2, <1>3 DEF Disconnect, Typed, TypeOK, server, Contents, Positions
  <2>2. QED
    BY <1>1, <1>3, <2>1 DEF Disconnect, Typed, server, Streams
<1>4. CASE Restart
  <2>1. stream.epoch + 1 \in Epochs
    BY <1>4, BufferAssumption DEF Restart, Typed, Streams, Epochs
  <2>2. stream' \in Streams
    BY <1>4, <2>1 DEF Restart, Fresh, Streams
  <2>3. cache' \in [Nodes -> 0..2]
    BY <1>4 DEF Restart, NoNodes
  <2>4. TypeOK'
    BY <1>1, <1>2, <1>4, <2>3 DEF Restart, Typed, TypeOK, Contents, Positions
  <2>5. QED
    BY <1>1, <1>4, <2>2, <2>4 DEF Restart, Typed
<1>5. QED
  BY <1>3, <1>4

LEMMA TypedStep ==
  ASSUME Typed, Tokens, [Next]_vars
  PROVE  Typed'
<1>1. CASE \E n \in Nodes, content \in 0..2 : Write(n, content)
  BY <1>1, TypedWrite
<1>2. CASE FileChanged
  BY <1>2 DEF FileChanged, Typed, TypeOK, socket, client, handler, Streams
<1>3. CASE Diff
  BY <1>3, TypedDiff
<1>4. CASE Restart \/ Disconnect
  BY <1>4, TypedDisconnect
<1>5. CASE ReceiveEvent
  BY <1>5, TypedReceiveEvent
<1>6. ASSUME NEW s \in Subs,
             Serve(s) \/ Receive(s) \/ Subscribe(s) \/ Unsubscribe(s) \/ AskQuery(s)
               \/ BackfillFails(s)
      PROVE  Typed'
  BY <1>6, TypedServe, TypedReceive, TypedSubscribe, TypedFails
<1>7. CASE \E p \in Pollers : Poll(p) \/ PollerReads(p)
  BY <1>7 DEF Poll, PollerReads, Typed, TypeOK, server, socket, client, handler, Streams
<1>8. CASE UNCHANGED vars
  BY <1>8 DEF vars, Typed, TypeOK, server, socket, client, handler, Streams
<1>9. QED
  BY <1>1, <1>2, <1>3, <1>4, <1>5, <1>6, <1>7, <1>8 DEF Next

-----------------------------------------------------------------------------
(* Requests and answers.                                                   *)

LEMMA Appended ==
  ASSUME Typed, NEW m, wire' = Append(wire, m)
  PROVE  /\ Len(wire) \in Nat /\ Len(wire') = Len(wire) + 1 /\ wire'[Len(wire) + 1] = m
         /\ \A i \in 1..Len(wire) : wire'[i] = wire[i]
<1>1. wire \in Seq(Messages)
  BY DEF Typed
<1>2. QED
  BY <1>1

LEMMA TokensServe ==
  ASSUME Typed, Tokens, NEW s \in Subs, Serve(s)
  PROVE  Tokens'
<1> DEFINE N == Len(wire)
<1>0. N \in Nat /\ asked \in [Subs -> {"none", "subscribe", "since", "query", "unsubscribe"}]
      /\ \A i \in 1..N : wire[i].kind # "event" => wire[i].sub \in Subs
  BY WireTyped DEF Typed, TypeOK
<1>1. UNCHANGED <<phase, pending>> /\ asked' = [asked EXCEPT ![s] = "none"]
  BY DEF Serve, ServeSubscribe, ServeSince, ServeQuery, ServeUnsubscribe, client
<1>2. AskedInPhase'
  BY <1>0, <1>1 DEF Tokens, AskedInPhase
<1>3. CASE ServeUnsubscribe(s)
  <2>1. wire' = wire
    BY <1>3 DEF ServeUnsubscribe
  <2>2. AnswerInPhase'
    BY <1>0, <1>1, <2>1 DEF Tokens, AnswerInPhase
  <2>3. QED
    BY <1>2, <2>1, <2>2 DEF Tokens, OneAnswer
<1>4. ASSUME NEW kind \in {"subscribe", "since", "query"}, NEW what,
             wire' = Append(wire, Reply(s, kind, what)),
             asked[s] = kind
      PROVE  Tokens'
  <2> DEFINE m == Reply(s, kind, what)
  <2>1. m.kind = kind /\ m.sub = s
    BY DEF Reply
  <2> HIDE DEF m
  <2>2. Len(wire') = N + 1 /\ wire'[N + 1] = m /\ \A i \in 1..N : wire'[i] = wire[i]
    BY <1>4, Appended DEF m
  <2>3. \A i \in 1..N : wire[i].kind = kind /\ kind # "query" => wire[i].sub # s
    BY <1>4 DEF Tokens, AnswerInPhase
  <2>4. AnswerInPhase'
    <3> SUFFICES ASSUME NEW i \in 1..(N + 1)
                 PROVE  /\ wire'[i].kind = "subscribe"
                           => /\ phase[wire'[i].sub] \in {"subscribing", "resuming"}
                                                          /\ asked'[wire'[i].sub] # "subscribe"
                        /\ wire'[i].kind = "since" => /\ phase[wire'[i].sub] = "backfilling"
                                                      /\ asked'[wire'[i].sub] # "since"
      BY <1>1, <2>2 DEF AnswerInPhase
    <3>1. CASE i = N + 1
      BY <1>0, <1>1, <1>4, <2>1, <2>2, <3>1 DEF Tokens, AskedInPhase
    <3>2. CASE i \in 1..N
      <4>1. wire'[i] = wire[i]
        BY <2>2, <3>2
      <4>2. QED
        BY <1>0, <1>1, <3>2, <4>1 DEF Tokens, AnswerInPhase
    <3>3. QED
      BY <1>0, <3>1, <3>2
  <2>5. OneAnswer'
    <3> SUFFICES ASSUME NEW i \in 1..(N + 1), NEW j \in 1..(N + 1),
                        wire'[i].kind \in {"subscribe", "since"},
                        wire'[j].kind = wire'[i].kind, wire'[j].sub = wire'[i].sub
                 PROVE  i = j
      BY <2>2 DEF OneAnswer
    <3>1. CASE i \in 1..N /\ j \in 1..N
      BY <2>2, <3>1 DEF Tokens, OneAnswer
    <3>2. CASE i = N + 1 /\ j \in 1..N
      BY <2>1, <2>2, <2>3, <3>2
    <3>3. CASE i \in 1..N /\ j = N + 1
      BY <2>1, <2>2, <2>3, <3>3
    <3>4. QED
      BY <1>0, <3>1, <3>2, <3>3
  <2>6. QED
    BY <1>2, <2>4, <2>5 DEF Tokens
<1>5. QED
  BY <1>3, <1>4 DEF Serve, ServeSubscribe, ServeSince, ServeQuery

LEMMA TokensDiff ==
  ASSUME Typed, Tokens, Diff
  PROVE  Tokens'
<1> DEFINE ds == Differences
           note == Notify(Stamp(ds))
           N == Len(wire)
<1>1. ds \in Seq(Event) /\ wire \in Seq(Messages) /\ N \in Nat
  BY DifferencesTyped DEF Typed
<1> HIDE DEF ds
<1>2. note \in Seq(EventMessages)
  BY <1>1, NotifyKeeps
<1>3. wire' = wire \o note /\ UNCHANGED <<asked, phase, pending>>
  BY DEF Diff, ds, client
<1> HIDE DEF note
<1>4. \A i \in 1..Len(note) : note[i].kind = "event"
  <2>1. \A i \in 1..Len(note) : note[i] \in EventMessages
    BY <1>2
  <2>2. QED
    BY <2>1 DEF EventMessages
<1>5. Len(wire') = N + Len(note) /\ \A i \in 1..Len(wire') : wire'[i] = IF i <= N THEN wire[i]
        ELSE note[i - N]
  BY <1>1, <1>2, <1>3
<1>6. \A i \in 1..Len(wire') : wire'[i].kind # "event" => i \in 1..N /\ wire'[i] = wire[i]
  <2> SUFFICES ASSUME NEW i \in 1..Len(wire'), wire'[i].kind # "event"
               PROVE  i \in 1..N /\ wire'[i] = wire[i]
    OBVIOUS
  <2>1. CASE i <= N
    BY <1>1, <1>5, <2>1
  <2>2. CASE ~(i <= N)
    <3>1. i - N \in 1..Len(note) /\ wire'[i] = note[i - N]
      BY <1>1, <1>2, <1>5, <2>2
    <3>2. QED
      BY <1>4, <3>1
  <2>3. QED
    BY <2>1, <2>2
<1>7. QED
  BY <1>3, <1>6 DEF Tokens, AskedInPhase, AnswerInPhase, OneAnswer

\* Whoever takes the first message, the others keep their places.
LEMMA TokensTail ==
  ASSUME Typed, Tokens, Received
  PROVE  /\ OneAnswer'
         /\ \A i \in 1..Len(wire') :
              /\ wire'[i] = wire[i + 1] /\ i + 1 \in 1..Len(wire)
              /\ wire[1].kind \in {"subscribe", "since"} =>
                   wire'[i].kind # wire[1].kind \/ wire'[i].sub # wire[1].sub
<1>1. /\ Len(wire) \in Nat /\ 1 \in 1..Len(wire)
      /\ Len(wire') = Len(wire) - 1 /\ \A i \in 1..Len(wire') : wire'[i] = wire[i + 1]
  BY ReceivedTyped DEF Typed
<1>2. \A i \in 1..Len(wire') : i + 1 \in 1..Len(wire) /\ i + 1 # 1
  BY <1>1
<1>3. OneAnswer'
  <2> SUFFICES ASSUME NEW i \in 1..Len(wire'), NEW j \in 1..Len(wire'),
                      wire'[i].kind \in {"subscribe", "since"},
                      wire'[j].kind = wire'[i].kind, wire'[j].sub = wire'[i].sub
               PROVE  i = j
    BY DEF OneAnswer
  <2>1. i + 1 = j + 1
    BY <1>1, <1>2 DEF Tokens, OneAnswer
  <2>2. QED
    BY <1>1, <2>1
<1>4. QED
  BY <1>1, <1>2, <1>3 DEF Tokens, OneAnswer

LEMMA TokensReceiveEvent ==
  ASSUME Typed, Tokens, ReceiveEvent
  PROVE  Tokens'
<1>1. UNCHANGED <<asked, phase>> /\ Received
  BY DEF ReceiveEvent
<1>2. AnswerInPhase' /\ OneAnswer'
  BY <1>1, TokensTail DEF Tokens, AnswerInPhase
<1>3. AskedInPhase'
  <2> SUFFICES ASSUME NEW s \in Subs, pending'[s] # << >>
               PROVE  phase[s] \in {"resuming", "backfilling"}
    BY <1>1 DEF Tokens, AskedInPhase
  <2>1. phase[s] \in Phases
    BY DEF Typed, TypeOK
  <2>2. CASE phase[s] = "off" \/ Live(s)
    BY <2>2 DEF ReceiveEvent, Tokens, AskedInPhase
  <2>3. CASE ~(phase[s] = "off" \/ Live(s))
    BY <2>1, <2>3 DEF Live, Phases
  <2>4. QED
    BY <2>2, <2>3
<1>4. QED
  BY <1>2, <1>3 DEF Tokens

LEMMA TokensReceive ==
  ASSUME Typed, Tokens, NEW s \in Subs, Receive(s)
  PROVE  Tokens'
<1>0. Received /\ phase \in [Subs -> Phases] /\ pending \in [Subs -> Seq(Stamped)]
      /\ asked \in [Subs -> {"none", "subscribe", "since", "query", "unsubscribe"}]
  BY DEF Receive, ReceiveSubscribed, ReceiveMissed, ReceiveGraph, Typed, TypeOK
<1>1. /\ OneAnswer'
      /\ \A i \in 1..Len(wire') :
           /\ wire'[i] = wire[i + 1] /\ i + 1 \in 1..Len(wire)
           /\ wire[1].kind \in {"subscribe", "since"} =>
                wire'[i].kind # wire[1].kind \/ wire'[i].sub # wire[1].sub
  BY <1>0, TokensTail
<1>2. 1 \in 1..Len(wire)
  BY <1>0, ReceivedTyped
<1>3. \A i \in 1..Len(wire') : wire'[i].kind # "event" => wire'[i].sub \in Subs
  BY <1>1, WireTyped
<1>4. CASE ReceiveSubscribed(s)
  <2>1. wire[1].kind = "subscribe" /\ wire[1].sub = s /\ phase[s] \in {"subscribing", "resuming"}
        /\ asked[s] # "subscribe" /\ UNCHANGED pending
    BY <1>2, <1>4 DEF ReceiveSubscribed, Tokens, AnswerInPhase
  <2>2. asked[s] # "since"
    BY <2>1 DEF Tokens, AskedInPhase
  <2>3. \A i \in 1..Len(wire') : wire'[i].kind \in {"subscribe", "since"} => wire'[i].sub # s
    BY <1>1, <2>1 DEF Tokens, AnswerInPhase
  <2>4. CASE phase[s] = "subscribing"
    <3>1. phase' = [phase EXCEPT ![s] = "on"] /\ UNCHANGED asked
      BY <1>4, <2>4 DEF ReceiveSubscribed
    <3>2. AskedInPhase'
      BY <1>0, <2>1, <2>2, <2>4, <3>1 DEF Tokens, AskedInPhase
    <3>3. AnswerInPhase'
      BY <1>0, <1>1, <1>3, <2>3, <3>1 DEF Tokens, AnswerInPhase
    <3>4. QED
      BY <1>1, <3>2, <3>3 DEF Tokens
  <2>5. CASE phase[s] # "subscribing"
    <3>1. phase' = [phase EXCEPT ![s] = "backfilling"] /\ asked' = [asked EXCEPT ![s] = "since"]
      BY <1>4, <2>5 DEF ReceiveSubscribed
    <3>2. AskedInPhase'
      BY <1>0, <2>1, <3>1 DEF Tokens, AskedInPhase
    <3>3. AnswerInPhase'
      BY <1>0, <1>1, <1>3, <2>3, <3>1 DEF Tokens, AnswerInPhase
    <3>4. QED
      BY <1>1, <3>2, <3>3 DEF Tokens
  <2>6. QED
    BY <2>4, <2>5
<1>5. CASE ReceiveMissed(s)
  <2>1. /\ wire[1].kind = "since" /\ wire[1].sub = s /\ phase[s] = "backfilling"
           /\ asked[s] # "since"
        /\ phase' = [phase EXCEPT ![s] = "on"] /\ pending' = [pending EXCEPT ![s] = << >>]
           /\ UNCHANGED asked
    BY <1>2, <1>5 DEF ReceiveMissed, Tokens, AnswerInPhase
  <2>2. asked[s] # "subscribe"
    BY <2>1 DEF Tokens, AskedInPhase
  <2>3. \A i \in 1..Len(wire') : wire'[i].kind \in {"subscribe", "since"} => wire'[i].sub # s
    BY <1>1, <2>1 DEF Tokens, AnswerInPhase
  <2>4. AskedInPhase'
    BY <1>0, <2>1, <2>2 DEF Tokens, AskedInPhase
  <2>5. AnswerInPhase'
    <3> SUFFICES ASSUME NEW i \in 1..Len(wire'), wire'[i].kind \in {"subscribe", "since"}
                 PROVE  /\ wire'[i].kind = "subscribe" =>
                             phase'[wire'[i].sub] \in {"subscribing", "resuming"}
                             /\ asked'[wire'[i].sub] # "subscribe"
                        /\ wire'[i].kind = "since" =>
                             phase'[wire'[i].sub] = "backfilling" /\ asked'[wire'[i].sub] # "since"
      BY DEF AnswerInPhase
    <3>1. wire'[i] = wire[i + 1] /\ i + 1 \in 1..Len(wire) /\ wire'[i].sub \in Subs
            /\ wire'[i].sub # s
      BY <1>1, <1>3, <2>3
    <3>2. phase'[wire'[i].sub] = phase[wire'[i].sub] /\ asked'[wire'[i].sub] = asked[wire'[i].sub]
      BY <1>0, <2>1, <3>1
    <3>3. QED
      BY <3>1, <3>2 DEF Tokens, AnswerInPhase
  <2>6. QED
    BY <1>1, <2>4, <2>5 DEF Tokens
<1>6. CASE ReceiveGraph(s)
  <2>1. UNCHANGED <<asked, phase, pending>>
    BY <1>6 DEF ReceiveGraph
  <2>2. QED
    BY <1>1, <2>1 DEF Tokens, AskedInPhase, AnswerInPhase
<1>7. QED
  BY <1>4, <1>5, <1>6 DEF Receive

LEMMA TokensSubscribe ==
  ASSUME Typed, Tokens, NEW s \in Subs, Subscribe(s) \/ Unsubscribe(s) \/ AskQuery(s)
           \/ BackfillFails(s)
  PROVE  Tokens'
<1>0. phase \in [Subs -> Phases] /\ pending \in [Subs -> Seq(Stamped)]
      /\ asked \in [Subs -> {"none", "subscribe", "since", "query", "unsubscribe"}]
      /\ UNCHANGED wire
      /\ \A i \in 1..Len(wire) : wire[i].kind # "event" => wire[i].sub \in Subs
  BY WireTyped
  DEF Typed, TypeOK, Subscribe, Unsubscribe, AskQuery, BackfillFails, server
<1>1. OneAnswer'
  BY <1>0 DEF Tokens, OneAnswer
<1>2. CASE Subscribe(s)
  <2>1. /\ phase[s] = "off" /\ asked' = [asked EXCEPT ![s] = "subscribe"] /\ UNCHANGED pending
        /\ phase' = [phase EXCEPT ![s] = IF cursor[s] = NoCursor THEN "subscribing" ELSE "resuming"]
    BY <1>2 DEF Subscribe
  <2>2. AskedInPhase'
    BY <1>0, <2>1 DEF Tokens, AskedInPhase
  <2>3. AnswerInPhase'
    BY <1>0, <2>1 DEF Tokens, AnswerInPhase
  <2>4. QED
    BY <1>1, <2>2, <2>3 DEF Tokens
<1>3. CASE Unsubscribe(s)
  <2>1. /\ phase[s] = "on" /\ asked' = [asked EXCEPT ![s] = "unsubscribe"] /\ UNCHANGED pending
        /\ phase' = [phase EXCEPT ![s] = "off"]
    BY <1>3 DEF Unsubscribe
  <2>2. AskedInPhase'
    BY <1>0, <2>1 DEF Tokens, AskedInPhase
  <2>3. AnswerInPhase'
    BY <1>0, <2>1 DEF Tokens, AnswerInPhase
  <2>4. QED
    BY <1>1, <2>2, <2>3 DEF Tokens
<1>4. CASE AskQuery(s)
  <2>1. asked' = [asked EXCEPT ![s] = "query"] /\ UNCHANGED <<pending, phase>>
    BY <1>4 DEF AskQuery, client
  <2>2. QED
    BY <1>0, <1>1, <2>1 DEF Tokens, AskedInPhase, AnswerInPhase
<1>5. CASE BackfillFails(s)
  <2>1. /\ phase[s] = "backfilling" /\ asked[s] = "since" /\ asked' = [asked EXCEPT ![s] = "none"]
        /\ phase' = [phase EXCEPT ![s] = "on"] /\ pending' = [pending EXCEPT ![s] = << >>]
    BY <1>5 DEF BackfillFails
  <2>2. AskedInPhase'
    BY <1>0, <2>1 DEF Tokens, AskedInPhase
  <2>3. AnswerInPhase'
    BY <1>0, <2>1 DEF Tokens, AnswerInPhase
  <2>4. QED
    BY <1>1, <2>2, <2>3 DEF Tokens
<1>6. QED
  BY <1>2, <1>3, <1>4, <1>5

LEMMA TokensStep ==
  ASSUME Typed, Tokens, [Next]_vars
  PROVE  Tokens'
<1>1. CASE Restart \/ Disconnect
  <2>1. wire' = << >> /\ \A s \in Subs : asked'[s] = "none" /\ pending'[s] = << >>
    BY <1>1 DEF Restart, Disconnect, ConnectionLost
  <2>2. QED
    BY <2>1 DEF Tokens, AskedInPhase, AnswerInPhase, OneAnswer
<1>2. ASSUME UNCHANGED <<asked, phase, pending, wire>>
      PROVE  Tokens'
  BY <1>2 DEF Tokens, AskedInPhase, AnswerInPhase, OneAnswer
<1>3. CASE \E n \in Nodes, content \in 0..2 : Write(n, content)
  BY <1>2, <1>3 DEF Write, socket, client
<1>4. CASE FileChanged
  BY <1>2, <1>4 DEF FileChanged, socket, client
<1>5. CASE \E p \in Pollers : Poll(p) \/ PollerReads(p)
  BY <1>2, <1>5 DEF Poll, PollerReads, socket, client
<1>6. ASSUME NEW s \in Subs,
             Serve(s) \/ Receive(s) \/ Subscribe(s) \/ Unsubscribe(s) \/ AskQuery(s)
               \/ BackfillFails(s)
      PROVE  Tokens'
  BY <1>6, TokensServe, TokensReceive, TokensSubscribe
<1>7. CASE UNCHANGED vars
  BY <1>2, <1>7 DEF vars, socket, client
<1>8. QED
  BY <1>1, <1>3, <1>4, <1>5, <1>6, <1>7, TokensDiff, TokensReceiveEvent DEF Next

-----------------------------------------------------------------------------
(* The order of events.                                                    *)

LEMMA PositionNumbers == \A c \in Positions : c.epoch \in Int /\ c.seq \in Nat
<1>1. Epochs \subseteq Int /\ -1 \in Int
  BY BufferAssumption DEF Epochs
<1>2. \A c \in Positions : c.epoch \in Epochs \cup {-1} /\ c.seq \in Nat
  BY DEF Positions
<1>3. QED
  BY <1>1, <1>2

\* What the proofs use of the numbers.
LEMMA Numbers ==
  ASSUME Typed
  PROVE  /\ stream \in Streams /\ stream.epoch \in Int /\ stream.latestSeq \in Nat
         /\ \A s \in Subs : cursor[s].epoch \in Int /\ cursor[s].seq \in Nat
         /\ \A x \in Stamped : x.epoch \in Int /\ x.seq \in Nat
<1>1. Epochs \subseteq Int
  BY BufferAssumption DEF Epochs
<1>2. stream \in Streams /\ stream.epoch \in Epochs /\ stream.latestSeq \in Nat
  BY DEF Typed, Streams
<1>3. \A s \in Subs : cursor[s].epoch \in Int /\ cursor[s].seq \in Nat
  <2>1. \A s \in Subs : cursor[s] \in Positions
    BY DEF Typed
  <2>2. QED
    BY <2>1, PositionNumbers
<1>4. \A x \in Stamped : x.epoch \in Int /\ x.seq \in Nat
  BY <1>1 DEF Stamped
<1>5. QED
  BY <1>1, <1>2, <1>3, <1>4

LEMMA MovedOn ==
  ASSUME NEW e, NEW y, y.epoch = e.epoch, e.seq < y.seq
  PROVE  After(y, At(e))
BY DEF After, At

LEMMA OlderTail ==
  ASSUME NEW w \in Seq(Messages), w # << >>, NEW x, NEW i \in Nat, OlderFrom(x, w, i + 1), i >= 1
  PROVE  OlderFrom(x, Tail(w), i)
<1>1. Len(w) \in Nat /\ Len(Tail(w)) = Len(w) - 1
        /\ \A j \in 1..Len(Tail(w)) : Tail(w)[j] = w[j + 1]
  OBVIOUS
<1>2. \A j \in i..Len(Tail(w)) : j + 1 \in (i + 1)..Len(w) /\ j \in 1..Len(Tail(w))
  BY <1>1
<1>3. QED
  BY <1>1, <1>2 DEF OlderFrom

LEMMA OlderLater ==
  ASSUME NEW w \in Seq(Messages), NEW x, NEW i \in Nat, OlderFrom(x, w, i)
  PROVE  OlderFrom(x, w, i + 1)
<1>1. Len(w) \in Nat /\ \A j \in (i + 1)..Len(w) : j \in i..Len(w)
  OBVIOUS
<1>2. QED
  BY <1>1 DEF OlderFrom

LEMMA OlderAppended ==
  ASSUME NEW w \in Seq(Messages), NEW m, m.kind # "event", NEW x, NEW i \in Nat,
         OlderFrom(x, w, i), i >= 1
  PROVE  OlderFrom(x, Append(w, m), i)
<1> DEFINE v == Append(w, m)
<1>1. Len(w) \in Nat /\ Len(v) = Len(w) + 1 /\ v[Len(w) + 1] = m /\ \A j \in 1..Len(w) : v[j] = w[j]
  OBVIOUS
<1> HIDE DEF v
<1>2. \A j \in i..Len(v) : j = Len(w) + 1 \/ (j \in i..Len(w) /\ j \in 1..Len(w))
  BY <1>1
<1>3. OlderFrom(x, v, i)
  BY <1>1, <1>2 DEF OlderFrom
<1>4. QED
  BY <1>3 DEF v

LEMMA OrderKept ==
  ASSUME InOrder, UNCHANGED <<stream, wire, pending, cursor, ordered>>
  PROVE  InOrder'
BY DEF InOrder, WireOrder, AnswerOrder, PendingOrder, CursorOrder, DeliveredInOrder

LEMMA OrderInit == Init => InOrder
<1> SUFFICES ASSUME Init PROVE InOrder
  OBVIOUS
<1>1. /\ wire = << >> /\ \A s \in Subs : pending[s] = << >> /\ ordered[s]
      /\ stream.epoch = 0 /\ \A s \in Subs : cursor[s].epoch = -1
  BY DEF Init, Fresh, NoCursor
<1>2. QED
  BY <1>1 DEF InOrder, WireOrder, AnswerOrder, PendingOrder, CursorOrder, DeliveredInOrder

\* An answer that goes on the wire.
LEMMA OrderAppended ==
  ASSUME WatchInv, NEW m, wire' = Append(wire, m), m.kind # "event",
         UNCHANGED <<stream, pending, cursor, ordered>>,
         m.kind = "since" =>
           \A k \in 1..Len(m.what.events) : /\ Issued(m.what.events[k], stream)
                                            /\ After(m.what.events[k], cursor[m.sub])
  PROVE  InOrder'
<1> DEFINE N == Len(wire)
<1>1. wire \in Seq(Messages) /\ N \in Nat
  BY DEF WatchInv, Typed
<1>2. Len(wire') = N + 1 /\ wire'[N + 1] = m /\ \A i \in 1..N : wire'[i] = wire[i]
  BY Appended DEF WatchInv
<1>3. \A i \in 1..Len(wire') : i = N + 1 \/ i \in 1..N
  BY <1>1, <1>2
<1>4. ASSUME NEW x, NEW i \in 1..(N + 1), OlderFrom(x, wire, i)
      PROVE  OlderFrom(x, wire', i)
  BY <1>1, <1>4, OlderAppended
<1> HIDE DEF N
<1>5. WireOrder'
  <2> SUFFICES ASSUME NEW i \in 1..Len(wire'), wire'[i].kind = "event"
               PROVE  /\ Issued(wire'[i].what, stream)
                      /\ OlderFrom(wire'[i].what, wire', i + 1)
                      /\ \A s \in Subs : After(wire'[i].what, cursor[s])
    BY DEF WireOrder
  <2>1. i \in 1..N /\ wire'[i] = wire[i] /\ i + 1 \in 1..(N + 1)
    BY <1>1, <1>2, <1>3
  <2>2. /\ Issued(wire[i].what, stream) /\ OlderFrom(wire[i].what, wire, i + 1)
        /\ \A s \in Subs : After(wire[i].what, cursor[s])
    BY <2>1 DEF WatchInv, InOrder, WireOrder, N
  <2>3. QED
    BY <1>4, <2>1, <2>2
<1>6. AnswerOrder'
  <2> SUFFICES ASSUME NEW i \in 1..Len(wire'), wire'[i].kind = "since",
                      NEW k \in 1..Len(wire'[i].what.events)
               PROVE  /\ Issued(wire'[i].what.events[k], stream)
                      /\ OlderFrom(wire'[i].what.events[k], wire', i)
                      /\ After(wire'[i].what.events[k], cursor[wire'[i].sub])
    BY DEF AnswerOrder
  <2>1. CASE i = N + 1
    <3>1. wire'[i] = m
      BY <1>2, <2>1
    <3>2. OlderFrom(wire'[i].what.events[k], wire', i)
      BY <1>1, <1>2, <2>1, <3>1 DEF OlderFrom
    <3>3. QED
      BY <3>1, <3>2
  <2>2. CASE i \in 1..N
    <3>1. wire'[i] = wire[i] /\ i \in 1..(N + 1)
      BY <1>1, <1>2, <2>2
    <3>2. /\ Issued(wire[i].what.events[k], stream) /\ OlderFrom(wire[i].what.events[k], wire, i)
          /\ After(wire[i].what.events[k], cursor[wire[i].sub])
      BY <2>2, <3>1 DEF WatchInv, InOrder, AnswerOrder, N
    <3>3. QED
      BY <1>4, <3>1, <3>2
  <2>3. QED
    BY <1>3, <2>1, <2>2
<1>7. PendingOrder'
  <2>1. 1 \in 1..(N + 1)
    BY <1>1 DEF N
  <2>2. QED
    BY <1>4, <2>1 DEF WatchInv, InOrder, PendingOrder
<1>8. QED
  BY <1>5, <1>6, <1>7 DEF WatchInv, InOrder, CursorOrder, DeliveredInOrder

LEMMA OrderServe ==
  ASSUME WatchInv, NEW s \in Subs, Serve(s)
  PROVE  InOrder'
<1>1. UNCHANGED <<pending, cursor, ordered>> /\ UNCHANGED stream
  BY DEF Serve, ServeSubscribe, ServeSince, ServeQuery, ServeUnsubscribe, client, handler, server
<1>2. CASE ServeSubscribe(s)
  <2>1. wire' = Append(wire, Reply(s, "subscribe", << >>))
          /\ Reply(s, "subscribe", << >>).kind = "subscribe"
    BY <1>2 DEF ServeSubscribe, Reply
  <2>2. QED
    BY <1>1, <2>1, OrderAppended
<1>3. CASE ServeQuery(s)
  <2> DEFINE m == Reply(s, "query", [n \in Nodes |-> IF <<n, graph[n]>> \in Filter[s]
                                                   THEN graph[n] ELSE 0])
  <2>1. wire' = Append(wire, m) /\ m.kind = "query"
    BY <1>3 DEF ServeQuery, Reply
  <2> HIDE DEF m
  <2>2. QED
    BY <1>1, <2>1, OrderAppended
<1>4. CASE ServeUnsubscribe(s)
  BY <1>1, <1>4, OrderKept DEF ServeUnsubscribe, WatchInv
<1>5. CASE ServeSince(s)
  <2> DEFINE a == Since(stream, cursor[s])
             m == Reply(s, "since", a)
  <2>1. wire' = Append(wire, m) /\ m.kind = "since" /\ m.what = a /\ m.sub = s
    BY <1>5 DEF ServeSince, Reply
  <2>2. \A k \in 1..Len(a.events) : Issued(a.events[k], stream) /\ After(a.events[k], cursor[s])
    <3>1. stream \in Streams /\ cursor[s] \in Positions
      BY DEF WatchInv, Typed
    <3>2. QED
      BY <3>1, SinceKeeps DEF Issued
  <2> HIDE DEF m, a
  <2>3. QED
    BY <1>1, <2>1, <2>2, OrderAppended
<1>6. QED
  BY <1>2, <1>3, <1>4, <1>5 DEF Serve

\* The events of a diff are newer than all there was.
LEMMA OrderDiff ==
  ASSUME WatchInv, Diff
  PROVE  InOrder'
<1> DEFINE ds == Differences
           note == Notify(Stamp(ds))
           N == Len(wire)
           L == stream.latestSeq
           D == Len(ds)
<1>1. Typed /\ ds \in Seq(Event) /\ wire \in Seq(Messages) /\ N \in Nat /\ D \in Nat /\ L \in Nat
  BY DifferencesTyped, Numbers DEF WatchInv, Typed
<1>2. wire' = wire \o note /\ UNCHANGED <<pending, cursor, ordered>>
        /\ stream' = PushAll(stream, ds)
  BY DEF Diff, client, handler
<1> HIDE DEF ds
<1>3. /\ note \in Seq(EventMessages)
      /\ \A i \in 1..Len(note) : note[i].what.epoch = stream.epoch /\ note[i].what.seq > L
         /\ note[i].what.seq <= L + D
      /\ \A i, j \in 1..Len(note) : i < j => note[i].what.seq < note[j].what.seq
  BY <1>1, NotifyKeeps
<1>4. stream'.epoch = stream.epoch /\ stream'.latestSeq = L + D
  BY <1>1, <1>2, PushAllKeeps, Numbers
<1> HIDE DEF note
<1>5. \A i \in 1..Len(note) : note[i].kind = "event" /\ note[i].what.seq \in Nat
  <2>1. \A i \in 1..Len(note) : note[i] \in EventMessages
    BY <1>3
  <2>2. \A m \in EventMessages : m.kind = "event" /\ m.what \in Stamped
    BY DEF EventMessages
  <2>3. QED
    BY <1>1, <2>1, <2>2, Numbers
<1>6. /\ Len(note) \in Nat /\ Len(wire') = N + Len(note)
      /\ \A i \in 1..N : wire'[i] = wire[i] /\ i \in 1..Len(wire')
      /\ \A i \in 1..Len(note) : wire'[i + N] = note[i]
  BY <1>1, <1>2, <1>3
<1> HIDE DEF N, L, D
<1>7. ASSUME NEW i \in 1..Len(wire')
      PROVE  \/ i \in 1..N /\ wire'[i] = wire[i]
             \/ \E k \in 1..Len(note) : i = k + N /\ wire'[i] = note[k]
  <2>1. CASE i <= N
    BY <1>1, <1>6, <2>1
  <2>2. CASE ~(i <= N)
    <3>1. i - N \in 1..Len(note) /\ (i - N) + N = i
      BY <1>1, <1>6, <2>2
    <3>2. QED
      BY <1>6, <3>1
  <2>3. QED
    BY <2>1, <2>2
\* What was older than all on the wire is older than what comes after it.
<1>8. ASSUME NEW x \in Stamped, NEW i \in Nat, i >= 1, Issued(x, stream), OlderFrom(x, wire, i)
      PROVE  OlderFrom(x, wire', i) /\ Issued(x, stream')
  <2>1. x.seq \in Nat /\ x.seq <= L /\ x.epoch = stream.epoch
    BY <1>1, <1>8, Numbers DEF Issued, L
  <2>2. ASSUME NEW j \in i..Len(wire'), wire'[j].kind = "event"
        PROVE  x.seq < wire'[j].what.seq
    <3>1. j \in 1..Len(wire')
      BY <1>1, <1>6, <1>8
    <3>2. CASE j \in 1..N /\ wire'[j] = wire[j]
      <4>1. j \in i..Len(wire)
        BY <1>1, <1>8, <3>2 DEF N
      <4>2. QED
        BY <1>8, <2>2, <3>2, <4>1 DEF OlderFrom
    <3>3. CASE \E k \in 1..Len(note) : j = k + N /\ wire'[j] = note[k]
      BY <1>1, <1>3, <1>5, <2>1, <3>3
    <3>4. QED
      BY <1>7, <3>1, <3>2, <3>3
  <2>3. OlderFrom(x, wire', i)
    BY <2>2 DEF OlderFrom
  <2>4. Issued(x, stream')
    BY <1>1, <1>4, <2>1 DEF Issued
  <2>5. QED
    BY <2>3, <2>4
<1>9. WireOrder'
  <2> SUFFICES ASSUME NEW i \in 1..Len(wire'), wire'[i].kind = "event"
               PROVE  /\ Issued(wire'[i].what, stream')
                      /\ OlderFrom(wire'[i].what, wire', i + 1)
                      /\ \A s \in Subs : After(wire'[i].what, cursor[s])
    BY <1>2 DEF WireOrder
  <2>1. CASE i \in 1..N /\ wire'[i] = wire[i]
    <3>1. wire[i].what \in Stamped
      BY <1>1, <2>1, WireTyped DEF N
    <3>2. /\ Issued(wire[i].what, stream) /\ OlderFrom(wire[i].what, wire, i + 1)
          /\ \A s \in Subs : After(wire[i].what, cursor[s])
      BY <2>1 DEF WatchInv, InOrder, WireOrder, N
    <3>3. i + 1 \in Nat /\ i + 1 >= 1
      BY <1>1, <2>1
    <3>4. QED
      BY <1>8, <2>1, <3>1, <3>2, <3>3
  <2>2. ASSUME NEW k \in 1..Len(note), i = k + N, wire'[i] = note[k]
        PROVE  /\ Issued(note[k].what, stream')
               /\ OlderFrom(note[k].what, wire', i + 1)
               /\ \A s \in Subs : After(note[k].what, cursor[s])
    <3>1. Issued(note[k].what, stream')
      BY <1>3, <1>4, <2>2 DEF Issued
    <3>2. ASSUME NEW j \in (i + 1)..Len(wire')
          PROVE  note[k].what.seq < wire'[j].what.seq
      <4>1. j - N \in 1..Len(note) /\ k < j - N /\ (j - N) + N = j
        BY <1>1, <1>6, <2>2, <3>2
      <4>2. wire'[j] = note[j - N]
        BY <1>6, <4>1
      <4>3. QED
        BY <1>3, <4>1, <4>2
    <3>3. OlderFrom(note[k].what, wire', i + 1)
      BY <3>2 DEF OlderFrom
    <3>4. ASSUME NEW s \in Subs PROVE After(note[k].what, cursor[s])
      <4>1. /\ cursor[s].epoch <= stream.epoch
            /\ cursor[s].epoch = stream.epoch => cursor[s].seq <= L
        BY DEF WatchInv, InOrder, CursorOrder, L
      <4>2. cursor[s].epoch \in Int /\ cursor[s].seq \in Nat /\ stream.epoch \in Int
        BY <1>1, Numbers
      <4>3. /\ note[k].what.epoch = stream.epoch /\ note[k].what.seq > L
            /\ note[k].what.seq \in Nat /\ L \in Nat
        BY <1>1, <1>3, <1>5
      <4> DEFINE e == stream.epoch
                 q == note[k].what.seq
                 c == cursor[s]
      <4> HIDE DEF e, q, c, L
      <4>4. e > c.epoch \/ (e = c.epoch /\ q > c.seq)
        BY <4>1, <4>2, <4>3 DEF e, q, c
      <4>5. QED
        BY <4>3, <4>4 DEF After, e, q, c
    <3>5. QED
      BY <3>1, <3>3, <3>4
  <2>3. QED
    BY <1>7, <2>1, <2>2
<1>10. AnswerOrder'
  <2> SUFFICES ASSUME NEW i \in 1..Len(wire'), wire'[i].kind = "since",
                      NEW k \in 1..Len(wire'[i].what.events)
               PROVE  /\ Issued(wire'[i].what.events[k], stream')
                      /\ OlderFrom(wire'[i].what.events[k], wire', i)
                      /\ After(wire'[i].what.events[k], cursor[wire'[i].sub])
    BY <1>2 DEF AnswerOrder
  <2>1. i \in 1..N /\ wire'[i] = wire[i]
    BY <1>5, <1>7
  <2>2. /\ Issued(wire[i].what.events[k], stream) /\ OlderFrom(wire[i].what.events[k], wire, i)
        /\ After(wire[i].what.events[k], cursor[wire[i].sub])
    BY <2>1 DEF WatchInv, InOrder, AnswerOrder, N
  <2>3. wire[i].what.events[k] \in Stamped
    <3>1. wire[i].what \in Answers
      BY <1>1, <2>1, WireTyped DEF N
    <3>2. QED
      BY <2>1, <3>1 DEF Answers
  <2>4. QED
    BY <1>1, <1>8, <2>1, <2>2, <2>3
<1>11. PendingOrder'
  <2> SUFFICES ASSUME NEW s \in Subs, NEW k \in 1..Len(pending[s])
               PROVE  /\ Issued(pending[s][k], stream')
                      /\ OlderFrom(pending[s][k], wire', 1)
                      /\ After(pending[s][k], cursor[s])
    BY <1>2 DEF PendingOrder
  <2>1. Issued(pending[s][k], stream) /\ OlderFrom(pending[s][k], wire, 1)
          /\ After(pending[s][k], cursor[s])
    BY DEF WatchInv, InOrder, PendingOrder
  <2>2. pending[s][k] \in Stamped
    <3>1. pending[s] \in Seq(Stamped)
      BY <1>1 DEF Typed
    <3>2. QED
      BY <3>1
  <2>3. QED
    BY <1>8, <2>1, <2>2
<1>12. CursorOrder'
  <2> SUFFICES ASSUME NEW s \in Subs
               PROVE  /\ cursor[s].epoch <= stream.epoch
                      /\ cursor[s].epoch = stream.epoch => cursor[s].seq <= L + D
    BY <1>2, <1>4 DEF CursorOrder
  <2>1. cursor[s].seq \in Nat
    BY <1>1, Numbers
  <2>2. QED
    BY <1>1, <2>1 DEF WatchInv, InOrder, CursorOrder, L
<1>13. DeliveredInOrder'
  BY <1>2 DEF WatchInv, InOrder, DeliveredInOrder
<1>14. QED
  BY <1>9, <1>10, <1>11, <1>12, <1>13 DEF InOrder

\* The handler of s has heard an event that is older than all that is on the wire.
Heard(s) == \E x \in Stamped : Issued(x, stream) /\ OlderFrom(x, wire', 1) /\ cursor'[s] = At(x)

\* What becomes of the messages on the wire when none is added.
LEMMA WireShrinks ==
  ASSUME WatchInv, Received \/ UNCHANGED wire
  PROVE  /\ \A i \in 1..Len(wire') :
              /\ wire'[i].kind = "event" =>
                   /\ wire'[i].what \in Stamped /\ Issued(wire'[i].what, stream)
                   /\ OlderFrom(wire'[i].what, wire', i + 1)
                   /\ \A s \in Subs : After(wire'[i].what, cursor[s])
              /\ wire'[i].kind = "since" =>
                   /\ wire'[i].sub \in Subs /\ phase[wire'[i].sub] = "backfilling"
                   /\ asked[wire'[i].sub] # "since"
                   /\ \A k \in 1..Len(wire'[i].what.events) :
                        /\ Issued(wire'[i].what.events[k], stream)
                        /\ OlderFrom(wire'[i].what.events[k], wire', i)
                        /\ After(wire'[i].what.events[k], cursor[wire'[i].sub])
         /\ \A x : OlderFrom(x, wire, 1) => OlderFrom(x, wire', 1)
<1>1. Typed /\ Tokens
  BY DEF WatchInv
<1>2. CASE UNCHANGED wire
  <2>1. ASSUME NEW i \in 1..Len(wire'), wire'[i].kind = "event"
        PROVE  /\ wire'[i].what \in Stamped /\ Issued(wire'[i].what, stream)
               /\ OlderFrom(wire'[i].what, wire', i + 1)
               /\ \A s \in Subs : After(wire'[i].what, cursor[s])
    BY <1>1, <1>2, <2>1, WireTyped DEF WatchInv, InOrder, WireOrder
  <2>2. ASSUME NEW i \in 1..Len(wire'), wire'[i].kind = "since"
        PROVE  /\ wire'[i].sub \in Subs /\ phase[wire'[i].sub] = "backfilling"
               /\ asked[wire'[i].sub] # "since"
    BY <1>1, <1>2, <2>2, WireTyped DEF Tokens, AnswerInPhase
  <2>3. ASSUME NEW i \in 1..Len(wire'), wire'[i].kind = "since",
               NEW k \in 1..Len(wire'[i].what.events)
        PROVE  /\ Issued(wire'[i].what.events[k], stream)
               /\ OlderFrom(wire'[i].what.events[k], wire', i)
               /\ After(wire'[i].what.events[k], cursor[wire'[i].sub])
    BY <1>2, <2>3 DEF WatchInv, InOrder, AnswerOrder
  <2>4. \A x : OlderFrom(x, wire, 1) => OlderFrom(x, wire', 1)
    BY <1>2
  <2>5. QED
    BY <2>1, <2>2, <2>3, <2>4
<1>3. CASE Received
  <2>1. /\ wire \in Seq(Messages) /\ wire # << >> /\ wire' = Tail(wire)
        /\ Len(wire) \in Nat /\ Len(wire') = Len(wire) - 1
           /\ \A i \in 1..Len(wire') : wire'[i] = wire[i + 1]
    BY <1>1, <1>3, ReceivedTyped DEF Received, Typed
  <2>2. \A i \in 1..Len(wire') : i + 1 \in 1..Len(wire) /\ i \in Nat /\ i >= 1 /\ i + 1 \in Nat
          /\ i + 1 >= 1
    <3>1. Len(wire) \in Nat /\ Len(wire') = Len(wire) - 1
      BY <2>1
    <3>2. QED
      BY <3>1
  <2>3. ASSUME NEW i \in Nat, i >= 1, NEW x, OlderFrom(x, wire, i + 1)
        PROVE  OlderFrom(x, wire', i)
    BY <2>1, <2>3, OlderTail
  <2>4. ASSUME NEW i \in 1..Len(wire'), wire'[i].kind = "event"
        PROVE  /\ wire'[i].what \in Stamped /\ Issued(wire'[i].what, stream)
               /\ OlderFrom(wire'[i].what, wire', i + 1)
               /\ \A s \in Subs : After(wire'[i].what, cursor[s])
    <3>1. i + 1 \in 1..Len(wire) /\ wire'[i] = wire[i + 1]
      BY <2>1, <2>2
    <3>2. /\ Issued(wire'[i].what, stream) /\ OlderFrom(wire'[i].what, wire, (i + 1) + 1)
          /\ \A s \in Subs : After(wire'[i].what, cursor[s])
      BY <2>4, <3>1 DEF WatchInv, InOrder, WireOrder
    <3>3. wire'[i].what \in Stamped
      BY <1>1, <2>4, <3>1, WireTyped
    <3>4. OlderFrom(wire'[i].what, wire', i + 1)
      BY <2>2, <2>3, <3>2
    <3>5. QED
      BY <3>2, <3>3, <3>4
  <2>5. ASSUME NEW i \in 1..Len(wire'), wire'[i].kind = "since"
        PROVE  /\ wire'[i].sub \in Subs /\ phase[wire'[i].sub] = "backfilling"
               /\ asked[wire'[i].sub] # "since"
    <3>1. i + 1 \in 1..Len(wire) /\ wire'[i] = wire[i + 1]
      BY <2>1, <2>2
    <3>2. QED
      BY <1>1, <2>5, <3>1, WireTyped DEF Tokens, AnswerInPhase
  <2>6. ASSUME NEW i \in 1..Len(wire'), wire'[i].kind = "since",
               NEW k \in 1..Len(wire'[i].what.events)
        PROVE  /\ Issued(wire'[i].what.events[k], stream)
               /\ OlderFrom(wire'[i].what.events[k], wire', i)
               /\ After(wire'[i].what.events[k], cursor[wire'[i].sub])
    <3>1. i + 1 \in 1..Len(wire) /\ wire'[i] = wire[i + 1]
      BY <2>1, <2>2
    <3>2. /\ Issued(wire'[i].what.events[k], stream)
          /\ OlderFrom(wire'[i].what.events[k], wire, i + 1)
          /\ After(wire'[i].what.events[k], cursor[wire'[i].sub])
      BY <2>6, <3>1 DEF WatchInv, InOrder, AnswerOrder
    <3>3. OlderFrom(wire'[i].what.events[k], wire', i)
      BY <2>2, <2>3, <3>2
    <3>4. QED
      BY <3>2, <3>3
  <2>7. ASSUME NEW x, OlderFrom(x, wire, 1)
        PROVE  OlderFrom(x, wire', 1)
    <3>1. OlderFrom(x, wire, 1 + 1)
      BY <2>1, <2>7, OlderLater
    <3>2. 1 \in Nat /\ 1 >= 1
      OBVIOUS
    <3>3. QED
      BY <2>3, <3>1, <3>2
  <2>8. QED
    BY <2>4, <2>5, <2>6, <2>7
<1>4. QED
  BY <1>2, <1>3

\* Handlers that move on to what they have heard, and hold back nothing then.
LEMMA OrderHeard ==
  ASSUME WatchInv, Received \/ UNCHANGED wire, UNCHANGED stream,
         \A s \in Subs :
           /\ ordered'[s]
           /\ cursor'[s] # cursor[s] =>
                /\ Heard(s) /\ pending'[s] = << >>
                /\ \A i \in 1..Len(wire') : wire'[i].kind = "since" => wire'[i].sub # s
           /\ \A k \in 1..Len(pending'[s]) :
                /\ Issued(pending'[s][k], stream) /\ OlderFrom(pending'[s][k], wire', 1)
                /\ After(pending'[s][k], cursor[s])
  PROVE  InOrder'
<1>0. Typed
  BY DEF WatchInv
<1>1. WireOrder'
  <2> SUFFICES ASSUME NEW i \in 1..Len(wire'), wire'[i].kind = "event"
               PROVE  /\ Issued(wire'[i].what, stream)
                      /\ OlderFrom(wire'[i].what, wire', i + 1)
                      /\ \A s \in Subs : After(wire'[i].what, cursor'[s])
    BY DEF WireOrder
  <2>1. /\ wire'[i].what \in Stamped /\ Issued(wire'[i].what, stream)
        /\ OlderFrom(wire'[i].what, wire', i + 1)
        /\ \A s \in Subs : After(wire'[i].what, cursor[s])
    BY WireShrinks
  <2>2. ASSUME NEW s \in Subs, cursor'[s] # cursor[s]
        PROVE  After(wire'[i].what, cursor'[s])
    <3>1. PICK x \in Stamped : Issued(x, stream) /\ OlderFrom(x, wire', 1) /\ cursor'[s] = At(x)
      BY <2>2 DEF Heard
    <3>2. x.seq < wire'[i].what.seq /\ wire'[i].what.epoch = x.epoch
      BY <2>1, <3>1 DEF OlderFrom, Issued
    <3>3. QED
      BY <3>1, <3>2, MovedOn
  <2>3. QED
    BY <2>1, <2>2
<1>2. AnswerOrder'
  <2> SUFFICES ASSUME NEW i \in 1..Len(wire'), wire'[i].kind = "since",
                      NEW k \in 1..Len(wire'[i].what.events)
               PROVE  /\ Issued(wire'[i].what.events[k], stream)
                      /\ OlderFrom(wire'[i].what.events[k], wire', i)
                      /\ After(wire'[i].what.events[k], cursor'[wire'[i].sub])
    BY DEF AnswerOrder
  <2>1. /\ wire'[i].sub \in Subs
        /\ Issued(wire'[i].what.events[k], stream)
        /\ OlderFrom(wire'[i].what.events[k], wire', i)
        /\ After(wire'[i].what.events[k], cursor[wire'[i].sub])
    BY WireShrinks
  <2>2. cursor'[wire'[i].sub] = cursor[wire'[i].sub]
    BY <2>1
  <2>3. QED
    BY <2>1, <2>2
<1>3. PendingOrder'
  <2> SUFFICES ASSUME NEW s \in Subs, NEW k \in 1..Len(pending'[s])
               PROVE  /\ Issued(pending'[s][k], stream)
                      /\ OlderFrom(pending'[s][k], wire', 1)
                      /\ After(pending'[s][k], cursor'[s])
    BY DEF PendingOrder
  <2>1. cursor'[s] = cursor[s]
    OBVIOUS
  <2>2. QED
    BY <2>1
<1>4. CursorOrder'
  <2> SUFFICES ASSUME NEW s \in Subs
               PROVE  /\ cursor'[s].epoch <= stream.epoch
                      /\ cursor'[s].epoch = stream.epoch => cursor'[s].seq <= stream.latestSeq
    BY DEF CursorOrder
  <2>1. CASE cursor'[s] = cursor[s]
    BY <2>1 DEF WatchInv, InOrder, CursorOrder
  <2>2. CASE cursor'[s] # cursor[s]
    <3>1. PICK x \in Stamped : Issued(x, stream) /\ cursor'[s] = At(x)
      BY <2>2 DEF Heard
    <3>2. QED
      BY <1>0, <3>1, Numbers DEF Issued, At
  <2>3. QED
    BY <2>1, <2>2
<1>5. DeliveredInOrder'
  BY DEF DeliveredInOrder
<1>6. QED
  BY <1>1, <1>2, <1>3, <1>4, <1>5 DEF InOrder

LEMMA OrderReceiveEvent ==
  ASSUME WatchInv, ReceiveEvent
  PROVE  InOrder'
<1> DEFINE x == wire[1].what
           state == [s \in Subs |-> IF Live(s) THEN Deliver(Handler(s), x) ELSE Handler(s)]
<1>1. /\ Typed /\ Tokens /\ Received /\ UNCHANGED <<stream, phase>> /\ wire[1].kind = "event"
         /\ Become(state)
      /\ pending' = [s \in Subs |-> IF phase[s] = "off" \/ Live(s) THEN pending[s]
         ELSE Append(pending[s], x)]
  BY DEF ReceiveEvent, WatchInv, server
<1>2. 1 \in 1..Len(wire) /\ x \in Stamped
  BY <1>1, ReceivedTyped, WireTyped
<1>3. Issued(x, stream) /\ OlderFrom(x, wire, 1 + 1) /\ \A s \in Subs : After(x, cursor[s])
  BY <1>1, <1>2 DEF WatchInv, InOrder, WireOrder
<1>4. OlderFrom(x, wire', 1)
  BY <1>1, <1>3, OlderTail DEF Received, Typed
<1>5. \A s \in Subs : cursor'[s] = state[s].cursor /\ ordered'[s] = state[s].ordered
  BY <1>1 DEF Become
<1> HIDE DEF x
<1> SUFFICES ASSUME NEW s \in Subs
             PROVE  /\ ordered'[s]
                    /\ cursor'[s] # cursor[s] =>
                         /\ Heard(s) /\ pending'[s] = << >>
                         /\ \A i \in 1..Len(wire') : wire'[i].kind = "since" => wire'[i].sub # s
                    /\ \A k \in 1..Len(pending'[s]) :
                         /\ Issued(pending'[s][k], stream) /\ OlderFrom(pending'[s][k], wire', 1)
                         /\ After(pending'[s][k], cursor[s])
  BY <1>1, OrderHeard
<1>6. Handler(s) \in HandlerStates /\ Handler(s).ordered /\ Handler(s).cursor = cursor[s]
  BY <1>1, HandlerTyped DEF Handler, WatchInv, InOrder, DeliveredInOrder
<1>7. pending[s] \in Seq(Stamped)
  BY <1>1 DEF Typed
<1>8. CASE Live(s)
  <2>1. cursor'[s] = Deliver(Handler(s), x).cursor /\ ordered'[s] = Deliver(Handler(s), x).ordered
    BY <1>5, <1>8
  <2>2. ordered'[s] /\ (cursor'[s] = cursor[s] \/ cursor'[s] = At(x))
    BY <1>2, <1>3, <1>6, <2>1, DeliverKeeps
  <2>3. pending'[s] = << >>
    BY <1>1, <1>8 DEF Tokens, AskedInPhase, Live
  <2>4. cursor'[s] # cursor[s] => Heard(s)
    BY <1>2, <1>3, <1>4, <2>2 DEF Heard
  <2>5. \A i \in 1..Len(wire') : wire'[i].kind = "since" => wire'[i].sub # s
    BY <1>1, <1>8, WireShrinks DEF Live
  <2>6. QED
    BY <2>2, <2>3, <2>4, <2>5
<1>9. CASE ~Live(s)
  <2>1. cursor'[s] = cursor[s] /\ ordered'[s]
    BY <1>5, <1>6, <1>9
  <2>2. ASSUME NEW k \in 1..Len(pending'[s])
        PROVE  /\ Issued(pending'[s][k], stream) /\ OlderFrom(pending'[s][k], wire', 1)
               /\ After(pending'[s][k], cursor[s])
    <3>1. CASE k \in 1..Len(pending[s]) /\ pending'[s][k] = pending[s][k]
      <4>1. Issued(pending[s][k], stream) /\ OlderFrom(pending[s][k], wire, 1)
              /\ After(pending[s][k], cursor[s])
        BY <3>1 DEF WatchInv, InOrder, PendingOrder
      <4>2. QED
        BY <1>1, <3>1, <4>1, WireShrinks
    <3>2. CASE pending'[s][k] = x
      BY <1>3, <1>4, <3>2
    <3>3. pending'[s] = pending[s] \/ pending'[s] = Append(pending[s], x)
      BY <1>1
    <3>4. QED
      BY <1>7, <3>1, <3>2, <3>3
  <2>3. QED
    BY <2>1, <2>2
<1>10. QED
  BY <1>8, <1>9

\* An answer that delivers nothing.
LEMMA OrderPassed ==
  ASSUME WatchInv, Received \/ UNCHANGED wire, UNCHANGED <<stream, pending, cursor, ordered>>
  PROVE  InOrder'
<1>1. \A s \in Subs : \A k \in 1..Len(pending[s]) :
        Issued(pending[s][k], stream) /\ OlderFrom(pending[s][k], wire', 1)
          /\ After(pending[s][k], cursor[s])
  BY WireShrinks DEF WatchInv, InOrder, PendingOrder
<1>2. \A s \in Subs : ordered[s]
  BY DEF WatchInv, InOrder, DeliveredInOrder
<1>3. QED
  BY <1>1, <1>2, OrderHeard

\* The missed events, then those held back: each comes after the cursor.
LEMMA OrderReceiveMissed ==
  ASSUME WatchInv, NEW s \in Subs, ReceiveMissed(s)
  PROVE  InOrder'
<1> DEFINE a == wire[1].what.events
           events == a \o pending[s]
           c == DeliverAll(Handler(s), events)
           state == [w \in Subs |-> IF w = s THEN c ELSE Handler(w)]
<1>1. /\ Typed /\ Tokens /\ Received /\ wire[1].kind = "since" /\ wire[1].sub = s
         /\ UNCHANGED stream
      /\ pending' = [pending EXCEPT ![s] = << >>] /\ Become(state)
  BY DEF ReceiveMissed, WatchInv, server
<1>2. 1 \in 1..Len(wire) /\ a \in Seq(Stamped)
  BY <1>1, ReceivedTyped, WireTyped DEF Answers
<1>3. pending \in [Subs -> Seq(Stamped)] /\ stream.epoch \in Int
  BY <1>1, Numbers DEF Typed
<1>4. \A w \in Subs : /\ cursor'[w] = state[w].cursor /\ ordered'[w] = state[w].ordered
                      /\ Handler(w).cursor = cursor[w] /\ Handler(w).ordered
  BY <1>1 DEF Become, Handler, WatchInv, InOrder, DeliveredInOrder
<1>5. \A w \in Subs : w # s => cursor'[w] = cursor[w] /\ ordered'[w] /\ pending'[w] = pending[w]
  BY <1>1, <1>3, <1>4
<1>6. cursor'[s] = c.cursor /\ ordered'[s] = c.ordered /\ pending'[s] = << >>
  BY <1>1, <1>3, <1>4
<1>7. \A k \in 1..Len(a) : Issued(a[k], stream) /\ OlderFrom(a[k], wire', 1)
        /\ After(a[k], cursor[s])
  <2> SUFFICES ASSUME NEW k \in 1..Len(a)
               PROVE  Issued(a[k], stream) /\ OlderFrom(a[k], wire', 1) /\ After(a[k], cursor[s])
    OBVIOUS
  <2>1. Issued(a[k], stream) /\ OlderFrom(a[k], wire, 1) /\ After(a[k], cursor[s])
    BY <1>1, <1>2 DEF WatchInv, InOrder, AnswerOrder
  <2>2. QED
    BY <1>1, <2>1, WireShrinks
<1>8. \A k \in 1..Len(pending[s]) :
        Issued(pending[s][k], stream) /\ OlderFrom(pending[s][k], wire', 1)
          /\ After(pending[s][k], cursor[s])
  <2> SUFFICES ASSUME NEW k \in 1..Len(pending[s])
               PROVE  /\ Issued(pending[s][k], stream) /\ OlderFrom(pending[s][k], wire', 1)
                      /\ After(pending[s][k], cursor[s])
    OBVIOUS
  <2>1. Issued(pending[s][k], stream) /\ OlderFrom(pending[s][k], wire, 1)
          /\ After(pending[s][k], cursor[s])
    BY DEF WatchInv, InOrder, PendingOrder
  <2>2. QED
    BY <1>1, <2>1, WireShrinks
<1> HIDE DEF a
<1>9. /\ events \in Seq(Stamped) /\ Len(events) = Len(a) + Len(pending[s])
      /\ \A i \in 1..Len(events) : events[i] = IF i <= Len(a) THEN a[i] ELSE pending[s][i - Len(a)]
  BY <1>2, <1>3
<1> HIDE DEF events
<1>10. \A i \in 1..Len(events) :
         events[i] \in Stamped /\ Issued(events[i], stream) /\ OlderFrom(events[i], wire', 1)
           /\ After(events[i], cursor[s])
  <2> SUFFICES ASSUME NEW i \in 1..Len(events)
               PROVE  /\ events[i] \in Stamped /\ Issued(events[i], stream)
                      /\ OlderFrom(events[i], wire', 1) /\ After(events[i], cursor[s])
    OBVIOUS
  <2>1. Len(a) \in Nat /\ Len(pending[s]) \in Nat /\ events[i] \in Stamped
    BY <1>2, <1>3, <1>9
  <2>2. CASE i <= Len(a)
    <3>1. i \in 1..Len(a) /\ events[i] = a[i]
      BY <1>9, <2>1, <2>2
    <3>2. QED
      BY <1>7, <2>1, <3>1
  <2>3. CASE ~(i <= Len(a))
    <3>1. i - Len(a) \in 1..Len(pending[s]) /\ events[i] = pending[s][i - Len(a)]
      BY <1>9, <2>1, <2>3
    <3>2. QED
      BY <1>8, <2>1, <3>1
  <2>4. QED
    BY <2>2, <2>3
<1>11. c.ordered /\ (c.cursor = cursor[s] \/ \E i \in 1..Len(events) : c.cursor = At(events[i]))
  <2>1. Handler(s) \in HandlerStates /\ Handler(s).ordered /\ Handler(s).cursor = cursor[s]
    BY <1>1, <1>4, HandlerTyped
  <2>2. \A i \in 1..Len(events) : events[i].epoch = stream.epoch
          /\ After(events[i], Handler(s).cursor)
    BY <1>10, <2>1 DEF Issued
  <2>3. QED
    BY <1>3, <1>9, <2>1, <2>2, DeliverAllOrdered
<1> HIDE DEF c
<1>12. cursor'[s] # cursor[s] => Heard(s)
  BY <1>6, <1>10, <1>11 DEF Heard
<1>13. \A i \in 1..Len(wire') : wire'[i].kind = "since" => wire'[i].sub # s
  BY <1>1, TokensTail
<1>14. ASSUME NEW w \in Subs, w # s, NEW k \in 1..Len(pending[w])
       PROVE  /\ Issued(pending[w][k], stream) /\ OlderFrom(pending[w][k], wire', 1)
              /\ After(pending[w][k], cursor[w])
  <2>1. Issued(pending[w][k], stream) /\ OlderFrom(pending[w][k], wire, 1)
          /\ After(pending[w][k], cursor[w])
    BY DEF WatchInv, InOrder, PendingOrder
  <2>2. QED
    BY <1>1, <2>1, WireShrinks
<1>15. ASSUME NEW w \in Subs
       PROVE  /\ ordered'[w]
              /\ cursor'[w] # cursor[w] =>
                   /\ Heard(w) /\ pending'[w] = << >>
                   /\ \A i \in 1..Len(wire') : wire'[i].kind = "since" => wire'[i].sub # w
              /\ \A k \in 1..Len(pending'[w]) :
                   /\ Issued(pending'[w][k], stream) /\ OlderFrom(pending'[w][k], wire', 1)
                   /\ After(pending'[w][k], cursor[w])
  <2>1. CASE w = s
    <3>1. ordered'[w] /\ pending'[w] = << >>
      BY <1>6, <1>11, <2>1
    <3>2. cursor'[w] # cursor[w] => Heard(w)
      BY <1>12, <2>1
    <3>3. QED
      BY <1>13, <2>1, <3>1, <3>2
  <2>2. CASE w # s
    BY <1>5, <1>14, <2>2
  <2>3. QED
    BY <2>1, <2>2
<1>16. QED
  BY <1>1, <1>15, OrderHeard

\* What a handler hears of a backfill that failed.
LEMMA GivenUpOrdered ==
  ASSUME WatchInv, NEW s \in Subs
  PROVE  /\ GivenUp(s).ordered
         /\ \/ GivenUp(s).cursor = cursor[s]
            \/ /\ phase[s] = "backfilling"
               /\ \E k \in 1..Len(pending[s]) : GivenUp(s).cursor = At(pending[s][k])
<1>1. Handler(s) \in HandlerStates /\ Handler(s).ordered /\ Handler(s).cursor = cursor[s]
  BY HandlerTyped DEF Handler, WatchInv, InOrder, DeliveredInOrder
<1>2. pending[s] \in Seq(Stamped) /\ stream.epoch \in Int
  BY Numbers DEF WatchInv, Typed
<1>3. \A i \in 1..Len(pending[s]) : pending[s][i].epoch = stream.epoch
        /\ After(pending[s][i], Handler(s).cursor)
  BY <1>1 DEF WatchInv, InOrder, PendingOrder, Issued
<1>4. CASE phase[s] = "backfilling"
  <2>1. GivenUp(s) = DeliverAll(Handler(s), pending[s])
    BY <1>4 DEF GivenUp
  <2>2. QED
    BY <1>1, <1>2, <1>3, <1>4, <2>1, DeliverAllOrdered
<1>5. CASE phase[s] # "backfilling"
  BY <1>1, <1>5 DEF GivenUp
<1>6. QED
  BY <1>4, <1>5

LEMMA OrderFails ==
  ASSUME WatchInv, NEW s \in Subs, BackfillFails(s)
  PROVE  InOrder'
<1> DEFINE state == [w \in Subs |-> IF w = s THEN GivenUp(w) ELSE Handler(w)]
<1>1. /\ Typed /\ Tokens /\ UNCHANGED <<wire, stream>> /\ asked[s] = "since"
         /\ pending \in [Subs -> Seq(Stamped)]
      /\ pending' = [pending EXCEPT ![s] = << >>] /\ Become(state)
  BY DEF BackfillFails, WatchInv, server, Typed
<1>2. \A w \in Subs : /\ cursor'[w] = state[w].cursor /\ ordered'[w] = state[w].ordered
                      /\ Handler(w).cursor = cursor[w] /\ Handler(w).ordered
  BY <1>1 DEF Become, Handler, WatchInv, InOrder, DeliveredInOrder
<1>3. \A i \in 1..Len(wire') : wire'[i].kind = "since" => wire'[i].sub # s
  BY <1>1, WireShrinks
<1>4. ASSUME NEW w \in Subs, NEW k \in 1..Len(pending[w])
      PROVE  /\ Issued(pending[w][k], stream) /\ OlderFrom(pending[w][k], wire', 1)
             /\ After(pending[w][k], cursor[w])
  BY <1>1 DEF WatchInv, InOrder, PendingOrder
<1>5. \A w \in Subs : \A k \in 1..Len(pending[w]) : pending[w][k] \in Stamped
  BY <1>1
<1>6. ASSUME NEW w \in Subs
      PROVE  /\ ordered'[w]
             /\ cursor'[w] # cursor[w] =>
                  /\ Heard(w) /\ pending'[w] = << >>
                  /\ \A i \in 1..Len(wire') : wire'[i].kind = "since" => wire'[i].sub # w
             /\ \A k \in 1..Len(pending'[w]) :
                  /\ Issued(pending'[w][k], stream) /\ OlderFrom(pending'[w][k], wire', 1)
                  /\ After(pending'[w][k], cursor[w])
  <2>1. CASE w = s
    <3>1. cursor'[s] = GivenUp(s).cursor /\ ordered'[s] = GivenUp(s).ordered /\ pending'[s] = << >>
      BY <1>1, <1>2
    <3>2. /\ GivenUp(s).ordered
          /\ \/ GivenUp(s).cursor = cursor[s]
             \/ \E k \in 1..Len(pending[s]) : GivenUp(s).cursor = At(pending[s][k])
      BY GivenUpOrdered
    <3>3. cursor'[s] # cursor[s] => Heard(s)
      BY <1>4, <1>5, <3>1, <3>2 DEF Heard
    <3>4. QED
      BY <1>3, <2>1, <3>1, <3>2, <3>3
  <2>2. CASE w # s
    <3>1. cursor'[w] = cursor[w] /\ ordered'[w] /\ pending'[w] = pending[w]
      BY <1>1, <1>2, <2>2
    <3>2. QED
      BY <1>4, <3>1
  <2>3. QED
    BY <2>1, <2>2
<1>7. QED
  BY <1>1, <1>6, OrderHeard

\* A lost connection leaves nothing on the wire and nothing held back; a new
\* process stamps with a new epoch.
LEMMA OrderLost ==
  ASSUME WatchInv, Disconnect \/ Restart
  PROVE  InOrder'
<1> DEFINE state == [s \in Subs |-> GivenUp(s)]
<1>1. /\ wire' = << >> /\ \A s \in Subs : pending'[s] = << >>
      /\ Become(state)
  BY DEF Disconnect, Restart, ConnectionLost
<1>2. Typed
  BY DEF WatchInv
<1>3. /\ stream.epoch \in Int /\ stream'.epoch \in Int /\ stream'.epoch >= stream.epoch
      /\ stream'.epoch = stream.epoch => stream' = stream
  <2>1. stream.epoch \in Int
    BY <1>2, Numbers
  <2>2. stream' = stream \/ stream'.epoch = stream.epoch + 1
    BY DEF Disconnect, Restart, Fresh, server
  <2>3. QED
    BY <2>1, <2>2
<1>4. \A s \in Subs : cursor'[s] = GivenUp(s).cursor /\ ordered'[s] = GivenUp(s).ordered
  BY <1>1 DEF Become
<1>5. WireOrder' /\ AnswerOrder' /\ PendingOrder'
  BY <1>1 DEF WireOrder, AnswerOrder, PendingOrder
<1>6. ASSUME NEW s \in Subs
      PROVE  /\ ordered'[s] /\ cursor'[s].epoch <= stream.epoch
             /\ cursor'[s].epoch = stream.epoch => cursor'[s].seq <= stream.latestSeq
  <2>1. /\ GivenUp(s).ordered
        /\ \/ GivenUp(s).cursor = cursor[s]
           \/ \E k \in 1..Len(pending[s]) : GivenUp(s).cursor = At(pending[s][k])
    BY GivenUpOrdered
  <2>2. ordered'[s]
    BY <1>4, <2>1
  <2>3. CASE cursor'[s] = cursor[s]
    BY <2>2, <2>3 DEF WatchInv, InOrder, CursorOrder
  <2>4. ASSUME NEW k \in 1..Len(pending[s]), cursor'[s] = At(pending[s][k])
        PROVE  /\ cursor'[s].epoch <= stream.epoch
               /\ cursor'[s].epoch = stream.epoch => cursor'[s].seq <= stream.latestSeq
    <3>1. Issued(pending[s][k], stream)
      BY DEF WatchInv, InOrder, PendingOrder
    <3>2. QED
      BY <1>2, <2>4, <3>1, Numbers DEF Issued, At
  <2>5. QED
    BY <1>4, <2>1, <2>2, <2>3, <2>4
<1>7. \A s \in Subs : cursor'[s].epoch \in Int
  <2>1. cursor' \in [Subs -> Positions]
    BY TypedStep DEF WatchInv, Next, Typed
  <2>2. QED
    BY <2>1, PositionNumbers
<1>8. CursorOrder'
  <2> SUFFICES ASSUME NEW s \in Subs
               PROVE  /\ cursor'[s].epoch <= stream'.epoch
                      /\ cursor'[s].epoch = stream'.epoch => cursor'[s].seq <= stream'.latestSeq
    BY DEF CursorOrder
  <2>1. /\ cursor'[s].epoch <= stream.epoch
        /\ cursor'[s].epoch = stream.epoch => cursor'[s].seq <= stream.latestSeq
    BY <1>6
  <2>2. CASE stream'.epoch = stream.epoch
    <3>1. stream' = stream
      BY <1>3, <2>2
    <3>2. QED
      BY <2>1, <3>1
  <2>3. CASE stream'.epoch > stream.epoch
    <3>1. cursor'[s].epoch \in Int
      BY <1>7
    <3>2. QED
      BY <1>3, <2>1, <2>3, <3>1
  <2>4. QED
    BY <1>3, <2>2, <2>3
<1>9. DeliveredInOrder'
  BY <1>6 DEF DeliveredInOrder
<1>10. QED
  BY <1>5, <1>8, <1>9 DEF InOrder

LEMMA OrderStep ==
  ASSUME WatchInv, [Next]_vars
  PROVE  InOrder'
<1>0. InOrder
  BY DEF WatchInv
<1>1. CASE \E n \in Nodes, content \in 0..2 : Write(n, content)
  BY <1>0, <1>1, OrderKept DEF Write, socket, client, handler
<1>2. CASE FileChanged
  BY <1>0, <1>2, OrderKept DEF FileChanged, socket, client, handler
<1>3. CASE \E p \in Pollers : Poll(p) \/ PollerReads(p)
  BY <1>0, <1>3, OrderKept DEF Poll, PollerReads, server, socket, client, handler
<1>4. ASSUME NEW s \in Subs, Subscribe(s) \/ Unsubscribe(s) \/ AskQuery(s)
      PROVE  InOrder'
  BY <1>0, <1>4, OrderKept DEF Subscribe, Unsubscribe, AskQuery, server, client, handler
<1>5. ASSUME NEW s \in Subs, Receive(s)
      PROVE  InOrder'
  <2>1. CASE ReceiveSubscribed(s)
    BY <2>1, OrderPassed DEF ReceiveSubscribed, server, handler
  <2>2. CASE ReceiveGraph(s)
    BY <2>2, OrderPassed DEF ReceiveGraph, server
  <2>3. QED
    BY <1>5, <2>1, <2>2, OrderReceiveMissed DEF Receive
<1>6. CASE UNCHANGED vars
  BY <1>0, <1>6, OrderKept DEF vars, server, socket, client, handler
<1>7. ASSUME NEW s \in Subs,
             Serve(s) \/ Receive(s) \/ Subscribe(s) \/ Unsubscribe(s) \/ AskQuery(s)
               \/ BackfillFails(s)
      PROVE  InOrder'
  BY <1>4, <1>5, <1>7, OrderServe, OrderFails
<1>8. QED
  BY <1>1, <1>2, <1>3, <1>6, <1>7, OrderDiff, OrderLost, OrderReceiveEvent DEF Next

-----------------------------------------------------------------------------
(* The theorems.                                                           *)

LEMMA InitiallyWatched == Init => WatchInv
<1>1. Init => Tokens
  BY DEF Init, Tokens, AskedInPhase, AnswerInPhase, OneAnswer
<1>2. QED
  BY <1>1, TypedInit, OrderInit DEF WatchInv

LEMMA WatchInvariant == Spec => []WatchInv
<1>1. WatchInv /\ [Next]_vars => WatchInv'
  BY TypedStep, TokensStep, OrderStep DEF WatchInv
<1>2. QED
  BY <1>1, InitiallyWatched, PTL DEF Spec

\* The state of the daemon, the connection and the handlers keeps its types, and
\* a subscription is only under way while the client is connected.
THEOREM WatchTypesKept == Spec => []TypeOK
<1>1. WatchInv => TypeOK
  BY DEF WatchInv, Typed
<1>2. QED
  BY <1>1, WatchInvariant, PTL

\* No handler hears an event twice, or after a later one: whatever the daemon
\* buffers, pushes and answers, and however connections, backfills and daemons
\* are lost (deliver() and subscribe() of the client).
THEOREM EventsInOrder == Spec => []DeliveredInOrder
<1>1. WatchInv => DeliveredInOrder
  BY DEF WatchInv, InOrder
<1>2. QED
  BY <1>1, WatchInvariant, PTL

-----------------------------------------------------------------------------
(* What views are worth, as long as the diff sees every change: none is     *)
(* undone before it, and no query is cut short.                            *)

Seen == ~Reverts /\ Window >= Cardinality(Nodes)

\* The sequence number of the oldest event in the buffer of st; what event q says.
First(st) == st.latestSeq - Len(st.buffer) + 1

Said(st, q) == st.buffer[q - First(st) + 1].event

Numbered(st) == \A i \in 1..Len(st.buffer) : st.buffer[i].seq = First(st) + i - 1

\* Nothing was said of n after the c-th event.
Unsaid(st, c, n) == \A q \in (c + 1)..st.latestSeq : Said(st, q).node # n

\* The last event on a node says what the diff knows of it, ca.
LastSaid(st, ca) ==
  \A q \in First(st)..st.latestSeq :
    Unsaid(st, q, Said(st, q).node) => Said(st, q).content = ca[Said(st, q).node]

\* Until someone subscribes nothing is diffed, and then no change goes unnoticed.
Watching ==
  /\ ~watched => ~due /\ stream.buffer = << >>
  /\ watched /\ graph # cache => changed \/ due

StreamInv == recent = SetToSeq(Nodes) /\ Numbered(stream) /\ LastSaid(stream, cache) /\ Watching

\* What a view says of n is right, as far as the diff, which knows ca, knows or
\* will find out from the graph gr.
Right(content, n, ca, gr) == content = ca[n] \/ gr[n] # ca[n]

\* The view v is right about the nodes ns, but for what events.since has for cursor c.
AsOf(c, v, ns, st, ca, gr) ==
  c.epoch = st.epoch /\ c.seq + 1 >= First(st)
  => \A n \in ns : Unsaid(st, c.seq, n) => Right(v[n], n, ca, gr)

PollRecords == [cursor : Positions, stale : BOOLEAN, view : Contents, informed : BOOLEAN]

\* A poller's record r when the graph is watched (w) or not.
Polls(r, w, st, ca, gr) ==
  /\ r.cursor.epoch <= st.epoch
  /\ r.cursor.epoch = st.epoch => r.cursor.seq <= st.latestSeq
  /\ r.informed => /\ r.cursor.epoch = st.epoch => w
                   /\ r.stale \/ AsOf(r.cursor, r.view, Nodes, st, ca, gr)

PollInv ==
  /\ poll \in [Pollers -> PollRecords]
  /\ \A p \in Pollers : Polls(poll[p], watched, stream, cache, graph)

-----------------------------------------------------------------------------
(* The numbers of the events.                                              *)

LEMMA FirstNumber ==
  ASSUME NEW st \in Streams
  PROVE  /\ st.latestSeq \in Nat /\ Len(st.buffer) \in Nat /\ First(st) \in Int
         /\ st.buffer \in Seq(Stamped) /\ First(st) + Len(st.buffer) = st.latestSeq + 1
         /\ \A q \in First(st)..st.latestSeq :
              /\ q - First(st) + 1 \in 1..Len(st.buffer)
              /\ st.buffer[q - First(st) + 1] \in Stamped /\ Said(st, q) \in Event
<1>1. st.latestSeq \in Nat /\ st.buffer \in Seq(Stamped)
  BY DEF Streams
<1>2. Len(st.buffer) \in Nat /\ \A i \in 1..Len(st.buffer) : st.buffer[i] \in Stamped
  BY <1>1
<1>3. First(st) = st.latestSeq - Len(st.buffer) + 1
  BY DEF First
<1>4. \A q \in First(st)..st.latestSeq : q - First(st) + 1 \in 1..Len(st.buffer)
  BY <1>1, <1>2, <1>3
<1>5. \A x \in Stamped : x.event \in Event
  BY DEF Stamped
<1>6. \A q \in First(st)..st.latestSeq : Said(st, q) \in Event
  BY <1>2, <1>4, <1>5 DEF Said
<1>7. QED
  BY <1>1, <1>2, <1>3, <1>4, <1>6

LEMMA PushSays ==
  ASSUME NEW s \in Streams, NEW e \in Event, Numbered(s), NEW t, t = Push(s, e)
  PROVE  /\ Numbered(t) /\ First(t) \in Int /\ First(t) >= First(s)
         /\ \A q \in First(t)..t.latestSeq :
              \/ q \in First(s)..s.latestSeq /\ Said(t, q) = Said(s, q)
              \/ q = s.latestSeq + 1 /\ Said(t, q) = e
<1> DEFINE L == s.latestSeq
           k == Len(s.buffer)
           F == First(s)
           x == [seq |-> L + 1, epoch |-> s.epoch, event |-> e]
           b == Grown(s, e)
<1>1. L \in Nat /\ k \in Nat /\ s.buffer \in Seq(Stamped) /\ F \in Int /\ F + k = L + 1
  BY FirstNumber
<1>2. x \in Stamped /\ x.seq = L + 1 /\ x.event = e
  BY <1>1 DEF Stamped, Streams
<1>3. b = Append(s.buffer, x)
  BY DEF Grown
<1> HIDE DEF x, b
<1>4. b \in Seq(Stamped) /\ Len(b) = k + 1 /\ b[k + 1] = x /\ \A i \in 1..k : b[i] = s.buffer[i]
  BY <1>1, <1>2, <1>3
<1>5. t \in Streams /\ t.latestSeq = L + 1 /\ t.buffer = IF Len(b) > BufferSize THEN Tail(b) ELSE b
  BY PushKeeps DEF b
<1>6. \A i \in 1..k : b[i].seq = F + i - 1
  BY <1>4 DEF Numbered
<1>7. ASSUME NEW q \in F..L PROVE q - F + 1 \in 1..k /\ Said(s, q) = b[q - F + 1].event
  <2>1. L \in Nat /\ k \in Nat /\ F \in Int /\ F + k = L + 1
    BY <1>1
  <2>2. Said(s, q) = s.buffer[q - F + 1].event
    BY DEF Said
  <2> HIDE DEF L, k, F
  <2>3. q - F + 1 \in 1..k
    BY <2>1
  <2>4. QED
    BY <1>4, <2>2, <2>3
<1>8. b[k + 1].seq = F + k /\ b[k + 1].event = e
  BY <1>1, <1>2, <1>4
<1> HIDE DEF L, k, F
<1>0. L \in Nat /\ k \in Nat /\ F \in Int /\ F + k = L + 1
  BY <1>1
<1>9. \A i \in 1..(k + 1) : b[i].seq = F + i - 1
  BY <1>0, <1>6, <1>8
<1>10. \A q \in F..(L + 1) : \/ q \in F..L /\ Said(s, q) = b[q - F + 1].event
                             \/ q = L + 1 /\ b[q - F + 1].event = e
  BY <1>1, <1>7, <1>8
<1>11. CASE t.buffer = b
  <2>1. First(t) = F
    <3>1. t.latestSeq = L + 1 /\ Len(t.buffer) = k + 1
      BY <1>4, <1>5, <1>11
    <3>2. QED
      BY <1>0, <3>1 DEF First
  <2>2. Numbered(t)
    BY <1>4, <1>9, <1>11, <2>1 DEF Numbered
  <2>3. \A q : Said(t, q) = b[q - F + 1].event
    BY <1>11, <2>1 DEF Said
  <2>4. QED
    <3>1. t.latestSeq = L + 1 /\ F >= F
      BY <1>0, <1>5
    <3>2. QED
      BY <1>0, <1>10, <2>1, <2>2, <2>3, <3>1 DEF L, F
<1>12. CASE t.buffer = Tail(b)
  <2>1. Len(Tail(b)) = k /\ \A i \in 1..k : Tail(b)[i] = b[i + 1]
    BY <1>1, <1>4
  <2>2. First(t) = F + 1
    <3>1. t.latestSeq = L + 1 /\ Len(t.buffer) = k
      BY <1>5, <1>12, <2>1
    <3>2. QED
      BY <1>0, <3>1 DEF First
  <2>3. Numbered(t)
    <3> SUFFICES ASSUME NEW i \in 1..k PROVE Tail(b)[i].seq = (F + 1) + i - 1
      BY <1>12, <2>1, <2>2 DEF Numbered
    <3>1. i + 1 \in 1..(k + 1) /\ Tail(b)[i] = b[i + 1]
      BY <1>0, <2>1
    <3>2. b[i + 1].seq = F + (i + 1) - 1
      BY <1>9, <3>1
    <3>3. F + (i + 1) - 1 = (F + 1) + i - 1
      BY <1>0
    <3>4. QED
      BY <3>1, <3>2, <3>3
  <2>4. ASSUME NEW q \in (F + 1)..(L + 1)
        PROVE  q \in F..(L + 1) /\ Said(t, q) = b[q - F + 1].event
    <3>1. q - F \in 1..k /\ q - (F + 1) + 1 = q - F /\ (q - F) + 1 = q - F + 1 /\ q \in F..(L + 1)
      BY <1>0
    <3>2. Said(t, q) = Tail(b)[q - F].event
      BY <1>12, <2>2, <3>1 DEF Said
    <3>3. QED
      BY <2>1, <3>1, <3>2
  <2>5. QED
    <3>1. t.latestSeq = L + 1 /\ F + 1 \in Int /\ F + 1 >= F
      BY <1>0, <1>5
    <3>2. QED
      BY <1>10, <2>2, <2>3, <2>4, <3>1 DEF L, F
<1>13. QED
  BY <1>5, <1>11, <1>12

\* The events of a diff come after those that were there.
LEMMA PushAllSays ==
  ASSUME NEW s \in Streams, NEW ds \in Seq(Event), Numbered(s), NEW t, t = PushAll(s, ds)
  PROVE  /\ t \in Streams /\ t.epoch = s.epoch /\ t.latestSeq = s.latestSeq + Len(ds)
         /\ Numbered(t) /\ First(t) \in Int /\ First(t) >= First(s)
         /\ \A q \in First(t)..t.latestSeq :
              \/ q \in First(s)..s.latestSeq /\ Said(t, q) = Said(s, q)
              \/ q - s.latestSeq \in 1..Len(ds) /\ Said(t, q) = ds[q - s.latestSeq]
<1> DEFINE N == Len(ds)
           L == s.latestSeq
           Good(u, n) ==
             /\ u \in Streams /\ u.latestSeq = L + n
             /\ Numbered(u) /\ First(u) \in Int /\ First(u) >= First(s)
             /\ \A q \in First(u)..u.latestSeq :
                  \/ q \in First(s)..L /\ Said(u, q) = Said(s, q)
                  \/ q - L \in 1..n /\ Said(u, q) = ds[q - L]
           A == [n \in 0..N |-> {u \in Streams : Good(u, n)}]
<1>1. N \in Nat /\ L \in Nat /\ First(s) \in Int /\ \A n \in 1..N : ds[n] \in Event
  BY FirstNumber
<1>2. PICK r : Pushing(r, s, ds)
  BY PushAllSteps
<1>3. t = r[N] /\ r[0] = s /\ \A n \in 1..N : r[n] = Push(r[n - 1], ds[n])
  BY <1>2 DEF Pushing
<1>4. Good(s, 0)
  BY <1>1
<1>5. ASSUME NEW n \in 1..N, Good(r[n - 1], n - 1)
      PROVE  Good(r[n], n)
  <2> DEFINE u == r[n - 1]
             v == r[n]
  <2>1. /\ u \in Streams /\ u.latestSeq = L + (n - 1)
        /\ Numbered(u) /\ First(u) \in Int /\ First(u) >= First(s)
        /\ \A q \in First(u)..u.latestSeq :
             \/ q \in First(s)..L /\ Said(u, q) = Said(s, q)
             \/ q - L \in 1..(n - 1) /\ Said(u, q) = ds[q - L]
    BY <1>5
  <2>2. v = Push(u, ds[n]) /\ ds[n] \in Event /\ n \in Nat
    BY <1>1, <1>3
  <2> HIDE DEF u, v
  <2> DEFINE x == ds[n]
  <2> HIDE DEF x
  <2>3. /\ v \in Streams /\ v.latestSeq = u.latestSeq + 1
        /\ Numbered(v) /\ First(v) \in Int /\ First(v) >= First(u)
        /\ \A q \in First(v)..v.latestSeq :
             \/ q \in First(u)..u.latestSeq /\ Said(v, q) = Said(u, q)
             \/ q = u.latestSeq + 1 /\ Said(v, q) = ds[n]
    <3>1. v \in Streams /\ v.latestSeq = u.latestSeq + 1
      BY <2>1, <2>2, PushKeeps
    <3>2. u \in Streams /\ Numbered(u) /\ x \in Event /\ v = Push(u, x)
      BY <2>1, <2>2 DEF x
    <3>3. /\ Numbered(v) /\ First(v) \in Int /\ First(v) >= First(u)
          /\ \A q \in First(v)..v.latestSeq :
               \/ q \in First(u)..u.latestSeq /\ Said(v, q) = Said(u, q)
               \/ q = u.latestSeq + 1 /\ Said(v, q) = x
      BY <3>2, PushSays
    <3>4. QED
      BY <3>1, <3>3 DEF x
  <2>4. v.latestSeq = L + n /\ First(v) >= First(s)
    BY <1>1, <2>1, <2>2, <2>3
  <2>5. ASSUME NEW q \in First(v)..v.latestSeq
        PROVE  \/ q \in First(s)..L /\ Said(v, q) = Said(s, q)
               \/ q - L \in 1..n /\ Said(v, q) = ds[q - L]
    <3>1. CASE q \in First(u)..u.latestSeq /\ Said(v, q) = Said(u, q)
      <4>1. \/ q \in First(s)..L /\ Said(u, q) = Said(s, q)
            \/ q - L \in 1..(n - 1) /\ Said(u, q) = ds[q - L]
        BY <2>1, <3>1
      <4>2. 1..(n - 1) \subseteq 1..n
        BY <2>2
      <4>3. QED
        BY <3>1, <4>1, <4>2
    <3>2. CASE q = u.latestSeq + 1 /\ Said(v, q) = ds[n]
      <4>1. q - L = n
        BY <1>1, <2>1, <2>2, <3>2
      <4>2. QED
        BY <3>2, <4>1
    <3>3. QED
      BY <2>3, <3>1, <3>2
  <2>6. Good(v, n)
    BY <2>3, <2>4, <2>5
  <2>7. QED
    BY <2>6 DEF v
<1> HIDE DEF Good
<1>6. r[0] \in A[0]
  BY <1>1, <1>3, <1>4
<1>7. \A n \in 1..N : r[n - 1] \in A[n - 1] => r[n] \in A[n]
  <2> SUFFICES ASSUME NEW n \in 1..N, r[n - 1] \in A[n - 1] PROVE r[n] \in A[n]
    OBVIOUS
  <2>1. n \in 0..N /\ n - 1 \in 0..N
    BY <1>1
  <2>2. Good(r[n], n)
    BY <1>5, <2>1
  <2>3. QED
    BY <2>1, <2>2 DEF Good
<1>8. r[N] \in A[N]
  <2> HIDE DEF A
  <2>1. QED
    BY <1>1, <1>6, <1>7, IterationReaches
<1>9. Good(t, N)
  <2>1. N \in 0..N
    BY <1>1
  <2>2. QED
    BY <1>3, <1>8, <2>1
<1>10. t.epoch = s.epoch /\ t.latestSeq = s.latestSeq + Len(ds)
  BY PushAllKeeps
<1>11. QED
  BY <1>9, <1>10 DEF Good

\* events.since answers with all the events after the cursor, or says resync.
LEMMA SinceSays ==
  ASSUME NEW st \in Streams, NEW c \in Positions, Numbered(st),
         c.epoch = st.epoch => c.seq <= st.latestSeq, NEW a, a = Since(st, c)
  PROVE  /\ a.resync \in BOOLEAN /\ a.events \in Seq(Stamped) /\ c.seq \in Nat
         /\ a.resync => a.events = << >>
         /\ ~a.resync =>
              /\ c.epoch = st.epoch /\ c.seq + 1 >= First(st)
              /\ Len(a.events) = st.latestSeq - c.seq
              /\ \A k \in 1..Len(a.events) :
                   /\ a.events[k].epoch = st.epoch /\ a.events[k].seq = c.seq + k
                   /\ a.events[k].event = Said(st, c.seq + k)
<1>1. a \in Answers
  BY SinceKeeps
<1>2. a.resync \in BOOLEAN /\ a.events \in Seq(Stamped)
  BY <1>1 DEF Answers
<1>3. c.seq \in Nat
  BY PositionNumbers
<1>4. CASE Unservable(st, c)
  <2>1. a.resync /\ a.events = << >>
    BY <1>4 DEF Since
  <2>2. QED
    BY <1>2, <1>3, <2>1
<1>5. CASE ~Unservable(st, c)
  <2> DEFINE b == st.buffer
             N == Len(b)
             F == First(st)
             L == st.latestSeq
             I == {i \in DOMAIN b : b[i].seq > c.seq}
             d == c.seq - F + 1
  <2>1. /\ L \in Nat /\ N \in Nat /\ F \in Int /\ b \in Seq(Stamped) /\ F + N = L + 1
        /\ \A q \in F..L : Said(st, q) = b[q - F + 1].event
    BY FirstNumber DEF Said
  <2>2. a = [resync |-> FALSE, events |-> Picked(b, I)]
    BY <1>5 DEF Since
  <2>3. c.epoch = st.epoch /\ c.seq <= L
    BY <1>5 DEF Unservable
  <2>4. \A i \in 1..N : b[i].seq = F + i - 1
    BY DEF Numbered
  <2>5. c.seq + 1 >= F
    <3>1. CASE c.seq = L
      BY <2>1, <3>1
    <3>2. CASE c.seq # L
      <4>1. ~(c.seq + 1 < Oldest(st))
        BY <1>3, <1>5, <2>1, <2>3, <3>2 DEF Unservable
      <4>2. Oldest(st) = F
        <5>1. CASE b = << >>
          <6>1. Oldest(st) = L + 1 /\ N = 0
            BY <5>1 DEF Oldest
          <6>2. QED
            BY <2>1, <6>1
        <5>2. CASE b # << >>
          <6>1. Oldest(st) = b[1].seq /\ 1 \in 1..N
            BY <2>1, <5>2 DEF Oldest
          <6>2. b[1].seq = F + 1 - 1
            BY <2>4, <6>1
          <6>3. QED
            BY <2>1, <6>1, <6>2
        <5>3. QED
          BY <5>1, <5>2
      <4>3. QED
        BY <1>3, <2>1, <4>1, <4>2
    <3>3. QED
      BY <3>1, <3>2
  <2>6. d \in 0..N /\ N - d = L - c.seq /\ F + d = c.seq + 1
    <3>1. L \in Nat /\ N \in Nat /\ F \in Int /\ F + N = L + 1 /\ d = c.seq - F + 1
      BY <2>1
    <3> HIDE DEF d, F, N, L
    <3>2. QED
      BY <1>3, <2>3, <2>5, <3>1
  <2>7. I = (d + 1)..N
    <3>1. DOMAIN b = 1..N
      BY <2>1
    <3> HIDE DEF d, F, N, L, b
    <3>2. ASSUME NEW i \in 1..N PROVE b[i].seq > c.seq <=> i \in (d + 1)..N
      BY <1>3, <2>1, <2>4, <2>6
    <3>3. \A i \in (d + 1)..N : i \in 1..N
      BY <2>1, <2>6
    <3>4. QED
      BY <3>1, <3>2, <3>3
  <2> HIDE DEF I
  <2>8. Picked(b, I) = [i \in 1..(N - d) |-> b[d + i]]
    BY <2>1, <2>6, <2>7, PickedSuffix
  <2>9. a.events = [i \in 1..(N - d) |-> b[d + i]] /\ ~a.resync
    BY <2>2, <2>8
  <2> HIDE DEF d, F, N, L, b
  <2>10. N - d \in Nat
    BY <2>1, <2>6
  <2>11. Len(a.events) = N - d
    BY <1>2, <2>9, <2>10
  <2>12. ASSUME NEW k \in 1..(N - d)
         PROVE  /\ a.events[k].epoch = st.epoch /\ a.events[k].seq = c.seq + k
                /\ a.events[k].event = Said(st, c.seq + k)
    <3>1. d + k \in 1..N /\ c.seq + k \in F..L /\ (c.seq + k) - F + 1 = d + k
            /\ F + (d + k) - 1 = c.seq + k
      <4>1. L \in Nat /\ N \in Nat /\ F \in Int /\ d \in Int /\ F + N = L + 1 /\ F + d = c.seq + 1
        BY <2>1, <2>6
      <4>2. k \in Int /\ k >= 1 /\ k <= N - d /\ d >= 0
        BY <2>6, <4>1
      <4>3. QED
        BY <1>3, <4>1, <4>2
    <3>2. a.events[k] = b[d + k]
      BY <2>9
    <3>3. b[d + k].epoch = st.epoch
      BY <3>1 DEF Streams, b, N
    <3>4. b[d + k].seq = c.seq + k
      BY <2>4, <3>1
    <3>5. Said(st, c.seq + k) = b[d + k].event
      BY <2>1, <3>1
    <3>6. QED
      BY <3>2, <3>3, <3>4, <3>5
  <2>13. QED
    BY <1>2, <1>3, <2>3, <2>5, <2>6, <2>9, <2>11, <2>12 DEF F, L
<1>6. QED
  BY <1>4, <1>5

-----------------------------------------------------------------------------
(* What is diffed, sent and heard.                                         *)

\* A query of the whole graph returns it.
LEMMA ListedWhole ==
  ASSUME Typed, Seen, recent = SetToSeq(Nodes)
  PROVE  Listed = graph
<1> DEFINE existing == {i \in DOMAIN recent : graph[recent[i]] # 0}
           before(i) == {j \in existing : j <= i}
           seen == {i \in existing : Cardinality(before(i)) <= Window}
           N == Len(recent)
<1>1. /\ recent \in Seq(Nodes) /\ N = Cardinality(Nodes) /\ N \in Nat
      /\ \A n \in Nodes : \E i \in 1..N : recent[i] = n
  BY SetToSeqProperties, WatchAssumption
<1>2. Window \in Nat /\ Window >= N /\ DOMAIN recent = 1..N
  BY <1>1, WatchAssumption DEF Seen
<1>3. ASSUME NEW i PROVE Cardinality(before(i)) <= Window
  <2>1. before(i) \subseteq 1..N
    BY <1>2
  <2> HIDE DEF before
  <2>2. IsFiniteSet(1..N) /\ Cardinality(1..N) = N
    BY <1>1, FS_Interval
  <2>3. Cardinality(before(i)) \in Nat /\ Cardinality(before(i)) <= N
    BY <2>1, <2>2, FS_Subset, FS_CardinalityType
  <2>4. QED
    BY <1>1, <1>2, <2>3
<1>4. seen = existing
  BY <1>3
<1>5. Listed = [n \in Nodes |-> IF n \in {recent[i] : i \in seen} THEN graph[n] ELSE 0]
  BY DEF Listed
<1> HIDE DEF seen
<1>6. ASSUME NEW n \in Nodes, n \notin {recent[i] : i \in seen}
      PROVE  graph[n] = 0
  BY <1>1, <1>2, <1>4, <1>6
<1>7. graph \in [Nodes -> 0..2]
  BY DEF Typed, TypeOK
<1>8. QED
  BY <1>5, <1>6, <1>7

\* The diff says of each node that changed what it is now, and of no other.
LEMMA DifferencesSay ==
  ASSUME Typed, Seen, recent = SetToSeq(Nodes), NEW ds, ds = Differences
  PROVE  /\ ds \in Seq(Event) /\ Listed = graph
         /\ \A n \in Nodes : graph[n] # cache[n] => \E i \in 1..Len(ds) : ds[i].node = n
         /\ \A i \in 1..Len(ds) : /\ ds[i].node \in Nodes /\ graph[ds[i].node] # cache[ds[i].node]
                                  /\ ds[i].content = graph[ds[i].node]
<1> DEFINE differ == {n \in Nodes : graph[n] # cache[n]}
           Events(ns) == [i \in DOMAIN SetToSeq(ns) |->
                            [node |-> SetToSeq(ns)[i], content |-> graph[SetToSeq(ns)[i]]]]
           A == {n \in differ : graph[n] # 0}
           B == {n \in differ : graph[n] = 0}
           Says(q, ns) ==
             /\ Len(q) \in Nat /\ \A n \in ns : \E i \in 1..Len(q) : q[i].node = n
             /\ \A i \in 1..Len(q) : q[i].node \in ns /\ q[i].content = graph[q[i].node]
                /\ q[i] \in Event
<1>1. ASSUME NEW ns, ns \subseteq Nodes
      PROVE  Says(Events(ns), ns) /\ Events(ns) \in Seq(Event)
  <2> DEFINE q == SetToSeq(ns)
  <2>1. IsFiniteSet(ns)
    BY <1>1, FS_Subset, WatchAssumption
  <2>2. q \in Seq(ns) /\ \A n \in ns : \E i \in 1..Len(q) : q[i] = n
    BY <2>1, SetToSeqProperties
  <2> DEFINE es == [i \in 1..Len(q) |-> [node |-> q[i], content |-> graph[q[i]]]]
  <2>3. Events(ns) = es
    BY <2>2
  <2> HIDE DEF q
  <2>4. Len(q) \in Nat /\ \A i \in 1..Len(q) : q[i] \in ns
    BY <2>2
  <2>5. \A n \in ns : graph[n] \in 0..2
    BY <1>1 DEF Typed, TypeOK
  <2>6. \A i \in 1..Len(q) : es[i] \in Event /\ es[i].node = q[i] /\ es[i].content = graph[q[i]]
    BY <1>1, <2>4, <2>5, WatchAssumption
  <2>7. es \in Seq(Event) /\ Len(es) = Len(q)
    BY <2>4, <2>6
  <2> HIDE DEF es
  <2>8. Says(es, ns)
    BY <2>2, <2>4, <2>6, <2>7
  <2> HIDE DEF Says, Events
  <2>9. QED
    BY <2>3, <2>7, <2>8
<1>2. Listed = graph
  BY ListedWhole
<1>3. ds = Events(A) \o Events(B)
  BY <1>2 DEF Differences
<1> DEFINE a == Events(A)
           b == Events(B)
<1>4. Says(a, A) /\ Says(b, B) /\ a \in Seq(Event) /\ b \in Seq(Event)
  <2> HIDE DEF Says, Events
  <2>1. A \subseteq Nodes /\ B \subseteq Nodes
    OBVIOUS
  <2> HIDE DEF A, B
  <2>2. QED
    BY <1>1, <2>1
<1>5. ds = a \o b
  BY <1>3
<1> HIDE DEF a, b
<1>6. /\ ds \in Seq(Event) /\ Len(ds) = Len(a) + Len(b) /\ Len(a) \in Nat /\ Len(b) \in Nat
      /\ \A i \in 1..Len(a) : ds[i] = a[i] /\ i \in 1..Len(ds)
      /\ \A i \in 1..Len(b) : ds[i + Len(a)] = b[i] /\ i + Len(a) \in 1..Len(ds)
      /\ \A i \in 1..Len(ds) : i \in 1..Len(a) \/ i - Len(a) \in 1..Len(b)
  BY <1>4, <1>5
<1>7. ASSUME NEW n \in Nodes, graph[n] # cache[n]
      PROVE  \E i \in 1..Len(ds) : ds[i].node = n
  <2>1. CASE n \in A
    <3>1. PICK i \in 1..Len(a) : a[i].node = n
      BY <1>4, <2>1
    <3>2. QED
      BY <1>6, <3>1
  <2>2. CASE n \in B
    <3>1. PICK i \in 1..Len(b) : b[i].node = n
      BY <1>4, <2>2
    <3>2. QED
      BY <1>6, <3>1
  <2>3. QED
    BY <1>7, <2>1, <2>2
<1>8. ASSUME NEW i \in 1..Len(ds)
      PROVE  /\ ds[i].node \in Nodes /\ graph[ds[i].node] # cache[ds[i].node]
             /\ ds[i].content = graph[ds[i].node]
  <2>1. CASE i \in 1..Len(a)
    <3>1. ds[i] = a[i] /\ a[i].node \in A /\ a[i].content = graph[a[i].node]
      BY <1>4, <1>6, <2>1
    <3>2. QED
      BY <3>1
  <2>2. CASE i - Len(a) \in 1..Len(b)
    <3>1. (i - Len(a)) + Len(a) = i
      BY <1>6
    <3>2. ds[i] = b[i - Len(a)]
      BY <1>6, <2>2, <3>1
    <3>3. b[i - Len(a)].node \in B /\ b[i - Len(a)].content = graph[b[i - Len(a)].node]
      BY <1>4, <2>2
    <3>4. QED
      BY <3>2, <3>3
  <2>3. QED
    BY <1>6, <2>1, <2>2
<1>9. QED
  BY <1>2, <1>6, <1>7, <1>8

\* The messages note have what the filters match of the events ds, numbered from L on.
Noted(note, ds, L, filters) ==
  /\ \A j \in 1..Len(note) : \E i \in 1..Len(ds) :
       note[j].what.event = ds[i] /\ note[j].what.seq = L + i
  /\ \A i \in 1..Len(ds) : (\E nodes \in filters : Matches(ds[i], nodes)) =>
       \E j \in 1..Len(note) : note[j].what.event = ds[i]

\* The connection gets those of the events that its filter matches.
LEMMA NotifySays ==
  ASSUME Typed, NEW ds \in Seq(Event), NEW note, note = Notify(Stamp(ds))
  PROVE  Noted(note, ds, stream.latestSeq, bound)
<1> DEFINE st == Stamp(ds)
           I == {i \in DOMAIN st : \E nodes \in bound : Matches(st[i].event, nodes)}
           w == Picked(st, I)
<1>1. stream.latestSeq \in Nat /\ stream.epoch \in Epochs /\ \A i \in 1..Len(ds) : ds[i] \in Event
  BY DEF Typed, Streams
<1>2. st = [i \in 1..Len(ds) |-> [seq |-> stream.latestSeq + i, epoch |-> stream.epoch,
      event |-> ds[i]]]
  BY DEF Stamp
<1>3. \A i \in 1..Len(ds) :
        [seq |-> stream.latestSeq + i, epoch |-> stream.epoch, event |-> ds[i]] \in Stamped
  BY <1>1 DEF Stamped
<1>4. w = Wanted(st)
  BY DEF Wanted
<1> HIDE DEF st
<1>5. st \in Seq(Stamped) /\ DOMAIN st = 1..Len(ds) /\ Len(st) = Len(ds)
  BY <1>1, <1>2, <1>3
<1>6. \A i \in 1..Len(ds) : st[i].event = ds[i] /\ st[i].seq = stream.latestSeq + i
  BY <1>2
<1>7. I \subseteq 1..Len(st)
        /\ \A i \in 1..Len(ds) : i \in I <=> \E nodes \in bound : Matches(ds[i], nodes)
  BY <1>5, <1>6
<1> HIDE DEF I
<1>8. w \in Seq(Stamped) /\ \E f : Picks(f, w, st, I)
  BY <1>5, <1>7, PickedProperties
<1>9. PICK f : Picks(f, w, st, I)
  BY <1>8
<1> HIDE DEF w
<1>10. /\ \A j \in 1..Len(w) : f[j] \in I /\ w[j] = st[f[j]]
       /\ \A i \in I : \E j \in 1..Len(w) : f[j] = i
  BY <1>9 DEF Picks
<1>11. note = [i \in DOMAIN w |-> [kind |-> "event", what |-> w[i]]]
  BY <1>4 DEF Notify, st
<1>12. Len(note) = Len(w) /\ \A j \in 1..Len(w) : note[j].what = w[j]
  <2>1. DOMAIN w = 1..Len(w) /\ Len(w) \in Nat
    BY <1>8
  <2>2. QED
    BY <1>11, <2>1
<1>13. ASSUME NEW j \in 1..Len(note)
       PROVE  \E i \in 1..Len(ds) : note[j].what.event = ds[i]
                /\ note[j].what.seq = stream.latestSeq + i
  <2>1. f[j] \in 1..Len(ds) /\ note[j].what = st[f[j]]
    BY <1>5, <1>7, <1>10, <1>12
  <2>2. QED
    BY <1>6, <2>1
<1>14. ASSUME NEW i \in 1..Len(ds), \E nodes \in bound : Matches(ds[i], nodes)
       PROVE  \E j \in 1..Len(note) : note[j].what.event = ds[i]
  <2>1. PICK j \in 1..Len(w) : f[j] = i
    BY <1>7, <1>10, <1>14
  <2>2. w[j] = st[i]
    BY <1>10, <2>1
  <2>3. j \in 1..Len(note) /\ note[j].what = st[i]
    BY <1>12, <2>2
  <2>4. note[j].what.event = ds[i]
    BY <1>6, <2>3
  <2>5. QED
    BY <2>3, <2>4
<1>15. QED
  BY <1>13, <1>14 DEF Noted

\* The first m of these events come after what the handler c has heard, one after
\* the other, and the rest were among them.
Fresher(c, events, m, e) ==
  /\ \A k \in 1..Len(events) : events[k].epoch = e
  /\ \A k, j \in 1..m : k < j => events[k].seq < events[j].seq
  /\ \A k \in 1..m : c.last.epoch # e \/ events[k].seq > c.last.seq
  /\ \A k \in (m + 1)..Len(events) : m # 0 /\ events[k].seq <= events[m].seq

\* The view v has become u, as the first m of the events have it.
Taken(v, events, m, u) ==
  /\ \A n \in Nodes : (\A k \in 1..m : events[k].event.node # n) => u[n] = v[n]
  /\ \A k \in 1..m : (\A j \in (k + 1)..m : events[j].event.node # events[k].event.node) =>
       u[events[k].event.node] = events[k].event.content

\* Events in order, and then some that were among them, leave their mark on the view.
LEMMA DeliverAllTells ==
  ASSUME NEW c \in HandlerStates, NEW events \in Seq(Stamped), NEW m \in 0..Len(events),
         NEW e \in Int,
         Fresher(c, events, m, e), NEW d, d = DeliverAll(c, events)
  PROVE  /\ d \in HandlerStates
         /\ m = 0 => d = c
         /\ m # 0 => d.last = At(events[m]) /\ d.cursor = At(events[m])
         /\ Taken(c.view, events, m, d.view)
<1> DEFINE N == Len(events)
           Good(h, i) ==
             /\ h \in HandlerStates
             /\ i = 0 => h = c
             /\ i # 0 => h.last = At(events[i]) /\ h.cursor = At(events[i])
             /\ \A n \in Nodes : (\A k \in 1..i : events[k].event.node # n) => h.view[n] = c.view[n]
             /\ \A k \in 1..i :
                  (\A j \in (k + 1)..i : events[j].event.node # events[k].event.node) =>
                  h.view[events[k].event.node] = events[k].event.content
           A == [n \in 0..N |-> {h \in HandlerStates : Good(h, IF n <= m THEN n ELSE m)}]
<1>1. N \in Nat /\ m \in Nat /\ m <= N /\ \A n \in 1..N : events[n] \in Stamped
  OBVIOUS
<1>0. /\ \A k \in 1..N : events[k].epoch = e
      /\ \A k, j \in 1..m : k < j => events[k].seq < events[j].seq
      /\ \A k \in 1..m : c.last.epoch # e \/ events[k].seq > c.last.seq
      /\ \A k \in (m + 1)..N : m # 0 /\ events[k].seq <= events[m].seq
  BY DEF Fresher
<1>2. PICK r : Delivering(r, c, events)
  BY DeliverAllSteps
<1>3. d = r[N] /\ r[0] = c /\ \A n \in 1..N : r[n] = Deliver(r[n - 1], events[n])
  BY <1>2 DEF Delivering
<1>4. \A n \in 1..N : /\ events[n].event.node \in Nodes /\ events[n].seq \in Nat
                      /\ events[n].event.content \in 0..2 /\ events[n].epoch = e
  <2>1. \A x \in Stamped : x.event.node \in Nodes /\ x.event.content \in 0..2 /\ x.seq \in Nat
    BY WatchAssumption DEF Stamped
  <2>2. QED
    BY <1>0, <1>1, <2>1
<1>5. Good(c, 0)
  OBVIOUS
<1>6. ASSUME NEW n \in 1..m, Good(r[n - 1], n - 1)
      PROVE  Good(r[n], n)
  <2> DEFINE h == r[n - 1]
             x == events[n]
             g == r[n]
  <2>1. n \in 1..N /\ n \in Nat /\ n # 0
    BY <1>1
  <2>2. x \in Stamped /\ g = Deliver(h, x) /\ x.epoch = e /\ x.seq \in Nat /\ x.event.node \in Nodes
    BY <1>1, <1>3, <1>4, <2>1
  <2>3. h \in HandlerStates /\ h.view \in [Nodes -> 0..2]
    BY <1>6 DEF HandlerStates, Contents
  <2>4. ~(x.epoch = h.last.epoch /\ x.seq <= h.last.seq)
    <3>1. CASE n - 1 = 0
      <4>1. h = c /\ c.last.seq \in Nat
        BY <1>6, <3>1, PositionNumbers DEF HandlerStates
      <4>2. QED
        BY <1>0, <2>2, <4>1
    <3>2. CASE n - 1 # 0
      <4>1. n - 1 \in 1..m /\ n - 1 \in 1..N /\ n - 1 < n
        BY <1>1, <2>1, <3>2
      <4>2. h.last = At(events[n - 1])
        BY <1>6, <3>2
      <4>3. events[n - 1].seq < x.seq /\ events[n - 1].seq \in Nat
        BY <1>0, <1>4, <4>1
      <4>4. QED
        BY <2>2, <4>2, <4>3 DEF At
    <3>3. QED
      BY <3>1, <3>2
  <2>5. /\ g \in HandlerStates /\ g.last = At(x) /\ g.cursor = At(x)
        /\ g.view = [h.view EXCEPT ![x.event.node] = x.event.content]
    <3>1. g = Delivered(h, x)
      BY <2>2, <2>4 DEF Deliver
    <3>2. g \in HandlerStates
      BY <2>2, <2>3, DeliverKeeps
    <3>3. QED
      BY <3>1, <3>2 DEF Delivered, At
  <2>6. g.view[x.event.node] = x.event.content /\ \A y \in Nodes : y # x.event.node
          => g.view[y] = h.view[y]
    BY <2>2, <2>3, <2>5
  <2>7. ASSUME NEW y \in Nodes, \A k \in 1..n : events[k].event.node # y
        PROVE  g.view[y] = c.view[y]
    <3>1. \A k \in 1..(n - 1) : events[k].event.node # y
      BY <2>1, <2>7
    <3>2. x.event.node # y
      BY <2>1, <2>7
    <3>3. h.view[y] = c.view[y]
      BY <1>6, <3>1
    <3>4. QED
      BY <2>6, <3>2, <3>3
  <2>8. ASSUME NEW k \in 1..n, \A j \in (k + 1)..n : events[j].event.node # events[k].event.node
        PROVE  g.view[events[k].event.node] = events[k].event.content
    <3>1. CASE k = n
      BY <2>6, <3>1
    <3>2. CASE k # n
      <4>1. k \in 1..(n - 1) /\ k \in 1..N /\ n \in (k + 1)..n
              /\ (k + 1)..(n - 1) \subseteq (k + 1)..n
        BY <1>1, <2>1, <3>2
      <4>2. h.view[events[k].event.node] = events[k].event.content
        BY <1>6, <2>8, <4>1
      <4>3. events[k].event.node \in Nodes /\ events[k].event.node # x.event.node
        BY <1>4, <2>8, <4>1
      <4>4. QED
        BY <2>6, <4>2, <4>3
    <3>3. QED
      BY <3>1, <3>2
  <2> HIDE DEF x, h
  <2>9. Good(g, n)
    BY <2>1, <2>5, <2>7, <2>8 DEF x
  <2>10. QED
    BY <2>9
<1>7. ASSUME NEW n \in (m + 1)..N, Good(r[n - 1], m)
      PROVE  Good(r[n], m)
  <2>1. n \in 1..N /\ m # 0 /\ m \in 1..N /\ events[n].seq <= events[m].seq
    BY <1>0, <1>1
  <2>2. r[n - 1].last = At(events[m])
    BY <1>7, <2>1
  <2>3. r[n] = r[n - 1]
    BY <1>3, <1>4, <2>1, <2>2 DEF Deliver, At
  <2> HIDE DEF Good
  <2>4. QED
    BY <1>7, <2>3
<1> HIDE DEF Good
<1>8. r[0] \in A[0]
  BY <1>1, <1>3, <1>5
<1>9. \A n \in 1..N : r[n - 1] \in A[n - 1] => r[n] \in A[n]
  <2> SUFFICES ASSUME NEW n \in 1..N, r[n - 1] \in A[n - 1] PROVE r[n] \in A[n]
    OBVIOUS
  <2>0. n \in 0..N /\ n - 1 \in 0..N
    BY <1>1
  <2>1. CASE n <= m
    <3>1. n \in 1..m /\ n - 1 <= m
      BY <1>1, <2>1
    <3>2. Good(r[n], n)
      BY <1>6, <2>0, <3>1
    <3>3. r[n] \in HandlerStates
      BY <3>2 DEF Good
    <3>4. QED
      BY <2>0, <2>1, <3>2, <3>3
  <2>2. CASE ~(n <= m)
    <3>1. n \in (m + 1)..N /\ (IF n - 1 <= m THEN n - 1 ELSE m) = m
      BY <1>1, <2>2
    <3>2. Good(r[n], m)
      BY <1>7, <2>0, <3>1
    <3>3. r[n] \in HandlerStates
      BY <3>2 DEF Good
    <3>4. QED
      BY <2>0, <2>2, <3>2, <3>3
  <2>3. QED
    BY <2>1, <2>2
<1>10. r[N] \in A[N]
  <2> HIDE DEF A
  <2>1. QED
    BY <1>1, <1>8, <1>9, IterationReaches
<1>11. Good(d, m)
  <2>1. N \in 0..N /\ (IF N <= m THEN N ELSE m) = m
    BY <1>1
  <2>2. QED
    BY <1>3, <1>10, <2>1
<1>12. QED
  BY <1>11 DEF Good, Taken

-----------------------------------------------------------------------------
(* What the events say, and what the pollers know.                         *)

LEMMA LastOf ==
  ASSUME NEW N \in Nat, NEW S, S \subseteq 1..N, S # {}
  PROVE  \E k \in S : \A j \in S : j <= k
<1> DEFINE T == {k \in 0..N : \/ S \cap (1..k) = {}
                              \/ \E m \in S \cap (1..k) : \A j \in S \cap (1..k) : j <= m}
<1>1. 0 \in T
  OBVIOUS
<1>2. ASSUME NEW k \in 0..(N - 1), k \in T PROVE k + 1 \in T
  <2>1. k + 1 \in 0..N /\ 1..(k + 1) = (1..k) \cup {k + 1} /\ \A j \in 1..(k + 1) : j <= k + 1
    OBVIOUS
  <2>2. CASE k + 1 \in S
    BY <2>1, <2>2
  <2>3. CASE k + 1 \notin S
    <3>1. S \cap (1..(k + 1)) = S \cap (1..k)
      BY <2>1, <2>3
    <3>2. QED
      BY <1>2, <2>1, <3>1
  <2>4. QED
    BY <2>2, <2>3
<1>3. N \in T
  <2> HIDE DEF T
  <2>1. 0..N \subseteq T
    BY <1>1, <1>2, IntervalInduction
  <2>2. QED
    BY <2>1
<1>4. S \cap (1..N) = S
  OBVIOUS
<1>5. QED
  BY <1>3, <1>4

\* A diff says again what it finds changed, of the graph gr against its cache ca:
\* it says so of what was right before, and only then.
LEMMA DiffSays ==
  ASSUME NEW s \in Streams, NEW ds \in Seq(Event), Numbered(s), NEW t, t = PushAll(s, ds),
         NEW ca, NEW gr,
         \A n \in Nodes : gr[n] # ca[n] => \E i \in 1..Len(ds) : ds[i].node = n,
         \A i \in 1..Len(ds) : ds[i].node \in Nodes /\ ds[i].content = gr[ds[i].node]
  PROVE  /\ \A n \in Nodes : \A c \in Int :
              c + 1 >= First(t) /\ c <= s.latestSeq /\ Unsaid(t, c, n) => gr[n] = ca[n]
                /\ Unsaid(s, c, n)
         /\ LastSaid(s, ca) => LastSaid(t, gr)
<1> DEFINE N == Len(ds)
           L == s.latestSeq
<1>1. /\ t.latestSeq = L + N /\ First(t) \in Int /\ First(t) >= First(s)
      /\ \A q \in First(t)..t.latestSeq :
           \/ q \in First(s)..L /\ Said(t, q) = Said(s, q)
           \/ q - L \in 1..N /\ Said(t, q) = ds[q - L]
  BY PushAllSays
<1>2. N \in Nat /\ L \in Nat /\ First(s) \in Int
  BY FirstNumber
<1> HIDE DEF N, L
<1>3. ASSUME NEW n \in Nodes, NEW c \in Int, c + 1 >= First(t), c <= L, Unsaid(t, c, n)
      PROVE  gr[n] = ca[n] /\ Unsaid(s, c, n)
  <2>1. \A q \in (c + 1)..(L + N) : q \in First(t)..t.latestSeq /\ Said(t, q).node # n
    BY <1>1, <1>2, <1>3 DEF Unsaid
  <2>2. ASSUME NEW i \in 1..N PROVE ds[i].node # n
    <3>1. L + i \in (c + 1)..(L + N) /\ (L + i) - L = i /\ L + i \notin First(s)..L
      BY <1>2, <1>3
    <3>2. Said(t, L + i) = ds[i]
      BY <1>1, <2>1, <3>1
    <3>3. QED
      BY <2>1, <3>1, <3>2
  <2>3. ASSUME NEW q \in (c + 1)..L PROVE Said(s, q).node # n
    <3>1. q \in (c + 1)..(L + N) /\ q - L \notin 1..N
      BY <1>2, <1>3
    <3>2. Said(t, q) = Said(s, q)
      BY <1>1, <2>1, <3>1
    <3>3. QED
      BY <2>1, <3>1, <3>2
  <2>4. QED
    BY <2>2, <2>3 DEF Unsaid, N, L
<1>4. ASSUME LastSaid(s, ca), NEW q \in First(t)..t.latestSeq, Unsaid(t, q, Said(t, q).node)
      PROVE  Said(t, q).content = gr[Said(t, q).node]
  <2>1. CASE q - L \in 1..N /\ Said(t, q) = ds[q - L]
    BY <2>1 DEF N
  <2>2. CASE q \in First(s)..L /\ Said(t, q) = Said(s, q)
    <3> DEFINE n == Said(s, q).node
    <3>1. Said(s, q) \in Event
      BY <2>2, FirstNumber DEF L
    <3>2. n \in Nodes
      BY <3>1, WatchAssumption
    <3>3. q \in Int /\ q + 1 >= First(t) /\ q <= L
      BY <1>1, <1>2, <2>2
    <3>4. Unsaid(t, q, n)
      BY <1>4, <2>2
    <3> HIDE DEF n
    <3>5. gr[n] = ca[n] /\ Unsaid(s, q, n)
      BY <1>3, <3>2, <3>3, <3>4
    <3>6. Said(s, q).content = ca[n]
      BY <1>4, <2>2, <3>5 DEF LastSaid, n, L
    <3>7. QED
      BY <2>2, <3>5, <3>6 DEF n
  <2>3. QED
    BY <1>1, <2>1, <2>2
<1>5. LastSaid(s, ca) => LastSaid(t, gr)
  BY <1>4 DEF LastSaid
<1>6. QED
  BY <1>3, <1>5 DEF L

\* Nothing of what the stream, its cache and the graph are has changed.
LEMMA StreamKept ==
  ASSUME StreamInv, UNCHANGED <<graph, recent, stream, cache, watched, changed, due>>
  PROVE  StreamInv'
BY DEF StreamInv, Watching

LEMMA StreamInit == Init => StreamInv
<1> SUFFICES ASSUME Init PROVE StreamInv
  OBVIOUS
<1>1. stream = Fresh(0) /\ ~watched /\ ~due /\ recent = SetToSeq(Nodes)
  BY DEF Init
<1>2. stream.buffer = << >> /\ stream.latestSeq = 0 /\ Len(stream.buffer) = 0
  BY <1>1 DEF Fresh
<1>3. First(stream) = 1
  BY <1>2 DEF First
<1>4. QED
  BY <1>1, <1>2, <1>3 DEF StreamInv, Numbered, LastSaid, Watching

LEMMA StreamDiff ==
  ASSUME Typed, Seen, StreamInv, Diff
  PROVE  StreamInv'
<1>1. Numbered(stream) /\ LastSaid(stream, cache) /\ recent = SetToSeq(Nodes) /\ watched
  BY DEF StreamInv, Watching, Diff
<1> DEFINE ds == Differences
<1>2. /\ ds \in Seq(Event) /\ Listed = graph
      /\ \A n \in Nodes : graph[n] # cache[n] => \E i \in 1..Len(ds) : ds[i].node = n
      /\ \A i \in 1..Len(ds) : ds[i].node \in Nodes /\ ds[i].content = graph[ds[i].node]
  BY <1>1, DifferencesSay
<1>3. /\ stream \in Streams /\ stream' = PushAll(stream, ds) /\ cache' = graph /\ graph' = graph
      /\ recent' = recent /\ watched'
  BY <1>1, <1>2 DEF Diff, Typed
<1> HIDE DEF ds
<1>4. Numbered(stream')
  BY <1>1, <1>2, <1>3, PushAllSays
<1>5. LastSaid(stream', cache')
  <2>1. LastSaid(stream', graph)
    BY <1>1, <1>2, <1>3, DiffSays
  <2>2. QED
    BY <1>3, <2>1
<1>6. QED
  BY <1>1, <1>3, <1>4, <1>5 DEF StreamInv, Watching

LEMMA StreamSubscribe ==
  ASSUME Typed, Seen, StreamInv, NEW s \in Subs, ServeSubscribe(s)
  PROVE  StreamInv'
<1>1. Numbered(stream) /\ LastSaid(stream, cache) /\ recent = SetToSeq(Nodes) /\ Watching
  BY DEF StreamInv
<1>2. /\ watched' /\ UNCHANGED <<graph, recent, stream, changed, due>>
      /\ cache' = IF watched THEN cache ELSE Listed
  BY DEF ServeSubscribe
<1>3. CASE watched
  <2>1. cache' = cache
    BY <1>2, <1>3
  <2>2. QED
    BY <1>1, <1>2, <1>3, <2>1 DEF StreamInv, Watching
<1>4. CASE ~watched
  <2>1. cache' = graph
    BY <1>1, <1>2, <1>4, ListedWhole
  <2>2. stream.buffer = << >> /\ stream.latestSeq \in Nat
    BY <1>1, <1>4 DEF Watching, Typed, Streams
  <2>3. First(stream) = stream.latestSeq + 1
    BY <2>2 DEF First
  <2>4. LastSaid(stream, cache')
    BY <2>2, <2>3 DEF LastSaid
  <2>5. QED
    BY <1>1, <1>2, <2>1, <2>4 DEF StreamInv, Watching
<1>5. QED
  BY <1>3, <1>4

LEMMA StreamRestart ==
  ASSUME StreamInv, Restart
  PROVE  StreamInv'
<1>1. stream' = Fresh(stream.epoch + 1) /\ ~watched' /\ ~due' /\ recent' = recent
  BY DEF Restart
<1>2. stream'.buffer = << >> /\ stream'.latestSeq = 0 /\ Len(stream'.buffer) = 0
  BY <1>1 DEF Fresh
<1>3. First(stream') = 1
  BY <1>2 DEF First
<1>4. Numbered(stream') /\ LastSaid(stream', cache')
  BY <1>2, <1>3 DEF Numbered, LastSaid
<1>5. QED
  BY <1>1, <1>2, <1>4 DEF StreamInv, Watching

LEMMA StreamStep ==
  ASSUME Typed, Seen, StreamInv, [Next]_vars
  PROVE  StreamInv'
<1>1. CASE \E n \in Nodes, content \in 0..2 : Write(n, content)
  BY <1>1 DEF Write, Touch, StreamInv, Watching, Seen
<1>2. CASE FileChanged
  BY <1>2 DEF FileChanged, StreamInv, Watching
<1>3. CASE Diff
  BY <1>3, StreamDiff
<1>4. CASE Restart
  BY <1>4, StreamRestart
<1>5. CASE Disconnect \/ ReceiveEvent
  BY <1>5, StreamKept DEF Disconnect, ReceiveEvent, server
<1>6. ASSUME NEW s \in Subs, Serve(s)
      PROVE  StreamInv'
  <2>1. CASE ServeSubscribe(s)
    BY <2>1, StreamSubscribe
  <2>2. CASE ServeSince(s) \/ ServeQuery(s) \/ ServeUnsubscribe(s)
    BY <2>2, StreamKept DEF ServeSince, ServeQuery, ServeUnsubscribe, server
  <2>3. QED
    BY <1>6, <2>1, <2>2 DEF Serve
<1>7. ASSUME NEW s \in Subs, Receive(s) \/ Subscribe(s) \/ Unsubscribe(s) \/ AskQuery(s)
               \/ BackfillFails(s)
      PROVE  StreamInv'
  BY <1>7, StreamKept DEF Receive, ReceiveSubscribed, ReceiveMissed, ReceiveGraph, Subscribe,
    Unsubscribe, AskQuery, BackfillFails, server
<1>8. CASE (\E p \in Pollers : Poll(p) \/ PollerReads(p)) \/ UNCHANGED vars
  BY <1>8, StreamKept DEF Poll, PollerReads, vars, server
<1>9. QED
  BY <1>1, <1>2, <1>3, <1>4, <1>5, <1>6, <1>7, <1>8 DEF Next

LEMMA PollInit == Init => PollInv
<1> SUFFICES ASSUME Init PROVE PollInv
  OBVIOUS
<1> DEFINE r == [cursor |-> NoCursor, stale |-> TRUE, view |-> NoNodes, informed |-> FALSE]
<1>1. poll = [p \in Pollers |-> r] /\ stream.epoch = 0 /\ NoCursor.epoch = -1
  BY DEF Init, Fresh, NoCursor
<1>2. NoCursor \in Positions /\ NoNodes \in Contents
  BY DEF NoCursor, Positions, NoNodes, Contents
<1>3. r \in PollRecords /\ r.cursor = NoCursor /\ ~r.informed
  BY <1>2 DEF PollRecords
<1> HIDE DEF r
<1>4. Polls(r, watched, stream, cache, graph)
  BY <1>1, <1>3 DEF Polls
<1>5. QED
  BY <1>1, <1>3, <1>4 DEF PollInv

\* What holds of every poller's record before a step holds of it after.
LEMMA PollKept ==
  ASSUME PollInv, poll' = poll,
         \A r \in PollRecords : Polls(r, watched, stream, cache, graph)
                                  => Polls(r, watched', stream', cache', graph')
  PROVE  PollInv'
<1>1. \A p \in Pollers : poll[p] \in PollRecords /\ Polls(poll[p], watched, stream, cache, graph)
  BY DEF PollInv
<1>2. \A p \in Pollers : Polls(poll[p], watched', stream', cache', graph')
  BY <1>1
<1>3. \A p \in Pollers : Polls(poll'[p], watched', stream', cache', graph')
  BY <1>2
<1>4. QED
  BY <1>3 DEF PollInv

LEMMA PollWrite ==
  ASSUME Typed, Seen, PollInv, NEW n \in Nodes, NEW content \in 0..2, Write(n, content)
  PROVE  PollInv'
<1>1. /\ graph \in [Nodes -> 0..2] /\ graph' = [graph EXCEPT ![n] = content]
      /\ watched => content # cache[n]
      /\ UNCHANGED <<stream, cache, watched, poll>>
  BY DEF Write, Seen, Typed, TypeOK
<1>2. ASSUME NEW r \in PollRecords, Polls(r, watched, stream, cache, graph)
      PROVE  Polls(r, watched, stream, cache, graph')
  <2>1. ASSUME AsOf(r.cursor, r.view, Nodes, stream, cache, graph), r.cursor.epoch = stream.epoch
                 => watched
        PROVE  AsOf(r.cursor, r.view, Nodes, stream, cache, graph')
    <3> SUFFICES ASSUME r.cursor.epoch = stream.epoch, r.cursor.seq + 1 >= First(stream),
                        NEW m \in Nodes, Unsaid(stream, r.cursor.seq, m)
                 PROVE  Right(r.view[m], m, cache, graph')
      BY DEF AsOf
    <3>1. Right(r.view[m], m, cache, graph)
      BY <2>1 DEF AsOf
    <3>2. CASE m = n
      BY <1>1, <2>1, <3>2 DEF Right
    <3>3. CASE m # n
      BY <1>1, <3>1, <3>3 DEF Right
    <3>4. QED
      BY <3>2, <3>3
  <2>2. QED
    BY <1>2, <2>1 DEF Polls
<1>3. \A r \in PollRecords : Polls(r, watched, stream, cache, graph)
        => Polls(r, watched', stream', cache', graph')
  BY <1>1, <1>2
<1>4. QED
  BY <1>1, <1>3, PollKept

\* The views that a diff leaves behind can be mended from the stream, for those of
\* the nodes ns, and any that have changed.
LEMMA AsOfDiffed ==
  ASSUME NEW s \in Streams, NEW ds \in Seq(Event), Numbered(s), NEW t, t = PushAll(s, ds),
         NEW ca, NEW gr,
         \A n \in Nodes : gr[n] # ca[n] => \E i \in 1..Len(ds) : ds[i].node = n,
         \A i \in 1..Len(ds) : ds[i].node \in Nodes /\ ds[i].content = gr[ds[i].node],
         NEW c \in Positions, c.epoch = s.epoch => c.seq <= s.latestSeq,
         NEW ns, NEW v, AsOf(c, v, ns, s, ca, gr),
         NEW now, now \subseteq Nodes, \A n \in now : gr[n] = ca[n] => n \in ns
  PROVE  AsOf(c, v, now, t, gr, gr)
<1>1. /\ t.epoch = s.epoch /\ First(t) \in Int /\ First(t) >= First(s) /\ First(s) \in Int
      /\ c.seq \in Int
  BY PushAllSays, FirstNumber, PositionNumbers
<1>2. \A n \in Nodes : \A q \in Int :
        q + 1 >= First(t) /\ q <= s.latestSeq /\ Unsaid(t, q, n) => gr[n] = ca[n] /\ Unsaid(s, q, n)
  BY DiffSays
<1> SUFFICES ASSUME c.epoch = s.epoch, c.seq + 1 >= First(t), NEW n \in now, Unsaid(t, c.seq, n)
             PROVE  Right(v[n], n, gr, gr)
  BY <1>1 DEF AsOf
<1>3. gr[n] = ca[n] /\ Unsaid(s, c.seq, n) /\ n \in ns
  BY <1>1, <1>2
<1>4. c.seq + 1 >= First(s)
  BY <1>1
<1>5. Right(v[n], n, ca, gr)
  BY <1>3, <1>4 DEF AsOf
<1>6. QED
  BY <1>3, <1>5 DEF Right

LEMMA PollDiff ==
  ASSUME Typed, Seen, StreamInv, PollInv, Diff
  PROVE  PollInv'
<1>1. Numbered(stream) /\ recent = SetToSeq(Nodes)
  BY DEF StreamInv
<1> DEFINE ds == Differences
<1>2. /\ ds \in Seq(Event) /\ Listed = graph
      /\ \A n \in Nodes : graph[n] # cache[n] => \E i \in 1..Len(ds) : ds[i].node = n
      /\ \A i \in 1..Len(ds) : ds[i].node \in Nodes /\ ds[i].content = graph[ds[i].node]
  BY <1>1, DifferencesSay
<1>3. /\ stream \in Streams /\ stream' = PushAll(stream, ds) /\ cache' = graph
      /\ UNCHANGED <<graph, watched, poll>>
  BY <1>2 DEF Diff, Typed, client
<1> HIDE DEF ds
<1>4. /\ stream'.epoch = stream.epoch /\ stream'.latestSeq = stream.latestSeq + Len(ds)
      /\ Len(ds) \in Nat /\ First(stream') \in Int /\ First(stream') >= First(stream)
      /\ stream.latestSeq \in Nat /\ First(stream) \in Int
  BY <1>1, <1>2, <1>3, PushAllSays, FirstNumber
<1>5. ASSUME NEW r \in PollRecords, Polls(r, watched, stream, cache, graph)
      PROVE  Polls(r, watched, stream', graph, graph)
  <2>1. r.cursor \in Positions
          /\ (r.cursor.epoch = stream.epoch => r.cursor.seq <= stream.latestSeq)
    BY <1>5 DEF PollRecords, Polls
  <2>2. r.cursor.seq \in Int
    BY <2>1, PositionNumbers
  <2>3. AsOf(r.cursor, r.view, Nodes, stream, cache, graph)
        => AsOf(r.cursor, r.view, Nodes, stream', graph, graph)
    BY <1>1, <1>2, <1>3, <2>1, AsOfDiffed
  <2>4. r.cursor.epoch = stream.epoch => r.cursor.seq <= stream'.latestSeq
    BY <1>4, <2>1, <2>2
  <2>5. QED
    BY <1>4, <1>5, <2>3, <2>4 DEF Polls
<1>6. \A r \in PollRecords : Polls(r, watched, stream, cache, graph)
                             => Polls(r, watched', stream', cache', graph')
  BY <1>3, <1>5
<1>7. QED
  BY <1>3, <1>6, PollKept

LEMMA PollRestart ==
  ASSUME Typed, PollInv, Restart
  PROVE  PollInv'
<1>1. stream' = Fresh(stream.epoch + 1) /\ poll' = poll
  BY DEF Restart, ConnectionLost
<1>2. stream'.epoch = stream.epoch + 1 /\ stream.epoch \in Int
  BY <1>1, Numbers DEF Fresh
<1>3. ASSUME NEW r \in PollRecords, Polls(r, watched, stream, cache, graph)
      PROVE  Polls(r, watched', stream', cache', graph')
  <2>1. r.cursor \in Positions /\ r.cursor.epoch <= stream.epoch
    BY <1>3 DEF PollRecords, Polls
  <2>2. r.cursor.epoch <= stream'.epoch /\ r.cursor.epoch # stream'.epoch
    BY <1>2, <2>1, PositionNumbers
  <2>3. QED
    BY <2>2 DEF Polls, AsOf
<1>4. QED
  BY <1>1, <1>3, PollKept

LEMMA PollSubscribe ==
  ASSUME PollInv, NEW s \in Subs, ServeSubscribe(s)
  PROVE  PollInv'
<1>1. watched' /\ cache' = (IF watched THEN cache ELSE Listed) /\ UNCHANGED <<graph, stream, poll>>
  BY DEF ServeSubscribe
<1>2. CASE watched
  <2>1. cache' = cache /\ watched' = TRUE /\ watched = TRUE
    BY <1>1, <1>2
  <2>2. QED
    BY <1>1, <2>1, PollKept
<1>3. CASE ~watched
  <2>1. ASSUME NEW r \in PollRecords, Polls(r, watched, stream, cache, graph)
        PROVE  Polls(r, watched', stream', cache', graph')
    BY <1>1, <1>3, <2>1 DEF Polls, AsOf
  <2>2. QED
    BY <1>1, <2>1, PollKept
<1>4. QED
  BY <1>2, <1>3

\* A poller that moves on to another record, while the daemon stays as it is.
LEMMA PollMoves ==
  ASSUME PollInv, NEW p \in Pollers, NEW r \in PollRecords, poll' = [poll EXCEPT ![p] = r],
         Polls(r, watched, stream, cache, graph), UNCHANGED <<watched, stream, cache, graph>>
  PROVE  PollInv'
<1>1. poll \in [Pollers -> PollRecords]
        /\ \A w \in Pollers : Polls(poll[w], watched, stream, cache, graph)
  BY DEF PollInv
<1>2. poll' \in [Pollers -> PollRecords]
  BY <1>1
<1>3. \A w \in Pollers : poll'[w] = IF w = p THEN r ELSE poll[w]
  BY <1>1
<1>4. \A w \in Pollers : Polls(poll'[w], watched, stream, cache, graph)
  BY <1>1, <1>3
<1>5. \A w \in Pollers : Polls(poll'[w], watched', stream', cache', graph')
  BY <1>4
<1>6. QED
  BY <1>2, <1>5 DEF PollInv

\* A poller that is told to resync takes the head for its cursor.
LEMMA PollResyncs ==
  ASSUME Typed, PollInv, NEW p \in Pollers, Poll(p),
         poll[p].cursor = NoCursor \/ Since(stream, poll[p].cursor).resync
  PROVE  PollInv'
<1> DEFINE r == [poll[p] EXCEPT !.cursor = Current(stream), !.stale = TRUE, !.informed = watched]
<1>1. poll' = [poll EXCEPT ![p] = r] /\ UNCHANGED <<watched, stream, cache, graph>>
  BY DEF Poll, server
<1>2. poll[p] \in PollRecords /\ watched \in BOOLEAN
  BY DEF PollInv, Typed, TypeOK
<1>3. stream.epoch \in Epochs /\ stream.latestSeq \in Nat
  BY DEF Typed, Streams
<1>4. Current(stream) \in Positions /\ Current(stream).epoch = stream.epoch
        /\ Current(stream).seq = stream.latestSeq
  BY <1>3 DEF Current, Positions
<1>5. r \in PollRecords /\ r.cursor = Current(stream) /\ r.stale /\ r.informed = watched
  BY <1>2, <1>4 DEF PollRecords
<1> HIDE DEF r
<1>6. stream.epoch \in Int /\ stream.epoch <= stream.epoch /\ stream.latestSeq <= stream.latestSeq
  BY <1>3, Numbers
<1>7. Polls(r, watched, stream, cache, graph)
  BY <1>4, <1>5, <1>6 DEF Polls
<1>8. QED
  BY <1>1, <1>5, <1>7, PollMoves

\* The events are those of the stream st that come after the c-th.
Replayed(events, st, c) ==
  \A k \in 1..Len(events) : /\ events[k].epoch = st.epoch /\ events[k].seq = c + k
                            /\ events[k].event = Said(st, c + k)

\* A view that takes in all that was said since its cursor is right again.
LEMMA TakenIn ==
  ASSUME NEW st \in Streams, NEW c \in Positions, Numbered(st), NEW ca, NEW gr, LastSaid(st, ca),
         c.epoch = st.epoch, c.seq <= st.latestSeq, c.seq + 1 >= First(st),
         NEW ns, ns \subseteq Nodes, NEW v \in Contents, AsOf(c, v, ns, st, ca, gr),
         NEW N \in Nat, N = st.latestSeq - c.seq, NEW events \in Seq(Stamped), Len(events) = N,
         Replayed(events, st, c.seq), NEW u \in Contents, Taken(v, events, N, u)
  PROVE  \A n \in ns : Right(u[n], n, ca, gr)
<1>0. /\ \A n \in Nodes : (\A k \in 1..N : events[k].event.node # n) => u[n] = v[n]
      /\ \A k \in 1..N : (\A j \in (k + 1)..N : events[j].event.node # events[k].event.node) =>
           u[events[k].event.node] = events[k].event.content
      /\ \A k \in 1..N : events[k].event = Said(st, c.seq + k)
  BY DEF Taken, Replayed
<1>1. c.seq \in Nat /\ st.latestSeq \in Nat /\ First(st) \in Int
  BY PositionNumbers, FirstNumber
<1> DEFINE b == c.seq
           L == st.latestSeq
<1> HIDE DEF b, L
<1>2. /\ b \in Nat /\ L \in Nat /\ N = L - b /\ b + 1 >= First(st)
      /\ \A k \in 1..N : b + k \in First(st)..L
  BY <1>1 DEF b, L
<1>3. \A q, k \in Int : q \in (b + k + 1)..L => q - b \in (k + 1)..N /\ b + (q - b) = q
  BY <1>2
<1> SUFFICES ASSUME NEW n \in ns PROVE Right(u[n], n, ca, gr)
  OBVIOUS
<1> DEFINE S == {k \in 1..N : events[k].event.node = n}
<1>4. CASE S = {}
  <2>1. u[n] = v[n]
    BY <1>0, <1>4
  <2>2. ASSUME NEW q \in (b + 1)..L PROVE Said(st, q).node # n
    <3>1. q - b \in 1..N /\ b + (q - b) = q
      BY <1>2
    <3>2. events[q - b].event = Said(st, q)
      BY <1>0, <3>1 DEF b
    <3>3. QED
      BY <1>4, <3>1, <3>2
  <2>3. Unsaid(st, c.seq, n)
    BY <2>2 DEF Unsaid, b, L
  <2>4. QED
    BY <2>1, <2>3 DEF AsOf
<1>5. CASE S # {}
  <2>1. PICK k \in S : \A j \in S : j <= k
    <3> HIDE DEF S
    <3>1. S \subseteq 1..N
      BY DEF S
    <3>2. QED
      BY <1>5, <3>1, LastOf
  <2>2. k \in 1..N /\ events[k].event.node = n /\ \A j \in (k + 1)..N : j \in 1..N /\ ~(j <= k)
    BY <1>2
  <2>3. \A j \in (k + 1)..N : events[j].event.node # n
    BY <2>1, <2>2
  <2>4. u[n] = Said(st, b + k).content /\ Said(st, b + k).node = n
    BY <1>0, <2>2, <2>3 DEF b
  <2>5. ASSUME NEW q \in (b + k + 1)..L PROVE Said(st, q).node # n
    <3>1. q - b \in (k + 1)..N /\ b + (q - b) = q
      BY <1>3, <2>2
    <3>2. events[q - b].event = Said(st, q)
      BY <1>0, <2>2, <3>1 DEF b
    <3>3. QED
      BY <2>3, <3>1, <3>2
  <2>6. Unsaid(st, b + k, n) /\ b + k \in First(st)..L
    BY <1>2, <2>2, <2>5 DEF Unsaid, L
  <2>7. u[n] = ca[n]
    BY <2>4, <2>6 DEF LastSaid, L
  <2>8. QED
    BY <2>7 DEF Right
<1>6. QED
  BY <1>4, <1>5

\* A poller that is answered applies what it missed.
LEMMA PollHears ==
  ASSUME Typed, StreamInv, PollInv, NEW p \in Pollers, Poll(p),
         ~(poll[p].cursor = NoCursor \/ Since(stream, poll[p].cursor).resync)
  PROVE  PollInv'
<1> DEFINE c == poll[p].cursor
           v == poll[p].view
           a == Since(stream, c)
           E == a.events
           h == [last |-> NoCursor, cursor |-> c, view |-> v, ordered |-> TRUE]
           d == DeliverAll(h, E)
           r == [poll[p] EXCEPT !.cursor = d.cursor, !.view = d.view]
           N == Len(E)
<1>1. poll' = [poll EXCEPT ![p] = r] /\ UNCHANGED <<watched, stream, cache, graph>>
  BY DEF Poll, server
<1>2. poll[p] \in PollRecords /\ Polls(poll[p], watched, stream, cache, graph)
  BY DEF PollInv
<1>3. c \in Positions /\ v \in Contents /\ poll[p].stale \in BOOLEAN /\ poll[p].informed \in BOOLEAN
  BY <1>2 DEF PollRecords
<1>4. stream \in Streams /\ Numbered(stream) /\ LastSaid(stream, cache)
  BY DEF Typed, StreamInv
<1>5. c.epoch = stream.epoch => c.seq <= stream.latestSeq
  BY <1>2 DEF Polls
<1>6. NoCursor \in Positions /\ NoCursor.epoch = -1
  BY DEF NoCursor, Positions
<1>7. h \in HandlerStates /\ h.last = NoCursor /\ h.cursor = c /\ h.view = v
  BY <1>3, <1>6 DEF HandlerStates
<1> HIDE DEF h, a, c, v
<1>8. /\ E \in Seq(Stamped) /\ c.seq \in Nat /\ c.epoch = stream.epoch /\ c.seq + 1 >= First(stream)
      /\ N = stream.latestSeq - c.seq /\ Replayed(E, stream, c.seq)
  BY <1>3, <1>4, <1>5, SinceSays DEF a, c, Replayed
<1>9. stream.epoch \in Int /\ stream.epoch # -1 /\ stream.latestSeq \in Nat
  BY Numbers, BufferAssumption DEF Typed, Streams, Epochs
<1>10. N \in Nat /\ N \in 0..N /\ (N + 1)..N = {} /\ \A k, j \in 1..N : k < j
         => c.seq + k < c.seq + j
  BY <1>8
<1> HIDE DEF N, d, E
<1>11. /\ d \in HandlerStates
       /\ N = 0 => d = h
       /\ N # 0 => d.cursor = At(E[N])
       /\ Taken(v, E, N, d.view)
  <2>1. N \in 0..Len(E) /\ stream.epoch \in Int /\ d = DeliverAll(h, E)
    BY <1>9, <1>10 DEF N, d
  <2>2. Fresher(h, E, N, stream.epoch)
    <3>1. \A k \in 1..Len(E) : E[k].epoch = stream.epoch /\ E[k].seq = c.seq + k
      BY <1>8 DEF Replayed
    <3>2. \A k, j \in 1..N : k < j => E[k].seq < E[j].seq
      BY <1>10, <3>1 DEF N
    <3>3. h.last.epoch # stream.epoch
      BY <1>6, <1>7, <1>9
    <3>4. (N + 1)..Len(E) = {}
      BY <1>10 DEF N
    <3>5. QED
      BY <3>1, <3>2, <3>3, <3>4 DEF Fresher
  <2>3. QED
    BY <1>7, <1>8, <2>1, <2>2, DeliverAllTells
<1>12. d.cursor \in Positions /\ d.view \in Contents
  BY <1>11 DEF HandlerStates
<1>13. d.cursor.epoch = stream.epoch /\ d.cursor.seq = stream.latestSeq
  <2>1. CASE N = 0
    BY <1>7, <1>8, <1>9, <1>11, <2>1
  <2>2. CASE N # 0
    <3>1. N \in 1..N /\ d.cursor = At(E[N]) /\ c.seq + N = stream.latestSeq
      BY <1>8, <1>9, <1>10, <1>11, <2>2
    <3>2. QED
      BY <1>8, <3>1 DEF At, Replayed, N
  <2>3. QED
    BY <2>1, <2>2
<1>14. r \in PollRecords /\ r.cursor = d.cursor /\ r.view = d.view /\ r.stale = poll[p].stale
         /\ r.informed = poll[p].informed
  BY <1>2, <1>12 DEF PollRecords
<1> HIDE DEF r
<1>15. ASSUME poll[p].informed, ~poll[p].stale
       PROVE  AsOf(d.cursor, d.view, Nodes, stream, cache, graph)
  <2>1. AsOf(c, v, Nodes, stream, cache, graph)
    BY <1>2, <1>15 DEF Polls, c, v
  <2>2. \A n \in Nodes : Right(d.view[n], n, cache, graph)
    <3>1. c.seq <= stream.latestSeq /\ Len(E) = N
      BY <1>5, <1>8 DEF N
    <3>2. QED
      BY <1>3, <1>4, <1>8, <1>10, <1>11, <1>12, <2>1, <3>1, TakenIn
  <2>3. QED
    BY <2>2 DEF AsOf
<1>16. Polls(r, watched, stream, cache, graph)
  <2>1. r.cursor.epoch <= stream.epoch /\ r.cursor.seq <= stream.latestSeq
    BY <1>9, <1>13, <1>14
  <2>2. poll[p].informed => watched
    BY <1>2, <1>8 DEF Polls, c
  <2>3. QED
    BY <1>14, <1>15, <2>1, <2>2 DEF Polls
<1>17. QED
  BY <1>1, <1>14, <1>16, PollMoves

LEMMA PollReads ==
  ASSUME Typed, PollInv, NEW p \in Pollers, PollerReads(p)
  PROVE  PollInv'
<1> DEFINE r == [poll[p] EXCEPT !.view = graph, !.stale = FALSE]
<1>1. poll \in [Pollers -> PollRecords] /\ Polls(poll[p], watched, stream, cache, graph)
        /\ graph \in Contents
  BY DEF PollInv, Typed, TypeOK, Contents
<1>2. poll[p] \in PollRecords
  BY <1>1
<1>3. poll' = [poll EXCEPT ![p] = r] /\ UNCHANGED <<watched, stream, cache, graph>>
  BY <1>1 DEF PollerReads, server
<1>4. r \in PollRecords /\ r.cursor = poll[p].cursor /\ r.view = graph
        /\ r.informed = poll[p].informed
  BY <1>1, <1>2 DEF PollRecords
<1> HIDE DEF r
<1>5. AsOf(r.cursor, r.view, Nodes, stream, cache, graph)
  BY <1>4 DEF AsOf, Right
<1>6. Polls(r, watched, stream, cache, graph)
  BY <1>1, <1>4, <1>5 DEF Polls
<1>7. QED
  BY <1>3, <1>4, <1>6, PollMoves

LEMMA PollStep ==
  ASSUME Typed, Seen, StreamInv, PollInv, [Next]_vars
  PROVE  PollInv'
<1>1. CASE \E n \in Nodes, content \in 0..2 : Write(n, content)
  BY <1>1, PollWrite
<1>2. CASE FileChanged
  BY <1>2, PollKept DEF FileChanged
<1>3. CASE Diff
  BY <1>3, PollDiff
<1>4. CASE Restart
  BY <1>4, PollRestart
<1>5. CASE Disconnect \/ ReceiveEvent
  BY <1>5, PollKept DEF Disconnect, ConnectionLost, ReceiveEvent, server
<1>6. ASSUME NEW s \in Subs, Serve(s)
      PROVE  PollInv'
  <2>1. CASE ServeSubscribe(s)
    BY <2>1, PollSubscribe
  <2>2. CASE ServeSince(s) \/ ServeQuery(s) \/ ServeUnsubscribe(s)
    BY <2>2, PollKept DEF ServeSince, ServeQuery, ServeUnsubscribe, server
  <2>3. QED
    BY <1>6, <2>1, <2>2 DEF Serve
<1>7. ASSUME NEW s \in Subs, Receive(s) \/ Subscribe(s) \/ Unsubscribe(s) \/ AskQuery(s)
               \/ BackfillFails(s)
      PROVE  PollInv'
  BY <1>7, PollKept DEF Receive, ReceiveSubscribed, ReceiveMissed, ReceiveGraph, Subscribe,
    Unsubscribe, AskQuery, BackfillFails, server
<1>8. ASSUME NEW p \in Pollers, Poll(p) \/ PollerReads(p)
      PROVE  PollInv'
  <2>1. CASE Poll(p)
    BY <2>1, PollResyncs, PollHears
  <2>2. QED
    BY <1>8, <2>1, PollReads
<1>9. CASE UNCHANGED vars
  BY <1>9, PollKept DEF vars, server
<1>10. QED
  BY <1>1, <1>2, <1>3, <1>4, <1>5, <1>6, <1>7, <1>8, <1>9 DEF Next

\* A poller that took its cursor while the graph was watched, has read the graph when
\* told to and has nothing to fetch knows the graph, once the diff has run, unless
\* a change was undone before it or a query was cut short (events_since).
THEOREM PollersAreInformed ==
  ASSUME Seen
  PROVE  Spec => []PollersInformed
<1> DEFINE Inv == WatchInv /\ StreamInv /\ PollInv
<1>1. Init => Inv
  BY InitiallyWatched, StreamInit, PollInit
<1>2. Inv /\ [Next]_vars => Inv'
  BY TypedStep, TokensStep, OrderStep, StreamStep, PollStep DEF WatchInv
<1>3. Inv => PollersInformed
  <2> SUFFICES ASSUME Typed, StreamInv, PollInv, ~changed, ~due, NEW p \in Pollers,
                      poll[p].informed, ~poll[p].stale,
                      Since(stream, poll[p].cursor) = [resync |-> FALSE, events |-> << >>]
               PROVE  poll[p].view = graph
    BY DEF PollersInformed, WatchInv
  <2> DEFINE c == poll[p].cursor
             v == poll[p].view
  <2>1. poll[p] \in PollRecords /\ Polls(poll[p], watched, stream, cache, graph)
    BY DEF PollInv
  <2>2. c \in Positions /\ v \in Contents /\ graph \in Contents /\ cache \in Contents
    BY <2>1 DEF PollRecords, Typed, TypeOK, Contents
  <2>3. /\ stream \in Streams /\ Numbered(stream) /\ stream.latestSeq \in Nat
        /\ c.epoch = stream.epoch => c.seq <= stream.latestSeq
    BY <2>1 DEF Typed, StreamInv, Polls, Streams
  <2>4. /\ c.epoch = stream.epoch /\ c.seq + 1 >= First(stream) /\ c.seq \in Nat
        /\ 0 = stream.latestSeq - c.seq
    BY <2>2, <2>3, SinceSays
  <2>5. watched /\ AsOf(c, v, Nodes, stream, cache, graph)
    BY <2>1, <2>4 DEF Polls
  <2>6. graph = cache
    BY <2>5 DEF StreamInv, Watching
  <2> HIDE DEF c, v
  <2>7. \A n \in Nodes : Unsaid(stream, c.seq, n)
    BY <2>3, <2>4 DEF Unsaid
  <2>8. \A n \in Nodes : v[n] = graph[n]
    BY <2>4, <2>5, <2>6, <2>7 DEF AsOf, Right
  <2>9. QED
    BY <2>2, <2>8 DEF Contents, v
<1>4. QED
  BY <1>1, <1>2, <1>3, PTL DEF Spec

-----------------------------------------------------------------------------
(* What the application's view is worth, when its client has no second      *)
(* subscription to replace its filter.                                     *)

OneSub == \A s, w \in Subs : s = w

\* Of the nodes as the diff knows them, ca: those that are gone, and those the filter
\* of s matches.
Matched(s, ca) == {n \in Nodes : ca[n] = 0 \/ <<n, ca[n]>> \in Filter[s]}

\* No message of w behind the i-th is about n.
Silent(w, i, n) == \A j \in (i + 1)..Len(w) : w[j].kind = "event" => w[j].what.event.node # n

\* The last of them about a node says what the diff knows of it, ca.
Telling(w, i, ns, ca) ==
  \A j \in (i + 1)..Len(w) :
    /\ w[j].kind = "event" /\ w[j].what.event.node \in ns /\ Silent(w, j, w[j].what.event.node)
    => w[j].what.event.content = ca[w[j].what.event.node]

\* The view v is right about the nodes ns, but for what they say.
RightBehind(w, i, ns, v, ca, gr) == \A n \in ns : Silent(w, i, n) => Right(v[n], n, ca, gr)

\* Behind the i-th message the daemon has answered a subscription of s.
Followed(w, i, s) == \E j \in (i + 1)..Len(w) : w[j].kind = "subscribe" /\ w[j].sub = s

\* Before anyone watches nothing is sent; what is sent is what the stream has.
WireSays ==
  /\ ~watched => \A i \in 1..Len(wire) : wire[i].kind # "event"
  /\ \A i \in 1..Len(wire) : wire[i].kind = "event" /\ wire[i].what.seq >= First(stream)
       => wire[i].what.event = Said(stream, wire[i].what.seq)

\* Once the subscription has been served the daemon has its filter, and nothing
\* the filter matches is missing on the wire.
Subscribed(s) == phase[s] \in {"backfilling", "on"}

Bound ==
  \A s \in Subs :
    /\ asked[s] = "unsubscribe" => phase[s] = "off"
    /\ Subscribed(s) => watched /\ bound = {Filter[s]} /\ Telling(wire, 0, Matched(s, cache), cache)
    /\ \A i \in 1..Len(wire) : wire[i].kind = "subscribe" /\ wire[i].sub = s
         => watched /\ bound = {Filter[s]} /\ Telling(wire, i, Matched(s, cache), cache)

HandlerInv ==
  \A s \in Subs :
    /\ last[s] \in {NoCursor, cursor[s]}
    /\ phase[s] = "subscribing" => stale[s]
    /\ cursor[s].epoch = stream.epoch => watched

\* What a query has answered is right behind the answer; an answer to an earlier
\* subscription comes before that of the next.
Queries ==
  \A s \in Subs :
    /\ asked[s] = "query" => phase[s] = "on"
    /\ \A i \in 1..Len(wire) : wire[i].kind = "query" /\ wire[i].sub = s =>
         /\ phase[s] # "backfilling"
         /\ phase[s] \in {"subscribing", "resuming"} =>
              asked[s] = "subscribe" \/ Followed(wire, i, s)
         /\ phase[s] = "on" => RightBehind(wire, i, Matched(s, cache), wire[i].what, cache, graph)

\* A view that owes no read of the graph is right, but for what is on the wire, or
\* what a backfill from the cursor would bring.
Views ==
  \A s \in Subs : ~stale[s] =>
    IF phase[s] = "on" THEN RightBehind(wire, 0, Matched(s, cache), view[s], cache, graph)
    ELSE AsOf(cursor[s], view[s], Matched(s, cache), stream, cache, graph)

\* The event x is among the events, or comes before them.
Among(x, events) == events # << >> /\ x.seq <= events[Len(events)].seq

Rising(events) == \A k, m \in 1..Len(events) : k < m => events[k].seq < events[m].seq

\* A view v that takes these events in is right behind the i-th message.
Completes(events, v, w, i, ns, ca, gr) ==
  \A u \in Contents : Taken(v, events, Len(events), u) => RightBehind(w, i, ns, u, ca, gr)

\* What events.since answers completes the view, and has what is held back.
AnswersComplete ==
  \A s \in Subs : \A i \in 1..Len(wire) :
    wire[i].kind = "since" /\ wire[i].sub = s /\ ~wire[i].what.resync /\ ~stale[s] =>
      /\ Rising(wire[i].what.events)
      /\ Completes(wire[i].what.events, view[s], wire, i, Matched(s, cache), cache, graph)
      /\ \A k \in 1..Len(pending[s]) : Among(pending[s][k], wire[i].what.events)
      /\ \A j \in 1..(i - 1) : wire[j].kind = "event" => Among(wire[j].what, wire[i].what.events)

ViewInv == WireSays /\ Bound /\ HandlerInv /\ Queries /\ Views /\ AnswersComplete

\* A message that is no event goes on the wire.
LEMMA WireAppended ==
  ASSUME NEW w \in Seq(Messages), NEW m, m.kind # "event", NEW u, u = Append(w, m)
  PROVE  \A i \in 0..Len(w) :
           /\ \A n : Silent(u, i, n) => Silent(w, i, n)
           /\ \A ns, v, ca, gr : RightBehind(w, i, ns, v, ca, gr)
              => RightBehind(u, i, ns, v, ca, gr)
           /\ \A ns, ca : Telling(w, i, ns, ca) => Telling(u, i, ns, ca)
           /\ \A events, v, ns, ca, gr :
                Completes(events, v, w, i, ns, ca, gr) => Completes(events, v, u, i, ns, ca, gr)
<1>1. /\ Len(w) \in Nat /\ Len(u) = Len(w) + 1 /\ u[Len(w) + 1] = m
      /\ \A j \in 1..Len(w) : u[j] = w[j]
  OBVIOUS
<1> SUFFICES ASSUME NEW i \in 0..Len(w)
             PROVE  /\ \A n : Silent(u, i, n) => Silent(w, i, n)
                    /\ \A ns, v, ca, gr :
                         RightBehind(w, i, ns, v, ca, gr) => RightBehind(u, i, ns, v, ca, gr)
                    /\ \A ns, ca : Telling(w, i, ns, ca) => Telling(u, i, ns, ca)
                    /\ \A events, v, ns, ca, gr :
                         Completes(events, v, w, i, ns, ca, gr)
                           => Completes(events, v, u, i, ns, ca, gr)
  OBVIOUS
<1>2. ASSUME NEW k \in 0..Len(w), NEW n, Silent(u, k, n) PROVE Silent(w, k, n)
  <2>1. \A j \in (k + 1)..Len(w) : j \in (k + 1)..Len(u) /\ u[j] = w[j]
    BY <1>1
  <2>2. QED
    BY <1>2, <2>1 DEF Silent
<1>3. \A ns, v, ca, gr : RightBehind(w, i, ns, v, ca, gr) => RightBehind(u, i, ns, v, ca, gr)
  BY <1>2 DEF RightBehind
<1>4. ASSUME NEW ns, NEW ca, Telling(w, i, ns, ca) PROVE Telling(u, i, ns, ca)
  <2> SUFFICES ASSUME NEW j \in (i + 1)..Len(u), u[j].kind = "event", u[j].what.event.node \in ns,
                      Silent(u, j, u[j].what.event.node)
               PROVE  u[j].what.event.content = ca[u[j].what.event.node]
    BY DEF Telling
  <2>1. j \in (i + 1)..Len(w) /\ j \in 0..Len(w) /\ u[j] = w[j]
    BY <1>1
  <2>2. Silent(w, j, w[j].what.event.node)
    BY <1>2, <2>1
  <2>3. QED
    BY <1>4, <2>1, <2>2 DEF Telling
<1>5. ASSUME NEW events, NEW v, NEW ns, NEW ca, NEW gr, Completes(events, v, w, i, ns, ca, gr)
      PROVE  Completes(events, v, u, i, ns, ca, gr)
  BY <1>3, <1>5 DEF Completes
<1>6. QED
  BY <1>2, <1>3, <1>4, <1>5

LEMMA StillFollowed ==
  ASSUME NEW w \in Seq(Messages), NEW m, NEW s, NEW i \in 0..Len(w)
  PROVE  /\ Followed(w, i, s) => Followed(Append(w, m), i, s)
         /\ i >= 1 /\ Followed(w, i, s) => Followed(Tail(w), i - 1, s)
<1> DEFINE u == Append(w, m)
           N == Len(w)
<1>1. N \in Nat /\ Len(u) = N + 1 /\ \A j \in 1..N : u[j] = w[j]
  OBVIOUS
<1>2. ASSUME i >= 1 PROVE Len(Tail(w)) = N - 1 /\ \A j \in 1..(N - 1) : Tail(w)[j] = w[j + 1]
  BY <1>2
<1> SUFFICES ASSUME NEW j \in (i + 1)..N, w[j].kind = "subscribe", w[j].sub = s
             PROVE  Followed(u, i, s) /\ (i >= 1 => Followed(Tail(w), i - 1, s))
  BY DEF Followed
<1> HIDE DEF u, N
<1>3. j \in (i + 1)..Len(u) /\ u[j] = w[j]
  BY <1>1
<1>4. ASSUME i >= 1 PROVE Followed(Tail(w), i - 1, s)
  <2>1. j - 1 \in 1..(N - 1) /\ (j - 1) + 1 = j /\ j - 1 \in ((i - 1) + 1)..(N - 1)
    BY <1>1, <1>4 DEF N
  <2>2. Tail(w)[j - 1] = w[j]
    BY <1>2, <1>4, <2>1
  <2>3. QED
    BY <1>2, <1>4, <2>1, <2>2 DEF Followed
<1>5. Followed(u, i, s)
  BY <1>3 DEF Followed
<1>6. QED
  BY <1>4, <1>5

\* The first message of the wire has been received.
LEMMA WirePassed ==
  ASSUME NEW w \in Seq(Messages), w # << >>, NEW u, u = Tail(w)
  PROVE  /\ \A i \in Nat : \A n : Silent(u, i, n) => Silent(w, i + 1, n)
         /\ \A i \in Nat : \A ns, v, ca, gr :
              RightBehind(w, i + 1, ns, v, ca, gr) => RightBehind(u, i, ns, v, ca, gr)
         /\ \A i \in Nat : \A ns, ca : Telling(w, i + 1, ns, ca) => Telling(u, i, ns, ca)
         /\ \A i \in Nat : \A events, v, ns, ca, gr :
              Completes(events, v, w, i + 1, ns, ca, gr) => Completes(events, v, u, i, ns, ca, gr)
         /\ \A ns, ca : Telling(w, 0, ns, ca) => Telling(w, 1, ns, ca)
<1>1. Len(w) \in Nat /\ Len(u) = Len(w) - 1 /\ \A j \in 1..Len(u) : u[j] = w[j + 1]
        /\ j + 1 \in 1..Len(w)
  OBVIOUS
<1>2. ASSUME NEW i \in Nat, NEW n, Silent(u, i, n) PROVE Silent(w, i + 1, n)
  <2> SUFFICES ASSUME NEW j \in (i + 1 + 1)..Len(w), w[j].kind = "event"
               PROVE  w[j].what.event.node # n
    BY DEF Silent
  <2>1. j - 1 \in (i + 1)..Len(u) /\ j - 1 \in 1..Len(u) /\ (j - 1) + 1 = j
    BY <1>1
  <2>2. QED
    BY <1>1, <1>2, <2>1 DEF Silent
<1>3. ASSUME NEW i \in Nat, NEW ns, NEW v, NEW ca, NEW gr, RightBehind(w, i + 1, ns, v, ca, gr)
      PROVE  RightBehind(u, i, ns, v, ca, gr)
  BY <1>2, <1>3 DEF RightBehind
<1>4. ASSUME NEW i \in Nat, NEW ns, NEW ca, Telling(w, i + 1, ns, ca) PROVE Telling(u, i, ns, ca)
  <2> SUFFICES ASSUME NEW j \in (i + 1)..Len(u), u[j].kind = "event", u[j].what.event.node \in ns,
                      Silent(u, j, u[j].what.event.node)
               PROVE  u[j].what.event.content = ca[u[j].what.event.node]
    BY DEF Telling
  <2>1. j + 1 \in (i + 1 + 1)..Len(w) /\ u[j] = w[j + 1] /\ j \in Nat
    BY <1>1
  <2>2. Silent(w, j + 1, w[j + 1].what.event.node)
    BY <1>2, <2>1
  <2>3. QED
    BY <1>4, <2>1, <2>2 DEF Telling
<1>5. ASSUME NEW i \in Nat, NEW events, NEW v, NEW ns, NEW ca, NEW gr,
             Completes(events, v, w, i + 1, ns, ca, gr)
      PROVE  Completes(events, v, u, i, ns, ca, gr)
  BY <1>3, <1>5 DEF Completes
<1>6. ASSUME NEW ns, NEW ca, Telling(w, 0, ns, ca) PROVE Telling(w, 1, ns, ca)
  <2>1. (1 + 1)..Len(w) \subseteq (0 + 1)..Len(w)
    BY <1>1
  <2>2. QED
    BY <1>6, <2>1 DEF Telling
<1>7. QED
  BY <1>2, <1>3, <1>4, <1>5, <1>6

\* The messages note tell all that the graph gr has against the cache ca, of the nodes ns.
Tells(note, ns, ca, gr) ==
  /\ \A n \in ns : gr[n] # ca[n] => \E j \in 1..Len(note) : note[j].what.event.node = n
  /\ \A j \in 1..Len(note) : note[j].what.event.content = gr[note[j].what.event.node]

LEMMA WireTold ==
  ASSUME NEW w \in Seq(Messages), NEW note \in Seq(EventMessages), NEW u, u = w \o note,
         NEW ns, NEW now, NEW ca, NEW gr, \A n \in now : gr[n] = ca[n] => n \in ns,
         Tells(note, now, ca, gr)
  PROVE  \A i \in 0..Len(w) :
           /\ \A v : RightBehind(w, i, ns, v, ca, gr) => RightBehind(u, i, now, v, gr, gr)
           /\ Telling(w, i, ns, ca) => Telling(u, i, now, gr)
           /\ \A events, v : Completes(events, v, w, i, ns, ca, gr)
              => Completes(events, v, u, i, now, gr, gr)
<1> DEFINE N == Len(w)
           k == Len(note)
<1>1. /\ N \in Nat /\ k \in Nat /\ Len(u) = N + k
      /\ \A j \in 1..N : u[j] = w[j]
      /\ \A j \in 1..k : u[N + j] = note[j] /\ note[j].kind = "event"
  <2>1. N \in Nat /\ k \in Nat /\ \A j \in 1..k : note[j] \in EventMessages
    OBVIOUS
  <2>2. \A x \in EventMessages : x.kind = "event"
    BY DEF EventMessages
  <2>3. Len(u) = N + k /\ (\A j \in 1..N : u[j] = w[j]) /\ \A j \in 1..k : u[N + j] = note[j]
    OBVIOUS
  <2>4. QED
    BY <2>1, <2>2, <2>3
<1>2. \A j \in (N + 1)..(N + k) : j - N \in 1..k /\ N + (j - N) = j
  BY <1>1
<1> HIDE DEF N, k
<1>3. ASSUME NEW i \in 0..N, NEW n \in now, Silent(u, i, n)
      PROVE  Silent(w, i, n) /\ gr[n] = ca[n] /\ n \in ns
  <2>1. \A j \in (i + 1)..N : j \in (i + 1)..Len(u) /\ u[j] = w[j]
    BY <1>1
  <2>2. \A j \in 1..k : N + j \in (i + 1)..Len(u)
    BY <1>1
  <2>3. \A j \in 1..k : note[j].what.event.node # n
    BY <1>1, <1>3, <2>2 DEF Silent
  <2>4. gr[n] = ca[n]
    BY <2>3 DEF Tells, k
  <2>5. QED
    BY <1>3, <2>1, <2>4 DEF Silent, N
<1>4. ASSUME NEW i \in 0..N, NEW v, RightBehind(w, i, ns, v, ca, gr)
      PROVE  RightBehind(u, i, now, v, gr, gr)
  <2> SUFFICES ASSUME NEW n \in now, Silent(u, i, n) PROVE Right(v[n], n, gr, gr)
    BY DEF RightBehind
  <2>1. Silent(w, i, n) /\ gr[n] = ca[n] /\ n \in ns
    BY <1>3
  <2>2. QED
    BY <1>4, <2>1 DEF RightBehind, Right
<1>5. ASSUME NEW i \in 0..N, Telling(w, i, ns, ca)
      PROVE  Telling(u, i, now, gr)
  <2> SUFFICES ASSUME NEW j \in (i + 1)..Len(u), u[j].kind = "event", u[j].what.event.node \in now,
                      Silent(u, j, u[j].what.event.node)
               PROVE  u[j].what.event.content = gr[u[j].what.event.node]
    BY DEF Telling
  <2>1. CASE j \in (i + 1)..N
    <3>1. u[j] = w[j] /\ j \in 0..N
      BY <1>1, <2>1
    <3>2. /\ Silent(w, j, w[j].what.event.node) /\ w[j].what.event.node \in ns
          /\ gr[w[j].what.event.node] = ca[w[j].what.event.node]
      BY <1>3, <3>1
    <3>3. QED
      BY <1>5, <2>1, <3>1, <3>2 DEF Telling, N
  <2>2. CASE j \in (N + 1)..(N + k)
    <3>1. j - N \in 1..k /\ u[j] = note[j - N]
      BY <1>1, <1>2, <2>2
    <3>2. QED
      BY <3>1 DEF Tells, k
  <2>3. j \in (i + 1)..N \/ j \in (N + 1)..(N + k)
    BY <1>1
  <2>4. QED
    BY <2>1, <2>2, <2>3
<1>6. ASSUME NEW i \in 0..N, NEW events, NEW v, Completes(events, v, w, i, ns, ca, gr)
      PROVE  Completes(events, v, u, i, now, gr, gr)
  BY <1>4, <1>6 DEF Completes
<1>7. QED
  BY <1>4, <1>5, <1>6 DEF N

\* The graph has changed and the diff will see it.
LEMMA WireOutdated ==
  ASSUME NEW ns, NEW ca, NEW gr, NEW new, \A n \in ns : new[n] = gr[n] \/ new[n] # ca[n]
  PROVE  /\ \A w, i, v : RightBehind(w, i, ns, v, ca, gr) => RightBehind(w, i, ns, v, ca, new)
         /\ \A events, v, w, i : Completes(events, v, w, i, ns, ca, gr)
            => Completes(events, v, w, i, ns, ca, new)
         /\ \A c, v, st : AsOf(c, v, ns, st, ca, gr) => AsOf(c, v, ns, st, ca, new)
<1>1. \A n \in ns : \A x : Right(x, n, ca, gr) => Right(x, n, ca, new)
  BY DEF Right
<1>2. \A w, i, v : RightBehind(w, i, ns, v, ca, gr) => RightBehind(w, i, ns, v, ca, new)
  BY <1>1 DEF RightBehind
<1>3. \A events, v, w, i : Completes(events, v, w, i, ns, ca, gr)
        => Completes(events, v, w, i, ns, ca, new)
  BY <1>2 DEF Completes
<1>4. \A c, v, st : AsOf(c, v, ns, st, ca, gr) => AsOf(c, v, ns, st, ca, new)
  BY <1>1 DEF AsOf
<1>5. QED
  BY <1>2, <1>3, <1>4

ViewsInv == WatchInv /\ StreamInv /\ ViewInv

\* The phases of who waits for an answer that is on the wire.
LEMMA AnswerPhases ==
  ASSUME WatchInv, NEW i \in 1..Len(wire)
  PROVE  /\ wire[i].kind = "subscribe" => phase[wire[i].sub] \in {"subscribing", "resuming"}
         /\ wire[i].kind = "since" => phase[wire[i].sub] = "backfilling"
BY DEF WatchInv, Tokens, AnswerInPhase

LEMMA ViewInit == Init => ViewInv
<1> SUFFICES ASSUME Init PROVE ViewInv
  OBVIOUS
<1>1. /\ wire = << >> /\ ~watched /\ stream.epoch = 0 /\ Len(wire) = 0 /\ NoCursor.epoch = -1
      /\ \A s \in Subs : /\ phase[s] = "off" /\ asked[s] = "none" /\ stale[s]
                         /\ last[s] = NoCursor /\ cursor[s] = NoCursor
  BY DEF Init, Fresh, NoCursor
<1>2. WireSays /\ Bound /\ HandlerInv /\ Queries /\ Views /\ AnswersComplete
  BY <1>1 DEF WireSays, Bound, Subscribed, HandlerInv, Queries, Views, AnswersComplete
<1>3. QED
  BY <1>2 DEF ViewInv

LEMMA ViewKept ==
  ASSUME ViewInv, UNCHANGED <<graph, stream, cache, watched, bound, wire, asked, phase, pending,
                              last, cursor, view, stale>>
  PROVE  ViewInv'
BY DEF ViewInv, WireSays, Bound, Subscribed, HandlerInv, Queries, Views, AnswersComplete

\* A change makes no view wrong that the diff could not mend.
LEMMA ViewWrite ==
  ASSUME ViewsInv, Seen, NEW n \in Nodes, NEW content \in 0..2, Write(n, content)
  PROVE  ViewInv'
<1>1. Typed /\ ViewInv /\ graph \in [Nodes -> 0..2]
  BY DEF ViewsInv, WatchInv, Typed, TypeOK
<1>2. /\ graph' = [graph EXCEPT ![n] = content] /\ (watched => content # cache[n])
      /\ UNCHANGED <<stream, cache, watched, bound, wire, asked, phase, pending, last, cursor,
         view, stale>>
  BY DEF Write, Seen, socket, client, handler
<1>3. watched => \A m \in Nodes : graph'[m] = graph[m] \/ graph'[m] # cache[m]
  BY <1>1, <1>2
<1>4. ASSUME watched, NEW s \in Subs
      PROVE  /\ \A w, i, v : RightBehind(w, i, Matched(s, cache), v, cache, graph)
                               => RightBehind(w, i, Matched(s, cache), v, cache, graph')
             /\ \A events, v, w, i : Completes(events, v, w, i, Matched(s, cache), cache, graph)
                               => Completes(events, v, w, i, Matched(s, cache), cache, graph')
             /\ \A c, v, st : AsOf(c, v, Matched(s, cache), st, cache, graph)
                               => AsOf(c, v, Matched(s, cache), st, cache, graph')
  <2>1. Matched(s, cache) \subseteq Nodes
    BY DEF Matched
  <2>2. \A m \in Matched(s, cache) : graph'[m] = graph[m] \/ graph'[m] # cache[m]
    BY <1>3, <1>4, <2>1
  <2> DEFINE ns == Matched(s, cache)
             new == graph'
  <2> HIDE DEF ns, new
  <2>3. QED
    BY <2>2, WireOutdated DEF ns, new
<1>5. WireSays' /\ Bound' /\ HandlerInv'
  BY <1>1, <1>2 DEF ViewInv, WireSays, Bound, Subscribed, HandlerInv
<1>6. Queries'
  <2> SUFFICES ASSUME NEW s \in Subs, NEW i \in 1..Len(wire), wire[i].kind = "query",
                      wire[i].sub = s,
                      phase[s] = "on"
               PROVE  RightBehind(wire, i, Matched(s, cache), wire[i].what, cache, graph')
    BY <1>1, <1>2 DEF ViewInv, Queries
  <2>1. watched
    BY <1>1 DEF ViewInv, Bound, Subscribed
  <2>2. RightBehind(wire, i, Matched(s, cache), wire[i].what, cache, graph)
    BY <1>1 DEF ViewInv, Queries
  <2>3. QED
    BY <1>4, <2>1, <2>2
<1>7. Views'
  <2> SUFFICES ASSUME NEW s \in Subs, ~stale[s]
               PROVE  IF phase[s] = "on" THEN RightBehind(wire, 0, Matched(s, cache), view[s], cache,
                      graph')
                      ELSE AsOf(cursor[s], view[s], Matched(s, cache), stream, cache, graph')
    BY <1>2 DEF Views
  <2>1. CASE phase[s] = "on"
    <3>1. watched /\ RightBehind(wire, 0, Matched(s, cache), view[s], cache, graph)
      BY <1>1, <2>1 DEF ViewInv, Bound, Subscribed, Views
    <3>2. QED
      BY <1>4, <2>1, <3>1
  <2>2. CASE phase[s] # "on"
    <3>1. AsOf(cursor[s], view[s], Matched(s, cache), stream, cache, graph)
      BY <1>1, <2>2 DEF ViewInv, Views
    <3>2. cursor[s].epoch = stream.epoch => watched
      BY <1>1 DEF ViewInv, HandlerInv
    <3>3. CASE watched
      BY <1>4, <2>2, <3>1, <3>3
    <3>4. CASE cursor[s].epoch # stream.epoch
      BY <2>2, <3>4 DEF AsOf
    <3>5. QED
      BY <3>2, <3>3, <3>4
  <2>3. QED
    BY <2>1, <2>2
<1>8. AnswersComplete'
  <2> SUFFICES ASSUME NEW s \in Subs, NEW i \in 1..Len(wire), wire[i].kind = "since",
                      wire[i].sub = s,
                      ~wire[i].what.resync, ~stale[s]
               PROVE  Completes(wire[i].what.events, view[s], wire, i, Matched(s, cache), cache,
                                graph')
    BY <1>1, <1>2 DEF ViewInv, AnswersComplete
  <2>1. phase[s] = "backfilling"
    BY AnswerPhases DEF ViewsInv
  <2>2. watched
    BY <1>1, <2>1 DEF ViewInv, Bound, Subscribed
  <2>3. Completes(wire[i].what.events, view[s], wire, i, Matched(s, cache), cache, graph)
    BY <1>1 DEF ViewInv, AnswersComplete
  <2>4. QED
    BY <1>4, <2>2, <2>3
<1>9. QED
  BY <1>5, <1>6, <1>7, <1>8 DEF ViewInv

\* What the diff pushes tells every view what it finds changed.
LEMMA ViewDiff ==
  ASSUME ViewsInv, Seen, Diff
  PROVE  ViewInv'
<1> DEFINE ds == Differences
           note == Notify(Stamp(ds))
           N == Len(wire)
<1>1. /\ Typed /\ ViewInv /\ Numbered(stream) /\ recent = SetToSeq(Nodes) /\ watched
      /\ stream \in Streams /\ wire \in Seq(Messages) /\ N \in Nat
  BY DEF ViewsInv, WatchInv, StreamInv, Watching, Diff, Typed
<1>2. /\ ds \in Seq(Event) /\ Listed = graph
      /\ \A n \in Nodes : graph[n] # cache[n] => \E i \in 1..Len(ds) : ds[i].node = n
      /\ \A i \in 1..Len(ds) : ds[i].node \in Nodes /\ ds[i].content = graph[ds[i].node]
  BY <1>1, DifferencesSay
<1>3. /\ stream' = PushAll(stream, ds) /\ cache' = graph /\ wire' = wire \o note
      /\ UNCHANGED <<graph, watched, bound, asked, phase, pending, last, cursor, view, stale>>
  BY <1>2 DEF Diff, client, handler
<1> HIDE DEF ds
<1>4. note \in Seq(EventMessages)
  BY <1>1, <1>2, NotifyKeeps
<1>5. /\ \A j \in 1..Len(note) : \E i \in 1..Len(ds) :
           note[j].what.event = ds[i] /\ note[j].what.seq = stream.latestSeq + i
      /\ \A i \in 1..Len(ds) : (\E nodes \in bound : Matches(ds[i], nodes)) =>
           \E j \in 1..Len(note) : note[j].what.event = ds[i]
  <2>1. Typed /\ ds \in Seq(Event) /\ note = Notify(Stamp(ds))
    BY <1>1, <1>2
  <2> HIDE DEF note
  <2>2. Noted(note, ds, stream.latestSeq, bound)
    BY <2>1, NotifySays
  <2>3. QED
    BY <2>2 DEF Noted
<1> HIDE DEF note
<1>6. /\ Len(wire') = N + Len(note) /\ Len(note) \in Nat
      /\ \A i \in 1..N : wire'[i] = wire[i] /\ i \in 1..Len(wire')
      /\ \A i \in 1..Len(wire') : \/ i \in 1..N
                                  \/ i - N \in 1..Len(note) /\ wire'[i] = note[i - N]
                                     /\ wire'[i].kind = "event"
  <2>1. \A x \in EventMessages : x.kind = "event"
    BY DEF EventMessages
  <2>2. Len(note) \in Nat /\ \A j \in 1..Len(note) : note[j].kind = "event"
    BY <1>4, <2>1
  <2>3. /\ Len(wire') = N + Len(note) /\ \A i \in 1..N : wire'[i] = wire[i]
        /\ \A i \in (N + 1)..(N + Len(note)) : wire'[i] = note[i - N]
    BY <1>1, <1>3, <1>4
  <2> HIDE DEF N
  <2>4. \A i \in 1..(N + Len(note)) : i \in 1..N
          \/ (i \in (N + 1)..(N + Len(note)) /\ i - N \in 1..Len(note))
    BY <1>1, <2>2
  <2>5. \A i \in 1..N : i \in 1..(N + Len(note))
    BY <1>1, <2>2
  <2>6. QED
    BY <2>2, <2>3, <2>4, <2>5
<1>7. ASSUME NEW s \in Subs, bound = {Filter[s]}
      PROVE  Tells(note, Matched(s, graph), cache, graph)
  <2>1. ASSUME NEW n \in Matched(s, graph), graph[n] # cache[n]
        PROVE  \E j \in 1..Len(note) : note[j].what.event.node = n
    <3>1. n \in Nodes /\ (graph[n] = 0 \/ <<n, graph[n]>> \in Filter[s])
      BY DEF Matched
    <3>2. PICK i \in 1..Len(ds) : ds[i].node = n
      BY <1>2, <2>1, <3>1
    <3>3. Filter[s] \in bound /\ Matches(ds[i], Filter[s])
      BY <1>2, <1>7, <3>1, <3>2 DEF Matches
    <3>4. PICK j \in 1..Len(note) : note[j].what.event = ds[i]
      BY <1>5, <3>3
    <3>5. QED
      BY <3>2, <3>4
  <2>2. ASSUME NEW j \in 1..Len(note)
        PROVE  note[j].what.event.content = graph[note[j].what.event.node]
    <3>1. PICK i \in 1..Len(ds) : note[j].what.event = ds[i]
      BY <1>5
    <3>2. QED
      BY <1>2, <3>1
  <2>3. QED
    BY <2>1, <2>2 DEF Tells
<1>8. ASSUME NEW s \in Subs, bound = {Filter[s]}, NEW i \in 0..N
      PROVE  /\ \A v : RightBehind(wire, i, Matched(s, cache), v, cache, graph)
                         => RightBehind(wire', i, Matched(s, graph), v, graph, graph)
             /\ Telling(wire, i, Matched(s, cache), cache) => Telling(wire', i, Matched(s, graph),
                                                                      graph)
             /\ \A events, v : Completes(events, v, wire, i, Matched(s, cache), cache, graph)
                         => Completes(events, v, wire', i, Matched(s, graph), graph, graph)
  <2> DEFINE u == wire'
             ns == Matched(s, cache)
             now == Matched(s, graph)
  <2>1. Tells(note, now, cache, graph) /\ u = wire \o note /\ i \in 0..Len(wire)
    BY <1>3, <1>7, <1>8
  <2>2. \A n \in now : graph[n] = cache[n] => n \in ns
    BY DEF Matched
  <2> HIDE DEF u, ns, now
  <2>3. QED
    BY <1>1, <1>4, <2>1, <2>2, WireTold DEF u, ns, now
<1>9. WireSays'
  <2>1. ASSUME NEW i \in 1..Len(wire'), wire'[i].kind = "event", wire'[i].what.seq >= First(stream')
        PROVE  wire'[i].what.event = Said(stream', wire'[i].what.seq)
    <3> DEFINE t == stream'
               L == stream.latestSeq
               q == wire'[i].what.seq
    <3>1. /\ t.latestSeq = L + Len(ds) /\ First(t) \in Int /\ First(t) >= First(stream)
          /\ \A r \in First(t)..t.latestSeq :
               \/ r \in First(stream)..L /\ Said(t, r) = Said(stream, r)
               \/ r - L \in 1..Len(ds) /\ Said(t, r) = ds[r - L]
      BY <1>1, <1>2, <1>3, PushAllSays
    <3>2. L \in Nat /\ Len(ds) \in Nat /\ First(stream) \in Int
      BY <1>1, <1>2, FirstNumber
    <3>3. CASE i \in 1..N
      <4>1. wire'[i] = wire[i] /\ wire[i].what \in Stamped
        BY <1>1, <1>6, <2>1, <3>3, WireTyped
      <4>2. q \in Nat /\ q <= L
        BY <2>1, <3>3, <4>1 DEF ViewsInv, WatchInv, InOrder, WireOrder, Issued, Stamped
      <4>3. q \in First(t)..t.latestSeq /\ ~(q - L \in 1..Len(ds)) /\ q >= First(stream)
        BY <2>1, <3>1, <3>2, <4>2
      <4>4. Said(t, q) = Said(stream, q)
        BY <3>1, <4>3
      <4>5. QED
        BY <1>1, <2>1, <3>3, <4>1, <4>3, <4>4 DEF ViewInv, WireSays
    <3>4. CASE i - N \in 1..Len(note) /\ wire'[i] = note[i - N]
      <4>1. PICK k \in 1..Len(ds) : wire'[i].what.event = ds[k] /\ q = L + k
        BY <1>5, <3>4
      <4>2. q \in First(t)..t.latestSeq /\ q - L = k /\ ~(q \in First(stream)..L)
        BY <2>1, <3>1, <3>2, <4>1
      <4>3. Said(t, q) = ds[k]
        BY <3>1, <4>2
      <4>4. QED
        BY <4>1, <4>3
    <3>5. QED
      BY <1>6, <3>3, <3>4
  <2>2. QED
    BY <1>1, <1>3, <2>1 DEF WireSays
<1>10. Bound'
  <2> SUFFICES ASSUME NEW s \in Subs
               PROVE  /\ asked[s] = "unsubscribe" => phase[s] = "off"
                      /\ Subscribed(s) => watched /\ bound = {Filter[s]}
                         /\ Telling(wire', 0, Matched(s, graph), graph)
                      /\ \A i \in 1..Len(wire') : wire'[i].kind = "subscribe" /\ wire'[i].sub = s
                           => watched /\ bound = {Filter[s]} /\ Telling(wire', i, Matched(s, graph),
                                                                        graph)
    BY <1>3 DEF Bound, Subscribed
  <2>1. asked[s] = "unsubscribe" => phase[s] = "off"
    BY <1>1 DEF ViewInv, Bound
  <2>2. ASSUME Subscribed(s)
        PROVE  watched /\ bound = {Filter[s]} /\ Telling(wire', 0, Matched(s, graph), graph)
    <3>1. watched /\ bound = {Filter[s]} /\ Telling(wire, 0, Matched(s, cache), cache) /\ 0 \in 0..N
      BY <1>1, <2>2 DEF ViewInv, Bound
    <3>2. QED
      BY <1>8, <3>1
  <2>3. ASSUME NEW i \in 1..Len(wire'), wire'[i].kind = "subscribe", wire'[i].sub = s
        PROVE  watched /\ bound = {Filter[s]} /\ Telling(wire', i, Matched(s, graph), graph)
    <3>1. i \in 1..N /\ i \in 0..N /\ wire[i] = wire'[i]
      BY <1>1, <1>6, <2>3
    <3>2. watched /\ bound = {Filter[s]} /\ Telling(wire, i, Matched(s, cache), cache)
      BY <1>1, <2>3, <3>1 DEF ViewInv, Bound
    <3>3. QED
      BY <1>8, <3>1, <3>2
  <2>4. QED
    BY <2>1, <2>2, <2>3
<1>11. HandlerInv'
  BY <1>1, <1>3 DEF ViewInv, HandlerInv
<1>12. Queries'
  <2> SUFFICES ASSUME NEW s \in Subs
               PROVE  /\ asked[s] = "query" => phase[s] = "on"
                      /\ \A i \in 1..Len(wire') : wire'[i].kind = "query" /\ wire'[i].sub = s =>
                           /\ phase[s] # "backfilling"
                           /\ phase[s] \in {"subscribing", "resuming"} =>
                                asked[s] = "subscribe" \/ Followed(wire', i, s)
                           /\ phase[s] = "on" => RightBehind(wire', i, Matched(s, graph),
                                                             wire'[i].what,
                              graph, graph)
    BY <1>3 DEF Queries
  <2>1. asked[s] = "query" => phase[s] = "on"
    BY <1>1 DEF ViewInv, Queries
  <2>2. ASSUME NEW i \in 1..Len(wire'), wire'[i].kind = "query", wire'[i].sub = s
        PROVE  /\ phase[s] # "backfilling"
               /\ phase[s] \in {"subscribing", "resuming"} =>
                    asked[s] = "subscribe" \/ Followed(wire', i, s)
               /\ phase[s] = "on" => RightBehind(wire', i, Matched(s, graph), wire'[i].what, graph,
                                                 graph)
    <3>1. i \in 1..N /\ i \in 0..N /\ wire[i] = wire'[i]
      BY <1>1, <1>6, <2>2
    <3>2. /\ phase[s] # "backfilling"
          /\ phase[s] \in {"subscribing", "resuming"} =>
               asked[s] = "subscribe" \/ Followed(wire, i, s)
          /\ phase[s] = "on" => RightBehind(wire, i, Matched(s, cache), wire[i].what, cache, graph)
      BY <1>1, <2>2, <3>1 DEF ViewInv, Queries
    <3>3. Followed(wire, i, s) => Followed(wire', i, s)
      <4>1. \A j \in (i + 1)..N : j \in (i + 1)..Len(wire') /\ wire'[j] = wire[j]
        BY <1>1, <1>6, <3>1
      <4>2. QED
        BY <4>1 DEF Followed
    <3>4. phase[s] = "on" => bound = {Filter[s]}
      BY <1>1 DEF ViewInv, Bound, Subscribed
    <3>5. phase[s] = "on" => RightBehind(wire', i, Matched(s, graph), wire'[i].what, graph, graph)
      BY <1>8, <3>1, <3>2, <3>4
    <3>6. QED
      BY <3>2, <3>3, <3>5
  <2>3. QED
    BY <2>1, <2>2
<1>13. Views'
  <2> SUFFICES ASSUME NEW s \in Subs, ~stale[s]
               PROVE  IF phase[s] = "on" THEN RightBehind(wire', 0, Matched(s, graph), view[s], graph,
                      graph)
                      ELSE AsOf(cursor[s], view[s], Matched(s, graph), stream', graph, graph)
    BY <1>3 DEF Views
  <2>1. CASE phase[s] = "on"
    <3>1. bound = {Filter[s]} /\ RightBehind(wire, 0, Matched(s, cache), view[s], cache, graph)
            /\ 0 \in 0..N
      BY <1>1, <2>1 DEF ViewInv, Bound, Subscribed, Views
    <3>2. QED
      BY <1>8, <2>1, <3>1
  <2>2. CASE phase[s] # "on"
    <3>1. AsOf(cursor[s], view[s], Matched(s, cache), stream, cache, graph)
      BY <1>1, <2>2 DEF ViewInv, Views
    <3>2. cursor[s] \in Positions
      BY <1>1 DEF Typed
    <3>3. cursor[s].epoch = stream.epoch => cursor[s].seq <= stream.latestSeq
      BY DEF ViewsInv, WatchInv, InOrder, CursorOrder
    <3> DEFINE t == stream'
               c == cursor[s]
               ns == Matched(s, cache)
               now == Matched(s, graph)
               v == view[s]
    <3>4. now \subseteq Nodes /\ \A n \in now : graph[n] = cache[n] => n \in ns
      BY DEF Matched
    <3>5. /\ t = PushAll(stream, ds) /\ c \in Positions /\ AsOf(c, v, ns, stream, cache, graph)
          /\ c.epoch = stream.epoch => c.seq <= stream.latestSeq
      BY <1>3, <3>1, <3>2, <3>3
    <3> HIDE DEF t, c, ns, now, v
    <3>6. AsOf(c, v, now, t, graph, graph)
      <4>1. Numbered(stream) /\ stream \in Streams /\ ds \in Seq(Event)
        BY <1>1, <1>2
      <4>2. /\ \A n \in Nodes : graph[n] # cache[n] => \E i \in 1..Len(ds) : ds[i].node = n
            /\ \A i \in 1..Len(ds) : ds[i].node \in Nodes /\ ds[i].content = graph[ds[i].node]
        BY <1>2
      <4>3. QED
        BY <3>4, <3>5, <4>1, <4>2, AsOfDiffed
    <3>7. QED
      BY <2>2, <3>6 DEF t, c, now, v
  <2>3. QED
    BY <2>1, <2>2
<1>14. AnswersComplete'
  <2> SUFFICES ASSUME NEW s \in Subs, NEW i \in 1..Len(wire'), wire'[i].kind = "since",
                      wire'[i].sub = s,
                      ~wire'[i].what.resync, ~stale[s]
               PROVE  /\ Rising(wire'[i].what.events)
                      /\ Completes(wire'[i].what.events, view[s], wire', i, Matched(s, graph),
                                   graph, graph)
                      /\ \A k \in 1..Len(pending[s]) : Among(pending[s][k], wire'[i].what.events)
                      /\ \A j \in 1..(i - 1) : wire'[j].kind = "event"
                         => Among(wire'[j].what, wire'[i].what.events)
    BY <1>3 DEF AnswersComplete
  <2>1. i \in 1..N /\ i \in 0..N /\ wire[i] = wire'[i]
    BY <1>1, <1>6
  <2>2. /\ Rising(wire[i].what.events)
        /\ Completes(wire[i].what.events, view[s], wire, i, Matched(s, cache), cache, graph)
        /\ \A k \in 1..Len(pending[s]) : Among(pending[s][k], wire[i].what.events)
        /\ \A j \in 1..(i - 1) : wire[j].kind = "event" => Among(wire[j].what, wire[i].what.events)
    BY <1>1, <2>1 DEF ViewInv, AnswersComplete
  <2>3. phase[s] = "backfilling"
    BY <2>1, AnswerPhases DEF ViewsInv
  <2>4. bound = {Filter[s]}
    BY <1>1, <2>3 DEF ViewInv, Bound, Subscribed
  <2>5. \A j \in 1..(i - 1) : j \in 1..N /\ wire'[j] = wire[j]
    BY <1>1, <1>6, <2>1
  <2>6. QED
    BY <1>8, <2>1, <2>2, <2>4, <2>5
<1>15. QED
  BY <1>9, <1>10, <1>11, <1>12, <1>13, <1>14 DEF ViewInv

\* An answer goes on the wire.
LEMMA ViewAppended ==
  ASSUME ViewsInv, NEW s \in Subs, asked' = [asked EXCEPT ![s] = "none"],
         NEW m \in Messages, m.kind # "event", m.kind # "subscribe", wire' = Append(wire, m),
         UNCHANGED <<graph, stream, cache, watched, bound, phase, pending, last, cursor, view,
         stale>>
  PROVE  WireSays' /\ Bound' /\ HandlerInv' /\ Views'
<1> DEFINE N == Len(wire)
<1>1. /\ Typed /\ ViewInv /\ wire \in Seq(Messages) /\ m.kind # "event" /\ m.kind # "subscribe"
      /\ asked \in [Subs -> {"none", "subscribe", "since", "query", "unsubscribe"}]
  BY DEF ViewsInv, WatchInv, Typed, TypeOK
<1>2. N \in Nat /\ Len(wire') = N + 1 /\ wire'[N + 1] = m /\ \A i \in 1..N : wire'[i] = wire[i]
  BY <1>1, Appended
<1>3. \A i \in 1..Len(wire') : wire'[i].kind \in {"event", "subscribe"} => i \in 1..N
        /\ i \in 0..N /\ wire'[i] = wire[i]
  BY <1>1, <1>2
<1>4. ASSUME NEW i \in 0..N
      PROVE  /\ \A ns, v, ca, gr : RightBehind(wire, i, ns, v, ca, gr)
                => RightBehind(wire', i, ns, v, ca, gr)
             /\ \A ns, ca : Telling(wire, i, ns, ca) => Telling(wire', i, ns, ca)
  <2> DEFINE u == wire'
  <2>1. u = Append(wire, m) /\ i \in 0..Len(wire)
    OBVIOUS
  <2> HIDE DEF u
  <2>2. QED
    BY <1>1, <2>1, WireAppended DEF u
<1>5. WireSays'
  BY <1>1, <1>3 DEF ViewInv, WireSays
<1>6. HandlerInv'
  BY <1>1 DEF ViewInv, HandlerInv
<1>7. Bound'
  <2> SUFFICES ASSUME NEW w \in Subs
               PROVE  /\ asked'[w] = "unsubscribe" => phase[w] = "off"
                      /\ Subscribed(w) => watched /\ bound = {Filter[w]}
                         /\ Telling(wire', 0, Matched(w, cache), cache)
                      /\ \A i \in 1..Len(wire') : wire'[i].kind = "subscribe" /\ wire'[i].sub = w
                           => watched /\ bound = {Filter[w]} /\ Telling(wire', i, Matched(w, cache),
                                                                        cache)
    BY DEF Bound, Subscribed
  <2>1. asked'[w] = "unsubscribe" => phase[w] = "off"
    BY <1>1 DEF ViewInv, Bound
  <2>2. ASSUME Subscribed(w)
        PROVE  watched /\ bound = {Filter[w]} /\ Telling(wire', 0, Matched(w, cache), cache)
    <3>1. watched /\ bound = {Filter[w]} /\ Telling(wire, 0, Matched(w, cache), cache) /\ 0 \in 0..N
      BY <1>1, <1>2, <2>2 DEF ViewInv, Bound
    <3>2. QED
      BY <1>4, <3>1
  <2>3. ASSUME NEW i \in 1..Len(wire'), wire'[i].kind = "subscribe", wire'[i].sub = w
        PROVE  watched /\ bound = {Filter[w]} /\ Telling(wire', i, Matched(w, cache), cache)
    <3>1. i \in 1..N /\ i \in 0..N /\ wire[i] = wire'[i]
      BY <1>3, <2>3
    <3>2. watched /\ bound = {Filter[w]} /\ Telling(wire, i, Matched(w, cache), cache)
      BY <1>1, <2>3, <3>1 DEF ViewInv, Bound
    <3>3. QED
      BY <1>4, <3>1, <3>2
  <2>4. QED
    BY <2>1, <2>2, <2>3
<1>8. Views'
  <2> SUFFICES ASSUME NEW w \in Subs, ~stale[w]
               PROVE  IF phase[w] = "on" THEN RightBehind(wire', 0, Matched(w, cache), view[w], cache,
                      graph)
                      ELSE AsOf(cursor[w], view[w], Matched(w, cache), stream, cache, graph)
    BY DEF Views
  <2>1. IF phase[w] = "on" THEN RightBehind(wire, 0, Matched(w, cache), view[w], cache, graph)
        ELSE AsOf(cursor[w], view[w], Matched(w, cache), stream, cache, graph)
    BY <1>1 DEF ViewInv, Views
  <2>2. 0 \in 0..N
    BY <1>2
  <2>3. QED
    BY <1>4, <2>1, <2>2
<1>9. QED
  BY <1>5, <1>6, <1>7, <1>8

LEMMA ViewServeQuery ==
  ASSUME ViewsInv, OneSub, NEW s \in Subs, ServeQuery(s)
  PROVE  ViewInv'
<1> DEFINE N == Len(wire)
           what == [n \in Nodes |-> IF <<n, graph[n]>> \in Filter[s] THEN graph[n] ELSE 0]
           m == Reply(s, "query", what)
<1>1. /\ Typed /\ ViewInv /\ wire \in Seq(Messages) /\ graph \in [Nodes -> 0..2]
      /\ asked \in [Subs -> {"none", "subscribe", "since", "query", "unsubscribe"}]
  BY DEF ViewsInv, WatchInv, Typed, TypeOK
<1>2. /\ asked[s] = "query" /\ wire' = Append(wire, m) /\ asked' = [asked EXCEPT ![s] = "none"]
      /\ UNCHANGED <<graph, stream, cache, watched, bound, phase, pending, last, cursor, view,
         stale>>
  BY DEF ServeQuery, server, client, handler
<1>3. m.kind = "query" /\ m.what = what /\ m \in Messages
  <2>1. what \in Contents
    BY <1>1 DEF Typed, TypeOK, Contents
  <2> HIDE DEF what
  <2>2. QED
    BY <2>1 DEF Reply, Messages
<1> HIDE DEF m
<1>4. WireSays' /\ Bound' /\ HandlerInv' /\ Views'
  <2>1. m.kind # "event" /\ m.kind # "subscribe"
    BY <1>3
  <2>2. QED
    BY <1>2, <1>3, <2>1, ViewAppended
<1>5. N \in Nat /\ Len(wire') = N + 1 /\ wire'[N + 1] = m /\ \A i \in 1..N : wire'[i] = wire[i]
  BY <1>1, <1>2, Appended
<1>6. phase[s] = "on" /\ asked'[s] = "none"
  BY <1>1, <1>2 DEF ViewInv, Queries
<1>7. ASSUME NEW i \in 1..N
      PROVE  /\ \A v, ns, ca, gr : RightBehind(wire, i, ns, v, ca, gr)
                => RightBehind(wire', i, ns, v, ca, gr)
             /\ \A events, v, ns, ca, gr : Completes(events, v, wire, i, ns, ca, gr)
                                             => Completes(events, v, wire', i, ns, ca, gr)
  <2> DEFINE u == wire'
  <2>1. u = Append(wire, m) /\ i \in 0..Len(wire) /\ m.kind # "event"
    BY <1>2, <1>3
  <2> HIDE DEF u
  <2>2. QED
    BY <1>1, <2>1, WireAppended DEF u
<1>8. Queries'
  <2> SUFFICES ASSUME NEW i \in 1..Len(wire'), wire'[i].kind = "query", wire'[i].sub = s
               PROVE  RightBehind(wire', i, Matched(s, cache), wire'[i].what, cache, graph)
    <3>1. \A w \in Subs : w = s
      BY DEF OneSub
    <3>2. QED
      BY <1>2, <1>6, <3>1 DEF Queries
  <2>1. CASE i \in 1..N
    <3>1. wire'[i] = wire[i]
      BY <1>5, <2>1
    <3>2. RightBehind(wire, i, Matched(s, cache), wire[i].what, cache, graph)
      BY <1>1, <1>6, <2>1, <3>1 DEF ViewInv, Queries
    <3>3. QED
      BY <1>7, <2>1, <3>1, <3>2
  <2>2. CASE i = N + 1
    <3>1. wire'[i].what = what
      BY <1>3, <1>5, <2>2
    <3>2. \A n \in Matched(s, cache) : what[n] = graph[n] \/ graph[n] # cache[n]
      BY <1>1 DEF Matched
    <3>3. QED
      BY <3>1, <3>2 DEF RightBehind, Right
  <2>3. QED
    BY <1>5, <2>1, <2>2
<1>9. AnswersComplete'
  <2> SUFFICES ASSUME NEW i \in 1..Len(wire'), wire'[i].kind = "since"
               PROVE  phase[wire'[i].sub] = "backfilling" /\ wire'[i].sub \in Subs
    <3>1. \A w \in Subs : phase[w] # "backfilling"
      BY <1>6 DEF OneSub
    <3>2. QED
      BY <3>1 DEF AnswersComplete
  <2>1. i \in 1..N /\ wire[i] = wire'[i]
    BY <1>3, <1>5
  <2>2. QED
    BY <1>1, <2>1, AnswerPhases, WireTyped DEF ViewsInv
<1>10. QED
  BY <1>4, <1>8, <1>9 DEF ViewInv

LEMMA ViewServeUnsubscribe ==
  ASSUME ViewsInv, OneSub, NEW s \in Subs, ServeUnsubscribe(s)
  PROVE  ViewInv'
<1>1. /\ Typed /\ ViewInv
      /\ asked \in [Subs -> {"none", "subscribe", "since", "query", "unsubscribe"}]
  BY DEF ViewsInv, WatchInv, Typed, TypeOK
<1>2. /\ asked[s] = "unsubscribe" /\ asked' = [asked EXCEPT ![s] = "none"]
      /\ UNCHANGED <<graph, stream, cache, watched, wire, phase, pending, last, cursor, view,
         stale>>
  BY DEF ServeUnsubscribe, server, client, handler
<1>3. phase[s] = "off" /\ asked'[s] = "none" /\ \A w \in Subs : w = s
  BY <1>1, <1>2 DEF ViewInv, Bound, OneSub
<1>4. \A i \in 1..Len(wire) : wire[i].kind \notin {"subscribe", "since"}
  BY <1>1, <1>3, AnswerPhases, WireTyped DEF ViewsInv
<1>5. WireSays' /\ HandlerInv' /\ Views' /\ AnswersComplete'
  BY <1>1, <1>2 DEF ViewInv, WireSays, HandlerInv, Views, AnswersComplete
<1>6. Bound'
  BY <1>2, <1>3, <1>4 DEF Bound, Subscribed
<1>7. Queries'
  BY <1>2, <1>3 DEF Queries
<1>8. QED
  BY <1>5, <1>6, <1>7 DEF ViewInv

\* What events.since answers from a cursor brings the view of that cursor up to date,
\* and no event after the cursor is missing.
LEMMA AnswerCompletes ==
  ASSUME NEW st \in Streams, NEW c \in Positions, Numbered(st), NEW ca, NEW gr, LastSaid(st, ca),
         c.epoch = st.epoch => c.seq <= st.latestSeq,
         NEW ns, ns \subseteq Nodes, NEW v \in Contents, AsOf(c, v, ns, st, ca, gr),
         NEW a, a = Since(st, c), ~a.resync
  PROVE  /\ Rising(a.events)
         /\ \A u \in Contents : Taken(v, a.events, Len(a.events), u)
            => \A n \in ns : Right(u[n], n, ca, gr)
         /\ \A x \in Stamped : Issued(x, st) /\ After(x, c) => Among(x, a.events)
<1> DEFINE E == a.events
           N == Len(E)
<1>1. /\ E \in Seq(Stamped) /\ c.seq \in Nat /\ c.epoch = st.epoch /\ c.seq + 1 >= First(st)
      /\ N = st.latestSeq - c.seq /\ Replayed(E, st, c.seq)
  BY SinceSays DEF Replayed
<1>2. c.seq \in Nat /\ st.latestSeq \in Nat /\ c.seq <= st.latestSeq /\ st.epoch \in Int
  BY <1>1, FirstNumber, PositionNumbers
<1> HIDE DEF E
<1>3. N \in Nat
  BY <1>1
<1>4. \A k \in 1..N : E[k].seq = c.seq + k
  BY <1>1 DEF Replayed
<1>5. Rising(E)
  <2> SUFFICES ASSUME NEW k \in 1..N, NEW m \in 1..N, k < m PROVE E[k].seq < E[m].seq
    BY DEF Rising
  <2>1. c.seq + k < c.seq + m
    BY <1>2, <1>3
  <2>2. QED
    BY <1>4, <2>1
<1>6. ASSUME NEW u \in Contents, Taken(v, E, N, u) PROVE \A n \in ns : Right(u[n], n, ca, gr)
  BY <1>1, <1>2, <1>3, <1>6, TakenIn
<1>7. ASSUME NEW x \in Stamped, Issued(x, st), After(x, c) PROVE Among(x, E)
  <2>1. x.seq \in Nat /\ x.seq <= st.latestSeq /\ x.seq > c.seq
    BY <1>1, <1>2, <1>7 DEF Issued, After, Stamped
  <2>2. N # 0 /\ N \in 1..N /\ c.seq + N = st.latestSeq
    <3>1. N = st.latestSeq - c.seq
      BY <1>1
    <3> HIDE DEF N
    <3>2. QED
      BY <1>2, <2>1, <3>1
  <2>3. E # << >> /\ E[N].seq = st.latestSeq
    BY <1>4, <2>2
  <2>4. QED
    BY <2>1, <2>3 DEF Among
<1>8. QED
  BY <1>5, <1>6, <1>7 DEF E

LEMMA ViewServeSince ==
  ASSUME ViewsInv, OneSub, NEW s \in Subs, ServeSince(s)
  PROVE  ViewInv'
<1> DEFINE N == Len(wire)
           a == Since(stream, cursor[s])
           m == Reply(s, "since", a)
<1>1. /\ Typed /\ ViewInv /\ wire \in Seq(Messages) /\ Matched(s, cache) \subseteq Nodes
      /\ asked \in [Subs -> {"none", "subscribe", "since", "query", "unsubscribe"}]
      /\ stream \in Streams /\ cursor[s] \in Positions /\ view[s] \in Contents
      /\ Numbered(stream) /\ LastSaid(stream, cache)
      /\ cursor[s].epoch = stream.epoch => cursor[s].seq <= stream.latestSeq
  BY DEF ViewsInv, WatchInv, StreamInv, InOrder, CursorOrder, Typed, TypeOK, Contents, Matched
<1>2. /\ asked[s] = "since" /\ wire' = Append(wire, m) /\ asked' = [asked EXCEPT ![s] = "none"]
      /\ UNCHANGED <<graph, stream, cache, watched, bound, phase, pending, last, cursor, view,
         stale>>
  BY DEF ServeSince, server, client, handler
<1>3. m.kind = "since" /\ m.what = a /\ m \in Messages
  <2>1. a \in Answers
    BY <1>1, SinceKeeps
  <2> HIDE DEF a
  <2>2. QED
    BY <2>1 DEF Reply, Messages
<1> HIDE DEF m, a
<1>4. WireSays' /\ Bound' /\ HandlerInv' /\ Views'
  <2>1. m.kind # "event" /\ m.kind # "subscribe"
    BY <1>3
  <2>2. QED
    BY <1>2, <1>3, <2>1, ViewAppended
<1>5. N \in Nat /\ Len(wire') = N + 1 /\ wire'[N + 1] = m /\ \A i \in 1..N : wire'[i] = wire[i]
  BY <1>1, <1>2, Appended
<1>6. phase[s] = "backfilling" /\ \A w \in Subs : w = s
  BY <1>2 DEF ViewsInv, WatchInv, Tokens, AskedInPhase, OneSub
<1>7. Queries'
  <2>1. ASSUME NEW i \in 1..Len(wire') PROVE wire'[i].kind # "query"
    <3>1. CASE i = N + 1
      BY <1>3, <1>5, <3>1
    <3>2. CASE i \in 1..N
      BY <1>1, <1>5, <1>6, <3>2, WireTyped DEF ViewInv, Queries
    <3>3. QED
      BY <1>5, <3>1, <3>2
  <2>2. asked'[s] = "none"
    BY <1>1, <1>2
  <2>3. QED
    BY <1>6, <2>1, <2>2 DEF Queries
<1>8. AnswersComplete'
  <2> SUFFICES ASSUME NEW i \in 1..Len(wire'), wire'[i].kind = "since", wire'[i].sub = s,
                      ~wire'[i].what.resync, ~stale[s]
               PROVE  /\ Rising(wire'[i].what.events)
                      /\ Completes(wire'[i].what.events, view[s], wire', i, Matched(s, cache),
                                   cache, graph)
                      /\ \A k \in 1..Len(pending[s]) : Among(pending[s][k], wire'[i].what.events)
                      /\ \A j \in 1..(i - 1) : wire'[j].kind = "event"
                         => Among(wire'[j].what, wire'[i].what.events)
    BY <1>2, <1>6 DEF AnswersComplete
  <2>1. i = N + 1 /\ wire'[i].what = a
    <3>1. i \notin 1..N
      BY <1>2, <1>5 DEF ViewsInv, WatchInv, Tokens, AnswerInPhase
    <3>2. QED
      BY <1>3, <1>5, <3>1
  <2>2. AsOf(cursor[s], view[s], Matched(s, cache), stream, cache, graph)
    BY <1>1, <1>6 DEF ViewInv, Views
  <2>3. /\ Rising(a.events)
        /\ \A u \in Contents : Taken(view[s], a.events, Len(a.events), u)
                                 => \A n \in Matched(s, cache) : Right(u[n], n, cache, graph)
        /\ \A x \in Stamped : Issued(x, stream) /\ After(x, cursor[s]) => Among(x, a.events)
    <3>1. ~a.resync
      BY <2>1
    <3> DEFINE c == cursor[s]
               v == view[s]
               ns == Matched(s, cache)
    <3> HIDE DEF c, v, ns
    <3>2. QED
      BY <1>1, <2>2, <3>1, AnswerCompletes DEF a, c, v, ns
  <2>4. Completes(a.events, view[s], wire', i, Matched(s, cache), cache, graph)
    BY <2>3 DEF Completes, RightBehind
  <2>5. ASSUME NEW k \in 1..Len(pending[s]) PROVE Among(pending[s][k], a.events)
    <3>1. pending[s][k] \in Stamped /\ Issued(pending[s][k], stream)
            /\ After(pending[s][k], cursor[s])
      BY <1>1 DEF Typed, ViewsInv, WatchInv, InOrder, PendingOrder
    <3>2. QED
      BY <2>3, <3>1
  <2>6. ASSUME NEW j \in 1..(i - 1), wire'[j].kind = "event" PROVE Among(wire'[j].what, a.events)
    <3>1. j \in 1..N /\ wire'[j] = wire[j]
      BY <1>5, <2>1
    <3>2. wire[j].what \in Stamped /\ Issued(wire[j].what, stream) /\ After(wire[j].what, cursor[s])
      BY <1>1, <2>6, <3>1, WireTyped DEF ViewsInv, WatchInv, InOrder, WireOrder
    <3>3. QED
      BY <2>3, <3>1, <3>2
  <2>7. QED
    BY <2>1, <2>3, <2>4, <2>5, <2>6
<1>9. QED
  BY <1>4, <1>7, <1>8 DEF ViewInv

LEMMA ViewServeSubscribe ==
  ASSUME ViewsInv, Seen, OneSub, NEW s \in Subs, ServeSubscribe(s)
  PROVE  ViewInv'
<1> DEFINE N == Len(wire)
           m == Reply(s, "subscribe", << >>)
<1>1. /\ Typed /\ ViewInv /\ wire \in Seq(Messages)
      /\ asked \in [Subs -> {"none", "subscribe", "since", "query", "unsubscribe"}]
  BY DEF ViewsInv, WatchInv, Typed, TypeOK
<1>2. /\ asked[s] = "subscribe" /\ wire' = Append(wire, m) /\ asked' = [asked EXCEPT ![s] = "none"]
      /\ bound' = {Filter[s]} /\ watched' /\ (watched => cache' = cache)
      /\ UNCHANGED <<graph, stream, phase, pending, last, cursor, view, stale>>
  BY DEF ServeSubscribe, client, handler
<1>3. m.kind = "subscribe" /\ m.sub = s
  BY DEF Reply
<1> HIDE DEF m
<1>4. N \in Nat /\ Len(wire') = N + 1 /\ wire'[N + 1] = m /\ \A i \in 1..N : wire'[i] = wire[i]
  BY <1>1, <1>2, Appended
<1>5. phase[s] \in {"subscribing", "resuming"} /\ asked'[s] = "none" /\ \A w \in Subs : w = s
  BY <1>1, <1>2 DEF ViewsInv, WatchInv, Tokens, AskedInPhase, OneSub
<1>6. ASSUME NEW i \in 1..N PROVE wire[i].kind \in {"event", "query"}
  <2>1. wire[i].kind \in {"event", "subscribe", "since", "query"}
        /\ (wire[i].kind # "event" => wire[i].sub = s)
    BY <1>1, <1>5, WireTyped
  <2>2. wire[i].kind # "since"
    BY <1>5, <2>1, AnswerPhases DEF ViewsInv
  <2>3. wire[i].kind # "subscribe"
    BY <1>2, <2>1 DEF ViewsInv, WatchInv, Tokens, AnswerInPhase
  <2>4. QED
    BY <2>1, <2>2, <2>3
<1>7. WireSays'
  <2>1. \A i \in 1..Len(wire') : wire'[i].kind = "event" => i \in 1..N /\ wire'[i] = wire[i]
    BY <1>3, <1>4
  <2>2. QED
    BY <1>1, <1>2, <2>1 DEF ViewInv, WireSays
<1>8. Bound'
  <2> SUFFICES ASSUME NEW i \in 1..Len(wire'), wire'[i].kind = "subscribe"
               PROVE  Telling(wire', i, Matched(s, cache'), cache')
    BY <1>2, <1>5 DEF Bound, Subscribed
  <2>1. i = N + 1 /\ (i + 1)..Len(wire') = {}
    BY <1>4, <1>6
  <2>2. QED
    BY <2>1 DEF Telling
<1>9. HandlerInv'
  BY <1>1, <1>2 DEF ViewInv, HandlerInv
<1>10. Queries'
  <2> SUFFICES ASSUME NEW i \in 1..Len(wire'), wire'[i].kind = "query" PROVE Followed(wire', i, s)
    BY <1>2, <1>5 DEF Queries
  <2>1. N + 1 \in (i + 1)..Len(wire')
    <3>1. i # N + 1
      BY <1>3, <1>4
    <3>2. QED
      BY <1>4, <3>1
  <2>2. QED
    BY <1>3, <1>4, <2>1 DEF Followed
<1>11. Views'
  <2> SUFFICES ASSUME ~stale[s]
               PROVE  AsOf(cursor[s], view[s], Matched(s, cache'), stream, cache', graph)
    BY <1>2, <1>5 DEF Views
  <2>1. AsOf(cursor[s], view[s], Matched(s, cache), stream, cache, graph)
    BY <1>1, <1>5 DEF ViewInv, Views
  <2>2. CASE watched
    BY <1>2, <2>1, <2>2
  <2>3. CASE ~watched
    <3>1. cursor[s].epoch # stream.epoch
      BY <1>1, <2>3 DEF ViewInv, HandlerInv
    <3>2. QED
      BY <3>1 DEF AsOf
  <2>4. QED
    BY <2>2, <2>3
<1>12. AnswersComplete'
  <2>1. \A i \in 1..Len(wire') : wire'[i].kind # "since"
    BY <1>3, <1>4, <1>6
  <2>2. QED
    BY <2>1 DEF AnswersComplete
<1>13. QED
  BY <1>7, <1>8, <1>9, <1>10, <1>11, <1>12 DEF ViewInv

\* What is known of the messages that are still on the wire.
LEMMA ViewPassed ==
  ASSUME ViewsInv, Received, UNCHANGED <<stream, watched>>
  PROVE  /\ WireSays'
         /\ \A s \in Subs :
              /\ Subscribed(s) => watched /\ bound = {Filter[s]}
                 /\ Telling(wire', 0, Matched(s, cache), cache)
              /\ \A i \in 1..Len(wire') : wire'[i].kind = "subscribe" /\ wire'[i].sub = s =>
                   watched /\ bound = {Filter[s]} /\ Telling(wire', i, Matched(s, cache), cache)
              /\ \A i \in 1..Len(wire') : wire'[i].kind = "query" /\ wire'[i].sub = s =>
                   /\ phase[s] # "backfilling"
                   /\ phase[s] \in {"subscribing", "resuming"} =>
                        \/ asked[s] = "subscribe"
                        \/ Followed(wire', i, s)
                   /\ phase[s] = "on" => RightBehind(wire', i, Matched(s, cache), wire'[i].what,
                                                     cache,
                      graph)
              /\ \A i \in 1..Len(wire') :
                   wire'[i].kind = "since" /\ wire'[i].sub = s /\ ~wire'[i].what.resync
                     /\ ~stale[s] =>
                     /\ Rising(wire'[i].what.events)
                     /\ Completes(wire'[i].what.events, view[s], wire', i, Matched(s, cache), cache,
                                  graph)
                     /\ \A k \in 1..Len(pending[s]) : Among(pending[s][k], wire'[i].what.events)
                     /\ wire[1].kind = "event" => Among(wire[1].what, wire'[i].what.events)
                     /\ \A j \in 1..(i - 1) : wire'[j].kind = "event" =>
                          Among(wire'[j].what, wire'[i].what.events)
<1>1. /\ Typed /\ ViewInv /\ wire \in Seq(Messages) /\ wire # << >> /\ wire' = Tail(wire)
         /\ Len(wire) \in Nat
      /\ Len(wire') = Len(wire) - 1 /\ 1 \in 1..Len(wire)
      /\ \A i \in 1..Len(wire') : wire'[i] = wire[i + 1]
  BY ReceivedTyped DEF ViewsInv, WatchInv, Typed, Received
<1>2. \A i \in 1..Len(wire') : i + 1 \in 1..Len(wire) /\ i \in Nat /\ wire[i + 1] = wire'[i]
        /\ i + 1 \in 0..Len(wire)
                               /\ (i + 1) - 1 = i
  BY <1>1
<1>3. ASSUME NEW i \in Nat
      PROVE  /\ \A ns, v, ca, gr : RightBehind(wire, i + 1, ns, v, ca, gr)
                => RightBehind(wire', i, ns, v, ca, gr)
             /\ \A ns, ca : Telling(wire, i + 1, ns, ca) => Telling(wire', i, ns, ca)
             /\ \A events, v, ns, ca, gr : Completes(events, v, wire, i + 1, ns, ca, gr)
                                             => Completes(events, v, wire', i, ns, ca, gr)
             /\ \A ns, ca : Telling(wire, 0, ns, ca) => Telling(wire, 1, ns, ca)
  <2> DEFINE u == wire'
  <2>1. u = Tail(wire)
    BY <1>1
  <2> HIDE DEF u
  <2>2. QED
    BY <1>1, <2>1, WirePassed DEF u
<1>4. WireSays'
  BY <1>1, <1>2 DEF ViewInv, WireSays
<1>5. ASSUME NEW s \in Subs, Subscribed(s)
      PROVE  watched /\ bound = {Filter[s]} /\ Telling(wire', 0, Matched(s, cache), cache)
  <2>1. watched /\ bound = {Filter[s]} /\ Telling(wire, 0, Matched(s, cache), cache)
    BY <1>1, <1>5 DEF ViewInv, Bound
  <2>2. Telling(wire, 0 + 1, Matched(s, cache), cache) /\ 0 \in Nat
    BY <1>3, <2>1
  <2>3. QED
    BY <1>3, <2>1, <2>2
<1>6. ASSUME NEW s \in Subs, NEW i \in 1..Len(wire'), wire'[i].kind = "subscribe", wire'[i].sub = s
      PROVE  watched /\ bound = {Filter[s]} /\ Telling(wire', i, Matched(s, cache), cache)
  <2>1. watched /\ bound = {Filter[s]} /\ Telling(wire, i + 1, Matched(s, cache), cache)
    BY <1>1, <1>2, <1>6 DEF ViewInv, Bound
  <2>2. QED
    BY <1>2, <1>3, <2>1
<1>7. ASSUME NEW s \in Subs, NEW i \in 1..Len(wire'), wire'[i].kind = "query", wire'[i].sub = s
      PROVE  /\ phase[s] # "backfilling"
             /\ phase[s] \in {"subscribing", "resuming"} => asked[s] = "subscribe"
                \/ Followed(wire', i, s)
             /\ phase[s] = "on" => RightBehind(wire', i, Matched(s, cache), wire'[i].what, cache,
                                               graph)
  <2>1. /\ phase[s] # "backfilling"
        /\ phase[s] \in {"subscribing", "resuming"} => asked[s] = "subscribe"
           \/ Followed(wire, i + 1, s)
        /\ phase[s] = "on" => RightBehind(wire, i + 1, Matched(s, cache), wire'[i].what, cache, graph)
    BY <1>1, <1>2, <1>7 DEF ViewInv, Queries
  <2>2. Followed(wire, i + 1, s) => Followed(wire', i, s)
    <3>1. i + 1 \in 0..Len(wire) /\ i + 1 >= 1 /\ (i + 1) - 1 = i
      BY <1>1
    <3>2. Followed(wire, i + 1, s) => Followed(Tail(wire), (i + 1) - 1, s)
      BY <1>1, <3>1, StillFollowed
    <3>3. QED
      BY <1>1, <3>1, <3>2
  <2>3. QED
    BY <1>2, <1>3, <2>1, <2>2
<1>8. ASSUME NEW s \in Subs, NEW i \in 1..Len(wire'), wire'[i].kind = "since", wire'[i].sub = s,
             ~wire'[i].what.resync, ~stale[s]
      PROVE  /\ Rising(wire'[i].what.events)
             /\ Completes(wire'[i].what.events, view[s], wire', i, Matched(s, cache), cache, graph)
             /\ \A k \in 1..Len(pending[s]) : Among(pending[s][k], wire'[i].what.events)
             /\ wire[1].kind = "event" => Among(wire[1].what, wire'[i].what.events)
             /\ \A j \in 1..(i - 1) : wire'[j].kind = "event" =>
                  Among(wire'[j].what, wire'[i].what.events)
  <2>1. /\ Rising(wire'[i].what.events)
        /\ Completes(wire'[i].what.events, view[s], wire, i + 1, Matched(s, cache), cache, graph)
        /\ \A k \in 1..Len(pending[s]) : Among(pending[s][k], wire'[i].what.events)
        /\ \A j \in 1..((i + 1) - 1) : wire[j].kind = "event"
           => Among(wire[j].what, wire'[i].what.events)
    BY <1>1, <1>2, <1>8 DEF ViewInv, AnswersComplete
  <2>2. 1 \in 1..((i + 1) - 1)
    BY <1>1
  <2>3. \A j \in 1..(i - 1) : j + 1 \in 1..((i + 1) - 1) /\ wire'[j] = wire[j + 1]
    BY <1>1
  <2>4. Completes(wire'[i].what.events, view[s], wire', i, Matched(s, cache), cache, graph)
    BY <1>2, <1>3, <2>1
  <2>5. QED
    BY <2>1, <2>2, <2>3, <2>4
<1>9. QED
  BY <1>4, <1>5, <1>6, <1>7, <1>8

\* An event that is live is heard: it comes after the last that was.
LEMMA LiveIsHeard ==
  ASSUME ViewsInv, NEW s \in Subs, NEW x \in Stamped, Issued(x, stream), After(x, cursor[s])
  PROVE  Deliver(Handler(s), x) = Delivered(Handler(s), x)
<1>1. Handler(s).last = last[s] /\ last[s] \in {NoCursor, cursor[s]} /\ NoCursor.epoch = -1
  BY DEF Handler, ViewsInv, ViewInv, HandlerInv, NoCursor
<1>2. stream.epoch \in Int /\ stream.epoch # -1 /\ x.seq \in Nat /\ cursor[s].epoch \in Int
        /\ cursor[s].seq \in Nat
  BY Numbers, BufferAssumption, PositionNumbers DEF ViewsInv, WatchInv, Typed, Streams, Epochs,
     Stamped
<1>3. ~(x.epoch = last[s].epoch /\ x.seq <= last[s].seq)
  <2>1. CASE last[s] = NoCursor
    BY <1>1, <1>2, <2>1 DEF Issued
  <2>2. CASE last[s] = cursor[s]
    BY <1>2, <2>2 DEF After
  <2>3. QED
    BY <1>1, <2>1, <2>2
<1>4. QED
  BY <1>1, <1>3 DEF Deliver

LEMMA ViewReceiveEvent ==
  ASSUME ViewsInv, ReceiveEvent
  PROVE  ViewInv'
<1> DEFINE x == wire[1].what
           state == [s \in Subs |-> IF Live(s) THEN Deliver(Handler(s), x) ELSE Handler(s)]
<1>1. /\ Typed /\ ViewInv /\ Received /\ wire[1].kind = "event" /\ Become(state)
      /\ pending' = [s \in Subs |-> IF phase[s] = "off" \/ Live(s) THEN pending[s]
         ELSE Append(pending[s], x)]
      /\ UNCHANGED <<graph, stream, cache, watched, bound, asked, phase, stale>>
      /\ view \in [Subs -> Contents]
  BY DEF ReceiveEvent, ViewsInv, WatchInv, server, Typed, TypeOK, Contents
<1>2. /\ 1 \in 1..Len(wire) /\ x \in Stamped /\ Len(wire) \in Nat
      /\ Len(wire') = Len(wire) - 1 /\ \A i \in 1..Len(wire') : wire'[i] = wire[i + 1]
  BY <1>1, ReceivedTyped, WireTyped DEF Typed
<1>3. Issued(x, stream) /\ \A s \in Subs : After(x, cursor[s])
  BY <1>1, <1>2 DEF ViewsInv, WatchInv, InOrder, WireOrder
<1>4. watched
  BY <1>1, <1>2 DEF ViewInv, WireSays
<1> HIDE DEF x
<1>5. ASSUME NEW s \in Subs, Live(s)
      PROVE  /\ last'[s] = At(x) /\ cursor'[s] = At(x)
             /\ view'[s] = [view[s] EXCEPT ![x.event.node] = x.event.content]
  <2>1. Deliver(Handler(s), x) = Delivered(Handler(s), x)
    BY <1>2, <1>3, LiveIsHeard
  <2>2. /\ last'[s] = Delivered(Handler(s), x).last /\ cursor'[s] = Delivered(Handler(s), x).cursor
        /\ view'[s] = Delivered(Handler(s), x).view
    BY <1>1, <1>5, <2>1 DEF Become
  <2>3. QED
    BY <2>2 DEF Delivered, At, Handler
<1>6. ASSUME NEW s \in Subs, ~Live(s)
      PROVE  last'[s] = last[s] /\ cursor'[s] = cursor[s] /\ view'[s] = view[s]
  BY <1>1, <1>6 DEF Become, Handler
<1> HIDE DEF state
<1>7. /\ WireSays'
      /\ \A s \in Subs :
           /\ Subscribed(s) => watched /\ bound = {Filter[s]} /\ Telling(wire', 0, Matched(s,
                                                                                           cache), cache)
           /\ \A i \in 1..Len(wire') : wire'[i].kind = "subscribe" /\ wire'[i].sub = s =>
                watched /\ bound = {Filter[s]} /\ Telling(wire', i, Matched(s, cache), cache)
           /\ \A i \in 1..Len(wire') : wire'[i].kind = "query" /\ wire'[i].sub = s =>
                /\ phase[s] # "backfilling"
                /\ phase[s] \in {"subscribing", "resuming"} =>
                     \/ asked[s] = "subscribe"
                     \/ Followed(wire', i, s)
                /\ phase[s] = "on" => RightBehind(wire', i, Matched(s, cache), wire'[i].what, cache,
                                                  graph)
  BY <1>1, ViewPassed
<1>8. Bound'
  <2>1. \A s \in Subs : asked[s] = "unsubscribe" => phase[s] = "off"
    BY <1>1 DEF ViewInv, Bound
  <2>2. QED
    BY <1>1, <1>7, <2>1 DEF Bound, Subscribed
<1>9. HandlerInv'
  <2> SUFFICES ASSUME NEW s \in Subs
               PROVE  last'[s] \in {NoCursor, cursor'[s]} /\ (phase[s] = "subscribing" => stale[s])
    BY <1>1, <1>4 DEF HandlerInv
  <2>1. last[s] \in {NoCursor, cursor[s]} /\ (phase[s] = "subscribing" => stale[s])
    BY <1>1 DEF ViewInv, HandlerInv
  <2>2. QED
    BY <1>5, <1>6, <2>1
<1>10. Queries'
  <2>1. \A s \in Subs : asked[s] = "query" => phase[s] = "on"
    BY <1>1 DEF ViewInv, Queries
  <2>2. QED
    BY <1>1, <1>7, <2>1 DEF Queries
<1>11. ASSUME NEW s \in Subs, ~stale[s], phase[s] = "on"
       PROVE  RightBehind(wire', 0, Matched(s, cache), view'[s], cache, graph)
  <2> SUFFICES ASSUME NEW n \in Matched(s, cache), Silent(wire', 0, n)
               PROVE  Right(view'[s][n], n, cache, graph)
    BY DEF RightBehind
  <2>1. Silent(wire, 0 + 1, n)
    <3>1. wire \in Seq(Messages) /\ wire # << >> /\ wire' = Tail(wire) /\ 0 \in Nat
      BY <1>1 DEF Typed, Received
    <3> DEFINE u == wire'
    <3>2. u = Tail(wire) /\ Silent(u, 0, n)
      BY <3>1
    <3> HIDE DEF u
    <3>3. QED
      BY <3>1, <3>2, WirePassed
  <2>2. /\ bound = {Filter[s]} /\ Telling(wire, 0, Matched(s, cache), cache)
        /\ RightBehind(wire, 0, Matched(s, cache), view[s], cache, graph)
    BY <1>1, <1>11 DEF ViewInv, Bound, Subscribed, Views
  <2>3. n \in Nodes /\ view[s] \in Contents
          /\ view'[s] = [view[s] EXCEPT ![x.event.node] = x.event.content]
    <3>1. Matched(s, cache) \subseteq Nodes
      BY DEF Matched
    <3>2. QED
      BY <1>1, <1>5, <1>11, <3>1 DEF Live
  <2>4. CASE x.event.node = n
    <3>1. x.event.content = cache[n]
      BY <1>1, <1>2, <2>1, <2>2, <2>4 DEF Telling, x
    <3>2. view'[s][n] = cache[n]
      BY <2>3, <2>4, <3>1 DEF Contents
    <3>3. QED
      BY <3>2 DEF Right
  <2>5. CASE x.event.node # n
    <3>1. Silent(wire, 0, n)
      <4>1. \A j \in (0 + 1)..Len(wire) : j = 1 \/ j \in (0 + 1 + 1)..Len(wire)
        BY <1>2
      <4>2. QED
        BY <1>1, <2>1, <2>5, <4>1 DEF Silent, x
    <3>2. Right(view[s][n], n, cache, graph)
      BY <2>2, <3>1 DEF RightBehind
    <3>3. view'[s][n] = view[s][n]
      BY <2>3, <2>5 DEF Contents
    <3>4. QED
      BY <3>2, <3>3
  <2>6. QED
    BY <2>4, <2>5
<1>12. Views'
  <2> SUFFICES ASSUME NEW s \in Subs, ~stale[s]
               PROVE  IF phase[s] = "on" THEN RightBehind(wire', 0, Matched(s, cache), view'[s],
                                                          cache,
                      graph)
                      ELSE AsOf(cursor'[s], view'[s], Matched(s, cache), stream, cache, graph)
    BY <1>1 DEF Views
  <2>1. CASE phase[s] = "on"
    BY <1>11, <2>1
  <2>2. CASE phase[s] # "on"
    <3>1. AsOf(cursor[s], view[s], Matched(s, cache), stream, cache,
               graph) /\ phase[s] # "subscribing"
      BY <1>1, <2>2 DEF ViewInv, Views, HandlerInv
    <3>2. ~Live(s)
      BY <2>2, <3>1 DEF Live
    <3>3. QED
      BY <1>6, <2>2, <3>1, <3>2
  <2>3. QED
    BY <2>1, <2>2
<1>13. AnswersComplete'
  <2> SUFFICES ASSUME NEW s \in Subs, NEW i \in 1..Len(wire'), wire'[i].kind = "since",
                      wire'[i].sub = s,
                      ~wire'[i].what.resync, ~stale[s]
               PROVE  /\ Rising(wire'[i].what.events)
                      /\ Completes(wire'[i].what.events, view'[s], wire', i, Matched(s, cache), cache,
                         graph)
                      /\ \A k \in 1..Len(pending'[s]) : Among(pending'[s][k], wire'[i].what.events)
                      /\ \A j \in 1..(i - 1) : wire'[j].kind = "event"
                         => Among(wire'[j].what, wire'[i].what.events)
    BY <1>1 DEF AnswersComplete
  <2>1. /\ Rising(wire'[i].what.events)
        /\ Completes(wire'[i].what.events, view[s], wire', i, Matched(s, cache), cache, graph)
        /\ \A k \in 1..Len(pending[s]) : Among(pending[s][k], wire'[i].what.events)
        /\ Among(x, wire'[i].what.events)
        /\ \A j \in 1..(i - 1) : wire'[j].kind = "event"
           => Among(wire'[j].what, wire'[i].what.events)
    BY <1>1, ViewPassed DEF x
  <2>2. phase[s] = "backfilling"
    <3>1. i + 1 \in 1..Len(wire) /\ wire[i + 1] = wire'[i]
      BY <1>2
    <3>2. QED
      BY <3>1, AnswerPhases DEF ViewsInv
  <2>3. pending'[s] = Append(pending[s], x) /\ view'[s] = view[s]
    BY <1>1, <1>6, <2>2 DEF Live
  <2>4. \A k \in 1..Len(pending'[s]) : \/ k \in 1..Len(pending[s]) /\ pending'[s][k] = pending[s][k]
                                       \/ pending'[s][k] = x
    <3>1. pending[s] \in Seq(Stamped)
      BY <1>1 DEF Typed
    <3>2. QED
      BY <2>3, <3>1
  <2>5. QED
    BY <2>1, <2>3, <2>4
<1>14. QED
  BY <1>7, <1>8, <1>9, <1>10, <1>12, <1>13 DEF ViewInv

LEMMA ViewReceiveSubscribed ==
  ASSUME ViewsInv, OneSub, NEW s \in Subs, ReceiveSubscribed(s)
  PROVE  ViewInv'
<1>1. /\ Typed /\ Tokens /\ ViewInv /\ Received /\ wire[1].kind = "subscribe" /\ wire[1].sub = s
      /\ UNCHANGED <<graph, stream, cache, watched, bound, pending, last, cursor, view, stale>>
      /\ IF phase[s] = "subscribing"
         THEN phase' = [phase EXCEPT ![s] = "on"] /\ UNCHANGED asked
         ELSE phase' = [phase EXCEPT ![s] = "backfilling"] /\ asked' = [asked EXCEPT ![s] = "since"]
      /\ phase \in [Subs -> Phases]
      /\ asked \in [Subs -> {"none", "subscribe", "since", "query", "unsubscribe"}]
  BY DEF ReceiveSubscribed, ViewsInv, WatchInv, Typed, TypeOK, server, handler
<1>2. 1 \in 1..Len(wire) /\ \A w \in Subs : w = s
  BY <1>1, ReceivedTyped DEF OneSub
<1>3. phase[s] \in {"subscribing", "resuming"} /\ asked[s] # "subscribe"
  BY <1>1, <1>2 DEF Tokens, AnswerInPhase
<1>4. /\ phase'[s] \in {"on", "backfilling"} /\ (phase'[s] = "on" => phase[s] = "subscribing")
      /\ asked'[s] \in {asked[s], "since"}
  BY <1>1, <1>3
<1>5. asked[s] \notin {"query", "unsubscribe"}
  BY <1>1, <1>3 DEF ViewInv, Queries, Bound
<1>6. /\ WireSays'
      /\ \A i \in 1..Len(wire') : wire'[i].kind = "query" /\ wire'[i].sub = s
         => Followed(wire', i, s)
  BY <1>1, <1>3, ViewPassed
<1>7. ASSUME NEW i \in 1..Len(wire') PROVE wire'[i].kind \in {"event", "query"}
  <2>1. wire'[i] = wire[i + 1] /\ i + 1 \in 1..Len(wire)
          /\ (wire'[i].kind = "subscribe" => wire'[i].sub # s)
    BY <1>1, TokensTail
  <2>2. wire[i + 1].kind \in {"event", "subscribe", "since", "query"}
        /\ (wire[i + 1].kind # "event" => wire[i + 1].sub = s)
    BY <1>1, <1>2, <2>1, WireTyped
  <2>3. wire[i + 1].kind # "since"
    BY <1>3, <2>1, <2>2, AnswerPhases DEF ViewsInv
  <2>4. QED
    BY <2>1, <2>2, <2>3
<1>8. ASSUME NEW i \in 1..Len(wire') PROVE wire'[i].kind = "event"
  <2>1. CASE wire'[i].kind = "query"
    <3>1. wire'[i].sub = s
      <4>1. wire'[i] = wire[i + 1] /\ i + 1 \in 1..Len(wire)
        BY <1>1, TokensTail
      <4>2. QED
        BY <1>1, <1>2, <2>1, <4>1, WireTyped
    <3>2. Followed(wire', i, s)
      BY <1>6, <2>1, <3>1
    <3>3. PICK j \in (i + 1)..Len(wire') : wire'[j].kind = "subscribe"
      BY <3>2 DEF Followed
    <3>4. j \in 1..Len(wire')
      BY <3>3
    <3>5. QED
      BY <1>7, <3>3, <3>4
  <2>2. QED
    BY <1>7, <2>1
<1>9. Bound'
  <2>1. watched /\ bound = {Filter[s]} /\ Telling(wire', 0, Matched(s, cache), cache)
    <3>1. watched /\ bound = {Filter[s]} /\ Telling(wire, 0 + 1, Matched(s, cache), cache)
      BY <1>1, <1>2 DEF ViewInv, Bound
    <3>2. wire \in Seq(Messages) /\ wire # << >> /\ wire' = Tail(wire) /\ 0 \in Nat
      BY <1>1 DEF Typed, Received
    <3> DEFINE u == wire'
    <3>3. u = Tail(wire)
      BY <3>2
    <3> HIDE DEF u
    <3>4. Telling(u, 0, Matched(s, cache), cache)
      BY <3>1, <3>2, <3>3, WirePassed
    <3>5. QED
      BY <3>1, <3>4 DEF u
  <2>2. asked'[s] # "unsubscribe"
    BY <1>4, <1>5
  <2>3. QED
    BY <1>1, <1>2, <1>8, <2>1, <2>2 DEF Bound, Subscribed
<1>10. HandlerInv'
  BY <1>1, <1>2, <1>4 DEF ViewInv, HandlerInv
<1>11. Queries'
  BY <1>2, <1>4, <1>5, <1>8 DEF Queries
<1>12. Views'
  <2> SUFFICES ASSUME ~stale[s]
               PROVE  phase'[s] # "on" /\ AsOf(cursor[s], view[s], Matched(s, cache), stream, cache,
                                               graph)
    BY <1>1, <1>2 DEF Views
  <2>1. phase[s] # "subscribing" /\ AsOf(cursor[s], view[s], Matched(s, cache), stream, cache, graph)
    BY <1>1, <1>3 DEF ViewInv, HandlerInv, Views
  <2>2. QED
    BY <1>4, <2>1
<1>13. AnswersComplete'
  BY <1>8 DEF AnswersComplete
<1>14. QED
  BY <1>6, <1>9, <1>10, <1>11, <1>12, <1>13 DEF ViewInv

LEMMA ViewReceiveGraph ==
  ASSUME ViewsInv, NEW s \in Subs, ReceiveGraph(s)
  PROVE  ViewInv'
<1>1. /\ Typed /\ ViewInv /\ Received /\ wire[1].kind = "query" /\ wire[1].sub = s
      /\ UNCHANGED <<graph, stream, cache, watched, bound, asked, phase, pending, last, cursor>>
      /\ IF phase[s] = "on"
         THEN view' = [view EXCEPT ![s] = wire[1].what] /\ stale' = [stale EXCEPT ![s] = FALSE]
         ELSE UNCHANGED <<view, stale>>
      /\ view \in [Subs -> Contents] /\ stale \in [Subs -> BOOLEAN]
  BY DEF ReceiveGraph, ViewsInv, WatchInv, Typed, TypeOK, Contents, server
<1>2. 1 \in 1..Len(wire) /\ \A i \in 1..Len(wire') : wire'[i] = wire[i + 1]
        /\ i + 1 \in 1..Len(wire)
  <2>1. Len(wire) \in Nat
    BY <1>1 DEF Typed
  <2>2. QED
    BY <1>1, <2>1, ReceivedTyped
<1>3. /\ WireSays'
      /\ \A w \in Subs :
           /\ Subscribed(w) => watched /\ bound = {Filter[w]} /\ Telling(wire', 0, Matched(w,
                                                                                           cache), cache)
           /\ \A i \in 1..Len(wire') : wire'[i].kind = "subscribe" /\ wire'[i].sub = w =>
                watched /\ bound = {Filter[w]} /\ Telling(wire', i, Matched(w, cache), cache)
           /\ \A i \in 1..Len(wire') : wire'[i].kind = "query" /\ wire'[i].sub = w =>
                /\ phase[w] # "backfilling"
                /\ phase[w] \in {"subscribing", "resuming"} =>
                     \/ asked[w] = "subscribe"
                     \/ Followed(wire', i, w)
                /\ phase[w] = "on" => RightBehind(wire', i, Matched(w, cache), wire'[i].what, cache,
                                                  graph)
  BY <1>1, ViewPassed
<1>4. ASSUME NEW w \in Subs, phase[w] # "on" PROVE view'[w] = view[w] /\ stale'[w] = stale[w]
  BY <1>1, <1>4
<1>5. Bound'
  <2>1. \A w \in Subs : asked[w] = "unsubscribe" => phase[w] = "off"
    BY <1>1 DEF ViewInv, Bound
  <2>2. QED
    BY <1>1, <1>3, <2>1 DEF Bound, Subscribed
<1>6. HandlerInv'
  <2>1. \A w \in Subs : phase[w] = "subscribing" => stale'[w]
    BY <1>1, <1>4 DEF ViewInv, HandlerInv
  <2>2. QED
    BY <1>1, <2>1 DEF ViewInv, HandlerInv
<1>7. Queries'
  <2>1. \A w \in Subs : asked[w] = "query" => phase[w] = "on"
    BY <1>1 DEF ViewInv, Queries
  <2>2. QED
    BY <1>1, <1>3, <2>1 DEF Queries
<1>8. \A w \in Subs : \A v : RightBehind(wire, 1, Matched(w, cache), v, cache, graph)
                               => RightBehind(wire', 0, Matched(w, cache), v, cache, graph)
  <2> DEFINE u == wire'
  <2>1. wire \in Seq(Messages) /\ wire # << >> /\ u = Tail(wire) /\ 0 \in Nat /\ 0 + 1 = 1
    BY <1>1 DEF Typed, Received
  <2> HIDE DEF u
  <2>2. \A ns, v, ca, gr : RightBehind(wire, 0 + 1, ns, v, ca, gr)
          => RightBehind(u, 0, ns, v, ca, gr)
    BY <2>1, WirePassed
  <2>3. QED
    BY <2>1, <2>2 DEF u
<1>9. Views'
  <2> SUFFICES ASSUME NEW w \in Subs, ~stale'[w]
               PROVE  IF phase[w] = "on" THEN RightBehind(wire', 0, Matched(w, cache), view'[w],
                                                          cache,
                      graph)
                      ELSE AsOf(cursor[w], view'[w], Matched(w, cache), stream, cache, graph)
    BY <1>1 DEF Views
  <2>1. CASE phase[w] # "on"
    <3>1. AsOf(cursor[w], view[w], Matched(w, cache), stream, cache, graph)
      BY <1>1, <1>4, <2>1 DEF ViewInv, Views
    <3>2. QED
      BY <1>4, <2>1, <3>1
  <2>2. CASE phase[w] = "on" /\ w = s
    <3>1. RightBehind(wire, 1, Matched(s, cache), wire[1].what, cache, graph)
      BY <1>1, <1>2, <2>2 DEF ViewInv, Queries
    <3>2. view'[s] = wire[1].what
      BY <1>1, <2>2
    <3>3. QED
      BY <1>8, <2>2, <3>1, <3>2
  <2>3. CASE phase[w] = "on" /\ w # s
    <3>1. view'[w] = view[w] /\ stale'[w] = stale[w]
      BY <1>1, <2>3
    <3>2. RightBehind(wire, 0, Matched(w, cache), view[w], cache, graph)
      BY <1>1, <2>3, <3>1 DEF ViewInv, Views
    <3>3. RightBehind(wire, 1, Matched(w, cache), view[w], cache, graph)
      <4>1. \A n : Silent(wire, 1, n) => Silent(wire, 0, n)
        <5>1. Len(wire) \in Nat /\ \A j \in (0 + 1)..Len(wire) : j = 1 \/ j \in (1 + 1)..Len(wire)
          BY <1>1 DEF Typed
        <5>2. QED
          BY <1>1, <5>1 DEF Silent
      <4>2. QED
        BY <3>2, <4>1 DEF RightBehind
    <3>4. QED
      BY <1>8, <2>3, <3>1, <3>3
  <2>4. QED
    BY <2>1, <2>2, <2>3
<1>10. AnswersComplete'
  <2> SUFFICES ASSUME NEW w \in Subs, NEW i \in 1..Len(wire'), wire'[i].kind = "since",
                      wire'[i].sub = w,
                      ~wire'[i].what.resync, ~stale'[w]
               PROVE  /\ Rising(wire'[i].what.events)
                      /\ Completes(wire'[i].what.events, view'[w], wire', i, Matched(w, cache), cache,
                         graph)
                      /\ \A k \in 1..Len(pending[w]) : Among(pending[w][k], wire'[i].what.events)
                      /\ \A j \in 1..(i - 1) : wire'[j].kind = "event"
                         => Among(wire'[j].what, wire'[i].what.events)
    BY <1>1 DEF AnswersComplete
  <2>1. phase[w] = "backfilling"
    BY <1>2, AnswerPhases DEF ViewsInv
  <2>2. view'[w] = view[w] /\ stale'[w] = stale[w]
    BY <1>4, <2>1
  <2>3. QED
    BY <1>1, <2>2, ViewPassed
<1>11. QED
  BY <1>3, <1>5, <1>6, <1>7, <1>9, <1>10 DEF ViewInv

LEMMA DeliverAllLast ==
  ASSUME NEW c \in HandlerStates, NEW events \in Seq(Stamped), c.last \in {NoCursor, c.cursor}
  PROVE  DeliverAll(c, events).last \in {NoCursor, DeliverAll(c, events).cursor}
<1> DEFINE S == {h \in HandlerStates : h.last \in {NoCursor, h.cursor}}
<1>1. PICK r : Delivering(r, c, events)
  BY DeliverAllSteps
<1>2. Len(events) \in Nat /\ \A n \in 1..Len(events) : events[n] \in Stamped
  OBVIOUS
<1>3. ASSUME NEW n \in 1..Len(events), r[n - 1] \in S PROVE r[n] \in S
  <2>1. r[n] = Deliver(r[n - 1], events[n])
    BY <1>1 DEF Delivering
  <2>2. /\ r[n - 1] \in HandlerStates /\ r[n - 1].last \in {NoCursor, r[n - 1].cursor}
        /\ events[n] \in Stamped
    BY <1>2, <1>3
  <2>3. r[n] \in HandlerStates /\ (r[n] = r[n - 1] \/ r[n].last = r[n].cursor)
    BY <2>1, <2>2, DeliverKeeps
  <2>4. QED
    BY <2>2, <2>3
<1>4. r[0] \in S
  BY <1>1 DEF Delivering
<1> HIDE DEF S
<1>5. r[Len(events)] \in S
  BY <1>2, <1>3, <1>4, IterationStays
<1>6. QED
  BY <1>1, <1>5 DEF Delivering, S

LEMMA ViewReceiveMissed ==
  ASSUME ViewsInv, OneSub, NEW s \in Subs, ReceiveMissed(s)
  PROVE  ViewInv'
<1> DEFINE a == wire[1].what
           E == a.events
           p == pending[s]
           events == E \o p
           h == Handler(s)
           c == DeliverAll(h, events)
           state == [w \in Subs |-> IF w = s THEN c ELSE Handler(w)]
           m == Len(E)
<1>1. /\ Typed /\ Tokens /\ ViewInv /\ Received /\ wire[1].kind = "since" /\ wire[1].sub = s
      /\ UNCHANGED <<graph, stream, cache, watched, bound, asked>>
      /\ Become(state) /\ stale' = [stale EXCEPT ![s] = @ \/ a.resync]
      /\ pending' = [pending EXCEPT ![s] = << >>] /\ phase' = [phase EXCEPT ![s] = "on"]
      /\ phase \in [Subs -> Phases] /\ stale \in [Subs -> BOOLEAN]
  BY DEF ReceiveMissed, ViewsInv, WatchInv, Typed, TypeOK, server
<1>2. 1 \in 1..Len(wire) /\ a \in Answers /\ p \in Seq(Stamped) /\ \A w \in Subs : w = s
  BY <1>1, ReceivedTyped, WireTyped DEF Typed, OneSub
<1>3. /\ E \in Seq(Stamped) /\ a.resync \in BOOLEAN /\ m \in Nat /\ Len(p) \in Nat
         /\ h \in HandlerStates
      /\ h.last \in {NoCursor, h.cursor} /\ h.cursor = cursor[s] /\ h.view = view[s]
         /\ h.last = last[s]
  <2>1. h \in HandlerStates
    BY <1>1, HandlerTyped
  <2>2. h.last = last[s] /\ h.cursor = cursor[s] /\ h.view = view[s]
    BY DEF Handler
  <2>3. last[s] \in {NoCursor, cursor[s]}
    BY <1>1 DEF ViewInv, HandlerInv
  <2> HIDE DEF a, h
  <2>4. a.events \in Seq(Stamped) /\ a.resync \in BOOLEAN
    BY <1>2 DEF Answers
  <2>5. Len(E) \in Nat /\ Len(p) \in Nat
    BY <1>2, <2>4
  <2>6. QED
    BY <2>1, <2>2, <2>3, <2>4, <2>5
<1>4. phase[s] = "backfilling" /\ phase'[s] = "on" /\ asked'[s] = asked[s]
  BY <1>1, <1>2, AnswerPhases DEF ViewsInv
<1>5. asked[s] \notin {"query", "unsubscribe"}
  BY <1>1, <1>4 DEF ViewInv, Queries, Bound
<1>6. /\ last'[s] = c.last /\ cursor'[s] = c.cursor /\ view'[s] = c.view
      /\ pending'[s] = << >> /\ stale'[s] = (stale[s] \/ a.resync)
  BY <1>1 DEF Become, Typed
<1> HIDE DEF state, a, h, E, p
<1>7. /\ events \in Seq(Stamped) /\ Len(events) = m + Len(p)
      /\ \A i \in 1..Len(events) : events[i] = IF i <= m THEN E[i] ELSE p[i - m]
  BY <1>2, <1>3
<1> HIDE DEF events
<1>8. c \in HandlerStates /\ c.last \in {NoCursor, c.cursor}
  BY <1>3, <1>7, DeliverAllLast, DeliverAllTyped
<1>9. /\ WireSays'
      /\ watched /\ bound = {Filter[s]} /\ Telling(wire', 0, Matched(s, cache), cache)
      /\ \A i \in 1..Len(wire') : wire'[i].kind = "query" => wire'[i].sub # s
  BY <1>1, <1>4, ViewPassed DEF Subscribed
<1>10. ASSUME NEW i \in 1..Len(wire') PROVE wire'[i].kind = "event"
  <2>1. wire'[i] = wire[i + 1] /\ i + 1 \in 1..Len(wire)
          /\ (wire'[i].kind = "since" => wire'[i].sub # s)
    BY <1>1, TokensTail
  <2>2. wire[i + 1].kind \in {"event", "subscribe", "since", "query"}
        /\ (wire[i + 1].kind # "event" => wire[i + 1].sub = s)
    BY <1>1, <1>2, <2>1, WireTyped
  <2>3. wire[i + 1].kind # "subscribe"
    BY <1>4, <2>1, <2>2, AnswerPhases DEF ViewsInv
  <2>4. QED
    BY <1>9, <2>1, <2>2, <2>3
<1>11. Bound'
  BY <1>1, <1>2, <1>5, <1>9, <1>10 DEF Bound, Subscribed
<1>12. HandlerInv'
  BY <1>1, <1>2, <1>4, <1>6, <1>8, <1>9 DEF HandlerInv
<1>13. Queries'
  BY <1>2, <1>4, <1>5, <1>10 DEF Queries
<1>14. ASSUME ~stale'[s]
       PROVE  RightBehind(wire', 0, Matched(s, cache), c.view, cache, graph)
  <2>1. /\ Rising(E) /\ Completes(E, view[s], wire, 1, Matched(s, cache), cache, graph)
        /\ \A k \in 1..Len(p) : Among(p[k], E)
    BY <1>1, <1>2, <1>6, <1>14 DEF ViewInv, AnswersComplete, E, p, a
  <2>2. \A k \in 1..m : E[k] \in Stamped /\ E[k].epoch = stream.epoch /\ After(E[k], cursor[s])
    BY <1>1, <1>2, <1>3 DEF ViewsInv, WatchInv, InOrder, AnswerOrder, Issued, E, a
  <2>3. \A k \in 1..Len(p) : p[k].epoch = stream.epoch
    BY DEF ViewsInv, WatchInv, InOrder, PendingOrder, Issued, p
  <2>4. stream.epoch \in Int /\ stream.epoch # -1 /\ NoCursor.epoch = -1
          /\ cursor[s].epoch \in Int /\ cursor[s].seq \in Nat
    BY <1>1, Numbers, BufferAssumption, PositionNumbers DEF NoCursor, Typed, Streams, Epochs
  <2>5. Fresher(h, events, m, stream.epoch)
    <3>1. \A k \in 1..Len(events) : k <= m \/ (k - m \in 1..Len(p) /\ events[k] = p[k - m])
      BY <1>3, <1>7
    <3>2. \A k \in 1..m : k \in 1..Len(events) /\ events[k] = E[k]
      BY <1>3, <1>7
    <3>3. \A k \in 1..Len(events) : k <= m => k \in 1..m
      BY <1>3
    <3>4. \A k \in 1..Len(events) : events[k].epoch = stream.epoch
      BY <2>2, <2>3, <3>1, <3>2, <3>3
    <3>5. \A k, j \in 1..m : k < j => events[k].seq < events[j].seq
      BY <2>1, <3>2 DEF Rising
    <3>6. ASSUME NEW k \in 1..m PROVE h.last.epoch # stream.epoch \/ events[k].seq > h.last.seq
      <4>1. E[k].seq \in Nat /\ E[k].epoch = stream.epoch /\ After(E[k], cursor[s])
              /\ events[k] = E[k]
        BY <2>2, <3>2 DEF Stamped
      <4>2. h.last = NoCursor \/ h.last = cursor[s]
        BY <1>3
      <4>3. QED
        BY <2>4, <4>1, <4>2 DEF After
    <3>7. ASSUME NEW k \in (m + 1)..Len(events) PROVE m # 0 /\ events[k].seq <= events[m].seq
      <4>1. k \in 1..Len(events) /\ ~(k <= m)
        BY <1>3, <1>7
      <4>2. Among(events[k], E)
        BY <2>1, <3>1, <4>1
      <4>3. E # << >> /\ events[k].seq <= E[m].seq
        BY <4>2 DEF Among
      <4>4. m # 0
        BY <1>3, <4>3
      <4>5. m \in 1..m
        BY <1>3, <4>4
      <4>6. QED
        BY <3>2, <4>3, <4>4, <4>5
    <3>8. QED
      BY <3>4, <3>5, <3>6, <3>7 DEF Fresher
  <2>6. Taken(h.view, events, m, c.view)
    <3>1. m \in 0..Len(events)
      BY <1>3, <1>7
    <3> HIDE DEF m
    <3>2. QED
      BY <1>3, <1>7, <2>4, <2>5, <3>1, DeliverAllTells
  <2>7. Taken(view[s], E, Len(E), c.view)
    <3>1. \A k \in 1..m : events[k] = E[k]
      BY <1>3, <1>7
    <3>2. \A k \in 1..m : \A j \in (k + 1)..m : j \in 1..m
      BY <1>3
    <3> HIDE DEF m, c
    <3>3. ASSUME NEW n \in Nodes, \A k \in 1..m : E[k].event.node # n PROVE c.view[n] = view[s][n]
      BY <1>3, <2>6, <3>1, <3>3 DEF Taken
    <3>4. ASSUME NEW k \in 1..m, \A j \in (k + 1)..m : E[j].event.node # E[k].event.node
          PROVE  c.view[E[k].event.node] = E[k].event.content
      <4>1. \A j \in (k + 1)..m : events[j].event.node # events[k].event.node
        BY <3>1, <3>2, <3>4
      <4>2. c.view[events[k].event.node] = events[k].event.content
        BY <2>6, <4>1 DEF Taken
      <4>3. QED
        BY <3>1, <4>2
    <3>5. Taken(view[s], E, m, c.view)
      BY <3>3, <3>4 DEF Taken
    <3>6. QED
      BY <3>5 DEF m
  <2>8. RightBehind(wire, 0 + 1, Matched(s, cache), c.view, cache, graph)
    <3>1. c.view \in Contents
      BY <1>8 DEF HandlerStates
    <3> HIDE DEF c
    <3>2. QED
      BY <2>1, <2>7, <3>1 DEF Completes
  <2>9. QED
    <3> DEFINE u == wire'
    <3>1. wire \in Seq(Messages) /\ wire # << >> /\ u = Tail(wire) /\ 0 \in Nat
      BY <1>1 DEF Typed, Received
    <3> HIDE DEF u, c
    <3>2. RightBehind(u, 0, Matched(s, cache), c.view, cache, graph)
      BY <2>8, <3>1, WirePassed
    <3>3. QED
      BY <3>2 DEF u
<1>15. Views'
  BY <1>1, <1>2, <1>4, <1>6, <1>14 DEF Views
<1>16. AnswersComplete'
  BY <1>10 DEF AnswersComplete
<1>17. QED
  BY <1>9, <1>11, <1>12, <1>13, <1>15, <1>16 DEF ViewInv

LEMMA ViewReceive ==
  ASSUME ViewsInv, OneSub, NEW s \in Subs, Receive(s)
  PROVE  ViewInv'
BY ViewReceiveSubscribed, ViewReceiveMissed, ViewReceiveGraph DEF Receive

LEMMA ViewServe ==
  ASSUME ViewsInv, Seen, OneSub, NEW s \in Subs, Serve(s)
  PROVE  ViewInv'
BY ViewServeSubscribe, ViewServeSince, ViewServeQuery, ViewServeUnsubscribe DEF Serve

\* What is on the wire is what a backfill would bring.
LEMMA OnToOff ==
  ASSUME ViewsInv, NEW s \in Subs, RightBehind(wire, 0, Matched(s, cache), view[s], cache, graph)
  PROVE  AsOf(cursor[s], view[s], Matched(s, cache), stream, cache, graph)
<1> SUFFICES ASSUME cursor[s].epoch = stream.epoch, cursor[s].seq + 1 >= First(stream),
                    NEW n \in Matched(s, cache), Unsaid(stream, cursor[s].seq, n)
             PROVE  Right(view[s][n], n, cache, graph)
  BY DEF AsOf
<1>1. /\ Typed /\ ViewInv /\ stream \in Streams /\ cursor[s] \in Positions
      /\ cursor[s].epoch \in Int /\ cursor[s].seq \in Nat /\ stream.latestSeq \in Nat
         /\ First(stream) \in Int
  BY PositionNumbers, FirstNumber DEF ViewsInv, WatchInv, Typed
<1>2. ASSUME NEW j \in (0 + 1)..Len(wire), wire[j].kind = "event"
      PROVE  wire[j].what.event.node # n
  <2>1. j \in 1..Len(wire)
    OBVIOUS
  <2>2. wire[j].what \in Stamped /\ Issued(wire[j].what, stream) /\ After(wire[j].what, cursor[s])
    BY <1>1, <1>2, <2>1, WireTyped DEF ViewsInv, WatchInv, InOrder, WireOrder
  <2> DEFINE q == wire[j].what.seq
  <2>3. q \in Nat /\ q <= stream.latestSeq /\ q > cursor[s].seq
    BY <1>1, <2>2 DEF Issued, After, Stamped
  <2>4. q \in (cursor[s].seq + 1)..stream.latestSeq /\ q >= First(stream)
    BY <1>1, <2>3
  <2>5. wire[j].what.event = Said(stream, q)
    BY <1>1, <1>2, <2>1, <2>4 DEF ViewInv, WireSays
  <2>6. QED
    BY <2>4, <2>5 DEF Unsaid
<1>3. Silent(wire, 0, n)
  BY <1>2 DEF Silent
<1>4. QED
  BY <1>3 DEF RightBehind

LEMMA ViewSubscribe ==
  ASSUME ViewsInv, OneSub, NEW s \in Subs, Subscribe(s)
  PROVE  ViewInv'
<1>1. /\ Typed /\ ViewInv /\ phase[s] = "off" /\ asked[s] = "none"
      /\ phase' = [phase EXCEPT ![s] = IF cursor[s] = NoCursor THEN "subscribing" ELSE "resuming"]
      /\ asked' = [asked EXCEPT ![s] = "subscribe"] /\ last' = [last EXCEPT ![s] = NoCursor]
      /\ stale' = [stale EXCEPT ![s] = @ \/ cursor[s] = NoCursor]
      /\ UNCHANGED <<graph, stream, cache, watched, bound, wire, pending, cursor, view>>
      /\ phase \in [Subs -> Phases] /\ stale \in [Subs -> BOOLEAN] /\ last \in [Subs -> Positions]
      /\ asked \in [Subs -> {"none", "subscribe", "since", "query", "unsubscribe"}]
      /\ \A w \in Subs : w = s
  BY DEF Subscribe, ViewsInv, WatchInv, Typed, TypeOK, server, OneSub
<1>2. /\ phase'[s] \in {"subscribing", "resuming"}
         /\ (phase'[s] = "subscribing" => cursor[s] = NoCursor)
      /\ asked'[s] = "subscribe" /\ last'[s] = NoCursor
         /\ stale'[s] = (stale[s] \/ cursor[s] = NoCursor)
  BY <1>1
<1>3. \A i \in 1..Len(wire) : wire[i].kind \notin {"subscribe", "since"}
  BY <1>1, AnswerPhases, WireTyped DEF ViewsInv
<1>4. WireSays'
  BY <1>1 DEF ViewInv, WireSays
<1>5. Bound'
  BY <1>1, <1>2, <1>3 DEF Bound, Subscribed
<1>6. HandlerInv'
  BY <1>1, <1>2 DEF ViewInv, HandlerInv
<1>7. Queries'
  BY <1>1, <1>2 DEF Queries
<1>8. Views'
  BY <1>1, <1>2 DEF ViewInv, Views
<1>9. AnswersComplete'
  BY <1>1, <1>3 DEF AnswersComplete
<1>10. QED
  BY <1>4, <1>5, <1>6, <1>7, <1>8, <1>9 DEF ViewInv

LEMMA ViewUnsubscribe ==
  ASSUME ViewsInv, OneSub, NEW s \in Subs, Unsubscribe(s)
  PROVE  ViewInv'
<1>1. /\ Typed /\ ViewInv /\ phase[s] = "on"
      /\ phase' = [phase EXCEPT ![s] = "off"] /\ asked' = [asked EXCEPT ![s] = "unsubscribe"]
      /\ UNCHANGED <<graph, stream, cache, watched, bound, wire, pending, last, cursor, view,
         stale>>
      /\ phase \in [Subs -> Phases]
      /\ asked \in [Subs -> {"none", "subscribe", "since", "query", "unsubscribe"}]
      /\ \A w \in Subs : w = s
  BY DEF Unsubscribe, ViewsInv, WatchInv, Typed, TypeOK, server, handler, OneSub
<1>2. phase'[s] = "off" /\ asked'[s] = "unsubscribe"
  BY <1>1
<1>3. \A i \in 1..Len(wire) : wire[i].kind \notin {"subscribe", "since"}
  BY <1>1, AnswerPhases, WireTyped DEF ViewsInv
<1>4. WireSays'
  BY <1>1 DEF ViewInv, WireSays
<1>5. Bound'
  BY <1>1, <1>2, <1>3 DEF Bound, Subscribed
<1>6. HandlerInv'
  BY <1>1, <1>2 DEF ViewInv, HandlerInv
<1>7. Queries'
  BY <1>1, <1>2 DEF Queries
<1>8. Views'
  <2> SUFFICES ASSUME ~stale[s]
               PROVE  AsOf(cursor[s], view[s], Matched(s, cache), stream, cache, graph)
    BY <1>1, <1>2 DEF Views
  <2>1. RightBehind(wire, 0, Matched(s, cache), view[s], cache, graph)
    BY <1>1 DEF ViewInv, Views
  <2>2. QED
    BY <2>1, OnToOff
<1>9. AnswersComplete'
  BY <1>1, <1>3 DEF AnswersComplete
<1>10. QED
  BY <1>4, <1>5, <1>6, <1>7, <1>8, <1>9 DEF ViewInv

LEMMA ViewAskQuery ==
  ASSUME ViewsInv, OneSub, NEW s \in Subs, AskQuery(s)
  PROVE  ViewInv'
<1>1. /\ Typed /\ ViewInv /\ phase[s] = "on" /\ asked' = [asked EXCEPT ![s] = "query"]
      /\ UNCHANGED <<graph, stream, cache, watched, bound, wire, phase, pending, last, cursor,
         view, stale>>
      /\ asked \in [Subs -> {"none", "subscribe", "since", "query", "unsubscribe"}]
      /\ \A w \in Subs : w = s
  BY DEF AskQuery, ViewsInv, WatchInv, Typed, TypeOK, server, client, handler, OneSub
<1>2. asked'[s] = "query"
  BY <1>1
<1>3. WireSays' /\ HandlerInv' /\ Views' /\ AnswersComplete'
  BY <1>1 DEF ViewInv, WireSays, HandlerInv, Views, AnswersComplete
<1>4. Bound'
  <2>1. asked'[s] # "unsubscribe"
    BY <1>2
  <2>2. QED
    BY <1>1, <2>1 DEF ViewInv, Bound, Subscribed
<1>5. Queries'
  BY <1>1, <1>2 DEF ViewInv, Queries
<1>6. QED
  BY <1>3, <1>4, <1>5 DEF ViewInv

\* What a backfill that failed leaves of the handler.
LEMMA GivenUpLast ==
  ASSUME ViewsInv, NEW s \in Subs
  PROVE  GivenUp(s).last \in {NoCursor, GivenUp(s).cursor}
<1>1. /\ Handler(s) \in HandlerStates /\ Handler(s).last \in {NoCursor, Handler(s).cursor}
      /\ pending[s] \in Seq(Stamped)
  BY HandlerTyped DEF ViewsInv, WatchInv, Typed, ViewInv, HandlerInv, Handler
<1>2. QED
  BY <1>1, DeliverAllLast DEF GivenUp

LEMMA ViewBackfillFails ==
  ASSUME ViewsInv, OneSub, NEW s \in Subs, BackfillFails(s)
  PROVE  ViewInv'
<1> DEFINE state == [w \in Subs |-> IF w = s THEN GivenUp(s) ELSE Handler(w)]
<1>1. /\ Typed /\ Tokens /\ ViewInv /\ phase[s] = "backfilling" /\ asked[s] = "since"
      /\ Become(state) /\ stale' = [stale EXCEPT ![s] = TRUE]
      /\ phase' = [phase EXCEPT ![s] = "on"] /\ asked' = [asked EXCEPT ![s] = "none"]
      /\ UNCHANGED <<graph, stream, cache, watched, bound, wire>>
      /\ phase \in [Subs -> Phases] /\ stale \in [Subs -> BOOLEAN]
      /\ asked \in [Subs -> {"none", "subscribe", "since", "query", "unsubscribe"}]
      /\ \A w \in Subs : w = s
  BY DEF BackfillFails, ViewsInv, WatchInv, Typed, TypeOK, server, OneSub
<1>2. /\ phase'[s] = "on" /\ asked'[s] = "none" /\ stale'[s]
      /\ last'[s] = GivenUp(s).last /\ cursor'[s] = GivenUp(s).cursor
  BY <1>1 DEF Become
<1>3. GivenUp(s).last \in {NoCursor, GivenUp(s).cursor}
  BY GivenUpLast
<1>4. watched /\ bound = {Filter[s]} /\ Telling(wire, 0, Matched(s, cache), cache)
  BY <1>1 DEF ViewInv, Bound, Subscribed
<1>5. ASSUME NEW i \in 1..Len(wire) PROVE wire[i].kind = "event"
  <2>1. wire[i].kind \in {"event", "subscribe", "since", "query"}
        /\ (wire[i].kind # "event" => wire[i].sub = s)
    BY <1>1, WireTyped
  <2>2. wire[i].kind # "subscribe"
    BY <1>1, <2>1, AnswerPhases DEF ViewsInv
  <2>3. wire[i].kind # "since"
    BY <1>1, <2>1 DEF Tokens, AnswerInPhase
  <2>4. wire[i].kind # "query"
    BY <1>1, <2>1 DEF ViewInv, Queries
  <2>5. QED
    BY <2>1, <2>2, <2>3, <2>4
<1>6. WireSays'
  BY <1>1 DEF ViewInv, WireSays
<1>7. Bound'
  BY <1>1, <1>2, <1>4, <1>5 DEF Bound, Subscribed
<1>8. HandlerInv'
  BY <1>1, <1>2, <1>3, <1>4 DEF HandlerInv
<1>9. Queries'
  BY <1>1, <1>2, <1>5 DEF Queries
<1>10. Views'
  BY <1>1, <1>2 DEF Views
<1>11. AnswersComplete'
  BY <1>1, <1>5 DEF AnswersComplete
<1>12. QED
  BY <1>6, <1>7, <1>8, <1>9, <1>10, <1>11 DEF ViewInv

LEMMA ViewLost ==
  ASSUME ViewsInv, Disconnect \/ Restart
  PROVE  ViewInv'
<1> DEFINE state == [s \in Subs |-> GivenUp(s)]
<1>1. /\ Typed /\ ViewInv /\ wire' = << >> /\ Len(wire') = 0 /\ asked' = [s \in Subs |-> "none"]
      /\ phase' = [s \in Subs |-> "off"] /\ Become(state)
      /\ stale' = [s \in Subs |-> stale[s] \/ phase[s] = "backfilling"] /\ graph' = graph
  BY DEF Disconnect, Restart, ConnectionLost, ViewsInv, WatchInv, server
<1>2. \A s \in Subs : /\ last'[s] = GivenUp(s).last /\ cursor'[s] = GivenUp(s).cursor
                      /\ view'[s] = GivenUp(s).view /\ asked'[s] = "none" /\ phase'[s] = "off"
                      /\ stale'[s] = (stale[s] \/ phase[s] = "backfilling")
  BY <1>1 DEF Become
<1> HIDE DEF state
<1>3. ASSUME NEW s \in Subs
      PROVE  /\ last'[s] \in {NoCursor, cursor'[s]}
             /\ cursor'[s].epoch <= stream.epoch
             /\ cursor'[s].epoch = stream.epoch => watched
  <2>1. last'[s] \in {NoCursor, cursor'[s]}
    BY <1>2, GivenUpLast
  <2>2. CASE cursor'[s] = cursor[s]
    BY <1>1, <2>1, <2>2 DEF ViewsInv, WatchInv, InOrder, CursorOrder, ViewInv, HandlerInv
  <2>3. ASSUME phase[s] = "backfilling", NEW k \in 1..Len(pending[s]),
               cursor'[s] = At(pending[s][k])
        PROVE  cursor'[s].epoch <= stream.epoch /\ watched
    <3>1. cursor'[s].epoch = stream.epoch /\ stream.epoch \in Int
      BY <1>1, <2>3, Numbers DEF ViewsInv, WatchInv, InOrder, PendingOrder, Issued, At
    <3>2. QED
      BY <1>1, <2>3, <3>1 DEF ViewInv, Bound, Subscribed
  <2>4. QED
    BY <1>2, <2>1, <2>2, <2>3, GivenUpOrdered DEF ViewsInv
<1>4. WireSays' /\ Bound' /\ Queries' /\ AnswersComplete'
  <2>1. \A i \in 1..Len(wire') : FALSE
    BY <1>1
  <2>2. QED
    BY <1>2, <2>1 DEF WireSays, Bound, Subscribed, Queries, AnswersComplete
<1>5. CASE Disconnect
  <2>1. UNCHANGED <<stream, cache, watched>>
    BY <1>5 DEF Disconnect, server
  <2>2. HandlerInv'
    BY <1>2, <1>3, <2>1 DEF HandlerInv
  <2>3. Views'
    <3> SUFFICES ASSUME NEW s \in Subs, ~stale[s], phase[s] # "backfilling"
                 PROVE  AsOf(cursor'[s], view'[s], Matched(s, cache), stream, cache, graph)
      BY <1>1, <1>2, <2>1 DEF Views
    <3>1. cursor'[s] = cursor[s] /\ view'[s] = view[s]
      BY <1>2 DEF GivenUp, Handler
    <3>2. AsOf(cursor[s], view[s], Matched(s, cache), stream, cache, graph)
      BY <1>1, OnToOff DEF ViewInv, Views
    <3>3. QED
      BY <3>1, <3>2
  <2>4. QED
    BY <1>4, <2>2, <2>3 DEF ViewInv
<1>6. CASE Restart
  <2>1. stream'.epoch = stream.epoch + 1 /\ stream.epoch \in Int
    BY <1>1, <1>6, Numbers DEF Restart, Fresh
  <2>2. \A s \in Subs : cursor'[s].epoch # stream'.epoch
    <3> SUFFICES ASSUME NEW s \in Subs, cursor'[s].epoch = stream.epoch + 1 PROVE FALSE
      BY <2>1
    <3>1. cursor'[s].epoch <= stream.epoch
      BY <1>3
    <3>2. QED
      BY <2>1, <3>1
  <2>3. HandlerInv'
    BY <1>2, <1>3, <2>2 DEF HandlerInv
  <2>4. Views'
    BY <1>2, <2>2 DEF Views, AsOf
  <2>5. QED
    BY <1>4, <2>3, <2>4 DEF ViewInv
<1>7. QED
  BY <1>5, <1>6

LEMMA ViewStep ==
  ASSUME ViewsInv, Seen, OneSub, [Next]_vars
  PROVE  ViewInv'
<1>1. ViewInv
  BY DEF ViewsInv
<1>2. CASE \E n \in Nodes, content \in 0..2 : Write(n, content)
  BY <1>2, ViewWrite
<1>3. CASE FileChanged
  BY <1>1, <1>3, ViewKept DEF FileChanged, socket, client, handler
<1>4. CASE Diff
  BY <1>4, ViewDiff
<1>5. CASE Restart \/ Disconnect
  BY <1>5, ViewLost
<1>6. CASE ReceiveEvent
  BY <1>6, ViewReceiveEvent
<1>7. ASSUME NEW s \in Subs,
             Serve(s) \/ Receive(s) \/ Subscribe(s) \/ Unsubscribe(s) \/ AskQuery(s)
               \/ BackfillFails(s)
      PROVE  ViewInv'
  BY <1>7, ViewServe, ViewReceive, ViewSubscribe, ViewUnsubscribe, ViewAskQuery, ViewBackfillFails
<1>8. CASE \E p \in Pollers : Poll(p) \/ PollerReads(p)
  BY <1>1, <1>8, ViewKept DEF Poll, PollerReads, server, socket, client, handler
<1>9. CASE UNCHANGED vars
  BY <1>1, <1>9, ViewKept DEF vars, server, socket, client, handler
<1>10. QED
  BY <1>2, <1>3, <1>4, <1>5, <1>6, <1>7, <1>8, <1>9 DEF Next

\* For any nodes, any filter on nodes and their contents, pollers and buffer size, as
\* long as the diff sees every change and the client holds one subscription: an
\* application that owes no read of the graph is right about every node that is gone
\* or that its filter matches now, but for what is on its way to it, whatever
\* connections and daemons are lost (subscribe(), diffAndBroadcast()).  Of a node
\* that is there and not matched now it says nothing: see ViewsAreTheQuery.
THEOREM ViewsAreCaughtUp ==
  ASSUME Seen, OneSub
  PROVE  Spec => []ViewsCatchUp
<1>1. Init => ViewsInv
  BY InitiallyWatched, StreamInit, ViewInit DEF ViewsInv
<1>2. ASSUME ViewsInv, [Next]_vars PROVE ViewsInv'
  <2>1. Typed /\ Tokens /\ WatchInv /\ StreamInv
    BY <1>2 DEF ViewsInv, WatchInv
  <2>2. Typed' /\ Tokens' /\ InOrder'
    BY <1>2, <2>1, TypedStep, TokensStep, OrderStep
  <2>3. StreamInv'
    BY <1>2, <2>1, StreamStep
  <2>4. ViewInv'
    BY <1>2, ViewStep
  <2>5. QED
    BY <2>2, <2>3, <2>4 DEF ViewsInv, WatchInv
<1>3. ViewsInv => ViewsCatchUp
  <2> SUFFICES ASSUME ViewsInv, NEW s \in Subs, NEW n \in Nodes, Told(s, n), phase[s] = "on",
                      ~stale[s], ~changed, ~due,
                      \A i \in DOMAIN wire : wire[i].kind = "event" => wire[i].what.event.node # n
               PROVE  view[s][n] = graph[n]
    BY DEF ViewsCatchUp, Settled
  <2>1. watched /\ RightBehind(wire, 0, Matched(s, cache), view[s], cache, graph)
    BY DEF ViewsInv, ViewInv, Bound, Subscribed, Views
  <2>2. Silent(wire, 0, n)
    <3>1. DOMAIN wire = 1..Len(wire)
      BY DEF ViewsInv, WatchInv, Typed
    <3>2. QED
      BY <3>1 DEF Silent
  <2>3. graph = cache
    BY <2>1 DEF ViewsInv, StreamInv, Watching
  <2>4. n \in Matched(s, cache)
    BY <2>3 DEF Told, Matches, Matched
  <2>5. Right(view[s][n], n, cache, graph)
    BY <2>1, <2>2, <2>4 DEF RightBehind
  <2>6. QED
    BY <2>3, <2>5 DEF Right
<1>4. QED
  BY <1>1, <1>2, <1>3, PTL DEF Spec
===============================================================================
