------------------------------ MODULE EventLog ------------------------------
(***************************************************************************)
(* What events.since promises a reader, apart from how the daemon keeps    *)
(* the events: every event of the epoch after the reader's cursor, or an   *)
(* honest "resync", and resync only outside the replay window              *)
(* (src/daemon/events.ts, EventManager and SinceResult).                   *)
(***************************************************************************)
EXTENDS Integers, Sequences

CONSTANTS Event, Readers, Cursors, Window, MaxEpoch

VARIABLES
  log,    \* every event of this daemon process, in order
  epoch,  \* which process it is
  answer  \* the last answer each reader got

NoAnswer == [cursor |-> [epoch |-> 0, seq |-> -1], resync |-> TRUE, events |-> << >>]

Init == log = << >> /\ epoch = 0 /\ answer = [r \in Readers |-> NoAnswer]

Emit == \E e \in Event : log' = Append(log, e) /\ UNCHANGED <<epoch, answer>>

Missed(c) ==
  [i \in 1..(Len(log) - c.seq) |-> [seq |-> c.seq + i, epoch |-> epoch, event |-> log[c.seq + i]]]

InWindow(c) == c.epoch = epoch /\ c.seq >= 0 /\ Len(log) - c.seq <= Window

Answer(r) ==
  /\ \E c \in Cursors :
       \/ /\ c.epoch = epoch /\ c.seq >= 0
          /\ answer' = [answer EXCEPT ![r] = [cursor |-> c, resync |-> FALSE, events |-> Missed(c)]]
       \/ /\ ~InWindow(c)
          /\ answer' = [answer EXCEPT ![r] = [cursor |-> c, resync |-> TRUE, events |-> << >>]]
  /\ UNCHANGED <<log, epoch>>

Restart == epoch < MaxEpoch /\ epoch' = epoch + 1 /\ log' = << >> /\ UNCHANGED answer

Next == Emit \/ (\E r \in Readers : Answer(r)) \/ Restart

Spec == Init /\ [][Next]_<<log, epoch, answer>>
=============================================================================
