----------------------------- MODULE EventStream -----------------------------
(***************************************************************************)
(* The daemon's replayable event stream (src/daemon/events.ts): a ring     *)
(* buffer of stamped events.  A stream is a value; the modules that extend *)
(* this one keep it in a variable.                                         *)
(***************************************************************************)
EXTENDS Integers, Sequences, Subsequences

CONSTANTS
  Event,      \* what an event may say
  BufferSize, \* events kept for replay
  MaxEpoch    \* bound on the restarts of the daemon

ASSUME BufferAssumption == BufferSize \in Nat \ {0} /\ MaxEpoch \in Nat

Epochs == 0..MaxEpoch

\* A daemon process starts: a new epoch (a random id), nothing emitted.
Fresh(e) == [epoch |-> e, latestSeq |-> 0, buffer |-> << >>]

\* Mutation: the event gets the sequence number of the one before it.
PushUnnumbered(s, e) ==
  LET stamped == [seq |-> s.latestSeq, epoch |-> s.epoch, event |-> e]
      buffer  == Append(s.buffer, stamped)
  IN  [s EXCEPT !.latestSeq = @ + 1,
                !.buffer = IF Len(buffer) > BufferSize THEN Tail(buffer) ELSE buffer]

\* emit(): stamp, append, drop the oldest event of a full buffer.
Push(s, e) ==
  LET stamped == [seq |-> s.latestSeq + 1, epoch |-> s.epoch, event |-> e]
      buffer  == Append(s.buffer, stamped)
  IN  [s EXCEPT !.latestSeq = @ + 1,
                !.buffer = IF Len(buffer) > BufferSize THEN Tail(buffer) ELSE buffer]

Oldest(s) == IF s.buffer = << >> THEN s.latestSeq + 1 ELSE s.buffer[1].seq

\* Mutation: the event right after the cursor may have been evicted.
UnservableLate(s, c) ==
  \/ c.seq < 0
  \/ c.epoch # s.epoch
  \/ c.seq < s.latestSeq /\ c.seq + 2 < Oldest(s)

\* A malformed cursor (one with a negative seq stands for all of them), one of
\* another epoch, or one whose next event was evicted.
Unservable(s, c) ==
  \/ c.seq < 0
  \/ c.epoch # s.epoch
  \/ c.seq < s.latestSeq /\ c.seq + 1 < Oldest(s)

\* since(): the buffered events after the cursor, or the order to resync.
Since(s, c) ==
  IF Unservable(s, c) THEN [resync |-> TRUE, events |-> << >>]
  ELSE [resync |-> FALSE, events |-> Picked(s.buffer, {i \in DOMAIN s.buffer : s.buffer[i].seq > c.seq})]

\* current()
Current(s) == [epoch |-> s.epoch, seq |-> s.latestSeq]
=============================================================================
