----------------------------- MODULE FixedRingBuf -----------------------------
(***************************************************************************)
(* ua::FixedRingBuf (containers/fixed_ring_buf.h): values of one size in a *)
(* ring of max_num slots.                                                  *)
(***************************************************************************)
EXTENDS Integers, Sequences

CONSTANTS
  max_num,      \* slots of the ring
  Values,       \* what is pushed
  NoCall        \* no push under way

VARIABLES
  ring,         \* start, end, used_num and the slots
  call          \* the push under way

Slots == 0 .. (max_num - 1)
EmptyRing(buf) == [start |-> 0, end |-> 0, used_num |-> 0, buf |-> buf]

IsEmpty == ring.used_num = 0
IsFull == ring.used_num = max_num

\* The slots hold whatever was in the memory.
Init ==
  /\ \E buf \in [Slots -> Values] : ring = EmptyRing(buf)
  /\ call = NoCall

Popped(r) == [r EXCEPT !.start = (@ + 1) % max_num, !.used_num = @ - 1]

Push(value, over_write) ==
  /\ call = NoCall
  /\ call' = [item |-> value, over_write |-> over_write]
  /\ UNCHANGED ring

\* A full ring refuses, or pops its oldest value to make room.
PushFull ==
  /\ IsFull
  /\ \/ ~call.over_write /\ call' = NoCall /\ UNCHANGED ring
     \/ call.over_write /\ ring' = Popped(ring) /\ UNCHANGED call

PushStore ==
  /\ ~IsFull
  /\ ring' = [ring EXCEPT !.buf[ring.end] = call.item,
                          !.end = (@ + 1) % max_num, !.used_num = @ + 1]
  /\ call' = NoCall

PushStep == call # NoCall /\ (PushFull \/ PushStore)

Pop == call = NoCall /\ ~IsEmpty /\ ring' = Popped(ring) /\ UNCHANGED call
Clear == call = NoCall /\ ring' = EmptyRing(ring.buf) /\ UNCHANGED call

Next ==
  \/ \E value \in Values, over_write \in BOOLEAN : Push(value, over_write)
  \/ PushStep \/ Pop \/ Clear

Spec == Init /\ [][Next]_<<ring, call>>
------------------------------------------------------------------------------
Front(index) == ring.buf[(ring.start + index) % max_num]
Back(index) == ring.buf[(ring.end + max_num - 1 - index) % max_num]

\* What front returns for every index.
Fronts == [i \in 1 .. ring.used_num |-> Front(i - 1)]

\* The newest value is the first from the back.
BackMirrorsFront == \A i \in 0 .. (ring.used_num - 1) : Back(i) = Front(ring.used_num - 1 - i)
==============================================================================
