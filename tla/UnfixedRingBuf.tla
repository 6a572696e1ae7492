---------------------------- MODULE UnfixedRingBuf ----------------------------
(***************************************************************************)
(* ua::UnfixedRingBuf (containers/unfixed_ring_buf.h): records of any      *)
(* length in a ring of bytes.  A record is a two-byte header, flag and     *)
(* length as with MAX_SIZE below 256, and its bytes; it never wraps        *)
(* around.  The bytes left at the end of the ring are covered by a padding *)
(* record (flag 1), or skipped when they cannot even hold a header.        *)
(*                                                                         *)
(* push_impl calls itself again until the record is stored.  Here every    *)
(* activation, and every iteration of its loops, is a step, so that "the   *)
(* recursion ends" is something to check.                                  *)
(***************************************************************************)
EXTENDS Integers, Sequences

CONSTANTS
  size,         \* bytes of the ring, MAX_SIZE
  Payloads,     \* the records pushed, as sequences of bytes
  NoCall        \* no push under way

HEADER == 2

VARIABLES
  ring,         \* start, end, used_size, item_num and the bytes
  call          \* the push under way: its record, over_write, where it is

Bytes == 0 .. (size - 1)

IsEmpty(r) == r.used_size = 0
IsFull(r) == r.used_size >= size

SkipBytes(p) == IF p + HEADER > size THEN size - p ELSE 0

\* The padding record at p, if there is one.
Padding(r, p) == IF r.buf[p] = 1 THEN HEADER + r.buf[p + 1] ELSE 0

Cleared(r) == [r EXCEPT !.start = 0, !.end = 0, !.used_size = 0, !.item_num = 0]

Init ==
  /\ ring = [start |-> 0, end |-> 0, used_size |-> 0, item_num |-> 0,
             buf |-> [k \in Bytes |-> 0]]
  /\ call = NoCall

Popped(r) ==
  LET len == HEADER + r.buf[r.start + 1]
      next == (r.start + len) % size
      skip == SkipBytes(next)
      gap == IF skip > 0 THEN skip
             ELSE IF r.used_size > len THEN Padding(r, next) ELSE 0
      after == [r EXCEPT !.start = (next + gap) % size,
                         !.used_size = @ - len - gap, !.item_num = @ - 1]
  IN IF IsEmpty(after) THEN [after EXCEPT !.start = 0, !.end = 0] ELSE after

\* The header and the bytes of a record, stored at the end.
Stored(r, item) ==
  LET record == <<0, Len(item)>> \o item
  IN [r EXCEPT !.buf = [k \in Bytes |->
                          IF k - r.end \in 0 .. (Len(record) - 1)
                          THEN record[k - r.end + 1] ELSE @[k]],
               !.used_size = @ + Len(record), !.item_num = @ + 1]

WriteItem(r, item) ==
  LET end == (r.end + HEADER + Len(item)) % size
  IN [Stored(r, item) EXCEPT !.end = (end + SkipBytes(end)) % size,
                             !.used_size = @ + SkipBytes(end)]

WriteItemNoWrap(r, item) ==
  [Stored(r, item) EXCEPT !.end = r.end + HEADER + Len(item)]

Padded(r) ==
  [r EXCEPT !.buf[r.end] = 1, !.buf[r.end + 1] = size - r.end - HEADER,
            !.used_size = @ + (size - r.end), !.end = 0]
------------------------------------------------------------------------------
need == HEADER + Len(call.item)

\* A record that no ring of this size can hold is refused before push_impl.
Push(item, over_write) ==
  /\ call = NoCall
  /\ HEADER + Len(item) <= size
  /\ call' = [item |-> item, over_write |-> over_write, pc |-> "impl"]
  /\ UNCHANGED ring

Goto(pc) == call' = [call EXCEPT !.pc = pc]
Returns == call' = NoCall

\* Mutant: a full ring overwrites whether it was allowed to or not.
WhenFull_Overwrites ==
  /\ IsFull(ring)
  /\ ring' = Popped(ring) /\ UNCHANGED call

\* full(): refuse, or pop once; a ring that has popped is no longer full.
WhenFull ==
  /\ IsFull(ring)
  /\ \/ ~call.over_write /\ Returns /\ UNCHANGED ring
     \/ call.over_write /\ ring' = Popped(ring) /\ UNCHANGED call

\* Mutant: a record that fits exactly in front of start is refused.
FitsInFront_Strict == ring.start > need
FitsInFront == ring.start >= need

\* The free bytes are behind end and in front of start.
PlaceBehind ==
  /\ ring.end >= ring.start
  /\ \/ /\ ring.end + need <= size
        /\ ring' = WriteItem(ring, call.item) /\ Returns
     \/ /\ ring.end + need > size
        /\ ~call.over_write /\ ~FitsInFront
        /\ Returns /\ UNCHANGED ring
     \/ /\ ring.end + need > size
        /\ call.over_write \/ FitsInFront
        /\ ring' = Padded(ring)
        /\ Goto(IF call.over_write THEN "front" ELSE "impl")

\* Mutant: a record may reach one byte into the oldest one.
FitsBetween_ByOne == ring.end + need <= ring.start + 1
FitsBetween == ring.end + need <= ring.start

\* The free bytes are between end and start.
PlaceBetween ==
  /\ ring.end < ring.start
  /\ \/ /\ FitsBetween
        /\ ring' = WriteItemNoWrap(ring, call.item) /\ Returns
     \/ /\ ~FitsBetween /\ ~call.over_write
        /\ Returns /\ UNCHANGED ring
     \/ /\ ~FitsBetween /\ call.over_write
        /\ Goto(IF ring.end + need <= size THEN "between" ELSE "unwrap")
        /\ UNCHANGED ring

\* One activation of push_impl.
Activation ==
  /\ call.pc = "impl"
  /\ \/ WhenFull
     \/ ~IsFull(ring) /\ (PlaceBehind \/ PlaceBetween)

PopsThen(pc) == ring' = Popped(ring) /\ Goto(pc)
LeavesFor(pc) == Goto(pc) /\ UNCHANGED ring

\* while (!empty() && start < need_len) pop
MakeFrontRoom ==
  /\ call.pc = "front"
  /\ IF ~IsEmpty(ring) /\ ~FitsInFront THEN PopsThen("front") ELSE LeavesFor("impl")

\* while (end < start && end + need_len > start) pop
MakeRoomBetween ==
  /\ call.pc = "between"
  /\ IF ring.end < ring.start /\ ~FitsBetween THEN PopsThen("between") ELSE LeavesFor("impl")

\* do pop while (end < start), then the padding
Unwrap == call.pc = "unwrap" /\ PopsThen("unwrapped")
Unwrapped ==
  /\ call.pc = "unwrapped"
  /\ \/ ring.end < ring.start /\ PopsThen("unwrapped")
     \/ ring.end >= ring.start /\ ring' = Padded(ring) /\ Goto("impl")

PushStep ==
  /\ call # NoCall
  /\ Activation \/ MakeFrontRoom \/ MakeRoomBetween \/ Unwrap \/ Unwrapped

Pop ==
  /\ call = NoCall /\ ~IsEmpty(ring)
  /\ ring' = Popped(ring)
  /\ UNCHANGED call

Clear == call = NoCall /\ ring' = Cleared(ring) /\ UNCHANGED call

Next ==
  \/ \E item \in Payloads, over_write \in BOOLEAN : Push(item, over_write)
  \/ PushStep \/ Pop \/ Clear
------------------------------------------------------------------------------
\* find_start: from one record to the next.
NextStart(r, p) ==
  LET next == (p + HEADER + r.buf[p + 1]) % size
      skip == SkipBytes(next)
  IN IF skip > 0 THEN (next + skip) % size
     ELSE IF next # r.end THEN (next + Padding(r, next)) % size ELSE next

FindStart(r) ==
  LET at[i \in 0 .. r.item_num] == IF i = 0 THEN r.start ELSE NextStart(r, at[i - 1])
  IN at

Front(r, index) ==
  LET p == FindStart(r)[index]
  IN [k \in 1 .. r.buf[p + 1] |-> r.buf[p + 1 + k]]
------------------------------------------------------------------------------
(***************************************************************************)
(* Properties                                                              *)
(***************************************************************************)
Starts == {FindStart(ring)[i] : i \in 0 .. (ring.item_num - 1)}
RecordAt(p) == p .. (p + HEADER + ring.buf[p + 1] - 1)

\* Walking over item_num records from start, each of them with a header that
\* says "record", whole, inside the ring and apart from the others, arrives
\* at end; and used_size is the distance walked.
RecordsTile ==
  /\ FindStart(ring)[ring.item_num] = ring.end
  /\ \A p \in Starts : ring.buf[p] = 0 /\ RecordAt(p) \subseteq Bytes
  /\ \A p, q \in Starts : p # q => RecordAt(p) \cap RecordAt(q) = {}
  /\ ring.used_size =
       IF ring.item_num = 0 THEN 0
       ELSE IF ring.end > ring.start THEN ring.end - ring.start
       ELSE size - ring.start + ring.end

\* A record, with the padding behind it unless it is the newest.
Occupied(p) ==
  IF NextStart(ring, p) <= p /\ p # FindStart(ring)[ring.item_num - 1]
  THEN p .. (size - 1) ELSE RecordAt(p)

\* The current push finds a long enough run of bytes that nothing occupies.
HasRoom ==
  \E p \in Bytes :
    /\ p + need <= size
    /\ \A q \in Starts : Occupied(q) \cap (p .. (p + need - 1)) = {}

\* A step that ends a push without having stored its record.
Refuses == call # NoCall /\ call' = NoCall /\ ring'.item_num <= ring.item_num
==============================================================================
