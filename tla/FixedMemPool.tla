----------------------------- MODULE FixedMemPool -----------------------------
(***************************************************************************)
(* ua::FixedMemPool (containers/fixed_mem_pool.h): cells of one size in a  *)
(* block of memory that outlives the process.  Two lists run through the   *)
(* links: the cells in use, doubly linked from link 0, and the cells given *)
(* back, from reclaim_list; cells above raw_used_num were never used.      *)
(*                                                                         *)
(* alloc and free are the sequences of memory states their stores produce, *)
(* in program order; the operation is the last of them, and a crash leaves *)
(* any of them to init(check), which compares sizes only.  A pointer is    *)
(* the index of its cell (ptr_2_int, int_2_ptr).                           *)
(***************************************************************************)
EXTENDS Integers, Sequences, CellChains

CONSTANTS max_num       \* cells of the pool

Cells == 1 .. max_num
Links == 0 .. max_num

\* init_header.  Only link 0 is written; the others keep what they held.
ClearWrites(p) ==
  LET unused == [p EXCEPT !.used_num = 0]
      raw == [unused EXCEPT !.raw_used_num = 0]
      unchained == [raw EXCEPT !.reclaim_list = 0]
  IN <<unused, raw, unchained, [unchained EXCEPT !.prev[0] = 0, !.next[0] = 0]>>

Cleared(p) == ClearWrites(p)[4]

FreshPool ==
  [used_num |-> 0, raw_used_num |-> 0, reclaim_list |-> 0,
   prev |-> [i \in Links |-> 0], next |-> [i \in Links |-> 0]]

Full(p) == p.used_num >= max_num
Empty(p) == p.used_num = 0

\* full() says there is a cell, and there is none: the assert of alloc.
Asserts(p) == ~Full(p) /\ p.reclaim_list = 0 /\ p.raw_used_num >= max_num
CanAlloc(p) == ~Full(p) /\ ~Asserts(p)

AllocIndex(p) == IF p.reclaim_list # 0 THEN p.reclaim_list ELSE p.raw_used_num + 1

\* Mutant: the old first cell does not learn of the new one.
AllocWrites_NoBack(p) ==
  LET i == AllocIndex(p)
      taken == IF p.reclaim_list # 0 THEN [p EXCEPT !.reclaim_list = p.next[i]]
               ELSE [p EXCEPT !.raw_used_num = @ + 1]
      ahead == [taken EXCEPT !.next[i] = p.next[0]]
      behind == [ahead EXCEPT !.prev[i] = 0]
      linked == [behind EXCEPT !.next[0] = i]
  IN <<taken, ahead, behind, behind, linked, [linked EXCEPT !.used_num = @ + 1]>>

AllocWrites(p) ==
  LET i == AllocIndex(p)
      first == p.next[0]
      taken == IF p.reclaim_list # 0 THEN [p EXCEPT !.reclaim_list = p.next[i]]
               ELSE [p EXCEPT !.raw_used_num = @ + 1]
      ahead == [taken EXCEPT !.next[i] = first]
      behind == [ahead EXCEPT !.prev[i] = 0]
      back == [behind EXCEPT !.prev[first] = i]
      linked == [back EXCEPT !.next[0] = i]
  IN <<taken, ahead, behind, back, linked, [linked EXCEPT !.used_num = @ + 1]>>

\* Mutant: free() accepts what the pool already has.
IsLive_NoMark(p, i) == ~Empty(p) /\ i <= p.raw_used_num

\* What free() accepts: the mark max_num + 1 in prev tells a cell given back.
IsLive(p, i) == ~Empty(p) /\ i <= p.raw_used_num /\ p.prev[i] <= max_num

FreeWrites(p, i) ==
  LET before == [p EXCEPT !.next[p.prev[i]] = p.next[i]]
      after == [before EXCEPT !.prev[before.next[i]] = before.prev[i]]
      marked == [after EXCEPT !.prev[i] = max_num + 1]
      chained == [marked EXCEPT !.next[i] = marked.reclaim_list]
      given == [chained EXCEPT !.reclaim_list = i]
  IN <<before, after, marked, chained, given, [given EXCEPT !.used_num = @ - 1]>>

Allocated(p) == AllocWrites(p)[6]
Freed(p, i) == IF IsLive(p, i) THEN FreeWrites(p, i)[6] ELSE p

\* What an iteration from begin() to end() meets, and the cells given back.
UsedList(p) == Walk(p.next, p.next[0])
ReclaimList(p) == Walk(p.next, p.reclaim_list)
------------------------------------------------------------------------------
(***************************************************************************)
(* ua::ProtectedMemPool::init(check): every cell left is allocated, so     *)
(* that the fences of all of them can be set along the list, then freed.   *)
(***************************************************************************)
Drains(p) ==
  LET at[n \in 0 .. (max_num - p.used_num)] ==
        IF n = 0 THEN [pool |-> p, taken |-> <<>>]
        ELSE [pool |-> Allocated(at[n - 1].pool),
              taken |-> Append(at[n - 1].taken, AllocIndex(at[n - 1].pool))]
  IN at

\* One of these allocations runs into the assert of alloc.
RecoverAsserts(p) ==
  \E n \in 0 .. (max_num - p.used_num - 1) : Asserts(Drains(p)[n].pool)

\* Mutant: the cells taken for the recovery are not given back.
Recovered_Keeps(p) == Drains(p)[max_num - p.used_num].pool

Recovered(p) ==
  LET drained == Drains(p)[max_num - p.used_num]
      freed[n \in 0 .. (max_num - p.used_num)] ==
        IF n = 0 THEN drained.pool ELSE Freed(freed[n - 1], drained.taken[n])
  IN freed[max_num - p.used_num]
==============================================================================
