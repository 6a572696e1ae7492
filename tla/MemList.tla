-------------------------------- MODULE MemList --------------------------------
(***************************************************************************)
(* ua::BaseMemList (containers/inner/base_mem_list.h): values in cells     *)
(* 1 .. max_num, doubly linked from link 0; erased cells form a free list  *)
(* through their next.                                                     *)
(***************************************************************************)
EXTENDS Naturals, Sequences, CellChains

CONSTANTS max_num, Keys

VARIABLES
  data,             \* used, raw_used, free_index, prev, next and value
  last              \* the last call: what, with which value, its answer

Cells == 1 .. max_num
Links == 0 .. max_num
Answer(op, k, ret) == last' = [op |-> op, key |-> k, ret |-> ret]
Same == UNCHANGED data

EmptyList ==
  [used |-> 0, raw_used |-> 0, free_index |-> 0,
   prev |-> [i \in Links |-> 0], next |-> [i \in Links |-> 0],
   value |-> [i \in Cells |-> 0]]

Full == data.used >= max_num
Empty == data.used = 0

alloc_index(m) == IF m.free_index = 0 THEN m.raw_used + 1 ELSE m.free_index
Taken(m) ==
  IF m.free_index = 0 THEN [m EXCEPT !.raw_used = @ + 1]
  ELSE [m EXCEPT !.free_index = m.next[@]]

\* A new cell between the neighbours before and behind.
Between(m, k, before, behind) ==
  LET i == alloc_index(m)
  IN [Taken(m) EXCEPT !.value[i] = k,
                      !.prev = [@ EXCEPT ![behind] = i, ![i] = before],
                      !.next = [@ EXCEPT ![before] = i, ![i] = behind],
                      !.used = @ + 1]

\* Cell i is given back, and its neighbours linked to each other.
Without(m, i, before, behind) ==
  [m EXCEPT !.next = [@ EXCEPT ![before] = behind, ![i] = m.free_index],
            !.prev[behind] = before,
            !.free_index = i, !.used = @ - 1]

Init == data = EmptyList /\ last = [op |-> "init", key |-> 0, ret |-> "ok"]

InList == Walk(data.next, data.next[0])

find_pos(k) ==
  LET n == FirstHit(InList, LAMBDA i : data.value[i] = k)
  IN IF n = 0 THEN 0 ELSE InList[n]

PushFront(k) ==
  \/ Full /\ Answer("push_front", k, "refused") /\ Same
  \/ ~Full /\ data' = Between(data, k, 0, data.next[0]) /\ Answer("push_front", k, "inserted")

PushBack(k) ==
  \/ Full /\ Answer("push_back", k, "refused") /\ Same
  \/ ~Full /\ data' = Between(data, k, data.prev[0], 0) /\ Answer("push_back", k, "inserted")

First == data.next[0]
Final == data.prev[0]
Removed(i) == Without(data, i, data.prev[i], data.next[i])

PopFront ==
  \/ Empty /\ Answer("pop_front", 0, "absent") /\ Same
  \/ ~Empty /\ data' = Without(data, First, 0, data.next[First]) /\ Answer("pop_front", 0, "ok")

PopBack ==
  \/ Empty /\ Answer("pop_back", 0, "absent") /\ Same
  \/ ~Empty /\ data' = Without(data, Final, data.prev[Final], 0) /\ Answer("pop_back", 0, "ok")

\* erase(value): the first cell that holds it.
Erase(k) ==
  \/ find_pos(k) = 0 /\ Answer("erase", k, "absent") /\ Same
  \/ find_pos(k) # 0 /\ data' = Removed(find_pos(k)) /\ Answer("erase", k, "ok")

\* erase(it), erase(pos): a position of a cell that is in the list, which the
\* code leaves to its caller.
EraseAt(n) == data' = Removed(InList[n]) /\ Answer("erase_at", n, "ok")

Find(k) == Answer("find", k, IF find_pos(k) = 0 THEN "absent" ELSE "ok") /\ Same

\* The links of the cells stay as they are.
Clear ==
  /\ data' = [data EXCEPT !.used = 0, !.prev[0] = 0, !.next[0] = 0,
                          !.free_index = 0, !.raw_used = 0]
  /\ Answer("clear", 0, "ok")

Next ==
  \/ Clear \/ PopFront \/ PopBack
  \/ \E k \in Keys : PushFront(k) \/ PushBack(k) \/ Erase(k) \/ Find(k)
  \/ \E n \in 1 .. data.used : EraseAt(n)
------------------------------------------------------------------------------
Contents == [n \in 1 .. Len(InList) |-> data.value[InList[n]]]

\* The list is the same both ways, used counts it, and the free list has the
\* cells that have been used and are not in it.
CellsPartition ==
  LET free == Walk(data.next, data.free_index)
  IN /\ Mirror(InList) = Walk(data.prev, data.prev[0])
     /\ Len(InList) = data.used
     /\ CellsOf(free) = 1 .. data.raw_used \ CellsOf(InList)
     /\ Len(free) + data.used = data.raw_used
==============================================================================
