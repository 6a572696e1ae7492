------------------------------- MODULE MemLRUSet -------------------------------
(***************************************************************************)
(* ua::BaseMemLRUSet (containers/inner/base_mem_lru_set.h): a MemSet whose *)
(* cells are also on a doubly linked list in order of use, from link 0.    *)
(* The callback of disuse may refuse to let a value go; it does not touch  *)
(* the set itself.                                                         *)
(***************************************************************************)
EXTENDS MemSet

CONSTANTS Keys

VARIABLES
  data,             \* base, and prev and next of the list of use
  last              \* the last call: what, with which key, its answer

Links == 0 .. max_num
Answer(op, k, ret) == last' = [op |-> op, key |-> k, ret |-> ret]
Same == UNCHANGED data
base == data.base

Linked(l, i) ==
  LET first == l.next[0]
  IN [l EXCEPT !.prev = [@ EXCEPT ![first] = i, ![i] = 0],
               !.next = [@ EXCEPT ![i] = first, ![0] = i]]

Unlinked(l, i) ==
  [l EXCEPT !.next[l.prev[i]] = l.next[i], !.prev[l.next[i]] = l.prev[i]]

Inserted(l, k) ==
  Linked([l EXCEPT !.base = InsertImpl(@, k)], EmptyIndex(l.base))

Erased(l, k) ==
  LET i == find_index(l.base, k)
      out == Unlinked([l EXCEPT !.base = ErasedFrom(@, k)], i)
  IN [out EXCEPT !.prev[i] = 0, !.next[i] = 0]

\* Mutant: what was used is put behind the last one.
Activated_Back(l, i) ==
  LET out == Unlinked(l, i)
      end == out.prev[0]
  IN [out EXCEPT !.next = [@ EXCEPT ![end] = i, ![i] = 0],
                 !.prev = [@ EXCEPT ![i] = end, ![0] = i]]

Activated(l, i) == Linked(Unlinked(l, i), i)

\* disuse: the least recently used value goes, n times.
Oldest(l) == l.base.value[l.prev[0]]
Disused(l, n) ==
  LET after[m \in 0 .. n] == IF m = 0 THEN l ELSE Erased(after[m - 1], Oldest(after[m - 1]))
  IN after[n]

Init ==
  /\ data = [base |-> EmptySet, prev |-> [i \in Links |-> 0], next |-> [i \in Links |-> 0]]
  /\ last = [op |-> "init", key |-> 0, ret |-> "ok"]

Exists(k) == find_index(base, k) # 0

\* agrees: what the callback of disuse answers.
Insert(k, force, agrees) ==
  \/ Exists(k) /\ Answer("insert", k, "exists") /\ Same
  \/ /\ ~Exists(k) /\ ~FullSet(base)
     /\ data' = Inserted(data, k) /\ Answer("insert", k, "inserted")
  \/ /\ ~Exists(k) /\ FullSet(base) /\ ~(force /\ agrees)
     /\ Answer("insert", k, "refused") /\ Same
  \/ /\ ~Exists(k) /\ FullSet(base) /\ force /\ agrees
     /\ data' = Inserted(Disused(data, 1), k) /\ Answer("insert", k, "evicted")

Erase(k) ==
  \/ ~Exists(k) /\ Answer("erase", k, "absent") /\ Same
  \/ Exists(k) /\ data' = Erased(data, k) /\ Answer("erase", k, "ok")

Active(k) ==
  \/ ~Exists(k) /\ Answer("active", k, "absent") /\ Same
  \/ /\ Exists(k)
     /\ data' = Activated(data, find_index(base, k)) /\ Answer("active", k, "ok")

\* The callback lets go of n values; then it refuses, or num is reached, or
\* the set is empty.
Disuse(n) ==
  /\ n <= base.used
  /\ data' = Disused(data, n)
  /\ Answer("disuse", n, "ok")

Find(k) == Answer("find", k, IF Exists(k) THEN "ok" ELSE "absent") /\ Same

\* Only link 0 of the list is reset.
Clear ==
  /\ data' = [data EXCEPT !.base = ClearedSet(@), !.prev[0] = 0, !.next[0] = 0]
  /\ Answer("clear", 0, "ok")

Next ==
  \/ Clear
  \/ \E n \in 0 .. max_num : Disuse(n)
  \/ \E k \in Keys : Erase(k) \/ Active(k) \/ Find(k)
  \/ \E k \in Keys, force, agrees \in BOOLEAN : Insert(k, force, agrees)
------------------------------------------------------------------------------
InUse == Walk(data.next, data.next[0])
Contents == [n \in 1 .. Len(InUse) |-> base.value[InUse[n]]]

\* The list of use, its way back, the chains of the buckets and an iteration
\* over the set meet the same cells, each once; the free list has the others.
CellsPartition ==
  LET free == Walk(base.next, base.free_index)
  IN /\ Mirror(InUse) = Walk(data.prev, data.prev[0])
     /\ \A b \in Buckets : \A i \in CellsOf(Chain(base, b)) : get_bucket_index(base.value[i]) = b
     /\ CellsOf(Iteration(base)) = CellsOf(InUse)
     /\ Len(Iteration(base)) = Len(InUse) /\ Len(InUse) = base.used
     /\ CellsOf(free) = 1 .. base.raw_used \ CellsOf(InUse)
     /\ Len(free) + base.used = base.raw_used
==============================================================================
