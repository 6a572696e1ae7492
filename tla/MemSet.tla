-------------------------------- MODULE MemSet --------------------------------
(***************************************************************************)
(* ua::BaseMemSet (containers/inner/base_mem_set.h), the set under MemSet, *)
(* MemMap and the LRU containers: values in cells 1 .. max_num, chained    *)
(* into buckets; erased cells form a free list through the same links.     *)
(* Operators over its data; MemLRUSet takes the steps.                     *)
(***************************************************************************)
EXTENDS Naturals, Sequences, CellChains

CONSTANTS
  max_num,          \* MAX_SIZE, or max_num of init
  buckets_num

Cells == 1 .. max_num
Buckets == 0 .. (buckets_num - 1)

EmptySet ==
  [used |-> 0, raw_used |-> 0, free_index |-> 0,
   buckets |-> [b \in Buckets |-> 0], next |-> [i \in Cells |-> 0],
   value |-> [i \in Cells |-> 0]]

\* The values stay, everything else is reset.
ClearedSet(s) == [EmptySet EXCEPT !.value = s.value]

FullSet(s) == s.used = max_num
get_bucket_index(k) == k % buckets_num
Chain(s, b) == Walk(s.next, s.buckets[b])

\* The cell of k, or 0.
find_index(s, k) ==
  LET cells == Chain(s, get_bucket_index(k))
      n == FirstHit(cells, LAMBDA i : s.value[i] = k)
  IN IF n = 0 THEN 0 ELSE cells[n]

EmptyIndex(s) == IF s.free_index = 0 THEN s.raw_used + 1 ELSE s.free_index

InsertImpl(s, k) ==
  LET i == EmptyIndex(s)
      b == get_bucket_index(k)
      taken == IF s.free_index = 0 THEN [s EXCEPT !.raw_used = @ + 1]
               ELSE [s EXCEPT !.free_index = s.next[i]]
  IN [taken EXCEPT !.next[i] = s.buckets[b], !.buckets[b] = i,
                   !.used = @ + 1, !.value[i] = k]

\* Mutant: the erased cell keeps its place in the chain.
ErasedFrom_Chained(s, k) ==
  [s EXCEPT !.next[find_index(s, k)] = s.free_index,
            !.free_index = find_index(s, k), !.used = @ - 1]

ErasedFrom(s, k) ==
  LET cells == Chain(s, get_bucket_index(k))
      i == find_index(s, k)
      n == FirstHit(cells, LAMBDA j : j = i)
      out == IF n = 1 THEN [s EXCEPT !.buckets[get_bucket_index(k)] = s.next[i]]
             ELSE [s EXCEPT !.next[cells[n - 1]] = s.next[i]]
  IN [out EXCEPT !.next[i] = s.free_index, !.free_index = i, !.used = @ - 1]

\* The cells an iteration from begin() to end() meets: ++ goes on to the next
\* bucket that is not empty, behind the bucket of the value it stands on.
Iteration(s) == Joined([n \in 1 .. buckets_num |-> Chain(s, n - 1)])
==============================================================================
