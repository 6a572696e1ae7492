------------------------------ MODULE HashMemPool ------------------------------
(***************************************************************************)
(* ua::HashMemPool (containers/hash_mem_pool.h): a FixedMemPool whose      *)
(* cells hold keys, chained into buckets.  begin() to end() walks over the *)
(* list of the pool, newest cell first.                                    *)
(***************************************************************************)
EXTENDS FixedMemPool

CONSTANTS
  Keys,             \* natural numbers; std::hash of one is itself
  buckets_num       \* buckets of the hash table

VARIABLES
  data,             \* pool, buckets, and the first and next of every cell
  last              \* the last call: what, with which key, its answer

Buckets == 0 .. (buckets_num - 1)
Answer(op, k, ret) == last' = [op |-> op, key |-> k, ret |-> ret]
Same == UNCHANGED data

EmptyHash ==
  [pool |-> FreshPool, buckets |-> [b \in Buckets |-> 0],
   first |-> [i \in Cells |-> 0], chain |-> [i \in Cells |-> 0]]

bucket_index(k) == k % buckets_num
Chain(h, b) == Walk(h.chain, h.buckets[b])

\* The cell that holds k, or 0.
find_ref(h, k) ==
  LET cells == Chain(h, bucket_index(k))
      n == FirstHit(cells, LAMBDA i : h.first[i] = k)
  IN IF n = 0 THEN 0 ELSE cells[n]

Inserted(h, k) ==
  LET i == AllocIndex(h.pool)
      b == bucket_index(k)
  IN [h EXCEPT !.pool = Allocated(@), !.first[i] = k,
               !.chain[i] = h.buckets[b], !.buckets[b] = i]

Erased(h, k) ==
  LET cells == Chain(h, bucket_index(k))
      i == find_ref(h, k)
      n == FirstHit(cells, LAMBDA j : j = i)
      out == IF n = 1 THEN [h EXCEPT !.buckets[bucket_index(k)] = h.chain[i]]
             ELSE [h EXCEPT !.chain[cells[n - 1]] = h.chain[i]]
  IN [out EXCEPT !.pool = Freed(@, i)]

Init == data = EmptyHash /\ last = [op |-> "init", key |-> 0, ret |-> "ok"]

\* insert looks at full() before it looks for the key.
InsertAs(op, k) ==
  \/ Full(data.pool) /\ Answer(op, k, "refused") /\ Same
  \/ /\ ~Full(data.pool) /\ find_ref(data, k) # 0
     /\ Answer(op, k, "exists") /\ Same
  \/ /\ ~Full(data.pool) /\ find_ref(data, k) = 0
     /\ data' = Inserted(data, k) /\ Answer(op, k, "inserted")

Insert(k) == InsertAs("insert", k)

GetOrInsert(k) ==
  \/ find_ref(data, k) # 0 /\ Answer("get_or_insert", k, "exists") /\ Same
  \/ find_ref(data, k) = 0 /\ InsertAs("get_or_insert", k)

Erase(k) ==
  \/ find_ref(data, k) = 0 /\ Answer("erase", k, "absent") /\ Same
  \/ find_ref(data, k) # 0 /\ data' = Erased(data, k) /\ Answer("erase", k, "ok")

Find(k) == Answer("find", k, IF find_ref(data, k) = 0 THEN "absent" ELSE "ok") /\ Same

\* init without check: the buckets and the pool, not the cells.
Clear ==
  /\ data' = [data EXCEPT !.pool = Cleared(@), !.buckets = [b \in Buckets |-> 0]]
  /\ Answer("clear", 0, "ok")

Next ==
  \/ Clear
  \/ \E k \in Keys : Insert(k) \/ GetOrInsert(k) \/ Erase(k) \/ Find(k)
------------------------------------------------------------------------------
Contents == LET cells == UsedList(data.pool) IN [n \in 1 .. Len(cells) |-> data.first[cells[n]]]

\* The chains of the buckets are the list of the pool, each cell in the bucket
\* of its key, and the cells given back are in neither.
CellsPartition ==
  LET used == UsedList(data.pool)
      given == ReclaimList(data.pool)
  IN /\ \A b \in Buckets : \A i \in CellsOf(Chain(data, b)) : bucket_index(data.first[i]) = b
     /\ UNION {CellsOf(Chain(data, b)) : b \in Buckets} = CellsOf(used)
     /\ CellsOf(given) = 1 .. data.pool.raw_used_num \ CellsOf(used)
     /\ Len(used) = data.pool.used_num
     /\ Len(used) + Len(given) = data.pool.raw_used_num
     /\ \A i \in CellsOf(used) \cup {0} : data.pool.prev[data.pool.next[i]] = i
==============================================================================
