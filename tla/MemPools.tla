------------------------------- MODULE MemPools -------------------------------
(***************************************************************************)
(* A pool in shared memory, its user, and crashes.  The user keeps what    *)
(* alloc returned and gives it back once; after a restart it knows its own *)
(* cells (ptr_2_int makes pointers that survive) and those it meets when   *)
(* it walks over the pool.  What a torn pool is like is left to the stores *)
(* of alloc and free: they run on it as on any other.                      *)
(***************************************************************************)
EXTENDS FixedMemPool, FiniteSets

CONSTANTS MaxCrashes    \* bound: crashes in the middle of an operation

VARIABLES
  pool,         \* the memory of the pool
  held,         \* the cells the user holds
  crashes,      \* how often its process died inside an operation
  damage        \* history: what that has cost since the pool was last cleared

vars == <<pool, held, crashes, damage>>

Init == pool = FreshPool /\ held = {} /\ crashes = 0 /\ damage = "none"

Alloc ==
  /\ CanAlloc(pool)
  /\ pool' = Allocated(pool)
  /\ held' = held \cup {AllocIndex(pool)}
  /\ UNCHANGED <<crashes, damage>>

\* The cells a user may give back: its own, and those it finds in the pool.
Known == held \cup (CellsOf(UsedList(pool)) \cap Cells)

Free(i) ==
  /\ i \in Known
  /\ pool' = Freed(pool, i)
  /\ held' = held \ {i}
  /\ UNCHANGED <<crashes, damage>>

\* free() of what the pool has already: a pointer used twice.
FreeAgain(i) ==
  /\ i \in Cells \ Known
  /\ i \in CellsOf(ReclaimList(pool)) \/ i > pool.raw_used_num
  /\ pool' = Freed(pool, i)
  /\ UNCHANGED <<held, crashes, damage>>

\* clear is init without check: it takes the block for a pool that is unused.
Clear == pool' = Cleared(pool) /\ held' = {} /\ damage' = "none" /\ UNCHANGED crashes

(***************************************************************************)
(* The process may die after any of the stores of an operation.  In four   *)
(* places what it leaves is torn: between the two stores that splice a     *)
(* cell in (after 4 of alloc) or out (after 1 of free), and while clear    *)
(* has reset raw_used_num but not yet both reclaim_list and link 0 (after  *)
(* 2 and 3).  Anywhere else it loses cells, or the count of them, at most. *)
(***************************************************************************)
Crash(tears) ==
  /\ crashes < MaxCrashes /\ crashes' = crashes + 1
  /\ damage' = IF tears \/ damage = "torn" THEN "torn" ELSE "lossy"

\* The process dies inside alloc: the index never reaches the user.
CrashInAlloc(n) ==
  /\ Crash(n = 4)
  /\ CanAlloc(pool)
  /\ pool' = AllocWrites(pool)[n]
  /\ UNCHANGED held

CrashInFree(i, n) ==
  /\ Crash(n = 1)
  /\ i \in Known /\ IsLive(pool, i)
  /\ pool' = FreeWrites(pool, i)[n]
  /\ held' = held \ {i}

CrashInClear(n) ==
  /\ Crash(n > 1)
  /\ pool' = ClearWrites(pool)[n]
  /\ held' = {}

\* ProtectedMemPool: a restart runs over the cells that are left.
Restart ==
  /\ UNCHANGED <<held, crashes, damage>>
  /\ ~RecoverAsserts(pool)
  /\ pool' = Recovered(pool)

Next ==
  \/ Alloc \/ Clear \/ Restart
  \/ \E i \in Cells : Free(i) \/ FreeAgain(i)
  \/ \E n \in 1 .. 6 : CrashInAlloc(n)
  \/ \E i \in Cells, n \in 1 .. 6 : CrashInFree(i, n)
  \/ \E n \in 1 .. 3 : CrashInClear(n)

------------------------------------------------------------------------------
(***************************************************************************)
(* Properties                                                              *)
(***************************************************************************)
\* Until the process crashes inside an operation, and again once the pool has
\* been cleared, whatever had happened to it, the pool is exact: the cells in use
\* are those the user holds, in a doubly linked list, the cells given back form
\* the other list, and used_num and raw_used_num count them.
PoolIsExact ==
  damage = "none" =>
    /\ CellsOf(UsedList(pool)) = held
    /\ Len(UsedList(pool)) = Cardinality(held) /\ pool.used_num = Cardinality(held)
    /\ \A i \in held \cup {0} : pool.prev[pool.next[i]] = i
    /\ CellsOf(ReclaimList(pool)) = 1 .. pool.raw_used_num \ held
    /\ Len(ReclaimList(pool)) = pool.raw_used_num - Cardinality(held)
    /\ \A i \in CellsOf(ReclaimList(pool)) : ~IsLive(pool, i)

\* alloc hands out no cell that its user holds.
HandsOutFreeCell == CanAlloc(pool) => AllocIndex(pool) \in Cells \ held

\* Nor does it after crashes that did not tear the pool, which cost cells and a
\* wrong used_num, nothing else.
NeverHandedOutTwice == damage # "torn" => HandsOutFreeCell

\* Of a restart: the list of the cells in use, in its order, and used_num are
\* what they were (the assert on saved_size).
CellsKept == UsedList(pool') = UsedList(pool) /\ pool'.used_num = pool.used_num
==============================================================================
