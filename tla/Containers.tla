------------------------------ MODULE Containers ------------------------------
(***************************************************************************)
(* A user of one structure of src/containers, of any of six classes: the   *)
(* two ring buffers, the pool of cells with its crashes, and the three     *)
(* containers of keys.  Each lives in memory of a fixed size that it       *)
(* manages itself; the variables of the classes not in use stay put.       *)
(***************************************************************************)
EXTENDS Naturals, Sequences

CONSTANTS
  max_num,      \* cells of each class
  Keys,         \* what is put into each container of keys
  buckets_num,
  MaxCrashes,   \* bound: crashes inside an operation of the pool
  size,         \* bytes of the byte ring
  Payloads,     \* records pushed into it
  Values,       \* values pushed into the ring of values
  NoCall

\* A ring, a pool, a container and a hash table have room for something, and
\* what is hashed is a number; a record is a sequence of bytes, and no call is
\* not a call.
ASSUME ContainersAssumption ==
  /\ size \in Nat /\ size > 2
  /\ max_num \in [{"ring", "pool", "hash", "lru", "list"} -> Nat \ {0}]
  /\ buckets_num \in Nat \ {0}
  /\ Keys.hash \subseteq Nat /\ Keys.lru \subseteq Nat
  /\ Payloads \subseteq Seq(Nat)
  /\ NoCall \notin [item : Payloads, over_write : BOOLEAN]
  /\ NoCall \notin [item : Payloads, over_write : BOOLEAN,
                    pc : {"impl", "front", "between", "unwrap", "unwrapped"}]

VARIABLES
  kind,                 \* the class, fixed for good
  ring, call,           \* a ring, and the push under way
  pool, held,           \* a pool, what its user holds,
  crashes, damage,      \* how often it crashed, and what that has done to it
  data, last            \* a container of keys, and the last call with its answer

ringVars == <<ring, call>>
poolVars == <<pool, held, crashes, damage>>
keyVars == <<data, last>>
vars == <<kind, ringVars, poolVars, keyVars>>

Unfixed == INSTANCE UnfixedRingBuf
Fixed == INSTANCE FixedRingBuf WITH max_num <- max_num.ring
Pools == INSTANCE MemPools WITH max_num <- max_num.pool
Hash == INSTANCE HashMemPool WITH max_num <- max_num.hash, Keys <- Keys.hash
Lru == INSTANCE MemLRUSet WITH max_num <- max_num.lru, Keys <- Keys.lru
List == INSTANCE MemList WITH max_num <- max_num.list, Keys <- Keys.list

NoRing == ring = <<>> /\ call = NoCall
NoPool == pool = <<>> /\ held = {} /\ crashes = 0 /\ damage = "none"
NoKeys == data = <<>> /\ last = [op |-> "init", key |-> 0, ret |-> "ok"]

Init ==
  \/ kind = "unfixed" /\ Unfixed!Init /\ NoPool /\ NoKeys
  \/ kind = "fixed" /\ Fixed!Init /\ NoPool /\ NoKeys
  \/ kind = "pool" /\ Pools!Init /\ NoRing /\ NoKeys
  \/ /\ NoRing /\ NoPool
     /\ \/ kind = "hash" /\ Hash!Init
        \/ kind = "lru" /\ Lru!Init
        \/ kind = "list" /\ List!Init

RingNext ==
  /\ \/ kind = "unfixed" /\ Unfixed!Next
     \/ kind = "fixed" /\ Fixed!Next
  /\ UNCHANGED <<kind, poolVars, keyVars>>
PoolNext == kind = "pool" /\ Pools!Next /\ UNCHANGED <<kind, ringVars, keyVars>>
KeyNext ==
  /\ \/ kind = "hash" /\ Hash!Next
     \/ kind = "lru" /\ Lru!Next
     \/ kind = "list" /\ List!Next
  /\ UNCHANGED <<kind, ringVars, poolVars>>

Next == RingNext \/ PoolNext \/ KeyNext

PushStep ==
  /\ \/ kind = "unfixed" /\ Unfixed!PushStep
     \/ kind = "fixed" /\ Fixed!PushStep
  /\ UNCHANGED <<kind, poolVars, keyVars>>

\* A push is straight-line code and loops: its thread keeps running it.
Spec == Init /\ [][Next]_vars /\ WF_vars(PushStep)

------------------------------------------------------------------------------
(***************************************************************************)
(* Properties                                                              *)
(***************************************************************************)
\* The byte ring accounts for each of its bytes: records do not overlap, and
\* positions, counts and used bytes agree, whatever was overwritten.  In the
\* ring of values back counts from the newest as front does from the oldest.
RecordsTile ==
  CASE kind = "unfixed" -> Unfixed!RecordsTile
    [] kind = "fixed" -> Fixed!BackMirrorsFront
    [] OTHER -> TRUE

\* The byte ring refuses a push only when it has no contiguous room for it.
RefusedOnlyWhenNoRoom ==
  [][kind = "unfixed" /\ Unfixed!Refuses => ~Unfixed!HasRoom]_vars

\* What front returns for every index.
Fronts ==
  CASE kind = "unfixed" -> [i \in 1 .. ring.item_num |-> Unfixed!Front(ring, i - 1)]
    [] kind = "fixed" -> Fixed!Fronts
    [] OTHER -> <<>>

Log == INSTANCE RecordLog WITH
  Records <- Payloads \cup Values,
  log <- Fronts,
  call <- IF call = NoCall THEN NoCall
          ELSE [item |-> call.item, over_write |-> call.over_write]

\* Both rings are logs of whole records: what was pushed comes out unchanged
\* and in order, only overwriting drops records, the oldest first, it is never
\* refused, and every push, for all its recursion, returns.
ImplementsLog == Log!LogSpec

\* Until the process crashes inside an operation of a pool, and again once the
\* pool has been cleared, it is exact: the cells in use are those its user holds,
\* doubly linked, those given back form the other list, and both counters count.
PoolIsExact == kind = "pool" => Pools!PoolIsExact

\* As long as no crash has torn it, in one of the four places Pools!Crash names,
\* alloc never hands out a cell that its user holds: what crashes cost is cells
\* and a wrong used_num.
NeverHandedOutTwice == kind = "pool" => Pools!NeverHandedOutTwice

\* ProtectedMemPool::init(check) allocates and frees all that is left, and yet
\* leaves the list of the cells in use, in its order, and used_num as they were,
\* unless a crash has torn the pool.
RecoveryKeepsCells ==
  [][kind = "pool" /\ damage # "torn" /\ Pools!Restart => Pools!CellsKept]_vars

\* Every cell of a container of keys is in exactly one place: reachable by its
\* key and on the list an iteration follows, both ways, or free, or not used
\* yet; and the counters that decide on full() agree with it.
CellsPartition ==
  CASE kind = "hash" -> Hash!CellsPartition
    [] kind = "lru" -> Lru!CellsPartition
    [] kind = "list" -> List!CellsPartition
    [] OTHER -> TRUE

Contents ==
  CASE kind = "hash" -> Hash!Contents
    [] kind = "lru" -> Lru!Contents
    [] kind = "list" -> List!Contents
    [] OTHER -> <<>>

Abstract == INSTANCE KeyList WITH
  Capacity <- max_num, keys <- Contents,
  kind <- IF kind \in {"hash", "lru"} THEN kind ELSE "list"

\* However cells are reused, what a container holds, in which order, and every
\* answer it gives are those of the list of keys: recency decides who is
\* evicted, and a key is found exactly as long as it is held.
ImplementsKeyList == Abstract!ListSpec
==============================================================================
