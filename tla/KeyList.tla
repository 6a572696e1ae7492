------------------------------- MODULE KeyList -------------------------------
(***************************************************************************)
(* What the containers of keys promise: a bounded list of keys and, call   *)
(* by call, the answer.  In a "hash" pool the newest key is in front; in   *)
(* an "lru" set the one used last; both hold a key once.  A "list" is what *)
(* its user makes of both ends, and may hold a value twice.                *)
(***************************************************************************)
EXTENDS Naturals, Sequences

CONSTANTS Keys, Capacity     \* of each kind

VARIABLES
  kind,         \* which of the three
  keys,         \* the keys, from begin() to end()
  last          \* the last call and its answer

listVars == <<kind, keys, last>>

Elements(list) == {list[n] : n \in DOMAIN list}
RemoveAt(list, n) == SubSeq(list, 1, n - 1) \o SubSeq(list, n + 1, Len(list))
RemoveFirst(list, k) ==
  RemoveAt(list, CHOOSE n \in DOMAIN list : list[n] = k /\ \A m \in 1 .. (n - 1) : list[m] # k)

Answers(op, k, ret) == last' = [op |-> op, key |-> k, ret |-> ret]
Held(k) == k \in Elements(keys)
IsFull == Len(keys) = Capacity[kind]
Without(k) == RemoveFirst(keys, k)
FirstOf(n) == SubSeq(keys, 1, n)

ListInit ==
  /\ kind \in {"hash", "lru", "list"}
  /\ keys = <<>> /\ last = [op |-> "init", key |-> 0, ret |-> "ok"]

Add(op, k) == Answers(op, k, "inserted") /\ ~IsFull /\ keys' = <<k>> \o keys
AddOnce(op, k) == Add(op, k) /\ ~Held(k)
Keep(op, k) == Answers(op, k, "exists") /\ Held(k) /\ UNCHANGED keys
Refuse(op, k) == Answers(op, k, "refused") /\ IsFull /\ UNCHANGED keys

HashCall(k) ==
  \/ AddOnce("insert", k) \/ AddOnce("get_or_insert", k)
  \/ Keep("insert", k) /\ ~IsFull
  \/ Keep("get_or_insert", k)
  \/ Refuse("insert", k)
  \/ Refuse("get_or_insert", k) /\ ~Held(k)

\* Forced into a full set, a key takes the place of the last one.
LruCall(k) ==
  \/ AddOnce("insert", k)
  \/ Keep("insert", k)
  \/ Refuse("insert", k) /\ ~Held(k)
  \/ /\ Answers("insert", k, "evicted")
     /\ ~Held(k) /\ IsFull
     /\ keys' = <<k>> \o FirstOf(Len(keys) - 1)
  \/ Answers("active", k, "ok") /\ Held(k) /\ keys' = <<k>> \o Without(k)
  \/ Answers("active", k, "absent") /\ ~Held(k) /\ UNCHANGED keys

ListCall(k) ==
  \/ Add("push_front", k)
  \/ Answers("push_back", k, "inserted") /\ ~IsFull /\ keys' = Append(keys, k)
  \/ Refuse("push_front", k) \/ Refuse("push_back", k)

\* Every container can look for a key and erase it.
AnyCall(k) ==
  \/ Answers("erase", k, "ok") /\ Held(k) /\ keys' = Without(k)
  \/ Answers("find", k, "ok") /\ Held(k) /\ UNCHANGED keys
  \/ \E op \in {"erase", "find"} : Answers(op, k, "absent") /\ ~Held(k) /\ UNCHANGED keys

\* What goes without naming a key: from the ends, or by position.
Shrink ==
  \/ Answers("clear", 0, "ok") /\ keys' = <<>>
  \/ \E n \in 0 .. Len(keys) :
       /\ Answers("disuse", n, "ok") /\ kind = "lru"
       /\ keys' = FirstOf(Len(keys) - n)
  \/ \E op \in {"pop_front", "pop_back"} :
       Answers(op, 0, "absent") /\ keys = <<>> /\ UNCHANGED keys
  \/ Answers("pop_front", 0, "ok") /\ keys # <<>> /\ keys' = Tail(keys)
  \/ Answers("pop_back", 0, "ok") /\ keys # <<>> /\ keys' = FirstOf(Len(keys) - 1)
  \/ \E n \in 1 .. Len(keys) :
       Answers("erase_at", n, "ok") /\ kind = "list" /\ keys' = RemoveAt(keys, n)

ListNext ==
  /\ UNCHANGED kind
  /\ \/ Shrink
     \/ \E k \in Keys[kind] :
          \/ AnyCall(k)
          \/ kind = "hash" /\ HashCall(k)
          \/ kind = "lru" /\ LruCall(k)
          \/ kind = "list" /\ ListCall(k)

ListSpec == ListInit /\ [][ListNext]_listVars
==============================================================================
