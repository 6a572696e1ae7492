---------------------------- MODULE TimeoutQueue ----------------------------
(***************************************************************************)
(* The state of one ua::TimeoutQueue (common/timeout_queue.{h,cpp}) as a   *)
(* value, and its member functions as operators on that value.             *)
(*                                                                         *)
(* A queue is a record                                                     *)
(*   timer_queue     the std::set of timers, ordered by (expire_time,      *)
(*                   seq_id);                                              *)
(*   timer_id_index  the unordered_map from a timer id to its expire_time; *)
(*   base_id         the last id GenerateID returned.                      *)
(* The two containers are separate in the code and are kept in step by     *)
(* hand; they are separate here too.  A timer's task is an opaque value:   *)
(* the modules that own a queue give it a meaning.                         *)
(***************************************************************************)
EXTENDS Naturals

CONSTANTS
  IdSpace,      \* how many values a timer id has: 2^64 in the code
  Tasks         \* the task closures a timer may carry

ASSUME IdSpaceAssumption == IdSpace \in Nat /\ IdSpace > 2

Ids == 1 .. (IdSpace - 1)

Timer == [seq_id : Ids, interval_time : Nat, expire_time : Nat, task : Tasks]

\* Mutant: the set is ordered by id alone.
Before_ById(t, u) == t.seq_id < u.seq_id

\* operator<=> of Timer: first by expire_time, then by seq_id.
Before(t, u) ==
  \/ t.expire_time < u.expire_time
  \/ t.expire_time = u.expire_time /\ t.seq_id < u.seq_id

\* Two timers with equal keys are one element of the std::set.
SameKey(t, u) == t.seq_id = u.seq_id /\ t.expire_time = u.expire_time

\* std::set::insert leaves the set alone when the key is present.
SetInsert(Q, t) == IF \E u \in Q : SameKey(t, u) THEN Q ELSE Q \cup {t}

SetErase(Q, id, expire) ==
  {u \in Q : ~(u.seq_id = id /\ u.expire_time = expire)}

\* unordered_map::emplace of an absent key, and erase.
Bind(f, k, v) == [x \in DOMAIN f \cup {k} |-> IF x = k THEN v ELSE f[x]]
Unbind(f, k)  == [x \in DOMAIN f \ {k} |-> f[x]]

EmptyQueue == [timer_queue |-> {}, timer_id_index |-> [x \in {} |-> 0], base_id |-> 0]

\* GenerateID: the counter wraps at the width of the id and skips 0.
GenerateID(base_id) == IF base_id + 1 = IdSpace THEN 1 ELSE base_id + 1

\* Add fails when the generated id is still the id of a live timer, or when
\* the ordered set already holds its key.  The counter has moved either way.
AddFails(q, expire) ==
  LET id == GenerateID(q.base_id)
  IN  \/ id \in DOMAIN q.timer_id_index
      \/ \E u \in q.timer_queue : u.seq_id = id /\ u.expire_time = expire

\* The value Add returns: the new timer's id, or 0 on failure.
AddResult(q, expire) == IF AddFails(q, expire) THEN 0 ELSE GenerateID(q.base_id)

Add(q, task, expire, interval) ==
  LET id == GenerateID(q.base_id)
      timer == [seq_id |-> id, interval_time |-> interval,
                expire_time |-> expire, task |-> task]
  IN  IF AddFails(q, expire)
      THEN [q EXCEPT !.base_id = id]
      ELSE [timer_queue    |-> q.timer_queue \cup {timer},
            timer_id_index |-> Bind(q.timer_id_index, id, expire),
            base_id        |-> id]

\* Mutant: the index keeps the cancelled id.
Cancel_KeepsIndex(q, id) ==
  IF id \in DOMAIN q.timer_id_index
  THEN [q EXCEPT !.timer_queue = SetErase(@, id, q.timer_id_index[id])]
  ELSE q

\* Cancel looks the expire_time up in the index to find the set's element.
Cancel(q, id) ==
  IF id \in DOMAIN q.timer_id_index
  THEN [q EXCEPT !.timer_queue = SetErase(@, id, q.timer_id_index[id]),
                 !.timer_id_index = Unbind(@, id)]
  ELSE q

Exist(q, id) == id \in DOMAIN q.timer_id_index

Clear(q) == [timer_queue |-> {}, timer_id_index |-> [x \in {} |-> 0], base_id |-> q.base_id]

\* timer_queue.begin(), and the loop's test that it is due.
IsFirst(q, t) == t \in q.timer_queue /\ \A u \in q.timer_queue : u = t \/ Before(t, u)

\* Mutants: the comparison is strict; the comparison is off by one.
Expired_Strict(t, now) == t.expire_time < now
Expired_Early(t, now) == t.expire_time <= now + 1

Expired(t, now) == t.expire_time <= now

\* Mutant: a periodic timer goes back in with its old deadline.
Rearmed_NotAdvanced(t) == t

\* The part of one iteration of TimeOut that comes before the task is run:
\* the timer leaves both containers; a periodic one goes back in with its
\* deadline advanced by one interval.
Rearmed(t) == [t EXCEPT !.expire_time = @ + t.interval_time]

TakeFirst(q, t) ==
  LET queue == SetErase(q.timer_queue, t.seq_id, t.expire_time)
      index == Unbind(q.timer_id_index, t.seq_id)
  IN  IF t.interval_time > 0
      THEN [q EXCEPT !.timer_queue = SetInsert(queue, Rearmed(t)),
                     !.timer_id_index = Bind(index, t.seq_id, Rearmed(t).expire_time)]
      ELSE [q EXCEPT !.timer_queue = queue, !.timer_id_index = index]

-----------------------------------------------------------------------------
IsTimeoutQueue(q) ==
  /\ q = [timer_queue |-> q.timer_queue, timer_id_index |-> q.timer_id_index,
          base_id |-> q.base_id]
  /\ q.timer_queue \subseteq Timer
  /\ DOMAIN q.timer_id_index \subseteq Ids
  /\ q.timer_id_index \in [DOMAIN q.timer_id_index -> Nat]
  /\ q.base_id \in 0 .. (IdSpace - 1)

\* The two containers describe the same timers: an id is in the index exactly
\* when one timer of the set has it, and with that timer's deadline.
Consistent(q) ==
  /\ \A t \in q.timer_queue : /\ t.seq_id \in DOMAIN q.timer_id_index
                              /\ q.timer_id_index[t.seq_id] = t.expire_time
  /\ \A id \in DOMAIN q.timer_id_index : \E t \in q.timer_queue : t.seq_id = id
  /\ \A t, u \in q.timer_queue : t.seq_id = u.seq_id => t = u
=============================================================================
