-------------------------- MODULE TimeoutQueueProofs --------------------------
(***************************************************************************)
(* Lemmas about the operators of TimeoutQueue: each member function keeps  *)
(* the ordered set and the index in step.                                  *)
(***************************************************************************)
EXTENDS TimeoutQueue, TLAPS

\* What a user of a queue may rely on between two operations.
QueueInv(q) == IsTimeoutQueue(q) /\ Consistent(q)

\* A queue with nothing in it is well formed (the TimeoutQueue constructor).
LEMMA EmptyQueueInv == QueueInv(EmptyQueue)
  BY IdSpaceAssumption DEF QueueInv, IsTimeoutQueue, Consistent, EmptyQueue, Ids

\* GenerateID stays inside the id's width and never returns 0.
LEMMA GenerateIDType ==
  ASSUME NEW base_id \in 0 .. (IdSpace - 1)
  PROVE  GenerateID(base_id) \in Ids
  BY IdSpaceAssumption DEF GenerateID, Ids

\* Add (timeout_queue.cpp:8) keeps the two containers in step, whether it
\* succeeds or fails.
LEMMA AddInv ==
  ASSUME NEW q, QueueInv(q), NEW task \in Tasks, NEW expire \in Nat, NEW interval \in Nat
  PROVE  QueueInv(Add(q, task, expire, interval))
<1> DEFINE id == GenerateID(q.base_id)
           timer == [seq_id |-> id, interval_time |-> interval,
                     expire_time |-> expire, task |-> task]
           p == Add(q, task, expire, interval)
<1>1. id \in Ids /\ id \in 0 .. (IdSpace - 1)
  BY GenerateIDType, IdSpaceAssumption DEF QueueInv, IsTimeoutQueue, Ids
<1>2. CASE AddFails(q, expire)
  <2>1. p = [timer_queue |-> q.timer_queue, timer_id_index |-> q.timer_id_index,
             base_id |-> id]
    BY <1>2 DEF Add, QueueInv, IsTimeoutQueue
  <2> HIDE DEF p, id
  <2>2. QED
    BY <1>1, <2>1 DEF QueueInv, IsTimeoutQueue, Consistent, p
<1>3. CASE ~AddFails(q, expire)
  <2>1. p = [timer_queue |-> q.timer_queue \cup {timer},
             timer_id_index |-> Bind(q.timer_id_index, id, expire), base_id |-> id]
    BY <1>3 DEF Add
  <2>2. id \notin DOMAIN q.timer_id_index
    BY <1>3 DEF AddFails
  <2>3. timer \in Timer
    BY <1>1 DEF Timer
  <2> DEFINE new_index == Bind(q.timer_id_index, id, expire)
  <2>4. /\ DOMAIN new_index = DOMAIN q.timer_id_index \cup {id}
        /\ new_index[id] = expire
        /\ \A x \in DOMAIN q.timer_id_index : new_index[x] = q.timer_id_index[x]
    BY <2>2 DEF Bind
  <2>5. new_index \in [DOMAIN new_index -> Nat]
    BY <2>2 DEF Bind, QueueInv, IsTimeoutQueue
  <2>6. \A t \in q.timer_queue : t.seq_id # id
    BY <2>2 DEF QueueInv, Consistent
  <2>7. timer.seq_id = id /\ timer.expire_time = expire
    OBVIOUS
  <2> HIDE DEF p, id, timer, new_index
  <2>8. IsTimeoutQueue(p)
    BY <1>1, <2>1, <2>3, <2>4, <2>5 DEF QueueInv, IsTimeoutQueue, new_index
  <2>9. Consistent(p)
    BY <2>1, <2>2, <2>4, <2>6, <2>7 DEF QueueInv, Consistent, new_index
  <2>10. QED
    BY <2>8, <2>9 DEF QueueInv, p
<1>4. QED
  BY <1>2, <1>3

\* Erasing the element a consistent index points at takes out that timer alone.
LEMMA EraseTimer ==
  ASSUME NEW q, QueueInv(q), NEW id \in DOMAIN q.timer_id_index
  PROVE  SetErase(q.timer_queue, id, q.timer_id_index[id])
           = {u \in q.timer_queue : u.seq_id # id}
  BY DEF SetErase, QueueInv, Consistent

\* Taking one timer out of both containers keeps them in step.
LEMMA RemoveInv ==
  ASSUME NEW q, QueueInv(q), NEW id
  PROVE  QueueInv([timer_queue |-> {u \in q.timer_queue : u.seq_id # id},
                   timer_id_index |-> Unbind(q.timer_id_index, id),
                   base_id |-> q.base_id])
<1> DEFINE index == Unbind(q.timer_id_index, id)
           queue == {u \in q.timer_queue : u.seq_id # id}
           p == [timer_queue |-> queue, timer_id_index |-> index, base_id |-> q.base_id]
<1>1. /\ DOMAIN index = DOMAIN q.timer_id_index \ {id}
      /\ \A x \in DOMAIN index : index[x] = q.timer_id_index[x]
      /\ index \in [DOMAIN index -> Nat]
  BY DEF Unbind, QueueInv, IsTimeoutQueue
<1>2. IsTimeoutQueue(p)
  <2> HIDE DEF index
  <2> QED
    BY <1>1 DEF QueueInv, IsTimeoutQueue
<1>3. Consistent(p)
  <2> HIDE DEF index
  <2> QED
    BY <1>1 DEF QueueInv, Consistent
<1>4. QED
  BY <1>2, <1>3 DEF QueueInv

\* Cancel (timeout_queue.cpp:26) keeps the two containers in step.
LEMMA CancelInv ==
  ASSUME NEW q, QueueInv(q), NEW id
  PROVE  QueueInv(Cancel(q, id))
<1>1. CASE id \in DOMAIN q.timer_id_index
  <2>1. Cancel(q, id) = [timer_queue |-> {u \in q.timer_queue : u.seq_id # id},
                         timer_id_index |-> Unbind(q.timer_id_index, id),
                         base_id |-> q.base_id]
    BY <1>1, EraseTimer DEF Cancel, QueueInv, IsTimeoutQueue
  <2>2. QED
    BY <2>1, RemoveInv
<1>2. CASE id \notin DOMAIN q.timer_id_index
  BY <1>2 DEF Cancel
<1>3. QED
  BY <1>1, <1>2

\* Clear (timeout_queue.cpp:72) empties both containers.
LEMMA ClearInv ==
  ASSUME NEW q, QueueInv(q)
  PROVE  QueueInv(Clear(q))
  BY DEF Clear, QueueInv, IsTimeoutQueue, Consistent

\* Taking the first timer (timeout_queue.cpp:46-59) keeps the two containers in
\* step, and puts back only a timer with the id it took out.
LEMMA TakeFirstInv ==
  ASSUME NEW q, QueueInv(q), NEW t \in q.timer_queue
  PROVE  /\ QueueInv(TakeFirst(q, t))
         /\ DOMAIN TakeFirst(q, t).timer_id_index \subseteq DOMAIN q.timer_id_index
         /\ TakeFirst(q, t).base_id = q.base_id
<1> DEFINE id == t.seq_id
           queue == {u \in q.timer_queue : u.seq_id # id}
           index == Unbind(q.timer_id_index, id)
           r == [timer_queue |-> queue, timer_id_index |-> index, base_id |-> q.base_id]
           again == Rearmed(t)
<1>1. /\ id \in DOMAIN q.timer_id_index
      /\ q.timer_id_index[id] = t.expire_time
      /\ t \in Timer
  BY DEF QueueInv, Consistent, IsTimeoutQueue
<1>2. SetErase(q.timer_queue, t.seq_id, t.expire_time) = queue
  BY <1>1, EraseTimer
<1>3. QueueInv(r)
  BY RemoveInv
<1>4. DOMAIN index = DOMAIN q.timer_id_index \ {id}
  BY DEF Unbind
<1>5. CASE t.interval_time > 0
  <2>1. /\ again \in Timer
        /\ again.seq_id = id
        /\ again.expire_time = t.expire_time + t.interval_time
    BY <1>1 DEF Rearmed, Timer
  <2>2. SetInsert(queue, again) = queue \cup {again}
    BY <2>1 DEF SetInsert, SameKey
  <2> DEFINE new_index == Bind(index, id, again.expire_time)
             p == TakeFirst(q, t)
  <2>3. p = [timer_queue |-> queue \cup {again}, timer_id_index |-> new_index,
             base_id |-> q.base_id]
    BY <1>2, <1>5, <2>2 DEF TakeFirst, QueueInv, IsTimeoutQueue
  <2>4. /\ DOMAIN new_index = DOMAIN index \cup {id}
        /\ new_index[id] = again.expire_time
        /\ \A x \in DOMAIN index : new_index[x] = index[x]
    BY <1>4 DEF Bind
  <2>5. /\ new_index \in [DOMAIN new_index -> Nat]
        /\ DOMAIN new_index \subseteq Ids
    <3>1. again.expire_time \in Nat /\ id \in Ids
      BY <2>1 DEF Timer
    <3>2. index \in [DOMAIN index -> Nat] /\ DOMAIN index \subseteq Ids
      BY <1>3 DEF QueueInv, IsTimeoutQueue
    <3> HIDE DEF index, again, id
    <3> QED
      BY <3>1, <3>2 DEF Bind
  <2>6. IsTimeoutQueue(p)
    <3>1. queue \subseteq Timer /\ q.base_id \in 0 .. (IdSpace - 1)
      BY DEF QueueInv, IsTimeoutQueue
    <3> HIDE DEF p, queue, new_index, again
    <3> QED
      BY <2>1, <2>3, <2>5, <3>1 DEF IsTimeoutQueue
  <2>7. Consistent(p)
    <3>1. \A u \in queue : u.seq_id # id
      OBVIOUS
    <3>2. Consistent(r) /\ r.timer_queue = queue /\ r.timer_id_index = index
      BY <1>3 DEF QueueInv
    <3> HIDE DEF p, queue, new_index, again, r, index, id
    <3> QED
      BY <1>4, <2>1, <2>3, <2>4, <3>1, <3>2 DEF Consistent
  <2>8. DOMAIN p.timer_id_index \subseteq DOMAIN q.timer_id_index /\ p.base_id = q.base_id
    BY <1>1, <1>4, <2>3, <2>4
  <2>9. QED
    BY <2>6, <2>7, <2>8 DEF QueueInv
<1>6. CASE ~(t.interval_time > 0)
  <2>1. TakeFirst(q, t) = r
    BY <1>2, <1>6 DEF TakeFirst, QueueInv, IsTimeoutQueue
  <2>2. QED
    BY <1>3, <1>4, <2>1
<1>7. QED
  BY <1>5, <1>6


\* What Add does to the set of timers: nothing when it returns 0; otherwise one
\* timer comes in, under an id no other timer has.
LEMMA AddTimers ==
  ASSUME NEW q, QueueInv(q), NEW task \in Tasks, NEW expire \in Nat, NEW interval \in Nat
  PROVE  /\ AddResult(q, expire) \in 0 .. (IdSpace - 1)
         /\ AddResult(q, expire) = 0 =>
              Add(q, task, expire, interval).timer_queue = q.timer_queue
         /\ AddResult(q, expire) # 0 =>
              /\ \A u \in q.timer_queue : u.seq_id # AddResult(q, expire)
              /\ AddResult(q, expire) \in DOMAIN Add(q, task, expire, interval).timer_id_index
              /\ Add(q, task, expire, interval).timer_queue
                   = q.timer_queue \cup {[seq_id |-> AddResult(q, expire),
                                          interval_time |-> interval,
                                          expire_time |-> expire, task |-> task]}
<1>1. GenerateID(q.base_id) \in 1 .. (IdSpace - 1)
  BY GenerateIDType DEF QueueInv, IsTimeoutQueue, Ids
<1>2. CASE AddFails(q, expire)
  <2>1. AddResult(q, expire) = 0
    BY <1>2 DEF AddResult
  <2>2. Add(q, task, expire, interval).timer_queue = q.timer_queue
    BY <1>2 DEF Add, QueueInv, IsTimeoutQueue
  <2>3. QED
    BY <2>1, <2>2, IdSpaceAssumption
<1>3. CASE ~AddFails(q, expire)
  <2>1. AddResult(q, expire) = GenerateID(q.base_id)
    BY <1>3 DEF AddResult
  <2>2. \A u \in q.timer_queue : u.seq_id # GenerateID(q.base_id)
    BY <1>3 DEF AddFails, QueueInv, Consistent
  <2>3. GenerateID(q.base_id) \in DOMAIN Add(q, task, expire, interval).timer_id_index
    BY <1>3 DEF Add, Bind
  <2>4. Add(q, task, expire, interval).timer_queue
          = q.timer_queue \cup {[seq_id |-> GenerateID(q.base_id),
                                 interval_time |-> interval,
                                 expire_time |-> expire, task |-> task]}
    BY <1>3 DEF Add
  <2>5. QED
    BY <1>1, <2>1, <2>2, <2>3, <2>4, IdSpaceAssumption
<1>4. QED
  BY <1>2, <1>3

\* What Cancel does to the set of timers: the timer with that id is gone, if
\* there was one, and no other.
LEMMA CancelTimers ==
  ASSUME NEW q, QueueInv(q), NEW id
  PROVE  Cancel(q, id).timer_queue = {u \in q.timer_queue : u.seq_id # id}
<1>1. CASE id \in DOMAIN q.timer_id_index
  <2>1. Cancel(q, id) = [timer_queue |-> {u \in q.timer_queue : u.seq_id # id},
                         timer_id_index |-> Unbind(q.timer_id_index, id),
                         base_id |-> q.base_id]
    BY <1>1, EraseTimer DEF Cancel, QueueInv, IsTimeoutQueue
  <2>2. QED
    BY <2>1
<1>2. CASE id \notin DOMAIN q.timer_id_index
  <2>1. \A u \in q.timer_queue : u.seq_id # id
    BY <1>2 DEF QueueInv, Consistent
  <2>2. QED
    BY <1>2, <2>1 DEF Cancel
<1>3. QED
  BY <1>1, <1>2

\* Taking the first timer takes a one-shot timer out, and no other.
LEMMA TakeFirstTimers ==
  ASSUME NEW q, QueueInv(q), NEW t \in q.timer_queue, t.interval_time = 0
  PROVE  TakeFirst(q, t).timer_queue = {u \in q.timer_queue : u.seq_id # t.seq_id}
<1>1. /\ t.seq_id \in DOMAIN q.timer_id_index
      /\ q.timer_id_index[t.seq_id] = t.expire_time
  BY DEF QueueInv, Consistent
<1>2. SetErase(q.timer_queue, t.seq_id, t.expire_time)
        = {u \in q.timer_queue : u.seq_id # t.seq_id}
  BY <1>1, EraseTimer
<1>3. ~(t.interval_time > 0)
  OBVIOUS
<1>4. TakeFirst(q, t) = [timer_queue |-> {u \in q.timer_queue : u.seq_id # t.seq_id},
                         timer_id_index |-> Unbind(q.timer_id_index, t.seq_id),
                         base_id |-> q.base_id]
  BY <1>2, <1>3 DEF TakeFirst, QueueInv, IsTimeoutQueue
<1>5. QED
  BY <1>4
=============================================================================
