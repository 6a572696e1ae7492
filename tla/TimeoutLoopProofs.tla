-------------------------- MODULE TimeoutLoopProofs --------------------------
(***************************************************************************)
(* Proofs about TimeoutLoop, for every id width, every set of delays and   *)
(* intervals and every clock bound.                                        *)
(***************************************************************************)
EXTENDS TimeoutLoop, TimeoutQueueProofs

-----------------------------------------------------------------------------
\* The inductive invariant: the queue is well formed between any two steps.
IInv == TypeOK /\ IndexMatchesQueue

\* The invariant holds for the empty queue.
LEMMA InitInv == Init => IInv
<1> SUFFICES ASSUME Init PROVE IInv
  OBVIOUS
<1>1. QueueInv(tq)
  BY EmptyQueueInv DEF Init
<1>2. 0 \in 0 .. (IdSpace - 1)
  BY IdSpaceAssumption
<1>3. QED
  BY <1>1, <1>2 DEF Init, IInv, TypeOK, IndexMatchesQueue, QueueInv

\* One step of the loop or of a user keeps the queue well formed.
LEMMA NextInv == IInv /\ [Next]_vars => IInv'
<1> SUFFICES ASSUME IInv, [Next]_vars PROVE IInv'
  OBVIOUS
<1> USE DEF IInv, TypeOK, IndexMatchesQueue
<1>1. QueueInv(tq)
  BY DEF QueueInv
<1>2. CASE Tick
  BY <1>2 DEF Tick
<1>3. ASSUME NEW task \in Tasks, NEW delay \in OutsideDelays \cup TaskDelays,
             NEW i \in Intervals, UserAdd(task, delay, i)
      PROVE  IInv'
  <2>1. now + delay \in Nat /\ i \in Nat
    BY TimeoutLoopAssumption
  <2>2. QueueInv(tq')
    BY <1>1, <1>3, <2>1, AddInv DEF UserAdd
  <2>3. QED
    BY <1>3, <2>2 DEF UserAdd, QueueInv
<1>4. ASSUME NEW id \in Ids, UserCancel(id) PROVE IInv'
  <2>1. QueueInv(tq')
    BY <1>1, <1>4, CancelInv DEF UserCancel
  <2>2. QED
    BY <1>4, <2>1 DEF UserCancel, QueueInv
<1>5. CASE UserClear
  <2>1. QueueInv(tq')
    BY <1>1, <1>5, ClearInv DEF UserClear
  <2>2. QED
    BY <1>5, <2>1 DEF UserClear, QueueInv
<1>6. CASE LoopBegin
  BY <1>6 DEF LoopBegin
<1>7. ASSUME NEW t \in tq.timer_queue, Fire(t) PROVE IInv'
  <2>1. QueueInv(tq')
    BY <1>1, <1>7, TakeFirstInv DEF Fire
  <2>2. t.seq_id \in 0 .. (IdSpace - 1) /\ t.expire_time \in Nat
    BY IdSpaceAssumption DEF IsTimeoutQueue, Timer, Ids
  <2>3. QED
    BY <1>7, <2>1, <2>2 DEF Fire, QueueInv
<1>8. CASE TaskReturn
  BY <1>8, IdSpaceAssumption DEF TaskReturn
<1>9. CASE LoopEnd
  BY <1>9 DEF LoopEnd
<1>10. CASE UNCHANGED vars
  BY <1>10 DEF vars
<1>11. QED
  BY <1>2, <1>3, <1>4, <1>5, <1>6, <1>7, <1>8, <1>9, <1>10 DEF Next

\* TimeOut may be interrupted after any of its iterations by tasks that add,
\* cancel and clear: the set and the index of the queue still agree, and all
\* ids and deadlines are of their types.
THEOREM TimeoutQueueConsistent == Spec => [](TypeOK /\ IndexMatchesQueue)
<1>1. Init => IInv
  BY InitInv
<1>2. IInv /\ [Next]_vars => IInv'
  BY NextInv
<1>3. QED
  BY <1>1, <1>2, PTL DEF Spec, IInv

\* No timer is resurrected: an id enters the queue only as the id Add has just
\* generated, whatever the tasks run by TimeOut (timeout_queue.cpp:37) do.
THEOREM NoResurrection == Spec => EnterOnlyByAdd
<1> DEFINE Step == \A id \in DOMAIN tq'.timer_id_index \ DOMAIN tq.timer_id_index :
                     tq.base_id # id /\ tq'.base_id = id
<1>1. ASSUME IInv, [Next]_vars PROVE [Step]_vars
  <2> USE DEF IInv, TypeOK, IndexMatchesQueue
  <2>1. QueueInv(tq)
    BY <1>1 DEF QueueInv
  <2>2. ASSUME tq' = tq PROVE Step
    BY <2>2
  <2>3. ASSUME NEW task \in Tasks, NEW delay \in OutsideDelays \cup TaskDelays,
               NEW i \in Intervals, UserAdd(task, delay, i)
        PROVE  Step
    <3>1. tq' = Add(tq, task, now + delay, i)
      BY <2>3 DEF UserAdd
    <3>2. CASE AddFails(tq, now + delay)
      BY <3>1, <3>2, <2>1 DEF Add, QueueInv, IsTimeoutQueue
    <3>3. CASE ~AddFails(tq, now + delay)
      <4>1. /\ DOMAIN tq'.timer_id_index
                 = DOMAIN tq.timer_id_index \cup {GenerateID(tq.base_id)}
            /\ tq'.base_id = GenerateID(tq.base_id)
        BY <3>1, <3>3 DEF Add, Bind
      <4>2. GenerateID(tq.base_id) # tq.base_id
        BY <2>1, IdSpaceAssumption DEF GenerateID, QueueInv, IsTimeoutQueue
      <4> HIDE DEF Step
      <4>3. QED
        BY <4>1, <4>2 DEF Step
    <3>4. QED
      BY <3>2, <3>3
  <2>4. ASSUME NEW id \in Ids, UserCancel(id) PROVE Step
    <3>1. tq' = tq \/ DOMAIN tq'.timer_id_index = DOMAIN tq.timer_id_index \ {id}
      BY <2>4, <2>1 DEF UserCancel, Cancel, Unbind, QueueInv, IsTimeoutQueue
    <3>2. QED
      BY <3>1
  <2>5. ASSUME UserClear PROVE Step
    BY <2>5 DEF UserClear, Clear
  <2>6. ASSUME NEW t \in tq.timer_queue, Fire(t) PROVE Step
    BY <2>6, <2>1, TakeFirstInv DEF Fire
  <2>7. QED
    BY <1>1, <2>2, <2>3, <2>4, <2>5, <2>6
       DEF Next, Tick, LoopBegin, TaskReturn, LoopEnd, vars
<1>2. Spec => []IInv
  BY TimeoutQueueConsistent DEF IInv
<1>3. QED
  BY <1>1, <1>2, PTL DEF Spec, EnterOnlyByAdd

\* Handing out an id takes no live timer away, even when the id counter has
\* wrapped onto it (the emplace of timeout_queue.cpp:12 then fails).
THEOREM AddIsHarmless == Spec => AddKeepsOthers
<1> DEFINE Step == tq'.base_id # tq.base_id => tq.timer_queue \subseteq tq'.timer_queue
<1>1. ASSUME IInv, [Next]_vars PROVE [Step]_vars
  <2>1. QueueInv(tq)
    BY <1>1 DEF IInv, TypeOK, IndexMatchesQueue, QueueInv
  <2>2. ASSUME tq' = tq PROVE Step
    BY <2>2
  <2>3. ASSUME NEW task \in Tasks, NEW delay \in OutsideDelays \cup TaskDelays,
               NEW i \in Intervals, UserAdd(task, delay, i)
        PROVE  Step
    BY <2>1, <2>3 DEF UserAdd, Add, QueueInv, IsTimeoutQueue
  <2>4. ASSUME NEW id \in Ids, UserCancel(id) PROVE Step
    BY <2>1, <2>4 DEF UserCancel, Cancel, QueueInv, IsTimeoutQueue
  <2>5. ASSUME UserClear PROVE Step
    BY <2>5 DEF UserClear, Clear
  <2>6. ASSUME NEW t \in tq.timer_queue, Fire(t) PROVE Step
    BY <2>6, <2>1, TakeFirstInv DEF Fire
  <2>7. QED
    BY <1>1, <2>2, <2>3, <2>4, <2>5, <2>6
       DEF Next, Tick, LoopBegin, TaskReturn, LoopEnd, vars
<1>2. Spec => []IInv
  BY TimeoutQueueConsistent DEF IInv
<1>3. QED
  BY <1>1, <1>2, PTL DEF Spec, AddKeepsOthers

\* An id means one timer, from the Add that handed it out to the step that is
\* meant to end it.
THEOREM IdsMeanOneTimer == Spec => IdsKeepTheirMeaning
BY NoResurrection, AddIsHarmless DEF IdsKeepTheirMeaning

\* Why timers fire in order: what is left in the queue is not due before the
\* last timer taken, which itself was due by now.
NothingOvertaken ==
  /\ last_expire <= now
  /\ \A u \in tq.timer_queue : last_expire <= u.expire_time

\* What Add, Cancel, Clear and TakeFirst may leave in the set.
LEMMA LeftInQueue ==
  ASSUME NEW q, QueueInv(q)
  PROVE  /\ \A task, expire, interval : \A u \in Add(q, task, expire, interval).timer_queue :
               u \in q.timer_queue \/ u.expire_time = expire
         /\ \A id : Cancel(q, id).timer_queue \subseteq q.timer_queue
         /\ \A t : \A u \in TakeFirst(q, t).timer_queue :
               u \in q.timer_queue \/ (u = Rearmed(t) /\ t.interval_time > 0)
<1>1. ASSUME NEW task, NEW expire, NEW interval,
             NEW u \in Add(q, task, expire, interval).timer_queue
      PROVE  u \in q.timer_queue \/ u.expire_time = expire
  BY <1>1 DEF Add, QueueInv, IsTimeoutQueue
<1>2. ASSUME NEW id PROVE Cancel(q, id).timer_queue \subseteq q.timer_queue
  BY DEF Cancel, SetErase, QueueInv, IsTimeoutQueue
<1>3. ASSUME NEW t, NEW u \in TakeFirst(q, t).timer_queue
      PROVE  u \in q.timer_queue \/ (u = Rearmed(t) /\ t.interval_time > 0)
  BY <1>3 DEF TakeFirst, SetErase, SetInsert, QueueInv, IsTimeoutQueue
<1>4. QED
  BY <1>1, <1>2, <1>3

\* No step puts a timer in front of one that has fired, and the first is taken.
LEMMA NobodyOvertakes ==
  ASSUME IInv, NothingOvertaken, [Next]_vars
  PROVE  NothingOvertaken' /\ last_expire' >= last_expire
<1> USE DEF NothingOvertaken
<1>1. /\ QueueInv(tq) /\ now \in Nat /\ last_expire \in Nat
      /\ \A u \in tq.timer_queue : u.expire_time \in Nat /\ u.interval_time \in Nat
  BY DEF IInv, TypeOK, IndexMatchesQueue, QueueInv, IsTimeoutQueue, Timer
<1>2. ASSUME tq'.timer_queue \subseteq tq.timer_queue, now' >= now,
             now' \in Nat, last_expire' = last_expire
      PROVE  NothingOvertaken' /\ last_expire' >= last_expire
  BY <1>1, <1>2
<1>3. CASE Tick \/ LoopBegin \/ TaskReturn \/ LoopEnd \/ UNCHANGED vars
  BY <1>1, <1>2, <1>3 DEF Tick, LoopBegin, TaskReturn, LoopEnd, vars
<1>4. ASSUME NEW task \in Tasks, NEW delay \in OutsideDelays \cup TaskDelays,
             NEW i \in Intervals, UserAdd(task, delay, i)
      PROVE  NothingOvertaken' /\ last_expire' >= last_expire
  <2>1. now + delay >= now /\ now + delay \in Nat
    BY <1>1, TimeoutLoopAssumption
  <2>2. /\ UNCHANGED <<now, last_expire>>
        /\ \A u \in tq'.timer_queue : u \in tq.timer_queue \/ u.expire_time = now + delay
    BY <1>1, <1>4, LeftInQueue DEF UserAdd
  <2>3. QED
    BY <1>1, <2>1, <2>2
<1>5. ASSUME NEW id \in Ids, UserCancel(id)
      PROVE  NothingOvertaken' /\ last_expire' >= last_expire
  BY <1>1, <1>2, <1>5, LeftInQueue DEF UserCancel
<1>6. CASE UserClear
  BY <1>1, <1>2, <1>6 DEF UserClear, Clear
<1>7. ASSUME NEW t \in tq.timer_queue, Fire(t)
      PROVE  NothingOvertaken' /\ last_expire' >= last_expire
  <2>1. /\ last_expire' = t.expire_time /\ now' = now
        /\ t.expire_time <= now
        /\ \A u \in tq.timer_queue : t.expire_time <= u.expire_time
    BY <1>1, <1>7 DEF Fire, IsFirst, Expired, Before
  <2>2. Rearmed(t).expire_time = t.expire_time + t.interval_time
    BY DEF IInv, TypeOK, IsTimeoutQueue, Timer, Rearmed
  <2>3. \A u \in tq'.timer_queue : u \in tq.timer_queue \/ u = Rearmed(t)
    BY <1>1, <1>7, LeftInQueue DEF Fire
  <2>4. QED
    BY <1>1, <2>1, <2>2, <2>3
<1>8. QED
  BY <1>3, <1>4, <1>5, <1>6, <1>7 DEF Next

\* Timers fire in the order of their deadlines over the whole life of the queue,
\* across re-arming, late loops that catch up, and the Adds of tasks, as long as
\* nobody adds a deadline that has passed (TimeOut, timeout_queue.cpp:37).
THEOREM TimersFireInOrder == Spec => FireInDeadlineOrder
<1>1. Init => NothingOvertaken
  BY DEF Init, EmptyQueue, NothingOvertaken
<1>2. Spec => []IInv
  BY TimeoutQueueConsistent DEF IInv
<1>3. IInv /\ NothingOvertaken /\ [Next]_vars => NothingOvertaken'
  BY NobodyOvertakes
<1>4. IInv /\ NothingOvertaken /\ [Next]_vars => [last_expire' >= last_expire]_vars
  BY NobodyOvertakes
<1>5. QED
  BY <1>1, <1>2, <1>3, <1>4, PTL DEF Spec, FireInDeadlineOrder
=============================================================================
