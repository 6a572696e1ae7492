----------------------- MODULE TimeoutDecoratorProofs -----------------------
(***************************************************************************)
(* Proofs about TimeoutDecorator, with and without a scheduler, for any    *)
(* number of timers and events, any delays and any bound on the clock.     *)
(***************************************************************************)
EXTENDS TimeoutDecorator, TimeoutQueueProofs, FiniteSetTheorems

-----------------------------------------------------------------------------
\* The types the proofs need.
Types ==
  /\ QueueInv(tq)
  /\ DOMAIN timeout_event \subseteq EventIds
  /\ timeout_event \in [DOMAIN timeout_event -> Ids]
  /\ cache \subseteq EventInfo
  /\ contexts \in [EventIds -> [st : {"none", "running", "waiting", "deleted"},
                               gid : Gids \cup {0}, timer_id : Ids \cup {0}]]
  /\ frame \in EventIds \cup {0}
  /\ now \in Nat
  /\ next_event \in Nat \ {0}
  /\ scheduler \in BOOLEAN
  /\ deleted \subseteq Ids

\* Event ids are taken in order.
EventsInOrder ==
  /\ \A e \in EventIds : e >= next_event => contexts[e].st = "none"
  /\ \A info \in cache : info.event_id < next_event
  /\ \A e \in DOMAIN timeout_event : e < next_event

\* A packet finds its callback, and its context is unused.
PacketsFindCallbacks ==
  /\ \A info \in cache : /\ info.event_id \in DOMAIN timeout_event
                         /\ timeout_event[info.event_id] = info.timer_id
                         /\ contexts[info.event_id].st = "none"
  /\ \A info, other \in cache : info.event_id = other.event_id => info = other

\* A timer id that has been deleted is not handed out again; a single timer
\* whose event is with the scheduler is gone without having been deleted.
IdsInOrder ==
  /\ \A id \in DOMAIN tq.timer_id_index \cup deleted : id <= tq.base_id
  /\ DOMAIN tq.timer_id_index \cap deleted = {}
  /\ \A info \in cache :
       /\ info.timer_id <= tq.base_id
       /\ info.interval_time = 0 =>
            info.timer_id \notin DOMAIN tq.timer_id_index \cup deleted

FrameRuns == frame # 0 => contexts[frame].st = "running"

IInv == Types /\ EventsInOrder /\ PacketsFindCallbacks /\ IdsInOrder /\ FrameRuns

\* With a scheduler that accepts every packet, there is one for every callback.
NoCallbackLeft ==
  \A e \in DOMAIN timeout_event : \E info \in cache : info.event_id = e

LEMMA InitInv == Init => IInv /\ NoCallbackLeft
<1> SUFFICES ASSUME Init PROVE IInv /\ NoCallbackLeft
  OBVIOUS
<1>1. QueueInv(tq)
  BY EmptyQueueInv DEF Init
<1>2. DOMAIN timeout_event = {} /\ cache = {} /\ deleted = {} /\ frame = 0
      /\ next_event = 1 /\ now = 0 /\ scheduler \in BOOLEAN /\ DOMAIN tq.timer_id_index = {}
      /\ contexts = [e \in EventIds |-> NewContext]
      /\ timeout_event \in [DOMAIN timeout_event -> Ids]
  BY DEF Init, EmptyQueue
<1>3. Types
  BY <1>1, <1>2 DEF Types, NewContext
<1>4. \A e \in EventIds : contexts[e].st = "none"
  BY <1>2 DEF NewContext
<1> QED BY <1>2, <1>3, <1>4
       DEF IInv, EventsInOrder, PacketsFindCallbacks, IdsInOrder, FrameRuns, NoCallbackLeft

-----------------------------------------------------------------------------
\* What the actions do to the ids of the queue.

\* AddEvent, as long as the id counter has not wrapped, adds the next id.
LEMMA AddIds ==
  ASSUME QueueInv(tq), tq.base_id < IdSpace - 1,
         NEW task \in Tasks, NEW expire \in Nat, NEW interval \in Nat
  PROVE  /\ Add(tq, task, expire, interval).base_id = tq.base_id + 1
         /\ DOMAIN Add(tq, task, expire, interval).timer_id_index
              \subseteq DOMAIN tq.timer_id_index \cup {tq.base_id + 1}
<1>1. tq.base_id \in Nat /\ IdSpace \in Nat
  BY IdSpaceAssumption DEF QueueInv, IsTimeoutQueue
<1>2. GenerateID(tq.base_id) = tq.base_id + 1
  BY <1>1 DEF GenerateID
<1>3. tq = [timer_queue |-> tq.timer_queue, timer_id_index |-> tq.timer_id_index,
            base_id |-> tq.base_id]
  BY DEF QueueInv, IsTimeoutQueue
<1>4. CASE AddFails(tq, expire)
  BY <1>2, <1>3, <1>4 DEF Add
<1>5. CASE ~AddFails(tq, expire)
  BY <1>2, <1>5 DEF Add, Bind
<1> QED BY <1>4, <1>5

\* Cancel takes the one id.
LEMMA CancelIds ==
  ASSUME QueueInv(tq), NEW id \in DOMAIN tq.timer_id_index
  PROVE  /\ Cancel(tq, id).base_id = tq.base_id
         /\ DOMAIN Cancel(tq, id).timer_id_index = DOMAIN tq.timer_id_index \ {id}
  BY DEF QueueInv, IsTimeoutQueue, Cancel, Unbind

\* TimeOut takes a single timer's id for good.
LEMMA TakeSingle ==
  ASSUME QueueInv(tq), NEW t \in tq.timer_queue, t.interval_time = 0
  PROVE  t.seq_id \notin DOMAIN TakeFirst(tq, t).timer_id_index
  BY DEF TakeFirst, Unbind, QueueInv, IsTimeoutQueue

\* A timer of the queue is typed, and its id is in the index.
LEMMA QueuedTimer ==
  ASSUME QueueInv(tq), NEW t \in tq.timer_queue
  PROVE  /\ t.seq_id \in DOMAIN tq.timer_id_index /\ t.seq_id \in Ids
         /\ t.task \in Gids /\ t.interval_time \in Nat
  BY DEF QueueInv, IsTimeoutQueue, Consistent, Timer, Gids

-----------------------------------------------------------------------------
\* DealEvent for a packet whose callback is filed, with the packet gone from
\* the scheduler (or never given to one), keeps the invariant.
LEMMA DealInv ==
  ASSUME IInv, NEW q, NEW events, NEW info \in EventInfo,
         frame = 0,
         tq' = q, QueueInv(q), q.base_id = tq.base_id,
         DOMAIN q.timer_id_index \subseteq DOMAIN tq.timer_id_index,
         UNCHANGED <<deleted, now, scheduler>>,
         next_event' \in Nat \ {0}, next_event <= next_event',
         info.event_id < next_event',
         contexts[info.event_id].st = "none",
         events \in [DOMAIN events -> Ids], DOMAIN events \subseteq EventIds,
         DOMAIN events = DOMAIN timeout_event \cup {info.event_id},
         \A e \in DOMAIN timeout_event : events[e] = timeout_event[e],
         events[info.event_id] = info.timer_id,
         cache' \subseteq cache, \A other \in cache' : other.event_id # info.event_id,
         \A other \in cache' : other.interval_time = 0 =>
            other.timer_id \notin DOMAIN q.timer_id_index,
         DealEvent(q, events, info)
  PROVE  IInv'
<1> USE DEF IInv
<1>1. /\ info.event_id \in EventIds /\ info.timer_id \in Ids /\ info.gid \in Gids
      /\ EventIds \subseteq Nat
  BY DecoratorAssumption DEF EventInfo, EventIds
<1>2. /\ timeout_event' = [x \in DOMAIN events \ {info.event_id} |-> events[x]]
      /\ \/ UNCHANGED <<contexts, frame>>
         \/ /\ UNCHANGED frame
            /\ contexts' = [contexts EXCEPT ![info.event_id] =
                              [st |-> "deleted", gid |-> info.gid, timer_id |-> events[info.event_id]]]
         \/ /\ frame' = info.event_id
            /\ contexts' = [contexts EXCEPT ![info.event_id] =
                              [st |-> "running", gid |-> info.gid, timer_id |-> events[info.event_id]]]
  <2>1. CASE DealRefused(q, events, info)
    BY ONLY <2>1 DEF DealRefused, Unbind
  <2>2. CASE DealSpawnFails(q, events, info)
    BY ONLY <2>2 DEF DealSpawnFails, ContextOf, Unbind
  <2>3. CASE DealStarts(q, events, info)
    BY ONLY <2>3 DEF DealStarts, ContextOf, Unbind
  <2> QED BY <2>1, <2>2, <2>3 DEF DealEvent
<1>3. /\ DOMAIN timeout_event' \subseteq DOMAIN timeout_event
      /\ \A e \in DOMAIN timeout_event : e # info.event_id =>
           e \in DOMAIN timeout_event' /\ timeout_event'[e] = timeout_event[e]
      /\ timeout_event' \in [DOMAIN timeout_event' -> Ids]
  BY <1>2
<1>4. Types'
  <2>1. frame' \in EventIds \cup {0}
    BY <1>1, <1>2 DEF Types
  <2>2. contexts' \in [EventIds -> [st : {"none", "running", "waiting", "deleted"},
                                   gid : Gids \cup {0}, timer_id : Ids \cup {0}]]
    BY <1>1, <1>2 DEF Types
  <2> QED BY <1>3, <2>1, <2>2 DEF Types
<1>5. \A e \in EventIds : e # info.event_id => contexts'[e] = contexts[e]
  BY <1>1, <1>2 DEF Types
<1>6. EventsInOrder'
  <2>1. next_event \in Nat /\ next_event' \in Nat /\ info.event_id \in Nat
    BY <1>1 DEF Types
  <2>2. ASSUME NEW e \in EventIds, e >= next_event' PROVE contexts'[e].st = "none"
    <3>1. e \in Nat /\ e >= next_event /\ e # info.event_id
      BY <1>1, <2>1, <2>2
    <3> QED BY <1>5, <3>1 DEF EventsInOrder
  <2>3. ASSUME NEW other \in cache' PROVE other.event_id < next_event'
    <3>1. other \in cache /\ other.event_id \in Nat
      BY <1>1 DEF Types, EventInfo
    <3>2. other.event_id < next_event
      BY <3>1 DEF EventsInOrder
    <3> QED BY <2>1, <3>1, <3>2
  <2>4. ASSUME NEW e \in DOMAIN timeout_event' PROVE e < next_event'
    <3>1. e \in DOMAIN timeout_event /\ e \in Nat
      BY <1>1, <1>3 DEF Types
    <3>2. e < next_event
      BY <3>1 DEF EventsInOrder
    <3> QED BY <2>1, <3>1, <3>2
  <2> QED BY <2>2, <2>3, <2>4 DEF EventsInOrder
<1>7. PacketsFindCallbacks'
  <2>1. ASSUME NEW other \in cache'
        PROVE  /\ other.event_id \in DOMAIN timeout_event'
               /\ timeout_event'[other.event_id] = other.timer_id
               /\ contexts'[other.event_id].st = "none"
    <3>1. other \in cache /\ other.event_id # info.event_id /\ other.event_id \in EventIds
      BY DEF Types, EventInfo
    <3> QED BY <1>3, <1>5, <3>1 DEF PacketsFindCallbacks
  <2> QED BY <2>1 DEF PacketsFindCallbacks
<1>8. IdsInOrder'
  BY DEF IdsInOrder
<1>9. FrameRuns'
  BY <1>1, <1>2 DEF FrameRuns, Types
<1> QED BY <1>4, <1>6, <1>7, <1>8, <1>9

\* TimeOut files the callback of the timer it takes, and submits its event.
LEMMA FireInv ==
  ASSUME IInv, NEW t \in tq.timer_queue, Fire(t)
  PROVE  IInv'
<1> USE DEF IInv
<1> DEFINE q == TakeFirst(tq, t)
           events == Bind(timeout_event, next_event, t.seq_id)
           info == EventOf(t)
<1>1. /\ t.seq_id \in DOMAIN tq.timer_id_index /\ t.seq_id \in Ids
      /\ t.task \in Gids /\ t.interval_time \in Nat
  BY QueuedTimer DEF Types
<1>2. /\ QueueInv(q) /\ q.base_id = tq.base_id
      /\ DOMAIN q.timer_id_index \subseteq DOMAIN tq.timer_id_index
  BY TakeFirstInv DEF Types
<1>3. /\ next_event \in EventIds /\ next_event' = next_event + 1 /\ next_event \in Nat
      /\ tq' = q /\ frame = 0 /\ UNCHANGED <<deleted, now, scheduler>>
  BY DecoratorAssumption DEF Fire, EventIds, Types
<1>4. info \in EventInfo /\ info.event_id = next_event /\ info.timer_id = t.seq_id
      /\ info.interval_time = t.interval_time
  BY <1>1, <1>3 DEF EventOf, EventInfo
<1>5. next_event \notin DOMAIN timeout_event /\ \A other \in cache : other.event_id # next_event
  BY <1>3 DEF EventsInOrder, Types, EventInfo
<1>6. /\ DOMAIN events = DOMAIN timeout_event \cup {next_event}
      /\ events[next_event] = t.seq_id
      /\ \A e \in DOMAIN timeout_event : events[e] = timeout_event[e]
      /\ events \in [DOMAIN events -> Ids] /\ DOMAIN events \subseteq EventIds
  BY <1>1, <1>3, <1>5 DEF Bind, Types
<1>7. \A other \in cache : other.interval_time = 0 =>
        other.timer_id \notin DOMAIN q.timer_id_index
  BY <1>2 DEF IdsInOrder
<1>8. CASE scheduler
  <2>1. /\ timeout_event' = events /\ cache' \in {cache, cache \cup {info}}
        /\ UNCHANGED <<contexts, frame>>
    BY <1>8 DEF Fire, Submit
  <2>2. Types'
    BY <1>2, <1>3, <1>4, <1>6, <2>1 DEF Types
  <2>3. EventsInOrder'
    <3>1. \A e \in EventIds : e \in Nat
      BY DEF EventIds
    <3>2. \A other \in cache : other.event_id \in Nat
      BY <3>1 DEF Types, EventInfo
    <3>3. \A e \in DOMAIN timeout_event : e \in Nat
      BY <3>1 DEF Types
    <3> QED BY <1>3, <1>4, <1>6, <2>1, <3>1, <3>2, <3>3 DEF EventsInOrder
  <2>4. PacketsFindCallbacks'
    <3>1. ASSUME NEW other \in cache'
          PROVE  /\ other.event_id \in DOMAIN events
                 /\ events[other.event_id] = other.timer_id
                 /\ contexts[other.event_id].st = "none"
      BY <1>3, <1>4, <1>6, <2>1 DEF PacketsFindCallbacks, EventsInOrder
    <3>2. \A a, b \in cache' : a.event_id = b.event_id => a = b
      BY <1>4, <1>5, <2>1 DEF PacketsFindCallbacks
    <3> HIDE DEF events
    <3> QED BY <2>1, <3>1, <3>2 DEF PacketsFindCallbacks
  <2>5. IdsInOrder'
    <3>1. t.seq_id <= tq.base_id /\ t.seq_id \notin deleted
      BY <1>1 DEF IdsInOrder
    <3>2. t.interval_time = 0 => t.seq_id \notin DOMAIN q.timer_id_index
      BY TakeSingle DEF Types
    <3> HIDE DEF q, info
    <3> QED BY <1>2, <1>3, <1>4, <1>7, <2>1, <3>1, <3>2 DEF IdsInOrder
  <2> QED BY <2>1, <2>2, <2>3, <2>4, <2>5 DEF FrameRuns
<1>9. CASE ~scheduler
  <2>1. DealEvent(q, events, info) /\ cache' = cache
    BY <1>9 DEF Fire, Submit
  <2>2. contexts[info.event_id].st = "none"
    BY <1>3, <1>4 DEF EventsInOrder
  <2> HIDE DEF q, events, info
  <2> QED BY <1>2, <1>3, <1>4, <1>5, <1>6, <1>7, <2>1, <2>2, DealInv
<1> QED BY <1>8, <1>9

\* The scheduler hands a packet over.
LEMMA LoopOnceInv ==
  ASSUME IInv, NEW info \in cache, LoopOnce(info)
  PROVE  IInv'
<1> USE DEF IInv
<1>1. /\ info \in EventInfo
      /\ info.event_id \in DOMAIN timeout_event /\ info.event_id < next_event
      /\ timeout_event[info.event_id] = info.timer_id
      /\ contexts[info.event_id].st = "none"
  BY DEF Types, PacketsFindCallbacks, EventsInOrder
<1>2. /\ frame = 0 /\ tq' = tq /\ UNCHANGED <<deleted, now, scheduler>> /\ next_event' = next_event
      /\ next_event \in Nat \ {0} /\ cache' = cache \ {info}
      /\ DealEvent(tq, timeout_event, info)
  BY DEF LoopOnce, DealEvent, Idle, Types
<1>3. \A other \in cache' : other.event_id # info.event_id
  BY <1>2 DEF PacketsFindCallbacks
<1>4. \A other \in cache' : other.interval_time = 0 =>
        other.timer_id \notin DOMAIN tq.timer_id_index
  BY <1>2 DEF IdsInOrder
<1>5. /\ timeout_event \in [DOMAIN timeout_event -> Ids] /\ DOMAIN timeout_event \subseteq EventIds
      /\ DOMAIN timeout_event = DOMAIN timeout_event \cup {info.event_id}
      /\ QueueInv(tq)
  <2>1. /\ timeout_event \in [DOMAIN timeout_event -> Ids] /\ DOMAIN timeout_event \subseteq EventIds
        /\ QueueInv(tq)
    BY Zenon DEF Types
  <2>2. DOMAIN timeout_event = DOMAIN timeout_event \cup {info.event_id}
    BY ONLY <1>1
  <2> QED BY <2>1, <2>2, Zenon
<1> QED BY <1>1, <1>2, <1>3, <1>4, <1>5, DealInv

\* A new timer has an id that has not been in use.
LEMMA AddEventInv ==
  ASSUME IInv, NEW gid \in Gids, NEW delay \in Delays, NEW i \in Intervals,
         AddEvent(gid, delay, i)
  PROVE  IInv'
<1> USE DEF IInv
<1>1. gid \in Tasks /\ now + delay \in Nat /\ i \in Nat
  BY DecoratorAssumption DEF Gids, Types
<1>2. /\ QueueInv(tq') /\ tq'.base_id = tq.base_id + 1
      /\ DOMAIN tq'.timer_id_index \subseteq DOMAIN tq.timer_id_index \cup {tq.base_id + 1}
  BY <1>1, AddInv, AddIds DEF AddEvent, Types
<1>3. UNCHANGED <<timeout_event, cache, contexts, frame, now, next_event, scheduler, deleted>>
  BY DEF AddEvent
<1>4. Types' /\ EventsInOrder' /\ PacketsFindCallbacks' /\ FrameRuns'
  BY <1>2, <1>3 DEF Types, EventsInOrder, PacketsFindCallbacks, FrameRuns
<1>5. IdsInOrder'
  <2>1. /\ tq.base_id \in Nat /\ DOMAIN tq.timer_id_index \subseteq Nat
        /\ deleted \subseteq Nat /\ \A info \in cache : info.timer_id \in Nat
    BY IdSpaceAssumption DEF Types, QueueInv, IsTimeoutQueue, Ids, EventInfo
  <2>2. \A id \in DOMAIN tq'.timer_id_index \cup deleted : id <= tq'.base_id
    <3>1. ASSUME NEW id \in DOMAIN tq'.timer_id_index \cup deleted PROVE id <= tq'.base_id
      <4>1. id = tq.base_id + 1 \/ id \in DOMAIN tq.timer_id_index \cup deleted
        BY <1>2
      <4>2. id = tq.base_id + 1 \/ (id \in Nat /\ id <= tq.base_id)
        BY <2>1, <4>1 DEF IdsInOrder
      <4> QED BY <1>2, <2>1, <4>2
    <3> QED BY <3>1
  <2>3. tq.base_id + 1 \notin deleted /\ \A info \in cache : info.timer_id # tq.base_id + 1
    BY <2>1 DEF IdsInOrder
  <2>4. DOMAIN tq'.timer_id_index \cap deleted = {}
    BY <1>2, <2>3 DEF IdsInOrder
  <2>5. ASSUME NEW info \in cache
        PROVE  /\ info.timer_id <= tq'.base_id
               /\ info.interval_time = 0 =>
                    info.timer_id \notin DOMAIN tq'.timer_id_index \cup deleted
    BY <1>2, <2>1, <2>3 DEF IdsInOrder
  <2> QED BY <1>3, <2>2, <2>4, <2>5 DEF IdsInOrder
<1> QED BY <1>4, <1>5

\* A deleted timer leaves the queue.
LEMMA DelEventInv ==
  ASSUME IInv, NEW id \in DOMAIN tq.timer_id_index, DelEvent(id)
  PROVE  IInv'
<1> USE DEF IInv
<1>1. /\ QueueInv(tq') /\ tq'.base_id = tq.base_id
      /\ DOMAIN tq'.timer_id_index = DOMAIN tq.timer_id_index \ {id}
      /\ id \in Ids
  BY CancelInv, CancelIds DEF DelEvent, Types, QueueInv, IsTimeoutQueue
<1>2. UNCHANGED <<timeout_event, cache, contexts, frame, now, next_event, scheduler>>
      /\ deleted' = deleted \cup {id}
  BY DEF DelEvent
<1>3. Types' /\ EventsInOrder' /\ PacketsFindCallbacks' /\ FrameRuns'
  BY <1>1, <1>2 DEF Types, EventsInOrder, PacketsFindCallbacks, FrameRuns
<1>4. IdsInOrder'
  BY <1>1, <1>2 DEF IdsInOrder
<1> QED BY <1>3, <1>4

\* A callback that waits, goes on or returns leaves the events alone.
LEMMA CallbackInv ==
  ASSUME IInv, TaskWaits \/ TaskReturn \/ \E e \in EventIds : TaskResumes(e)
  PROVE  IInv'
<1> USE DEF IInv
<1>1. PICK e \in EventIds :
        /\ contexts[e].st \in {"running", "waiting"}
        /\ \E st \in {"running", "waiting", "deleted"} :
             contexts' = [contexts EXCEPT ![e].st = st]
        /\ frame' = 0 \/ (frame' = e /\ contexts' = [contexts EXCEPT ![e].st = "running"])
        /\ UNCHANGED <<tq, timeout_event, cache, now, next_event, scheduler, deleted>>
  BY DEF TaskWaits, TaskReturn, TaskResumes, EventFinish, FrameRuns, Types
<1>2. /\ contexts' \in [EventIds -> [st : {"none", "running", "waiting", "deleted"},
                                     gid : Gids \cup {0}, timer_id : Ids \cup {0}]]
      /\ \A x \in EventIds : contexts[x].st = "none" => contexts'[x].st = "none"
      /\ frame' # 0 => contexts'[frame'].st = "running"
      /\ frame' \in EventIds \cup {0}
  BY <1>1 DEF Types
<1>3. Types'
  BY <1>1, <1>2 DEF Types
<1>4. EventsInOrder'
  BY <1>1, <1>2 DEF EventsInOrder
<1>5. PacketsFindCallbacks'
  BY <1>1, <1>2 DEF PacketsFindCallbacks, Types, EventInfo
<1>6. IdsInOrder'
  BY <1>1 DEF IdsInOrder
<1>7. FrameRuns'
  BY <1>2 DEF FrameRuns
<1> QED BY <1>3, <1>4, <1>5, <1>6, <1>7

LEMMA NextInv == IInv /\ [Next]_vars => IInv'
<1> SUFFICES ASSUME IInv, [Next]_vars PROVE IInv'
  OBVIOUS
<1>1. ASSUME UNCHANGED <<tq, timeout_event, cache, contexts, frame, next_event, deleted>>,
             now' \in Nat, scheduler' \in BOOLEAN
      PROVE  IInv'
  BY <1>1 DEF IInv, Types, EventsInOrder, PacketsFindCallbacks, IdsInOrder, FrameRuns
<1>2. now \in Nat /\ scheduler \in BOOLEAN
  BY DEF IInv, Types
<1>3. CASE UNCHANGED vars
  BY <1>1, <1>2, <1>3 DEF vars
<1>4. CASE SetReqScheduler
  <2>1. now' \in Nat /\ scheduler' \in BOOLEAN
    BY <1>2, <1>4 DEF SetReqScheduler
  <2> QED BY <1>1, <1>4, <2>1 DEF SetReqScheduler
<1>10. CASE Tick \/ LoopBegin \/ LoopEnd
  BY <1>1, <1>2, <1>10 DEF Tick, LoopBegin, LoopEnd
<1>5. ASSUME NEW gid \in Gids, NEW delay \in Delays, NEW i \in Intervals,
             AddEvent(gid, delay, i)
      PROVE  IInv'
  BY <1>5, AddEventInv
<1>6. ASSUME NEW id \in DOMAIN tq.timer_id_index, DelEvent(id) PROVE IInv'
  BY <1>6, DelEventInv
<1>7. ASSUME NEW t \in tq.timer_queue, Fire(t) PROVE IInv'
  BY <1>7, FireInv
<1>8. ASSUME NEW info \in cache, LoopOnce(info) PROVE IInv'
  BY <1>8, LoopOnceInv
<1>9. CASE TaskWaits \/ TaskReturn \/ \E e \in EventIds : TaskResumes(e)
  BY <1>9, CallbackInv
<1> QED BY <1>3, <1>4, <1>5, <1>6, <1>7, <1>8, <1>9, <1>10 DEF Next

LEMMA Invariance == Spec => []IInv
<1>1. Init => IInv
  BY InitInv
<1> QED BY <1>1, NextInv, PTL DEF Spec

-----------------------------------------------------------------------------
\* Once DelEvent (timeout_decorator.cpp:57) has deleted a timer, no callback of
\* it begins, although its events may be with the scheduler or about to fire.
THEOREM DeletedStaysDeleted == Spec => DeletedNeverRuns
<1> DEFINE Step == \A e \in EventIds :
                     contexts[e].st = "none" /\ contexts'[e].st # "none"
                       => contexts'[e].timer_id \notin deleted
<1>1. ASSUME IInv, [Next]_vars PROVE [Step]_vars
  <2> USE DEF IInv
  <2>1. ASSUME UNCHANGED contexts PROVE Step
    BY <2>1
  <2>2. ASSUME NEW q, NEW events, NEW info,
               DealStarts(q, events, info) \/ DealSpawnFails(q, events, info),
               events[info.event_id] \notin deleted
        PROVE  Step
    <3>1. PICK st : contexts' = [contexts EXCEPT ![info.event_id] =
                         [st |-> st, gid |-> info.gid, timer_id |-> events[info.event_id]]]
      BY <2>2 DEF DealStarts, DealSpawnFails, ContextOf
    <3> QED BY <1>1, <2>2, <3>1 DEF Types
  <2>3. ASSUME NEW t \in tq.timer_queue, Fire(t) PROVE Step
    <3>1. t.seq_id \notin deleted
      BY <1>1, QueuedTimer DEF Types, IdsInOrder
    <3> DEFINE events == Bind(timeout_event, next_event, t.seq_id)
    <3>2. events[EventOf(t).event_id] = t.seq_id
      BY DEF Bind, EventOf
    <3>3. \/ UNCHANGED contexts
          \/ DealStarts(TakeFirst(tq, t), events, EventOf(t))
          \/ DealSpawnFails(TakeFirst(tq, t), events, EventOf(t))
      BY <2>3 DEF Fire, Submit, DealEvent, DealRefused
    <3> HIDE DEF events, Step
    <3> QED BY <2>1, <2>2, <3>1, <3>2, <3>3
  <2>4. ASSUME NEW info \in cache, LoopOnce(info) PROVE Step
    <3>1. CASE DealRefused(tq, timeout_event, info)
      BY <3>1 DEF DealRefused
    <3>2. CASE DealStarts(tq, timeout_event, info) \/ DealSpawnFails(tq, timeout_event, info)
      <4>1. info.interval_time = 0 \/ info.timer_id \in DOMAIN tq.timer_id_index
        BY <1>1, <2>4, <3>2 DEF DealStarts, DealSpawnFails, Rejects, Exist, Types, EventInfo
      <4>2. info.timer_id \notin deleted
        BY <1>1, <2>4, <4>1 DEF IdsInOrder
      <4>3. timeout_event[info.event_id] = info.timer_id
        BY <1>1, <2>4 DEF PacketsFindCallbacks
      <4> HIDE DEF Step
      <4> QED BY <2>2, <3>2, <4>2, <4>3
    <3> QED BY <2>4, <3>1, <3>2 DEF LoopOnce
  <2>5. ASSUME TaskWaits \/ TaskReturn \/ \E e \in EventIds : TaskResumes(e) PROVE Step
    BY <1>1, <2>5 DEF TaskWaits, TaskReturn, TaskResumes, EventFinish, FrameRuns, Types
  <2> HIDE DEF Step
  <2> QED BY <1>1, <2>1, <2>3, <2>4, <2>5
         DEF Next, SetReqScheduler, Tick, AddEvent, DelEvent, LoopBegin, LoopEnd, vars
<1> QED BY <1>1, Invariance, PTL DEF Spec, DeletedNeverRuns

-----------------------------------------------------------------------------
LEMMA NoCallbackLeftStep ==
  ASSUME ~Refuses, IInv, NoCallbackLeft, [Next]_vars
  PROVE  NoCallbackLeft'
<1>1. ASSUME UNCHANGED <<timeout_event, cache>> PROVE NoCallbackLeft'
  BY <1>1 DEF NoCallbackLeft
<1>2. ASSUME NEW t \in tq.timer_queue, Fire(t) PROVE NoCallbackLeft'
  <2> DEFINE events == Bind(timeout_event, next_event, t.seq_id)
             info == EventOf(t)
  <2>1. DOMAIN events = DOMAIN timeout_event \cup {next_event} /\ info.event_id = next_event
    BY DEF Bind, EventOf
  <2>2. CASE scheduler
    <3>1. timeout_event' = events /\ cache' = cache \cup {info}
      BY <1>2, <2>2 DEF Fire, Submit
    <3> HIDE DEF events, info
    <3> QED BY <2>1, <3>1 DEF NoCallbackLeft
  <2>3. CASE ~scheduler
    <3>1. DealEvent(TakeFirst(tq, t), events, info) /\ cache' = cache
      BY <1>2, <2>3 DEF Fire, Submit
    <3>2. DOMAIN timeout_event' = DOMAIN events \ {info.event_id}
      BY <3>1 DEF DealEvent, DealRefused, DealSpawnFails, DealStarts, Unbind
    <3> HIDE DEF events, info
    <3> QED BY <2>1, <3>1, <3>2 DEF NoCallbackLeft
  <2> QED BY <2>2, <2>3
<1>3. ASSUME NEW info \in cache, LoopOnce(info) PROVE NoCallbackLeft'
  <2>1. DOMAIN timeout_event' = DOMAIN timeout_event \ {info.event_id} /\ cache' = cache \ {info}
    BY <1>3 DEF LoopOnce, DealRefused, DealSpawnFails, DealStarts, Unbind
  <2> QED BY <2>1 DEF NoCallbackLeft
<1> QED BY <1>1, <1>2, <1>3
       DEF Next, SetReqScheduler, Tick, AddEvent, DelEvent, LoopBegin, LoopEnd, TaskWaits,
           TaskResumes, TaskReturn, EventFinish, vars

\* With a scheduler that accepts every packet (timeout_decorator.cpp:50 does not
\* look), no event is lost and no callback is left behind.
THEOREM NoEventIsLost ==
  ASSUME ~Refuses
  PROVE  Spec => []EventsAreFiled
<1>1. Init => NoCallbackLeft
  BY InitInv
<1>2. IInv /\ NoCallbackLeft /\ [Next]_vars => NoCallbackLeft'
  BY NoCallbackLeftStep
<1>3. IInv /\ NoCallbackLeft => EventsAreFiled
  <2> SUFFICES ASSUME IInv, NoCallbackLeft PROVE EventsAreFiled
    OBVIOUS
  <2>1. ASSUME NEW e PROVE e \in DOMAIN timeout_event <=> e \in {info.event_id : info \in cache}
    BY DEF IInv, NoCallbackLeft, PacketsFindCallbacks
  <2>2. DOMAIN timeout_event = {info.event_id : info \in cache}
    BY <2>1
  <2> QED BY <2>2 DEF IInv, PacketsFindCallbacks, EventsAreFiled
<1> QED BY <1>1, <1>2, <1>3, Invariance, PTL DEF Spec

-----------------------------------------------------------------------------
\* The contexts of a gid that are alive, and what the scheduler's count needs.
Alive(gid) ==
  {e \in EventIds : contexts[e].gid = gid /\ contexts[e].st \in {"running", "waiting"}}

BusyInv ==
  /\ busy \in [Gids -> Int]
  /\ ResponsesBalance
  /\ ~scheduler => cache = {}
  /\ \A e \in EventIds : contexts[e].st \in {"running", "waiting"} => contexts[e].gid \in Gids

\* The sets counted are finite.
LEMMA AliveFinite == ASSUME NEW gid PROVE IsFiniteSet(Alive(gid))
<1>1. IsFiniteSet(EventIds)
  BY FS_Interval, DecoratorAssumption DEF EventIds
<1> QED BY <1>1, FS_Subset DEF Alive

\* The scheduler hands over a packet whose callback begins.
LEMMA BusyBegins ==
  ASSUME IInv, BusyInv, scheduler, NEW info \in cache,
         DealStarts(tq, timeout_event, info), busy' = [busy EXCEPT ![info.gid] = @ + 1],
         UNCHANGED scheduler
  PROVE  BusyInv'
<1> USE DEF IInv
<1>1. /\ info.event_id \in EventIds /\ info.gid \in Gids
      /\ contexts[info.event_id].st = "none"
  BY DEF Types, EventInfo, PacketsFindCallbacks
<1>2. contexts' = [contexts EXCEPT ![info.event_id] =
                     [st |-> "running", gid |-> info.gid,
                      timer_id |-> timeout_event[info.event_id]]]
  BY DEF DealStarts, ContextOf
<1>3. /\ Alive(info.gid)' = Alive(info.gid) \cup {info.event_id}
      /\ info.event_id \notin Alive(info.gid)
  BY <1>1, <1>2 DEF Alive, Types
<1>4. Cardinality(Alive(info.gid)') = Cardinality(Alive(info.gid)) + 1
  BY <1>3, AliveFinite, FS_AddElement
<1>5. \A gid \in Gids : gid # info.gid => Alive(gid)' = Alive(gid)
  BY <1>1, <1>2 DEF Alive, Types
<1>6. \A gid \in Gids : busy'[gid] = Cardinality(Alive(gid)')
  BY <1>1, <1>4, <1>5 DEF BusyInv, ResponsesBalance, Alive
<1>7. \A e \in EventIds : contexts'[e].st \in {"running", "waiting"} => contexts'[e].gid \in Gids
  BY <1>1, <1>2 DEF BusyInv, Types
<1>8. busy' \in [Gids -> Int]
  BY <1>1 DEF BusyInv
<1> QED BY <1>6, <1>7, <1>8 DEF BusyInv, ResponsesBalance, Alive

\* A callback returns, and its context is gone.
LEMMA BusyEnds ==
  ASSUME IInv, BusyInv, TaskReturn
  PROVE  BusyInv'
<1> USE DEF IInv
<1>1. /\ frame \in EventIds /\ contexts[frame].st = "running" /\ contexts[frame].gid \in Gids
      /\ contexts' = [contexts EXCEPT ![frame].st = "deleted"]
      /\ cache' = cache /\ scheduler' = scheduler
  BY DEF TaskReturn, EventFinish, Types, FrameRuns, BusyInv
<1> PICK mine \in Gids, e0 \in EventIds : mine = contexts[frame].gid /\ e0 = frame
  BY <1>1
<1>2. /\ Alive(mine)' = Alive(mine) \ {e0} /\ e0 \in Alive(mine)
  BY <1>1 DEF Alive, Types
<1>3. Cardinality(Alive(mine)') = Cardinality(Alive(mine)) - 1
  <2> DEFINE alive == Alive(mine)
  <2>1. IsFiniteSet(alive) /\ e0 \in alive /\ Alive(mine)' = alive \ {e0}
    BY <1>2, AliveFinite
  <2> HIDE DEF alive
  <2>2. Cardinality(alive \ {e0}) = Cardinality(alive) - 1
    BY <2>1, FS_RemoveElement
  <2>3. Cardinality(Alive(mine)') = Cardinality(alive) - 1
    BY <2>1, <2>2
  <2> QED BY <2>3 DEF alive
<1>4. \A gid \in Gids : gid # mine => Alive(gid)' = Alive(gid)
  BY <1>1 DEF Alive, Types
<1>5. \A e \in EventIds : contexts'[e].st \in {"running", "waiting"} => contexts'[e].gid \in Gids
  BY <1>1 DEF BusyInv, Types
<1>6. CASE scheduler
  <2>1. busy' = [busy EXCEPT ![mine] = @ - 1]
    BY <1>6 DEF TaskReturn, EventFinish
  <2>2. \A gid \in Gids : busy[gid] = Cardinality(Alive(gid)) /\ busy[gid] \in Int
    BY <1>6 DEF BusyInv, ResponsesBalance, Alive
  <2>3. \A gid \in Gids : busy'[gid] = Cardinality(Alive(gid)')
    BY <1>3, <1>4, <2>1, <2>2 DEF BusyInv
  <2>4. busy' \in [Gids -> Int]
    BY <2>1, <2>2 DEF BusyInv
  <2> QED BY <1>1, <1>5, <1>6, <2>3, <2>4 DEF BusyInv, ResponsesBalance, Alive
<1>7. CASE ~scheduler
  BY <1>1, <1>5, <1>7 DEF BusyInv, ResponsesBalance, TaskReturn, EventFinish
<1> QED BY <1>6, <1>7

\* The contexts alive do not change while a callback waits or is resumed.
LEMMA BusyWaits ==
  ASSUME IInv, BusyInv, TaskWaits \/ \E e \in EventIds : TaskResumes(e)
  PROVE  BusyInv'
<1>1. PICK e \in EventIds :
        /\ contexts[e].st \in {"running", "waiting"}
        /\ \E st \in {"running", "waiting"} : contexts' = [contexts EXCEPT ![e].st = st]
        /\ UNCHANGED <<busy, cache, scheduler>>
  BY DEF TaskWaits, TaskResumes, IInv, FrameRuns, Types
<1>2. \A gid \in Gids : Alive(gid)' = Alive(gid)
  BY <1>1 DEF Alive, IInv, Types
<1>3. \A x \in EventIds : contexts'[x].st \in {"running", "waiting"} => contexts'[x].gid \in Gids
  BY <1>1 DEF BusyInv, IInv, Types
<1> QED BY <1>1, <1>2, <1>3 DEF BusyInv, ResponsesBalance, Alive

\* A callback that begins without a scheduler is not counted.
LEMMA BusyDirect ==
  ASSUME IInv, BusyInv, NEW t \in tq.timer_queue, Fire(t)
  PROVE  BusyInv'
<1>1. CASE scheduler
  BY <1>1 DEF Fire, Submit, BusyInv, ResponsesBalance
<1>2. CASE ~scheduler
  <2>1. /\ UNCHANGED <<busy, cache, scheduler>>
        /\ \/ UNCHANGED contexts
           \/ \E st \in {"running", "deleted"} :
                contexts' = [contexts EXCEPT ![EventOf(t).event_id] =
                  [st |-> st, gid |-> EventOf(t).gid,
                   timer_id |-> Bind(timeout_event, next_event, t.seq_id)[EventOf(t).event_id]]]
    BY <1>2 DEF Fire, Submit, DealEvent, DealRefused, DealSpawnFails, DealStarts, ContextOf
  <2>2. EventOf(t).gid \in Gids
    BY QueuedTimer DEF EventOf, IInv, Types
  <2>3. \A e \in EventIds : contexts'[e].st \in {"running", "waiting"} => contexts'[e].gid \in Gids
    BY <2>1, <2>2 DEF BusyInv, IInv, Types
  <2> QED BY <1>2, <2>1, <2>3 DEF BusyInv, ResponsesBalance
<1> QED BY <1>1, <1>2

\* A packet whose callback gets no coroutine is not counted.
LEMMA BusySpawnFails ==
  ASSUME IInv, BusyInv, NEW info \in cache, DealSpawnFails(tq, timeout_event, info),
         cache' \subseteq cache, UNCHANGED <<busy, scheduler>>
  PROVE  BusyInv'
<1>1. /\ info.event_id \in EventIds /\ contexts[info.event_id].st = "none"
      /\ contexts' = [contexts EXCEPT ![info.event_id] = ContextOf(timeout_event, info, "deleted")]
  BY DEF IInv, Types, EventInfo, PacketsFindCallbacks, DealSpawnFails
<1>2. \A gid \in Gids : Alive(gid)' = Alive(gid)
  BY <1>1 DEF Alive, ContextOf, IInv, Types
<1>3. \A e \in EventIds : contexts'[e].st \in {"running", "waiting"} => contexts'[e].gid \in Gids
  BY <1>1 DEF BusyInv, ContextOf, IInv, Types
<1> QED BY <1>2, <1>3 DEF BusyInv, ResponsesBalance, Alive

\* A scheduler is installed while no event is under way.
LEMMA BusyScheduler ==
  ASSUME IInv, BusyInv, SetReqScheduler
  PROVE  BusyInv'
<1>1. /\ ~scheduler /\ scheduler' /\ next_event = 1 /\ UNCHANGED <<busy, cache, contexts>>
      /\ \A e \in EventIds : e >= 1
  BY DEF SetReqScheduler, EventIds
<1>2. \A gid \in Gids : Alive(gid)' = {}
  BY <1>1 DEF Alive, IInv, EventsInOrder
<1>3. \A gid \in Gids : busy'[gid] = Cardinality(Alive(gid)')
  BY <1>1, <1>2, FS_EmptySet DEF BusyInv, ResponsesBalance
<1> QED BY <1>1, <1>3 DEF BusyInv, ResponsesBalance, Alive

\* EventFinish (timeout_decorator.cpp:145) answers the scheduler exactly once for
\* each packet whose callback has begun.
THEOREM EveryPacketIsAnswered == Spec => []ResponsesBalance
<1>1. Init => BusyInv
  <2> SUFFICES ASSUME Init PROVE BusyInv
    OBVIOUS
  <2>1. \A e \in EventIds : contexts[e].st = "none"
    BY DEF Init, NewContext
  <2>2. \A gid \in Gids : Cardinality(Alive(gid)) = 0
    <3>1. \A gid \in Gids : Alive(gid) = {}
      BY <2>1 DEF Alive
    <3> QED BY <3>1, FS_EmptySet
  <2> QED BY <2>1, <2>2 DEF Init, BusyInv, ResponsesBalance, Alive
<1>2. IInv /\ BusyInv /\ [Next]_vars => BusyInv'
  <2> SUFFICES ASSUME IInv, BusyInv, [Next]_vars PROVE BusyInv'
    OBVIOUS
  <2>1. ASSUME UNCHANGED <<busy, cache, contexts, scheduler>> PROVE BusyInv'
    BY <2>1 DEF BusyInv, ResponsesBalance
  <2>2. ASSUME NEW info \in cache, LoopOnce(info) PROVE BusyInv'
    <3>1. scheduler /\ scheduler' = scheduler /\ cache' \subseteq cache
      BY <2>2 DEF BusyInv, LoopOnce
    <3>2. CASE DealRefused(tq, timeout_event, info) /\ UNCHANGED busy
      BY <3>1, <3>2 DEF DealRefused, BusyInv, ResponsesBalance
    <3>3. CASE DealStarts(tq, timeout_event, info) /\ busy' = [busy EXCEPT ![info.gid] = @ + 1]
      BY <3>1, <3>3, BusyBegins
    <3>4. CASE DealSpawnFails(tq, timeout_event, info) /\ UNCHANGED busy
      BY <3>1, <3>4, BusySpawnFails
    <3> QED BY <2>2, <3>2, <3>3, <3>4 DEF LoopOnce
  <2>3. ASSUME NEW t \in tq.timer_queue, Fire(t) PROVE BusyInv'
    BY <2>3, BusyDirect
  <2>4. CASE TaskReturn
    BY <2>4, BusyEnds
  <2>5. CASE TaskWaits \/ \E e \in EventIds : TaskResumes(e)
    BY <2>5, BusyWaits
  <2>6. CASE SetReqScheduler
    BY <2>6, BusyScheduler
  <2> QED BY <2>1, <2>2, <2>3, <2>4, <2>5, <2>6
         DEF Next, Tick, AddEvent, DelEvent, LoopBegin, LoopEnd, vars
<1>3. BusyInv => ResponsesBalance
  BY DEF BusyInv
<1> QED BY <1>1, <1>2, <1>3, Invariance, PTL DEF Spec
=============================================================================
