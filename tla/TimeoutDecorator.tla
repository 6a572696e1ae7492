-------------------------- MODULE TimeoutDecorator --------------------------
(***************************************************************************)
(* ua::TimeoutDecorator (core/timeout_decorator.{h,cpp}), which serves a   *)
(* timer like a request.  When a timer fires, its callback is filed in     *)
(* timeout_event_ under a fresh event id, and an EventInfo with that id    *)
(* goes to the request scheduler, if there is one, which hands it back to  *)
(* DealEvent at some later time; without a scheduler DealEvent is called   *)
(* on the spot.  The callback then runs in a server context of its own; it *)
(* may make calls, wait for them, and finish later.                        *)
(*                                                                         *)
(* The scheduler is an interface (core/interface/scheduler_interface.h):   *)
(* it keeps the packets OnRequest accepted, and hands each to the server   *)
(* once, in an order of its own.  The program is single threaded; user     *)
(* code adds and deletes events outside the two loops and in callbacks.    *)
(***************************************************************************)
EXTENDS TimeoutQueue, FiniteSets

CONSTANTS
  Refuses,          \* OnRequest may fail
  SpawnFails,       \* coroutine mode, and Spawn may fail
  MaxEvents,        \* bound: event ids the decorator takes from IDGenerator
  MaxTime,          \* bound: the clock stops here
  Delays,           \* expire_time - now of an AddEvent
  Intervals         \* the interval_time values in use; 0 is a single event

\* All a timer's task captures, apart from its own callback, is the gid.
Gids == Tasks
EventIds == 1 .. MaxEvents

ASSUME DecoratorAssumption ==
  /\ Refuses \in BOOLEAN /\ SpawnFails \in BOOLEAN
  /\ MaxEvents \in Nat /\ MaxTime \in Nat
  /\ Delays \subseteq Nat /\ Intervals \subseteq Nat

VARIABLES
  tq,              \* timeout_mgr_
  timeout_event,   \* timeout_event_: event id -> callback, named by its timer
  cache,           \* the EventInfo packets the scheduler holds
  busy,            \* the scheduler: packets begun and not answered, per gid
  contexts,        \* the server context of each event id
  frame,           \* the event whose callback is on the stack, 0 when none is
  now,             \* the now_ms of SvrProc
  in_loop,         \* TimeOut is on the stack
  next_event,      \* IDGenerator's counter
  scheduler,       \* scheduler_ is set
  deleted          \* history: the timer ids DelEvent has deleted

vars == <<tq, timeout_event, cache, busy, contexts, frame, now, in_loop, next_event, scheduler, deleted>>

\* The context of an event that has not begun.
NewContext == [st |-> "none", gid |-> 0, timer_id |-> 0]

EventInfo == [event_id : EventIds, gid : Gids, timer_id : Ids, interval_time : Nat]

Init ==
  /\ tq = EmptyQueue
  /\ timeout_event = [e \in {} |-> 0]
  /\ cache = {}
  /\ busy = [gid \in Gids |-> 0]
  /\ contexts = [e \in EventIds |-> NewContext]
  /\ frame = 0
  /\ now = 0
  /\ in_loop = FALSE
  /\ next_event = 1
  /\ scheduler = FALSE
  /\ deleted = {}

\* User code runs outside TimeOut, or in a callback.
UserCode == in_loop => frame # 0
Idle == ~in_loop /\ frame = 0

\* Called once, by ServerCore::SetScheduler.  The code has no guard; a server
\* installs its scheduler before events are under way, since EventFinish asks
\* for scheduler_ anew and would answer for packets it was never given.
SetReqScheduler ==
  /\ Idle
  /\ ~scheduler
  /\ next_event = 1
  /\ scheduler' = TRUE
  /\ UNCHANGED <<tq, timeout_event, cache, busy, contexts, frame, now, in_loop, next_event, deleted>>

Tick ==
  /\ Idle
  /\ now < MaxTime
  /\ now' = now + 1
  /\ UNCHANGED <<tq, timeout_event, cache, busy, contexts, frame, in_loop, next_event, scheduler, deleted>>

\* Timer ids are 64 bits wide, so they do not come round again: no more timers
\* are added than there are ids.
AddEvent(gid, delay, interval) ==
  /\ UserCode
  /\ tq.base_id < IdSpace - 1
  /\ tq' = Add(tq, gid, now + delay, interval)
  /\ UNCHANGED <<timeout_event, cache, busy, contexts, frame, now, in_loop, next_event, scheduler, deleted>>

DelEvent(timer_id) ==
  /\ UserCode
  /\ Exist(tq, timer_id)
  /\ tq' = Cancel(tq, timer_id)
  /\ deleted' = deleted \cup {timer_id}
  /\ UNCHANGED <<timeout_event, cache, busy, contexts, frame, now, in_loop, next_event, scheduler>>

\* DealEvent refuses an event it does not know, and an event of a periodic timer
\* that is gone.  The first definitions are mutants: a deleted timer's event is
\* served; a single timer, which is gone when it has fired, is taken for deleted.
Rejects_Unknown(q, events, info) == info.event_id \notin DOMAIN events
Rejects_Gone(q, events, info) ==
  info.event_id \notin DOMAIN events \/ ~Exist(q, info.timer_id)

Rejects(q, events, info) ==
  \/ info.event_id \notin DOMAIN events
  \/ info.interval_time > 0 /\ ~Exist(q, info.timer_id)

\* Mutants: the callback stays filed, of a refused event and of one that runs.
DealRefused_KeepsCallback(q, events, info) ==
  /\ Rejects(q, events, info)
  /\ timeout_event' = events
  /\ UNCHANGED <<contexts, frame>>
DealStarts_KeepsCallback(q, events, info) ==
  /\ ~Rejects(q, events, info)
  /\ timeout_event' = events
  /\ contexts' = [contexts EXCEPT ![info.event_id] =
                    [st |-> "running", gid |-> info.gid,
                     timer_id |-> events[info.event_id]]]
  /\ frame' = info.event_id

\* DealEvent of an event that is refused.
DealRefused(q, events, info) ==
  /\ Rejects(q, events, info)
  /\ timeout_event' = Unbind(events, info.event_id)
  /\ UNCHANGED <<contexts, frame>>

ContextOf(events, info, st) ==
  [st |-> st, gid |-> info.gid, timer_id |-> events[info.event_id]]

\* The callback is unfiled before the spawn; when that fails, its new context is
\* freed.
DealSpawnFails(q, events, info) ==
  /\ SpawnFails
  /\ ~Rejects(q, events, info)
  /\ timeout_event' = Unbind(events, info.event_id)
  /\ contexts' = [contexts EXCEPT ![info.event_id] = ContextOf(events, info, "deleted")]
  /\ UNCHANGED frame

\* DealEvent, up to the call of the callback in its new context.
DealStarts(q, events, info) ==
  /\ ~Rejects(q, events, info)
  /\ timeout_event' = Unbind(events, info.event_id)
  /\ contexts' = [contexts EXCEPT ![info.event_id] = ContextOf(events, info, "running")]
  /\ frame' = info.event_id

\* DealEvent returns false in the first two cases.
DealEvent(q, events, info) ==
  \/ DealRefused(q, events, info)
  \/ DealSpawnFails(q, events, info)
  \/ DealStarts(q, events, info)

LoopBegin ==
  /\ Idle
  /\ in_loop' = TRUE
  /\ UNCHANGED <<tq, timeout_event, cache, busy, contexts, frame, now, next_event, scheduler, deleted>>

\* What the lambda of AddEvent does with a filed event.
Submit(q, events, info) ==
  \/ /\ scheduler
     /\ timeout_event' = events
     /\ \/ cache' = cache \cup {info}
        \/ Refuses /\ UNCHANGED cache
     /\ UNCHANGED <<contexts, frame>>
  \/ /\ ~scheduler
     /\ DealEvent(q, events, info)
     /\ UNCHANGED cache

EventOf(t) == [event_id |-> next_event, gid |-> t.task,
               timer_id |-> t.seq_id, interval_time |-> t.interval_time]

\* One iteration of TimeOut.
Fire(t) ==
  /\ in_loop /\ frame = 0
  /\ next_event <= MaxEvents
  /\ IsFirst(tq, t)
  /\ Expired(t, now)
  /\ tq' = TakeFirst(tq, t)
  /\ next_event' = next_event + 1
  /\ Submit(TakeFirst(tq, t), Bind(timeout_event, next_event, t.seq_id), EventOf(t))
  /\ UNCHANGED <<busy, now, in_loop, scheduler, deleted>>

LoopEnd ==
  /\ in_loop /\ frame = 0
  /\ ~\E t \in tq.timer_queue : IsFirst(tq, t) /\ Expired(t, now)
  /\ in_loop' = FALSE
  /\ UNCHANGED <<tq, timeout_event, cache, busy, contexts, frame, now, next_event, scheduler, deleted>>

\* LoopOnce: the scheduler hands over a packet.  One for which DealEvent returns
\* false needs no answer.
LoopOnce(info) ==
  /\ Idle
  /\ cache' = cache \ {info}
  /\ \/ DealRefused(tq, timeout_event, info) /\ UNCHANGED busy
     \/ DealSpawnFails(tq, timeout_event, info) /\ UNCHANGED busy
     \/ /\ DealStarts(tq, timeout_event, info)
        /\ busy' = [busy EXCEPT ![info.gid] = @ + 1]
  /\ UNCHANGED <<tq, now, in_loop, next_event, scheduler, deleted>>

\* The callback waits for a call it has made, and is resumed by its answer.
TaskWaits ==
  /\ frame # 0
  /\ contexts' = [contexts EXCEPT ![frame].st = "waiting"]
  /\ frame' = 0
  /\ UNCHANGED <<tq, timeout_event, cache, busy, now, in_loop, next_event, scheduler, deleted>>

TaskResumes(e) ==
  /\ Idle
  /\ contexts[e].st = "waiting"
  /\ contexts' = [contexts EXCEPT ![e].st = "running"]
  /\ frame' = e
  /\ UNCHANGED <<tq, timeout_event, cache, busy, now, in_loop, next_event, scheduler, deleted>>

\* Mutant: the scheduler is not told.
EventFinish_NoResponse(e) ==
  /\ UNCHANGED busy
  /\ contexts' = [contexts EXCEPT ![e].st = "deleted"]

\* EventFinish and the recycle function.
EventFinish(e) ==
  /\ IF scheduler
     THEN busy' = [busy EXCEPT ![contexts[e].gid] = @ - 1]
     ELSE UNCHANGED busy
  /\ contexts' = [contexts EXCEPT ![e].st = "deleted"]

\* The callback returns, and has no call outstanding.
TaskReturn ==
  /\ frame # 0
  /\ EventFinish(frame)
  /\ frame' = 0
  /\ UNCHANGED <<tq, timeout_event, cache, now, in_loop, next_event, scheduler, deleted>>

Next ==
  \/ SetReqScheduler
  \/ Tick
  \/ \E gid \in Gids, delay \in Delays, i \in Intervals : AddEvent(gid, delay, i)
  \/ \E id \in DOMAIN tq.timer_id_index : DelEvent(id)
  \/ LoopBegin
  \/ \E t \in tq.timer_queue : Fire(t)
  \/ LoopEnd
  \/ \E info \in cache : LoopOnce(info)
  \/ TaskWaits
  \/ \E e \in EventIds : TaskResumes(e)
  \/ TaskReturn

Spec == Init /\ [][Next]_vars

\* Every round of the main loop calls TimeOut, whatever else it does; TimeOut
\* iterates; a scheduler gets to each of its packets; calls are answered or time
\* out (EveryRequestFinishes of RpcContext); callbacks return.  Nothing makes time
\* pass or users add events.
Fairness ==
  /\ SF_vars(LoopBegin)
  /\ WF_vars(\E t \in tq.timer_queue : Fire(t))
  /\ WF_vars(LoopEnd)
  /\ \A e \in EventIds : SF_vars(\E info \in cache : info.event_id = e /\ LoopOnce(info))
  /\ \A e \in EventIds : SF_vars(TaskResumes(e))
  /\ WF_vars(TaskReturn)

FairSpec == Spec /\ Fairness
-----------------------------------------------------------------------------
TypeOK ==
  /\ IsTimeoutQueue(tq)
  /\ DOMAIN timeout_event \subseteq EventIds
  /\ timeout_event \in [DOMAIN timeout_event -> Ids]
  /\ cache \subseteq EventInfo
  /\ busy \in [Gids -> Nat]
  /\ contexts \in [EventIds -> [st : {"none", "running", "waiting", "deleted"},
                               gid : Gids \cup {0}, timer_id : Ids \cup {0}]]
  /\ frame \in EventIds \cup {0}
  /\ now \in Nat
  /\ in_loop \in BOOLEAN
  /\ next_event \in Nat \ {0}
  /\ scheduler \in BOOLEAN
  /\ deleted \subseteq Ids

\* A callback is filed exactly as long as its event is with the scheduler, and
\* the packet names its timer: no event is lost on the way and no callback is
\* kept for an event that will not come, be it served, deleted or refused.
EventsAreFiled ==
  /\ DOMAIN timeout_event = {info.event_id : info \in cache}
  /\ \A info \in cache : /\ timeout_event[info.event_id] = info.timer_id
                          /\ contexts[info.event_id].st = "none"
  /\ \A info, other \in cache : info.event_id = other.event_id => info = other

\* DelEvent is final, as its comment says (timeout_decorator.cpp:59-60): once it
\* has returned true, no callback of that timer begins, although events of a
\* periodic timer may still be with the scheduler.
DeletedNeverRuns ==
  [][\A e \in EventIds :
       contexts[e].st = "none" /\ contexts'[e].st # "none"
         => contexts'[e].timer_id \notin deleted]_vars

\* The scheduler is told of the end of each packet it has begun, once, however
\* long the callback waits: per gid, it counts the contexts that are alive.
ResponsesBalance ==
  \A gid \in Gids :
    busy[gid] = IF scheduler
                THEN Cardinality({e \in EventIds : contexts[e].gid = gid
                                                  /\ contexts[e].st \in {"running", "waiting"}})
                ELSE 0

\* Events do not stay with the decorator: each is begun or refused.
FiledEventsAreServed ==
  \A e \in EventIds : e \in DOMAIN timeout_event ~> e \notin DOMAIN timeout_event

\* A timer that is due gets a context for its callback, unless it is deleted
\* before, by the time main loop and scheduler have gone round.
OverdueEventsBegin ==
  \A id \in Ids :
    (Exist(tq, id) /\ tq.timer_id_index[id] <= now)
      ~> (id \in deleted \/ \E e \in EventIds : contexts[e].timer_id = id)
=============================================================================
