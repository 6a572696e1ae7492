----------------------------- MODULE TimeoutLoop -----------------------------
(***************************************************************************)
(* A TimeoutQueue in use.  The main loop calls TimeOut(now), which takes   *)
(* the due timers one by one and runs each one's task; a task may call     *)
(* Add, Cancel and Clear on the queue that is running it, and so may any   *)
(* code between two calls of TimeOut.  The task's calls are steps of their *)
(* own, taken between the step that takes the timer out of the containers  *)
(* and the step in which the task returns to the loop.                     *)
(***************************************************************************)
EXTENDS TimeoutQueue

CONSTANTS
  MaxTime,        \* bound: the clock stops here
  OutsideDelays,  \* expire_time - now for an Add outside TimeOut
  TaskDelays,     \* expire_time - now for an Add a task makes
  Intervals       \* the interval_time values in use; 0 is a one-shot timer

ASSUME TimeoutLoopAssumption ==
  /\ MaxTime \in Nat
  /\ OutsideDelays \subseteq Nat
  /\ TaskDelays \subseteq Nat
  /\ Intervals \subseteq Nat

VARIABLES
  tq,           \* the queue
  now,          \* the time TimeOut is given
  in_loop,      \* TimeOut is on the stack
  running,      \* seq_id of the timer whose task is running, 0 when none is
  last_expire   \* history: expire_time of the last timer taken

vars == <<tq, now, in_loop, running, last_expire>>

Init ==
  /\ tq = EmptyQueue
  /\ now = 0
  /\ in_loop = FALSE
  /\ running = 0
  /\ last_expire = 0

\* The queue's users run outside TimeOut, or inside the task being run.
UserCode == in_loop => running # 0

Tick ==
  /\ ~in_loop
  /\ now < MaxTime
  /\ now' = now + 1
  /\ UNCHANGED <<tq, in_loop, running, last_expire>>

UserAdd(task, delay, interval) ==
  /\ UserCode
  /\ delay \in IF in_loop THEN TaskDelays ELSE OutsideDelays
  /\ tq' = Add(tq, task, now + delay, interval)
  /\ UNCHANGED <<now, in_loop, running, last_expire>>

UserCancel(id) ==
  /\ UserCode
  /\ tq' = Cancel(tq, id)
  /\ UNCHANGED <<now, in_loop, running, last_expire>>

UserClear ==
  /\ UserCode
  /\ tq' = Clear(tq)
  /\ UNCHANGED <<now, in_loop, running, last_expire>>

LoopBegin ==
  /\ ~in_loop
  /\ in_loop' = TRUE
  /\ UNCHANGED <<tq, now, running, last_expire>>

\* One iteration up to the call of the task.
Fire(t) ==
  /\ in_loop /\ running = 0
  /\ IsFirst(tq, t)
  /\ Expired(t, now)
  /\ tq' = TakeFirst(tq, t)
  /\ running' = t.seq_id
  /\ last_expire' = t.expire_time
  /\ UNCHANGED <<now, in_loop>>

\* Mutant: periodic timers are put back after the task, not before it.
TaskReturn_Rearms ==
  /\ in_loop /\ running # 0
  /\ running' = 0
  /\ \E timer \in [seq_id : {running}, interval_time : {1},
                   expire_time : {last_expire + 1}, task : Tasks] :
       tq' = [tq EXCEPT !.timer_queue = SetInsert(@, timer),
                        !.timer_id_index = Bind(@, running, timer.expire_time)]
  /\ UNCHANGED <<now, in_loop, last_expire>>

TaskReturn ==
  /\ in_loop /\ running # 0
  /\ running' = 0
  /\ UNCHANGED <<tq, now, in_loop, last_expire>>

\* The queue is empty, or its first timer is not due yet.
LoopEnd ==
  /\ in_loop /\ running = 0
  /\ ~\E t \in tq.timer_queue : IsFirst(tq, t) /\ Expired(t, now)
  /\ in_loop' = FALSE
  /\ UNCHANGED <<tq, now, running, last_expire>>

Next ==
  \/ Tick
  \/ \E task \in Tasks, delay \in OutsideDelays \cup TaskDelays, i \in Intervals :
       UserAdd(task, delay, i)
  \/ \E id \in Ids : UserCancel(id)
  \/ UserClear
  \/ LoopBegin
  \/ \E t \in tq.timer_queue : Fire(t)
  \/ TaskReturn
  \/ LoopEnd

Spec == Init /\ [][Next]_vars

\* The main loop keeps calling TimeOut, TimeOut keeps iterating, and a task,
\* being ordinary code, returns.  Nothing makes a user add or cancel, or the
\* clock advance.
Fairness ==
  /\ WF_vars(LoopBegin)
  /\ WF_vars(\E t \in tq.timer_queue : Fire(t))
  /\ WF_vars(TaskReturn)
  /\ WF_vars(LoopEnd)

FairSpec == Spec /\ Fairness

-----------------------------------------------------------------------------
TypeOK ==
  /\ IsTimeoutQueue(tq)
  /\ now \in Nat
  /\ in_loop \in BOOLEAN
  /\ running \in 0 .. (IdSpace - 1)
  /\ last_expire \in Nat

\* The set and the index, which every member function updates one after the
\* other, describe the same timers whatever a task does to the queue while
\* TimeOut is iterating over it.
IndexMatchesQueue == Consistent(tq)

\* A timer that was cancelled, cleared or fired for good is not resurrected: an
\* id that was not in the queue gets in only as the id Add has just generated.
\* In particular a periodic timer whose own task cancels it stays cancelled.
EnterOnlyByAdd ==
  [][\A id \in DOMAIN tq'.timer_id_index \ DOMAIN tq.timer_id_index :
        tq.base_id # id /\ tq'.base_id = id]_vars

\* An id that wraps around onto a live timer does not disturb it: while ids are
\* handed out, a live timer keeps its deadline, and only a step that hands none
\* out (a cancel, a clear, or the timer's own firing) takes it away.
AddKeepsOthers ==
  [][tq'.base_id # tq.base_id => tq.timer_queue \subseteq tq'.timer_queue]_vars

\* Ids may wrap and timers may be re-armed, cancelled and added from inside the
\* loop, and still an id means one timer: from the Add that handed it out to
\* the step that is meant to end it.
IdsKeepTheirMeaning == EnterOnlyByAdd /\ AddKeepsOthers

\* Timers fire in deadline order, over the whole run and across re-arming and
\* the Adds tasks make, as long as nobody adds a deadline in the past.
FireInDeadlineOrder ==
  [][last_expire' >= last_expire]_vars

\* A task adds a timer that is due already, for the call of TimeOut it runs in.
AddsDue == in_loop /\ \E task \in Tasks, i \in Intervals : UserAdd(task, 0, i)

\* Every call of TimeOut returns, although tasks add timers, periodic ones that
\* are several periods late included, unless they add due ones for ever.
TimeOutReturns == <>[][~AddsDue]_vars => (in_loop ~> ~in_loop)

\* A timer that is due is run, unless it is cancelled first: its deadline is
\* gone from the index in the end.
DueTimersFire ==
  <>[][~AddsDue]_vars => \A id \in Ids :
    (Exist(tq, id) /\ tq.timer_id_index[id] <= now)
      ~> (running = id \/ ~Exist(tq, id) \/ tq.timer_id_index[id] > now)
=============================================================================
