--------------------------- MODULE ServerCoreProofs ---------------------------
(***************************************************************************)
(* Proofs about RpcContext, then about ServerCore, for any number of       *)
(* requests and calls, both modes, any timeouts and any clock bound.  The  *)
(* one hypothesis is that ClientContext::timer_id is wide enough for the   *)
(* timer ids in use: IdSpace =< CtxTimerIdSpace, i.e. a process up to its  *)
(* 2^32nd timer.                                                           *)
(*                                                                         *)
(* The calls come first: the inductive invariant IInv, what each action    *)
(* does to it, and why the parked calls are a CallLedger.  Then why a      *)
(* server that exits when SvrStopReady says so leaves nobody waiting:      *)
(* every step of ServerCore is a step of RpcContext or leaves its state    *)
(* alone, so IInv carries over; with no parked call and no user code on    *)
(* the stack, it leaves no request that could be live.                     *)
(***************************************************************************)
EXTENDS ServerCore, TimeoutQueueProofs

\* The inductive invariant: no conjunct is inductive without the others.
IInv ==
  /\ TypeOK
  /\ Consistent(tq)
  /\ CacheHoldsPending
  /\ TimeoutArmed
  /\ TimersFindTheirCall
  /\ AwaitedServerAlive
  /\ CurrentIsServed
  /\ NoStrandedRequest
  /\ StackDiscipline

\* The invariant holds before the first request.
LEMMA RpcInit == Init => IInv
<1> SUFFICES ASSUME Init PROVE IInv
  OBVIOUS
<1> USE DEF Init, ControllerInit
<1>1. QueueInv(tq) /\ tq.timer_queue = {}
  BY EmptyQueueInv DEF EmptyQueue
<1>2. /\ \A c \in ClientCtxs : clients[c].st = "none"
      /\ \A s \in ServerCtxs : servers[s] = NewServer
  BY DEF NewClient
<1>3. TypeOK
  <2>1. clients \in [ClientCtxs -> Client]
    BY DEF Client, NewClient
  <2>2. servers \in [ServerCtxs -> Server]
    BY DEF Server, NewServer
  <2>3. context_cache \in [DOMAIN context_cache -> ClientCtxs] /\ DOMAIN context_cache = {}
    OBVIOUS
  <2>4. frame = NoFrame /\ curr = NoCtx /\ now = 0 /\ in_loop = FALSE /\ next_seq = 1
    OBVIOUS
  <2>5. /\ curr \in ServerCtxs \cup {NoCtx}
        /\ frame \in [server : ServerCtxs, client : ClientCtxs \cup {NoCtx}] \cup {NoFrame}
        /\ in_loop \in BOOLEAN
    BY <2>4
  <2>8. now \in Nat /\ next_seq \in Nat \ {0}
    BY <2>4
  <2>6. IsTimeoutQueue(tq)
    BY <1>1 DEF QueueInv
  <2>7. DOMAIN context_cache \subseteq SeqIds
    BY <2>3
  <2> QED
    BY <2>1, <2>2, <2>3, <2>5, <2>6, <2>7, <2>8 DEF TypeOK
<1>4. CacheHoldsPending
  BY <1>2 DEF CacheHoldsPending, IsPending
<1>5. TimeoutArmed /\ AwaitedServerAlive
  BY <1>2 DEF TimeoutArmed, AwaitedServerAlive, IsPending
<1>6. TimersFindTheirCall
  BY <1>1 DEF TimersFindTheirCall
<1>7. CurrentIsServed /\ NoStrandedRequest
  BY <1>2 DEF CurrentIsServed, NoStrandedRequest, NewServer
<1>8. StackDiscipline
  BY <1>2 DEF StackDiscipline, NewServer
<1>9. QED
  BY <1>1, <1>3, <1>4, <1>5, <1>6, <1>7, <1>8 DEF IInv, QueueInv

\* Two parked calls never remember the same timer id: the timers they remember
\* are distinct timers of one queue.
LEMMA TimerIdsDistinct ==
  ASSUME IInv, NEW c \in ClientCtxs, IsPending(c),
         NEW u \in tq.timer_queue, u.seq_id = clients[c].timer_id
  PROVE  u.task = clients[c].seq
<1>1. PICK t \in tq.timer_queue : /\ t.seq_id = clients[c].timer_id
                                  /\ t.task = clients[c].seq
  BY DEF IInv, TimeoutArmed
<1>2. t = u
  BY <1>1 DEF IInv, Consistent
<1>3. QED
  BY <1>1, <1>2

\* What a step of the timers must leave alone for the invariant to survive a
\* wake-up of seq: every timer that belongs to another call.
Disarms(q, seq) ==
  /\ QueueInv(q)
  /\ q.timer_queue \subseteq tq.timer_queue
  /\ \A u \in tq.timer_queue : u.task # seq => u \in q.timer_queue

\* Awake's call of Cancel disarms no other call (context_controller.cpp:46).
LEMMA AwakeDisarms ==
  ASSUME IInv, NEW seq \in DOMAIN context_cache, NEW ret,
         NEW q, Disarms(q, seq)
  PROVE  Disarms(AwakeTimers(q, context_cache[seq], ret), seq)
<1> DEFINE c == context_cache[seq]
           p == AwakeTimers(q, c, ret)
<1>1. c \in ClientCtxs /\ IsPending(c) /\ clients[c].seq = seq
  BY DEF IInv, TypeOK, CacheHoldsPending
<1>2. CASE ret # "time_out"
  <2>1. p = Cancel(q, clients[c].timer_id)
    BY <1>2 DEF AwakeTimers
  <2>2. QueueInv(p)
    BY <2>1, CancelInv DEF Disarms
  <2>3. p.timer_queue = {u \in q.timer_queue : u.seq_id # clients[c].timer_id}
    BY <2>1, CancelTimers DEF Disarms
  <2>4. \A u \in tq.timer_queue : u.task # seq => u.seq_id # clients[c].timer_id
    BY <1>1, TimerIdsDistinct
  <2> HIDE DEF p, c
  <2>5. QED
    BY <2>2, <2>3, <2>4 DEF Disarms, p, c
<1>3. CASE ret = "time_out"
  BY <1>3 DEF AwakeTimers
<1>4. QED
  BY <1>2, <1>3

\* Awake and Run, from the main loop or from a timer's task, keep the invariant
\* (context_controller.cpp:31, context.h:41).
LEMMA AwakeInv ==
  ASSUME IInv, frame = NoFrame,
         NEW seq \in DOMAIN context_cache, NEW ret,
         NEW delivered \in {"ok", "sys_err", "time_out"},
         NEW q, Disarms(q, seq),
         AwakeAndRun(q, seq, ret, delivered),
         UNCHANGED <<now, in_loop, next_seq>>
  PROVE  IInv'
<1> DEFINE c == context_cache[seq]
           s == clients[c].server
<1>1. /\ c \in ClientCtxs /\ IsPending(c) /\ clients[c].seq = seq
      /\ s \in ServerCtxs
      /\ servers[s].st = "live"
      /\ clients[c] \in Client
  BY DEF IInv, TypeOK, CacheHoldsPending, AwaitedServerAlive
<1>2. Disarms(tq', seq)
  BY AwakeDisarms DEF AwakeAndRun
<1>3. /\ DOMAIN context_cache' = DOMAIN context_cache \ {seq}
      /\ \A x \in DOMAIN context_cache' : context_cache'[x] = context_cache[x]
      /\ context_cache' \in [DOMAIN context_cache' -> ClientCtxs]
  BY DEF AwakeAndRun, Unbind, IInv, TypeOK
<1>4. /\ clients' \in [ClientCtxs -> Client]
      /\ \A d \in ClientCtxs : d # c => clients'[d] = clients[d]
      /\ clients'[c].st \in IF UseCoroutine THEN {"done", "deleted"} ELSE {"running"}
  <2> DEFINE woken == [clients[c] EXCEPT !.timer_id = 0, !.ret_code = delivered]
             last == IF ~UseCoroutine THEN [woken EXCEPT !.st = "running"]
                     ELSE IF woken.style = "callback" THEN [woken EXCEPT !.st = "done"]
                     ELSE DeletedClient
  <2>1. clients' = [clients EXCEPT ![c] = last]
    BY DEF AwakeAndRun, RunClient, ResumeServer
  <2>2. last \in Client /\ last.st \in IF UseCoroutine THEN {"done", "deleted"} ELSE {"running"}
    BY <1>1 DEF Client, DeletedClient, NewClient
  <2> HIDE DEF last
  <2>3. QED
    BY <1>1, <2>1, <2>2 DEF IInv, TypeOK
<1>5. /\ curr' = s
      /\ frame' = [server |-> s, client |-> IF UseCoroutine THEN NoCtx ELSE c]
  BY DEF AwakeAndRun, RunClient, ResumeServer
<1>6. /\ servers' \in [ServerCtxs -> Server]
      /\ \A r \in ServerCtxs : r # s => servers'[r] = servers[r]
      /\ servers'[s].st = servers[s].st
      /\ servers'[s].ret_code = servers[s].ret_code
      /\ ~servers'[s].to_be_continue
  <2>1. CASE UseCoroutine
    BY <1>1, <2>1 DEF AwakeAndRun, RunClient, ResumeServer, IInv, TypeOK, StackDiscipline
  <2>2. CASE ~UseCoroutine
    <3>1. servers' = [servers EXCEPT ![s].to_be_continue = FALSE]
      BY <2>2 DEF AwakeAndRun, RunClient, ResumeServer
    <3>2. servers \in [ServerCtxs -> Server]
      BY DEF IInv, TypeOK
    <3> HIDE DEF s
    <3>3. QED
      BY <1>1, <3>1, <3>2 DEF Server
  <2>3. QED
    BY <2>1, <2>2
<1>7. s # NoCtx
  BY <1>1, ContextAssumption
<1>8. \A d \in ClientCtxs : IsPending(d)' <=> (IsPending(d) /\ d # c)
  BY <1>4 DEF IsPending
<1>9. \A d \in ClientCtxs : IsPending(d)' => clients[d].server # s /\ clients[d].seq # seq
  BY <1>1, <1>8 DEF IInv, AwaitedServerAlive, CacheHoldsPending
<1> HIDE DEF c, s
<1>10. TypeOK'
  BY <1>1, <1>2, <1>3, <1>4, <1>5, <1>6 DEF IInv, TypeOK, Disarms, QueueInv
<1>11. Consistent(tq)'
  BY <1>2 DEF Disarms, QueueInv
<1>12. CacheHoldsPending'
  BY <1>1, <1>3, <1>4, <1>8, <1>9 DEF IInv, CacheHoldsPending, TypeOK, c
<1>13. TimeoutArmed'
  BY <1>2, <1>4, <1>8, <1>9 DEF IInv, TimeoutArmed, Disarms
<1>14. TimersFindTheirCall'
  <2>1. \A x \in DOMAIN context_cache' : context_cache'[x] # c /\ context_cache'[x] \in ClientCtxs
    BY <1>1, <1>3 DEF IInv, CacheHoldsPending
  <2>2. QED
    BY <1>2, <1>3, <1>4, <2>1 DEF IInv, TimersFindTheirCall, Disarms
<1>15. AwaitedServerAlive'
  BY <1>4, <1>6, <1>8, <1>9 DEF IInv, AwaitedServerAlive
<1>16. CurrentIsServed'
  BY <1>1, <1>4, <1>5, <1>6, <1>8, <1>9 DEF CurrentIsServed
<1>17. NoStrandedRequest'
  <2>1. \A r \in ServerCtxs : servers[r].st = "live" =>
          \E d \in ClientCtxs : IsPending(d) /\ clients[d].server = r
    BY ContextAssumption DEF IInv, NoStrandedRequest, NoFrame
  <2>2. QED
    BY <1>1, <1>4, <1>5, <1>6, <1>8, <2>1 DEF NoStrandedRequest, s
<1>18. StackDiscipline'
  <2>1. \A d \in ClientCtxs : clients[d].st # "running"
    BY ContextAssumption DEF IInv, StackDiscipline, NoFrame
  <2>2. /\ \A r \in ServerCtxs : servers'[r].st = "none" =>
             ~servers'[r].to_be_continue /\ servers'[r].ret_code = 0
        /\ UseCoroutine => \A r \in ServerCtxs : ~servers'[r].to_be_continue
    BY <1>1, <1>6 DEF IInv, StackDiscipline
  <2>3. /\ servers'[frame'.server].st = "live"
        /\ curr' = frame'.server /\ ~servers'[frame'.server].to_be_continue
    BY <1>1, <1>5, <1>6
  <2>4. frame'.client # NoCtx => ~UseCoroutine /\ clients'[frame'.client].st = "running"
    BY <1>4, <1>5
  <2>5. \A d \in ClientCtxs : clients'[d].st = "running" => frame'.client = d
    BY <1>4, <1>5, <2>1
  <2>6. ~UseCoroutine => \A d \in ClientCtxs : clients'[d].st # "done"
    BY <1>1, <1>4 DEF IInv, StackDiscipline
  <2>7. QED
    BY <2>2, <2>3, <2>4, <2>5, <2>6 DEF StackDiscipline
<1>19. QED
  BY <1>10, <1>11, <1>12, <1>13, <1>14, <1>15, <1>16, <1>17, <1>18 DEF IInv

\* Pending keeps the invariant, whether it parks the context, finds the seq_id
\* taken or cannot get a timer (context_controller.cpp:60).
LEMMA RpcInv ==
  ASSUME IInv, IdSpace =< CtxTimerIdSpace,
         NEW c \in ClientCtxs, NEW timeout \in Timeouts, NEW style \in Styles,
         NEW seq \in {next_seq} \cup DOMAIN context_cache,
         Rpc(c, seq, timeout, style)
  PROVE  IInv'
<1> DEFINE expire == now + timeout
           id == AddResult(tq, expire)
           timer == [seq_id |-> id, interval_time |-> 0, expire_time |-> expire, task |-> seq]
<1>1. /\ QueueInv(tq)
      /\ seq \in Tasks
      /\ expire \in Nat
      /\ 0 \in Nat
  BY RpcAssumption DEF IInv, TypeOK, QueueInv, Rpc, SeqIds
<1>2. /\ next_seq' \in Nat \ {0}
      /\ next_seq' >= next_seq
      /\ seq < next_seq'
  BY DEF Rpc, IInv, TypeOK, CacheHoldsPending
<1>3. UNCHANGED <<now, in_loop>>
  BY DEF Rpc
<1>4. ASSUME QueueInv(tq'), tq'.timer_queue = tq.timer_queue,
             UNCHANGED <<context_cache, clients, servers, curr, frame>>
      PROVE  IInv'
  <2>1. TypeOK' /\ Consistent(tq)'
    BY <1>2, <1>3, <1>4 DEF IInv, TypeOK, QueueInv
  <2>2. CacheHoldsPending' /\ TimersFindTheirCall'
    <3>1. \A n \in Nat : n < next_seq => n < next_seq'
      BY <1>2 DEF IInv, TypeOK
    <3>2. DOMAIN context_cache \subseteq Nat
      BY ContextAssumption DEF IInv, TypeOK
    <3>3. \A u \in tq.timer_queue : u.task \in Nat
      BY ContextAssumption DEF IInv, TypeOK, IsTimeoutQueue, Timer, SeqIds
    <3>4. CacheHoldsPending'
      BY <1>4, <3>1, <3>2 DEF IInv, CacheHoldsPending, IsPending
    <3>5. TimersFindTheirCall'
      BY <1>4, <3>1, <3>3 DEF IInv, TimersFindTheirCall
    <3>6. QED
      BY <3>4, <3>5
  <2>3. TimeoutArmed' /\ AwaitedServerAlive' /\ CurrentIsServed' /\ NoStrandedRequest'
    BY <1>4 DEF IInv, TimeoutArmed, AwaitedServerAlive, CurrentIsServed,
                NoStrandedRequest, IsPending
  <2>4. StackDiscipline'
    BY <1>4 DEF IInv, StackDiscipline, IsPending, IsFinish
  <2>5. QED
    BY <2>1, <2>2, <2>3, <2>4 DEF IInv
<1>5. CASE PendingNoTimer(seq, expire)
  <2>1. QueueInv(tq') /\ tq'.timer_queue = tq.timer_queue
    BY <1>1, <1>5, AddInv, AddTimers DEF PendingNoTimer
  <2>2. QED
    BY <1>4, <1>5, <2>1 DEF PendingNoTimer
<1>6. CASE PendingDuplicate(seq, expire)
  <2> DEFINE p == Add(tq, seq, expire, 0)
  <2>1. QueueInv(p)
    BY <1>1, AddInv
  <2>2. id # 0 /\ tq' = Cancel(p, id)
    BY <1>6 DEF PendingDuplicate
  <2>3. /\ p.timer_queue = tq.timer_queue \cup {timer}
        /\ \A u \in tq.timer_queue : u.seq_id # id
    BY <1>1, <2>2, AddTimers
  <2>4. QueueInv(tq')
    BY <2>1, <2>2, CancelInv
  <2>5. tq'.timer_queue = {u \in p.timer_queue : u.seq_id # id}
    BY <2>1, <2>2, CancelTimers
  <2>6. timer.seq_id = id
    OBVIOUS
  <2> HIDE DEF p, id, timer
  <2>7. tq'.timer_queue = tq.timer_queue
    BY <2>3, <2>5, <2>6
  <2>8. QED
    BY <1>4, <1>6, <2>4, <2>7 DEF PendingDuplicate
<1>7. CASE PendingParks(c, seq, expire, style)
  <2>1. /\ id # 0
        /\ seq \notin DOMAIN context_cache
        /\ tq' = Add(tq, seq, expire, 0)
        /\ context_cache' = Bind(context_cache, seq, c)
        /\ curr' = NoCtx
    BY <1>7 DEF PendingParks, GiveUpCurrent, Yields
  <2>2. /\ QueueInv(tq')
        /\ tq'.timer_queue = tq.timer_queue \cup {timer}
        /\ \A u \in tq.timer_queue : u.seq_id # id
        /\ id \in 0 .. (IdSpace - 1)
    <3> HIDE DEF expire
    <3>1. QueueInv(Add(tq, seq, expire, 0))
      BY <1>1, AddInv
    <3>2. /\ Add(tq, seq, expire, 0).timer_queue = tq.timer_queue \cup {timer}
          /\ \A u \in tq.timer_queue : u.seq_id # id
          /\ id \in 0 .. (IdSpace - 1)
      BY <1>1, <2>1, AddTimers
    <3>3. QED
      BY <2>1, <3>1, <3>2 DEF expire
  <2>3. id % CtxTimerIdSpace = id
    <3>1. id \in Nat /\ CtxTimerIdSpace \in Nat \ {0} /\ id < CtxTimerIdSpace
      BY <2>2, IdSpaceAssumption, ContextAssumption
    <3> HIDE DEF id
    <3>2. QED
      BY <3>1
  <2>4. /\ seq = next_seq /\ next_seq' = next_seq + 1
        /\ frame # NoFrame /\ curr # NoCtx
        /\ UseCoroutine \/ servers[curr].ret_code = 0
        /\ clients[c].st = "none"
    BY <2>1 DEF Rpc
  <2>5. /\ frame.server = curr
        /\ curr \in ServerCtxs
        /\ servers[curr].st = "live"
        /\ \A d \in ClientCtxs : IsPending(d) => clients[d].server # curr
        /\ ~servers[curr].to_be_continue
        /\ frame.client # c
    BY <2>4, ContextAssumption DEF IInv, TypeOK, CurrentIsServed, StackDiscipline
  <2> DEFINE parked == [st |-> "pending", seq |-> seq, timer_id |-> id, server |-> curr,
                        ret_code |-> "ok", deadline |-> expire, style |-> style]
  <2>6. clients' = [clients EXCEPT ![c] = parked]
    BY <1>7, <2>3 DEF PendingParks, GiveUpCurrent, Yields
  <2>7. parked \in Client
    <3>1. id \in Nat /\ style \in {"plain", "callback"}
      BY <2>2, IdSpaceAssumption, ContextAssumption
    <3> HIDE DEF id
    <3>2. QED
      BY <1>1, <2>5, <3>1 DEF Client, SeqIds
  <2>8. /\ clients' \in [ClientCtxs -> Client]
        /\ \A d \in ClientCtxs : d # c => clients'[d] = clients[d]
        /\ clients'[c].st = "pending"
        /\ clients'[c].seq = seq
        /\ clients'[c].timer_id = id
        /\ clients'[c].server = curr
        /\ clients'[c].deadline = expire
    <3> HIDE DEF id
    <3>1. clients'[c] = parked /\ clients' \in [ClientCtxs -> Client]
      <4> HIDE DEF parked
      <4> QED
        BY <2>6, <2>7 DEF IInv, TypeOK
    <3>2. \A d \in ClientCtxs : d # c => clients'[d] = clients[d]
      BY <2>6 DEF IInv, TypeOK
    <3>3. QED
      BY <3>1, <3>2
  <2>9. \A d \in ClientCtxs : IsPending(d)' <=> (IsPending(d) \/ d = c)
    BY <2>8 DEF IsPending
  <2>10. /\ DOMAIN context_cache' = DOMAIN context_cache \cup {seq}
         /\ context_cache'[seq] = c
         /\ \A x \in DOMAIN context_cache : context_cache'[x] = context_cache[x]
         /\ context_cache' \in [DOMAIN context_cache' -> ClientCtxs]
    BY <2>1 DEF Bind, IInv, TypeOK
  <2>11. /\ timer.seq_id = id /\ timer.task = seq
         /\ timer.expire_time = expire /\ timer.interval_time = 0
    OBVIOUS
  <2>12. /\ servers' \in [ServerCtxs -> Server]
         /\ \A r \in ServerCtxs : r # curr => servers'[r] = servers[r]
         /\ servers'[curr].st = "live"
         /\ servers'[curr].ret_code = servers[curr].ret_code
         /\ frame' = IF UseCoroutine THEN NoFrame ELSE frame
         /\ UseCoroutine => ~servers'[curr].to_be_continue
         /\ ~UseCoroutine => servers'[curr].to_be_continue
    <3>1. CASE UseCoroutine
      BY <1>7, <2>5, <3>1 DEF PendingParks, GiveUpCurrent, Yields, IInv, TypeOK
    <3>2. CASE ~UseCoroutine
      <4>1. /\ servers' = [servers EXCEPT ![curr].to_be_continue = TRUE]
            /\ frame' = frame
        BY <1>7, <3>2 DEF PendingParks, GiveUpCurrent, Yields
      <4>2. servers \in [ServerCtxs -> Server]
        BY DEF IInv, TypeOK
      <4>3. QED
        BY <2>5, <3>2, <4>1, <4>2 DEF Server
    <3>3. QED
      BY <3>1, <3>2
  <2> HIDE DEF id, timer, expire, parked
  <2>13. TypeOK' /\ Consistent(tq)'
    <3>1. /\ DOMAIN context_cache' \subseteq SeqIds
          /\ frame' \in [server : ServerCtxs, client : ClientCtxs \cup {NoCtx}] \cup {NoFrame}
      BY <1>1, <2>10, <2>12 DEF IInv, TypeOK, SeqIds
    <3>2. QED
      BY <1>2, <1>3, <2>1, <2>2, <2>8, <2>10, <2>12, <3>1 DEF IInv, TypeOK, QueueInv
  <2>14. CacheHoldsPending'
    <3>1. \A x \in DOMAIN context_cache :
            /\ context_cache[x] \in ClientCtxs /\ context_cache[x] # c
            /\ IsPending(context_cache[x]) /\ clients[context_cache[x]].seq = x
            /\ x \in Nat /\ x < next_seq
      BY <2>4, ContextAssumption DEF IInv, TypeOK, CacheHoldsPending, IsPending
    <3>2. \A x \in DOMAIN context_cache : x < next_seq'
      BY <1>2, <3>1 DEF IInv, TypeOK
    <3>3. \A x \in DOMAIN context_cache' : x < next_seq'
      BY <1>2, <2>10, <3>2
    <3>4. \A x \in DOMAIN context_cache' :
            /\ clients'[context_cache'[x]].st = "pending"
            /\ clients'[context_cache'[x]].seq = x
      <4>1. TAKE x \in DOMAIN context_cache'
      <4>2. CASE x = seq
        BY <4>2, <2>8, <2>10 DEF IsPending
      <4>3. CASE x # seq
        <5>1. x \in DOMAIN context_cache /\ context_cache'[x] = context_cache[x]
          BY <2>10, <4>3
        <5>2. clients'[context_cache[x]] = clients[context_cache[x]]
          BY <2>8, <3>1, <5>1
        <5>3. QED
          BY <3>1, <5>1, <5>2 DEF IsPending
      <4>4. QED
        BY <4>2, <4>3
    <3>5. \A d \in ClientCtxs : IsPending(d)' =>
            clients'[d].seq \in DOMAIN context_cache' /\ context_cache'[clients'[d].seq] = d
      <4>1. SUFFICES ASSUME NEW d \in ClientCtxs, IsPending(d)'
                     PROVE  clients'[d].seq \in DOMAIN context_cache'
                            /\ context_cache'[clients'[d].seq] = d
        OBVIOUS
      <4>2. CASE d = c
        BY <4>2, <2>8, <2>10
      <4>3. CASE d # c
        <5>1. IsPending(d) /\ clients'[d] = clients[d]
          BY <2>8, <2>9, <4>1, <4>3
        <5>2. clients[d].seq \in DOMAIN context_cache /\ context_cache[clients[d].seq] = d
          BY <5>1 DEF IInv, CacheHoldsPending
        <5>3. QED
          BY <2>10, <5>1, <5>2
      <4>4. QED
        BY <4>2, <4>3
    <3>6. QED
      BY <3>3, <3>4, <3>5 DEF CacheHoldsPending, IsPending
  <2>15. TimeoutArmed'
    BY <2>2, <2>8, <2>9, <2>11 DEF IInv, TimeoutArmed
  <2>16. TimersFindTheirCall'
    <3>1. \A x \in DOMAIN context_cache : context_cache[x] # c /\ context_cache[x] \in ClientCtxs
      BY <2>4 DEF IInv, TypeOK, CacheHoldsPending, IsPending
    <3>2. \A u \in tq.timer_queue : u.task \in Nat /\ u.task < next_seq
      BY <1>1, ContextAssumption DEF IInv, TimersFindTheirCall, QueueInv, IsTimeoutQueue, Timer, SeqIds
    <3>3. QED
      BY <1>2, <2>2, <2>4, <2>8, <2>10, <2>11, <3>1, <3>2 DEF IInv, TypeOK, TimersFindTheirCall
  <2>17. AwaitedServerAlive'
    BY <2>4, <2>5, <2>8, <2>9, <2>12 DEF IInv, AwaitedServerAlive
  <2>18. CurrentIsServed'
    BY <2>1 DEF CurrentIsServed
  <2>19. NoStrandedRequest'
    <3>1. \A r \in ServerCtxs : r # curr /\ servers[r].st = "live" =>
            \E d \in ClientCtxs : d # c /\ IsPending(d) /\ clients[d].server = r
      BY <2>4, <2>5 DEF IInv, NoStrandedRequest, IsPending
    <3>2. QED
      BY <2>8, <2>9, <2>12, <3>1 DEF NoStrandedRequest
  <2>20. StackDiscipline'
    <3>1. /\ \A r \in ServerCtxs : servers'[r].st = "none" =>
               ~servers'[r].to_be_continue /\ servers'[r].ret_code = 0
          /\ UseCoroutine => \A r \in ServerCtxs : ~servers'[r].to_be_continue
      BY <2>5, <2>12 DEF IInv, StackDiscipline
    <3>2. frame' # NoFrame =>
            /\ ~UseCoroutine
            /\ frame' = frame
            /\ servers'[frame'.server].st = "live"
            /\ ~IsFinish(frame.server)'
            /\ IsPending(c)' /\ clients'[c].server = frame'.server
      BY <2>4, <2>5, <2>8, <2>9, <2>12 DEF IsFinish
    <3>3. frame' # NoFrame => (frame'.client # NoCtx => clients'[frame'.client].st = "running")
      <4>1. frame.client # NoCtx =>
              frame.client \in ClientCtxs /\ clients[frame.client].st = "running"
        BY <2>4 DEF IInv, StackDiscipline, TypeOK
      <4>2. QED
        BY <2>5, <2>8, <3>2, <4>1
    <3>4. \A d \in ClientCtxs : clients'[d].st = "running" => frame'.client = d
      <4>1. \A d \in ClientCtxs : clients[d].st = "running" => frame.client = d /\ ~UseCoroutine
        BY <2>4, ContextAssumption DEF IInv, StackDiscipline
      <4>2. QED
        BY <2>8, <2>12, <4>1
    <3>5. ~UseCoroutine => \A d \in ClientCtxs : clients'[d].st # "done"
      BY <2>8 DEF IInv, StackDiscipline
    <3>6. QED
      BY <2>1, <3>1, <3>2, <3>3, <3>4, <3>5 DEF StackDiscipline
  <2>21. QED
    BY <2>13, <2>14, <2>15, <2>16, <2>17, <2>18, <2>19, <2>20 DEF IInv
<1>8. QED
  BY <1>5, <1>6, <1>7 DEF Rpc, Pending

\* A request packet starts a request (pb_service.cpp:214).
LEMMA RecvRequestInv ==
  ASSUME IInv, NEW s \in ServerCtxs, RecvRequest(s)
  PROVE  IInv'
<1>1. /\ frame = NoFrame
      /\ UNCHANGED <<tq, context_cache, clients, now, in_loop, next_seq>>
      /\ curr' = s
      /\ frame' = [server |-> s, client |-> NoCtx]
      /\ servers[s].st = "none"
  BY DEF RecvRequest, Idle
<1>2. /\ servers' \in [ServerCtxs -> Server]
      /\ \A r \in ServerCtxs : r # s => servers'[r] = servers[r]
      /\ servers'[s].st = "live"
      /\ servers'[s].ret_code = servers[s].ret_code
      /\ ~servers'[s].to_be_continue
  <2>1. servers \in [ServerCtxs -> Server] /\ ~servers[s].to_be_continue
    BY <1>1 DEF IInv, TypeOK, StackDiscipline
  <2>2. servers' = [servers EXCEPT ![s].st = "live"]
    BY DEF RecvRequest
  <2>3. QED
    BY <2>1, <2>2 DEF Server
<1>3. s # NoCtx
  BY ContextAssumption
<1>4. \A c \in ClientCtxs : IsPending(c) => clients[c].server # s
  BY <1>1 DEF IInv, AwaitedServerAlive
<1>5. TypeOK' /\ Consistent(tq)'
  BY <1>1, <1>2 DEF IInv, TypeOK
<1>6. CacheHoldsPending' /\ TimeoutArmed' /\ TimersFindTheirCall'
  BY <1>1 DEF IInv, CacheHoldsPending, TimeoutArmed, TimersFindTheirCall, IsPending
<1>7. AwaitedServerAlive'
  BY <1>1, <1>2, <1>4 DEF IInv, AwaitedServerAlive, IsPending
<1>8. CurrentIsServed'
  BY <1>1, <1>2, <1>4 DEF CurrentIsServed, IsPending
<1>9. NoStrandedRequest'
  <2>1. \A r \in ServerCtxs : servers[r].st = "live" =>
          \E c \in ClientCtxs : IsPending(c) /\ clients[c].server = r
    BY <1>1, ContextAssumption DEF IInv, NoStrandedRequest, NoFrame
  <2>2. QED
    BY <1>1, <1>2, <2>1 DEF NoStrandedRequest, IsPending
<1>10. StackDiscipline'
  BY <1>1, <1>2, <1>3, ContextAssumption DEF IInv, StackDiscipline, NoFrame
<1>11. QED
  BY <1>5, <1>6, <1>7, <1>8, <1>9, <1>10 DEF IInv

\* An error code is set only while no call is outstanding, or in coroutine mode.
LEMMA SetErrorInv ==
  ASSUME IInv, SetError
  PROVE  IInv'
<1> DEFINE s == frame.server
<1>1. /\ frame # NoFrame
      /\ UseCoroutine \/ ~servers[s].to_be_continue
      /\ UNCHANGED <<tq, context_cache, clients, curr, frame, now, in_loop, next_seq>>
  BY DEF SetError
<1>2. s \in ServerCtxs /\ servers[s].st = "live" /\ ~servers[s].to_be_continue
  BY <1>1 DEF IInv, TypeOK, StackDiscipline
<1>3. /\ servers' \in [ServerCtxs -> Server]
      /\ \A r \in ServerCtxs : r # s => servers'[r] = servers[r]
      /\ servers'[s].st = "live"
      /\ ~servers'[s].to_be_continue
  <2>1. servers \in [ServerCtxs -> Server]
    BY DEF IInv, TypeOK
  <2>2. servers' = [servers EXCEPT ![s].ret_code = 1]
    BY DEF SetError
  <2> HIDE DEF s
  <2>3. QED
    BY <1>2, <2>1, <2>2 DEF Server
<1>4. curr = s
  BY <1>1, <1>2 DEF IInv, StackDiscipline, AwaitedServerAlive, IsFinish
<1>5. \A c \in ClientCtxs : IsPending(c) => clients[c].server # s
  BY <1>2, <1>4, ContextAssumption DEF IInv, CurrentIsServed
<1>6. TypeOK' /\ Consistent(tq)'
  BY <1>1, <1>3 DEF IInv, TypeOK
<1>7. CacheHoldsPending' /\ TimeoutArmed' /\ TimersFindTheirCall'
  BY <1>1 DEF IInv, CacheHoldsPending, TimeoutArmed, TimersFindTheirCall, IsPending
<1>8. AwaitedServerAlive'
  BY <1>1, <1>3, <1>5 DEF IInv, AwaitedServerAlive, IsPending
<1>9. CurrentIsServed'
  BY <1>1, <1>3, <1>4, <1>5 DEF CurrentIsServed, IsPending
<1>10. NoStrandedRequest'
  BY <1>1, <1>2, <1>3 DEF IInv, NoStrandedRequest, IsPending
<1>11. StackDiscipline'
  BY <1>1, <1>2, <1>3, <1>4 DEF IInv, StackDiscipline
<1>12. QED
  BY <1>6, <1>7, <1>8, <1>9, <1>10, <1>11 DEF IInv

\* Returning from user code finishes a request only when no call of its is
\* outstanding (pb_service.cpp:307, 311, 495).
LEMMA UserReturnInv ==
  ASSUME IInv, UserReturn
  PROVE  IInv'
<1> DEFINE s == frame.server
           f == frame.client
<1>1. /\ frame # NoFrame /\ frame' = NoFrame
      /\ UNCHANGED <<tq, context_cache, now, in_loop, next_seq>>
  BY DEF UserReturn
<1>2. /\ s \in ServerCtxs /\ f \in ClientCtxs \cup {NoCtx}
      /\ servers[s].st = "live"
      /\ f # NoCtx => ~UseCoroutine /\ clients[f].st = "running"
  BY <1>1 DEF IInv, TypeOK, StackDiscipline
<1>3. IsFinish(s) => curr = s
  BY <1>1 DEF IInv, StackDiscipline
<1>4. ~IsFinish(s) =>
        /\ curr = NoCtx
        /\ \E c \in ClientCtxs : IsPending(c) /\ clients[c].server = s
  BY <1>1, <1>2 DEF IInv, StackDiscipline, IsFinish
<1>5. IsFinish(s) => \A c \in ClientCtxs : IsPending(c) => clients[c].server # s
  BY <1>2, <1>3, ContextAssumption DEF IInv, CurrentIsServed
<1>6. /\ curr' = NoCtx
      /\ IsFinish(s) => servers' = [servers EXCEPT ![s].st = "deleted"]
      /\ ~IsFinish(s) => servers' = servers
  BY <1>4 DEF UserReturn
<1>7. /\ servers' \in [ServerCtxs -> Server]
      /\ \A r \in ServerCtxs : r # s => servers'[r] = servers[r]
      /\ servers'[s].to_be_continue => servers[s].to_be_continue
      /\ servers'[s].st = IF IsFinish(s) THEN "deleted" ELSE "live"
      /\ ~IsFinish(s) => servers'[s] = servers[s]
  <2>1. servers \in [ServerCtxs -> Server]
    BY DEF IInv, TypeOK
  <2> HIDE DEF s
  <2>2. QED
    BY <1>2, <1>6, <2>1 DEF Server
<1>8. /\ clients' \in [ClientCtxs -> Client]
      /\ \A c \in ClientCtxs : c # f => clients'[c] = clients[c]
      /\ f # NoCtx => clients'[f].st = "deleted"
  <2>1. clients \in [ClientCtxs -> Client]
    BY DEF IInv, TypeOK
  <2>2. DeletedClient \in Client /\ DeletedClient.st = "deleted"
    BY ContextAssumption DEF DeletedClient, NewClient, Client
  <2>3. clients' = IF f = NoCtx THEN clients ELSE [clients EXCEPT ![f] = DeletedClient]
    BY DEF UserReturn
  <2> HIDE DEF f
  <2>4. QED
    BY <1>2, <2>1, <2>2, <2>3, ContextAssumption
<1>9. \A c \in ClientCtxs : /\ IsPending(c)' <=> IsPending(c)
                            /\ IsPending(c) => clients'[c] = clients[c]
  BY <1>2, <1>8, ContextAssumption DEF IsPending
<1> HIDE DEF s, f
<1>10. TypeOK' /\ Consistent(tq)'
  BY <1>1, <1>6, <1>7, <1>8 DEF IInv, TypeOK
<1>11. CacheHoldsPending'
  <2>1. \A x \in DOMAIN context_cache : context_cache[x] \in ClientCtxs
    BY DEF IInv, TypeOK
  <2>2. QED
    BY <1>1, <1>9, <2>1 DEF IInv, CacheHoldsPending, IsPending
<1>12. TimeoutArmed'
  BY <1>1, <1>9 DEF IInv, TimeoutArmed
<1>13. TimersFindTheirCall'
  <2>1. \A x \in DOMAIN context_cache : clients'[context_cache[x]] = clients[context_cache[x]]
    BY <1>9 DEF IInv, TypeOK, CacheHoldsPending
  <2>2. QED
    BY <1>1, <2>1 DEF IInv, TimersFindTheirCall
<1>14. AwaitedServerAlive'
  BY <1>5, <1>7, <1>9 DEF IInv, AwaitedServerAlive
<1>15. CurrentIsServed'
  BY <1>6 DEF CurrentIsServed
<1>16. NoStrandedRequest'
  <2>1. \A r \in ServerCtxs : servers'[r].st = "live" =>
          \E c \in ClientCtxs : IsPending(c) /\ clients[c].server = r
    BY <1>4, <1>7 DEF IInv, NoStrandedRequest, s
  <2>2. QED
    BY <1>9, <2>1 DEF NoStrandedRequest
<1>17. StackDiscipline'
  <2>1. \A r \in ServerCtxs : servers'[r].st = "none" =>
          ~servers'[r].to_be_continue /\ servers'[r].ret_code = 0
    BY <1>7 DEF IInv, StackDiscipline
  <2>2. UseCoroutine => \A r \in ServerCtxs : ~servers'[r].to_be_continue
    BY <1>7 DEF IInv, StackDiscipline
  <2>3. \A c \in ClientCtxs : clients'[c].st # "running"
    BY <1>2, <1>8, ContextAssumption DEF IInv, StackDiscipline, f
  <2>4. ~UseCoroutine => \A c \in ClientCtxs : clients'[c].st # "done"
    BY <1>2, <1>8, ContextAssumption DEF IInv, StackDiscipline
  <2>5. QED
    BY <1>1, <2>1, <2>2, <2>3, <2>4 DEF StackDiscipline
<1>18. QED
  BY <1>10, <1>11, <1>12, <1>13, <1>14, <1>15, <1>16, <1>17 DEF IInv

\* A timer fires, whether it wakes its call or finds that it is gone
\* (context_controller.cpp:26, 72).
LEMMA FireInv ==
  ASSUME IInv, NEW t \in tq.timer_queue, Fire(t)
  PROVE  IInv'
<1> DEFINE q == TakeFirst(tq, t)
<1>1. /\ frame = NoFrame
      /\ UNCHANGED <<now, in_loop, next_seq>>
      /\ TimerFires(t, now)
  BY DEF Fire
<1>2. /\ QueueInv(tq)
      /\ t.task \in SeqIds
      /\ t.interval_time = 0
  BY DEF IInv, TypeOK, QueueInv, IsTimeoutQueue, Timer, SeqIds, TimersFindTheirCall
<1>3. QueueInv(q)
  BY <1>2, TakeFirstInv
<1>4. /\ q.timer_queue \subseteq tq.timer_queue
      /\ \A u \in tq.timer_queue : u # t => u \in q.timer_queue
  <2>1. q.timer_queue = {u \in tq.timer_queue : u.seq_id # t.seq_id}
    BY <1>2, TakeFirstTimers
  <2>2. \A u \in tq.timer_queue : u.seq_id = t.seq_id => u = t
    BY <1>2 DEF QueueInv, Consistent
  <2> HIDE DEF q
  <2>3. QED
    BY <2>1, <2>2
<1>5. Disarms(q, t.task)
  <2> HIDE DEF q
  <2>1. \A u \in tq.timer_queue : u.task # t.task => u # t
    OBVIOUS
  <2>2. QED
    BY <1>3, <1>4, <2>1 DEF Disarms
<1> HIDE DEF q
<1>6. CASE t.task \in DOMAIN context_cache
  <2>1. AwakeAndRun(q, t.task, "time_out", "time_out")
    BY <1>1, <1>6 DEF TimerFires, q
  <2>2. QED
    BY <1>1, <1>5, <1>6, <2>1, AwakeInv
<1>7. CASE t.task \notin DOMAIN context_cache
  <2>1. tq' = q /\ UNCHANGED <<context_cache, clients, servers, curr, frame>>
    BY <1>1, <1>7 DEF TimerFires, q
  <2>2. TypeOK' /\ Consistent(tq)'
    BY <1>1, <1>3, <2>1 DEF IInv, TypeOK, QueueInv
  <2>3. CacheHoldsPending' /\ TimersFindTheirCall'
    BY <1>1, <1>4, <2>1 DEF IInv, CacheHoldsPending, TimersFindTheirCall, IsPending
  <2>4. TimeoutArmed'
    <3>1. \A c \in ClientCtxs : IsPending(c) => clients[c].seq # t.task
      BY <1>7 DEF IInv, CacheHoldsPending
    <3>2. QED
      BY <1>4, <2>1, <3>1 DEF IInv, TimeoutArmed, IsPending
  <2>5. AwaitedServerAlive' /\ CurrentIsServed' /\ NoStrandedRequest'
    BY <2>1 DEF IInv, AwaitedServerAlive, CurrentIsServed, NoStrandedRequest, IsPending
  <2>6. StackDiscipline'
    BY <2>1 DEF IInv, StackDiscipline, IsPending, IsFinish
  <2>7. QED
    BY <2>2, <2>3, <2>4, <2>5, <2>6 DEF IInv
<1>8. QED
  BY <1>6, <1>7

\* The clock, the two ends of the timer loop and stuttering touch no context.
LEMMA QuietInv ==
  ASSUME IInv, UNCHANGED <<tq, context_cache, clients, servers, curr, frame, next_seq>>,
         now' \in Nat, in_loop' \in BOOLEAN
  PROVE  IInv'
<1>1. TypeOK' /\ Consistent(tq)'
  BY DEF IInv, TypeOK
<1>2. CacheHoldsPending' /\ TimeoutArmed' /\ TimersFindTheirCall'
  BY DEF IInv, CacheHoldsPending, TimeoutArmed, TimersFindTheirCall, IsPending
<1>3. AwaitedServerAlive' /\ CurrentIsServed' /\ NoStrandedRequest'
  BY DEF IInv, AwaitedServerAlive, CurrentIsServed, NoStrandedRequest, IsPending
<1>4. StackDiscipline'
  BY DEF IInv, StackDiscipline, IsPending, IsFinish
<1>5. QED
  BY <1>1, <1>2, <1>3, <1>4 DEF IInv

\* Every action keeps the invariant.
LEMMA NextInv ==
  ASSUME IInv, IdSpace =< CtxTimerIdSpace, [Next]_vars
  PROVE  IInv'
<1>1. ASSUME Tick PROVE IInv'
  BY <1>1, QuietInv DEF Tick, IInv, TypeOK
<1>2. ASSUME NEW s \in ServerCtxs, RecvRequest(s) PROVE IInv'
  BY <1>2, RecvRequestInv
<1>3. ASSUME SetError PROVE IInv'
  BY <1>3, SetErrorInv
<1>4. ASSUME NEW c \in ClientCtxs, NEW timeout \in Timeouts, NEW style \in Styles,
             NEW seq \in {next_seq} \cup DOMAIN context_cache,
             Rpc(c, seq, timeout, style)
      PROVE  IInv'
  BY <1>4, RpcInv
<1>5. ASSUME UserReturn PROVE IInv'
  BY <1>5, UserReturnInv
<1>6. ASSUME NEW seq \in DOMAIN context_cache, NEW ret \in RetCodes, NEW m \in BOOLEAN,
             RecvResponse(seq, ret, m)
      PROVE  IInv'
  <2> DEFINE delivered == IF m THEN ret ELSE "sys_err"
  <2>1. /\ frame = NoFrame
        /\ UNCHANGED <<now, in_loop, next_seq>>
        /\ AwakeAndRun(tq, seq, ret, delivered)
    BY <1>6 DEF RecvResponse, Idle
  <2>2. delivered \in {"ok", "sys_err", "time_out"}
    BY ContextAssumption
  <2>3. Disarms(tq, seq)
    BY DEF IInv, TypeOK, QueueInv, Disarms
  <2> HIDE DEF delivered
  <2>4. QED
    BY <2>1, <2>2, <2>3, AwakeInv
<1>7. ASSUME LoopBegin PROVE IInv'
  BY <1>7, QuietInv DEF LoopBegin, IInv, TypeOK
<1>8. ASSUME NEW t \in tq.timer_queue, Fire(t) PROVE IInv'
  BY <1>8, FireInv
<1>9. ASSUME LoopEnd PROVE IInv'
  BY <1>9, QuietInv DEF LoopEnd, IInv, TypeOK
<1>10. ASSUME UNCHANGED vars PROVE IInv'
  BY <1>10, QuietInv DEF vars, IInv, TypeOK
<1>11. QED
  BY <1>1, <1>2, <1>3, <1>4, <1>5, <1>6, <1>7, <1>8, <1>9, <1>10 DEF Next

\* The invariant holds in every reachable state.
LEMMA Invariance == IdSpace =< CtxTimerIdSpace /\ Spec => []IInv
<1> SUFFICES ASSUME IdSpace =< CtxTimerIdSpace PROVE Spec => []IInv
  OBVIOUS
<1>1. Init => IInv
  BY RpcInit
<1>2. IInv /\ [Next]_vars => IInv'
  BY NextInv
<1>3. QED
  BY <1>1, <1>2, PTL DEF Spec

\* Whatever the interleaving of requests, calls, answers and timeouts, the cache
\* holds exactly the parked calls, each with its own timer armed, and no timer
\* leads to another call (Pending, Awake, ProcTimeOut).
THEOREM CallsAndTimersAgree ==
  IdSpace =< CtxTimerIdSpace /\ Spec =>
    [](TypeOK /\ ParkedCallsAreTimed)
<1>1. IInv => TypeOK /\ ParkedCallsAreTimed
  BY DEF IInv, ParkedCallsAreTimed
<1>2. QED
  BY <1>1, Invariance, PTL

\* The server context a parked call will come back to is alive and waits for it
\* alone, the current context is the one being served, no request is stranded,
\* and the stack agrees with the contexts (DealMethod, MethodFinish, the
\* callbacks of Pending).
THEOREM RequestsAreServed ==
  IdSpace =< CtxTimerIdSpace /\ Spec =>
    [](RequestsStayReachable /\ StackDiscipline)
<1>1. IInv => RequestsStayReachable /\ StackDiscipline
  BY DEF IInv, RequestsStayReachable
<1>2. QED
  BY <1>1, Invariance, PTL

\* In the asynchronous mode every call that completes gives its context back
\* (the recycle function of Rpc, pb_service.cpp:495).
THEOREM AsyncCallsAreFreed ==
  IdSpace =< CtxTimerIdSpace /\ ~UseCoroutine /\ Spec => []CompletedCallsAreFreed
<1> SUFFICES ASSUME IdSpace =< CtxTimerIdSpace, ~UseCoroutine
             PROVE  Spec => []CompletedCallsAreFreed
  OBVIOUS
<1>1. IInv => CompletedCallsAreFreed
  BY ContextAssumption
  DEF IInv, TypeOK, Client, StackDiscipline, CompletedCallsAreFreed, NoFrame
<1>2. QED
  BY <1>1, Invariance, PTL

\* What a step may do to one client context.
OneWay(c) ==
  clients'[c].st # clients[c].st =>
    \/ clients[c].st = "none" /\ clients'[c].st = "pending"
    \/ clients[c].st = "pending" /\ clients'[c].st \in {"running", "done", "deleted"}
    \/ clients[c].st = "running" /\ clients'[c].st = "deleted"

\* Run takes one parked context out of its parked state and touches no other.
LEMMA RunIsOneWay ==
  ASSUME IInv, NEW seq \in DOMAIN context_cache, NEW delivered,
         RunClient(context_cache[seq], delivered), NEW d \in ClientCtxs
  PROVE  OneWay(d)
<1> DEFINE c == context_cache[seq]
           woken == [clients[c] EXCEPT !.timer_id = 0, !.ret_code = delivered]
           last == IF ~UseCoroutine THEN [woken EXCEPT !.st = "running"]
                   ELSE IF woken.style = "callback" THEN [woken EXCEPT !.st = "done"]
                   ELSE DeletedClient
<1>1. c \in ClientCtxs /\ clients[c].st = "pending" /\ clients[c] \in Client
  BY DEF IInv, TypeOK, CacheHoldsPending, IsPending
<1>2. clients' = [clients EXCEPT ![c] = last]
  BY DEF RunClient
<1>3. last.st \in {"running", "done", "deleted"}
  BY <1>1 DEF Client, DeletedClient, NewClient
<1> HIDE DEF c, last
<1>4. CASE d = c
  BY <1>1, <1>2, <1>3, <1>4 DEF OneWay, IInv, TypeOK
<1>5. CASE d # c
  BY <1>2, <1>5 DEF OneWay, IInv, TypeOK
<1>6. QED
  BY <1>4, <1>5

\* A call completes at most once, whatever mixture of late, duplicated and
\* wrong answers and of timeouts it meets (Awake erases before it wakes).
THEOREM CallsCompleteAtMostOnce ==
  IdSpace =< CtxTimerIdSpace /\ Spec => CompletesAtMostOnce
<1> SUFFICES ASSUME IdSpace =< CtxTimerIdSpace PROVE Spec => CompletesAtMostOnce
  OBVIOUS
<1>1. ASSUME IInv, Next, NEW d \in ClientCtxs PROVE OneWay(d)
  <2> USE <1>1
  <2>1. ASSUME UNCHANGED clients PROVE OneWay(d)
    BY <2>1 DEF OneWay
  <2>2. CASE Tick \/ (\E s \in ServerCtxs : RecvRequest(s)) \/ SetError \/ LoopBegin \/ LoopEnd
    BY <2>1, <2>2 DEF Tick, RecvRequest, SetError, LoopBegin, LoopEnd
  <2>3. ASSUME NEW c \in ClientCtxs, NEW timeout \in Timeouts, NEW style \in Styles,
               NEW seq \in {next_seq} \cup DOMAIN context_cache,
               Rpc(c, seq, timeout, style)
        PROVE  OneWay(d)
    <3>1. CASE UNCHANGED clients
      BY <2>1, <3>1
    <3>2. CASE PendingParks(c, seq, now + timeout, style)
      <4>1. clients[c].st = "none"
        BY <2>3 DEF Rpc
      <4>2. PICK parked : parked.st = "pending" /\ clients' = [clients EXCEPT ![c] = parked]
        BY <3>2 DEF PendingParks, GiveUpCurrent, Yields
      <4>3. QED
        BY <4>1, <4>2 DEF OneWay, IInv, TypeOK
    <3>3. QED
      BY <2>3, <3>1, <3>2 DEF Rpc, Pending, PendingNoTimer, PendingDuplicate
  <2>4. CASE UserReturn
    <3>1. frame # NoFrame
      BY <2>4 DEF UserReturn
    <3>2. CASE frame.client = NoCtx
      BY <2>1, <2>4, <3>2 DEF UserReturn
    <3>3. CASE frame.client # NoCtx
      <4>1. frame.client \in ClientCtxs /\ clients[frame.client].st = "running"
        BY <3>1, <3>3 DEF IInv, TypeOK, StackDiscipline
      <4>2. clients' = [clients EXCEPT ![frame.client] = DeletedClient]
        BY <2>4, <3>3 DEF UserReturn
      <4>3. DeletedClient.st = "deleted"
        BY DEF DeletedClient, NewClient
      <4>4. QED
        BY <4>1, <4>2, <4>3 DEF OneWay, IInv, TypeOK
    <3>4. QED
      BY <3>2, <3>3
  <2>5. ASSUME NEW seq \in DOMAIN context_cache, NEW ret \in RetCodes, NEW m \in BOOLEAN,
               RecvResponse(seq, ret, m)
        PROVE  OneWay(d)
    BY <2>5, RunIsOneWay DEF RecvResponse, AwakeAndRun
  <2>6. ASSUME NEW t \in tq.timer_queue, Fire(t) PROVE OneWay(d)
    <3>1. CASE t.task \in DOMAIN context_cache
      BY <2>6, <3>1, RunIsOneWay DEF Fire, TimerFires, AwakeAndRun
    <3>2. CASE t.task \notin DOMAIN context_cache
      BY <2>1, <2>6, <3>2 DEF Fire, TimerFires
    <3>3. QED
      BY <3>1, <3>2
  <2>7. QED
    BY <2>2, <2>3, <2>4, <2>5, <2>6 DEF Next
<1>2. IInv /\ [Next]_vars => [\A c \in ClientCtxs : OneWay(c)]_vars
  BY <1>1
<1>3. Spec => [][\A c \in ClientCtxs : OneWay(c)]_vars
  BY <1>2, Invariance, PTL DEF Spec
<1>4. QED
  BY <1>3 DEF CompletesAtMostOnce, OneWay

------------------------------------------------------------------------------
\* The parked calls with their deadlines, the open calls of the ledger.
OpenCalls == [seq \in DOMAIN context_cache |-> clients[context_cache[seq]].deadline]

\* A step that changes neither the cache nor a parked context leaves the ledger's
\* calls open as they are.
LEMMA SameOpenCalls ==
  ASSUME IInv, UNCHANGED context_cache,
         \A c \in ClientCtxs : IsPending(c) => clients'[c].deadline = clients[c].deadline
  PROVE  UNCHANGED OpenCalls
<1>1. \A x \in DOMAIN context_cache :
        clients'[context_cache[x]].deadline = clients[context_cache[x]].deadline
  BY DEF IInv, TypeOK, CacheHoldsPending
<1>2. QED
  BY <1>1 DEF OpenCalls

\* Awake takes the call out of the cache and Run touches no other parked call.
LEMMA AwakeCloses ==
  ASSUME IInv, NEW seq \in DOMAIN context_cache, NEW q, NEW ret, NEW delivered,
         AwakeAndRun(q, seq, ret, delivered)
  PROVE  OpenCalls' = [x \in DOMAIN OpenCalls \ {seq} |-> OpenCalls[x]]
<1> DEFINE c == context_cache[seq]
<1>1. /\ c \in ClientCtxs
      /\ \A x \in DOMAIN context_cache :
           context_cache[x] \in ClientCtxs /\ clients[context_cache[x]].seq = x
  BY DEF IInv, TypeOK, CacheHoldsPending
<1>2. /\ DOMAIN context_cache' = DOMAIN context_cache \ {seq}
      /\ \A x \in DOMAIN context_cache' : context_cache'[x] = context_cache[x]
  BY DEF AwakeAndRun, Unbind
<1>3. \A d \in ClientCtxs : d # c => clients'[d] = clients[d]
  <2>1. PICK last : clients' = [clients EXCEPT ![c] = last]
    BY DEF AwakeAndRun, RunClient
  <2>2. QED
    BY <2>1 DEF IInv, TypeOK
<1>4. \A x \in DOMAIN context_cache' : context_cache[x] # c
  BY <1>1, <1>2
<1> HIDE DEF c
<1>5. \A x \in DOMAIN context_cache' :
        clients'[context_cache'[x]].deadline = clients[context_cache[x]].deadline
  BY <1>1, <1>2, <1>3, <1>4
<1>6. QED
  BY <1>2, <1>5 DEF OpenCalls

\* An answer closes its call while the network is being served.
LEMMA ResponseAnswers ==
  ASSUME IInv, NEW seq \in DOMAIN context_cache, NEW ret, NEW m,
         RecvResponse(seq, ret, m)
  PROVE  Ledger!Answer(seq)
<1>1. OpenCalls' = [x \in DOMAIN OpenCalls \ {seq} |-> OpenCalls[x]]
  BY AwakeCloses DEF RecvResponse
<1>2. UNCHANGED <<now, in_loop, next_seq>> /\ ~in_loop
  BY DEF RecvResponse, Idle
<1>3. seq \in DOMAIN OpenCalls
  BY DEF OpenCalls
<1>4. QED
  BY <1>1, <1>2, <1>3 DEF Ledger!Answer, Ledger!Close, OpenCalls

\* A timer that leads to a parked call is that call's own, so the deadline it
\* fires at is the call's (Awake, from the task that Pending gave the timer).
LEMMA FireExpires ==
  ASSUME IInv, NEW t \in tq.timer_queue, Fire(t), t.task \in DOMAIN context_cache
  PROVE  Ledger!Expire(t.task)
<1> DEFINE c == context_cache[t.task]
<1>1. c \in ClientCtxs /\ IsPending(c) /\ t.seq_id = clients[c].timer_id
  BY DEF IInv, TypeOK, CacheHoldsPending, TimersFindTheirCall
<1>2. PICK u \in tq.timer_queue : /\ u.seq_id = clients[c].timer_id
                                  /\ u.expire_time = clients[c].deadline
  BY <1>1 DEF IInv, TimeoutArmed
<1>3. u = t
  BY <1>1, <1>2 DEF IInv, Consistent
<1>4. clients[c].deadline <= now
  BY <1>2, <1>3 DEF Fire, TimerFires, Expired
<1>5. OpenCalls' = [x \in DOMAIN OpenCalls \ {t.task} |-> OpenCalls[x]]
  BY AwakeCloses DEF Fire, TimerFires
<1>6. UNCHANGED <<now, in_loop, next_seq>> /\ in_loop
  BY DEF Fire
<1>7. t.task \in DOMAIN OpenCalls /\ OpenCalls[t.task] <= now
  BY <1>4 DEF OpenCalls
<1>8. QED
  BY <1>5, <1>6, <1>7 DEF Ledger!Expire, Ledger!Close, OpenCalls

\* Pending enters a call into the ledger, or burns the seq_id it was given.
LEMMA RpcIssues ==
  ASSUME IInv, NEW c \in ClientCtxs, NEW timeout \in Timeouts, NEW style \in Styles,
         NEW seq \in {next_seq} \cup DOMAIN context_cache,
         Rpc(c, seq, timeout, style)
  PROVE  [Ledger!LedgerNext]_(Ledger!ledger_vars)
<1>1. /\ UNCHANGED <<now, in_loop>>
      /\ next_seq \in SeqIds
      /\ next_seq' = next_seq + 1 \/ next_seq' = next_seq
      /\ next_seq \in Nat \ {0}
  BY DEF Rpc, IInv, TypeOK
<1>2. /\ next_seq \notin 1 .. (next_seq - 1)
      /\ next_seq' = next_seq + 1 =>
           1 .. (next_seq' - 1) = (1 .. (next_seq - 1)) \cup {next_seq}
  BY <1>1
<1>3. ASSUME UNCHANGED <<context_cache, clients>>
      PROVE  Ledger!Refuse(next_seq) \/ UNCHANGED Ledger!ledger_vars
  <2>1. UNCHANGED OpenCalls
    BY <1>3 DEF OpenCalls
  <2>2. QED
    BY <1>1, <1>2, <2>1 DEF Ledger!Refuse, Ledger!ledger_vars, OpenCalls
<1>4. CASE PendingParks(c, seq, now + timeout, style)
  <2>1. /\ seq = next_seq /\ next_seq' = next_seq + 1
        /\ seq \notin DOMAIN context_cache
        /\ clients[c].st = "none"
    BY <1>4 DEF Rpc, PendingParks
  <2>2. /\ DOMAIN context_cache' = DOMAIN context_cache \cup {seq}
        /\ context_cache'[seq] = c
        /\ \A x \in DOMAIN context_cache : context_cache'[x] = context_cache[x]
    BY <1>4, <2>1 DEF PendingParks, Bind
  <2>3. PICK parked : /\ parked.deadline = now + timeout
                      /\ clients' = [clients EXCEPT ![c] = parked]
    BY <1>4 DEF PendingParks
  <2>4. /\ clients'[c].deadline = now + timeout
        /\ \A d \in ClientCtxs : d # c => clients'[d] = clients[d]
    BY <2>3 DEF IInv, TypeOK
  <2>5. \A x \in DOMAIN context_cache :
          context_cache[x] # c /\ context_cache[x] \in ClientCtxs
    BY <2>1 DEF IInv, TypeOK, CacheHoldsPending, IsPending
  <2>6. \A x \in DOMAIN context_cache' : clients'[context_cache'[x]].deadline =
          IF x = seq THEN now + timeout ELSE clients[context_cache[x]].deadline
    BY <2>1, <2>2, <2>4, <2>5
  <2>7. OpenCalls' = [x \in DOMAIN OpenCalls \cup {seq} |->
                        IF x = seq THEN now + timeout ELSE OpenCalls[x]]
    BY <2>2, <2>6 DEF OpenCalls
  <2>8. Ledger!Issue(next_seq, timeout)
    BY <1>1, <1>2, <2>1, <2>7 DEF Ledger!Issue, OpenCalls
  <2>9. QED
    BY <1>1, <2>8 DEF Ledger!LedgerNext
<1>5. CASE PendingNoTimer(seq, now + timeout) \/ PendingDuplicate(seq, now + timeout)
  <2>1. UNCHANGED <<context_cache, clients>>
    BY <1>5 DEF PendingNoTimer, PendingDuplicate
  <2>2. QED
    BY <1>1, <1>3, <2>1 DEF Ledger!LedgerNext
<1>6. QED
  BY <1>4, <1>5 DEF Rpc, Pending

\* The calls of the runtime are a ledger: an id is issued once, an open call is
\* closed exactly once, by an answer or, not before its deadline, by a timeout,
\* through any mixture of wrong, late and repeated answers, of seq_ids that are
\* taken and of timers that cannot be had (Pending, Awake, ProcTimeOut).
THEOREM CallsAreALedger ==
  IdSpace =< CtxTimerIdSpace /\ Spec => ImplementsLedger
<1> SUFFICES ASSUME IdSpace =< CtxTimerIdSpace PROVE Spec => ImplementsLedger
  OBVIOUS
<1>1. Init => Ledger!LedgerInit
  <2> SUFFICES ASSUME Init PROVE Ledger!LedgerInit
    OBVIOUS
  <2>1. DOMAIN context_cache = {} /\ now = 0 /\ in_loop = FALSE /\ 1 .. (next_seq - 1) = {}
    BY DEF Init, ControllerInit
  <2>2. QED
    BY <2>1 DEF Ledger!LedgerInit
<1>2. ASSUME IInv, [Next]_vars PROVE [Ledger!LedgerNext]_(Ledger!ledger_vars)
  <2> USE <1>2
  <2>1. ASSUME UNCHANGED <<context_cache, now, in_loop, next_seq>>,
               \A c \in ClientCtxs : IsPending(c) => clients'[c] = clients[c]
        PROVE  UNCHANGED Ledger!ledger_vars
    <3>1. UNCHANGED OpenCalls
      BY <2>1, SameOpenCalls
    <3>2. QED
      BY <2>1, <3>1 DEF Ledger!ledger_vars, OpenCalls
  <2>2. CASE Tick
    BY <2>2 DEF Tick, Idle, Ledger!LedgerNext, Ledger!PassTime
  <2>3. CASE LoopBegin \/ LoopEnd
    BY <2>3 DEF LoopBegin, LoopEnd, Idle, Ledger!LedgerNext, Ledger!SwitchPhase
  <2>4. CASE (\E s \in ServerCtxs : RecvRequest(s)) \/ SetError \/ UNCHANGED vars
    BY <2>1, <2>4 DEF RecvRequest, SetError, vars
  <2>5. CASE UserReturn
    <3>1. /\ frame # NoFrame
          /\ frame.client # NoCtx => clients[frame.client].st = "running"
      BY <2>5 DEF UserReturn, IInv, StackDiscipline
    <3>2. \A c \in ClientCtxs : IsPending(c) => clients'[c] = clients[c]
      BY <2>5, <3>1 DEF UserReturn, IsPending, IInv, TypeOK
    <3>3. QED
      BY <2>1, <2>5, <3>2 DEF UserReturn
  <2>6. ASSUME NEW c \in ClientCtxs, NEW timeout \in Timeouts, NEW style \in Styles,
               NEW seq \in {next_seq} \cup DOMAIN context_cache,
               Rpc(c, seq, timeout, style)
        PROVE  [Ledger!LedgerNext]_(Ledger!ledger_vars)
    BY <2>6, RpcIssues
  <2>7. ASSUME NEW seq \in DOMAIN context_cache, NEW ret \in RetCodes, NEW m \in BOOLEAN,
               RecvResponse(seq, ret, m)
        PROVE  Ledger!LedgerNext
    <3>1. seq \in SeqIds
      BY DEF IInv, TypeOK
    <3>2. QED
      BY <2>7, <3>1, ResponseAnswers DEF Ledger!LedgerNext
  <2>8. ASSUME NEW t \in tq.timer_queue, Fire(t)
        PROVE  [Ledger!LedgerNext]_(Ledger!ledger_vars)
    <3>1. CASE t.task \in DOMAIN context_cache
      <4>1. t.task \in SeqIds
        BY <3>1 DEF IInv, TypeOK
      <4>2. QED
        BY <2>8, <3>1, <4>1, FireExpires DEF Ledger!LedgerNext
    <3>2. CASE t.task \notin DOMAIN context_cache
      BY <2>1, <2>8, <3>2 DEF Fire, TimerFires
    <3>3. QED
      BY <3>1, <3>2
  <2>9. QED
    BY <2>2, <2>3, <2>4, <2>5, <2>6, <2>7, <2>8 DEF Next
<1>3. QED
  BY <1>1, <1>2, Invariance, PTL DEF Spec, ImplementsLedger, Ledger!LedgerSpec

------------------------------------------------------------------------------
\* The stopping server, on top of the invariant of RpcContext.
StopInv ==
  /\ stop \in BOOLEAN
  /\ queued \subseteq ServerCtxs
  /\ exited \in BOOLEAN
  /\ scheduler \in {"none", "running", "stopped"}
  /\ scheduler = "none" => queued = {}
  /\ exited => SvrStopReady /\ frame = NoFrame

CoreInv == IInv /\ StopInv

\* A step of the core is one of RpcContext, or a stuttering step of it.
LEMMA CoreStepsAreSteps == [CoreNext]_coreVars => [Next]_vars
<1> SUFFICES ASSUME [CoreNext]_coreVars PROVE [Next]_vars
  OBVIOUS
<1>1. CASE UNCHANGED coreVars
  BY <1>1 DEF coreVars, vars
<1>2. CASE CoreStep
  BY <1>2 DEF CoreStep, Next
<1>3. ASSUME NEW s \in ServerCtxs, CoreRequest(s) PROVE [Next]_vars
  BY <1>3 DEF CoreRequest, Next
<1>4. ASSUME NEW s \in ServerCtxs, CoreSchedule(s) PROVE [Next]_vars
  BY <1>4 DEF CoreSchedule, Next
<1>5. ASSUME NEW seq \in DOMAIN context_cache, NEW ret \in RetCodes, NEW m \in BOOLEAN,
             CoreResponse(seq, ret, m)
      PROVE  [Next]_vars
  BY <1>5 DEF CoreResponse, Next
<1>6. CASE SetScheduler \/ SvrNtfQuit \/ Exit
  BY <1>6 DEF SetScheduler, SvrNtfQuit, Exit
<1>7. QED
  BY <1>1, <1>2, <1>3, <1>4, <1>5, <1>6 DEF CoreNext

\* SvrNtfQuit, Exit and the scheduler keep their own part of the invariant.
LEMMA StopInvStep == CoreInv /\ [CoreNext]_coreVars => StopInv'
<1> SUFFICES ASSUME CoreInv, [CoreNext]_coreVars PROVE StopInv'
  OBVIOUS
<1> USE DEF CoreInv, StopInv
<1>1. CASE UNCHANGED coreVars
  BY <1>1 DEF coreVars, SvrStopReady, PendingContexts
<1>2. ASSUME ~exited, UNCHANGED serverVars PROVE StopInv'
  BY <1>2 DEF serverVars
<1>3. CASE ~exited /\ CoreStep
  BY <1>2, <1>3 DEF CoreStep
<1>4. ASSUME ~exited, NEW s \in ServerCtxs, CoreRequest(s) PROVE StopInv'
  BY <1>4 DEF CoreRequest
<1>5. ASSUME ~exited, NEW s \in ServerCtxs, CoreSchedule(s) PROVE StopInv'
  BY <1>5 DEF CoreSchedule
<1>6. ASSUME ~exited, NEW seq \in DOMAIN context_cache, NEW ret \in RetCodes,
             NEW m \in BOOLEAN, CoreResponse(seq, ret, m)
      PROVE  StopInv'
  BY <1>2, <1>6 DEF CoreResponse
<1>7. CASE ~exited /\ (SvrNtfQuit \/ SetScheduler)
  <2>1. CASE SvrNtfQuit
    BY <1>7, <2>1 DEF SvrNtfQuit
  <2>2. CASE SetScheduler
    BY <1>7, <2>2 DEF SetScheduler
  <2>3. QED
    BY <1>7, <2>1, <2>2
<1>8. CASE ~exited /\ Exit
  BY <1>8 DEF Exit, Idle, vars, SvrStopReady, PendingContexts
<1>9. QED
  BY <1>1, <1>3, <1>4, <1>5, <1>6, <1>7, <1>8 DEF CoreNext

\* The invariant of RpcContext and StopInv hold in every state.
LEMMA CoreInvariance == IdSpace =< CtxTimerIdSpace /\ CoreSpec => []CoreInv
<1> SUFFICES ASSUME IdSpace =< CtxTimerIdSpace PROVE CoreSpec => []CoreInv
  OBVIOUS
<1>1. CoreInit => CoreInv
  BY RpcInit DEF CoreInit, CoreInv, StopInv
<1>2. CoreInv /\ [CoreNext]_coreVars => CoreInv'
  <2> SUFFICES ASSUME CoreInv, [CoreNext]_coreVars PROVE CoreInv'
    OBVIOUS
  <2>1. IInv'
    BY CoreStepsAreSteps, NextInv DEF CoreInv
  <2>2. QED
    BY <2>1, StopInvStep DEF CoreInv
<1>3. QED
  BY <1>1, <1>2, PTL DEF CoreSpec

\* When the server has left its main loop, no request is half done and no call
\* is parked, with and without a scheduler (SvrStopReady).
THEOREM NobodyIsLeftWaiting ==
  IdSpace =< CtxTimerIdSpace /\ CoreSpec => [](CoreTypeOK /\ ExitIsClean)
<1>1. ASSUME CoreInv PROVE CoreTypeOK
  BY <1>1 DEF CoreInv, IInv, StopInv, CoreTypeOK
<1>2. ASSUME CoreInv, exited PROVE ExitIsClean
  <2>1. /\ DOMAIN context_cache = {}
        /\ frame = NoFrame
    BY <1>2 DEF CoreInv, StopInv, SvrStopReady, PendingContexts
  <2>2. \A c \in ClientCtxs : ~IsPending(c)
    BY <1>2, <2>1 DEF CoreInv, IInv, CacheHoldsPending
  <2>3. frame.server \notin ServerCtxs
    BY <2>1, ContextAssumption DEF NoFrame
  <2>4. \A s \in ServerCtxs : servers[s].st # "live"
    BY <1>2, <2>2, <2>3 DEF CoreInv, IInv, NoStrandedRequest
  <2>5. curr = NoCtx
    BY <1>2, <2>3 DEF CoreInv, IInv, TypeOK, CurrentIsServed
  <2>6. QED
    BY <2>2, <2>4, <2>5 DEF ExitIsClean
<1>3. CoreInv => CoreTypeOK /\ ExitIsClean
  BY <1>1, <1>2 DEF ExitIsClean
<1>4. QED
  BY <1>3, CoreInvariance, PTL

\* Without a scheduler, "safe to exit" stays true until the exit (SvrProc
\* receives nothing once stop_ is set).
THEOREM SafeToExitIsStable ==
  IdSpace =< CtxTimerIdSpace /\ CoreSpec => ReadyIsStable
<1> DEFINE Ready == SvrStopReady /\ frame = NoFrame
<1> SUFFICES ASSUME IdSpace =< CtxTimerIdSpace PROVE CoreSpec => ReadyIsStable
  OBVIOUS
<1>1. ASSUME CoreInv, CoreNext, Ready, scheduler = "none" PROVE Ready'
  <2>1. stop /\ DOMAIN context_cache = {} /\ frame = NoFrame /\ queued = {}
    BY <1>1 DEF SvrStopReady, PendingContexts, CoreInv, StopInv
  <2>2. ASSUME UNCHANGED <<stop, context_cache, frame>> PROVE Ready'
    BY <1>1, <2>2 DEF SvrStopReady, PendingContexts
  <2>3. CASE CoreStep
    <3>1. CASE Tick \/ LoopBegin \/ LoopEnd
      BY <2>2, <2>3, <3>1 DEF Tick, LoopBegin, LoopEnd, CoreStep, serverVars
    <3>2. ASSUME NEW t \in tq.timer_queue, Fire(t) PROVE Ready'
      BY <2>1, <2>2, <2>3, <3>2 DEF Fire, TimerFires, CoreStep, serverVars
    <3>3. QED
      BY <2>1, <2>3, <3>1, <3>2 DEF CoreStep, SetError, Rpc, UserReturn
  <2>4. CASE SvrNtfQuit \/ Exit \/ SetScheduler
    BY <2>1, <2>2, <2>4 DEF SvrNtfQuit, Exit, SetScheduler, vars
  <2>5. QED
    BY <1>1, <2>1, <2>3, <2>4 DEF CoreNext, CoreRequest, Receives, CoreSchedule
<1>2. CoreInv /\ [CoreNext]_coreVars =>
        [SvrStopReady /\ frame = NoFrame /\ scheduler = "none"
           => SvrStopReady' /\ frame' = NoFrame]_coreVars
  BY <1>1
<1>3. QED
  BY <1>2, CoreInvariance, PTL DEF CoreSpec, ReadyIsStable
=============================================================================
