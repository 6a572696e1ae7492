----------------------------- MODULE RpcContext -----------------------------
(***************************************************************************)
(* The life of requests and of the calls they make: PBService's Rpc,       *)
(* DealRequest, DealMethod, MethodFinish and DealResponse                  *)
(* (pb/pb_service.cpp) on top of the ContextController, driven by the      *)
(* phases of ServerCore::SvrProc: first the timed-out contexts, then the   *)
(* packets of the channel.                                                 *)
(*                                                                         *)
(* User code (a service method, or a callback of an asynchronous call) is  *)
(* on the stack while frame # NoFrame.  It issues calls, sets an error     *)
(* code, and returns.  What the code expects of it is in three guards:     *)
(*   Rpc needs a current server context (Pending asserts it), so an        *)
(*     asynchronous handler has one outstanding call at a time;            *)
(*   in the asynchronous mode a handler does not both set an error code    *)
(*     and leave a call outstanding (IsFinish would delete the context     *)
(*     while the call still points to it);                                 *)
(*   in coroutine mode a callback makes no calls (it runs outside any      *)
(*     coroutine, which Pending asserts), so it is not a frame.            *)
(* The network may answer any call that was ever issued, late, several     *)
(* times or never; such a response needs no message variable.              *)
(***************************************************************************)
EXTENDS ContextController

CONSTANTS
  Timeouts,       \* the timeouts calls are made with
  MaxTime         \* bound: calls whose deadline is later are not made

ASSUME RpcAssumption == Timeouts \subseteq Nat /\ MaxTime \in Nat

VARIABLES
  now,            \* Clock and the now_ms of SvrProc, updated together
  in_loop,        \* ProcTimeOut is on the stack
  next_seq        \* IDGenerator's counter

vars == <<tq, context_cache, clients, servers, curr, frame, now, in_loop, next_seq>>

Init ==
  /\ ControllerInit
  /\ now = 0
  /\ in_loop = FALSE
  /\ next_seq = 1

Idle == ~in_loop /\ frame = NoFrame

\* The frame work updates the clock between two rounds of SvrProc.
Tick ==
  /\ Idle
  /\ now < MaxTime
  /\ now' = now + 1
  /\ UNCHANGED <<tq, context_cache, clients, servers, curr, frame, in_loop, next_seq>>

\* DealRequest and DealMethod: a request packet gets a context, which is
\* current while its method runs.
RecvRequest(s) ==
  /\ Idle
  /\ servers[s].st = "none"
  /\ servers' = [servers EXCEPT ![s].st = "live"]
  /\ curr' = s
  /\ frame' = [server |-> s, client |-> NoCtx]
  /\ UNCHANGED <<tq, context_cache, clients, now, in_loop, next_seq>>

\* User code sets the error code of the request it serves.
SetError ==
  /\ frame # NoFrame
  /\ UseCoroutine \/ ~servers[frame.server].to_be_continue
  /\ servers' = [servers EXCEPT ![frame.server].ret_code = 1]
  /\ UNCHANGED <<tq, context_cache, clients, curr, frame, now, in_loop, next_seq>>

\* Rpc with a response expected, once its packet has been sent: a fresh
\* seq_id, a client context, Pending.  Other callers of Pending bring a seq_id
\* of their own, which may be that of a parked call.
Rpc(c, seq, timeout, style) ==
  /\ frame # NoFrame
  /\ curr # NoCtx
  /\ UseCoroutine \/ servers[curr].ret_code = 0
  /\ clients[c].st = "none"
  /\ now + timeout <= MaxTime
  /\ next_seq \in SeqIds
  /\ \/ seq = next_seq /\ next_seq' = next_seq + 1
     \/ seq \in DOMAIN context_cache /\ UNCHANGED next_seq
  /\ Pending(c, seq, now + timeout, style)
  /\ UNCHANGED <<now, in_loop>>

\* Mutant: the recycle function is lost.
UserReturn_NoRecycle ==
  /\ frame # NoFrame
  /\ frame' = NoFrame
  /\ IF IsFinish(frame.server)
     THEN servers' = [servers EXCEPT ![frame.server].st = "deleted"] /\ curr' = NoCtx
     ELSE UNCHANGED <<servers, curr>>
  /\ UNCHANGED <<tq, context_cache, clients, now, in_loop, next_seq>>

\* User code returns.  The end of DealMethod or of the asynchronous callback:
\* a finished request is answered and deleted (MethodFinish and the recycle
\* function); a client context whose callback has run is deleted.
UserReturn ==
  /\ frame # NoFrame
  /\ frame' = NoFrame
  /\ IF IsFinish(frame.server)
     THEN servers' = [servers EXCEPT ![frame.server].st = "deleted"] /\ curr' = NoCtx
     ELSE UNCHANGED <<servers, curr>>
  /\ clients' = IF frame.client = NoCtx THEN clients
                ELSE [clients EXCEPT ![frame.client] = DeletedClient]
  /\ UNCHANGED <<tq, context_cache, now, in_loop, next_seq>>

\* DealResponse for a seq_id that is parked (for any other it does nothing).
\* A response whose cmd is not the call's is delivered as a system error.
RecvResponse(seq, ret, cmd_matches) ==
  /\ Idle
  /\ seq \in DOMAIN context_cache
  /\ AwakeAndRun(tq, seq, ret, IF cmd_matches THEN ret ELSE "sys_err")
  /\ UNCHANGED <<now, in_loop, next_seq>>

\* Phase 0 of SvrProc: ContextController::ProcTimeOut(now_ms).
LoopBegin ==
  /\ Idle
  /\ in_loop' = TRUE
  /\ UNCHANGED <<tq, context_cache, clients, servers, curr, frame, now, next_seq>>

Fire(t) ==
  /\ in_loop /\ frame = NoFrame
  /\ TimerFires(t, now)
  /\ UNCHANGED <<now, in_loop, next_seq>>

LoopEnd ==
  /\ in_loop /\ frame = NoFrame
  /\ ~\E t \in tq.timer_queue : IsFirst(tq, t) /\ Expired(t, now)
  /\ in_loop' = FALSE
  /\ UNCHANGED <<tq, context_cache, clients, servers, curr, frame, now, next_seq>>

Next ==
  \/ Tick
  \/ \E s \in ServerCtxs : RecvRequest(s)
  \/ SetError
  \/ \E c \in ClientCtxs, timeout \in Timeouts, style \in Styles :
       \E seq \in {next_seq} \cup DOMAIN context_cache : Rpc(c, seq, timeout, style)
  \/ UserReturn
  \/ \E seq \in DOMAIN context_cache, ret \in RetCodes, m \in BOOLEAN :
       RecvResponse(seq, ret, m)
  \/ LoopBegin
  \/ \E t \in tq.timer_queue : Fire(t)
  \/ LoopEnd

Spec == Init /\ [][Next]_vars

-----------------------------------------------------------------------------
Client == [st : {"none", "pending", "running", "done", "deleted"},
           seq : SeqIds \cup {0}, timer_id : Nat, server : ServerCtxs \cup {NoCtx},
           ret_code : {"ok", "sys_err", "time_out"}, deadline : Nat,
           style : {"plain", "callback"}]

Server == [st : {"none", "live", "deleted"}, to_be_continue : BOOLEAN, ret_code : {0, 1}]

TypeOK ==
  /\ IsTimeoutQueue(tq)
  /\ DOMAIN context_cache \subseteq SeqIds
  /\ context_cache \in [DOMAIN context_cache -> ClientCtxs]
  /\ clients \in [ClientCtxs -> Client]
  /\ servers \in [ServerCtxs -> Server]
  /\ curr \in ServerCtxs \cup {NoCtx}
  /\ frame \in [server : ServerCtxs, client : ClientCtxs \cup {NoCtx}] \cup {NoFrame}
  /\ now \in Nat
  /\ in_loop \in BOOLEAN
  /\ next_seq \in Nat \ {0}

IsPending(c) == clients[c].st = "pending"

\* The cache and the parked contexts are the same calls: what Awake finds is a
\* live parked context, and every parked context can be found.
CacheHoldsPending ==
  /\ \A seq \in DOMAIN context_cache :
       IsPending(context_cache[seq]) /\ clients[context_cache[seq]].seq = seq
  /\ \A seq \in DOMAIN context_cache : seq < next_seq
  /\ \A c \in ClientCtxs :
       IsPending(c) => /\ clients[c].seq \in DOMAIN context_cache
                       /\ context_cache[clients[c].seq] = c

\* Every parked call has its own timer armed, at its own deadline, and under
\* the id the context remembers: so a call whose answer never comes does time
\* out, and an answer disarms the timer of that call and of no other.
TimeoutArmed ==
  \A c \in ClientCtxs : IsPending(c) =>
    \E t \in tq.timer_queue : /\ t.seq_id = clients[c].timer_id
                              /\ t.task = clients[c].seq
                              /\ t.expire_time = clients[c].deadline

\* A timer that outlives its call (a peer's "timed out" answer leaves it armed)
\* leads to no other call: a timer whose seq_id is parked is that call's own.
TimersFindTheirCall ==
  \A t \in tq.timer_queue :
    /\ t.task < next_seq
    /\ t.interval_time = 0
    /\ t.task \in DOMAIN context_cache =>
         t.seq_id = clients[context_cache[t.task]].timer_id

\* The server context a parked call will come back to still exists and is
\* waiting for exactly that call: the callback never works on a deleted context,
\* and no request is finished with a call outstanding.
AwaitedServerAlive ==
  \A c \in ClientCtxs : IsPending(c) =>
    /\ clients[c].server \in ServerCtxs
    /\ servers[clients[c].server].st = "live"
    /\ ~UseCoroutine => /\ servers[clients[c].server].to_be_continue
                        /\ servers[clients[c].server].ret_code = 0
    /\ \A d \in ClientCtxs : IsPending(d) /\ clients[d].server = clients[c].server => d = c

\* The thread-local current context never outlives the user code it was set
\* for: between requests it is null, and inside user code it is the context of
\* the request being served, so a call is never charged to another request.
CurrentIsServed ==
  curr # NoCtx => /\ frame.server = curr
                  /\ servers[curr].st = "live"
                  /\ \A c \in ClientCtxs : IsPending(c) => clients[c].server # curr

\* No request is stranded: it is being served, or a parked call will bring it
\* back.  Once finished it is gone.
NoStrandedRequest ==
  \A s \in ServerCtxs : servers[s].st = "live" =>
    frame.server = s \/ \E c \in ClientCtxs : IsPending(c) /\ clients[c].server = s

\* Cache, timers and contexts are three views of the same calls, which Pending,
\* Awake and ProcTimeOut change one after the other.
ParkedCallsAreTimed == CacheHoldsPending /\ TimeoutArmed /\ TimersFindTheirCall

\* Every request is in one place: on the stack, or behind the one call that will
\* bring it back to a context that is still alive.
RequestsStayReachable == AwaitedServerAlive /\ CurrentIsServed /\ NoStrandedRequest

\* What is on the stack agrees with the contexts.  User code works for a live
\* request that is either current, with no call outstanding, or (asynchronous
\* mode only) has given up being current for the call it has just made, which
\* is then parked; and a client context is in its callback exactly while that
\* callback is the frame on the stack.
StackDiscipline ==
  /\ \A s \in ServerCtxs : servers[s].st = "none" =>
       ~servers[s].to_be_continue /\ servers[s].ret_code = 0
  /\ UseCoroutine => \A s \in ServerCtxs : ~servers[s].to_be_continue
  /\ frame # NoFrame =>
       /\ servers[frame.server].st = "live"
       /\ \/ curr = frame.server /\ ~servers[frame.server].to_be_continue
          \/ /\ ~UseCoroutine /\ curr = NoCtx
             /\ ~IsFinish(frame.server)
             /\ \E c \in ClientCtxs : IsPending(c) /\ clients[c].server = frame.server
       /\ frame.client # NoCtx => ~UseCoroutine /\ clients[frame.client].st = "running"
  /\ \A c \in ClientCtxs : clients[c].st = "running" => frame.client = c
  /\ ~UseCoroutine => \A c \in ClientCtxs : clients[c].st # "done"

\* Every call that has completed gives its context back: outside user code a
\* client context is parked or gone.
CompletedCallsAreFreed ==
  frame = NoFrame =>
    \A c \in ClientCtxs : clients[c].st \in {"none", "pending", "deleted"}

\* A callback runs at most once, and only for a parked call: whatever comes
\* late or twice, a context goes none, pending, (running,) gone, never back.
CompletesAtMostOnce ==
  [][\A c \in ClientCtxs : clients'[c].st # clients[c].st =>
       \/ clients[c].st = "none" /\ clients'[c].st = "pending"
       \/ clients[c].st = "pending" /\ clients'[c].st \in {"running", "done", "deleted"}
       \/ clients[c].st = "running" /\ clients'[c].st = "deleted"]_vars

\* The runtime implements the abstract ledger of calls: the ids handed out so
\* far have been issued, and the parked contexts are the open calls.
Ledger == INSTANCE CallLedger WITH
  CallIds <- SeqIds,
  Delays <- Timeouts,
  issued <- 1 .. (next_seq - 1),
  open <- [seq \in DOMAIN context_cache |-> clients[context_cache[seq]].deadline],
  clock <- now,
  in_timeouts <- in_loop

ImplementsLedger == Ledger!LedgerSpec

\* Every request finishes, through all the calls its handler chains, and so every
\* parked call completes, although no peer has to answer.
EveryRequestFinishes ==
  \A s \in ServerCtxs : servers[s].st = "live" ~> servers[s].st = "deleted"
=============================================================================
