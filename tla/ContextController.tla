-------------------------- MODULE ContextController --------------------------
(***************************************************************************)
(* ua::ContextController (core/context_controller.{h,cpp}) and the context *)
(* objects it parks and wakes (core/context.h, core/context_mgr.h).        *)
(*                                                                         *)
(* A request being served has a ServerContext; every call it makes to      *)
(* another service has a ClientContext.  Pending parks a client context    *)
(* under its seq_id and arms a timer; Awake takes it out again, either for *)
(* a response or for the timer, and Run then calls its callback.  In the   *)
(* asynchronous mode the callback goes back into user code on behalf of    *)
(* the server context; in coroutine mode Pending yields the coroutine that *)
(* serves the request and the wake-up resumes it.                          *)
(*                                                                         *)
(* The program is single threaded.  frame is what is on the stack of the   *)
(* main loop: nothing, or user code working for one server context.        *)
(***************************************************************************)
EXTENDS TimeoutQueue

CONSTANTS
  ServerCtxs,          \* ServerContext objects (each used for one request)
  ClientCtxs,          \* ClientContext objects (each used for one call)
  NoCtx,               \* the null pointer
  UseCoroutine,        \* use_coroutine_: Init was given an ICoroutine
  CtxTimerIdSpace,     \* width of ClientContext::timer_id: 2^32 in the code
  Styles,              \* does a call carry a callback: "plain", "callback"
  RetCodes             \* the return codes a peer may put in a response

\* A timer's task is the lambda of Pending; all it captures is the seq_id.
SeqIds == Tasks

ASSUME ContextAssumption ==
  /\ SeqIds \subseteq Nat \ {0}
  /\ NoCtx \notin ServerCtxs /\ NoCtx \notin ClientCtxs
  /\ UseCoroutine \in BOOLEAN
  /\ CtxTimerIdSpace \in Nat \ {0}
  /\ Styles \subseteq {"plain", "callback"}
  /\ RetCodes \subseteq {"ok", "sys_err", "time_out"}

VARIABLES
  tq,              \* timeout_queue_
  context_cache,   \* context_cache_: seq_id -> parked client context
  clients,         \* the client contexts
  servers,         \* the server contexts
  curr,            \* ContextMgr::curr_context_
  frame            \* the user code on the stack, or NoFrame

NoFrame == [server |-> NoCtx, client |-> NoCtx]

\* A client context that has not been created yet.
NewClient == [st |-> "none", seq |-> 0, timer_id |-> 0, server |-> NoCtx,
              ret_code |-> "ok", deadline |-> 0, style |-> "plain"]

\* What is left of one after its delete, or after its stack frame is gone.
DeletedClient == [NewClient EXCEPT !.st = "deleted"]

NewServer == [st |-> "none", to_be_continue |-> FALSE, ret_code |-> 0]

ControllerInit ==
  /\ tq = EmptyQueue
  /\ context_cache = [s \in {} |-> NoCtx]
  /\ clients = [c \in ClientCtxs |-> NewClient]
  /\ servers = [s \in ServerCtxs |-> NewServer]
  /\ curr = NoCtx
  /\ frame = NoFrame

\* Mutant: the flag is read the wrong way round.
IsFinish_Inverted(s) == servers[s].ret_code # 0 \/ servers[s].to_be_continue

\* ServerContext::IsFinish.
IsFinish(s) == servers[s].ret_code # 0 \/ ~servers[s].to_be_continue

\* Pending, when the timer cannot be added: the id counter has moved.
PendingNoTimer(seq, expire) ==
  /\ AddResult(tq, expire) = 0
  /\ tq' = Add(tq, seq, expire, 0)
  /\ UNCHANGED <<context_cache, clients, servers, curr, frame>>

\* Mutants: the timer just added is left armed; the parked call's is cancelled.
PendingDuplicate_KeepsTimer(seq, expire) ==
  /\ AddResult(tq, expire) # 0
  /\ seq \in DOMAIN context_cache
  /\ tq' = Add(tq, seq, expire, 0)
  /\ UNCHANGED <<context_cache, clients, servers, curr, frame>>

PendingDuplicate_CancelsParked(seq, expire) ==
  /\ AddResult(tq, expire) # 0
  /\ seq \in DOMAIN context_cache
  /\ tq' = Cancel(Add(tq, seq, expire, 0), clients[context_cache[seq]].timer_id)
  /\ UNCHANGED <<context_cache, clients, servers, curr, frame>>

\* Pending, when the seq_id is taken: the timer just added is cancelled.
PendingDuplicate(seq, expire) ==
  /\ AddResult(tq, expire) # 0
  /\ seq \in DOMAIN context_cache
  /\ tq' = Cancel(Add(tq, seq, expire, 0), AddResult(tq, expire))
  /\ UNCHANGED <<context_cache, clients, servers, curr, frame>>

\* In coroutine mode the coroutine yields (the frame leaves the stack);
\* otherwise user code goes on, without a current context.
Yields ==
  IF UseCoroutine
  THEN frame' = NoFrame /\ UNCHANGED servers
  ELSE /\ servers' = [servers EXCEPT ![curr].to_be_continue = TRUE]
       /\ UNCHANGED frame

\* Mutant: the context stays current.
GiveUpCurrent_KeepsCurr == Yields /\ UNCHANGED curr

GiveUpCurrent == curr' = NoCtx /\ Yields

\* Pending, when it parks the context.  ClientContext's constructor took the
\* current server context; its timer_id is narrower than the timer's id.
PendingParks(c, seq, expire, style) ==
  /\ AddResult(tq, expire) # 0
  /\ seq \notin DOMAIN context_cache
  /\ tq' = Add(tq, seq, expire, 0)
  /\ context_cache' = Bind(context_cache, seq, c)
  /\ clients' = [clients EXCEPT ![c] =
                   [st |-> "pending", seq |-> seq,
                    timer_id |-> AddResult(tq, expire) % CtxTimerIdSpace,
                    server |-> curr, ret_code |-> "ok",
                    deadline |-> expire, style |-> style]]
  /\ GiveUpCurrent

Pending(c, seq, expire, style) ==
  \/ PendingNoTimer(seq, expire)
  \/ PendingDuplicate(seq, expire)
  \/ PendingParks(c, seq, expire, style)

\* Awake's effect on the timers: a wake-up that says "timed out" leaves the
\* timer alone, because it normally comes from that timer.
AwakeTimers(q, c, ret) ==
  IF ret # "time_out" THEN Cancel(q, clients[c].timer_id) ELSE q

\* The server context becomes current again and no longer waits.  The first
\* definition is a mutant: it still waits.
ResumeServer_StillContinues(s) == curr' = s /\ UNCHANGED servers

ResumeServer(s) ==
  /\ curr' = s
  /\ IF UseCoroutine
     THEN UNCHANGED servers
     ELSE servers' = [servers EXCEPT ![s].to_be_continue = FALSE]

\* ClientContext::Run after Awake gave it delivered as its ret_code.
\* Asynchronous mode: the server context becomes current and the callback is
\* user code working for it; the context is recycled when the callback returns.
\* Coroutine mode: the callback, if there is one, runs to its end, and the
\* recycle function is the resumption of the coroutine, which Pending installs
\* in place of the caller's.  A call without a callback keeps its context on
\* the coroutine's stack, so resuming disposes of it.
RunClient(c, delivered) ==
  LET s == clients[c].server
      woken == [clients[c] EXCEPT !.timer_id = 0, !.ret_code = delivered]
  IN  /\ clients' = [clients EXCEPT ![c] =
                       IF ~UseCoroutine THEN [woken EXCEPT !.st = "running"]
                       ELSE IF woken.style = "callback" THEN [woken EXCEPT !.st = "done"]
                       ELSE DeletedClient]
      /\ frame' = [server |-> s, client |-> IF UseCoroutine THEN NoCtx ELSE c]
      /\ ResumeServer(s)

\* Mutant: Awake leaves the context in the cache.
AwakeAndRun_KeepsCache(q, seq, ret, delivered) ==
  LET c == context_cache[seq]
  IN  /\ UNCHANGED context_cache
      /\ tq' = AwakeTimers(q, c, ret)
      /\ RunClient(c, delivered)

\* Awake for seq with the code ret, from queue q, followed by Run.  The caller
\* may correct the code in between; delivered is what the callback sees.
AwakeAndRun(q, seq, ret, delivered) ==
  LET c == context_cache[seq]
  IN  /\ context_cache' = Unbind(context_cache, seq)
      /\ tq' = AwakeTimers(q, c, ret)
      /\ RunClient(c, delivered)

\* ProcTimeOut: one iteration of TimeOut.  The task wakes the context its
\* seq_id leads to, if it is still parked.
TimerFires(t, now) ==
  /\ IsFirst(tq, t)
  /\ Expired(t, now)
  /\ IF t.task \in DOMAIN context_cache
     THEN AwakeAndRun(TakeFirst(tq, t), t.task, "time_out", "time_out")
     ELSE /\ tq' = TakeFirst(tq, t)
          /\ UNCHANGED <<context_cache, clients, servers, curr, frame>>

PendingContexts == DOMAIN context_cache
=============================================================================
