------------------------------ MODULE ServerCore ------------------------------
(***************************************************************************)
(* How a server stops (core/server_core.cpp), on top of the requests and   *)
(* calls of RpcContext.  SvrNtfQuit sets stop_; SvrProc then receives no   *)
(* more packets, answers to outstanding calls included, unless there is a  *)
(* request scheduler; SvrStopReady says when the frame work may leave the  *)
(* main loop.                                                              *)
(*                                                                         *)
(* A scheduler (core/interface/scheduler_interface.h) holds the requests   *)
(* OnRequest accepted until LoopOnce hands them over; one that has been    *)
(* told to stop accepts no more.  SetScheduler installs one, at any time.  *)
(***************************************************************************)
EXTENDS RpcContext

VARIABLES
  stop,        \* stop_
  scheduler,   \* req_scheduler_: "none", "running", or "stopped" (its own stop_)
  queued,      \* the requests the scheduler holds, named by their contexts
  exited       \* the frame work has left the main loop

serverVars == <<stop, scheduler, queued, exited>>
coreVars == <<tq, context_cache, clients, servers, curr, frame, now, in_loop, next_seq,
              stop, scheduler, queued, exited>>

CoreInit ==
  /\ Init
  /\ stop = FALSE
  /\ scheduler = "none"
  /\ queued = {}
  /\ exited = FALSE

\* Mutant: the loop goes on receiving while it stops.
Receives_Always == TRUE

\* SvrProc calls the channel's Loop.
Receives == scheduler # "none" \/ ~stop

\* At most one scheduler is ever installed, and a new one is not told of stop_.
SetScheduler ==
  /\ Idle
  /\ scheduler = "none"
  /\ scheduler' = "running"
  /\ UNCHANGED <<stop, queued, exited>> /\ UNCHANGED vars

\* A request packet: without a scheduler it is dealt with at once.
CoreRequest(s) ==
  /\ Receives
  /\ s \notin queued
  /\ \/ /\ scheduler = "running"
        /\ Idle
        /\ servers[s].st = "none"
        /\ queued' = queued \cup {s}
        /\ UNCHANGED vars
     \/ /\ scheduler = "none"
        /\ RecvRequest(s)
        /\ UNCHANGED queued
  /\ UNCHANGED <<stop, scheduler, exited>>

\* LoopOnce hands a request over.
CoreSchedule(s) ==
  /\ s \in queued
  /\ queued' = queued \ {s}
  /\ RecvRequest(s)
  /\ UNCHANGED <<stop, scheduler, exited>>

CoreResponse(seq, ret, cmd_matches) ==
  /\ Receives
  /\ RecvResponse(seq, ret, cmd_matches)
  /\ UNCHANGED serverVars

\* The frame work notifies the server between two rounds.
SvrNtfQuit ==
  /\ Idle
  /\ ~stop
  /\ stop' = TRUE
  /\ scheduler' = IF scheduler = "none" THEN "none" ELSE "stopped"
  /\ UNCHANGED <<queued, exited>> /\ UNCHANGED vars

\* Mutant: the parked calls are not looked at.
SvrStopReady_Pending == stop

SvrStopReady == stop /\ PendingContexts = {}

\* The frame work leaves the main loop.
Exit ==
  /\ Idle
  /\ SvrStopReady
  /\ exited' = TRUE
  /\ UNCHANGED <<stop, scheduler, queued>> /\ UNCHANGED vars

\* User code, time, and phase 0 of SvrProc, which stop_ does not affect.
CoreStep ==
  /\ \/ Tick
     \/ SetError
     \/ \E c \in ClientCtxs, timeout \in Timeouts, style \in Styles :
          \E seq \in {next_seq} \cup DOMAIN context_cache : Rpc(c, seq, timeout, style)
     \/ UserReturn
     \/ LoopBegin
     \/ \E t \in tq.timer_queue : Fire(t)
     \/ LoopEnd
  /\ UNCHANGED serverVars

CoreNext ==
  /\ ~exited
  /\ \/ CoreStep
     \/ \E s \in ServerCtxs : CoreRequest(s)
     \/ \E s \in ServerCtxs : CoreSchedule(s)
     \/ \E seq \in DOMAIN context_cache, ret \in RetCodes, m \in BOOLEAN :
          CoreResponse(seq, ret, m)
     \/ SetScheduler
     \/ SvrNtfQuit
     \/ Exit

CoreSpec == CoreInit /\ [][CoreNext]_coreVars

\* The main loop goes round, TimeOut iterates, user code returns, time goes by
\* between rounds, a scheduler gets to its requests, and the frame work asks
\* SvrStopReady in every round.  No peer has to answer, no request to arrive.
CoreFairness ==
  /\ SF_coreVars(~exited /\ Tick /\ UNCHANGED serverVars)
  /\ SF_coreVars(~exited /\ LoopBegin /\ UNCHANGED serverVars)
  /\ WF_coreVars(~exited /\ (\E t \in tq.timer_queue : Fire(t)) /\ UNCHANGED serverVars)
  /\ WF_coreVars(~exited /\ LoopEnd /\ UNCHANGED serverVars)
  /\ WF_coreVars(~exited /\ UserReturn /\ UNCHANGED serverVars)
  /\ \A s \in ServerCtxs : SF_coreVars(~exited /\ CoreSchedule(s))
  /\ SF_coreVars(~exited /\ Exit)

CoreFairSpec == CoreSpec /\ CoreFairness

-----------------------------------------------------------------------------
CoreTypeOK ==
  /\ TypeOK
  /\ stop \in BOOLEAN
  /\ scheduler \in {"none", "running", "stopped"}
  /\ queued \subseteq ServerCtxs
  /\ exited \in BOOLEAN

\* SvrStopReady looks at the parked calls alone, and that is enough: when the
\* server exits no request is half done and nobody waits for an answer.
ExitIsClean ==
  exited => /\ \A s \in ServerCtxs : servers[s].st # "live"
            /\ \A c \in ClientCtxs : ~IsPending(c)
            /\ curr = NoCtx

\* "Safe to exit" (server_core.h:99) stays true: without a scheduler, the rounds
\* of the main loop between SvrStopReady and the exit begin nothing, although
\* timers of earlier calls may still fire in them.
ReadyIsStable ==
  [][SvrStopReady /\ frame = NoFrame /\ scheduler = "none"
       => SvrStopReady' /\ frame' = NoFrame]_coreVars

\* A server that is told to quit does exit, although no call is answered any
\* more: the calls time out, and the requests finish.
QuitDrains == stop ~> exited
=============================================================================
