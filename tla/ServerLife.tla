------------------------------ MODULE ServerLife ------------------------------
(***************************************************************************)
(* The life of a server process, and of the processes that take its place  *)
(* when it crashes or quits: SvrInit, rounds of SvrTick and SvrProc, and   *)
(* SvrFinish (core/server_core.cpp), the systems they call (SystemMgr),    *)
(* and PBService::OnRecv with its memory of the packet in hand             *)
(* (pb/pb_service.cpp), which outlives the process in /dev/shm.  Without a *)
(* pkg_mem_check_key there is no such memory, and a process that cannot    *)
(* map it does without.                                                    *)
(*                                                                         *)
(* A packet stands for its head, for whether it decodes, is a response,    *)
(* and brings the process down when it is dealt with.  The channel is      *)
(* external: it delivers packets in order, and after a crash begins again  *)
(* with the packet that was in hand, or with the one after it.             *)
(***************************************************************************)
EXTENDS SystemMgr

CONSTANTS
  Packets,          \* records: gid, seq_id, cmd_id, decodes, is_rsp, poison
  NoPkg,            \* no packet is in hand
  MaxArrivals,      \* bound: packets that arrive
  MaxFaults         \* bound: kills, failed initialisations and orderly exits

ASSUME NoPkgAssumption == NoPkg \notin Packets

VARIABLES
  phase,            \* what the main loop of the process is doing, or "down"
  scheduler,        \* a request scheduler is installed in every process
  check_key,        \* the pkg_mem_check_key of every process is not 0
  queued,           \* the requests it holds, in the memory of the process
  recv,             \* the packet OnRecv is dealing with
  mapped,           \* this process has the note in its memory
  shm_pkg_head_,    \* the note: the head OnRecv has written down
  channel,          \* packets not yet consumed
  suspects,         \* history: the heads in hand when processes died, since a
                    \* process last finished writing or clearing the note
  torn,             \* history: one of them died while it was at it
  arrivals, faults  \* how many there have been

setUp == <<scheduler, check_key>>
noteVars == <<shm_pkg_head_, suspects, torn>>
netVars == <<queued, recv, mapped, noteVars, channel, arrivals>>
vars == <<mgrVars, phase, setUp, netVars, faults>>

ZeroHead == [gid |-> 0, seq_id |-> 0, cmd_id |-> 0]
HeadOf(p) == [gid |-> p.gid, seq_id |-> p.seq_id, cmd_id |-> p.cmd_id]

\* A note is three stores, which the compiler orders as it likes: what is left
\* when some of them are missing has each of its fields from one of the heads.
Blend(heads) ==
  [gid : {h.gid : h \in heads}, seq_id : {h.seq_id : h \in heads}, cmd_id : {h.cmd_id : h \in heads}]

Init ==
  /\ MgrInit
  /\ phase = "down"
  /\ scheduler \in BOOLEAN /\ check_key \in BOOLEAN
  /\ queued = <<>> /\ recv = NoPkg
  /\ mapped = FALSE /\ shm_pkg_head_ = ZeroHead
  /\ suspects = {} /\ torn = FALSE
  /\ channel = <<>> /\ arrivals = 0 /\ faults = 0

Fault == faults < MaxFaults /\ faults' = faults + 1

\* The channel is looked at in rounds only; packets are put there in between.
Arrive(p) ==
  /\ phase \in {"down", "idle"}
  /\ arrivals < MaxArrivals /\ arrivals' = arrivals + 1
  /\ channel' = Append(channel, p)
  /\ UNCHANGED <<mgrVars, phase, setUp, queued, recv, mapped, noteVars, faults>>

------------------------------------------------------------------------------
\* The process and all its memory are gone.
Dies ==
  /\ phase' = "down"
  /\ systems_' = {} /\ sys_index_vec_' = [p \in Priorities |-> <<>>]
  /\ pass' = NoPass /\ inited' = {} /\ late' = {}
  /\ queued' = <<>> /\ recv' = NoPkg /\ mapped' = FALSE
  /\ UNCHANGED <<setUp, arrivals>>

\* Mutant: every process begins with a clean note.
RegisterPkgMem_Resets ==
  /\ shm_pkg_head_' = ZeroHead /\ mapped' = check_key
  /\ UNCHANGED <<suspects, torn, faults>>

\* The file is there already, and so is what it says; it may not be mapped.
RegisterPkgMem ==
  /\ UNCHANGED noteVars
  /\ \/ mapped' = check_key /\ UNCHANGED faults
     \/ check_key /\ mapped' = FALSE /\ Fault

\* PBService::Init, and SvrInit up to the server's own OnInit.
Start ==
  /\ phase = "down"
  /\ RegisterPkgMem
  /\ phase' = "OnInit"
  /\ UNCHANGED <<mgrVars, setUp, queued, recv, channel, arrivals>>

Enter(op) == phase' = op /\ PassBegins(op) /\ UNCHANGED <<systems_, sys_index_vec_, inited, late>>

OnInitReturns ==
  /\ phase = "OnInit" /\ pass = NoPass
  /\ Enter("OnInit")
  /\ UNCHANGED <<setUp, netVars, faults>>

\* Mutant: a system that cannot be initialised is passed over.
SystemInitFails_PassedOver ==
  /\ CallFails /\ Fault
  /\ pass' = [pass EXCEPT !.index = @ + 1]
  /\ UNCHANGED <<systems_, sys_index_vec_, inited, late, phase, setUp, netVars>>

\* The first system that cannot be initialised ends SvrInit, and the process.
SystemInitFails ==
  /\ CallFails /\ Fault
  /\ Dies
  /\ UNCHANGED <<noteVars, channel>>

CustomInitFails ==
  /\ phase = "OnInit" /\ pass = NoPass /\ Fault
  /\ Dies
  /\ UNCHANGED <<noteVars, channel>>

SvrTick == phase = "idle" /\ Enter("OnTick") /\ UNCHANGED <<setUp, netVars, faults>>
SvrProc == phase = "idle" /\ Enter("OnProc") /\ UNCHANGED <<setUp, netVars, faults>>
SvrFinish == phase = "idle" /\ Fault /\ Enter("OnFinish") /\ UNCHANGED <<setUp, netVars>>

PassStep == (NextPriority \/ Call) /\ UNCHANGED <<phase, setUp, netVars, faults>>

\* What follows SystemInit, SystemTick and SystemProc in their callers.
PassReturns ==
  /\ PassEnds /\ pass.op # "OnFinish"
  /\ pass' = NoPass
  /\ phase' = IF pass.op = "OnProc" THEN "LoopOnce" ELSE "idle"
  /\ UNCHANGED <<systems_, sys_index_vec_, inited, late, setUp, netVars, faults>>

Exit ==
  /\ PassEnds /\ pass.op = "OnFinish"
  /\ Dies
  /\ UNCHANGED <<noteVars, channel, faults>>

\* Code of the server or of a system registers and removes systems.
UserCodeRuns ==
  \/ phase = "idle"
  \/ phase = "OnInit" /\ pass = NoPass
  \/ pass # NoPass /\ pass.index > 0

UserCode ==
  /\ UserCodeRuns
  /\ \E s \in Systems :
       \/ RemoveSystem(s)
       \/ \E p \in Priorities : AddSystem(s, p, phase # "OnInit")
  /\ UNCHANGED <<phase, setUp, netVars, faults>>

------------------------------------------------------------------------------
(***************************************************************************)
(* Packets.  A poison packet crashes the process where it is dealt with:   *)
(* in OnRecv, or, for a request that has gone through the scheduler, in    *)
(* LoopOnce, when OnRecv has forgotten it.                                 *)
(***************************************************************************)
LoopOnce(i) ==
  /\ phase = "LoopOnce"
  /\ ~queued[i].poison
  /\ queued' = RemoveAt(queued, i)
  /\ UNCHANGED <<mgrVars, phase, setUp, recv, mapped, noteVars, channel, arrivals, faults>>

CrashInLoopOnce(i) ==
  /\ phase = "LoopOnce"
  /\ queued[i].poison
  /\ Dies
  /\ UNCHANGED <<noteVars, channel, faults>>

LoopOnceReturns ==
  /\ phase = "LoopOnce"
  /\ phase' = "Loop"
  /\ UNCHANGED <<mgrVars, setUp, netVars, faults>>

Delivers == phase = "Loop" /\ recv = NoPkg /\ channel # <<>>
Consumed == channel' = Tail(channel)

\* The packet in hand is delivered again, or lost.
DiesInRecv == Dies /\ channel' \in {channel, Tail(channel)}

RecvUndecodable ==
  /\ Delivers /\ ~channel[1].decodes /\ ~channel[1].poison
  /\ Consumed
  /\ UNCHANGED <<mgrVars, phase, setUp, queued, recv, mapped, noteVars, arrivals, faults>>

\* Decode comes before the note.
CrashInDecode ==
  /\ Delivers /\ ~channel[1].decodes /\ channel[1].poison
  /\ DiesInRecv
  /\ UNCHANGED <<noteVars, faults>>

\* CheckPkgMem finds the packet it has noted down, if it can look.
SamePkg(p) == mapped /\ shm_pkg_head_ = HeadOf(p)

\* History: the note is written or cleared to the end.
NoteIsWhole ==
  /\ suspects' = IF mapped THEN {} ELSE suspects
  /\ torn' = (torn /\ ~mapped)

\* Mutant: the note is not cleared.
ClearPkgMem_Forgotten == UNCHANGED shm_pkg_head_ /\ NoteIsWhole

ClearPkgMem ==
  /\ shm_pkg_head_' = IF mapped THEN ZeroHead ELSE shm_pkg_head_
  /\ NoteIsWhole

RecvSkips ==
  /\ Delivers /\ channel[1].decodes
  /\ SamePkg(channel[1])
  /\ ClearPkgMem /\ Consumed
  /\ UNCHANGED <<mgrVars, phase, setUp, queued, recv, mapped, arrivals, faults>>

\* CheckPkgMem notes the packet down, and OnRecv goes on with it.
RecvBegins ==
  /\ Delivers /\ channel[1].decodes
  /\ ~SamePkg(channel[1])
  /\ recv' = channel[1]
  /\ shm_pkg_head_' = IF mapped THEN HeadOf(channel[1]) ELSE shm_pkg_head_
  /\ NoteIsWhole
  /\ UNCHANGED <<mgrVars, phase, setUp, queued, mapped, channel, arrivals, faults>>

ToScheduler == scheduler /\ ~recv.is_rsp

\* The packet was dealt with, intercepted, queued, or refused by the scheduler.
RecvReturns ==
  /\ recv # NoPkg
  /\ recv.poison => ToScheduler
  /\ queued' \in {queued} \cup (IF ToScheduler THEN {Append(queued, recv)} ELSE {})
  /\ recv' = NoPkg
  /\ ClearPkgMem /\ Consumed
  /\ UNCHANGED <<mgrVars, phase, setUp, mapped, arrivals, faults>>

\* The process dies with a packet in hand that the note, if there is one, names.
DiesWithNote ==
  /\ DiesInRecv
  /\ suspects' = IF mapped THEN {HeadOf(recv)} ELSE suspects
  /\ UNCHANGED <<shm_pkg_head_, torn>>

CrashInRecv ==
  /\ recv # NoPkg /\ recv.poison /\ ~ToScheduler
  /\ DiesWithNote
  /\ UNCHANGED faults

\* The process is killed between the first and the last store of a note.
TearsNote(note) ==
  /\ mapped /\ Fault
  /\ DiesInRecv
  /\ shm_pkg_head_' \in Blend({shm_pkg_head_, note})
  /\ suspects' = suspects \cup {HeadOf(channel[1])} /\ torn' = TRUE

KilledNoting ==
  /\ Delivers /\ channel[1].decodes
  /\ ~SamePkg(channel[1])
  /\ TearsNote(HeadOf(channel[1]))

KilledClearing ==
  /\ \/ Delivers /\ channel[1].decodes /\ SamePkg(channel[1])
     \/ recv # NoPkg /\ (recv.poison => ToScheduler)
  /\ TearsNote(ZeroHead)

LoopReturns ==
  /\ phase = "Loop" /\ recv = NoPkg
  /\ phase' = "idle"
  /\ UNCHANGED <<mgrVars, setUp, netVars, faults>>

\* The process is killed anywhere else.
Killed ==
  /\ phase # "down" /\ Fault
  /\ \/ recv # NoPkg /\ DiesWithNote
     \/ recv = NoPkg /\ Dies /\ UNCHANGED <<noteVars, channel>>

------------------------------------------------------------------------------
ProcessStep == OnInitReturns \/ PassStep \/ PassReturns \/ Exit \/ LoopOnceReturns
RecvStep == RecvUndecodable \/ CrashInDecode \/ RecvSkips \/ RecvBegins

Next ==
  \/ \E p \in Packets : Arrive(p)
  \/ Start \/ ProcessStep \/ UserCode
  \/ SvrTick \/ SvrProc \/ SvrFinish
  \/ SystemInitFails \/ CustomInitFails \/ Killed \/ KilledNoting \/ KilledClearing
  \/ \E i \in DOMAIN queued : LoopOnce(i) \/ CrashInLoopOnce(i)
  \/ RecvStep \/ RecvReturns \/ CrashInRecv
  \/ LoopReturns

Spec == Init /\ [][Next]_vars

\* A process that is down is started again, its code runs, and every round
\* lets the channel deliver (CheckOption leaves it min_num packets).
FairSpec ==
  /\ Spec
  /\ WF_vars(Start) /\ WF_vars(ProcessStep) /\ SF_vars(SvrProc)
  /\ SF_vars(RecvStep) /\ WF_vars(RecvReturns) /\ WF_vars(CrashInRecv)

------------------------------------------------------------------------------
(***************************************************************************)
(* Properties                                                              *)
(***************************************************************************)
\* OnRecv skips a packet only because a process has died with that packet, or
\* one with the same head, in hand since the note was last written or cleared
\* to the end.  If a process died in the middle of that, the note may also be
\* made up of fields of such heads.  A head of zeroes looks like a clear note.
SkipsOnlySuspects ==
  [][RecvSkips => LET heads == suspects \cup {ZeroHead}
                  IN  HeadOf(channel[1]) \in IF torn THEN Blend(heads) ELSE heads]_vars

\* Nothing stops a packet that brings the process down in Decode, or, when
\* there is no note, in OnRecv.
Unstoppable(p) ==
  p.poison /\ (~p.decodes \/ (~check_key /\ (p.is_rsp \/ ~scheduler)))

\* Any other packet that brings down every process that deals with it is not
\* delivered for ever: by way of restarts the channel gets empty, or an
\* unstoppable packet gets to the front.
ChannelDrains == []<>(channel = <<>> \/ Unstoppable(channel[1]))

\* Whenever SystemInit, SystemTick, SystemProc or SystemFinish returns, it has
\* called every system registered throughout, once, by priority, although the
\* systems it calls register and remove others.
PassesAreComplete == PassEnds => PassIsComplete

\* No system ticks, works or finishes without having been initialised, unless
\* it was registered after SystemInit had passed its place.
InitialisedFirst == CalledAreInitialised
================================================================================
