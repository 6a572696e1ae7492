------------------------------- MODULE SystemMgr -------------------------------
(***************************************************************************)
(* ua::SystemMgr (core/system_mgr.h, .cpp): the systems of a server, in    *)
(* three lists by priority.  SystemInit, SystemTick, SystemProc and        *)
(* SystemFinish are passes over them, from high to low priority and in the *)
(* order of registration; a system whose code is running may register and  *)
(* remove others meanwhile.  It must not do so in the list the pass is     *)
(* iterating over, whose iterators would dangle.  What share of the time   *)
(* of a round a system is told to use is left out.                         *)
(***************************************************************************)
EXTENDS Integers, Sequences, SequencesExt, FiniteSetsExt

CONSTANTS
  Systems,          \* the types of systems, by their ids
  NoPass            \* no pass is under way

Priorities == 0 .. 2        \* Low, Mid, High

VARIABLES
  systems_,         \* the systems registered
  sys_index_vec_,   \* their ids, by priority
  pass,             \* the pass under way: what it calls, where it is, whom it called
  inited,           \* systems whose OnInit has succeeded
  late              \* systems registered when SystemInit was past their place

mgrVars == <<systems_, sys_index_vec_, pass, inited, late>>

MgrInit ==
  /\ systems_ = {}
  /\ sys_index_vec_ = [p \in Priorities |-> <<>>]
  /\ pass = NoPass
  /\ inited = {} /\ late = {}

\* The lists a pass is not iterating over.
Stable == IF pass = NoPass THEN Priorities ELSE Priorities \ {pass.priority}

\* A new system misses its OnInit when SystemInit is over, or past its list.
MissesInit(p, initialised) ==
  initialised \/ (pass # NoPass /\ pass.op = "OnInit" /\ p > pass.priority)

AddSystem(s, p, initialised) ==
  /\ s \notin systems_ /\ p \in Stable
  /\ systems_' = systems_ \cup {s}
  /\ sys_index_vec_' = [sys_index_vec_ EXCEPT ![p] = Append(@, s)]
  /\ late' = IF MissesInit(p, initialised) THEN late \cup {s} ELSE late
  /\ UNCHANGED <<pass, inited>>

Forgets(s) ==
  /\ systems_' = systems_ \ {s}
  /\ inited' = inited \ {s} /\ late' = late \ {s}
  /\ pass' = IF pass = NoPass THEN NoPass ELSE [pass EXCEPT !.stays = @ \ {s}]

\* Mutant: the ids of removed systems stay in the lists.
RemoveSystem_KeepsIndex(s) ==
  /\ s \in systems_
  /\ \A p \in Priorities \ Stable : ~Contains(sys_index_vec_[p], s)
  /\ Forgets(s)
  /\ UNCHANGED sys_index_vec_

\* A list holds an id once at most, so std::erase takes out the first there is.
RemoveSystem(s) ==
  /\ s \in systems_
  /\ \A p \in Priorities \ Stable : ~Contains(sys_index_vec_[p], s)
  /\ Forgets(s)
  /\ sys_index_vec_' = [p \in Priorities |-> RemoveFirst(sys_index_vec_[p], s)]

(***************************************************************************)
(* A pass.  priority and index are where its two loops are; called is the  *)
(* systems it has called so far, and stays those that have been registered *)
(* all the time.                                                           *)
(***************************************************************************)
PassBegins(op) ==
  /\ pass = NoPass
  /\ pass' = [op |-> op, priority |-> 2, index |-> 0, called |-> <<>>, stays |-> systems_]

HasNext == pass.index < Len(sys_index_vec_[pass.priority])
Current == sys_index_vec_[pass.priority][pass.index + 1]

NextPriority ==
  /\ pass # NoPass /\ ~HasNext /\ pass.priority > 0
  /\ pass' = [pass EXCEPT !.priority = @ - 1, !.index = 0]
  /\ UNCHANGED <<systems_, sys_index_vec_, inited, late>>

\* One iteration: the system is called, if it is there.
Call ==
  /\ pass # NoPass /\ HasNext
  /\ pass' = [pass EXCEPT !.index = @ + 1,
                          !.called = IF Current \in systems_ THEN Append(@, Current) ELSE @]
  /\ inited' = IF pass.op = "OnInit" /\ Current \in systems_ THEN inited \cup {Current} ELSE inited
  /\ UNCHANGED <<systems_, sys_index_vec_, late>>

\* OnInit may also say no, which ends the pass, and SvrInit.
CallFails ==
  /\ pass # NoPass /\ HasNext
  /\ pass.op = "OnInit" /\ Current \in systems_

PassEnds == pass # NoPass /\ ~HasNext /\ pass.priority = 0

------------------------------------------------------------------------------
\* The systems are visited from the highest priority to the lowest and, within
\* a priority, in the order of registration.
ComesBefore(s, t) ==
  \E p, q \in Priorities :
    \E i \in DOMAIN sys_index_vec_[p], j \in DOMAIN sys_index_vec_[q] :
      /\ sys_index_vec_[p][i] = s /\ sys_index_vec_[q][j] = t
      /\ p > q \/ (p = q /\ i < j)

\* At its end a pass has called every system that was there all the time, once,
\* in that order, whatever the systems it called did to the lists.
PassIsComplete ==
  LET stayed == {i \in DOMAIN pass.called : pass.called[i] \in pass.stays}
  IN /\ \A s \in pass.stays : \E i \in stayed : pass.called[i] = s
     /\ \A i, j \in stayed : i < j => /\ pass.called[i] # pass.called[j]
                                     /\ ComesBefore(pass.called[i], pass.called[j])

\* A system whose turn it is to tick, work or finish has been initialised, unless
\* it came too late for SystemInit.
CalledAreInitialised ==
  pass # NoPass /\ pass.op # "OnInit" /\ HasNext /\ Current \in systems_ =>
    Current \in inited \cup late
================================================================================
