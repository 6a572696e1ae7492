---- MODULE MCTimeoutLoop ----
(* TLC instance of TimeoutLoop: three live ids, so that the id counter wraps *)
(* onto live timers; a clock of three ticks; periodic timers of one and two  *)
(* ticks, so that a late loop has to catch up several periods.               *)
EXTENDS TimeoutLoop

MCTasks == {"task"}
MCOutside == 0 .. 1
MCIntervals == 0 .. 2
====
