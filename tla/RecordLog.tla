------------------------------ MODULE RecordLog ------------------------------
(***************************************************************************)
(* What both ring buffers promise their caller: a log of records.  A push  *)
(* appends one record; it may drop the oldest ones first, one by one, but  *)
(* only when the caller allowed it to overwrite, and then it is not        *)
(* refused.  Every push returns.                                           *)
(***************************************************************************)
EXTENDS Naturals, Sequences

CONSTANTS Records, NoCall

VARIABLES
  log,      \* the records held, oldest first
  call      \* the push that is under way

logVars == <<log, call>>

LogInit == log = <<>> /\ call = NoCall

Begin(x, ow) ==
  /\ call = NoCall
  /\ call' = [item |-> x, over_write |-> ow]
  /\ UNCHANGED log

DropOldest ==
  /\ call # NoCall /\ call.over_write
  /\ log # <<>>
  /\ log' = Tail(log)
  /\ UNCHANGED call

Accept ==
  /\ call # NoCall
  /\ log' = Append(log, call.item)
  /\ call' = NoCall

Refuse ==
  /\ call # NoCall /\ ~call.over_write
  /\ call' = NoCall
  /\ UNCHANGED log

Take == call = NoCall /\ log # <<>> /\ log' = Tail(log) /\ UNCHANGED call
Empty == call = NoCall /\ log' = <<>> /\ UNCHANGED call

LogNext ==
  \/ \E x \in Records, ow \in BOOLEAN : Begin(x, ow)
  \/ DropOldest \/ Accept \/ Refuse \/ Take \/ Empty

LogSpec == LogInit /\ [][LogNext]_logVars /\ WF_logVars(DropOldest \/ Accept \/ Refuse)
==============================================================================
