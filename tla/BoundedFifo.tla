----------------------------- MODULE BoundedFifo -----------------------------
(***************************************************************************)
(* What FreeLockQueue promises its callers: a first-in first-out queue of  *)
(* bounded capacity, in which pushing and popping are single steps.        *)
(***************************************************************************)
EXTENDS Naturals, Sequences

CONSTANTS Items, Capacity

VARIABLES
  fifo,        \* the items accepted and not yet handed out, oldest first
  received     \* the items handed out, in order

fifoVars == <<fifo, received>>

FifoInit == fifo = <<>> /\ received = <<>>

Accept(i) ==
  /\ Len(fifo) < Capacity
  /\ fifo' = Append(fifo, i)
  /\ UNCHANGED received

HandOut ==
  /\ fifo # <<>>
  /\ received' = Append(received, Head(fifo))
  /\ fifo' = Tail(fifo)

FifoNext == (\E i \in Items : Accept(i)) \/ HandOut

FifoSpec == FifoInit /\ [][FifoNext]_fifoVars
=============================================================================
