----------------------------- MODULE FlowControl -----------------------------
(***************************************************************************)
(* The time slices and the adaptive flow control of ServerCore::SvrProc    *)
(* (core/server_core.cpp): how many packets a round may deal with, and how *)
(* that number follows the time the rounds take.                           *)
(*                                                                         *)
(* The options are 32-bit unsigned integers and so is their arithmetic;    *)
(* times are 64 bits wide.  The wall clock is read four times in a round;  *)
(* nothing makes the readings grow, since the clock can be set back.       *)
(***************************************************************************)
EXTENDS Integers

CONSTANTS
  UIntSpace,     \* values of a uint32_t: 2^32 in the code
  TimeSpace,     \* values of a uint64_t: 2^64 in the code
  Options,       \* the option records a server may be given
  Times,         \* bound: the readings of the clock
  HasScheduler,  \* a request scheduler is installed
  Backlog        \* bound: the packets the scheduler may hold

UInt == 0 .. (UIntSpace - 1)

Option == [max_deal_pkg_num : UInt, max_num : UInt, min_num : UInt,
           inc_delta : UInt, dec_delta : UInt, judge_range_ms : UInt,
           max_proc_ms : UInt, max_ctx_proc_ms : UInt, min_on_proc_ms : UInt]

ASSUME FlowAssumption ==
  /\ UIntSpace \in Nat \ {0} /\ TimeSpace \in Nat \ {0}
  /\ Options \subseteq Option
  /\ Times \subseteq 0 .. (TimeSpace - 1)
  /\ HasScheduler \in BOOLEAN
  /\ Backlog \in Nat

VARIABLES
  option,     \* option_, of which only max_deal_pkg_num changes
  last        \* history: what the last round measured and allowed

vars == <<option, last>>

Add32(a, b) == (a + b) % UIntSpace
Mul32(a, b) == (a * b) % UIntSpace
Sub64(a, b) == (a - b) % TimeSpace

\* CheckOption, without which SvrInit fails.  The first definition is a mutant
\* that leaves the frame's limits unchecked.
CheckOption_FlowOnly(o) ==
  /\ o.min_num <= o.max_num
  /\ o.max_deal_pkg_num <= o.max_num
  /\ o.max_deal_pkg_num >= o.min_num

CheckOption(o) ==
  /\ o.min_num <= o.max_num
  /\ o.max_deal_pkg_num <= o.max_num
  /\ o.max_deal_pkg_num >= o.min_num
  /\ o.min_on_proc_ms <= o.max_proc_ms
  /\ o.max_ctx_proc_ms <= o.max_proc_ms

NoRound == [begin |-> 0, end |-> 0, remain |-> 0, used |-> 0, dealt |-> 0]

Init ==
  /\ option \in {o \in Options : CheckOption(o)}
  /\ last = NoRound

\* The time the round's own logic is promised.
RemainMs(o, begin, end) ==
  IF end + o.min_on_proc_ms > o.max_proc_ms + begin
  THEN o.min_on_proc_ms
  ELSE o.max_proc_ms + begin - end

\* How many packets are then taken from the channel, deal of them being dealt
\* with already.  The first definition is a mutant that forgets them.
OneLoopNum_Full(o, deal) == o.max_deal_pkg_num

OneLoopNum(o, deal) ==
  IF o.max_deal_pkg_num > Add32(deal, o.min_num)
  THEN (o.max_deal_pkg_num - deal) % UIntSpace
  ELSE o.min_num

Overloaded(o, remain, used) == used > remain + o.judge_range_ms
Underloaded(o, remain, used) == used + Mul32(o.judge_range_ms, 2) < remain

\* Mutants: the number shrinks below min_num; it never shrinks to min_num.
Decreased_Unchecked(o) == (o.max_deal_pkg_num - o.dec_delta) % UIntSpace
Decreased_Stops(o) ==
  IF o.max_deal_pkg_num > Add32(o.min_num, o.dec_delta)
  THEN o.max_deal_pkg_num - o.dec_delta
  ELSE o.max_deal_pkg_num

Decreased(o) ==
  IF o.max_deal_pkg_num > Add32(o.min_num, o.dec_delta)
  THEN (o.max_deal_pkg_num - o.dec_delta) % UIntSpace
  ELSE IF o.max_deal_pkg_num > o.min_num THEN o.min_num ELSE o.max_deal_pkg_num

Increased(o) ==
  IF Add32(o.max_deal_pkg_num, o.inc_delta) < o.max_num
  THEN Add32(o.max_deal_pkg_num, o.inc_delta)
  ELSE IF o.max_deal_pkg_num < o.max_num THEN o.max_num ELSE o.max_deal_pkg_num

AdjustParam(o, remain, used) ==
  IF Overloaded(o, remain, used) THEN Decreased(o)
  ELSE IF Underloaded(o, remain, used) THEN Increased(o)
  ELSE o.max_deal_pkg_num

\* What LoopOnce(proc_num) may return: 0 asks for everything there is.
LoopOnce(proc_num) ==
  {n \in 0 .. Backlog : proc_num = 0 \/ n <= proc_num}

\* One round: the clock is read when it begins, after the timeouts, and after
\* the packets.
SvrProc(begin, end, end2) ==
  /\ \E scheduled \in IF HasScheduler THEN LoopOnce(option.max_deal_pkg_num) ELSE {0} :
       \E received \in 0 .. OneLoopNum(option, scheduled) :
         last' = [begin |-> begin, end |-> end,
                  remain |-> RemainMs(option, begin, end), used |-> Sub64(end2, end),
                  dealt |-> scheduled + received]
  /\ option' = [option EXCEPT !.max_deal_pkg_num =
                  AdjustParam(option, RemainMs(option, begin, end), Sub64(end2, end))]

Next == \E begin, end, end2 \in Times : SvrProc(begin, end, end2)

Spec == Init /\ [][Next]_vars

\* The frame work calls SvrProc again and again.
FairSpec == Spec /\ WF_vars(Next)

-----------------------------------------------------------------------------
TypeOK ==
  /\ option \in Option
  /\ last \in [begin : Nat, end : Nat, remain : Nat, used : Nat, dealt : Nat]

\* The sums AdjustParam compares with fit in 32 bits.  CheckOption does not ask
\* for it, so it is a condition on the options a server is configured with.
FitsUInt(o) ==
  o.min_num + o.dec_delta < UIntSpace /\ o.max_num + o.inc_delta < UIntSpace

\* However it is adjusted, round after round, the number of packets stays within
\* the limits it was configured with.
DealInRange ==
  /\ option.min_num <= option.max_deal_pkg_num
  /\ option.max_deal_pkg_num <= option.max_num

\* A round deals with no more packets than max_num, plus min_num when the
\* scheduler alone has used the round up.
RoundBudget == last.dealt <= option.max_num + option.min_num

\* The round's own logic is promised its minimum, and no more than the whole
\* round unless the clock was set back.
OnProcTime ==
  last # NoRound =>
    /\ option.min_on_proc_ms <= last.remain
    /\ last.end >= last.begin => last.remain <= option.max_proc_ms

\* A server that stays overloaded ends up at its minimum, one that stays idle at
\* its maximum, whether the steps divide the range, overshoot it or just fit.  A
\* step of 0, which is the default and passes CheckOption, never moves the number.
LastOverloaded == last # NoRound /\ Overloaded(option, last.remain, last.used)
LastUnderloaded == last # NoRound /\ Underloaded(option, last.remain, last.used)

SettlesAtLimits ==
  /\ option.dec_delta > 0 /\ <>[]LastOverloaded
       => <>[](option.max_deal_pkg_num = option.min_num)
  /\ option.inc_delta > 0 /\ <>[]LastUnderloaded
       => <>[](option.max_deal_pkg_num = option.max_num)
=============================================================================
