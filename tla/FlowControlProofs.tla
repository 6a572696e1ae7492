-------------------------- MODULE FlowControlProofs --------------------------
(***************************************************************************)
(* What holds of the adaptive flow control for every server option, every  *)
(* width of the integers and every reading of the clock.                   *)
(***************************************************************************)
EXTENDS FlowControl, TLAPS

\* Sums of 32 bits that do not overflow are exact.
LEMMA ModSmall == ASSUME NEW n \in Nat \ {0}, NEW a \in 0 .. (n - 1)
                  PROVE  a % n = a
  OBVIOUS

\* A remainder is a value of its type.
LEMMA ModRange == ASSUME NEW n \in Nat \ {0}, NEW a \in Int
                  PROVE  a % n \in 0 .. (n - 1)
  OBVIOUS

\* AdjustParam returns a 32-bit number.
LEMMA AdjustParamType ==
  ASSUME NEW o \in Option, NEW remain \in Nat, NEW used \in Nat
  PROVE  AdjustParam(o, remain, used) \in UInt
<1>1. o.max_deal_pkg_num \in UInt /\ o.min_num \in UInt /\ o.max_num \in UInt
      /\ o.inc_delta \in UInt /\ o.dec_delta \in UInt /\ UIntSpace \in Nat \ {0}
  BY FlowAssumption DEF Option
<1>2. Decreased(o) \in UInt
  <2>1. o.max_deal_pkg_num - o.dec_delta \in Int
    BY <1>1 DEF UInt
  <2>2. (o.max_deal_pkg_num - o.dec_delta) % UIntSpace \in UInt
    BY <1>1, <2>1, ModRange DEF UInt
  <2> QED BY <1>1, <2>2 DEF Decreased
<1>3. Increased(o) \in UInt
  <2>1. o.max_deal_pkg_num + o.inc_delta \in Int
    BY <1>1 DEF UInt
  <2>2. Add32(o.max_deal_pkg_num, o.inc_delta) \in UInt
    BY <1>1, <2>1, ModRange DEF UInt, Add32
  <2> QED BY <1>1, <2>2 DEF Increased
<1> QED BY <1>1, <1>2, <1>3 DEF AdjustParam

\* When the sums fit in 32 bits, AdjustParam stays within the limits.
LEMMA AdjustParamInRange ==
  ASSUME NEW o \in Option, NEW remain \in Nat, NEW used \in Nat,
         FitsUInt(o), o.min_num <= o.max_deal_pkg_num, o.max_deal_pkg_num <= o.max_num
  PROVE  /\ o.min_num <= AdjustParam(o, remain, used)
         /\ AdjustParam(o, remain, used) <= o.max_num
<1>1. o.max_deal_pkg_num \in UInt /\ o.min_num \in UInt /\ o.max_num \in UInt
      /\ o.inc_delta \in UInt /\ o.dec_delta \in UInt /\ UIntSpace \in Nat \ {0}
  BY FlowAssumption DEF Option
<1>2. o.min_num <= Decreased(o) /\ Decreased(o) <= o.max_num
  <2>1. Add32(o.min_num, o.dec_delta) = o.min_num + o.dec_delta
    <3>1. o.min_num + o.dec_delta \in 0 .. (UIntSpace - 1)
      BY <1>1 DEF FitsUInt, UInt
    <3> QED BY <1>1, <3>1, ModSmall DEF Add32
  <2>2. CASE o.max_deal_pkg_num > Add32(o.min_num, o.dec_delta)
    <3>1. o.max_deal_pkg_num - o.dec_delta \in 0 .. (UIntSpace - 1)
      BY <1>1, <2>1, <2>2 DEF UInt
    <3>2. (o.max_deal_pkg_num - o.dec_delta) % UIntSpace = o.max_deal_pkg_num - o.dec_delta
      BY <1>1, <3>1, ModSmall
    <3>3. Decreased(o) = o.max_deal_pkg_num - o.dec_delta
      BY <2>2, <3>2 DEF Decreased
    <3> QED BY <1>1, <2>1, <2>2, <3>3 DEF UInt
  <2>3. CASE ~(o.max_deal_pkg_num > Add32(o.min_num, o.dec_delta))
    <3>1. Decreased(o) \in {o.min_num, o.max_deal_pkg_num}
      BY <2>3 DEF Decreased
    <3> QED BY <1>1, <3>1 DEF UInt
  <2> QED BY <2>2, <2>3
<1>3. o.min_num <= Increased(o) /\ Increased(o) <= o.max_num
  <2>1. Add32(o.max_deal_pkg_num, o.inc_delta) = o.max_deal_pkg_num + o.inc_delta
    <3>1. o.max_deal_pkg_num + o.inc_delta \in 0 .. (UIntSpace - 1)
      BY <1>1 DEF FitsUInt, UInt
    <3> QED BY <1>1, <3>1, ModSmall DEF Add32
  <2> QED BY <1>1, <2>1 DEF Increased, UInt
<1> QED BY <1>1, <1>2, <1>3 DEF AdjustParam, UInt

\* What a round measures is well typed, and its logic gets its time.
LEMMA RemainMsRange ==
  ASSUME NEW o \in Option, NEW begin \in Nat, NEW end \in Nat
  PROVE  /\ RemainMs(o, begin, end) \in Nat
         /\ o.min_on_proc_ms <= RemainMs(o, begin, end)
         /\ o.min_on_proc_ms <= o.max_proc_ms /\ begin <= end
              => RemainMs(o, begin, end) <= o.max_proc_ms
  BY FlowAssumption DEF RemainMs, Option, UInt

\* The packets of the channel and those of the scheduler stay within
\* max_deal_pkg_num and min_num, as long as max_deal_pkg_num is not 0.
LEMMA DealtRange ==
  ASSUME NEW o \in Option, o.max_deal_pkg_num > 0,
         NEW scheduled \in IF HasScheduler THEN LoopOnce(o.max_deal_pkg_num) ELSE {0},
         NEW received \in 0 .. OneLoopNum(o, scheduled)
  PROVE  scheduled + received <= o.max_deal_pkg_num + o.min_num
<1>1. o.max_deal_pkg_num \in UInt /\ o.min_num \in UInt /\ UIntSpace \in Nat \ {0}
  BY FlowAssumption DEF Option
<1>2. scheduled \in Nat /\ scheduled <= o.max_deal_pkg_num
  BY <1>1, FlowAssumption DEF LoopOnce, UInt
<1>3. CASE o.max_deal_pkg_num > Add32(scheduled, o.min_num)
  <2>1. o.max_deal_pkg_num - scheduled \in 0 .. (UIntSpace - 1)
    BY <1>1, <1>2 DEF UInt
  <2>2. OneLoopNum(o, scheduled) = o.max_deal_pkg_num - scheduled
    BY <1>1, <1>3, <2>1, ModSmall DEF OneLoopNum
  <2> QED BY <1>1, <1>2, <2>2 DEF UInt
<1>4. CASE ~(o.max_deal_pkg_num > Add32(scheduled, o.min_num))
  <2>1. OneLoopNum(o, scheduled) = o.min_num
    BY <1>4 DEF OneLoopNum
  <2> QED BY <1>1, <1>2, <2>1 DEF UInt
<1> QED BY <1>3, <1>4

\* The packets a round deals with are a natural number.
LEMMA DealtType ==
  ASSUME NEW o \in Option,
         NEW scheduled \in IF HasScheduler THEN LoopOnce(o.max_deal_pkg_num) ELSE {0},
         NEW received \in 0 .. OneLoopNum(o, scheduled)
  PROVE  scheduled + received \in Nat
<1>1. scheduled \in Nat
  BY FlowAssumption DEF LoopOnce
<1>2. o.max_deal_pkg_num \in UInt /\ o.min_num \in UInt /\ UIntSpace \in Nat \ {0}
  BY FlowAssumption DEF Option
<1>3. (o.max_deal_pkg_num - scheduled) % UIntSpace \in 0 .. (UIntSpace - 1)
  <2>1. o.max_deal_pkg_num - scheduled \in Int
    BY <1>1, <1>2 DEF UInt
  <2> QED BY <1>2, <2>1, ModRange
<1>4. OneLoopNum(o, scheduled) \in Int
  BY <1>2, <1>3 DEF OneLoopNum, UInt
<1> QED BY <1>1, <1>4

-----------------------------------------------------------------------------
\* The parts of the inductive invariant: the options only change in
\* max_deal_pkg_num, so what CheckOption has seen of the others stays true.
FrameChecked ==
  option.min_on_proc_ms <= option.max_proc_ms

TimeInv == TypeOK /\ FrameChecked /\ OnProcTime

PacketInv == TypeOK /\ FitsUInt(option) /\ DealInRange

BudgetInv == PacketInv /\ option.min_num > 0 /\ RoundBudget

\* A round that begins at begin, whose packets start at end.
Round(begin, end, used, scheduled, received) ==
  /\ begin \in Nat /\ end \in Nat /\ used \in Nat
  /\ scheduled \in IF HasScheduler THEN LoopOnce(option.max_deal_pkg_num) ELSE {0}
  /\ received \in 0 .. OneLoopNum(option, scheduled)
  /\ last' = [begin |-> begin, end |-> end, remain |-> RemainMs(option, begin, end),
              used |-> used, dealt |-> scheduled + received]
  /\ option' = [option EXCEPT !.max_deal_pkg_num =
                  AdjustParam(option, RemainMs(option, begin, end), used)]

\* Every step is such a round.
LEMMA RoundStep ==
  ASSUME TypeOK, Next
  PROVE  \E begin, end, used, scheduled, received : Round(begin, end, used, scheduled, received)
<1>1. PICK begin \in Times, end \in Times, end2 \in Times : SvrProc(begin, end, end2)
  BY DEF Next
<1>2. PICK scheduled \in IF HasScheduler THEN LoopOnce(option.max_deal_pkg_num) ELSE {0} :
        \E received \in 0 .. OneLoopNum(option, scheduled) :
          last' = [begin |-> begin, end |-> end,
                   remain |-> RemainMs(option, begin, end), used |-> Sub64(end2, end),
                   dealt |-> scheduled + received]
  BY <1>1 DEF SvrProc
<1>3. PICK received \in 0 .. OneLoopNum(option, scheduled) :
        last' = [begin |-> begin, end |-> end,
                 remain |-> RemainMs(option, begin, end), used |-> Sub64(end2, end),
                 dealt |-> scheduled + received]
  BY <1>2
<1>4. begin \in Nat /\ end \in Nat /\ end2 \in Nat
  BY FlowAssumption
<1>5. Sub64(end2, end) \in Nat
  <2>1. (end2 - end) % TimeSpace \in 0 .. (TimeSpace - 1)
    BY <1>4, ModRange, FlowAssumption
  <2> QED BY <2>1, FlowAssumption DEF Sub64
<1>6. Round(begin, end, Sub64(end2, end), scheduled, received)
  BY <1>1, <1>2, <1>3, <1>4, <1>5 DEF Round, SvrProc
<1> QED BY <1>6

\* Every round keeps the types, and every field of the options but one.
LEMMA RoundType ==
  ASSUME TypeOK, NEW begin, NEW end, NEW used, NEW scheduled, NEW received,
         Round(begin, end, used, scheduled, received)
  PROVE  /\ TypeOK'
         /\ option'.min_num = option.min_num /\ option'.max_num = option.max_num
         /\ option'.inc_delta = option.inc_delta /\ option'.dec_delta = option.dec_delta
         /\ option'.min_on_proc_ms = option.min_on_proc_ms
         /\ option'.max_proc_ms = option.max_proc_ms
<1>1. option \in Option
  BY DEF TypeOK
<1>2. scheduled + received \in Nat /\ RemainMs(option, begin, end) \in Nat
  BY <1>1, DealtType, RemainMsRange DEF Round
<1>3. last' \in [begin : Nat, end : Nat, remain : Nat, used : Nat, dealt : Nat]
  BY <1>2 DEF Round, TypeOK
<1>4. AdjustParam(option, RemainMs(option, begin, end), used) \in UInt
  BY <1>1, <1>2, AdjustParamType DEF Round
<1>5. option' \in Option
  BY <1>1, <1>4 DEF Round, Option
<1> QED BY <1>1, <1>3, <1>5 DEF TypeOK, Round, Option

\* The round's own logic is promised between min_on_proc_ms and max_proc_ms
\* (server_core.cpp:167), whatever the clock does and however SvrProc adjusts
\* itself.
THEOREM LogicGetsItsTime == Spec => []OnProcTime
<1>1. Init => TimeInv
  BY FlowAssumption DEF Init, TimeInv, TypeOK, FrameChecked, OnProcTime, CheckOption, NoRound
<1>2. TimeInv /\ [Next]_vars => TimeInv'
  <2> SUFFICES ASSUME TimeInv, [Next]_vars PROVE TimeInv'
    OBVIOUS
  <2> USE DEF TimeInv
  <2>1. CASE UNCHANGED vars
    BY <2>1 DEF vars, TypeOK, FrameChecked, OnProcTime
  <2>2. CASE Next
    <3>1. PICK begin, end, used, scheduled, received : Round(begin, end, used, scheduled, received)
      BY <2>2, RoundStep
    <3>2. last'.begin = begin /\ last'.end = end /\ last'.remain = RemainMs(option, begin, end)
      BY <3>1 DEF Round, TypeOK
    <3>3. /\ TypeOK' /\ option'.min_on_proc_ms = option.min_on_proc_ms
          /\ option'.max_proc_ms = option.max_proc_ms
      BY <3>1, RoundType
    <3>4. /\ option.min_on_proc_ms <= RemainMs(option, begin, end)
          /\ begin <= end => RemainMs(option, begin, end) <= option.max_proc_ms
      BY <3>1, RemainMsRange DEF Round, TypeOK, FrameChecked
    <3> QED BY <3>2, <3>3, <3>4 DEF OnProcTime, FrameChecked
  <2> QED BY <2>1, <2>2
<1>3. TimeInv => OnProcTime
  BY DEF TimeInv
<1> QED BY <1>1, <1>2, <1>3, PTL DEF Spec

\* One step of the invariant of the packet limits.
LEMMA PacketStep == PacketInv /\ [Next]_vars => PacketInv'
<1> SUFFICES ASSUME PacketInv, [Next]_vars PROVE PacketInv'
  OBVIOUS
<1> USE DEF PacketInv
<1>1. CASE UNCHANGED vars
  BY <1>1 DEF vars, TypeOK, FitsUInt, DealInRange
<1>2. CASE Next
  <2>1. PICK begin, end, used, scheduled, received : Round(begin, end, used, scheduled, received)
    BY <1>2, RoundStep
  <2>2. option'.max_deal_pkg_num = AdjustParam(option, RemainMs(option, begin, end), used)
    BY <2>1 DEF Round, TypeOK, Option
  <2>3. RemainMs(option, begin, end) \in Nat
    BY <2>1, RemainMsRange DEF Round, TypeOK
  <2>4. /\ option.min_num <= option'.max_deal_pkg_num
        /\ option'.max_deal_pkg_num <= option.max_num
    BY <2>1, <2>2, <2>3, AdjustParamInRange DEF Round, TypeOK, DealInRange
  <2> QED BY <2>1, <2>4, RoundType DEF FitsUInt, DealInRange
<1> QED BY <1>1, <1>2

\* AdjustParam (server_core.cpp:235-254) never leaves the limits of the flow
\* control, when the limits and the deltas are small enough not to overflow.
THEOREM PacketLimitsHold ==
  ASSUME \A o \in Options : FitsUInt(o)
  PROVE  Spec => []DealInRange
<1>1. Init => PacketInv
  BY FlowAssumption DEF Init, PacketInv, TypeOK, DealInRange, CheckOption, NoRound
<1>2. PacketInv => DealInRange
  BY DEF PacketInv
<1> QED BY <1>1, <1>2, PacketStep, PTL DEF Spec

\* With a min_num that is not 0, a round of SvrProc (server_core.cpp:193-206)
\* never deals with more packets than its limits allow.
THEOREM RoundsAreBounded ==
  ASSUME \A o \in Options : FitsUInt(o) /\ o.min_num > 0
  PROVE  Spec => []RoundBudget
<1>1. Init => BudgetInv
  <2> SUFFICES ASSUME Init PROVE BudgetInv
    OBVIOUS
  <2>1. option \in Options /\ option \in Option /\ CheckOption(option) /\ last = NoRound
    BY FlowAssumption DEF Init
  <2>2. PacketInv
    BY <2>1 DEF PacketInv, TypeOK, DealInRange, CheckOption, NoRound
  <2> QED BY <2>1, <2>2 DEF BudgetInv, RoundBudget, NoRound, Option, UInt
<1>2. BudgetInv /\ [Next]_vars => BudgetInv'
  <2> SUFFICES ASSUME BudgetInv, [Next]_vars PROVE BudgetInv'
    OBVIOUS
  <2>1. PacketInv'
    BY PacketStep DEF BudgetInv
  <2>2. CASE UNCHANGED vars
    BY <2>1, <2>2 DEF vars, BudgetInv, RoundBudget
  <2>3. CASE Next
    <3>1. PICK begin, end, used, scheduled, received : Round(begin, end, used, scheduled, received)
      BY <2>3, RoundStep DEF BudgetInv, PacketInv
    <3>2. /\ option \in Option
          /\ option.max_deal_pkg_num \in Int /\ option.min_num \in Int /\ option.max_num \in Int
      BY FlowAssumption DEF BudgetInv, PacketInv, TypeOK, Option, UInt
    <3>3. option.max_deal_pkg_num > 0 /\ option.max_deal_pkg_num <= option.max_num
      BY <3>2 DEF BudgetInv, PacketInv, DealInRange
    <3>4. scheduled + received <= option.max_deal_pkg_num + option.min_num
      BY <3>1, <3>2, <3>3, DealtRange DEF Round
    <3>5. scheduled + received \in Nat
      BY <3>1, <3>2, DealtType DEF Round
    <3>6. option'.min_num = option.min_num /\ option'.max_num = option.max_num
      BY <3>1, RoundType DEF BudgetInv, PacketInv
    <3>7. last'.dealt = scheduled + received
      BY <3>1 DEF Round, BudgetInv, PacketInv, TypeOK
    <3>8. last'.dealt <= option.max_num + option.min_num
      BY <3>2, <3>3, <3>4, <3>5, <3>7
    <3> QED BY <2>1, <3>6, <3>8 DEF BudgetInv, RoundBudget
  <2> QED BY <2>2, <2>3
<1>3. BudgetInv => RoundBudget
  BY DEF BudgetInv
<1> QED BY <1>1, <1>2, <1>3, PTL DEF Spec
=============================================================================
