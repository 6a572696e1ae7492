---------------------------- MODULE MCFlowControl ----------------------------
\* Small instances of FlowControl.
EXTENDS FlowControl

\* Options of a server: the packet limits, the two steps, and the time limits
\* of a round, some of which CheckOption refuses.
Configured(mins, maxs, incs, decs, judges, on_procs) ==
  {o \in [max_deal_pkg_num : maxs, max_num : maxs, min_num : mins,
          inc_delta : incs, dec_delta : decs, judge_range_ms : judges,
          max_proc_ms : {3}, max_ctx_proc_ms : {2}, min_on_proc_ms : on_procs] :
     o.max_num >= o.max_deal_pkg_num}

\* Between 1 and 4, steps of 0, which do nothing, of 1, which fit several
\* times, of 2, which fit once and a bit, and of 4, which overshoot; and limits
\* that leave no choice.
Sound == Configured({1}, {4}, {0, 1}, {0, 2}, {1}, {1, 4})
           \cup Configured({1}, {4}, {2}, {1, 4}, {1}, {1, 4})
           \cup Configured({2}, {2}, {1}, {3}, {1}, {1, 4})

Readings == {0, 2, 3}
=============================================================================
