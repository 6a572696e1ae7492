----------------------------- MODULE CallLedger -----------------------------
(***************************************************************************)
(* What the RPC runtime promises about calls, without timers, contexts or  *)
(* callbacks.  A call is issued once under its id; it is then either       *)
(* refused on the spot or open until a deadline; an open call is closed    *)
(* exactly once, by an answer while the network is being served, or, while *)
(* timeouts are being served, by its deadline having passed.               *)
(***************************************************************************)
EXTENDS Naturals

CONSTANTS CallIds, Delays

VARIABLES
  issued,        \* the ids used so far
  open,          \* the open calls, each with its deadline
  clock,
  in_timeouts    \* timeouts are being served, rather than the network

ledger_vars == <<issued, open, clock, in_timeouts>>

LedgerInit ==
  /\ issued = {}
  /\ open = [id \in {} |-> 0]
  /\ clock = 0
  /\ in_timeouts = FALSE

Issue(id, delay) ==
  /\ id \notin issued
  /\ issued' = issued \cup {id}
  /\ open' = [x \in DOMAIN open \cup {id} |-> IF x = id THEN clock + delay ELSE open[x]]
  /\ UNCHANGED <<clock, in_timeouts>>

Refuse(id) ==
  /\ id \notin issued
  /\ issued' = issued \cup {id}
  /\ UNCHANGED <<open, clock, in_timeouts>>

Close(id) ==
  /\ id \in DOMAIN open
  /\ open' = [x \in DOMAIN open \ {id} |-> open[x]]
  /\ UNCHANGED <<issued, clock, in_timeouts>>

Answer(id) == ~in_timeouts /\ Close(id)

Expire(id) == in_timeouts /\ id \in DOMAIN open /\ open[id] <= clock /\ Close(id)

PassTime == clock' = clock + 1 /\ ~in_timeouts /\ UNCHANGED <<issued, open, in_timeouts>>

SwitchPhase == in_timeouts' = ~in_timeouts /\ UNCHANGED <<issued, open, clock>>

LedgerNext ==
  \/ \E id \in CallIds : \/ \E d \in Delays : Issue(id, d)
                         \/ Refuse(id)
                         \/ Answer(id)
                         \/ Expire(id)
  \/ PassTime
  \/ SwitchPhase

LedgerSpec == LedgerInit /\ [][LedgerNext]_ledger_vars
=============================================================================
