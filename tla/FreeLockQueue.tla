---------------------------- MODULE FreeLockQueue ----------------------------
(***************************************************************************)
(* ua::FreeLockQueue (containers/queue_lock_free.h): a ring of slots that  *)
(* several threads push to and one thread pops from, without locks.        *)
(*                                                                         *)
(* Each action is one access to shared memory: a load or a store of an     *)
(* atomic, a compare-exchange, or the plain copy of an item into or out of *)
(* a slot.  Interleaving whole accesses is enough: every value that leads  *)
(* a thread to touch a slot is read with acquire from a release store (the *)
(* one relaxed load, of the tail, is confirmed by the compare-exchange).   *)
(*                                                                         *)
(* The operands of == are evaluated in either order, so the two loads of   *)
(* IsEmpty and of IsFull come in either order here.  A version counts the  *)
(* claims of a slot; it is unbounded here, 32 bits wide in the code.       *)
(***************************************************************************)
EXTENDS Naturals, Sequences, FiniteSets

CONSTANTS
  Producers, Consumers,    \* the threads that push, and those that pop
  Items, NoItem,           \* what is pushed, each item once; DATA_TYPE{}
  QUEUE_SIZE,              \* slots of the ring; one always stays free
  MAX_TRY_TIMES            \* rounds of Push's loop: 100 in the code

ASSUME QueueAssumption ==
  /\ QUEUE_SIZE \in Nat /\ QUEUE_SIZE > 1
  /\ MAX_TRY_TIMES \in Nat \ {0}
  /\ NoItem \notin Items

VARIABLES
  data_, data_flag_,           \* the slots, and whether each has been written
  head_index_, tail_index_,    \* the atomic indices
  prod,                        \* the local state of each producer's Push
  cons,                        \* the local state of each consumer's Pop
  received                     \* the items Pop has returned, in order

ring == <<data_, data_flag_, head_index_, tail_index_>>
vars == <<data_, data_flag_, head_index_, tail_index_, prod, cons, received>>

Slots == 0 .. (QUEUE_SIZE - 1)
Zero == [version |-> 0, index |-> 0]

NextIndex(i) == [version |-> i.version + 1, index |-> (i.index + 1) % QUEUE_SIZE]

\* Mutant: no slot is kept free, so a full ring looks like an empty one.
LooksFull_NoSpare(tail, head) == tail.version = head.version + QUEUE_SIZE

\* The comparisons of IsEmpty and IsFull, on the values they loaded.
LooksEmpty(tail, head) == tail.index = head.index
LooksFull(tail, head) == (tail.index + 1) % QUEUE_SIZE = head.index

\* A thread outside Push, or outside Pop.  seen holds what the first of two
\* loads returned.
IdleProducer == [pc |-> "idle", item |-> NoItem, old |-> Zero, seen |-> Zero, try |-> 0]
IdleConsumer == [pc |-> "idle", old |-> Zero, seen |-> Zero, val |-> NoItem]

Init ==
  /\ data_ = [k \in Slots |-> NoItem]
  /\ data_flag_ = [k \in Slots |-> FALSE]
  /\ head_index_ = Zero /\ tail_index_ = Zero
  /\ prod = [p \in Producers |-> IdleProducer]
  /\ cons = [c \in Consumers |-> IdleConsumer]
  /\ received = <<>>

\* The item claimed by version v of the ring, even if it is still to be copied.
Writers(v) == {p \in Producers : prod[p].pc = "write" /\ prod[p].old.version = v}
ClaimedItem(v) ==
  IF Writers(v) # {} THEN prod[CHOOSE p \in Writers(v) : TRUE].item
  ELSE data_[v % QUEUE_SIZE]

Pending == [n \in 1 .. (tail_index_.version - head_index_.version) |->
              ClaimedItem(head_index_.version + n - 1)]

\* Items no thread is pushing and that were not accepted before.
Fresh(i) ==
  /\ \A p \in Producers : prod[p].item # i
  /\ \A n \in DOMAIN Pending : Pending[n] # i
  /\ \A n \in DOMAIN received : received[n] # i

-----------------------------------------------------------------------------
\* Push.

PushBegin(p, i) ==
  /\ prod[p].pc = "idle"
  /\ Fresh(i)
  /\ prod' = [prod EXCEPT ![p] = [IdleProducer EXCEPT !.pc = "load", !.item = i]]
  /\ UNCHANGED <<ring, cons, received>>

\* A Push that fails returns its error code and changes nothing.
PushFails(p) ==
  /\ prod' = [prod EXCEPT ![p] = IdleProducer]
  /\ UNCHANGED <<ring, cons, received>>

TryMax(p) ==
  /\ prod[p].pc = "load" /\ prod[p].try >= MAX_TRY_TIMES
  /\ PushFails(p)

LoadTail(p) ==
  /\ prod[p].pc = "load" /\ prod[p].try < MAX_TRY_TIMES
  /\ prod' = [prod EXCEPT ![p].pc = "full", ![p].old = tail_index_]
  /\ UNCHANGED <<ring, cons, received>>

\* The first of the two loads of IsFull.
FullFirstLoad(p) ==
  /\ prod[p].pc = "full"
  /\ \/ prod' = [prod EXCEPT ![p].pc = "full_head", ![p].seen = tail_index_]
     \/ prod' = [prod EXCEPT ![p].pc = "full_tail", ![p].seen = head_index_]
  /\ UNCHANGED <<ring, cons, received>>

\* What IsFull answers when the second load is done.
FullAnswer(p) ==
  \/ prod[p].pc = "full_head" /\ LooksFull(prod[p].seen, head_index_)
  \/ prod[p].pc = "full_tail" /\ LooksFull(tail_index_, prod[p].seen)

QueueFull(p) ==
  /\ prod[p].pc \in {"full_head", "full_tail"} /\ FullAnswer(p)
  /\ PushFails(p)

\* Mutant: the rounds of the loop are not counted.
NotFull_Uncounted(p) ==
  /\ prod[p].pc \in {"full_head", "full_tail"} /\ ~FullAnswer(p)
  /\ prod' = [prod EXCEPT ![p].pc = "cas"]
  /\ UNCHANGED <<ring, cons, received>>

NotFull(p) ==
  /\ prod[p].pc \in {"full_head", "full_tail"} /\ ~FullAnswer(p)
  /\ prod' = [prod EXCEPT ![p].pc = "cas", ![p].try = @ + 1]
  /\ UNCHANGED <<ring, cons, received>>

\* Mutant: a plain store instead of the compare-exchange.
Claim_Store(p) ==
  /\ prod[p].pc = "cas"
  /\ tail_index_' = NextIndex(prod[p].old)
  /\ prod' = [prod EXCEPT ![p].pc = "write"]
  /\ UNCHANGED <<data_, data_flag_, head_index_, cons, received>>

\* The compare-exchange claims the slot at the tail...
Claim(p) ==
  /\ prod[p].pc = "cas"
  /\ tail_index_ = prod[p].old
  /\ tail_index_' = NextIndex(prod[p].old)
  /\ prod' = [prod EXCEPT ![p].pc = "write"]
  /\ UNCHANGED <<data_, data_flag_, head_index_, cons, received>>

\* ...or fails, which the weak form may do at any time.
ClaimFails(p) ==
  /\ prod[p].pc = "cas"
  /\ prod' = [prod EXCEPT ![p].pc = "load"]
  /\ UNCHANGED <<ring, cons, received>>

WriteData(p) ==
  /\ prod[p].pc = "write"
  /\ data_' = [data_ EXCEPT ![prod[p].old.index] = prod[p].item]
  /\ prod' = [prod EXCEPT ![p].pc = "flag"]
  /\ UNCHANGED <<data_flag_, head_index_, tail_index_, cons, received>>

\* Mutant: the flag is not raised.
SetFlag_Forgotten(p) ==
  /\ prod[p].pc = "flag"
  /\ prod' = [prod EXCEPT ![p] = IdleProducer]
  /\ UNCHANGED <<ring, cons, received>>

SetFlag(p) ==
  /\ prod[p].pc = "flag"
  /\ data_flag_' = [data_flag_ EXCEPT ![prod[p].old.index] = TRUE]
  /\ prod' = [prod EXCEPT ![p] = IdleProducer]
  /\ UNCHANGED <<data_, head_index_, tail_index_, cons, received>>

-----------------------------------------------------------------------------
\* Pop.

\* The first of the two loads of IsEmpty.
EmptyFirstLoad(c) ==
  /\ cons[c].pc = "idle"
  /\ \/ cons' = [cons EXCEPT ![c].pc = "empty_head", ![c].seen = tail_index_]
     \/ cons' = [cons EXCEPT ![c].pc = "empty_tail", ![c].seen = head_index_]
  /\ UNCHANGED <<ring, prod, received>>

EmptyAnswer(c) ==
  \/ cons[c].pc = "empty_head" /\ LooksEmpty(cons[c].seen, head_index_)
  \/ cons[c].pc = "empty_tail" /\ LooksEmpty(tail_index_, cons[c].seen)

EmptySecondLoad(c) ==
  /\ cons[c].pc \in {"empty_head", "empty_tail"}
  /\ cons' = [cons EXCEPT ![c] =
                IF EmptyAnswer(c) THEN IdleConsumer ELSE [IdleConsumer EXCEPT !.pc = "head"]]
  /\ UNCHANGED <<ring, prod, received>>

LoadHead(c) ==
  /\ cons[c].pc = "head"
  /\ cons' = [cons EXCEPT ![c].pc = "check", ![c].old = head_index_]
  /\ UNCHANGED <<ring, prod, received>>

\* A claimed slot whose item is not there yet makes Pop return Again.
CheckFlag(c) ==
  /\ cons[c].pc = "check"
  /\ cons' = [cons EXCEPT ![c] =
                IF data_flag_[@.old.index] THEN [@ EXCEPT !.pc = "read"] ELSE IdleConsumer]
  /\ UNCHANGED <<ring, prod, received>>

ReadData(c) ==
  /\ cons[c].pc = "read"
  /\ cons' = [cons EXCEPT ![c].pc = "clear", ![c].val = data_[cons[c].old.index]]
  /\ UNCHANGED <<ring, prod, received>>

ClearFlag(c) ==
  /\ cons[c].pc = "clear"
  /\ data_flag_' = [data_flag_ EXCEPT ![cons[c].old.index] = FALSE]
  /\ cons' = [cons EXCEPT ![c].pc = "store"]
  /\ UNCHANGED <<data_, head_index_, tail_index_, prod, received>>

StoreHead(c) ==
  /\ cons[c].pc = "store"
  /\ head_index_' = NextIndex(cons[c].old)
  /\ received' = Append(received, cons[c].val)
  /\ cons' = [cons EXCEPT ![c] = IdleConsumer]
  /\ UNCHANGED <<data_, data_flag_, tail_index_, prod>>

-----------------------------------------------------------------------------
\* The steps a Push, or a Pop, takes once it has been called.
PushStep(p) ==
  \/ TryMax(p) \/ LoadTail(p) \/ FullFirstLoad(p) \/ QueueFull(p) \/ NotFull(p)
  \/ Claim(p) \/ ClaimFails(p) \/ WriteData(p) \/ SetFlag(p)

PopStep(c) ==
  \/ EmptyFirstLoad(c) \/ EmptySecondLoad(c) \/ LoadHead(c) \/ CheckFlag(c)
  \/ ReadData(c) \/ ClearFlag(c) \/ StoreHead(c)

Next ==
  \/ \E p \in Producers : (\E i \in Items : PushBegin(p, i)) \/ PushStep(p)
  \/ \E c \in Consumers : PopStep(c)

Spec == Init /\ [][Next]_vars

\* Every thread keeps running, and a consumer keeps calling Pop.
FairSpec ==
  /\ Spec
  /\ \A p \in Producers : WF_vars(PushStep(p))
  /\ \A c \in Consumers : WF_vars(PopStep(c))

-----------------------------------------------------------------------------
Index == [version : Nat, index : Slots]
PushState ==
  [pc : {"idle", "load", "full", "full_head", "full_tail", "cas", "write", "flag"},
   item : Items \cup {NoItem}, old : Index, seen : Index, try : 0 .. MAX_TRY_TIMES]
PopState ==
  [pc : {"idle", "empty_head", "empty_tail", "head", "check", "read", "clear", "store"},
   old : Index, seen : Index, val : Items \cup {NoItem}]

TypeOK ==
  /\ data_ \in [Slots -> Items \cup {NoItem}]
  /\ data_flag_ \in [Slots -> BOOLEAN]
  /\ head_index_ \in Index /\ tail_index_ \in Index
  /\ prod \in [Producers -> PushState]
  /\ cons \in [Consumers -> PopState]
  /\ received \in Seq(Items \cup {NoItem})

\* Nobody copies into or out of a slot while another thread copies into it.
NoDataRace ==
  /\ \A p, q \in Producers :
       prod[p].pc = "write" /\ prod[q].pc = "write" /\ prod[p].old.index = prod[q].old.index
         => p = q
  /\ \A p \in Producers, c \in Consumers :
       ~(prod[p].pc = "write" /\ cons[c].pc = "read" /\ prod[p].old.index = cons[c].old.index)

\* A slot's flag is up exactly while the slot holds an item that was copied in
\* and not yet taken: every claimed slot is flagged, or its producer is still on
\* its way, or the consumer has just taken the item.
FlagsMarkItems ==
  \A k \in Slots :
    data_flag_[k] <=>
      \E v \in head_index_.version .. (tail_index_.version - 1) :
        /\ v % QUEUE_SIZE = k
        /\ \A p \in Producers :
             ~(prod[p].pc \in {"write", "flag"} /\ prod[p].old.version = v)
        /\ \A c \in Consumers : ~(cons[c].pc = "store" /\ cons[c].old.version = v)

\* A slot belongs to one thread at a time, and its flag says whose turn it is.
SlotsAreOwned == TypeOK /\ NoDataRace /\ FlagsMarkItems

\* Popped in the order of the claims, none lost, none twice, never beyond the
\* capacity: the ring implements a bounded queue with single-step operations.
Fifo == INSTANCE BoundedFifo WITH
  Capacity <- QUEUE_SIZE - 1, fifo <- Pending, received <- received

ImplementsFifo == Fifo!FifoSpec

\* Push returns, however often the compare-exchange fails.
PushReturns == \A p \in Producers : prod[p].pc # "idle" ~> prod[p].pc = "idle"

\* An accepted item reaches the consumer.
AcceptedItemsArrive ==
  \A i \in Items : (\E p \in Producers : prod[p].pc = "write" /\ prod[p].item = i)
                     ~> (\E n \in DOMAIN received : received[n] = i)
=============================================================================
