------------------------- MODULE FreeLockQueueProofs -------------------------
(***************************************************************************)
(* Proofs about FreeLockQueue, for any number of producers, any size of    *)
(* the ring and any number of rounds.  The one hypothesis is OneConsumer:  *)
(* one thread pops, as the comment of the class has it.  Two would both    *)
(* load the head and take the same item, as Pop has no compare-exchange.   *)
(* The argument follows versions, which grow for ever, and reads a slot as *)
(* the remainder of one: at any moment the versions from the head on, a    *)
(* ring's length of them, have slots of their own (Slot* lemmas), each     *)
(* version between head and tail has one writer or a finished item, and a  *)
(* thread's view of an index is never ahead of the index.                  *)
(***************************************************************************)
EXTENDS FreeLockQueue, SequenceTheorems, TLAPS

\* There is one consumer, as the comment of the class has it.
OneConsumer == \A c, d \in Consumers : c = d

Slot(v) == v % QUEUE_SIZE
H == head_index_.version
T == tail_index_.version
InPlace(i) == i.index = Slot(i.version)

\* A producer between its compare-exchange and the end of its Push.
Busy(p) == prod[p].pc \in {"write", "flag"}
Held(v) == \E p \in Producers : Busy(p) /\ prod[p].old.version = v
Taken(v) == \E c \in Consumers : cons[c].pc = "store" /\ cons[c].old.version = v

Positions ==
  /\ InPlace(head_index_) /\ InPlace(tail_index_)
  /\ \A p \in Producers : InPlace(prod[p].old) /\ InPlace(prod[p].seen)
  /\ \A c \in Consumers : InPlace(cons[c].old) /\ InPlace(cons[c].seen)

Window == H <= T /\ T < H + QUEUE_SIZE

Claims ==
  /\ \A p \in Producers : Busy(p) => H <= prod[p].old.version /\ prod[p].old.version < T
  /\ \A p, q \in Producers :
       Busy(p) /\ Busy(q) /\ prod[p].old.version = prod[q].old.version => p = q

\* What a producer x knows before its compare-exchange: if the tail is still
\* the one it loaded, there is room.
PushView(x) ==
  /\ x.pc # "idle" => x.item \in Items
  /\ x.pc \in {"full", "full_head", "full_tail"} => x.try < MAX_TRY_TIMES
  /\ x.pc \in {"full", "full_head", "full_tail", "cas"} => x.old.version <= T
  /\ x.pc = "full_head" => x.old.version <= x.seen.version /\ x.seen.version <= T
  /\ x.pc = "full_tail" =>
       x.seen.version <= H /\ (T = x.old.version => T < x.seen.version + QUEUE_SIZE)
  /\ x.pc = "cas" => (T = x.old.version => T + 1 < H + QUEUE_SIZE)

\* What the consumer y knows: the head moves by its own hand only.
PopView(y) ==
  /\ y.pc = "empty_head" => H <= y.seen.version /\ y.seen.version <= T
  /\ y.pc = "empty_tail" => y.seen = head_index_
  /\ y.pc \in {"head", "check", "read", "clear", "store"} => H < T
  /\ y.pc \in {"check", "read", "clear", "store"} => y.old = head_index_
  /\ y.pc \in {"read", "clear", "store"} => ~Held(H)
  /\ y.pc \in {"clear", "store"} => y.val = data_[Slot(H)]

Views ==
  /\ \A p \in Producers : PushView(prod[p])
  /\ \A c \in Consumers : PopView(cons[c])

\* The flags of the round that begins at the head, one for each slot.
Flags ==
  \A v \in Nat : H <= v /\ v < H + QUEUE_SIZE =>
    (data_flag_[Slot(v)] <=> v < T /\ ~Held(v) /\ ~Taken(v))

Writes(p, v) == prod[p].pc = "write" /\ prod[p].old.version = v

Contents ==
  \A v \in Nat : H <= v /\ v < T =>
    (\E p \in Producers : Writes(p, v)) \/ data_[Slot(v)] \in Items

QInv == TypeOK /\ Positions /\ Window /\ Claims /\ Views /\ Flags /\ Contents

\* Division leaves a remainder: what % means, as the provers see it.
LEMMA Remainder ==
  ASSUME NEW n \in Nat \ {0}, NEW a \in Nat
  PROVE  \E q \in Nat : a = n * q + (a % n) /\ a % n \in 0 .. (n - 1)
<1> DEFINE q == a \div n
           r == a % n
<1>1. q \in Int /\ r \in 0 .. (n - 1)
  OBVIOUS
<1>2. a = n * q + r
  OBVIOUS
<1> HIDE DEF q, r
<1>3. q >= 0
  <2>1. CASE q <= -1
    BY <2>1, <1>1, <1>2
  <2> QED BY <2>1, <1>1
<1>4. \E x \in Nat : a = n * x + r /\ r \in 0 .. (n - 1)
  BY <1>1, <1>2, <1>3
<1> QED BY <1>4 DEF r

\* There is one way to write a number as a multiple and a remainder.
LEMMA OneRemainder ==
  ASSUME NEW n \in Nat \ {0}, NEW q \in Int, NEW p \in Int,
         NEW r \in 0 .. (n - 1), NEW s \in Int, s > -n, s < n,
         n * q + r = n * p + r + s
  PROVE  s = 0
<1>1. n * (q - p) = s
  OBVIOUS
<1>2. CASE q - p >= 1
  BY <1>1, <1>2
<1>3. CASE q - p <= -1
  BY <1>1, <1>3
<1> QED BY <1>1, <1>2, <1>3

\* ... so a quotient and a remainder that fit are the ones.
LEMMA RemainderIs ==
  ASSUME NEW n \in Nat \ {0}, NEW q \in Nat, NEW r \in 0 .. (n - 1)
  PROVE  (n * q + r) % n = r
<1> DEFINE a == n * q + r
           u == a % n
<1>1. a \in Nat /\ n * q \in Int
  OBVIOUS
<1>2. PICK p \in Nat : a = n * p + u /\ u \in 0 .. (n - 1)
  BY <1>1, Remainder
<1>3. n * p \in Int
  OBVIOUS
<1> HIDE DEF u
<1>4. n * q + u = n * p + u + (u - r)
  BY <1>1, <1>2, <1>3
<1>5. u - r \in Int /\ u - r > -n /\ u - r < n
  BY <1>2
<1>6. u - r = 0
  BY <1>2, <1>4, <1>5, OneRemainder
<1> QED BY <1>2, <1>6 DEF u

\* A version, its round and its slot.
LEMMA SlotOf ==
  /\ \A v \in Nat : \E q \in Nat : v = QUEUE_SIZE * q + Slot(v) /\ Slot(v) \in 0 .. (QUEUE_SIZE - 1)
  /\ \A q \in Nat, r \in 0 .. (QUEUE_SIZE - 1) : Slot(QUEUE_SIZE * q + r) = r
<1>1. QUEUE_SIZE \in Nat \ {0}
  BY QueueAssumption
<1> QED BY <1>1, Remainder, RemainderIs DEF Slot

\* A slot is a slot of the ring.
LEMMA SlotType == \A v \in Nat : Slot(v) \in Slots
  BY SlotOf DEF Slots

\* Versions of one round have different slots.
LEMMA SlotInj ==
  ASSUME NEW v \in Nat, NEW w \in Nat, v < w + QUEUE_SIZE, w < v + QUEUE_SIZE, Slot(v) = Slot(w)
  PROVE  v = w
<1> DEFINE a(q) == QUEUE_SIZE * q
<1>0. QUEUE_SIZE \in Nat \ {0} /\ \A q \in Nat : a(q) \in Int
  BY QueueAssumption
<1>1. PICK q \in Nat : v = a(q) + Slot(v) /\ Slot(v) \in 0 .. (QUEUE_SIZE - 1)
  BY SlotOf
<1>2. PICK p \in Nat : w = a(p) + Slot(w)
  BY SlotOf
<1> HIDE DEF a
<1>3. /\ v - w \in Int /\ v - w > -QUEUE_SIZE /\ v - w < QUEUE_SIZE
      /\ a(q) + Slot(v) = a(p) + Slot(v) + (v - w)
  BY <1>0, <1>1, <1>2
<1>4. QUEUE_SIZE * q + Slot(v) = QUEUE_SIZE * p + Slot(v) + (v - w)
  BY <1>3 DEF a
<1>5. v - w = 0
  BY <1>0, <1>1, <1>3, <1>4, OneRemainder
<1> QED BY <1>5

\* NextIndex moves the slot as it moves the version.
LEMMA SlotNext ==
  ASSUME NEW v \in Nat
  PROVE  (Slot(v) + 1) % QUEUE_SIZE = Slot(v + 1)
<1> DEFINE n == QUEUE_SIZE
<1>0. n \in Nat \ {0} /\ n > 1
  BY QueueAssumption
<1>1. PICK q \in Nat : v = n * q + Slot(v) /\ Slot(v) \in 0 .. (n - 1)
  BY SlotOf
<1>a. n * q \in Int /\ n * (q + 1) = n * q + n /\ n * 0 = 0 /\ n * 1 = n
  BY <1>0
<1> HIDE DEF n
<1>2. CASE Slot(v) + 1 < n
  <2>1. v + 1 = n * q + (Slot(v) + 1) /\ Slot(v) + 1 = n * 0 + (Slot(v) + 1)
        /\ Slot(v) + 1 \in 0 .. (n - 1)
    BY <1>0, <1>1, <1>a, <1>2
  <2>2. Slot(v + 1) = Slot(v) + 1
    BY <2>1, SlotOf DEF n
  <2>3. Slot(Slot(v) + 1) = Slot(v) + 1
    BY <2>1, SlotOf DEF n
  <2> QED BY <2>2, <2>3 DEF Slot
<1>3. CASE Slot(v) + 1 = n
  <2>1. v + 1 = n * (q + 1) + 0 /\ Slot(v) + 1 = n * 1 + 0 /\ 0 \in 0 .. (n - 1)
        /\ q + 1 \in Nat
    BY <1>0, <1>1, <1>a, <1>3
  <2>2. Slot(v + 1) = 0
    BY <2>1, SlotOf DEF n
  <2>3. Slot(Slot(v) + 1) = 0
    BY <2>1, SlotOf DEF n
  <2> QED BY <2>2, <2>3 DEF Slot
<1> QED BY <1>0, <1>1, <1>2, <1>3

\* Every slot is that of a version of the round that begins at h.
LEMMA SlotOnto ==
  ASSUME NEW h \in Nat, NEW k \in Slots
  PROVE  \E v \in h .. (h + QUEUE_SIZE - 1) : Slot(v) = k
<1> DEFINE n == QUEUE_SIZE
<1>0. n \in Nat \ {0} /\ k \in 0 .. (n - 1)
  BY QueueAssumption DEF Slots
<1>1. PICK q \in Nat : h = n * q + Slot(h) /\ Slot(h) \in 0 .. (n - 1)
  BY SlotOf
<1>2. n * q \in Int /\ n * (q + 1) = n * q + n
  BY <1>0
<1>3. Slot(n * q + k) = k /\ Slot(n * (q + 1) + k) = k
  <2>1. q + 1 \in Nat
    OBVIOUS
  <2> QED BY <2>1, <1>0, SlotOf
<1> HIDE DEF n
<1>4. CASE k >= Slot(h)
  <2>1. n * q + k \in h .. (h + n - 1)
    BY <1>0, <1>1, <1>2, <1>4
  <2> QED BY <2>1, <1>3 DEF n
<1>5. CASE k < Slot(h)
  <2>1. n * (q + 1) + k \in h .. (h + n - 1)
    BY <1>0, <1>1, <1>2, <1>5
  <2> QED BY <2>1, <1>3 DEF n
<1> QED BY <1>0, <1>1, <1>4, <1>5

------------------------------------------------------------------------------
\* A step that writes nothing into the ring and changes no writer changes
\* nothing in the queue.
LEMMA SameQueue ==
  ASSUME UNCHANGED <<data_, head_index_, tail_index_>>,
         \A v : Writers(v)' = Writers(v),
         \A v, q : q \in Writers(v) => prod'[q] = prod[q]
  PROVE  Pending' = Pending
<1>1. ASSUME NEW v PROVE ClaimedItem(v)' = ClaimedItem(v)
  <2> DEFINE w == CHOOSE q \in Writers(v) : TRUE
  <2>1. w' = w
    OBVIOUS
  <2>2. CASE Writers(v) = {}
    BY <2>2 DEF ClaimedItem
  <2>3. CASE Writers(v) # {}
    <3>1. w \in Writers(v)
      BY <2>3
    <3>2. prod'[w'] = prod[w]
      BY <2>1, <3>1
    <3> QED BY <3>2, <2>3 DEF ClaimedItem
  <2> QED BY <2>2, <2>3
<1> QED BY <1>1 DEF Pending

\* A thread between two calls has a state of its type, and is nowhere in a call.
LEMMA IdleFits ==
  /\ IdleProducer \in PushState /\ InPlace(IdleProducer.old) /\ InPlace(IdleProducer.seen)
  /\ IdleConsumer \in PopState /\ InPlace(IdleConsumer.old) /\ InPlace(IdleConsumer.seen)
  /\ IdleProducer.pc = "idle" /\ IdleConsumer.pc = "idle"
  /\ Zero \in Index /\ InPlace(Zero)
<1>1. 0 \in Slots /\ QUEUE_SIZE * 0 + 0 = 0
  BY QueueAssumption DEF Slots
<1>2. Slot(0) = 0
  BY <1>1, SlotOf DEF Slots
<1>3. Zero \in Index /\ InPlace(Zero)
  BY <1>1, <1>2 DEF Zero, Index, InPlace
<1>4. IdleProducer \in PushState /\ IdleConsumer \in PopState
  BY <1>3, QueueAssumption DEF IdleProducer, IdleConsumer, PushState, PopState
<1> QED BY <1>3, <1>4 DEF IdleProducer, IdleConsumer

\* An empty ring satisfies the invariant.
LEMMA QInit == Init => QInv
<1> SUFFICES ASSUME Init PROVE QInv
  OBVIOUS
<1>3. TypeOK
  BY IdleFits DEF Init, TypeOK
<1>4. Positions
  BY IdleFits DEF Init, Positions, IdleProducer, IdleConsumer
<1>5. Window /\ Claims
  BY QueueAssumption DEF Init, Window, Claims, Busy, H, T, Zero, IdleProducer
<1>6. Views
  BY DEF Init, Views, PushView, PopView, IdleProducer, IdleConsumer
<1>7. Flags
  BY SlotType DEF Init, Flags, H, T, Zero
<1>8. Contents
  BY DEF Init, Contents, H, T, Zero
<1> QED BY <1>3, <1>4, <1>5, <1>6, <1>7, <1>8 DEF QInv

\* A step of a Push that claims, writes and flags nothing.
LEMMA ProducerThinks ==
  ASSUME QInv, NEW p \in Producers, NEW x \in PushState,
         prod' = [prod EXCEPT ![p] = x], UNCHANGED <<ring, cons, received>>,
         ~Busy(p), x.pc \notin {"write", "flag"},
         InPlace(x.old), InPlace(x.seen), PushView(x)
  PROVE  QInv' /\ UNCHANGED <<Pending, received>>
<1>1. prod'[p] = x /\ \A q \in Producers : q # p => prod'[q] = prod[q]
  BY DEF QInv, TypeOK
<1>2. \A q \in Producers : Busy(q)' <=> Busy(q)
  BY <1>1 DEF Busy
<1>3. \A q \in Producers : Busy(q) => prod'[q] = prod[q]
  BY <1>1
<1>4. \A v : (Held(v)' <=> Held(v)) /\ (Taken(v)' <=> Taken(v))
  BY <1>2, <1>3 DEF Held, Taken, ring
<1>5. \A q \in Producers : \A v : Writes(q, v)' <=> Writes(q, v)
  BY <1>1 DEF Writes, Busy
<1>6. H' = H /\ T' = T
  BY DEF H, T, ring
<1>7. TypeOK'
  BY DEF QInv, TypeOK, ring
<1>8. Positions'
  BY <1>1 DEF QInv, Positions, ring, InPlace
<1>9. Window' /\ Claims'
  BY <1>2, <1>3, <1>6 DEF QInv, Window, Claims
<1>10. Views'
  <2>1. \A q \in Producers : PushView(prod[q])'
    BY <1>1, <1>6 DEF QInv, Views, PushView
  <2>2. \A c \in Consumers : PopView(cons[c])'
    BY <1>4, <1>6 DEF QInv, Views, PopView, ring
  <2> QED BY <2>1, <2>2 DEF Views
<1>11. Flags'
  BY <1>4, <1>6 DEF QInv, Flags, ring
<1>12. Contents'
  BY <1>5, <1>6 DEF QInv, Contents, ring
<1>13. Pending' = Pending
  <2>1. \A v : Writers(v)' = Writers(v)
    BY <1>5 DEF Writers, Writes
  <2>2. \A v, q : q \in Writers(v) => prod'[q] = prod[q]
    BY <1>3 DEF Writers, Busy
  <2> QED BY <2>1, <2>2, SameQueue DEF ring
<1> QED BY <1>7, <1>8, <1>9, <1>10, <1>11, <1>12, <1>13 DEF QInv

\* A step of a Pop that takes nothing.
LEMMA ConsumerThinks ==
  ASSUME QInv, NEW c \in Consumers, NEW y \in PopState,
         cons' = [cons EXCEPT ![c] = y], UNCHANGED <<ring, prod, received>>,
         cons[c].pc # "store", y.pc # "store",
         InPlace(y.old), InPlace(y.seen), PopView(y)
  PROVE  QInv' /\ UNCHANGED <<Pending, received>>
<1>1. cons'[c] = y /\ \A d \in Consumers : d # c => cons'[d] = cons[d]
  BY DEF QInv, TypeOK
<1>2. \A v : (Held(v)' <=> Held(v)) /\ (Taken(v)' <=> Taken(v))
  BY <1>1 DEF Held, Taken, Busy
<1>3. H' = H /\ T' = T
  BY DEF H, T, ring
<1>4. TypeOK'
  BY DEF QInv, TypeOK, ring
<1>5. Positions'
  BY <1>1 DEF QInv, Positions, ring, InPlace
<1>6. Window' /\ Claims'
  BY <1>3 DEF QInv, Window, Claims, Busy
<1>7. Views'
  <2>1. \A q \in Producers : PushView(prod[q])'
    BY <1>3 DEF QInv, Views, PushView
  <2>2. \A d \in Consumers : PopView(cons[d])'
    BY <1>1, <1>2, <1>3 DEF QInv, Views, PopView, ring
  <2> QED BY <2>1, <2>2 DEF Views
<1>8. Flags'
  BY <1>2, <1>3 DEF QInv, Flags, ring
<1>9. Contents'
  BY <1>3 DEF QInv, Contents, Writes, ring
<1>10. Pending' = Pending
  BY DEF Pending, ClaimedItem, Writers, ring
<1> QED BY <1>4, <1>5, <1>6, <1>7, <1>8, <1>9, <1>10 DEF QInv

\* The queue as a sequence: its items are those of the producers that are still
\* to write them, and those in their slots.
At(v) == v - H + 1

QueueFacts ==
  /\ Pending \in Seq(Items) /\ Len(Pending) = T - H
  /\ \A v \in Nat : H <= v /\ v < T =>
       /\ \A p \in Producers : Writes(p, v) => Pending[At(v)] = prod[p].item
       /\ (\A p \in Producers : ~Writes(p, v)) => Pending[At(v)] = data_[Slot(v)]

\* What Pending, the queue the ring stands for, holds: one item per claimed version,
\* the claimer's until it is written and the slot's from then on.
LEMMA QueueIs == QInv => QueueFacts
<1> SUFFICES ASSUME QInv PROVE QueueFacts
  OBVIOUS
<1>1. H \in Nat /\ T \in Nat /\ H <= T
  BY DEF QInv, TypeOK, Index, Window, H, T
<1>2. ASSUME NEW v \in Nat, H <= v, v < T
      PROVE  /\ \A p \in Producers : Writes(p, v) => ClaimedItem(v) = prod[p].item
             /\ (\A p \in Producers : ~Writes(p, v)) => ClaimedItem(v) = data_[Slot(v)]
             /\ ClaimedItem(v) \in Items
  <2>1. CASE \A p \in Producers : ~Writes(p, v)
    <3>1. Writers(v) = {}
      BY <2>1 DEF Writers, Writes
    <3>2. ClaimedItem(v) = data_[Slot(v)]
      BY <3>1 DEF ClaimedItem, Slot
    <3> QED BY <1>2, <2>1, <3>2 DEF QInv, Contents
  <2>2. CASE \E p \in Producers : Writes(p, v)
    <3> PICK p \in Producers : Writes(p, v)
      BY <2>2
    <3>1. \A q \in Producers : Writes(q, v) => q = p
      BY DEF QInv, Claims, Writes, Busy
    <3>2. Writers(v) = {p}
      BY <3>1 DEF Writers, Writes
    <3>3. ClaimedItem(v) = prod[p].item
      BY <3>2 DEF ClaimedItem
    <3>4. prod[p].item \in Items
      BY DEF Writes, QInv, Views, PushView
    <3> QED BY <3>1, <3>3, <3>4
  <2> QED BY <2>1, <2>2
<1>3. Pending = [n \in 1 .. (T - H) |-> ClaimedItem(H + n - 1)]
  BY DEF Pending, H, T
<1>4. \A n \in 1 .. (T - H) : ClaimedItem(H + n - 1) \in Items
  <2> TAKE n \in 1 .. (T - H)
  <2>1. H + n - 1 \in Nat /\ H <= H + n - 1 /\ H + n - 1 < T
    BY <1>1
  <2> QED BY <2>1, <1>2
<1>5. Pending \in Seq(Items) /\ Len(Pending) = T - H
  BY <1>1, <1>3, <1>4
<1>6. \A v \in Nat : H <= v /\ v < T => Pending[At(v)] = ClaimedItem(v)
  <2> SUFFICES ASSUME NEW v \in Nat, H <= v, v < T PROVE Pending[At(v)] = ClaimedItem(v)
    OBVIOUS
  <2>1. At(v) \in 1 .. (T - H) /\ H + At(v) - 1 = v
    BY <1>1 DEF At
  <2> QED BY <2>1, <1>3
<1> QED BY <1>2, <1>5, <1>6 DEF QueueFacts

\* ... after a step too.
LEMMA QueueIsNext == QInv' => QueueFacts'
  BY QueueIs, PTL

\* The compare-exchange accepts the item.
LEMMA ClaimAccepts ==
  ASSUME QInv, NEW p \in Producers, Claim(p)
  PROVE  QInv' /\ Fifo!Accept(prod[p].item) /\ prod[p].item \in Items
<1> DEFINE x == [prod[p] EXCEPT !.pc = "write"]
<1>0. /\ H \in Nat /\ T \in Nat /\ H <= T /\ T < H + QUEUE_SIZE /\ QUEUE_SIZE \in Nat
      /\ prod[p] \in PushState /\ tail_index_ \in Index
      /\ prod[p].old = tail_index_ /\ prod[p].pc = "cas" /\ tail_index_.index = Slot(T)
  BY QueueAssumption DEF QInv, TypeOK, Index, Window, Claim, Positions, InPlace, H, T
<1>1. /\ prod'[p] = x /\ x.pc = "write" /\ x.old = prod[p].old /\ x.seen = prod[p].seen
      /\ x.item = prod[p].item /\ x \in PushState
      /\ \A q \in Producers : q # p => prod'[q] = prod[q]
  BY <1>0 DEF QInv, TypeOK, Claim, PushState
<1> HIDE DEF x
<1>2. /\ prod[p].item \in Items /\ T + 1 < H + QUEUE_SIZE
  BY <1>0 DEF QInv, Views, PushView, T
<1>3. /\ tail_index_' = [version |-> T + 1, index |-> Slot(T + 1)]
      /\ H' = H /\ T' = T + 1 /\ tail_index_' \in Index
  <2>1. NextIndex(tail_index_) = [version |-> T + 1, index |-> Slot(T + 1)]
    BY <1>0, SlotNext DEF NextIndex, T
  <2>2. tail_index_' = [version |-> T + 1, index |-> Slot(T + 1)]
    BY <2>1, <1>0 DEF Claim
  <2> QED BY <2>2, <1>0, SlotType DEF Claim, H, T, Index
<1>4. ~Busy(p) /\ Busy(p)' /\ \A q \in Producers : q # p => (Busy(q)' <=> Busy(q))
  BY <1>0, <1>1 DEF Busy
<1>5. \A v : /\ Held(v)' <=> Held(v) \/ v = T
             /\ Taken(v)' <=> Taken(v)
  <2> TAKE v
  <2>1. Held(v)' => Held(v) \/ v = T
    BY <1>0, <1>1, <1>4 DEF Held, T
  <2>2. Held(v) => Held(v)'
    BY <1>1, <1>4 DEF Held
  <2>3. v = T => Held(v)'
    BY <1>0, <1>1, <1>4 DEF Held, T
  <2>4. Taken(v)' <=> Taken(v)
    BY DEF Taken, Claim
  <2> QED BY <2>1, <2>2, <2>3, <2>4
<1>6. \A q \in Producers : \A v : Writes(q, v)' <=> Writes(q, v) \/ (q = p /\ v = T)
  BY <1>0, <1>1 DEF Writes, T
<1>7. TypeOK'
  BY <1>1, <1>3 DEF QInv, TypeOK, Claim
<1>8. Positions'
  <2>1. InPlace(tail_index_)' /\ InPlace(head_index_)'
    BY <1>3 DEF QInv, Positions, Claim, InPlace
  <2>2. \A q \in Producers : (InPlace(prod[q].old) /\ InPlace(prod[q].seen))'
    BY <1>1 DEF QInv, Positions, InPlace
  <2>3. \A c \in Consumers : (InPlace(cons[c].old) /\ InPlace(cons[c].seen))'
    BY DEF QInv, Positions, InPlace, Claim
  <2> QED BY <2>1, <2>2, <2>3 DEF Positions
<1>9. Window'
  BY <1>0, <1>2, <1>3 DEF Window
<1>10. Claims'
  <2>1. \A q \in Producers : Busy(q) => prod[q].old.version < T /\ H <= prod[q].old.version
                                       /\ prod[q].old.version \in Nat
    BY DEF QInv, Claims, TypeOK, PushState, Index
  <2>2. prod'[p].old.version = T
    BY <1>0, <1>1 DEF T
  <2>3. \A q \in Producers : Busy(q)' => H' <= prod'[q].old.version /\ prod'[q].old.version < T'
    BY <2>1, <2>2, <1>0, <1>1, <1>3, <1>4
  <2>4. ASSUME NEW q \in Producers, NEW r \in Producers, Busy(q)', Busy(r)',
               prod'[q].old.version = prod'[r].old.version
        PROVE  q = r
    BY <2>1, <2>2, <2>4, <1>0, <1>1, <1>4 DEF QInv, Claims
  <2> QED BY <2>3, <2>4 DEF Claims
<1>11. Views'
  <2>1. \A q \in Producers : prod[q].old.version \in Nat /\ prod[q].seen.version \in Nat
    BY DEF QInv, TypeOK, PushState, Index
  <2>2. \A q \in Producers : PushView(prod[q])'
    BY <2>1, <1>0, <1>1, <1>2, <1>3 DEF QInv, Views, PushView
  <2>3. \A c \in Consumers : cons[c].seen.version \in Nat
    BY DEF QInv, TypeOK, PopState, Index
  <2>4. \A c \in Consumers : PopView(cons[c])'
    BY <2>3, <1>0, <1>3, <1>5 DEF QInv, Views, PopView, Claim
  <2> QED BY <2>2, <2>4 DEF Views
<1>12. Flags'
  BY <1>0, <1>2, <1>3, <1>5 DEF QInv, Flags, Claim
<1>13. Contents'
  BY <1>0, <1>3, <1>6 DEF QInv, Contents, Claim
<1>14. QInv'
  BY <1>7, <1>8, <1>9, <1>10, <1>11, <1>12, <1>13 DEF QInv
<1>15. Pending' = Append(Pending, prod[p].item)
  <2> DEFINE longer == Append(Pending, prod[p].item)
  <2>1. QueueFacts /\ QueueFacts'
    BY <1>14, QueueIs, QueueIsNext
  <2>2. /\ Pending' \in Seq(Items) /\ Len(Pending') = T + 1 - H
        /\ longer \in Seq(Items) /\ Len(longer) = T + 1 - H
        /\ \A n \in 1 .. (T - H) : longer[n] = Pending[n]
        /\ longer[T + 1 - H] = prod[p].item
    BY <2>1, <1>0, <1>2, <1>3, AppendProperties DEF QueueFacts
  <2> HIDE DEF longer
  <2>3. ASSUME NEW v \in Nat, H <= v, v < T
        PROVE  Pending'[v - H + 1] = Pending[v - H + 1]
    <3>1. \A q \in Producers : Writes(q, v)' <=> Writes(q, v)
      BY <2>3, <1>0, <1>6
    <3>2. \A q \in Producers : Writes(q, v) => prod'[q].item = prod[q].item
      BY <1>1
    <3>3. /\ \A q \in Producers : Writes(q, v)' => Pending'[v - H + 1] = prod'[q].item
          /\ (\A q \in Producers : ~Writes(q, v)') => Pending'[v - H + 1] = data_'[Slot(v)]
      BY <2>1, <2>3, <1>0, <1>3 DEF QueueFacts, At
    <3> QED BY <2>1, <2>3, <3>1, <3>2, <3>3 DEF QueueFacts, At, Claim
  <2>4. Pending'[T - H + 1] = prod[p].item
    BY <2>1, <1>0, <1>1, <1>3, <1>6 DEF QueueFacts, At
  <2>5. \A n \in 1 .. (T + 1 - H) : Pending'[n] = longer[n]
    <3> TAKE n \in 1 .. (T + 1 - H)
    <3>1. CASE n = T + 1 - H
      <4>1. T - H + 1 = T + 1 - H
        BY <1>0
      <4> QED BY <3>1, <4>1, <2>2, <2>4
    <3>2. CASE n # T + 1 - H
      <4>1. H + n - 1 \in Nat /\ H <= H + n - 1 /\ H + n - 1 < T /\ (H + n - 1) - H + 1 = n
            /\ n \in 1 .. (T - H)
        BY <3>2, <1>0
      <4> QED BY <4>1, <2>2, <2>3
    <3> QED BY <3>1, <3>2
  <2> QED BY <2>2, <2>5, SeqEqual DEF longer
<1>16. Len(Pending) < QUEUE_SIZE - 1
  BY <1>0, <1>2, QueueIs DEF QueueFacts
<1> QED BY <1>2, <1>14, <1>15, <1>16 DEF Fifo!Accept, Claim

\* Copying the item into its slot disturbs no other.
LEMMA WriteDataStutters ==
  ASSUME QInv, NEW p \in Producers, WriteData(p)
  PROVE  QInv' /\ UNCHANGED <<Pending, received>>
<1> DEFINE x == [prod[p] EXCEPT !.pc = "flag"]
           u == prod[p].old.version
<1>0. /\ H \in Nat /\ T \in Nat /\ QUEUE_SIZE \in Nat /\ T < H + QUEUE_SIZE
      /\ prod[p] \in PushState /\ prod[p].pc = "write" /\ prod[p].item \in Items
      /\ u \in Nat /\ H <= u /\ u < T /\ Busy(p) /\ prod[p].old.index = Slot(u)
  BY QueueAssumption DEF QInv, TypeOK, Index, PushState, Window, Claims, Busy, Positions, InPlace,
                         Views, PushView, WriteData, H, T
<1>1. /\ prod'[p] = x /\ x.pc = "flag" /\ x.old = prod[p].old /\ x.seen = prod[p].seen
      /\ x.item = prod[p].item /\ x \in PushState
      /\ \A q \in Producers : q # p => prod'[q] = prod[q]
  BY <1>0 DEF QInv, TypeOK, WriteData, PushState
<1> HIDE DEF x, u
<1>2. H' = H /\ T' = T
  BY DEF H, T, WriteData
<1>3. /\ data_' = [data_ EXCEPT ![Slot(u)] = prod[p].item] /\ Slot(u) \in Slots
      /\ data_'[Slot(u)] = prod[p].item
      /\ \A v \in Nat : H <= v /\ v < T /\ v # u => data_'[Slot(v)] = data_[Slot(v)]
  <2>1. data_' = [data_ EXCEPT ![Slot(u)] = prod[p].item] /\ Slot(u) \in Slots
    BY <1>0, SlotType DEF WriteData
  <2>2. data_ \in [Slots -> Items \cup {NoItem}]
    BY DEF QInv, TypeOK
  <2>3. \A v \in Nat : H <= v /\ v < T /\ v # u => Slot(v) # Slot(u)
    BY <1>0, SlotInj
  <2> QED BY <2>1, <2>2, <2>3, SlotType
<1>4. \A q \in Producers : (Busy(q)' <=> Busy(q)) /\ prod'[q].old = prod[q].old
                           /\ prod'[q].item = prod[q].item
  BY <1>0, <1>1 DEF Busy
<1>5. \A v : (Held(v)' <=> Held(v)) /\ (Taken(v)' <=> Taken(v))
  BY <1>4 DEF Held, Taken, WriteData
<1>6. \A q \in Producers : \A v : Writes(q, v)' <=> Writes(q, v) /\ q # p
  BY <1>0, <1>1 DEF Writes
<1>7. \A q \in Producers : q # p => ~Writes(q, u)
  BY <1>0 DEF QInv, Claims, Writes, Busy, u
<1>8. TypeOK'
  BY <1>0, <1>1, <1>3 DEF QInv, TypeOK, WriteData
<1>9. Positions'
  <2>1. InPlace(tail_index_)' /\ InPlace(head_index_)'
    BY DEF QInv, Positions, WriteData, InPlace
  <2>2. \A q \in Producers : (InPlace(prod[q].old) /\ InPlace(prod[q].seen))'
    BY <1>1 DEF QInv, Positions, InPlace
  <2>3. \A c \in Consumers : (InPlace(cons[c].old) /\ InPlace(cons[c].seen))'
    BY DEF QInv, Positions, InPlace, WriteData
  <2> QED BY <2>1, <2>2, <2>3 DEF Positions
<1>10. Window' /\ Claims'
  BY <1>2, <1>4 DEF QInv, Window, Claims
<1>11. Views'
  <2>1. \A q \in Producers : PushView(prod[q])'
    BY <1>1, <1>2, <1>0 DEF QInv, Views, PushView
  <2>2. ASSUME NEW c \in Consumers PROVE PopView(cons[c])'
    <3>1. CASE cons[c].pc \in {"clear", "store"}
      <4>1. ~Held(H) /\ H < T /\ cons[c].val = data_[Slot(H)]
        BY <3>1 DEF QInv, Views, PopView
      <4>2. u # H
        BY <4>1, <1>0 DEF Held, u
      <4>3. data_'[Slot(H)] = data_[Slot(H)]
        BY <1>0, <1>3, <4>1, <4>2
      <4> QED BY <4>1, <4>3, <3>1, <1>2, <1>5 DEF QInv, Views, PopView, WriteData
    <3>2. CASE cons[c].pc \notin {"clear", "store"}
      BY <3>2, <1>2, <1>5 DEF QInv, Views, PopView, WriteData
    <3> QED BY <3>1, <3>2
  <2> QED BY <2>1, <2>2 DEF Views
<1>12. Flags'
  BY <1>2, <1>5 DEF QInv, Flags, WriteData
<1>13. Contents'
  <2> SUFFICES ASSUME NEW v \in Nat, H <= v, v < T, \A q \in Producers : ~Writes(q, v)'
               PROVE  data_'[Slot(v)] \in Items
    BY <1>2 DEF Contents
  <2>1. CASE v = u
    BY <2>1, <1>0, <1>3
  <2>2. CASE v # u
    <3>1. ~Writes(p, v)
      BY <2>2 DEF Writes, u
    <3> QED BY <3>1, <2>2, <1>3, <1>6 DEF QInv, Contents
  <2> QED BY <2>1, <2>2
<1>14. QInv'
  BY <1>8, <1>9, <1>10, <1>11, <1>12, <1>13 DEF QInv
<1>15. Pending' = Pending
  <2>1. QueueFacts /\ QueueFacts'
    BY <1>14, QueueIs, QueueIsNext
  <2>2. /\ Pending \in Seq(Items) /\ Len(Pending) = T - H
        /\ Pending' \in Seq(Items) /\ Len(Pending') = T - H
    BY <2>1, <1>2 DEF QueueFacts
  <2>3. ASSUME NEW v \in Nat, H <= v, v < T
        PROVE  Pending'[v - H + 1] = Pending[v - H + 1]
    <3>1. /\ \A q \in Producers : Writes(q, v)' => Pending'[v - H + 1] = prod'[q].item
          /\ (\A q \in Producers : ~Writes(q, v)') => Pending'[v - H + 1] = data_'[Slot(v)]
      BY <2>1, <2>3, <1>2 DEF QueueFacts, At
    <3>2. CASE v = u
      <4>1. Writes(p, v) /\ \A q \in Producers : ~Writes(q, v)'
        BY <3>2, <1>0, <1>6, <1>7 DEF Writes, u
      <4> QED BY <4>1, <3>1, <3>2, <2>1, <2>3, <1>3 DEF QueueFacts, At
    <3>3. CASE v # u
      <4>1. ~Writes(p, v)
        BY <3>3 DEF Writes, u
      <4>2. \A q \in Producers : Writes(q, v)' <=> Writes(q, v)
        BY <4>1, <1>6
      <4> QED BY <4>2, <3>1, <3>3, <2>1, <2>3, <1>3, <1>4 DEF QueueFacts, At
    <3> QED BY <3>2, <3>3
  <2>4. \A n \in 1 .. (T - H) : Pending'[n] = Pending[n]
    <3> TAKE n \in 1 .. (T - H)
    <3>1. H + n - 1 \in Nat /\ H <= H + n - 1 /\ H + n - 1 < T /\ (H + n - 1) - H + 1 = n
      BY <1>0
    <3> QED BY <3>1, <2>3
  <2> QED BY <2>2, <2>4, SeqEqual
<1> QED BY <1>14, <1>15 DEF WriteData

\* Raising the flag hands the slot over to the consumer.
LEMMA SetFlagStutters ==
  ASSUME QInv, NEW p \in Producers, SetFlag(p)
  PROVE  QInv' /\ UNCHANGED <<Pending, received>>
<1> DEFINE u == prod[p].old.version
<1>0. /\ H \in Nat /\ T \in Nat /\ QUEUE_SIZE \in Nat /\ T < H + QUEUE_SIZE
      /\ prod[p] \in PushState /\ prod[p].pc = "flag"
      /\ u \in Nat /\ H <= u /\ u < T /\ Busy(p) /\ prod[p].old.index = Slot(u)
  BY QueueAssumption DEF QInv, TypeOK, Index, PushState, Window, Claims, Busy, Positions, InPlace,
                         SetFlag, H, T
<1>1. /\ prod'[p] = IdleProducer /\ IdleProducer \in PushState
      /\ InPlace(IdleProducer.old) /\ InPlace(IdleProducer.seen) /\ IdleProducer.pc = "idle"
      /\ \A q \in Producers : q # p => prod'[q] = prod[q]
  BY <1>0, IdleFits DEF QInv, TypeOK, SetFlag
<1> HIDE DEF u
<1>2. H' = H /\ T' = T
  BY DEF H, T, SetFlag
<1>3. /\ data_flag_' = [data_flag_ EXCEPT ![Slot(u)] = TRUE] /\ Slot(u) \in Slots
      /\ data_flag_'[Slot(u)] = TRUE
      /\ \A v \in Nat : H <= v /\ v < H + QUEUE_SIZE /\ v # u =>
           data_flag_'[Slot(v)] = data_flag_[Slot(v)]
  <2>1. data_flag_' = [data_flag_ EXCEPT ![Slot(u)] = TRUE] /\ Slot(u) \in Slots
    BY <1>0, SlotType DEF SetFlag
  <2>2. data_flag_ \in [Slots -> BOOLEAN]
    BY DEF QInv, TypeOK
  <2>3. \A v \in Nat : H <= v /\ v < H + QUEUE_SIZE /\ v # u => Slot(v) # Slot(u)
    BY <1>0, SlotInj
  <2> QED BY <2>1, <2>2, <2>3, SlotType
<1>4. ~Busy(p)' /\ \A q \in Producers : q # p => (Busy(q)' <=> Busy(q))
  BY <1>1 DEF Busy
<1>5. \A v : (Held(v)' <=> Held(v) /\ v # u) /\ (Taken(v)' <=> Taken(v))
  <2> TAKE v
  <2>1. Held(v)' => Held(v) /\ v # u
    BY <1>0, <1>1, <1>4 DEF Held, QInv, Claims, u
  <2>2. Held(v) /\ v # u => Held(v)'
    BY <1>1, <1>4 DEF Held, u
  <2> QED BY <2>1, <2>2 DEF Taken, SetFlag
<1>6. \A q \in Producers : \A v : Writes(q, v)' <=> Writes(q, v)
  BY <1>0, <1>1 DEF Writes
<1>7. ~Taken(u)
  BY <1>0 DEF Taken, QInv, Views, PopView, Held, u, H
<1>8. TypeOK'
  BY <1>0, <1>1, <1>3 DEF QInv, TypeOK, SetFlag
<1>9. Positions'
  <2>1. InPlace(tail_index_)' /\ InPlace(head_index_)'
    BY DEF QInv, Positions, SetFlag, InPlace
  <2>2. \A q \in Producers : (InPlace(prod[q].old) /\ InPlace(prod[q].seen))'
    BY <1>1 DEF QInv, Positions, InPlace
  <2>3. \A c \in Consumers : (InPlace(cons[c].old) /\ InPlace(cons[c].seen))'
    BY DEF QInv, Positions, InPlace, SetFlag
  <2> QED BY <2>1, <2>2, <2>3 DEF Positions
<1>10. Window' /\ Claims'
  BY <1>1, <1>2, <1>4 DEF QInv, Window, Claims
<1>11. Views'
  <2>1. \A q \in Producers : PushView(prod[q])'
    BY <1>1, <1>2 DEF QInv, Views, PushView
  <2>2. \A c \in Consumers : PopView(cons[c])'
    BY <1>2, <1>5 DEF QInv, Views, PopView, SetFlag
  <2> QED BY <2>1, <2>2 DEF Views
<1>12. Flags'
  <2> SUFFICES ASSUME NEW v \in Nat, H <= v, v < H + QUEUE_SIZE
               PROVE  data_flag_'[Slot(v)] <=> v < T /\ ~Held(v)' /\ ~Taken(v)'
    BY <1>2 DEF Flags
  <2>1. CASE v = u
    BY <2>1, <1>0, <1>3, <1>5, <1>7
  <2>2. CASE v # u
    BY <2>2, <1>3, <1>5 DEF QInv, Flags
  <2> QED BY <2>1, <2>2
<1>13. Contents'
  BY <1>2, <1>6 DEF QInv, Contents, SetFlag
<1>14. QInv'
  BY <1>8, <1>9, <1>10, <1>11, <1>12, <1>13 DEF QInv
<1>15. Pending' = Pending
  <2>1. \A v : Writers(v)' = Writers(v)
    BY <1>6 DEF Writers, Writes
  <2>2. \A v, q : q \in Writers(v) => prod'[q] = prod[q]
    BY <1>0, <1>1 DEF Writers
  <2> QED BY <2>1, <2>2, SameQueue DEF SetFlag
<1> QED BY <1>14, <1>15 DEF SetFlag

\* A round later the same slot is back.
LEMMA SlotRound ==
  ASSUME NEW v \in Nat
  PROVE  Slot(v + QUEUE_SIZE) = Slot(v)
<1> DEFINE n == QUEUE_SIZE
<1>1. PICK q \in Nat : v = n * q + Slot(v) /\ Slot(v) \in 0 .. (n - 1)
  BY SlotOf
<1>2. n * q \in Int /\ n * (q + 1) = n * q + n /\ n \in Nat /\ q + 1 \in Nat
  BY QueueAssumption
<1>3. Slot(n * (q + 1) + Slot(v)) = Slot(v)
  BY <1>1, <1>2, SlotOf
<1> HIDE DEF n
<1>4. v + n = n * (q + 1) + Slot(v)
  BY <1>1, <1>2
<1> QED BY <1>3, <1>4 DEF n

\* The consumer lowers the flag of the slot at the head.
LEMMA ClearFlagStutters ==
  ASSUME OneConsumer, QInv, NEW c \in Consumers, ClearFlag(c)
  PROVE  QInv' /\ UNCHANGED <<Pending, received>>
<1> DEFINE y == [cons[c] EXCEPT !.pc = "store"]
<1>0. /\ H \in Nat /\ T \in Nat /\ QUEUE_SIZE \in Nat /\ T < H + QUEUE_SIZE
      /\ cons[c] \in PopState /\ cons[c].pc = "clear"
      /\ cons[c].old = head_index_ /\ head_index_.index = Slot(H) /\ H < T
      /\ ~Held(H) /\ cons[c].val = data_[Slot(H)]
  BY QueueAssumption DEF QInv, TypeOK, Index, Window, Positions, InPlace, Views, PopView,
                         ClearFlag, H, T
<1>1. /\ cons'[c] = y /\ y.pc = "store" /\ y.old = cons[c].old /\ y.seen = cons[c].seen
      /\ y.val = cons[c].val /\ y \in PopState
      /\ \A d \in Consumers : d = c
  BY <1>0 DEF QInv, TypeOK, ClearFlag, PopState, OneConsumer
<1> HIDE DEF y
<1>2. H' = H /\ T' = T
  BY DEF H, T, ClearFlag
<1>3. /\ data_flag_' = [data_flag_ EXCEPT ![Slot(H)] = FALSE] /\ Slot(H) \in Slots
      /\ data_flag_'[Slot(H)] = FALSE
      /\ \A v \in Nat : H <= v /\ v < H + QUEUE_SIZE /\ v # H =>
           data_flag_'[Slot(v)] = data_flag_[Slot(v)]
  <2>1. data_flag_' = [data_flag_ EXCEPT ![Slot(H)] = FALSE] /\ Slot(H) \in Slots
    BY <1>0, SlotType DEF ClearFlag
  <2>2. data_flag_ \in [Slots -> BOOLEAN]
    BY DEF QInv, TypeOK
  <2>3. \A v \in Nat : H <= v /\ v < H + QUEUE_SIZE /\ v # H => Slot(v) # Slot(H)
    BY <1>0, SlotInj
  <2> QED BY <2>1, <2>2, <2>3, SlotType
<1>4. \A v : (Held(v)' <=> Held(v)) /\ (Taken(v)' <=> v = H) /\ ~Taken(v)
  BY <1>0, <1>1 DEF Held, Busy, Taken, ClearFlag, H
<1>5. TypeOK'
  BY <1>0, <1>1, <1>3 DEF QInv, TypeOK, ClearFlag
<1>6. Positions'
  <2>1. InPlace(tail_index_)' /\ InPlace(head_index_)'
    BY DEF QInv, Positions, ClearFlag, InPlace
  <2>2. \A q \in Producers : (InPlace(prod[q].old) /\ InPlace(prod[q].seen))'
    BY DEF QInv, Positions, InPlace, ClearFlag
  <2>3. \A d \in Consumers : (InPlace(cons[d].old) /\ InPlace(cons[d].seen))'
    BY <1>1 DEF QInv, Positions, InPlace
  <2> QED BY <2>1, <2>2, <2>3 DEF Positions
<1>7. Window' /\ Claims'
  BY <1>2 DEF QInv, Window, Claims, Busy, ClearFlag
<1>8. Views'
  <2>1. \A q \in Producers : PushView(prod[q])'
    BY <1>2 DEF QInv, Views, PushView, ClearFlag
  <2>2. \A d \in Consumers : PopView(cons[d])'
    BY <1>0, <1>1, <1>2, <1>4 DEF PopView, ClearFlag
  <2> QED BY <2>1, <2>2 DEF Views
<1>9. Flags'
  <2> SUFFICES ASSUME NEW v \in Nat, H <= v, v < H + QUEUE_SIZE
               PROVE  data_flag_'[Slot(v)] <=> v < T /\ ~Held(v)' /\ ~Taken(v)'
    BY <1>2 DEF Flags
  <2>1. CASE v = H
    BY <2>1, <1>3, <1>4
  <2>2. CASE v # H
    BY <2>2, <1>3, <1>4 DEF QInv, Flags
  <2> QED BY <2>1, <2>2
<1>10. Contents'
  BY <1>2 DEF QInv, Contents, Writes, ClearFlag
<1>11. Pending' = Pending
  BY SameQueue DEF Writers, ClearFlag
<1> QED BY <1>5, <1>6, <1>7, <1>8, <1>9, <1>10, <1>11 DEF QInv, ClearFlag

\* Moving the head hands out the oldest item.
LEMMA StoreHeadHandsOut ==
  ASSUME OneConsumer, QInv, NEW c \in Consumers, StoreHead(c)
  PROVE  QInv' /\ Fifo!HandOut
<1>0. /\ H \in Nat /\ T \in Nat /\ QUEUE_SIZE \in Nat /\ T < H + QUEUE_SIZE
      /\ cons[c] \in PopState /\ cons[c].pc = "store" /\ cons[c].val \in Items \cup {NoItem}
      /\ cons[c].old = head_index_ /\ head_index_.index = Slot(H) /\ H < T
      /\ ~Held(H) /\ cons[c].val = data_[Slot(H)] /\ head_index_ \in Index
  BY QueueAssumption DEF QInv, TypeOK, Index, Window, Positions, InPlace, Views, PopView,
                         StoreHead, H, T, PopState
<1>1. /\ cons'[c] = IdleConsumer /\ IdleConsumer \in PopState /\ IdleConsumer.pc = "idle"
      /\ InPlace(IdleConsumer.old) /\ InPlace(IdleConsumer.seen)
      /\ \A d \in Consumers : d = c
  BY IdleFits DEF QInv, TypeOK, StoreHead, OneConsumer
<1>2. /\ head_index_' = [version |-> H + 1, index |-> Slot(H + 1)]
      /\ H' = H + 1 /\ T' = T /\ head_index_' \in Index
  <2>1. NextIndex(head_index_) = [version |-> H + 1, index |-> Slot(H + 1)]
    BY <1>0, SlotNext DEF NextIndex, H
  <2>2. head_index_' = [version |-> H + 1, index |-> Slot(H + 1)]
    BY <2>1, <1>0 DEF StoreHead
  <2> QED BY <2>2, <1>0, SlotType DEF StoreHead, H, T, Index
<1>3. \A v : (Held(v)' <=> Held(v)) /\ ~Taken(v)' /\ (Taken(v) <=> v = H)
  BY <1>0, <1>1 DEF Held, Busy, Taken, StoreHead, H
<1>4. TypeOK'
  BY <1>0, <1>1, <1>2, AppendProperties DEF QInv, TypeOK, StoreHead
<1>5. Positions'
  <2>1. InPlace(tail_index_)' /\ InPlace(head_index_)'
    BY <1>2 DEF QInv, Positions, StoreHead, InPlace
  <2>2. \A q \in Producers : (InPlace(prod[q].old) /\ InPlace(prod[q].seen))'
    BY DEF QInv, Positions, InPlace, StoreHead
  <2>3. \A d \in Consumers : (InPlace(cons[d].old) /\ InPlace(cons[d].seen))'
    BY <1>1 DEF QInv, Positions, InPlace
  <2> QED BY <2>1, <2>2, <2>3 DEF Positions
<1>6. Window'
  BY <1>0, <1>2 DEF Window
<1>7. Claims'
  <2>1. \A q \in Producers : Busy(q) => prod[q].old.version \in Nat /\ prod[q].old.version # H
    BY <1>0 DEF Held, QInv, TypeOK, PushState, Index
  <2> QED BY <2>1, <1>0, <1>2 DEF QInv, Claims, Busy, StoreHead
<1>8. Views'
  <2>1. \A q \in Producers : prod[q].old.version \in Nat /\ prod[q].seen.version \in Nat
    BY DEF QInv, TypeOK, PushState, Index
  <2>2. \A q \in Producers : PushView(prod[q])'
    BY <2>1, <1>0, <1>2 DEF QInv, Views, PushView, StoreHead
  <2>3. \A d \in Consumers : PopView(cons[d])'
    BY <1>1 DEF PopView
  <2> QED BY <2>2, <2>3 DEF Views
<1>9. Flags'
  <2> SUFFICES ASSUME NEW v \in Nat, H + 1 <= v, v < H + 1 + QUEUE_SIZE
               PROVE  data_flag_[Slot(v)] <=> v < T /\ ~Held(v)
    BY <1>2, <1>3 DEF Flags, StoreHead
  <2>1. CASE v < H + QUEUE_SIZE
    BY <2>1, <1>0, <1>3 DEF QInv, Flags
  <2>2. CASE v = H + QUEUE_SIZE
    <3>1. Slot(v) = Slot(H) /\ ~(v < T)
      BY <2>2, <1>0, SlotRound
    <3>2. ~data_flag_[Slot(H)]
      BY <1>0, <1>3 DEF QInv, Flags
    <3> QED BY <3>1, <3>2
  <2> QED BY <2>1, <2>2, <1>0
<1>10. Contents'
  BY <1>0, <1>2 DEF QInv, Contents, Writes, StoreHead
<1>11. QInv'
  BY <1>4, <1>5, <1>6, <1>7, <1>8, <1>9, <1>10 DEF QInv
<1>12. /\ Pending \in Seq(Items) /\ Len(Pending) = T - H /\ Pending # <<>>
       /\ Pending[1] = cons[c].val
  <2>1. QueueFacts
    BY QueueIs
  <2>2. Pending \in Seq(Items) /\ Len(Pending) = T - H
    BY <2>1 DEF QueueFacts
  <2>3. \A q \in Producers : ~Writes(q, H)
    BY <1>0 DEF Held, Writes, Busy
  <2>4. Pending[At(H)] = data_[Slot(H)] /\ At(H) = 1
    BY <2>1, <2>3, <1>0 DEF QueueFacts, At
  <2> QED BY <2>2, <2>4, <1>0
<1>13. Pending' = Tail(Pending)
  <2> DEFINE rest == Tail(Pending)
  <2>1. QueueFacts /\ QueueFacts'
    BY <1>11, QueueIs, QueueIsNext
  <2>2. /\ Pending' \in Seq(Items) /\ Len(Pending') = T - (H + 1)
        /\ rest \in Seq(Items) /\ Len(rest) = T - (H + 1)
        /\ \A n \in 1 .. (T - (H + 1)) : rest[n] = Pending[n + 1]
    BY <2>1, <1>0, <1>2, <1>12, HeadTailProperties DEF QueueFacts
  <2> HIDE DEF rest
  <2>3. ASSUME NEW v \in Nat, H + 1 <= v, v < T
        PROVE  Pending'[v - (H + 1) + 1] = Pending[v - H + 1]
    <3>1. /\ \A q \in Producers : Writes(q, v)' => Pending'[v - (H + 1) + 1] = prod'[q].item
          /\ (\A q \in Producers : ~Writes(q, v)') =>
               Pending'[v - (H + 1) + 1] = data_'[Slot(v)]
      BY <2>1, <2>3, <1>2 DEF QueueFacts, At
    <3>2. /\ \A q \in Producers : Writes(q, v) => Pending[v - H + 1] = prod[q].item
          /\ (\A q \in Producers : ~Writes(q, v)) => Pending[v - H + 1] = data_[Slot(v)]
      BY <2>1, <2>3, <1>0 DEF QueueFacts, At
    <3>3. prod' = prod /\ data_' = data_
      BY DEF StoreHead
    <3>4. \A q \in Producers : Writes(q, v)' <=> Writes(q, v)
      BY <3>3 DEF Writes
    <3> QED BY <3>1, <3>2, <3>3, <3>4
  <2>4. \A n \in 1 .. (T - (H + 1)) : Pending'[n] = rest[n]
    <3> TAKE n \in 1 .. (T - (H + 1))
    <3>1. /\ H + n \in Nat /\ H + 1 <= H + n /\ H + n < T
          /\ (H + n) - (H + 1) + 1 = n /\ (H + n) - H + 1 = n + 1
      BY <1>0
    <3> QED BY <3>1, <2>2, <2>3
  <2> QED BY <2>2, <2>4, SeqEqual DEF rest
<1> QED BY <1>11, <1>12, <1>13 DEF Fifo!HandOut, StoreHead

------------------------------------------------------------------------------
\* The steps of a Push before its compare-exchange, and those that end it.
LEMMA PushThinks ==
  ASSUME QInv, NEW p \in Producers,
         \/ \E i \in Items : PushBegin(p, i)
         \/ TryMax(p) \/ LoadTail(p) \/ FullFirstLoad(p) \/ QueueFull(p) \/ NotFull(p)
         \/ ClaimFails(p)
  PROVE  QInv' /\ UNCHANGED <<Pending, received>>
<1> DEFINE Thinks(x) ==
      /\ x \in PushState /\ prod' = [prod EXCEPT ![p] = x]
      /\ x.pc \notin {"write", "flag"} /\ InPlace(x.old) /\ InPlace(x.seen) /\ PushView(x)
<1>0. /\ prod[p] \in PushState /\ InPlace(prod[p].old) /\ InPlace(prod[p].seen)
      /\ PushView(prod[p]) /\ InPlace(tail_index_) /\ InPlace(head_index_)
      /\ head_index_ \in Index /\ tail_index_ \in Index /\ H <= T /\ T < H + QUEUE_SIZE
      /\ H \in Nat /\ T \in Nat /\ QUEUE_SIZE \in Nat /\ MAX_TRY_TIMES \in Nat
      /\ prod \in [Producers -> PushState]
  BY QueueAssumption DEF QInv, TypeOK, Positions, Views, Window, Index, H, T
<1>1. ASSUME NEW i \in Items, PushBegin(p, i) PROVE Thinks([IdleProducer EXCEPT !.pc = "load", !.item = i])
  BY <1>1, IdleFits DEF PushBegin, PushState, PushView
<1>2. CASE TryMax(p) \/ QueueFull(p)
  <2>1. Thinks(IdleProducer)
    BY <1>2, IdleFits DEF TryMax, QueueFull, PushFails, PushView
  <2> QED BY <2>1, <1>2, ProducerThinks DEF TryMax, QueueFull, PushFails, Busy
<1>3. CASE LoadTail(p)
  <2>1. Thinks([prod[p] EXCEPT !.pc = "full", !.old = tail_index_])
    <3> DEFINE x == [prod[p] EXCEPT !.pc = "full", !.old = tail_index_]
    <3>1. /\ x \in PushState /\ prod' = [prod EXCEPT ![p] = x] /\ x.pc = "full"
          /\ x.old = tail_index_ /\ x.seen = prod[p].seen /\ x.item = prod[p].item /\ x.try = prod[p].try
      BY <1>3, <1>0 DEF LoadTail, PushState
    <3> HIDE DEF x
    <3>2. Thinks(x)
      BY <3>1, <1>3, <1>0 DEF LoadTail, PushView, T
    <3> QED BY <3>2 DEF x
  <2> QED BY <2>1, <1>3, ProducerThinks DEF LoadTail, Busy
<1>4. CASE FullFirstLoad(p)
  <2>1. CASE prod' = [prod EXCEPT ![p].pc = "full_head", ![p].seen = tail_index_]
    <3>1. Thinks([prod[p] EXCEPT !.pc = "full_head", !.seen = tail_index_])
      <4> DEFINE x == [prod[p] EXCEPT !.pc = "full_head", !.seen = tail_index_]
      <4>1. /\ x \in PushState /\ prod' = [prod EXCEPT ![p] = x] /\ x.pc = "full_head"
            /\ x.seen = tail_index_ /\ x.old = prod[p].old /\ x.item = prod[p].item /\ x.try = prod[p].try
            /\ x.old.version \in Nat
        BY <2>1, <1>0 DEF PushState, Index
      <4> HIDE DEF x
      <4>2. Thinks(x)
        BY <4>1, <1>4, <1>0 DEF FullFirstLoad, PushView, H, T
      <4> QED BY <4>2 DEF x
    <3> QED BY <3>1, <1>4, ProducerThinks DEF FullFirstLoad, Busy
  <2>2. CASE prod' = [prod EXCEPT ![p].pc = "full_tail", ![p].seen = head_index_]
    <3>1. Thinks([prod[p] EXCEPT !.pc = "full_tail", !.seen = head_index_])
      <4> DEFINE x == [prod[p] EXCEPT !.pc = "full_tail", !.seen = head_index_]
      <4>1. /\ x \in PushState /\ prod' = [prod EXCEPT ![p] = x] /\ x.pc = "full_tail"
            /\ x.seen = head_index_ /\ x.old = prod[p].old /\ x.item = prod[p].item /\ x.try = prod[p].try
            /\ x.old.version \in Nat
        BY <2>2, <1>0 DEF PushState, Index
      <4> HIDE DEF x
      <4>2. Thinks(x)
        BY <4>1, <1>4, <1>0 DEF FullFirstLoad, PushView, H, T
      <4> QED BY <4>2 DEF x
    <3> QED BY <3>1, <1>4, ProducerThinks DEF FullFirstLoad, Busy
  <2> QED BY <1>4, <2>1, <2>2 DEF FullFirstLoad
<1>5. CASE NotFull(p)
  <2>1. T = prod[p].old.version => T + 1 < H + QUEUE_SIZE
    <3> SUFFICES ASSUME T = prod[p].old.version PROVE T + 1 < H + QUEUE_SIZE
      OBVIOUS
    <3>0. T + 1 \in Nat /\ prod[p].seen.version \in Nat
      BY <1>0 DEF PushState, Index
    <3>1. CASE prod[p].pc = "full_head"
      <4>1. prod[p].seen.index = Slot(T) /\ head_index_.index = Slot(H)
        BY <3>1, <3>0, <1>0 DEF PushView, InPlace, H
      <4>2. Slot(T + 1) # Slot(H)
        BY <4>1, <3>1, <1>5, <1>0, SlotNext DEF NotFull, FullAnswer, LooksFull
      <4>3. T + 1 # H + QUEUE_SIZE
        BY <4>2, <1>0, SlotRound
      <4> QED BY <4>3, <1>0
    <3>2. CASE prod[p].pc = "full_tail"
      <4> DEFINE s == prod[p].seen.version
      <4>1. s \in Nat /\ s <= H /\ T < s + QUEUE_SIZE
        BY <3>0, <3>2, <1>0 DEF PushView
      <4>2. prod[p].seen.index = Slot(s) /\ tail_index_.index = Slot(T)
        BY <1>0 DEF InPlace, T
      <4>3. Slot(T + 1) # Slot(s)
        BY <4>2, <3>2, <1>5, <1>0, SlotNext DEF NotFull, FullAnswer, LooksFull
      <4>4. T + 1 # s + QUEUE_SIZE
        BY <4>3, <4>1, SlotRound
      <4> HIDE DEF s
      <4> QED BY <4>1, <4>4, <1>0
    <3> QED BY <3>1, <3>2, <1>5 DEF NotFull
  <2>2. prod[p].try + 1 \in 0 .. MAX_TRY_TIMES
    BY <1>0, <1>5 DEF NotFull, PushView, PushState
  <2>3. Thinks([prod[p] EXCEPT !.pc = "cas", !.try = @ + 1])
    BY <2>1, <2>2, <1>5, <1>0 DEF NotFull, PushState, PushView
  <2> QED BY <2>3, <1>5, ProducerThinks DEF NotFull, Busy
<1>6. CASE ClaimFails(p)
  <2>1. Thinks([prod[p] EXCEPT !.pc = "load"])
    BY <1>6, <1>0 DEF ClaimFails, PushState, PushView
  <2> QED BY <2>1, <1>6, ProducerThinks DEF ClaimFails, Busy
<1>7. CASE \E i \in Items : PushBegin(p, i)
  <2> PICK i \in Items : PushBegin(p, i)
    BY <1>7
  <2>1. Thinks([IdleProducer EXCEPT !.pc = "load", !.item = i])
    BY <1>1
  <2> QED BY <2>1, ProducerThinks DEF PushBegin, Busy
<1> QED BY <1>2, <1>3, <1>4, <1>5, <1>6, <1>7

\* The steps of a Pop before it lowers the flag.
LEMMA PopThinks ==
  ASSUME QInv, NEW c \in Consumers,
         EmptyFirstLoad(c) \/ EmptySecondLoad(c) \/ LoadHead(c) \/ CheckFlag(c) \/ ReadData(c)
  PROVE  QInv' /\ UNCHANGED <<Pending, received>>
<1> DEFINE Thinks(y) ==
      /\ y \in PopState /\ cons' = [cons EXCEPT ![c] = y]
      /\ y.pc # "store" /\ InPlace(y.old) /\ InPlace(y.seen) /\ PopView(y)
<1>0. /\ cons[c] \in PopState /\ InPlace(cons[c].old) /\ InPlace(cons[c].seen)
      /\ PopView(cons[c]) /\ InPlace(tail_index_) /\ InPlace(head_index_)
      /\ head_index_ \in Index /\ tail_index_ \in Index /\ H <= T /\ T < H + QUEUE_SIZE
      /\ H \in Nat /\ T \in Nat /\ QUEUE_SIZE \in Nat
      /\ cons \in [Consumers -> PopState] /\ data_ \in [Slots -> Items \cup {NoItem}]
  BY QueueAssumption DEF QInv, TypeOK, Positions, Views, Window, Index, H, T
<1>1. CASE EmptyFirstLoad(c)
  <2>1. CASE cons' = [cons EXCEPT ![c].pc = "empty_head", ![c].seen = tail_index_]
    <3>1. Thinks([cons[c] EXCEPT !.pc = "empty_head", !.seen = tail_index_])
      <4> DEFINE x == [cons[c] EXCEPT !.pc = "empty_head", !.seen = tail_index_]
      <4>1. /\ x \in PopState /\ cons' = [cons EXCEPT ![c] = x] /\ x.pc = "empty_head"
            /\ x.seen = tail_index_ /\ x.old = cons[c].old
        BY <2>1, <1>0 DEF PopState
      <4> HIDE DEF x
      <4>2. Thinks(x)
        BY <4>1, <1>0 DEF PopView, T
      <4> QED BY <4>2 DEF x
    <3> QED BY <3>1, <1>1, ConsumerThinks DEF EmptyFirstLoad
  <2>2. CASE cons' = [cons EXCEPT ![c].pc = "empty_tail", ![c].seen = head_index_]
    <3>1. Thinks([cons[c] EXCEPT !.pc = "empty_tail", !.seen = head_index_])
      BY <2>2, <1>0 DEF PopState, PopView
    <3> QED BY <3>1, <1>1, ConsumerThinks DEF EmptyFirstLoad
  <2> QED BY <1>1, <2>1, <2>2 DEF EmptyFirstLoad
<1>2. CASE EmptySecondLoad(c)
  <2>1. CASE EmptyAnswer(c)
    <3>1. Thinks(IdleConsumer)
      BY <2>1, <1>2, IdleFits DEF EmptySecondLoad, PopView
    <3> QED BY <3>1, <1>2, ConsumerThinks DEF EmptySecondLoad
  <2>2. CASE ~EmptyAnswer(c)
    <3>1. H < T
      <4>1. CASE cons[c].pc = "empty_head"
        <5>1. cons[c].seen.version # H
          BY <4>1, <2>2, <1>0 DEF EmptyAnswer, LooksEmpty, InPlace, H
        <5>2. cons[c].seen.version \in Nat /\ H <= cons[c].seen.version /\ cons[c].seen.version <= T
          BY <4>1, <1>0 DEF PopState, Index, PopView
        <5> QED BY <5>1, <5>2, <1>0
      <4>2. CASE cons[c].pc = "empty_tail"
        <5>1. T # H
          BY <4>2, <2>2, <1>0 DEF EmptyAnswer, LooksEmpty, InPlace, PopView, H, T
        <5> QED BY <5>1, <1>0
      <4> QED BY <4>1, <4>2, <1>2 DEF EmptySecondLoad
    <3>2. Thinks([IdleConsumer EXCEPT !.pc = "head"])
      BY <3>1, <2>2, <1>2, IdleFits DEF EmptySecondLoad, PopView, PopState
    <3> QED BY <3>2, <1>2, ConsumerThinks DEF EmptySecondLoad
  <2> QED BY <2>1, <2>2
<1>3. CASE LoadHead(c)
  <2>1. Thinks([cons[c] EXCEPT !.pc = "check", !.old = head_index_])
    BY <1>3, <1>0 DEF LoadHead, PopState, PopView
  <2> QED BY <2>1, <1>3, ConsumerThinks DEF LoadHead
<1>4. CASE CheckFlag(c)
  <2>1. CASE data_flag_[cons[c].old.index]
    <3>1. data_flag_[Slot(H)] /\ H < T
      BY <2>1, <1>4, <1>0 DEF CheckFlag, PopView, InPlace, H
    <3>2. ~Held(H)
      BY <3>1, <1>0 DEF QInv, Flags
    <3>3. Thinks([cons[c] EXCEPT !.pc = "read"])
      BY <2>1, <3>2, <1>4, <1>0 DEF CheckFlag, PopState, PopView
    <3> QED BY <3>3, <1>4, ConsumerThinks DEF CheckFlag
  <2>2. CASE ~data_flag_[cons[c].old.index]
    <3>1. Thinks(IdleConsumer)
      BY <2>2, <1>4, IdleFits DEF CheckFlag, PopView
    <3> QED BY <3>1, <1>4, ConsumerThinks DEF CheckFlag
  <2> QED BY <2>1, <2>2
<1>5. CASE ReadData(c)
  <2>1. cons[c].old.index = Slot(H) /\ Slot(H) \in Slots
    BY <1>5, <1>0, SlotType DEF ReadData, PopView, InPlace, H
  <2>2. Thinks([cons[c] EXCEPT !.pc = "clear", !.val = data_[Slot(H)]])
    BY <2>1, <1>5, <1>0 DEF ReadData, PopState, PopView
  <2> QED BY <2>2, <1>5, ConsumerThinks DEF ReadData
<1> QED BY <1>1, <1>2, <1>3, <1>4, <1>5

\* Every step keeps QInv, and is a step of the bounded queue or leaves it alone.
LEMMA QStep ==
  ASSUME OneConsumer, QInv, [Next]_vars
  PROVE  QInv' /\ [Fifo!FifoNext]_(Fifo!fifoVars)
<1> USE DEF Fifo!fifoVars, Fifo!FifoNext
<1>1. ASSUME NEW p \in Producers, (\E i \in Items : PushBegin(p, i)) \/ PushStep(p)
      PROVE  QInv' /\ [Fifo!FifoNext]_(Fifo!fifoVars)
  <2>1. CASE Claim(p)
    BY <2>1, ClaimAccepts
  <2>2. CASE WriteData(p)
    BY <2>2, WriteDataStutters
  <2>3. CASE SetFlag(p)
    BY <2>3, SetFlagStutters
  <2> QED BY <1>1, <2>1, <2>2, <2>3, PushThinks DEF PushStep
<1>2. ASSUME NEW c \in Consumers, PopStep(c)
      PROVE  QInv' /\ [Fifo!FifoNext]_(Fifo!fifoVars)
  <2>1. CASE ClearFlag(c)
    BY <2>1, ClearFlagStutters
  <2>2. CASE StoreHead(c)
    BY <2>2, StoreHeadHandsOut
  <2> QED BY <1>2, <2>1, <2>2, PopThinks DEF PopStep
<1>3. CASE UNCHANGED vars
  <2>1. QInv'
    BY <1>3 DEF vars, QInv, TypeOK, Positions, InPlace, Window, Claims, Busy, Views, PushView,
                PopView, Held, Taken, Flags, Contents, Writes, H, T
  <2>2. UNCHANGED <<Pending, received>>
    BY <1>3, SameQueue DEF vars, Writers
  <2> QED BY <2>1, <2>2
<1> QED BY <1>1, <1>2, <1>3 DEF Next

\* With one consumer the invariant holds for ever.
LEMMA QAlways ==
  ASSUME OneConsumer
  PROVE  Spec => []QInv
<1>1. QInv /\ [Next]_vars => QInv'
  BY QStep
<1> QED BY <1>1, QInit, PTL DEF Spec

\* What QInv says of the flags and of the copies under way.
LEMMA QInvOwns ==
  ASSUME OneConsumer
  PROVE  QInv => SlotsAreOwned
<1> SUFFICES ASSUME QInv PROVE SlotsAreOwned
  OBVIOUS
<1>0. H \in Nat /\ T \in Nat /\ T < H + QUEUE_SIZE /\ QUEUE_SIZE \in Nat
  BY QueueAssumption DEF QInv, TypeOK, Index, Window, H, T
<1>1. NoDataRace
  <2>1. ASSUME NEW p \in Producers, NEW q \in Producers, prod[p].pc = "write", prod[q].pc = "write",
               prod[p].old.index = prod[q].old.index
        PROVE  p = q
    <3> DEFINE u == prod[p].old.version
               v == prod[q].old.version
    <3>1. u \in Nat /\ v \in Nat /\ H <= u /\ u < T /\ H <= v /\ v < T /\ Slot(u) = Slot(v)
          /\ (u = v => p = q)
      BY <2>1 DEF QInv, TypeOK, PushState, Index, Claims, Busy, Positions, InPlace
    <3> HIDE DEF u, v
    <3>2. u < v + QUEUE_SIZE /\ v < u + QUEUE_SIZE
      BY <3>1, <1>0
    <3> QED BY <3>1, <3>2, SlotInj
  <2>2. ASSUME NEW p \in Producers, NEW c \in Consumers, prod[p].pc = "write", cons[c].pc = "read",
               prod[p].old.index = cons[c].old.index
        PROVE  FALSE
    <3> DEFINE u == prod[p].old.version
    <3>1. u \in Nat /\ H <= u /\ u < T /\ prod[p].old.index = Slot(u)
      BY <2>2 DEF QInv, TypeOK, PushState, Index, Claims, Busy, Positions, InPlace
    <3>2. cons[c].old.index = Slot(H) /\ ~Held(H)
      BY <2>2 DEF QInv, Positions, InPlace, Views, PopView, H
    <3>3. u # H
      BY <2>2, <3>2 DEF Held, Busy
    <3> HIDE DEF u
    <3>4. u < H + QUEUE_SIZE /\ H < u + QUEUE_SIZE
      BY <3>1, <1>0
    <3> QED BY <2>2, <3>1, <3>2, <3>3, <3>4, <1>0, SlotInj
  <2> QED BY <2>1, <2>2 DEF NoDataRace
<1>2. FlagsMarkItems
  <2> SUFFICES ASSUME NEW k \in Slots
               PROVE  data_flag_[k] <=>
                        \E v \in H .. (T - 1) : Slot(v) = k /\ ~Held(v) /\ ~Taken(v)
    BY DEF FlagsMarkItems, Held, Busy, Taken, Slot, H, T
  <2>1. PICK w \in H .. (H + QUEUE_SIZE - 1) : Slot(w) = k
    BY <1>0, SlotOnto
  <2>2. w \in Nat /\ H <= w /\ w < H + QUEUE_SIZE
    BY <2>1, <1>0
  <2>3. data_flag_[k] <=> w < T /\ ~Held(w) /\ ~Taken(w)
    BY <2>1, <2>2 DEF QInv, Flags
  <2>4. \A v \in H .. (T - 1) : Slot(v) = k => v = w
    <3> SUFFICES ASSUME NEW v \in H .. (T - 1), Slot(v) = k PROVE v = w
      OBVIOUS
    <3>1. v \in Nat /\ v < w + QUEUE_SIZE /\ w < v + QUEUE_SIZE
      BY <2>2, <1>0
    <3> QED BY <3>1, <2>1, <2>2, SlotInj
  <2>5. w < T => w \in H .. (T - 1)
    BY <2>2, <1>0
  <2> QED BY <2>1, <2>2, <2>3, <2>4, <2>5, <1>0
<1> QED BY <1>1, <1>2 DEF QInv, SlotsAreOwned

\* A slot belongs to one thread at a time, and its flag says whose turn it is
\* (Push and Pop, queue_lock_free.h:32-77), for any number of producers, any
\* size of the ring and any number of rounds, with one consumer.
THEOREM EverySlotHasOneOwner ==
  ASSUME OneConsumer
  PROVE  Spec => []SlotsAreOwned
<1>1. QInv => SlotsAreOwned
  BY QInvOwns
<1> QED BY <1>1, QAlways, PTL

\* The ring is a bounded first-in first-out queue (Push and Pop,
\* queue_lock_free.h:32-77): items come out in the order of the claims, none is
\* lost, none comes twice, and never more than QUEUE_SIZE - 1 are in it.
THEOREM RingIsABoundedFifo ==
  ASSUME OneConsumer
  PROVE  Spec => ImplementsFifo
<1>1. Init => Fifo!FifoInit
  <2> SUFFICES ASSUME Init PROVE Fifo!FifoInit
    OBVIOUS
  <2>1. Pending = <<>>
    BY DEF Init, Zero, Pending
  <2> QED BY <2>1 DEF Init, Fifo!FifoInit
<1>2. QInv /\ [Next]_vars => [Fifo!FifoNext]_(Fifo!fifoVars)
  BY QStep
<1> QED BY <1>1, <1>2, QAlways, PTL DEF Spec, ImplementsFifo, Fifo!FifoSpec
==============================================================================
