---------------------------- MODULE ContainersProofs ----------------------------
(***************************************************************************)
(* The two rings, the pool of cells and the containers of keys, for any    *)
(* number of slots, cells and buckets above 0, a ring of any size above 2, *)
(* any records and values, any keys that are numbers where they are        *)
(* hashed, and any number of crashes.                                      *)
(*                                                                         *)
(* Of the rings: both implement the log of records; records tile the ring  *)
(* of bytes, which refuses none that it has room for, and the back of the  *)
(* ring of values mirrors its front.                                       *)
(*                                                                         *)
(* Of the pool: the memory is that of two lists of cells that share none,  *)
(* the cells in use, linked both ways, and those given back, which bear    *)
(* the mark; a crash may make either shorter, and puts a cell into both    *)
(* only where it tears the pool, of which nothing is said until it is      *)
(* cleared but that its links stay in range.  Of the containers of keys:   *)
(* the memory is that of such lists too, and of a list for every bucket    *)
(* that shares out the cells in use by their key; so they implement the    *)
(* list of keys.                                                           *)
(***************************************************************************)
EXTENDS Containers, CellChains, Integers, SequenceTheorems, FiniteSetTheorems, WellFoundedInduction, TLAPS

------------------------------------------------------------------------------
(***************************************************************************)
(* FixedRingBuf.  The provers do not compute with the remainder of a       *)
(* variable divisor, so the first lemmas say what it is for the sums that  *)
(* occur here, all of them below twice the number of slots.                *)
(***************************************************************************)
slots == max_num.ring

LEMMA SlotsNumber == slots \in Nat \ {0}
  BY ContainersAssumption DEF slots

\* end is where start and the number of values in between say.
FixedRings == [start : Fixed!Slots, end : Fixed!Slots, used_num : 0 .. slots, buf : [Fixed!Slots -> Values]]
FixedOK(r) == r \in FixedRings /\ r.end = (r.start + r.used_num) % slots

\* Of a ring of values and its push.
RInv ==
  /\ FixedOK(ring)
  /\ call # NoCall => call \in [item : Values, over_write : BOOLEAN]

\* What front returns, of any ring.
FrontsOf(r) == [i \in 1 .. r.used_num |-> r.buf[(r.start + (i - 1)) % slots]]

\* Once around the ring at most.
LEMMA Wrap ==
  ASSUME NEW n \in Nat \ {0}, NEW a \in 0 .. (2 * n - 1)
  PROVE  /\ a % n = IF a < n THEN a ELSE a - n
         /\ a % n \in 0 .. (n - 1)
<1> DEFINE q == a \div n
           r == a % n
<1>1. q \in Int /\ r \in 0 .. (n - 1)
  OBVIOUS
<1>2. a = n * q + r
  OBVIOUS
<1> HIDE DEF q, r
<1>3. q = 0 \/ q = 1
  BY <1>1, <1>2
<1>4. r = IF a < n THEN a ELSE a - n
  BY <1>1, <1>2, <1>3
<1> QED BY <1>1, <1>4 DEF r

LEMMA Slotted ==
  ASSUME slots \in Nat \ {0}
  PROVE  \A a \in Int : a >= 0 /\ a < 2 * slots =>
           /\ a % slots = IF a < slots THEN a ELSE a - slots
           /\ a % slots \in Fixed!Slots
<1> SUFFICES ASSUME NEW a \in Int, a >= 0, a < 2 * slots
             PROVE  /\ a % slots = IF a < slots THEN a ELSE a - slots
                    /\ a % slots \in Fixed!Slots
  OBVIOUS
<1>1. a \in 0 .. (2 * slots - 1)
  OBVIOUS
<1> QED BY <1>1, Wrap DEF Fixed!Slots, slots

\* The slots the index arithmetic of pop, push, front and back arrives at.
LEMMA Around ==
  ASSUME slots \in Nat \ {0}, NEW s \in Fixed!Slots, NEW k \in 0 .. slots
  PROVE  /\ (s + k) % slots \in Fixed!Slots
         /\ k = 0 \/ k = slots => (s + k) % slots = s
         /\ \A j \in 0 .. (k - 1) : k - j < slots => (s + j) % slots # (s + k) % slots
         /\ k # 0 => (((s + 1) % slots) + (k - 1)) % slots = (s + k) % slots
         /\ k # slots => (((s + k) % slots) + 1) % slots = (s + (k + 1)) % slots
<1>0. /\ s \in Int /\ s >= 0 /\ s < slots
      /\ k \in Int /\ k >= 0 /\ k <= slots
  BY DEF Fixed!Slots, slots
<1>1. (s + k) % slots = IF s + k < slots THEN s + k ELSE s + k - slots
  BY <1>0, Slotted
<1>2. \A j \in 0 .. (k - 1) : (s + j) % slots = IF s + j < slots THEN s + j ELSE s + j - slots
  BY <1>0, Slotted
<1>3. (s + 1) % slots = IF s + 1 < slots THEN s + 1 ELSE 0
  BY <1>0, Slotted
<1>4. (s + k) % slots \in Fixed!Slots
  BY <1>0, Slotted
<1>5. k # 0 => (((s + 1) % slots) + (k - 1)) % slots = (s + k) % slots
  <2> SUFFICES ASSUME k # 0 PROVE (((s + 1) % slots) + (k - 1)) % slots = (s + k) % slots
    OBVIOUS
  <2> DEFINE a == ((s + 1) % slots) + (k - 1)
  <2>1. a = IF s + 1 < slots THEN s + k ELSE k - 1
    BY <1>3 DEF Fixed!Slots, slots
  <2>2. a \in Int /\ a >= 0 /\ a < 2 * slots
    BY <2>1, <1>0
  <2> HIDE DEF a
  <2>3. a % slots = IF a < slots THEN a ELSE a - slots
    BY <2>2, Slotted
  <2>4. a % slots = (s + k) % slots
    BY <2>1, <2>3, <1>0, <1>1
  <2> QED BY <2>4 DEF a
<1>6. k # slots => (((s + k) % slots) + 1) % slots = (s + (k + 1)) % slots
  <2> SUFFICES ASSUME k # slots PROVE (((s + k) % slots) + 1) % slots = (s + (k + 1)) % slots
    OBVIOUS
  <2> DEFINE a == (s + k) % slots
  <2>0. a \in Int /\ a >= 0 /\ a < slots /\ a = IF s + k < slots THEN s + k ELSE s + k - slots
    BY <1>0, <1>1
  <2> HIDE DEF a
  <2>1. (a + 1) % slots = IF a + 1 < slots THEN a + 1 ELSE a + 1 - slots
    BY <2>0, Slotted
  <2>2. (s + (k + 1)) % slots = IF s + (k + 1) < slots THEN s + (k + 1) ELSE s + (k + 1) - slots
    BY <1>0, Slotted
  <2>3. (a + 1) % slots = (s + (k + 1)) % slots
    BY <2>0, <2>1, <2>2, <1>0
  <2> QED BY <2>3 DEF a
<1>7. \A j \in 0 .. (k - 1) : k - j < slots => (s + j) % slots # (s + k) % slots
  BY <1>0, <1>1, <1>2
<1>8. k = 0 \/ k = slots => (s + k) % slots = s
  BY <1>0, <1>1
<1> QED BY <1>4, <1>5, <1>6, <1>7, <1>8

\* What front returns is a sequence of the values pushed.
LEMMA FrontsIsSeq ==
  ASSUME slots \in Nat \ {0}, NEW r, FixedOK(r)
  PROVE  /\ FrontsOf(r) \in Seq(Values) /\ Len(FrontsOf(r)) = r.used_num
         /\ \A i \in 1 .. r.used_num : FrontsOf(r)[i] = r.buf[(r.start + (i - 1)) % slots]
<1>1. \A i \in 1 .. r.used_num : r.buf[(r.start + (i - 1)) % slots] \in Values
  BY Around DEF FixedOK, FixedRings
<1>2. FrontsOf(r) \in [1 .. r.used_num -> Values] /\ r.used_num \in Nat
  BY <1>1 DEF FrontsOf, FixedOK, FixedRings
<1>3. FrontsOf(r) \in Seq(Values) /\ Len(FrontsOf(r)) = r.used_num
  BY <1>2, SeqDef
<1>4. \A i \in 1 .. r.used_num : FrontsOf(r)[i] = r.buf[(r.start + (i - 1)) % slots]
  BY DEF FrontsOf
<1> QED BY <1>3, <1>4

\* pop drops the oldest value, and only it.
LEMMA PopDropsOldest ==
  ASSUME slots \in Nat \ {0}, NEW r, FixedOK(r), r.used_num # 0
  PROVE  /\ FixedOK(Fixed!Popped(r))
         /\ FrontsOf(r) # <<>> /\ FrontsOf(Fixed!Popped(r)) = Tail(FrontsOf(r))
<1> DEFINE p == Fixed!Popped(r)
<1>0. /\ r.start \in Fixed!Slots /\ r.end \in Fixed!Slots /\ r.buf \in [Fixed!Slots -> Values]
      /\ r.end = (r.start + r.used_num) % slots
      /\ r.used_num \in 1 .. slots /\ r.used_num - 1 \in 0 .. slots /\ 1 \in 0 .. slots
  BY DEF FixedOK, FixedRings
<1>1. /\ p.start = (r.start + 1) % slots /\ p.used_num = r.used_num - 1
      /\ p.end = r.end /\ p.buf = r.buf
  BY DEF FixedOK, FixedRings, Fixed!Popped, slots
<1>2. p.start \in Fixed!Slots
  BY <1>0, <1>1, Around
<1>3. p.end = (p.start + p.used_num) % slots
  BY <1>0, <1>1, Around
<1>a. p \in FixedRings
  BY <1>1, <1>2, <1>0 DEF FixedOK, FixedRings, Fixed!Popped, slots
<1> HIDE DEF p
<1>4. FixedOK(p)
  BY <1>a, <1>3 DEF FixedOK
<1>5. /\ FrontsOf(p) \in Seq(Values) /\ Len(FrontsOf(p)) = r.used_num - 1
      /\ \A i \in 1 .. (r.used_num - 1) :
           FrontsOf(p)[i] = r.buf[(((r.start + 1) % slots) + (i - 1)) % slots]
  BY <1>1, <1>4, FrontsIsSeq
<1>6. /\ FrontsOf(r) \in Seq(Values) /\ Len(FrontsOf(r)) = r.used_num
      /\ \A i \in 1 .. r.used_num : FrontsOf(r)[i] = r.buf[(r.start + (i - 1)) % slots]
  BY FrontsIsSeq
<1>7. FrontsOf(r) # <<>>
  BY <1>0, <1>6
<1>8. /\ Tail(FrontsOf(r)) \in Seq(Values) /\ Len(Tail(FrontsOf(r))) = r.used_num - 1
      /\ \A i \in 1 .. (r.used_num - 1) : Tail(FrontsOf(r))[i] = FrontsOf(r)[i + 1]
  BY <1>6, <1>7, HeadTailProperties
<1>9. \A i \in 1 .. (r.used_num - 1) : FrontsOf(p)[i] = Tail(FrontsOf(r))[i]
  <2> TAKE i \in 1 .. (r.used_num - 1)
  <2>1. i \in 0 .. slots /\ i # 0 /\ i + 1 \in 1 .. r.used_num /\ (i + 1) - 1 = i
    BY <1>0
  <2>2. (((r.start + 1) % slots) + (i - 1)) % slots = (r.start + i) % slots
    BY <2>1, <1>0, Around
  <2>3. FrontsOf(p)[i] = r.buf[(r.start + i) % slots]
    BY <2>2, <1>5
  <2>4. FrontsOf(r)[i + 1] = r.buf[(r.start + ((i + 1) - 1)) % slots]
    BY <2>1, <1>6
  <2>5. FrontsOf(r)[i + 1] = r.buf[(r.start + i) % slots]
    BY <2>1, <2>4
  <2> QED BY <2>3, <2>5, <1>8
<1>10. FrontsOf(p) = Tail(FrontsOf(r))
  BY <1>5, <1>8, <1>9, SeqEqual
<1> QED BY <1>4, <1>7, <1>10 DEF p

\* A push into a ring that is not full adds one value behind the newest.
Pushed(r, value) ==
  [r EXCEPT !.buf[r.end] = value, !.end = (@ + 1) % slots, !.used_num = @ + 1]

LEMMA PushAppends ==
  ASSUME slots \in Nat \ {0}, NEW r, FixedOK(r), r.used_num # slots, NEW value \in Values
  PROVE  /\ FixedOK(Pushed(r, value))
         /\ FrontsOf(Pushed(r, value)) = Append(FrontsOf(r), value)
<1> DEFINE p == Pushed(r, value)
<1>0. /\ r.start \in Fixed!Slots /\ r.end \in Fixed!Slots /\ r.buf \in [Fixed!Slots -> Values]
      /\ r.end = (r.start + r.used_num) % slots
      /\ r.used_num \in 0 .. slots /\ r.used_num + 1 \in 0 .. slots
      /\ r.used_num < slots
  BY DEF FixedOK, FixedRings
<1>1. /\ p.start = r.start /\ p.used_num = r.used_num + 1
      /\ p.end = (r.end + 1) % slots /\ p.buf = [r.buf EXCEPT ![r.end] = value]
  BY DEF FixedOK, FixedRings, Pushed
<1>2. /\ (r.end + 1) % slots = (r.start + (r.used_num + 1)) % slots
      /\ (r.start + (r.used_num + 1)) % slots \in Fixed!Slots
  BY <1>0, Around
<1>3. [r.buf EXCEPT ![r.end] = value] \in [Fixed!Slots -> Values]
  BY <1>0
<1>a. p.end = (p.start + p.used_num) % slots
  <2> HIDE DEF p
  <2> QED BY <1>1, <1>2
<1>b. p \in FixedRings
  BY <1>2, <1>3, <1>0 DEF FixedOK, FixedRings, Pushed
<1> HIDE DEF p
<1>4. FixedOK(p)
  BY <1>a, <1>b DEF FixedOK
<1>5. /\ FrontsOf(p) \in Seq(Values) /\ Len(FrontsOf(p)) = r.used_num + 1
      /\ \A i \in 1 .. (r.used_num + 1) :
           FrontsOf(p)[i] = p.buf[(r.start + (i - 1)) % slots]
  <2>1. /\ FrontsOf(p) \in Seq(Values) /\ Len(FrontsOf(p)) = p.used_num
        /\ \A i \in 1 .. p.used_num : FrontsOf(p)[i] = p.buf[(p.start + (i - 1)) % slots]
    BY <1>4, FrontsIsSeq
  <2>2. p.start = r.start /\ p.used_num = r.used_num + 1
    BY <1>1
  <2> QED BY <2>1, <2>2
<1>6. /\ FrontsOf(r) \in Seq(Values) /\ Len(FrontsOf(r)) = r.used_num
      /\ \A i \in 1 .. r.used_num : FrontsOf(r)[i] = r.buf[(r.start + (i - 1)) % slots]
  BY FrontsIsSeq
<1>7. /\ Append(FrontsOf(r), value) \in Seq(Values)
      /\ Len(Append(FrontsOf(r), value)) = r.used_num + 1
      /\ \A i \in 1 .. r.used_num : Append(FrontsOf(r), value)[i] = FrontsOf(r)[i]
      /\ Append(FrontsOf(r), value)[r.used_num + 1] = value
  BY <1>0, <1>6, AppendProperties
<1>8. \A i \in 1 .. r.used_num : FrontsOf(p)[i] = FrontsOf(r)[i]
  <2> TAKE i \in 1 .. r.used_num
  <2>1. /\ i - 1 \in 0 .. (r.used_num - 1) /\ r.used_num - (i - 1) < slots
        /\ i - 1 \in 0 .. slots /\ r.used_num \in 0 .. slots
    BY <1>0
  <2>2. (r.start + (i - 1)) % slots \in Fixed!Slots /\ (r.start + (i - 1)) % slots # r.end
    BY <2>1, <1>0, Around
  <2>3. p.buf[(r.start + (i - 1)) % slots] = r.buf[(r.start + (i - 1)) % slots]
    BY <2>2, <1>0, <1>1
  <2>4. FrontsOf(p)[i] = p.buf[(r.start + (i - 1)) % slots]
    BY <1>0, <1>5
  <2> QED BY <2>3, <2>4, <1>6
<1>9. FrontsOf(p)[r.used_num + 1] = value
  BY <1>0, <1>5, <1>1
<1>10. FrontsOf(p) = Append(FrontsOf(r), value)
  BY <1>0, <1>5, <1>7, <1>8, <1>9, SeqEqual
<1> QED BY <1>4, <1>10 DEF p

\* clear leaves nothing, whatever the slots hold.
LEMMA ClearEmpties ==
  ASSUME slots \in Nat \ {0}, NEW buf \in [Fixed!Slots -> Values]
  PROVE  FixedOK(Fixed!EmptyRing(buf)) /\ FrontsOf(Fixed!EmptyRing(buf)) = <<>>
  BY Around, FrontsIsSeq, EmptySeq DEF Fixed!Slots, slots, FixedOK, FixedRings, Fixed!EmptyRing

------------------------------------------------------------------------------
LEMMA FrontsAre == Fixed!Fronts = FrontsOf(ring)
  BY DEF Fixed!Fronts, FrontsOf, Fixed!Front, slots

LEMMA FrontsBecome == Fixed!Fronts' = FrontsOf(ring')
  BY DEF Fixed!Fronts, FrontsOf, Fixed!Front, slots

LEMMA RInit == Fixed!Init => RInv /\ Fixed!Fronts = <<>> /\ call = NoCall
<1> SUFFICES ASSUME Fixed!Init PROVE RInv /\ Fixed!Fronts = <<>> /\ call = NoCall
  OBVIOUS
<1>1. PICK buf \in [Fixed!Slots -> Values] : ring = Fixed!EmptyRing(buf)
  BY DEF Fixed!Init
<1> QED BY <1>1, SlotsNumber, ClearEmpties, FrontsAre DEF Fixed!Init, RInv

FixedLog == INSTANCE RecordLog WITH Records <- Values, log <- Fixed!Fronts

\* Every step keeps RInv and is a step of the log, or leaves it alone.
LEMMA RStep ==
  ASSUME RInv, Fixed!Next
  PROVE  RInv' /\ [FixedLog!LogNext]_(FixedLog!logVars)
<1> USE FrontsAre, FrontsBecome, SlotsNumber DEF RInv
<1>1. CASE \E value \in Values, over_write \in BOOLEAN : Fixed!Push(value, over_write)
  <2> PICK value \in Values, over_write \in BOOLEAN : Fixed!Push(value, over_write)
    BY <1>1
  <2>1. FixedLog!Begin(value, over_write)
    BY DEF Fixed!Push, FixedLog!Begin
  <2> QED BY <2>1 DEF Fixed!Push, FixedLog!LogNext
<1>2. CASE call # NoCall /\ Fixed!PushFull
  BY <1>2, PopDropsOldest DEF FixedLog!LogNext, FixedLog!Refuse, Fixed!PushFull, Fixed!IsFull,
     slots, FixedLog!DropOldest
<1>3. CASE call # NoCall /\ Fixed!PushStore
  <2>1. ring' = Pushed(ring, call.item) /\ call.item \in Values /\ ring.used_num # slots
    BY <1>3 DEF Fixed!PushStore, Pushed, Fixed!IsFull, slots
  <2>2. /\ FixedOK(Pushed(ring, call.item))
        /\ FrontsOf(Pushed(ring, call.item)) = Append(FrontsOf(ring), call.item)
    BY <2>1, PushAppends
  <2>3. Fixed!Fronts' = Append(Fixed!Fronts, call.item) /\ FixedOK(ring')
    BY <2>1, <2>2
  <2>4. FixedLog!Accept
    BY <2>3, <1>3 DEF Fixed!PushStore, FixedLog!Accept
  <2> QED BY <2>3, <2>4, <1>3 DEF Fixed!PushStore, FixedLog!LogNext
<1>4. CASE Fixed!Pop
  BY <1>4, PopDropsOldest DEF Fixed!Pop, Fixed!IsEmpty, FixedLog!Take, FixedLog!LogNext
<1>5. CASE Fixed!Clear
  BY <1>5, ClearEmpties DEF Fixed!Clear, FixedOK, FixedRings, FixedLog!Empty, FixedLog!LogNext
<1> QED BY <1>1, <1>2, <1>3, <1>4, <1>5 DEF Fixed!Next, Fixed!PushStep

\* back counts from end as front counts from start.
LEMMA BackIsFront == RInv => Fixed!BackMirrorsFront
<1> SUFFICES ASSUME RInv, NEW i \in 0 .. (ring.used_num - 1)
             PROVE  Fixed!Back(i) = Fixed!Front(ring.used_num - 1 - i)
  BY DEF Fixed!BackMirrorsFront
<1> DEFINE s == ring.start
           n == ring.used_num
<1>1. /\ s \in Fixed!Slots /\ n \in 0 .. slots /\ ring.end = (s + n) % slots
  BY DEF RInv, FixedOK, FixedRings
<1>2. i \in 0 .. (n - 1)
  OBVIOUS
<1> HIDE DEF s, n
<1>3. /\ slots \in Nat /\ slots > 0 /\ s \in Int /\ s >= 0 /\ s < slots
      /\ n \in Int /\ n >= 0 /\ n <= slots /\ i \in Int /\ i >= 0 /\ i < n
  BY <1>1, <1>2, SlotsNumber DEF Fixed!Slots, slots
<1>4. \A a \in Int : a >= 0 /\ a < 2 * slots =>
        a % slots = IF a < slots THEN a ELSE a - slots
  BY Slotted, SlotsNumber
<1> DEFINE e == (s + n) % slots
<1>5. e = IF s + n < slots THEN s + n ELSE s + n - slots
  BY <1>3, <1>4
<1> HIDE DEF e
<1> DEFINE b == e + slots - 1 - i
           f == s + (n - 1 - i)
<1>6. b \in Int /\ b >= 0 /\ b < 2 * slots /\ f \in Int /\ f >= 0 /\ f < 2 * slots
  BY <1>3, <1>5
<1>7. b = f \/ b = f + slots \/ f = b + slots
  BY <1>3, <1>5
<1>8. Fixed!Back(i) = ring.buf[b % slots]
  BY <1>1 DEF Fixed!Back, slots, e
<1>9. Fixed!Front(ring.used_num - 1 - i) = ring.buf[f % slots]
  BY DEF Fixed!Front, slots, s, n
<1> HIDE DEF b, f
<1>10. b % slots = f % slots
  BY <1>3, <1>4, <1>6, <1>7
<1> QED BY <1>8, <1>9, <1>10

LEMMA FixedNext ==
  ASSUME kind = "fixed" => RInv, [Next]_vars
  PROVE  /\ kind' = "fixed" => RInv'
         /\ kind = "fixed" => kind' = "fixed" /\ [FixedLog!LogNext]_(FixedLog!logVars)
<1>1. CASE kind # "fixed"
  BY <1>1 DEF Next, RingNext, PoolNext, KeyNext, vars
<1>2. CASE kind = "fixed" /\ RingNext
  BY <1>2, RStep DEF RingNext
<1>3. CASE kind = "fixed" /\ UNCHANGED vars
  BY <1>3, FrontsAre, FrontsBecome DEF vars, ringVars, RInv, FixedLog!logVars
<1> QED BY <1>1, <1>2, <1>3 DEF Next, PoolNext, KeyNext

\* The log of a ring of values is what front returns and its own push.
LogCall == IF call = NoCall THEN NoCall ELSE [item |-> call.item, over_write |-> call.over_write]

LEMMA FixedLogIsLog ==
  kind = "fixed" /\ RInv => Fronts = Fixed!Fronts /\ LogCall = call
<1> SUFFICES ASSUME kind = "fixed", RInv PROVE Fronts = Fixed!Fronts /\ LogCall = call
  OBVIOUS
<1>1. Fronts = Fixed!Fronts
  BY DEF Fronts
<1>2. CASE call # NoCall
  BY <1>2, <1>1 DEF RInv, LogCall
<1> QED BY <1>1, <1>2 DEF LogCall

LEMMA FixedLogBecomesLog ==
  (kind = "fixed" /\ RInv)' => (Fronts = Fixed!Fronts /\ LogCall = call)'
  BY FixedLogIsLog, PTL

LEMMA FixedLogSteps ==
  ASSUME kind = "fixed", kind' = "fixed", RInv, RInv', [FixedLog!LogNext]_(FixedLog!logVars)
  PROVE  [Log!LogNext]_(Log!logVars)
<1>1. Fronts = Fixed!Fronts /\ LogCall = call /\ Fronts' = Fixed!Fronts' /\ LogCall' = call'
  BY FixedLogIsLog, FixedLogBecomesLog
<1>2. ASSUME NEW x \in Values, NEW ow \in BOOLEAN, FixedLog!Begin(x, ow) PROVE Log!Begin(x, ow)
  BY <1>1, <1>2 DEF FixedLog!Begin, Log!Begin, LogCall
<1>3. FixedLog!DropOldest => Log!DropOldest
  BY <1>1 DEF FixedLog!DropOldest, Log!DropOldest, LogCall
<1>4. FixedLog!Accept => Log!Accept
  BY <1>1 DEF FixedLog!Accept, Log!Accept, LogCall
<1>5. FixedLog!Refuse => Log!Refuse
  BY <1>1 DEF FixedLog!Refuse, Log!Refuse, LogCall
<1>6. FixedLog!Take => Log!Take
  BY <1>1 DEF FixedLog!Take, Log!Take, LogCall
<1>7. FixedLog!Empty => Log!Empty
  BY <1>1 DEF FixedLog!Empty, Log!Empty, LogCall
<1>8. UNCHANGED FixedLog!logVars => UNCHANGED Log!logVars
  BY <1>1 DEF FixedLog!logVars, Log!logVars, LogCall
<1> QED BY <1>2, <1>3, <1>4, <1>5, <1>6, <1>7, <1>8 DEF FixedLog!LogNext, Log!LogNext

------------------------------------------------------------------------------
\* Among some natural numbers there is a least.
LEMMA LeastNat ==
  ASSUME NEW T \in SUBSET Nat, T # {}
  PROVE  \E n \in T : \A m \in T : n =< m
<1> DEFINE R == {ss \in Nat \X Nat : ss[1] < ss[2]}
<1>1. IsWellFoundedOn(R, Nat)
  BY NatLessThanWellFounded DEF OpToRel
<1>2. PICK n \in T : \A m \in T : <<m, n>> \notin R
  <2> HIDE DEF R
  <2> QED BY <1>1, WFMin
<1>3. \A m \in T : ~(m < n)
  BY <1>2
<1> QED BY <1>3

\* Induction, for the members of a set.
LEMMA SetInduction ==
  ASSUME NEW S, 0 \in S, \A n \in Nat : n \in S => n + 1 \in S
  PROVE  Nat \subseteq S
<1> SUFFICES ASSUME Nat \ S # {} PROVE FALSE
  OBVIOUS
<1>1. PICK n \in Nat \ S : \A m \in Nat \ S : n =< m
  BY LeastNat
<1>2. n # 0 /\ n - 1 \in Nat /\ n - 1 \in S
  BY <1>1
<1> QED BY <1>1, <1>2

------------------------------------------------------------------------------
(***************************************************************************)
(* UnfixedRingBuf.  A layout v says where its records begin: the k-th at   *)
(* v[k], oldest first, and the next one to be stored at v[item_num].  It   *)
(* counts on past the end of the ring, so it only ever grows.              *)
(***************************************************************************)
ByteRings == [start : Unfixed!Bytes, end : Unfixed!Bytes, used_size : Nat, item_num : Nat,
              buf : [Unfixed!Bytes -> Nat]]

\* The byte at a place of a layout.
Lap(y) == IF y < size THEN 0 ELSE size
Real(y) == y - Lap(y)

\* A record at byte a, whole, and where the next one begins: right behind it, or
\* at the end of the ring if the bytes left there are padded, or too few for it.
Spans(buf, a, b) ==
  /\ a \in Nat /\ buf[a] = 0 /\ buf[a + 1] \in Nat
  /\ \/ b = a + 2 + buf[a + 1] /\ b <= size /\ b # size - 1
     \/ b = size /\ a + 2 + buf[a + 1] = size - 1
     \/ /\ b = size /\ a + 2 + buf[a + 1] <= size - 2
        /\ buf[a + 2 + buf[a + 1]] = 1
        /\ buf[a + 2 + buf[a + 1] + 1] = size - (a + 2 + buf[a + 1]) - 2

Fits(buf, a, b) == Spans(buf, Real(a), b - Lap(a))

Layout(buf, v, n) ==
  /\ n \in Nat /\ v \in [Nat -> Int]
  /\ 0 <= v[0] /\ v[0] < size /\ v[n] <= v[0] + size
  /\ \A k \in Nat : k < n => Fits(buf, v[k], v[k + 1])

Laid(r, v) ==
  /\ r \in ByteRings
  /\ Layout(r.buf, v, r.item_num)
  /\ r.start = v[0] /\ r.end = Real(v[r.item_num])
  /\ r.used_size = v[r.item_num] - v[0]
  /\ r.item_num = 0 => v[0] = 0

\* The record at byte p, and all of them.
RecordOf(buf, p) == [j \in 1 .. buf[p + 1] |-> buf[p + 1 + j]]
RecordsOf(buf, v, n) == [i \in 1 .. n |-> RecordOf(buf, Real(v[i - 1]))]

LEMMA SizeNumber == size \in Nat /\ size > 2
  BY ContainersAssumption

\* One record is at least its header, and does not reach past the end of the ring.
LEMMA FitsMoves ==
  ASSUME NEW buf, NEW a \in Int, NEW b \in Int, Fits(buf, a, b)
  PROVE  /\ Real(a) \in Nat /\ Real(a) + 2 <= size /\ a + 2 <= b /\ 0 <= a /\ a < 2 * size
         /\ b - Lap(a) <= size /\ b - Lap(a) # size - 1
         /\ buf[Real(a)] = 0 /\ buf[Real(a) + 1] \in Nat
         /\ Real(a) + 2 + buf[Real(a) + 1] <= b - Lap(a)
<1> DEFINE p == Real(a)
           l == buf[p + 1]
           c == b - Lap(a)
<1>1. Spans(buf, p, c)
  BY DEF Fits
<1>2. (a < size /\ p = a /\ c = b) \/ (a >= size /\ p = a - size /\ c = b - size)
  BY SizeNumber DEF Real, Lap
<1> HIDE DEF p, c
<1>3. /\ p \in Nat /\ buf[p] = 0 /\ l \in Nat
      /\ (c = p + 2 + l /\ c <= size /\ c # size - 1) \/ (c = size /\ p + 2 + l <= size - 1)
  BY <1>1, SizeNumber DEF Spans
<1> HIDE DEF l
<1>4. p + 2 <= size /\ p + 2 + l <= c /\ c <= size /\ c # size - 1 /\ a + 2 <= b /\ 0 <= a /\ a < 2 * size
  BY <1>2, <1>3, SizeNumber
<1> QED BY <1>3, <1>4 DEF p, l, c

\* The places of a layout only grow.
LEMMA Climbs ==
  ASSUME NEW buf, NEW v, NEW n, Layout(buf, v, n)
  PROVE  \A i, j \in Nat : i < j /\ j <= n => v[i] < v[j]
<1>1. n \in Nat /\ v \in [Nat -> Int] /\ \A k \in Nat : k < n => v[k] < v[k + 1]
  BY FitsMoves DEF Layout
<1> TAKE i \in Nat
<1> DEFINE S == {m \in Nat : i + m + 1 <= n => v[i] < v[i + m + 1]}
<1>2. 0 \in S
  BY <1>1
<1>3. ASSUME NEW m \in Nat, m \in S PROVE m + 1 \in S
  BY <1>1, <1>3
<1> HIDE DEF S
<1>4. Nat \subseteq S
  BY <1>2, <1>3, SetInduction
<1> TAKE j \in Nat
<1>5. ASSUME i < j, j <= n PROVE v[i] < v[j]
  BY <1>4, <1>5 DEF S
<1> QED BY <1>5

\* A place below two laps names a byte of the ring.
LEMMA RealIs ==
  ASSUME NEW y \in Int, 0 <= y, y < 2 * size
  PROVE  /\ Real(y) \in Unfixed!Bytes /\ Real(y) \in Int /\ Lap(y) \in Int
         /\ y < size => Real(y) = y /\ Lap(y) = 0
         /\ y >= size => Real(y) = y - size /\ Lap(y) = size
  BY SizeNumber DEF Real, Lap, Unfixed!Bytes

\* Where the places of a layout are.
LEMMA LayoutIn ==
  ASSUME NEW buf, NEW v, NEW n, Layout(buf, v, n), NEW k \in Nat, k <= n
  PROVE  /\ v[k] \in Int /\ v[n] \in Int /\ v[0] \in Int
         /\ v[0] <= v[k] /\ v[k] <= v[n] /\ 0 <= v[k] /\ v[k] < 2 * size
         /\ 0 < k => v[0] < v[k]
         /\ k < n => v[k] < v[n]
         /\ k < n => Fits(buf, v[k], v[k + 1]) /\ v[k + 1] \in Int /\ v[k] < v[k + 1] /\ v[k + 1] <= v[n]
<1>1. /\ n \in Nat /\ v \in [Nat -> Int] /\ 0 <= v[0] /\ v[0] < size /\ v[n] <= v[0] + size
      /\ k < n => Fits(buf, v[k], v[k + 1])
  BY DEF Layout
<1>2. /\ v[k] \in Int /\ v[n] \in Int /\ v[0] \in Int /\ v[k + 1] \in Int
  BY <1>1
<1>3. /\ 0 < k => v[0] < v[k]
      /\ k < n => v[k] < v[n]
      /\ k < n => v[k] < v[k + 1]
      /\ k + 1 < n => v[k + 1] < v[n]
  BY <1>1, Climbs
<1>4. k = 0 \/ 0 < k
  OBVIOUS
<1>5. k = n \/ k < n
  BY <1>1
<1>6. k + 1 = n \/ k + 1 < n \/ k = n
  BY <1>1
<1>7. v[0] <= v[k]
  BY <1>2, <1>3, <1>4
<1>8. v[k] <= v[n]
  BY <1>2, <1>3, <1>5
<1>9. k < n => v[k + 1] <= v[n]
  BY <1>1, <1>2, <1>3, <1>6
<1> QED BY <1>1, <1>2, <1>3, <1>7, <1>8, <1>9, SizeNumber

\* What a record is made of is between its place and the next.
LEMMA FitsKept ==
  ASSUME NEW buf, NEW buf2, NEW a \in Int, NEW b \in Int, Fits(buf, a, b), b <= a + size,
         \A y \in Int : a <= y /\ y < b => buf2[Real(y)] = buf[Real(y)]
  PROVE  Fits(buf2, a, b) /\ RecordOf(buf2, Real(a)) = RecordOf(buf, Real(a))
<1> DEFINE p == Real(a)
           l == buf[p + 1]
           c == b - Lap(a)
<1>1. Spans(buf, p, c)
  BY DEF Fits
<1>2. /\ p \in Nat /\ p + 2 <= size /\ a + 2 <= b /\ l \in Nat /\ p + 2 + l <= c /\ c <= size
      /\ 0 <= a /\ a < 2 * size
  BY FitsMoves
<1>3. (a < size /\ p = a /\ c = b) \/ (a >= size /\ p = a - size /\ c = b - size)
  BY SizeNumber DEF Real, Lap
<1>4. ASSUME NEW d \in Nat, d < c - p
      PROVE  buf2[p + d] = buf[p + d]
  <2> DEFINE y == a + d
  <2>0. p \in Int /\ c \in Int
    BY <1>3, SizeNumber
  <2>1. y \in Int /\ a <= y /\ y < b
    <3> HIDE DEF p, c
    <3> QED BY <1>3, <1>4, <2>0, SizeNumber
  <2>2. Real(y) = p + d
    BY <1>2, <1>3, <1>4, SizeNumber DEF Real, Lap
  <2> HIDE DEF y, p
  <2> QED BY <2>1, <2>2
<1> HIDE DEF p, c
<1>5. buf2[p] = buf[p] /\ buf2[p + 1] = l
  BY <1>3, SizeNumber, <1>2, <1>4
<1>6. ASSUME NEW j \in 1 .. l PROVE buf2[p + 1 + j] = buf[p + 1 + j]
  <2>1. 1 + j \in Nat /\ 1 + j < c - p /\ p + (1 + j) = p + 1 + j
    <3>1. c \in Int
      BY <1>3, SizeNumber
    <3> HIDE DEF l
    <3> QED BY <1>2, <3>1
  <2> QED BY <1>4, <2>1
<1>7. RecordOf(buf2, p) = RecordOf(buf, p)
  BY <1>5, <1>6 DEF RecordOf
<1>8. ASSUME p + 2 + l <= size - 2, c = size
      PROVE  buf2[p + 2 + l] = buf[p + 2 + l] /\ buf2[p + 2 + l + 1] = buf[p + 2 + l + 1]
  <2>1. 2 + l \in Nat /\ 2 + l < c - p /\ p + (2 + l) = p + 2 + l
    BY <1>2, <1>3, <1>8, SizeNumber
  <2>2. 2 + l + 1 \in Nat /\ 2 + l + 1 < c - p /\ p + (2 + l + 1) = p + 2 + l + 1
    BY <1>2, <1>3, <1>8, SizeNumber
  <2>3. buf2[p + (2 + l)] = buf[p + (2 + l)]
    BY <1>4, <2>1
  <2>4. buf2[p + (2 + l + 1)] = buf[p + (2 + l + 1)]
    BY <1>4, <2>2
  <2> QED BY <2>1, <2>2, <2>3, <2>4
<1>9. Spans(buf2, p, c)
  BY <1>1, <1>2, <1>5, <1>8 DEF Spans
<1> QED BY <1>7, <1>9 DEF Fits, p, c

\* Nor does a layout depend on the bytes outside it.
LEMMA LayoutKept ==
  ASSUME NEW buf, NEW buf2, NEW v, NEW n, Layout(buf, v, n),
         \A y \in Int : v[0] <= y /\ y < v[n] => buf2[Real(y)] = buf[Real(y)]
  PROVE  Layout(buf2, v, n) /\ RecordsOf(buf2, v, n) = RecordsOf(buf, v, n)
<1>1. /\ n \in Nat /\ v \in [Nat -> Int] /\ 0 <= v[0] /\ v[0] < size /\ v[n] <= v[0] + size
  BY DEF Layout
<1>2. ASSUME NEW k \in Nat, k < n
      PROVE  Fits(buf2, v[k], v[k + 1]) /\ RecordOf(buf2, Real(v[k])) = RecordOf(buf, Real(v[k]))
  <2> DEFINE a == v[k]
             b == v[k + 1]
  <2>1. k <= n
    BY <1>1, <1>2
  <2>2. /\ a \in Int /\ b \in Int /\ Fits(buf, a, b) /\ v[0] \in Int /\ v[n] \in Int
        /\ v[0] <= a /\ b <= v[n]
    BY <1>2, <2>1, LayoutIn
  <2> HIDE DEF a, b
  <2>3. b <= a + size
    BY <1>1, <2>2, SizeNumber
  <2>4. \A y \in Int : a <= y /\ y < b => buf2[Real(y)] = buf[Real(y)]
    BY <2>2
  <2>5. Fits(buf2, a, b) /\ RecordOf(buf2, Real(a)) = RecordOf(buf, Real(a))
    BY <2>2, <2>3, <2>4, FitsKept
  <2> QED BY <2>5 DEF a, b
<1>3. \A i \in 1 .. n : i - 1 \in Nat /\ i - 1 < n
  BY <1>1
<1>4. RecordsOf(buf2, v, n) = RecordsOf(buf, v, n)
  BY <1>2, <1>3 DEF RecordsOf
<1> QED BY <1>1, <1>2, <1>4 DEF Layout

\* One lap at most.
LEMMA Wraps ==
  ASSUME NEW y \in Int, 0 <= y, y <= size
  PROVE  y % size = Real(y) /\ Real(y) = (IF y = size THEN 0 ELSE y)
  BY SizeNumber DEF Real, Lap

\* To count from one lap further on is to name the same bytes.
LEMMA Shifts ==
  ASSUME NEW y \in Int, NEW b \in Int, 0 <= b, b <= y, y < 2 * size
  PROVE  Real(y - Lap(b)) = Real(y) /\ Lap(y - Lap(b)) = Lap(y) - Lap(b)
  BY SizeNumber DEF Real, Lap

LEMMA ShiftedFits ==
  ASSUME NEW buf, NEW y \in Int, NEW z \in Int, NEW b \in Int, 0 <= b, b <= y, Fits(buf, y, z)
  PROVE  Fits(buf, y - Lap(b), z - Lap(b))
  BY FitsMoves, Shifts, SizeNumber DEF Lap, Fits

\* What pop skips behind a record of which v[1] is the next.
LEMMA GapIs ==
  ASSUME NEW r, NEW v, Laid(r, v), r.item_num > 0,
         NEW len, len = 2 + r.buf[r.start + 1],
         NEW next, next = (r.start + len) % size,
         NEW gap, gap = IF Unfixed!SkipBytes(next) > 0 THEN Unfixed!SkipBytes(next)
                        ELSE IF r.used_size > len THEN Unfixed!Padding(r, next) ELSE 0
  PROVE  (next + gap) % size = Real(v[1]) /\ r.used_size - len - gap = v[r.item_num] - v[1]
<1> DEFINE n == r.item_num
           buf == r.buf
           p == r.start
           b == v[1]
           e == p + len
           used == r.used_size
<1>1. /\ n \in Nat /\ 0 < n /\ Layout(buf, v, n) /\ p = v[0] /\ used = v[n] - v[0]
  BY DEF Laid, ByteRings
<1>2. /\ Fits(buf, v[0], v[0 + 1]) /\ v[0] \in Int /\ v[n] \in Int /\ b \in Int /\ b <= v[n]
      /\ 0 <= v[0] /\ v[0] < 2 * size /\ v[0] < size
  <2>1. 0 \in Nat /\ 0 <= n /\ 0 < n /\ 0 + 1 = 1 /\ v[0] < size
    BY <1>1 DEF Layout
  <2> QED BY <1>1, <2>1, LayoutIn
<1>3. Real(v[0]) = v[0] /\ Lap(v[0]) = 0
  BY <1>2, SizeNumber DEF Real, Lap
<1>4. Spans(buf, p, b)
  BY <1>1, <1>2, <1>3 DEF Fits
<1>5. /\ p \in Nat /\ buf[p + 1] \in Nat /\ len \in Nat /\ e \in Nat /\ p + 2 <= size /\ len >= 2
      /\ e <= b /\ b <= size /\ b # size - 1
  BY <1>1, <1>2, <1>3, FitsMoves
<1>6. /\ b = e \/ (b = size /\ e = size - 1)
         \/ (b = size /\ e <= size - 2 /\ buf[e] = 1 /\ buf[e + 1] = size - e - 2)
  BY <1>5, <1>4 DEF Spans
\* Behind the last record there is nothing; behind another, a record.
<1>7. used > len <=> v[n] > e
  BY <1>1, <1>2, <1>5
<1>8. ASSUME v[n] > b PROVE buf[Real(b)] = 0
  BY <1>2, <1>8, <1>1, LayoutIn, FitsMoves
<1>9. next = Real(e) /\ Real(e) = (IF e = size THEN 0 ELSE e)
  BY <1>2, <1>5, SizeNumber, Wraps
<1>10. Unfixed!SkipBytes(next) = IF next + 2 > size THEN size - next ELSE 0
  BY DEF Unfixed!SkipBytes, Unfixed!HEADER
<1>11. Unfixed!Padding(r, next) = IF buf[next] = 1 THEN 2 + buf[next + 1] ELSE 0
  BY DEF Unfixed!Padding, Unfixed!HEADER
<1>12. CASE b = e
  <2>1. next + 2 <= size /\ Unfixed!SkipBytes(next) = 0
    BY <1>5, <1>9, <1>10, <1>12, SizeNumber
  <2>2. gap = 0
    <3>1. CASE used > len
      BY <1>7, <1>8, <1>9, <1>12, <3>1, <1>11, <2>1
    <3> QED BY <2>1, <3>1
  <2>3. next \in Int /\ next + gap = next /\ 0 <= next /\ next < size
    <3>1. e \in Nat /\ e <= size
      BY <1>2, <1>5, <1>12
    <3>2. next = IF e = size THEN 0 ELSE e
      BY <1>9
    <3> HIDE DEF e
    <3>3. (e < size /\ next = e) \/ next = 0
      BY <3>1, <3>2, SizeNumber
    <3> QED BY <2>2, <3>1, <3>3, SizeNumber
  <2>4. (next + gap) % size = Real(next) /\ Real(next) = next
    BY <2>3, Wraps, SizeNumber
  <2>5. used - len - gap = v[n] - b
    BY <1>1, <1>2, <1>5, <1>12, <2>2
  <2>6. (next + gap) % size = Real(b)
    BY <1>9, <1>12, <2>4
  <2> QED BY <2>5, <2>6
<1>13. CASE b = size /\ e = size - 1
  <2>1. next = size - 1 /\ gap = 1
    BY <1>5, <1>9, <1>10, <1>13, SizeNumber
  <2>2. next + gap = size /\ size % size = Real(size)
    BY <2>1, Wraps, SizeNumber
  <2>3. used - len - gap = v[n] - b
    BY <1>1, <1>2, <1>5, <1>13, <2>1
  <2> QED BY <1>13, <2>2, <2>3
<1>14. CASE b = size /\ e <= size - 2 /\ buf[e] = 1 /\ buf[e + 1] = size - e - 2
  <2>1. next = e /\ Unfixed!SkipBytes(next) = 0
    BY <1>5, <1>9, <1>10, <1>14, SizeNumber
  <2>2. used > len
    BY <1>2, <1>5, <1>7, <1>14, SizeNumber
  <2>3. gap = 2 + (size - e - 2)
    BY <1>11, <1>14, <2>1, <2>2
  <2>4. next + gap = size /\ size % size = Real(size)
    BY <1>5, <2>1, <2>3, Wraps, SizeNumber
  <2>5. used - len - gap = v[n] - b
    BY <1>1, <1>2, <1>5, <1>14, <2>3, SizeNumber
  <2> QED BY <1>14, <2>4, <2>5
<1> QED BY <1>6, <1>12, <1>13, <1>14, Zenon

\* Tail and Append, of sequences given by their elements.
LEMMA FunTail ==
  ASSUME NEW n \in Nat, n > 0, NEW S, NEW f \in [1 .. n -> S], NEW g \in [1 .. (n - 1) -> S],
         \A i \in 1 .. (n - 1) : g[i] = f[i + 1]
  PROVE  f # << >> /\ g = Tail(f)
  BY SeqDef, HeadTailProperties, SeqEqual

LEMMA FunAppend ==
  ASSUME NEW n \in Nat, NEW S, NEW f \in [1 .. n -> S], NEW g \in [1 .. (n + 1) -> S],
         \A i \in 1 .. n : g[i] = f[i]
  PROVE  g = Append(f, g[n + 1])
<1> DEFINE x == g[n + 1]
<1>1. f \in Seq(S) /\ Len(f) = n /\ g \in Seq(S) /\ Len(g) = n + 1 /\ x \in S
  BY SeqDef
<1>2. /\ Append(f, x) \in Seq(S) /\ Len(Append(f, x)) = n + 1
      /\ \A i \in 1 .. n : Append(f, x)[i] = f[i]
      /\ Append(f, x)[n + 1] = x
  BY <1>1, AppendProperties
<1>3. \A i \in 1 .. (n + 1) : i \in 1 .. n \/ i = n + 1
  OBVIOUS
<1>4. \A i \in 1 .. Len(g) : g[i] = Append(f, x)[i]
  BY <1>1, <1>2, <1>3
<1> HIDE DEF x
<1>5. g = Append(f, x)
  BY <1>1, <1>2, <1>4, SeqEqual
<1> QED BY <1>5 DEF x

\* One record less: the layout without its first place.
Following(v) == [k \in Nat |-> v[k + 1] - Lap(v[1])]

LEMMA FollowingLaid ==
  ASSUME NEW buf, NEW v, NEW n, Layout(buf, v, n), n > 1
  PROVE  /\ Layout(buf, Following(v), n - 1)
         /\ Following(v)[0] = Real(v[1])
         /\ Real(Following(v)[n - 1]) = Real(v[n])
         /\ Following(v)[n - 1] - Following(v)[0] = v[n] - v[1]
         /\ RecordsOf(buf, Following(v), n - 1) = Tail(RecordsOf(buf, v, n))
<1> DEFINE b == v[1]
           w == Following(v)
<1>1. /\ n \in Nat /\ v \in [Nat -> Int] /\ 0 <= v[0] /\ v[0] < size /\ v[n] <= v[0] + size
  BY DEF Layout
<1>2. 1 \in Nat /\ 1 <= n /\ 0 < 1 /\ n - 1 \in Nat /\ (n - 1) + 1 = n /\ 0 + 1 = 1
  BY <1>1
<1>3. /\ b \in Int /\ v[n] \in Int /\ v[0] \in Int /\ 0 <= b /\ b < 2 * size /\ v[0] < b /\ b <= v[n]
  BY <1>2, LayoutIn
<1>4. v[n] < 2 * size
  BY <1>1, <1>3, SizeNumber
<1>5. Lap(b) \in Int /\ Real(b) = b - Lap(b) /\ 0 <= Real(b) /\ Real(b) < size
  BY <1>3, SizeNumber DEF Lap, Real
<1>6. w \in [Nat -> Int] /\ \A k \in Nat : w[k] = v[k + 1] - Lap(b)
  BY <1>1, <1>5 DEF Following
<1>7. w[0] = Real(b) /\ w[n - 1] = v[n] - Lap(b)
  BY <1>2, <1>5, <1>6
<1>8. Real(w[n - 1]) = Real(v[n]) /\ w[n - 1] - w[0] = v[n] - b
  BY <1>3, <1>4, <1>5, <1>7, Shifts
<1>9. w[n - 1] <= w[0] + size
  <2> HIDE DEF b, w
  <2> QED BY <1>1, <1>3, <1>5, <1>7, SizeNumber
<1>10. ASSUME NEW k \in Nat, k < n - 1 PROVE Fits(buf, w[k], w[k + 1])
  <2>1. k + 1 \in Nat /\ k + 1 < n /\ k + 1 <= n /\ 1 <= k + 1
    BY <1>1, <1>10
  <2>2. /\ v[k + 1] \in Int /\ v[(k + 1) + 1] \in Int /\ Fits(buf, v[k + 1], v[(k + 1) + 1])
    BY <2>1, LayoutIn
  <2>3. b <= v[k + 1]
    BY <1>3, <1>2, <2>1, <2>2, Climbs
  <2>4. Fits(buf, v[k + 1] - Lap(b), v[(k + 1) + 1] - Lap(b))
    BY <1>3, <2>2, <2>3, ShiftedFits
  <2> QED BY <1>6, <2>1, <2>4
<1>11. Layout(buf, w, n - 1)
  BY <1>2, <1>5, <1>6, <1>7, <1>9, <1>10 DEF Layout
<1>12. RecordsOf(buf, w, n - 1) = Tail(RecordsOf(buf, v, n))
  <2> DEFINE all == RecordsOf(buf, v, n)
             less == RecordsOf(buf, w, n - 1)
             S == {RecordOf(buf, Real(y)) : y \in Int}
  <2>1. ASSUME NEW i \in 1 .. (n - 1) PROVE Real(w[i - 1]) = Real(v[(i + 1) - 1])
    <3>1. i \in Nat /\ i - 1 \in Nat /\ (i - 1) + 1 = i /\ (i + 1) - 1 = i /\ i <= n /\ 1 <= i
      BY <1>1
    <3>2. v[i] \in Int /\ v[i] < 2 * size
      BY <3>1, LayoutIn
    <3>3. b <= v[i]
      BY <1>3, <3>1, <1>2, <3>2, Climbs
    <3>4. Real(v[i] - Lap(b)) = Real(v[i])
      BY <1>3, <3>2, <3>3, Shifts
    <3> QED BY <1>6, <3>1, <3>4
  <2>2. all \in [1 .. n -> S] /\ \A i \in 1 .. n : all[i] = RecordOf(buf, Real(v[i - 1]))
    BY <1>1 DEF RecordsOf
  <2>3. /\ less \in [1 .. (n - 1) -> S]
        /\ \A i \in 1 .. (n - 1) : less[i] = RecordOf(buf, Real(w[i - 1]))
    <3> HIDE DEF w
    <3> QED BY <1>1, <1>6 DEF RecordsOf
  <2> HIDE DEF w, all, less, S
  <2>4. \A i \in 1 .. (n - 1) : less[i] = all[i + 1]
    BY <1>1, <2>1, <2>2, <2>3
  <2>5. less = Tail(all)
    <3>1. n > 0 /\ n \in Nat
      BY <1>1
    <3> QED BY <2>2, <2>3, <2>4, <3>1, FunTail
  <2> QED BY <2>5 DEF all, less
<1> QED BY <1>7, <1>8, <1>11, <1>12

\* A pop takes the oldest record and leaves the ring in order.
LEMMA PoppedLaid ==
  ASSUME NEW r, NEW v, Laid(r, v), r.used_size # 0
  PROVE  LET s == Unfixed!Popped(r) IN
         /\ r.item_num > 0
         /\ s.item_num = r.item_num - 1 /\ s.buf = r.buf /\ s.used_size < r.used_size
         /\ s.item_num > 0 => s.end = r.end
         /\ s.item_num = 0 => s.end = 0
         /\ r.item_num > 1 => Laid(s, Following(v))
         /\ \E w : /\ Laid(s, w)
                   /\ RecordsOf(s.buf, w, s.item_num) = Tail(RecordsOf(r.buf, v, r.item_num))
<1> DEFINE n == r.item_num
           buf == r.buf
           s == Unfixed!Popped(r)
           len == 2 + r.buf[r.start + 1]
           next == (r.start + len) % size
           skip == Unfixed!SkipBytes(next)
           gap == IF skip > 0 THEN skip ELSE IF r.used_size > len THEN Unfixed!Padding(r, next) ELSE 0
           after == [r EXCEPT !.start = (next + gap) % size,
                              !.used_size = @ - len - gap, !.item_num = @ - 1]
<1>1. /\ r \in ByteRings /\ n \in Nat /\ Layout(buf, v, n) /\ r.start = v[0] /\ r.end = Real(v[n])
      /\ r.used_size = v[n] - v[0] /\ v[0] \in Int /\ v[n] \in Int /\ v \in [Nat -> Int]
  BY LayoutIn DEF Laid, ByteRings, Layout
<1>2. n > 0
  BY <1>1
<1>3. s = IF Unfixed!IsEmpty(after) THEN [after EXCEPT !.start = 0, !.end = 0] ELSE after
  BY DEF Unfixed!Popped, Unfixed!HEADER
<1>4. (next + gap) % size = Real(v[1]) /\ r.used_size - len - gap = v[n] - v[1]
  <2> HIDE DEF len, next, gap
  <2> QED BY <1>2, GapIs DEF len, next, gap, skip
<1>5. after = [r EXCEPT !.start = Real(v[1]), !.used_size = v[n] - v[1], !.item_num = n - 1]
  BY <1>1, <1>4 DEF ByteRings
<1> HIDE DEF after
<1>6. /\ after = [start |-> Real(v[1]), end |-> r.end, used_size |-> v[n] - v[1], item_num |-> n - 1, buf |-> buf]
  BY <1>1, <1>5 DEF ByteRings
<1>7. 1 \in Nat /\ 1 <= n /\ 0 < 1 /\ v[1] \in Int /\ v[0] < v[1] /\ v[1] <= v[n] /\ 0 <= v[1] /\ v[1] < 2 * size
  BY <1>1, <1>2, LayoutIn
<1>8. CASE n > 1
  <2>1. v[1] < v[n]
    BY <1>1, <1>7, <1>8, Climbs
  <2>2. s = after
    BY <1>1, <1>3, <1>6, <1>7, <2>1 DEF Unfixed!IsEmpty
  <2>3. /\ Layout(buf, Following(v), n - 1) /\ Following(v)[0] = Real(v[1]) /\ Real(Following(v)[n - 1]) = Real(v[n])
        /\ Following(v)[n - 1] - Following(v)[0] = v[n] - v[1]
        /\ RecordsOf(buf, Following(v), n - 1) = Tail(RecordsOf(buf, v, n))
    <3>1. n > 1 /\ Layout(buf, v, n)
      BY <1>1, <1>8
    <3> HIDE DEF n, buf
    <3> QED BY <3>1, FollowingLaid
  <2>4. /\ Real(v[1]) \in Unfixed!Bytes /\ r.end \in Unfixed!Bytes /\ v[n] - v[1] \in Nat /\ n - 1 \in Nat
        /\ n - 1 > 0 /\ buf \in [Unfixed!Bytes -> Nat] /\ v[n] - v[1] < r.used_size
    BY <1>1, <1>7, <1>8, <2>1, RealIs DEF ByteRings
  <2>5. s \in ByteRings
    BY <1>6, <2>2, <2>4 DEF ByteRings
  <2>6. Laid(s, Following(v))
    BY <1>1, <1>6, <2>2, <2>3, <2>4, <2>5 DEF Laid
  <2>7. RecordsOf(s.buf, Following(v), s.item_num) = Tail(RecordsOf(buf, v, n))
    BY <1>6, <2>2, <2>3
  <2>8. /\ s.item_num = n - 1 /\ s.buf = buf /\ s.used_size < r.used_size /\ s.end = r.end
        /\ s.item_num > 0 /\ s.item_num # 0
    BY <1>6, <2>2, <2>4
  <2> HIDE DEF s
  <2>9. \E w : Laid(s, w) /\ RecordsOf(s.buf, w, s.item_num) = Tail(RecordsOf(buf, v, n))
    BY <2>6, <2>7
  <2> QED BY <1>2, <2>6, <2>8, <2>9 DEF s
<1>9. CASE n = 1
  <2> DEFINE w == [k \in Nat |-> 0]
  <2>1. s = [start |-> 0, end |-> 0, used_size |-> 0, item_num |-> 0, buf |-> buf]
    <3>1. after.used_size = 0
      BY <1>6, <1>7, <1>9
    <3>2. s = [after EXCEPT !.start = 0, !.end = 0]
      BY <1>3, <3>1 DEF Unfixed!IsEmpty
    <3>3. n - 1 = 0 /\ v[n] - v[1] = 0
      BY <1>7, <1>9
    <3> QED BY <1>6, <3>2, <3>3
  <2>2. Layout(buf, w, 0) /\ w[0] = 0
    BY SizeNumber DEF Layout
  <2>3. 0 \in Unfixed!Bytes /\ buf \in [Unfixed!Bytes -> Nat] /\ Real(0) = 0
    BY <1>1, SizeNumber, RealIs DEF ByteRings
  <2>4. s \in ByteRings
    BY <2>1, <2>3 DEF ByteRings
  <2>5. Laid(s, w)
    BY <2>1, <2>2, <2>3, <2>4 DEF Laid
  <2>6. RecordsOf(buf, w, 0) = Tail(RecordsOf(buf, v, 1))
    BY DEF RecordsOf
  <2>7. 0 < r.used_size
    BY <1>1, <1>7, <1>9
  <2>8. ~(n > 1) /\ n - 1 = 0
    BY <1>9
  <2>9. RecordsOf(s.buf, w, s.item_num) = Tail(RecordsOf(buf, v, n))
    BY <1>9, <2>1, <2>6
  <2> QED BY <1>2, <2>1, <2>5, <2>7, <2>8, <2>9
<1>10. n = 1 \/ n > 1
  BY <1>1, <1>2
<1> QED BY <1>8, <1>9, <1>10

\* The bytes a push stores, and no others.
LEMMA StoredBytes ==
  ASSUME NEW r, r \in ByteRings, NEW item \in Seq(Nat), r.end + 2 + Len(item) <= size
  PROVE  LET buf == Unfixed!Stored(r, item).buf IN
         /\ Unfixed!Stored(r, item) = [r EXCEPT !.buf = buf, !.used_size = @ + (2 + Len(item)),
                                                !.item_num = @ + 1]
         /\ buf \in [Unfixed!Bytes -> Nat]
         /\ \A k \in Unfixed!Bytes : k < r.end \/ k >= r.end + 2 + Len(item) => buf[k] = r.buf[k]
         /\ buf[r.end] = 0 /\ buf[r.end + 1] = Len(item) /\ RecordOf(buf, r.end) = item
<1> DEFINE head == <<0, Len(item)>>
           record == head \o item
           e == r.end
           l == Len(item)
           buf == Unfixed!Stored(r, item).buf
<1>1. l \in Nat /\ e \in Unfixed!Bytes /\ r.buf \in [Unfixed!Bytes -> Nat] /\ e \in Nat /\ e + 2 + l <= size
  <2>1. e \in Unfixed!Bytes /\ r.buf \in [Unfixed!Bytes -> Nat]
    BY DEF ByteRings
  <2>2. \A k \in Unfixed!Bytes : k \in Nat
    BY SizeNumber DEF Unfixed!Bytes
  <2> QED BY <2>1, <2>2
<1>2. /\ record \in Seq(Nat) /\ Len(record) = 2 + l /\ record[1] = 0 /\ record[2] = l
      /\ \A j \in 1 .. l : record[2 + j] = item[j]
  <2>1. head \in Seq(Nat) /\ Len(head) = 2 /\ head[1] = 0 /\ head[2] = l
    BY <1>1
  <2> HIDE DEF head, l
  <2>2. /\ head \o item \in Seq(Nat) /\ Len(head \o item) = Len(head) + Len(item)
        /\ \A i \in 1 .. (Len(head) + Len(item)) :
             (head \o item)[i] = IF i <= Len(head) THEN head[i] ELSE item[i - Len(head)]
    BY <2>1, ConcatProperties
  <2>3. /\ 1 \in 1 .. (2 + l) /\ 2 \in 1 .. (2 + l)
        /\ \A j \in 1 .. l : 2 + j \in 1 .. (2 + l) /\ ~(2 + j <= 2) /\ (2 + j) - 2 = j
    BY <1>1
  <2>4. Len(item) = l
    BY DEF l
  <2> QED BY <2>1, <2>2, <2>3, <2>4
<1> HIDE DEF head
<1>3. Unfixed!Stored(r, item).buf = [k \in Unfixed!Bytes |->
        IF k - e \in 0 .. (Len(record) - 1) THEN record[k - e + 1] ELSE r.buf[k]]
  BY <1>1 DEF Unfixed!Stored, ByteRings, head
<1>4. Unfixed!Stored(r, item) = [r EXCEPT !.buf = buf, !.used_size = @ + (2 + Len(item)),
                                         !.item_num = @ + 1]
  BY <1>1, <1>2, <1>3 DEF Unfixed!Stored, ByteRings, head
<1> HIDE DEF record, e, l, buf
<1>5. buf = [k \in Unfixed!Bytes |-> IF k - e \in 0 .. (1 + l) THEN record[k - e + 1] ELSE r.buf[k]]
  <2> USE DEF buf
  <2>1. Len(record) - 1 = 1 + l
    BY <1>1, <1>2
  <2> QED BY <1>3, <2>1
<1>6. \A k \in Unfixed!Bytes : k \in Int /\ 0 <= k /\ k < size
  BY SizeNumber DEF Unfixed!Bytes
<1>7. \A k \in Unfixed!Bytes : k < e \/ k >= e + 2 + l => buf[k] = r.buf[k]
  BY <1>1, <1>6, <1>5
<1>8. ASSUME NEW d \in Nat, d <= 1 + l PROVE e + d \in Unfixed!Bytes /\ buf[e + d] = record[d + 1]
  BY <1>1, <1>8, SizeNumber, <1>5 DEF Unfixed!Bytes
<1>9. \A k \in Unfixed!Bytes : buf[k] \in Nat
  <2> TAKE k \in Unfixed!Bytes
  <2>1. CASE k - e \in 0 .. (1 + l)
    BY <1>1, <1>2, <1>6, <2>1, ElementOfSeq, <1>5
  <2>2. CASE k - e \notin 0 .. (1 + l)
    BY <1>1, <1>5, <2>2
  <2> QED BY <2>1, <2>2
<1>10. buf \in [Unfixed!Bytes -> Nat]
  BY <1>5, <1>9
<1>11. buf[e] = 0 /\ buf[e + 1] = l
  <2>1. 0 \in Nat /\ 1 \in Nat /\ 0 <= 1 + l /\ 1 <= 1 + l /\ e + 0 = e /\ 0 + 1 = 1 /\ 1 + 1 = 2
    BY <1>1
  <2>2. buf[e + 0] = record[0 + 1] /\ buf[e + 1] = record[1 + 1]
    BY <1>8, <2>1
  <2> QED BY <1>2, <2>1, <2>2
<1>12. RecordOf(buf, e) = item
  <2>1. ASSUME NEW j \in 1 .. l PROVE buf[e + 1 + j] = item[j]
    <3>1. 1 + j \in Nat /\ 1 + j <= 1 + l /\ e + (1 + j) = e + 1 + j /\ (1 + j) + 1 = 2 + j
      BY <1>1
    <3>2. buf[e + (1 + j)] = record[(1 + j) + 1]
      BY <1>8, <3>1
    <3> QED BY <1>2, <3>1, <3>2
  <2>2. item = [j \in 1 .. l |-> item[j]]
    BY SeqDef DEF l
  <2>3. [j \in 1 .. l |-> buf[e + 1 + j]] = [j \in 1 .. l |-> item[j]]
    BY <2>1
  <2> QED BY <1>11, <2>2, <2>3 DEF RecordOf
<1> QED BY <1>4, <1>7, <1>10, <1>11, <1>12 DEF e, l, buf

\* A place x behind a record that is stored at the end, with the padding that
\* the push leaves behind it, and the ring as it is then.
Reaches(r, v, item, x) ==
  /\ x <= v[0] + size
  /\ \/ /\ x = v[r.item_num] + 2 + Len(item)
        /\ x - Lap(v[r.item_num]) <= size /\ x - Lap(v[r.item_num]) # size - 1
     \/ /\ x - Lap(v[r.item_num]) = size
        /\ r.end + 2 + Len(item) = size - 1

Extended(r, v, item, x) ==
  [Unfixed!Stored(r, item) EXCEPT !.end = Real(x), !.used_size = x - v[0]]

\* A record stored at the end is one more record of the layout, and all the
\* others stay what they are.
LEMMA AppendLaid ==
  ASSUME NEW r, NEW v, Laid(r, v), NEW item \in Seq(Nat), NEW x \in Int, Reaches(r, v, item, x)
  PROVE  LET w == [v EXCEPT ![r.item_num + 1] = x]
             s == Extended(r, v, item, x)
         IN /\ Laid(s, w) /\ s.item_num = r.item_num + 1
            /\ RecordsOf(s.buf, w, s.item_num) = Append(RecordsOf(r.buf, v, r.item_num), item)
<1> DEFINE n == r.item_num
           need == 2 + Len(item)
           w == [v EXCEPT ![n + 1] = x]
           buf == Unfixed!Stored(r, item).buf
           e == r.end
           y0 == v[n]
           s == Extended(r, v, item, x)
<1>0. x <= v[0] + size
  BY DEF Reaches
<1>1. /\ r \in ByteRings /\ n \in Nat /\ Layout(r.buf, v, n) /\ e = Real(y0)
      /\ v \in [Nat -> Int] /\ r.start = v[0] /\ v[0] \in Int /\ 0 <= v[0] /\ v[0] < size
      /\ n = 0 => v[0] = 0
  BY DEF Laid, ByteRings, Layout
<1>2. /\ y0 \in Int /\ v[0] <= y0 /\ 0 <= y0 /\ y0 < 2 * size
  <2>1. n <= n
    BY <1>1
  <2> QED BY <1>1, <2>1, LayoutIn
<1>3. /\ Lap(y0) \in Int /\ e = y0 - Lap(y0) /\ e \in Unfixed!Bytes /\ e \in Nat
  BY <1>1, <1>2, RealIs DEF Real, Unfixed!Bytes
<1>4. need \in Nat /\ need >= 2 /\ Len(item) \in Nat
  OBVIOUS
<1>5. /\ \/ x - Lap(y0) = e + need /\ x - Lap(y0) <= size /\ x - Lap(y0) # size - 1
         \/ x - Lap(y0) = size /\ e + need = size - 1
      /\ e + need <= size /\ y0 + need <= x /\ e + need <= x - Lap(y0)
  <2> HIDE DEF need
  <2>1. \/ x = y0 + need /\ x - Lap(y0) <= size /\ x - Lap(y0) # size - 1
        \/ x - Lap(y0) = size /\ e + need = size - 1
    <3>1. y0 + 2 + Len(item) = y0 + need
      <4> HIDE DEF y0
      <4> QED BY <1>2, <1>4 DEF need
    <3>2. \/ /\ x = y0 + 2 + Len(item)
             /\ x - Lap(y0) <= size /\ x - Lap(y0) # size - 1
          \/ /\ x - Lap(y0) = size
             /\ e + 2 + Len(item) = size - 1
      BY DEF Reaches
    <3>3. e + 2 + Len(item) = e + need
      <4> HIDE DEF e
      <4> QED BY <1>3, <1>4 DEF need
    <3> QED BY <3>1, <3>2, <3>3
  <2> DEFINE m == Lap(y0)
  <2>2. m \in Int /\ e = y0 - m /\ e \in Int /\ y0 \in Int /\ need \in Int /\ size \in Int
    BY <1>2, <1>3, <1>4, SizeNumber
  <2>3. \/ x = y0 + need /\ x - m <= size /\ x - m # size - 1
        \/ x - m = size /\ e + need = size - 1
    BY <2>1
  <2> HIDE DEF y0, e, m
  <2>4. CASE x = y0 + need /\ x - m <= size /\ x - m # size - 1
    <3>1. x - m = e + need /\ y0 + need <= x
      BY <2>2, <2>4
    <3> QED BY <2>2, <2>4, <3>1 DEF m
  <2>5. CASE x - m = size /\ e + need = size - 1
    <3>1. x - m = size /\ e + need = size - 1 /\ y0 + need <= x /\ e + need <= size /\ e + need <= x - m
      BY <2>2, <2>5
    <3> QED BY <3>1 DEF m
  <2> QED BY <2>3, <2>4, <2>5
<1>6. /\ Unfixed!Stored(r, item) = [r EXCEPT !.buf = buf, !.used_size = @ + (2 + Len(item)),
                                             !.item_num = @ + 1]
      /\ buf \in [Unfixed!Bytes -> Nat]
      /\ \A k \in Unfixed!Bytes : k < e \/ k >= e + 2 + Len(item) => buf[k] = r.buf[k]
      /\ buf[e] = 0 /\ buf[e + 1] = Len(item) /\ RecordOf(buf, e) = item
  <2>1. e + 2 + Len(item) = e + need
    BY <1>3, <1>4
  <2>2. r \in ByteRings /\ e + 2 + Len(item) <= size
    BY <1>1, <1>5, <2>1
  <2> QED BY <2>2, StoredBytes, Zenon
<1> HIDE DEF buf, n, y0, e
\* The new record is apart from the old ones.
<1>7. ASSUME NEW y \in Int, v[0] <= y, y < y0 PROVE buf[Real(y)] = r.buf[Real(y)]
  <2>1. /\ y < 2 * size /\ 0 <= y
    BY <1>1, <1>2, <1>7, SizeNumber
  <2>2. Real(y) \in Unfixed!Bytes /\ Real(y) \in Int /\ Real(y) = y - Lap(y) /\ Lap(y) \in {0, size}
    BY <2>1, RealIs, SizeNumber DEF Lap, Real
  <2>3. Lap(y0) \in {0, size} /\ (Lap(y) = size => y >= size) /\ (Lap(y0) = 0 => y0 < size)
    BY <1>2, <2>1, SizeNumber DEF Lap
  <2>4. x <= v[0] + size /\ v[0] \in Int /\ v[0] <= y /\ y < y0
    BY <1>1, <1>7 DEF Reaches
  <2>5. Real(y) < e \/ Real(y) >= e + need
    <3> DEFINE h == Real(y)
               my == Lap(y)
               m0 == Lap(y0)
               s0 == v[0]
    <3>0. e \in Int /\ y0 \in Int /\ need \in Int /\ s0 \in Int /\ size \in Int
      BY <1>2, <1>3, <1>4, <2>4, SizeNumber
    <3>1. /\ e = y0 - m0 /\ e + need <= x - m0
          /\ h = y - my /\ y < y0 /\ x <= s0 + size /\ s0 <= y
      BY <1>3, <1>5, <2>2, <2>4, Zenon
    <3>2. /\ m0 \in {0, size} /\ my \in {0, size}
          /\ my = size => y >= size
          /\ m0 = 0 => y0 < size
      BY <2>2, <2>3
    <3> HIDE DEF y0, e, need, h, my, m0, s0
    <3>3. CASE my = m0
      BY <3>0, <3>1, <3>2, <3>3 DEF h
    <3>4. CASE my = 0 /\ m0 = size
      BY <3>0, <3>1, <3>4 DEF h
    <3>5. CASE my = size /\ m0 = 0
      BY <3>0, <3>1, <3>2, <3>5
    <3> QED BY <3>2, <3>3, <3>4, <3>5
  <2>6. e + need = e + 2 + Len(item)
    BY <1>3, <1>4
  <2> QED BY <1>6, <2>2, <2>5, <2>6
<1>8. Layout(buf, v, n) /\ RecordsOf(buf, v, n) = RecordsOf(r.buf, v, n)
  <2>1. \A y \in Int : v[0] <= y /\ y < v[n] => buf[Real(y)] = r.buf[Real(y)]
    BY <1>7 DEF y0
  <2>2. Layout(r.buf, v, n)
    BY <1>1
  <2> DEFINE old == r.buf
  <2> HIDE DEF old
  <2>3. Layout(old, v, n) /\ \A y \in Int : v[0] <= y /\ y < v[n] => buf[Real(y)] = old[Real(y)]
    BY <2>1, <2>2 DEF old
  <2>4. Layout(buf, v, n) /\ RecordsOf(buf, v, n) = RecordsOf(old, v, n)
    BY <2>3, LayoutKept
  <2> QED BY <2>4 DEF old
<1>9. /\ w \in [Nat -> Int] /\ w[n + 1] = x /\ \A k \in Nat : k <= n => w[k] = v[k]
  BY <1>1
<1> HIDE DEF w
<1>10. Fits(buf, y0, x)
  <2>1. e + 2 + buf[e + 1] = e + need
    BY <1>3, <1>6
  <2>2. Spans(buf, e, x - Lap(y0))
    BY <1>3, <1>4, <1>5, <1>6, <2>1 DEF Spans
  <2> QED BY <1>1, <2>2 DEF Fits
<1>11. Layout(buf, w, n + 1)
  <2>1. w[0] = v[0] /\ n + 1 \in Nat
    BY <1>1, <1>9
  <2>2. ASSUME NEW k \in Nat, k < n + 1 PROVE Fits(buf, w[k], w[k + 1])
    <3>1. CASE k = n
      BY <1>1, <1>9, <1>10, <3>1 DEF y0
    <3>2. CASE k # n
      BY <1>1, <2>2, <3>2, <1>8, <1>9 DEF Layout
    <3> QED BY <3>1, <3>2
  <2>3. /\ n + 1 \in Nat /\ w \in [Nat -> Int] /\ 0 <= w[0] /\ w[0] < size /\ w[n + 1] <= w[0] + size
    BY <1>0, <1>1, <1>9, <2>1
  <2> QED BY <2>2, <2>3 DEF Layout
<1>12. RecordsOf(buf, w, n + 1) = Append(RecordsOf(r.buf, v, n), item)
  <2> DEFINE S == {RecordOf(buf, Real(y)) : y \in Int}
             old == RecordsOf(buf, v, n)
             new == RecordsOf(buf, w, n + 1)
  <2>0. /\ \A i \in 1 .. n : v[i - 1] \in Int
        /\ \A i \in 1 .. (n + 1) : w[i - 1] \in Int
    <3>1. \A i \in 1 .. (n + 1) : i - 1 \in Nat
      BY <1>1
    <3>2. \A i \in 1 .. n : i \in 1 .. (n + 1)
      BY <1>1
    <3> QED BY <1>1, <1>9, <3>1, <3>2
  <2>1. old \in [1 .. n -> S] /\ \A i \in 1 .. n : old[i] = RecordOf(buf, Real(v[i - 1]))
    BY <2>0 DEF RecordsOf
  <2>2. /\ new \in [1 .. (n + 1) -> S]
        /\ \A i \in 1 .. (n + 1) : new[i] = RecordOf(buf, Real(w[i - 1]))
    BY <2>0 DEF RecordsOf
  <2> HIDE DEF S, old, new
  <2>3. ASSUME NEW i \in 1 .. n PROVE new[i] = old[i]
    BY <1>1, <1>9, <2>1, <2>2
  <2>4. new[n + 1] = item
    <3>1. n + 1 \in 1 .. (n + 1) /\ (n + 1) - 1 = n /\ n <= n
      BY <1>1
    <3>2. w[n] = y0
      BY <1>1, <1>9, <3>1 DEF y0
    <3>3. new[n + 1] = RecordOf(buf, Real(w[n]))
      BY <2>2, <3>1
    <3> QED BY <1>1, <1>6, <3>2, <3>3
  <2>5. new = Append(old, new[n + 1])
    BY <1>1, <2>1, <2>2, <2>3, FunAppend
  <2> QED BY <1>8, <2>4, <2>5 DEF old, new
<1>13. s = [start |-> v[0], end |-> Real(x), used_size |-> x - v[0], item_num |-> n + 1, buf |-> buf]
  <2>2. Unfixed!Stored(r, item) = [start |-> r.start, end |-> r.end,
          used_size |-> r.used_size + (2 + Len(item)), item_num |-> n + 1, buf |-> buf]
    BY <1>1, <1>6 DEF ByteRings, n, e
  <2> DEFINE q == Unfixed!Stored(r, item)
             z == r.used_size + (2 + Len(item))
             p == r.start
             m == Real(x)
             d == x - v[0]
             c == r.end
  <2>3. s = [q EXCEPT !.end = m, !.used_size = d]
    BY DEF Extended
  <2>4. q = [start |-> p, end |-> c, used_size |-> z, item_num |-> n + 1, buf |-> buf]
    BY <2>2
  <2> HIDE DEF s, q, z, m, d, p, c
  <2>5. s = [start |-> p, end |-> m, used_size |-> d, item_num |-> n + 1, buf |-> buf]
    BY ONLY <2>3, <2>4
  <2> QED BY <1>1, <2>5 DEF m, d, p
<1> HIDE DEF s
<1>14. s \in ByteRings
  <2>1. 0 <= x /\ x < 2 * size /\ x - v[0] \in Nat
    <3>1. v[0] \in Int /\ 0 <= v[0] /\ v[0] < size /\ y0 \in Int /\ v[0] <= y0 /\ need \in Int /\ need >= 2
      BY <1>1, <1>2, <1>4
    <3> HIDE DEF need
    <3> QED BY <1>0, <1>5, <3>1, SizeNumber
  <2>2. Real(x) \in Unfixed!Bytes /\ v[0] \in Unfixed!Bytes /\ n + 1 \in Nat
    BY <1>1, <2>1, RealIs DEF ByteRings
  <2> QED BY <1>6, <1>13, <2>1, <2>2 DEF ByteRings
<1>15. Laid(s, w)
  BY <1>1, <1>9, <1>11, <1>13, <1>14 DEF Laid
<1>16. s.item_num = n + 1 /\ s.buf = buf
  BY <1>13
<1> QED BY <1>12, <1>15, <1>16 DEF w, n, s

\* Where the free bytes are.
LEMMA Sides ==
  ASSUME NEW r, NEW v, Laid(r, v)
  PROVE  LET y0 == v[r.item_num] IN
         /\ y0 \in Int /\ v[0] \in Int /\ r.start = v[0] /\ r.item_num \in Nat
         /\ r.start \in Nat /\ r.start < size /\ r.end \in Nat /\ r.end < size
         /\ r.used_size \in Nat /\ r.used_size <= size /\ r.used_size = y0 - r.start
         /\ r.used_size = 0 <=> r.item_num = 0
         /\ r.item_num = 0 => r.start = 0 /\ r.end = 0
         /\ r.item_num > 0 => r.start + 2 <= size
         /\ r.used_size < size /\ r.start <= r.end => y0 = r.end
         /\ r.end < r.start => y0 = size + r.end /\ r.item_num > 0
<1> DEFINE n == r.item_num
           y0 == v[n]
           s0 == v[0]
           e == r.end
           st == r.start
           u == r.used_size
<1>1. /\ n \in Nat /\ Layout(r.buf, v, n) /\ e = Real(y0) /\ v \in [Nat -> Int]
      /\ st = s0 /\ s0 \in Int /\ 0 <= s0 /\ s0 < size /\ y0 <= s0 + size
      /\ u = y0 - s0
      /\ n = 0 => s0 = 0
  BY DEF Laid, ByteRings, Layout
<1>2. /\ y0 \in Int /\ s0 <= y0 /\ y0 < 2 * size
      /\ 0 < n => s0 < y0
  BY <1>1, LayoutIn
<1>3. n = 0 => y0 = s0
  OBVIOUS
<1>9. n > 0 => s0 + 2 <= size
  <2> SUFFICES ASSUME n > 0 PROVE s0 + 2 <= size
    OBVIOUS
  <2>1. 0 \in Nat /\ 0 < n /\ 0 + 1 = 1
    BY <1>1
  <2>2. Fits(r.buf, v[0], v[0 + 1]) /\ v[0 + 1] \in Int
    BY <1>1, <2>1 DEF Layout
  <2>3. Real(s0) + 2 <= size
    BY <1>1, <2>2, FitsMoves
  <2>4. Real(s0) = s0
    BY <1>1, SizeNumber DEF Real, Lap
  <2> QED BY <2>3, <2>4
<1> HIDE DEF y0, s0, e, st, u, n
<1>a. /\ n \in Nat /\ st = s0 /\ s0 \in Int /\ 0 <= s0 /\ s0 < size /\ y0 <= s0 + size
      /\ u = y0 - s0
      /\ n = 0 => s0 = 0
  BY <1>1
<1>4. /\ e = (IF y0 < size THEN y0 ELSE y0 - size) /\ e \in Nat /\ e < size
  BY <1>1, <1>2, SizeNumber, <1>a DEF Real, Lap
<1>5. /\ u \in Nat /\ u <= size
      /\ u < size /\ st <= e => y0 = e
      /\ e < st => y0 = size + e
  BY <1>2, <1>4, <1>a, SizeNumber
<1>6. n = 0 \/ 0 < n
  BY <1>a
<1>7. /\ u = 0 <=> n = 0
      /\ n = 0 => st = 0 /\ e = 0
  BY <1>3, <1>a, <1>4, SizeNumber, <1>2, <1>6
<1>8. e < st => n > 0
  BY <1>4, <1>6, <1>7, <1>a
<1>b. /\ st \in Nat /\ st < size
      /\ n > 0 => st + 2 <= size
  BY <1>a, <1>9
<1>c. u = y0 - st
  BY <1>a
<1> QED BY <1>1, <1>2, <1>4, <1>5, <1>7, <1>8, <1>a, <1>b, <1>c, Zenon DEF y0, s0, e, st, u, n

\* What a record stored leaves as it was.
LEMMA StoredIs ==
  ASSUME NEW r, r \in ByteRings, NEW item \in Seq(Nat), r.end + 2 + Len(item) <= size
  PROVE  LET q == Unfixed!Stored(r, item) IN
         q = [start |-> r.start, end |-> r.end, used_size |-> r.used_size + (2 + Len(item)),
              item_num |-> r.item_num + 1, buf |-> q.buf]
<1> DEFINE q == Unfixed!Stored(r, item)
           b == q.buf
           need == 2 + Len(item)
<1>1. q = [r EXCEPT !.buf = b, !.used_size = @ + need, !.item_num = @ + 1]
  BY StoredBytes, Zenon
<1> HIDE DEF q, b, need
<1>2. q = [start |-> r.start, end |-> r.end, used_size |-> r.used_size + need,
           item_num |-> r.item_num + 1, buf |-> b]
  BY <1>1 DEF ByteRings
<1> QED BY <1>2 DEF q, b, need

\* The two ways to store a record extend the layout.
LEMMA WriteItemIs ==
  ASSUME NEW r, NEW v, Laid(r, v), NEW item \in Seq(Nat),
         r.used_size < size, r.start <= r.end, r.end + 2 + Len(item) <= size
  PROVE  \E x \in Int : Reaches(r, v, item, x) /\ Unfixed!WriteItem(r, item) = Extended(r, v, item, x)
<1> DEFINE y0 == v[r.item_num]
           s0 == v[0]
           need == 2 + Len(item)
           e == r.end
           u == r.used_size
           f == e + need
           x == IF f = size - 1 THEN size ELSE f
           end == f % size
           skip == Unfixed!SkipBytes(end)
           q == Unfixed!Stored(r, item)
           b == q.buf
           num == r.item_num + 1
           st == r.start
<1>1. /\ y0 = e /\ e \in Nat /\ e < size /\ u = e - s0 /\ st = s0 /\ s0 \in Int /\ s0 <= e /\ 0 <= s0
  <2>1. /\ y0 = e /\ e \in Nat /\ e < size /\ u = y0 - st /\ st = s0 /\ s0 \in Int /\ st \in Nat /\ st <= e
    BY Sides
  <2> HIDE DEF y0, e, u, st, s0
  <2> QED BY <2>1
<1>2. Len(item) \in Nat /\ need \in Nat /\ need >= 2 /\ r \in ByteRings
  BY DEF Laid
<1>3. q = [start |-> st, end |-> e, used_size |-> u + need, item_num |-> num, buf |-> b]
  BY <1>2, StoredIs
<1>4. Unfixed!WriteItem(r, item) = [q EXCEPT !.end = (end + skip) % size, !.used_size = @ + skip]
  <2>1. f = r.end + 2 + Len(item)
    BY <1>1, <1>2
  <2>2. Unfixed!WriteItem(r, item) =
          LET en == (r.end + 2 + Len(item)) % size
          IN [q EXCEPT !.end = (en + Unfixed!SkipBytes(en)) % size, !.used_size = @ + Unfixed!SkipBytes(en)]
    BY DEF Unfixed!WriteItem, Unfixed!HEADER
  <2> QED BY <2>1, <2>2, Zenon
<1>5. f = e + need /\ f = r.end + 2 + Len(item) /\ f <= size
  BY <1>1, <1>2
<1>6. skip = IF end + 2 > size THEN size - end ELSE 0
  BY DEF Unfixed!SkipBytes, Unfixed!HEADER
<1> HIDE DEF q, b, num, e, u, y0, s0, need, f, skip
<1>7. f \in Nat
  BY <1>1, <1>2, <1>5
<1>8. end = (IF f = size THEN 0 ELSE f)
  BY <1>5, <1>7, Wraps
<1> HIDE DEF end
<1>9. (x = f /\ f # size - 1) \/ (x = size /\ f = size - 1)
  BY <1>7, SizeNumber
<1> HIDE DEF x
<1>10. /\ x \in Int /\ x <= size /\ 0 <= x /\ x <= s0 + size /\ skip \in Int /\ skip = x - f
       /\ end + skip = (IF f = size THEN 0 ELSE x)
  <2>1. x \in Int /\ x <= size /\ 0 <= x /\ x <= s0 + size
    BY <1>1, <1>5, <1>7, <1>9, SizeNumber
  <2>2. CASE f = size
    BY <1>6, <1>8, <1>9, <2>1, <2>2, SizeNumber
  <2>3. CASE f = size - 1
    BY <1>6, <1>8, <1>9, <2>1, <2>3, SizeNumber
  <2>4. CASE f # size /\ f # size - 1
    BY <1>8, <1>9, <2>4, <1>5, <1>6, <1>7, SizeNumber, <2>1
  <2> QED BY <2>2, <2>3, <2>4
<1>11. (end + skip) % size = Real(x)
  <2>1. x % size = Real(x) /\ Real(x) = (IF x = size THEN 0 ELSE x)
    BY <1>10, Wraps
  <2>2. CASE f = size
    BY <1>9, <2>2, SizeNumber, <1>10, <2>1
  <2>3. CASE f # size
    BY <1>10, <2>1, <2>3
  <2> QED BY <2>2, <2>3
<1>12. Reaches(r, v, item, x)
  <2>1. Lap(y0) = 0
    BY <1>1 DEF Lap
  <2>2. x - Lap(y0) = x
    BY <1>10, <2>1
  <2>3. (x = y0 + 2 + Len(item) /\ x <= size /\ x # size - 1) \/ (x = size /\ r.end + 2 + Len(item) = size - 1)
    BY <1>1, <1>2, <1>5, <1>9, <1>10, SizeNumber DEF need
  <2> QED BY <1>10, <2>2, <2>3 DEF Reaches, y0, s0
<1>13. Unfixed!WriteItem(r, item) = Extended(r, v, item, x)
  <2> DEFINE m == Real(x)
             w == Unfixed!WriteItem(r, item)
             d == x - s0
  <2>1. u + need + skip = d
    BY <1>1, <1>2, <1>5, <1>10
  <2>2. w = [q EXCEPT !.end = m, !.used_size = @ + skip]
    BY <1>4, <1>11
  <2> DEFINE ext == Extended(r, v, item, x)
  <2>3. ext = [q EXCEPT !.end = m, !.used_size = d]
    BY DEF Extended, q, s0
  <2> HIDE DEF m, w, st, d, ext
  <2>4. w = [start |-> st, end |-> m, used_size |-> u + need + skip, item_num |-> num, buf |-> b]
    BY ONLY <1>3, <2>2
  <2>5. ext = [start |-> st, end |-> m, used_size |-> d, item_num |-> num, buf |-> b]
    BY ONLY <1>3, <2>3
  <2> QED BY <2>1, <2>4, <2>5 DEF w, ext
<1> QED BY <1>10, <1>12, <1>13

LEMMA WriteBetweenIs ==
  ASSUME NEW r, NEW v, Laid(r, v), NEW item \in Seq(Nat),
         r.end < r.start, r.end + 2 + Len(item) <= r.start
  PROVE  \E x \in Int : Reaches(r, v, item, x) /\ Unfixed!WriteItemNoWrap(r, item) = Extended(r, v, item, x)
<1> DEFINE y0 == v[r.item_num]
           s0 == v[0]
           need == 2 + Len(item)
           e == r.end
           u == r.used_size
           f == e + need
           x == size + f
           q == Unfixed!Stored(r, item)
           b == q.buf
           num == r.item_num + 1
           st == r.start
<1>1. /\ y0 = size + e /\ e \in Nat /\ e < size /\ u = y0 - s0 /\ st = s0 /\ s0 \in Int /\ s0 + 2 <= size
  BY Sides
<1>2. Len(item) \in Nat /\ need \in Nat /\ need >= 2 /\ r \in ByteRings
  BY DEF Laid
<1>3. f = e + need /\ f = r.end + 2 + Len(item) /\ f <= s0
  BY <1>1, <1>2
<1> HIDE DEF y0, s0, e, u
<1>4. f \in Nat /\ f + 2 <= size /\ x \in Int /\ x <= s0 + size /\ x - size = f /\ Real(x) = f
  <2>1. f \in Nat /\ f + 2 <= size
    BY <1>1, <1>2, <1>3, SizeNumber
  <2> HIDE DEF f
  <2>2. x \in Int /\ x <= s0 + size /\ x - size = f
    BY <1>1, <1>3, <2>1, SizeNumber
  <2>3. Real(x) = f
    BY <2>1, <2>2, SizeNumber DEF Real, Lap
  <2> QED BY <2>1, <2>2, <2>3
<1>5. q = [start |-> st, end |-> e, used_size |-> u + need, item_num |-> num, buf |-> b]
  BY <1>3, <1>4, SizeNumber, <1>2, StoredIs DEF e, u
<1>6. Unfixed!WriteItemNoWrap(r, item) = [q EXCEPT !.end = f]
  BY <1>3 DEF Unfixed!WriteItemNoWrap, Unfixed!HEADER
<1>7. u + need = x - s0
  <2> HIDE DEF need
  <2> QED BY <1>1, <1>2, SizeNumber
<1>8. Reaches(r, v, item, x)
  <2>1. Lap(y0) = size
    BY <1>1, SizeNumber DEF Lap
  <2>2. x = y0 + 2 + Len(item)
    BY <1>1, <1>2, SizeNumber
  <2>3. x - Lap(y0) <= size /\ x - Lap(y0) # size - 1
    <3> HIDE DEF x, f
    <3> QED BY <1>4, <2>1, SizeNumber
  <2> HIDE DEF x
  <2> QED BY <1>4, <2>2, <2>3 DEF Reaches, y0, s0
<1>9. Unfixed!WriteItemNoWrap(r, item) = Extended(r, v, item, x)
  <2> DEFINE m == Real(x)
             w == Unfixed!WriteItemNoWrap(r, item)
             d == x - s0
  <2>1. w = [q EXCEPT !.end = m]
    BY <1>4, <1>6
  <2> DEFINE ext == Extended(r, v, item, x)
  <2>2. ext = [q EXCEPT !.end = m, !.used_size = d]
    BY DEF Extended, q, s0
  <2>3. q = [start |-> st, end |-> e, used_size |-> d, item_num |-> num, buf |-> b]
    BY <1>5, <1>7
  <2> HIDE DEF m, w, st, d, q, b, num, ext
  <2>4. w = [start |-> st, end |-> m, used_size |-> d, item_num |-> num, buf |-> b]
    BY ONLY <2>1, <2>3
  <2>5. ext = [start |-> st, end |-> m, used_size |-> d, item_num |-> num, buf |-> b]
    BY ONLY <2>2, <2>3
  <2> QED BY <2>4, <2>5 DEF w, ext
<1> QED BY <1>4, <1>8, <1>9

\* The bytes left at the end of the ring hold a padding, if they are not too few
\* for one, which no record has left them.
LEMMA LastLeaves ==
  ASSUME NEW r, NEW v, Laid(r, v), r.used_size < size, r.start <= r.end, r.item_num > 0
  PROVE  LET k == r.item_num - 1 IN
         /\ k \in Nat /\ r.end + 2 <= size /\ v[r.item_num] = r.end
         /\ Spans(r.buf, v[k], r.end) /\ r.end = v[k] + 2 + r.buf[v[k] + 1]
         /\ v[k] \in Nat /\ r.buf[v[k] + 1] \in Nat
<1> DEFINE n == r.item_num
           k == n - 1
           a == v[k]
           e == r.end
           l == r.buf[a + 1]
<1>1. n \in Nat /\ k \in Nat /\ k < n /\ k <= n /\ k + 1 = n /\ v[n] = e /\ e \in Nat /\ e < size
  BY Sides
<1>2. Fits(r.buf, a, v[k + 1]) /\ a \in Int /\ a < v[k + 1] /\ v[k + 1] \in Int /\ 0 <= a
  <2>1. Layout(r.buf, v, n)
    BY DEF Laid
  <2> HIDE DEF k
  <2> QED BY <1>1, <2>1, LayoutIn
<1>3. Fits(r.buf, a, e) /\ a < e
  BY <1>1, <1>2
<1> HIDE DEF a, k, e
<1>4. Lap(a) = 0 /\ Real(a) = a
  BY <1>1, <1>2, <1>3, SizeNumber DEF Lap, Real
<1>5. Spans(r.buf, a, e)
  BY <1>1, <1>3, <1>4 DEF Fits
<1>6. l \in Nat /\ e # size - 1
  BY <1>1, <1>4, <1>2, <1>3, FitsMoves
<1>7. e = a + 2 + l
  BY <1>1, <1>5, SizeNumber DEF Spans
<1>8. e + 2 <= size
  BY <1>1, <1>6, SizeNumber
<1> QED BY <1>1, <1>2, <1>5, <1>6, <1>7, <1>8 DEF a, k, e

LEMMA PaddedLaid ==
  ASSUME NEW r, NEW v, Laid(r, v), r.used_size < size, r.start <= r.end, r.item_num > 0
  PROVE  LET w == [v EXCEPT ![r.item_num] = size]
             s == Unfixed!Padded(r)
         IN /\ Laid(s, w)
            /\ s.item_num = r.item_num /\ s.start = r.start /\ s.end = 0
            /\ RecordsOf(s.buf, w, s.item_num) = RecordsOf(r.buf, v, r.item_num)
<1> DEFINE n == r.item_num
           k == n - 1
           a == v[k]
           e == r.end
           st == r.start
           old == r.buf
           l == old[a + 1]
           c == size - e - 2
           w == [v EXCEPT ![n] = size]
           buf == [old EXCEPT ![e] = 1, ![e + 1] = c]
           s == Unfixed!Padded(r)
<1>1. /\ n \in Nat /\ k \in Nat /\ k < n /\ k + 1 = n /\ e \in Nat /\ e + 2 <= size
      /\ v[n] = e /\ Spans(old, a, e) /\ e = a + 2 + l /\ a \in Nat /\ l \in Nat
  BY LastLeaves DEF Laid, ByteRings
<1>2. /\ r \in ByteRings /\ Layout(old, v, n) /\ v \in [Nat -> Int] /\ st = v[0] /\ v[0] \in Int
      /\ 0 <= v[0] /\ v[0] < size /\ r.used_size = e - v[0]
      /\ old \in [Unfixed!Bytes -> Nat]
  BY <1>1 DEF Laid, Layout, ByteRings
<1> HIDE DEF n, k, a, e, st, old, l, w, c
<1>3. c \in Nat /\ e \in Unfixed!Bytes /\ e + 1 \in Unfixed!Bytes /\ e # e + 1
  BY <1>1, SizeNumber DEF Unfixed!Bytes, c
<1>4. /\ buf \in [Unfixed!Bytes -> Nat] /\ buf[e] = 1 /\ buf[e + 1] = c
      /\ \A y \in Unfixed!Bytes : y # e /\ y # e + 1 => buf[y] = old[y]
  BY <1>2, <1>3
<1>5. s = [start |-> st, end |-> 0, used_size |-> size - v[0], item_num |-> n, buf |-> buf]
  <2>1. r = [start |-> st, end |-> e, used_size |-> r.used_size, item_num |-> n, buf |-> old]
    BY <1>2 DEF ByteRings, st, e, n, old
  <2>2. s = [r EXCEPT !.buf[e] = 1, !.buf[e + 1] = c, !.used_size = @ + (size - e), !.end = 0]
    BY DEF Unfixed!Padded, Unfixed!HEADER, c, e
  <2>3. r.used_size + (size - e) = size - v[0]
    BY <1>1, <1>2, SizeNumber
  <2> DEFINE u == r.used_size
             m == size - e
             d == size - v[0]
  <2>4. u + m = d
    BY <2>3
  <2>5. r = [start |-> st, end |-> e, used_size |-> u, item_num |-> n, buf |-> old]
    BY <2>1
  <2>6. s = [r EXCEPT !.buf[e] = 1, !.buf[e + 1] = c, !.used_size = @ + m, !.end = 0]
    BY <2>2
  <2> HIDE DEF u, m, d, s
  <2>7. s = [start |-> st, end |-> 0, used_size |-> u + m, item_num |-> n, buf |-> buf]
    BY ONLY <2>5, <2>6
  <2> QED BY <2>4, <2>7 DEF d
<1> HIDE DEF s, buf
<1>6. ASSUME NEW y \in Int, v[0] <= y, y < v[n] PROVE buf[Real(y)] = old[Real(y)]
  <2>1. Real(y) = y /\ y \in Unfixed!Bytes /\ y # e /\ y # e + 1
    <3>1. 0 <= y /\ y < e
      BY <1>1, <1>2, <1>6
    <3>2. 0 <= y /\ y < e /\ e \in Nat /\ e + 2 <= size
      BY <1>1, <3>1
    <3> QED BY <3>2, SizeNumber DEF Real, Lap, Unfixed!Bytes
  <2> QED BY <1>4, <2>1
<1>7. Layout(buf, v, n) /\ RecordsOf(buf, v, n) = RecordsOf(old, v, n)
  BY <1>2, <1>6, LayoutKept
<1>8. w \in [Nat -> Int] /\ w[n] = size /\ \A i \in Nat : i # n => w[i] = v[i]
  BY <1>1, <1>2, SizeNumber DEF w
<1>9. Fits(buf, a, size)
  <2>1. /\ buf[a] = 0 /\ buf[a + 1] = l
    <3>1. a \in Unfixed!Bytes /\ a + 1 \in Unfixed!Bytes /\ a # e /\ a # e + 1 /\ a + 1 # e /\ a + 1 # e + 1
      BY <1>1, SizeNumber DEF Unfixed!Bytes
    <3>2. old[a] = 0
      BY <1>1 DEF Spans
    <3> QED BY <1>4, <3>1, <3>2 DEF l
  <2>2. Real(a) = a /\ Lap(a) = 0 /\ size - Lap(a) = size
    BY <1>1, SizeNumber DEF Real, Lap
  <2>3. a + 2 + buf[a + 1] = e /\ e <= size - 2 /\ buf[e] = 1 /\ buf[e + 1] = size - e - 2
    BY <1>1, <1>4, <2>1, SizeNumber DEF c
  <2>4. Spans(buf, a, size)
    BY <1>1, <2>1, <2>3 DEF Spans
  <2> QED BY <2>2, <2>4 DEF Fits
<1>10. Layout(buf, w, n)
  BY <1>1, <1>2, <1>8, SizeNumber, <1>9, <1>7 DEF a, Layout
<1>11. RecordsOf(buf, w, n) = RecordsOf(old, v, n)
  BY <1>1, <1>8, <1>7 DEF RecordsOf
<1>12. Laid(s, w)
  <2>1. Real(size) = 0 /\ 0 \in Unfixed!Bytes /\ st \in Unfixed!Bytes
    BY SizeNumber, Wraps, <1>2 DEF Unfixed!Bytes
  <2>2. size - v[0] \in Nat /\ n # 0 /\ w[0] = v[0] /\ w[n] = size
    BY <1>1, <1>2, <1>8, SizeNumber
  <2>3. s \in ByteRings
    BY <1>1, <1>4, <1>5, <2>1, <2>2 DEF ByteRings
  <2> QED BY <1>2, <1>5, <1>10, <2>1, <2>2, <2>3 DEF Laid
<1> QED BY <1>5, <1>11, <1>12 DEF s, w, n, st, old

\* From one record find_start arrives at the next.
LEMMA NextIs ==
  ASSUME NEW r, NEW v, Laid(r, v), NEW k \in Nat, k < r.item_num
  PROVE  Unfixed!NextStart(r, Real(v[k])) = Real(v[k + 1])
<1> DEFINE n == r.item_num
           buf == r.buf
           a == v[k]
           b == v[k + 1]
           p == Real(a)
           c == b - Lap(a)
           e == p + 2 + buf[p + 1]
           next == e % size
           skip == Unfixed!SkipBytes(next)
           pad == Unfixed!Padding(r, next)
           s0 == v[0]
           y0 == v[n]
<1>1. /\ n \in Nat /\ Layout(buf, v, n) /\ r.end = Real(y0) /\ k <= n /\ k < n
  BY DEF Laid, ByteRings
<1>2. /\ a \in Int /\ b \in Int /\ y0 \in Int /\ s0 \in Int /\ s0 <= a /\ 0 <= a /\ a < 2 * size
      /\ a < b /\ b <= y0 /\ Fits(buf, a, b)
  <2> HIDE DEF n, buf
  <2> QED BY <1>1, LayoutIn
<1>3. y0 <= s0 + size /\ 0 <= s0 /\ s0 < size
  BY <1>1 DEF Layout
<1> HIDE DEF a, b, y0, s0
<1>4. /\ p \in Nat /\ p + 2 <= size /\ c <= size /\ c # size - 1 /\ buf[p + 1] \in Nat /\ e <= c
      /\ Spans(buf, p, c)
  BY <1>2, FitsMoves DEF Fits
<1>5. Lap(a) \in Int /\ p = a - Lap(a) /\ Lap(a) \in {0, size} /\ c \in Int /\ e \in Nat
  BY <1>2, SizeNumber, <1>4 DEF Lap, Real
<1>6. \/ c = e \/ (c = size /\ e = size - 1)
      \/ (c = size /\ e <= size - 2 /\ buf[e] = 1 /\ buf[e + 1] = size - e - 2)
  BY <1>4 DEF Spans
<1> DEFINE to == IF skip > 0 THEN (next + skip) % size
                 ELSE IF next # r.end THEN (next + pad) % size ELSE next
<1>7. Unfixed!NextStart(r, p) = to
  BY DEF Unfixed!NextStart, Unfixed!HEADER
<1>8. skip = IF next + 2 > size THEN size - next ELSE 0
  BY DEF Unfixed!SkipBytes, Unfixed!HEADER
<1>9. pad = IF buf[next] = 1 THEN 2 + buf[next + 1] ELSE 0
  BY DEF Unfixed!Padding, Unfixed!HEADER
<1>10. next = (IF e = size THEN 0 ELSE e)
  <2>1. e <= size
    BY <1>4, <1>5, SizeNumber
  <2> HIDE DEF e
  <2> QED BY <1>5, <2>1, Wraps
\* A lap ends at most once between two records.
<1>11. Real(b) = (IF c = size THEN 0 ELSE c)
  <2> HIDE DEF p, e
  <2>1. b = c + Lap(a)
    BY <1>2, <1>5
  <2>2. c \in Int /\ 0 <= c /\ c <= size /\ (Lap(a) = size => c < size)
    BY <1>4, <1>5, <1>2, <1>3, SizeNumber, <2>1
  <2> HIDE DEF c
  <2>3. CASE Lap(a) = 0
    BY <2>1, <2>2, <2>3, Wraps
  <2>4. CASE Lap(a) = size
    BY <2>1, <2>2, <2>4, SizeNumber DEF Real, Lap
  <2> QED BY <1>5, <2>3, <2>4
<1> HIDE DEF to, skip, pad, next
<1>12. CASE c = e
  <2> HIDE DEF e, c, p
  <2>1. next = Real(b) /\ next + 2 <= size /\ next \in Nat
    BY <1>4, <1>5, <1>10, <1>11, <1>12, SizeNumber
  <2>2. skip = 0
    BY <1>8, <2>1, SizeNumber
  <2>3. to = IF next # r.end THEN (next + pad) % size ELSE next
    BY <2>2 DEF to
  <2>4. ASSUME next # r.end PROVE pad = 0
    <3>1. b # y0
      BY <1>1, <2>1, <2>4
    <3>2. k + 1 < n /\ k + 1 <= n /\ k + 1 \in Nat
      <4>1. k + 1 # n
        BY <3>1 DEF b, y0
      <4> HIDE DEF n
      <4> QED BY <1>1, <4>1
    <3>3. Fits(buf, v[k + 1], v[(k + 1) + 1]) /\ v[(k + 1) + 1] \in Int
      <4> HIDE DEF n, buf
      <4> QED BY <1>1, <3>2, LayoutIn
    <3>4. buf[Real(b)] = 0
      BY <1>2, <3>3, FitsMoves DEF b
    <3> QED BY <1>9, <2>1, <3>4
  <2>5. next % size = next
    BY <2>1, SizeNumber
  <2>6. next + 0 = next
    BY <2>1
  <2>7. to = Real(b)
    BY <2>1, <2>3, <2>4, <2>5, <2>6
  <2> QED BY <1>7, <2>7, Zenon DEF p, a, b
<1>13. CASE c = size /\ e = size - 1
  <2> HIDE DEF e, c, p
  <2>1. next = size - 1 /\ skip = 1
    BY <1>5, <1>8, <1>10, <1>13, SizeNumber
  <2>2. next + skip = size /\ size % size = 0
    BY <2>1, SizeNumber
  <2>3. to = (next + skip) % size
    BY <2>1 DEF to
  <2>4. to = Real(b)
    BY <1>11, <1>13, <2>2, <2>3
  <2> QED BY <1>7, <2>4, Zenon DEF p, a, b
<1>14. CASE c = size /\ e <= size - 2 /\ buf[e] = 1 /\ buf[e + 1] = size - e - 2
  <2>1. e # Real(y0)
    <3>1. y0 < 2 * size /\ 0 <= y0 /\ size + Lap(a) <= y0
      BY <1>2, <1>3, <1>5, <1>14, SizeNumber
    <3>2. y0 >= size /\ Real(y0) = y0 - size
      BY <1>2, <1>5, <3>1, SizeNumber DEF Real, Lap
    <3>3. y0 - size <= s0
      BY <1>2, <1>3, SizeNumber
    <3>4. Lap(a) = 0
      BY <1>2, <1>3, <1>5, <3>1, SizeNumber
    <3>5. s0 < e
      BY <1>2, <1>4, <1>5, <3>4
    <3> HIDE DEF e
    <3> QED BY <1>2, <1>5, <3>2, <3>3, <3>5, SizeNumber
  <2> HIDE DEF e, c, p
  <2>2. next = e /\ skip = 0
    BY <1>5, <1>8, <1>10, <1>14, SizeNumber
  <2>3. to = (next + pad) % size
    BY <1>1, <2>1, <2>2 DEF to
  <2>4. pad = 2 + (size - e - 2)
    BY <1>9, <1>14, <2>2
  <2>5. next + pad = size /\ size % size = 0
    BY <1>5, <2>2, <2>4, SizeNumber
  <2>6. to = Real(b)
    BY <1>11, <1>14, <2>3, <2>5
  <2> QED BY <1>7, <2>6, Zenon DEF p, a, b
<1> QED BY <1>6, <1>12, <1>13, <1>14 DEF a, b

\* The steps of find_start, from the oldest record to end.
LEMMA FindStartIs ==
  ASSUME NEW r, NEW v, Laid(r, v)
  PROVE  Unfixed!FindStart(r) = [i \in 0 .. r.item_num |-> Real(v[i])]
<1> DEFINE n == r.item_num
           f == [i \in 0 .. n |-> Real(v[i])]
           at == Unfixed!FindStart(r)
<1>1. n \in Nat /\ r.start = Real(v[0])
  BY SizeNumber DEF Laid, ByteRings, Layout, Real, Lap
<1>2. ASSUME NEW i \in 0 .. n
      PROVE  f[i] = IF i = 0 THEN r.start ELSE Unfixed!NextStart(r, f[i - 1])
  <2>1. CASE i = 0
    BY <1>1, <2>1
  <2>2. CASE i # 0
    <3>1. i - 1 \in Nat /\ i - 1 < n /\ (i - 1) + 1 = i /\ i - 1 \in 0 .. n
      BY <1>1, <2>2
    <3>2. Unfixed!NextStart(r, Real(v[i - 1])) = Real(v[(i - 1) + 1])
      BY <3>1, NextIs
    <3>3. f[i] = Real(v[i]) /\ f[i - 1] = Real(v[i - 1])
      BY <3>1
    <3> HIDE DEF f
    <3> QED BY <2>2, <3>1, <3>2, <3>3
  <2> QED BY <2>1, <2>2
<1>3. f = [i \in 0 .. n |-> f[i]]
  OBVIOUS
<1> HIDE DEF f
<1>4. f = [i \in 0 .. n |-> IF i = 0 THEN r.start ELSE Unfixed!NextStart(r, f[i - 1])]
  BY <1>2, <1>3
<1>5. at = [i \in 0 .. n |-> IF i = 0 THEN r.start ELSE Unfixed!NextStart(r, at[i - 1])]
  BY <1>4, Zenon DEF Unfixed!FindStart
<1> HIDE DEF at
<1>6. \A i \in 0 .. n : at[i] = IF i = 0 THEN r.start ELSE Unfixed!NextStart(r, at[i - 1])
  <2> DEFINE g(i) == IF i = 0 THEN r.start ELSE Unfixed!NextStart(r, at[i - 1])
  <2> HIDE DEF g
  <2>1. at = [i \in 0 .. n |-> g(i)]
    BY <1>5 DEF g
  <2>2. \A i \in 0 .. n : at[i] = g(i)
    BY <2>1
  <2> QED BY <2>2 DEF g
<1> DEFINE S == {i \in Nat : i <= n => at[i] = f[i]}
<1> HIDE DEF n
<1>7. 0 \in S
  BY <1>1, <1>2, <1>6
<1>8. ASSUME NEW i \in Nat, i \in S PROVE i + 1 \in S
  <2> SUFFICES ASSUME i + 1 <= n PROVE at[i + 1] = f[i + 1]
    OBVIOUS
  <2>1. i + 1 \in 0 .. n /\ i + 1 # 0 /\ (i + 1) - 1 = i /\ at[i] = f[i]
    BY <1>1, <1>8
  <2> HIDE DEF S
  <2>2. f[i + 1] = Unfixed!NextStart(r, f[i])
    BY <1>2, <2>1
  <2>3. at[i + 1] = Unfixed!NextStart(r, at[i])
    BY <1>6, <2>1
  <2> QED BY <2>1, <2>2, <2>3
<1> HIDE DEF S
<1>9. Nat \subseteq S
  BY <1>7, <1>8, SetInduction
<1>10. \A i \in 0 .. n : at[i] = f[i]
  BY <1>1, <1>9 DEF S
<1>11. at = f
  BY <1>3, <1>5, <1>10
<1> QED BY <1>11 DEF at, f, n

\* A record takes up bytes inside the ring, and no two records take up the same.
RecordBytes(buf, p) == p .. (p + 2 + buf[p + 1] - 1)

LEMMA BytesOfRecord ==
  ASSUME NEW r, NEW v, Laid(r, v), NEW k \in Nat, k < r.item_num
  PROVE  LET p == Real(v[k])
             l == r.buf[p + 1]
         IN /\ v[k] \in Int /\ v[k + 1] \in Int /\ v[0] <= v[k] /\ v[k] < v[k + 1] /\ 0 <= v[k]
            /\ v[0] \in Int /\ v[k + 1] <= v[0] + size
            /\ p \in Nat /\ r.buf[p] = 0 /\ l \in Nat /\ p + 2 + l <= size
            /\ p = v[k] - Lap(v[k]) /\ Lap(v[k]) \in {0, size}
            /\ p + 2 + l <= v[k + 1] - Lap(v[k])
<1> DEFINE n == r.item_num
           buf == r.buf
           a == v[k]
           b == v[k + 1]
           p == Real(a)
           l == buf[p + 1]
           c == b - Lap(a)
<1>1. n \in Nat /\ Layout(buf, v, n) /\ k < n /\ k <= n
  BY DEF Laid, ByteRings
<1>2. /\ a \in Int /\ b \in Int /\ v[0] <= a /\ 0 <= a /\ a < 2 * size /\ a < b /\ b <= v[n]
      /\ Fits(buf, a, b) /\ v[0] \in Int /\ v[n] \in Int
  <2> HIDE DEF n, buf
  <2> QED BY <1>1, LayoutIn
<1>3. b <= v[0] + size
  <2>1. v[n] <= v[0] + size
    BY <1>1 DEF Layout
  <2> HIDE DEF n, b
  <2> QED BY <1>2, <2>1, SizeNumber
<1> HIDE DEF a, b
<1>4. p \in Nat /\ buf[p] = 0 /\ l \in Nat /\ p + 2 + l <= c /\ c <= size
  BY <1>2, FitsMoves
<1>5. p = a - Lap(a) /\ Lap(a) \in {0, size}
  BY <1>2, SizeNumber DEF Lap, Real
<1>6. p + 2 + l <= size
  <2>1. c \in Int
    BY <1>2, <1>5, SizeNumber
  <2> HIDE DEF c, p, l
  <2> QED BY <1>4, <2>1, SizeNumber
<1> QED BY <1>2, <1>3, <1>4, <1>5, <1>6 DEF a, b

LEMMA RecordsApart ==
  ASSUME NEW r, NEW v, Laid(r, v), NEW i \in Nat, NEW j \in Nat, i < j, j < r.item_num
  PROVE  RecordBytes(r.buf, Real(v[i])) \cap RecordBytes(r.buf, Real(v[j])) = {}
<1> DEFINE n == r.item_num
           p == Real(v[i])
           q == Real(v[j])
           l == r.buf[p + 1]
           m == r.buf[q + 1]
           ai == v[i]
           bi == v[i + 1]
           aj == v[j]
           bj == v[j + 1]
           ki == Lap(ai)
           kj == Lap(aj)
           s0 == v[0]
<1>1. n \in Nat /\ i < n /\ Layout(r.buf, v, n)
  BY DEF Laid, ByteRings
<1>2. /\ ai \in Int /\ bi \in Int /\ s0 <= ai /\ ai < bi /\ s0 \in Int
      /\ p \in Nat /\ l \in Nat /\ p = ai - ki /\ ki \in {0, size} /\ p + 2 + l <= bi - ki
  BY <1>1, BytesOfRecord
<1>3. /\ aj \in Int /\ bj \in Int /\ bj <= s0 + size
      /\ q \in Nat /\ m \in Nat /\ q = aj - kj /\ kj \in {0, size} /\ q + 2 + m <= bj - kj
  BY BytesOfRecord
<1>4. bi <= aj
  BY <1>1, Climbs, <1>2, <1>3
<1> HIDE DEF p, q, l, m, ai, bi, aj, bj, ki, kj, s0
<1>5. ASSUME NEW x \in p .. (p + 2 + l - 1), x \in q .. (q + 2 + m - 1) PROVE FALSE
  BY <1>2, <1>3, <1>5, SizeNumber, <1>4
<1>6. (p .. (p + 2 + l - 1)) \cap (q .. (q + 2 + m - 1)) = {}
  BY <1>5
<1> QED BY <1>6 DEF RecordBytes, p, q, l, m

\* What the walk of find_start names.
LEMMA StartsAre ==
  ASSUME NEW v, Laid(ring, v)
  PROVE  /\ Unfixed!FindStart(ring)[ring.item_num] = ring.end
         /\ Unfixed!Starts = {Real(v[i]) : i \in 0 .. (ring.item_num - 1)}
         /\ \A p : Unfixed!RecordAt(p) = RecordBytes(ring.buf, p)
<1> DEFINE n == ring.item_num
           at == Unfixed!FindStart(ring)
<1>1. n \in Nat /\ at = [i \in 0 .. n |-> Real(v[i])] /\ ring.end = Real(v[n])
  BY FindStartIs DEF Laid, ByteRings
<1> HIDE DEF at
<1>2. n \in 0 .. n /\ \A i \in 0 .. (n - 1) : i \in 0 .. n
  BY <1>1
<1>3. at[n] = ring.end
  BY <1>1, <1>2
<1>4. Unfixed!Starts = {at[i] : i \in 0 .. (n - 1)}
  BY DEF Unfixed!Starts, at
<1>5. {at[i] : i \in 0 .. (n - 1)} = {Real(v[i]) : i \in 0 .. (n - 1)}
  BY <1>1, <1>2
<1>6. \A p : Unfixed!RecordAt(p) = RecordBytes(ring.buf, p)
  BY DEF Unfixed!RecordAt, RecordBytes, Unfixed!HEADER
<1> QED BY <1>3, <1>4, <1>5, <1>6 DEF at

\* Records laid out so tile the ring.
LEMMA LaidTiles ==
  ASSUME NEW v, Laid(ring, v)
  PROVE  Unfixed!RecordsTile
<1> DEFINE n == ring.item_num
           starts == {Real(v[i]) : i \in 0 .. (n - 1)}
<1>1. /\ Unfixed!FindStart(ring)[n] = ring.end /\ Unfixed!Starts = starts
      /\ \A p : Unfixed!RecordAt(p) = RecordBytes(ring.buf, p)
  BY StartsAre
<1>2. n \in Nat
  BY DEF Laid, ByteRings
<1>3. \A i \in 0 .. (n - 1) : i \in Nat /\ i < n
  BY <1>2
<1>4. ASSUME NEW i \in 0 .. (n - 1)
      PROVE  ring.buf[Real(v[i])] = 0 /\ RecordBytes(ring.buf, Real(v[i])) \subseteq Unfixed!Bytes
  <2> DEFINE p == Real(v[i])
             l == ring.buf[p + 1]
  <2>1. p \in Nat /\ ring.buf[p] = 0 /\ l \in Nat /\ p + 2 + l <= size
    BY <1>3, BytesOfRecord
  <2> HIDE DEF p, l
  <2>2. p .. (p + 2 + l - 1) \subseteq 0 .. (size - 1)
    BY <2>1, SizeNumber
  <2> QED BY <2>1, <2>2 DEF RecordBytes, Unfixed!Bytes, p, l
<1>5. ASSUME NEW i \in 0 .. (n - 1), NEW j \in 0 .. (n - 1), Real(v[i]) # Real(v[j])
      PROVE  RecordBytes(ring.buf, Real(v[i])) \cap RecordBytes(ring.buf, Real(v[j])) = {}
  BY <1>3, <1>5, RecordsApart
<1>6. \A p, q \in starts : p # q => RecordBytes(ring.buf, p) \cap RecordBytes(ring.buf, q) = {}
  BY <1>5
<1>7. \A p \in starts : ring.buf[p] = 0 /\ RecordBytes(ring.buf, p) \subseteq Unfixed!Bytes
  BY <1>4
<1>8. ring.used_size = IF n = 0 THEN 0
                       ELSE IF ring.end > ring.start THEN ring.end - ring.start
                       ELSE size - ring.start + ring.end
  <2> DEFINE u == ring.used_size
             e == ring.end
             s == ring.start
             y0 == v[n]
  <2>1. /\ y0 \in Int /\ s \in Nat /\ s < size /\ e \in Nat /\ e < size /\ u \in Nat /\ u <= size
        /\ u = y0 - s
    BY Sides
  <2>2. /\ u = 0 <=> n = 0
        /\ u < size /\ s <= e => y0 = e
        /\ e < s => y0 = size + e
    BY Sides
  <2>3. e = Real(y0)
    BY DEF Laid
  <2> HIDE DEF u, e, s, y0, n
  <2>4. CASE u = size
    BY <2>1, <2>4, SizeNumber, <2>3, <2>2 DEF Real, Lap, u, e, s
  <2>5. CASE u < size /\ e < s
    BY <2>1, <2>2, <2>5, SizeNumber DEF u, e, s
  <2>6. CASE u < size /\ s <= e
    BY <2>1, <2>2, <2>6 DEF u, e, s
  <2>7. u = size \/ u < size
    BY <2>1, SizeNumber
  <2>8. e < s \/ s <= e
    BY <2>1
  <2> QED BY <2>4, <2>5, <2>6, <2>7, <2>8 DEF u, e, s, n
<1> HIDE DEF starts
<1> QED BY <1>1, <1>6, <1>7, <1>8 DEF Unfixed!RecordsTile

\* What front returns is what the layout says.
LogOf(r) == [i \in 1 .. r.item_num |-> Unfixed!Front(r, i - 1)]

LEMMA FrontsLaid ==
  ASSUME NEW r, NEW v, Laid(r, v)
  PROVE  LogOf(r) = RecordsOf(r.buf, v, r.item_num)
<1> DEFINE n == r.item_num
           at == Unfixed!FindStart(r)
<1>1. n \in Nat /\ at = [i \in 0 .. n |-> Real(v[i])]
  BY FindStartIs DEF Laid, ByteRings
<1>2. \A i : Unfixed!Front(r, i) = RecordOf(r.buf, at[i])
  BY DEF Unfixed!Front, RecordOf
<1> HIDE DEF at, n
<1>3. \A i \in 1 .. n : i - 1 \in 0 .. n /\ at[i - 1] = Real(v[i - 1])
  BY <1>1
<1>4. [i \in 1 .. n |-> Unfixed!Front(r, i - 1)] = [i \in 1 .. n |-> RecordOf(r.buf, Real(v[i - 1]))]
  BY <1>2, <1>3
<1> QED BY <1>4 DEF RecordsOf, LogOf, n

------------------------------------------------------------------------------
\* The push under way.  Only one that overwrites pops, and it goes around the
\* end of the ring, from "unwrap" on, only while records lie behind it.
Calls == [item : Payloads, over_write : BOOLEAN, pc : {"impl", "front", "between", "unwrap", "unwrapped"}]

CallFits(r, c) ==
  c # NoCall =>
    /\ c \in Calls
    /\ 2 + Len(c.item) <= size
    /\ c.pc # "impl" => c.over_write
    /\ c.pc = "unwrap" => r.end < r.start /\ r.end > 0
    /\ c.pc = "unwrapped" => r.end > 0 /\ r.used_size < size

ByteInv == (\E v : Laid(ring, v)) /\ CallFits(ring, call)

\* With each step, the log holds what it held, or that without the oldest
\* record, or with one more.
LEMMA LogPopped ==
  ASSUME NEW r, \E v : Laid(r, v), r.used_size # 0
  PROVE  LET s == Unfixed!Popped(r) IN
         /\ \E v : Laid(s, v)
         /\ r.item_num > 0 /\ s.item_num = r.item_num - 1 /\ s.used_size < r.used_size
         /\ s.item_num > 0 => s.end = r.end
         /\ LogOf(r) # << >> /\ LogOf(s) = Tail(LogOf(r))
<1> DEFINE s == Unfixed!Popped(r)
<1>1. PICK v : Laid(r, v)
  OBVIOUS
<1>2. PICK w : Laid(s, w) /\ RecordsOf(s.buf, w, s.item_num) = Tail(RecordsOf(r.buf, v, r.item_num))
  BY <1>1, PoppedLaid
<1>3. /\ r.item_num > 0 /\ s.item_num = r.item_num - 1 /\ s.used_size < r.used_size
      /\ s.item_num > 0 => s.end = r.end
  BY <1>1, PoppedLaid
<1>4. LogOf(r) = RecordsOf(r.buf, v, r.item_num) /\ LogOf(s) = RecordsOf(s.buf, w, s.item_num)
  BY <1>1, <1>2, FrontsLaid
<1>5. LogOf(r) # << >>
  <2>1. 1 \in 1 .. r.item_num
    BY <1>1, <1>3 DEF Laid, ByteRings
  <2> DEFINE n == r.item_num
  <2>2. LogOf(r) = [i \in 1 .. n |-> Unfixed!Front(r, i - 1)]
    BY DEF LogOf
  <2>3. 1 \in DOMAIN LogOf(r)
    BY <2>1, <2>2
  <2> QED BY <2>3
<1> HIDE DEF s
<1>6. (\E x : Laid(s, x)) /\ LogOf(s) = Tail(LogOf(r))
  BY <1>2, <1>4
<1> QED BY <1>3, <1>5, <1>6 DEF s

LEMMA LogAppended ==
  ASSUME NEW r, NEW v, Laid(r, v), NEW item \in Seq(Nat), NEW s,
         \E x \in Int : Reaches(r, v, item, x) /\ s = Extended(r, v, item, x)
  PROVE  (\E w : Laid(s, w)) /\ LogOf(s) = Append(LogOf(r), item) /\ s.item_num = r.item_num + 1
<1>1. PICK x \in Int : Reaches(r, v, item, x) /\ s = Extended(r, v, item, x)
  OBVIOUS
<1> DEFINE w == [v EXCEPT ![r.item_num + 1] = x]
<1>2. Laid(s, w) /\ RecordsOf(s.buf, w, s.item_num) = Append(RecordsOf(r.buf, v, r.item_num), item)
      /\ s.item_num = r.item_num + 1
  BY <1>1, AppendLaid
<1>3. LogOf(r) = RecordsOf(r.buf, v, r.item_num) /\ LogOf(s) = RecordsOf(s.buf, w, s.item_num)
  BY <1>2, FrontsLaid
<1> HIDE DEF w
<1> QED BY <1>2, <1>3

LEMMA LogWritten ==
  ASSUME NEW r, \E v : Laid(r, v), NEW item \in Seq(Nat), r.used_size < size
  PROVE  /\ r.start <= r.end /\ r.end + 2 + Len(item) <= size =>
              LET s == Unfixed!WriteItem(r, item) IN
              (\E v : Laid(s, v)) /\ LogOf(s) = Append(LogOf(r), item) /\ s.item_num = r.item_num + 1
         /\ r.end < r.start /\ r.end + 2 + Len(item) <= r.start =>
              LET s == Unfixed!WriteItemNoWrap(r, item) IN
              (\E v : Laid(s, v)) /\ LogOf(s) = Append(LogOf(r), item) /\ s.item_num = r.item_num + 1
<1>1. PICK v : Laid(r, v)
  OBVIOUS
<1>2. r.start <= r.end /\ r.end + 2 + Len(item) <= size =>
        \E x \in Int : Reaches(r, v, item, x) /\ Unfixed!WriteItem(r, item) = Extended(r, v, item, x)
  BY <1>1, WriteItemIs
<1>3. r.end < r.start /\ r.end + 2 + Len(item) <= r.start =>
        \E x \in Int : Reaches(r, v, item, x) /\ Unfixed!WriteItemNoWrap(r, item) = Extended(r, v, item, x)
  BY <1>1, WriteBetweenIs
<1> QED BY <1>1, <1>2, <1>3, LogAppended

LEMMA LogPadded ==
  ASSUME NEW r, \E v : Laid(r, v), r.used_size < size, r.start <= r.end, r.item_num > 0
  PROVE  LET s == Unfixed!Padded(r) IN
         (\E v : Laid(s, v)) /\ LogOf(s) = LogOf(r) /\ s.item_num = r.item_num
<1> DEFINE s == Unfixed!Padded(r)
<1>1. PICK v : Laid(r, v)
  OBVIOUS
<1> DEFINE w == [v EXCEPT ![r.item_num] = size]
<1>2. /\ Laid(s, w) /\ s.item_num = r.item_num
      /\ RecordsOf(s.buf, w, s.item_num) = RecordsOf(r.buf, v, r.item_num)
  BY <1>1, PaddedLaid
<1>3. LogOf(r) = RecordsOf(r.buf, v, r.item_num) /\ LogOf(s) = RecordsOf(s.buf, w, s.item_num)
  BY <1>1, <1>2, FrontsLaid
<1> HIDE DEF w
<1> QED BY <1>2, <1>3

\* Bytes used from the beginning of the ring on, up to end, and other bytes
\* behind start: that is two records or more.
LEMMA TwoAround ==
  ASSUME NEW r, \E v : Laid(r, v), r.end < r.start, r.end > 0
  PROVE  r.item_num > 1
<1>1. PICK v : Laid(r, v)
  OBVIOUS
<1> DEFINE n == r.item_num
<1>2. /\ v[n] = size + r.end /\ n > 0 /\ n \in Nat /\ v[0] \in Int /\ r.start = v[0]
      /\ r.end \in Nat /\ r.start < size /\ Layout(r.buf, v, n)
  BY <1>1, Sides DEF Laid
<1> HIDE DEF n
<1>3. ASSUME n = 1 PROVE FALSE
  BY <1>2, <1>3, FitsMoves, SizeNumber DEF Layout, Lap
<1>4. n > 1
  BY <1>2, <1>3
<1> QED BY <1>4 DEF n

\* A push under way is one, wherever it is.
LEMMA CallIsCall ==
  ASSUME NEW c \in Calls
  PROVE  /\ c # NoCall /\ [item |-> c.item, over_write |-> c.over_write] # NoCall
         /\ c.item \in Payloads /\ c.item \in Seq(Nat) /\ c.over_write \in BOOLEAN
         /\ \A pc \in {"impl", "front", "between", "unwrap", "unwrapped"} :
              LET d == [c EXCEPT !.pc = pc]
              IN d \in Calls /\ d.item = c.item /\ d.over_write = c.over_write /\ d.pc = pc
<1>1. c.item \in Payloads /\ c.over_write \in BOOLEAN
  BY DEF Calls
<1>2. [item |-> c.item, over_write |-> c.over_write] \in [item : Payloads, over_write : BOOLEAN]
  BY <1>1
<1>4. /\ NoCall \notin [item : Payloads, over_write : BOOLEAN]
      /\ NoCall \notin Calls
      /\ Payloads \subseteq Seq(Nat)
  BY ContainersAssumption, Zenon DEF Calls
<1>5. c # NoCall /\ [item |-> c.item, over_write |-> c.over_write] # NoCall
  BY <1>2, <1>4, Zenon
<1>6. \A pc \in {"impl", "front", "between", "unwrap", "unwrapped"} :
        LET d == [c EXCEPT !.pc = pc]
        IN d \in Calls /\ d.item = c.item /\ d.over_write = c.over_write /\ d.pc = pc
  BY DEF Calls
<1> QED BY <1>1, <1>4, <1>5, <1>6

\* The step goes on with the push, and the log does not see it.
LEMMA PushGoesOn ==
  ASSUME call \in Calls, NEW pc \in {"impl", "front", "between", "unwrap", "unwrapped"}, Unfixed!Goto(pc)
  PROVE  /\ call' \in Calls /\ call'.item = call.item /\ call'.over_write = call.over_write
         /\ call'.pc = pc /\ LogCall' = LogCall
<1>1. call' = [call EXCEPT !.pc = pc]
  BY DEF Unfixed!Goto
<1>2. /\ call' \in Calls /\ call'.item = call.item /\ call'.over_write = call.over_write
      /\ call'.pc = pc
  BY <1>1, CallIsCall
<1>3. call # NoCall /\ call' # NoCall
  BY <1>2, CallIsCall
<1> QED BY <1>2, <1>3, Zenon DEF LogCall

\* What the log makes of the steps.
LEMMA LogSees ==
  ASSUME kind = "unfixed", kind' = "unfixed"
  PROVE  /\ LogOf(ring') = LogOf(ring) /\ LogCall' = LogCall => UNCHANGED Log!logVars
         /\ call \in Calls /\ call.over_write /\ LogCall' = LogCall
            /\ LogOf(ring) # << >> /\ LogOf(ring') = Tail(LogOf(ring)) => Log!DropOldest
         /\ call \in Calls /\ call' = NoCall /\ LogOf(ring') = Append(LogOf(ring), call.item) => Log!Accept
         /\ call \in Calls /\ ~call.over_write /\ call' = NoCall /\ LogOf(ring') = LogOf(ring) => Log!Refuse
<1>1. Fronts = LogOf(ring) /\ Fronts' = LogOf(ring')
  BY DEF Fronts, LogOf
<1>2. ASSUME LogOf(ring') = LogOf(ring), LogCall' = LogCall PROVE UNCHANGED Log!logVars
  BY <1>1, <1>2 DEF Log!logVars, LogCall
<1>3. ASSUME call \in Calls
      PROVE  LogCall # NoCall /\ LogCall.item = call.item /\ LogCall.over_write = call.over_write
  BY <1>3, CallIsCall DEF LogCall
<1>4. ASSUME call' = NoCall PROVE LogCall' = NoCall
  BY <1>4 DEF LogCall
<1>5. ASSUME call \in Calls, call.over_write, LogCall' = LogCall,
             LogOf(ring) # << >>, LogOf(ring') = Tail(LogOf(ring))
      PROVE  Log!DropOldest
  BY <1>1, <1>3, <1>5 DEF Log!DropOldest, LogCall
<1>6. ASSUME call \in Calls, call' = NoCall, LogOf(ring') = Append(LogOf(ring), call.item)
      PROVE  Log!Accept
  BY <1>1, <1>3, <1>4, <1>6 DEF Log!Accept, LogCall
<1>7. ASSUME call \in Calls, ~call.over_write, call' = NoCall, LogOf(ring') = LogOf(ring)
      PROVE  Log!Refuse
  BY <1>1, <1>3, <1>4, <1>7 DEF Log!Refuse, LogCall
<1> QED BY <1>2, <1>5, <1>6, <1>7

\* Every step of the byte ring leaves its records in order, and is a step of the log
\* or none of it.
LEMMA ByteStep ==
  ASSUME kind = "unfixed", kind' = "unfixed", ByteInv, Unfixed!Next
  PROVE  ByteInv' /\ [Log!LogNext]_(Log!logVars)
<1> DEFINE laid(r) == \E v : Laid(r, v)
           Unseen == LogOf(ring') = LogOf(ring) /\ LogCall' = LogCall
<1>1. laid(ring) /\ CallFits(ring, call)
  BY DEF ByteInv
<1>2. ASSUME laid(ring'), CallFits(ring', call') PROVE ByteInv'
  BY <1>2 DEF ByteInv
<1>3. Unseen => [Log!LogNext]_(Log!logVars)
  BY LogSees
<1>4. Log!DropOldest \/ Log!Accept \/ Log!Refuse \/ Log!Take \/ Log!Empty => [Log!LogNext]_(Log!logVars)
  BY DEF Log!LogNext
<1>5. Fronts = LogOf(ring) /\ Fronts' = LogOf(ring')
  BY DEF Fronts, LogOf
<1>6. call' = NoCall => CallFits(ring', call')
  BY DEF CallFits
<1>7. /\ ring.used_size \in Nat /\ ring.start \in Nat /\ ring.end \in Nat /\ ring.item_num \in Nat
      /\ ring.used_size <= size /\ ring.start < size /\ ring.end < size
      /\ ring.used_size = 0 <=> ring.item_num = 0
      /\ ring.item_num = 0 => ring.end = 0
      /\ ring.end < ring.start => ring.item_num > 0
  <2>1. PICK v : Laid(ring, v)
    BY <1>1
  <2> QED BY <2>1, Sides
\* A pop: of the caller, or of a push that overwrites and then stands at pc.
<1>8. ASSUME ring' = Unfixed!Popped(ring), ring.used_size # 0
      PROVE  /\ laid(ring') /\ ring.item_num > 0 /\ ring'.item_num = ring.item_num - 1
             /\ ring'.used_size < ring.used_size
             /\ ring'.item_num > 0 => ring'.end = ring.end
             /\ LogOf(ring) # << >> /\ LogOf(ring') = Tail(LogOf(ring))
  BY <1>1, <1>8, LogPopped
<1>9. ASSUME call \in Calls, call.over_write, ring' = Unfixed!Popped(ring), ring.used_size # 0,
             LogCall' = LogCall
      PROVE  [Log!LogNext]_(Log!logVars)
  BY <1>8, <1>9, LogSees, <1>4
<1>10. ASSUME call \in Calls, 2 + Len(call.item) <= size, call' \in Calls, call'.item = call.item,
              call'.over_write = call.over_write,
              call'.pc = "impl" \/ (call.over_write /\ call'.pc \in {"front", "between"})
       PROVE  CallFits(ring', call')
  BY <1>10 DEF CallFits
<1> HIDE DEF laid, Unseen
<1>11. ASSUME NEW item \in Payloads, NEW over_write \in BOOLEAN, Unfixed!Push(item, over_write)
       PROVE  ByteInv' /\ [Log!LogNext]_(Log!logVars)
  <2> DEFINE c == [item |-> item, over_write |-> over_write, pc |-> "impl"]
  <2>1. call = NoCall /\ 2 + Len(item) <= size /\ call' = c /\ ring' = ring
    BY <1>11 DEF Unfixed!Push, Unfixed!HEADER
  <2>2. c \in Calls /\ c.item = item /\ c.over_write = over_write /\ c.pc = "impl"
    BY DEF Calls
  <2> HIDE DEF c
  <2>3. call' # NoCall
    BY <2>1, <2>2, CallIsCall
  <2>4. CallFits(ring', call')
    BY <2>1, <2>2 DEF CallFits
  <2>5. laid(ring')
    BY <1>1, <2>1
  <2>6. LogCall = NoCall /\ LogCall' = [item |-> item, over_write |-> over_write]
    BY <2>1, <2>2, <2>3 DEF LogCall
  <2>7. Fronts' = Fronts
    BY <1>5, <2>1
  <2>8. Log!Begin(item, over_write)
    BY <2>6, <2>7 DEF Log!Begin, LogCall
  <2>9. item \in Payloads \cup Values
    OBVIOUS
  <2>10. Log!LogNext
    BY <2>8, <2>9 DEF Log!LogNext
  <2> QED BY <1>2, <2>4, <2>5, <2>10 DEF laid
<1>12. CASE Unfixed!Pop
  BY <1>12, <1>8, <1>5, <1>2, <1>4, <1>6 DEF Unfixed!Pop, Unfixed!IsEmpty, LogCall, Log!Take, laid
<1>13. CASE Unfixed!Clear
  <2> DEFINE w == [k \in Nat |-> 0]
             buf == ring.buf
  <2>1. call = NoCall /\ ring' = Unfixed!Cleared(ring) /\ call' = call
    BY <1>13 DEF Unfixed!Clear
  <2>2. ring \in ByteRings
    BY <1>1 DEF laid, Laid
  <2>3. ring' = [start |-> 0, end |-> 0, used_size |-> 0, item_num |-> 0, buf |-> buf]
    BY <2>1, <2>2 DEF Unfixed!Cleared, ByteRings
  <2>4. Laid(ring', w)
    BY SizeNumber, RealIs, <2>2, <2>3 DEF Layout, ByteRings, Laid
  <2>5. LogOf(ring') = << >>
    BY <2>3 DEF LogOf
  <2>6. LogCall = NoCall /\ LogCall' = NoCall
    BY <2>1 DEF LogCall
  <2>7. Log!Empty
    BY <1>5, <2>5, <2>6 DEF Log!Empty, LogCall
  <2> QED BY <1>2, <1>4, <1>6, <2>1, <2>4, <2>7 DEF laid
<1>14. ASSUME call # NoCall
       PROVE  /\ call \in Calls /\ call.item \in Seq(Nat) /\ 2 + Len(call.item) <= size
              /\ Unfixed!need = 2 + Len(call.item) /\ call.over_write \in BOOLEAN
              /\ Len(call.item) \in Nat
  <2>1. call \in Calls /\ 2 + Len(call.item) <= size
    BY <1>1, <1>14 DEF CallFits
  <2>2. call.item \in Seq(Nat) /\ call.over_write \in BOOLEAN
    BY <2>1, CallIsCall
  <2>3. Len(call.item) \in Nat
    BY <2>2
  <2>4. Unfixed!need = 2 + Len(call.item)
    BY DEF Unfixed!need, Unfixed!HEADER
  <2> QED BY <2>1, <2>2, <2>3, <2>4
<1>15. CASE call # NoCall /\ Unfixed!Activation
  <2> DEFINE need == 2 + Len(call.item)
  <2>1. /\ call \in Calls /\ call.item \in Seq(Nat) /\ need <= size /\ Unfixed!need = need
        /\ call.over_write \in BOOLEAN /\ need \in Nat /\ need >= 2
    BY <1>14, <1>15
  <2>2. call.pc = "impl"
    BY <1>15 DEF Unfixed!Activation
  <2>3. ASSUME call' = NoCall, ring' = ring, ~call.over_write
        PROVE  ByteInv' /\ [Log!LogNext]_(Log!logVars)
    BY <1>1, <2>3, <2>1, LogSees, <1>2, <1>4, <1>6 DEF laid
  <2>4. ASSUME call' = NoCall, laid(ring'), LogOf(ring') = Append(LogOf(ring), call.item)
        PROVE  ByteInv' /\ [Log!LogNext]_(Log!logVars)
    BY <2>1, <2>4, LogSees, <1>2, <1>4, <1>6 DEF laid
  <2>5. CASE Unfixed!WhenFull
    <3>1. ring.used_size >= size /\ ring.used_size # 0
      BY <1>7, <2>5, SizeNumber DEF Unfixed!WhenFull, Unfixed!IsFull
    <3>2. CASE ~call.over_write /\ Unfixed!Returns /\ UNCHANGED ring
      BY <2>3, <3>2 DEF Unfixed!Returns
    <3>3. CASE call.over_write /\ ring' = Unfixed!Popped(ring) /\ UNCHANGED call
      BY <1>8, <3>1, <3>3, <1>10, <2>1, <2>2, <1>9, <1>2 DEF LogCall, laid
    <3> QED BY <2>5, <3>2, <3>3 DEF Unfixed!WhenFull
  <2>6. ASSUME ~Unfixed!IsFull(ring) PROVE ring.used_size < size
    BY <1>7, <2>6, SizeNumber DEF Unfixed!IsFull
  <2>7. CASE ~Unfixed!IsFull(ring) /\ Unfixed!PlaceBehind
    <3>1. ring.end >= ring.start /\ ring.start <= ring.end /\ ring.used_size < size
      BY <1>7, <2>6, <2>7 DEF Unfixed!PlaceBehind
    <3>2. CASE ring.end + need <= size /\ ring' = Unfixed!WriteItem(ring, call.item) /\ Unfixed!Returns
      <4>1. ring.end + 2 + Len(call.item) <= size
        BY <3>2, <1>7, <1>14, <1>15
      <4>2. laid(ring') /\ LogOf(ring') = Append(LogOf(ring), call.item)
        BY <1>1, <2>1, <3>1, <3>2, <4>1, LogWritten DEF laid
      <4> QED BY <2>4, <3>2, <4>2 DEF Unfixed!Returns
    <3>3. CASE ~call.over_write /\ Unfixed!Returns /\ UNCHANGED ring
      BY <2>3, <3>3 DEF Unfixed!Returns
    <3>4. CASE ring.end + need > size /\ ring' = Unfixed!Padded(ring)
               /\ Unfixed!Goto(IF call.over_write THEN "front" ELSE "impl")
      <4>1. ring.item_num > 0
        BY <2>1, <3>4, SizeNumber, <1>7
      <4>2. laid(ring') /\ LogOf(ring') = LogOf(ring)
        BY <1>1, <3>1, <3>4, <4>1, LogPadded DEF laid
      <4> DEFINE pc == IF call.over_write THEN "front" ELSE "impl"
      <4>3. pc \in {"impl", "front", "between", "unwrap", "unwrapped"} /\ Unfixed!Goto(pc)
            /\ (pc = "impl" \/ (call.over_write /\ pc = "front"))
        BY <2>1, <3>4
      <4> HIDE DEF pc
      <4>4. /\ call' \in Calls /\ call'.item = call.item /\ call'.over_write = call.over_write
            /\ call'.pc = pc /\ LogCall' = LogCall
        BY <2>1, <4>3, PushGoesOn
      <4>5. CallFits(ring', call')
        BY <1>10, <2>1, <4>3, <4>4
      <4> QED BY <1>2, <1>3, <4>2, <4>4, <4>5 DEF laid, Unseen
    <3> QED BY <2>1, <2>7, <3>2, <3>3, <3>4, Zenon DEF Unfixed!PlaceBehind
  <2>8. CASE ~Unfixed!IsFull(ring) /\ Unfixed!PlaceBetween
    <3>1. ring.end < ring.start /\ ring.used_size < size
      BY <2>6, <2>8 DEF Unfixed!PlaceBetween
    <3>2. CASE Unfixed!FitsBetween /\ ring' = Unfixed!WriteItemNoWrap(ring, call.item) /\ Unfixed!Returns
      <4>1. ring.end + 2 + Len(call.item) <= ring.start
        <5>1. ring.end + need <= ring.start
          BY <2>1, <3>2 DEF Unfixed!FitsBetween
        <5>2. Len(call.item) \in Nat /\ ring.end \in Nat
          BY <1>7, <1>14, <1>15
        <5> QED BY <5>1, <5>2
      <4>2. laid(ring') /\ LogOf(ring') = Append(LogOf(ring), call.item)
        BY <1>1, <2>1, <3>1, <3>2, <4>1, LogWritten DEF laid
      <4> QED BY <2>4, <3>2, <4>2 DEF Unfixed!Returns
    <3>3. CASE ~call.over_write /\ Unfixed!Returns /\ UNCHANGED ring
      BY <2>3, <3>3 DEF Unfixed!Returns
    <3>4. CASE call.over_write /\ ring' = ring
               /\ Unfixed!Goto(IF ring.end + need <= size THEN "between" ELSE "unwrap")
      <4> DEFINE pc == IF ring.end + need <= size THEN "between" ELSE "unwrap"
      <4>1. pc \in {"impl", "front", "between", "unwrap", "unwrapped"} /\ Unfixed!Goto(pc)
            /\ (pc = "between" \/ (pc = "unwrap" /\ ~(ring.end + need <= size)))
        BY <3>4
      <4> HIDE DEF pc
      <4>2. /\ call' \in Calls /\ call'.item = call.item /\ call'.over_write = call.over_write
            /\ call'.pc = pc /\ LogCall' = LogCall
        BY <2>1, <4>1, PushGoesOn
      <4>3. CallFits(ring', call')
        BY <1>10, <2>1, <3>4, <4>2, SizeNumber, <1>7, <3>1, <4>1 DEF CallFits
      <4>4. laid(ring') /\ LogOf(ring') = LogOf(ring)
        BY <1>1, <3>4
      <4> QED BY <1>2, <1>3, <4>2, <4>3, <4>4 DEF laid, Unseen
    <3> QED BY <2>1, <2>8, <3>2, <3>3, <3>4, Zenon DEF Unfixed!PlaceBetween
  <2> QED BY <1>15, <2>5, <2>7, <2>8 DEF Unfixed!Activation
\* One turn of a loop: a pop, or out of it.
<1>16. ASSUME call \in Calls, 2 + Len(call.item) <= size, call.over_write, NEW pc \in {"front", "between"},
              \/ ring.used_size # 0 /\ Unfixed!PopsThen(pc)
              \/ Unfixed!LeavesFor("impl")
       PROVE  ByteInv' /\ [Log!LogNext]_(Log!logVars)
  BY <1>16, PushGoesOn, <1>10, <1>8, <1>9, <1>2, <1>1, <1>3 DEF Unfixed!PopsThen, laid,
     Unfixed!LeavesFor, Unseen
<1>17. CASE call # NoCall /\ Unfixed!MakeFrontRoom
  BY <1>1, <1>14, <1>17, <1>16 DEF Unfixed!MakeFrontRoom, CallFits, Unfixed!IsEmpty
<1>18. CASE call # NoCall /\ Unfixed!MakeRoomBetween
  BY <1>1, <1>14, <1>18, <1>7, <1>16 DEF Unfixed!MakeRoomBetween, CallFits
\* Around the end there is more than one record, so one is left.
<1>19. ASSUME call \in Calls, 2 + Len(call.item) <= size, call.over_write,
              ring.end < ring.start, ring.end > 0, Unfixed!PopsThen("unwrapped")
       PROVE  ByteInv' /\ [Log!LogNext]_(Log!logVars)
  <2>1. ring' = Unfixed!Popped(ring) /\ Unfixed!Goto("unwrapped")
    BY <1>19 DEF Unfixed!PopsThen
  <2>2. ring.item_num > 1 /\ ring.used_size # 0
    BY <1>1, <1>19, TwoAround, <1>7 DEF laid
  <2>3. /\ laid(ring') /\ ring'.item_num = ring.item_num - 1
        /\ ring'.used_size < ring.used_size
        /\ ring'.item_num > 0 => ring'.end = ring.end
    BY <1>8, <2>1, <2>2
  <2>4. ring'.used_size \in Nat /\ ring'.used_size < size /\ ring'.end > 0
    <3>1. ring'.item_num > 0
      BY <1>7, <2>2, <2>3
    <3>2. ring'.used_size \in Nat
      <4>1. PICK v : Laid(ring', v)
        BY <2>3 DEF laid
      <4> QED BY <4>1, Sides
    <3>3. ring'.used_size < size
      <4> DEFINE u == ring.used_size
                 w == ring'.used_size
      <4>1. u \in Nat /\ w \in Nat /\ w < u /\ u <= size
        BY <1>7, <2>3, <3>2
      <4> HIDE DEF u, w
      <4>2. w < size
        BY <4>1, SizeNumber
      <4> QED BY <4>2 DEF w
    <3> QED BY <1>19, <2>3, <3>1, <3>2, <3>3
  <2>5. /\ call' \in Calls /\ call'.item = call.item /\ call'.over_write = call.over_write
        /\ call'.pc = "unwrapped" /\ LogCall' = LogCall
    BY <1>19, <2>1, PushGoesOn
  <2>6. CallFits(ring', call')
    BY <1>19, <2>4, <2>5 DEF CallFits
  <2>7. [Log!LogNext]_(Log!logVars)
    BY <1>9, <1>19, <2>1, <2>2, <2>5
  <2> QED BY <1>2, <2>3, <2>6, <2>7 DEF laid
<1>20. CASE call # NoCall /\ Unfixed!Unwrap
  BY <1>1, <1>14, <1>20, <1>19 DEF Unfixed!Unwrap, CallFits
<1>21. CASE call # NoCall /\ Unfixed!Unwrapped
  BY <1>1, <1>14, <1>21, <1>19, <1>7, LogPadded, PushGoesOn, <1>10, <1>2, <1>3 DEF
     Unfixed!Unwrapped, CallFits, laid, Unseen
<1>22. CASE Unfixed!PushStep
  BY <1>15, <1>17, <1>18, <1>20, <1>21, <1>22 DEF Unfixed!PushStep
<1> QED BY <1>11, <1>12, <1>13, <1>22 DEF Unfixed!Next

\* The ring is empty at first.
LEMMA ByteInit ==
  ASSUME Unfixed!Init
  PROVE  ByteInv /\ LogOf(ring) = << >>
<1> DEFINE w == [k \in Nat |-> 0]
           buf == [k \in Unfixed!Bytes |-> 0]
<1>1. ring = [start |-> 0, end |-> 0, used_size |-> 0, item_num |-> 0, buf |-> buf] /\ call = NoCall
  BY DEF Unfixed!Init
<1>2. Layout(buf, w, 0) /\ w[0] = 0 /\ buf \in [Unfixed!Bytes -> Nat]
  BY SizeNumber DEF Layout
<1>3. 0 \in Unfixed!Bytes /\ Real(0) = 0
  BY SizeNumber, RealIs
<1> HIDE DEF buf
<1>4. Laid(ring, w)
  BY <1>1, <1>2, <1>3 DEF ByteRings, Laid
<1> HIDE DEF w
<1>5. LogOf(ring) = << >>
  BY <1>1 DEF LogOf
<1> QED BY <1>1, <1>4, <1>5 DEF ByteInv, CallFits

\* Of either ring; the other classes push nothing.
RingInv ==
  /\ kind = "unfixed" => ByteInv
  /\ kind = "fixed" => RInv
  /\ kind # "unfixed" /\ kind # "fixed" => call = NoCall

LEMMA RingsInit == Init => RingInv /\ Log!LogInit
<1> SUFFICES ASSUME Init PROVE RingInv /\ Log!LogInit
  OBVIOUS
<1>1. CASE kind = "unfixed" /\ Unfixed!Init
  BY <1>1, ByteInit DEF Unfixed!Init, Fronts, LogOf, RingInv, Log!LogInit
<1>2. CASE kind = "fixed" /\ Fixed!Init
  BY <1>2, RInit DEF Log!LogInit, Fronts, RingInv
<1>3. CASE kind # "unfixed" /\ kind # "fixed" /\ call = NoCall
  BY <1>3 DEF Fronts, Log!LogInit, RingInv
<1> QED BY <1>1, <1>2, <1>3 DEF Init, NoRing

LEMMA RingsNext ==
  ASSUME RingInv, [Next]_vars
  PROVE  RingInv' /\ [Log!LogNext]_(Log!logVars)
<1>1. kind' = kind
  BY DEF Next, RingNext, PoolNext, KeyNext, vars
<1>2. CASE kind = "fixed"
  BY <1>2, <1>1, FixedNext, FixedLogSteps DEF RingInv
<1>3. ASSUME UNCHANGED ringVars PROVE RingInv' /\ [Log!LogNext]_(Log!logVars)
  BY <1>1, <1>3, <1>2 DEF ringVars, Fronts, LogOf, Log!logVars, RingInv, ByteInv
<1>4. CASE kind = "unfixed" /\ Unfixed!Next
  BY <1>1, <1>4, ByteStep DEF RingInv
<1>5. CASE UNCHANGED vars
  BY <1>3, <1>5 DEF vars
<1>6. CASE PoolNext \/ KeyNext
  BY <1>3, <1>6 DEF PoolNext, KeyNext
<1>7. CASE RingNext
  BY <1>2, <1>4, <1>7 DEF RingNext
<1> QED BY <1>5, <1>6, <1>7 DEF Next

\* Both rings are logs of records, of values or of bytes (push, pop, front and
\* clear, fixed_ring_buf.h:19-65, unfixed_ring_buf.h:33-260): what was pushed
\* comes out whole and in order, a push that may not overwrite drops nothing,
\* and one that may is never refused and drops only the oldest.
THEOREM RingsAreLogs ==
  Spec => Log!LogInit /\ [][Log!LogNext]_(Log!logVars)
<1>1. Init => RingInv /\ Log!LogInit
  BY RingsInit
<1>2. RingInv /\ [Next]_vars => RingInv' /\ [Log!LogNext]_(Log!logVars)
  BY RingsNext
<1> QED BY <1>1, <1>2, PTL DEF Spec

\* Walking from record to record, the ring of bytes accounts for every one of
\* them, and no two records share any (find_start, pop and the two ways to write
\* an item, unfixed_ring_buf.h); in the ring of values back counts from the
\* newest as front does from the oldest (fixed_ring_buf.h:67-88).
THEOREM RingsAreExact == Spec => []RecordsTile
<1>1. Init => RingInv
  BY RingsInit
<1>2. RingInv /\ [Next]_vars => RingInv'
  BY RingsNext
<1>3. RingInv => RecordsTile
  <2> SUFFICES ASSUME RingInv PROVE RecordsTile
    OBVIOUS
  <2>1. CASE kind = "unfixed"
    <3>1. PICK v : Laid(ring, v)
      BY <2>1 DEF RingInv, ByteInv
    <3>2. Unfixed!RecordsTile
      BY <3>1, LaidTiles
    <3> QED BY <2>1, <3>2 DEF RecordsTile
  <2>2. CASE kind = "fixed"
    BY <2>2, BackIsFront DEF RingInv, RecordsTile
  <2>3. CASE kind # "unfixed" /\ kind # "fixed"
    BY <2>3 DEF RecordsTile
  <2> QED BY <2>1, <2>2, <2>3
<1> QED BY <1>1, <1>2, <1>3, PTL DEF Spec

------------------------------------------------------------------------------
(***************************************************************************)
(* Refusals.  A ring may be full although few of its bytes hold a record:  *)
(* the padding behind the newest one is used, and no record's.  It is only *)
(* there, though, while the push that put it there is under way.           *)
(***************************************************************************)
\* The newest record has no padding behind it, but for a byte too few for one.
Tight(r, v) ==
  r.item_num > 0 =>
    LET k == r.item_num - 1
    IN v[r.item_num] <= v[k] + 3 + r.buf[Real(v[k]) + 1]

\* Between the first place of a layout and the last there are its records.
LEMMA Between ==
  ASSUME NEW buf, NEW v, NEW n, Layout(buf, v, n), NEW y \in Int, v[0] <= y, y < v[n]
  PROVE  \E k \in Nat : k < n /\ v[k] <= y /\ y < v[k + 1]
<1> DEFINE S == {m \in Nat : m <= n /\ y < v[m] => \E k \in Nat : k < n /\ v[k] <= y /\ y < v[k + 1]}
<1>1. n \in Nat /\ v \in [Nat -> Int]
  BY DEF Layout
<1>2. 0 \in S
  BY <1>1
<1>3. ASSUME NEW m \in Nat, m \in S PROVE m + 1 \in S
  <2> SUFFICES ASSUME m + 1 <= n, y < v[m + 1]
               PROVE  \E k \in Nat : k < n /\ v[k] <= y /\ y < v[k + 1]
    OBVIOUS
  <2>1. m < n /\ m <= n /\ v[m] \in Int
    BY <1>1
  <2>2. CASE y < v[m]
    BY <1>3, <2>1, <2>2
  <2>3. CASE ~(y < v[m])
    BY <2>1, <2>3
  <2> QED BY <2>2, <2>3
<1> HIDE DEF S
<1>4. Nat \subseteq S
  BY <1>2, <1>3, SetInduction
<1>5. n \in S /\ n <= n
  BY <1>1, <1>4
<1> QED BY <1>5 DEF S

\* What a record occupies: its own bytes at least, and all up to the next
\* record but for a last byte of the ring behind the newest.
LEMMA OccupiedBytes ==
  ASSUME NEW v, Laid(ring, v), Tight(ring, v), NEW k \in Nat, k < ring.item_num
  PROVE  LET p == Real(v[k])
             c == v[k + 1] - Lap(v[k])
         IN /\ p \in Unfixed!Starts /\ p \in Unfixed!Occupied(p)
            /\ \A x \in Int : p <= x /\ x < c /\ x # size - 1 => x \in Unfixed!Occupied(p)
<1> DEFINE n == ring.item_num
           buf == ring.buf
           a == v[k]
           b == v[k + 1]
           p == Real(a)
           l == buf[p + 1]
           c == b - Lap(a)
           own == RecordBytes(buf, p)
           newest == Real(v[n - 1])
<1>1. n \in Nat /\ k < n /\ Layout(buf, v, n) /\ n - 1 \in Nat /\ n - 1 < n /\ k \in 0 .. (n - 1)
  BY DEF Laid, ByteRings
<1>2. /\ a \in Int /\ b \in Int /\ 0 <= a
      /\ p \in Nat /\ l \in Nat /\ p = a - Lap(a) /\ Lap(a) \in {0, size} /\ p + 2 + l <= c
  <2> HIDE DEF n
  <2> QED BY <1>1, BytesOfRecord DEF n
<1>3. c \in Int /\ c <= size /\ Spans(buf, p, c)
  <2>1. Fits(buf, a, b)
    BY <1>1 DEF Layout
  <2>2. c \in Int
    BY <1>2, SizeNumber
  <2> HIDE DEF a, b
  <2>3. c <= size
    BY <1>2, <2>1, FitsMoves
  <2> QED BY <2>1, <2>2, <2>3 DEF Fits
<1>4. Unfixed!NextStart(ring, p) = Real(b) /\ Unfixed!FindStart(ring)[n - 1] = newest
  <2>1. Unfixed!NextStart(ring, p) = Real(b)
    BY NextIs
  <2>2. n - 1 \in 0 .. n
    BY <1>1
  <2>3. Unfixed!FindStart(ring) = [i \in 0 .. n |-> Real(v[i])]
    BY FindStartIs
  <2> HIDE DEF n
  <2>4. Unfixed!FindStart(ring)[n - 1] = Real(v[n - 1])
    BY <2>2, <2>3
  <2> QED BY <2>1, <2>4
<1>5. Unfixed!RecordAt(p) = own /\ p \in Unfixed!Starts
  <2>1. Unfixed!RecordAt(p) = own /\ Unfixed!Starts = {Real(v[i]) : i \in 0 .. (n - 1)}
    BY StartsAre
  <2> HIDE DEF own, n
  <2> QED BY <1>1, <2>1
<1>6. own = p .. (p + 2 + l - 1)
  BY DEF RecordBytes
<1>7. Unfixed!Occupied(p) = IF Real(b) <= p /\ p # newest THEN p .. (size - 1) ELSE own
  BY <1>4, <1>5 DEF Unfixed!Occupied
<1>8. Real(b) = (IF c = size THEN 0 ELSE c)
  <2>1. b = c + Lap(a) /\ 0 <= c
    <3> HIDE DEF p, l
    <3> QED BY <1>2, <1>3, SizeNumber
  <2>2. b <= v[0] + size /\ v[0] \in Int /\ v[0] < size
    BY BytesOfRecord, <1>1 DEF Layout
  <2> HIDE DEF b, c, a
  <2>3. CASE Lap(a) = 0
    BY <1>3, <2>1, <2>3, Wraps
  <2>4. CASE Lap(a) = size
    BY <1>3, <2>1, <2>2, <2>4, SizeNumber DEF Real, Lap
  <2> QED BY <1>2, <2>3, <2>4
<1>9. \/ c = p + 2 + l \/ (c = size /\ p + 2 + l = size - 1)
      \/ (c = size /\ p + 2 + l <= size - 2)
  BY <1>3 DEF Spans
<1> HIDE DEF own, newest, p, l, c, b
<1>10. CASE k = n - 1
  <2>1. p = newest
    BY <1>10 DEF p, newest
  <2>2. Unfixed!Occupied(p) = p .. (p + 2 + l - 1)
    BY <1>6, <1>7, <2>1
  <2>3. c <= p + 3 + l
    <3>1. k + 1 = n
      BY <1>1, <1>10
    <3>2. b <= a + 3 + l
      BY <1>1, <1>10, <3>1 DEF Tight, b, l, p
    <3> HIDE DEF a
    <3> QED BY <1>2, <3>2, SizeNumber DEF c
  <2>4. ASSUME NEW x \in Int, p <= x, x < c, x # size - 1 PROVE x \in p .. (p + 2 + l - 1)
    BY <1>2, <1>3, <1>9, <2>3, <2>4, SizeNumber
  <2>5. p \in p .. (p + 2 + l - 1)
    BY <1>2
  <2> QED BY <1>5, <2>2, <2>4, <2>5 DEF p, c, b
<1>11. CASE k # n - 1
  <2>1. p # newest
    <3>1. k < n - 1
      BY <1>1, <1>11
    <3>2. RecordBytes(buf, Real(v[k])) \cap RecordBytes(buf, Real(v[n - 1])) = {}
      BY <1>1, <3>1, RecordsApart
    <3>3. Real(v[k]) \in RecordBytes(buf, Real(v[k]))
      BY <1>2, <1>6 DEF own, p
    <3> QED BY <3>2, <3>3 DEF p, newest
  <2>2. CASE c = size
    <3>1. Unfixed!Occupied(p) = p .. (size - 1)
      BY <1>2, <1>7, <1>8, <2>1, <2>2
    <3>2. p \in p .. (size - 1) /\ \A x \in Int : p <= x /\ x < size => x \in p .. (size - 1)
      BY <1>2, <2>2, SizeNumber
    <3> QED BY <1>5, <2>2, <3>1, <3>2 DEF p, c, b
  <2>3. CASE c # size
    <3>1. c = p + 2 + l
      BY <1>9, <2>3
    <3>2. Unfixed!Occupied(p) = p .. (p + 2 + l - 1)
      <4>1. ~(Real(b) <= p)
        BY <1>2, <1>8, <2>3, <3>1
      <4> QED BY <1>6, <1>7, <4>1
    <3>3. p \in p .. (p + 2 + l - 1) /\ \A x \in Int : p <= x /\ x < c => x \in p .. (p + 2 + l - 1)
      BY <1>2, <3>1
    <3> QED BY <1>5, <3>2, <3>3 DEF p, c, b
  <2> QED BY <2>2, <2>3
<1> QED BY <1>10, <1>11

\* Only the last byte of the ring may lie in use and belong to no record.
LEMMA UsedByte ==
  ASSUME NEW v, Laid(ring, v), Tight(ring, v), NEW y \in Int, v[0] <= y, y < v[ring.item_num],
         Real(y) # size - 1
  PROVE  \E q \in Unfixed!Starts : Real(y) \in Unfixed!Occupied(q)
<1> DEFINE n == ring.item_num
           x == Real(y)
<1>1. n \in Nat /\ Layout(ring.buf, v, n)
  BY DEF Laid, ByteRings
<1>2. PICK k \in Nat : k < n /\ v[k] <= y /\ y < v[k + 1]
  BY <1>1, Between
<1> DEFINE a == v[k]
           b == v[k + 1]
           m == Lap(a)
           q == Real(a)
           c == b - m
<1>3. /\ q \in Unfixed!Starts
      /\ \A z \in Int : q <= z /\ z < c /\ z # size - 1 => z \in Unfixed!Occupied(q)
  BY <1>2, OccupiedBytes
<1>4. a \in Int /\ b \in Int /\ 0 <= a /\ q = a - m /\ m \in {0, size}
  BY <1>2, BytesOfRecord
<1>5. c <= size /\ (m = 0 => a < size) /\ (m = size => a >= size) /\ a < 2 * size
  BY <1>1, <1>2, <1>4, FitsMoves, SizeNumber DEF Layout, Lap
<1>6. Real(y) = y - (IF y < size THEN 0 ELSE size)
  BY DEF Real, Lap
<1> HIDE DEF x, a, b, m, q
<1>7. Real(y) \in Int /\ q <= Real(y) /\ Real(y) < c
  BY <1>2, <1>4, <1>5, <1>6, SizeNumber DEF a, b
<1> QED BY <1>3, <1>7

\* When push_impl refuses, every run of bytes that is long enough for the record
\* has a byte of another.
LEMMA NoRoom ==
  ASSUME NEW v, Laid(ring, v), Tight(ring, v), NEW need \in Nat, need >= 2, Unfixed!need = need,
         \/ ring.used_size >= size
         \/ /\ ring.start <= ring.end /\ ring.used_size < size
            /\ ring.end + need > size /\ ring.start < need
         \/ ring.end < ring.start /\ ring.end + need > ring.start
  PROVE  ~Unfixed!HasRoom
<1> DEFINE n == ring.item_num
           y0 == v[n]
           s == ring.start
           e == ring.end
           u == ring.used_size
<1>1. /\ y0 \in Int /\ v[0] = s /\ s \in Nat /\ s < size /\ e \in Nat /\ e < size
      /\ u \in Nat /\ u <= size /\ u = y0 - s /\ n \in Nat
  BY Sides
<1>2. /\ n = 0 => s = 0
      /\ u = 0 => n = 0
      /\ n > 0 => s + 2 <= size
      /\ u < size /\ s <= e => y0 = e
      /\ e < s => y0 = size + e
  BY Sides
<1>3. SUFFICES ASSUME NEW p \in Unfixed!Bytes, p + need <= size,
                      \A q \in Unfixed!Starts : Unfixed!Occupied(q) \cap (p .. (p + need - 1)) = {}
               PROVE  FALSE
  BY DEF Unfixed!HasRoom
<1>4. p \in Nat /\ p <= size - 2 /\ p < size
  BY <1>3, SizeNumber DEF Unfixed!Bytes
<1>5. ASSUME NEW y \in Int, s <= y, y < y0, Real(y) # size - 1, Real(y) \in p .. (p + need - 1)
      PROVE  FALSE
  <2>1. PICK q \in Unfixed!Starts : Real(y) \in Unfixed!Occupied(q)
    BY <1>1, <1>5, UsedByte
  <2> QED BY <1>3, <1>5, <2>1
<1>6. p \in p .. (p + need - 1) /\ p # size - 1
  BY <1>4, SizeNumber
<1>7. Real(p) = p /\ Real(p + size) = p
  BY <1>4, SizeNumber DEF Real, Lap
<1>8. p + size \in Int /\ p \in Int
  BY <1>4, SizeNumber
<1> HIDE DEF n, y0, s, e, u
\* p itself, seen on this lap or on the next one
<1>9. ~(s <= p /\ p < y0)
  BY <1>5, <1>6, <1>7, <1>8
<1>10. ~(s <= p + size /\ p + size < y0)
  BY <1>5, <1>6, <1>7, <1>8
\* the oldest record
<1>11. ~(p < s /\ s <= p + need - 1)
  <2> SUFFICES ASSUME p < s, s <= p + need - 1 PROVE FALSE
    OBVIOUS
  <2>1. s # 0 /\ n # 0 /\ n > 0
    BY <1>1, <1>2, <1>4
  <2>2. s + 2 <= size /\ u # 0
    BY <1>2, <2>1
  <2>3. s < y0
    BY <1>1, <2>2
  <2>4. Real(s) = s
    BY <1>1, SizeNumber DEF Real, Lap
  <2>5. s \in p .. (p + need - 1) /\ s # size - 1 /\ s <= s /\ s \in Int
    BY <1>1, <1>4, <2>2, SizeNumber
  <2> QED BY <1>5, <2>3, <2>4, <2>5
<1>12. CASE u >= size
  BY <1>1, <1>12, SizeNumber, <1>4, <1>9, <1>10
<1>13. CASE s <= e /\ u < size /\ e + need > size /\ s < need
  BY <1>2, <1>13, <1>1, <1>3, <1>4, SizeNumber, <1>9, <1>11
<1>14. CASE e < s /\ e + need > s
  BY <1>2, <1>14, <1>1, <1>4, <1>9, SizeNumber, <1>10, <1>11
<1> QED BY <1>12, <1>13, <1>14 DEF s, e, u

\* A ring with no padding behind its newest record, and the pushes that leave
\* one there: one that overwrites, which is never refused, and one for which
\* there is room in front of start.
Tidy(r) == \E v : Laid(r, v) /\ Tight(r, v)

FrontIsFree ==
  call # NoCall /\ call.pc = "impl" /\ ring.end = 0 /\ 2 + Len(call.item) <= ring.start

RoomInv ==
  ByteInv /\ (Tidy(ring) \/ (call # NoCall /\ call.over_write) \/ FrontIsFree)

\* A pop keeps a ring tidy, and storing a record makes it so.
LEMMA TidyPopped ==
  ASSUME NEW r, Tidy(r), r.used_size # 0
  PROVE  Tidy(Unfixed!Popped(r))
<1> DEFINE s == Unfixed!Popped(r)
           n == r.item_num
<1>1. PICK v : Laid(r, v) /\ Tight(r, v)
  BY DEF Tidy
<1>2. /\ s.item_num = n - 1 /\ s.buf = r.buf /\ n > 0 /\ n \in Nat /\ Layout(r.buf, v, n)
      /\ n > 1 => Laid(s, Following(v))
      /\ \E w : Laid(s, w)
  <2>1. n \in Nat /\ Layout(r.buf, v, n)
    BY <1>1 DEF Laid, ByteRings
  <2> QED BY <1>1, <2>1, PoppedLaid
<1>3. ASSUME s.item_num = 0, NEW w PROVE Tight(s, w)
  BY <1>3 DEF Tight
<1>4. CASE n = 1
  BY <1>2, <1>4, <1>3 DEF Tidy
<1>5. CASE n > 1
  <2> DEFINE w == Following(v)
             m == Lap(v[1])
             l == r.buf[Real(v[n - 1]) + 1]
  <2>1. /\ v \in [Nat -> Int] /\ 1 \in Nat /\ 1 <= n /\ n - 1 \in Nat /\ n - 2 \in Nat /\ n - 1 <= n
        /\ n - 1 > 0 /\ (n - 1) - 1 = n - 2 /\ (n - 2) + 1 = n - 1 /\ (n - 1) + 1 = n
    BY <1>2, <1>5 DEF Layout
  <2>2. v[1] \in Int /\ 0 <= v[1] /\ v[n - 1] \in Int /\ v[n - 1] < 2 * size /\ v[n] \in Int
    BY <1>2, <2>1, LayoutIn
  <2>3. v[1] <= v[n - 1]
    <3>1. \A i, j \in Nat : i < j /\ j <= n => v[i] < v[j]
      BY <1>2, Climbs
    <3>2. n - 1 = 1 \/ 1 < n - 1
      BY <2>1
    <3> QED BY <2>1, <2>2, <3>1, <3>2
  <2>4. w[n - 1] = v[n] - m /\ w[n - 2] = v[n - 1] - m
    BY <2>1 DEF Following
  <2>5. Real(w[n - 2]) = Real(v[n - 1])
    BY <2>2, <2>3, <2>4, Shifts
  <2>6. v[n] <= v[n - 1] + 3 + l
    BY <1>1, <1>2 DEF Tight
  <2>7. l \in Nat
    BY <2>1, <1>1, BytesOfRecord
  <2>8. m \in Int
    BY SizeNumber DEF Lap
  <2>9. w[n - 1] <= w[n - 2] + 3 + l
    <3> DEFINE vn == v[n]
               vk == v[n - 1]
    <3> HIDE DEF m, l, w, vn, vk
    <3>1. w[n - 1] = vn - m /\ w[n - 2] = vk - m /\ vn <= vk + 3 + l /\ vn \in Int /\ vk \in Int
      BY <2>2, <2>4, <2>6 DEF vn, vk
    <3> QED BY <2>7, <2>8, <3>1
  <2> HIDE DEF w, s
  <2>10. Tight(s, w)
    BY <1>2, <2>1, <2>5, <2>9 DEF Tight, l
  <2>11. Laid(s, w)
    BY <1>2, <1>5 DEF w
  <2> QED BY <2>10, <2>11 DEF Tidy, s
<1> QED BY <1>2, <1>4, <1>5

LEMMA TidyWritten ==
  ASSUME NEW r, NEW v, Laid(r, v), NEW item \in Seq(Nat), NEW s,
         \E x \in Int : Reaches(r, v, item, x) /\ s = Extended(r, v, item, x)
  PROVE  Tidy(s) /\ s.item_num = r.item_num + 1
<1>1. PICK x \in Int : Reaches(r, v, item, x) /\ s = Extended(r, v, item, x)
  OBVIOUS
<1> DEFINE n == r.item_num
           w == [v EXCEPT ![n + 1] = x]
           e == r.end
           l == Len(item)
           y0 == v[n]
           m == Lap(y0)
           q == Unfixed!Stored(r, item)
           b == q.buf
<1>2. Laid(s, w) /\ s.item_num = n + 1
  BY <1>1, AppendLaid
<1>3. n \in Nat /\ r \in ByteRings /\ v \in [Nat -> Int] /\ e = Real(y0) /\ e = y0 - m
  BY DEF Laid, ByteRings, Layout, Real
<1>4. l \in Nat /\ y0 \in Int /\ m \in Int
  BY <1>3, SizeNumber DEF Lap
<1>5. /\ \/ x = y0 + 2 + l /\ x - m <= size
         \/ x - m = size /\ e + 2 + l = size - 1
  BY <1>1 DEF Reaches
<1>6. e + 2 + l <= size /\ x <= y0 + 3 + l
  <2> HIDE DEF e, l, y0, m
  <2> QED BY <1>3, <1>4, <1>5, SizeNumber
<1>7. b[e + 1] = l
  BY <1>3, <1>6, StoredBytes, Zenon
<1>8. s.buf = b
  <2> DEFINE p == Real(x)
             d == x - v[0]
             st == r.start
             u == r.used_size + (2 + Len(item))
  <2>1. q = [start |-> st, end |-> e, used_size |-> u, item_num |-> n + 1, buf |-> b]
    BY <1>3, <1>6, StoredIs
  <2>2. s = [q EXCEPT !.end = p, !.used_size = d]
    BY <1>1 DEF Extended
  <2> HIDE DEF q, b, p, d, st, u, e, n
  <2>3. s.buf = b
    BY ONLY <2>1, <2>2
  <2> QED BY <2>3
<1>9. w[n + 1] = x /\ w[n] = y0 /\ (n + 1) - 1 = n
  <2>1. n \in Nat /\ n + 1 \in Nat /\ n # n + 1 /\ (n + 1) - 1 = n
    <3>1. n \in Nat
      BY <1>3
    <3> HIDE DEF n
    <3> QED BY <3>1
  <2> QED BY <1>3, <2>1
<1> HIDE DEF w, b
<1>10. Tight(s, w)
  BY <1>2, <1>3, <1>6, <1>7, <1>8, <1>9 DEF Tight
<1> QED BY <1>2, <1>10 DEF Tidy

LEMMA TidyStored ==
  ASSUME NEW r, \E v : Laid(r, v), NEW item \in Seq(Nat), r.used_size < size
  PROVE  /\ r.start <= r.end /\ r.end + 2 + Len(item) <= size =>
              LET s == Unfixed!WriteItem(r, item) IN Tidy(s) /\ s.item_num = r.item_num + 1
         /\ r.end < r.start /\ r.end + 2 + Len(item) <= r.start =>
              LET s == Unfixed!WriteItemNoWrap(r, item) IN Tidy(s) /\ s.item_num = r.item_num + 1
<1>1. PICK v : Laid(r, v)
  OBVIOUS
<1>2. r.start <= r.end /\ r.end + 2 + Len(item) <= size =>
        \E x \in Int : Reaches(r, v, item, x) /\ Unfixed!WriteItem(r, item) = Extended(r, v, item, x)
  BY <1>1, WriteItemIs
<1>3. r.end < r.start /\ r.end + 2 + Len(item) <= r.start =>
        \E x \in Int : Reaches(r, v, item, x) /\ Unfixed!WriteItemNoWrap(r, item) = Extended(r, v, item, x)
  BY <1>1, WriteBetweenIs
<1> QED BY <1>1, <1>2, <1>3, TidyWritten

\* A push that may not overwrite and pads the end of the ring does store its record.
LEMMA RoomStep ==
  ASSUME kind = "unfixed", kind' = "unfixed", RoomInv, Unfixed!Next
  PROVE  RoomInv' /\ (Unfixed!Refuses => ~Unfixed!HasRoom)
<1> DEFINE Goal == RoomInv' /\ (Unfixed!Refuses => ~Unfixed!HasRoom)
<1>1. ByteInv /\ ByteInv'
  BY ByteStep DEF RoomInv
<1>2. ASSUME Tidy(ring') \/ (call' # NoCall /\ call'.over_write) \/ FrontIsFree' PROVE RoomInv'
  BY <1>1, <1>2 DEF RoomInv
<1>3. /\ ring.used_size \in Nat /\ ring.start \in Nat /\ ring.end \in Nat /\ ring.item_num \in Nat
      /\ ring.used_size <= size /\ ring.start < size /\ ring.end < size
      /\ ring.item_num = 0 => ring.end = 0
      /\ ring.end < ring.start => ring.used_size = size + ring.end - ring.start
      /\ \E v : Laid(ring, v)
  <2>1. PICK v : Laid(ring, v)
    BY <1>1 DEF ByteInv
  <2>2. /\ ring.used_size \in Nat /\ ring.start \in Nat /\ ring.end \in Nat /\ ring.item_num \in Nat
        /\ ring.used_size <= size /\ ring.start < size /\ ring.end < size
        /\ ring.item_num = 0 => ring.end = 0
    BY <2>1, Sides
  <2>3. /\ ring.used_size = v[ring.item_num] - ring.start
        /\ ring.end < ring.start => v[ring.item_num] = size + ring.end
    BY <2>1, Sides
  <2>4. ring.end < ring.start => ring.used_size = size + ring.end - ring.start
    BY <2>2, <2>3, SizeNumber
  <2> QED BY <2>1, <2>2, <2>4, Zenon
<1>4. ASSUME call = NoCall PROVE Tidy(ring) /\ ~Unfixed!Refuses
  BY <1>4 DEF RoomInv, FrontIsFree, Unfixed!Refuses
<1>5. ASSUME call' # NoCall PROVE ~Unfixed!Refuses
  BY <1>5 DEF Unfixed!Refuses
<1> SUFFICES Goal
  OBVIOUS
<1> HIDE DEF Goal
<1>6. ASSUME NEW item \in Payloads, NEW over_write \in BOOLEAN, Unfixed!Push(item, over_write)
      PROVE  Goal
  BY <1>6, <1>2, <1>4 DEF Unfixed!Push, Goal
<1>7. CASE Unfixed!Pop
  BY <1>7, <1>4, TidyPopped, <1>2 DEF Unfixed!Pop, Unfixed!IsEmpty, Goal
<1>8. CASE Unfixed!Clear
  <2>1. call = NoCall /\ ring' = Unfixed!Cleared(ring)
    BY <1>8 DEF Unfixed!Clear
  <2>2. ring'.item_num = 0
    BY <1>1, <2>1 DEF ByteInv, Laid, Unfixed!Cleared, ByteRings
  <2>3. PICK v : Laid(ring', v)
    BY <1>1 DEF ByteInv
  <2>4. Tight(ring', v)
    BY <2>2 DEF Tight
  <2> QED BY <1>2, <1>4, <2>1, <2>3, <2>4 DEF Goal, Tidy
<1>9. CASE Unfixed!PushStep
  <2> DEFINE need == 2 + Len(call.item)
  <2>1. call # NoCall /\ call \in Calls /\ need <= size
        /\ (call.pc # "impl" => call.over_write)
    BY <1>1, <1>9 DEF Unfixed!PushStep, ByteInv, CallFits
  <2>2. call.item \in Seq(Nat) /\ call.over_write \in BOOLEAN
    BY <2>1, CallIsCall
  <2>3. need \in Nat /\ need >= 2 /\ Unfixed!need = need
    BY <2>2 DEF Unfixed!need, Unfixed!HEADER
  <2>4. ring.end + need = ring.end + 2 + Len(call.item)
    BY <1>3, <2>2
  <2>5. ASSUME Tidy(ring'), ring'.item_num = ring.item_num + 1 PROVE Goal
    BY <1>3, <2>5, <1>2 DEF Goal, Unfixed!Refuses
  <2>6. ASSUME NEW pc \in {"impl", "front", "between", "unwrap", "unwrapped"}, Unfixed!Goto(pc)
        PROVE  /\ call' # NoCall /\ call'.item = call.item /\ call'.over_write = call.over_write
               /\ call'.pc = pc
    BY <2>1, <2>6, PushGoesOn, CallIsCall
  <2>7. ASSUME call.over_write, NEW pc \in {"impl", "front", "between", "unwrap", "unwrapped"}, Unfixed!Goto(pc)
        PROVE  Goal
    BY <2>6, <2>7, <1>2, <1>5 DEF Goal
\* Nothing is stored and nothing moves: the ring is what it was, and full or in
\* the way.
  <2>8. ASSUME ~call.over_write, ring' = ring,
               \/ ring.used_size >= size
               \/ /\ ring.start <= ring.end /\ ring.used_size < size
                  /\ ring.end + need > size /\ ring.start < need
               \/ ring.end < ring.start /\ ring.end + need > ring.start
        PROVE  Goal
    <3>1. ~FrontIsFree
      <4> SUFFICES ASSUME FrontIsFree PROVE FALSE
        OBVIOUS
      <4>1. ring.end = 0 /\ need <= ring.start
        BY DEF FrontIsFree
      <4> HIDE DEF need
      <4> QED BY <1>3, <2>3, <2>8, <4>1, SizeNumber
    <3>2. PICK v : Laid(ring, v) /\ Tight(ring, v)
      BY <2>8, <3>1 DEF RoomInv, Tidy
    <3> HIDE DEF need
    <3>3. ~Unfixed!HasRoom
      BY <2>3, <2>8, <3>2, NoRoom
    <3>4. Tidy(ring')
      BY <2>8, <3>2 DEF Tidy
    <3> QED BY <1>2, <3>3, <3>4 DEF Goal
  <2>9. CASE Unfixed!WhenFull
    BY <2>9, <2>8, <1>2, <1>5, <2>1 DEF Unfixed!WhenFull, Unfixed!IsFull, Goal
  <2>10. ASSUME ~Unfixed!IsFull(ring) PROVE ring.used_size < size
    BY <1>3, <2>10, SizeNumber DEF Unfixed!IsFull
  <2>11. CASE ~Unfixed!IsFull(ring) /\ Unfixed!PlaceBehind /\ call.pc = "impl"
    <3>1. ring.end >= ring.start /\ ring.start <= ring.end /\ ring.used_size < size
      BY <1>3, <2>10, <2>11 DEF Unfixed!PlaceBehind
    <3>2. Unfixed!FitsInFront <=> need <= ring.start
      BY <1>3, <2>3 DEF Unfixed!FitsInFront
    <3>3. CASE ring.end + need <= size /\ ring' = Unfixed!WriteItem(ring, call.item)
      BY <1>3, <2>2, <2>4, <3>1, <3>3, TidyStored, <2>5
    <3>4. CASE ring.end + need > size /\ ~call.over_write /\ ~Unfixed!FitsInFront /\ UNCHANGED ring
      BY <1>3, <2>3, <3>2, <3>4, <2>8, <3>1
    <3>5. CASE /\ ring.end + need > size /\ (call.over_write \/ Unfixed!FitsInFront)
               /\ ring' = Unfixed!Padded(ring)
               /\ Unfixed!Goto(IF call.over_write THEN "front" ELSE "impl")
      <4>1. CASE call.over_write
        BY <3>5, <4>1, <2>7
      <4>2. CASE ~call.over_write
        <5>1. Unfixed!Goto("impl") /\ need <= ring.start
          BY <3>2, <3>5, <4>2
        <5>2. call' # NoCall /\ call'.item = call.item /\ call'.pc = "impl"
          BY <2>6, <5>1
        <5>3. ring'.start = ring.start /\ ring'.end = 0
          <6>1. ring.item_num > 0
            BY <2>1, <2>3, <3>5, SizeNumber, <1>3
          <6> QED BY <1>3, <3>1, <3>5, <6>1, PaddedLaid
        <5>4. FrontIsFree'
          BY <5>1, <5>2, <5>3 DEF FrontIsFree
        <5> QED BY <1>2, <1>5, <5>2, <5>4 DEF Goal
      <4> QED BY <4>1, <4>2
    <3> QED BY <2>3, <2>11, <3>3, <3>4, <3>5, Zenon DEF Unfixed!PlaceBehind
  <2>12. CASE ~Unfixed!IsFull(ring) /\ Unfixed!PlaceBetween
    <3>1. ring.end < ring.start /\ ring.used_size < size
      BY <2>10, <2>12 DEF Unfixed!PlaceBetween
    <3>2. Unfixed!FitsBetween <=> ring.end + need <= ring.start
      BY <2>3 DEF Unfixed!FitsBetween
    <3>3. CASE Unfixed!FitsBetween /\ ring' = Unfixed!WriteItemNoWrap(ring, call.item)
      BY <1>3, <2>2, <2>4, <3>1, <3>2, <3>3, TidyStored, <2>5
    <3>4. CASE ~Unfixed!FitsBetween /\ ~call.over_write /\ UNCHANGED ring
      BY <1>3, <2>3, <3>2, <3>4, <2>8, <3>1
    <3>5. CASE call.over_write /\ Unfixed!Goto(IF ring.end + need <= size THEN "between" ELSE "unwrap")
      <4> DEFINE pc == IF ring.end + need <= size THEN "between" ELSE "unwrap"
      <4>1. Unfixed!Goto(pc) /\ pc \in {"impl", "front", "between", "unwrap", "unwrapped"}
        BY <3>5
      <4> HIDE DEF pc
      <4> QED BY <2>7, <3>5, <4>1
    <3> QED BY <2>3, <2>12, <3>3, <3>4, <3>5, Zenon DEF Unfixed!PlaceBetween
\* The loops only make room for a push that overwrites.
  <2>13. ASSUME call.over_write, NEW pc \in {"impl", "front", "between", "unwrap", "unwrapped"},
                Unfixed!PopsThen(pc) \/ Unfixed!LeavesFor(pc)
         PROVE  Goal
    BY <2>7, <2>13 DEF Unfixed!PopsThen, Unfixed!LeavesFor
  <2>14. CASE Unfixed!Activation
    BY <2>9, <2>11, <2>12, <2>14 DEF Unfixed!Activation
  <2>15. CASE Unfixed!MakeFrontRoom
    BY <2>15, <2>1, <2>13 DEF Unfixed!MakeFrontRoom
  <2>16. CASE Unfixed!MakeRoomBetween
    BY <2>16, <2>1, <2>13 DEF Unfixed!MakeRoomBetween
  <2>17. CASE Unfixed!Unwrap
    BY <2>1, <2>17, <2>13 DEF Unfixed!Unwrap
  <2>18. CASE Unfixed!Unwrapped
    BY <2>18, <2>1, <2>7, <2>13 DEF Unfixed!Unwrapped
  <2> QED BY <1>9, <2>14, <2>15, <2>16, <2>17, <2>18 DEF Unfixed!PushStep
<1> QED BY <1>6, <1>7, <1>8, <1>9 DEF Unfixed!Next

\* A push that returns false without overwriting left no room unused: no run of
\* bytes long enough for the record was free, at whichever end of the ring
\* (push_impl, unfixed_ring_buf.h:122-198).
THEOREM RefusalsAreRight == Spec => RefusedOnlyWhenNoRoom
<1> DEFINE I == kind = "unfixed" => RoomInv
           A == kind = "unfixed" /\ Unfixed!Refuses => ~Unfixed!HasRoom
<1>1. Init => I
  <2> SUFFICES ASSUME Init, kind = "unfixed" PROVE RoomInv
    OBVIOUS
  <2>1. Unfixed!Init
    BY DEF Init
  <2>2. ByteInv
    BY <2>1, ByteInit
  <2>3. PICK v : Laid(ring, v)
    BY <2>2 DEF ByteInv
  <2>4. ring.item_num = 0
    BY <2>1 DEF Unfixed!Init
  <2>5. Tight(ring, v)
    BY <2>4 DEF Tight
  <2> QED BY <2>2, <2>3, <2>5 DEF RoomInv, Tidy
<1>2. I /\ [Next]_vars => I' /\ [A]_vars
  <2> SUFFICES ASSUME I, [Next]_vars PROVE I' /\ [A]_vars
    OBVIOUS
  <2>1. kind' = kind
    BY DEF Next, RingNext, PoolNext, KeyNext, vars
  <2>2. CASE kind # "unfixed"
    BY <2>1, <2>2
  <2>3. CASE kind = "unfixed" /\ Unfixed!Next
    BY <2>1, <2>3, RoomStep
  <2>4. CASE UNCHANGED vars
    BY <2>4 DEF vars, ringVars, RoomInv, ByteInv, FrontIsFree
  <2> QED BY <2>2, <2>3, <2>4 DEF Next, RingNext, PoolNext, KeyNext
<1> HIDE DEF I, A
<1>3. Spec => [][A]_vars
  BY <1>1, <1>2, PTL DEF Spec
<1> QED BY <1>3 DEF A, RefusedOnlyWhenNoRoom

------------------------------------------------------------------------------
(***************************************************************************)
(* A list of n cells is written as a function a that has the k-th cell,    *)
(* oldest first, at k, and 0, which is where a chain ends, everywhere else.*)
(***************************************************************************)
Lists(a, n, m) ==
  /\ n \in Nat /\ a \in [Int -> 0 .. m]
  /\ \A k \in Int : a[k] = 0 <=> k \notin 1 .. n
  /\ \A j, k \in 1 .. n : a[j] = a[k] => j = k

NoCells == [k \in Int |-> 0]
With(a, n, i) == [k \in Int |-> IF k = n + 1 THEN i ELSE a[k]]
Without(a, o) == [k \in Int |-> IF k < o THEN a[k] ELSE a[k + 1]]
Members(a, n) == {a[k] : k \in 1 .. n}
Backwards(a, n) == [k \in 1 .. n |-> a[n + 1 - k]]

\* A chain of links runs through the cells of a list, newest first.
Chain(next, first, a, n) == first = a[n] /\ \A k \in 1 .. n : next[a[k]] = a[k - 1]

\* The cells of a list are linked in a ring through link 0, both ways.
Ring(prev, next, a, n) ==
  \A k \in 0 .. n : next[a[k + 1]] = a[k] /\ prev[a[k]] = a[k + 1]

------------------------------------------------------------------------------
\* The steps of a walk.
WalkAt(next, first, bound) ==
  LET at[n \in 0 .. bound] ==
        IF n = 0 THEN first
        ELSE LET p == at[n - 1] IN IF p = 0 THEN 0 ELSE next[p]
  IN at

\* A walk is what its steps meet, up to the end of the chain.
LEMMA WalkIs ==
  ASSUME NEW next, NEW first
  PROVE  LET bound == Cardinality(DOMAIN next)
             at == WalkAt(next, first, bound)
             len == Cardinality({n \in 0 .. (bound - 1) : at[n] # 0})
         IN Walk(next, first) = [k \in 1 .. len |-> at[k - 1]]
  BY Zenon DEF Walk, WalkAt

\* A walk along a chain is at the end of the list at first, and then goes
\* backwards.
LEMMA WalkAlongChain ==
  ASSUME NEW next, NEW first, NEW a, NEW n, NEW m, Lists(a, n, m), Chain(next, first, a, n),
         NEW bound \in Nat
  PROVE  \A k \in 0 .. bound : WalkAt(next, first, bound)[k] = a[n - k]
<1> DEFINE f == [k \in 0 .. bound |-> a[n - k]]
           at == WalkAt(next, first, bound)
<1> USE DEF Lists, Chain
<1>1. ASSUME NEW k \in 0 .. bound
      PROVE  f[k] = IF k = 0 THEN first ELSE IF f[k - 1] = 0 THEN 0 ELSE next[f[k - 1]]
  <2>1. CASE k = 0
    BY <2>1
  <2>2. CASE k # 0
    <3>1. f[k] = a[n - k] /\ f[k - 1] = a[n - k + 1] /\ (n - k + 1) - 1 = n - k
      BY <2>2
    <3> HIDE DEF f
    <3>2. CASE n - k + 1 \in 1 .. n
      BY <2>2, <3>1, <3>2
    <3>3. CASE n - k + 1 \notin 1 .. n
      BY <2>2, <3>1, <3>3
    <3> QED BY <3>2, <3>3
  <2> QED BY <2>1, <2>2
<1>2. f = [k \in 0 .. bound |-> f[k]]
  OBVIOUS
<1>3. \A k \in 0 .. bound : f[k] = a[n - k]
  OBVIOUS
<1> HIDE DEF f
<1>4. f = [k \in 0 .. bound |->
             IF k = 0 THEN first ELSE IF f[k - 1] = 0 THEN 0 ELSE next[f[k - 1]]]
  BY <1>1, <1>2
<1>5. at = [k \in 0 .. bound |->
              IF k = 0 THEN first ELSE IF at[k - 1] = 0 THEN 0 ELSE next[at[k - 1]]]
  BY <1>4, Zenon DEF WalkAt
<1> HIDE DEF at
<1>9. \A k \in 0 .. bound : at[k] = IF k = 0 THEN first ELSE IF at[k - 1] = 0 THEN 0 ELSE next[at[k - 1]]
  <2> DEFINE e(k) == IF k = 0 THEN first ELSE IF at[k - 1] = 0 THEN 0 ELSE next[at[k - 1]]
  <2> HIDE DEF e
  <2>1. at = [k \in 0 .. bound |-> e(k)]
    BY <1>5 DEF e
  <2>2. \A k \in 0 .. bound : at[k] = e(k)
    BY <2>1
  <2> QED BY <2>2 DEF e
<1> DEFINE S == {k \in Nat : k <= bound => at[k] = f[k]}
<1>6. 0 \in S
  BY <1>1, <1>5
<1>7. ASSUME NEW k \in Nat, k \in S PROVE k + 1 \in S
  <2> SUFFICES ASSUME k + 1 <= bound PROVE at[k + 1] = f[k + 1]
    OBVIOUS
  <2>1. k + 1 \in 0 .. bound /\ k + 1 # 0 /\ (k + 1) - 1 = k /\ at[k] = f[k]
    BY <1>7
  <2> HIDE DEF S
  <2>2. f[k + 1] = IF f[k] = 0 THEN 0 ELSE next[f[k]]
    BY <1>1, <2>1
  <2>3. at[k + 1] = IF at[k] = 0 THEN 0 ELSE next[at[k]]
    BY <1>9, <2>1
  <2> QED BY <2>1, <2>2, <2>3
<1> HIDE DEF S
<1>8. Nat \subseteq S
  BY <1>6, <1>7, SetInduction
<1> QED BY <1>3, <1>8 DEF S, at

\* A walk along a chain meets the cells of its list, newest first.
LEMMA ChainIsWalk ==
  ASSUME NEW next, NEW first, NEW a, NEW n, NEW m, Lists(a, n, m), Chain(next, first, a, n),
         IsFiniteSet(DOMAIN next), Members(a, n) \subseteq DOMAIN next
  PROVE  Walk(next, first) = Backwards(a, n)
<1> DEFINE bound == Cardinality(DOMAIN next)
           at == WalkAt(next, first, bound)
           len == Cardinality({k \in 0 .. (bound - 1) : at[k] # 0})
<1>1. bound \in Nat /\ n \in Nat
  BY FS_CardinalityType DEF Lists
<1> HIDE DEF at, bound, len
<1>2. n <= bound
  <2>1. IsFiniteSet(1 .. n) /\ Cardinality(1 .. n) = n
    BY <1>1, FS_Interval
  <2>2. [k \in 1 .. n |-> a[k]] \in Injection(1 .. n, DOMAIN next)
    BY DEF Injection, IsInjective, Lists, Members
  <2> QED BY <2>1, <2>2, FS_Injection DEF bound
<1>3. \A k \in 0 .. bound : at[k] = a[n - k]
  BY <1>1, WalkAlongChain DEF at
<1>4. {k \in 0 .. (bound - 1) : at[k] # 0} = 0 .. (n - 1)
  BY <1>1, <1>2, <1>3 DEF Lists
<1>5. len = n
  <2>1. len = Cardinality(0 .. (n - 1))
    BY <1>4 DEF len
  <2>2. 0 \in Int /\ n - 1 \in Int
    BY <1>1
  <2>3. Cardinality(0 .. (n - 1)) = IF 0 > n - 1 THEN 0 ELSE (n - 1) - 0 + 1
    BY <2>2, FS_Interval, Zenon
  <2> QED BY <1>1, <2>1, <2>3
<1>6. Walk(next, first) = [k \in 1 .. len |-> at[k - 1]]
  BY WalkIs DEF at, bound, len
<1>7. \A k \in 1 .. n : at[k - 1] = a[n + 1 - k]
  BY <1>1, <1>2, <1>3
<1> QED BY <1>5, <1>6, <1>7 DEF Backwards

\* The walks of a pool are walks.
LEMMA PoolWalks ==
  ASSUME NEW next, NEW first
  PROVE  Pools!Walk(next, first) = Walk(next, first)
<1>1. LET bound == Pools!Cardinality(DOMAIN next)
          at == WalkAt(next, first, bound)
          len == Pools!Cardinality({n \in 0 .. (bound - 1) : at[n] # 0})
      IN Pools!Walk(next, first) = [k \in 1 .. len |-> at[k - 1]]
  BY Zenon DEF Pools!Walk, WalkAt
<1>2. \A S : Pools!Cardinality(S) = Cardinality(S)
  BY Zenon DEF Cardinality, Pools!Cardinality
<1> QED BY <1>1, <1>2, WalkIs

------------------------------------------------------------------------------
\* A list with one cell more, and with one cell less.
LEMMA WithLists ==
  ASSUME NEW m \in Nat, NEW n, NEW a, Lists(a, n, m), NEW i \in 1 .. m, i \notin Members(a, n)
  PROVE  /\ Lists(With(a, n, i), n + 1, m)
         /\ Members(With(a, n, i), n + 1) = Members(a, n) \cup {i}
<1> USE DEF Lists, Members
<1>1. Lists(With(a, n, i), n + 1, m)
  BY DEF With
<1>2. \A k \in 1 .. (n + 1) : With(a, n, i)[k] = IF k = n + 1 THEN i ELSE a[k]
  BY DEF With
<1>3. n + 1 \in 1 .. (n + 1) /\ \A k \in 1 .. n : k \in 1 .. (n + 1) /\ k # n + 1
  OBVIOUS
<1> QED BY <1>1, <1>2, <1>3

LEMMA WithoutLists ==
  ASSUME NEW m \in Nat, NEW n, NEW a, Lists(a, n, m), NEW o \in 1 .. n
  PROVE  /\ Lists(Without(a, o), n - 1, m)
         /\ Members(Without(a, o), n - 1) = Members(a, n) \ {a[o]}
<1> DEFINE w == Without(a, o)
<1>1. n \in Nat /\ w \in [Int -> 0 .. m] /\ n - 1 \in Nat
  BY DEF Without, Lists
<1>2. \A k \in Int : w[k] = IF k < o THEN a[k] ELSE a[k + 1]
  BY DEF Without
<1> HIDE DEF w
<1> USE DEF Lists
<1>3. ASSUME NEW j \in 1 .. (n - 1), NEW k \in 1 .. (n - 1), w[j] = w[k]
      PROVE  j = k
  BY <1>2, <1>3
<1>4. ASSUME NEW k \in Int PROVE w[k] = 0 <=> k \notin 1 .. (n - 1)
  BY <1>2
<1>5. Lists(w, n - 1, m)
  BY <1>1, <1>3, <1>4
<1>6. ASSUME NEW k \in 1 .. (n - 1) PROVE w[k] \in Members(a, n) \ {a[o]}
  BY <1>2 DEF Members
<1>7. ASSUME NEW k \in 1 .. n, k # o PROVE \E j \in 1 .. (n - 1) : w[j] = a[k]
  <2>1. CASE k < o
    BY <1>2, <2>1
  <2>2. CASE k > o
    <3>1. k - 1 \in 1 .. (n - 1) /\ w[k - 1] = a[k]
      BY <1>2, <2>2
    <3> QED BY <3>1
  <2> QED BY <1>7, <2>1, <2>2
<1>8. Members(w, n - 1) = Members(a, n) \ {a[o]}
  BY <1>6, <1>7 DEF Members
<1> QED BY <1>5, <1>8 DEF w

\* A chain or a ring does not depend on the links of cells that are not in it.
LEMMA ChainApart ==
  ASSUME NEW a, NEW n, NEW next, NEW first, NEW next2, Chain(next, first, a, n),
         \A x \in Members(a, n) : next2[x] = next[x]
  PROVE  Chain(next2, first, a, n)
  BY DEF Chain, Members

LEMMA RingApart ==
  ASSUME NEW m \in Nat, NEW a, NEW n, Lists(a, n, m),
         NEW prev, NEW next, NEW prev2, NEW next2, Ring(prev, next, a, n),
         \A x \in Members(a, n) \cup {0} : next2[x] = next[x] /\ prev2[x] = prev[x]
  PROVE  Ring(prev2, next2, a, n)
  BY DEF Ring, Members, Lists

\* A chain gets a cell in front of its first one, and loses its first one.
LEMMA ChainWith ==
  ASSUME NEW m \in Nat, NEW a, NEW n, Lists(a, n, m), NEW i \in 1 .. m, i \notin Members(a, n),
         NEW next, NEW first, NEW next2, Chain(next, first, a, n),
         \A x \in Members(a, n) : next2[x] = next[x],
         next2[i] = first
  PROVE  Chain(next2, i, With(a, n, i), n + 1)
  BY DEF Chain, Members, Lists, With

LEMMA ChainWithout ==
  ASSUME NEW m \in Nat, NEW a, NEW n, Lists(a, n, m), n # 0,
         NEW next, NEW first, Chain(next, first, a, n)
  PROVE  Chain(next, next[first], Without(a, n), n - 1)
  BY DEF Chain, Lists, Without

\* The stores of alloc put a cell into the ring, behind link 0.
SplicedIn(prev, next, prev2, next2, i, m) ==
  \A x \in 0 .. m :
    /\ next2[x] = IF x = 0 THEN i ELSE IF x = i THEN next[0] ELSE next[x]
    /\ prev2[x] = IF x = next[0] THEN i ELSE IF x = i THEN 0 ELSE prev[x]

LEMMA RingWith ==
  ASSUME NEW m \in Nat, NEW n, NEW a, NEW i \in 1 .. m,
         NEW prev, NEW next, NEW prev2, NEW next2,
         Lists(a, n, m), Ring(prev, next, a, n), i \notin Members(a, n),
         SplicedIn(prev, next, prev2, next2, i, m)
  PROVE  Ring(prev2, next2, With(a, n, i), n + 1)
<1> USE DEF SplicedIn
<1> DEFINE b == With(a, n, i)
<1>1. \A k \in Int : b[k] = IF k = n + 1 THEN i ELSE a[k]
  BY DEF With
<1>2. \A k \in 1 .. n : a[k] # i
  BY DEF Members
<1> HIDE DEF b
<1> USE DEF Lists
<1>3. next[0] = a[n] /\ a[n + 1] = 0 /\ a[0] = 0
  BY DEF Ring
<1> SUFFICES ASSUME NEW k \in 0 .. (n + 1)
             PROVE  next2[b[k + 1]] = b[k] /\ prev2[b[k]] = b[k + 1]
  BY DEF Ring, b
<1>4. CASE k < n
  <2>1. b[k] = a[k] /\ b[k + 1] = a[k + 1] /\ a[k + 1] # 0 /\ a[k + 1] # i /\ a[k] # i
    BY <1>1, <1>2, <1>4
  <2>2. next[a[k + 1]] = a[k] /\ prev[a[k]] = a[k + 1]
    BY <1>4 DEF Ring
  <2>3. a[k] # next[0]
    BY <1>3, <1>4
  <2> QED BY <2>1, <2>2, <2>3
<1>5. CASE k = n
  BY <1>1, <1>2, <1>3, <1>5
<1>6. CASE k = n + 1
  BY <1>1, <1>2, <1>3, <1>6
<1> QED BY <1>4, <1>5, <1>6

\* The first two stores of free take the o-th cell out of the ring; what is in
\* the links of the cell itself does not matter.
SplicedOut(prev, next, prev2, next2, a, o, m) ==
  \A x \in 0 .. m : x # a[o] =>
    /\ next2[x] = IF x = a[o + 1] THEN a[o - 1] ELSE next[x]
    /\ prev2[x] = IF x = a[o - 1] THEN a[o + 1] ELSE prev[x]

LEMMA RingWithout ==
  ASSUME NEW m \in Nat, NEW n, NEW a, NEW o \in 1 .. n,
         NEW prev, NEW next, NEW prev2, NEW next2,
         Lists(a, n, m), Ring(prev, next, a, n),
         SplicedOut(prev, next, prev2, next2, a, o, m)
  PROVE  Ring(prev2, next2, Without(a, o), n - 1)
<1> USE DEF SplicedOut
<1> DEFINE w == Without(a, o)
<1>1. \A k \in Int : w[k] = IF k < o THEN a[k] ELSE a[k + 1]
  BY DEF Without
<1> HIDE DEF w
<1> USE DEF Lists
<1> SUFFICES ASSUME NEW k \in 0 .. (n - 1)
             PROVE  next2[w[k + 1]] = w[k] /\ prev2[w[k]] = w[k + 1]
  BY DEF Ring, w
<1>2. CASE k + 1 < o
  BY <1>1, <1>2 DEF Ring
<1>3. CASE k + 1 = o
  BY <1>1, <1>3
<1>4. CASE k + 1 > o
  <2>1. w[k] = a[k + 1] /\ w[k + 1] = a[k + 2] /\ a[k + 1] # 0
    BY <1>1, <1>4
  <2>2. a[k + 1] # a[o] /\ a[k + 2] # a[o] /\ a[k + 2] # a[o + 1] /\ a[k + 1] # a[o - 1]
    BY <1>4
  <2>3. next[a[k + 2]] = a[k + 1] /\ prev[a[k + 1]] = a[k + 2]
    BY DEF Ring
  <2> QED BY <2>1, <2>2, <2>3
<1> QED BY <1>2, <1>3, <1>4

------------------------------------------------------------------------------
(***************************************************************************)
(* FixedMemPool.                                                           *)
(***************************************************************************)
N == max_num.pool

PoolType ==
  [used_num : 0 .. N, raw_used_num : 0 .. N, reclaim_list : 0 .. N,
   prev : [0 .. N -> 0 .. (N + 1)], next : [0 .. N -> 0 .. N]]

\* The n cells of u are in use, the k cells of g have been given back and bear
\* the mark; others, after a crash, may be lost.
InUse(p, u, n) ==
  /\ Lists(u, n, N) /\ Members(u, n) \subseteq 1 .. p.raw_used_num
  /\ Ring(p.prev, p.next, u, n)

GivenBack(p, g, k) ==
  /\ Lists(g, k, N) /\ Members(g, k) \subseteq 1 .. p.raw_used_num
  /\ Chain(p.next, p.reclaim_list, g, k)
  /\ \A x \in Members(g, k) : p.prev[x] = N + 1

PoolOK(p, u, n, g, k) ==
  /\ p \in PoolType
  /\ InUse(p, u, n) /\ GivenBack(p, g, k)
  /\ Members(u, n) \cap Members(g, k) = {}

\* No cell is lost, and the counters count.
Exact(p, u, n, g, k) ==
  /\ p.used_num = n /\ p.raw_used_num = n + k
  /\ Members(u, n) \cup Members(g, k) = 1 .. p.raw_used_num

LEMMA PoolCells == /\ N \in Nat /\ N > 0 /\ Pools!Cells = 1 .. N /\ Pools!Links = 0 .. N
  BY ContainersAssumption DEF N, Pools!Cells, Pools!Links

\* The lists that a pool keeps are what walks over its links meet.
LEMMA PoolLists ==
  ASSUME NEW p, NEW u, NEW n, NEW g, NEW k, PoolOK(p, u, n, g, k)
  PROVE  /\ Pools!UsedList(p) = Backwards(u, n)
         /\ Pools!ReclaimList(p) = Backwards(g, k)
<1>1. N \in Nat /\ IsFiniteSet(0 .. N)
  BY PoolCells, FS_Interval
<1>2. DOMAIN p.next = 0 .. N
  BY DEF PoolOK, PoolType
<1>3. Chain(p.next, p.next[0], u, n) /\ Lists(u, n, N) /\ Members(u, n) \subseteq 0 .. N
  BY DEF PoolOK, InUse, Ring, Chain, Lists, Members
<1>4. Chain(p.next, p.reclaim_list, g, k) /\ Lists(g, k, N) /\ Members(g, k) \subseteq 0 .. N
  BY DEF PoolOK, GivenBack, Lists, Members
<1>5. Walk(p.next, p.next[0]) = Backwards(u, n)
  BY <1>1, <1>2, <1>3, ChainIsWalk
<1>6. Walk(p.next, p.reclaim_list) = Backwards(g, k)
  BY <1>1, <1>2, <1>4, ChainIsWalk
<1> QED BY <1>5, <1>6, PoolWalks DEF Pools!UsedList, Pools!ReclaimList

\* The cell that alloc takes is in neither list, and no longer given back.
LEMMA AllocTakes ==
  ASSUME NEW p, NEW u, NEW n, NEW g, NEW k, PoolOK(p, u, n, g, k), Pools!CanAlloc(p)
  PROVE  LET i == Pools!AllocIndex(p)
             c == IF p.reclaim_list = 0 THEN k ELSE k - 1
             h == IF p.reclaim_list = 0 THEN g ELSE Without(g, k)
         IN /\ i \in 1 .. N /\ i \notin Members(u, n) /\ i \notin Members(h, c)
            /\ Lists(h, c, N)
            /\ IF p.reclaim_list = 0 THEN k = 0 /\ p.raw_used_num < N /\ i = p.raw_used_num + 1
               ELSE /\ k # 0 /\ i = p.reclaim_list /\ i = g[k] /\ i \in Members(g, k)
                    /\ Members(h, c) = Members(g, k) \ {i}
                    /\ Chain(p.next, p.next[i], h, c)
<1> DEFINE i == Pools!AllocIndex(p)
<1>1. N \in Nat /\ p \in PoolType /\ Lists(u, n, N) /\ Lists(g, k, N)
  BY PoolCells DEF PoolOK, InUse, GivenBack
<1>2. /\ Members(u, n) \subseteq 1 .. p.raw_used_num /\ Members(g, k) \subseteq 1 .. p.raw_used_num
      /\ Members(u, n) \cap Members(g, k) = {}
      /\ Chain(p.next, p.reclaim_list, g, k) /\ p.reclaim_list = g[k]
  BY DEF PoolOK, InUse, GivenBack, Chain
<1>3. CASE p.reclaim_list = 0
  <2>1. i = p.raw_used_num + 1
    BY <1>3 DEF Pools!AllocIndex
  <2>2. p.raw_used_num < N /\ p.raw_used_num \in Nat
    BY <1>1, <1>3 DEF Pools!CanAlloc, Pools!Asserts, N, PoolType
  <2>3. k = 0
    <3>1. k \in Nat /\ (g[k] = 0 <=> k \notin 1 .. k)
      BY <1>1 DEF Lists
    <3> QED BY <1>2, <1>3, <3>1
  <2> HIDE DEF i
  <2>4. i \in 1 .. N /\ i \notin 1 .. p.raw_used_num
    BY <1>1, <2>1, <2>2
  <2> QED BY <1>1, <1>2, <1>3, <2>1, <2>2, <2>3, <2>4 DEF i
<1>4. CASE p.reclaim_list # 0
  <2>1. i = p.reclaim_list
    BY <1>4 DEF Pools!AllocIndex
  <2> HIDE DEF i
  <2>2. k \in Nat /\ k # 0 /\ k \in 1 .. k /\ i = g[k] /\ i \in 1 .. N
    BY <1>1, <1>2, <1>4, <2>1 DEF Lists
  <2>3. i \in Members(g, k)
    BY <2>2 DEF Members
  <2>4. Lists(Without(g, k), k - 1, N) /\ Members(Without(g, k), k - 1) = Members(g, k) \ {i}
    BY <1>1, <2>2, WithoutLists
  <2>5. Chain(p.next, p.next[i], Without(g, k), k - 1)
    BY <1>1, <1>2, <2>1, <2>2, ChainWithout
  <2> QED BY <1>2, <1>4, <2>1, <2>2, <2>3, <2>4, <2>5 DEF i
<1> QED BY <1>3, <1>4

\* What one store into the memory of a pool changes, and what it leaves alone.
LEMMA StoreNext ==
  ASSUME NEW p \in PoolType, NEW i \in 0 .. N, NEW v \in 0 .. N
  PROVE  LET w == [p EXCEPT !.next[i] = v] IN
         /\ w \in PoolType /\ w.used_num = p.used_num /\ w.raw_used_num = p.raw_used_num
         /\ w.reclaim_list = p.reclaim_list
         /\ w.next = [p.next EXCEPT ![i] = v] /\ w.prev = p.prev
  BY DEF PoolType

LEMMA StorePrev ==
  ASSUME NEW p \in PoolType, NEW i \in 0 .. N, NEW v \in 0 .. (N + 1)
  PROVE  LET w == [p EXCEPT !.prev[i] = v] IN
         /\ w \in PoolType /\ w.used_num = p.used_num /\ w.raw_used_num = p.raw_used_num
         /\ w.reclaim_list = p.reclaim_list
         /\ w.next = p.next /\ w.prev = [p.prev EXCEPT ![i] = v]
  BY DEF PoolType

LEMMA StoreUsed ==
  ASSUME NEW p \in PoolType, NEW v \in 0 .. N
  PROVE  LET w == [p EXCEPT !.used_num = v] IN
         /\ w \in PoolType /\ w.used_num = v /\ w.raw_used_num = p.raw_used_num /\ w.reclaim_list = p.reclaim_list
         /\ w.next = p.next /\ w.prev = p.prev
  BY DEF PoolType

LEMMA StoreRaw ==
  ASSUME NEW p \in PoolType, NEW v \in 0 .. N
  PROVE  LET w == [p EXCEPT !.raw_used_num = v] IN
         /\ w \in PoolType /\ w.used_num = p.used_num /\ w.raw_used_num = v /\ w.reclaim_list = p.reclaim_list
         /\ w.next = p.next /\ w.prev = p.prev
  BY DEF PoolType

LEMMA StoreReclaim ==
  ASSUME NEW p \in PoolType, NEW v \in 0 .. N
  PROVE  LET w == [p EXCEPT !.reclaim_list = v] IN
         /\ w \in PoolType /\ w.used_num = p.used_num /\ w.raw_used_num = p.raw_used_num /\ w.reclaim_list = v
         /\ w.next = p.next /\ w.prev = p.prev
  BY DEF PoolType

LEMMA PoolFields ==
  ASSUME NEW p \in PoolType
  PROVE  /\ p.used_num \in 0 .. N /\ p.raw_used_num \in 0 .. N /\ p.reclaim_list \in 0 .. N
         /\ p.next \in [0 .. N -> 0 .. N] /\ p.prev \in [0 .. N -> 0 .. (N + 1)]
  BY DEF PoolType

LEMMA InRange ==
  ASSUME NEW m \in Nat, NEW r \in Nat, r <= m
  PROVE  \A y \in 1 .. r : y \in 1 .. m /\ y \in 0 .. m /\ y # 0
  OBVIOUS

\* The stores of alloc.
LEMMA AllocStores ==
  ASSUME NEW p, p \in PoolType, Pools!CanAlloc(p), Pools!AllocIndex(p) \in 1 .. N
  PROVE  LET i == Pools!AllocIndex(p)
             ahead == [p.next EXCEPT ![i] = p.next[0]]
             behind == [p.prev EXCEPT ![i] = 0]
         IN \A x \in 1 .. 6 :
              LET w == Pools!AllocWrites(p)[x] IN
              /\ w \in PoolType
              /\ w.used_num = IF x = 6 THEN p.used_num + 1 ELSE p.used_num
              /\ w.raw_used_num = IF p.reclaim_list # 0 THEN p.raw_used_num ELSE p.raw_used_num + 1
              /\ w.reclaim_list = IF p.reclaim_list # 0 THEN p.next[i] ELSE 0
              /\ w.next = IF x = 1 THEN p.next ELSE IF x < 5 THEN ahead ELSE [ahead EXCEPT ![0] = i]
              /\ w.prev = IF x < 3 THEN p.prev ELSE IF x = 3 THEN behind ELSE [behind EXCEPT ![p.next[0]] = i]
<1> DEFINE i == Pools!AllocIndex(p)
           taken == IF p.reclaim_list # 0 THEN [p EXCEPT !.reclaim_list = p.next[i]]
                    ELSE [p EXCEPT !.raw_used_num = @ + 1]
           ahead == [taken EXCEPT !.next[i] = p.next[0]]
           behind == [ahead EXCEPT !.prev[i] = 0]
           back == [behind EXCEPT !.prev[p.next[0]] = i]
           linked == [back EXCEPT !.next[0] = i]
           done == [linked EXCEPT !.used_num = @ + 1]
<1>0. N \in Nat /\ p.used_num < N /\ (p.reclaim_list = 0 => p.raw_used_num < N)
  BY PoolCells, PoolFields DEF Pools!CanAlloc, Pools!Full, Pools!Asserts, N
<1>1. Pools!AllocWrites(p) = <<taken, ahead, behind, back, linked, done>>
  BY DEF Pools!AllocWrites
<1> HIDE DEF i
<1>2. i \in 1 .. N
  BY DEF i
<1>3. /\ taken \in PoolType /\ taken.used_num = p.used_num
      /\ taken.raw_used_num = IF p.reclaim_list # 0 THEN p.raw_used_num ELSE p.raw_used_num + 1
      /\ taken.reclaim_list = IF p.reclaim_list # 0 THEN p.next[i] ELSE 0
      /\ taken.next = p.next /\ taken.prev = p.prev
  <2>1. p.next[i] \in 0 .. N /\ (p.reclaim_list = 0 => p.raw_used_num + 1 \in 0 .. N)
      <3>1. p.next[i] \in 0 .. N
      BY <1>0, <1>2, PoolFields
    <3>2. p.raw_used_num \in 0 .. N
      BY PoolFields
    <3> QED BY <1>0, <3>1, <3>2
  <2>2. CASE p.reclaim_list # 0
    BY <2>1, <2>2, StoreReclaim
  <2>3. CASE p.reclaim_list = 0
    <3>1. taken = [p EXCEPT !.raw_used_num = p.raw_used_num + 1]
      BY <2>3
    <3> HIDE DEF taken
    <3>2. p.raw_used_num + 1 \in 0 .. N
      BY <2>1, <2>3
    <3> DEFINE v == p.raw_used_num + 1
    <3>3. v \in 0 .. N /\ taken = [p EXCEPT !.raw_used_num = v]
      BY <3>1, <3>2
    <3>4. v = p.raw_used_num + 1
      OBVIOUS
    <3> HIDE DEF v
    <3>5. /\ taken \in PoolType /\ taken.used_num = p.used_num /\ taken.raw_used_num = v
          /\ taken.reclaim_list = p.reclaim_list /\ taken.next = p.next /\ taken.prev = p.prev
      BY <3>3, StoreRaw
    <3> QED BY <2>3, <3>4, <3>5
  <2> QED BY <2>2, <2>3
<1> HIDE DEF taken
<1> DEFINE an == [p.next EXCEPT ![i] = p.next[0]]
           bp == [p.prev EXCEPT ![i] = 0]
           cp == [bp EXCEPT ![p.next[0]] = i]
           dn == [an EXCEPT ![0] = i]
           Same(w) == /\ w.used_num = p.used_num /\ w.raw_used_num = taken.raw_used_num
                      /\ w.reclaim_list = taken.reclaim_list
<1>11. p.next[0] \in 0 .. N /\ i \in 0 .. N /\ i \in 0 .. (N + 1) /\ 0 \in 0 .. N /\ 0 \in 0 .. (N + 1)
  BY <1>0, <1>2, PoolFields
<1>4. ahead \in PoolType /\ Same(ahead) /\ ahead.next = an /\ ahead.prev = p.prev
  BY <1>0, <1>2, <1>11, <1>3, StoreNext
<1> HIDE DEF ahead
<1>5. behind \in PoolType /\ Same(behind) /\ behind.next = an /\ behind.prev = bp
  BY <1>0, <1>2, <1>11, <1>4, StorePrev
<1> HIDE DEF behind
<1>6. back \in PoolType /\ Same(back) /\ back.next = an /\ back.prev = cp
  BY <1>0, <1>2, <1>11, <1>5, StorePrev
<1> HIDE DEF back
<1>7. linked \in PoolType /\ Same(linked) /\ linked.next = dn /\ linked.prev = cp
  BY <1>0, <1>2, <1>11, <1>6, StoreNext
<1> HIDE DEF linked
<1>8. /\ done \in PoolType /\ done.used_num = p.used_num + 1
      /\ done.raw_used_num = taken.raw_used_num /\ done.reclaim_list = taken.reclaim_list
      /\ done.next = dn /\ done.prev = cp
  <2>1. done = [linked EXCEPT !.used_num = p.used_num + 1]
    BY <1>7
  <2>2. p.used_num + 1 \in 0 .. N
    BY <1>0, PoolFields
  <2> HIDE DEF done
  <2> QED BY <1>7, <2>1, <2>2, StoreUsed
<1> HIDE DEF done
<1> HIDE DEF an, bp, cp, dn
<1> SUFFICES ASSUME NEW x \in 1 .. 6
             PROVE  LET w == Pools!AllocWrites(p)[x] IN
                    /\ w \in PoolType
                    /\ w.used_num = IF x = 6 THEN p.used_num + 1 ELSE p.used_num
                    /\ w.raw_used_num = taken.raw_used_num
                    /\ w.reclaim_list = taken.reclaim_list
                    /\ w.next = IF x = 1 THEN p.next ELSE IF x < 5 THEN an ELSE dn
                    /\ w.prev = IF x < 3 THEN p.prev ELSE IF x = 3 THEN bp ELSE cp
  BY <1>3 DEF i, an, bp, cp, dn
<1>9. x = 1 \/ x = 2 \/ x = 3 \/ x = 4 \/ x = 5 \/ x = 6
  OBVIOUS
<1>10. Pools!AllocWrites(p)[x] = IF x = 1 THEN taken ELSE IF x = 2 THEN ahead
         ELSE IF x = 3 THEN behind ELSE IF x = 4 THEN back ELSE IF x = 5 THEN linked ELSE done
  BY <1>1, <1>9
<1> QED BY <1>3, <1>4, <1>5, <1>6, <1>7, <1>8, <1>9, <1>10

\* Of a cell and the links of a pool.
LEMMA LinksAre ==
  ASSUME NEW p \in PoolType
  PROVE  /\ N \in Nat /\ N > 0 /\ p.raw_used_num \in Nat /\ p.raw_used_num <= N
         /\ p.used_num \in Nat /\ p.used_num <= N /\ p.reclaim_list \in 0 .. N
         /\ p.next \in [0 .. N -> 0 .. N] /\ p.prev \in [0 .. N -> 0 .. (N + 1)]
<1>1. N \in Nat /\ N > 0
  BY PoolCells
<1>2. p.raw_used_num \in Nat /\ p.raw_used_num <= N
  BY <1>1, PoolFields
<1>3. p.used_num \in Nat /\ p.used_num <= N
  BY <1>1, PoolFields
<1> QED BY <1>1, <1>2, <1>3, PoolFields

\* A store, and a store after it.
LEMMA Stored ==
  ASSUME NEW S, NEW T, NEW f \in [S -> T], NEW i \in S, NEW v \in T
  PROVE  /\ [f EXCEPT ![i] = v] \in [S -> T]
         /\ \A y \in S : [f EXCEPT ![i] = v][y] = IF y = i THEN v ELSE f[y]
  OBVIOUS

\* Wherever a crash cuts alloc off, other than between its two stores into the
\* ring, the cells in use are those from before, or those and the new one.
LEMMA AllocCuts ==
  ASSUME NEW p, NEW u, NEW n, NEW g, NEW k, PoolOK(p, u, n, g, k), Pools!CanAlloc(p),
         NEW x \in 1 .. 6, x # 4
  PROVE  LET i == Pools!AllocIndex(p)
             w == Pools!AllocWrites(p)[x]
             c == IF p.reclaim_list = 0 THEN k ELSE k - 1
             h == IF p.reclaim_list = 0 THEN g ELSE Without(g, k)
         IN /\ x < 4 => PoolOK(w, u, n, h, c)
            /\ x > 4 => PoolOK(w, With(u, n, i), n + 1, h, c)
            /\ x = 6 /\ Exact(p, u, n, g, k) => Exact(w, With(u, n, i), n + 1, h, c)
<1> DEFINE i == Pools!AllocIndex(p)
           w == Pools!AllocWrites(p)[x]
           c == IF p.reclaim_list = 0 THEN k ELSE k - 1
           h == IF p.reclaim_list = 0 THEN g ELSE Without(g, k)
           ahead == [p.next EXCEPT ![i] = p.next[0]]
           behind == [p.prev EXCEPT ![i] = 0]
           both == [ahead EXCEPT ![0] = i]
           back == [behind EXCEPT ![p.next[0]] = i]
<1>0. p \in PoolType
  BY DEF PoolOK
<1>1. /\ Lists(u, n, N) /\ Members(u, n) \subseteq 1 .. p.raw_used_num
      /\ Ring(p.prev, p.next, u, n)
  BY DEF PoolOK, InUse
<1>2. /\ Lists(g, k, N) /\ Members(g, k) \subseteq 1 .. p.raw_used_num
      /\ Chain(p.next, p.reclaim_list, g, k)
      /\ \A y \in Members(g, k) : p.prev[y] = N + 1
  BY DEF PoolOK, GivenBack
<1>3. Members(u, n) \cap Members(g, k) = {}
  BY DEF PoolOK
<1>4. i \in 1 .. N /\ i \notin Members(u, n) /\ i \notin Members(h, c) /\ Lists(h, c, N)
  BY AllocTakes
<1>5. IF p.reclaim_list = 0 THEN k = 0 /\ p.raw_used_num < N /\ i = p.raw_used_num + 1
      ELSE /\ k # 0 /\ i = p.reclaim_list /\ i = g[k] /\ i \in Members(g, k)
           /\ Members(h, c) = Members(g, k) \ {i}
           /\ Chain(p.next, p.next[i], h, c)
  BY AllocTakes
<1>6. x \in 1 .. 6 /\ (x < 4 \/ x > 4)
  OBVIOUS
<1>7. /\ w \in PoolType
      /\ w.used_num = IF x = 6 THEN p.used_num + 1 ELSE p.used_num
      /\ w.raw_used_num = IF p.reclaim_list # 0 THEN p.raw_used_num ELSE p.raw_used_num + 1
      /\ w.reclaim_list = IF p.reclaim_list # 0 THEN p.next[i] ELSE 0
      /\ w.next = IF x = 1 THEN p.next ELSE IF x < 5 THEN ahead ELSE both
      /\ w.prev = IF x < 3 THEN p.prev ELSE IF x = 3 THEN behind ELSE back
  BY <1>0, <1>4, <1>6, AllocStores
<1>8. IF p.reclaim_list = 0 THEN h = g /\ c = k ELSE c = k - 1
  BY Zenon
<1> HIDE DEF i, w, c, h
<1>9. /\ N \in Nat /\ p.raw_used_num \in Nat /\ p.raw_used_num <= N
      /\ p.next \in [0 .. N -> 0 .. N] /\ p.prev \in [0 .. N -> 0 .. (N + 1)]
  BY <1>0, LinksAre
<1>10. 0 \in 0 .. N /\ 0 \in 0 .. (N + 1) /\ i \in 0 .. N /\ i \in 0 .. (N + 1) /\ i # 0
  BY <1>4, <1>9
<1>11. p.next[0] \in 0 .. N
  BY <1>9, <1>10
<1>12. /\ ahead \in [0 .. N -> 0 .. N]
       /\ \A y \in 0 .. N : ahead[y] = IF y = i THEN p.next[0] ELSE p.next[y]
  BY <1>9, <1>10, <1>11, Stored
<1>13. /\ behind \in [0 .. N -> 0 .. (N + 1)]
       /\ \A y \in 0 .. N : behind[y] = IF y = i THEN 0 ELSE p.prev[y]
  BY <1>9, <1>10, <1>11, Stored
<1> HIDE DEF ahead, behind
<1>14. \A y \in 0 .. N : both[y] = IF y = 0 THEN i ELSE ahead[y]
  BY <1>10, <1>12, Stored
<1>15. \A y \in 0 .. N : back[y] = IF y = p.next[0] THEN i ELSE behind[y]
  BY <1>10, <1>11, <1>13, Stored
<1> HIDE DEF both, back
<1>16. ASSUME x > 4
       PROVE  /\ \A y \in 0 .. N : w.next[y] = IF y = 0 THEN i ELSE IF y = i THEN p.next[0] ELSE p.next[y]
              /\ \A y \in 0 .. N : w.prev[y] = IF y = p.next[0] THEN i ELSE IF y = i THEN 0 ELSE p.prev[y]
  BY <1>6, <1>7, <1>16, <1>12, <1>13, <1>14, <1>15
<1>17. ASSUME x < 4
       PROVE  \A y \in 0 .. N : y # i => w.next[y] = p.next[y] /\ w.prev[y] = p.prev[y]
  BY <1>6, <1>7, <1>17, <1>12, <1>13
<1>18. w.raw_used_num \in Nat /\ p.raw_used_num <= w.raw_used_num /\ i \in 1 .. w.raw_used_num
  <2>1. CASE p.reclaim_list = 0
    <3>1. i = p.raw_used_num + 1 /\ w.raw_used_num = p.raw_used_num + 1
      BY <1>5, <1>7, <2>1, Zenon
    <3> DEFINE r == p.raw_used_num
    <3> HIDE DEF r
    <3>2. i = r + 1 /\ w.raw_used_num = r + 1 /\ r \in Nat
      BY <3>1, <1>9, Zenon DEF r
    <3>3. r + 1 \in Nat /\ r <= r + 1 /\ r + 1 \in 1 .. (r + 1)
      BY <3>2
    <3> QED BY <3>2, <3>3, Zenon DEF r
  <2>2. CASE p.reclaim_list # 0
    <3>1. w.raw_used_num = p.raw_used_num /\ i \in Members(g, k)
      BY <1>5, <1>7, <2>2
    <3>2. i \in 1 .. p.raw_used_num
      BY <3>1, <1>2
    <3>3. p.raw_used_num \in Nat /\ p.raw_used_num <= p.raw_used_num
      BY <1>9
    <3> QED BY <3>1, <3>2, <3>3, Zenon
  <2> QED BY <2>1, <2>2
<1>19. Members(h, c) \subseteq Members(g, k)
  BY <1>5, <1>8
<1>20. \A y \in Members(u, n) \cup Members(g, k) : y \in 0 .. N /\ y # 0 /\ y \in 1 .. w.raw_used_num
  <2>1. Members(u, n) \cup Members(g, k) \subseteq 1 .. p.raw_used_num
    BY <1>1, <1>2
  <2>2. \A y \in 1 .. p.raw_used_num : y \in 0 .. N /\ y # 0 /\ y \in 1 .. w.raw_used_num
    <3> DEFINE r == p.raw_used_num
               s == w.raw_used_num
    <3>1. r \in Nat /\ r <= N /\ s \in Nat /\ r <= s /\ N \in Nat
      BY <1>9, <1>18, Zenon
    <3> HIDE DEF r, s
    <3>2. \A y \in 1 .. r : y \in 0 .. N /\ y # 0 /\ y \in 1 .. s
      BY <3>1
    <3> QED BY <3>2, Zenon DEF r, s
  <2> QED BY <2>1, <2>2
<1>21. p.next[0] = u[n] /\ (u[n] = 0 \/ u[n] \in Members(u, n))
  BY <1>1 DEF Lists, Ring, Members
<1>22. \A y \in Members(h, c) : w.next[y] = p.next[y] /\ w.prev[y] = N + 1
  <2> SUFFICES ASSUME NEW y \in Members(h, c) PROVE w.next[y] = p.next[y] /\ w.prev[y] = N + 1
    OBVIOUS
  <2>1. y \in 0 .. N /\ y # 0 /\ p.prev[y] = N + 1
    BY <1>2, <1>19, <1>20
  <2>2. y # i /\ y # p.next[0]
    BY <2>1, <1>3, <1>4, <1>19, <1>21
  <2> QED BY <2>1, <2>2, <1>6, <1>16, <1>17
<1>23. Chain(w.next, w.reclaim_list, h, c)
  BY <1>7, <1>8, <1>2, <1>22, ChainApart, <1>5
<1>24. GivenBack(w, h, c)
  BY <1>4, <1>19, <1>20, <1>22, <1>23 DEF GivenBack
<1>25. Members(u, n) \cap Members(h, c) = {}
  BY <1>3, <1>19
<1>26. ASSUME x < 4 PROVE PoolOK(w, u, n, h, c)
  <2>1. \A y \in Members(u, n) \cup {0} : w.next[y] = p.next[y] /\ w.prev[y] = p.prev[y]
    BY <1>4, <1>10, <1>17, <1>20, <1>26
  <2>2. Ring(w.prev, w.next, u, n)
    <3>1. N \in Nat
      BY <1>9
    <3> QED BY <1>1, <2>1, <3>1, RingApart
  <2>3. InUse(w, u, n)
    BY <1>1, <1>20, <2>2 DEF InUse
  <2> QED BY <1>7, <1>24, <1>25, <2>3 DEF PoolOK
<1>27. Lists(With(u, n, i), n + 1, N) /\ Members(With(u, n, i), n + 1) = Members(u, n) \cup {i}
  BY <1>1, <1>4, <1>9, WithLists
<1>28. ASSUME x > 4 PROVE PoolOK(w, With(u, n, i), n + 1, h, c)
  <2>1. Ring(w.prev, w.next, With(u, n, i), n + 1)
    <3>1. SplicedIn(p.prev, p.next, w.prev, w.next, i, N)
      BY <1>16, <1>28 DEF SplicedIn
    <3>2. N \in Nat
      BY <1>9
    <3> QED BY <1>1, <1>4, <3>1, <3>2, RingWith
  <2>2. (Members(u, n) \cup {i}) \cap Members(h, c) = {}
    BY <1>4, <1>25
  <2>3. Members(u, n) \cup {i} \subseteq 1 .. w.raw_used_num
    BY <1>18, <1>20
  <2> QED BY <1>7, <1>24, <1>27, <2>1, <2>2, <2>3 DEF PoolOK, InUse
<1>29. ASSUME x = 6, Exact(p, u, n, g, k) PROVE Exact(w, With(u, n, i), n + 1, h, c)
  <2>1. n \in Nat /\ k \in Nat
    BY <1>1, <1>2 DEF Lists
  <2>2. p.used_num = n /\ p.raw_used_num = n + k /\ Members(u, n) \cup Members(g, k) = 1 .. p.raw_used_num
    BY <1>29 DEF Exact
  <2>3. w.used_num = n + 1 /\ w.raw_used_num = n + 1 + c
    BY <1>5, <1>7, <1>8, <1>29, <2>1, <2>2
  <2>4. (Members(u, n) \cup {i}) \cup Members(h, c) = 1 .. w.raw_used_num
    <3>1. CASE p.reclaim_list = 0
      <4>1. 1 .. k = {} /\ Members(h, c) = Members(g, k) /\ w.raw_used_num = p.raw_used_num + 1
        BY <1>5, <1>7, <1>8, <3>1
      <4>2. 1 .. w.raw_used_num = (1 .. p.raw_used_num) \cup {i}
        BY <4>1, <1>5, <1>9, <3>1
      <4> QED BY <4>1, <4>2, <2>2
    <3>2. CASE p.reclaim_list # 0
      BY <1>7, <3>2, <1>5, <2>2
    <3> QED BY <3>1, <3>2
  <2> QED BY <1>27, <2>3, <2>4 DEF Exact
<1> QED BY <1>26, <1>28, <1>29 DEF i, w, c, h

\* The memory w of the pool p after x stores of free.
FreeMemory(p, i, x, w) ==
  LET before == [p.next EXCEPT ![p.prev[i]] = p.next[i]]
      after == [p.prev EXCEPT ![p.next[i]] = p.prev[i]]
  IN /\ w \in PoolType
     /\ w.used_num = IF x = 6 THEN p.used_num - 1 ELSE p.used_num
     /\ w.raw_used_num = p.raw_used_num
     /\ w.reclaim_list = IF x < 5 THEN p.reclaim_list ELSE i
     /\ w.next = IF x < 4 THEN before ELSE [before EXCEPT ![i] = p.reclaim_list]
     /\ w.prev = IF x = 1 THEN p.prev ELSE IF x = 2 THEN after ELSE [after EXCEPT ![i] = N + 1]

LEMMA FreeStores ==
  ASSUME NEW p, p \in PoolType, NEW i \in 1 .. N, Pools!IsLive(p, i)
  PROVE  \A x \in 1 .. 6 : FreeMemory(p, i, x, Pools!FreeWrites(p, i)[x])
<1> DEFINE before == [p EXCEPT !.next[p.prev[i]] = p.next[i]]
           after == [before EXCEPT !.prev[before.next[i]] = before.prev[i]]
           marked == [after EXCEPT !.prev[i] = N + 1]
           chained == [marked EXCEPT !.next[i] = marked.reclaim_list]
           given == [chained EXCEPT !.reclaim_list = i]
           done == [given EXCEPT !.used_num = @ - 1]
           bn == [p.next EXCEPT ![p.prev[i]] = p.next[i]]
           ap == [p.prev EXCEPT ![p.next[i]] = p.prev[i]]
           mp == [ap EXCEPT ![i] = N + 1]
           cn == [bn EXCEPT ![i] = p.reclaim_list]
<1>1. /\ N \in Nat /\ N > 0 /\ p.used_num \in Nat /\ p.used_num <= N /\ p.reclaim_list \in 0 .. N
      /\ p.next \in [0 .. N -> 0 .. N] /\ p.prev \in [0 .. N -> 0 .. (N + 1)]
  BY LinksAre
<1>2. i \in 0 .. N /\ N + 1 \in 0 .. (N + 1)
  BY <1>1
<1>3. p.next[i] \in 0 .. N /\ p.prev[i] \in 0 .. (N + 1)
  BY <1>1, <1>2
<1>4. p.prev[i] <= N /\ p.used_num # 0
  BY DEF Pools!IsLive, Pools!Empty, N
<1>5. p.prev[i] \in 0 .. N
  <2>1. N \in Nat
    BY <1>1
  <2> QED BY <2>1, <1>3, <1>4
<1>6. p.used_num - 1 \in 0 .. N
  <2>1. N \in Nat /\ p.used_num \in Nat /\ p.used_num <= N /\ p.used_num # 0
    BY <1>1, <1>4
  <2> QED BY <2>1
<1>7. Pools!FreeWrites(p, i) = <<before, after, marked, chained, given, done>>
  BY DEF Pools!FreeWrites, N
<1> DEFINE Same(w) == w.raw_used_num = p.raw_used_num /\ w.used_num = p.used_num
<1>8. /\ before \in PoolType /\ Same(before) /\ before.reclaim_list = p.reclaim_list
      /\ before.next = bn /\ before.prev = p.prev
  BY <1>2, <1>3, <1>5, StoreNext
<1> HIDE DEF before
<1>9. bn[i] = p.next[i]
  BY <1>1, <1>2, <1>5
<1>10. after = [before EXCEPT !.prev[p.next[i]] = p.prev[i]]
  BY <1>8, <1>9
<1> HIDE DEF after
<1>11. /\ after \in PoolType /\ Same(after) /\ after.reclaim_list = p.reclaim_list
       /\ after.next = bn /\ after.prev = ap
  BY <1>2, <1>3, <1>8, <1>10, StorePrev
<1>12. /\ marked \in PoolType /\ Same(marked) /\ marked.reclaim_list = p.reclaim_list
       /\ marked.next = bn /\ marked.prev = mp
  BY <1>2, <1>11, StorePrev
<1> HIDE DEF marked
<1>13. chained = [marked EXCEPT !.next[i] = p.reclaim_list]
  BY <1>12
<1> HIDE DEF chained
<1>14. /\ chained \in PoolType /\ Same(chained) /\ chained.reclaim_list = p.reclaim_list
       /\ chained.next = cn /\ chained.prev = mp
  BY <1>1, <1>2, <1>12, <1>13, StoreNext
<1>15. /\ given \in PoolType /\ Same(given) /\ given.reclaim_list = i
       /\ given.next = cn /\ given.prev = mp
  BY <1>2, <1>14, StoreReclaim
<1> HIDE DEF given
<1> DEFINE v == p.used_num - 1
<1>16. done = [given EXCEPT !.used_num = v] /\ v \in 0 .. N
  BY <1>6, <1>15
<1> HIDE DEF done
<1>17. v = p.used_num - 1
  OBVIOUS
<1> HIDE DEF v
<1>18. /\ done \in PoolType /\ done.raw_used_num = p.raw_used_num /\ done.used_num = v
       /\ done.reclaim_list = i /\ done.next = cn /\ done.prev = mp
  BY <1>15, <1>16, StoreUsed
<1> HIDE DEF bn, ap, cn, mp
<1> SUFFICES ASSUME NEW x \in 1 .. 6
             PROVE  LET w == Pools!FreeWrites(p, i)[x] IN
                    /\ w \in PoolType
                    /\ w.used_num = IF x = 6 THEN p.used_num - 1 ELSE p.used_num
                    /\ w.raw_used_num = p.raw_used_num
                    /\ w.reclaim_list = IF x < 5 THEN p.reclaim_list ELSE i
                    /\ w.next = IF x < 4 THEN bn ELSE cn
                    /\ w.prev = IF x = 1 THEN p.prev ELSE IF x = 2 THEN ap ELSE mp
  BY DEF FreeMemory, bn, ap, mp, cn
<1>19. x = 1 \/ x = 2 \/ x = 3 \/ x = 4 \/ x = 5 \/ x = 6
  OBVIOUS
<1>20. Pools!FreeWrites(p, i)[x] = IF x = 1 THEN before ELSE IF x = 2 THEN after
         ELSE IF x = 3 THEN marked ELSE IF x = 4 THEN chained ELSE IF x = 5 THEN given ELSE done
  BY <1>7, <1>19
<1> QED BY <1>8, <1>11, <1>12, <1>14, <1>15, <1>17, <1>18, <1>19, <1>20

\* Wherever a crash cuts free off, other than between its first two stores, the
\* cell is out of the ring, and it may be lost before it is given back.
LEMMA FreeCuts ==
  ASSUME NEW p, NEW u, NEW n, NEW g, NEW k, PoolOK(p, u, n, g, k),
         NEW o \in 1 .. n, Pools!IsLive(p, u[o]), NEW x \in 1 .. 6, x # 1
  PROVE  LET w == Pools!FreeWrites(p, u[o])[x] IN
         /\ x < 5 => PoolOK(w, Without(u, o), n - 1, g, k)
         /\ x >= 5 => PoolOK(w, Without(u, o), n - 1, With(g, k, u[o]), k + 1)
         /\ x = 6 /\ Exact(p, u, n, g, k) => Exact(w, Without(u, o), n - 1, With(g, k, u[o]), k + 1)
<1> DEFINE i == u[o]
           w == Pools!FreeWrites(p, i)[x]
           before == [p.next EXCEPT ![p.prev[i]] = p.next[i]]
           after == [p.prev EXCEPT ![p.next[i]] = p.prev[i]]
           chained == [before EXCEPT ![i] = p.reclaim_list]
           marked == [after EXCEPT ![i] = N + 1]
<1>0. p \in PoolType
  BY DEF PoolOK
<1>1. /\ Lists(u, n, N) /\ Members(u, n) \subseteq 1 .. p.raw_used_num
      /\ Ring(p.prev, p.next, u, n)
  BY DEF PoolOK, InUse
<1>2. /\ Lists(g, k, N) /\ Members(g, k) \subseteq 1 .. p.raw_used_num
      /\ Chain(p.next, p.reclaim_list, g, k)
      /\ \A y \in Members(g, k) : p.prev[y] = N + 1
  BY DEF PoolOK, GivenBack
<1>3. Members(u, n) \cap Members(g, k) = {}
  BY DEF PoolOK
<1>4. /\ N \in Nat /\ p.raw_used_num \in Nat /\ p.raw_used_num <= N /\ p.reclaim_list \in 0 .. N
      /\ p.next \in [0 .. N -> 0 .. N] /\ p.prev \in [0 .. N -> 0 .. (N + 1)]
  BY <1>0, LinksAre
<1>5. n \in Nat /\ o \in Int /\ o >= 1 /\ o <= n /\ u \in [Int -> 0 .. N]
  BY <1>1 DEF Lists
<1>6. i \in Members(u, n) /\ i \in 1 .. p.raw_used_num
  BY <1>1 DEF Members
<1>7. i \in 1 .. N /\ i # 0 /\ i \in 0 .. N
  BY <1>4, <1>6, InRange, Zenon
<1>8. p.prev[i] = u[o + 1] /\ p.next[i] = u[o - 1]
  BY <1>5, <1>1 DEF Ring
<1>9. u[o + 1] # i /\ u[o - 1] # i /\ u[o + 1] \in 0 .. N /\ u[o - 1] \in 0 .. N
  BY <1>1, <1>5 DEF Lists
<1>10. /\ u[o + 1] = 0 \/ u[o + 1] \in Members(u, n)
       /\ u[o - 1] = 0 \/ u[o - 1] \in Members(u, n)
  BY <1>1, <1>5 DEF Lists, Members
<1>11. x \in 1 .. 6 /\ x # 1
  OBVIOUS
<1>12. Pools!IsLive(p, i)
  OBVIOUS
<1> HIDE DEF i
<1>13. /\ w \in PoolType
       /\ w.used_num = IF x = 6 THEN p.used_num - 1 ELSE p.used_num
       /\ w.raw_used_num = p.raw_used_num
       /\ w.reclaim_list = IF x < 5 THEN p.reclaim_list ELSE i
       /\ w.next = IF x < 4 THEN before ELSE chained
       /\ w.prev = IF x = 1 THEN p.prev ELSE IF x = 2 THEN after ELSE marked
  <2>1. FreeMemory(p, i, x, Pools!FreeWrites(p, i)[x])
    BY <1>0, <1>7, <1>11, <1>12, FreeStores
  <2> QED BY <2>1 DEF FreeMemory
<1> HIDE DEF w
<1>14. /\ before \in [0 .. N -> 0 .. N]
       /\ \A y \in 0 .. N : before[y] = IF y = u[o + 1] THEN u[o - 1] ELSE p.next[y]
  BY <1>4, <1>8, <1>9, Stored
<1>15. /\ after \in [0 .. N -> 0 .. (N + 1)]
       /\ \A y \in 0 .. N : after[y] = IF y = u[o - 1] THEN u[o + 1] ELSE p.prev[y]
  <2>1. u[o + 1] \in 0 .. (N + 1)
    BY <1>4, <1>9
  <2> QED BY <2>1, <1>4, <1>8, <1>9, Stored
<1> HIDE DEF before, after
<1>16. \A y \in 0 .. N : chained[y] = IF y = i THEN p.reclaim_list ELSE before[y]
  BY <1>4, <1>7, <1>14, Stored
<1>17. \A y \in 0 .. N : marked[y] = IF y = i THEN N + 1 ELSE after[y]
  BY <1>4, <1>7, <1>15, Stored
<1> HIDE DEF chained, marked
<1>18. \A y \in 0 .. N : y # i =>
         /\ w.next[y] = IF y = u[o + 1] THEN u[o - 1] ELSE p.next[y]
         /\ w.prev[y] = IF y = u[o - 1] THEN u[o + 1] ELSE p.prev[y]
  BY <1>11, <1>13, <1>14, <1>15, <1>16, <1>17
<1>19. ASSUME x >= 5 PROVE w.next[i] = p.reclaim_list /\ w.prev[i] = N + 1 /\ w.reclaim_list = i
  BY <1>11, <1>13, <1>19, <1>7, <1>16, <1>17
<1>20. Ring(w.prev, w.next, Without(u, o), n - 1)
  <2>1. SplicedOut(p.prev, p.next, w.prev, w.next, u, o, N)
    BY <1>18 DEF SplicedOut, i
  <2> QED BY <2>1, <1>1, <1>4, RingWithout
<1>21. Lists(Without(u, o), n - 1, N) /\ Members(Without(u, o), n - 1) = Members(u, n) \ {i}
  BY <1>1, <1>4, WithoutLists DEF i
<1>22. InUse(w, Without(u, o), n - 1)
  BY <1>1, <1>13, <1>20, <1>21 DEF InUse
<1>23. i \notin Members(g, k)
  BY <1>3, <1>6
<1>24. \A y \in Members(g, k) : w.next[y] = p.next[y] /\ w.prev[y] = N + 1
  <2> SUFFICES ASSUME NEW y \in Members(g, k) PROVE w.next[y] = p.next[y] /\ w.prev[y] = N + 1
    OBVIOUS
  <2>1. y \in 0 .. N /\ y # 0 /\ y # i /\ p.prev[y] = N + 1
    BY <1>2, <1>4, InRange, <1>23
  <2>2. y # u[o + 1] /\ y # u[o - 1]
    BY <2>1, <1>3, <1>10
  <2> QED BY <2>1, <2>2, <1>18
<1>25. ASSUME x < 5 PROVE PoolOK(w, Without(u, o), n - 1, g, k)
  BY <1>13, <1>25, <1>2, <1>24, ChainApart, <1>3, <1>21, <1>22 DEF GivenBack, PoolOK
<1>26. /\ Lists(With(g, k, i), k + 1, N)
       /\ Members(With(g, k, i), k + 1) = Members(g, k) \cup {i}
  BY <1>2, <1>4, <1>7, <1>23, WithLists
<1>27. ASSUME x >= 5 PROVE PoolOK(w, Without(u, o), n - 1, With(g, k, i), k + 1)
  <2>1. Chain(w.next, i, With(g, k, i), k + 1)
    BY <1>24, <1>19, <1>27, <1>2, <1>4, <1>7, <1>23, ChainWith
  <2>2. GivenBack(w, With(g, k, i), k + 1)
    BY <1>2, <1>6, <1>13, <1>19, <1>24, <1>26, <1>27, <2>1 DEF GivenBack
  <2>3. Members(Without(u, o), n - 1) \cap Members(With(g, k, i), k + 1) = {}
    BY <1>3, <1>21, <1>26
  <2> QED BY <1>13, <1>22, <2>2, <2>3 DEF PoolOK
<1>28. ASSUME x = 6, Exact(p, u, n, g, k)
       PROVE  Exact(w, Without(u, o), n - 1, With(g, k, i), k + 1)
  <2>1. k \in Nat
    BY <1>2 DEF Lists
  <2>2. p.used_num = n /\ p.raw_used_num = n + k /\ Members(u, n) \cup Members(g, k) = 1 .. p.raw_used_num
    BY <1>28 DEF Exact
  <2>3. w.used_num = n - 1
    BY <2>2, <1>13, <1>28
  <2>4. w.raw_used_num = (n - 1) + (k + 1)
    BY <2>1, <2>2, <1>5, <1>13
  <2>5. (Members(u, n) \ {i}) \cup (Members(g, k) \cup {i}) = 1 .. w.raw_used_num
    BY <2>2, <1>6, <1>13
  <2> QED BY <2>3, <2>4, <2>5, <1>21, <1>26 DEF Exact
<1> QED BY <1>25, <1>27, <1>28 DEF i, w

\* clear forgets every cell, and so does the pool it starts with.
LEMMA NoCellsAre ==
  ASSUME NEW m \in Nat
  PROVE  Lists(NoCells, 0, m) /\ Members(NoCells, 0) = {}
  BY DEF NoCells, Lists, Members

LEMMA UnusedPool ==
  ASSUME NEW w \in PoolType, w.used_num = 0, w.raw_used_num = 0, w.reclaim_list = 0,
         w.prev[0] = 0, w.next[0] = 0
  PROVE  PoolOK(w, NoCells, 0, NoCells, 0) /\ Exact(w, NoCells, 0, NoCells, 0)
  BY NoCellsAre, PoolCells DEF NoCells, Ring, Chain, PoolOK, InUse, GivenBack, Exact

LEMMA FreshIsUnused ==
  PoolOK(Pools!FreshPool, NoCells, 0, NoCells, 0) /\ Exact(Pools!FreshPool, NoCells, 0, NoCells, 0)
  BY PoolCells, UnusedPool DEF Pools!FreshPool, PoolType

LEMMA ClearCuts ==
  ASSUME NEW p \in PoolType
  PROVE  /\ \A u, n, g, k : PoolOK(p, u, n, g, k) => PoolOK(Pools!ClearWrites(p)[1], u, n, g, k)
         /\ \A x \in 1 .. 3 : Pools!ClearWrites(p)[x] \in PoolType
         /\ Pools!Cleared(p) = Pools!ClearWrites(p)[4]
         /\ PoolOK(Pools!Cleared(p), NoCells, 0, NoCells, 0)
         /\ Exact(Pools!Cleared(p), NoCells, 0, NoCells, 0)
<1> DEFINE unused == [p EXCEPT !.used_num = 0]
           raw == [unused EXCEPT !.raw_used_num = 0]
           unchained == [raw EXCEPT !.reclaim_list = 0]
           behind == [unchained EXCEPT !.prev[0] = 0]
           done == [unchained EXCEPT !.prev[0] = 0, !.next[0] = 0]
<1>1. Pools!ClearWrites(p) = <<unused, raw, unchained, done>>
  BY DEF Pools!ClearWrites
<1>2. /\ Pools!ClearWrites(p)[1] = unused /\ Pools!ClearWrites(p)[2] = raw
      /\ Pools!ClearWrites(p)[3] = unchained /\ Pools!ClearWrites(p)[4] = done
  <2> HIDE DEF unused, raw, unchained, done
  <2> QED BY <1>1
<1>3. Pools!Cleared(p) = done
  <2> HIDE DEF unused, raw, unchained, done
  <2>1. Len(Pools!ClearWrites(p)) = 4
    BY <1>1
  <2> QED BY <1>2, <2>1 DEF Pools!Cleared
<1>4. N \in Nat /\ 0 \in 0 .. N /\ 0 \in 0 .. (N + 1)
  BY PoolCells
<1>5. /\ unused \in PoolType /\ unused.used_num = 0 /\ unused.raw_used_num = p.raw_used_num
      /\ unused.reclaim_list = p.reclaim_list /\ unused.next = p.next /\ unused.prev = p.prev
  BY <1>4, StoreUsed
<1> HIDE DEF unused
<1>6. \A u, n, g, k : PoolOK(p, u, n, g, k) => PoolOK(unused, u, n, g, k)
  BY <1>5 DEF PoolOK, InUse, GivenBack
<1>7. raw \in PoolType /\ raw.used_num = 0 /\ raw.raw_used_num = 0
  BY <1>4, <1>5, StoreRaw
<1> HIDE DEF raw
<1>8. /\ unchained \in PoolType /\ unchained.used_num = 0 /\ unchained.raw_used_num = 0
      /\ unchained.reclaim_list = 0
  BY <1>4, <1>7, StoreReclaim
<1>9. done = [behind EXCEPT !.next[0] = 0]
  OBVIOUS
<1> HIDE DEF unchained
<1>10. /\ behind \in PoolType /\ behind.used_num = 0 /\ behind.raw_used_num = 0
       /\ behind.reclaim_list = 0 /\ behind.prev = [unchained.prev EXCEPT ![0] = 0]
  BY <1>4, <1>8, StorePrev
<1> HIDE DEF behind, done
<1>11. /\ done \in PoolType /\ done.used_num = 0 /\ done.raw_used_num = 0 /\ done.reclaim_list = 0
       /\ done.prev = behind.prev /\ done.next = [behind.next EXCEPT ![0] = 0]
  BY <1>4, <1>9, <1>10, StoreNext
<1>12. unchained.prev \in [0 .. N -> 0 .. (N + 1)] /\ behind.next \in [0 .. N -> 0 .. N]
  BY <1>8, <1>10, PoolFields
<1>13. done.prev[0] = 0 /\ done.next[0] = 0
  BY <1>4, <1>10, <1>11, <1>12
<1>14. \A x \in 1 .. 3 : x = 1 \/ x = 2 \/ x = 3
  OBVIOUS
<1> QED BY <1>2, <1>3, <1>5, <1>6, <1>7, <1>8, <1>11, <1>13, <1>14, UnusedPool

\* The operations are the last of their stores.
LEMMA LastStores ==
  /\ \A p : Pools!Allocated(p) = Pools!AllocWrites(p)[6]
  /\ \A p, i : Pools!Freed(p, i) = IF Pools!IsLive(p, i) THEN Pools!FreeWrites(p, i)[6] ELSE p
  BY DEF Pools!AllocWrites, Pools!FreeWrites, Pools!Allocated, Pools!Freed

LEMMA BackwardsRange ==
  ASSUME NEW m, NEW n, NEW a, Lists(a, n, m)
  PROVE  Pools!CellsOf(Backwards(a, n)) = Members(a, n) /\ Len(Backwards(a, n)) = n
  BY DEF Lists, Backwards, Pools!CellsOf, Members

\* free() accepts exactly the cells in use, as long as used_num is not 0.
LEMMA LiveAreInUse ==
  ASSUME NEW p, NEW u, NEW n, NEW g, NEW k, PoolOK(p, u, n, g, k)
  PROVE  /\ \A o \in 1 .. n : p.used_num # 0 => Pools!IsLive(p, u[o])
         /\ \A x \in Members(g, k) : ~Pools!IsLive(p, x)
         /\ \A x \in 1 .. N : x > p.raw_used_num => ~Pools!IsLive(p, x)
<1>1. N \in Nat /\ p.raw_used_num \in Nat
  BY LinksAre DEF PoolOK
<1>2. ASSUME NEW o \in 1 .. n, p.used_num # 0 PROVE Pools!IsLive(p, u[o])
  BY <1>1, <1>2 DEF PoolOK, InUse, Members, Ring, Lists, Pools!IsLive, Pools!Empty, N
<1>3. ASSUME NEW x \in Members(g, k) PROVE ~Pools!IsLive(p, x)
  BY <1>1 DEF PoolOK, GivenBack, Pools!IsLive, N
<1>4. ASSUME NEW x \in 1 .. N, x > p.raw_used_num PROVE ~Pools!IsLive(p, x)
  BY <1>1, <1>4 DEF Pools!IsLive
<1> QED BY <1>2, <1>3, <1>4

------------------------------------------------------------------------------
\* Of a pool, of what its user holds and of what crashes have cost: the links are
\* those of two lists that share no cell, and the user holds cells in use; all
\* of them, and no cell is lost, as long as crashes have cost nothing.
Kept(p, h, c, u, n, g, k) ==
  /\ PoolOK(p, u, n, g, k) /\ h \subseteq Members(u, n)
  /\ c = "none" => h = Members(u, n) /\ Exact(p, u, n, g, k)

Whole == damage # "torn" => \E u, n, g, k : Kept(pool, held, damage, u, n, g, k)

PoolInv == pool \in PoolType /\ damage \in {"none", "lossy", "torn"} /\ Whole

LEMMA PoolInvInit == Pools!Init => PoolInv
<1> SUFFICES ASSUME Pools!Init PROVE PoolInv
  OBVIOUS
<1>1. pool = Pools!FreshPool /\ held = {} /\ damage = "none"
  BY DEF Pools!Init
<1>2. Members(NoCells, 0) = {}
  BY NoCellsAre, PoolCells
<1>3. Kept(pool, held, damage, NoCells, 0, NoCells, 0)
  BY <1>1, <1>2, FreshIsUnused DEF Kept
<1> QED BY <1>1, <1>3 DEF PoolInv, Whole, Kept, PoolOK

LEMMA PoolAlloc ==
  ASSUME NEW u, NEW n, NEW g, NEW k, Kept(pool, held, damage, u, n, g, k), damage # "torn",
         Pools!Alloc \/ \E x \in 1 .. 6 : Pools!CrashInAlloc(x)
  PROVE  Whole'
<1> DEFINE i == Pools!AllocIndex(pool)
           c == IF pool.reclaim_list = 0 THEN k ELSE k - 1
           h == IF pool.reclaim_list = 0 THEN g ELSE Without(g, k)
<1>1. PoolOK(pool, u, n, g, k) /\ held \subseteq Members(u, n)
  BY DEF Kept
<1>2. Pools!CanAlloc(pool)
  BY DEF Pools!Alloc, Pools!CrashInAlloc
<1>3. \A x \in 1 .. 6 : x # 4 =>
        LET w == Pools!AllocWrites(pool)[x] IN
        /\ x < 4 => PoolOK(w, u, n, h, c)
        /\ x > 4 => PoolOK(w, With(u, n, i), n + 1, h, c)
        /\ x = 6 /\ Exact(pool, u, n, g, k) => Exact(w, With(u, n, i), n + 1, h, c)
  BY <1>1, <1>2, AllocCuts
<1>4. Members(With(u, n, i), n + 1) = Members(u, n) \cup {i}
  <2>1. Lists(u, n, N) /\ N \in Nat
    BY <1>1, PoolCells DEF PoolOK, InUse
  <2>2. i \in 1 .. N /\ i \notin Members(u, n)
    BY <1>1, <1>2, AllocTakes
  <2> QED BY <2>1, <2>2, WithLists
<1> HIDE DEF i, c, h
<1>5. CASE Pools!Alloc
  BY <1>5, LastStores, <1>3, <1>1, <1>4 DEF Pools!Alloc, i, Kept, Whole
<1>6. ASSUME NEW x \in 1 .. 6, Pools!CrashInAlloc(x) PROVE Whole'
  BY <1>6, <1>1, <1>3, <1>4 DEF Pools!CrashInAlloc, Pools!Crash, Kept, Whole
<1> QED BY <1>5, <1>6

\* What the user may give back are the cells in use.
LEMMA KnownAreInUse ==
  ASSUME NEW u, NEW n, NEW g, NEW k, Kept(pool, held, damage, u, n, g, k)
  PROVE  Pools!Known = Members(u, n) /\ Pools!CellsOf(Pools!ReclaimList(pool)) = Members(g, k)
<1>1. PoolOK(pool, u, n, g, k) /\ held \subseteq Members(u, n)
  BY DEF Kept
<1>2. Lists(u, n, N) /\ Lists(g, k, N) /\ pool \in PoolType /\ Members(u, n) \subseteq 1 .. pool.raw_used_num
  BY <1>1 DEF PoolOK, InUse, GivenBack
<1>3. N \in Nat /\ pool.raw_used_num \in Nat /\ pool.raw_used_num <= N
  BY <1>2, LinksAre
<1>4. Members(u, n) \subseteq Pools!Cells
  BY <1>2, <1>3, InRange, PoolCells
<1>5. /\ Pools!CellsOf(Pools!UsedList(pool)) = Members(u, n)
      /\ Pools!CellsOf(Pools!ReclaimList(pool)) = Members(g, k)
  BY <1>1, <1>2, PoolLists, BackwardsRange
<1> QED BY <1>1, <1>4, <1>5 DEF Pools!Known

LEMMA PoolFree ==
  ASSUME NEW u, NEW n, NEW g, NEW k, Kept(pool, held, damage, u, n, g, k), damage # "torn",
         NEW i, Pools!Free(i) \/ \E x \in 1 .. 6 : Pools!CrashInFree(i, x)
  PROVE  Whole'
<1>1. PoolOK(pool, u, n, g, k) /\ held \subseteq Members(u, n)
  BY DEF Kept
<1>2. i \in Members(u, n)
  BY KnownAreInUse DEF Pools!Free, Pools!CrashInFree
<1>3. PICK o \in 1 .. n : i = u[o]
  BY <1>2 DEF Members
<1>4. /\ Lists(u, n, N) /\ N \in Nat /\ Lists(g, k, N)
      /\ Members(Without(u, o), n - 1) = Members(u, n) \ {i}
  BY <1>1, PoolCells, <1>3, WithoutLists DEF PoolOK, InUse, GivenBack
<1>5. ASSUME Pools!IsLive(pool, i)
      PROVE  \A x \in 1 .. 6 : x # 1 =>
               LET w == Pools!FreeWrites(pool, i)[x] IN
               /\ x < 5 => PoolOK(w, Without(u, o), n - 1, g, k)
               /\ x >= 5 => PoolOK(w, Without(u, o), n - 1, With(g, k, i), k + 1)
               /\ x = 6 /\ Exact(pool, u, n, g, k) =>
                    Exact(w, Without(u, o), n - 1, With(g, k, i), k + 1)
  BY <1>1, <1>3, <1>5, FreeCuts
<1>6. held \ {i} \subseteq Members(Without(u, o), n - 1)
  BY <1>1, <1>4
<1>7. CASE Pools!Free(i) /\ Pools!IsLive(pool, i)
  BY <1>7, LastStores, <1>5, <1>4, <1>6 DEF Pools!Free, Kept, Whole
<1>8. CASE Pools!Free(i) /\ ~Pools!IsLive(pool, i)
  <2>1. pool' = pool /\ held' = held \ {i} /\ damage' = damage
    BY <1>8, LastStores DEF Pools!Free
  <2>2. damage # "none"
    <3> SUFFICES ASSUME damage = "none" PROVE FALSE
      OBVIOUS
    <3>1. pool.used_num = n
      BY DEF Kept, Exact
    <3>2. pool.used_num # 0
      BY <3>1, <1>3
    <3> QED BY <3>2, <1>1, <1>3, <1>8, LiveAreInUse
  <2>3. Kept(pool', held', damage', u, n, g, k)
    BY <1>1, <2>1, <2>2 DEF Kept
  <2> QED BY <2>1, <2>3 DEF Whole
<1>9. ASSUME NEW x \in 1 .. 6, Pools!CrashInFree(i, x) PROVE Whole'
  BY <1>9, <1>5, <1>6 DEF Pools!CrashInFree, Pools!Crash, Kept, Whole
<1> QED BY <1>7, <1>8, <1>9

\* A cell given back twice is refused.
LEMMA PoolFreeAgain ==
  ASSUME NEW u, NEW n, NEW g, NEW k, Kept(pool, held, damage, u, n, g, k),
         NEW i, Pools!FreeAgain(i)
  PROVE  UNCHANGED <<pool, held, damage>>
  BY PoolCells, LiveAreInUse, KnownAreInUse, LastStores DEF Kept, Pools!FreeAgain

\* clear needs nothing of the pool but that its memory is that of a pool.
LEMMA PoolClear ==
  ASSUME PoolInv, Pools!Clear \/ \E x \in 1 .. 3 : Pools!CrashInClear(x)
  PROVE  Whole'
<1>1. Members(NoCells, 0) = {} /\ pool \in PoolType
  BY NoCellsAre, PoolCells DEF PoolInv
<1>2. CASE Pools!Clear
  BY <1>1, <1>2, ClearCuts DEF Pools!Clear, Kept, Whole
<1>3. ASSUME NEW x \in 1 .. 3, Pools!CrashInClear(x), damage' # "torn" PROVE Whole'
  <2>1. held' = {} /\ damage # "torn" /\ damage' = "lossy" /\ x = 1 /\ pool' = Pools!ClearWrites(pool)[1]
    BY <1>3 DEF Pools!CrashInClear, Pools!Crash
  <2>2. PICK u, n, g, k : PoolOK(pool, u, n, g, k)
    BY <2>1 DEF PoolInv, Whole, Kept
  <2> QED BY <1>1, <2>1, <2>2, ClearCuts DEF Kept, Whole
<1> QED BY <1>2, <1>3 DEF Whole

------------------------------------------------------------------------------
(***************************************************************************)
(* The restart: the cells left are allocated one after the other, and then *)
(* freed in the same order.                                                *)
(***************************************************************************)
DrainStep(d) ==
  [pool |-> Pools!Allocated(d.pool), taken |-> Append(d.taken, Pools!AllocIndex(d.pool))]
RestartStep(drains, taken, j, d) == IF drains THEN DrainStep(d) ELSE Pools!Freed(d, taken[j])

Runs(drains, taken, a, m, f) ==
  f = [j \in 0 .. m |-> IF j = 0 THEN a ELSE RestartStep(drains, taken, j, f[j - 1])]

\* Either recursion has a solution, however many steps it takes.
LEMMA StepsExist ==
  ASSUME NEW drains, NEW taken, NEW a
  PROVE  \A m \in Nat : \E f : Runs(drains, taken, a, m, f)
<1> DEFINE To(m, f) == Runs(drains, taken, a, m, f)
           S == {m \in Nat : \E f : To(m, f)}
<1>1. 0 \in S
  <2> DEFINE f == [j \in 0 .. 0 |-> a]
  <2>1. 0 .. 0 = {0}
    OBVIOUS
  <2>2. f = [j \in 0 .. 0 |-> IF j = 0 THEN a ELSE RestartStep(drains, taken, j, f[j - 1])]
    BY <2>1
  <2>3. To(0, f)
    BY <2>2, Zenon DEF Runs
  <2> QED BY <2>3
<1>2. ASSUME NEW m \in Nat, m \in S PROVE m + 1 \in S
  <2>1. PICK f : To(m, f)
    BY <1>2
  <2> DEFINE e(j) == IF j = 0 THEN a ELSE RestartStep(drains, taken, j, f[j - 1])
             e2 == [j \in 0 .. (m + 1) |-> e(j)]
  <2>2. f = [j \in 0 .. m |-> e(j)]
    BY <2>1, Zenon DEF Runs
  <2> HIDE DEF e
  <2>3. \A j \in 0 .. m : e2[j] = f[j]
    BY <2>2
  <2> HIDE DEF e2
  <2>4. \A j \in 0 .. (m + 1) : j = 0 \/ e2[j - 1] = f[j - 1]
    BY <2>3
  <2>5. \A j \in 0 .. (m + 1) :
          e(j) = IF j = 0 THEN a ELSE RestartStep(drains, taken, j, e2[j - 1])
    BY <2>4, Zenon DEF e
  <2>6. e2 = [j \in 0 .. (m + 1) |-> IF j = 0 THEN a ELSE RestartStep(drains, taken, j, e2[j - 1])]
    BY <2>5 DEF e2
  <2>7. To(m + 1, e2)
    BY <2>6, Zenon DEF Runs
  <2> QED BY <2>7
<1> HIDE DEF S
<1>3. Nat \subseteq S
  BY <1>1, <1>2, SetInduction
<1> QED BY <1>3 DEF S

LEMMA DrainsAre ==
  ASSUME NEW p, NEW l \in Nat, l = N - p.used_num
  PROVE  /\ Pools!Drains(p)[0] = [pool |-> p, taken |-> <<>>]
         /\ \A j \in 1 .. l : Pools!Drains(p)[j] = DrainStep(Pools!Drains(p)[j - 1])
<1> DEFINE a == [pool |-> p, taken |-> <<>>]
           at == Pools!Drains(p)
           e(j) == IF j = 0 THEN a
                   ELSE [pool |-> Pools!Allocated(at[j - 1].pool),
                         taken |-> Append(at[j - 1].taken, Pools!AllocIndex(at[j - 1].pool))]
<1>1. \E f : Runs(TRUE, <<>>, a, l, f)
  BY StepsExist, Zenon
<1>2. \E f : f = [j \in 0 .. l |->
        IF j = 0 THEN a
        ELSE [pool |-> Pools!Allocated(f[j - 1].pool),
              taken |-> Append(f[j - 1].taken, Pools!AllocIndex(f[j - 1].pool))]]
  BY <1>1, Zenon DEF Runs, RestartStep, DrainStep
<1>3. l = max_num.pool - p.used_num
  BY DEF N
<1>4. at = [j \in 0 .. l |-> e(j)]
  BY <1>2, <1>3, Zenon DEF Pools!Drains
<1> HIDE DEF at, e
<1>5. \A j \in 0 .. l : at[j] = e(j)
  BY <1>4
<1>6. 0 \in 0 .. l /\ \A j \in 1 .. l : j \in 0 .. l /\ j # 0
  OBVIOUS
<1> QED BY <1>5, <1>6, Zenon DEF DrainStep, at, e

LEMMA RecoveredIs ==
  ASSUME NEW p, NEW l \in Nat, l = N - p.used_num
  PROVE  LET drained == Pools!Drains(p)[l] IN
         \E f : /\ Pools!Recovered(p) = f[l] /\ f[0] = drained.pool
                /\ \A j \in 1 .. l : f[j] = Pools!Freed(f[j - 1], drained.taken[j])
<1> DEFINE d == Pools!Drains(p)[l]
           Is(f) == f = [j \in 0 .. l |-> IF j = 0 THEN d.pool ELSE Pools!Freed(f[j - 1], d.taken[j])]
           at == CHOOSE f : Is(f)
           e(j) == IF j = 0 THEN d.pool ELSE Pools!Freed(at[j - 1], d.taken[j])
<1>1. \E f : Runs(FALSE, d.taken, d.pool, l, f)
  BY StepsExist, Zenon
<1>2. \E f : Is(f)
  BY <1>1, Zenon DEF Runs, RestartStep
<1>3. Is(at)
  BY <1>2, Zenon
<1>4. l = max_num.pool - p.used_num
  BY DEF N
<1>5. Pools!Recovered(p) = at[l]
  BY <1>4, Zenon DEF Pools!Recovered
<1>6. at = [j \in 0 .. l |-> e(j)]
  BY <1>3, Zenon
<1> HIDE DEF at, e, d
<1>7. \A j \in 0 .. l : at[j] = e(j)
  BY <1>6
<1>8. 0 \in 0 .. l /\ \A j \in 1 .. l : j \in 0 .. l /\ j # 0
  OBVIOUS
<1>9. at[0] = d.pool /\ \A j \in 1 .. l : at[j] = Pools!Freed(at[j - 1], d.taken[j])
  BY <1>7, <1>8, Zenon DEF e
<1> QED BY <1>5, <1>9, Zenon DEF d

\* alloc and free count.
LEMMA AllocCounts ==
  ASSUME NEW p, NEW u, NEW n, NEW g, NEW k, PoolOK(p, u, n, g, k), Pools!CanAlloc(p)
  PROVE  Pools!Allocated(p).used_num = p.used_num + 1
<1>1. p \in PoolType /\ 6 \in 1 .. 6 /\ Pools!AllocIndex(p) \in 1 .. N
  BY AllocTakes DEF PoolOK
<1> QED BY <1>1, AllocStores, LastStores

LEMMA FreeCounts ==
  ASSUME NEW p, NEW u, NEW n, NEW g, NEW k, PoolOK(p, u, n, g, k),
         NEW o \in 1 .. n, Pools!IsLive(p, u[o])
  PROVE  Pools!Freed(p, u[o]).used_num = p.used_num - 1
<1>1. p \in PoolType /\ Lists(u, n, N)
  BY DEF PoolOK, InUse
<1>2. 6 \in 1 .. 6 /\ u[o] \in 1 .. N
  <2>1. n \in Nat /\ N \in Nat /\ o \in Int
    BY <1>1, PoolCells DEF Lists
  <2>2. u[o] \in 0 .. N /\ u[o] # 0
    BY <1>1, <2>1 DEF Lists
  <2> QED BY <2>1, <2>2
<1>3. FreeMemory(p, u[o], 6, Pools!FreeWrites(p, u[o])[6])
  BY <1>1, <1>2, FreeStores
<1> QED BY <1>3, LastStores DEF FreeMemory

\* After j allocations of a restart, the cells in use are those from before,
\* followed by the j cells taken.
DrainOK(p, u, n, g, k, d, j, v, h, c) ==
  /\ PoolOK(d.pool, v, n + j, h, c) /\ \A q \in Int : q <= n => v[q] = u[q]
  /\ d.pool.used_num = p.used_num + j
  /\ d.taken \in Seq(Int) /\ Len(d.taken) = j /\ \A q \in 1 .. j : d.taken[q] = v[n + q]
  /\ Exact(p, u, n, g, k) => Exact(d.pool, v, n + j, h, c)

LEMMA DrainsOne ==
  ASSUME NEW p, NEW u, NEW n \in Nat, NEW g, NEW k, NEW d, NEW j \in Nat, NEW v, NEW h, NEW c,
         DrainOK(p, u, n, g, k, d, j, v, h, c), Pools!CanAlloc(d.pool), p.used_num \in Nat
  PROVE  \E v2, h2, c2 : DrainOK(p, u, n, g, k, DrainStep(d), j + 1, v2, h2, c2)
<1> DEFINE q0 == d.pool
           i == Pools!AllocIndex(d.pool)
           e == DrainStep(d)
           v2 == With(v, n + j, i)
           c2 == IF q0.reclaim_list = 0 THEN c ELSE c - 1
           h2 == IF q0.reclaim_list = 0 THEN h ELSE Without(h, c)
<1>1. PoolOK(q0, v, n + j, h, c) /\ Pools!CanAlloc(q0)
  BY DEF DrainOK
<1>2. 6 \in 1 .. 6 /\ 6 > 4 /\ 6 # 4
  OBVIOUS
<1>3. e.pool = Pools!AllocWrites(q0)[6] /\ e.pool = Pools!Allocated(q0) /\ e.taken = Append(d.taken, i)
  BY LastStores DEF DrainStep
<1>4. /\ PoolOK(e.pool, v2, (n + j) + 1, h2, c2)
      /\ Exact(q0, v, n + j, h, c) => Exact(e.pool, v2, (n + j) + 1, h2, c2)
  BY <1>1, <1>2, <1>3, AllocCuts
<1>5. i \in 1 .. N /\ i \in Int
  BY <1>1, AllocTakes
<1>6. e.pool.used_num = (p.used_num + j) + 1
  BY <1>1, <1>3, AllocCounts DEF DrainOK
<1> HIDE DEF i, e, q0, c2, h2
<1>7. /\ \A q \in Int : v2[q] = IF q = n + j + 1 THEN i ELSE v[q]
  BY DEF With
<1> HIDE DEF v2
<1>8. \A q \in Int : q <= n => v2[q] = u[q]
  BY <1>7 DEF DrainOK
<1>9. d.taken \in Seq(Int) /\ Len(d.taken) = j /\ \A q \in 1 .. j : d.taken[q] = v[n + q]
  BY DEF DrainOK
<1>10. /\ e.taken \in Seq(Int) /\ Len(e.taken) = j + 1 /\ e.taken[j + 1] = i
       /\ \A q \in 1 .. j : e.taken[q] = d.taken[q]
  BY <1>3, <1>5, <1>9, AppendProperties
<1>11. \A q \in 1 .. (j + 1) : e.taken[q] = v2[n + q]
  <2> SUFFICES ASSUME NEW q \in 1 .. (j + 1) PROVE e.taken[q] = v2[n + q]
    OBVIOUS
  <2>1. CASE q = j + 1
    BY <2>1, <1>7, <1>10
  <2>2. CASE q # j + 1
    BY <2>2, <1>7, <1>9, <1>10
  <2> QED BY <2>1, <2>2
<1>12. (n + j) + 1 = n + (j + 1) /\ (p.used_num + j) + 1 = p.used_num + (j + 1)
  OBVIOUS
<1>13. Exact(p, u, n, g, k) => Exact(q0, v, n + j, h, c)
  BY DEF DrainOK, q0
<1>14. DrainOK(p, u, n, g, k, e, j + 1, v2, h2, c2)
  BY <1>4, <1>6, <1>8, <1>10, <1>11, <1>12, <1>13 DEF DrainOK
<1> QED BY <1>14 DEF e

LEMMA DrainsAll ==
  ASSUME NEW p, NEW u, NEW n, NEW g, NEW k, PoolOK(p, u, n, g, k), ~Pools!RecoverAsserts(p),
         NEW l \in Nat, l = N - p.used_num
  PROVE  \E v, h, c : DrainOK(p, u, n, g, k, Pools!Drains(p)[l], l, v, h, c)
<1> DEFINE at == Pools!Drains(p)
           S == {j \in Nat : j <= l => \E v, h, c : DrainOK(p, u, n, g, k, at[j], j, v, h, c)}
<1>1. /\ at[0] = [pool |-> p, taken |-> <<>>]
      /\ \A j \in 1 .. l : at[j] = DrainStep(at[j - 1])
  BY DrainsAre
<1>2. n \in Nat /\ p.used_num \in Nat /\ N \in Nat
  BY LinksAre DEF PoolOK, InUse, Lists
<1>3. \A j \in 0 .. (l - 1) : ~Pools!Asserts(at[j].pool)
  BY DEF Pools!RecoverAsserts, N
<1> HIDE DEF at
<1>4. 0 \in S
  <2>1. at[0].pool = p /\ at[0].taken = <<>> /\ n + 0 = n /\ p.used_num + 0 = p.used_num
    BY <1>1, <1>2
  <2>2. <<>> \in Seq(Int) /\ Len(<<>>) = 0 /\ 1 .. 0 = {}
    OBVIOUS
  <2>3. DrainOK(p, u, n, g, k, at[0], 0, u, g, k)
    BY <2>1, <2>2 DEF DrainOK
  <2> QED BY <2>3
<1>5. ASSUME NEW j \in Nat, j \in S PROVE j + 1 \in S
  <2> SUFFICES ASSUME j + 1 <= l
               PROVE  \E v, h, c : DrainOK(p, u, n, g, k, at[j + 1], j + 1, v, h, c)
    OBVIOUS
  <2>1. j <= l /\ j \in 0 .. (l - 1) /\ j + 1 \in 1 .. l /\ (j + 1) - 1 = j
    OBVIOUS
  <2>2. PICK v, h, c : DrainOK(p, u, n, g, k, at[j], j, v, h, c)
    BY <1>5, <2>1
  <2> HIDE DEF S
  <2>3. at[j + 1] = DrainStep(at[j])
    BY <1>1, <2>1
  <2>4. at[j].pool.used_num = p.used_num + j
    BY <2>2 DEF DrainOK
  <2>5. ~(at[j].pool.used_num >= N)
    BY <1>2, <2>1, <2>4
  <2>6. Pools!CanAlloc(at[j].pool)
    BY <1>3, <2>1, <2>5 DEF Pools!CanAlloc, Pools!Full, N
  <2> QED BY <1>2, <2>2, <2>3, <2>6, DrainsOne
<1> HIDE DEF S
<1>6. Nat \subseteq S
  BY <1>4, <1>5, SetInduction
<1>7. l \in S
  BY <1>6
<1> QED BY <1>7 DEF S, at

\* With r of the cells taken still to be freed.
RefillOK(p, u, n, g, k, taken, l, w, r, v, h, c) ==
  /\ PoolOK(w, v, n + r, h, c) /\ \A q \in Int : q <= n => v[q] = u[q]
  /\ w.used_num = p.used_num + r
  /\ \A q \in 1 .. r : v[n + q] = taken[(l - r) + q]
  /\ Exact(p, u, n, g, k) => Exact(w, v, n + r, h, c)

LEMMA RefillsOne ==
  ASSUME NEW p, NEW u, NEW n \in Nat, NEW g, NEW k, NEW taken, NEW l \in Nat,
         NEW w, NEW r \in 1 .. l, NEW v, NEW h, NEW c, p.used_num \in Nat,
         RefillOK(p, u, n, g, k, taken, l, w, r, v, h, c)
  PROVE  \E v2, h2, c2 :
           RefillOK(p, u, n, g, k, taken, l, Pools!Freed(w, taken[(l - r) + 1]), r - 1, v2, h2, c2)
<1> DEFINE o == n + 1
           i == taken[(l - r) + 1]
           f == Pools!Freed(w, i)
           v2 == Without(v, o)
           h2 == With(h, c, i)
<1>1. PoolOK(w, v, n + r, h, c) /\ w.used_num = p.used_num + r
  BY DEF RefillOK
<1>2. o \in 1 .. (n + r) /\ 1 \in 1 .. r /\ w.used_num # 0
  BY <1>1
<1>3. v[o] = i
  BY <1>2 DEF RefillOK
<1> HIDE DEF o, i
<1>4. Pools!IsLive(w, i)
  BY <1>1, <1>2, <1>3, LiveAreInUse
<1>5. f = Pools!FreeWrites(w, i)[6]
  BY <1>4, LastStores
<1>6. 6 \in 1 .. 6 /\ 6 >= 5 /\ 6 # 1
  OBVIOUS
<1>7. /\ PoolOK(f, v2, (n + r) - 1, h2, c + 1)
      /\ Exact(w, v, n + r, h, c) => Exact(f, v2, (n + r) - 1, h2, c + 1)
  BY <1>1, <1>2, <1>3, <1>4, <1>5, <1>6, FreeCuts
<1>8. f.used_num = (p.used_num + r) - 1
  BY <1>1, <1>2, <1>3, <1>4, FreeCounts
<1> HIDE DEF f, h2
<1>9. \A q \in Int : v2[q] = IF q < n + 1 THEN v[q] ELSE v[q + 1]
  BY DEF Without, o
<1> HIDE DEF v2
<1>10. \A q \in Int : q <= n => v2[q] = u[q]
  BY <1>9 DEF RefillOK
<1>11. \A q \in 1 .. (r - 1) : v2[n + q] = taken[(l - (r - 1)) + q]
  <2> SUFFICES ASSUME NEW q \in 1 .. (r - 1) PROVE v2[n + q] = taken[(l - (r - 1)) + q]
    OBVIOUS
  <2>1. v2[n + q] = v[n + (q + 1)] /\ q + 1 \in 1 .. r /\ (l - r) + (q + 1) = (l - (r - 1)) + q
    BY <1>9
  <2> QED BY <2>1 DEF RefillOK
<1>12. (n + r) - 1 = n + (r - 1) /\ (p.used_num + r) - 1 = p.used_num + (r - 1)
  OBVIOUS
<1>13. Exact(p, u, n, g, k) => Exact(w, v, n + r, h, c)
  BY DEF RefillOK
<1>14. RefillOK(p, u, n, g, k, taken, l, f, r - 1, v2, h2, c + 1)
  BY <1>7, <1>8, <1>10, <1>11, <1>12, <1>13 DEF RefillOK
<1> QED BY <1>14 DEF f, i

\* A restart leaves the cells in use, in their order, and used_num.
LEMMA RecoveredKeeps ==
  ASSUME NEW p, NEW u, NEW n, NEW g, NEW k, PoolOK(p, u, n, g, k), ~Pools!RecoverAsserts(p)
  PROVE  /\ Pools!Recovered(p).used_num = p.used_num
         /\ \E h, c : /\ PoolOK(Pools!Recovered(p), u, n, h, c)
                      /\ Exact(p, u, n, g, k) => Exact(Pools!Recovered(p), u, n, h, c)
<1> DEFINE l == N - p.used_num
           drained == Pools!Drains(p)[l]
<1>1. n \in Nat /\ p.used_num \in Nat /\ l \in Nat /\ Lists(u, n, N)
  <2>1. p \in PoolType /\ Lists(u, n, N) /\ n \in Nat
    BY DEF PoolOK, InUse, Lists
  <2>2. N \in Nat /\ p.used_num \in Nat /\ p.used_num <= N
    BY <2>1, LinksAre
  <2> QED BY <2>1, <2>2
<1>2. l = N - p.used_num
  OBVIOUS
<1> HIDE DEF l
<1>3. PICK v, h, c : DrainOK(p, u, n, g, k, drained, l, v, h, c)
  BY <1>1, <1>2, DrainsAll
<1>4. PICK f : /\ Pools!Recovered(p) = f[l] /\ f[0] = drained.pool
               /\ \A j \in 1 .. l : f[j] = Pools!Freed(f[j - 1], drained.taken[j])
  BY <1>1, <1>2, RecoveredIs
<1> HIDE DEF drained
<1> DEFINE S == {j \in Nat : j <= l =>
                   \E v2, h2, c2 : RefillOK(p, u, n, g, k, drained.taken, l, f[j], l - j, v2, h2, c2)}
<1>5. 0 \in S
  <2>1. l - 0 = l /\ \A q \in 1 .. l : (l - l) + q = q
    BY <1>1
  <2>2. RefillOK(p, u, n, g, k, drained.taken, l, f[0], l, v, h, c)
    BY <1>3, <1>4, <2>1 DEF DrainOK, RefillOK
  <2> QED BY <2>1, <2>2
<1>6. ASSUME NEW j \in Nat, j \in S PROVE j + 1 \in S
  <2> SUFFICES ASSUME j + 1 <= l
               PROVE  \E v2, h2, c2 :
                        RefillOK(p, u, n, g, k, drained.taken, l, f[j + 1], l - (j + 1), v2, h2, c2)
    OBVIOUS
  <2>1. /\ j <= l /\ l - j \in 1 .. l /\ j + 1 \in 1 .. l /\ (j + 1) - 1 = j
        /\ (l - (l - j)) + 1 = j + 1 /\ (l - j) - 1 = l - (j + 1)
    BY <1>1
  <2>2. PICK v2, h2, c2 : RefillOK(p, u, n, g, k, drained.taken, l, f[j], l - j, v2, h2, c2)
    BY <1>6, <2>1
  <2> HIDE DEF S
  <2>3. f[j + 1] = Pools!Freed(f[j], drained.taken[j + 1])
    BY <1>4, <2>1
  <2> DEFINE r == l - j
  <2>4. r \in 1 .. l /\ (l - r) + 1 = j + 1 /\ r - 1 = l - (j + 1)
    BY <2>1
  <2>5. RefillOK(p, u, n, g, k, drained.taken, l, f[j], r, v2, h2, c2)
    BY <2>2
  <2> HIDE DEF r
  <2>6. \E v3, h3, c3 : RefillOK(p, u, n, g, k, drained.taken, l,
                                 Pools!Freed(f[j], drained.taken[(l - r) + 1]), r - 1, v3, h3, c3)
    BY <1>1, <2>4, <2>5, RefillsOne
  <2> QED BY <2>3, <2>4, <2>6
<1> HIDE DEF S
<1>7. Nat \subseteq S
  BY <1>5, <1>6, SetInduction
<1>8. l \in S /\ l <= l
  BY <1>1, <1>7
<1>9. PICK v2, h2, c2 : RefillOK(p, u, n, g, k, drained.taken, l, f[l], l - l, v2, h2, c2)
  BY <1>8 DEF S
<1>10. l - l = 0 /\ n + 0 = n /\ p.used_num + 0 = p.used_num
  BY <1>1
<1>11. /\ PoolOK(f[l], v2, n, h2, c2) /\ \A q \in Int : q <= n => v2[q] = u[q]
       /\ f[l].used_num = p.used_num
       /\ Exact(p, u, n, g, k) => Exact(f[l], v2, n, h2, c2)
  BY <1>9, <1>10 DEF RefillOK
<1>12. v2 = u
  <2>1. v2 \in [Int -> 0 .. N] /\ \A q \in Int : v2[q] = 0 <=> q \notin 1 .. n
    BY <1>11 DEF PoolOK, InUse, Lists
  <2>2. u \in [Int -> 0 .. N] /\ \A q \in Int : u[q] = 0 <=> q \notin 1 .. n
    BY <1>1 DEF Lists
  <2>3. \A q \in Int : v2[q] = u[q]
    <3> SUFFICES ASSUME NEW q \in Int PROVE v2[q] = u[q]
      OBVIOUS
    <3>1. CASE q <= n
      BY <3>1, <1>11
    <3>2. CASE ~(q <= n)
      BY <1>1, <3>2, <2>1, <2>2
    <3> QED BY <3>1, <3>2
  <2> QED BY <2>1, <2>2, <2>3
<1> QED BY <1>4, <1>11, <1>12

\* Whatever a crash has left, the stores of alloc and free stay in the pool.
LEMMA AllocTyped ==
  ASSUME NEW p \in PoolType, Pools!CanAlloc(p)
  PROVE  /\ Pools!AllocIndex(p) \in 1 .. N /\ \A x \in 1 .. 6 : Pools!AllocWrites(p)[x] \in PoolType
         /\ Pools!Allocated(p) \in PoolType /\ Pools!Allocated(p).used_num = p.used_num + 1
<1>1. N \in Nat /\ p.raw_used_num \in Nat /\ p.reclaim_list \in 0 .. N
  BY LinksAre
<1>2. p.reclaim_list = 0 => p.raw_used_num < N
  BY <1>1 DEF Pools!CanAlloc, Pools!Asserts, N
<1>3. Pools!AllocIndex(p) \in 1 .. N
  BY <1>1, <1>2 DEF Pools!AllocIndex
<1>4. 6 \in 1 .. 6
  OBVIOUS
<1> QED BY <1>3, <1>4, AllocStores, LastStores

LEMMA FreeTyped ==
  ASSUME NEW p \in PoolType, NEW i \in 1 .. N
  PROVE  /\ Pools!IsLive(p, i) => \A x \in 1 .. 6 : Pools!FreeWrites(p, i)[x] \in PoolType
         /\ Pools!Freed(p, i) \in PoolType
<1>1. Pools!IsLive(p, i) => \A x \in 1 .. 6 : Pools!FreeWrites(p, i)[x] \in PoolType
  BY FreeStores DEF FreeMemory
<1>2. 6 \in 1 .. 6
  OBVIOUS
<1> QED BY <1>1, <1>2, LastStores

LEMMA RecoveredTyped ==
  ASSUME NEW p \in PoolType, ~Pools!RecoverAsserts(p)
  PROVE  Pools!Recovered(p) \in PoolType
<1> DEFINE l == N - p.used_num
           at == Pools!Drains(p)
           Drained(j) == /\ at[j].pool \in PoolType /\ at[j].pool.used_num = p.used_num + j
                         /\ at[j].taken \in Seq(1 .. N) /\ Len(at[j].taken) = j
           S == {j \in Nat : j <= l => Drained(j)}
<1>1. N \in Nat /\ p.used_num \in Nat /\ l \in Nat /\ l = N - p.used_num
  BY LinksAre
<1>2. \A j \in 0 .. (l - 1) : ~Pools!Asserts(at[j].pool)
  BY DEF Pools!RecoverAsserts, N
<1> HIDE DEF l
<1>3. /\ at[0] = [pool |-> p, taken |-> <<>>]
      /\ \A j \in 1 .. l : at[j] = DrainStep(at[j - 1])
  BY <1>1, DrainsAre
<1>4. PICK f : /\ Pools!Recovered(p) = f[l] /\ f[0] = at[l].pool
               /\ \A j \in 1 .. l : f[j] = Pools!Freed(f[j - 1], at[l].taken[j])
  BY <1>1, RecoveredIs
<1> HIDE DEF at
<1>5. 0 \in S
  <2>1. at[0].pool = p /\ at[0].taken = <<>> /\ p.used_num + 0 = p.used_num
    BY <1>1, <1>3
  <2>2. <<>> \in Seq(1 .. N) /\ Len(<<>>) = 0
    OBVIOUS
  <2>3. Drained(0)
    BY <2>1, <2>2
  <2> QED BY <2>3
<1>6. ASSUME NEW j \in Nat, j \in S PROVE j + 1 \in S
  <2> SUFFICES ASSUME j + 1 <= l PROVE Drained(j + 1)
    OBVIOUS
  <2>1. Drained(j) /\ j \in 0 .. (l - 1) /\ j + 1 \in 1 .. l /\ (j + 1) - 1 = j
    BY <1>1, <1>6
  <2>2. ~(at[j].pool.used_num >= N)
    BY <1>1, <2>1
  <2>3. Pools!CanAlloc(at[j].pool)
    BY <1>2, <2>1, <2>2 DEF Pools!CanAlloc, Pools!Full, N
  <2>4. at[j + 1] = DrainStep(at[j])
    BY <1>3, <2>1
  <2>5. /\ at[j + 1].pool = Pools!Allocated(at[j].pool)
        /\ at[j + 1].taken = Append(at[j].taken, Pools!AllocIndex(at[j].pool))
    BY <2>4 DEF DrainStep
  <2>6. at[j + 1].pool \in PoolType /\ at[j + 1].pool.used_num = (p.used_num + j) + 1
    BY <2>1, <2>3, <2>5, AllocTyped
  <2>7. at[j + 1].taken \in Seq(1 .. N) /\ Len(at[j + 1].taken) = j + 1
    BY <2>1, <2>3, <2>5, AllocTyped, AppendProperties
  <2>8. (p.used_num + j) + 1 = p.used_num + (j + 1)
    BY <1>1
  <2> QED BY <2>6, <2>7, <2>8
<1> HIDE DEF S, Drained
<1>7. l \in S /\ l <= l
  BY <1>1, <1>5, <1>6, SetInduction
<1>8. Drained(l)
  BY <1>1, <1>7 DEF S
<1> DEFINE T == {j \in Nat : j <= l => f[j] \in PoolType}
<1>9. 0 \in T
  BY <1>4, <1>8 DEF Drained
<1>10. ASSUME NEW j \in Nat, j \in T PROVE j + 1 \in T
  <2> SUFFICES ASSUME j + 1 <= l PROVE f[j + 1] \in PoolType
    OBVIOUS
  <2>1. f[j] \in PoolType /\ j + 1 \in 1 .. l /\ (j + 1) - 1 = j
    BY <1>1, <1>10
  <2>2. at[l].taken[j + 1] \in 1 .. N
    <3>1. at[l].taken \in Seq(1 .. N) /\ Len(at[l].taken) = l
      BY <1>8 DEF Drained
    <3> QED BY <2>1, <3>1, ElementOfSeq
  <2> QED BY <1>4, <2>1, <2>2, FreeTyped
<1> HIDE DEF T
<1>11. l \in T /\ l <= l
  BY <1>1, <1>9, <1>10, SetInduction
<1> QED BY <1>1, <1>4, <1>11 DEF T

LEMMA PoolStepTyped ==
  ASSUME PoolInv, Pools!Next
  PROVE  pool' \in PoolType /\ damage' \in {"none", "lossy", "torn"}
<1> USE DEF PoolInv
<1>1. CASE Pools!Alloc \/ \E x \in 1 .. 6 : Pools!CrashInAlloc(x)
  BY <1>1, AllocTyped DEF Pools!Alloc, Pools!CrashInAlloc, Pools!Crash
<1>2. CASE \E i \in Pools!Cells : \/ Pools!Free(i) \/ Pools!FreeAgain(i)
                                  \/ \E x \in 1 .. 6 : Pools!CrashInFree(i, x)
  BY <1>2, FreeTyped, PoolCells DEF Pools!Free, Pools!FreeAgain, Pools!CrashInFree, Pools!Crash
<1>3. CASE Pools!Clear \/ \E x \in 1 .. 3 : Pools!CrashInClear(x)
  BY <1>3, ClearCuts DEF Pools!Clear, Pools!CrashInClear, Pools!Crash, PoolOK
<1>4. CASE Pools!Restart
  BY <1>4, RecoveredTyped DEF Pools!Restart
<1> QED BY <1>1, <1>2, <1>3, <1>4 DEF Pools!Next

LEMMA PoolRestart ==
  ASSUME NEW u, NEW n, NEW g, NEW k, Kept(pool, held, damage, u, n, g, k), Pools!Restart
  PROVE  Whole' /\ Pools!CellsKept
<1>1. /\ PoolOK(pool, u, n, g, k) /\ held \subseteq Members(u, n)
      /\ damage = "none" => held = Members(u, n) /\ Exact(pool, u, n, g, k)
  BY DEF Kept
<1>2. /\ pool' = Pools!Recovered(pool) /\ ~Pools!RecoverAsserts(pool)
      /\ held' = held /\ damage' = damage
  BY DEF Pools!Restart
<1>3. pool'.used_num = pool.used_num
  BY <1>1, <1>2, RecoveredKeeps
<1>4. PICK h, c : /\ PoolOK(pool', u, n, h, c)
                  /\ Exact(pool, u, n, g, k) => Exact(pool', u, n, h, c)
  BY <1>1, <1>2, RecoveredKeeps
<1>5. Kept(pool', held', damage', u, n, h, c)
  BY <1>1, <1>2, <1>4 DEF Kept
<1>6. Pools!UsedList(pool') = Backwards(u, n) /\ Pools!UsedList(pool) = Backwards(u, n)
  BY <1>1, <1>4, PoolLists
<1> QED BY <1>3, <1>5, <1>6 DEF Whole, Pools!CellsKept

LEMMA PoolStep ==
  ASSUME PoolInv, Pools!Next
  PROVE  PoolInv' /\ (damage # "torn" /\ Pools!Restart => Pools!CellsKept)
<1>1. ASSUME Pools!Clear \/ \E x \in 1 .. 3 : Pools!CrashInClear(x) PROVE Whole'
  BY <1>1, PoolClear
<1>2. ASSUME damage = "torn", ~Pools!Clear PROVE Whole'
  BY <1>2 DEF Pools!Next, Pools!Alloc, Pools!Free, Pools!FreeAgain, Pools!Restart, Pools!CrashInAlloc,
              Pools!CrashInFree, Pools!CrashInClear, Pools!Crash, Whole
<1>3. ASSUME damage # "torn" PROVE Whole' /\ (Pools!Restart => Pools!CellsKept)
  <2>1. PICK u, n, g, k : Kept(pool, held, damage, u, n, g, k)
    BY <1>3 DEF PoolInv, Whole
  <2>2. ASSUME Pools!Restart PROVE Whole' /\ Pools!CellsKept
    BY <2>1, <2>2, PoolRestart
  <2>3. ASSUME Pools!Alloc \/ \E x \in 1 .. 6 : Pools!CrashInAlloc(x) PROVE Whole'
    BY <1>3, <2>1, <2>3, PoolAlloc
  <2>4. ASSUME NEW i, Pools!Free(i) \/ \E x \in 1 .. 6 : Pools!CrashInFree(i, x) PROVE Whole'
    BY <1>3, <2>1, <2>4, PoolFree
  <2>5. ASSUME NEW i, Pools!FreeAgain(i) PROVE Whole'
    <3>1. UNCHANGED <<pool, held, damage>>
      BY <2>1, <2>5, PoolFreeAgain
    <3> QED BY <2>1, <3>1 DEF Whole
  <2> QED BY <1>1, <2>2, <2>3, <2>4, <2>5 DEF Pools!Next
<1> QED BY <1>1, <1>2, <1>3, PoolStepTyped DEF PoolInv

\* How many cells a list has.
LEMMA MembersCount ==
  ASSUME NEW m, NEW n, NEW a, Lists(a, n, m)
  PROVE  Pools!Cardinality(Members(a, n)) = n
<1>1. n \in Nat
  BY DEF Lists
<1>2. IsFiniteSet(1 .. n) /\ Cardinality(1 .. n) = n
  BY <1>1, FS_Interval
<1>3. [k \in 1 .. n |-> a[k]] \in Bijection(1 .. n, Members(a, n))
  BY DEF Bijection, Injection, IsInjective, Surjection, Lists, Members
<1>4. Cardinality(1 .. n) = Cardinality(Members(a, n))
  BY <1>3, <1>2, FS_Bijection DEF ExistsBijection
<1>5. Pools!Cardinality(Members(a, n)) = Cardinality(Members(a, n))
  BY Zenon DEF Cardinality, Pools!Cardinality
<1> QED BY <1>2, <1>4, <1>5

LEMMA PoolInvSays == PoolInv => Pools!PoolIsExact /\ Pools!NeverHandedOutTwice
<1> SUFFICES ASSUME PoolInv PROVE Pools!PoolIsExact /\ Pools!NeverHandedOutTwice
  OBVIOUS
<1> SUFFICES ASSUME damage # "torn" PROVE Pools!PoolIsExact /\ Pools!HandsOutFreeCell
  BY DEF Pools!PoolIsExact, Pools!NeverHandedOutTwice
<1>1. PICK u, n, g, k : Kept(pool, held, damage, u, n, g, k)
  BY DEF PoolInv, Whole
<1>2. PoolOK(pool, u, n, g, k) /\ held \subseteq Members(u, n)
  BY <1>1 DEF Kept
<1>3. Pools!HandsOutFreeCell
  BY <1>2, AllocTakes, PoolCells DEF Pools!HandsOutFreeCell
<1>4. ASSUME damage = "none" PROVE Pools!PoolIsExact
  <2>1. held = Members(u, n) /\ Exact(pool, u, n, g, k)
    BY <1>1, <1>4 DEF Kept
  <2>2. Lists(u, n, N) /\ Lists(g, k, N) /\ n \in Nat /\ k \in Nat
    BY <1>2 DEF PoolOK, InUse, GivenBack, Lists
  <2>3. Pools!UsedList(pool) = Backwards(u, n) /\ Pools!ReclaimList(pool) = Backwards(g, k)
    BY <1>2, PoolLists
  <2>4. /\ Pools!CellsOf(Pools!UsedList(pool)) = Members(u, n) /\ Len(Pools!UsedList(pool)) = n
        /\ Pools!CellsOf(Pools!ReclaimList(pool)) = Members(g, k) /\ Len(Pools!ReclaimList(pool)) = k
    BY <2>2, <2>3, BackwardsRange
  <2>5. Pools!Cardinality(held) = n
    BY <2>1, <2>2, MembersCount
  <2>6. /\ pool.used_num = n /\ pool.raw_used_num = n + k
        /\ Members(u, n) \cup Members(g, k) = 1 .. pool.raw_used_num
        /\ Members(u, n) \cap Members(g, k) = {}
    BY <1>2, <2>1 DEF Exact, PoolOK
  <2>7. Members(g, k) = 1 .. pool.raw_used_num \ held
    BY <2>1, <2>6
  <2>8. k = pool.raw_used_num - n
    BY <2>2, <2>6
  <2>9. ASSUME NEW i \in held \cup {0} PROVE pool.prev[pool.next[i]] = i
    <3>1. Ring(pool.prev, pool.next, u, n)
      BY <1>2 DEF PoolOK, InUse
    <3>2. i = 0 \/ \E o \in 1 .. n : i = u[o]
      BY <2>1 DEF Members
    <3>3. PICK o \in 1 .. (n + 1) : i = u[o]
      <4>1. n + 1 \in 1 .. (n + 1) /\ u[n + 1] = 0 /\ \A o \in 1 .. n : o \in 1 .. (n + 1)
        BY <2>2 DEF Lists
      <4> QED BY <4>1, <3>2
    <3>4. o - 1 \in 0 .. n /\ (o - 1) + 1 = o
      BY <2>2
    <3>5. pool.next[u[o]] = u[o - 1] /\ pool.prev[u[o - 1]] = u[o]
      BY <3>1, <3>4 DEF Ring
    <3> QED BY <3>3, <3>5
  <2>10. \A i \in Members(g, k) : ~Pools!IsLive(pool, i)
    BY <1>2, LiveAreInUse
  <2> QED BY <2>1, <2>4, <2>5, <2>6, <2>7, <2>8, <2>9, <2>10 DEF Pools!PoolIsExact
<1> QED BY <1>3, <1>4 DEF Pools!PoolIsExact

------------------------------------------------------------------------------
LEMMA PoolsInit == Init => (kind = "pool" => PoolInv)
  BY PoolInvInit DEF Init

LEMMA PoolsNext ==
  ASSUME kind = "pool" => PoolInv, [Next]_vars
  PROVE  /\ kind' = "pool" => PoolInv'
         /\ kind = "pool" /\ damage # "torn" /\ Pools!Restart => Pools!CellsKept
<1>1. CASE kind # "pool"
  BY <1>1 DEF Next, RingNext, PoolNext, KeyNext, vars
<1>2. CASE kind = "pool" /\ PoolNext
  BY <1>2, PoolStep DEF PoolNext
<1>3. CASE kind = "pool" /\ UNCHANGED vars
  BY <1>2, <1>3 DEF PoolInv, Whole, vars, poolVars, Pools!CellsKept
<1> QED BY <1>1, <1>2, <1>3 DEF Next, RingNext, KeyNext

\* In a pool, until a crash and again from the next clear on, the cells in use are those the user holds, the
\* cells given back are the others below raw_used_num, and used_num counts
\* (alloc, free, clear and init of fixed_mem_pool.h).
THEOREM PoolStaysExact == Spec => []PoolIsExact
<1>1. Init => (kind = "pool" => PoolInv)
  BY PoolsInit
<1>2. (kind = "pool" => PoolInv) /\ [Next]_vars => (kind = "pool" => PoolInv)'
  BY PoolsNext
<1>3. (kind = "pool" => PoolInv) => PoolIsExact
  BY PoolInvSays DEF PoolIsExact
<1> QED BY <1>1, <1>2, <1>3, PTL DEF Spec

\* After any number of crashes inside its operations alloc hands out no cell
\* that its user holds, unless one of them, since the last clear, has cut it off
\* where it tears the pool: between the two stores that splice a cell in
\* (fixed_mem_pool.h:119-120) or out (142-143), or while init(check) has reset
\* raw_used_num but not yet reclaim_list and link 0 (213-219).
THEOREM CellsHaveOneHolder == Spec => []NeverHandedOutTwice
<1>1. Init => (kind = "pool" => PoolInv)
  BY PoolsInit
<1>2. (kind = "pool" => PoolInv) /\ [Next]_vars => (kind = "pool" => PoolInv)'
  BY PoolsNext
<1>3. (kind = "pool" => PoolInv) => NeverHandedOutTwice
  BY PoolInvSays DEF NeverHandedOutTwice
<1> QED BY <1>1, <1>2, <1>3, PTL DEF Spec

\* The restart of ProtectedMemPool, which allocates and frees every cell that
\* is left, leaves the list of the cells in use and used_num as they were, unless
\* a crash has torn the pool.
THEOREM RecoveryIsNeutral == Spec => RecoveryKeepsCells
<1>1. Init => (kind = "pool" => PoolInv)
  BY PoolsInit
<1>2. (kind = "pool" => PoolInv) /\ [Next]_vars => (kind = "pool" => PoolInv)'
  BY PoolsNext
<1>3. (kind = "pool" => PoolInv) /\ [Next]_vars =>
        [kind = "pool" /\ damage # "torn" /\ Pools!Restart => Pools!CellsKept]_vars
  BY PoolsNext
<1> QED BY <1>1, <1>2, <1>3, PTL DEF Spec, RecoveryKeepsCells

------------------------------------------------------------------------------
(***************************************************************************)
(* The containers of keys.  Of each, the cells are shared out: n are in    *)
(* use, in the order an iteration meets them, k are free, the others were  *)
(* never used.                                                             *)
(***************************************************************************)
Share(u, n, g, k, raw, m) ==
  /\ Lists(u, n, m) /\ Lists(g, k, m)
  /\ Members(u, n) \cap Members(g, k) = {}
  /\ Members(u, n) \cup Members(g, k) = 1 .. raw
  /\ raw \in 0 .. m /\ raw = n + k

\* The cell behind the oldest.
Behind(a, i) == [k \in Int |-> IF k = 1 THEN i ELSE a[k - 1]]

\* The other way around.
Reversed(a, n) == [k \in Int |-> a[n + 1 - k]]

\* The values in the cells of a list, newest first.
ValuesOf(v, a, n) == [j \in 1 .. n |-> v[a[n + 1 - j]]]

\* Nothing but cells in use and free cells has been used.
LEMMA NothingShared ==
  ASSUME NEW m \in Nat
  PROVE  Share(NoCells, 0, NoCells, 0, 0, m)
  BY DEF Share, Lists, NoCells, Members

\* A free cell, or one never used, can be taken, and is free no longer.
LEMMA TakesCell ==
  ASSUME NEW m \in Nat, NEW u, NEW n, NEW g, NEW k, NEW raw, Share(u, n, g, k, raw, m), n < m,
         NEW next, NEW free, Chain(next, free, g, k)
  PROVE  LET i == IF free = 0 THEN raw + 1 ELSE free
             c == IF free = 0 THEN k ELSE k - 1
             h == IF free = 0 THEN g ELSE Without(g, k)
             r == IF free = 0 THEN raw + 1 ELSE raw
             f == IF free = 0 THEN free ELSE next[free]
         IN /\ i \in 1 .. m /\ i \notin Members(u, n) /\ i \notin Members(h, c)
            /\ Lists(h, c, m) /\ Members(h, c) \subseteq Members(g, k) /\ Chain(next, f, h, c)
            /\ \A w : Lists(w, n + 1, m) /\ Members(w, n + 1) = Members(u, n) \cup {i} =>
                 Share(w, n + 1, h, c, r, m)
            /\ r \in 0 .. m
<1> DEFINE i == IF free = 0 THEN raw + 1 ELSE free
           c == IF free = 0 THEN k ELSE k - 1
           h == IF free = 0 THEN g ELSE Without(g, k)
           r == IF free = 0 THEN raw + 1 ELSE raw
           f == IF free = 0 THEN free ELSE next[free]
<1>1. /\ n \in Nat /\ k \in Nat /\ raw \in Nat /\ raw <= m /\ raw = n + k
      /\ Lists(u, n, m) /\ Lists(g, k, m) /\ free = g[k]
      /\ Members(u, n) \cap Members(g, k) = {} /\ Members(u, n) \cup Members(g, k) = 1 .. raw
  BY DEF Share, Lists, Chain
<1>2. free = 0 <=> k = 0
  BY <1>1 DEF Lists
<1>3. CASE free = 0
  <2>1. k = 0 /\ i = raw + 1 /\ c = k /\ h = g /\ r = raw + 1 /\ f = free
    BY <1>2, <1>3
  <2> HIDE DEF i, c, h, r, f
  <2>2. i \in 1 .. m /\ i \notin 1 .. raw /\ r \in 0 .. m /\ r = n + 1 + k
    BY <1>1, <2>1
  <2>3. 1 .. r = 1 .. raw \cup {i}
    BY <1>1, <2>1
  <2>4. i \notin Members(u, n) /\ i \notin Members(g, k)
    BY <1>1, <2>2
  <2>5. ASSUME NEW w, Lists(w, n + 1, m), Members(w, n + 1) = Members(u, n) \cup {i}
        PROVE  Share(w, n + 1, h, c, r, m)
    BY <1>1, <2>1, <2>3, <2>4, <2>5, <2>2 DEF Share
  <2> QED BY <1>1, <2>1, <2>2, <2>4, <2>5 DEF i, c, h, r, f
<1>4. CASE free # 0
  <2>1. i = free /\ c = k - 1 /\ h = Without(g, k) /\ r = raw /\ f = next[free]
    BY <1>4
  <2> HIDE DEF i, c, h, r, f
  <2>2. k # 0 /\ k \in 1 .. k /\ i = g[k] /\ i \in 1 .. m /\ r \in 0 .. m /\ r = n + 1 + c
    BY <1>1, <1>2, <1>4, <2>1 DEF Lists
  <2>3. Lists(h, c, m) /\ Members(h, c) = Members(g, k) \ {i}
    BY <1>1, <2>1, <2>2, WithoutLists
  <2>4. i \in Members(g, k)
    BY <2>2 DEF Members
  <2>5. Chain(next, f, h, c)
    BY <1>1, <2>1, <2>2, ChainWithout
  <2>6. i \notin Members(u, n) /\ i \notin Members(h, c) /\ Members(h, c) \subseteq Members(g, k)
    BY <1>1, <2>3, <2>4
  <2>7. ASSUME NEW w, Lists(w, n + 1, m), Members(w, n + 1) = Members(u, n) \cup {i}
        PROVE  Share(w, n + 1, h, c, r, m)
    BY <1>1, <2>1, <2>3, <2>4, <2>7, <2>2 DEF Share
  <2> QED BY <2>2, <2>3, <2>5, <2>6, <2>7 DEF i, c, h, r, f
<1> QED BY <1>3, <1>4

\* A cell in use can be given back.
LEMMA GivesCell ==
  ASSUME NEW m \in Nat, NEW u, NEW n, NEW g, NEW k, NEW raw, Share(u, n, g, k, raw, m),
         NEW o \in 1 .. n,
         NEW next, NEW next2, NEW free, Chain(next, free, g, k),
         \A x \in Members(g, k) : next2[x] = next[x], next2[u[o]] = free
  PROVE  /\ Share(Without(u, o), n - 1, With(g, k, u[o]), k + 1, raw, m)
         /\ Chain(next2, u[o], With(g, k, u[o]), k + 1)
<1>1. /\ n \in Nat /\ k \in Nat /\ raw \in 0 .. m /\ raw = n + k
      /\ Lists(u, n, m) /\ Lists(g, k, m)
      /\ Members(u, n) \cap Members(g, k) = {} /\ Members(u, n) \cup Members(g, k) = 1 .. raw
  BY DEF Share, Lists
<1>2. u[o] \in 1 .. m /\ u[o] \in Members(u, n)
  BY <1>1 DEF Lists, Members
<1>3. u[o] \notin Members(g, k)
  BY <1>1, <1>2
<1> DEFINE i == u[o]
<1> HIDE DEF i
<1>4. Lists(Without(u, o), n - 1, m) /\ Members(Without(u, o), n - 1) = Members(u, n) \ {i}
  BY <1>1, WithoutLists DEF i
<1>5. Lists(With(g, k, i), k + 1, m) /\ Members(With(g, k, i), k + 1) = Members(g, k) \cup {i}
  BY <1>1, <1>2, <1>3, WithLists DEF i
<1>6. Chain(next2, i, With(g, k, i), k + 1)
  BY <1>1, <1>2, <1>3, ChainWith DEF i
<1>7. i \in Members(u, n) /\ raw = (n - 1) + (k + 1)
  BY <1>1, <1>2 DEF i
<1>8. Share(Without(u, o), n - 1, With(g, k, i), k + 1, raw, m)
  BY <1>1, <1>4, <1>5, <1>7 DEF Share
<1> QED BY <1>6, <1>8 DEF i

\* A list with one cell more at its other end.
LEMMA BehindLists ==
  ASSUME NEW m \in Nat, NEW n, NEW a, Lists(a, n, m), NEW i \in 1 .. m, i \notin Members(a, n)
  PROVE  /\ Lists(Behind(a, i), n + 1, m)
         /\ Members(Behind(a, i), n + 1) = Members(a, n) \cup {i}
<1> DEFINE b == Behind(a, i)
<1>1. n \in Nat /\ b \in [Int -> 0 .. m] /\ \A k \in Int : b[k] = IF k = 1 THEN i ELSE a[k - 1]
  BY DEF Behind, Lists
<1> HIDE DEF b
<1>2. \A k \in 1 .. n : a[k] # i
  BY DEF Members
<1> USE DEF Lists
<1>3. \A k \in Int : b[k] = 0 <=> k \notin 1 .. (n + 1)
  BY <1>1
<1>4. \A j, k \in 1 .. (n + 1) : b[j] = b[k] => j = k
  BY <1>1, <1>2
<1>5. ASSUME NEW k \in 1 .. (n + 1) PROVE b[k] \in Members(a, n) \cup {i}
  BY <1>1 DEF Members
<1>6. ASSUME NEW k \in 1 .. n PROVE \E j \in 1 .. (n + 1) : b[j] = a[k]
  <2>1. k + 1 \in 1 .. (n + 1) /\ b[k + 1] = a[k]
    BY <1>1
  <2> QED BY <2>1
<1>7. 1 \in 1 .. (n + 1) /\ b[1] = i
  BY <1>1
<1>8. Members(b, n + 1) = Members(a, n) \cup {i}
  BY <1>5, <1>6, <1>7 DEF Members
<1> QED BY <1>1, <1>3, <1>4, <1>8 DEF b

\* A cell is put into the ring in front of link 0.
LEMMA RingBehind ==
  ASSUME NEW m \in Nat, NEW n, NEW a, NEW i \in 1 .. m,
         NEW prev, NEW next, NEW prev2, NEW next2,
         Lists(a, n, m), Ring(prev, next, a, n), i \notin Members(a, n),
         SplicedIn(next, prev, next2, prev2, i, m)
  PROVE  Ring(prev2, next2, Behind(a, i), n + 1)
<1> DEFINE b == Behind(a, i)
<1>1. \A k \in Int : b[k] = IF k = 1 THEN i ELSE a[k - 1]
  BY DEF Behind
<1>2. \A k \in 1 .. n : a[k] # i
  BY DEF Members
<1> HIDE DEF b
<1> USE DEF Lists
<1>3. prev[0] = a[1] /\ a[n + 1] = 0 /\ a[0] = 0 /\ n \in Nat
  BY DEF Ring
<1>0. ASSUME NEW x \in 0 .. m
      PROVE  /\ prev2[x] = IF x = 0 THEN i ELSE IF x = i THEN a[1] ELSE prev[x]
             /\ next2[x] = IF x = a[1] THEN i ELSE IF x = i THEN 0 ELSE next[x]
  BY <1>3 DEF SplicedIn
<1> SUFFICES ASSUME NEW k \in 0 .. (n + 1)
             PROVE  next2[b[k + 1]] = b[k] /\ prev2[b[k]] = b[k + 1]
  BY DEF Ring, b
<1>4. CASE k >= 2
  <2>1. b[k] = a[k - 1] /\ b[k + 1] = a[k] /\ k - 1 \in 1 .. n
    BY <1>1, <1>4
  <2>2. next[a[k]] = a[k - 1] /\ prev[a[k - 1]] = a[k]
    BY <1>4 DEF Ring
  <2>3. a[k - 1] # 0 /\ a[k - 1] # i /\ a[k - 1] \in 0 .. m
    BY <1>2, <2>1
  <2>4. a[k] # a[1] /\ a[k] # i /\ a[k] \in 0 .. m
    BY <1>2, <1>3, <1>4
  <2> QED BY <1>0, <2>1, <2>2, <2>3, <2>4
<1>5. CASE k = 0
  BY <1>1, <1>3, <1>5, <1>2, <1>0
<1>6. CASE k = 1
  BY <1>1, <1>6, <1>0
<1> QED BY <1>4, <1>5, <1>6

\* A ring is a chain, and read from its other end it is one as well.
LEMMA RingForwards ==
  ASSUME NEW m, NEW n, NEW a, Lists(a, n, m), NEW prev, NEW next, Ring(prev, next, a, n)
  PROVE  Chain(next, next[0], a, n)
  BY DEF Lists, Ring, Chain

LEMMA RingBackwards ==
  ASSUME NEW m \in Nat, NEW n, NEW a, Lists(a, n, m), NEW prev, NEW next, Ring(prev, next, a, n)
  PROVE  /\ Lists(Reversed(a, n), n, m) /\ Members(Reversed(a, n), n) = Members(a, n)
         /\ Chain(prev, prev[0], Reversed(a, n), n)
         /\ Backwards(Reversed(a, n), n) = [k \in 1 .. n |-> a[k]]
<1> DEFINE b == Reversed(a, n)
<1>1. \A k \in Int : b[k] = a[n + 1 - k]
  BY DEF Reversed
<1>2. n \in Nat /\ a \in [Int -> 0 .. m] /\ b \in [Int -> 0 .. m]
  BY DEF Reversed, Lists
<1> HIDE DEF b
<1>3. Lists(b, n, m)
  BY <1>1, <1>2 DEF Lists
<1>4. Members(b, n) = Members(a, n)
  BY <1>1, <1>2 DEF Members
<1>5. prev[0] = b[n]
  BY <1>1, <1>2 DEF Lists, Ring
<1>6. ASSUME NEW k \in 1 .. n PROVE prev[b[k]] = b[k - 1]
  BY <1>1, <1>2 DEF Ring
<1>7. Backwards(b, n) = [k \in 1 .. n |-> a[k]]
  BY <1>1, <1>2 DEF Backwards
<1> QED BY <1>3, <1>4, <1>5, <1>6, <1>7 DEF Chain, b

\* What happens to the values of a list.
LEMMA RemovingShifts ==
  ASSUME NEW S, NEW s \in Seq(S), NEW k \in 1 .. Len(s)
  PROVE  /\ Abstract!RemoveAt(s, k) \in Seq(S)
         /\ Len(Abstract!RemoveAt(s, k)) = Len(s) - 1
         /\ \A i \in 1 .. (Len(s) - 1) :
              Abstract!RemoveAt(s, k)[i] = IF i < k THEN s[i] ELSE s[i + 1]
<1> DEFINE front == SubSeq(s, 1, k - 1)
           back == SubSeq(s, k + 1, Len(s))
<1>1. k \in 1 .. Len(s) /\ Len(s) \in Nat
  OBVIOUS
<1>2. /\ front \in Seq(S) /\ Len(front) = k - 1
      /\ \A i \in 1 .. (k - 1) : front[i] = s[i]
  BY <1>1, SubSeqProperties
<1>3. /\ back \in Seq(S) /\ Len(back) = Len(s) - k
      /\ \A i \in 1 .. (Len(s) - k) : back[i] = s[k + i]
  BY <1>1, SubSeqProperties
<1> DEFINE both == front \o back
<1>4. Abstract!RemoveAt(s, k) = both
  BY DEF Abstract!RemoveAt
<1> HIDE DEF front, back
<1>5. /\ both \in Seq(S)
      /\ Len(both) = Len(s) - 1
      /\ \A i \in 1 .. (Len(s) - 1) : both[i] = IF i <= k - 1 THEN front[i] ELSE back[i - (k - 1)]
  <2>1. /\ both \in Seq(S) /\ Len(both) = Len(front) + Len(back)
        /\ \A i \in 1 .. (Len(front) + Len(back)) :
             both[i] = IF i <= Len(front) THEN front[i] ELSE back[i - Len(front)]
    BY <1>2, <1>3, ConcatProperties
  <2>2. Len(front) + Len(back) = Len(s) - 1 /\ Len(front) = k - 1
    BY <1>1, <1>2, <1>3
  <2> HIDE DEF both
  <2> QED BY <2>1, <2>2
<1> HIDE DEF both
<1>6. ASSUME NEW i \in 1 .. (Len(s) - 1)
      PROVE  both[i] = IF i < k THEN s[i] ELSE s[i + 1]
  BY <1>1, <1>2, <1>5, <1>3
<1> QED BY <1>4, <1>5, <1>6

\* There is a value of K in every cell.
Valued(v, m, K) == v \in [1 .. m -> K]

LEMMA ValuesAre ==
  ASSUME NEW m \in Nat, NEW n, NEW a, Lists(a, n, m), NEW K, NEW v, Valued(v, m, K)
  PROVE  /\ ValuesOf(v, a, n) \in Seq(K) /\ Len(ValuesOf(v, a, n)) = n
         /\ \A j \in 1 .. n : ValuesOf(v, a, n)[j] = v[a[n + 1 - j]]
  BY DEF Lists, ValuesOf, Valued

\* Two sequences of the same length with the same elements are the same.
LEMMA SameSeq ==
  ASSUME NEW K, NEW s \in Seq(K), NEW t \in Seq(K), Len(s) = Len(t),
         \A i \in 1 .. Len(s) : s[i] = t[i]
  PROVE  s = t
  OBVIOUS

\* s with x in front.
Prepended(x, s) == <<x>> \o s

LEMMA ValuesWith ==
  ASSUME NEW m \in Nat, NEW n, NEW a, Lists(a, n, m), NEW i \in 1 .. m, i \notin Members(a, n),
         NEW K, NEW v, Valued(v, m, K), NEW x \in K
  PROVE  ValuesOf([v EXCEPT ![i] = x], With(a, n, i), n + 1) = Prepended(x, ValuesOf(v, a, n))
<1> DEFINE w == [v EXCEPT ![i] = x]
           b == With(a, n, i)
           s == ValuesOf(w, b, n + 1)
           t == <<x>> \o ValuesOf(v, a, n)
<1>1. n \in Nat /\ Valued(w, m, K) /\ w[i] = x /\ \A y \in 1 .. m : y # i => w[y] = v[y]
  BY DEF Lists, Valued
<1>2. Lists(b, n + 1, m) /\ \A j \in Int : b[j] = IF j = n + 1 THEN i ELSE a[j]
  BY WithLists DEF With
<1> HIDE DEF w, b
<1>3. s \in Seq(K) /\ Len(s) = n + 1 /\ \A j \in 1 .. (n + 1) : s[j] = w[b[(n + 1) + 1 - j]]
  <2>1. Valued(w, m, K) /\ Lists(b, n + 1, m)
    BY <1>1, <1>2
  <2> QED BY <2>1, ValuesAre
<1>4. /\ ValuesOf(v, a, n) \in Seq(K) /\ Len(ValuesOf(v, a, n)) = n
      /\ \A j \in 1 .. n : ValuesOf(v, a, n)[j] = v[a[n + 1 - j]]
  BY ValuesAre
<1>5. t \in Seq(K) /\ Len(t) = n + 1 /\ t[1] = x /\ \A j \in 2 .. (n + 1) : t[j] = ValuesOf(v, a, n)[j - 1]
  BY <1>1, <1>4
<1> HIDE DEF s, t
<1>6. ASSUME NEW j \in 1 .. (n + 1) PROVE s[j] = t[j]
  <2>1. CASE j = 1
    <3>1. b[(n + 1) + 1 - j] = i
      BY <1>1, <1>2, <2>1
    <3> QED BY <1>1, <1>3, <1>5, <2>1, <3>1
  <2>2. CASE j # 1
    <3>1. /\ j - 1 \in 1 .. n /\ j \in 2 .. (n + 1) /\ (n + 1) + 1 - j \in 1 .. n
          /\ (n + 1) + 1 - j # n + 1 /\ n + 1 - (j - 1) = (n + 1) + 1 - j
      BY <1>1, <2>2
    <3> DEFINE l == (n + 1) + 1 - j
    <3>2. l \in 1 .. n /\ l # n + 1 /\ n + 1 - (j - 1) = l /\ s[j] = w[b[l]]
      BY <1>3, <3>1
    <3> HIDE DEF l
    <3>3. b[l] = a[l] /\ a[l] \in 1 .. m /\ a[l] # i
      BY <1>1, <1>2, <3>2 DEF Lists, Members
    <3>4. t[j] = v[a[l]]
      BY <1>4, <1>5, <3>1, <3>2
    <3> QED BY <1>1, <3>2, <3>3, <3>4
  <2> QED BY <2>1, <2>2
<1>7. s = t
  BY <1>3, <1>5, <1>6, SameSeq
<1> QED BY <1>7 DEF s, t, w, b, Prepended

\* One value is put into a cell.
Stores(w, v, i, x) == w = [v EXCEPT ![i] = x]

LEMMA ValuesBehind ==
  ASSUME NEW m \in Nat, NEW n, NEW a, Lists(a, n, m), NEW i \in 1 .. m, i \notin Members(a, n),
         NEW K, NEW v, Valued(v, m, K), NEW x \in K, NEW w, Stores(w, v, i, x)
  PROVE  ValuesOf(w, Behind(a, i), n + 1) = Append(ValuesOf(v, a, n), x)
<1> DEFINE b == Behind(a, i)
           s == ValuesOf(w, b, n + 1)
           t == Append(ValuesOf(v, a, n), x)
<1>1. n \in Nat /\ Valued(w, m, K) /\ w[i] = x /\ \A y \in 1 .. m : y # i => w[y] = v[y]
  BY DEF Lists, Valued, Stores
<1>2. Lists(b, n + 1, m) /\ \A j \in Int : b[j] = IF j = 1 THEN i ELSE a[j - 1]
  BY BehindLists DEF Behind
<1> HIDE DEF b
<1>3. s \in Seq(K) /\ Len(s) = n + 1 /\ \A j \in 1 .. (n + 1) : s[j] = w[b[(n + 1) + 1 - j]]
  <2>1. Valued(w, m, K) /\ Lists(b, n + 1, m)
    BY <1>1, <1>2
  <2> QED BY <2>1, ValuesAre
<1>4. /\ ValuesOf(v, a, n) \in Seq(K) /\ Len(ValuesOf(v, a, n)) = n
      /\ \A j \in 1 .. n : ValuesOf(v, a, n)[j] = v[a[n + 1 - j]]
  BY ValuesAre
<1>5. t \in Seq(K) /\ Len(t) = n + 1 /\ t[n + 1] = x /\ \A j \in 1 .. n : t[j] = ValuesOf(v, a, n)[j]
  BY <1>1, <1>4
<1> HIDE DEF s, t
<1>6. ASSUME NEW j \in 1 .. (n + 1) PROVE s[j] = t[j]
  <2>1. CASE j = n + 1
    <3>1. b[(n + 1) + 1 - j] = i
      BY <1>1, <1>2, <2>1
    <3> QED BY <1>1, <1>3, <1>5, <2>1, <3>1
  <2>2. CASE j # n + 1
    <3> DEFINE l == n + 1 - j
    <3>1. j \in 1 .. n /\ l \in 1 .. n /\ (n + 1) + 1 - j = l + 1
      BY <1>1, <2>2
    <3>2. s[j] = w[b[l + 1]] /\ ValuesOf(v, a, n)[j] = v[a[l]]
      BY <1>3, <1>4, <3>1
    <3> HIDE DEF l
    <3>3. b[l + 1] = a[l] /\ a[l] \in 1 .. m /\ a[l] # i
      BY <1>1, <1>2, <3>1 DEF Lists, Members
    <3>4. t[j] = v[a[l]]
      BY <1>5, <3>1, <3>2
    <3> QED BY <1>1, <3>2, <3>3, <3>4
  <2> QED BY <2>1, <2>2
<1>7. s = t
  BY <1>3, <1>5, <1>6, SameSeq
<1> QED BY <1>7 DEF s, t, b

\* The o-th oldest is the one before the last o - 1.
LEMMA ValuesWithout ==
  ASSUME NEW m \in Nat, NEW n, NEW a, Lists(a, n, m), NEW o \in 1 .. n,
         NEW K, NEW v, Valued(v, m, K)
  PROVE  ValuesOf(v, Without(a, o), n - 1) = Abstract!RemoveAt(ValuesOf(v, a, n), n + 1 - o)
<1> DEFINE b == Without(a, o)
           s == ValuesOf(v, b, n - 1)
           z == ValuesOf(v, a, n)
           t == Abstract!RemoveAt(z, n + 1 - o)
<1>1. n \in Nat /\ n + 1 - o \in 1 .. n
  BY DEF Lists
<1>2. Lists(b, n - 1, m) /\ \A j \in Int : b[j] = IF j < o THEN a[j] ELSE a[j + 1]
  BY WithoutLists DEF Without
<1> HIDE DEF b
<1>3. s \in Seq(K) /\ Len(s) = n - 1 /\ \A j \in 1 .. (n - 1) : s[j] = v[b[(n - 1) + 1 - j]]
  <2> DEFINE e == n - 1
  <2>1. Lists(b, e, m)
    BY <1>2
  <2> HIDE DEF e
  <2>2. /\ ValuesOf(v, b, e) \in Seq(K) /\ Len(ValuesOf(v, b, e)) = e
        /\ \A j \in 1 .. e : ValuesOf(v, b, e)[j] = v[b[e + 1 - j]]
    BY <2>1, ValuesAre
  <2> QED BY <2>2 DEF e
<1>4. z \in Seq(K) /\ Len(z) = n /\ \A j \in 1 .. n : z[j] = v[a[n + 1 - j]]
  BY ValuesAre
<1> HIDE DEF s, z
<1>5. /\ t \in Seq(K) /\ Len(t) = n - 1
      /\ \A j \in 1 .. (n - 1) : t[j] = IF j < n + 1 - o THEN z[j] ELSE z[j + 1]
  BY <1>1, <1>4, RemovingShifts
<1> HIDE DEF t
<1>6. ASSUME NEW j \in 1 .. (n - 1) PROVE s[j] = t[j]
  <2>1. (n - 1) + 1 - j = n - j /\ n - j \in 1 .. (n - 1) /\ n - j \in Int /\ s[j] = v[b[n - j]]
    BY <1>1, <1>3
  <2>2. CASE j < n + 1 - o
    <3>1. ~(n - j < o) /\ (n - j) + 1 = n + 1 - j /\ j \in 1 .. n
      BY <1>1, <2>2
    <3>2. b[n - j] = a[n + 1 - j]
      BY <1>2, <2>1, <3>1
    <3> QED BY <1>4, <1>5, <2>1, <2>2, <3>1, <3>2
  <2>3. CASE ~(j < n + 1 - o)
    <3>1. n - j < o /\ n - j = n + 1 - (j + 1) /\ j + 1 \in 1 .. n
      BY <1>1, <2>3
    <3>2. b[n - j] = a[n - j]
      BY <1>2, <2>1, <3>1
    <3> QED BY <1>4, <1>5, <2>1, <2>3, <3>1, <3>2
  <2> QED BY <2>2, <2>3
<1>7. s = t
  BY <1>3, <1>5, <1>6, SameSeq
<1> QED BY <1>7 DEF s, t, z, b

\* The least member of a set of numbers.
LEMMA LeastOf ==
  ASSUME NEW T \in SUBSET Nat, T # {}
  PROVE  LET n == CHOOSE x \in T : \A y \in T : x =< y
         IN  n \in T /\ \A y \in T : n =< y
  BY LeastNat

LEMMA OnlyLeast ==
  ASSUME NEW T \in SUBSET Nat, NEW j \in T, \A y \in T : j =< y
  PROVE  (CHOOSE x \in T : \A y \in T : x =< y) = j
<1> DEFINE n == CHOOSE x \in T : \A y \in T : x =< y
<1>1. n \in T /\ \A y \in T : n =< y
  BY LeastOf
<1> HIDE DEF n
<1>2. n = j
  BY <1>1
<1> QED BY <1>2 DEF n

\* The first x goes.
LEMMA FirstRemoved ==
  ASSUME NEW K, NEW s \in Seq(K), NEW x, NEW j \in 1 .. Len(s), s[j] = x,
         \A h \in 1 .. Len(s) : s[h] = x => j =< h
  PROVE  Abstract!RemoveFirst(s, x) = Abstract!RemoveAt(s, j) /\ x \in Abstract!Elements(s)
<1> DEFINE IsFirst(h) == s[h] = x /\ \A m \in 1 .. (h - 1) : s[m] # x
           p == CHOOSE h \in DOMAIN s : IsFirst(h)
<1>1. j \in DOMAIN s /\ DOMAIN s = 1 .. Len(s) /\ Len(s) \in Nat
  OBVIOUS
<1>2. IsFirst(j)
  BY <1>1
<1>3. ASSUME NEW h \in DOMAIN s, IsFirst(h) PROVE h = j
  BY <1>1, <1>3
<1>4. Abstract!RemoveFirst(s, x) = Abstract!RemoveAt(s, p)
  BY Zenon DEF Abstract!RemoveFirst
<1> HIDE DEF IsFirst
<1>5. p \in DOMAIN s /\ IsFirst(p)
  BY <1>1, <1>2, Zenon
<1>6. p = j
  BY <1>3, <1>5, Zenon
<1>7. x \in Abstract!Elements(s)
  BY <1>1 DEF Abstract!Elements
<1> HIDE DEF p
<1> QED BY <1>4, <1>6, <1>7

LEMMA RemovingEnds ==
  ASSUME NEW K, NEW s \in Seq(K), s # <<>>
  PROVE  /\ Abstract!RemoveAt(s, 1) = Tail(s)
         /\ Abstract!RemoveAt(s, Len(s)) = SubSeq(s, 1, Len(s) - 1)
<1>1. Len(s) \in Nat /\ 1 \in 1 .. Len(s) /\ Len(s) \in 1 .. Len(s)
  OBVIOUS
<1>2. Abstract!RemoveAt(s, 1) = Tail(s)
  <2> DEFINE t == Abstract!RemoveAt(s, 1)
  <2>1. t \in Seq(K) /\ Len(t) = Len(s) - 1 /\ \A i \in 1 .. (Len(s) - 1) : t[i] = IF i < 1 THEN s[i] ELSE s[i + 1]
    BY <1>1, RemovingShifts
  <2>2. Tail(s) \in Seq(K) /\ Len(Tail(s)) = Len(s) - 1 /\ \A i \in 1 .. (Len(s) - 1) : Tail(s)[i] = s[i + 1]
    BY HeadTailProperties
  <2> HIDE DEF t
  <2>3. \A i \in 1 .. Len(t) : t[i] = Tail(s)[i]
    BY <1>1, <2>1, <2>2
  <2>4. t = Tail(s)
    BY <2>1, <2>2, <2>3, SameSeq
  <2> QED BY <2>4 DEF t
<1>3. Abstract!RemoveAt(s, Len(s)) = SubSeq(s, 1, Len(s) - 1)
  <2> DEFINE t == Abstract!RemoveAt(s, Len(s))
             z == SubSeq(s, 1, Len(s) - 1)
  <2>1. t \in Seq(K) /\ Len(t) = Len(s) - 1 /\ \A i \in 1 .. (Len(s) - 1) : t[i] = IF i < Len(s) THEN s[i] ELSE s[i + 1]
    BY <1>1, RemovingShifts
  <2>2. z \in Seq(K) /\ Len(z) = Len(s) - 1 /\ \A i \in 1 .. (Len(s) - 1) : z[i] = s[i]
    <3> DEFINE e == Len(s)
    <3>1. e = Len(s) /\ e \in 1 .. Len(s) /\ Len(s) \in Nat
      BY <1>1
    <3> HIDE DEF e
    <3>2. /\ SubSeq(s, 1, e - 1) \in Seq(K) /\ Len(SubSeq(s, 1, e - 1)) = e - 1
          /\ \A i \in 1 .. (e - 1) : SubSeq(s, 1, e - 1)[i] = s[i]
      BY <3>1, SubSeqProperties
    <3> QED BY <3>1, <3>2
  <2> HIDE DEF t, z
  <2>3. \A i \in 1 .. Len(t) : t[i] = z[i]
    BY <1>1, <2>1, <2>2
  <2>4. t = z
    BY <2>1, <2>2, <2>3, SameSeq
  <2> QED BY <2>4 DEF t, z
<1> QED BY <1>2, <1>3

------------------------------------------------------------------------------
(***************************************************************************)
(* MemList.                                                                *)
(***************************************************************************)
L == max_num.list
ListValues == Keys.list \cup {0}

ListType ==
  [used : 0 .. L, raw_used : 0 .. L, free_index : 0 .. L,
   prev : [0 .. L -> 0 .. L], next : [0 .. L -> 0 .. L], value : [1 .. L -> ListValues]]

ListOK(m, u, n, g, k) ==
  /\ m \in ListType
  /\ Share(u, n, g, k, m.raw_used, L) /\ m.used = n
  /\ Ring(m.prev, m.next, u, n) /\ Chain(m.next, m.free_index, g, k)

LEMMA ListCells ==
  /\ L \in Nat /\ L > 0 /\ List!Cells = 1 .. L /\ List!Links = 0 .. L
  /\ IsFiniteSet(0 .. L)
  BY ContainersAssumption, FS_Interval DEF L, List!Cells, List!Links

LEMMA ListFields ==
  ASSUME NEW m \in ListType
  PROVE  /\ m.used \in 0 .. L /\ m.raw_used \in 0 .. L /\ m.free_index \in 0 .. L
         /\ m.prev \in [0 .. L -> 0 .. L] /\ m.next \in [0 .. L -> 0 .. L]
         /\ Valued(m.value, L, ListValues)
         /\ DOMAIN m.next = 0 .. L /\ DOMAIN m.prev = 0 .. L
  BY DEF ListType, Valued

\* The walks of a list are walks.
LEMMA ListWalks ==
  ASSUME NEW next, NEW first
  PROVE  List!Walk(next, first) = Walk(next, first)
<1>1. LET bound == List!Cardinality(DOMAIN next)
          at == WalkAt(next, first, bound)
          len == List!Cardinality({n \in 0 .. (bound - 1) : at[n] # 0})
      IN List!Walk(next, first) = [k \in 1 .. len |-> at[k - 1]]
  BY Zenon DEF List!Walk, WalkAt
<1>2. \A S : List!Cardinality(S) = Cardinality(S)
  BY Zenon DEF Cardinality, List!Cardinality
<1> QED BY <1>1, <1>2, WalkIs

\* What a list looks like.
LEMMA ListIs ==
  ASSUME NEW u, NEW n, NEW g, NEW k, ListOK(data, u, n, g, k)
  PROVE  /\ n \in Nat /\ k \in Nat /\ Lists(u, n, L) /\ Lists(g, k, L)
         /\ List!InList = Backwards(u, n)
         /\ List!Walk(data.prev, data.prev[0]) = [j \in 1 .. n |-> u[j]]
         /\ List!Walk(data.next, data.free_index) = Backwards(g, k)
         /\ List!Contents = ValuesOf(data.value, u, n)
<1>1. L \in Nat /\ IsFiniteSet(0 .. L) /\ DOMAIN data.next = 0 .. L /\ DOMAIN data.prev = 0 .. L
  BY ListCells, ListFields DEF ListOK
<1>2. /\ n \in Nat /\ k \in Nat /\ Lists(u, n, L) /\ Lists(g, k, L)
      /\ Ring(data.prev, data.next, u, n) /\ Chain(data.next, data.free_index, g, k)
  BY DEF ListOK, Share, Lists
<1>3. \A a, l : Lists(a, l, L) => Members(a, l) \subseteq 0 .. L
  BY DEF Lists, Members
<1>4. Chain(data.next, data.next[0], u, n)
  BY <1>2, RingForwards
<1>5. List!InList = Backwards(u, n)
  BY <1>1, <1>2, <1>3, <1>4, ChainIsWalk, ListWalks DEF List!InList
<1>6. List!Walk(data.next, data.free_index) = Backwards(g, k)
  BY <1>1, <1>2, <1>3, ChainIsWalk, ListWalks
<1>7. List!Walk(data.prev, data.prev[0]) = [j \in 1 .. n |-> u[j]]
  <2>1. /\ Lists(Reversed(u, n), n, L) /\ Chain(data.prev, data.prev[0], Reversed(u, n), n)
        /\ Backwards(Reversed(u, n), n) = [j \in 1 .. n |-> u[j]]
    BY <1>1, <1>2, RingBackwards
  <2>2. Members(Reversed(u, n), n) \subseteq DOMAIN data.prev /\ IsFiniteSet(DOMAIN data.prev)
    BY <1>1, <1>3, <2>1
  <2>3. Walk(data.prev, data.prev[0]) = Backwards(Reversed(u, n), n)
    <3> DEFINE b == Reversed(u, n)
    <3>1. /\ Lists(b, n, L) /\ Chain(data.prev, data.prev[0], b, n)
          /\ Members(b, n) \subseteq DOMAIN data.prev /\ IsFiniteSet(DOMAIN data.prev)
      BY <2>1, <2>2
    <3> HIDE DEF b
    <3>2. Walk(data.prev, data.prev[0]) = Backwards(b, n)
      BY <3>1, ChainIsWalk
    <3> QED BY <3>2 DEF b
  <2> QED BY <2>1, <2>3, ListWalks
<1>8. List!Contents = ValuesOf(data.value, u, n)
  BY <1>2, <1>5 DEF Backwards, List!Contents, ValuesOf
<1> QED BY <1>2, <1>5, <1>6, <1>7, <1>8

\* What push_front and push_back write, with cell i the one they take.
PushWrites(m, x, before, behind, i, w) ==
  /\ w \in ListType /\ w.used = m.used + 1
  /\ w.raw_used = (IF m.free_index = 0 THEN m.raw_used + 1 ELSE m.raw_used)
  /\ w.free_index = (IF m.free_index = 0 THEN m.free_index ELSE m.next[m.free_index])
  /\ w.prev = [[m.prev EXCEPT ![behind] = i] EXCEPT ![i] = before]
  /\ w.next = [[m.next EXCEPT ![before] = i] EXCEPT ![i] = behind]
  /\ w.value = [m.value EXCEPT ![i] = x]

LEMMA BetweenIs ==
  ASSUME NEW m \in ListType, m.used < L, NEW x \in ListValues,
         NEW before \in 0 .. L, NEW behind \in 0 .. L,
         List!alloc_index(m) \in 1 .. L, m.free_index = 0 => m.raw_used < L
  PROVE  PushWrites(m, x, before, behind, List!alloc_index(m), List!Between(m, x, before, behind))
<1> DEFINE i == List!alloc_index(m)
           w == List!Between(m, x, before, behind)
           t == List!Taken(m)
<1>1. /\ L \in Nat /\ m.used \in 0 .. L /\ m.raw_used \in 0 .. L /\ m.free_index \in 0 .. L
      /\ m.prev \in [0 .. L -> 0 .. L] /\ m.next \in [0 .. L -> 0 .. L]
      /\ m.value \in [1 .. L -> ListValues]
  BY ListCells, ListFields DEF Valued
<1>0. m.used + 1 \in 0 .. L /\ (m.free_index = 0 => m.raw_used + 1 \in 0 .. L)
  <2>1. L \in Nat /\ m.used \in 0 .. L /\ m.raw_used \in 0 .. L
    BY <1>1
  <2> QED BY <2>1
<1>2. /\ t \in ListType /\ t.used = m.used /\ t.prev = m.prev /\ t.next = m.next /\ t.value = m.value
      /\ t.raw_used = (IF m.free_index = 0 THEN m.raw_used + 1 ELSE m.raw_used)
      /\ t.free_index = (IF m.free_index = 0 THEN m.free_index ELSE m.next[m.free_index])
  <2>1. CASE m.free_index = 0
    <3> DEFINE r == m.raw_used + 1
    <3>1. t = [m EXCEPT !.raw_used = r] /\ r \in 0 .. L
      BY <1>0, <2>1 DEF List!Taken
    <3>2. r = m.raw_used + 1
      OBVIOUS
    <3> HIDE DEF r, t
    <3> QED BY <1>1, <2>1, <3>1, <3>2 DEF ListType
  <2>2. CASE m.free_index # 0
    <3> DEFINE f == m.next[m.free_index]
    <3>1. t = [m EXCEPT !.free_index = f] /\ f \in 0 .. L
      BY <1>1, <2>2 DEF List!Taken
    <3>2. f = m.next[m.free_index]
      OBVIOUS
    <3> HIDE DEF f, t
    <3> QED BY <2>2, <3>1, <3>2 DEF ListType
  <2> QED BY <2>1, <2>2
<1>3. w = [t EXCEPT !.value[i] = x, !.prev = [@ EXCEPT ![behind] = i, ![i] = before],
                    !.next = [@ EXCEPT ![before] = i, ![i] = behind], !.used = @ + 1]
  BY Zenon DEF List!Between
<1> HIDE DEF i, w, t
<1>4. i \in 1 .. L /\ i \in 0 .. L
  BY DEF i
<1> DEFINE pp == [[m.prev EXCEPT ![behind] = i] EXCEPT ![i] = before]
           nn == [[m.next EXCEPT ![before] = i] EXCEPT ![i] = behind]
           vv == [m.value EXCEPT ![i] = x]
<1>5. pp \in [0 .. L -> 0 .. L] /\ nn \in [0 .. L -> 0 .. L] /\ vv \in [1 .. L -> ListValues]
  BY <1>1, <1>4
<1>6. w = [t EXCEPT !.value = vv, !.prev = pp, !.next = nn, !.used = m.used + 1]
  BY <1>2, <1>3
<1> HIDE DEF pp, nn, vv
<1>8. /\ w \in ListType /\ w.used = m.used + 1 /\ w.prev = pp /\ w.next = nn /\ w.value = vv
      /\ w.raw_used = t.raw_used /\ w.free_index = t.free_index
  BY <1>0, <1>2, <1>5, <1>6 DEF ListType
<1> QED BY <1>2, <1>8 DEF PushWrites, i, w, pp, nn, vv

\* What a call that takes cell i out writes.
PopWrites(m, i, before, behind, w) ==
  /\ w \in ListType /\ w.used = m.used - 1
  /\ w.raw_used = m.raw_used /\ w.free_index = i /\ w.value = m.value
  /\ w.prev = [m.prev EXCEPT ![behind] = before]
  /\ w.next = [[m.next EXCEPT ![before] = behind] EXCEPT ![i] = m.free_index]

LEMMA WithoutIs ==
  ASSUME NEW m \in ListType, m.used > 0, NEW i \in 1 .. L,
         NEW before \in 0 .. L, NEW behind \in 0 .. L
  PROVE  PopWrites(m, i, before, behind, List!Without(m, i, before, behind))
<1> DEFINE w == List!Without(m, i, before, behind)
           nn == [[m.next EXCEPT ![before] = behind] EXCEPT ![i] = m.free_index]
           pp == [m.prev EXCEPT ![behind] = before]
<1>1. /\ L \in Nat /\ m.used \in 0 .. L /\ m.raw_used \in 0 .. L /\ m.free_index \in 0 .. L
      /\ m.prev \in [0 .. L -> 0 .. L] /\ m.next \in [0 .. L -> 0 .. L]
  BY ListCells, ListFields
<1>0. m.used - 1 \in 0 .. L /\ i \in 0 .. L
  <2>1. L \in Nat /\ m.used \in 0 .. L
    BY <1>1
  <2> QED BY <2>1
<1>2. pp \in [0 .. L -> 0 .. L] /\ nn \in [0 .. L -> 0 .. L]
  BY <1>0, <1>1
<1>3. w = [m EXCEPT !.next = nn, !.prev = pp, !.free_index = i, !.used = m.used - 1]
  BY DEF List!Without, ListType
<1> HIDE DEF w, nn, pp
<1>4. /\ w \in ListType /\ w.used = m.used - 1 /\ w.raw_used = m.raw_used
      /\ w.free_index = i /\ w.value = m.value /\ w.prev = pp /\ w.next = nn
  BY <1>0, <1>2, <1>3 DEF ListType
<1> QED BY <1>4 DEF PopWrites, w, nn, pp

\* The list m holds the values s.
ListHolds(m, s) ==
  \E u, n, g, k : ListOK(m, u, n, g, k) /\ s = ValuesOf(m.value, u, n)

\* The cell a push takes.
LEMMA ListTakes ==
  ASSUME NEW m, NEW u, NEW n, NEW g, NEW k, ListOK(m, u, n, g, k), n < L
  PROVE  LET i == List!alloc_index(m)
             free == m.free_index
             c == IF free = 0 THEN k ELSE k - 1
             h == IF free = 0 THEN g ELSE Without(g, k)
             r == IF free = 0 THEN m.raw_used + 1 ELSE m.raw_used
             f == IF free = 0 THEN free ELSE m.next[free]
         IN /\ i \in 1 .. L /\ i \notin Members(u, n) /\ i \notin Members(h, c)
            /\ Members(h, c) \subseteq Members(g, k) /\ Chain(m.next, f, h, c)
            /\ \A w : Lists(w, n + 1, L) /\ Members(w, n + 1) = Members(u, n) \cup {i} =>
                 Share(w, n + 1, h, c, r, L)
            /\ free = 0 => m.raw_used < L
<1>1. /\ L \in Nat /\ Share(u, n, g, k, m.raw_used, L) /\ Chain(m.next, m.free_index, g, k)
  BY ListCells DEF ListOK
<1>2. List!alloc_index(m) = IF m.free_index = 0 THEN m.raw_used + 1 ELSE m.free_index
  BY DEF List!alloc_index
<1>3. m.free_index = 0 => m.raw_used < L
  <2> SUFFICES ASSUME m.free_index = 0 PROVE m.raw_used < L
    OBVIOUS
  <2>1. n \in Nat /\ k \in Nat /\ m.raw_used = n + k /\ g[k] = 0 /\ (g[k] = 0 <=> k \notin 1 .. k)
    BY <1>1 DEF Share, Lists, Chain
  <2> QED BY <2>1
<1> DEFINE free == m.free_index
           raw == m.raw_used
           next == m.next
<1>4. Share(u, n, g, k, raw, L) /\ Chain(next, free, g, k)
  BY <1>1
<1> HIDE DEF free, raw, next
<1>5. LET i == IF free = 0 THEN raw + 1 ELSE free
          c == IF free = 0 THEN k ELSE k - 1
          h == IF free = 0 THEN g ELSE Without(g, k)
          r == IF free = 0 THEN raw + 1 ELSE raw
          f == IF free = 0 THEN free ELSE next[free]
      IN /\ i \in 1 .. L /\ i \notin Members(u, n) /\ i \notin Members(h, c)
         /\ Lists(h, c, L) /\ Members(h, c) \subseteq Members(g, k) /\ Chain(next, f, h, c)
         /\ \A w : Lists(w, n + 1, L) /\ Members(w, n + 1) = Members(u, n) \cup {i} =>
              Share(w, n + 1, h, c, r, L)
         /\ r \in 0 .. L
  BY <1>1, <1>4, TakesCell
<1> QED BY <1>2, <1>3, <1>5, Zenon DEF free, raw, next

LEMMA PushesFront ==
  ASSUME NEW m, NEW u, NEW n, NEW g, NEW k, ListOK(m, u, n, g, k), n < L, NEW x \in ListValues
  PROVE  ListHolds(List!Between(m, x, 0, m.next[0]), <<x>> \o ValuesOf(m.value, u, n))
<1> DEFINE i == List!alloc_index(m)
           free == m.free_index
           c == IF free = 0 THEN k ELSE k - 1
           h == IF free = 0 THEN g ELSE Without(g, k)
           r == IF free = 0 THEN m.raw_used + 1 ELSE m.raw_used
           f == IF free = 0 THEN free ELSE m.next[free]
           w == List!Between(m, x, 0, m.next[0])
           b == With(u, n, i)
<1>1. /\ i \in 1 .. L /\ i \notin Members(u, n) /\ i \notin Members(h, c)
      /\ Members(h, c) \subseteq Members(g, k) /\ Chain(m.next, f, h, c)
      /\ \A y : Lists(y, n + 1, L) /\ Members(y, n + 1) = Members(u, n) \cup {i} =>
           Share(y, n + 1, h, c, r, L)
      /\ free = 0 => m.raw_used < L
  BY ListTakes, Zenon
<1>2. /\ L \in Nat /\ m \in ListType /\ m.used = n /\ m.used < L /\ Lists(u, n, L)
      /\ Ring(m.prev, m.next, u, n) /\ Members(u, n) \cap Members(g, k) = {}
  BY ListCells DEF ListOK, Share
<1>3. /\ m.next \in [0 .. L -> 0 .. L] /\ m.prev \in [0 .. L -> 0 .. L] /\ 0 \in 0 .. L
      /\ m.next[0] \in 0 .. L /\ Valued(m.value, L, ListValues)
  <2>1. /\ m.next \in [0 .. L -> 0 .. L] /\ m.prev \in [0 .. L -> 0 .. L]
        /\ Valued(m.value, L, ListValues)
    BY <1>2, ListFields
  <2>2. 0 \in 0 .. L
    BY <1>2
  <2> QED BY <2>1, <2>2
<1>4. m.next[0] = u[n]
  BY <1>2, RingForwards DEF Chain
<1>5. /\ w \in ListType /\ w.used = m.used + 1 /\ w.raw_used = r /\ w.free_index = f
      /\ w.prev = [[m.prev EXCEPT ![m.next[0]] = i] EXCEPT ![i] = 0]
      /\ w.next = [[m.next EXCEPT ![0] = i] EXCEPT ![i] = m.next[0]]
      /\ w.value = [m.value EXCEPT ![i] = x]
  <2>1. i \in 1 .. L /\ (m.free_index = 0 => m.raw_used < L)
    BY <1>1
  <2> HIDE DEF w, i
  <2>2. PushWrites(m, x, 0, m.next[0], i, w)
    BY <1>2, <1>3, <2>1, BetweenIs DEF w, i
  <2> QED BY <2>2 DEF PushWrites
<1> HIDE DEF i, c, h, r, f, w, b, free
<1>6. Lists(b, n + 1, L) /\ Members(b, n + 1) = Members(u, n) \cup {i}
  BY <1>1, <1>2, WithLists DEF b
<1>7. Share(b, n + 1, h, c, r, L)
  BY <1>1, <1>6
<1>8. i # m.next[0] /\ i # 0 /\ i \in 0 .. L
  BY <1>1, <1>2, <1>4 DEF Lists, Members
<1>9. \A y \in 0 .. L : /\ w.next[y] = IF y = 0 THEN i ELSE IF y = i THEN m.next[0] ELSE m.next[y]
                        /\ w.prev[y] = IF y = m.next[0] THEN i ELSE IF y = i THEN 0 ELSE m.prev[y]
  BY <1>3, <1>5, <1>8
<1>10. Ring(w.prev, w.next, b, n + 1)
  BY <1>9, <1>1, <1>2, RingWith DEF SplicedIn, b
<1>11. Chain(w.next, f, h, c)
  <2>1. ASSUME NEW y \in Members(h, c) PROVE w.next[y] = m.next[y]
    <3>1. y \in Members(g, k) /\ y # i
      BY <1>1, <2>1
    <3>2. y \in 0 .. L /\ y # 0
      BY <3>1 DEF ListOK, Share, Lists, Members
    <3> QED BY <1>9, <3>1, <3>2
  <2> QED BY <1>1, <2>1, ChainApart
<1>12. ValuesOf(w.value, b, n + 1) = <<x>> \o ValuesOf(m.value, u, n)
  <2>1. Valued(m.value, L, ListValues) /\ Lists(u, n, L) /\ i \in 1 .. L /\ i \notin Members(u, n)
    BY <1>1, <1>2, <1>3
  <2>2. ValuesOf([m.value EXCEPT ![i] = x], With(u, n, i), n + 1) = Prepended(x, ValuesOf(m.value, u, n))
    BY <1>2, <2>1, ValuesWith
  <2> QED BY <1>5, <2>2 DEF b, Prepended
<1>13. ListOK(w, b, n + 1, h, c)
  BY <1>2, <1>5, <1>7, <1>10, <1>11 DEF ListOK
<1> QED BY <1>12, <1>13 DEF ListHolds, w

LEMMA PushesBack ==
  ASSUME NEW m, NEW u, NEW n, NEW g, NEW k, ListOK(m, u, n, g, k), n < L, NEW x \in ListValues
  PROVE  ListHolds(List!Between(m, x, m.prev[0], 0), Append(ValuesOf(m.value, u, n), x))
<1> DEFINE i == List!alloc_index(m)
           free == m.free_index
           c == IF free = 0 THEN k ELSE k - 1
           h == IF free = 0 THEN g ELSE Without(g, k)
           r == IF free = 0 THEN m.raw_used + 1 ELSE m.raw_used
           f == IF free = 0 THEN free ELSE m.next[free]
           w == List!Between(m, x, m.prev[0], 0)
           b == Behind(u, i)
<1>1. /\ i \in 1 .. L /\ i \notin Members(u, n) /\ i \notin Members(h, c)
      /\ Members(h, c) \subseteq Members(g, k) /\ Chain(m.next, f, h, c)
      /\ \A y : Lists(y, n + 1, L) /\ Members(y, n + 1) = Members(u, n) \cup {i} =>
           Share(y, n + 1, h, c, r, L)
      /\ free = 0 => m.raw_used < L
  BY ListTakes, Zenon
<1>2. /\ L \in Nat /\ m \in ListType /\ m.used = n /\ m.used < L /\ Lists(u, n, L)
      /\ Ring(m.prev, m.next, u, n) /\ Members(u, n) \cap Members(g, k) = {}
  BY ListCells DEF ListOK, Share
<1>3. /\ m.next \in [0 .. L -> 0 .. L] /\ m.prev \in [0 .. L -> 0 .. L] /\ 0 \in 0 .. L
      /\ m.prev[0] \in 0 .. L /\ Valued(m.value, L, ListValues)
  <2>1. /\ m.next \in [0 .. L -> 0 .. L] /\ m.prev \in [0 .. L -> 0 .. L]
        /\ Valued(m.value, L, ListValues)
    BY <1>2, ListFields
  <2>2. 0 \in 0 .. L
    BY <1>2
  <2> QED BY <2>1, <2>2
<1>4. m.prev[0] = u[1]
  BY <1>2 DEF Lists, Ring
<1>5. /\ w \in ListType /\ w.used = m.used + 1 /\ w.raw_used = r /\ w.free_index = f
      /\ w.prev = [[m.prev EXCEPT ![0] = i] EXCEPT ![i] = m.prev[0]]
      /\ w.next = [[m.next EXCEPT ![m.prev[0]] = i] EXCEPT ![i] = 0]
      /\ w.value = [m.value EXCEPT ![i] = x]
  <2>1. i \in 1 .. L /\ (m.free_index = 0 => m.raw_used < L)
    BY <1>1
  <2> HIDE DEF w, i
  <2>2. PushWrites(m, x, m.prev[0], 0, i, w)
    BY <1>2, <1>3, <2>1, BetweenIs DEF w, i
  <2> QED BY <2>2 DEF PushWrites
<1> HIDE DEF i, c, h, r, f, w, b, free
<1>6. Lists(b, n + 1, L) /\ Members(b, n + 1) = Members(u, n) \cup {i}
  BY <1>1, <1>2, BehindLists DEF b
<1>7. Share(b, n + 1, h, c, r, L)
  BY <1>1, <1>6
<1>8. i # m.prev[0] /\ i # 0 /\ i \in 0 .. L
  BY <1>1, <1>2, <1>4 DEF Lists, Members
<1>9. \A y \in 0 .. L : /\ w.prev[y] = IF y = 0 THEN i ELSE IF y = i THEN m.prev[0] ELSE m.prev[y]
                        /\ w.next[y] = IF y = m.prev[0] THEN i ELSE IF y = i THEN 0 ELSE m.next[y]
  BY <1>3, <1>5, <1>8
<1>10. Ring(w.prev, w.next, b, n + 1)
  BY <1>9, <1>1, <1>2, RingBehind DEF SplicedIn, b
<1>11. Chain(w.next, f, h, c)
  <2>1. ASSUME NEW y \in Members(h, c) PROVE w.next[y] = m.next[y]
    <3>1. y \in Members(g, k) /\ y # i /\ y \notin Members(u, n)
      BY <1>1, <1>2, <2>1
    <3>2. y \in 0 .. L /\ y # 0
      BY <3>1 DEF ListOK, Share, Lists, Members
    <3>3. y # m.prev[0]
      BY <1>2, <1>4, <3>1, <3>2 DEF Lists, Members
    <3> QED BY <1>9, <3>1, <3>2, <3>3
  <2> QED BY <1>1, <2>1, ChainApart
<1>12. ValuesOf(w.value, b, n + 1) = Append(ValuesOf(m.value, u, n), x)
  <2>1. Valued(m.value, L, ListValues) /\ Lists(u, n, L) /\ i \in 1 .. L /\ i \notin Members(u, n)
    BY <1>1, <1>2, <1>3
  <2>2. L \in Nat /\ x \in ListValues
    BY <1>2
  <2>3. Stores(w.value, m.value, i, x)
    BY <1>5 DEF Stores
  <2>4. ValuesOf(w.value, Behind(u, i), n + 1) = Append(ValuesOf(m.value, u, n), x)
    BY <2>1, <2>2, <2>3, ValuesBehind
  <2> QED BY <2>4 DEF b
<1>13. ListOK(w, b, n + 1, h, c)
  BY <1>2, <1>5, <1>7, <1>10, <1>11 DEF ListOK
<1> QED BY <1>12, <1>13 DEF ListHolds, w

\* The o-th oldest value is taken out.
LEMMA TakesOut ==
  ASSUME NEW m, NEW u, NEW n, NEW g, NEW k, ListOK(m, u, n, g, k), NEW o \in 1 .. n
  PROVE  ListHolds(List!Without(m, u[o], u[o + 1], u[o - 1]),
                   Abstract!RemoveAt(ValuesOf(m.value, u, n), n + 1 - o))
<1> DEFINE i == u[o]
           before == u[o + 1]
           behind == u[o - 1]
           w == List!Without(m, i, before, behind)
<1>1. /\ L \in Nat /\ m \in ListType /\ m.used = n /\ Lists(u, n, L) /\ Lists(g, k, L)
      /\ Ring(m.prev, m.next, u, n) /\ Chain(m.next, m.free_index, g, k)
      /\ Share(u, n, g, k, m.raw_used, L) /\ Members(u, n) \cap Members(g, k) = {}
  BY ListCells DEF ListOK, Share
<1>2. /\ m.next \in [0 .. L -> 0 .. L] /\ m.prev \in [0 .. L -> 0 .. L]
      /\ m.free_index \in 0 .. L /\ Valued(m.value, L, ListValues)
  BY <1>1, ListFields
<1>3. /\ i \in 1 .. L /\ i \in 0 .. L /\ before \in 0 .. L /\ behind \in 0 .. L /\ n \in Nat
      /\ i # before /\ i # behind /\ m.used > 0
  BY <1>1 DEF Lists
<1>4. /\ w \in ListType /\ w.used = m.used - 1
      /\ w.raw_used = m.raw_used /\ w.free_index = i /\ w.value = m.value
      /\ w.prev = [m.prev EXCEPT ![behind] = before]
      /\ w.next = [[m.next EXCEPT ![before] = behind] EXCEPT ![i] = m.free_index]
  <2> HIDE DEF w, i, before, behind
  <2>1. PopWrites(m, i, before, behind, w)
    BY <1>1, <1>3, WithoutIs DEF w
  <2> QED BY <2>1 DEF PopWrites
<1> HIDE DEF w
<1>5. /\ \A y \in 0 .. L : y # i => w.next[y] = IF y = before THEN behind ELSE m.next[y]
      /\ \A y \in 0 .. L : w.prev[y] = IF y = behind THEN before ELSE m.prev[y]
      /\ w.next[i] = m.free_index
  <2> HIDE DEF i, before, behind
  <2> QED BY <1>2, <1>3, <1>4
<1>6. Ring(w.prev, w.next, Without(u, o), n - 1)
  BY <1>5, <1>1, RingWithout DEF SplicedOut
<1>7. /\ Share(Without(u, o), n - 1, With(g, k, u[o]), k + 1, m.raw_used, L)
      /\ Chain(w.next, u[o], With(g, k, u[o]), k + 1)
  <2>1. ASSUME NEW y \in Members(g, k) PROVE w.next[y] = m.next[y]
    <3>1. y \in 0 .. L /\ y # 0
      BY <1>1, <2>1 DEF Lists, Members
    <3>2. i \in Members(u, n) /\ (before = 0 \/ before \in Members(u, n))
      BY <1>1, <1>3 DEF Lists, Members
    <3>3. y # i /\ y # before
      BY <1>1, <2>1, <3>1, <3>2
    <3> QED BY <1>5, <3>1, <3>3
  <2>2. w.next[u[o]] = m.free_index
    BY <1>5
  <2> QED BY <1>1, <2>1, <2>2, GivesCell
<1>8. ValuesOf(w.value, Without(u, o), n - 1) = Abstract!RemoveAt(ValuesOf(m.value, u, n), n + 1 - o)
  BY <1>1, <1>2, <1>4, ValuesWithout
<1>9. ListOK(w, Without(u, o), n - 1, With(g, k, u[o]), k + 1)
  BY <1>1, <1>4, <1>6, <1>7 DEF ListOK
<1> QED BY <1>8, <1>9 DEF ListHolds, w

\* What the search for a value meets.
LEMMA ListFind ==
  ASSUME NEW x, NEW n \in Nat, NEW c, Len(c) = n, c = List!InList
  PROVE  \/ List!find_pos(x) = 0 /\ \A j \in 1 .. n : data.value[c[j]] # x
         \/ \E j \in 1 .. n : /\ List!find_pos(x) = c[j] /\ data.value[c[j]] = x
                              /\ \A h \in 1 .. n : data.value[c[h]] = x => j =< h
<1> DEFINE T == {j \in 1 .. n : data.value[c[j]] = x}
           o == IF T # {} THEN List!Least(T) ELSE 0
<1>1. List!find_pos(x) = IF o = 0 THEN 0 ELSE c[o]
  BY Zenon DEF List!find_pos, List!FirstHit
<1>2. CASE T = {}
  BY <1>1, <1>2
<1>3. CASE T # {}
  <2>1. o = CHOOSE h \in T : \A y \in T : h =< y
    BY <1>3, Zenon DEF List!Least
  <2>2. T \in SUBSET Nat
    OBVIOUS
  <2>3. \A h : h \in T <=> h \in 1 .. n /\ data.value[c[h]] = x
    OBVIOUS
  <2> HIDE DEF o, T
  <2>4. o \in T /\ \A y \in T : o =< y
    BY <1>3, <2>1, <2>2, LeastOf
  <2>5. o # 0 /\ o \in 1 .. n /\ data.value[c[o]] = x /\ \A h \in 1 .. n : data.value[c[h]] = x => o =< h
    BY <2>3, <2>4
  <2> QED BY <1>1, <2>5
<1> QED BY <1>2, <1>3

LEMMA ListFinds ==
  ASSUME NEW u, NEW n, NEW g, NEW k, ListOK(data, u, n, g, k), NEW x
  PROVE  LET s == ValuesOf(data.value, u, n) IN
         \/ List!find_pos(x) = 0 /\ x \notin Abstract!Elements(s)
         \/ \E o \in 1 .. n : /\ List!find_pos(x) = u[o] /\ u[o] # 0 /\ x \in Abstract!Elements(s)
                              /\ Abstract!RemoveFirst(s, x) = Abstract!RemoveAt(s, n + 1 - o)
<1> DEFINE c == Backwards(u, n)
           s == ValuesOf(data.value, u, n)
<1>1. n \in Nat /\ Lists(u, n, L) /\ List!InList = c
  BY ListIs
<1>2. Len(c) = n /\ \A j \in 1 .. n : c[j] = u[n + 1 - j]
  BY <1>1 DEF Backwards
<1>3. s \in Seq(ListValues) /\ Len(s) = n /\ \A j \in 1 .. n : s[j] = data.value[u[n + 1 - j]]
  <2>1. Valued(data.value, L, ListValues) /\ L \in Nat
    BY ListFields, ListCells DEF ListOK
  <2> QED BY <1>1, <2>1, ValuesAre
<1> HIDE DEF c, s
<1>4. \A j \in 1 .. n : s[j] = data.value[c[j]]
  BY <1>2, <1>3
<1>5. CASE List!find_pos(x) = 0 /\ \A j \in 1 .. n : data.value[c[j]] # x
  BY <1>3, <1>4, <1>5 DEF Abstract!Elements, s
<1>6. ASSUME NEW j \in 1 .. n, List!find_pos(x) = c[j], data.value[c[j]] = x,
             \A h \in 1 .. n : data.value[c[h]] = x => j =< h
      PROVE  \E o \in 1 .. n : /\ List!find_pos(x) = u[o] /\ u[o] # 0 /\ x \in Abstract!Elements(s)
                               /\ Abstract!RemoveFirst(s, x) = Abstract!RemoveAt(s, n + 1 - o)
  <2>1. /\ j \in 1 .. Len(s) /\ s[j] = x /\ \A h \in 1 .. Len(s) : s[h] = x => j =< h
    BY <1>3, <1>4, <1>6
  <2>2. Abstract!RemoveFirst(s, x) = Abstract!RemoveAt(s, j) /\ x \in Abstract!Elements(s)
    BY <1>3, <2>1, FirstRemoved
  <2>3. n + 1 - j \in 1 .. n /\ n + 1 - (n + 1 - j) = j
    BY <1>1
  <2>4. c[j] = u[n + 1 - j] /\ u[n + 1 - j] # 0
    BY <1>1, <1>2, <2>3 DEF Lists
  <2> QED BY <1>6, <2>2, <2>3, <2>4
<1>7. \/ List!find_pos(x) = 0 /\ \A j \in 1 .. n : data.value[c[j]] # x
      \/ \E j \in 1 .. n : /\ List!find_pos(x) = c[j] /\ data.value[c[j]] = x
                           /\ \A h \in 1 .. n : data.value[c[h]] = x => j =< h
  BY <1>1, <1>2, ListFind
<1> QED BY <1>5, <1>6, <1>7 DEF s

\* Of a list in use.
ListInv == ListHolds(data, List!Contents)

LEMMA ListInvInit == List!Init => ListInv /\ List!Contents = <<>>
<1> SUFFICES ASSUME List!Init PROVE ListInv /\ List!Contents = <<>>
  OBVIOUS
<1>1. L \in Nat /\ List!Cells = 1 .. L /\ List!Links = 0 .. L
  BY ListCells
<1>2. data = List!EmptyList
  BY DEF List!Init
<1>3. /\ data \in ListType /\ data.used = 0 /\ data.raw_used = 0 /\ data.free_index = 0
      /\ data.next[0] = 0 /\ data.prev[0] = 0
  BY <1>1, <1>2 DEF List!EmptyList, ListType, ListValues
<1>4. Share(NoCells, 0, NoCells, 0, 0, L)
  BY <1>1, NothingShared
<1>5. Ring(data.prev, data.next, NoCells, 0) /\ Chain(data.next, data.free_index, NoCells, 0)
  BY <1>3 DEF Ring, Chain, NoCells
<1>6. ListOK(data, NoCells, 0, NoCells, 0)
  BY <1>3, <1>4, <1>5 DEF ListOK
<1>7. List!Contents = ValuesOf(data.value, NoCells, 0)
  BY <1>6, ListIs
<1>8. ValuesOf(data.value, NoCells, 0) = <<>>
  BY DEF ValuesOf
<1> QED BY <1>6, <1>7, <1>8 DEF ListInv, ListHolds

\* Contents are what the list holds, now and after a step.
ListIsContents == \A s : ListHolds(data, s) => List!Contents = s

LEMMA ListContents == ListIsContents
  BY ListIs DEF ListIsContents, ListHolds

LEMMA ListContentsNext == ListIsContents'
  BY ListContents, PTL

LEMMA ListHoldsNext ==
  ASSUME NEW s, ListHolds(data', s)
  PROVE  List!Contents' = s /\ ListInv'
  BY ListContentsNext DEF ListIsContents, ListInv

\* A call of a list is a call of a list of keys.
AbstractKind == IF kind \in {"hash", "lru"} THEN kind ELSE "list"

LEMMA ListStep ==
  ASSUME kind = "list", kind' = "list", ListInv, List!Next
  PROVE  ListInv' /\ Abstract!ListNext
<1> DEFINE s == List!Contents
<1>1. Contents = s /\ Contents' = s' /\ AbstractKind = "list" /\ AbstractKind' = "list"
  BY Zenon DEF Contents, AbstractKind
<1>2. PICK u, n, g, k : ListOK(data, u, n, g, k) /\ s = ValuesOf(data.value, u, n)
  BY DEF ListInv, ListHolds
<1>3. /\ n \in Nat /\ Lists(u, n, L) /\ Lists(g, k, L) /\ List!InList = Backwards(u, n)
      /\ data \in ListType /\ data.used = n /\ Ring(data.prev, data.next, u, n)
  BY <1>2, ListIs DEF ListOK
<1>4. L \in Nat /\ n \in 0 .. L /\ Valued(data.value, L, ListValues)
  BY <1>3, ListCells, ListFields
<1>5. s \in Seq(ListValues) /\ Len(s) = n
  BY <1>2, <1>3, <1>4, ValuesAre
<1>6. ASSUME NEW t, ListHolds(data', t) PROVE Contents' = t /\ ListInv'
  BY <1>1, <1>6, ListHoldsNext
<1>7. ASSUME List!Same PROVE Contents' = s /\ ListInv'
  BY <1>7, <1>6 DEF List!Same, ListInv
<1>8. Abstract!IsFull <=> n = L
  BY <1>1, <1>5 DEF Abstract!IsFull, AbstractKind, L
<1>9. ASSUME NEW x, List!find_pos(x) = 0 PROVE ~Abstract!Held(x)
  BY <1>1, <1>2, <1>9, ListFinds DEF Abstract!Held
<1>10. ASSUME NEW x, List!find_pos(x) # 0
       PROVE  /\ Abstract!Held(x)
              /\ \E o \in 1 .. n : /\ List!find_pos(x) = u[o]
                                   /\ Abstract!Without(x) = Abstract!RemoveAt(s, n + 1 - o)
  BY <1>1, <1>2, <1>10, ListFinds DEF Abstract!Held, Abstract!Without
<1>11. ASSUME NEW o \in 1 .. n, data' = List!Without(data, u[o], u[o + 1], u[o - 1])
       PROVE  Contents' = Abstract!RemoveAt(s, n + 1 - o) /\ ListInv'
  BY <1>2, <1>6, <1>11, TakesOut
<1>12. \A o \in 1 .. n : data.prev[u[o]] = u[o + 1] /\ data.next[u[o]] = u[o - 1]
  <2>1. \A j \in 0 .. n : data.next[u[j + 1]] = u[j] /\ data.prev[u[j]] = u[j + 1]
    BY <1>3 DEF Ring
  <2> SUFFICES ASSUME NEW o \in 1 .. n PROVE data.prev[u[o]] = u[o + 1] /\ data.next[u[o]] = u[o - 1]
    OBVIOUS
  <2>2. o \in 0 .. n /\ o - 1 \in 0 .. n /\ (o - 1) + 1 = o
    BY <1>3
  <2> QED BY <2>1, <2>2
<1>13. /\ data.next[0] = u[n] /\ data.prev[0] = u[1] /\ u[0] = 0 /\ u[n + 1] = 0
  BY <1>3 DEF Lists, Ring
<1> HIDE DEF s
<1> DEFINE Stepped == ListInv' /\ (Abstract!Shrink \/ \E x \in Keys.list : Abstract!AnyCall(x) \/ Abstract!ListCall(x))
<1>14. ASSUME List!Clear PROVE Stepped
  <2>1. ListHolds(data', <<>>)
    <3>1. /\ data' \in ListType /\ data'.used = 0 /\ data'.raw_used = 0 /\ data'.free_index = 0
          /\ data'.next[0] = 0 /\ data'.prev[0] = 0
      <4> DEFINE pp == [data.prev EXCEPT ![0] = 0]
                 nn == [data.next EXCEPT ![0] = 0]
      <4>1. /\ data.prev \in [0 .. L -> 0 .. L] /\ data.next \in [0 .. L -> 0 .. L] /\ 0 \in 0 .. L
        <5>1. 0 \in 0 .. L
          BY <1>4
        <5> QED BY <1>3, <5>1, ListFields
      <4>2. /\ pp \in [0 .. L -> 0 .. L] /\ nn \in [0 .. L -> 0 .. L] /\ pp[0] = 0 /\ nn[0] = 0
        BY <4>1
      <4>3. data' = [data EXCEPT !.used = 0, !.prev = pp, !.next = nn, !.free_index = 0, !.raw_used = 0]
        BY <1>3, <1>14 DEF List!Clear, ListType
      <4> HIDE DEF pp, nn
      <4> QED BY <1>3, <4>1, <4>2, <4>3 DEF ListType
    <3>2. Share(NoCells, 0, NoCells, 0, 0, L)
      BY <1>4, NothingShared
    <3>3. Ring(data'.prev, data'.next, NoCells, 0) /\ Chain(data'.next, data'.free_index, NoCells, 0)
      BY <3>1 DEF Ring, Chain, NoCells
    <3>4. ListOK(data', NoCells, 0, NoCells, 0)
      BY <3>1, <3>2, <3>3 DEF ListOK
    <3>5. ValuesOf(data'.value, NoCells, 0) = <<>>
      BY DEF ValuesOf
    <3> QED BY <3>4, <3>5 DEF ListHolds
  <2>2. Contents' = <<>> /\ ListInv'
    BY <1>6, <2>1
  <2>3. Abstract!Shrink
    BY <1>14, <2>2 DEF List!Clear, List!Answer, Abstract!Shrink, Abstract!Answers
  <2> QED BY <2>2, <2>3
<1>15. ASSUME List!PopFront PROVE Stepped
  <2>1. CASE List!Empty
    BY <1>1, <1>3, <1>5, <2>1, <1>15, <1>7 DEF List!Empty, List!PopFront, List!Answer,
       Abstract!Shrink, Abstract!Answers
  <2>2. CASE ~List!Empty
    <3>1. n # 0 /\ n \in 1 .. n
      BY <1>3, <2>2 DEF List!Empty
    <3>2. data' = List!Without(data, u[n], u[n + 1], u[n - 1]) /\ List!Answer("pop_front", 0, "ok")
      BY <1>12, <1>13, <1>15, <2>2, <3>1 DEF List!PopFront, List!First
    <3>3. Contents' = Abstract!RemoveAt(s, n + 1 - n) /\ ListInv'
      BY <1>11, <3>1, <3>2
    <3>4. n + 1 - n = 1 /\ s # <<>>
      BY <1>3, <1>5, <3>1
    <3>5. Contents' = Tail(s)
      BY <1>5, <3>3, <3>4, RemovingEnds
    <3>6. Abstract!Shrink
      BY <1>1, <3>2, <3>4, <3>5 DEF List!Answer, Abstract!Shrink, Abstract!Answers
    <3> QED BY <3>3, <3>6
  <2> QED BY <2>1, <2>2
<1>16. ASSUME List!PopBack PROVE Stepped
  <2>1. CASE List!Empty
    BY <1>1, <1>3, <1>5, <2>1, <1>16, <1>7 DEF List!Empty, List!PopBack, List!Answer,
       Abstract!Shrink, Abstract!Answers
  <2>2. CASE ~List!Empty
    BY <1>3, <2>2, <1>12, <1>13, <1>16, <1>11, <1>5, RemovingEnds, <1>1 DEF List!Empty,
       List!PopBack, List!Final, List!Answer, Abstract!Shrink, Abstract!Answers, Abstract!FirstOf
  <2> QED BY <2>1, <2>2
<1>17. ASSUME NEW j \in 1 .. data.used, List!EraseAt(j) PROVE Stepped
  <2>1. j \in 1 .. n /\ n + 1 - j \in 1 .. n /\ n + 1 - (n + 1 - j) = j
    BY <1>3
  <2>2. List!InList[j] = u[n + 1 - j]
    BY <1>3, <2>1 DEF Backwards
  <2>3. /\ data' = List!Without(data, u[n + 1 - j], u[(n + 1 - j) + 1], u[(n + 1 - j) - 1])
        /\ List!Answer("erase_at", j, "ok")
    BY <1>12, <1>17, <2>1, <2>2 DEF List!EraseAt, List!Removed
  <2>4. Contents' = Abstract!RemoveAt(s, j) /\ ListInv'
    BY <1>11, <2>1, <2>3
  <2>5. Abstract!Shrink
    BY <1>1, <1>5, <2>1, <2>3, <2>4 DEF List!Answer, Abstract!Shrink, Abstract!Answers, AbstractKind
  <2> QED BY <2>4, <2>5
<1>18. ASSUME NEW x \in Keys.list, List!PushFront(x) \/ List!PushBack(x) PROVE Stepped
  <2>1. x \in ListValues
    BY DEF ListValues
  <2>2. CASE List!Full
    BY <1>18, <2>2, <1>1, <1>7, <1>3, <1>4, <1>8 DEF List!PushFront, List!PushBack, List!Full, L,
       List!Answer, Abstract!ListCall, Abstract!Refuse, Abstract!Answers
  <2>3. CASE ~List!Full
    <3>1. n < L /\ ~Abstract!IsFull
      BY <1>3, <1>4, <1>8, <2>3 DEF List!Full, L
    <3>2. CASE List!PushFront(x)
      <4>1. data' = List!Between(data, x, 0, data.next[0]) /\ List!Answer("push_front", x, "inserted")
        BY <2>3, <3>2 DEF List!PushFront
      <4>2. ListHolds(data', <<x>> \o s)
        BY <1>2, <2>1, <3>1, <4>1, PushesFront
      <4>3. Contents' = <<x>> \o s /\ ListInv'
        BY <1>6, <4>2
      <4>4. Abstract!ListCall(x)
        BY <1>1, <3>1, <4>1, <4>3 DEF List!Answer, Abstract!ListCall, Abstract!Add, Abstract!Answers
      <4> QED BY <4>3, <4>4
    <3>3. CASE List!PushBack(x)
      <4>1. data' = List!Between(data, x, data.prev[0], 0) /\ List!Answer("push_back", x, "inserted")
        BY <2>3, <3>3 DEF List!PushBack
      <4>2. ListHolds(data', Append(s, x))
        BY <1>2, <2>1, <3>1, <4>1, PushesBack
      <4>3. Contents' = Append(s, x) /\ ListInv'
        BY <1>6, <4>2
      <4>4. Abstract!ListCall(x)
        BY <1>1, <3>1, <4>1, <4>3 DEF List!Answer, Abstract!ListCall, Abstract!Answers
      <4> QED BY <4>3, <4>4
    <3> QED BY <1>18, <3>2, <3>3
  <2> QED BY <2>2, <2>3
<1>19. ASSUME NEW x \in Keys.list, List!Erase(x) PROVE Stepped
  <2>1. CASE List!find_pos(x) = 0
    BY <1>19, <2>1, <1>1, <1>7, <1>9 DEF List!Erase, List!Answer, Abstract!AnyCall, Abstract!Answers
  <2>2. CASE List!find_pos(x) # 0
    <3>1. PICK o \in 1 .. n : List!find_pos(x) = u[o] /\ Abstract!Without(x) = Abstract!RemoveAt(s, n + 1 - o)
      BY <1>10, <2>2
    <3>2. data' = List!Without(data, u[o], u[o + 1], u[o - 1]) /\ List!Answer("erase", x, "ok")
      BY <1>12, <1>19, <2>2, <3>1 DEF List!Erase, List!Removed
    <3>3. Contents' = Abstract!Without(x) /\ ListInv' /\ Abstract!Held(x)
      BY <1>10, <1>11, <2>2, <3>1, <3>2
    <3>4. Abstract!AnyCall(x)
      BY <3>2, <3>3 DEF List!Answer, Abstract!AnyCall, Abstract!Answers
    <3> QED BY <3>3, <3>4
  <2> QED BY <2>1, <2>2
<1>20. ASSUME NEW x \in Keys.list, List!Find(x) PROVE Stepped
  BY <1>20, <1>1, <1>7, <1>9, <1>10 DEF List!Find, List!Answer, Abstract!AnyCall, Abstract!Answers
<1>21. Stepped
  BY <1>14, <1>15, <1>16, <1>17, <1>18, <1>19, <1>20 DEF List!Next
<1>22. Keys[AbstractKind] = Keys.list
  BY <1>1
<1> QED BY <1>1, <1>21, <1>22 DEF Abstract!ListNext, AbstractKind

\* The cells of a list are shared out, and it is the same both ways.
LEMMA ListInvSays == ListInv => List!CellsPartition
<1> SUFFICES ASSUME ListInv PROVE List!CellsPartition
  OBVIOUS
<1>1. PICK u, n, g, k : ListOK(data, u, n, g, k)
  BY DEF ListInv, ListHolds
<1>2. /\ n \in Nat /\ k \in Nat /\ Lists(u, n, L) /\ Lists(g, k, L)
      /\ List!InList = Backwards(u, n)
      /\ List!Walk(data.prev, data.prev[0]) = [j \in 1 .. n |-> u[j]]
      /\ List!Walk(data.next, data.free_index) = Backwards(g, k)
  BY <1>1, ListIs
<1>3. /\ Members(u, n) \cap Members(g, k) = {} /\ Members(u, n) \cup Members(g, k) = 1 .. data.raw_used
      /\ data.raw_used = n + k /\ data.used = n
  BY <1>1 DEF ListOK, Share
<1>4. \A a : List!CellsOf(a) = Pools!CellsOf(a)
  BY Zenon DEF List!CellsOf, Pools!CellsOf
<1>5. /\ List!CellsOf(List!InList) = Members(u, n) /\ Len(List!InList) = n
      /\ List!CellsOf(List!Walk(data.next, data.free_index)) = Members(g, k)
      /\ Len(List!Walk(data.next, data.free_index)) = k
  BY <1>2, <1>4, BackwardsRange
<1>6. List!Mirror(List!InList) = List!Walk(data.prev, data.prev[0])
  BY <1>2, <1>5 DEF List!Mirror, Backwards
<1>7. Members(g, k) = 1 .. data.raw_used \ Members(u, n)
  BY <1>3
<1>8. k + data.used = data.raw_used
  BY <1>2, <1>3
<1> QED BY <1>3, <1>5, <1>6, <1>7, <1>8, Zenon DEF List!CellsPartition

LEMMA ListNextStep ==
  ASSUME kind = "list" => ListInv, [Next]_vars
  PROVE  /\ kind' = "list" => ListInv'
         /\ kind = "list" => [Abstract!ListNext]_(Abstract!listVars)
<1>1. kind' = kind
  BY DEF Next, RingNext, PoolNext, KeyNext, vars
<1>2. CASE kind = "list" /\ List!Next
  BY <1>1, <1>2, ListStep
<1>3. CASE kind = "list" /\ UNCHANGED <<kind, data, last>>
  BY <1>3, ListHoldsNext, <1>1 DEF ListInv, Contents, Abstract!listVars
<1>4. kind = "list" => List!Next \/ UNCHANGED <<kind, data, last>>
  BY DEF Next, RingNext, PoolNext, KeyNext, vars, keyVars
<1> QED BY <1>1, <1>2, <1>3, <1>4

------------------------------------------------------------------------------
(***************************************************************************)
(* A hash table: the cells of a set S, each in the chain of its bucket.    *)
(* Bucket b has a list c[b] of l[b] cells.                                 *)
(***************************************************************************)
Bucket(x) == x % buckets_num
Tables == 0 .. (buckets_num - 1)

Spread(next, heads, v, c, l, S, m) ==
  \A b \in Tables : /\ Lists(c[b], l[b], m) /\ Chain(next, heads[b], c[b], l[b])
                    /\ Members(c[b], l[b]) = {i \in S : Bucket(v[i]) = b}

\* For some lists.
Spreads(next, heads, v, S, m) == \E c, l : Spread(next, heads, v, c, l, S, m)

\* The lists c, but y in bucket b.
Put(c, b, y) == [x \in Tables |-> IF x = b THEN y ELSE c[x]]

LEMMA BucketIs == \A x \in Nat : Bucket(x) \in Tables
<1> DEFINE q == buckets_num
<1>1. q \in Nat \ {0}
  BY ContainersAssumption
<1> HIDE DEF q
<1>2. \A x \in Nat : x % q \in 0 .. (q - 1)
  BY <1>1
<1> QED BY <1>2 DEF Bucket, Tables, q

LEMMA NothingSpread ==
  ASSUME NEW m \in Nat, NEW next, NEW heads, NEW v, \A b \in Tables : heads[b] = 0
  PROVE  Spread(next, heads, v, [b \in Tables |-> NoCells], [b \in Tables |-> 0], {}, m)
  BY DEF Spread, Lists, Chain, NoCells, Members

\* Cell i comes into the table, in front of bucket b.
PutIn(next, heads, v, next2, heads2, v2, S, b, i) ==
  /\ i \notin S /\ Bucket(v2[i]) = b /\ next2[i] = heads[b]
  /\ \A x \in S : next2[x] = next[x] /\ v2[x] = v[x]
  /\ \A x \in Tables : heads2[x] = IF x = b THEN i ELSE heads[x]

LEMMA SpreadWith ==
  ASSUME NEW m \in Nat, NEW next, NEW heads, NEW v, NEW c, NEW l, NEW S,
         Spread(next, heads, v, c, l, S, m), NEW i \in 1 .. m, NEW b \in Tables,
         NEW next2, NEW heads2, NEW v2, PutIn(next, heads, v, next2, heads2, v2, S, b, i)
  PROVE  Spreads(next2, heads2, v2, S \cup {i}, m)
<1> DEFINE cc == Put(c, b, With(c[b], l[b], i))
           ll == Put(l, b, l[b] + 1)
<1> SUFFICES ASSUME NEW x \in Tables
             PROVE  /\ Lists(cc[x], ll[x], m) /\ Chain(next2, heads2[x], cc[x], ll[x])
                    /\ Members(cc[x], ll[x]) = {j \in S \cup {i} : Bucket(v2[j]) = x}
  BY DEF Spreads, Spread
<1> USE DEF PutIn
<1>1. /\ Lists(c[x], l[x], m) /\ Chain(next, heads[x], c[x], l[x])
      /\ Members(c[x], l[x]) = {j \in S : Bucket(v[j]) = x}
  BY DEF Spread
<1>2. \A y \in Members(c[x], l[x]) : next2[y] = next[y]
  BY <1>1
<1>3. i \notin Members(c[x], l[x])
  BY <1>1
<1>4. CASE x = b
  <2>1. cc[x] = With(c[b], l[b], i) /\ ll[x] = l[b] + 1 /\ heads2[x] = i
    BY <1>4 DEF Put
  <2> HIDE DEF cc, ll
  <2>2. Lists(cc[x], ll[x], m) /\ Members(cc[x], ll[x]) = Members(c[b], l[b]) \cup {i}
    BY <1>1, <1>3, <1>4, <2>1, WithLists
  <2>3. Chain(next2, heads2[x], cc[x], ll[x])
    BY <1>1, <1>2, <1>3, <1>4, <2>1, ChainWith
  <2>4. {j \in S \cup {i} : Bucket(v2[j]) = x} = {j \in S : Bucket(v[j]) = x} \cup {i}
    BY <1>4
  <2> QED BY <1>1, <1>4, <2>2, <2>3, <2>4
<1>5. CASE x # b
  <2>1. cc[x] = c[x] /\ ll[x] = l[x] /\ heads2[x] = heads[x]
    BY <1>5 DEF Put
  <2> HIDE DEF cc, ll
  <2>2. Chain(next2, heads2[x], cc[x], ll[x])
    BY <1>1, <1>2, <2>1, ChainApart
  <2>3. {j \in S \cup {i} : Bucket(v2[j]) = x} = {j \in S : Bucket(v[j]) = x}
    BY <1>5
  <2> QED BY <1>1, <2>1, <2>2, <2>3
<1> QED BY <1>4, <1>5

\* A chain without its o-th cell: its first one, or the one in front of it, is
\* linked to the one behind.
LEMMA ChainWithoutAt ==
  ASSUME NEW m \in Nat, NEW a, NEW n, Lists(a, n, m), NEW o \in 1 .. n,
         NEW next, NEW first, Chain(next, first, a, n), NEW next2, NEW first2,
         first2 = IF o = n THEN next[a[o]] ELSE first,
         \A x \in Members(a, n) \ {a[o]} : next2[x] = IF x = a[o + 1] THEN next[a[o]] ELSE next[x]
  PROVE  Chain(next2, first2, Without(a, o), n - 1)
<1> DEFINE w == Without(a, o)
<1>1. \A k \in Int : w[k] = IF k < o THEN a[k] ELSE a[k + 1]
  BY DEF Without
<1>2. n \in Nat /\ next[a[o]] = a[o - 1] /\ first = a[n]
  BY DEF Chain, Lists
<1> HIDE DEF w
<1>3. first2 = w[n - 1]
  BY <1>1, <1>2
<1>4. ASSUME NEW k \in 1 .. (n - 1) PROVE next2[w[k]] = w[k - 1]
  <2>1. \A j \in 1 .. n : next[a[j]] = a[j - 1]
    BY DEF Chain
  <2>2. \A j \in 1 .. n : j # o => a[j] \in Members(a, n) \ {a[o]}
    BY DEF Members, Lists
  <2>3. CASE k < o
    BY <1>1, <1>2, <2>3, <2>1, <2>2 DEF Lists
  <2>4. CASE k = o
    BY <1>1, <1>2, <2>4, <2>2
  <2>5. CASE k > o
    BY <1>1, <1>2, <2>5, <2>1, <2>2 DEF Lists
  <2> QED BY <2>3, <2>4, <2>5
<1> QED BY <1>3, <1>4 DEF Chain, w

\* Cell i, the o-th of bucket b, goes out of the table: what is linked to it
\* is linked to the cell behind it.
TakenOut(next, heads, next2, heads2, c, l, S, b, o, i) ==
  /\ \A x \in S \ {i} : next2[x] = IF x = c[b][o + 1] THEN next[i] ELSE next[x]
  /\ \A x \in Tables : heads2[x] = IF x = b /\ o = l[b] THEN next[i] ELSE heads[x]

LEMMA SpreadWithout ==
  ASSUME NEW m \in Nat, NEW next, NEW heads, NEW v, NEW c, NEW l, NEW S,
         Spread(next, heads, v, c, l, S, m), S \subseteq 1 .. m,
         NEW i \in S, NEW b \in Tables, Bucket(v[i]) = b, NEW o \in 1 .. l[b], c[b][o] = i,
         NEW next2, NEW heads2, TakenOut(next, heads, next2, heads2, c, l, S, b, o, i)
  PROVE  Spreads(next2, heads2, v, S \ {i}, m)
<1> DEFINE cc == Put(c, b, Without(c[b], o))
           ll == Put(l, b, l[b] - 1)
<1> SUFFICES ASSUME NEW x \in Tables
             PROVE  /\ Lists(cc[x], ll[x], m) /\ Chain(next2, heads2[x], cc[x], ll[x])
                    /\ Members(cc[x], ll[x]) = {j \in S \ {i} : Bucket(v[j]) = x}
  BY DEF Spreads, Spread
<1>0. /\ \A y \in S \ {i} : next2[y] = IF y = c[b][o + 1] THEN next[i] ELSE next[y]
      /\ \A y \in Tables : heads2[y] = IF y = b /\ o = l[b] THEN next[i] ELSE heads[y]
  BY DEF TakenOut
<1>1. /\ Lists(c[x], l[x], m) /\ Chain(next, heads[x], c[x], l[x])
      /\ Members(c[x], l[x]) = {j \in S : Bucket(v[j]) = x}
      /\ Lists(c[b], l[b], m) /\ Members(c[b], l[b]) = {j \in S : Bucket(v[j]) = b}
  BY DEF Spread
<1>2. CASE x = b
  <2>1. cc[x] = Without(c[b], o) /\ ll[x] = l[b] - 1 /\ heads2[x] = IF o = l[b] THEN next[i] ELSE heads[x]
    BY <1>0, <1>2 DEF Put
  <2> HIDE DEF cc, ll
  <2>2. Lists(cc[x], ll[x], m) /\ Members(cc[x], ll[x]) = Members(c[b], l[b]) \ {i}
    BY <1>1, <2>1, WithoutLists
  <2>3. \A y \in Members(c[b], l[b]) \ {c[b][o]} : next2[y] = IF y = c[b][o + 1] THEN next[c[b][o]] ELSE next[y]
    BY <1>0, <1>1
  <2>4. heads2[x] = IF o = l[b] THEN next[c[b][o]] ELSE heads[b]
    BY <1>2, <2>1
  <2>5. Chain(next2, heads2[x], Without(c[b], o), l[b] - 1)
    BY <1>1, <1>2, <2>3, <2>4, ChainWithoutAt
  <2>6. {j \in S \ {i} : Bucket(v[j]) = x} = {j \in S : Bucket(v[j]) = x} \ {i}
    OBVIOUS
  <2> QED BY <1>1, <1>2, <2>1, <2>2, <2>5, <2>6
<1>3. CASE x # b
  <2>1. cc[x] = c[x] /\ ll[x] = l[x] /\ heads2[x] = heads[x]
    BY <1>0, <1>3 DEF Put
  <2> HIDE DEF cc, ll
  <2>2. ASSUME NEW y \in Members(c[x], l[x]) PROVE next2[y] = next[y]
    <3>1. y \in S /\ y # i /\ Bucket(v[y]) = x
      BY <1>1, <1>3, <2>2
    <3>2. y # c[b][o + 1]
      BY <1>1, <1>3, <3>1 DEF Members, Lists
    <3> QED BY <1>0, <3>1, <3>2
  <2>3. Chain(next2, heads2[x], cc[x], ll[x])
    BY <1>1, <2>1, <2>2, ChainApart
  <2>4. {j \in S \ {i} : Bucket(v[j]) = x} = {j \in S : Bucket(v[j]) = x}
    BY <1>3
  <2> QED BY <1>1, <2>1, <2>3, <2>4
<1> QED BY <1>2, <1>3

\* What the cells of a bucket are searched for.
LEMMA SpreadFinds ==
  ASSUME NEW m, NEW next, NEW heads, NEW v, NEW c, NEW l, NEW S,
         Spread(next, heads, v, c, l, S, m), NEW x, Bucket(x) \in Tables
  PROVE  LET b == Bucket(x)
             cells == Backwards(c[b], l[b])
             T == {j \in 1 .. Len(cells) : v[cells[j]] = x}
         IN /\ T \in SUBSET Nat
            /\ T = {} => \A i \in S : v[i] # x
            /\ \A j \in T : /\ l[b] + 1 - j \in 1 .. l[b] /\ cells[j] = c[b][l[b] + 1 - j]
                            /\ cells[j] \in S /\ v[cells[j]] = x /\ cells[j] # 0
<1> DEFINE b == Bucket(x)
           cells == Backwards(c[b], l[b])
           T == {j \in 1 .. Len(cells) : v[cells[j]] = x}
<1>1. Lists(c[b], l[b], m) /\ Members(c[b], l[b]) = {i \in S : Bucket(v[i]) = b} /\ l[b] \in Nat
  BY DEF Spread, Lists
<1> DEFINE a == c[b]
           n == l[b]
<1>2. Len(cells) = n /\ \A j \in 1 .. n : cells[j] = a[n + 1 - j]
  BY <1>1 DEF Backwards
<1>3. \A j \in 1 .. n : n + 1 - j \in 1 .. n /\ n + 1 - (n + 1 - j) = j
  BY <1>1
<1>4. \A j \in T : j \in 1 .. n /\ v[cells[j]] = x
  BY <1>2
<1>5. \A j \in 1 .. n : v[cells[j]] = x => j \in T
  BY <1>2
<1>6. Lists(a, n, m) /\ Members(a, n) = {i \in S : Bucket(v[i]) = b} /\ n \in Nat
  BY <1>1
<1>7. T \in SUBSET Nat
  BY <1>4
<1> HIDE DEF T, cells, a, n
<1>8. ASSUME NEW j \in T
      PROVE  /\ n + 1 - j \in 1 .. n /\ cells[j] = a[n + 1 - j]
             /\ cells[j] \in S /\ v[cells[j]] = x /\ cells[j] # 0
  <2>1. j \in 1 .. n /\ n + 1 - j \in 1 .. n /\ v[cells[j]] = x /\ cells[j] = a[n + 1 - j]
    BY <1>2, <1>3, <1>4
  <2>2. a[n + 1 - j] \in Members(a, n) /\ a[n + 1 - j] # 0
    BY <1>6, <2>1 DEF Members, Lists
  <2> QED BY <1>6, <2>1, <2>2
<1>9. ASSUME T = {}, NEW i \in S PROVE v[i] # x
  <2> SUFFICES ASSUME v[i] = x PROVE FALSE
    OBVIOUS
  <2>1. i \in Members(a, n)
    BY <1>6
  <2>2. PICK o \in 1 .. n : a[o] = i
    BY <2>1 DEF Members
  <2>3. n + 1 - o \in 1 .. n /\ cells[n + 1 - o] = i
    BY <1>2, <1>3, <2>2
  <2> QED BY <1>5, <1>9, <2>3
<1> QED BY <1>7, <1>8, <1>9 DEF T, cells, a, n

\* Where in its bucket a cell is.
LEMMA SpreadPlaces ==
  ASSUME NEW m, NEW a, NEW n, Lists(a, n, m), NEW o \in 1 .. n
  PROVE  LET cells == Backwards(a, n)
             T == {j \in 1 .. Len(cells) : cells[j] = a[o]}
         IN /\ T # {} /\ (CHOOSE x \in T : \A y \in T : x =< y) = n + 1 - o
            /\ n + 1 - o # 1 => cells[(n + 1 - o) - 1] = a[o + 1]
            /\ n + 1 - o = 1 <=> o = n
            /\ n + 1 - o # 0
<1> DEFINE cells == Backwards(a, n)
           T == {j \in 1 .. Len(cells) : cells[j] = a[o]}
           h == n + 1 - o
<1>1. n \in Nat /\ \A j, k \in 1 .. n : a[j] = a[k] => j = k
  BY DEF Lists
<1>2. Len(cells) = n /\ \A j \in 1 .. n : cells[j] = a[n + 1 - j]
  BY <1>1 DEF Backwards
<1>3. h \in 1 .. n /\ n + 1 - h = o /\ \A j \in 1 .. n : n + 1 - j \in 1 .. n
  BY <1>1
<1>4. \A j : j \in T <=> j \in 1 .. n /\ cells[j] = a[o]
  BY <1>2
<1> HIDE DEF T, cells
<1>5. \A j \in 1 .. n : cells[j] = a[o] <=> j = h
  <2> SUFFICES ASSUME NEW j \in 1 .. n PROVE cells[j] = a[o] <=> j = h
    OBVIOUS
  <2>1. cells[j] = a[n + 1 - j] /\ n + 1 - j \in 1 .. n
    BY <1>2, <1>3
  <2>2. cells[j] = a[o] <=> n + 1 - j = o
    BY <1>1, <2>1
  <2> QED BY <1>1, <2>2
<1>6. T \in SUBSET Nat /\ h \in T /\ \A y \in T : h =< y
  BY <1>3, <1>4, <1>5
<1>7. (CHOOSE x \in T : \A y \in T : x =< y) = h
  <2> HIDE DEF h
  <2> QED BY <1>6, OnlyLeast
<1>8. h # 1 => cells[h - 1] = a[o + 1]
  <2> SUFFICES ASSUME h # 1 PROVE cells[h - 1] = a[o + 1]
    OBVIOUS
  <2>1. h - 1 \in 1 .. n /\ n + 1 - (h - 1) = o + 1
    BY <1>1, <1>3
  <2> HIDE DEF h
  <2> QED BY <1>2, <2>1
<1>9. (h = 1 <=> o = n) /\ h # 0 /\ T # {}
  BY <1>1, <1>6
<1> QED BY <1>7, <1>8, <1>9 DEF T, cells

------------------------------------------------------------------------------
(***************************************************************************)
(* HashMemPool: a pool of cells without crashes, and a hash table of the   *)
(* cells in use.                                                           *)
(***************************************************************************)
M == max_num.hash

HashPoolType ==
  [used_num : 0 .. M, raw_used_num : 0 .. M, reclaim_list : 0 .. M,
   prev : [0 .. M -> 0 .. (M + 1)], next : [0 .. M -> 0 .. M]]

HashPoolOK(p, u, n, g, k) ==
  /\ p \in HashPoolType
  /\ Share(u, n, g, k, p.raw_used_num, M) /\ p.used_num = n
  /\ Ring(p.prev, p.next, u, n) /\ Chain(p.next, p.reclaim_list, g, k)

LEMMA HashCells ==
  /\ M \in Nat /\ M > 0 /\ Hash!Cells = 1 .. M /\ Hash!Links = 0 .. M
  /\ IsFiniteSet(0 .. M) /\ Hash!Buckets = Tables
  /\ Keys.hash \subseteq Nat /\ \A x : Hash!bucket_index(x) = Bucket(x)
<1>1. M \in Nat /\ M > 0 /\ Keys.hash \subseteq Nat
  BY ContainersAssumption DEF M
<1>2. \A x : Hash!bucket_index(x) = Bucket(x)
  BY Zenon DEF Hash!bucket_index, Bucket
<1> QED BY <1>1, <1>2, FS_Interval DEF Hash!Cells, Hash!Links, Hash!Buckets, Tables, M

LEMMA HashPoolFields ==
  ASSUME NEW p \in HashPoolType
  PROVE  /\ p.used_num \in 0 .. M /\ p.raw_used_num \in 0 .. M /\ p.reclaim_list \in 0 .. M
         /\ p.prev \in [0 .. M -> 0 .. (M + 1)] /\ p.next \in [0 .. M -> 0 .. M]
         /\ DOMAIN p.next = 0 .. M
  BY DEF HashPoolType

\* What alloc writes, with cell i the one it takes.
AllocatesCell(p, i, w) ==
  /\ w \in HashPoolType /\ w.used_num = p.used_num + 1
  /\ w.raw_used_num = (IF p.reclaim_list = 0 THEN p.raw_used_num + 1 ELSE p.raw_used_num)
  /\ w.reclaim_list = (IF p.reclaim_list = 0 THEN p.reclaim_list ELSE p.next[p.reclaim_list])
  /\ w.prev = [[p.prev EXCEPT ![i] = 0] EXCEPT ![p.next[0]] = i]
  /\ w.next = [[p.next EXCEPT ![i] = p.next[0]] EXCEPT ![0] = i]

LEMMA HashAllocates ==
  ASSUME NEW p \in HashPoolType, p.used_num < M,
         Hash!AllocIndex(p) \in 1 .. M, p.reclaim_list = 0 => p.raw_used_num < M
  PROVE  AllocatesCell(p, Hash!AllocIndex(p), Hash!Allocated(p))
<1> DEFINE i == Hash!AllocIndex(p)
           w == Hash!Allocated(p)
           t == IF p.reclaim_list # 0 THEN [p EXCEPT !.reclaim_list = p.next[i]]
                ELSE [p EXCEPT !.raw_used_num = @ + 1]
           first == p.next[0]
           t2 == [t EXCEPT !.next[i] = first]
           t3 == [t2 EXCEPT !.prev[i] = 0]
           t4 == [t3 EXCEPT !.prev[first] = i]
           t5 == [t4 EXCEPT !.next[0] = i]
           t6 == [t5 EXCEPT !.used_num = @ + 1]
<1>1. /\ M \in Nat /\ p.used_num \in 0 .. M /\ p.raw_used_num \in 0 .. M /\ p.reclaim_list \in 0 .. M
      /\ p.prev \in [0 .. M -> 0 .. (M + 1)] /\ p.next \in [0 .. M -> 0 .. M]
  BY HashCells, HashPoolFields
<1>0. p.used_num + 1 \in 0 .. M /\ (p.reclaim_list = 0 => p.raw_used_num + 1 \in 0 .. M)
  <2>1. M \in Nat /\ p.used_num \in 0 .. M /\ p.raw_used_num \in 0 .. M
    BY <1>1
  <2> QED BY <2>1
<1>2. w = t6
  <2>1. Hash!AllocWrites(p) = <<t, t2, t3, t4, t5, t6>>
    BY Zenon DEF Hash!AllocWrites
  <2> HIDE DEF i, t, first, t2, t3, t4, t5, t6
  <2>2. Len(Hash!AllocWrites(p)) = 6 /\ Hash!AllocWrites(p)[6] = t6
    BY <2>1
  <2> QED BY <2>2, Zenon DEF Hash!Allocated
<1>3. /\ t \in HashPoolType /\ t.used_num = p.used_num /\ t.prev = p.prev /\ t.next = p.next
      /\ t.raw_used_num = (IF p.reclaim_list = 0 THEN p.raw_used_num + 1 ELSE p.raw_used_num)
      /\ t.reclaim_list = (IF p.reclaim_list = 0 THEN p.reclaim_list ELSE p.next[p.reclaim_list])
  <2>1. CASE p.reclaim_list = 0
    <3> DEFINE r == p.raw_used_num + 1
    <3>1. t = [p EXCEPT !.raw_used_num = r] /\ r \in 0 .. M
      BY <1>0, <2>1
    <3>2. r = p.raw_used_num + 1
      OBVIOUS
    <3> HIDE DEF r, t
    <3> QED BY <1>1, <2>1, <3>1, <3>2 DEF HashPoolType
  <2>2. CASE p.reclaim_list # 0
    <3> DEFINE f == p.next[p.reclaim_list]
    <3>1. t = [p EXCEPT !.reclaim_list = f] /\ f \in 0 .. M
      BY <1>1, <2>2 DEF Hash!AllocIndex
    <3>2. f = p.next[p.reclaim_list]
      OBVIOUS
    <3> HIDE DEF f, t
    <3> QED BY <2>2, <3>1, <3>2 DEF HashPoolType
  <2> QED BY <2>1, <2>2
<1> HIDE DEF i, w, t
<1>4. i \in 1 .. M /\ i \in 0 .. M /\ first \in 0 .. M /\ i \in 0 .. (M + 1) /\ 0 \in 0 .. (M + 1) /\ 0 \in 0 .. M
  <2>1. i \in 1 .. M /\ M \in Nat
    BY <1>1 DEF i
  <2>2. i \in 0 .. M /\ i \in 0 .. (M + 1) /\ 0 \in 0 .. (M + 1) /\ 0 \in 0 .. M
    BY <2>1
  <2> QED BY <1>1, <2>1, <2>2
<1> DEFINE pp == [[p.prev EXCEPT ![i] = 0] EXCEPT ![first] = i]
           nn == [[p.next EXCEPT ![i] = first] EXCEPT ![0] = i]
<1>5. pp \in [0 .. M -> 0 .. (M + 1)] /\ nn \in [0 .. M -> 0 .. M]
  BY <1>1, <1>4
<1>6. t6 = [t EXCEPT !.prev = pp, !.next = nn, !.used_num = p.used_num + 1]
  BY <1>3 DEF HashPoolType
<1> HIDE DEF pp, nn, t6
<1>7. /\ w \in HashPoolType /\ w.used_num = p.used_num + 1 /\ w.prev = pp /\ w.next = nn
      /\ w.raw_used_num = t.raw_used_num /\ w.reclaim_list = t.reclaim_list
  BY <1>0, <1>2, <1>3, <1>5, <1>6 DEF HashPoolType
<1> QED BY <1>3, <1>7 DEF AllocatesCell, i, w, pp, nn

\* What free writes for a cell in use.
FreesCell(p, i, w) ==
  /\ w \in HashPoolType /\ w.used_num = p.used_num - 1
  /\ w.raw_used_num = p.raw_used_num /\ w.reclaim_list = i
  /\ w.prev = [[p.prev EXCEPT ![p.next[i]] = p.prev[i]] EXCEPT ![i] = M + 1]
  /\ w.next = [[p.next EXCEPT ![p.prev[i]] = p.next[i]] EXCEPT ![i] = p.reclaim_list]

LEMMA HashFrees ==
  ASSUME NEW p \in HashPoolType, p.used_num > 0, NEW i \in 1 .. M, i <= p.raw_used_num,
         p.prev[i] \in 0 .. M, p.prev[i] # i
  PROVE  FreesCell(p, i, Hash!Freed(p, i))
<1> DEFINE w == Hash!Freed(p, i)
           t1 == [p EXCEPT !.next[p.prev[i]] = p.next[i]]
           t2 == [t1 EXCEPT !.prev[t1.next[i]] = t1.prev[i]]
           t3 == [t2 EXCEPT !.prev[i] = M + 1]
           t4 == [t3 EXCEPT !.next[i] = t3.reclaim_list]
           t5 == [t4 EXCEPT !.reclaim_list = i]
           t6 == [t5 EXCEPT !.used_num = @ - 1]
<1>1. /\ M \in Nat /\ p.used_num \in 0 .. M /\ p.raw_used_num \in 0 .. M /\ p.reclaim_list \in 0 .. M
      /\ p.prev \in [0 .. M -> 0 .. (M + 1)] /\ p.next \in [0 .. M -> 0 .. M]
  BY HashCells, HashPoolFields
<1>2. w = t6
  <2>1. Hash!FreeWrites(p, i) = <<t1, t2, t3, t4, t5, t6>>
    BY Zenon DEF Hash!FreeWrites, M
  <2>2. Hash!IsLive(p, i)
    <3>1. p.prev[i] <= M /\ p.used_num # 0
      <4>1. M \in Nat /\ p.used_num \in 0 .. M
        BY <1>1
      <4> QED BY <4>1
    <3> QED BY <3>1, Zenon DEF Hash!IsLive, Hash!Empty, M
  <2> HIDE DEF t1, t2, t3, t4, t5, t6
  <2>3. Len(Hash!FreeWrites(p, i)) = 6 /\ Hash!FreeWrites(p, i)[6] = t6
    BY <2>1
  <2> QED BY <2>2, <2>3, Zenon DEF Hash!Freed
<1>3. /\ i \in 0 .. M /\ p.next[i] \in 0 .. M /\ p.prev[i] \in 0 .. (M + 1)
      /\ M + 1 \in 0 .. (M + 1) /\ p.used_num - 1 \in 0 .. M
  <2>1. i \in 0 .. M /\ M + 1 \in 0 .. (M + 1) /\ p.used_num - 1 \in 0 .. M
    <3>1. M \in Nat /\ p.used_num \in 0 .. M
      BY <1>1
    <3> QED BY <3>1
  <2> QED BY <1>1, <2>1
<1> DEFINE pp == [[p.prev EXCEPT ![p.next[i]] = p.prev[i]] EXCEPT ![i] = M + 1]
           nn == [[p.next EXCEPT ![p.prev[i]] = p.next[i]] EXCEPT ![i] = p.reclaim_list]
<1>4. pp \in [0 .. M -> 0 .. (M + 1)] /\ nn \in [0 .. M -> 0 .. M]
  BY <1>1, <1>3
<1>5. t1.next[i] = p.next[i] /\ t1.prev = p.prev
  BY <1>1, <1>3 DEF HashPoolType
<1>6. t6 = [p EXCEPT !.prev = pp, !.next = nn, !.reclaim_list = i, !.used_num = p.used_num - 1]
  <2>1. t2 = [t1 EXCEPT !.prev[p.next[i]] = p.prev[i]]
    BY <1>5
  <2> HIDE DEF t2
  <2> QED BY <2>1 DEF HashPoolType
<1> HIDE DEF pp, nn, t6, w
<1>7. /\ w \in HashPoolType /\ w.used_num = p.used_num - 1 /\ w.prev = pp /\ w.next = nn
      /\ w.raw_used_num = p.raw_used_num /\ w.reclaim_list = i
  BY <1>2, <1>3, <1>4, <1>6 DEF HashPoolType
<1> QED BY <1>7 DEF FreesCell, w, pp, nn

\* A pool that is not full has a cell, which comes to the front.
LEMMA HashTakesCell ==
  ASSUME NEW p, NEW u, NEW n, NEW g, NEW k, HashPoolOK(p, u, n, g, k), n < M
  PROVE  LET i == Hash!AllocIndex(p) IN
         /\ i \in 1 .. M /\ i \notin Members(u, n)
         /\ \E h, c : HashPoolOK(Hash!Allocated(p), With(u, n, i), n + 1, h, c)
<1> DEFINE i == Hash!AllocIndex(p)
           w == Hash!Allocated(p)
           free == p.reclaim_list
           raw == p.raw_used_num
           next == p.next
           c == IF free = 0 THEN k ELSE k - 1
           h == IF free = 0 THEN g ELSE Without(g, k)
           r == IF free = 0 THEN raw + 1 ELSE raw
           f == IF free = 0 THEN free ELSE next[free]
           b == With(u, n, i)
<1>1. /\ M \in Nat /\ p \in HashPoolType /\ p.used_num = n /\ n \in Nat /\ k \in Nat
      /\ Lists(u, n, M) /\ Lists(g, k, M) /\ Share(u, n, g, k, raw, M)
      /\ Ring(p.prev, p.next, u, n) /\ Chain(next, free, g, k)
  BY HashCells DEF HashPoolOK, Share, Lists
<1>2. i = IF free = 0 THEN raw + 1 ELSE free
  BY Zenon DEF Hash!AllocIndex
<1>3. free = 0 => raw < M
  <2> SUFFICES ASSUME free = 0 PROVE raw < M
    OBVIOUS
  <2>1. n \in Nat /\ k \in Nat /\ raw = n + k /\ g[k] = 0 /\ (g[k] = 0 <=> k \notin 1 .. k)
    BY <1>1 DEF Share, Lists, Chain
  <2> QED BY <2>1
<1>4. /\ p.next \in [0 .. M -> 0 .. M] /\ p.prev \in [0 .. M -> 0 .. (M + 1)] /\ p.next[0] \in 0 .. M
  <2>1. p.next \in [0 .. M -> 0 .. M] /\ p.prev \in [0 .. M -> 0 .. (M + 1)] /\ 0 \in 0 .. M
    <3>1. 0 \in 0 .. M
      BY <1>1
    <3> QED BY <1>1, <3>1, HashPoolFields
  <2> QED BY <2>1
<1>5. p.next[0] = u[n]
  BY <1>1, RingForwards DEF Chain
<1>6. /\ i \in 1 .. M /\ i \notin Members(u, n) /\ i \notin Members(h, c)
      /\ Members(h, c) \subseteq Members(g, k) /\ Chain(next, f, h, c)
      /\ \A y : Lists(y, n + 1, M) /\ Members(y, n + 1) = Members(u, n) \cup {i} =>
           Share(y, n + 1, h, c, r, M)
  <2> HIDE DEF free, raw, next
  <2>1. LET j == IF free = 0 THEN raw + 1 ELSE free
            cc == IF free = 0 THEN k ELSE k - 1
            hh == IF free = 0 THEN g ELSE Without(g, k)
            rr == IF free = 0 THEN raw + 1 ELSE raw
            ff == IF free = 0 THEN free ELSE next[free]
        IN /\ j \in 1 .. M /\ j \notin Members(u, n) /\ j \notin Members(hh, cc)
           /\ Lists(hh, cc, M) /\ Members(hh, cc) \subseteq Members(g, k) /\ Chain(next, ff, hh, cc)
           /\ \A w2 : Lists(w2, n + 1, M) /\ Members(w2, n + 1) = Members(u, n) \cup {j} =>
                Share(w2, n + 1, hh, cc, rr, M)
           /\ rr \in 0 .. M
    BY <1>1, TakesCell
  <2> HIDE DEF i
  <2> QED BY <1>2, <2>1, Zenon
<1>7. AllocatesCell(p, i, w)
  <2> HIDE DEF w
  <2>1. p.used_num < M /\ i \in 1 .. M /\ (p.reclaim_list = 0 => p.raw_used_num < M)
    BY <1>1, <1>3, <1>6
  <2> QED BY <1>1, <2>1, HashAllocates DEF w
<1> HIDE DEF i, w, b
<1>8. /\ w \in HashPoolType /\ w.used_num = n + 1 /\ w.raw_used_num = r /\ w.reclaim_list = f
      /\ w.prev = [[p.prev EXCEPT ![i] = 0] EXCEPT ![p.next[0]] = i]
      /\ w.next = [[p.next EXCEPT ![i] = p.next[0]] EXCEPT ![0] = i]
  BY <1>1, <1>7, Zenon DEF AllocatesCell
<1> HIDE DEF c, h, r, f, free, raw, next
<1>9. Lists(b, n + 1, M) /\ Members(b, n + 1) = Members(u, n) \cup {i}
  BY <1>1, <1>6, WithLists DEF b
<1>10. Share(b, n + 1, h, c, r, M)
  BY <1>6, <1>9
<1>11. i # p.next[0] /\ i # 0 /\ i \in 0 .. M
  BY <1>1, <1>5, <1>6 DEF Lists, Members
<1>12. \A y \in 0 .. M : /\ w.next[y] = IF y = 0 THEN i ELSE IF y = i THEN p.next[0] ELSE p.next[y]
                         /\ w.prev[y] = IF y = p.next[0] THEN i ELSE IF y = i THEN 0 ELSE p.prev[y]
  BY <1>4, <1>8, <1>11
<1>13. Ring(w.prev, w.next, b, n + 1)
  BY <1>12, <1>1, <1>6, RingWith DEF SplicedIn, b
<1>14. Chain(w.next, f, h, c)
  <2>1. ASSUME NEW y \in Members(h, c) PROVE w.next[y] = next[y]
    <3>1. y \in Members(g, k) /\ y # i
      BY <1>6, <2>1
    <3>2. y \in 0 .. M /\ y # 0
      BY <1>1, <3>1 DEF Lists, Members
    <3> QED BY <1>12, <3>1, <3>2 DEF next
  <2> QED BY <1>6, <2>1, ChainApart
<1>15. HashPoolOK(w, b, n + 1, h, c)
  BY <1>8, <1>10, <1>13, <1>14 DEF HashPoolOK
<1> QED BY <1>6, <1>15 DEF w, b, i

\* A cell in use is given back.
LEMMA HashGivesCell ==
  ASSUME NEW p, NEW u, NEW n, NEW g, NEW k, HashPoolOK(p, u, n, g, k), NEW o \in 1 .. n
  PROVE  HashPoolOK(Hash!Freed(p, u[o]), Without(u, o), n - 1, With(g, k, u[o]), k + 1)
<1> DEFINE i == u[o]
           before == u[o + 1]
           behind == u[o - 1]
           w == Hash!Freed(p, i)
<1>1. /\ M \in Nat /\ p \in HashPoolType /\ p.used_num = n /\ Lists(u, n, M) /\ Lists(g, k, M)
      /\ Ring(p.prev, p.next, u, n) /\ Chain(p.next, p.reclaim_list, g, k)
      /\ Share(u, n, g, k, p.raw_used_num, M) /\ Members(u, n) \cap Members(g, k) = {}
  BY HashCells DEF HashPoolOK, Share
<1>2. /\ p.next \in [0 .. M -> 0 .. M] /\ p.prev \in [0 .. M -> 0 .. (M + 1)]
      /\ p.reclaim_list \in 0 .. M
  BY <1>1, HashPoolFields
<1>3. /\ i \in 1 .. M /\ i \in 0 .. M /\ before \in 0 .. M /\ behind \in 0 .. M /\ n \in Nat
      /\ i # before /\ i # behind /\ p.used_num > 0
  BY <1>1 DEF Lists
<1>4. p.prev[i] = before /\ p.next[i] = behind
  BY <1>3, <1>1 DEF Ring
<1>5. i <= p.raw_used_num
  BY <1>1 DEF Members, Share
<1>6. /\ w \in HashPoolType /\ w.used_num = n - 1
      /\ w.raw_used_num = p.raw_used_num /\ w.reclaim_list = i
      /\ w.prev = [[p.prev EXCEPT ![behind] = before] EXCEPT ![i] = M + 1]
      /\ w.next = [[p.next EXCEPT ![before] = behind] EXCEPT ![i] = p.reclaim_list]
  <2> HIDE DEF w, i, before, behind
  <2>1. FreesCell(p, i, w)
    BY <1>1, <1>3, <1>4, <1>5, HashFrees DEF w
  <2> QED BY <1>1, <1>4, <2>1 DEF FreesCell
<1> HIDE DEF w
<1>7. /\ \A y \in 0 .. M : y # i => w.next[y] = IF y = before THEN behind ELSE p.next[y]
      /\ \A y \in 0 .. M : y # i => w.prev[y] = IF y = behind THEN before ELSE p.prev[y]
      /\ w.next[i] = p.reclaim_list
  <2> HIDE DEF i, before, behind
  <2> QED BY <1>2, <1>3, <1>6
<1>8. Ring(w.prev, w.next, Without(u, o), n - 1)
  BY <1>7, <1>1, RingWithout DEF SplicedOut
<1>9. /\ Share(Without(u, o), n - 1, With(g, k, u[o]), k + 1, p.raw_used_num, M)
      /\ Chain(w.next, u[o], With(g, k, u[o]), k + 1)
  <2>1. ASSUME NEW y \in Members(g, k) PROVE w.next[y] = p.next[y]
    <3>1. y \in 0 .. M /\ y # 0
      BY <1>1, <2>1 DEF Lists, Members
    <3>2. i \in Members(u, n) /\ (before = 0 \/ before \in Members(u, n))
      BY <1>1, <1>3 DEF Lists, Members
    <3>3. y # i /\ y # before
      BY <1>1, <2>1, <3>1, <3>2
    <3> QED BY <1>7, <3>1, <3>3
  <2>2. w.next[u[o]] = p.reclaim_list
    BY <1>7
  <2> QED BY <1>1, <2>1, <2>2, GivesCell
<1>10. HashPoolOK(w, Without(u, o), n - 1, With(g, k, u[o]), k + 1)
  BY <1>6, <1>8, <1>9 DEF HashPoolOK
<1> QED BY <1>10 DEF w

\* A pool with nothing in it.
LEMMA HashPoolUnused ==
  ASSUME NEW w \in HashPoolType, w.used_num = 0, w.raw_used_num = 0, w.reclaim_list = 0,
         w.prev[0] = 0, w.next[0] = 0
  PROVE  HashPoolOK(w, NoCells, 0, NoCells, 0)
  BY HashCells, NothingShared DEF Ring, Chain, NoCells, HashPoolOK

LEMMA HashClears ==
  ASSUME NEW p \in HashPoolType
  PROVE  HashPoolOK(Hash!Cleared(p), NoCells, 0, NoCells, 0)
<1> DEFINE w == Hash!Cleared(p)
           t1 == [p EXCEPT !.used_num = 0]
           t2 == [t1 EXCEPT !.raw_used_num = 0]
           t3 == [t2 EXCEPT !.reclaim_list = 0]
           t4 == [t3 EXCEPT !.prev[0] = 0, !.next[0] = 0]
           pp == [p.prev EXCEPT ![0] = 0]
           nn == [p.next EXCEPT ![0] = 0]
<1>1. w = t4
  <2>1. Hash!ClearWrites(p) = <<t1, t2, t3, t4>>
    BY Zenon DEF Hash!ClearWrites
  <2> HIDE DEF t1, t2, t3, t4
  <2>2. Len(Hash!ClearWrites(p)) = 4 /\ Hash!ClearWrites(p)[4] = t4
    BY <2>1
  <2> QED BY <2>2, Zenon DEF Hash!Cleared
<1>2. /\ p.prev \in [0 .. M -> 0 .. (M + 1)] /\ p.next \in [0 .. M -> 0 .. M]
      /\ 0 \in 0 .. M /\ 0 \in 0 .. (M + 1)
  <2>1. 0 \in 0 .. M /\ 0 \in 0 .. (M + 1)
    BY HashCells
  <2> QED BY <2>1, HashPoolFields
<1>3. pp \in [0 .. M -> 0 .. (M + 1)] /\ nn \in [0 .. M -> 0 .. M] /\ pp[0] = 0 /\ nn[0] = 0
  BY <1>2
<1>4. t4 = [p EXCEPT !.used_num = 0, !.raw_used_num = 0, !.reclaim_list = 0, !.prev = pp, !.next = nn]
  BY DEF HashPoolType
<1> HIDE DEF w, t4, pp, nn
<1>5. /\ w \in HashPoolType /\ w.used_num = 0 /\ w.raw_used_num = 0 /\ w.reclaim_list = 0
      /\ w.prev = pp /\ w.next = nn
  BY <1>1, <1>2, <1>3, <1>4 DEF HashPoolType
<1>6. HashPoolOK(w, NoCells, 0, NoCells, 0)
  BY <1>3, <1>5, HashPoolUnused
<1> QED BY <1>6 DEF w

HashValues == Keys.hash \cup {0}

HashType ==
  [pool : HashPoolType, buckets : [Tables -> 0 .. M], first : [1 .. M -> HashValues],
   chain : [1 .. M -> 0 .. M]]

\* Every cell in use is in the bucket of its key, and no two have the same key.
HashOK(d, u, n, g, k, c, l) ==
  /\ d \in HashType
  /\ HashPoolOK(d.pool, u, n, g, k)
  /\ Spread(d.chain, d.buckets, d.first, c, l, Members(u, n), M)
  /\ \A o, q \in 1 .. n : d.first[u[o]] = d.first[u[q]] => o = q

\* The hash pool d holds the keys s.
HashHolds(d, s) ==
  \E u, n, g, k, c, l : HashOK(d, u, n, g, k, c, l) /\ s = ValuesOf(d.first, u, n)

LEMMA HashFields ==
  ASSUME NEW d \in HashType
  PROVE  /\ d.pool \in HashPoolType /\ d.buckets \in [Tables -> 0 .. M]
         /\ Valued(d.first, M, HashValues) /\ d.chain \in [1 .. M -> 0 .. M]
         /\ DOMAIN d.chain = 1 .. M
  BY DEF HashType, Valued

LEMMA HashWalks ==
  ASSUME NEW next, NEW first
  PROVE  Hash!Walk(next, first) = Walk(next, first)
<1>1. LET bound == Hash!Cardinality(DOMAIN next)
          at == WalkAt(next, first, bound)
          len == Hash!Cardinality({n \in 0 .. (bound - 1) : at[n] # 0})
      IN Hash!Walk(next, first) = [k \in 1 .. len |-> at[k - 1]]
  BY Zenon DEF Hash!Walk, WalkAt
<1>2. \A S : Hash!Cardinality(S) = Cardinality(S)
  BY Zenon DEF Cardinality, Hash!Cardinality
<1> QED BY <1>1, <1>2, WalkIs

\* What a hash pool looks like.
LEMMA HashIs ==
  ASSUME NEW d, NEW u, NEW n, NEW g, NEW k, NEW c, NEW l, HashOK(d, u, n, g, k, c, l)
  PROVE  /\ n \in Nat /\ k \in Nat /\ Lists(u, n, M) /\ Lists(g, k, M)
         /\ d.pool.used_num = n /\ n \in 0 .. M
         /\ Hash!UsedList(d.pool) = Backwards(u, n) /\ Hash!ReclaimList(d.pool) = Backwards(g, k)
         /\ \A b \in Tables : Hash!Chain(d, b) = Backwards(c[b], l[b])
<1>1. /\ M \in Nat /\ IsFiniteSet(0 .. M) /\ DOMAIN d.pool.next = 0 .. M /\ DOMAIN d.chain = 1 .. M
      /\ IsFiniteSet(1 .. M) /\ d.pool.used_num \in 0 .. M
  <2>1. M \in Nat /\ IsFiniteSet(0 .. M) /\ d \in HashType
    BY HashCells DEF HashOK
  <2>2. d.pool \in HashPoolType /\ DOMAIN d.chain = 1 .. M
    BY <2>1, HashFields
  <2>3. DOMAIN d.pool.next = 0 .. M /\ d.pool.used_num \in 0 .. M
    BY <2>2, HashPoolFields
  <2> QED BY <2>1, <2>2, <2>3, FS_Interval
<1>2. /\ n \in Nat /\ k \in Nat /\ Lists(u, n, M) /\ Lists(g, k, M) /\ d.pool.used_num = n
      /\ Ring(d.pool.prev, d.pool.next, u, n) /\ Chain(d.pool.next, d.pool.reclaim_list, g, k)
  BY DEF HashOK, HashPoolOK, Share, Lists
<1>3. \A a, j : Lists(a, j, M) => Members(a, j) \subseteq 0 .. M /\ Members(a, j) \subseteq 1 .. M
  BY <1>1 DEF Lists, Members
<1>4. Chain(d.pool.next, d.pool.next[0], u, n)
  BY <1>2, RingForwards
<1>5. Hash!UsedList(d.pool) = Backwards(u, n)
  BY <1>1, <1>2, <1>3, <1>4, ChainIsWalk, HashWalks DEF Hash!UsedList
<1>6. Hash!ReclaimList(d.pool) = Backwards(g, k)
  BY <1>1, <1>2, <1>3, ChainIsWalk, HashWalks DEF Hash!ReclaimList
<1>7. ASSUME NEW b \in Tables PROVE Hash!Chain(d, b) = Backwards(c[b], l[b])
  BY <1>1, <1>3, ChainIsWalk, HashWalks DEF HashOK, Spread, Hash!Chain
<1> QED BY <1>1, <1>2, <1>5, <1>6, <1>7

\* A key is found where it is, and nowhere else.
LEMMA HashFinds ==
  ASSUME NEW d, NEW u, NEW n, NEW g, NEW k, NEW c, NEW l, HashOK(d, u, n, g, k, c, l),
         NEW x \in Keys.hash
  PROVE  LET s == ValuesOf(d.first, u, n) IN
         \/ /\ Hash!find_ref(d, x) = 0 /\ x \notin Abstract!Elements(s)
            /\ \A o \in 1 .. n : d.first[u[o]] # x
         \/ \E o \in 1 .. n : /\ Hash!find_ref(d, x) = u[o] /\ u[o] # 0 /\ d.first[u[o]] = x
                              /\ x \in Abstract!Elements(s)
                              /\ Abstract!RemoveFirst(s, x) = Abstract!RemoveAt(s, n + 1 - o)
<1> DEFINE b == Bucket(x)
           cells == Backwards(c[b], l[b])
           T == {j \in 1 .. Len(cells) : d.first[cells[j]] = x}
           S == Members(u, n)
           s == ValuesOf(d.first, u, n)
           r == Hash!find_ref(d, x)
<1>1. /\ n \in Nat /\ Lists(u, n, M) /\ M \in Nat /\ b \in Tables
      /\ Hash!bucket_index(x) = b
  BY HashIs, HashCells, BucketIs
<1>2. Hash!Chain(d, b) = cells /\ Spread(d.chain, d.buckets, d.first, c, l, S, M)
  <2>1. \A y \in Tables : Hash!Chain(d, y) = Backwards(c[y], l[y])
    BY HashIs
  <2>2. Spread(d.chain, d.buckets, d.first, c, l, Members(u, n), M)
    BY DEF HashOK
  <2> HIDE DEF b
  <2> QED BY <1>1, <2>1, <2>2
<1>3. /\ T \in SUBSET Nat
      /\ T = {} => \A i \in S : d.first[i] # x
      /\ \A j \in T : cells[j] \in S /\ d.first[cells[j]] = x /\ cells[j] # 0
  BY <1>1, <1>2, SpreadFinds
<1>4. r = LET o == IF T # {} THEN Hash!Least(T) ELSE 0 IN IF o = 0 THEN 0 ELSE cells[o]
  BY <1>1, <1>2, Zenon DEF Hash!find_ref, Hash!FirstHit
<1>5. s \in Seq(HashValues) /\ Len(s) = n /\ \A j \in 1 .. n : s[j] = d.first[u[n + 1 - j]]
  <2>1. Valued(d.first, M, HashValues)
    BY HashFields DEF HashOK
  <2> QED BY <1>1, <2>1, ValuesAre
<1>6. \A o \in 1 .. n : u[o] \in S /\ n + 1 - o \in 1 .. n /\ n + 1 - (n + 1 - o) = o
  BY <1>1 DEF Members
<1> HIDE DEF T, cells, s, r
<1>7. CASE T = {}
  <2>1. r = 0
    BY <1>4, <1>7
  <2>2. \A o \in 1 .. n : d.first[u[o]] # x
    BY <1>3, <1>6, <1>7
  <2>3. x \notin Abstract!Elements(s)
    BY <1>5, <1>6, <2>2 DEF Abstract!Elements
  <2> QED BY <2>1, <2>2, <2>3 DEF s, r
<1>8. CASE T # {}
  <2> DEFINE q == Hash!Least(T)
  <2>1. q = CHOOSE h \in T : \A y \in T : h =< y
    BY Zenon DEF Hash!Least
  <2> HIDE DEF q
  <2>2. q \in T /\ q # 0
    <3>0. T \in SUBSET Nat
      BY <1>3
    <3>1. q \in T
      BY <1>8, <2>1, <3>0, LeastOf
    <3>2. 0 \notin T
      BY DEF T
    <3> QED BY <3>1, <3>2
  <2>3. r = cells[q]
    BY <1>4, <1>8, <2>2 DEF q
  <2>4. r \in S /\ d.first[r] = x /\ r # 0
    BY <1>3, <2>2, <2>3
  <2>5. PICK o \in 1 .. n : u[o] = r
    BY <2>4 DEF Members
  <2> DEFINE j == n + 1 - o
  <2>6. j \in 1 .. n /\ n + 1 - j = o
    BY <1>6
  <2> HIDE DEF j
  <2>7. s[j] = x
    BY <1>5, <2>4, <2>5, <2>6
  <2>8. ASSUME NEW h \in 1 .. Len(s), s[h] = x PROVE j =< h
    BY <1>1, <1>5, <2>4, <2>5, <2>8, <2>6 DEF HashOK
  <2>9. Abstract!RemoveFirst(s, x) = Abstract!RemoveAt(s, j) /\ x \in Abstract!Elements(s)
    <3>1. s \in Seq(HashValues) /\ j \in 1 .. Len(s)
      BY <1>5, <2>6
    <3> QED BY <2>7, <2>8, <3>1, FirstRemoved
  <2>10. /\ r = u[o] /\ u[o] # 0 /\ d.first[u[o]] = x /\ x \in Abstract!Elements(s)
         /\ Abstract!RemoveFirst(s, x) = Abstract!RemoveAt(s, n + 1 - o)
    BY <2>4, <2>5, <2>9 DEF j
  <2> QED BY <2>10 DEF s, r
<1> QED BY <1>7, <1>8

LEMMA HashHas ==
  ASSUME NEW d, NEW u, NEW n, NEW g, NEW k, NEW c, NEW l, HashOK(d, u, n, g, k, c, l)
  PROVE  /\ n \in Nat /\ Lists(u, n, M) /\ M \in Nat
         /\ d \in HashType /\ HashPoolOK(d.pool, u, n, g, k)
         /\ Spread(d.chain, d.buckets, d.first, c, l, Members(u, n), M)
<1>1. n \in Nat /\ Lists(u, n, M) /\ M \in Nat
  BY HashIs, HashCells
<1> QED BY <1>1 DEF HashOK

LEMMA KeysHash ==
  ASSUME NEW x \in Keys.hash
  PROVE  Bucket(x) \in Tables /\ Hash!bucket_index(x) = Bucket(x) /\ x \in HashValues
  BY HashCells, BucketIs DEF HashValues

\* A key comes into a pool that is not full and has not got it.
LEMMA HashInserts ==
  ASSUME NEW d, NEW u, NEW n, NEW g, NEW k, NEW c, NEW l, HashOK(d, u, n, g, k, c, l), n < M,
         NEW x \in Keys.hash, \A o \in 1 .. n : d.first[u[o]] # x
  PROVE  HashHolds(Hash!Inserted(d, x), <<x>> \o ValuesOf(d.first, u, n))
<1> DEFINE i == Hash!AllocIndex(d.pool)
           p == Hash!Allocated(d.pool)
           b == Bucket(x)
           w == Hash!Inserted(d, x)
           v == [d.first EXCEPT ![i] = x]
           next == [d.chain EXCEPT ![i] = d.buckets[b]]
           heads == [d.buckets EXCEPT ![b] = i]
           a == With(u, n, i)
           S == Members(u, n)
<1>1. /\ n \in Nat /\ Lists(u, n, M) /\ M \in Nat /\ b \in Tables /\ Hash!bucket_index(x) = b
      /\ d \in HashType /\ HashPoolOK(d.pool, u, n, g, k)
      /\ Spread(d.chain, d.buckets, d.first, c, l, S, M) /\ x \in HashValues
  BY HashHas, KeysHash
<1>2. /\ Valued(d.first, M, HashValues) /\ d.buckets \in [Tables -> 0 .. M]
      /\ d.chain \in [1 .. M -> 0 .. M]
  BY <1>1, HashFields
<1>3. i \in 1 .. M /\ i \notin S /\ \E h, e : HashPoolOK(p, a, n + 1, h, e)
  BY <1>1, HashTakesCell
<1>4. PICK h, e : HashPoolOK(p, a, n + 1, h, e)
  BY <1>3
<1>5. w = [d EXCEPT !.pool = p, !.first[i] = x, !.chain[i] = d.buckets[b], !.buckets[b] = i]
  <2>1. LET j == Hash!AllocIndex(d.pool)
            y == Hash!bucket_index(x)
        IN Hash!Inserted(d, x) = [d EXCEPT !.pool = Hash!Allocated(@), !.first[j] = x,
                                           !.chain[j] = d.buckets[y], !.buckets[y] = j]
    BY Zenon DEF Hash!Inserted
  <2> HIDE DEF b
  <2> QED BY <1>1, <2>1
<1> HIDE DEF i, p, b, w
<1>6. i \in 0 .. M
  BY <1>1, <1>3
<1>7. v \in [1 .. M -> HashValues] /\ next \in [1 .. M -> 0 .. M] /\ heads \in [Tables -> 0 .. M]
  BY <1>1, <1>2, <1>6 DEF Valued
<1>8. /\ v[i] = x /\ next[i] = d.buckets[b]
      /\ \A y \in S : next[y] = d.chain[y] /\ v[y] = d.first[y]
      /\ \A y \in Tables : heads[y] = IF y = b THEN i ELSE d.buckets[y]
  <2>1. S \subseteq 1 .. M
    BY <1>1 DEF Lists, Members
  <2> HIDE DEF S
  <2> QED BY <1>1, <1>2, <1>3, <2>1 DEF Valued
<1>9. w = [d EXCEPT !.pool = p, !.first = v, !.chain = next, !.buckets = heads]
  BY <1>1, <1>5 DEF HashType
<1>10. HashPoolOK(p, a, n + 1, h, e) /\ p \in HashPoolType
  BY <1>4 DEF HashPoolOK
<1> HIDE DEF v, next, heads
<1>11. /\ w \in HashType /\ w.pool = p /\ w.first = v /\ w.chain = next /\ w.buckets = heads
  BY <1>1, <1>7, <1>9, <1>10 DEF HashType
<1>12. Lists(a, n + 1, M) /\ Members(a, n + 1) = S \cup {i}
  BY <1>1, <1>3, WithLists
<1>13. PICK cc, ll : Spread(next, heads, v, cc, ll, S \cup {i}, M)
  <2> HIDE DEF S
  <2>1. Bucket(v[i]) = b
    BY <1>8 DEF b
  <2>2. M \in Nat /\ b \in Tables /\ i \in 1 .. M
    BY <1>1, <1>3
  <2>3. PutIn(d.chain, d.buckets, d.first, next, heads, v, S, b, i)
    BY <1>3, <1>8, <2>1 DEF PutIn
  <2>4. Spread(d.chain, d.buckets, d.first, c, l, S, M)
    BY <1>1
  <2>5. Spreads(next, heads, v, S \cup {i}, M)
    BY <2>2, <2>3, <2>4, SpreadWith
  <2> QED BY <2>5 DEF Spreads
<1>14. \A o, q \in 1 .. (n + 1) : v[a[o]] = v[a[q]] => o = q
  <2>1. a[n + 1] = i /\ \A o \in 1 .. n : a[o] = u[o]
    BY <1>1 DEF With
  <2>2. \A o \in 1 .. n : u[o] \in S
    BY DEF Members
  <2>3. v[a[n + 1]] = x /\ \A o \in 1 .. n : v[a[o]] = d.first[u[o]] /\ v[a[o]] # x
    BY <1>8, <2>1, <2>2
  <2>4. \A o, q \in 1 .. n : d.first[u[o]] = d.first[u[q]] => o = q
    BY DEF HashOK
  <2>5. \A o \in 1 .. (n + 1) : o \in 1 .. n \/ o = n + 1
    BY <1>1
  <2> HIDE DEF a
  <2> QED BY <2>3, <2>4, <2>5
<1>15. HashOK(w, a, n + 1, h, e, cc, ll)
  <2> HIDE DEF a, S
  <2> QED BY <1>10, <1>11, <1>12, <1>13, <1>14 DEF HashOK
<1>16. ValuesOf(w.first, a, n + 1) = <<x>> \o ValuesOf(d.first, u, n)
  <2>1. ValuesOf([d.first EXCEPT ![i] = x], With(u, n, i), n + 1) = Prepended(x, ValuesOf(d.first, u, n))
    BY <1>1, <1>2, <1>3, ValuesWith
  <2> QED BY <1>11, <2>1 DEF v, Prepended
<1> HIDE DEF a
<1> QED BY <1>15, <1>16 DEF HashHolds, w

\* The key in the o-th oldest cell goes.
LEMMA HashErases ==
  ASSUME NEW d, NEW u, NEW n, NEW g, NEW k, NEW c, NEW l, HashOK(d, u, n, g, k, c, l),
         NEW x \in Keys.hash, NEW o \in 1 .. n, d.first[u[o]] = x, Hash!find_ref(d, x) = u[o]
  PROVE  HashHolds(Hash!Erased(d, x), Abstract!RemoveAt(ValuesOf(d.first, u, n), n + 1 - o))
<1> DEFINE i == u[o]
           p == Hash!Freed(d.pool, i)
           b == Bucket(x)
           w == Hash!Erased(d, x)
           S == Members(u, n)
           cells == Backwards(c[b], l[b])
           T == {j \in 1 .. Len(cells) : cells[j] = i}
           f == IF T # {} THEN Hash!Least(T) ELSE 0
           a == Without(u, o)
<1>1. /\ n \in Nat /\ Lists(u, n, M) /\ M \in Nat /\ b \in Tables /\ Hash!bucket_index(x) = b
      /\ d \in HashType /\ HashPoolOK(d.pool, u, n, g, k)
  BY HashHas, KeysHash
<1>2. Hash!Chain(d, b) = cells
  <2>1. \A y \in Tables : Hash!Chain(d, y) = Backwards(c[y], l[y])
    BY HashIs
  <2> HIDE DEF b
  <2> QED BY <1>1, <2>1
<1>3. /\ Valued(d.first, M, HashValues) /\ d.buckets \in [Tables -> 0 .. M]
      /\ d.chain \in [1 .. M -> 0 .. M]
  BY <1>1, HashFields
<1>4. i \in 1 .. M /\ i \in S /\ S \subseteq 1 .. M
  BY <1>1 DEF Lists, Members
<1>5. Spread(d.chain, d.buckets, d.first, c, l, S, M)
  BY DEF HashOK
<1>6. /\ Lists(c[b], l[b], M) /\ Members(c[b], l[b]) = {j \in S : Bucket(d.first[j]) = b}
  <2> HIDE DEF b, S
  <2> QED BY <1>1, <1>5 DEF Spread
<1>7. PICK q \in 1 .. l[b] : c[b][q] = i
  <2>1. i \in Members(c[b], l[b])
    BY <1>4, <1>6
  <2> HIDE DEF i, b
  <2> QED BY <2>1 DEF Members
<1>8. /\ f # 0 /\ (f = 1 <=> q = l[b]) /\ (f # 1 => cells[f - 1] = c[b][q + 1])
  <2>1. LET cs == Backwards(c[b], l[b])
            U == {j \in 1 .. Len(cs) : cs[j] = c[b][q]}
        IN /\ U # {} /\ (CHOOSE y \in U : \A z \in U : y =< z) = l[b] + 1 - q
           /\ l[b] + 1 - q # 1 => cs[(l[b] + 1 - q) - 1] = c[b][q + 1]
           /\ l[b] + 1 - q = 1 <=> q = l[b]
           /\ l[b] + 1 - q # 0
    <3> HIDE DEF b
    <3>1. Lists(c[b], l[b], M) /\ q \in 1 .. l[b]
      BY <1>6
    <3> DEFINE y == c[b]
               z == l[b]
    <3>2. Lists(y, z, M) /\ q \in 1 .. z
      BY <3>1
    <3> HIDE DEF y, z
    <3>3. LET cs == Backwards(y, z)
              U == {j \in 1 .. Len(cs) : cs[j] = y[q]}
          IN /\ U # {} /\ (CHOOSE r \in U : \A s \in U : r =< s) = z + 1 - q
             /\ z + 1 - q # 1 => cs[(z + 1 - q) - 1] = y[q + 1]
             /\ z + 1 - q = 1 <=> q = z
             /\ z + 1 - q # 0
      BY <3>2, SpreadPlaces
    <3> QED BY <3>3 DEF y, z
  <2>2. T = {j \in 1 .. Len(cells) : cells[j] = c[b][q]}
    BY <1>7
  <2>3. T # {} /\ (CHOOSE y \in T : \A z \in T : y =< z) = l[b] + 1 - q
    <3> HIDE DEF b, cells
    <3> QED BY <2>1, <2>2 DEF cells
  <2>4. f = l[b] + 1 - q
    <3> HIDE DEF T
    <3>1. f = Hash!Least(T) /\ Hash!Least(T) = CHOOSE y \in T : \A z \in T : y =< z
      BY <2>3, Zenon DEF Hash!Least
    <3> QED BY <2>3, <3>1
  <2> HIDE DEF f, b
  <2> QED BY <2>1, <2>4
<1> DEFINE heads == IF f = 1 THEN [d.buckets EXCEPT ![b] = d.chain[i]] ELSE d.buckets
           next == IF f = 1 THEN d.chain ELSE [d.chain EXCEPT ![c[b][q + 1]] = d.chain[i]]
<1>9. w = [d EXCEPT !.buckets = heads, !.chain = next, !.pool = p]
  <2> DEFINE out == IF f = 1 THEN [d EXCEPT !.buckets[b] = d.chain[i]]
                    ELSE [d EXCEPT !.chain[cells[f - 1]] = d.chain[i]]
  <2>1. w = [out EXCEPT !.pool = Hash!Freed(@, i)]
    <3> DEFINE y == Hash!bucket_index(x)
               cs == Hash!Chain(d, y)
               r == Hash!find_ref(d, x)
               U == {j \in 1 .. Len(cs) : cs[j] = r}
               e == IF U # {} THEN Hash!Least(U) ELSE 0
    <3>1. w = [(IF e = 1 THEN [d EXCEPT !.buckets[y] = d.chain[r]]
                ELSE [d EXCEPT !.chain[cs[e - 1]] = d.chain[r]]) EXCEPT !.pool = Hash!Freed(@, r)]
      BY Zenon DEF Hash!Erased, Hash!FirstHit
    <3>2. y = b /\ cs = cells /\ r = i
      BY <1>1, <1>2
    <3> HIDE DEF w, b, cells, i
    <3> QED BY <3>1, <3>2, Zenon
  <2> HIDE DEF f, i, b, cells, w
  <2>2. CASE f = 1
    <3>1. w = [[d EXCEPT !.buckets[b] = d.chain[i]] EXCEPT !.pool = Hash!Freed(@, i)]
      BY <2>1, <2>2
    <3>2. heads = [d.buckets EXCEPT ![b] = d.chain[i]] /\ next = d.chain
      BY <2>2
    <3> HIDE DEF heads, next, out
    <3> QED BY <1>1, <3>1, <3>2 DEF HashType
  <2>3. CASE f # 1
    <3>1. w = [[d EXCEPT !.chain[c[b][q + 1]] = d.chain[i]] EXCEPT !.pool = Hash!Freed(@, i)]
      BY <1>8, <2>1, <2>3
    <3>2. heads = d.buckets /\ next = [d.chain EXCEPT ![c[b][q + 1]] = d.chain[i]]
      BY <2>3
    <3> HIDE DEF heads, next, out
    <3> QED BY <1>1, <3>1, <3>2 DEF HashType
  <2> QED BY <2>2, <2>3
<1>10. /\ \A y \in S \ {i} : next[y] = IF y = c[b][q + 1] THEN d.chain[i] ELSE d.chain[y]
       /\ \A y \in Tables : heads[y] = IF y = b /\ q = l[b] THEN d.chain[i] ELSE d.buckets[y]
       /\ next \in [1 .. M -> 0 .. M] /\ heads \in [Tables -> 0 .. M]
  <2>1. q = l[b] => c[b][q + 1] = 0
    <3> HIDE DEF b
    <3> QED BY <1>6 DEF Lists
  <2>2. q # l[b] => c[b][q + 1] \in 1 .. M
    <3>1. q # l[b] => q + 1 \in 1 .. l[b]
      <4> HIDE DEF b
      <4> QED BY <1>6 DEF Lists
    <3>2. \A j \in 1 .. l[b] : c[b][j] \in 1 .. M
      <4> HIDE DEF b
      <4> QED BY <1>1, <1>6 DEF Lists
    <3> QED BY <3>1, <3>2
  <2>3. d.chain[i] \in 0 .. M
    BY <1>3, <1>4
  <2>4. 0 \notin S
    BY <1>4
  <2> HIDE DEF f, b, i, S
  <2>5. CASE q = l[b]
    <3>1. f = 1 /\ heads = [d.buckets EXCEPT ![b] = d.chain[i]] /\ next = d.chain
      BY <1>8, <2>5
    <3> HIDE DEF heads, next
    <3> QED BY <1>1, <1>3, <2>1, <2>3, <2>4, <2>5, <3>1
  <2>6. CASE q # l[b]
    <3>1. f # 1 /\ heads = d.buckets /\ next = [d.chain EXCEPT ![c[b][q + 1]] = d.chain[i]]
      BY <1>8, <2>6
    <3> HIDE DEF heads, next
    <3> QED BY <1>3, <1>4, <2>2, <2>3, <2>6, <3>1
  <2> QED BY <2>5, <2>6
<1>11. HashPoolOK(p, a, n - 1, With(g, k, i), k + 1)
  BY <1>1, HashGivesCell
<1>12. p \in HashPoolType
  BY <1>11 DEF HashPoolOK
<1> HIDE DEF heads, next, p, w
<1>13. w \in HashType /\ w.pool = p /\ w.first = d.first /\ w.chain = next /\ w.buckets = heads
  BY <1>1, <1>9, <1>10, <1>12 DEF HashType
<1>14. Lists(a, n - 1, M) /\ Members(a, n - 1) = S \ {i}
  BY <1>1, WithoutLists
<1>15. PICK cc, ll : Spread(next, heads, d.first, cc, ll, S \ {i}, M)
  <2>1. Bucket(d.first[i]) = b
    OBVIOUS
  <2> HIDE DEF b, S, i
  <2>2. b \in Tables /\ i \in S /\ S \subseteq 1 .. M /\ M \in Nat /\ q \in 1 .. l[b] /\ c[b][q] = i
    BY <1>1, <1>4, <1>7
  <2>3. Spread(d.chain, d.buckets, d.first, c, l, S, M)
    BY <1>5
  <2>4. TakenOut(d.chain, d.buckets, next, heads, c, l, S, b, q, i)
    BY <1>10 DEF TakenOut
  <2>5. Spreads(next, heads, d.first, S \ {i}, M)
    BY <2>1, <2>2, <2>3, <2>4, SpreadWithout
  <2> QED BY <2>5 DEF Spreads
<1>16. \A y, z \in 1 .. (n - 1) : d.first[a[y]] = d.first[a[z]] => y = z
  <2>1. \A y, z \in 1 .. n : d.first[u[y]] = d.first[u[z]] => y = z
    BY DEF HashOK
  <2>2. \A y \in 1 .. (n - 1) : a[y] = IF y < o THEN u[y] ELSE u[y + 1]
    BY <1>1 DEF Without
  <2> HIDE DEF a
  <2> SUFFICES ASSUME NEW y \in 1 .. (n - 1), NEW z \in 1 .. (n - 1), d.first[a[y]] = d.first[a[z]]
               PROVE  y = z
    OBVIOUS
  <2>3. PICK y2 \in 1 .. n : a[y] = u[y2] /\ y2 = IF y < o THEN y ELSE y + 1
    BY <1>1, <2>2
  <2>4. PICK z2 \in 1 .. n : a[z] = u[z2] /\ z2 = IF z < o THEN z ELSE z + 1
    BY <1>1, <2>2
  <2>5. y2 = z2
    BY <2>1, <2>3, <2>4
  <2> QED BY <1>1, <2>3, <2>4, <2>5
<1>17. HashOK(w, a, n - 1, With(g, k, i), k + 1, cc, ll)
  <2> HIDE DEF a, b, S, i
  <2> QED BY <1>11, <1>13, <1>14, <1>15, <1>16 DEF HashOK
<1>18. ValuesOf(w.first, a, n - 1) = Abstract!RemoveAt(ValuesOf(d.first, u, n), n + 1 - o)
  <2>1. Lists(u, n, M) /\ M \in Nat /\ Valued(d.first, M, HashValues)
    BY <1>1, <1>3
  <2> HIDE DEF b, S, cells, T, f, i
  <2>2. ValuesOf(d.first, a, n - 1) = Abstract!RemoveAt(ValuesOf(d.first, u, n), n + 1 - o)
    BY <2>1, ValuesWithout
  <2> QED BY <1>13, <2>2
<1> HIDE DEF a, b
<1> QED BY <1>17, <1>18 DEF HashHolds, w

LEMMA HashClearsAll ==
  ASSUME NEW d \in HashType,
         NEW w, w = [d EXCEPT !.pool = Hash!Cleared(@), !.buckets = [b \in Hash!Buckets |-> 0]]
  PROVE  HashHolds(w, <<>>)
<1> DEFINE p == Hash!Cleared(d.pool)
           heads == [b \in Tables |-> 0]
<1>1. M \in Nat /\ 0 \in 0 .. M /\ heads \in [Tables -> 0 .. M] /\ Hash!Buckets = Tables
  BY HashCells
<1>2. HashPoolOK(p, NoCells, 0, NoCells, 0) /\ p \in HashPoolType
  BY HashFields, HashClears DEF HashPoolOK
<1>3. w = [d EXCEPT !.pool = p, !.buckets = heads]
  BY <1>1
<1>4. \A b \in Tables : heads[b] = 0
  OBVIOUS
<1> HIDE DEF p, heads
<1>5. w \in HashType /\ w.pool = p /\ w.buckets = heads
  BY <1>1, <1>2, <1>3 DEF HashType
<1>6. Spread(w.chain, w.buckets, w.first, [b \in Tables |-> NoCells], [b \in Tables |-> 0], {}, M)
  BY <1>1, <1>4, <1>5, NothingSpread
<1>7. Members(NoCells, 0) = {}
  BY <1>1, NoCellsAre
<1>8. HashOK(w, NoCells, 0, NoCells, 0, [b \in Tables |-> NoCells], [b \in Tables |-> 0])
  BY <1>2, <1>5, <1>6, <1>7 DEF HashOK
<1>9. ValuesOf(w.first, NoCells, 0) = <<>>
  BY DEF ValuesOf
<1> QED BY <1>8, <1>9 DEF HashHolds

\* Of a hash pool in use.
HashInv == HashHolds(data, Hash!Contents)

LEMMA HashIsThis ==
  ASSUME NEW s, HashHolds(data, s)
  PROVE  Hash!Contents = s
<1>1. PICK u, n, g, k, c, l : HashOK(data, u, n, g, k, c, l) /\ s = ValuesOf(data.first, u, n)
  BY DEF HashHolds
<1>2. Hash!UsedList(data.pool) = Backwards(u, n) /\ n \in Nat
  BY <1>1, HashIs
<1>3. Len(Backwards(u, n)) = n /\ \A j \in 1 .. n : Backwards(u, n)[j] = u[n + 1 - j]
  BY <1>2 DEF Backwards
<1> QED BY <1>1, <1>2, <1>3 DEF Hash!Contents, ValuesOf

HashIsContents == \A s : HashHolds(data, s) => Hash!Contents = s

LEMMA HashContents == HashIsContents
  BY HashIsThis DEF HashIsContents

LEMMA HashContentsNext == HashIsContents'
  BY HashContents, PTL

LEMMA HashHoldsNext ==
  ASSUME NEW s, HashHolds(data', s)
  PROVE  Hash!Contents' = s /\ HashInv'
  BY HashContentsNext DEF HashIsContents, HashInv

LEMMA HashInvInit == Hash!Init => HashInv /\ Hash!Contents = <<>>
<1> SUFFICES ASSUME Hash!Init PROVE HashHolds(data, <<>>)
  BY HashIsThis DEF HashInv
<1>1. M \in Nat /\ Hash!Cells = 1 .. M /\ Hash!Links = 0 .. M /\ Hash!Buckets = Tables
  BY HashCells
<1>2. data = Hash!EmptyHash
  BY DEF Hash!Init
<1> DEFINE w == Hash!FreshPool
<1>3. /\ w \in HashPoolType /\ w.used_num = 0 /\ w.raw_used_num = 0 /\ w.reclaim_list = 0
      /\ w.prev[0] = 0 /\ w.next[0] = 0
  BY <1>1 DEF Hash!FreshPool, HashPoolType
<1>4. HashPoolOK(w, NoCells, 0, NoCells, 0)
  BY <1>3, HashPoolUnused
<1> HIDE DEF w
<1>5. /\ data \in HashType /\ data.pool = w /\ \A b \in Tables : data.buckets[b] = 0
  BY <1>1, <1>2, <1>3 DEF Hash!EmptyHash, HashType, HashValues, w
<1>6. Spread(data.chain, data.buckets, data.first, [b \in Tables |-> NoCells], [b \in Tables |-> 0], {}, M)
  BY <1>1, <1>5, NothingSpread
<1>7. Members(NoCells, 0) = {}
  BY <1>1, NoCellsAre
<1>8. HashOK(data, NoCells, 0, NoCells, 0, [b \in Tables |-> NoCells], [b \in Tables |-> 0])
  BY <1>4, <1>5, <1>6, <1>7 DEF HashOK
<1>9. ValuesOf(data.first, NoCells, 0) = <<>>
  BY DEF ValuesOf
<1> QED BY <1>8, <1>9 DEF HashHolds

\* A call of a hash pool is a call of a list of keys.
LEMMA HashStep ==
  ASSUME kind = "hash", kind' = "hash", HashInv, Hash!Next
  PROVE  HashInv' /\ Abstract!ListNext
<1> DEFINE s == Hash!Contents
<1>1. Contents = s /\ Contents' = s' /\ AbstractKind = "hash" /\ AbstractKind' = "hash"
  BY Zenon DEF Contents, AbstractKind
<1>2. PICK u, n, g, k, c, l : HashOK(data, u, n, g, k, c, l) /\ s = ValuesOf(data.first, u, n)
  BY DEF HashInv, HashHolds
<1>3. /\ n \in Nat /\ Lists(u, n, M) /\ M \in Nat /\ data \in HashType
      /\ data.pool.used_num = n /\ n \in 0 .. M
  BY <1>2, HashIs, HashHas
<1>4. Valued(data.first, M, HashValues)
  BY <1>3, HashFields
<1>5. s \in Seq(HashValues) /\ Len(s) = n
  BY <1>2, <1>3, <1>4, ValuesAre
<1>6. ASSUME NEW t, HashHolds(data', t) PROVE Contents' = t /\ HashInv'
  BY <1>1, <1>6, HashHoldsNext
<1>7. ASSUME Hash!Same PROVE Contents' = s /\ HashInv'
  BY <1>7, <1>6 DEF Hash!Same, HashInv
<1>8. (Abstract!IsFull <=> n = M) /\ (Hash!Full(data.pool) <=> n = M)
  BY <1>1, <1>5, <1>3 DEF Abstract!IsFull, AbstractKind, M, Hash!Full
<1> DEFINE There(x) == Hash!find_ref(data, x) # 0
<1>9. ASSUME NEW x \in Keys.hash, ~There(x)
      PROVE  ~Abstract!Held(x) /\ \A o \in 1 .. n : data.first[u[o]] # x
  BY <1>1, <1>2, <1>9, HashFinds DEF Abstract!Held
<1>10. ASSUME NEW x \in Keys.hash, There(x)
       PROVE  /\ Abstract!Held(x)
              /\ \E o \in 1 .. n : /\ Hash!find_ref(data, x) = u[o] /\ data.first[u[o]] = x
                                   /\ Abstract!Without(x) = Abstract!RemoveAt(s, n + 1 - o)
  BY <1>1, <1>2, <1>10, HashFinds DEF Abstract!Held, Abstract!Without
<1> HIDE DEF s, There
<1> DEFINE Stepped == HashInv' /\ (Abstract!Shrink \/ \E x \in Keys.hash : Abstract!AnyCall(x) \/ Abstract!HashCall(x))
<1>11. ASSUME Hash!Clear PROVE Stepped
  <2>1. HashHolds(data', <<>>)
    BY <1>3, <1>11, HashClearsAll DEF Hash!Clear
  <2>2. Contents' = <<>> /\ HashInv'
    BY <1>6, <2>1
  <2>3. Abstract!Shrink
    BY <1>11, <2>2 DEF Hash!Clear, Hash!Answer, Abstract!Shrink, Abstract!Answers
  <2> QED BY <2>2, <2>3
<1>12. ASSUME NEW x \in Keys.hash, NEW op, Hash!InsertAs(op, x)
       PROVE  /\ HashInv'
              /\ \/ Abstract!Refuse(op, x)
                 \/ Abstract!Keep(op, x) /\ ~Abstract!IsFull
                 \/ Abstract!AddOnce(op, x)
  <2>1. CASE Hash!Full(data.pool) /\ Hash!Answer(op, x, "refused") /\ Hash!Same
    BY <1>1, <1>7, <1>8, <2>1 DEF Hash!Answer, Abstract!Refuse, Abstract!Answers
  <2>2. CASE ~Hash!Full(data.pool) /\ There(x) /\ Hash!Answer(op, x, "exists") /\ Hash!Same
    BY <1>1, <1>7, <1>8, <1>10, <2>2 DEF Hash!Answer, Abstract!Keep, Abstract!Answers
  <2>3. CASE ~Hash!Full(data.pool) /\ ~There(x) /\ data' = Hash!Inserted(data, x) /\ Hash!Answer(op, x, "inserted")
    <3>1. n < M /\ ~Abstract!IsFull /\ ~Abstract!Held(x) /\ \A o \in 1 .. n : data.first[u[o]] # x
      BY <1>3, <1>8, <1>9, <2>3
    <3>2. HashHolds(data', <<x>> \o s)
      BY <1>2, <2>3, <3>1, HashInserts
    <3>3. Contents' = <<x>> \o s /\ HashInv'
      BY <1>6, <3>2
    <3> QED BY <1>1, <2>3, <3>1, <3>3 DEF Hash!Answer, Abstract!AddOnce, Abstract!Add, Abstract!Answers
  <2> QED BY <1>12, <2>1, <2>2, <2>3 DEF Hash!InsertAs, There
<1>13. ASSUME NEW x \in Keys.hash, Hash!Insert(x) PROVE Stepped
  BY <1>13, <1>12 DEF Hash!Insert, Abstract!HashCall
<1>14. ASSUME NEW x \in Keys.hash, Hash!GetOrInsert(x) PROVE Stepped
  BY <1>14, <1>1, <1>7, <1>10, <1>9, <1>12 DEF Hash!GetOrInsert, There, Hash!Answer,
     Abstract!HashCall, Abstract!Keep, Abstract!Answers
<1>15. ASSUME NEW x \in Keys.hash, Hash!Erase(x) PROVE Stepped
  <2>1. CASE ~There(x)
    BY <1>15, <2>1, <1>1, <1>7, <1>9 DEF Hash!Erase, There, Hash!Answer, Abstract!AnyCall,
       Abstract!Answers
  <2>2. CASE There(x)
    <3>1. PICK o \in 1 .. n : /\ Hash!find_ref(data, x) = u[o] /\ data.first[u[o]] = x
                              /\ Abstract!Without(x) = Abstract!RemoveAt(s, n + 1 - o)
      BY <1>10, <2>2
    <3>2. data' = Hash!Erased(data, x) /\ Hash!Answer("erase", x, "ok")
      BY <1>15, <2>2 DEF Hash!Erase, There
    <3>3. HashHolds(data', Abstract!RemoveAt(s, n + 1 - o))
      BY <1>2, <3>1, <3>2, HashErases
    <3>4. Contents' = Abstract!Without(x) /\ HashInv' /\ Abstract!Held(x)
      BY <1>6, <1>10, <2>2, <3>1, <3>3
    <3>5. Abstract!AnyCall(x)
      BY <3>2, <3>4 DEF Hash!Answer, Abstract!AnyCall, Abstract!Answers
    <3> QED BY <3>4, <3>5
  <2> QED BY <2>1, <2>2
<1>16. ASSUME NEW x \in Keys.hash, Hash!Find(x) PROVE Stepped
  BY <1>16, <1>1, <1>7, <1>9, <1>10 DEF Hash!Find, There, Hash!Answer, Abstract!AnyCall,
     Abstract!Answers
<1>17. Stepped
  BY <1>11, <1>13, <1>14, <1>15, <1>16 DEF Hash!Next
<1>18. Keys[AbstractKind] = Keys.hash
  BY <1>1
<1> QED BY <1>1, <1>17, <1>18 DEF Abstract!ListNext, AbstractKind

\* The chains are what is in use, each cell in the bucket of its key.
LEMMA HashInvSays == HashInv => Hash!CellsPartition
<1> SUFFICES ASSUME HashInv PROVE Hash!CellsPartition
  OBVIOUS
<1>1. PICK u, n, g, k, c, l : HashOK(data, u, n, g, k, c, l)
  BY DEF HashInv, HashHolds
<1> DEFINE p == data.pool
           used == Hash!UsedList(p)
           given == Hash!ReclaimList(p)
<1>2. /\ n \in Nat /\ k \in Nat /\ Lists(u, n, M) /\ Lists(g, k, M) /\ p.used_num = n
      /\ used = Backwards(u, n) /\ given = Backwards(g, k)
      /\ \A b \in Tables : Hash!Chain(data, b) = Backwards(c[b], l[b])
  BY <1>1, HashIs
<1>3. /\ Spread(data.chain, data.buckets, data.first, c, l, Members(u, n), M)
      /\ data \in HashType /\ HashPoolOK(p, u, n, g, k) /\ M \in Nat
  BY <1>1, HashHas
<1>4. /\ Members(u, n) \cap Members(g, k) = {} /\ Members(u, n) \cup Members(g, k) = 1 .. p.raw_used_num
      /\ p.raw_used_num = n + k /\ Ring(p.prev, p.next, u, n)
  BY <1>3 DEF HashPoolOK, Share
<1>5. \A a : Hash!CellsOf(a) = Pools!CellsOf(a)
  BY Zenon DEF Hash!CellsOf, Pools!CellsOf
<1>6. /\ Hash!CellsOf(used) = Members(u, n) /\ Len(used) = n
      /\ Hash!CellsOf(given) = Members(g, k) /\ Len(given) = k
  BY <1>2, <1>5, BackwardsRange
<1>7. Hash!Buckets = Tables /\ \A x : Hash!bucket_index(x) = Bucket(x)
  BY HashCells
<1>8. ASSUME NEW b \in Tables
      PROVE  Hash!CellsOf(Hash!Chain(data, b)) = {i \in Members(u, n) : Bucket(data.first[i]) = b}
  BY <1>3, <1>5, BackwardsRange, <1>2 DEF Spread
<1>9. ASSUME NEW i \in Members(u, n) PROVE Bucket(data.first[i]) \in Tables
  <2>1. i \in 1 .. M
    BY <1>2 DEF Lists, Members
  <2>2. data.first[i] \in HashValues
    BY <1>3, <2>1, HashFields DEF Valued
  <2>3. HashValues \subseteq Nat
    BY HashCells DEF HashValues
  <2> QED BY <2>2, <2>3, BucketIs
<1> HIDE DEF p, used, given
<1>10. UNION {Hash!CellsOf(Hash!Chain(data, b)) : b \in Hash!Buckets} = Hash!CellsOf(used)
  <2>1. ASSUME NEW i \in Members(u, n)
        PROVE  i \in Hash!CellsOf(Hash!Chain(data, Bucket(data.first[i])))
    BY <1>8, <1>9
  <2>2. ASSUME NEW b \in Tables, NEW i \in Hash!CellsOf(Hash!Chain(data, b))
        PROVE  i \in Members(u, n)
    BY <1>8
  <2> DEFINE R(b) == Hash!CellsOf(Hash!Chain(data, b))
  <2>3. (\A i \in Members(u, n) : \E b \in Tables : i \in R(b)) /\ (\A b \in Tables : \A i \in R(b) : i \in Members(u, n))
    BY <1>9, <2>1, <2>2
  <2> HIDE DEF R
  <2>4. UNION {R(b) : b \in Tables} = Members(u, n)
    BY <2>3
  <2> QED BY <1>6, <1>7, <2>4 DEF R
<1>11. ASSUME NEW b \in Hash!Buckets, NEW i \in Hash!CellsOf(Hash!Chain(data, b))
       PROVE  Hash!bucket_index(data.first[i]) = b
  BY <1>7, <1>8
<1>12. Hash!CellsOf(given) = 1 .. p.raw_used_num \ Hash!CellsOf(used)
  BY <1>4, <1>6
<1>13. Len(used) = p.used_num /\ Len(used) + Len(given) = p.raw_used_num
  BY <1>2, <1>4, <1>6
<1>14. ASSUME NEW i \in Hash!CellsOf(used) \cup {0} PROVE p.prev[p.next[i]] = i
  <2>1. i = 0 \/ \E o \in 1 .. n : i = u[o]
    BY <1>6 DEF Members
  <2>2. PICK o \in 1 .. (n + 1) : i = u[o]
    <3>1. n + 1 \in 1 .. (n + 1) /\ u[n + 1] = 0 /\ \A o \in 1 .. n : o \in 1 .. (n + 1)
      BY <1>2 DEF Lists
    <3> QED BY <2>1, <3>1
  <2>3. o - 1 \in 0 .. n /\ (o - 1) + 1 = o
    BY <1>2
  <2>4. p.next[u[o]] = u[o - 1] /\ p.prev[u[o - 1]] = u[o]
    BY <1>4, <2>3 DEF Ring
  <2> QED BY <2>2, <2>4
<1> QED BY <1>10, <1>11, <1>12, <1>13, <1>14 DEF Hash!CellsPartition, p, used, given

LEMMA HashNextStep ==
  ASSUME kind = "hash" => HashInv, [Next]_vars
  PROVE  /\ kind' = "hash" => HashInv'
         /\ kind = "hash" => [Abstract!ListNext]_(Abstract!listVars)
<1>1. kind' = kind
  BY DEF Next, RingNext, PoolNext, KeyNext, vars
<1>2. CASE kind = "hash" /\ Hash!Next
  BY <1>1, <1>2, HashStep
<1>3. CASE kind = "hash" /\ UNCHANGED <<kind, data, last>>
  BY <1>3, HashHoldsNext, <1>1 DEF HashInv, Contents, Abstract!listVars
<1>4. kind = "hash" => Hash!Next \/ UNCHANGED <<kind, data, last>>
  BY DEF Next, RingNext, PoolNext, KeyNext, vars, keyVars
<1> QED BY <1>1, <1>2, <1>3, <1>4

------------------------------------------------------------------------------
(***************************************************************************)
(* MemLRUSet: a MemSet, whose links hold the chains of the buckets and of  *)
(* the free cells, and the list of use.                                    *)
(***************************************************************************)
R == max_num.lru
LruValues == Keys.lru \cup {0}

SetType ==
  [used : 0 .. R, raw_used : 0 .. R, free_index : 0 .. R,
   buckets : [Tables -> 0 .. R], next : [1 .. R -> 0 .. R], value : [1 .. R -> LruValues]]

LruType == [base : SetType, prev : [0 .. R -> 0 .. R], next : [0 .. R -> 0 .. R]]

\* No two cells of S have the same value.
Different(v, S) == \A i, j \in S : v[i] = v[j] => i = j

\* Every cell in use is in the bucket of its key, the free cells are chained.
SetOK(s, u, n, g, k, c, l) ==
  /\ s \in SetType
  /\ Share(u, n, g, k, s.raw_used, R) /\ s.used = n
  /\ Chain(s.next, s.free_index, g, k)
  /\ Spread(s.next, s.buckets, s.value, c, l, Members(u, n), R)
  /\ Different(s.value, Members(u, n))

LruOK(d, u, n, g, k, c, l) ==
  /\ d \in LruType
  /\ SetOK(d.base, u, n, g, k, c, l) /\ Ring(d.prev, d.next, u, n)

\* The set d holds the keys s, in the order of their use.
LruHolds(d, s) ==
  \E u, n, g, k, c, l : LruOK(d, u, n, g, k, c, l) /\ s = ValuesOf(d.base.value, u, n)

LEMMA LruCells ==
  /\ R \in Nat /\ R > 0 /\ Lru!Cells = 1 .. R /\ Lru!Links = 0 .. R
  /\ IsFiniteSet(0 .. R) /\ IsFiniteSet(1 .. R) /\ Lru!Buckets = Tables
  /\ LruValues \subseteq Nat /\ \A x : Lru!get_bucket_index(x) = Bucket(x)
<1>1. R \in Nat /\ R > 0 /\ LruValues \subseteq Nat
  BY ContainersAssumption DEF R, LruValues
<1>2. \A x : Lru!get_bucket_index(x) = Bucket(x)
  BY Zenon DEF Lru!get_bucket_index, Bucket
<1> QED BY <1>1, <1>2, FS_Interval DEF Lru!Cells, Lru!Links, Lru!Buckets, Tables, R

LEMMA SetFields ==
  ASSUME NEW s \in SetType
  PROVE  /\ s.used \in 0 .. R /\ s.raw_used \in 0 .. R /\ s.free_index \in 0 .. R
         /\ s.buckets \in [Tables -> 0 .. R] /\ s.next \in [1 .. R -> 0 .. R]
         /\ Valued(s.value, R, LruValues) /\ DOMAIN s.next = 1 .. R
  BY DEF SetType, Valued

LEMMA LruFields ==
  ASSUME NEW d \in LruType
  PROVE  /\ d.base \in SetType /\ d.prev \in [0 .. R -> 0 .. R] /\ d.next \in [0 .. R -> 0 .. R]
         /\ DOMAIN d.next = 0 .. R /\ DOMAIN d.prev = 0 .. R
  BY DEF LruType

LEMMA LruWalks ==
  ASSUME NEW next, NEW first
  PROVE  Lru!Walk(next, first) = Walk(next, first)
<1>1. LET bound == Lru!Cardinality(DOMAIN next)
          at == WalkAt(next, first, bound)
          len == Lru!Cardinality({n \in 0 .. (bound - 1) : at[n] # 0})
      IN Lru!Walk(next, first) = [k \in 1 .. len |-> at[k - 1]]
  BY Zenon DEF Lru!Walk, WalkAt
<1>2. \A S : Lru!Cardinality(S) = Cardinality(S)
  BY Zenon DEF Cardinality, Lru!Cardinality
<1> QED BY <1>1, <1>2, WalkIs

LEMMA SetHas ==
  ASSUME NEW s, NEW u, NEW n, NEW g, NEW k, NEW c, NEW l, SetOK(s, u, n, g, k, c, l)
  PROVE  /\ n \in Nat /\ k \in Nat /\ R \in Nat /\ Lists(u, n, R) /\ Lists(g, k, R)
         /\ s \in SetType /\ s.used = n /\ n \in 0 .. R
         /\ Members(u, n) \cap Members(g, k) = {} /\ Members(u, n) \subseteq 1 .. R
         /\ Members(g, k) \subseteq 1 .. R
         /\ Spread(s.next, s.buckets, s.value, c, l, Members(u, n), R)
<1>1. R \in Nat /\ Lists(u, n, R) /\ Lists(g, k, R) /\ s \in SetType /\ s.used = n
  BY LruCells DEF SetOK, Share
<1>2. n \in Nat /\ k \in Nat /\ Members(u, n) \subseteq 1 .. R /\ Members(g, k) \subseteq 1 .. R
  BY <1>1 DEF Lists, Members
<1>3. n \in 0 .. R
  BY <1>1, SetFields
<1> QED BY <1>1, <1>2, <1>3 DEF SetOK, Share

\* What the chains of a set look like.
LEMMA SetIs ==
  ASSUME NEW s, NEW u, NEW n, NEW g, NEW k, NEW c, NEW l, SetOK(s, u, n, g, k, c, l)
  PROVE  /\ Lru!Walk(s.next, s.free_index) = Backwards(g, k)
         /\ \A b \in Tables : Lru!Chain(s, b) = Backwards(c[b], l[b])
<1>1. R \in Nat /\ IsFiniteSet(1 .. R) /\ DOMAIN s.next = 1 .. R
  BY LruCells, SetFields, SetHas
<1>2. \A a, j : Lists(a, j, R) => Members(a, j) \subseteq 1 .. R
  BY <1>1 DEF Lists, Members
<1>3. Lists(g, k, R) /\ Chain(s.next, s.free_index, g, k)
  BY DEF SetOK, Share
<1>4. Lru!Walk(s.next, s.free_index) = Backwards(g, k)
  BY <1>1, <1>2, <1>3, ChainIsWalk, LruWalks
<1>5. ASSUME NEW b \in Tables PROVE Lru!Chain(s, b) = Backwards(c[b], l[b])
  BY <1>1, <1>2, ChainIsWalk, LruWalks DEF SetOK, Spread, Lru!Chain
<1> QED BY <1>4, <1>5

LEMMA LruKeys ==
  ASSUME NEW x \in LruValues
  PROVE  Bucket(x) \in Tables /\ Lru!get_bucket_index(x) = Bucket(x)
  BY LruCells, BucketIs

\* A key is found where it is.
LEMMA SetFinds ==
  ASSUME NEW s, NEW u, NEW n, NEW g, NEW k, NEW c, NEW l, SetOK(s, u, n, g, k, c, l),
         NEW x \in LruValues
  PROVE  \/ Lru!find_index(s, x) = 0 /\ \A i \in Members(u, n) : s.value[i] # x
         \/ /\ Lru!find_index(s, x) \in Members(u, n) /\ Lru!find_index(s, x) # 0
            /\ s.value[Lru!find_index(s, x)] = x
<1> DEFINE b == Bucket(x)
           cells == Backwards(c[b], l[b])
           T == {j \in 1 .. Len(cells) : s.value[cells[j]] = x}
           S == Members(u, n)
           r == Lru!find_index(s, x)
<1>1. b \in Tables /\ Lru!get_bucket_index(x) = b /\ Spread(s.next, s.buckets, s.value, c, l, S, R)
  BY LruKeys, SetHas
<1>2. Lru!Chain(s, b) = cells
  <2>1. \A y \in Tables : Lru!Chain(s, y) = Backwards(c[y], l[y])
    BY SetIs
  <2> HIDE DEF b
  <2> QED BY <1>1, <2>1
<1>3. /\ T \in SUBSET Nat
      /\ T = {} => \A i \in S : s.value[i] # x
      /\ \A j \in T : cells[j] \in S /\ s.value[cells[j]] = x /\ cells[j] # 0
  BY <1>1, SpreadFinds
<1>4. r = LET o == IF T # {} THEN Lru!Least(T) ELSE 0 IN IF o = 0 THEN 0 ELSE cells[o]
  BY <1>1, <1>2, Zenon DEF Lru!find_index, Lru!FirstHit
<1> HIDE DEF T, cells, S, r
<1>5. CASE T = {}
  BY <1>3, <1>4, <1>5 DEF r, S
<1>6. CASE T # {}
  <2> DEFINE q == Lru!Least(T)
  <2>1. q = CHOOSE h \in T : \A y \in T : h =< y
    BY Zenon DEF Lru!Least
  <2> HIDE DEF q
  <2>2. q \in T /\ q # 0
    <3>0. T \in SUBSET Nat
      BY <1>3
    <3>1. q \in T
      BY <1>6, <2>1, <3>0, LeastOf
    <3>2. 0 \notin T
      BY DEF T
    <3> QED BY <3>1, <3>2
  <2>3. r = cells[q]
    BY <1>4, <1>6, <2>2 DEF q
  <2> QED BY <1>3, <2>2, <2>3 DEF r, S
<1> QED BY <1>5, <1>6

\* The cell an insertion takes.
LEMMA SetTakes ==
  ASSUME NEW s, NEW u, NEW n, NEW g, NEW k, NEW c, NEW l, SetOK(s, u, n, g, k, c, l), n < R
  PROVE  LET i == Lru!EmptyIndex(s)
             free == s.free_index
             e == IF free = 0 THEN k ELSE k - 1
             h == IF free = 0 THEN g ELSE Without(g, k)
             r == IF free = 0 THEN s.raw_used + 1 ELSE s.raw_used
             f == IF free = 0 THEN free ELSE s.next[free]
         IN /\ i \in 1 .. R /\ i \notin Members(u, n) /\ i \notin Members(h, e)
            /\ Members(h, e) \subseteq Members(g, k) /\ Chain(s.next, f, h, e)
            /\ \A w : Lists(w, n + 1, R) /\ Members(w, n + 1) = Members(u, n) \cup {i} =>
                 Share(w, n + 1, h, e, r, R)
            /\ r \in 0 .. R
<1>1. /\ R \in Nat /\ Share(u, n, g, k, s.raw_used, R) /\ Chain(s.next, s.free_index, g, k)
  BY LruCells DEF SetOK
<1>2. Lru!EmptyIndex(s) = IF s.free_index = 0 THEN s.raw_used + 1 ELSE s.free_index
  BY DEF Lru!EmptyIndex
<1> DEFINE free == s.free_index
           raw == s.raw_used
           next == s.next
<1>4. Share(u, n, g, k, raw, R) /\ Chain(next, free, g, k)
  BY <1>1
<1> HIDE DEF free, raw, next
<1>5. LET i == IF free = 0 THEN raw + 1 ELSE free
          e == IF free = 0 THEN k ELSE k - 1
          h == IF free = 0 THEN g ELSE Without(g, k)
          r == IF free = 0 THEN raw + 1 ELSE raw
          f == IF free = 0 THEN free ELSE next[free]
      IN /\ i \in 1 .. R /\ i \notin Members(u, n) /\ i \notin Members(h, e)
         /\ Lists(h, e, R) /\ Members(h, e) \subseteq Members(g, k) /\ Chain(next, f, h, e)
         /\ \A w : Lists(w, n + 1, R) /\ Members(w, n + 1) = Members(u, n) \cup {i} =>
              Share(w, n + 1, h, e, r, R)
         /\ r \in 0 .. R
  BY <1>1, <1>4, TakesCell
<1> QED BY <1>2, <1>5, Zenon DEF free, raw, next

\* What an insertion writes, into cell i and bucket b.
InsertWrites(s, x, i, b, w) ==
  /\ w \in SetType /\ w.used = s.used + 1
  /\ w.raw_used = (IF s.free_index = 0 THEN s.raw_used + 1 ELSE s.raw_used)
  /\ w.free_index = (IF s.free_index = 0 THEN s.free_index ELSE s.next[s.free_index])
  /\ w.next = [s.next EXCEPT ![i] = s.buckets[b]]
  /\ w.buckets = [s.buckets EXCEPT ![b] = i]
  /\ w.value = [s.value EXCEPT ![i] = x]

LEMMA InsertImplIs ==
  ASSUME NEW s \in SetType, s.used < R, NEW x \in LruValues,
         Lru!EmptyIndex(s) \in 1 .. R, s.free_index = 0 => s.raw_used + 1 \in 0 .. R
  PROVE  InsertWrites(s, x, Lru!EmptyIndex(s), Bucket(x), Lru!InsertImpl(s, x))
<1> DEFINE i == Lru!EmptyIndex(s)
           b == Bucket(x)
           w == Lru!InsertImpl(s, x)
           t == IF s.free_index = 0 THEN [s EXCEPT !.raw_used = @ + 1]
                ELSE [s EXCEPT !.free_index = s.next[i]]
<1>1. /\ R \in Nat /\ s.used \in 0 .. R /\ s.raw_used \in 0 .. R /\ s.free_index \in 0 .. R
      /\ s.next \in [1 .. R -> 0 .. R] /\ s.buckets \in [Tables -> 0 .. R]
      /\ s.value \in [1 .. R -> LruValues] /\ b \in Tables
  BY LruCells, SetFields, LruKeys DEF Valued
<1>0. s.used + 1 \in 0 .. R
  <2>1. R \in Nat /\ s.used \in 0 .. R
    BY <1>1
  <2> QED BY <2>1
<1>2. /\ t \in SetType /\ t.used = s.used /\ t.next = s.next /\ t.buckets = s.buckets /\ t.value = s.value
      /\ t.raw_used = (IF s.free_index = 0 THEN s.raw_used + 1 ELSE s.raw_used)
      /\ t.free_index = (IF s.free_index = 0 THEN s.free_index ELSE s.next[s.free_index])
  <2>1. CASE s.free_index = 0
    <3> DEFINE r == s.raw_used + 1
    <3>1. t = [s EXCEPT !.raw_used = r] /\ r \in 0 .. R
      BY <2>1
    <3>2. r = s.raw_used + 1
      OBVIOUS
    <3> HIDE DEF r, t
    <3> QED BY <1>1, <2>1, <3>1, <3>2 DEF SetType
  <2>2. CASE s.free_index # 0
    <3> DEFINE f == s.next[s.free_index]
    <3>1. i = s.free_index
      BY <2>2 DEF Lru!EmptyIndex
    <3>2. t = [s EXCEPT !.free_index = f]
      BY <2>2, <3>1
    <3>3. f \in 0 .. R
      BY <1>1, <3>1
    <3>4. f = s.next[s.free_index]
      OBVIOUS
    <3> HIDE DEF f, t
    <3> QED BY <2>2, <3>2, <3>3, <3>4 DEF SetType
  <2> QED BY <2>1, <2>2
<1>3. w = [t EXCEPT !.next[i] = s.buckets[b], !.buckets[b] = i, !.used = @ + 1, !.value[i] = x]
  <2> DEFINE y == Lru!get_bucket_index(x)
  <2>1. w = [t EXCEPT !.next[i] = s.buckets[y], !.buckets[y] = i, !.used = @ + 1, !.value[i] = x]
    BY Zenon DEF Lru!InsertImpl
  <2>2. y = b
    BY LruKeys
  <2> HIDE DEF y, b, w, t, i
  <2> QED BY <2>1, <2>2
<1> HIDE DEF i, w, t, b
<1>4. i \in 1 .. R /\ i \in 0 .. R
  BY DEF i
<1> DEFINE nn == [s.next EXCEPT ![i] = s.buckets[b]]
           hh == [s.buckets EXCEPT ![b] = i]
           vv == [s.value EXCEPT ![i] = x]
<1>5. nn \in [1 .. R -> 0 .. R] /\ hh \in [Tables -> 0 .. R] /\ vv \in [1 .. R -> LruValues]
  BY <1>1, <1>4
<1>6. w = [t EXCEPT !.next = nn, !.buckets = hh, !.value = vv, !.used = s.used + 1]
  BY <1>2, <1>3
<1> HIDE DEF nn, hh, vv
<1>7. /\ w \in SetType /\ w.used = s.used + 1 /\ w.next = nn /\ w.buckets = hh /\ w.value = vv
      /\ w.raw_used = t.raw_used /\ w.free_index = t.free_index
  BY <1>0, <1>2, <1>5, <1>6 DEF SetType
<1> QED BY <1>2, <1>7 DEF InsertWrites, i, w, b, nn, hh, vv

\* The set s with the cell i in front of the list of use and x in it.
Comes(s, u, n, i, x, t) ==
  /\ i \in 1 .. R /\ i \notin Members(u, n) /\ t.value = [s.value EXCEPT ![i] = x]
  /\ \E h, e, c, l : SetOK(t, With(u, n, i), n + 1, h, e, c, l)

LEMMA SetInserts ==
  ASSUME NEW s, NEW u, NEW n, NEW g, NEW k, NEW c, NEW l, SetOK(s, u, n, g, k, c, l), n < R,
         NEW x \in LruValues, \A i \in Members(u, n) : s.value[i] # x
  PROVE  Comes(s, u, n, Lru!EmptyIndex(s), x, Lru!InsertImpl(s, x))
<1> DEFINE i == Lru!EmptyIndex(s)
           free == s.free_index
           e == IF free = 0 THEN k ELSE k - 1
           h == IF free = 0 THEN g ELSE Without(g, k)
           r == IF free = 0 THEN s.raw_used + 1 ELSE s.raw_used
           f == IF free = 0 THEN free ELSE s.next[free]
           b == Bucket(x)
           w == Lru!InsertImpl(s, x)
           a == With(u, n, i)
           S == Members(u, n)
<1>1. /\ i \in 1 .. R /\ i \notin S /\ i \notin Members(h, e)
      /\ Members(h, e) \subseteq Members(g, k) /\ Chain(s.next, f, h, e)
      /\ \A y : Lists(y, n + 1, R) /\ Members(y, n + 1) = S \cup {i} => Share(y, n + 1, h, e, r, R)
      /\ r \in 0 .. R
  BY SetTakes, Zenon
<1>2. /\ n \in Nat /\ Lists(u, n, R) /\ R \in Nat /\ b \in Tables /\ s \in SetType /\ s.used = n
      /\ S \cap Members(g, k) = {} /\ S \subseteq 1 .. R /\ Members(g, k) \subseteq 1 .. R
      /\ Spread(s.next, s.buckets, s.value, c, l, S, R)
  BY SetHas, LruKeys
<1>3. /\ Valued(s.value, R, LruValues) /\ s.buckets \in [Tables -> 0 .. R] /\ s.next \in [1 .. R -> 0 .. R]
  BY <1>2, SetFields
<1>4. s.free_index = 0 => s.raw_used + 1 \in 0 .. R
  BY <1>1
<1>5. InsertWrites(s, x, i, b, w)
  BY <1>1, <1>2, <1>4, InsertImplIs
<1> HIDE DEF i, e, h, r, f, free, w, S
<1>6. /\ w \in SetType /\ w.used = n + 1 /\ w.raw_used = r /\ w.free_index = f
      /\ w.next = [s.next EXCEPT ![i] = s.buckets[b]]
      /\ w.buckets = [s.buckets EXCEPT ![b] = i] /\ w.value = [s.value EXCEPT ![i] = x]
  BY <1>2, <1>5 DEF InsertWrites, r, f, free
<1> HIDE DEF b
<1>7. /\ w.value[i] = x /\ w.next[i] = s.buckets[b]
      /\ \A y \in 1 .. R : y # i => w.next[y] = s.next[y] /\ w.value[y] = s.value[y]
      /\ \A y \in Tables : w.buckets[y] = IF y = b THEN i ELSE s.buckets[y]
  BY <1>1, <1>2, <1>3, <1>6 DEF Valued
<1>8. Lists(a, n + 1, R) /\ Members(a, n + 1) = S \cup {i}
  BY <1>1, <1>2, WithLists DEF S
<1> HIDE DEF a
<1>9. Share(a, n + 1, h, e, r, R)
  BY <1>1, <1>8
<1>10. Chain(w.next, f, h, e)
  BY <1>1, <1>2, <1>7, ChainApart
<1>11. PICK cc, ll : Spread(w.next, w.buckets, w.value, cc, ll, S \cup {i}, R)
  <2>1. Bucket(w.value[i]) = b
    BY <1>7 DEF b
  <2>2. R \in Nat /\ b \in Tables /\ i \in 1 .. R
    BY <1>1, <1>2
  <2>3. \A y \in S : w.next[y] = s.next[y] /\ w.value[y] = s.value[y]
    BY <1>1, <1>2, <1>7
  <2>4. PutIn(s.next, s.buckets, s.value, w.next, w.buckets, w.value, S, b, i)
    BY <1>1, <1>7, <2>1, <2>3 DEF PutIn
  <2>5. Spread(s.next, s.buckets, s.value, c, l, S, R)
    BY <1>2
  <2>6. Spreads(w.next, w.buckets, w.value, S \cup {i}, R)
    BY <2>2, <2>4, <2>5, SpreadWith
  <2> QED BY <2>6 DEF Spreads
<1>12. Different(w.value, S \cup {i})
  BY <1>1, <1>2, <1>7 DEF SetOK, S, Different
<1>13. SetOK(w, a, n + 1, h, e, cc, ll)
  BY <1>6, <1>8, <1>9, <1>10, <1>11, <1>12 DEF SetOK
<1>14. \E h2, e2, c2, l2 : SetOK(w, a, n + 1, h2, e2, c2, l2)
  BY <1>13
<1> QED BY <1>1, <1>6, <1>14 DEF Comes, w, i, a, S

\* The set s without the o-th cell of the list of use, which is free now.
Goes(s, u, n, g, k, o, t) ==
  /\ t.value = s.value
  /\ \E c, l : SetOK(t, Without(u, o), n - 1, With(g, k, u[o]), k + 1, c, l)

\* What an erasure writes, of cell i in bucket b; heads and next are what the
\* chain of the bucket becomes.
EraseWrites(s, i, heads, next, w) ==
  /\ w \in SetType /\ w.used = s.used - 1 /\ w.raw_used = s.raw_used /\ w.free_index = i
  /\ w.value = s.value /\ w.buckets = heads /\ w.next = [next EXCEPT ![i] = s.free_index]

LEMMA SetErases ==
  ASSUME NEW s, NEW u, NEW n, NEW g, NEW k, NEW c, NEW l, SetOK(s, u, n, g, k, c, l),
         NEW x \in LruValues, NEW o \in 1 .. n, s.value[u[o]] = x, Lru!find_index(s, x) = u[o]
  PROVE  Goes(s, u, n, g, k, o, Lru!ErasedFrom(s, x))
<1> DEFINE i == u[o]
           b == Bucket(x)
           w == Lru!ErasedFrom(s, x)
           S == Members(u, n)
           cells == Backwards(c[b], l[b])
           T == {j \in 1 .. Len(cells) : cells[j] = i}
           f == IF T # {} THEN Lru!Least(T) ELSE 0
           a == Without(u, o)
<1>1. /\ n \in Nat /\ Lists(u, n, R) /\ R \in Nat /\ b \in Tables /\ Lru!get_bucket_index(x) = b
      /\ s \in SetType /\ s.used = n /\ n \in 0 .. R
  BY SetHas, LruKeys
<1>2. Lru!Chain(s, b) = cells
  <2>1. \A y \in Tables : Lru!Chain(s, y) = Backwards(c[y], l[y])
    BY SetIs
  <2> HIDE DEF b
  <2> QED BY <1>1, <2>1
<1>3. /\ Valued(s.value, R, LruValues) /\ s.buckets \in [Tables -> 0 .. R]
      /\ s.next \in [1 .. R -> 0 .. R] /\ s.free_index \in 0 .. R
  BY <1>1, SetFields
<1>4. i \in 1 .. R /\ i \in S /\ S \subseteq 1 .. R
  BY <1>1 DEF Lists, Members
<1>5. Spread(s.next, s.buckets, s.value, c, l, S, R)
  BY DEF SetOK
<1>6. /\ Lists(c[b], l[b], R) /\ Members(c[b], l[b]) = {j \in S : Bucket(s.value[j]) = b}
  <2> HIDE DEF b, S
  <2> QED BY <1>1, <1>5 DEF Spread
<1>7. PICK q \in 1 .. l[b] : c[b][q] = i
  <2>1. i \in Members(c[b], l[b])
    BY <1>4, <1>6
  <2> HIDE DEF i, b
  <2> QED BY <2>1 DEF Members
<1>8. /\ f # 0 /\ (f = 1 <=> q = l[b]) /\ (f # 1 => cells[f - 1] = c[b][q + 1])
  <2>1. LET cs == Backwards(c[b], l[b])
            U == {j \in 1 .. Len(cs) : cs[j] = c[b][q]}
        IN /\ U # {} /\ (CHOOSE y \in U : \A z \in U : y =< z) = l[b] + 1 - q
           /\ l[b] + 1 - q # 1 => cs[(l[b] + 1 - q) - 1] = c[b][q + 1]
           /\ l[b] + 1 - q = 1 <=> q = l[b]
           /\ l[b] + 1 - q # 0
    <3> HIDE DEF b
    <3>1. Lists(c[b], l[b], R) /\ q \in 1 .. l[b]
      BY <1>6
    <3> DEFINE y == c[b]
               z == l[b]
    <3>2. Lists(y, z, R) /\ q \in 1 .. z
      BY <3>1
    <3> HIDE DEF y, z
    <3>3. LET cs == Backwards(y, z)
              U == {j \in 1 .. Len(cs) : cs[j] = y[q]}
          IN /\ U # {} /\ (CHOOSE v \in U : \A h \in U : v =< h) = z + 1 - q
             /\ z + 1 - q # 1 => cs[(z + 1 - q) - 1] = y[q + 1]
             /\ z + 1 - q = 1 <=> q = z
             /\ z + 1 - q # 0
      BY <3>2, SpreadPlaces
    <3> QED BY <3>3 DEF y, z
  <2>2. T = {j \in 1 .. Len(cells) : cells[j] = c[b][q]}
    BY <1>7
  <2>3. T # {} /\ (CHOOSE y \in T : \A z \in T : y =< z) = l[b] + 1 - q
    <3> HIDE DEF b, cells
    <3> QED BY <2>1, <2>2 DEF cells
  <2>4. f = l[b] + 1 - q
    <3> HIDE DEF T
    <3>1. f = Lru!Least(T) /\ Lru!Least(T) = CHOOSE y \in T : \A z \in T : y =< z
      BY <2>3, Zenon DEF Lru!Least
    <3> QED BY <2>3, <3>1
  <2> HIDE DEF f, b
  <2> QED BY <2>1, <2>4
<1> DEFINE heads == IF f = 1 THEN [s.buckets EXCEPT ![b] = s.next[i]] ELSE s.buckets
           next == IF f = 1 THEN s.next ELSE [s.next EXCEPT ![c[b][q + 1]] = s.next[i]]
<1>9. w = [s EXCEPT !.buckets = heads, !.next = [next EXCEPT ![i] = s.free_index],
                    !.free_index = i, !.used = @ - 1]
  <2> DEFINE out == IF f = 1 THEN [s EXCEPT !.buckets[b] = s.next[i]]
                    ELSE [s EXCEPT !.next[cells[f - 1]] = s.next[i]]
  <2>1. w = [out EXCEPT !.next[i] = s.free_index, !.free_index = i, !.used = @ - 1]
    <3> DEFINE y == Lru!get_bucket_index(x)
               cs == Lru!Chain(s, y)
               r == Lru!find_index(s, x)
               U == {j \in 1 .. Len(cs) : cs[j] = r}
               e == IF U # {} THEN Lru!Least(U) ELSE 0
               out2 == IF e = 1 THEN [s EXCEPT !.buckets[y] = s.next[r]]
                       ELSE [s EXCEPT !.next[cs[e - 1]] = s.next[r]]
    <3>1. w = [out2 EXCEPT !.next[r] = s.free_index, !.free_index = r, !.used = @ - 1]
      BY Zenon DEF Lru!ErasedFrom, Lru!FirstHit
    <3>2. y = b /\ cs = cells /\ r = i
      BY <1>1, <1>2
    <3>3. U = T
      BY <3>2
    <3>4. e = f
      <4> HIDE DEF U, T
      <4> QED BY <3>3
    <3> HIDE DEF w, b, cells, i, y, cs, r, e, f
    <3>5. out2 = out
      BY <3>2, <3>4
    <3> HIDE DEF out, out2
    <3> QED BY <3>1, <3>2, <3>5
  <2> HIDE DEF f, i, b, cells, w
  <2>2. CASE f = 1
    <3>1. w = [[s EXCEPT !.buckets[b] = s.next[i]] EXCEPT !.next[i] = s.free_index, !.free_index = i, !.used = @ - 1]
      BY <2>1, <2>2
    <3>2. heads = [s.buckets EXCEPT ![b] = s.next[i]] /\ next = s.next
      BY <2>2
    <3> HIDE DEF heads, next, out
    <3> QED BY <1>1, <3>1, <3>2 DEF SetType
  <2>3. CASE f # 1
    <3>1. w = [[s EXCEPT !.next[c[b][q + 1]] = s.next[i]] EXCEPT !.next[i] = s.free_index, !.free_index = i, !.used = @ - 1]
      BY <1>8, <2>1, <2>3
    <3>2. heads = s.buckets /\ next = [s.next EXCEPT ![c[b][q + 1]] = s.next[i]]
      BY <2>3
    <3> HIDE DEF heads, next, out
    <3> QED BY <1>1, <3>1, <3>2 DEF SetType
  <2> QED BY <2>2, <2>3
<1>10. /\ \A y \in 1 .. R : next[y] = IF y = c[b][q + 1] THEN s.next[i] ELSE s.next[y]
       /\ \A y \in Tables : heads[y] = IF y = b /\ q = l[b] THEN s.next[i] ELSE s.buckets[y]
       /\ next \in [1 .. R -> 0 .. R] /\ heads \in [Tables -> 0 .. R]
  <2>1. q = l[b] => c[b][q + 1] = 0
    <3> HIDE DEF b
    <3> QED BY <1>6 DEF Lists
  <2>2. q # l[b] => c[b][q + 1] \in 1 .. R
    <3>1. q # l[b] => q + 1 \in 1 .. l[b]
      <4> HIDE DEF b
      <4> QED BY <1>6 DEF Lists
    <3>2. \A j \in 1 .. l[b] : c[b][j] \in 1 .. R
      <4> HIDE DEF b
      <4> QED BY <1>1, <1>6 DEF Lists
    <3> QED BY <3>1, <3>2
  <2>3. s.next[i] \in 0 .. R
    BY <1>3, <1>4
  <2>4. 0 \notin 1 .. R
    OBVIOUS
  <2> HIDE DEF f, b, i
  <2>5. CASE q = l[b]
    <3>1. f = 1 /\ heads = [s.buckets EXCEPT ![b] = s.next[i]] /\ next = s.next
      BY <1>8, <2>5
    <3> HIDE DEF heads, next
    <3> QED BY <1>1, <1>3, <2>1, <2>3, <2>4, <2>5, <3>1
  <2>6. CASE q # l[b]
    <3>1. f # 1 /\ heads = s.buckets /\ next = [s.next EXCEPT ![c[b][q + 1]] = s.next[i]]
      BY <1>8, <2>6
    <3> HIDE DEF heads, next
    <3> QED BY <1>3, <2>2, <2>3, <2>6, <3>1
  <2> QED BY <2>5, <2>6
<1> HIDE DEF heads, next, w
<1>11. EraseWrites(s, i, heads, next, w)
  <2> DEFINE nn == [next EXCEPT ![i] = s.free_index]
             m == s.used - 1
  <2>1. n - 1 \in 0 .. R
    BY <1>1
  <2>2. nn \in [1 .. R -> 0 .. R] /\ m \in 0 .. R /\ i \in 0 .. R
    BY <1>1, <1>3, <1>4, <1>10, <2>1
  <2>3. w = [s EXCEPT !.buckets = heads, !.next = nn, !.free_index = i, !.used = m]
    BY <1>1, <1>9
  <2>4. nn = [next EXCEPT ![i] = s.free_index] /\ m = s.used - 1
    OBVIOUS
  <2> HIDE DEF nn, m, i
  <2> QED BY <1>1, <1>10, <2>2, <2>3, <2>4 DEF EraseWrites, SetType
<1>12. /\ w \in SetType /\ w.used = n - 1 /\ w.raw_used = s.raw_used /\ w.free_index = i
       /\ w.value = s.value /\ w.buckets = heads /\ w.next = [next EXCEPT ![i] = s.free_index]
  BY <1>1, <1>11 DEF EraseWrites
<1>13. /\ w.next[i] = s.free_index
       /\ \A y \in 1 .. R : y # i => w.next[y] = IF y = c[b][q + 1] THEN s.next[i] ELSE s.next[y]
  <2> HIDE DEF i, b
  <2> QED BY <1>4, <1>10, <1>12
<1>14. Lists(a, n - 1, R) /\ Members(a, n - 1) = S \ {i}
  BY <1>1, WithoutLists
<1>15. PICK cc, ll : Spread(w.next, w.buckets, w.value, cc, ll, S \ {i}, R)
  <2>1. Bucket(s.value[i]) = b
    OBVIOUS
  <2> HIDE DEF b, S, i
  <2>2. b \in Tables /\ i \in S /\ S \subseteq 1 .. R /\ R \in Nat /\ q \in 1 .. l[b] /\ c[b][q] = i
    BY <1>1, <1>4, <1>7
  <2>3. Spread(s.next, s.buckets, s.value, c, l, S, R)
    BY <1>5
  <2>4. TakenOut(s.next, s.buckets, w.next, w.buckets, c, l, S, b, q, i)
    BY <1>10, <1>12, <1>13, <2>2 DEF TakenOut
  <2>5. Spreads(w.next, w.buckets, s.value, S \ {i}, R)
    BY <2>1, <2>2, <2>3, <2>4, SpreadWithout
  <2>6. w.value = s.value
    BY <1>12
  <2> QED BY <2>5, <2>6 DEF Spreads
<1>16. Different(w.value, S \ {i})
  <2> HIDE DEF S, i
  <2>1. Different(s.value, S)
    BY DEF SetOK, S
  <2> QED BY <1>12, <2>1 DEF Different
<1>17. /\ Share(a, n - 1, With(g, k, u[o]), k + 1, s.raw_used, R)
       /\ Chain(w.next, u[o], With(g, k, u[o]), k + 1)
  <2>1. ASSUME NEW y \in Members(g, k) PROVE w.next[y] = s.next[y]
    <3>1. y \in 1 .. R /\ y \notin S
      BY <2>1, SetHas
    <3>2. c[b][q + 1] \notin 1 .. R \/ c[b][q + 1] \in S
      <4>1. CASE q + 1 \in 1 .. l[b]
        <5>1. c[b][q + 1] \in Members(c[b], l[b])
          <6> HIDE DEF b
          <6> QED BY <4>1 DEF Members
        <5> HIDE DEF b, S
        <5> QED BY <1>6, <5>1
      <4>2. CASE q + 1 \notin 1 .. l[b]
        <5> HIDE DEF b
        <5>1. c[b][q + 1] = 0
          BY <1>6, <4>2 DEF Lists
        <5> QED BY <5>1
      <4> QED BY <4>1, <4>2
    <3> HIDE DEF b, S, i
    <3> QED BY <1>4, <1>13, <3>1, <3>2
  <2>2. w.next[u[o]] = s.free_index
    BY <1>13
  <2>3. Share(u, n, g, k, s.raw_used, R) /\ Chain(s.next, s.free_index, g, k)
    BY DEF SetOK
  <2> DEFINE raw == s.raw_used
             nx == s.next
             free == s.free_index
             nx2 == w.next
  <2>4. Share(u, n, g, k, raw, R) /\ Chain(nx, free, g, k) /\ nx2[u[o]] = free
    BY <2>2, <2>3
  <2>5. \A y \in Members(g, k) : nx2[y] = nx[y]
    BY <2>1
  <2> HIDE DEF raw, nx, free, nx2
  <2>6. /\ Share(a, n - 1, With(g, k, u[o]), k + 1, raw, R)
        /\ Chain(nx2, u[o], With(g, k, u[o]), k + 1)
    BY <1>1, <2>4, <2>5, GivesCell
  <2> QED BY <2>6 DEF raw, nx2
<1>18. SetOK(w, a, n - 1, With(g, k, i), k + 1, cc, ll)
  <2>1. /\ Share(a, n - 1, With(g, k, i), k + 1, s.raw_used, R)
        /\ Chain(w.next, i, With(g, k, i), k + 1)
    BY <1>17
  <2> HIDE DEF a, b, S, i
  <2> QED BY <1>12, <1>14, <1>15, <1>16, <2>1 DEF SetOK
<1>19. \E c2, l2 : SetOK(w, a, n - 1, With(g, k, i), k + 1, c2, l2)
  BY <1>18
<1> QED BY <1>12, <1>19 DEF Goes, w

\* What an LRU set looks like.
LEMMA LruHas ==
  ASSUME NEW d, NEW u, NEW n, NEW g, NEW k, NEW c, NEW l, LruOK(d, u, n, g, k, c, l)
  PROVE  /\ n \in Nat /\ R \in Nat /\ Lists(u, n, R) /\ Lists(g, k, R) /\ n \in 0 .. R
         /\ d \in LruType /\ SetOK(d.base, u, n, g, k, c, l) /\ d.base.used = n
         /\ Ring(d.prev, d.next, u, n) /\ Valued(d.base.value, R, LruValues)
  BY SetHas, SetFields DEF LruOK

LEMMA LruIs ==
  ASSUME NEW u, NEW n, NEW g, NEW k, NEW c, NEW l, LruOK(data, u, n, g, k, c, l)
  PROVE  /\ Lru!InUse = Backwards(u, n)
         /\ Lru!Walk(data.prev, data.prev[0]) = [j \in 1 .. n |-> u[j]]
         /\ Lru!Contents = ValuesOf(data.base.value, u, n)
<1>1. R \in Nat /\ IsFiniteSet(0 .. R) /\ DOMAIN data.next = 0 .. R /\ DOMAIN data.prev = 0 .. R
  BY LruCells, LruFields DEF LruOK
<1>2. n \in Nat /\ Lists(u, n, R) /\ Ring(data.prev, data.next, u, n)
  BY LruHas
<1>3. \A a, j : Lists(a, j, R) => Members(a, j) \subseteq 0 .. R
  BY DEF Lists, Members
<1>4. Chain(data.next, data.next[0], u, n)
  BY <1>2, RingForwards
<1>5. Lru!InUse = Backwards(u, n)
  BY <1>1, <1>2, <1>3, <1>4, ChainIsWalk, LruWalks DEF Lru!InUse
<1>6. Lru!Walk(data.prev, data.prev[0]) = [j \in 1 .. n |-> u[j]]
  <2> DEFINE b == Reversed(u, n)
  <2>1. /\ Lists(b, n, R) /\ Chain(data.prev, data.prev[0], b, n)
        /\ Backwards(b, n) = [j \in 1 .. n |-> u[j]]
    BY <1>1, <1>2, RingBackwards
  <2> HIDE DEF b
  <2>2. /\ Lists(b, n, R) /\ Chain(data.prev, data.prev[0], b, n)
        /\ Members(b, n) \subseteq DOMAIN data.prev /\ IsFiniteSet(DOMAIN data.prev)
    BY <1>1, <1>3, <2>1
  <2>3. Walk(data.prev, data.prev[0]) = Backwards(b, n)
    BY <2>2, ChainIsWalk
  <2> QED BY <2>1, <2>3, LruWalks
<1>7. Lru!Contents = ValuesOf(data.base.value, u, n)
  BY <1>2, <1>5 DEF Backwards, Lru!Contents, Lru!base, ValuesOf
<1> QED BY <1>5, <1>6, <1>7

\* A key is found where it is in the list of use.
LEMMA LruFinds ==
  ASSUME NEW d, NEW u, NEW n, NEW g, NEW k, NEW c, NEW l, LruOK(d, u, n, g, k, c, l),
         NEW x \in LruValues
  PROVE  LET s == ValuesOf(d.base.value, u, n)
             r == Lru!find_index(d.base, x)
         IN \/ /\ r = 0 /\ x \notin Abstract!Elements(s)
               /\ \A i \in Members(u, n) : d.base.value[i] # x
            \/ \E o \in 1 .. n : /\ r = u[o] /\ u[o] # 0 /\ d.base.value[u[o]] = x
                                 /\ x \in Abstract!Elements(s)
                                 /\ Abstract!RemoveFirst(s, x) = Abstract!RemoveAt(s, n + 1 - o)
<1> DEFINE S == Members(u, n)
           v == d.base.value
           s == ValuesOf(v, u, n)
           r == Lru!find_index(d.base, x)
<1>1. n \in Nat /\ Lists(u, n, R) /\ R \in Nat /\ Different(v, S)
  BY LruHas DEF SetOK
<1>2. s \in Seq(LruValues) /\ Len(s) = n /\ \A j \in 1 .. n : s[j] = v[u[n + 1 - j]]
  <2>1. Valued(v, R, LruValues)
    BY LruHas
  <2> HIDE DEF v
  <2> QED BY <1>1, <2>1, ValuesAre
<1>3. \A o \in 1 .. n : u[o] \in S /\ n + 1 - o \in 1 .. n /\ n + 1 - (n + 1 - o) = o
  BY <1>1 DEF Members
<1>4. \/ r = 0 /\ \A i \in S : v[i] # x
      \/ r \in S /\ r # 0 /\ v[r] = x
  BY SetFinds, LruHas
<1> HIDE DEF s, r, v
<1>5. CASE r = 0 /\ \A i \in S : v[i] # x
  <2>1. x \notin Abstract!Elements(s)
    BY <1>2, <1>3, <1>5 DEF Abstract!Elements
  <2> QED BY <1>5, <2>1 DEF s, r, v
<1>6. CASE r \in S /\ r # 0 /\ v[r] = x
  <2>1. PICK o \in 1 .. n : u[o] = r
    BY <1>6 DEF Members
  <2> DEFINE j == n + 1 - o
  <2>2. j \in 1 .. n /\ n + 1 - j = o
    BY <1>3
  <2> HIDE DEF j
  <2>3. s[j] = x
    BY <1>2, <1>6, <2>1, <2>2
  <2>4. ASSUME NEW h \in 1 .. Len(s), s[h] = x PROVE j =< h
    <3>1. h \in 1 .. n /\ n + 1 - h \in 1 .. n /\ v[u[n + 1 - h]] = v[u[o]]
      BY <1>1, <1>2, <1>6, <2>1, <2>4
    <3>2. u[n + 1 - h] = u[o]
      BY <1>1, <1>3, <3>1 DEF Different
    <3>3. n + 1 - h = o
      BY <1>1, <3>1, <3>2 DEF Lists
    <3> QED BY <1>1, <2>2, <3>1, <3>3
  <2>5. Abstract!RemoveFirst(s, x) = Abstract!RemoveAt(s, j) /\ x \in Abstract!Elements(s)
    <3>1. s \in Seq(LruValues) /\ j \in 1 .. Len(s)
      BY <1>2, <2>2
    <3> QED BY <2>3, <2>4, <3>1, FirstRemoved
  <2>6. /\ r = u[o] /\ u[o] # 0 /\ v[u[o]] = x /\ x \in Abstract!Elements(s)
        /\ Abstract!RemoveFirst(s, x) = Abstract!RemoveAt(s, n + 1 - o)
    BY <1>6, <2>1, <2>5 DEF j
  <2> QED BY <2>6 DEF s, r, v
<1> QED BY <1>4, <1>5, <1>6

\* The list of use after a cell was linked to its front, or unlinked.
LEMMA LinkedIs ==
  ASSUME NEW d \in LruType, NEW i \in 1 .. R, i # d.next[0]
  PROVE  LET w == Lru!Linked(d, i) IN
         /\ w \in LruType /\ w.base = d.base
         /\ SplicedIn(d.prev, d.next, w.prev, w.next, i, R)
<1> DEFINE w == Lru!Linked(d, i)
           first == d.next[0]
           pp == [[d.prev EXCEPT ![first] = i] EXCEPT ![i] = 0]
           nn == [[d.next EXCEPT ![i] = first] EXCEPT ![0] = i]
<1>1. R \in Nat /\ d.prev \in [0 .. R -> 0 .. R] /\ d.next \in [0 .. R -> 0 .. R]
  BY LruCells, LruFields
<1>2. 0 \in 0 .. R /\ i \in 0 .. R /\ i # 0
  BY <1>1
<1>3. first \in 0 .. R
  BY <1>1, <1>2
<1>4. pp \in [0 .. R -> 0 .. R] /\ nn \in [0 .. R -> 0 .. R]
  BY <1>1, <1>2, <1>3
<1>5. \A x \in 0 .. R : /\ nn[x] = IF x = 0 THEN i ELSE IF x = i THEN first ELSE d.next[x]
                        /\ pp[x] = IF x = first THEN i ELSE IF x = i THEN 0 ELSE d.prev[x]
  BY <1>1, <1>2, <1>3
<1>6. w = [d EXCEPT !.prev = pp, !.next = nn]
  <2>1. w = [d EXCEPT !.prev = [@ EXCEPT ![first] = i, ![i] = 0],
                      !.next = [@ EXCEPT ![i] = first, ![0] = i]]
    BY Zenon DEF Lru!Linked
  <2> HIDE DEF w
  <2> QED BY <2>1 DEF LruType
<1> HIDE DEF w, pp, nn
<1>7. w \in LruType /\ w.base = d.base /\ w.prev = pp /\ w.next = nn
  BY <1>4, <1>6 DEF LruType
<1> QED BY <1>5, <1>7 DEF SplicedIn, w

LEMMA UnlinkedIs ==
  ASSUME NEW d \in LruType, NEW u, NEW n, Lists(u, n, R), Ring(d.prev, d.next, u, n),
         NEW o \in 1 .. n
  PROVE  LET w == Lru!Unlinked(d, u[o]) IN
         /\ w \in LruType /\ w.base = d.base
         /\ SplicedOut(d.prev, d.next, w.prev, w.next, u, o, R)
<1> DEFINE i == u[o]
           w == Lru!Unlinked(d, i)
           pp == [d.prev EXCEPT ![u[o - 1]] = u[o + 1]]
           nn == [d.next EXCEPT ![u[o + 1]] = u[o - 1]]
<1>1. R \in Nat /\ d.prev \in [0 .. R -> 0 .. R] /\ d.next \in [0 .. R -> 0 .. R]
  BY LruCells, LruFields
<1>2. u[o - 1] \in 0 .. R /\ u[o + 1] \in 0 .. R /\ n \in Nat
  BY DEF Lists
<1>3. d.prev[i] = u[o + 1] /\ d.next[i] = u[o - 1]
  BY <1>2 DEF Ring
<1>4. pp \in [0 .. R -> 0 .. R] /\ nn \in [0 .. R -> 0 .. R]
  BY <1>1, <1>2
<1>5. \A x \in 0 .. R : /\ nn[x] = IF x = u[o + 1] THEN u[o - 1] ELSE d.next[x]
                        /\ pp[x] = IF x = u[o - 1] THEN u[o + 1] ELSE d.prev[x]
  BY <1>1, <1>2
<1>6. w = [d EXCEPT !.prev = pp, !.next = nn]
  <2>1. w = [d EXCEPT !.next[d.prev[i]] = d.next[i], !.prev[d.next[i]] = d.prev[i]]
    BY Zenon DEF Lru!Unlinked
  <2> HIDE DEF w, i
  <2> QED BY <1>3, <2>1 DEF LruType
<1> HIDE DEF w, pp, nn
<1>7. w \in LruType /\ w.base = d.base /\ w.prev = pp /\ w.next = nn
  BY <1>4, <1>6 DEF LruType
<1> QED BY <1>5, <1>7 DEF SplicedOut, w

\* Only the set under the list of use changes.
LEMMA LruBased ==
  ASSUME NEW d \in LruType, NEW t \in SetType, NEW w, w = [d EXCEPT !.base = t]
  PROVE  w \in LruType /\ w.base = t /\ w.prev = d.prev /\ w.next = d.next
  BY DEF LruType

\* A key comes in, and is the last one used.
LEMMA LruInserts ==
  ASSUME NEW d, NEW u, NEW n, NEW g, NEW k, NEW c, NEW l, LruOK(d, u, n, g, k, c, l), n < R,
         NEW x \in LruValues, \A i \in Members(u, n) : d.base.value[i] # x
  PROVE  LruHolds(Lru!Inserted(d, x), <<x>> \o ValuesOf(d.base.value, u, n))
<1> DEFINE i == Lru!EmptyIndex(d.base)
           t == Lru!InsertImpl(d.base, x)
           e == [d EXCEPT !.base = t]
           w == Lru!Inserted(d, x)
           a == With(u, n, i)
<1>1. /\ n \in Nat /\ R \in Nat /\ Lists(u, n, R) /\ d \in LruType
      /\ SetOK(d.base, u, n, g, k, c, l) /\ Ring(d.prev, d.next, u, n)
      /\ Valued(d.base.value, R, LruValues)
  BY LruHas
<1>2. Comes(d.base, u, n, i, x, t)
  BY <1>1, SetInserts
<1>3. w = Lru!Linked(e, i)
  BY Zenon DEF Lru!Inserted
<1> HIDE DEF i, t, w
<1>4. /\ i \in 1 .. R /\ i \notin Members(u, n) /\ t.value = [d.base.value EXCEPT ![i] = x]
      /\ \E h, q, cc, ll : SetOK(t, a, n + 1, h, q, cc, ll)
  BY <1>2 DEF Comes
<1>5. PICK h, q, cc, ll : SetOK(t, a, n + 1, h, q, cc, ll)
  BY <1>4
<1>6. t \in SetType
  BY <1>5 DEF SetOK
<1>7. e \in LruType /\ e.base = t /\ e.prev = d.prev /\ e.next = d.next
  BY <1>1, <1>6, LruBased
<1> HIDE DEF e
<1>8. i # e.next[0]
  <2>1. d.next[0] = u[n]
    BY <1>1, RingForwards DEF Chain
  <2>2. i # 0 /\ (n # 0 => u[n] \in Members(u, n)) /\ (n = 0 => u[n] = 0)
    BY <1>1, <1>4 DEF Members, Lists
  <2> QED BY <1>1, <1>4, <1>7, <2>1, <2>2
<1>9. w \in LruType /\ w.base = t /\ SplicedIn(d.prev, d.next, w.prev, w.next, i, R)
  BY <1>3, <1>4, <1>7, <1>8, LinkedIs
<1>10. Ring(w.prev, w.next, a, n + 1)
  BY <1>1, <1>4, <1>9, RingWith
<1>11. LruOK(w, a, n + 1, h, q, cc, ll)
  BY <1>5, <1>9, <1>10 DEF LruOK
<1>12. ValuesOf(w.base.value, a, n + 1) = <<x>> \o ValuesOf(d.base.value, u, n)
  <2> DEFINE v == d.base.value
  <2>1. Valued(v, R, LruValues)
    BY <1>1
  <2> HIDE DEF v
  <2>2. ValuesOf([v EXCEPT ![i] = x], With(u, n, i), n + 1) = Prepended(x, ValuesOf(v, u, n))
    BY <1>1, <1>4, <2>1, ValuesWith
  <2> QED BY <1>4, <1>9, <2>2 DEF v, Prepended
<1> HIDE DEF a
<1> QED BY <1>11, <1>12 DEF LruHolds, w

\* The key in the o-th cell from the end goes.
LEMMA LruErases ==
  ASSUME NEW d, NEW u, NEW n, NEW g, NEW k, NEW c, NEW l, LruOK(d, u, n, g, k, c, l),
         NEW x \in LruValues, NEW o \in 1 .. n, d.base.value[u[o]] = x,
         Lru!find_index(d.base, x) = u[o]
  PROVE  LruHolds(Lru!Erased(d, x), Abstract!RemoveAt(ValuesOf(d.base.value, u, n), n + 1 - o))
<1> DEFINE i == u[o]
           t == Lru!ErasedFrom(d.base, x)
           e == [d EXCEPT !.base = t]
           out == Lru!Unlinked(e, i)
           w == Lru!Erased(d, x)
           a == Without(u, o)
<1>1. /\ n \in Nat /\ R \in Nat /\ Lists(u, n, R) /\ d \in LruType
      /\ SetOK(d.base, u, n, g, k, c, l) /\ Ring(d.prev, d.next, u, n)
      /\ Valued(d.base.value, R, LruValues)
  BY LruHas
<1>2. Goes(d.base, u, n, g, k, o, t)
  BY <1>1, SetErases
<1>3. w = [out EXCEPT !.prev[i] = 0, !.next[i] = 0]
  <2> DEFINE r == Lru!find_index(d.base, x)
             out2 == Lru!Unlinked([d EXCEPT !.base = Lru!ErasedFrom(@, x)], r)
  <2>1. w = [out2 EXCEPT !.prev[r] = 0, !.next[r] = 0]
    BY Zenon DEF Lru!Erased
  <2>2. r = i /\ out2 = out
    OBVIOUS
  <2> HIDE DEF w, out, out2, r, i
  <2> QED BY <2>1, <2>2
<1> HIDE DEF t, w
<1>4. t.value = d.base.value /\ \E cc, ll : SetOK(t, a, n - 1, With(g, k, i), k + 1, cc, ll)
  BY <1>2 DEF Goes
<1>5. PICK cc, ll : SetOK(t, a, n - 1, With(g, k, i), k + 1, cc, ll)
  BY <1>4
<1>6. t \in SetType
  BY <1>5 DEF SetOK
<1>7. e \in LruType /\ e.base = t /\ e.prev = d.prev /\ e.next = d.next
  BY <1>1, <1>6, LruBased
<1> HIDE DEF e
<1>8. out \in LruType /\ out.base = t /\ SplicedOut(d.prev, d.next, out.prev, out.next, u, o, R)
  BY <1>1, <1>7, UnlinkedIs
<1> HIDE DEF out
<1>9. w \in LruType /\ w.base = t /\ w.prev = [out.prev EXCEPT ![i] = 0] /\ w.next = [out.next EXCEPT ![i] = 0]
  <2> DEFINE pp == [out.prev EXCEPT ![i] = 0]
             nn == [out.next EXCEPT ![i] = 0]
  <2>1. out.prev \in [0 .. R -> 0 .. R] /\ out.next \in [0 .. R -> 0 .. R] /\ 0 \in 0 .. R
    <3>1. 0 \in 0 .. R
      BY <1>1
    <3> QED BY <1>8, <3>1, LruFields
  <2>2. pp \in [0 .. R -> 0 .. R] /\ nn \in [0 .. R -> 0 .. R]
    BY <2>1
  <2>3. w = [out EXCEPT !.prev = pp, !.next = nn]
    BY <1>3, <1>8 DEF LruType
  <2> HIDE DEF pp, nn
  <2>4. w \in LruType /\ w.base = out.base /\ w.prev = pp /\ w.next = nn
    BY <1>8, <2>2, <2>3 DEF LruType
  <2> QED BY <1>8, <2>4 DEF pp, nn
<1>10. SplicedOut(d.prev, d.next, w.prev, w.next, u, o, R)
  BY <1>8, LruFields, <1>9 DEF SplicedOut
<1>11. Ring(w.prev, w.next, a, n - 1)
  BY <1>1, <1>10, RingWithout
<1>12. LruOK(w, a, n - 1, With(g, k, i), k + 1, cc, ll)
  BY <1>9, <1>5, <1>11 DEF LruOK
<1>13. ValuesOf(w.base.value, a, n - 1) = Abstract!RemoveAt(ValuesOf(d.base.value, u, n), n + 1 - o)
  BY <1>1, ValuesWithout, <1>4, <1>9
<1> HIDE DEF a
<1> QED BY <1>12, <1>13 DEF LruHolds, w

\* A set does not know in which order its keys were used.
LEMMA SetMoves ==
  ASSUME NEW s, NEW u, NEW n, NEW g, NEW k, NEW c, NEW l, SetOK(s, u, n, g, k, c, l),
         NEW a, Lists(a, n, R), Members(a, n) = Members(u, n)
  PROVE  SetOK(s, a, n, g, k, c, l)
  BY DEF SetOK, Share

\* The key in the o-th cell from the end is used.
LEMMA LruActivates ==
  ASSUME NEW d, NEW u, NEW n, NEW g, NEW k, NEW c, NEW l, LruOK(d, u, n, g, k, c, l),
         NEW o \in 1 .. n
  PROVE  LruHolds(Lru!Activated(d, u[o]),
                  <<d.base.value[u[o]]>> \o Abstract!RemoveAt(ValuesOf(d.base.value, u, n), n + 1 - o))
<1> DEFINE i == u[o]
           out == Lru!Unlinked(d, i)
           w == Lru!Activated(d, i)
           b == Without(u, o)
           a == With(b, n - 1, i)
           v == d.base.value
<1>1. /\ n \in Nat /\ R \in Nat /\ Lists(u, n, R) /\ d \in LruType
      /\ SetOK(d.base, u, n, g, k, c, l) /\ Ring(d.prev, d.next, u, n)
      /\ Valued(v, R, LruValues)
  BY LruHas
<1>2. i \in 1 .. R /\ i \in Members(u, n) /\ n - 1 \in Nat /\ (n - 1) + 1 = n
  BY <1>1 DEF Lists, Members
<1>3. w = Lru!Linked(out, i)
  BY Zenon DEF Lru!Activated
<1>4. out \in LruType /\ out.base = d.base /\ SplicedOut(d.prev, d.next, out.prev, out.next, u, o, R)
  BY <1>1, UnlinkedIs
<1>5. Lists(b, n - 1, R) /\ Members(b, n - 1) = Members(u, n) \ {i}
  BY <1>1, WithoutLists
<1>6. Ring(out.prev, out.next, b, n - 1)
  BY <1>1, <1>4, RingWithout
<1> HIDE DEF i, out, b, w, v
<1>7. i # out.next[0]
  <2>1. out.next[0] = b[n - 1]
    BY <1>5, <1>6, RingForwards DEF Chain
  <2>2. i # 0 /\ (n - 1 # 0 => b[n - 1] \in Members(b, n - 1)) /\ (n - 1 = 0 => b[n - 1] = 0)
    BY <1>2, <1>5 DEF Members, Lists
  <2> QED BY <1>5, <2>1, <2>2
<1>8. w \in LruType /\ w.base = d.base /\ SplicedIn(out.prev, out.next, w.prev, w.next, i, R)
  BY <1>2, <1>3, <1>4, <1>7, LinkedIs
<1>9. Lists(a, n, R) /\ Members(a, n) = Members(u, n)
  <2>1. i \notin Members(b, n - 1)
    BY <1>5
  <2>2. Lists(a, (n - 1) + 1, R) /\ Members(a, (n - 1) + 1) = Members(b, n - 1) \cup {i}
    BY <1>1, <1>2, <1>5, <2>1, WithLists
  <2> HIDE DEF a
  <2> QED BY <1>2, <1>5, <2>2
<1>10. Ring(w.prev, w.next, a, n)
  <2>1. i \notin Members(b, n - 1)
    BY <1>5
  <2>2. Ring(w.prev, w.next, a, (n - 1) + 1)
    BY <1>1, <1>2, <1>5, <1>6, <1>8, <2>1, RingWith
  <2> HIDE DEF a
  <2> QED BY <1>2, <2>2
<1>11. ValuesOf(v, a, n) = <<v[i]>> \o Abstract!RemoveAt(ValuesOf(v, u, n), n + 1 - o)
  <2>1. i \notin Members(b, n - 1) /\ v[i] \in LruValues /\ [v EXCEPT ![i] = v[i]] = v
    BY <1>1, <1>2, <1>5 DEF Valued
  <2> DEFINE x == v[i]
             m == n - 1
  <2>2. x \in LruValues /\ Lists(b, m, R) /\ i \notin Members(b, m) /\ i \in 1 .. R
    BY <1>2, <1>5, <2>1
  <2> HIDE DEF x, m
  <2>3. ValuesOf([v EXCEPT ![i] = x], With(b, m, i), m + 1) = Prepended(x, ValuesOf(v, b, m))
    BY <1>1, <2>2, ValuesWith
  <2>4. ValuesOf(v, b, m) = Abstract!RemoveAt(ValuesOf(v, u, n), n + 1 - o)
    BY <1>1, ValuesWithout DEF b, m
  <2> QED BY <1>2, <2>1, <2>3, <2>4 DEF Prepended, x, m
<1> HIDE DEF a
<1>12. SetOK(w.base, a, n, g, k, c, l)
  BY <1>1, <1>8, <1>9, SetMoves
<1>13. LruOK(w, a, n, g, k, c, l)
  BY <1>8, <1>10, <1>12 DEF LruOK
<1>14. w.base.value = v
  BY <1>8 DEF v
<1> QED BY <1>11, <1>13, <1>14 DEF LruHolds, w, v, i

\* A set with nothing in it, whatever is in the cells.
LEMMA LruUnused ==
  ASSUME NEW w \in LruType, w.base.used = 0, w.base.raw_used = 0, w.base.free_index = 0,
         \A b \in Tables : w.base.buckets[b] = 0, w.prev[0] = 0, w.next[0] = 0
  PROVE  LruHolds(w, <<>>)
<1>1. R \in Nat /\ w.base \in SetType
  BY LruCells, LruFields
<1>2. Share(NoCells, 0, NoCells, 0, 0, R) /\ Members(NoCells, 0) = {}
  BY <1>1, NothingShared, NoCellsAre
<1>3. Ring(w.prev, w.next, NoCells, 0) /\ Chain(w.base.next, w.base.free_index, NoCells, 0)
  BY DEF Ring, Chain, NoCells
<1>4. Spread(w.base.next, w.base.buckets, w.base.value, [b \in Tables |-> NoCells], [b \in Tables |-> 0], {}, R)
  BY <1>1, NothingSpread
<1>5. Different(w.base.value, {})
  BY DEF Different
<1>6. SetOK(w.base, NoCells, 0, NoCells, 0, [b \in Tables |-> NoCells], [b \in Tables |-> 0])
  BY <1>1, <1>2, <1>3, <1>4, <1>5 DEF SetOK
<1>7. LruOK(w, NoCells, 0, NoCells, 0, [b \in Tables |-> NoCells], [b \in Tables |-> 0])
  BY <1>3, <1>6 DEF LruOK
<1>8. ValuesOf(w.base.value, NoCells, 0) = <<>>
  BY DEF ValuesOf
<1> QED BY <1>7, <1>8 DEF LruHolds

LEMMA EmptySetIs ==
  /\ Lru!EmptySet \in SetType /\ Lru!EmptySet.used = 0 /\ Lru!EmptySet.raw_used = 0
  /\ Lru!EmptySet.free_index = 0 /\ \A b \in Tables : Lru!EmptySet.buckets[b] = 0
  BY LruCells DEF LruValues, Lru!EmptySet, SetType

LEMMA LruClears ==
  ASSUME NEW d \in LruType,
         NEW w, w = [d EXCEPT !.base = Lru!ClearedSet(@), !.prev[0] = 0, !.next[0] = 0]
  PROVE  LruHolds(w, <<>>)
<1> DEFINE s == Lru!ClearedSet(d.base)
           pp == [d.prev EXCEPT ![0] = 0]
           nn == [d.next EXCEPT ![0] = 0]
<1>1. /\ R \in Nat /\ d.base \in SetType /\ d.prev \in [0 .. R -> 0 .. R] /\ d.next \in [0 .. R -> 0 .. R]
  BY LruCells, LruFields
<1>2. 0 \in 0 .. R
  BY <1>1
<1>3. pp \in [0 .. R -> 0 .. R] /\ nn \in [0 .. R -> 0 .. R] /\ pp[0] = 0 /\ nn[0] = 0
  BY <1>1, <1>2
<1>4. /\ s \in SetType /\ s.used = 0 /\ s.raw_used = 0 /\ s.free_index = 0
      /\ \A b \in Tables : s.buckets[b] = 0
  <2> DEFINE e == Lru!EmptySet
             v == d.base.value
  <2>1. s = [e EXCEPT !.value = v]
    BY DEF Lru!ClearedSet
  <2>2. /\ e \in SetType /\ e.used = 0 /\ e.raw_used = 0 /\ e.free_index = 0
        /\ \A b \in Tables : e.buckets[b] = 0
    BY EmptySetIs
  <2>3. v \in [1 .. R -> LruValues]
    BY <1>1, SetFields DEF Valued
  <2> HIDE DEF s, e, v
  <2> QED BY <2>1, <2>2, <2>3 DEF SetType
<1>5. w = [d EXCEPT !.base = s, !.prev = pp, !.next = nn]
  BY DEF LruType
<1> HIDE DEF s, pp, nn
<1>6. w \in LruType /\ w.base = s /\ w.prev = pp /\ w.next = nn
  BY <1>3, <1>4, <1>5 DEF LruType
<1> QED BY <1>3, <1>4, <1>6, LruUnused

\* The key used longest ago goes.
LEMMA LruDrops ==
  ASSUME NEW d, NEW s, LruHolds(d, s), s # <<>>
  PROVE  LruHolds(Lru!Erased(d, Lru!Oldest(d)), SubSeq(s, 1, Len(s) - 1))
<1>1. PICK u, n, g, k, c, l : LruOK(d, u, n, g, k, c, l) /\ s = ValuesOf(d.base.value, u, n)
  BY DEF LruHolds
<1>2. /\ n \in Nat /\ R \in Nat /\ Lists(u, n, R) /\ SetOK(d.base, u, n, g, k, c, l)
      /\ Ring(d.prev, d.next, u, n) /\ Valued(d.base.value, R, LruValues)
  BY <1>1, LruHas
<1> DEFINE x == Lru!Oldest(d)
<1>3. s \in Seq(LruValues) /\ Len(s) = n
  BY <1>1, <1>2, ValuesAre
<1>4. n # 0 /\ 1 \in 1 .. n /\ n + 1 - 1 = n /\ u[1] \in 1 .. R /\ u[1] \in Members(u, n)
  BY <1>3, <1>2 DEF Lists, Members
<1>5. x = d.base.value[u[1]] /\ x \in LruValues
  <2>1. d.prev[0] = u[1]
    BY <1>2 DEF Lists, Ring
  <2>2. d.base.value[u[1]] \in LruValues
    BY <1>2, <1>4 DEF Valued
  <2> QED BY <2>1, <2>2 DEF Lru!Oldest
<1> HIDE DEF x
<1>6. PICK o \in 1 .. n : Lru!find_index(d.base, x) = u[o] /\ d.base.value[u[o]] = x
  BY <1>1, <1>4, <1>5, LruFinds
<1>7. o = 1
  <2>1. u[o] \in Members(u, n) /\ Different(d.base.value, Members(u, n))
    BY <1>2 DEF Members, SetOK
  <2>2. u[o] = u[1]
    BY <1>4, <1>5, <1>6, <2>1 DEF Different
  <2> QED BY <1>2, <1>4, <2>2 DEF Lists
<1>8. LruHolds(Lru!Erased(d, x), Abstract!RemoveAt(s, n + 1 - o))
  BY <1>1, <1>5, <1>6, LruErases
<1>9. Abstract!RemoveAt(s, Len(s)) = SubSeq(s, 1, Len(s) - 1)
  BY <1>3, RemovingEnds
<1> QED BY <1>3, <1>4, <1>7, <1>8, <1>9 DEF x

\* The recursion of disuse has a solution.
DisuseSteps(d, m, f) ==
  f = [j \in 0 .. m |-> IF j = 0 THEN d ELSE Lru!Erased(f[j - 1], Lru!Oldest(f[j - 1]))]

LEMMA DisuseStepsExist ==
  ASSUME NEW d
  PROVE  \A m \in Nat : \E f : DisuseSteps(d, m, f)
<1> DEFINE S == {m \in Nat : \E f : DisuseSteps(d, m, f)}
<1>1. 0 \in S
  <2> DEFINE f == [j \in 0 .. 0 |-> d]
  <2>1. 0 .. 0 = {0}
    OBVIOUS
  <2>2. f = [j \in 0 .. 0 |-> IF j = 0 THEN d ELSE Lru!Erased(f[j - 1], Lru!Oldest(f[j - 1]))]
    BY <2>1
  <2>3. DisuseSteps(d, 0, f)
    BY <2>2, Zenon DEF DisuseSteps
  <2> QED BY <2>3
<1>2. ASSUME NEW m \in Nat, m \in S PROVE m + 1 \in S
  <2>1. PICK f : DisuseSteps(d, m, f)
    BY <1>2
  <2> DEFINE e(j) == IF j = 0 THEN d ELSE Lru!Erased(f[j - 1], Lru!Oldest(f[j - 1]))
             e2 == [j \in 0 .. (m + 1) |-> e(j)]
  <2>2. f = [j \in 0 .. m |-> e(j)]
    BY <2>1, Zenon DEF DisuseSteps
  <2> HIDE DEF e
  <2>3. \A j \in 0 .. m : e2[j] = f[j]
    BY <2>2
  <2> HIDE DEF e2
  <2>4. \A j \in 0 .. (m + 1) : j = 0 \/ e2[j - 1] = f[j - 1]
    BY <2>3
  <2>5. \A j \in 0 .. (m + 1) :
          e(j) = IF j = 0 THEN d ELSE Lru!Erased(e2[j - 1], Lru!Oldest(e2[j - 1]))
    BY <2>4, Zenon DEF e
  <2>6. e2 = [j \in 0 .. (m + 1) |-> IF j = 0 THEN d ELSE Lru!Erased(e2[j - 1], Lru!Oldest(e2[j - 1]))]
    BY <2>5 DEF e2
  <2>7. DisuseSteps(d, m + 1, e2)
    BY <2>6, Zenon DEF DisuseSteps
  <2> QED BY <2>7
<1> HIDE DEF S
<1>3. Nat \subseteq S
  BY <1>1, <1>2, SetInduction
<1> QED BY <1>3 DEF S

\* The m keys used longest ago go.
LEMMA LruDisuses ==
  ASSUME NEW d, NEW s \in Seq(LruValues), LruHolds(d, s), NEW m \in 0 .. Len(s)
  PROVE  LruHolds(Lru!Disused(d, m), SubSeq(s, 1, Len(s) - m))
<1> DEFINE at == CHOOSE f : DisuseSteps(d, m, f)
           e(j) == IF j = 0 THEN d ELSE Lru!Erased(at[j - 1], Lru!Oldest(at[j - 1]))
<1>1. m \in Nat /\ Len(s) \in Nat
  OBVIOUS
<1>2. DisuseSteps(d, m, at)
  BY <1>1, DisuseStepsExist, Zenon
<1>3. Lru!Disused(d, m) = at[m]
  BY Zenon DEF Lru!Disused, DisuseSteps
<1>4. at = [j \in 0 .. m |-> e(j)]
  BY <1>2, Zenon DEF DisuseSteps
<1> HIDE DEF at, e
<1>5. \A j \in 0 .. m : at[j] = e(j)
  BY <1>4
<1>6. at[0] = d /\ \A j \in 1 .. m : at[j] = Lru!Erased(at[j - 1], Lru!Oldest(at[j - 1]))
  BY <1>1, <1>5 DEF e
<1> DEFINE S == {j \in Nat : j <= m => LruHolds(at[j], SubSeq(s, 1, Len(s) - j))}
<1>7. 0 \in S
  <2>1. SubSeq(s, 1, Len(s) - 0) = s
    OBVIOUS
  <2> QED BY <1>6, <2>1
<1>8. ASSUME NEW j \in Nat, j \in S PROVE j + 1 \in S
  <2> SUFFICES ASSUME j + 1 <= m PROVE LruHolds(at[j + 1], SubSeq(s, 1, Len(s) - (j + 1)))
    OBVIOUS
  <2> DEFINE t == SubSeq(s, 1, Len(s) - j)
  <2>1. j <= m /\ j + 1 \in 1 .. m /\ (j + 1) - 1 = j /\ Len(s) - j \in 1 .. Len(s)
    BY <1>1
  <2>2. LruHolds(at[j], t)
    BY <1>8, <2>1
  <2> DEFINE c == Len(s) - j
  <2>3. t \in Seq(LruValues) /\ Len(t) = c /\ \A i \in 1 .. c : t[i] = s[i]
    <3>1. c \in 1 .. Len(s) /\ Len(s) \in Nat
      BY <2>1
    <3>2. \A i \in 1 .. c : s[i] \in LruValues
      BY <3>1
    <3> HIDE DEF c
    <3>3. 1 \in Int /\ c \in Int
      BY <3>1
    <3>4. SubSeq(s, 1, c) \in Seq(LruValues)
      BY <3>2, <3>3, SubSeqProperties
    <3>5. Len(SubSeq(s, 1, c)) = IF 1 <= c THEN c - 1 + 1 ELSE 0
      BY <3>2, <3>3, SubSeqProperties
    <3>6. \A i \in 1 .. c - 1 + 1 : SubSeq(s, 1, c)[i] = s[1 + i - 1]
      BY <3>2, <3>3, SubSeqProperties
    <3>7. Len(SubSeq(s, 1, c)) = c /\ \A i \in 1 .. c : SubSeq(s, 1, c)[i] = s[i]
      BY <3>1, <3>5, <3>6
    <3> QED BY <3>4, <3>7 DEF c
  <2>4. t # <<>> /\ SubSeq(t, 1, Len(t) - 1) = SubSeq(s, 1, Len(s) - (j + 1))
    <3> DEFINE b == c - 1
    <3>1. c \in 1 .. Len(s) /\ Len(s) \in Nat /\ b = Len(s) - (j + 1)
      BY <1>1, <2>1
    <3> HIDE DEF t, c
    <3>2. t # <<>> /\ Len(t) - 1 = b /\ b \in 0 .. c /\ b \in Int /\ 1 \in Int
      BY <2>3, <3>1
    <3>3. (\A i \in 1 .. b : t[i] \in LruValues) /\ (\A i \in 1 .. b : s[i] \in LruValues)
      BY <2>3, <3>1
    <3>4. \A i \in 1 .. b : t[i] = s[i]
      BY <2>3, <3>1
    <3> DEFINE x == SubSeq(t, 1, b)
               y == SubSeq(s, 1, b)
    <3> HIDE DEF b
    <3>5. x \in Seq(LruValues) /\ (Len(x) = IF 1 <= b THEN b - 1 + 1 ELSE 0)
      BY <3>2, <3>3, SubSeqProperties
    <3>6. \A i \in 1 .. b - 1 + 1 : x[i] = t[1 + i - 1]
      BY <3>2, <3>3, SubSeqProperties
    <3>7. y \in Seq(LruValues) /\ (Len(y) = IF 1 <= b THEN b - 1 + 1 ELSE 0)
      BY <3>2, <3>3, SubSeqProperties
    <3>8. \A i \in 1 .. b - 1 + 1 : y[i] = s[1 + i - 1]
      BY <3>2, <3>3, SubSeqProperties
    <3> HIDE DEF x, y
    <3>9. b \in Nat
      BY <2>3, <3>1, <3>2
    <3>10. Len(x) = b /\ Len(y) = b
      BY <3>5, <3>7, <3>9
    <3>11. ASSUME NEW i \in 1 .. b PROVE x[i] = y[i]
      BY <3>9, <3>6, <3>8, <3>4
    <3>12. x = y
      BY <3>5, <3>7, <3>10, <3>11, SameSeq
    <3> QED BY <3>1, <3>2, <3>12 DEF x, y, b
  <2> HIDE DEF t, S
  <2>5. LruHolds(Lru!Erased(at[j], Lru!Oldest(at[j])), SubSeq(t, 1, Len(t) - 1))
    BY <2>2, <2>3, <2>4, LruDrops
  <2>6. at[j + 1] = Lru!Erased(at[j], Lru!Oldest(at[j]))
    BY <1>6, <2>1
  <2> QED BY <2>4, <2>5, <2>6
<1> HIDE DEF S
<1>9. Nat \subseteq S
  BY <1>7, <1>8, SetInduction
<1>10. m \in S
  BY <1>1, <1>9
<1> QED BY <1>3, <1>10 DEF S

\* Of a set in use.
LruInv == LruHolds(data, Lru!Contents)

LEMMA LruIsThis ==
  ASSUME NEW s, LruHolds(data, s)
  PROVE  Lru!Contents = s
<1>1. PICK u, n, g, k, c, l : LruOK(data, u, n, g, k, c, l) /\ s = ValuesOf(data.base.value, u, n)
  BY DEF LruHolds
<1> QED BY <1>1, LruIs

LruIsContents == \A s : LruHolds(data, s) => Lru!Contents = s

LEMMA LruContents == LruIsContents
  BY LruIsThis DEF LruIsContents

LEMMA LruContentsNext == LruIsContents'
  BY LruContents, PTL

LEMMA LruHoldsNext ==
  ASSUME NEW s, LruHolds(data', s)
  PROVE  Lru!Contents' = s /\ LruInv'
  BY LruContentsNext DEF LruIsContents, LruInv

LEMMA LruInvInit == Lru!Init => LruInv /\ Lru!Contents = <<>>
<1> SUFFICES ASSUME Lru!Init PROVE LruHolds(data, <<>>)
  BY LruIsThis DEF LruInv
<1> DEFINE e == Lru!EmptySet
           pp == [i \in 0 .. R |-> 0]
<1>1. data = [base |-> e, prev |-> pp, next |-> pp]
  BY LruCells, Zenon DEF Lru!Init
<1>2. R \in Nat /\ 0 \in 0 .. R
  BY LruCells
<1>3. pp \in [0 .. R -> 0 .. R] /\ pp[0] = 0
  BY <1>2
<1>4. /\ e \in SetType /\ e.used = 0 /\ e.raw_used = 0
      /\ e.free_index = 0 /\ \A b \in Tables : e.buckets[b] = 0
  BY EmptySetIs
<1> HIDE DEF e, pp
<1>5. data \in LruType /\ data.base = e /\ data.prev = pp /\ data.next = pp
  BY <1>1, <1>3, <1>4 DEF LruType
<1> QED BY <1>3, <1>4, <1>5, LruUnused

\* A call of a set is a call of a list of keys.
LEMMA LruStep ==
  ASSUME kind = "lru", kind' = "lru", LruInv, Lru!Next
  PROVE  LruInv' /\ Abstract!ListNext
<1> DEFINE s == Lru!Contents
<1>1. Contents = s /\ Contents' = s' /\ AbstractKind = "lru" /\ AbstractKind' = "lru"
  BY Zenon DEF Contents, AbstractKind
<1>2. PICK u, n, g, k, c, l : LruOK(data, u, n, g, k, c, l) /\ s = ValuesOf(data.base.value, u, n)
  BY DEF LruInv, LruHolds
<1>3. /\ n \in Nat /\ Lists(u, n, R) /\ R \in Nat /\ data \in LruType /\ data.base \in SetType
      /\ data.base.used = n /\ n \in 0 .. R
  BY <1>2, LruHas, SetHas DEF LruOK
<1>4. Valued(data.base.value, R, LruValues)
  BY <1>3, SetFields
<1>5. s \in Seq(LruValues) /\ Len(s) = n
  BY <1>2, <1>3, <1>4, ValuesAre
<1>5a. LruHolds(data, s)
  BY DEF LruInv
<1>6. ASSUME NEW t, LruHolds(data', t) PROVE Contents' = t /\ LruInv'
  BY <1>1, <1>6, LruHoldsNext
<1>7. ASSUME Lru!Same PROVE Contents' = Contents /\ LruInv'
  BY <1>7, <1>1, <1>6, <1>5a DEF Lru!Same
<1>8. (Abstract!IsFull <=> n = R) /\ (Lru!FullSet(Lru!base) <=> n = R) /\ Lru!base = data.base
  BY <1>1, <1>5, <1>3 DEF Abstract!IsFull, AbstractKind, R, Lru!base, Lru!FullSet
<1>9. ASSUME NEW x \in Keys.lru PROVE x \in LruValues
  BY DEF LruValues
<1> DEFINE Missing(x) == \A i \in Members(u, n) : data.base.value[i] # x
<1>10. ASSUME NEW x \in Keys.lru, ~Lru!Exists(x) PROVE ~Abstract!Held(x) /\ Missing(x)
  BY <1>8, <1>10, <1>1, <1>2, <1>9, LruFinds DEF Lru!Exists, Abstract!Held
<1>11. ASSUME NEW x \in Keys.lru, Lru!Exists(x)
       PROVE  /\ Abstract!Held(x)
              /\ \E o \in 1 .. n : /\ Lru!find_index(data.base, x) = u[o] /\ data.base.value[u[o]] = x
                                   /\ Abstract!Without(x) = Abstract!RemoveAt(s, n + 1 - o)
  BY <1>8, <1>11, <1>1, <1>2, <1>9, LruFinds DEF Lru!Exists, Abstract!Held, Abstract!Without
<1> HIDE DEF s, Missing
<1> DEFINE Stepped == LruInv' /\ (Abstract!Shrink \/ \E x \in Keys.lru : Abstract!AnyCall(x) \/ Abstract!LruCall(x))
<1>12. ASSUME Lru!Clear PROVE Stepped
  <2>1. LruHolds(data', <<>>)
    BY <1>3, <1>12, LruClears DEF Lru!Clear
  <2>2. Contents' = <<>> /\ LruInv'
    BY <1>6, <2>1
  <2>3. Abstract!Shrink
    BY <1>12, <2>2 DEF Lru!Clear, Lru!Answer, Abstract!Shrink, Abstract!Answers
  <2> QED BY <2>2, <2>3
<1>13. ASSUME NEW m \in 0 .. R, Lru!Disuse(m) PROVE Stepped
  <2>1. data' = Lru!Disused(data, m) /\ Lru!Answer("disuse", m, "ok") /\ m <= data.base.used
    BY <1>8, <1>13 DEF Lru!Disuse
  <2>2. m \in 0 .. Len(s)
    BY <1>3, <1>5, <2>1
  <2>3. LruHolds(data', SubSeq(s, 1, Len(s) - m))
    BY <1>5, <1>5a, <2>1, <2>2, LruDisuses
  <2>4. Contents' = SubSeq(s, 1, Len(s) - m) /\ LruInv'
    BY <1>6, <2>3
  <2>5. Abstract!Shrink
    BY <1>1, <2>2, <2>4, <2>1 DEF Abstract!FirstOf, Lru!Answer, Abstract!Answers, Abstract!Shrink,
       AbstractKind
  <2> QED BY <2>4, <2>5
<1>14. ASSUME NEW x \in Keys.lru, Lru!Erase(x) PROVE Stepped
  <2>1. CASE ~Lru!Exists(x)
    BY <1>14, <2>1, <1>7, <1>10 DEF Lru!Erase, Lru!Answer, Abstract!AnyCall, Abstract!Answers
  <2>2. CASE Lru!Exists(x)
    <3>1. PICK o \in 1 .. n : /\ Lru!find_index(data.base, x) = u[o] /\ data.base.value[u[o]] = x
                              /\ Abstract!Without(x) = Abstract!RemoveAt(s, n + 1 - o)
      BY <1>11, <2>2
    <3>2. data' = Lru!Erased(data, x) /\ Lru!Answer("erase", x, "ok")
      BY <1>14, <2>2 DEF Lru!Erase
    <3>3. LruHolds(data', Abstract!RemoveAt(s, n + 1 - o))
      BY <1>2, <1>9, <3>1, <3>2, LruErases
    <3>4. Contents' = Abstract!Without(x) /\ LruInv' /\ Abstract!Held(x)
      BY <1>6, <1>11, <2>2, <3>1, <3>3
    <3>5. Abstract!AnyCall(x)
      BY <3>2, <3>4 DEF Lru!Answer, Abstract!AnyCall, Abstract!Answers
    <3> QED BY <3>4, <3>5
  <2> QED BY <2>1, <2>2
<1>15. ASSUME NEW x \in Keys.lru, Lru!Active(x) PROVE Stepped
  <2>1. CASE ~Lru!Exists(x)
    BY <1>15, <2>1, <1>7, <1>10 DEF Lru!Active, Lru!Answer, Abstract!LruCall, Abstract!Answers
  <2>2. CASE Lru!Exists(x)
    <3>1. PICK o \in 1 .. n : /\ Lru!find_index(data.base, x) = u[o] /\ data.base.value[u[o]] = x
                              /\ Abstract!Without(x) = Abstract!RemoveAt(s, n + 1 - o)
      BY <1>11, <2>2
    <3>2. data' = Lru!Activated(data, Lru!find_index(data.base, x)) /\ Lru!Answer("active", x, "ok")
      BY <1>8, <1>15, <2>2 DEF Lru!Active
    <3>3. data' = Lru!Activated(data, u[o])
      BY <3>1, <3>2
    <3>4. LruHolds(data', <<x>> \o Abstract!RemoveAt(s, n + 1 - o))
      BY <1>2, <3>1, <3>3, LruActivates
    <3>5. Contents' = <<x>> \o Abstract!Without(x) /\ LruInv' /\ Abstract!Held(x)
      BY <1>6, <1>11, <2>2, <3>1, <3>4
    <3>6. Abstract!LruCall(x)
      BY <3>2, <3>5 DEF Lru!Answer, Abstract!LruCall, Abstract!Answers
    <3> QED BY <3>5, <3>6
  <2> QED BY <2>1, <2>2
<1>16. ASSUME NEW x \in Keys.lru, Lru!Find(x) PROVE Stepped
  BY <1>16, <1>7, <1>10, <1>11 DEF Lru!Find, Lru!Answer, Abstract!AnyCall, Abstract!Answers
<1>17. ASSUME NEW x \in Keys.lru, NEW force \in BOOLEAN, NEW agrees \in BOOLEAN,
              Lru!Insert(x, force, agrees)
       PROVE  Stepped
  <2>1. CASE Lru!Exists(x) /\ Lru!Answer("insert", x, "exists") /\ Lru!Same
    BY <1>7, <1>11, <2>1 DEF Lru!Answer, Abstract!LruCall, Abstract!Keep, Abstract!Answers
  <2>2. CASE ~Lru!Exists(x) /\ ~Lru!FullSet(Lru!base) /\ data' = Lru!Inserted(data, x) /\ Lru!Answer("insert", x, "inserted")
    <3>1. n < R /\ ~Abstract!IsFull /\ ~Abstract!Held(x) /\ Missing(x)
      BY <1>3, <1>8, <1>10, <2>2
    <3>2. LruHolds(data', <<x>> \o s)
      BY <1>2, <1>9, <2>2, <3>1, LruInserts DEF Missing
    <3>3. Contents' = <<x>> \o Contents /\ LruInv'
      BY <1>1, <1>6, <3>2
    <3>4. Abstract!LruCall(x)
      BY <2>2, <3>1, <3>3 DEF Lru!Answer, Abstract!LruCall, Abstract!AddOnce, Abstract!Add, Abstract!Answers
    <3> QED BY <3>3, <3>4
  <2>3. CASE ~Lru!Exists(x) /\ Lru!FullSet(Lru!base) /\ Lru!Answer("insert", x, "refused") /\ Lru!Same
    BY <1>7, <1>8, <1>10, <2>3 DEF Lru!Answer, Abstract!LruCall, Abstract!Refuse, Abstract!Answers
  <2>4. CASE /\ ~Lru!Exists(x) /\ Lru!FullSet(Lru!base)
             /\ data' = Lru!Inserted(Lru!Disused(data, 1), x) /\ Lru!Answer("insert", x, "evicted")
    <3> DEFINE d == Lru!Disused(data, 1)
               t == SubSeq(s, 1, Len(s) - 1)
    <3>1. n = R /\ Abstract!IsFull /\ ~Abstract!Held(x)
      BY <1>8, <1>10, <2>4
    <3>2. 1 \in 0 .. Len(s) /\ Len(s) = R /\ R > 0
      BY <1>3, <1>5, <3>1, LruCells
    <3>3. LruHolds(d, t)
      BY <1>5, <1>5a, <3>2, LruDisuses
    <3>4. t \in Seq(LruValues) /\ Len(t) = R - 1 /\ \A j \in 1 .. (R - 1) : t[j] = s[j]
      <4>1. 1 \in Int /\ Len(s) - 1 \in Int /\ Len(s) - 1 = R - 1 /\ R \in Nat /\ Len(s) = R /\ R > 0
        BY <1>3, <3>2
      <4>2. \A j \in 1 .. Len(s) - 1 : s[j] \in LruValues
        BY <1>5, <4>1
      <4>3. t \in Seq(LruValues) /\ (Len(t) = IF 1 <= Len(s) - 1 THEN (Len(s) - 1) - 1 + 1 ELSE 0)
        BY <4>1, <4>2, SubSeqProperties
      <4>4. \A j \in 1 .. (Len(s) - 1) - 1 + 1 : t[j] = s[1 + j - 1]
        BY <4>1, <4>2, SubSeqProperties
      <4> HIDE DEF t
      <4>5. Len(t) = R - 1
        BY <4>1, <4>3
      <4>6. ASSUME NEW j \in 1 .. (R - 1) PROVE t[j] = s[j]
        BY <4>1, <4>4
      <4> QED BY <4>3, <4>5, <4>6
    <3>5. x \notin Abstract!Elements(s)
      BY <1>1, <3>1 DEF Abstract!Held
    <3>6. \A j \in 1 .. R : s[j] # x
      BY <3>2, <3>5 DEF Abstract!Elements
    <3> HIDE DEF d, t
    <3>7. PICK uu, nn, gg, kk, cc, ll : LruOK(d, uu, nn, gg, kk, cc, ll) /\ t = ValuesOf(d.base.value, uu, nn)
      BY <3>3 DEF LruHolds
    <3>8. nn \in Nat /\ Len(t) = nn /\ \A j \in 1 .. nn : t[j] = d.base.value[uu[nn + 1 - j]]
      BY <3>7, LruHas DEF ValuesOf
    <3>9. nn = R - 1 /\ nn < R
      BY <1>3, <3>2, <3>4, <3>8
    <3>10. \A i \in Members(uu, nn) : d.base.value[i] # x
      <4>1. ASSUME NEW i \in Members(uu, nn) PROVE d.base.value[i] # x
        <5>1. PICK o \in 1 .. nn : i = uu[o]
          BY DEF Members
        <5>2. nn + 1 - o \in 1 .. nn /\ nn + 1 - (nn + 1 - o) = o
          BY <3>8
        <5>3. t[nn + 1 - o] = d.base.value[i]
          BY <3>8, <5>1, <5>2
        <5>4. nn + 1 - o \in 1 .. (R - 1) /\ nn + 1 - o \in 1 .. R
          BY <1>3, <3>9, <5>2
        <5> QED BY <3>4, <3>6, <5>3, <5>4
      <4> QED BY <4>1
    <3>11. LruHolds(Lru!Inserted(d, x), <<x>> \o t)
      BY <1>9, <3>7, <3>9, <3>10, LruInserts
    <3>12. Contents' = <<x>> \o t /\ LruInv'
      BY <1>6, <2>4, <3>11 DEF d
    <3>13. Contents' = <<x>> \o Abstract!FirstOf(Len(Contents) - 1)
      BY <1>1, <3>12 DEF Abstract!FirstOf, t
    <3>14. Abstract!LruCall(x)
      BY <2>4, <3>1, <3>13 DEF Lru!Answer, Abstract!LruCall, Abstract!Answers
    <3> QED BY <3>12, <3>14
  <2> QED BY <1>17, <2>1, <2>2, <2>3, <2>4 DEF Lru!Insert
<1>18. Stepped
  BY <1>12, <1>13, <1>14, <1>15, <1>16, <1>17 DEF R, Lru!Next
<1>19. Keys[AbstractKind] = Keys.lru
  BY <1>1
<1> QED BY <1>1, <1>18, <1>19 DEF Abstract!ListNext, AbstractKind

LEMMA LruNextStep ==
  ASSUME kind = "lru" => LruInv, [Next]_vars
  PROVE  /\ kind' = "lru" => LruInv'
         /\ kind = "lru" => [Abstract!ListNext]_(Abstract!listVars)
<1>1. kind' = kind
  BY DEF Next, RingNext, PoolNext, KeyNext, vars
<1>2. CASE kind = "lru" /\ Lru!Next
  BY <1>1, <1>2, LruStep
<1>3. CASE kind = "lru" /\ UNCHANGED <<kind, data, last>>
  BY <1>3, LruHoldsNext, <1>1 DEF LruInv, Contents, Abstract!listVars
<1>4. kind = "lru" => Lru!Next \/ UNCHANGED <<kind, data, last>>
  BY DEF Next, RingNext, PoolNext, KeyNext, vars, keyVars
<1> QED BY <1>1, <1>2, <1>3, <1>4

\* The recursion of Joined has a solution.
Flattening(q, m, f) == f = [i \in 1 .. m |-> IF i = 1 THEN q[i] ELSE f[i - 1] \o q[i]]

LEMMA FlatteningExists ==
  ASSUME NEW q
  PROVE  \A m \in Nat : \E f : Flattening(q, m, f)
<1> DEFINE S == {m \in Nat : \E f : Flattening(q, m, f)}
<1>1. 0 \in S
  <2> DEFINE f == [i \in 1 .. 0 |-> q[i]]
  <2>1. 1 .. 0 = {}
    OBVIOUS
  <2>2. f = [i \in 1 .. 0 |-> IF i = 1 THEN q[i] ELSE f[i - 1] \o q[i]]
    BY <2>1
  <2>3. Flattening(q, 0, f)
    BY <2>2, Zenon DEF Flattening
  <2> QED BY <2>3
<1>2. ASSUME NEW m \in Nat, m \in S PROVE m + 1 \in S
  <2>1. PICK f : Flattening(q, m, f)
    BY <1>2
  <2> DEFINE e(i) == IF i = 1 THEN q[i] ELSE f[i - 1] \o q[i]
             e2 == [i \in 1 .. (m + 1) |-> e(i)]
  <2>2. f = [i \in 1 .. m |-> e(i)]
    BY <2>1, Zenon DEF Flattening
  <2> HIDE DEF e
  <2>3. \A i \in 1 .. m : e2[i] = f[i]
    BY <2>2
  <2> HIDE DEF e2
  <2>4. \A i \in 1 .. (m + 1) : i = 1 \/ e2[i - 1] = f[i - 1]
    BY <2>3
  <2>5. \A i \in 1 .. (m + 1) : e(i) = IF i = 1 THEN q[i] ELSE e2[i - 1] \o q[i]
    BY <2>4, Zenon DEF e
  <2>6. e2 = [i \in 1 .. (m + 1) |-> IF i = 1 THEN q[i] ELSE e2[i - 1] \o q[i]]
    BY <2>5 DEF e2
  <2>7. Flattening(q, m + 1, e2)
    BY <2>6, Zenon DEF Flattening
  <2> QED BY <2>7
<1> HIDE DEF S
<1>3. Nat \subseteq S
  BY <1>1, <1>2, SetInduction
<1> QED BY <1>3 DEF S

\* t holds the elements of S, each once.
Enumerates(t, S) == t \in Seq(S) /\ Pools!CellsOf(t) = S /\ IsFiniteSet(S) /\ Len(t) = Cardinality(S)

LEMMA EnumeratesBoth ==
  ASSUME NEW s, NEW S, NEW t, NEW T, Enumerates(s, S), Enumerates(t, T), S \cap T = {}
  PROVE  Enumerates(s \o t, S \cup T)
<1>1. s \in Seq(S) /\ t \in Seq(T) /\ Pools!CellsOf(s) = S /\ Pools!CellsOf(t) = T
      /\ Len(s) = Cardinality(S) /\ Len(t) = Cardinality(T) /\ IsFiniteSet(S) /\ IsFiniteSet(T)
  BY DEF Enumerates
<1> DEFINE U == S \cup T
           r == s \o t
<1>2. s \in Seq(U) /\ t \in Seq(U)
  BY <1>1
<1>3. r \in Seq(U) /\ Len(r) = Len(s) + Len(t)
  BY <1>2
<1>4. IsFiniteSet(U) /\ Cardinality(U) = Len(r)
  <2>0. IsFiniteSet(U) /\ Cardinality(U) = Cardinality(S) + Cardinality(T) - Cardinality(S \cap T)
    <3> HIDE DEF r
    <3> QED BY <1>1, FS_Union
  <2>1. IsFiniteSet(U) /\ Cardinality(U) = Cardinality(S) + Cardinality(T) - Cardinality({})
    <3>1. Cardinality(S \cap T) = Cardinality({})
      OBVIOUS
    <3> HIDE DEF U
    <3> QED BY <2>0, <3>1, Zenon
  <2>2. Cardinality({}) = 0 /\ Cardinality(S) \in Nat /\ Cardinality(T) \in Nat
    BY <1>1, FS_EmptySet, FS_CardinalityType
  <2> QED BY <1>1, <1>3, <2>1, <2>2
<1>5. Pools!CellsOf(r) = U
  <2>0. Len(s) \in Nat /\ Len(t) \in Nat
    BY <1>1
  <2>1. (\A i \in 1 .. Len(s) : r[i] = s[i]) /\ (\A i \in 1 .. Len(t) : r[Len(s) + i] = t[i])
    BY <1>2
  <2>2. DOMAIN r = 1 .. (Len(s) + Len(t)) /\ DOMAIN s = 1 .. Len(s) /\ DOMAIN t = 1 .. Len(t)
    BY <1>2, <1>3
  <2> HIDE DEF r
  <2>3. /\ \A i \in 1 .. Len(s) : i \in 1 .. (Len(s) + Len(t))
        /\ \A i \in 1 .. Len(t) : Len(s) + i \in 1 .. (Len(s) + Len(t))
        /\ \A i \in 1 .. (Len(s) + Len(t)) : i \in 1 .. Len(s) \/ (i - Len(s) \in 1 .. Len(t) /\ Len(s) + (i - Len(s)) = i)
    BY <2>0
  <2>4. \A x \in Pools!CellsOf(r) : x \in Pools!CellsOf(s) \cup Pools!CellsOf(t)
    <3>1. ASSUME NEW i \in 1 .. (Len(s) + Len(t)) PROVE r[i] \in Pools!CellsOf(s) \cup Pools!CellsOf(t)
      BY <2>1, <2>2, <2>3 DEF Pools!CellsOf
    <3> QED BY <2>2, <3>1 DEF Pools!CellsOf
  <2>5. \A x \in Pools!CellsOf(s) : x \in Pools!CellsOf(r)
    BY <2>1, <2>2, <2>3 DEF Pools!CellsOf
  <2>6. \A x \in Pools!CellsOf(t) : x \in Pools!CellsOf(r)
    BY <2>1, <2>2, <2>3 DEF Pools!CellsOf
  <2> QED BY <1>1, <2>4, <2>5, <2>6
<1> QED BY <1>3, <1>4, <1>5 DEF Enumerates

LEMMA BackwardsEnumerates ==
  ASSUME NEW m, NEW a, NEW n, Lists(a, n, m)
  PROVE  Enumerates(Backwards(a, n), Members(a, n))
<1> DEFINE t == Backwards(a, n)
           S == Members(a, n)
<1>1. n \in Nat /\ Pools!CellsOf(t) = S /\ Len(t) = n /\ Pools!Cardinality(S) = n
  BY BackwardsRange, MembersCount DEF Lists
<1>2. Cardinality(S) = n
  BY <1>1, Zenon DEF Cardinality, Pools!Cardinality
<1>3. IsFiniteSet(S)
  <2>1. IsFiniteSet(1 .. n)
    BY <1>1, FS_Interval
  <2>2. S = {a[k] : k \in 1 .. n}
    BY DEF Members
  <2>3. IsFiniteSet({a[k] : k \in 1 .. n})
    <3> DEFINE h == [k \in 1 .. n |-> a[k]]
    <3>1. h \in Surjection(1 .. n, {a[k] : k \in 1 .. n})
      BY DEF Surjection
    <3> QED BY <2>1, <3>1, FS_Surjection
  <2> QED BY <2>2, <2>3
<1>4. t \in Seq(S)
  <2>1. \A j \in 1 .. n : n + 1 - j \in 1 .. n
    BY <1>1
  <2>2. \A j \in 1 .. n : a[n + 1 - j] \in S
    BY <2>1 DEF Members
  <2>3. t = [j \in 1 .. n |-> a[n + 1 - j]]
    BY DEF Backwards
  <2> HIDE DEF S
  <2> QED BY <1>1, <2>2, <2>3
<1> QED BY <1>1, <1>2, <1>3, <1>4 DEF Enumerates

\* The chains, one behind the other, are what is in use.
LEMMA FlattenedChains ==
  ASSUME NEW m, NEW S, NEW next, NEW heads, NEW v, NEW c, NEW l, Spread(next, heads, v, c, l, S, m),
         \A x \in S : Bucket(v[x]) \in Tables,
         NEW q, q = [i \in 1 .. buckets_num |-> Backwards(c[i - 1], l[i - 1])]
  PROVE  Enumerates(Lru!Joined(q), S)
<1> DEFINE B == buckets_num
           f == CHOOSE h : Flattening(q, B, h)
           U(i) == {x \in S : Bucket(v[x]) \in 0 .. (i - 1)}
           W(i) == {x \in S : Bucket(v[x]) = i - 1}
           T == {i \in Nat : i + 1 <= B => Enumerates(f[i + 1], U(i + 1))}
<1>1. B \in Nat /\ B > 0 /\ Tables = 0 .. (B - 1)
  BY ContainersAssumption DEF Tables
<1>2. Lru!Joined(q) = f[B]
  <2>1. Len(q) = B
    BY <1>1
  <2>2. Len(q) # 0
    BY <1>1, <2>1
  <2> HIDE DEF B
  <2> QED BY <2>1, <2>2, Zenon DEF Lru!Joined, Flattening
<1>3. f = [i \in 1 .. B |-> IF i = 1 THEN q[i] ELSE f[i - 1] \o q[i]]
  <2>1. Flattening(q, B, f)
    BY <1>1, FlatteningExists, Zenon
  <2> QED BY <2>1, Zenon DEF Flattening
<1> HIDE DEF f
<1>4. ASSUME NEW i \in 1 .. B PROVE Enumerates(q[i], W(i))
  <2>1. i - 1 \in Tables /\ q[i] = Backwards(c[i - 1], l[i - 1])
    BY <1>1
  <2>2. Lists(c[i - 1], l[i - 1], m) /\ Members(c[i - 1], l[i - 1]) = W(i)
    BY <2>1 DEF Spread
  <2> HIDE DEF W
  <2> QED BY <2>1, <2>2, BackwardsEnumerates
<1> HIDE DEF B
<1>5. 0 \in T
  <2>1. 1 \in 1 .. B
    BY <1>1
  <2>2. f[1] = q[1]
    BY <1>3, <2>1
  <2>3. U(1) = W(1)
    OBVIOUS
  <2>4. Enumerates(f[1], U(1))
    BY <1>4, <2>1, <2>2, <2>3
  <2>5. 0 + 1 = 1
    OBVIOUS
  <2> HIDE DEF U
  <2> QED BY <2>4, <2>5
<1>6. ASSUME NEW i \in Nat, i \in T PROVE i + 1 \in T
  <2> SUFFICES ASSUME (i + 1) + 1 <= B PROVE Enumerates(f[(i + 1) + 1], U((i + 1) + 1))
    OBVIOUS
  <2> DEFINE z == i + 1
  <2>1. z \in 1 .. B /\ z + 1 \in 1 .. B /\ (z + 1) - 1 = z /\ z + 1 # 1 /\ z \in Nat
    BY <1>1
  <2>2. Enumerates(f[z], U(z))
    <3> HIDE DEF U
    <3> QED BY <1>6, <1>1
  <2>3. f[z + 1] = f[z] \o q[z + 1]
    <3> HIDE DEF z
    <3> QED BY <1>3, <2>1
  <2> HIDE DEF z
  <2>4. U(z) \cap W(z + 1) = {} /\ U(z) \cup W(z + 1) = U(z + 1)
    BY <2>1
  <2>5. Enumerates(q[z + 1], W(z + 1))
    BY <1>4, <2>1
  <2> HIDE DEF U, W
  <2>6. Enumerates(f[z] \o q[z + 1], U(z) \cup W(z + 1))
    <3> DEFINE f1 == f[z]
               q1 == q[z + 1]
               U1 == U(z)
               W1 == W(z + 1)
    <3>1. Enumerates(f1, U1) /\ Enumerates(q1, W1) /\ U1 \cap W1 = {}
      BY <2>2, <2>4, <2>5
    <3> HIDE DEF f1, q1, U1, W1
    <3>2. Enumerates(f1 \o q1, U1 \cup W1)
      BY <3>1, EnumeratesBoth
    <3> QED BY <3>2 DEF f1, q1, U1, W1
  <2>7. Enumerates(f[z + 1], U(z + 1))
    BY <2>3, <2>4, <2>6
  <2> QED BY <2>7 DEF z
<1> HIDE DEF T
<1>7. B - 1 \in T
  BY <1>5, <1>6, SetInduction, <1>1
<1>8. B - 1 \in Nat /\ (B - 1) + 1 = B
  BY <1>1
<1>9. U(B) = S
  BY <1>1
<1>10. Enumerates(f[B], U(B))
  <2> HIDE DEF U
  <2> QED BY <1>7, <1>8 DEF T
<1> HIDE DEF U
<1> QED BY <1>2, <1>9, <1>10

\* What is in use is in the chains and in the list of use, both ways.
LEMMA LruInvSays == LruInv => Lru!CellsPartition
<1> SUFFICES ASSUME LruInv PROVE Lru!CellsPartition
  OBVIOUS
<1>1. PICK u, n, g, k, c, l : LruOK(data, u, n, g, k, c, l)
  BY DEF LruInv, LruHolds
<1> DEFINE s == data.base
           free == Lru!Walk(s.next, s.free_index)
           way == Lru!Walk(data.prev, data.prev[0])
<1>2. SetOK(s, u, n, g, k, c, l) /\ Lru!base = s
  BY <1>1, LruHas DEF Lru!base
<1>3. /\ n \in Nat /\ k \in Nat /\ R \in Nat /\ Lists(u, n, R) /\ Lists(g, k, R)
      /\ s \in SetType /\ s.used = n
      /\ Spread(s.next, s.buckets, s.value, c, l, Members(u, n), R)
  BY <1>2, SetHas
<1>4. Lru!InUse = Backwards(u, n) /\ way = [j \in 1 .. n |-> u[j]]
  BY <1>1, LruIs
<1>5. free = Backwards(g, k) /\ \A b \in Tables : Lru!Chain(s, b) = Backwards(c[b], l[b])
  BY <1>2, SetIs
<1>6. /\ Members(u, n) \cap Members(g, k) = {} /\ Members(u, n) \cup Members(g, k) = 1 .. s.raw_used
      /\ s.raw_used = n + k
  BY <1>2 DEF SetOK, Share
<1>7. \A a : Lru!CellsOf(a) = Pools!CellsOf(a)
  BY Zenon DEF Lru!CellsOf, Pools!CellsOf
<1>8. /\ Lru!CellsOf(Lru!InUse) = Members(u, n) /\ Len(Lru!InUse) = n
      /\ Lru!CellsOf(free) = Members(g, k) /\ Len(free) = k
  BY <1>3, <1>4, <1>5, <1>7, BackwardsRange
<1>9. ASSUME NEW i \in Members(u, n) PROVE Bucket(s.value[i]) \in Tables
  <2>1. i \in 1 .. R
    BY <1>3 DEF Lists, Members
  <2>2. s.value[i] \in LruValues
    BY <1>3, <2>1, SetFields DEF Valued
  <2> HIDE DEF s
  <2> QED BY <2>2, LruKeys
<1> HIDE DEF s, free, way
<1>10. Lru!Mirror(Lru!InUse) = way
  BY <1>4, <1>8, <1>3 DEF Lru!Mirror, Backwards
<1>11. ASSUME NEW b \in Lru!Buckets, NEW i \in Lru!CellsOf(Lru!Chain(s, b))
       PROVE  Lru!get_bucket_index(s.value[i]) = b
  BY LruCells, <1>3, <1>5, <1>7, <1>11, BackwardsRange DEF Spread
<1>12. Lru!CellsOf(Lru!Iteration(s)) = Members(u, n) /\ Len(Lru!Iteration(s)) = n
  <2> DEFINE q == [i \in 1 .. buckets_num |-> Lru!Chain(s, i - 1)]
             q2 == [i \in 1 .. buckets_num |-> Backwards(c[i - 1], l[i - 1])]
  <2>1. Lru!Iteration(s) = Lru!Joined(q)
    BY Zenon DEF Lru!Iteration
  <2>2. q = q2
    BY ContainersAssumption, <1>5 DEF Tables
  <2> HIDE DEF q
  <2>3. Enumerates(Lru!Joined(q), Members(u, n))
    BY <1>3, <1>9, <2>2, FlattenedChains
  <2>4. Cardinality(Members(u, n)) = n
    BY <1>3, MembersCount DEF Cardinality, Pools!Cardinality
  <2> QED BY <1>7, <2>1, <2>3, <2>4 DEF Enumerates
<1>13. Members(g, k) = 1 .. s.raw_used \ Members(u, n)
  BY <1>6
<1>14. k + s.used = s.raw_used
  BY <1>3, <1>6
<1> QED BY <1>2, <1>3, <1>8, <1>10, <1>11, <1>12, <1>13, <1>14, Zenon DEF Lru!CellsPartition, s, free, way

------------------------------------------------------------------------------
(***************************************************************************)
(* Whichever container it is.                                              *)
(***************************************************************************)
KeysInv == (kind = "list" => ListInv) /\ (kind = "hash" => HashInv) /\ (kind = "lru" => LruInv)

LEMMA KeysInit == Init => KeysInv /\ Abstract!ListInit
<1> SUFFICES ASSUME Init PROVE KeysInv /\ Abstract!ListInit
  OBVIOUS
<1>1. CASE kind = "list"
  BY <1>1, ListInvInit DEF Init, List!Init, Contents, KeysInv, Abstract!ListInit
<1>2. CASE kind = "hash"
  BY <1>2, HashInvInit DEF Init, Hash!Init, Contents, KeysInv, Abstract!ListInit
<1>3. CASE kind = "lru"
  BY <1>3, LruInvInit DEF Init, Lru!Init, Contents, KeysInv, Abstract!ListInit
<1>4. CASE kind \notin {"list", "hash", "lru"}
  BY <1>4 DEF Init, NoKeys, Contents, KeysInv, Abstract!ListInit
<1> QED BY <1>1, <1>2, <1>3, <1>4

LEMMA KeysNext ==
  ASSUME KeysInv, [Next]_vars
  PROVE  KeysInv' /\ [Abstract!ListNext]_(Abstract!listVars)
<1>1. /\ kind' = "list" => ListInv'
      /\ kind = "list" => [Abstract!ListNext]_(Abstract!listVars)
  BY ListNextStep DEF KeysInv
<1>2. /\ kind' = "hash" => HashInv'
      /\ kind = "hash" => [Abstract!ListNext]_(Abstract!listVars)
  BY HashNextStep DEF KeysInv
<1>3. /\ kind' = "lru" => LruInv'
      /\ kind = "lru" => [Abstract!ListNext]_(Abstract!listVars)
  BY LruNextStep DEF KeysInv
<1>4. CASE kind \notin {"list", "hash", "lru"}
  BY <1>4, <1>1, <1>2, <1>3 DEF Next, RingNext, PoolNext, KeyNext, vars, keyVars, Contents, KeysInv,
     Abstract!listVars
<1> QED BY <1>1, <1>2, <1>3, <1>4 DEF KeysInv

\* Of BaseMemList, HashMemPool and BaseMemLRUSet (base_mem_list.h,
\* hash_mem_pool.h, base_mem_set.h, base_mem_lru_set.h): whatever was inserted,
\* moved, evicted and erased, every cell is in exactly one place, and the lists
\* that meet the cells in use, forwards, backwards and bucket by bucket, meet
\* the same ones, each once.
THEOREM KeyCellsArePartitioned == Spec => []CellsPartition
<1>1. KeysInv => CellsPartition
  BY ListInvSays, HashInvSays, LruInvSays DEF KeysInv, CellsPartition
<1>2. Init => KeysInv
  BY KeysInit
<1>3. KeysInv /\ [Next]_vars => KeysInv'
  BY KeysNext
<1> QED BY <1>1, <1>2, <1>3, PTL DEF Spec

\* Every call of these three containers changes what they hold, and answers,
\* as a call of a bounded list of keys does: reuse of cells, chaining of
\* buckets and moves to the front leave no other trace.
THEOREM KeysAreAList == Spec => ImplementsKeyList
<1>1. Init => KeysInv /\ Abstract!ListInit
  BY KeysInit
<1>2. KeysInv /\ [Next]_vars => KeysInv' /\ [Abstract!ListNext]_(Abstract!listVars)
  BY KeysNext
<1>3. Spec => Abstract!ListInit /\ [][Abstract!ListNext]_(Abstract!listVars)
  BY <1>1, <1>2, PTL DEF Spec
<1> QED BY <1>3, Zenon DEF ImplementsKeyList, Abstract!ListSpec
================================================================================
