-------------------------- MODULE ServerLifeProofs --------------------------
(***************************************************************************)
(* Proofs about the passes over the systems and about the memory of the    *)
(* packet in hand (ServerLife), for any packets and systems and any number *)
(* of crashes and restarts.                                                *)
(*                                                                         *)
(* SkipsOnlySuspects relates what OnRecv finds in the shared memory to a   *)
(* crash that may lie several processes back.  What carries it from there  *)
(* to here is NoteIsHonest: while a packet is in hand the note, if the     *)
(* process has it, is the head of that packet, and otherwise it is one of  *)
(* the heads of SkippableHeads.  A note is torn in three places; that the  *)
(* packet in hand is the first of the channel there is RecvInLoop, and     *)
(* that fields mixed once more stay a mixture of the same is BlendAgain.   *)
(*                                                                         *)
(* What a pass has done by its end is a matter of what it has done at each *)
(* place.  The lists and the table of systems agree, and a system is in    *)
(* one place of one list (RegisteredOnce); of the systems that stay the    *)
(* pass has called those whose places it has passed, in the order of the   *)
(* lists (PassInOrder); and those SystemInit has passed are initialised or *)
(* came too late (InitComesFirst).  User code that adds and removes        *)
(* systems disturbs all three, and keeps them because it stays away from   *)
(* the list that is being iterated over.                                   *)
(***************************************************************************)
EXTENDS ServerLife, SequenceTheorems, TLAPS

\* No system is being called while the process looks at the channel, and the
\* packet in hand is the first there.
RecvInLoop ==
  /\ phase \in {"down", "idle", "LoopOnce", "Loop"} => pass = NoPass
  /\ recv # NoPkg => phase = "Loop" /\ channel # <<>> /\ recv = channel[1]

Heads == {HeadOf(p) : p \in Packets}

\* What the property allows to be skipped.
SkippableHeads(heads, cut) ==
  IF cut THEN Blend(heads \cup {ZeroHead}) ELSE heads \cup {ZeroHead}

NoteIsHonest ==
  /\ channel \in Seq(Packets)
  /\ suspects \subseteq Heads /\ torn \in BOOLEAN
  /\ recv # NoPkg /\ mapped => shm_pkg_head_ = HeadOf(recv)
  /\ recv = NoPkg \/ ~mapped => shm_pkg_head_ \in SkippableHeads(suspects, torn)

LInv == RecvInLoop /\ NoteIsHonest

\* The first packet of a channel is a packet, and what is left are packets.
LEMMA ChannelOfPackets ==
  ASSUME channel \in Seq(Packets), channel # <<>>
  PROVE  channel[1] \in Packets /\ Tail(channel) \in Seq(Packets)
  OBVIOUS

\* What may be skipped may still be when there is more that may.
LEMMA SkippableMore ==
  ASSUME NEW heads \in SUBSET Heads, NEW more \in SUBSET Heads, heads \subseteq more,
         NEW cut \in BOOLEAN
  PROVE  SkippableHeads(heads, cut) \subseteq Blend(more \cup {ZeroHead})
<1>1. heads \cup {ZeroHead} \subseteq Blend(more \cup {ZeroHead})
  BY DEF Heads, Blend, HeadOf, ZeroHead
<1>2. Blend(heads \cup {ZeroHead}) \subseteq Blend(more \cup {ZeroHead})
  BY DEF Blend
<1> QED BY <1>1, <1>2 DEF SkippableHeads

\* Fields of mixed heads are fields of the heads that were mixed.
LEMMA BlendAgain ==
  ASSUME NEW heads, NEW x \in Blend(heads), NEW y \in Blend(heads)
  PROVE  Blend({x, y}) \subseteq Blend(heads)
<1>1. /\ \A h \in {x, y} : h.gid \in {g.gid : g \in heads}
      /\ \A h \in {x, y} : h.seq_id \in {g.seq_id : g \in heads}
      /\ \A h \in {x, y} : h.cmd_id \in {g.cmd_id : g \in heads}
  BY DEF Blend
<1>2. /\ {h.gid : h \in {x, y}} \subseteq {g.gid : g \in heads}
      /\ {h.seq_id : h \in {x, y}} \subseteq {g.seq_id : g \in heads}
      /\ {h.cmd_id : h \in {x, y}} \subseteq {g.cmd_id : g \in heads}
  BY <1>1
<1> QED BY <1>2 DEF Blend

\* The first process begins with a note that is cleared.
LEMMA LInit == Init => LInv
<1> SUFFICES ASSUME Init PROVE LInv
  OBVIOUS
<1>1. pass = NoPass /\ recv = NoPkg /\ channel = <<>> /\ suspects = {} /\ torn = FALSE
  BY DEF Init, MgrInit
<1>2. shm_pkg_head_ \in SkippableHeads(suspects, torn)
  BY DEF Init, SkippableHeads
<1>3. RecvInLoop
  BY <1>1 DEF RecvInLoop
<1>4. channel \in Seq(Packets)
  BY <1>1
<1>5. suspects \subseteq Heads /\ torn \in BOOLEAN
  BY <1>1
<1> QED BY <1>1, <1>2, <1>3, <1>4, <1>5 DEF LInv, NoteIsHonest

\* A step that leaves the packets alone keeps the note honest.
LEMMA PacketsAlone ==
  ASSUME LInv, UNCHANGED netVars
  PROVE  NoteIsHonest'
  BY DEF LInv, NoteIsHonest, netVars, noteVars

\* A process that dies outside OnRecv leaves the note and the suspects alone.
LEMMA DeathKeepsNote ==
  ASSUME LInv, recv = NoPkg, Dies, UNCHANGED noteVars,
         channel' = channel \/ (channel # <<>> /\ channel' = Tail(channel))
  PROVE  LInv'
<1>1. channel' \in Seq(Packets)
  BY ChannelOfPackets DEF LInv, NoteIsHonest
<1> QED BY <1>1 DEF LInv, RecvInLoop, NoteIsHonest, Dies, noteVars

\* A process that dies with a packet in hand leaves a note of it, if it had one.
LEMMA DeathInRecvKeepsNote ==
  ASSUME LInv, recv # NoPkg, DiesWithNote
  PROVE  LInv'
<1>1. recv' = NoPkg /\ mapped' = FALSE /\ shm_pkg_head_' = shm_pkg_head_ /\ torn' = torn
  BY DEF DiesWithNote, DiesInRecv, Dies
<1>2. channel' \in Seq(Packets) /\ HeadOf(recv) \in Heads
  BY ChannelOfPackets DEF LInv, RecvInLoop, NoteIsHonest, DiesWithNote, DiesInRecv, Heads
<1>3. RecvInLoop'
  BY <1>1 DEF RecvInLoop, DiesWithNote, DiesInRecv, Dies
<1>4. CASE mapped
  <2>1. suspects' = {shm_pkg_head_} /\ suspects' \in SUBSET Heads
    BY <1>2, <1>4 DEF LInv, NoteIsHonest, DiesWithNote
  <2>2. shm_pkg_head_ \in SkippableHeads(suspects', FALSE)
    BY <2>1 DEF SkippableHeads
  <2>3. shm_pkg_head_ \in SkippableHeads(suspects', TRUE)
    BY <2>1, <2>2, SkippableMore DEF SkippableHeads
  <2>4. torn = TRUE \/ torn = FALSE
    BY DEF LInv, NoteIsHonest
  <2> QED BY <1>1, <1>2, <1>3, <2>1, <2>2, <2>3, <2>4 DEF LInv, NoteIsHonest
<1>5. CASE ~mapped
  BY <1>1, <1>2, <1>3, <1>5 DEF LInv, NoteIsHonest, DiesWithNote
<1> QED BY <1>4, <1>5

\* A process that is killed in the middle of a note leaves a mixture.
LEMMA TearKeepsNote ==
  ASSUME LInv, NEW note, note \in {HeadOf(channel[1]), ZeroHead}, TearsNote(note),
         channel # <<>>
  PROVE  LInv'
<1> DEFINE heads == suspects' \cup {ZeroHead}
<1>1. recv' = NoPkg /\ torn' = TRUE /\ suspects' = suspects \cup {HeadOf(channel[1])}
  BY DEF TearsNote, DiesInRecv, Dies
<1>2. channel' \in Seq(Packets) /\ HeadOf(channel[1]) \in Heads
  BY ChannelOfPackets DEF LInv, NoteIsHonest, TearsNote, DiesInRecv, Heads
<1>3. RecvInLoop'
  BY <1>1 DEF RecvInLoop, TearsNote, DiesInRecv, Dies
<1>4. suspects \in SUBSET Heads /\ suspects' \in SUBSET Heads /\ torn \in BOOLEAN
  BY <1>1, <1>2 DEF LInv, NoteIsHonest
<1>5. HeadOf(channel[1]) \in Blend(heads) /\ ZeroHead \in Blend(heads)
  <2>1. SkippableHeads(suspects', FALSE) \subseteq Blend(heads)
    BY <1>4, SkippableMore
  <2> QED BY <1>1, <2>1 DEF SkippableHeads
<1>6. shm_pkg_head_ \in Blend(heads)
  <2>1. CASE recv # NoPkg
    BY <1>5, <2>1 DEF LInv, RecvInLoop, NoteIsHonest, TearsNote
  <2>2. CASE recv = NoPkg
    <3>1. SkippableHeads(suspects, torn) \subseteq Blend(heads)
      BY <1>1, <1>4, SkippableMore
    <3> QED BY <2>2, <3>1 DEF LInv, NoteIsHonest
  <2> QED BY <2>1, <2>2
<1>7. shm_pkg_head_' \in Blend({shm_pkg_head_, note}) /\ note \in Blend(heads)
  BY <1>5 DEF TearsNote
<1> HIDE DEF heads
<1>8. shm_pkg_head_' \in Blend(heads)
  BY <1>6, <1>7, BlendAgain
<1> QED BY <1>1, <1>2, <1>3, <1>4, <1>8 DEF LInv, NoteIsHonest, SkippableHeads, heads

\* The steps of the main loop that deal with no packet.
LEMMA LoopKeeps ==
  ASSUME LInv,
         \/ Start \/ OnInitReturns \/ SvrTick \/ SvrProc \/ SvrFinish
         \/ PassStep \/ PassReturns \/ LoopOnceReturns \/ LoopReturns \/ UserCode
  PROVE  LInv'
<1> USE DEF LInv
<1>1. CASE Start
  <2>1. RecvInLoop'
    BY <1>1 DEF Start, RecvInLoop, mgrVars
  <2>2. recv = NoPkg /\ recv' = NoPkg
    BY <1>1 DEF Start, RecvInLoop
  <2> QED BY <1>1, <2>1, <2>2 DEF Start, RegisterPkgMem, NoteIsHonest, noteVars
<1>2. CASE OnInitReturns \/ SvrTick \/ SvrProc \/ SvrFinish
  <2>1. RecvInLoop'
    BY <1>2 DEF OnInitReturns, SvrTick, SvrProc, SvrFinish, Enter, RecvInLoop, netVars
  <2> QED BY <1>2, <2>1, PacketsAlone DEF OnInitReturns, SvrTick, SvrProc, SvrFinish
<1>3. CASE PassStep
  <2>1. pass # NoPass
    BY <1>3 DEF PassStep, NextPriority, Call
  <2>2. RecvInLoop'
    BY <1>3, <2>1 DEF PassStep, RecvInLoop, netVars
  <2> QED BY <1>3, <2>2, PacketsAlone DEF PassStep
<1>4. CASE PassReturns
  <2>1. pass # NoPass
    BY <1>4 DEF PassReturns, PassEnds
  <2>2. RecvInLoop'
    BY <1>4, <2>1 DEF PassReturns, RecvInLoop, netVars
  <2> QED BY <1>4, <2>2, PacketsAlone DEF PassReturns
<1>5. CASE LoopOnceReturns \/ LoopReturns
  <2>1. RecvInLoop'
    BY <1>5 DEF LoopOnceReturns, LoopReturns, RecvInLoop, mgrVars, netVars
  <2> QED BY <1>5, <2>1, PacketsAlone DEF LoopOnceReturns, LoopReturns
<1>6. CASE UserCode
  <2>1. pass = NoPass => pass' = NoPass
    BY <1>6 DEF UserCode, AddSystem, RemoveSystem, Forgets
  <2>2. RecvInLoop'
    BY <1>6, <2>1 DEF UserCode, RecvInLoop, netVars
  <2> QED BY <1>6, <2>2, PacketsAlone DEF UserCode
<1> QED BY <1>1, <1>2, <1>3, <1>4, <1>5, <1>6

\* The steps that deal with a packet.
LEMMA PacketsKeep ==
  ASSUME LInv,
         \/ \E p \in Packets : Arrive(p)
         \/ RecvUndecodable \/ RecvSkips \/ RecvBegins \/ RecvReturns
         \/ \E i \in DOMAIN queued : LoopOnce(i)
  PROVE  LInv'
<1> USE DEF LInv
<1>1. CASE \E p \in Packets : Arrive(p)
  <2> PICK p \in Packets : Arrive(p)
    BY <1>1
  <2>1. channel' \in Seq(Packets) /\ channel' # <<>>
    BY DEF Arrive, NoteIsHonest
  <2>2. recv = NoPkg /\ recv' = NoPkg
    BY DEF Arrive, RecvInLoop
  <2> QED BY <2>1, <2>2 DEF Arrive, RecvInLoop, NoteIsHonest, mgrVars, noteVars
<1>2. CASE RecvUndecodable
  <2>1. channel' \in Seq(Packets) /\ recv = NoPkg /\ recv' = NoPkg
    BY <1>2, ChannelOfPackets DEF RecvUndecodable, Delivers, Consumed, NoteIsHonest
  <2> QED BY <1>2, <2>1 DEF RecvUndecodable, RecvInLoop, NoteIsHonest, mgrVars, noteVars
<1>3. CASE RecvSkips \/ RecvReturns
  <2>1. channel' \in Seq(Packets) /\ recv' = NoPkg
    BY <1>3, ChannelOfPackets DEF RecvSkips, RecvReturns, Delivers, RecvInLoop, Consumed, NoteIsHonest
  <2>2. ClearPkgMem /\ UNCHANGED mapped
    BY <1>3 DEF RecvSkips, RecvReturns
  <2>3. CASE mapped
    BY <1>3, <2>1, <2>2, <2>3
       DEF RecvSkips, RecvReturns, ClearPkgMem, NoteIsWhole, RecvInLoop, NoteIsHonest, SkippableHeads, mgrVars
  <2>4. CASE ~mapped
    <3>1. UNCHANGED <<suspects, shm_pkg_head_>> /\ torn' = torn
      BY <2>2, <2>4 DEF ClearPkgMem, NoteIsWhole, NoteIsHonest
    <3> QED BY <1>3, <2>1, <2>2, <2>4, <3>1 DEF RecvSkips, RecvReturns, RecvInLoop, NoteIsHonest, mgrVars
  <2> QED BY <2>3, <2>4
<1>4. CASE RecvBegins
  <2>1. /\ channel # <<>> /\ channel' = channel /\ recv' = channel[1] /\ recv' # NoPkg
        /\ phase' = "Loop" /\ pass' = NoPass
    BY <1>4, ChannelOfPackets, NoPkgAssumption
       DEF RecvBegins, Delivers, NoteIsHonest, RecvInLoop, mgrVars
  <2>2. RecvInLoop'
    BY <2>1 DEF RecvInLoop
  <2>3. CASE mapped
    BY <1>4, <2>1, <2>2, <2>3 DEF RecvBegins, NoteIsWhole, NoteIsHonest
  <2>4. CASE ~mapped
    <3>1. UNCHANGED <<suspects, shm_pkg_head_, mapped>> /\ torn' = torn
      BY <1>4, <2>4 DEF RecvBegins, NoteIsWhole, NoteIsHonest
    <3> QED BY <2>1, <2>2, <2>4, <3>1 DEF NoteIsHonest
  <2> QED BY <2>3, <2>4
<1>5. CASE \E i \in DOMAIN queued : LoopOnce(i)
  BY <1>5 DEF LoopOnce, RecvInLoop, NoteIsHonest, mgrVars, noteVars
<1> QED BY <1>1, <1>2, <1>3, <1>4, <1>5

\* The steps that end the process.
LEMMA DeathsKeep ==
  ASSUME LInv,
         \/ SystemInitFails \/ CustomInitFails \/ Exit \/ Killed \/ CrashInRecv
         \/ CrashInDecode \/ KilledNoting \/ KilledClearing
         \/ \E i \in DOMAIN queued : CrashInLoopOnce(i)
  PROVE  LInv'
<1>1. CASE SystemInitFails \/ Exit
  <2>1. pass # NoPass
    BY <1>1 DEF SystemInitFails, CallFails, Exit, PassEnds
  <2>2. recv = NoPkg
    BY <2>1 DEF LInv, RecvInLoop
  <2> QED BY <1>1, <2>2, DeathKeepsNote DEF SystemInitFails, Exit
<1>2. CASE CustomInitFails
  BY <1>2, DeathKeepsNote DEF CustomInitFails, LInv, RecvInLoop
<1>3. CASE Killed
  BY <1>3, DeathKeepsNote, DeathInRecvKeepsNote DEF Killed
<1>4. CASE CrashInRecv
  BY <1>4, DeathInRecvKeepsNote DEF CrashInRecv
<1>5. CASE \E i \in DOMAIN queued : CrashInLoopOnce(i)
  BY <1>5, DeathKeepsNote DEF CrashInLoopOnce, LInv, RecvInLoop
<1>6. CASE CrashInDecode
  BY <1>6, DeathKeepsNote DEF CrashInDecode, Delivers, DiesInRecv
<1>7. CASE KilledNoting \/ KilledClearing
  <2>1. channel # <<>>
    BY <1>7 DEF KilledNoting, KilledClearing, Delivers, LInv, RecvInLoop
  <2>2. TearsNote(HeadOf(channel[1])) \/ TearsNote(ZeroHead)
    BY <1>7 DEF KilledNoting, KilledClearing
  <2> QED BY <2>1, <2>2, TearKeepsNote
<1> QED BY <1>1, <1>2, <1>3, <1>4, <1>5, <1>6, <1>7

\* LInv is inductive.
LEMMA LStep == LInv /\ [Next]_vars => LInv'
<1> SUFFICES ASSUME LInv, [Next]_vars PROVE LInv'
  OBVIOUS
<1>1. CASE Next
  BY <1>1, LoopKeeps, PacketsKeep, DeathsKeep DEF Next, ProcessStep, RecvStep
<1>2. CASE UNCHANGED vars
  BY <1>2, PacketsAlone DEF vars, mgrVars, netVars, LInv, RecvInLoop
<1> QED BY <1>1, <1>2

\* LInv holds throughout.
LEMMA LAlways == Spec => []LInv
  BY LInit, LStep, PTL DEF Spec

\* OnRecv skips a packet only because a process has died with that packet, or
\* one with the same head, in hand, or because a kill in the middle of a note
\* has left a mixture of such heads (CheckPkgMem, pb_service.cpp:61).
THEOREM OnlySuspectsAreSkipped == Spec => SkipsOnlySuspects
<1>1. LInv => (RecvSkips => LET heads == suspects \cup {ZeroHead}
                            IN  HeadOf(channel[1]) \in IF torn THEN Blend(heads) ELSE heads)
  BY DEF LInv, NoteIsHonest, SkippableHeads, RecvSkips, Delivers, SamePkg
<1> QED BY <1>1, LAlways, PTL DEF Spec, SkipsOnlySuspects

------------------------------------------------------------------------------
\* The lists and the table of systems agree, and no list holds an id twice.
\* The lists hold the systems of the table, each in one place.
RegisteredOnce ==
  /\ systems_ \subseteq Systems
  /\ sys_index_vec_ \in [Priorities -> Seq(Systems)]
  /\ \A p \in Priorities : \A i \in DOMAIN sys_index_vec_[p] : sys_index_vec_[p][i] \in systems_
  /\ \A s \in systems_ : \E p \in Priorities : \E i \in DOMAIN sys_index_vec_[p] :
       sys_index_vec_[p][i] = s
  /\ \A p, q \in Priorities :
       \A i \in DOMAIN sys_index_vec_[p], j \in DOMAIN sys_index_vec_[q] :
         sys_index_vec_[p][i] = sys_index_vec_[q][j] => p = q /\ i = j

PassState == [op : {"OnInit", "OnTick", "OnProc", "OnFinish"}, priority : Priorities, index : Nat,
         called : Seq(Systems), stays : SUBSET Systems]

\* The pass has been at the i-th place of list p.
Passed(p, i) == p > pass.priority \/ (p = pass.priority /\ i <= pass.index)

WasCalled(s) == \E k \in DOMAIN pass.called : pass.called[k] = s

\* Of the systems that stay, the pass has called those it has passed, in order.
PassInOrder ==
  pass # NoPass =>
    /\ pass \in PassState /\ pass.stays \subseteq systems_
    /\ pass.index <= Len(sys_index_vec_[pass.priority])
    /\ \A p \in Priorities : \A i \in DOMAIN sys_index_vec_[p] :
         sys_index_vec_[p][i] \in pass.stays => (Passed(p, i) <=> WasCalled(sys_index_vec_[p][i]))
    /\ \A k, l \in DOMAIN pass.called :
         k < l /\ pass.called[k] \in pass.stays /\ pass.called[l] \in pass.stays =>
           pass.called[k] # pass.called[l] /\ ComesBefore(pass.called[k], pass.called[l])

\* SystemInit has initialised what it has passed, and afterwards everybody is
\* initialised or came too late.
InitComesFirst ==
  /\ pass # NoPass => phase = pass.op
  /\ phase \notin {"down", "OnInit"} => systems_ \subseteq inited \cup late
  /\ pass # NoPass /\ pass.op = "OnInit" =>
       \A p \in Priorities : \A i \in DOMAIN sys_index_vec_[p] :
         Passed(p, i) => sys_index_vec_[p][i] \in inited \cup late

SInv == LInv /\ RegisteredOnce /\ PassInOrder /\ InitComesFirst

\* What is left of a list when x is taken out of it.
KeepsOrder(list, new, x) ==
  /\ \A i \in DOMAIN new : new[i] # x /\ \E o \in DOMAIN list : list[o] = new[i]
  /\ \A i \in DOMAIN list : list[i] # x => \E n \in DOMAIN new : new[n] = list[i]
  /\ \A i, j \in DOMAIN new : \A a, b \in DOMAIN list :
       new[i] = list[a] /\ new[j] = list[b] /\ a < b => i < j
  /\ \A i, j \in DOMAIN new : new[i] = new[j] => i = j

\* Taking one place out of a list moves the places behind it.
LEMMA RemoveAtShifts ==
  ASSUME NEW S, NEW list \in Seq(S), NEW k \in DOMAIN list
  PROVE  /\ RemoveAt(list, k) \in Seq(S)
         /\ Len(RemoveAt(list, k)) = Len(list) - 1
         /\ \A i \in 1 .. (Len(list) - 1) :
              RemoveAt(list, k)[i] = IF i < k THEN list[i] ELSE list[i + 1]
<1> DEFINE front == SubSeq(list, 1, k - 1)
           back == SubSeq(list, k + 1, Len(list))
<1>1. k \in 1 .. Len(list) /\ Len(list) \in Nat
  OBVIOUS
<1>2. /\ front \in Seq(S) /\ Len(front) = k - 1
      /\ \A i \in 1 .. (k - 1) : front[i] = list[i]
  BY <1>1, SubSeqProperties
<1>3. /\ back \in Seq(S) /\ Len(back) = Len(list) - k
      /\ \A i \in 1 .. (Len(list) - k) : back[i] = list[k + i]
  BY <1>1, SubSeqProperties
<1> DEFINE both == front \o back
<1>4. RemoveAt(list, k) = both
  BY DEF RemoveAt
<1> HIDE DEF front, back
<1>5. /\ both \in Seq(S)
      /\ Len(both) = Len(list) - 1
      /\ \A i \in 1 .. (Len(list) - 1) :
           both[i] = IF i <= k - 1 THEN front[i] ELSE back[i - (k - 1)]
  <2>1. /\ both \in Seq(S) /\ Len(both) = Len(front) + Len(back)
        /\ \A i \in 1 .. (Len(front) + Len(back)) :
             both[i] = IF i <= Len(front) THEN front[i] ELSE back[i - Len(front)]
    BY <1>2, <1>3, ConcatProperties
  <2>2. Len(front) + Len(back) = Len(list) - 1 /\ Len(front) = k - 1
    BY <1>1, <1>2, <1>3
  <2> HIDE DEF both
  <2> QED BY <2>1, <2>2
<1> HIDE DEF both
<1>6. ASSUME NEW i \in 1 .. (Len(list) - 1)
      PROVE  both[i] = IF i < k THEN list[i] ELSE list[i + 1]
  <2>1. CASE i < k
    BY <1>1, <1>2, <1>5, <2>1
  <2>2. CASE i >= k
    <3>1. i - (k - 1) \in 1 .. (Len(list) - k) /\ k + (i - (k - 1)) = i + 1 /\ ~(i <= k - 1)
      BY <1>1, <2>2
    <3>2. back[i - (k - 1)] = list[i + 1]
      BY <1>3, <3>1
    <3> QED BY <1>1, <1>5, <2>2, <3>1, <3>2
  <2> QED BY <1>1, <2>1, <2>2
<1> QED BY <1>4, <1>5, <1>6

\* RemoveSystem takes an id out of a list and leaves the others in their order.
LEMMA RemoveFirstKeeps ==
  ASSUME NEW S, NEW list \in Seq(S), NEW x,
         \A i, j \in DOMAIN list : list[i] = list[j] => i = j
  PROVE  /\ RemoveFirst(list, x) \in Seq(S)
         /\ KeepsOrder(list, RemoveFirst(list, x), x)
         /\ ~Contains(list, x) => RemoveFirst(list, x) = list
<1> DEFINE new == RemoveFirst(list, x)
<1>1. DOMAIN list = 1 .. Len(list) /\ Len(list) \in Nat
  OBVIOUS
<1>2. CASE ~\E i \in 1 .. Len(list) : list[i] = x
  <2>1. new = list
    BY <1>2 DEF RemoveFirst
  <2> HIDE DEF new
  <2> QED BY <1>1, <1>2, <2>1 DEF KeepsOrder, new
<1>3. CASE \E i \in 1 .. Len(list) : list[i] = x
  <2> DEFINE hits == {i \in 1 .. Len(list) : list[i] = x}
  <2>1. PICK k \in 1 .. Len(list) : list[k] = x
    BY <1>3
  <2>2. hits = {k}
    BY <1>1, <2>1
  <2>3. Min({k}) = k
    BY <2>1 DEF Min
  <2>4. new = RemoveAt(list, k)
    BY <1>3, <2>2, <2>3 DEF RemoveFirst, SelectInSeq
  <2> HIDE DEF new, hits
  <2>5. k \in DOMAIN list
    BY <1>1, <2>1
  <2>6. /\ new \in Seq(S) /\ Len(new) = Len(list) - 1
        /\ \A i \in 1 .. (Len(list) - 1) : new[i] = IF i < k THEN list[i] ELSE list[i + 1]
    BY <2>4, <2>5, RemoveAtShifts
  <2>7. DOMAIN new = 1 .. (Len(list) - 1)
    BY <2>6
  <2> DEFINE O == [i \in DOMAIN new |-> IF i < k THEN i ELSE i + 1]
  <2>8. \A i \in DOMAIN new : O[i] \in DOMAIN list /\ O[i] # k /\ new[i] = list[O[i]]
    BY <1>1, <2>1, <2>6, <2>7
  <2>9. \A a \in DOMAIN list : a # k => \E i \in DOMAIN new : O[i] = a
    <3> SUFFICES ASSUME NEW a \in DOMAIN list, a # k PROVE \E i \in DOMAIN new : O[i] = a
      OBVIOUS
    <3>1. CASE a < k
      BY <1>1, <2>1, <2>7, <3>1
    <3>2. CASE a > k
      <4>1. a - 1 \in DOMAIN new /\ O[a - 1] = a
        BY <1>1, <2>1, <2>7, <3>2
      <4> QED BY <4>1
    <3> QED BY <1>1, <2>1, <3>1, <3>2
  <2>10. \A i, j \in DOMAIN new : (O[i] < O[j] => i < j) /\ (O[i] = O[j] => i = j)
    BY <1>1, <2>1, <2>7
  <2> HIDE DEF O
  <2>11. KeepsOrder(list, new, x)
    <3>1. \A i \in DOMAIN new : new[i] # x /\ \E o \in DOMAIN list : list[o] = new[i]
      BY <1>1, <2>1, <2>8
    <3>2. \A i \in DOMAIN list : list[i] # x => \E n \in DOMAIN new : new[n] = list[i]
      BY <2>1, <2>8, <2>9
    <3>3. \A i \in DOMAIN new : \A a \in DOMAIN list : new[i] = list[a] => O[i] = a
      BY <2>8
    <3>4. \A i, j \in DOMAIN new : \A a, b \in DOMAIN list :
            new[i] = list[a] /\ new[j] = list[b] /\ a < b => i < j
      BY <2>10, <3>3
    <3>5. \A i, j \in DOMAIN new : new[i] = new[j] => i = j
      BY <2>8, <2>10
    <3> QED BY <3>1, <3>2, <3>4, <3>5 DEF KeepsOrder
  <2>12. Contains(list, x)
    BY <1>3 DEF Contains
  <2> QED BY <2>6, <2>11, <2>12 DEF new
<1> QED BY <1>2, <1>3

\* RemoveSystem leaves the lists and the table in agreement.
LEMMA RemoveKeepsLists ==
  ASSUME RegisteredOnce, NEW s, RemoveSystem(s)
  PROVE  /\ RegisteredOnce'
         /\ \A p \in Priorities : KeepsOrder(sys_index_vec_[p], sys_index_vec_'[p], s)
         /\ \A p \in Priorities \ Stable : sys_index_vec_'[p] = sys_index_vec_[p]
<1> USE DEF RegisteredOnce
<1>1. ASSUME NEW p \in Priorities
      PROVE  /\ sys_index_vec_'[p] \in Seq(Systems)
             /\ KeepsOrder(sys_index_vec_[p], sys_index_vec_'[p], s)
             /\ ~Contains(sys_index_vec_[p], s) => sys_index_vec_'[p] = sys_index_vec_[p]
  <2>1. sys_index_vec_'[p] = RemoveFirst(sys_index_vec_[p], s)
    BY DEF RemoveSystem
  <2>2. /\ sys_index_vec_[p] \in Seq(Systems)
        /\ \A i, j \in DOMAIN sys_index_vec_[p] :
             sys_index_vec_[p][i] = sys_index_vec_[p][j] => i = j
    OBVIOUS
  <2> QED BY <2>1, <2>2, RemoveFirstKeeps
<1>2. systems_' = systems_ \ {s} /\ DOMAIN sys_index_vec_' = Priorities
  BY DEF RemoveSystem, Forgets
<1>3. sys_index_vec_' \in [Priorities -> Seq(Systems)]
  <2>1. sys_index_vec_' = [p \in Priorities |-> RemoveFirst(sys_index_vec_[p], s)]
    BY DEF RemoveSystem
  <2> QED BY <1>1, <2>1
<1>4. \A p \in Priorities : \A i \in DOMAIN sys_index_vec_'[p] : sys_index_vec_'[p][i] \in systems_'
  BY <1>1, <1>2 DEF KeepsOrder
<1>5. \A t \in systems_' : \E p \in Priorities : \E i \in DOMAIN sys_index_vec_'[p] :
        sys_index_vec_'[p][i] = t
  BY <1>1, <1>2 DEF KeepsOrder
<1>6. \A p, q \in Priorities :
        \A i \in DOMAIN sys_index_vec_'[p], j \in DOMAIN sys_index_vec_'[q] :
          sys_index_vec_'[p][i] = sys_index_vec_'[q][j] => p = q /\ i = j
  <2> SUFFICES ASSUME NEW p \in Priorities, NEW q \in Priorities,
                      NEW i \in DOMAIN sys_index_vec_'[p], NEW j \in DOMAIN sys_index_vec_'[q],
                      sys_index_vec_'[p][i] = sys_index_vec_'[q][j]
               PROVE  p = q /\ i = j
    OBVIOUS
  <2>1. PICK a \in DOMAIN sys_index_vec_[p] : sys_index_vec_[p][a] = sys_index_vec_'[p][i]
    BY <1>1 DEF KeepsOrder
  <2>2. PICK b \in DOMAIN sys_index_vec_[q] : sys_index_vec_[q][b] = sys_index_vec_'[q][j]
    BY <1>1 DEF KeepsOrder
  <2>3. p = q
    BY <2>1, <2>2
  <2> QED BY <1>1, <2>3 DEF KeepsOrder
<1>7. \A p \in Priorities \ Stable : sys_index_vec_'[p] = sys_index_vec_[p]
  BY <1>1 DEF RemoveSystem
<1> QED BY <1>1, <1>2, <1>3, <1>4, <1>5, <1>6, <1>7

\* AddSystem puts an id that is in no list behind the others of its priority.
LEMMA AddKeepsLists ==
  ASSUME RegisteredOnce, NEW s \in Systems, NEW p \in Priorities, NEW initialised,
         AddSystem(s, p, initialised)
  PROVE  /\ RegisteredOnce'
         /\ DOMAIN sys_index_vec_'[p] = 1 .. (Len(sys_index_vec_[p]) + 1)
         /\ DOMAIN sys_index_vec_[p] = 1 .. Len(sys_index_vec_[p])
         /\ Len(sys_index_vec_[p]) \in Nat
         /\ sys_index_vec_'[p][Len(sys_index_vec_[p]) + 1] = s
         /\ \A i \in DOMAIN sys_index_vec_[p] : sys_index_vec_'[p][i] = sys_index_vec_[p][i]
         /\ \A q \in Priorities : q # p => sys_index_vec_'[q] = sys_index_vec_[q]
<1> USE DEF RegisteredOnce
<1> DEFINE list == sys_index_vec_[p]
<1>1. /\ list \in Seq(Systems) /\ s \notin systems_ /\ systems_' = systems_ \cup {s}
      /\ sys_index_vec_' = [sys_index_vec_ EXCEPT ![p] = Append(list, s)]
  BY DEF AddSystem
<1>2. /\ Append(list, s) \in Seq(Systems)
      /\ DOMAIN Append(list, s) = 1 .. (Len(list) + 1)
      /\ DOMAIN list = 1 .. Len(list) /\ Len(list) \in Nat
      /\ Append(list, s)[Len(list) + 1] = s
      /\ \A i \in DOMAIN list : Append(list, s)[i] = list[i]
  BY <1>1, AppendProperties, LenProperties
<1>3. /\ sys_index_vec_'[p] = Append(list, s)
      /\ \A q \in Priorities : q # p => sys_index_vec_'[q] = sys_index_vec_[q]
  BY <1>1
<1>4. sys_index_vec_' \in [Priorities -> Seq(Systems)]
  BY <1>1, <1>2
<1>5. \A q \in Priorities : \A i \in DOMAIN sys_index_vec_'[q] :
        \/ i \in DOMAIN sys_index_vec_[q] /\ sys_index_vec_'[q][i] = sys_index_vec_[q][i]
        \/ q = p /\ i = Len(list) + 1 /\ sys_index_vec_'[q][i] = s
  <2>1. ASSUME NEW q \in Priorities, NEW i \in DOMAIN sys_index_vec_'[q], q # p
        PROVE  i \in DOMAIN sys_index_vec_[q] /\ sys_index_vec_'[q][i] = sys_index_vec_[q][i]
    BY <1>3, <2>1
  <2>2. ASSUME NEW i \in DOMAIN sys_index_vec_'[p], i # Len(list) + 1
        PROVE  i \in DOMAIN list /\ sys_index_vec_'[p][i] = list[i]
    BY <1>2, <1>3, <2>2
  <2> QED BY <1>2, <1>3, <2>1, <2>2
<1>6. \A q \in Priorities : \A i \in DOMAIN sys_index_vec_[q] :
        i \in DOMAIN sys_index_vec_'[q] /\ sys_index_vec_'[q][i] = sys_index_vec_[q][i]
  BY <1>2, <1>3
<1>7. Len(list) + 1 \in DOMAIN sys_index_vec_'[p] /\ sys_index_vec_'[p][Len(list) + 1] = s
  BY <1>2, <1>3
<1> HIDE DEF list
<1>8. RegisteredOnce'
  <2>1. \A q \in Priorities : \A i \in DOMAIN sys_index_vec_'[q] : sys_index_vec_'[q][i] \in systems_'
    BY <1>1, <1>5
  <2>2. \A t \in systems_' : \E q \in Priorities : \E i \in DOMAIN sys_index_vec_'[q] :
          sys_index_vec_'[q][i] = t
    <3>1. \A t \in systems_ : \E q \in Priorities : \E i \in DOMAIN sys_index_vec_[q] :
            sys_index_vec_[q][i] = t
      OBVIOUS
    <3>2. \A t \in systems_ : \E q \in Priorities : \E i \in DOMAIN sys_index_vec_'[q] :
            sys_index_vec_'[q][i] = t
      <4>1. TAKE t \in systems_
      <4>2. PICK q \in Priorities : \E i \in DOMAIN sys_index_vec_[q] : sys_index_vec_[q][i] = t
        BY <3>1
      <4>3. PICK i \in DOMAIN sys_index_vec_[q] : sys_index_vec_[q][i] = t
        BY <4>2
      <4> QED BY <1>6, <4>3
    <3>3. p \in Priorities /\ systems_' = systems_ \cup {s}
      BY <1>1
    <3> QED BY ONLY <1>7, <3>2, <3>3
  <2>3. \A a, q \in Priorities :
          \A i \in DOMAIN sys_index_vec_'[a], j \in DOMAIN sys_index_vec_'[q] :
            sys_index_vec_'[a][i] = sys_index_vec_'[q][j] => a = q /\ i = j
    BY <1>1, <1>5
  <2> QED BY <1>1, <1>4, <2>1, <2>2, <2>3
<1> QED BY <1>2, <1>3, <1>8 DEF list

\* What user code does to the lists keeps the account of the pass: of the systems
\* that stay, none changes its list, none changes its place in the list the pass
\* is iterating over, and any two keep their order.
LEMMA PassGoesOn ==
  ASSUME PassInOrder, pass # NoPass,
         pass' \in PassState, pass'.stays \subseteq pass.stays, pass'.stays \subseteq systems_',
         pass'.priority = pass.priority, pass'.index = pass.index, pass'.called = pass.called,
         sys_index_vec_'[pass.priority] = sys_index_vec_[pass.priority],
         \A p \in Priorities : \A i \in DOMAIN sys_index_vec_'[p] :
           sys_index_vec_'[p][i] \in pass'.stays =>
             \E o \in DOMAIN sys_index_vec_[p] :
               sys_index_vec_[p][o] = sys_index_vec_'[p][i] /\ (p = pass.priority => o = i),
         \A t, u \in pass'.stays : ComesBefore(t, u) => ComesBefore(t, u)'
  PROVE  PassInOrder'
<1> USE DEF PassInOrder
<1>1. \A p, i : Passed(p, i)' <=> Passed(p, i)
  BY DEF Passed
<1>2. \A t : WasCalled(t)' <=> WasCalled(t)
  BY DEF WasCalled
<1>3. ASSUME NEW p \in Priorities, NEW i \in DOMAIN sys_index_vec_'[p],
             sys_index_vec_'[p][i] \in pass'.stays
      PROVE  Passed(p, i) <=> WasCalled(sys_index_vec_'[p][i])
  <2>1. PICK o \in DOMAIN sys_index_vec_[p] :
          sys_index_vec_[p][o] = sys_index_vec_'[p][i] /\ (p = pass.priority => o = i)
    BY <1>3
  <2>2. Passed(p, o) <=> WasCalled(sys_index_vec_'[p][i])
    BY <1>3, <2>1
  <2> QED BY <2>1, <2>2 DEF Passed
<1>4. ASSUME NEW k \in DOMAIN pass.called, NEW l \in DOMAIN pass.called, k < l,
             pass.called[k] \in pass'.stays, pass.called[l] \in pass'.stays
      PROVE  pass.called[k] # pass.called[l] /\ ComesBefore(pass.called[k], pass.called[l])'
  BY <1>4
<1> QED BY <1>1, <1>2, <1>3, <1>4

\* Code of a system or of the server registers a system.
LEMMA AddKeeps ==
  ASSUME RegisteredOnce, PassInOrder, InitComesFirst,
         NEW s \in Systems, NEW p \in Priorities, AddSystem(s, p, phase # "OnInit"),
         UNCHANGED phase
  PROVE  RegisteredOnce' /\ PassInOrder' /\ InitComesFirst'
<1> DEFINE n == Len(sys_index_vec_[p]) + 1
<1>1. /\ RegisteredOnce'
      /\ DOMAIN sys_index_vec_'[p] = 1 .. n
      /\ DOMAIN sys_index_vec_[p] = 1 .. Len(sys_index_vec_[p])
      /\ Len(sys_index_vec_[p]) \in Nat
      /\ sys_index_vec_'[p][n] = s
      /\ \A i \in DOMAIN sys_index_vec_[p] : sys_index_vec_'[p][i] = sys_index_vec_[p][i]
      /\ \A q \in Priorities : q # p => sys_index_vec_'[q] = sys_index_vec_[q]
  BY AddKeepsLists
<1>2. /\ s \notin systems_ /\ p \in Stable /\ systems_' = systems_ \cup {s}
      /\ late' = IF MissesInit(p, phase # "OnInit") THEN late \cup {s} ELSE late
      /\ pass' = pass /\ inited' = inited
  BY DEF AddSystem
<1>3. \A q \in Priorities : \A i \in DOMAIN sys_index_vec_'[q] :
        \/ i \in DOMAIN sys_index_vec_[q] /\ sys_index_vec_'[q][i] = sys_index_vec_[q][i]
        \/ q = p /\ sys_index_vec_'[q][i] = s
  BY <1>1
<1>4. \A q \in Priorities : \A i \in DOMAIN sys_index_vec_[q] :
        i \in DOMAIN sys_index_vec_'[q] /\ sys_index_vec_'[q][i] = sys_index_vec_[q][i]
  BY <1>1
<1> HIDE DEF n
<1>5. PassInOrder'
  <2>1. CASE pass = NoPass
    BY <1>2, <2>1 DEF PassInOrder
  <2>2. CASE pass # NoPass
    <3>1. pass \in PassState /\ pass.stays \subseteq systems_ /\ p # pass.priority
      BY <1>2, <2>2 DEF PassInOrder, Stable
    <3>2. \A t, u \in pass.stays : ComesBefore(t, u) => ComesBefore(t, u)'
      BY <1>4 DEF ComesBefore
    <3>3. \A q \in Priorities : \A i \in DOMAIN sys_index_vec_'[q] :
            sys_index_vec_'[q][i] \in pass.stays =>
              \E o \in DOMAIN sys_index_vec_[q] :
                sys_index_vec_[q][o] = sys_index_vec_'[q][i] /\ (q = pass.priority => o = i)
      BY <1>2, <1>3, <3>1
    <3>4. pass.priority \in Priorities
      BY <3>1 DEF PassState
    <3> QED BY <1>1, <1>2, <2>2, <3>1, <3>2, <3>3, <3>4, PassGoesOn
  <2> QED BY <2>1, <2>2
<1>6. InitComesFirst'
  <2>1. pass' # NoPass => phase' = pass'.op
    BY <1>2 DEF InitComesFirst
  <2>2. phase' \notin {"down", "OnInit"} => systems_' \subseteq inited' \cup late'
    BY <1>2 DEF InitComesFirst, MissesInit
  <2>3. ASSUME pass # NoPass, pass.op = "OnInit",
               NEW q \in Priorities, NEW i \in DOMAIN sys_index_vec_'[q], Passed(q, i)
        PROVE  sys_index_vec_'[q][i] \in inited' \cup late'
    <3>1. CASE i \in DOMAIN sys_index_vec_[q] /\ sys_index_vec_'[q][i] = sys_index_vec_[q][i]
      BY <1>2, <2>3, <3>1 DEF InitComesFirst
    <3>2. CASE q = p /\ sys_index_vec_'[q][i] = s
      <4>1. p # pass.priority
        BY <1>2, <2>3 DEF Stable
      <4>2. MissesInit(p, phase # "OnInit")
        BY <2>3, <3>2, <4>1 DEF Passed, MissesInit
      <4> QED BY <1>2, <3>2, <4>2
    <3> QED BY <1>3, <3>1, <3>2
  <2>4. \A q, i : Passed(q, i)' <=> Passed(q, i)
    BY <1>2 DEF Passed
  <2> QED BY <1>2, <2>1, <2>2, <2>3, <2>4 DEF InitComesFirst
<1> QED BY <1>1, <1>5, <1>6

\* ... or removes one.
LEMMA RemoveKeeps ==
  ASSUME RegisteredOnce, PassInOrder, InitComesFirst,
         NEW s, RemoveSystem(s), UNCHANGED phase
  PROVE  RegisteredOnce' /\ PassInOrder' /\ InitComesFirst'
<1>1. /\ RegisteredOnce'
      /\ \A p \in Priorities : KeepsOrder(sys_index_vec_[p], sys_index_vec_'[p], s)
      /\ \A p \in Priorities \ Stable : sys_index_vec_'[p] = sys_index_vec_[p]
  BY RemoveKeepsLists
<1>2. /\ systems_' = systems_ \ {s} /\ inited' = inited \ {s} /\ late' = late \ {s}
      /\ pass' = IF pass = NoPass THEN NoPass ELSE [pass EXCEPT !.stays = @ \ {s}]
  BY DEF RemoveSystem, Forgets
<1>3. ASSUME pass # NoPass, pass \in PassState
      PROVE  /\ pass' \in PassState /\ pass'.stays = pass.stays \ {s} /\ pass'.op = pass.op
             /\ pass'.priority = pass.priority /\ pass'.index = pass.index
             /\ pass'.called = pass.called
             /\ sys_index_vec_'[pass.priority] = sys_index_vec_[pass.priority]
             /\ pass.priority \in Priorities
  BY <1>1, <1>2, <1>3 DEF PassState, Stable
<1>4. ASSUME pass # NoPass, pass \in PassState,
             NEW p \in Priorities, NEW i \in DOMAIN sys_index_vec_'[p]
      PROVE  /\ sys_index_vec_'[p][i] # s
             /\ \E o \in DOMAIN sys_index_vec_[p] :
                  sys_index_vec_[p][o] = sys_index_vec_'[p][i] /\ (p = pass.priority => o = i)
  BY <1>1, <1>3, <1>4 DEF KeepsOrder
<1>5. ASSUME NEW t, NEW u, t # s, u # s, ComesBefore(t, u)
      PROVE  ComesBefore(t, u)'
  <2> PICK p, q \in Priorities :
        \E i \in DOMAIN sys_index_vec_[p], j \in DOMAIN sys_index_vec_[q] :
          /\ sys_index_vec_[p][i] = t /\ sys_index_vec_[q][j] = u
          /\ p > q \/ (p = q /\ i < j)
    BY <1>5 DEF ComesBefore
  <2>1. PICK i \in DOMAIN sys_index_vec_[p], j \in DOMAIN sys_index_vec_[q] :
          /\ sys_index_vec_[p][i] = t /\ sys_index_vec_[q][j] = u
          /\ p > q \/ (p = q /\ i < j)
    OBVIOUS
  <2>2. PICK a \in DOMAIN sys_index_vec_'[p] : sys_index_vec_'[p][a] = t
    BY <1>1, <1>5, <2>1 DEF KeepsOrder
  <2>3. PICK b \in DOMAIN sys_index_vec_'[q] : sys_index_vec_'[q][b] = u
    BY <1>1, <1>5, <2>1 DEF KeepsOrder
  <2>4. p = q /\ i < j => a < b
    BY <1>1, <2>1, <2>2, <2>3 DEF KeepsOrder
  <2> QED BY <2>1, <2>2, <2>3, <2>4 DEF ComesBefore
<1>6. PassInOrder'
  <2>1. CASE pass = NoPass
    BY <1>2, <2>1 DEF PassInOrder
  <2>2. CASE pass # NoPass
    <3>1. pass \in PassState /\ pass.stays \subseteq systems_
      BY <2>2 DEF PassInOrder
    <3>2. /\ pass' \in PassState /\ pass'.stays = pass.stays \ {s}
          /\ pass'.stays \subseteq pass.stays /\ pass'.stays \subseteq systems_'
          /\ pass'.priority = pass.priority /\ pass'.index = pass.index
          /\ pass'.called = pass.called
          /\ sys_index_vec_'[pass.priority] = sys_index_vec_[pass.priority]
      BY <1>2, <1>3, <2>2, <3>1
    <3>3. \A t, u \in pass'.stays : ComesBefore(t, u) => ComesBefore(t, u)'
      BY <1>5, <3>2
    <3>4. \A p \in Priorities : \A i \in DOMAIN sys_index_vec_'[p] :
            sys_index_vec_'[p][i] \in pass'.stays =>
              \E o \in DOMAIN sys_index_vec_[p] :
                sys_index_vec_[p][o] = sys_index_vec_'[p][i] /\ (p = pass.priority => o = i)
      BY <1>4, <2>2, <3>1
    <3> QED BY <2>2, <3>2, <3>3, <3>4, PassGoesOn
  <2> QED BY <2>1, <2>2
<1>7. InitComesFirst'
  <2>1. phase' \notin {"down", "OnInit"} => systems_' \subseteq inited' \cup late'
    BY <1>2 DEF InitComesFirst
  <2>2. CASE pass = NoPass
    BY <1>2, <2>1, <2>2 DEF InitComesFirst
  <2>3. CASE pass # NoPass
    <3>1. pass \in PassState
      BY <2>3 DEF PassInOrder
    <3>2. ASSUME pass.op = "OnInit",
                 NEW p \in Priorities, NEW i \in DOMAIN sys_index_vec_'[p], Passed(p, i)'
          PROVE  sys_index_vec_'[p][i] \in inited' \cup late'
      <4>1. PICK o \in DOMAIN sys_index_vec_[p] :
              sys_index_vec_[p][o] = sys_index_vec_'[p][i] /\ (p = pass.priority => o = i)
        BY <1>4, <2>3, <3>1
      <4>2. Passed(p, o)
        BY <1>3, <2>3, <3>1, <3>2, <4>1 DEF Passed
      <4>3. sys_index_vec_[p][o] \in inited \cup late
        BY <2>3, <3>2, <4>2 DEF InitComesFirst
      <4>4. sys_index_vec_'[p][i] # s
        BY <1>4, <2>3, <3>1
      <4> QED BY <1>2, <4>1, <4>3, <4>4
    <3> QED BY <1>3, <2>1, <2>3, <3>1, <3>2 DEF InitComesFirst
  <2> QED BY <2>2, <2>3
<1> QED BY <1>1, <1>6, <1>7

\* A pass begins before the first place of the first list.
LEMMA EnterKeeps ==
  ASSUME LInv, RegisteredOnce, PassInOrder, InitComesFirst,
         OnInitReturns \/ SvrTick \/ SvrProc \/ SvrFinish
  PROVE  RegisteredOnce' /\ PassInOrder' /\ InitComesFirst'
<1>1. PICK op \in {"OnInit", "OnTick", "OnProc", "OnFinish"} :
        Enter(op) /\ (op = "OnInit" <=> phase = "OnInit") /\ phase # "down"
  BY DEF OnInitReturns, SvrTick, SvrProc, SvrFinish
<1>2. /\ pass' = [op |-> op, priority |-> 2, index |-> 0, called |-> <<>>, stays |-> systems_]
      /\ phase' = op
      /\ UNCHANGED <<systems_, sys_index_vec_, inited, late>>
  BY <1>1 DEF Enter, PassBegins
<1>3. RegisteredOnce'
  BY <1>2 DEF RegisteredOnce
<1>4. /\ pass' \in PassState /\ pass'.op = op /\ pass'.priority = 2 /\ pass'.index = 0
      /\ pass'.called = <<>> /\ pass'.stays = systems_
  BY <1>2 DEF PassState, Priorities, RegisteredOnce
<1>5. \A p \in Priorities : \A i \in DOMAIN sys_index_vec_[p] : ~Passed(p, i)'
  <2>1. \A p \in Priorities : sys_index_vec_[p] \in Seq(Systems)
    BY DEF RegisteredOnce
  <2>2. \A p \in Priorities : \A i \in DOMAIN sys_index_vec_[p] : i \in Nat /\ i > 0
    BY <2>1
  <2> QED BY <1>4, <2>2 DEF Passed, Priorities
<1>6. PassInOrder'
  <2>1. Len(sys_index_vec_[2]) \in Nat
    BY DEF RegisteredOnce, Priorities
  <2>2. \A t : ~WasCalled(t)'
    BY <1>4 DEF WasCalled
  <2> QED BY <1>2, <1>4, <1>5, <2>1, <2>2 DEF PassInOrder
<1>7. InitComesFirst'
  BY <1>1, <1>2, <1>4, <1>5 DEF InitComesFirst
<1> QED BY <1>3, <1>6, <1>7

\* The pass has been through a list and goes on with the next.
LEMMA NextPriorityKeeps ==
  ASSUME RegisteredOnce, PassInOrder, InitComesFirst, NextPriority, UNCHANGED phase
  PROVE  RegisteredOnce' /\ PassInOrder' /\ InitComesFirst'
<1>1. /\ pass # NoPass /\ pass \in PassState /\ pass.priority > 0
      /\ pass.priority \in Priorities /\ pass.index \in Nat
      /\ UNCHANGED <<systems_, sys_index_vec_, inited, late>>
  BY DEF NextPriority, PassInOrder, PassState
<1>2. /\ pass' \in PassState /\ pass'.op = pass.op
      /\ pass'.priority = pass.priority - 1 /\ pass'.index = 0
      /\ pass'.called = pass.called /\ pass'.stays = pass.stays
  <2>1. pass.priority - 1 \in Priorities /\ 0 \in Nat
    BY <1>1 DEF Priorities
  <2>2. pass' = [pass EXCEPT !.priority = pass.priority - 1, !.index = 0]
    BY DEF NextPriority
  <2> QED BY <1>1, <2>1, <2>2 DEF PassState
<1>3. \A p \in Priorities : sys_index_vec_[p] \in Seq(Systems)
  BY DEF RegisteredOnce
<1>4. pass.index = Len(sys_index_vec_[pass.priority])
  BY <1>1, <1>3 DEF NextPriority, HasNext, PassInOrder
<1>5. ASSUME NEW p \in Priorities, NEW i \in DOMAIN sys_index_vec_[p]
      PROVE  Passed(p, i)' <=> Passed(p, i)
  <2>1. i \in 1 .. Len(sys_index_vec_[p]) /\ p \in 0 .. 2 /\ pass.priority \in 0 .. 2
    BY <1>1, <1>3 DEF Priorities
  <2>2. Passed(p, i) <=> p >= pass.priority
    BY <1>4, <2>1 DEF Passed
  <2>3. Passed(p, i)' <=> p > pass.priority - 1
    BY <1>2, <2>1 DEF Passed
  <2> QED BY <2>1, <2>2, <2>3
<1>6. RegisteredOnce'
  BY <1>1 DEF RegisteredOnce
<1>7. PassInOrder'
  <2>1. \A t : WasCalled(t)' <=> WasCalled(t)
    BY <1>2 DEF WasCalled
  <2>2. \A t, u : ComesBefore(t, u)' <=> ComesBefore(t, u)
    BY <1>1 DEF ComesBefore
  <2>3. 0 <= Len(sys_index_vec_[pass.priority - 1])
    BY <1>1, <1>3 DEF Priorities
  <2> QED BY <1>1, <1>2, <1>5, <2>1, <2>2, <2>3 DEF PassInOrder
<1>8. InitComesFirst'
  BY <1>1, <1>2, <1>5 DEF InitComesFirst
<1> QED BY <1>6, <1>7, <1>8

\* The system at the place the pass has reached is called.  Those called before
\* come before it, because they are in places the pass has passed.
LEMMA CallKeeps ==
  ASSUME RegisteredOnce, PassInOrder, InitComesFirst, Call, UNCHANGED phase
  PROVE  RegisteredOnce' /\ PassInOrder' /\ InitComesFirst'
<1> DEFINE P == pass.priority
           n == pass.index + 1
           called == pass.called
<1>1. /\ pass # NoPass /\ pass \in PassState
      /\ P \in Priorities /\ pass.index \in Nat /\ called \in Seq(Systems)
      /\ UNCHANGED <<systems_, sys_index_vec_, late>>
  BY DEF Call, PassInOrder, PassState
<1>2. /\ sys_index_vec_[P] \in Seq(Systems)
      /\ n \in DOMAIN sys_index_vec_[P] /\ n <= Len(sys_index_vec_[P])
      /\ Current = sys_index_vec_[P][n]
      /\ Current \in systems_ /\ Current \in Systems
  <2>1. sys_index_vec_[P] \in Seq(Systems)
    BY <1>1 DEF RegisteredOnce
  <2>2. n \in 1 .. Len(sys_index_vec_[P])
    BY <1>1, <2>1 DEF Call, HasNext
  <2>3. n \in DOMAIN sys_index_vec_[P]
    BY <2>1, <2>2
  <2>4. sys_index_vec_[P][n] \in systems_
    BY <1>1, <2>3 DEF RegisteredOnce
  <2> QED BY <1>1, <2>1, <2>2, <2>3, <2>4 DEF Current, RegisteredOnce
<1>3. /\ pass' = [pass EXCEPT !.index = n, !.called = Append(called, Current)]
      /\ inited' = IF pass.op = "OnInit" THEN inited \cup {Current} ELSE inited
  BY <1>2 DEF Call
<1> HIDE DEF P, n, called
<1>4. /\ pass' \in PassState /\ pass'.op = pass.op
      /\ pass'.priority = P /\ pass'.index = n
      /\ pass'.called = Append(called, Current) /\ pass'.stays = pass.stays
  <2>1. Append(called, Current) \in Seq(Systems) /\ n \in Nat
    BY <1>1, <1>2, AppendProperties DEF n
  <2> QED BY <1>1, <1>3, <2>1 DEF PassState, P
<1>5. /\ DOMAIN called = 1 .. Len(called) /\ Len(called) \in Nat
      /\ DOMAIN pass'.called = 1 .. (Len(called) + 1)
      /\ \A k \in DOMAIN called : pass'.called[k] = called[k]
      /\ pass'.called[Len(called) + 1] = Current
  BY <1>1, <1>2, <1>4, AppendProperties, LenProperties
<1>6. ASSUME NEW p \in Priorities, NEW i \in DOMAIN sys_index_vec_[p]
      PROVE  Passed(p, i)' <=> Passed(p, i) \/ (p = P /\ i = n)
  <2>1. i \in Nat
    BY <1>6 DEF RegisteredOnce
  <2> QED BY <1>1, <1>4, <2>1 DEF Passed, P, n
<1>7. \A t : WasCalled(t)' <=> WasCalled(t) \/ t = Current
  BY <1>5 DEF WasCalled, called
<1>8. RegisteredOnce'
  BY <1>1 DEF RegisteredOnce
<1>9. ~Passed(P, n)
  BY <1>1 DEF Passed, Priorities, P, n
<1>10. \A p \in Priorities : \A i \in DOMAIN sys_index_vec_[p] :
         sys_index_vec_[p][i] = Current => p = P /\ i = n
  BY <1>1, <1>2 DEF RegisteredOnce
<1>11. ASSUME NEW t, t \in pass.stays, WasCalled(t)
       PROVE  t # Current /\ ComesBefore(t, Current)
  <2>1. t \in systems_
    BY <1>1, <1>11 DEF PassInOrder
  <2>2. PICK p \in Priorities : \E i \in DOMAIN sys_index_vec_[p] : sys_index_vec_[p][i] = t
    BY <2>1 DEF RegisteredOnce
  <2>3. PICK i \in DOMAIN sys_index_vec_[p] : sys_index_vec_[p][i] = t
    BY <2>2
  <2>4. Passed(p, i)
    BY <1>1, <1>11, <2>3 DEF PassInOrder
  <2>5. t # Current
    BY <1>9, <1>10, <2>3, <2>4
  <2>6. p > P \/ (p = P /\ i < n)
    <3>1. i \in Nat
      BY DEF RegisteredOnce
    <3> QED BY <1>1, <2>4, <3>1 DEF Passed, P, n
  <2> QED BY <1>1, <1>2, <2>3, <2>5, <2>6 DEF ComesBefore
<1>12. PassInOrder'
  <2>1. \A p \in Priorities : \A i \in DOMAIN sys_index_vec_[p] :
          sys_index_vec_[p][i] \in pass.stays =>
            (Passed(p, i)' <=> WasCalled(sys_index_vec_[p][i])')
    <3> SUFFICES ASSUME NEW p \in Priorities, NEW i \in DOMAIN sys_index_vec_[p],
                        sys_index_vec_[p][i] \in pass.stays
                 PROVE  Passed(p, i)' <=> WasCalled(sys_index_vec_[p][i])'
      OBVIOUS
    <3>1. Passed(p, i) <=> WasCalled(sys_index_vec_[p][i])
      BY <1>1 DEF PassInOrder
    <3>2. p = P /\ i = n <=> sys_index_vec_[p][i] = Current
      BY <1>2, <1>10
    <3>3. WasCalled(sys_index_vec_[p][i])'
            <=> WasCalled(sys_index_vec_[p][i]) \/ sys_index_vec_[p][i] = Current
      BY <1>1, <1>7
    <3> QED BY <1>6, <3>1, <3>2, <3>3
  <2>2. ASSUME NEW k \in DOMAIN pass'.called, NEW l \in DOMAIN pass'.called, k < l,
               pass'.called[k] \in pass.stays, pass'.called[l] \in pass.stays
        PROVE  pass'.called[k] # pass'.called[l] /\ ComesBefore(pass'.called[k], pass'.called[l])
    <3>1. k \in DOMAIN called /\ pass'.called[k] = called[k]
      BY <1>5, <2>2
    <3>2. CASE l \in DOMAIN called
      BY <1>1, <1>5, <2>2, <3>1, <3>2 DEF PassInOrder, called
    <3>3. CASE l \notin DOMAIN called
      <4>1. pass'.called[l] = Current
        BY <1>5, <3>3
      <4>2. WasCalled(called[k])
        BY <3>1 DEF WasCalled, called
      <4> QED BY <1>11, <2>2, <3>1, <4>1, <4>2
    <3> QED BY <3>2, <3>3
  <2>3. \A t, u : ComesBefore(t, u)' <=> ComesBefore(t, u)
    BY <1>1 DEF ComesBefore
  <2>4. pass.stays \subseteq systems_
    BY <1>1 DEF PassInOrder
  <2> QED BY <1>1, <1>2, <1>4, <2>1, <2>2, <2>3, <2>4 DEF PassInOrder
<1>13. InitComesFirst'
  <2>1. ASSUME pass.op = "OnInit",
               NEW p \in Priorities, NEW i \in DOMAIN sys_index_vec_[p], Passed(p, i)'
        PROVE  sys_index_vec_[p][i] \in inited' \cup late
    BY <1>1, <1>2, <1>3, <1>6, <2>1 DEF InitComesFirst
  <2> QED BY <1>1, <1>3, <1>4, <2>1 DEF InitComesFirst
<1> QED BY <1>8, <1>12, <1>13

\* At the end of a pass every place has been passed.
LEMMA EndPassedAll ==
  ASSUME RegisteredOnce, PassInOrder, PassEnds,
         NEW p \in Priorities, NEW i \in DOMAIN sys_index_vec_[p]
  PROVE  Passed(p, i)
<1>1. /\ pass # NoPass /\ pass.priority = 0
      /\ pass.index \in Nat /\ ~(pass.index < Len(sys_index_vec_[0]))
  BY DEF PassEnds, HasNext, PassInOrder, PassState
<1>2. i \in 1 .. Len(sys_index_vec_[p]) /\ p \in 0 .. 2 /\ Len(sys_index_vec_[p]) \in Nat
  BY DEF RegisteredOnce, Priorities
<1> QED BY <1>1, <1>2 DEF Passed

\* A pass returns: after SystemInit everybody is initialised, or came too late.
LEMMA PassReturnsKeeps ==
  ASSUME RegisteredOnce, PassInOrder, InitComesFirst, PassReturns
  PROVE  RegisteredOnce' /\ PassInOrder' /\ InitComesFirst'
<1>1. /\ PassEnds /\ pass # NoPass /\ pass' = NoPass
      /\ UNCHANGED <<systems_, sys_index_vec_, inited, late>>
  BY DEF PassReturns, PassEnds
<1>2. systems_ \subseteq inited \cup late
  <2>1. pass \in PassState /\ phase = pass.op
    BY <1>1 DEF PassInOrder, InitComesFirst
  <2>2. CASE pass.op = "OnInit"
    <3>1. ASSUME NEW t \in systems_ PROVE t \in inited \cup late
      <4>1. PICK p \in Priorities : \E i \in DOMAIN sys_index_vec_[p] : sys_index_vec_[p][i] = t
        BY DEF RegisteredOnce
      <4>2. PICK i \in DOMAIN sys_index_vec_[p] : sys_index_vec_[p][i] = t
        BY <4>1
      <4>3. Passed(p, i)
        BY <1>1, EndPassedAll
      <4> QED BY <1>1, <2>2, <4>2, <4>3 DEF InitComesFirst
    <3> QED BY <3>1
  <2>3. CASE pass.op # "OnInit"
    BY <2>1, <2>3 DEF InitComesFirst, PassState
  <2> QED BY <2>2, <2>3
<1> QED BY <1>1, <1>2 DEF RegisteredOnce, PassInOrder, InitComesFirst

\* No system outlives its process.
LEMMA DeathEndsPass ==
  ASSUME Dies
  PROVE  RegisteredOnce' /\ PassInOrder' /\ InitComesFirst'
<1>1. /\ systems_' = {} /\ pass' = NoPass /\ phase' = "down"
      /\ sys_index_vec_' = [p \in Priorities |-> <<>>]
  BY DEF Dies
<1>2. \A p \in Priorities : sys_index_vec_'[p] = <<>>
  BY <1>1
<1>3. <<>> \in Seq(Systems)
  OBVIOUS
<1>4. sys_index_vec_' \in [Priorities -> Seq(Systems)]
  BY <1>1, <1>3
<1>5. RegisteredOnce'
  BY <1>1, <1>2, <1>4 DEF RegisteredOnce
<1> QED BY <1>1, <1>5 DEF PassInOrder, InitComesFirst

\* A step that leaves the systems alone keeps the account of the pass, unless it
\* takes the process out of its initialisation.
LEMMA SystemsAlone ==
  ASSUME RegisteredOnce, PassInOrder, InitComesFirst, UNCHANGED mgrVars,
         \/ UNCHANGED phase
         \/ pass = NoPass /\ phase' = "OnInit"
         \/ pass = NoPass /\ phase \notin {"down", "OnInit"}
  PROVE  RegisteredOnce' /\ PassInOrder' /\ InitComesFirst'
<1>1. UNCHANGED <<systems_, sys_index_vec_, pass, inited, late>>
  BY DEF mgrVars
<1>2. RegisteredOnce'
  BY <1>1 DEF RegisteredOnce
<1>3. PassInOrder'
  <2>1. \A p, i : Passed(p, i)' <=> Passed(p, i)
    BY <1>1 DEF Passed
  <2>2. \A t : WasCalled(t)' <=> WasCalled(t)
    BY <1>1 DEF WasCalled
  <2>3. \A t, u : ComesBefore(t, u)' <=> ComesBefore(t, u)
    BY <1>1 DEF ComesBefore
  <2> QED BY <1>1, <2>1, <2>2, <2>3 DEF PassInOrder
<1>4. InitComesFirst'
  <2>1. \A p, i : Passed(p, i)' <=> Passed(p, i)
    BY <1>1 DEF Passed
  <2> QED BY <1>1, <2>1 DEF InitComesFirst
<1> QED BY <1>2, <1>3, <1>4

\* Before the first process there is nobody to call.
LEMMA SInit == Init => SInv
<1> SUFFICES ASSUME Init PROVE SInv
  OBVIOUS
<1>1. /\ systems_ = {} /\ pass = NoPass /\ phase = "down"
      /\ sys_index_vec_ = [p \in Priorities |-> <<>>]
  BY DEF Init, MgrInit
<1>2. \A p \in Priorities : sys_index_vec_[p] = <<>>
  BY <1>1
<1>3. <<>> \in Seq(Systems)
  OBVIOUS
<1>4. sys_index_vec_ \in [Priorities -> Seq(Systems)]
  BY <1>1, <1>3
<1>5. RegisteredOnce
  BY <1>1, <1>2, <1>4 DEF RegisteredOnce
<1> QED BY <1>1, <1>5, LInit DEF SInv, PassInOrder, InitComesFirst

\* SInv is inductive.
LEMMA SStep == SInv /\ [Next]_vars => SInv'
<1> SUFFICES ASSUME SInv, [Next]_vars PROVE RegisteredOnce' /\ PassInOrder' /\ InitComesFirst'
  BY LStep DEF SInv
<1> USE DEF SInv
<1>1. CASE UNCHANGED vars
  BY <1>1, SystemsAlone DEF vars
<1>2. CASE Start \/ LoopOnceReturns \/ LoopReturns
  <2>1. pass = NoPass
    BY <1>2 DEF Start, LoopOnceReturns, LoopReturns, LInv, RecvInLoop
  <2>2. UNCHANGED mgrVars
    BY <1>2 DEF Start, LoopOnceReturns, LoopReturns
  <2>3. phase' = "OnInit" \/ phase \notin {"down", "OnInit"}
    BY <1>2 DEF Start, LoopOnceReturns, LoopReturns
  <2> QED BY <2>1, <2>2, <2>3, SystemsAlone
<1>3. CASE \/ \E p \in Packets : Arrive(p)
           \/ RecvUndecodable \/ RecvSkips \/ RecvBegins \/ RecvReturns
           \/ \E i \in DOMAIN queued : LoopOnce(i)
  <2>1. UNCHANGED <<mgrVars, phase>>
    BY <1>3 DEF Arrive, RecvUndecodable, RecvSkips, RecvBegins, RecvReturns, LoopOnce
  <2> QED BY <2>1, SystemsAlone
<1>4. CASE OnInitReturns \/ SvrTick \/ SvrProc \/ SvrFinish
  BY <1>4, EnterKeeps
<1>5. CASE PassStep
  BY <1>5, NextPriorityKeeps, CallKeeps DEF PassStep
<1>6. CASE PassReturns
  BY <1>6, PassReturnsKeeps
<1>7. CASE UserCode
  <2>1. PICK s \in Systems :
          RemoveSystem(s) \/ \E p \in Priorities : AddSystem(s, p, phase # "OnInit")
    BY <1>7 DEF UserCode
  <2>2. UNCHANGED phase
    BY <1>7 DEF UserCode
  <2>3. CASE RemoveSystem(s)
    BY <2>2, <2>3, RemoveKeeps
  <2>4. CASE \E p \in Priorities : AddSystem(s, p, phase # "OnInit")
    BY <2>2, <2>4, AddKeeps
  <2> QED BY <2>1, <2>3, <2>4
<1>8. CASE \/ SystemInitFails \/ CustomInitFails \/ Exit \/ Killed \/ CrashInRecv
           \/ CrashInDecode \/ KilledNoting \/ KilledClearing
           \/ \E i \in DOMAIN queued : CrashInLoopOnce(i)
  <2>1. Dies
    BY <1>8 DEF SystemInitFails, CustomInitFails, Exit, Killed, CrashInRecv, CrashInDecode,
                KilledNoting, KilledClearing, TearsNote, DiesWithNote, DiesInRecv, CrashInLoopOnce
  <2> QED BY <2>1, DeathEndsPass
<1>9. CASE Next
  BY <1>2, <1>3, <1>4, <1>5, <1>6, <1>7, <1>8, <1>9 DEF Next, ProcessStep, RecvStep
<1> QED BY <1>1, <1>9

\* SInv holds throughout.
LEMMA SAlways == Spec => []SInv
  BY SInit, SStep, PTL DEF Spec

\* Whenever SystemInit, SystemTick, SystemProc or SystemFinish returns
\* (system_mgr.cpp), it has called every system registered throughout, once, by
\* priority and in the order of registration, whatever the systems it called did
\* to the other lists.
THEOREM PassesCallEverybodyOnce == Spec => []PassesAreComplete
<1>1. SInv => PassesAreComplete
  <2> SUFFICES ASSUME SInv, PassEnds PROVE PassIsComplete
    BY DEF PassesAreComplete
  <2> USE DEF SInv
  <2>1. pass # NoPass /\ pass.stays \subseteq systems_
    BY DEF PassEnds, PassInOrder
  <2>2. ASSUME NEW s \in pass.stays PROVE WasCalled(s)
    <3>1. PICK p \in Priorities : \E i \in DOMAIN sys_index_vec_[p] : sys_index_vec_[p][i] = s
      BY <2>1 DEF RegisteredOnce
    <3>2. PICK i \in DOMAIN sys_index_vec_[p] : sys_index_vec_[p][i] = s
      BY <3>1
    <3>3. Passed(p, i)
      BY EndPassedAll
    <3> QED BY <2>1, <3>2, <3>3 DEF PassInOrder
  <2> QED BY <2>1, <2>2 DEF PassIsComplete, PassInOrder, WasCalled
<1> QED BY <1>1, SAlways, PTL

\* No system ticks, works or finishes without having been initialised, unless it
\* was registered after SystemInit had passed its place (SystemInit comes before
\* the first SystemTick in SvrInit, server_core.cpp).
THEOREM NobodyRunsUninitialised == Spec => []InitialisedFirst
<1>1. SInv => InitialisedFirst
  BY DEF SInv, PassInOrder, PassState, InitComesFirst, InitialisedFirst, CalledAreInitialised
<1> QED BY <1>1, SAlways, PTL
=============================================================================
