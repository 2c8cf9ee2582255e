-------------------------- MODULE RingBufferProofs --------------------------
(* Proofs about RingBuffer, for every ring size and every file. *)
EXTENDS RingBuffer, SequenceTheorems, FiniteSetTheorems, TLAPS

\* Indices of the ring are reduced at most once: they stay below twice its size.
LEMMA ModWrap ==
  ASSUME NEW x \in 0 .. 2 * MAX_BLOCKS_QUEUED - 1
  PROVE  x % MAX_BLOCKS_QUEUED =
           IF x < MAX_BLOCKS_QUEUED THEN x ELSE x - MAX_BLOCKS_QUEUED
<1>1. CASE x < MAX_BLOCKS_QUEUED
  BY <1>1, RingAssumption
<1>2. CASE x >= MAX_BLOCKS_QUEUED
  BY <1>2, RingAssumption
<1>3. QED BY <1>1, <1>2, RingAssumption

LEMMA InitRingInv == Init => RingInv
<1> SUFFICES ASSUME Init PROVE RingInv
  OBVIOUS
<1> USE RingAssumption DEF Init, Slots, Garbage
<1>1. 0 \in Slots
  BY DEF RingAssumption
<1>2. RingTypeOK
  BY <1>1 DEF RingTypeOK, RingAssumption
<1>3. NetTypeOK
  BY <1>1 DEF NetTypeOK, NetState, RingAssumption
<1>4. DiskTypeOK
  BY <1>1 DEF DiskTypeOK, DiskState
<1>5. QED
  BY <1>2, <1>3, <1>4 DEF RingInv, TypeOK, FlagsMatchCounts, NoLostWakeup, LoopNeverBlocks, NextSurvivesWait,
                             NetHoldsSlot, DiskHoldsSlot, DataIsWritten

\* The slot after slot (base + k) % N is the slot of offset k + 1.
LEMMA AdvanceSlot ==
  ASSUME NEW b \in Slots, NEW k \in 0 .. MAX_BLOCKS_QUEUED - 1
  PROVE  /\ (b + k) % MAX_BLOCKS_QUEUED \in Slots
         /\ Advance((b + k) % MAX_BLOCKS_QUEUED) = (b + k + 1) % MAX_BLOCKS_QUEUED
         /\ Advance(b) \in Slots
         /\ (Advance(b) + k) % MAX_BLOCKS_QUEUED = (b + k + 1) % MAX_BLOCKS_QUEUED
<1> DEFINE N == MAX_BLOCKS_QUEUED
<1> USE RingAssumption DEF Slots
<1>0. N \in Nat \ {0}
  BY DEF RingAssumption
<1>1. (b + k) % N = IF b + k < N THEN b + k ELSE b + k - N
  BY <1>0, ModWrap
<1>2. (b + k + 1) % N = IF b + k + 1 < N THEN b + k + 1 ELSE b + k + 1 - N
  BY <1>0, ModWrap
<1>3. Advance(b) = IF b + 1 < N THEN b + 1 ELSE b + 1 - N
  BY <1>0, ModWrap DEF Advance
<1>4. (b + k) % N \in Slots
  BY <1>0, <1>1
<1>5. Advance((b + k) % N) =
        IF ((b + k) % N) + 1 < N THEN ((b + k) % N) + 1 ELSE ((b + k) % N) + 1 - N
  BY <1>0, <1>4, ModWrap DEF Advance
<1>6. Advance(b) \in Slots
  BY <1>0, <1>3
<1>7. (Advance(b) + k) % N = IF Advance(b) + k < N THEN Advance(b) + k ELSE Advance(b) + k - N
  BY <1>0, <1>6, ModWrap
<1>8. Advance((b + k) % N) = (b + k + 1) % N
  BY <1>0, <1>1, <1>2, <1>4, <1>5
<1>9. (Advance(b) + k) % N = (b + k + 1) % N
  BY <1>0, <1>2, <1>3, <1>6, <1>7
<1>10. QED
  BY <1>4, <1>6, <1>8, <1>9

\* Offsets below the size of the ring name different slots, and the slot after
\* offset k is the oldest one just when the ring holds k + 1 slots.
LEMMA SlotsDiffer ==
  ASSUME NEW b \in Slots, NEW k \in 0 .. MAX_BLOCKS_QUEUED - 1
  PROVE  /\ \A i \in 0 .. MAX_BLOCKS_QUEUED - 1 :
              (b + i) % MAX_BLOCKS_QUEUED = (b + k) % MAX_BLOCKS_QUEUED => i = k
         /\ b % MAX_BLOCKS_QUEUED = b
         /\ Advance((b + k) % MAX_BLOCKS_QUEUED) = b <=> k = MAX_BLOCKS_QUEUED - 1
<1> DEFINE N == MAX_BLOCKS_QUEUED
<1> USE RingAssumption DEF Slots
<1>0. N \in Nat \ {0}
  BY DEF RingAssumption
<1>1. (b + k) % N = IF b + k < N THEN b + k ELSE b + k - N
  BY <1>0, ModWrap
<1>2. ASSUME NEW i \in 0 .. N - 1, (b + i) % N = (b + k) % N
      PROVE  i = k
  <2>1. (b + i) % N = IF b + i < N THEN b + i ELSE b + i - N
    BY <1>0, ModWrap
  <2>2. QED BY <1>0, <1>1, <1>2, <2>1
<1>3. b % N = b
  BY <1>0, ModWrap
<1>4. (b + k + 1) % N = IF b + k + 1 < N THEN b + k + 1 ELSE b + k + 1 - N
  BY <1>0, ModWrap
<1>5. Advance((b + k) % N) = (b + k + 1) % N
  BY <1>0, AdvanceSlot
<1>6. Advance((b + k) % N) = b <=> k = N - 1
  BY <1>0, <1>4, <1>5
<1>7. QED
  BY <1>2, <1>3, <1>6

\* An action that touches neither the ring nor the slots leaves what they hold.
LEMMA RingUntouched ==
  ASSUME RingInv, UNCHANGED <<ringVars, datagrams>>
  PROVE  FlagsMatchCounts' /\ DataIsWritten'
BY DEF RingInv, ringVars, FlagsMatchCounts, DataIsWritten

\* Both ways of taking a slot: s is the first free slot of a ring with room.
LEMMA TakeSlotKeepsInv ==
  ASSUME RingInv, ~ring_full, count_reserved = 0,
         NEW s \in Slots, s = FirstFreeSlot, TakeSlot(s),
         next' \in Slots,
         UNCHANGED <<env, datagrams, this_block, received, blocks_left, loop, diskVars>>
  PROVE  RingInv'
<1> USE RingAssumption
<1>0. MAX_BLOCKS_QUEUED \in Nat \ {0}
  BY DEF RingAssumption
<1>1. /\ base_data \in Slots /\ count_data \in 0 .. MAX_BLOCKS_QUEUED - 1
      /\ s = (base_data + count_data) % MAX_BLOCKS_QUEUED
  BY <1>0 DEF RingInv, TypeOK, RingTypeOK, FlagsMatchCounts, ring_full, FirstFreeSlot, Slots
<1>2. count_reserved' = 1 /\ netPc' = "copy" /\ datagram' = s
  BY DEF TakeSlot
<1>3. FillsRing(s) <=> count_data = MAX_BLOCKS_QUEUED - 1
  BY <1>1, SlotsDiffer DEF FillsRing
<1>4. UNCHANGED <<base_data, count_data, data_ready, asleep, datagrams>>
  BY DEF TakeSlot
<1>5. space_ready' = IF count_data = MAX_BLOCKS_QUEUED - 1 THEN 0 ELSE space_ready
  BY <1>3 DEF TakeSlot
<1>6. space_ready = 1
  BY DEF ring_full, RingInv, TypeOK, RingTypeOK
<1>7. TypeOK'
  <2>1. RingTypeOK'
    BY <1>2, <1>4, <1>5 DEF RingInv, TypeOK, RingTypeOK
  <2>2. NetTypeOK'
    BY <1>2 DEF RingInv, TypeOK, NetTypeOK, NetState
  <2>3. DiskTypeOK'
    BY DEF RingInv, TypeOK, DiskTypeOK, diskVars
  <2>4. QED BY <2>1, <2>2, <2>3 DEF TypeOK
<1>8. FlagsMatchCounts'
  BY <1>0, <1>1, <1>2, <1>4, <1>5, <1>6 DEF RingInv, FlagsMatchCounts
<1>9. NoLostWakeup'
  BY <1>4, <1>6 DEF RingInv, NoLostWakeup, diskVars
<1>10. LoopNeverBlocks' /\ NextSurvivesWait'
  BY <1>2 DEF LoopNeverBlocks, NextSurvivesWait
<1>11. NetHoldsSlot'
  BY <1>1, <1>2, <1>4 DEF NetHoldsSlot
<1>12. DiskHoldsSlot' /\ DataIsWritten'
  BY <1>4 DEF RingInv, DiskHoldsSlot, DataIsWritten, diskVars
<1>13. QED
  BY <1>7, <1>8, <1>9, <1>10, <1>11, <1>12 DEF RingInv

\* Both ways of going to sleep in ring_reserve, which in the client only the stop block does.
LEMMA WaitForSpaceKeepsInv ==
  ASSUME RingInv, ring_full, env.program = "client" => stopping, count_reserved = 0, WaitForSpace,
         next' \in Slots, next' = FirstFreeSlot,
         UNCHANGED <<env, datagrams, this_block, received, blocks_left, loop, diskVars>>
  PROVE  RingInv'
<1> USE DEF WaitForSpace, ringVars, diskVars
<1>1. TypeOK'
  BY DEF RingInv, TypeOK, RingTypeOK, NetTypeOK, DiskTypeOK, NetState
<1>2. FlagsMatchCounts' /\ DataIsWritten'
  BY RingUntouched
<1>3. NoLostWakeup'
  BY DEF RingInv, NoLostWakeup, ring_full
<1>4. LoopNeverBlocks' /\ NextSurvivesWait'
  BY DEF LoopNeverBlocks, NextSurvivesWait, stopping, FirstFreeSlot
<1>5. NetHoldsSlot' /\ DiskHoldsSlot'
  BY DEF RingInv, NetHoldsSlot, DiskHoldsSlot
<1>6. QED
  BY <1>1, <1>2, <1>3, <1>4, <1>5 DEF RingInv

LEMMA StepRingInv == RingInv /\ [Next]_vars => RingInv'
<1> SUFFICES ASSUME RingInv, [Next]_vars PROVE RingInv'
  OBVIOUS
<1> USE RingAssumption
<1>0. MAX_BLOCKS_QUEUED \in Nat \ {0} /\ BLOCK_COUNT \in Nat
  BY DEF RingAssumption
<1>1. CASE Receive
  <2> USE <1>1 DEF Receive, ringVars, diskVars
  <2>1. this_block' \in 0 .. BLOCK_COUNT
    BY <1>0 DEF RingInv, TypeOK, NetTypeOK, SentBlock
  <2>2. TypeOK'
    BY <2>1 DEF RingInv, TypeOK, RingTypeOK, NetTypeOK, DiskTypeOK, NetState
  <2>3. FlagsMatchCounts' /\ DataIsWritten'
    BY RingUntouched
  <2>4. NoLostWakeup' /\ NextSurvivesWait'
    BY DEF RingInv, NoLostWakeup, NextSurvivesWait
  <2>5. LoopNeverBlocks'
    BY DEF RingInv, TypeOK, RingTypeOK, LoopNeverBlocks, Wanted, DropsDatagram, ring_full, stopping
  <2>6. NetHoldsSlot' /\ DiskHoldsSlot'
    BY DEF RingInv, NetHoldsSlot, DiskHoldsSlot
  <2>7. QED
    BY <2>2, <2>3, <2>4, <2>5, <2>6 DEF RingInv
<1>2. CASE ring_reserve
  <2> USE <1>2 DEF ring_reserve
  <2>1. FirstFreeSlot \in Slots /\ count_reserved = 0
    BY <1>0, ModWrap DEF RingInv, TypeOK, RingTypeOK, NetHoldsSlot, FlagsMatchCounts, FirstFreeSlot, Slots
  <2>2. CASE ring_full
    <3>1. env.program = "client" => stopping
      BY <2>2 DEF RingInv, LoopNeverBlocks, ring_full
    <3>2. QED
      BY <2>1, <2>2, <3>1, WaitForSpaceKeepsInv
  <2>3. CASE ~ring_full
    BY <2>1, <2>3, TakeSlotKeepsInv
  <2>4. QED
    BY <2>2, <2>3
<1>3. CASE ring_reserve_wakes
  <2> USE <1>3 DEF ring_reserve_wakes
  <2>1. /\ next \in Slots /\ next = FirstFreeSlot /\ count_reserved = 0
        /\ env.program = "client" => stopping
    BY DEF RingInv, TypeOK, NetTypeOK, NextSurvivesWait, LoopNeverBlocks
  <2>2. CASE ring_full
    BY <2>1, <2>2, WaitForSpaceKeepsInv
  <2>3. CASE ~ring_full
    BY <2>1, <2>3, TakeSlotKeepsInv
  <2>4. QED
    BY <2>2, <2>3
<1>4. CASE CopyDatagram
  <2> USE <1>4 DEF CopyDatagram, ringVars, diskVars
  <2> DEFINE b == IF stopping THEN StopBlock ELSE this_block
  <2>1. b \in 0 .. BLOCK_COUNT /\ datagram \in Slots
    BY <1>0 DEF RingInv, TypeOK, NetTypeOK, StopBlock
  <2>2. datagrams' = [datagrams EXCEPT ![datagram] = b] /\ datagrams \in [Slots -> {Garbage} \cup 0 .. BLOCK_COUNT]
    BY DEF RingInv, TypeOK, RingTypeOK
  <2> HIDE DEF b
  <2>3. b # Garbage
    BY <1>0, <2>1 DEF Garbage
  <2>4. TypeOK'
    BY <2>1, <2>2 DEF RingInv, TypeOK, RingTypeOK, NetTypeOK, DiskTypeOK, NetState
  <2>5. \A s \in Slots : datagrams[s] # Garbage => datagrams'[s] # Garbage
    BY <2>2, <2>3
  <2>6. DataIsWritten'
    <3> SUFFICES ASSUME NEW i \in 0 .. MAX_BLOCKS_QUEUED - 1, i < count_data
                 PROVE  datagrams'[(base_data + i) % MAX_BLOCKS_QUEUED] # Garbage
      BY DEF DataIsWritten
    <3>1. (base_data + i) % MAX_BLOCKS_QUEUED \in Slots
      BY <1>0, AdvanceSlot DEF RingInv, TypeOK, RingTypeOK
    <3>2. datagrams[(base_data + i) % MAX_BLOCKS_QUEUED] # Garbage
      BY DEF RingInv, DataIsWritten
    <3>3. QED BY <2>5, <3>1, <3>2
  <2>7. NetHoldsSlot'
    BY <2>1, <2>2, <2>3 DEF RingInv, NetHoldsSlot
  <2>8. FlagsMatchCounts' /\ NoLostWakeup'
    BY DEF RingInv, FlagsMatchCounts, NoLostWakeup
  <2>9. LoopNeverBlocks' /\ NextSurvivesWait' /\ DiskHoldsSlot'
    BY DEF RingInv, LoopNeverBlocks, NextSurvivesWait, DiskHoldsSlot
  <2>10. QED
    BY <2>4, <2>6, <2>7, <2>8, <2>9 DEF RingInv
<1>5. CASE ring_confirm
  <2> USE <1>5 DEF ring_confirm, ConfirmSlot, Signal
  <2>1. /\ count_reserved = 1 /\ count_reserved' = 0 /\ data_ready' = 1
        /\ count_data \in 0 .. MAX_BLOCKS_QUEUED - 1
        /\ count_data' = count_data + 1
        /\ base_data \in Slots /\ UNCHANGED <<base_data, datagrams, space_ready>>
        /\ datagram = (base_data + count_data) % MAX_BLOCKS_QUEUED
    BY <1>0 DEF RingInv, TypeOK, RingTypeOK, FlagsMatchCounts, NetHoldsSlot
  <2>2. netPc' \in {"join", "recv", "reserve"} /\ netPc = "confirm"
    OBVIOUS
  <2>3. RingTypeOK'
    BY <1>0, <2>1 DEF RingInv, TypeOK, RingTypeOK
  <2>4. NetTypeOK'
    <3>1. /\ this_block \in 0 .. BLOCK_COUNT /\ next \in Slots /\ datagram \in Slots
          /\ received \subseteq 0 .. BLOCK_COUNT /\ blocks_left \in 0 .. BLOCK_COUNT
          /\ loop \in {"running", "left"}
      BY DEF RingInv, TypeOK, NetTypeOK
    <3>2. received' \subseteq 0 .. BLOCK_COUNT
      BY <3>1
    <3>3. blocks_left' \in 0 .. BLOCK_COUNT
      BY <1>0, <3>1
    <3>4. loop' \in {"running", "left"}
      BY <3>1
    <3>5. QED
      BY <2>2, <3>1, <3>2, <3>3, <3>4 DEF NetTypeOK, NetState
  <2>5. DiskTypeOK'
    BY DEF RingInv, TypeOK, DiskTypeOK, diskVars
  <2>6. FlagsMatchCounts'
    BY <1>0, <2>1 DEF RingInv, FlagsMatchCounts
  <2>7. NoLostWakeup'
    BY <2>2 DEF RingInv, NoLostWakeup
  <2>8. LoopNeverBlocks' /\ NextSurvivesWait'
    BY <2>2 DEF LoopNeverBlocks, NextSurvivesWait, stopping
  <2>9. NetHoldsSlot'
    BY <2>1, <2>2 DEF NetHoldsSlot
  <2>10. DiskHoldsSlot'
    BY <1>0, <2>1 DEF RingInv, DiskHoldsSlot, diskVars
  <2>11. DataIsWritten'
    <3> SUFFICES ASSUME NEW i \in 0 .. MAX_BLOCKS_QUEUED - 1, i < count_data + 1
                 PROVE  datagrams[(base_data + i) % MAX_BLOCKS_QUEUED] # Garbage
      BY <2>1 DEF DataIsWritten
    <3>1. CASE i < count_data
      BY <3>1 DEF RingInv, DataIsWritten
    <3>2. CASE i = count_data
      BY <2>1, <2>2, <3>2 DEF RingInv, NetHoldsSlot
    <3>3. QED BY <2>1, <3>1, <3>2
  <2>12. QED
    BY <2>3, <2>4, <2>5, <2>6, <2>7, <2>8, <2>9, <2>10, <2>11 DEF RingInv, TypeOK
<1>6. CASE LeaveLoop \/ JoinDiskThread \/ Abort
  <2> USE <1>6 DEF LeaveLoop, JoinDiskThread, Abort, ringVars, diskVars
  <2>1. TypeOK'
    <3>1. RingTypeOK' /\ DiskTypeOK'
      BY DEF RingInv, TypeOK, RingTypeOK, DiskTypeOK
    <3>2. this_block' \in 0 .. BLOCK_COUNT
      BY <1>0 DEF RingInv, TypeOK, NetTypeOK
    <3>3. loop' \in {"running", "left"} /\ netPc' \in NetState
      BY DEF RingInv, TypeOK, NetTypeOK, NetState
    <3>4. UNCHANGED <<next, datagram, received, blocks_left>>
      OBVIOUS
    <3>5. NetTypeOK'
      BY <3>2, <3>3, <3>4 DEF RingInv, TypeOK, NetTypeOK
    <3>6. QED BY <3>1, <3>5 DEF TypeOK
  <2>2. FlagsMatchCounts' /\ DataIsWritten'
    BY RingUntouched
  <2>3. NoLostWakeup' /\ DiskHoldsSlot'
    BY DEF RingInv, NoLostWakeup, DiskHoldsSlot
  <2>4. LoopNeverBlocks' /\ NextSurvivesWait'
    BY DEF LoopNeverBlocks, NextSurvivesWait, stopping
  <2>5. NetHoldsSlot'
    BY DEF RingInv, NetHoldsSlot
  <2>6. QED
    BY <2>1, <2>2, <2>3, <2>4, <2>5 DEF RingInv
<1>7. CASE ring_peek
  <2> USE <1>7 DEF ring_peek, WaitForData, FoundData, ringVars, netVars
  <2>1. TypeOK'
    BY DEF RingInv, TypeOK, RingTypeOK, NetTypeOK, DiskTypeOK, DiskState
  <2>2. FlagsMatchCounts' /\ DataIsWritten'
    BY RingUntouched
  <2>3. NoLostWakeup'
    BY DEF RingInv, NoLostWakeup
  <2>4. LoopNeverBlocks' /\ NextSurvivesWait' /\ NetHoldsSlot'
    BY DEF RingInv, LoopNeverBlocks, NextSurvivesWait, NetHoldsSlot, stopping, FirstFreeSlot
  <2>5. DiskHoldsSlot'
    BY DEF RingInv, TypeOK, RingTypeOK, FlagsMatchCounts, DiskHoldsSlot
  <2>6. QED
    BY <2>1, <2>2, <2>3, <2>4, <2>5 DEF RingInv
<1>8. CASE AcceptBlock
  <2> USE <1>8 DEF AcceptBlock, ringVars, netVars
  <2>1. address \in Slots /\ address = base_data /\ 0 < count_data
    BY DEF RingInv, DiskHoldsSlot, TypeOK, DiskTypeOK
  <2>2. datagrams[address] # Garbage
    <3>1. 0 \in 0 .. MAX_BLOCKS_QUEUED - 1 /\ base_data + 0 = base_data
      BY <1>0, <2>1 DEF Slots
    <3>2. datagrams[(base_data + 0) % MAX_BLOCKS_QUEUED] # Garbage
      BY <2>1, <3>1 DEF RingInv, DataIsWritten
    <3>3. base_data % MAX_BLOCKS_QUEUED = base_data
      BY <2>1, <3>1, SlotsDiffer
    <3>4. QED BY <2>1, <3>1, <3>2, <3>3
  <2>3. datagrams[address] \in 0 .. BLOCK_COUNT
    BY <2>1, <2>2 DEF RingInv, TypeOK, RingTypeOK
  <2>4. DiskTypeOK'
    <3>1. CASE UNCHANGED file
      BY <3>1 DEF RingInv, TypeOK, DiskTypeOK, DiskState
    <3>2. CASE diskPc' = "pop" /\ file' = Append(file, datagrams[address]) /\ datagrams[address] # StopBlock
      <4>1. datagrams[address] \in 1 .. BLOCK_COUNT
        BY <1>0, <2>3, <3>2 DEF StopBlock
      <4>2. QED
        BY <3>2, <4>1 DEF RingInv, TypeOK, DiskTypeOK, DiskState
    <3>3. QED BY <3>1, <3>2
  <2>5. TypeOK'
    BY <2>4 DEF RingInv, TypeOK, RingTypeOK, NetTypeOK
  <2>6. FlagsMatchCounts' /\ DataIsWritten'
    BY RingUntouched
  <2>7. NoLostWakeup'
    BY DEF RingInv, NoLostWakeup
  <2>8. LoopNeverBlocks' /\ NextSurvivesWait' /\ NetHoldsSlot'
    BY DEF RingInv, LoopNeverBlocks, NextSurvivesWait, NetHoldsSlot, stopping, FirstFreeSlot
  <2>9. DiskHoldsSlot'
    BY <2>1 DEF RingInv, DiskHoldsSlot
  <2>10. QED
    BY <2>5, <2>6, <2>7, <2>8, <2>9 DEF RingInv
<1>9. CASE ring_pop
  <2> USE <1>9 DEF ring_pop, PopSlot, Signal, netVars
  <2>1. /\ count_data \in 1 .. MAX_BLOCKS_QUEUED /\ count_data' = count_data - 1
        /\ base_data \in Slots /\ base_data' = Advance(base_data) /\ base_data' \in Slots
        /\ count_reserved \in 0 .. 1 /\ count_data + count_reserved <= MAX_BLOCKS_QUEUED
        /\ UNCHANGED <<count_reserved, datagrams>>
    BY <1>0, AdvanceSlot DEF RingInv, TypeOK, RingTypeOK, FlagsMatchCounts, DiskHoldsSlot
  <2>2. \A k \in 0 .. MAX_BLOCKS_QUEUED - 1 :
          (base_data' + k) % MAX_BLOCKS_QUEUED = (base_data + k + 1) % MAX_BLOCKS_QUEUED
    BY <2>1, AdvanceSlot
  <2>3. (base_data' + count_data') % MAX_BLOCKS_QUEUED = (base_data + count_data) % MAX_BLOCKS_QUEUED
    BY <1>0, <2>1, <2>2 DEF Slots
  <2>4. TypeOK'
    <3>1. RingTypeOK'
      BY <1>0, <2>1 DEF RingInv, TypeOK, RingTypeOK
    <3>2. NetTypeOK' /\ DiskTypeOK'
      BY DEF RingInv, TypeOK, NetTypeOK, DiskTypeOK, DiskState
    <3>3. QED BY <3>1, <3>2 DEF TypeOK
  <2>5. FlagsMatchCounts'
    BY <1>0, <2>1 DEF RingInv, FlagsMatchCounts
  <2>6. NoLostWakeup' /\ DiskHoldsSlot'
    BY DEF RingInv, NoLostWakeup, DiskHoldsSlot
  <2>7. LoopNeverBlocks'
    BY DEF RingInv, LoopNeverBlocks, stopping
  <2>8. NextSurvivesWait'
    <3> SUFFICES ASSUME netPc = "reserve_wait"
                 PROVE  count_reserved = 0 /\ next = FirstFreeSlot'
      BY <2>1 DEF NextSurvivesWait
    <3>1. count_reserved = 0 /\ next = FirstFreeSlot
      BY DEF RingInv, NextSurvivesWait
    <3>2. FirstFreeSlot = (base_data + count_data) % MAX_BLOCKS_QUEUED
      BY <1>0, <2>1, <3>1 DEF FirstFreeSlot, Slots
    <3>3. FirstFreeSlot' = (base_data' + count_data') % MAX_BLOCKS_QUEUED
      BY <1>0, <2>1, <3>1 DEF FirstFreeSlot, Slots
    <3>4. QED BY <2>3, <3>1, <3>2, <3>3
  <2>9. NetHoldsSlot'
    BY <2>1, <2>3 DEF RingInv, NetHoldsSlot
  <2>10. DataIsWritten'
    <3> SUFFICES ASSUME NEW i \in 0 .. MAX_BLOCKS_QUEUED - 1, i < count_data - 1
                 PROVE  datagrams[(base_data' + i) % MAX_BLOCKS_QUEUED] # Garbage
      BY <2>1 DEF DataIsWritten
    <3>1. i + 1 \in 0 .. MAX_BLOCKS_QUEUED - 1 /\ i + 1 < count_data
      BY <1>0, <2>1
    <3>2. datagrams[(base_data + (i + 1)) % MAX_BLOCKS_QUEUED] # Garbage
      BY <3>1 DEF RingInv, DataIsWritten
    <3>3. base_data + (i + 1) = base_data + i + 1
      BY <2>1 DEF Slots
    <3>4. QED BY <2>2, <3>2, <3>3
  <2>11. QED
    BY <2>4, <2>5, <2>6, <2>7, <2>8, <2>9, <2>10 DEF RingInv
<1>10. CASE SpuriousWakeup
  <2> USE <1>10 DEF SpuriousWakeup, Signal, ringVars, netVars, diskVars
  <2>1. TypeOK' /\ NoLostWakeup'
    BY DEF RingInv, TypeOK, RingTypeOK, NetTypeOK, DiskTypeOK, NoLostWakeup
  <2>2. FlagsMatchCounts' /\ DataIsWritten'
    BY RingUntouched
  <2>3. LoopNeverBlocks' /\ NextSurvivesWait' /\ NetHoldsSlot' /\ DiskHoldsSlot'
    BY DEF RingInv, LoopNeverBlocks, NextSurvivesWait, NetHoldsSlot, DiskHoldsSlot, stopping, FirstFreeSlot
  <2>4. QED
    BY <2>1, <2>2, <2>3 DEF RingInv
<1>11. CASE UNCHANGED vars
  <2> USE <1>11 DEF vars, ringVars, netVars, diskVars
  <2>1. TypeOK' /\ NoLostWakeup'
    BY DEF RingInv, TypeOK, RingTypeOK, NetTypeOK, DiskTypeOK, NoLostWakeup
  <2>2. FlagsMatchCounts' /\ DataIsWritten'
    BY RingUntouched
  <2>3. LoopNeverBlocks' /\ NextSurvivesWait' /\ NetHoldsSlot' /\ DiskHoldsSlot'
    BY DEF RingInv, LoopNeverBlocks, NextSurvivesWait, NetHoldsSlot, DiskHoldsSlot, stopping, FirstFreeSlot
  <2>4. QED
    BY <2>1, <2>2, <2>3 DEF RingInv
<1>12. QED
  BY <1>1, <1>2, <1>3, <1>4, <1>5, <1>6, <1>7, <1>8, <1>9, <1>10, <1>11
     DEF Next, Network, Disk, Returned

\* The inductive invariant holds in every reachable state, for every ring size,
\* file length, transfer mode and combination of faults.
THEOREM RingInvariant == Spec => []RingInv
BY InitRingInv, StepRingInv, PTL DEF Spec

\* Indices and counts stay in range, and only blocks of the file reach the file.
THEOREM TypeCorrect == Spec => []TypeOK
<1>1. RingInv => TypeOK
  BY DEF RingInv
<1>2. QED BY RingInvariant, <1>1, PTL

\* The two unlocked slot accesses, the memcpy of command_get and the read of
\* disk_thread, never touch the same slot.
THEOREM RaceFree == Spec => []NoDataRace
<1>1. RingInv => NoDataRace
  <2> SUFFICES ASSUME RingInv, netPc = "copy", diskPc = "accept"
               PROVE  datagram # address
    BY DEF NoDataRace
  <2>0. MAX_BLOCKS_QUEUED \in Nat \ {0}
    BY RingAssumption DEF RingAssumption
  <2>1. /\ datagram = (base_data + count_data) % MAX_BLOCKS_QUEUED
        /\ count_data \in 1 .. MAX_BLOCKS_QUEUED - 1
        /\ address = base_data /\ base_data \in Slots
    BY <2>0 DEF RingInv, TypeOK, RingTypeOK, FlagsMatchCounts, NetHoldsSlot, DiskHoldsSlot
  <2>2. base_data % MAX_BLOCKS_QUEUED = base_data /\ base_data + 0 = base_data
    BY <2>0, <2>1, SlotsDiffer DEF Slots
  <2>3. (base_data + 0) % MAX_BLOCKS_QUEUED = (base_data + count_data) % MAX_BLOCKS_QUEUED => 0 = count_data
    BY <2>0, <2>1, SlotsDiffer
  <2>4. QED BY <2>1, <2>2, <2>3
<1>2. QED BY RingInvariant, <1>1, PTL

\* No wakeup is lost on either condition variable.
THEOREM WakeupsArrive == Spec => []NoLostWakeup
<1>1. RingInv => NoLostWakeup
  BY DEF RingInv
<1>2. QED BY RingInvariant, <1>1, PTL

\* The receive loop is never blocked by the disk thread.
THEOREM FeedbackNotBlocked == Spec => []LoopNeverBlocks
<1>1. RingInv => LoopNeverBlocks
  BY DEF RingInv
<1>2. QED BY RingInvariant, <1>1, PTL

\* The fatal error exits of the ring are unreachable.
THEOREM NoFatalError == Spec => []NoRingError
<1>1. RingInv => NoRingError
  BY DEF RingInv, NoRingError, NetHoldsSlot, DiskHoldsSlot, FlagsMatchCounts
<1>2. QED BY RingInvariant, <1>1, PTL

\* A full ring is recognised, and only a full one: the flags that both waits
\* test agree with the counts whatever the two threads did in between.
THEOREM FlagsAgree == Spec => []FlagsMatchCounts
<1>1. RingInv => FlagsMatchCounts
  BY DEF RingInv
<1>2. QED BY RingInvariant, <1>1, PTL

\* The slot ring_reserve computes before it waits is the right one after it.
THEOREM FreeSlotSurvives == Spec => []NextSurvivesWait
<1>1. RingInv => NextSurvivesWait
  BY DEF RingInv
<1>2. QED BY RingInvariant, <1>1, PTL

-----------------------------------------------------------------------------
(* What the ring holds, what the file holds and what the bitmap says. *)

\* The fields of the ring in an invariant state, with numbers for the provers.
LEMMA RingNumbers ==
  ASSUME RingInv
  PROVE  /\ MAX_BLOCKS_QUEUED \in Nat \ {0} /\ BLOCK_COUNT \in Nat
         /\ base_data \in Slots /\ count_data \in 0 .. MAX_BLOCKS_QUEUED
         /\ file \in Seq(1 .. BLOCK_COUNT) /\ received \subseteq 0 .. BLOCK_COUNT
         /\ this_block \in 0 .. BLOCK_COUNT /\ First \in {0, 1}
BY RingAssumption DEF RingAssumption, RingInv, TypeOK, RingTypeOK, NetTypeOK, DiskTypeOK, First

\* The oldest place is the slot base_data.
LEMMA HeldFirst ==
  ASSUME RingInv
  PROVE  Held(0) = datagrams[base_data]
<1>1. base_data \in Slots /\ 0 \in 0 .. MAX_BLOCKS_QUEUED - 1 /\ base_data + 0 = base_data
  BY RingNumbers DEF Slots
<1>2. base_data % MAX_BLOCKS_QUEUED = base_data
  BY <1>1, SlotsDiffer
<1>3. QED
  BY <1>1, <1>2 DEF Held

\* The stop block is no block of the file.
LEMMA StopNotInFile ==
  ASSUME file \in Seq(1 .. BLOCK_COUNT)
  PROVE  ~ InFile(StopBlock)
<1>1. \A k \in DOMAIN file : file[k] \in 1 .. BLOCK_COUNT
  BY LenProperties, ElementOfSeq
<1>2. ~ (StopBlock \in 1 .. BLOCK_COUNT)
  BY DEF StopBlock
<1>3. QED
  BY <1>1, <1>2, Zenon DEF InFile

\* Steps that change neither the ring's data nor the file nor the bitmap.
LEMMA BlocksUntouched ==
  ASSUME BlocksOnce, UNCHANGED <<base_data, count_data, datagrams, received, file>>,
         diskPc' = "pop" <=> diskPc = "pop"
  PROVE  /\ BlocksOnce' /\ First' = First
         /\ \A i \in Int : Held(i)' = Held(i)
<1>1. First' = First
  BY DEF First
<1>2. Pending' = Pending /\ \A i : Held(i)' = Held(i)
  BY <1>1 DEF Pending, Held
<1>3. \A b : InFile(b)' <=> InFile(b)
  BY DEF InFile
<1>4. BlocksOnce'
  BY <1>2, <1>3 DEF BlocksOnce
<1>5. QED
  BY <1>1, <1>2, <1>4

LEMMA InitContentInv == Init => ContentInv
<1> SUFFICES ASSUME Init PROVE ContentInv
  OBVIOUS
<1>0. MAX_BLOCKS_QUEUED \in Nat \ {0} /\ BLOCK_COUNT \in Nat
  BY RingAssumption DEF RingAssumption
<1>1. /\ count_data = 0 /\ First = 0 /\ received = {} /\ file = <<>> /\ netPc = "recv"
      /\ diskPc = "peek" /\ ~ stopping /\ blocks_left = BLOCK_COUNT
  BY DEF Init, First, stopping
<1>2. Pending = {} /\ 0 .. count_data - 1 = {}
  BY <1>1 DEF Pending
<1>3. DOMAIN file = {}
  BY <1>1
<1>4. BlocksOnce
  BY <1>1, <1>2, <1>3 DEF BlocksOnce
<1>5. BringsNewBlock /\ StopIsLast
  BY <1>1, <1>2 DEF BringsNewBlock, StopIsLast
<1>6. CountsMissing
  <2>1. Cardinality(1 .. BLOCK_COUNT) = BLOCK_COUNT /\ 1 .. BLOCK_COUNT \ {} = 1 .. BLOCK_COUNT
    BY <1>0, FS_Interval
  <2>2. QED
    BY <1>1, <2>1 DEF CountsMissing
<1>7. QED
  BY <1>4, <1>5, <1>6 DEF ContentInv

\* Copying into the reserved slot touches no slot that holds data.
LEMMA CopyContent ==
  ASSUME RingInv, ContentInv, CopyDatagram
  PROVE  ContentInv'
<1> USE DEF CopyDatagram, ringVars, diskVars
<1>0. /\ MAX_BLOCKS_QUEUED \in Nat \ {0} /\ base_data \in Slots
      /\ count_data \in 0 .. MAX_BLOCKS_QUEUED - 1
      /\ datagram = (base_data + count_data) % MAX_BLOCKS_QUEUED
      /\ datagram \in Slots /\ datagrams \in [Slots -> {Garbage} \cup 0 .. BLOCK_COUNT]
  BY RingNumbers DEF RingInv, TypeOK, RingTypeOK, NetTypeOK, NetHoldsSlot, FlagsMatchCounts
<1>1. \A i \in 0 .. count_data - 1 : Held(i)' = Held(i)
  <2> SUFFICES ASSUME NEW i \in 0 .. count_data - 1 PROVE Held(i)' = Held(i)
    OBVIOUS
  <2>1. i \in 0 .. MAX_BLOCKS_QUEUED - 1 /\ i # count_data
    BY <1>0
  <2>2. (base_data + i) % MAX_BLOCKS_QUEUED # datagram
    BY <1>0, <2>1, SlotsDiffer
  <2>3. (base_data + i) % MAX_BLOCKS_QUEUED \in Slots
    BY <1>0, <2>1, AdvanceSlot
  <2>4. QED
    BY <1>0, <2>2, <2>3 DEF Held
<1>2. First' = First /\ Pending' = Pending /\ First \in {0, 1}
  BY DEF First, Pending
<1>3. Pending \subseteq 0 .. count_data - 1
  BY <1>0, <1>2 DEF Pending
<1>4. \A b : InFile(b)' <=> InFile(b)
  BY DEF InFile
<1>5. diskPc = "pop" => 0 \in 0 .. count_data - 1
  BY <1>0 DEF RingInv, DiskHoldsSlot
<1>6. BlocksOnce'
  <2>1. \A i, j \in Pending : Held(i)' = Held(j)' => i = j \/ Held(i)' = StopBlock
    BY <1>1, <1>3 DEF ContentInv, BlocksOnce
  <2>2. \A i \in Pending : ~ InFile(Held(i)')
    BY <1>1, <1>3 DEF ContentInv, BlocksOnce
  <2>3. diskPc' = "pop" => InFile(Held(0)')
    BY <1>1, <1>5 DEF ContentInv, BlocksOnce
  <2>4. \A i \in 0 .. count_data - 1 : Held(i)' \in received \cup {StopBlock}
    BY <1>1 DEF ContentInv, BlocksOnce
  <2>5. \A b \in received \ {StopBlock} : InFile(b) \/ \E i \in Pending : Held(i)' = b
    BY <1>1, <1>3 DEF ContentInv, BlocksOnce
  <2>6. UNCHANGED <<file, received, count_data>>
    OBVIOUS
  <2>7. QED
    BY <1>2, <1>4, <2>1, <2>2, <2>3, <2>4, <2>5, <2>6 DEF ContentInv, BlocksOnce, InFile
<1>7. BringsNewBlock'
  <2>1. datagrams'[datagram] = IF stopping THEN StopBlock ELSE this_block
    BY <1>0
  <2>2. QED
    BY <2>1 DEF ContentInv, BringsNewBlock, stopping
<1>8. StopIsLast'
  BY <1>1 DEF ContentInv, StopIsLast, stopping
<1>9. CountsMissing'
  BY DEF ContentInv, CountsMissing, stopping
<1>10. QED
  BY <1>6, <1>7, <1>8, <1>9 DEF ContentInv

\* A block the bitmap lacks leaves the missing ones and is counted once.
LEMMA OneLessMissing ==
  ASSUME RingInv, NEW b \in 1 .. BLOCK_COUNT, b \notin received,
         blocks_left = Cardinality(1 .. BLOCK_COUNT \ received)
  PROVE  /\ blocks_left > 0
         /\ blocks_left - 1 = Cardinality(1 .. BLOCK_COUNT \ (received \cup {b}))
<1> DEFINE lack == 1 .. BLOCK_COUNT \ received
<1>1. b \in lack /\ lack \ {b} = 1 .. BLOCK_COUNT \ (received \cup {b})
  OBVIOUS
<1>2. IsFiniteSet(lack)
  <2>1. IsFiniteSet(1 .. BLOCK_COUNT) /\ lack \in SUBSET (1 .. BLOCK_COUNT)
    BY RingNumbers, FS_Interval
  <2>2. QED
    BY <2>1, FS_Subset
<1> HIDE DEF lack
<1>3. Cardinality(lack) \in Nat /\ (Cardinality(lack) = 0 <=> lack = {})
  BY <1>2, FS_CardinalityType, FS_EmptySet
<1>4. Cardinality(lack \ {b}) = Cardinality(lack) - 1
  BY <1>1, <1>2, FS_RemoveElement
<1>5. QED
  BY <1>1, <1>3, <1>4 DEF lack

\* A confirmed slot adds the newest place to the data.
LEMMA ConfirmContent ==
  ASSUME RingInv, ContentInv, ring_confirm
  PROVE  ContentInv'
<1> USE DEF ring_confirm, ConfirmSlot, diskVars
<1>0. /\ MAX_BLOCKS_QUEUED \in Nat \ {0} /\ BLOCK_COUNT \in Nat /\ base_data \in Slots
      /\ count_data \in 0 .. MAX_BLOCKS_QUEUED - 1 /\ count_data' = count_data + 1
      /\ datagram = (base_data + count_data) % MAX_BLOCKS_QUEUED
      /\ First \in {0, 1} /\ file \in Seq(1 .. BLOCK_COUNT)
      /\ this_block \in 0 .. BLOCK_COUNT /\ received \subseteq 0 .. BLOCK_COUNT
  BY RingNumbers DEF RingInv, TypeOK, RingTypeOK, NetHoldsSlot, FlagsMatchCounts
<1>1. \A i : Held(i)' = Held(i)
  BY DEF Held
<1>2. First' = First /\ First <= count_data
  BY <1>0 DEF First, RingInv, DiskHoldsSlot
<1>3. Pending' = Pending \cup {count_data} /\ Pending \subseteq 0 .. count_data - 1
      /\ count_data \notin Pending
      /\ 0 .. count_data' - 1 = (0 .. count_data - 1) \cup {count_data}
  <2>1. Pending = First .. count_data - 1 /\ Pending' = First .. count_data
    BY <1>0, <1>2 DEF Pending
  <2>2. QED
    BY <1>0, <1>2, <2>1
<1>4. \A b : InFile(b)' <=> InFile(b)
  BY DEF InFile
<1>5. Held(count_data) = IF stopping THEN StopBlock ELSE this_block
  BY <1>0 DEF Held, ContentInv, BringsNewBlock
<1>6. ~ InFile(StopBlock)
  BY <1>0, StopNotInFile
<1>7. CASE stopping /\ netPc' = "join" /\ UNCHANGED <<received, blocks_left, loop>>
  <2>1. Held(count_data) = StopBlock
    BY <1>5, <1>7
  <2>2. BlocksOnce'
    <3>1. \A i, j \in Pending' : Held(i) = Held(j) => i = j \/ Held(i) = StopBlock
      BY <1>3, <2>1 DEF ContentInv, BlocksOnce
    <3>2. \A i \in Pending' : ~ InFile(Held(i))
      BY <1>3, <1>6, <2>1 DEF ContentInv, BlocksOnce
    <3>3. \A i \in 0 .. count_data' - 1 : Held(i) \in received \cup {StopBlock}
      BY <1>3, <2>1 DEF ContentInv, BlocksOnce
    <3>4. \A b \in received \ {StopBlock} : InFile(b) \/ \E i \in Pending' : Held(i) = b
      BY <1>3 DEF ContentInv, BlocksOnce
    <3>5. QED
      BY <1>1, <1>4, <1>7, <3>1, <3>2, <3>3, <3>4 DEF ContentInv, BlocksOnce
  <2>3. BringsNewBlock'
    BY <1>7 DEF ContentInv, BringsNewBlock, stopping
  <2>4. StopIsLast'
    <3>1. 0 \notin received => \A i \in 0 .. count_data - 1 : Held(i) # StopBlock
      BY DEF ContentInv, StopIsLast
    <3>2. count_data' > 0 /\ count_data' - 1 = count_data
      BY <1>0
    <3>3. diskPc = "exit" => count_data > 0 /\ address = base_data
      BY DEF ContentInv, StopIsLast
    <3>4. stopping' /\ UNCHANGED <<diskPc, address, base_data, received>>
      BY <1>7 DEF stopping
    <3>5. QED
      BY <1>0, <1>1, <1>3, <1>7, <2>1, <3>1, <3>2, <3>3, <3>4 DEF StopIsLast
  <2>5. CountsMissing'
    BY <1>7 DEF ContentInv, CountsMissing, stopping
  <2>6. QED
    BY <2>2, <2>3, <2>4, <2>5 DEF ContentInv
<1>8. CASE /\ ~ stopping /\ received' = received \cup {this_block}
           /\ blocks_left' = (IF blocks_left > 0 THEN blocks_left - 1 ELSE 0)
           /\ \/ netPc' = "recv" /\ UNCHANGED loop
              \/ /\ this_block = BLOCK_COUNT /\ TransferDone(blocks_left')
                 /\ netPc' = "reserve" /\ loop' = "left"
  <2>1. Held(count_data) = this_block /\ this_block \notin received
    BY <1>5, <1>8 DEF ContentInv, BringsNewBlock
  <2>2. BlocksOnce'
    <3>1. \A i, j \in Pending' : Held(i) = Held(j) => i = j \/ Held(i) = StopBlock
      <4>1. \A i \in Pending : Held(i) = this_block => this_block = StopBlock
        BY <1>3, <2>1 DEF ContentInv, BlocksOnce
      <4>2. QED
        BY <1>3, <2>1, <4>1 DEF ContentInv, BlocksOnce
    <3>2. \A i \in Pending' : ~ InFile(Held(i))
      <4>1. ~ InFile(this_block)
        BY <2>1 DEF ContentInv, BlocksOnce, InFile
      <4>2. QED
        BY <1>3, <2>1, <4>1 DEF ContentInv, BlocksOnce
    <3>3. \A i \in 0 .. count_data' - 1 : Held(i) \in received' \cup {StopBlock}
      BY <1>3, <1>8, <2>1 DEF ContentInv, BlocksOnce
    <3>4. \A b \in received' \ {StopBlock} : InFile(b) \/ \E i \in Pending' : Held(i) = b
      BY <1>3, <1>8, <2>1 DEF ContentInv, BlocksOnce
    <3>5. \A k \in DOMAIN file' : file'[k] \in received'
      BY <1>8 DEF ContentInv, BlocksOnce
    <3>6. diskPc' = "pop" => InFile(Held(0))
      BY DEF ContentInv, BlocksOnce
    <3>7. QED
      BY <1>1, <1>4, <3>1, <3>2, <3>3, <3>4, <3>5, <3>6 DEF BlocksOnce
  <2>3. BringsNewBlock'
    <3>1. this_block = 0 => BLOCK_COUNT = 0 \/ "recv" \in env.faults
      BY <1>8 DEF ContentInv, BringsNewBlock
    <3>2. 0 \in received' => BLOCK_COUNT = 0 \/ "recv" \in env.faults
      BY <1>8, <3>1 DEF ContentInv, BringsNewBlock
    <3>3. netPc' = "reserve" => stopping'
      BY <1>8 DEF stopping
    <3>4. netPc' \in {"recv", "reserve"} /\ UNCHANGED env
      BY <1>8
    <3>5. QED
      BY <3>2, <3>3, <3>4 DEF BringsNewBlock
  <2>4. StopIsLast'
    <3>1. 0 \notin received' => \A i \in 0 .. count_data' - 1 : Held(i) # StopBlock
      <4>1. 0 \notin received' => 0 \notin received /\ this_block # StopBlock
        BY <1>8 DEF StopBlock
      <4>2. 0 \notin received => \A i \in 0 .. count_data - 1 : Held(i) # StopBlock
        BY DEF ContentInv, StopIsLast
      <4>3. QED
        BY <1>3, <2>1, <4>1, <4>2
    <3>2. diskPc = "exit" => count_data' > 0 /\ address = base_data
      BY <1>0 DEF ContentInv, StopIsLast
    <3>3. netPc' \in {"recv", "reserve"} /\ UNCHANGED <<diskPc, address, base_data>>
      BY <1>8
    <3>4. QED
      BY <1>1, <3>1, <3>2, <3>3 DEF StopIsLast
  <2>5. CountsMissing'
    <3>1. 0 \notin received' => blocks_left' = Cardinality(1 .. BLOCK_COUNT \ received')
      <4> SUFFICES ASSUME 0 \notin received'
                   PROVE  blocks_left' = Cardinality(1 .. BLOCK_COUNT \ received')
        OBVIOUS
      <4>1. this_block \in 1 .. BLOCK_COUNT /\ 0 \notin received
        BY <1>0, <1>8
      <4>2. blocks_left = Cardinality(1 .. BLOCK_COUNT \ received)
        BY <4>1 DEF ContentInv, CountsMissing
      <4>3. blocks_left > 0 /\ blocks_left - 1 = Cardinality(1 .. BLOCK_COUNT \ (received \cup {this_block}))
        BY <2>1, <4>1, <4>2, OneLessMissing
      <4>4. QED
        BY <1>8, <4>3
    <3>2. stopping' /\ env'.lossless => blocks_left' = 0
      BY <1>8 DEF stopping, TransferDone
    <3>3. QED
      BY <3>1, <3>2 DEF CountsMissing
  <2>6. QED
    BY <2>2, <2>3, <2>4, <2>5 DEF ContentInv
<1>9. QED
  BY <1>7, <1>8

\* A written block moves from the pending ones to the file.
LEMMA AcceptContent ==
  ASSUME RingInv, ContentInv, AcceptBlock
  PROVE  ContentInv'
<1> USE DEF AcceptBlock, ringVars, netVars
<1>0. /\ MAX_BLOCKS_QUEUED \in Nat \ {0} /\ base_data \in Slots
      /\ count_data \in 1 .. MAX_BLOCKS_QUEUED /\ address = base_data
      /\ file \in Seq(1 .. BLOCK_COUNT) /\ First = 0
  BY RingNumbers DEF RingInv, DiskHoldsSlot, First
<1>1. Held(0) = datagrams[address] /\ \A i : Held(i)' = Held(i)
  BY <1>0, HeldFirst DEF Held
<1>2. BringsNewBlock' /\ CountsMissing'
  BY DEF ContentInv, BringsNewBlock, CountsMissing, stopping
<1>3. StopIsLast'
  BY <1>0, <1>1 DEF ContentInv, StopIsLast, stopping, RingExists
<1>4. CASE diskPc' = "exit" /\ UNCHANGED file
  <2>1. BlocksOnce'
    BY <1>4, BlocksUntouched DEF ContentInv
  <2>2. QED
    BY <1>2, <1>3, <2>1 DEF ContentInv
<1>5. CASE /\ datagrams[address] # StopBlock
           /\ diskPc' = "pop" /\ file' = Append(file, datagrams[address])
  <2> DEFINE b == Held(0)
  <2>1. /\ Pending = 0 .. count_data - 1 /\ Pending' = 1 .. count_data - 1
        /\ 0 \in Pending /\ Pending' \subseteq Pending /\ 0 \notin Pending'
        /\ \A i \in Pending : i # 0 => i \in Pending'
    <3>1. First' = 1 /\ UNCHANGED count_data
      BY <1>5 DEF First
    <3>2. Pending = 0 .. count_data - 1 /\ Pending' = 1 .. count_data - 1
      BY <1>0, <3>1 DEF Pending
    <3>3. QED
      BY <1>0, <3>2
  <2>2. b # StopBlock /\ b \in received
    BY <1>1, <1>5, <2>1 DEF ContentInv, BlocksOnce
  <2>3. /\ \A x : InFile(x)' <=> InFile(x) \/ x = b
        /\ \A k \in DOMAIN file' : file'[k] = b \/ \E l \in DOMAIN file : file'[k] = file[l]
    <3>1. Len(file') = Len(file) + 1 /\ Len(file) \in Nat /\ file'[Len(file) + 1] = b
          /\ \A k \in 1 .. Len(file) : file'[k] = file[k]
      <4>1. file' = Append(file, b)
        BY <1>1, <1>5
      <4>2. QED
        BY <1>0, <4>1, LenProperties
    <3>2. DOMAIN file' = 1 .. Len(file) + 1 /\ DOMAIN file = 1 .. Len(file)
      <4>1. file' = Append(file, b)
        BY <1>1, <1>5
      <4>2. QED
        BY <1>0, <3>1, <4>1, LenProperties
    <3> HIDE DEF b
    <3>3. \A k \in DOMAIN file' : k \in DOMAIN file \/ k = Len(file) + 1
      BY <3>1, <3>2
    <3>4. \A k \in DOMAIN file : k \in DOMAIN file' /\ file'[k] = file[k]
      BY <3>1, <3>2
    <3>5. Len(file) + 1 \in DOMAIN file'
      BY <3>1, <3>2
    <3>6. QED
      BY <3>1, <3>3, <3>4, <3>5 DEF InFile
  <2>4. BlocksOnce'
    <3>1. \A i, j \in Pending' : Held(i) = Held(j) => i = j \/ Held(i) = StopBlock
      BY <2>1 DEF ContentInv, BlocksOnce
    <3>2. \A i \in Pending' : ~ InFile(Held(i))'
      <4>1. \A i \in Pending' : Held(i) # b
        BY <2>1, <2>2 DEF ContentInv, BlocksOnce
      <4>2. \A i \in Pending' : ~ InFile(Held(i))
        BY <2>1 DEF ContentInv, BlocksOnce
      <4> HIDE DEF b
      <4>3. \A i \in Pending' : ~ (InFile(Held(i)) \/ Held(i) = b)
        BY <4>1, <4>2
      <4>4. QED
        BY <1>1, <2>3, <4>3 DEF InFile
    <3>3. InFile(Held(0))'
      BY <1>1, <2>3 DEF InFile
    <3>4. \A k \in DOMAIN file' : file'[k] \in received
      BY <2>2, <2>3 DEF ContentInv, BlocksOnce
    <3>5. \A x \in received \ {StopBlock} : InFile(x)' \/ \E i \in Pending' : Held(i) = x
      <4>1. \A x \in received \ {StopBlock} : InFile(x) \/ \E i \in Pending : Held(i) = x
        BY DEF ContentInv, BlocksOnce
      <4>2. QED
        BY <2>1, <2>3, <4>1
    <3>6. \A i \in 0 .. count_data' - 1 : Held(i) \in received \cup {StopBlock}
      BY DEF ContentInv, BlocksOnce
    <3>7. UNCHANGED received
      OBVIOUS
    <3>8. QED
      BY <1>1, <3>1, <3>2, <3>3, <3>4, <3>5, <3>6, <3>7 DEF BlocksOnce
  <2>5. QED
    BY <1>2, <1>3, <2>4 DEF ContentInv
<1>6. QED
  BY <1>4, <1>5

\* A pop renumbers the places: each block is one place nearer to the oldest.
LEMMA PopContent ==
  ASSUME RingInv, ContentInv, ring_pop
  PROVE  ContentInv'
<1> USE DEF ring_pop, PopSlot, netVars
<1>0. /\ MAX_BLOCKS_QUEUED \in Nat \ {0} /\ base_data \in Slots
      /\ count_data \in 1 .. MAX_BLOCKS_QUEUED /\ count_data' = count_data - 1
      /\ base_data' = Advance(base_data) /\ base_data' \in Slots
      /\ UNCHANGED <<datagrams, file, received, blocks_left, loop, env, netPc, this_block, datagram>>
  BY RingNumbers, AdvanceSlot DEF RingInv, DiskHoldsSlot
<1>1. \A i \in 0 .. count_data - 2 : Held(i)' = Held(i + 1)
  <2> SUFFICES ASSUME NEW i \in 0 .. count_data - 2 PROVE Held(i)' = Held(i + 1)
    OBVIOUS
  <2>1. i \in 0 .. MAX_BLOCKS_QUEUED - 1
    BY <1>0
  <2>2. (Advance(base_data) + i) % MAX_BLOCKS_QUEUED = (base_data + i + 1) % MAX_BLOCKS_QUEUED
    BY <1>0, <2>1, AdvanceSlot
  <2>3. base_data + i + 1 = base_data + (i + 1)
    BY <1>0, <2>1 DEF Slots
  <2>4. QED
    BY <1>0, <2>2, <2>3 DEF Held
<1>2. /\ Pending = 1 .. count_data - 1 /\ Pending' = 0 .. count_data - 2
      /\ 0 .. count_data' - 1 = 0 .. count_data - 2
  <2>1. First = 1 /\ First' = 0
    BY DEF First
  <2>2. QED
    BY <1>0, <2>1 DEF Pending
<1>3. \A b : InFile(b)' <=> InFile(b)
  BY DEF InFile
<1>4. \A i \in 0 .. count_data - 2 : i + 1 \in Pending /\ i + 1 \in 0 .. count_data - 1 /\ i + 1 # 0
  BY <1>0, <1>2
<1>5. \A j \in Pending : j - 1 \in 0 .. count_data - 2 /\ (j - 1) + 1 = j
  BY <1>0, <1>2
<1>6. BlocksOnce'
  <2>1. \A i, j \in Pending' : Held(i)' = Held(j)' => i = j \/ Held(i)' = StopBlock
    <3> SUFFICES ASSUME NEW i \in 0 .. count_data - 2, NEW j \in 0 .. count_data - 2,
                        Held(i)' = Held(j)', Held(i)' # StopBlock
                 PROVE  i = j
      BY <1>2
    <3>1. i + 1 = j + 1
      BY <1>1, <1>4 DEF ContentInv, BlocksOnce
    <3>2. QED
      BY <3>1
  <2>2. \A i \in Pending' : ~ InFile(Held(i)')
    <3> SUFFICES ASSUME NEW i \in 0 .. count_data - 2 PROVE ~ InFile(Held(i)')
      BY <1>2
    <3>1. i + 1 \in Pending /\ Held(i)' = Held(i + 1)
      BY <1>1, <1>4
    <3>2. \A j \in Pending : ~ InFile(Held(j))
      BY DEF ContentInv, BlocksOnce
    <3>3. QED
      BY <3>1, <3>2, Zenon
  <2>3. \A i \in 0 .. count_data' - 1 : Held(i)' \in received \cup {StopBlock}
    <3> SUFFICES ASSUME NEW i \in 0 .. count_data - 2 PROVE Held(i)' \in received \cup {StopBlock}
      BY <1>2
    <3>1. i + 1 \in 0 .. count_data - 1 /\ Held(i)' = Held(i + 1)
      BY <1>1, <1>4
    <3>2. \A j \in 0 .. count_data - 1 : Held(j) \in received \cup {StopBlock}
      BY DEF ContentInv, BlocksOnce
    <3>3. QED
      BY <3>1, <3>2, Zenon
  <2>4. \A b \in received \ {StopBlock} : InFile(b) \/ \E i \in Pending' : Held(i)' = b
    <3>1. \A j \in Pending : \E i \in Pending' : Held(i)' = Held(j)
      BY <1>1, <1>2, <1>5
    <3>2. \A b \in received \ {StopBlock} : InFile(b) \/ \E i \in Pending : Held(i) = b
      BY DEF ContentInv, BlocksOnce
    <3>3. QED
      BY <3>1, <3>2
  <2>5. \A k \in DOMAIN file' : file'[k] \in received'
    BY DEF ContentInv, BlocksOnce
  <2>6. diskPc' # "pop"
    OBVIOUS
  <2>7. QED
    BY <1>0, <1>3, <2>1, <2>2, <2>3, <2>4, <2>5, <2>6 DEF BlocksOnce, InFile
<1>7. BringsNewBlock' /\ CountsMissing'
  BY DEF ContentInv, BringsNewBlock, CountsMissing, stopping
<1>8. StopIsLast'
  <2>1. netPc \in {"join", "done"} => stopping
    BY DEF ContentInv, StopIsLast
  <2>2. netPc # "done"
    BY DEF RingExists
  <2>3. 0 \notin received => \A i \in 0 .. count_data' - 1 : Held(i)' = StopBlock =>
                               netPc \in {"join", "done"} /\ i = count_data' - 1
    <3> SUFFICES ASSUME 0 \notin received, NEW i \in 0 .. count_data - 2, Held(i)' = StopBlock
                 PROVE  netPc \in {"join", "done"} /\ i = count_data' - 1
      BY <1>2
    <3>1. netPc \in {"join", "done"} /\ i + 1 = count_data - 1
      BY <1>1, <1>4 DEF ContentInv, StopIsLast
    <3>2. QED
      BY <1>0, <3>1
  <2>4. netPc = "join" => count_data' > 0 /\ Held(count_data - 1)' = StopBlock
    <3> SUFFICES ASSUME netPc = "join"
                 PROVE  count_data' > 0 /\ Held(count_data - 1)' = StopBlock
      OBVIOUS
    <3>1. Held(count_data - 1) = StopBlock
      BY DEF ContentInv, StopIsLast
    <3>2. count_data # 1
      <4>1. InFile(Held(0)) /\ ~ InFile(StopBlock)
        BY RingNumbers, StopNotInFile DEF ContentInv, BlocksOnce
      <4>2. count_data = 1 => count_data - 1 = 0
        OBVIOUS
      <4>3. QED
        BY <3>1, <4>1, <4>2
    <3>3. count_data - 2 \in 0 .. count_data - 2 /\ count_data' - 1 = count_data - 2
          /\ (count_data - 2) + 1 = count_data - 1 /\ count_data' > 0
      BY <1>0, <3>2
    <3>4. ASSUME NEW k \in 0 .. count_data - 2, k = count_data' - 1
          PROVE  Held(count_data - 1)' = Held(k + 1)
      <4>1. Held(count_data - 1)' = datagrams'[(base_data' + k) % MAX_BLOCKS_QUEUED]
        BY <3>4 DEF Held
      <4>2. Held(k)' = datagrams'[(base_data' + k) % MAX_BLOCKS_QUEUED]
        BY DEF Held
      <4>3. QED
        BY <1>1, <4>1, <4>2
    <3>5. QED
      BY <3>1, <3>3, <3>4
  <2>5. diskPc' # "exit" /\ UNCHANGED <<netPc, received>> /\ stopping' = stopping
    BY DEF stopping
  <2>6. QED
    BY <2>1, <2>2, <2>3, <2>4, <2>5 DEF StopIsLast
<1>9. QED
  BY <1>6, <1>7, <1>8 DEF ContentInv

\* Every step keeps the bitmap, the ring, the file and the countdown together.
LEMMA StepContentInv == RingInv /\ RingInv' /\ ContentInv /\ [Next]_vars => ContentInv'
<1> SUFFICES ASSUME RingInv, RingInv', ContentInv, [Next]_vars PROVE ContentInv'
  OBVIOUS
<1>0. BlocksOnce /\ BringsNewBlock /\ StopIsLast /\ CountsMissing
      /\ \A i \in 0 .. count_data - 1 : i \in Int
      /\ BLOCK_COUNT \in Nat /\ count_data \in Nat
      /\ this_block \in 0 .. BLOCK_COUNT
  BY RingNumbers DEF ContentInv
<1>1. CASE Receive
  <2> USE <1>1 DEF Receive, ringVars, diskVars
  <2>1. BlocksOnce' /\ \A i \in Int : Held(i)' = Held(i)
    BY <1>0, BlocksUntouched
  <2>2. BringsNewBlock'
    <3>1. netPc' # "recv" => netPc' = "reserve" /\ this_block' \notin received
      BY DEF Wanted, got_block
    <3>2. this_block' = 0 => BLOCK_COUNT = 0 \/ "recv" \in env.faults
      BY <1>0 DEF SentBlock
    <3>3. netPc' \in {"recv", "reserve"} /\ UNCHANGED <<env, received, loop>>
      OBVIOUS
    <3>4. QED
      BY <1>0, <3>1, <3>2, <3>3 DEF BringsNewBlock
  <2>3. StopIsLast'
    <3>1. 0 \notin received => \A i \in 0 .. count_data - 1 : Held(i) # StopBlock
      BY <1>0 DEF StopIsLast
    <3>2. netPc' \in {"recv", "reserve"}
      OBVIOUS
    <3>3. QED
      BY <1>0, <2>1, <3>1, <3>2 DEF StopIsLast
  <2>4. CountsMissing'
    BY <1>0 DEF CountsMissing, stopping
  <2>5. QED
    BY <2>1, <2>2, <2>3, <2>4 DEF ContentInv
<1>2. CASE ring_reserve \/ ring_reserve_wakes
  <2>1. /\ UNCHANGED <<env, base_data, count_data, datagrams, this_block, received, blocks_left, loop,
                       diskPc, address, file>>
        /\ netPc \in {"reserve", "reserve_wait"} /\ netPc' \in {"reserve_wait", "copy", "error"}
    BY <1>2 DEF ring_reserve, ring_reserve_wakes, TakeSlot, WaitForSpace, ringVars, diskVars
  <2>2. BlocksOnce' /\ \A i \in Int : Held(i)' = Held(i)
    BY <1>0, <2>1, BlocksUntouched
  <2>3. BringsNewBlock' /\ CountsMissing'
    BY <1>0, <2>1 DEF BringsNewBlock, CountsMissing, stopping
  <2>4. StopIsLast'
    BY <1>0, <2>1, <2>2 DEF StopIsLast
  <2>5. QED
    BY <2>2, <2>3, <2>4 DEF ContentInv
<1>3. CASE CopyDatagram
  BY <1>3, CopyContent
<1>4. CASE ring_confirm
  BY <1>4, ConfirmContent
<1>5. CASE LeaveLoop \/ Abort
  <2>1. /\ UNCHANGED <<env, base_data, count_data, datagrams, received, blocks_left, diskPc, address, file>>
        /\ netPc \in {"recv", "reserve"}
        /\ \/ netPc' = "reserve" /\ loop' = "left" /\ TransferDone(blocks_left)
           \/ netPc' = "aborted" /\ UNCHANGED loop
    BY <1>5 DEF LeaveLoop, Abort, ringVars, diskVars
  <2>2. BlocksOnce' /\ \A i \in Int : Held(i)' = Held(i)
    BY <1>0, <2>1, BlocksUntouched
  <2>3. BringsNewBlock'
    BY <1>0, <2>1 DEF BringsNewBlock, stopping
  <2>4. StopIsLast'
    BY <1>0, <2>1, <2>2 DEF StopIsLast
  <2>5. CountsMissing'
    BY <1>0, <2>1 DEF CountsMissing, stopping, TransferDone
  <2>6. QED
    BY <2>2, <2>3, <2>4, <2>5 DEF ContentInv
<1>6. CASE JoinDiskThread
  <2> USE <1>6 DEF JoinDiskThread, ringVars, diskVars
  <2>1. BlocksOnce' /\ \A i \in Int : Held(i)' = Held(i)
    BY <1>0, BlocksUntouched
  <2>2. BringsNewBlock' /\ CountsMissing'
    BY <1>0 DEF BringsNewBlock, CountsMissing, stopping
  <2>3. StopIsLast'
    <3>1. Held(count_data - 1)' = Held(count_data - 1)
      BY DEF Held
    <3>2. QED
      BY <1>0, <2>1, <3>1 DEF StopIsLast, stopping
  <2>4. QED
    BY <2>1, <2>2, <2>3 DEF ContentInv
<1>7. CASE ring_peek
  <2> USE <1>7 DEF ring_peek, ringVars, netVars
  <2>1. /\ diskPc \in {"peek", "peek_wait"} /\ diskPc' \in {"peek_wait", "accept"}
        /\ UNCHANGED <<env, base_data, count_data, datagrams, netPc, this_block, datagram, received,
                       blocks_left, loop, file>>
    BY DEF WaitForData, FoundData
  <2>2. BlocksOnce' /\ \A i \in Int : Held(i)' = Held(i)
    BY <1>0, <2>1, BlocksUntouched
  <2>3. BringsNewBlock' /\ CountsMissing'
    BY <1>0, <2>1 DEF BringsNewBlock, CountsMissing, stopping
  <2>4. StopIsLast'
    <3>1. Held(count_data - 1)' = Held(count_data - 1)
      BY <2>1 DEF Held
    <3>2. netPc # "done"
      BY DEF RingExists
    <3>3. QED
      BY <1>0, <2>1, <2>2, <3>1, <3>2 DEF StopIsLast, stopping
  <2>5. QED
    BY <2>2, <2>3, <2>4 DEF ContentInv
<1>8. CASE AcceptBlock
  BY <1>8, AcceptContent
<1>9. CASE ring_pop
  BY <1>9, PopContent
<1>10. CASE SpuriousWakeup \/ UNCHANGED vars
  <2>1. UNCHANGED <<env, base_data, count_data, datagrams, netPc, this_block, datagram, received,
                    blocks_left, loop, diskPc, address, file>>
    BY <1>10 DEF SpuriousWakeup, vars, ringVars, netVars, diskVars
  <2>2. BlocksOnce' /\ \A i \in Int : Held(i)' = Held(i)
    BY <1>0, <2>1, BlocksUntouched
  <2>3. BringsNewBlock' /\ CountsMissing'
    BY <1>0, <2>1 DEF BringsNewBlock, CountsMissing, stopping
  <2>4. StopIsLast'
    <3>1. Held(count_data - 1)' = Held(count_data - 1)
      BY <2>1 DEF Held
    <3>2. QED
      BY <1>0, <2>1, <2>2, <3>1 DEF StopIsLast, stopping
  <2>5. QED
    BY <2>2, <2>3, <2>4 DEF ContentInv
<1>11. QED
  BY <1>1, <1>2, <1>3, <1>4, <1>5, <1>6, <1>7, <1>8, <1>9, <1>10
     DEF Next, Network, Disk, Returned

\* The bitmap, the ring, the file and the countdown hang together in every
\* reachable state, for every ring, file, client and combination of faults.
THEOREM ContentInvariant == Spec => []ContentInv
BY InitContentInv, StepContentInv, RingInvariant, PTL DEF Spec

\* The disk thread reads only what was confirmed and is not in the file yet.
THEOREM DiskReadsConfirmed == Spec => []ReadsConfirmedData
<1>1. RingInv /\ ContentInv => ReadsConfirmedData
  <2> SUFFICES ASSUME RingInv, ContentInv, diskPc = "accept"
               PROVE  /\ datagrams[address] # Garbage
                      /\ \A i \in DOMAIN file : file[i] # datagrams[address]
    BY DEF ReadsConfirmedData
  <2>1. /\ count_data \in 1 .. MAX_BLOCKS_QUEUED /\ MAX_BLOCKS_QUEUED \in Nat \ {0}
        /\ address = base_data /\ First = 0 /\ received \subseteq 0 .. BLOCK_COUNT
    BY RingNumbers DEF RingInv, DiskHoldsSlot, First
  <2>2. 0 \in Pending /\ 0 \in 0 .. count_data - 1 /\ Held(0) = datagrams[address]
    BY <2>1, HeldFirst DEF Pending
  <2>3. ~ InFile(Held(0)) /\ Held(0) \in received \cup {StopBlock}
    BY <2>2 DEF ContentInv, BlocksOnce
  <2>4. Held(0) # Garbage
    BY <2>1, <2>3, RingNumbers DEF Garbage, StopBlock
  <2>5. QED
    BY <2>2, <2>3, <2>4 DEF InFile
<1>2. QED BY <1>1, RingInvariant, ContentInvariant, PTL

\* Only a failed write or a block 0 made by a failed recvfrom lets command_get
\* report a block that is not in the file, or a lossless transfer with a gap.
THEOREM ReportsAreTrue == Spec => []FalseOnlyIfCutShort
<1>1. RingInv /\ ContentInv => FalseOnlyIfCutShort
  <2> SUFFICES ASSUME RingInv, ContentInv, ~ CutShort, netPc = "done"
               PROVE  /\ \A b \in received \ {0} : \E i \in DOMAIN file : file[i] = b
                      /\ env.lossless => received \ {0} = 1 .. BLOCK_COUNT
    BY DEF FalseOnlyIfCutShort, ReportIsTrue
  <2>1. /\ MAX_BLOCKS_QUEUED \in Nat \ {0} /\ BLOCK_COUNT \in Nat
        /\ count_data \in 1 .. MAX_BLOCKS_QUEUED /\ received \subseteq 0 .. BLOCK_COUNT
        /\ stopping /\ diskPc = "exit" /\ address = base_data
    BY RingNumbers DEF ContentInv, StopIsLast
  <2>2. CASE BLOCK_COUNT = 0
    BY <2>1, <2>2
  <2>3. CASE BLOCK_COUNT # 0
    <3>1. 0 \notin received /\ datagrams[address] = StopBlock
      BY <2>1, <2>3 DEF CutShort
    <3>2. Held(0) = StopBlock /\ 0 \in 0 .. count_data - 1
      BY <2>1, <3>1, HeldFirst
    <3>3. count_data = 1
      BY <2>1, <3>1, <3>2 DEF ContentInv, StopIsLast
    <3>4. Pending = {0}
      BY <2>1, <3>3 DEF Pending, First
    <3>5. \A b \in received \ {0} : InFile(b)
      BY <3>2, <3>4 DEF ContentInv, BlocksOnce, StopBlock
    <3>6. env.lossless => received = 1 .. BLOCK_COUNT
      <4> SUFFICES ASSUME env.lossless PROVE received = 1 .. BLOCK_COUNT
        OBVIOUS
      <4>1. Cardinality(1 .. BLOCK_COUNT \ received) = 0
        BY <2>1, <3>1 DEF ContentInv, CountsMissing
      <4>2. IsFiniteSet(1 .. BLOCK_COUNT \ received)
        <5>1. IsFiniteSet(1 .. BLOCK_COUNT) /\ 1 .. BLOCK_COUNT \ received \in SUBSET (1 .. BLOCK_COUNT)
          BY <2>1, FS_Interval
        <5>2. QED
          BY <5>1, FS_Subset
      <4>3. 1 .. BLOCK_COUNT \ received = {}
        BY <4>1, <4>2, FS_EmptySet
      <4>4. received \subseteq 1 .. BLOCK_COUNT
        BY <2>1, <3>1
      <4>5. QED
        BY <4>3, <4>4
    <3>7. QED
      BY <3>1, <3>5, <3>6 DEF InFile
  <2>4. QED
    BY <2>2, <2>3
<1>2. QED BY <1>1, RingInvariant, ContentInvariant, PTL

-----------------------------------------------------------------------------
(* The ring and the disk thread implement the pipe. *)

\* A step in terms of the pipe.
PipeStep ==
  \/ UNCHANGED <<Unwritten, file, PipeState>>
  \/ /\ PipeState = "open" /\ Len(Unwritten) < MAX_BLOCKS_QUEUED
     /\ \E b \in 1 .. BLOCK_COUNT : Unwritten' = Append(Unwritten, b)
     /\ UNCHANGED <<file, PipeState>>
  \/ /\ PipeState = "open" /\ PipeState' \in {"closed", "abandoned"}
     /\ UNCHANGED <<Unwritten, file>>
  \/ /\ PipeState # "abandoned" /\ Unwritten # <<>>
     /\ file' = Append(file, Head(Unwritten)) /\ Unwritten' = Tail(Unwritten)
     /\ UNCHANGED PipeState

\* Where the network thread is decides the state of the pipe.
LEMMA PipeStates ==
  /\ netPc \in {"join", "done"} => PipeState = "closed"
  /\ netPc = "aborted" => PipeState = "abandoned"
  /\ netPc \notin {"join", "done", "aborted"} => PipeState = "open"
BY DEF PipeState

\* The queue of the pipe depends only on how many blocks wait and which.
LEMMA SameQueue ==
  ASSUME Waiting' = Waiting,
         \A i \in 1 .. Waiting : Held(First + i - 1)' = Held(First + i - 1)
  PROVE  Unwritten' = Unwritten
BY DEF Unwritten

\* Steps that leave the data of the ring and what waits for the disk alone.
LEMMA QueueUntouched ==
  ASSUME UNCHANGED <<base_data, count_data, datagrams, file>>,
         diskPc' = "pop" <=> diskPc = "pop",
         netPc' \in {"join", "done"} <=> netPc \in {"join", "done"}
  PROVE  UNCHANGED <<Unwritten, file>>
<1>1. First' = First /\ Waiting' = Waiting
  BY DEF First, Waiting
<1>2. \A i : Held(First + i - 1)' = Held(First + i - 1)
  BY <1>1 DEF Held
<1>3. QED
  BY <1>1, <1>2, SameQueue

\* A confirmed block is put in, the confirmed stop block closes the pipe.
LEMMA ConfirmPipe ==
  ASSUME RingInv, ContentInv, env.faults = {}, ring_confirm
  PROVE  PipeStep
<1> USE DEF ring_confirm, ConfirmSlot, diskVars
<1>0. /\ MAX_BLOCKS_QUEUED \in Nat \ {0} /\ BLOCK_COUNT \in Nat /\ base_data \in Slots
      /\ count_data \in 0 .. MAX_BLOCKS_QUEUED - 1 /\ count_data' = count_data + 1
      /\ datagram = (base_data + count_data) % MAX_BLOCKS_QUEUED
      /\ First \in {0, 1} /\ this_block \in 0 .. BLOCK_COUNT
  BY RingNumbers DEF RingInv, TypeOK, RingTypeOK, NetHoldsSlot, FlagsMatchCounts
<1>1. First' = First /\ First <= count_data
  BY <1>0 DEF First, RingInv, DiskHoldsSlot
<1>2. \A i : Held(i)' = Held(i) /\ Held(First + i - 1)' = Held(First + i - 1)
  BY <1>1 DEF Held
<1>3. PipeState = "open" /\ UNCHANGED file /\ netPc = "confirm"
  BY PipeStates
<1>4. CASE stopping /\ netPc' = "join"
  <2>1. Waiting' = Waiting
    BY <1>0, <1>1, <1>3, <1>4 DEF Waiting
  <2>2. Unwritten' = Unwritten
    BY <1>2, <2>1, SameQueue
  <2>3. PipeState' = "closed"
    BY <1>4 DEF PipeState
  <2>4. QED
    BY <1>3, <2>2, <2>3 DEF PipeStep
<1>5. CASE ~ stopping /\ netPc' \in {"recv", "reserve"}
  <2>1. PipeState' = "open"
    BY <1>5 DEF PipeState
  <2>2. CASE BLOCK_COUNT = 0
    <3>1. Waiting' = Waiting
      BY <2>2 DEF Waiting
    <3>2. Unwritten' = Unwritten
      BY <1>2, <3>1, SameQueue
    <3>3. QED
      BY <1>3, <2>1, <3>2 DEF PipeStep
  <2>3. CASE BLOCK_COUNT # 0
    <3> DEFINE n == count_data - First
    <3>1. n \in Nat /\ n < MAX_BLOCKS_QUEUED /\ Waiting = n /\ Waiting' = n + 1
      BY <1>0, <1>1, <1>3, <1>5, <2>3 DEF Waiting
    <3>2. this_block \in 1 .. BLOCK_COUNT
      BY <1>0, <1>3, <1>5, <2>3 DEF ContentInv, BringsNewBlock
    <3>3. Held(First + (n + 1) - 1) = this_block
      <4>1. First + (n + 1) - 1 = count_data
        BY <1>0
      <4>2. Held(count_data) = this_block
        BY <1>0, <1>3, <1>5 DEF Held, ContentInv, BringsNewBlock
      <4>3. QED
        BY <4>1, <4>2
    <3>4. Unwritten = [i \in 1 .. n |-> Held(First + i - 1)]
          /\ Unwritten' = [i \in 1 .. n + 1 |-> Held(First + i - 1)]
      BY <1>2, <3>1 DEF Unwritten
    <3> HIDE DEF n
    <3>5. Len(Unwritten) = n /\ Unwritten' = Append(Unwritten, this_block)
      BY <3>1, <3>3, <3>4
    <3>6. QED
      BY <1>3, <2>1, <3>1, <3>2, <3>5 DEF PipeStep
  <2>4. QED
    BY <2>2, <2>3
<1>6. QED
  BY <1>4, <1>5

\* A written block is the oldest one of the pipe.
LEMMA AcceptPipe ==
  ASSUME RingInv, ContentInv, AcceptBlock
  PROVE  PipeStep
<1> USE DEF AcceptBlock, ringVars, netVars
<1>0. /\ MAX_BLOCKS_QUEUED \in Nat \ {0} /\ BLOCK_COUNT \in Nat /\ base_data \in Slots
      /\ count_data \in 1 .. MAX_BLOCKS_QUEUED /\ address = base_data /\ First = 0
      /\ received \subseteq 0 .. BLOCK_COUNT
  BY RingNumbers DEF RingInv, DiskHoldsSlot, First
<1>1. Held(0) = datagrams[address] /\ \A i : Held(i)' = Held(i)
  BY <1>0, HeldFirst DEF Held
<1>2. PipeState' = PipeState /\ PipeState # "abandoned"
  BY PipeStates DEF PipeState, RingExists
<1>3. CASE diskPc' = "exit" /\ UNCHANGED file
  BY <1>2, <1>3, QueueUntouched DEF PipeStep
<1>4. CASE /\ datagrams[address] # StopBlock
           /\ diskPc' = "pop" /\ file' = Append(file, datagrams[address])
  <2>1. BLOCK_COUNT # 0
    <3>1. Held(0) \in received \cup {StopBlock}
      BY <1>0 DEF ContentInv, BlocksOnce
    <3>2. Held(0) # 0
      BY <1>1, <1>4 DEF StopBlock
    <3>3. Held(0) \in 0 .. BLOCK_COUNT
      BY <1>0, <3>1, <3>2 DEF StopBlock
    <3> HIDE DEF AcceptBlock
    <3>4. QED
      BY <1>0, <3>2, <3>3
  <2>2. netPc = "join" => count_data # 1
    <3>1. netPc = "join" => Held(count_data - 1) = StopBlock
      BY DEF ContentInv, StopIsLast
    <3>2. count_data = 1 => count_data - 1 = 0
      OBVIOUS
    <3>3. QED
      BY <1>1, <1>4, <3>1, <3>2
  <2> DEFINE n == count_data - (IF netPc = "join" THEN 1 ELSE 0)
  <2>3. n \in Nat /\ n >= 1 /\ Waiting = n /\ Waiting' = n - 1 /\ First' = 1
    BY <1>0, <1>4, <2>1, <2>2 DEF Waiting, First, RingExists
  <2>4. Unwritten = [i \in 1 .. n |-> Held(i - 1)]
    <3>1. \A i \in 1 .. n : First + i - 1 = i - 1
      BY <1>0
    <3> HIDE DEF n
    <3>2. Unwritten = [i \in 1 .. n |-> Held(First + i - 1)]
      BY <2>3 DEF Unwritten
    <3>3. QED
      BY <3>1, <3>2
  <2>5. Unwritten' = [i \in 1 .. n - 1 |-> Held(i)]
    <3> HIDE DEF n
    <3>1. \A i \in 1 .. n - 1 : Held(First + i - 1)' = Held(i)
      <4> SUFFICES ASSUME NEW i \in 1 .. n - 1 PROVE Held(First + i - 1)' = Held(i)
        OBVIOUS
      <4>1. First' + i - 1 = i
        BY <2>3
      <4>2. QED
        BY <4>1 DEF Held
    <3>2. Unwritten' = [i \in 1 .. n - 1 |-> Held(First + i - 1)']
      BY <2>3 DEF Unwritten
    <3>3. QED
      BY <3>1, <3>2
  <2> HIDE DEF n
  <2>6. \A i \in 1 .. n - 1 : Held((i + 1) - 1) = Held(i)
    <3> TAKE i \in 1 .. n - 1
    <3>1. (i + 1) - 1 = i
      OBVIOUS
    <3>2. QED
      BY <3>1
  <2>7. Len(Unwritten) = n /\ Unwritten # <<>> /\ Head(Unwritten) = Held(0)
    BY <2>3, <2>4
  <2>8. Unwritten' = Tail(Unwritten)
    <3>1. Tail(Unwritten) = [i \in 1 .. n - 1 |-> Unwritten[i + 1]]
      BY <2>3, <2>4, <2>7
    <3>2. \A i \in 1 .. n - 1 : Unwritten[i + 1] = Held(i)
      BY <2>3, <2>4, <2>6
    <3>3. QED
      BY <2>5, <3>1, <3>2
  <2>9. QED
    BY <1>1, <1>2, <1>4, <2>7, <2>8 DEF PipeStep
<1>5. QED
  BY <1>3, <1>4

\* Every step is one of the pipe, if the transfer meets no fault.
LEMMA StepPipe ==
  ASSUME RingInv, RingInv', ContentInv, ContentInv', env.faults = {}, [Next]_vars
  PROVE  PipeStep
<1>1. CASE Receive \/ ring_reserve \/ ring_reserve_wakes \/ LeaveLoop
  <2>1. /\ UNCHANGED <<base_data, count_data, datagrams, file, diskPc>>
        /\ netPc \notin {"join", "done", "aborted"} /\ netPc' \notin {"join", "done", "aborted"}
    BY <1>1 DEF Receive, ring_reserve, ring_reserve_wakes, TakeSlot, WaitForSpace, LeaveLoop,
                ringVars, diskVars
  <2>2. PipeState' = PipeState
    BY <2>1 DEF PipeState
  <2>3. QED
    BY <2>1, <2>2, QueueUntouched DEF PipeStep
<1>2. CASE CopyDatagram
  <2> USE <1>2 DEF CopyDatagram, ringVars, diskVars
  <2>0. /\ MAX_BLOCKS_QUEUED \in Nat \ {0} /\ base_data \in Slots /\ First \in {0, 1}
        /\ count_data \in 0 .. MAX_BLOCKS_QUEUED - 1
        /\ datagram = (base_data + count_data) % MAX_BLOCKS_QUEUED
        /\ datagrams \in [Slots -> {Garbage} \cup 0 .. BLOCK_COUNT]
    BY RingNumbers DEF RingInv, TypeOK, RingTypeOK, NetHoldsSlot, FlagsMatchCounts
  <2>1. First' = First /\ Waiting' = Waiting /\ Waiting <= count_data - First /\ First <= count_data
    BY <2>0 DEF First, Waiting, RingInv, DiskHoldsSlot
  <2>2. \A i \in 1 .. Waiting : Held(First + i - 1)' = Held(First + i - 1)
    <3> SUFFICES ASSUME NEW i \in 1 .. Waiting
                 PROVE  Held(First + i - 1)' = Held(First + i - 1)
      OBVIOUS
    <3> DEFINE k == First + i - 1
    <3>1. Waiting \in Int
      BY <2>0 DEF Waiting
    <3>2. k \in 0 .. MAX_BLOCKS_QUEUED - 1 /\ k # count_data
      BY <2>0, <2>1, <3>1
    <3> HIDE DEF k
    <3>3. (base_data + k) % MAX_BLOCKS_QUEUED # datagram
      BY <2>0, <3>2, SlotsDiffer
    <3>4. (base_data + k) % MAX_BLOCKS_QUEUED \in Slots
      BY <2>0, <3>2, AdvanceSlot
    <3>5. datagrams'[(base_data + k) % MAX_BLOCKS_QUEUED] = datagrams[(base_data + k) % MAX_BLOCKS_QUEUED]
      BY <2>0, <3>3, <3>4
    <3>6. QED
      BY <2>1, <3>5 DEF Held, k
  <2>3. PipeState' = PipeState
    BY DEF PipeState
  <2>4. QED
    BY <2>1, <2>2, <2>3, SameQueue DEF PipeStep
<1>3. CASE ring_confirm
  BY <1>3, ConfirmPipe
<1>4. CASE JoinDiskThread
  <2>1. UNCHANGED <<Unwritten, file>>
    BY <1>4, QueueUntouched DEF JoinDiskThread, ringVars, diskVars
  <2>2. PipeState' = PipeState
    BY <1>4 DEF JoinDiskThread, PipeState
  <2>3. QED
    BY <2>1, <2>2 DEF PipeStep
<1>5. CASE Abort
  <2>1. UNCHANGED <<Unwritten, file>>
    BY <1>5, QueueUntouched DEF Abort, ringVars, diskVars
  <2>2. PipeState = "open" /\ PipeState' = "abandoned"
    BY <1>5 DEF Abort, PipeState
  <2>3. QED
    BY <2>1, <2>2 DEF PipeStep
<1>6. CASE ring_peek \/ SpuriousWakeup \/ UNCHANGED vars
  <2>1. /\ UNCHANGED <<base_data, count_data, datagrams, file, netPc>>
        /\ diskPc' = "pop" <=> diskPc = "pop"
    BY <1>6 DEF ring_peek, WaitForData, FoundData, SpuriousWakeup, vars, ringVars, netVars, diskVars
  <2>2. PipeState' = PipeState
    BY <2>1 DEF PipeState
  <2>3. QED
    BY <2>1, <2>2, QueueUntouched DEF PipeStep
<1>7. CASE AcceptBlock
  BY <1>7, AcceptPipe
<1>8. CASE ring_pop
  <2> USE <1>8 DEF ring_pop, PopSlot, netVars
  <2>0. /\ MAX_BLOCKS_QUEUED \in Nat \ {0} /\ base_data \in Slots
        /\ count_data \in 1 .. MAX_BLOCKS_QUEUED /\ base_data' \in Slots
    BY RingNumbers, AdvanceSlot DEF RingInv, DiskHoldsSlot
  <2>1. First = 1 /\ First' = 0 /\ Waiting' = Waiting /\ Waiting \in Int /\ Waiting <= count_data - 1
    BY <2>0 DEF First, Waiting
  <2>2. \A i \in 1 .. Waiting : Held(First + i - 1)' = Held(First + i - 1)
    <3> SUFFICES ASSUME NEW i \in 1 .. Waiting
                 PROVE  Held(First + i - 1)' = Held(First + i - 1)
      OBVIOUS
    <3> DEFINE k == i - 1
    <3>1. k \in 0 .. MAX_BLOCKS_QUEUED - 1 /\ First' + i - 1 = k
          /\ base_data + (First + i - 1) = base_data + k + 1
      BY <2>0, <2>1 DEF Slots
    <3> HIDE DEF k
    <3>2. (Advance(base_data) + k) % MAX_BLOCKS_QUEUED = (base_data + k + 1) % MAX_BLOCKS_QUEUED
      BY <2>0, <3>1, AdvanceSlot
    <3>3. QED
      BY <3>1, <3>2 DEF Held
  <2>3. PipeState' = PipeState
    BY DEF PipeState
  <2>4. QED
    BY <2>1, <2>2, <2>3, SameQueue DEF PipeStep
<1>9. QED
  BY <1>1, <1>2, <1>3, <1>4, <1>5, <1>6, <1>7, <1>8 DEF Next, Network, Disk, Returned

\* Without faults the ring and the disk thread are a bounded first-in first-out
\* pipe to the file, in both clients, for every ring size and every file.
THEOREM RingIsPipe == Spec => PipeSteps
<1>1. Init => Pipe!Init
  <2> SUFFICES ASSUME Init PROVE Pipe!Init
    OBVIOUS
  <2>1. file = <<>> /\ PipeState = "open"
    BY PipeStates DEF Init
  <2>2. Unwritten = <<>>
    <3>1. 1 .. Waiting = {}
      BY DEF Init, Waiting, First
    <3>2. QED
      BY <3>1 DEF Unwritten
  <2>3. QED
    BY <2>1, <2>2 DEF Pipe!Init, OfPipe
<1>2. RingInv /\ RingInv' /\ ContentInv /\ ContentInv' /\ [Next]_vars => [Pipe!Next]_(Pipe!pipeVars)
  <2> SUFFICES ASSUME RingInv, RingInv', ContentInv, ContentInv', [Next]_vars
               PROVE  [Pipe!Next]_(Pipe!pipeVars)
    OBVIOUS
  <2>1. env' = env
    BY DEF Next, Network, Disk, Returned, Receive, ring_reserve, ring_reserve_wakes, CopyDatagram,
           ring_confirm, LeaveLoop, JoinDiskThread, Abort, ring_peek, AcceptBlock, ring_pop,
           SpuriousWakeup, vars
  <2>2. CASE env.faults # {}
    BY <2>1, <2>2 DEF OfPipe, Pipe!pipeVars
  <2>3. CASE env.faults = {}
    <3>1. PipeStep
      BY <2>3, StepPipe
    <3>2. /\ OfPipe(Unwritten, <<>>) = Unwritten /\ OfPipe(Unwritten, <<>>)' = Unwritten'
          /\ OfPipe(file, <<>>) = file /\ OfPipe(file, <<>>)' = file'
          /\ OfPipe(PipeState, "open") = PipeState /\ OfPipe(PipeState, "open")' = PipeState'
      BY <2>1, <2>3 DEF OfPipe
    <3>3. CASE UNCHANGED <<Unwritten, file, PipeState>>
      BY <3>2, <3>3 DEF Pipe!pipeVars
    <3>4. CASE /\ PipeState = "open" /\ Len(Unwritten) < MAX_BLOCKS_QUEUED
               /\ \E b \in 1 .. BLOCK_COUNT : Unwritten' = Append(Unwritten, b)
               /\ UNCHANGED <<file, PipeState>>
      BY <3>2, <3>4 DEF Pipe!Next, Pipe!Put
    <3>5. CASE /\ PipeState = "open" /\ PipeState' \in {"closed", "abandoned"}
               /\ UNCHANGED <<Unwritten, file>>
      BY <3>2, <3>5 DEF Pipe!Next, Pipe!Close, Pipe!Abandon
    <3>6. CASE /\ PipeState # "abandoned" /\ Unwritten # <<>>
               /\ file' = Append(file, Head(Unwritten)) /\ Unwritten' = Tail(Unwritten)
               /\ UNCHANGED PipeState
      BY <3>2, <3>6 DEF Pipe!Next, Pipe!Store
    <3>7. QED
      BY <3>1, <3>3, <3>4, <3>5, <3>6 DEF PipeStep
  <2>4. QED
    BY <2>2, <2>3
<1>3. QED
  BY <1>1, <1>2, RingInvariant, ContentInvariant, PTL DEF Spec, PipeSteps, Pipe!SafeSpec
=============================================================================
