----------------------------- MODULE RingBuffer -----------------------------
(***************************************************************************)
(* The ring buffer between the network thread and the disk thread of a     *)
(* Tsunami client (client/ring.c), with the part of the receive loop       *)
(* (command_get in client/command.c) that fills it and the disk thread     *)
(* (disk_thread) that empties it.  The real-time client has the same ring  *)
(* and disk thread, and a receive loop that does not ask whether the ring  *)
(* is full (rtclient/command.c).                                           *)
(*                                                                         *)
(* Every access to the ring's own fields happens under ring->mutex, so the *)
(* critical section of each ring_* function is one action.  A thread that  *)
(* calls pthread_cond_wait releases the mutex and sleeps: it then goes     *)
(* through a "..._wait" state, may be woken by a signal or spuriously, and *)
(* tests the condition again.  The slots themselves are written and read   *)
(* OUTSIDE the mutex, so these accesses are actions of their own.          *)
(***************************************************************************)
EXTENDS Integers, Sequences, FiniteSets

CONSTANTS
  MAX_BLOCKS_QUEUED,  \* number of slots of the ring
  BLOCK_COUNT,        \* number of blocks of the file: xfer->block_count
  ENVIRONMENTS        \* the environments to choose from, one for each transfer

\* Which client runs, session->parameter->lossless, and what may go wrong:
\* recvfrom may return an error, accept_block may fail (disk full, I/O error).
Environment == [program : {"client", "rtclient"}, lossless : BOOLEAN,
                faults : SUBSET {"recv", "disk"}]

ASSUME RingAssumption ==
  /\ MAX_BLOCKS_QUEUED \in Nat \ {0}
  /\ BLOCK_COUNT \in Nat
  /\ ENVIRONMENTS \subseteq Environment

StopBlock == 0                         \* "the mythical 0 block"
Garbage   == -1                        \* what malloc left in a slot
Slots     == 0 .. MAX_BLOCKS_QUEUED - 1

\* The block numbers the server sends: an empty file is sent as block 0.
SentBlock == IF BLOCK_COUNT = 0 THEN {0} ELSE 1 .. BLOCK_COUNT

VARIABLES
  env,            \* the environment of this transfer
  base_data, count_data, count_reserved,  \* ring_buffer_t, guarded by the mutex
  data_ready, space_ready,                \* the predicates of the two condvars
  datagrams,      \* the block number held by each slot
  asleep,         \* threads inside pthread_cond_wait
  netPc,          \* where the network thread is
  this_block,     \* block number in the local datagram of command_get
  next,           \* ring_reserve's local, computed before it may wait
  datagram,       \* slot that ring_reserve returned
  received,       \* xfer->received, the bitmap
  blocks_left,    \* xfer->blocks_left
  loop,           \* the receive loop: "running", or "left" for the stop block
  diskPc,         \* where the disk thread is
  address,        \* slot that ring_peek returned
  file            \* the blocks written to the local file, in order

ringVars == <<base_data, count_data, count_reserved, data_ready, space_ready>>
netVars  == <<netPc, this_block, next, datagram, received, blocks_left, loop>>
diskVars == <<diskPc, address, file>>
vars     == <<env, ringVars, datagrams, asleep, netVars, diskVars>>

-----------------------------------------------------------------------------
(* The ring's arithmetic. *)

Advance(i) == (i + 1) % MAX_BLOCKS_QUEUED

\* Mutants: the base is forgotten; the slot after the free one is taken.
FirstFreeSlotNoBase   == (count_data + count_reserved) % MAX_BLOCKS_QUEUED
FirstFreeSlotOffByOne == (base_data + count_data + count_reserved + 1) % MAX_BLOCKS_QUEUED

\* The slot after the last one in use; pops do not change it.
FirstFreeSlot == (base_data + count_data + count_reserved) % MAX_BLOCKS_QUEUED

\* Mutant: the ring is declared full one slot too late.
FillsRingLate(s) == count_data > 0 /\ s = base_data

\* Reserving slot s fills the ring when the slot after it is the oldest one.
FillsRing(s) == Advance(s) = base_data

ring_full == space_ready = 0

stopping == loop = "left"

got_block(b) == b > BLOCK_COUNT \/ b \in received

\* Mutant: the receive loop does not ask whether the ring is full.
NeverAsks == FALSE

\* The client drops a datagram that finds the ring full; the real-time client
\* does not ask and waits in ring_reserve.
DropsDatagram == env.program = "client" /\ ring_full

\* Mutant: a block that is already there is stored again.
StoresAgain(b) == ~DropsDatagram /\ b <= BLOCK_COUNT

\* The receive loop stores a block it does not have.
Wanted(b) == ~DropsDatagram /\ ~got_block(b)

\* Mutant: the signal is forgotten.
SignalNobody(thread) == UNCHANGED asleep

Signal(thread) == asleep' = asleep \ {thread}

\* The ring is destroyed at the end of command_get, on either path.
RingExists == netPc \notin {"done", "aborted"}

-----------------------------------------------------------------------------
(* ring_create, pthread_create and the start of the receive loop. *)

Init ==
  /\ env \in ENVIRONMENTS
  /\ base_data = 0 /\ count_data = 0 /\ count_reserved = 0
  /\ data_ready = 0 /\ space_ready = 1
  /\ datagrams = [s \in Slots |-> Garbage]
  /\ asleep = {}
  /\ netPc = "recv" /\ this_block = 0 /\ next = 0 /\ datagram = 0
  /\ received = {} /\ blocks_left = BLOCK_COUNT /\ loop = "running"
  /\ diskPc = "peek" /\ address = 0 /\ file = <<>>

(* The network thread. *)

\* One pass of the loop up to ring_reserve.  A datagram that finds the ring
\* full, or whose block is already there, is not stored.  When recvfrom fails
\* the pass goes on with what the local datagram held before, zeroes at first.
Receive ==
  /\ netPc = "recv"
  /\ this_block' \in SentBlock \cup (IF "recv" \in env.faults THEN {this_block} ELSE {})
  /\ netPc' = IF Wanted(this_block') THEN "reserve" ELSE "recv"
  /\ UNCHANGED <<env, ringVars, datagrams, asleep, next, datagram, received,
                 blocks_left, loop, diskVars>>

\* The tail of ring_reserve, once space_ready holds.  error() exits.
TakeSlot(s) ==
  /\ count_reserved' = count_reserved + 1
  /\ netPc' = IF count_reserved' > 1 THEN "error" ELSE "copy"
  /\ space_ready' = IF FillsRing(s) THEN 0 ELSE space_ready
  /\ datagram' = s
  /\ UNCHANGED <<base_data, count_data, data_ready, asleep>>

WaitForSpace ==
  /\ netPc' = "reserve_wait"
  /\ asleep' = asleep \cup {"net"}
  /\ UNCHANGED <<ringVars, datagram>>

ring_reserve ==
  /\ netPc = "reserve"
  /\ next' = FirstFreeSlot
  /\ IF ring_full THEN WaitForSpace ELSE TakeSlot(next')
  /\ UNCHANGED <<env, datagrams, this_block, received, blocks_left, loop, diskVars>>

\* The while loop around pthread_cond_wait: it tests again with the old next.
ring_reserve_wakes ==
  /\ netPc = "reserve_wait" /\ "net" \notin asleep
  /\ IF ring_full THEN WaitForSpace ELSE TakeSlot(next)
  /\ UNCHANGED <<env, datagrams, next, this_block, received, blocks_left, loop, diskVars>>

\* memcpy of the local datagram, or the store of block number 0, into the slot.
CopyDatagram ==
  /\ netPc = "copy"
  /\ datagrams' = [datagrams EXCEPT ![datagram] = IF stopping THEN StopBlock ELSE this_block]
  /\ netPc' = "confirm"
  /\ UNCHANGED <<env, ringVars, asleep, this_block, next, datagram, received,
                 blocks_left, loop, diskVars>>

\* Mutant: the loop is left with one block to go.
TransferDoneEarly(left) == env.lossless => left <= 1

\* The loop is left on a TERMINATE datagram, in lossless mode only when no
\* block is left.
TransferDone(left) == env.lossless => left = 0

\* The reserved slot becomes data.
ConfirmSlot ==
  /\ count_data' = count_data + 1
  /\ count_reserved' = count_reserved - 1
  /\ data_ready' = 1

\* ring_confirm, then the bitmap and the countdown.  A TERMINATE datagram
\* carries the last block, so storing that block may end the loop at once.
ring_confirm ==
  /\ netPc = "confirm"
  /\ ConfirmSlot
  /\ Signal("disk")
  /\ UNCHANGED <<env, base_data, space_ready, datagrams, this_block, next, datagram, diskVars>>
  /\ \/ /\ stopping
        /\ netPc' = "join"
        /\ UNCHANGED <<received, blocks_left, loop>>
     \/ /\ ~stopping
        /\ received' = received \cup {this_block}
        /\ blocks_left' = IF blocks_left > 0 THEN blocks_left - 1 ELSE 0
        /\ \/ netPc' = "recv" /\ UNCHANGED loop
           \/ /\ this_block = BLOCK_COUNT /\ TransferDone(blocks_left')
              /\ netPc' = "reserve" /\ loop' = "left"

\* A repeated TERMINATE datagram ends the loop, unless it is dropped.
LeaveLoop ==
  /\ netPc = "recv"
  /\ ~DropsDatagram
  /\ TransferDone(blocks_left)
  /\ this_block' = BLOCK_COUNT /\ got_block(this_block')
  /\ netPc' = "reserve" /\ loop' = "left"
  /\ UNCHANGED <<env, ringVars, datagrams, asleep, next, datagram, received, blocks_left, diskVars>>

\* A failed request to the server: goto abort, which destroys the ring.
Abort ==
  /\ netPc = "recv" \/ (netPc = "reserve" /\ stopping)
  /\ netPc' = "aborted"
  /\ UNCHANGED <<env, ringVars, datagrams, asleep, this_block, next, datagram, received,
                 blocks_left, loop, diskVars>>

\* pthread_join, the report, fclose and ring_destroy.
JoinDiskThread ==
  /\ netPc = "join" /\ diskPc = "exit"
  /\ netPc' = "done"
  /\ UNCHANGED <<env, ringVars, datagrams, asleep, this_block, next, datagram, received,
                 blocks_left, loop, diskVars>>

-----------------------------------------------------------------------------
(* The disk thread. *)

WaitForData == diskPc' = "peek_wait" /\ asleep' = asleep \cup {"disk"} /\ UNCHANGED address
FoundData   == diskPc' = "accept" /\ address' = base_data /\ UNCHANGED asleep

ring_peek ==
  /\ RingExists
  /\ \/ diskPc = "peek"
     \/ diskPc = "peek_wait" /\ "disk" \notin asleep
  /\ IF data_ready = 0 THEN WaitForData ELSE FoundData
  /\ UNCHANGED <<env, ringVars, datagrams, netVars, file>>

\* The slot is read outside the mutex: block 0 ends the thread, any other
\* block is written to the file.  A failed write ends the thread too.
AcceptBlock ==
  /\ RingExists /\ diskPc = "accept"
  /\ \/ /\ datagrams[address] = StopBlock
        /\ diskPc' = "exit" /\ UNCHANGED file
     \/ /\ datagrams[address] # StopBlock
        /\ diskPc' = "pop" /\ file' = Append(file, datagrams[address])
     \/ /\ datagrams[address] # StopBlock /\ "disk" \in env.faults
        /\ diskPc' = "exit" /\ UNCHANGED file
  /\ UNCHANGED <<env, ringVars, datagrams, asleep, netVars, address>>

\* Mutant: the last pop leaves data_ready set.
PopKeepsDataReady ==
  /\ base_data' = Advance(base_data)
  /\ count_data' = count_data - 1
  /\ space_ready' = 1
  /\ UNCHANGED data_ready

\* The oldest slot becomes free.
PopSlot ==
  /\ base_data' = Advance(base_data)
  /\ count_data' = count_data - 1
  /\ data_ready' = IF count_data' = 0 THEN 0 ELSE data_ready
  /\ space_ready' = 1

\* The wait of ring_pop is its guard: this thread alone makes the ring empty.
ring_pop ==
  /\ RingExists /\ diskPc = "pop"
  /\ data_ready = 1
  /\ PopSlot
  /\ Signal("net")
  /\ diskPc' = "peek"
  /\ UNCHANGED <<env, count_reserved, datagrams, netVars, address, file>>

-----------------------------------------------------------------------------
\* pthread_cond_wait may return without a signal.
SpuriousWakeup ==
  /\ RingExists
  /\ \E thread \in asleep : Signal(thread)
  /\ UNCHANGED <<env, ringVars, datagrams, netVars, diskVars>>

\* command_get has returned; what a disk thread left behind by an abort does
\* with the destroyed ring is undefined and not followed.
Returned == ~RingExists /\ UNCHANGED vars

Network == \/ Receive \/ ring_reserve \/ ring_reserve_wakes \/ CopyDatagram
           \/ ring_confirm \/ LeaveLoop \/ JoinDiskThread
Disk    == ring_peek \/ AcceptBlock \/ ring_pop
Next    == Network \/ Abort \/ Disk \/ SpuriousWakeup \/ Returned

\* Both threads keep running; datagrams need not arrive.
Fairness ==
  /\ WF_vars(ring_reserve \/ ring_reserve_wakes \/ CopyDatagram \/ ring_confirm \/ JoinDiskThread)
  /\ WF_vars(Disk)

Spec == Init /\ [][Next]_vars /\ Fairness

-----------------------------------------------------------------------------
(* Properties. *)

NetState  == {"recv", "reserve", "reserve_wait", "copy", "confirm", "join",
              "done", "aborted", "error"}
DiskState == {"peek", "peek_wait", "accept", "pop", "exit"}

RingTypeOK ==
  /\ env \in ENVIRONMENTS
  /\ base_data \in Slots
  /\ count_data \in 0 .. MAX_BLOCKS_QUEUED
  /\ count_reserved \in 0 .. 1
  /\ data_ready \in {0, 1} /\ space_ready \in {0, 1}
  /\ datagrams \in [Slots -> {Garbage} \cup 0 .. BLOCK_COUNT]
  /\ asleep \subseteq {"net", "disk"}

NetTypeOK ==
  /\ netPc \in NetState
  /\ this_block \in 0 .. BLOCK_COUNT
  /\ next \in Slots /\ datagram \in Slots
  /\ received \subseteq 0 .. BLOCK_COUNT
  /\ blocks_left \in 0 .. BLOCK_COUNT
  /\ loop \in {"running", "left"}

DiskTypeOK ==
  /\ diskPc \in DiskState
  /\ address \in Slots
  /\ file \in Seq(1 .. BLOCK_COUNT)

\* Every field of the ring and every local of the two threads has its type;
\* indices stay inside the ring and the counts inside its size.
TypeOK == RingTypeOK /\ NetTypeOK /\ DiskTypeOK

\* The network thread never writes the slot the disk thread is reading: both
\* copies in command_get and disk_thread run without the mutex.
NoDataRace == netPc = "copy" /\ diskPc = "accept" => datagram # address

\* A thread that sleeps on a condition variable sleeps on a false condition:
\* no signal of ring_confirm or ring_pop comes too early and is lost.
NoLostWakeup ==
  /\ "net" \in asleep => netPc = "reserve_wait" /\ space_ready = 0
  /\ "disk" \in asleep => diskPc = "peek_wait" /\ data_ready = 0

\* The receive loop of the client never blocks on the disk: what ring_full promised still
\* holds when ring_reserve is entered, and only the stop block can wait.
\* (command.c: "don't let disk-I/O freeze stop feedback of stats to server")
LoopNeverBlocks ==
  env.program = "client" =>
    /\ netPc = "reserve" /\ ~stopping => space_ready = 1
    /\ netPc = "reserve_wait" => stopping

\* The slot computed before the wait in ring_reserve is still the first free
\* one after it, however many blocks were popped during the wait.
NextSurvivesWait ==
  netPc = "reserve_wait" => count_reserved = 0 /\ next = FirstFreeSlot

\* The error exits of ring_reserve and ring_confirm are never taken, and
\* ring_pop never finds the ring empty.
NoRingError ==
  /\ netPc # "error"
  /\ netPc = "confirm" => count_reserved = 1
  /\ diskPc = "pop" => data_ready = 1

\* The flags that the waits test agree with the counts.
FlagsMatchCounts ==
  /\ count_data + count_reserved <= MAX_BLOCKS_QUEUED
  /\ data_ready = 1 <=> count_data > 0
  /\ space_ready = 1 <=> count_data + count_reserved < MAX_BLOCKS_QUEUED

\* What the disk thread reads is a datagram that was confirmed, never a slot
\* that still holds what malloc left in it or a block already written.
ReadsConfirmedData ==
  diskPc = "accept" => /\ datagrams[address] # Garbage
                       /\ \A i \in DOMAIN file : file[i] # datagrams[address]

\* When command_get reports the transfer, the file holds every block that the
\* bitmap says was received, and in lossless mode that is the whole file.
ReportIsTrue ==
  netPc = "done" => /\ \A b \in received \ {0} : \E i \in DOMAIN file : file[i] = b
                    /\ env.lossless => received \ {0} = 1 .. BLOCK_COUNT

\* The two ways in which the disk thread may end before the stop block: a
\* failed write, and a failed recvfrom that put a block 0 into the ring.
CutShort ==
  \/ diskPc = "exit" /\ datagrams[address] # StopBlock
  \/ BLOCK_COUNT # 0 /\ 0 \in received

\* Nothing else makes the report false: whatever the threads do, only a failed
\* write or a failed recvfrom lets command_get count a block that is not there.
FalseOnlyIfCutShort == ReportIsTrue \/ CutShort

\* One slot is reserved exactly while the network thread copies into it: it is
\* the one after the data, and it has been written before it is confirmed.
NetHoldsSlot ==
  /\ netPc # "error"
  /\ count_reserved = IF netPc \in {"copy", "confirm"} THEN 1 ELSE 0
  /\ netPc \in {"copy", "confirm"} => datagram = (base_data + count_data) % MAX_BLOCKS_QUEUED
  /\ netPc = "confirm" => datagrams[datagram] # Garbage

\* The disk thread works on the oldest slot.
DiskHoldsSlot == diskPc \in {"accept", "pop"} => count_data > 0 /\ address = base_data

\* No slot that counts as data still holds what malloc left in it.
DataIsWritten ==
  \A i \in 0 .. MAX_BLOCKS_QUEUED - 1 :
    i < count_data => datagrams[(base_data + i) % MAX_BLOCKS_QUEUED] # Garbage

\* The inductive invariant behind the safety properties: where each thread is
\* decides what is reserved, which slot it holds and what that slot contains.
RingInv ==
  /\ TypeOK
  /\ FlagsMatchCounts
  /\ NoLostWakeup
  /\ LoopNeverBlocks
  /\ NextSurvivesWait
  /\ NetHoldsSlot
  /\ DiskHoldsSlot
  /\ DataIsWritten

\* The block in the slot i places after the oldest one, and the first place that
\* is not in the file yet: a written block stays in the ring until ring_pop.
Held(i) == datagrams[(base_data + i) % MAX_BLOCKS_QUEUED]
First   == IF diskPc = "pop" THEN 1 ELSE 0
Pending == First .. count_data - 1

InFile(b) == \E k \in DOMAIN file : file[k] = b

\* A block of the bitmap is in the file or it waits in the ring, and only once.
BlocksOnce ==
  /\ \A i, j \in Pending : Held(i) = Held(j) => i = j \/ Held(i) = StopBlock
  /\ \A i \in Pending : ~InFile(Held(i))
  /\ diskPc = "pop" => InFile(Held(0))
  /\ \A i \in 0 .. count_data - 1 : Held(i) \in received \cup {StopBlock}
  /\ \A k \in DOMAIN file : file[k] \in received
  /\ \A b \in received \ {StopBlock} : InFile(b) \/ \E i \in Pending : Held(i) = b

\* What the network thread brings is new, and in its slot before it is confirmed.
BringsNewBlock ==
  /\ netPc \in {"reserve", "reserve_wait", "copy", "confirm"} /\ ~stopping =>
       /\ this_block \notin received
       /\ this_block = 0 => BLOCK_COUNT = 0 \/ "recv" \in env.faults
  /\ netPc = "confirm" => datagrams[datagram] = IF stopping THEN StopBlock ELSE this_block
  /\ 0 \in received => BLOCK_COUNT = 0 \/ "recv" \in env.faults

\* The stop block is the last one, unless a failed recvfrom brought another.
StopIsLast ==
  /\ netPc \in {"join", "done"} => stopping
  /\ netPc = "done" => diskPc = "exit"
  /\ diskPc = "exit" => count_data > 0 /\ address = base_data
  /\ 0 \notin received => \A i \in 0 .. count_data - 1 : Held(i) = StopBlock =>
                            netPc \in {"join", "done"} /\ i = count_data - 1
  /\ netPc \in {"join", "done"} => count_data > 0 /\ Held(count_data - 1) = StopBlock

\* The countdown that ends a lossless transfer counts the blocks still missing.
CountsMissing ==
  /\ 0 \notin received => blocks_left = Cardinality(1 .. BLOCK_COUNT \ received)
  /\ stopping /\ env.lossless => blocks_left = 0

\* The inductive invariant behind what the disk thread reads and what command_get
\* reports: how the bitmap, the ring, the file and the countdown hang together.
ContentInv == BlocksOnce /\ BringsNewBlock /\ StopIsLast /\ CountsMissing

\* Once the receive loop has been left, command_get returns: the stop block
\* gets its slot, reaches the disk thread and is joined.  Only a disk thread
\* that has ended before can leave it waiting for a slot.
StopIsReached == stopping ~> ~RingExists \/ CutShort

\* The ring and the disk thread implement the first-in first-out pipe, in both
\* clients.  A block leaves the queue when it is written, which is before
\* ring_pop.  A transfer that meets a fault stands for a pipe never used.
\* An empty file has no blocks: its block 0 ends the disk thread.
Waiting ==
  IF BLOCK_COUNT = 0 THEN 0
  ELSE count_data - First - (IF netPc \in {"join", "done"} THEN 1 ELSE 0)
Unwritten == [i \in 1 .. Waiting |-> Held(First + i - 1)]

PipeState == CASE netPc \in {"join", "done"} -> "closed"
               [] netPc = "aborted"          -> "abandoned"
               [] OTHER                      -> "open"

OfPipe(value, unused) == IF env.faults = {} THEN value ELSE unused

Pipe == INSTANCE DiskPipe WITH
          Block <- 1 .. BLOCK_COUNT, Capacity <- MAX_BLOCKS_QUEUED,
          queue <- OfPipe(Unwritten, <<>>), stored <- OfPipe(file, <<>>),
          pipe <- OfPipe(PipeState, "open")
PipeSpec == Pipe!Spec

\* Every step of both threads puts a block in, stores the oldest one, closes or
\* abandons the pipe, or does nothing to it.
PipeSteps == Pipe!SafeSpec
=============================================================================
