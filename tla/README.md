# A TLA+ model of Tsunami UDP

Tsunami UDP moves files over long, fast networks. Data goes in UDP datagrams; a
TCP connection carries the commands, the requests for lost blocks and the rate
feedback. This directory holds TLA+ modules of its clients and servers
(`src/tsunami-udp/`), the TLC configurations that check them on small instances,
and TLAPS proofs of what eight of the modules promise, for every size of the instance. `PROJECT.json` lists the
components, the runs, the source lines behind every definition, the hazards and
the theorems.

## 1. Inventory

### The programs

    client process                                     server process (one per client)
    ------------------------------                     -------------------------------
    user's commands                                    main(): accept, fork
       |                        TCP: commands,             |
    command_* / ttp_*  <----- requests, rate report -->  client_handler
       |                                                   |  send loop
    receive loop      <------- UDP: data blocks ---------  build_datagram
       |  ring buffer (mutex, 2 condvars)                  |
    disk thread -> local file                            file

The repository holds three servers with the same structure (`server` sends files,
`rtserver` the recording of a VSIB board with an optional local backup,
`mk5server` a Mark5 recorder) and two clients (`client`, `rtclient`).

| Component | State | Operations | What is hard |
|---|---|---|---|
| **Ring buffer and disk thread** (`client/ring.c`, `disk_thread`, `accept_block`) | `base_data`, two counts, two flags, the slots, the file | `ring_reserve`, `ring_confirm`, `ring_peek`, `ring_pop`, `ring_full` | two threads; the slots are read and written outside the mutex; a slot is computed before a wait and used after it; a failed write ends the thread silently |
| **Receive loop and retransmission table** (`command_get`, `ttp_request_retransmit`, `ttp_repeat_retransmit`) | bitmap, `blocks_left`, `next_block`, `gapless_to_block`, the table, the pending restart | handle a datagram, queue gaps, repeat requests, restart, end | loss, duplicates, reordering; restarts that race blocks in flight; three modes; unsigned arithmetic |
| **Send loop** (`client_handler`, `ttp_accept_retransmit`) | `xfer->block` | send the next block, serve a request, stop, give a silent client up | requests that arrive in the middle of the file; the last block repeated until the client says something |
| **Request assembly and heartbeat** (the `read` of the send loop) | buffer and length, `errno`, three clocks | partial reads, timeout, artificial report | the report overwrites a half-read request; a stale `errno` hides the end of the file; the three servers differ |
| **Control session** (`command_connect/dir/get/close`, `ttp_open_*`, `ttp_negotiate`, `ttp_authenticate`, `read_line`, `full_read`) | what each side reads next; unread messages; what stdio has not flushed | connect, `dir`, `get`, `get *`, `close` | messages without length or tag; either side may die; blocking reads on both sides; a heartbeat timeout |
| **Rate control** (`ttp_update_stats`, the REQUEST_ERROR_RATE branch) | error rate, inter-packet delay | report, slow down, speed up | filters, truncation and clamps in a feedback loop; divisions by client-chosen values |
| **Pacing** (the head and the end of the send loop) | the sleep due | correct, sleep, skip | late wake-ups, stalls, passes without sleep |
| **Block and file I/O** (`build_datagram`, `accept_block`) | file position, a static `last_block`, the backup | read, seek, write | the static survives a transfer; short reads; the size of the last block; datagrams of an earlier file |
| **Server main** (`main`, `reap`) | descriptors, session number, children | accept, fork, reap | several deaths for one signal; inherited descriptors |
| **Windows synchronisation** (`win32compat/pthreads-w32`) | interlocked words, events, semaphores, counters | mutex, semaphore, condition variable | timeouts that cross signals; the library's own races |
| Configuration, sockets, transcripts, MD5, utilities, EVN names | parameters | | sequential, or pure I/O |

### What makes each component correct

* Ring buffer: the two threads never touch one slot at once; nobody sleeps while
  there is something to do; the client's receive loop never waits for the disk;
  every block put in is written once and in order; the report of a transfer is
  false only after a fault.
* Receive loop: it leaves a lossless transfer only with the whole file; no gap
  behind the head is forgotten; the countdown agrees with the bitmap; restarts
  skip nothing; requests name blocks that exist.
* Client and server together: the server never sends for ever, in any mode; both
  sides finish, unless the server's heartbeat timeout or the client's abort ends the
  transfer; a server that stops because it was asked to does so after its client.
* Request assembly: no request is put together from the parts of two; a stop is
  obeyed; a silent client is given up.
* Control session: the two sides agree on which message comes next; only an
  accepted client is served; every command returns; a side whose peer is gone
  learns of it, where it looks at the connection at all.
* Rate control and pacing: the delay stays between the target and the ceiling and
  converges; over a whole transfer the rate asked for is neither exceeded nor,
  without stalls, missed, up to the fraction of a microsecond that each pass drops.
* File I/O: whatever is lost, repeated and restarted, the client's file is the
  server's file, byte by byte, and the backup is what was sent.
* Server main: a session that is over leaves no zombie and no open connection.
* Windows synchronisation: what POSIX promises.

## 2. Modules

| Module | Models | Extends / instantiates |
|---|---|---|
| `DiskPipe` | abstract: a bounded first-in first-out pipe to the file | |
| `RingBuffer` | the ring, the part of the receive loop that fills it, the disk thread, for both clients | instance of `DiskPipe` |
| `RingBufferProofs` | theorems about `RingBuffer` | `RingBuffer` |
| `FileCopy` | abstract: the copying of one file | |
| `Transfer` | one transfer: receive loop, network, control stream, send loop | instance of `FileCopy` |
| `TransferProofs` | theorems about `Transfer` | `Transfer` |
| `ControlSession` | one control connection, from connecting to its end | |
| `ControlSessionProofs` | theorems about `ControlSession` | `ControlSession` |
| `RequestStream` | abstract: requests are obeyed one by one or lost as a whole | |
| `ServerFeedback` | how the send loops of the three servers read requests and give a client up | instance of `RequestStream` |
| `ServerFeedbackProofs` | theorems about `ServerFeedback` | `ServerFeedback` |
| `BlockFiles` | the two files: `build_datagram` and `accept_block` over several transfers | |
| `BlockFilesProofs` | theorems about `BlockFiles` | `BlockFiles` |
| `RateControl`, `RateControlProofs` | the control loop of the rate; its theorem | |
| `Pacing`, `PacingProofs` | the delay between two blocks; its theorem | |
| `Listener` | the main loops of the servers | |
| `Lock`, `PthreadMutex` | abstract mutex; that of pthreads-w32 | instance of `Lock` |
| `CountingSemaphore`, `PthreadSemaphore` | abstract semaphore; that of pthreads-w32 | instance of `CountingSemaphore` |
| `CondVariable`, `PthreadCond` | abstract condition variable; that of pthreads-w32 | instance of `CondVariable` |
| `PthreadProofs` | theorems about the three of them | `PthreadCond`, instances of `PthreadMutex`, `PthreadSemaphore` |
| `MCRing`, `MCTransfer`, `MCControl`, `MCFeedback` | instances for TLC | each the module of its name |
| `MCParts` | instances for TLC of `BlockFiles`, `RateControl`, `Pacing`, `PthreadMutex`, `PthreadSemaphore`, `PthreadCond` and `Listener` | extends `BlockFiles`, `RateControl`, `Pacing`, `PthreadCond`, instances of the others |

The modules cut the system where its parts meet. `Transfer` sees the ring only
through `ring_full`, which it lets be true or false at every datagram;
`RingBuffer` shows that this answer stays valid until the slot is reserved.
`RingBuffer` sees the network as an arbitrary sequence of block numbers.
`Transfer` takes a request as one message; `ServerFeedback` shows when that is so.
`Transfer` counts blocks; `BlockFiles` shows that a block number stands for the
right bytes at both ends. `ControlSession` sees a transfer as the time between the
port message and the stop request; `Transfer` shows that this time ends while the
server sends, and `ServerFeedback` when the server leaves it by a timeout. `Pacing`
lets the delay change at any time within a range; `RateControl` shows the range.
`PthreadCond` uses the mutexes and semaphores of `Lock` and `CountingSemaphore`,
which `PthreadMutex` and `PthreadSemaphore` implement; `RingBuffer` uses a mutex
and two condition variables with spurious wakeups, as `CondVariable` and POSIX
allow.

Definitions marked "Mutant" are plausible bugs of the definition after them; no
specification uses them. They show that the properties can fail.

### RingBuffer

The fields of `ring_buffer_t` are variables of the same names, as are the locals
that live across a step (`next`, `datagram`, `address`, `this_block`). All uses
of the fields happen under `ring->mutex`, so one critical section is one action;
`pthread_cond_wait` splits it: the thread enters `asleep` and a `..._wait` state,
a signal or `SpuriousWakeup` takes it out, and it tests its condition again. The
copy into a slot and the read of a slot are actions of their own because the code
performs them without the mutex. `netPc` and `diskPc` say where each thread is.
`env` fixes, for one transfer, the client, the mode and the faults.

* `Receive`, `ring_reserve`, `ring_reserve_wakes`, `CopyDatagram`,
  `ring_confirm`: one pass of the loop that stores a block. `LeaveLoop` and the
  last disjunct of `ring_confirm` are the two ways a TERMINATE datagram ends the
  loop; then the stop block passes through the same reserve, copy and confirm,
  and `JoinDiskThread` waits for the thread.
* `DropsDatagram` is the only difference between the clients: the client drops a
  datagram when `ring_full` says so, `rtclient` goes into `ring_reserve` and waits.
* `ring_peek`, `AcceptBlock`, `ring_pop`: the disk thread. A failed write is a
  disjunct of `AcceptBlock`.
* `Abort`: the label `abort`, taken when a request to the server cannot be sent,
  also the stop request.

`file` is the sequence of blocks written: the offsets of `accept_block` are in
`BlockFiles`. In `Wanted`, a block the bitmap holds is not stored; which datagrams
still matter for the retransmission table is the business of `Transfer`.
`ring_full` is read at the start of the pass and `ring_reserve` runs later, as in
the code. A transfer that meets a fault is mapped to a pipe that is never used,
so `PipeSpec` speaks of the others.

### Transfer

`xfer` is one record with the fields of `ttp_transfer_t` and of its
`retransmit_t`. The client is one thread here, so the handling of a datagram is
one action, built from one operator per part of the loop, in its order: `Store`,
`OnTheWire`, `QueueGap`, `AdvanceGapless`, `AdvanceHead`, `EndRestart`, then the
branch on TERMINATE, then `UpdateStats`. `AfterRepeat` and `Requests` are the two
effects of `ttp_repeat_retransmit`: what stays in the table and what is sent;
`Pick`, a recursive function for the sake of the proofs, is its loop. The
condition of the statistics (a multiple of 50 datagrams, 350 ms) is a free
choice, so the repeat may come after any datagram or never; the
REQUEST_ERROR_RATE report is the business of `RateControl`.

`udp` is a set: datagrams in flight are received in any order, more than once
(`Deliver` may leave the datagram in place) or never (`Lose`). `tcp` is a
sequence. The server handles a request whenever one is there and may send the
next block although one is under way, because its `read` does not block.

There are two more ends of a transfer than the stop request. `HeartbeatTimeout` is
the server's: whenever it sends it may find that it has not heard of the client for
too long (the clocks and counters behind that are in `ServerFeedback`); it leaves
the send loop and waits for the name of a file, and what the client still writes is
read as one (`ReadAsFileName`). The client is not told: it stays in its receive loop,
whose `recvfrom` has no time limit, and `Finished` counts that as an end of the
model. `Abort` is the client's, the label `abort`, after which the server sends until
its clock is up.

Arithmetic: block numbers of the client are unsigned 32-bit. `U32` stands for
2^32 and wraps the subtraction in `EarliestBlocks`; the window of semi-lossy mode
is a product of measured rates and may be any number of blocks from 0 to
`losswindow`; a negative double stored in a `u_int32_t` is undefined in C, and
`FloatToU32` allows the two results that compilers produce.

### ControlSession

A message of the connection is one element of `toServer` or `toClient`, named
for what the sender means by it: the bytes carry no tag, so a side that reads a
message it does not expect has misread it. Every action of a side is named for
the message it reads: it does all the side does until the next read. `buffered`
is the client's stdio buffer: the acknowledgement of `dir` stays in it until the
next command. TCP reports a reset to one call of the server and to no other, so
`conn` goes from "reset" to "gone" (`seen` says which it is after the reads of a
step). `FullRead` takes that one report for a success. Where `read` returns 0, at the
end of the file and once the error has been reported, `full_read` never returns: the
action is not enabled, and `Spins` names these states. `SendReply` stands for seven
calls of it, so a reset leaves the server in the second one (`LoseParameters`).
`ReadLine` fails in all these cases (`LineFails`). `Write` follows TCP: a write after
the peer closed is accepted and may bring a reset, one write may still report that,
and the next one raises SIGPIPE; `Writes` is the number of writes that a message
takes. A client that writes to a server that is gone may die of SIGPIPE, too
(`Crash` in the states `Writing`). In the send loop the end of the file is
noticed only if `errno`, left over from an earlier call, is not EAGAIN:
`NoticeEof` may therefore happen or not, save after a reset. `env` fixes, for one
session, the files the server shares, whether it has a hook, and the faults.

After a misread message neither side is followed any further. The properties
that hold with faults say so by naming `ServerMisreads` or `ClientMisreads`.

### ServerFeedback

A request is `PARTS` pieces that may arrive one by one; the first holds its type.
The buffer `retransmission` holds, for every part, where in the stream it came
from, or that the artificial loss report (`Report`) or the stop of the last
transfer (`Old`) is still there. `ReadOn` is one `read`, `HandleRequest` a pass in
which it completes a request, `PassWithoutRequest` one in which it does not, with
`Heartbeat` at its end: the counter of passes first, then the two clocks.
`SendFails` is the pass that a failed `sendto` cuts short, `ReadFails` the end of
the connection, as far as the stale `errno` lets the loop see it. The variable
`program` chooses the server: `server` builds the report in the request's buffer
and sends it to itself; `rtserver` does not; `rtserver_fileout` ignores the end of
the connection and, at a timeout, only sets its clock again instead of leaving;
`mk5server` has no heartbeat and throws split requests away (`Discard`).
`NextTransfer` starts the next file on the same connection with what the last one
left in the buffer. `fate` records what became of each request.

### BlockFiles

A byte is a pair of transfer and offset, so a byte in the wrong place is seen.
`build_datagram` reads at `SeekTo(b)`, which is the current position when the
block is the successor of `last_block`; the buffer keeps its old bytes behind a
short read. `Remembers` differs: the file server records every block, the
real-time server only ever resets the number at block 1. `StoreBackup` is the
local copy of the real-time server. `accept_block` stores a datagram whose block
is missing, with the last block cut to size; nothing in a datagram tells which
transfer it belongs to, so the datagrams of the last one may be taken
(`late` records that). An empty file is sent as block 0, whose offset wraps.

### RateControl and Pacing

A double is a number of 1/`UNIT`; what makes the delay longer is rounded up, what
makes it shorter down, so that a factor other than one has an effect, as it has
in the program's doubles. `mk5server` keeps whole microseconds and truncates.
`weather` is the environment: in a storm the counts of an interval are arbitrary,
in calm nothing is lost. `LostHeartbeat` is the file server's report to itself.
`ttp_open_transfer` starts a transfer at three times the delay of any target rate.

In `Pacing` the times are whole microseconds and the delay, a double in the code, is
a number of 1/`SCALE` of one. A pass takes any time in `WORK` and then sleeps, more at
the end of the file (`PassAtEnd`), or not at all (`PassWithoutSleep`). The correction
of the sleep is converted to an `int64_t`, which drops its fraction toward zero in
each pass (`Truncated`). The delays themselves are therefore not kept: with a delay of
10.9 and passes of 10 microseconds the server gains 0.9 in every pass, without a
bound. What is kept lies between the delays without their fractions and the delays
rounded up, and the two histories `ahead` and `spare` count the time by them: delays
asked for minus time gone by. The fixed delay of `mk5server` is not modelled.

### Listener

`holders` says which processes have a connection open: a child inherits what its
parent has open at the fork and closes nothing but its own. `signal` is one bit,
`reap` an interrupt of the main loop. The real-time server serves the connection
itself.

### The Windows synchronisation

Steps of `PthreadMutex` are single interlocked operations and system calls. Steps
of `PthreadSemaphore` are what is done under the semaphore's mutex. `PthreadCond`
has one step per lock, unlock, counter update or semaphore call of "algorithm 9";
its abstract specification counts the wake-ups granted to the waiters there at
the time of a signal or broadcast and says that none of them is lost. It lets a
waiter that came later take a wake-up granted to an earlier one; that the gate keeps
later ones out is `GateIsOne`, a part of `CondInv`. `CountingSemaphore` in turn lets
a post add any number; how many tokens are posted to whom is `WaitersCounted`.

Where the condition variable may be destroyed behind it, an unlock is two steps.
`pthread_mutex_unlock` lets the next one in and only then sets the event of the mutex:
a waiter that has left `mtxUnblockLock` may be at "unlocked", with the event to set
(`SetUnblockEvent`). `sem_post` on the gate counts the semaphore up and then releases
the lock of the semaphore: the last waiter is at "posted" until `UnlockGate`. The
destroyer can come in between in both places. In the first it frees a mutex that is
still in use; in the second `sem_destroy` fails, and the condition variable is freed
without its gate (`kept`) while EBUSY is returned. Both are more general than the code
where it does not matter: whether an event is due is a free choice, and at "posted"
all who wait at the gate may pass. A thread that signals keeps the destroyer away
for the whole call, so its unlocks are one step.

`GONE_MAX` stands for INT_MAX / 2. The process list lock of `pthread_cond_destroy`
(which its early returns do not release), the static initialisers and other failing
system calls are left out.

### MCParts

These components share no state with each other, so a behaviour of `MCParts` is a
behaviour of one of them: `part` is chosen in the first state, and the variables
of the others stay at fixed initial values. Every property is that of the
component's module, and the fairness is the sum of what the modules state. The
four modules whose invariants are both checked here and proved are extended, so
that the run and the theorem speak of the same definition; their names are
distinct for that reason (`FilesSpec`, `RateSpec`, `PaceSpec`, and `sender` for
the server that `BlockFiles` chooses).

## 3. Runs

All runs use `tlc` with the configuration named in `PROJECT.json`.

| Run | Instance | States | Shows |
|---|---|---|---|
| `ring` | 2 slots, 4 blocks, both clients, both modes, with and without faults | 91,713 | no race, no lost wakeup, the client's loop never waits for the disk, reports are false only after a fault, `command_get` returns, the ring implements `DiskPipe` |
| `ring_diskfail` | 2 slots, 3 blocks, failing disk | violated | a transfer is reported as lossless after a failed write |
| `transfer_lossless` | 4 blocks, restart at 3 requests, table of 12, 2 datagrams in flight | 1,184,173 | no gap is forgotten; the client finishes only with the whole file; every step is one of copying or of giving up, and a server that is asked to stop does so after its client |
| `transfer_live` | 3 blocks, restart at 4 requests, table of 4, 1 datagram in flight, lossless, lossy, semi-lossy | 22,578 | the server never sends for ever and, unless its heartbeat timeout ends the transfer, both sides finish, also when the table drops requests; every transfer implements `FileCopy` |
| `transfer_restartskips` | 3 blocks | violated | a restart skips the block it names |
| `control` | hook with 3 files and no hook with 1, without faults; crashes; all faults | 5,292 | the two sides stay in step and every command returns; only accepted clients are served; a server whose client is gone ends where it notices, and spins or misreads a request where it does not; a client that waits for a dead server does not wait for ever |
| `control_nofiles` | no files, no hook | violated | `get *` waits for ever |
| `control_timeout` | heartbeat may stop | violated | the timeout does not close the connection |
| `control_spin` | client may be killed | violated | a server in `full_read` outlives its client |
| `feedback` | the four programs, requests of 3 parts, four lists of requests, 2 transfers | 76,547 | requests are never mixed up, a stop is obeyed, a silent client is dropped, and the loops implement `RequestStream` |
| `parts` | the seven components of `MCParts`: 2 files of up to 3 blocks with 2 datagrams in flight, 3 threads, 3 clients | 135,182 | files are copied, rates stay in range and converge, the synchronisation of Windows keeps its promises, sessions are released |
| `files_realtime` | real-time server, 3 blocks | violated | block 1 asked for again carries other bytes |

### Bounds, and why they suffice

* Ring: two slots are the fewest for which full, empty and half full differ, and
  four blocks (and the stop block) make the indices wrap twice; the proofs cover
  every size.
* Transfer: with four blocks and three requests a gap can lie before, inside and
  after another, the table can hold duplicates, a restart can begin in the middle
  of the file and its ignored range can end before the last block. Two datagrams
  in flight are enough to exchange any two. `MAX_RETRANSMISSION_BUFFER` is 2048 in
  the code and the table's limit 32 times that. `NET_BOUND` and `TCP_BOUND` make a
  sender wait; a client that ends one pass with both a full list of missing blocks
  and a repeated table would need a larger `TCP_BOUND` in the runs with a bound of
  three to five.
* `transfer_live` has one datagram in flight: losses, duplicates and every order
  of requests against datagrams remain, but two datagrams are not exchanged. Its
  restart limit is 4: with 2 or 3, duplicates in the table of a semi-lossy
  transfer count towards the limit and restarts follow each other for ever
  (`client/protocol.c:353`); lossless transfers end with 3 as well. With the 2048
  of the code that needs hundreds of blocks missing at once, which no run reaches.
* Semi-lossy: `U32` is 8, so the wrapped difference is larger than any window, as
  in the code; more distant wrap-arounds give no other result of `min`.
* Control: up to 3 files for the list of `get *`; a user may give any number of
  commands. `FEEDBACK_BOUND` limits the unread requests of a transfer.
* Feedback: a request of 3 parts can be split in every way that matters (the type
  alone, the rest, the middle). The clocks stop at the values at which they are
  tested. Two transfers show what one leaves for the next; the lists contain every
  kind of request and end with and without a stop. The proofs cover every size.
* Files: blocks of 2 bytes, files of 0, 4 and 5 bytes (empty, whole blocks, a short
  last block), two transfers, two datagrams in flight, which may be exchanged and
  may stay there until the next transfer. The recording ends, for the model, behind
  its third block: the code reads on without end. The proofs cover every size.
* Rate: 20 for 100000, a ceiling of 8 units, target delays below, near and above
  it; the factors are those of the defaults. The proof covers all values.
* Pacing: delays of 5/3 and 9/3 microseconds, one with a fraction and one without,
  and passes of 0, 1 and 4, so that there are early passes, late ones and stalls, and
  corrections of either sign with a fraction. `LAG` (3) bounds how far the server falls
  behind one history and gets ahead of the other, whose distance grows without end;
  `SKIPS` bounds passes without sleep in a row. The proof has no such bounds.
* Windows synchronisation: three threads, which may all be waiters, or two waiters
  and a signaller that meets a timeout. `GONE_MAX` is 2, so that the overflow
  handling is reached; `QUEUE` keeps signallers from adding wake-ups while old ones
  are unused; recursive mutexes are locked twice; semaphores count to 3.
* Listener: three clients, so that two children can die for one signal while a
  third is forked.

### Fairness, and why the code justifies it

* Ring: both threads are scheduled (weak fairness of each thread's steps).
  `Receive` and `LeaveLoop` get none: datagrams need not arrive, so
  `StopIsReached` starts when the loop has been left.
* Transfer: `SF(HandleRequest)` since every pass of the send loop reads before it
  sends; `WF(SendNextBlock)` since it never blocks on the client; `SF(Receive(d))`
  since a network that delivers nothing of what is sent again and again lets no
  protocol end, and since the disk keeps freeing slots; `WF(Lose(d))` since no
  datagram stays in flight for ever; `WF(HeartbeatTimeout)` when the client has
  aborted, since no request comes any more, and `WF(ReadAsFileName)` since the server
  then reads. An outage that lasts is a behaviour in which the server times out, as it
  may at any moment; fairness of the network is only supposed of those in which it
  goes on sending. Nothing makes a client leave its receive loop after that.
* Control: both processes run, a transfer ends while the server sends (shown in
  `Transfer`), a reset is noticed in the send loop, and the clock reaches the timeout
  for a client that is gone. Nothing makes the user type, the server notice an end of
  the file in its send loop, or the client leave its receive loop when the server is
  gone.
* Feedback: the loop runs, a reset is an error of the `read`, time passes, and not
  every pass is cut short by a failed `sendto`: if all are, the code has no
  heartbeat at all (`server/main.c:353`). Nothing makes the client write, nor the
  server notice an end of the file.
* Rate: blocks arrive, so the client reports; the server reads. The network need
  not calm down: `RateAdapts` assumes it, in one direction or the other.
* Windows synchronisation: a thread inside the library keeps running and the
  system wakes a waiter of a posted object. `PthreadCond` takes weak fairness for its
  steps, and strong fairness only for `WakeUp`: sleepers do not time out again and
  again while there is a wake-up for them. Nobody has to unlock, post or signal.
* Listener: the main process and its handler run; how long a session lasts is up
  to its client.

## 4. Proofs

TLAPS checks eight modules of proofs. A theorem that implies a refinement speaks of
its safety half, the initial states and the steps: the abstract specification
without its fairness, called `PipeSteps`, `CopySteps` and so on.

`RingBufferProofs`, from `RingAssumption` alone (at least one slot, any number of
blocks, any environments):

    RingInvariant       Spec => []RingInv
    TypeCorrect         Spec => []TypeOK
    RaceFree            Spec => []NoDataRace
    WakeupsArrive       Spec => []NoLostWakeup
    FeedbackNotBlocked  Spec => []LoopNeverBlocks
    NoFatalError        Spec => []NoRingError
    FlagsAgree          Spec => []FlagsMatchCounts
    FreeSlotSurvives    Spec => []NextSurvivesWait
    ContentInvariant    Spec => []ContentInv
    DiskReadsConfirmed  Spec => []ReadsConfirmedData
    ReportsAreTrue      Spec => []FalseOnlyIfCutShort
    RingIsPipe          Spec => PipeSteps

The properties are not inductive by themselves. `NoDataRace`, for instance, holds
because the slot under the network thread's pen is the one just after the data,
the slot under the disk thread's eye is the first of the data, there is at least
one datum while the disk thread looks, and data and reservation together fit into
the ring. `RingInv` says exactly that: `NetHoldsSlot` and `DiskHoldsSlot` tie each
thread's place to the counts and to its slot, `FlagsMatchCounts` ties the flags to
the counts, `DataIsWritten` says that data is written before it counts, and
`NoLostWakeup`, `LoopNeverBlocks` and `NextSurvivesWait` complete the induction:
the slot computed before the wait stays the first free one because a pop moves the
base up and the count down by one. The proof first settles the arithmetic of the
ring in lemmas (what `%` does to a sum of two indices, that two different offsets
name different slots), then takes the actions one by one.

What the file and the report are worth needs a second invariant, `ContentInv`, on
top of the first: each block of the bitmap is in the file or in one waiting slot and
in no two (`BlocksOnce`), the block on its way in is new (`BringsNewBlock`), the
stop block is the last datum (`StopIsLast`), and the countdown counts what is
missing (`CountsMissing`). A disk thread that has read the stop block therefore has
written everything else, which is `FalseOnlyIfCutShort`; a slot it reads is one
that was confirmed. With both invariants each step of the two threads is a step of
`DiskPipe` or changes nothing of it (`RingIsPipe`). TLC checks both invariants in
the run `ring`.

`TransferProofs`, from `TransferAssumption` (any file, any limits of the table and
of a restart, any modes):

    TransferInvariant         Spec => []TransferInv
    CountdownIsRight          Spec => []CountdownMatchesBitmap
    LosslessTransferIsWhole   Spec => []LosslessIsComplete
    GaplessPartIsWhole        Spec => []GaplessHasNoGap
    RequestsNameBlocks        Spec => []RequestsAreLegal
    TransferTypeCorrect       Spec => []TypeOK
    RestartsLeaveNoGap        Spec => RestartsAtFirstGap
    GapsStayQueued            Spec /\ []TableHasRoom => []GapsAreQueued
    TransferCopiesFile        Spec => CopySteps

`TransferInv` is the conjunction of the properties: they hold for each other's sake.
The count is right because every datagram carries a block of the file; it does
because every retransmission the server was asked for names one; the requests do
because the table is cleaned by the bitmap, which knows no block past the end, and
of block 0; a lossless transfer that ends with a count of 0 is whole because the
count is right. There is a lemma for each operator of the receive loop, which says
that it keeps the record well formed, does not touch bitmap and count (`Store`
apart), and leaves the gapless part without a gap. The table needs induction over
lists: `Least` (a set of naturals has a least element, from the library's
`WFMin`) gives it in a form the provers can use, `PickExists` shows that the
recursion of `Pick` has a solution, and `PickFacts` and `PickKeeps` what it returns.

`GapsStayQueued` is the theorem about the table that has a hypothesis beyond the
constants: `TableHasRoom` says, of the datagrams in flight, that the table has room for
the requests each would add, or holds them already. Under it every gap behind the head
is in the table: `RangeQueues` shows that requests with room are all added,
`TrackQueues` that the head moves over queued blocks only, `RepeatQueues` that cleaning
the table drops what has arrived and nothing else, and that a restart, which empties
it, takes the head to where nothing is missing. The code drops requests when the table
is at its limit, so a full table is the only way to lose one. The refinement
needs one more invariant, `StopFollowsClient`: a stop request is under way, or
obeyed, only after the client has finished. A server whose heartbeat timeout comes first,
and a client that aborts, take the steps `GiveUp` and `Abort` of `FileCopy`: the
theorem says what was copied until then, and that a server that was asked to stop has
a client that has what it wanted.

`ServerFeedbackProofs`, from `FeedbackAssumption` (any set of programs and lists of
requests, any size of a request, any limits):

    FeedbackInvariant   Spec => []FeedbackInv
    RequestsStayWhole   Spec => []RequestsKeepTheirParts
    LoopsAreStreams     Spec => StreamSpec

That no request is put together from two needs two more facts. `InPhase`: the
length of the buffer is the distance of the place in the stream from the end of
the last request. `BufferHoldsNext`: what the buffer holds up to that length
are the parts of the next request, or a report. `ReadKeepsParts` shows that a read
extends the second fact; with `retransmitlen` at its end the buffer is then the
request itself. One lemma treats a pass that takes a request, one a pass that
does not, and the step lemma takes the actions one by one. For the refinement
`ReportsComeFirst` adds in which order a buffer is mixed: the parts of a report are
followed by parts of a request, never the other way round, so a request whose
first part is its own is obeyed as a whole. `StreamSpec` has no fairness and is
proved entirely.

`ControlSessionProofs`, from `ControlAssumption` (any environments: files shared,
hook, faults):

    SessionTypes        Spec => []TypeOK
    AcceptedClients     Spec => []OnlyAcceptedClients
    SessionAgrees       Spec => []SidesAgree
    SidesInStep         Spec => []InStep
    AnswersAreRead      Spec => []NoStaleAnswer
    ServerListens       Spec => []PromptMeansListening

The invariant is `SidesAgree`, a table of the protocol: for each state of the client
and each of the server that can occur together, which messages can be under way in
either direction. `Handshake`, `FileNames`, `Opening` and `Receiving` are its four
stages with messages of their own; `Behind` and `At` describe a server that has not
yet read what the client wrote, the state between two commands being the simplest
case. When one side is gone, `LeftForClient` and `LeftForServer` say that what it left
behind can still be read in order. The proof takes the table row by row: for each
action of a side, the rows in which it can happen, and the row that follows; lemmas on
`Holds` and `Stream` say what reading the head and writing at the end do to a queue,
`SeenFacts` and `SilentFacts` what a step does to the server's view of the connection.
The faults that one side does not tell the other (`transfer aborted`, `local file`, the
heartbeat) are excluded in the invariant, since the sides do get out of step with
them. `AcceptInv` holds with any fault: the server asks for a digest only after the
right revision, and grants only with both.

`BlockFilesProofs`, from `FilesAssumption` (any size of a block above 0, any set of
file sizes with a largest):

    FilesInvariant          FilesSpec => []FilesInv
    FilesAreCopied          FilesSpec => []FileIsCopy
    BackupHasNoGap          FilesSpec => []BackupIsPrefix
    ServerSendsWhatItNames  FilesSpec => [](sender = "server" => CarriesItsBlock)

A block is right because the server stands where it believes it does:
`PositionIsKnown` says that the file server's position is behind the block it has
built last, and before the first block of a file at its start, although `last_block`
survives from the file before. From it follows what a datagram carries (`WireIsTrue`),
from that what the client stores (`FileIsTrue`); `BackupIsCurrent` does the same for the
local copy. The lemmas at the start are the arithmetic of blocks: they cover the
file, do not overlap, and the cut of the last one is exact. `ServerSendsWhatItNames`
is the other side of the run `files_realtime`: what the real-time server gets wrong
the file server gets right.

`PthreadProofs`, from `CondAssumption` (any finite set of threads, any `GONE_MAX`), and
for the semaphore from any largest value:

    WaitersInvariant     Spec => []WaitersInv
    CondInvariant        Spec => []CondInv
    CondVariableRefined  Spec => CondSteps
    MutexRefined         Mutex!Spec => []Mutex!HoldersInv /\ Mutex!MutexSteps
    SemaphoreRefined     Semaphore!Spec => []Semaphore!WaitersCounted /\ Semaphore!SemaphoreSteps

The condition variable is a matter of counting. `WaitersInv` strengthens `CondInv` by
where the two mutexes are held and what their holders rely on (`LocksAreHeld`), by
who may run beside a thread that destroys (`DestroysAlone`), and by `WakeUpsSuffice`:
there are never more waiters to unblock than wake-ups granted and waiters awake that
have not yet left. `OnlyEventsAreLeft` says how far the freeing of the condition
variable is safe: nobody waits on it, signals it or holds one of its locks, and
the only uses of its memory left are the two ends of an unlock described in section 2.
The gate stays one token through them (`GateIsOne`), since a waiter that has left
`mtxUnblockLock` keeps it until it posts. `NoSignalIsLost` is not part of the induction but follows: the
counters account for all who sleep or leave. The sets counted are those of
threads at certain places, so each action moves one thread from set to set;
`OneMoves` and `CountsMove` say what that does to the numbers, and each action then
is linear arithmetic. The mutex rests on `HoldersInv` (the word is zero when nobody
holds the mutex, and one thread at most does), the semaphore on `WaitersCounted` (who
waits is counted below zero, or has a token of the system's semaphore).

`RateControlProofs`, from `RateAssumption` (which the defaults of
`client/config.c` satisfy; the server does not check what the client sends):

    RateInvariant       RateSpec => []RateInv

`RateInv` is inductive. The work is in the arithmetic: a quotient lies between 0
and c if its dividend does between 0 and c times the divisor (`QuotientBound`); the
filter is a weighted mean and keeps a share a share (`FilterBound`); both branches
give a natural number, which the two clamps put into their range
(`AdjustedBound`).

`PacingProofs`, from `PacingAssumption`:

    PaceInvariant       PaceSpec => []PaceInv

What is inductive is `SleepCovers`: the sleep that is due is at least what the
server is ahead of the delays without their fractions, and was slept unless the pass
was cut short; `RateIsKept` and `NothingIsLost` follow from it, the latter with `spare`,
which counts the delays rounded up. The delays are any multiples of 1/`SCALE`, for any
`SCALE`. `FractionDropped` joins them to the whole microseconds: the correction lies
between the delay rounded down and the delay rounded up, each less the time gone by.

Only model-checked:

* everything that must eventually happen (`StopIsReached`, `TransferEnds`,
  `CommandReturns`, `DeathIsNoticed`, `SilentClientIsDropped`, `StopIsObeyed`,
  `RateConverges`, `SessionIsReleased`), and the fairness of the abstract
  specifications in `PipeSpec`, `CopySpec`, `CondSpec`, `MutexSpec` and
  `SemaphoreSpec`: it needs `ENABLED`, which the prover does not treat;
* that the table has room (`TableHasRoom`), which `GapsStayQueued` supposes: a table at
  its limit drops requests, and the transfer then relies on those at its end. TLC finds
  it true in every state of `transfer_lossless` (add it to the INVARIANTS of
  `MCTransfer_lossless.cfg`), where the table does fill with duplicates of a
  block that is missing, but holds what a block in flight would ask for.

## 5. Disagreements between the code and what it says

* **A failed write is reported as a lossless transfer** (`ring_diskfail`). The disk
  thread returns and tells nobody; the report counts the bitmap.
* **A restart skips the block it names** (`transfer_restartskips`). The server
  stores it as the last block sent and adds one. The transfer still ends: the
  block is asked for again at the end of the file.
* **`get *` from a server without files waits for ever** (`control_nofiles`). The
  client waits for a failure byte that only a server with a hook sends, the
  server for `got list`.
* **The heartbeat timeout does not close the connection** (`control_timeout`). The
  server goes back to waiting for a file name, and the next request of a client
  that was only slow is read as one.
* **A server process can outlive its client and spin** (`control_spin`).
  `full_read` takes the 0 of an end of file for progress.
* **The real-time server sends the wrong bytes for block 1** (`files_realtime`).
  Block 1 resets the static `last_block`, which nothing else sets, so block 1 alone
  is never sought: asked for again, it is read from wherever the recording is.
  `FileIsCopy` and `BackupIsPrefix` hold for everything else.

Seen while modelling and not stated as runs:

* After a failed `recvfrom` the pass goes on with the old datagram, at first
  zeroes, so that block 0, the stop block, can enter the ring as data.
* In semi-lossy mode the wrapped differences can make `gapless_to_block` the largest
  32-bit number, and a restart then names block 0, which the server ignores;
  `RequestsAreLegal` asks this of lossless transfers only.
* The table is not sorted, contrary to `howTsunamiWorks.txt`, since sorting is off
  by default.
* The artificial loss report may be built over the first part of a request that is
  half read; the request is then handled as an error rate (`"spoilt"` in `fate`).
* A failed `sendto` skips the heartbeat; the Mark5 server spins at the end of the
  connection while it discards a split request.
* When the server has timed out nothing tells the client, which stays in `recvfrom`
  for ever: `client/command.c:441-443` takes a failed `recvfrom` for a "frozen transfer"
  and repeats its requests, but the socket has no time limit, so none fails.
* A server whose client is reset while it reads the parameters does not end:
  the first `full_read` takes the error for data, the second one sees 0 for ever
  (`server/protocol.c:633-644`, `common/common.c:373-385`).
* The pacing drops the fraction of the delay in each pass (`server/main.c:277`), which
  adds up: a server asked for a delay of 10.9 microseconds may send with 10.
* `pthread_cond_destroy` may free the mutex that a waiter is about to leave, although
  its notes say that a condition variable can be destroyed once all waiters are awake
  (`pthread_cond_destroy.c`, NOTES 1). Two waiters are released by a broadcast; the
  first has `mtxUnblockLock` with the mark of a thread that waits, releases the word and
  is preempted before `SetEvent(mx->event)` (`pthread_mutex_unlock.c:64-73`); the second
  leaves last and opens the gate; the destroyer passes it, finds the mutex free and
  frees it; the first one then reads `mx->event`. The lock inside the gate's semaphore
  can be freed in the same way. TLC reaches the state "destroyed with a thread at
  `unlocked`"; `OnlyEventsAreLeft` shows that there is nothing else.
* While that lock is held `sem_destroy` fails; the condition variable is freed all the
  same, its gate is not, and the caller is told EBUSY of memory that is gone
  (`pthread_cond_destroy.c:173-184`).
* A datagram of the last file that comes late is stored in the next one: nothing
  in it names the file. `FileIsCopy` shows that it is the only threat.
* A failed `fork` leaks the connection (`server/main.c:150`); `reap` may take the
  exit status of the process of `popen` (`server/protocol.c:432`); a clock that is
  set back makes `get_usec_since` wrap; two early returns of
  `pthread_cond_destroy` keep the library's list locked; `mk5_fread` does not
  advance its address; an empty file ends the disk thread by its block 0; a local
  file that cannot be opened, and an abort, leave the client out of step with its
  server (the faults `"local file"` and `"transfer aborted"` of `ControlSession`).

## 6. Not modelled

* `ring_cancel` and `ring_dump` have no caller.
* After an abort the client destroys the mutex while the disk thread may use it:
  undefined, so `RingBuffer` stops there. It also stops at a failed allocation or
  a failed mutex call.
* What a side does after it has misread a message: its reaction depends on bytes.
* Failures of `fopen` on the server after it has accepted a file, and of the
  server's UDP socket.
* The statistics that are only printed, transcripts, logs, option parsing, socket
  set-up, MD5, the conversion of times.
* The EVN file name parser: a sequential parser whose result is a matter of
  characters. The 34TH packing of the real-time server (`MODE_34TH`, off by
  default), the VSIB driver and the library of the Mark5 recorder, whose sources
  are not in the repository; the recording's start time; the fixed delay of the
  Mark5 server.
* The rest of pthreads-w32 (threads, cancellation, thread-specific data, spin and
  read-write locks, barriers), of which the programs use only `pthread_create` and
  `pthread_join`; header shims; utilities, examples, website.

## 7. What is left

1. A bound on the duplicates in the table, from which `TableHasRoom`, and with it
   `GapsAreQueued`, would follow without a supposition.
2. `pthread_create` and `pthread_join` of pthreads-w32: the handshake of a new
   thread with its creator and the reuse of thread descriptors.
3. `Transfer` composed with `BlockFiles` over two files, to state what a sequence
   number of the file in each datagram would have to guarantee.
4. The invariant of `Listener` behind `SessionIsReleased`: which process has which
   connection open.
