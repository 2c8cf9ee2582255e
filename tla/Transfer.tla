------------------------------ MODULE Transfer ------------------------------
(***************************************************************************)
(* One file transfer: the receive loop of the client (command_get in       *)
(* client/command.c) with its retransmission table (client/protocol.c),    *)
(* the send loop of the server (client_handler in server/main.c and        *)
(* ttp_accept_retransmit in server/protocol.c), UDP datagrams that are     *)
(* lost, duplicated and reordered, and requests that TCP keeps in order.   *)
(*                                                                         *)
(* The client is a single thread, so the handling of one datagram is one   *)
(* action.  The clock of the statistics and the state of the ring buffer   *)
(* (modules RateControl and RingBuffer) are nondeterministic here.         *)
(***************************************************************************)
EXTENDS Integers, Sequences, FiniteSets

CONSTANTS
  BLOCK_COUNT,                \* number of blocks of the file
  MAX_RETRANSMISSION_BUFFER,  \* requests in one batch; as many cause a restart
  TABLE_LIMIT,                \* the retransmission table does not grow beyond
  ON_WIRE_ESTIMATE,           \* xfer->on_wire_estimate, in blocks
  PARAMETERS,                 \* the settings of the session to choose from
  U32,                        \* 2^32, scaled down: block arithmetic is unsigned
  NET_BOUND,                  \* model bound: datagrams in flight
  TCP_BOUND                   \* model bound: unread requests; a full pipe blocks

ASSUME TransferAssumption ==
  /\ BLOCK_COUNT \in Nat \ {0}
  /\ MAX_RETRANSMISSION_BUFFER \in Nat \ {0}
  /\ TABLE_LIMIT \in Nat
  /\ ON_WIRE_ESTIMATE \in Nat
  /\ PARAMETERS \subseteq [lossless : BOOLEAN, losswindow : Nat]
  /\ U32 \in Nat /\ U32 > BLOCK_COUNT + ON_WIRE_ESTIMATE + 1
  /\ NET_BOUND \in Nat \ {0}
  /\ TCP_BOUND \in Nat \ {0}

FileBlock == 1 .. BLOCK_COUNT

\* TS_BLOCK_ORIGINAL, TS_BLOCK_TERMINATE, TS_BLOCK_RETRANSMISSION
BlockType == {"original", "terminate", "retransmission"}
Datagram  == [block : FileBlock, type : BlockType]

Request(type, b) == [type |-> type, block |-> b]

VARIABLES
  parameter, \* session->parameter: lossless, and losswindow_ms as a number of
             \* blocks at the best rate, where 0 means lossy
  server,   \* "sending" inside the send loop; "stopped" after it, as the client
            \* asked, or "timed_out" because nothing was heard of the client
  block,    \* xfer->block of the server, the block sent last
  udp,      \* datagrams in flight
  tcp,      \* requests the server has not read yet, oldest first
  client,   \* "receiving" inside the receive loop, "done" after it, "aborted"
            \* when an error has made it give the transfer up
  xfer      \* the client's transfer state: bitmap, counters, table, restart

vars == <<parameter, server, block, udp, tcp, client, xfer>>

min(a, b) == IF a < b THEN a ELSE b

-----------------------------------------------------------------------------
(* The client's bitmap and retransmission table (client/protocol.c). *)

\* Mutant: the last block counts as received from the start.
GotLastTooEarly(x, b) == b >= BLOCK_COUNT \/ b \in x.received
got_block(x, b) == b > BLOCK_COUNT \/ b \in x.received

Missing(x) == {b \in 0 .. BLOCK_COUNT : ~got_block(x, b)}

\* The entries of list that are in blocks, in their order.
Pick(list, blocks) ==
  LET picked[i \in 0 .. Len(list)] ==
        IF i = 0 THEN <<>>
        ELSE IF list[i] \in blocks THEN Append(picked[i - 1], list[i]) ELSE picked[i - 1]
  IN  picked[Len(list)]

\* ttp_request_retransmit for every block of from .. to - 1, in this order.  A
\* block already received is not added, nor anything once the table is full.
RequestRange(x, from, to) ==
  LET range == [i \in 1 .. (IF from < to THEN to - from ELSE 0) |-> from + i - 1]
      grown == x.table \o Pick(range, Missing(x))
  IN  [x EXCEPT !.table = SubSeq(grown, 1, min(Len(grown), TABLE_LIMIT))]

\* The entries ttp_repeat_retransmit keeps; entry 0 is never asked for.
Outstanding(x) == Pick(x.table, Missing(x) \ {0})

TooMany(x) == Len(Outstanding(x)) >= MAX_RETRANSMISSION_BUFFER

\* gapless_to_block + 1, an unsigned sum
AfterGapless(x) == (x.gapless_to_block + 1) % U32

\* "restart from first missing block"
\* Mutant: the restart forgets the successor, or takes it twice.
RestartTooEarly(x) == min(BLOCK_COUNT, x.gapless_to_block)
RestartTooLate(x)  == min(BLOCK_COUNT, AfterGapless(x) + 1)
RestartBlock(x) == min(BLOCK_COUNT, AfterGapless(x))

\* What ttp_repeat_retransmit writes to the server ...
Requests(x) ==
  IF TooMany(x)
  THEN << Request("restart", RestartBlock(x)) >>
  ELSE [i \in 1 .. Len(Outstanding(x)) |-> Request("retransmit", Outstanding(x)[i])]

\* Mutant: a restart leaves the head where it was.
RestartKeepsHead(x) ==
  IF TooMany(x)
  THEN [x EXCEPT !.restart_pending = TRUE, !.table = <<>>]
  ELSE [x EXCEPT !.table = Outstanding(x)]

\* Mutant: a restart forgets the blocks behind the new head.
RestartForgetsBlocks(x) ==
  [x EXCEPT !.table = <<>>,
            !.received = IF TooMany(x) THEN @ \cap 1 .. RestartBlock(x) ELSE @]

\* ... and what it leaves behind: a cleaned table, or an empty one with the
\* head moved back and the range of blocks to ignore remembered.
AfterRepeat(x) ==
  IF TooMany(x)
  THEN LET last == x.table[Len(x.table)]
       IN  [x EXCEPT !.restart_pending = TRUE,
                     !.restart_lastidx = last,
                     !.restart_wireclearidx = min(BLOCK_COUNT, last + ON_WIRE_ESTIMATE),
                     !.table = <<>>,
                     !.next_block = RestartBlock(x)]
  ELSE [x EXCEPT !.table = Outstanding(x)]

-----------------------------------------------------------------------------
(* One pass of the receive loop (client/command.c). *)

\* Mutant: a duplicate is counted again.
StoreAgain(x, b) ==
  [x EXCEPT !.received = @ \cup {b}, !.blocks_left = IF @ > 0 THEN @ - 1 ELSE 0]

\* A new block goes to the ring buffer and into the bitmap.
Store(x, b) ==
  IF got_block(x, b) THEN x
  ELSE [x EXCEPT !.received = @ \cup {b},
                 !.blocks_left = IF @ > 0 THEN @ - 1 ELSE 0]

\* Blocks that were on the wire when the restart was requested.
OnTheWire(x, d) ==
  /\ x.restart_pending
  /\ d.type # "terminate"
  /\ x.restart_lastidx < d.block /\ d.block <= x.restart_wireclearidx

\* A double stored in a u_int32_t.  C does not define it for a negative value:
\* processors wrap it or clip it at 0.
FloatToU32(v) == IF v >= 0 THEN {v} ELSE {0, v % U32}

\* The first block still wanted in semi-lossy mode: the window is a product of
\* measured rates, so any number of blocks, and the span it is compared with
\* wraps when the block lies before the gapless part.
EarliestBlocks(x, d) ==
  IF parameter.lossless \/ parameter.losswindow = 0 \/ d.block <= x.next_block THEN {d.block}
  ELSE LET span == (d.block - x.gapless_to_block) % U32
       IN  UNION {FloatToU32(d.block - min(w, span)) : w \in 0 .. parameter.losswindow}

\* The block is ahead of the one expected: lossy mode skips the gap, semi-lossy
\* mode asks for the part of it inside the window, lossless mode for all of it.
QueueGap(x, d, earliest) ==
  IF d.block <= x.next_block THEN x
  ELSE IF parameter.lossless THEN RequestRange(x, x.next_block, d.block)
  ELSE IF parameter.losswindow = 0 THEN [x EXCEPT !.gapless_to_block = d.block]
  ELSE [RequestRange(x, earliest, d.block) EXCEPT !.next_block = earliest,
                                                  !.gapless_to_block = earliest]

\* The end of the run of received blocks that starts after g.
GaplessFrom(x, g) ==
  IF g >= BLOCK_COUNT THEN g
  ELSE CHOOSE e \in g .. BLOCK_COUNT :
         /\ \A b \in g + 1 .. e : got_block(x, b)
         /\ e = BLOCK_COUNT \/ ~got_block(x, e + 1)

AdvanceGapless(x) == [x EXCEPT !.gapless_to_block = GaplessFrom(x, @)]

AdvanceHead(x, d) ==
  IF d.type = "original" THEN [x EXCEPT !.next_block = d.block + 1] ELSE x

EndRestart(x) ==
  IF x.next_block >= x.restart_lastidx THEN [x EXCEPT !.restart_pending = FALSE] ELSE x

\* A pass that is neither for a full ring nor for a plain duplicate.
Track(x, d, earliest) ==
  IF OnTheWire(x, d) THEN x
  ELSE EndRestart(AdvanceHead(AdvanceGapless(QueueGap(x, d, earliest)), d))

\* What such a pass may make of the transfer state.
Tracked(d) == {Track(Store(xfer, d.block), d, e) : e \in EarliestBlocks(xfer, d)}

Interesting(x, d) ==
  ~got_block(x, d.block) \/ d.type = "terminate" \/ x.restart_pending

\* Mutant: no mode ends without the whole file.
CompleteOnlyWhole(x) == x.blocks_left = 0

\* "are we at the end of the transmission?"
Complete(x) ==
  \/ x.blocks_left = 0
  \/ ~parameter.lossless /\ x.table = <<>> /\ ~x.restart_pending

StillMissing(x) == RequestRange(x, AfterGapless(x), BLOCK_COUNT)

\* Sends requests on the control connection; a write waits for room in it.
\* A server that has timed out reads them too, but not as requests.
Send(requests) ==
  /\ Len(tcp) + Len(requests) <= TCP_BOUND
  /\ tcp' = tcp \o requests

\* send_stats: the table is repeated when the update period is over.
UpdateStats(x, sent) ==
  \/ xfer' = x /\ Send(sent)
  \/ xfer' = AfterRepeat(x) /\ Send(sent \o Requests(x))

\* A pass of the loop on datagram d when the ring has room.  A TERMINATE block
\* ends the transfer or makes the client repeat everything it still misses.
Accept(d) ==
  \E x \in Tracked(d) :
    \/ /\ ~Interesting(xfer, d)
       /\ UpdateStats(xfer, <<>>)
       /\ UNCHANGED client
    \/ /\ Interesting(xfer, d) /\ d.type # "terminate"
       /\ UpdateStats(x, <<>>)
       /\ UNCHANGED client
    \/ /\ d.type = "terminate" /\ ~Complete(x)
       /\ \E m \in {StillMissing(x)} : UpdateStats(AfterRepeat(m), Requests(m))
       /\ UNCHANGED client
    \/ /\ d.type = "terminate" /\ Complete(x)
       /\ xfer' = x
       /\ Send(<< Request("stop", 0) >>)
       /\ client' = "done"

\* The network may deliver a datagram again.
Deliver(d) == client = "receiving" /\ d \in udp /\ udp' \in {udp, udp \ {d}}

Receive(d) == Deliver(d) /\ Accept(d) /\ UNCHANGED <<parameter, server, block>>

\* With a full ring the datagram is dropped, but the statistics go out.
ReceiveWhenFull(d) ==
  /\ Deliver(d)
  /\ UpdateStats(xfer, <<>>)
  /\ UNCHANGED <<parameter, server, block, client>>

\* The code after the label abort: memory for the table or a write has failed.
\* The client gives its buffers up and returns to its prompt without a word to
\* the server, before or after the end of the receive loop.
Abort ==
  /\ client = "receiving"
  /\ client' = "aborted"
  /\ UNCHANGED <<parameter, server, block, udp, tcp, xfer>>

Lose(d) ==
  /\ d \in udp
  /\ udp' = udp \ {d}
  /\ UNCHANGED <<parameter, server, block, tcp, client, xfer>>

-----------------------------------------------------------------------------
(* The server (server/main.c, server/protocol.c). *)

\* sendto, which waits while NET_BOUND datagrams are in flight; the client's
\* socket is closed once it has left its loop.
Transmit(b, type) ==
  LET d == [block |-> b, type |-> type]
  IN  /\ udp' = IF client = "receiving" THEN udp \cup {d} ELSE udp
      /\ Cardinality(udp') <= NET_BOUND

\* A complete request is in the socket: it is handled and no block is sent.
HandleRequest ==
  /\ server = "sending" /\ tcp # <<>>
  /\ tcp' = Tail(tcp)
  /\ LET r == Head(tcp)
     IN  \/ /\ r.type = "stop"
            /\ server' = "stopped" /\ UNCHANGED <<block, udp>>
         \/ /\ r.type = "restart"
            /\ block' = IF r.block \in FileBlock THEN r.block ELSE block
            /\ UNCHANGED <<server, udp>>
         \/ /\ r.type = "retransmit"
            /\ Transmit(r.block, "retransmission")
            /\ UNCHANGED <<server, block>>
  /\ UNCHANGED <<parameter, client, xfer>>

\* The block of the next pass of the send loop.  At the end of the file the
\* last block is sent again and again.
NextToSend == min(block + 1, BLOCK_COUNT)

\* No request has arrived (one may be on its way): the next block is sent.
SendNextBlock ==
  /\ server = "sending"
  /\ block' = NextToSend
  /\ Transmit(block', IF block' = BLOCK_COUNT THEN "terminate" ELSE "original")
  /\ UNCHANGED <<parameter, server, tcp, client, xfer>>

\* No request has been handled for hb_timeout seconds, because none was sent,
\* because the network is out, or because those written are still on their way:
\* the server leaves the send loop.  The client is not told.
HeartbeatTimeout ==
  /\ server = "sending"
  /\ server' = "timed_out"
  /\ UNCHANGED <<parameter, block, udp, tcp, client, xfer>>

\* After that the server waits for the name of a file and takes whatever the
\* client still writes for one; what it answers is in ControlSession.
ReadAsFileName ==
  /\ server = "timed_out" /\ tcp # <<>>
  /\ tcp' = Tail(tcp)
  /\ UNCHANGED <<parameter, server, block, udp, client, xfer>>

-----------------------------------------------------------------------------

Init ==
  /\ parameter \in PARAMETERS
  /\ server = "sending" /\ block = 0
  /\ udp = {} /\ tcp = <<>>
  /\ client = "receiving"
  /\ xfer = [received |-> {}, blocks_left |-> BLOCK_COUNT,
             next_block |-> 1, gapless_to_block |-> 0, table |-> <<>>,
             restart_pending |-> FALSE, restart_lastidx |-> 0,
             restart_wireclearidx |-> 0]

\* Nothing is left to do.  A client whose server has timed out stays in
\* recvfrom, which has no time limit, once no datagram is in flight.
Finished ==
  /\ server # "sending"
  /\ client = "receiving" => udp = {}
  /\ UNCHANGED vars

Next ==
  \/ HandleRequest \/ SendNextBlock \/ HeartbeatTimeout \/ ReadAsFileName
  \/ Abort
  \/ \E d \in udp : Receive(d) \/ ReceiveWhenFull(d) \/ Lose(d)
  \/ Finished

Spec == Init /\ [][Next]_vars

\* Both programs keep running; TCP delivers, and every pass of the send loop
\* reads before it sends, so a request is not passed over for ever; a datagram
\* that is sent again and again is received again and again at a moment when
\* the ring has room; no datagram stays in flight for ever.  An outage that lasts
\* is a behaviour in which the server times out; it must do so only when the
\* client has gone, for then no request comes any more.
FairSpec ==
  /\ Spec
  /\ SF_vars(HandleRequest)
  /\ WF_vars(SendNextBlock)
  /\ WF_vars(HeartbeatTimeout /\ client = "aborted")
  /\ WF_vars(ReadAsFileName)
  /\ \A d \in Datagram : SF_vars(Receive(d)) /\ WF_vars(Lose(d))

-----------------------------------------------------------------------------
(* Properties. *)

RequestRecord == [type : {"retransmit", "restart", "stop"}, block : 0 .. BLOCK_COUNT]

XferRecord ==
  [received : SUBSET FileBlock, blocks_left : 0 .. BLOCK_COUNT,
   next_block : 0 .. U32 - 1, gapless_to_block : 0 .. U32 - 1,
   table : Seq(0 .. BLOCK_COUNT), restart_pending : BOOLEAN,
   restart_lastidx : 0 .. BLOCK_COUNT, restart_wireclearidx : 0 .. BLOCK_COUNT]

\* Counters stay within the file; only the head and the gapless part, which
\* semi-lossy mode moves by unsigned differences, may be any 32-bit number.
TypeOK ==
  /\ parameter \in PARAMETERS
  /\ server \in {"sending", "stopped", "timed_out"}
  /\ block \in 0 .. BLOCK_COUNT
  /\ udp \subseteq Datagram
  /\ tcp \in Seq(RequestRecord) /\ Len(tcp) <= TCP_BOUND
  /\ client \in {"receiving", "done", "aborted"}
  /\ xfer \in XferRecord /\ Len(xfer.table) <= TABLE_LIMIT

\* In lossless mode the client leaves its loop only with the whole file.
LosslessIsComplete == client = "done" /\ parameter.lossless => xfer.received = FileBlock

\* blocks_left, which ends the transfer, counts what the bitmap lacks.
CountdownMatchesBitmap == xfer.blocks_left = Cardinality(FileBlock \ xfer.received)

\* In lossless mode the gapless part has no gap: a restart, and the requests at
\* the end of the file, start after it and would never ask for a block in it.
GaplessHasNoGap == parameter.lossless => 1 .. xfer.gapless_to_block \subseteq xfer.received

\* A block that has arrived or is asked for.
Queued(x, b) == b \in x.received \/ \E i \in DOMAIN x.table : x.table[i] = b

\* In lossless mode every gap behind the head is in the table, whatever was
\* lost, reordered or restarted in between.
GapsAreQueued == parameter.lossless => \A b \in 1 .. xfer.next_block - 1 : Queued(xfer, b)

\* The table has room for the requests that any block in flight leads to, or
\* holds them already.
TableHasRoom ==
  parameter.lossless => \A d \in udp :
    \/ Len(xfer.table) + (d.block - xfer.next_block) <= TABLE_LIMIT
    \/ \A b \in xfer.next_block .. d.block - 1 : Queued(xfer, b)

\* The server can serve every request: no retransmission of block 0 or of a
\* block past the end is asked for, which ttp_accept_retransmit does not check,
\* and in lossless mode no restart there, which it checks and then ignores.
RequestsAreLegal ==
  \A i \in DOMAIN tcp :
    \/ tcp[i].type = "retransmit"
    \/ tcp[i].type = "restart" /\ parameter.lossless
    => tcp[i].block \in FileBlock

\* A restart never leaves a gap behind: it starts at the first missing block.
RestartsAtFirstGap ==
  [][\A i \in Len(tcp) + 1 .. Len(tcp') :
       parameter.lossless /\ tcp'[i].type = "restart" =>
         /\ 1 .. tcp'[i].block - 1 \subseteq xfer'.received
         /\ xfer'.next_block <= tcp'[i].block]_vars

\* The server never sends for ever, in any mode and over any network: either
\* both sides finish, or the heartbeat timeout ends the transfer, as it must when
\* the client has gone without a word.
TransferEnds ==
  <>(server = "timed_out" \/ (server = "stopped" /\ client = "done"))

\* A restart makes the server go on "at the given block"
\* (server/protocol.c:93).
RestartsAtGivenBlock ==
  [][server = "sending" /\ tcp # <<>> /\ tcp' = Tail(tcp) /\ Head(tcp).type = "restart"
       => NextToSend' = Head(tcp).block]_vars

\* A transfer implements the copying of the file, in every mode.
Copy == INSTANCE FileCopy WITH
          Block <- FileBlock, lossless <- parameter.lossless, arrived <- xfer.received
CopySpec == Copy!Spec

\* Every step of a transfer, on any network and with any restarts, adds a block,
\* ends the client with what it wants, stops the server after it, is one of the
\* two ways to give up, or does nothing.
CopySteps == Copy!SafeSpec
=============================================================================
