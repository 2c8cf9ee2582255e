--------------------------- MODULE ServerFeedback ---------------------------
(***************************************************************************)
(* How the send loop of a server (client_handler in server/main.c,         *)
(* rtserver/main.c and mk5server/main.c) reads the requests of its client: *)
(* TCP is a stream of bytes, so a request may arrive in parts, and between *)
(* two parts the loop sends blocks, watches the client's heartbeat and may *)
(* put an artificial loss report into the very buffer it reads into.       *)
(*                                                                         *)
(* A part stands for the bytes of a request that arrive together, the      *)
(* first one for its type.  A pass of the loop is one action: the client   *)
(* and the network act between two reads.                                  *)
(***************************************************************************)
EXTENDS Integers, Sequences

CONSTANTS
  PROGRAMS,         \* the servers to choose from
  REQUEST_LISTS,    \* the requests a client may make in one transfer
  PARTS,            \* parts of a request: sizeof(retransmission_t)
  BLOCK_COUNT,      \* param->block_count
  DEAD_PASSES,      \* passes without a request before the clocks are looked at
  REPORT_INTERVAL,  \* 500 ms, in ticks of the model's clock
  HB_TIMEOUT,       \* param->hb_timeout, in the same ticks
  TRANSFERS         \* model bound: transfers on one connection

\* The file server; the real-time server without and with a local backup file
\* (fileout); the Mark5 server.
Program == {"server", "rtserver", "rtserver_fileout", "mk5server"}

\* REQUEST_RETRANSMIT, REQUEST_RESTART, REQUEST_ERROR_RATE and REQUEST_STOP,
\* which only comes last.
Kind == {"retransmit", "restart", "error_rate", "stop"}

ASSUME FeedbackAssumption ==
  /\ PROGRAMS \subseteq Program
  /\ REQUEST_LISTS \subseteq Seq(Kind)
  /\ \A l \in REQUEST_LISTS : \A i \in 1 .. Len(l) - 1 : l[i] # "stop"
  /\ PARTS \in Nat \ {0} /\ BLOCK_COUNT \in Nat \ {0}
  /\ DEAD_PASSES \in Nat /\ REPORT_INTERVAL \in Nat /\ HB_TIMEOUT \in Nat
  /\ TRANSFERS \in Nat \ {0}

\* What a part of the buffer holds: a part of the stream, by its place in it,
\* the artificial report, or what the last transfer left there: its stop.
Report == 0
Old    == -1

VARIABLES
  program,         \* which server
  requests,        \* the requests of the client in this transfer
  transfer,        \* number of the transfer on this connection
  arrived,         \* parts that have arrived at the server's socket
  consumed,        \* parts the server has read
  conn,            \* the server's view: "open", "eof" after a close, "reset"
  retransmission,  \* the buffer of the loop
  retransmitlen,   \* parts read into it
  block,           \* xfer->block
  deadconnection_counter,
  lasthblostreport, lastfeedback,  \* ticks since then, up to what is tested
  loop,            \* "sending", "discarding" (Mark5), or how the loop was left
  fate             \* history: what became of each request

clockVars  == <<deadconnection_counter, lasthblostreport, lastfeedback>>
streamVars == <<arrived, consumed, conn>>
bufferVars == <<retransmission, retransmitlen>>
vars == <<program, requests, transfer, streamVars, bufferVars, block, clockVars, loop, fate>>

min(a, b) == IF a < b THEN a ELSE b

-----------------------------------------------------------------------------
(* One read. *)

\* What read() returns: at most the rest of the request.
status == min(arrived - consumed, PARTS - retransmitlen)

\* Mutant: the parts are stored at the start of the buffer.
ReadToStart == [p \in 1 .. PARTS |-> IF p <= status THEN consumed + p ELSE retransmission[p]]

\* The buffer after the read: the new parts follow those it already holds.
ReadOn ==
  [p \in 1 .. PARTS |->
     IF retransmitlen < p /\ p <= retransmitlen + status
     THEN consumed + p - retransmitlen ELSE retransmission[p]]

WholeRequest == retransmitlen + status = PARTS

\* At the end of the file read returns 0 and leaves errno alone, so it is an
\* error or not; a reset is one.  A server with a backup file ignores both.
MayGoOn   == \/ status > 0 \/ conn = "open" \/ conn = "eof"
             \/ program = "rtserver_fileout"
MustAbort == status = 0 /\ conn # "open" /\ program # "rtserver_fileout"

\* ntohs(retransmission.request_type), the first part of the buffer.
RequestType(part) ==
  CASE part = Report -> "error_rate"
    [] part = Old    -> "stop"
    [] OTHER         -> IF (part - 1) % PARTS = 0 THEN requests[((part - 1) \div PARTS) + 1]
                        ELSE "unknown"

\* Where part p of the request that is due next lies in the stream.
OwnPart(p) == PARTS * Len(fate) + p

\* What becomes of a request that is handled with buffer b.
Handled(b) ==
  IF \A p \in 1 .. PARTS : b[p] = OwnPart(p) THEN "whole"
  ELSE IF \A p \in 1 .. PARTS : b[p] \in {OwnPart(p), Report} THEN "spoilt"
  ELSE "mixed"

-----------------------------------------------------------------------------
(* The heartbeat. *)

TERMINATE == block' = BLOCK_COUNT

\* Mutant: a timeout is seen, but the transfer is not ended.
ResetsTheClock ==
  /\ UNCHANGED loop
  /\ lastfeedback' = IF lastfeedback > HB_TIMEOUT THEN 0 ELSE lastfeedback

\* hb_timeout seconds without a request: the transfer ends.  A server with a
\* backup file first sends, and stores, the rest of the file.
CheckTimeout ==
  LET late == lastfeedback > HB_TIMEOUT
      ends == program # "rtserver_fileout" \/ TERMINATE
  IN  /\ loop' = IF late /\ ends THEN "timed_out" ELSE loop
      /\ lastfeedback' = IF late /\ ~ends THEN 0 ELSE lastfeedback

\* The file server slows down by a loss report of its own making, which it
\* builds in the buffer; what was read there is gone, its length stays.
Overwritten(b) == IF program = "server" THEN [p \in 1 .. PARTS |-> Report] ELSE b

\* The end of a pass that handled no request.
Heartbeat ==
  IF deadconnection_counter <= DEAD_PASSES
  THEN /\ deadconnection_counter' = deadconnection_counter + 1
       /\ retransmission' = ReadOn
       /\ UNCHANGED <<lasthblostreport, lastfeedback, loop>>
  ELSE /\ deadconnection_counter' = 0
       /\ \/ /\ lasthblostreport < REPORT_INTERVAL
             /\ retransmission' = ReadOn
             /\ UNCHANGED <<lasthblostreport, lastfeedback, loop>>
          \/ /\ lasthblostreport >= REPORT_INTERVAL
             /\ lasthblostreport' = 0
             /\ retransmission' = Overwritten(ReadOn)
             /\ CheckTimeout

-----------------------------------------------------------------------------
(* The passes of the loop. *)

\* A request is complete.  Its handling is the work of modules Transfer and
\* RateControl; here a restart moves the block.
HandleRequest ==
  /\ loop = "sending" /\ WholeRequest
  /\ retransmission' = ReadOn
  /\ consumed' = consumed + status
  /\ fate' = Append(fate, Handled(ReadOn))
  /\ IF RequestType(ReadOn[1]) = "stop"
     THEN /\ loop' = "stopped"
          /\ retransmitlen' = PARTS
          /\ UNCHANGED <<block, clockVars>>
     ELSE /\ UNCHANGED loop
          /\ retransmitlen' = 0
          /\ block' \in IF RequestType(ReadOn[1]) = "restart" THEN 1 .. BLOCK_COUNT ELSE {block}
          /\ deadconnection_counter' = IF program = "mk5server" THEN 0 ELSE 1
          /\ lasthblostreport' = 0 /\ lastfeedback' = 0
  /\ UNCHANGED <<program, requests, transfer, arrived, conn>>

\* Mutant: a part is read and its length forgotten.
ForgetsTheLength == retransmitlen' = 0

KeepsTheLength == retransmitlen' = retransmitlen + status

\* Mutant: the number of the last block does not limit the next one.
SendsPastTheEnd == block + 1

NextToSend == min(block + 1, BLOCK_COUNT)

\* No complete request: what has arrived of it is kept and the next block is
\* sent.
PassWithoutRequest ==
  /\ loop = "sending" /\ ~WholeRequest /\ MayGoOn
  /\ program = "mk5server" => status = 0
  /\ consumed' = consumed + status
  /\ KeepsTheLength
  /\ block' = NextToSend
  /\ UNCHANGED <<program, requests, transfer, arrived, conn, fate>>

\* The Mark5 server does not watch the heartbeat.
SendNextBlock ==
  /\ PassWithoutRequest
  /\ \/ program # "mk5server" /\ Heartbeat
     \/ program = "mk5server" /\ UNCHANGED <<retransmission, clockVars, loop>>

\* When sendto fails the rest of the pass is skipped, the heartbeat with it.
SendFails ==
  /\ PassWithoutRequest
  /\ retransmission' = ReadOn
  /\ UNCHANGED <<clockVars, loop>>

\* "Retransmission read failed": error() ends the process.
ReadFails ==
  /\ loop \in {"sending", "discarding"} /\ MustAbort
  /\ loop = "discarding" => conn = "reset"
  /\ loop' = "failed"
  /\ UNCHANGED <<program, requests, transfer, streamVars, bufferVars, block, clockVars, fate>>

\* The Mark5 server throws an incomplete request away, and waits for the rest
\* of it to do so; at the end of the file it waits for ever.
Discard ==
  /\ program = "mk5server"
  /\ \/ loop = "sending" /\ status > 0 /\ ~WholeRequest
     \/ loop = "discarding" /\ status > 0
  /\ consumed' = consumed + status
  /\ \/ /\ WholeRequest
        /\ loop' = "sending" /\ retransmitlen' = 0 /\ fate' = Append(fate, "discarded")
     \/ /\ ~WholeRequest
        /\ loop' = "discarding" /\ KeepsTheLength /\ UNCHANGED fate
  /\ UNCHANGED <<program, requests, transfer, arrived, conn, retransmission, block, clockVars>>

\* Mutant: the next transfer starts with the length of the last one.
StartsWithOldLength == UNCHANGED retransmitlen

StartsEmpty == retransmitlen' = 0

\* The next file on the same connection: its name and its parameters (module
\* ControlSession), then the start of the loop.
NextTransfer ==
  /\ loop = "stopped" /\ transfer < TRANSFERS /\ conn = "open"
  /\ transfer' = transfer + 1 /\ loop' = "sending"
  /\ arrived' = 0 /\ consumed' = 0 /\ block' = 0 /\ fate' = <<>>
  /\ StartsEmpty
  /\ retransmission' = [p \in 1 .. PARTS |-> Old]
  /\ deadconnection_counter' = 0 /\ lasthblostreport' = 0 /\ lastfeedback' = 0
  /\ UNCHANGED <<program, requests, conn>>

-----------------------------------------------------------------------------
(* The client, the network and the clock. *)

\* The client writes its requests one by one; their parts arrive in order.
Arrive ==
  /\ conn = "open" /\ arrived < PARTS * Len(requests)
  /\ arrived' = arrived + 1
  /\ UNCHANGED <<program, requests, transfer, consumed, conn, bufferVars, block,
                 clockVars, loop, fate>>

\* The client dies, or closes the connection, at any moment.
Disconnect ==
  /\ conn = "open" /\ conn' \in {"eof", "reset"}
  /\ UNCHANGED <<program, requests, transfer, arrived, consumed, bufferVars, block,
                 clockVars, loop, fate>>

Tick ==
  /\ program # "mk5server" /\ loop = "sending"
  /\ lasthblostreport' = min(lasthblostreport + 1, REPORT_INTERVAL)
  /\ lastfeedback' = min(lastfeedback + 1, HB_TIMEOUT + 1)
  /\ UNCHANGED <<program, requests, transfer, streamVars, bufferVars, block,
                 deadconnection_counter, loop, fate>>

Init ==
  /\ program \in PROGRAMS /\ requests \in REQUEST_LISTS
  /\ transfer = 1 /\ arrived = 0 /\ consumed = 0 /\ conn = "open"
  /\ retransmission = [p \in 1 .. PARTS |-> Old] /\ retransmitlen = 0
  /\ block = 0 /\ deadconnection_counter = 0 /\ lasthblostreport = 0 /\ lastfeedback = 0
  /\ loop = "sending" /\ fate = <<>>

\* The server is no longer in its loop, or spins in the recovery of a split
\* message whose rest will never come.
Over ==
  /\ loop \notin {"sending"}
  /\ UNCHANGED vars

Pass == HandleRequest \/ SendNextBlock \/ Discard
Next == Pass \/ SendFails \/ ReadFails \/ NextTransfer \/ Arrive \/ Disconnect \/ Tick \/ Over

Spec == Init /\ [][Next]_vars

\* The loop keeps running, not every sendto fails, and time passes.  Nothing
\* makes the server notice the end of the file.
FairSpec ==
  Spec /\ WF_vars(Pass) /\ WF_vars(ReadFails /\ conn = "reset") /\ WF_vars(Tick)

-----------------------------------------------------------------------------
(* Properties. *)

LoopState == {"sending", "discarding", "stopped", "timed_out", "failed"}

TypeOK ==
  /\ program \in PROGRAMS /\ requests \in REQUEST_LISTS
  /\ transfer \in 1 .. TRANSFERS
  /\ arrived \in 0 .. PARTS * Len(requests) /\ consumed \in 0 .. arrived
  /\ conn \in {"open", "eof", "reset"}
  /\ retransmission \in [1 .. PARTS -> Int] /\ retransmitlen \in 0 .. PARTS
  /\ block \in 0 .. BLOCK_COUNT
  /\ deadconnection_counter \in 0 .. DEAD_PASSES + 1
  /\ lasthblostreport \in 0 .. REPORT_INTERVAL /\ lastfeedback \in 0 .. HB_TIMEOUT + 1
  /\ loop \in LoopState
  /\ fate \in Seq({"whole", "spoilt", "discarded", "mixed"}) /\ Len(fate) <= Len(requests)

\* The length of the buffer agrees with the place in the stream.
InPhase ==
  IF loop = "stopped" THEN retransmitlen = PARTS /\ consumed = PARTS * Len(fate)
  ELSE retransmitlen < PARTS /\ consumed = PARTS * Len(fate) + retransmitlen

\* What was read of the next request is still there, or was overwritten by a
\* report.  The Mark5 server keeps nothing.
BufferHoldsNext ==
  loop = "sending" =>
    /\ program = "mk5server" => retransmitlen = 0
    /\ \A p \in 1 .. PARTS : p <= retransmitlen =>
         \/ retransmission[p] = OwnPart(p)
         \/ program = "server" /\ retransmission[p] = Report

\* No request is put together from the parts of two: whatever the loop does
\* between two reads, a request is handled as it was written, or with parts of
\* a report in it (file server), or thrown away (Mark5 server).  The real-time
\* server, which makes no report, handles every request as it was written.
RequestsKeepTheirParts ==
  \A i \in DOMAIN fate :
    fate[i] \in CASE program = "server"    -> {"whole", "spoilt"}
                  [] program = "mk5server" -> {"whole", "discarded"}
                  [] OTHER                 -> {"whole"}

\* The inductive invariant behind it: length, place and contents agree.
FeedbackInv == TypeOK /\ InPhase /\ BufferHoldsNext /\ RequestsKeepTheirParts

\* A client that falls silent is dropped by the file server and by the
\* real-time server that keeps no backup.  (The Mark5 server has no heartbeat,
\* and one with a backup goes on to the end of the file.)
SilentClientIsDropped ==
  program \in {"server", "rtserver"} => <>(loop # "sending")

StopHasArrived ==
  /\ requests # <<>> /\ requests[Len(requests)] = "stop"
  /\ arrived = PARTS * Len(requests)
StopLost ==
  requests # <<>> /\ Len(fate) = Len(requests) /\ fate[Len(fate)] # "whole"

\* A stop request that has arrived as a whole stops the loop, unless a report
\* was written over its first part or the Mark5 server met it in parts.
StopIsObeyed ==
  loop = "sending" /\ StopHasArrived ~> loop = "stopped" \/ StopLost

\* The three servers implement the stream of requests.
Fates == [i \in DOMAIN fate |-> CASE fate[i] = "whole" -> "obeyed"
                                  [] fate[i] = "mixed" -> "mixed"
                                  [] OTHER             -> "lost"]
LoopOutcome == CASE loop \in {"sending", "discarding"} -> "sending"
                 [] loop = "stopped"                   -> "stopped"
                 [] OTHER                              -> "left"

Stream == INSTANCE RequestStream WITH
            lossy <- program \in {"server", "mk5server"}, fate <- Fates, loop <- LoopOutcome
StreamSpec == Stream!Spec
=============================================================================
