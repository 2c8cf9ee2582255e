--------------------------- MODULE ControlSession ---------------------------
(***************************************************************************)
(* One control connection: the client's commands (client/command.c,        *)
(* client/protocol.c) and the server process that main() forks for it      *)
(* (server/main.c, server/protocol.c), from the exchange of revisions to   *)
(* the end of the connection.                                              *)
(*                                                                         *)
(* TCP carries whole messages, in order.  One step of a side is: read one  *)
(* message, then everything it does and writes up to its next read.  The   *)
(* transfer of a file (module Transfer) is here the time between the       *)
(* port and the stop request.                                              *)
(***************************************************************************)
EXTENDS Integers, Sequences

CONSTANTS
  ENVIRONMENTS,   \* the environments to choose from, one for each session
  FEEDBACK_BOUND  \* model bound: unread requests of a transfer

\* What may go wrong: either program may be killed, the client's transfer may
\* end by its label abort, the client may fail to open its local file, and the
\* server may miss the client's feedback for too long.
Fault == {"client killed", "server killed", "transfer aborted", "local file", "heartbeat"}

\* The number of files named on the server's command line, whether it has an
\* --allhook program for "get *", and what may go wrong.
Environment == [files : Nat, hook : BOOLEAN, faults : SUBSET Fault]

ASSUME ControlAssumption ==
  /\ ENVIRONMENTS \subseteq Environment
  /\ FEEDBACK_BOUND \in Nat \ {0}

Lines     == {"dir", "all", "file"}                       \* ended by newlines
Requests  == {"feedback", "stop"}                         \* retransmission_t
FromClient == Lines \cup Requests \cup
  {"revision", "digest", "list read", "got size", "got list", "parameters", "port"}
FromServer == {"revision", "challenge", "granted", "denied", "listing", "counts",
               "names", "accepted", "refused", "reply"}

\* n is the number of files in the message "counts".
Message(kinds) == [kind : kinds, n : Nat]
Msg(kind) == [kind |-> kind, n |-> 0]

VARIABLES
  env,       \* the environment of this session
  same,      \* what both sides have alike: "revision", "secret", both or neither
  client,    \* what the client does: the message it reads next, "prompt", ...
  server,    \* the message the server reads next, "sending", "exited", ...
  toServer,  \* messages the server has not read
  toClient,  \* messages the client has not read
  buffered,  \* what is still in the client's stdio buffer
  left,      \* files the client's command_get has yet to transfer
  count,     \* files the server has announced for "get *"
  conn       \* the server's view: "open", "eof" after a close, "reset" until a
             \* call has reported the error, "gone" once it has been

vars == <<env, same, client, server, toServer, toClient, buffered, left, count, conn>>

-----------------------------------------------------------------------------
(* The client.  stdio keeps what is written until it is flushed, and         *)
(* flushes it before it reads.                                               *)

Buffer(kind) == buffered' = Append(buffered, Msg(kind))

ServerGone == server = "exited"

\* fprintf or fwrite of messages, and fflush or a following fread.
Flush(kinds) ==
  /\ buffered' = <<>>
  /\ toServer' = IF ServerGone THEN toServer
                 ELSE toServer \o buffered \o [i \in DOMAIN kinds |-> Msg(kinds[i])]

ClientReads(kind) ==
  /\ toClient # <<>> /\ Head(toClient).kind = kind
  /\ toClient' = Tail(toClient)

ServerUntouched == UNCHANGED <<env, same, server, count, conn>>

Go(state) == client' = state

\* The user's commands.
Dir == /\ client = "prompt" /\ Go("listing") /\ Flush(<<"dir">>)
       /\ UNCHANGED <<toClient, left>> /\ ServerUntouched

Get == /\ client = "prompt" /\ Go("result") /\ Flush(<<"file">>) /\ left' = 1
       /\ UNCHANGED toClient /\ ServerUntouched

GetAll == /\ client = "prompt" /\ Go("counts") /\ Flush(<<"all">>)
          /\ UNCHANGED <<toClient, left>> /\ ServerUntouched

\* A socket closed with unread data is reset.
Disconnect ==
  /\ Go("closed")
  /\ conn' = IF toClient = <<>> THEN "eof" ELSE "reset"
  /\ toClient' = <<>>
  /\ UNCHANGED <<env, same, server, count, left>>

Close == client = "prompt" /\ Flush(<<>>) /\ Disconnect

\* command_connect: negotiate, authenticate.
Negotiate ==
  /\ client = "revision" /\ ClientReads("revision")
  /\ \/ /\ "revision" \in same /\ Go("challenge") /\ UNCHANGED conn
     \/ /\ "revision" \notin same /\ Go("closed")
        /\ conn' = IF toClient' = <<>> THEN "eof" ELSE "reset"
  /\ UNCHANGED <<env, same, server, toServer, buffered, left, count>>

Prove == /\ client = "challenge" /\ ClientReads("challenge")
         /\ Go("verdict") /\ Flush(<<"digest">>)
         /\ UNCHANGED left /\ ServerUntouched

Verdict ==
  /\ client = "verdict"
  /\ \/ ClientReads("granted") /\ Go("prompt") /\ UNCHANGED conn
     \/ ClientReads("denied") /\ Go("closed") /\ conn' = "eof"
  /\ UNCHANGED <<env, same, server, toServer, buffered, left, count>>

\* command_dir: the byte that acknowledges the list is written but not flushed.
ReadListing == /\ client = "listing" /\ ClientReads("listing")
               /\ Go("prompt") /\ Buffer("list read")
               /\ UNCHANGED <<toServer, left>> /\ ServerUntouched

\* command_get "*": the counts, the names, or a signal that there are none.
ReadCounts ==
  /\ client = "counts" /\ ClientReads("counts") /\ Flush(<<"got size">>)
  /\ left' = Head(toClient).n
  /\ Go(IF left' = 0 THEN "signal" ELSE "names")
  /\ ServerUntouched

ReadSignal == /\ client = "signal" /\ ClientReads("refused") /\ Go("prompt")
              /\ UNCHANGED <<toServer, buffered, left>> /\ ServerUntouched

ReadNames == /\ client = "names" /\ ClientReads("names")
             /\ Go("result") /\ Flush(<<"got list", "file">>)
             /\ UNCHANGED left /\ ServerUntouched

\* ttp_open_transfer and ttp_open_port.
ReadResult ==
  /\ client = "result"
  /\ \/ ClientReads("accepted") /\ Go("reply") /\ Flush(<<"parameters">>)
     \/ ClientReads("refused") /\ Go("prompt") /\ UNCHANGED <<buffered, toServer>>
  /\ UNCHANGED left /\ ServerUntouched

ReadReply ==
  /\ client = "reply" /\ ClientReads("reply")
  /\ \/ Go("receiving") /\ Flush(<<"port">>)
     \/ "local file" \in env.faults /\ Go("prompt") /\ UNCHANGED <<buffered, toServer>>
  /\ UNCHANGED left /\ ServerUntouched

\* The transfer: feedback, then the stop request and the next file of the list.
Feedback ==
  /\ client = "receiving" /\ Len(toServer) < FEEDBACK_BOUND
  /\ Flush(<<"feedback">>)
  /\ UNCHANGED <<client, toClient, left>> /\ ServerUntouched

\* Mutant: the files are not counted.
FinishSameFile ==
  /\ client = "receiving" /\ Go("result") /\ Flush(<<"stop", "file">>)
  /\ UNCHANGED <<toClient, left>> /\ ServerUntouched

\* Mutant: the stop request is forgotten.
FinishUnannounced ==
  /\ client = "receiving" /\ left' = 0 /\ Go("prompt") /\ Flush(<<>>)
  /\ UNCHANGED toClient /\ ServerUntouched

FinishFile ==
  /\ client = "receiving" /\ left' = left - 1
  /\ \/ left' > 0 /\ Go("result") /\ Flush(<<"stop", "file">>)
     \/ left' = 0 /\ Go("prompt") /\ Flush(<<"stop">>)
  /\ UNCHANGED toClient /\ ServerUntouched

\* The code after the label abort; a write to a server that is gone fails too.
AbortTransfer ==
  /\ client = "receiving" /\ Go("prompt")
  /\ "transfer aborted" \in env.faults \/ ServerGone
  /\ UNCHANGED <<toServer, toClient, buffered, left>> /\ ServerUntouched

\* The server has closed: connecting fails, a command returns with a warning.
\* A client in its receive loop does not read the control connection.
Connecting == {"revision", "challenge", "verdict"}
Waiting    == {"listing", "counts", "signal", "names", "result", "reply"}

\* Mutant: a command does not see the end of the file.
ClientEofUnnoticed ==
  /\ ServerGone /\ toClient = <<>> /\ client \in Connecting
  /\ Go("closed")
  /\ UNCHANGED <<toServer, toClient, buffered, left>> /\ ServerUntouched

ClientEof ==
  /\ ServerGone /\ toClient = <<>> /\ client \in Connecting \cup Waiting
  /\ Go(IF client \in Connecting THEN "closed" ELSE "prompt")
  /\ UNCHANGED <<toServer, toClient, buffered, left>> /\ ServerUntouched

\* The states in which the client writes next, and then may get a SIGPIPE, which
\* nobody handles, from a connection that the server has left.
Writing == {"prompt", "challenge", "counts", "names", "result", "reply", "receiving"}

Crash == /\ client # "closed"
         /\ "client killed" \in env.faults \/ (ServerGone /\ client \in Writing)
         /\ Disconnect /\ buffered' = <<>> /\ UNCHANGED toServer

\* The client takes a message for another one.
ClientExpects ==
  [revision |-> {"revision"}, challenge |-> {"challenge"}, verdict |-> {"granted", "denied"},
   listing |-> {"listing"}, counts |-> {"counts"}, signal |-> {"refused"}, names |-> {"names"},
   result |-> {"accepted", "refused"}, reply |-> {"reply"}]

ClientMisreads ==
  /\ client \in DOMAIN ClientExpects /\ toClient # <<>>
  /\ Head(toClient).kind \notin ClientExpects[client]

-----------------------------------------------------------------------------
(* The server process. *)

ClientUntouched == UNCHANGED <<env, same, client, buffered, left>>

\* The connection after the reads of a step: queued data comes first, then the
\* error, which a single call reports; after it there is nothing to read.
seen == IF toServer = <<>> /\ conn = "reset" THEN "gone" ELSE conn

\* How many calls of full_write a message takes.
Writes(kind) ==
  CASE kind = "listing" -> 1 + 2 * env.files [] kind = "counts" -> 2
    [] kind = "names" -> count [] kind = "reply" -> 4 [] OTHER -> 1

\* full_write calls an error a success.  A write after the close is accepted, and
\* brings a reset; after a reset one write may still report it, and the next one
\* raises SIGPIPE, which nobody handles.
WriteAndGo(message, state) ==
  \/ /\ seen = "open"
     /\ toClient' = Append(toClient, message) /\ server' = state /\ UNCHANGED conn
  \/ /\ seen = "eof"
     /\ conn' \in {"eof", "gone"} /\ server' = state /\ UNCHANGED toClient
  \/ /\ seen = "reset" /\ Writes(message.kind) <= 1
     /\ conn' = "gone" /\ server' = state /\ UNCHANGED toClient
  \/ /\ seen = "gone" \/ (seen \in {"eof", "reset"} /\ Writes(message.kind) > 1)
     /\ conn' = "gone" /\ server' = "exited" /\ UNCHANGED toClient

Write(kind, state) == WriteAndGo(Msg(kind), state)

Silent(state) == server' = state /\ conn' = seen /\ UNCHANGED toClient

Arrived(kind) == toServer # <<>> /\ Head(toServer).kind = kind /\ toServer' = Tail(toServer)

\* full_read stops at an error and calls it a success; where read returns 0, at
\* the end of the file and once the error has been reported, it reads for ever.
FullRead(kind) ==
  \/ Arrived(kind)
  \/ toServer = <<>> /\ conn = "reset" /\ UNCHANGED toServer

\* read_line reports both.
ReadLine(line) == Arrived(line)

LineFails ==
  /\ server \in {"command", "name"} /\ toServer = <<>> /\ conn # "open"
  /\ Silent("exited") /\ UNCHANGED <<toServer, count>> /\ ClientUntouched

SendRevision == /\ server = "new" /\ Write("revision", "revision")
                /\ UNCHANGED <<toServer, count>> /\ ClientUntouched

CheckRevision ==
  /\ server = "revision" /\ FullRead("revision")
  /\ IF "revision" \in same THEN Write("challenge", "digest") ELSE Silent("exited")
  /\ UNCHANGED count /\ ClientUntouched

\* Mutant: the digests are not compared.
DigestUnchecked ==
  /\ server = "digest" /\ FullRead("digest") /\ Write("granted", "command")
  /\ UNCHANGED count /\ ClientUntouched

\* After a failed read the digest is what happened to be on the stack, and the
\* answer to it raises SIGPIPE.
CheckDigest ==
  /\ server = "digest" /\ FullRead("digest")
  /\ IF "secret" \in same /\ toServer # <<>> THEN Write("granted", "command")
     ELSE Write("denied", "exited")
  /\ UNCHANGED count /\ ClientUntouched

\* Mutant: the return after the refusal is missing.
OpenFallsThrough ==
  /\ toClient' = toClient \o << Msg("refused"), Msg("accepted") >>
  /\ server' = "parameters" /\ UNCHANGED conn

\* ttp_open_transfer: the file is there and can be read, or not.
OpenFile == Write("accepted", "parameters") \/ Write("refused", "command")

NamesFile == server \in {"command", "name"} /\ ReadLine("file") /\ OpenFile
             /\ UNCHANGED count /\ ClientUntouched

ListFiles == /\ server = "command" /\ ReadLine("dir") /\ Write("listing", "list read")
             /\ UNCHANGED count /\ ClientUntouched

\* Mutant: the acknowledgement is not read.
EndListingUnread == /\ server = "list read" /\ Silent("command")
                    /\ UNCHANGED <<toServer, count>> /\ ClientUntouched

\* "File list sent!" is a failure of ttp_open_transfer: the next command.
EndListing == /\ server = "list read" /\ FullRead("list read") /\ Silent("command")
              /\ UNCHANGED count /\ ClientUntouched

\* A hook may announce any number of files.
SendCounts ==
  /\ server = "command" /\ ReadLine("all")
  /\ count' \in IF env.hook THEN 0 .. env.files ELSE {env.files}
  /\ WriteAndGo([kind |-> "counts", n |-> count'], "got size")
  /\ ClientUntouched

\* With a hook that names no file the server goes on to open the file "*".
SendNames ==
  /\ server = "got size" /\ FullRead("got size")
  /\ \/ count > 0 /\ Write("names", "got list")
     \/ count = 0 /\ env.hook /\ Write("refused", "command")
     \/ count = 0 /\ ~env.hook /\ Silent("got list")
  /\ UNCHANGED count /\ ClientUntouched

EndNames == /\ server = "got list" /\ FullRead("got list") /\ Silent("name")
            /\ UNCHANGED count /\ ClientUntouched

\* The parameters are read by seven calls of full_read: if the first one reports
\* a reset, the second one never returns.
SendReply == /\ server = "parameters" /\ Arrived("parameters") /\ Write("reply", "port")
             /\ UNCHANGED count /\ ClientUntouched

LoseParameters == /\ server = "parameters" /\ toServer = <<>> /\ conn = "reset"
                  /\ Silent("parameters") /\ UNCHANGED <<toServer, count>> /\ ClientUntouched

OpenPort == /\ server = "port" /\ FullRead("port") /\ Silent("sending")
            /\ UNCHANGED count /\ ClientUntouched

\* The send loop (client_handler).
TakeRequest ==
  /\ server = "sending" /\ toServer # <<>> /\ toServer' = Tail(toServer)
  /\ \/ Head(toServer).kind = "feedback" /\ Silent("sending")
     \/ Head(toServer).kind = "stop" /\ Silent("command")
  /\ UNCHANGED count /\ ClientUntouched

\* At the end of the file read returns 0, an error only if errno, which is that
\* of an earlier call, is not EAGAIN; a reset sets errno.
NoticeEof ==
  /\ server = "sending" /\ toServer = <<>> /\ conn # "open"
  /\ Silent("exited") /\ UNCHANGED <<toServer, count>> /\ ClientUntouched

\* No feedback for hb_timeout seconds; a client that is gone sends none.
HeartbeatTimeout ==
  /\ server = "sending" /\ toServer = <<>> /\ conn # "reset"
  /\ "heartbeat" \in env.faults \/ client = "closed"
  /\ Silent("command") /\ UNCHANGED <<toServer, count>> /\ ClientUntouched

Killed == /\ "server killed" \in env.faults /\ server # "exited"
          /\ Silent("exited") /\ UNCHANGED <<toServer, count>> /\ ClientUntouched

\* The server takes a message for another one.
ServerExpects ==
  [state \in {"revision", "digest", "list read", "got size", "got list", "parameters", "port",
              "command", "name", "sending"} |->
     CASE state = "command" -> Lines [] state = "name" -> {"file"}
       [] state = "sending" -> Requests [] OTHER -> {state}]

ServerMisreads ==
  /\ server \in DOMAIN ServerExpects /\ toServer # <<>>
  /\ Head(toServer).kind \notin ServerExpects[server]

-----------------------------------------------------------------------------

Init ==
  /\ env \in ENVIRONMENTS
  /\ same \in SUBSET {"revision", "secret"}
  /\ client = "revision" /\ server = "new"
  /\ toServer = << Msg("revision") >> /\ toClient = <<>> /\ buffered = <<>>
  /\ left = 0 /\ count = 0 /\ conn = "open"

\* What the client does by itself, as opposed to what the user makes it do.
ClientProceeds ==
  \/ Negotiate \/ Prove \/ Verdict
  \/ ReadListing \/ ReadCounts \/ ReadSignal \/ ReadNames \/ ReadResult \/ ReadReply
  \/ ClientEof

Client ==
  \/ ClientProceeds \/ Feedback \/ FinishFile
  \/ Dir \/ Get \/ GetAll \/ Close
  \/ AbortTransfer \/ Crash

ServerProceeds ==
  \/ SendRevision \/ CheckRevision \/ CheckDigest
  \/ NamesFile \/ ListFiles \/ EndListing \/ SendCounts \/ SendNames \/ EndNames \/ LineFails
  \/ SendReply \/ LoseParameters \/ OpenPort \/ TakeRequest

Server == ServerProceeds \/ NoticeEof \/ HeartbeatTimeout \/ Killed

Ended == client = "closed" /\ server = "exited" /\ UNCHANGED vars

Next == Client \/ Server \/ Ended

Spec == Init /\ [][Next]_vars

\* Both processes keep running, every transfer ends while the server sends (module
\* Transfer), and the server's clock reaches the timeout of a client that is gone.
\* Nothing makes the user type, nor the server notice an end of file in its send
\* loop, nor the client leave its receive loop when the server is gone.
FairSpec ==
  /\ Spec
  /\ WF_vars(ClientProceeds) /\ WF_vars(ServerProceeds)
  /\ WF_vars(FinishFile /\ server = "sending")
  /\ WF_vars(HeartbeatTimeout /\ client = "closed")
  /\ WF_vars(NoticeEof /\ conn = "reset")

-----------------------------------------------------------------------------
(* Properties. *)

TypeOK ==
  /\ env \in ENVIRONMENTS
  /\ same \subseteq {"revision", "secret"}
  /\ client \in DOMAIN ClientExpects \cup {"prompt", "receiving", "closed"}
  /\ server \in DOMAIN ServerExpects \cup {"new", "exited"}
  /\ toServer \in Seq(Message(FromClient)) /\ buffered \in Seq(Message(FromClient))
  /\ toClient \in Seq(Message(FromServer))
  /\ left \in 0 .. env.files + 1 /\ count \in 0 .. env.files
  /\ conn \in {"open", "eof", "reset", "gone"}

\* No side takes a message for another one: the messages carry no length and no
\* tag, so one misread message makes every later one unreadable.  Only the ends
\* of a transfer that one side does not tell the other can bring them apart, the
\* death of a side never does.
InStep ==
  env.faults \cap {"transfer aborted", "local file", "heartbeat"} = {} =>
    ~ClientMisreads /\ ~ServerMisreads

\* What the server finds once the client has flushed its buffer.
unread == toServer \o buffered

Holds(queue, kinds) ==
  Len(queue) = Len(kinds) /\ \A i \in DOMAIN kinds : queue[i].kind = kinds[i]

\* Some messages, then any number of feedback requests, then others.
Stream(queue, first, rest) ==
  /\ Len(queue) >= Len(first) + Len(rest)
  /\ \A i \in DOMAIN first : queue[i].kind = first[i]
  /\ \A i \in Len(first) + 1 .. Len(queue) - Len(rest) : queue[i].kind = "feedback"
  /\ \A i \in DOMAIN rest : queue[Len(queue) - Len(rest) + i].kind = rest[i]

At(clientState, serverState, sent, answered) ==
  /\ client = clientState /\ Holds(unread, sent)
  /\ server = serverState /\ Holds(toClient, answered)

\* The server has yet to finish the command before last one, and then to read "last".
Behind(clientState, last) ==
  /\ client = clientState /\ toClient = <<>>
  /\ \/ server = "command"   /\ Holds(unread, last)
     \/ server = "list read" /\ Holds(unread, <<"list read">> \o last)
     \/ server = "sending"   /\ Stream(unread, <<>>, <<"stop">> \o last)
     \/ server = "port"      /\ Stream(unread, <<"port">>, <<"stop">> \o last)

\* Where both sides are, and what lies between them, while both run.
Handshake ==
  \/ At("revision", "new",      <<"revision">>, <<>>)
  \/ At("revision", "revision", <<"revision">>, <<"revision">>)
  \/ /\ "revision" \in same
     /\ \/ At("revision",  "digest",   <<>>, <<"revision", "challenge">>)
        \/ At("challenge", "revision", <<"revision">>, <<>>)
        \/ At("challenge", "digest",   <<>>, <<"challenge">>)
        \/ At("verdict",   "digest",   <<"digest">>, <<>>)
        \/ At("verdict",   "command",  <<>>, <<"granted">>)

FileNames ==
  \/ At("counts", "got size", <<>>, <<"counts">>) /\ toClient[1].n = count
  \/ /\ \/ count > 0 /\ At("names",  "got size", <<"got size">>, <<>>)
        \/ count = 0 /\ At("signal", "got size", <<"got size">>, <<>>)
     /\ left = count
  \/ At("names",  "got list", <<>>, <<"names">>)
  \/ At("signal", "got list", <<>>, <<>>)
  \/ At("signal", "command",  <<>>, <<"refused">>)
  \/ At("result", "got list", <<"got list", "file">>, <<>>)
  \/ At("result", "name",     <<"file">>, <<>>)

Opening ==
  \/ At("result", "command",    <<>>, <<"refused">>)
  \/ At("result", "parameters", <<>>, <<"accepted">>)
  \/ At("reply",  "parameters", <<"parameters">>, <<>>)
  \/ At("reply",  "port",       <<>>, <<"reply">>)

Receiving ==
  /\ client = "receiving" /\ toClient = <<>>
  /\ \/ server = "port"    /\ Stream(unread, <<"port">>, <<>>)
     \/ server = "sending" /\ Stream(unread, <<>>, <<>>)

\* Only the acknowledgement of a list waits in the buffer.
BufferInv ==
  buffered = <<>> \/ (client = "prompt" /\ toServer = <<>> /\ buffered = << Msg("list read") >>)

Together ==
  /\ BufferInv
  /\ \/ Handshake \/ FileNames \/ Opening \/ Receiving
     \/ Behind("prompt", <<>>) \/ Behind("listing", <<"dir">>)
     \/ Behind("counts", <<"all">>) \/ Behind("result", <<"file">>)
     \/ At("listing", "list read", <<>>, <<"listing">>)

\* What a server that is gone has left for its client.
LeftForClient ==
  \/ toClient = <<>>
  \/ client = "revision" /\ Holds(toClient, <<"revision", "challenge">>) /\ "revision" \in same
  \/ client \in DOMAIN ClientExpects /\ \E kind \in ClientExpects[client] : Holds(toClient, <<kind>>)

\* What a server whose client is gone can read in order.
Readable(queue) ==
  \/ queue = <<>>
  \/ server = "new" /\ Holds(queue, <<"revision">>)
  \/ server \in {"revision", "digest", "list read", "got size", "parameters"} /\ Holds(queue, <<server>>)
  \/ server = "got list" /\ Holds(queue, <<"got list", "file">>)
  \/ server = "name" /\ Holds(queue, <<"file">>)
  \/ \E line \in Lines :
       \/ server = "command"   /\ Holds(queue, <<line>>)
       \/ server = "list read" /\ Holds(queue, <<"list read", line>>)
  \/ \E rest \in {<<>>, <<"stop">>} \cup { <<"stop", line>> : line \in Lines } :
       \/ server = "port"    /\ Stream(queue, <<"port">>, rest)
       \/ server = "sending" /\ Stream(queue, <<>>, rest)

LeftForServer == Readable(toServer)

\* The state of one side and the messages under way determine the state of the
\* other side, up to the messages it has not read; what a side that died leaves
\* behind can still be read in order.
SidesAgree ==
  env.faults \cap {"transfer aborted", "local file", "heartbeat"} = {} =>
    \/ client # "closed" /\ server # "exited" /\ conn = "open" /\ Together
    \/ client # "closed" /\ server = "exited" /\ LeftForClient
    \/ client = "closed" /\ server # "exited" /\ conn # "open" /\ LeftForServer
    \/ client = "closed" /\ server = "exited"

Faultless == env.faults = {}

\* The answer of one command is never left for the next one to read.
NoStaleAnswer == Faultless /\ client = "prompt" => toClient = <<>>

\* When a command has returned and everything is read, the server waits for the
\* next command, or for the byte that comes before it in the buffer.
PromptMeansListening ==
  Faultless /\ client = "prompt" /\ toServer = <<>> /\ server # "exited" =>
    \/ server = "command" /\ buffered = <<>>
    \/ server = "list read" /\ buffered = << Msg("list read") >>

\* Only a client with the right revision and secret gets an answer to a command,
\* and a client that believes it is connected has been accepted by the server.
OnlyAcceptedClients ==
  /\ {"revision", "secret"} \subseteq same
     \/ server \in {"new", "revision", "digest", "exited"}
  /\ client \in Connecting \cup {"closed"}
     \/ {"revision", "secret"} \subseteq same

\* Connecting and every command come to an end when nothing fails: the two sides
\* never wait for each other.
CommandReturns == Faultless /\ client \notin {"prompt", "closed"} ~> client \in {"prompt", "closed"}

\* The server is in full_read, has no error to be told of and nothing to read.
Spins ==
  /\ server \in {"revision", "digest", "list read", "got size", "got list", "parameters", "port"}
  /\ toServer = <<>> /\ conn \in {"eof", "gone"}

\* A server whose client is gone ends, unless it spins in full_read or takes a
\* request for something else; it does end where it waits for a command or sends
\* and the client has left it nothing to read.
DeadClientIsDropped ==
  /\ conn # "open" ~> server = "exited" \/ ServerMisreads \/ Spins
  /\ conn # "open" /\ toServer = <<>> /\ server \in {"command", "name", "sending"}
       ~> server = "exited"

\* When the server dies, so do the waits of the client for it, save for the one
\* in the receive loop, which does not look at the control connection.
DeadServerIsNoticed ==
  server = "exited" /\ client \in Connecting \cup Waiting
    ~> client \in {"prompt", "receiving", "closed"} \/ ClientMisreads

\* Neither side outlives the other unawares, with the exceptions named.
DeathIsNoticed == DeadClientIsDropped /\ DeadServerIsNoticed

\* "If no heartbeat is received within the hbtimeout time, the connection is
\* closed." (USAGE.txt:231)
TimeoutCloses ==
  [][server = "sending" /\ toServer = <<>> /\ conn = "open" /\ server' # server
       => server' = "exited"]_vars

\* "If an EOF of the TCP connection is encountered, the connection is closed
\* immediately" (USAGE.txt:232): the server process does not outlive it.
SessionEnds == conn # "open" ~> server = "exited"
=============================================================================
