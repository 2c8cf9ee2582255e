------------------------------ MODULE FileCopy ------------------------------
(***************************************************************************)
(* What one Tsunami transfer promises: blocks of the file arrive, in any   *)
(* order, each is there for good once it has arrived, a client that wants  *)
(* a lossless transfer finishes only with the whole file, and a server     *)
(* that stops because it was asked to does so after the client has         *)
(* finished.  Either side may give the transfer up; the other is not told. *)
(***************************************************************************)
CONSTANT Block           \* the blocks of the file

VARIABLES lossless,      \* the client wants every block
          arrived,       \* the blocks the client has
          client,        \* "receiving", then "done" or "aborted"
          server         \* "sending", then "stopped" or "timed_out"

copyVars == <<lossless, arrived, client, server>>

Init == /\ lossless \in BOOLEAN
        /\ arrived = {} /\ client = "receiving" /\ server = "sending"

Arrive(b) ==
  /\ client = "receiving"
  /\ arrived' = arrived \cup {b}
  /\ UNCHANGED <<lossless, client, server>>

\* The block that completes the file may be the one that ends the transfer.
Finish ==
  /\ client = "receiving"
  /\ \E b \in Block : arrived' \in {arrived, arrived \cup {b}}
  /\ lossless => arrived' = Block
  /\ client' = "done"
  /\ UNCHANGED <<lossless, server>>

\* The client gives up.
Abort ==
  /\ client = "receiving"
  /\ client' = "aborted"
  /\ UNCHANGED <<lossless, arrived, server>>

\* The server has been told that the client has finished.
Stop ==
  /\ client = "done" /\ server = "sending"
  /\ server' = "stopped"
  /\ UNCHANGED <<lossless, arrived, client>>

\* The server has not heard of the client for too long.
GiveUp ==
  /\ server = "sending"
  /\ server' = "timed_out"
  /\ UNCHANGED <<lossless, arrived, client>>

Next == Finish \/ Abort \/ Stop \/ GiveUp \/ \E b \in Block : Arrive(b)

\* What never happens: a block lost again, an end too early, a step after it.
SafeSpec == Init /\ [][Next]_copyVars

\* While the server sends, blocks arrive until the client has what it wants and
\* has told the server, or one of them gives up.
Spec == SafeSpec /\ WF_copyVars(server = "sending" /\ Next)
=============================================================================
