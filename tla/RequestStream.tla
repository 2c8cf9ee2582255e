--------------------------- MODULE RequestStream ---------------------------
(***************************************************************************)
(* What the send loop of a Tsunami server owes to the requests of its      *)
(* client: they are taken one after the other, each is obeyed or lost as a *)
(* whole, and nothing but the client's own stop request stops the loop     *)
(* regularly.  After that the next transfer starts with an empty stream.   *)
(***************************************************************************)
EXTENDS Naturals, Sequences

VARIABLES requests,  \* the requests of a transfer, in the order of the client
          lossy,     \* some requests may be lost
          fate,      \* what became of the requests taken so far
          loop       \* "sending", "stopped" by the client or "left" otherwise

streamVars == <<requests, lossy, fate, loop>>

Init == fate = <<>> /\ loop = "sending"

Obey ==
  /\ loop = "sending" /\ Len(fate) < Len(requests)
  /\ fate' = Append(fate, "obeyed")
  /\ loop' = IF requests[Len(fate')] = "stop" THEN "stopped" ELSE "sending"
  /\ UNCHANGED <<requests, lossy>>

Lose ==
  /\ loop = "sending" /\ Len(fate) < Len(requests) /\ lossy
  /\ fate' = Append(fate, "lost")
  /\ UNCHANGED <<requests, lossy, loop>>

\* The server gives the client up.
Leave ==
  /\ loop = "sending" /\ loop' = "left"
  /\ UNCHANGED <<requests, lossy, fate>>

NextTransfer ==
  /\ loop = "stopped"
  /\ loop' = "sending" /\ fate' = <<>>
  /\ UNCHANGED <<requests, lossy>>

Next == Obey \/ Lose \/ Leave \/ NextTransfer

Spec == Init /\ [][Next]_streamVars
=============================================================================
