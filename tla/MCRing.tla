------------------------------- MODULE MCRing -------------------------------
(* Instances of RingBuffer for TLC. *)
EXTENDS RingBuffer

In(program, lossless, faults) == [program |-> program, lossless |-> lossless, faults |-> faults]

\* Both clients, without faults and with the faults that each mode survives.
BothClients ==
  UNION { { In(p, TRUE, {}), In(p, FALSE, {}), In(p, TRUE, {"disk"}),
            In(p, FALSE, {"recv"}), In(p, FALSE, {"recv", "disk"}) }
          : p \in {"client", "rtclient"} }

\* A lossless transfer of the client to a disk that may fail.
FailingDisk == { In("client", TRUE, {"disk"}) }
=============================================================================
