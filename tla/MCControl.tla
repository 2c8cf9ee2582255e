------------------------------ MODULE MCControl ------------------------------
(* Instances of ControlSession for TLC. *)
EXTENDS ControlSession

Serving(files, hook, faults) == [files |-> files, hook |-> hook, faults |-> faults]

\* A server with a hook that names up to three files, one that shares one file,
\* and each server when either side may die; and every fault at once.
Sessions ==
  { Serving(3, TRUE, {}), Serving(1, FALSE, {}),
    Serving(3, TRUE, {"client killed", "server killed"}),
    Serving(0, FALSE, {"client killed", "server killed"}),
    Serving(1, FALSE, Fault) }

SharesNothing   == { Serving(0, FALSE, {}) }
ClientDies      == { Serving(1, FALSE, {"client killed"}) }
FeedbackIsLate  == { Serving(1, FALSE, {"heartbeat"}) }
=============================================================================
