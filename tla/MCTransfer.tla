----------------------------- MODULE MCTransfer -----------------------------
(* Instances of Transfer for TLC. *)
EXTENDS Transfer

Mode(lossless, losswindow) == [lossless |-> lossless, losswindow |-> losswindow]

OnlyLossless == { Mode(TRUE, 0) }
EveryMode    == { Mode(TRUE, 0), Mode(FALSE, 0), Mode(FALSE, 2) }
=============================================================================
