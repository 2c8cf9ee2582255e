----------------------------- MODULE MCFeedback -----------------------------
(* Instances of ServerFeedback for TLC. *)
EXTENDS ServerFeedback

Lists == { <<"retransmit", "stop">>, <<"restart", "error_rate", "stop">>, <<"restart">>, <<>> }
=============================================================================
