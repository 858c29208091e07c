----------------------------- MODULE MCTimeouts -----------------------------
(* Instances of Timeouts, for TLC. *)
EXTENDS TimeoutsProperties

=============================================================================
