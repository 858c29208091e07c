---------------------------- MODULE MCCircBuffer ----------------------------
(* A buffer of a few bytes, for TLC. *)
EXTENDS CircBuffer

=============================================================================
