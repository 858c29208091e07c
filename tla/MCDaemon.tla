------------------------------ MODULE MCDaemon ------------------------------
(* Small instances of the daemon, for TLC. *)
EXTENDS DaemonProperties

FourConn == 1..4

=============================================================================
