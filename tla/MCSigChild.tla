----------------------------- MODULE MCSigChild -----------------------------
(* The sessions of a server, the first of them on a pty, for TLC. *)
EXTENDS SigChild

OnePty == {1}

=============================================================================
