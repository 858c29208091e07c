----------------------------- MODULE MCSession -----------------------------
(* Small instances of a session, for TLC. *)
EXTENDS SessionProperties

TwoKeys  == <<"k1", "k2">>

NoneEach == [e \in End |-> 0]
OneEach  == [e \in End |-> 1]
TwoEach  == [e \in End |-> 2]

=============================================================================
