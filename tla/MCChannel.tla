----------------------------- MODULE MCChannel -----------------------------
(* Small instances of one channel, for TLC. *)
EXTENDS ChannelProperties

Both(i, a) == [e \in End |-> IF e = "I" THEN i ELSE a]
Window3 == Both(3, 3)
Window12 == Both(1, 2)
Window2 == Both(2, 2)
Window6 == Both(6, 6)
Out12 == Both(1, 2)
Out06 == Both(0, 6)
Err1  == Both(0, 1)
Err0  == Both(0, 0)

=============================================================================
