----------------------------- MODULE ByteQueue -----------------------------
(***************************************************************************)
(* What circbuffer.c promises to common-channel.c: a bounded first-in      *)
(* first-out queue of bytes.                                               *)
(***************************************************************************)
EXTENDS Integers, Sequences

CONSTANTS
    Size,   \* the most bytes it may hold
    Byte    \* their values

VARIABLES
    queue,  \* the bytes put in and not yet taken out
    out     \* the bytes the last Get took out

Init == queue = <<>> /\ out = <<>>

Put ==
    \E n \in 1 .. Size - Len(queue) : \E bytes \in [1 .. n -> Byte] :
       queue' = queue \o bytes /\ out' = <<>>

Get ==
    \E n \in 1 .. Len(queue) :
       out' = SubSeq(queue, 1, n) /\ queue' = SubSeq(queue, n + 1, Len(queue))

Next == Put \/ Get

Spec == Init /\ [][Next]_<<queue, out>>

=============================================================================
