---------------------------- MODULE Conversations ----------------------------
(***************************************************************************)
(* What a table of channels promises: every conversation goes on as if it  *)
(* had a connection of its own.  It is asked for at one end and taken or   *)
(* refused at the other; what an end sends arrives in this conversation    *)
(* and in no other; and an end only forgets it when both have closed and   *)
(* everything sent to it has arrived.  There are no slots and no numbers.  *)
(***************************************************************************)
EXTENDS Naturals

CONSTANT Conv

VARIABLES
    state,  \* of each end of each conversation
    sent,   \* how much an end has sent in it
    rcvd    \* how much has arrived there

vars == <<state, sent, rcvd>>

End == {"C", "S"}
Peer(e) == IF e = "C" THEN "S" ELSE "C"

Become(e, c, s) ==
    /\ state' = [state EXCEPT ![e][c] = s]
    /\ UNCHANGED <<sent, rcvd>>

Init ==
    /\ state = [e \in End |-> [c \in Conv |-> "none"]]
    /\ sent = [e \in End |-> [c \in Conv |-> 0]]
    /\ rcvd = [e \in End |-> [c \in Conv |-> 0]]

\* The conversation is asked for, or given up for want of room.
Ask(e, c) ==
    /\ state[e][c] = "none" /\ state[Peer(e)][c] = "none"
    /\ \E s \in {"asking", "down"} : Become(e, c, s)

\* The other end takes it, now or when it has connected, or refuses.
Take(e, c) ==
    /\ state[e][c] = "none" /\ state[Peer(e)][c] = "asking"
    /\ \E s \in {"up", "connecting", "down"} : Become(e, c, s)
Connect(e, c) ==
    /\ state[e][c] = "connecting"
    /\ \E s \in {"up", "down"} : Become(e, c, s)

\* The end that asked learns what became of it.
Learn(e, c) ==
    /\ state[e][c] = "asking"
    /\ \/ state[Peer(e)][c] \in {"up", "closing"} /\ Become(e, c, "up")
       \/ state[Peer(e)][c] = "down" /\ Become(e, c, "down")

Send(e, c) ==
    /\ state[e][c] = "up"
    /\ sent' = [sent EXCEPT ![e][c] = @ + 1]
    /\ UNCHANGED <<state, rcvd>>
Deliver(e, c) ==
    /\ state[e][c] \in {"up", "closing"}
    /\ rcvd[e][c] < sent[Peer(e)][c]
    /\ rcvd' = [rcvd EXCEPT ![e][c] = @ + 1]
    /\ UNCHANGED <<state, sent>>

\* An end closes; it forgets the conversation when the other has closed too.
Close(e, c) == state[e][c] = "up" /\ Become(e, c, "closing")
Forget(e, c) ==
    /\ state[e][c] \in {"up", "closing"}
    /\ state[Peer(e)][c] \in {"closing", "down"}
    /\ rcvd[e][c] = sent[Peer(e)][c]
    /\ Become(e, c, "down")

Next ==
    \E e \in End, c \in Conv :
       \/ Ask(e, c) \/ Take(e, c) \/ Connect(e, c) \/ Learn(e, c)
       \/ Send(e, c) \/ Deliver(e, c) \/ Close(e, c) \/ Forget(e, c)

Spec == Init /\ [][Next]_vars

=============================================================================
