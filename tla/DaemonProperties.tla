-------------------------- MODULE DaemonProperties --------------------------
(* What the daemon promises. *)
EXTENDS Daemon

\* Type invariant.
TypeOK ==
    /\ status \in [Conn -> Status]
    /\ from \in [Conn -> Addr \cup {NoAddr}]
    /\ backlog \in [Listener -> Seq(Conn)]
    /\ childpipes \in [Slot -> Conn \cup {NoPipe}]
    /\ preauth_addrs \in [Slot -> Addr \cup {NoAddr}]
    /\ pc \in {"enter", "select", "close", "accept", "fork", "record", "exited"}
    /\ fds \in [listeners : SUBSET Listener, slots : SUBSET Slot]
    /\ i \in 1..Listeners + 1
    /\ accepted \in [conn : Conn \cup {NoPipe}, idx : Slot]
    /\ lost \subseteq Conn
    /\ exitflag \in BOOLEAN /\ interrupted \in BOOLEAN

\* The clients that are being served and have not authenticated.
PreAuth == {c \in Conn : status[c] = "pre"}

(* UnauthBounded: never more than MAX_UNAUTH_CLIENTS of them, nor more than *)
(* MAX_UNAUTH_PER_IP from one address, at any point of the parent's loop    *)
(* and whatever children do meanwhile (options.h, svr-main.c).              *)
UnauthBounded ==
    /\ Cardinality(PreAuth) <= MAX_UNAUTH_CLIENTS
    /\ \A a \in Addr :
         Cardinality({c \in PreAuth : from[c] = a}) <= MAX_UNAUTH_PER_IP

(* SlotsExact: every unauthenticated child the parent has recorded has one  *)
(* slot, with its address, and a slot never stands for a connection that    *)
(* got no child: no entry is lost, overwritten or shared, also when a child *)
(* is done before the parent records it.                                    *)
SlotsExact ==
    /\ \A c \in PreAuth :
         \/ pc = "record" /\ accepted.conn = c
         \/ \E s \in Slot : childpipes[s] = c
    /\ \A s, t \in Used : childpipes[s] = childpipes[t] => s = t
    /\ \A s \in Used : /\ status[childpipes[s]] \in {"pre", "authed", "gone"}
                       /\ preauth_addrs[s] = from[childpipes[s]]

(* ReadyStaysReady: what the parent does to a slot or a listening socket on *)
(* the word of an earlier select() is still right when it does it: the pipe *)
(* it closes has reached its end, and accept() will not block.              *)
ReadyStaysReady ==
    /\ pc = "close" => fds.slots \subseteq Readable.slots
    /\ pc = "accept" /\ i \in fds.listeners => backlog[i] # <<>>
    /\ pc \in {"fork", "record"} => accepted.idx \notin Used

(* RefusedOnlyAtLimit: a client is turned away only if the clients that had *)
(* not authenticated when select() returned, and those accepted since,      *)
(* reach a limit: no slot is kept for a child that is done.                 *)
RefusedOnlyAtLimit ==
    [][\A c \in Conn :
         status'[c] = "refused" /\ status[c] # "refused"
         => \/ Cardinality(unauth) >= MAX_UNAUTH_CLIENTS
            \/ Cardinality({d \in unauth : from[d] = from[c]})
                    >= MAX_UNAUTH_PER_IP]_vars

(* SlotFreed: the slot of a child that has authenticated its client or is   *)
(* gone is free again in the end, or the daemon terminates: slots do not    *)
(* run out ("if we fail, we might end up leaking connection slots, and      *)
(* disallow new logins", svr-auth.c).                                       *)
Stale(s) == s \in Used /\ status[childpipes[s]] # "pre"
SlotFreed ==
    \A s \in Slot : Stale(s) ~> (~Stale(s) \/ pc = "exited")

(* DescriptorLeft: the pipes that failed forks leave open never take the    *)
(* descriptor that accept() needs, as seedrandom() or pipe() then fails     *)
(* before another pipe is made (svr-main.c, main_noinetd()).                *)
DescriptorLeft == Descriptors > 0 => ~NoFile(1)

(* Answered: every client that connects gets a child or is turned away,     *)
(* also while all slots are in use and nobody authenticates, unless the     *)
(* daemon terminates or accept() fails again and again ("accept failed",    *)
(* svr-main.c).  What the daemon itself leaks when fork() fails is no       *)
(* reason for that: pipe() or seedrandom() runs out of descriptors before   *)
(* accept() does, and the client is turned away or the daemon terminates.   *)
Waiting(c) == status[c] \in {"backlog", "held"}
FailsOtherwise == AcceptFails /\ ~NoFile(1)
Answered ==
    \A c \in Conn :
        \/ []<><<FailsOtherwise>>_vars
        \/ Waiting(c) ~> (~Waiting(c) \/ pc = "exited")

=============================================================================
