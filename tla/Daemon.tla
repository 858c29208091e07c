------------------------------- MODULE Daemon -------------------------------
(***************************************************************************)
(* The daemon of dropbear: main_noinetd() (svr-main.c) accepts connections *)
(* and forks a server for each.  For every child that has not yet          *)
(* authenticated its client the parent keeps the reading end of a pipe     *)
(* whose writing end the child closes when it has                          *)
(* (send_msg_userauth_success(), svr-auth.c) or when it exits; a slot is   *)
(* in use while its pipe is open.  Children and signals may come between   *)
(* any two steps of the parent.                                            *)
(*                                                                         *)
(* A connection, the child that serves it and that child's pipe have the   *)
(* same name.                                                              *)
(***************************************************************************)
EXTENDS Naturals, Sequences, FiniteSets

CONSTANTS
    Conn,                \* connections, numbered in the order they are made
    Addr,                \* addresses they come from
    Listeners,           \* listensockcount
    MAX_UNAUTH_CLIENTS,
    MAX_UNAUTH_PER_IP,
    Descriptors,         \* how many the parent may have open, beside its
                         \* listening sockets and the few it starts with
    Failing,             \* which of accept(), seedrandom(), pipe() and fork()
                         \* may fail while there are descriptors left
    NoPipe,              \* -1 in childpipes
    NoAddr               \* NULL in preauth_addrs

ASSUME DaemonAssumption ==
    /\ Conn \subseteq Nat
    /\ Listeners \in Nat \ {0}
    /\ MAX_UNAUTH_CLIENTS \in Nat \ {0} /\ MAX_UNAUTH_PER_IP \in Nat \ {0}
    /\ Descriptors \in Nat
    /\ Failing \subseteq {"accept", "seedrandom", "pipe", "fork"}
    /\ NoPipe \notin Conn /\ NoAddr \notin Addr

Slot     == 0..MAX_UNAUTH_CLIENTS - 1
Listener == 1..Listeners

VARIABLES
    status,         \* of each connection
    from,           \* the address of each connection
    backlog,        \* of each listening socket
    childpipes,     \* the child whose pipe each slot holds
    preauth_addrs,
    pc,             \* where the parent is in its loop
    fds,            \* what select() found readable
    i,              \* the listening socket it is at
    accepted,       \* childsock, conn_idx and remote_host
    lost,           \* pipes that no slot holds: nobody will close their ends
    exitflag,
    interrupted,    \* a signal was caught while select() waited
    unauth          \* history: the children unauthenticated when select()
                    \* last returned, and those forked since

parent == <<childpipes, preauth_addrs, pc, fds, i, accepted, lost>>
vars   == <<status, from, backlog, parent, exitflag, interrupted, unauth>>

\* "pre": forked and not authenticated; "authed"; "gone": exited.
Status == {"none", "backlog", "held", "refused", "failed", "pre", "authed",
           "gone"}

Used == {s \in Slot : childpipes[s] # NoPipe}
UsedBy(a) == {s \in Used : preauth_addrs[s] = a}

\* A pipe reads end-of-file when its child has closed it.  While the parent
\* has not closed its own writing end, just after the fork, it does not.
\* Mutants: the pipe is only closed when the child exits; the daemon does not
\* look at its sockets while all slots are in use.
ReadableGone ==
    [listeners |-> {l \in Listener : backlog[l] # <<>>},
     slots     |-> {s \in Used : status[childpipes[s]] = "gone"}]
ReadableBusy ==
    [listeners |-> {l \in Listener : backlog[l] # <<>> /\ Used # Slot},
     slots     |-> {s \in Used : status[childpipes[s]] # "pre"}]
Readable ==
    [listeners |-> {l \in Listener : backlog[l] # <<>>},
     slots     |-> {s \in Used : status[childpipes[s]] # "pre"}]
Nothing == [listeners |-> {}, slots |-> {}]

---------------------------------------------------------------------------
(* Clients, children and signals *)

Connect(c, a, l) ==
    /\ status[c] = "none" /\ \A d \in Conn : d < c => status[d] # "none"
    /\ status' = [status EXCEPT ![c] = "backlog"]
    /\ from' = [from EXCEPT ![c] = a]
    /\ backlog' = [backlog EXCEPT ![l] = Append(@, c)]
    /\ UNCHANGED <<parent, exitflag, interrupted, unauth>>

\* send_msg_userauth_success()
Authenticate(c) ==
    /\ status[c] = "pre"
    /\ status' = [status EXCEPT ![c] = "authed"]
    /\ UNCHANGED <<from, backlog, parent, exitflag, interrupted, unauth>>

\* A child exits, for whatever reason; sigchld_handler() reaps it.
ChildExit(c) ==
    /\ status[c] \in {"pre", "authed"}
    /\ status' = [status EXCEPT ![c] = "gone"]
    /\ interrupted' = (interrupted \/ pc = "select")
    /\ UNCHANGED <<from, backlog, parent, exitflag, unauth>>

\* sigintterm_handler()
Terminate ==
    /\ ~exitflag /\ pc # "exited"
    /\ exitflag' = TRUE
    /\ interrupted' = (interrupted \/ pc = "select")
    /\ UNCHANGED <<status, from, backlog, parent, unauth>>

---------------------------------------------------------------------------
(* main_noinetd() *)

EnterSelect ==
    /\ pc = "enter"
    /\ pc' = "select"
    /\ UNCHANGED <<status, from, backlog, childpipes, preauth_addrs, fds, i,
                   accepted, lost, exitflag, interrupted, unauth>>

\* select() has been interrupted: EINTR.
Interrupted ==
    /\ pc = "select" /\ interrupted
    /\ pc' = IF exitflag THEN "exited" ELSE "enter"
    /\ interrupted' = FALSE
    /\ UNCHANGED <<status, from, backlog, childpipes, preauth_addrs, fds, i,
                   accepted, lost, exitflag, unauth>>

\* select() returns what is readable.
SelectReturns ==
    /\ pc = "select" /\ Readable # Nothing
    /\ pc' = IF exitflag THEN "exited" ELSE "close"
    /\ fds' = IF exitflag THEN fds ELSE Readable
    /\ unauth' = {c \in Conn : status[c] = "pre"}
    /\ interrupted' = FALSE
    /\ UNCHANGED <<status, from, backlog, childpipes, preauth_addrs, i,
                   accepted, lost, exitflag>>

\* Pipes that are closed at the other end free their slots.
CloseFds ==
    /\ pc = "close"
    /\ childpipes' = [s \in Slot |-> IF s \in fds.slots THEN NoPipe
                                     ELSE childpipes[s]]
    /\ preauth_addrs' = [s \in Slot |-> IF s \in fds.slots THEN NoAddr
                                        ELSE preauth_addrs[s]]
    /\ pc' = "accept" /\ i' = 1
    /\ UNCHANGED <<status, from, backlog, fds, accepted, lost, exitflag,
                   interrupted, unauth>>

\* The next listening socket, or the end of the loop's turn.
NextListener ==
    /\ i' = i + 1
    /\ pc' = IF i = Listeners THEN "enter" ELSE "accept"

SkipListener ==
    /\ pc = "accept" /\ i \notin fds.listeners
    /\ NextListener
    /\ UNCHANGED <<status, from, backlog, childpipes, preauth_addrs, fds,
                   accepted, lost, exitflag, interrupted, unauth>>

\* The parent has the reading end of a pipe open for every slot in use, and
\* both ends of those that are lost; n more are too many: EMFILE.
LostEnds == lost \X {"reading", "writing"}
NoFile(n) == Cardinality(Used) + Cardinality(LostEnds) + n > Descriptors

\* accept() fails.  The connection stays where it is (EMFILE, ENFILE), and
\* select() returns at once the next time, or the client has given it up
\* (ECONNABORTED).
AcceptFails ==
    /\ pc = "accept" /\ i \in fds.listeners
    /\ \/ /\ "accept" \in Failing \/ NoFile(1)
          /\ UNCHANGED <<status, backlog>>
       \/ /\ "accept" \in Failing
          /\ status' = [status EXCEPT ![Head(backlog[i])] = "failed"]
          /\ backlog' = [backlog EXCEPT ![i] = Tail(@)]
    /\ NextListener
    /\ UNCHANGED <<from, childpipes, preauth_addrs, fds, accepted, lost,
                   exitflag, interrupted, unauth>>

\* The limits, recomputed for every connection that is accepted.
\* Mutant: the address is not looked at.
OverLimitTotal(a) == Cardinality(Used) >= MAX_UNAUTH_CLIENTS
OverLimit(a) ==
    \/ Cardinality(Used) >= MAX_UNAUTH_CLIENTS
    \/ Cardinality(UsedBy(a)) >= MAX_UNAUTH_PER_IP

\* conn_idx, the last free slot.
\* Mutants: the last slot, free or not; what j is after the loop.
LastFreeAny == {MAX_UNAUTH_CLIENTS - 1}
LastFreePast == {MAX_UNAUTH_CLIENTS}
LastFree == {s \in Slot \ Used : \A t \in Slot \ Used : t <= s}

\* accept(), and the connection is refused, or a pipe for it made.
\* seedrandom() comes first and ends the daemon when it cannot open its device;
\* pipe() needs two descriptors.  childsock has one all the while.
Accept ==
    /\ pc = "accept" /\ i \in fds.listeners /\ ~NoFile(1)
    /\ LET c == Head(backlog[i])
       IN  /\ backlog' = [backlog EXCEPT ![i] = Tail(@)]
           /\ \/ /\ OverLimit(from[c])
                 /\ status' = [status EXCEPT ![c] = "refused"]
                 /\ NextListener
                 /\ UNCHANGED accepted
              \/ /\ ~OverLimit(from[c])
                 /\ "seedrandom" \in Failing \/ NoFile(2)
                 /\ status' = [status EXCEPT ![c] = "failed"]
                 /\ pc' = "exited"
                 /\ UNCHANGED <<accepted, i>>
              \/ /\ ~OverLimit(from[c]) /\ ~NoFile(2)
                 /\ "pipe" \in Failing \/ NoFile(3)
                 /\ status' = [status EXCEPT ![c] = "failed"]
                 /\ NextListener
                 /\ UNCHANGED accepted
              \/ /\ ~OverLimit(from[c]) /\ ~NoFile(3)
                 /\ status' = [status EXCEPT ![c] = "held"]
                 /\ \E s \in LastFree : accepted' = [conn |-> c, idx |-> s]
                 /\ pc' = "fork"
                 /\ UNCHANGED i
    /\ UNCHANGED <<from, childpipes, preauth_addrs, fds, lost, exitflag,
                   interrupted, unauth>>

Fork ==
    /\ pc = "fork"
    /\ status' = [status EXCEPT ![accepted.conn] = "pre"]
    /\ unauth' = unauth \cup {accepted.conn}
    /\ pc' = "record"
    /\ UNCHANGED <<from, backlog, childpipes, preauth_addrs, fds, i, accepted,
                   lost, exitflag, interrupted>>

\* fork() fails: nothing closes the pipe.
ForkFails ==
    /\ pc = "fork" /\ "fork" \in Failing
    /\ status' = [status EXCEPT ![accepted.conn] = "failed"]
    /\ lost' = lost \cup {accepted.conn}
    /\ NextListener
    /\ UNCHANGED <<from, backlog, childpipes, preauth_addrs, fds, accepted,
                   exitflag, interrupted, unauth>>

\* The parent keeps the pipe and the address in the slot it has chosen.
Record ==
    /\ pc = "record"
    /\ childpipes' = [childpipes EXCEPT ![accepted.idx] = accepted.conn]
    /\ preauth_addrs' = [preauth_addrs EXCEPT
                           ![accepted.idx] = from[accepted.conn]]
    /\ NextListener
    /\ UNCHANGED <<status, from, backlog, fds, accepted, lost, exitflag,
                   interrupted, unauth>>

---------------------------------------------------------------------------

Init ==
    /\ status = [c \in Conn |-> "none"]
    /\ from \in [Conn -> {NoAddr}]
    /\ backlog = [l \in Listener |-> <<>>]
    /\ childpipes = [s \in Slot |-> NoPipe]
    /\ preauth_addrs = [s \in Slot |-> NoAddr]
    /\ pc = "enter" /\ fds = Nothing /\ i = 1
    /\ accepted = [conn |-> NoPipe, idx |-> 0]
    /\ lost = {} /\ unauth = {} /\ exitflag = FALSE /\ interrupted = FALSE

ParentStep ==
    \/ EnterSelect \/ Interrupted \/ SelectReturns \/ CloseFds
    \/ SkipListener \/ AcceptFails \/ Accept \/ Fork \/ ForkFails \/ Record

Environment ==
    \/ \E c \in Conn, a \in Addr, l \in Listener : Connect(c, a, l)
    \/ \E c \in Conn : Authenticate(c) \/ ChildExit(c)
    \/ Terminate

Next == ParentStep \/ Environment

Spec == Init /\ [][Next]_vars

\* The kernel runs the parent whenever it is not waiting for nothing.
FairSpec == Spec /\ WF_vars(ParentStep)

=============================================================================
