------------------------- MODULE ChannelProperties -------------------------
(* What one channel between two dropbear processes promises. *)
EXTENDS Channel

\* Every variable holds values of its kind.
TypeOK ==
    /\ ch \in [End -> Channels \cup {NoChannel}]
    /\ net \in [End -> Seq(Message)]
    /\ pc \in [End -> {"select", "packet", "io"}]
    /\ sel \in [End -> SUBSET {"r", "e", "w", "x"}]
    /\ sigp \in BOOLEAN
    /\ fatal \in [End -> {"no", "assert", "unknown channel", "data after eof",
                          "oversized packet", "unexpected reply"}]
    /\ src \in [End -> Sources]
    /\ child \in {"none", "running", "exited"}
    /\ broken \in [End -> SUBSET {"w", "x"}]
    /\ dropped \in [End -> Nat]
    /\ delivered \in [End -> Nat]
    /\ status \in {"unopened", "waiting", "received"}

\* Two dropbear ends never make each other exit: no packet comes for a removed
\* channel, no data after EOF, none that overflows the buffer it goes to, no
\* reply that was not asked for, and no dropbear_assert() of the channel code
\* fails, however the two loops, SIGCHLD and the programs interleave.
NoFatalExit == Running

Live(e) == ch[e] # NoChannel

\* An end accounts for its receive window to the byte: what it still offers,
\* what waits in writebuf and extrabuf, and what it has written out but not
\* given back (recvdonelen) fill the buffer.  Every assertion of
\* writechannel() on the window follows from it.
WindowAccounted ==
    \A e \in End :
      Live(e) /\ ~ch[e].initconn =>
        ch[e].recvwindow + ch[e].wbuf + ch[e].xbuf + ch[e].recvdonelen
          = RecvWindow[e]

\* The bytes that packets of some types carry, one by one, and how many
Carried(q, types) ==
    UNION {{i} \X (1 .. q[i].n) : i \in {j \in DOMAIN q : q[j].t \in types}}
Bytes(q, types) == Cardinality(Carried(q, types))

Established == \A e \in End :
    Live(e) /\ ~ch[e].await_open /\ ~ch[e].initconn

\* Window credit is neither made nor lost: what an end may still send, what is
\* under way or buffered, and what the peer has written out but not yet given
\* back (recvdonelen) add up to the peer's receive window.  Bytes dropped after
\* a failed write are the one leak of common_recv_msg_channel_data().
CreditConserved ==
    \A e \in End :
      LET p == Peer(e)
      IN  Established =>
            ch[e].transwindow + Bytes(net[p], {"data", "ext"})
              + ch[p].wbuf + ch[p].xbuf + ch[p].recvdonelen
              + Bytes(net[e], {"adjust"}) + dropped[p] = RecvWindow[p]

\* A sender is not starved: with nothing under way or buffered the window it
\* holds is not empty, unless its bytes were dropped (RECV_WINDOWEXTEND).
SenderNotStarved ==
    \A e \in End :
      LET p == Peer(e)
      IN  /\ Established /\ dropped[p] = 0
          /\ Bytes(net[p], {"data", "ext"}) + Bytes(net[e], {"adjust"}) = 0
          /\ ch[p].wbuf + ch[p].xbuf = 0
          => ch[e].transwindow > 0

\* An end says nothing on a channel after its CLOSE, but that the user's window
\* has a new size, and no data after its EOF, and a receiver that has seen them
\* has nothing of the kind left to read.
NothingAfterClose ==
    \A e \in End :
      LET q == net[e]
      IN  /\ \A i, j \in DOMAIN q : i < j =>
               /\ q[i].t = "close" => q[j].t = "winch"
               /\ q[i].t = "eof" => q[j].t \notin {"data", "ext"}
          /\ ch[e] # NoChannel /\ ch[e].recv_close =>
               \A i \in DOMAIN q : q[i].t = "winch"
          /\ ch[e] # NoChannel /\ ch[e].recv_eof =>
               \A i \in DOMAIN q : q[i].t \notin {"data", "ext"}

\* A server's CLOSE of a session comes after the exit status of its process:
\* sesscheckclose() holds it back until SIGCHLD has recorded the exit.
StatusBeforeClose ==
    HasCheckClose("A") =>
      \A j \in DOMAIN net["I"] :
        net["I"][j].t = "close" =>
          \/ \E i \in 1 .. j - 1 : net["I"][i].t = "exit"
          \/ status = "received"
          \/ Live("I") /\ ch["I"].sent_close

ClosesFd(e, f) ==
    /\ Live(e) /\ ch[e][f] >= 0
    /\ ~(ch'[e] # NoChannel /\ ch'[e][f] = ch[e][f])
Reading(e, type) == pc[e] = "packet" /\ pc'[e] = "io" /\ Head(net[e]).t = type

\* The ends that do not read and write through one descriptor, as those of an
\* agent's socket and a server's pty do: it can only be closed whole.
OwnEnd == {e \in End : Type(e) \notin {"sock", "pty"}}

\* Output of a local program is not thrown away: an end gives up readfd (or a
\* server's errfd) only when the pipe behind it is empty, or when the peer has
\* closed the channel.  This is what "flushing" in check_close() is for.
Flushed(e) ==
    Live(e) /\ ~ch[e].await_open /\ ~ch[e].recv_close /\ ~Reading(e, "close") =>
      /\ ClosesFd(e, "readfd") => src'[e].buf = 0
      /\ ClosesFd(e, "errfd") /\ ErrIsRead(ch[e]) => src'[e].ebuf = 0
OutputFlushed == [][\A e \in OwnEnd : Flushed(e)]_vars

\* Input from the peer is not thrown away: a descriptor written to is given up
\* with bytes still buffered for it only if its reader is gone, or the child of
\* a session has exited.
Drained(e) ==
    Live(e) =>
      /\ ClosesFd(e, "writefd") =>
           \/ delivered'[e] - delivered[e] >= ch[e].wbuf
           \/ "w" \in broken[e]
           \/ HasCheckClose(e) /\ child' = "exited"
      /\ ClosesFd(e, "errfd") /\ ErrIsWrite(ch[e]) =>
           \/ delivered'[e] - delivered[e] >= ch[e].xbuf
           \/ "x" \in broken[e]
InputDrained == [][\A e \in OwnEnd : Drained(e)]_vars

\* EOF closes one direction: the handler of the peer's EOF leaves readfd open
\* while the local program may still write to it.
Halved(e) ==
    Reading(e, "eof") /\ ClosesFd(e, "readfd") =>
       ~src[e].open \/ ch[e].flushing \/ (Live(e)' /\ ch'[e].flushing)
HalfClose == [][\A e \in OwnEnd : Halved(e)]_vars

\* What check_close() waits for is never passed over, though channelio() calls
\* it only after an event on a descriptor or a SIGCHLD.  Once the exit of a
\* session's child has been noticed its input is closed and its output being
\* flushed; whoever has nothing more to send, and nothing to write or nowhere
\* to write it, has said CLOSE; and a channel that has read the peer's CLOSE is
\* there only for what is still to be written.  (The session of a server may be
\* forgotten then: see README, section 4.)
Noticed(e) == HasCheckClose(e) => child = "exited" /\ ~sigp
Checked(e, c) ==
    /\ NothingMoreToSend(c) /\ c.writefd = FD_CLOSED /\ ~WritePending(c)
       => c.sent_close
    /\ IF HasCheckClose(e)
       THEN c.writefd = FD_CLOSED /\ (c.flushing \/ c.close_handler_done)
       ELSE c.recv_close => WritePending(c)
NothingOverlooked ==
    \A e \in End : Live(e) /\ Noticed(e) => Checked(e, ch[e])

---------------------------------------------------------------------------
(* Progress.  The processes run: while either loop has a packet to read or a *)
(* ready descriptor, something is done about it.  That is all that is        *)
(* assumed, less than fairness to each end, and no program is made to write, *)
(* to read, to close or to exit.  A step of Handle(e) or IO(e) is known by   *)
(* its effect on pc, and one of them is enabled wherever pc calls for it, so *)
(* LoopStep says the same as their disjunction (and TLC evaluates it fast).  *)
LoopStep ==
    \E e \in End :
      \/ SelectAll(e)
      \/ Running /\ pc[e] = "packet" /\ pc' = [pc EXCEPT ![e] = "io"]
      \/ Running /\ pc[e] = "io" /\ pc' = [pc EXCEPT ![e] = "select"]
FairSpec == Spec /\ WF_pc(LoopStep)

\* Once the shell of a session has exited and its output has reached end of
\* file both ends exchange CLOSE and the client lets the channel go, even if
\* the user's terminal stays open.
SessionEnds ==
    (child = "exited" /\ ~src["A"].open /\ ~src["A"].eopen) ~>
        /\ ~Live("I")
        /\ Live("A") => ch["A"].sent_close /\ ch["A"].recv_close

\* A channel does not keep its slot once CLOSE has been said, by either end.
\* One that has read the peer's CLOSE is removed when what it still buffers for
\* the local program has been written, or can no longer be; one that has sent
\* CLOSE itself is removed when the peer, which may have bytes to write first,
\* has answered.  (For a server's session see README, section 4.)
ClosedIsRemoved ==
    \A e \in End :
        (Live(e) /\ (ch[e].sent_close \/ ch[e].recv_close)) ~> ~Live(e)

\* What a program wrote before it closed its output, and that it closed it,
\* reach the program at the other end, whatever the other direction does, as
\* long as that program reads.
EofDelivered ==
    \A e \in End :
      LET p == Peer(e)
      IN  (Established /\ ~src[e].open) ~>
            (Live(p) /\ "w" \notin broken[p] =>
                                    ch[p].recv_eof /\ ch[p].writefd = FD_CLOSED
                                       /\ ch[p].wbuf = 0)

=============================================================================
