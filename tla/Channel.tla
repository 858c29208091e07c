------------------------------ MODULE Channel ------------------------------
(***************************************************************************)
(* One SSH channel between two dropbear processes: common-channel.c run    *)
(* at both ends, with the channel types of svr-chansession.c,              *)
(* cli-chansession.c, the TCP forwarders and the agent forwarder.          *)
(*                                                                         *)
(* "I" sends SSH_MSG_CHANNEL_OPEN, "A" receives it.  Each end runs the     *)
(* loop of session_loop(): select(), at most one packet, then channelio(). *)
(* The transport is a FIFO of decrypted packets.  Bytes are counted, not   *)
(* named; the programs behind the file descriptors (the shell, the         *)
(* forwarded socket, the user's terminal) are the environment.             *)
(*                                                                         *)
(* Each C function is an operator on a "world" w: the channel w.c, the     *)
(* local sources w.src, the packets w.q it has queued, the number w.out of *)
(* bytes it has written to the local program, and w.bad, set when a        *)
(* dropbear_assert() in it would fail.                                     *)
(***************************************************************************)
EXTENDS Integers, Sequences, FiniteSets

CONSTANTS
    TypeI,       \* what the opening end is: "stdpipes", "tcp" or "sock"
    TypeA,       \* what the accepting end is: "pipes", "pty", "tcp", "sock"
    RecvWindow,  \* opts.recv_window at each end
    MaxPacket,   \* the largest data payload a packet may carry
    TransMaxWindow,  \* TRANS_MAX_WINDOW and TRANS_MAX_WIN_INCR
    MaxOut, MaxErr,  \* bytes each end's program may write to each stream
    Faults,      \* which of "connect", "write" and "spawn" may fail, and
                 \* "winch" if the user's window may change its size
    NoChannel    \* a NULL entry of ses.channels

End == {"I", "A"}
Peer(e) == IF e = "I" THEN "A" ELSE "I"
FD_UNINIT == -2
FD_CLOSED == -1
STDIN  == 0
STDOUT == 1
STDERR == 2
SOCKFD == 5
PTYFD  == 6
PIPEIN == 7
PIPEOUT == 8
PIPEERR == 9
Fd == {FD_UNINIT, FD_CLOSED, STDIN, STDOUT, STDERR, SOCKFD, PTYFD,
       PIPEIN, PIPEOUT, PIPEERR}

ASSUME WindowAssumption ==
    /\ RecvWindow \in [End -> Nat \ {0}]
    /\ MaxPacket \in Nat \ {0}
    /\ TransMaxWindow \in Nat
    /\ \A e \in End : RecvWindow[e] <= TransMaxWindow
ASSUME BoundAssumption ==
    /\ MaxOut \in [End -> Nat]
    /\ MaxErr \in [End -> Nat]
ASSUME TypeAssumption ==
    /\ TypeI \in {"stdpipes", "tcp", "sock"}
    /\ TypeA \in {"pipes", "pty", "tcp", "sock"}
    /\ Faults \subseteq {"connect", "write", "spawn", "winch"}

Type(e) == IF e = "I" THEN TypeI ELSE TypeA

\* struct ChanType: sepfds, and which of its handlers are set.  (A definition
\* whose comment begins with "Mutant" is no part of the model: it is a bug the
\* properties are tested against.)
\* Mutant: every type closes its descriptors whole.
SepFdsNever(e) == FALSE
SepFds(e) == Type(e) = "tcp"
HasCheckClose(e) == Type(e) \in {"pipes", "pty"}
HasCloseHandler(e) == Type(e) \in {"pipes", "pty", "stdpipes"}

MinOf(a, b) == IF a <= b THEN a ELSE b
Msg(t, n) == [t |-> t, n |-> n]
MsgType == {"open", "confirm", "failure", "data", "ext", "adjust",
            "eof", "close", "shell", "exit", "winch"}
Message == [t : MsgType, n : Nat]

VARIABLES
    ch,      \* each end's channel, or NoChannel
    net,     \* packets on their way to each end
    pc,      \* where session_loop() is: "select", "packet" or "io"
    sel,     \* descriptors select() reported: "r", "e", "w", "x"
    sigp,    \* ses.channel_signal_pending at A
    fatal,   \* why an end called dropbear_exit(), or "no"
    src,     \* unread bytes in the pipes behind readfd and errfd
    child,   \* A's process: "none", "running", "exited" (status collected)
    broken,  \* descriptors whose reader is gone, so that write() fails
    dropped, \* bytes received and thrown away because of that
    delivered, \* bytes written out to the local program
    status   \* whether I has received the exit status

vars == <<ch, net, pc, sel, sigp, fatal, src, child, broken, dropped, delivered,
          status>>
env  == <<child, broken, status>>

Channels ==
    [await_open : BOOLEAN, initconn : BOOLEAN,
     sent_eof : BOOLEAN, recv_eof : BOOLEAN,
     sent_close : BOOLEAN, recv_close : BOOLEAN,
     close_handler_done : BOOLEAN, flushing : BOOLEAN,
     readfd : Fd, writefd : Fd, errfd : Fd,
     transwindow : Nat, recvwindow : Nat, recvdonelen : Nat,
     wsize : Nat, wbuf : Nat,       \* writebuf: size and bytes used
     extra : BOOLEAN, xbuf : Nat]   \* extrabuf: allocated, and bytes used

ASSUME NoChannelAssumption == NoChannel \notin Channels

Sources == [buf : Nat, left : Nat, open : BOOLEAN,
            ebuf : Nat, eleft : Nat, eopen : BOOLEAN]

\* newchannel()
NewChannel(transwindow) ==
    [await_open |-> FALSE, initconn |-> FALSE,
     sent_eof |-> FALSE, recv_eof |-> FALSE,
     sent_close |-> FALSE, recv_close |-> FALSE,
     close_handler_done |-> FALSE, flushing |-> FALSE,
     readfd |-> FD_UNINIT, writefd |-> FD_UNINIT, errfd |-> FD_CLOSED,
     transwindow |-> transwindow, recvwindow |-> 0, recvdonelen |-> 0,
     wsize |-> 0, wbuf |-> 0, extra |-> FALSE, xbuf |-> 0]

\* chan_initwritebuf(), without its assertion (see InitWriteBufOk)
InitWriteBuf(e, c) ==
    [c EXCEPT !.wsize = RecvWindow[e], !.recvwindow = RecvWindow[e]]
InitWriteBufOk(c) == c.wsize = 0 /\ c.recvwindow = 0

World(e) == [c |-> ch[e], src |-> src[e], q |-> <<>>, out |-> 0, bad |-> FALSE]

---------------------------------------------------------------------------
(* Descriptors and the packets that close a channel *)

ErrIsWrite(c) == c.extra
ErrIsRead(c)  == ~c.extra

\* close_chan_fd(channel, fd, how): close() for one direction closes the
\* descriptor for both, shutdown() (sepfds) only that direction.
CloseChanFd(e, c, fd, how) ==
    LET closeout == ~SepFds(e) \/ how = "RD"
        closein  == ~SepFds(e) \/ how # "RD"
        closeerr == IF ErrIsRead(c) THEN closeout ELSE closein
    IN  [c EXCEPT
           !.readfd  = IF closeout /\ @ = fd THEN FD_CLOSED ELSE @,
           !.errfd   = IF closeerr /\ @ = fd THEN FD_CLOSED ELSE @,
           !.writefd = IF closein  /\ @ = fd THEN FD_CLOSED ELSE @]

\* Mutant: writebuf is forgotten.
WritePendingOnlyErr(c) == c.errfd >= 0 /\ c.extra /\ c.xbuf > 0
\* Mutant: off by one.
WritePendingOffByOne(c) == c.writefd >= 0 /\ c.wbuf > 1
\* write_pending()
WritePending(c) ==
    \/ c.writefd >= 0 /\ c.wbuf > 0
    \/ c.errfd >= 0 /\ c.extra /\ c.xbuf > 0

\* send_msg_channel_eof()
SendEof(w) ==
    [w EXCEPT !.q = Append(@, Msg("eof", 0)), !.c.sent_eof = TRUE]

\* type->closehandler: closechansess() of a server's session sends the exit
\* status of its child, cli_closechansess() only restores the terminal.
RunCloseHandler(e, w, exited) ==
    IF w.c.close_handler_done \/ ~HasCloseHandler(e) THEN w
    ELSE [w EXCEPT !.q = IF HasCheckClose(e) /\ exited
                         THEN Append(@, Msg("exit", 0)) ELSE @,
                   !.c.close_handler_done = TRUE]

\* Mutant: sent_close is not set.
ClosedNoClose(c) == [c EXCEPT !.sent_eof = TRUE]
Closed(c) == [c EXCEPT !.sent_eof = TRUE, !.sent_close = TRUE]

\* send_msg_channel_close()
SendClose(e, w, exited) ==
    LET w1 == RunCloseHandler(e, w, exited)
        c1 == Closed(w1.c)
        c2 == CloseChanFd(e, c1, c1.readfd, "RD")
        c3 == CloseChanFd(e, c2, c2.errfd, "RDWR")
        c4 == CloseChanFd(e, c3, c3.writefd, "WR")
    IN  [w1 EXCEPT !.q = Append(@, Msg("close", 0)), !.c = c4]

\* remove_channel(): its close handler has run when a CLOSE was sent
RemoveChannel(e, w, exited) ==
    [RunCloseHandler(e, w, exited) EXCEPT !.c = NoChannel]

---------------------------------------------------------------------------
(* Data from a local program to the peer *)

\* Mutant: the window is not consulted.
MaxLenNoWindow(c) == MaxPacket
MaxLen(c) == MinOf(c.transwindow, MaxPacket)

\* Mutant: any read while flushing is taken for the last.
DrainedByAny(c, len) == c.flushing
\* While flushing, a read of less than was asked for has emptied the pipe.
DrainedBy(c, len) == c.flushing /\ len < MaxLen(c)

\* send_msg_channel_data(): one non-blocking read() of readfd or errfd.
\* End of file, an error and (while flushing) EAGAIN all close the descriptor.
SendData(e, w, isextended) ==
    LET c      == w.c
        fd     == IF isextended THEN c.errfd ELSE c.readfd
        avail  == IF isextended THEN w.src.ebuf ELSE w.src.buf
        maxlen == MaxLen(c)
        len    == MinOf(avail, maxlen)
        sent   == [c EXCEPT !.transwindow = @ - len]
    IN  IF c.sent_close \/ fd < 0 THEN [w EXCEPT !.bad = TRUE]
        ELSE IF maxlen = 0 THEN w
        ELSE IF len = 0 THEN [w EXCEPT !.c = CloseChanFd(e, c, fd, "RD")]
        ELSE [w EXCEPT
                !.q = Append(@, Msg(IF isextended THEN "ext" ELSE "data", len)),
                !.src.buf  = IF isextended THEN @ ELSE @ - len,
                !.src.ebuf = IF isextended THEN @ - len ELSE @,
                !.c = IF DrainedBy(c, len)
                      THEN CloseChanFd(e, sent, fd, "RD") ELSE sent]

\* check_close().  A SIGCHLD may arrive between the two calls it makes of
\* type->check_close, so they have an outcome each, exited1 and exited2.
Flush(e, w) ==
    LET w1 == IF w.c.flushing /\ w.c.readfd >= 0 /\ w.c.transwindow > 0
              THEN SendData(e, w, FALSE) ELSE w
    IN  IF w1.c.flushing /\ ErrIsRead(w1.c) /\ w1.c.errfd >= 0
             /\ w1.c.transwindow > 0
        THEN SendData(e, w1, TRUE) ELSE w1

NothingMoreToSend(c) ==
    c.readfd = FD_CLOSED /\ (ErrIsWrite(c) \/ c.errfd = FD_CLOSED)

\* Mutant: type->check_close is not asked.
CloseAllowedAlways(e, c, exited) == TRUE
CloseAllowed(e, c, exited) ==
    ~HasCheckClose(e) \/ c.close_handler_done \/ exited

\* Mutant: a channel that was closed from this end first is kept.
MayRemoveAnswering(c, allowed) ==
    c.recv_close /\ ~c.sent_close /\ ~WritePending(c) /\ allowed
MayRemove(c, allowed) == c.recv_close /\ ~WritePending(c) /\ allowed

CheckClose(e, w, exited1, exited2) ==
    LET flushing == \/ w.c.flushing
                    \/ ~w.c.close_handler_done /\ HasCheckClose(e) /\ exited1
        close_allowed == CloseAllowed(e, w.c, exited2)
        w1 == [w EXCEPT !.c.flushing = flushing]
        w2 == IF \/ w1.c.recv_eof /\ ~WritePending(w1.c)
                 \/ HasCheckClose(e) /\ close_allowed
              THEN [w1 EXCEPT !.c = CloseChanFd(e, @, @.writefd, "WR")] ELSE w1
        w3 == Flush(e, w2)
        w4 == IF ~w3.c.sent_eof /\ NothingMoreToSend(w3.c)
              THEN SendEof(w3) ELSE w3
    IN  IF MayRemove(w1.c, close_allowed)
        THEN RemoveChannel(e, IF w1.c.sent_close THEN w1
                              ELSE SendClose(e, w1, exited2), exited2)
        ELSE IF /\ NothingMoreToSend(w4.c) /\ w4.c.writefd = FD_CLOSED
                /\ ~w4.c.sent_close /\ close_allowed /\ ~WritePending(w4.c)
        THEN SendClose(e, w4, exited2)
        ELSE w4

---------------------------------------------------------------------------
(* Data from the peer to a local program *)

\* Mutant: more than the window is waited for.
WindowExtendLate(e) == RecvWindow[e] + 1
\* RECV_WINDOWEXTEND
WindowExtend(e) == RecvWindow[e] \div 3

\* Mutant: the credit is given again and again.
AdjustNoReset(e, w) ==
    IF w.c.recvdonelen >= WindowExtend(e)
    THEN [w EXCEPT !.q = Append(@, Msg("adjust", w.c.recvdonelen)),
                   !.c.recvwindow = @ + w.c.recvdonelen]
    ELSE w
\* Mutant: the peer is given the threshold, not what was written out.
AdjustByThreshold(e, w) ==
    IF w.c.recvdonelen >= WindowExtend(e)
    THEN [w EXCEPT !.q = Append(@, Msg("adjust", WindowExtend(e))),
                   !.c.recvwindow = @ + w.c.recvdonelen,
                   !.c.recvdonelen = 0]
    ELSE w
\* The window adjustment at the end of writechannel()
AdjustWindow(e, w) ==
    IF w.c.recvdonelen >= WindowExtend(e)
    THEN [w EXCEPT !.q = Append(@, Msg("adjust", w.c.recvdonelen)),
                   !.c.recvwindow = @ + w.c.recvdonelen,
                   !.c.recvdonelen = 0]
    ELSE w

\* The assertions at the end of writechannel()
WindowAssertions(e, c) ==
    /\ c.recvwindow <= RecvWindow[e]
    /\ c.recvwindow <= c.wsize - c.wbuf
    /\ c.extra => c.recvwindow <= RecvWindow[e] - c.xbuf

\* writechannel(), f = "w" for writefd and writebuf, "x" for errfd and
\* extrabuf; len is how much of the buffer write() takes.
WriteChannel(e, w, f, len) ==
    IF f \in broken[e]
    THEN [w EXCEPT !.c = CloseChanFd(e, @, IF f = "w" THEN @.writefd
                                                      ELSE @.errfd, "WR")]
    ELSE LET w1 == [w EXCEPT !.c.wbuf = IF f = "w" THEN @ - len ELSE @,
                             !.c.xbuf = IF f = "x" THEN @ - len ELSE @,
                             !.c.recvdonelen = @ + len,
                             !.out = @ + len]
             w2 == AdjustWindow(e, w1)
         IN  [w2 EXCEPT !.bad = @ \/ ~WindowAssertions(e, w2.c)]

\* check_in_progress()
CheckInProgress(e, w, connected) ==
    IF connected
    THEN [w EXCEPT !.bad = ~InitWriteBufOk(w.c),
                   !.c = [InitWriteBuf(e, w.c) EXCEPT !.readfd = w.c.writefd,
                                                      !.initconn = FALSE],
                   !.q = Append(@, Msg("confirm", RecvWindow[e]))]
    ELSE RemoveChannel(e, [w EXCEPT !.q = Append(@, Msg("failure", 0))], FALSE)

---------------------------------------------------------------------------
(* The steps of an end *)

Init ==
    /\ ch = [e \in End |-> NoChannel]
    /\ net = [e \in End |-> <<>>]
    /\ pc = [e \in End |-> "select"]
    /\ sel = [e \in End |-> {}]
    /\ sigp = FALSE
    /\ fatal = [e \in End |-> "no"]
    /\ src = [e \in End |->
                [buf |-> 0, left |-> MaxOut[e], open |-> TRUE,
                 ebuf |-> 0, eleft |-> MaxErr[e], eopen |-> TRUE]]
    /\ child = "none"
    /\ broken = [e \in End |-> {}]
    /\ dropped = [e \in End |-> 0]
    /\ delivered = [e \in End |-> 0]
    /\ status = "unopened"

Running == \A e \in End : fatal[e] = "no"

\* dropbear_exit() in the handler of the packet at the head of net[e]
Exit(e, why) ==
    /\ fatal' = [fatal EXCEPT ![e] = why]
    /\ UNCHANGED <<ch, net, pc, sel, sigp, src, dropped, delivered>>
    /\ UNCHANGED env

\* The end of a handler: the world it leaves, and the packets left to read
Done(e, w, rest, next) ==
    /\ ch'  = [ch  EXCEPT ![e] = w.c]
    /\ src' = [src EXCEPT ![e] = w.src]
    /\ net' = [net EXCEPT ![e] = rest, ![Peer(e)] = @ \o w.q]
    /\ pc'  = [pc  EXCEPT ![e] = next]
    /\ delivered' = [delivered EXCEPT ![e] = @ + w.out]
    /\ fatal' = IF w.bad THEN [fatal EXCEPT ![e] = "assert"] ELSE fatal

\* SIGCHLD between the two type->check_close calls of check_close()
ChildExitsMeanwhile(e, exits) ==
    /\ exits => HasCheckClose(e) /\ child = "running"
    /\ child' = IF exits THEN "exited" ELSE child
Exited == child = "exited"

\* send_msg_channel_open_init() and the caller's encrypt_packet()
SendOpen ==
    /\ Running /\ pc["I"] = "select" /\ status = "unopened"
    /\ LET fd == IF TypeI = "stdpipes" THEN STDIN ELSE SOCKFD
           c  == [InitWriteBuf("I", NewChannel(0)) EXCEPT
                    !.readfd = fd, !.writefd = fd, !.await_open = TRUE]
       IN  Done("I", [World("I") EXCEPT
                        !.c = c, !.q = <<Msg("open", RecvWindow["I"])>>],
                net["I"], "select")
    /\ status' = "waiting"
    /\ UNCHANGED <<sel, sigp, child, broken, dropped>>

\* cli_chansess_winchange(), which cli_sessionloop() calls at the end of a
\* turn after a SIGWINCH.  At most one such request is under way (a bound).
WindowChange ==
    /\ Running /\ pc["I"] = "select" /\ "winch" \in Faults
    /\ TypeI = "stdpipes" /\ TypeA = "pty"
    /\ ch["I"] # NoChannel /\ ~ch["I"].await_open
    /\ \A i \in DOMAIN net["A"] : net["A"][i].t # "winch"
    /\ Done("I", [World("I") EXCEPT !.q = <<Msg("winch", 0)>>], net["I"], "select")
    /\ UNCHANGED <<sel, sigp, dropped>> /\ UNCHANGED env

\* setchannelfds()
WantRead(e) ==
    IF ch[e] = NoChannel THEN {}
    ELSE LET c == ch[e]
         IN  {f \in {"r", "e"} :
                /\ c.transwindow > 0
                /\ IF f = "r" THEN c.readfd >= 0
                              ELSE ErrIsRead(c) /\ c.errfd >= 0}
WantWrite(e) ==
    IF ch[e] = NoChannel THEN {}
    ELSE LET c == ch[e]
         IN  {f \in {"w", "x"} :
                IF f = "w" THEN c.initconn \/ (c.writefd >= 0 /\ c.wbuf > 0)
                           ELSE ErrIsWrite(c) /\ c.errfd >= 0 /\ c.xbuf > 0}

\* A descriptor is readable when it has data, or the other end is closed
Readable(e) ==
    {f \in WantRead(e) : IF f = "r" THEN src[e].buf > 0 \/ ~src[e].open
                                    ELSE src[e].ebuf > 0 \/ ~src[e].eopen}

\* select().  It reports every readable descriptor, or none when a signal
\* interrupted it or a key exchange forbids data (ses.dataallowed = 0), and
\* those that happen to be writable.  After it session_loop() reads a packet
\* when one has arrived.
Select(e, packet, reads, writes) ==
    /\ Running /\ pc[e] = "select"
    /\ packet => net[e] # <<>>
    /\ packet \/ reads \cup writes # {} \/ (e = "A" /\ sigp /\ ch[e] # NoChannel)
    /\ sel' = [sel EXCEPT ![e] = reads \cup writes]
    /\ pc' = [pc EXCEPT ![e] = IF packet THEN "packet" ELSE "io"]
    /\ UNCHANGED <<ch, net, sigp, fatal, src, dropped, delivered>>
    /\ UNCHANGED env

SelectSome(e) ==
    \E packet \in BOOLEAN, reads \in {{}, Readable(e)},
       writes \in SUBSET WantWrite(e) : Select(e, packet, reads, writes)
SelectAll(e) == Select(e, net[e] # <<>>, Readable(e), WantWrite(e))

\* process_packet() for a packet of one type; getchannel() exits when the
\* packet is for a channel that does not exist.
Packet(e, type) ==
    /\ Running /\ pc[e] = "packet" /\ Head(net[e]).t = type
UnknownChannel(e) ==
    /\ \E type \in MsgType \ {"open"} : Packet(e, type)
    /\ ch[e] = NoChannel
    /\ Exit(e, "unknown channel")
PacketFor(e, type) == Packet(e, type) /\ ch[e] # NoChannel
Processed(e, w) == Done(e, w, Tail(net[e]), "io")

\* The inithandler of the accepting end's type: newtcpdirect() starts to
\* connect, an agent or X11 socket is connected, newchansess() sets nothing.
InitHandler(c) ==
    CASE TypeA = "tcp"  -> [c EXCEPT !.writefd = SOCKFD, !.initconn = TRUE]
      [] TypeA = "sock" -> [c EXCEPT !.writefd = SOCKFD, !.readfd = SOCKFD]
      [] OTHER          -> c

\* recv_msg_channel_open(), with the inithandler of the channel's type
RecvOpen ==
    /\ Packet("A", "open")
    /\ \E opened \in BOOLEAN :
         /\ ~opened => "connect" \in Faults /\ TypeA \in {"tcp", "sock"}
         /\ LET w == World("A")
                new == NewChannel(MinOf(Head(net["A"]).n, TransMaxWindow))
                c == InitHandler(new)
            IN  Processed("A",
                  IF ~opened
                  THEN [w EXCEPT !.q = <<Msg("failure", 0)>>]
                  ELSE IF c.initconn THEN [w EXCEPT !.c = c]
                  ELSE [w EXCEPT !.c = InitWriteBuf("A", c),
                                 !.bad = ~InitWriteBufOk(c),
                                 !.q = <<Msg("confirm", RecvWindow["A"])>>])
    /\ UNCHANGED <<sel, sigp, dropped>> /\ UNCHANGED env

\* cli_init_stdpipe_sess(), called by cli_initchansess() and cli_init_netcat()
InitStdpipe(c) ==
    [c EXCEPT !.writefd = STDOUT, !.readfd = STDIN, !.errfd = STDERR,
              !.extra = TRUE]

\* recv_msg_channel_open_confirmation(), with cli_initchansess(), which asks
\* for a shell, or cli_init_netcat()
RecvConfirmation ==
    /\ PacketFor("I", "confirm")
    /\ IF ~ch["I"].await_open THEN Exit("I", "unexpected reply")
       ELSE /\ LET c == [ch["I"] EXCEPT !.await_open = FALSE,
                                        !.transwindow = Head(net["I"]).n]
                   w == World("I")
               IN  Processed("I",
                     IF TypeI # "stdpipes" THEN [w EXCEPT !.c = c]
                     ELSE [w EXCEPT
                             !.c = InitStdpipe(c),
                             !.q = IF HasCheckClose("A")
                                   THEN <<Msg("shell", 0)>> ELSE <<>>])
            /\ UNCHANGED <<sel, sigp, dropped>> /\ UNCHANGED env

\* recv_msg_channel_open_failure()
RecvFailure ==
    /\ PacketFor("I", "failure")
    /\ IF ~ch["I"].await_open THEN Exit("I", "unexpected reply")
       ELSE /\ Processed("I", RemoveChannel("I", World("I"), FALSE))
            /\ UNCHANGED <<sel, sigp, dropped>> /\ UNCHANGED env

\* recv_msg_channel_data() and recv_msg_channel_extended_data(), both by
\* common_recv_msg_channel_data(); netcat ignores extended data.
RecvData(e, type) ==
    /\ PacketFor(e, type)
    /\ LET c == ch[e]
           n == Head(net[e]).n
           fd    == IF type = "data" THEN c.writefd ELSE c.errfd
           avail == IF type = "data" THEN c.wsize - c.wbuf
                                     ELSE RecvWindow[e] - c.xbuf
           w == World(e)
       IN  IF c.recv_eof THEN Exit(e, "data after eof")
           ELSE IF fd < 0 \/ (type = "ext" /\ ~c.extra)
           THEN /\ Processed(e, w)
                /\ dropped' = [dropped EXCEPT ![e] = @ + n]
                /\ UNCHANGED <<sel, sigp>> /\ UNCHANGED env
           ELSE IF n > avail THEN Exit(e, "oversized packet")
           ELSE IF c.recvwindow < n THEN Exit(e, "assert")
           ELSE /\ Processed(e, [w EXCEPT
                     !.c.wbuf = IF type = "data" THEN @ + n ELSE @,
                     !.c.xbuf = IF type = "ext"  THEN @ + n ELSE @,
                     !.c.recvwindow = @ - n])
                /\ UNCHANGED <<sel, sigp, dropped>> /\ UNCHANGED env

\* recv_msg_channel_window_adjust()
RecvAdjust(e) ==
    /\ PacketFor(e, "adjust")
    /\ LET incr == MinOf(Head(net[e]).n, TransMaxWindow)
       IN  Processed(e, [World(e) EXCEPT
             !.c.transwindow = MinOf(@ + incr, TransMaxWindow)])
    /\ UNCHANGED <<sel, sigp, dropped>> /\ UNCHANGED env

\* recv_msg_channel_eof() and recv_msg_channel_close()
RecvEofOrClose(e, type) ==
    /\ PacketFor(e, type)
    /\ \E exits \in BOOLEAN :
         /\ ChildExitsMeanwhile(e, exits)
         /\ sigp' = (sigp \/ exits)
         /\ Processed(e, CheckClose(e,
              [World(e) EXCEPT !.c.recv_eof = TRUE,
                               !.c.recv_close = @ \/ type = "close"],
              Exited, Exited \/ exits))
    /\ UNCHANGED <<sel, dropped, broken, status>>
RecvEof(e)   == RecvEofOrClose(e, "eof")
RecvClose(e) == RecvEofOrClose(e, "close")

\* recv_msg_channel_request() for "shell" and "exec": noptycommand() and
\* ptycommand() start the child and set the descriptors
RecvShell ==
    /\ PacketFor("A", "shell")
    /\ LET c == ch["A"]
           w == World("A")
       IN  \E spawned \in BOOLEAN :
             /\ ~spawned => "spawn" \in Faults
             /\ IF c.sent_close \/ c.close_handler_done \/ ~spawned
                THEN Processed("A", w) /\ child' = child
                ELSE /\ child' = "running"
                     /\ Processed("A", [w EXCEPT !.c =
                          IF TypeA = "pty"
                          THEN [c EXCEPT !.writefd = PTYFD, !.readfd = PTYFD]
                          ELSE [c EXCEPT !.writefd = PIPEIN,
                                         !.readfd = PIPEOUT,
                                         !.errfd = PIPEERR]])
    /\ UNCHANGED <<sel, sigp, dropped, broken, status>>

\* recv_msg_channel_request() for "window-change": sessionwinchange() changes
\* nothing of the channel
RecvWindowChange ==
    /\ PacketFor("A", "winch")
    /\ Processed("A", World("A"))
    /\ UNCHANGED <<sel, sigp, dropped>> /\ UNCHANGED env

\* recv_msg_channel_request() for "exit-status": cli_chansessreq()
RecvExitStatus ==
    /\ PacketFor("I", "exit")
    /\ Processed("I", World("I"))
    /\ status' = IF ch["I"].sent_close THEN status ELSE "received"
    /\ UNCHANGED <<sel, sigp, dropped, child, broken>>

\* channelio() for the channel: what select() reported, then check_close()
ReadStep(e, w, f) ==
    IF f \notin sel[e] THEN w
    ELSE IF f = "r" /\ w.c.readfd >= 0 THEN SendData(e, w, FALSE)
    ELSE IF f = "e" /\ ErrIsRead(w.c) /\ w.c.errfd >= 0 THEN SendData(e, w, TRUE)
    ELSE w
WriteStep(e, w, f, len) ==
    IF /\ f \in sel[e]
       /\ \/ f = "w" /\ w.c.writefd >= 0
          \/ f = "x" /\ ErrIsWrite(w.c) /\ w.c.errfd >= 0
    THEN WriteChannel(e, w, f, len) ELSE w

\* What write() may take of n buffered bytes
Written(e, f, n) == IF f \in sel[e] /\ n > 0 THEN 1 .. n ELSE {0}

\* Mutant: writing is no reason to check for the close of a channel.
HadEventNoWrite(e, c) ==
    \/ "r" \in sel[e] /\ c.readfd >= 0
    \/ "e" \in sel[e] /\ ErrIsRead(c) /\ c.errfd >= 0
\* Whether any of the four tests of channelio() succeeds
HadEvent(e, c) ==
    \/ "r" \in sel[e] /\ c.readfd >= 0
    \/ "e" \in sel[e] /\ ErrIsRead(c) /\ c.errfd >= 0
    \/ "w" \in sel[e] /\ c.writefd >= 0
    \/ "x" \in sel[e] /\ ErrIsWrite(c) /\ c.errfd >= 0

\* do_check_close
\* Mutant: a SIGCHLD is no reason to check.
DoCheckCloseOnIO(e, c) == HadEvent(e, c)
DoCheckClose(e, c) == HadEvent(e, c) \/ (e = "A" /\ sigp)

NoChannelIO(e) ==
    /\ Running /\ pc[e] = "io" /\ ch[e] = NoChannel
    /\ pc' = [pc EXCEPT ![e] = "select"]
    /\ sel' = [sel EXCEPT ![e] = {}]
    /\ UNCHANGED <<ch, net, sigp, fatal, src, dropped, delivered>> /\ UNCHANGED env

ConnectIO(e) ==
    /\ Running /\ pc[e] = "io" /\ ch[e] # NoChannel
    /\ ch[e].initconn /\ "w" \in sel[e]
    /\ \E connected \in BOOLEAN :
         /\ ~connected => "connect" \in Faults
         /\ Done(e, CheckInProgress(e, World(e), connected), net[e], "select")
    /\ sel' = [sel EXCEPT ![e] = {}]
    /\ UNCHANGED <<sigp, dropped>> /\ UNCHANGED env

ChannelIO(e) ==
    /\ Running /\ pc[e] = "io" /\ ch[e] # NoChannel
    /\ ~(ch[e].initconn /\ "w" \in sel[e])
    /\ \E wlen \in Written(e, "w", ch[e].wbuf),
          xlen \in Written(e, "x", ch[e].xbuf), exits \in BOOLEAN :
         LET w1 == ReadStep(e, World(e), "r")
             w2 == ReadStep(e, w1, "e")
             w3 == WriteStep(e, w2, "w", wlen)
             w4 == WriteStep(e, w3, "x", xlen)
             check == DoCheckClose(e, ch[e])
         IN  /\ exits => check
             /\ ChildExitsMeanwhile(e, exits)
             /\ sigp' = IF e = "A" THEN exits ELSE sigp
             /\ Done(e, IF check
                        THEN CheckClose(e, w4, Exited, Exited \/ exits)
                        ELSE w4, net[e], "select")
    /\ sel' = [sel EXCEPT ![e] = {}]
    /\ UNCHANGED <<dropped, broken, status>>

---------------------------------------------------------------------------
(* The environment: the programs at the far side of the descriptors *)

Produce(e) ==
    /\ Running /\ src[e].open /\ src[e].left > 0
    /\ HasCheckClose(e) => child # "none"
    /\ src' = [src EXCEPT ![e].buf = @ + 1, ![e].left = @ - 1]
    /\ UNCHANGED <<ch, net, pc, sel, sigp, fatal, dropped, delivered>> /\ UNCHANGED env

ProduceErr(e) ==
    /\ Running /\ Type(e) = "pipes" /\ child # "none"
    /\ src[e].eopen /\ src[e].eleft > 0
    /\ src' = [src EXCEPT ![e].ebuf = @ + 1, ![e].eleft = @ - 1]
    /\ UNCHANGED <<ch, net, pc, sel, sigp, fatal, dropped, delivered>> /\ UNCHANGED env

\* A program closes its output, exits, or its connection breaks
CloseSource(e) ==
    /\ Running /\ src[e].open
    /\ HasCheckClose(e) => child # "none"
    /\ src' = [src EXCEPT ![e].open = FALSE]
    /\ UNCHANGED <<ch, net, pc, sel, sigp, fatal, dropped, delivered>> /\ UNCHANGED env

CloseErrSource(e) ==
    /\ Running /\ Type(e) = "pipes" /\ child # "none" /\ src[e].eopen
    /\ src' = [src EXCEPT ![e].eopen = FALSE]
    /\ UNCHANGED <<ch, net, pc, sel, sigp, fatal, dropped, delivered>> /\ UNCHANGED env

\* sesssigchild_handler(): a source still open then belongs to a background
\* process that inherited it
ChildExit ==
    /\ Running /\ child = "running"
    /\ child' = "exited" /\ sigp' = TRUE
    /\ UNCHANGED <<ch, net, pc, sel, fatal, src, dropped, delivered, broken,
                   status>>

\* The reader of what the end writes goes away
SinkBreaks(e, f) ==
    /\ Running /\ "write" \in Faults /\ ch[e] # NoChannel
    /\ IF f = "w" THEN ch[e].writefd >= 0 ELSE ch[e].extra /\ ch[e].errfd >= 0
    /\ f \notin broken[e]
    /\ broken' = [broken EXCEPT ![e] = @ \cup {f}]
    /\ UNCHANGED <<ch, net, pc, sel, sigp, fatal, src, child, dropped, delivered,
                   status>>

Handle(e) ==
    \/ UnknownChannel(e)
    \/ e = "A" /\ (RecvOpen \/ RecvShell \/ RecvWindowChange)
    \/ e = "I" /\ (RecvConfirmation \/ RecvFailure \/ RecvExitStatus)
    \/ \E type \in {"data", "ext"} : RecvData(e, type)
    \/ RecvAdjust(e) \/ RecvEof(e) \/ RecvClose(e)
IO(e) == NoChannelIO(e) \/ ConnectIO(e) \/ ChannelIO(e)
Program(e) ==
    \/ Produce(e) \/ ProduceErr(e) \/ CloseSource(e) \/ CloseErrSource(e)
    \/ \E f \in {"w", "x"} : SinkBreaks(e, f)

Next ==
    \/ SendOpen \/ WindowChange
    \/ ChildExit
    \/ \E e \in End : SelectSome(e) \/ Handle(e) \/ IO(e) \/ Program(e)

Spec == Init /\ [][Next]_vars

=============================================================================
