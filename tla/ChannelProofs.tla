--------------------------- MODULE ChannelProofs ---------------------------
(***************************************************************************)
(* Proofs about one channel between two dropbear ends, for any receive     *)
(* windows, packet sizes and programs, and every pair of channel types.    *)
(*                                                                         *)
(* Each operator on a world (a C function) has a lemma saying that it      *)
(* takes a well-formed world to a well-formed one; each action then keeps  *)
(* the invariant because it applies such operators and then Done().        *)
(* The second part is about the order of packets, the third about flow     *)
(* control, which shows that neither end makes the other exit, the fourth  *)
(* about what is given up with a descriptor, for the action properties,    *)
(* the fifth that check_close() passes nothing over.                       *)
(***************************************************************************)
EXTENDS ChannelProperties, SequenceTheorems, FiniteSetTheorems, TLAPS

\* The account of an end's receive window: closed while its channel is still
\* connecting, exact from then on.
Accounted(e, c) ==
    /\ c.initconn => /\ c.wsize = 0 /\ c.recvwindow = 0 /\ c.wbuf = 0
                     /\ c.xbuf = 0 /\ c.recvdonelen = 0
    /\ ~c.initconn =>
         /\ c.wsize = RecvWindow[e]
         /\ c.recvwindow + c.wbuf + c.xbuf + c.recvdonelen = RecvWindow[e]

Good(e, c) == c \in Channels /\ Accounted(e, c)

\* Well-formed worlds: with a channel, or after a handler that may remove it
Worlds == [c : Channels \cup {NoChannel}, src : Sources, q : Seq(Message),
           out : Nat, bad : BOOLEAN]
LiveWorld(e, w) == w \in Worlds /\ Good(e, w.c)
Handled(e, w) == w \in Worlds /\ (w.c = NoChannel \/ Good(e, w.c))

\* close_chan_fd() changes nothing but descriptors.
LEMMA CloseFd ==
    ASSUME NEW e \in End, NEW c, Good(e, c), NEW fd, NEW how
    PROVE  /\ Good(e, CloseChanFd(e, c, fd, how))
           /\ CloseChanFd(e, c, fd, how).wbuf = c.wbuf
           /\ CloseChanFd(e, c, fd, how).xbuf = c.xbuf
<1>1. c \in Channels
  BY DEF Good
<1>2. CloseChanFd(e, c, fd, how) \in Channels
  BY <1>1 DEF CloseChanFd, Channels, Fd, FD_CLOSED
<1>3. Accounted(e, CloseChanFd(e, c, fd, how))
  BY <1>1 DEF Accounted, Good, CloseChanFd, Channels
<1>4. /\ CloseChanFd(e, c, fd, how).wbuf = c.wbuf
      /\ CloseChanFd(e, c, fd, how).xbuf = c.xbuf
  BY <1>1 DEF CloseChanFd, Channels
<1>5. QED
  BY <1>2, <1>3, <1>4 DEF Good

\* A packet to send
LEMMA MsgMessage ==
    ASSUME NEW t \in MsgType, NEW n \in Nat
    PROVE  Msg(t, n) \in Message
BY DEF Msg, Message

\* An EOF changes nothing the window counts.
LEMMA SendEofLive ==
    ASSUME NEW e \in End, NEW w, LiveWorld(e, w)
    PROVE  LiveWorld(e, SendEof(w))
<1>1. Append(w.q, Msg("eof", 0)) \in Seq(Message)
  BY MsgMessage, AppendProperties DEF LiveWorld, Worlds, MsgType
<1>2. [w.c EXCEPT !.sent_eof = TRUE] \in Channels
  BY DEF LiveWorld, Good, Channels
<1>3. QED
  BY <1>1, <1>2 DEF LiveWorld, Worlds, Good, Accounted, Channels, SendEof

\* Nor does the close handler of a session.
LEMMA RunCloseHandlerLive ==
    ASSUME NEW e \in End, NEW w, LiveWorld(e, w), NEW exited
    PROVE  LiveWorld(e, RunCloseHandler(e, w, exited))
<1>1. Append(w.q, Msg("exit", 0)) \in Seq(Message)
  BY MsgMessage, AppendProperties DEF LiveWorld, Worlds, MsgType
<1>2. [w.c EXCEPT !.close_handler_done = TRUE] \in Channels
  BY DEF LiveWorld, Good, Channels
<1>3. Good(e, [w.c EXCEPT !.close_handler_done = TRUE])
  BY <1>2 DEF LiveWorld, Good, Accounted, Channels
<1>4. \/ RunCloseHandler(e, w, exited) = w
      \/ RunCloseHandler(e, w, exited) =
           [w EXCEPT !.q = Append(@, Msg("exit", 0)), !.c.close_handler_done = TRUE]
      \/ RunCloseHandler(e, w, exited) = [w EXCEPT !.c.close_handler_done = TRUE]
  BY DEF LiveWorld, Worlds, RunCloseHandler
<1>5. QED
  BY <1>1, <1>2, <1>3, <1>4 DEF LiveWorld, Worlds, Good

\* Nor do the marks of a CLOSE.
LEMMA ClosedGood ==
    ASSUME NEW e \in End, NEW c, Good(e, c)
    PROVE  Good(e, Closed(c))
BY DEF Good, Accounted, Channels, Closed

\* send_msg_channel_close() leaves a well-formed world.
LEMMA SendCloseLive ==
    ASSUME NEW e \in End, NEW w, LiveWorld(e, w), NEW exited
    PROVE  LiveWorld(e, SendClose(e, w, exited))
<1> DEFINE w1 == RunCloseHandler(e, w, exited)
           c1 == Closed(w1.c)
           c2 == CloseChanFd(e, c1, c1.readfd, "RD")
           c3 == CloseChanFd(e, c2, c2.errfd, "RDWR")
           c4 == CloseChanFd(e, c3, c3.writefd, "WR")
<1>1. LiveWorld(e, w1)
  BY RunCloseHandlerLive
<1>2. Good(e, c1)
  BY <1>1, ClosedGood DEF LiveWorld
<1>3. Good(e, c2)
  BY <1>2, CloseFd
<1>4. Good(e, c3)
  BY <1>3, CloseFd
<1>5. Good(e, c4)
  BY <1>4, CloseFd
<1>6. Append(w1.q, Msg("close", 0)) \in Seq(Message)
  BY <1>1, MsgMessage, AppendProperties DEF LiveWorld, Worlds, MsgType
<1>7. SendClose(e, w, exited) =
        [w1 EXCEPT !.q = Append(@, Msg("close", 0)), !.c = c4]
  BY DEF SendClose
<1>8. QED
  <2> HIDE DEF w1, c4
  <2>1. QED
    BY <1>1, <1>5, <1>6, <1>7 DEF LiveWorld, Worlds, Good

\* remove_channel() leaves a world without a channel.
LEMMA RemoveHandled ==
    ASSUME NEW e \in End, NEW w, LiveWorld(e, w), NEW exited
    PROVE  Handled(e, RemoveChannel(e, w, exited))
BY RunCloseHandlerLive DEF LiveWorld, Worlds, Handled, RemoveChannel

\* send_msg_channel_data() takes no more than the pipe holds and the peer's
\* window allows, and leaves the buffers for the local program alone.
LEMMA SendDataLive ==
    ASSUME NEW e \in End, NEW w, LiveWorld(e, w), NEW isextended \in BOOLEAN
    PROVE  /\ LiveWorld(e, SendData(e, w, isextended))
           /\ SendData(e, w, isextended).c.wbuf = w.c.wbuf
           /\ SendData(e, w, isextended).c.xbuf = w.c.xbuf
<1> DEFINE c      == w.c
           fd     == IF isextended THEN c.errfd ELSE c.readfd
           avail  == IF isextended THEN w.src.ebuf ELSE w.src.buf
           maxlen == MaxLen(c)
           len    == MinOf(avail, maxlen)
           sent   == [c EXCEPT !.transwindow = @ - len]
           c1     == IF DrainedBy(c, len) THEN CloseChanFd(e, sent, fd, "RD")
                                          ELSE sent
           m      == Msg(IF isextended THEN "ext" ELSE "data", len)
<1>1. /\ c \in Channels /\ c.transwindow \in Nat /\ w.src \in Sources
      /\ avail \in Nat /\ MaxPacket \in Nat
  BY WindowAssumption DEF LiveWorld, Good, Worlds, Channels, Sources
<1>2. len \in Nat /\ len <= avail /\ len <= c.transwindow
  <2> HIDE DEF c, avail
  <2>1. QED
    BY <1>1 DEF MaxLen, MinOf
<1>3. Good(e, sent) /\ sent.wbuf = c.wbuf /\ sent.xbuf = c.xbuf
  <2> HIDE DEF len
  <2>1. QED
    BY <1>1, <1>2 DEF LiveWorld, Good, Accounted, Channels
<1>4. Good(e, c1) /\ c1.wbuf = c.wbuf /\ c1.xbuf = c.xbuf
  <2> HIDE DEF sent, len, fd
  <2>1. QED
    BY <1>3, CloseFd
<1>5. /\ Good(e, CloseChanFd(e, c, fd, "RD"))
      /\ CloseChanFd(e, c, fd, "RD").wbuf = c.wbuf
      /\ CloseChanFd(e, c, fd, "RD").xbuf = c.xbuf
  <2> HIDE DEF fd
  <2>1. QED
    BY CloseFd DEF LiveWorld
<1>6. Append(w.q, m) \in Seq(Message)
  <2>1. m \in Message
    BY <1>2, MsgMessage DEF MsgType
  <2> HIDE DEF m
  <2>2. QED
    BY <2>1, AppendProperties DEF LiveWorld, Worlds
<1>7. \/ SendData(e, w, isextended) = [w EXCEPT !.bad = TRUE]
      \/ SendData(e, w, isextended) = w
      \/ SendData(e, w, isextended) = [w EXCEPT !.c = CloseChanFd(e, c, fd, "RD")]
      \/ SendData(e, w, isextended) =
           [w EXCEPT !.q = Append(@, m),
                     !.src.buf  = IF isextended THEN @ ELSE @ - len,
                     !.src.ebuf = IF isextended THEN @ - len ELSE @,
                     !.c = c1]
  BY DEF SendData
<1>8. [w.src EXCEPT !.buf  = IF isextended THEN @ ELSE @ - len,
                    !.ebuf = IF isextended THEN @ - len ELSE @] \in Sources
  <2> HIDE DEF len
  <2> DEFINE buf  == IF isextended THEN w.src.buf ELSE w.src.buf - len
             ebuf == IF isextended THEN w.src.ebuf - len ELSE w.src.ebuf
  <2>1. w.src.buf \in Nat /\ w.src.ebuf \in Nat
    BY <1>1 DEF Sources
  <2>2. buf \in Nat /\ ebuf \in Nat
    BY <1>2, <2>1
  <2> HIDE DEF buf, ebuf
  <2>3. [w.src EXCEPT !.buf = buf, !.ebuf = ebuf] \in Sources
    BY <1>1, <2>2 DEF Sources
  <2>4. QED
    BY <2>3 DEF buf, ebuf
<1>9. QED
  <2> HIDE DEF len, fd, m, c1
  <2>1. QED
    BY <1>4, <1>5, <1>6, <1>7, <1>8 DEF LiveWorld, Worlds, Good

\* The two reads of a flush in check_close() leave a well-formed world.
LEMMA FlushLive ==
    ASSUME NEW e \in End, NEW w, LiveWorld(e, w)
    PROVE  LiveWorld(e, Flush(e, w))
<1> DEFINE w1 == IF w.c.flushing /\ w.c.readfd >= 0 /\ w.c.transwindow > 0
                 THEN SendData(e, w, FALSE) ELSE w
<1>1. LiveWorld(e, w1)
  BY SendDataLive
<1>2. Flush(e, w) = SendData(e, w1, TRUE) \/ Flush(e, w) = w1
  BY DEF Flush
<1>3. QED
  <2> HIDE DEF w1
  <2>1. QED
    BY <1>1, <1>2, SendDataLive

\* check_close() leaves a well-formed world, or removes the channel.
LEMMA CheckCloseHandled ==
    ASSUME NEW e \in End, NEW w, LiveWorld(e, w), NEW exited1, NEW exited2
    PROVE  Handled(e, CheckClose(e, w, exited1, exited2))
<1> DEFINE flushing == \/ w.c.flushing
                       \/ ~w.c.close_handler_done /\ HasCheckClose(e) /\ exited1
           allowed == CloseAllowed(e, w.c, exited2)
           w1 == [w EXCEPT !.c.flushing = flushing]
           w2 == IF \/ w1.c.recv_eof /\ ~WritePending(w1.c)
                    \/ HasCheckClose(e) /\ allowed
                 THEN [w1 EXCEPT !.c = CloseChanFd(e, @, @.writefd, "WR")] ELSE w1
           w3 == Flush(e, w2)
           w4 == IF ~w3.c.sent_eof /\ NothingMoreToSend(w3.c)
                 THEN SendEof(w3) ELSE w3
           w5 == IF w1.c.sent_close THEN w1 ELSE SendClose(e, w1, exited2)
<1>1. LiveWorld(e, w1)
  <2>1. flushing \in BOOLEAN
    BY DEF LiveWorld, Good, Channels
  <2> HIDE DEF flushing
  <2>2. [w.c EXCEPT !.flushing = flushing] \in Channels
    BY <2>1 DEF LiveWorld, Good, Channels
  <2>3. QED
    BY <2>2 DEF LiveWorld, Worlds, Good, Accounted, Channels
<1>2. LiveWorld(e, w2)
  <2> HIDE DEF w1, allowed
  <2>1. Good(e, CloseChanFd(e, w1.c, w1.c.writefd, "WR"))
    BY <1>1, CloseFd DEF LiveWorld
  <2>2. QED
    BY <1>1, <2>1 DEF LiveWorld, Worlds, Good
<1>3. LiveWorld(e, w3)
  <2> HIDE DEF w2
  <2>1. QED
    BY <1>2, FlushLive
<1>4. LiveWorld(e, w4)
  <2> HIDE DEF w3
  <2>1. QED
    BY <1>3, SendEofLive
<1>5. LiveWorld(e, w5)
  <2> HIDE DEF w1
  <2>1. QED
    BY <1>1, SendCloseLive
<1>6. \/ CheckClose(e, w, exited1, exited2) = RemoveChannel(e, w5, exited2)
      \/ CheckClose(e, w, exited1, exited2) = SendClose(e, w4, exited2)
      \/ CheckClose(e, w, exited1, exited2) = w4
  BY DEF CheckClose
<1>7. QED
  <2> HIDE DEF w4, w5
  <2>1. Handled(e, RemoveChannel(e, w5, exited2))
    BY <1>5, RemoveHandled
  <2>2. LiveWorld(e, SendClose(e, w4, exited2))
    BY <1>4, SendCloseLive
  <2>3. QED
    BY <1>4, <1>6, <2>1, <2>2 DEF LiveWorld, Handled

\* Credit moves from recvdonelen to recvwindow.
LEMMA AdjustWindowLive ==
    ASSUME NEW e \in End, NEW w, LiveWorld(e, w)
    PROVE  /\ LiveWorld(e, AdjustWindow(e, w))
           /\ AdjustWindow(e, w).c.wbuf = w.c.wbuf
           /\ AdjustWindow(e, w).c.xbuf = w.c.xbuf
           /\ AdjustWindow(e, w).bad = w.bad
<1> DEFINE c1 == [w.c EXCEPT !.recvwindow = @ + w.c.recvdonelen, !.recvdonelen = 0]
           m  == Msg("adjust", w.c.recvdonelen)
<1>1. w \in Worlds /\ w.c \in Channels /\ Accounted(e, w.c)
  BY DEF LiveWorld, Good
<1>2. Append(w.q, m) \in Seq(Message)
  <2>1. m \in Message
    BY <1>1, MsgMessage DEF MsgType, Channels
  <2> HIDE DEF m
  <2>2. QED
    BY <1>1, <2>1, AppendProperties DEF Worlds
<1>3. RecvWindow[e] \in Nat
  BY WindowAssumption
<1>4. Good(e, c1) /\ c1.wbuf = w.c.wbuf /\ c1.xbuf = w.c.xbuf
  <2>1. /\ w.c.recvwindow \in Nat /\ w.c.recvdonelen \in Nat
        /\ w.c.wbuf \in Nat /\ w.c.xbuf \in Nat
    BY <1>1 DEF Channels
  <2>2. w.c.recvwindow + w.c.recvdonelen \in Nat
    BY <2>1
  <2>3. c1 \in Channels
    BY <1>1, <2>2 DEF Channels
  <2>4. /\ c1.recvwindow = w.c.recvwindow + w.c.recvdonelen
        /\ c1.recvdonelen = 0 /\ c1.wbuf = w.c.wbuf /\ c1.xbuf = w.c.xbuf
        /\ c1.wsize = w.c.wsize /\ c1.initconn = w.c.initconn
    BY <1>1 DEF Channels
  <2>5. Accounted(e, c1)
    <3> HIDE DEF c1
    <3>1. QED
      BY <1>1, <1>3, <2>1, <2>4 DEF Accounted
  <2>6. QED
    BY <2>3, <2>4, <2>5 DEF Good
<1>5. \/ AdjustWindow(e, w) = w
      \/ AdjustWindow(e, w) = [w EXCEPT !.q = Append(@, m), !.c = c1]
  BY <1>1 DEF AdjustWindow, Worlds
<1>6. QED
  <2> HIDE DEF c1, m
  <2>1. QED
    BY <1>1, <1>2, <1>4, <1>5 DEF LiveWorld, Worlds, Good

\* With the window accounted for no assertion of writechannel() fails.
LEMMA AccountedAsserts ==
    ASSUME NEW e \in End, NEW c, Good(e, c)
    PROVE  ~c.initconn => WindowAssertions(e, c)
<1>1. RecvWindow[e] \in Nat
  BY WindowAssumption
<1>2. QED
  BY <1>1 DEF Good, Accounted, Channels, WindowAssertions

\* writechannel() moves bytes from a buffer to recvdonelen, and none of its
\* assertions fails.
LEMMA WriteChannelLive ==
    ASSUME NEW e \in End, NEW w, LiveWorld(e, w), NEW f \in {"w", "x"},
           NEW len \in 0 .. IF f = "w" THEN w.c.wbuf ELSE w.c.xbuf
    PROVE  /\ LiveWorld(e, WriteChannel(e, w, f, len))
           /\ f = "w" => WriteChannel(e, w, f, len).c.xbuf = w.c.xbuf
           /\ w.c.initconn \/ WriteChannel(e, w, f, len).bad = w.bad
<1> DEFINE fd == IF f = "w" THEN w.c.writefd ELSE w.c.errfd
           w1 == [w EXCEPT !.c.wbuf = IF f = "w" THEN @ - len ELSE @,
                           !.c.xbuf = IF f = "x" THEN @ - len ELSE @,
                           !.c.recvdonelen = @ + len,
                           !.out = @ + len]
           wbuf == IF f = "w" THEN w.c.wbuf - len ELSE w.c.wbuf
           xbuf == IF f = "x" THEN w.c.xbuf - len ELSE w.c.xbuf
           done == w.c.recvdonelen + len
           c1 == [w.c EXCEPT !.wbuf = wbuf, !.xbuf = xbuf, !.recvdonelen = done]
           w2 == AdjustWindow(e, w1)
<1>1. w \in Worlds /\ w.c \in Channels /\ Accounted(e, w.c) /\ len \in Nat
  BY DEF LiveWorld, Good, Channels
<1>2. CASE f \in broken[e]
  <2>1. WriteChannel(e, w, f, len) = [w EXCEPT !.c = CloseChanFd(e, w.c, fd, "WR")]
    BY <1>2 DEF WriteChannel
  <2> HIDE DEF fd
  <2>2. /\ Good(e, CloseChanFd(e, w.c, fd, "WR"))
        /\ CloseChanFd(e, w.c, fd, "WR").xbuf = w.c.xbuf
    BY CloseFd DEF LiveWorld
  <2>3. QED
    BY <1>1, <2>1, <2>2 DEF LiveWorld, Worlds, Good
<1>3. CASE f \notin broken[e]
  <2>1. RecvWindow[e] \in Nat
    BY WindowAssumption
  <2>2. /\ c1 \in Channels /\ Accounted(e, c1)
        /\ f = "w" => c1.xbuf = w.c.xbuf
        /\ c1.initconn = w.c.initconn
    <3>1. /\ w.c.recvwindow \in Nat /\ w.c.recvdonelen \in Nat
          /\ w.c.wbuf \in Nat /\ w.c.xbuf \in Nat
      BY <1>1 DEF Channels
    <3>2. /\ wbuf \in Nat /\ xbuf \in Nat /\ done \in Nat
          /\ wbuf + xbuf + done = w.c.wbuf + w.c.xbuf + w.c.recvdonelen
          /\ f = "w" => xbuf = w.c.xbuf
      BY <3>1
    <3> HIDE DEF wbuf, xbuf, done
    <3>3. c1 \in Channels
      BY <1>1, <3>2 DEF Channels
    <3>4. /\ c1.wbuf = wbuf /\ c1.xbuf = xbuf /\ c1.recvdonelen = done
          /\ c1.recvwindow = w.c.recvwindow
          /\ c1.wsize = w.c.wsize /\ c1.initconn = w.c.initconn
      BY <1>1 DEF Channels
    <3>5. Accounted(e, c1)
      <4> HIDE DEF c1
      <4>1. QED
        <5>1. CASE w.c.initconn
          <6>1. w.c.wbuf = 0 /\ w.c.xbuf = 0 /\ w.c.recvdonelen = 0
            BY <1>1, <5>1 DEF Accounted
          <6>2. wbuf = 0 /\ xbuf = 0 /\ done = 0
            BY <3>2, <6>1
          <6>3. QED
            BY <1>1, <3>4, <5>1, <6>2 DEF Accounted
        <5>2. CASE ~w.c.initconn
          <6>1. /\ w.c.wsize = RecvWindow[e]
                /\ w.c.recvwindow + w.c.wbuf + w.c.xbuf + w.c.recvdonelen =
                     RecvWindow[e]
            BY <1>1, <5>2 DEF Accounted
          <6>2. w.c.recvwindow + wbuf + xbuf + done = RecvWindow[e]
            BY <2>1, <3>1, <3>2, <6>1
          <6>3. QED
            BY <3>4, <5>2, <6>1, <6>2 DEF Accounted
        <5>3. QED
          BY <5>1, <5>2
    <3>6. QED
      BY <3>2, <3>3, <3>4, <3>5
  <2>3. w1 = [w EXCEPT !.c = c1, !.out = @ + len]
    BY <1>1 DEF Worlds, Channels
  <2>4. LiveWorld(e, w1) /\ w1.c = c1 /\ w1.bad = w.bad
    <3>1. w.out + len \in Nat
      BY <1>1 DEF Worlds
    <3> HIDE DEF c1, w1
    <3>2. w1 \in Worlds /\ w1.c = c1 /\ w1.bad = w.bad
      BY <1>1, <2>2, <2>3, <3>1 DEF Worlds
    <3>3. QED
      BY <2>2, <3>2 DEF LiveWorld, Good
  <2>5. /\ LiveWorld(e, w2) /\ w2.c.xbuf = c1.xbuf /\ w2.bad = w.bad
    <3> HIDE DEF c1, w1
    <3>1. QED
      BY <2>4, AdjustWindowLive
  <2>6. WriteChannel(e, w, f, len) =
          [w2 EXCEPT !.bad = w2.bad \/ ~WindowAssertions(e, w2.c)]
    BY <1>3 DEF WriteChannel
  <2>7. w2.c.initconn = w.c.initconn
    <3>1. w2.c.initconn = w1.c.initconn
      <4> HIDE DEF w1
      <4>1. QED
        BY <2>4 DEF AdjustWindow, LiveWorld, Worlds, Good, Channels
    <3>2. QED
      BY <2>2, <2>4, <3>1
  <2>8. QED
    <3> HIDE DEF w2, c1
    <3>1. ~w2.c.initconn => WindowAssertions(e, w2.c)
      BY <2>5, AccountedAsserts DEF LiveWorld
    <3>2. QED
      BY <2>2, <2>5, <2>6, <2>7, <3>1 DEF LiveWorld, Worlds, Good
<1>4. QED
  BY <1>2, <1>3

\* The reading half of channelio() leaves a well-formed world.
LEMMA ReadStepLive ==
    ASSUME NEW e \in End, NEW w, LiveWorld(e, w), NEW f
    PROVE  /\ LiveWorld(e, ReadStep(e, w, f))
           /\ ReadStep(e, w, f).c.wbuf = w.c.wbuf
           /\ ReadStep(e, w, f).c.xbuf = w.c.xbuf
<1>1. \/ ReadStep(e, w, f) = w
      \/ \E b \in BOOLEAN : ReadStep(e, w, f) = SendData(e, w, b)
  BY DEF ReadStep
<1>2. QED
  BY <1>1, SendDataLive

\* The writing half of channelio() leaves a well-formed world.
LEMMA WriteStepLive ==
    ASSUME NEW e \in End, NEW w, LiveWorld(e, w), NEW f \in {"w", "x"},
           NEW len \in 0 .. IF f = "w" THEN w.c.wbuf ELSE w.c.xbuf
    PROVE  /\ LiveWorld(e, WriteStep(e, w, f, len))
           /\ f = "w" => WriteStep(e, w, f, len).c.xbuf = w.c.xbuf
<1>1. \/ WriteStep(e, w, f, len) = w
      \/ WriteStep(e, w, f, len) = WriteChannel(e, w, f, len)
  BY DEF WriteStep
<1>2. QED
  BY <1>1, WriteChannelLive

\* chan_initwritebuf() offers the whole of an empty buffer.
LEMMA InitWriteBufGood ==
    ASSUME NEW e \in End, NEW c \in Channels,
           c.wbuf = 0, c.xbuf = 0, c.recvdonelen = 0
    PROVE  ~c.initconn => Good(e, InitWriteBuf(e, c))
<1>1. RecvWindow[e] \in Nat
  BY WindowAssumption
<1>2. InitWriteBuf(e, c) \in Channels
  BY <1>1 DEF InitWriteBuf, Channels
<1>3. /\ InitWriteBuf(e, c).wsize = RecvWindow[e]
      /\ InitWriteBuf(e, c).recvwindow = RecvWindow[e]
      /\ InitWriteBuf(e, c).wbuf = 0 /\ InitWriteBuf(e, c).xbuf = 0
      /\ InitWriteBuf(e, c).recvdonelen = 0
      /\ InitWriteBuf(e, c).initconn = c.initconn
  BY DEF InitWriteBuf, Channels
<1>4. ~c.initconn => Accounted(e, InitWriteBuf(e, c))
  BY <1>1, <1>3 DEF Accounted
<1>5. QED
  BY <1>2, <1>4 DEF Good

\* newchannel() makes a channel.
LEMMA NewChannelType ==
    ASSUME NEW n \in Nat
    PROVE  NewChannel(n) \in Channels
BY DEF NewChannel, Channels, Fd, FD_UNINIT, FD_CLOSED

\* check_in_progress() opens the window of a connected channel, or removes it.
LEMMA CheckInProgressHandled ==
    ASSUME NEW e \in End, NEW w, LiveWorld(e, w), w.c.initconn,
           NEW connected \in BOOLEAN
    PROVE  Handled(e, CheckInProgress(e, w, connected))
<1>1. w \in Worlds /\ w.c \in Channels /\ Accounted(e, w.c)
  BY DEF LiveWorld, Good
<1>2. RecvWindow[e] \in Nat
  BY WindowAssumption
<1>3. CASE connected
  <2> DEFINE c1 == [InitWriteBuf(e, w.c) EXCEPT !.readfd = w.c.writefd,
                                                !.initconn = FALSE]
             m == Msg("confirm", RecvWindow[e])
             bad == ~InitWriteBufOk(w.c)
  <2>1. Append(w.q, m) \in Seq(Message)
    <3>1. m \in Message
      BY <1>2, MsgMessage DEF MsgType
    <3> HIDE DEF m
    <3>2. QED
      BY <1>1, <3>1, AppendProperties DEF Worlds
  <2>2. c1 \in Channels
    BY <1>1, <1>2 DEF InitWriteBuf, Channels
  <2>3. /\ c1.wbuf = w.c.wbuf /\ c1.xbuf = w.c.xbuf
        /\ c1.recvdonelen = w.c.recvdonelen /\ ~c1.initconn
        /\ c1.recvwindow = RecvWindow[e] /\ c1.wsize = RecvWindow[e]
    BY <1>1 DEF InitWriteBuf, Channels
  <2>4. Accounted(e, c1)
    <3> HIDE DEF c1
    <3>1. QED
      BY <1>1, <1>2, <2>3 DEF Accounted
  <2>5. bad \in BOOLEAN
    BY DEF InitWriteBufOk
  <2>6. CheckInProgress(e, w, connected) =
          [w EXCEPT !.bad = bad, !.c = c1, !.q = Append(@, m)]
    BY <1>3 DEF CheckInProgress
  <2> HIDE DEF c1, m, bad
  <2>7. QED
    BY <1>1, <2>1, <2>2, <2>4, <2>5, <2>6 DEF Handled, Worlds, Good
<1>4. CASE ~connected
  <2> DEFINE w1 == [w EXCEPT !.q = Append(@, Msg("failure", 0))]
  <2>1. Append(w.q, Msg("failure", 0)) \in Seq(Message)
    BY <1>1, MsgMessage, AppendProperties DEF Worlds, MsgType
  <2>2. LiveWorld(e, w1)
    BY <1>1, <2>1 DEF LiveWorld, Worlds, Good
  <2>3. CheckInProgress(e, w, connected) = RemoveChannel(e, w1, FALSE)
    BY <1>4 DEF CheckInProgress
  <2> HIDE DEF w1
  <2>4. QED
    BY <2>2, <2>3, RemoveHandled
<1>5. QED
  BY <1>3, <1>4

---------------------------------------------------------------------------
(* The inductive invariant.  That a packet is there when one is being handled *)
(* is what makes Head(net[e]) a message.                                      *)

IInv ==
    /\ TypeOK
    /\ \A e \in End : /\ ch[e] = NoChannel \/ Good(e, ch[e])
                      /\ pc[e] = "packet" => net[e] # <<>>

\* The variables Done() says nothing of
OthersOK ==
    /\ sel \in [End -> SUBSET {"r", "e", "w", "x"}]
    /\ sigp \in BOOLEAN
    /\ child \in {"none", "running", "exited"}
    /\ broken \in [End -> SUBSET {"w", "x"}]
    /\ dropped \in [End -> Nat]
    /\ status \in {"unopened", "waiting", "received"}

\* Each end has the other for its peer.
LEMMA PeerEnd == ASSUME NEW e \in End PROVE Peer(e) \in End /\ Peer(e) # e
BY DEF Peer, End

\* The world a handler starts from is well formed.
LEMMA WorldType ==
    ASSUME IInv, NEW e \in End
    PROVE  /\ World(e) \in Worlds
           /\ World(e).c = ch[e] /\ World(e).q = <<>>
           /\ ch[e] # NoChannel => LiveWorld(e, World(e))
<1>1. <<>> \in Seq(Message)
  BY EmptySeq
<1>2. QED
  BY <1>1 DEF IInv, TypeOK, World, Worlds, LiveWorld

\* What is on its way stays on its way.
LEMMA ConcatNotEmpty ==
    ASSUME NEW p \in Seq(Message), NEW q \in Seq(Message), p # <<>>
    PROVE  p \o q # <<>>
<1> DEFINE l == Len(p)
           m == Len(q)
<1>1. l \in Nat /\ m \in Nat /\ l # 0
  BY EmptySeq, LenProperties
<1>2. Len(p \o q) = l + m
  BY ConcatProperties
<1>3. l + m # 0
  <2> HIDE DEF l, m
  <2>1. QED
    BY <1>1
<1>4. Len(<<>>) = 0
  OBVIOUS
<1>5. QED
  <2> HIDE DEF l, m
  <2>1. QED
    BY <1>2, <1>3, <1>4

\* A handler that leaves a well-formed world keeps the invariant.
LEMMA DoneIInv ==
    ASSUME IInv, NEW e \in End, NEW w, Handled(e, w), NEW rest \in Seq(Message),
           NEW next \in {"select", "io"}, Done(e, w, rest, next), OthersOK'
    PROVE  IInv'
<1>1. /\ w \in Worlds /\ w.src \in Sources /\ w.q \in Seq(Message) /\ w.out \in Nat
      /\ w.c \in Channels \cup {NoChannel}
  BY DEF Handled, Worlds
<1>2. ch' \in [End -> Channels \cup {NoChannel}] /\ src' \in [End -> Sources]
  BY <1>1 DEF IInv, TypeOK, Done
<1>3. net' \in [End -> Seq(Message)]
  <2>1. net[Peer(e)] \o w.q \in Seq(Message)
    BY <1>1, PeerEnd, ConcatProperties DEF IInv, TypeOK
  <2>2. net' = [net EXCEPT ![e] = rest, ![Peer(e)] = net[Peer(e)] \o w.q]
    BY PeerEnd DEF IInv, TypeOK, Done
  <2>3. QED
    BY <2>1, <2>2 DEF IInv, TypeOK
<1>4. pc' \in [End -> {"select", "packet", "io"}]
  BY DEF IInv, TypeOK, Done
<1>5. delivered' \in [End -> Nat]
  <2>1. delivered[e] + w.out \in Nat
    <3>1. delivered[e] \in Nat
      BY DEF IInv, TypeOK
    <3>2. QED
      BY <1>1, <3>1
  <2>2. QED
    BY <2>1 DEF IInv, TypeOK, Done
<1>6. fatal' \in [End -> {"no", "assert", "unknown channel", "data after eof",
                          "oversized packet", "unexpected reply"}]
  BY DEF IInv, TypeOK, Done
<1>7. \A d \in End : ch'[d] = NoChannel \/ Good(d, ch'[d])
  BY DEF IInv, TypeOK, Done, Handled
<1>8. \A d \in End : pc'[d] = "packet" => net'[d] # <<>>
  <2>1. pc'[e] # "packet"
    BY DEF IInv, TypeOK, Done
  <2>2. /\ pc'[Peer(e)] = pc[Peer(e)]
        /\ net'[Peer(e)] = net[Peer(e)] \o w.q
    BY PeerEnd DEF IInv, TypeOK, Done
  <2>3. net[Peer(e)] # <<>> => net'[Peer(e)] # <<>>
    <3>1. net[Peer(e)] \in Seq(Message)
      BY PeerEnd DEF IInv, TypeOK
    <3>2. net[Peer(e)] # <<>> => net[Peer(e)] \o w.q # <<>>
      BY <1>1, <3>1, ConcatNotEmpty
    <3>3. QED
      BY <2>2, <3>2
  <2>4. \A d \in End : d = e \/ d = Peer(e)
    BY DEF End, Peer
  <2>5. QED
    BY <2>1, <2>2, <2>3, <2>4, PeerEnd DEF IInv
<1>9. QED
  BY <1>2, <1>3, <1>4, <1>5, <1>6, <1>7, <1>8 DEF IInv, TypeOK, OthersOK

\* dropbear_exit() changes nothing but the note of it.
LEMMA ExitIInv ==
    ASSUME IInv, NEW e \in End,
           NEW why \in {"assert", "unknown channel", "data after eof",
                        "oversized packet", "unexpected reply"},
           Exit(e, why)
    PROVE  IInv'
BY DEF IInv, TypeOK, Exit, env

\* What a handler makes of its end's world
LEMMA Remade ==
    ASSUME NEW e \in End, NEW w \in Worlds, NEW c, c = NoChannel \/ Good(e, c),
           NEW q \in Seq(Message), NEW bad \in BOOLEAN
    PROVE  /\ Handled(e, [w EXCEPT !.c = c])
           /\ Handled(e, [w EXCEPT !.c = c, !.q = q])
           /\ Handled(e, [w EXCEPT !.c = c, !.bad = bad, !.q = q])
           /\ w.c = NoChannel \/ Good(e, w.c) =>
                Handled(e, w) /\ Handled(e, [w EXCEPT !.q = q])
BY DEF Handled, Worlds, Good

\* One packet queued
LEMMA OneMessage ==
    ASSUME NEW t \in MsgType, NEW n \in Nat
    PROVE  <<Msg(t, n)>> \in Seq(Message)
BY MsgMessage

\* The packet a handler is given, and those behind it
LEMMA ThePacket ==
    ASSUME IInv, NEW e \in End, pc[e] = "packet"
    PROVE  /\ Head(net[e]) \in Message /\ Head(net[e]).n \in Nat
           /\ Tail(net[e]) \in Seq(Message)
<1>1. net[e] \in Seq(Message) /\ net[e] # <<>>
  BY DEF IInv, TypeOK
<1>2. Head(net[e]) \in Message /\ Tail(net[e]) \in Seq(Message)
  BY <1>1, HeadTailProperties
<1>3. QED
  BY <1>2 DEF Message

\* So does the handler of a packet.
LEMMA ProcessedIInv ==
    ASSUME IInv, NEW e \in End, pc[e] = "packet", NEW w, Handled(e, w),
           Processed(e, w), OthersOK'
    PROVE  IInv'
BY ThePacket, DoneIInv DEF Processed

\* Variables that do not change keep their types.
LEMMA OthersKept ==
    ASSUME IInv, UNCHANGED <<sel, sigp, child, broken, dropped, status>>
    PROVE  OthersOK'
BY DEF IInv, TypeOK, OthersOK

\* Opening a channel keeps the invariant: the opener's window is whole.
LEMMA SendOpenIInv == ASSUME IInv, SendOpen PROVE IInv'
<1> DEFINE fd == IF TypeI = "stdpipes" THEN STDIN ELSE SOCKFD
           c0 == InitWriteBuf("I", NewChannel(0))
           c  == [c0 EXCEPT !.readfd = fd, !.writefd = fd, !.await_open = TRUE]
           q  == <<Msg("open", RecvWindow["I"])>>
<1>1. "I" \in End /\ RecvWindow["I"] \in Nat
  BY WindowAssumption DEF End
<1>2. Good("I", c0)
  <2>1. /\ NewChannel(0) \in Channels
        /\ NewChannel(0).wbuf = 0 /\ NewChannel(0).xbuf = 0
        /\ NewChannel(0).recvdonelen = 0 /\ ~NewChannel(0).initconn
    BY NewChannelType DEF NewChannel
  <2>2. QED
    BY <1>1, <2>1, InitWriteBufGood
<1>3. Good("I", c)
  <2>1. fd \in Fd
    BY DEF Fd
  <2> HIDE DEF c0, fd
  <2>2. QED
    BY <1>2, <2>1 DEF Good, Accounted, Channels
<1>4. q \in Seq(Message)
  BY <1>1, OneMessage DEF MsgType
<1>5. Done("I", [World("I") EXCEPT !.c = c, !.q = q], net["I"], "select")
  BY DEF SendOpen
<1>6. OthersOK'
  BY DEF SendOpen, IInv, TypeOK, OthersOK
<1>7. QED
  <2> HIDE DEF c, q
  <2>1. Handled("I", [World("I") EXCEPT !.c = c, !.q = q])
    BY <1>1, <1>3, <1>4, WorldType, Remade
  <2>2. net["I"] \in Seq(Message)
    BY <1>1 DEF IInv, TypeOK
  <2>3. QED
    BY <1>1, <1>5, <1>6, <2>1, <2>2, DoneIInv

\* A window-change request keeps the invariant.
LEMMA WindowChangeIInv == ASSUME IInv, WindowChange PROVE IInv'
<1>1. "I" \in End
  BY DEF End
<1>2. <<Msg("winch", 0)>> \in Seq(Message)
  BY OneMessage DEF MsgType
<1>3. Handled("I", [World("I") EXCEPT !.q = <<Msg("winch", 0)>>])
  BY <1>1, <1>2, WorldType, Remade DEF WindowChange, LiveWorld
<1>4. net["I"] \in Seq(Message)
  BY <1>1 DEF IInv, TypeOK
<1>5. OthersOK'
  BY OthersKept DEF WindowChange, env
<1>6. QED
  BY <1>1, <1>3, <1>4, <1>5, DoneIInv DEF WindowChange

\* recv_msg_channel_open() keeps the invariant: a channel still connecting
\* offers no window, any other the whole of it.
LEMMA RecvOpenIInv == ASSUME IInv, RecvOpen PROVE IInv'
<1> DEFINE new == NewChannel(MinOf(Head(net["A"]).n, TransMaxWindow))
           c == InitHandler(new)
           w == World("A")
           w1 == [w EXCEPT !.q = <<Msg("failure", 0)>>]
           w2 == [w EXCEPT !.c = c]
           w3 == [w EXCEPT !.c = InitWriteBuf("A", c), !.bad = ~InitWriteBufOk(c),
                           !.q = <<Msg("confirm", RecvWindow["A"])>>]
<1>1. "A" \in End /\ RecvWindow["A"] \in Nat /\ pc["A"] = "packet"
  BY WindowAssumption DEF End, RecvOpen, Packet
<1>2. MinOf(Head(net["A"]).n, TransMaxWindow) \in Nat
  BY <1>1, ThePacket, WindowAssumption DEF MinOf
<1>3. /\ new \in Channels
      /\ new.wbuf = 0 /\ new.xbuf = 0 /\ new.recvdonelen = 0 /\ ~new.initconn
      /\ new.wsize = 0 /\ new.recvwindow = 0
  <2>1. new \in Channels
    BY <1>2, NewChannelType
  <2>2. QED
    BY <2>1 DEF NewChannel
<1>4. /\ c \in Channels
      /\ c.wbuf = 0 /\ c.xbuf = 0 /\ c.recvdonelen = 0
      /\ c.wsize = 0 /\ c.recvwindow = 0
  <2>1. SOCKFD \in Fd
    BY DEF Fd
  <2> HIDE DEF new
  <2>2. CASE TypeA = "tcp"
    BY <1>3, <2>1, <2>2 DEF InitHandler, Channels
  <2>3. CASE TypeA = "sock"
    BY <1>3, <2>1, <2>3 DEF InitHandler, Channels
  <2>4. CASE TypeA # "tcp" /\ TypeA # "sock"
    BY <1>3, <2>4 DEF InitHandler
  <2>5. QED
    BY <2>2, <2>3, <2>4
<1>5. /\ c.initconn => Good("A", c)
      /\ ~c.initconn => Good("A", InitWriteBuf("A", c))
  <2> HIDE DEF c
  <2>1. QED
    BY <1>1, <1>4, InitWriteBufGood DEF Good, Accounted
<1>6. /\ <<Msg("failure", 0)>> \in Seq(Message)
      /\ <<Msg("confirm", RecvWindow["A"])>> \in Seq(Message)
  BY <1>1, OneMessage DEF MsgType
<1>7. w \in Worlds /\ (w.c = NoChannel \/ Good("A", w.c))
  BY <1>1, WorldType DEF IInv
<1>8. \/ Processed("A", w1)
      \/ c.initconn /\ Processed("A", w2)
      \/ ~c.initconn /\ Processed("A", w3)
  BY DEF RecvOpen
<1>9. OthersOK'
  BY OthersKept DEF RecvOpen, env
<1>10. (~InitWriteBufOk(c)) \in BOOLEAN
  <2> HIDE DEF c
  <2>1. QED
    BY DEF InitWriteBufOk
<1>11. QED
  <2> HIDE DEF c, w
  <2>1. Handled("A", w1)
    BY <1>1, <1>6, <1>7, Remade
  <2>2. c.initconn => Handled("A", w2)
    BY <1>1, <1>5, <1>6, <1>7, Remade
  <2>3. ~c.initconn => Handled("A", w3)
    BY <1>1, <1>5, <1>6, <1>7, <1>10, Remade
  <2> HIDE DEF w1, w2, w3
  <2>4. QED
    BY <1>1, <1>8, <1>9, <2>1, <2>2, <2>3, ProcessedIInv

\* recv_msg_channel_open_confirmation() keeps the invariant.
LEMMA RecvConfirmationIInv == ASSUME IInv, RecvConfirmation PROVE IInv'
<1> DEFINE c == [ch["I"] EXCEPT !.await_open = FALSE,
                                !.transwindow = Head(net["I"]).n]
           c1 == InitStdpipe(c)
           q == IF HasCheckClose("A") THEN <<Msg("shell", 0)>> ELSE <<>>
           w1 == [World("I") EXCEPT !.c = c]
           w2 == [World("I") EXCEPT !.c = c1, !.q = q]
<1>1. "I" \in End /\ pc["I"] = "packet" /\ ch["I"] # NoChannel
  BY DEF End, RecvConfirmation, PacketFor, Packet
<1>2. Head(net["I"]).n \in Nat /\ Good("I", ch["I"])
  BY <1>1, ThePacket DEF IInv
<1>3. Good("I", c)
  BY <1>2 DEF Good, Accounted, Channels
<1>4. Good("I", c1)
  <2>1. {STDOUT, STDIN, STDERR} \subseteq Fd
    BY DEF Fd
  <2> HIDE DEF c
  <2>2. QED
    BY <1>3, <2>1 DEF InitStdpipe, Good, Accounted, Channels
<1>5. q \in Seq(Message)
  BY OneMessage, EmptySeq DEF MsgType
<1>6. \/ Exit("I", "unexpected reply")
      \/ Processed("I", w1) /\ UNCHANGED <<sel, sigp, child, broken, dropped, status>>
      \/ Processed("I", w2) /\ UNCHANGED <<sel, sigp, child, broken, dropped, status>>
  BY DEF RecvConfirmation, env
<1>7. QED
  <2> HIDE DEF c, c1, q
  <2>1. Handled("I", w1) /\ Handled("I", w2)
    BY <1>1, <1>3, <1>4, <1>5, WorldType, Remade
  <2> HIDE DEF w1, w2
  <2>2. QED
    BY <1>1, <1>6, <2>1, OthersKept, ProcessedIInv, ExitIInv

\* recv_msg_channel_open_failure() keeps the invariant.
LEMMA RecvFailureIInv == ASSUME IInv, RecvFailure PROVE IInv'
<1>1. "I" \in End /\ pc["I"] = "packet" /\ ch["I"] # NoChannel
  BY DEF End, RecvFailure, PacketFor, Packet
<1>2. Handled("I", RemoveChannel("I", World("I"), FALSE))
  BY <1>1, WorldType, RemoveHandled
<1>3. \/ Exit("I", "unexpected reply")
      \/ /\ Processed("I", RemoveChannel("I", World("I"), FALSE))
         /\ UNCHANGED <<sel, sigp, child, broken, dropped, status>>
  BY DEF RecvFailure, env
<1>4. QED
  BY <1>1, <1>2, <1>3, OthersKept, ProcessedIInv, ExitIInv

\* Data moves from the window to a buffer, when both have room for it.
LEMMA RecvDataIInv ==
    ASSUME IInv, NEW e \in End, NEW type \in {"data", "ext"}, RecvData(e, type)
    PROVE  IInv'
<1> DEFINE c == ch[e]
           n == Head(net[e]).n
           fd    == IF type = "data" THEN c.writefd ELSE c.errfd
           avail == IF type = "data" THEN c.wsize - c.wbuf
                                     ELSE RecvWindow[e] - c.xbuf
           wbuf == IF type = "data" THEN c.wbuf + n ELSE c.wbuf
           xbuf == IF type = "ext"  THEN c.xbuf + n ELSE c.xbuf
           c1 == [c EXCEPT !.wbuf = wbuf, !.xbuf = xbuf, !.recvwindow = @ - n]
<1>1. pc[e] = "packet" /\ c # NoChannel
  BY DEF RecvData, PacketFor, Packet
<1>2. n \in Nat /\ Good(e, c) /\ c \in Channels
  BY <1>1, ThePacket DEF IInv, Good
<1>3. \/ \E why \in {"data after eof", "oversized packet", "assert"} : Exit(e, why)
      \/ /\ Processed(e, World(e)) /\ dropped' = [dropped EXCEPT ![e] = @ + n]
         /\ UNCHANGED <<sel, sigp, child, broken, status>>
      \/ /\ n <= avail /\ ~(c.recvwindow < n)
         /\ Processed(e, [World(e) EXCEPT !.c = c1])
         /\ UNCHANGED <<sel, sigp, child, broken, dropped, status>>
  <2>1. World(e).c = c
    BY WorldType
  <2>2. [World(e) EXCEPT !.c.wbuf = IF type = "data" THEN @ + n ELSE @,
                         !.c.xbuf = IF type = "ext"  THEN @ + n ELSE @,
                         !.c.recvwindow = @ - n] = [World(e) EXCEPT !.c = c1]
    BY <1>2 DEF World, Channels
  <2> DEFINE kept == UNCHANGED <<sel, sigp, child, broken, status>>
             cut == fd < 0 \/ (type = "ext" /\ ~c.extra)
             w == [World(e) EXCEPT !.c.wbuf = IF type = "data" THEN @ + n ELSE @,
                                   !.c.xbuf = IF type = "ext"  THEN @ + n ELSE @,
                                   !.c.recvwindow = @ - n]
  <2>3. IF c.recv_eof THEN Exit(e, "data after eof")
        ELSE IF cut THEN /\ Processed(e, World(e))
                         /\ dropped' = [dropped EXCEPT ![e] = @ + n]
                         /\ kept
        ELSE IF n > avail THEN Exit(e, "oversized packet")
        ELSE IF c.recvwindow < n THEN Exit(e, "assert")
        ELSE Processed(e, w) /\ kept /\ dropped' = dropped
    BY DEF RecvData, env
  <2>4. n > avail \/ n <= avail
    <3>1. n \in Int /\ avail \in Int
      <4>1. /\ c.wsize \in Nat /\ c.wbuf \in Nat /\ c.xbuf \in Nat
            /\ RecvWindow[e] \in Nat
        BY <1>2, WindowAssumption DEF Channels
      <4> HIDE DEF c, n
      <4>2. QED
        BY <1>2, <4>1
    <3> HIDE DEF n, avail
    <3>2. QED
      BY <3>1
  <2> HIDE DEF c, n, cut, avail, c1
  <2>5. Processed(e, w) <=> Processed(e, [World(e) EXCEPT !.c = c1])
    BY <2>2 DEF c1
  <2> HIDE DEF w
  <2>6. QED
    BY <2>3, <2>4, <2>5
<1>4. CASE \E why \in {"data after eof", "oversized packet", "assert"} : Exit(e, why)
  BY <1>4, ExitIInv
<1>5. CASE /\ Processed(e, World(e)) /\ dropped' = [dropped EXCEPT ![e] = @ + n]
           /\ UNCHANGED <<sel, sigp, child, broken, status>>
  <2>1. dropped[e] + n \in Nat
    <3>1. dropped[e] \in Nat
      BY DEF IInv, TypeOK
    <3>2. QED
      BY <1>2, <3>1
  <2>2. OthersOK'
    BY <1>5, <2>1 DEF IInv, TypeOK, OthersOK
  <2>3. Handled(e, World(e))
    BY <1>1, WorldType DEF LiveWorld, Handled
  <2>4. QED
    BY <1>1, <1>5, <2>2, <2>3, ProcessedIInv
<1>6. CASE /\ n <= avail /\ ~(c.recvwindow < n)
           /\ Processed(e, [World(e) EXCEPT !.c = c1])
           /\ UNCHANGED <<sel, sigp, child, broken, dropped, status>>
  <2>1. /\ c.recvwindow \in Nat /\ c.wbuf \in Nat /\ c.xbuf \in Nat
        /\ c.recvdonelen \in Nat /\ RecvWindow[e] \in Nat
    BY <1>2, WindowAssumption DEF Channels
  <2>2. /\ wbuf \in Nat /\ xbuf \in Nat /\ c.recvwindow - n \in Nat
        /\ wbuf + xbuf = c.wbuf + c.xbuf + n
    BY <1>2, <1>6, <2>1
  <2> HIDE DEF wbuf, xbuf
  <2>3. c1 \in Channels
    BY <1>2, <2>2 DEF Channels
  <2>4. /\ c1.wbuf = wbuf /\ c1.xbuf = xbuf /\ c1.recvwindow = c.recvwindow - n
        /\ c1.recvdonelen = c.recvdonelen /\ c1.wsize = c.wsize
        /\ c1.initconn = c.initconn
    BY <1>2 DEF Channels
  <2>5. ASSUME c.initconn PROVE Good(e, c1)
    <3>1. c.recvwindow = 0 /\ c.wbuf = 0 /\ c.xbuf = 0
      BY <1>2, <2>5 DEF Good, Accounted
    <3>2. n = 0 /\ wbuf = 0 /\ xbuf = 0 /\ c.recvwindow - n = 0
      BY <1>2, <1>6, <2>2, <3>1
    <3> HIDE DEF c1
    <3>3. Accounted(e, c1)
      BY <1>2, <2>4, <2>5, <3>2 DEF Good, Accounted
    <3>4. QED
      BY <2>3, <3>3 DEF Good
  <2>6. ASSUME ~c.initconn PROVE Good(e, c1)
    <3>1. /\ c.wsize = RecvWindow[e]
          /\ c.recvwindow + c.wbuf + c.xbuf + c.recvdonelen = RecvWindow[e]
      BY <1>2, <2>6 DEF Good, Accounted
    <3>2. (c.recvwindow - n) + wbuf + xbuf + c.recvdonelen = RecvWindow[e]
      BY <1>2, <2>1, <2>2, <3>1
    <3> HIDE DEF c1
    <3>3. Accounted(e, c1)
      BY <2>4, <2>6, <3>1, <3>2 DEF Accounted
    <3>4. QED
      BY <2>3, <3>3 DEF Good
  <2>7. Good(e, c1)
    BY <2>5, <2>6
  <2>8. Handled(e, [World(e) EXCEPT !.c = c1])
    <3> HIDE DEF c1
    <3>1. QED
      BY <2>7, WorldType, EmptySeq, Remade
  <2>9. OthersOK'
    BY <1>6, OthersKept
  <2>10. Processed(e, [World(e) EXCEPT !.c = c1])
    BY <1>6
  <2>11. QED
    <3> HIDE DEF c1
    <3>1. QED
      BY <1>1, <2>8, <2>9, <2>10, ProcessedIInv
<1>7. QED
  BY <1>3, <1>4, <1>5, <1>6
\* A window adjustment is the peer's: this end's account is not touched.
LEMMA RecvAdjustIInv == ASSUME IInv, NEW e \in End, RecvAdjust(e) PROVE IInv'
<1> DEFINE incr == MinOf(Head(net[e]).n, TransMaxWindow)
           window == MinOf(ch[e].transwindow + incr, TransMaxWindow)
           c1 == [ch[e] EXCEPT !.transwindow = window]
<1>1. pc[e] = "packet" /\ ch[e] # NoChannel
  BY DEF RecvAdjust, PacketFor, Packet
<1>2. Good(e, ch[e]) /\ ch[e] \in Channels /\ ch[e].transwindow \in Nat
  BY <1>1 DEF IInv, Good, Channels
<1>3. window \in Nat
  <2>1. incr \in Nat
    BY <1>1, ThePacket, WindowAssumption DEF MinOf
  <2> HIDE DEF incr
  <2>2. QED
    BY <1>2, <2>1, WindowAssumption DEF MinOf
<1>4. Good(e, c1)
  <2> HIDE DEF window
  <2>1. QED
    BY <1>2, <1>3 DEF Good, Accounted, Channels
<1>5. Processed(e, [World(e) EXCEPT !.c = c1])
  BY DEF RecvAdjust, World
<1>6. OthersOK'
  BY OthersKept DEF RecvAdjust, env
<1>7. QED
  <2> HIDE DEF c1
  <2>1. Handled(e, [World(e) EXCEPT !.c = c1])
    BY <1>4, WorldType, EmptySeq, Remade
  <2>2. QED
    BY <1>1, <1>5, <1>6, <2>1, ProcessedIInv

\* The handlers of EOF and CLOSE keep the invariant.
LEMMA RecvEofOrCloseIInv ==
    ASSUME IInv, NEW e \in End, NEW type, RecvEofOrClose(e, type)
    PROVE  IInv'
<1>1. pc[e] = "packet" /\ ch[e] # NoChannel
  BY DEF RecvEofOrClose, PacketFor, Packet
<1>2. PICK exits \in BOOLEAN :
        /\ ChildExitsMeanwhile(e, exits)
        /\ sigp' = (sigp \/ exits)
        /\ Processed(e, CheckClose(e,
             [World(e) EXCEPT !.c.recv_eof = TRUE,
                              !.c.recv_close = @ \/ type = "close"],
             Exited, Exited \/ exits))
  BY DEF RecvEofOrClose
<1> DEFINE closed == ch[e].recv_close \/ type = "close"
           c1 == [ch[e] EXCEPT !.recv_eof = TRUE, !.recv_close = closed]
           w1 == [World(e) EXCEPT !.c = c1]
<1>3. Good(e, ch[e]) /\ ch[e] \in Channels
  BY <1>1 DEF IInv, Good
<1>4. Good(e, c1)
  <2>1. closed \in BOOLEAN
    <3>1. ch[e].recv_close \in BOOLEAN
      BY <1>3 DEF Channels
    <3>2. QED
      BY <3>1
  <2> HIDE DEF closed
  <2>2. QED
    BY <1>3, <2>1 DEF Good, Accounted, Channels
<1>5. [World(e) EXCEPT !.c.recv_eof = TRUE,
                       !.c.recv_close = @ \/ type = "close"] = w1
  BY <1>3 DEF World, Channels
<1>6. LiveWorld(e, w1)
  <2> HIDE DEF c1
  <2>1. QED
    BY <1>4, WorldType DEF LiveWorld, Worlds, Good
<1>7. OthersOK'
  BY <1>2 DEF RecvEofOrClose, ChildExitsMeanwhile, IInv, TypeOK, OthersOK
<1>8. QED
  <2> HIDE DEF w1
  <2>1. Handled(e, CheckClose(e, w1, Exited, Exited \/ exits))
    BY <1>6, CheckCloseHandled
  <2>2. Processed(e, CheckClose(e, w1, Exited, Exited \/ exits))
    BY <1>2, <1>5
  <2>3. QED
    BY <1>1, <1>7, <2>1, <2>2, ProcessedIInv

\* Starting the shell sets descriptors and no counter.
LEMMA RecvShellIInv == ASSUME IInv, RecvShell PROVE IInv'
<1> DEFINE c == ch["A"]
           c1 == [c EXCEPT !.writefd = PTYFD, !.readfd = PTYFD]
           c2 == [c EXCEPT !.writefd = PIPEIN, !.readfd = PIPEOUT,
                           !.errfd = PIPEERR]
           w1 == [World("A") EXCEPT !.c = c1]
           w2 == [World("A") EXCEPT !.c = c2]
<1>1. "A" \in End /\ pc["A"] = "packet" /\ c # NoChannel
  BY DEF End, RecvShell, PacketFor, Packet
<1>2. Good("A", c) /\ LiveWorld("A", World("A"))
  BY <1>1, WorldType DEF IInv
<1>3. Good("A", c1) /\ Good("A", c2)
  BY <1>2 DEF Good, Accounted, Channels, Fd
<1>4. /\ \/ Processed("A", World("A"))
         \/ Processed("A", w1)
         \/ Processed("A", w2)
      /\ child' \in {child, "running"}
      /\ UNCHANGED <<sel, sigp, dropped, broken, status>>
  BY DEF RecvShell
<1>5. OthersOK'
  BY <1>4 DEF IInv, TypeOK, OthersOK
<1>6. QED
  <2> HIDE DEF c1, c2
  <2>1. Handled("A", World("A")) /\ Handled("A", w1) /\ Handled("A", w2)
    BY <1>1, <1>2, <1>3, WorldType, EmptySeq, Remade DEF LiveWorld, Handled
  <2> HIDE DEF w1, w2
  <2>2. QED
    BY <1>1, <1>4, <1>5, <2>1, ProcessedIInv

\* The handler of a window change keeps the invariant.
LEMMA RecvWindowChangeIInv == ASSUME IInv, RecvWindowChange PROVE IInv'
<1>1. "A" \in End /\ pc["A"] = "packet" /\ ch["A"] # NoChannel
  BY DEF End, RecvWindowChange, PacketFor, Packet
<1>2. Handled("A", World("A"))
  BY <1>1, WorldType DEF LiveWorld, Handled
<1>3. OthersOK'
  BY OthersKept DEF RecvWindowChange, env
<1>4. QED
  BY <1>1, <1>2, <1>3, ProcessedIInv DEF RecvWindowChange

\* The handler of an exit status keeps the invariant.
LEMMA RecvExitStatusIInv == ASSUME IInv, RecvExitStatus PROVE IInv'
<1>1. "I" \in End /\ pc["I"] = "packet" /\ ch["I"] # NoChannel
  BY DEF End, RecvExitStatus, PacketFor, Packet
<1>2. Handled("I", World("I"))
  BY <1>1, WorldType DEF LiveWorld, Handled
<1>3. OthersOK'
  BY DEF RecvExitStatus, IInv, TypeOK, OthersOK
<1>4. QED
  BY <1>1, <1>2, <1>3, ProcessedIInv DEF RecvExitStatus

\* A packet for no channel ends the program and changes nothing else.
LEMMA UnknownChannelIInv ==
    ASSUME IInv, NEW e \in End, UnknownChannel(e) PROVE IInv'
BY ExitIInv DEF UnknownChannel

\* Every packet handler keeps the invariant.
LEMMA HandleIInv == ASSUME IInv, NEW e \in End, Handle(e) PROVE IInv'
BY UnknownChannelIInv, RecvOpenIInv, RecvShellIInv, RecvWindowChangeIInv,
   RecvConfirmationIInv, RecvFailureIInv, RecvExitStatusIInv, RecvDataIInv,
   RecvAdjustIInv, RecvEofOrCloseIInv
   DEF Handle, RecvEof, RecvClose

\* select() keeps the invariant: it goes for a packet only if there is one.
LEMMA SelectIInv == ASSUME IInv, NEW e \in End, SelectSome(e) PROVE IInv'
<1>1. PICK packet \in BOOLEAN, reads \in {{}, Readable(e)},
           writes \in SUBSET WantWrite(e) : Select(e, packet, reads, writes)
  BY DEF SelectSome
<1>2. reads \cup writes \in SUBSET {"r", "e", "w", "x"}
  BY DEF Readable, WantRead, WantWrite
<1>3. QED
  BY <1>1, <1>2 DEF Select, IInv, TypeOK, env

\* channelio() without a channel keeps the invariant.
LEMMA NoChannelIOIInv == ASSUME IInv, NEW e \in End, NoChannelIO(e) PROVE IInv'
BY DEF NoChannelIO, IInv, TypeOK, env

\* channelio() on a connecting channel keeps the invariant.
LEMMA ConnectIOIInv == ASSUME IInv, NEW e \in End, ConnectIO(e) PROVE IInv'
<1>1. PICK connected \in BOOLEAN :
        Done(e, CheckInProgress(e, World(e), connected), net[e], "select")
  BY DEF ConnectIO
<1>2. LiveWorld(e, World(e)) /\ World(e).c.initconn
  BY WorldType DEF ConnectIO
<1>3. Handled(e, CheckInProgress(e, World(e), connected))
  BY <1>2, CheckInProgressHandled
<1>4. net[e] \in Seq(Message)
  BY DEF IInv, TypeOK
<1>5. OthersOK'
  BY DEF ConnectIO, env, IInv, TypeOK, OthersOK
<1>6. QED
  BY <1>1, <1>3, <1>4, <1>5, DoneIInv

\* The steps of channelio(), and what is known of each
Steps(e, wlen, xlen, exits, w1, w2, w3, w4, w5, rest) ==
    /\ w1 = ReadStep(e, World(e), "r") /\ w2 = ReadStep(e, w1, "e")
    /\ w3 = WriteStep(e, w2, "w", wlen) /\ w4 = WriteStep(e, w3, "x", xlen)
    /\ w5 = IF DoCheckClose(e, ch[e])
            THEN CheckClose(e, w4, Exited, Exited \/ exits) ELSE w4
    /\ LiveWorld(e, World(e)) /\ World(e).c = ch[e]
    /\ LiveWorld(e, w1) /\ LiveWorld(e, w2) /\ LiveWorld(e, w3) /\ LiveWorld(e, w4)
    /\ Handled(e, w5)
    /\ wlen \in 0 .. w2.c.wbuf /\ xlen \in 0 .. w3.c.xbuf
    /\ exits \in BOOLEAN /\ (exits => DoCheckClose(e, ch[e]))
    /\ ChildExitsMeanwhile(e, exits)
    /\ sigp' = IF e = "A" THEN exits ELSE sigp
    /\ rest = net[e] /\ Done(e, w5, rest, "select")
LEMMA ChannelIOSteps ==
    ASSUME IInv, NEW e \in End, ChannelIO(e)
    PROVE  \E wlen, xlen, exits, w1, w2, w3, w4, w5, rest :
             Steps(e, wlen, xlen, exits, w1, w2, w3, w4, w5, rest)
<1>1. PICK wlen \in Written(e, "w", ch[e].wbuf),
           xlen \in Written(e, "x", ch[e].xbuf), exits \in BOOLEAN :
         LET w1 == ReadStep(e, World(e), "r")
             w2 == ReadStep(e, w1, "e")
             w3 == WriteStep(e, w2, "w", wlen)
             w4 == WriteStep(e, w3, "x", xlen)
             check == DoCheckClose(e, ch[e])
         IN  /\ exits => check
             /\ ChildExitsMeanwhile(e, exits)
             /\ sigp' = IF e = "A" THEN exits ELSE sigp
             /\ Done(e, IF check
                        THEN CheckClose(e, w4, Exited, Exited \/ exits)
                        ELSE w4, net[e], "select")
  BY DEF ChannelIO
<1>2. PICK w1, w2, w3, w4, rest :
         /\ w1 = ReadStep(e, World(e), "r") /\ w2 = ReadStep(e, w1, "e")
         /\ w3 = WriteStep(e, w2, "w", wlen) /\ w4 = WriteStep(e, w3, "x", xlen)
         /\ rest = net[e]
  OBVIOUS
<1>3. PICK w5 : w5 = IF DoCheckClose(e, ch[e])
                     THEN CheckClose(e, w4, Exited, Exited \/ exits) ELSE w4
  OBVIOUS
<1>4. /\ exits => DoCheckClose(e, ch[e])
      /\ ChildExitsMeanwhile(e, exits)
      /\ sigp' = IF e = "A" THEN exits ELSE sigp
      /\ Done(e, w5, rest, "select")
  BY <1>1, <1>2, <1>3
<1>5. LiveWorld(e, World(e)) /\ World(e).c = ch[e]
  BY WorldType DEF ChannelIO
<1>6. /\ LiveWorld(e, w1) /\ w1.c.wbuf = ch[e].wbuf /\ w1.c.xbuf = ch[e].xbuf
      /\ LiveWorld(e, w2) /\ w2.c.wbuf = ch[e].wbuf /\ w2.c.xbuf = ch[e].xbuf
  BY <1>2, <1>5, ReadStepLive
<1>7. wlen \in 0 .. w2.c.wbuf /\ xlen \in 0 .. w2.c.xbuf
  BY <1>6 DEF Written, LiveWorld, Good, Channels
<1>8. LiveWorld(e, w3) /\ w3.c.xbuf = w2.c.xbuf
  BY <1>2, <1>6, <1>7, WriteStepLive
<1>9. LiveWorld(e, w4)
  BY <1>2, <1>7, <1>8, WriteStepLive
<1>10. Handled(e, w5)
  BY <1>3, <1>9, CheckCloseHandled DEF LiveWorld, Handled
<1>. QED  BY <1>2, <1>3, <1>4, <1>5, <1>6, <1>7, <1>8, <1>9, <1>10 DEF Steps

\* channelio() keeps the invariant.
LEMMA ChannelIOIInv == ASSUME IInv, NEW e \in End, ChannelIO(e) PROVE IInv'
<1>0. PICK wlen, xlen, exits, w1, w2, w3, w4, w5, rest :
         Steps(e, wlen, xlen, exits, w1, w2, w3, w4, w5, rest)
  BY ChannelIOSteps
<1>1. /\ Handled(e, w5) /\ Done(e, w5, rest, "select") /\ rest = net[e]
      /\ exits \in BOOLEAN /\ ChildExitsMeanwhile(e, exits)
      /\ sigp' = IF e = "A" THEN exits ELSE sigp
  BY <1>0 DEF Steps
<1>2. rest \in Seq(Message)
  BY <1>1 DEF IInv, TypeOK
<1>3. OthersOK'
  BY <1>1 DEF ChannelIO, ChildExitsMeanwhile, IInv, TypeOK, OthersOK
<1>. QED  BY <1>1, <1>2, <1>3, DoneIInv

\* The local programs touch only their own end of a pipe.
LEMMA ProgramIInv == ASSUME IInv, NEW e \in End, Program(e) PROVE IInv'
<1>1. src[e] \in Sources /\ src \in [End -> Sources]
  BY DEF IInv, TypeOK
<1>2. ASSUME NEW s \in Sources, src' = [src EXCEPT ![e] = s],
             UNCHANGED <<ch, net, pc, sel, sigp, fatal, dropped, delivered>>,
             UNCHANGED env
      PROVE  IInv'
  BY <1>1, <1>2 DEF IInv, TypeOK, env
<1>3. CASE Produce(e)
  <2> DEFINE buf == src[e].buf + 1
             left == src[e].left - 1
             s == [src[e] EXCEPT !.buf = buf, !.left = left]
  <2>1. src[e].buf \in Nat /\ src[e].left \in Nat /\ src[e].left > 0
    BY <1>1, <1>3 DEF Produce, Sources
  <2>2. buf \in Nat /\ left \in Nat
    BY <2>1
  <2>3. src' = [src EXCEPT ![e] = s]
    BY <1>1, <1>3 DEF Produce
  <2> HIDE DEF buf, left
  <2>4. s \in Sources
    BY <1>1, <2>2 DEF Sources
  <2> HIDE DEF s
  <2>5. QED
    BY <1>2, <1>3, <2>3, <2>4 DEF Produce
<1>4. CASE ProduceErr(e)
  <2> DEFINE buf == src[e].ebuf + 1
             left == src[e].eleft - 1
             s == [src[e] EXCEPT !.ebuf = buf, !.eleft = left]
  <2>1. src[e].ebuf \in Nat /\ src[e].eleft \in Nat /\ src[e].eleft > 0
    BY <1>1, <1>4 DEF ProduceErr, Sources
  <2>2. buf \in Nat /\ left \in Nat
    BY <2>1
  <2>3. src' = [src EXCEPT ![e] = s]
    BY <1>1, <1>4 DEF ProduceErr
  <2> HIDE DEF buf, left
  <2>4. s \in Sources
    BY <1>1, <2>2 DEF Sources
  <2> HIDE DEF s
  <2>5. QED
    BY <1>2, <1>4, <2>3, <2>4 DEF ProduceErr
<1>5. CASE CloseSource(e)
  <2>1. [src[e] EXCEPT !.open = FALSE] \in Sources
    BY <1>1 DEF Sources
  <2>2. QED
    BY <1>2, <1>5, <2>1 DEF CloseSource
<1>6. CASE CloseErrSource(e)
  <2>1. [src[e] EXCEPT !.eopen = FALSE] \in Sources
    BY <1>1 DEF Sources
  <2>2. QED
    BY <1>2, <1>6, <2>1 DEF CloseErrSource
<1>7. CASE \E f \in {"w", "x"} : SinkBreaks(e, f)
  <2>1. PICK f \in {"w", "x"} : SinkBreaks(e, f)
    BY <1>7
  <2>2. broken[e] \cup {f} \in SUBSET {"w", "x"}
    BY <2>1 DEF IInv, TypeOK
  <2>3. broken' \in [End -> SUBSET {"w", "x"}]
    BY <2>1, <2>2 DEF SinkBreaks, IInv, TypeOK
  <2>4. QED
    BY <2>1, <2>3 DEF SinkBreaks, IInv, TypeOK
<1>8. QED
  BY <1>3, <1>4, <1>5, <1>6, <1>7 DEF Program

\* The exit of the shell keeps the invariant.
LEMMA ChildExitIInv == ASSUME IInv, ChildExit PROVE IInv'
BY DEF ChildExit, IInv, TypeOK

\* Without channels there is nothing to account for.
LEMMA InitIInv == ASSUME Init PROVE IInv
<1>1. <<>> \in Seq(Message)
  BY EmptySeq
<1>2. \A e \in End : [buf |-> 0, left |-> MaxOut[e], open |-> TRUE,
                      ebuf |-> 0, eleft |-> MaxErr[e], eopen |-> TRUE] \in Sources
  BY BoundAssumption DEF Sources
<1>3. QED
  BY <1>1, <1>2 DEF Init, IInv, TypeOK

\* Every step keeps the invariant.
LEMMA NextIInv == ASSUME IInv, [Next]_vars PROVE IInv'
<1>1. CASE UNCHANGED vars
  BY <1>1 DEF vars, IInv, TypeOK
<1>2. CASE Next
  BY <1>2, SendOpenIInv, WindowChangeIInv, ChildExitIInv, SelectIInv, HandleIInv,
     NoChannelIOIInv, ConnectIOIInv, ChannelIOIInv, ProgramIInv
     DEF Next, IO
<1>3. QED
  BY <1>1, <1>2

\* The inductive invariant holds in every reachable state of two dropbear ends,
\* whatever their types, windows and programs.
THEOREM Invariance == Spec => []IInv
<1>1. Init => IInv
  BY InitIInv
<1>2. IInv /\ [Next]_vars => IInv'
  BY NextIInv
<1>3. QED
  BY <1>1, <1>2, PTL DEF Spec

\* Every variable of the channel model keeps its type: no counter of the code
\* goes below zero, for windows and packets of any size.
THEOREM TypeCorrect == Spec => []TypeOK
<1>1. IInv => TypeOK
  BY DEF IInv
<1>2. QED
  BY <1>1, Invariance, PTL

\* An end's account of its receive window is exact at every moment: bytes
\* offered, buffered and written out but not given back fill the window, so
\* writebuf and extrabuf never take more than they hold.
THEOREM CreditAccounted == Spec => []WindowAccounted
<1>1. IInv => WindowAccounted
  BY DEF IInv, Good, Accounted, WindowAccounted, Live
<1>2. QED
  BY <1>1, Invariance, PTL

---------------------------------------------------------------------------
(***************************************************************************)
(* What one end of a channel says, in which order, and what the other end  *)
(* has left to read: no packet of a channel follows its CLOSE, no data its *)
(* EOF, and a server's CLOSE of a session brings the exit status with it.  *)
(*                                                                         *)
(* The argument links what is under way to an end with the channels at     *)
(* both ends (Link).  Every C function that sends says only what its       *)
(* channel may still say (Speaks), and what is said at one end and read at *)
(* the other keeps the link.  How the channel comes to be, up to the       *)
(* confirmation and the request for a shell, needs an account of its own   *)
(* (Opening): before them neither end has anything to say.                 *)
(***************************************************************************)

\* Packet t may follow s on the wire.  A window change comes from a timer of
\* the client and may follow its CLOSE.
After(s, t) ==
    /\ t \notin {"open", "shell", "confirm", "failure"} /\ s # "failure"
    /\ s = "close" => t = "winch"
    /\ s = "eof" => t \notin {"data", "ext"}
Ordered(q) == \A i, j \in 1..Len(q) : i < j => After(q[i].t, q[j].t)
Types(q) == {q[i].t : i \in 1..Len(q)}

\* A channel by itself: after EOF nothing is left to read, after CLOSE no
\* descriptor is open and the close handler has run, not before.
FdOK(e, c) ==
    /\ c.sent_eof => c.readfd < 0 /\ (c.extra \/ c.errfd < 0)
    /\ c.sent_close => /\ c.sent_eof /\ c.writefd < 0 /\ c.errfd < 0
                       /\ HasCloseHandler(e) => c.close_handler_done
    /\ c.close_handler_done => c.sent_close
    /\ c.recv_close => c.recv_eof
    /\ SepFds(e) => c.errfd < 0 /\ ~c.extra

\* Packets q are under way from an end with channel s to one with channel c.
Link(q, c, s) ==
    /\ Ordered(q)
    /\ c # NoChannel =>
         /\ c.recv_close => Types(q) \subseteq {"winch"}
         /\ c.recv_eof => Types(q) \cap {"data", "ext"} = {}
    /\ s # NoChannel =>
         /\ "failure" \notin Types(q)
         /\ ~s.sent_close => /\ "close" \notin Types(q)
                             /\ c # NoChannel => ~c.recv_close
         /\ ~s.sent_eof => /\ "eof" \notin Types(q)
                           /\ c # NoChannel => ~c.recv_eof

---------------------------------------------------------------------------
(* Packets in a row *)

LEMMA OrderNone == Ordered(<<>>) /\ Types(<<>>) = {}
BY DEF Ordered, Types

LEMMA OrderOne ==
    ASSUME NEW m
    PROVE  Ordered(<<m>>) /\ Types(<<m>>) = {m.t}
BY DEF Ordered, Types

LEMMA OrderJoined ==
    ASSUME NEW q \in Seq(Message), NEW r \in Seq(Message)
    PROVE  /\ Types(q \o r) = Types(q) \cup Types(r)
           /\ Ordered(q) /\ Ordered(r) /\ (\A s \in Types(q), t \in Types(r) : After(s, t))
              => Ordered(q \o r)
<1>1. /\ Len(q) \in Nat /\ Len(r) \in Nat /\ Len(q \o r) = Len(q) + Len(r)
      /\ \A i \in 1..Len(q) : (q \o r)[i] = q[i]
      /\ \A i \in 1..Len(r) : (q \o r)[Len(q) + i] = r[i]
  BY ConcatProperties, LenProperties
<1>2. PICK p : p = q \o r
  OBVIOUS
<1>3. PICK a : a = Len(q)
  OBVIOUS
<1>4. PICK b : b = Len(r)
  OBVIOUS
<1>5. /\ a \in Nat /\ b \in Nat /\ Len(p) = a + b
      /\ \A i \in 1..a : p[i] = q[i]
      /\ \A i \in 1..b : p[a + i] = r[i]
  BY <1>1, <1>2, <1>3, <1>4
<1>6. \A i \in 1..Len(p) : i \in 1..a \/ (i - a \in 1..b /\ i = a + (i - a))
  BY <1>5
<1>7. \A i \in 1..a : i \in 1..Len(p)
  BY <1>5
<1>8. \A i \in 1..b : a + i \in 1..Len(p)
  BY <1>5
<1>9. Types(p) = Types(q) \cup Types(r)
  <2>1. ASSUME NEW i \in 1..Len(p) PROVE p[i].t \in Types(q) \cup Types(r)
    <3>1. CASE i \in 1..a
      BY <3>1, <1>5, <1>3 DEF Types
    <3>2. CASE i - a \in 1..b /\ i = a + (i - a)
      BY <3>2, <1>5, <1>4 DEF Types
    <3>. QED  BY <3>1, <3>2, <1>6
  <2>2. ASSUME NEW i \in 1..a PROVE q[i].t \in Types(p)
    BY <1>5, <1>7 DEF Types
  <2>3. ASSUME NEW i \in 1..b PROVE r[i].t \in Types(p)
    BY <1>5, <1>8 DEF Types
  <2>. QED  BY <2>1, <2>2, <2>3, <1>3, <1>4 DEF Types
<1>10. ASSUME Ordered(q), Ordered(r),
              \A s \in Types(q), t \in Types(r) : After(s, t),
              NEW i \in 1..Len(p), NEW j \in 1..Len(p), i < j
       PROVE  After(p[i].t, p[j].t)
  <2>1. CASE j \in 1..a
    <3>1. i \in 1..a
      BY <2>1, <1>5, <1>10
    <3>. QED  BY <2>1, <3>1, <1>5, <1>10, <1>3 DEF Ordered
  <2>2. CASE i \in 1..a /\ j - a \in 1..b /\ j = a + (j - a)
    BY <2>2, <1>5, <1>10, <1>3, <1>4 DEF Types
  <2>3. CASE i - a \in 1..b /\ i = a + (i - a) /\ j - a \in 1..b /\ j = a + (j - a)
    <3>1. i - a < j - a
      BY <2>3, <1>5, <1>10
    <3>2. p[i] = r[i - a] /\ p[j] = r[j - a]
      BY <2>3, <1>5
    <3>. QED  BY <2>3, <3>1, <3>2, <1>10, <1>4 DEF Ordered
  <2>. QED  BY <2>1, <2>2, <2>3, <1>6
<1>. QED  BY <1>2, <1>9, <1>10 DEF Ordered

LEMMA OrderAppended ==
    ASSUME NEW q \in Seq(Message), NEW m \in Message
    PROVE  /\ Types(Append(q, m)) = Types(q) \cup {m.t}
           /\ Ordered(q) /\ (\A s \in Types(q) : After(s, m.t))
              => Ordered(Append(q, m))
<1>1. <<m>> \in Seq(Message) /\ Append(q, m) = q \o <<m>>
  BY AppendIsConcat
<1>. QED  BY <1>1, OrderOne, OrderJoined

LEMMA OrderTaken ==
    ASSUME NEW q \in Seq(Message), q # <<>>
    PROVE  /\ Tail(q) \in Seq(Message) /\ Head(q) \in Message
           /\ Types(q) = {Head(q).t} \cup Types(Tail(q))
           /\ Ordered(q) => /\ Ordered(Tail(q))
                            /\ \A t \in Types(Tail(q)) : After(Head(q).t, t)
<1>1. PICK n : n = Len(q)
  OBVIOUS
<1>2. PICK r : r = Tail(q)
  OBVIOUS
<1>3. /\ n \in Nat \ {0} /\ r \in Seq(Message) /\ Len(r) = n - 1
      /\ Head(q) = q[1] /\ q[1] \in Message
      /\ \A i \in 1..n - 1 : r[i] = q[i + 1]
  <2>1. n \in Nat /\ n # 0
    BY <1>1, LenProperties, EmptySeq
  <2>. QED  BY <2>1, <1>1, <1>2, HeadTailProperties
<1>4. \A i \in 1..n : i = 1 \/ (i - 1 \in 1..n - 1 /\ i = (i - 1) + 1)
  BY <1>3
<1>5. \A i \in 1..n - 1 : i + 1 \in 1..n /\ 1 < i + 1
  BY <1>3
<1>6. Types(q) = {q[1].t} \cup Types(r)
  <2>1. ASSUME NEW i \in 1..n PROVE q[i].t \in {q[1].t} \cup Types(r)
    BY <1>3, <1>4 DEF Types
  <2>2. ASSUME NEW i \in 1..n - 1 PROVE r[i].t \in Types(q)
    BY <1>1, <1>3, <1>5 DEF Types
  <2>3. q[1].t \in Types(q)
    BY <1>1, <1>3 DEF Types
  <2>. QED  BY ZenonT(60), <2>1, <2>2, <2>3, <1>1, <1>3 DEF Types
<1>7. ASSUME Ordered(q) PROVE Ordered(r)
  <2>. SUFFICES ASSUME NEW i \in 1..n - 1, NEW j \in 1..n - 1, i < j
                PROVE  After(r[i].t, r[j].t)
    BY <1>3 DEF Ordered
  <2>1. i + 1 < j + 1
    BY <1>3
  <2>. QED  BY <2>1, <1>1, <1>3, <1>5, <1>7 DEF Ordered
<1>8. ASSUME Ordered(q), NEW t \in Types(r) PROVE After(q[1].t, t)
  <2>1. PICK i \in 1..n - 1 : t = r[i].t
    BY <1>3 DEF Types
  <2>2. 1 \in 1..n
    BY <1>3
  <2>. QED  BY <2>1, <2>2, <1>1, <1>3, <1>5, <1>8 DEF Ordered
<1>. QED  BY <1>2, <1>3, <1>6, <1>7, <1>8

---------------------------------------------------------------------------
(* What the functions of an end say *)

Data == {"data", "ext"}
Talk == Data \cup {"adjust", "eof", "exit", "close"}

\* Packets q come from an end whose channel was c when it began to speak.
Told(e, c, q) ==
    /\ Ordered(q) /\ Types(q) \subseteq Talk
    /\ c.sent_close => q = <<>>
    /\ c.sent_eof => Types(q) \cap Data = {}
    /\ HasCheckClose(e) /\ "close" \in Types(q) => "exit" \in Types(q)

\* What speaking leaves of a channel c, once q is said.
Kept(e, c, d, q) ==
    /\ FdOK(e, d)
    /\ d.recv_eof = c.recv_eof /\ d.recv_close = c.recv_close
    /\ d.await_open = c.await_open /\ d.initconn = c.initconn
    /\ c.sent_eof => d.sent_eof
    /\ c.sent_close => d.sent_close
    /\ "eof" \in Types(q) => d.sent_eof
    /\ "close" \in Types(q) => d.sent_close

Speaks(e, c, w) ==
    LiveWorld(e, w) /\ Told(e, c, w.q) /\ Kept(e, c, w.c, w.q)

\* Or the channel is removed, which it is when the peer's CLOSE has come.
Spoken(e, c, w) ==
    /\ w.q \in Seq(Message) /\ Told(e, c, w.q)
    /\ w.c = NoChannel => c.recv_close
    /\ w.c # NoChannel => Kept(e, c, w.c, w.q)

LEMMA WorldFields ==
    ASSUME NEW e, NEW w, LiveWorld(e, w)
    PROVE  w.q \in Seq(Message) /\ w.c \in Channels /\ w.c # NoChannel
BY NoChannelAssumption DEF LiveWorld, Worlds, Good

\* What may still be said on a channel.
LEMMA MaySay ==
    ASSUME NEW e, NEW c, NEW d, NEW q \in Seq(Message), NEW m \in Message,
           Told(e, c, q), Kept(e, c, d, q), ~d.sent_close, m.t \in Talk,
           m.t \in Data => ~d.sent_eof,
           HasCheckClose(e) /\ m.t = "close" => "exit" \in Types(q)
    PROVE  Told(e, c, Append(q, m)) /\ Types(Append(q, m)) = Types(q) \cup {m.t}
<1>1. \A s \in Types(q) : After(s, m.t)
  BY DEF Told, Kept, After, Talk, Data
<1>2. Ordered(Append(q, m)) /\ Types(Append(q, m)) = Types(q) \cup {m.t}
  BY <1>1, OrderAppended DEF Told
<1>3. ~c.sent_close /\ (c.sent_eof => m.t \notin Data)
  BY DEF Kept
<1>. QED  BY <1>2, <1>3 DEF Told

\* A descriptor is closed: nothing else changes, and nothing opens.
LEMMA CloseFdKeeps ==
    ASSUME NEW e \in End, NEW c \in Channels, NEW fd, NEW how
    PROVE  LET d == CloseChanFd(e, c, fd, how)
           IN  /\ d \in Channels
               /\ \A g \in {"sent_eof", "recv_eof", "sent_close", "recv_close",
                            "await_open", "initconn", "close_handler_done",
                            "flushing", "extra", "transwindow"} : d[g] = c[g]
               /\ \A f \in {"readfd", "writefd", "errfd"} :
                     d[f] = c[f] \/ d[f] < 0
               /\ how = "RD" \/ ~SepFds(e) => (fd = c.readfd => d.readfd < 0)
               /\ how # "RD" \/ ~SepFds(e) => (fd = c.writefd => d.writefd < 0)
               /\ ~SepFds(e) => (fd = c.errfd => d.errfd < 0)
<1>. DEFINE d == CloseChanFd(e, c, fd, how)
<1>1. d \in Channels
  BY DEF CloseChanFd, Channels, Fd, FD_CLOSED
<1>2. \A g \in {"sent_eof", "recv_eof", "sent_close", "recv_close",
                "await_open", "initconn", "close_handler_done",
                "flushing", "extra", "transwindow"} : d[g] = c[g]
  BY DEF CloseChanFd, Channels
<1>3. \A f \in {"readfd", "writefd", "errfd"} : d[f] = c[f] \/ d[f] < 0
  <2>1. d.readfd = c.readfd \/ d.readfd = FD_CLOSED
    BY DEF CloseChanFd, Channels
  <2>2. d.writefd = c.writefd \/ d.writefd = FD_CLOSED
    BY DEF CloseChanFd, Channels
  <2>3. d.errfd = c.errfd \/ d.errfd = FD_CLOSED
    BY DEF CloseChanFd, Channels
  <2>. QED  BY <2>1, <2>2, <2>3 DEF FD_CLOSED
<1>4. how = "RD" \/ ~SepFds(e) => (fd = c.readfd => d.readfd < 0)
  BY DEF CloseChanFd, Channels, FD_CLOSED
<1>5. how # "RD" \/ ~SepFds(e) => (fd = c.writefd => d.writefd < 0)
  BY DEF CloseChanFd, Channels, FD_CLOSED
<1>6. ~SepFds(e) => (fd = c.errfd => d.errfd < 0)
  BY DEF CloseChanFd, Channels, FD_CLOSED
<1>. QED  BY <1>1, <1>2, <1>3, <1>4, <1>5, <1>6

\* What closes a descriptor says nothing.
LEMMA FdClosedKept ==
    ASSUME NEW e \in End, NEW c, NEW d, NEW q, d \in Channels, Kept(e, c, d, q),
           NEW fd, NEW how
    PROVE  /\ Kept(e, c, CloseChanFd(e, d, fd, how), q)
           /\ CloseChanFd(e, d, fd, how).sent_close = d.sent_close
           /\ CloseChanFd(e, d, fd, how).sent_eof = d.sent_eof
<1>1. PICK n : n = CloseChanFd(e, d, fd, how)
  OBVIOUS
<1>2. /\ n.sent_eof = d.sent_eof /\ n.recv_eof = d.recv_eof
      /\ n.sent_close = d.sent_close /\ n.recv_close = d.recv_close
      /\ n.await_open = d.await_open /\ n.initconn = d.initconn
      /\ n.close_handler_done = d.close_handler_done /\ n.extra = d.extra
      /\ n.readfd = d.readfd \/ n.readfd < 0
      /\ n.writefd = d.writefd \/ n.writefd < 0
      /\ n.errfd = d.errfd \/ n.errfd < 0
  BY <1>1, CloseFdKeeps
<1>3. Kept(e, c, n, q)
  BY <1>2 DEF Kept, FdOK
<1>. QED  BY <1>1, <1>2, <1>3

LEMMA FdClosedSpeaks ==
    ASSUME NEW e \in End, NEW c, NEW w, Speaks(e, c, w), NEW fd, NEW how
    PROVE  LET v == [w EXCEPT !.c = CloseChanFd(e, w.c, fd, how)]
           IN  Speaks(e, c, v) /\ (w.c.sent_close => v.c.sent_close)
<1>1. PICK d : d = CloseChanFd(e, w.c, fd, how)
  OBVIOUS
<1>2. w \in Worlds /\ Good(e, w.c) /\ w.c \in Channels
  BY DEF Speaks, LiveWorld, Good
<1>3. Good(e, d)
  BY <1>1, <1>2, CloseFd
<1>4. Kept(e, c, d, w.q) /\ d.sent_close = w.c.sent_close
  BY <1>1, <1>2, FdClosedKept DEF Speaks
<1>5. PICK v : v = [w EXCEPT !.c = d]
  OBVIOUS
<1>6. v \in Worlds /\ v.c = d /\ v.q = w.q
  BY <1>2, <1>3, <1>5 DEF Worlds, Good
<1>. QED  BY <1>1, <1>3, <1>4, <1>5, <1>6 DEF Speaks, LiveWorld

\* send_msg_channel_eof()
LEMMA SendEofSpeaks ==
    ASSUME NEW e \in End, NEW c, NEW w, Speaks(e, c, w),
           ~w.c.sent_eof, NothingMoreToSend(w.c)
    PROVE  Speaks(e, c, SendEof(w)) /\ (w.c.sent_close => SendEof(w).c.sent_close)
<1>1. PICK m : m = Msg("eof", 0)
  OBVIOUS
<1>2. m \in Message /\ m.t = "eof"
  BY <1>1, MsgMessage DEF Msg, MsgType
<1>3. PICK v : v = SendEof(w)
  OBVIOUS
<1>4. LiveWorld(e, v)
  BY <1>3, SendEofLive DEF Speaks
<1>5. w.q \in Seq(Message) /\ w.c \in Channels /\ w \in Worlds
  BY WorldFields DEF Speaks, LiveWorld
<1>6. v.q = Append(w.q, m) /\ v.c = [w.c EXCEPT !.sent_eof = TRUE]
  BY <1>1, <1>3, <1>5 DEF SendEof, Worlds
<1>7. ~w.c.sent_close
  BY DEF Speaks, Kept, FdOK
<1>8. Told(e, c, v.q) /\ Types(v.q) = Types(w.q) \cup {"eof"}
  BY <1>2, <1>5, <1>6, <1>7, MaySay DEF Speaks, Talk, Data
<1>9. w.c.readfd < 0 /\ (w.c.extra \/ w.c.errfd < 0)
  BY DEF NothingMoreToSend, FD_CLOSED, ErrIsWrite
<1>10. PICK d : d = v.c
  OBVIOUS
<1>11. /\ d.sent_eof /\ d.recv_eof = w.c.recv_eof /\ d.sent_close = w.c.sent_close
       /\ d.recv_close = w.c.recv_close /\ d.await_open = w.c.await_open
       /\ d.initconn = w.c.initconn /\ d.extra = w.c.extra
       /\ d.close_handler_done = w.c.close_handler_done
       /\ d.readfd = w.c.readfd /\ d.writefd = w.c.writefd /\ d.errfd = w.c.errfd
  BY <1>5, <1>6, <1>10 DEF Channels
<1>12. Kept(e, c, d, v.q)
  BY <1>7, <1>8, <1>9, <1>11 DEF Speaks, Kept, FdOK
<1>. QED  BY <1>3, <1>4, <1>7, <1>8, <1>10, <1>12 DEF Speaks

\* send_msg_channel_close(), for a session with the exit status of its child
LEMMA SendCloseSpeaks ==
    ASSUME NEW e \in End, NEW c, NEW w, Speaks(e, c, w), NEW exited,
           ~w.c.sent_close, HasCheckClose(e) => exited
    PROVE  Speaks(e, c, SendClose(e, w, exited)) /\ SendClose(e, w, exited).c.sent_close
<1>. DEFINE w1 == RunCloseHandler(e, w, exited)
            c1 == Closed(w1.c)
            c2 == CloseChanFd(e, c1, c1.readfd, "RD")
            c3 == CloseChanFd(e, c2, c2.errfd, "RDWR")
            c4 == CloseChanFd(e, c3, c3.writefd, "WR")
<1>1. PICK x : x = Msg("exit", 0)
  OBVIOUS
<1>2. PICK m : m = Msg("close", 0)
  OBVIOUS
<1>3. m \in Message /\ m.t = "close" /\ x \in Message /\ x.t = "exit"
  BY <1>1, <1>2, MsgMessage DEF Msg, MsgType
<1>4. /\ w.q \in Seq(Message) /\ w.c \in Channels /\ w \in Worlds
      /\ Told(e, c, w.q) /\ Kept(e, c, w.c, w.q)
      /\ ~w.c.close_handler_done /\ (SepFds(e) => w.c.errfd < 0 /\ ~w.c.extra)
      /\ w.c.recv_close => w.c.recv_eof
  BY WorldFields DEF Speaks, LiveWorld, Kept, FdOK
<1>5. /\ LiveWorld(e, w1) /\ w1.q \in Seq(Message) /\ Told(e, c, w1.q)
      /\ HasCheckClose(e) => "exit" \in Types(w1.q)
      /\ \A t \in Types(w1.q) : t \in Types(w.q) \/ t = "exit"
      /\ HasCloseHandler(e) => w1.c.close_handler_done
      /\ \A g \in {"sent_eof", "recv_eof", "sent_close", "recv_close", "await_open",
                   "initconn", "extra", "readfd", "writefd", "errfd"} :
            w1.c[g] = w.c[g]
  <2>1. LiveWorld(e, w1)
    BY RunCloseHandlerLive DEF Speaks
  <2>2. CASE ~HasCloseHandler(e)
    <3>1. w1 = w /\ ~HasCheckClose(e)
      BY <2>2, <1>4 DEF RunCloseHandler, HasCheckClose, HasCloseHandler
    <3>. QED  BY <3>1, <2>1, <2>2, <1>4
  <2>3. CASE HasCloseHandler(e)
    <3>1. w1 = [w EXCEPT !.q = IF HasCheckClose(e) /\ exited
                               THEN Append(@, x) ELSE @,
                         !.c.close_handler_done = TRUE]
      BY <2>3, <1>1, <1>4 DEF RunCloseHandler
    <3>2. /\ w1.q = IF HasCheckClose(e) THEN Append(w.q, x) ELSE w.q
          /\ w1.c = [w.c EXCEPT !.close_handler_done = TRUE]
      BY <3>1, <1>4 DEF Worlds
    <3>3. Told(e, c, Append(w.q, x)) /\ Types(Append(w.q, x)) = Types(w.q) \cup {"exit"}
      BY <1>3, <1>4, MaySay DEF Talk, Data
    <3>4. w1.q \in Seq(Message)
      BY <2>1, WorldFields
    <3>5. /\ w1.c.close_handler_done
          /\ \A g \in {"sent_eof", "recv_eof", "sent_close", "recv_close", "await_open",
                       "initconn", "extra", "readfd", "writefd", "errfd"} :
                w1.c[g] = w.c[g]
      BY <3>2, <1>4 DEF Channels
    <3>. HIDE DEF w1
    <3>. QED  BY <3>2, <3>3, <3>4, <3>5, <2>1, <1>4
  <2>. QED  BY <2>2, <2>3
<1>. HIDE DEF w1
<1>6. w1.c \in Channels /\ w1 \in Worlds
  BY <1>5, WorldFields DEF LiveWorld
<1>7. /\ c1 \in Channels /\ c1.sent_eof /\ c1.sent_close
      /\ c1.close_handler_done = w1.c.close_handler_done
      /\ \A g \in {"recv_eof", "recv_close", "await_open",
                   "initconn", "extra", "readfd", "writefd", "errfd"} :
            c1[g] = w.c[g]
  BY <1>5, <1>6 DEF Closed, Channels
<1>. HIDE DEF c1
<1>8. /\ c2 \in Channels /\ c2.readfd < 0
      /\ c2.errfd = c1.errfd \/ c2.errfd < 0
      /\ \A g \in {"sent_eof", "recv_eof", "sent_close", "recv_close",
                   "await_open", "initconn", "close_handler_done", "extra"} :
            c2[g] = c1[g]
  BY <1>7, CloseFdKeeps
<1>. HIDE DEF c2
<1>9. /\ c3 \in Channels /\ c3.readfd < 0 /\ c3.errfd < 0
      /\ \A g \in {"sent_eof", "recv_eof", "sent_close", "recv_close",
                   "await_open", "initconn", "close_handler_done", "extra"} :
            c3[g] = c2[g]
  <2>1. SepFds(e) => c2.errfd < 0
    BY <1>4, <1>7, <1>8
  <2>2. /\ c3 \in Channels
        /\ c3.readfd = c2.readfd \/ c3.readfd < 0
        /\ c3.errfd = c2.errfd \/ c3.errfd < 0
        /\ ~SepFds(e) => c3.errfd < 0
        /\ \A g \in {"sent_eof", "recv_eof", "sent_close", "recv_close",
                     "await_open", "initconn", "close_handler_done", "extra"} :
              c3[g] = c2[g]
    BY <1>8, CloseFdKeeps
  <2>. HIDE DEF c3
  <2>. QED  BY <2>1, <2>2, <1>8
<1>. HIDE DEF c3
<1>10. /\ c4 \in Channels /\ c4.writefd < 0
       /\ c4.readfd = c3.readfd \/ c4.readfd < 0
       /\ c4.errfd = c3.errfd \/ c4.errfd < 0
       /\ \A g \in {"sent_eof", "recv_eof", "sent_close", "recv_close",
                    "await_open", "initconn", "close_handler_done", "extra"} :
             c4[g] = c3[g]
  BY <1>9, CloseFdKeeps
<1>. HIDE DEF c4
<1>11. /\ c4.sent_eof /\ c4.sent_close /\ c4.readfd < 0 /\ c4.errfd < 0
       /\ c4.writefd < 0 /\ c4.close_handler_done = w1.c.close_handler_done
       /\ c4.recv_eof = w.c.recv_eof /\ c4.recv_close = w.c.recv_close
       /\ c4.await_open = w.c.await_open /\ c4.initconn = w.c.initconn
       /\ c4.extra = w.c.extra
  BY <1>7, <1>8, <1>9, <1>10
<1>12. PICK v : v = SendClose(e, w, exited)
  OBVIOUS
<1>13. LiveWorld(e, v)
  BY <1>12, SendCloseLive DEF Speaks
<1>14. v = [w1 EXCEPT !.q = Append(@, m), !.c = c4]
  BY <1>2, <1>12 DEF SendClose, w1, c1, c2, c3, c4
<1>15. v.q = Append(w1.q, m) /\ v.c = c4
  BY <1>6, <1>14 DEF Worlds
<1>16. Told(e, c, v.q) /\ Types(v.q) = Types(w1.q) \cup {"close"}
  <2>1. PICK d : d = w.c
    OBVIOUS
  <2>2. Kept(e, c, d, w1.q) /\ ~d.sent_close
    BY <2>1, <1>4, <1>5 DEF Kept
  <2>. QED  BY <2>2, <1>3, <1>5, <1>15, MaySay DEF Talk, Data
<1>17. Kept(e, c, c4, v.q)
  <2>1. FdOK(e, c4)
    BY <1>4, <1>5, <1>11 DEF FdOK
  <2>. QED  BY <2>1, <1>4, <1>11 DEF Kept
<1>. QED  BY <1>11, <1>12, <1>13, <1>15, <1>16, <1>17 DEF Speaks

\* Descriptors are numbers.
LEMMA FdNumbers ==
    ASSUME NEW c \in Channels
    PROVE  c.readfd \in Int /\ c.writefd \in Int /\ c.errfd \in Int
BY DEF Channels, Fd, FD_UNINIT, FD_CLOSED, STDIN, STDOUT, STDERR, SOCKFD,
       PTYFD, PIPEIN, PIPEOUT, PIPEERR

\* send_msg_channel_data() reads a descriptor that is open, so no EOF is out.
LEMMA SendDataSpeaks ==
    ASSUME NEW e \in End, NEW c, NEW w, Speaks(e, c, w),
           NEW isextended \in BOOLEAN,
           IF isextended THEN ErrIsRead(w.c) /\ w.c.errfd >= 0
                         ELSE w.c.readfd >= 0
    PROVE  /\ Speaks(e, c, SendData(e, w, isextended))
           /\ SendData(e, w, isextended).c.sent_close = w.c.sent_close
<1>. DEFINE fd     == IF isextended THEN w.c.errfd ELSE w.c.readfd
            avail  == IF isextended THEN w.src.ebuf ELSE w.src.buf
            len    == MinOf(avail, MaxLen(w.c))
            sent   == [w.c EXCEPT !.transwindow = @ - len]
            c1     == IF DrainedBy(w.c, len) THEN CloseChanFd(e, sent, fd, "RD")
                                             ELSE sent
            m      == Msg(IF isextended THEN "ext" ELSE "data", len)
<1>1. PICK v : v = SendData(e, w, isextended)
  OBVIOUS
<1>2. LiveWorld(e, v)
  BY <1>1, SendDataLive DEF Speaks
<1>3. /\ w.q \in Seq(Message) /\ w.c \in Channels /\ w \in Worlds
      /\ w.src \in Sources /\ Told(e, c, w.q) /\ Kept(e, c, w.c, w.q)
  BY WorldFields DEF Speaks, LiveWorld, Worlds
<1>4. ~w.c.sent_eof /\ ~w.c.sent_close
  <2>1. w.c.readfd \in Int /\ w.c.errfd \in Int
    BY <1>3, FdNumbers
  <2>. QED  BY <1>3, <2>1 DEF Kept, FdOK, ErrIsRead
<1>5. \/ v = [w EXCEPT !.bad = TRUE]
      \/ v = w
      \/ v = [w EXCEPT !.c = CloseChanFd(e, w.c, fd, "RD")]
      \/ \E s : v = [w EXCEPT !.q = Append(@, m), !.src = s, !.c = c1]
  <2>1. \/ v = [w EXCEPT !.bad = TRUE]
        \/ v = w
        \/ v = [w EXCEPT !.c = CloseChanFd(e, w.c, fd, "RD")]
        \/ v = [w EXCEPT !.q = Append(@, m),
                         !.src.buf  = IF isextended THEN @ ELSE @ - len,
                         !.src.ebuf = IF isextended THEN @ - len ELSE @,
                         !.c = c1]
    BY <1>1 DEF SendData
  <2>. HIDE DEF m, c1, len, fd
  <2>2. ASSUME v = [w EXCEPT !.q = Append(@, m),
                             !.src.buf  = IF isextended THEN @ ELSE @ - len,
                             !.src.ebuf = IF isextended THEN @ - len ELSE @,
                             !.c = c1]
        PROVE  v = [w EXCEPT !.q = Append(@, m), !.src = v.src, !.c = c1]
    BY <2>2, <1>3 DEF Worlds
  <2>. QED  BY <2>1, <2>2
<1>6. CASE v = [w EXCEPT !.bad = TRUE] \/ v = w
  <2>1. v.q = w.q /\ v.c = w.c
    BY <1>3, <1>6 DEF Worlds
  <2>. QED  BY <1>1, <1>2, <1>3, <2>1 DEF Speaks
<1>7. CASE v = [w EXCEPT !.c = CloseChanFd(e, w.c, fd, "RD")]
  <2>. HIDE DEF fd
  <2>1. v.q = w.q /\ v.c = CloseChanFd(e, w.c, fd, "RD")
    BY <1>3, <1>7 DEF Worlds
  <2>2. Kept(e, c, v.c, w.q) /\ v.c.sent_close = w.c.sent_close
    BY <1>3, <2>1, FdClosedKept
  <2>. QED  BY <1>1, <1>2, <1>3, <2>1, <2>2 DEF Speaks
<1>8. CASE \E s : v = [w EXCEPT !.q = Append(@, m), !.src = s, !.c = c1]
  <2>1. len \in Nat /\ len <= w.c.transwindow
    <3>1. avail \in Nat /\ w.c.transwindow \in Nat /\ MaxPacket \in Nat
      BY <1>3, WindowAssumption DEF Sources, Channels
    <3>. HIDE DEF avail
    <3>. QED  BY <3>1 DEF MaxLen, MinOf
  <2>2. m \in Message /\ m.t \in Data
    BY <2>1, MsgMessage DEF Msg, MsgType, Data
  <2>3. /\ sent \in Channels
        /\ \A g \in {"sent_eof", "recv_eof", "sent_close", "recv_close",
                     "await_open", "initconn", "close_handler_done", "extra",
                     "readfd", "writefd", "errfd"} : sent[g] = w.c[g]
    <3>. HIDE DEF len
    <3>1. w.c.transwindow \in Nat /\ w.c.transwindow - len \in Nat
      BY <1>3, <2>1 DEF Channels
    <3>. QED  BY <1>3, <3>1 DEF Channels
  <2>. HIDE DEF m, len, sent, fd
  <2>4. Kept(e, c, sent, w.q)
    <3>1. FdOK(e, sent)
      BY <1>3, <2>3 DEF Kept, FdOK
    <3>. QED  BY <1>3, <2>3, <3>1 DEF Kept
  <2>5. Kept(e, c, c1, w.q) /\ c1.sent_close = w.c.sent_close /\ c1.sent_eof = w.c.sent_eof
    BY <2>3, <2>4, FdClosedKept
  <2>. HIDE DEF c1
  <2>6. v.q = Append(w.q, m) /\ v.c = c1
    BY <1>3, <1>8 DEF Worlds
  <2>7. Told(e, c, v.q) /\ Types(v.q) = Types(w.q) \cup {m.t}
    BY <1>3, <1>4, <2>2, <2>6, MaySay DEF Data, Talk
  <2>8. Kept(e, c, c1, v.q)
    BY <2>2, <2>5, <2>7 DEF Kept, Data
  <2>. QED  BY <1>1, <1>2, <2>5, <2>6, <2>7, <2>8 DEF Speaks
<1>. QED  BY <1>5, <1>6, <1>7, <1>8

\* The two reads of a flush
LEMMA FlushSpeaks ==
    ASSUME NEW e \in End, NEW c, NEW w, Speaks(e, c, w)
    PROVE  Speaks(e, c, Flush(e, w)) /\ Flush(e, w).c.sent_close = w.c.sent_close
<1>. DEFINE w1 == IF w.c.flushing /\ w.c.readfd >= 0 /\ w.c.transwindow > 0
                  THEN SendData(e, w, FALSE) ELSE w
<1>1. Speaks(e, c, w1) /\ w1.c.sent_close = w.c.sent_close
  BY SendDataSpeaks
<1>2. Flush(e, w) = IF w1.c.flushing /\ ErrIsRead(w1.c) /\ w1.c.errfd >= 0
                       /\ w1.c.transwindow > 0
                    THEN SendData(e, w1, TRUE) ELSE w1
  BY DEF Flush
<1>. HIDE DEF w1
<1>3. CASE w1.c.flushing /\ ErrIsRead(w1.c) /\ w1.c.errfd >= 0
           /\ w1.c.transwindow > 0
  <2>1. /\ Speaks(e, c, SendData(e, w1, TRUE))
        /\ SendData(e, w1, TRUE).c.sent_close = w1.c.sent_close
    BY <1>1, <1>3, SendDataSpeaks
  <2>. QED  BY <1>1, <1>2, <1>3, <2>1
<1>4. CASE ~(w1.c.flushing /\ ErrIsRead(w1.c) /\ w1.c.errfd >= 0
             /\ w1.c.transwindow > 0)
  BY <1>1, <1>2, <1>4
<1>. QED  BY <1>3, <1>4

\* remove_channel() after a CLOSE says no more: its close handler has run.
LEMMA RemoveSpoken ==
    ASSUME NEW e \in End, NEW c, NEW w, Speaks(e, c, w), w.c.sent_close,
           c.recv_close, NEW exited
    PROVE  Spoken(e, c, RemoveChannel(e, w, exited))
<1>1. /\ w \in Worlds /\ w.q \in Seq(Message) /\ Told(e, c, w.q)
      /\ Kept(e, c, w.c, w.q)
  BY WorldFields DEF Speaks, LiveWorld
<1>2. RunCloseHandler(e, w, exited) = w
  BY <1>1 DEF RunCloseHandler, Kept, FdOK
<1>3. PICK v : v = RemoveChannel(e, w, exited)
  OBVIOUS
<1>4. v = [w EXCEPT !.c = NoChannel]
  BY <1>2, <1>3 DEF RemoveChannel
<1>5. v.q = w.q /\ v.c = NoChannel
  BY <1>1, <1>4 DEF Worlds
<1>. QED  BY <1>1, <1>3, <1>5 DEF Spoken

LEMMA SpeaksSpoken ==
    ASSUME NEW e, NEW c, NEW w, Speaks(e, c, w)
    PROVE  Spoken(e, c, w)
BY WorldFields DEF Speaks, Spoken

\* check_close() notes that a session's process has exited.
LEMMA FlushingSpeaks ==
    ASSUME NEW e \in End, NEW c, NEW w, Speaks(e, c, w), NEW flushing \in BOOLEAN
    PROVE  LET v == [w EXCEPT !.c.flushing = flushing]
           IN  Speaks(e, c, v) /\ v.c.sent_close = w.c.sent_close
<1>. DEFINE w1 == [w EXCEPT !.c.flushing = flushing]
<1>1. /\ w \in Worlds /\ w.c \in Channels /\ Told(e, c, w.q)
      /\ Kept(e, c, w.c, w.q) /\ Good(e, w.c)
  BY WorldFields DEF Speaks, LiveWorld
<1>2. PICK d : d = [w.c EXCEPT !.flushing = flushing]
  OBVIOUS
<1>3. d \in Channels /\ w1.c = d /\ w1.q = w.q /\ w1 \in Worlds
  <2>1. d \in Channels
    BY <1>1, <1>2 DEF Channels
  <2>. QED  BY <1>1, <1>2, <2>1 DEF Worlds
<1>4. /\ Good(e, d) /\ d.sent_close = w.c.sent_close
      /\ Kept(e, c, d, w.q)
  <2>1. /\ d.sent_close = w.c.sent_close /\ d.sent_eof = w.c.sent_eof
        /\ d.recv_close = w.c.recv_close /\ d.recv_eof = w.c.recv_eof
        /\ d.await_open = w.c.await_open /\ d.initconn = w.c.initconn
        /\ d.close_handler_done = w.c.close_handler_done /\ d.extra = w.c.extra
        /\ d.readfd = w.c.readfd /\ d.writefd = w.c.writefd /\ d.errfd = w.c.errfd
        /\ d.wsize = w.c.wsize /\ d.recvwindow = w.c.recvwindow
        /\ d.wbuf = w.c.wbuf /\ d.xbuf = w.c.xbuf /\ d.recvdonelen = w.c.recvdonelen
    BY <1>1, <1>2 DEF Channels
  <2>2. FdOK(e, d)
    BY <1>1, <2>1 DEF Kept, FdOK
  <2>3. Good(e, d)
    BY <1>1, <1>3, <2>1 DEF Good, Accounted
  <2>. QED  BY <1>1, <2>1, <2>2, <2>3 DEF Kept
<1>. QED  BY <1>1, <1>3, <1>4 DEF Speaks, LiveWorld

\* check_close(), whichever way it goes
LEMMA CheckCloseSpoken ==
    ASSUME NEW e \in End, NEW c, NEW w, Speaks(e, c, w),
           NEW exited1 \in BOOLEAN, NEW exited2 \in BOOLEAN
    PROVE  Spoken(e, c, CheckClose(e, w, exited1, exited2))
<1>. DEFINE flushing == \/ w.c.flushing
                        \/ ~w.c.close_handler_done /\ HasCheckClose(e) /\ exited1
            allowed == CloseAllowed(e, w.c, exited2)
            w1 == [w EXCEPT !.c.flushing = flushing]
            w2 == IF \/ w1.c.recv_eof /\ ~WritePending(w1.c)
                     \/ HasCheckClose(e) /\ allowed
                  THEN [w1 EXCEPT !.c = CloseChanFd(e, @, @.writefd, "WR")] ELSE w1
            w3 == Flush(e, w2)
            w4 == IF ~w3.c.sent_eof /\ NothingMoreToSend(w3.c)
                  THEN SendEof(w3) ELSE w3
            w5 == IF w1.c.sent_close THEN w1 ELSE SendClose(e, w1, exited2)
            v == CheckClose(e, w, exited1, exited2)
<1>1. /\ w \in Worlds /\ w.c \in Channels /\ Told(e, c, w.q)
      /\ Kept(e, c, w.c, w.q) /\ Good(e, w.c)
  BY WorldFields DEF Speaks, LiveWorld
<1>2. Speaks(e, c, w1) /\ w1.c.sent_close = w.c.sent_close
  <2>1. flushing \in BOOLEAN
    BY <1>1 DEF Channels
  <2>. HIDE DEF flushing
  <2>. QED  BY <2>1, FlushingSpeaks
<1>. HIDE DEF w1
<1>3. Speaks(e, c, w2) /\ (w1.c.sent_close => w2.c.sent_close)
  BY <1>2, FdClosedSpeaks
<1>. HIDE DEF w2
<1>4. Speaks(e, c, w3) /\ w3.c.sent_close = w2.c.sent_close
  BY <1>3, FlushSpeaks
<1>. HIDE DEF w3
<1>5. Speaks(e, c, w4) /\ (w3.c.sent_close => w4.c.sent_close)
  BY <1>4, SendEofSpeaks
<1>. HIDE DEF w4
<1>6. allowed /\ ~w.c.sent_close => (HasCheckClose(e) => exited2)
  BY <1>1 DEF CloseAllowed, Kept, FdOK
<1>7. v = IF MayRemove(w1.c, allowed)
          THEN RemoveChannel(e, w5, exited2)
          ELSE IF /\ NothingMoreToSend(w4.c) /\ w4.c.writefd = FD_CLOSED
                  /\ ~w4.c.sent_close /\ allowed /\ ~WritePending(w4.c)
          THEN SendClose(e, w4, exited2)
          ELSE w4
  BY DEF CheckClose, w1, w2, w3, w4
<1>. HIDE DEF allowed, v
<1>8. CASE MayRemove(w1.c, allowed)
  <2>1. allowed /\ c.recv_close
    BY <1>2, <1>8 DEF MayRemove, Speaks, Kept
  <2>2. Speaks(e, c, w5) /\ w5.c.sent_close
    BY <1>2, <1>6, <2>1, SendCloseSpeaks
  <2>. HIDE DEF w5
  <2>. QED  BY <1>7, <1>8, <2>1, <2>2, RemoveSpoken DEF v
<1>9. CASE ~MayRemove(w1.c, allowed) /\ ~w4.c.sent_close /\ allowed
  <2>1. ~w.c.sent_close
    BY <1>2, <1>3, <1>4, <1>5, <1>9
  <2>2. Speaks(e, c, SendClose(e, w4, exited2))
    BY <1>5, <1>6, <1>9, <2>1, SendCloseSpeaks
  <2>3. v = SendClose(e, w4, exited2) \/ v = w4
    BY <1>7, <1>9
  <2>. QED  BY <1>5, <2>2, <2>3, SpeaksSpoken DEF v
<1>10. CASE ~MayRemove(w1.c, allowed) /\ ~(~w4.c.sent_close /\ allowed)
  BY <1>5, <1>7, <1>10, SpeaksSpoken DEF v
<1>. QED  BY <1>8, <1>9, <1>10

\* writechannel() gives credit back on a channel with a descriptor open, so
\* no CLOSE is out.
LEMMA WriteChannelSpeaks ==
    ASSUME NEW e \in End, NEW c, NEW w, Speaks(e, c, w), NEW f \in {"w", "x"},
           NEW len \in 0 .. IF f = "w" THEN w.c.wbuf ELSE w.c.xbuf,
           IF f = "w" THEN w.c.writefd >= 0 ELSE w.c.errfd >= 0
    PROVE  Speaks(e, c, WriteChannel(e, w, f, len))
<1>. DEFINE fd == IF f = "w" THEN w.c.writefd ELSE w.c.errfd
            w1 == [w EXCEPT !.c.wbuf = IF f = "w" THEN @ - len ELSE @,
                            !.c.xbuf = IF f = "x" THEN @ - len ELSE @,
                            !.c.recvdonelen = @ + len,
                            !.out = @ + len]
            m == Msg("adjust", w1.c.recvdonelen)
            same(d) == \A g \in {"sent_eof", "recv_eof", "sent_close", "recv_close",
                                "await_open", "initconn", "close_handler_done",
                                "extra", "readfd", "writefd", "errfd"} :
                         d[g] = w.c[g]
<1>1. PICK v : v = WriteChannel(e, w, f, len)
  OBVIOUS
<1>2. LiveWorld(e, v)
  BY <1>1, WriteChannelLive DEF Speaks
<1>3. /\ w.q \in Seq(Message) /\ w.c \in Channels /\ w \in Worlds
      /\ Told(e, c, w.q) /\ Kept(e, c, w.c, w.q)
  BY WorldFields DEF Speaks, LiveWorld
<1>4. ~w.c.sent_close
  BY <1>3, FdNumbers DEF Kept, FdOK
<1>5. CASE f \in broken[e]
  <2>1. v = [w EXCEPT !.c = CloseChanFd(e, w.c, fd, "WR")]
    BY <1>1, <1>5 DEF WriteChannel
  <2>. HIDE DEF fd
  <2>2. v.q = w.q /\ v.c = CloseChanFd(e, w.c, fd, "WR")
    BY <1>3, <2>1 DEF Worlds
  <2>3. Kept(e, c, v.c, w.q)
    BY <1>3, <2>2, FdClosedKept
  <2>. QED  BY <1>1, <1>2, <1>3, <2>2, <2>3 DEF Speaks
<1>6. CASE f \notin broken[e]
  <2>1. /\ w1.q = w.q /\ same(w1.c)
        /\ w.c.recvdonelen \in Nat /\ w1.c.recvdonelen = w.c.recvdonelen + len
    BY <1>3 DEF Worlds, Channels
  <2>2. len \in Nat
    BY <1>3 DEF Channels
  <2>3. m \in Message /\ m.t = "adjust"
    <3>1. w1.c.recvdonelen \in Nat
      BY <2>1, <2>2
    <3>. QED  BY <3>1, MsgMessage DEF Msg, MsgType
  <2>. DEFINE w2 == AdjustWindow(e, w1)
  <2>4. v = [w2 EXCEPT !.bad = w2.bad \/ ~WindowAssertions(e, w2.c)]
    BY <1>1, <1>6 DEF WriteChannel
  <2>5. \/ w2 = w1
        \/ w2 = [w1 EXCEPT !.q = Append(@, m),
                          !.c.recvwindow = @ + w1.c.recvdonelen,
                          !.c.recvdonelen = 0]
    BY DEF AdjustWindow
  <2>6. /\ w2.q = w1.q \/ w2.q = Append(w1.q, m)
        /\ \A g \in {"sent_eof", "recv_eof", "sent_close", "recv_close",
                     "await_open", "initconn", "close_handler_done",
                     "extra", "readfd", "writefd", "errfd"} :
              w2.c[g] = w1.c[g]
    <3>1. DOMAIN w1 = {"c", "src", "q", "out", "bad"}
      BY <1>3 DEF Worlds
    <3>2. /\ DOMAIN w1.c = DOMAIN w.c
          /\ {"sent_eof", "recv_eof", "sent_close", "recv_close", "await_open",
              "initconn", "close_handler_done", "extra", "readfd", "writefd",
              "errfd", "recvwindow", "recvdonelen"} \subseteq DOMAIN w.c
      BY <1>3 DEF Worlds, Channels
    <3>. HIDE DEF w1, m
    <3>3. PICK d : d = [w1.c EXCEPT !.recvwindow = @ + w1.c.recvdonelen,
                                    !.recvdonelen = 0]
      OBVIOUS
    <3>4. \A g \in {"sent_eof", "recv_eof", "sent_close", "recv_close",
                   "await_open", "initconn", "close_handler_done",
                   "extra", "readfd", "writefd", "errfd"} : d[g] = w1.c[g]
      BY <3>2, <3>3
    <3>5. \/ w2 = w1
          \/ w2 = [w1 EXCEPT !.q = Append(@, m), !.c = d]
      BY <2>5, <3>1, <3>3
    <3>. QED  BY <3>1, <3>4, <3>5
  <2>. HIDE DEF w1, w2, m
  <2>7. /\ v.q = w2.q /\ v.c = w2.c
    <3>1. v \in Worlds
      BY <1>2 DEF LiveWorld
    <3>. QED  BY <2>4
  <2>8. /\ v.q = w.q \/ v.q = Append(w.q, m)
        /\ same(v.c)
    BY <2>1, <2>6, <2>7
  <2>9. Kept(e, c, v.c, w.q)
    <3>1. FdOK(e, v.c)
      BY <1>3, <2>8 DEF Kept, FdOK
    <3>. QED  BY <1>3, <2>8, <3>1 DEF Kept
  <2>10. CASE v.q = w.q
    BY <1>1, <1>2, <1>3, <2>9, <2>10 DEF Speaks
  <2>11. CASE v.q = Append(w.q, m)
    <3>1. Told(e, c, v.q) /\ Types(v.q) = Types(w.q) \cup {"adjust"}
      BY <1>3, <1>4, <2>3, <2>11, MaySay DEF Data, Talk
    <3>2. Kept(e, c, v.c, v.q)
      BY <2>9, <3>1 DEF Kept
    <3>. QED  BY <1>1, <1>2, <3>1, <3>2 DEF Speaks
  <2>. QED  BY <2>8, <2>10, <2>11
<1>. QED  BY <1>5, <1>6

\* The two halves of channelio()
LEMMA ReadStepSpeaks ==
    ASSUME NEW e \in End, NEW c, NEW w, Speaks(e, c, w), NEW f \in {"r", "e"}
    PROVE  Speaks(e, c, ReadStep(e, w, f))
<1>1. \/ ReadStep(e, w, f) = w
      \/ w.c.readfd >= 0 /\ ReadStep(e, w, f) = SendData(e, w, FALSE)
      \/ /\ ErrIsRead(w.c) /\ w.c.errfd >= 0
         /\ ReadStep(e, w, f) = SendData(e, w, TRUE)
  BY DEF ReadStep
<1>2. CASE ReadStep(e, w, f) = w
  BY <1>2
<1>3. CASE w.c.readfd >= 0 /\ ReadStep(e, w, f) = SendData(e, w, FALSE)
  <2>1. Speaks(e, c, SendData(e, w, FALSE))
    BY <1>3, SendDataSpeaks
  <2>. QED  BY <1>3, <2>1
<1>4. CASE /\ ErrIsRead(w.c) /\ w.c.errfd >= 0
           /\ ReadStep(e, w, f) = SendData(e, w, TRUE)
  <2>1. Speaks(e, c, SendData(e, w, TRUE))
    BY <1>4, SendDataSpeaks
  <2>. QED  BY <1>4, <2>1
<1>. QED  BY <1>1, <1>2, <1>3, <1>4

LEMMA WriteStepSpeaks ==
    ASSUME NEW e \in End, NEW c, NEW w, Speaks(e, c, w), NEW f \in {"w", "x"},
           NEW len \in 0 .. IF f = "w" THEN w.c.wbuf ELSE w.c.xbuf
    PROVE  Speaks(e, c, WriteStep(e, w, f, len))
<1>1. \/ WriteStep(e, w, f, len) = w
      \/ /\ IF f = "w" THEN w.c.writefd >= 0 ELSE w.c.errfd >= 0
         /\ WriteStep(e, w, f, len) = WriteChannel(e, w, f, len)
  BY DEF WriteStep
<1>. QED  BY <1>1, WriteChannelSpeaks

\* What reading, writing or closing a descriptor leaves of a channel c
Same(c, d) ==
    /\ d.flushing = c.flushing /\ d.close_handler_done = c.close_handler_done
    /\ d.writefd = c.writefd \/ d.writefd = FD_CLOSED

LEMMA CloseFdSame ==
    ASSUME NEW e, NEW c \in Channels, NEW fd, NEW how
    PROVE  Same(c, CloseChanFd(e, c, fd, how))
BY DEF Same, CloseChanFd, Channels

LEMMA SendDataSame ==
    ASSUME NEW e \in End, NEW w, LiveWorld(e, w), NEW isextended \in BOOLEAN
    PROVE  Same(w.c, SendData(e, w, isextended).c)
<1>. DEFINE fd   == IF isextended THEN w.c.errfd ELSE w.c.readfd
            len  == MinOf(IF isextended THEN w.src.ebuf ELSE w.src.buf, MaxLen(w.c))
            sent == [w.c EXCEPT !.transwindow = @ - len]
            c1   == IF DrainedBy(w.c, len) THEN CloseChanFd(e, sent, fd, "RD")
                                           ELSE sent
<1>1. w \in Worlds /\ w.c \in Channels /\ w.src \in Sources
  BY WorldFields DEF LiveWorld, Worlds
<1>2. PICK v : v = SendData(e, w, isextended)
  OBVIOUS
<1>3. v.c \in {w.c, CloseChanFd(e, w.c, fd, "RD"), c1}
  <2>1. DOMAIN w = {"c", "src", "q", "out", "bad"}
    BY <1>1 DEF Worlds
  <2>2. PICK m : m = Msg(IF isextended THEN "ext" ELSE "data", len)
    OBVIOUS
  <2>3. \/ v = [w EXCEPT !.bad = TRUE]
        \/ v = w
        \/ v = [w EXCEPT !.c = CloseChanFd(e, w.c, fd, "RD")]
        \/ v = [w EXCEPT !.q = Append(@, m),
                         !.src.buf  = IF isextended THEN @ ELSE @ - len,
                         !.src.ebuf = IF isextended THEN @ - len ELSE @,
                         !.c = c1]
    BY <1>2, <2>2 DEF SendData
  <2>. HIDE DEF c1, len, fd
  <2>. QED  BY <2>1, <2>3
<1>4. Same(w.c, sent) /\ Same(w.c, c1)
  <2>1. sent \in Channels /\ Same(w.c, sent)
    <3>1. len \in Nat /\ w.c.transwindow - len \in Nat
      BY <1>1, WindowAssumption DEF Sources, Channels, MaxLen, MinOf
    <3>. HIDE DEF len
    <3>. QED  BY <1>1, <3>1 DEF Channels, Same
  <2>. HIDE DEF sent, fd, len
  <2>2. Same(sent, CloseChanFd(e, sent, fd, "RD"))
    BY <2>1, CloseFdSame
  <2>. QED  BY <2>1, <2>2 DEF Same
<1>5. Same(w.c, w.c) /\ Same(w.c, CloseChanFd(e, w.c, fd, "RD"))
  BY <1>1, CloseFdSame DEF Same
<1>. HIDE DEF c1, fd
<1>. QED  BY <1>2, <1>3, <1>4, <1>5

LEMMA FlushSame ==
    ASSUME NEW e \in End, NEW w, LiveWorld(e, w)
    PROVE  Same(w.c, Flush(e, w).c) /\ (~w.c.flushing => Flush(e, w) = w)
<1>. DEFINE w1 == IF w.c.flushing /\ w.c.readfd >= 0 /\ w.c.transwindow > 0
                  THEN SendData(e, w, FALSE) ELSE w
            w2 == IF w1.c.flushing /\ ErrIsRead(w1.c) /\ w1.c.errfd >= 0
                     /\ w1.c.transwindow > 0
                  THEN SendData(e, w1, TRUE) ELSE w1
<1>1. Flush(e, w) = w2
  BY DEF Flush
<1>2. /\ LiveWorld(e, SendData(e, w, FALSE)) /\ Same(w.c, w.c)
      /\ Same(w.c, SendData(e, w, FALSE).c)
  BY SendDataLive, SendDataSame DEF Same
<1>3. /\ LiveWorld(e, w1) /\ Same(w.c, w1.c)
      /\ ~w.c.flushing => w1 = w
  BY <1>2
<1>. HIDE DEF w1
<1>4. Same(w1.c, w2.c)
  <2>1. Same(w1.c, w1.c) /\ Same(w1.c, SendData(e, w1, TRUE).c)
    BY <1>3, SendDataSame DEF Same
  <2>. QED  BY <2>1
<1>5. ~w1.c.flushing => w2 = w1
  OBVIOUS
<1>. HIDE DEF w2
<1>. QED  BY <1>1, <1>2, <1>3, <1>4, <1>5 DEF Same

LEMMA ReadStepSame ==
    ASSUME NEW e \in End, NEW w, LiveWorld(e, w), NEW f
    PROVE  Same(w.c, ReadStep(e, w, f).c)
<1>1. \/ ReadStep(e, w, f) = w
      \/ ReadStep(e, w, f) = SendData(e, w, FALSE)
      \/ ReadStep(e, w, f) = SendData(e, w, TRUE)
  BY DEF ReadStep
<1>2. /\ Same(w.c, SendData(e, w, FALSE).c) /\ Same(w.c, SendData(e, w, TRUE).c)
      /\ Same(w.c, w.c)
  BY SendDataSame DEF Same
<1>. QED  BY <1>1, <1>2

LEMMA WriteStepSame ==
    ASSUME NEW e \in End, NEW w, LiveWorld(e, w), NEW f, NEW len
    PROVE  Same(w.c, WriteStep(e, w, f, len).c)
<1>. DEFINE fd == IF f = "w" THEN w.c.writefd ELSE w.c.errfd
            w1 == [w EXCEPT !.c.wbuf = IF f = "w" THEN @ - len ELSE @,
                            !.c.xbuf = IF f = "x" THEN @ - len ELSE @,
                            !.c.recvdonelen = @ + len,
                            !.out = @ + len]
            w2 == AdjustWindow(e, w1)
<1>1. w \in Worlds /\ w.c \in Channels /\ DOMAIN w = {"c", "src", "q", "out", "bad"}
  BY WorldFields DEF LiveWorld, Worlds
<1>2. \/ WriteStep(e, w, f, len) = w
      \/ WriteStep(e, w, f, len) = [w EXCEPT !.c = CloseChanFd(e, w.c, fd, "WR")]
      \/ WriteStep(e, w, f, len) = [w2 EXCEPT !.bad = @ \/ ~WindowAssertions(e, w2.c)]
  BY DEF WriteStep, WriteChannel
<1>3. {"flushing", "close_handler_done", "writefd", "recvwindow", "recvdonelen",
       "wbuf", "xbuf"} \subseteq DOMAIN w.c
  BY <1>1 DEF Channels
<1>4. /\ DOMAIN w1 = DOMAIN w /\ DOMAIN w1.c = DOMAIN w.c
      /\ w1.c.flushing = w.c.flushing /\ w1.c.writefd = w.c.writefd
      /\ w1.c.close_handler_done = w.c.close_handler_done
  BY <1>1, <1>3
<1>. HIDE DEF w1
<1>5. /\ DOMAIN w2 = DOMAIN w1
      /\ w2.c.flushing = w1.c.flushing /\ w2.c.writefd = w1.c.writefd
      /\ w2.c.close_handler_done = w1.c.close_handler_done
  <2>1. PICK d : d = [w1.c EXCEPT !.recvwindow = @ + w1.c.recvdonelen,
                                  !.recvdonelen = 0]
    OBVIOUS
  <2>2. /\ d.flushing = w1.c.flushing /\ d.writefd = w1.c.writefd
        /\ d.close_handler_done = w1.c.close_handler_done
    BY <1>3, <1>4, <2>1
  <2>3. PICK m : m = Msg("adjust", w1.c.recvdonelen)
    OBVIOUS
  <2>4. \/ w2 = w1
        \/ w2 = [w1 EXCEPT !.q = Append(@, m),
                          !.c.recvwindow = @ + w1.c.recvdonelen,
                          !.c.recvdonelen = 0]
    BY <2>3 DEF AdjustWindow
  <2>5. w2 = w1 \/ w2 = [w1 EXCEPT !.q = Append(@, m), !.c = d]
    BY <1>1, <1>4, <2>1, <2>4
  <2>. HIDE DEF w2
  <2>. QED  BY <1>1, <1>4, <2>2, <2>5
<1>. HIDE DEF w2, fd
<1>6. Same(w.c, w.c) /\ Same(w.c, CloseChanFd(e, w.c, fd, "WR")) /\ Same(w.c, w2.c)
  BY <1>1, <1>4, <1>5, CloseFdSame DEF Same
<1>7. /\ [w EXCEPT !.c = CloseChanFd(e, w.c, fd, "WR")].c = CloseChanFd(e, w.c, fd, "WR")
      /\ [w2 EXCEPT !.bad = @ \/ ~WindowAssertions(e, w2.c)].c = w2.c
  BY <1>1, <1>4, <1>5
<1>. QED  BY <1>2, <1>6, <1>7

---------------------------------------------------------------------------
(* The invariant *)

\* "I" has asked for the channel and not been answered; "A" is connecting.
Asking == Live("I") /\ ch["I"].await_open
Connecting == Live("A") /\ ch["A"].initconn

\* A request for a shell is to come or under way: the session at "A" is as
\* newchansess() left it.
Due == HasCheckClose("A") /\ (Asking \/ "shell" \in Types(net["A"]))
Fresh(c) == /\ c.readfd < 0 /\ c.writefd < 0 /\ c.errfd < 0
            /\ ~c.sent_eof /\ ~c.recv_eof /\ ~c.initconn

\* How the channel comes to be
Opening ==
    /\ status = "unopened" => /\ child = "none"
                              /\ \A e \in End : ~Live(e) /\ net[e] = <<>>
    /\ "winch" \in Types(net["A"]) => "winch" \in Faults
    /\ Types(net["I"]) \cap {"open", "shell", "winch"} = {}
    /\ Live("I") => ~ch["I"].initconn
    /\ Live("A") => ~ch["A"].await_open
    /\ Connecting => /\ Asking /\ net["I"] = <<>> /\ net["A"] = <<>>
                     /\ TypeA = "tcp" /\ ~ch["A"].sent_eof
                     /\ ch["A"].readfd < 0 /\ ~ch["A"].extra
    /\ Asking => /\ ch["I"].transwindow = 0 /\ ch["I"].wbuf = 0
                 /\ ~ch["I"].extra /\ ~ch["I"].sent_eof /\ ~ch["I"].recv_eof
                 /\ sel["I"] = {} /\ Types(net["A"]) \subseteq {"open"}
                 /\ net["I"] # <<>> => Head(net["I"]).t \in {"confirm", "failure"}
                 /\ Live("A") /\ ~ch["A"].initconn => net["I"] # <<>>
    /\ "open" \in Types(net["A"]) => Asking /\ ~Live("A") /\ net["I"] = <<>>
    /\ "shell" \in Types(net["A"]) => HasCheckClose("A")
    /\ child # "none" => HasCheckClose("A")
    /\ child = "none" => ~sigp
    /\ Due => child = "none" /\ (Live("A") => Fresh(ch["A"]))
    /\ \A e \in End : pc[e] = "select" => sel[e] = {}

\* The exit status of a session is ahead of its CLOSE.
Reported ==
    HasCheckClose("A") /\ "close" \in Types(net["I"]) =>
      \/ "exit" \in Types(net["I"])
      \/ status = "received"
      \/ Live("I") /\ ch["I"].sent_close

OInv ==
    /\ IInv
    /\ \A e \in End : Live(e) => FdOK(e, ch[e])
    /\ \A e \in End : Link(net[e], ch[e], ch[Peer(e)])
    /\ Opening /\ Reported

---------------------------------------------------------------------------
(* Links are kept *)

\* An end whose channel was s (and c when it began to speak) says r.
LEMMA SenderLinks ==
    ASSUME NEW q \in Seq(Message), NEW r \in Seq(Message), NEW d, NEW s, NEW e,
           NEW c, NEW n, s # NoChannel, Link(q, d, s), Told(e, c, r),
           c.sent_eof = s.sent_eof, c.sent_close = s.sent_close,
           n # NoChannel => Kept(e, c, n, r)
    PROVE  Link(q \o r, d, n)
<1>1. Types(q \o r) = Types(q) \cup Types(r)
  BY OrderJoined
<1>2. /\ Types(r) \subseteq Talk /\ "failure" \notin Types(q)
      /\ "close" \in Types(q) => c.sent_close
      /\ "eof" \in Types(q) => c.sent_eof
      /\ c.sent_close => r = <<>>
      /\ c.sent_eof => Types(r) \cap Data = {}
      /\ Ordered(q) /\ Ordered(r)
  BY DEF Link, Told
<1>3. r = <<>> => Types(r) = {}
  BY OrderNone
<1>4. \A x \in Types(q), t \in Types(r) : After(x, t)
  BY <1>2, <1>3 DEF After, Talk, Data
<1>5. Ordered(q \o r)
  BY <1>2, <1>4, OrderJoined
<1>6. d # NoChannel =>
        /\ d.recv_close => Types(q \o r) \subseteq {"winch"}
        /\ d.recv_eof => Types(q \o r) \cap {"data", "ext"} = {}
  BY <1>1, <1>2, <1>3 DEF Link, Data
<1>7. n # NoChannel =>
        /\ "failure" \notin Types(q \o r)
        /\ ~n.sent_close => /\ "close" \notin Types(q \o r)
                            /\ d # NoChannel => ~d.recv_close
        /\ ~n.sent_eof => /\ "eof" \notin Types(q \o r)
                          /\ d # NoChannel => ~d.recv_eof
  BY <1>1, <1>2 DEF Link, Kept, Talk, Data
<1>. QED  BY <1>5, <1>6, <1>7 DEF Link

\* An end whose channel was c reads the first packet, and has n then.
LEMMA ReceiverLinks ==
    ASSUME NEW q \in Seq(Message), q # <<>>, NEW c, NEW s, NEW n, Link(q, c, s),
           s # NoChannel /\ s.sent_close => s.sent_eof,
           n # NoChannel =>
             /\ n.recv_eof => \/ c # NoChannel /\ c.recv_eof
                              \/ Head(q).t \in {"eof", "close"}
             /\ n.recv_close => \/ c # NoChannel /\ c.recv_close
                                \/ Head(q).t = "close"
    PROVE  Link(Tail(q), n, s)
<1>1. /\ Types(q) = {Head(q).t} \cup Types(Tail(q))
      /\ Ordered(Tail(q)) /\ \A t \in Types(Tail(q)) : After(Head(q).t, t)
  BY OrderTaken DEF Link
<1>2. n # NoChannel =>
        /\ n.recv_close => Types(Tail(q)) \subseteq {"winch"}
        /\ n.recv_eof => Types(Tail(q)) \cap {"data", "ext"} = {}
  BY <1>1 DEF Link, After
<1>3. s # NoChannel =>
        /\ "failure" \notin Types(Tail(q))
        /\ ~s.sent_close => /\ "close" \notin Types(Tail(q))
                            /\ n # NoChannel => ~n.recv_close
        /\ ~s.sent_eof => /\ "eof" \notin Types(Tail(q))
                          /\ n # NoChannel => ~n.recv_eof
  <2>1. ASSUME s # NoChannel, ~s.sent_close, n # NoChannel PROVE ~n.recv_close
    BY <2>1, <1>1 DEF Link
  <2>2. ASSUME s # NoChannel, ~s.sent_eof, n # NoChannel PROVE ~n.recv_eof
    <3>1. "eof" \notin Types(q) /\ "close" \notin Types(q)
      BY <2>2 DEF Link
    <3>. QED  BY <2>2, <1>1 DEF Link
  <2>. QED  BY <2>1, <2>2, <1>1 DEF Link
<1>. QED  BY <1>1, <1>2, <1>3 DEF Link

\* Two ends with the same flags are linked alike.
LEMMA LinkLike ==
    ASSUME NEW q, NEW c, NEW d, NEW s, Link(q, c, s), c # NoChannel,
           d # NoChannel => d.recv_eof = c.recv_eof /\ d.recv_close = c.recv_close
    PROVE  Link(q, d, s)
BY DEF Link

---------------------------------------------------------------------------
(* Steps *)

\* The two ends
LEMMA TwoEnds ==
    /\ "I" \in End /\ "A" \in End /\ Peer("I") = "A" /\ Peer("A") = "I"
    /\ \A e \in End : e = "I" \/ e = "A"
    /\ \A e \in End : Peer(e) \in End /\ Peer(e) # e /\ Peer(Peer(e)) = e
    /\ \A e, d \in End : d = e \/ d = Peer(e)
BY DEF End, Peer

\* What Done() does to channels and packets
LEMMA DoneFacts ==
    ASSUME IInv, NEW e \in End, NEW w, NEW rest, NEW next, Done(e, w, rest, next)
    PROVE  /\ ch'[e] = w.c /\ ch'[Peer(e)] = ch[Peer(e)]
           /\ net'[e] = rest /\ net'[Peer(e)] = net[Peer(e)] \o w.q
           /\ pc'[e] = next /\ pc'[Peer(e)] = pc[Peer(e)]
BY ZenonT(60), TwoEnds DEF Done, IInv, TypeOK

\* First in a row stays first.
LEMMA HeadStays ==
    ASSUME NEW q \in Seq(Message), NEW r \in Seq(Message), q # <<>>
    PROVE  q \o r # <<>> /\ Head(q \o r) = Head(q)
<1>1. q \o r # <<>> /\ q \o r \in Seq(Message)
  BY ConcatNotEmpty, ConcatProperties
<1>2. Head(q) = q[1] /\ 1 \in 1..Len(q)
  <2>1. Len(q) \in Nat /\ Len(q) # 0
    BY EmptySeq, LenProperties
  <2>. QED  BY <2>1, HeadTailProperties
<1>3. Head(q \o r) = (q \o r)[1]
  BY <1>1, HeadTailProperties
<1>4. (q \o r)[1] = q[1]
  BY <1>2, ConcatProperties
<1>. QED  BY <1>1, <1>2, <1>3, <1>4

\* What is left to an end: all, or all but the packet it has just read
Reads(e, c, rest) ==
    \/ /\ rest = net[e]
       /\ c.recv_eof = ch[e].recv_eof /\ c.recv_close = ch[e].recv_close
    \/ /\ net[e] # <<>> /\ rest = Tail(net[e])
       /\ e = "I" => Head(net[e]).t # "exit"
       /\ c.recv_eof => ch[e].recv_eof \/ Head(net[e]).t \in {"eof", "close"}
       /\ c.recv_close => ch[e].recv_close \/ Head(net[e]).t = "close"

LEMMA RestLinks ==
    ASSUME OInv, NEW e \in End, ch[e] # NoChannel, NEW c, c # NoChannel, NEW rest,
           Reads(e, c, rest)
    PROVE  /\ rest \in Seq(Message) /\ Types(rest) \subseteq Types(net[e])
           /\ Link(rest, c, ch[Peer(e)])
<1>1. net[e] \in Seq(Message) /\ Link(net[e], ch[e], ch[Peer(e)])
  BY DEF OInv, IInv, TypeOK
<1>2. ch[Peer(e)] # NoChannel /\ ch[Peer(e)].sent_close => ch[Peer(e)].sent_eof
  BY TwoEnds DEF OInv, Live, FdOK
<1>3. CASE /\ rest = net[e]
           /\ c.recv_eof = ch[e].recv_eof /\ c.recv_close = ch[e].recv_close
  BY <1>1, <1>3, LinkLike
<1>4. CASE /\ net[e] # <<>> /\ rest = Tail(net[e])
           /\ c.recv_eof => ch[e].recv_eof \/ Head(net[e]).t \in {"eof", "close"}
           /\ c.recv_close => ch[e].recv_close \/ Head(net[e]).t = "close"
  <2>1. Link(Tail(net[e]), c, ch[Peer(e)])
    BY <1>1, <1>2, <1>4, ReceiverLinks
  <2>2. /\ Tail(net[e]) \in Seq(Message)
        /\ Types(Tail(net[e])) \subseteq Types(net[e])
    BY <1>1, <1>4, OrderTaken
  <2>. QED  BY <1>4, <2>1, <2>2
<1>. QED  BY <1>3, <1>4 DEF Reads

\* An end whose channel is open, with c when it has read a packet, speaks.
LEMMA DoneOrder ==
    ASSUME OInv, IInv', NEW e \in End, ch[e] # NoChannel,
           ~ch[e].await_open, ~ch[e].initconn, e = "A" => ~Due,
           NEW c, c # NoChannel, ~c.await_open, ~c.initconn,
           c.sent_eof = ch[e].sent_eof, c.sent_close = ch[e].sent_close,
           NEW rest, Reads(e, c, rest),
           NEW w, Spoken(e, c, w), NEW next, Done(e, w, rest, next),
           status' = status,
           child' = child \/ (child = "running" /\ child' = "exited"),
           child' = "none" => ~sigp',
           \A d \in End : sel'[d] = sel[d] \/ sel'[d] = {},
           \A d \in End : pc'[d] = "select" => sel'[d] = {}
    PROVE  OInv'
<1>. DEFINE f == Peer(e)
<1>o. IInv /\ Opening /\ Reported
  BY DEF OInv
<1>1. /\ ch'[e] = w.c /\ ch'[f] = ch[f] /\ net'[e] = rest
      /\ net'[f] = net[f] \o w.q
  <2>1. /\ ch'[e] = w.c /\ ch'[Peer(e)] = ch[Peer(e)]
        /\ net'[e] = rest /\ net'[Peer(e)] = net[Peer(e)] \o w.q
        /\ pc'[e] = next /\ pc'[Peer(e)] = pc[Peer(e)]
    BY <1>o, DoneFacts, Zenon
  <2>. QED  BY <2>1
<1>2. /\ net[e] \in Seq(Message) /\ net[f] \in Seq(Message) /\ w.q \in Seq(Message)
  BY TwoEnds DEF OInv, IInv, TypeOK, Spoken
<1>3. /\ rest \in Seq(Message) /\ Types(rest) \subseteq Types(net[e])
      /\ Link(rest, c, ch[f])
  BY RestLinks
<1>4. /\ Told(e, c, w.q) /\ Types(w.q) \subseteq Talk
      /\ w.c = NoChannel => c.recv_close
      /\ w.c # NoChannel => Kept(e, c, w.c, w.q)
  BY DEF Spoken, Told
<1>5. Types(net'[f]) = Types(net[f]) \cup Types(w.q)
  BY <1>1, <1>2, OrderJoined
<1>6. Link(net'[e], ch'[e], ch'[f])
  <2>1. w.c # NoChannel => w.c.recv_eof = c.recv_eof /\ w.c.recv_close = c.recv_close
    BY <1>4 DEF Kept
  <2>. QED  BY <2>1, <1>1, <1>3, LinkLike
<1>7. Link(net'[f], ch'[f], ch'[e])
  <2>1. Link(net[f], ch[f], ch[e])
    BY TwoEnds DEF OInv
  <2>. QED  BY <2>1, <1>1, <1>2, <1>4, SenderLinks
<1>8. \A d \in End : Live(d)' => FdOK(d, ch'[d])
  BY <1>1, <1>4, TwoEnds DEF OInv, Live, Kept
<1>9. CASE e = "I"
  <2>1. /\ f = "A" /\ ch'["I"] = w.c /\ ch'["A"] = ch["A"] /\ net'["I"] = rest
        /\ Types(net'["A"]) = Types(net["A"]) \cup Types(w.q)
    BY <1>1, <1>5, <1>9, TwoEnds
  <2>2. ~Asking /\ ~Asking' /\ ~Connecting /\ ~Connecting'
    <3>1. ~Asking
      BY <1>9 DEF Asking
    <3>2. ~Asking'
      BY <2>1, <1>4 DEF Asking, Live, Kept
    <3>3. ~Connecting
      BY <3>1, <1>o DEF Opening
    <3>. QED  BY <3>1, <3>2, <3>3, <2>1 DEF Connecting, Live
  <2>3. "open" \notin Types(net'["A"])
    <3>1. "open" \notin Types(net["A"])
      BY <2>2, <1>o DEF Opening
    <3>. QED  BY <3>1, <2>1, <1>4 DEF Talk, Data
  <2>4. Due' => Due
    BY <2>1, <2>2, <1>4 DEF Due, Talk, Data
  <2>5. Types(net'["I"]) \subseteq Types(net["I"])
    BY <2>1, <1>3, <1>9
  <2>6. Live("I")' => ~ch'["I"].initconn
    BY <2>1, <1>4 DEF Live, Kept
  <2>7. /\ "shell" \in Types(net'["A"]) => "shell" \in Types(net["A"])
        /\ "winch" \in Types(net'["A"]) => "winch" \in Types(net["A"])
    BY <2>1, <1>4 DEF Talk, Data
  <2>8. status' # "unopened"
    BY DEF OInv, Opening, Live
  <2>9. child' = "none" <=> child = "none"
    OBVIOUS
  <2>10. Live("A")' <=> Live("A")
    BY <2>1 DEF Live
  <2>11. Opening'
    BY <2>1, <2>2, <2>3, <2>4, <2>5, <2>6, <2>7, <2>8, <2>9, <2>10
       DEF OInv, Opening
  <2>12. Reported'
    <3>1. SUFFICES ASSUME HasCheckClose("A"), "close" \in Types(net'["I"])
                   PROVE  \/ "exit" \in Types(net'["I"])
                          \/ status' = "received"
                          \/ Live("I")' /\ ch'["I"].sent_close
      BY DEF Reported
    <3>2. \/ "exit" \in Types(net["I"])
          \/ status = "received"
          \/ ch["I"].sent_close
      BY <3>1, <2>5 DEF OInv, Reported
    <3>3. CASE "exit" \in Types(net["I"])
      <4>1. "exit" \in Types(rest)
        <5>1. CASE rest = net["I"]
          BY <5>1, <3>3
        <5>2. CASE net["I"] # <<>> /\ rest = Tail(net["I"]) /\ Head(net["I"]).t # "exit"
          BY <5>2, <3>3, <1>2, <1>9, OrderTaken
        <5>. QED  BY <5>1, <5>2, <1>9 DEF Reads
      <4>. QED  BY <4>1, <2>1
    <3>4. CASE ch["I"].sent_close
      <4>1. w.c # NoChannel
        BY <3>1, <2>1, <1>3, <1>4 DEF Link
      <4>. QED  BY <4>1, <3>4, <2>1, <1>4, <1>9 DEF Kept, Live
    <3>. QED  BY <3>2, <3>3, <3>4
  <2>. QED  BY <2>11, <2>12, <1>6, <1>7, <1>8, <1>9, TwoEnds DEF OInv
<1>10. CASE e = "A"
  <2>1. /\ f = "I" /\ ch'["A"] = w.c /\ ch'["I"] = ch["I"] /\ net'["A"] = rest
        /\ net'["I"] = net["I"] \o w.q
        /\ Types(net'["I"]) = Types(net["I"]) \cup Types(w.q)
    BY <1>1, <1>5, <1>10, TwoEnds
  <2>2. (Asking' <=> Asking) /\ ~Connecting /\ ~Connecting'
    BY <1>4, <1>10, <2>1 DEF Asking, Live, Kept, Connecting
  <2>3. Types(net'["A"]) \subseteq Types(net["A"])
    BY <2>1, <1>3, <1>10
  <2>4. ~Due'
    BY <2>2, <2>3, <1>10 DEF Due
  <2>5. Live("A")' => ~ch'["A"].await_open /\ ~ch'["A"].initconn
    BY <2>1, <1>4, <1>10 DEF Live, Kept
  <2>6. status' # "unopened" /\ Live("A")
    BY <1>10 DEF OInv, Opening, Live
  <2>7. Asking => net["I"] # <<>> /\ net'["I"] # <<>> /\ Head(net'["I"]) = Head(net["I"])
    <3>1. Asking => net["I"] # <<>>
      BY <1>10, <2>6 DEF OInv, Opening
    <3>. QED  BY <3>1, <2>1, <1>2, <1>10, HeadStays
  <2>8. Types(net'["I"]) \cap {"open", "shell", "winch"} = {}
    <3>1. Types(net["I"]) \cap {"open", "shell", "winch"} = {}
      BY <1>o DEF Opening
    <3>. QED  BY <3>1, <2>1, <1>4 DEF Talk, Data
  <2>9. Live("I")' <=> Live("I")
    BY <2>1 DEF Live
  <2>10. "open" \notin Types(net'["A"])
    BY <2>3, <2>6 DEF OInv, Opening
  <2>11. Asking => sel'["I"] = {}
    BY TwoEnds DEF OInv, Opening
  <2>12. Opening'
    <3>1. Asking' => /\ ch'["I"].transwindow = 0 /\ ch'["I"].wbuf = 0
                     /\ ~ch'["I"].extra /\ ~ch'["I"].sent_eof /\ ~ch'["I"].recv_eof
                     /\ sel'["I"] = {} /\ Types(net'["A"]) \subseteq {"open"}
                     /\ Head(net'["I"]).t \in {"confirm", "failure"}
                     /\ net'["I"] # <<>>
      BY <2>1, <2>2, <2>3, <2>7, <2>11 DEF OInv, Opening
    <3>. QED
      BY <3>1, <2>1, <2>2, <2>3, <2>4, <2>5, <2>6, <2>8, <2>9, <2>10
         DEF OInv, Opening
  <2>13. Reported'
    BY <2>1, <2>9, <1>4, <1>10 DEF OInv, Reported, Told
  <2>. QED  BY <2>12, <2>13, <1>6, <1>7, <1>8, <1>10, TwoEnds DEF OInv
<1>. QED  BY <1>9, <1>10, TwoEnds

\* A handler that says nothing
LEMMA SilentSpoken ==
    ASSUME NEW e, NEW w, w.q = <<>>, w.c # NoChannel, FdOK(e, w.c)
    PROVE  Spoken(e, w.c, w)
<1>1. w.q \in Seq(Message)
  BY EmptySeq
<1>2. Ordered(w.q) /\ Types(w.q) = {}
  BY OrderNone
<1>. QED  BY <1>1, <1>2 DEF Spoken, Told, Kept

\* A packet other than the first ones of a channel finds it in order.
LEMMA Settled ==
    ASSUME OInv, NEW e \in End, pc[e] = "packet", ch[e] # NoChannel,
           Head(net[e]).t \in Talk \cup {"winch"}
    PROVE  /\ ~ch[e].await_open /\ ~ch[e].initconn
           /\ e = "A" => ~Due
<1>o. IInv /\ Opening
  BY DEF OInv
<1>1. net[e] \in Seq(Message) /\ net[e] # <<>> /\ Ordered(net[e])
  BY <1>o DEF IInv, TypeOK, OInv, Link
<1>2. /\ Types(net[e]) = {Head(net[e]).t} \cup Types(Tail(net[e]))
      /\ \A t \in Types(Tail(net[e])) : After(Head(net[e]).t, t)
  BY <1>1, OrderTaken
<1>3. CASE e = "I"
  <2>1. ~Asking
    BY <1>o, <1>1, <1>3 DEF Opening, Talk, Data
  <2>. QED  BY <1>o, <1>3, <2>1 DEF Opening, Asking, Live
<1>4. CASE e = "A"
  <2>1. ~Connecting
    BY <1>o, <1>1, <1>4 DEF Opening
  <2>2. ~Asking
    BY <1>o, <1>2, <1>4 DEF Opening, Talk, Data
  <2>3. "shell" \notin Types(net["A"])
    BY <1>2, <1>4 DEF After, Talk, Data
  <2>. QED  BY <1>o, <1>4, <2>1, <2>2, <2>3 DEF Opening, Connecting, Live, Due
<1>. QED  BY <1>3, <1>4, TwoEnds

\* Steps that touch no channel and no packet
LEMMA SameOrder ==
    ASSUME OInv, IInv', UNCHANGED <<ch, net, pc, sel, sigp, status, child>>
    PROVE  OInv'
BY DEF OInv, Live, Opening, Reported, Asking, Connecting, Due

\* What Processed() does to pc
LEMMA ProcessedPc ==
    ASSUME OInv, NEW e \in End, NEW w, Processed(e, w), UNCHANGED sel
    PROVE  \A d \in End : pc'[d] = "select" => sel'[d] = {}
<1>o. IInv /\ Opening
  BY DEF OInv
<1>1. PICK rest : rest = Tail(net[e])
  OBVIOUS
<1>2. Done(e, w, rest, "io")
  BY <1>1 DEF Processed
<1>3. pc'[e] = "io" /\ pc'[Peer(e)] = pc[Peer(e)]
  BY <1>o, <1>2, TwoEnds DEF Done, IInv, TypeOK
<1>. QED  BY <1>o, <1>3, TwoEnds DEF Opening

\* The handler of a packet that changes no flag and no descriptor
LEMMA QuietOrder ==
    ASSUME OInv, IInv', NEW e \in End, pc[e] = "packet", ch[e] # NoChannel,
           Head(net[e]).t \in {"data", "ext", "adjust", "winch"},
           NEW w, w.q = <<>>, w.c # NoChannel,
           \A g \in {"sent_eof", "recv_eof", "sent_close", "recv_close",
                     "await_open", "initconn", "close_handler_done",
                     "extra", "readfd", "writefd", "errfd"} : w.c[g] = ch[e][g],
           Processed(e, w), UNCHANGED <<sel, sigp, child, status>>
    PROVE  OInv'
<1>o. IInv /\ Opening /\ FdOK(e, ch[e])
  BY DEF OInv, Live
<1>1. /\ ~ch[e].await_open /\ ~ch[e].initconn
      /\ e = "A" => ~Due
  BY Settled DEF Talk, Data
<1>2. FdOK(e, w.c)
  BY <1>o DEF FdOK
<1>3. Spoken(e, w.c, w)
  BY <1>2, SilentSpoken
<1>4. Reads(e, w.c, Tail(net[e]))
  BY <1>o DEF Reads, IInv
<1>5. \A d \in End : pc'[d] = "select" => sel'[d] = {}
  BY ProcessedPc
<1>6. child' = "none" => ~sigp'
  BY <1>o DEF Opening
<1>7. Done(e, w, Tail(net[e]), "io")
  BY DEF Processed
<1>8. /\ ~w.c.await_open /\ ~w.c.initconn
      /\ w.c.sent_eof = ch[e].sent_eof /\ w.c.sent_close = ch[e].sent_close
  BY <1>1
<1>9. \A d \in End : sel'[d] = sel[d] \/ sel'[d] = {}
  OBVIOUS
<1>10. PICK rest : rest = Tail(net[e])
  OBVIOUS
<1>11. PICK c : c = w.c
  OBVIOUS
<1>12. /\ c # NoChannel /\ ~c.await_open /\ ~c.initconn
       /\ c.sent_eof = ch[e].sent_eof /\ c.sent_close = ch[e].sent_close
       /\ Reads(e, c, rest) /\ Spoken(e, c, w) /\ Done(e, w, rest, "io")
  BY <1>3, <1>4, <1>7, <1>8, <1>10, <1>11
<1>13. status' = status /\ child' = child
  OBVIOUS
<1>. QED  BY <1>1, <1>5, <1>6, <1>9, <1>12, <1>13, DoneOrder, Zenon

LEMMA RecvAdjustReads ==
    ASSUME OInv, NEW e \in End, RecvAdjust(e)
    PROVE  /\ pc[e] = "packet" /\ Live(e) /\ ch[e] \in Channels
           /\ Head(net[e]).t = "adjust" /\ UNCHANGED <<sel, sigp, child, status>>
           /\ \E w : /\ Processed(e, w) /\ w.q = <<>> /\ w.c # NoChannel
                     /\ \A g \in DOMAIN ch[e] \ {"transwindow"} : w.c[g] = ch[e][g]
<1> DEFINE incr == MinOf(Head(net[e]).n, TransMaxWindow)
           window == MinOf(ch[e].transwindow + incr, TransMaxWindow)
           c1 == [ch[e] EXCEPT !.transwindow = window]
<1>1. /\ pc[e] = "packet" /\ ch[e] # NoChannel /\ Head(net[e]).t = "adjust"
      /\ IInv /\ ch[e] \in Channels /\ UNCHANGED <<sel, sigp, child, status>>
  BY DEF RecvAdjust, PacketFor, Packet, OInv, IInv, Good, env
<1>2. PICK w : w = [World(e) EXCEPT !.c = c1]
  OBVIOUS
<1>3. Processed(e, w) /\ w.q = <<>> /\ w.c = c1
  BY <1>2 DEF RecvAdjust, World
<1>4. \A g \in DOMAIN ch[e] \ {"transwindow"} : w.c[g] = ch[e][g]
  BY <1>1, <1>3 DEF Channels
<1>5. w.c # NoChannel
  <2>1. incr \in Nat
    BY <1>1, ThePacket, WindowAssumption DEF MinOf
  <2>2. ch[e].transwindow \in Nat
    BY <1>1 DEF Channels
  <2>3. window \in Nat
    <3> HIDE DEF incr
    <3>. QED  BY <2>1, <2>2, WindowAssumption DEF MinOf
  <2> HIDE DEF window
  <2>4. c1 \in Channels
    BY <1>1, <2>3 DEF Channels
  <2>. QED  BY <1>3, <2>4, NoChannelAssumption
<1> HIDE DEF c1
<1>. QED  BY <1>1, <1>3, <1>4, <1>5 DEF Live

LEMMA RecvAdjustOrder == ASSUME OInv, NEW e \in End, RecvAdjust(e) PROVE OInv'
<1>1. PICK w : /\ Processed(e, w) /\ w.q = <<>> /\ w.c # NoChannel
               /\ \A g \in DOMAIN ch[e] \ {"transwindow"} : w.c[g] = ch[e][g]
  BY RecvAdjustReads
<1>2. IInv' /\ ch[e] \in Channels /\ ch[e] # NoChannel
  BY RecvAdjustReads, RecvAdjustIInv DEF OInv, Live
<1>3. \A g \in {"sent_eof", "recv_eof", "sent_close", "recv_close",
                 "await_open", "initconn", "close_handler_done",
                 "extra", "readfd", "writefd", "errfd"} : w.c[g] = ch[e][g]
  BY <1>1, <1>2 DEF Channels
<1>. QED  BY <1>1, <1>2, <1>3, RecvAdjustReads, QuietOrder

LEMMA ExitOrder ==
    ASSUME OInv, IInv', NEW e, NEW why, Exit(e, why)
    PROVE  OInv'
BY SameOrder DEF Exit, env

\* Data is buffered or dropped: that much more is to be written, if anything.
LEMMA RecvDataReads ==
    ASSUME OInv, NEW e \in End, NEW type \in {"data", "ext"}, RecvData(e, type)
    PROVE  \/ \E why : Exit(e, why)
           \/ /\ UNCHANGED <<sel, sigp, child, status>>
              /\ \E w : /\ Processed(e, w) /\ w.q = <<>> /\ w.c # NoChannel
                        /\ \A g \in {"sent_eof", "recv_eof", "sent_close", "recv_close",
                                     "await_open", "initconn", "close_handler_done",
                                     "extra", "readfd", "writefd", "errfd",
                                     "flushing"} : w.c[g] = ch[e][g]
                        /\ WritePending(ch[e]) => WritePending(w.c)
<1> DEFINE c == ch[e]
           n == Head(net[e]).n
           fd    == IF type = "data" THEN c.writefd ELSE c.errfd
           avail == IF type = "data" THEN c.wsize - c.wbuf
                                     ELSE RecvWindow[e] - c.xbuf
           cut == fd < 0 \/ (type = "ext" /\ ~c.extra)
           w == [World(e) EXCEPT !.c.wbuf = IF type = "data" THEN @ + n ELSE @,
                                 !.c.xbuf = IF type = "ext"  THEN @ + n ELSE @,
                                 !.c.recvwindow = @ - n]
<1>1. c # NoChannel /\ IInv /\ c \in Channels /\ n \in Nat
  BY ThePacket DEF RecvData, PacketFor, Packet, OInv, IInv, Good
<1>2. \/ \E why : Exit(e, why)
      \/ Processed(e, World(e)) /\ UNCHANGED <<sel, sigp, child, status>>
      \/ /\ ~(c.recvwindow < n)
         /\ Processed(e, w) /\ UNCHANGED <<sel, sigp, child, status>>
  <2>1. IF c.recv_eof THEN Exit(e, "data after eof")
        ELSE IF cut THEN Processed(e, World(e)) /\ UNCHANGED <<sel, sigp, child, status>>
        ELSE IF n > avail THEN Exit(e, "oversized packet")
        ELSE IF c.recvwindow < n THEN Exit(e, "assert")
        ELSE Processed(e, w) /\ UNCHANGED <<sel, sigp, child, status>>
    BY DEF RecvData, env
  <2> HIDE DEF c, n, cut, avail, w
  <2>2. QED
    BY <2>1
<1>3. CASE Processed(e, World(e)) /\ UNCHANGED <<sel, sigp, child, status>>
  <2>1. PICK v : v = World(e)
    OBVIOUS
  <2>2. v.c = ch[e] /\ v.q = <<>> /\ Processed(e, v)
    BY <1>3, <2>1 DEF World
  <2>. QED  BY <1>1, <1>3, <2>2
<1>4. CASE /\ ~(c.recvwindow < n)
           /\ Processed(e, w) /\ UNCHANGED <<sel, sigp, child, status>>
  <2> DEFINE wbuf == IF type = "data" THEN c.wbuf + n ELSE c.wbuf
             xbuf == IF type = "ext"  THEN c.xbuf + n ELSE c.xbuf
             c1 == [c EXCEPT !.wbuf = wbuf, !.xbuf = xbuf, !.recvwindow = @ - n]
  <2>1. w.q = <<>> /\ w.c = c1
    BY <1>1 DEF World, Channels
  <2>2. c.recvwindow \in Nat /\ c.wbuf \in Nat /\ c.xbuf \in Nat
    BY <1>1 DEF Channels
  <2>3. /\ wbuf \in Nat /\ xbuf \in Nat /\ c.recvwindow - n \in Nat
        /\ wbuf >= c.wbuf /\ xbuf >= c.xbuf
    BY <1>1, <1>4, <2>2
  <2> HIDE DEF wbuf, xbuf
  <2>4. c1 \in Channels
    BY <1>1, <2>3 DEF Channels
  <2>5. /\ \A g \in {"sent_eof", "recv_eof", "sent_close", "recv_close",
                     "await_open", "initconn", "close_handler_done",
                     "extra", "readfd", "writefd", "errfd", "flushing"} :
              c1[g] = ch[e][g]
        /\ c1.wbuf = wbuf /\ c1.xbuf = xbuf
    BY <1>1 DEF Channels
  <2>6. c1 # NoChannel
    BY <2>4, NoChannelAssumption
  <2> HIDE DEF c1
  <2>7. WritePending(ch[e]) => WritePending(c1)
    BY <2>2, <2>3, <2>5 DEF WritePending
  <2>8. PICK v : v = w
    OBVIOUS
  <2>9. v.q = <<>> /\ v.c = c1 /\ Processed(e, v)
    BY <1>4, <2>1, <2>8
  <2> HIDE DEF w
  <2>. QED  BY <1>4, <2>5, <2>6, <2>7, <2>9
<1>. QED  BY <1>2, <1>3, <1>4

LEMMA RecvDataOrder ==
    ASSUME OInv, NEW e \in End, NEW type \in {"data", "ext"}, RecvData(e, type)
    PROVE  OInv'
<1>1. /\ pc[e] = "packet" /\ ch[e] # NoChannel
      /\ Head(net[e]).t \in {"data", "ext", "adjust", "winch"} /\ IInv'
  BY RecvDataIInv DEF RecvData, PacketFor, Packet, OInv
<1>. QED  BY <1>1, RecvDataReads, ExitOrder, QuietOrder

LEMMA RecvWindowChangeOrder == ASSUME OInv, RecvWindowChange PROVE OInv'
<1>1. /\ "A" \in End /\ pc["A"] = "packet" /\ ch["A"] # NoChannel
      /\ Head(net["A"]).t = "winch" /\ IInv
  BY DEF End, RecvWindowChange, PacketFor, Packet, OInv
<1>2. PICK v : v = World("A")
  OBVIOUS
<1>3. v.c = ch["A"] /\ v.q = <<>>
  BY <1>2 DEF World
<1>4. /\ IInv' /\ Processed("A", v)
      /\ UNCHANGED <<sel, sigp, child, status>>
  BY <1>1, <1>2, RecvWindowChangeIInv DEF RecvWindowChange, env
<1>. QED  BY <1>1, <1>3, <1>4, QuietOrder

\* An end that has said nothing yet may speak.
LEMMA WorldSpeaks ==
    ASSUME NEW e \in End, NEW c, NEW w, LiveWorld(e, w), w.c = c, w.q = <<>>,
           FdOK(e, c)
    PROVE  Speaks(e, c, w)
<1>1. Ordered(w.q) /\ Types(w.q) = {}
  BY OrderNone
<1>. QED  BY <1>1 DEF Speaks, Told, Kept

\* SIGCHLD in the middle of check_close()
LEMMA ChildFacts ==
    ASSUME OInv, NEW e, NEW exits \in BOOLEAN, ChildExitsMeanwhile(e, exits),
           sigp' => sigp \/ exits
    PROVE  /\ child' = child \/ (child = "running" /\ child' = "exited")
           /\ child' = "none" => ~sigp'
<1>o. Opening /\ sigp \in BOOLEAN
  BY DEF OInv, IInv, TypeOK
<1>. QED  BY <1>o DEF ChildExitsMeanwhile, Opening

\* What the handler of EOF or CLOSE makes of the channel before check_close()
LEMMA EofOrCloseRead ==
    ASSUME OInv, NEW e \in End, NEW type \in {"eof", "close"},
           RecvEofOrClose(e, type)
    PROVE  \E c \in Channels, w \in Worlds, exits \in BOOLEAN :
             /\ Speaks(e, c, w) /\ w.c = c /\ w.q = <<>> /\ ~w.bad
             /\ w.src = src[e] /\ w.out = 0
             /\ c.recv_eof /\ (c.recv_close <=> ch[e].recv_close \/ type = "close")
             /\ \A g \in {"sent_eof", "sent_close", "await_open", "initconn",
                          "transwindow", "recvwindow", "recvdonelen", "flushing",
                          "extra", "wbuf", "xbuf", "readfd", "writefd", "errfd"} :
                   c[g] = ch[e][g]
             /\ ChildExitsMeanwhile(e, exits) /\ sigp' = (sigp \/ exits)
             /\ Processed(e, CheckClose(e, w, Exited, Exited \/ exits))
<1> DEFINE closed == ch[e].recv_close \/ type = "close"
           c0 == [ch[e] EXCEPT !.recv_eof = TRUE, !.recv_close = closed]
<1>o. IInv /\ FdOK(e, ch[e])
  BY DEF OInv, Live, RecvEofOrClose, PacketFor
<1>1. ch[e] # NoChannel /\ ch[e] \in Channels /\ Good(e, ch[e])
  BY <1>o DEF RecvEofOrClose, PacketFor, IInv, Good
<1>2. PICK exits \in BOOLEAN :
        /\ ChildExitsMeanwhile(e, exits)
        /\ sigp' = (sigp \/ exits)
        /\ Processed(e, CheckClose(e,
             [World(e) EXCEPT !.c.recv_eof = TRUE,
                              !.c.recv_close = @ \/ type = "close"],
             Exited, Exited \/ exits))
  BY DEF RecvEofOrClose
<1>3. PICK c : c = c0
  OBVIOUS
<1>4. PICK w : w = [World(e) EXCEPT !.c = c]
  OBVIOUS
<1>5. [World(e) EXCEPT !.c.recv_eof = TRUE,
                       !.c.recv_close = @ \/ type = "close"] = w
  BY <1>1, <1>3, <1>4 DEF World, Channels
<1>6. /\ c \in Channels /\ c.recv_eof /\ (c.recv_close <=> closed)
      /\ \A g \in {"sent_eof", "sent_close", "await_open", "initconn",
                   "close_handler_done", "extra", "readfd", "writefd", "errfd",
                   "wsize", "transwindow", "recvwindow", "wbuf", "xbuf",
                   "recvdonelen", "flushing"} :
            c[g] = ch[e][g]
  <2>1. closed \in BOOLEAN
    <3>1. ch[e].recv_close \in BOOLEAN
      BY <1>1 DEF Channels
    <3>. QED  BY <3>1
  <2> HIDE DEF closed
  <2>. QED  BY <1>1, <1>3, <2>1 DEF Channels
<1>7. Good(e, c) /\ FdOK(e, c)
  BY <1>o, <1>1, <1>6 DEF Good, Accounted, FdOK
<1>8. /\ LiveWorld(e, w) /\ w.c = c /\ w.q = <<>> /\ ~w.bad
      /\ w.src = src[e] /\ w.out = 0
  <2>1. LiveWorld(e, w) /\ w.c = c /\ w.q = <<>>
    BY <1>4, <1>6, <1>7, WorldType, <1>o DEF LiveWorld, Worlds, World
  <2>2. ~w.bad /\ w.src = src[e] /\ w.out = 0
    BY <1>4 DEF World
  <2>. QED  BY <2>1, <2>2
<1>9. Speaks(e, c, w)
  BY <1>7, <1>8, WorldSpeaks
<1>10. Processed(e, CheckClose(e, w, Exited, Exited \/ exits))
  BY <1>2, <1>5
<1>11. \A g \in {"sent_eof", "sent_close", "await_open", "initconn",
                "transwindow", "recvwindow", "recvdonelen", "flushing",
                "extra", "wbuf", "xbuf", "readfd", "writefd", "errfd"} :
           c[g] = ch[e][g]
  BY <1>6
<1>12. c \in Channels
  BY <1>6
<1>13. w \in Worlds
  BY <1>8 DEF LiveWorld
<1>14. /\ Speaks(e, c, w) /\ w.c = c /\ w.q = <<>> /\ ~w.bad
       /\ w.src = src[e] /\ w.out = 0
       /\ c.recv_eof /\ (c.recv_close <=> ch[e].recv_close \/ type = "close")
       /\ ChildExitsMeanwhile(e, exits) /\ sigp' = (sigp \/ exits)
  BY <1>2, <1>6, <1>8, <1>9
<1>. QED  BY <1>10, <1>11, <1>12, <1>13, <1>14

LEMMA RecvEofOrCloseOrder ==
    ASSUME OInv, NEW e \in End, NEW type \in {"eof", "close"},
           RecvEofOrClose(e, type)
    PROVE  OInv'
<1>o. IInv
  BY DEF OInv
<1>1. /\ pc[e] = "packet" /\ ch[e] # NoChannel /\ Head(net[e]).t = type
      /\ net[e] # <<>>
  BY <1>o DEF RecvEofOrClose, PacketFor, Packet, IInv
<1>2. PICK c \in Channels, v \in Worlds, exits \in BOOLEAN :
             /\ Speaks(e, c, v) /\ v.c = c /\ v.q = <<>> /\ ~v.bad
             /\ c.recv_eof /\ (c.recv_close <=> ch[e].recv_close \/ type = "close")
             /\ \A g \in {"sent_eof", "sent_close", "await_open", "initconn",
                          "transwindow", "recvwindow", "recvdonelen", "flushing"} :
                   c[g] = ch[e][g]
             /\ ChildExitsMeanwhile(e, exits) /\ sigp' = (sigp \/ exits)
             /\ Processed(e, CheckClose(e, v, Exited, Exited \/ exits))
  BY EofOrCloseRead
<1>3. PICK w : w = CheckClose(e, v, Exited, Exited \/ exits)
  OBVIOUS
<1>4. Spoken(e, c, w)
  <2>1. Exited \in BOOLEAN /\ (Exited \/ exits) \in BOOLEAN
    BY DEF Exited
  <2>. QED  BY <1>2, <1>3, <2>1, CheckCloseSpoken
<1>5. /\ ~ch[e].await_open /\ ~ch[e].initconn
      /\ e = "A" => ~Due
  BY <1>1, Settled DEF Talk, Data
<1>6. PICK rest : rest = Tail(net[e])
  OBVIOUS
<1>7. Processed(e, w) /\ Done(e, w, rest, "io") /\ Reads(e, c, rest)
  BY <1>1, <1>2, <1>3, <1>6 DEF Processed, Reads
<1>8. /\ child' = child \/ (child = "running" /\ child' = "exited")
      /\ child' = "none" => ~sigp'
  BY <1>2, ChildFacts
<1>9. IInv' /\ sel' = sel /\ status' = status
  BY <1>o, RecvEofOrCloseIInv DEF RecvEofOrClose
<1>10. \A d \in End : pc'[d] = "select" => sel'[d] = {}
  BY <1>7, <1>9, ProcessedPc
<1>11. /\ c # NoChannel /\ ~c.await_open /\ ~c.initconn
       /\ c.sent_eof = ch[e].sent_eof /\ c.sent_close = ch[e].sent_close
  BY <1>2, <1>5, NoChannelAssumption
<1>12. \A d \in End : sel'[d] = sel[d] \/ sel'[d] = {}
  BY <1>9
<1>. QED  BY <1>1, <1>4, <1>5, <1>7, <1>8, <1>9, <1>10, <1>11, <1>12,
             DoneOrder, Zenon

\* The end has read a packet, says nothing and keeps the flags of its channel.
LEMMA QuietLinks ==
    ASSUME OInv, NEW e \in End, ch[e] # NoChannel, net[e] # <<>>,
           NEW w, w.q = <<>>, w.c # NoChannel, FdOK(e, w.c),
           \A g \in {"sent_eof", "recv_eof", "sent_close", "recv_close"} :
              w.c[g] = ch[e][g],
           Processed(e, w)
    PROVE  /\ ch'[e] = w.c /\ ch'[Peer(e)] = ch[Peer(e)]
           /\ net'[e] = Tail(net[e]) /\ net'[Peer(e)] = net[Peer(e)]
           /\ pc'[e] = "io" /\ pc'[Peer(e)] = pc[Peer(e)]
           /\ \A d \in End : Live(d)' => FdOK(d, ch'[d])
           /\ \A d \in End : Link(net'[d], ch'[d], ch'[Peer(d)])
<1>. DEFINE f == Peer(e)
<1>o. /\ IInv /\ net[e] \in Seq(Message) /\ net[f] \in Seq(Message)
      /\ Link(net[e], ch[e], ch[f]) /\ Link(net[f], ch[f], ch[e])
  BY TwoEnds DEF OInv, IInv, TypeOK
<1>1. /\ ch'[e] = w.c /\ ch'[f] = ch[f]
      /\ net'[e] = Tail(net[e]) /\ net'[f] = net[f] \o w.q
      /\ pc'[e] = "io" /\ pc'[f] = pc[f]
  <2>1. PICK rest : rest = Tail(net[e])
    OBVIOUS
  <2>2. Done(e, w, rest, "io")
    BY <2>1 DEF Processed
  <2>3. /\ ch'[e] = w.c /\ ch'[Peer(e)] = ch[Peer(e)]
        /\ net'[e] = rest /\ net'[Peer(e)] = net[Peer(e)] \o w.q
        /\ pc'[e] = "io" /\ pc'[Peer(e)] = pc[Peer(e)]
    BY <1>o, <2>2, DoneFacts, Zenon
  <2>. QED  BY <2>1, <2>3
<1>2. net'[f] = net[f]
  BY <1>o, <1>1, ConcatEmptySeq
<1>3. Link(net'[e], ch'[e], ch'[f])
  <2>1. ch[f] # NoChannel /\ ch[f].sent_close => ch[f].sent_eof
    BY TwoEnds DEF OInv, Live, FdOK
  <2>2. PICK q : q = net[e]
    OBVIOUS
  <2>3. PICK c : c = w.c
    OBVIOUS
  <2>4. PICK s : s = ch[f]
    OBVIOUS
  <2>5. PICK d : d = ch[e]
    OBVIOUS
  <2>6. /\ c.recv_eof = d.recv_eof /\ c.recv_close = d.recv_close
        /\ q \in Seq(Message) /\ q # <<>> /\ Link(q, d, s) /\ d # NoChannel
        /\ s # NoChannel /\ s.sent_close => s.sent_eof
    BY <1>o, <2>1, <2>2, <2>3, <2>4, <2>5
  <2>7. Link(Tail(q), c, s)
    BY <2>6, ReceiverLinks
  <2>. QED  BY <1>1, <2>2, <2>3, <2>4, <2>7
<1>4. Link(net'[f], ch'[f], ch'[e])
  BY <1>o, <1>1, <1>2 DEF Link
<1>5. \A d \in End : Live(d)' => FdOK(d, ch'[d])
  BY <1>1, TwoEnds DEF OInv, Live
<1>. QED  BY <1>1, <1>2, <1>3, <1>4, <1>5, TwoEnds

LEMMA RecvExitStatusOrder == ASSUME OInv, RecvExitStatus PROVE OInv'
<1>o. IInv /\ Opening /\ Reported
  BY DEF OInv
<1>1. /\ "I" \in End /\ pc["I"] = "packet" /\ ch["I"] # NoChannel
      /\ Head(net["I"]).t = "exit" /\ net["I"] # <<>> /\ net["I"] \in Seq(Message)
  BY <1>o DEF End, RecvExitStatus, PacketFor, Packet, IInv, TypeOK
<1>2. IInv' /\ UNCHANGED <<sel, sigp, child>>
  BY <1>o, RecvExitStatusIInv DEF RecvExitStatus
<1>3. PICK w : w = World("I")
  OBVIOUS
<1>4. w.c = ch["I"] /\ w.q = <<>> /\ Processed("I", w)
  BY <1>3 DEF World, RecvExitStatus
<1>5. FdOK("I", w.c)
  BY <1>1, <1>4 DEF OInv, Live
<1>6. /\ ch'["I"] = ch["I"] /\ ch'["A"] = ch["A"]
      /\ net'["I"] = Tail(net["I"]) /\ net'["A"] = net["A"]
      /\ pc'["I"] = "io" /\ pc'["A"] = pc["A"]
      /\ \A d \in End : Live(d)' => FdOK(d, ch'[d])
      /\ \A d \in End : Link(net'[d], ch'[d], ch'[Peer(d)])
  BY <1>1, <1>4, <1>5, TwoEnds, QuietLinks
<1>7. Types(net'["I"]) \subseteq Types(net["I"])
  BY <1>1, <1>6, OrderTaken
<1>8. ~ch["I"].await_open
  BY <1>1, Settled DEF Talk, Data
<1>9. status' = IF ch["I"].sent_close THEN status ELSE "received"
  BY DEF RecvExitStatus
<1>10. status' # "unopened"
  BY <1>o, <1>1, <1>9 DEF Opening, Live
<1>11. ~Asking /\ ~Asking' /\ ~Connecting /\ ~Connecting'
  BY <1>o, <1>6, <1>8 DEF Asking, Live, Connecting, Opening
<1>12. Opening'
  BY <1>o, <1>2, <1>6, <1>7, <1>10, <1>11, TwoEnds DEF Opening, Live, Due
<1>13. Reported'
  BY <1>6, <1>9, <1>1 DEF Reported, Live
<1>. QED  BY <1>2, <1>6, <1>12, <1>13 DEF OInv

\* The shell is started on a session that is as newchansess() left it.
LEMMA RecvShellOrder == ASSUME OInv, RecvShell PROVE OInv'
<1> DEFINE c == ch["A"]
           c1 == [c EXCEPT !.writefd = PTYFD, !.readfd = PTYFD]
           c2 == [c EXCEPT !.writefd = PIPEIN, !.readfd = PIPEOUT,
                           !.errfd = PIPEERR]
<1>o. IInv /\ Opening /\ Reported
  BY DEF OInv
<1>1. /\ "A" \in End /\ pc["A"] = "packet" /\ ch["A"] # NoChannel
      /\ Head(net["A"]).t = "shell" /\ net["A"] # <<>> /\ net["A"] \in Seq(Message)
      /\ Ordered(net["A"]) /\ ch["A"] \in Channels
  BY <1>o DEF OInv, Link, End, RecvShell, PacketFor, Packet, IInv, TypeOK
<1>2. IInv' /\ UNCHANGED <<sel, sigp, status>>
  BY <1>o, RecvShellIInv DEF RecvShell
<1>3. /\ Types(net["A"]) = {"shell"} \cup Types(Tail(net["A"]))
      /\ \A t \in Types(Tail(net["A"])) : After("shell", t)
  BY <1>1, OrderTaken
<1>4. /\ HasCheckClose("A") /\ child = "none" /\ Fresh(c) /\ ~Asking /\ FdOK("A", c)
  <2>1. HasCheckClose("A") /\ Due
    BY <1>o, <1>3 DEF Opening, Due
  <2>2. ~Asking
    BY <1>o, <1>3 DEF Opening
  <2>. QED  BY <1>o, <1>1, <2>1, <2>2 DEF Opening, OInv, Live
<1>5. PICK w : /\ Processed("A", w) /\ w.q = <<>> /\ w.c \in {c, c1, c2}
               /\ child' \in {child, "running"}
  <2>1. /\ World("A").q = <<>> /\ [World("A") EXCEPT !.c = c1].q = <<>>
        /\ [World("A") EXCEPT !.c = c2].q = <<>>
        /\ World("A").c = c /\ [World("A") EXCEPT !.c = c1].c = c1
        /\ [World("A") EXCEPT !.c = c2].c = c2
    BY DEF World
  <2>2. /\ \/ Processed("A", World("A"))
           \/ Processed("A", [World("A") EXCEPT !.c = c1])
           \/ Processed("A", [World("A") EXCEPT !.c = c2])
        /\ child' \in {child, "running"}
    BY DEF RecvShell
  <2> HIDE DEF c, c1, c2
  <2>. QED  BY <2>1, <2>2
<1>6. PICK n : n = w.c
  OBVIOUS
<1>7. /\ n \in Channels
      /\ \A g \in {"sent_eof", "recv_eof", "sent_close", "recv_close", "await_open",
                   "initconn", "close_handler_done", "extra"} : n[g] = c[g]
  BY ZenonT(60), <1>1, <1>5, <1>6 DEF Channels, Fd
<1>8. ~SepFds("A")
  BY <1>4, TypeAssumption DEF HasCheckClose, SepFds, Type
<1>9. FdOK("A", n) /\ n # NoChannel
  BY <1>4, <1>7, <1>8, NoChannelAssumption DEF FdOK, Fresh
<1>. HIDE DEF c, c1, c2
<1>10. /\ ch'["A"] = n /\ ch'["I"] = ch["I"]
       /\ net'["A"] = Tail(net["A"]) /\ net'["I"] = net["I"]
       /\ pc'["A"] = "io" /\ pc'["I"] = pc["I"]
       /\ \A d \in End : Live(d)' => FdOK(d, ch'[d])
       /\ \A d \in End : Link(net'[d], ch'[d], ch'[Peer(d)])
  <2>1. \A g \in {"sent_eof", "recv_eof", "sent_close", "recv_close"} :
           w.c[g] = ch["A"][g]
    BY <1>6, <1>7 DEF c
  <2>2. w.q = <<>> /\ w.c # NoChannel /\ FdOK("A", w.c) /\ Processed("A", w)
    BY <1>5, <1>6, <1>9
  <2>. QED  BY <1>1, <1>6, <2>1, <2>2, TwoEnds, QuietLinks
<1>11. Types(net'["A"]) \subseteq Types(net["A"]) /\ "shell" \notin Types(net'["A"])
  BY <1>3, <1>10 DEF After
<1>12. /\ ~Asking' /\ ~Connecting' /\ ~Due' /\ Live("A") /\ Live("A")'
       /\ ~ch'["A"].await_open /\ ~Connecting
  BY <1>o, <1>1, <1>4, <1>7, <1>9, <1>10, <1>11
     DEF Asking, Connecting, Due, Live, Opening, Fresh, c
<1>13. status' # "unopened" /\ "open" \notin Types(net'["A"])
  BY <1>o, <1>1, <1>2, <1>11, <1>12 DEF Opening
<1>14. child' = "none" => ~sigp'
  BY <1>o, <1>2, <1>4 DEF Opening
<1>15. Opening'
  BY <1>o, <1>2, <1>4, <1>10, <1>11, <1>12, <1>13, <1>14, TwoEnds DEF Opening, Live
<1>16. Reported'
  BY <1>o, <1>2, <1>10 DEF Reported, Live
<1>. QED  BY <1>2, <1>10, <1>15, <1>16 DEF OInv

\* No type, no packet
LEMMA NoTypes ==
    ASSUME NEW q \in Seq(Message), Types(q) = {}
    PROVE  q = <<>>
<1>1. SUFFICES ASSUME q # <<>> PROVE FALSE
  OBVIOUS
<1>. QED  BY <1>1, OrderTaken

\* The opener reads the answer to its request.
LEMMA Answered ==
    ASSUME OInv, pc["I"] = "packet", ch["I"] # NoChannel, ch["I"].await_open
    PROVE  /\ Asking /\ ~Connecting
           /\ net["I"] \in Seq(Message) /\ net["I"] # <<>> /\ net["A"] = <<>>
           /\ FdOK("I", ch["I"]) /\ ~ch["I"].sent_close /\ ~ch["I"].recv_close
           /\ ch["I"].close_handler_done = FALSE /\ ch["I"] \in Channels
<1>o. IInv /\ Opening /\ FdOK("I", ch["I"])
  BY TwoEnds DEF OInv, Live
<1>1. Asking /\ net["I"] # <<>> /\ ch["I"] \in Channels
  BY <1>o, TwoEnds DEF Asking, Live, IInv, Good
<1>2. net["A"] \in Seq(Message) /\ net["I"] \in Seq(Message)
  BY <1>o, TwoEnds DEF IInv, TypeOK
<1>3. Types(net["A"]) = {}
  BY <1>o, <1>1 DEF Opening
<1>4. net["A"] = <<>>
  BY <1>2, <1>3, NoTypes
<1>5. ~ch["I"].sent_eof /\ ~ch["I"].recv_eof /\ ~Connecting
  BY <1>o, <1>1 DEF Opening
<1>6. ~ch["I"].sent_close /\ ~ch["I"].recv_close /\ ~ch["I"].close_handler_done
  BY <1>o, <1>5 DEF FdOK
<1>7. ch["I"].close_handler_done \in BOOLEAN
  BY <1>1 DEF Channels
<1>. QED  BY <1>o, <1>1, <1>2, <1>4, <1>5, <1>6, <1>7

LEMMA RecvConfirmationOrder == ASSUME OInv, RecvConfirmation PROVE OInv'
<1> DEFINE c == [ch["I"] EXCEPT !.await_open = FALSE,
                                !.transwindow = Head(net["I"]).n]
           c1 == InitStdpipe(c)
           q == IF HasCheckClose("A") THEN <<Msg("shell", 0)>> ELSE <<>>
           w1 == [World("I") EXCEPT !.c = c]
           w2 == [World("I") EXCEPT !.c = c1, !.q = q]
<1>o. IInv /\ Opening /\ Reported
  BY DEF OInv
<1>1. /\ "I" \in End /\ pc["I"] = "packet" /\ ch["I"] # NoChannel
      /\ Head(net["I"]).t = "confirm"
  BY <1>o DEF End, RecvConfirmation, PacketFor, Packet
<1>2. IInv'
  BY <1>o, RecvConfirmationIInv
<1>3. CASE ~ch["I"].await_open
  <2>1. Exit("I", "unexpected reply")
    BY <1>3 DEF RecvConfirmation
  <2>. QED  BY <1>2, <2>1, ExitOrder
<1>4. CASE ch["I"].await_open
  <2>1. /\ Asking /\ ~Connecting
        /\ net["I"] \in Seq(Message) /\ net["I"] # <<>> /\ net["A"] = <<>>
        /\ FdOK("I", ch["I"]) /\ ~ch["I"].sent_close /\ ~ch["I"].recv_close
        /\ ch["I"].close_handler_done = FALSE /\ ch["I"] \in Channels
    BY <1>1, <1>4, Answered
  <2>2. /\ IF TypeI # "stdpipes" THEN Processed("I", w1) ELSE Processed("I", w2)
        /\ UNCHANGED <<sel, sigp, child, status>>
    BY <1>4 DEF RecvConfirmation, env
  <2>3. PICK w : /\ Processed("I", w) /\ w = IF TypeI # "stdpipes" THEN w1 ELSE w2
    BY <2>2
  <2>4. PICK n : n = w.c
    OBVIOUS
  <2>5. PICK r : r = w.q
    OBVIOUS
  <2>6. n = (IF TypeI # "stdpipes" THEN c ELSE c1) /\ r = (IF TypeI # "stdpipes" THEN <<>> ELSE q)
    BY <2>3, <2>4, <2>5 DEF World
  <2>7. r \in Seq(Message) /\ Ordered(r) /\ Types(r) \subseteq {"shell"}
        /\ ("shell" \in Types(r) => HasCheckClose("A"))
    <3>1. r = <<>> \/ (HasCheckClose("A") /\ r = <<Msg("shell", 0)>>)
      BY <2>6
    <3>2. CASE r = <<>>
      BY <3>2, OrderNone, EmptySeq
    <3>3. CASE HasCheckClose("A") /\ r = <<Msg("shell", 0)>>
      <4>1. PICK m : m = Msg("shell", 0)
        OBVIOUS
      <4>2. m \in Message /\ m.t = "shell"
        BY <4>1, MsgMessage DEF Msg, MsgType
      <4>. QED  BY <3>3, <4>1, <4>2, OrderOne
    <3>. QED  BY <3>1, <3>2, <3>3
  <2>8. Head(net["I"]).n \in Nat
    BY <1>o, <1>1, ThePacket
  <2>9. /\ c \in Channels /\ ~c.await_open
        /\ \A g \in {"sent_eof", "recv_eof", "sent_close", "recv_close", "initconn",
                     "close_handler_done", "extra", "errfd", "readfd", "writefd"} :
              c[g] = ch["I"][g]
    BY <2>1, <2>8 DEF Channels
  <2>10. /\ n # NoChannel /\ ~n.await_open
         /\ \A g \in {"sent_eof", "recv_eof", "sent_close", "recv_close", "initconn",
                      "close_handler_done"} : n[g] = ch["I"][g]
         /\ TypeI # "stdpipes" => n = c
    <3>. HIDE DEF c
    <3>1. c1 \in Channels
      BY <2>9 DEF InitStdpipe, Channels, Fd
    <3>2. /\ ~c1.await_open
          /\ \A g \in {"sent_eof", "recv_eof", "sent_close", "recv_close", "initconn",
                       "close_handler_done"} : c1[g] = c[g]
      BY <2>9 DEF InitStdpipe, Channels
    <3>. HIDE DEF c1
    <3>. QED  BY <2>6, <2>9, <3>1, <3>2, NoChannelAssumption
  <2>11. ~ch["I"].sent_eof /\ ~ch["I"].recv_eof
    BY <1>o, <2>1 DEF Opening
  <2>12. FdOK("I", n)
    <3>1. CASE TypeI = "stdpipes"
      BY <2>1, <2>10, <2>11, <3>1 DEF FdOK, SepFds, Type
    <3>2. CASE TypeI # "stdpipes"
      BY <2>1, <2>9, <2>10, <2>11, <3>2 DEF FdOK
    <3>. QED  BY <3>1, <3>2
  <2>. HIDE DEF c, c1, q, w1, w2
  <2>13. /\ ch'["I"] = n /\ ch'["A"] = ch["A"]
         /\ net'["I"] = Tail(net["I"]) /\ net'["A"] = net["A"] \o r
         /\ pc'["I"] = "io" /\ pc'["A"] = pc["A"]
    BY ZenonT(60), <1>o, <2>3, <2>4, <2>5, TwoEnds DEF Processed, Done, IInv, TypeOK
  <2>14. net'["A"] = r
    BY <2>1, <2>7, <2>13, ConcatEmptySeq
  <2>15. Link(net'["I"], ch'["I"], ch'["A"])
    <3>1. Link(net["I"], ch["I"], ch["A"])
      BY TwoEnds DEF OInv
    <3>2. ch["A"] # NoChannel /\ ch["A"].sent_close => ch["A"].sent_eof
      BY TwoEnds DEF OInv, Live, FdOK
    <3>3. /\ ~n.recv_eof /\ ~n.recv_close
      BY <2>1, <2>10, <2>11
    <3>4. PICK p : p = net["I"]
      OBVIOUS
    <3>5. p \in Seq(Message) /\ p # <<>> /\ Link(p, ch["I"], ch["A"])
      BY <2>1, <3>1, <3>4
    <3>6. Link(Tail(p), n, ch["A"])
      BY <3>2, <3>3, <3>5, ReceiverLinks
    <3>. QED  BY <2>13, <3>4, <3>6
  <2>16. Live("A") => (HasCheckClose("A") => Fresh(ch["A"])) /\ FdOK("A", ch["A"])
    BY <1>o, <2>1, TwoEnds DEF Opening, Due, OInv
  <2>17. Link(net'["A"], ch'["A"], ch'["I"])
    <3>1. Link(net["A"], ch["A"], ch["I"])
      BY TwoEnds DEF OInv
    <3>2. Link(r, ch["A"], n)
      BY <3>1, <1>1, <2>7, <2>10, <2>16 DEF Link, Live, Fresh, FdOK
    <3>. QED  BY <2>13, <2>14, <3>2
  <2>18. \A d \in End : Live(d)' => FdOK(d, ch'[d])
    BY <2>12, <2>13, TwoEnds DEF OInv, Live
  <2>19. /\ Types(net'["I"]) \subseteq Types(net["I"])
         /\ Types(net["I"]) = {"confirm"} \cup Types(net'["I"])
    BY <1>1, <2>1, <2>13, OrderTaken
  <2>20. ~Asking' /\ ~Connecting' /\ Live("I") /\ Live("I")'
    BY <1>1, <2>1, <2>10, <2>13 DEF Asking, Connecting, Live
  <2>21. status' # "unopened"
    BY <1>o, <2>2, <2>20, TwoEnds DEF Opening
  <2>22. Due' => child' = "none" /\ (Live("A")' => Fresh(ch'["A"]))
    BY <1>o, <2>1, <2>2, <2>7, <2>13, <2>14, <2>20 DEF Opening, Due, Live
  <2>23. ~ch'["I"].initconn
    BY <1>o, <2>10, <2>13, <2>20 DEF Opening
  <2>24. Opening'
    BY <1>o, <2>2, <2>7, <2>13, <2>14, <2>19, <2>20, <2>21, <2>22, <2>23, TwoEnds
       DEF Opening, Live
  <2>25. Reported'
    BY <1>o, <2>1, <2>2, <2>13, <2>19, <2>20 DEF Reported, Live
  <2>. QED  BY <1>2, <2>15, <2>17, <2>18, <2>24, <2>25, TwoEnds DEF OInv
<1>. QED  BY <1>3, <1>4

LEMMA RecvFailureOrder == ASSUME OInv, RecvFailure PROVE OInv'
<1>o. IInv /\ Opening /\ Reported
  BY DEF OInv
<1>1. /\ "I" \in End /\ pc["I"] = "packet" /\ ch["I"] # NoChannel
      /\ Head(net["I"]).t = "failure"
  BY <1>o DEF End, RecvFailure, PacketFor, Packet
<1>2. IInv'
  BY <1>o, RecvFailureIInv
<1>3. CASE ~ch["I"].await_open
  <2>1. Exit("I", "unexpected reply")
    BY <1>3 DEF RecvFailure
  <2>. QED  BY <1>2, <2>1, ExitOrder
<1>4. CASE ch["I"].await_open
  <2>1. /\ Asking /\ ~Connecting
        /\ net["I"] \in Seq(Message) /\ net["I"] # <<>> /\ net["A"] = <<>>
    BY <1>1, <1>4, Answered
  <2>2. PICK w : w = RemoveChannel("I", World("I"), FALSE)
    OBVIOUS
  <2>3. Processed("I", w) /\ UNCHANGED <<sel, sigp, child, status>>
    BY <1>4, <2>2 DEF RecvFailure, env
  <2>4. w.c = NoChannel /\ w.q = <<>>
    <3>1. ~HasCheckClose("I")
      BY TypeAssumption DEF HasCheckClose, Type
    <3>2. World("I").q = <<>>
      BY DEF World
    <3>. QED  BY <2>2, <3>1, <3>2 DEF RemoveChannel, RunCloseHandler, World
  <2>5. /\ ch'["I"] = NoChannel /\ ch'["A"] = ch["A"]
        /\ net'["I"] = Tail(net["I"]) /\ net'["A"] = net["A"] \o <<>>
        /\ pc'["I"] = "io" /\ pc'["A"] = pc["A"]
    BY ZenonT(60), <1>o, <2>3, <2>4, TwoEnds DEF Processed, Done, IInv, TypeOK
  <2>6. net'["A"] = <<>>
    BY <2>1, <2>5, EmptySeq, ConcatEmptySeq
  <2>7. /\ Types(net["I"]) = {"failure"} \cup Types(net'["I"])
        /\ Tail(net["I"]) \in Seq(Message)
        /\ Ordered(net["I"]) => \A t \in Types(net'["I"]) : After("failure", t)
    BY <1>1, <2>1, <2>5, OrderTaken
  <2>8. Ordered(net["I"]) /\ ch["A"] = NoChannel
    <3>1. Link(net["I"], ch["I"], ch["A"])
      BY TwoEnds DEF OInv
    <3>. QED  BY <2>7, <3>1 DEF Link
  <2>9. Types(net'["I"]) = {} /\ net'["I"] = <<>>
    <3>1. Types(net'["I"]) = {}
      BY <2>7, <2>8 DEF After
    <3>. QED  BY <2>5, <2>7, <3>1, NoTypes
  <2>10. \A d \in End : ~Live(d)' /\ net'[d] = <<>>
    BY <2>5, <2>6, <2>8, <2>9, TwoEnds DEF Live
  <2>11. \A d \in End : Link(net'[d], ch'[d], ch'[Peer(d)])
    BY <2>10, OrderNone, TwoEnds DEF Link, Live
  <2>12. Types(net'["A"]) = {} /\ Types(net'["I"]) = {}
    BY <2>6, <2>9, OrderNone
  <2>13. ~Asking' /\ ~Connecting' /\ ~Due' /\ Live("I")
    BY <1>1, <2>10, <2>12, TwoEnds DEF Asking, Connecting, Due, Live
  <2>14. status' # "unopened"
    BY <1>o, <2>3, <2>13, TwoEnds DEF Opening
  <2>15. Opening'
    BY <1>o, <2>3, <2>5, <2>10, <2>12, <2>13, <2>14, TwoEnds DEF Opening
  <2>16. Reported'
    BY <2>12 DEF Reported
  <2>. QED  BY <1>2, <2>10, <2>11, <2>15, <2>16 DEF OInv
<1>. QED  BY <1>3, <1>4

LEMMA OneOrder ==
    ASSUME NEW t \in MsgType, NEW n \in Nat
    PROVE  /\ <<Msg(t, n)>> \in Seq(Message) /\ <<Msg(t, n)>> # <<>>
           /\ Ordered(<<Msg(t, n)>>) /\ Types(<<Msg(t, n)>>) = {t}
           /\ Head(<<Msg(t, n)>>).t = t
<1>1. PICK m : m = Msg(t, n)
  OBVIOUS
<1>2. m \in Message /\ m.t = t
  BY <1>1, MsgMessage DEF Msg
<1>. QED  BY <1>1, <1>2, OrderOne

\* The request is answered: there is an end to it, connecting or ready, or not.
LEMMA RecvOpenOrder == ASSUME OInv, RecvOpen PROVE OInv'
<1> DEFINE new == NewChannel(MinOf(Head(net["A"]).n, TransMaxWindow))
           c == InitHandler(new)
           w1 == [World("A") EXCEPT !.q = <<Msg("failure", 0)>>]
           w2 == [World("A") EXCEPT !.c = c]
           w3 == [World("A") EXCEPT !.c = InitWriteBuf("A", c), !.bad = ~InitWriteBufOk(c),
                           !.q = <<Msg("confirm", RecvWindow["A"])>>]
<1>o. IInv /\ Opening /\ Reported
  BY DEF OInv
<1>1. /\ "A" \in End /\ pc["A"] = "packet" /\ Head(net["A"]).t = "open"
      /\ net["A"] \in Seq(Message) /\ net["A"] # <<>> /\ net["I"] \in Seq(Message)
      /\ Ordered(net["A"])
  BY <1>o, TwoEnds DEF RecvOpen, Packet, IInv, TypeOK, OInv, Link
<1>2. /\ IInv' /\ UNCHANGED <<sel, sigp, child, status>>
  BY <1>o, RecvOpenIInv DEF RecvOpen, env
<1>3. /\ Types(net["A"]) = {"open"} \cup Types(Tail(net["A"]))
      /\ Tail(net["A"]) \in Seq(Message)
      /\ \A t \in Types(Tail(net["A"])) : After("open", t)
  BY <1>1, OrderTaken
<1>4. /\ Asking /\ ~Live("A") /\ net["I"] = <<>>
      /\ ~ch["I"].sent_eof /\ ~ch["I"].recv_eof /\ Types(net["A"]) \subseteq {"open"}
  BY <1>o, <1>3 DEF Opening
<1>5. Types(Tail(net["A"])) = {} /\ Tail(net["A"]) = <<>>
  <2>1. Types(Tail(net["A"])) = {}
    BY <1>3, <1>4 DEF After
  <2>. QED  BY <1>3, <2>1, NoTypes
<1>6. /\ ch["I"] # NoChannel /\ ch["A"] = NoChannel
      /\ ~ch["I"].sent_close /\ ~ch["I"].recv_close
  BY <1>4, TwoEnds DEF Asking, Live, OInv, FdOK
<1>7. /\ new.readfd = FD_UNINIT /\ new.writefd = FD_UNINIT /\ new.errfd = FD_CLOSED
      /\ ~new.initconn /\ ~new.await_open /\ ~new.extra /\ ~new.sent_eof /\ ~new.recv_eof
      /\ ~new.sent_close /\ ~new.recv_close /\ ~new.close_handler_done
      /\ new \in Channels
  <2>1. MinOf(Head(net["A"]).n, TransMaxWindow) \in Nat
    BY <1>o, <1>1, ThePacket, WindowAssumption DEF MinOf
  <2>2. new \in Channels
    BY <2>1, NewChannelType
  <2>. QED  BY <2>2 DEF NewChannel
<1>8. /\ c \in Channels /\ c.initconn = (TypeA = "tcp")
      /\ c.errfd < 0 /\ ~c.extra
      /\ TypeA = "tcp" => c.readfd < 0
      /\ HasCheckClose("A") => c.readfd < 0 /\ c.writefd < 0
      /\ ~c.await_open /\ ~c.sent_eof /\ ~c.recv_eof
      /\ ~c.sent_close /\ ~c.recv_close /\ ~c.close_handler_done
  <2>1. SOCKFD \in Fd /\ FD_UNINIT < 0 /\ FD_CLOSED < 0
    BY DEF Fd, FD_UNINIT, FD_CLOSED
  <2> HIDE DEF new
  <2>2. new.initconn = FALSE
    BY <1>7 DEF Channels
  <2>3. CASE TypeA = "tcp"
    <3>1. c = [new EXCEPT !.writefd = SOCKFD, !.initconn = TRUE]
      BY <2>3 DEF InitHandler
    <3> HIDE DEF c
    <3>. QED  BY <1>7, <2>1, <2>3, <3>1 DEF Channels, HasCheckClose, Type
  <2>4. CASE TypeA = "sock"
    <3>1. c = [new EXCEPT !.writefd = SOCKFD, !.readfd = SOCKFD]
      BY <2>4 DEF InitHandler
    <3> HIDE DEF c
    <3>. QED  BY <1>7, <2>1, <2>2, <2>4, <3>1 DEF Channels, HasCheckClose, Type
  <2>5. CASE TypeA # "tcp" /\ TypeA # "sock"
    <3>1. c = new
      BY <2>5 DEF InitHandler
    <3>. QED  BY <1>7, <2>1, <2>2, <2>5, <3>1
  <2>. QED  BY <2>3, <2>4, <2>5
<1> HIDE DEF new, c
<1>9. PICK n, r, w :
        /\ Processed("A", w) /\ w.c = n /\ w.q = r
        /\ \/ n = NoChannel /\ r = <<Msg("failure", 0)>>
           \/ c.initconn /\ n = c /\ r = <<>>
           \/ /\ ~c.initconn /\ n = InitWriteBuf("A", c)
              /\ r = <<Msg("confirm", RecvWindow["A"])>>
  <2>1. \/ Processed("A", w1)
        \/ c.initconn /\ Processed("A", w2)
        \/ ~c.initconn /\ Processed("A", w3)
    BY DEF RecvOpen, new, c
  <2>2. /\ w1.c = NoChannel /\ w1.q = <<Msg("failure", 0)>>
        /\ w2.c = c /\ w2.q = <<>>
        /\ w3.c = InitWriteBuf("A", c) /\ w3.q = <<Msg("confirm", RecvWindow["A"])>>
    BY <1>6 DEF World
  <2> HIDE DEF w1, w2, w3
  <2>. QED  BY <2>1, <2>2
<1>10. /\ r \in Seq(Message) /\ Ordered(r) /\ Types(r) \subseteq {"failure", "confirm"}
       /\ r # <<>> => Head(r).t \in {"failure", "confirm"}
       /\ n # NoChannel => "failure" \notin Types(r)
  <2>1. RecvWindow["A"] \in Nat /\ {"failure", "confirm"} \subseteq MsgType
    BY <1>1, WindowAssumption DEF MsgType
  <2>2. InitWriteBuf("A", c) # NoChannel /\ c # NoChannel
    <3>1. InitWriteBuf("A", c) \in Channels
      BY <1>8, <2>1 DEF InitWriteBuf, Channels
    <3>. QED  BY <1>8, <3>1, NoChannelAssumption
  <2>3. CASE n = NoChannel /\ r = <<Msg("failure", 0)>>
    BY <2>1, <2>3, OneOrder
  <2>4. CASE r = <<>>
    BY <2>4, OrderNone, EmptySeq
  <2>5. CASE r = <<Msg("confirm", RecvWindow["A"])>>
    BY <2>1, <2>5, OneOrder
  <2>. QED  BY <1>9, <2>3, <2>4, <2>5
<1>11. n # NoChannel =>
         /\ n.initconn = (TypeA = "tcp") /\ (n.initconn => r = <<>>)
         /\ (~n.initconn => r # <<>>)
         /\ n.errfd < 0 /\ ~n.extra
         /\ TypeA = "tcp" => n.readfd < 0
         /\ HasCheckClose("A") => n.readfd < 0 /\ n.writefd < 0
         /\ ~n.await_open /\ ~n.sent_eof /\ ~n.recv_eof
         /\ ~n.sent_close /\ ~n.recv_close /\ ~n.close_handler_done
  <2>1. CASE n = InitWriteBuf("A", c) /\ ~c.initconn /\ r = <<Msg("confirm", RecvWindow["A"])>>
    <3>1. \A g \in {"initconn", "errfd", "extra", "readfd", "writefd", "await_open",
                   "sent_eof", "recv_eof", "sent_close", "recv_close",
                   "close_handler_done"} : n[g] = c[g]
      BY <1>8, <2>1 DEF InitWriteBuf, Channels
    <3>2. r # <<>>
      BY <2>1
    <3>. QED  BY <1>8, <2>1, <3>1, <3>2
  <2>2. CASE c.initconn /\ n = c /\ r = <<>>
    BY <1>8, <2>2
  <2>. QED  BY <1>9, <2>1, <2>2
<1>12. /\ ch'["A"] = n /\ ch'["I"] = ch["I"]
       /\ net'["A"] = <<>> /\ net'["I"] = r
       /\ pc'["A"] = "io" /\ pc'["I"] = pc["I"]
  <2>1. /\ ch'["A"] = n /\ ch'["I"] = ch["I"]
        /\ net'["A"] = Tail(net["A"]) /\ net'["I"] = net["I"] \o r
        /\ pc'["A"] = "io" /\ pc'["I"] = pc["I"]
    BY ZenonT(60), <1>o, <1>9, TwoEnds DEF Processed, Done, IInv, TypeOK
  <2>. QED  BY <1>4, <1>5, <1>10, <2>1, ConcatEmptySeq
<1>13. Types(net'["A"]) = {}
  BY <1>12, OrderNone
<1>14. Link(net'["I"], ch'["I"], ch'["A"])
  BY <1>4, <1>6, <1>10, <1>12 DEF Link
<1>15. Link(net'["A"], ch'["A"], ch'["I"])
  BY <1>11, <1>12, <1>13, OrderNone DEF Link
<1>16. \A d \in End : Live(d)' => FdOK(d, ch'[d])
  <2>1. n # NoChannel => FdOK("A", n)
    BY <1>11 DEF FdOK
  <2>. QED  BY <1>12, <2>1, TwoEnds DEF OInv, Live
<1>17. Asking' /\ status' # "unopened"
  BY <1>o, <1>2, <1>4, <1>12, TwoEnds DEF Asking, Live, Opening
<1>18. Connecting' => /\ net'["I"] = <<>> /\ TypeA = "tcp" /\ ~ch'["A"].sent_eof
                      /\ ch'["A"].readfd < 0 /\ ~ch'["A"].extra
  BY <1>11, <1>12 DEF Connecting, Live
<1>19. Live("A")' /\ ~ch'["A"].initconn => net'["I"] # <<>>
  BY <1>11, <1>12 DEF Live
<1>20. Due' => child' = "none" /\ (Live("A")' => Fresh(ch'["A"]))
  <2>1. HasCheckClose("A") => TypeA # "tcp"
    BY DEF HasCheckClose, Type
  <2>2. Due' => child' = "none"
    BY <1>o, <1>2, <1>4 DEF Opening, Due
  <2>. QED  BY <1>11, <1>12, <2>1, <2>2 DEF Due, Live, Fresh
<1>21. ~ch'["I"].initconn /\ (Live("A")' => ~ch'["A"].await_open)
  BY <1>o, <1>4, <1>11, <1>12 DEF Opening, Asking, Live
<1>22. \A d \in End : pc'[d] = "select" => sel'[d] = {}
  BY <1>o, <1>2, <1>12, TwoEnds DEF Opening
<1>23. Asking' => /\ ch'["I"].transwindow = 0 /\ ch'["I"].wbuf = 0
                  /\ ~ch'["I"].extra /\ ~ch'["I"].sent_eof /\ ~ch'["I"].recv_eof
                  /\ sel'["I"] = {}
                  /\ net'["I"] # <<>> => Head(net'["I"]).t \in {"confirm", "failure"}
  BY <1>o, <1>2, <1>4, <1>10, <1>12 DEF Opening
<1>24. /\ child' # "none" => HasCheckClose("A")
       /\ child' = "none" => ~sigp'
  BY <1>o, <1>2 DEF Opening
<1>25. Types(net'["I"]) \cap {"open", "shell", "winch", "close"} = {}
  BY <1>10, <1>12
<1>26. Opening'
  BY <1>12, <1>13, <1>17, <1>18, <1>19, <1>20, <1>21, <1>22, <1>23, <1>24, <1>25
     DEF Opening
<1>27. Reported'
  BY <1>25 DEF Reported
<1>. QED  BY <1>2, <1>14, <1>15, <1>16, <1>26, <1>27, TwoEnds DEF OInv

LEMMA SendOpenOrder == ASSUME OInv, SendOpen PROVE OInv'
<1> DEFINE fd == IF TypeI = "stdpipes" THEN STDIN ELSE SOCKFD
           c0 == InitWriteBuf("I", NewChannel(0))
           c  == [c0 EXCEPT !.readfd = fd, !.writefd = fd, !.await_open = TRUE]
           q  == <<Msg("open", RecvWindow["I"])>>
<1>o. IInv /\ Opening /\ Reported
  BY DEF OInv
<1>1. /\ IInv' /\ UNCHANGED <<sel, sigp, child>> /\ status' = "waiting"
      /\ pc["I"] = "select" /\ status = "unopened"
  BY <1>o, SendOpenIInv DEF SendOpen
<1>2. /\ child = "none" /\ ch["I"] = NoChannel /\ ch["A"] = NoChannel
      /\ net["I"] = <<>> /\ net["A"] = <<>> /\ sel["I"] = {}
  BY <1>o, <1>1, TwoEnds DEF Opening, Live
<1>3. PICK n : n = c
  OBVIOUS
<1>4. /\ n \in Channels
      /\ n.await_open /\ ~n.initconn /\ ~n.sent_eof /\ ~n.recv_eof
      /\ ~n.sent_close /\ ~n.recv_close /\ ~n.close_handler_done
      /\ n.transwindow = 0 /\ n.wbuf = 0 /\ ~n.extra /\ n.errfd < 0
  <2>1. /\ c0 \in Channels
        /\ ~c0.initconn /\ ~c0.sent_eof /\ ~c0.recv_eof
        /\ ~c0.sent_close /\ ~c0.recv_close /\ ~c0.close_handler_done
        /\ c0.transwindow = 0 /\ c0.wbuf = 0 /\ ~c0.extra /\ c0.errfd < 0
    <3>1. NewChannel(0) \in Channels
      BY NewChannelType
    <3>2. RecvWindow["I"] \in Nat
      BY WindowAssumption, TwoEnds
    <3>3. c0 \in Channels
      <4>1. PICK d : d = NewChannel(0)
        OBVIOUS
      <4>2. [d EXCEPT !.wsize = RecvWindow["I"], !.recvwindow = RecvWindow["I"]] \in Channels
        BY <3>1, <3>2, <4>1 DEF Channels
      <4>. QED  BY <4>1, <4>2 DEF InitWriteBuf
    <3>. QED  BY <3>3 DEF InitWriteBuf, NewChannel, FD_CLOSED
  <2>2. fd \in Fd
    BY DEF Fd
  <2> HIDE DEF fd, c0
  <2>. QED  BY <1>3, <2>1, <2>2 DEF Channels
<1>5. PICK w : w = [World("I") EXCEPT !.c = c, !.q = q]
  OBVIOUS
<1>6. Done("I", w, net["I"], "select")
  BY <1>5 DEF SendOpen
<1>7. w.c = n /\ w.q = q
  BY <1>3, <1>5 DEF World
<1>8. q \in Seq(Message) /\ Ordered(q) /\ Types(q) = {"open"}
  <2>1. RecvWindow["I"] \in Nat /\ "open" \in MsgType
    BY WindowAssumption, TwoEnds DEF MsgType
  <2>. QED  BY <2>1, OneOrder
<1> HIDE DEF c, q
<1>9. /\ ch'["I"] = n /\ ch'["A"] = NoChannel
      /\ net'["I"] = <<>> /\ net'["A"] = q
      /\ pc'["I"] = "select" /\ pc'["A"] = pc["A"]
  <2>1. /\ ch'["I"] = n /\ ch'["A"] = ch["A"]
        /\ net'["I"] = net["I"] /\ net'["A"] = net["A"] \o q
        /\ pc'["I"] = "select" /\ pc'["A"] = pc["A"]
    BY ZenonT(60), <1>o, <1>6, <1>7, TwoEnds DEF Done, IInv, TypeOK
  <2>. QED  BY <1>2, <1>8, <2>1, ConcatEmptySeq
<1>10. n # NoChannel
  BY <1>4, NoChannelAssumption
<1>11. Types(net'["I"]) = {} /\ Ordered(net'["I"])
  BY <1>9, OrderNone
<1>12. Link(net'["I"], ch'["I"], ch'["A"])
  BY <1>9, <1>11 DEF Link
<1>13. Link(net'["A"], ch'["A"], ch'["I"])
  BY <1>8, <1>9 DEF Link
<1>14. \A d \in End : Live(d)' => FdOK(d, ch'[d])
  <2>1. FdOK("I", n)
    BY <1>4 DEF FdOK
  <2>. QED  BY <1>9, <2>1, TwoEnds DEF Live
<1>15. Asking' /\ ~Live("A")' /\ ~Connecting'
  BY <1>4, <1>9, <1>10 DEF Asking, Connecting, Live
<1>16. \A d \in End : pc'[d] = "select" => sel'[d] = {}
  BY <1>o, <1>1, <1>2, <1>9, TwoEnds DEF Opening
<1>17. sigp' = FALSE
  BY <1>o, <1>1, <1>2, <1>4 DEF Opening, IInv, TypeOK
<1>18. Opening'
  BY <1>1, <1>2, <1>4, <1>8, <1>9, <1>11, <1>15, <1>16, <1>17 DEF Opening, Due
<1>19. Reported'
  BY <1>11 DEF Reported
<1>. QED  BY <1>1, <1>12, <1>13, <1>14, <1>18, <1>19, TwoEnds DEF OInv

LEMMA WindowChangeOrder == ASSUME OInv, WindowChange PROVE OInv'
<1>o. IInv /\ Opening /\ Reported
  BY DEF OInv
<1>1. /\ IInv' /\ UNCHANGED <<sel, sigp, child, status>> /\ "winch" \in Faults
      /\ pc["I"] = "select" /\ ch["I"] # NoChannel /\ ~ch["I"].await_open
      /\ net["A"] \in Seq(Message)
  BY <1>o, WindowChangeIInv, TwoEnds DEF WindowChange, env, IInv, TypeOK
<1>2. PICK r : r = <<Msg("winch", 0)>>
  OBVIOUS
<1>3. r \in Seq(Message) /\ Ordered(r) /\ Types(r) = {"winch"}
  BY <1>2, OneOrder DEF MsgType
<1>4. PICK w : w = [World("I") EXCEPT !.q = r]
  OBVIOUS
<1>5. Done("I", w, net["I"], "select") /\ w.c = ch["I"] /\ w.q = r
  BY <1>2, <1>4 DEF WindowChange, World
<1>6. /\ ch'["I"] = ch["I"] /\ ch'["A"] = ch["A"]
      /\ net'["I"] = net["I"] /\ net'["A"] = net["A"] \o r
      /\ pc'["I"] = "select" /\ pc'["A"] = pc["A"]
  BY ZenonT(60), <1>o, <1>5, TwoEnds DEF Done, IInv, TypeOK
<1>7. Types(net'["A"]) = Types(net["A"]) \cup {"winch"}
  BY <1>1, <1>3, <1>6, OrderJoined
<1>8. Link(net["A"], ch["A"], ch["I"])
  BY TwoEnds DEF OInv
<1>9. Ordered(net'["A"])
  <2>1. \A s \in Types(net["A"]), t \in Types(r) : After(s, t)
    BY <1>1, <1>3, <1>8 DEF Link, After
  <2>. QED  BY <1>1, <1>3, <1>6, <1>8, <2>1, OrderJoined DEF Link
<1>10. Link(net'["A"], ch'["A"], ch'["I"])
  BY <1>1, <1>6, <1>7, <1>8, <1>9 DEF Link
<1>11. Link(net'["I"], ch'["I"], ch'["A"])
  BY <1>6, TwoEnds DEF OInv
<1>12. \A d \in End : Live(d)' => FdOK(d, ch'[d])
  BY <1>6, TwoEnds DEF OInv, Live
<1>13. ~Asking /\ ~Asking' /\ ~Connecting /\ ~Connecting'
  BY <1>o, <1>1, <1>6 DEF Asking, Live, Connecting, Opening
<1>14. status # "unopened"
  BY <1>o, <1>1, TwoEnds DEF Opening, Live
<1>15. Opening'
  BY <1>o, <1>1, <1>6, <1>7, <1>13, <1>14, TwoEnds DEF Opening, Live, Due
<1>16. Reported'
  BY <1>o, <1>1, <1>6 DEF Reported, Live
<1>. QED  BY <1>1, <1>10, <1>11, <1>12, <1>15, <1>16, TwoEnds DEF OInv

LEMMA UnknownChannelOrder == ASSUME OInv, NEW e \in End, UnknownChannel(e) PROVE OInv'
<1>1. IInv'
  BY UnknownChannelIInv DEF OInv
<1>. QED  BY <1>1, ExitOrder DEF UnknownChannel

\* Every packet handler keeps the order.
LEMMA HandleOrder == ASSUME OInv, NEW e \in End, Handle(e) PROVE OInv'
BY UnknownChannelOrder, RecvOpenOrder, RecvShellOrder, RecvWindowChangeOrder,
   RecvConfirmationOrder, RecvFailureOrder, RecvExitStatusOrder, RecvDataOrder,
   RecvAdjustOrder, RecvEofOrCloseOrder
   DEF Handle, RecvEof, RecvClose

\* A step that touches no channel and no packet, and leaves what select()
\* reported to an end as it was or empty
LEMMA LoopOrder ==
    ASSUME OInv, IInv', UNCHANGED <<ch, net, sigp, status, child>>,
           \A d \in End : pc'[d] = "select" => sel'[d] = {},
           Asking => sel'["I"] = {}
    PROVE  OInv'
<1>o. Opening /\ Reported
  BY DEF OInv
<1>1. Opening'
  BY <1>o DEF Opening, Live, Asking, Connecting, Due
<1>2. Reported'
  BY <1>o DEF Reported, Live
<1>. QED  BY <1>1, <1>2 DEF OInv, Live

LEMMA NoChannelIOOrder == ASSUME OInv, NEW e \in End, NoChannelIO(e) PROVE OInv'
<1>o. IInv /\ Opening
  BY DEF OInv
<1>1. IInv'
  BY <1>o, NoChannelIOIInv
<1>2. /\ UNCHANGED <<ch, net, sigp, status, child>>
      /\ sel'[e] = {} /\ sel'[Peer(e)] = sel[Peer(e)]
      /\ pc'[Peer(e)] = pc[Peer(e)]
  <2>1. /\ UNCHANGED <<ch, net, sigp, status, child>>
        /\ sel' = [sel EXCEPT ![e] = {}] /\ pc' = [pc EXCEPT ![e] = "select"]
    BY DEF NoChannelIO, env
  <2>2. DOMAIN sel = End /\ DOMAIN pc = End
    BY <1>o DEF IInv, TypeOK
  <2>. QED  BY <2>1, <2>2, TwoEnds
<1>3. \A d \in End : pc'[d] = "select" => sel'[d] = {}
  BY <1>o, <1>2, TwoEnds DEF Opening
<1>4. Asking => sel'["I"] = {}
  BY <1>o, <1>2, TwoEnds DEF Opening
<1>. QED  BY <1>1, <1>2, <1>3, <1>4, LoopOrder

\* A channel that was asked for has no window and nothing to write.
LEMMA SelectOrder == ASSUME OInv, NEW e \in End, SelectSome(e) PROVE OInv'
<1>o. IInv /\ Opening
  BY DEF OInv
<1>1. IInv'
  BY <1>o, SelectIInv
<1>2. PICK packet \in BOOLEAN, reads \in {{}, Readable(e)},
           writes \in SUBSET WantWrite(e) : Select(e, packet, reads, writes)
  BY DEF SelectSome
<1>3. /\ UNCHANGED <<ch, net, sigp, status, child>>
      /\ sel'[e] = reads \cup writes /\ sel'[Peer(e)] = sel[Peer(e)]
      /\ pc'[e] # "select" /\ pc'[Peer(e)] = pc[Peer(e)]
  BY ZenonT(60), <1>o, <1>2, TwoEnds DEF Select, env, IInv, TypeOK
<1>4. \A d \in End : pc'[d] = "select" => sel'[d] = {}
  BY <1>o, <1>3, TwoEnds DEF Opening
<1>5. Asking /\ e = "I" => sel'["I"] = {}
  <2>1. SUFFICES ASSUME Asking, e = "I" PROVE reads = {} /\ writes = {}
    BY <1>3
  <2>2. /\ ch["I"].transwindow = 0 /\ ch["I"].wbuf = 0 /\ ~ch["I"].extra
        /\ ~ch["I"].initconn
    BY <1>o, <2>1 DEF Opening, Asking
  <2>3. WantRead("I") = {}
    BY <2>2 DEF WantRead
  <2>4. Readable("I") = {}
    BY <2>3 DEF Readable
  <2>5. WantWrite("I") = {}
    BY <2>2 DEF WantWrite, ErrIsWrite
  <2>. QED  BY <2>1, <2>4, <2>5
<1>6. Asking => sel'["I"] = {}
  BY <1>o, <1>3, <1>5, TwoEnds DEF Opening
<1>. QED  BY <1>1, <1>3, <1>4, <1>6, LoopOrder

\* The programs and SIGCHLD touch no packet.
LEMMA ProgramOrder == ASSUME OInv, NEW e \in End, Program(e) PROVE OInv'
<1>1. IInv'
  BY ProgramIInv DEF OInv
<1>2. UNCHANGED <<ch, net, pc, sel, sigp, status, child>>
  BY DEF Program, Produce, ProduceErr, CloseSource, CloseErrSource, SinkBreaks, env
<1>. QED  BY <1>1, <1>2, SameOrder

LEMMA ChildExitOrder == ASSUME OInv, ChildExit PROVE OInv'
<1>o. IInv /\ Opening /\ Reported
  BY DEF OInv
<1>1. IInv'
  BY <1>o, ChildExitIInv
<1>2. /\ UNCHANGED <<ch, net, pc, sel, status>>
      /\ child = "running" /\ child' = "exited"
  BY DEF ChildExit
<1>3. Opening'
  BY <1>o, <1>2 DEF Opening, Live, Asking, Connecting, Due
<1>4. Reported'
  BY <1>o, <1>2 DEF Reported, Live
<1>. QED  BY <1>1, <1>2, <1>3, <1>4 DEF OInv, Live

\* No channel, no packet
LEMMA InitOrder == ASSUME Init PROVE OInv
<1>1. IInv
  BY InitIInv
<1>2. \A e \in End : ch[e] = NoChannel /\ net[e] = <<>>
  BY DEF Init
<1>3. \A e \in End : Types(net[e]) = {} /\ Ordered(net[e])
  BY <1>2, OrderNone
<1>4. \A e \in End : Link(net[e], ch[e], ch[Peer(e)])
  BY <1>2, <1>3, TwoEnds DEF Link
<1>5. Opening
  BY <1>2, <1>3, TwoEnds DEF Init, Opening, Live, Asking, Connecting, Due
<1>6. Reported
  BY <1>3, TwoEnds DEF Reported
<1>. QED  BY <1>1, <1>2, <1>4, <1>5, <1>6 DEF OInv, Live

\* The connection is made, or fails: the request is answered.
LEMMA ConnectIOOrder == ASSUME OInv, NEW e \in End, ConnectIO(e) PROVE OInv'
<1> DEFINE c == [InitWriteBuf("A", ch["A"]) EXCEPT !.readfd = ch["A"].writefd,
                                                   !.initconn = FALSE]
<1>o. IInv /\ Opening /\ Reported
  BY DEF OInv
<1>1. IInv' /\ UNCHANGED <<sigp, child, status>>
  BY <1>o, ConnectIOIInv DEF ConnectIO, env
<1>2. PICK connected \in BOOLEAN :
        Done(e, CheckInProgress(e, World(e), connected), net[e], "select")
  BY DEF ConnectIO
<1>3. e = "A" /\ Connecting
  BY <1>o, TwoEnds DEF ConnectIO, Opening, Connecting, Live
<1>4. /\ Asking /\ net["I"] = <<>> /\ net["A"] = <<>> /\ TypeA = "tcp"
      /\ ~ch["A"].sent_eof /\ ~ch["A"].extra /\ ~ch["A"].await_open
      /\ ch["A"] \in Channels /\ ch["A"] # NoChannel
      /\ FdOK("A", ch["A"]) /\ Link(net["A"], ch["A"], ch["I"])
      /\ ~ch["I"].sent_eof /\ ~ch["I"].recv_eof /\ ch["I"] # NoChannel
      /\ ~ch["I"].sent_close /\ ~ch["I"].recv_close
  <2>1. /\ Asking /\ net["I"] = <<>> /\ net["A"] = <<>> /\ TypeA = "tcp"
        /\ ~ch["A"].sent_eof /\ ~ch["A"].extra /\ ~ch["A"].await_open
        /\ ~ch["I"].sent_eof /\ ~ch["I"].recv_eof /\ Live("A") /\ Live("I")
    BY <1>o, <1>3 DEF Opening, Connecting, Asking
  <2>2. /\ FdOK("A", ch["A"]) /\ FdOK("I", ch["I"])
        /\ Link(net["A"], ch["A"], ch["I"])
    BY <2>1, TwoEnds DEF OInv
  <2>3. ch["A"] \in Channels /\ ch["A"] # NoChannel /\ ch["I"] # NoChannel
    BY <1>o, <2>1, TwoEnds DEF IInv, Good, Live
  <2>. QED  BY <2>1, <2>2, <2>3 DEF FdOK
<1>5. PICK w, n, r : /\ Done("A", w, net["A"], "select") /\ w.c = n /\ w.q = r
                     /\ \/ n = NoChannel /\ r = <<Msg("failure", 0)>>
                        \/ n = c /\ r = <<Msg("confirm", RecvWindow["A"])>>
  <2>1. ~HasCloseHandler("A")
    BY <1>4 DEF HasCloseHandler, Type
  <2>2. /\ World("A").c = ch["A"] /\ World("A").q = <<>>
        /\ DOMAIN World("A") = {"c", "src", "q", "out", "bad"}
    BY DEF World
  <2>3. PICK v : v = World("A")
    OBVIOUS
  <2>4. PICK u : u = CheckInProgress("A", v, connected)
    OBVIOUS
  <2>5. Append(<<>>, Msg("failure", 0)) = <<Msg("failure", 0)>>
        /\ Append(<<>>, Msg("confirm", RecvWindow["A"])) = <<Msg("confirm", RecvWindow["A"])>>
    OBVIOUS
  <2>6. CASE connected
    <3>1. u = [v EXCEPT !.bad = ~InitWriteBufOk(v.c),
                   !.c = [InitWriteBuf("A", v.c) EXCEPT !.readfd = v.c.writefd,
                                                        !.initconn = FALSE],
                   !.q = Append(@, Msg("confirm", RecvWindow["A"]))]
      BY <2>4, <2>6 DEF CheckInProgress
    <3>2. u.c = c /\ u.q = <<Msg("confirm", RecvWindow["A"])>>
      BY <2>2, <2>3, <2>5, <3>1
    <3>. HIDE DEF c
    <3>. QED  BY <1>2, <1>3, <2>3, <2>4, <3>2
  <2>7. CASE ~connected
    <3>1. PICK x : x = [v EXCEPT !.q = Append(@, Msg("failure", 0))]
      OBVIOUS
    <3>2. u = RemoveChannel("A", x, FALSE)
      BY <2>4, <2>7, <3>1 DEF CheckInProgress
    <3>3. u = [x EXCEPT !.c = NoChannel]
      BY <2>1, <3>2 DEF RemoveChannel, RunCloseHandler
    <3>4. u.c = NoChannel /\ u.q = <<Msg("failure", 0)>>
      BY <2>2, <2>3, <2>5, <3>1, <3>3
    <3>. QED  BY <1>2, <1>3, <2>3, <2>4, <3>4
  <2>. QED  BY <2>6, <2>7
<1>6. /\ r \in Seq(Message) /\ Ordered(r) /\ Types(r) \subseteq {"failure", "confirm"}
      /\ r # <<>> /\ Head(r).t \in {"failure", "confirm"}
      /\ n = NoChannel \/ Types(r) = {"confirm"}
  <2>1. RecvWindow["A"] \in Nat /\ "failure" \in MsgType /\ "confirm" \in MsgType
    BY TwoEnds, WindowAssumption DEF MsgType
  <2>. HIDE DEF c
  <2>2. CASE n = NoChannel /\ r = <<Msg("failure", 0)>>
    BY <2>1, <2>2, OneOrder
  <2>3. CASE r = <<Msg("confirm", RecvWindow["A"])>>
    BY <2>1, <2>3, OneOrder
  <2>. QED  BY <1>5, <2>2, <2>3
<1>7. n # NoChannel =>
        /\ n = c /\ ~n.initconn /\ n.errfd < 0
        /\ \A g \in {"await_open", "sent_eof", "recv_eof", "sent_close", "recv_close",
                     "close_handler_done", "errfd", "extra"} : n[g] = ch["A"][g]
  <2>1. n # NoChannel => n = c
    BY <1>5
  <2>2. ch["A"].errfd < 0
    BY <1>4 DEF FdOK, SepFds, Type
  <2>3. /\ ~c.initconn
        /\ \A g \in {"await_open", "sent_eof", "recv_eof", "sent_close", "recv_close",
                     "close_handler_done", "errfd", "extra"} : c[g] = ch["A"][g]
    <3>1. PICK d : d = InitWriteBuf("A", ch["A"])
      OBVIOUS
    <3>2. d = [ch["A"] EXCEPT !.wsize = RecvWindow["A"], !.recvwindow = RecvWindow["A"]]
      BY <3>1 DEF InitWriteBuf
    <3>3. /\ DOMAIN d = DOMAIN ch["A"]
          /\ {"initconn", "readfd"} \subseteq DOMAIN ch["A"]
          /\ \A g \in {"await_open", "sent_eof", "recv_eof", "sent_close", "recv_close",
                       "close_handler_done", "errfd", "extra"} : d[g] = ch["A"][g]
      BY <1>4, <3>2 DEF Channels
    <3>4. c = [d EXCEPT !.readfd = ch["A"].writefd, !.initconn = FALSE]
      BY <3>1
    <3>. HIDE DEF c
    <3>. QED  BY <3>3, <3>4
  <2>. HIDE DEF c
  <2>. QED  BY <2>1, <2>2, <2>3
<1>. HIDE DEF c
<1>8. /\ ch'["A"] = n /\ ch'["I"] = ch["I"]
      /\ net'["A"] = <<>> /\ net'["I"] = r
      /\ pc'["A"] = "select" /\ pc'["I"] = pc["I"]
  <2>1. /\ ch'["A"] = n /\ ch'["I"] = ch["I"]
        /\ net'["A"] = net["A"] /\ net'["I"] = net["I"] \o r
        /\ pc'["A"] = "select" /\ pc'["I"] = pc["I"]
    <3>1. PICK rest : rest = net["A"]
      OBVIOUS
    <3>2. Done("A", w, rest, "select") /\ w.c = n /\ w.q = r
      BY <1>5, <3>1
    <3>. QED  BY ZenonT(60), <1>o, <3>1, <3>2, TwoEnds DEF Done, IInv, TypeOK
  <2>. QED  BY <1>4, <1>6, <2>1, ConcatEmptySeq
<1>9. sel'["A"] = {} /\ sel'["I"] = sel["I"]
  <2>1. sel' = [sel EXCEPT !["A"] = {}]
    BY <1>3 DEF ConnectIO
  <2>2. DOMAIN sel = End
    BY <1>o DEF IInv, TypeOK
  <2>. QED  BY <2>1, <2>2, TwoEnds
<1>10. Types(net'["A"]) = {}
  BY <1>8, OrderNone
<1>11. Link(net'["I"], ch'["I"], ch'["A"])
  BY <1>4, <1>6, <1>8 DEF Link
<1>12. Link(net'["A"], ch'["A"], ch'["I"])
  BY <1>4, <1>7, <1>8 DEF Link
<1>13. \A d \in End : Live(d)' => FdOK(d, ch'[d])
  <2>1. n # NoChannel => FdOK("A", n)
    BY <1>4, <1>7 DEF FdOK
  <2>. QED  BY <1>8, <2>1, TwoEnds DEF OInv, Live
<1>14. Asking' /\ ~Connecting' /\ status' # "unopened" /\ ~HasCheckClose("A")
  BY <1>o, <1>1, <1>4, <1>7, <1>8, TwoEnds
     DEF Asking, Connecting, Live, Opening, HasCheckClose, Type
<1>15. \A d \in End : pc'[d] = "select" => sel'[d] = {}
  BY <1>o, <1>8, <1>9, TwoEnds DEF Opening
<1>16. Asking' => /\ ch'["I"].transwindow = 0 /\ ch'["I"].wbuf = 0
                  /\ ~ch'["I"].extra /\ ~ch'["I"].sent_eof /\ ~ch'["I"].recv_eof
                  /\ sel'["I"] = {} /\ net'["I"] # <<>>
                  /\ Head(net'["I"]).t \in {"confirm", "failure"}
  BY <1>o, <1>4, <1>6, <1>8, <1>9 DEF Opening
<1>17. /\ ~ch'["I"].initconn /\ (Live("A")' => ~ch'["A"].await_open)
       /\ child' # "none" => HasCheckClose("A")
       /\ child' = "none" => ~sigp'
  BY <1>o, <1>1, <1>4, <1>7, <1>8 DEF Opening, Asking, Live
<1>18. Types(net'["I"]) \cap {"open", "shell", "winch", "close"} = {}
  BY <1>6, <1>8
<1>19. Opening'
  BY <1>10, <1>14, <1>15, <1>16, <1>17, <1>18 DEF Opening, Due
<1>20. Reported'
  BY <1>18 DEF Reported
<1>. QED  BY <1>1, <1>11, <1>12, <1>13, <1>19, <1>20, TwoEnds DEF OInv

\* channelio() on a channel that is not ready yet does nothing.
LEMMA IdleOrder ==
    ASSUME OInv, IInv', NEW e \in End, ch[e] # NoChannel,
           Done(e, World(e), net[e], "select"), sel' = [sel EXCEPT ![e] = {}],
           UNCHANGED <<status, child>>, child' = "none" => ~sigp'
    PROVE  OInv'
<1>o. IInv /\ Opening /\ Reported
  BY DEF OInv
<1>1. PICK w : w = World(e)
  OBVIOUS
<1>2. Done(e, w, net[e], "select") /\ w.c = ch[e] /\ w.q = <<>>
  BY <1>1 DEF World
<1>3. /\ ch'[e] = ch[e] /\ ch'[Peer(e)] = ch[Peer(e)]
      /\ net'[e] = net[e] /\ net'[Peer(e)] = net[Peer(e)] \o <<>>
      /\ pc'[e] = "select" /\ pc'[Peer(e)] = pc[Peer(e)]
  <2>1. PICK rest : rest = net[e]
    OBVIOUS
  <2>2. Done(e, w, rest, "select")
    BY <1>2, <2>1
  <2>3. /\ ch'[e] = w.c /\ ch'[Peer(e)] = ch[Peer(e)]
        /\ net'[e] = rest /\ net'[Peer(e)] = net[Peer(e)] \o w.q
        /\ pc'[e] = "select" /\ pc'[Peer(e)] = pc[Peer(e)]
    BY <1>o, <2>2, DoneFacts, Zenon
  <2>. QED  BY <1>2, <2>1, <2>3
<1>4. net'[Peer(e)] = net[Peer(e)]
  <2>1. net[Peer(e)] \in Seq(Message)
    BY ZenonT(60), <1>o, TwoEnds DEF IInv, TypeOK
  <2>. QED  BY <1>3, <2>1, ConcatEmptySeq
<1>5. sel'[e] = {} /\ sel'[Peer(e)] = sel[Peer(e)]
  <2>1. DOMAIN sel = End
    BY <1>o DEF IInv, TypeOK
  <2>. QED  BY <2>1, TwoEnds
<1>6. /\ ch'["A"] = ch["A"] /\ ch'["I"] = ch["I"]
      /\ net'["A"] = net["A"] /\ net'["I"] = net["I"]
  BY <1>3, <1>4, TwoEnds
<1>7. \A d \in End : pc'[d] = "select" => sel'[d] = {}
  BY <1>o, <1>3, <1>5, TwoEnds DEF Opening
<1>8. Asking => sel'["I"] = {}
  BY <1>o, <1>5, TwoEnds DEF Opening
<1>9. Opening'
  BY <1>o, <1>6, <1>7, <1>8, TwoEnds DEF Opening, Live, Asking, Connecting, Due
<1>10. Reported'
  BY <1>o, <1>6 DEF Reported, Live
<1>. QED  BY <1>6, <1>9, <1>10, TwoEnds DEF OInv, Live

\* Nothing is open on a channel that is not ready yet.
LEMMA NothingToDo ==
    ASSUME OInv, NEW e \in End, ch[e] # NoChannel,
           ~(ch[e].initconn /\ "w" \in sel[e]),
           ch[e].await_open \/ ch[e].initconn \/ (e = "A" /\ Due),
           NEW wlen, NEW xlen
    PROVE  /\ ~DoCheckClose(e, ch[e])
           /\ ReadStep(e, World(e), "r") = World(e)
           /\ ReadStep(e, World(e), "e") = World(e)
           /\ WriteStep(e, World(e), "w", wlen) = World(e)
           /\ WriteStep(e, World(e), "x", xlen) = World(e)
<1>o. IInv /\ Opening /\ FdOK(e, ch[e]) /\ ch[e] \in Channels
  BY DEF OInv, Live, IInv, Good
<1>1. /\ "r" \notin sel[e] \/ ch[e].readfd < 0
      /\ "e" \notin sel[e] \/ ch[e].extra \/ ch[e].errfd < 0
      /\ "w" \notin sel[e] \/ ch[e].writefd < 0
      /\ "x" \notin sel[e] \/ ~ch[e].extra \/ ch[e].errfd < 0
      /\ e = "A" => ~sigp
  <2>1. CASE e = "I"
    <3>1. Asking
      BY <1>o, <2>1 DEF Opening, Asking, Live
    <3>. QED  BY <1>o, <2>1, <3>1 DEF Opening
  <2>2. CASE e = "A" /\ ch["A"].initconn
    <3>1. Connecting
      BY <1>o, <2>2 DEF Connecting, Live
    <3>2. /\ TypeA = "tcp" /\ ch["A"].readfd < 0 /\ ~ch["A"].extra
      BY <1>o, <3>1 DEF Opening
    <3>3. ch["A"].errfd < 0
      BY <1>o, <2>2, <3>2 DEF FdOK, SepFds, Type
    <3>4. child = "none" /\ ~sigp
      BY <1>o, <3>2 DEF Opening, HasCheckClose, Type
    <3>. QED  BY <2>2, <3>2, <3>3, <3>4
  <2>3. CASE e = "A" /\ ~ch["A"].initconn
    <3>1. Due
      BY <1>o, <2>3 DEF Opening, Live
    <3>2. Fresh(ch["A"]) /\ ~sigp
      BY <1>o, <2>3, <3>1 DEF Opening, Live
    <3>. QED  BY <2>3, <3>2 DEF Fresh
  <2>. QED  BY <2>1, <2>2, <2>3, TwoEnds
<1>2. /\ "r" \in sel[e] => ~(ch[e].readfd >= 0)
      /\ "e" \in sel[e] => ch[e].extra \/ ~(ch[e].errfd >= 0)
      /\ "w" \in sel[e] => ~(ch[e].writefd >= 0)
      /\ "x" \in sel[e] => ~ch[e].extra \/ ~(ch[e].errfd >= 0)
  <2>1. PICK c : c = ch[e]
    OBVIOUS
  <2>2. c.readfd \in Int /\ c.writefd \in Int /\ c.errfd \in Int
    BY <1>o, <2>1, FdNumbers
  <2>3. /\ c.readfd < 0 => ~(c.readfd >= 0)
        /\ c.writefd < 0 => ~(c.writefd >= 0)
        /\ c.errfd < 0 => ~(c.errfd >= 0)
    BY <2>2
  <2>. QED  BY <1>1, <2>1, <2>3
<1>3. ~DoCheckClose(e, ch[e])
  BY <1>1, <1>2 DEF DoCheckClose, HadEvent, ErrIsRead, ErrIsWrite
<1>4. PICK v : v = World(e)
  OBVIOUS
<1>5. v.c = ch[e]
  BY <1>4 DEF World
<1>6. ReadStep(e, v, "r") = v /\ ReadStep(e, v, "e") = v
  BY <1>2, <1>5 DEF ReadStep, ErrIsRead
<1>7. WriteStep(e, v, "w", wlen) = v /\ WriteStep(e, v, "x", xlen) = v
  BY <1>2, <1>5 DEF WriteStep, ErrIsWrite
<1>. QED  BY <1>3, <1>4, <1>6, <1>7

\* channelio(): reads and writes, then check_close() if there was an event
LEMMA ChannelIOSays ==
    ASSUME OInv, NEW e \in End, ChannelIO(e)
    PROVE  \E w, exits :
             /\ exits \in BOOLEAN
             /\ Speaks(e, ch[e], w) /\ w.c.flushing = ch[e].flushing
             /\ ~DoCheckClose(e, ch[e]) => w = World(e)
             /\ exits => DoCheckClose(e, ch[e])
             /\ ChildExitsMeanwhile(e, exits)
             /\ sigp' = IF e = "A" THEN exits ELSE sigp
             /\ Done(e, IF DoCheckClose(e, ch[e])
                        THEN CheckClose(e, w, Exited, Exited \/ exits) ELSE w,
                     net[e], "select")
<1>1. PICK wlen, xlen, exits, w1, w2, w3, w4, w5, rest :
         Steps(e, wlen, xlen, exits, w1, w2, w3, w4, w5, rest)
  BY ChannelIOSteps DEF OInv
<1>2. PICK c : c = ch[e]
  OBVIOUS
<1>3. /\ LiveWorld(e, World(e)) /\ Speaks(e, c, World(e))
      /\ World(e).c = c /\ c \in Channels
  BY <1>2, WorldType, WorldSpeaks DEF OInv, ChannelIO, Live, IInv, Good
<1>4. ASSUME ~DoCheckClose(e, c) PROVE w4 = World(e)
  <2>1. /\ "r" \in sel[e] => ~(c.readfd >= 0)
        /\ "e" \in sel[e] => ~ErrIsRead(c) \/ ~(c.errfd >= 0)
        /\ "w" \in sel[e] => ~(c.writefd >= 0)
        /\ "x" \in sel[e] => ~ErrIsWrite(c) \/ ~(c.errfd >= 0)
    BY <1>4 DEF DoCheckClose, HadEvent
  <2>2. w1 = World(e) /\ w2 = World(e)
    BY <1>1, <1>3, <2>1 DEF ReadStep, Steps
  <2>3. w3 = World(e) /\ w4 = World(e)
    BY <1>1, <1>3, <2>1, <2>2 DEF WriteStep, Steps
  <2>. QED  BY <2>3
<1>5. Speaks(e, c, w1) /\ Same(c, w1.c)
  BY <1>1, <1>3, ReadStepSpeaks, ReadStepSame DEF Steps
<1>6. Speaks(e, c, w2) /\ Same(w1.c, w2.c)
  BY <1>1, <1>5, ReadStepSpeaks, ReadStepSame DEF Steps
<1>7. Speaks(e, c, w3) /\ Same(w2.c, w3.c)
  BY <1>1, <1>6, WriteStepSpeaks, WriteStepSame DEF Steps
<1>8. Speaks(e, c, w4) /\ Same(w3.c, w4.c)
  BY <1>1, <1>7, WriteStepSpeaks, WriteStepSame DEF Steps
<1>9. w4.c.flushing = c.flushing
  BY <1>5, <1>6, <1>7, <1>8 DEF Same
<1>10. /\ exits \in BOOLEAN /\ (exits => DoCheckClose(e, ch[e]))
       /\ ChildExitsMeanwhile(e, exits)
       /\ sigp' = IF e = "A" THEN exits ELSE sigp
       /\ Done(e, IF DoCheckClose(e, ch[e])
                  THEN CheckClose(e, w4, Exited, Exited \/ exits) ELSE w4,
               net[e], "select")
  BY <1>1 DEF Steps
<1>11. /\ Speaks(e, ch[e], w4) /\ w4.c.flushing = ch[e].flushing
       /\ ~DoCheckClose(e, ch[e]) => w4 = World(e)
  BY <1>2, <1>4, <1>8, <1>9
<1>. QED  BY <1>10, <1>11

LEMMA ChannelIOOrder == ASSUME OInv, NEW e \in End, ChannelIO(e) PROVE OInv'
<1>o. IInv /\ Opening /\ Reported /\ ch[e] # NoChannel
  BY DEF OInv, ChannelIO
<1>1. PICK w4, exits :
             /\ exits \in BOOLEAN /\ Speaks(e, ch[e], w4) /\ w4.c.flushing = ch[e].flushing
             /\ ~DoCheckClose(e, ch[e]) => w4 = World(e)
             /\ exits => DoCheckClose(e, ch[e])
             /\ ChildExitsMeanwhile(e, exits)
             /\ sigp' = IF e = "A" THEN exits ELSE sigp
             /\ Done(e, IF DoCheckClose(e, ch[e])
                        THEN CheckClose(e, w4, Exited, Exited \/ exits) ELSE w4,
                     net[e], "select")
  BY ChannelIOSays
<1> DEFINE w5 == IF DoCheckClose(e, ch[e])
                 THEN CheckClose(e, w4, Exited, Exited \/ exits) ELSE w4
<1>7. /\ IInv' /\ status' = status /\ sel' = [sel EXCEPT ![e] = {}]
      /\ ~(ch[e].initconn /\ "w" \in sel[e])
  BY <1>o, ChannelIOIInv DEF ChannelIO
<1>9. Done(e, w5, net[e], "select")
  BY <1>1
<1>10. CASE ch[e].await_open \/ ch[e].initconn \/ (e = "A" /\ Due)
  <2>1. ~DoCheckClose(e, ch[e])
    BY <1>o, <1>7, <1>10, NothingToDo
  <2>2. w5 = World(e) /\ ~exits
    BY <1>1, <2>1
  <2>3. child' = child /\ (child' = "none" => ~sigp')
    BY <1>o, <1>1, <2>2 DEF ChildExitsMeanwhile, Opening
  <2> HIDE DEF w5
  <2>. QED  BY <1>o, <1>7, <1>9, <2>2, <2>3, IdleOrder
<1>11. CASE ~ch[e].await_open /\ ~ch[e].initconn /\ (e = "A" => ~Due)
  <2>1. PICK c : c = ch[e]
    OBVIOUS
  <2>7. Spoken(e, c, w5)
    <3>1. Exited \in BOOLEAN /\ (Exited \/ exits) \in BOOLEAN
      BY DEF Exited
    <3>. QED  BY <1>1, <2>1, <3>1, CheckCloseSpoken, SpeaksSpoken
  <2>8. PICK w : w = w5
    OBVIOUS
  <2> HIDE DEF w5
  <2>9. Done(e, w, net[e], "select") /\ Spoken(e, c, w)
    BY <1>9, <2>7, <2>8
  <2>10. /\ child' = child \/ (child = "running" /\ child' = "exited")
         /\ child' = "none" => ~sigp'
    <3>1. sigp' => sigp \/ exits
      BY <1>1
    <3>. QED  BY <1>1, <3>1, ChildFacts
  <2>11. sel'[e] = {} /\ \A d \in End : sel'[d] = sel[d] \/ sel'[d] = {}
    <3>1. DOMAIN sel = End
      BY <1>o DEF IInv, TypeOK
    <3>. QED  BY <1>7, <3>1
  <2>12. \A d \in End : pc'[d] = "select" => sel'[d] = {}
    <3>1. pc'[Peer(e)] = pc[Peer(e)]
      BY <1>o, <2>9, TwoEnds DEF Done, IInv, TypeOK
    <3>. QED  BY <1>o, <2>11, <3>1, TwoEnds DEF Opening
  <2>13. Reads(e, c, net[e])
    BY <2>1 DEF Reads
  <2>14. /\ c # NoChannel /\ ~c.await_open /\ ~c.initconn
         /\ c.sent_eof = ch[e].sent_eof /\ c.sent_close = ch[e].sent_close
    BY <1>o, <1>11, <2>1
  <2>15. PICK rest : rest = net[e]
    OBVIOUS
  <2>16. Done(e, w, rest, "select") /\ Reads(e, c, rest)
    BY <2>9, <2>13, <2>15
  <2>. QED  BY <1>o, <1>7, <1>11, <2>9, <2>10, <2>11, <2>12, <2>14, <2>16,
               DoneOrder, Zenon
<1>. QED  BY <1>10, <1>11

\* Every step keeps the order.
LEMMA NextOrder == ASSUME OInv, [Next]_vars PROVE OInv'
<1>1. CASE UNCHANGED vars
  <2>1. IInv'
    BY NextIInv DEF OInv
  <2>. QED  BY <1>1, <2>1, SameOrder DEF vars
<1>2. CASE Next
  BY <1>2, SendOpenOrder, WindowChangeOrder, ChildExitOrder, SelectOrder,
     HandleOrder, NoChannelIOOrder, ConnectIOOrder, ChannelIOOrder, ProgramOrder
     DEF Next, IO
<1>. QED  BY <1>1, <1>2

\* What is under way agrees with the channels at both ends in every state that
\* two dropbear ends can reach.
THEOREM InOrder == Spec => []OInv
<1>1. Init => OInv
  BY InitOrder
<1>2. OInv /\ [Next]_vars => OInv'
  BY NextOrder
<1>. QED  BY <1>1, <1>2, PTL DEF Spec

\* Nothing but a window change follows a CLOSE on the wire and no data follows
\* an EOF, and an end that has read them has none left to read, whatever the
\* types of the ends, the windows, the faults and the order of events.
THEOREM QuietAfterClose == Spec => []NothingAfterClose
<1>1. OInv => NothingAfterClose
  <2>1. SUFFICES ASSUME OInv, NEW e \in End
                 PROVE  LET q == net[e]
                        IN  /\ \A i, j \in DOMAIN q : i < j =>
                                 /\ q[i].t = "close" => q[j].t = "winch"
                                 /\ q[i].t = "eof" => q[j].t \notin {"data", "ext"}
                            /\ ch[e] # NoChannel /\ ch[e].recv_close =>
                                 \A i \in DOMAIN q : q[i].t = "winch"
                            /\ ch[e] # NoChannel /\ ch[e].recv_eof =>
                                 \A i \in DOMAIN q : q[i].t \notin {"data", "ext"}
    BY DEF NothingAfterClose
  <2>2. PICK q : q = net[e]
    OBVIOUS
  <2>3. q \in Seq(Message) /\ DOMAIN q = 1..Len(q)
    BY <2>1, <2>2, LenProperties DEF OInv, IInv, TypeOK
  <2>4. Link(q, ch[e], ch[Peer(e)]) /\ Ordered(q)
    BY <2>1, <2>2 DEF OInv, Link
  <2>5. \A i \in 1..Len(q) : q[i].t \in Types(q)
    BY DEF Types
  <2>6. \A i, j \in 1..Len(q) : i < j =>
           /\ q[i].t = "close" => q[j].t = "winch"
           /\ q[i].t = "eof" => q[j].t \notin {"data", "ext"}
    BY <2>4 DEF Ordered, After
  <2>7. ch[e] # NoChannel /\ ch[e].recv_close => \A i \in 1..Len(q) : q[i].t = "winch"
    BY <2>4, <2>5 DEF Link
  <2>8. ch[e] # NoChannel /\ ch[e].recv_eof =>
           \A i \in 1..Len(q) : q[i].t \notin {"data", "ext"}
    BY <2>4, <2>5 DEF Link
  <2>. QED  BY <2>2, <2>3, <2>6, <2>7, <2>8
<1>. QED  BY <1>1, InOrder, PTL

\* If the user's window keeps its size a CLOSE is the last packet of its end,
\* and an end that has read one has nothing left to read.
CloseIsLast ==
    \A e \in End :
      /\ \A i \in DOMAIN net[e] : net[e][i].t = "close" => i = Len(net[e])
      /\ Live(e) /\ ch[e].recv_close => net[e] = <<>>

(* While the user's window keeps its size nothing follows a CLOSE on its    *)
(* way, and whoever has read one has read everything.                       *)
THEOREM LastIsClose ==
    ASSUME "winch" \notin Faults
    PROVE  Spec => []CloseIsLast
<1>1. OInv => CloseIsLast
  <2>1. SUFFICES ASSUME OInv, NEW e \in End
                 PROVE  /\ \A i \in DOMAIN net[e] :
                              net[e][i].t = "close" => i = Len(net[e])
                        /\ Live(e) /\ ch[e].recv_close => net[e] = <<>>
    BY DEF CloseIsLast
  <2>2. PICK q : q = net[e]
    OBVIOUS
  <2>3. q \in Seq(Message) /\ DOMAIN q = 1..Len(q) /\ Len(q) \in Nat
    BY <2>1, <2>2, LenProperties DEF OInv, IInv, TypeOK
  <2>4. Link(q, ch[e], ch[Peer(e)]) /\ Ordered(q)
    BY <2>1, <2>2 DEF OInv, Link
  <2>5. "winch" \notin Types(q)
    BY <2>1, <2>2, TwoEnds DEF OInv, Opening
  <2>6. \A i \in 1..Len(q) : q[i].t = "close" => i = Len(q)
    BY <2>3, <2>4, <2>5 DEF Ordered, After, Types
  <2>7. ch[e] # NoChannel /\ ch[e].recv_close => q = <<>>
    BY <2>3, <2>4, <2>5, NoTypes DEF Link
  <2>. QED  BY <2>2, <2>3, <2>6, <2>7 DEF Live
<1>. QED  BY <1>1, InOrder, PTL

\* The CLOSE of a server's session never overtakes the exit status of its
\* process, for any program, window, and moment of SIGCHLD.
THEOREM StatusFirst == Spec => []StatusBeforeClose
<1>1. OInv => StatusBeforeClose
  <2>1. SUFFICES ASSUME OInv, HasCheckClose("A"), NEW j \in DOMAIN net["I"],
                        net["I"][j].t = "close"
                 PROVE  \/ \E i \in 1 .. j - 1 : net["I"][i].t = "exit"
                        \/ status = "received"
                        \/ Live("I") /\ ch["I"].sent_close
    BY DEF StatusBeforeClose
  <2>2. PICK q : q = net["I"]
    OBVIOUS
  <2>3. q \in Seq(Message) /\ DOMAIN q = 1..Len(q) /\ Len(q) \in Nat
    <3>1. q \in Seq(Message)
      BY <2>1, <2>2, TwoEnds DEF OInv, IInv, TypeOK
    <3>. QED  BY <3>1, LenProperties
  <2>4. Ordered(q)
    BY <2>1, <2>2, TwoEnds DEF OInv, Link
  <2>5. j \in 1..Len(q) /\ q[j].t = "close" /\ "close" \in Types(q)
    BY <2>1, <2>2, <2>3 DEF Types
  <2>6. ASSUME "exit" \in Types(q) PROVE \E i \in 1 .. j - 1 : q[i].t = "exit"
    <3>1. PICK i \in 1..Len(q) : q[i].t = "exit"
      BY <2>6 DEF Types
    <3>2. ~(j < i) /\ i # j
      BY <2>4, <2>5, <3>1 DEF Ordered, After
    <3>3. i \in 1 .. j - 1
      BY <2>3, <2>5, <3>2
    <3>. QED  BY <3>1, <3>3
  <2>7. \/ "exit" \in Types(q)
        \/ status = "received"
        \/ Live("I") /\ ch["I"].sent_close
    BY <2>1, <2>2, <2>5 DEF OInv, Reported
  <2>. QED  BY <2>2, <2>6, <2>7
<1>. QED  BY <1>1, InOrder, PTL

---------------------------------------------------------------------------
(* Flow control of a channel, and that neither end makes the other exit.   *)
(*                                                                         *)
(* The books: what an end may still send, the credit and the data under    *)
(* way and the bytes thrown away make up what its peer offers, to the byte *)
(* (Credit).  Every C function that sends pays for what it sends and       *)
(* writechannel() grants no more than it has written out (Paid), so every  *)
(* step keeps the balance.  An end without a channel has nothing to read   *)
(* that would make it exit, a window change apart (Deaf).                  *)

\* What is carried is a finite set of bytes, each by its packet and place.
LEMMA CarriedBy ==
    ASSUME NEW q \in Seq(Message), NEW types
    PROVE  /\ IsFiniteSet(Carried(q, types)) /\ Bytes(q, types) \in Nat
           /\ \A b : b \in Carried(q, types) <=>
                       \E i \in 1..Len(q), k \in Nat :
                          /\ b = <<i, k>> /\ q[i].t \in types
                          /\ 1 <= k /\ k <= q[i].n
<1>1. /\ DOMAIN q = 1..Len(q) /\ Len(q) \in Nat
      /\ \A i \in 1..Len(q) : q[i] \in Message /\ q[i].n \in Nat
  <2>1. /\ DOMAIN q = 1..Len(q) /\ Len(q) \in Nat
        /\ \A i \in 1..Len(q) : q[i] \in Message
    BY LenProperties, ElementOfSeq
  <2>. QED  BY <2>1 DEF Message
<1>. DEFINE I == {j \in DOMAIN q : q[j].t \in types}
            Part(i) == {i} \X (1 .. q[i].n)
            Parts == {Part(i) : i \in I}
<1>2. IsFiniteSet(I)
  <2>1. IsFiniteSet(1..Len(q))
    BY <1>1, FS_Interval
  <2>. QED  BY <1>1, <2>1, FS_Subset
<1>3. IsFiniteSet(Parts)
  <2>1. PICK f : f = [i \in I |-> Part(i)]
    OBVIOUS
  <2>2. f \in Surjection(I, Parts)
    <3>1. f \in [I -> Parts]
      BY <2>1
    <3>2. \A t \in Parts : \E i \in I : f[i] = t
      BY <2>1
    <3>. QED  BY <3>1, <3>2 DEF Surjection
  <2>. HIDE DEF I, Parts
  <2>. QED  BY <1>2, <2>2, FS_Surjection
<1>4. \A t \in Parts : IsFiniteSet(t)
  <2>1. ASSUME NEW i \in I PROVE IsFiniteSet(Part(i))
    <3>1. IsFiniteSet({i})
      BY FS_Singleton
    <3>2. IsFiniteSet(1 .. q[i].n)
      <4>1. q[i].n \in Nat
        BY <1>1
      <4>. QED  BY <4>1, FS_Interval
    <3>. QED  BY <3>1, <3>2, FS_Product
  <2>. HIDE DEF Part
  <2>. QED  BY <2>1
<1>5. IsFiniteSet(Carried(q, types))
  <2>1. Carried(q, types) = UNION Parts
    BY DEF Carried
  <2>. HIDE DEF Parts
  <2>. QED  BY <1>3, <1>4, <2>1, FS_UNION
<1>6. Bytes(q, types) \in Nat
  BY <1>5, FS_CardinalityType DEF Bytes
<1>7. ASSUME NEW b
      PROVE  b \in Carried(q, types) <=>
                       \E i \in 1..Len(q), k \in Nat :
                          /\ b = <<i, k>> /\ q[i].t \in types
                          /\ 1 <= k /\ k <= q[i].n
  <2>1. ASSUME b \in Carried(q, types)
        PROVE  \E i \in 1..Len(q), k \in Nat :
                          /\ b = <<i, k>> /\ q[i].t \in types
                          /\ 1 <= k /\ k <= q[i].n
    <3>1. PICK i \in I : b \in {i} \X (1 .. q[i].n)
      BY <2>1 DEF Carried
    <3>2. PICK k \in 1 .. q[i].n : b = <<i, k>>
      BY <3>1
    <3>3. i \in 1..Len(q) /\ q[i].t \in types
      BY <1>1
    <3>4. q[i].n \in Nat
      BY <1>1, <3>3
    <3>5. k \in Nat /\ 1 <= k /\ k <= q[i].n
      BY <3>4
    <3>. QED  BY <3>2, <3>3, <3>5
  <2>2. ASSUME NEW i \in 1..Len(q), NEW k \in Nat, b = <<i, k>>, q[i].t \in types,
               1 <= k, k <= q[i].n
        PROVE  b \in Carried(q, types)
    <3>1. i \in I
      BY <1>1, <2>2
    <3>2. q[i].n \in Nat
      BY <1>1
    <3>3. k \in 1 .. q[i].n
      BY <3>2, <2>2
    <3>4. b \in Part(i)
      BY <2>2, <3>3
    <3>. HIDE DEF I
    <3>. QED  BY <3>1, <3>4 DEF Carried, I
  <2>. QED  BY <2>1, <2>2
<1>. QED  BY <1>5, <1>6, <1>7

\* No packet of these types, no bytes.
LEMMA BytesNone ==
    ASSUME NEW q \in Seq(Message), NEW types, Types(q) \cap types = {}
    PROVE  Bytes(q, types) = 0
<1>1. Carried(q, types) = {}
  BY CarriedBy DEF Types
<1>. QED  BY <1>1, FS_EmptySet DEF Bytes

\* Only the types that occur count.
LEMMA BytesLike ==
    ASSUME NEW q \in Seq(Message), NEW s, NEW t,
           Types(q) \cap s = Types(q) \cap t
    PROVE  Bytes(q, s) = Bytes(q, t)
<1>1. \A i \in 1..Len(q) : q[i].t \in s <=> q[i].t \in t
  BY DEF Types
<1>2. \A b : b \in Carried(q, s) <=> b \in Carried(q, t)
  BY <1>1, CarriedBy
<1>3. Carried(q, s) = Carried(q, t)
  BY <1>2
<1>. QED  BY <1>3 DEF Bytes

\* The bytes of one packet.
LEMMA BytesOne ==
    ASSUME NEW m \in Message, NEW types
    PROVE  Bytes(<<m>>, types) = IF m.t \in types THEN m.n ELSE 0
<1>1. <<m>> \in Seq(Message) /\ m.n \in Nat
  BY DEF Message
<1>2. CASE m.t \in types
  <2>1. Carried(<<m>>, types) = {1} \X (1 .. m.n)
    <3>1. PICK q : q = <<m>>
      OBVIOUS
    <3>2. DOMAIN q = {1} /\ q[1] = m
      BY <3>1
    <3>3. {j \in DOMAIN q : q[j].t \in types} = {1}
      BY <3>2, <1>2
    <3>4. Carried(q, types) = UNION {{i} \X (1 .. q[i].n) : i \in {1}}
      BY <3>3 DEF Carried
    <3>. QED  BY <3>1, <3>2, <3>4
  <2>2. IsFiniteSet({1}) /\ Cardinality({1}) = 1
    BY FS_Singleton
  <2>3. IsFiniteSet(1 .. m.n) /\ Cardinality(1 .. m.n) = m.n
    <3>1. PICK n : n = m.n
      OBVIOUS
    <3>2. n \in Nat /\ (1 > n => n = 0)
      BY <1>1, <3>1
    <3>3. IsFiniteSet(1 .. n) /\ Cardinality(1 .. n) = IF 1 > n THEN 0 ELSE n - 1 + 1
      BY <3>2, FS_Interval
    <3>. QED  BY <3>1, <3>2, <3>3
  <2>4. PICK S : S = 1 .. m.n
    OBVIOUS
  <2>5. Cardinality({1} \X S) = Cardinality({1}) * Cardinality(S)
    BY <2>2, <2>3, <2>4, FS_Product
  <2>6. Cardinality({1} \X S) = 1 * m.n
    BY <2>2, <2>3, <2>4, <2>5
  <2>7. 1 * m.n = m.n
    BY <1>1
  <2>8. Bytes(<<m>>, types) = Cardinality({1} \X S)
    BY <2>1, <2>4 DEF Bytes
  <2>. QED  BY <1>2, <2>6, <2>7, <2>8
<1>3. CASE m.t \notin types
  <2>1. Types(<<m>>) = {m.t}
    BY OrderOne
  <2>. QED  BY <1>1, <1>3, <2>1, BytesNone
<1>. QED  BY <1>2, <1>3

\* The bytes of two sequences of packets add up.
LEMMA BytesJoined ==
    ASSUME NEW q \in Seq(Message), NEW r \in Seq(Message), NEW types
    PROVE  Bytes(q \o r, types) = Bytes(q, types) + Bytes(r, types)
<1>1. /\ Len(q) \in Nat /\ Len(r) \in Nat /\ Len(q \o r) = Len(q) + Len(r)
      /\ \A i \in 1..Len(q) : (q \o r)[i] = q[i]
      /\ \A i \in 1..Len(r) : (q \o r)[Len(q) + i] = r[i]
      /\ q \o r \in Seq(Message)
  BY ConcatProperties, LenProperties
<1>2. PICK p : p = q \o r
  OBVIOUS
<1>3. PICK l : l = Len(q)
  OBVIOUS
<1>4. PICK n : n = Len(r)
  OBVIOUS
<1>5. /\ l \in Nat /\ n \in Nat /\ Len(p) = l + n /\ p \in Seq(Message)
      /\ \A i \in 1..l : p[i] = q[i]
      /\ \A i \in 1..n : p[l + i] = r[i]
  BY <1>1, <1>2, <1>3, <1>4
<1>6. PICK P, Q, R : P = Carried(p, types) /\ Q = Carried(q, types) /\ R = Carried(r, types)
  OBVIOUS
<1>7. /\ IsFiniteSet(P) /\ IsFiniteSet(Q) /\ IsFiniteSet(R)
      /\ \A b : b \in P <=> \E i \in 1..l + n, k \in Nat :
                    b = <<i, k>> /\ p[i].t \in types /\ 1 <= k /\ k <= p[i].n
      /\ \A b : b \in Q <=> \E i \in 1..l, k \in Nat :
                    b = <<i, k>> /\ q[i].t \in types /\ 1 <= k /\ k <= q[i].n
      /\ \A b : b \in R <=> \E i \in 1..n, k \in Nat :
                    b = <<i, k>> /\ r[i].t \in types /\ 1 <= k /\ k <= r[i].n
  <2>1. IsFiniteSet(P) /\ \A b : b \in P <=> \E i \in 1..Len(p), k \in Nat :
                    b = <<i, k>> /\ p[i].t \in types /\ 1 <= k /\ k <= p[i].n
    <3>1. p \in Seq(Message) /\ P = Carried(p, types)
      BY <1>5, <1>6
    <3>. QED  BY <3>1, CarriedBy
  <2>2. IsFiniteSet(Q) /\ \A b : b \in Q <=> \E i \in 1..Len(q), k \in Nat :
                    b = <<i, k>> /\ q[i].t \in types /\ 1 <= k /\ k <= q[i].n
    BY <1>6, CarriedBy
  <2>3. IsFiniteSet(R) /\ \A b : b \in R <=> \E i \in 1..Len(r), k \in Nat :
                    b = <<i, k>> /\ r[i].t \in types /\ 1 <= k /\ k <= r[i].n
    BY <1>6, CarriedBy
  <2>4. \A b : b \in P <=> \E i \in 1..l + n, k \in Nat :
                    b = <<i, k>> /\ p[i].t \in types /\ 1 <= k /\ k <= p[i].n
    <3>1. Len(p) = l + n
      BY <1>3, <1>4, <1>5
    <3>. QED  BY <2>1, <3>1
  <2>5. \A b : b \in Q <=> \E i \in 1..l, k \in Nat :
                    b = <<i, k>> /\ q[i].t \in types /\ 1 <= k /\ k <= q[i].n
    BY <2>2, <1>3
  <2>6. \A b : b \in R <=> \E i \in 1..n, k \in Nat :
                    b = <<i, k>> /\ r[i].t \in types /\ 1 <= k /\ k <= r[i].n
    BY <2>3, <1>4
  <2>7. IsFiniteSet(P) /\ IsFiniteSet(Q) /\ IsFiniteSet(R)
    BY <2>1, <2>2, <2>3
  <2>. QED  BY <2>4, <2>5, <2>6, <2>7, Zenon
<1>8. PICK f : f = [b \in R |-> <<l + b[1], b[2]>>]
  OBVIOUS
<1>. DEFINE S == {f[b] : b \in R}
<1>9. \A i \in 1..n, k \in Nat : <<i, k>> \in R => f[<<i, k>>] = <<l + i, k>>
  BY <1>8
<1>10. P = Q \cup S
  <2>1. ASSUME NEW b \in P PROVE b \in Q \cup S
    <3>1. PICK i \in 1..l + n, k \in Nat :
             b = <<i, k>> /\ p[i].t \in types /\ 1 <= k /\ k <= p[i].n
      BY <1>7
    <3>2. CASE i \in 1..l
      BY <1>5, <1>7, <3>1, <3>2
    <3>3. CASE i \notin 1..l
      <4>1. PICK j : j = i - l
        OBVIOUS
      <4>2. j \in 1..n /\ i = l + j
        BY <1>5, <3>3, <4>1
      <4>3. p[i] = r[j]
        BY <1>5, <4>2
      <4>4. <<j, k>> \in R
        BY <1>7, <3>1, <4>2, <4>3
      <4>. QED  BY <1>9, <3>1, <4>2, <4>4
    <3>. QED  BY <3>2, <3>3
  <2>2. ASSUME NEW b \in Q PROVE b \in P
    <3>1. \A i \in 1..l : i \in 1..l + n
      BY <1>5
    <3>. QED  BY <1>5, <1>7, <3>1
  <2>3. ASSUME NEW b \in R PROVE f[b] \in P
    <3>1. PICK i \in 1..n, k \in Nat :
             b = <<i, k>> /\ r[i].t \in types /\ 1 <= k /\ k <= r[i].n
      BY <1>7
    <3>2. f[b] = <<l + i, k>> /\ l + i \in 1..l + n /\ p[l + i] = r[i]
      BY <1>5, <1>9, <3>1
    <3>. QED  BY <1>7, <3>1, <3>2
  <2>. QED  BY <2>1, <2>2, <2>3
<1>11. Q \cap S = {}
  <2>1. ASSUME NEW b \in R, f[b] \in Q PROVE FALSE
    <3>1. PICK i \in 1..n, k \in Nat : b = <<i, k>>
      BY <1>7
    <3>2. PICK j \in 1..l, k2 \in Nat : f[b] = <<j, k2>>
      <4>1. PICK g : g = f[b]
        OBVIOUS
      <4>2. g \in Q
        BY <2>1, <4>1
      <4>3. \E j \in 1..l, k2 \in Nat : g = <<j, k2>>
        BY <1>7, <4>2
      <4>. QED  BY <4>1, <4>3
    <3>3. l + i = j
      BY <1>9, <3>1, <3>2
    <3>. QED  BY <1>5, <3>3
  <2>. QED  BY <2>1
<1>12. f \in Bijection(R, S)
  <2>1. f \in [R -> S] /\ \A t \in S : \E b \in R : f[b] = t
    BY <1>8
  <2>2. ASSUME NEW a \in R, NEW b \in R, f[a] = f[b] PROVE a = b
    <3>1. PICK i \in 1..n, k \in Nat : a = <<i, k>>
      BY <1>7
    <3>2. PICK j \in 1..n, k2 \in Nat : b = <<j, k2>>
      BY <1>7
    <3>3. l + i = l + j /\ k = k2
      BY <1>9, <2>2, <3>1, <3>2
    <3>. QED  BY <1>5, <3>1, <3>2, <3>3
  <2>. QED  BY <2>1, <2>2 DEF Bijection, Injection, IsInjective, Surjection
<1>. HIDE DEF S
<1>13. IsFiniteSet(S) /\ Cardinality(S) = Cardinality(R)
  BY <1>7, <1>12, FS_Bijection DEF ExistsBijection
<1>14. Cardinality(P) = Cardinality(Q) + Cardinality(S) - Cardinality(Q \cap S)
  BY <1>7, <1>10, <1>13, FS_Union
<1>15. Cardinality(Q \cap S) = 0
  BY <1>11, FS_EmptySet
<1>16. Cardinality(Q) \in Nat /\ Cardinality(R) \in Nat
  BY <1>7, FS_CardinalityType
<1>17. Cardinality(P) = Cardinality(Q) + Cardinality(R)
  BY <1>13, <1>14, <1>15, <1>16
<1>. QED  BY <1>2, <1>6, <1>17 DEF Bytes

\* Saying one more packet adds its bytes.
LEMMA BytesAppended ==
    ASSUME NEW q \in Seq(Message), NEW m \in Message, NEW types
    PROVE  Bytes(Append(q, m), types) =
             IF m.t \in types THEN Bytes(q, types) + m.n ELSE Bytes(q, types)
<1>1. <<m>> \in Seq(Message) /\ Append(q, m) = q \o <<m>>
  BY AppendIsConcat
<1>2. Bytes(q, types) \in Nat
  BY CarriedBy
<1>3. Bytes(Append(q, m), types) = Bytes(q, types) + Bytes(<<m>>, types)
  BY ZenonT(60), <1>1, BytesJoined
<1>. QED  BY <1>2, <1>3, BytesOne

\* Nothing under way carries nothing.
LEMMA BytesEmpty ==
    ASSUME NEW types
    PROVE  Bytes(<<>>, types) = 0
<1>1. PICK q : q = <<>>
  OBVIOUS
<1>2. q \in Seq(Message) /\ Types(q) \cap types = {}
  BY <1>1, OrderNone
<1>. QED  BY <1>1, <1>2, BytesNone

\* Reading the first packet takes its bytes away.
LEMMA BytesTaken ==
    ASSUME NEW q \in Seq(Message), q # <<>>, NEW types
    PROVE  /\ Bytes(q, types) =
                IF Head(q).t \in types THEN Head(q).n + Bytes(Tail(q), types)
                                       ELSE Bytes(Tail(q), types)
           /\ Bytes(q, types) \in Nat /\ Bytes(Tail(q), types) \in Nat
           /\ Head(q).n \in Nat
<1>1. PICK h, r : h = Head(q) /\ r = Tail(q)
  OBVIOUS
<1>2. h \in Message /\ r \in Seq(Message) /\ <<h>> \in Seq(Message) /\ h.n \in Nat
  <2>1. h \in Message /\ r \in Seq(Message)
    BY <1>1, OrderTaken
  <2>. QED  BY <2>1 DEF Message
<1>3. q = <<h>> \o r
  BY <1>1, HeadTailProperties, <1>2
<1>4. Bytes(q, types) = Bytes(<<h>>, types) + Bytes(r, types)
  BY <1>2, <1>3, BytesJoined
<1>5. Bytes(q, types) \in Nat /\ Bytes(r, types) \in Nat
  BY <1>2, CarriedBy
<1>. QED  BY <1>1, <1>2, <1>4, <1>5, BytesOne

---------------------------------------------------------------------------
(* What the functions of an end pay *)

\* The packets that grant credit
Grants == {"adjust", "open", "confirm"}

\* What is owed to the peer is below what writechannel() waits for.
Owed(e, c) == c.recvdonelen = 0 \/ c.recvdonelen < WindowExtend(e)

\* From a channel c to d an end sends q: data is paid for from its window, and
\* what its own window grew by is granted to the peer.
Paid(e, c, d, q) ==
    /\ d.transwindow + Bytes(q, Data) = c.transwindow
    /\ d.recvwindow = c.recvwindow + Bytes(q, Grants)
    /\ Owed(e, d)
\* An end of channel c has so far become world w, and has paid for it; Flown:
\* the channel may have been removed on the way.
Flows(e, c, w) ==
    /\ c \in Channels /\ ~c.initconn
    /\ Speaks(e, c, w) /\ ~w.bad /\ Paid(e, c, w.c, w.q)
Flown(e, c, w) ==
    Spoken(e, c, w) /\ ~w.bad /\ (w.c # NoChannel => Paid(e, c, w.c, w.q))

LEMMA FlowsFlown ==
    ASSUME NEW e, NEW c, NEW w, Flows(e, c, w)
    PROVE  Flown(e, c, w)
BY SpeaksSpoken DEF Flows, Flown

\* close_chan_fd() touches no window.
LEMMA CloseFdBooks ==
    ASSUME NEW e \in End, NEW c \in Channels, NEW fd, NEW how
    PROVE  LET d == CloseChanFd(e, c, fd, how)
           IN  /\ d \in Channels /\ d.transwindow = c.transwindow
               /\ d.recvwindow = c.recvwindow /\ d.recvdonelen = c.recvdonelen
<1>1. CloseChanFd(e, c, fd, how) \in Channels
  BY CloseFdKeeps
<1>. QED  BY <1>1 DEF CloseChanFd, Channels

\* Nothing is paid.
Idle(c, d) == /\ d.transwindow = c.transwindow /\ d.recvwindow = c.recvwindow
              /\ d.recvdonelen = c.recvdonelen

\* What touches no window owes nothing.
LEMMA PaidIdle ==
    ASSUME NEW e, NEW c, NEW d, NEW n, NEW q, Paid(e, c, d, q), Idle(d, n)
    PROVE  Paid(e, c, n, q)
BY DEF Paid, Owed, Idle

\* A packet that carries no byte.
LEMMA PaidBare ==
    ASSUME NEW e, NEW c, NEW d, NEW q \in Seq(Message), Paid(e, c, d, q),
           NEW m \in Message, m.t \notin Data \cup Grants
    PROVE  Paid(e, c, d, Append(q, m))
<1>1. /\ Bytes(Append(q, m), Data) = Bytes(q, Data)
      /\ Bytes(Append(q, m), Grants) = Bytes(q, Grants)
  BY BytesAppended
<1>. QED  BY <1>1 DEF Paid

LEMMA FdClosedFlows ==
    ASSUME NEW e \in End, NEW c, NEW w, Flows(e, c, w), NEW fd, NEW how
    PROVE  Flows(e, c, [w EXCEPT !.c = CloseChanFd(e, w.c, fd, how)])
<1>1. PICK d : d = CloseChanFd(e, w.c, fd, how)
  OBVIOUS
<1>2. w \in Worlds /\ w.c \in Channels
  BY WorldFields DEF Flows, Speaks, LiveWorld
<1>3. Idle(w.c, d)
  BY <1>1, <1>2, CloseFdBooks DEF Idle
<1>4. PICK v : v = [w EXCEPT !.c = d]
  OBVIOUS
<1>5. v.c = d /\ v.q = w.q /\ v.bad = w.bad
  BY <1>2, <1>4 DEF Worlds
<1>6. Speaks(e, c, v)
  BY <1>1, <1>4, FdClosedSpeaks DEF Flows
<1>7. Paid(e, c, v.c, v.q)
  BY <1>3, <1>5, PaidIdle DEF Flows
<1>. QED  BY <1>1, <1>4, <1>5, <1>6, <1>7 DEF Flows

\* EOF costs nothing.
LEMMA SendEofFlows ==
    ASSUME NEW e \in End, NEW c, NEW w, Flows(e, c, w),
           ~w.c.sent_eof, NothingMoreToSend(w.c)
    PROVE  Flows(e, c, SendEof(w))
<1>1. PICK m : m = Msg("eof", 0)
  OBVIOUS
<1>2. m \in Message /\ m.t = "eof"
  BY <1>1, MsgMessage DEF Msg, MsgType
<1>3. PICK v : v = SendEof(w)
  OBVIOUS
<1>4. w \in Worlds /\ w.c \in Channels /\ w.q \in Seq(Message)
  BY WorldFields DEF Flows, Speaks, LiveWorld
<1>5. /\ v.q = Append(w.q, m) /\ v.bad = w.bad
      /\ v.c = [w.c EXCEPT !.sent_eof = TRUE]
  BY <1>1, <1>3, <1>4 DEF SendEof, Worlds
<1>6. Idle(w.c, v.c)
  BY <1>4, <1>5 DEF Idle, Channels
<1>7. Paid(e, c, w.c, v.q)
  BY <1>2, <1>4, <1>5, PaidBare DEF Flows, Data, Grants
<1>8. Paid(e, c, v.c, v.q)
  BY <1>6, <1>7, PaidIdle
<1>9. Speaks(e, c, v)
  BY <1>3, SendEofSpeaks DEF Flows
<1>. QED  BY <1>3, <1>5, <1>8, <1>9 DEF Flows

\* The close handler may say the exit status: it costs nothing.
LEMMA RunCloseHandlerBooks ==
    ASSUME NEW e \in End, NEW c, NEW w, LiveWorld(e, w), Paid(e, c, w.c, w.q),
           NEW exited
    PROVE  LET v == RunCloseHandler(e, w, exited)
           IN  LiveWorld(e, v) /\ v.bad = w.bad /\ Paid(e, c, v.c, v.q)
<1>1. PICK m : m = Msg("exit", 0)
  OBVIOUS
<1>2. m \in Message /\ m.t = "exit"
  BY <1>1, MsgMessage DEF Msg, MsgType
<1>3. PICK v : v = RunCloseHandler(e, w, exited)
  OBVIOUS
<1>4. w \in Worlds /\ w.c \in Channels /\ w.q \in Seq(Message)
  BY WorldFields DEF LiveWorld
<1>5. LiveWorld(e, v)
  BY <1>3, RunCloseHandlerLive
<1>6. v.bad = w.bad /\ v.q \in {w.q, Append(w.q, m)} /\ Idle(w.c, v.c)
  <2>1. \/ v = w
        \/ /\ v.bad = w.bad /\ v.q \in {w.q, Append(w.q, m)}
           /\ v.c = [w.c EXCEPT !.close_handler_done = TRUE]
    BY <1>1, <1>3, <1>4 DEF RunCloseHandler, Worlds
  <2>2. CASE v = w
    BY <2>2 DEF Idle
  <2>3. CASE /\ v.bad = w.bad /\ v.q \in {w.q, Append(w.q, m)}
             /\ v.c = [w.c EXCEPT !.close_handler_done = TRUE]
    <3>1. Idle(w.c, v.c)
      BY <1>4, <2>3 DEF Idle, Channels
    <3>. QED  BY <2>3, <3>1
  <2>. QED  BY <2>1, <2>2, <2>3
<1>7. Paid(e, c, w.c, v.q)
  BY <1>2, <1>4, <1>6, PaidBare DEF Data, Grants
<1>8. Paid(e, c, v.c, v.q)
  BY <1>6, <1>7, PaidIdle
<1>. QED  BY <1>3, <1>5, <1>6, <1>8

\* CLOSE costs nothing either.
LEMMA SendCloseFlows ==
    ASSUME NEW e \in End, NEW c, NEW w, Flows(e, c, w), NEW exited,
           ~w.c.sent_close, HasCheckClose(e) => exited
    PROVE  Flows(e, c, SendClose(e, w, exited))
<1>. DEFINE w1 == RunCloseHandler(e, w, exited)
            c1 == Closed(w1.c)
            c2 == CloseChanFd(e, c1, c1.readfd, "RD")
            c3 == CloseChanFd(e, c2, c2.errfd, "RDWR")
            c4 == CloseChanFd(e, c3, c3.writefd, "WR")
<1>1. PICK m : m = Msg("close", 0)
  OBVIOUS
<1>2. m \in Message /\ m.t = "close"
  BY <1>1, MsgMessage DEF Msg, MsgType
<1>3. LiveWorld(e, w1) /\ w1.bad = w.bad /\ Paid(e, c, w1.c, w1.q)
  BY RunCloseHandlerBooks DEF Flows, Speaks
<1>. HIDE DEF w1
<1>4. w1 \in Worlds /\ w1.c \in Channels /\ w1.q \in Seq(Message)
  BY <1>3, WorldFields DEF LiveWorld
<1>5. c1 \in Channels /\ Idle(w1.c, c1)
  BY <1>4 DEF Closed, Channels, Idle
<1>. HIDE DEF c1
<1>6. c2 \in Channels /\ Idle(c1, c2)
  BY <1>5, CloseFdBooks DEF Idle
<1>. HIDE DEF c2
<1>7. c3 \in Channels /\ Idle(c2, c3)
  BY <1>6, CloseFdBooks DEF Idle
<1>. HIDE DEF c3
<1>8. c4 \in Channels /\ Idle(c3, c4)
  BY <1>7, CloseFdBooks DEF Idle
<1>. HIDE DEF c4
<1>9. Idle(w1.c, c4)
  BY <1>5, <1>6, <1>7, <1>8 DEF Idle
<1>10. PICK v : v = SendClose(e, w, exited)
  OBVIOUS
<1>11. v = [w1 EXCEPT !.q = Append(@, m), !.c = c4]
  BY <1>1, <1>10 DEF SendClose, w1, c1, c2, c3, c4
<1>12. v.q = Append(w1.q, m) /\ v.c = c4 /\ v.bad = w1.bad
  BY <1>4, <1>11 DEF Worlds
<1>13. Paid(e, c, w1.c, v.q)
  BY <1>2, <1>3, <1>4, <1>12, PaidBare DEF Data, Grants
<1>14. Paid(e, c, v.c, v.q)
  BY <1>9, <1>12, <1>13, PaidIdle
<1>15. Speaks(e, c, v)
  BY <1>10, SendCloseSpeaks DEF Flows
<1>. QED  BY <1>3, <1>10, <1>12, <1>14, <1>15 DEF Flows

\* Data cost the credit of their length.
LEMMA SendDataFlows ==
    ASSUME NEW e \in End, NEW c, NEW w, Flows(e, c, w),
           NEW isextended \in BOOLEAN,
           IF isextended THEN ErrIsRead(w.c) /\ w.c.errfd >= 0
                         ELSE w.c.readfd >= 0
    PROVE  Flows(e, c, SendData(e, w, isextended))
<1>. DEFINE fd     == IF isextended THEN w.c.errfd ELSE w.c.readfd
            avail  == IF isextended THEN w.src.ebuf ELSE w.src.buf
            len    == MinOf(avail, MaxLen(w.c))
            sent   == [w.c EXCEPT !.transwindow = @ - len]
            c1     == IF DrainedBy(w.c, len) THEN CloseChanFd(e, sent, fd, "RD")
                                             ELSE sent
            m      == Msg(IF isextended THEN "ext" ELSE "data", len)
<1>1. PICK v : v = SendData(e, w, isextended)
  OBVIOUS
<1>2. Speaks(e, c, v)
  BY <1>1, SendDataSpeaks DEF Flows
<1>3. /\ w.q \in Seq(Message) /\ w.c \in Channels /\ w \in Worlds
      /\ w.src \in Sources /\ Kept(e, c, w.c, w.q) /\ Paid(e, c, w.c, w.q)
  BY WorldFields DEF Flows, Speaks, LiveWorld, Worlds
<1>4. ~w.c.sent_close /\ ~(fd < 0)
  <2>1. w.c.readfd \in Int /\ w.c.errfd \in Int
    BY <1>3, FdNumbers
  <2>. QED  BY <1>3, <2>1 DEF Kept, FdOK, ErrIsRead
<1>5. \/ v = w
      \/ v = [w EXCEPT !.c = CloseChanFd(e, w.c, fd, "RD")]
      \/ v = [w EXCEPT !.q = Append(@, m),
                       !.src.buf  = IF isextended THEN @ ELSE @ - len,
                       !.src.ebuf = IF isextended THEN @ - len ELSE @,
                       !.c = c1]
  BY <1>1, <1>4 DEF SendData
<1>6. CASE v = w
  BY <1>1, <1>6
<1>7. CASE v = [w EXCEPT !.c = CloseChanFd(e, w.c, fd, "RD")]
  <2>. HIDE DEF fd
  <2>. QED  BY <1>1, <1>7, FdClosedFlows
<1>8. CASE v = [w EXCEPT !.q = Append(@, m),
                         !.src.buf  = IF isextended THEN @ ELSE @ - len,
                         !.src.ebuf = IF isextended THEN @ - len ELSE @,
                         !.c = c1]
  <2>1. len \in Nat /\ len <= w.c.transwindow /\ w.c.transwindow \in Nat
    <3>1. avail \in Nat /\ w.c.transwindow \in Nat /\ MaxPacket \in Nat
      BY <1>3, WindowAssumption DEF Sources, Channels
    <3>. HIDE DEF avail
    <3>. QED  BY <3>1 DEF MaxLen, MinOf
  <2>2. m \in Message /\ m.t \in Data /\ m.t \notin Grants /\ m.n = len
    BY <2>1, MsgMessage DEF Msg, MsgType, Data, Grants
  <2>3. /\ sent \in Channels /\ sent.transwindow = w.c.transwindow - len
        /\ sent.recvwindow = w.c.recvwindow /\ sent.recvdonelen = w.c.recvdonelen
    <3>. HIDE DEF len
    <3>1. w.c.transwindow - len \in Nat
      BY <2>1
    <3>. QED  BY <1>3, <3>1 DEF Channels
  <2>. HIDE DEF m, len, sent, fd
  <2>4. Idle(sent, c1)
    BY <2>3, CloseFdBooks DEF Idle
  <2>. HIDE DEF c1
  <2>5. v.q = Append(w.q, m) /\ v.c = c1 /\ v.bad = w.bad
    BY <1>3, <1>8 DEF Worlds
  <2>6. /\ Bytes(v.q, Data) = Bytes(w.q, Data) + len
        /\ Bytes(v.q, Grants) = Bytes(w.q, Grants)
    BY <1>3, <2>2, <2>5, BytesAppended
  <2>7. Bytes(w.q, Data) \in Nat
    BY <1>3, CarriedBy
  <2>8. Paid(e, c, sent, v.q)
    BY <1>3, <2>1, <2>3, <2>6, <2>7 DEF Paid, Owed
  <2>9. Paid(e, c, v.c, v.q)
    BY <2>4, <2>5, <2>8, PaidIdle
  <2>. QED  BY <1>1, <1>2, <2>5, <2>9 DEF Flows
<1>. QED  BY <1>5, <1>6, <1>7, <1>8

\* Flushing pays for all it sends.
LEMMA FlushFlows ==
    ASSUME NEW e \in End, NEW c, NEW w, Flows(e, c, w)
    PROVE  Flows(e, c, Flush(e, w))
<1>. DEFINE w1 == IF w.c.flushing /\ w.c.readfd >= 0 /\ w.c.transwindow > 0
                  THEN SendData(e, w, FALSE) ELSE w
<1>1. Flows(e, c, w1)
  BY SendDataFlows
<1>2. Flush(e, w) = IF w1.c.flushing /\ ErrIsRead(w1.c) /\ w1.c.errfd >= 0
                       /\ w1.c.transwindow > 0
                    THEN SendData(e, w1, TRUE) ELSE w1
  BY DEF Flush
<1>. HIDE DEF w1
<1>3. CASE w1.c.flushing /\ ErrIsRead(w1.c) /\ w1.c.errfd >= 0
           /\ w1.c.transwindow > 0
  <2>1. Flows(e, c, SendData(e, w1, TRUE))
    BY <1>1, <1>3, SendDataFlows
  <2>. QED  BY <1>2, <1>3, <2>1
<1>4. CASE ~(w1.c.flushing /\ ErrIsRead(w1.c) /\ w1.c.errfd >= 0
             /\ w1.c.transwindow > 0)
  BY <1>1, <1>2, <1>4
<1>. QED  BY <1>3, <1>4

LEMMA FlushingFlows ==
    ASSUME NEW e \in End, NEW c, NEW w, Flows(e, c, w), NEW flushing \in BOOLEAN
    PROVE  Flows(e, c, [w EXCEPT !.c.flushing = flushing])
<1>1. PICK v : v = [w EXCEPT !.c.flushing = flushing]
  OBVIOUS
<1>2. w \in Worlds /\ w.c \in Channels
  BY WorldFields DEF Flows, Speaks, LiveWorld
<1>3. Speaks(e, c, v)
  BY <1>1, FlushingSpeaks DEF Flows
<1>4. v.q = w.q /\ v.bad = w.bad /\ v.c = [w.c EXCEPT !.flushing = flushing]
  BY <1>1, <1>2 DEF Worlds
<1>5. Idle(w.c, v.c)
  BY <1>2, <1>4 DEF Idle, Channels
<1>6. Paid(e, c, v.c, v.q)
  BY <1>4, <1>5, PaidIdle DEF Flows
<1>. QED  BY <1>1, <1>3, <1>4, <1>6 DEF Flows

\* remove_channel() leaves no books to keep.
LEMMA RemoveFlown ==
    ASSUME NEW e \in End, NEW c, NEW w, Flows(e, c, w), w.c.sent_close,
           c.recv_close, NEW exited
    PROVE  Flown(e, c, RemoveChannel(e, w, exited))
<1>1. w \in Worlds /\ Kept(e, c, w.c, w.q) /\ ~w.bad
  BY DEF Flows, Speaks, LiveWorld
<1>2. RunCloseHandler(e, w, exited) = w
  BY <1>1 DEF RunCloseHandler, Kept, FdOK
<1>3. PICK v : v = RemoveChannel(e, w, exited)
  OBVIOUS
<1>4. v = [w EXCEPT !.c = NoChannel]
  BY <1>2, <1>3 DEF RemoveChannel
<1>5. v.bad = w.bad /\ v.c = NoChannel
  BY <1>1, <1>4 DEF Worlds
<1>6. Spoken(e, c, v)
  BY <1>3, RemoveSpoken DEF Flows
<1>. QED  BY <1>1, <1>3, <1>5, <1>6 DEF Flown

\* check_close() moves no credit but for the data it flushes.
LEMMA CheckCloseFlown ==
    ASSUME NEW e \in End, NEW c, NEW w, Flows(e, c, w),
           NEW exited1 \in BOOLEAN, NEW exited2 \in BOOLEAN
    PROVE  Flown(e, c, CheckClose(e, w, exited1, exited2))
<1>. DEFINE flushing == \/ w.c.flushing
                        \/ ~w.c.close_handler_done /\ HasCheckClose(e) /\ exited1
            allowed == CloseAllowed(e, w.c, exited2)
            w1 == [w EXCEPT !.c.flushing = flushing]
            w2 == IF \/ w1.c.recv_eof /\ ~WritePending(w1.c)
                     \/ HasCheckClose(e) /\ allowed
                  THEN [w1 EXCEPT !.c = CloseChanFd(e, @, @.writefd, "WR")] ELSE w1
            w3 == Flush(e, w2)
            w4 == IF ~w3.c.sent_eof /\ NothingMoreToSend(w3.c)
                  THEN SendEof(w3) ELSE w3
            w5 == IF w1.c.sent_close THEN w1 ELSE SendClose(e, w1, exited2)
            v == CheckClose(e, w, exited1, exited2)
<1>1. w.c \in Channels /\ Kept(e, c, w.c, w.q) /\ Speaks(e, c, w)
  BY WorldFields DEF Flows, Speaks
<1>2. /\ Flows(e, c, w1) /\ w1.c.sent_close = w.c.sent_close
  <2>1. flushing \in BOOLEAN
    BY <1>1 DEF Channels
  <2>. HIDE DEF flushing
  <2>. QED  BY <1>1, <2>1, FlushingSpeaks, FlushingFlows
<1>. HIDE DEF w1
<1>3. Flows(e, c, w2) /\ (w1.c.sent_close => w2.c.sent_close)
  BY <1>2, FdClosedFlows, FdClosedSpeaks DEF Flows
<1>. HIDE DEF w2
<1>4. Flows(e, c, w3) /\ w3.c.sent_close = w2.c.sent_close
  BY <1>3, FlushFlows, FlushSpeaks DEF Flows
<1>. HIDE DEF w3
<1>5. Flows(e, c, w4) /\ (w3.c.sent_close => w4.c.sent_close)
  BY <1>4, SendEofFlows, SendEofSpeaks DEF Flows
<1>. HIDE DEF w4
<1>6. allowed /\ ~w.c.sent_close => (HasCheckClose(e) => exited2)
  BY <1>1 DEF CloseAllowed, Kept, FdOK
<1>7. v = IF MayRemove(w1.c, allowed)
          THEN RemoveChannel(e, w5, exited2)
          ELSE IF /\ NothingMoreToSend(w4.c) /\ w4.c.writefd = FD_CLOSED
                  /\ ~w4.c.sent_close /\ allowed /\ ~WritePending(w4.c)
          THEN SendClose(e, w4, exited2)
          ELSE w4
  BY DEF CheckClose, w1, w2, w3, w4
<1>. HIDE DEF allowed, v
<1>8. CASE MayRemove(w1.c, allowed)
  <2>1. allowed /\ c.recv_close
    BY <1>2, <1>8 DEF MayRemove, Flows, Speaks, Kept
  <2>2. Flows(e, c, w5) /\ w5.c.sent_close
    BY <1>2, <1>6, <2>1, SendCloseFlows, SendCloseSpeaks DEF Flows
  <2>. HIDE DEF w5
  <2>. QED  BY <1>7, <1>8, <2>1, <2>2, RemoveFlown DEF v
<1>9. CASE ~MayRemove(w1.c, allowed) /\ ~w4.c.sent_close /\ allowed
  <2>1. ~w.c.sent_close
    BY <1>2, <1>3, <1>4, <1>5, <1>9
  <2>2. Flows(e, c, SendClose(e, w4, exited2))
    BY <1>5, <1>6, <1>9, <2>1, SendCloseFlows
  <2>3. v = SendClose(e, w4, exited2) \/ v = w4
    BY <1>7, <1>9
  <2>. QED  BY <1>5, <2>2, <2>3, FlowsFlown DEF v
<1>10. CASE ~MayRemove(w1.c, allowed) /\ ~(~w4.c.sent_close /\ allowed)
  BY <1>5, <1>7, <1>10, FlowsFlown DEF v
<1>. QED  BY <1>8, <1>9, <1>10

\* writechannel() grants what it has written out once that is enough.
LEMMA WriteChannelFlows ==
    ASSUME NEW e \in End, NEW c, NEW w, Flows(e, c, w), NEW f \in {"w", "x"},
           NEW len \in 0 .. IF f = "w" THEN w.c.wbuf ELSE w.c.xbuf,
           IF f = "w" THEN w.c.writefd >= 0 ELSE w.c.errfd >= 0
    PROVE  Flows(e, c, WriteChannel(e, w, f, len))
<1>. DEFINE fd == IF f = "w" THEN w.c.writefd ELSE w.c.errfd
            w1 == [w EXCEPT !.c.wbuf = IF f = "w" THEN @ - len ELSE @,
                            !.c.xbuf = IF f = "x" THEN @ - len ELSE @,
                            !.c.recvdonelen = @ + len,
                            !.out = @ + len]
            n == w.c.recvdonelen + len
            m == Msg("adjust", n)
            w2 == AdjustWindow(e, w1)
<1>1. PICK v : v = WriteChannel(e, w, f, len)
  OBVIOUS
<1>2. /\ w.q \in Seq(Message) /\ w.c \in Channels /\ w \in Worlds
      /\ Paid(e, c, w.c, w.q) /\ ~w.bad /\ ~w.c.initconn /\ LiveWorld(e, w)
  BY WorldFields DEF Flows, Speaks, LiveWorld, Kept
<1>3. Speaks(e, c, v) /\ ~v.bad
  <2>1. Speaks(e, c, v)
    BY <1>1, WriteChannelSpeaks DEF Flows
  <2>2. v.bad = w.bad
    BY <1>1, <1>2, WriteChannelLive
  <2>. QED  BY <1>2, <2>1, <2>2
<1>4. CASE f \in broken[e]
  <2>1. v = [w EXCEPT !.c = CloseChanFd(e, w.c, fd, "WR")]
    BY <1>1, <1>4 DEF WriteChannel
  <2>. HIDE DEF fd
  <2>. QED  BY <1>1, <2>1, FdClosedFlows
<1>5. CASE f \notin broken[e]
  <2>1. /\ w1.q = w.q /\ w1.c.recvdonelen = n /\ w1.c.recvwindow = w.c.recvwindow
        /\ w1.c.transwindow = w.c.transwindow
        /\ w.c.recvdonelen \in Nat /\ w.c.recvwindow \in Nat
        /\ len \in Nat
    <3>1. len \in Nat
      BY <1>2 DEF Channels
    <3>2. /\ w1.q = w.q /\ w1.c.recvdonelen = n /\ w1.c.recvwindow = w.c.recvwindow
          /\ w1.c.transwindow = w.c.transwindow
      BY <1>2 DEF Worlds, Channels
    <3>. QED  BY <1>2, <3>1, <3>2 DEF Channels
  <2>2. n \in Nat
    BY <2>1
  <2>3. m \in Message /\ m.t = "adjust" /\ m.n = n
    <3>. HIDE DEF n
    <3>. QED  BY <2>2, MsgMessage DEF Msg, MsgType
  <2>4. v = [w2 EXCEPT !.bad = w2.bad \/ ~WindowAssertions(e, w2.c)]
    BY <1>1, <1>5 DEF WriteChannel
  <2>5. v.q = w2.q /\ v.c = w2.c
    <3>. HIDE DEF w2
    <3>1. v \in Worlds
      BY <1>3 DEF Speaks, LiveWorld
    <3>. QED  BY <2>4
  <2>6. WindowExtend(e) \in Int
    BY WindowAssumption DEF WindowExtend
  <2>7. /\ Bytes(w.q, Data) \in Nat /\ Bytes(w.q, Grants) \in Nat
        /\ w.c.transwindow + Bytes(w.q, Data) = c.transwindow
        /\ w.c.recvwindow = c.recvwindow + Bytes(w.q, Grants)
    BY <1>2, CarriedBy DEF Paid
  <2>8. CASE n >= WindowExtend(e)
    <3>1. w2 = [w1 EXCEPT !.q = Append(@, Msg("adjust", w1.c.recvdonelen)),
                          !.c.recvwindow = @ + w1.c.recvdonelen,
                          !.c.recvdonelen = 0]
      BY <2>1, <2>8 DEF AdjustWindow
    <3>2. /\ DOMAIN w1 = {"c", "src", "q", "out", "bad"}
          /\ {"recvwindow", "recvdonelen", "transwindow"} \subseteq DOMAIN w1.c
      BY <1>2 DEF Worlds, Channels
    <3>3. /\ w2.q = Append(w.q, m) /\ w2.c.recvwindow = w.c.recvwindow + n
          /\ w2.c.recvdonelen = 0 /\ w2.c.transwindow = w.c.transwindow
      <4>. HIDE DEF w1, n
      <4>1. PICK d : d = [w1.c EXCEPT !.recvwindow = @ + n, !.recvdonelen = 0]
        OBVIOUS
      <4>2. w2 = [w1 EXCEPT !.q = Append(@, m), !.c = d]
        BY <2>1, <3>1, <3>2, <4>1 DEF m
      <4>3. /\ d.recvwindow = w1.c.recvwindow + n /\ d.recvdonelen = 0
            /\ d.transwindow = w1.c.transwindow
        BY <3>2, <4>1
      <4>4. w2.q = Append(w1.q, m) /\ w2.c = d
        BY <3>2, <4>2
      <4>. QED  BY <2>1, <4>3, <4>4
    <3>. HIDE DEF w1, w2, m, n
    <3>4. /\ Bytes(v.q, Data) = Bytes(w.q, Data)
          /\ Bytes(v.q, Grants) = Bytes(w.q, Grants) + n
      <4>1. "adjust" \notin Data /\ "adjust" \in Grants
        BY DEF Data, Grants
      <4>2. PICK k : k = m
        OBVIOUS
      <4>3. k \in Message /\ k.t = "adjust" /\ k.n = n /\ v.q = Append(w.q, k)
        BY <2>3, <2>5, <3>3, <4>2
      <4>. QED  BY <1>2, <4>1, <4>3, BytesAppended
    <3>5. v.c.recvwindow = c.recvwindow + Bytes(v.q, Grants)
      <4>1. c.recvwindow \in Int
        BY DEF Flows, Channels
      <4>. QED  BY <4>1, <2>1, <2>2, <2>5, <2>7, <3>3, <3>4
    <3>6. Paid(e, c, v.c, v.q)
      BY <2>5, <2>7, <3>3, <3>4, <3>5 DEF Paid, Owed
    <3>. QED  BY <1>1, <1>3, <3>6 DEF Flows
  <2>9. CASE ~(n >= WindowExtend(e))
    <3>1. w2 = w1
      BY <2>1, <2>9 DEF AdjustWindow
    <3>2. n < WindowExtend(e)
      BY <2>2, <2>6, <2>9
    <3>. HIDE DEF n
    <3>3. Paid(e, c, v.c, v.q)
      <4>. HIDE DEF w1, w2
      <4>. QED  BY <2>1, <2>5, <2>7, <3>1, <3>2 DEF Paid, Owed
    <3>. QED  BY <1>1, <1>3, <3>3 DEF Flows
  <2>. QED  BY <2>8, <2>9
<1>. QED  BY <1>4, <1>5

\* The two halves of channelio()
LEMMA ReadStepFlows ==
    ASSUME NEW e \in End, NEW c, NEW w, Flows(e, c, w), NEW f \in {"r", "e"}
    PROVE  Flows(e, c, ReadStep(e, w, f))
<1>1. \/ ReadStep(e, w, f) = w
      \/ w.c.readfd >= 0 /\ ReadStep(e, w, f) = SendData(e, w, FALSE)
      \/ /\ ErrIsRead(w.c) /\ w.c.errfd >= 0
         /\ ReadStep(e, w, f) = SendData(e, w, TRUE)
  BY DEF ReadStep
<1>2. CASE ReadStep(e, w, f) = w
  BY <1>2
<1>3. CASE w.c.readfd >= 0 /\ ReadStep(e, w, f) = SendData(e, w, FALSE)
  <2>1. Flows(e, c, SendData(e, w, FALSE))
    BY <1>3, SendDataFlows
  <2>. QED  BY <1>3, <2>1
<1>4. CASE /\ ErrIsRead(w.c) /\ w.c.errfd >= 0
           /\ ReadStep(e, w, f) = SendData(e, w, TRUE)
  <2>1. Flows(e, c, SendData(e, w, TRUE))
    BY <1>4, SendDataFlows
  <2>. QED  BY <1>4, <2>1
<1>. QED  BY <1>1, <1>2, <1>3, <1>4

\* writechannel() owes what it has written, and gives back a third of the
\* window at least, once it owes so much.
LEMMA WriteStepFlows ==
    ASSUME NEW e \in End, NEW c, NEW w, Flows(e, c, w), NEW f \in {"w", "x"},
           NEW len \in 0 .. IF f = "w" THEN w.c.wbuf ELSE w.c.xbuf
    PROVE  Flows(e, c, WriteStep(e, w, f, len))
<1>1. \/ WriteStep(e, w, f, len) = w
      \/ /\ IF f = "w" THEN w.c.writefd >= 0 ELSE w.c.errfd >= 0
         /\ WriteStep(e, w, f, len) = WriteChannel(e, w, f, len)
  BY DEF WriteStep
<1>. QED  BY <1>1, WriteChannelFlows

---------------------------------------------------------------------------
(* The invariant *)

\* One end e may still send, or will when it has answered "open", and the
\* other takes it.
Shared(e) == Live(Peer(e)) /\ (Live(e) \/ "open" \in Types(net[e]))
\* What e may still send, and the balance: with what is under way both ways
\* and what was thrown away it is all that the peer offers.
Held(e) == IF Live(e) THEN ch[e].transwindow ELSE 0
Credit(e) ==
    Held(e) + Bytes(net[e], Grants) + Bytes(net[Peer(e)], Data)
      + dropped[Peer(e)] = ch[Peer(e)].recvwindow

\* What is left for an end without a channel, and why it stays that way
Deaf(e) ==
    /\ Types(net[e]) \subseteq {"open", "winch"}
    /\ Live(Peer(e)) => Asking \/ ch[Peer(e)].sent_close

\* The books of both ends, and what nobody says to an end that is not there.
Flow ==
    /\ \A e \in End : Live(e) => Owed(e, ch[e])
    /\ \A e \in End : ~Live(e) => Deaf(e)
    /\ Asking \/ Types(net["I"]) \cap {"confirm", "failure"} = {}
    /\ Types(net["A"]) \cap {"confirm", "failure"} = {}
    /\ "confirm" \in Types(net["I"]) => Live("A")
    /\ status = "unopened" \/ Asking => \A e \in End : dropped[e] = 0
    /\ \A e \in End : Shared(e) => Credit(e)
    /\ \A e \in End : fatal[e] = "no" \/ (e = "A" /\ "winch" \in Faults
                                            /\ fatal[e] = "unknown channel")

\* The invariant: what is said in which order, and that it is paid for
FInv == OInv /\ Flow

\* What an end has read changes the books at both ends alike.
Met(e, c, rest) ==
    Live(Peer(e)) =>
      /\ c.transwindow + Bytes(rest, Grants) = ch[e].transwindow + Bytes(net[e], Grants)
      /\ ch[e].recvwindow + Bytes(rest, Data) + dropped'[e]
           = c.recvwindow + Bytes(net[e], Data) + dropped[e]

\* An end whose channel is open reads, or does not, and speaks.
LEMMA DoneFlows ==
    ASSUME OInv, Flow, IInv', NEW e \in End, ch[e] # NoChannel,
           ~ch[e].await_open, ~ch[e].initconn,
           NEW c \in Channels, c # NoChannel, ~c.await_open,
           c.sent_close = ch[e].sent_close,
           NEW rest \in Seq(Message), Types(rest) \subseteq Types(net[e]),
           Link(rest, c, ch[Peer(e)]), Met(e, c, rest),
           NEW w, Flown(e, c, w), NEW next, Done(e, w, rest, next),
           status' # "unopened", ~Asking \/ dropped' = dropped,
           dropped'[Peer(e)] = dropped[Peer(e)]
    PROVE  Flow'
<1>. DEFINE f == Peer(e)
<1>o. IInv /\ Opening
  BY DEF OInv
<1>1. /\ ch'[e] = w.c /\ ch'[f] = ch[f] /\ net'[e] = rest
      /\ net'[f] = net[f] \o w.q
  <2>1. /\ ch'[e] = w.c /\ ch'[Peer(e)] = ch[Peer(e)]
        /\ net'[e] = rest /\ net'[Peer(e)] = net[Peer(e)] \o w.q
        /\ pc'[e] = next /\ pc'[Peer(e)] = pc[Peer(e)]
    BY <1>o, DoneFacts, Zenon
  <2>. QED  BY <2>1
<1>2. /\ net[e] \in Seq(Message) /\ net[f] \in Seq(Message) /\ w.q \in Seq(Message)
      /\ f \in End /\ f # e /\ Peer(f) = e /\ \A d \in End : d = e \/ d = f
      /\ ch[e] \in Channels
      /\ ch[f] # NoChannel => ch[f] \in Channels
  BY <1>o, TwoEnds DEF IInv, TypeOK, Flown, Spoken, Good
<1>3. /\ rest \in Seq(Message) /\ Types(rest) \subseteq Types(net[e])
      /\ Link(rest, c, ch[f])
  OBVIOUS
<1>4. /\ Told(e, c, w.q) /\ Types(w.q) \subseteq Talk /\ ~w.bad
      /\ w.c = NoChannel => c.recv_close
      /\ w.c # NoChannel => Kept(e, c, w.c, w.q) /\ Paid(e, c, w.c, w.q)
  BY DEF Flown, Spoken, Told
<1>5. Types(net'[f]) = Types(net[f]) \cup Types(w.q)
  BY <1>1, <1>2, OrderJoined
<1>6. e = "I" => ~Asking
  BY DEF Asking
<1>7. Asking' <=> Asking /\ e = "A"
  <2>1. CASE e = "I"
    BY <2>1, <1>1, <1>4, <1>6 DEF Asking, Live, Kept
  <2>2. CASE e = "A"
    BY <2>2, <1>1, TwoEnds DEF Asking, Live
  <2>. QED  BY <2>1, <2>2, TwoEnds
<1>8. \A d \in End : Live(d)' => Owed(d, ch'[d])
  BY <1>1, <1>2, <1>4 DEF Flow, Live, Paid
<1>9. Live(e)' \/ Deaf(e)'
  <2>. SUFFICES ASSUME ~Live(e)' PROVE Deaf(e)'
    OBVIOUS
  <2>1. c.recv_close
    BY <1>1, <1>4 DEF Live
  <2>2. Types(rest) \subseteq {"winch"}
    BY <1>3, <2>1 DEF Link
  <2>3. Live(f)' => ch'[f].sent_close
    BY <1>1, <1>3, <2>1 DEF Link, Live
  <2>. QED  BY <1>1, <1>2, <2>2, <2>3 DEF Deaf
<1>10. Live(f)' \/ Deaf(f)'
  <2>. SUFFICES ASSUME ~Live(f)' PROVE Deaf(f)'
    OBVIOUS
  <2>1. ~Live(f) /\ Deaf(f) /\ Live(e)
    BY <1>1, <1>2 DEF Live, Flow
  <2>2. ~Asking
    BY <2>1, <1>6, TwoEnds DEF Asking
  <2>3. c.sent_close /\ Types(net[f]) \subseteq {"open", "winch"}
    BY <2>1, <2>2, <1>2 DEF Deaf
  <2>4. w.q = <<>>
    BY <1>4, <2>3 DEF Told
  <2>5. Types(net'[f]) \subseteq {"open", "winch"}
    BY <1>5, <2>3, <2>4, OrderNone
  <2>6. Live(e)' => ch'[e].sent_close
    BY <1>1, <1>4, <2>3 DEF Live, Kept
  <2>. QED  BY <1>2, <2>5, <2>6 DEF Deaf
<1>11. Asking' \/ Types(net'["I"]) \cap {"confirm", "failure"} = {}
  <2>1. Asking \/ Types(net["I"]) \cap {"confirm", "failure"} = {}
    BY DEF Flow
  <2>2. CASE e = "I"
    BY <2>1, <2>2, <1>1, <1>3, <1>6
  <2>3. CASE e = "A"
    <3>1. Types(net'["I"]) = Types(net["I"]) \cup Types(w.q)
      BY <2>3, <1>5, TwoEnds
    <3>. QED  BY <2>1, <2>3, <3>1, <1>4, <1>7 DEF Talk, Data
  <2>. QED  BY <2>2, <2>3, TwoEnds
<1>18. Types(net'["A"]) \cap {"confirm", "failure"} = {}
  <2>1. Types(net["A"]) \cap {"confirm", "failure"} = {}
    BY DEF Flow
  <2>2. CASE e = "A"
    BY <2>1, <2>2, <1>1, <1>3
  <2>3. CASE e = "I"
    <3>1. Types(net'["A"]) = Types(net["A"]) \cup Types(w.q)
      BY <2>3, <1>5, TwoEnds
    <3>. QED  BY <2>1, <3>1, <1>4 DEF Talk, Data
  <2>. QED  BY <2>2, <2>3, TwoEnds
<1>17. "confirm" \in Types(net'["I"]) => Live("A")'
  <2>1. CASE e = "I"
    BY <2>1, <1>1, <1>3, <1>6, <1>11, <1>7
  <2>2. CASE e = "A"
    <3>1. Types(net'["I"]) = Types(net["I"]) \cup Types(w.q)
      BY <2>2, <1>5, TwoEnds
    <3>. SUFFICES ASSUME "confirm" \in Types(net["I"]), w.c = NoChannel PROVE FALSE
      BY <2>2, <3>1, <1>1, <1>4 DEF Live, Talk, Data
    <3>2. Asking
      BY DEF Flow
    <3>3. ch["I"] # NoChannel /\ ~ch["I"].sent_eof /\ FdOK("I", ch["I"])
      BY <1>o, <3>2, TwoEnds DEF Opening, Asking, Live, OInv
    <3>4. ~ch["I"].sent_close
      BY <3>3 DEF FdOK
    <3>. QED  BY <2>2, <3>3, <3>4, <1>3, <1>4, TwoEnds DEF Link
  <2>. QED  BY <2>1, <2>2, TwoEnds
<1>12. (status = "unopened" \/ Asking => \A d \in End : dropped[d] = 0)'
  BY <1>7 DEF Flow
<1>13. \A d \in End : "open" \notin Types(net'[d])
  <2>1. \A d \in End : "open" \notin Types(net[d])
    BY <1>o, <1>6, TwoEnds DEF Opening, Live
  <2>. QED  BY <2>1, <1>1, <1>2, <1>3, <1>4, <1>5 DEF Talk, Data
<1>14. ASSUME Live(e)', Live(f)' PROVE Credit(e)' /\ Credit(f)'
  <2>1. Live(e) /\ Live(f) /\ w.c # NoChannel
    BY <1>1, <1>14 DEF Live
  <2>2. Credit(e) /\ Credit(f)
    BY <2>1, <1>2 DEF Flow, Shared
  <2>3. /\ ch[e].transwindow + Bytes(net[e], Grants) + Bytes(net[f], Data)
             + dropped[f] = ch[f].recvwindow
        /\ ch[f].transwindow + Bytes(net[f], Grants) + Bytes(net[e], Data)
             + dropped[e] = ch[e].recvwindow
    BY <2>1, <2>2, <1>2 DEF Credit, Held
  <2>4. /\ c.transwindow + Bytes(rest, Grants) = ch[e].transwindow + Bytes(net[e], Grants)
        /\ ch[e].recvwindow + Bytes(rest, Data) + dropped'[e]
             = c.recvwindow + Bytes(net[e], Data) + dropped[e]
    BY <2>1 DEF Met
  <2>5. /\ w.c.transwindow + Bytes(w.q, Data) = c.transwindow
        /\ w.c.recvwindow = c.recvwindow + Bytes(w.q, Grants)
    BY <2>1, <1>4 DEF Paid
  <2>6. /\ Bytes(net'[f], Data) = Bytes(net[f], Data) + Bytes(w.q, Data)
        /\ Bytes(net'[f], Grants) = Bytes(net[f], Grants) + Bytes(w.q, Grants)
    BY <1>1, <1>2, BytesJoined
  <2>7. /\ Bytes(net[e], Data) \in Nat /\ Bytes(net[e], Grants) \in Nat
        /\ Bytes(net[f], Data) \in Nat /\ Bytes(net[f], Grants) \in Nat
        /\ Bytes(w.q, Data) \in Nat /\ Bytes(w.q, Grants) \in Nat
        /\ Bytes(rest, Data) \in Nat /\ Bytes(rest, Grants) \in Nat
    BY <1>2, <1>3, CarriedBy
  <2>8. /\ ch[e].transwindow \in Nat /\ ch[e].recvwindow \in Nat
        /\ ch[f].transwindow \in Nat /\ ch[f].recvwindow \in Nat
        /\ c.transwindow \in Nat /\ c.recvwindow \in Nat
    <3>1. ch[f] \in Channels
      BY <2>1, <1>2 DEF Live
    <3>. QED  BY <3>1, <1>2 DEF Channels
  <2>9. /\ dropped[e] \in Nat /\ dropped[f] \in Nat /\ dropped'[e] \in Nat
        /\ dropped'[f] = dropped[f]
    BY <1>o, <1>2 DEF IInv, TypeOK
  <2>10. w.c.transwindow \in Nat /\ w.c.recvwindow \in Nat
    BY <1>1, <1>2, <2>1 DEF IInv, Good, Channels
  <2>11. w.c.transwindow + Bytes(rest, Grants) + Bytes(net'[f], Data)
           + dropped[f] = ch[f].recvwindow
    <3>1. PICK t, g, d, k, o : t = ch[e].transwindow /\ g = Bytes(net[e], Grants)
             /\ d = Bytes(net[f], Data) /\ k = dropped[f] /\ o = ch[f].recvwindow
      OBVIOUS
    <3>2. PICK r, n, m, q : r = Bytes(rest, Grants) /\ n = c.transwindow
             /\ m = w.c.transwindow /\ q = Bytes(w.q, Data)
      OBVIOUS
    <3>3. /\ t \in Nat /\ g \in Nat /\ d \in Nat /\ k \in Nat /\ o \in Nat
          /\ r \in Nat /\ n \in Nat /\ m \in Nat /\ q \in Nat
      BY <2>7, <2>8, <2>9, <2>10, <3>1, <3>2
    <3>4. t + g + d + k = o /\ n + r = t + g /\ m + q = n
      BY <2>3, <2>4, <2>5, <3>1, <3>2
    <3>5. m + r + (d + q) + k = o
      BY <3>3, <3>4
    <3>. QED  BY <2>6, <3>1, <3>2, <3>5
  <2>12. ch[f].transwindow + Bytes(net'[f], Grants) + Bytes(rest, Data)
           + dropped'[e] = w.c.recvwindow
    <3>1. PICK t, g, d, k, o : t = ch[f].transwindow /\ g = Bytes(net[f], Grants)
             /\ d = Bytes(net[e], Data) /\ k = dropped[e] /\ o = ch[e].recvwindow
      OBVIOUS
    <3>2. PICK r, j, n, m, q : r = Bytes(rest, Data) /\ j = dropped'[e]
             /\ n = c.recvwindow /\ m = w.c.recvwindow /\ q = Bytes(w.q, Grants)
      OBVIOUS
    <3>3. /\ t \in Nat /\ g \in Nat /\ d \in Nat /\ k \in Nat /\ o \in Nat
          /\ r \in Nat /\ j \in Nat /\ n \in Nat /\ m \in Nat /\ q \in Nat
      BY <2>7, <2>8, <2>9, <2>10, <3>1, <3>2
    <3>4. t + g + d + k = o /\ o + r + j = n + d + k /\ m = n + q
      BY <2>3, <2>4, <2>5, <3>1, <3>2
    <3>5. t + (g + q) + r + j = m
      BY <3>3, <3>4
    <3>. QED  BY <2>6, <3>1, <3>2, <3>5
  <2>. QED  BY <1>1, <1>2, <1>14, <2>9, <2>11, <2>12 DEF Credit, Held
<1>15. \A d \in End : Shared(d)' => Credit(d)'
  BY <1>2, <1>13, <1>14 DEF Shared
<1>16. fatal' = fatal
  BY <1>4 DEF Done
<1>. QED  BY <1>2, <1>8, <1>9, <1>10, <1>11, <1>12, <1>15, <1>16, <1>17, <1>18 DEF Flow

---------------------------------------------------------------------------
(* Handlers *)

\* The end has read a packet and says nothing.
LEMMA SilentFlows ==
    ASSUME OInv, Flow, IInv', NEW e \in End, ch[e] # NoChannel, net[e] # <<>>,
           ~ch[e].await_open, ~ch[e].initconn,
           NEW w, w.c \in Channels, w.q = <<>>, ~w.bad, FdOK(e, w.c),
           \A g \in {"sent_eof", "recv_eof", "sent_close", "recv_close",
                     "await_open", "initconn", "recvdonelen"} :
              w.c[g] = ch[e][g],
           Met(e, w.c, Tail(net[e])), Processed(e, w),
           status' # "unopened", ~Asking \/ dropped' = dropped,
           dropped'[Peer(e)] = dropped[Peer(e)]
    PROVE  Flow'
<1>. DEFINE f == Peer(e)
<1>o. /\ IInv /\ net[e] \in Seq(Message) /\ Link(net[e], ch[e], ch[f])
      /\ Live(f) => FdOK(f, ch[f])
  BY TwoEnds DEF OInv, IInv, TypeOK
<1>1. PICK rest : rest = Tail(net[e])
  OBVIOUS
<1>2. PICK c : c = w.c
  OBVIOUS
<1>3. rest \in Seq(Message) /\ Types(rest) \subseteq Types(net[e])
  BY <1>o, <1>1, OrderTaken
<1>4. /\ c \in Channels /\ c # NoChannel /\ ~c.await_open
      /\ c.sent_close = ch[e].sent_close
      /\ c.recv_eof = ch[e].recv_eof /\ c.recv_close = ch[e].recv_close
      /\ c.recvdonelen = ch[e].recvdonelen
  BY <1>2, NoChannelAssumption
<1>5. Link(rest, c, ch[f])
  <2>1. PICK q, d, s : q = net[e] /\ d = ch[e] /\ s = ch[f]
    OBVIOUS
  <2>2. /\ q \in Seq(Message) /\ q # <<>> /\ Link(q, d, s)
        /\ s # NoChannel /\ s.sent_close => s.sent_eof
        /\ d # NoChannel
        /\ c.recv_eof = d.recv_eof /\ c.recv_close = d.recv_close
    BY <1>o, <1>4, <2>1 DEF Live, FdOK
  <2>3. Link(Tail(q), c, s)
    BY <2>2, ReceiverLinks
  <2>. QED  BY <1>1, <2>1, <2>3
<1>6. Flown(e, c, w)
  <2>1. Spoken(e, c, w)
    BY <1>2, <1>4, SilentSpoken
  <2>2. Paid(e, c, c, <<>>)
    <3>1. Bytes(<<>>, Data) = 0 /\ Bytes(<<>>, Grants) = 0
      BY BytesEmpty
    <3>2. c.transwindow \in Nat /\ c.recvwindow \in Nat
      BY <1>4 DEF Channels
    <3>3. Owed(e, c)
      BY <1>4 DEF Flow, Live, Owed
    <3>4. PICK t, r : t = c.transwindow /\ r = c.recvwindow
      OBVIOUS
    <3>5. t + 0 = t /\ r = r + 0
      BY <3>2, <3>4
    <3>. QED  BY <3>1, <3>3, <3>4, <3>5 DEF Paid
  <2>. QED  BY <1>2, <2>1, <2>2 DEF Flown
<1>7. Done(e, w, rest, "io")
  BY <1>1 DEF Processed
<1>8. Met(e, c, rest)
  BY <1>1, <1>2
<1>. QED  BY <1>3, <1>4, <1>5, <1>6, <1>7, <1>8, DoneFlows

\* A channel that is there was asked for.
LEMMA Opened ==
    ASSUME OInv, NEW e \in End, ch[e] # NoChannel
    PROVE  status # "unopened"
BY DEF OInv, Opening, Live

\* A packet without bytes changes no book.
LEMMA BareMet ==
    ASSUME IInv, NEW e \in End, ch[e] # NoChannel, net[e] # <<>>,
           Head(net[e]).t \notin Data \cup Grants,
           NEW c, c.transwindow = ch[e].transwindow,
           c.recvwindow = ch[e].recvwindow, dropped' = dropped
    PROVE  Met(e, c, Tail(net[e]))
<1>1. net[e] \in Seq(Message)
  BY DEF IInv, TypeOK
<1>2. /\ Bytes(Tail(net[e]), Data) = Bytes(net[e], Data)
      /\ Bytes(Tail(net[e]), Grants) = Bytes(net[e], Grants)
  BY <1>1, BytesTaken
<1>. QED  BY <1>2 DEF Met

\* Nothing that Flow is about changes.
LEMMA SameFlow ==
    ASSUME Flow, UNCHANGED <<ch, net, status, dropped, fatal>>
    PROVE  Flow'
BY DEF Flow, Live, Deaf, Asking, Shared, Credit, Held

\* A window change is read without an answer.
LEMMA RecvWindowChangeFlow ==
    ASSUME OInv, Flow, RecvWindowChange
    PROVE  Flow'
<1>o. IInv /\ IInv'
  BY RecvWindowChangeIInv DEF OInv
<1>1. PICK w : w = World("A")
  OBVIOUS
<1>2. /\ pc["A"] = "packet" /\ ch["A"] # NoChannel /\ net["A"] # <<>>
      /\ Head(net["A"]).t = "winch"
  BY <1>o, TwoEnds DEF RecvWindowChange, PacketFor, Packet, IInv
<1>3. w.c = ch["A"] /\ w.q = <<>> /\ ~w.bad /\ w.c \in Channels /\ FdOK("A", w.c)
  BY <1>1, <1>2, <1>o, TwoEnds DEF World, OInv, Live, IInv, Good
<1>4. ~ch["A"].await_open /\ ~ch["A"].initconn
  BY <1>2, Settled, TwoEnds
<1>5. Processed("A", w) /\ dropped' = dropped /\ status' = status
  BY <1>1 DEF RecvWindowChange, env
<1>6. Met("A", w.c, Tail(net["A"]))
  BY <1>o, <1>2, <1>3, <1>5, BareMet, TwoEnds DEF Data, Grants
<1>7. status' # "unopened"
  BY <1>2, <1>5, Opened, TwoEnds
<1>8. \A g \in {"sent_eof", "recv_eof", "sent_close", "recv_close",
                     "await_open", "initconn", "recvdonelen"} :
              w.c[g] = ch["A"][g]
  BY <1>3
<1>. QED  BY <1>o, <1>2, <1>3, <1>4, <1>5, <1>6, <1>7, <1>8, SilentFlows, TwoEnds

\* The exit status is read without an answer.
LEMMA RecvExitStatusFlow ==
    ASSUME OInv, Flow, RecvExitStatus
    PROVE  Flow'
<1>o. IInv /\ IInv'
  BY RecvExitStatusIInv DEF OInv
<1>1. PICK w : w = World("I")
  OBVIOUS
<1>2. /\ pc["I"] = "packet" /\ ch["I"] # NoChannel /\ net["I"] # <<>>
      /\ Head(net["I"]).t = "exit"
  BY <1>o, TwoEnds DEF RecvExitStatus, PacketFor, Packet, IInv
<1>3. w.c = ch["I"] /\ w.q = <<>> /\ ~w.bad /\ w.c \in Channels /\ FdOK("I", w.c)
  BY <1>1, <1>2, <1>o, TwoEnds DEF World, OInv, Live, IInv, Good
<1>4. ~ch["I"].await_open /\ ~ch["I"].initconn
  BY <1>2, Settled, TwoEnds DEF Talk
<1>5. Processed("I", w) /\ dropped' = dropped
  BY <1>1 DEF RecvExitStatus
<1>6. Met("I", w.c, Tail(net["I"]))
  BY <1>o, <1>2, <1>3, <1>5, BareMet, TwoEnds DEF Data, Grants
<1>7. status' # "unopened"
  BY <1>2, Opened, TwoEnds DEF RecvExitStatus
<1>8. \A g \in {"sent_eof", "recv_eof", "sent_close", "recv_close",
                     "await_open", "initconn", "recvdonelen"} :
              w.c[g] = ch["I"][g]
  BY <1>3
<1>. QED  BY <1>o, <1>2, <1>3, <1>4, <1>5, <1>6, <1>7, <1>8, SilentFlows, TwoEnds

\* The books of an end that may send
LEMMA Books ==
    ASSUME OInv, Flow, NEW e \in End, Live(e), Live(Peer(e))
    PROVE  LET p == Peer(e)
           IN  /\ ch[e].transwindow + Bytes(net[e], Grants) + Bytes(net[p], Data)
                    + dropped[p] = ch[p].recvwindow
               /\ ch[p].recvwindow <= RecvWindow[p] /\ RecvWindow[p] <= TransMaxWindow
               /\ ch[e].transwindow \in Nat /\ Bytes(net[e], Grants) \in Nat
               /\ Bytes(net[p], Data) \in Nat /\ dropped[p] \in Nat
               /\ ch[p].recvwindow \in Nat /\ RecvWindow[p] \in Nat
               /\ TransMaxWindow \in Nat
<1>. DEFINE p == Peer(e)
<1>o. IInv /\ p \in End
  BY TwoEnds DEF OInv
<1>1. /\ net[e] \in Seq(Message) /\ net[p] \in Seq(Message)
      /\ Good(e, ch[e]) /\ Good(p, ch[p]) /\ dropped[p] \in Nat
  BY <1>o DEF IInv, TypeOK, Live
<1>2. Bytes(net[e], Grants) \in Nat /\ Bytes(net[p], Data) \in Nat
  BY <1>1, CarriedBy
<1>3. /\ ch[e].transwindow \in Nat /\ ch[p].recvwindow \in Nat
      /\ ch[p].wbuf \in Nat /\ ch[p].xbuf \in Nat /\ ch[p].recvdonelen \in Nat
  BY <1>1 DEF Good, Channels
<1>4. RecvWindow[p] \in Nat /\ TransMaxWindow \in Nat /\ RecvWindow[p] <= TransMaxWindow
  BY <1>o, WindowAssumption
<1>5. ch[p].recvwindow <= RecvWindow[p]
  <2>1. PICK o, b, x, y, m : /\ o = ch[p].recvwindow /\ b = ch[p].wbuf
                             /\ x = ch[p].xbuf /\ y = ch[p].recvdonelen
                             /\ m = RecvWindow[p]
    OBVIOUS
  <2>2. o = 0 \/ o + b + x + y = m
    BY <1>1, <2>1 DEF Good, Accounted
  <2>3. o \in Nat /\ b \in Nat /\ x \in Nat /\ y \in Nat /\ m \in Nat
    BY <1>3, <1>4, <2>1
  <2>4. o <= m
    BY <2>2, <2>3
  <2>. QED  BY <2>1, <2>4
<1>6. Credit(e)
  BY DEF Flow, Shared
<1>. QED  BY <1>1, <1>2, <1>3, <1>4, <1>5, <1>6 DEF Credit, Held

\* The cap of recv_msg_channel_window_adjust() is never reached.
LEMMA RecvAdjustFlow ==
    ASSUME OInv, Flow, NEW e \in End, RecvAdjust(e)
    PROVE  Flow'
<1>. DEFINE p == Peer(e)
<1>o. IInv /\ IInv'
  BY RecvAdjustIInv DEF OInv
<1>1. /\ pc[e] = "packet" /\ ch[e] # NoChannel /\ net[e] # <<>>
      /\ Head(net[e]).t = "adjust" /\ net[e] \in Seq(Message)
      /\ ch[e] \in Channels /\ FdOK(e, ch[e]) /\ Live(e)
  BY <1>o DEF RecvAdjust, PacketFor, Packet, IInv, TypeOK, Good, OInv, Live
<1>2. PICK n, t, tw : n = Head(net[e]).n /\ t = ch[e].transwindow
                        /\ tw = MinOf(t + MinOf(n, TransMaxWindow), TransMaxWindow)
  OBVIOUS
<1>3. PICK c : c = [ch[e] EXCEPT !.transwindow = tw]
  OBVIOUS
<1>4. PICK w : w = [World(e) EXCEPT !.c = c]
  OBVIOUS
<1>5. Processed(e, w) /\ dropped' = dropped /\ status' = status
  <2>1. [World(e) EXCEPT !.c.transwindow = MinOf(@ + MinOf(n, TransMaxWindow), TransMaxWindow)] = w
    BY <1>2, <1>3, <1>4 DEF World
  <2>. QED  BY <1>2, <2>1 DEF RecvAdjust, env
<1>6. n \in Nat /\ t \in Nat /\ tw \in Nat
  <2>1. n \in Nat /\ t \in Nat
    BY <1>o, <1>1, <1>2, ThePacket DEF Channels
  <2>. QED  BY <2>1, <1>2, WindowAssumption DEF MinOf
<1>7. w.c = c /\ w.q = <<>> /\ ~w.bad
  BY <1>4 DEF World
<1>8. /\ c \in Channels /\ c.transwindow = tw
      /\ \A g \in {"sent_eof", "recv_eof", "sent_close", "recv_close",
                   "await_open", "initconn", "recvdonelen", "recvwindow",
                   "close_handler_done", "extra", "readfd", "writefd", "errfd"} :
            c[g] = ch[e][g]
  BY <1>1, <1>3, <1>6 DEF Channels
<1>9. FdOK(e, c)
  BY <1>1, <1>8 DEF FdOK
<1>10. ~ch[e].await_open /\ ~ch[e].initconn
  BY <1>1, Settled DEF Talk
<1>11. Met(e, c, Tail(net[e]))
  <2>. SUFFICES ASSUME Live(p)
       PROVE  /\ c.transwindow + Bytes(Tail(net[e]), Grants)
                   = ch[e].transwindow + Bytes(net[e], Grants)
              /\ ch[e].recvwindow + Bytes(Tail(net[e]), Data) + dropped'[e]
                   = c.recvwindow + Bytes(net[e], Data) + dropped[e]
    BY DEF Met
  <2>1. PICK g, r : g = Bytes(net[e], Grants) /\ r = Bytes(Tail(net[e]), Grants)
    OBVIOUS
  <2>2. g = n + r /\ g \in Nat /\ r \in Nat
    BY <1>1, <1>2, <2>1, BytesTaken DEF Grants
  <2>3. t + g <= TransMaxWindow /\ TransMaxWindow \in Nat
    <3>1. PICK d, k, o, m : /\ d = Bytes(net[p], Data) /\ k = dropped[p]
                            /\ o = ch[p].recvwindow /\ m = RecvWindow[p]
      OBVIOUS
    <3>2. /\ t + g + d + k = o /\ o <= m /\ m <= TransMaxWindow
          /\ d \in Nat /\ k \in Nat /\ o \in Nat /\ m \in Nat /\ TransMaxWindow \in Nat
      BY <1>1, <1>2, <2>1, <3>1, Books
    <3>. QED  BY <1>6, <2>2, <3>2
  <2>4. tw = t + n
    BY <1>2, <1>6, <2>2, <2>3 DEF MinOf
  <2>5. tw + r = t + g
    BY <1>6, <2>2, <2>4
  <2>6. Bytes(Tail(net[e]), Data) = Bytes(net[e], Data)
    BY <1>1, BytesTaken DEF Data
  <2>. QED  BY <1>2, <1>5, <1>8, <2>1, <2>5, <2>6
<1>12. status' # "unopened"
  BY <1>1, <1>5, Opened
<1>13. \A g \in {"sent_eof", "recv_eof", "sent_close", "recv_close",
                 "await_open", "initconn", "recvdonelen"} : w.c[g] = ch[e][g]
  BY <1>7, <1>8
<1>. QED  BY <1>o, <1>1, <1>5, <1>7, <1>8, <1>9, <1>10, <1>11, <1>12, <1>13, SilentFlows

\* The server's session starts its process.
LEMMA RecvShellFlow ==
    ASSUME OInv, Flow, RecvShell
    PROVE  Flow'
<1> DEFINE c == ch["A"]
           c1 == [c EXCEPT !.writefd = PTYFD, !.readfd = PTYFD]
           c2 == [c EXCEPT !.writefd = PIPEIN, !.readfd = PIPEOUT,
                           !.errfd = PIPEERR]
<1>o. IInv /\ IInv' /\ Opening /\ OInv'
  BY RecvShellIInv, RecvShellOrder DEF OInv
<1>1. /\ "A" \in End /\ pc["A"] = "packet" /\ ch["A"] # NoChannel
      /\ Head(net["A"]).t = "shell" /\ net["A"] # <<>> /\ net["A"] \in Seq(Message)
      /\ c \in Channels
  BY <1>o DEF End, RecvShell, PacketFor, Packet, IInv, TypeOK
<1>2. PICK w : /\ Processed("A", w) /\ w.q = <<>> /\ w.c \in {c, c1, c2} /\ ~w.bad
  <2>1. /\ World("A").q = <<>> /\ [World("A") EXCEPT !.c = c1].q = <<>>
        /\ [World("A") EXCEPT !.c = c2].q = <<>>
        /\ World("A").c = c /\ [World("A") EXCEPT !.c = c1].c = c1
        /\ [World("A") EXCEPT !.c = c2].c = c2
        /\ ~World("A").bad /\ ~[World("A") EXCEPT !.c = c1].bad
        /\ ~[World("A") EXCEPT !.c = c2].bad
    BY DEF World
  <2>2. \/ Processed("A", World("A"))
        \/ Processed("A", [World("A") EXCEPT !.c = c1])
        \/ Processed("A", [World("A") EXCEPT !.c = c2])
    BY DEF RecvShell
  <2> HIDE DEF c, c1, c2
  <2>. QED  BY <2>1, <2>2
<1>3. PICK n : n = w.c
  OBVIOUS
<1>4. /\ n \in Channels
      /\ \A g \in {"sent_eof", "recv_eof", "sent_close", "recv_close", "await_open",
                   "initconn", "transwindow", "recvwindow", "recvdonelen"} :
            n[g] = c[g]
  BY ZenonT(60), <1>1, <1>2, <1>3 DEF Channels, Fd
<1>5. FdOK("A", n)
  <2>1. PICK rest : rest = Tail(net["A"])
    OBVIOUS
  <2>2. Done("A", w, rest, "io")
    BY <1>2, <2>1 DEF Processed
  <2>3. ch'["A"] = w.c
    BY <1>o, <2>2, DoneFacts, TwoEnds, Zenon
  <2>. QED  BY <1>o, <1>1, <1>3, <1>4, <2>3, NoChannelAssumption DEF OInv, Live
<1>6. ~c.await_open /\ ~c.initconn
  <2>1. HasCheckClose("A") /\ Due
    BY <1>o, <1>1, OrderTaken DEF Opening, Due
  <2>. QED  BY <1>o, <1>1, <2>1 DEF Opening, Live, Fresh
<1>. HIDE DEF c, c1, c2
<1>7. dropped' = dropped /\ status' = status
  BY DEF RecvShell
<1>8. Met("A", n, Tail(net["A"]))
  BY <1>o, <1>1, <1>4, <1>7, BareMet DEF c, Data, Grants
<1>9. status' # "unopened"
  BY <1>1, <1>7, Opened
<1>10. \A g \in {"sent_eof", "recv_eof", "sent_close", "recv_close",
                 "await_open", "initconn", "recvdonelen"} : w.c[g] = ch["A"][g]
  BY <1>3, <1>4 DEF c
<1>11. ~ch["A"].await_open /\ ~ch["A"].initconn
  BY <1>6 DEF c
<1>. QED  BY <1>o, <1>1, <1>2, <1>3, <1>4, <1>5, <1>7, <1>8, <1>9, <1>10, <1>11,
             SilentFlows

\* Data an end has a descriptor for fits its window and its buffers: a peer
\* that is gone has had this end's CLOSE, so no descriptor is left.
LEMMA DataFits ==
    ASSUME OInv, Flow, NEW e \in End, NEW type \in Data, PacketFor(e, type),
           IF type = "data" THEN ch[e].writefd >= 0 ELSE ch[e].errfd >= 0
    PROVE  /\ Head(net[e]).n <= ch[e].recvwindow
           /\ Head(net[e]).n <= ch[e].wsize - ch[e].wbuf
           /\ Head(net[e]).n <= RecvWindow[e] - ch[e].xbuf
<1>. DEFINE p == Peer(e)
<1>o. IInv /\ p \in End /\ Peer(p) = e
  BY TwoEnds DEF OInv
<1>1. /\ pc[e] = "packet" /\ ch[e] # NoChannel /\ net[e] # <<>>
      /\ Head(net[e]).t = type /\ net[e] \in Seq(Message)
      /\ Good(e, ch[e]) /\ ch[e] \in Channels /\ FdOK(e, ch[e]) /\ Live(e)
  BY <1>o DEF PacketFor, Packet, IInv, TypeOK, Good, OInv, Live
<1>2. ~ch[e].await_open /\ ~ch[e].initconn
  BY <1>1, Settled DEF Talk
<1>3. Live(p)
  <2>. SUFFICES ASSUME ~Live(p) PROVE FALSE
    OBVIOUS
  <2>1. Asking \/ ch[e].sent_close
    BY <1>o, <1>1 DEF Flow, Deaf
  <2>2. ~Asking
    BY <1>2, TwoEnds DEF Asking
  <2>3. ch[e].writefd < 0 /\ ch[e].errfd < 0
    BY <1>1, <2>1, <2>2 DEF FdOK
  <2>. QED  BY <1>1, <2>3, FdNumbers
<1>4. PICK n, r, d : n = Head(net[e]).n /\ r = Bytes(Tail(net[e]), Data)
                      /\ d = Bytes(net[e], Data)
  OBVIOUS
<1>5. d = n + r /\ n \in Nat /\ r \in Nat
  BY <1>1, <1>4, BytesTaken
<1>6. PICK t, g, k, o, m : t = ch[p].transwindow /\ g = Bytes(net[p], Grants)
             /\ k = dropped[e] /\ o = ch[e].recvwindow /\ m = RecvWindow[e]
  OBVIOUS
<1>7. /\ t + g + d + k = o /\ t \in Nat /\ g \in Nat /\ k \in Nat /\ o \in Nat
      /\ m \in Nat
  <2>1. /\ ch[p].transwindow + Bytes(net[p], Grants) + Bytes(net[Peer(p)], Data)
             + dropped[Peer(p)] = ch[Peer(p)].recvwindow
        /\ ch[p].transwindow \in Nat /\ Bytes(net[p], Grants) \in Nat
        /\ dropped[Peer(p)] \in Nat
        /\ ch[Peer(p)].recvwindow \in Nat /\ RecvWindow[Peer(p)] \in Nat
    BY <1>o, <1>1, <1>3, Books
  <2>. QED  BY <1>o, <1>4, <1>6, <2>1
<1>8. n <= o
  BY <1>5, <1>7
<1>9. PICK s, b, x, y : s = ch[e].wsize /\ b = ch[e].wbuf /\ x = ch[e].xbuf
                         /\ y = ch[e].recvdonelen
  OBVIOUS
<1>10. s = m /\ o + b + x + y = m /\ b \in Nat /\ x \in Nat /\ y \in Nat
  BY <1>1, <1>2, <1>6, <1>9 DEF Good, Accounted, Channels
<1>11. n <= o /\ n <= s - b /\ n <= m - x
  BY <1>5, <1>7, <1>8, <1>10
<1>. QED  BY <1>4, <1>6, <1>9, <1>11

\* Data never comes after EOF.
LEMMA DataBeforeEof ==
    ASSUME OInv, NEW e \in End, NEW type \in Data, PacketFor(e, type)
    PROVE  ~ch[e].recv_eof
<1>1. /\ ch[e] # NoChannel /\ Head(net[e]).t = type
      /\ net[e] # <<>> /\ net[e] \in Seq(Message) /\ Link(net[e], ch[e], ch[Peer(e)])
  BY DEF PacketFor, Packet, IInv, TypeOK, OInv
<1>2. type \in Types(net[e])
  BY <1>1, OrderTaken
<1>. QED  BY <1>1, <1>2 DEF Link, Data

\* What common_recv_msg_channel_data() does when nothing makes it exit
LEMMA DataRead ==
    ASSUME OInv, Flow, NEW e \in End, NEW type \in Data, RecvData(e, type)
    PROVE  /\ UNCHANGED <<sel, sigp>> /\ UNCHANGED env
           /\ \/ /\ Processed(e, World(e))
                 /\ dropped' = [dropped EXCEPT ![e] = @ + Head(net[e]).n]
              \/ /\ Head(net[e]).n <= ch[e].recvwindow
                 /\ Head(net[e]).n <= ch[e].wsize - ch[e].wbuf
                 /\ Head(net[e]).n <= RecvWindow[e] - ch[e].xbuf
                 /\ dropped' = dropped
                 /\ Processed(e, [World(e) EXCEPT
                     !.c.wbuf = IF type = "data" THEN @ + Head(net[e]).n ELSE @,
                     !.c.xbuf = IF type = "ext"  THEN @ + Head(net[e]).n ELSE @,
                     !.c.recvwindow = @ - Head(net[e]).n])
<1>. DEFINE n == Head(net[e]).n
            fd == IF type = "data" THEN ch[e].writefd ELSE ch[e].errfd
            avail == IF type = "data" THEN ch[e].wsize - ch[e].wbuf
                                      ELSE RecvWindow[e] - ch[e].xbuf
<1>1. PacketFor(e, type) /\ ~ch[e].recv_eof
  BY DataBeforeEof DEF RecvData
<1>2. ch[e] \in Channels /\ n \in Nat
  BY <1>1, ThePacket DEF OInv, IInv, PacketFor, Packet, Good
<1>3. CASE fd < 0 \/ (type = "ext" /\ ~ch[e].extra)
  BY <1>1, <1>3 DEF RecvData
<1>4. CASE ~(fd < 0 \/ (type = "ext" /\ ~ch[e].extra))
  <2>1. /\ n <= ch[e].recvwindow /\ n <= ch[e].wsize - ch[e].wbuf
        /\ n <= RecvWindow[e] - ch[e].xbuf
    <3>1. IF type = "data" THEN ch[e].writefd >= 0 ELSE ch[e].errfd >= 0
      BY <1>2, <1>4, FdNumbers
    <3>. QED  BY <1>1, <3>1, DataFits
  <2>2. ~(n > avail) /\ ~(ch[e].recvwindow < n)
    <3>1. ch[e].recvwindow \in Int /\ ch[e].wsize \in Int /\ ch[e].wbuf \in Int
          /\ RecvWindow[e] \in Int /\ ch[e].xbuf \in Int
      BY <1>2, WindowAssumption DEF Channels
    <3>2. PICK a, b, s, r, x : a = ch[e].recvwindow /\ b = ch[e].wbuf /\ s = ch[e].wsize
                                /\ r = RecvWindow[e] /\ x = ch[e].xbuf
      OBVIOUS
    <3>3. n <= a /\ n <= s - b /\ n <= r - x /\ a \in Int /\ s - b \in Int /\ r - x \in Int
      BY <2>1, <3>1, <3>2
    <3>. QED  BY <1>2, <3>2, <3>3
  <2>3. /\ Processed(e, [World(e) EXCEPT
                     !.c.wbuf = IF type = "data" THEN @ + n ELSE @,
                     !.c.xbuf = IF type = "ext"  THEN @ + n ELSE @,
                     !.c.recvwindow = @ - n])
        /\ UNCHANGED <<sel, sigp, dropped>> /\ UNCHANGED env
    BY <1>1, <1>4, <2>2 DEF RecvData
  <2>. QED  BY <2>1, <2>3
<1>. QED  BY <1>3, <1>4

\* Data are kept or thrown away, and accounted for either way.
LEMMA RecvDataFlow ==
    ASSUME OInv, Flow, NEW e \in End, NEW type \in Data, RecvData(e, type)
    PROVE  Flow'
<1>o. IInv /\ IInv'
  BY RecvDataIInv DEF OInv, Data
<1>1. /\ pc[e] = "packet" /\ ch[e] # NoChannel /\ net[e] # <<>>
      /\ Head(net[e]).t = type /\ net[e] \in Seq(Message)
      /\ ch[e] \in Channels /\ FdOK(e, ch[e]) /\ Live(e)
  BY <1>o DEF RecvData, PacketFor, Packet, IInv, TypeOK, Good, OInv, Live
<1>2. ~ch[e].await_open /\ ~ch[e].initconn
  BY <1>1, Settled DEF Talk
<1>3. ~Asking
  <2>1. type \in Types(net[e])
    BY <1>1, OrderTaken
  <2>2. CASE e = "I"
    BY <1>2, <2>2 DEF Asking
  <2>3. CASE e = "A"
    BY <2>1, <2>3 DEF OInv, Opening, Data
  <2>. QED  BY <2>2, <2>3, TwoEnds
<1>4. PICK n, d, r : n = Head(net[e]).n /\ d = Bytes(net[e], Data)
                     /\ r = Bytes(Tail(net[e]), Data)
  OBVIOUS
<1>5. d = n + r /\ n \in Nat /\ r \in Nat
  BY <1>1, <1>4, BytesTaken
<1>6. Bytes(Tail(net[e]), Grants) = Bytes(net[e], Grants)
  BY <1>1, BytesTaken DEF Data, Grants
<1>7. status' = status /\ status' # "unopened"
  BY <1>1, Opened, DataRead DEF env
<1>8. PICK k, o : k = dropped[e] /\ o = ch[e].recvwindow
  OBVIOUS
<1>9. k \in Nat /\ o \in Nat
  BY <1>o, <1>1, <1>8 DEF IInv, TypeOK, Channels
<1>10. CASE /\ Processed(e, World(e))
            /\ dropped' = [dropped EXCEPT ![e] = @ + Head(net[e]).n]
  <2>1. PICK w : w = World(e)
    OBVIOUS
  <2>2. /\ w.c = ch[e] /\ w.q = <<>> /\ ~w.bad /\ Processed(e, w)
        /\ dropped'[e] = k + n /\ dropped'[Peer(e)] = dropped[Peer(e)]
    <3>1. /\ w.c = ch[e] /\ w.q = <<>> /\ ~w.bad /\ Processed(e, w)
      BY <1>10, <2>1 DEF World
    <3>2. DOMAIN dropped = End
      BY <1>o DEF IInv, TypeOK
    <3>3. Head(net[e]).n = n /\ dropped[e] = k
      BY <1>4, <1>8
    <3>4. dropped'[e] = k + n /\ dropped'[Peer(e)] = dropped[Peer(e)]
      BY <1>10, <3>2, <3>3, TwoEnds
    <3>. QED  BY <3>1, <3>4
  <2>3. o + r + (k + n) = o + d + k
    BY <1>5, <1>9
  <2>4. Met(e, ch[e], Tail(net[e]))
    BY <1>4, <1>6, <1>8, <2>2, <2>3 DEF Met
  <2>5. \A g \in {"sent_eof", "recv_eof", "sent_close", "recv_close",
                  "await_open", "initconn", "recvdonelen"} : w.c[g] = ch[e][g]
    BY <2>2
  <2>. QED  BY <1>o, <1>1, <1>2, <1>3, <1>7, <2>2, <2>4, <2>5, SilentFlows
<1>11. CASE /\ Head(net[e]).n <= ch[e].recvwindow /\ dropped' = dropped
            /\ Processed(e, [World(e) EXCEPT
                     !.c.wbuf = IF type = "data" THEN @ + Head(net[e]).n ELSE @,
                     !.c.xbuf = IF type = "ext"  THEN @ + Head(net[e]).n ELSE @,
                     !.c.recvwindow = @ - Head(net[e]).n])
  <2>1. PICK c : c = [ch[e] EXCEPT !.wbuf = IF type = "data" THEN @ + n ELSE @,
                                   !.xbuf = IF type = "ext"  THEN @ + n ELSE @,
                                   !.recvwindow = @ - n]
    OBVIOUS
  <2>2. PICK w : w = [World(e) EXCEPT !.c = c]
    OBVIOUS
  <2>3. [World(e) EXCEPT !.c.wbuf = IF type = "data" THEN @ + Head(net[e]).n ELSE @,
                         !.c.xbuf = IF type = "ext"  THEN @ + Head(net[e]).n ELSE @,
                         !.c.recvwindow = @ - Head(net[e]).n] = w
    BY <1>1, <1>4, <2>1, <2>2 DEF World, Channels
  <2>4. w.c = c /\ w.q = <<>> /\ ~w.bad /\ Processed(e, w)
    BY <1>11, <2>2, <2>3 DEF World
  <2>5. /\ c \in Channels /\ c.recvwindow = o - n
        /\ \A g \in {"sent_eof", "recv_eof", "sent_close", "recv_close",
                     "await_open", "initconn", "recvdonelen", "transwindow",
                     "close_handler_done", "extra", "readfd", "writefd", "errfd"} :
              c[g] = ch[e][g]
    <3>1. /\ o - n \in Nat /\ ch[e].wbuf + n \in Nat /\ ch[e].xbuf + n \in Nat
      <4>1. PICK b, x : b = ch[e].wbuf /\ x = ch[e].xbuf
        OBVIOUS
      <4>2. b \in Nat /\ x \in Nat
        BY <1>1, <4>1 DEF Channels
      <4>3. n <= o
        BY <1>4, <1>8, <1>11
      <4>. QED  BY <1>5, <1>9, <4>1, <4>2, <4>3
    <3>. QED  BY <1>1, <1>8, <2>1, <3>1 DEF Channels
  <2>6. FdOK(e, c)
    BY <1>1, <2>5 DEF FdOK
  <2>7. o + r + k = (o - n) + d + k
    BY <1>5, <1>9
  <2>8. Met(e, c, Tail(net[e]))
    BY <1>4, <1>6, <1>8, <1>11, <2>5, <2>7 DEF Met
  <2>9. \A g \in {"sent_eof", "recv_eof", "sent_close", "recv_close",
                  "await_open", "initconn", "recvdonelen"} : w.c[g] = ch[e][g]
    BY <2>4, <2>5
  <2>. QED  BY <1>o, <1>1, <1>2, <1>3, <1>7, <1>11, <2>4, <2>5, <2>6, <2>8, <2>9,
               SilentFlows
<1>. QED  BY <1>10, <1>11, DataRead

\* Nothing said, nothing paid.
LEMMA PaidNothing ==
    ASSUME NEW e, NEW c \in Channels, Owed(e, c)
    PROVE  Paid(e, c, c, <<>>)
<1>1. Bytes(<<>>, Data) = 0 /\ Bytes(<<>>, Grants) = 0
  BY BytesEmpty
<1>2. PICK t, r : t = c.transwindow /\ r = c.recvwindow
  OBVIOUS
<1>3. t + 0 = t /\ r = r + 0
  BY <1>2 DEF Channels
<1>. QED  BY <1>1, <1>2, <1>3 DEF Paid

\* An end that may speak has all its credit.
LEMMA SpeaksFlows ==
    ASSUME NEW e, NEW c \in Channels, ~c.initconn, Owed(e, c),
           NEW w, Speaks(e, c, w), w.c = c, w.q = <<>>, ~w.bad
    PROVE  Flows(e, c, w)
BY PaidNothing DEF Flows

\* EOF and CLOSE may end the channel, and pay for all they flush.
LEMMA RecvEofOrCloseFlow ==
    ASSUME OInv, Flow, NEW e \in End, NEW type \in {"eof", "close"},
           RecvEofOrClose(e, type)
    PROVE  Flow'
<1>o. IInv /\ IInv'
  BY RecvEofOrCloseIInv DEF OInv
<1>1. /\ pc[e] = "packet" /\ ch[e] # NoChannel /\ Head(net[e]).t = type
      /\ net[e] # <<>> /\ Live(e) /\ ch[e] \in Channels
  BY <1>o DEF RecvEofOrClose, PacketFor, Packet, IInv, Live, Good
<1>2. PICK c \in Channels, v \in Worlds, exits \in BOOLEAN :
             /\ Speaks(e, c, v) /\ v.c = c /\ v.q = <<>> /\ ~v.bad
             /\ c.recv_eof /\ (c.recv_close <=> ch[e].recv_close \/ type = "close")
             /\ \A g \in {"sent_eof", "sent_close", "await_open", "initconn",
                          "transwindow", "recvwindow", "recvdonelen", "flushing"} :
                   c[g] = ch[e][g]
             /\ ChildExitsMeanwhile(e, exits) /\ sigp' = (sigp \/ exits)
             /\ Processed(e, CheckClose(e, v, Exited, Exited \/ exits))
  BY EofOrCloseRead
<1>3. PICK w : w = CheckClose(e, v, Exited, Exited \/ exits)
  OBVIOUS
<1>4. ~ch[e].await_open /\ ~ch[e].initconn
  BY <1>1, Settled DEF Talk, Data
<1>5. Flown(e, c, w)
  <2>1. Exited \in BOOLEAN /\ (Exited \/ exits) \in BOOLEAN
    BY DEF Exited
  <2>2. Owed(e, c) /\ ~c.initconn
    BY <1>1, <1>2, <1>4 DEF Flow, Owed
  <2>3. Flows(e, c, v)
    BY <1>2, <2>2, SpeaksFlows
  <2>. QED  BY <1>3, <2>1, <2>3, CheckCloseFlown
<1>6. PICK rest : rest = Tail(net[e])
  OBVIOUS
<1>7. Done(e, w, rest, "io") /\ Reads(e, c, rest)
  BY <1>1, <1>2, <1>3, <1>6 DEF Processed, Reads
<1>8. dropped' = dropped /\ status' = status
  BY DEF RecvEofOrClose
<1>9. /\ c # NoChannel /\ ~c.await_open
      /\ c.sent_close = ch[e].sent_close
      /\ c.transwindow = ch[e].transwindow /\ c.recvwindow = ch[e].recvwindow
  BY <1>2, <1>4, NoChannelAssumption
<1>10. Met(e, c, rest)
  BY <1>o, <1>1, <1>6, <1>8, <1>9, BareMet DEF Data, Grants
<1>11. /\ rest \in Seq(Message) /\ Types(rest) \subseteq Types(net[e])
       /\ Link(rest, c, ch[Peer(e)])
  BY <1>1, <1>7, <1>9, RestLinks
<1>12. status' # "unopened" /\ (~Asking \/ dropped' = dropped)
       /\ dropped'[Peer(e)] = dropped[Peer(e)]
  BY <1>1, <1>8, Opened
<1>. QED  BY <1>o, <1>1, <1>4, <1>5, <1>7, <1>9, <1>10, <1>11, <1>12, DoneFlows

\* channelio() on a channel that is not ready yet changes nothing.
LEMMA IdleFlow ==
    ASSUME OInv, Flow, IInv', NEW e \in End, Done(e, World(e), net[e], "select"),
           UNCHANGED <<status, dropped>>
    PROVE  Flow'
<1>o. IInv /\ \A d \in End : net[d] \in Seq(Message)
  BY DEF OInv, IInv, TypeOK
<1>1. PICK w, rest : w = World(e) /\ rest = net[e]
  OBVIOUS
<1>2. /\ Done(e, w, rest, "select") /\ w.c = ch[e] /\ w.q = <<>> /\ ~w.bad
  BY <1>1 DEF World
<1>3. /\ ch'[e] = w.c /\ ch'[Peer(e)] = ch[Peer(e)]
      /\ net'[e] = rest /\ net'[Peer(e)] = net[Peer(e)] \o w.q
      /\ pc'[e] = "select" /\ pc'[Peer(e)] = pc[Peer(e)]
  BY <1>o, <1>2, DoneFacts, Zenon
<1>4. net'[Peer(e)] = net[Peer(e)]
  <2>1. net[Peer(e)] \in Seq(Message)
    BY <1>o, TwoEnds
  <2>. QED  BY <1>2, <1>3, <2>1, ConcatEmptySeq
<1>5. ch' = ch /\ net' = net
  <2>1. /\ ch \in [End -> Channels \cup {NoChannel}]
        /\ net \in [End -> Seq(Message)]
        /\ ch' = [ch EXCEPT ![e] = w.c]
        /\ DOMAIN net' = End
    BY <1>o, <1>2 DEF IInv, TypeOK, Done
  <2>2. ch' = ch
    BY <1>2, <2>1
  <2>3. \A d \in End : net'[d] = net[d]
    BY <1>1, <1>3, <1>4, TwoEnds
  <2>4. net' \in [End -> Seq(Message)]
    BY DEF IInv, TypeOK
  <2>5. PICK m, k, S : m = net' /\ k = net /\ S = Seq(Message)
    OBVIOUS
  <2>6. m \in [End -> S] /\ k \in [End -> S] /\ \A d \in End : m[d] = k[d]
    BY <2>1, <2>3, <2>4, <2>5
  <2>7. m = k
    BY <2>6
  <2>. QED  BY <2>2, <2>5, <2>7
<1>6. fatal' = fatal
  BY <1>2 DEF Done
<1>. QED  BY <1>5, <1>6, SameFlow

\* An iteration's I/O pays for all it sends and gives back all it owes.
LEMMA ChannelIOFlow == ASSUME OInv, Flow, NEW e \in End, ChannelIO(e) PROVE Flow'
<1>o. IInv /\ IInv' /\ ch[e] # NoChannel /\ ch[e] \in Channels /\ FdOK(e, ch[e])
  BY ChannelIOIInv DEF OInv, ChannelIO, IInv, Good, Live
<1>1. PICK wlen, xlen, exits, w1, w2, w3, w4, w5, rest :
         Steps(e, wlen, xlen, exits, w1, w2, w3, w4, w5, rest)
  BY ChannelIOSteps DEF OInv
<1>2. ~World(e).bad
  BY DEF World
<1>7. Done(e, w5, rest, "select") /\ rest = net[e]
  BY <1>1 DEF Steps
<1>8. dropped' = dropped /\ status' = status /\ ~(ch[e].initconn /\ "w" \in sel[e])
  BY DEF ChannelIO
<1>10. CASE ch[e].await_open \/ ch[e].initconn
  <2>1. /\ ~DoCheckClose(e, ch[e])
        /\ ReadStep(e, World(e), "r") = World(e)
        /\ ReadStep(e, World(e), "e") = World(e)
        /\ WriteStep(e, World(e), "w", wlen) = World(e)
        /\ WriteStep(e, World(e), "x", xlen) = World(e)
    BY <1>o, <1>8, <1>10, NothingToDo
  <2>2. w5 = World(e)
    BY <1>1, <2>1 DEF Steps
  <2>. QED  BY <1>o, <1>7, <1>8, <2>2, IdleFlow
<1>11. CASE ~ch[e].await_open /\ ~ch[e].initconn
  <2>1. PICK c : c = ch[e]
    OBVIOUS
  <2>2. Flows(e, c, World(e))
    <3>1. Speaks(e, c, World(e)) /\ World(e).c = c /\ World(e).q = <<>>
      BY <1>o, <2>1, WorldSpeaks, WorldType
    <3>2. Owed(e, c) /\ c \in Channels /\ ~c.initconn
      BY <1>o, <1>11, <2>1 DEF Flow, Live
    <3>. QED  BY <1>2, <3>1, <3>2, SpeaksFlows
  <2>3. Flows(e, c, w1)
    BY <1>1, <2>2, ReadStepFlows DEF Steps
  <2>4. Flows(e, c, w2)
    BY <1>1, <2>3, ReadStepFlows DEF Steps
  <2>5. Flows(e, c, w3)
    BY <1>1, <2>4, WriteStepFlows DEF Steps
  <2>6. Flows(e, c, w4)
    BY <1>1, <2>5, WriteStepFlows DEF Steps
  <2>7. Flown(e, c, w5)
    <3>1. Exited \in BOOLEAN /\ (Exited \/ exits) \in BOOLEAN
      BY DEF Exited
    <3>. QED  BY <1>1, <2>6, <3>1, CheckCloseFlown, FlowsFlown DEF Steps
  <2>10. /\ c \in Channels /\ c # NoChannel /\ ~c.await_open
         /\ c.sent_close = ch[e].sent_close
         /\ c.transwindow = ch[e].transwindow /\ c.recvwindow = ch[e].recvwindow
    BY <1>o, <1>11, <2>1
  <2>11. Flown(e, c, w5) /\ Reads(e, c, rest)
    BY <1>7, <2>1, <2>7 DEF Reads
  <2>12. Met(e, c, rest)
    BY <1>7, <1>8, <2>10 DEF Met
  <2>13. /\ rest \in Seq(Message) /\ Types(rest) \subseteq Types(net[e])
         /\ Link(rest, c, ch[Peer(e)])
    BY <1>o, <1>7, <2>10, <2>11, RestLinks
  <2>14. status' # "unopened" /\ (~Asking \/ dropped' = dropped)
         /\ dropped'[Peer(e)] = dropped[Peer(e)]
    BY <1>o, <1>8, Opened
  <2>. QED  BY <1>o, <1>7, <1>11, <2>10, <2>11, <2>12, <2>13, <2>14, DoneFlows
<1>. QED  BY <1>10, <1>11

\* What touches no channel and no packet moves no credit.
LEMMA LoopFlow ==
    ASSUME OInv, Flow, NEW e \in End,
           NoChannelIO(e) \/ SelectSome(e) \/ Program(e) \/ ChildExit
    PROVE  Flow'
<1>1. UNCHANGED <<ch, net, status, dropped, fatal>>
  <2>1. CASE NoChannelIO(e)
    BY <2>1 DEF NoChannelIO, env
  <2>2. CASE SelectSome(e)
    BY <2>2 DEF SelectSome, Select, env
  <2>3. CASE Program(e)
    BY <2>3 DEF Program, Produce, ProduceErr, CloseSource, CloseErrSource,
                SinkBreaks, env
  <2>4. CASE ChildExit
    BY <2>4 DEF ChildExit
  <2>. QED  BY <2>1, <2>2, <2>3, <2>4
<1>. QED  BY <1>1, SameFlow

\* Nothing is there at first.
LEMMA InitFlow == ASSUME Init PROVE Flow
<1>1. \A e \in End : Types(net[e]) = {} /\ ~Live(e) /\ dropped[e] = 0 /\ fatal[e] = "no"
  BY OrderNone DEF Init, Live
<1>2. \A e \in End : ~Shared(e)
  BY <1>1, TwoEnds DEF Shared
<1>. QED  BY <1>1, <1>2, TwoEnds DEF Flow, Deaf

\* The only packet without a channel is a window change.
LEMMA UnknownChannelFlow ==
    ASSUME OInv, Flow, NEW e \in End, UnknownChannel(e)
    PROVE  Flow'
<1>o. IInv /\ Opening
  BY DEF OInv
<1>1. /\ net[e] # <<>> /\ net[e] \in Seq(Message) /\ Head(net[e]).t # "open"
      /\ Exit(e, "unknown channel") /\ ~Live(e)
  BY <1>o DEF UnknownChannel, Packet, IInv, TypeOK, Live
<1>2. Head(net[e]).t \in Types(net[e])
  BY <1>1, OrderTaken
<1>3. Head(net[e]).t = "winch"
  BY <1>1, <1>2 DEF Flow, Deaf
<1>4. e = "A" /\ "winch" \in Faults
  BY <1>o, <1>2, <1>3, TwoEnds DEF Opening
<1>5. UNCHANGED <<ch, net, status, dropped>>
  BY <1>1 DEF Exit, env
<1>6. \A d \in End : fatal'[d] = fatal[d] \/ (d = e /\ fatal'[d] = "unknown channel")
  BY <1>o, <1>1 DEF Exit, IInv, TypeOK
<1>. QED  BY <1>4, <1>5, <1>6 DEF Flow, Live, Deaf, Asking, Shared, Credit, Held

\* What carries no byte
LEMMA BytesBare ==
    ASSUME NEW t \in MsgType, t \notin Data \cup Grants
    PROVE  /\ Bytes(<<Msg(t, 0)>>, Data) = 0 /\ Bytes(<<Msg(t, 0)>>, Grants) = 0
<1>1. PICK q : q = <<Msg(t, 0)>>
  OBVIOUS
<1>2. q \in Seq(Message) /\ Types(q) = {t}
  BY <1>1, OneOrder
<1>3. Types(q) \cap Data = {} /\ Types(q) \cap Grants = {}
  BY <1>2
<1>. QED  BY <1>1, <1>2, <1>3, BytesNone

\* What opens a channel grants all of a window.
LEMMA BytesGrant ==
    ASSUME NEW t \in {"open", "confirm"}, NEW n \in Nat
    PROVE  Bytes(<<Msg(t, n)>>, Data) = 0 /\ Bytes(<<Msg(t, n)>>, Grants) = n
<1>1. PICK m : m = Msg(t, n)
  OBVIOUS
<1>2. m \in Message /\ m.t = t /\ m.n = n
  BY <1>1, MsgMessage DEF Msg, MsgType
<1>. QED  BY <1>1, <1>2, BytesOne DEF Data, Grants

\* The opener offers its whole window.
LEMMA SendOpenFlow == ASSUME OInv, Flow, SendOpen PROVE Flow'
<1> DEFINE fd == IF TypeI = "stdpipes" THEN STDIN ELSE SOCKFD
           c0 == InitWriteBuf("I", NewChannel(0))
           c  == [c0 EXCEPT !.readfd = fd, !.writefd = fd, !.await_open = TRUE]
           q  == <<Msg("open", RecvWindow["I"])>>
<1>o. IInv /\ Opening /\ RecvWindow["I"] \in Nat
  BY WindowAssumption, TwoEnds DEF OInv
<1>1. /\ status' = "waiting" /\ status = "unopened" /\ dropped' = dropped
  BY DEF SendOpen
<1>2. /\ ch["I"] = NoChannel /\ ch["A"] = NoChannel
      /\ net["I"] = <<>> /\ net["A"] = <<>>
      /\ dropped["I"] = 0 /\ dropped["A"] = 0
  BY <1>o, <1>1, TwoEnds DEF Opening, Live, Flow
<1>3. PICK n : n = c
  OBVIOUS
<1>4. /\ n # NoChannel /\ n.await_open /\ n.transwindow = 0 /\ n.recvdonelen = 0
      /\ n.recvwindow = RecvWindow["I"]
  <2>1. /\ c0 \in Channels /\ c0.transwindow = 0 /\ c0.recvdonelen = 0
        /\ c0.recvwindow = RecvWindow["I"]
    <3>1. PICK d : d = NewChannel(0)
      OBVIOUS
    <3>2. d \in Channels /\ d.transwindow = 0 /\ d.recvdonelen = 0
      BY <3>1, NewChannelType DEF NewChannel
    <3>3. PICK d0 : d0 = [d EXCEPT !.wsize = RecvWindow["I"], !.recvwindow = RecvWindow["I"]]
      OBVIOUS
    <3>4. /\ d0 \in Channels /\ d0.transwindow = 0 /\ d0.recvdonelen = 0
          /\ d0.recvwindow = RecvWindow["I"]
      BY <1>o, <3>2, <3>3 DEF Channels
    <3>. QED  BY <3>1, <3>3, <3>4 DEF InitWriteBuf
  <2>2. fd \in Fd
    BY DEF Fd
  <2> HIDE DEF fd, c0
  <2>. QED  BY <1>3, <2>1, <2>2, NoChannelAssumption DEF Channels
<1>5. PICK w : w = [World("I") EXCEPT !.c = c, !.q = q]
  OBVIOUS
<1>6. Done("I", w, net["I"], "select")
  BY <1>5 DEF SendOpen
<1>7. w.c = n /\ w.q = q /\ ~w.bad
  BY <1>3, <1>5 DEF World
<1> HIDE DEF c
<1>8. q \in Seq(Message) /\ Types(q) = {"open"}
  <2>1. "open" \in MsgType
    BY DEF MsgType
  <2>. QED  BY <1>o, <2>1, OneOrder
<1>9. Bytes(q, Grants) = RecvWindow["I"]
  BY <1>o, BytesGrant
<1> HIDE DEF q
<1>10. /\ ch'["I"] = n /\ ch'["A"] = NoChannel
       /\ net'["I"] = <<>> /\ net'["A"] = q
  <2>1. PICK rest : rest = net["I"]
    OBVIOUS
  <2>2. Done("I", w, rest, "select")
    BY <1>6, <2>1
  <2>3. /\ ch'["I"] = w.c /\ ch'[Peer("I")] = ch[Peer("I")]
        /\ net'["I"] = rest /\ net'[Peer("I")] = net[Peer("I")] \o w.q
        /\ pc'["I"] = "select" /\ pc'[Peer("I")] = pc[Peer("I")]
    BY <1>o, <2>2, TwoEnds, DoneFacts, Zenon
  <2>4. /\ ch'["I"] = n /\ ch'["A"] = ch["A"]
        /\ net'["I"] = net["I"] /\ net'["A"] = net["A"] \o q
    BY <1>7, <2>1, <2>3, TwoEnds
  <2>. QED  BY <1>2, <1>8, <2>4, ConcatEmptySeq
<1>11. Types(net'["I"]) = {} /\ Bytes(net'["I"], Data) = 0
  BY <1>10, OrderNone, BytesEmpty
<1>12. Asking' /\ Live("I")' /\ ~Live("A")'
  BY <1>4, <1>10 DEF Asking, Live
<1>13. Owed("I", n)
  BY <1>4 DEF Owed
<1>14. Deaf("A")'
  BY <1>8, <1>10, <1>12 DEF Deaf
<1>15. Credit("A")'
  <2>1. PICK k : k = RecvWindow["I"]
    OBVIOUS
  <2>2. 0 + k + 0 + 0 = k
    BY <1>o, <2>1
  <2>3. /\ Held("A")' = 0 /\ Bytes(net'["A"], Grants) = k
        /\ Bytes(net'["I"], Data) = 0 /\ dropped'["I"] = 0
        /\ ch'["I"].recvwindow = k
    BY <1>1, <1>2, <1>4, <1>9, <1>10, <1>11, <1>12, <2>1 DEF Held
  <2>. QED  BY <2>2, <2>3, TwoEnds DEF Credit
<1>16. ~Shared("I")'
  BY <1>12, TwoEnds DEF Shared
<1>17. fatal' = fatal /\ \A d \in End : dropped'[d] = 0
  BY <1>1, <1>2, <1>6, <1>7, TwoEnds DEF Done
<1>18. Types(net'["A"]) \cap {"confirm", "failure"} = {}
  BY <1>8, <1>10
<1>. QED  BY <1>10, <1>11, <1>12, <1>13, <1>14, <1>15, <1>16, <1>17, <1>18, TwoEnds
          DEF Flow

\* A window change costs nothing.
LEMMA WindowChangeFlow == ASSUME OInv, Flow, WindowChange PROVE Flow'
<1>o. IInv /\ Opening
  BY DEF OInv
<1>1. /\ ch["I"] # NoChannel /\ ~ch["I"].await_open
      /\ net["A"] \in Seq(Message) /\ dropped' = dropped /\ status' = status
  BY <1>o, TwoEnds DEF WindowChange, env, IInv, TypeOK
<1>2. PICK r : r = <<Msg("winch", 0)>>
  OBVIOUS
<1>3. /\ r \in Seq(Message) /\ Types(r) = {"winch"}
      /\ Bytes(r, Data) = 0 /\ Bytes(r, Grants) = 0
  <2>1. "winch" \in MsgType /\ "winch" \notin Data \cup Grants
    BY DEF MsgType, Data, Grants
  <2>. QED  BY <1>2, <2>1, OneOrder, BytesBare
<1>4. PICK w : w = [World("I") EXCEPT !.q = r]
  OBVIOUS
<1>5. Done("I", w, net["I"], "select") /\ w.c = ch["I"] /\ w.q = r /\ ~w.bad
  BY <1>2, <1>4 DEF WindowChange, World
<1>6. /\ ch'["I"] = ch["I"] /\ ch'["A"] = ch["A"]
      /\ net'["I"] = net["I"] /\ net'["A"] = net["A"] \o r
  <2>1. PICK rest : rest = net["I"]
    OBVIOUS
  <2>2. Done("I", w, rest, "select")
    BY <1>5, <2>1
  <2>3. /\ ch'["I"] = w.c /\ ch'[Peer("I")] = ch[Peer("I")]
        /\ net'["I"] = rest /\ net'[Peer("I")] = net[Peer("I")] \o w.q
        /\ pc'["I"] = "select" /\ pc'[Peer("I")] = pc[Peer("I")]
    BY <1>o, <2>2, TwoEnds, DoneFacts, Zenon
  <2>. QED  BY <1>5, <2>1, <2>3, TwoEnds
<1>7. /\ Types(net'["A"]) = Types(net["A"]) \cup {"winch"}
      /\ Bytes(net'["A"], Data) = Bytes(net["A"], Data)
      /\ Bytes(net'["A"], Grants) = Bytes(net["A"], Grants)
  <2>1. Types(net'["A"]) = Types(net["A"]) \cup {"winch"}
    BY <1>1, <1>3, <1>6, OrderJoined
  <2>2. /\ Bytes(net'["A"], Data) = Bytes(net["A"], Data) + 0
        /\ Bytes(net'["A"], Grants) = Bytes(net["A"], Grants) + 0
    BY <1>1, <1>3, <1>6, BytesJoined
  <2>3. Bytes(net["A"], Data) \in Nat /\ Bytes(net["A"], Grants) \in Nat
    BY <1>1, CarriedBy
  <2>. QED  BY <2>1, <2>2, <2>3
<1>8. fatal' = fatal
  BY <1>5 DEF Done
<1>9. \A d \in End : /\ ch'[d] = ch[d] /\ (Live(d)' <=> Live(d))
                     /\ "open" \in Types(net'[d]) <=> "open" \in Types(net[d])
                     /\ Bytes(net'[d], Data) = Bytes(net[d], Data)
                     /\ Bytes(net'[d], Grants) = Bytes(net[d], Grants)
  <2>. TAKE d \in End
  <2>1. CASE d = "I"
    BY <1>6, <2>1 DEF Live
  <2>2. CASE d = "A"
    BY <1>6, <1>7, <2>2 DEF Live
  <2>. QED  BY <2>1, <2>2, TwoEnds
<1>10. ASSUME NEW d \in End, Shared(d)'
       PROVE  Credit(d)'
  <2>1. Peer(d) \in End
    BY TwoEnds
  <2>2. Held(d)' = Held(d)
    BY <1>9 DEF Held
  <2>3. Shared(d)
    BY <1>9, <1>10, <2>1 DEF Shared
  <2>4. Credit(d)
    BY <2>3 DEF Flow
  <2>. QED  BY <1>1, <1>9, <2>1, <2>2, <2>4 DEF Credit
<1>11. Asking' <=> Asking
  BY <1>6 DEF Asking, Live
<1>12. \A d \in End : ~Live(d)' => Deaf(d)'
  <2>. SUFFICES ASSUME NEW d \in End, ~Live(d)' PROVE Deaf(d)'
    OBVIOUS
  <2>1. ~Live(d) /\ Deaf(d) /\ Peer(d) \in End
    BY <1>9, TwoEnds DEF Flow
  <2>2. Types(net'[d]) \subseteq Types(net[d]) \cup {"winch"}
    BY <1>6, <1>7, TwoEnds
  <2>3. (Live(Peer(d))' <=> Live(Peer(d))) /\ ch'[Peer(d)] = ch[Peer(d)]
    BY <1>9, <2>1
  <2>. QED  BY <1>11, <2>1, <2>2, <2>3 DEF Deaf
<1>13. \A d \in End : Live(d)' => Owed(d, ch'[d])
  BY <1>9 DEF Flow
<1>14. /\ Types(net'["I"]) = Types(net["I"])
       /\ Types(net'["A"]) \cap {"confirm", "failure"} = {}
  BY <1>6, <1>7 DEF Flow
<1>15. Asking' \/ Types(net'["I"]) \cap {"confirm", "failure"} = {}
  BY <1>11, <1>14 DEF Flow
<1>16. "confirm" \in Types(net'["I"]) => Live("A")'
  BY <1>9, <1>14, TwoEnds DEF Flow
<1>17. status' = "unopened" \/ Asking' => \A d \in End : dropped'[d] = 0
  BY <1>1, <1>11 DEF Flow
<1>18. \A d \in End : fatal'[d] = "no" \/ (d = "A" /\ "winch" \in Faults
                                              /\ fatal'[d] = "unknown channel")
  BY <1>8 DEF Flow
<1>. QED  BY <1>10, <1>12, <1>13, <1>14, <1>15, <1>16, <1>17, <1>18 DEF Flow

\* The accepting end answers, or begins to connect: its channel offers what
\* the answer says.
LEMMA AnswerFlow ==
    ASSUME OInv, Flow, Asking, NEW n, NEW r \in Seq(Message),
           ch'["I"] = ch["I"], ch'["A"] = n, net'["A"] = <<>>, net'["I"] = r,
           UNCHANGED <<status, dropped, fatal>>,
           n = NoChannel => r = <<Msg("failure", 0)>>,
           n # NoChannel =>
             /\ n.transwindow = ch["I"].recvwindow /\ n.recvdonelen = 0
             /\ n.recvwindow \in Nat
             /\ \/ r = <<>> /\ n.recvwindow = 0
                \/ r = <<Msg("confirm", n.recvwindow)>>
    PROVE  Flow'
<1>o. IInv /\ Opening
  BY DEF OInv
<1>1. /\ ch["I"] # NoChannel /\ ch["I"].transwindow = 0 /\ Live("I") /\ Live("I")'
      /\ Asking' /\ dropped["I"] = 0 /\ dropped["A"] = 0 /\ Owed("I", ch["I"])
      /\ ch["I"].recvwindow \in Nat
  <2>1. Good("I", ch["I"])
    BY <1>o, TwoEnds DEF IInv, Asking, Live
  <2>. QED  BY <1>o, <2>1, TwoEnds DEF Asking, Live, Opening, Flow, Good, Channels
<1>2. Types(net'["A"]) = {} /\ Bytes(net'["A"], Data) = 0 /\ Bytes(net'["A"], Grants) = 0
  BY OrderNone, BytesEmpty
<1>3. n = NoChannel => Types(r) = {"failure"}
  <2>1. "failure" \in MsgType
    BY DEF MsgType
  <2>. QED  BY <2>1, OneOrder
<1>4. ASSUME n # NoChannel
      PROVE  Bytes(r, Data) = 0 /\ Bytes(r, Grants) = n.recvwindow
  <2>1. CASE r = <<>> /\ n.recvwindow = 0
    BY <2>1, BytesEmpty
  <2>2. CASE r = <<Msg("confirm", n.recvwindow)>>
    <3>1. PICK k \in Nat : k = n.recvwindow
      BY <1>4
    <3>. QED  BY <2>2, <3>1, BytesGrant
  <2>. QED  BY <1>4, <2>1, <2>2
<1>5. "confirm" \in Types(net'["I"]) => Live("A")'
  BY <1>3 DEF Live
<1>6. Live("A")' => Owed("A", ch'["A"])
  BY DEF Live, Owed
<1>7. ~Live("A")' => Deaf("A")'
  BY <1>1, <1>2 DEF Deaf
<1>8. Shared("I")' => Credit("I")'
  <2>. SUFFICES ASSUME n # NoChannel PROVE Credit("I")'
    BY TwoEnds DEF Shared, Live
  <2>1. 0 + n.recvwindow + 0 + 0 = n.recvwindow
    OBVIOUS
  <2>. QED  BY <1>1, <1>2, <1>4, <2>1, TwoEnds DEF Credit, Held
<1>9. Shared("A")' => Credit("A")'
  <2>. SUFFICES ASSUME n # NoChannel PROVE Credit("A")'
    BY <1>2, TwoEnds DEF Shared, Live
  <2>1. PICK k : k = ch["I"].recvwindow
    OBVIOUS
  <2>2. k + 0 + 0 + 0 = k
    BY <1>1, <2>1
  <2>3. Live("A")'
    BY DEF Live
  <2>. QED  BY <1>1, <1>2, <1>4, <2>1, <2>2, <2>3, TwoEnds DEF Credit, Held
<1>10. \A d \in End : dropped'[d] = 0
  BY <1>1, TwoEnds
<1>11. \A d \in End : Live(d)' => Owed(d, ch'[d])
  BY <1>1, <1>6, TwoEnds
<1>12. \A d \in End : ~Live(d)' => Deaf(d)'
  BY <1>1, <1>7, TwoEnds
<1>13. \A d \in End : Shared(d)' => Credit(d)'
  BY <1>8, <1>9, TwoEnds
<1>14. fatal' = fatal
  OBVIOUS
<1>15. \A d \in End : fatal'[d] = "no" \/ (d = "A" /\ "winch" \in Faults
                                              /\ fatal'[d] = "unknown channel")
  BY <1>14 DEF Flow
<1>. QED  BY <1>1, <1>2, <1>5, <1>10, <1>11, <1>12, <1>13, <1>15 DEF Flow

\* recv_msg_channel_open() takes over all the window the opener offers.
LEMMA RecvOpenFlow == ASSUME OInv, Flow, RecvOpen PROVE Flow'
<1> DEFINE h == Head(net["A"]).n
           new == NewChannel(MinOf(h, TransMaxWindow))
           c == InitHandler(new)
           w1 == [World("A") EXCEPT !.q = <<Msg("failure", 0)>>]
           w2 == [World("A") EXCEPT !.c = c]
           w3 == [World("A") EXCEPT !.c = InitWriteBuf("A", c), !.bad = ~InitWriteBufOk(c),
                           !.q = <<Msg("confirm", RecvWindow["A"])>>]
<1>o. IInv /\ Opening /\ RecvWindow["A"] \in Nat
  BY WindowAssumption, TwoEnds DEF OInv
<1>1. /\ pc["A"] = "packet" /\ Head(net["A"]).t = "open"
      /\ net["A"] \in Seq(Message) /\ net["A"] # <<>>
      /\ Ordered(net["A"]) /\ h \in Nat
  BY <1>o, ThePacket, TwoEnds DEF RecvOpen, Packet, IInv, TypeOK, OInv, Link
<1>2. status' = status /\ dropped' = dropped
  BY DEF RecvOpen, env
<1>3. /\ Types(net["A"]) = {"open"} \cup Types(Tail(net["A"]))
      /\ Tail(net["A"]) \in Seq(Message)
      /\ \A t \in Types(Tail(net["A"])) : After("open", t)
  BY <1>1, OrderTaken
<1>4. Asking /\ ~Live("A") /\ net["I"] = <<>> /\ Types(net["A"]) \subseteq {"open"}
  BY <1>o, <1>3 DEF Opening
<1>5. Tail(net["A"]) = <<>>
  <2>1. Types(Tail(net["A"])) = {}
    BY <1>3, <1>4 DEF After
  <2>. QED  BY <1>3, <2>1, NoTypes
<1>6. PICK o : o = ch["I"].recvwindow
  OBVIOUS
<1>7. h = o /\ MinOf(h, TransMaxWindow) = o /\ o \in Nat
  <2>1. Good("I", ch["I"]) /\ Live("I")
    BY <1>o, <1>4, TwoEnds DEF IInv, Asking, Live
  <2>2. PICK m, a, b, d : m = RecvWindow["I"] /\ a = ch["I"].wbuf /\ b = ch["I"].xbuf
                            /\ d = ch["I"].recvdonelen
    OBVIOUS
  <2>3. o <= m /\ m <= TransMaxWindow /\ o \in Nat /\ m \in Nat /\ TransMaxWindow \in Nat
    <3>1. m \in Nat /\ TransMaxWindow \in Nat /\ m <= TransMaxWindow
      BY <2>2, WindowAssumption, TwoEnds
    <3>2. o \in Nat /\ a \in Nat /\ b \in Nat /\ d \in Nat
      BY <1>6, <2>1, <2>2 DEF Good, Channels
    <3>3. o = 0 \/ o + a + b + d = m
      BY <1>6, <2>1, <2>2 DEF Good, Accounted
    <3>. QED  BY <3>1, <3>2, <3>3
  <2>4. Credit("A")
    BY <1>3, <2>1, TwoEnds DEF Flow, Shared
  <2>5. Held("A") = 0 /\ Bytes(net["I"], Data) = 0 /\ dropped["I"] = 0
    BY <1>4, BytesEmpty, TwoEnds DEF Held, Flow
  <2>6. Bytes(net["A"], Grants) = h + 0
    <3>1. PICK q : q = net["A"]
      OBVIOUS
    <3>2. Bytes(q, Grants) = Head(q).n + Bytes(Tail(q), Grants)
      <4>1. q \in Seq(Message) /\ q # <<>> /\ Head(q).t \in Grants
        BY <1>1, <3>1 DEF Grants
      <4>. QED  BY <4>1, BytesTaken
    <3>3. Bytes(Tail(q), Grants) = 0
      BY <1>5, <3>1, BytesEmpty
    <3>. QED  BY <3>1, <3>2, <3>3
  <2>7. PICK g : g = Bytes(net["A"], Grants)
    OBVIOUS
  <2>8. 0 + g + 0 + 0 = o
    BY <1>6, <2>4, <2>5, <2>7, TwoEnds DEF Credit
  <2>9. g = h + 0
    BY <2>6, <2>7
  <2>10. h = o
    <3>1. PICK k : k = h
      OBVIOUS
    <3>2. k = o
      BY <1>1, <2>8, <2>9, <3>1
    <3>. QED  BY <3>1, <3>2
  <2>. HIDE DEF h
  <2>. QED  BY <2>3, <2>10 DEF MinOf
<1>8. /\ new \in Channels /\ new.transwindow = o /\ new.recvdonelen = 0
      /\ new.recvwindow = 0 /\ new.wsize = 0 /\ ~new.initconn
  <2>1. new = NewChannel(o) /\ o \in Nat
    BY <1>7
  <2>2. NewChannel(o) \in Channels
    BY <2>1, NewChannelType
  <2>3. PICK d : d = NewChannel(o)
    OBVIOUS
  <2>4. d.transwindow = o /\ d.recvdonelen = 0 /\ d.recvwindow = 0 /\ d.wsize = 0
        /\ ~d.initconn
    BY <2>3 DEF NewChannel
  <2>. HIDE DEF new
  <2>. QED  BY <2>1, <2>2, <2>3, <2>4
<1>9. /\ c \in Channels /\ c.transwindow = o /\ c.recvdonelen = 0
      /\ c.recvwindow = 0 /\ c.wsize = 0
  <2>1. SOCKFD \in Fd
    BY DEF Fd
  <2> HIDE DEF new
  <2>2. CASE TypeA = "tcp"
    <3>1. c = [new EXCEPT !.writefd = SOCKFD, !.initconn = TRUE]
      BY <2>2 DEF InitHandler
    <3> HIDE DEF c
    <3>. QED  BY <1>8, <2>1, <3>1 DEF Channels
  <2>3. CASE TypeA = "sock"
    <3>1. c = [new EXCEPT !.writefd = SOCKFD, !.readfd = SOCKFD]
      BY <2>3 DEF InitHandler
    <3> HIDE DEF c
    <3>. QED  BY <1>8, <2>1, <3>1 DEF Channels
  <2>4. CASE TypeA # "tcp" /\ TypeA # "sock"
    <3>1. c = new
      BY <2>4 DEF InitHandler
    <3>. QED  BY <1>8, <3>1
  <2>. QED  BY <2>2, <2>3, <2>4
<1> HIDE DEF new, c
<1>10. PICK n, r, w :
        /\ Processed("A", w) /\ w.c = n /\ w.q = r /\ ~w.bad
        /\ \/ n = NoChannel /\ r = <<Msg("failure", 0)>>
           \/ n = c /\ r = <<>>
           \/ n = InitWriteBuf("A", c) /\ r = <<Msg("confirm", RecvWindow["A"])>>
  <2>1. \/ Processed("A", w1)
        \/ Processed("A", w2)
        \/ Processed("A", w3)
    BY DEF RecvOpen, new, c
  <2>2. ch["A"] = NoChannel /\ InitWriteBufOk(c)
    BY <1>4, <1>9 DEF Live, InitWriteBufOk
  <2>3. /\ w1.c = NoChannel /\ w1.q = <<Msg("failure", 0)>> /\ ~w1.bad
        /\ w2.c = c /\ w2.q = <<>> /\ ~w2.bad
        /\ w3.c = InitWriteBuf("A", c) /\ w3.q = <<Msg("confirm", RecvWindow["A"])>>
        /\ ~w3.bad
    BY <2>2 DEF World
  <2> HIDE DEF w1, w2, w3
  <2>. QED  BY <2>1, <2>3
<1>11. r \in Seq(Message)
  <2>1. "failure" \in MsgType /\ "confirm" \in MsgType
    BY DEF MsgType
  <2>2. /\ <<Msg("failure", 0)>> \in Seq(Message)
        /\ <<Msg("confirm", RecvWindow["A"])>> \in Seq(Message)
    BY <1>o, <2>1, OneOrder
  <2>. QED  BY <1>10, <2>2, EmptySeq
<1>12. /\ ch'["A"] = n /\ ch'["I"] = ch["I"]
       /\ net'["A"] = <<>> /\ net'["I"] = r
  <2>1. PICK rest : rest = Tail(net["A"])
    OBVIOUS
  <2>2. Done("A", w, rest, "io")
    BY <1>10, <2>1 DEF Processed
  <2>3. /\ ch'["A"] = w.c /\ ch'[Peer("A")] = ch[Peer("A")]
        /\ net'["A"] = rest /\ net'[Peer("A")] = net[Peer("A")] \o w.q
        /\ pc'["A"] = "io" /\ pc'[Peer("A")] = pc[Peer("A")]
    BY <1>o, <2>2, TwoEnds, DoneFacts, Zenon
  <2>4. /\ ch'["A"] = n /\ ch'["I"] = ch["I"]
        /\ net'["A"] = <<>> /\ net'["I"] = net["I"] \o r
    BY <1>5, <1>10, <2>1, <2>3, TwoEnds
  <2>. QED  BY <1>4, <1>11, <2>4, ConcatEmptySeq
<1>13. fatal' = fatal
  BY <1>10 DEF Processed, Done
<1>14. n = NoChannel => r = <<Msg("failure", 0)>>
  <2>1. c # NoChannel /\ InitWriteBuf("A", c) # NoChannel
    <3>1. InitWriteBuf("A", c) \in Channels
      BY <1>o, <1>9 DEF InitWriteBuf, Channels
    <3>. QED  BY <1>9, <3>1, NoChannelAssumption
  <2>. QED  BY <1>10, <2>1
<1>15. n # NoChannel =>
             /\ n.transwindow = ch["I"].recvwindow /\ n.recvdonelen = 0
             /\ n.recvwindow \in Nat
             /\ \/ r = <<>> /\ n.recvwindow = 0
                \/ r = <<Msg("confirm", n.recvwindow)>>
  <2>1. CASE n = c /\ r = <<>>
    BY <1>6, <1>9, <2>1
  <2>2. CASE n = InitWriteBuf("A", c) /\ r = <<Msg("confirm", RecvWindow["A"])>>
    <3>1. /\ n.transwindow = o /\ n.recvdonelen = 0 /\ n.recvwindow = RecvWindow["A"]
      BY <1>9, <2>2 DEF InitWriteBuf, Channels
    <3>. QED  BY <1>o, <1>6, <2>2, <3>1
  <2>. QED  BY <1>10, <2>1, <2>2
<1>. QED  BY <1>2, <1>4, <1>11, <1>12, <1>13, <1>14, <1>15, AnswerFlow

\* check_in_progress() opens the window of a channel whose peer waits for it.
LEMMA ConnectIOFlow == ASSUME OInv, Flow, NEW e \in End, ConnectIO(e) PROVE Flow'
<1> DEFINE c == [InitWriteBuf("A", ch["A"]) EXCEPT !.readfd = ch["A"].writefd,
                                                   !.initconn = FALSE]
<1>o. IInv /\ Opening /\ RecvWindow["A"] \in Nat
  BY WindowAssumption, TwoEnds DEF OInv
<1>1. status' = status /\ dropped' = dropped
  BY DEF ConnectIO, env
<1>2. PICK connected \in BOOLEAN :
        Done(e, CheckInProgress(e, World(e), connected), net[e], "select")
  BY DEF ConnectIO
<1>3. e = "A" /\ Connecting
  BY <1>o, TwoEnds DEF ConnectIO, Opening, Connecting, Live
<1>4. /\ Asking /\ net["I"] = <<>> /\ net["A"] = <<>> /\ TypeA = "tcp"
      /\ ch["A"] \in Channels /\ ch["A"] # NoChannel /\ Live("A") /\ Live("I")
      /\ ch["A"].wsize = 0 /\ ch["A"].recvwindow = 0 /\ ch["A"].recvdonelen = 0
  BY <1>o, <1>3, TwoEnds DEF Opening, Connecting, Asking, IInv, Good, Accounted, Live
<1>5. PICK w, n, r : /\ Done("A", w, net["A"], "select") /\ w.c = n /\ w.q = r /\ ~w.bad
                     /\ \/ n = NoChannel /\ r = <<Msg("failure", 0)>>
                        \/ n = c /\ r = <<Msg("confirm", RecvWindow["A"])>>
  <2>1. ~HasCloseHandler("A")
    BY <1>4 DEF HasCloseHandler, Type
  <2>2. /\ World("A").c = ch["A"] /\ World("A").q = <<>> /\ ~World("A").bad
        /\ DOMAIN World("A") = {"c", "src", "q", "out", "bad"}
    BY DEF World
  <2>3. PICK v : v = World("A")
    OBVIOUS
  <2>4. PICK u : u = CheckInProgress("A", v, connected)
    OBVIOUS
  <2>5. Append(<<>>, Msg("failure", 0)) = <<Msg("failure", 0)>>
        /\ Append(<<>>, Msg("confirm", RecvWindow["A"])) = <<Msg("confirm", RecvWindow["A"])>>
    OBVIOUS
  <2>6. CASE connected
    <3>1. u = [v EXCEPT !.bad = ~InitWriteBufOk(v.c),
                   !.c = [InitWriteBuf("A", v.c) EXCEPT !.readfd = v.c.writefd,
                                                        !.initconn = FALSE],
                   !.q = Append(@, Msg("confirm", RecvWindow["A"]))]
      BY <2>4, <2>6 DEF CheckInProgress
    <3>2. InitWriteBufOk(v.c)
      BY <1>4, <2>2, <2>3 DEF InitWriteBufOk
    <3>3. u.c = c /\ u.q = <<Msg("confirm", RecvWindow["A"])>> /\ ~u.bad
      BY <2>2, <2>3, <2>5, <3>1, <3>2
    <3>. HIDE DEF c
    <3>. QED  BY <1>2, <1>3, <2>3, <2>4, <3>3
  <2>7. CASE ~connected
    <3>1. PICK x : x = [v EXCEPT !.q = Append(@, Msg("failure", 0))]
      OBVIOUS
    <3>2. u = RemoveChannel("A", x, FALSE)
      BY <2>4, <2>7, <3>1 DEF CheckInProgress
    <3>3. u = [x EXCEPT !.c = NoChannel]
      BY <2>1, <3>2 DEF RemoveChannel, RunCloseHandler
    <3>4. u.c = NoChannel /\ u.q = <<Msg("failure", 0)>> /\ ~u.bad
      BY <2>2, <2>3, <2>5, <3>1, <3>3
    <3>. QED  BY <1>2, <1>3, <2>3, <2>4, <3>4
  <2>. QED  BY <2>6, <2>7
<1>6. r \in Seq(Message)
  <2>1. "failure" \in MsgType /\ "confirm" \in MsgType
    BY DEF MsgType
  <2>2. /\ <<Msg("failure", 0)>> \in Seq(Message)
        /\ <<Msg("confirm", RecvWindow["A"])>> \in Seq(Message)
    BY <1>o, <2>1, OneOrder
  <2>. HIDE DEF c
  <2>. QED  BY <1>5, <2>2
<1>7. /\ c \in Channels /\ c.transwindow = ch["A"].transwindow
      /\ c.recvdonelen = 0 /\ c.recvwindow = RecvWindow["A"]
  <2>1. PICK d : d = InitWriteBuf("A", ch["A"])
    OBVIOUS
  <2>2. /\ d \in Channels /\ d.transwindow = ch["A"].transwindow
        /\ d.recvdonelen = 0 /\ d.recvwindow = RecvWindow["A"]
    BY <1>o, <1>4, <2>1 DEF InitWriteBuf, Channels
  <2>3. c = [d EXCEPT !.readfd = ch["A"].writefd, !.initconn = FALSE]
    BY <2>1
  <2>4. ch["A"].writefd \in Fd
    BY <1>4 DEF Channels
  <2>. HIDE DEF c
  <2>. QED  BY <2>2, <2>3, <2>4 DEF Channels
<1>8. c # NoChannel
  BY <1>7, NoChannelAssumption
<1>. HIDE DEF c
<1>9. /\ ch'["A"] = n /\ ch'["I"] = ch["I"]
      /\ net'["A"] = <<>> /\ net'["I"] = r
  <2>1. PICK rest : rest = net["A"]
    OBVIOUS
  <2>2. Done("A", w, rest, "select")
    BY <1>5, <2>1
  <2>3. /\ ch'["A"] = w.c /\ ch'[Peer("A")] = ch[Peer("A")]
        /\ net'["A"] = rest /\ net'[Peer("A")] = net[Peer("A")] \o w.q
        /\ pc'["A"] = "select" /\ pc'[Peer("A")] = pc[Peer("A")]
    BY <1>o, <2>2, TwoEnds, DoneFacts, Zenon
  <2>4. /\ ch'["A"] = n /\ ch'["I"] = ch["I"]
        /\ net'["A"] = <<>> /\ net'["I"] = net["I"] \o r
    BY <1>4, <1>5, <2>1, <2>3, TwoEnds
  <2>. QED  BY <1>4, <1>6, <2>4, ConcatEmptySeq
<1>10. fatal' = fatal
  BY <1>5 DEF Done
<1>11. ch["A"].transwindow = ch["I"].recvwindow
  <2>1. Credit("A")
    BY <1>4, TwoEnds DEF Flow, Shared
  <2>2. /\ Bytes(net["A"], Grants) = 0 /\ Bytes(net["I"], Data) = 0 /\ dropped["I"] = 0
    BY <1>4, BytesEmpty, TwoEnds DEF Flow
  <2>3. PICK t, o : t = ch["A"].transwindow /\ o = ch["I"].recvwindow
    OBVIOUS
  <2>4. t + 0 + 0 + 0 = o
    BY <1>4, <2>1, <2>2, <2>3, TwoEnds DEF Credit, Held
  <2>5. t \in Nat
    BY <1>4, <2>3 DEF Channels
  <2>. QED  BY <2>3, <2>4, <2>5
<1>12. n = NoChannel => r = <<Msg("failure", 0)>>
  BY <1>5, <1>8
<1>13. n # NoChannel =>
             /\ n.transwindow = ch["I"].recvwindow /\ n.recvdonelen = 0
             /\ n.recvwindow \in Nat
             /\ \/ r = <<>> /\ n.recvwindow = 0
                \/ r = <<Msg("confirm", n.recvwindow)>>
  BY <1>o, <1>5, <1>7, <1>11
<1>. QED  BY <1>1, <1>4, <1>6, <1>9, <1>10, <1>12, <1>13, AnswerFlow

\* A refused channel leaves nothing behind.
LEMMA RecvFailureFlow == ASSUME OInv, Flow, RecvFailure PROVE Flow'
<1>o. IInv /\ Opening
  BY DEF OInv
<1>1. /\ "I" \in End /\ pc["I"] = "packet" /\ ch["I"] # NoChannel
      /\ Head(net["I"]).t = "failure" /\ net["I"] \in Seq(Message) /\ net["I"] # <<>>
  BY <1>o, TwoEnds DEF RecvFailure, PacketFor, Packet, IInv, TypeOK
<1>2. ch["I"].await_open
  <2>1. "failure" \in Types(net["I"])
    BY <1>1, OrderTaken
  <2>. QED  BY <2>1 DEF Flow, Asking
<1>3. Asking /\ net["A"] = <<>>
  BY <1>1, <1>2, Answered
<1>4. PICK w : w = RemoveChannel("I", World("I"), FALSE)
  OBVIOUS
<1>5. Processed("I", w) /\ status' = status
  BY <1>2, <1>4 DEF RecvFailure, env
<1>6. w.c = NoChannel /\ w.q = <<>> /\ ~w.bad
  <2>1. ~HasCheckClose("I")
    BY TypeAssumption DEF HasCheckClose, Type
  <2>2. World("I").q = <<>>
    BY DEF World
  <2>. QED  BY <1>4, <2>1, <2>2 DEF RemoveChannel, RunCloseHandler, World
<1>7. /\ ch'["I"] = NoChannel /\ ch'["A"] = ch["A"]
      /\ net'["I"] = Tail(net["I"]) /\ net'["A"] = <<>>
  <2>1. PICK rest : rest = Tail(net["I"])
    OBVIOUS
  <2>2. Done("I", w, rest, "io")
    BY <1>5, <2>1 DEF Processed
  <2>3. /\ ch'["I"] = w.c /\ ch'[Peer("I")] = ch[Peer("I")]
        /\ net'["I"] = rest /\ net'[Peer("I")] = net[Peer("I")] \o w.q
        /\ pc'["I"] = "io" /\ pc'[Peer("I")] = pc[Peer("I")]
    BY <1>o, <2>2, TwoEnds, DoneFacts, Zenon
  <2>4. /\ ch'["I"] = NoChannel /\ ch'["A"] = ch["A"]
        /\ net'["I"] = Tail(net["I"]) /\ net'["A"] = net["A"] \o <<>>
    BY <1>6, <2>1, <2>3, TwoEnds
  <2>. QED  BY <1>3, <2>4, EmptySeq, ConcatEmptySeq
<1>8. /\ Types(net["I"]) = {"failure"} \cup Types(net'["I"])
      /\ Ordered(net["I"]) => \A t \in Types(net'["I"]) : After("failure", t)
  BY <1>1, <1>7, OrderTaken
<1>9. ch["A"] = NoChannel /\ Types(net'["I"]) = {} /\ Types(net'["A"]) = {}
  <2>1. Link(net["I"], ch["I"], ch["A"])
    BY TwoEnds DEF OInv
  <2>2. Ordered(net["I"]) /\ ch["A"] = NoChannel
    BY <1>8, <2>1 DEF Link
  <2>. QED  BY <1>7, <1>8, <2>2, OrderNone DEF After
<1>10. \A d \in End : ~Live(d)' /\ Types(net'[d]) = {}
  BY <1>7, <1>9, TwoEnds DEF Live
<1>11. \A d \in End : Deaf(d)' /\ ~Shared(d)'
  BY <1>10, TwoEnds DEF Deaf, Shared
<1>12. fatal' = fatal /\ status' # "unopened" /\ ~Asking'
  BY <1>1, <1>5, <1>6, <1>10, Opened DEF Processed, Done, Asking
<1>. QED  BY <1>10, <1>11, <1>12, TwoEnds DEF Flow

\* The opener takes over all the window the answer offers.
LEMMA RecvConfirmationFlow == ASSUME OInv, Flow, RecvConfirmation PROVE Flow'
<1> DEFINE h == Head(net["I"]).n
           c == [ch["I"] EXCEPT !.await_open = FALSE, !.transwindow = h]
           c1 == InitStdpipe(c)
           q == IF HasCheckClose("A") THEN <<Msg("shell", 0)>> ELSE <<>>
           w1 == [World("I") EXCEPT !.c = c]
           w2 == [World("I") EXCEPT !.c = c1, !.q = q]
<1>o. IInv /\ Opening
  BY DEF OInv
<1>1. /\ pc["I"] = "packet" /\ ch["I"] # NoChannel
      /\ Head(net["I"]).t = "confirm" /\ net["I"] \in Seq(Message) /\ net["I"] # <<>>
      /\ Ordered(net["I"])
  BY <1>o, TwoEnds DEF RecvConfirmation, PacketFor, Packet, IInv, TypeOK, OInv, Link
<1>2. "confirm" \in Types(net["I"])
  BY <1>1, OrderTaken
<1>3. ch["I"].await_open /\ Live("A")
  BY <1>2 DEF Flow, Asking
<1>4. Asking /\ net["A"] = <<>> /\ ch["I"] \in Channels
  BY <1>1, <1>3, Answered
<1>5. /\ IF TypeI # "stdpipes" THEN Processed("I", w1) ELSE Processed("I", w2)
      /\ status' = status /\ dropped' = dropped
  BY <1>3 DEF RecvConfirmation, env
<1>6. PICK w, n, r :
        /\ Processed("I", w) /\ w.c = n /\ w.q = r /\ ~w.bad
        /\ n \in {c, c1} /\ r \in {<<>>, <<Msg("shell", 0)>>}
  <2>1. /\ w1.c = c /\ w1.q = <<>> /\ ~w1.bad /\ w2.c = c1 /\ w2.q = q /\ ~w2.bad
    BY DEF World
  <2>. HIDE DEF c, c1, w1, w2
  <2>. QED  BY <1>5, <2>1
<1>7. /\ r \in Seq(Message) /\ Types(r) \subseteq {"shell"}
      /\ Bytes(r, Data) = 0 /\ Bytes(r, Grants) = 0
  <2>1. "shell" \in MsgType /\ "shell" \notin Data \cup Grants
    BY DEF MsgType, Data, Grants
  <2>2. CASE r = <<>>
    BY <2>2, EmptySeq, OrderNone, BytesEmpty
  <2>3. CASE r = <<Msg("shell", 0)>>
    BY <2>1, <2>3, OneOrder, BytesBare
  <2>. QED  BY <1>6, <2>2, <2>3
<1>8. h \in Nat
  BY <1>o, <1>1, TwoEnds, ThePacket
<1>9. /\ n \in Channels /\ ~n.await_open /\ n.transwindow = h
      /\ n.recvwindow = ch["I"].recvwindow /\ n.recvdonelen = ch["I"].recvdonelen
  <2>1. /\ c \in Channels /\ ~c.await_open /\ c.transwindow = h
        /\ c.recvwindow = ch["I"].recvwindow /\ c.recvdonelen = ch["I"].recvdonelen
    <3>. HIDE DEF h
    <3>. QED  BY <1>4, <1>8 DEF Channels
  <2>. HIDE DEF c
  <2>2. /\ c1 \in Channels /\ ~c1.await_open /\ c1.transwindow = h
        /\ c1.recvwindow = ch["I"].recvwindow /\ c1.recvdonelen = ch["I"].recvdonelen
    BY <2>1 DEF InitStdpipe, Channels, Fd
  <2>. HIDE DEF c1
  <2>. QED  BY <1>6, <2>1, <2>2
<1>. HIDE DEF c, c1, q, w1, w2
<1>10. n # NoChannel
  BY <1>9, NoChannelAssumption
<1>11. PICK rest : rest = Tail(net["I"])
  OBVIOUS
<1>12. /\ ch'["I"] = n /\ ch'["A"] = ch["A"]
       /\ net'["I"] = rest /\ net'["A"] = r
  <2>2. Done("I", w, rest, "io")
    BY <1>6, <1>11 DEF Processed
  <2>3. /\ ch'["I"] = w.c /\ ch'[Peer("I")] = ch[Peer("I")]
        /\ net'["I"] = rest /\ net'[Peer("I")] = net[Peer("I")] \o w.q
        /\ pc'["I"] = "io" /\ pc'[Peer("I")] = pc[Peer("I")]
    BY <1>o, <2>2, TwoEnds, DoneFacts, Zenon
  <2>4. /\ ch'["I"] = n /\ ch'["A"] = ch["A"]
        /\ net'["I"] = rest /\ net'["A"] = net["A"] \o r
    BY <1>6, <2>3, TwoEnds
  <2>. QED  BY <1>4, <1>7, <2>4, ConcatEmptySeq
<1>13. fatal' = fatal
  BY <1>6 DEF Processed, Done
<1>14. /\ rest \in Seq(Message)
       /\ Types(net["I"]) = {"confirm"} \cup Types(rest)
       /\ \A t \in Types(rest) : After("confirm", t)
  BY <1>1, <1>11, OrderTaken
<1>15. /\ Live("I")' /\ Live("A")' /\ Live("I") /\ ~Asking'
       /\ Types(net'["I"]) \cap {"confirm", "failure"} = {}
  BY <1>1, <1>3, <1>9, <1>10, <1>12, <1>14 DEF Live, Asking, After
<1>16. status' # "unopened"
  BY <1>1, <1>5, Opened, TwoEnds
<1>17. Owed("I", n) /\ Owed("A", ch["A"])
  BY <1>3, <1>9, <1>15, TwoEnds DEF Flow, Owed
<1>18. PICK g, s, d, e : /\ g = Bytes(net["I"], Grants) /\ s = Bytes(rest, Grants)
                         /\ d = Bytes(net["I"], Data) /\ e = Bytes(rest, Data)
  OBVIOUS
<1>19. g = h + s /\ d = e /\ s \in Nat /\ e \in Nat
  <2>1. PICK p : p = net["I"]
    OBVIOUS
  <2>2. p \in Seq(Message) /\ p # <<>> /\ Head(p).t \in Grants /\ Head(p).t \notin Data
    BY <1>1, <2>1 DEF Grants, Data
  <2>3. /\ Bytes(p, Grants) = Head(p).n + Bytes(Tail(p), Grants)
        /\ Bytes(p, Data) = Bytes(Tail(p), Data)
        /\ Bytes(Tail(p), Grants) \in Nat /\ Bytes(Tail(p), Data) \in Nat
    BY <2>2, BytesTaken
  <2>. QED  BY <1>11, <1>18, <2>1, <2>3
<1>20. Credit("I") /\ Credit("A")
  BY <1>3, <1>15, TwoEnds DEF Flow, Shared
<1>21. /\ dropped["I"] = 0 /\ dropped["A"] = 0 /\ ch["I"].transwindow = 0
       /\ Bytes(net["A"], Data) = 0 /\ Bytes(net["A"], Grants) = 0
  BY <1>o, <1>4, BytesEmpty, TwoEnds DEF Flow, Opening
<1>22. Credit("I")'
  <2>1. PICK o : o = ch["A"].recvwindow
    OBVIOUS
  <2>2. 0 + g + 0 + 0 = o
    BY <1>15, <1>18, <1>20, <1>21, <2>1, TwoEnds DEF Credit, Held
  <2>3. h + s + 0 + 0 = o
    <3>. HIDE DEF h
    <3>. QED  BY <1>8, <1>19, <2>2
  <2>4. /\ Held("I")' = h /\ Bytes(net'["I"], Grants) = s
        /\ Bytes(net'["A"], Data) = 0 /\ dropped'["A"] = 0 /\ ch'["A"].recvwindow = o
    BY <1>5, <1>7, <1>9, <1>12, <1>15, <1>18, <1>21, <2>1 DEF Held
  <2>. QED  BY <2>3, <2>4, TwoEnds DEF Credit
<1>23. Credit("A")'
  <2>1. PICK o, t : o = ch["I"].recvwindow /\ t = ch["A"].transwindow
    OBVIOUS
  <2>2. t + 0 + d + 0 = o
    BY <1>3, <1>18, <1>20, <1>21, <2>1, TwoEnds DEF Credit, Held
  <2>3. t + 0 + e + 0 = o
    BY <1>19, <2>2
  <2>4. /\ Held("A")' = t /\ Bytes(net'["A"], Grants) = 0
        /\ Bytes(net'["I"], Data) = e /\ dropped'["I"] = 0 /\ ch'["I"].recvwindow = o
    BY <1>5, <1>7, <1>9, <1>12, <1>15, <1>18, <1>21, <2>1 DEF Held
  <2>. QED  BY <2>3, <2>4, TwoEnds DEF Credit
<1>24. \A x \in End : Live(x)' /\ Owed(x, ch'[x]) /\ Credit(x)'
  BY <1>12, <1>15, <1>17, <1>22, <1>23, TwoEnds
<1>25. Types(net'["A"]) \cap {"confirm", "failure"} = {}
  BY <1>7, <1>12
<1>. QED  BY <1>13, <1>15, <1>16, <1>24, <1>25 DEF Flow

---------------------------------------------------------------------------
(* Every step *)

LEMMA HandleFlow == ASSUME OInv, Flow, NEW e \in End, Handle(e) PROVE Flow'
BY UnknownChannelFlow, RecvOpenFlow, RecvShellFlow, RecvWindowChangeFlow,
   RecvConfirmationFlow, RecvFailureFlow, RecvExitStatusFlow, RecvDataFlow,
   RecvAdjustFlow, RecvEofOrCloseFlow
   DEF Handle, RecvEof, RecvClose, Data

LEMMA IOFlow == ASSUME OInv, Flow, NEW e \in End, IO(e) PROVE Flow'
BY LoopFlow, ConnectIOFlow, ChannelIOFlow DEF IO

\* Every step keeps the books.
LEMMA NextFlow == ASSUME FInv, [Next]_vars PROVE FInv'
<1>1. OInv /\ Flow
  BY DEF FInv
<1>2. OInv'
  BY <1>1, NextOrder
<1>3. ASSUME SendOpen PROVE Flow'
  BY <1>1, <1>3, SendOpenFlow
<1>4. ASSUME WindowChange PROVE Flow'
  BY <1>1, <1>4, WindowChangeFlow
<1>5. ASSUME ChildExit PROVE Flow'
  BY <1>1, <1>5, LoopFlow, TwoEnds
<1>6. ASSUME NEW e \in End, SelectSome(e) \/ Handle(e) \/ IO(e) \/ Program(e)
      PROVE  Flow'
  BY <1>1, <1>6, LoopFlow, HandleFlow, IOFlow
<1>7. ASSUME UNCHANGED vars PROVE Flow'
  BY <1>1, <1>7, SameFlow DEF vars
<1>8. Flow'
  BY <1>3, <1>4, <1>5, <1>6, <1>7 DEF Next
<1>. QED  BY <1>2, <1>8 DEF FInv

\* The books of both ends agree with what is under way in every state that two
\* dropbear ends can reach.
THEOREM InFlow == Spec => []FInv
<1>1. Init => FInv
  BY InitOrder, InitFlow DEF FInv
<1>2. FInv /\ [Next]_vars => FInv'
  BY NextFlow
<1>. QED  BY <1>1, <1>2, PTL DEF Spec

\* Without window changes two dropbear ends never make each other exit: no
\* packet for a removed channel, no data after EOF, no packet too large for
\* its buffer, no unexpected reply and no failing assertion, whatever the
\* windows, the faults, the programs and the order of events.
THEOREM NoExit ==
    ASSUME "winch" \notin Faults
    PROVE  Spec => []NoFatalExit
<1>1. FInv => NoFatalExit
  BY DEF FInv, Flow, NoFatalExit, Running
<1>. QED  BY <1>1, InFlow, PTL

\* With them the only exit is the server's, for a window change that comes
\* after the channel is gone.
OnlyLateWinch ==
    \A e \in End : fatal[e] = "no" \/ (e = "A" /\ fatal[e] = "unknown channel")
THEOREM OneExit == Spec => []OnlyLateWinch
<1>1. FInv => OnlyLateWinch
  BY DEF FInv, Flow, OnlyLateWinch
<1>. QED  BY <1>1, InFlow, PTL

\* Both ends are ready, so the request and its answer have been read.
LEMMA Settling ==
    ASSUME FInv, Established, NEW e \in End
    PROVE  Bytes(net[e], {"adjust"}) = Bytes(net[e], Grants)
<1>o. OInv /\ Flow /\ Opening /\ IInv
  BY DEF FInv, OInv
<1>1. ~Asking
  BY TwoEnds DEF Established, Asking
<1>2. "open" \notin Types(net[e]) /\ "confirm" \notin Types(net[e])
  <2>1. CASE e = "I"
    BY <1>o, <1>1, <2>1 DEF Flow, Opening
  <2>2. CASE e = "A"
    BY <1>o, <1>1, <2>2 DEF Flow, Opening
  <2>. QED  BY <2>1, <2>2, TwoEnds
<1>3. net[e] \in Seq(Message)
  BY <1>o DEF IInv, TypeOK
<1>4. Types(net[e]) \cap {"adjust"} = Types(net[e]) \cap Grants
  BY <1>2 DEF Grants
<1>. QED  BY <1>3, <1>4, BytesLike

\* Both ends' books together
LEMMA Balance ==
    ASSUME FInv, Established, NEW e \in End
    PROVE  LET p == Peer(e)
           IN  /\ ch[e].transwindow + Bytes(net[p], Data)
                    + ch[p].wbuf + ch[p].xbuf + ch[p].recvdonelen
                    + Bytes(net[e], {"adjust"}) + dropped[p] = RecvWindow[p]
               /\ ch[e].transwindow \in Nat /\ Bytes(net[p], Data) \in Nat
               /\ ch[p].wbuf \in Nat /\ ch[p].xbuf \in Nat
               /\ ch[p].recvdonelen \in Nat /\ Bytes(net[e], {"adjust"}) \in Nat
               /\ dropped[p] \in Nat /\ RecvWindow[p] \in Nat \ {0}
               /\ ch[p].recvdonelen = 0 \/ ch[p].recvdonelen < RecvWindow[p] \div 3
<1>. DEFINE p == Peer(e)
<1>o. OInv /\ Flow /\ IInv /\ p \in End
  BY TwoEnds DEF FInv, OInv
<1>1. /\ Live(e) /\ Live(p) /\ Good(p, ch[p]) /\ ~ch[p].initconn
  BY <1>o DEF Established, IInv, Live
<1>2. PICK t, g, d, k, o : /\ t = ch[e].transwindow /\ g = Bytes(net[e], Grants)
                           /\ d = Bytes(net[p], Data) /\ k = dropped[p]
                           /\ o = ch[p].recvwindow
  OBVIOUS
<1>3. /\ t + g + d + k = o /\ t \in Nat /\ g \in Nat /\ d \in Nat /\ k \in Nat
      /\ o \in Nat
  BY <1>o, <1>1, <1>2, Books
<1>4. PICK b, x, y, m : /\ b = ch[p].wbuf /\ x = ch[p].xbuf /\ y = ch[p].recvdonelen
                        /\ m = RecvWindow[p]
  OBVIOUS
<1>5. /\ o + b + x + y = m /\ b \in Nat /\ x \in Nat /\ y \in Nat
      /\ m \in Nat \ {0}
  BY <1>o, <1>1, <1>2, <1>4, WindowAssumption DEF Good, Accounted, Channels
<1>6. t + d + b + x + y + g + k = m
  BY <1>3, <1>5
<1>7. g = Bytes(net[e], {"adjust"})
  BY <1>2, Settling
<1>8. y = 0 \/ y < m \div 3
  BY <1>o, <1>1, <1>4 DEF Flow, Owed, WindowExtend
<1>. QED  BY <1>2, <1>3, <1>4, <1>5, <1>6, <1>7, <1>8

\* Window credit is neither made nor lost: what an end may still send, what is
\* under way or buffered and what is not given back yet fill the peer's window
\* to the byte, less what common_recv_msg_channel_data() threw away.
THEOREM CreditKept == Spec => []CreditConserved
<1>1. FInv => CreditConserved
  <2>. SUFFICES ASSUME FInv, NEW e \in End, Established
                PROVE  LET p == Peer(e)
                       IN  ch[e].transwindow + Bytes(net[p], {"data", "ext"})
                             + ch[p].wbuf + ch[p].xbuf + ch[p].recvdonelen
                             + Bytes(net[e], {"adjust"}) + dropped[p] = RecvWindow[p]
    BY DEF CreditConserved
  <2>. QED  BY Balance DEF Data
<1>. QED  BY <1>1, InFlow, PTL

\* A sender whose bytes have all been written out holds a window: what is not
\* given back is less than a third of it.
THEOREM NeverStarved == Spec => []SenderNotStarved
<1>1. FInv => SenderNotStarved
  <2>. SUFFICES ASSUME FInv, NEW e \in End, Established, dropped[Peer(e)] = 0,
                       Bytes(net[Peer(e)], {"data", "ext"})
                         + Bytes(net[e], {"adjust"}) = 0,
                       ch[Peer(e)].wbuf + ch[Peer(e)].xbuf = 0
                PROVE  ch[e].transwindow > 0
    BY DEF SenderNotStarved
  <2>. DEFINE p == Peer(e)
  <2>1. PICK t, g, d, k : /\ t = ch[e].transwindow /\ g = Bytes(net[e], {"adjust"})
                          /\ d = Bytes(net[p], Data) /\ k = dropped[p]
    OBVIOUS
  <2>2. PICK b, x, y, m : /\ b = ch[p].wbuf /\ x = ch[p].xbuf
                          /\ y = ch[p].recvdonelen /\ m = RecvWindow[p]
    OBVIOUS
  <2>3. /\ t + d + b + x + y + g + k = m
        /\ t \in Nat /\ g \in Nat /\ d \in Nat /\ k \in Nat
        /\ b \in Nat /\ x \in Nat /\ y \in Nat /\ m \in Nat \ {0}
        /\ y = 0 \/ y < m \div 3
    BY <2>1, <2>2, Balance
  <2>4. d + g = 0 /\ b + x = 0 /\ k = 0
    BY <2>1, <2>2 DEF Data
  <2>5. t + y = m
    BY <2>3, <2>4
  <2>6. y < m
    BY <2>3
  <2>7. t > 0
    BY <2>3, <2>5, <2>6
  <2>. QED  BY <2>1, <2>7
<1>. QED  BY <1>1, InFlow, PTL

---------------------------------------------------------------------------
(* What an end gives up with a descriptor: the action properties.          *)
(*                                                                         *)
(* Where each descriptor of an end is its own (Apart), close_chan_fd()     *)
(* closes one and no other.  Each C function then gives up a descriptor    *)
(* only when what is behind it, or buffered for it, has gone (Tidy).  A    *)
(* socket and a pty are read and written through one descriptor, and the   *)
(* properties do not hold of them.                                         *)
(***************************************************************************)

Descriptors == {"readfd", "writefd", "errfd"}

\* No two descriptors of a channel are the same, or (sepfds) one direction is
\* closed without the other.
Apart(e, c) ==
    /\ SepFds(e) => c.errfd < 0
    /\ ~SepFds(e) =>
         /\ c.readfd >= 0 => c.readfd # c.writefd /\ c.readfd # c.errfd
         /\ c.errfd >= 0 => c.errfd # c.writefd

\* A channel that was c is now d, or NoChannel: descriptor f is given up.
GivenUp(c, d, f) == c[f] >= 0 /\ ~(d # NoChannel /\ d[f] = c[f])

\* What was read is at an end: s are the pipes that are left.
Emptied(c, d, s) ==
    /\ GivenUp(c, d, "readfd") => s.buf = 0
    /\ GivenUp(c, d, "errfd") /\ ErrIsRead(c) => s.ebuf = 0

\* What was buffered is written: o bytes have been.
WroteOut(e, c, d, o, exited) ==
    /\ GivenUp(c, d, "writefd") =>
         o >= c.wbuf \/ "w" \in broken[e] \/ (HasCheckClose(e) /\ exited)
    /\ GivenUp(c, d, "errfd") /\ ErrIsWrite(c) =>
         o >= c.xbuf \/ "x" \in broken[e]

\* An end whose channel was c, and is d on the way, with pipes s and o bytes
\* written out
Tidy(e, c, d, s, o, exited) ==
    /\ Apart(e, d) /\ d.extra = c.extra
    /\ \A f \in Descriptors : d[f] = c[f] \/ d[f] < 0
    /\ o + d.wbuf >= c.wbuf /\ o + d.xbuf >= c.xbuf
    /\ Emptied(c, d, s) /\ WroteOut(e, c, d, o, exited)
TidyWorld(e, c, w, exited) == Tidy(e, c, w.c, w.src, w.out, exited)

\* Three integers and three counters of a channel
LEMMA Fields ==
    ASSUME NEW c \in Channels
    PROVE  /\ c # NoChannel
           /\ c.readfd \in Int /\ c.writefd \in Int /\ c.errfd \in Int
           /\ \A f \in Descriptors : c[f] \in Int
           /\ c.wbuf \in Nat /\ c.xbuf \in Nat /\ c.transwindow \in Nat
           /\ c.extra \in BOOLEAN
<1>1. c.readfd \in Int /\ c.writefd \in Int /\ c.errfd \in Int
  BY FdNumbers
<1>2. \A f \in Descriptors : c[f] \in Int
  BY <1>1 DEF Descriptors
<1>3. /\ c.wbuf \in Nat /\ c.xbuf \in Nat /\ c.transwindow \in Nat
      /\ c.extra \in BOOLEAN
  BY DEF Channels
<1>. QED  BY <1>1, <1>2, <1>3, NoChannelAssumption

\* close_chan_fd() for one descriptor of its own closes no other.
LEMMA CloseApart ==
    ASSUME NEW e \in End, NEW c \in Channels, Apart(e, c),
           NEW g \in Descriptors, NEW how,
           g = "readfd" => how = "RD", g = "writefd" => how = "WR"
    PROVE  LET d == CloseChanFd(e, c, c[g], how)
           IN  /\ Apart(e, d)
               /\ \A f \in Descriptors : f # g /\ c[f] >= 0 => d[f] = c[f]
<1>. DEFINE d == CloseChanFd(e, c, c[g], how)
<1>1. /\ c.readfd \in Int /\ c.writefd \in Int /\ c.errfd \in Int
  BY FdNumbers
<1>2. \A f \in Descriptors : d[f] = c[f] \/ (d[f] < 0 /\ d[f] \in Int)
  <2>1. \A f \in Descriptors : d[f] = c[f] \/ d[f] < 0
    BY CloseFdKeeps DEF Descriptors
  <2>2. d \in Channels
    BY CloseFdKeeps
  <2>. HIDE DEF d
  <2>. QED  BY <2>1, <2>2, Fields
<1>3. \A f \in Descriptors : f # g /\ c[f] >= 0 => d[f] = c[f]
  <2>1. CASE g = "readfd"
    <3>1. how = "RD" /\ c[g] = c.readfd
      BY <2>1
    <3>2. c.writefd >= 0 => d.writefd = c.writefd
      BY <1>1, <3>1 DEF CloseChanFd, Channels, Apart
    <3>3. c.errfd >= 0 => d.errfd = c.errfd
      BY <1>1, <3>1 DEF CloseChanFd, Channels, Apart
    <3>. QED  BY <2>1, <3>2, <3>3 DEF Descriptors
  <2>2. CASE g = "writefd"
    <3>1. how = "WR" /\ c[g] = c.writefd
      BY <2>2
    <3>2. c.readfd >= 0 => d.readfd = c.readfd
      BY <1>1, <3>1 DEF CloseChanFd, Channels, Apart
    <3>3. c.errfd >= 0 => d.errfd = c.errfd
      BY <1>1, <3>1 DEF CloseChanFd, Channels, Apart
    <3>. QED  BY <2>2, <3>2, <3>3 DEF Descriptors
  <2>3. CASE g = "errfd"
    <3>1. c[g] = c.errfd
      BY <2>3
    <3>2. c.readfd >= 0 => d.readfd = c.readfd
      BY <1>1, <3>1 DEF CloseChanFd, Channels, Apart
    <3>3. c.writefd >= 0 => d.writefd = c.writefd
      BY <1>1, <3>1 DEF CloseChanFd, Channels, Apart
    <3>. QED  BY <2>3, <3>2, <3>3 DEF Descriptors
  <2>. QED  BY <2>1, <2>2, <2>3 DEF Descriptors
<1>4. Apart(e, d)
  <2>1. /\ d.readfd = c.readfd \/ (d.readfd < 0 /\ d.readfd \in Int)
        /\ d.writefd = c.writefd \/ (d.writefd < 0 /\ d.writefd \in Int)
        /\ d.errfd = c.errfd \/ (d.errfd < 0 /\ d.errfd \in Int)
    BY <1>2 DEF Descriptors
  <2>. HIDE DEF d
  <2>. QED  BY <1>1, <2>1 DEF Apart
<1>. QED  BY <1>3, <1>4

\* An end that has done nothing is tidy.
LEMMA TidyStart ==
    ASSUME NEW e \in End, NEW c \in Channels, Apart(e, c), NEW s, NEW exited
    PROVE  Tidy(e, c, c, s, 0, exited)
<1>1. c # NoChannel /\ c.wbuf \in Nat /\ c.xbuf \in Nat
  BY Fields
<1>. QED  BY <1>1 DEF Tidy, Emptied, WroteOut, GivenUp

\* So is one that goes on with the same descriptors, reads its pipes and
\* writes out what is buffered.
LEMMA TidyOn ==
    ASSUME NEW e \in End, NEW c \in Channels, NEW d \in Channels, NEW s,
           NEW o \in Nat, NEW exited, Tidy(e, c, d, s, o, exited),
           NEW n \in Channels, NEW t, NEW p \in Nat,
           \A f \in Descriptors : n[f] = d[f], n.extra = d.extra,
           p >= o, p + n.wbuf >= o + d.wbuf, p + n.xbuf >= o + d.xbuf,
           s.buf = 0 => t.buf = 0, s.ebuf = 0 => t.ebuf = 0
    PROVE  Tidy(e, c, n, t, p, exited)
<1>1. /\ n.readfd = d.readfd /\ n.writefd = d.writefd /\ n.errfd = d.errfd
  BY DEF Descriptors
<1>2. Apart(e, n)
  BY <1>1 DEF Tidy, Apart
<1>3. n # NoChannel /\ d # NoChannel
  BY Fields
<1>4. \A f \in Descriptors : GivenUp(c, n, f) <=> GivenUp(c, d, f)
  BY <1>3 DEF GivenUp
<1>5. Emptied(c, n, t)
  BY <1>4 DEF Tidy, Emptied, Descriptors
<1>6. /\ c.wbuf \in Nat /\ c.xbuf \in Nat /\ n.wbuf \in Nat /\ n.xbuf \in Nat
      /\ d.wbuf \in Nat /\ d.xbuf \in Nat
  BY Fields
<1>7. WroteOut(e, c, n, p, exited)
  <2>1. GivenUp(c, n, "writefd") =>
          o >= c.wbuf \/ "w" \in broken[e] \/ (HasCheckClose(e) /\ exited)
    BY <1>4 DEF Tidy, WroteOut, Descriptors
  <2>2. GivenUp(c, n, "errfd") /\ ErrIsWrite(c) =>
          o >= c.xbuf \/ "x" \in broken[e]
    BY <1>4 DEF Tidy, WroteOut, Descriptors
  <2>3. (o >= c.wbuf => p >= c.wbuf) /\ (o >= c.xbuf => p >= c.xbuf)
    BY <1>6
  <2>. QED  BY <2>1, <2>2, <2>3 DEF WroteOut
<1>8. p + n.wbuf >= c.wbuf /\ p + n.xbuf >= c.xbuf
  BY <1>6 DEF Tidy
<1>9. n.extra = c.extra /\ \A f \in Descriptors : n[f] = c[f] \/ n[f] < 0
  BY DEF Tidy
<1>. QED  BY <1>2, <1>5, <1>7, <1>8, <1>9 DEF Tidy

\* And one that gives a descriptor up for a reason.
LEMMA TidyClose ==
    ASSUME NEW e \in End, NEW c \in Channels, NEW d, Good(e, d), NEW s,
           NEW o \in Nat, NEW exited, Tidy(e, c, d, s, o, exited),
           NEW g \in Descriptors, NEW how,
           g = "readfd" => how = "RD", g = "writefd" => how = "WR",
           d[g] >= 0 =>
             /\ g = "readfd" => s.buf = 0
             /\ g = "errfd" /\ ErrIsRead(d) => s.ebuf = 0
             /\ g = "errfd" /\ ErrIsWrite(d) => d.xbuf = 0 \/ "x" \in broken[e]
             /\ g = "writefd" => \/ d.wbuf = 0 \/ "w" \in broken[e]
                                 \/ HasCheckClose(e) /\ exited
    PROVE  Tidy(e, c, CloseChanFd(e, d, d[g], how), s, o, exited)
<1>1. PICK n : n = CloseChanFd(e, d, d[g], how)
  OBVIOUS
<1>2. d \in Channels
  BY DEF Good
<1>3. /\ n \in Channels /\ n.extra = d.extra
      /\ \A f \in Descriptors : n[f] = d[f] \/ n[f] < 0
      /\ n.wbuf = d.wbuf /\ n.xbuf = d.xbuf
  BY <1>1, <1>2, CloseFd, CloseFdKeeps DEF Descriptors
<1>4. /\ Apart(e, n)
      /\ \A f \in Descriptors : f # g /\ d[f] >= 0 => n[f] = d[f]
  BY <1>1, <1>2, CloseApart DEF Tidy
<1>5. /\ c # NoChannel /\ d # NoChannel /\ n # NoChannel
      /\ \A f \in Descriptors : c[f] \in Int /\ d[f] \in Int /\ n[f] \in Int
      /\ c.wbuf \in Nat /\ c.xbuf \in Nat /\ d.wbuf \in Nat /\ d.xbuf \in Nat
  BY <1>2, <1>3, Fields
<1>6. \A f \in Descriptors :
        GivenUp(c, n, f) => GivenUp(c, d, f) \/ (f = g /\ d[f] >= 0)
  <2>. SUFFICES ASSUME NEW f \in Descriptors, GivenUp(c, n, f), ~GivenUp(c, d, f)
                PROVE  f = g /\ d[f] >= 0
    OBVIOUS
  <2>1. d[f] = c[f] /\ c[f] >= 0 /\ n[f] # c[f]
    BY <1>5 DEF GivenUp
  <2>. QED  BY <1>4, <2>1
<1>7. d.extra = c.extra /\ o + d.wbuf >= c.wbuf /\ o + d.xbuf >= c.xbuf
      /\ Emptied(c, d, s) /\ WroteOut(e, c, d, o, exited)
      /\ \A f \in Descriptors : d[f] = c[f] \/ d[f] < 0
  BY DEF Tidy
<1>8. Emptied(c, n, s)
  BY <1>6, <1>7 DEF Emptied, ErrIsRead, Descriptors
<1>9. WroteOut(e, c, n, o, exited)
  <2>1. (d.wbuf = 0 => o >= c.wbuf) /\ (d.xbuf = 0 => o >= c.xbuf)
    BY <1>5, <1>7
  <2>2. GivenUp(c, n, "writefd") =>
          o >= c.wbuf \/ "w" \in broken[e] \/ (HasCheckClose(e) /\ exited)
    BY <1>6, <1>7, <2>1 DEF WroteOut, Descriptors
  <2>3. GivenUp(c, n, "errfd") /\ ErrIsWrite(c) =>
          o >= c.xbuf \/ "x" \in broken[e]
    BY <1>6, <1>7, <2>1 DEF WroteOut, ErrIsWrite, Descriptors
  <2>. QED  BY <2>2, <2>3 DEF WroteOut
<1>10. \A f \in Descriptors : n[f] = c[f] \/ n[f] < 0
  BY <1>3, <1>5, <1>7
<1>11. Tidy(e, c, n, s, o, exited)
  BY <1>3, <1>4, <1>7, <1>8, <1>9, <1>10 DEF Tidy
<1>. QED  BY <1>1, <1>11

\* A world that is well formed, in parts
LEMMA WorldParts ==
    ASSUME NEW e \in End, NEW w, LiveWorld(e, w)
    PROVE  /\ w \in Worlds /\ w.c \in Channels /\ Good(e, w.c) /\ w.c # NoChannel
           /\ w.src \in Sources /\ w.src.buf \in Nat /\ w.src.ebuf \in Nat
           /\ w.out \in Nat /\ w.q \in Seq(Message)
<1>1. w \in Worlds /\ w.c \in Channels /\ Good(e, w.c) /\ w.c # NoChannel
  BY WorldFields DEF LiveWorld
<1>2. w.src \in Sources /\ w.out \in Nat /\ w.q \in Seq(Message)
  BY <1>1 DEF Worlds
<1>. QED  BY <1>1, <1>2 DEF Sources

\* send_msg_channel_data() closes what it reads only when that is at its end.
LEMMA SendDataTidy ==
    ASSUME NEW e \in End, NEW c \in Channels, NEW w, LiveWorld(e, w), NEW exited,
           TidyWorld(e, c, w, exited), NEW isextended \in BOOLEAN,
           isextended => ErrIsRead(w.c)
    PROVE  /\ TidyWorld(e, c, SendData(e, w, isextended), exited)
           /\ SendData(e, w, isextended).c.flushing = w.c.flushing
<1>. DEFINE g      == IF isextended THEN "errfd" ELSE "readfd"
            avail  == IF isextended THEN w.src.ebuf ELSE w.src.buf
            len    == MinOf(avail, MaxLen(w.c))
            sent   == [w.c EXCEPT !.transwindow = @ - len]
            src1   == [w.src EXCEPT !.buf  = IF isextended THEN @ ELSE @ - len,
                                    !.ebuf = IF isextended THEN @ - len ELSE @]
            m      == Msg(IF isextended THEN "ext" ELSE "data", len)
<1>1. PICK v : v = SendData(e, w, isextended)
  OBVIOUS
<1>2. /\ w \in Worlds /\ w.c \in Channels /\ Good(e, w.c)
      /\ w.src \in Sources /\ w.src.buf \in Nat /\ w.src.ebuf \in Nat
      /\ w.out \in Nat
  BY WorldParts
<1>3. avail \in Nat /\ MaxLen(w.c) \in Nat /\ len \in Nat /\ len <= avail
      /\ (len < MaxLen(w.c) => len = avail) /\ len <= w.c.transwindow
      /\ w.c.transwindow \in Nat
  <2>1. avail \in Nat /\ w.c.transwindow \in Nat /\ MaxPacket \in Nat
    BY <1>2, WindowAssumption, Fields
  <2>. HIDE DEF avail
  <2>. QED  BY <2>1 DEF MaxLen, MinOf
<1>4. g \in Descriptors /\ (g = "readfd" <=> ~isextended) /\ g # "writefd"
      /\ w.c[g] = IF isextended THEN w.c.errfd ELSE w.c.readfd
  BY DEF Descriptors
<1>5. \/ v = [w EXCEPT !.bad = TRUE]
      \/ v = w
      \/ v = [w EXCEPT !.c = CloseChanFd(e, w.c, w.c[g], "RD")]
           /\ len = 0 /\ MaxLen(w.c) # 0
      \/ v = [w EXCEPT !.q = Append(@, m), !.src = src1,
                       !.c = IF DrainedBy(w.c, len)
                             THEN CloseChanFd(e, sent, w.c[g], "RD") ELSE sent]
  <2>1. \/ v = [w EXCEPT !.bad = TRUE]
        \/ v = w
        \/ v = [w EXCEPT !.c = CloseChanFd(e, w.c, w.c[g], "RD")]
             /\ len = 0 /\ MaxLen(w.c) # 0
        \/ v = [w EXCEPT !.q = Append(@, m),
                         !.src.buf  = IF isextended THEN @ ELSE @ - len,
                         !.src.ebuf = IF isextended THEN @ - len ELSE @,
                         !.c = IF DrainedBy(w.c, len)
                               THEN CloseChanFd(e, sent, w.c[g], "RD") ELSE sent]
    BY <1>1, <1>4 DEF SendData
  <2>. DEFINE c1 == IF DrainedBy(w.c, len)
                    THEN CloseChanFd(e, sent, w.c[g], "RD") ELSE sent
  <2>2. [w EXCEPT !.q = Append(@, m),
                  !.src.buf  = IF isextended THEN @ ELSE @ - len,
                  !.src.ebuf = IF isextended THEN @ - len ELSE @,
                  !.c = c1]
        = [w EXCEPT !.q = Append(@, m), !.src = src1, !.c = c1]
    <3>. HIDE DEF c1, m, len
    <3>. QED  BY <1>2 DEF Worlds, Sources
  <2>. QED  BY <2>1, <2>2
<1>6. CASE v = [w EXCEPT !.bad = TRUE] \/ v = w
  <2>1. v.c = w.c /\ v.src = w.src /\ v.out = w.out
    BY <1>2, <1>6 DEF Worlds
  <2>. QED  BY <1>1, <2>1 DEF TidyWorld
<1>7. CASE v = [w EXCEPT !.c = CloseChanFd(e, w.c, w.c[g], "RD")]
             /\ len = 0 /\ MaxLen(w.c) # 0
  <2>1. avail = 0
    BY <1>3, <1>7
  <2>. HIDE DEF g
  <2>2. PICK d : d = CloseChanFd(e, w.c, w.c[g], "RD")
    OBVIOUS
  <2>3. v.c = d /\ v.src = w.src /\ v.out = w.out
    BY <1>2, <1>7, <2>2 DEF Worlds
  <2>4. /\ g = "readfd" => w.src.buf = 0
        /\ g = "errfd" => w.src.ebuf = 0 /\ ~ErrIsWrite(w.c)
    BY <1>4, <2>1 DEF g, ErrIsRead, ErrIsWrite
  <2>5. Tidy(e, c, d, w.src, w.out, exited)
    BY <1>2, <1>4, <2>2, <2>4, TidyClose DEF TidyWorld
  <2>6. d.flushing = w.c.flushing
    BY <1>2, <2>2, CloseFdKeeps
  <2>. QED  BY <1>1, <2>3, <2>5, <2>6 DEF TidyWorld
<1>8. CASE v = [w EXCEPT !.q = Append(@, m), !.src = src1,
                         !.c = IF DrainedBy(w.c, len)
                               THEN CloseChanFd(e, sent, w.c[g], "RD") ELSE sent]
  <2>. DEFINE c1 == IF DrainedBy(w.c, len)
                    THEN CloseChanFd(e, sent, w.c[g], "RD") ELSE sent
  <2>1. v.c = c1 /\ v.src = src1 /\ v.out = w.out
    <3>1. PICK k, r, p : k = c1 /\ r = src1 /\ p = m
      OBVIOUS
    <3>2. v = [w EXCEPT !.q = Append(@, p), !.src = r, !.c = k]
      BY <1>8, <3>1
    <3>3. v.c = k /\ v.src = r /\ v.out = w.out
      BY <1>2, <3>2 DEF Worlds
    <3>. QED  BY <3>1, <3>3
  <2>2. /\ w.src.buf = 0 => src1.buf = 0
        /\ w.src.ebuf = 0 => src1.ebuf = 0
        /\ len = avail => IF isextended THEN src1.ebuf = 0 ELSE src1.buf = 0
    <3>1. /\ src1.buf = IF isextended THEN w.src.buf ELSE w.src.buf - len
          /\ src1.ebuf = IF isextended THEN w.src.ebuf - len ELSE w.src.ebuf
      <4>. HIDE DEF len
      <4>. QED  BY <1>2 DEF Sources
    <3>. HIDE DEF len, src1
    <3>. QED  BY <1>2, <1>3, <3>1
  <2>3. /\ sent \in Channels /\ Good(e, sent)
        /\ \A f \in Descriptors : sent[f] = w.c[f]
        /\ sent.extra = w.c.extra /\ sent.wbuf = w.c.wbuf
        /\ sent.xbuf = w.c.xbuf /\ sent.flushing = w.c.flushing
    <3>. HIDE DEF len
    <3>1. w.c.transwindow - len \in Nat
      BY <1>3
    <3>2. PICK d : d = [w.c EXCEPT !.transwindow = w.c.transwindow - len]
      OBVIOUS
    <3>3. d \in Channels
      BY <1>2, <3>1, <3>2 DEF Channels
    <3>4. /\ d.extra = w.c.extra /\ d.wbuf = w.c.wbuf /\ d.wsize = w.c.wsize
          /\ d.recvdonelen = w.c.recvdonelen /\ d.recvwindow = w.c.recvwindow
          /\ d.xbuf = w.c.xbuf /\ d.flushing = w.c.flushing
          /\ d.initconn = w.c.initconn /\ d.readfd = w.c.readfd
          /\ d.writefd = w.c.writefd /\ d.errfd = w.c.errfd
      BY <1>2, <3>2 DEF Channels
    <3>5. Good(e, d)
      BY <1>2, <3>3, <3>4 DEF Good, Accounted
    <3>. QED  BY <3>2, <3>3, <3>4, <3>5 DEF Descriptors
  <2>. HIDE DEF len, src1, sent, m
  <2>4. Tidy(e, c, sent, src1, w.out, exited)
    <3>1. w.out >= w.out /\ w.out + sent.wbuf >= w.out + w.c.wbuf
          /\ w.out + sent.xbuf >= w.out + w.c.xbuf
      <4>1. w.c.wbuf \in Nat /\ w.c.xbuf \in Nat
        BY <1>2, Fields
      <4>. QED  BY <1>2, <2>3, <4>1
    <3>. QED  BY <1>2, <2>2, <2>3, <3>1, TidyOn DEF TidyWorld
  <2>5. CASE DrainedBy(w.c, len)
    <3>1. len = avail
      BY <1>3, <2>5 DEF DrainedBy
    <3>2. /\ g = "readfd" => src1.buf = 0
          /\ g = "errfd" => src1.ebuf = 0 /\ ~ErrIsWrite(sent)
      BY <1>4, <2>2, <2>3, <3>1 DEF ErrIsRead, ErrIsWrite
    <3>. HIDE DEF g
    <3>3. PICK d : d = CloseChanFd(e, sent, sent[g], "RD")
      OBVIOUS
    <3>4. Tidy(e, c, d, src1, w.out, exited)
      BY <1>2, <1>4, <2>3, <2>4, <3>2, <3>3, TidyClose
    <3>5. d.flushing = sent.flushing
      BY <2>3, <3>3, CloseFdKeeps
    <3>6. v.c = d
      BY <1>4, <2>1, <2>3, <2>5, <3>3
    <3>. QED  BY <1>1, <2>1, <2>3, <3>4, <3>5, <3>6 DEF TidyWorld
  <2>6. CASE ~DrainedBy(w.c, len)
    BY <1>1, <2>1, <2>3, <2>4, <2>6 DEF TidyWorld
  <2>. QED  BY <2>5, <2>6
<1>. QED  BY <1>5, <1>6, <1>7, <1>8

\* The two reads of a flush
LEMMA FlushTidy ==
    ASSUME NEW e \in End, NEW c \in Channels, NEW w, LiveWorld(e, w), NEW exited,
           TidyWorld(e, c, w, exited)
    PROVE  /\ TidyWorld(e, c, Flush(e, w), exited)
           /\ Flush(e, w).c.flushing = w.c.flushing
<1>. DEFINE w1 == IF w.c.flushing /\ w.c.readfd >= 0 /\ w.c.transwindow > 0
                  THEN SendData(e, w, FALSE) ELSE w
<1>1. /\ LiveWorld(e, w1) /\ TidyWorld(e, c, w1, exited)
      /\ w1.c.flushing = w.c.flushing
  <2>1. /\ LiveWorld(e, SendData(e, w, FALSE))
        /\ TidyWorld(e, c, SendData(e, w, FALSE), exited)
        /\ SendData(e, w, FALSE).c.flushing = w.c.flushing
    BY SendDataTidy, SendDataLive
  <2>. QED  BY <2>1
<1>2. Flush(e, w) = IF w1.c.flushing /\ ErrIsRead(w1.c) /\ w1.c.errfd >= 0
                       /\ w1.c.transwindow > 0
                    THEN SendData(e, w1, TRUE) ELSE w1
  BY DEF Flush
<1>. HIDE DEF w1
<1>3. CASE ErrIsRead(w1.c)
  <2>1. /\ TidyWorld(e, c, SendData(e, w1, TRUE), exited)
        /\ SendData(e, w1, TRUE).c.flushing = w1.c.flushing
    BY <1>1, <1>3, SendDataTidy
  <2>. QED  BY <1>1, <1>2, <2>1
<1>4. CASE ~ErrIsRead(w1.c)
  BY <1>1, <1>2, <1>4
<1>. QED  BY <1>3, <1>4

\* The reading half of channelio()
LEMMA ReadStepTidy ==
    ASSUME NEW e \in End, NEW c \in Channels, NEW w, LiveWorld(e, w), NEW exited,
           TidyWorld(e, c, w, exited), NEW f
    PROVE  TidyWorld(e, c, ReadStep(e, w, f), exited)
<1>1. CASE ReadStep(e, w, f) = w
  BY <1>1
<1>2. CASE ReadStep(e, w, f) = SendData(e, w, FALSE)
  BY <1>2, SendDataTidy
<1>3. CASE ReadStep(e, w, f) = SendData(e, w, TRUE) /\ ErrIsRead(w.c)
  <2>1. TidyWorld(e, c, SendData(e, w, TRUE), exited)
    BY <1>3, SendDataTidy
  <2>. QED  BY <1>3, <2>1
<1>. QED  BY <1>1, <1>2, <1>3 DEF ReadStep

\* writechannel() closes what it writes only when its reader is gone.
LEMMA WriteChannelTidy ==
    ASSUME NEW e \in End, NEW c \in Channels, NEW w, LiveWorld(e, w), NEW exited,
           TidyWorld(e, c, w, exited), NEW f \in {"w", "x"},
           NEW len \in 0 .. IF f = "w" THEN w.c.wbuf ELSE w.c.xbuf,
           f = "x" => ErrIsWrite(w.c)
    PROVE  TidyWorld(e, c, WriteChannel(e, w, f, len), exited)
<1>. DEFINE g  == IF f = "w" THEN "writefd" ELSE "errfd"
            w1 == [w EXCEPT !.c.wbuf = IF f = "w" THEN @ - len ELSE @,
                            !.c.xbuf = IF f = "x" THEN @ - len ELSE @,
                            !.c.recvdonelen = @ + len,
                            !.out = @ + len]
            same(d) == /\ \A h \in Descriptors : d[h] = w.c[h]
                       /\ d.extra = w.c.extra
                       /\ d.wbuf = IF f = "w" THEN w.c.wbuf - len ELSE w.c.wbuf
                       /\ d.xbuf = IF f = "x" THEN w.c.xbuf - len ELSE w.c.xbuf
<1>1. PICK v : v = WriteChannel(e, w, f, len)
  OBVIOUS
<1>2. LiveWorld(e, v)
  BY <1>1, WriteChannelLive
<1>3. /\ w \in Worlds /\ w.c \in Channels /\ Good(e, w.c) /\ w.out \in Nat
      /\ w.c.wbuf \in Nat /\ w.c.xbuf \in Nat
  BY WorldParts, Fields
<1>4. CASE f \in broken[e]
  <2>1. v = [w EXCEPT !.c = CloseChanFd(e, w.c, w.c[g], "WR")]
    BY <1>1, <1>4 DEF WriteChannel
  <2>2. /\ g \in Descriptors /\ g # "readfd"
        /\ g = "writefd" => "w" \in broken[e]
        /\ g = "errfd" => "x" \in broken[e] /\ ~ErrIsRead(w.c)
    BY <1>4 DEF Descriptors, ErrIsRead, ErrIsWrite
  <2>. HIDE DEF g
  <2>3. PICK d : d = CloseChanFd(e, w.c, w.c[g], "WR")
    OBVIOUS
  <2>4. Tidy(e, c, d, w.src, w.out, exited)
    BY <1>3, <2>2, <2>3, TidyClose DEF TidyWorld
  <2>5. v.c = d /\ v.src = w.src /\ v.out = w.out
    BY <1>3, <2>1, <2>3 DEF Worlds
  <2>. QED  BY <1>1, <2>4, <2>5 DEF TidyWorld
<1>5. CASE f \notin broken[e]
  <2>. DEFINE w2 == AdjustWindow(e, w1)
  <2>1. w1.src = w.src /\ w1.out = w.out + len /\ same(w1.c)
        /\ DOMAIN w1 = {"c", "src", "q", "out", "bad"} /\ DOMAIN w1.c = DOMAIN w.c
    BY <1>3 DEF Worlds, Channels, Descriptors
  <2>2. v = [w2 EXCEPT !.bad = w2.bad \/ ~WindowAssertions(e, w2.c)]
    BY <1>1, <1>5 DEF WriteChannel
  <2>3. PICK m : m = Msg("adjust", w1.c.recvdonelen)
    OBVIOUS
  <2>4. PICK d : d = [w1.c EXCEPT !.recvwindow = @ + w1.c.recvdonelen,
                                  !.recvdonelen = 0]
    OBVIOUS
  <2>5. w2 = w1 \/ w2 = [w1 EXCEPT !.q = Append(@, m), !.c = d]
    <3>. HIDE DEF w1
    <3>1. w2 = w1 \/ w2 = [w1 EXCEPT !.q = Append(@, m),
                                     !.c.recvwindow = @ + w1.c.recvdonelen,
                                     !.c.recvdonelen = 0]
      BY <2>3 DEF AdjustWindow
    <3>. QED  BY <2>1, <2>4, <3>1
  <2>6. same(d)
    <3>1. {"readfd", "writefd", "errfd", "extra", "wbuf", "xbuf"} \subseteq DOMAIN w1.c
      BY <1>3, <2>1 DEF Channels
    <3>. HIDE DEF w1
    <3>. QED  BY <2>1, <2>4, <3>1 DEF Descriptors
  <2>. HIDE DEF w1
  <2>7. w2.src = w.src /\ w2.out = w.out + len /\ same(w2.c)
    BY <2>1, <2>5, <2>6
  <2>. HIDE DEF w2, same
  <2>8. v.src = w2.src /\ v.out = w2.out /\ v.c = w2.c
    <3>1. v \in Worlds
      BY <1>2 DEF LiveWorld
    <3>. QED  BY <2>2
  <2>9. PICK n : n = v.c
    OBVIOUS
  <2>10. n \in Channels /\ same(n)
    BY <1>2, <2>7, <2>8, <2>9, WorldParts
  <2>11. /\ len \in Nat /\ (f = "w" => len <= w.c.wbuf) /\ (f = "x" => len <= w.c.xbuf)
    BY <1>3
  <2>12. /\ w.out + len \in Nat /\ w.out + len >= w.out
         /\ (w.out + len) + n.wbuf >= w.out + w.c.wbuf
         /\ (w.out + len) + n.xbuf >= w.out + w.c.xbuf
    BY <1>3, <2>10, <2>11 DEF same
  <2>13. (\A h \in Descriptors : n[h] = w.c[h]) /\ n.extra = w.c.extra
    BY <2>10 DEF same
  <2>14. PICK p : p = w.out + len
    OBVIOUS
  <2>15. Tidy(e, c, n, w.src, p, exited)
    BY <1>3, <2>10, <2>12, <2>13, <2>14, TidyOn DEF TidyWorld
  <2>. QED  BY <1>1, <2>7, <2>8, <2>9, <2>14, <2>15 DEF TidyWorld
<1>. QED  BY <1>4, <1>5

\* The writing half of channelio()
LEMMA WriteStepTidy ==
    ASSUME NEW e \in End, NEW c \in Channels, NEW w, LiveWorld(e, w), NEW exited,
           TidyWorld(e, c, w, exited), NEW f \in {"w", "x"},
           NEW len \in 0 .. IF f = "w" THEN w.c.wbuf ELSE w.c.xbuf
    PROVE  TidyWorld(e, c, WriteStep(e, w, f, len), exited)
<1>1. CASE f = "x" => ErrIsWrite(w.c)
  <2>1. TidyWorld(e, c, WriteChannel(e, w, f, len), exited)
    BY <1>1, WriteChannelTidy
  <2>. QED  BY <2>1 DEF WriteStep
<1>2. CASE ~(f = "x" => ErrIsWrite(w.c))
  BY <1>2 DEF WriteStep
<1>. QED  BY <1>1, <1>2

\* One that changes none of this stays tidy.
LEMMA TidySame ==
    ASSUME NEW e \in End, NEW c \in Channels, NEW d \in Channels, NEW s,
           NEW o \in Nat, NEW exited, Tidy(e, c, d, s, o, exited),
           NEW n \in Channels, \A f \in Descriptors : n[f] = d[f],
           n.extra = d.extra, n.wbuf = d.wbuf, n.xbuf = d.xbuf
    PROVE  Tidy(e, c, n, s, o, exited)
<1>1. o >= o /\ o + n.wbuf >= o + d.wbuf /\ o + n.xbuf >= o + d.xbuf
  BY Fields
<1>. QED  BY <1>1, TidyOn

\* An EOF gives nothing up.
LEMMA SendEofTidy ==
    ASSUME NEW e \in End, NEW c \in Channels, NEW w, LiveWorld(e, w), NEW exited,
           TidyWorld(e, c, w, exited)
    PROVE  /\ TidyWorld(e, c, SendEof(w), exited)
           /\ SendEof(w).c.flushing = w.c.flushing
<1>1. PICK n : n = [w.c EXCEPT !.sent_eof = TRUE]
  OBVIOUS
<1>2. PICK v : v = SendEof(w)
  OBVIOUS
<1>3. /\ w \in Worlds /\ w.c \in Channels /\ w.out \in Nat
      /\ w.c.wbuf \in Nat /\ w.c.xbuf \in Nat
  BY WorldParts, Fields
<1>4. /\ n \in Channels /\ n.extra = w.c.extra /\ n.wbuf = w.c.wbuf
      /\ n.xbuf = w.c.xbuf /\ n.flushing = w.c.flushing
      /\ \A f \in Descriptors : n[f] = w.c[f]
  BY <1>1, <1>3 DEF Channels, Descriptors
<1>5. v.c = n /\ v.src = w.src /\ v.out = w.out
  BY <1>1, <1>2, <1>3 DEF SendEof, Worlds
<1>6. Tidy(e, c, n, w.src, w.out, exited)
  BY <1>3, <1>4, TidySame DEF TidyWorld
<1>. QED  BY <1>2, <1>4, <1>5, <1>6 DEF TidyWorld

\* The close handler touches neither descriptors nor pipes.
LEMMA RunCloseHandlerSame ==
    ASSUME NEW e \in End, NEW w, LiveWorld(e, w), NEW exited
    PROVE  LET v == RunCloseHandler(e, w, exited)
           IN  /\ v.src = w.src /\ v.out = w.out
               /\ \A g \in Descriptors : v.c[g] = w.c[g]
               /\ v.c.extra = w.c.extra /\ v.c.wbuf = w.c.wbuf
               /\ v.c.xbuf = w.c.xbuf /\ v.c.flushing = w.c.flushing
<1>1. PICK v : v = RunCloseHandler(e, w, exited)
  OBVIOUS
<1>2. w \in Worlds /\ w.c \in Channels
  BY WorldParts
<1>3. CASE w.c.close_handler_done \/ ~HasCloseHandler(e)
  <2>1. v = w
    BY <1>1, <1>3 DEF RunCloseHandler
  <2>. QED  BY <1>1, <2>1
<1>4. CASE ~(w.c.close_handler_done \/ ~HasCloseHandler(e))
  <2>1. PICK q : q = IF HasCheckClose(e) /\ exited
                     THEN Append(w.q, Msg("exit", 0)) ELSE w.q
    OBVIOUS
  <2>2. PICK n : n = [w.c EXCEPT !.close_handler_done = TRUE]
    OBVIOUS
  <2>3. v = [w EXCEPT !.q = q, !.c = n]
    BY <1>1, <1>2, <1>4, <2>1, <2>2 DEF RunCloseHandler, Worlds
  <2>4. v.src = w.src /\ v.out = w.out /\ v.c = n
    BY <1>2, <2>3 DEF Worlds
  <2>5. /\ \A g \in Descriptors : n[g] = w.c[g]
        /\ n.extra = w.c.extra /\ n.wbuf = w.c.wbuf
        /\ n.xbuf = w.c.xbuf /\ n.flushing = w.c.flushing
    BY <1>2, <2>2 DEF Channels, Descriptors
  <2>. QED  BY <1>1, <2>4, <2>5
<1>. QED  BY <1>3, <1>4

\* send_msg_channel_close() gives up what is left: in the end an errfd for
\* output, with nothing buffered.
LEMMA SendCloseTidy ==
    ASSUME NEW e \in End, NEW c \in Channels, NEW w, LiveWorld(e, w), NEW exited,
           NEW exits, TidyWorld(e, c, w, exits),
           w.c.readfd < 0, w.c.writefd < 0,
           w.c.errfd >= 0 => ErrIsWrite(w.c) /\ w.c.xbuf = 0
    PROVE  /\ TidyWorld(e, c, SendClose(e, w, exited), exits)
           /\ SendClose(e, w, exited).c.flushing = w.c.flushing
<1>. DEFINE w1 == RunCloseHandler(e, w, exited)
            c1 == Closed(w1.c)
            c2 == CloseChanFd(e, c1, c1.readfd, "RD")
            c3 == CloseChanFd(e, c2, c2.errfd, "RDWR")
            c4 == CloseChanFd(e, c3, c3.writefd, "WR")
<1>1. /\ LiveWorld(e, w1)
      /\ w1.src = w.src /\ w1.out = w.out
      /\ \A g \in Descriptors : w1.c[g] = w.c[g]
      /\ w1.c.extra = w.c.extra /\ w1.c.wbuf = w.c.wbuf
      /\ w1.c.xbuf = w.c.xbuf /\ w1.c.flushing = w.c.flushing
  BY RunCloseHandlerLive, RunCloseHandlerSame
<1>2. /\ w \in Worlds /\ w.c \in Channels /\ w.out \in Nat
      /\ w.c.wbuf \in Nat /\ w.c.xbuf \in Nat
      /\ w.c.readfd \in Int /\ w.c.writefd \in Int /\ w.c.errfd \in Int
  BY WorldParts, Fields
<1>. HIDE DEF w1
<1>3. w1 \in Worlds /\ w1.c \in Channels /\ Good(e, w1.c)
  BY <1>1, WorldParts
<1>4. /\ Good(e, c1) /\ c1 \in Channels
      /\ \A g \in Descriptors : c1[g] = w.c[g]
      /\ c1.extra = w.c.extra /\ c1.wbuf = w.c.wbuf
      /\ c1.xbuf = w.c.xbuf /\ c1.flushing = w.c.flushing
  <2>1. Good(e, c1)
    BY <1>3, ClosedGood
  <2>2. /\ \A g \in Descriptors : c1[g] = w1.c[g]
        /\ c1.extra = w1.c.extra /\ c1.wbuf = w1.c.wbuf
        /\ c1.xbuf = w1.c.xbuf /\ c1.flushing = w1.c.flushing
    BY <1>3 DEF Closed, Channels, Descriptors
  <2>. HIDE DEF c1
  <2>. QED  BY <1>1, <2>1, <2>2 DEF Good
<1>. HIDE DEF c1
<1>5. Tidy(e, c, c1, w.src, w.out, exits)
  BY <1>2, <1>4, TidySame DEF TidyWorld
<1>6. c1.readfd = w.c.readfd /\ c1.writefd = w.c.writefd /\ c1.errfd = w.c.errfd
  BY <1>4 DEF Descriptors
<1>7. /\ Good(e, c2) /\ c2 \in Channels /\ c2.wbuf = c1.wbuf /\ c2.xbuf = c1.xbuf
      /\ c2.extra = c1.extra /\ c2.flushing = c1.flushing
      /\ c2.readfd = c1.readfd \/ c2.readfd < 0
      /\ c2.writefd = c1.writefd \/ c2.writefd < 0
      /\ c2.errfd = c1.errfd \/ c2.errfd < 0
  BY <1>4, CloseFd, CloseFdKeeps DEF Good
<1>8. Tidy(e, c, c2, w.src, w.out, exits)
  <2>1. PICK g : g = "readfd"
    OBVIOUS
  <2>2. g \in Descriptors /\ c2 = CloseChanFd(e, c1, c1[g], "RD") /\ ~(c1[g] >= 0)
    BY <1>2, <1>6, <2>1 DEF Descriptors
  <2>. HIDE DEF c2
  <2>. QED  BY <1>2, <1>4, <1>5, <2>1, <2>2, TidyClose
<1>. HIDE DEF c2
<1>9. /\ Good(e, c3) /\ c3 \in Channels /\ c3.flushing = c2.flushing
      /\ c3.writefd = c2.writefd \/ c3.writefd < 0
  BY <1>7, CloseFd, CloseFdKeeps DEF Good
<1>10. Tidy(e, c, c3, w.src, w.out, exits)
  <2>1. PICK g : g = "errfd"
    OBVIOUS
  <2>2. g \in Descriptors /\ c3 = CloseChanFd(e, c2, c2[g], "RDWR")
    BY <2>1 DEF Descriptors
  <2>3. c2[g] >= 0 => ErrIsWrite(c2) /\ ~ErrIsRead(c2) /\ c2.xbuf = 0
    <3>1. c2.errfd \in Int /\ w.c.errfd \in Int
      BY <1>2, <1>7, Fields
    <3>2. c2.errfd >= 0 => w.c.errfd >= 0
      BY <1>6, <1>7, <3>1
    <3>. QED  BY <1>4, <1>7, <2>1, <3>2 DEF ErrIsWrite, ErrIsRead
  <2>. HIDE DEF c3
  <2>. QED  BY <1>2, <1>7, <1>8, <2>1, <2>2, <2>3, TidyClose
<1>. HIDE DEF c3
<1>11. c4.flushing = c3.flushing
  BY <1>9, CloseFdKeeps
<1>12. Tidy(e, c, c4, w.src, w.out, exits)
  <2>1. PICK g : g = "writefd"
    OBVIOUS
  <2>2. g \in Descriptors /\ c4 = CloseChanFd(e, c3, c3[g], "WR")
    BY <2>1 DEF Descriptors
  <2>3. ~(c3[g] >= 0)
    <3>1. c3.writefd < 0
      BY <1>6, <1>7, <1>9
    <3>2. c3.writefd \in Int
      BY <1>9, Fields
    <3>. QED  BY <2>1, <3>1, <3>2
  <2>. HIDE DEF c4
  <2>. QED  BY <1>2, <1>9, <1>10, <2>1, <2>2, <2>3, TidyClose
<1>. HIDE DEF c4
<1>13. PICK v, m : v = SendClose(e, w, exited) /\ m = Msg("close", 0)
  OBVIOUS
<1>14. v = [w1 EXCEPT !.q = Append(@, m), !.c = c4]
  BY <1>13 DEF SendClose, w1, c1, c2, c3, c4
<1>15. v.c = c4 /\ v.src = w.src /\ v.out = w.out
  BY <1>1, <1>3, <1>14 DEF Worlds
<1>. QED  BY <1>4, <1>7, <1>9, <1>11, <1>12, <1>13, <1>15 DEF TidyWorld

\* What remove_channel() leaves, with or without a CLOSE before it
LEMMA Removed ==
    ASSUME NEW e \in End, NEW w, LiveWorld(e, w), NEW exited
    PROVE  LET w5 == IF w.c.sent_close THEN w ELSE SendClose(e, w, exited)
               v == RemoveChannel(e, w5, exited)
           IN  v.c = NoChannel /\ v.src = w.src /\ v.out = w.out
<1>. DEFINE w5 == IF w.c.sent_close THEN w ELSE SendClose(e, w, exited)
            w6 == RunCloseHandler(e, w5, exited)
<1>1. LiveWorld(e, w5)
  BY SendCloseLive
<1>2. w5.src = w.src /\ w5.out = w.out
  <2>1. PICK v : v = SendClose(e, w, exited)
    OBVIOUS
  <2>2. PICK u : u = RunCloseHandler(e, w, exited)
    OBVIOUS
  <2>3. PICK q, n : v = [u EXCEPT !.q = q, !.c = n]
    BY <2>1, <2>2 DEF SendClose
  <2>4. u \in Worlds /\ u.src = w.src /\ u.out = w.out
    BY <2>2, RunCloseHandlerLive, RunCloseHandlerSame, WorldParts
  <2>5. v.src = w.src /\ v.out = w.out
    BY <2>3, <2>4 DEF Worlds
  <2>. QED  BY <2>1, <2>5
<1>. HIDE DEF w5
<1>3. w6.src = w5.src /\ w6.out = w5.out /\ w6 \in Worlds
  BY <1>1, RunCloseHandlerSame, RunCloseHandlerLive, WorldParts
<1>4. RemoveChannel(e, w5, exited) = [w6 EXCEPT !.c = NoChannel]
  BY DEF RemoveChannel
<1>. HIDE DEF w6
<1>5. PICK v : v = [w6 EXCEPT !.c = NoChannel]
  OBVIOUS
<1>6. v.c = NoChannel /\ v.src = w6.src /\ v.out = w6.out
  BY <1>3, <1>5 DEF Worlds
<1>. QED  BY <1>2, <1>3, <1>4, <1>5, <1>6 DEF w5

\* What check_close() leaves of an end whose channel was c
Ends(e, c, v, exited) ==
    /\ v.c = NoChannel => c.recv_close
    /\ v.c # NoChannel => Apart(e, v.c) /\ Emptied(c, v.c, v.src)
    /\ WroteOut(e, c, v.c, v.out, exited)

LEMMA TidyEnds ==
    ASSUME NEW e \in End, NEW c, NEW w, LiveWorld(e, w), NEW exited,
           TidyWorld(e, c, w, exited)
    PROVE  Ends(e, c, w, exited)
BY WorldParts DEF TidyWorld, Tidy, Ends

\* check_close() gives up what is written to when it has been written out, or
\* the child of a session has exited, and what is read only when it is
\* flushing, or when the peer has closed the channel.
LEMMA CheckCloseTidy ==
    ASSUME NEW e \in End, NEW c \in Channels, NEW w, Speaks(e, c, w),
           NEW exited1 \in BOOLEAN, NEW exited2 \in BOOLEAN,
           TidyWorld(e, c, w, exited2)
    PROVE  LET v == CheckClose(e, w, exited1, exited2)
           IN  /\ Ends(e, c, v, exited2)
               /\ ~c.recv_close /\ GivenUp(w.c, v.c, "readfd") =>
                    v.c # NoChannel /\ v.c.flushing
<1>. DEFINE flushing == \/ w.c.flushing
                        \/ ~w.c.close_handler_done /\ HasCheckClose(e) /\ exited1
            allowed == CloseAllowed(e, w.c, exited2)
            w1 == [w EXCEPT !.c.flushing = flushing]
            w2 == IF \/ w1.c.recv_eof /\ ~WritePending(w1.c)
                     \/ HasCheckClose(e) /\ allowed
                  THEN [w1 EXCEPT !.c = CloseChanFd(e, @, @.writefd, "WR")] ELSE w1
            w3 == Flush(e, w2)
            w4 == IF ~w3.c.sent_eof /\ NothingMoreToSend(w3.c)
                  THEN SendEof(w3) ELSE w3
            w5 == IF w1.c.sent_close THEN w1 ELSE SendClose(e, w1, exited2)
            v == CheckClose(e, w, exited1, exited2)
<1>1. /\ w \in Worlds /\ w.c \in Channels /\ LiveWorld(e, w) /\ w.out \in Nat
      /\ Kept(e, c, w.c, w.q)
  BY WorldParts DEF Speaks
<1>2. flushing \in BOOLEAN
  BY <1>1 DEF Channels
<1>3. /\ Speaks(e, c, w1) /\ w1.c \in Channels /\ w1.c.flushing = flushing
      /\ w1.src = w.src /\ w1.out = w.out
      /\ \A f \in Descriptors : w1.c[f] = w.c[f]
      /\ w1.c.extra = w.c.extra /\ w1.c.wbuf = w.c.wbuf /\ w1.c.xbuf = w.c.xbuf
      /\ w1.c.close_handler_done = w.c.close_handler_done
      /\ w1.c.sent_close = w.c.sent_close /\ w1.c.recv_close = w.c.recv_close
  <2>1. Speaks(e, c, w1)
    <3>. HIDE DEF flushing
    <3>. QED  BY <1>2, FlushingSpeaks
  <2>2. PICK n : n = [w.c EXCEPT !.flushing = flushing]
    OBVIOUS
  <2>3. w1.c = n /\ w1.src = w.src /\ w1.out = w.out
    <3>. HIDE DEF flushing
    <3>. QED  BY <1>1, <2>2 DEF Worlds
  <2>4. /\ n.flushing = flushing
        /\ \A f \in Descriptors : n[f] = w.c[f]
        /\ n.extra = w.c.extra /\ n.wbuf = w.c.wbuf /\ n.xbuf = w.c.xbuf
        /\ n.close_handler_done = w.c.close_handler_done
        /\ n.sent_close = w.c.sent_close /\ n.recv_close = w.c.recv_close
    <3>. HIDE DEF flushing
    <3>. QED  BY <1>1, <2>2 DEF Channels, Descriptors
  <2>. HIDE DEF w1
  <2>5. w1.c \in Channels
    BY <2>1, WorldParts DEF Speaks
  <2>. QED  BY <2>1, <2>3, <2>4, <2>5
<1>. HIDE DEF w1
<1>4. TidyWorld(e, c, w1, exited2)
  <2>1. Tidy(e, c, w1.c, w.src, w.out, exited2)
    BY <1>1, <1>3, TidySame DEF TidyWorld
  <2>. QED  BY <1>3, <2>1 DEF TidyWorld
<1>5. LiveWorld(e, w1) /\ w1 \in Worlds /\ Good(e, w1.c) /\ FdOK(e, w1.c)
      /\ w1.out \in Nat
  BY <1>3, WorldParts DEF Speaks, Kept
<1>6. allowed => ~HasCheckClose(e) \/ exited2 \/ w1.c.writefd < 0
  BY <1>3, <1>5 DEF CloseAllowed, FdOK
<1>7. /\ w1.c.readfd \in Int /\ w1.c.writefd \in Int /\ w1.c.errfd \in Int
      /\ w1.c.wbuf \in Nat /\ w1.c.xbuf \in Nat
      /\ w1.c.readfd = w.c.readfd
  BY <1>3, Fields DEF Descriptors
<1>8. ~WritePending(w1.c) =>
        /\ w1.c.writefd >= 0 => w1.c.wbuf = 0
        /\ w1.c.errfd >= 0 /\ ErrIsWrite(w1.c) => w1.c.xbuf = 0
  BY <1>7 DEF WritePending, ErrIsWrite
<1>9. /\ Speaks(e, c, w2) /\ TidyWorld(e, c, w2, exited2)
      /\ w2.c.flushing = w1.c.flushing
      /\ w1.c.readfd >= 0 => w2.c.readfd = w1.c.readfd
  <2>1. CASE w2 = w1
    BY <1>3, <1>4, <2>1
  <2>2. CASE /\ w2 = [w1 EXCEPT !.c = CloseChanFd(e, w1.c, w1.c.writefd, "WR")]
             /\ \/ w1.c.recv_eof /\ ~WritePending(w1.c)
                \/ HasCheckClose(e) /\ allowed
    <3>. HIDE DEF w2, allowed
    <3>1. Speaks(e, c, w2)
      BY <1>3, <2>2, FdClosedSpeaks
    <3>2. PICK d : d = CloseChanFd(e, w1.c, w1.c.writefd, "WR")
      OBVIOUS
    <3>3. w2.c = d /\ w2.src = w1.src /\ w2.out = w1.out
      BY <1>5, <2>2, <3>2 DEF Worlds
    <3>4. PICK g : g = "writefd"
      OBVIOUS
    <3>5. /\ g \in Descriptors /\ d = CloseChanFd(e, w1.c, w1.c[g], "WR")
          /\ w1.c[g] >= 0 => w1.c.wbuf = 0 \/ (HasCheckClose(e) /\ exited2)
      <4>1. w1.c.writefd < 0 => ~(w1.c.writefd >= 0)
        BY <1>7
      <4>. QED  BY <1>6, <1>8, <2>2, <3>2, <3>4, <4>1 DEF Descriptors
    <3>6. Tidy(e, c, d, w1.src, w1.out, exited2)
      BY <1>4, <1>5, <3>4, <3>5, TidyClose DEF TidyWorld
    <3>7. d.flushing = w1.c.flushing
      <4>1. PICK x, fd : x = w1.c /\ fd = w1.c.writefd
        OBVIOUS
      <4>2. x \in Channels /\ d = CloseChanFd(e, x, fd, "WR")
        BY <1>3, <3>2, <4>1
      <4>3. d.flushing = x.flushing
        BY <4>2, CloseFdKeeps
      <4>. QED  BY <4>1, <4>3
    <3>8. Apart(e, w1.c)
      BY <1>4 DEF TidyWorld, Tidy
    <3>9. \A f \in Descriptors : f # g /\ w1.c[f] >= 0 => d[f] = w1.c[f]
      BY <1>3, <3>4, <3>5, <3>8, CloseApart
    <3>10. w1.c.readfd >= 0 => d.readfd = w1.c.readfd
      BY <3>4, <3>9 DEF Descriptors
    <3>. QED  BY <3>1, <3>3, <3>6, <3>7, <3>10 DEF TidyWorld
  <2>. QED  BY <2>1, <2>2
<1>. HIDE DEF w2
<1>10. /\ Speaks(e, c, w3) /\ TidyWorld(e, c, w3, exited2)
       /\ w3.c.flushing = w2.c.flushing
       /\ ~w2.c.flushing => w3 = w2
  <2>1. Speaks(e, c, w3)
    BY <1>9, FlushSpeaks
  <2>2. /\ TidyWorld(e, c, w3, exited2) /\ w3.c.flushing = w2.c.flushing
    BY <1>9, FlushTidy DEF Speaks
  <2>3. ~w2.c.flushing => w3 = w2
    BY DEF Flush
  <2>. QED  BY <2>1, <2>2, <2>3
<1>. HIDE DEF w3
<1>11. /\ Speaks(e, c, w4) /\ TidyWorld(e, c, w4, exited2)
       /\ w4.c.flushing = w3.c.flushing /\ w4.c.readfd = w3.c.readfd
  <2>1. Speaks(e, c, w4)
    BY <1>10, SendEofSpeaks
  <2>2. /\ TidyWorld(e, c, SendEof(w3), exited2)
        /\ SendEof(w3).c.flushing = w3.c.flushing
    BY <1>10, SendEofTidy DEF Speaks
  <2>3. SendEof(w3).c.readfd = w3.c.readfd
    <3>1. w3 \in Worlds /\ w3.c \in Channels
      BY <1>10, WorldParts DEF Speaks
    <3>. QED  BY <3>1 DEF SendEof, Worlds, Channels
  <2>. QED  BY <1>10, <2>1, <2>2, <2>3
<1>. HIDE DEF w4
<1>12. v = IF MayRemove(w1.c, allowed)
           THEN RemoveChannel(e, w5, exited2)
           ELSE IF /\ NothingMoreToSend(w4.c) /\ w4.c.writefd = FD_CLOSED
                   /\ ~w4.c.sent_close /\ allowed /\ ~WritePending(w4.c)
           THEN SendClose(e, w4, exited2)
           ELSE w4
  BY DEF CheckClose, w1, w2, w3, w4
<1>13. LiveWorld(e, w4) /\ w4.c \in Channels /\ w4.c # NoChannel
  BY <1>11, WorldParts DEF Speaks
<1>14. w.c.readfd >= 0 => w4.c.readfd = w.c.readfd \/ w4.c.flushing
  BY <1>3, <1>7, <1>9, <1>10, <1>11, <1>13 DEF Channels
<1>. HIDE DEF allowed, v
<1>15. CASE MayRemove(w1.c, allowed)
  <2>1. v.c = NoChannel /\ v.src = w1.src /\ v.out = w1.out
    BY <1>5, <1>12, <1>15, Removed
  <2>2. c.recv_close
    BY <1>1, <1>3, <1>15 DEF MayRemove, Kept
  <2>3. WroteOut(e, c, w1.c, w1.out, exited2)
        /\ w1.out + w1.c.wbuf >= c.wbuf /\ w1.out + w1.c.xbuf >= c.xbuf
        /\ w1.c.extra = c.extra
    BY <1>4 DEF TidyWorld, Tidy
  <2>4. /\ w1.c.writefd >= 0 => w1.c.wbuf = 0
        /\ w1.c.errfd >= 0 /\ ErrIsWrite(w1.c) => w1.c.xbuf = 0
    BY <1>8, <1>15 DEF MayRemove
  <2>5. c.wbuf \in Nat /\ c.xbuf \in Nat /\ c # NoChannel /\ w1.c # NoChannel
    BY <1>3, Fields
  <2>6. (w1.c.wbuf = 0 => w1.out >= c.wbuf) /\ (w1.c.xbuf = 0 => w1.out >= c.xbuf)
    BY <1>5, <2>3, <2>5
  <2>7. c.writefd >= 0 =>
          w1.out >= c.wbuf \/ "w" \in broken[e] \/ (HasCheckClose(e) /\ exited2)
    <3>1. CASE w1.c.writefd = c.writefd
      BY <2>4, <2>6, <3>1
    <3>2. CASE w1.c.writefd # c.writefd
      BY <2>3, <3>2 DEF WroteOut, GivenUp
    <3>. QED  BY <3>1, <3>2
  <2>8. c.errfd >= 0 /\ ErrIsWrite(c) => w1.out >= c.xbuf \/ "x" \in broken[e]
    <3>1. CASE w1.c.errfd = c.errfd
      BY <2>3, <2>4, <2>6, <3>1 DEF ErrIsWrite
    <3>2. CASE w1.c.errfd # c.errfd
      BY <2>3, <3>2 DEF WroteOut, GivenUp
    <3>. QED  BY <3>1, <3>2
  <2>9. Ends(e, c, v, exited2)
    BY <2>1, <2>2, <2>7, <2>8 DEF Ends, WroteOut, GivenUp
  <2>. QED  BY <2>2, <2>9 DEF v
<1>16. CASE v = w4 /\ ~MayRemove(w1.c, allowed)
  <2>1. Ends(e, c, v, exited2)
    BY <1>11, <1>13, <1>16, TidyEnds
  <2>2. GivenUp(w.c, v.c, "readfd") => v.c # NoChannel /\ v.c.flushing
    BY <1>13, <1>14, <1>16 DEF GivenUp
  <2>. QED  BY <2>1, <2>2 DEF v
<1>17. CASE /\ v = SendClose(e, w4, exited2)
            /\ NothingMoreToSend(w4.c) /\ w4.c.writefd = FD_CLOSED
            /\ ~WritePending(w4.c)
  <2>1. /\ w4.c.readfd < 0 /\ w4.c.writefd < 0 /\ ~(w4.c.readfd >= 0)
        /\ w4.c.errfd >= 0 => ErrIsWrite(w4.c) /\ w4.c.xbuf = 0
    <3>1. w4.c.errfd \in Int /\ w4.c.xbuf \in Nat
      BY <1>13, Fields
    <3>2. w4.c.readfd = -1 /\ w4.c.writefd = -1
          /\ (ErrIsWrite(w4.c) \/ w4.c.errfd = -1)
      BY <1>17 DEF NothingMoreToSend, FD_CLOSED
    <3>3. w4.c.errfd >= 0 => ErrIsWrite(w4.c)
      BY <3>1, <3>2
    <3>4. w4.c.errfd >= 0 => w4.c.xbuf = 0
      BY <1>17, <3>1, <3>3 DEF WritePending, ErrIsWrite
    <3>. QED  BY <3>2, <3>3, <3>4
  <2>2. TidyWorld(e, c, v, exited2) /\ v.c.flushing = w4.c.flushing
    BY <1>11, <1>13, <1>17, <2>1, SendCloseTidy
  <2>3. LiveWorld(e, v) /\ v.c # NoChannel
    BY <1>13, <1>17, SendCloseLive, WorldParts
  <2>4. Ends(e, c, v, exited2)
    BY <2>2, <2>3, TidyEnds
  <2>5. GivenUp(w.c, v.c, "readfd") => v.c.flushing
    BY <1>14, <2>1, <2>2 DEF GivenUp
  <2>. QED  BY <2>3, <2>4, <2>5 DEF v
<1>. QED  BY <1>12, <1>15, <1>16, <1>17
---------------------------------------------------------------------------
(* Steps that give nothing up which is still needed *)

AInv ==
    /\ OInv
    /\ \A e \in OwnEnd : Live(e) /\ ~ch[e].await_open => Apart(e, ch[e])

\* A step gives up nothing at end e that is still needed: all that HalfClose,
\* OutputFlushed and InputDrained say of one end.
Safe(e) ==
    /\ Live(e)' /\ ~ch'[e].await_open => Apart(e, ch'[e])
    /\ Halved(e) /\ Flushed(e) /\ Drained(e)
Careful(e) == e \in OwnEnd => Safe(e)

\* An end whose channel is as it was
LEMMA UntouchedCareful ==
    ASSUME AInv, NEW e \in End, ch'[e] = ch[e]
    PROVE  Careful(e)
<1>. SUFFICES ASSUME e \in OwnEnd PROVE Safe(e)
  BY DEF Careful
<1>1. \A f : ~ClosesFd(e, f)
  BY DEF ClosesFd, Live
<1>2. Live(e)' /\ ~ch'[e].await_open => Apart(e, ch'[e])
  BY DEF AInv, Live
<1>. QED  BY <1>1, <1>2 DEF Safe, Halved, Flushed, Drained

\* Or has the same descriptors
LEMMA SameFdsCareful ==
    ASSUME AInv, NEW e \in End, Live(e), ch'[e] # NoChannel,
           \A f \in Descriptors : ch'[e][f] = ch[e][f],
           ch'[e].await_open = ch[e].await_open
    PROVE  Careful(e)
<1>. SUFFICES ASSUME e \in OwnEnd PROVE Safe(e)
  BY DEF Careful
<1>1. /\ ch'[e].readfd = ch[e].readfd /\ ch'[e].writefd = ch[e].writefd
      /\ ch'[e].errfd = ch[e].errfd
  BY DEF Descriptors
<1>2. /\ ~ClosesFd(e, "readfd") /\ ~ClosesFd(e, "writefd") /\ ~ClosesFd(e, "errfd")
  BY <1>1 DEF ClosesFd
<1>3. Live(e)' /\ ~ch'[e].await_open => Apart(e, ch'[e])
  BY <1>1 DEF AInv, Apart
<1>. QED  BY <1>2, <1>3 DEF Safe, Halved, Flushed, Drained

\* What Done() does to pipes and output
LEMMA DoneOutput ==
    ASSUME IInv, NEW e \in End, NEW w, NEW rest, NEW next, Done(e, w, rest, next),
           w.out \in Nat
    PROVE  src'[e] = w.src /\ delivered'[e] - delivered[e] = w.out
<1>1. DOMAIN src = End /\ DOMAIN delivered = End /\ delivered[e] \in Nat
  BY DEF IInv, TypeOK
<1>2. src'[e] = w.src /\ delivered'[e] = delivered[e] + w.out
  BY <1>1 DEF Done
<1>. QED  BY <1>1, <1>2

\* check_close() at the end of a handler or of channelio()
LEMMA EndsCareful ==
    ASSUME AInv, NEW e \in End, Live(e), NEW c,
           \A f \in Descriptors : c[f] = ch[e][f],
           c.extra = ch[e].extra, c.wbuf = ch[e].wbuf, c.xbuf = ch[e].xbuf,
           NEW w, NEW rest, NEW next, Done(e, w, rest, next), w.out \in Nat,
           NEW exited, Ends(e, c, w, exited), exited => child' = "exited",
           c.recv_close => ch[e].recv_close \/ Reading(e, "close"),
           Reading(e, "eof") /\ GivenUp(c, w.c, "readfd") =>
             w.c # NoChannel /\ w.c.flushing
    PROVE  Careful(e)
<1>1. /\ ch'[e] = w.c /\ src'[e] = w.src /\ delivered'[e] - delivered[e] = w.out
  BY DoneFacts, DoneOutput DEF AInv, OInv
<1>2. \A f \in Descriptors : ClosesFd(e, f) <=> GivenUp(c, w.c, f)
  BY <1>1 DEF ClosesFd, GivenUp
<1>3. Live(e)' /\ ~ch'[e].await_open => Apart(e, ch'[e])
  BY <1>1 DEF Ends, Live
<1>4. Halved(e)
  BY <1>1, <1>2 DEF Halved, Live, Descriptors
<1>5. Flushed(e)
  <2>. SUFFICES ASSUME ~ch[e].recv_close, ~Reading(e, "close")
                PROVE  /\ ClosesFd(e, "readfd") => src'[e].buf = 0
                       /\ ClosesFd(e, "errfd") /\ ErrIsRead(ch[e]) => src'[e].ebuf = 0
    BY DEF Flushed
  <2>1. Emptied(c, w.c, w.src)
    BY DEF Ends
  <2>. QED  BY <1>1, <1>2, <2>1 DEF Emptied, ErrIsRead, Descriptors
<1>6. Drained(e)
  <2>1. WroteOut(e, c, w.c, w.out, exited)
    BY DEF Ends
  <2>2. ClosesFd(e, "writefd") =>
           \/ delivered'[e] - delivered[e] >= ch[e].wbuf
           \/ "w" \in broken[e]
           \/ HasCheckClose(e) /\ child' = "exited"
    BY <1>1, <1>2, <2>1 DEF WroteOut, Descriptors
  <2>3. ClosesFd(e, "errfd") /\ ErrIsWrite(ch[e]) =>
           \/ delivered'[e] - delivered[e] >= ch[e].xbuf
           \/ "x" \in broken[e]
    BY <1>1, <1>2, <2>1 DEF WroteOut, ErrIsWrite, Descriptors
  <2>. QED  BY <2>2, <2>3 DEF Drained
<1>. QED  BY <1>3, <1>4, <1>5, <1>6 DEF Careful, Safe

\* The other end is not touched.
LEMMA ActorCareful ==
    ASSUME AInv, NEW e \in End, Careful(e), ch'[Peer(e)] = ch[Peer(e)]
    PROVE  \A d \in End : Careful(d)
BY UntouchedCareful, TwoEnds

\* A channel that ends one direction of its socket is apart if it is in order.
LEMMA SepApart ==
    ASSUME OInv', NEW e \in End, SepFds(e)
    PROVE  Live(e)' => Apart(e, ch'[e])
<1>1. Live(e)' => FdOK(e, ch'[e])
  BY DEF OInv
<1>. QED  BY <1>1 DEF FdOK, Apart

\* A step that leaves both channels alone
LEMMA StillCareful ==
    ASSUME AInv, UNCHANGED ch
    PROVE  \A d \in End : Careful(d)
BY UntouchedCareful

\* A handler that gives no descriptor up
LEMMA QuietCareful ==
    ASSUME AInv, NEW e \in End, Live(e), NEW w, NEW rest, NEW next,
           Done(e, w, rest, next), w.c # NoChannel,
           \A f \in Descriptors : w.c[f] = ch[e][f],
           w.c.await_open = ch[e].await_open
    PROVE  \A d \in End : Careful(d)
<1>1. ch'[e] = w.c /\ ch'[Peer(e)] = ch[Peer(e)]
  BY DoneFacts DEF AInv, OInv
<1>2. Careful(e)
  BY <1>1, SameFdsCareful
<1>. QED  BY <1>1, <1>2, ActorCareful

LEMMA RecvDataCareful ==
    ASSUME AInv, NEW e \in End, NEW type \in {"data", "ext"}, RecvData(e, type)
    PROVE  \A d \in End : Careful(d)
<1>1. Live(e) /\ OInv
  BY DEF RecvData, PacketFor, AInv, Live
<1>2. CASE \E why : Exit(e, why)
  BY <1>2, StillCareful DEF Exit
<1>3. CASE ~\E why : Exit(e, why)
  <2>1. PICK w, rest :
          /\ Done(e, w, rest, "io") /\ w.c # NoChannel
          /\ w.c.await_open = ch[e].await_open /\ \A f \in Descriptors : w.c[f] = ch[e][f]
    BY <1>1, <1>3, RecvDataReads DEF Processed, Descriptors
  <2>. QED  BY <1>1, <2>1, QuietCareful
<1>. QED  BY <1>2, <1>3

LEMMA RecvAdjustCareful ==
    ASSUME AInv, NEW e \in End, RecvAdjust(e) PROVE \A d \in End : Careful(d)
<1>1. PICK w, rest :
        /\ Done(e, w, rest, "io") /\ w.c # NoChannel
        /\ \A g \in DOMAIN ch[e] \ {"transwindow"} : w.c[g] = ch[e][g]
  BY RecvAdjustReads DEF Processed, AInv
<1>2. ch[e] \in Channels /\ Live(e)
  BY RecvAdjustReads DEF AInv
<1>3. w.c.await_open = ch[e].await_open /\ \A f \in Descriptors : w.c[f] = ch[e][f]
  BY <1>1, <1>2 DEF Channels, Descriptors
<1>. QED  BY <1>1, <1>2, <1>3, QuietCareful

\* The handlers of a window change and of an exit status, and the client's
\* request for a window change
LEMMA RequestReads ==
    ASSUME RecvWindowChange \/ RecvExitStatus \/ WindowChange
    PROVE  \E e, w, rest, next :
             /\ e \in End /\ w.c = ch[e] /\ ch[e] # NoChannel /\ Done(e, w, rest, next)
             /\ UNCHANGED <<child, sigp>>
<1>1. /\ World("A").c = ch["A"] /\ World("I").c = ch["I"]
      /\ [World("I") EXCEPT !.q = <<Msg("winch", 0)>>].c = ch["I"]
  BY DEF World
<1>2. CASE RecvWindowChange
  <2>1. /\ Done("A", World("A"), Tail(net["A"]), "io") /\ ch["A"] # NoChannel
        /\ UNCHANGED <<child, sigp>>
    BY <1>2 DEF RecvWindowChange, PacketFor, Processed, env
  <2>. QED  BY <1>1, <2>1, TwoEnds
<1>3. CASE RecvExitStatus
  <2>1. /\ Done("I", World("I"), Tail(net["I"]), "io") /\ ch["I"] # NoChannel
        /\ UNCHANGED <<child, sigp>>
    BY <1>3 DEF RecvExitStatus, PacketFor, Processed, env
  <2>. QED  BY <1>1, <2>1, TwoEnds
<1>4. CASE WindowChange
  <2>1. /\ Done("I", [World("I") EXCEPT !.q = <<Msg("winch", 0)>>], net["I"], "select")
        /\ ch["I"] # NoChannel /\ UNCHANGED <<child, sigp>>
    BY <1>4 DEF WindowChange, env
  <2>. QED  BY <1>1, <2>1, TwoEnds
<1>. QED  BY <1>2, <1>3, <1>4

LEMMA RequestCareful ==
    ASSUME AInv, RecvWindowChange \/ RecvExitStatus \/ WindowChange
    PROVE  \A d \in End : Careful(d)
BY RequestReads, QuietCareful DEF Live

\* The steps that open a channel find nothing that could be lost.
LEMMA OpeningCareful ==
    ASSUME AInv, NEW e \in End, NEW w, NEW rest, NEW next, Done(e, w, rest, next),
           w.out \in Nat, ~Reading(e, "eof"),
           Live(e) =>
             /\ ch[e].wbuf = 0 \/ ch[e].writefd < 0
             /\ ~ch[e].extra \/ ch[e].errfd < 0
             /\ ch[e].await_open \/ (ch[e].readfd < 0 /\ ch[e].errfd < 0),
           e \in OwnEnd /\ w.c # NoChannel /\ ~w.c.await_open => Apart(e, w.c)
    PROVE  \A d \in End : Careful(d)
<1>1. /\ ch'[e] = w.c /\ ch'[Peer(e)] = ch[Peer(e)]
      /\ delivered'[e] - delivered[e] = w.out
  BY DoneFacts, DoneOutput DEF AInv, OInv
<1>2. Live(e) =>
        /\ ch[e].readfd < 0 => ~(ch[e].readfd >= 0)
        /\ ch[e].writefd < 0 => ~(ch[e].writefd >= 0)
        /\ ch[e].errfd < 0 => ~(ch[e].errfd >= 0)
  <2>. SUFFICES ASSUME Live(e)
                PROVE  /\ ch[e].readfd < 0 => ~(ch[e].readfd >= 0)
                       /\ ch[e].writefd < 0 => ~(ch[e].writefd >= 0)
                       /\ ch[e].errfd < 0 => ~(ch[e].errfd >= 0)
    OBVIOUS
  <2>1. PICK c : c = ch[e]
    OBVIOUS
  <2>2. c \in Channels
    BY <2>1 DEF AInv, OInv, IInv, Good, Live
  <2>3. c.readfd \in Int /\ c.writefd \in Int /\ c.errfd \in Int
    BY <2>2, Fields
  <2>. QED  BY <2>1, <2>3
<1>3. e \in OwnEnd /\ Live(e)' /\ ~ch'[e].await_open => Apart(e, ch'[e])
  BY <1>1 DEF Live
<1>4. Halved(e)
  BY DEF Halved
<1>5. Flushed(e)
  BY <1>2 DEF Flushed, ClosesFd
<1>6. Drained(e)
  <2>1. ch[e].wbuf = 0 => delivered'[e] - delivered[e] >= ch[e].wbuf
    BY <1>1
  <2>. QED  BY <1>2, <2>1 DEF Drained, ClosesFd, ErrIsWrite
<1>7. Careful(e)
  BY <1>3, <1>4, <1>5, <1>6 DEF Careful, Safe
<1>. QED  BY <1>1, <1>7, ActorCareful

LEMMA SendOpenCareful == ASSUME AInv, SendOpen PROVE \A d \in End : Careful(d)
<1> DEFINE fd == IF TypeI = "stdpipes" THEN STDIN ELSE SOCKFD
           c0 == InitWriteBuf("I", NewChannel(0))
           c  == [c0 EXCEPT !.readfd = fd, !.writefd = fd, !.await_open = TRUE]
<1>1. ~Live("I") /\ pc["I"] = "select" /\ "I" \in End
  BY TwoEnds DEF AInv, OInv, Opening, SendOpen
<1>2. PICK w : w = [World("I") EXCEPT !.c = c, !.q = <<Msg("open", RecvWindow["I"])>>]
  OBVIOUS
<1>3. PICK rest : rest = net["I"]
  OBVIOUS
<1>4. Done("I", w, rest, "select")
  BY <1>2, <1>3 DEF SendOpen
<1>5. w.c.await_open /\ w.out \in Nat
  <2>1. w.c = c /\ w.out = 0
    BY <1>2 DEF World
  <2>2. c.await_open
    BY DEF InitWriteBuf, NewChannel
  <2>. QED  BY <2>1, <2>2
<1>6. ~Reading("I", "eof")
  BY <1>1 DEF Reading
<1>. QED  BY <1>1, <1>4, <1>5, <1>6, OpeningCareful

\* An accepting end is apart once its channel is there.
LEMMA RecvOpenCareful ==
    ASSUME AInv, RecvOpen PROVE \A d \in End : Careful(d)
<1> DEFINE new == NewChannel(MinOf(Head(net["A"]).n, TransMaxWindow))
           c == InitHandler(new)
           w1 == [World("A") EXCEPT !.q = <<Msg("failure", 0)>>]
           w2 == [World("A") EXCEPT !.c = c]
           w3 == [World("A") EXCEPT !.c = InitWriteBuf("A", c), !.bad = ~InitWriteBufOk(c),
                           !.q = <<Msg("confirm", RecvWindow["A"])>>]
<1>o. IInv /\ Opening
  BY DEF AInv, OInv
<1>1. /\ "A" \in End /\ pc["A"] = "packet" /\ Head(net["A"]).t = "open"
      /\ net["A"] \in Seq(Message) /\ net["A"] # <<>> /\ Ordered(net["A"])
  BY <1>o, TwoEnds DEF RecvOpen, Packet, IInv, TypeOK, AInv, OInv, Link
<1>2. ~Live("A")
  <2>1. "open" \in Types(net["A"])
    BY <1>1, OrderTaken
  <2>. QED  BY <1>o, <2>1 DEF Opening
<1>3. PICK w, rest :
        /\ Done("A", w, rest, "io") /\ w.out = 0
        /\ w.c \in {NoChannel, c, InitWriteBuf("A", c)}
  <2>1. \/ Processed("A", w1) \/ Processed("A", w2) \/ Processed("A", w3)
    BY DEF RecvOpen
  <2>2. /\ w1.c = NoChannel /\ w2.c = c /\ w3.c = InitWriteBuf("A", c)
        /\ w1.out = 0 /\ w2.out = 0 /\ w3.out = 0
    BY <1>2 DEF World, Live
  <2>3. PICK r : r = Tail(net["A"])
    OBVIOUS
  <2>4. Done("A", w1, r, "io") \/ Done("A", w2, r, "io") \/ Done("A", w3, r, "io")
    BY <2>1, <2>3 DEF Processed
  <2> HIDE DEF w1, w2, w3, c
  <2>. QED  BY <2>2, <2>4
<1>4. ~Reading("A", "eof")
  BY <1>1 DEF Reading
<1>5. "A" \in OwnEnd /\ w.c # NoChannel => Apart("A", w.c)
  <2>1. CASE SepFds("A")
    <3>1. OInv'
      BY RecvOpenOrder DEF AInv
    <3>2. ch'["A"] = w.c
      BY <1>o, <1>1, <1>3, DoneFacts
    <3>3. Live("A")' => Apart("A", ch'["A"])
      BY <1>1, <2>1, <3>1, SepApart
    <3>. QED  BY <3>2, <3>3 DEF Live
  <2>2. ASSUME ~SepFds("A"), "A" \in OwnEnd
        PROVE  w.c # NoChannel => Apart("A", w.c)
    <3>1. TypeA = "pipes"
      BY <2>2, TypeAssumption DEF OwnEnd, SepFds, Type
    <3>2. c = new
      BY <3>1 DEF InitHandler
    <3>3. new.readfd = -2 /\ new.writefd = -2 /\ new.errfd = -1
      BY DEF NewChannel, FD_UNINIT, FD_CLOSED
    <3>4. InitWriteBuf("A", new) = [new EXCEPT !.wsize = RecvWindow["A"],
                                               !.recvwindow = RecvWindow["A"]]
      BY DEF InitWriteBuf
    <3>5. {"readfd", "writefd", "errfd"} \subseteq DOMAIN new
      BY DEF NewChannel
    <3> HIDE DEF c, new
    <3>6. \A f \in {"readfd", "writefd", "errfd"} : InitWriteBuf("A", new)[f] = new[f]
      BY <3>4, <3>5
    <3>7. w.c # NoChannel => w.c.readfd = -2 /\ w.c.writefd = -2 /\ w.c.errfd = -1
      BY <1>3, <3>2, <3>3, <3>6
    <3>. QED  BY <2>2, <3>7 DEF Apart
  <2>. QED  BY <2>1, <2>2
<1>. QED  BY <1>1, <1>2, <1>3, <1>4, <1>5, OpeningCareful

\* What is there of an opener's channel before the answer
LEMMA AskingFacts ==
    ASSUME AInv, ch["I"] # NoChannel, ch["I"].await_open
    PROVE  /\ ch["I"].wbuf = 0 /\ ~ch["I"].extra
           /\ ch["I"] \in Channels /\ "I" \in End
           /\ World("I").c = ch["I"] /\ World("I").out = 0
BY TwoEnds DEF AInv, OInv, Opening, Asking, Live, IInv, Good, World

LEMMA RecvConfirmationCareful ==
    ASSUME AInv, RecvConfirmation
    PROVE  \A d \in End : Careful(d)
<1> DEFINE c == [ch["I"] EXCEPT !.await_open = FALSE,
                                !.transwindow = Head(net["I"]).n]
           c1 == InitStdpipe(c)
           q == IF HasCheckClose("A") THEN <<Msg("shell", 0)>> ELSE <<>>
           w1 == [World("I") EXCEPT !.c = c]
           w2 == [World("I") EXCEPT !.c = c1, !.q = q]
<1>1. /\ pc["I"] = "packet" /\ ch["I"] # NoChannel /\ Head(net["I"]).t = "confirm"
  BY DEF RecvConfirmation, PacketFor, Packet
<1>2. CASE ~ch["I"].await_open
  <2>1. Exit("I", "unexpected reply")
    BY <1>2 DEF RecvConfirmation
  <2>. QED  BY <2>1, StillCareful DEF Exit
<1>3. CASE ch["I"].await_open
  <2>1. /\ ch["I"].wbuf = 0 /\ ~ch["I"].extra
        /\ ch["I"] \in Channels /\ "I" \in End
    BY <1>1, <1>3, AskingFacts
  <2>2. IF TypeI # "stdpipes" THEN Processed("I", w1) ELSE Processed("I", w2)
    BY <1>3 DEF RecvConfirmation
  <2>3. /\ w1.c = c /\ w2.c = c1 /\ w1.out = 0 /\ w2.out = 0
    BY DEF World
  <2>4. PICK w, rest : /\ Done("I", w, rest, "io") /\ w.out = 0
                       /\ w.c = IF TypeI # "stdpipes" THEN c ELSE c1
    <3>1. PICK r : r = Tail(net["I"])
      OBVIOUS
    <3>2. IF TypeI # "stdpipes" THEN Done("I", w1, r, "io") ELSE Done("I", w2, r, "io")
      BY <2>2, <3>1 DEF Processed
    <3> HIDE DEF w1, w2, c, c1
    <3>. QED  BY <2>3, <3>2
  <2>5. ~Reading("I", "eof")
    BY <1>1 DEF Reading
  <2>6. "I" \in OwnEnd /\ w.c # NoChannel => Apart("I", w.c)
    <3>1. ASSUME TypeI # "stdpipes", "I" \in OwnEnd
          PROVE  w.c # NoChannel => Apart("I", w.c)
      <4>1. SepFds("I")
        BY <3>1, TypeAssumption DEF OwnEnd, SepFds, Type
      <4>2. OInv'
        BY RecvConfirmationOrder DEF AInv
      <4>3. ch'["I"] = w.c
        BY <2>1, <2>4, DoneFacts DEF AInv, OInv
      <4>4. Live("I")' => Apart("I", ch'["I"])
        BY <2>1, <4>1, <4>2, SepApart
      <4>. QED  BY <4>3, <4>4 DEF Live
    <3>2. CASE TypeI = "stdpipes"
      <4>1. DOMAIN c = DOMAIN ch["I"]
            /\ {"readfd", "writefd", "errfd", "extra"} \subseteq DOMAIN ch["I"]
        BY <2>1 DEF Channels
      <4> HIDE DEF c
      <4>2. c1.readfd = 0 /\ c1.writefd = 1 /\ c1.errfd = 2
        BY <4>1 DEF InitStdpipe, STDIN, STDOUT, STDERR
      <4>3. w.c = c1
        BY <2>4, <3>2
      <4>4. ~SepFds("I")
        BY <3>2 DEF SepFds, Type
      <4> HIDE DEF c1
      <4>. QED  BY <4>2, <4>3, <4>4 DEF Apart
    <3>. QED  BY <3>1, <3>2
  <2>7. w.out \in Nat
    BY <2>4
  <2>. QED  BY <1>3, <2>1, <2>4, <2>5, <2>6, <2>7, OpeningCareful
<1>. QED  BY <1>2, <1>3

LEMMA RecvFailureCareful ==
    ASSUME AInv, RecvFailure PROVE \A d \in End : Careful(d)
<1>1. /\ pc["I"] = "packet" /\ ch["I"] # NoChannel /\ Head(net["I"]).t = "failure"
  BY DEF RecvFailure, PacketFor, Packet
<1>2. CASE ~ch["I"].await_open
  <2>1. Exit("I", "unexpected reply")
    BY <1>2 DEF RecvFailure
  <2>. QED  BY <2>1, StillCareful DEF Exit
<1>3. CASE ch["I"].await_open
  <2>1. /\ ch["I"].wbuf = 0 /\ ~ch["I"].extra /\ "I" \in End
    BY <1>1, <1>3, AskingFacts
  <2>2. PICK w, rest : /\ w = RemoveChannel("I", World("I"), FALSE)
                       /\ rest = Tail(net["I"])
    OBVIOUS
  <2>3. Done("I", w, rest, "io")
    BY <1>3, <2>2 DEF RecvFailure, Processed
  <2>4. w.c = NoChannel /\ w.out = 0
    <3>1. ~HasCheckClose("I")
      BY TypeAssumption DEF HasCheckClose, Type
    <3>. QED  BY <2>2, <3>1 DEF RemoveChannel, RunCloseHandler, World
  <2>5. ~Reading("I", "eof")
    BY <1>1 DEF Reading
  <2>6. w.out \in Nat
    BY <2>4
  <2>. QED  BY <1>3, <2>1, <2>3, <2>4, <2>5, <2>6, OpeningCareful
<1>. QED  BY <1>2, <1>3

LEMMA ShellFacts ==
    ASSUME OInv, RecvShell
    PROVE  /\ "A" \in End /\ pc["A"] = "packet" /\ ch["A"] # NoChannel
           /\ Head(net["A"]).t = "shell" /\ ch["A"] \in Channels
           /\ HasCheckClose("A") /\ Fresh(ch["A"])
<1>1. PacketFor("A", "shell") /\ "A" \in End
  BY TwoEnds DEF RecvShell
<1>2. pc["A"] = "packet" /\ ch["A"] # NoChannel /\ Head(net["A"]).t = "shell"
  BY <1>1 DEF PacketFor, Packet
<1>3. IInv /\ Opening /\ Link(net["A"], ch["A"], ch[Peer("A")])
  BY <1>1 DEF OInv
<1>4. /\ net["A"] \in Seq(Message) /\ net["A"] # <<>>
      /\ ch["A"] \in Channels /\ Ordered(net["A"])
  BY <1>1, <1>2, <1>3 DEF IInv, TypeOK, Good, Link
<1>5. "shell" \in Types(net["A"])
  BY <1>2, <1>4, OrderTaken
<1>. QED  BY <1>1, <1>2, <1>3, <1>4, <1>5 DEF Opening, Due, Live

\* A shell gets three pipes of its own.
LEMMA RecvShellCareful ==
    ASSUME AInv, RecvShell PROVE \A d \in End : Careful(d)
<1> DEFINE c == ch["A"]
           c1 == [c EXCEPT !.writefd = PTYFD, !.readfd = PTYFD]
           c2 == [c EXCEPT !.writefd = PIPEIN, !.readfd = PIPEOUT,
                           !.errfd = PIPEERR]
<1>o. IInv /\ Opening
  BY DEF AInv, OInv
<1>1. /\ "A" \in End /\ pc["A"] = "packet" /\ ch["A"] # NoChannel
      /\ Head(net["A"]).t = "shell" /\ ch["A"] \in Channels
  BY ShellFacts DEF AInv
<1>2. HasCheckClose("A") /\ Fresh(c)
  BY ShellFacts DEF AInv
<1>3. ~SepFds("A") /\ ("A" \in OwnEnd => TypeA = "pipes")
  BY <1>2 DEF OwnEnd, HasCheckClose, SepFds, Type
<1>4. PICK w, rest : /\ Done("A", w, rest, "io") /\ w.out = 0
                     /\ w.c \in {c, IF TypeA = "pty" THEN c1 ELSE c2}
  <2>1. /\ World("A").c = c /\ World("A").out = 0
        /\ \A d : /\ [World("A") EXCEPT !.c = d].c = d
                  /\ [World("A") EXCEPT !.c = d].out = 0
    BY DEF World
  <2>2. \/ Processed("A", World("A"))
        \/ Processed("A", [World("A") EXCEPT !.c = IF TypeA = "pty" THEN c1 ELSE c2])
    BY DEF RecvShell
  <2>3. PICK r, d : r = Tail(net["A"]) /\ d = IF TypeA = "pty" THEN c1 ELSE c2
    OBVIOUS
  <2>4. \/ Done("A", World("A"), r, "io")
        \/ Done("A", [World("A") EXCEPT !.c = d], r, "io")
    BY <2>2, <2>3 DEF Processed
  <2> HIDE DEF c, c1, c2
  <2>. QED  BY <2>1, <2>3, <2>4
<1>5. ~Reading("A", "eof")
  BY <1>1 DEF Reading
<1>6. "A" \in OwnEnd => Apart("A", w.c)
  <2>. SUFFICES ASSUME "A" \in OwnEnd PROVE Apart("A", w.c)
    OBVIOUS
  <2>1. CASE w.c = c
    <3>1. c.readfd \in Int /\ c.writefd \in Int /\ c.errfd \in Int
      BY <1>1, Fields
    <3> HIDE DEF c
    <3>. QED  BY <1>2, <1>3, <2>1, <3>1 DEF Apart, Fresh
  <2>2. CASE w.c = c2
    <3>1. c2.writefd = 7 /\ c2.readfd = 8 /\ c2.errfd = 9
      BY <1>1 DEF Channels, PIPEIN, PIPEOUT, PIPEERR
    <3> HIDE DEF c2
    <3>. QED  BY <1>3, <2>2, <3>1 DEF Apart
  <2>3. w.c \in {c, c2}
    <3>1. TypeA # "pty"
      BY <1>3
    <3> HIDE DEF c, c1, c2
    <3>. QED  BY <1>4, <3>1
  <2>. QED  BY <2>1, <2>2, <2>3
<1>7. w.out \in Nat
  BY <1>4
<1>8. ch["A"].readfd < 0 /\ ch["A"].writefd < 0 /\ ch["A"].errfd < 0
  BY <1>2 DEF Fresh
<1>. QED  BY <1>1, <1>4, <1>5, <1>6, <1>7, <1>8, OpeningCareful

\* A connection that is made, or not, has had nothing to write.
LEMMA ConnectIOCareful ==
    ASSUME AInv, NEW e \in End, ConnectIO(e) PROVE \A d \in End : Careful(d)
<1>o. IInv /\ Opening
  BY DEF AInv, OInv
<1>1. PICK connected \in BOOLEAN :
        Done(e, CheckInProgress(e, World(e), connected), net[e], "select")
  BY DEF ConnectIO
<1>2. e = "A" /\ Connecting /\ TypeA = "tcp" /\ SepFds("A")
  BY <1>o, TwoEnds DEF ConnectIO, Opening, Connecting, Live, SepFds, Type
<1>3. /\ ch["A"].readfd < 0 /\ ~ch["A"].extra /\ ch["A"].wbuf = 0 /\ ch["A"].errfd < 0
  <2>1. ch["A"] # NoChannel /\ ch["A"].initconn
    BY <1>2 DEF Connecting, Live
  <2>2. ch["A"].wbuf = 0
    BY <1>o, <2>1, TwoEnds DEF IInv, Good, Accounted
  <2>3. FdOK("A", ch["A"])
    BY <2>1, TwoEnds DEF AInv, OInv, Live
  <2>. QED  BY <1>o, <1>2, <2>2, <2>3 DEF Opening, FdOK
<1>4. PICK w, rest : /\ w = CheckInProgress(e, World(e), connected) /\ rest = net[e]
  OBVIOUS
<1>5. Done(e, w, rest, "select")
  BY <1>1, <1>4
<1>6. w.out = 0
  <2>1. ~HasCloseHandler(e)
    BY <1>2 DEF HasCloseHandler, Type
  <2>2. World(e).out = 0 /\ DOMAIN World(e) = {"c", "src", "q", "out", "bad"}
    BY DEF World
  <2>3. PICK v : v = World(e)
    OBVIOUS
  <2>4. CASE connected
    BY <1>4, <2>2, <2>3, <2>4 DEF CheckInProgress
  <2>5. CASE ~connected
    <3>1. PICK x : x = [v EXCEPT !.q = Append(@, Msg("failure", 0))]
      OBVIOUS
    <3>2. w = [x EXCEPT !.c = NoChannel]
      BY <1>4, <2>1, <2>3, <2>5, <3>1 DEF CheckInProgress, RemoveChannel, RunCloseHandler
    <3>. QED  BY <2>2, <2>3, <3>1, <3>2
  <2>. QED  BY <2>4, <2>5
<1>7. w.c # NoChannel => Apart(e, w.c)
  <2>1. OInv'
    BY ConnectIOOrder DEF AInv
  <2>2. ch'[e] = w.c
    BY <1>o, <1>5, DoneFacts
  <2>3. Live(e)' => Apart(e, ch'[e])
    BY <1>2, <2>1, SepApart
  <2>. QED  BY <2>2, <2>3 DEF Live
<1>8. ~Reading(e, "eof")
  BY DEF ConnectIO, Reading
<1>9. w.out \in Nat
  BY <1>6
<1>. QED  BY <1>2, <1>3, <1>5, <1>7, <1>8, <1>9, OpeningCareful

LEMMA RecvEofOrCloseCareful ==
    ASSUME AInv, NEW e \in End, NEW type \in {"eof", "close"},
           RecvEofOrClose(e, type)
    PROVE  \A d \in End : Careful(d)
<1>o. IInv
  BY DEF AInv, OInv
<1>1. /\ pc[e] = "packet" /\ ch[e] # NoChannel /\ Head(net[e]).t = type
      /\ net[e] # <<>> /\ Live(e)
  BY <1>o DEF RecvEofOrClose, PacketFor, Packet, IInv, Live
<1>2. PICK c \in Channels, v \in Worlds, exits \in BOOLEAN :
             /\ Speaks(e, c, v) /\ v.c = c /\ v.src = src[e] /\ v.out = 0
             /\ (c.recv_close <=> ch[e].recv_close \/ type = "close")
             /\ \A f \in Descriptors : c[f] = ch[e][f]
             /\ c.extra = ch[e].extra /\ c.wbuf = ch[e].wbuf /\ c.xbuf = ch[e].xbuf
             /\ ChildExitsMeanwhile(e, exits)
             /\ Processed(e, CheckClose(e, v, Exited, Exited \/ exits))
  BY EofOrCloseRead DEF AInv, Descriptors
<1>3. PICK w, rest, exited :
        /\ w = CheckClose(e, v, Exited, Exited \/ exits)
        /\ rest = Tail(net[e]) /\ exited = (Exited \/ exits)
  OBVIOUS
<1>4. Done(e, w, rest, "io")
  BY <1>2, <1>3 DEF Processed
<1>5. Exited \in BOOLEAN /\ exited \in BOOLEAN /\ (exited => child' = "exited")
  BY <1>2, <1>3 DEF Exited, ChildExitsMeanwhile
<1>p. ch'[Peer(e)] = ch[Peer(e)]
  BY <1>o, <1>4, DoneFacts
<1>. SUFFICES ASSUME e \in OwnEnd PROVE Careful(e)
  BY <1>p, ActorCareful DEF Careful
<1>6. Apart(e, c)
  <2>1. ~ch[e].await_open
    BY <1>1, Settled DEF AInv, Talk, Data
  <2>2. Apart(e, ch[e])
    BY <1>1, <2>1 DEF AInv
  <2>. QED  BY <1>2, <2>2 DEF Apart, Descriptors
<1>7. TidyWorld(e, c, v, exited)
  <2>1. PICK s : s = src[e]
    OBVIOUS
  <2>2. Tidy(e, c, c, s, 0, exited)
    BY <1>6, TidyStart
  <2>. QED  BY <1>2, <2>1, <2>2 DEF TidyWorld
<1>8. /\ Ends(e, c, w, exited)
      /\ ~c.recv_close /\ GivenUp(c, w.c, "readfd") =>
           w.c # NoChannel /\ w.c.flushing
  BY <1>2, <1>3, <1>5, <1>7, CheckCloseTidy
<1>9. w.out \in Nat
  <2>1. LiveWorld(e, v)
    BY <1>2 DEF Speaks
  <2>2. Handled(e, w)
    BY <1>3, <1>5, <2>1, CheckCloseHandled
  <2>. QED  BY <2>2 DEF Handled, Worlds
<1>10. /\ c.recv_close => ch[e].recv_close \/ Reading(e, "close")
       /\ Reading(e, "eof") => ~c.recv_close
  <2>1. pc'[e] = "io"
    <3>1. pc' = [pc EXCEPT ![e] = "io"]
      BY <1>4 DEF Done
    <3>2. DOMAIN pc = End
      BY <1>o DEF IInv, TypeOK
    <3>. QED  BY <3>1, <3>2
  <2>2. type = "close" => Reading(e, "close")
    BY <1>1, <2>1 DEF Reading
  <2>3. type = "eof" => ~ch[e].recv_close
    <3>1. Link(net[e], ch[e], ch[Peer(e)]) /\ net[e] \in Seq(Message)
      BY <1>o DEF AInv, OInv, IInv, TypeOK
    <3>2. Ordered(net[e])
      BY <3>1 DEF Link
    <3>3. Head(net[e]).t \in Types(net[e])
      BY <1>1, <3>1, <3>2, OrderTaken
    <3>. QED  BY <1>1, <3>1, <3>3 DEF Link
  <2>4. Reading(e, "eof") => type = "eof"
    BY <1>1 DEF Reading
  <2>. QED  BY <1>2, <2>2, <2>3, <2>4
<1>11. Reading(e, "eof") /\ GivenUp(c, w.c, "readfd") =>
         w.c # NoChannel /\ w.c.flushing
  BY <1>8, <1>10
<1>12. c.recv_close => ch[e].recv_close \/ Reading(e, "close")
  BY <1>10
<1>. QED  BY <1>1, <1>2, <1>4, <1>5, <1>8, <1>9, <1>11, <1>12, EndsCareful

\* channelio(), from the reads and writes to check_close()
LEMMA ChannelIOCareful ==
    ASSUME AInv, NEW e \in End, ChannelIO(e) PROVE \A d \in End : Careful(d)
<1>o. IInv /\ OInv /\ ch[e] # NoChannel /\ Live(e)
  BY DEF AInv, OInv, ChannelIO, Live
<1>1. PICK wlen, xlen, exits, w1, w2, w3, w4, w5, rest :
         Steps(e, wlen, xlen, exits, w1, w2, w3, w4, w5, rest)
  BY <1>o, ChannelIOSteps
<1>7. ~(ch[e].initconn /\ "w" \in sel[e]) /\ pc[e] = "io"
  BY DEF ChannelIO
<1>8. FdOK(e, ch[e]) /\ ch[e] \in Channels
  BY <1>o DEF OInv, IInv, Good
<1>9. /\ ChildExitsMeanwhile(e, exits) /\ exits \in BOOLEAN
      /\ Done(e, w5, rest, "select") /\ w5.out \in Nat
  <2>1. Handled(e, w5)
    BY <1>1 DEF Steps
  <2>2. w5.out \in Nat
    BY <2>1 DEF Handled, Worlds
  <2>. QED  BY <1>1, <2>2 DEF Steps
<1>p. ch'[Peer(e)] = ch[Peer(e)]
  BY <1>o, <1>9, DoneFacts
<1>. SUFFICES ASSUME e \in OwnEnd PROVE Careful(e)
  BY <1>p, ActorCareful DEF Careful
<1>10. CASE ch[e].await_open \/ ch[e].initconn \/ (e = "A" /\ Due)
  <2>1. /\ ~DoCheckClose(e, ch[e])
        /\ ReadStep(e, World(e), "r") = World(e)
        /\ ReadStep(e, World(e), "e") = World(e)
        /\ WriteStep(e, World(e), "w", wlen) = World(e)
        /\ WriteStep(e, World(e), "x", xlen) = World(e)
    BY <1>o, <1>7, <1>10, NothingToDo
  <2>2. w5 = World(e) /\ w5.c = ch[e]
    BY <1>1, <2>1 DEF Steps
  <2>. QED  BY <1>o, <1>9, <2>2, QuietCareful
<1>11. CASE ~ch[e].await_open /\ ~ch[e].initconn /\ (e = "A" => ~Due)
  <2>1. PICK c, exited : c = ch[e] /\ exited = (Exited \/ exits)
    OBVIOUS
  <2>2. /\ c \in Channels /\ Exited \in BOOLEAN /\ exited \in BOOLEAN
        /\ exited => child' = "exited"
    BY <1>8, <1>9, <2>1 DEF Exited, ChildExitsMeanwhile
  <2>3. Speaks(e, c, World(e)) /\ TidyWorld(e, c, World(e), exited)
    <3>1. Apart(e, c)
      BY <1>o, <1>11, <2>1 DEF AInv
    <3>2. PICK s : s = src[e]
      OBVIOUS
    <3>3. Tidy(e, c, c, s, 0, exited)
      BY <2>2, <3>1, TidyStart
    <3>4. World(e).c = c /\ World(e).src = s /\ World(e).out = 0
      BY <2>1, <3>2 DEF World
    <3>5. TidyWorld(e, c, World(e), exited)
      BY <3>3, <3>4 DEF TidyWorld
    <3>6. Speaks(e, c, World(e))
      BY <1>o, <1>8, <2>1, WorldSpeaks, WorldType
    <3>. QED  BY <3>5, <3>6
  <2>4. Speaks(e, c, w1) /\ TidyWorld(e, c, w1, exited)
    BY <1>1, <2>2, <2>3, ReadStepSpeaks, ReadStepTidy DEF Steps
  <2>5. Speaks(e, c, w2) /\ TidyWorld(e, c, w2, exited)
    BY <1>1, <2>2, <2>4, ReadStepSpeaks, ReadStepTidy DEF Steps
  <2>6. Speaks(e, c, w3) /\ TidyWorld(e, c, w3, exited)
    <3>1. PICK f : f = "w"
      OBVIOUS
    <3>2. f \in {"w", "x"} /\ wlen \in 0 .. IF f = "w" THEN w2.c.wbuf ELSE w2.c.xbuf
      BY <1>1, <3>1 DEF Steps
    <3>. QED  BY <1>1, <2>2, <2>5, <3>1, <3>2, WriteStepSpeaks, WriteStepTidy DEF Steps
  <2>7. Speaks(e, c, w4) /\ TidyWorld(e, c, w4, exited)
    <3>1. PICK f : f = "x"
      OBVIOUS
    <3>2. f \in {"w", "x"} /\ xlen \in 0 .. IF f = "w" THEN w3.c.wbuf ELSE w3.c.xbuf
      BY <1>1, <3>1 DEF Steps
    <3>. QED  BY <1>1, <2>2, <2>6, <3>1, <3>2, WriteStepSpeaks, WriteStepTidy DEF Steps
  <2>9. Ends(e, c, w5, exited)
    <3>1. CASE ~DoCheckClose(e, ch[e])
      BY <1>1, <2>2, <2>7, <3>1, TidyEnds DEF Steps
    <3>2. CASE DoCheckClose(e, ch[e])
      <4>1. w5 = CheckClose(e, w4, Exited, exited)
        BY <1>1, <2>1, <3>2 DEF Steps
      <4>. QED  BY <2>2, <2>7, <4>1, CheckCloseTidy
    <3>. QED  BY <3>1, <3>2
  <2>12. ~Reading(e, "eof")
    BY <1>7 DEF Reading
  <2>. QED  BY <1>o, <1>9, <2>1, <2>2, <2>9, <2>12, EndsCareful
<1>. QED  BY <1>10, <1>11

LEMMA HandleCareful ==
    ASSUME AInv, NEW e \in End, Handle(e)
    PROVE  \A d \in End : Careful(d)
<1>1. CASE UnknownChannel(e)
  BY <1>1, StillCareful DEF UnknownChannel, Exit
<1>2. CASE RecvOpen \/ RecvShell \/ RecvConfirmation \/ RecvFailure
  BY <1>2, RecvOpenCareful, RecvShellCareful, RecvConfirmationCareful,
     RecvFailureCareful
<1>3. CASE RecvWindowChange \/ RecvExitStatus
  BY <1>3, RequestCareful
<1>4. CASE \E type \in {"data", "ext"} : RecvData(e, type)
  BY <1>4, RecvDataCareful
<1>5. CASE RecvAdjust(e) \/ RecvEof(e) \/ RecvClose(e)
  BY <1>5, RecvAdjustCareful, RecvEofOrCloseCareful DEF RecvEof, RecvClose
<1>. QED  BY <1>1, <1>2, <1>3, <1>4, <1>5 DEF Handle

\* No step of either end, of a program or of a child loses anything at an end
\* of its own descriptors.
LEMMA NextCareful ==
    ASSUME AInv, [Next]_vars
    PROVE  \A d \in End : Careful(d)
<1>1. CASE UNCHANGED vars
  BY <1>1, StillCareful DEF vars
<1>2. CASE SendOpen \/ WindowChange
  BY <1>2, SendOpenCareful, RequestCareful
<1>3. CASE ChildExit
  BY <1>3, StillCareful DEF ChildExit
<1>4. ASSUME NEW e \in End, Handle(e) PROVE \A d \in End : Careful(d)
  BY <1>4, HandleCareful
<1>5. ASSUME NEW e \in End, IO(e) PROVE \A d \in End : Careful(d)
  <2>1. CASE NoChannelIO(e)
    BY <2>1, StillCareful DEF NoChannelIO
  <2>2. CASE ConnectIO(e) \/ ChannelIO(e)
    BY <2>2, ConnectIOCareful, ChannelIOCareful
  <2>. QED  BY <1>5, <2>1, <2>2 DEF IO
<1>6. ASSUME NEW e \in End, SelectSome(e) \/ Program(e)
      PROVE  \A d \in End : Careful(d)
  <2>1. UNCHANGED ch
    BY <1>6 DEF SelectSome, Select, Program, Produce, ProduceErr, CloseSource,
                CloseErrSource, SinkBreaks
  <2>. QED  BY <2>1, StillCareful
<1>. QED  BY <1>1, <1>2, <1>3, <1>4, <1>5, <1>6 DEF Next

\* The descriptors of such an end stay apart.
LEMMA StaysApart == Spec => []AInv
<1>1. Init => AInv
  <2>1. Init => \A e \in End : ch[e] = NoChannel
    BY DEF Init
  <2>. QED  BY <2>1, InitOrder DEF AInv, Live, OwnEnd
<1>2. AInv /\ [Next]_vars => AInv'
  <2>. SUFFICES ASSUME AInv, [Next]_vars PROVE AInv'
    OBVIOUS
  <2>1. OInv'
    BY NextOrder DEF AInv
  <2>2. \A e \in OwnEnd : Live(e)' /\ ~ch'[e].await_open => Apart(e, ch'[e])
    BY NextCareful DEF Careful, Safe, OwnEnd
  <2>3. \A e \in OwnEnd : Live(e)' /\ ~ch[e].await_open' => Apart(e, ch[e])'
    BY <2>2 DEF Apart
  <2>. QED  BY <2>1, <2>3 DEF AInv
<1>. QED  BY <1>1, <1>2, PTL DEF Spec

\* The handler of the peer's EOF leaves the other direction open while the
\* local program may still write to it, whatever the windows, the bytes and
\* the faults, at every end that has a descriptor for each direction or closes
\* the directions of one apart, of whatever type the other end is.
THEOREM EofClosesOneDirection == Spec => HalfClose
<1>1. AInv /\ [Next]_vars => [\A e \in OwnEnd : Halved(e)]_vars
  BY NextCareful DEF Careful, Safe, OwnEnd
<1>. QED  BY <1>1, StaysApart, PTL DEF Spec, HalfClose

\* What a program has written at such an end is read to its end before
\* check_close() gives its pipe up, unless the peer has closed the channel.
THEOREM OutputReadToItsEnd == Spec => OutputFlushed
<1>1. AInv /\ [Next]_vars => [\A e \in OwnEnd : Flushed(e)]_vars
  BY NextCareful DEF Careful, Safe, OwnEnd
<1>. QED  BY <1>1, StaysApart, PTL DEF Spec, OutputFlushed

\* What the peer has sent to such an end is written out before the descriptor it
\* is for is given up, unless its reader is gone or the child of a session has
\* exited.
THEOREM InputWrittenOut == Spec => InputDrained
<1>1. AInv /\ [Next]_vars => [\A e \in OwnEnd : Drained(e)]_vars
  BY NextCareful DEF Careful, Safe, OwnEnd
<1>. QED  BY <1>1, StaysApart, PTL DEF Spec, InputDrained

---------------------------------------------------------------------------
(* Nothing is passed over *)

\* send_msg_channel_close() runs the close handler: that much may change.
LEMMA SendCloseSame ==
    ASSUME NEW e \in End, NEW w, LiveWorld(e, w), NEW exited
    PROVE  LET u == SendClose(e, w, exited).c
           IN  /\ u.flushing = w.c.flushing
               /\ u.writefd = w.c.writefd \/ u.writefd = FD_CLOSED
<1>. DEFINE w1 == RunCloseHandler(e, w, exited)
            c1 == Closed(w1.c)
            c2 == CloseChanFd(e, c1, c1.readfd, "RD")
            c3 == CloseChanFd(e, c2, c2.errfd, "RDWR")
            c4 == CloseChanFd(e, c3, c3.writefd, "WR")
<1>1. LiveWorld(e, w1) /\ w1.c.flushing = w.c.flushing /\ w1.c.writefd = w.c.writefd
  BY RunCloseHandlerLive, RunCloseHandlerSame DEF Descriptors
<1>. HIDE DEF w1
<1>2. w1 \in Worlds /\ w1.c \in Channels
  BY <1>1, WorldParts
<1>3. c1 \in Channels /\ Same(w1.c, c1)
  BY <1>2 DEF Closed, Channels, Same
<1>. HIDE DEF c1
<1>4. c2 \in Channels /\ Same(c1, c2)
  BY <1>3, CloseFdKeeps, CloseFdSame
<1>. HIDE DEF c2
<1>5. c3 \in Channels /\ Same(c2, c3)
  BY <1>4, CloseFdKeeps, CloseFdSame
<1>. HIDE DEF c3
<1>6. Same(c3, c4)
  BY <1>5, CloseFdSame
<1>7. SendClose(e, w, exited) = [w1 EXCEPT !.q = Append(@, Msg("close", 0)), !.c = c4]
  BY DEF SendClose, w1, c1, c2, c3
<1>. HIDE DEF c4
<1>8. SendClose(e, w, exited).c = c4
  BY <1>2, <1>7 DEF Worlds
<1>. QED  BY <1>1, <1>3, <1>4, <1>5, <1>6, <1>8 DEF Same

\* What check_close() leaves of a channel it does not remove: of a session it
\* has asked twice whether the child has exited.
LEMMA CheckCloseSees ==
    ASSUME NEW e \in End, NEW c, NEW w, Speaks(e, c, w),
           NEW exited1 \in BOOLEAN, NEW exited2 \in BOOLEAN,
           ~HasCheckClose(e) => ~w.c.flushing
    PROVE  LET v == CheckClose(e, w, exited1, exited2)
           IN  v.c # NoChannel =>
                 /\ ~HasCheckClose(e) => ~v.c.flushing
                 /\ (HasCheckClose(e) => exited1 /\ exited2) => Checked(e, v.c)
<1>. DEFINE flushing == \/ w.c.flushing
                        \/ ~w.c.close_handler_done /\ HasCheckClose(e) /\ exited1
            allowed == CloseAllowed(e, w.c, exited2)
            w1 == [w EXCEPT !.c.flushing = flushing]
            w2 == IF \/ w1.c.recv_eof /\ ~WritePending(w1.c)
                     \/ HasCheckClose(e) /\ allowed
                  THEN [w1 EXCEPT !.c = CloseChanFd(e, @, @.writefd, "WR")] ELSE w1
            w3 == Flush(e, w2)
            w4 == IF ~w3.c.sent_eof /\ NothingMoreToSend(w3.c)
                  THEN SendEof(w3) ELSE w3
            w5 == IF w1.c.sent_close THEN w1 ELSE SendClose(e, w1, exited2)
            v == CheckClose(e, w, exited1, exited2)
            mayClose == /\ NothingMoreToSend(w4.c) /\ w4.c.writefd = FD_CLOSED
                        /\ ~w4.c.sent_close /\ allowed /\ ~WritePending(w4.c)
<1>1. w \in Worlds /\ w.c \in Channels /\ LiveWorld(e, w)
  BY WorldFields DEF Speaks, LiveWorld
<1>2. /\ Speaks(e, c, w1) /\ w1.c.flushing = flushing
      /\ w1.c.close_handler_done = w.c.close_handler_done
      /\ w1.c.sent_close = w.c.sent_close
  <2>1. flushing \in BOOLEAN
    BY <1>1 DEF Channels
  <2>. HIDE DEF flushing
  <2>. QED  BY <1>1, <2>1, FlushingSpeaks DEF Worlds, Channels
<1>3. v = IF MayRemove(w1.c, allowed)
          THEN RemoveChannel(e, w5, exited2)
          ELSE IF mayClose THEN SendClose(e, w4, exited2) ELSE w4
  BY DEF CheckClose
<1>. HIDE DEF w1, v, allowed
<1>4. w1.c \in Channels /\ w1 \in Worlds /\ LiveWorld(e, w1)
  BY <1>2, WorldFields DEF Speaks, LiveWorld
<1>5. /\ Speaks(e, c, w2) /\ Same(w1.c, w2.c)
      /\ HasCheckClose(e) /\ allowed => w2.c.writefd = FD_CLOSED
  <2>1. Speaks(e, c, w2)
    BY <1>2, FdClosedSpeaks
  <2>2. PICK d : d = CloseChanFd(e, w1.c, w1.c.writefd, "WR")
    OBVIOUS
  <2>3. Same(w1.c, d) /\ d.writefd = FD_CLOSED
    <3>1. PICK b \in Channels : b = w1.c
      BY <1>4
    <3>2. d = CloseChanFd(e, b, b.writefd, "WR")
      BY <2>2, <3>1
    <3>3. d.writefd = FD_CLOSED
      BY <3>2 DEF CloseChanFd, Channels
    <3>. QED  BY <3>1, <3>2, <3>3, CloseFdSame
  <2>4. w2 = w1 \/ w2.c = d
    BY <1>4, <2>2 DEF Worlds
  <2>5. HasCheckClose(e) /\ allowed => w2.c = d
    BY <1>4, <2>2 DEF Worlds
  <2>. HIDE DEF w2
  <2>. QED  BY <2>1, <2>3, <2>4, <2>5 DEF Same
<1>6. /\ Speaks(e, c, w3) /\ Same(w2.c, w3.c)
      /\ ~w2.c.flushing => w3 = w2
  <2>. HIDE DEF w2
  <2>. QED  BY <1>5, FlushSpeaks, FlushSame DEF Speaks
<1>7. /\ Speaks(e, c, w4) /\ Same(w3.c, w4.c)
      /\ WritePending(w4.c) <=> WritePending(w3.c)
  <2>. HIDE DEF w3
  <2>1. Speaks(e, c, w4)
    BY <1>6, SendEofSpeaks
  <2>2. w3 \in Worlds /\ w3.c \in Channels
    BY <1>6, WorldFields DEF Speaks, LiveWorld
  <2>3. PICK d : d = [w3.c EXCEPT !.sent_eof = TRUE]
    OBVIOUS
  <2>4. w4 = w3 \/ w4.c = d
    BY <2>2, <2>3 DEF Worlds, SendEof
  <2>5. Same(w3.c, d) /\ (WritePending(d) <=> WritePending(w3.c))
    BY <2>2, <2>3 DEF Channels, Same, WritePending
  <2>. HIDE DEF w4
  <2>. QED  BY <2>1, <2>4, <2>5 DEF Same
<1>. HIDE DEF w2, w3, w4
<1>8. w4.c.recv_close = w1.c.recv_close
  BY <1>2, <1>7 DEF Speaks, Kept
<1>9. ~HasCheckClose(e) => /\ allowed /\ ~w4.c.flushing
                           /\ WritePending(w1.c) => WritePending(w4.c)
  <2>. SUFFICES ASSUME ~HasCheckClose(e)
                PROVE  /\ allowed /\ ~w4.c.flushing
                       /\ WritePending(w1.c) => WritePending(w4.c)
    OBVIOUS
  <2>1. allowed /\ ~w1.c.flushing
    BY <1>2 DEF allowed, CloseAllowed
  <2>2. ~w2.c.flushing /\ w3 = w2 /\ ~w4.c.flushing
    BY <1>5, <1>6, <1>7, <2>1 DEF Same
  <2>3. WritePending(w1.c) => w2 = w1
    BY DEF w2
  <2>. QED  BY <1>7, <2>1, <2>2, <2>3
<1>10. HasCheckClose(e) /\ exited1 /\ exited2 =>
         /\ allowed /\ w4.c.writefd = FD_CLOSED
         /\ w4.c.flushing \/ w4.c.close_handler_done
  <2>1. HasCheckClose(e) /\ exited1 /\ exited2 =>
          allowed /\ (w1.c.flushing \/ w1.c.close_handler_done)
    BY <1>2 DEF allowed, CloseAllowed
  <2>. QED  BY <1>5, <1>6, <1>7, <2>1 DEF Same
<1>11. CASE MayRemove(w1.c, allowed)
  <2>1. RemoveChannel(e, w5, exited2).c = NoChannel
    BY <1>4, Removed
  <2>. HIDE DEF w5
  <2>2. v.c = NoChannel
    BY <1>3, <1>11, <2>1
  <2>. QED  BY <2>2 DEF v
<1>12. CASE ~MayRemove(w1.c, allowed) /\ mayClose
  <2>1. HasCheckClose(e) => exited2
    <3>1. ~w4.c.close_handler_done
      BY <1>7, <1>12 DEF Speaks, Kept, FdOK
    <3>2. w4.c.close_handler_done = w.c.close_handler_done
      BY <1>2, <1>5, <1>6, <1>7 DEF Same
    <3>. QED  BY <1>12, <3>1, <3>2 DEF allowed, CloseAllowed
  <2>2. /\ Speaks(e, c, SendClose(e, w4, exited2))
        /\ SendClose(e, w4, exited2).c.sent_close
    BY <1>7, <1>12, <2>1, SendCloseSpeaks
  <2>3. PICK u : u = SendClose(e, w4, exited2).c
    OBVIOUS
  <2>4. u.writefd = FD_CLOSED /\ u.flushing = w4.c.flushing
    BY <1>7, <1>12, <2>3, SendCloseSame DEF Speaks
  <2>5. /\ u.sent_close /\ u.recv_close = w1.c.recv_close
        /\ HasCheckClose(e) => u.close_handler_done
    BY <1>2, <2>2, <2>3 DEF Speaks, Kept, FdOK, HasCheckClose, HasCloseHandler
  <2>6. ~HasCheckClose(e) => ~u.recv_close
    BY <1>9, <1>12, <2>5 DEF MayRemove
  <2>7. /\ ~HasCheckClose(e) => ~u.flushing
        /\ Checked(e, u)
    BY <1>9, <2>4, <2>5, <2>6 DEF Checked
  <2>. QED  BY <1>3, <1>12, <2>3, <2>7 DEF v
<1>13. CASE ~MayRemove(w1.c, allowed) /\ ~mayClose
  <2>1. (HasCheckClose(e) => exited1 /\ exited2) => Checked(e, w4.c)
    BY <1>8, <1>9, <1>10, <1>13 DEF Checked, MayRemove
  <2>. QED  BY <1>3, <1>9, <1>13, <2>1 DEF v
<1>. QED  BY <1>11, <1>12, <1>13

\* The invariant: a type without a check_close handler never flushes, and a
\* descriptor that is being connected is not closed.
Watched(e) ==
    Live(e) => /\ Noticed(e) => Checked(e, ch[e])
               /\ ~HasCheckClose(e) => ~ch[e].flushing
               /\ ch[e].initconn => ch[e].writefd # FD_CLOSED
WInv == OInv /\ \A e \in End : Watched(e)

\* An end that is as it was, and whose child's exit nobody else has noticed
LEMMA StillWatched ==
    ASSUME NEW e \in End, Watched(e), ch'[e] = ch[e],
           HasCheckClose(e) /\ child' = "exited" /\ ~sigp' =>
             child = "exited" /\ ~sigp
    PROVE  Watched(e)'
BY DEF Watched, Noticed, Live, Checked

\* Only the server's end asks after a child.
LEMMA OnlyAtA == ~HasCheckClose("I")
BY TypeAssumption DEF HasCheckClose, Type

\* Done() changes one end.
LEMMA DoneWatched ==
    ASSUME WInv, NEW e \in End, NEW w, NEW rest, NEW next,
           Done(e, w, rest, next),
           e = "I" => child' = child /\ sigp' = sigp,
           w.c # NoChannel => /\ Noticed(e)' => Checked(e, w.c)
                              /\ ~HasCheckClose(e) => ~w.c.flushing
                              /\ w.c.initconn => w.c.writefd # FD_CLOSED
    PROVE  \A d \in End : Watched(d)'
<1>1. ch'[e] = w.c /\ ch'[Peer(e)] = ch[Peer(e)]
  BY DoneFacts DEF WInv, OInv
<1>2. Watched(e)'
  BY <1>1 DEF Watched, Live, Checked
<1>3. Watched(Peer(e))'
  BY <1>1, StillWatched, TwoEnds, OnlyAtA DEF WInv
<1>. QED  BY <1>2, <1>3, TwoEnds

\* A step that leaves the channels alone, and the child unless it says so
LEMMA QuietWatched ==
    ASSUME WInv, UNCHANGED ch, sigp' \/ UNCHANGED <<child, sigp>>
    PROVE  \A d \in End : Watched(d)'
BY StillWatched DEF WInv

\* A channel that is the same in all that check_close() looks at
LEMMA StillChecked ==
    ASSUME NEW e \in End, Watched(e), Live(e), UNCHANGED <<child, sigp>>,
           NEW d, \A g \in {"readfd", "writefd", "errfd", "extra", "sent_close",
                            "recv_close", "flushing", "close_handler_done",
                            "initconn"} : d[g] = ch[e][g],
           WritePending(ch[e]) => WritePending(d)
    PROVE  /\ Noticed(e)' => Checked(e, d)
           /\ ~HasCheckClose(e) => ~d.flushing
           /\ d.initconn => d.writefd # FD_CLOSED
BY DEF Watched, Noticed, Checked, NothingMoreToSend, ErrIsWrite

\* A channel that has come to be
LEMMA NewChecked ==
    ASSUME NEW e \in End, NEW d, d.readfd # FD_CLOSED,
           ~HasCheckClose(e) => ~d.recv_close, HasCheckClose(e) => ~Noticed(e)'
    PROVE  Noticed(e)' => Checked(e, d)
BY DEF Checked, NothingMoreToSend

LEMMA SendOpenWatched == ASSUME WInv, SendOpen PROVE \A d \in End : Watched(d)'
<1>. DEFINE fd == IF TypeI = "stdpipes" THEN STDIN ELSE SOCKFD
            c  == [InitWriteBuf("I", NewChannel(0)) EXCEPT
                     !.readfd = fd, !.writefd = fd, !.await_open = TRUE]
<1>1. PICK w, rest :
        /\ w = [World("I") EXCEPT !.c = c, !.q = <<Msg("open", RecvWindow["I"])>>]
        /\ rest = net["I"]
  OBVIOUS
<1>2. Done("I", w, rest, "select") /\ UNCHANGED <<child, sigp>>
  BY <1>1 DEF SendOpen
<1>3. w.c = c
  BY <1>1 DEF World
<1>4. c.readfd >= 0 /\ ~c.recv_close /\ ~c.flushing /\ ~c.initconn
  BY DEF InitWriteBuf, NewChannel, STDIN, SOCKFD
<1>. HIDE DEF c
<1>5. Noticed("I")' => Checked("I", w.c)
  BY <1>3, <1>4, NewChecked, OnlyAtA, TwoEnds DEF FD_CLOSED
<1>. QED  BY <1>2, <1>3, <1>4, <1>5, DoneWatched, TwoEnds

\* The child of a session is not there before its channel is.
LEMMA RecvOpenWatched == ASSUME WInv, RecvOpen PROVE \A d \in End : Watched(d)'
<1>. DEFINE c == InitHandler(NewChannel(MinOf(Head(net["A"]).n, TransMaxWindow)))
            w1 == [World("A") EXCEPT !.q = <<Msg("failure", 0)>>]
            w2 == [World("A") EXCEPT !.c = c]
            w3 == [World("A") EXCEPT !.c = InitWriteBuf("A", c), !.bad = ~InitWriteBufOk(c),
                            !.q = <<Msg("confirm", RecvWindow["A"])>>]
<1>1. ~Live("A") /\ (HasCheckClose("A") => child = "none")
  <2>1. /\ Head(net["A"]).t = "open" /\ Opening
        /\ net["A"] \in Seq(Message) /\ net["A"] # <<>> /\ Ordered(net["A"])
    BY TwoEnds DEF RecvOpen, Packet, IInv, TypeOK, WInv, OInv, Link
  <2>2. "open" \in Types(net["A"])
    BY <2>1, OrderTaken
  <2>. QED  BY <2>1, <2>2 DEF Opening, Due
<1>2. PICK w, rest :
        /\ Done("A", w, rest, "io") /\ UNCHANGED <<child, sigp>>
        /\ w.c \in {NoChannel, c, InitWriteBuf("A", c)}
  <2>1. w1.c = NoChannel /\ w2.c = c /\ w3.c = InitWriteBuf("A", c)
    BY <1>1 DEF World, Live
  <2>2. PICK r : r = Tail(net["A"])
    OBVIOUS
  <2>3. /\ Done("A", w1, r, "io") \/ Done("A", w2, r, "io") \/ Done("A", w3, r, "io")
        /\ UNCHANGED <<child, sigp>>
    BY <2>2 DEF RecvOpen, Processed, env
  <2>. HIDE DEF w1, w2, w3, c
  <2>. QED  BY <2>1, <2>3
<1>3. \A d \in {c, InitWriteBuf("A", c)} :
        /\ d.readfd # FD_CLOSED /\ ~d.recv_close /\ ~d.flushing
        /\ d.initconn => d.writefd # FD_CLOSED
  <2>1. PICK new : new = NewChannel(MinOf(Head(net["A"]).n, TransMaxWindow))
    OBVIOUS
  <2>2. \/ c = new
        \/ c = [new EXCEPT !.writefd = SOCKFD, !.initconn = TRUE]
        \/ c = [new EXCEPT !.writefd = SOCKFD, !.readfd = SOCKFD]
    BY <2>1, TypeAssumption DEF InitHandler
  <2>. DEFINE fields == {"readfd", "writefd", "recv_close", "flushing", "initconn"}
  <2>3. /\ fields \subseteq DOMAIN new /\ new.readfd = -2
        /\ new.recv_close = FALSE /\ new.flushing = FALSE /\ new.initconn = FALSE
    BY <2>1 DEF NewChannel, FD_UNINIT
  <2>. HIDE DEF c
  <2>4. /\ c.readfd # FD_CLOSED /\ c.recv_close = FALSE /\ c.flushing = FALSE
        /\ c.initconn = FALSE \/ c.writefd # FD_CLOSED
        /\ fields \subseteq DOMAIN c
    <3>1. CASE c = new
      BY <2>3, <3>1 DEF FD_CLOSED
    <3>2. CASE c = [new EXCEPT !.writefd = SOCKFD, !.initconn = TRUE]
      BY <2>3, <3>2 DEF FD_CLOSED, SOCKFD
    <3>3. CASE c = [new EXCEPT !.writefd = SOCKFD, !.readfd = SOCKFD]
      BY <2>3, <3>3 DEF FD_CLOSED, SOCKFD
    <3>. QED  BY <2>2, <3>1, <3>2, <3>3
  <2>. QED  BY <2>4 DEF InitWriteBuf
<1>. HIDE DEF c
<1>4. w.c # NoChannel => (Noticed("A")' => Checked("A", w.c))
  BY <1>1, <1>2, <1>3, NewChecked, TwoEnds DEF Noticed
<1>. QED  BY <1>2, <1>3, <1>4, DoneWatched, TwoEnds

LEMMA RecvConfirmationWatched ==
    ASSUME WInv, RecvConfirmation PROVE \A d \in End : Watched(d)'
<1>. DEFINE c == [ch["I"] EXCEPT !.await_open = FALSE,
                                 !.transwindow = Head(net["I"]).n]
            w1 == [World("I") EXCEPT !.c = c]
            w2 == [World("I") EXCEPT !.c = InitStdpipe(c),
                                     !.q = IF HasCheckClose("A")
                                           THEN <<Msg("shell", 0)>> ELSE <<>>]
<1>1. ch["I"] # NoChannel /\ ch["I"] \in Channels /\ Live("I") /\ Watched("I")
  BY TwoEnds DEF RecvConfirmation, PacketFor, WInv, OInv, IInv, Good, Live
<1>2. CASE ~ch["I"].await_open
  BY <1>2, QuietWatched DEF RecvConfirmation, Exit, env
<1>3. CASE ch["I"].await_open
  <2>1. ~ch["I"].recv_close /\ ~ch["I"].initconn /\ ~ch["I"].flushing
    BY <1>1, <1>3, OnlyAtA, TwoEnds
       DEF WInv, OInv, Opening, Asking, FdOK, Watched, Live
  <2>2. PICK w, rest : /\ Done("I", w, rest, "io")
                       /\ w.c = IF TypeI # "stdpipes" THEN c ELSE InitStdpipe(c)
    <3>1. PICK r : r = Tail(net["I"])
      OBVIOUS
    <3>2. IF TypeI # "stdpipes" THEN Done("I", w1, r, "io") ELSE Done("I", w2, r, "io")
      BY <1>3, <3>1 DEF RecvConfirmation, Processed
    <3>3. w1.c = c /\ w2.c = InitStdpipe(c)
      BY DEF World
    <3>. HIDE DEF w1, w2, c
    <3>. QED  BY <3>2, <3>3
  <2>3. UNCHANGED <<child, sigp>>
    BY <1>3 DEF RecvConfirmation, env
  <2>4. /\ \A g \in {"readfd", "writefd", "errfd", "extra", "sent_close",
                    "recv_close", "flushing", "close_handler_done",
                    "initconn"} : c[g] = ch["I"][g]
        /\ WritePending(ch["I"]) => WritePending(c)
    BY <1>1 DEF Channels, WritePending
  <2>5. /\ InitStdpipe(c).readfd # FD_CLOSED /\ ~InitStdpipe(c).recv_close
        /\ ~InitStdpipe(c).initconn /\ ~InitStdpipe(c).flushing
    BY <1>1, <2>1 DEF InitStdpipe, Channels, STDIN, FD_CLOSED
  <2>. HIDE DEF c
  <2>6. /\ Noticed("I")' => Checked("I", w.c)
        /\ ~w.c.flushing /\ ~w.c.initconn
    BY <1>1, <2>1, <2>2, <2>3, <2>4, <2>5, StillChecked, NewChecked, OnlyAtA, TwoEnds
  <2>. QED  BY <2>2, <2>3, <2>6, DoneWatched, TwoEnds
<1>. QED  BY <1>2, <1>3

LEMMA RecvFailureWatched ==
    ASSUME WInv, RecvFailure PROVE \A d \in End : Watched(d)'
<1>1. CASE ~ch["I"].await_open
  BY <1>1, QuietWatched DEF RecvFailure, Exit, env
<1>2. CASE ch["I"].await_open
  <2>1. PICK w, rest : w = RemoveChannel("I", World("I"), FALSE) /\ rest = Tail(net["I"])
    OBVIOUS
  <2>2. w.c = NoChannel
    BY <2>1, OnlyAtA DEF RemoveChannel, RunCloseHandler, World
  <2>3. Done("I", w, rest, "io") /\ UNCHANGED <<child, sigp>>
    BY <1>2, <2>1 DEF RecvFailure, Processed, env
  <2>. QED  BY <2>2, <2>3, DoneWatched, TwoEnds
<1>. QED  BY <1>1, <1>2

\* More to write is no reason to close.
LEMMA RecvDataWatched ==
    ASSUME WInv, NEW e \in End, NEW type \in Data, RecvData(e, type)
    PROVE  \A d \in End : Watched(d)'
<1>1. Live(e) /\ Watched(e) /\ OInv
  BY DEF RecvData, PacketFor, WInv, Live
<1>2. CASE \E why : Exit(e, why)
  BY <1>2, QuietWatched DEF Exit, env
<1>3. CASE ~\E why : Exit(e, why)
  <2>1. PICK w, rest :
          /\ Done(e, w, rest, "io") /\ UNCHANGED <<child, sigp>>
          /\ WritePending(ch[e]) => WritePending(w.c)
          /\ \A g \in {"readfd", "writefd", "errfd", "extra", "sent_close",
                       "recv_close", "flushing", "close_handler_done",
                       "initconn"} : w.c[g] = ch[e][g]
    BY <1>1, <1>3, RecvDataReads DEF Processed, Data
  <2>. QED  BY <1>1, <2>1, StillChecked, DoneWatched
<1>. QED  BY <1>2, <1>3

LEMMA RecvAdjustWatched ==
    ASSUME WInv, NEW e \in End, RecvAdjust(e) PROVE \A d \in End : Watched(d)'
<1>1. PICK w, rest :
        /\ Done(e, w, rest, "io") /\ w.c # NoChannel
        /\ \A g \in DOMAIN ch[e] \ {"transwindow"} : w.c[g] = ch[e][g]
  BY RecvAdjustReads DEF Processed, WInv
<1>2. /\ ch[e] \in Channels /\ Live(e) /\ Watched(e)
      /\ UNCHANGED <<child, sigp>>
  BY RecvAdjustReads DEF WInv
<1>3. /\ \A g \in {"readfd", "writefd", "errfd", "extra", "sent_close",
                  "recv_close", "flushing", "close_handler_done",
                  "initconn"} : w.c[g] = ch[e][g]
      /\ WritePending(ch[e]) => WritePending(w.c)
  BY <1>1, <1>2 DEF Channels, WritePending
<1>. QED  BY <1>1, <1>2, <1>3, StillChecked, DoneWatched

\* A child that has just been started has not exited.
LEMMA RecvShellWatched == ASSUME WInv, RecvShell PROVE \A d \in End : Watched(d)'
<1>1. HasCheckClose("A") /\ ~ch["A"].initconn /\ ch["A"] \in Channels
  BY ShellFacts DEF WInv, Fresh
<1>2. PICK d : d = IF TypeA = "pty"
                   THEN [ch["A"] EXCEPT !.writefd = PTYFD, !.readfd = PTYFD]
                   ELSE [ch["A"] EXCEPT !.writefd = PIPEIN, !.readfd = PIPEOUT,
                                        !.errfd = PIPEERR]
  OBVIOUS
<1>3. PICK v : v = [World("A") EXCEPT !.c = d]
  OBVIOUS
<1>4. v.c = d /\ ~d.initconn
  BY <1>1, <1>2, <1>3 DEF World, Channels
<1>5. PICK r : r = Tail(net["A"])
  OBVIOUS
<1>6. \/ Done("A", World("A"), r, "io") /\ UNCHANGED <<child, sigp>>
      \/ Done("A", v, r, "io") /\ child' = "running"
  BY <1>2, <1>3, <1>5 DEF RecvShell, Processed
<1>7. CASE Done("A", v, r, "io") /\ child' = "running"
  BY <1>1, <1>4, <1>7, DoneWatched, TwoEnds DEF Noticed
<1>8. CASE Done("A", World("A"), r, "io") /\ UNCHANGED <<child, sigp>>
  <2>1. PICK w : w = World("A")
    OBVIOUS
  <2>2. ch'["A"] = w.c /\ ch'["I"] = ch["I"]
    BY <1>8, <2>1, DoneFacts, TwoEnds DEF WInv, OInv
  <2>3. ch'["A"] = ch["A"] /\ ch'["I"] = ch["I"]
    BY <2>1, <2>2 DEF World
  <2>. QED  BY <1>8, <2>3, StillWatched, TwoEnds DEF WInv
<1>. QED  BY <1>6, <1>7, <1>8

LEMMA ConnectIOWatched ==
    ASSUME WInv, NEW e \in End, ConnectIO(e) PROVE \A d \in End : Watched(d)'
<1>1. PICK connected \in BOOLEAN :
        Done(e, CheckInProgress(e, World(e), connected), net[e], "select")
  BY DEF ConnectIO
<1>2. /\ ~HasCheckClose(e) /\ ~HasCloseHandler(e) /\ UNCHANGED <<child, sigp>>
      /\ ch[e] \in Channels /\ ch[e].writefd # FD_CLOSED /\ ~ch[e].flushing
      /\ ch[e].recv_close => WritePending(ch[e])
  BY TwoEnds DEF ConnectIO, WInv, OInv, IInv, Good, Opening, Connecting, Live, Watched,
     Noticed, Checked, HasCheckClose, HasCloseHandler, Type, env
<1>3. PICK w, rest, d :
        /\ w = CheckInProgress(e, World(e), connected) /\ rest = net[e]
        /\ d = [InitWriteBuf(e, ch[e]) EXCEPT !.readfd = ch[e].writefd,
                                              !.initconn = FALSE]
  OBVIOUS
<1>4. w.c = d \/ w.c = NoChannel
  <2>1. PICK v : v = World(e)
    OBVIOUS
  <2>2. v.c = ch[e] /\ DOMAIN v = {"c", "src", "q", "out", "bad"}
    BY <2>1 DEF World
  <2>. QED  BY <1>2, <1>3, <2>1, <2>2 DEF CheckInProgress, RemoveChannel, RunCloseHandler
<1>5. /\ d.readfd = ch[e].writefd /\ ~d.initconn /\ ~d.flushing
      /\ d.recv_close => WritePending(d)
  BY <1>2, <1>3 DEF InitWriteBuf, Channels, WritePending
<1>. QED  BY <1>1, <1>2, <1>3, <1>4, <1>5, DoneWatched DEF Checked, NothingMoreToSend

\* check_close(): a child that exits meanwhile leaves a signal pending.
LEMMA CheckWatched ==
    ASSUME WInv, NEW e \in End, NEW c, NEW v, Speaks(e, c, v), ~c.initconn,
           ~HasCheckClose(e) => ~v.c.flushing, NEW exits \in BOOLEAN,
           ChildExitsMeanwhile(e, exits), exits => sigp', e = "I" => sigp' = sigp,
           NEW rest, NEW next,
           Done(e, CheckClose(e, v, Exited, Exited \/ exits), rest, next)
    PROVE  \A d \in End : Watched(d)'
<1>1. PICK x1, x2 : x1 = Exited /\ x2 = (Exited \/ exits)
  OBVIOUS
<1>2. PICK w : w = CheckClose(e, v, x1, x2)
  OBVIOUS
<1>3. /\ x1 \in BOOLEAN /\ x2 \in BOOLEAN
      /\ HasCheckClose(e) /\ Noticed(e)' => x1 /\ x2
      /\ e = "I" => child' = child
  BY <1>1, OnlyAtA DEF Exited, Noticed, ChildExitsMeanwhile
<1>4. w.c # NoChannel => ~w.c.initconn
  BY <1>2, <1>3, CheckCloseSpoken DEF Spoken, Kept
<1>5. w.c # NoChannel =>
        /\ ~HasCheckClose(e) => ~w.c.flushing
        /\ (HasCheckClose(e) => x1 /\ x2) => Checked(e, w.c)
  BY <1>2, <1>3, CheckCloseSees
<1>6. Done(e, w, rest, next)
  BY <1>1, <1>2
<1>. QED  BY <1>3, <1>4, <1>5, <1>6, DoneWatched

LEMMA RecvEofOrCloseWatched ==
    ASSUME WInv, NEW e \in End, NEW type \in {"eof", "close"}, RecvEofOrClose(e, type)
    PROVE  \A d \in End : Watched(d)'
<1>1. PICK c \in Channels, v \in Worlds, exits \in BOOLEAN :
             /\ Speaks(e, c, v) /\ v.c = c
             /\ c.initconn = ch[e].initconn /\ c.flushing = ch[e].flushing
             /\ ChildExitsMeanwhile(e, exits) /\ sigp' = (sigp \/ exits)
             /\ Processed(e, CheckClose(e, v, Exited, Exited \/ exits))
  BY EofOrCloseRead DEF WInv
<1>2. ~ch[e].initconn /\ Live(e) /\ Watched(e) /\ sigp \in BOOLEAN
  BY Settled DEF RecvEofOrClose, PacketFor, Packet, WInv, OInv, IInv, TypeOK, Live, Talk
<1>3. PICK rest : rest = Tail(net[e])
  OBVIOUS
<1>4. Done(e, CheckClose(e, v, Exited, Exited \/ exits), rest, "io")
  BY <1>1, <1>3 DEF Processed
<1>5. /\ ~HasCheckClose(e) => ~v.c.flushing
      /\ exits => sigp'
      /\ e = "I" => sigp' = sigp
  BY <1>1, <1>2, OnlyAtA DEF Watched, ChildExitsMeanwhile
<1>. QED  BY <1>1, <1>2, <1>4, <1>5, CheckWatched

\* Without an event nothing has changed, so there is nothing to see.
LEMMA ChannelIOWatched ==
    ASSUME WInv, NEW e \in End, ChannelIO(e) PROVE \A d \in End : Watched(d)'
<1>1. PICK v, exits :
             /\ exits \in BOOLEAN /\ Speaks(e, ch[e], v) /\ v.c.flushing = ch[e].flushing
             /\ ~DoCheckClose(e, ch[e]) => v = World(e)
             /\ exits => DoCheckClose(e, ch[e])
             /\ ChildExitsMeanwhile(e, exits)
             /\ sigp' = IF e = "A" THEN exits ELSE sigp
             /\ Done(e, IF DoCheckClose(e, ch[e])
                        THEN CheckClose(e, v, Exited, Exited \/ exits) ELSE v,
                     net[e], "select")
  BY ChannelIOSays DEF WInv
<1>2. PICK c, rest : c = ch[e] /\ rest = net[e]
  OBVIOUS
<1>3. Live(e) /\ Watched(e) /\ sigp \in BOOLEAN
  BY DEF ChannelIO, WInv, OInv, IInv, TypeOK, Live
<1>4. CASE DoCheckClose(e, ch[e])
  <2>1. ~c.initconn
    <3>1. ch[e] # NoChannel /\ ~(ch[e].initconn /\ "w" \in sel[e]) /\ OInv
      BY DEF ChannelIO, WInv
    <3>. QED  BY <1>2, <1>4, <3>1, NothingToDo
  <2>2. /\ ~HasCheckClose(e) => ~v.c.flushing
        /\ exits => sigp'
        /\ e = "I" => sigp' = sigp
    <3>1. exits => e # "I"
      BY <1>1, OnlyAtA DEF ChildExitsMeanwhile
    <3>2. ~HasCheckClose(e) => ~v.c.flushing
      BY <1>1, <1>3 DEF Watched
    <3>. QED  BY <1>1, <3>1, <3>2, TwoEnds
  <2>3. Done(e, CheckClose(e, v, Exited, Exited \/ exits), rest, "select")
    BY <1>1, <1>2, <1>4
  <2>. QED  BY <1>1, <1>2, <2>1, <2>2, <2>3, CheckWatched
<1>5. CASE ~DoCheckClose(e, ch[e])
  <2>1. Done(e, v, rest, "select") /\ v.c = c /\ UNCHANGED <<child, sigp>>
    BY <1>1, <1>2, <1>3, <1>5, TwoEnds DEF World, ChildExitsMeanwhile, DoCheckClose
  <2>2. /\ Noticed(e)' => Checked(e, c)
        /\ ~HasCheckClose(e) => ~c.flushing
        /\ c.initconn => c.writefd # FD_CLOSED
    BY <1>2, <1>3, <2>1, StillChecked
  <2>. QED  BY <2>1, <2>2, DoneWatched
<1>. QED  BY <1>4, <1>5


LEMMA RequestWatched ==
    ASSUME WInv, RecvWindowChange \/ RecvExitStatus \/ WindowChange
    PROVE  \A d \in End : Watched(d)'
<1>1. PICK e, w, rest, next :
        /\ e \in End /\ w.c = ch[e] /\ ch[e] # NoChannel /\ Done(e, w, rest, next)
        /\ UNCHANGED <<child, sigp>>
  BY RequestReads
<1>2. Live(e) /\ Watched(e)
  BY <1>1 DEF WInv, Live
<1>. QED  BY <1>1, <1>2, StillChecked, DoneWatched

LEMMA HandleWatched ==
    ASSUME WInv, NEW e \in End, Handle(e) PROVE \A d \in End : Watched(d)'
<1>1. CASE UnknownChannel(e)
  <2>1. UNCHANGED <<ch, child, sigp>>
    BY <1>1 DEF UnknownChannel, Exit, env
  <2>. QED  BY <2>1, QuietWatched
<1>2. ASSUME NEW type \in {"data", "ext"}, RecvData(e, type)
      PROVE  \A d \in End : Watched(d)'
  BY <1>2, RecvDataWatched DEF Data
<1>3. CASE RecvAdjust(e) \/ RecvEof(e) \/ RecvClose(e)
  BY <1>3, RecvAdjustWatched, RecvEofOrCloseWatched DEF RecvEof, RecvClose
<1>4. CASE RecvOpen \/ RecvShell \/ RecvConfirmation \/ RecvFailure
  BY <1>4, RecvOpenWatched, RecvShellWatched, RecvConfirmationWatched,
     RecvFailureWatched
<1>5. CASE RecvWindowChange \/ RecvExitStatus
  BY <1>5, RequestWatched
<1>. QED  BY <1>1, <1>2, <1>3, <1>4, <1>5 DEF Handle

LEMMA NextWatched ==
    ASSUME WInv, [Next]_vars PROVE \A d \in End : Watched(d)'
<1>1. CASE UNCHANGED vars
  BY <1>1, QuietWatched DEF vars
<1>2. CASE SendOpen \/ WindowChange
  BY <1>2, SendOpenWatched, RequestWatched
<1>3. CASE ChildExit
  BY <1>3, QuietWatched DEF ChildExit
<1>4. ASSUME NEW e \in End, Handle(e) PROVE \A d \in End : Watched(d)'
  BY <1>4, HandleWatched
<1>5. ASSUME NEW e \in End, IO(e) PROVE \A d \in End : Watched(d)'
  <2>1. CASE NoChannelIO(e)
    BY <2>1, QuietWatched DEF NoChannelIO, env
  <2>2. CASE ConnectIO(e) \/ ChannelIO(e)
    BY <2>2, ConnectIOWatched, ChannelIOWatched
  <2>. QED  BY <1>5, <2>1, <2>2 DEF IO
<1>6. ASSUME NEW e \in End, SelectSome(e) \/ Program(e)
      PROVE  \A d \in End : Watched(d)'
  <2>1. UNCHANGED <<ch, child, sigp>>
    BY <1>6 DEF SelectSome, Select, Program, Produce, ProduceErr, CloseSource,
                CloseErrSource, SinkBreaks, env
  <2>. QED  BY <2>1, QuietWatched
<1>. QED  BY <1>1, <1>2, <1>3, <1>4, <1>5, <1>6 DEF Next

\* No decision of check_close() is overdue in any state, whatever the types, the
\* windows, the faults and the order of events: a CLOSE that is due has been
\* sent, and an exit that has been noticed acted upon, when the step that was
\* the last reason for it ends.
THEOREM NothingPassedOver == Spec => []NothingOverlooked
<1>1. Init => WInv
  <2>1. Init => \A e \in End : ch[e] = NoChannel
    BY DEF Init
  <2>. QED  BY <2>1, InitOrder DEF WInv, Watched, Live
<1>2. WInv /\ [Next]_vars => WInv'
  BY NextOrder, NextWatched DEF WInv
<1>3. WInv => NothingOverlooked
  BY DEF WInv, Watched, NothingOverlooked, Live, Noticed
<1>. QED  BY <1>1, <1>2, <1>3, PTL DEF Spec

=============================================================================
