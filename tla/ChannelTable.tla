---------------------------- MODULE ChannelTable ----------------------------
(***************************************************************************)
(* The table of channels at both ends of a session (common-channel.c):     *)
(* newchannel() and its slots, the numbers by which each end names the     *)
(* other's slots, and opening, closing and removing several channels at    *)
(* once.  The channels are those of forwarded TCP connections, which       *)
(* either end may open for a connection it has accepted (tcp-accept.c).    *)
(*                                                                         *)
(* What a channel carries is one conversation.  The code knows it by the   *)
(* two numbers only; its name, in slots and in packets, is history.        *)
(* Windows and buffers are the subject of module Channel.                  *)
(***************************************************************************)
EXTENDS Integers, Sequences

CONSTANTS
    Conv,              \* connections that are forwarded
    AcceptedBy,        \* the end whose listener accepts each
    MAX_CHANNELS,
    CHAN_EXTEND_SIZE,
    Failing,           \* ends whose connect() may fail
    MaxData,           \* bounds, for each end: packets of data it sends in
    MaxKeepalives,     \* each of the conversations, and keepalives
    NoChan             \* NULL

End == {"C", "S"}
Peer(e) == IF e = "C" THEN "S" ELSE "C"

ASSUME ChannelTableAssumption ==
    /\ MAX_CHANNELS \in Nat \ {0} /\ CHAN_EXTEND_SIZE \in Nat \ {0}
    /\ AcceptedBy \in [Conv -> End] /\ Failing \subseteq End
    /\ MaxData \in [End -> [Conv -> Nat]]
    /\ MaxKeepalives \in [End -> Nat]

\* A session starts with one slot; the table may pass MAX_CHANNELS by less
\* than what it grows by.
Index == 0..MAX_CHANNELS + CHAN_EXTEND_SIZE - 2

\* A channel; reads and writes are its descriptors, pending its buffer.
Channel ==
    [conv : Conv, remotechan : Index, await_open : BOOLEAN,
     initconn : BOOLEAN, sent_eof : BOOLEAN, recv_eof : BOOLEAN,
     sent_close : BOOLEAN, recv_close : BOOLEAN,
     reads : BOOLEAN, writes : BOOLEAN, pending : BOOLEAN]

ASSUME NoChanAssumption == NoChan \notin Channel

VARIABLES
    channels,  \* ses.channels of each end; NoChan from chansize on
    chansize,
    net,       \* packets under way to each end
    exited,    \* ends that have called dropbear_exit()
    begun,     \* history: for each end, the conversations it has heard of,
    sent,      \* and of each the packets of data it has sent
    rcvd,      \* and those that have reached its slot
    asked      \* keepalives sent, for the bound

vars == <<channels, chansize, net, exited, begun, sent, rcvd, asked>>

Occupied(e) == {i \in Index : channels[e][i] # NoChan}

---------------------------------------------------------------------------
(* newchannel(), getchannel() *)

\* The slot newchannel() takes: the first free one, or the first of those
\* it adds.  None when it returns NULL.
NewIndex(e) ==
    {i \in 0..chansize[e] :
       /\ \A j \in 0..i - 1 : channels[e][j] # NoChan
       /\ i < chansize[e] => channels[e][i] = NoChan
       /\ i = chansize[e] => chansize[e] < MAX_CHANNELS}
\* ses.chansize when slot i is taken.
Grown(e, i) ==
    [chansize EXCEPT ![e] = IF i = @ THEN @ + CHAN_EXTEND_SIZE ELSE @]

NewChannel(c, remotechan) ==
    [conv |-> c, remotechan |-> remotechan, await_open |-> FALSE,
     initconn |-> FALSE, sent_eof |-> FALSE, recv_eof |-> FALSE,
     sent_close |-> FALSE, recv_close |-> FALSE,
     reads |-> FALSE, writes |-> FALSE, pending |-> FALSE]

\* The channel has both its descriptors.
Connected(ch) == [ch EXCEPT !.initconn = FALSE, !.reads = TRUE, !.writes = TRUE]

Packet(t, chan, c)     == [t |-> t, chan |-> chan, conv |-> c]
Opening(t, chan, i, c) == [t |-> t, chan |-> chan, conv |-> c, from |-> i]
OpenPacket(i, c)       == [t |-> "OPEN", from |-> i, conv |-> c]

\* Packets go out in order behind those under way, here also behind the one
\* that has just been read.
Send(e, ps) == net' = [net EXCEPT ![Peer(e)] = @ \o ps]
Reply(e, ps) == net' = [net EXCEPT ![e] = Tail(@), ![Peer(e)] = @ \o ps]

---------------------------------------------------------------------------
(* check_close() *)

\* The first part, which removes the channel.
\* Mutant: it is enough to have sent a CLOSE.
AnsweredEarly(ch) == (ch.recv_close \/ ch.sent_close) /\ ~ch.pending
Answered(ch) == ch.recv_close /\ ~ch.pending
CloseReply(ch) ==
    IF ch.sent_close THEN <<>> ELSE <<Packet("CLOSE", ch.remotechan, ch.conv)>>

\* The rest: writefd is closed at the peer's EOF; then EOF and CLOSE.
Shut(ch) == [ch EXCEPT !.writes = @ /\ ~(ch.recv_eof /\ ~ch.pending)]
SaysEof(ch)   == ~ch.sent_eof /\ ~ch.reads
SaysClose(ch) == ~ch.reads /\ ~ch.writes /\ ~ch.sent_close
Closing(ch) ==
    LET s == Shut(ch)
    IN  [s EXCEPT !.sent_eof = @ \/ SaysEof(s) \/ SaysClose(s),
                  !.sent_close = @ \/ SaysClose(s)]
ClosePackets(ch) ==
    LET s == Shut(ch)
    IN  (IF SaysEof(s) THEN <<Packet("EOF", ch.remotechan, ch.conv)>> ELSE <<>>)
        \o (IF SaysClose(s) THEN <<Packet("CLOSE", ch.remotechan, ch.conv)>>
                            ELSE <<>>)

\* What check_close() makes of a channel, and what it sends.
AfterCheck(ch) == IF Answered(ch) THEN NoChan ELSE Closing(ch)
CheckPackets(ch) == IF Answered(ch) THEN CloseReply(ch) ELSE ClosePackets(ch)

---------------------------------------------------------------------------
(* Opening *)

Running(e) == e \notin exited

\* tcp_acceptor(), send_msg_channel_open_init(): a connection is accepted
\* and a channel for it asked for, or it is closed again.
Open(e, c) ==
    /\ Running(e) /\ AcceptedBy[c] = e /\ c \notin begun[e]
    /\ begun' = [begun EXCEPT ![e] = @ \cup {c}]
    /\ \/ /\ NewIndex(e) = {}
          /\ UNCHANGED <<channels, chansize, net>>
       \/ \E i \in NewIndex(e) :
            /\ channels' = [channels EXCEPT ![e][i] =
                 [Connected(NewChannel(c, 0)) EXCEPT !.await_open = TRUE]]
            /\ chansize' = Grown(e, i)
            /\ Send(e, <<OpenPacket(i, c)>>)
    /\ UNCHANGED <<exited, sent, rcvd, asked>>

Arrives(e, t) == Running(e) /\ net[e] # <<>> /\ Head(net[e]).t = t

\* recv_msg_channel_open(), with newtcpdirect(): the connection is made at
\* once or later, or fails; a slot may have been added for it all the same.
\* Mutant: no answer goes out when there is no slot.
RefusalNone(p) == <<>>
Refusal(p) == <<Packet("OPEN_FAILURE", p.from, p.conv)>>
RecvOpen(e) ==
    /\ Arrives(e, "OPEN")
    /\ LET p == Head(net[e])
       IN  /\ begun' = [begun EXCEPT ![e] = @ \cup {p.conv}]
           /\ \/ /\ NewIndex(e) = {}
                 /\ Reply(e, Refusal(p))
                 /\ UNCHANGED <<channels, chansize>>
              \/ \E i \in NewIndex(e) :
                   /\ chansize' = Grown(e, i)
                   /\ \/ /\ channels' = [channels EXCEPT ![e][i] =
                              Connected(NewChannel(p.conv, p.from))]
                         /\ Reply(e, <<Opening("CONFIRMATION", p.from, i, p.conv)>>)
                      \/ /\ channels' = [channels EXCEPT ![e][i] =
                              [NewChannel(p.conv, p.from) EXCEPT
                                 !.initconn = TRUE, !.writes = TRUE]]
                         /\ Reply(e, <<>>)
                      \/ /\ e \in Failing
                         /\ Reply(e, Refusal(p))
                         /\ UNCHANGED channels
    /\ UNCHANGED <<exited, sent, rcvd, asked>>

\* check_in_progress()
CheckInProgress(e, i) ==
    /\ Running(e) /\ i \in Occupied(e) /\ channels[e][i].initconn
    /\ LET ch == channels[e][i]
       IN  \/ /\ channels' = [channels EXCEPT ![e][i] = Connected(ch)]
              /\ Send(e, <<Opening("CONFIRMATION", ch.remotechan, i, ch.conv)>>)
           \/ /\ e \in Failing
              /\ channels' = [channels EXCEPT ![e][i] = NoChan]
              /\ Send(e, <<Packet("OPEN_FAILURE", ch.remotechan, ch.conv)>>)
    /\ UNCHANGED <<chansize, exited, begun, sent, rcvd, asked>>

---------------------------------------------------------------------------
(* Packets for a channel *)

\* getchannel(): the slot a packet names, which must be in use.
Reached(e) == Head(net[e]).chan
Found(e) == Reached(e) < chansize[e] /\ channels[e][Reached(e)] # NoChan

\* The packet at the head is for channel ch, which becomes new, and ps are
\* sent; okay says that the handler does not exit.
Handle(e, okay, new, ps) ==
    IF Found(e) /\ okay
    THEN /\ channels' = [channels EXCEPT ![e][Reached(e)] = new]
         /\ Reply(e, ps)
         /\ UNCHANGED exited
    ELSE /\ exited' = exited \cup {e}
         /\ UNCHANGED <<channels, net>>

\* recv_msg_channel_open_confirmation()
\* Mutant: the peer's number is not taken over.
EstablishedUnnumbered(ch, p) == [ch EXCEPT !.await_open = FALSE]
Established(ch, p) ==
    [ch EXCEPT !.await_open = FALSE, !.remotechan = p.from]
RecvConfirmation(e) ==
    /\ Arrives(e, "CONFIRMATION")
    /\ LET ch == channels[e][Reached(e)]
       IN  Handle(e, ch.await_open, Established(ch, Head(net[e])), <<>>)
    /\ UNCHANGED <<chansize, begun, sent, rcvd, asked>>

\* recv_msg_channel_open_failure()
RecvFailure(e) ==
    /\ Arrives(e, "OPEN_FAILURE")
    /\ Handle(e, channels[e][Reached(e)].await_open, NoChan, <<>>)
    /\ UNCHANGED <<chansize, begun, sent, rcvd, asked>>

\* recv_msg_channel_data(): to the buffer, if there is anyone to read it.
RecvData(e) ==
    /\ Arrives(e, "DATA")
    /\ LET ch == channels[e][Reached(e)]
       IN  /\ Handle(e, ~ch.recv_eof, [ch EXCEPT !.pending = @ \/ ch.writes], <<>>)
           /\ rcvd' = IF Found(e) /\ ~ch.recv_eof
                      THEN [rcvd EXCEPT ![e][ch.conv] = @ + 1] ELSE rcvd
    /\ UNCHANGED <<chansize, begun, sent, asked>>

\* recv_msg_channel_eof(), recv_msg_channel_close()
RecvEof(e) ==
    /\ Arrives(e, "EOF")
    /\ LET ch == [channels[e][Reached(e)] EXCEPT !.recv_eof = TRUE]
       IN  Handle(e, TRUE, AfterCheck(ch), CheckPackets(ch))
    /\ UNCHANGED <<chansize, begun, sent, rcvd, asked>>
RecvClose(e) ==
    /\ Arrives(e, "CLOSE")
    /\ LET ch == [channels[e][Reached(e)] EXCEPT !.recv_eof = TRUE,
                                                 !.recv_close = TRUE]
       IN  Handle(e, TRUE, AfterCheck(ch), CheckPackets(ch))
    /\ UNCHANGED <<chansize, begun, sent, rcvd, asked>>

\* recv_msg_channel_request(): these channels know no requests.
RecvRequest(e) ==
    /\ Arrives(e, "REQUEST")
    /\ LET ch == channels[e][Reached(e)]
       IN  Handle(e, TRUE, ch,
                  IF ch.sent_close THEN <<>>
                  ELSE <<Packet("FAILURE", ch.remotechan, ch.conv)>>)
    /\ UNCHANGED <<chansize, begun, sent, rcvd, asked>>

\* ignore_recv_response()
RecvReply(e) ==
    /\ Arrives(e, "FAILURE")
    /\ Reply(e, <<>>)
    /\ UNCHANGED <<channels, chansize, exited, begun, sent, rcvd, asked>>

---------------------------------------------------------------------------
(* channelio(), keepalives *)

\* What setchannelfds() waits for.
MayRead(e, i) ==
    /\ Running(e) /\ i \in Occupied(e)
    /\ LET ch == channels[e][i] IN ch.reads /\ ~ch.await_open

\* send_msg_channel_data(): data, or the end of it.
SendData(e, i) ==
    /\ MayRead(e, i)
    /\ LET ch == channels[e][i]
       IN  /\ sent[e][ch.conv] < MaxData[e][ch.conv]
           /\ sent' = [sent EXCEPT ![e][ch.conv] = @ + 1]
           /\ Send(e, <<Packet("DATA", ch.remotechan, ch.conv)>>
                      \o CheckPackets(ch))
           /\ channels' = [channels EXCEPT ![e][i] = AfterCheck(ch)]
    /\ UNCHANGED <<chansize, exited, begun, rcvd, asked>>
ReadEnds(e, i) ==
    /\ MayRead(e, i)
    /\ LET ch == [channels[e][i] EXCEPT !.reads = FALSE]
       IN  /\ channels' = [channels EXCEPT ![e][i] = AfterCheck(ch)]
           /\ Send(e, CheckPackets(ch))
    /\ UNCHANGED <<chansize, exited, begun, sent, rcvd, asked>>

\* writechannel(): everything is written, or nobody reads it.
Write(e, i) ==
    /\ Running(e) /\ i \in Occupied(e) /\ channels[e][i].pending
    /\ \E fails \in BOOLEAN :
         LET ch == [channels[e][i] EXCEPT !.pending = FALSE,
                                          !.writes = ~fails]
         IN  /\ channels' = [channels EXCEPT ![e][i] = AfterCheck(ch)]
             /\ Send(e, CheckPackets(ch))
    /\ UNCHANGED <<chansize, exited, begun, sent, rcvd, asked>>

\* get_any_ready_channel()
Ready(e) ==
    {i \in Occupied(e) :
       LET ch == channels[e][i]
       IN  ~(ch.sent_eof \/ ch.recv_eof) /\ ~(ch.await_open \/ ch.initconn)}
FirstReady(e) == {i \in Ready(e) : \A j \in Ready(e) : i <= j}

\* send_msg_keepalive(), on the first channel that is ready; without one it
\* is a global request, which names no channel.
Keepalive(e) ==
    /\ Running(e) /\ asked[e] < MaxKeepalives[e]
    /\ asked' = [asked EXCEPT ![e] = @ + 1]
    /\ \E i \in FirstReady(e) :
         LET ch == channels[e][i]
         IN  Send(e, <<Packet("REQUEST", ch.remotechan, ch.conv)>>)
    /\ UNCHANGED <<channels, chansize, exited, begun, sent, rcvd>>

---------------------------------------------------------------------------

\* chaninitialise(): space for one channel.
Init ==
    /\ channels = [e \in End |-> [i \in Index |-> NoChan]]
    /\ chansize = [e \in End |-> 1]
    /\ net = [e \in End |-> <<>>]
    /\ exited = {}
    /\ begun = [e \in End |-> {}]
    /\ sent = [e \in End |-> [c \in Conv |-> 0]]
    /\ rcvd = [e \in End |-> [c \in Conv |-> 0]]
    /\ asked = [e \in End |-> 0]

\* process_packet() calls one of these.
RecvPacket(e) ==
    \/ RecvOpen(e) \/ RecvConfirmation(e) \/ RecvFailure(e)
    \/ RecvData(e) \/ RecvEof(e) \/ RecvClose(e)
    \/ RecvRequest(e) \/ RecvReply(e)

Next ==
    \E e \in End :
       \/ RecvPacket(e) \/ Keepalive(e)
       \/ \E c \in Conv : Open(e, c)
       \/ \E i \in Index : \/ CheckInProgress(e, i) \/ SendData(e, i)
                           \/ ReadEnds(e, i) \/ Write(e, i)

Spec == Init /\ [][Next]_vars

\* Both processes run; a connect() is answered or times out, and what is
\* written to a local program is read by it, or the program is gone.
Fairness ==
    \A e \in End :
       /\ WF_vars(RecvPacket(e))
       /\ WF_vars(\E i \in Index : CheckInProgress(e, i))
       /\ WF_vars(\E i \in Index : Write(e, i))
FairSpec == Spec /\ Fairness

=============================================================================
