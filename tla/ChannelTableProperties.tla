----------------------- MODULE ChannelTableProperties -----------------------
(* What the tables of channels at the two ends promise. *)
EXTENDS ChannelTable

PacketSet ==
    [t : {"OPEN"}, from : Index, conv : Conv]
    \cup [t : {"CONFIRMATION"}, chan : Index, conv : Conv, from : Index]
    \cup [t : {"OPEN_FAILURE", "DATA", "EOF", "CLOSE", "REQUEST", "FAILURE"},
          chan : Index, conv : Conv]

\* Type invariant.
TypeOK ==
    /\ channels \in [End -> [Index -> Channel \cup {NoChan}]]
    /\ chansize \in [End -> 1..MAX_CHANNELS + CHAN_EXTEND_SIZE - 1]
    /\ \A e \in End : \A i \in Index :
         i >= chansize[e] => channels[e][i] = NoChan
    /\ net \in [End -> Seq(PacketSet)]
    /\ exited \subseteq End
    /\ begun \in [End -> SUBSET Conv]
    /\ sent \in [End -> [Conv -> Nat]] /\ rcvd \in [End -> [Conv -> Nat]]
    /\ asked \in [End -> Nat]

\* The slots of a conversation.
SlotsOf(e, c) == {i \in Occupied(e) : channels[e][i].conv = c}

(* OwnChannel: the number in a packet that is under way names a slot that   *)
(* is in use for the conversation the packet was sent in, whatever has been *)
(* removed and opened there meanwhile; so getchannel() (common-channel.c)   *)
(* never makes an end exit, nor meets the next channel of the slot.         *)
OwnChannel ==
    /\ exited = {}
    /\ \A e \in End : \A k \in 1..Len(net[e]) :
         LET p == net[e][k]
         IN  p.t \notin {"OPEN", "FAILURE"} => p.chan \in SlotsOf(e, p.conv)

(* IsConversations: slots, numbers and flags amount to a private connection *)
(* for each conversation: they implement module Conversations.              *)
Phase(ch) ==
    CASE ch.await_open -> "asking"
      [] ~ch.await_open /\ ch.initconn -> "connecting"
      [] ~ch.await_open /\ ~ch.initconn /\ ch.sent_close -> "closing"
      [] ~ch.await_open /\ ~ch.initconn /\ ~ch.sent_close -> "up"
StateOf(e, c) ==
    IF SlotsOf(e, c) # {}
    THEN Phase(channels[e][CHOOSE i \in SlotsOf(e, c) : TRUE])
    ELSE IF c \in begun[e] THEN "down" ELSE "none"
Conversation == INSTANCE Conversations
    WITH state <- [e \in End |-> [c \in Conv |-> StateOf(e, c)]]
IsConversations == Conversation!Spec

(* NobodyWaitsInVain: an end that waits, for the answer to an OPEN or for   *)
(* the CLOSE that answers its own, waits for something: a packet of this    *)
(* conversation that is under way to either end, or a peer that is still    *)
(* connecting, or still writing out what it had received before the CLOSE.  *)
(* It is what makes SlotsReturn a matter of both ends going on.             *)
OnItsWay(e, t, c) == \E k \in 1..Len(net[e]) : net[e][k].t = t /\ net[e][k].conv = c
NobodyWaitsInVain ==
    \A e \in End, c \in Conv : \A i \in SlotsOf(e, c) :
      LET Peers == {channels[Peer(e)][j] : j \in SlotsOf(Peer(e), c)}
      IN  /\ channels[e][i].await_open =>
               \/ OnItsWay(Peer(e), "OPEN", c)
               \/ OnItsWay(e, "CONFIRMATION", c) \/ OnItsWay(e, "OPEN_FAILURE", c)
               \/ \E s \in Peers : s.initconn
          /\ channels[e][i].sent_close =>
               \/ OnItsWay(Peer(e), "CLOSE", c) \/ OnItsWay(e, "CLOSE", c)
               \/ \E s \in Peers : s.recv_close /\ s.pending

(* SlotsReturn: an end that asks for a channel is answered, and a channel   *)
(* that one end has closed is removed at both, however many others there    *)
(* are; nobody has to send anything more or close for it.                   *)
Waiting(c) == \E e \in End : StateOf(e, c) \in {"asking", "closing"}
SlotsReturn == \A c \in Conv : Waiting(c) ~> ~Waiting(c)

=============================================================================
