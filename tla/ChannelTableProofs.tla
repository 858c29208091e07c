------------------------- MODULE ChannelTableProofs -------------------------
(***************************************************************************)
(* A packet never meets another channel than its own, for any number of    *)
(* conversations and any size of the table.  The argument goes by          *)
(* conversation: what the two ends and the packets under way know of one   *)
(* fits together (ConvInv), and a step changes that of one conversation    *)
(* only.  The order of packets enters through what may follow what         *)
(* (Ordered); everything else speaks of the set of packets under way.      *)
(*                                                                         *)
(* The invariant is stated of any two tables K, any mail M and any set B   *)
(* of ends that have begun, so that a handler can be followed through what *)
(* it does before check_close() to what check_close() does.                *)
(*                                                                         *)
(* The second part shows that the tables implement module Conversations.   *)
(* To the invariant it adds that what has been sent and not read is under  *)
(* way (Counted) and that both ends have heard of what one of them uses    *)
(* (Heard); then each handler is one step of one conversation, or of none. *)
(***************************************************************************)
EXTENDS ChannelTableProperties, FiniteSetTheorems, SequenceTheorems, TLAPS

BodyType == {"DATA", "EOF", "CLOSE", "REQUEST"}
Some(S, t) == \E m \in S : m.t = t

\* q may follow p on the wire.
After(p, q) ==
    p.conv = q.conv /\ p.t # "FAILURE" /\ q.t # "FAILURE" =>
      /\ p.t \notin {"OPEN", "OPEN_FAILURE", "CLOSE"}
      /\ q.t \notin {"OPEN", "CONFIRMATION", "OPEN_FAILURE"}
      /\ p.t = "EOF" => q.t # "DATA"
Ordered(n) == \A j, k \in 1..Len(n) : j < k => After(n[j], n[k])

\* What is under way to an end, and what of it belongs to a conversation; a
\* reply to a keepalive is ignored by its number.
Msgs(n) == {n[k] : k \in 1..Len(n)}
MailOf(n, c) == {m \in Msgs(n) : m.conv = c /\ m.t # "FAILURE"}

Mail(c) == [e \in End |-> MailOf(net[e], c)]

\* A channel by itself.
FlagsOK(ch) ==
    /\ ch.await_open => ch.reads /\ ch.writes /\ ~ch.initconn
    /\ ch.initconn => ~ch.reads /\ ch.writes
    /\ ch.await_open \/ ch.initconn =>
         ~ch.sent_eof /\ ~ch.recv_eof /\ ~ch.pending
    /\ ch.sent_close => ch.sent_eof /\ ~ch.writes
    /\ ch.sent_eof => ~ch.reads
    /\ ch.pending => ch.writes
    /\ ch.recv_close => ch.recv_eof

Slots(K, e, c) == {i \in Index : K[e][i] # NoChan /\ K[e][i].conv = c}

\* A packet m of conversation c under way to e.
MailOK(K, M, B, c, e, m) ==
    /\ m.t \in BodyType \cup {"OPEN", "CONFIRMATION", "OPEN_FAILURE"}
    /\ m.t = "OPEN" => /\ e \notin B
                       /\ m.from \in Slots(K, Peer(e), c)
                       /\ K[Peer(e)][m.from].await_open
    /\ m.t # "OPEN" => /\ m.chan \in Slots(K, e, c)
                       /\ ~K[e][m.chan].initconn /\ ~K[e][m.chan].recv_close
    /\ m.t = "CONFIRMATION" =>
         /\ K[e][m.chan].await_open
         /\ m.from \in Slots(K, Peer(e), c)
         /\ ~K[Peer(e)][m.from].await_open /\ ~K[Peer(e)][m.from].initconn
         /\ K[Peer(e)][m.from].remotechan = m.chan
         /\ ~K[Peer(e)][m.from].recv_eof
    /\ m.t = "OPEN_FAILURE" => /\ K[e][m.chan].await_open
                               /\ Slots(K, Peer(e), c) = {}
    /\ m.t \in BodyType /\ K[e][m.chan].await_open =>
         Some(M[e], "CONFIRMATION")
    /\ m.t = "DATA" => ~K[e][m.chan].recv_eof
    /\ m.t = "EOF" => \A j \in Slots(K, Peer(e), c) : K[Peer(e)][j].sent_eof
    /\ m.t = "CLOSE" =>
         \A j \in Slots(K, Peer(e), c) : K[Peer(e)][j].sent_close

\* Channel ch at e, in slot i, and its peer s.
Paired(ch, s, i, Me, Mf) ==
    /\ ~s.initconn
    /\ s.await_open => Some(Mf, "CONFIRMATION")
    /\ ~s.await_open => s.remotechan = i
    /\ s.recv_eof => ch.sent_eof
    /\ s.recv_close => ch.sent_close
    /\ ch.sent_close => s.recv_close \/ Some(Mf, "CLOSE")
SlotOK(K, M, c, e, i) ==
    LET ch == K[e][i]
        f == Peer(e)
    IN  /\ ch.await_open => \/ Some(M[f], "OPEN")
                            \/ Slots(K, f, c) # {}
                            \/ Some(M[e], "OPEN_FAILURE")
        /\ ch.initconn => /\ ch.remotechan \in Slots(K, f, c)
                          /\ K[f][ch.remotechan].await_open
        /\ ~ch.await_open /\ ~ch.initconn =>
             /\ Slots(K, f, c) = {} =>
                  ch.sent_close /\ (Some(M[e], "CLOSE") \/ ch.recv_close)
             /\ Slots(K, f, c) # {} =>
                  /\ ch.remotechan \in Slots(K, f, c)
                  /\ Paired(ch, K[f][ch.remotechan], i, M[e], M[f])

\* What end e knows of conversation c.
EndInv(K, M, B, c, e) ==
    /\ Slots(K, e, c) # {} => e \in B
    /\ M[e] # {} => Peer(e) \in B
    /\ e \in B /\ AcceptedBy[c] # e => Peer(e) \in B
    /\ \A i, j \in Slots(K, e, c) : i = j
    /\ \A m \in M[e] : MailOK(K, M, B, c, e, m)
    /\ \A i \in Slots(K, e, c) : FlagsOK(K[e][i]) /\ SlotOK(K, M, c, e, i)
ConvInv(K, M, B, c) == \A e \in End : EndInv(K, M, B, c, e)

Begun(c) == {e \in End : c \in begun[e]}
IInv == /\ TypeOK /\ exited = {}
        /\ \A e \in End : Ordered(net[e])
        /\ \A e \in End : \A i \in Occupied(e) : ~Answered(channels[e][i])
        /\ \A c \in Conv : ConvInv(channels, Mail(c), Begun(c), c)

---------------------------------------------------------------------------
(* Facts about ends and channels *)

LEMMA PeerFacts ==
    ASSUME NEW e \in End
    PROVE  /\ Peer(e) \in End /\ Peer(e) # e /\ Peer(Peer(e)) = e
           /\ \A x \in End : x = e \/ x = Peer(e)
BY DEF End, Peer

\* Channel new is ch but for what check_close() sets.
Closed(ch, new) ==
    /\ new \in Channel
    /\ \A g \in {"conv", "remotechan", "await_open", "initconn", "recv_eof",
                 "recv_close", "reads", "pending"} : new[g] = ch[g]
    /\ new.writes = (ch.writes /\ ~(ch.recv_eof /\ ~ch.pending))
    /\ new.sent_close = (ch.sent_close \/ (~ch.reads /\ ~new.writes))
    /\ new.sent_eof = (ch.sent_eof \/ ~ch.reads)

LEMMA ClosingCloses ==
    ASSUME NEW ch \in Channel
    PROVE  Closed(ch, Closing(ch))
<1>1. Shut(ch) \in Channel
  BY DEF Shut, Channel
<1>2. Closing(ch) \in Channel
  BY <1>1 DEF Closing, Channel, SaysEof, SaysClose
<1>. QED  BY <1>1, <1>2 DEF Closed, Closing, Shut, SaysEof, SaysClose, Channel

---------------------------------------------------------------------------
(* What a handler does to a conversation *)

\* Tables L are K with another channel in slot i of e, for conversation c as
\* before.
Replaced(K, L, c, e, i) ==
    /\ i \in Slots(K, e, c)
    /\ Slots(L, e, c) = Slots(K, e, c)
    /\ Slots(L, Peer(e), c) = Slots(K, Peer(e), c)
    /\ L[Peer(e)] = K[Peer(e)]

\* The rest of check_close(), which may send an EOF and a CLOSE.
LEMMA ClosingKeeps ==
    ASSUME NEW K, NEW L, NEW M, NEW N, NEW B, NEW c, NEW e \in End, NEW i,
           NEW ch, ch = K[e][i], NEW new, new = L[e][i],
           ConvInv(K, M, B, c), Replaced(K, L, c, e, i),
           Closed(ch, new), ~Answered(ch), ~ch.await_open, ~ch.initconn,
           N[e] = M[e], M[Peer(e)] \subseteq N[Peer(e)],
           \A m \in N[Peer(e)] \ M[Peer(e)] :
              /\ m.chan = ch.remotechan
              /\ \/ m.t = "EOF" /\ ~ch.sent_eof /\ new.sent_eof
                 \/ m.t = "CLOSE" /\ ~ch.sent_close /\ new.sent_close,
           new.sent_close => ch.sent_close \/ Some(N[Peer(e)], "CLOSE")
    PROVE  ConvInv(L, N, B, c)
<1>. DEFINE f == Peer(e)
<1>f. f \in End /\ f # e /\ Peer(f) = e /\ \A x \in End : x = e \/ x = f
  BY PeerFacts
<1>i. EndInv(K, M, B, c, e) /\ EndInv(K, M, B, c, f)
  BY <1>f DEF ConvInv
<1>s. /\ i \in Slots(K, e, c)
      /\ Slots(L, e, c) = Slots(K, e, c) /\ Slots(L, f, c) = Slots(K, f, c)
      /\ L[f] = K[f]
      /\ \A j \in Slots(K, e, c) : j = i
  BY <1>i DEF Replaced, EndInv
<1>n. /\ new.conv = ch.conv /\ new.remotechan = ch.remotechan
      /\ new.await_open = ch.await_open /\ new.initconn = ch.initconn
      /\ new.recv_eof = ch.recv_eof /\ new.recv_close = ch.recv_close
      /\ new.reads = ch.reads /\ new.pending = ch.pending
      /\ new.writes = (ch.writes /\ ~(ch.recv_eof /\ ~ch.pending))
      /\ new.sent_close = (ch.sent_close \/ (~ch.reads /\ ~new.writes))
      /\ new.sent_eof = (ch.sent_eof \/ ~ch.reads)
      /\ ch.sent_eof => new.sent_eof
      /\ ch.sent_close => new.sent_close
  BY DEF Closed
<1>k. FlagsOK(ch) /\ SlotOK(K, M, c, e, i)
  BY <1>i, <1>s DEF EndInv
<1>1. FlagsOK(new)
  BY <1>k, <1>n DEF FlagsOK, Answered
<1>2. SlotOK(L, N, c, e, i)
  BY <1>k, <1>n, <1>s, <1>f DEF SlotOK, Paired, Some
<1>3. ASSUME NEW m \in M[e] PROVE MailOK(L, N, B, c, e, m)
  BY <1>i, <1>n, <1>s, <1>f DEF EndInv, MailOK
<1>4. EndInv(L, N, B, c, e)
  BY <1>1, <1>2, <1>3, <1>i, <1>s, <1>f DEF EndInv
<1>5. ASSUME NEW m \in M[f] PROVE MailOK(L, N, B, c, f, m)
  <2>1. MailOK(K, M, B, c, f, m)
    BY <1>i DEF EndInv
  <2>2. \A j \in Slots(K, e, c) : K[e][j] = ch /\ L[e][j] = new
    BY <1>s
  <2>3. Some(M[f], "CONFIRMATION") => Some(N[f], "CONFIRMATION")
    BY DEF Some
  <2>4. \A j \in Slots(K, e, c) :
           /\ L[e][j].await_open = K[e][j].await_open
           /\ L[e][j].initconn = K[e][j].initconn
           /\ L[e][j].remotechan = K[e][j].remotechan
           /\ L[e][j].recv_eof = K[e][j].recv_eof
           /\ K[e][j].sent_eof => L[e][j].sent_eof
           /\ K[e][j].sent_close => L[e][j].sent_close
    BY <2>2, <1>n
  <2>. HIDE DEF f
  <2>5. m.t = "OPEN" => /\ f \notin B /\ m.from \in Slots(L, e, c)
                        /\ L[e][m.from].await_open
    BY <2>1, <2>4, <1>s, <1>f DEF MailOK
  <2>6. m.t = "CONFIRMATION" =>
          /\ L[f][m.chan].await_open
          /\ m.from \in Slots(L, e, c)
          /\ ~L[e][m.from].await_open /\ ~L[e][m.from].initconn
          /\ L[e][m.from].remotechan = m.chan
          /\ ~L[e][m.from].recv_eof
    BY <2>1, <2>4, <1>s, <1>f DEF MailOK
  <2>7. /\ m.t = "EOF" => \A j \in Slots(L, e, c) : L[e][j].sent_eof
        /\ m.t = "CLOSE" => \A j \in Slots(L, e, c) : L[e][j].sent_close
    BY <2>1, <2>4, <1>s, <1>f DEF MailOK
  <2>8. /\ m.t # "OPEN" => /\ m.chan \in Slots(L, f, c)
                           /\ ~L[f][m.chan].initconn
                           /\ ~L[f][m.chan].recv_close
        /\ m.t = "OPEN_FAILURE" => /\ L[f][m.chan].await_open
                                   /\ Slots(L, e, c) = {}
        /\ m.t \in BodyType /\ L[f][m.chan].await_open =>
             Some(N[f], "CONFIRMATION")
        /\ m.t = "DATA" => ~L[f][m.chan].recv_eof
    BY <2>1, <2>3, <1>s, <1>f DEF MailOK
  <2>9. m.t \in BodyType \cup {"OPEN", "CONFIRMATION", "OPEN_FAILURE"}
    BY <2>1 DEF MailOK
  <2>. QED  BY <2>5, <2>6, <2>7, <2>8, <2>9, <1>f DEF MailOK
<1>6. ASSUME NEW m \in N[f] \ M[f] PROVE MailOK(L, N, B, c, f, m)
  <2>1. m.t \in {"EOF", "CLOSE"} /\ m.chan = ch.remotechan /\ ~ch.sent_close
    BY <1>k DEF FlagsOK
  <2>2. /\ ch.remotechan \in Slots(K, f, c)
        /\ Paired(ch, K[f][ch.remotechan], i, M[e], M[f])
    BY <2>1, <1>k DEF SlotOK
  <2>3. /\ m.t = "EOF" => new.sent_eof
        /\ m.t = "CLOSE" => new.sent_close
    OBVIOUS
  <2>4. /\ ~K[f][m.chan].initconn /\ ~K[f][m.chan].recv_close
        /\ m.t = "DATA" => ~K[f][m.chan].recv_eof
        /\ K[f][m.chan].await_open => Some(M[f], "CONFIRMATION")
    BY <2>1, <2>2 DEF Paired
  <2>5. Some(M[f], "CONFIRMATION") => Some(N[f], "CONFIRMATION")
    BY DEF Some
  <2>6. \A j \in Slots(L, e, c) : L[e][j] = new
    BY <1>s
  <2>7. m.chan \in Slots(L, f, c) /\ L[f][m.chan] = K[f][m.chan]
    BY <2>1, <2>2, <1>s
  <2>. QED  BY <2>1, <2>3, <2>4, <2>5, <2>6, <2>7, <1>f DEF MailOK, BodyType
<1>7. ASSUME NEW j \in Slots(K, f, c)
      PROVE  FlagsOK(L[f][j]) /\ SlotOK(L, N, c, f, j)
  <2>1. FlagsOK(K[f][j]) /\ SlotOK(K, M, c, f, j)
    BY <1>i DEF EndInv
  <2>2. \A k \in Slots(K, e, c) : K[e][k] = ch /\ L[e][k] = new
    BY <1>s
  <2>3. \A t : Some(M[f], t) => Some(N[f], t)
    BY DEF Some
  <2>4. PICK s : s = K[f][j]
    OBVIOUS
  <2>5. L[f][j] = s
    BY <1>s, <2>4
  <2>6. ASSUME NEW k \in Slots(K, e, c), Paired(s, ch, j, M[f], M[e])
        PROVE  Paired(s, new, j, N[f], N[e])
    BY <2>6, <1>n DEF Paired
  <2>7. s.await_open => \/ Some(N[e], "OPEN")
                        \/ Slots(L, e, c) # {}
                        \/ Some(N[f], "OPEN_FAILURE")
    BY <2>1, <2>3, <2>4, <1>s, <1>f DEF SlotOK
  <2>8. s.initconn => /\ s.remotechan \in Slots(L, e, c)
                      /\ L[e][s.remotechan].await_open
    BY <2>1, <2>2, <2>4, <1>n, <1>s, <1>f DEF SlotOK
  <2>9. ASSUME ~s.await_open, ~s.initconn
        PROVE  /\ Slots(L, e, c) = {} =>
                     s.sent_close /\ (Some(N[f], "CLOSE") \/ s.recv_close)
               /\ Slots(L, e, c) # {} =>
                     /\ s.remotechan \in Slots(L, e, c)
                     /\ Paired(s, L[e][s.remotechan], j, N[f], N[e])
    <3>1. Slots(K, e, c) # {} => s.remotechan \in Slots(K, e, c)
      BY <2>1, <2>4, <2>9, <1>f DEF SlotOK
    <3>2. Slots(K, e, c) # {} => Paired(s, ch, j, M[f], M[e])
      BY <2>1, <2>2, <2>4, <2>9, <3>1, <1>f DEF SlotOK
    <3>. QED  BY <3>1, <3>2, <2>2, <2>6, <1>s
  <2>. QED  BY <2>1, <2>4, <2>5, <2>7, <2>8, <2>9, <1>f DEF SlotOK
<1>8. EndInv(L, N, B, c, f)
  BY <1>5, <1>6, <1>7, <1>i, <1>s, <1>f DEF EndInv
<1>. QED  BY <1>4, <1>8, <1>f DEF ConvInv

\* The first part of check_close(), which removes the channel and may answer.
LEMMA RemovingKeeps ==
    ASSUME NEW K, NEW L, NEW M, NEW N, NEW B, NEW c, NEW e \in End, NEW i,
           NEW ch, ch = K[e][i],
           ConvInv(K, M, B, c), i \in Slots(K, e, c),
           Slots(L, e, c) = {}, Slots(L, Peer(e), c) = Slots(K, Peer(e), c),
           L[Peer(e)] = K[Peer(e)],
           ch.recv_close, ~ch.await_open, ~ch.initconn,
           N[e] = M[e], M[Peer(e)] \subseteq N[Peer(e)],
           \A m \in N[Peer(e)] \ M[Peer(e)] :
              m.chan = ch.remotechan /\ m.t = "CLOSE" /\ ~ch.sent_close,
           ch.sent_close \/ Some(N[Peer(e)], "CLOSE")
    PROVE  ConvInv(L, N, B, c)
<1>. DEFINE f == Peer(e)
<1>f. f \in End /\ f # e /\ Peer(f) = e /\ \A x \in End : x = e \/ x = f
  BY PeerFacts
<1>i. EndInv(K, M, B, c, e) /\ EndInv(K, M, B, c, f)
  BY <1>f DEF ConvInv
<1>s. \A j \in Slots(K, e, c) : K[e][j] = ch
  BY <1>i DEF EndInv
<1>k. FlagsOK(ch) /\ SlotOK(K, M, c, e, i)
  BY <1>i DEF EndInv
<1>1. e \in B /\ M[e] = {}
  <2>1. e \in B
    BY <1>i DEF EndInv
  <2>2. ASSUME NEW m \in M[e] PROVE FALSE
    <3>1. MailOK(K, M, B, c, e, m)
      BY <1>i DEF EndInv
    <3>2. m.chan \in Slots(K, e, c) /\ ~K[e][m.chan].recv_close
      BY ONLY <2>1, <3>1 DEF MailOK
    <3>. QED  BY <3>2, <1>s
  <2>. QED  BY <2>1, <2>2
<1>2. EndInv(L, N, B, c, e)
  BY <1>1, <1>i, <1>f DEF EndInv
<1>3. ASSUME NEW m \in M[f] PROVE MailOK(L, N, B, c, f, m)
  <2>1. MailOK(K, M, B, c, f, m)
    BY <1>i DEF EndInv
  <2>2. Some(M[f], "CONFIRMATION") => Some(N[f], "CONFIRMATION")
    BY DEF Some
  <2>. QED  BY <2>1, <2>2, <1>k, <1>s, <1>f DEF MailOK, FlagsOK
<1>4. ASSUME NEW m \in N[f] \ M[f] PROVE MailOK(L, N, B, c, f, m)
  <2>1. m.t = "CLOSE" /\ m.chan = ch.remotechan /\ ~ch.sent_close
    OBVIOUS
  <2>2. /\ ch.remotechan \in Slots(K, f, c)
        /\ Paired(ch, K[f][ch.remotechan], i, M[e], M[f])
    BY <2>1, <1>k DEF SlotOK
  <2>. QED  BY <2>1, <2>2, <1>f DEF MailOK, Paired, Some, BodyType
<1>5. ASSUME NEW j \in Slots(K, f, c)
      PROVE  FlagsOK(L[f][j]) /\ SlotOK(L, N, c, f, j)
  <2>1. FlagsOK(K[f][j]) /\ SlotOK(K, M, c, f, j)
    BY <1>i DEF EndInv
  <2>2. /\ ch.remotechan \in Slots(K, f, c)
        /\ Paired(ch, K[f][ch.remotechan], i, M[e], M[f])
    BY <1>k DEF SlotOK
  <2>3. ch.remotechan = j
    BY <2>2, <1>i DEF EndInv
  <2>4. K[f][j].recv_close \/ Some(N[f], "CLOSE")
    BY <2>2, <2>3 DEF Paired, Some
  <2>5. ~K[f][j].initconn /\ ~K[f][j].await_open /\ K[f][j].sent_close
    <3>1. ~K[f][j].initconn
      BY <2>2, <2>3 DEF Paired
    <3>2. ~K[f][j].await_open
      <4>. SUFFICES ASSUME K[f][j].await_open PROVE FALSE
        OBVIOUS
      <4>1. PICK m \in M[f] : m.t = "CONFIRMATION"
        BY <2>2, <2>3 DEF Paired, Some
      <4>2. MailOK(K, M, B, c, f, m)
        BY <1>i DEF EndInv
      <4>3. m.from \in Slots(K, e, c) /\ ~K[e][m.from].recv_eof
        BY <4>1, <4>2, <1>f DEF MailOK
      <4>. QED  BY <4>3, <1>s, <1>k DEF FlagsOK
    <3>3. K[f][j].remotechan = i
      BY <2>2, <2>3, <3>2 DEF Paired
    <3>4. Paired(K[f][j], ch, j, M[f], M[e])
      BY <2>1, <3>1, <3>2, <3>3, <1>f DEF SlotOK
    <3>5. K[f][j].sent_close
      BY <3>4 DEF Paired
    <3>. QED  BY <3>1, <3>2, <3>5
  <2>. QED  BY <2>1, <2>4, <2>5, <1>f DEF SlotOK
<1>6. EndInv(L, N, B, c, f)
  BY <1>1, <1>3, <1>4, <1>5, <1>i, <1>f DEF EndInv
<1>. QED  BY <1>2, <1>6, <1>f DEF ConvInv

\* What happens to a channel that is open before check_close() looks at it:
\* a packet of it has been read, data or a request sent, a descriptor closed.
Amends(ch, new) ==
    /\ ~ch.await_open /\ ~ch.initconn /\ FlagsOK(new)
    /\ \A g \in {"conv", "remotechan", "await_open", "initconn", "sent_eof",
                 "sent_close"} : new[g] = ch[g]
    /\ ch.recv_eof => new.recv_eof
    /\ ch.recv_close => new.recv_close
AmendsMail(M, N, e, ch, new) ==
    /\ N[e] \subseteq M[e] /\ M[Peer(e)] \subseteq N[Peer(e)]
    /\ \A m \in M[e] \ N[e] : m.t = "CLOSE" => new.recv_close
    /\ new.recv_eof /\ ~ch.recv_eof =>
         /\ Some(M[e], "EOF") \/ Some(M[e], "CLOSE")
         /\ \A m \in N[e] : m.t # "DATA"
    /\ new.recv_close /\ ~ch.recv_close => Some(M[e], "CLOSE") /\ N[e] = {}
    /\ \A m \in N[Peer(e)] \ M[Peer(e)] :
         m.chan = ch.remotechan /\ m.t \in {"DATA", "REQUEST"} /\ ~ch.sent_eof
LEMMA AmendingKeeps ==
    ASSUME NEW K, NEW L, NEW M, NEW N, NEW B, NEW c, NEW e \in End, NEW i,
           ConvInv(K, M, B, c), Replaced(K, L, c, e, i),
           Amends(K[e][i], L[e][i]), AmendsMail(M, N, e, K[e][i], L[e][i])
    PROVE  ConvInv(L, N, B, c)
<1>. PICK ch : ch = K[e][i]
  OBVIOUS
<1>. PICK new : new = L[e][i]
  OBVIOUS
<1>m. /\ ~ch.await_open /\ ~ch.initconn /\ FlagsOK(new)
      /\ ch.recv_eof => new.recv_eof
      /\ ch.recv_close => new.recv_close
      /\ N[e] \subseteq M[e] /\ M[Peer(e)] \subseteq N[Peer(e)]
      /\ \A m \in M[e] \ N[e] : m.t = "CLOSE" => new.recv_close
      /\ new.recv_eof /\ ~ch.recv_eof =>
           /\ Some(M[e], "EOF") \/ Some(M[e], "CLOSE")
           /\ \A m \in N[e] : m.t # "DATA"
      /\ new.recv_close /\ ~ch.recv_close => Some(M[e], "CLOSE") /\ N[e] = {}
      /\ \A m \in N[Peer(e)] \ M[Peer(e)] :
           m.chan = ch.remotechan /\ m.t \in {"DATA", "REQUEST"} /\ ~ch.sent_eof
  BY DEF Amends, AmendsMail
<1>. DEFINE f == Peer(e)
<1>f. f \in End /\ f # e /\ Peer(f) = e /\ \A x \in End : x = e \/ x = f
  BY PeerFacts
<1>i. EndInv(K, M, B, c, e) /\ EndInv(K, M, B, c, f)
  BY <1>f DEF ConvInv
<1>s. /\ i \in Slots(K, e, c)
      /\ Slots(L, e, c) = Slots(K, e, c) /\ Slots(L, f, c) = Slots(K, f, c)
      /\ L[f] = K[f]
      /\ \A j \in Slots(K, e, c) : j = i
  BY <1>i DEF Replaced, EndInv
<1>n. /\ new.conv = ch.conv /\ new.remotechan = ch.remotechan
      /\ new.await_open = ch.await_open /\ new.initconn = ch.initconn
      /\ new.sent_eof = ch.sent_eof /\ new.sent_close = ch.sent_close
  BY DEF Amends
<1>. USE <1>m
<1>k. FlagsOK(ch) /\ SlotOK(K, M, c, e, i)
  BY <1>i, <1>s DEF EndInv
<1>e. \A j \in Slots(K, f, c) :
        /\ Some(M[e], "EOF") => K[f][j].sent_eof
        /\ Some(M[e], "CLOSE") => K[f][j].sent_eof /\ K[f][j].sent_close
  BY <1>i, <1>f DEF EndInv, MailOK, Some, FlagsOK
<1>r. ASSUME NEW j \in Slots(K, f, c)
      PROVE  /\ new.recv_eof => ch.recv_eof \/ K[f][j].sent_eof
             /\ new.recv_close => ch.recv_close \/ K[f][j].sent_close
  BY <1>e
<1>1. Some(M[e], "CLOSE") => Some(N[e], "CLOSE") \/ new.recv_close
  BY DEF Some
<1>2. SlotOK(L, N, c, e, i)
  BY <1>k, <1>n, <1>s, <1>f, <1>1 DEF SlotOK, Paired, Some
<1>3. ASSUME NEW m \in N[e] PROVE MailOK(L, N, B, c, e, m)
  <2>1. MailOK(K, M, B, c, e, m)
    BY <1>i DEF EndInv
  <2>2. m.t = "DATA" => ~new.recv_eof
    BY <2>1, <1>s DEF MailOK
  <2>3. m.t # "OPEN" => ~new.recv_close
    BY <2>1, <1>s DEF MailOK
  <2>. QED  BY <2>1, <2>2, <2>3, <1>i, <1>n, <1>s, <1>f DEF EndInv, MailOK
<1>4. EndInv(L, N, B, c, e)
  BY <1>2, <1>3, <1>i, <1>s, <1>f DEF EndInv
<1>5. ASSUME NEW m \in M[f] PROVE MailOK(L, N, B, c, f, m)
  <2>1. MailOK(K, M, B, c, f, m)
    BY <1>i DEF EndInv
  <2>2. \A j \in Slots(K, e, c) : K[e][j] = ch /\ L[e][j] = new
    BY <1>s
  <2>3. Some(M[f], "CONFIRMATION") => Some(N[f], "CONFIRMATION")
    BY DEF Some
  <2>4. m.t = "CONFIRMATION" => ~new.recv_eof
    <3>. SUFFICES ASSUME m.t = "CONFIRMATION" PROVE ~new.recv_eof
      OBVIOUS
    <3>1. m.chan \in Slots(K, f, c) /\ K[f][m.chan].await_open /\ ~ch.recv_eof
      BY <2>1, <2>2, <1>f DEF MailOK
    <3>2. ~K[f][m.chan].sent_eof
      BY <3>1, <1>i DEF EndInv, FlagsOK
    <3>. QED  BY <3>1, <3>2, <1>r
  <2>5. \A j \in Slots(K, e, c) :
           /\ L[e][j].await_open = K[e][j].await_open
           /\ L[e][j].initconn = K[e][j].initconn
           /\ L[e][j].remotechan = K[e][j].remotechan
           /\ L[e][j].sent_eof = K[e][j].sent_eof
           /\ L[e][j].sent_close = K[e][j].sent_close
    BY <2>2, <1>n
  <2>. HIDE <1>m DEF f
  <2>6. m.t = "OPEN" => /\ f \notin B /\ m.from \in Slots(L, e, c)
                        /\ L[e][m.from].await_open
    BY <2>1, <2>5, <1>s, <1>f DEF MailOK
  <2>7. m.t = "CONFIRMATION" =>
          /\ L[f][m.chan].await_open
          /\ m.from \in Slots(L, e, c)
          /\ ~L[e][m.from].await_open /\ ~L[e][m.from].initconn
          /\ L[e][m.from].remotechan = m.chan
          /\ ~L[e][m.from].recv_eof
    BY <2>1, <2>2, <2>4, <2>5, <1>s, <1>f DEF MailOK
  <2>8. /\ m.t = "EOF" => \A j \in Slots(L, e, c) : L[e][j].sent_eof
        /\ m.t = "CLOSE" => \A j \in Slots(L, e, c) : L[e][j].sent_close
    BY <2>1, <2>5, <1>s, <1>f DEF MailOK
  <2>9. /\ m.t # "OPEN" => /\ m.chan \in Slots(L, f, c)
                           /\ ~L[f][m.chan].initconn
                           /\ ~L[f][m.chan].recv_close
        /\ m.t = "OPEN_FAILURE" => /\ L[f][m.chan].await_open
                                   /\ Slots(L, e, c) = {}
        /\ m.t \in BodyType /\ L[f][m.chan].await_open =>
             Some(N[f], "CONFIRMATION")
        /\ m.t = "DATA" => ~L[f][m.chan].recv_eof
    BY <2>1, <2>3, <1>s, <1>f DEF MailOK
  <2>10. m.t \in BodyType \cup {"OPEN", "CONFIRMATION", "OPEN_FAILURE"}
    BY <2>1 DEF MailOK
  <2>. QED  BY <2>6, <2>7, <2>8, <2>9, <2>10, <1>f DEF MailOK
<1>6. ASSUME NEW m \in N[f] \ M[f] PROVE MailOK(L, N, B, c, f, m)
  <2>1. /\ m.t \in {"DATA", "REQUEST"} /\ m.chan = ch.remotechan
        /\ ~ch.sent_eof /\ ~ch.sent_close
    BY <1>k DEF FlagsOK
  <2>2. /\ ch.remotechan \in Slots(K, f, c)
        /\ Paired(ch, K[f][ch.remotechan], i, M[e], M[f])
    BY <2>1, <1>k DEF SlotOK
  <2>. QED  BY <2>1, <2>2, <1>n, <1>s, <1>f DEF MailOK, Paired, Some, BodyType
<1>7. ASSUME NEW j \in Slots(K, f, c)
      PROVE  FlagsOK(L[f][j]) /\ SlotOK(L, N, c, f, j)
  <2>1. FlagsOK(K[f][j]) /\ SlotOK(K, M, c, f, j)
    BY <1>i DEF EndInv
  <2>2. \A k \in Slots(K, e, c) : K[e][k] = ch /\ L[e][k] = new
    BY <1>s
  <2>3. PICK s : s = K[f][j]
    OBVIOUS
  <2>4. L[f][j] = s
    BY <1>s, <2>3
  <2>5. i \in Slots(L, e, c)
    BY <1>s
  <2>6. /\ new.recv_eof => ch.recv_eof \/ s.sent_eof
        /\ new.recv_close => ch.recv_close \/ s.sent_close
    BY <1>r, <2>3
  <2>. HIDE <1>m
  <2>7. ASSUME Paired(s, ch, j, M[f], M[e])
        PROVE  Paired(s, new, j, N[f], N[e])
    BY <2>6, <2>7, <1>m, <1>1, <1>n DEF Paired
  <2>8. s.initconn => /\ s.remotechan \in Slots(L, e, c)
                      /\ L[e][s.remotechan].await_open
    BY <2>1, <2>2, <2>3, <1>n, <1>s, <1>f DEF SlotOK
  <2>9. ASSUME ~s.await_open, ~s.initconn
        PROVE  /\ s.remotechan \in Slots(L, e, c)
               /\ Paired(s, L[e][s.remotechan], j, N[f], N[e])
    <3>1. /\ s.remotechan \in Slots(K, e, c)
          /\ Paired(s, K[e][s.remotechan], j, M[f], M[e])
      BY <2>1, <2>3, <2>5, <2>9, <1>s, <1>f DEF SlotOK
    <3>. QED  BY <3>1, <2>2, <2>7, <1>s
  <2>. QED  BY <2>1, <2>3, <2>4, <2>5, <2>8, <2>9, <1>f DEF SlotOK
<1>8. EndInv(L, N, B, c, f)
  BY <1>5, <1>6, <1>7, <1>i, <1>s, <1>f DEF EndInv
<1>. QED  BY <1>4, <1>8, <1>f DEF ConvInv

\* A channel that is asked for is confirmed.
Confirms(ch, new, p) ==
    /\ ~new.await_open /\ new.remotechan = p.from
    /\ \A g \in {"conv", "initconn", "sent_eof", "recv_eof", "sent_close",
                "recv_close", "reads", "writes", "pending"} : new[g] = ch[g]
ConfirmsMail(M, N, e, p) ==
    /\ p \in M[e] /\ p.t = "CONFIRMATION"
    /\ N[e] \subseteq M[e] /\ M[e] \subseteq N[e] \cup {p}
    /\ \A m \in N[e] : m.t \notin {"OPEN", "CONFIRMATION", "OPEN_FAILURE"}
    /\ N[Peer(e)] = M[Peer(e)]
LEMMA ConfirmingKeeps ==
    ASSUME NEW K, NEW L, NEW M, NEW N, NEW B, NEW c, NEW e \in End, NEW i,
           ConvInv(K, M, B, c), Replaced(K, L, c, e, i),
           NEW p, p.chan = i, ConfirmsMail(M, N, e, p),
           Confirms(K[e][i], L[e][i], p)
    PROVE  ConvInv(L, N, B, c)
<1>. PICK ch : ch = K[e][i]
  OBVIOUS
<1>. PICK new : new = L[e][i]
  OBVIOUS
<1>c. /\ p \in M[e] /\ p.t = "CONFIRMATION"
      /\ N[e] \subseteq M[e] /\ M[e] \subseteq N[e] \cup {p}
      /\ \A m \in N[e] : m.t \notin {"OPEN", "CONFIRMATION", "OPEN_FAILURE"}
      /\ N[Peer(e)] = M[Peer(e)]
      /\ ~new.await_open /\ new.remotechan = p.from
  BY DEF Confirms, ConfirmsMail
<1>. USE <1>c
<1>. DEFINE f == Peer(e)
<1>f. f \in End /\ f # e /\ Peer(f) = e /\ \A x \in End : x = e \/ x = f
  BY PeerFacts
<1>i. EndInv(K, M, B, c, e) /\ EndInv(K, M, B, c, f)
  BY <1>f DEF ConvInv
<1>s. /\ i \in Slots(K, e, c)
      /\ Slots(L, e, c) = Slots(K, e, c) /\ Slots(L, f, c) = Slots(K, f, c)
      /\ L[f] = K[f]
      /\ \A j \in Slots(K, e, c) : j = i
  BY <1>i DEF Replaced, EndInv
<1>n. /\ new.conv = ch.conv /\ new.initconn = ch.initconn
      /\ new.recv_eof = ch.recv_eof /\ new.recv_close = ch.recv_close
      /\ new.sent_eof = ch.sent_eof /\ new.sent_close = ch.sent_close
      /\ new.reads = ch.reads /\ new.writes = ch.writes
      /\ new.pending = ch.pending
  BY DEF Confirms
<1>k. FlagsOK(ch) /\ SlotOK(K, M, c, e, i)
  BY <1>i, <1>s DEF EndInv
<1>p. MailOK(K, M, B, c, e, p)
  BY <1>i DEF EndInv
<1>a. /\ ch.await_open /\ ~ch.initconn /\ ~ch.sent_eof /\ ~ch.sent_close
      /\ ~ch.recv_eof /\ ~ch.recv_close
  BY <1>p, <1>k DEF MailOK, FlagsOK
<1>o. /\ p.from \in Slots(K, f, c)
      /\ ~K[f][p.from].await_open /\ ~K[f][p.from].initconn
      /\ K[f][p.from].remotechan = i
      /\ ~K[f][p.from].recv_eof /\ ~K[f][p.from].recv_close
      /\ \A j \in Slots(K, f, c) : j = p.from
  BY <1>p, <1>i DEF MailOK, EndInv, FlagsOK
<1>1. FlagsOK(new)
  BY <1>k, <1>n, <1>a DEF FlagsOK
<1>2. SlotOK(L, N, c, e, i)
  BY <1>n, <1>a, <1>o, <1>s, <1>f DEF SlotOK, Paired
<1>3. ASSUME NEW m \in N[e] PROVE MailOK(L, N, B, c, e, m)
  <2>1. MailOK(K, M, B, c, e, m)
    BY <1>i DEF EndInv
  <2>. QED  BY <2>1, <1>n, <1>s, <1>a, <1>f DEF MailOK
<1>4. EndInv(L, N, B, c, e)
  BY <1>1, <1>2, <1>3, <1>i, <1>s, <1>f DEF EndInv
<1>5. ASSUME NEW m \in N[f] PROVE MailOK(L, N, B, c, f, m)
  <2>1. MailOK(K, M, B, c, f, m) /\ m.t # "OPEN"
    BY <1>i, <1>o DEF EndInv, MailOK
  <2>. QED  BY <2>1, <1>n, <1>s, <1>o, <1>f DEF MailOK
<1>6. ASSUME NEW j \in Slots(K, f, c)
      PROVE  FlagsOK(L[f][j]) /\ SlotOK(L, N, c, f, j)
  <2>1. FlagsOK(K[f][j]) /\ SlotOK(K, M, c, f, j) /\ j = p.from
    BY <1>i, <1>o DEF EndInv
  <2>2. Some(M[e], "CLOSE") => Some(N[e], "CLOSE")
    BY DEF Some
  <2>. QED  BY <2>1, <2>2, <1>n, <1>s, <1>a, <1>o, <1>f DEF SlotOK, Paired
<1>7. EndInv(L, N, B, c, f)
  BY <1>5, <1>6, <1>i, <1>s, <1>f DEF EndInv
<1>. QED  BY <1>4, <1>7, <1>f DEF ConvInv

\* A channel that is asked for is refused.
LEMMA FailingKeeps ==
    ASSUME NEW K, NEW L, NEW M, NEW N, NEW B, NEW c, NEW e \in End,
           ConvInv(K, M, B, c),
           NEW p \in M[e], p.t = "OPEN_FAILURE",
           Slots(L, e, c) = {}, Slots(L, Peer(e), c) = Slots(K, Peer(e), c),
           N[e] = {}, N[Peer(e)] = M[Peer(e)]
    PROVE  ConvInv(L, N, B, c)
<1>. DEFINE f == Peer(e)
<1>f. f \in End /\ f # e /\ Peer(f) = e /\ \A x \in End : x = e \/ x = f
  BY PeerFacts
<1>i. EndInv(K, M, B, c, e) /\ EndInv(K, M, B, c, f)
  BY <1>f DEF ConvInv
<1>1. MailOK(K, M, B, c, e, p) /\ f \in B
  BY <1>i DEF EndInv
<1>2. Slots(K, f, c) = {} /\ e \in B
  BY <1>1, <1>i DEF MailOK, EndInv
<1>3. M[f] = {}
  BY <1>1, <1>2, <1>i DEF EndInv, MailOK
<1>. QED  BY <1>1, <1>2, <1>3, <1>f DEF ConvInv, EndInv

\* A conversation begins: nobody has heard of it.
LEMMA Unheard ==
    ASSUME NEW K, NEW M, NEW B, NEW c, NEW e \in End, ConvInv(K, M, B, c),
           AcceptedBy[c] = e, e \notin B
    PROVE  /\ Peer(e) \notin B
           /\ \A x \in End : Slots(K, x, c) = {} /\ M[x] = {}
BY PeerFacts DEF ConvInv, EndInv

\* An open arrives: nothing else of the conversation is under way, and it is
\* waited for.
LEMMA Asked ==
    ASSUME NEW K, NEW M, NEW B, NEW c, NEW e \in End, ConvInv(K, M, B, c),
           NEW p \in M[e], p.t = "OPEN"
    PROVE  /\ e \notin B /\ Peer(e) \in B
           /\ Slots(K, e, c) = {} /\ M[Peer(e)] = {}
           /\ p.from \in Slots(K, Peer(e), c)
           /\ \A j \in Slots(K, Peer(e), c) : j = p.from
           /\ K[Peer(e)][p.from].await_open /\ FlagsOK(K[Peer(e)][p.from])
<1>. DEFINE f == Peer(e)
<1>f. f \in End /\ f # e /\ Peer(f) = e
  BY PeerFacts
<1>i. EndInv(K, M, B, c, e) /\ EndInv(K, M, B, c, f)
  BY <1>f DEF ConvInv
<1>1. MailOK(K, M, B, c, e, p)
  BY <1>i DEF EndInv
<1>. QED  BY <1>1, <1>i, <1>f DEF EndInv, MailOK

WasAsked(K, M, B, c, e, p) ==
    /\ e \notin B /\ Peer(e) \in B
    /\ Slots(K, e, c) = {} /\ M[Peer(e)] = {}
    /\ p.from \in Slots(K, Peer(e), c)
    /\ K[Peer(e)][p.from].await_open
LEMMA AskedFor ==
    ASSUME NEW K, NEW M, NEW B, NEW c, NEW e \in End, ConvInv(K, M, B, c),
           NEW p \in M[e], p.t = "OPEN"
    PROVE  WasAsked(K, M, B, c, e, p)
BY Asked DEF WasAsked

\* A connect() is over: nothing of the conversation is under way.
LEMMA Unanswered ==
    ASSUME NEW K, NEW M, NEW B, NEW c, NEW e \in End, ConvInv(K, M, B, c),
           NEW i \in Slots(K, e, c), K[e][i].initconn
    PROVE  /\ M[e] = {} /\ M[Peer(e)] = {} /\ e \in B /\ Peer(e) \in B
           /\ K[e][i].remotechan \in Slots(K, Peer(e), c)
           /\ \A j \in Slots(K, Peer(e), c) : j = K[e][i].remotechan
           /\ K[Peer(e)][K[e][i].remotechan].await_open
           /\ FlagsOK(K[Peer(e)][K[e][i].remotechan])
           /\ \A j \in Slots(K, e, c) : j = i
           /\ FlagsOK(K[e][i])
<1>. DEFINE f == Peer(e)
            r == K[e][i].remotechan
<1>f. f \in End /\ f # e /\ Peer(f) = e
  BY PeerFacts
<1>i. EndInv(K, M, B, c, e) /\ EndInv(K, M, B, c, f)
  BY <1>f DEF ConvInv
<1>1. FlagsOK(K[e][i]) /\ SlotOK(K, M, c, e, i) /\ \A j \in Slots(K, e, c) : j = i
  BY <1>i DEF EndInv
<1>2. r \in Slots(K, f, c) /\ K[f][r].await_open
  BY <1>1 DEF SlotOK
<1>3. \A j \in Slots(K, f, c) : j = r
  BY <1>2, <1>i DEF EndInv
<1>4. FlagsOK(K[f][r])
  BY <1>2, <1>i DEF EndInv
<1>5. e \in B /\ f \in B
  BY <1>2, <1>i DEF EndInv
<1>6. M[e] = {}
  BY <1>5, <1>1, <1>i DEF EndInv, MailOK
<1>7. ASSUME NEW m \in M[f] PROVE FALSE
  <2>1. MailOK(K, M, B, c, f, m)
    BY <1>i DEF EndInv
  <2>2. ~Some(M[f], "CONFIRMATION")
    BY <1>1, <1>i, <1>f DEF EndInv, MailOK, Some
  <2>3. m.t # "OPEN" /\ m.t # "OPEN_FAILURE"
    BY <2>1, <1>5, <1>f DEF MailOK
  <2>4. m.t \notin BodyType
    BY <2>1, <2>2, <2>3, <1>2, <1>3, <1>f DEF MailOK
  <2>. QED  BY <2>1, <2>2, <2>3, <2>4 DEF MailOK, Some
<1>. QED  BY <1>1, <1>2, <1>3, <1>4, <1>5, <1>6, <1>7

\* Tables L are K with a new channel in slot i of e.
Added(K, L, c, e, i) ==
    /\ Slots(L, e, c) = {i}
    /\ Slots(L, Peer(e), c) = Slots(K, Peer(e), c)
    /\ L[Peer(e)] = K[Peer(e)]
Fresh(ch) == /\ ~ch.sent_eof /\ ~ch.recv_eof /\ ~ch.sent_close
             /\ ~ch.recv_close /\ ~ch.pending

Awaiting(ch) ==
    Fresh(ch) /\ ch.await_open /\ ~ch.initconn /\ ch.reads /\ ch.writes

\* A connection is accepted, and a channel asked for.
LEMMA OpeningKeeps ==
    ASSUME NEW K, NEW L, NEW M, NEW N, NEW B, NEW c, NEW e \in End, NEW i,
           ConvInv(K, M, B, c), AcceptedBy[c] = e, e \notin B,
           Added(K, L, c, e, i), Awaiting(L[e][i]), N[e] = M[e],
           NEW p, p.t = "OPEN", p.from = i, N[Peer(e)] = M[Peer(e)] \cup {p}
    PROVE  ConvInv(L, N, B \cup {e}, c)
<1>. PICK new : new = L[e][i]
  OBVIOUS
<1>. Fresh(new) /\ new.await_open /\ ~new.initconn /\ new.reads /\ new.writes
  BY DEF Awaiting
<1>. DEFINE f == Peer(e)
<1>f. f \in End /\ f # e /\ Peer(f) = e /\ \A x \in End : x = e \/ x = f
  BY PeerFacts
<1>1. /\ f \notin B /\ Slots(L, f, c) = {} /\ Slots(L, e, c) = {i}
      /\ N[e] = {} /\ N[f] = {p}
  BY <1>f, Unheard DEF Added
<1>2. FlagsOK(new) /\ SlotOK(L, N, c, e, i)
  BY <1>1 DEF FlagsOK, Fresh, SlotOK, Some
<1>3. EndInv(L, N, B \cup {e}, c, e)
  BY <1>1, <1>2, <1>f DEF EndInv
<1>4. MailOK(L, N, B \cup {e}, c, f, p)
  BY <1>1, <1>f DEF MailOK, BodyType
<1>5. EndInv(L, N, B \cup {e}, c, f)
  BY <1>1, <1>4, <1>f DEF EndInv
<1>. QED  BY <1>3, <1>5, <1>f DEF ConvInv

\* A connection is accepted and closed again: there is no slot.
LEMMA GivingUpKeeps ==
    ASSUME NEW K, NEW M, NEW B, NEW c, NEW e \in End,
           ConvInv(K, M, B, c), AcceptedBy[c] = e, e \notin B
    PROVE  ConvInv(K, M, B \cup {e}, c)
BY PeerFacts, Unheard DEF ConvInv, EndInv

\* An open is refused.
LEMMA RefusingKeeps ==
    ASSUME NEW K, NEW M, NEW N, NEW B, NEW c, NEW e \in End,
           ConvInv(K, M, B, c), NEW p \in M[e], p.t = "OPEN",
           N[e] = {},
           NEW q, q.t = "OPEN_FAILURE", q.chan = p.from,
           N[Peer(e)] = M[Peer(e)] \cup {q}
    PROVE  ConvInv(K, N, B \cup {e}, c)
<1>. DEFINE f == Peer(e)
<1>f. f \in End /\ f # e /\ Peer(f) = e /\ \A x \in End : x = e \/ x = f
  BY PeerFacts
<1>a. /\ e \notin B /\ f \in B /\ Slots(K, e, c) = {} /\ M[f] = {}
      /\ p.from \in Slots(K, f, c) /\ \A j \in Slots(K, f, c) : j = p.from
      /\ K[f][p.from].await_open /\ FlagsOK(K[f][p.from])
  BY Asked
<1>1. N[f] = {q}
  BY <1>a
<1>2. EndInv(K, N, B \cup {e}, c, e)
  BY <1>a, <1>1, <1>f DEF EndInv
<1>3. MailOK(K, N, B \cup {e}, c, f, q)
  BY <1>a, <1>1, <1>f DEF MailOK, BodyType, FlagsOK
<1>4. SlotOK(K, N, c, f, p.from)
  BY <1>a, <1>1, <1>f DEF SlotOK, Some, FlagsOK
<1>5. EndInv(K, N, B \cup {e}, c, f)
  BY <1>a, <1>1, <1>3, <1>4, <1>f DEF EndInv
<1>. QED  BY <1>2, <1>5, <1>f DEF ConvInv

\* An open p is taken with new, in slot i: connected and confirmed, or not
\* connected yet.
Answers(new, p, i, M, N, e) ==
    /\ Fresh(new) /\ ~new.await_open /\ new.remotechan = p.from
    /\ \/ /\ ~new.initconn /\ new.reads /\ new.writes
          /\ \E q : /\ q.t = "CONFIRMATION" /\ q.chan = p.from /\ q.from = i
                    /\ N[Peer(e)] = M[Peer(e)] \cup {q}
       \/ /\ new.initconn /\ ~new.reads /\ new.writes
          /\ N[Peer(e)] = M[Peer(e)]
LEMMA TakingKeeps ==
    ASSUME NEW K, NEW L, NEW M, NEW N, NEW B, NEW c, NEW e \in End, NEW i,
           ConvInv(K, M, B, c), NEW p \in M[e], p.t = "OPEN",
           Added(K, L, c, e, i), N[e] = {}, Answers(L[e][i], p, i, M, N, e)
    PROVE  ConvInv(L, N, B \cup {e}, c)
<1>. PICK new : new = L[e][i]
  OBVIOUS
<1>. /\ Fresh(new) /\ ~new.await_open /\ new.remotechan = p.from
     /\ \/ /\ ~new.initconn /\ new.reads /\ new.writes
           /\ \E q : /\ q.t = "CONFIRMATION" /\ q.chan = p.from /\ q.from = i
                     /\ N[Peer(e)] = M[Peer(e)] \cup {q}
        \/ /\ new.initconn /\ ~new.reads /\ new.writes
           /\ N[Peer(e)] = M[Peer(e)]
  BY DEF Answers
<1>. DEFINE f == Peer(e)
            s == K[f][p.from]
<1>f. f \in End /\ f # e /\ Peer(f) = e /\ \A x \in End : x = e \/ x = f
  BY PeerFacts
<1>1. /\ e \notin B /\ f \in B /\ Slots(L, e, c) = {i} /\ M[f] = {}
      /\ L[f] = K[f] /\ Slots(L, f, c) = Slots(K, f, c)
      /\ p.from \in Slots(L, f, c) /\ \A j \in Slots(L, f, c) : j = p.from
      /\ s.await_open /\ FlagsOK(s)
  BY Asked DEF Added
<1>s. /\ ~s.initconn /\ ~s.recv_eof /\ ~s.recv_close /\ ~s.sent_eof
      /\ ~s.sent_close
  BY <1>1 DEF FlagsOK
<1>2. FlagsOK(new)
  BY DEF FlagsOK, Fresh
<1>3. SlotOK(L, N, c, e, i)
  BY <1>1, <1>s, <1>f DEF SlotOK, Fresh, Paired, Some
<1>4. EndInv(L, N, B \cup {e}, c, e)
  BY <1>1, <1>2, <1>3, <1>f DEF EndInv
<1>5. ASSUME NEW q \in N[f] PROVE MailOK(L, N, B \cup {e}, c, f, q)
  <2>1. /\ q.t = "CONFIRMATION" /\ q.chan = p.from /\ q.from = i
        /\ ~new.initconn
    BY <1>1
  <2>. QED  BY <2>1, <1>1, <1>s, <1>f DEF MailOK, BodyType, Fresh
<1>6. SlotOK(L, N, c, f, p.from)
  BY <1>1, <1>s, <1>f DEF SlotOK
<1>7. EndInv(L, N, B \cup {e}, c, f)
  BY <1>1, <1>5, <1>6, <1>f DEF EndInv
<1>. QED  BY <1>4, <1>7, <1>f DEF ConvInv

\* A connect() has succeeded.
LEMMA ConnectingKeeps ==
    ASSUME NEW K, NEW L, NEW M, NEW N, NEW B, NEW c, NEW e \in End, NEW i,
           NEW ch, ch = K[e][i], NEW new, new = L[e][i],
           ConvInv(K, M, B, c), Replaced(K, L, c, e, i), ch.initconn,
           ~new.initconn, new.reads, new.writes,
           \A g \in {"conv", "remotechan", "await_open", "sent_eof",
                    "recv_eof", "sent_close", "recv_close", "pending"} :
              new[g] = ch[g],
           N[e] = M[e],
           NEW q, q.t = "CONFIRMATION", q.chan = ch.remotechan, q.from = i,
           N[Peer(e)] = M[Peer(e)] \cup {q}
    PROVE  ConvInv(L, N, B, c)
<1>. DEFINE f == Peer(e)
            r == ch.remotechan
            s == K[f][r]
<1>f. f \in End /\ f # e /\ Peer(f) = e /\ \A x \in End : x = e \/ x = f
  BY PeerFacts
<1>1. /\ N[e] = {} /\ N[f] = {q} /\ e \in B /\ f \in B
      /\ i \in Slots(L, e, c) /\ \A j \in Slots(L, e, c) : j = i
      /\ r \in Slots(L, f, c) /\ \A j \in Slots(L, f, c) : j = r
      /\ L[f] = K[f] /\ s.await_open /\ FlagsOK(s) /\ FlagsOK(ch)
  <2>1. /\ i \in Slots(K, e, c) /\ L[f] = K[f]
        /\ Slots(L, e, c) = Slots(K, e, c) /\ Slots(L, f, c) = Slots(K, f, c)
    BY DEF Replaced
  <2>2. K[e][i].initconn /\ K[e][i] = ch
    OBVIOUS
  <2>3. /\ M[e] = {} /\ M[f] = {} /\ e \in B /\ f \in B
        /\ r \in Slots(K, f, c) /\ \A j \in Slots(K, f, c) : j = r
        /\ s.await_open /\ FlagsOK(s) /\ FlagsOK(ch)
        /\ \A j \in Slots(K, e, c) : j = i
    BY ONLY <2>1, <2>2, Unanswered, ConvInv(K, M, B, c), e \in End
  <2>4. N[e] = M[e] /\ N[f] = M[f] \cup {q}
    OBVIOUS
  <2>. QED  BY ONLY <2>1, <2>3, <2>4
<1>n. /\ new.remotechan = ch.remotechan
      /\ new.await_open = ch.await_open
      /\ new.recv_eof = ch.recv_eof /\ new.recv_close = ch.recv_close
      /\ new.sent_eof = ch.sent_eof /\ new.sent_close = ch.sent_close
      /\ new.pending = ch.pending
  <2>1. \A g \in {"conv", "remotechan", "await_open", "sent_eof",
                 "recv_eof", "sent_close", "recv_close", "pending"} :
           new[g] = ch[g]
    OBVIOUS
  <2>. QED  BY ONLY <2>1
<1>s. /\ ~s.initconn /\ ~s.recv_eof /\ ~s.recv_close /\ ~s.sent_eof
      /\ ~s.sent_close
  BY <1>1 DEF FlagsOK
<1>c. /\ ~new.await_open /\ ~new.recv_eof /\ ~new.recv_close
      /\ ~new.sent_eof /\ ~new.sent_close /\ ~new.pending
  BY <1>1, <1>n DEF FlagsOK
<1>2. FlagsOK(new)
  BY <1>c DEF FlagsOK
<1>3. SlotOK(L, N, c, e, i)
  BY <1>1, <1>n, <1>s, <1>c, <1>f DEF SlotOK, Paired, Some
<1>4. EndInv(L, N, B, c, e)
  BY <1>1, <1>2, <1>3, <1>f DEF EndInv
<1>5. MailOK(L, N, B, c, f, q)
  BY <1>1, <1>n, <1>s, <1>c, <1>f DEF MailOK, BodyType
<1>6. SlotOK(L, N, c, f, r)
  BY <1>1, <1>s, <1>f DEF SlotOK
<1>7. EndInv(L, N, B, c, f)
  <2>1. \A m \in N[f] : MailOK(L, N, B, c, f, m)
    BY ONLY <1>1, <1>5
  <2>2. \A j \in Slots(L, f, c) : FlagsOK(L[f][j]) /\ SlotOK(L, N, c, f, j)
    BY ONLY <1>1, <1>6 DEF s
  <2>. HIDE DEF r, s
  <2>. QED  BY ONLY <2>1, <2>2, <1>1, <1>f DEF EndInv
<1>. QED  BY <1>4, <1>7, <1>f DEF ConvInv

\* A connect() has failed.
LEMMA NotConnectingKeeps ==
    ASSUME NEW K, NEW L, NEW M, NEW N, NEW B, NEW c, NEW e \in End,
           NEW i \in Slots(K, e, c),
           ConvInv(K, M, B, c), K[e][i].initconn,
           Slots(L, e, c) = {}, Slots(L, Peer(e), c) = Slots(K, Peer(e), c),
           L[Peer(e)] = K[Peer(e)],
           N[e] = M[e],
           NEW q, q.t = "OPEN_FAILURE", q.chan = K[e][i].remotechan,
           N[Peer(e)] = M[Peer(e)] \cup {q}
    PROVE  ConvInv(L, N, B, c)
<1>. DEFINE f == Peer(e)
            r == K[e][i].remotechan
            s == K[f][r]
<1>f. f \in End /\ f # e /\ Peer(f) = e /\ \A x \in End : x = e \/ x = f
  BY PeerFacts
<1>1. /\ N[e] = {} /\ N[f] = {q} /\ e \in B /\ f \in B
      /\ r \in Slots(L, f, c) /\ \A j \in Slots(L, f, c) : j = r
      /\ L[f] = K[f] /\ s.await_open /\ FlagsOK(s)
  BY Unanswered
<1>2. EndInv(L, N, B, c, e)
  BY <1>1, <1>f DEF EndInv
<1>3. MailOK(L, N, B, c, f, q)
  BY <1>1, <1>f DEF MailOK, BodyType, FlagsOK
<1>4. SlotOK(L, N, c, f, r)
  BY <1>1, <1>f DEF SlotOK, Some, FlagsOK
<1>5. EndInv(L, N, B, c, f)
  BY <1>1, <1>3, <1>4, <1>f DEF EndInv
<1>. QED  BY <1>2, <1>5, <1>f DEF ConvInv

---------------------------------------------------------------------------
(* Packets under way *)

LEMMA Appended ==
    ASSUME NEW P, NEW n \in Seq(P), NEW ps \in Seq(P)
    PROVE  /\ n \o ps \in Seq(P)
           /\ Msgs(n \o ps) = Msgs(n) \cup Msgs(ps)
           /\ /\ Ordered(n) /\ Ordered(ps)
              /\ \A p \in Msgs(n), q \in Msgs(ps) : After(p, q)
              => Ordered(n \o ps)
<1>. DEFINE s == n \o ps
<1>1. /\ s \in Seq(P) /\ Len(n) \in Nat /\ Len(ps) \in Nat
      /\ Len(s) = Len(n) + Len(ps)
  OBVIOUS
<1>2. /\ \A k \in 1..Len(n) : s[k] = n[k] /\ k \in 1..Len(s)
      /\ \A k \in 1..Len(ps) : s[Len(n) + k] = ps[k] /\ Len(n) + k \in 1..Len(s)
  BY <1>1
<1>3. ASSUME NEW k \in 1..Len(s)
      PROVE  \/ k \in 1..Len(n) /\ s[k] = n[k]
             \/ k - Len(n) \in 1..Len(ps) /\ s[k] = ps[k - Len(n)]
  BY <1>1
<1>4. Msgs(s) = Msgs(n) \cup Msgs(ps)
  <2>1. Msgs(s) \subseteq Msgs(n) \cup Msgs(ps)
    BY <1>3 DEF Msgs
  <2>2. Msgs(n) \subseteq Msgs(s) /\ Msgs(ps) \subseteq Msgs(s)
    BY <1>2 DEF Msgs
  <2>. QED  BY <2>1, <2>2
<1>5. ASSUME Ordered(n), Ordered(ps),
             \A p \in Msgs(n), q \in Msgs(ps) : After(p, q)
      PROVE  Ordered(s)
  <2>. SUFFICES ASSUME NEW j \in 1..Len(s), NEW k \in 1..Len(s), j < k
                PROVE  After(s[j], s[k])
    BY DEF Ordered
  <2>1. CASE k \in 1..Len(n)
    <3>1. j \in 1..Len(n) /\ s[j] = n[j] /\ s[k] = n[k]
      BY <2>1, <1>1, <1>3
    <3>. QED  BY <3>1, <2>1, <1>5 DEF Ordered
  <2>2. CASE k \notin 1..Len(n) /\ j \in 1..Len(n)
    <3>1. s[j] \in Msgs(n) /\ s[k] \in Msgs(ps)
      BY <2>2, <1>3 DEF Msgs
    <3>. QED  BY <3>1, <1>5
  <2>3. CASE k \notin 1..Len(n) /\ j \notin 1..Len(n)
    <3>1. /\ j - Len(n) \in 1..Len(ps) /\ s[j] = ps[j - Len(n)]
          /\ k - Len(n) \in 1..Len(ps) /\ s[k] = ps[k - Len(n)]
          /\ j - Len(n) < k - Len(n)
      BY <2>3, <1>1, <1>3
    <3>. QED  BY <3>1, <1>5 DEF Ordered
  <2>. QED  BY <2>1, <2>2, <2>3
<1>. QED  BY <1>1, <1>4, <1>5

LEMMA Popped ==
    ASSUME NEW P, NEW n \in Seq(P), n # <<>>
    PROVE  /\ Tail(n) \in Seq(P) /\ Head(n) \in P
           /\ Msgs(n) = Msgs(Tail(n)) \cup {Head(n)}
           /\ Ordered(n) => /\ Ordered(Tail(n))
                            /\ \A m \in Msgs(Tail(n)) : After(Head(n), m)
<1>. DEFINE s == Tail(n)
<1>1. /\ s \in Seq(P) /\ Len(n) \in Nat \ {0} /\ Len(s) = Len(n) - 1
      /\ Head(n) = n[1] /\ n[1] \in P
  OBVIOUS
<1>2. \A k \in 1..Len(s) : s[k] = n[k + 1] /\ k + 1 \in 1..Len(n)
  BY <1>1
<1>3. Msgs(n) = Msgs(s) \cup {Head(n)}
  <2>1. ASSUME NEW k \in 1..Len(n) PROVE n[k] \in Msgs(s) \cup {Head(n)}
    <3>1. CASE k = 1
      BY <3>1, <1>1
    <3>2. CASE k # 1
      <4>1. k - 1 \in 1..Len(s) /\ s[k - 1] = n[k]
        BY <3>2, <1>1
      <4>. QED  BY <4>1 DEF Msgs
    <3>. QED  BY <3>1, <3>2
  <2>2. Msgs(s) \subseteq Msgs(n) /\ Head(n) \in Msgs(n)
    BY <1>1, <1>2 DEF Msgs
  <2>. QED  BY <2>1, <2>2 DEF Msgs
<1>4. ASSUME Ordered(n)
      PROVE  Ordered(s) /\ \A m \in Msgs(s) : After(Head(n), m)
  <2>1. ASSUME NEW j \in 1..Len(s), NEW k \in 1..Len(s), j < k
        PROVE  After(s[j], s[k])
    BY <2>1, <1>1, <1>2, <1>4 DEF Ordered
  <2>2. ASSUME NEW k \in 1..Len(s) PROVE After(Head(n), s[k])
    <3>1. k + 1 \in 1..Len(n) /\ 1 \in 1..Len(n) /\ 1 < k + 1
      BY <1>1
    <3>. QED  BY <3>1, <1>1, <1>2, <1>4 DEF Ordered
  <2>. QED  BY <2>1, <2>2 DEF Ordered, Msgs
<1>. QED  BY <1>1, <1>3, <1>4

\* Short sequences of packets.
LEMMA Short ==
    ASSUME NEW P, NEW p \in P
    PROVE  /\ <<>> \in Seq(P) /\ Msgs(<<>>) = {} /\ Ordered(<<>>)
           /\ <<p>> \in Seq(P) /\ Msgs(<<p>>) = {p} /\ Ordered(<<p>>)
<1>1. Len(<<>>) = 0 /\ Len(<<p>>) = 1 /\ <<p>>[1] = p
  OBVIOUS
<1>. QED  BY <1>1 DEF Msgs, Ordered

LEMMA PacketFacts ==
    ASSUME NEW p \in PacketSet
    PROVE  /\ p.conv \in Conv
           /\ p.t # "OPEN" => p.chan \in Index
           /\ p.t \in {"OPEN", "CONFIRMATION"} => p.from \in Index
           /\ p.t \in BodyType \cup {"OPEN", "CONFIRMATION", "OPEN_FAILURE",
                                     "FAILURE"}
BY DEF PacketSet, BodyType

LEMMA PacketsMade ==
    ASSUME NEW c \in Conv, NEW i \in Index, NEW j \in Index
    PROVE  /\ OpenPacket(i, c) \in PacketSet
           /\ OpenPacket(i, c).t = "OPEN" /\ OpenPacket(i, c).from = i
           /\ OpenPacket(i, c).conv = c
           /\ Opening("CONFIRMATION", j, i, c) \in PacketSet
           /\ Opening("CONFIRMATION", j, i, c).t = "CONFIRMATION"
           /\ Opening("CONFIRMATION", j, i, c).chan = j
           /\ Opening("CONFIRMATION", j, i, c).from = i
           /\ Opening("CONFIRMATION", j, i, c).conv = c
           /\ \A t \in {"OPEN_FAILURE", "DATA", "EOF", "CLOSE", "REQUEST",
                        "FAILURE"} :
                 /\ Packet(t, j, c) \in PacketSet /\ Packet(t, j, c).t = t
                 /\ Packet(t, j, c).chan = j /\ Packet(t, j, c).conv = c
BY DEF OpenPacket, Opening, Packet, PacketSet

LEMMA PacketMade ==
    ASSUME NEW c \in Conv, NEW j \in Index,
           NEW t \in {"OPEN_FAILURE", "DATA", "EOF", "CLOSE", "REQUEST",
                     "FAILURE"},
           NEW q, q = Packet(t, j, c)
    PROVE  q \in PacketSet /\ q.t = t /\ q.chan = j /\ q.conv = c
BY PacketsMade

LEMMA NothingSent ==
    ASSUME NEW ps, ps = <<>>
    PROVE  ps \in Seq(PacketSet) /\ \A q \in Msgs(ps) : q.t # "DATA"
<1>1. ps \in Seq(PacketSet)
  OBVIOUS
<1>2. Msgs(ps) = {}
  BY DEF Msgs
<1>. QED  BY ONLY <1>1, <1>2

\* Packets ps of conversation c may be sent by e.
Fits(e, c, ps) ==
    /\ ps \in Seq(PacketSet) /\ Ordered(ps)
    /\ \A q \in Msgs(ps) : q.conv = c
    /\ \A m \in Mail(c)[Peer(e)], q \in Msgs(ps) : After(m, q)
\* They are under way behind what was, and nothing else is new.
Under(e, c, ps) ==
    /\ net' \in [End -> Seq(PacketSet)]
    /\ \A x \in End : Ordered(net'[x])
    /\ \A x \in End, d \in Conv : d # c => MailOf(net'[x], d) = MailOf(net[x], d)
    /\ Mail(c)'[Peer(e)] =
         Mail(c)[Peer(e)] \cup {q \in Msgs(ps) : q.t # "FAILURE"}
\* Packet p of it has been read.
Taken(e, c, p) ==
    /\ Mail(c)'[e] \subseteq Mail(c)[e]
    /\ Mail(c)[e] \subseteq Mail(c)'[e] \cup {p}
    /\ p.t = "FAILURE" => Mail(c)'[e] = Mail(c)[e]
    /\ \A m \in Mail(c)'[e] : After(p, m)

LEMMA SendFacts ==
    ASSUME TypeOK, \A x \in End : Ordered(net[x]),
           NEW e \in End, NEW c, NEW ps, Fits(e, c, ps), Send(e, ps)
    PROVE  Under(e, c, ps) /\ Mail(c)'[e] = Mail(c)[e]
<1>. DEFINE f == Peer(e)
<1>f. f \in End /\ f # e /\ \A x \in End : x = e \/ x = f
  BY PeerFacts
<1>h. /\ ps \in Seq(PacketSet) /\ Ordered(ps)
      /\ \A q \in Msgs(ps) : q.conv = c
      /\ \A m \in MailOf(net[f], c), q \in Msgs(ps) : After(m, q)
  BY <1>f DEF Fits, Mail
<1>t. net \in [End -> Seq(PacketSet)] /\ net[f] \in Seq(PacketSet)
  BY <1>f DEF TypeOK
<1>1. net' = [net EXCEPT ![f] = net[f] \o ps]
  BY DEF Send
<1>2. net'[f] = net[f] \o ps /\ net'[e] = net[e]
  BY <1>1, <1>t, <1>f
<1>3. /\ net[f] \o ps \in Seq(PacketSet)
      /\ Msgs(net[f] \o ps) = Msgs(net[f]) \cup Msgs(ps)
  BY <1>t, <1>h, Appended
<1>4. \A p \in Msgs(net[f]), q \in Msgs(ps) : After(p, q)
  BY <1>h DEF After, MailOf
<1>5. Ordered(net[f] \o ps)
  BY <1>t, <1>f, <1>h, <1>4, Appended
<1>6. net' \in [End -> Seq(PacketSet)]
  BY <1>1, <1>3, <1>t, <1>f
<1>7. \A x \in End : Ordered(net'[x])
  BY <1>2, <1>5, <1>f
<1>8. \A x \in End : Mail(c)[x] = MailOf(net[x], c) /\ Mail(c)'[x] = MailOf(net'[x], c)
  BY DEF Mail
<1>. QED  BY <1>2, <1>3, <1>6, <1>7, <1>8, <1>f, <1>h DEF MailOf, Under

\* A packet p of c is read, and packets of c are sent.
LEMMA ReplyFacts ==
    ASSUME TypeOK, \A x \in End : Ordered(net[x]),
           NEW e \in End, NEW c, NEW ps, Fits(e, c, ps),
           net[e] # <<>>, Head(net[e]).conv = c, Reply(e, ps)
    PROVE  Under(e, c, ps) /\ Taken(e, c, Head(net[e]))
<1>. DEFINE f == Peer(e)
            p == Head(net[e])
<1>f. f \in End /\ f # e /\ \A x \in End : x = e \/ x = f
  BY PeerFacts
<1>h. /\ ps \in Seq(PacketSet) /\ Ordered(ps)
      /\ \A q \in Msgs(ps) : q.conv = c
      /\ \A m \in MailOf(net[f], c), q \in Msgs(ps) : After(m, q)
  BY <1>f DEF Fits, Mail
<1>t. /\ net \in [End -> Seq(PacketSet)]
      /\ net[f] \in Seq(PacketSet) /\ net[e] \in Seq(PacketSet)
  BY <1>f DEF TypeOK
<1>1. net' = [net EXCEPT ![e] = Tail(net[e]), ![f] = net[f] \o ps]
  BY <1>f, <1>t DEF Reply
<1>2. net'[f] = net[f] \o ps /\ net'[e] = Tail(net[e])
  BY <1>1, <1>t, <1>f
<1>3. /\ net[f] \o ps \in Seq(PacketSet)
      /\ Msgs(net[f] \o ps) = Msgs(net[f]) \cup Msgs(ps)
  BY <1>t, <1>h, Appended
<1>4. \A m \in Msgs(net[f]), q \in Msgs(ps) : After(m, q)
  BY <1>h DEF After, MailOf
<1>5. Ordered(net[f] \o ps)
  BY <1>t, <1>f, <1>h, <1>4, Appended
<1>6. /\ Tail(net[e]) \in Seq(PacketSet)
      /\ Msgs(net[e]) = Msgs(Tail(net[e])) \cup {p}
      /\ Ordered(Tail(net[e]))
      /\ \A m \in Msgs(Tail(net[e])) : After(p, m)
  BY <1>t, Popped
<1>7. net' \in [End -> Seq(PacketSet)]
  BY <1>1, <1>3, <1>6, <1>t, <1>f
<1>8. \A x \in End : Ordered(net'[x])
  BY <1>2, <1>5, <1>6, <1>f
<1>9. \A x \in End : Mail(c)[x] = MailOf(net[x], c) /\ Mail(c)'[x] = MailOf(net'[x], c)
  BY DEF Mail
<1>p. p.conv = c
  OBVIOUS
<1>. HIDE DEF p
<1>10. ASSUME NEW d, d # c
       PROVE  /\ MailOf(net'[f], d) = MailOf(net[f], d)
              /\ MailOf(net'[e], d) = MailOf(net[e], d)
  <2>1. \A q \in Msgs(ps) : q.conv # d
    BY <1>10, <1>h
  <2>2. MailOf(net'[f], d) = MailOf(net[f], d)
    BY <2>1, <1>2, <1>3 DEF MailOf
  <2>3. MailOf(net'[e], d) = MailOf(net[e], d)
    BY <1>10, <1>2, <1>6, <1>p DEF MailOf
  <2>. QED  BY <2>2, <2>3
<1>11. MailOf(net'[f], c) =
         MailOf(net[f], c) \cup {q \in Msgs(ps) : q.t # "FAILURE"}
  BY <1>2, <1>3, <1>h DEF MailOf
<1>12. /\ MailOf(net'[e], c) \subseteq MailOf(net[e], c)
       /\ MailOf(net[e], c) \subseteq MailOf(net'[e], c) \cup {p}
       /\ p.t = "FAILURE" => MailOf(net'[e], c) = MailOf(net[e], c)
       /\ \A m \in MailOf(net'[e], c) : After(p, m)
  BY <1>2, <1>6 DEF MailOf
<1>13. Under(e, c, ps)
  BY <1>7, <1>8, <1>9, <1>10, <1>11, <1>f DEF Under
<1>14. Taken(e, c, p)
  BY <1>9, <1>12 DEF Taken
<1>. QED  BY <1>13, <1>14 DEF p

---------------------------------------------------------------------------
(* Other conversations *)

LEMMA Frame ==
    ASSUME NEW K, NEW L, NEW M, NEW N, NEW B, NEW d, ConvInv(K, M, B, d),
           \A x \in End : /\ Slots(L, x, d) = Slots(K, x, d)
                          /\ \A j \in Slots(K, x, d) : L[x][j] = K[x][j]
                          /\ N[x] = M[x]
    PROVE  ConvInv(L, N, B, d)
<1>. SUFFICES ASSUME NEW e \in End PROVE EndInv(L, N, B, d, e)
  BY DEF ConvInv
<1>. DEFINE f == Peer(e)
<1>f. f \in End /\ f # e /\ Peer(f) = e
  BY PeerFacts
<1>i. EndInv(K, M, B, d, e)
  BY DEF ConvInv
<1>s. /\ Slots(L, e, d) = Slots(K, e, d) /\ Slots(L, f, d) = Slots(K, f, d)
      /\ \A j \in Slots(K, e, d) : L[e][j] = K[e][j]
      /\ \A j \in Slots(K, f, d) : L[f][j] = K[f][j]
      /\ N[e] = M[e] /\ N[f] = M[f]
  BY <1>f
<1>1. ASSUME NEW m \in M[e] PROVE MailOK(L, N, B, d, e, m)
  <2>1. MailOK(K, M, B, d, e, m)
    BY <1>i DEF EndInv
  <2>. QED  BY <2>1, <1>s, <1>f DEF MailOK, BodyType
<1>2. ASSUME NEW i \in Slots(K, e, d)
      PROVE  FlagsOK(L[e][i]) /\ SlotOK(L, N, d, e, i)
  <2>1. FlagsOK(K[e][i]) /\ SlotOK(K, M, d, e, i)
    BY <1>i DEF EndInv
  <2>2. L[e][i] = K[e][i]
    BY <1>s
  <2>3. /\ Slots(L, f, d) = Slots(K, f, d)
        /\ \A j \in Slots(K, f, d) : L[f][j] = K[f][j]
        /\ N[e] = M[e] /\ N[f] = M[f]
    BY <1>s
  <2>4. Peer(e) = f
    OBVIOUS
  <2>. HIDE DEF f
  <2>5. SlotOK(L, N, d, e, i)
    BY ONLY <2>1, <2>2, <2>3, <2>4 DEF SlotOK
  <2>. QED  BY ONLY <2>1, <2>2, <2>5
<1>. QED  BY <1>1, <1>2, <1>i, <1>s, <1>f DEF EndInv

\* A step that is about conversation c.
LEMMA StepKeeps ==
    ASSUME IInv, TypeOK', exited' = {}, NEW c \in Conv,
           \A x \in End, j \in Index :
              \/ channels'[x][j] = channels[x][j]
              \/ /\ channels[x][j] # NoChan => channels[x][j].conv = c
                 /\ channels'[x][j] # NoChan =>
                      channels'[x][j].conv = c /\ ~Answered(channels'[x][j]),
           \A x \in End, d \in Conv : d # c => (d \in begun'[x] <=> d \in begun[x]),
           \A x \in End : Ordered(net'[x]),
           \A x \in End, d \in Conv :
              d # c => MailOf(net'[x], d) = MailOf(net[x], d),
           ConvInv(channels', Mail(c)', Begun(c)', c)
    PROVE  IInv'
<1>1. ASSUME NEW x \in End, NEW j \in Occupied(x)'
      PROVE  ~Answered(channels'[x][j])
  <2>1. j \in Index /\ channels'[x][j] # NoChan
    BY <1>1 DEF Occupied
  <2>2. CASE channels'[x][j] = channels[x][j]
    BY <2>1, <2>2 DEF IInv, Occupied
  <2>. QED  BY <2>1, <2>2
<1>2. ASSUME NEW d \in Conv, d # c
      PROVE  ConvInv(channels', Mail(d)', Begun(d)', d)
  <2>1. ConvInv(channels, Mail(d), Begun(d), d)
    BY DEF IInv
  <2>2. Begun(d)' = Begun(d)
    BY <1>2 DEF Begun
  <2>3. \A x \in End : Mail(d)'[x] = Mail(d)[x]
    BY <1>2 DEF Mail
  <2>4. ASSUME NEW x \in End
        PROVE  /\ Slots(channels', x, d) = Slots(channels, x, d)
               /\ \A j \in Slots(channels, x, d) :
                     channels'[x][j] = channels[x][j]
    BY <1>2 DEF Slots
  <2>. QED  BY <2>1, <2>2, <2>3, <2>4, Frame
<1>3. \A d \in Conv : ConvInv(channels', Mail(d)', Begun(d)', d)
  BY <1>2
<1>4. \A x \in End : \A j \in Occupied(x)' : ~Answered(channels'[x][j])
  BY <1>1
<1>. QED  BY <1>3, <1>4 DEF IInv

---------------------------------------------------------------------------
(* Tables *)

Tables == [End -> [Index -> Channel \cup {NoChan}]]

Put(K, e, i, new) == [K EXCEPT ![e][i] = new]

LEMMA TableFacts ==
    ASSUME NEW K \in Tables, NEW e \in End, NEW i \in Index, NEW c, NEW new,
           new = NoChan \/ (new \in Channel /\ new.conv = c),
           K[e][i] # NoChan => K[e][i].conv = c
    PROVE  /\ Put(K, e, i, new) \in Tables
           /\ Put(K, e, i, new)[e][i] = new
           /\ Put(K, e, i, new)[Peer(e)] = K[Peer(e)]
           /\ \A x \in End, j \in Index :
                 x # e \/ j # i => Put(K, e, i, new)[x][j] = K[x][j]
           /\ Slots(Put(K, e, i, new), Peer(e), c) = Slots(K, Peer(e), c)
           /\ new = NoChan =>
                Slots(Put(K, e, i, new), e, c) = Slots(K, e, c) \ {i}
           /\ new # NoChan =>
                Slots(Put(K, e, i, new), e, c) = Slots(K, e, c) \cup {i}
<1>. DEFINE L == Put(K, e, i, new)
<1>f. Peer(e) \in End /\ Peer(e) # e
  BY PeerFacts
<1>1. L \in Tables /\ L[e][i] = new /\ L[Peer(e)] = K[Peer(e)]
  BY <1>f DEF Tables, Put
<1>2. \A x \in End, j \in Index : x # e \/ j # i => L[x][j] = K[x][j]
  BY DEF Tables, Put
<1>. HIDE DEF L
<1>3. Slots(L, Peer(e), c) = Slots(K, Peer(e), c)
  BY <1>1 DEF Slots
<1>4. new = NoChan => Slots(L, e, c) = Slots(K, e, c) \ {i}
  BY <1>1, <1>2 DEF Slots
<1>5. new # NoChan => Slots(L, e, c) = Slots(K, e, c) \cup {i}
  BY <1>1, <1>2 DEF Slots
<1>. QED  BY <1>1, <1>2, <1>3, <1>4, <1>5 DEF L

LEMMA PutReplaced ==
    ASSUME NEW K \in Tables, NEW e \in End, NEW c, NEW i \in Slots(K, e, c),
           NEW new \in Channel, new.conv = c
    PROVE  /\ Put(K, e, i, new) \in Tables /\ Put(K, e, i, new)[e][i] = new
           /\ Replaced(K, Put(K, e, i, new), c, e, i)
<1>. DEFINE L == Put(K, e, i, new)
<1>1. i \in Index /\ K[e][i] # NoChan /\ K[e][i].conv = c /\ new # NoChan
  BY NoChanAssumption DEF Slots
<1>2. /\ L \in Tables /\ L[e][i] = new /\ L[Peer(e)] = K[Peer(e)]
      /\ Slots(L, Peer(e), c) = Slots(K, Peer(e), c)
      /\ Slots(L, e, c) = Slots(K, e, c) \cup {i}
  BY <1>1, TableFacts
<1>. QED  BY <1>2 DEF Replaced

LEMMA PutRemoved ==
    ASSUME NEW K \in Tables, NEW e \in End, NEW c, NEW i \in Slots(K, e, c),
           \A j \in Slots(K, e, c) : j = i
    PROVE  /\ Put(K, e, i, NoChan) \in Tables
           /\ Slots(Put(K, e, i, NoChan), e, c) = {}
           /\ Slots(Put(K, e, i, NoChan), Peer(e), c) = Slots(K, Peer(e), c)
           /\ Put(K, e, i, NoChan)[Peer(e)] = K[Peer(e)]
<1>. DEFINE L == Put(K, e, i, NoChan)
<1>1. i \in Index /\ K[e][i] # NoChan /\ K[e][i].conv = c
  BY DEF Slots
<1>2. /\ L \in Tables /\ L[Peer(e)] = K[Peer(e)]
      /\ Slots(L, Peer(e), c) = Slots(K, Peer(e), c)
      /\ Slots(L, e, c) = Slots(K, e, c) \ {i}
  BY <1>1, TableFacts
<1>. HIDE DEF L
<1>. QED  BY <1>2 DEF L

LEMMA PutAdded ==
    ASSUME NEW K \in Tables, NEW e \in End, NEW c, NEW i \in Index,
           K[e][i] = NoChan, Slots(K, e, c) = {},
           NEW new \in Channel, new.conv = c
    PROVE  /\ Put(K, e, i, new) \in Tables /\ Put(K, e, i, new)[e][i] = new
           /\ Added(K, Put(K, e, i, new), c, e, i)
<1>. DEFINE L == Put(K, e, i, new)
<1>1. new # NoChan
  BY NoChanAssumption
<1>2. /\ L \in Tables /\ L[e][i] = new /\ L[Peer(e)] = K[Peer(e)]
      /\ Slots(L, Peer(e), c) = Slots(K, Peer(e), c)
      /\ Slots(L, e, c) = Slots(K, e, c) \cup {i}
  BY <1>1, TableFacts
<1>. QED  BY <1>2 DEF Added

\* newchannel() returns a slot that is free and becomes part of the table.
LEMMA NewIndexFacts ==
    ASSUME TypeOK, NEW e \in End, NEW i \in NewIndex(e)
    PROVE  /\ i \in Index /\ channels[e][i] = NoChan
           /\ Grown(e, i) \in [End -> 1..MAX_CHANNELS + CHAN_EXTEND_SIZE - 1]
           /\ i < Grown(e, i)[e]
           /\ \A x \in End : chansize[x] <= Grown(e, i)[x]
<1>1. /\ chansize \in [End -> 1..MAX_CHANNELS + CHAN_EXTEND_SIZE - 1]
      /\ chansize[e] \in 1..MAX_CHANNELS + CHAN_EXTEND_SIZE - 1
      /\ MAX_CHANNELS \in Nat \ {0} /\ CHAN_EXTEND_SIZE \in Nat \ {0}
  BY ChannelTableAssumption DEF TypeOK
<1>2. /\ i \in 0..chansize[e]
      /\ i < chansize[e] => channels[e][i] = NoChan
      /\ i = chansize[e] => chansize[e] < MAX_CHANNELS
  BY DEF NewIndex
<1>3. i \in Index
  BY <1>1, <1>2 DEF Index
<1>4. channels[e][i] = NoChan
  BY <1>1, <1>2, <1>3 DEF TypeOK
<1>5. Grown(e, i) = [chansize EXCEPT ![e] =
                      IF i = chansize[e] THEN chansize[e] + CHAN_EXTEND_SIZE
                                         ELSE chansize[e]]
  BY DEF Grown
<1>6. CASE i = chansize[e]
  <2>1. /\ chansize[e] + CHAN_EXTEND_SIZE
             \in 1..MAX_CHANNELS + CHAN_EXTEND_SIZE - 1
        /\ i < chansize[e] + CHAN_EXTEND_SIZE
        /\ chansize[e] <= chansize[e] + CHAN_EXTEND_SIZE
    BY <1>1, <1>2, <1>6
  <2>. QED  BY <2>1, <1>1, <1>3, <1>4, <1>5, <1>6
<1>7. CASE i # chansize[e]
  BY <1>1, <1>2, <1>3, <1>4, <1>5, <1>7
<1>. QED  BY <1>6, <1>7

LEMMA CheckPacketsFacts ==
    ASSUME NEW ch \in Channel, FlagsOK(ch)
    PROVE  /\ CheckPackets(ch) \in Seq(PacketSet)
           /\ Ordered(CheckPackets(ch))
           /\ \A q \in Msgs(CheckPackets(ch)) :
                 /\ q.conv = ch.conv /\ q.chan = ch.remotechan
                 /\ q.t \in {"EOF", "CLOSE"} /\ ~ch.sent_close
                 /\ Answered(ch) => q.t = "CLOSE"
                 /\ ~Answered(ch) /\ q.t = "EOF" =>
                      ~ch.sent_eof /\ Closing(ch).sent_eof
                 /\ ~Answered(ch) /\ q.t = "CLOSE" => Closing(ch).sent_close
           /\ Answered(ch) =>
                ch.sent_close \/ Some(Msgs(CheckPackets(ch)), "CLOSE")
           /\ ~Answered(ch) /\ Closing(ch).sent_close =>
                ch.sent_close \/ Some(Msgs(CheckPackets(ch)), "CLOSE")
<1>. DEFINE E == Packet("EOF", ch.remotechan, ch.conv)
            C == Packet("CLOSE", ch.remotechan, ch.conv)
            s == Shut(ch)
            eof == IF SaysEof(s) THEN <<E>> ELSE <<>>
            close == IF SaysClose(s) THEN <<C>> ELSE <<>>
<1>1. /\ E \in PacketSet /\ E.t = "EOF" /\ E.chan = ch.remotechan
      /\ E.conv = ch.conv
      /\ C \in PacketSet /\ C.t = "CLOSE" /\ C.chan = ch.remotechan
      /\ C.conv = ch.conv
  BY PacketsMade DEF Channel
<1>2. CASE Answered(ch)
  <2>1. CheckPackets(ch) = IF ch.sent_close THEN <<>> ELSE <<C>>
    BY <1>2 DEF CheckPackets, CloseReply
  <2>2. CASE ch.sent_close
    BY <2>1, <2>2, <1>1, <1>2, Short DEF Some
  <2>3. CASE ~ch.sent_close
    <3>1. CheckPackets(ch) = <<C>> /\ Msgs(<<C>>) = {C}
      BY <2>1, <2>3, <1>1, Short
    <3>. QED  BY <3>1, <2>3, <1>1, <1>2, Short DEF Some
  <2>. QED  BY <2>2, <2>3
<1>3. CASE ~Answered(ch)
  <2>1. CheckPackets(ch) = eof \o close
    BY <1>3 DEF CheckPackets, ClosePackets
  <2>2. /\ eof \in Seq(PacketSet) /\ Ordered(eof)
        /\ Msgs(eof) = IF SaysEof(s) THEN {E} ELSE {}
    BY <1>1, Short
  <2>3. /\ close \in Seq(PacketSet) /\ Ordered(close)
        /\ Msgs(close) = IF SaysClose(s) THEN {C} ELSE {}
    BY <1>1, Short
  <2>4. \A p \in Msgs(eof), q \in Msgs(close) : After(p, q)
    BY <2>2, <2>3, <1>1 DEF After
  <2>5. /\ eof \o close \in Seq(PacketSet) /\ Ordered(eof \o close)
        /\ Msgs(eof \o close) = Msgs(eof) \cup Msgs(close)
    <3>. HIDE DEF eof, close
    <3>. QED  BY <2>2, <2>3, <2>4, Appended
  <2>6. /\ s.reads = ch.reads /\ s.sent_eof = ch.sent_eof
        /\ s.sent_close = ch.sent_close
    BY DEF Shut, Channel
  <2>7. /\ Closing(ch).sent_eof = (ch.sent_eof \/ SaysEof(s) \/ SaysClose(s))
        /\ Closing(ch).sent_close = (ch.sent_close \/ SaysClose(s))
    BY DEF Closing, Shut, Channel
  <2>8. /\ SaysEof(s) => ~ch.sent_eof /\ ~ch.sent_close
        /\ SaysClose(s) => ~ch.sent_close
    BY <2>6 DEF SaysEof, SaysClose, FlagsOK
  <2>9. ASSUME NEW q \in Msgs(CheckPackets(ch))
        PROVE  \/ q = E /\ SaysEof(s)
               \/ q = C /\ SaysClose(s)
    BY <2>1, <2>2, <2>3, <2>5
  <2>10. SaysClose(s) => Some(Msgs(CheckPackets(ch)), "CLOSE")
    BY <2>1, <2>3, <2>5, <1>1 DEF Some
  <2>. QED  BY <2>1, <2>5, <2>7, <2>8, <2>9, <2>10, <1>1, <1>3
<1>. QED  BY <1>2, <1>3

\* check_close() as a whole.
LEMMA CheckKeeps ==
    ASSUME NEW K \in Tables, NEW L, NEW M, NEW N, NEW B, NEW c,
           NEW e \in End, NEW i \in Slots(K, e, c), NEW ch, ch = K[e][i],
           ConvInv(K, M, B, c), ~ch.await_open, ~ch.initconn,
           L = Put(K, e, i, AfterCheck(ch)),
           N[e] = M[e],
           N[Peer(e)] = M[Peer(e)] \cup Msgs(CheckPackets(ch))
    PROVE  ConvInv(L, N, B, c)
<1>1. /\ i \in Index /\ ch \in Channel /\ ch.conv = c /\ FlagsOK(ch)
      /\ Slots(K, e, c) = {i}
  BY DEF Slots, Tables, ConvInv, EndInv
<1>2. CASE Answered(ch)
  <2>1. AfterCheck(ch) = NoChan /\ ch.recv_close
    BY <1>2 DEF AfterCheck, Answered
  <2>2. /\ Slots(L, e, c) = {}
        /\ Slots(L, Peer(e), c) = Slots(K, Peer(e), c)
        /\ L[Peer(e)] = K[Peer(e)]
    <3>1. L = Put(K, e, i, NoChan)
      BY <2>1
    <3>2. K[e][i] # NoChan => K[e][i].conv = c
      BY <1>1
    <3>. QED  BY <3>1, <3>2, <1>1, TableFacts
  <2>3. \A m \in N[Peer(e)] \ M[Peer(e)] :
           m.chan = ch.remotechan /\ m.t = "CLOSE" /\ ~ch.sent_close
    BY <1>1, <1>2, CheckPacketsFacts
  <2>4. ch.sent_close \/ Some(N[Peer(e)], "CLOSE")
    BY <1>1, <1>2, CheckPacketsFacts DEF Some
  <2>. QED  BY <2>1, <2>2, <2>3, <2>4, RemovingKeeps
<1>3. CASE ~Answered(ch)
  <2>. DEFINE new == Closing(ch)
  <2>1. AfterCheck(ch) = new /\ Closed(ch, new)
    BY <1>1, <1>3, ClosingCloses DEF AfterCheck
  <2>2. new \in Channel /\ new # NoChan /\ new.conv = c
    BY <2>1, <1>1, NoChanAssumption DEF Closed
  <2>3. Replaced(K, L, c, e, i) /\ L[e][i] = new
    <3>. HIDE DEF new
    <3>1. L = Put(K, e, i, new)
      BY <2>1
    <3>2. K[e][i] # NoChan => K[e][i].conv = c
      BY <1>1
    <3>. QED  BY <3>1, <3>2, <2>2, <1>1, TableFacts DEF Replaced
  <2>4. \A m \in N[Peer(e)] \ M[Peer(e)] :
           /\ m.chan = ch.remotechan
           /\ \/ m.t = "EOF" /\ ~ch.sent_eof /\ new.sent_eof
              \/ m.t = "CLOSE" /\ ~ch.sent_close /\ new.sent_close
    BY <1>1, <1>3, CheckPacketsFacts
  <2>5. new.sent_close => ch.sent_close \/ Some(N[Peer(e)], "CLOSE")
    BY <1>1, <1>3, CheckPacketsFacts DEF Some
  <2>. HIDE DEF new
  <2>. QED  BY <2>1, <2>3, <2>4, <2>5, <1>3, ClosingKeeps
<1>. QED  BY <1>2, <1>3

\* What may be under way to the peer of an open channel.
LEMMA Follows ==
    ASSUME NEW K, NEW M, NEW B, NEW c, NEW e \in End, ConvInv(K, M, B, c),
           NEW i \in Slots(K, e, c), ~K[e][i].await_open, ~K[e][i].initconn,
           NEW m \in M[Peer(e)]
    PROVE  /\ m.t \notin {"OPEN", "OPEN_FAILURE"}
           /\ m.t = "EOF" => K[e][i].sent_eof
           /\ m.t = "CLOSE" => K[e][i].sent_close
<1>. DEFINE f == Peer(e)
<1>f. f \in End /\ Peer(f) = e
  BY PeerFacts
<1>i. EndInv(K, M, B, c, e) /\ MailOK(K, M, B, c, f, m)
  BY <1>f DEF ConvInv, EndInv
<1>. QED  BY <1>i, <1>f DEF EndInv, MailOK

---------------------------------------------------------------------------
(* The steps *)

\* The packet at the head is what the invariant says of one, and the channel
\* it names exists.
LEMMA HeadFacts ==
    ASSUME IInv, NEW e \in End, net[e] # <<>>, NEW p, p = Head(net[e])
    PROVE  /\ p \in PacketSet /\ p.conv \in Conv
           /\ p.t # "FAILURE" => /\ p \in Mail(p.conv)[e]
                                 /\ MailOK(channels, Mail(p.conv),
                                           Begun(p.conv), p.conv, e, p)
           /\ p.t \notin {"OPEN", "FAILURE"} =>
                /\ p.chan \in Index /\ p.chan \in Slots(channels, e, p.conv)
                /\ Found(e) /\ Reached(e) = p.chan
<1>1. net[e] \in Seq(PacketSet)
  BY DEF IInv, TypeOK
<1>2. p \in PacketSet /\ p \in Msgs(net[e]) /\ p.conv \in Conv
  BY <1>1, Popped, PacketFacts
<1>3. ConvInv(channels, Mail(p.conv), Begun(p.conv), p.conv)
  BY <1>2 DEF IInv
<1>4. ASSUME p.t # "FAILURE"
      PROVE  /\ p \in Mail(p.conv)[e]
             /\ MailOK(channels, Mail(p.conv), Begun(p.conv), p.conv, e, p)
  <2>1. p \in Mail(p.conv)[e]
    BY <1>2, <1>4 DEF Mail, MailOf
  <2>. QED  BY <2>1, <1>3 DEF ConvInv, EndInv
<1>5. ASSUME p.t \notin {"OPEN", "FAILURE"}
      PROVE  /\ p.chan \in Index /\ p.chan \in Slots(channels, e, p.conv)
             /\ Found(e) /\ Reached(e) = p.chan
  <2>1. p.chan \in Slots(channels, e, p.conv) /\ p.chan \in Index
    BY <1>4, <1>5 DEF MailOK, Slots
  <2>2. p.chan < chansize[e]
    <3>1. channels[e][p.chan] # NoChan
      BY <2>1 DEF Slots
    <3>2. p.chan \in Int /\ chansize[e] \in Int
      BY <2>1, ChannelTableAssumption DEF Index, IInv, TypeOK
    <3>. QED  BY <2>1, <3>1, <3>2 DEF IInv, TypeOK
  <2>. QED  BY <2>1, <2>2 DEF Found, Reached, Slots
<1>. QED  BY <1>2, <1>4, <1>5

\* What is known of a channel in use.
LEMMA SlotFacts ==
    ASSUME IInv, NEW e \in End, NEW i \in Occupied(e),
           NEW ch, ch = channels[e][i]
    PROVE  /\ i \in Index /\ ch \in Channel /\ ch.conv \in Conv
           /\ i \in Slots(channels, e, ch.conv) /\ i < chansize[e]
           /\ ~Answered(ch) /\ FlagsOK(ch) /\ ch.remotechan \in Index
           /\ ConvInv(channels, Mail(ch.conv), Begun(ch.conv), ch.conv)
<1>1. i \in Index /\ ch # NoChan /\ ch \in Channel
  BY DEF Occupied, IInv, TypeOK
<1>2. ch.conv \in Conv /\ ch.remotechan \in Index
  BY <1>1 DEF Channel
<1>3. i \in Slots(channels, e, ch.conv)
  BY <1>1 DEF Slots
<1>4. ConvInv(channels, Mail(ch.conv), Begun(ch.conv), ch.conv)
  BY <1>2 DEF IInv
<1>5. FlagsOK(ch)
  BY <1>3, <1>4 DEF ConvInv, EndInv
<1>6. i < chansize[e]
  <2>1. i \in Int /\ chansize[e] \in Int
    BY <1>1, ChannelTableAssumption DEF Index, IInv, TypeOK
  <2>. QED  BY <2>1, <1>1 DEF IInv, TypeOK
<1>. QED  BY <1>1, <1>2, <1>3, <1>4, <1>5, <1>6 DEF IInv

LEMMA AfterCheckFacts ==
    ASSUME NEW ch \in Channel, NEW new, new = AfterCheck(ch)
    PROVE  new = NoChan \/ (new \in Channel /\ new.conv = ch.conv /\ ~Answered(new))
<1>1. CASE Answered(ch)
  BY <1>1 DEF AfterCheck
<1>2. CASE ~Answered(ch)
  <2>1. new = Closing(ch) /\ Closed(ch, new)
    BY <1>2, ClosingCloses DEF AfterCheck
  <2>. QED  BY <2>1, <1>2 DEF Closed, Answered
<1>. QED  BY <1>1, <1>2

Typed == /\ chansize \in [End -> 1..MAX_CHANNELS + CHAN_EXTEND_SIZE - 1]
         /\ net \in [End -> Seq(PacketSet)]
         /\ begun \in [End -> SUBSET Conv]
         /\ sent \in [End -> [Conv -> Nat]] /\ rcvd \in [End -> [Conv -> Nat]]
         /\ asked \in [End -> Nat]

\* A step that puts conversation c's channel, or nothing, in a slot.
LEMMA SlotStep ==
    ASSUME IInv, Typed', exited' = {},
           NEW e \in End, NEW i \in Index, NEW c \in Conv, NEW new,
           \/ new = NoChan
           \/ /\ new \in Channel /\ new.conv = c /\ ~Answered(new)
              /\ i < chansize'[e],
           channels[e][i] # NoChan => channels[e][i].conv = c,
           channels' = Put(channels, e, i, new),
           \A x \in End : chansize[x] <= chansize'[x],
           \A x \in End, d \in Conv : d # c => (d \in begun'[x] <=> d \in begun[x]),
           \A x \in End : Ordered(net'[x]),
           \A x \in End, d \in Conv :
              d # c => MailOf(net'[x], d) = MailOf(net[x], d),
           ConvInv(channels', Mail(c)', Begun(c)', c)
    PROVE  IInv'
<1>1. channels \in Tables
  BY DEF IInv, TypeOK, Tables
<1>2. /\ channels' \in Tables /\ channels'[e][i] = new
      /\ \A x \in End, j \in Index :
            x # e \/ j # i => channels'[x][j] = channels[x][j]
  <2>. DEFINE L == Put(channels, e, i, new)
  <2>1. new = NoChan \/ (new \in Channel /\ new.conv = c)
    OBVIOUS
  <2>2. /\ L \in Tables /\ L[e][i] = new
        /\ \A x \in End, j \in Index :
              x # e \/ j # i => L[x][j] = channels[x][j]
        /\ Slots(L, Peer(e), c) = Slots(channels, Peer(e), c)
    BY <1>1, <2>1, TableFacts
  <2>. HIDE DEF L
  <2>. QED  BY <2>2 DEF L
<1>3. ASSUME NEW x \in End, NEW j \in Index, j >= chansize'[x]
      PROVE  channels'[x][j] = NoChan
  <2>1. /\ chansize[x] \in Int /\ chansize'[x] \in Int /\ j \in Int
        /\ chansize[x] <= chansize'[x]
    BY ChannelTableAssumption DEF IInv, TypeOK, Typed, Index
  <2>2. j >= chansize[x] /\ (x = e /\ j = i => new = NoChan)
    BY <2>1, <1>3
  <2>. QED  BY <2>2, <1>2 DEF IInv, TypeOK
<1>4. TypeOK'
  BY <1>2, <1>3 DEF TypeOK, Typed, Tables
<1>5. \A x \in End, j \in Index :
        \/ channels'[x][j] = channels[x][j]
        \/ /\ channels[x][j] # NoChan => channels[x][j].conv = c
           /\ channels'[x][j] # NoChan =>
                channels'[x][j].conv = c /\ ~Answered(channels'[x][j])
  BY <1>2
<1>. QED  BY <1>4, <1>5, StepKeeps

\* A packet for an open channel is at the head.
LEMMA BodyHead ==
    ASSUME IInv, NEW e \in End, net[e] # <<>>, NEW p, p = Head(net[e]),
           p.t \in BodyType, NEW ch, ch = channels[e][p.chan]
    PROVE  /\ p \in Mail(p.conv)[e]
           /\ p.chan \in Occupied(e) /\ ch.conv = p.conv
           /\ Found(e) /\ Reached(e) = p.chan
           /\ ~ch.await_open /\ ~ch.initconn /\ ~ch.recv_close
           /\ p.t = "DATA" => ~ch.recv_eof
<1>. DEFINE c == p.conv
<1>1. /\ p \in Mail(c)[e]
      /\ MailOK(channels, Mail(c), Begun(c), c, e, p)
      /\ p.chan \in Index /\ p.chan \in Slots(channels, e, c)
      /\ Found(e) /\ Reached(e) = p.chan
  BY HeadFacts DEF BodyType
<1>2. p.chan \in Occupied(e) /\ ch.conv = c
  BY <1>1 DEF Slots, Occupied
<1>3. ~Some(Mail(c)[e], "CONFIRMATION")
  <2>1. /\ net[e] \in Seq(PacketSet) /\ Ordered(net[e])
    BY DEF IInv, TypeOK
  <2>2. /\ Msgs(net[e]) = Msgs(Tail(net[e])) \cup {p}
        /\ \A m \in Msgs(Tail(net[e])) : After(p, m)
    BY <2>1, Popped
  <2>. QED  BY <2>2 DEF Some, Mail, MailOf, After, BodyType
<1>. QED  BY <1>1, <1>2, <1>3 DEF MailOK, BodyType

\* Channel new is ch but for the buffer and the descriptors.
Refitted(ch, new) ==
    /\ new \in Channel /\ FlagsOK(new)
    /\ \A g \in {"conv", "remotechan", "await_open", "initconn", "sent_eof",
                "recv_eof", "sent_close", "recv_close"} : new[g] = ch[g]

\* Such a packet has been read, and check_close() is not called.
LEMMA PlainReply ==
    ASSUME IInv, NEW e \in End, net[e] # <<>>,
           Head(net[e]).t \in {"DATA", "REQUEST"},
           NEW new, Refitted(channels[e][Head(net[e]).chan], new),
           channels' = Put(channels, e, Head(net[e]).chan, new),
           NEW ps \in Seq(PacketSet), Ordered(ps),
           \A q \in Msgs(ps) : q.conv = Head(net[e]).conv /\ q.t = "FAILURE",
           Reply(e, ps), UNCHANGED <<chansize, exited, begun, sent, asked>>,
           rcvd' \in [End -> [Conv -> Nat]]
    PROVE  IInv'
<1>. PICK p : p = Head(net[e])
  OBVIOUS
<1>. PICK ch : ch = channels[e][p.chan]
  OBVIOUS
<1>. PICK i : i = p.chan
  OBVIOUS
<1>. PICK c : c = p.conv
  OBVIOUS
<1>r. Refitted(ch, new) /\ channels' = Put(channels, e, i, new)
  OBVIOUS
<1>n. /\ new \in Channel /\ FlagsOK(new) /\ new.conv = ch.conv
      /\ new.remotechan = ch.remotechan
      /\ new.await_open = ch.await_open /\ new.initconn = ch.initconn
      /\ new.sent_eof = ch.sent_eof /\ new.recv_eof = ch.recv_eof
      /\ new.sent_close = ch.sent_close /\ new.recv_close = ch.recv_close
  BY ONLY <1>r DEF Refitted
<1>. DEFINE f == Peer(e)
            M == Mail(c)
            N == Mail(c)'
<1>f. f \in End /\ f # e
  BY PeerFacts
<1>1. /\ p \in M[e] /\ i \in Occupied(e) /\ ch.conv = c
      /\ ~ch.await_open /\ ~ch.initconn /\ ~ch.recv_close
  <2>1. IInv /\ net[e] # <<>> /\ p = Head(net[e]) /\ p.t \in BodyType
    BY DEF BodyType
  <2>2. i = p.chan /\ c = p.conv /\ ch = channels[e][p.chan]
    OBVIOUS
  <2>3. /\ p \in Mail(p.conv)[e] /\ p.chan \in Occupied(e) /\ ch.conv = p.conv
        /\ ~ch.await_open /\ ~ch.initconn /\ ~ch.recv_close
    BY ONLY <2>1, <2>2, BodyHead, e \in End
  <2>. QED  BY ONLY <2>2, <2>3
<1>2. /\ i \in Index /\ ch \in Channel /\ c \in Conv
      /\ i \in Slots(channels, e, c) /\ i < chansize[e]
      /\ ConvInv(channels, M, Begun(c), c)
  <2>1. ch = channels[e][i]
    OBVIOUS
  <2>2. /\ i \in Index /\ ch \in Channel /\ ch.conv \in Conv
        /\ i \in Slots(channels, e, ch.conv) /\ i < chansize[e]
        /\ ConvInv(channels, Mail(ch.conv), Begun(ch.conv), ch.conv)
    BY ONLY <1>1, <2>1, SlotFacts, IInv, e \in End
  <2>. QED  BY ONLY <1>1, <2>2
<1>3. Under(e, c, ps) /\ Taken(e, c, p)
  <2>1. Fits(e, c, ps)
    BY DEF Fits, After
  <2>. QED  BY <2>1, ReplyFacts DEF IInv
<1>m. /\ N[e] \subseteq M[e] /\ M[e] \subseteq N[e] \cup {p}
      /\ N[f] = M[f]
  <2>1. {q \in Msgs(ps) : q.t # "FAILURE"} = {}
    OBVIOUS
  <2>2. Mail(c)'[f] = Mail(c)[f] \cup {q \in Msgs(ps) : q.t # "FAILURE"}
    BY <1>3 DEF Under
  <2>. QED  BY <1>3, <2>1, <2>2 DEF Taken
<1>. HIDE DEF M, N
<1>4. Replaced(channels, channels', c, e, i) /\ channels'[e][i] = new
  <2>1. channels \in Tables
    BY DEF IInv, TypeOK, Tables
  <2>2. PICK L : L = channels'
    OBVIOUS
  <2>3. PICK K : K = channels
    OBVIOUS
  <2>4. K \in Tables /\ i \in Slots(K, e, c) /\ L = Put(K, e, i, new)
    BY <1>r, <1>2, <2>1, <2>2, <2>3
  <2>5. new \in Channel /\ new.conv = c
    BY <1>1, <1>n
  <2>6. Replaced(K, L, c, e, i) /\ L[e][i] = new
    BY ONLY <1>2, <2>4, <2>5, PutReplaced, e \in End
  <2>. QED  BY ONLY <2>2, <2>3, <2>6
<1>5. ConvInv(channels', N, Begun(c), c)
  <2>1. AmendsMail(M, N, e, channels[e][i], channels'[e][i])
    <3>1. channels[e][i] = ch /\ p.t # "CLOSE"
      OBVIOUS
    <3>. QED  BY ONLY <3>1, <1>m, <1>n, <1>4 DEF AmendsMail, f
  <2>2. Amends(channels[e][i], channels'[e][i])
    <3>1. channels[e][i] = ch
      OBVIOUS
    <3>. QED  BY ONLY <3>1, <1>1, <1>n, <1>4 DEF Amends
  <2>. QED  BY ONLY <2>1, <2>2, <1>2, <1>4, AmendingKeeps, e \in End
<1>6. Begun(c)' = Begun(c) /\ Typed'
  BY <1>3 DEF Under, Begun, Typed, IInv, TypeOK
<1>7. ~Answered(new)
  BY ONLY <1>1, <1>n DEF Answered
<1>. QED
  <2>1. ConvInv(channels', Mail(c)', Begun(c)', c)
    BY <1>5, <1>6 DEF N
  <2>2. /\ exited' = {} /\ \A x \in End : chansize[x] <= chansize'[x]
        /\ i < chansize'[e]
    BY <1>2, ChannelTableAssumption DEF IInv, TypeOK
  <2>3. \A x \in End, d \in Conv : d # c => (d \in begun'[x] <=> d \in begun[x])
    OBVIOUS
  <2>4. /\ new \in Channel /\ new.conv = c /\ channels[e][i].conv = c
    BY <1>1, <1>n
  <2>5. /\ \A x \in End : Ordered(net'[x])
        /\ \A x \in End, d \in Conv :
              d # c => MailOf(net'[x], d) = MailOf(net[x], d)
    BY <1>3 DEF Under
  <2>. QED  BY ONLY <2>1, <2>2, <2>3, <2>4, <2>5, <1>r, <1>2, <1>6, <1>7,
                    SlotStep, IInv, e \in End


\* recv_msg_channel_data()
LEMMA DataKeeps ==
    ASSUME IInv, NEW e \in End, RecvData(e)
    PROVE  IInv'
<1>. DEFINE p == Head(net[e])
            i == p.chan
            ch == channels[e][i]
            new == [ch EXCEPT !.pending = @ \/ ch.writes]
            ps == <<>>
<1>1. net[e] # <<>> /\ p.t = "DATA"
  BY DEF RecvData, Arrives
<1>2. /\ i \in Occupied(e) /\ Found(e) /\ Reached(e) = i
      /\ ~ch.await_open /\ ~ch.initconn /\ ~ch.recv_eof /\ ~ch.recv_close
  BY <1>1, BodyHead DEF BodyType
<1>3. ch \in Channel /\ ch.conv \in Conv /\ FlagsOK(ch)
  BY <1>2, SlotFacts
<1>4. /\ channels' = Put(channels, e, i, new)
      /\ Reply(e, ps) /\ UNCHANGED <<chansize, exited, begun, sent, asked>>
      /\ rcvd' = [rcvd EXCEPT ![e][ch.conv] = @ + 1]
  BY <1>2 DEF RecvData, Handle, Put
<1>5. rcvd' \in [End -> [Conv -> Nat]]
  <2>. DEFINE d == ch.conv
  <2>1. rcvd \in [End -> [Conv -> Nat]]
    BY DEF IInv, TypeOK
  <2>2. d \in Conv /\ rcvd' = [rcvd EXCEPT ![e][d] = rcvd[e][d] + 1]
    BY <1>3, <1>4
  <2>. HIDE DEF d
  <2>. QED  BY <2>1, <2>2
<1>6. /\ new \in Channel
      /\ \A g \in {"conv", "remotechan", "await_open", "initconn", "sent_eof",
                  "recv_eof", "sent_close", "recv_close"} : new[g] = ch[g]
      /\ new.reads = ch.reads /\ new.writes = ch.writes
      /\ new.pending = (ch.pending \/ ch.writes)
  BY <1>3 DEF Channel
<1>7. Refitted(ch, new)
  BY <1>2, <1>3, <1>6 DEF FlagsOK, Refitted
<1>8. /\ ps \in Seq(PacketSet) /\ Ordered(ps)
      /\ \A q \in Msgs(ps) : q.conv = p.conv /\ q.t = "FAILURE"
  BY DEF Ordered, Msgs
<1>. HIDE DEF new, ps
<1>. QED  BY <1>1, <1>4, <1>5, <1>7, <1>8, PlainReply

\* recv_msg_channel_request()
LEMMA RequestKeeps ==
    ASSUME IInv, NEW e \in End, RecvRequest(e)
    PROVE  IInv'
<1>. DEFINE p == Head(net[e])
            i == p.chan
            ch == channels[e][i]
            q == Packet("FAILURE", ch.remotechan, ch.conv)
            ps == IF ch.sent_close THEN <<>> ELSE <<q>>
<1>1. net[e] # <<>> /\ p.t = "REQUEST"
  BY DEF RecvRequest, Arrives
<1>2. /\ i \in Occupied(e) /\ Found(e) /\ Reached(e) = i /\ ch.conv = p.conv
  BY <1>1, BodyHead DEF BodyType
<1>3. /\ ch \in Channel /\ ch.conv \in Conv /\ FlagsOK(ch)
      /\ ch.remotechan \in Index
  BY <1>2, SlotFacts
<1>4. /\ channels' = Put(channels, e, i, ch)
      /\ Reply(e, ps)
      /\ UNCHANGED <<chansize, exited, begun, sent, rcvd, asked>>
  BY <1>2 DEF RecvRequest, Handle, Put
<1>5. rcvd' \in [End -> [Conv -> Nat]]
  BY <1>4 DEF IInv, TypeOK
<1>6. q \in PacketSet /\ q.conv = p.conv /\ q.t = "FAILURE"
  <2>. PICK d : d = ch.conv
    OBVIOUS
  <2>. PICK r : r = ch.remotechan
    OBVIOUS
  <2>1. q = Packet("FAILURE", r, d) /\ d \in Conv /\ r \in Index /\ d = p.conv
    BY <1>2, <1>3
  <2>. HIDE DEF q
  <2>2. q \in PacketSet /\ q.t = "FAILURE" /\ q.conv = d
    BY ONLY <2>1, PacketMade
  <2>. QED  BY ONLY <2>1, <2>2
<1>. HIDE DEF q
<1>7. /\ ps \in Seq(PacketSet) /\ Ordered(ps)
      /\ \A m \in Msgs(ps) : m.conv = p.conv /\ m.t = "FAILURE"
  <2>1. ps = <<>> \/ ps = <<q>>
    OBVIOUS
  <2>. HIDE DEF ps
  <2>. QED  BY ONLY <1>6, <2>1, Short
<1>8. Refitted(ch, ch)
  BY <1>3 DEF Refitted
<1>. HIDE DEF ps
<1>. QED  BY <1>1, <1>4, <1>5, <1>7, <1>8, PlainReply

\* check_close() at the end of a step, after new was put in slot i and the
\* mail was O.
LEMMA CheckStep ==
    ASSUME IInv, NEW e \in End, NEW c \in Conv, NEW i \in Slots(channels, e, c),
           NEW new \in Channel, new.conv = c, ~new.await_open, ~new.initconn,
           NEW O, ConvInv(Put(channels, e, i, new), O, Begun(c), c),
           Mail(c)'[e] = O[e],
           Mail(c)'[Peer(e)] = O[Peer(e)] \cup Msgs(CheckPackets(new)),
           NEW ps, Under(e, c, ps),
           channels' = Put(channels, e, i, AfterCheck(new)),
           UNCHANGED <<chansize, exited, begun>>,
           sent' \in [End -> [Conv -> Nat]], rcvd' \in [End -> [Conv -> Nat]],
           asked' \in [End -> Nat]
    PROVE  IInv'
<1>. DEFINE K == Put(channels, e, i, new)
            after == AfterCheck(new)
<1>t. channels \in Tables
  BY DEF IInv, TypeOK, Tables
<1>1. /\ i \in Index /\ channels[e][i] # NoChan /\ channels[e][i].conv = c
      /\ i \in Occupied(e)
  BY DEF Slots, Occupied
<1>2. K \in Tables /\ K[e][i] = new /\ i \in Slots(K, e, c)
  BY <1>t, PutReplaced DEF Replaced
<1>3. channels' = Put(K, e, i, AfterCheck(K[e][i]))
  <2>1. Put(K, e, i, after) = Put(channels, e, i, after)
    BY <1>t, <1>1 DEF Put, Tables
  <2>. QED  BY <2>1, <1>2
<1>. HIDE DEF K
<1>4. ConvInv(channels', Mail(c)', Begun(c), c)
  <2>1. ConvInv(K, O, Begun(c), c)
    BY DEF K
  <2>. QED  BY <2>1, <1>2, <1>3, CheckKeeps
<1>5. Begun(c)' = Begun(c) /\ Typed'
  BY DEF Under, Begun, Typed, IInv, TypeOK
<1>6. after = NoChan \/ (after \in Channel /\ after.conv = c /\ ~Answered(after))
  BY AfterCheckFacts
<1>7. /\ exited' = {} /\ \A x \in End : chansize[x] <= chansize'[x]
      /\ i < chansize'[e]
  <2>1. i < chansize[e]
    BY <1>1, SlotFacts
  <2>. QED  BY <2>1, ChannelTableAssumption DEF IInv, TypeOK
<1>8. \A x \in End, d \in Conv : d # c => (d \in begun'[x] <=> d \in begun[x])
  OBVIOUS
<1>9. /\ \A x \in End : Ordered(net'[x])
      /\ \A x \in End, d \in Conv :
            d # c => MailOf(net'[x], d) = MailOf(net[x], d)
  BY DEF Under
<1>10. ConvInv(channels', Mail(c)', Begun(c)', c)
  BY <1>4, <1>5
<1>. HIDE DEF after
<1>11. channels' = Put(channels, e, i, after)
  BY DEF after
<1>. QED  BY <1>1, <1>5, <1>6, <1>7, <1>8, <1>9, <1>10, <1>11, SlotStep

\* recv_msg_channel_eof(), recv_msg_channel_close()
LEMMA ClosePacketKeeps ==
    ASSUME IInv, NEW e \in End, RecvEof(e) \/ RecvClose(e)
    PROVE  IInv'
<1>. PICK p : p = Head(net[e])
  OBVIOUS
<1>. PICK ch : ch = channels[e][p.chan]
  OBVIOUS
<1>. DEFINE i == p.chan
            c == p.conv
            f == Peer(e)
            new == IF p.t = "EOF"
                   THEN [ch EXCEPT !.recv_eof = TRUE]
                   ELSE [ch EXCEPT !.recv_eof = TRUE, !.recv_close = TRUE]
            M == Mail(c)
            N == Mail(c)'
            O == [M EXCEPT ![e] = N[e]]
            ps == CheckPackets(new)
<1>f. f \in End /\ f # e
  BY PeerFacts
<1>1. /\ net[e] # <<>> /\ p.t \in {"EOF", "CLOSE"}
      /\ p.t = "EOF" <=> RecvEof(e)
  BY DEF RecvEof, RecvClose, Arrives
<1>2. /\ p \in M[e] /\ i \in Occupied(e) /\ ch.conv = c
      /\ Found(e) /\ Reached(e) = i
      /\ ~ch.await_open /\ ~ch.initconn /\ ~ch.recv_close
  BY <1>1, BodyHead DEF BodyType
<1>3. /\ i \in Index /\ ch \in Channel /\ c \in Conv /\ FlagsOK(ch)
      /\ i \in Slots(channels, e, c)
      /\ ConvInv(channels, M, Begun(c), c)
  BY <1>2, SlotFacts
<1>4. /\ channels' = Put(channels, e, i, AfterCheck(new)) /\ Reply(e, ps)
      /\ UNCHANGED <<chansize, exited, begun, sent, rcvd, asked>>
  <2>1. CASE p.t = "EOF"
    BY <1>1, <1>2, <2>1 DEF RecvEof, Handle, Put
  <2>2. CASE p.t = "CLOSE"
    <3>1. RecvClose(e)
      BY <1>1, <2>2
    <3>. QED  BY <3>1, <1>2, <2>2 DEF RecvClose, Handle, Put
  <2>. QED  BY <1>1, <2>1, <2>2
<1>5. /\ new \in Channel
      /\ \A g \in {"conv", "remotechan", "await_open", "initconn", "sent_eof",
                  "sent_close", "reads", "writes", "pending"} : new[g] = ch[g]
      /\ new.recv_eof /\ (new.recv_close <=> p.t = "CLOSE")
  BY <1>1, <1>2, <1>3 DEF Channel
<1>6. FlagsOK(new)
  BY <1>2, <1>3, <1>5 DEF FlagsOK
<1>. HIDE DEF new
<1>7. Fits(e, c, ps)
  <2>1. /\ ps \in Seq(PacketSet) /\ Ordered(ps)
        /\ \A q \in Msgs(ps) :
              /\ q.conv = c /\ q.t \in {"EOF", "CLOSE"} /\ ~ch.sent_close
    BY <1>2, <1>5, <1>6, CheckPacketsFacts
  <2>2. \A m \in M[f] :
           /\ m.t \notin {"OPEN", "OPEN_FAILURE"}
           /\ m.t = "CLOSE" => ch.sent_close
    BY <1>2, <1>3, Follows
  <2>. QED  BY <2>1, <2>2 DEF Fits, After
<1>8. Under(e, c, ps) /\ Taken(e, c, p)
  BY <1>1, <1>4, <1>7, ReplyFacts DEF IInv
<1>9. /\ O[e] = N[e] /\ O[f] = M[f]
      /\ N[e] \subseteq M[e] /\ M[e] \subseteq N[e] \cup {p}
      /\ \A m \in N[e] : After(p, m)
  <2>1. M \in [End -> {M[x] : x \in End}]
    BY DEF Mail
  <2>. QED  BY <2>1, <1>8, <1>f DEF Taken
<1>10. N[f] = O[f] \cup Msgs(ps)
  <2>1. \A q \in Msgs(ps) : q.t # "FAILURE"
    BY <1>5, <1>6, CheckPacketsFacts
  <2>. QED  BY <2>1, <1>8, <1>9 DEF Under
<1>. DEFINE K == Put(channels, e, i, new)
<1>11. Replaced(channels, K, c, e, i) /\ K[e][i] = new
  <2>1. channels \in Tables
    BY DEF IInv, TypeOK, Tables
  <2>2. /\ i \in Slots(channels, e, c) /\ new \in Channel
        /\ K = Put(channels, e, i, new)
    BY <1>3, <1>5
  <2>3. new.conv = c
    BY <1>2, <1>5
  <2>. HIDE DEF i, c, K
  <2>. QED  BY ONLY <2>1, <2>2, <2>3, PutReplaced, e \in End
<1>12. \A m \in N[e] : /\ m.conv = c /\ m.t # "FAILURE"
                       /\ p.t = "EOF" => m.t # "DATA"
                       /\ p.t # "CLOSE"
  BY <1>1, <1>9 DEF After, Mail, MailOf
<1>. HIDE DEF M, N, O, ps, K
<1>13. ConvInv(K, O, Begun(c), c)
  <2>1. AmendsMail(M, O, e, channels[e][i], K[e][i])
    <3>1. AmendsMail(M, O, e, ch, new)
      BY <1>1, <1>2, <1>5, <1>9, <1>12 DEF AmendsMail, Some
    <3>. QED  BY <3>1, <1>11
  <2>2. Amends(channels[e][i], K[e][i])
    <3>1. Amends(ch, new)
      BY <1>2, <1>5, <1>6 DEF Amends
    <3>. QED  BY <3>1, <1>11
  <2>. HIDE DEF i, c
  <2>. QED  BY <2>1, <2>2, <1>3, <1>11, AmendingKeeps
<1>. QED
  <2>1. /\ new.conv = c /\ ~new.await_open /\ ~new.initconn
    BY <1>2, <1>5
  <2>2. /\ sent' \in [End -> [Conv -> Nat]] /\ rcvd' \in [End -> [Conv -> Nat]]
        /\ asked' \in [End -> Nat]
    BY <1>4 DEF IInv, TypeOK
  <2>3. /\ ConvInv(Put(channels, e, i, new), O, Begun(c), c)
        /\ Mail(c)'[e] = O[e]
        /\ Mail(c)'[Peer(e)] = O[Peer(e)] \cup Msgs(CheckPackets(new))
    BY <1>9, <1>10, <1>13 DEF K, N, ps
  <2>4. /\ i \in Slots(channels, e, c) /\ c \in Conv /\ new \in Channel
        /\ channels' = Put(channels, e, i, AfterCheck(new))
        /\ UNCHANGED <<chansize, exited, begun>> /\ Under(e, c, ps)
    BY <1>3, <1>4, <1>5, <1>8
  <2>. HIDE DEF i, c
  <2>. QED  BY <2>1, <2>2, <2>3, <2>4, CheckStep

\* A turn of channelio() on a channel: packets ps may be sent, a descriptor
\* closed or the buffer written, and check_close() is called.
LEMMA TurnKeeps ==
    ASSUME IInv, NEW e \in End, NEW i \in Occupied(e),
           ~channels[e][i].await_open, ~channels[e][i].initconn,
           NEW new, Refitted(channels[e][i], new),
           NEW ps \in Seq(PacketSet), Ordered(ps),
           \A q \in Msgs(ps) : /\ q.conv = channels[e][i].conv
                               /\ q.chan = channels[e][i].remotechan
                               /\ q.t = "DATA" /\ ~channels[e][i].sent_eof,
           channels' = Put(channels, e, i, AfterCheck(new)),
           Send(e, ps \o CheckPackets(new)),
           UNCHANGED <<chansize, exited, begun, rcvd, asked>>,
           sent' \in [End -> [Conv -> Nat]]
    PROVE  IInv'
<1>. PICK ch : ch = channels[e][i]
  OBVIOUS
<1>. DEFINE c == ch.conv
            f == Peer(e)
            M == Mail(c)
            N == Mail(c)'
            O == [M EXCEPT ![f] = M[f] \cup Msgs(ps)]
            qs == CheckPackets(new)
<1>f. f \in End /\ f # e
  BY PeerFacts
<1>1. /\ i \in Index /\ ch \in Channel /\ c \in Conv /\ FlagsOK(ch)
      /\ i \in Slots(channels, e, c)
      /\ ConvInv(channels, M, Begun(c), c)
  BY SlotFacts
<1>2. /\ new \in Channel /\ FlagsOK(new)
      /\ new.conv = ch.conv /\ new.remotechan = ch.remotechan
      /\ new.await_open = ch.await_open /\ new.initconn = ch.initconn
      /\ new.sent_eof = ch.sent_eof /\ new.recv_eof = ch.recv_eof
      /\ new.sent_close = ch.sent_close /\ new.recv_close = ch.recv_close
  BY DEF Refitted
<1>3. /\ qs \in Seq(PacketSet) /\ Ordered(qs)
      /\ \A q \in Msgs(qs) :
            q.conv = c /\ q.t \in {"EOF", "CLOSE"} /\ ~ch.sent_close
  BY <1>2, CheckPacketsFacts
<1>4. \A m \in M[f] : /\ m.t \notin {"OPEN", "OPEN_FAILURE"}
                      /\ m.t = "EOF" => ch.sent_eof
                      /\ m.t = "CLOSE" => ch.sent_close
  BY <1>1, Follows
<1>5. /\ ps \o qs \in Seq(PacketSet) /\ Ordered(ps \o qs)
      /\ Msgs(ps \o qs) = Msgs(ps) \cup Msgs(qs)
  <2>1. \A p \in Msgs(ps), q \in Msgs(qs) : After(p, q)
    BY <1>3 DEF After
  <2>. HIDE DEF qs
  <2>. QED  BY <2>1, <1>3, Appended
<1>6. Fits(e, c, ps \o qs)
  <2>1. \A q \in Msgs(ps) : q.conv = c /\ q.t = "DATA" /\ ~ch.sent_eof
    OBVIOUS
  <2>2. ch.sent_close => ch.sent_eof
    BY <1>1 DEF FlagsOK
  <2>3. \A m \in M[f], q \in Msgs(ps \o qs) : After(m, q)
    BY <2>1, <2>2, <1>3, <1>4, <1>5 DEF After
  <2>. HIDE DEF qs
  <2>. QED  BY <2>1, <2>3, <1>3, <1>5 DEF Fits
<1>7. Under(e, c, ps \o qs) /\ N[e] = M[e]
  BY <1>6, SendFacts DEF IInv
<1>8. O[e] = M[e] /\ O[f] = M[f] \cup Msgs(ps) /\ N[f] = O[f] \cup Msgs(qs)
  <2>1. M \in [End -> {M[x] : x \in End}]
    BY DEF Mail
  <2>2. O[e] = M[e] /\ O[f] = M[f] \cup Msgs(ps)
    BY <2>1, <1>f
  <2>3. \A q \in Msgs(ps \o qs) : q.t # "FAILURE"
    BY <1>3, <1>5
  <2>. QED  BY <2>2, <2>3, <1>5, <1>7 DEF Under
<1>. DEFINE K == Put(channels, e, i, new)
<1>9. Replaced(channels, K, c, e, i) /\ K[e][i] = new
  <2>1. channels \in Tables
    BY DEF IInv, TypeOK, Tables
  <2>. QED  BY <2>1, <1>1, <1>2, PutReplaced
<1>. HIDE DEF M, N, O, qs, K
<1>10. ConvInv(K, O, Begun(c), c)
  <2>1. AmendsMail(M, O, e, channels[e][i], K[e][i])
    <3>1. AmendsMail(M, O, e, ch, new)
      BY <1>2, <1>8 DEF AmendsMail
    <3>. QED  BY <3>1, <1>9
  <2>2. Amends(channels[e][i], K[e][i])
    <3>1. Amends(ch, new)
      BY <1>2 DEF Amends
    <3>. QED  BY <3>1, <1>9
  <2>. HIDE DEF c
  <2>. QED  BY <2>1, <2>2, <1>1, <1>9, AmendingKeeps
<1>. QED
  <2>1. /\ new.conv = c /\ ~new.await_open /\ ~new.initconn
    BY <1>2
  <2>2. /\ sent' \in [End -> [Conv -> Nat]] /\ rcvd' \in [End -> [Conv -> Nat]]
        /\ asked' \in [End -> Nat]
    BY DEF IInv, TypeOK
  <2>3. /\ ConvInv(Put(channels, e, i, new), O, Begun(c), c)
        /\ Mail(c)'[e] = O[e]
        /\ Mail(c)'[Peer(e)] = O[Peer(e)] \cup Msgs(CheckPackets(new))
    BY <1>7, <1>8, <1>10 DEF K, N, qs
  <2>. HIDE DEF c
  <2>. QED  BY <2>1, <2>2, <2>3, <1>1, <1>2, <1>7, CheckStep

\* send_msg_channel_data(), and writechannel()
LEMMA TurnsKeep ==
    ASSUME IInv, NEW e \in End, NEW i \in Index,
           SendData(e, i) \/ ReadEnds(e, i) \/ Write(e, i)
    PROVE  IInv'
<1>. PICK ch : ch = channels[e][i]
  OBVIOUS
<1>. DEFINE D == Packet("DATA", ch.remotechan, ch.conv)
<1>1. i \in Occupied(e)
  BY DEF SendData, ReadEnds, Write, MayRead
<1>2. /\ ch \in Channel /\ ch.conv \in Conv /\ FlagsOK(ch) /\ ~Answered(ch)
      /\ ch.remotechan \in Index
  BY <1>1, SlotFacts
<1>3. /\ <<>> \in Seq(PacketSet) /\ Ordered(<<>>)
      /\ <<>> \o CheckPackets(ch) = CheckPackets(ch)
      /\ \A q \in Msgs(<<>>) : FALSE
  <2>1. CheckPackets(ch) \in Seq(PacketSet)
    BY <1>2, CheckPacketsFacts
  <2>. QED  BY <2>1 DEF Ordered, Msgs
<1>4. ASSUME SendData(e, i) PROVE IInv'
  <2>1. /\ ch.reads /\ ~ch.await_open
        /\ sent' = [sent EXCEPT ![e][ch.conv] = @ + 1]
        /\ Send(e, <<D>> \o CheckPackets(ch))
        /\ channels' = Put(channels, e, i, AfterCheck(ch))
        /\ UNCHANGED <<chansize, exited, begun, rcvd, asked>>
    BY <1>4 DEF SendData, MayRead, Put
  <2>2. ~ch.initconn /\ ~ch.sent_eof
    BY <2>1, <1>2 DEF FlagsOK
  <2>3. Refitted(ch, ch)
    BY <1>2 DEF Refitted
  <2>4. D \in PacketSet /\ D.conv = ch.conv /\ D.chan = ch.remotechan
        /\ D.t = "DATA"
    BY <1>2, PacketsMade
  <2>5. sent' \in [End -> [Conv -> Nat]]
    BY <2>1, <1>2 DEF IInv, TypeOK
  <2>. DEFINE ps == <<D>>
  <2>6. /\ ps \in Seq(PacketSet) /\ Ordered(ps)
        /\ \A q \in Msgs(ps) : /\ q.conv = ch.conv /\ q.chan = ch.remotechan
                               /\ q.t = "DATA" /\ ~ch.sent_eof
    <3>. HIDE DEF D
    <3>. QED  BY <2>2, <2>4, Short
  <2>7. Send(e, ps \o CheckPackets(ch))
    BY <2>1
  <2>. HIDE DEF ps
  <2>. QED  BY <2>1, <2>2, <2>3, <2>5, <2>6, <2>7, <1>1, TurnKeeps
<1>. DEFINE ps == <<>>
<1>5. /\ ps \in Seq(PacketSet) /\ Ordered(ps)
      /\ \A q \in Msgs(ps) : FALSE
  BY <1>3
<1>6. ASSUME NEW new, Refitted(ch, new)
      PROVE  ps \o CheckPackets(new) = CheckPackets(new)
  <2>1. CheckPackets(new) \in Seq(PacketSet)
    BY <1>6, CheckPacketsFacts DEF Refitted
  <2>. QED  BY <2>1
<1>7. sent' = sent => sent' \in [End -> [Conv -> Nat]]
  BY DEF IInv, TypeOK
<1>8. ASSUME ReadEnds(e, i) PROVE IInv'
  <2>. PICK new : new = [ch EXCEPT !.reads = FALSE]
    OBVIOUS
  <2>1. /\ ch.reads /\ ~ch.await_open
        /\ Send(e, CheckPackets(new))
        /\ channels' = Put(channels, e, i, AfterCheck(new))
        /\ UNCHANGED <<chansize, exited, begun, sent, rcvd, asked>>
    BY <1>8 DEF ReadEnds, MayRead, Put
  <2>2. ~ch.initconn
    BY <2>1, <1>2 DEF FlagsOK
  <2>3. Refitted(ch, new)
    <3>1. /\ new \in Channel
          /\ \A g \in {"conv", "remotechan", "await_open", "initconn",
                      "sent_eof", "recv_eof", "sent_close", "recv_close",
                      "writes", "pending"} : new[g] = ch[g]
          /\ ~new.reads
      BY <1>2 DEF Channel
    <3>. QED  BY <3>1, <2>1, <2>2, <1>2 DEF Refitted, FlagsOK
  <2>. HIDE DEF ps
  <2>. QED  BY <2>1, <2>2, <2>3, <1>1, <1>5, <1>6, <1>7, TurnKeeps
<1>9. ASSUME Write(e, i) PROVE IInv'
  <2>1. PICK fails \in BOOLEAN :
          /\ ch.pending
          /\ LET new == [ch EXCEPT !.pending = FALSE, !.writes = ~fails]
             IN  /\ Send(e, CheckPackets(new))
                 /\ channels' = Put(channels, e, i, AfterCheck(new))
          /\ UNCHANGED <<chansize, exited, begun, sent, rcvd, asked>>
    BY <1>9 DEF Write, Put
  <2>. PICK new : new = [ch EXCEPT !.pending = FALSE, !.writes = ~fails]
    OBVIOUS
  <2>2. /\ Send(e, CheckPackets(new))
        /\ channels' = Put(channels, e, i, AfterCheck(new))
    BY <2>1
  <2>3. ~ch.await_open /\ ~ch.initconn /\ ch.writes /\ ~ch.sent_close
    BY <2>1, <1>2 DEF FlagsOK
  <2>4. Refitted(ch, new)
    <3>1. /\ new \in Channel
          /\ \A g \in {"conv", "remotechan", "await_open", "initconn",
                      "sent_eof", "recv_eof", "sent_close", "recv_close",
                      "reads"} : new[g] = ch[g]
          /\ ~new.pending
      BY <1>2 DEF Channel
    <3>. QED  BY <3>1, <2>3, <1>2 DEF Refitted, FlagsOK
  <2>. HIDE DEF ps
  <2>. QED  BY <2>1, <2>2, <2>3, <2>4, <1>1, <1>5, <1>6, <1>7, TurnKeeps
<1>. QED  BY <1>4, <1>8, <1>9

\* A step that leaves the table alone.
LEMMA QuietStep ==
    ASSUME IInv, NEW e \in End, NEW c \in Conv, NEW ps, Under(e, c, ps),
           UNCHANGED <<channels, chansize, exited, begun, sent, rcvd>>,
           asked' \in [End -> Nat],
           ConvInv(channels, Mail(c)', Begun(c), c)
    PROVE  IInv'
<1>1. Begun(c)' = Begun(c) /\ exited' = {}
  BY DEF Begun, IInv
<1>2. TypeOK'
  BY DEF Under, IInv, TypeOK
<1>3. ConvInv(channels', Mail(c)', Begun(c)', c)
  BY <1>1
<1>4. /\ \A x \in End : Ordered(net'[x])
      /\ \A x \in End, d \in Conv :
            d # c => MailOf(net'[x], d) = MailOf(net[x], d)
  BY DEF Under
<1>5. \A x \in End, j \in Index : channels'[x][j] = channels[x][j]
  OBVIOUS
<1>6. \A x \in End, d \in Conv : d # c => (d \in begun'[x] <=> d \in begun[x])
  OBVIOUS
<1>. QED  BY <1>1, <1>2, <1>3, <1>4, <1>5, <1>6, StepKeeps

\* send_msg_keepalive()
LEMMA KeepaliveKeeps ==
    ASSUME IInv, NEW e \in End, Keepalive(e)
    PROVE  IInv'
<1>1. PICK i \in FirstReady(e) :
        LET ch == channels[e][i]
        IN  Send(e, <<Packet("REQUEST", ch.remotechan, ch.conv)>>)
  BY DEF Keepalive
<1>. PICK ch : ch = channels[e][i]
  OBVIOUS
<1>. DEFINE c == ch.conv
            f == Peer(e)
            M == Mail(c)
            q == Packet("REQUEST", ch.remotechan, c)
            ps == <<q>>
<1>f. f \in End /\ f # e
  BY PeerFacts
<1>2. /\ i \in Occupied(e) /\ ~ch.sent_eof /\ ~ch.await_open /\ ~ch.initconn
  BY <1>1 DEF FirstReady, Ready
<1>3. /\ i \in Index /\ ch \in Channel /\ c \in Conv /\ FlagsOK(ch)
      /\ i \in Slots(channels, e, c) /\ ch.remotechan \in Index
      /\ ConvInv(channels, M, Begun(c), c) /\ ~ch.sent_close
  BY <1>2, SlotFacts DEF FlagsOK
<1>4. q \in PacketSet /\ q.conv = c /\ q.chan = ch.remotechan /\ q.t = "REQUEST"
  BY <1>3, PacketsMade
<1>5. Send(e, ps)
  BY <1>1
<1>. HIDE DEF q
<1>6. ps \in Seq(PacketSet) /\ Ordered(ps) /\ Msgs(ps) = {q}
  BY <1>4, Short
<1>. HIDE DEF ps
<1>7. Fits(e, c, ps)
  <2>1. \A m \in M[f] : m.t \notin {"OPEN", "OPEN_FAILURE", "CLOSE"}
    BY <1>2, <1>3, Follows
  <2>. QED  BY <2>1, <1>4, <1>6 DEF Fits, After
<1>8. Under(e, c, ps) /\ Mail(c)'[e] = M[e]
  BY <1>5, <1>7, SendFacts DEF IInv
<1>9. Mail(c)'[f] = M[f] \cup {q}
  BY <1>4, <1>6, <1>8 DEF Under
<1>. DEFINE N == Mail(c)'
<1>10. channels[e][i] = ch
  OBVIOUS
<1>. HIDE DEF M, N
<1>11. ConvInv(channels, N, Begun(c), c)
  <2>1. Replaced(channels, channels, c, e, i)
    BY <1>3 DEF Replaced
  <2>2. Amends(channels[e][i], channels[e][i])
    BY <1>2, <1>3 DEF Amends
  <2>3. AmendsMail(M, N, e, channels[e][i], channels[e][i])
    <3>1. N[e] = M[e] /\ N[f] = M[f] \cup {q}
      BY <1>8, <1>9 DEF N
    <3>2. AmendsMail(M, N, e, ch, ch)
      BY <3>1, <1>2, <1>4 DEF AmendsMail
    <3>. QED  BY <3>2
  <2>. HIDE DEF c
  <2>. QED  BY <2>1, <2>2, <2>3, <1>3, AmendingKeeps
<1>12. /\ UNCHANGED <<channels, chansize, exited, begun, sent, rcvd>>
       /\ asked' \in [End -> Nat]
  BY DEF Keepalive, IInv, TypeOK
<1>13. ConvInv(channels, Mail(c)', Begun(c), c)
  BY <1>11 DEF N
<1>. HIDE DEF c
<1>. QED  BY <1>3, <1>8, <1>12, <1>13, QuietStep

\* ignore_recv_response()
LEMMA ReplyKeeps ==
    ASSUME IInv, NEW e \in End, RecvReply(e)
    PROVE  IInv'
<1>. PICK p : p = Head(net[e])
  OBVIOUS
<1>. DEFINE c == p.conv
            f == Peer(e)
            ps == <<>>
<1>f. f \in End /\ \A x \in End : x = e \/ x = f
  BY PeerFacts
<1>1. /\ net[e] # <<>> /\ p.t = "FAILURE" /\ Reply(e, ps)
      /\ UNCHANGED <<channels, chansize, exited, begun, sent, rcvd, asked>>
  BY DEF RecvReply, Arrives
<1>2. c \in Conv
  BY <1>1, HeadFacts
<1>3. /\ ps \in Seq(PacketSet) /\ Ordered(ps) /\ Msgs(ps) = {}
  BY DEF Ordered, Msgs
<1>. HIDE DEF ps
<1>4. Fits(e, c, ps)
  BY <1>3 DEF Fits
<1>5. Under(e, c, ps) /\ Taken(e, c, p)
  BY <1>1, <1>4, ReplyFacts DEF IInv
<1>6. \A x \in End : Mail(c)'[x] = Mail(c)[x]
  BY <1>1, <1>3, <1>5, <1>f DEF Under, Taken
<1>7. ConvInv(channels, Mail(c)', Begun(c), c)
  <2>1. ConvInv(channels, Mail(c), Begun(c), c)
    BY <1>2 DEF IInv
  <2>. HIDE DEF c
  <2>. QED  BY <2>1, <1>6, Frame
<1>8. asked' \in [End -> Nat]
  BY <1>1 DEF IInv, TypeOK
<1>. HIDE DEF c
<1>. QED  BY <1>1, <1>2, <1>5, <1>7, <1>8, QuietStep

\* recv_msg_channel_open_confirmation()
LEMMA ConfirmationKeeps ==
    ASSUME IInv, NEW e \in End, RecvConfirmation(e)
    PROVE  IInv'
<1>. PICK p : p = Head(net[e])
  OBVIOUS
<1>. PICK ch : ch = channels[e][p.chan]
  OBVIOUS
<1>. PICK new : new = Established(ch, p)
  OBVIOUS
<1>. DEFINE i == p.chan
            c == p.conv
            f == Peer(e)
            M == Mail(c)
            N == Mail(c)'
            ps == <<>>
<1>f. f \in End /\ f # e
  BY PeerFacts
<1>1. net[e] # <<>> /\ p.t = "CONFIRMATION"
  BY DEF RecvConfirmation, Arrives
<1>2. /\ p \in M[e] /\ MailOK(channels, M, Begun(c), c, e, p)
      /\ p \in PacketSet /\ c \in Conv /\ p.from \in Index
      /\ i \in Index /\ i \in Slots(channels, e, c)
      /\ Found(e) /\ Reached(e) = i
  BY <1>1, HeadFacts, PacketFacts
<1>3. /\ i \in Occupied(e) /\ ch.conv = c /\ ch.await_open /\ ~ch.recv_close
  BY <1>1, <1>2 DEF MailOK, Slots, Occupied
<1>4. /\ ch \in Channel /\ i < chansize[e]
      /\ ConvInv(channels, M, Begun(c), c)
  BY <1>3, SlotFacts
<1>5. /\ channels' = Put(channels, e, i, new) /\ Reply(e, ps)
      /\ UNCHANGED <<chansize, exited, begun, sent, rcvd, asked>>
  BY <1>2, <1>3 DEF RecvConfirmation, Handle, Put
<1>6. /\ new \in Channel /\ ~new.await_open /\ new.remotechan = p.from
      /\ \A g \in {"conv", "initconn", "sent_eof", "recv_eof", "sent_close",
                  "recv_close", "reads", "writes", "pending"} :
            new[g] = ch[g]
  BY <1>2, <1>4 DEF Established, Channel
<1>7. /\ ps \in Seq(PacketSet) /\ Ordered(ps) /\ Msgs(ps) = {}
  BY DEF Ordered, Msgs
<1>. HIDE DEF ps
<1>8. Under(e, c, ps) /\ Taken(e, c, p)
  <2>1. Fits(e, c, ps)
    BY <1>7 DEF Fits
  <2>. QED  BY <2>1, <1>1, <1>5, ReplyFacts DEF IInv
<1>9. /\ N[e] \subseteq M[e] /\ M[e] \subseteq N[e] \cup {p} /\ N[f] = M[f]
      /\ \A m \in N[e] : m.t \notin {"OPEN", "CONFIRMATION", "OPEN_FAILURE"}
  <2>1. N[e] \subseteq M[e] /\ M[e] \subseteq N[e] \cup {p} /\ N[f] = M[f]
    BY <1>7, <1>8 DEF Under, Taken
  <2>2. \A m \in N[e] : After(p, m) /\ m.conv = c /\ m.t # "FAILURE"
    BY <1>8 DEF Taken, Mail, MailOf
  <2>. QED  BY <2>1, <2>2, <1>1 DEF After
<1>10. Replaced(channels, channels', c, e, i) /\ channels'[e][i] = new
  <2>1. channels \in Tables /\ new.conv = c
    BY <1>3, <1>6 DEF IInv, TypeOK, Tables
  <2>2. i \in Slots(channels, e, c) /\ new \in Channel
    BY <1>2, <1>6
  <2>3. channels' = Put(channels, e, i, new)
    BY <1>5
  <2>. HIDE DEF i, c
  <2>4. PICK L : L = channels'
    OBVIOUS
  <2>5. Replaced(channels, L, c, e, i) /\ L[e][i] = new
    BY ONLY <2>1, <2>2, <2>3, <2>4, PutReplaced, e \in End
  <2>. QED  BY ONLY <2>4, <2>5
<1>. HIDE DEF M, N
<1>11. ConvInv(channels', N, Begun(c), c)
  <2>1. p.chan = i /\ ConfirmsMail(M, N, e, p)
    BY <1>1, <1>2, <1>9 DEF ConfirmsMail
  <2>2. Confirms(channels[e][i], channels'[e][i], p)
    BY <1>6, <1>10 DEF Confirms
  <2>. HIDE DEF i, c
  <2>. QED  BY <2>1, <2>2, <1>4, <1>10, ConfirmingKeeps
<1>. QED
  <2>1. Begun(c)' = Begun(c) /\ Typed'
    BY <1>5, <1>8 DEF Under, Begun, Typed, IInv, TypeOK
  <2>2. ConvInv(channels', Mail(c)', Begun(c)', c)
    BY <2>1, <1>11 DEF N
  <2>3. /\ exited' = {} /\ \A x \in End : chansize[x] <= chansize'[x]
        /\ i < chansize'[e]
    BY <1>4, <1>5, ChannelTableAssumption DEF IInv, TypeOK
  <2>4. /\ \A x \in End, d \in Conv : d # c => (d \in begun'[x] <=> d \in begun[x])
        /\ ~Answered(new) /\ new.conv = c /\ channels[e][i].conv = c
    BY <1>3, <1>5, <1>6 DEF Answered
  <2>. HIDE DEF c
  <2>. QED  BY <2>1, <2>2, <2>3, <2>4, <1>2, <1>5, <1>6, <1>8, SlotStep DEF Under

\* recv_msg_channel_open_failure()
LEMMA FailureKeeps ==
    ASSUME IInv, NEW e \in End, RecvFailure(e)
    PROVE  IInv'
<1>. PICK p : p = Head(net[e])
  OBVIOUS
<1>. PICK ch : ch = channels[e][p.chan]
  OBVIOUS
<1>. DEFINE i == p.chan
            c == p.conv
            f == Peer(e)
            M == Mail(c)
            N == Mail(c)'
            ps == <<>>
<1>f. f \in End /\ f # e
  BY PeerFacts
<1>1. net[e] # <<>> /\ p.t = "OPEN_FAILURE"
  BY DEF RecvFailure, Arrives
<1>2. /\ p \in M[e] /\ MailOK(channels, M, Begun(c), c, e, p)
      /\ c \in Conv /\ i \in Index /\ i \in Slots(channels, e, c)
      /\ Found(e) /\ Reached(e) = i
  BY <1>1, HeadFacts
<1>3. /\ i \in Occupied(e) /\ ch.conv = c /\ ch.await_open
  BY <1>1, <1>2 DEF MailOK, Slots, Occupied
<1>4. ConvInv(channels, M, Begun(c), c)
  BY <1>2 DEF IInv
<1>5. /\ channels' = Put(channels, e, i, NoChan) /\ Reply(e, ps)
      /\ UNCHANGED <<chansize, exited, begun, sent, rcvd, asked>>
  BY <1>2, <1>3 DEF RecvFailure, Handle, Put
<1>6. /\ ps \in Seq(PacketSet) /\ Ordered(ps) /\ Msgs(ps) = {}
  BY DEF Ordered, Msgs
<1>. HIDE DEF ps
<1>7. Under(e, c, ps) /\ Taken(e, c, p)
  <2>1. Fits(e, c, ps)
    BY <1>6 DEF Fits
  <2>. QED  BY <2>1, <1>1, <1>5, ReplyFacts DEF IInv
<1>8. N[e] = {} /\ N[f] = M[f]
  <2>1. N[f] = M[f]
    BY <1>6, <1>7 DEF Under
  <2>2. \A m \in N[e] : After(p, m) /\ m.conv = c /\ m.t # "FAILURE"
    BY <1>7 DEF Taken, Mail, MailOf
  <2>. QED  BY <2>1, <2>2, <1>1 DEF After
<1>9. Slots(channels', e, c) = {} /\ Slots(channels', f, c) = Slots(channels, f, c)
  <2>1. channels \in Tables
    BY DEF IInv, TypeOK, Tables
  <2>2. \A j \in Slots(channels, e, c) : j = i
    BY <1>2, <1>4 DEF ConvInv, EndInv
  <2>. QED  BY <2>1, <2>2, <1>2, <1>5, PutRemoved
<1>. HIDE DEF M, N
<1>10. ConvInv(channels', N, Begun(c), c)
  <2>. HIDE DEF c
  <2>. QED  BY <1>1, <1>2, <1>4, <1>8, <1>9, FailingKeeps
<1>. QED
  <2>1. Begun(c)' = Begun(c) /\ Typed'
    BY <1>5, <1>7 DEF Under, Begun, Typed, IInv, TypeOK
  <2>2. ConvInv(channels', Mail(c)', Begun(c)', c)
    BY <2>1, <1>10 DEF N
  <2>3. exited' = {} /\ \A x \in End : chansize[x] <= chansize'[x]
    BY <1>5, ChannelTableAssumption DEF IInv, TypeOK
  <2>4. /\ \A x \in End, d \in Conv : d # c => (d \in begun'[x] <=> d \in begun[x])
        /\ channels[e][i].conv = c
    BY <1>3, <1>5
  <2>5. /\ \A x \in End : Ordered(net'[x])
        /\ \A x \in End, d \in Conv :
              d # c => MailOf(net'[x], d) = MailOf(net[x], d)
    BY <1>7 DEF Under
  <2>. HIDE DEF c
  <2>. QED  BY <2>1, <2>2, <2>3, <2>4, <2>5, <1>2, <1>5, SlotStep

\* check_in_progress()
LEMMA ConnectKeeps ==
    ASSUME IInv, NEW e \in End, NEW i \in Index, CheckInProgress(e, i)
    PROVE  IInv'
<1>. PICK ch : ch = channels[e][i]
  OBVIOUS
<1>. DEFINE c == ch.conv
            r == ch.remotechan
            f == Peer(e)
            M == Mail(c)
            N == Mail(c)'
<1>f. f \in End /\ f # e
  BY PeerFacts
<1>1. /\ i \in Occupied(e) /\ ch.initconn
      /\ UNCHANGED <<chansize, exited, begun, sent, rcvd, asked>>
  BY DEF CheckInProgress
<1>2. /\ ch \in Channel /\ c \in Conv /\ r \in Index /\ FlagsOK(ch)
      /\ i \in Slots(channels, e, c) /\ i < chansize[e]
      /\ ConvInv(channels, M, Begun(c), c)
  BY <1>1, SlotFacts
<1>3. M[e] = {} /\ M[f] = {} /\ \A j \in Slots(channels, e, c) : j = i
  <2>1. /\ channels[e][i].initconn /\ i \in Slots(channels, e, c)
        /\ ConvInv(channels, M, Begun(c), c)
    BY <1>1, <1>2
  <2>. HIDE DEF M, c
  <2>2. \A j \in Slots(channels, e, c) : j = i
    BY <2>1 DEF ConvInv, EndInv
  <2>3. PICK K : K = channels
    OBVIOUS
  <2>4. PICK B : B = Begun(c)
    OBVIOUS
  <2>5. K[e][i].initconn /\ i \in Slots(K, e, c) /\ ConvInv(K, M, B, c)
    BY <2>1, <2>3, <2>4
  <2>6. M[e] = {} /\ M[Peer(e)] = {}
    BY <2>5, Unanswered
  <2>. QED  BY <2>2, <2>6
<1>t. channels \in Tables
  BY DEF IInv, TypeOK, Tables
<1>4. Begun(c)' = Begun(c) /\ exited' = {} /\ channels[e][i].conv = c
  BY <1>1 DEF Begun, IInv
<1>5. /\ \A x \in End : chansize[x] <= chansize'[x]
      /\ i < chansize'[e]
  BY <1>1, <1>2, ChannelTableAssumption DEF IInv, TypeOK
<1>6. \A x \in End, d \in Conv : d # c => (d \in begun'[x] <=> d \in begun[x])
  BY <1>1
<1>7. ASSUME NEW q \in PacketSet, q.conv = c, q.t # "FAILURE", Send(e, <<q>>)
      PROVE  /\ Typed' /\ N[e] = M[e] /\ N[f] = M[f] \cup {q}
             /\ \A x \in End : Ordered(net'[x])
             /\ \A x \in End, d \in Conv :
                   d # c => MailOf(net'[x], d) = MailOf(net[x], d)
  <2>. DEFINE ps == <<q>>
  <2>1. ps \in Seq(PacketSet) /\ Ordered(ps) /\ Msgs(ps) = {q} /\ Send(e, ps)
    BY <1>7, Short
  <2>. HIDE DEF ps
  <2>2. Fits(e, c, ps)
    BY <2>1, <1>3, <1>7 DEF Fits
  <2>3. Under(e, c, ps) /\ N[e] = M[e]
    BY <2>1, <2>2, SendFacts DEF IInv
  <2>. QED  BY <2>1, <2>3, <1>1, <1>7 DEF Under, Typed, IInv, TypeOK
<1>8. ASSUME channels' = [channels EXCEPT ![e][i] = Connected(ch)],
             Send(e, <<Opening("CONFIRMATION", r, i, c)>>)
      PROVE  IInv'
  <2>. PICK q : q = Opening("CONFIRMATION", r, i, c)
    OBVIOUS
  <2>. PICK new : new = Connected(ch)
    OBVIOUS
  <2>1. /\ q \in PacketSet /\ q.conv = c /\ q.t = "CONFIRMATION"
        /\ q.chan = r /\ q.from = i
    BY <1>2, PacketsMade
  <2>2. /\ Typed' /\ N[e] = M[e] /\ N[f] = M[f] \cup {q}
        /\ \A x \in End : Ordered(net'[x])
        /\ \A x \in End, d \in Conv :
              d # c => MailOf(net'[x], d) = MailOf(net[x], d)
    BY <2>1, <1>7, <1>8
  <2>3. /\ new \in Channel /\ ~new.initconn /\ new.reads /\ new.writes
        /\ \A g \in {"conv", "remotechan", "await_open", "sent_eof",
                    "recv_eof", "sent_close", "recv_close", "pending"} :
              new[g] = ch[g]
    BY <1>2 DEF Connected, Channel
  <2>4. channels' = Put(channels, e, i, new)
    BY <1>8 DEF Put
  <2>5. Replaced(channels, channels', c, e, i) /\ channels'[e][i] = new
    BY <2>3, <2>4, <1>2, <1>t, PutReplaced
  <2>6. new.conv = c /\ ~Answered(new)
    BY <2>3, <1>1, <1>2 DEF FlagsOK, Answered
  <2>. HIDE DEF M, N
  <2>7. ConvInv(channels', N, Begun(c), c)
    <3>. HIDE DEF c
    <3>1. PICK L : L = channels'
      OBVIOUS
    <3>2. Replaced(channels, L, c, e, i) /\ new = L[e][i]
      BY ONLY <2>5, <3>1
    <3>3. /\ ch = channels[e][i] /\ ch.initconn /\ q.chan = ch.remotechan
          /\ N[e] = M[e] /\ N[Peer(e)] = M[Peer(e)] \cup {q}
          /\ ConvInv(channels, M, Begun(c), c)
      BY <2>1, <2>2, <1>1, <1>2
    <3>4. ConvInv(L, N, Begun(c), c)
      BY ONLY <2>1, <2>3, <3>2, <3>3, ConnectingKeeps, e \in End
    <3>. QED  BY ONLY <3>1, <3>4
  <2>8. ConvInv(channels', Mail(c)', Begun(c)', c)
    BY <2>7, <1>4 DEF N
  <2>. HIDE DEF c
  <2>. QED  BY <2>2, <2>3, <2>4, <2>6, <2>8, <1>2, <1>4, <1>5, <1>6, SlotStep
<1>9. ASSUME channels' = [channels EXCEPT ![e][i] = NoChan],
             Send(e, <<Packet("OPEN_FAILURE", r, c)>>)
      PROVE  IInv'
  <2>. PICK q : q = Packet("OPEN_FAILURE", r, c)
    OBVIOUS
  <2>1. /\ q \in PacketSet /\ q.conv = c /\ q.t = "OPEN_FAILURE" /\ q.chan = r
    BY <1>2, PacketsMade
  <2>2. /\ Typed' /\ N[e] = M[e] /\ N[f] = M[f] \cup {q}
        /\ \A x \in End : Ordered(net'[x])
        /\ \A x \in End, d \in Conv :
              d # c => MailOf(net'[x], d) = MailOf(net[x], d)
    BY <2>1, <1>7, <1>9
  <2>3. channels' = Put(channels, e, i, NoChan)
    BY <1>9 DEF Put
  <2>4. /\ Slots(channels', e, c) = {}
        /\ Slots(channels', f, c) = Slots(channels, f, c)
        /\ channels'[f] = channels[f]
    BY <2>3, <1>2, <1>3, <1>t, PutRemoved
  <2>. HIDE DEF M, N
  <2>5. channels[e][i].initconn /\ q.chan = channels[e][i].remotechan
    BY <2>1, <1>1
  <2>6. ConvInv(channels', N, Begun(c), c)
    <3>. HIDE DEF c
    <3>. QED  BY <2>1, <2>2, <2>4, <2>5, <1>2, NotConnectingKeeps
  <2>7. ConvInv(channels', Mail(c)', Begun(c)', c)
    BY <2>6, <1>4 DEF N
  <2>. HIDE DEF c
  <2>. QED  BY <2>2, <2>3, <2>7, <1>2, <1>4, <1>5, <1>6, SlotStep
<1>. QED  BY <1>8, <1>9 DEF CheckInProgress

\* A conversation has begun at e.
LEMMA BegunFacts ==
    ASSUME IInv, NEW e \in End, NEW c \in Conv,
           begun' = [begun EXCEPT ![e] = @ \cup {c}]
    PROVE  /\ Begun(c)' = Begun(c) \cup {e}
           /\ begun' \in [End -> SUBSET Conv]
           /\ \A x \in End, d \in Conv :
                 d # c => (d \in begun'[x] <=> d \in begun[x])
<1>1. begun \in [End -> SUBSET Conv]
  BY DEF IInv, TypeOK
<1>. QED  BY <1>1 DEF Begun

\* newchannel() puts new in slot i of e.
LEMMA NewStep ==
    ASSUME IInv, NEW e \in End, NEW c \in Conv, NEW i \in NewIndex(e),
           NEW new \in Channel, new.conv = c, Fresh(new),
           channels' = Put(channels, e, i, new), chansize' = Grown(e, i),
           begun' = [begun EXCEPT ![e] = @ \cup {c}],
           UNCHANGED <<exited, sent, rcvd, asked>>,
           NEW ps, Under(e, c, ps),
           ConvInv(channels', Mail(c)', Begun(c) \cup {e}, c)
    PROVE  IInv'
<1>1. /\ i \in Index /\ channels[e][i] = NoChan /\ i < chansize'[e]
      /\ chansize' \in [End -> 1..MAX_CHANNELS + CHAN_EXTEND_SIZE - 1]
      /\ \A x \in End : chansize[x] <= chansize'[x]
  BY NewIndexFacts DEF IInv
<1>2. /\ Begun(c)' = Begun(c) \cup {e} /\ begun' \in [End -> SUBSET Conv]
      /\ \A x \in End, d \in Conv :
            d # c => (d \in begun'[x] <=> d \in begun[x])
  BY BegunFacts
<1>3. Typed' /\ exited' = {}
  BY <1>1, <1>2 DEF Typed, Under, IInv, TypeOK
<1>4. ~Answered(new)
  BY DEF Fresh, Answered
<1>5. ConvInv(channels', Mail(c)', Begun(c)', c)
  BY <1>2
<1>6. /\ \A x \in End : Ordered(net'[x])
      /\ \A x \in End, d \in Conv :
            d # c => MailOf(net'[x], d) = MailOf(net[x], d)
  BY DEF Under
<1>. QED  BY <1>1, <1>2, <1>3, <1>4, <1>5, <1>6, SlotStep

LEMMA NewFacts ==
    ASSUME NEW c \in Conv, NEW r \in Index
    PROVE  /\ NewChannel(c, r) \in Channel /\ NewChannel(c, r).conv = c
           /\ NewChannel(c, r).remotechan = r /\ Fresh(NewChannel(c, r))
           /\ ~NewChannel(c, r).await_open /\ ~NewChannel(c, r).initconn
           /\ ~NewChannel(c, r).reads /\ ~NewChannel(c, r).writes
BY DEF NewChannel, Channel, Fresh

\* tcp_acceptor()
LEMMA OpenKeeps ==
    ASSUME IInv, NEW e \in End, NEW c \in Conv, Open(e, c)
    PROVE  IInv'
<1>. DEFINE f == Peer(e)
            M == Mail(c)
            N == Mail(c)'
            B == Begun(c)
<1>f. f \in End /\ f # e /\ \A x \in End : x = e \/ x = f
  BY PeerFacts
<1>1. /\ AcceptedBy[c] = e /\ e \notin B
      /\ begun' = [begun EXCEPT ![e] = @ \cup {c}]
      /\ UNCHANGED <<exited, sent, rcvd, asked>>
  BY DEF Open, Begun
<1>2. ConvInv(channels, M, B, c)
  BY DEF IInv
<1>3. /\ \A x \in End : Slots(channels, x, c) = {} /\ M[x] = {}
  BY <1>1, <1>2, Unheard
<1>4. ASSUME UNCHANGED <<channels, chansize, net>>
      PROVE  IInv'
  <2>1. /\ Begun(c)' = B \cup {e} /\ begun' \in [End -> SUBSET Conv]
        /\ \A x \in End, d \in Conv :
              d # c => (d \in begun'[x] <=> d \in begun[x])
    BY <1>1, BegunFacts
  <2>2. TypeOK' /\ exited' = {}
    BY <1>1, <1>4, <2>1 DEF IInv, TypeOK
  <2>3. ConvInv(channels, M, B \cup {e}, c)
    BY <1>1, <1>2, GivingUpKeeps
  <2>4. ConvInv(channels', Mail(c)', Begun(c)', c)
    <3>1. Mail(c)' = Mail(c)
      BY <1>4 DEF Mail
    <3>. QED  BY <2>1, <2>3, <3>1, <1>4
  <2>5. /\ \A x \in End : Ordered(net'[x])
        /\ \A x \in End, d \in Conv :
              d # c => MailOf(net'[x], d) = MailOf(net[x], d)
        /\ \A x \in End, j \in Index : channels'[x][j] = channels[x][j]
    BY <1>4 DEF IInv
  <2>. QED  BY <2>1, <2>2, <2>4, <2>5, StepKeeps
<1>5. ASSUME NEW i \in NewIndex(e),
             channels' = [channels EXCEPT ![e][i] =
               [Connected(NewChannel(c, 0)) EXCEPT !.await_open = TRUE]],
             chansize' = Grown(e, i), Send(e, <<OpenPacket(i, c)>>)
      PROVE  IInv'
  <2>. PICK p : p = OpenPacket(i, c)
    OBVIOUS
  <2>n. PICK new : new = [Connected(NewChannel(c, 0)) EXCEPT !.await_open = TRUE]
    OBVIOUS
  <2>. DEFINE ps == <<p>>
  <2>1. i \in Index /\ channels[e][i] = NoChan
    BY NewIndexFacts DEF IInv
  <2>2. p \in PacketSet /\ p.t = "OPEN" /\ p.from = i /\ p.conv = c
    BY <2>1, PacketsMade
  <2>3. ps \in Seq(PacketSet) /\ Ordered(ps) /\ Msgs(ps) = {p} /\ Send(e, ps)
    BY <1>5, <2>2, Short
  <2>. HIDE DEF ps
  <2>4. Fits(e, c, ps)
    BY <2>2, <2>3, <1>3, <1>f DEF Fits
  <2>5. Under(e, c, ps) /\ N[e] = M[e]
    BY <2>3, <2>4, SendFacts DEF IInv
  <2>6. N[f] = M[f] \cup {p}
    BY <2>2, <2>3, <2>5 DEF Under
  <2>7. /\ new \in Channel /\ new.conv = c /\ Fresh(new)
        /\ new.await_open /\ ~new.initconn /\ new.reads /\ new.writes
    <3>1. 0 \in Index
      <4>1. MAX_CHANNELS \in Nat \ {0} /\ CHAN_EXTEND_SIZE \in Nat \ {0}
        BY ChannelTableAssumption
      <4>. QED  BY <4>1 DEF Index
    <3>2. PICK z \in Index : z = 0
      BY <3>1
    <3>3. PICK n : n = NewChannel(c, z)
      OBVIOUS
    <3>4. n \in Channel /\ n.conv = c /\ Fresh(n)
      BY <3>3, NewFacts
    <3>5. new = [Connected(n) EXCEPT !.await_open = TRUE]
      BY <3>2, <3>3, <2>n
    <3>. QED  BY <3>4, <3>5 DEF Connected, Channel, Fresh
  <2>8. channels' = Put(channels, e, i, new)
    BY <1>5, <2>n DEF Put
  <2>9. Added(channels, channels', c, e, i) /\ channels'[e][i] = new
    <3>1. channels \in Tables /\ Slots(channels, e, c) = {}
          /\ new \in Channel /\ new.conv = c
      BY <2>7, <1>3 DEF IInv, TypeOK, Tables
    <3>2. PICK K : K = channels
      OBVIOUS
    <3>3. /\ K \in Tables /\ Slots(K, e, c) = {} /\ K[e][i] = NoChan
          /\ channels' = Put(K, e, i, new)
      BY <3>1, <3>2, <2>1, <2>8
    <3>4. Added(K, Put(K, e, i, new), c, e, i) /\ Put(K, e, i, new)[e][i] = new
      BY <3>1, <3>3, <2>1, PutAdded
    <3>. QED  BY <3>2, <3>3, <3>4
  <2>. HIDE DEF M, N, B
  <2>10. ConvInv(channels', N, B \cup {e}, c)
    <3>1. Awaiting(channels'[e][i])
      BY <2>7, <2>9 DEF Awaiting
    <3>2. N[Peer(e)] = M[Peer(e)] \cup {p}
      BY <2>6
    <3>. QED  BY <3>1, <3>2, <2>2, <2>5, <2>9, <1>1, <1>2, OpeningKeeps
  <2>11. ConvInv(channels', Mail(c)', Begun(c) \cup {e}, c)
    BY <2>10 DEF N, B
  <2>. QED  BY <2>5, <2>7, <2>8, <2>11, <1>1, <1>5, NewStep
<1>. QED  BY <1>4, <1>5 DEF Open

\* recv_msg_channel_open()
LEMMA OpenPacketKeeps ==
    ASSUME IInv, NEW e \in End, RecvOpen(e)
    PROVE  IInv'
<1>p. PICK p : p = Head(net[e])
  OBVIOUS
<1>c. PICK c : c = p.conv
  OBVIOUS
<1>. DEFINE f == Peer(e)
            M == Mail(c)
            N == Mail(c)'
            B == Begun(c)
<1>f. f \in End /\ f # e /\ \A x \in End : x = e \/ x = f
  BY PeerFacts
<1>1. /\ net[e] # <<>> /\ p.t = "OPEN"
      /\ begun' = [begun EXCEPT ![e] = @ \cup {c}]
      /\ UNCHANGED <<exited, sent, rcvd, asked>>
  BY <1>p, <1>c DEF RecvOpen, Arrives
<1>2. p \in PacketSet /\ c \in Conv /\ p.from \in Index /\ p \in M[e]
  BY <1>1, <1>p, <1>c, HeadFacts, PacketFacts
<1>3. ConvInv(channels, M, B, c)
  BY <1>2 DEF IInv
<1>4. /\ e \notin B /\ Slots(channels, e, c) = {} /\ M[f] = {}
  <2>1. PICK K : K = channels
    OBVIOUS
  <2>2. p \in M[e] /\ p.t = "OPEN" /\ ConvInv(K, M, B, c)
    BY <2>1, <1>1, <1>2, <1>3
  <2>. HIDE DEF M, B
  <2>3. WasAsked(K, M, B, c, e, p)
    BY ONLY <2>2, AskedFor, e \in End
  <2>. QED  BY <2>1, <2>3 DEF WasAsked
<1>5. ASSUME NEW ps \in Seq(PacketSet), Ordered(ps), Reply(e, ps),
             \A q \in Msgs(ps) : q.conv = c /\ q.t # "FAILURE"
      PROVE  /\ Under(e, c, ps) /\ N[e] = {} /\ N[f] = M[f] \cup Msgs(ps)
  <2>1. Fits(e, c, ps)
    BY <1>4, <1>5 DEF Fits
  <2>2. Under(e, c, ps) /\ Taken(e, c, p)
    BY <2>1, <1>1, <1>p, <1>c, <1>5, ReplyFacts DEF IInv
  <2>3. \A m \in N[e] : After(p, m) /\ m.conv = c /\ m.t # "FAILURE"
    BY <2>2 DEF Taken, Mail, MailOf
  <2>4. N[e] = {}
    BY <2>3, <1>1, <1>c DEF After
  <2>5. {q \in Msgs(ps) : q.t # "FAILURE"} = Msgs(ps)
    BY <1>5
  <2>. QED  BY <2>2, <2>4, <2>5 DEF Under
<1>6. ASSUME Reply(e, Refusal(p)), channels' = channels,
             \/ chansize' = chansize
             \/ \E i \in NewIndex(e) : chansize' = Grown(e, i)
      PROVE  IInv'
  <2>1. PICK q : q = Packet("OPEN_FAILURE", p.from, p.conv)
    OBVIOUS
  <2>. DEFINE ps == <<q>>
  <2>2. /\ q \in PacketSet /\ q.t = "OPEN_FAILURE" /\ q.chan = p.from
        /\ q.conv = c
    BY <2>1, <1>2, <1>c, PacketsMade
  <2>3. ps \in Seq(PacketSet) /\ Ordered(ps) /\ Msgs(ps) = {q} /\ Reply(e, ps)
    BY <2>1, <2>2, <1>6, Short DEF Refusal
  <2>. HIDE DEF ps
  <2>4. Under(e, c, ps) /\ N[e] = {} /\ N[f] = M[f] \cup {q}
    BY <2>2, <2>3, <1>5
  <2>5. /\ Begun(c)' = B \cup {e} /\ begun' \in [End -> SUBSET Conv]
        /\ \A x \in End, d \in Conv :
              d # c => (d \in begun'[x] <=> d \in begun[x])
    BY <1>1, <1>2, BegunFacts
  <2>6. /\ chansize' \in [End -> 1..MAX_CHANNELS + CHAN_EXTEND_SIZE - 1]
        /\ \A x \in End : chansize[x] <= chansize'[x]
    <3>1. CASE chansize' = chansize
      BY <3>1, ChannelTableAssumption DEF IInv, TypeOK
    <3>2. CASE \E i \in NewIndex(e) : chansize' = Grown(e, i)
      BY <3>2, NewIndexFacts DEF IInv
    <3>. QED  BY <3>1, <3>2, <1>6
  <2>7. TypeOK' /\ exited' = {}
    <3>1. ASSUME NEW x \in End, NEW j \in Index, j >= chansize'[x]
          PROVE  channels'[x][j] = NoChan
      <4>1. /\ chansize[x] \in Int /\ chansize'[x] \in Int /\ j \in Int
            /\ chansize[x] <= chansize'[x]
        BY <2>6, ChannelTableAssumption DEF IInv, TypeOK, Index
      <4>2. j >= chansize[x]
        BY <4>1, <3>1
      <4>. QED  BY <4>2, <1>6 DEF IInv, TypeOK
    <3>. QED  BY <3>1, <2>4, <2>5, <2>6, <1>1, <1>6 DEF Under, IInv, TypeOK
  <2>. HIDE DEF M, N, B
  <2>8. ConvInv(channels, N, B \cup {e}, c)
    <3>1. N[Peer(e)] = M[Peer(e)] \cup {q}
      BY <2>4
    <3>. QED  BY <3>1, <2>2, <2>4, <1>1, <1>2, <1>3, RefusingKeeps
  <2>9. ConvInv(channels', Mail(c)', Begun(c)', c)
    BY <2>5, <2>8, <1>6 DEF N
  <2>10. /\ \A x \in End : Ordered(net'[x])
         /\ \A x \in End, d \in Conv :
               d # c => MailOf(net'[x], d) = MailOf(net[x], d)
         /\ \A x \in End, j \in Index : channels'[x][j] = channels[x][j]
    BY <2>4, <1>6 DEF Under
  <2>. QED  BY <2>5, <2>7, <2>9, <2>10, <1>2, StepKeeps
<1>7. ASSUME NEW i \in NewIndex(e), chansize' = Grown(e, i), NEW new,
             new \in Channel, new.conv = c, Fresh(new), ~new.await_open,
             new.remotechan = p.from, new.writes,
             channels' = [channels EXCEPT ![e][i] = new],
             \/ /\ ~new.initconn /\ new.reads
                /\ Reply(e, <<Opening("CONFIRMATION", p.from, i, p.conv)>>)
             \/ /\ new.initconn /\ ~new.reads
                /\ Reply(e, <<>>)
      PROVE  IInv'
  <2>1. i \in Index /\ channels[e][i] = NoChan
    BY NewIndexFacts DEF IInv
  <2>2. channels' = Put(channels, e, i, new)
    BY <1>7 DEF Put
  <2>3. Added(channels, channels', c, e, i) /\ channels'[e][i] = new
    <3>1. PICK K : K = channels
      OBVIOUS
    <3>2. /\ K \in Tables /\ K[e][i] = NoChan /\ Slots(K, e, c) = {}
          /\ new \in Channel /\ new.conv = c /\ i \in Index
      BY <3>1, <2>1, <1>4, <1>7 DEF IInv, TypeOK, Tables
    <3>3. Added(K, Put(K, e, i, new), c, e, i) /\ Put(K, e, i, new)[e][i] = new
      BY <3>2, PutAdded
    <3>. QED  BY <3>1, <3>3, <2>2
  <2>4. \E ps : /\ Under(e, c, ps) /\ N[e] = {}
                /\ Answers(new, p, i, M, N, e)
    <3>1. CASE new.initconn
      <4>. DEFINE ps == <<>>
      <4>1. /\ ps \in Seq(PacketSet) /\ Ordered(ps) /\ Msgs(ps) = {}
            /\ Reply(e, ps)
        BY <3>1, <1>7 DEF Ordered, Msgs
      <4>. HIDE DEF ps
      <4>2. Under(e, c, ps) /\ N[e] = {} /\ N[f] = M[f]
        BY <4>1, <1>5
      <4>. QED  BY <4>2, <3>1, <1>7 DEF Answers
    <3>2. CASE ~new.initconn
      <4>1. PICK q : q = Opening("CONFIRMATION", p.from, i, p.conv)
        OBVIOUS
      <4>. DEFINE ps == <<q>>
      <4>2. /\ q \in PacketSet /\ q.t = "CONFIRMATION" /\ q.chan = p.from
            /\ q.from = i /\ q.conv = c
        BY <4>1, <2>1, <1>2, <1>c, PacketsMade
      <4>3. /\ ps \in Seq(PacketSet) /\ Ordered(ps) /\ Msgs(ps) = {q}
            /\ Reply(e, ps)
        BY <4>1, <4>2, <3>2, <1>7, Short
      <4>. HIDE DEF ps
      <4>4. Under(e, c, ps) /\ N[e] = {} /\ N[f] = M[f] \cup {q}
        BY <4>2, <4>3, <1>5
      <4>. QED  BY <4>2, <4>4, <3>2, <1>7 DEF Answers
    <3>. QED  BY <3>1, <3>2
  <2>5. PICK ps : /\ Under(e, c, ps) /\ N[e] = {}
                  /\ Answers(new, p, i, M, N, e)
    BY <2>4
  <2>. HIDE DEF M, N, B
  <2>6. ConvInv(channels', N, B \cup {e}, c)
    <3>1. Answers(channels'[e][i], p, i, M, N, e)
      BY <2>3, <2>5
    <3>. QED  BY <3>1, <2>3, <2>5, <1>1, <1>2, <1>3, TakingKeeps
  <2>7. ConvInv(channels', Mail(c)', Begun(c) \cup {e}, c)
    BY <2>6 DEF N, B
  <2>. QED  BY <2>2, <2>5, <2>7, <1>1, <1>2, <1>7, NewStep
<1>8. ASSUME NEW i \in NewIndex(e), chansize' = Grown(e, i),
             channels' = [channels EXCEPT ![e][i] =
               Connected(NewChannel(c, p.from))],
             Reply(e, <<Opening("CONFIRMATION", p.from, i, p.conv)>>)
      PROVE  IInv'
  <2>1. PICK n : n = NewChannel(c, p.from)
    OBVIOUS
  <2>2. PICK new : new = Connected(n)
    OBVIOUS
  <2>3. /\ n \in Channel /\ n.conv = c /\ n.remotechan = p.from /\ Fresh(n)
        /\ ~n.await_open /\ ~n.initconn
    BY <2>1, <1>2, NewFacts
  <2>4. /\ new \in Channel /\ new.conv = c /\ Fresh(new) /\ ~new.await_open
        /\ new.remotechan = p.from /\ new.writes /\ ~new.initconn /\ new.reads
    BY <2>2, <2>3 DEF Connected, Channel, Fresh
  <2>5. channels' = [channels EXCEPT ![e][i] = new]
    BY <2>1, <2>2, <1>8
  <2>. QED  BY <2>4, <2>5, <1>7, <1>8
<1>9. ASSUME NEW i \in NewIndex(e), chansize' = Grown(e, i),
             channels' = [channels EXCEPT ![e][i] =
               [NewChannel(c, p.from) EXCEPT !.initconn = TRUE, !.writes = TRUE]],
             Reply(e, <<>>)
      PROVE  IInv'
  <2>1. PICK n : n = NewChannel(c, p.from)
    OBVIOUS
  <2>2. PICK new : new = [n EXCEPT !.initconn = TRUE, !.writes = TRUE]
    OBVIOUS
  <2>3. /\ n \in Channel /\ n.conv = c /\ n.remotechan = p.from /\ Fresh(n)
        /\ ~n.await_open /\ ~n.reads
    BY <2>1, <1>2, NewFacts
  <2>4. /\ new \in Channel /\ new.conv = c /\ Fresh(new) /\ ~new.await_open
        /\ new.remotechan = p.from /\ new.writes /\ new.initconn /\ ~new.reads
    BY <2>2, <2>3 DEF Channel, Fresh
  <2>5. channels' = [channels EXCEPT ![e][i] = new]
    BY <2>1, <2>2, <1>9
  <2>. QED  BY <2>4, <2>5, <1>7, <1>9
<1>. QED
  <2>1. \/ /\ Reply(e, Refusal(p)) /\ UNCHANGED <<channels, chansize>>
        \/ \E i \in NewIndex(e) :
             /\ chansize' = Grown(e, i)
             /\ \/ /\ channels' = [channels EXCEPT ![e][i] =
                        Connected(NewChannel(c, p.from))]
                   /\ Reply(e, <<Opening("CONFIRMATION", p.from, i, p.conv)>>)
                \/ /\ channels' = [channels EXCEPT ![e][i] =
                        [NewChannel(c, p.from) EXCEPT
                           !.initconn = TRUE, !.writes = TRUE]]
                   /\ Reply(e, <<>>)
                \/ Reply(e, Refusal(p)) /\ UNCHANGED channels
    BY <1>p, <1>c DEF RecvOpen
  <2>. QED  BY <2>1, <1>6, <1>8, <1>9

---------------------------------------------------------------------------
(* The invariant *)

LEMMA InitIInv == Init => IInv
<1>. SUFFICES ASSUME Init PROVE IInv
  OBVIOUS
<1>1. /\ channels = [e \in End |-> [i \in Index |-> NoChan]]
      /\ chansize = [e \in End |-> 1] /\ net = [e \in End |-> <<>>]
      /\ exited = {} /\ begun = [e \in End |-> {}]
      /\ sent = [e \in End |-> [c \in Conv |-> 0]]
      /\ rcvd = [e \in End |-> [c \in Conv |-> 0]]
      /\ asked = [e \in End |-> 0]
  BY DEF Init
<1>2. TypeOK
  <2>1. 1 \in 1..MAX_CHANNELS + CHAN_EXTEND_SIZE - 1
    <3>1. MAX_CHANNELS \in Nat \ {0} /\ CHAN_EXTEND_SIZE \in Nat \ {0}
      BY ChannelTableAssumption
    <3>. QED  BY <3>1
  <2>2. chansize \in [End -> 1..MAX_CHANNELS + CHAN_EXTEND_SIZE - 1]
    BY <2>1, <1>1
  <2>3. net \in [End -> Seq(PacketSet)]
    BY <1>1
  <2>4. channels \in [End -> [Index -> Channel \cup {NoChan}]]
    BY <1>1
  <2>5. /\ sent \in [End -> [Conv -> Nat]] /\ rcvd \in [End -> [Conv -> Nat]]
        /\ asked \in [End -> Nat]
    BY <1>1
  <2>. QED  BY <1>1, <2>2, <2>3, <2>4, <2>5 DEF TypeOK
<1>3. \A e \in End : net[e] = <<>> /\ \A i \in Index : channels[e][i] = NoChan
  BY <1>1
<1>4. \A e \in End : Ordered(net[e]) /\ Msgs(net[e]) = {}
  BY <1>3 DEF Ordered, Msgs
<1>5. \A e \in End : Occupied(e) = {}
  BY <1>3 DEF Occupied
<1>6. ASSUME NEW c \in Conv PROVE ConvInv(channels, Mail(c), Begun(c), c)
  <2>1. \A e \in End : Slots(channels, e, c) = {}
    BY <1>3 DEF Slots
  <2>2. \A e \in End : Mail(c)[e] = {}
    BY <1>4 DEF Mail, MailOf
  <2>3. Begun(c) = {}
    BY <1>1 DEF Begun
  <2>. QED  BY <2>1, <2>2, <2>3 DEF ConvInv, EndInv
<1>. QED  BY <1>1, <1>2, <1>4, <1>5, <1>6 DEF IInv

LEMMA StutterKeeps == IInv /\ UNCHANGED vars => IInv'
<1>. SUFFICES ASSUME IInv, UNCHANGED vars PROVE IInv'
  OBVIOUS
<1>1. UNCHANGED <<channels, chansize, net, exited, begun, sent, rcvd, asked>>
  BY DEF vars
<1>2. TypeOK'
  BY <1>1 DEF IInv, TypeOK
<1>3. \A e \in End : \A i \in Occupied(e)' : ~Answered(channels'[e][i])
  BY <1>1 DEF IInv, Occupied
<1>4. \A c \in Conv : ConvInv(channels', Mail(c)', Begun(c)', c)
  <2>1. \A c \in Conv : Mail(c)' = Mail(c) /\ Begun(c)' = Begun(c)
    BY <1>1 DEF Mail, Begun
  <2>. QED  BY <2>1, <1>1 DEF IInv
<1>. QED  BY <1>1, <1>2, <1>3, <1>4 DEF IInv

LEMMA NextIInv == IInv /\ [Next]_vars => IInv'
<1>. SUFFICES ASSUME IInv, Next PROVE IInv'
  BY StutterKeeps
<1>1. PICK e \in End :
        \/ RecvPacket(e) \/ Keepalive(e)
        \/ \E c \in Conv : Open(e, c)
        \/ \E i \in Index : \/ CheckInProgress(e, i) \/ SendData(e, i)
                            \/ ReadEnds(e, i) \/ Write(e, i)
  BY DEF Next
<1>2. CASE RecvPacket(e)
  <2>1. RecvOpen(e) => IInv'
    BY OpenPacketKeeps
  <2>2. RecvConfirmation(e) => IInv'
    BY ConfirmationKeeps
  <2>3. RecvFailure(e) => IInv'
    BY FailureKeeps
  <2>4. RecvData(e) => IInv'
    BY DataKeeps
  <2>5. RecvEof(e) \/ RecvClose(e) => IInv'
    BY ClosePacketKeeps
  <2>6. RecvRequest(e) => IInv'
    BY RequestKeeps
  <2>7. RecvReply(e) => IInv'
    BY ReplyKeeps
  <2>. QED  BY <1>2, <2>1, <2>2, <2>3, <2>4, <2>5, <2>6, <2>7 DEF RecvPacket
<1>3. CASE Keepalive(e)
  BY <1>3, KeepaliveKeeps
<1>4. CASE \E c \in Conv : Open(e, c)
  BY <1>4, OpenKeeps
<1>5. CASE \E i \in Index : CheckInProgress(e, i)
  BY <1>5, ConnectKeeps
<1>6. CASE \E i \in Index : SendData(e, i) \/ ReadEnds(e, i) \/ Write(e, i)
  BY <1>6, TurnsKeep
<1>. QED  BY <1>1, <1>2, <1>3, <1>4, <1>5, <1>6

LEMMA Invariance == Spec => []IInv
BY InitIInv, NextIInv, PTL DEF Spec

---------------------------------------------------------------------------
(* How much data is under way *)

\* Where the packets of data of a conversation are in n.
DataIn(n, c) == {k \in 1..Len(n) : n[k].t = "DATA" /\ n[k].conv = c}
Amount(n, c) == Cardinality(DataIn(n, c))

LEMMA AmountFacts ==
    ASSUME NEW P, NEW n \in Seq(P), NEW c
    PROVE  /\ IsFiniteSet(DataIn(n, c)) /\ Amount(n, c) \in Nat
           /\ DataIn(n, c) = {} <=> Amount(n, c) = 0
<1>1. Len(n) \in Nat
  BY LenProperties
<1>2. IsFiniteSet(1..Len(n))
  BY <1>1, FS_Interval
<1>3. IsFiniteSet(DataIn(n, c))
  BY <1>2, FS_Subset DEF DataIn
<1>. QED  BY <1>3, FS_CardinalityType, FS_EmptySet DEF Amount

LEMMA AmountOne ==
    ASSUME NEW p, NEW c
    PROVE  Amount(<<p>>, c) = IF p.t = "DATA" /\ p.conv = c THEN 1 ELSE 0
<1>1. DataIn(<<p>>, c) = IF p.t = "DATA" /\ p.conv = c THEN {1} ELSE {}
  BY DEF DataIn
<1>. QED  BY <1>1, FS_Singleton, FS_EmptySet DEF Amount

LEMMA AmountNone ==
    ASSUME NEW n, NEW c, \A q \in Msgs(n) : q.t # "DATA"
    PROVE  Amount(n, c) = 0
<1>1. DataIn(n, c) = {}
  BY DEF DataIn, Msgs
<1>. QED  BY <1>1, FS_EmptySet DEF Amount

LEMMA AmountJoined ==
    ASSUME NEW P, NEW n \in Seq(P), NEW r \in Seq(P), NEW c
    PROVE  Amount(n \o r, c) = Amount(n, c) + Amount(r, c)
<1>1. /\ Len(n) \in Nat /\ Len(r) \in Nat /\ Len(n \o r) = Len(n) + Len(r)
      /\ n \o r \in Seq(P)
      /\ \A k \in 1..Len(n) + Len(r) :
            (n \o r)[k] = IF k <= Len(n) THEN n[k] ELSE r[k - Len(n)]
  BY ConcatProperties, LenProperties
<1>2. PICK w : w = n \o r
  OBVIOUS
<1>3. PICK l, m : l = Len(n) /\ m = Len(r)
  OBVIOUS
<1>4. /\ l \in Nat /\ m \in Nat /\ Len(w) = l + m /\ w \in Seq(P)
      /\ \A k \in 1..l : w[k] = n[k]
      /\ \A k \in 1..m : w[l + k] = r[k]
  <2>1. \A k \in 1..l : w[k] = n[k]
    BY <1>1, <1>2, <1>3
  <2>2. ASSUME NEW k \in 1..m PROVE w[l + k] = r[k]
    <3>1. l + k \in 1..l + m /\ ~(l + k <= l) /\ (l + k) - l = k
      BY <1>1, <1>3
    <3>. QED  BY <3>1, <1>1, <1>2, <1>3
  <2>. QED  BY <2>1, <2>2, <1>1, <1>2, <1>3
<1>5. PICK W, N, R : W = DataIn(w, c) /\ N = DataIn(n, c) /\ R = DataIn(r, c)
  OBVIOUS
<1>6. /\ IsFiniteSet(N) /\ IsFiniteSet(R)
      /\ Cardinality(N) \in Nat /\ Cardinality(R) \in Nat
  BY <1>5, AmountFacts, FS_CardinalityType
<1>7. PICK f : f = [k \in R |-> l + k]
  OBVIOUS
<1>. DEFINE S == {f[k] : k \in R}
<1>8. /\ \A k \in N : k \in 1..l
      /\ \A k \in R : k \in 1..m
  BY <1>3, <1>5 DEF DataIn
<1>9. W = N \cup S
  <2>1. ASSUME NEW k \in W PROVE k \in N \cup S
    <3>1. k \in 1..l + m /\ w[k].t = "DATA" /\ w[k].conv = c
      BY <1>4, <1>5 DEF DataIn
    <3>2. CASE k \in 1..l
      BY <3>1, <3>2, <1>3, <1>4, <1>5 DEF DataIn
    <3>3. CASE k \notin 1..l
      <4>1. PICK j \in 1..m : k = l + j
        <5>1. k - l \in 1..m /\ k = l + (k - l)
          BY <3>1, <3>3, <1>4
        <5>. QED  BY <5>1
      <4>2. w[k] = r[j]
        BY <4>1, <1>4
      <4>3. j \in R
        BY <4>2, <3>1, <1>3, <1>5 DEF DataIn
      <4>. QED  BY <4>1, <4>3, <1>7
    <3>. QED  BY <3>2, <3>3
  <2>2. ASSUME NEW k \in N PROVE k \in W
    <3>1. k \in 1..l /\ n[k].t = "DATA" /\ n[k].conv = c
      BY <1>3, <1>5 DEF DataIn
    <3>2. k \in 1..Len(w) /\ w[k] = n[k]
      BY <3>1, <1>4
    <3>. QED  BY <3>1, <3>2, <1>5 DEF DataIn
  <2>3. ASSUME NEW k \in R PROVE f[k] \in W
    <3>1. k \in 1..m /\ r[k].t = "DATA" /\ r[k].conv = c
      BY <1>3, <1>5 DEF DataIn
    <3>2. f[k] \in 1..Len(w) /\ w[f[k]] = r[k]
      BY <3>1, <1>4, <1>7
    <3>. QED  BY <3>1, <3>2, <1>5 DEF DataIn
  <2>. QED  BY <2>1, <2>2, <2>3
<1>10. N \cap S = {}
  BY <1>4, <1>7, <1>8
<1>11. f \in Bijection(R, S)
  <2>1. f \in [R -> S] /\ \A t \in S : \E b \in R : f[b] = t
    BY <1>7
  <2>2. \A a \in R, b \in R : f[a] = f[b] => a = b
    BY <1>4, <1>7, <1>8
  <2>. QED  BY <2>1, <2>2 DEF Bijection, Injection, IsInjective, Surjection
<1>. HIDE DEF S
<1>12. IsFiniteSet(S) /\ Cardinality(S) = Cardinality(R)
  BY <1>6, <1>11, FS_Bijection DEF ExistsBijection
<1>13. Cardinality(W) = Cardinality(N) + Cardinality(S) - Cardinality(N \cap S)
  BY <1>6, <1>9, <1>12, FS_Union
<1>14. Cardinality(N \cap S) = 0
  BY <1>10, FS_EmptySet
<1>15. Cardinality(W) = Cardinality(N) + Cardinality(R)
  BY <1>6, <1>12, <1>13, <1>14
<1>. QED  BY <1>2, <1>5, <1>15 DEF Amount

LEMMA AmountPopped ==
    ASSUME NEW P, NEW n \in Seq(P), n # <<>>, NEW c
    PROVE  Amount(n, c) = Amount(<<Head(n)>>, c) + Amount(Tail(n), c)
<1>1. /\ Head(n) \in P /\ Tail(n) \in Seq(P) /\ n = <<Head(n)>> \o Tail(n)
  BY HeadTailProperties, SMT
<1>2. <<Head(n)>> \in Seq(P)
  BY <1>1
<1>3. PICK h, t : h = <<Head(n)>> /\ t = Tail(n)
  OBVIOUS
<1>4. h \in Seq(P) /\ t \in Seq(P) /\ n = h \o t
  BY <1>1, <1>2, <1>3
<1>5. Amount(h \o t, c) = Amount(h, c) + Amount(t, c)
  BY <1>4, AmountJoined
<1>. QED  BY <1>3, <1>4, <1>5

---------------------------------------------------------------------------
(* What an end has sent and the other has not read is under way *)

Counted ==
    \A e \in End, c \in Conv :
      sent[Peer(e)][c] = rcvd[e][c] + Amount(net[e], c)

LEMMA SendCounts ==
    ASSUME TypeOK, Counted, NEW e \in End, NEW ps \in Seq(PacketSet),
           Send(e, ps), rcvd' = rcvd,
           \A c \in Conv : /\ sent'[e][c] = sent[e][c] + Amount(ps, c)
                           /\ sent'[Peer(e)][c] = sent[Peer(e)][c]
    PROVE  Counted'
<1>f. Peer(e) \in End /\ Peer(e) # e /\ Peer(Peer(e)) = e
      /\ \A x \in End : x = e \/ x = Peer(e)
  BY PeerFacts
<1>1. net \in [End -> Seq(PacketSet)]
  BY DEF TypeOK
<1>2. /\ net'[Peer(e)] = net[Peer(e)] \o ps /\ net'[e] = net[e]
  BY <1>1, <1>f DEF Send
<1>3. ASSUME NEW c \in Conv
      PROVE  /\ sent'[e][c] = rcvd'[Peer(e)][c] + Amount(net'[Peer(e)], c)
             /\ sent'[Peer(e)][c] = rcvd'[e][c] + Amount(net'[e], c)
  <2>1. PICK n : n = net[Peer(e)]
    OBVIOUS
  <2>2. n \in Seq(PacketSet)
    BY <2>1, <1>1, <1>f
  <2>3. Amount(n \o ps, c) = Amount(n, c) + Amount(ps, c)
    BY <2>2, AmountJoined
  <2>4. Amount(n, c) \in Nat /\ Amount(ps, c) \in Nat
    BY <2>2, AmountFacts
  <2>5. /\ sent[e][c] = rcvd[Peer(e)][c] + Amount(n, c)
        /\ sent[Peer(e)][c] = rcvd[e][c] + Amount(net[e], c)
    BY <2>1, <1>f DEF Counted
  <2>6. rcvd[Peer(e)][c] \in Nat
    BY <1>f DEF TypeOK
  <2>7. sent'[e][c] = rcvd[Peer(e)][c] + Amount(n \o ps, c)
    BY <2>3, <2>4, <2>5, <2>6
  <2>. QED  BY <2>1, <2>5, <2>7, <1>2
<1>4. ASSUME NEW x \in End, NEW c \in Conv
      PROVE  sent'[Peer(x)][c] = rcvd'[x][c] + Amount(net'[x], c)
  BY <1>3, <1>f
<1>. QED  BY <1>4 DEF Counted

LEMMA ReplyCounts ==
    ASSUME TypeOK, Counted, NEW e \in End, NEW ps \in Seq(PacketSet),
           net[e] # <<>>, Reply(e, ps), sent' = sent,
           \A q \in Msgs(ps) : q.t # "DATA",
           \A c \in Conv :
              /\ rcvd'[e][c] = rcvd[e][c] + Amount(<<Head(net[e])>>, c)
              /\ rcvd'[Peer(e)][c] = rcvd[Peer(e)][c]
    PROVE  Counted'
<1>f. Peer(e) \in End /\ Peer(e) # e /\ Peer(Peer(e)) = e
      /\ \A x \in End : x = e \/ x = Peer(e)
  BY PeerFacts
<1>1. net \in [End -> Seq(PacketSet)]
  BY DEF TypeOK
<1>2. /\ net'[Peer(e)] = net[Peer(e)] \o ps /\ net'[e] = Tail(net[e])
  BY <1>1, <1>f DEF Reply
<1>3. ASSUME NEW c \in Conv
      PROVE  /\ sent'[e][c] = rcvd'[Peer(e)][c] + Amount(net'[Peer(e)], c)
             /\ sent'[Peer(e)][c] = rcvd'[e][c] + Amount(net'[e], c)
  <2>1. PICK n, m, h : n = net[Peer(e)] /\ m = net[e] /\ h = <<Head(net[e])>>
    OBVIOUS
  <2>2. n \in Seq(PacketSet) /\ m \in Seq(PacketSet) /\ m # <<>>
        /\ h \in Seq(PacketSet) /\ Tail(m) \in Seq(PacketSet)
    <3>1. n \in Seq(PacketSet) /\ m \in Seq(PacketSet) /\ m # <<>>
      BY <2>1, <1>1, <1>f
    <3>2. Head(m) \in PacketSet /\ Tail(m) \in Seq(PacketSet)
      BY <3>1, HeadTailProperties
    <3>. QED  BY <3>1, <3>2, <2>1
  <2>3. Amount(n \o ps, c) = Amount(n, c) + Amount(ps, c) /\ Amount(ps, c) = 0
    BY <2>2, AmountJoined, AmountNone
  <2>4. Amount(m, c) = Amount(h, c) + Amount(Tail(m), c)
    BY <2>1, <2>2, AmountPopped
  <2>5. Amount(n, c) \in Nat /\ Amount(h, c) \in Nat /\ Amount(Tail(m), c) \in Nat
    BY <2>2, AmountFacts
  <2>6. /\ sent[e][c] = rcvd[Peer(e)][c] + Amount(n, c)
        /\ sent[Peer(e)][c] = rcvd[e][c] + Amount(m, c)
    BY <2>1, <1>f DEF Counted
  <2>7. rcvd[Peer(e)][c] \in Nat /\ rcvd[e][c] \in Nat
    BY <1>f DEF TypeOK
  <2>8. rcvd'[e][c] = rcvd[e][c] + Amount(h, c)
    BY <2>1
  <2>9. /\ sent[e][c] = rcvd[Peer(e)][c] + Amount(n \o ps, c)
        /\ sent[Peer(e)][c] = (rcvd[e][c] + Amount(h, c)) + Amount(Tail(m), c)
    BY <2>3, <2>4, <2>5, <2>6, <2>7
  <2>. QED  BY <2>1, <2>8, <2>9, <1>2
<1>4. ASSUME NEW x \in End, NEW c \in Conv
      PROVE  sent'[Peer(x)][c] = rcvd'[x][c] + Amount(net'[x], c)
  BY <1>3, <1>f
<1>. QED  BY <1>4 DEF Counted

---------------------------------------------------------------------------
(* What the tables say of a conversation *)

StateNow == [e \in End |-> [c \in Conv |-> StateOf(e, c)]]
Moved(e, c, s) == StateNow' = [StateNow EXCEPT ![e][c] = s]

\* Whoever has a channel that is no longer asked for, or was never, knows
\* that the other end has heard of the conversation.
Heard ==
    \A e \in End : \A i \in Occupied(e) :
      ~channels[e][i].await_open => channels[e][i].conv \in begun[Peer(e)]

RInv == IInv /\ Counted /\ Heard

LEMMA PhaseFacts ==
    ASSUME NEW ch \in Channel
    PROVE  /\ ch.await_open => Phase(ch) = "asking"
           /\ ~ch.await_open /\ ch.initconn => Phase(ch) = "connecting"
           /\ ~ch.await_open /\ ~ch.initconn =>
                Phase(ch) = IF ch.sent_close THEN "closing" ELSE "up"
<1>1. /\ ch.await_open \in BOOLEAN /\ ch.initconn \in BOOLEAN
      /\ ch.sent_close \in BOOLEAN
  BY DEF Channel
<1>. QED  BY <1>1 DEF Phase

LEMMA StateIs ==
    ASSUME IInv, NEW e \in End, NEW c \in Conv, NEW i \in Slots(channels, e, c)
    PROVE  StateNow[e][c] = Phase(channels[e][i])
<1>1. \A j \in Slots(channels, e, c) : j = i
  BY DEF IInv, ConvInv, EndInv
<1>2. SlotsOf(e, c) = Slots(channels, e, c)
  BY DEF SlotsOf, Slots, Occupied
<1>3. SlotsOf(e, c) = {i}
  BY <1>1, <1>2
<1>4. (CHOOSE j \in SlotsOf(e, c) : TRUE) = i
  BY <1>3
<1>. QED  BY <1>3, <1>4 DEF StateNow, StateOf

LEMMA StateNone ==
    ASSUME NEW e \in End, NEW c \in Conv, Slots(channels, e, c) = {}
    PROVE  StateNow[e][c] = IF c \in begun[e] THEN "down" ELSE "none"
<1>1. SlotsOf(e, c) = {}
  BY DEF SlotsOf, Slots, Occupied
<1>. QED  BY <1>1 DEF StateNow, StateOf

\* What a step with one slot of one conversation makes of them.
LEMMA Shift ==
    ASSUME IInv, NEW e \in End, NEW i \in Index, NEW c \in Conv, NEW new,
           new = NoChan \/ (new \in Channel /\ new.conv = c),
           channels[e][i] # NoChan => channels[e][i].conv = c,
           Slots(channels, e, c) \subseteq {i},
           channels' = Put(channels, e, i, new),
           \A x \in End, d \in Conv :
              x # e \/ d # c => (d \in begun'[x] <=> d \in begun[x])
    PROVE  Moved(e, c, IF new # NoChan THEN Phase(new)
                       ELSE IF c \in begun'[e] THEN "down" ELSE "none")
<1>. DEFINE s == IF new # NoChan THEN Phase(new)
                 ELSE IF c \in begun'[e] THEN "down" ELSE "none"
<1>1. channels \in Tables
  BY DEF IInv, TypeOK, Tables
<1>2. /\ channels'[e][i] = new
      /\ \A x \in End, j \in Index :
            x # e \/ j # i => channels'[x][j] = channels[x][j]
      /\ new = NoChan =>
           Slots(channels', e, c) = Slots(channels, e, c) \ {i}
      /\ new # NoChan =>
           Slots(channels', e, c) = Slots(channels, e, c) \cup {i}
  <2>1. PICK K : K = channels
    OBVIOUS
  <2>2. K \in Tables /\ (K[e][i] # NoChan => K[e][i].conv = c)
    BY <2>1, <1>1
  <2>3. /\ Put(K, e, i, new)[e][i] = new
        /\ \A x \in End, j \in Index :
              x # e \/ j # i => Put(K, e, i, new)[x][j] = K[x][j]
        /\ new = NoChan =>
             Slots(Put(K, e, i, new), e, c) = Slots(K, e, c) \ {i}
        /\ new # NoChan =>
             Slots(Put(K, e, i, new), e, c) = Slots(K, e, c) \cup {i}
    BY <2>2, TableFacts
  <2>. QED  BY <2>1, <2>3
<1>3. ASSUME NEW x \in End, NEW d \in Conv, x # e \/ d # c
      PROVE  StateOf(x, d)' = StateOf(x, d)
  <2>1. \A j \in Index : j \in SlotsOf(x, d)' <=> j \in SlotsOf(x, d)
    <3>1. ASSUME NEW j \in Index, x # e \/ j # i
          PROVE  j \in SlotsOf(x, d)' <=> j \in SlotsOf(x, d)
      BY <1>2, <3>1 DEF SlotsOf, Occupied
    <3>2. ASSUME x = e
          PROVE  i \notin SlotsOf(x, d)' /\ i \notin SlotsOf(x, d)
      BY <1>2, <1>3, <3>2 DEF SlotsOf, Occupied
    <3>. QED  BY <3>1, <3>2
  <2>2. SlotsOf(x, d)' \subseteq Index /\ SlotsOf(x, d) \subseteq Index
    BY DEF SlotsOf, Occupied
  <2>3. SlotsOf(x, d)' = SlotsOf(x, d)
    BY <2>1, <2>2
  <2>4. \A j \in SlotsOf(x, d) : channels'[x][j] = channels[x][j]
    <3>1. x = e => i \notin SlotsOf(x, d)
      BY <1>3 DEF SlotsOf, Occupied
    <3>. QED  BY <3>1, <2>2, <1>2
  <2>5. PICK S : S = SlotsOf(x, d)
    OBVIOUS
  <2>6. PICK j : j = CHOOSE k \in S : TRUE
    OBVIOUS
  <2>7. /\ StateOf(x, d)' = IF S # {} THEN Phase(channels'[x][j])
                            ELSE IF d \in begun'[x] THEN "down" ELSE "none"
        /\ StateOf(x, d) = IF S # {} THEN Phase(channels[x][j])
                           ELSE IF d \in begun[x] THEN "down" ELSE "none"
    BY <2>3, <2>5, <2>6 DEF StateOf, Phase
  <2>8. S # {} => channels'[x][j] = channels[x][j]
    BY <2>4, <2>5, <2>6
  <2>. QED  BY <2>7, <2>8, <1>3
<1>4. StateOf(e, c)' = s
  <2>1. SlotsOf(e, c)' = Slots(channels', e, c)
    BY DEF SlotsOf, Slots, Occupied
  <2>2. CASE new = NoChan
    <3>1. SlotsOf(e, c)' = {}
      BY <2>1, <2>2, <1>2
    <3>. QED  BY <3>1, <2>2 DEF StateOf
  <2>3. CASE new # NoChan
    <3>1. SlotsOf(e, c)' = {i}
      BY <2>1, <2>3, <1>2
    <3>2. (CHOOSE j \in {i} : TRUE) = i
      OBVIOUS
    <3>3. StateOf(e, c)' = Phase(channels'[e][i])
      BY <3>1, <3>2 DEF StateOf, Phase
    <3>. QED  BY <3>3, <2>3, <1>2
  <2>. QED  BY <2>2, <2>3
<1>. HIDE DEF s
<1>5. StateNow' = [StateNow EXCEPT ![e][c] = s]
  <2>1. StateNow' = [x \in End |-> [d \in Conv |-> StateOf(x, d)']]
    BY DEF StateNow
  <2>2. \A x \in End, d \in Conv :
           StateOf(x, d)' = IF x = e /\ d = c THEN s ELSE StateOf(x, d)
    BY <1>3, <1>4
  <2>. QED  BY <2>1, <2>2 DEF StateNow
<1>. QED  BY <1>5 DEF Moved, s

---------------------------------------------------------------------------
(* Steps of a conversation *)

May(e, c, s) ==
    \/ /\ StateNow[e][c] = "none" /\ StateNow[Peer(e)][c] = "none"
       /\ s \in {"asking", "down"}
    \/ /\ StateNow[e][c] = "none" /\ StateNow[Peer(e)][c] = "asking"
       /\ s \in {"up", "connecting", "down"}
    \/ StateNow[e][c] = "connecting" /\ s \in {"up", "down"}
    \/ /\ StateNow[e][c] = "asking"
       /\ \/ StateNow[Peer(e)][c] \in {"up", "closing"} /\ s = "up"
          \/ StateNow[Peer(e)][c] = "down" /\ s = "down"
    \/ StateNow[e][c] = "up" /\ s = "closing"
    \/ /\ StateNow[e][c] \in {"up", "closing"}
       /\ StateNow[Peer(e)][c] \in {"closing", "down"}
       /\ rcvd[e][c] = sent[Peer(e)][c] /\ s = "down"

LEMMA MayMove ==
    ASSUME NEW e \in End, NEW c \in Conv, NEW s, May(e, c, s), Moved(e, c, s),
           UNCHANGED <<sent, rcvd>>
    PROVE  Conversation!Next
<1>1. Conversation!Become(e, c, s)
  BY DEF Conversation!Become, Moved, StateNow
<1>2. \/ Conversation!Ask(e, c) \/ Conversation!Take(e, c)
      \/ Conversation!Connect(e, c) \/ Conversation!Learn(e, c)
      \/ Conversation!Close(e, c) \/ Conversation!Forget(e, c)
  <2>1. Conversation!Peer(e) = Peer(e)
    BY DEF Conversation!Peer, Peer
  <2>2. CASE /\ StateNow[e][c] = "none" /\ StateNow[Peer(e)][c] = "none"
             /\ s \in {"asking", "down"}
    BY <1>1, <2>1, <2>2 DEF Conversation!Ask, StateNow
  <2>3. CASE /\ StateNow[e][c] = "none" /\ StateNow[Peer(e)][c] = "asking"
             /\ s \in {"up", "connecting", "down"}
    BY <1>1, <2>1, <2>3 DEF Conversation!Take, StateNow
  <2>4. CASE StateNow[e][c] = "connecting" /\ s \in {"up", "down"}
    BY <1>1, <2>1, <2>4 DEF Conversation!Connect, StateNow
  <2>5. CASE /\ StateNow[e][c] = "asking"
             /\ \/ StateNow[Peer(e)][c] \in {"up", "closing"} /\ s = "up"
                \/ StateNow[Peer(e)][c] = "down" /\ s = "down"
    BY <1>1, <2>1, <2>5 DEF Conversation!Learn, StateNow
  <2>6. CASE StateNow[e][c] = "up" /\ s = "closing"
    BY <1>1, <2>1, <2>6 DEF Conversation!Close, StateNow
  <2>7. CASE /\ StateNow[e][c] \in {"up", "closing"}
             /\ StateNow[Peer(e)][c] \in {"closing", "down"}
             /\ rcvd[e][c] = sent[Peer(e)][c] /\ s = "down"
    BY <1>1, <2>1, <2>7 DEF Conversation!Forget, StateNow
  <2>. QED  BY <2>2, <2>3, <2>4, <2>5, <2>6, <2>7 DEF May
<1>3. e \in Conversation!End
  BY DEF Conversation!End, End
<1>. QED  BY <1>2, <1>3 DEF Conversation!Next

\* A step the conversations do not see.
Unseen == StateNow' = StateNow /\ UNCHANGED <<sent, rcvd>>

\* A channel keeps its state, or nothing does.
LEMMA StaysPut ==
    ASSUME NEW e \in End, NEW c \in Conv, Moved(e, c, StateNow[e][c])
    PROVE  StateNow' = StateNow
<1>1. PICK f : f = StateNow
  OBVIOUS
<1>2. DOMAIN f = End /\ \A x \in End : f[x] = [d \in Conv |-> f[x][d]]
  BY <1>1 DEF StateNow
<1>3. f = [x \in End |-> f[x]]
  BY <1>1 DEF StateNow
<1>4. [f EXCEPT ![e][c] = f[e][c]] = f
  <2>1. PICK g : g = f[e]
    OBVIOUS
  <2>2. [g EXCEPT ![c] = g[c]] = g
    BY <2>1, <1>2
  <2>3. [f EXCEPT ![e][c] = f[e][c]] = [f EXCEPT ![e] = [g EXCEPT ![c] = g[c]]]
    BY <2>1
  <2>4. [f EXCEPT ![e] = g] = f
    BY <2>1, <1>3
  <2>. QED  BY <2>2, <2>3, <2>4
<1>. QED  BY <1>1, <1>4 DEF Moved

LEMMA NothingPut ==
    ASSUME UNCHANGED <<channels, begun>>
    PROVE  StateNow' = StateNow
BY DEF StateNow, StateOf, SlotsOf, Occupied, Phase

\* The last CLOSE of a conversation has been read, or is being read: the
\* other end has closed, and nothing it sent is under way.
LEMMA Finished ==
    ASSUME RInv, NEW e \in End, NEW i \in Occupied(e), NEW ch,
           ch = channels[e][i], ~ch.await_open, ~ch.initconn,
           \/ ch.recv_close
           \/ /\ net[e] # <<>> /\ Head(net[e]).t = "CLOSE"
              /\ Head(net[e]).conv = ch.conv
    PROVE  /\ StateNow[Peer(e)][ch.conv] \in {"closing", "down"}
           /\ rcvd[e][ch.conv] = sent[Peer(e)][ch.conv]
<1>. DEFINE f == Peer(e)
            c == ch.conv
            M == Mail(c)
<1>f. f \in End /\ f # e /\ Peer(f) = e
  BY PeerFacts
<1>0. IInv /\ Counted /\ Heard
  BY DEF RInv
<1>1. /\ i \in Index /\ ch \in Channel /\ c \in Conv /\ FlagsOK(ch)
      /\ i \in Slots(channels, e, c)
      /\ ConvInv(channels, M, Begun(c), c)
  BY <1>0, SlotFacts
<1>2. EndInv(channels, M, Begun(c), c, e) /\ EndInv(channels, M, Begun(c), c, f)
  BY <1>1, <1>f DEF ConvInv
<1>p. PICK p : p = Head(net[e])
  OBVIOUS
<1>3. ~ch.recv_close =>
         /\ net[e] # <<>> /\ p \in M[e] /\ p.t = "CLOSE" /\ p.conv = c
         /\ \A m \in Msgs(Tail(net[e])) : After(p, m)
  <2>. SUFFICES ASSUME ~ch.recv_close
                PROVE  /\ net[e] # <<>> /\ p \in M[e] /\ p.t = "CLOSE"
                       /\ p.conv = c
                       /\ \A m \in Msgs(Tail(net[e])) : After(p, m)
    OBVIOUS
  <2>1. net[e] # <<>> /\ p.t = "CLOSE" /\ p.conv = c
    BY <1>p
  <2>2. p \in Mail(p.conv)[e]
    BY <2>1, <1>p, <1>0, HeadFacts
  <2>3. net[e] \in Seq(PacketSet) /\ Ordered(net[e])
    BY <1>0 DEF IInv, TypeOK
  <2>4. \A m \in Msgs(Tail(net[e])) : After(p, m)
    BY <2>1, <2>3, <1>p, Popped
  <2>. QED  BY <2>1, <2>2, <2>4
<1>4. \A m \in M[e] : m.t # "DATA"
  <2>1. CASE ch.recv_close
    <3>1. ASSUME NEW m \in M[e] PROVE m.t # "DATA"
      <4>1. MailOK(channels, M, Begun(c), c, e, m)
        BY <1>2 DEF EndInv
      <4>2. m.t = "DATA" => m.chan = i
        BY <4>1, <1>1, <1>2 DEF MailOK, EndInv
      <4>. QED  BY <4>1, <4>2, <2>1 DEF MailOK
    <3>. QED  BY <3>1
  <2>2. CASE ~ch.recv_close
    <3>1. net[e] \in Seq(PacketSet) /\ net[e] # <<>>
      BY <2>2, <1>3, <1>0 DEF IInv, TypeOK
    <3>2. Msgs(net[e]) = Msgs(Tail(net[e])) \cup {p}
      BY <3>1, <1>p, Popped
    <3>3. ASSUME NEW m \in M[e] PROVE m.t # "DATA"
      <4>1. m \in Msgs(net[e]) /\ m.conv = c /\ m.t # "FAILURE"
        BY DEF Mail, MailOf
      <4>2. m = p \/ After(p, m)
        BY <4>1, <3>2, <2>2, <1>3
      <4>. QED  BY <4>1, <4>2, <2>2, <1>3 DEF After
    <3>. QED  BY <3>3
  <2>. QED  BY <2>1, <2>2
<1>5. rcvd[e][c] = sent[f][c]
  <2>1. DataIn(net[e], c) = {}
    BY <1>4 DEF DataIn, Mail, MailOf, Msgs
  <2>2. Amount(net[e], c) = 0
    BY <2>1, FS_EmptySet DEF Amount
  <2>3. sent[f][c] = rcvd[e][c] + Amount(net[e], c) /\ rcvd[e][c] \in Nat
    BY <1>0, <1>1 DEF Counted, IInv, TypeOK
  <2>. QED  BY <2>2, <2>3
<1>6. StateNow[f][c] \in {"closing", "down"}
  <2>1. CASE Slots(channels, f, c) = {}
    <3>1. c \in begun[f]
      BY <1>0 DEF Heard
    <3>. QED  BY <3>1, <2>1, <1>1, <1>f, StateNone
  <2>2. CASE Slots(channels, f, c) # {}
    <3>1. PICK j \in Slots(channels, f, c) : TRUE
      BY <2>2
    <3>2. PICK s : s = channels[f][j]
      OBVIOUS
    <3>3. /\ s \in Channel /\ FlagsOK(s)
          /\ \A k \in Slots(channels, f, c) : k = j
          /\ SlotOK(channels, M, c, f, j)
      <4>1. s \in Channel
        BY <3>1, <3>2, <1>0, <1>f DEF Slots, IInv, TypeOK
      <4>2. EndInv(channels, M, Begun(c), c, f)
        BY <1>2
      <4>. HIDE DEF M
      <4>3. /\ FlagsOK(s) /\ \A k \in Slots(channels, f, c) : k = j
            /\ SlotOK(channels, M, c, f, j)
        BY ONLY <4>2, <3>1, <3>2 DEF EndInv
      <4>. QED  BY ONLY <4>1, <4>3
    <3>4. s.sent_close
      <4>1. CASE ~ch.recv_close
        <5>1. MailOK(channels, M, Begun(c), c, e, p)
          BY <4>1, <1>2, <1>3 DEF EndInv
        <5>. QED  BY <5>1, <4>1, <1>3, <3>1, <3>2 DEF MailOK
      <4>2. CASE ch.recv_close
        <5>1. SlotOK(channels, M, c, e, i)
          BY <1>1, <1>2 DEF EndInv
        <5>2. ch.remotechan = j /\ Paired(ch, s, i, M[e], M[f])
          BY <5>1, <3>1, <3>2, <3>3 DEF SlotOK
        <5>3. ~s.initconn /\ (s.await_open => Some(M[f], "CONFIRMATION"))
          BY <5>2 DEF Paired
        <5>4. ~s.await_open
          <6>1. SUFFICES ASSUME NEW m \in M[f], m.t = "CONFIRMATION"
                         PROVE  FALSE
            BY <5>3 DEF Some
          <6>2. MailOK(channels, M, Begun(c), c, f, m)
            BY <1>2 DEF EndInv
          <6>3. m.from \in Slots(channels, e, c) /\ ~channels[e][m.from].recv_eof
            BY <6>1, <6>2, <1>f DEF MailOK
          <6>4. m.from = i
            BY <6>3, <1>1, <1>2 DEF EndInv
          <6>. QED  BY <6>3, <6>4, <1>1, <4>2 DEF FlagsOK
        <5>5. s.remotechan \in Slots(channels, e, c)
              /\ Paired(s, channels[e][s.remotechan], j, M[f], M[e])
          BY <5>3, <5>4, <3>2, <3>3, <1>1, <1>f DEF SlotOK
        <5>6. s.remotechan = i
          BY <5>5, <1>1, <1>2 DEF EndInv
        <5>. QED  BY <5>5, <5>6, <4>2 DEF Paired
      <4>. QED  BY <4>1, <4>2
    <3>5. ~s.await_open /\ ~s.initconn
      BY <3>3, <3>4 DEF FlagsOK
    <3>6. StateNow[f][c] = Phase(s)
      BY <3>1, <3>2, <1>0, <1>1, <1>f, StateIs
    <3>. QED  BY <3>3, <3>4, <3>5, <3>6, PhaseFacts
  <2>. QED  BY <2>1, <2>2
<1>. QED  BY <1>5, <1>6

---------------------------------------------------------------------------
(* What every step is shown to be *)

Faithful == Counted' /\ Heard' /\ (Conversation!Next \/ Unseen)

LEMMA HeardStays ==
    ASSUME Heard, channels' = channels, \A x \in End : begun[x] \subseteq begun'[x]
    PROVE  Heard'
<1>1. ASSUME NEW x \in End, NEW j \in Occupied(x)', ~channels'[x][j].await_open
      PROVE  channels'[x][j].conv \in begun'[Peer(x)]
  <2>1. j \in Occupied(x) /\ ~channels[x][j].await_open /\ Peer(x) \in End
    BY <1>1, PeerFacts DEF Occupied
  <2>. QED  BY <2>1 DEF Heard
<1>. QED  BY <1>1 DEF Heard

LEMMA HeardStep ==
    ASSUME RInv, NEW e \in End, NEW i \in Index, NEW new,
           channels' = Put(channels, e, i, new),
           \A x \in End : begun[x] \subseteq begun'[x],
           new # NoChan /\ ~new.await_open => new.conv \in begun'[Peer(e)]
    PROVE  Heard'
<1>1. channels \in Tables /\ Heard
  BY DEF RInv, IInv, TypeOK, Tables
<1>2. /\ channels'[e][i] = new
      /\ \A x \in End, j \in Index :
            x # e \/ j # i => channels'[x][j] = channels[x][j]
  BY <1>1 DEF Put, Tables
<1>3. ASSUME NEW x \in End, NEW j \in Index, channels'[x][j] # NoChan,
             ~channels'[x][j].await_open
      PROVE  channels'[x][j].conv \in begun'[Peer(x)]
  <2>1. CASE x = e /\ j = i
    BY <2>1, <1>2, <1>3
  <2>2. CASE x # e \/ j # i
    <3>1. channels'[x][j] = channels[x][j] /\ Peer(x) \in End
      BY <2>2, <1>2, PeerFacts
    <3>2. channels[x][j].conv \in begun[Peer(x)]
      BY <3>1, <1>1, <1>3 DEF Heard, Occupied
    <3>. QED  BY <3>1, <3>2
  <2>. QED  BY <2>1, <2>2
<1>. QED  BY <1>3 DEF Heard, Occupied

\* Nothing but packets without data.
LEMMA Counts ==
    ASSUME RInv, NEW e \in End, NEW ps \in Seq(PacketSet),
           \A q \in Msgs(ps) : q.t # "DATA", UNCHANGED <<sent, rcvd>>,
           \/ Send(e, ps)
           \/ net[e] # <<>> /\ Head(net[e]).t # "DATA" /\ Reply(e, ps)
    PROVE  Counted'
<1>1. TypeOK /\ Counted
  BY DEF RInv, IInv
<1>2. /\ \A x \in End, c \in Conv : sent[x][c] \in Nat /\ rcvd[x][c] \in Nat
      /\ Peer(e) \in End
  BY <1>1, PeerFacts DEF TypeOK
<1>3. CASE Send(e, ps)
  <2>1. \A c \in Conv : Amount(ps, c) = 0
    BY AmountNone
  <2>2. \A c \in Conv : /\ sent'[e][c] = sent[e][c] + Amount(ps, c)
                        /\ sent'[Peer(e)][c] = sent[Peer(e)][c]
    BY <2>1, <1>2
  <2>. QED  BY <2>2, <1>1, <1>3, SendCounts
<1>4. CASE net[e] # <<>> /\ Head(net[e]).t # "DATA" /\ Reply(e, ps)
  <2>1. \A c \in Conv : Amount(<<Head(net[e])>>, c) = 0
    BY <1>4, AmountOne
  <2>2. \A c \in Conv :
           /\ rcvd'[e][c] = rcvd[e][c] + Amount(<<Head(net[e])>>, c)
           /\ rcvd'[Peer(e)][c] = rcvd[Peer(e)][c]
    BY <2>1, <1>2
  <2>. QED  BY <2>2, <1>1, <1>4, ReplyCounts
<1>. QED  BY <1>3, <1>4

\* check_close() at the end of a step, after new was put in slot i.
LEMMA Checked ==
    ASSUME RInv, NEW e \in End, NEW i \in Occupied(e), NEW ch,
           ch = channels[e][i], ~ch.await_open, ~ch.initconn,
           NEW new \in Channel, new.conv = ch.conv, ~new.await_open,
           ~new.initconn, new.sent_close = ch.sent_close,
           Answered(new) =>
             \/ ch.recv_close
             \/ /\ net[e] # <<>> /\ Head(net[e]).t = "CLOSE"
                /\ Head(net[e]).conv = ch.conv,
           channels' = Put(channels, e, i, AfterCheck(new)), begun' = begun
    PROVE  /\ Heard'
           /\ \/ StateNow' = StateNow
              \/ \E s : May(e, ch.conv, s) /\ Moved(e, ch.conv, s)
           /\ ~Answered(new) /\ Closing(new).sent_close = ch.sent_close =>
                StateNow' = StateNow
<1>. PICK c : c = ch.conv
  OBVIOUS
<1>. PICK after : after = AfterCheck(new)
  OBVIOUS
<1>0. IInv /\ Heard
  BY DEF RInv
<1>1. /\ i \in Index /\ ch \in Channel /\ c \in Conv
      /\ i \in Slots(channels, e, c) /\ ~Answered(ch)
      /\ ConvInv(channels, Mail(c), Begun(c), c)
  BY <1>0, SlotFacts
<1>2. Slots(channels, e, c) \subseteq {i} /\ c \in begun[e]
  BY <1>1 DEF ConvInv, EndInv, Begun
<1>3. StateNow[e][c] = IF ch.sent_close THEN "closing" ELSE "up"
  BY <1>0, <1>1, StateIs, PhaseFacts
<1>4. /\ after = NoChan \/ (after \in Channel /\ after.conv = c)
      /\ Answered(new) <=> after = NoChan
  BY AfterCheckFacts, ClosingCloses, NoChanAssumption DEF AfterCheck, Closed
<1>5. ~Answered(new) =>
         /\ ~after.await_open /\ ~after.initconn /\ after \in Channel
         /\ after.sent_close = Closing(new).sent_close
         /\ ch.sent_close => after.sent_close
  <2>. SUFFICES ASSUME ~Answered(new)
                PROVE  /\ ~after.await_open /\ ~after.initconn
                       /\ after \in Channel
                       /\ after.sent_close = Closing(new).sent_close
                       /\ ch.sent_close => after.sent_close
    OBVIOUS
  <2>1. after = Closing(new) /\ Closed(new, after)
    BY ClosingCloses DEF AfterCheck
  <2>. QED  BY <2>1 DEF Closed
<1>6. Moved(e, c, IF after # NoChan THEN Phase(after)
                  ELSE IF c \in begun'[e] THEN "down" ELSE "none")
  <2>1. \A x \in End, d \in Conv :
           x # e \/ d # c => (d \in begun'[x] <=> d \in begun[x])
    OBVIOUS
  <2>2. channels' = Put(channels, e, i, after)
        /\ (channels[e][i] # NoChan => channels[e][i].conv = c)
    OBVIOUS
  <2>. QED  BY <2>1, <2>2, <1>0, <1>1, <1>2, <1>4, Shift
<1>7. Heard'
  <2>1. ch.conv \in begun[Peer(e)]
    BY <1>0 DEF Heard
  <2>2. after # NoChan => after.conv \in begun'[Peer(e)]
    BY <2>1, <1>4
  <2>. QED  BY <2>2, <1>1, HeardStep
<1>8. CASE Answered(new)
  <2>1. Moved(e, c, "down")
    BY <1>2, <1>4, <1>6, <1>8
  <2>2. /\ StateNow[Peer(e)][c] \in {"closing", "down"}
        /\ rcvd[e][c] = sent[Peer(e)][c]
    BY <1>8, Finished
  <2>3. May(e, c, "down")
    BY <2>2, <1>3 DEF May
  <2>. QED  BY <2>1, <2>3, <1>7, <1>8
<1>9. CASE ~Answered(new)
  <2>1. Moved(e, c, IF after.sent_close THEN "closing" ELSE "up")
    BY <1>4, <1>5, <1>6, <1>9, PhaseFacts
  <2>2. CASE after.sent_close = ch.sent_close
    <3>1. Moved(e, c, StateNow[e][c])
      BY <2>1, <2>2, <1>3
    <3>. QED  BY <3>1, <1>1, <1>7, StaysPut
  <2>3. CASE after.sent_close # ch.sent_close
    <3>1. after.sent_close /\ ~ch.sent_close
      BY <2>3, <1>1, <1>5, <1>9 DEF Channel
    <3>2. Moved(e, c, "closing") /\ May(e, c, "closing")
      BY <3>1, <2>1, <1>3 DEF May
    <3>. QED  BY <3>1, <3>2, <2>3, <1>5, <1>7, <1>9
  <2>. QED  BY <2>2, <2>3
<1>. QED  BY <1>8, <1>9

LEMMA MovesAreFaithful ==
    ASSUME Counted', Heard', UNCHANGED <<sent, rcvd>>,
           NEW e \in End, NEW c \in Conv,
           \/ StateNow' = StateNow
           \/ \E s : May(e, c, s) /\ Moved(e, c, s)
    PROVE  Faithful
<1>1. CASE StateNow' = StateNow
  BY <1>1 DEF Faithful, Unseen
<1>2. CASE \E s : May(e, c, s) /\ Moved(e, c, s)
  BY <1>2, MayMove DEF Faithful
<1>. QED  BY <1>1, <1>2

---------------------------------------------------------------------------
(* The steps *)

\* recv_msg_channel_eof(), recv_msg_channel_close()
LEMMA ClosePacketFaithful ==
    ASSUME RInv, NEW e \in End, RecvEof(e) \/ RecvClose(e)
    PROVE  Faithful
<1>. PICK p : p = Head(net[e])
  OBVIOUS
<1>. PICK i : i = p.chan
  OBVIOUS
<1>. PICK ch : ch = channels[e][i]
  OBVIOUS
<1>. PICK new : new = IF p.t = "EOF"
                      THEN [ch EXCEPT !.recv_eof = TRUE]
                      ELSE [ch EXCEPT !.recv_eof = TRUE, !.recv_close = TRUE]
  OBVIOUS
<1>. PICK ps : ps = CheckPackets(new)
  OBVIOUS
<1>0. IInv
  BY DEF RInv
<1>1. /\ net[e] # <<>> /\ p.t \in {"EOF", "CLOSE"}
      /\ p.t = "EOF" <=> RecvEof(e)
  BY DEF RecvEof, RecvClose, Arrives
<1>2. /\ i \in Occupied(e) /\ ch.conv = p.conv /\ Found(e) /\ Reached(e) = i
      /\ ~ch.await_open /\ ~ch.initconn /\ ~ch.recv_close
  BY <1>0, <1>1, BodyHead DEF BodyType
<1>3. ch \in Channel /\ ch.conv \in Conv /\ FlagsOK(ch)
  BY <1>0, <1>2, SlotFacts
<1>4. /\ channels' = Put(channels, e, i, AfterCheck(new)) /\ Reply(e, ps)
      /\ UNCHANGED <<begun, sent, rcvd>>
  <2>1. CASE p.t = "EOF"
    BY <1>1, <1>2, <2>1 DEF RecvEof, Handle, Put
  <2>2. CASE p.t = "CLOSE"
    <3>1. RecvClose(e)
      BY <1>1, <2>2
    <3>. QED  BY <3>1, <1>2, <2>2 DEF RecvClose, Handle, Put
  <2>. QED  BY <1>1, <2>1, <2>2
<1>5. /\ new \in Channel
      /\ \A g \in {"conv", "remotechan", "await_open", "initconn", "sent_eof",
                  "sent_close", "reads", "writes", "pending"} : new[g] = ch[g]
      /\ new.recv_eof /\ (new.recv_close <=> p.t = "CLOSE")
  BY <1>1, <1>2, <1>3 DEF Channel
<1>6. FlagsOK(new)
  BY <1>2, <1>3, <1>5 DEF FlagsOK
<1>7. ps \in Seq(PacketSet) /\ \A q \in Msgs(ps) : q.t # "DATA"
  BY <1>5, <1>6, CheckPacketsFacts
<1>8. Counted'
  BY <1>1, <1>4, <1>7, Counts
<1>9. Answered(new) => p.t = "CLOSE"
  BY <1>5 DEF Answered
<1>10. /\ Heard'
       /\ \/ StateNow' = StateNow
          \/ \E s : May(e, ch.conv, s) /\ Moved(e, ch.conv, s)
  <2>1. Answered(new) => /\ net[e] # <<>> /\ Head(net[e]).t = "CLOSE"
                         /\ Head(net[e]).conv = ch.conv
    BY <1>1, <1>2, <1>9
  <2>2. new.conv = ch.conv /\ ~new.await_open /\ ~new.initconn
        /\ new.sent_close = ch.sent_close
    BY <1>2, <1>5
  <2>3. /\ RInv /\ i \in Occupied(e) /\ ch = channels[e][i]
        /\ channels' = Put(channels, e, i, AfterCheck(new)) /\ begun' = begun
    BY <1>2, <1>4
  <2>. QED  BY ONLY <2>1, <2>2, <2>3, <1>2, <1>5, Checked, e \in End
<1>. QED  BY <1>3, <1>4, <1>8, <1>10, MovesAreFaithful

\* send_msg_channel_data() at the end of what there is, and writechannel()
LEMMA TurnsFaithful ==
    ASSUME RInv, NEW e \in End, NEW i \in Index, ReadEnds(e, i) \/ Write(e, i)
    PROVE  Faithful
<1>. PICK ch : ch = channels[e][i]
  OBVIOUS
<1>0. IInv
  BY DEF RInv
<1>1. i \in Occupied(e)
  BY DEF ReadEnds, Write, MayRead
<1>2. /\ ch \in Channel /\ ch.conv \in Conv /\ FlagsOK(ch) /\ ~Answered(ch)
  BY <1>0, <1>1, SlotFacts
<1>3. ASSUME NEW new, new \in Channel, FlagsOK(new),
             new.conv = ch.conv, ~new.await_open, ~new.initconn,
             new.sent_close = ch.sent_close, new.recv_close = ch.recv_close,
             ~ch.await_open, ~ch.initconn,
             Send(e, CheckPackets(new)), UNCHANGED <<begun, sent, rcvd>>,
             channels' = Put(channels, e, i, AfterCheck(new))
      PROVE  Faithful
  <2>. PICK ps : ps = CheckPackets(new)
    OBVIOUS
  <2>1. ps \in Seq(PacketSet) /\ \A q \in Msgs(ps) : q.t # "DATA"
    BY <1>3, CheckPacketsFacts
  <2>2. Counted'
    BY <2>1, <1>3, Counts
  <2>3. Answered(new) => ch.recv_close
    BY <1>3 DEF Answered
  <2>4. /\ Heard'
        /\ \/ StateNow' = StateNow
           \/ \E s : May(e, ch.conv, s) /\ Moved(e, ch.conv, s)
    BY <2>3, <1>1, <1>3, Checked
  <2>. QED  BY <2>2, <2>4, <1>2, <1>3, MovesAreFaithful
<1>4. ASSUME ReadEnds(e, i) PROVE Faithful
  <2>. PICK new : new = [ch EXCEPT !.reads = FALSE]
    OBVIOUS
  <2>1. /\ ch.reads /\ ~ch.await_open /\ Send(e, CheckPackets(new))
        /\ channels' = Put(channels, e, i, AfterCheck(new))
        /\ UNCHANGED <<begun, sent, rcvd>>
    BY <1>4 DEF ReadEnds, MayRead, Put
  <2>2. ~ch.initconn
    BY <2>1, <1>2 DEF FlagsOK
  <2>3. /\ new \in Channel
        /\ \A g \in {"conv", "remotechan", "await_open", "initconn",
                    "sent_eof", "recv_eof", "sent_close", "recv_close",
                    "writes", "pending"} : new[g] = ch[g]
        /\ ~new.reads
    BY <1>2 DEF Channel
  <2>4. FlagsOK(new)
    BY <2>1, <2>2, <2>3, <1>2 DEF FlagsOK
  <2>. QED  BY <2>1, <2>2, <2>3, <2>4, <1>3
<1>5. ASSUME Write(e, i) PROVE Faithful
  <2>1. PICK fails \in BOOLEAN :
          /\ ch.pending
          /\ LET new == [ch EXCEPT !.pending = FALSE, !.writes = ~fails]
             IN  /\ Send(e, CheckPackets(new))
                 /\ channels' = Put(channels, e, i, AfterCheck(new))
          /\ UNCHANGED <<begun, sent, rcvd>>
    BY <1>5 DEF Write, Put
  <2>. PICK new : new = [ch EXCEPT !.pending = FALSE, !.writes = ~fails]
    OBVIOUS
  <2>2. /\ Send(e, CheckPackets(new))
        /\ channels' = Put(channels, e, i, AfterCheck(new))
    BY <2>1
  <2>3. ~ch.await_open /\ ~ch.initconn /\ ch.writes /\ ~ch.sent_close
    BY <2>1, <1>2 DEF FlagsOK
  <2>4. /\ new \in Channel
        /\ \A g \in {"conv", "remotechan", "await_open", "initconn",
                    "sent_eof", "recv_eof", "sent_close", "recv_close",
                    "reads"} : new[g] = ch[g]
        /\ ~new.pending
    BY <1>2 DEF Channel
  <2>5. FlagsOK(new)
    BY <2>3, <2>4, <1>2 DEF FlagsOK
  <2>. QED  BY <2>1, <2>2, <2>3, <2>4, <2>5, <1>3
<1>. QED  BY <1>4, <1>5

LEMMA QuietFaithful ==
    ASSUME RInv, Counted', UNCHANGED <<channels, begun, sent, rcvd>>
    PROVE  Faithful
<1>1. Heard'
  BY HeardStays DEF RInv
<1>2. Unseen
  BY NothingPut DEF Unseen
<1>. QED  BY <1>1, <1>2 DEF Faithful

\* send_msg_keepalive(), ignore_recv_response()
LEMMA KeepaliveFaithful ==
    ASSUME RInv, NEW e \in End, Keepalive(e) \/ RecvReply(e)
    PROVE  Faithful
<1>0. IInv
  BY DEF RInv
<1>1. CASE Keepalive(e)
  <2>1. PICK i \in FirstReady(e) :
          Send(e, <<Packet("REQUEST", channels[e][i].remotechan,
                           channels[e][i].conv)>>)
    BY <1>1 DEF Keepalive
  <2>2. PICK ch : ch = channels[e][i]
    OBVIOUS
  <2>3. i \in Occupied(e)
    BY DEF FirstReady, Ready
  <2>4. ch.remotechan \in Index /\ ch.conv \in Conv
    BY <2>2, <2>3, <1>0, SlotFacts
  <2>5. PICK q : q = Packet("REQUEST", ch.remotechan, ch.conv)
    OBVIOUS
  <2>6. q \in PacketSet /\ q.t = "REQUEST"
    BY <2>4, <2>5, PacketsMade
  <2>7. PICK ps : ps = <<q>>
    OBVIOUS
  <2>8. ps \in Seq(PacketSet) /\ Msgs(ps) = {q}
    BY <2>6, <2>7, Short
  <2>9. Send(e, ps) /\ UNCHANGED <<channels, begun, sent, rcvd>>
    BY <2>1, <2>2, <2>5, <2>7, <1>1 DEF Keepalive
  <2>10. Counted'
    BY <2>6, <2>8, <2>9, Counts
  <2>. QED  BY <2>9, <2>10, QuietFaithful
<1>2. CASE RecvReply(e)
  <2>1. PICK ps : ps = <<>>
    OBVIOUS
  <2>2. ps \in Seq(PacketSet) /\ \A q \in Msgs(ps) : q.t # "DATA"
    BY <2>1 DEF Msgs
  <2>3. /\ net[e] # <<>> /\ Head(net[e]).t # "DATA" /\ Reply(e, ps)
        /\ UNCHANGED <<channels, begun, sent, rcvd>>
    BY <2>1, <1>2 DEF RecvReply, Arrives
  <2>4. Counted'
    BY <2>2, <2>3, Counts
  <2>. QED  BY <2>3, <2>4, QuietFaithful
<1>. QED  BY <1>1, <1>2

\* A channel is put back with the state it had.
LEMMA Restored ==
    ASSUME RInv, NEW e \in End, NEW i \in Occupied(e), NEW ch,
           ch = channels[e][i], NEW new \in Channel,
           \A g \in {"conv", "await_open", "initconn", "sent_close"} :
              new[g] = ch[g],
           channels' = Put(channels, e, i, new), begun' = begun
    PROVE  Heard' /\ StateNow' = StateNow
<1>. PICK c : c = ch.conv
  OBVIOUS
<1>0. IInv /\ Heard
  BY DEF RInv
<1>1. /\ i \in Index /\ ch \in Channel /\ c \in Conv
      /\ i \in Slots(channels, e, c)
      /\ ConvInv(channels, Mail(c), Begun(c), c)
  BY <1>0, SlotFacts
<1>2. Slots(channels, e, c) \subseteq {i}
  BY <1>1 DEF ConvInv, EndInv
<1>3. new # NoChan /\ new.conv = c
  BY NoChanAssumption
<1>4. Moved(e, c, Phase(new))
  <2>1. \A x \in End, d \in Conv :
           x # e \/ d # c => (d \in begun'[x] <=> d \in begun[x])
    OBVIOUS
  <2>2. Moved(e, c, IF new # NoChan THEN Phase(new)
                    ELSE IF c \in begun'[e] THEN "down" ELSE "none")
    BY <2>1, <1>0, <1>1, <1>2, <1>3, Shift
  <2>. QED  BY <2>2, <1>3
<1>5. Phase(new) = Phase(ch)
  BY <1>1, PhaseFacts
<1>6. StateNow[e][c] = Phase(ch)
  BY <1>0, <1>1, StateIs
<1>7. StateNow' = StateNow
  BY <1>1, <1>4, <1>5, <1>6, StaysPut
<1>8. Heard'
  <2>1. ~new.await_open => new.conv \in begun'[Peer(e)]
    BY <1>0 DEF Heard
  <2>. QED  BY <2>1, <1>1, HeardStep
<1>. QED  BY <1>7, <1>8

\* recv_msg_channel_request()
LEMMA RequestFaithful ==
    ASSUME RInv, NEW e \in End, RecvRequest(e)
    PROVE  Faithful
<1>. PICK p : p = Head(net[e])
  OBVIOUS
<1>. PICK i : i = p.chan
  OBVIOUS
<1>. PICK ch : ch = channels[e][i]
  OBVIOUS
<1>. PICK q : q = Packet("FAILURE", ch.remotechan, ch.conv)
  OBVIOUS
<1>. PICK ps : ps = IF ch.sent_close THEN <<>> ELSE <<q>>
  OBVIOUS
<1>0. IInv
  BY DEF RInv
<1>1. net[e] # <<>> /\ p.t = "REQUEST"
  BY DEF RecvRequest, Arrives
<1>2. i \in Occupied(e) /\ Found(e) /\ Reached(e) = i
  BY <1>0, <1>1, BodyHead DEF BodyType
<1>3. ch \in Channel /\ ch.conv \in Conv /\ ch.remotechan \in Index
  BY <1>0, <1>2, SlotFacts
<1>4. /\ channels' = Put(channels, e, i, ch) /\ Reply(e, ps)
      /\ UNCHANGED <<begun, sent, rcvd>>
  BY <1>2 DEF RecvRequest, Handle, Put
<1>5. q \in PacketSet /\ q.t = "FAILURE"
  <2>. PICK d : d = ch.conv
    OBVIOUS
  <2>. PICK r : r = ch.remotechan
    OBVIOUS
  <2>1. q = Packet("FAILURE", r, d)
    OBVIOUS
  <2>2. d \in Conv /\ r \in Index
    BY <1>3
  <2>. QED  BY ONLY <2>1, <2>2, PacketMade
<1>6. ps \in Seq(PacketSet) /\ \A m \in Msgs(ps) : m.t # "DATA"
  <2>1. CASE ch.sent_close
    <3>1. ps = <<>>
      BY <2>1
    <3>2. ps \in Seq(PacketSet) /\ Msgs(ps) = {}
      BY <3>1, <1>5, Short
    <3>. QED  BY <3>2
  <2>2. CASE ~ch.sent_close
    <3>1. ps = <<q>>
      BY <2>2
    <3>2. ps \in Seq(PacketSet) /\ Msgs(ps) = {q}
      BY <3>1, <1>5, Short
    <3>. QED  BY <3>2, <1>5
  <2>. QED  BY <2>1, <2>2
<1>7. Counted'
  BY <1>1, <1>4, <1>6, Counts
<1>8. Heard' /\ StateNow' = StateNow
  BY <1>2, <1>3, <1>4, Restored
<1>. QED  BY <1>4, <1>7, <1>8 DEF Faithful, Unseen

\* recv_msg_channel_data()
LEMMA DataFaithful ==
    ASSUME RInv, NEW e \in End, RecvData(e)
    PROVE  Faithful
<1>. PICK p : p = Head(net[e])
  OBVIOUS
<1>. PICK i : i = p.chan
  OBVIOUS
<1>. PICK ch : ch = channels[e][i]
  OBVIOUS
<1>. PICK c : c = ch.conv
  OBVIOUS
<1>. PICK new : new = [ch EXCEPT !.pending = @ \/ ch.writes]
  OBVIOUS
<1>. PICK ps : ps = <<>>
  OBVIOUS
<1>f. Peer(e) \in End /\ Peer(e) # e
  BY PeerFacts
<1>0. IInv /\ TypeOK /\ Counted
  BY DEF RInv, IInv
<1>1. net[e] # <<>> /\ p.t = "DATA" /\ net[e] \in Seq(PacketSet)
  BY <1>0 DEF RecvData, Arrives, TypeOK
<1>2. /\ i \in Occupied(e) /\ Found(e) /\ Reached(e) = i /\ c = p.conv
      /\ ~ch.await_open /\ ~ch.initconn /\ ~ch.recv_eof
  BY <1>0, <1>1, BodyHead DEF BodyType
<1>3. ch \in Channel /\ c \in Conv /\ i \in Slots(channels, e, c)
  BY <1>0, <1>2, SlotFacts
<1>4. /\ channels' = Put(channels, e, i, new) /\ Reply(e, ps)
      /\ UNCHANGED <<begun, sent>>
      /\ rcvd' = [rcvd EXCEPT ![e][c] = @ + 1]
  BY <1>2 DEF RecvData, Handle, Put
<1>5. /\ new \in Channel
      /\ \A g \in {"conv", "await_open", "initconn", "sent_close"} :
            new[g] = ch[g]
  <2>1. ch.pending \in BOOLEAN /\ ch.writes \in BOOLEAN
    BY ONLY <1>3 DEF Channel
  <2>2. PICK b \in BOOLEAN : b = (ch.pending \/ ch.writes)
    BY ONLY <2>1
  <2>3. new = [ch EXCEPT !.pending = ch.pending \/ ch.writes]
    OBVIOUS
  <2>4. new = [ch EXCEPT !.pending = b]
    BY ONLY <2>2, <2>3
  <2>5. new \in Channel
    BY ONLY <1>3, <2>4, b \in BOOLEAN DEF Channel
  <2>6. /\ new.conv = ch.conv /\ new.await_open = ch.await_open
        /\ new.initconn = ch.initconn /\ new.sent_close = ch.sent_close
    BY ONLY <1>3, <2>4 DEF Channel
  <2>. QED  BY ONLY <2>5, <2>6
<1>6. Heard' /\ StateNow' = StateNow
  <2>1. /\ RInv /\ i \in Occupied(e) /\ ch = channels[e][i]
        /\ channels' = Put(channels, e, i, new) /\ begun' = begun
    BY <1>2, <1>4
  <2>. QED  BY ONLY <2>1, <1>5, Restored, e \in End
<1>7. rcvd \in [End -> [Conv -> Nat]]
  BY <1>0 DEF TypeOK
<1>8. \A d \in Conv : Amount(<<p>>, d) = IF d = c THEN 1 ELSE 0
  BY <1>1, <1>2, AmountOne
<1>9. Counted'
  <2>1. ps \in Seq(PacketSet) /\ \A q \in Msgs(ps) : q.t # "DATA"
    <3>1. ps = <<>>
      OBVIOUS
    <3>. QED  BY ONLY <3>1, NothingSent
  <2>2. \A d \in Conv : rcvd'[e][d] = rcvd[e][d] + Amount(<<p>>, d)
    <3>1. \A d \in Conv : rcvd'[e][d] = IF d = c THEN rcvd[e][d] + 1 ELSE rcvd[e][d]
      <4>1. rcvd' = [rcvd EXCEPT ![e][c] = rcvd[e][c] + 1]
        BY <1>4
      <4>2. PICK R : R = rcvd
        OBVIOUS
      <4>3. PICK S : S = rcvd'
        OBVIOUS
      <4>4. R \in [End -> [Conv -> Nat]] /\ c \in Conv
        BY <1>3, <1>7, <4>2
      <4>5. PICK v : v = R[e][c] + 1
        OBVIOUS
      <4>6. S = [R EXCEPT ![e][c] = v]
        BY <4>1, <4>2, <4>3, <4>5
      <4>7. S[e] = [R[e] EXCEPT ![c] = v]
        BY ONLY <4>4, <4>6, e \in End
      <4>8. R[e] \in [Conv -> Nat]
        BY ONLY <4>4, e \in End
      <4>9. \A d \in Conv : S[e][d] = IF d = c THEN v ELSE R[e][d]
        BY ONLY <4>4, <4>7, <4>8
      <4>. QED  BY ONLY <4>2, <4>3, <4>5, <4>9
    <3>2. \A d \in Conv : rcvd[e][d] \in Nat
      BY <1>7
    <3>3. ASSUME NEW d \in Conv
          PROVE  rcvd'[e][d] = rcvd[e][d] + Amount(<<p>>, d)
      <4>1. PICK a : a = Amount(<<p>>, d)
        OBVIOUS
      <4>2. a = IF d = c THEN 1 ELSE 0
        BY ONLY <1>8, <4>1, d \in Conv
      <4>3. /\ rcvd'[e][d] = IF d = c THEN rcvd[e][d] + 1 ELSE rcvd[e][d]
            /\ rcvd[e][d] \in Nat
        BY ONLY <3>1, <3>2, d \in Conv
      <4>4. rcvd'[e][d] = rcvd[e][d] + a
        BY ONLY <4>2, <4>3
      <4>. QED  BY ONLY <4>1, <4>4
    <3>. QED  BY ONLY <3>3
  <2>3. \A d \in Conv : rcvd'[Peer(e)][d] = rcvd[Peer(e)][d]
    <3>1. rcvd'[Peer(e)] = rcvd[Peer(e)]
      BY ONLY <1>4, <1>7, <1>f, e \in End
    <3>. QED  BY ONLY <3>1
  <2>. QED  BY <2>1, <2>2, <2>3, <1>0, <1>1, <1>4, ReplyCounts
<1>10. rcvd[e][c] < sent[Peer(e)][c]
  <2>1. Amount(net[e], c) = Amount(<<p>>, c) + Amount(Tail(net[e]), c)
    BY <1>1, AmountPopped
  <2>2. Tail(net[e]) \in Seq(PacketSet)
    BY <1>1, HeadTailProperties
  <2>3. Amount(Tail(net[e]), c) \in Nat /\ Amount(<<p>>, c) = 1
    BY <2>2, <1>3, <1>8, AmountFacts
  <2>4. sent[Peer(e)][c] = rcvd[e][c] + Amount(net[e], c) /\ rcvd[e][c] \in Nat
    BY <1>0, <1>3, <1>7 DEF Counted
  <2>5. PICK r, n, t, a : /\ r = rcvd[e][c] /\ n = Amount(net[e], c)
                           /\ t = Amount(Tail(net[e]), c)
                           /\ a = sent[Peer(e)][c]
    OBVIOUS
  <2>6. r \in Nat /\ t \in Nat /\ n = 1 + t /\ a = r + n
    BY <2>1, <2>3, <2>4, <2>5
  <2>7. r < a
    BY ONLY <2>6
  <2>. QED  BY <2>5, <2>7
<1>11. StateNow[e][c] \in {"up", "closing"}
  <2>1. StateNow[e][c] = Phase(ch)
    BY <1>0, <1>3, StateIs
  <2>. QED  BY <2>1, <1>2, <1>3, PhaseFacts
<1>12. Conversation!Deliver(e, c)
  <2>1. Conversation!Peer(e) = Peer(e)
    BY DEF Conversation!Peer, Peer
  <2>. QED  BY <2>1, <1>4, <1>6, <1>10, <1>11 DEF Conversation!Deliver, StateNow
<1>13. Conversation!Next
  <2>1. e \in Conversation!End
    BY DEF Conversation!End, End
  <2>. QED  BY <2>1, <1>3, <1>12 DEF Conversation!Next
<1>. QED  BY <1>6, <1>9, <1>13 DEF Faithful

\* send_msg_channel_data()
LEMMA SendFaithful ==
    ASSUME RInv, NEW e \in End, NEW i \in Index, SendData(e, i)
    PROVE  Faithful
<1>. PICK ch : ch = channels[e][i]
  OBVIOUS
<1>. PICK c : c = ch.conv
  OBVIOUS
<1>. PICK D : D = Packet("DATA", ch.remotechan, c)
  OBVIOUS
<1>. PICK ps : ps = CheckPackets(ch)
  OBVIOUS
<1>. PICK d1 : d1 = <<D>>
  OBVIOUS
<1>f. Peer(e) \in End /\ Peer(e) # e
  BY PeerFacts
<1>0. IInv /\ TypeOK /\ Counted
  BY DEF RInv, IInv
<1>1. i \in Occupied(e)
  BY DEF SendData, MayRead
<1>2. /\ ch \in Channel /\ c \in Conv /\ FlagsOK(ch) /\ ~Answered(ch)
      /\ ch.remotechan \in Index /\ i \in Slots(channels, e, c)
  BY <1>0, <1>1, SlotFacts
<1>3. /\ ch.reads /\ ~ch.await_open
      /\ sent' = [sent EXCEPT ![e][c] = @ + 1]
      /\ Send(e, d1 \o ps)
      /\ channels' = Put(channels, e, i, AfterCheck(ch))
      /\ UNCHANGED <<begun, rcvd>>
  BY DEF SendData, MayRead, Put
<1>4. ~ch.initconn /\ ~ch.sent_eof /\ ~ch.sent_close
  BY <1>2, <1>3 DEF FlagsOK
<1>5. D \in PacketSet /\ D.conv = c /\ D.t = "DATA"
  BY <1>2, PacketsMade
<1>6. d1 \in Seq(PacketSet) /\ ps \in Seq(PacketSet)
      /\ \A q \in Msgs(ps) : q.t # "DATA"
  BY <1>2, <1>5, CheckPacketsFacts
<1>7. \A d \in Conv : Amount(d1 \o ps, d) = IF d = c THEN 1 ELSE 0
  <2>1. ASSUME NEW d \in Conv
        PROVE  Amount(d1 \o ps, d) = IF d = c THEN 1 ELSE 0
    <3>1. Amount(d1 \o ps, d) = Amount(d1, d) + Amount(ps, d)
      <4>1. d1 \in Seq(PacketSet) /\ ps \in Seq(PacketSet)
        BY <1>6
      <4>2. \A x, y \in Seq(PacketSet) : Amount(x \o y, d) = Amount(x, d) + Amount(y, d)
        BY AmountJoined
      <4>. QED  BY <4>1, <4>2
    <3>2. Amount(ps, d) = 0 /\ Amount(d1, d) = IF d = c THEN 1 ELSE 0
      BY <1>5, <1>6, AmountNone, AmountOne
    <3>. QED  BY <3>1, <3>2
  <2>. QED  BY <2>1
<1>8. sent \in [End -> [Conv -> Nat]]
  BY <1>0 DEF TypeOK
<1>9. Counted'
  <2>1. PICK qs : qs = d1 \o ps
    OBVIOUS
  <2>2. qs \in Seq(PacketSet)
    BY <2>1, <1>6
  <2>3. \A d \in Conv : sent'[e][d] = sent[e][d] + Amount(qs, d)
    <3>1. \A d \in Conv : sent'[e][d] = IF d = c THEN sent[e][d] + 1 ELSE sent[e][d]
      BY <1>2, <1>3, <1>8
    <3>2. \A d \in Conv : sent[e][d] \in Nat
      BY <1>8
    <3>. QED  BY <3>1, <3>2, <2>1, <1>7
  <2>4. \A d \in Conv : sent'[Peer(e)][d] = sent[Peer(e)][d]
    BY <1>2, <1>3, <1>8, <1>f
  <2>5. Send(e, qs) /\ rcvd' = rcvd
    BY <2>1, <1>3
  <2>. QED  BY ONLY <2>2, <2>3, <2>4, <2>5, <1>0, SendCounts, e \in End
<1>10. Heard' /\ StateNow' = StateNow
  <2>1. Closing(ch).sent_close = ch.sent_close
    <3>1. Closed(ch, Closing(ch))
      BY <1>2, ClosingCloses
    <3>. QED  BY <3>1, <1>2, <1>3 DEF Closed, Channel
  <2>. QED  BY <2>1, <1>1, <1>2, <1>3, <1>4, Checked
<1>11. StateNow[e][c] = "up"
  <2>1. StateNow[e][c] = Phase(ch)
    BY <1>0, <1>2, StateIs
  <2>. QED  BY <2>1, <1>2, <1>3, <1>4, PhaseFacts
<1>12. Conversation!Send(e, c)
  BY <1>3, <1>10, <1>11 DEF Conversation!Send, StateNow
<1>13. Conversation!Next
  <2>1. e \in Conversation!End
    BY DEF Conversation!End, End
  <2>. QED  BY <2>1, <1>2, <1>12 DEF Conversation!Next
<1>. QED  BY <1>9, <1>10, <1>13 DEF Faithful

\* A channel changes its state, or is removed, or is new in the table.
LEMMA Shifted ==
    ASSUME RInv, NEW e \in End, NEW i \in Index, NEW c \in Conv, NEW new, NEW s,
           new = NoChan \/ (new \in Channel /\ new.conv = c),
           channels[e][i] # NoChan => channels[e][i].conv = c,
           Slots(channels, e, c) \subseteq {i},
           channels' = Put(channels, e, i, new),
           \A x \in End : begun[x] \subseteq begun'[x],
           \A x \in End, d \in Conv :
              x # e \/ d # c => (d \in begun'[x] <=> d \in begun[x]),
           new # NoChan /\ ~new.await_open => c \in begun'[Peer(e)],
           s = IF new # NoChan THEN Phase(new)
               ELSE IF c \in begun'[e] THEN "down" ELSE "none",
           May(e, c, s), Counted', UNCHANGED <<sent, rcvd>>
    PROVE  Faithful
<1>0. IInv
  BY DEF RInv
<1>1. Moved(e, c, IF new # NoChan THEN Phase(new)
                  ELSE IF c \in begun'[e] THEN "down" ELSE "none")
  BY <1>0, Shift
<1>2. Moved(e, c, s)
  BY <1>1
<1>3. Heard'
  <2>1. new # NoChan /\ ~new.await_open => new.conv \in begun'[Peer(e)]
    OBVIOUS
  <2>. QED  BY <2>1, HeardStep
<1>. QED  BY <1>2, <1>3, MovesAreFaithful

\* recv_msg_channel_open_confirmation()
LEMMA ConfirmationFaithful ==
    ASSUME RInv, NEW e \in End, RecvConfirmation(e)
    PROVE  Faithful
<1>. PICK p : p = Head(net[e])
  OBVIOUS
<1>. PICK i : i = p.chan
  OBVIOUS
<1>. PICK c : c = p.conv
  OBVIOUS
<1>. PICK ch : ch = channels[e][i]
  OBVIOUS
<1>. PICK new : new = Established(ch, p)
  OBVIOUS
<1>. PICK ps : ps = <<>>
  OBVIOUS
<1>. PICK f : f = Peer(e)
  OBVIOUS
<1>f. f \in End /\ f # e
  BY PeerFacts
<1>0. IInv
  BY DEF RInv
<1>1. net[e] # <<>> /\ p.t = "CONFIRMATION"
  BY DEF RecvConfirmation, Arrives
<1>2. /\ p \in Mail(c)[e] /\ MailOK(channels, Mail(c), Begun(c), c, e, p)
      /\ p \in PacketSet /\ c \in Conv /\ p.from \in Index
      /\ i \in Index /\ i \in Slots(channels, e, c)
      /\ Found(e) /\ Reached(e) = i
  BY <1>0, <1>1, HeadFacts, PacketFacts
<1>3. /\ i \in Occupied(e) /\ ch.conv = c /\ ch.await_open
      /\ p.from \in Slots(channels, f, c)
      /\ ~channels[f][p.from].await_open /\ ~channels[f][p.from].initconn
  BY <1>1, <1>2 DEF MailOK, Slots, Occupied
<1>4. /\ ch \in Channel /\ FlagsOK(ch)
      /\ ConvInv(channels, Mail(c), Begun(c), c)
  BY <1>0, <1>3, SlotFacts
<1>5. /\ channels' = Put(channels, e, i, new) /\ Reply(e, ps)
      /\ UNCHANGED <<begun, sent, rcvd>>
  BY <1>2, <1>3 DEF RecvConfirmation, Handle, Put
<1>6. /\ new \in Channel /\ ~new.await_open
      /\ \A g \in {"conv", "initconn", "sent_close"} : new[g] = ch[g]
  BY <1>2, <1>4 DEF Established, Channel
<1>7. Phase(new) = "up"
  BY <1>3, <1>4, <1>6, PhaseFacts DEF FlagsOK
<1>8. StateNow[e][c] = "asking"
  <2>1. ch = channels[e][i]
    OBVIOUS
  <2>2. StateNow[e][c] = Phase(ch)
    BY ONLY <2>1, <1>0, <1>2, StateIs, e \in End
  <2>3. Phase(ch) = "asking"
    BY ONLY <1>3, <1>4, PhaseFacts
  <2>. QED  BY ONLY <2>2, <2>3
<1>9. StateNow[f][c] \in {"up", "closing"}
  <2>1. PICK s : s = channels[f][p.from]
    OBVIOUS
  <2>2. StateNow[f][c] = Phase(s)
    BY <2>1, <1>0, <1>2, <1>3, <1>f, StateIs
  <2>3. s \in Channel
    BY <2>1, <1>0, <1>3, <1>f DEF Slots, IInv, TypeOK
  <2>. QED  BY <2>1, <2>2, <2>3, <1>3, PhaseFacts
<1>10. May(e, c, "up")
  BY <1>8, <1>9 DEF May
<1>11. Counted'
  <2>1. ps \in Seq(PacketSet) /\ \A q \in Msgs(ps) : q.t # "DATA"
    <3>1. ps = <<>>
      OBVIOUS
    <3>. QED  BY ONLY <3>1, NothingSent
  <2>. QED  BY <2>1, <1>1, <1>5, Counts
<1>12. Slots(channels, e, c) \subseteq {i}
  BY <1>2, <1>4 DEF ConvInv, EndInv
<1>13. c \in begun[f]
  <2>1. f \in Begun(c)
    BY <1>3, <1>4, <1>f DEF ConvInv, EndInv
  <2>. QED  BY <2>1 DEF Begun
<1>14. /\ new # NoChan /\ new.conv = c
       /\ \A x \in End : begun[x] \subseteq begun'[x]
       /\ \A x \in End, d \in Conv :
             x # e \/ d # c => (d \in begun'[x] <=> d \in begun[x])
       /\ c \in begun'[Peer(e)] /\ channels[e][i].conv = c
  BY <1>3, <1>5, <1>6, <1>13, NoChanAssumption
<1>. QED  BY <1>2, <1>5, <1>6, <1>7, <1>10, <1>11, <1>12, <1>14, Shifted

\* recv_msg_channel_open_failure()
LEMMA FailureFaithful ==
    ASSUME RInv, NEW e \in End, RecvFailure(e)
    PROVE  Faithful
<1>. PICK p : p = Head(net[e])
  OBVIOUS
<1>. PICK i : i = p.chan
  OBVIOUS
<1>. PICK c : c = p.conv
  OBVIOUS
<1>. PICK ch : ch = channels[e][i]
  OBVIOUS
<1>. PICK ps : ps = <<>>
  OBVIOUS
<1>. PICK f : f = Peer(e)
  OBVIOUS
<1>f. f \in End /\ f # e
  BY PeerFacts
<1>0. IInv
  BY DEF RInv
<1>1. net[e] # <<>> /\ p.t = "OPEN_FAILURE"
  BY DEF RecvFailure, Arrives
<1>2. /\ p \in Mail(c)[e] /\ MailOK(channels, Mail(c), Begun(c), c, e, p)
      /\ c \in Conv /\ i \in Index /\ i \in Slots(channels, e, c)
      /\ Found(e) /\ Reached(e) = i
  BY <1>0, <1>1, HeadFacts
<1>3. /\ i \in Occupied(e) /\ ch.conv = c /\ ch.await_open
      /\ Slots(channels, f, c) = {}
  BY <1>1, <1>2 DEF MailOK, Slots, Occupied
<1>4. ch \in Channel /\ ConvInv(channels, Mail(c), Begun(c), c)
  BY <1>0, <1>3, SlotFacts
<1>5. /\ channels' = Put(channels, e, i, NoChan) /\ Reply(e, ps)
      /\ UNCHANGED <<begun, sent, rcvd>>
  BY <1>2, <1>3 DEF RecvFailure, Handle, Put
<1>6. StateNow[e][c] = "asking"
  <2>1. ch = channels[e][i]
    OBVIOUS
  <2>2. StateNow[e][c] = Phase(ch)
    BY ONLY <2>1, <1>0, <1>2, StateIs, e \in End
  <2>3. Phase(ch) = "asking"
    BY ONLY <1>3, <1>4, PhaseFacts
  <2>. QED  BY ONLY <2>2, <2>3
<1>7. e \in Begun(c) /\ f \in Begun(c) /\ Slots(channels, e, c) \subseteq {i}
  BY <1>2, <1>4 DEF ConvInv, EndInv
<1>8. c \in begun[e] /\ c \in begun[f]
  BY <1>7 DEF Begun
<1>9. StateNow[f][c] = "down"
  BY <1>2, <1>3, <1>8, <1>f, StateNone
<1>10. May(e, c, "down")
  BY <1>6, <1>9 DEF May
<1>11. Counted'
  <2>1. ps \in Seq(PacketSet) /\ \A q \in Msgs(ps) : q.t # "DATA"
    <3>1. ps = <<>>
      OBVIOUS
    <3>. QED  BY ONLY <3>1, NothingSent
  <2>. QED  BY <2>1, <1>1, <1>5, Counts
<1>12. PICK new : new = NoChan
  OBVIOUS
<1>13. /\ \A x \in End : begun[x] \subseteq begun'[x]
       /\ \A x \in End, d \in Conv :
             x # e \/ d # c => (d \in begun'[x] <=> d \in begun[x])
       /\ c \in begun'[e] /\ channels[e][i].conv = c
       /\ channels' = Put(channels, e, i, new)
  BY <1>3, <1>5, <1>8, <1>12
<1>. QED  BY <1>2, <1>5, <1>7, <1>10, <1>11, <1>12, <1>13, Shifted

\* check_in_progress()
LEMMA ConnectFaithful ==
    ASSUME RInv, NEW e \in End, NEW i \in Index, CheckInProgress(e, i)
    PROVE  Faithful
<1>. PICK ch : ch = channels[e][i]
  OBVIOUS
<1>. PICK c, r : c = ch.conv /\ r = ch.remotechan
  OBVIOUS
<1>. PICK f : f = Peer(e)
  OBVIOUS
<1>f. f \in End /\ f # e
  BY PeerFacts
<1>0. IInv
  BY DEF RInv
<1>1. /\ i \in Occupied(e) /\ ch.initconn /\ UNCHANGED <<begun, sent, rcvd>>
  BY DEF CheckInProgress
<1>2. /\ ch \in Channel /\ c \in Conv /\ r \in Index /\ FlagsOK(ch)
      /\ i \in Slots(channels, e, c)
      /\ ConvInv(channels, Mail(c), Begun(c), c)
  BY <1>0, <1>1, SlotFacts
<1>3. /\ e \in Begun(c) /\ f \in Begun(c)
      /\ \A j \in Slots(channels, e, c) : j = i
  <2>1. PICK K, M, B : K = channels /\ M = Mail(c) /\ B = Begun(c)
    OBVIOUS
  <2>2. ConvInv(K, M, B, c) /\ i \in Slots(K, e, c) /\ K[e][i].initconn
    BY <2>1, <1>1, <1>2
  <2>3. e \in B /\ Peer(e) \in B
    BY <2>2, <1>f DEF ConvInv, EndInv, SlotOK
  <2>4. \A j \in Slots(K, e, c) : j = i
    BY <2>2 DEF ConvInv, EndInv
  <2>. QED  BY <2>1, <2>3, <2>4
<1>4. /\ Slots(channels, e, c) \subseteq {i}
      /\ \A x \in End : begun[x] \subseteq begun'[x]
      /\ \A x \in End, d \in Conv :
            x # e \/ d # c => (d \in begun'[x] <=> d \in begun[x])
      /\ c \in begun'[e] /\ c \in begun'[Peer(e)]
      /\ channels[e][i].conv = c
  BY <1>1, <1>3 DEF Begun
<1>5. StateNow[e][c] = "connecting"
  <2>1. ~ch.await_open
    BY <1>1, <1>2 DEF FlagsOK
  <2>. QED  BY <2>1, <1>0, <1>1, <1>2, StateIs, PhaseFacts
<1>6. May(e, c, "up") /\ May(e, c, "down")
  BY <1>5 DEF May
<1>7. ASSUME NEW q \in PacketSet, q.t # "DATA", Send(e, <<q>>)
      PROVE  Counted'
  <2>1. PICK ps : ps = <<q>>
    OBVIOUS
  <2>2. ps \in Seq(PacketSet) /\ Msgs(ps) = {q}
    BY <2>1, Short
  <2>3. Send(e, ps) /\ \A m \in Msgs(ps) : m.t # "DATA"
    BY <2>1, <2>2, <1>7
  <2>. QED  BY <2>2, <2>3, <1>1, Counts
<1>8. ASSUME channels' = [channels EXCEPT ![e][i] = Connected(ch)],
             Send(e, <<Opening("CONFIRMATION", r, i, c)>>)
      PROVE  Faithful
  <2>. PICK q : q = Opening("CONFIRMATION", r, i, c)
    OBVIOUS
  <2>. PICK new : new = Connected(ch)
    OBVIOUS
  <2>1. q \in PacketSet /\ q.t = "CONFIRMATION"
    BY <1>2, PacketsMade
  <2>2. Counted'
    BY <2>1, <1>7, <1>8
  <2>3. /\ new \in Channel /\ ~new.initconn
        /\ \A g \in {"conv", "await_open", "sent_close"} : new[g] = ch[g]
    BY <1>2 DEF Connected, Channel
  <2>4. channels' = Put(channels, e, i, new)
    BY <1>8 DEF Put
  <2>5. Phase(new) = "up" /\ new.conv = c /\ new # NoChan
    BY <2>3, <1>1, <1>2, PhaseFacts, NoChanAssumption DEF FlagsOK
  <2>. QED  BY <2>2, <2>3, <2>4, <2>5, <1>1, <1>2, <1>4, <1>6, Shifted
<1>9. ASSUME channels' = [channels EXCEPT ![e][i] = NoChan],
             Send(e, <<Packet("OPEN_FAILURE", r, c)>>)
      PROVE  Faithful
  <2>. PICK q : q = Packet("OPEN_FAILURE", r, c)
    OBVIOUS
  <2>. PICK new : new = NoChan
    OBVIOUS
  <2>1. q \in PacketSet /\ q.t = "OPEN_FAILURE"
    BY <1>2, PacketsMade
  <2>2. Counted'
    BY <2>1, <1>7, <1>9
  <2>3. channels' = Put(channels, e, i, new)
    BY <1>9 DEF Put
  <2>. QED  BY <2>2, <2>3, <1>1, <1>2, <1>4, <1>6, Shifted
<1>. QED  BY <1>8, <1>9 DEF CheckInProgress

\* An end hears of a conversation and does without a channel.
LEMMA GivenUp ==
    ASSUME RInv, NEW e \in End, NEW c \in Conv, Slots(channels, e, c) = {},
           \A x \in End : begun[x] \subseteq begun'[x],
           \A x \in End, d \in Conv :
              x # e \/ d # c => (d \in begun'[x] <=> d \in begun[x]),
           c \in begun'[e], May(e, c, "down"), Counted',
           UNCHANGED <<channels, sent, rcvd>>
    PROVE  Faithful
<1>1. \A x \in End, d \in Conv : SlotsOf(x, d)' = SlotsOf(x, d)
  BY DEF SlotsOf, Occupied
<1>2. SlotsOf(e, c) = {}
  BY DEF SlotsOf, Slots, Occupied
<1>3. StateOf(e, c)' = "down"
  BY <1>1, <1>2 DEF StateOf
<1>4. ASSUME NEW x \in End, NEW d \in Conv, x # e \/ d # c
      PROVE  StateOf(x, d)' = StateOf(x, d)
  <2>1. d \in begun'[x] <=> d \in begun[x]
    BY <1>4
  <2>2. SlotsOf(x, d)' = SlotsOf(x, d)
    BY <1>1
  <2>. QED  BY <2>1, <2>2 DEF StateOf, Phase
<1>5. Moved(e, c, "down")
  <2>1. StateNow' = [x \in End |-> [d \in Conv |-> StateOf(x, d)']]
    BY DEF StateNow
  <2>2. \A x \in End, d \in Conv :
           StateOf(x, d)' = IF x = e /\ d = c THEN "down" ELSE StateOf(x, d)
    BY <1>3, <1>4
  <2>. QED  BY <2>1, <2>2 DEF StateNow, Moved
<1>6. Heard'
  BY HeardStays DEF RInv
<1>. QED  BY <1>5, <1>6, MovesAreFaithful

\* tcp_acceptor()
LEMMA OpenFaithful ==
    ASSUME RInv, NEW e \in End, NEW c \in Conv, Open(e, c)
    PROVE  Faithful
<1>. PICK f : f = Peer(e)
  OBVIOUS
<1>f. f \in End /\ f # e /\ \A x \in End : x = e \/ x = f
  BY PeerFacts
<1>0. IInv /\ TypeOK /\ Counted
  BY DEF RInv, IInv
<1>1. /\ AcceptedBy[c] = e /\ e \notin Begun(c)
      /\ begun' = [begun EXCEPT ![e] = @ \cup {c}]
      /\ UNCHANGED <<sent, rcvd>>
  BY DEF Open, Begun
<1>2. ConvInv(channels, Mail(c), Begun(c), c)
  BY <1>0 DEF IInv
<1>3. /\ Slots(channels, e, c) = {} /\ Slots(channels, f, c) = {}
      /\ f \notin Begun(c)
  BY <1>1, <1>2, <1>f, Unheard
<1>4. StateNow[e][c] = "none" /\ StateNow[f][c] = "none"
  <2>1. c \notin begun[e] /\ c \notin begun[f]
    BY <1>1, <1>3, <1>f DEF Begun
  <2>. QED  BY <2>1, <1>3, <1>f, StateNone
<1>5. May(e, c, "asking") /\ May(e, c, "down")
  BY <1>4 DEF May
<1>6. begun \in [End -> SUBSET Conv]
  BY <1>0 DEF TypeOK
<1>7. /\ \A x \in End : begun[x] \subseteq begun'[x]
      /\ \A x \in End, d \in Conv :
            x # e \/ d # c => (d \in begun'[x] <=> d \in begun[x])
      /\ c \in begun'[e]
  BY <1>1, <1>6
<1>8. ASSUME UNCHANGED <<channels, chansize, net>>
      PROVE  Faithful
  <2>1. Counted'
    BY <1>0, <1>1, <1>8 DEF Counted
  <2>. QED  BY <2>1, <1>1, <1>3, <1>5, <1>7, <1>8, GivenUp
<1>9. ASSUME NEW i \in NewIndex(e),
             channels' = [channels EXCEPT ![e][i] =
               [Connected(NewChannel(c, 0)) EXCEPT !.await_open = TRUE]],
             Send(e, <<OpenPacket(i, c)>>)
      PROVE  Faithful
  <2>. PICK p : p = OpenPacket(i, c)
    OBVIOUS
  <2>n. PICK new : new = [Connected(NewChannel(c, 0)) EXCEPT !.await_open = TRUE]
    OBVIOUS
  <2>. PICK ps : ps = <<p>>
    OBVIOUS
  <2>1. i \in Index /\ channels[e][i] = NoChan
    BY <1>0, NewIndexFacts
  <2>2. p \in PacketSet /\ p.t = "OPEN"
    BY <2>1, PacketsMade
  <2>3. ps \in Seq(PacketSet) /\ Msgs(ps) = {p}
    BY <2>2, Short
  <2>4. Send(e, ps) /\ \A q \in Msgs(ps) : q.t # "DATA"
    BY <2>2, <2>3, <1>9
  <2>5. Counted'
    BY <2>3, <2>4, <1>1, Counts
  <2>6. new \in Channel /\ new.conv = c /\ new.await_open
    <3>1. 0 \in Index
      <4>1. MAX_CHANNELS \in Nat \ {0} /\ CHAN_EXTEND_SIZE \in Nat \ {0}
        BY ChannelTableAssumption
      <4>. QED  BY <4>1 DEF Index
    <3>2. PICK z \in Index : z = 0
      BY <3>1
    <3>3. PICK n : n = NewChannel(c, z)
      OBVIOUS
    <3>4. n \in Channel /\ n.conv = c
      BY <3>3, NewFacts
    <3>5. new = [Connected(n) EXCEPT !.await_open = TRUE]
      BY <3>2, <3>3, <2>n
    <3>. QED  BY <3>4, <3>5 DEF Connected, Channel
  <2>7. channels' = Put(channels, e, i, new)
    BY <1>9, <2>n DEF Put
  <2>8. Phase(new) = "asking" /\ new # NoChan
    BY <2>6, PhaseFacts, NoChanAssumption
  <2>9. Slots(channels, e, c) \subseteq {i}
    BY <1>3
  <2>. QED  BY <2>1, <2>5, <2>6, <2>7, <2>8, <2>9, <1>1, <1>5, <1>7, Shifted
<1>. QED  BY <1>8, <1>9 DEF Open

\* recv_msg_channel_open()
LEMMA OpenPacketFaithful ==
    ASSUME RInv, NEW e \in End, RecvOpen(e)
    PROVE  Faithful
<1>p. PICK p : p = Head(net[e])
  OBVIOUS
<1>c. PICK c : c = p.conv
  OBVIOUS
<1>. PICK f : f = Peer(e)
  OBVIOUS
<1>f. f \in End /\ f # e /\ \A x \in End : x = e \/ x = f
  BY PeerFacts
<1>0. IInv /\ TypeOK
  BY DEF RInv, IInv
<1>1. /\ net[e] # <<>> /\ p.t = "OPEN"
      /\ begun' = [begun EXCEPT ![e] = @ \cup {c}]
      /\ UNCHANGED <<sent, rcvd>>
  BY <1>p, <1>c DEF RecvOpen, Arrives
<1>2. p \in PacketSet /\ c \in Conv /\ p.from \in Index /\ p \in Mail(c)[e]
  BY <1>0, <1>1, <1>p, <1>c, HeadFacts, PacketFacts
<1>3. /\ e \notin Begun(c) /\ f \in Begun(c) /\ Slots(channels, e, c) = {}
      /\ p.from \in Slots(channels, f, c) /\ channels[f][p.from].await_open
  <2>1. PICK K, M, B : K = channels /\ M = Mail(c) /\ B = Begun(c)
    OBVIOUS
  <2>2. p \in M[e] /\ p.t = "OPEN" /\ ConvInv(K, M, B, c)
    BY <2>1, <1>0, <1>1, <1>2 DEF IInv
  <2>3. WasAsked(K, M, B, c, e, p)
    BY ONLY <2>2, AskedFor, e \in End
  <2>. QED  BY <2>1, <2>3 DEF WasAsked
<1>4. StateNow[e][c] = "none" /\ StateNow[f][c] = "asking"
  <2>1. c \notin begun[e]
    BY <1>3 DEF Begun
  <2>2. channels[f][p.from] \in Channel
    BY <1>0, <1>3, <1>f DEF Slots, IInv, TypeOK
  <2>3. StateNow[f][c] = Phase(channels[f][p.from])
    BY <1>0, <1>2, <1>3, <1>f, StateIs
  <2>. QED  BY <2>1, <2>2, <2>3, <1>2, <1>3, StateNone, PhaseFacts
<1>5. May(e, c, "up") /\ May(e, c, "connecting") /\ May(e, c, "down")
  BY <1>4 DEF May
<1>6. begun \in [End -> SUBSET Conv]
  BY <1>0 DEF TypeOK
<1>7. /\ \A x \in End : begun[x] \subseteq begun'[x]
      /\ \A x \in End, d \in Conv :
            x # e \/ d # c => (d \in begun'[x] <=> d \in begun[x])
      /\ c \in begun'[e] /\ c \in begun'[Peer(e)]
  BY <1>1, <1>2, <1>3, <1>6, <1>f DEF Begun
<1>8. ASSUME NEW ps \in Seq(PacketSet), Reply(e, ps),
             \A q \in Msgs(ps) : q.t # "DATA"
      PROVE  Counted'
  BY <1>1, <1>p, <1>8, Counts
<1>9. ASSUME NEW q \in PacketSet, q.t # "DATA", Reply(e, <<q>>)
      PROVE  Counted'
  <2>1. PICK ps : ps = <<q>>
    OBVIOUS
  <2>2. ps \in Seq(PacketSet) /\ Msgs(ps) = {q}
    BY <2>1, Short
  <2>3. Reply(e, ps) /\ \A m \in Msgs(ps) : m.t # "DATA"
    BY <2>1, <2>2, <1>9
  <2>. QED  BY <2>2, <2>3, <1>8
<1>10. ASSUME Reply(e, Refusal(p)), channels' = channels
       PROVE  Faithful
  <2>1. PICK q : q = Packet("OPEN_FAILURE", p.from, p.conv)
    OBVIOUS
  <2>2. q \in PacketSet /\ q.t = "OPEN_FAILURE" /\ Reply(e, <<q>>)
    BY <2>1, <1>2, <1>c, <1>10, PacketsMade DEF Refusal
  <2>3. Counted'
    BY <2>2, <1>9
  <2>. QED  BY <2>3, <1>1, <1>2, <1>3, <1>5, <1>7, <1>10, GivenUp
<1>11. ASSUME NEW i \in NewIndex(e), NEW new \in Channel, new.conv = c,
              ~new.await_open, ~new.sent_close,
              channels' = [channels EXCEPT ![e][i] = new], Counted'
       PROVE  Faithful
  <2>1. i \in Index /\ channels[e][i] = NoChan
    BY <1>0, NewIndexFacts
  <2>2. channels' = Put(channels, e, i, new)
    BY <1>11 DEF Put
  <2>3. new # NoChan /\ Phase(new) \in {"up", "connecting"}
    BY <1>11, PhaseFacts, NoChanAssumption
  <2>4. PICK s : s = Phase(new)
    OBVIOUS
  <2>5. May(e, c, s) /\ Slots(channels, e, c) \subseteq {i}
    BY <2>3, <2>4, <1>3, <1>5
  <2>6. s = IF new # NoChan THEN Phase(new)
            ELSE IF c \in begun'[e] THEN "down" ELSE "none"
    BY <2>3, <2>4
  <2>7. /\ channels[e][i] # NoChan => channels[e][i].conv = c
        /\ new # NoChan /\ ~new.await_open => c \in begun'[Peer(e)]
        /\ \A x \in End : begun[x] \subseteq begun'[x]
        /\ \A x \in End, d \in Conv :
              x # e \/ d # c => (d \in begun'[x] <=> d \in begun[x])
    BY <2>1, <1>7
  <2>8. c \in Conv /\ UNCHANGED <<sent, rcvd>> /\ Counted' /\ i \in Index
        /\ (new = NoChan \/ (new \in Channel /\ new.conv = c))
    BY <2>1, <1>1, <1>2, <1>11
  <2>. QED  BY <2>2, <2>5, <2>6, <2>7, <2>8, Shifted
<1>12. ASSUME NEW i \in NewIndex(e),
              channels' = [channels EXCEPT ![e][i] =
                Connected(NewChannel(c, p.from))],
              Reply(e, <<Opening("CONFIRMATION", p.from, i, p.conv)>>)
       PROVE  Faithful
  <2>1. PICK n : n = NewChannel(c, p.from)
    OBVIOUS
  <2>2. PICK new : new = Connected(n)
    OBVIOUS
  <2>3. PICK q : q = Opening("CONFIRMATION", p.from, i, p.conv)
    OBVIOUS
  <2>4. n \in Channel /\ n.conv = c /\ Fresh(n) /\ ~n.await_open
    BY <2>1, <1>2, NewFacts
  <2>5. new \in Channel /\ new.conv = c /\ ~new.await_open /\ ~new.sent_close
    BY <2>2, <2>4 DEF Connected, Channel, Fresh
  <2>6. i \in Index
    BY <1>0, NewIndexFacts
  <2>7. q \in PacketSet /\ q.t = "CONFIRMATION" /\ Reply(e, <<q>>)
    BY <2>3, <2>6, <1>2, <1>c, <1>12, PacketsMade
  <2>8. Counted' /\ channels' = [channels EXCEPT ![e][i] = new]
    BY <2>1, <2>2, <2>7, <1>9, <1>12
  <2>. QED  BY <2>5, <2>8, <1>11
<1>13. ASSUME NEW i \in NewIndex(e),
              channels' = [channels EXCEPT ![e][i] =
                [NewChannel(c, p.from) EXCEPT
                   !.initconn = TRUE, !.writes = TRUE]],
              Reply(e, <<>>)
       PROVE  Faithful
  <2>1. PICK n : n = NewChannel(c, p.from)
    OBVIOUS
  <2>2. PICK new : new = [n EXCEPT !.initconn = TRUE, !.writes = TRUE]
    OBVIOUS
  <2>3. PICK ps : ps = <<>>
    OBVIOUS
  <2>4. n \in Channel /\ n.conv = c /\ Fresh(n) /\ ~n.await_open
    BY <2>1, <1>2, NewFacts
  <2>5. new \in Channel /\ new.conv = c /\ ~new.await_open /\ ~new.sent_close
    BY <2>2, <2>4 DEF Channel, Fresh
  <2>6. ps \in Seq(PacketSet) /\ \A q \in Msgs(ps) : q.t # "DATA"
    BY <2>3 DEF Msgs
  <2>7. Counted' /\ channels' = [channels EXCEPT ![e][i] = new]
    BY <2>1, <2>2, <2>3, <2>6, <1>8, <1>13
  <2>. QED  BY <2>5, <2>7, <1>11
<1>. QED
  <2>1. \/ Reply(e, Refusal(p)) /\ UNCHANGED channels
        \/ \E i \in NewIndex(e) :
              \/ /\ channels' = [channels EXCEPT ![e][i] =
                      Connected(NewChannel(c, p.from))]
                 /\ Reply(e, <<Opening("CONFIRMATION", p.from, i, p.conv)>>)
              \/ /\ channels' = [channels EXCEPT ![e][i] =
                      [NewChannel(c, p.from) EXCEPT
                         !.initconn = TRUE, !.writes = TRUE]]
                 /\ Reply(e, <<>>)
    BY <1>p, <1>c DEF RecvOpen
  <2>. QED  BY <2>1, <1>10, <1>12, <1>13

---------------------------------------------------------------------------
(* The refinement *)

LEMMA InitRInv == Init => RInv
<1>. SUFFICES ASSUME Init PROVE RInv
  OBVIOUS
<1>1. IInv
  BY InitIInv
<1>2. \A e \in End : net[e] = <<>> /\ Occupied(e) = {}
  BY DEF Init, Occupied
<1>3. Heard
  BY <1>2 DEF Heard
<1>4. ASSUME NEW e \in End, NEW c \in Conv
      PROVE  sent[Peer(e)][c] = rcvd[e][c] + Amount(net[e], c)
  <2>1. \A q \in Msgs(net[e]) : q.t # "DATA"
    BY <1>2 DEF Msgs
  <2>2. Amount(net[e], c) = 0
    BY <2>1, AmountNone
  <2>3. sent[Peer(e)][c] = 0 /\ rcvd[e][c] = 0
    BY PeerFacts DEF Init
  <2>. QED  BY <2>2, <2>3
<1>. QED  BY <1>1, <1>3, <1>4 DEF RInv, Counted

LEMMA InitConversations == Init => Conversation!Init
<1>. SUFFICES ASSUME Init PROVE Conversation!Init
  OBVIOUS
<1>1. \A e \in End : Occupied(e) = {} /\ begun[e] = {}
  BY DEF Init, Occupied
<1>2. \A e \in End, c \in Conv : StateOf(e, c) = "none"
  BY <1>1 DEF StateOf, SlotsOf
<1>3. Conversation!End = End
  BY DEF Conversation!End, End
<1>. QED  BY <1>2, <1>3 DEF Conversation!Init, Init

LEMMA NextIsFaithful ==
    ASSUME RInv, Next
    PROVE  Faithful
<1>1. PICK e \in End :
        \/ RecvPacket(e) \/ Keepalive(e)
        \/ \E c \in Conv : Open(e, c)
        \/ \E i \in Index : \/ CheckInProgress(e, i) \/ SendData(e, i)
                            \/ ReadEnds(e, i) \/ Write(e, i)
  BY DEF Next
<1>2. CASE RecvPacket(e)
  <2>1. RecvOpen(e) => Faithful
    BY OpenPacketFaithful
  <2>2. RecvConfirmation(e) => Faithful
    BY ConfirmationFaithful
  <2>3. RecvFailure(e) => Faithful
    BY FailureFaithful
  <2>4. RecvData(e) => Faithful
    BY DataFaithful
  <2>5. RecvEof(e) \/ RecvClose(e) => Faithful
    BY ClosePacketFaithful
  <2>6. RecvRequest(e) => Faithful
    BY RequestFaithful
  <2>7. RecvReply(e) => Faithful
    BY KeepaliveFaithful
  <2>. QED  BY <1>2, <2>1, <2>2, <2>3, <2>4, <2>5, <2>6, <2>7 DEF RecvPacket
<1>3. CASE Keepalive(e)
  BY <1>3, KeepaliveFaithful
<1>4. CASE \E c \in Conv : Open(e, c)
  BY <1>4, OpenFaithful
<1>5. CASE \E i \in Index : CheckInProgress(e, i)
  BY <1>5, ConnectFaithful
<1>6. CASE \E i \in Index : SendData(e, i)
  BY <1>6, SendFaithful
<1>7. CASE \E i \in Index : ReadEnds(e, i) \/ Write(e, i)
  BY <1>7, TurnsFaithful
<1>. QED  BY <1>1, <1>2, <1>3, <1>4, <1>5, <1>6, <1>7

\* The variables of the conversations.
Mapped == <<[e \in End |-> [c \in Conv |-> StateOf(e, c)]], sent, rcvd>>

LEMMA StepIsFaithful ==
    RInv /\ [Next]_vars => RInv' /\ [Conversation!Next]_Mapped
<1>. SUFFICES ASSUME RInv, [Next]_vars
              PROVE  RInv' /\ [Conversation!Next]_Mapped
  OBVIOUS
<1>1. IInv'
  BY NextIInv DEF RInv
<1>2. Faithful
  <2>1. CASE Next
    BY <2>1, NextIsFaithful
  <2>2. CASE UNCHANGED vars
    <3>1. UNCHANGED <<channels, net, begun, sent, rcvd>>
      BY <2>2 DEF vars
    <3>2. Counted'
      BY <3>1 DEF RInv, Counted
    <3>. QED  BY <3>1, <3>2, QuietFaithful
  <2>. QED  BY <2>1, <2>2
<1>3. Unseen => UNCHANGED Mapped
  BY DEF Unseen, StateNow, Mapped
<1>. QED  BY <1>1, <1>2, <1>3 DEF RInv, Faithful

---------------------------------------------------------------------------
(* Results *)

(* Both tables stay tables of channels, empty from chansize on, chansize    *)
(* stays below MAX_CHANNELS + CHAN_EXTEND_SIZE, and what is under way are   *)
(* packets.                                                                 *)
THEOREM TypeCorrect == Spec => []TypeOK
<1>1. IInv => TypeOK
  BY DEF IInv
<1>. QED  BY <1>1, Invariance, PTL

(* Whatever number of conversations come and go at both ends, in tables of  *)
(* any size: a packet under way names a slot that is in use for its own     *)
(* conversation, and no end exits over one that does not.                   *)
THEOREM OwnChannelAlways == Spec => []OwnChannel
<1>1. IInv => OwnChannel
  <2>. SUFFICES ASSUME IInv, NEW e \in End, NEW k \in 1..Len(net[e]),
                       net[e][k].t \notin {"OPEN", "FAILURE"}
                PROVE  net[e][k].chan \in SlotsOf(e, net[e][k].conv)
    BY DEF OwnChannel, IInv
  <2>. PICK p : p = net[e][k]
    OBVIOUS
  <2>1. p \in PacketSet /\ p \in Msgs(net[e])
    BY DEF IInv, TypeOK, Msgs
  <2>2. p.conv \in Conv
    BY <2>1, PacketFacts
  <2>3. p \in Mail(p.conv)[e]
    BY <2>1 DEF Mail, MailOf
  <2>4. ConvInv(channels, Mail(p.conv), Begun(p.conv), p.conv)
    BY <2>2 DEF IInv
  <2>5. p.chan \in Slots(channels, e, p.conv)
    BY <2>3, <2>4 DEF ConvInv, EndInv, MailOK
  <2>. QED  BY <2>5 DEF Slots, SlotsOf, Occupied
<1>. QED  BY <1>1, Invariance, PTL

(* Whatever number of conversations share the two tables, of any size: each *)
(* goes on as if it had a connection of its own.  Every step of a handler   *)
(* is a step of one conversation, as module Conversations states it, or of  *)
(* none.                                                                    *)
THEOREM ImplementsConversations == Spec => IsConversations
<1>1. RInv /\ [Next]_vars =>
         RInv' /\ [Conversation!Next]_(Conversation!vars)
  BY StepIsFaithful DEF Mapped, Conversation!vars
<1>2. Init => RInv /\ Conversation!Init
  BY InitRInv, InitConversations
<1>. QED  BY <1>1, <1>2, PTL DEF Spec, IsConversations, Conversation!Spec

---------------------------------------------------------------------------
(* What an end waits for *)

\* Only one end asks for a conversation; the other has to take it.
NotBothAsk ==
    \A e \in End, c \in Conv :
      ~(StateNow[e][c] = "asking" /\ StateNow[Peer(e)][c] = "asking")

LEMMA StepNotBothAsk ==
    ASSUME NotBothAsk, [Conversation!Next]_Mapped
    PROVE  NotBothAsk'
<1>1. CASE UNCHANGED Mapped
  <2>1. UNCHANGED StateNow
    BY <1>1 DEF Mapped, StateNow
  <2>. QED  BY <2>1 DEF NotBothAsk
<1>2. CASE Conversation!Next
  <2>. DEFINE st == StateNow
  <2>1. Conversation!End = End /\ \A e \in End : Conversation!Peer(e) = Peer(e)
    BY DEF Conversation!End, End, Conversation!Peer, Peer
  <2>2. PICK x \in End, d \in Conv :
          \/ UNCHANGED st
          \/ /\ st[x][d] = "none" /\ st[Peer(x)][d] = "none"
             /\ \E s : st' = [st EXCEPT ![x][d] = s]
          \/ \E s : s # "asking" /\ st' = [st EXCEPT ![x][d] = s]
    <3>1. PICK x \in End, d \in Conv :
            \/ Conversation!Ask(x, d) \/ Conversation!Take(x, d)
            \/ Conversation!Connect(x, d) \/ Conversation!Learn(x, d)
            \/ Conversation!Send(x, d) \/ Conversation!Deliver(x, d)
            \/ Conversation!Close(x, d) \/ Conversation!Forget(x, d)
      BY <1>2, <2>1 DEF Conversation!Next
    <3>2. ASSUME NEW s, Conversation!Become(x, d, s)
          PROVE  st' = [st EXCEPT ![x][d] = s]
      BY <3>2 DEF StateNow, Conversation!Become
    <3>3. CASE Conversation!Ask(x, d)
      <4>1. st[x][d] = "none" /\ st[Peer(x)][d] = "none"
        BY <3>3, <2>1 DEF StateNow, Conversation!Ask
      <4>2. \E s \in {"asking", "down"} : Conversation!Become(x, d, s)
        BY <3>3 DEF Conversation!Ask
      <4>3. PICK s \in {"asking", "down"} : Conversation!Become(x, d, s)
        BY <4>2
      <4>4. st' = [st EXCEPT ![x][d] = s]
        BY <4>3, <3>2
      <4>. QED  BY ONLY <4>1, <4>4
    <3>4. CASE \/ Conversation!Take(x, d) \/ Conversation!Connect(x, d)
               \/ Conversation!Learn(x, d) \/ Conversation!Close(x, d)
               \/ Conversation!Forget(x, d)
      <4>1. \E s \in {"up", "connecting", "closing", "down"} :
               Conversation!Become(x, d, s)
        BY <3>4 DEF Conversation!Take, Conversation!Connect, Conversation!Learn,
           Conversation!Close, Conversation!Forget
      <4>2. PICK s \in {"up", "connecting", "closing", "down"} :
              Conversation!Become(x, d, s)
        BY <4>1
      <4>3. st' = [st EXCEPT ![x][d] = s] /\ s # "asking"
        BY <4>2, <3>2
      <4>. QED  BY <4>3
    <3>5. CASE Conversation!Send(x, d) \/ Conversation!Deliver(x, d)
      BY <3>5 DEF StateNow, Conversation!Send, Conversation!Deliver
    <3>. QED  BY <3>1, <3>3, <3>4, <3>5
  <2>3. DOMAIN st = End /\ \A e \in End : DOMAIN st[e] = Conv
    BY DEF StateNow
  <2>4. ASSUME NEW s, st' = [st EXCEPT ![x][d] = s]
        PROVE  \A e \in End, c \in Conv :
                 st'[e][c] = IF e = x /\ c = d THEN s ELSE st[e][c]
    BY <2>3, <2>4
  <2>5. CASE UNCHANGED st
    BY <2>5 DEF NotBothAsk
  <2>6. CASE /\ st[x][d] = "none" /\ st[Peer(x)][d] = "none"
             /\ \E s : st' = [st EXCEPT ![x][d] = s]
    <3>1. PICK s : st' = [st EXCEPT ![x][d] = s]
      BY <2>6
    <3>2. \A e \in End, c \in Conv :
             st'[e][c] = IF e = x /\ c = d THEN s ELSE st[e][c]
      BY <3>1, <2>4
    <3>. SUFFICES ASSUME NEW e \in End, NEW c \in Conv,
                         st'[e][c] = "asking", st'[Peer(e)][c] = "asking"
                  PROVE  FALSE
      BY DEF NotBothAsk
    <3>3. st[e][c] = st'[e][c] \/ st[Peer(e)][c] = st'[Peer(e)][c]
      BY <3>2, PeerFacts
    <3>4. c = d
      BY <3>2, PeerFacts DEF NotBothAsk
    <3>5. st[e][c] = "none" /\ st[Peer(e)][c] = "none"
      BY <3>4, <2>6, PeerFacts
    <3>. QED  BY <3>3, <3>5
  <2>7. CASE \E s : s # "asking" /\ st' = [st EXCEPT ![x][d] = s]
    <3>1. PICK s : s # "asking" /\ st' = [st EXCEPT ![x][d] = s]
      BY <2>7
    <3>2. \A e \in End, c \in Conv : st'[e][c] = "asking" => st[e][c] = "asking"
      BY <3>1, <2>4
    <3>. QED  BY <3>2, PeerFacts DEF NotBothAsk
  <2>. QED  BY <2>2, <2>5, <2>6, <2>7
<1>. QED  BY <1>1, <1>2

LEMMA SomeOnItsWay ==
    ASSUME IInv, NEW e \in End, NEW c \in Conv, NEW t, Some(Mail(c)[e], t)
    PROVE  OnItsWay(e, t, c)
<1>1. PICK m \in Mail(c)[e] : m.t = t
  BY DEF Some
<1>2. m \in Msgs(net[e]) /\ m.conv = c
  BY DEF Mail, MailOf
<1>. QED  BY <1>1, <1>2 DEF Msgs, OnItsWay

(* An end that has asked for a channel, or has closed one, never waits for  *)
(* a packet that nobody is going to send: the answer is under way, or the   *)
(* request is, or the peer has a connect() or a write to finish first.  So  *)
(* for any number of conversations, tables, packets and failures; the slot  *)
(* then returns as soon as both ends go on.                                 *)
THEOREM AnswersUnderWay == Spec => []NobodyWaitsInVain
<1>1. IInv /\ NotBothAsk => NobodyWaitsInVain
  <2>. SUFFICES ASSUME IInv, NotBothAsk, NEW e \in End, NEW c \in Conv,
                       NEW i \in SlotsOf(e, c)
                PROVE
          LET Peers == {channels[Peer(e)][j] : j \in SlotsOf(Peer(e), c)}
          IN  /\ channels[e][i].await_open =>
                   \/ OnItsWay(Peer(e), "OPEN", c)
                   \/ OnItsWay(e, "CONFIRMATION", c) \/ OnItsWay(e, "OPEN_FAILURE", c)
                   \/ \E s \in Peers : s.initconn
              /\ channels[e][i].sent_close =>
                   \/ OnItsWay(Peer(e), "CLOSE", c) \/ OnItsWay(e, "CLOSE", c)
                   \/ \E s \in Peers : s.recv_close /\ s.pending
    BY DEF NobodyWaitsInVain
  <2>. DEFINE f == Peer(e)
              ch == channels[e][i]
  <2>1. f \in End /\ Peer(f) = e
    BY PeerFacts
  <2>2. \A x \in End : SlotsOf(x, c) = Slots(channels, x, c)
    BY DEF SlotsOf, Slots, Occupied
  <2>3. i \in Slots(channels, e, c)
    BY <2>2
  <2>4. \A x \in End : \A j \in Slots(channels, x, c) :
          /\ channels[x][j] \in Channel
          /\ FlagsOK(channels[x][j]) /\ SlotOK(channels, Mail(c), c, x, j)
          /\ ~Answered(channels[x][j])
    <3>. SUFFICES ASSUME NEW x \in End, NEW j \in Slots(channels, x, c)
                  PROVE  /\ channels[x][j] \in Channel
                         /\ FlagsOK(channels[x][j])
                         /\ SlotOK(channels, Mail(c), c, x, j)
                         /\ ~Answered(channels[x][j])
      OBVIOUS
    <3>1. j \in Index /\ channels[x][j] # NoChan
      BY DEF Slots
    <3>2. channels[x][j] \in Channel
      BY <3>1 DEF IInv, TypeOK
    <3>3. ~Answered(channels[x][j])
      BY <3>1 DEF IInv, Occupied
    <3>4. ConvInv(channels, Mail(c), Begun(c), c)
      BY DEF IInv
    <3>. QED  BY <3>2, <3>3, <3>4 DEF ConvInv, EndInv
  <2>5. ASSUME ch.await_open
        PROVE  \/ OnItsWay(f, "OPEN", c)
               \/ OnItsWay(e, "CONFIRMATION", c) \/ OnItsWay(e, "OPEN_FAILURE", c)
               \/ \E j \in SlotsOf(f, c) : channels[f][j].initconn
    <3>1. \/ Some(Mail(c)[f], "OPEN") \/ Some(Mail(c)[e], "OPEN_FAILURE")
          \/ Slots(channels, f, c) # {}
      BY <2>3, <2>4, <2>5 DEF SlotOK
    <3>2. CASE Some(Mail(c)[f], "OPEN") \/ Some(Mail(c)[e], "OPEN_FAILURE")
      BY <3>2, <2>1, SomeOnItsWay
    <3>3. CASE Slots(channels, f, c) # {}
      <4>1. PICK j \in Slots(channels, f, c) : TRUE
        BY <3>3
      <4>. DEFINE s == channels[f][j]
      <4>2. CASE s.await_open
        <5>1. StateNow[e][c] = "asking"
          BY <2>3, <2>4, <2>5, StateIs, PhaseFacts
        <5>2. StateNow[f][c] = "asking"
          BY <2>1, <2>4, <4>2, StateIs, PhaseFacts
        <5>. QED  BY <5>1, <5>2 DEF NotBothAsk
      <4>3. CASE s.initconn
        BY <4>3, <2>1, <2>2
      <4>4. CASE ~s.await_open /\ ~s.initconn
        <5>1. SlotOK(channels, Mail(c), c, f, j)
          BY <2>1, <2>4
        <5>2. s.remotechan \in Slots(channels, e, c)
          BY <5>1, <4>4, <2>1, <2>3 DEF SlotOK
        <5>3. s.remotechan = i
          BY <5>2, <2>3 DEF IInv, ConvInv, EndInv
        <5>4. Paired(s, ch, j, Mail(c)[f], Mail(c)[e])
          BY <5>1, <5>3, <4>4, <2>1, <2>3 DEF SlotOK
        <5>5. Some(Mail(c)[e], "CONFIRMATION")
          BY <5>4, <2>5 DEF Paired
        <5>. QED  BY <5>5, SomeOnItsWay
      <4>. QED  BY <4>2, <4>3, <4>4
    <3>. QED  BY <3>1, <3>2, <3>3
  <2>6. ASSUME ch.sent_close
        PROVE  \/ OnItsWay(f, "CLOSE", c) \/ OnItsWay(e, "CLOSE", c)
               \/ \E j \in SlotsOf(f, c) :
                     channels[f][j].recv_close /\ channels[f][j].pending
    <3>1. ~ch.await_open /\ ~ch.initconn
      BY <2>3, <2>4, <2>6 DEF FlagsOK
    <3>2. ~ch.recv_close
      BY <2>3, <2>4, <2>6 DEF FlagsOK, Answered
    <3>3. SlotOK(channels, Mail(c), c, e, i)
      BY <2>3, <2>4
    <3>4. CASE Slots(channels, f, c) = {}
      <4>1. Some(Mail(c)[e], "CLOSE")
        BY <3>1, <3>2, <3>3, <3>4 DEF SlotOK
      <4>. QED  BY <4>1, SomeOnItsWay
    <3>5. CASE Slots(channels, f, c) # {}
      <4>. DEFINE j == ch.remotechan
      <4>1. j \in Slots(channels, f, c)
            /\ Paired(ch, channels[f][j], i, Mail(c)[e], Mail(c)[f])
        BY <3>1, <3>3, <3>5 DEF SlotOK
      <4>2. channels[f][j].recv_close \/ Some(Mail(c)[f], "CLOSE")
        BY <4>1, <2>6 DEF Paired
      <4>3. channels[f][j].recv_close => channels[f][j].pending
        BY <4>1, <2>1, <2>4 DEF Answered
      <4>4. j \in SlotsOf(f, c)
        BY <4>1, <2>1, <2>2
      <4>. QED  BY <4>2, <4>3, <4>4, <2>1, SomeOnItsWay
    <3>. QED  BY <3>4, <3>5
  <2>. QED  BY <2>5, <2>6
<1>2. Init => RInv /\ NotBothAsk
  <2>1. Init => NotBothAsk
    <3>. SUFFICES ASSUME Init, NEW e \in End, NEW c \in Conv
                  PROVE  StateNow[e][c] # "asking"
      BY DEF NotBothAsk
    <3>1. Slots(channels, e, c) = {}
      BY DEF Init, Slots
    <3>. QED  BY <3>1, StateNone
  <2>. QED  BY <2>1, InitRInv
<1>3. RInv /\ NotBothAsk /\ [Next]_vars => RInv' /\ NotBothAsk'
  BY StepIsFaithful, StepNotBothAsk
<1>4. RInv => IInv
  BY DEF RInv
<1>. QED  BY <1>1, <1>2, <1>3, <1>4, PTL DEF Spec

=============================================================================
