--------------------------- MODULE TimeoutsProofs ---------------------------
(***************************************************************************)
(* The limits of a server's clocks, for any lengths of its intervals.      *)
(*                                                                         *)
(* The argument: select() may be restarted with its full timeout at any    *)
(* time, but each turn of session_loop() looks at every clock, so that a   *)
(* clock that passed its test and what is left of the timeout add up to    *)
(* less than its limit; while time passes in select() the one grows as the *)
(* other shrinks.  What a turn sends is real traffic, or leaves the idle   *)
(* time as it was; and a peer that owes nothing has been silent for less   *)
(* than two intervals, as at the first turn after one something is asked   *)
(* of it.                                                                  *)
(***************************************************************************)
EXTENDS TimeoutsProperties, TLAPS

Kex == {"none", "sent", "both", "newkeys"}
Ident == {"none", "reading", "read"}
Ended == {"no", "Keepalive timeout", "Idle timeout", "Timeout before auth",
          "remote closed"}
WireType == HeldType \cup {"KEXDH_REPLY", "NEWKEYS"}

\* Sessions, also in the middle of a turn of the loop.
Ses == [any_sent : 0 .. MaxAnySent, keepalive_recv : 0 .. MaxRecv,
        keepalive_sent : 0 .. KEEPALIVE, idle : 0 .. MaxIdle,
        lastkex : 0 .. MaxKex, connect : 0 .. MaxConnect, kex : Kex,
        keyed : BOOLEAN, datadue : BOOLEAN, authdone : BOOLEAN,
        chan : BOOLEAN, held : SUBSET HeldType, wire : SUBSET WireType, remoteident : Ident,
        exited : Ended]
Real == [sent : 0 .. MaxAnySent, traffic : 0 .. MaxTraffic,
         owed : NotOwed .. MaxRecv]

Typed == ses \in Ses /\ ses.wire = {} /\ left \in 0 .. Slack /\ real \in Real

\* Of a session s with t seconds left in select()
InTime(s, t) ==
    /\ s.authdone /\ KEEPALIVE > 0 => s.keepalive_recv + t < MaxRecv
    /\ s.authdone /\ KEEPALIVE > 0 /\ DataAllowed(s) =>
         s.any_sent + t < MaxAnySent
    /\ s.authdone /\ s.kex = "none" => s.lastkex + t < MaxKex
    /\ ~s.authdone /\ s.remoteident # "reading" => s.connect + t < MaxConnect

\* The session's own clocks against what really went over the wire.
Honest ==
    /\ real.sent = ses.any_sent
    /\ IDLE_TIMEOUT > 0 => ses.idle <= real.traffic
    /\ ses.exited = "Idle timeout" => real.traffic >= IDLE_TIMEOUT

IInv == /\ Typed /\ Honest
        /\ ses.authdone => ses.remoteident = "read"
        /\ ses.exited = "no" => InTime(ses, left)

---------------------------------------------------------------------------
(* Constants *)

\* The keepalive limit in seconds, and the bounds of the clocks.
LEMMA Bounds ==
    /\ KEEPALIVE \in Nat /\ IDLE_TIMEOUT \in Nat
    /\ AUTH_TIMEOUT \in Nat /\ AUTH_TIMEOUT > 0
    /\ KEX_REKEY_TIMEOUT \in Nat /\ KEX_REKEY_TIMEOUT > 0
    /\ KEEPALIVE * KEEPALIVE_LIMIT \in Nat
    /\ MaxRecv = KEEPALIVE * KEEPALIVE_LIMIT + KEEPALIVE
    /\ KEEPALIVE > 0 => KEEPALIVE * KEEPALIVE_LIMIT > 0
    /\ MaxAnySent = KEEPALIVE + KEEPALIVE
    /\ MaxConnect = AUTH_TIMEOUT + AUTH_TIMEOUT
    /\ MaxKex = KEX_REKEY_TIMEOUT + Slack
    /\ MaxIdle = IDLE_TIMEOUT + Slack
    /\ MaxTraffic = IDLE_TIMEOUT + IDLE_TIMEOUT + IDLE_TIMEOUT
    /\ Slack \in Nat /\ Slack <= KEX_REKEY_TIMEOUT
    /\ IDLE_TIMEOUT > 0 => Slack <= IDLE_TIMEOUT
<1>1. /\ KEEPALIVE \in Nat /\ KEEPALIVE_LIMIT \in Nat /\ KEEPALIVE_LIMIT > 0
      /\ IDLE_TIMEOUT \in Nat /\ AUTH_TIMEOUT \in Nat /\ AUTH_TIMEOUT > 0
      /\ KEX_REKEY_TIMEOUT \in Nat /\ KEX_REKEY_TIMEOUT > 0
  BY TimeoutsAssumption
<1>2. KEEPALIVE * KEEPALIVE_LIMIT \in Nat
  BY <1>1
<1>3. (KEEPALIVE_LIMIT + 1) * KEEPALIVE = KEEPALIVE * KEEPALIVE_LIMIT + KEEPALIVE
  BY <1>1
<1>4. KEEPALIVE > 0 => KEEPALIVE * KEEPALIVE_LIMIT > 0
  BY <1>1
<1>5. /\ Slack \in Nat /\ Slack <= KEX_REKEY_TIMEOUT
      /\ IDLE_TIMEOUT > 0 => Slack <= IDLE_TIMEOUT
  BY <1>1 DEF Slack, LeastOn, Least
<1>6. 2 * KEEPALIVE = KEEPALIVE + KEEPALIVE
      /\ 2 * AUTH_TIMEOUT = AUTH_TIMEOUT + AUTH_TIMEOUT
      /\ 3 * IDLE_TIMEOUT = IDLE_TIMEOUT + IDLE_TIMEOUT + IDLE_TIMEOUT
  BY <1>1
<1>7. QED
  BY <1>1, <1>2, <1>3, <1>4, <1>5, <1>6
  DEF MaxRecv, MaxAnySent, MaxConnect, MaxKex, MaxIdle, MaxTraffic

\* select() sleeps at most the shortest interval that is on.
LEMMA TimeoutBounds ==
    ASSUME NEW s \in Ses
    PROVE  /\ SelectTimeout(s) \in 0 .. Slack
           /\ KEEPALIVE > 0 => SelectTimeout(s) <= KEEPALIVE
           /\ ~s.authdone => SelectTimeout(s) <= AUTH_TIMEOUT
BY Bounds DEF SelectTimeout, Slack, LeastOn, Least

---------------------------------------------------------------------------
(* What is sent *)

\* t comes after s in a turn, as far as the wire and the clocks of sending and
\* idleness go: only real traffic makes the session look busy.
Wired(s, t) ==
    /\ t \in Ses
    /\ s.wire \subseteq t.wire
    /\ \/ t.wire = s.wire /\ t.any_sent = s.any_sent
       \/ t.wire # {} /\ t.any_sent = 0
    /\ t.idle \in {s.idle, 0}
    /\ t.idle = 0 \/ t.wire \subseteq s.wire \cup KeepaliveTraffic

\* Sending leaves the rest alone, but may begin an exchange.
Framed(s, t) ==
    /\ t.keepalive_recv = s.keepalive_recv /\ t.lastkex = s.lastkex
    /\ t.connect = s.connect /\ t.keyed = s.keyed /\ t.authdone = s.authdone
    /\ t.chan = s.chan /\ t.remoteident = s.remoteident
    /\ t.kex = s.kex \/ (s.kex = "none" /\ t.kex = "sent")

LEMMA WiredTwice ==
    ASSUME NEW s, NEW t, NEW u, Wired(s, t), Wired(t, u)
    PROVE  Wired(s, u)
<1>1. s.wire \subseteq u.wire
  BY DEF Wired
<1>2. \/ u.wire = s.wire /\ u.any_sent = s.any_sent
      \/ u.wire # {} /\ u.any_sent = 0
  BY <1>1 DEF Wired
<1>3. u.idle \in {s.idle, 0}
  BY DEF Wired
<1>4. u.idle = 0 \/ u.wire \subseteq s.wire \cup KeepaliveTraffic
  BY DEF Wired
<1>5. QED
  BY <1>1, <1>2, <1>3, <1>4 DEF Wired

LEMMA FramedTwice ==
    ASSUME NEW s, NEW t, NEW u, Framed(s, t), Framed(t, u)
    PROVE  Framed(s, u)
BY DEF Framed

LEMMA NothingSent ==
    ASSUME NEW s \in Ses
    PROVE  Wired(s, s) /\ Framed(s, s)
BY DEF Wired, Framed

\* The fields of a session
LEMMA SesFields ==
    ASSUME NEW s \in Ses
    PROVE  /\ s.any_sent \in 0 .. MaxAnySent /\ s.idle \in 0 .. MaxIdle
           /\ s.keepalive_recv \in 0 .. MaxRecv
           /\ s.keepalive_sent \in 0 .. KEEPALIVE
           /\ s.lastkex \in 0 .. MaxKex /\ s.connect \in 0 .. MaxConnect
           /\ s.kex \in Kex /\ s.held \subseteq HeldType
           /\ s.wire \subseteq WireType /\ s.exited \in Ended
           /\ {s.keyed, s.datadue, s.authdone, s.chan} \subseteq BOOLEAN
           /\ s.remoteident \in Ident
BY DEF Ses

LEMMA OnWireSends ==
    ASSUME NEW s \in Ses, NEW T \in SUBSET WireType, T # {}
    PROVE  /\ Wired(s, OnWire(s, T)) /\ Framed(s, OnWire(s, T))
           /\ OnWire(s, T).exited = s.exited /\ OnWire(s, T).any_sent = 0
           /\ OnWire(s, T).kex = s.kex
<1>1. 0 \in 0 .. MaxAnySent /\ 0 \in 0 .. MaxIdle
  BY Bounds
<1>2. OnWire(s, T) \in Ses
  BY <1>1 DEF OnWire, Ses
<1>3. QED
  BY <1>2 DEF OnWire, Ses, Wired, Framed, KeepaliveTraffic

LEMMA EncryptPacketSends ==
    ASSUME NEW s \in Ses, NEW t \in WireType
    PROVE  /\ Wired(s, EncryptPacket(s, t)) /\ Framed(s, EncryptPacket(s, t))
           /\ EncryptPacket(s, t).exited = s.exited
           /\ EncryptPacket(s, t).kex = s.kex
           /\ DataAllowed(s) => EncryptPacket(s, t).any_sent = 0
           /\ t \in {"KEXDH_REPLY", "NEWKEYS"} =>
                EncryptPacket(s, t).any_sent = 0
<1>1. CASE ~DataAllowed(s) /\ (t \notin KexType \/ t = "KEXINIT")
  <2>1. t \in HeldType
    BY <1>1 DEF WireType, HeldType, KexType
  <2>2. EncryptPacket(s, t) = [s EXCEPT !.held = @ \cup {t}]
    BY <1>1 DEF EncryptPacket
  <2>3. EncryptPacket(s, t) \in Ses
    BY <2>1, <2>2 DEF Ses
  <2>4. t \notin {"KEXDH_REPLY", "NEWKEYS"}
    BY <1>1 DEF KexType
  <2>5. QED
    BY <1>1, <2>2, <2>3, <2>4 DEF Wired, Framed, Ses
<1>2. CASE ~(~DataAllowed(s) /\ (t \notin KexType \/ t = "KEXINIT"))
  <2>1. EncryptPacket(s, t) = OnWire(s, {t})
    BY <1>2, Zenon DEF EncryptPacket
  <2>2. {t} \in SUBSET WireType /\ {t} # {}
    OBVIOUS
  <2>3. QED
    BY <2>1, <2>2, OnWireSends
<1>3. QED
  BY <1>1, <1>2

LEMMA MaybeFlushSends ==
    ASSUME NEW s \in Ses
    PROVE  /\ Wired(s, MaybeFlushReplyQueue(s))
           /\ Framed(s, MaybeFlushReplyQueue(s))
           /\ MaybeFlushReplyQueue(s).exited = s.exited
<1>1. CASE ~DataAllowed(s) \/ s.held = {}
  BY <1>1, NothingSent DEF MaybeFlushReplyQueue
<1>2. CASE ~(~DataAllowed(s) \/ s.held = {})
  <2> DEFINE e == [s EXCEPT !.held = {}]
  <2>1. e \in Ses /\ Wired(s, e) /\ Framed(s, e) /\ e.exited = s.exited
    BY DEF Ses, Wired, Framed
  <2>2. s.held \in SUBSET WireType /\ s.held # {}
    BY <1>2, SesFields DEF WireType
  <2>3. MaybeFlushReplyQueue(s) = OnWire(e, s.held)
    BY <1>2 DEF MaybeFlushReplyQueue
  <2> HIDE DEF e
  <2>4. /\ Wired(e, OnWire(e, s.held)) /\ Framed(e, OnWire(e, s.held))
        /\ OnWire(e, s.held).exited = e.exited
    BY <2>1, <2>2, OnWireSends
  <2>5. QED
    BY <2>1, <2>3, <2>4, WiredTwice, FramedTwice
<1>3. QED
  BY <1>1, <1>2

LEMMA SendKexinitSends ==
    ASSUME NEW s \in Ses, s.kex = "none"
    PROVE  /\ Wired(s, SendKexinit(s)) /\ Framed(s, SendKexinit(s))
           /\ SendKexinit(s).exited = s.exited
           /\ SendKexinit(s).kex = "sent"
<1> DEFINE e == EncryptPacket(s, "KEXINIT")
<1>1. /\ Wired(s, e) /\ Framed(s, e) /\ e.exited = s.exited
  BY EncryptPacketSends DEF WireType, HeldType
<1>2. SendKexinit(s) = [e EXCEPT !.kex = "sent"]
  BY DEF SendKexinit
<1> HIDE DEF e
<1>3. e \in Ses
  BY <1>1 DEF Wired
<1>4. SendKexinit(s) \in Ses
  BY <1>2, <1>3 DEF Ses, Kex
<1>5. QED
  BY <1>1, <1>2, <1>3, <1>4 DEF Wired, Framed, Ses

LEMMA SendKeepaliveSends ==
    ASSUME NEW s \in Ses
    PROVE  /\ Wired(s, SendKeepalive(s)) /\ Framed(s, SendKeepalive(s))
           /\ SendKeepalive(s).exited = s.exited
           /\ DataAllowed(s) => SendKeepalive(s).any_sent = 0
<1> DEFINE t == IF s.chan THEN "CHANNEL_REQUEST" ELSE "GLOBAL_REQUEST"
           e == EncryptPacket(s, t)
<1>1. t \in WireType /\ t \in KeepaliveTraffic
  BY DEF WireType, HeldType, KeepaliveTraffic, Request
<1>2. /\ Wired(s, e) /\ Framed(s, e) /\ e.exited = s.exited
      /\ DataAllowed(s) => e.any_sent = 0
  BY <1>1, EncryptPacketSends
<1>3. e.wire \subseteq s.wire \cup KeepaliveTraffic
  BY <1>1 DEF EncryptPacket, OnWire, Ses
<1>4. SendKeepalive(s) = [e EXCEPT !.keepalive_sent = 0, !.idle = s.idle]
  BY DEF SendKeepalive
<1> HIDE DEF e
<1>5. e \in Ses
  BY <1>2 DEF Wired
<1>6. SendKeepalive(s) \in Ses
  <2>1. 0 \in 0 .. KEEPALIVE /\ s.idle \in 0 .. MaxIdle
    BY Bounds, SesFields
  <2>2. QED
    BY <1>4, <1>5, <2>1 DEF Ses
<1>7. QED
  <2>1. /\ SendKeepalive(s).wire = e.wire
        /\ SendKeepalive(s).any_sent = e.any_sent
        /\ SendKeepalive(s).idle = s.idle
        /\ SendKeepalive(s).exited = e.exited
    BY <1>4, <1>5 DEF Ses
  <2>2. Wired(s, SendKeepalive(s))
    BY <1>2, <1>3, <1>6, <2>1 DEF Wired
  <2>3. Framed(s, SendKeepalive(s))
    BY <1>2, <1>4, <1>5 DEF Framed, Ses
  <2>4. QED
    BY <1>2, <2>1, <2>2, <2>3

---------------------------------------------------------------------------
(* The tests of a turn *)

\* A session whose clocks have been looked at in this turn
Fresh(s) ==
    /\ KEEPALIVE > 0 => /\ s.keepalive_recv < KEEPALIVE * KEEPALIVE_LIMIT
                        /\ DataAllowed(s) => s.any_sent < KEEPALIVE
    /\ s.kex = "none" => s.lastkex < KEX_REKEY_TIMEOUT

\* stays so whatever it sends.
LEMMA FreshStays ==
    ASSUME NEW s, NEW t, Fresh(s), Wired(s, t), Framed(s, t)
    PROVE  Fresh(t)
BY Bounds DEF Fresh, Wired, Framed, DataAllowed

LEMMA RekeyTests ==
    ASSUME NEW s \in Ses
    PROVE  /\ Wired(s, Rekey(s)) /\ Framed(s, Rekey(s))
           /\ Rekey(s).exited = s.exited
           /\ Rekey(s).kex = "none" => Rekey(s).lastkex < KEX_REKEY_TIMEOUT
<1>1. CASE ~SentKexinit(s) /\ (s.lastkex >= KEX_REKEY_TIMEOUT \/ s.datadue)
  <2>1. Rekey(s) = SendKexinit(s) /\ s.kex = "none"
    BY <1>1, Zenon DEF Rekey, SentKexinit
  <2>2. QED
    BY <2>1, SendKexinitSends
<1>2. CASE ~(~SentKexinit(s) /\ (s.lastkex >= KEX_REKEY_TIMEOUT \/ s.datadue))
  <2>1. Rekey(s) = s
    BY <1>2, Zenon DEF Rekey
  <2>2. s.lastkex \in Nat
    BY SesFields
  <2>3. QED
    BY <1>2, <2>1, <2>2, NothingSent, Bounds DEF SentKexinit
<1>3. QED
  BY <1>1, <1>2

LEMMA QuietTests ==
    ASSUME NEW s \in Ses, KEEPALIVE > 0
    PROVE  LET t == KeepaliveIfQuiet(s)
           IN  /\ Wired(s, t) /\ Framed(s, t) /\ t.exited = s.exited
               /\ DataAllowed(t) => t.any_sent < KEEPALIVE
<1>1. CASE s.any_sent >= KEEPALIVE
  <2>1. KeepaliveIfQuiet(s) = SendKeepalive(s)
    BY <1>1 DEF KeepaliveIfQuiet
  <2>2. DataAllowed(SendKeepalive(s)) => DataAllowed(s)
    BY SendKeepaliveSends DEF Framed, DataAllowed
  <2>3. QED
    BY <2>1, <2>2, SendKeepaliveSends, Bounds
<1>2. CASE ~(s.any_sent >= KEEPALIVE)
  <2>1. KeepaliveIfQuiet(s) = s
    BY <1>2 DEF KeepaliveIfQuiet
  <2>2. s.any_sent \in Nat
    BY SesFields
  <2>3. QED
    BY <1>2, <2>1, <2>2, NothingSent, Bounds
<1>3. QED
  BY <1>1, <1>2

LEMMA SilentTests ==
    ASSUME NEW s \in Ses
    PROVE  LET t == KeepaliveIfSilent(s)
           IN  Wired(s, t) /\ Framed(s, t) /\ t.exited = s.exited
BY SendKeepaliveSends, NothingSent DEF KeepaliveIfSilent

\* Setting the reason to exit does nothing else.
LEMMA ExitOnly ==
    ASSUME NEW s \in Ses, NEW why \in Ended
    PROVE  LET t == [s EXCEPT !.exited = why]
           IN  Wired(s, t) /\ Framed(s, t) /\ t.exited = why /\ t.idle = s.idle
BY DEF Ses, Wired, Framed

LEMMA GiveUpTests ==
    ASSUME NEW s \in Ses
    PROVE  LET t == GiveUp(s)
           IN  /\ Wired(s, t) /\ Framed(s, t)
               /\ t.exited \in {s.exited, "Keepalive timeout"}
               /\ t.exited = "no" =>
                    s.keepalive_recv < KEEPALIVE * KEEPALIVE_LIMIT
<1>1. CASE s.keepalive_recv >= KEEPALIVE * KEEPALIVE_LIMIT
  <2>1. GiveUp(s) = [s EXCEPT !.exited = "Keepalive timeout"]
    BY <1>1 DEF GiveUp
  <2>2. QED
    BY <2>1, ExitOnly DEF Ended
<1>2. CASE ~(s.keepalive_recv >= KEEPALIVE * KEEPALIVE_LIMIT)
  <2>1. GiveUp(s) = s
    BY <1>2 DEF GiveUp
  <2>2. s.keepalive_recv \in Nat
    BY SesFields
  <2>3. QED
    BY <1>2, <2>1, <2>2, NothingSent, Bounds
<1>3. QED
  BY <1>1, <1>2

LEMMA KeepaliveTests ==
    ASSUME NEW s \in Ses, s.authdone, s.exited = "no"
    PROVE  LET t == Keepalives(s)
           IN  /\ Wired(s, t) /\ Framed(s, t)
               /\ t.exited \in {"no", "Keepalive timeout"}
               /\ t.exited = "no" /\ KEEPALIVE > 0 =>
                    /\ t.keepalive_recv < KEEPALIVE * KEEPALIVE_LIMIT
                    /\ DataAllowed(t) => t.any_sent < KEEPALIVE
<1>1. CASE KEEPALIVE > 0
  <2> DEFINE q == KeepaliveIfQuiet(s)
             r == KeepaliveIfSilent(q)
             t == GiveUp(r)
  <2>1. /\ Wired(s, q) /\ Framed(s, q) /\ q.exited = "no"
        /\ DataAllowed(q) => q.any_sent < KEEPALIVE
    BY <1>1, QuietTests
  <2>2. q \in Ses
    BY <2>1 DEF Wired
  <2> HIDE DEF q
  <2>3. Wired(q, r) /\ Framed(q, r) /\ r.exited = "no"
    BY <2>1, <2>2, SilentTests
  <2>4. r \in Ses
    BY <2>3 DEF Wired
  <2> HIDE DEF r
  <2>5. /\ Wired(r, t) /\ Framed(r, t)
        /\ t.exited \in {"no", "Keepalive timeout"}
        /\ t.exited = "no" => r.keepalive_recv < KEEPALIVE * KEEPALIVE_LIMIT
    BY <2>3, <2>4, GiveUpTests
  <2> HIDE DEF t
  <2>6. Wired(q, t) /\ Framed(q, t)
    BY <2>3, <2>5, WiredTwice, FramedTwice
  <2>7. Wired(s, t) /\ Framed(s, t)
    BY <2>1, <2>6, WiredTwice, FramedTwice
  <2>8. DataAllowed(t) => t.any_sent < KEEPALIVE
    BY <1>1, <2>1, <2>6, Bounds DEF Wired, Framed, DataAllowed
  <2>9. t.keepalive_recv = r.keepalive_recv
    BY <2>5 DEF Framed
  <2>10. Keepalives(s) = t
    BY <1>1 DEF Keepalives, t, r, q
  <2>11. QED
    BY <2>5, <2>7, <2>8, <2>9, <2>10
<1>2. CASE ~(KEEPALIVE > 0)
  <2>1. Keepalives(s) = s
    BY <1>2 DEF Keepalives
  <2>2. QED
    BY <1>2, <2>1, NothingSent
<1>3. QED
  BY <1>1, <1>2

\* A session that ends as idle has been idle for that long.
IdleEnd(s) ==
    s.exited = "Idle timeout" => IDLE_TIMEOUT > 0 /\ s.idle >= IDLE_TIMEOUT

LEMMA IdleTests ==
    ASSUME NEW k \in Ses, k.exited # "Idle timeout"
    PROVE  /\ Wired(k, Idle(k)) /\ Framed(k, Idle(k)) /\ IdleEnd(Idle(k))
           /\ Idle(k).exited \in {k.exited, "Idle timeout"}
<1>1. CASE IDLE_TIMEOUT > 0 /\ k.idle >= IDLE_TIMEOUT /\ k.exited = "no"
  <2> DEFINE t == [k EXCEPT !.exited = "Idle timeout"]
  <2>1. Wired(k, t) /\ Framed(k, t) /\ t.exited = "Idle timeout" /\ t.idle = k.idle
    BY ExitOnly DEF Ended
  <2>2. Idle(k) = t
    BY <1>1 DEF Idle
  <2> HIDE DEF t
  <2>3. QED
    BY <1>1, <2>1, <2>2 DEF IdleEnd
<1>2. CASE ~(IDLE_TIMEOUT > 0 /\ k.idle >= IDLE_TIMEOUT /\ k.exited = "no")
  <2>1. Idle(k) = k
    BY <1>2, Zenon DEF Idle
  <2>2. QED
    BY <2>1, NothingSent DEF IdleEnd
<1>3. QED
  BY <1>1, <1>2

\* checktimeouts(): once it has let a session go on, every clock of an
\* authenticated one has passed its test.
LEMMA CheckTests ==
    ASSUME NEW s \in Ses, s.exited = "no"
    PROVE  LET t == CheckTimeouts(s)
           IN  /\ Wired(s, t) /\ Framed(s, t) /\ IdleEnd(t)
               /\ s.remoteident = "read" /\ t.exited = "no" =>
                    /\ t.kex = "none" => t.lastkex < KEX_REKEY_TIMEOUT
                    /\ t.authdone => Fresh(t)
<1>1. CASE s.remoteident # "read"
  <2>1. CheckTimeouts(s) = s
    BY <1>1 DEF CheckTimeouts
  <2>2. QED
    BY <1>1, <2>1, NothingSent DEF IdleEnd
<1>2. CASE s.remoteident = "read"
  <2> DEFINE r == Rekey(s)
             k == Keepalives(r)
             t == Idle(k)
  <2>1. /\ Wired(s, r) /\ Framed(s, r) /\ r.exited = "no"
        /\ r.kex = "none" => r.lastkex < KEX_REKEY_TIMEOUT
    BY RekeyTests
  <2>2. r \in Ses
    BY <2>1 DEF Wired
  <2> HIDE DEF r
  <2>3. /\ Wired(r, k) /\ Framed(r, k)
        /\ k.exited \in {"no", "Keepalive timeout"}
        /\ k.exited = "no" /\ KEEPALIVE > 0 /\ k.authdone =>
             /\ k.keepalive_recv < KEEPALIVE * KEEPALIVE_LIMIT
             /\ DataAllowed(k) => k.any_sent < KEEPALIVE
    <3>1. CASE r.authdone
      BY <2>1, <2>2, <3>1, KeepaliveTests
    <3>2. CASE ~r.authdone
      <4>1. k = r
        BY <3>2 DEF Keepalives
      <4>2. QED
        BY <2>1, <2>2, <3>2, <4>1, NothingSent
    <3>3. QED
      BY <3>1, <3>2
  <2>4. k \in Ses
    BY <2>3 DEF Wired
  <2> HIDE DEF k
  <2>5. /\ Wired(k, t) /\ Framed(k, t) /\ IdleEnd(t)
        /\ t.exited \in {k.exited, "Idle timeout"}
    BY <2>3, <2>4, IdleTests
  <2> HIDE DEF t
  <2>6. Wired(s, t) /\ Framed(s, t)
    BY <2>1, <2>3, <2>5, WiredTwice, FramedTwice
  <2>7. t.kex = "none" => t.lastkex < KEX_REKEY_TIMEOUT
    BY <2>1, <2>3, <2>5 DEF Framed
  <2>8. t.exited = "no" /\ t.authdone /\ KEEPALIVE > 0 =>
          /\ t.keepalive_recv < KEEPALIVE * KEEPALIVE_LIMIT
          /\ DataAllowed(t) => t.any_sent < KEEPALIVE
    BY <2>3, <2>5, Bounds DEF Wired, Framed, DataAllowed
  <2>9. CheckTimeouts(s) = t
    BY <1>2 DEF CheckTimeouts, t, k, r
  <2>10. QED
    BY <2>5, <2>6, <2>7, <2>8, <2>9 DEF Fresh
<1>3. QED
  BY <1>1, <1>2

---------------------------------------------------------------------------
(* Packets *)

\* What a packet of type t counts for before its handler is called
LEMMA NoteTypes ==
    ASSUME NEW s \in Ses, NEW t \in Incoming
    PROVE  LET n == Note(s, t)
           IN  /\ Wired(s, n) /\ n.exited = s.exited
               /\ n.keepalive_recv = 0 /\ n.kex = s.kex
               /\ n.any_sent = s.any_sent /\ n.lastkex = s.lastkex
               /\ n.authdone = s.authdone /\ n.remoteident = s.remoteident
               /\ n.wire = s.wire
               /\ n.idle = 0 \/ t \in KeepaliveTraffic
<1>1. 0 \in 0 .. MaxRecv /\ 0 \in 0 .. MaxIdle
  BY Bounds
<1>2. Note(s, t) \in Ses
  BY <1>1 DEF Note, Ses
<1>3. QED
  BY <1>2 DEF Note, Ses, Wired, KeepaliveTraffic, Request

\* A handler answers; of the clocks of an authenticated session it leaves
\* those that have been tested as they were, or restarts them.
LEMMA HandledTypes ==
    ASSUME NEW n \in Ses, NEW t \in Incoming, n.keepalive_recv = 0,
           n.exited = "no",
           n.kex = "none" => n.lastkex < KEX_REKEY_TIMEOUT,
           n.authdone => Fresh(n), t = "NEWKEYS" => n.kex = "newkeys",
           NEW h \in Handled(n, t)
    PROVE  /\ Wired(n, h) /\ h.exited = "no" /\ h.remoteident = n.remoteident
           /\ h.authdone => Fresh(h)
<1>1. ASSUME NEW g \in Ses, Wired(n, g), Framed(n, g), g.exited = "no", h = g
      PROVE  /\ Wired(n, h) /\ h.exited = "no" /\ h.remoteident = n.remoteident
             /\ h.authdone => Fresh(h)
  BY <1>1, FreshStays DEF Framed
<1>2. ASSUME NEW a \in WireType, h = EncryptPacket(n, a)
      PROVE  /\ Wired(n, h) /\ h.exited = "no" /\ h.remoteident = n.remoteident
             /\ h.authdone => Fresh(h)
  BY <1>1, <1>2, EncryptPacketSends DEF Wired
<1>3. ASSUME NEW a \in WireType, NEW c \in BOOLEAN,
             h = [EncryptPacket(n, a) EXCEPT !.chan = c]
      PROVE  /\ Wired(n, h) /\ h.exited = "no" /\ h.remoteident = n.remoteident
             /\ h.authdone => Fresh(h)
  <2> DEFINE e == EncryptPacket(n, a)
  <2>1. Wired(n, e) /\ Framed(n, e) /\ e.exited = "no"
    BY EncryptPacketSends
  <2>2. e \in Ses
    BY <2>1 DEF Wired
  <2> HIDE DEF e
  <2>3. h = [e EXCEPT !.chan = c]
    BY <1>3 DEF e
  <2>4. /\ h \in Ses /\ h.exited = "no" /\ h.remoteident = e.remoteident
        /\ h.wire = e.wire /\ h.any_sent = e.any_sent /\ h.idle = e.idle
        /\ h.kex = e.kex /\ h.authdone = e.authdone /\ h.lastkex = e.lastkex
        /\ h.keepalive_recv = e.keepalive_recv
    BY <2>1, <2>2, <2>3 DEF Ses
  <2>5. Wired(n, h)
    BY <2>1, <2>4 DEF Wired
  <2>6. e.authdone => Fresh(e)
    BY <2>1, FreshStays DEF Framed
  <2>7. QED
    BY <2>1, <2>4, <2>5, <2>6 DEF Fresh, DataAllowed, Framed
<1>4. CASE t = "KEXINIT"
  <2> DEFINE e == IF SentKexinit(n) THEN n ELSE SendKexinit(n)
  <2>1. Wired(n, e) /\ Framed(n, e) /\ e.exited = "no"
    BY SendKexinitSends, NothingSent DEF SentKexinit
  <2>2. e \in Ses
    BY <2>1 DEF Wired
  <2>3. h = [e EXCEPT !.kex = "both"]
    BY <1>4 DEF Handled
  <2> HIDE DEF e
  <2>4. /\ h \in Ses /\ h.exited = "no" /\ h.remoteident = e.remoteident
        /\ h.wire = e.wire /\ h.any_sent = e.any_sent /\ h.idle = e.idle
        /\ h.kex = "both" /\ h.authdone = e.authdone
        /\ h.keepalive_recv = e.keepalive_recv
    BY <2>1, <2>2, <2>3 DEF Ses, Kex
  <2>5. QED
    BY <2>1, <2>4 DEF Wired, Framed, Fresh, DataAllowed
<1>5. CASE t = "KEXDH_INIT"
  <2> DEFINE d == EncryptPacket(n, "KEXDH_REPLY")
             e == EncryptPacket(d, "NEWKEYS")
  <2>1. Wired(n, d) /\ Framed(n, d) /\ d.exited = "no"
    BY EncryptPacketSends DEF WireType
  <2>2. d \in Ses
    BY <2>1 DEF Wired
  <2>3. /\ Wired(d, e) /\ Framed(d, e) /\ e.exited = "no" /\ e.any_sent = 0
    BY <2>1, <2>2, EncryptPacketSends DEF WireType
  <2>4. e \in Ses
    BY <2>3 DEF Wired
  <2>5. h = [e EXCEPT !.kex = "newkeys", !.keyed = TRUE]
    BY <1>5 DEF Handled
  <2> HIDE DEF d, e
  <2>6. /\ h \in Ses /\ h.exited = "no" /\ h.remoteident = e.remoteident
        /\ h.wire = e.wire /\ h.any_sent = 0 /\ h.idle = e.idle
        /\ h.kex = "newkeys" /\ h.authdone = e.authdone
        /\ h.keepalive_recv = e.keepalive_recv
    BY <2>3, <2>4, <2>5 DEF Ses, Kex
  <2>7. Wired(n, e) /\ Framed(n, e)
    BY <2>1, <2>3, WiredTwice, FramedTwice
  <2>8. Wired(n, h)
    BY <2>3, <2>6, <2>7 DEF Wired
  <2>9. h.authdone => Fresh(h)
    BY <2>6, <2>7, Bounds DEF Framed, Fresh, DataAllowed
  <2>10. QED
    BY <2>6, <2>7, <2>8, <2>9 DEF Framed
<1>6. CASE t = "NEWKEYS"
  <2>1. h = [n EXCEPT !.kex = "none", !.lastkex = 0, !.datadue = FALSE]
    BY <1>6 DEF Handled
  <2>2. 0 \in 0 .. MaxKex
    BY Bounds
  <2>3. /\ h \in Ses /\ h.exited = "no" /\ h.remoteident = n.remoteident
        /\ h.wire = n.wire /\ h.any_sent = n.any_sent /\ h.idle = n.idle
        /\ h.kex = "none" /\ h.lastkex = 0 /\ h.authdone = n.authdone
        /\ h.keepalive_recv = n.keepalive_recv
    <3>1. "none" \in Kex
      BY DEF Kex
    <3>2. h \in Ses
      BY ONLY n \in Ses, <2>1, <2>2, <3>1 DEF Ses
    <3>3. /\ h.remoteident = n.remoteident /\ h.exited = n.exited
          /\ h.wire = n.wire /\ h.any_sent = n.any_sent /\ h.idle = n.idle
          /\ h.kex = "none" /\ h.lastkex = 0 /\ h.authdone = n.authdone
          /\ h.keepalive_recv = n.keepalive_recv
      BY ONLY n \in Ses, <2>1 DEF Ses
    <3>4. QED
      BY <3>2, <3>3
  <2>4. h.authdone => Fresh(h)
    BY <1>6, <2>3, Bounds DEF Fresh, DataAllowed
  <2>5. QED
    BY <2>3, <2>4 DEF Wired
<1>7. CASE t = "USERAUTH_REQUEST"
  <2> DEFINE e == EncryptPacket(n, "USERAUTH_SUCCESS")
  <2>1. /\ Wired(n, e) /\ Framed(n, e) /\ e.exited = "no" /\ e.kex = n.kex
        /\ DataAllowed(n) => e.any_sent = 0
    BY EncryptPacketSends DEF WireType, HeldType
  <2>2. e \in Ses
    BY <2>1 DEF Wired
  <2>3. \/ h = EncryptPacket(n, "USERAUTH_FAILURE")
        \/ h = [e EXCEPT !.authdone = TRUE, !.connect = 0]
    BY <1>7 DEF Handled
  <2>4. CASE h = EncryptPacket(n, "USERAUTH_FAILURE")
    BY <1>2, <2>4 DEF WireType, HeldType
  <2> HIDE DEF e
  <2>5. CASE h = [e EXCEPT !.authdone = TRUE, !.connect = 0]
    <3>1. 0 \in 0 .. MaxConnect
      BY Bounds
    <3>2. /\ h \in Ses /\ h.exited = "no" /\ h.remoteident = e.remoteident
          /\ h.wire = e.wire /\ h.any_sent = e.any_sent /\ h.idle = e.idle
          /\ h.kex = e.kex /\ h.lastkex = e.lastkex
          /\ h.keepalive_recv = e.keepalive_recv
      BY <2>1, <2>2, <2>5, <3>1 DEF Ses
    <3>3. Wired(n, h)
      BY <2>1, <3>2 DEF Wired
    <3>4. Fresh(h)
      BY <2>1, <3>2, Bounds DEF Framed, Fresh, DataAllowed
    <3>5. QED
      BY <2>1, <3>2, <3>3, <3>4 DEF Framed
  <2>6. QED
    BY <2>3, <2>4, <2>5
<1>8. CASE t = "CHANNEL_OPEN"
  <2>1. h = [EncryptPacket(n, "CHANNEL_OPEN_CONFIRMATION") EXCEPT !.chan = TRUE]
    BY <1>8 DEF Handled
  <2>2. QED
    BY <1>3, <2>1 DEF WireType, HeldType
<1>9. CASE t = "CHANNEL_CLOSE"
  <2>1. \E c \in BOOLEAN :
          h = [EncryptPacket(n, "CHANNEL_CLOSE") EXCEPT !.chan = c]
    BY <1>9 DEF Handled
  <2>2. QED
    BY <1>3, <2>1 DEF WireType, HeldType
<1>10. CASE t \in {"GLOBAL_REQUEST", "CHANNEL_REQUEST"}
  <2>1. \/ h = EncryptPacket(n, "REQUEST_FAILURE")
        \/ h = EncryptPacket(n, "CHANNEL_FAILURE")
    BY <1>10 DEF Handled
  <2>2. QED
    BY <1>2, <2>1 DEF WireType, HeldType
<1>11. CASE t \in {"IGNORE", "UNIMPLEMENTED", "CHANNEL_DATA",
                   "CHANNEL_FAILURE", "REQUEST_FAILURE"}
  <2>1. h = n
    BY <1>11 DEF Handled
  <2>2. QED
    BY <1>1, <2>1, NothingSent
<1>12. QED
  BY <1>4, <1>5, <1>6, <1>7, <1>8, <1>9, <1>10, <1>11 DEF Incoming

---------------------------------------------------------------------------
(* A turn of session_loop() *)

\* svr_sessionloop() adds its own test; after it select() has its full timeout.
LEMMA EndTurnKeeps ==
    ASSUME IInv, ses.exited = "no",
           NEW s \in Ses, NEW received, EndTurn(s, received),
           Wired(ses, s), IdleEnd(s),
           s.idle = 0 \/ received \subseteq KeepaliveTraffic,
           s.authdone => s.remoteident = "read",
           s.authdone /\ s.exited = "no" => Fresh(s)
    PROVE  IInv'
<1> DEFINE h == SvrSessionloop(s)
<1>1. /\ h \in Ses /\ h.idle = s.idle /\ h.any_sent = s.any_sent
      /\ h.wire = s.wire /\ h.authdone = s.authdone /\ h.connect = s.connect
      /\ h.keepalive_recv = s.keepalive_recv /\ h.lastkex = s.lastkex
      /\ h.kex = s.kex /\ h.remoteident = s.remoteident
      /\ h.exited \in {s.exited, "Timeout before auth"}
      /\ h.exited = "no" /\ ~h.authdone => h.connect < AUTH_TIMEOUT
  <2>1. CASE ~s.authdone /\ s.connect >= AUTH_TIMEOUT /\ s.exited = "no"
    <3>1. h = [s EXCEPT !.exited = "Timeout before auth"]
      BY <2>1 DEF SvrSessionloop
    <3>2. QED
      BY <3>1 DEF Ses, Ended
  <2>2. CASE ~(~s.authdone /\ s.connect >= AUTH_TIMEOUT /\ s.exited = "no")
    <3>1. h = s
      BY <2>2, Zenon DEF SvrSessionloop
    <3>2. s.connect \in Nat
      BY SesFields, Bounds
    <3>3. QED
      BY <2>2, <3>1, <3>2, Bounds
  <2>3. QED
    BY <2>1, <2>2
<1>2. PICK d \in DataDue(h, received) :
        /\ ses' = [h EXCEPT !.wire = {}, !.datadue = d]
        /\ left' = SelectTimeout(h) /\ real' = Observed(h, received)
  BY Zenon DEF EndTurn
<1> HIDE DEF h
<1>3. /\ left' \in 0 .. Slack
      /\ KEEPALIVE > 0 => left' <= KEEPALIVE
      /\ ~h.authdone => left' <= AUTH_TIMEOUT
  BY <1>1, <1>2, TimeoutBounds
<1>4. /\ ses' \in Ses /\ ses'.wire = {} /\ ses'.idle = h.idle
      /\ ses'.any_sent = h.any_sent /\ ses'.authdone = h.authdone
      /\ ses'.connect = h.connect /\ ses'.lastkex = h.lastkex
      /\ ses'.keepalive_recv = h.keepalive_recv /\ ses'.kex = h.kex
      /\ ses'.remoteident = h.remoteident /\ ses'.exited = h.exited
  <2>1. PICK n : n = [h EXCEPT !.wire = {}, !.datadue = d]
    OBVIOUS
  <2>2. d \in BOOLEAN
    BY <1>1, <1>2, SesFields DEF DataDue
  <2>3. /\ n \in Ses /\ n.wire = {} /\ n.idle = h.idle
        /\ n.any_sent = h.any_sent /\ n.authdone = h.authdone
        /\ n.connect = h.connect /\ n.lastkex = h.lastkex
        /\ n.keepalive_recv = h.keepalive_recv /\ n.kex = h.kex
        /\ n.remoteident = h.remoteident /\ n.exited = h.exited
    BY <1>1, <2>1, <2>2 DEF Ses
  <2>4. QED
    BY <1>1, <1>2, <2>1, <2>3
<1>5. ses.wire = {} /\ real \in Real /\ ses \in Ses
  BY DEF IInv, Typed
<1>6. real'.sent = ses'.any_sent
  <2>1. real'.sent = IF h.wire # {} THEN 0 ELSE real.sent
    BY <1>2 DEF Observed
  <2>2. QED
    BY <1>1, <1>4, <1>5, <2>1 DEF IInv, Honest, Wired
<1>7. real'.traffic = real.traffic \/ (real'.traffic = 0 /\ h.idle = 0)
  <2>1. real'.traffic = IF (h.wire \cup received) \ KeepaliveTraffic # {}
                        THEN 0 ELSE real.traffic
    BY <1>2 DEF Observed
  <2>2. CASE h.idle = 0
    BY <2>1, <2>2
  <2>3. CASE h.idle # 0
    <3>1. s.wire \subseteq KeepaliveTraffic /\ received \subseteq KeepaliveTraffic
      BY <1>1, <1>5, <2>3 DEF Wired
    <3>2. QED
      BY <1>1, <2>1, <3>1
  <2>4. QED
    BY <2>2, <2>3
<1>8. real' \in Real
  <2>1. /\ real'.sent \in 0 .. MaxAnySent
        /\ real'.traffic \in 0 .. MaxTraffic
    BY <1>4, <1>5, <1>6, <1>7, SesFields, Bounds DEF Real
  <2>2. real'.owed \in NotOwed .. MaxRecv
    <3>1. real'.owed \in {real.owed, NotOwed, 0}
      BY <1>2 DEF Observed
    <3>2. real.owed \in NotOwed .. MaxRecv
      BY <1>5 DEF Real
    <3>3. QED
      BY <3>1, <3>2, Bounds DEF NotOwed
  <2>3. real' = [sent |-> real'.sent, traffic |-> real'.traffic,
                 owed |-> real'.owed]
    BY <1>2 DEF Observed
  <2>4. QED
    BY <2>1, <2>2, <2>3 DEF Real
<1>9. h.idle \in {ses.idle, 0}
  BY <1>1 DEF Wired
<1>10. Honest'
  <2>1. IDLE_TIMEOUT > 0 => ses'.idle <= real'.traffic
    <3>1. IDLE_TIMEOUT > 0 => ses.idle <= real.traffic
      BY DEF IInv, Honest
    <3>2. real.traffic >= 0
      BY <1>5, Bounds DEF Real
    <3>3. QED
      BY <1>4, <1>7, <1>9, <3>1, <3>2
  <2>2. ASSUME ses'.exited = "Idle timeout"
        PROVE  real'.traffic >= IDLE_TIMEOUT
    <3>1. s.exited = "Idle timeout"
      BY <1>1, <1>4, <2>2
    <3>2. IDLE_TIMEOUT > 0 /\ ses'.idle >= IDLE_TIMEOUT
      BY <1>1, <1>4, <3>1 DEF IdleEnd
    <3>3. ses'.idle \in Nat /\ real'.traffic \in Nat
      BY <1>4, <1>8, SesFields, Bounds DEF Real
    <3>4. QED
      BY <2>1, <3>2, <3>3, Bounds
  <2>3. QED
    BY <1>6, <2>1, <2>2 DEF Honest
<1>11. ASSUME ses'.exited = "no"
       PROVE  InTime(ses', left')
  <2>1. h.exited = "no" /\ s.exited = "no"
    BY <1>1, <1>4, <1>11
  <2>2. ses'.authdone => Fresh(ses')
    BY <1>1, <1>4, <2>1 DEF Fresh, DataAllowed
  <2>3. ~ses'.authdone => ses'.connect < AUTH_TIMEOUT /\ left' <= AUTH_TIMEOUT
    BY <1>1, <1>3, <1>4, <2>1
  <2>4. /\ ses'.keepalive_recv \in Nat /\ ses'.any_sent \in Nat
        /\ ses'.lastkex \in Nat /\ ses'.connect \in Nat
    BY <1>4, SesFields, Bounds
  <2>5. QED
    BY <1>3, <2>2, <2>3, <2>4, Bounds DEF InTime, Fresh
<1>12. QED
  BY <1>1, <1>3, <1>4, <1>8, <1>10, <1>11 DEF IInv, Typed, InTime

\* What checktimeouts() makes of a session in this invariant
LEMMA AfterChecks ==
    ASSUME IInv, ses.exited = "no"
    PROVE  LET c == CheckTimeouts(ses)
           IN  /\ c \in Ses /\ Wired(ses, c) /\ Framed(ses, c) /\ IdleEnd(c)
               /\ c.authdone => c.remoteident = "read"
               /\ c.exited = "no" /\ c.authdone => Fresh(c)
               /\ c.exited = "no" /\ ses.remoteident = "read" =>
                    (c.kex = "none" => c.lastkex < KEX_REKEY_TIMEOUT)
<1> DEFINE c == CheckTimeouts(ses)
<1>1. ses \in Ses /\ (ses.authdone => ses.remoteident = "read")
  BY DEF IInv, Typed
<1>2. /\ Wired(ses, c) /\ Framed(ses, c) /\ IdleEnd(c)
      /\ ses.remoteident = "read" /\ c.exited = "no" =>
           /\ c.kex = "none" => c.lastkex < KEX_REKEY_TIMEOUT
           /\ c.authdone => Fresh(c)
  BY <1>1, CheckTests
<1> HIDE DEF c
<1>3. c.authdone = ses.authdone /\ c.remoteident = ses.remoteident /\ c \in Ses
  BY <1>2 DEF Framed, Wired
<1>4. QED
  BY <1>1, <1>2, <1>3 DEF c

LEMMA NoPacketKeeps == IInv /\ NoPacket => IInv'
<1> SUFFICES ASSUME IInv, NoPacket PROVE IInv'
  OBVIOUS
<1> DEFINE c == CheckTimeouts(ses)
           m == IF c.exited = "no" THEN MaybeFlushReplyQueue(c) ELSE c
<1>1. ses.exited = "no" /\ EndTurn(m, {})
  BY DEF NoPacket, InSelect
<1>2. /\ c \in Ses /\ Wired(ses, c) /\ Framed(ses, c) /\ IdleEnd(c)
      /\ c.authdone => c.remoteident = "read"
      /\ c.exited = "no" /\ c.authdone => Fresh(c)
  BY <1>1, AfterChecks
<1> HIDE DEF c
<1>3. Wired(c, m) /\ Framed(c, m) /\ m.exited = c.exited
  BY <1>2, MaybeFlushSends, NothingSent
<1> HIDE DEF m
<1>4. m \in Ses /\ m.authdone = c.authdone /\ m.remoteident = c.remoteident
  BY <1>3 DEF Wired, Framed
<1>5. m.authdone /\ m.exited = "no" => Fresh(m)
  BY <1>2, <1>3, <1>4, FreshStays
<1>6. IdleEnd(m)
  <2>1. CASE c.exited = "no"
    BY <1>3, <2>1 DEF IdleEnd
  <2>2. CASE c.exited # "no"
    BY <1>2, <2>2 DEF m
  <2>3. QED
    BY <2>1, <2>2
<1>7. Wired(ses, m)
  BY <1>2, <1>3, WiredTwice
<1>8. QED
  BY <1>1, <1>2, <1>4, <1>5, <1>6, <1>7, EndTurnKeeps

LEMMA ReadPacketKeeps == IInv /\ ReadPacket => IInv'
<1> SUFFICES ASSUME IInv, ReadPacket PROVE IInv'
  OBVIOUS
<1> DEFINE c == CheckTimeouts(ses)
<1>1. PICK t \in Incoming :
        /\ ses.exited = "no" /\ ses.remoteident = "read" /\ MaySend(ses, t)
        /\ IF c.exited # "no" THEN EndTurn(c, {})
           ELSE \E h \in Handled(Note(c, t), t) :
                    EndTurn(MaybeFlushReplyQueue(h), {t})
  BY Zenon DEF ReadPacket, InSelect
<1>2. /\ c \in Ses /\ Wired(ses, c) /\ Framed(ses, c) /\ IdleEnd(c)
      /\ c.authdone => c.remoteident = "read"
      /\ c.exited = "no" /\ c.authdone => Fresh(c)
      /\ c.exited = "no" => (c.kex = "none" => c.lastkex < KEX_REKEY_TIMEOUT)
  BY <1>1, AfterChecks
<1> HIDE DEF c
<1>3. CASE c.exited # "no"
  <2>1. EndTurn(c, {})
    BY <1>1, <1>3
  <2>2. QED
    BY <1>1, <1>2, <1>3, <2>1, EndTurnKeeps
<1>4. CASE c.exited = "no"
  <2> DEFINE n == Note(c, t)
  <2>1. PICK h \in Handled(n, t) : EndTurn(MaybeFlushReplyQueue(h), {t})
    BY <1>1, <1>4
  <2>2. /\ Wired(c, n) /\ n.exited = c.exited
        /\ n.keepalive_recv = 0 /\ n.kex = c.kex
        /\ n.any_sent = c.any_sent /\ n.lastkex = c.lastkex
        /\ n.authdone = c.authdone /\ n.remoteident = c.remoteident
        /\ n.idle = 0 \/ t \in KeepaliveTraffic
    BY <1>2, NoteTypes
  <2>3. n \in Ses
    BY <2>2 DEF Wired
  <2> HIDE DEF n
  <2>4. n.kex = "none" => n.lastkex < KEX_REKEY_TIMEOUT
    BY <1>2, <1>4, <2>2
  <2>5. n.authdone => Fresh(n)
    BY <1>2, <1>4, <2>2, Bounds DEF Fresh, DataAllowed
  <2>6. t = "NEWKEYS" => n.kex = "newkeys"
    <3>1. t = "NEWKEYS" => ses.kex = "newkeys"
      BY <1>1 DEF MaySend
    <3>2. QED
      BY <1>2, <2>2, <3>1 DEF Framed
  <2>7. /\ Wired(n, h) /\ h.exited = "no" /\ h.remoteident = n.remoteident
        /\ h.authdone => Fresh(h)
    BY <1>4, <2>2, <2>3, <2>4, <2>5, <2>6, HandledTypes
  <2>8. h \in Ses
    BY <2>7 DEF Wired
  <2> DEFINE m == MaybeFlushReplyQueue(h)
  <2>9. Wired(h, m) /\ Framed(h, m) /\ m.exited = h.exited
    BY <2>8, MaybeFlushSends
  <2> HIDE DEF m
  <2>10. m \in Ses /\ m.remoteident = "read" /\ m.exited = "no"
    BY <1>1, <1>2, <2>2, <2>7, <2>9 DEF Wired, Framed
  <2>11. Wired(ses, m)
    <3>1. Wired(ses, n)
      BY <1>2, <2>2, WiredTwice
    <3>2. Wired(n, m)
      BY <2>7, <2>9, WiredTwice
    <3>3. QED
      BY <3>1, <3>2, WiredTwice
  <2>12. m.authdone => Fresh(m)
    BY <2>7, <2>9, FreshStays DEF Framed
  <2>13. m.idle = 0 \/ {t} \subseteq KeepaliveTraffic
    BY <2>2, <2>7, <2>9 DEF Wired
  <2>14. IdleEnd(m)
    BY <2>10 DEF IdleEnd
  <2>15. EndTurn(m, {t})
    BY <2>1 DEF m
  <2>16. QED
    BY <1>1, <2>10, <2>11, <2>12, <2>13, <2>14, <2>15, EndTurnKeeps
<1>5. QED
  BY <1>3, <1>4

LEMMA OutputKeeps == IInv /\ Output => IInv'
<1> SUFFICES ASSUME IInv, Output PROVE IInv'
  OBVIOUS
<1> DEFINE c == CheckTimeouts(ses)
           f == MaybeFlushReplyQueue(c)
           m == EncryptPacket(f, "CHANNEL_DATA")
<1>1. ses.exited = "no" /\ IF c.exited # "no" THEN EndTurn(c, {}) ELSE EndTurn(m, {})
  BY Zenon DEF Output, InSelect
<1>2. /\ c \in Ses /\ Wired(ses, c) /\ Framed(ses, c) /\ IdleEnd(c)
      /\ c.authdone => c.remoteident = "read"
      /\ c.exited = "no" /\ c.authdone => Fresh(c)
  BY <1>1, AfterChecks
<1> HIDE DEF c
<1>3. CASE c.exited # "no"
  <2>1. EndTurn(c, {})
    BY <1>1, <1>3
  <2>2. QED
    BY <1>1, <1>2, <1>3, <2>1, EndTurnKeeps
<1>4. CASE c.exited = "no"
  <2>1. EndTurn(m, {})
    BY <1>1, <1>4
  <2>2. Wired(c, f) /\ Framed(c, f) /\ f.exited = "no"
    BY <1>2, <1>4, MaybeFlushSends
  <2>3. f \in Ses
    BY <2>2 DEF Wired
  <2> HIDE DEF f
  <2>4. Wired(f, m) /\ Framed(f, m) /\ m.exited = "no"
    BY <2>2, <2>3, EncryptPacketSends DEF WireType, HeldType
  <2> HIDE DEF m
  <2>5. Wired(c, m) /\ Framed(c, m)
    BY <2>2, <2>4, WiredTwice, FramedTwice
  <2>6. m \in Ses /\ (m.authdone => m.remoteident = "read") /\ IdleEnd(m)
    BY <1>2, <2>4, <2>5 DEF Wired, Framed, IdleEnd
  <2>7. m.authdone => Fresh(m)
    BY <1>2, <1>4, <2>5, FreshStays DEF Framed
  <2>8. Wired(ses, m)
    BY <1>2, <2>5, WiredTwice
  <2>9. QED
    BY <1>1, <2>1, <2>6, <2>7, <2>8, EndTurnKeeps
<1>5. QED
  BY <1>3, <1>4

LEMMA IdentReadKeeps == IInv /\ IdentRead => IInv'
<1> SUFFICES ASSUME IInv, IdentRead PROVE IInv'
  OBVIOUS
<1> DEFINE c == [ses EXCEPT !.remoteident = "read"]
           m == MaybeFlushReplyQueue(c)
<1>1. ses.exited = "no" /\ ses.remoteident = "reading" /\ EndTurn(m, {})
  BY DEF IdentRead
<1>2. ses \in Ses /\ ~ses.authdone
  BY <1>1, SesFields DEF IInv, Typed
<1>3. /\ c \in Ses /\ Wired(ses, c) /\ c.exited = "no" /\ ~c.authdone
      /\ c.remoteident = "read"
  BY <1>1, <1>2 DEF Ses, Ident, Wired
<1> HIDE DEF c
<1>4. Wired(c, m) /\ Framed(c, m) /\ m.exited = "no"
  BY <1>3, MaybeFlushSends
<1> HIDE DEF m
<1>5. m \in Ses /\ ~m.authdone /\ IdleEnd(m)
  BY <1>3, <1>4 DEF Wired, Framed, IdleEnd
<1>6. Wired(ses, m)
  BY <1>3, <1>4, WiredTwice
<1>7. QED
  BY <1>1, <1>5, <1>6, EndTurnKeeps

LEMMA IdentKeeps == IInv /\ (StartIdent \/ IdentFails) => IInv'
<1>1. ASSUME IInv, StartIdent PROVE IInv'
  <2>1. ses \in Ses /\ ~ses.authdone /\ ses.exited = "no"
    BY <1>1, SesFields DEF StartIdent, InSelect, IInv, Typed
  <2>2. /\ ses' \in Ses /\ ses'.wire = ses.wire /\ ~ses'.authdone
        /\ ses'.remoteident = "reading" /\ ses'.any_sent = ses.any_sent
        /\ ses'.idle = ses.idle /\ ses'.exited = "no"
        /\ left' = left /\ real' = real
    BY <1>1, <2>1 DEF StartIdent, Ses, Ident
  <2>3. QED
    BY <1>1, <2>2 DEF IInv, Typed, Honest, InTime
<1>2. ASSUME IInv, IdentFails PROVE IInv'
  <2>1. /\ ses' \in Ses /\ ses'.wire = ses.wire /\ ses'.authdone = ses.authdone
        /\ ses'.remoteident = ses.remoteident /\ ses'.any_sent = ses.any_sent
        /\ ses'.idle = ses.idle /\ ses'.exited = "remote closed"
        /\ left' = left /\ real' = real
    BY <1>2 DEF IdentFails, Ses, Ended, IInv, Typed
  <2>2. QED
    BY <1>2, <2>1 DEF IInv, Typed, Honest
<1>3. QED
  BY <1>1, <1>2

---------------------------------------------------------------------------
(* Time *)

LEMMA OlderBounds ==
    ASSUME NEW max \in Nat, NEW age \in 0 .. max
    PROVE  /\ Older(age, max) \in 0 .. max
           /\ Older(age, max) <= age + 1
           /\ Older(age, max) >= age
BY DEF Older, Least

LEMMA TickKeeps == IInv /\ Tick => IInv'
<1> SUFFICES ASSUME IInv, Tick PROVE IInv'
  OBVIOUS
<1>1. /\ ses \in Ses /\ real \in Real /\ left \in 0 .. Slack /\ ses.exited = "no"
      /\ Honest /\ InTime(ses, left) /\ ses.wire = {}
      /\ ses.authdone => ses.remoteident = "read"
  BY DEF IInv, Typed, Tick
<1>2. /\ MaxAnySent \in Nat /\ MaxRecv \in Nat /\ MaxIdle \in Nat
      /\ MaxKex \in Nat /\ MaxConnect \in Nat /\ MaxTraffic \in Nat
      /\ KEEPALIVE \in Nat
  BY Bounds
<1>3. /\ Older(ses.any_sent, MaxAnySent) \in 0 .. MaxAnySent
      /\ Older(ses.keepalive_recv, MaxRecv) \in 0 .. MaxRecv
      /\ Older(ses.keepalive_sent, KEEPALIVE) \in 0 .. KEEPALIVE
      /\ Older(ses.idle, MaxIdle) \in 0 .. MaxIdle
      /\ Older(ses.lastkex, MaxKex) \in 0 .. MaxKex
      /\ Older(ses.connect, MaxConnect) \in 0 .. MaxConnect
  BY <1>1, <1>2, SesFields, OlderBounds
<1>4. /\ Older(ses.any_sent, MaxAnySent) <= ses.any_sent + 1
      /\ Older(ses.keepalive_recv, MaxRecv) <= ses.keepalive_recv + 1
      /\ Older(ses.lastkex, MaxKex) <= ses.lastkex + 1
      /\ Older(ses.connect, MaxConnect) <= ses.connect + 1
  BY <1>1, <1>2, SesFields, OlderBounds
<1>5. /\ ses' \in Ses
      /\ ses'.any_sent = Older(ses.any_sent, MaxAnySent)
      /\ ses'.keepalive_recv = Older(ses.keepalive_recv, MaxRecv)
      /\ ses'.idle = Older(ses.idle, MaxIdle)
      /\ ses'.lastkex = Older(ses.lastkex, MaxKex)
      /\ ~ses.authdone => ses'.connect = Older(ses.connect, MaxConnect)
      /\ ses'.wire = ses.wire /\ ses'.kex = ses.kex
      /\ ses'.authdone = ses.authdone /\ ses'.remoteident = ses.remoteident
      /\ ses'.exited = ses.exited
  <2> DEFINE connect == IF ses.authdone THEN 0 ELSE Older(ses.connect, MaxConnect)
  <2>1. connect \in 0 .. MaxConnect
    BY <1>2, <1>3
  <2>2. ses' = [ses EXCEPT
                  !.any_sent = Older(ses.any_sent, MaxAnySent),
                  !.keepalive_recv = Older(ses.keepalive_recv, MaxRecv),
                  !.keepalive_sent = Older(ses.keepalive_sent, KEEPALIVE),
                  !.idle = Older(ses.idle, MaxIdle),
                  !.lastkex = Older(ses.lastkex, MaxKex),
                  !.connect = connect]
    BY Zenon DEF Tick
  <2>3. ~ses.authdone => connect = Older(ses.connect, MaxConnect)
    OBVIOUS
  <2> HIDE DEF connect
  <2>4. QED
    BY <1>1, <1>3, <2>1, <2>2, <2>3 DEF Ses
<1>6. /\ left' = IF ses.remoteident = "reading" THEN left ELSE left - 1
      /\ left > 0 \/ ses.remoteident = "reading"
  BY DEF Tick
<1>7. left' \in 0 .. Slack
  BY <1>1, <1>6, Bounds
<1>8. /\ real'.sent = Older(real.sent, MaxAnySent)
      /\ real'.traffic = Older(real.traffic, MaxTraffic)
      /\ real' \in Real
  <2> DEFINE owed == IF real.owed = NotOwed THEN NotOwed ELSE Older(real.owed, MaxRecv)
  <2>1. real.sent \in 0 .. MaxAnySent /\ real.traffic \in 0 .. MaxTraffic
        /\ real.owed \in NotOwed .. MaxRecv
    BY <1>1 DEF Real
  <2>2. owed \in NotOwed .. MaxRecv
    <3>1. CASE real.owed = NotOwed
      BY <1>2, <3>1 DEF NotOwed
    <3>2. CASE real.owed # NotOwed
      <4>1. real.owed \in 0 .. MaxRecv
        BY <1>2, <2>1, <3>2 DEF NotOwed
      <4>2. Older(real.owed, MaxRecv) \in 0 .. MaxRecv
        BY <1>2, <4>1, OlderBounds
      <4>3. QED
        BY <1>2, <3>2, <4>2 DEF NotOwed
    <3>3. QED
      BY <3>1, <3>2
  <2>3. real' = [sent |-> Older(real.sent, MaxAnySent),
                 traffic |-> Older(real.traffic, MaxTraffic), owed |-> owed]
    BY Zenon DEF Tick
  <2> HIDE DEF owed
  <2>4. /\ Older(real.sent, MaxAnySent) \in 0 .. MaxAnySent
        /\ Older(real.traffic, MaxTraffic) \in 0 .. MaxTraffic
    BY <1>2, <2>1, OlderBounds
  <2>5. QED
    BY <2>2, <2>3, <2>4 DEF Real
<1>9. Honest'
  <2>1. real'.sent = ses'.any_sent
    BY <1>1, <1>5, <1>8 DEF Honest
  <2>2. IDLE_TIMEOUT > 0 => ses'.idle <= real'.traffic
    <3>1. ses.idle \in 0 .. MaxIdle /\ real.traffic \in 0 .. MaxTraffic
      BY <1>1, SesFields DEF Real
    <3>2. IDLE_TIMEOUT > 0 => MaxIdle <= MaxTraffic /\ ses.idle <= real.traffic
      BY <1>1, Bounds DEF Honest
    <3>3. QED
      BY <1>2, <1>5, <1>8, <3>1, <3>2 DEF Older, Least
  <2>3. QED
    BY <1>1, <1>5, <2>1, <2>2 DEF Honest
<1>10. InTime(ses', left')
  <2>1. CASE ses.remoteident = "reading"
    <3>1. ~ses'.authdone /\ ses'.remoteident = "reading"
      BY <1>1, <1>5, <2>1
    <3>2. QED
      BY <3>1 DEF InTime
  <2>2. CASE ses.remoteident # "reading"
    <3>1. left' = left - 1 /\ left \in Nat
      BY <1>1, <1>6, <2>2, Bounds
    <3>2. /\ ses.any_sent \in Nat /\ ses.keepalive_recv \in Nat
          /\ ses.lastkex \in Nat /\ ses.connect \in Nat
          /\ ses'.any_sent \in Nat /\ ses'.keepalive_recv \in Nat
          /\ ses'.lastkex \in Nat /\ ses'.connect \in Nat
      BY <1>1, <1>2, <1>5, SesFields
    <3>3. /\ ses'.any_sent + left' <= ses.any_sent + left
          /\ ses'.keepalive_recv + left' <= ses.keepalive_recv + left
          /\ ses'.lastkex + left' <= ses.lastkex + left
          /\ ~ses.authdone => ses'.connect + left' <= ses.connect + left
      BY <1>4, <1>5, <3>1, <3>2
    <3>4. QED
      BY <1>1, <1>2, <1>5, <3>1, <3>2, <3>3 DEF InTime, DataAllowed
  <2>3. QED
    BY <2>1, <2>2
<1>11. QED
  BY <1>1, <1>5, <1>7, <1>8, <1>9, <1>10 DEF IInv, Typed

---------------------------------------------------------------------------

LEMMA InitHolds == Init => IInv
<1> SUFFICES ASSUME Init PROVE IInv
  OBVIOUS
<1>1. /\ 0 \in 0 .. MaxAnySent /\ 0 \in 0 .. MaxRecv /\ 0 \in 0 .. MaxIdle
      /\ 0 \in 0 .. MaxKex /\ 0 \in 0 .. MaxConnect /\ 0 \in 0 .. MaxTraffic
      /\ KEEPALIVE \in 0 .. KEEPALIVE /\ 0 \in NotOwed .. MaxRecv
  BY Bounds DEF NotOwed
<1>2. /\ ses \in Ses /\ ses.wire = {} /\ ses.any_sent = 0 /\ ses.idle = 0
      /\ ses.connect = 0 /\ ~ses.authdone /\ ses.exited = "no"
  BY <1>1 DEF Init, Ses, Kex, Ident, Ended
<1>3. real \in Real /\ real.sent = 0 /\ real.traffic = 0
  BY <1>1 DEF Init, Real
<1>4. left \in 0 .. Slack /\ left <= AUTH_TIMEOUT
  BY <1>2, TimeoutBounds DEF Init
<1>5. InTime(ses, left)
  BY <1>2, <1>4, Bounds DEF InTime
<1>6. QED
  BY <1>2, <1>3, <1>4, <1>5 DEF IInv, Typed, Honest

(* Invariance: the strengthening below the limits on a session's clocks is  *)
(* an invariant, for every length of the intervals.                         *)
THEOREM Invariance == Spec => []IInv
<1>1. IInv /\ [Next]_vars => IInv'
  <2> SUFFICES ASSUME IInv, [Next]_vars PROVE IInv'
    OBVIOUS
  <2>1. CASE NoPacket
    BY <2>1, NoPacketKeeps
  <2>2. CASE ReadPacket
    BY <2>2, ReadPacketKeeps
  <2>3. CASE Output
    BY <2>3, OutputKeeps
  <2>4. CASE StartIdent \/ IdentFails
    BY <2>4, IdentKeeps
  <2>5. CASE IdentRead
    BY <2>5, IdentReadKeeps
  <2>6. CASE Tick
    BY <2>6, TickKeeps
  <2>7. CASE UNCHANGED vars
    BY <2>7 DEF vars, IInv, Typed, Honest, InTime, DataAllowed
  <2>8. QED
    BY <2>1, <2>2, <2>3, <2>4, <2>5, <2>6, <2>7 DEF Next
<1>2. QED
  BY <1>1, InitHolds, PTL DEF Spec

(* TypeCorrect: no clock passes the cap up to which it is kept.             *)
THEOREM TypeCorrect == Spec => []TypeOK
<1>1. IInv => TypeOK
  <2> SUFFICES ASSUME IInv PROVE TypeOK
    OBVIOUS
  <2>1. ses \in Ses /\ ses.wire = {} /\ left \in 0 .. Slack /\ real \in Real
    BY DEF IInv, Typed
  <2>2. QED
    BY <2>1, SesFields DEF TypeOK, Real, Kex, Ident
<1>2. QED
  BY <1>1, Invariance, PTL

(* SendGapKept: an authenticated session that may send is never silent for  *)
(* two keepalive intervals.                                                 *)
THEOREM SendGapKept == Spec => []SendGap
<1>1. IInv => SendGap
  <2> SUFFICES ASSUME IInv, Live, KEEPALIVE > 0, ses.authdone, DataAllowed(ses)
               PROVE  real.sent < 2 * KEEPALIVE
    BY DEF SendGap
  <2>1. ses.any_sent + left < MaxAnySent /\ real.sent = ses.any_sent
    BY DEF IInv, InTime, Honest, Live
  <2>2. left \in Nat /\ ses.any_sent \in Nat
    BY SesFields, Bounds DEF IInv, Typed
  <2>3. QED
    BY <2>1, <2>2, Bounds DEF MaxAnySent
<1>2. QED
  BY <1>1, Invariance, PTL

(* DeadPeerGone: a session whose peer is silent is over after               *)
(* KEEPALIVE_LIMIT + 1 intervals.                                           *)
THEOREM DeadPeerGone == Spec => []DeadPeerNoticed
<1>1. IInv => DeadPeerNoticed
  <2> SUFFICES ASSUME IInv, Live, KEEPALIVE > 0, ses.authdone
               PROVE  ses.keepalive_recv < (KEEPALIVE_LIMIT + 1) * KEEPALIVE
    BY DEF DeadPeerNoticed
  <2>1. ses.keepalive_recv + left < MaxRecv
    BY DEF IInv, InTime, Live
  <2>2. left \in Nat /\ ses.keepalive_recv \in Nat
    BY SesFields, Bounds DEF IInv, Typed
  <2>3. MaxRecv \in Nat /\ MaxRecv = (KEEPALIVE_LIMIT + 1) * KEEPALIVE
    BY Bounds DEF MaxRecv
  <2>4. QED
    BY <2>1, <2>2, <2>3
<1>2. QED
  BY <1>1, Invariance, PTL

(* BusyNotIdle: a session is only closed as idle when no traffic of its     *)
(* channels went over the wire for IDLE_TIMEOUT.                            *)
THEOREM BusyNotIdle == Spec => []NotIdle
<1>1. IInv => NotIdle
  BY DEF IInv, Honest, NotIdle
<1>2. QED
  BY <1>1, Invariance, PTL

(* AuthLimited: a client that does not authenticate is gone before twice    *)
(* AUTH_TIMEOUT, once its identification is read or before it begins.       *)
THEOREM AuthLimited == Spec => []AuthInTime
<1>1. IInv => AuthInTime
  <2> SUFFICES ASSUME IInv, Live, ~ses.authdone, ses.remoteident # "reading"
               PROVE  ses.connect < 2 * AUTH_TIMEOUT
    BY DEF AuthInTime
  <2>1. ses.connect + left < MaxConnect
    BY DEF IInv, InTime, Live
  <2>2. left \in Nat /\ ses.connect \in Nat
    BY SesFields, Bounds DEF IInv, Typed
  <2>3. QED
    BY <2>1, <2>2, Bounds DEF MaxConnect
<1>2. QED
  BY <1>1, Invariance, PTL

(* RekeyStarted: keys older than KEX_REKEY_TIMEOUT and one sleep of         *)
(* select() are being replaced.                                             *)
THEOREM RekeyStarted == Spec => []RekeyInTime
<1>1. IInv => RekeyInTime
  <2> SUFFICES ASSUME IInv, Live, ses.authdone, ses.kex = "none"
               PROVE  ses.lastkex < MaxKex
    BY DEF RekeyInTime
  <2>1. ses.lastkex + left < MaxKex
    BY DEF IInv, InTime, Live
  <2>2. left \in Nat /\ ses.lastkex \in Nat
    BY SesFields, Bounds DEF IInv, Typed
  <2>3. QED
    BY <2>1, <2>2, Bounds
<1>2. QED
  BY <1>1, Invariance, PTL

---------------------------------------------------------------------------
(* Idle sessions and unanswered keepalives *)

\* What a session is owed and how long it has been idle, between turns: no
\* keepalive makes it look busy, and a peer is not silent for two intervals
\* before something is asked of it.
Due ==
    /\ DataAllowed(ses) => ses.held = {}
    /\ ses.keyed => ses.remoteident = "read"
    /\ IDLE_TIMEOUT > 0 /\ ses.keyed /\ ~ses.chan =>
         real.traffic <= ses.idle /\ ses.idle + left < MaxIdle
    /\ KEEPALIVE > 0 /\ ses.authdone =>
         IF real.owed = NotOwed
         THEN /\ ses.kex = "none" /\ ses.keepalive_recv + left < MaxAnySent
              /\ \/ ses.keepalive_recv <= ses.keepalive_sent
                 \/ KEEPALIVE <= ses.keepalive_sent
         ELSE ses.keepalive_recv < real.owed + MaxAnySent

DInv == /\ IInv
        /\ ses.exited = "no" => Due
        /\ KEEPALIVE_LIMIT > 2 => PeerWasAsked

\* From s to t an end has kept its idle time unless it sent real traffic, and
\* its reply queue holds nothing that may go out; a keepalive it has sent is on
\* the wire, or an exchange holds it back.
Earned(s, t) == t.idle = s.idle \/ t.wire \ KeepaliveTraffic # {}
Drained(s) == DataAllowed(s) => s.held = {} \/ s.wire \ KeepaliveTraffic # {}
Asked(s, t) ==
    \/ t.keepalive_sent = s.keepalive_sent
    \/ t.kex # "none" \/ t.wire \cap Request # {}
Spared(s, t) == Earned(s, t) /\ (Drained(s) => Drained(t)) /\ Asked(s, t)

\* Spared is a preorder along what a turn does.
LEMMA SparedTwice ==
    ASSUME NEW s, NEW t, NEW u, Spared(s, t), Spared(t, u), Wired(t, u), Framed(t, u)
    PROVE  Spared(s, u)
<1>1. t.wire \subseteq u.wire /\ (t.kex # "none" => u.kex # "none")
  BY DEF Wired, Framed
<1>2. Earned(s, u)
  BY <1>1 DEF Spared, Earned
<1>3. Asked(s, u)
  BY <1>1 DEF Spared, Asked
<1>4. QED
  BY <1>2, <1>3 DEF Spared

LEMMA NothingSpared == ASSUME NEW s PROVE Spared(s, s)
BY DEF Spared, Earned, Asked

\* What OnWire() does to a session
LEMMA OnWireFields ==
    ASSUME NEW s \in Ses, NEW T
    PROVE  LET t == OnWire(s, T)
           IN  /\ t.wire = s.wire \cup T /\ t.held = s.held /\ t.kex = s.kex
               /\ t.keepalive_sent = s.keepalive_sent
               /\ T \subseteq {"REQUEST_FAILURE", "UNIMPLEMENTED", "IGNORE"} =>
                    t.idle = s.idle
BY DEF OnWire, Ses

\* Anything but a keepalive and the answer to a channel request earns the
\* idle time it resets.
LEMMA EncryptSpares ==
    ASSUME NEW s \in Ses, NEW t \in WireType,
           t \notin {"GLOBAL_REQUEST", "CHANNEL_REQUEST", "CHANNEL_FAILURE"}
    PROVE  Spared(s, EncryptPacket(s, t))
<1>. DEFINE u == EncryptPacket(s, t)
<1>1. CASE ~DataAllowed(s) /\ (t \notin KexType \/ t = "KEXINIT")
  <2>1. u = [s EXCEPT !.held = @ \cup {t}]
    BY <1>1 DEF EncryptPacket
  <2>. HIDE DEF u
  <2>2. /\ u.idle = s.idle /\ u.keepalive_sent = s.keepalive_sent
        /\ u.kex = s.kex
    BY <2>1 DEF Ses
  <2>3. ~DataAllowed(u)
    BY <1>1, <2>2 DEF DataAllowed
  <2>4. Spared(s, u)
    BY <2>2, <2>3 DEF Spared, Earned, Asked, Drained
  <2>. QED  BY <2>4 DEF u
<1>2. CASE ~(~DataAllowed(s) /\ (t \notin KexType \/ t = "KEXINIT"))
  <2>1. u = OnWire(s, {t})
    BY <1>2, Zenon DEF EncryptPacket
  <2>. HIDE DEF u
  <2>2. /\ u.wire = s.wire \cup {t} /\ u.held = s.held /\ u.kex = s.kex
        /\ u.keepalive_sent = s.keepalive_sent
        /\ {t} \subseteq {"REQUEST_FAILURE", "UNIMPLEMENTED", "IGNORE"} =>
             u.idle = s.idle
    BY <2>1, OnWireFields
  <2>3. t \in {"REQUEST_FAILURE", "UNIMPLEMENTED", "IGNORE"} \/ t \notin KeepaliveTraffic
    BY DEF KeepaliveTraffic, Request
  <2>4. Earned(s, u)
    BY <2>2, <2>3 DEF Earned
  <2>5. Drained(s) => Drained(u)
    BY <2>2 DEF Drained, DataAllowed
  <2>6. Spared(s, u)
    BY <2>2, <2>4, <2>5 DEF Spared, Asked
  <2>. QED  BY <2>6 DEF u
<1>3. QED
  BY <1>1, <1>2

LEMMA KexinitSpares ==
    ASSUME NEW s \in Ses, s.kex = "none"
    PROVE  Spared(s, SendKexinit(s))
<1>. DEFINE e == EncryptPacket(s, "KEXINIT")
            u == SendKexinit(s)
<1>1. Spared(s, e) /\ Wired(s, e)
  BY EncryptSpares, EncryptPacketSends DEF WireType, HeldType
<1>2. u = [e EXCEPT !.kex = "sent"]
  BY DEF SendKexinit
<1>. HIDE DEF e, u
<1>3. e \in Ses
  BY <1>1 DEF Wired
<1>4. u.kex = "sent" /\ u.idle = e.idle /\ u.wire = e.wire
  BY <1>2, <1>3 DEF Ses
<1>5. Spared(s, u)
  BY <1>1, <1>4 DEF Spared, Earned, Asked, Drained, DataAllowed
<1>6. QED
  BY <1>5 DEF u

\* A keepalive is not traffic, and goes out or waits for an exchange.
LEMMA KeepaliveSpares ==
    ASSUME NEW s \in Ses
    PROVE  /\ Spared(s, SendKeepalive(s))
           /\ \/ SendKeepalive(s).kex # "none"
              \/ SendKeepalive(s).wire \cap Request # {}
<1>. DEFINE t == IF s.chan THEN "CHANNEL_REQUEST" ELSE "GLOBAL_REQUEST"
            e == EncryptPacket(s, t)
            u == SendKeepalive(s)
<1>1. t \in Request /\ t \in WireType /\ t \notin KexType
  BY DEF Request, WireType, HeldType, KexType
<1>. HIDE DEF t
<1>2. Wired(s, e) /\ e \in Ses
  BY <1>1, EncryptPacketSends DEF Wired
<1>3. u = [e EXCEPT !.keepalive_sent = 0, !.idle = s.idle]
  BY DEF SendKeepalive, t
<1>4. /\ e.kex = s.kex
      /\ DataAllowed(s) => e.held = s.held /\ e.wire = s.wire \cup {t}
  <2>1. e.kex = s.kex
    BY <1>1, EncryptPacketSends
  <2>2. ASSUME DataAllowed(s)
        PROVE  e.held = s.held /\ e.wire = s.wire \cup {t}
    <3>1. e = OnWire(s, {t})
      BY <2>2 DEF EncryptPacket
    <3>. QED  BY <3>1, OnWireFields
  <2>. QED  BY <2>1, <2>2
<1>. HIDE DEF e, u
<1>5. u.idle = s.idle /\ u.kex = e.kex /\ u.wire = e.wire /\ u.held = e.held
  BY <1>2, <1>3 DEF Ses
<1>6. u.kex # "none" \/ u.wire \cap Request # {}
  BY <1>1, <1>4, <1>5 DEF DataAllowed
<1>7. Drained(s) => Drained(u)
  BY <1>4, <1>5 DEF Drained, DataAllowed
<1>8. Spared(s, u)
  BY <1>5, <1>6, <1>7 DEF Spared, Earned, Asked
<1>9. QED
  BY <1>6, <1>8 DEF u

\* After the flush nothing waits that may go out.
LEMMA FlushSpares ==
    ASSUME NEW s \in Ses
    PROVE  LET t == MaybeFlushReplyQueue(s)
           IN  /\ Drained(s) => Spared(s, t)
               /\ DataAllowed(t) => t.held = {}
               /\ t.keepalive_recv = s.keepalive_recv /\ t.kex = s.kex
<1>. DEFINE t == MaybeFlushReplyQueue(s)
<1>1. CASE ~DataAllowed(s) \/ s.held = {}
  <2>1. t = s
    BY <1>1 DEF MaybeFlushReplyQueue
  <2>. QED  BY <1>1, <2>1, NothingSpared
<1>2. CASE ~(~DataAllowed(s) \/ s.held = {})
  <2>. DEFINE e == [s EXCEPT !.held = {}]
  <2>1. /\ e \in Ses /\ e.held = {} /\ e.wire = s.wire /\ e.kex = s.kex
        /\ e.keepalive_sent = s.keepalive_sent
        /\ e.keepalive_recv = s.keepalive_recv
    BY DEF Ses
  <2>2. t = OnWire(e, s.held)
    BY <1>2 DEF MaybeFlushReplyQueue
  <2>. HIDE DEF e, t
  <2>3. /\ t.wire = e.wire \cup s.held /\ t.held = {} /\ t.kex = s.kex
        /\ t.keepalive_sent = s.keepalive_sent
    BY <2>1, <2>2, OnWireFields
  <2>4. t.keepalive_recv = s.keepalive_recv
    BY <2>1, <2>2 DEF OnWire, Ses
  <2>5. Drained(s) => Spared(s, t)
    BY <1>2, <2>1, <2>3 DEF Spared, Earned, Asked, Drained
  <2>. QED  BY <2>3, <2>4, <2>5 DEF t
<1>3. QED
  BY <1>1, <1>2

\* checktimeouts(), as far as keepalives and idleness go
LEMMA ChecksSpare ==
    ASSUME NEW s \in Ses, s.exited = "no"
    PROVE  LET c == CheckTimeouts(s)
           IN  /\ Spared(s, c)
               /\ IDLE_TIMEOUT > 0 /\ s.remoteident = "read" /\ c.exited = "no" =>
                    c.idle < IDLE_TIMEOUT
               /\ KEEPALIVE > 0 /\ s.authdone /\ s.remoteident = "read" =>
                    \/ c.kex # "none" \/ c.wire \cap Request # {}
                    \/ s.keepalive_recv < KEEPALIVE
                    \/ s.keepalive_sent < KEEPALIVE
               /\ c.exited = "Keepalive timeout" =>
                    /\ KEEPALIVE > 0 /\ s.authdone
                    /\ s.keepalive_recv >= KEEPALIVE * KEEPALIVE_LIMIT
<1>1. CASE s.remoteident # "read"
  <2>1. CheckTimeouts(s) = s
    BY <1>1 DEF CheckTimeouts
  <2>. QED  BY <1>1, <2>1, NothingSpared
<1>2. CASE s.remoteident = "read"
  <2>. DEFINE r == Rekey(s)
              k == Keepalives(r)
              t == Idle(k)
  <2>1. Spared(s, r) /\ Wired(s, r) /\ Framed(s, r) /\ r.exited = "no"
    <3>1. CASE ~SentKexinit(s) /\ (s.lastkex >= KEX_REKEY_TIMEOUT \/ s.datadue)
      <4>1. r = SendKexinit(s) /\ s.kex = "none"
        BY <3>1, Zenon DEF Rekey, SentKexinit
      <4>. QED  BY <4>1, KexinitSpares, SendKexinitSends
    <3>2. CASE ~(~SentKexinit(s) /\ (s.lastkex >= KEX_REKEY_TIMEOUT \/ s.datadue))
      <4>1. r = s
        BY <3>2, Zenon DEF Rekey
      <4>. QED  BY <4>1, NothingSpared, NothingSent
    <3>. QED  BY <3>1, <3>2
  <2>2. r \in Ses
    BY <2>1 DEF Wired
  <2>. HIDE DEF r
  <2>3. /\ Spared(r, k) /\ Wired(r, k) /\ Framed(r, k)
        /\ KEEPALIVE > 0 /\ r.authdone =>
             \/ k.kex # "none" \/ k.wire \cap Request # {}
             \/ r.keepalive_recv < KEEPALIVE \/ r.keepalive_sent < KEEPALIVE
        /\ k.exited \in {"no", "Keepalive timeout"}
        /\ k.exited = "Keepalive timeout" =>
             /\ KEEPALIVE > 0 /\ r.authdone
             /\ r.keepalive_recv >= KEEPALIVE * KEEPALIVE_LIMIT
    <3>1. CASE ~(KEEPALIVE > 0 /\ r.authdone)
      <4>1. k = r
        BY <3>1, Zenon DEF Keepalives
      <4>. QED  BY <2>1, <2>2, <3>1, <4>1, NothingSpared, NothingSent
    <3>2. CASE KEEPALIVE > 0 /\ r.authdone
      <4>. DEFINE q == KeepaliveIfQuiet(r)
                  p == KeepaliveIfSilent(q)
      <4>1. k = GiveUp(p)
        BY <3>2 DEF Keepalives
      <4>. HIDE DEF k
      <4>2. /\ Spared(r, q) /\ Wired(r, q) /\ Framed(r, q) /\ q.exited = "no"
        <5>1. q = SendKeepalive(r) \/ q = r
          BY DEF KeepaliveIfQuiet
        <5>. QED  BY <2>1, <2>2, <5>1, KeepaliveSpares, SendKeepaliveSends,
                     NothingSpared, NothingSent
      <4>3. q \in Ses
        BY <4>2 DEF Wired
      <4>. HIDE DEF q
      <4>4. /\ Spared(q, p) /\ Wired(q, p) /\ Framed(q, p) /\ p.exited = "no"
            /\ \/ p.kex # "none" \/ p.wire \cap Request # {}
               \/ q.keepalive_recv < KEEPALIVE \/ q.keepalive_sent < KEEPALIVE
        <5>1. CASE q.keepalive_recv >= KEEPALIVE /\ q.keepalive_sent >= KEEPALIVE
          <6>1. p = SendKeepalive(q)
            BY <5>1 DEF KeepaliveIfSilent
          <6>. QED  BY <4>2, <4>3, <6>1, KeepaliveSpares, SendKeepaliveSends
        <5>2. CASE ~(q.keepalive_recv >= KEEPALIVE /\ q.keepalive_sent >= KEEPALIVE)
          <6>1. p = q
            BY <5>2, Zenon DEF KeepaliveIfSilent
          <6>2. q.keepalive_recv < KEEPALIVE \/ q.keepalive_sent < KEEPALIVE
            BY <4>3, <5>2, SesFields, Bounds
          <6>. QED  BY <4>2, <4>3, <6>1, <6>2, NothingSpared, NothingSent
        <5>. QED  BY <5>1, <5>2
      <4>5. p \in Ses
        BY <4>4 DEF Wired
      <4>. HIDE DEF p
      <4>6. /\ Spared(p, k) /\ Wired(p, k) /\ Framed(p, k)
            /\ k.exited \in {"no", "Keepalive timeout"}
            /\ k.exited = "Keepalive timeout" =>
                 p.keepalive_recv >= KEEPALIVE * KEEPALIVE_LIMIT
        <5>1. CASE p.keepalive_recv >= KEEPALIVE * KEEPALIVE_LIMIT
          <6>1. k = [p EXCEPT !.exited = "Keepalive timeout"]
            BY <4>1, <5>1 DEF GiveUp
          <6>2. /\ k.idle = p.idle /\ k.keepalive_sent = p.keepalive_sent
                /\ k.held = p.held /\ k.wire = p.wire /\ k.kex = p.kex
            BY <4>5, <6>1 DEF Ses
          <6>3. Spared(p, k)
            BY <6>2 DEF Spared, Earned, Asked, Drained, DataAllowed
          <6>4. Wired(p, k) /\ Framed(p, k) /\ k.exited = "Keepalive timeout"
            BY <4>5, <6>1, ExitOnly DEF Ended
          <6>. QED  BY <5>1, <6>3, <6>4
        <5>2. CASE ~(p.keepalive_recv >= KEEPALIVE * KEEPALIVE_LIMIT)
          <6>1. k = p
            BY <4>1, <5>2 DEF GiveUp
          <6>. QED  BY <4>4, <4>5, <6>1, NothingSpared, NothingSent
        <5>. QED  BY <5>1, <5>2
      <4>7. Spared(q, k) /\ Wired(q, k) /\ Framed(q, k)
        BY <4>4, <4>6, SparedTwice, WiredTwice, FramedTwice
      <4>8. Spared(r, k) /\ Wired(r, k) /\ Framed(r, k)
        BY <4>2, <4>7, SparedTwice, WiredTwice, FramedTwice
      <4>9. /\ q.keepalive_recv = r.keepalive_recv
            /\ p.keepalive_recv = r.keepalive_recv
        BY <4>2, <4>4 DEF Framed
      <4>10. \/ k.kex # "none" \/ k.wire \cap Request # {}
             \/ r.keepalive_recv < KEEPALIVE \/ r.keepalive_sent < KEEPALIVE
        <5>1. \/ q.keepalive_sent = r.keepalive_sent
              \/ q.kex # "none" \/ q.wire \cap Request # {}
          BY <4>2 DEF Spared, Asked
        <5>2. q.kex # "none" => k.kex # "none"
          BY <4>7 DEF Framed
        <5>3. p.kex # "none" => k.kex # "none"
          BY <4>6 DEF Framed
        <5>4. q.wire \subseteq k.wire /\ p.wire \subseteq k.wire
          BY <4>6, <4>7 DEF Wired
        <5>. QED  BY <4>4, <4>9, <5>1, <5>2, <5>3, <5>4
      <4>. QED  BY <3>2, <4>6, <4>8, <4>9, <4>10
    <3>. QED  BY <3>1, <3>2
  <2>4. k \in Ses
    BY <2>3 DEF Wired
  <2>. HIDE DEF k
  <2>5. /\ Spared(k, t) /\ Wired(k, t) /\ Framed(k, t)
        /\ IDLE_TIMEOUT > 0 /\ t.exited = "no" => t.idle < IDLE_TIMEOUT
        /\ t.exited = "Keepalive timeout" => k.exited = "Keepalive timeout"
    <3>1. CASE IDLE_TIMEOUT > 0 /\ k.idle >= IDLE_TIMEOUT /\ k.exited = "no"
      <4>1. t = [k EXCEPT !.exited = "Idle timeout"]
        BY <3>1 DEF Idle
      <4>. HIDE DEF t
      <4>2. /\ t.idle = k.idle /\ t.keepalive_sent = k.keepalive_sent
            /\ t.held = k.held /\ t.wire = k.wire /\ t.kex = k.kex
        BY <2>4, <4>1 DEF Ses
      <4>3. Spared(k, t)
        BY <4>2 DEF Spared, Earned, Asked, Drained, DataAllowed
      <4>4. Wired(k, t) /\ Framed(k, t) /\ t.exited = "Idle timeout"
        BY <2>4, <4>1, ExitOnly DEF Ended
      <4>. QED  BY <4>3, <4>4
    <3>2. CASE ~(IDLE_TIMEOUT > 0 /\ k.idle >= IDLE_TIMEOUT /\ k.exited = "no")
      <4>1. t = k
        BY <3>2, Zenon DEF Idle
      <4>. HIDE DEF t
      <4>2. k.idle \in Nat
        BY <2>4, SesFields, Bounds
      <4>3. IDLE_TIMEOUT > 0 /\ k.exited = "no" => k.idle < IDLE_TIMEOUT
        BY <3>2, <4>2, Bounds
      <4>4. Spared(k, k) /\ Wired(k, k) /\ Framed(k, k)
        BY <2>4, NothingSpared, NothingSent
      <4>. QED  BY <4>1, <4>3, <4>4
    <3>. QED  BY <3>1, <3>2
  <2>. HIDE DEF t
  <2>6. Spared(r, t) /\ Wired(r, t) /\ Framed(r, t)
    BY <2>3, <2>5, SparedTwice, WiredTwice, FramedTwice
  <2>7. Spared(s, t)
    BY <2>1, <2>6, SparedTwice
  <2>8. r.keepalive_recv = s.keepalive_recv /\ r.authdone = s.authdone
    BY <2>1 DEF Framed
  <2>9. KEEPALIVE > 0 /\ s.authdone =>
          \/ t.kex # "none" \/ t.wire \cap Request # {}
          \/ s.keepalive_recv < KEEPALIVE \/ s.keepalive_sent < KEEPALIVE
    <3>1. \/ r.keepalive_sent = s.keepalive_sent
          \/ r.kex # "none" \/ r.wire \cap Request # {}
      BY <2>1 DEF Spared, Asked
    <3>2. r.kex # "none" => t.kex # "none"
      BY <2>6 DEF Framed
    <3>3. k.kex # "none" => t.kex # "none"
      BY <2>5 DEF Framed
    <3>4. r.wire \subseteq t.wire /\ k.wire \subseteq t.wire
      BY <2>5, <2>6 DEF Wired
    <3>. QED  BY <2>3, <2>8, <3>1, <3>2, <3>3, <3>4
  <2>10. CheckTimeouts(s) = t
    BY <1>2 DEF CheckTimeouts, t, k, r
  <2>. QED  BY <2>3, <2>5, <2>7, <2>8, <2>9, <2>10
<1>3. QED
  BY <1>1, <1>2

---------------------------------------------------------------------------
(* A turn *)

\* The session s at the end of a turn that has read the packets received:
\* it is the one the turn began with after its checks, or has just read one.
Turn(s, received) ==
    /\ s \in Ses
    /\ s.exited = "no" /\ DataAllowed(s) => s.held = {}
    /\ s.keyed => s.remoteident = "read"
    /\ IDLE_TIMEOUT > 0 /\ s.exited = "no" /\ s.keyed /\ ~s.chan =>
         /\ s.idle < IDLE_TIMEOUT
         /\ \/ (s.wire \cup received) \ KeepaliveTraffic # {}
            \/ s.idle = ses.idle /\ ses.keyed /\ ~ses.chan
    /\ KEEPALIVE > 0 /\ s.exited = "no" /\ s.authdone =>
         \/ s.keepalive_recv = 0 /\ received # {}
         \/ /\ received = {} /\ ses.authdone /\ Asked(ses, s)
            /\ s.keepalive_recv = ses.keepalive_recv
            /\ \/ s.kex # "none" \/ s.wire \cap Request # {}
               \/ ses.keepalive_recv < KEEPALIVE
               \/ ses.keepalive_sent < KEEPALIVE
    /\ s.exited = "Keepalive timeout" =>
         /\ KEEPALIVE > 0 /\ ses.authdone /\ received = {}
         /\ ses.keepalive_recv >= KEEPALIVE * KEEPALIVE_LIMIT

\* Of numbers: what three intervals of silence leave of the two that pass
\* before something is asked.
LEMMA ThreeIntervals ==
    ASSUME KEEPALIVE_LIMIT > 2, KEEPALIVE > 0, NEW recv \in Nat, NEW owed \in Int,
           recv >= KEEPALIVE * KEEPALIVE_LIMIT,
           recv < owed + MaxAnySent
    PROVE  owed > KEEPALIVE
<1>1. KEEPALIVE \in Nat /\ KEEPALIVE_LIMIT \in Nat
  BY TimeoutsAssumption
<1>2. KEEPALIVE * KEEPALIVE_LIMIT >= KEEPALIVE * 3
  BY <1>1
<1>3. MaxAnySent = 2 * KEEPALIVE
  BY DEF MaxAnySent
<1>4. QED
  BY <1>1, <1>2, <1>3

\* One sleep in select() ends before two intervals have passed.
LEMMA SelectShort ==
    ASSUME KEEPALIVE > 0, NEW l \in Nat, l <= KEEPALIVE
    PROVE  0 + l < MaxAnySent /\ 0 < 0 + MaxAnySent
BY Bounds

\* The fields of a session and of the history that are ages
LEMMA Ages ==
    ASSUME NEW s \in Ses
    PROVE  /\ s.idle \in Nat /\ s.keepalive_recv \in Nat
           /\ s.keepalive_sent \in Nat
BY SesFields, Bounds

\* What the end of a turn makes of the session and of the history
LEMMA EndTurnFields ==
    ASSUME NEW s \in Ses, NEW received, EndTurn(s, received)
    PROVE  /\ ses'.idle = s.idle /\ ses'.held = s.held /\ ses'.kex = s.kex
           /\ ses'.keyed = s.keyed /\ ses'.chan = s.chan
           /\ ses'.authdone = s.authdone
           /\ ses'.keepalive_recv = s.keepalive_recv
           /\ ses'.keepalive_sent = s.keepalive_sent
           /\ ses'.remoteident = s.remoteident
           /\ ses'.exited = "no" => s.exited = "no"
           /\ ses'.exited = "Keepalive timeout" => s.exited = "Keepalive timeout"
           /\ left' \in 0 .. Slack
           /\ KEEPALIVE > 0 => left' <= KEEPALIVE
           /\ real'.traffic = IF (s.wire \cup received) \ KeepaliveTraffic # {}
                              THEN 0 ELSE real.traffic
           /\ real'.owed = IF /\ received # {} \/ real.owed = NotOwed
                              /\ s.kex # "none" \/ s.wire \cap Request # {}
                           THEN 0
                           ELSE IF received # {} THEN NotOwed ELSE real.owed
<1>. DEFINE h == SvrSessionloop(s)
<1>1. \/ h = s
      \/ h = [s EXCEPT !.exited = "Timeout before auth"]
  BY DEF SvrSessionloop
<1>2. PICK d \in DataDue(h, received) :
        /\ ses' = [h EXCEPT !.wire = {}, !.datadue = d]
        /\ left' = SelectTimeout(h) /\ real' = Observed(h, received)
  BY Zenon DEF EndTurn
<1>. HIDE DEF h
<1>3. /\ h \in Ses /\ h.wire = s.wire /\ h.kex = s.kex
      /\ h.exited \in {s.exited, "Timeout before auth"}
  BY <1>1 DEF Ses, Ended
<1>4. /\ h.idle = s.idle /\ h.held = s.held /\ h.keyed = s.keyed
      /\ h.chan = s.chan /\ h.authdone = s.authdone
      /\ h.keepalive_recv = s.keepalive_recv
      /\ h.keepalive_sent = s.keepalive_sent /\ h.remoteident = s.remoteident
  BY <1>1 DEF Ses
<1>5. PICK n : n = [h EXCEPT !.wire = {}, !.datadue = d]
  OBVIOUS
<1>6. /\ n.idle = h.idle /\ n.held = h.held /\ n.keyed = h.keyed
      /\ n.chan = h.chan /\ n.authdone = h.authdone /\ n.kex = h.kex
      /\ n.keepalive_recv = h.keepalive_recv /\ n.exited = h.exited
      /\ n.keepalive_sent = h.keepalive_sent /\ n.remoteident = h.remoteident
  BY <1>3, <1>5 DEF Ses
<1>7. ses' = n
  BY <1>2, <1>5
<1>8. left' \in 0 .. Slack /\ (KEEPALIVE > 0 => left' <= KEEPALIVE)
  BY <1>2, <1>3, TimeoutBounds
<1>9. PICK o : o = Observed(h, received)
  OBVIOUS
<1>10. /\ o.traffic = IF (h.wire \cup received) \ KeepaliveTraffic # {}
                      THEN 0 ELSE real.traffic
       /\ o.owed = IF /\ received # {} \/ real.owed = NotOwed
                      /\ h.kex # "none" \/ h.wire \cap Request # {}
                   THEN 0
                   ELSE IF received # {} THEN NotOwed ELSE real.owed
  BY <1>9 DEF Observed, SentKexinit
<1>11. real' = o
  BY <1>2, <1>9
<1>12. QED
  BY <1>3, <1>4, <1>6, <1>7, <1>8, <1>10, <1>11

LEMMA EndTurnDue ==
    ASSUME NEW s, NEW received, DInv, ses.exited = "no", IInv',
           EndTurn(s, received), Turn(s, received)
    PROVE  DInv'
<1>1. s \in Ses
  BY DEF Turn
<1>2. /\ ses \in Ses /\ real \in Real /\ left \in 0 .. Slack
      /\ Due /\ ses' \in Ses
  BY DEF DInv, IInv, Typed
<1>3. PICK idle \in Nat, recv \in Nat, sent \in Nat, idle1 \in Nat,
           recv1 \in Nat, sent1 \in Nat, l \in Nat, l1 \in Nat, owed \in Int :
        /\ idle = ses.idle /\ recv = ses.keepalive_recv /\ sent = ses.keepalive_sent
        /\ idle1 = s.idle /\ recv1 = s.keepalive_recv /\ sent1 = s.keepalive_sent
        /\ l = left /\ l1 = left' /\ l1 <= Slack /\ owed = real.owed
        /\ KEEPALIVE > 0 => l1 <= KEEPALIVE
  <2>1. left' \in 0 .. Slack /\ (KEEPALIVE > 0 => left' <= KEEPALIVE)
    BY <1>1, EndTurnFields
  <2>2. left \in Nat /\ left' \in Nat /\ left' <= Slack
    BY <1>2, <2>1, Bounds
  <2>3. real.owed \in Int
    BY <1>2, Bounds DEF Real, NotOwed
  <2>. QED  BY <1>1, <1>2, <2>1, <2>2, <2>3, Ages
<1>4. /\ ses'.idle = idle1 /\ ses'.held = s.held /\ ses'.kex = s.kex
      /\ ses'.keyed = s.keyed /\ ses'.chan = s.chan
      /\ ses'.authdone = s.authdone /\ ses'.keepalive_recv = recv1
      /\ ses'.keepalive_sent = sent1 /\ ses'.remoteident = s.remoteident
      /\ ses'.exited = "no" => s.exited = "no"
      /\ ses'.exited = "Keepalive timeout" => s.exited = "Keepalive timeout"
      /\ real'.traffic = IF (s.wire \cup received) \ KeepaliveTraffic # {}
                         THEN 0 ELSE real.traffic
      /\ real'.owed = IF /\ received # {} \/ owed = NotOwed
                         /\ s.kex # "none" \/ s.wire \cap Request # {}
                      THEN 0
                      ELSE IF received # {} THEN NotOwed ELSE owed
  BY <1>1, <1>3, EndTurnFields
<1>5. ASSUME ses'.exited = "no"
      PROVE  Due'
  <2>1. s.exited = "no"
    BY <1>4, <1>5
  <2>2. DataAllowed(ses') => ses'.held = {}
    BY <1>4, <2>1 DEF DataAllowed, Turn
  <2>3. ASSUME IDLE_TIMEOUT > 0, ses'.keyed, ~ses'.chan
        PROVE  real'.traffic <= ses'.idle /\ ses'.idle + left' < MaxIdle
    <3>1. /\ idle1 < IDLE_TIMEOUT
          /\ \/ (s.wire \cup received) \ KeepaliveTraffic # {}
             \/ idle1 = idle /\ ses.keyed /\ ~ses.chan
      BY <1>3, <1>4, <2>1, <2>3 DEF Turn
    <3>2. idle1 + l1 < MaxIdle
      BY <1>3, <3>1, Bounds
    <3>3. CASE (s.wire \cup received) \ KeepaliveTraffic # {}
      <4>1. real'.traffic = 0
        BY <1>4, <3>3
      <4>2. 0 <= idle1
        BY <1>3
      <4>. QED  BY <1>3, <1>4, <3>2, <4>1, <4>2
    <3>4. CASE ~((s.wire \cup received) \ KeepaliveTraffic # {})
      <4>1. real'.traffic = real.traffic /\ idle1 = idle /\ ses.keyed /\ ~ses.chan
        BY <1>4, <3>1, <3>4
      <4>2. real.traffic <= ses.idle
        BY <1>2, <2>3, <4>1 DEF Due
      <4>. QED  BY <1>3, <1>4, <3>2, <4>1, <4>2
    <3>. QED  BY <3>3, <3>4
  <2>4. ASSUME KEEPALIVE > 0, ses'.authdone
        PROVE  IF real'.owed = NotOwed
               THEN /\ ses'.kex = "none" /\ ses'.keepalive_recv + left' < MaxAnySent
                    /\ \/ ses'.keepalive_recv <= ses'.keepalive_sent
                       \/ KEEPALIVE <= ses'.keepalive_sent
               ELSE ses'.keepalive_recv < real'.owed + MaxAnySent
    <3>1. \/ recv1 = 0 /\ received # {}
          \/ /\ received = {} /\ ses.authdone /\ Asked(ses, s) /\ recv1 = recv
             /\ \/ s.kex # "none" \/ s.wire \cap Request # {}
                \/ recv < KEEPALIVE \/ sent < KEEPALIVE
      BY <1>3, <1>4, <2>1, <2>4 DEF Turn
    <3>2. CASE recv1 = 0 /\ received # {}
      <4>1. real'.owed = 0 \/ (real'.owed = NotOwed /\ s.kex = "none")
        BY <1>4, <3>2
      <4>2. recv1 = 0 /\ l1 <= KEEPALIVE /\ KEEPALIVE \in Nat /\ 0 # NotOwed
        BY <1>3, <2>4, <3>2, Bounds DEF NotOwed
      <4>4. recv1 + l1 < MaxAnySent /\ recv1 < 0 + MaxAnySent /\ recv1 <= sent1
        <5>1. recv1 <= sent1
          BY <1>3, <4>2
        <5>2. 0 + l1 < MaxAnySent /\ 0 < 0 + MaxAnySent
          BY <1>3, <2>4, <4>2, SelectShort
        <5>. QED  BY <4>2, <5>1, <5>2
      <4>5. CASE real'.owed = 0
        BY <1>3, <1>4, <4>2, <4>4, <4>5
      <4>6. CASE real'.owed = NotOwed /\ s.kex = "none"
        BY <1>3, <1>4, <4>4, <4>6
      <4>. QED  BY <4>1, <4>5, <4>6
    <3>3. CASE /\ received = {} /\ ses.authdone /\ Asked(ses, s) /\ recv1 = recv
               /\ \/ s.kex # "none" \/ s.wire \cap Request # {}
                  \/ recv < KEEPALIVE \/ sent < KEEPALIVE
      <4>1. CASE owed # NotOwed
        <5>1. real'.owed = owed /\ recv < owed + MaxAnySent
          BY <1>2, <1>3, <1>4, <2>4, <3>3, <4>1 DEF Due
        <5>. QED  BY <1>4, <3>3, <4>1, <5>1
      <4>2. CASE owed = NotOwed
        <5>1. /\ recv + l < MaxAnySent
              /\ recv <= sent \/ KEEPALIVE <= sent
          BY <1>2, <1>3, <2>4, <3>3, <4>2 DEF Due
        <5>2. CASE s.kex # "none" \/ s.wire \cap Request # {}
          <6>1. real'.owed = 0
            BY <1>4, <4>2, <5>2
          <6>2. recv < 0 + MaxAnySent /\ 0 # NotOwed
            BY <1>3, <5>1, Bounds DEF NotOwed
          <6>. QED  BY <1>4, <3>3, <6>1, <6>2
        <5>3. CASE ~(s.kex # "none" \/ s.wire \cap Request # {})
          <6>1. real'.owed = NotOwed /\ sent1 = sent /\ s.kex = "none"
            BY <1>3, <1>4, <3>3, <4>2, <5>3 DEF Asked
          <6>2. recv < KEEPALIVE \/ sent < KEEPALIVE
            BY <3>3, <5>3
          <6>3. recv < KEEPALIVE
            BY <1>3, <5>1, <6>2, Bounds
          <6>4. recv + l1 < MaxAnySent
            BY <1>3, <2>4, <6>3, Bounds
          <6>. QED  BY <1>3, <1>4, <3>3, <5>1, <6>1, <6>4
        <5>. QED  BY <5>2, <5>3
      <4>. QED  BY <4>1, <4>2
    <3>. QED  BY <3>1, <3>2, <3>3
  <2>5. ses'.keyed => ses'.remoteident = "read"
    BY <1>4 DEF Turn
  <2>. QED  BY <2>2, <2>3, <2>4, <2>5 DEF Due
<1>6. ASSUME KEEPALIVE_LIMIT > 2, ses'.exited = "Keepalive timeout"
      PROVE  real'.owed > KEEPALIVE
  <2>1. /\ KEEPALIVE > 0 /\ ses.authdone /\ received = {}
        /\ recv >= KEEPALIVE * KEEPALIVE_LIMIT
    BY <1>3, <1>4, <1>6 DEF Turn
  <2>2. owed # NotOwed
    <3>1. ASSUME owed = NotOwed
          PROVE  FALSE
      <4>1. recv + l < MaxAnySent
        BY <1>2, <1>3, <2>1, <3>1 DEF Due
      <4>2. PICK o \in Int : o = 0
        OBVIOUS
      <4>3. recv < o + MaxAnySent
        BY <1>3, <4>1, <4>2, Bounds
      <4>4. o > KEEPALIVE
        BY <1>3, <1>6, <2>1, <4>3, ThreeIntervals
      <4>. QED  BY <2>1, <4>2, <4>4, Bounds
    <3>. QED  BY <3>1
  <2>3. recv < owed + MaxAnySent
    BY <1>2, <1>3, <2>1, <2>2 DEF Due
  <2>4. real'.owed = owed
    BY <1>4, <2>1, <2>2
  <2>. QED  BY <1>3, <1>6, <2>1, <2>3, <2>4, ThreeIntervals
<1>7. QED
  BY <1>5, <1>6 DEF DInv, PeerWasAsked

\* A packet that may go out leaves the reply queue alone.
LEMMA AllowedHeld ==
    ASSUME NEW s \in Ses, NEW t, DataAllowed(s)
    PROVE  EncryptPacket(s, t).held = s.held
<1>1. EncryptPacket(s, t) = OnWire(s, {t})
  BY DEF EncryptPacket
<1>2. QED
  BY <1>1, OnWireFields

\* The turn's session after its checks, when it reads nothing: m is what it has
\* flushed and written since.
LEMMA UnreadTurn ==
    ASSUME DInv, ses.exited = "no", NEW m,
           Spared(CheckTimeouts(ses), m), Wired(CheckTimeouts(ses), m),
           Framed(CheckTimeouts(ses), m), m.exited = CheckTimeouts(ses).exited,
           m.exited = "no" /\ DataAllowed(m) => m.held = {}
    PROVE  Turn(m, {})
<1>1. PICK c : c = CheckTimeouts(ses)
  OBVIOUS
<1>2. /\ ses \in Ses /\ Due /\ (ses.authdone => ses.remoteident = "read")
  BY DEF DInv, IInv, Typed
<1>3. /\ Spared(ses, c) /\ Wired(ses, c) /\ Framed(ses, c)
      /\ IDLE_TIMEOUT > 0 /\ ses.remoteident = "read" /\ c.exited = "no" =>
           c.idle < IDLE_TIMEOUT
      /\ KEEPALIVE > 0 /\ ses.authdone /\ ses.remoteident = "read" =>
           \/ c.kex # "none" \/ c.wire \cap Request # {}
           \/ ses.keepalive_recv < KEEPALIVE \/ ses.keepalive_sent < KEEPALIVE
      /\ c.exited = "Keepalive timeout" =>
           /\ KEEPALIVE > 0 /\ ses.authdone
           /\ ses.keepalive_recv >= KEEPALIVE * KEEPALIVE_LIMIT
  BY <1>1, <1>2, ChecksSpare, CheckTests
<1>4. Spared(c, m) /\ Wired(c, m) /\ Framed(c, m) /\ m.exited = c.exited
  BY <1>1
<1>5. Spared(ses, m) /\ Wired(ses, m) /\ Framed(ses, m) /\ m \in Ses
  <2>1. Wired(ses, m) /\ Framed(ses, m)
    BY <1>3, <1>4, WiredTwice, FramedTwice
  <2>. QED  BY <1>3, <1>4, <2>1, SparedTwice DEF Wired
<1>6. m.keyed => m.remoteident = "read"
  BY <1>2, <1>5 DEF Due, Framed
<1>7. ASSUME IDLE_TIMEOUT > 0, m.exited = "no", m.keyed, ~m.chan
      PROVE  /\ m.idle < IDLE_TIMEOUT
             /\ \/ (m.wire \cup {}) \ KeepaliveTraffic # {}
                \/ m.idle = ses.idle /\ ses.keyed /\ ~ses.chan
  <2>1. c.idle < IDLE_TIMEOUT /\ ses.keyed /\ ~ses.chan
    BY <1>2, <1>3, <1>4, <1>5, <1>7 DEF Due, Framed
  <2>2. m.idle < IDLE_TIMEOUT
    BY <1>4, <1>7, <2>1, Bounds DEF Wired
  <2>. QED  BY <1>5, <2>1, <2>2 DEF Spared, Earned
<1>8. ASSUME KEEPALIVE > 0, m.exited = "no", m.authdone
      PROVE  /\ {} = {} /\ ses.authdone /\ Asked(ses, m)
             /\ m.keepalive_recv = ses.keepalive_recv
             /\ \/ m.kex # "none" \/ m.wire \cap Request # {}
                \/ ses.keepalive_recv < KEEPALIVE
                \/ ses.keepalive_sent < KEEPALIVE
  <2>1. ses.authdone /\ Asked(ses, m) /\ m.keepalive_recv = ses.keepalive_recv
    BY <1>5, <1>8 DEF Framed, Spared
  <2>2. c.kex # "none" => m.kex # "none"
    BY <1>4 DEF Framed
  <2>3. c.wire \subseteq m.wire
    BY <1>4 DEF Wired
  <2>. QED  BY <1>2, <1>3, <1>8, <2>1, <2>2, <2>3
<1>9. m.exited = "Keepalive timeout" =>
        /\ KEEPALIVE > 0 /\ ses.authdone /\ {} = {}
        /\ ses.keepalive_recv >= KEEPALIVE * KEEPALIVE_LIMIT
  BY <1>3, <1>4
<1>10. QED
  BY <1>5, <1>6, <1>7, <1>8, <1>9 DEF Turn

\* Nothing waits in a session between turns, nor after the checks, that may
\* go out.
LEMMA ChecksDrained ==
    ASSUME DInv, ses.exited = "no"
    PROVE  LET c == CheckTimeouts(ses)
           IN  /\ c \in Ses /\ Drained(c)
               /\ Wired(ses, c) /\ Framed(ses, c) /\ Spared(ses, c)
<1>1. ses \in Ses /\ Drained(ses)
  BY DEF DInv, IInv, Typed, Due, Drained
<1>2. QED
  BY <1>1, ChecksSpare, CheckTests DEF Spared, Wired

LEMMA NoPacketDue == DInv /\ NoPacket => DInv'
<1>. SUFFICES ASSUME DInv, NoPacket PROVE DInv'
  OBVIOUS
<1>. DEFINE c == CheckTimeouts(ses)
            m == IF c.exited = "no" THEN MaybeFlushReplyQueue(c) ELSE c
<1>1. ses.exited = "no" /\ EndTurn(m, {})
  BY DEF NoPacket, InSelect
<1>2. IInv'
  BY NoPacketKeeps DEF DInv
<1>3. c \in Ses /\ Drained(c)
  BY <1>1, ChecksDrained
<1>. HIDE DEF c
<1>4. /\ Spared(c, m) /\ Wired(c, m) /\ Framed(c, m) /\ m.exited = c.exited
      /\ m.exited = "no" /\ DataAllowed(m) => m.held = {}
  <2>1. CASE c.exited = "no"
    BY <1>3, <2>1, FlushSpares, MaybeFlushSends
  <2>2. CASE c.exited # "no"
    BY <1>3, <2>2, NothingSpared, NothingSent
  <2>. QED  BY <2>1, <2>2
<1>. HIDE DEF m
<1>5. Turn(m, {})
  BY <1>1, <1>4, UnreadTurn DEF c
<1>6. QED
  BY <1>1, <1>2, <1>5, EndTurnDue

LEMMA OutputDue == DInv /\ Output => DInv'
<1>. SUFFICES ASSUME DInv, Output PROVE DInv'
  OBVIOUS
<1>. DEFINE c == CheckTimeouts(ses)
            f == MaybeFlushReplyQueue(c)
            m == EncryptPacket(f, "CHANNEL_DATA")
<1>1. ses.exited = "no" /\ IF c.exited # "no" THEN EndTurn(c, {}) ELSE EndTurn(m, {})
  BY Zenon DEF Output, InSelect
<1>2. IInv'
  BY OutputKeeps DEF DInv
<1>3. c \in Ses /\ Drained(c)
  BY <1>1, ChecksDrained
<1>. HIDE DEF c
<1>4. CASE c.exited # "no"
  <2>1. Spared(c, c) /\ Wired(c, c) /\ Framed(c, c)
    BY <1>3, NothingSpared, NothingSent
  <2>2. Turn(c, {})
    BY <1>1, <1>4, <2>1, UnreadTurn DEF c
  <2>. QED  BY <1>1, <1>2, <1>4, <2>2, EndTurnDue
<1>5. CASE c.exited = "no"
  <2>1. /\ Spared(c, f) /\ Wired(c, f) /\ Framed(c, f) /\ f.exited = "no"
        /\ DataAllowed(f) => f.held = {}
    BY <1>3, <1>5, FlushSpares, MaybeFlushSends
  <2>2. f \in Ses
    BY <2>1 DEF Wired
  <2>. HIDE DEF f
  <2>3. /\ Spared(f, m) /\ Wired(f, m) /\ Framed(f, m) /\ m.exited = "no"
        /\ m.kex = f.kex
    BY <2>1, <2>2, EncryptSpares, EncryptPacketSends DEF WireType, HeldType
  <2>4. DataAllowed(m) => m.held = {}
    <3>1. DataAllowed(m) => DataAllowed(f)
      BY <2>3 DEF DataAllowed
    <3>. QED  BY <2>1, <2>2, <3>1, AllowedHeld
  <2>. HIDE DEF m
  <2>5. Spared(c, m) /\ Wired(c, m) /\ Framed(c, m)
    BY <2>1, <2>3, SparedTwice, WiredTwice, FramedTwice
  <2>6. Turn(m, {})
    BY <1>1, <1>5, <2>3, <2>4, <2>5, UnreadTurn DEF c
  <2>. QED  BY <1>1, <1>2, <1>5, <2>6, EndTurnDue
<1>6. QED
  BY <1>4, <1>5

\* What a handler answers leaves the clock of what was received alone; the
\* answer to a keepalive is not traffic.
LEMMA HandledDue ==
    ASSUME NEW n \in Ses, NEW t \in Incoming, NEW h \in Handled(n, t)
    PROVE  /\ h.keepalive_recv = n.keepalive_recv
           /\ t \in {"IGNORE", "UNIMPLEMENTED", "GLOBAL_REQUEST",
                     "REQUEST_FAILURE"} =>
                Spared(n, h) /\ Wired(n, h) /\ Framed(n, h)
           /\ t \in {"CHANNEL_REQUEST", "CHANNEL_FAILURE"} => h.chan = n.chan
<1>1. CASE t = "KEXINIT"
  <2>1. PICK e : e = IF SentKexinit(n) THEN n ELSE SendKexinit(n)
    OBVIOUS
  <2>2. e \in Ses /\ e.keepalive_recv = n.keepalive_recv
    BY <2>1, SendKexinitSends, NothingSent DEF SentKexinit, Wired, Framed
  <2>3. h = [e EXCEPT !.kex = "both"]
    BY <1>1, <2>1 DEF Handled
  <2>. QED  BY <1>1, <2>2, <2>3 DEF Ses
<1>2. CASE t = "KEXDH_INIT"
  <2>1. PICK d, e : /\ d = EncryptPacket(n, "KEXDH_REPLY")
                    /\ e = EncryptPacket(d, "NEWKEYS")
    OBVIOUS
  <2>2. d \in Ses /\ d.keepalive_recv = n.keepalive_recv
    BY <2>1, EncryptPacketSends DEF WireType, Wired, Framed
  <2>3. e \in Ses /\ e.keepalive_recv = n.keepalive_recv
    BY <2>1, <2>2, EncryptPacketSends DEF WireType, Wired, Framed
  <2>4. h = [e EXCEPT !.kex = "newkeys", !.keyed = TRUE]
    BY <1>2, <2>1 DEF Handled
  <2>. QED  BY <1>2, <2>3, <2>4 DEF Ses
<1>3. CASE t = "NEWKEYS"
  <2>1. h = [n EXCEPT !.kex = "none", !.lastkex = 0, !.datadue = FALSE]
    BY <1>3 DEF Handled
  <2>. QED  BY <1>3, <2>1 DEF Ses
<1>4. CASE t = "USERAUTH_REQUEST"
  <2>1. PICK d, e : /\ d = EncryptPacket(n, "USERAUTH_FAILURE")
                    /\ e = EncryptPacket(n, "USERAUTH_SUCCESS")
    OBVIOUS
  <2>2. /\ d \in Ses /\ d.keepalive_recv = n.keepalive_recv
        /\ e \in Ses /\ e.keepalive_recv = n.keepalive_recv
    BY <2>1, EncryptPacketSends DEF WireType, HeldType, Wired, Framed
  <2>3. h = d \/ h = [e EXCEPT !.authdone = TRUE, !.connect = 0]
    BY <1>4, <2>1 DEF Handled
  <2>. QED  BY <1>4, <2>2, <2>3 DEF Ses
<1>5. CASE t \in {"CHANNEL_OPEN", "CHANNEL_CLOSE"}
  <2>1. PICK d, e : /\ d = EncryptPacket(n, "CHANNEL_OPEN_CONFIRMATION")
                    /\ e = EncryptPacket(n, "CHANNEL_CLOSE")
    OBVIOUS
  <2>2. /\ d \in Ses /\ d.keepalive_recv = n.keepalive_recv
        /\ e \in Ses /\ e.keepalive_recv = n.keepalive_recv
    BY <2>1, EncryptPacketSends DEF WireType, HeldType, Wired, Framed
  <2>3. \/ h = [d EXCEPT !.chan = TRUE]
        \/ \E c \in BOOLEAN : h = [e EXCEPT !.chan = c]
    BY <1>5, <2>1 DEF Handled
  <2>. QED  BY <1>5, <2>2, <2>3 DEF Ses
<1>6. CASE t = "GLOBAL_REQUEST"
  <2>1. h = EncryptPacket(n, "REQUEST_FAILURE")
    BY <1>6 DEF Handled
  <2>2. Spared(n, h) /\ Wired(n, h) /\ Framed(n, h)
    BY <2>1, EncryptSpares, EncryptPacketSends DEF WireType, HeldType
  <2>. QED  BY <1>6, <2>2 DEF Framed
<1>7. CASE t = "CHANNEL_REQUEST"
  <2>1. h = EncryptPacket(n, "CHANNEL_FAILURE")
    BY <1>7 DEF Handled
  <2>2. Framed(n, h)
    BY <2>1, EncryptPacketSends DEF WireType, HeldType
  <2>. QED  BY <1>7, <2>2 DEF Framed
<1>8. CASE t \in {"IGNORE", "UNIMPLEMENTED", "CHANNEL_DATA",
                  "CHANNEL_FAILURE", "REQUEST_FAILURE"}
  <2>1. h = n
    BY <1>8 DEF Handled
  <2>. QED  BY <2>1, NothingSpared, NothingSent
<1>9. QED
  BY <1>1, <1>2, <1>3, <1>4, <1>5, <1>6, <1>7, <1>8 DEF Incoming

\* What process_packet() notes before it calls the handler
LEMMA NoteDue ==
    ASSUME NEW s \in Ses, NEW t
    PROVE  LET n == Note(s, t)
           IN  /\ n.keepalive_recv = 0 /\ n.keyed = s.keyed /\ n.chan = s.chan
               /\ n.keepalive_sent = s.keepalive_sent /\ n.held = s.held
               /\ n.wire = s.wire /\ n.kex = s.kex
               /\ t \in {"IGNORE", "UNIMPLEMENTED", "GLOBAL_REQUEST",
                         "REQUEST_FAILURE"} => n.idle = s.idle
BY DEF Note, Ses

LEMMA ReadPacketDue == DInv /\ ReadPacket => DInv'
<1>. SUFFICES ASSUME DInv, ReadPacket PROVE DInv'
  OBVIOUS
<1>. DEFINE c == CheckTimeouts(ses)
<1>1. PICK t \in Incoming :
        /\ ses.exited = "no" /\ ses.remoteident = "read" /\ MaySend(ses, t)
        /\ IF c.exited # "no" THEN EndTurn(c, {})
           ELSE \E h \in Handled(Note(c, t), t) :
                    EndTurn(MaybeFlushReplyQueue(h), {t})
  BY Zenon DEF ReadPacket, InSelect
<1>2. IInv' /\ ses \in Ses
  BY ReadPacketKeeps DEF DInv, IInv, Typed
<1>3. /\ c \in Ses /\ Drained(c)
      /\ Wired(ses, c) /\ Framed(ses, c) /\ Spared(ses, c)
      /\ IDLE_TIMEOUT > 0 /\ c.exited = "no" => c.idle < IDLE_TIMEOUT
  BY <1>1, <1>2, ChecksDrained, ChecksSpare
<1>4. CASE c.exited # "no"
  <2>1. Spared(c, c) /\ Wired(c, c) /\ Framed(c, c)
    BY <1>3, NothingSpared, NothingSent
  <2>2. Turn(c, {})
    BY <1>1, <1>4, <2>1, UnreadTurn
  <2>. QED  BY <1>1, <1>2, <1>4, <2>2, EndTurnDue
<1>5. CASE c.exited = "no"
  <2>1. PICK n : n = Note(c, t)
    OBVIOUS
  <2>2. PICK h \in Handled(n, t) : EndTurn(MaybeFlushReplyQueue(h), {t})
    BY <1>1, <1>5, <2>1
  <2>3. PICK m : m = MaybeFlushReplyQueue(h)
    OBVIOUS
  <2>. HIDE DEF c
  <2>4. /\ Wired(c, n) /\ n.exited = "no" /\ n.keepalive_recv = 0
        /\ n.kex = c.kex /\ n.lastkex = c.lastkex /\ n.any_sent = c.any_sent
        /\ n.authdone = c.authdone /\ n.remoteident = c.remoteident
        /\ n.keyed = c.keyed /\ n.chan = c.chan /\ n.held = c.held
        /\ n.keepalive_sent = c.keepalive_sent /\ n.wire = c.wire
        /\ t \in {"IGNORE", "UNIMPLEMENTED", "GLOBAL_REQUEST",
                  "REQUEST_FAILURE"} => n.idle = c.idle
    BY <1>3, <1>5, <2>1, NoteTypes, NoteDue
  <2>5. n \in Ses
    BY <2>4 DEF Wired
  <2>6. Wired(n, h) /\ h.exited = "no" /\ h.remoteident = "read"
    <3>1. /\ c.authdone => Fresh(c)
          /\ c.kex = "none" => c.lastkex < KEX_REKEY_TIMEOUT
      BY <1>1, <1>5, AfterChecks DEF c, DInv
    <3>2. n.authdone => Fresh(n)
      BY <2>4, <3>1, Bounds DEF Fresh, DataAllowed
    <3>3. n.kex = "none" => n.lastkex < KEX_REKEY_TIMEOUT
      BY <2>4, <3>1
    <3>4. t = "NEWKEYS" => n.kex = "newkeys"
      <4>1. t = "NEWKEYS" => ses.kex = "newkeys"
        BY <1>1 DEF MaySend
      <4>. QED  BY <1>3, <2>4, <4>1 DEF Framed
    <3>5. n.remoteident = "read"
      BY <1>1, <1>3, <2>4 DEF Framed
    <3>. QED  BY <2>4, <2>5, <3>2, <3>3, <3>4, <3>5, HandledTypes
  <2>7. /\ h.keepalive_recv = 0
        /\ t \in {"IGNORE", "UNIMPLEMENTED", "GLOBAL_REQUEST",
                  "REQUEST_FAILURE"} =>
             Spared(n, h) /\ Framed(n, h)
        /\ t \in {"CHANNEL_REQUEST", "CHANNEL_FAILURE"} => h.chan = n.chan
    BY <2>4, <2>5, HandledDue
  <2>8. /\ Drained(h) => Spared(h, m)
        /\ DataAllowed(m) => m.held = {}
        /\ m.keepalive_recv = 0 /\ m.exited = "no"
        /\ Wired(h, m) /\ Framed(h, m) /\ m \in Ses
    BY <2>3, <2>6, <2>7, FlushSpares, MaybeFlushSends DEF Wired
  <2>9. m.keyed => m.remoteident = "read"
    BY <2>6, <2>8 DEF Framed
  <2>10. ASSUME IDLE_TIMEOUT > 0, m.keyed, ~m.chan
         PROVE  /\ m.idle < IDLE_TIMEOUT
                /\ \/ (m.wire \cup {t}) \ KeepaliveTraffic # {}
                   \/ m.idle = ses.idle /\ ses.keyed /\ ~ses.chan
    <3>1. m.idle \in {c.idle, 0}
      BY <2>4, <2>6, <2>8 DEF Wired
    <3>2. m.idle < IDLE_TIMEOUT
      BY <1>3, <1>5, <2>10, <3>1, Bounds
    <3>3. CASE t \notin KeepaliveTraffic
      BY <3>2, <3>3
    <3>4. CASE t \in {"CHANNEL_REQUEST", "CHANNEL_FAILURE"}
      <4>1. ses.chan
        BY <1>1, <3>4 DEF MaySend
      <4>2. m.chan
        BY <1>3, <2>4, <2>7, <2>8, <3>4, <4>1 DEF Framed
      <4>. QED  BY <2>10, <4>2
    <3>5. CASE t \in {"IGNORE", "UNIMPLEMENTED", "GLOBAL_REQUEST",
                      "REQUEST_FAILURE"}
      <4>1. Spared(c, n)
        BY <2>4, <3>5 DEF Spared, Earned, Asked, Drained, DataAllowed
      <4>2. Spared(n, h) /\ Framed(n, h)
        BY <2>7, <3>5
      <4>3. Drained(h)
        BY <1>3, <4>1, <4>2 DEF Spared
      <4>4. m.idle = ses.idle \/ m.wire \ KeepaliveTraffic # {}
        <5>1. c.wire \subseteq n.wire /\ n.wire \subseteq h.wire /\ h.wire \subseteq m.wire
          BY <2>4, <2>6, <2>8 DEF Wired
        <5>2. Earned(ses, c) /\ Earned(c, n) /\ Earned(n, h) /\ Earned(h, m)
          BY <1>3, <2>8, <4>1, <4>2, <4>3 DEF Spared
        <5>. QED  BY <5>1, <5>2 DEF Earned
      <4>5. ses.keyed /\ ~ses.chan
        BY <1>3, <2>4, <2>8, <2>10, <4>2 DEF Framed
      <4>. QED  BY <3>2, <4>4, <4>5
    <3>. QED  BY <3>3, <3>4, <3>5 DEF KeepaliveTraffic, Request
  <2>11. {t} # {}
    OBVIOUS
  <2>12. Turn(m, {t})
    BY <2>8, <2>9, <2>10, <2>11 DEF Turn
  <2>. QED  BY <1>1, <1>2, <2>2, <2>3, <2>12, EndTurnDue
<1>6. QED
  BY <1>4, <1>5

LEMMA IdentReadDue == DInv /\ IdentRead => DInv'
<1>. SUFFICES ASSUME DInv, IdentRead PROVE DInv'
  OBVIOUS
<1>1. PICK c, m : /\ c = [ses EXCEPT !.remoteident = "read"]
                  /\ m = MaybeFlushReplyQueue(c)
  OBVIOUS
<1>2. /\ ses.exited = "no" /\ ses.remoteident = "reading" /\ EndTurn(m, {})
      /\ IInv'
  BY <1>1, IdentReadKeeps DEF IdentRead, DInv
<1>3. ses \in Ses /\ ~ses.keyed /\ ~ses.authdone
  BY <1>2, SesFields DEF DInv, IInv, Typed, Due
<1>4. /\ c \in Ses /\ c.exited = "no" /\ ~c.authdone /\ ~c.keyed
  BY <1>1, <1>2, <1>3 DEF Ses, Ident
<1>5. /\ Framed(c, m) /\ m.exited = "no" /\ m \in Ses
      /\ DataAllowed(m) => m.held = {}
  BY <1>1, <1>4, FlushSpares, MaybeFlushSends DEF Wired
<1>6. ~m.authdone /\ ~m.keyed
  BY <1>4, <1>5 DEF Framed
<1>7. Turn(m, {})
  BY <1>5, <1>6 DEF Turn
<1>8. QED
  BY <1>2, <1>7, EndTurnDue

LEMMA IdentDue == DInv /\ (StartIdent \/ IdentFails) => DInv'
<1>1. ASSUME DInv, StartIdent PROVE DInv'
  <2>1. /\ ses \in Ses /\ ses.exited = "no" /\ ses.remoteident = "none" /\ IInv'
        /\ ~ses.authdone /\ ~ses.keyed
    BY <1>1, IdentKeeps, SesFields DEF StartIdent, InSelect, DInv, IInv, Typed, Due
  <2>2. /\ ses'.exited = "no" /\ ~ses'.authdone /\ ~ses'.keyed
        /\ ses'.kex = ses.kex /\ ses'.held = ses.held
    BY <1>1, <2>1 DEF StartIdent, Ses
  <2>. QED  BY <1>1, <2>1, <2>2 DEF DInv, Due, PeerWasAsked, DataAllowed
<1>2. ASSUME DInv, IdentFails PROVE DInv'
  <2>1. ses'.exited = "remote closed" /\ IInv'
    BY <1>2, IdentKeeps DEF IdentFails, Ses, DInv, IInv, Typed
  <2>. QED  BY <2>1 DEF DInv, PeerWasAsked
<1>3. QED
  BY <1>1, <1>2

---------------------------------------------------------------------------
(* Time, for what is owed *)

\* Of numbers: how the ages of a session whose peer owes nothing grow.
LEMMA QuietTick ==
    ASSUME NEW recv \in 0 .. MaxRecv, NEW sent \in 0 .. KEEPALIVE,
           recv <= sent \/ KEEPALIVE <= sent
    PROVE  \/ Older(recv, MaxRecv) <= Older(sent, KEEPALIVE)
           \/ KEEPALIVE <= Older(sent, KEEPALIVE)
BY Bounds DEF Older, Least

LEMMA OwedTick ==
    ASSUME KEEPALIVE > 0, NEW recv \in 0 .. MaxRecv, NEW owed \in 0 .. MaxRecv,
           recv < owed + MaxAnySent
    PROVE  /\ Older(recv, MaxRecv) < Older(owed, MaxRecv) + MaxAnySent
           /\ Older(owed, MaxRecv) # NotOwed
BY Bounds DEF Older, Least, NotOwed

LEMMA IdleTick ==
    ASSUME NEW idle \in 0 .. MaxIdle, NEW traffic \in 0 .. MaxTraffic,
           NEW l \in Nat, l > 0, traffic <= idle, idle + l < MaxIdle
    PROVE  /\ Older(traffic, MaxTraffic) <= Older(idle, MaxIdle)
           /\ Older(idle, MaxIdle) + (l - 1) < MaxIdle
BY Bounds DEF Older, Least

LEMMA TickDue == DInv /\ Tick => DInv'
<1>. SUFFICES ASSUME DInv, Tick PROVE DInv'
  OBVIOUS
<1>1. /\ ses \in Ses /\ real \in Real /\ left \in 0 .. Slack /\ left \in Nat
      /\ ses.exited = "no" /\ Due /\ IInv'
      /\ ses.authdone => ses.remoteident = "read"
  BY TickKeeps, Bounds DEF DInv, IInv, Typed, Tick
<1>2. /\ ses'.kex = ses.kex /\ ses'.held = ses.held
      /\ ses'.keyed = ses.keyed /\ ses'.chan = ses.chan
      /\ ses'.authdone = ses.authdone /\ ses'.remoteident = ses.remoteident
      /\ ses'.exited = "no"
      /\ ses'.keepalive_recv = Older(ses.keepalive_recv, MaxRecv)
      /\ ses'.keepalive_sent = Older(ses.keepalive_sent, KEEPALIVE)
      /\ ses'.idle = Older(ses.idle, MaxIdle)
  <2>. DEFINE connect == IF ses.authdone THEN 0 ELSE Older(ses.connect, MaxConnect)
  <2>1. ses' = [ses EXCEPT
                  !.any_sent = Older(ses.any_sent, MaxAnySent),
                  !.keepalive_recv = Older(ses.keepalive_recv, MaxRecv),
                  !.keepalive_sent = Older(ses.keepalive_sent, KEEPALIVE),
                  !.idle = Older(ses.idle, MaxIdle),
                  !.lastkex = Older(ses.lastkex, MaxKex),
                  !.connect = connect]
    BY Zenon DEF Tick
  <2>. HIDE DEF connect
  <2>. QED  BY <1>1, <2>1 DEF Ses
<1>3. /\ real'.traffic = Older(real.traffic, MaxTraffic)
      /\ real'.owed = IF real.owed = NotOwed THEN NotOwed
                      ELSE Older(real.owed, MaxRecv)
      /\ left' = IF ses.remoteident = "reading" THEN left ELSE left - 1
      /\ left > 0 \/ ses.remoteident = "reading"
  BY DEF Tick
<1>4. /\ ses.idle \in 0 .. MaxIdle /\ ses.keepalive_recv \in 0 .. MaxRecv
      /\ ses.keepalive_sent \in 0 .. KEEPALIVE
      /\ real.traffic \in 0 .. MaxTraffic
      /\ real.owed # NotOwed => real.owed \in 0 .. MaxRecv
  BY <1>1, SesFields, Bounds DEF Real, NotOwed
<1>5. DataAllowed(ses') => ses'.held = {}
  BY <1>1, <1>2 DEF Due, DataAllowed
<1>6. ses'.keyed => ses'.remoteident = "read"
  BY <1>1, <1>2 DEF Due
<1>7. ASSUME IDLE_TIMEOUT > 0, ses'.keyed, ~ses'.chan
      PROVE  real'.traffic <= ses'.idle /\ ses'.idle + left' < MaxIdle
  <2>1. left' = left - 1 /\ left > 0
    BY <1>1, <1>2, <1>3, <1>7 DEF Due
  <2>2. real.traffic <= ses.idle /\ ses.idle + left < MaxIdle
    BY <1>1, <1>2, <1>7 DEF Due
  <2>3. /\ Older(real.traffic, MaxTraffic) <= Older(ses.idle, MaxIdle)
        /\ Older(ses.idle, MaxIdle) + (left - 1) < MaxIdle
    BY <1>1, <1>4, <2>1, <2>2, IdleTick
  <2>. QED  BY <1>2, <1>3, <2>1, <2>3
<1>8. ASSUME KEEPALIVE > 0, ses'.authdone
      PROVE  IF real'.owed = NotOwed
             THEN /\ ses'.kex = "none" /\ ses'.keepalive_recv + left' < MaxAnySent
                  /\ \/ ses'.keepalive_recv <= ses'.keepalive_sent
                     \/ KEEPALIVE <= ses'.keepalive_sent
             ELSE ses'.keepalive_recv < real'.owed + MaxAnySent
  <2>1. ses.authdone /\ left' = left - 1 /\ left > 0
    BY <1>1, <1>2, <1>3, <1>8
  <2>2. CASE real.owed = NotOwed
    <3>1. /\ ses.kex = "none" /\ ses.keepalive_recv + left < MaxAnySent
          /\ \/ ses.keepalive_recv <= ses.keepalive_sent
             \/ KEEPALIVE <= ses.keepalive_sent
      BY <1>1, <1>8, <2>1, <2>2 DEF Due
    <3>2. /\ Older(ses.keepalive_recv, MaxRecv) <= ses.keepalive_recv + 1
          /\ Older(ses.keepalive_recv, MaxRecv) \in Nat
          /\ ses.keepalive_recv \in Nat
      <4>1. MaxRecv \in Nat
        BY Bounds
      <4>2. PICK r \in 0 .. MaxRecv : r = ses.keepalive_recv
        BY <1>4
      <4>3. Older(r, MaxRecv) \in 0 .. MaxRecv /\ Older(r, MaxRecv) <= r + 1
        BY <4>1, OlderBounds
      <4>. QED  BY <4>1, <4>2, <4>3
    <3>3. PICK a \in Nat, b \in Nat : /\ a = ses.keepalive_recv
                                      /\ b = Older(ses.keepalive_recv, MaxRecv)
      BY <3>2
    <3>4. b + (left - 1) < MaxAnySent
      BY <1>1, <2>1, <3>1, <3>2, <3>3, Bounds
    <3>5. \/ b <= Older(ses.keepalive_sent, KEEPALIVE)
          \/ KEEPALIVE <= Older(ses.keepalive_sent, KEEPALIVE)
      BY <1>4, <3>1, <3>3, QuietTick
    <3>. QED  BY <1>2, <1>3, <2>1, <2>2, <3>1, <3>3, <3>4, <3>5
  <2>3. CASE real.owed # NotOwed
    <3>1. ses.keepalive_recv < real.owed + MaxAnySent
      BY <1>1, <1>8, <2>1, <2>3 DEF Due
    <3>2. /\ Older(ses.keepalive_recv, MaxRecv) < Older(real.owed, MaxRecv) + MaxAnySent
          /\ Older(real.owed, MaxRecv) # NotOwed
      BY <1>4, <1>8, <2>3, <3>1, OwedTick
    <3>. QED  BY <1>2, <1>3, <2>3, <3>2
  <2>. QED  BY <2>2, <2>3
<1>9. QED
  BY <1>1, <1>2, <1>5, <1>6, <1>7, <1>8 DEF DInv, Due, PeerWasAsked

LEMMA InitDue == Init => DInv
<1>. SUFFICES ASSUME Init PROVE DInv
  OBVIOUS
<1>1. /\ ses.exited = "no" /\ ses.kex = "sent" /\ ~ses.keyed /\ ~ses.authdone
      /\ IInv
  BY InitHolds DEF Init
<1>2. QED
  BY <1>1 DEF DInv, Due, PeerWasAsked, DataAllowed

---------------------------------------------------------------------------

(* Owing: what each end is owed and how long it has been idle is bounded as *)
(* above, for every length of the intervals.                                *)
THEOREM Owing == Spec => []DInv
<1>1. ASSUME DInv, [Next]_vars PROVE DInv'
  <2>1. CASE NoPacket
    BY <1>1, <2>1, NoPacketDue
  <2>2. CASE ReadPacket
    BY <1>1, <2>2, ReadPacketDue
  <2>3. CASE Output
    BY <1>1, <2>3, OutputDue
  <2>4. CASE StartIdent \/ IdentFails
    BY <1>1, <2>4, IdentDue
  <2>5. CASE IdentRead
    BY <1>1, <2>5, IdentReadDue
  <2>6. CASE Tick
    BY <1>1, <2>6, TickDue
  <2>7. CASE UNCHANGED vars
    BY <1>1, <2>7 DEF vars, DInv, IInv, Typed, Honest, InTime, Due,
                      PeerWasAsked, DataAllowed
  <2>. QED  BY <1>1, <2>1, <2>2, <2>3, <2>4, <2>5, <2>6, <2>7 DEF Next
<1>2. QED
  BY InitDue, <1>1, PTL DEF Spec

(* IdleSeen: a session with no open channel and nothing but keepalives is   *)
(* closed within IDLE_TIMEOUT and one sleep in select() (checktimeouts(),   *)
(* process_packet() and encrypt_packet()).                                  *)
THEOREM IdleSeen == Spec => []IdleNoticed
<1>1. ASSUME DInv PROVE IdleNoticed
  <2>1. ASSUME Live, IDLE_TIMEOUT > 0, ~ses.chan, ses.keyed
        PROVE  real.traffic < MaxIdle
    <3>1. /\ real.traffic <= ses.idle /\ ses.idle + left < MaxIdle
          /\ ses \in Ses /\ left \in 0 .. Slack /\ real \in Real
      BY <1>1, <2>1 DEF DInv, Due, Live, IInv, Typed
    <3>2. /\ real.traffic \in Nat /\ ses.idle \in Nat /\ left \in Nat
          /\ MaxIdle \in Nat
      BY <3>1, SesFields, Bounds DEF Real
    <3>. QED  BY <3>1, <3>2
  <2>. QED  BY <2>1 DEF IdleNoticed
<1>2. QED
  BY Owing, <1>1, PTL

(* AskedFirst: a peer that is given up has left a keepalive, or its part of *)
(* an exchange, unanswered for more than an interval.  The code's limit is  *)
(* 3 (DEFAULT_KEEPALIVE_LIMIT); with 2 a peer could be given up after one   *)
(* interval, as nothing need be asked of it in the first.                   *)
THEOREM AskedFirst ==
    ASSUME KEEPALIVE_LIMIT > 2
    PROVE  Spec => []PeerWasAsked
<1>1. DInv => PeerWasAsked
  BY DEF DInv
<1>2. QED
  BY Owing, <1>1, PTL
=============================================================================
