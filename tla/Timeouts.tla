------------------------------ MODULE Timeouts ------------------------------
(***************************************************************************)
(* The clocks of a dropbear server's session: checktimeouts(),             *)
(* select_timeout(), send_msg_keepalive() and ident_readln()               *)
(* (common-session.c), the time stamps of process_packet() and             *)
(* encrypt_packet(), and the time limit of svr_sessionloop().              *)
(*                                                                         *)
(* Every time stamp is kept as its age, the seconds since it was taken, up *)
(* to a cap at which nothing depends on it any more.  Time passes while    *)
(* the process is in select(); a turn of session_loop() is one step.  The  *)
(* peer, a client that follows the protocol, may send at any time or never.*)
(***************************************************************************)
EXTENDS Integers

CONSTANTS
    KEEPALIVE,          \* opts.keepalive_secs, 0 for never
    KEEPALIVE_LIMIT,    \* DEFAULT_KEEPALIVE_LIMIT
    IDLE_TIMEOUT,       \* opts.idle_timeout_secs, 0 for never
    AUTH_TIMEOUT,
    KEX_REKEY_TIMEOUT

ASSUME TimeoutsAssumption ==
    /\ KEEPALIVE \in Nat /\ KEEPALIVE_LIMIT \in Nat \ {0}
    /\ IDLE_TIMEOUT \in Nat
    /\ AUTH_TIMEOUT \in Nat \ {0} /\ KEX_REKEY_TIMEOUT \in Nat \ {0}

VARIABLES
    ses,    \* struct sshsession and svr_ses, as far as time goes
    left,   \* what is left of the timeout given to select()
    real    \* history: ages of what was really sent, received and asked for

vars == <<ses, left, real>>

KexType == {"KEXINIT", "KEXDH_INIT", "KEXDH_REPLY", "NEWKEYS"}
Request == {"GLOBAL_REQUEST", "CHANNEL_REQUEST"}

\* Packets that only keep the connection alive: requests for
\* "keepalive@openssh.com", what answers them, and SSH_MSG_IGNORE.
KeepaliveTraffic == Request \cup
    {"REQUEST_FAILURE", "CHANNEL_FAILURE", "UNIMPLEMENTED", "IGNORE"}

\* ses.dataallowed and ses.kexstate.sentkexinit
DataAllowed(s) == s.kex \in {"none", "newkeys"}
SentKexinit(s) == s.kex # "none"

\* MIN()
Least(a, b) == IF a <= b THEN a ELSE b

---------------------------------------------------------------------------
(* packet.c *)

\* encrypt_packet(), for packets of the types in T that may go out.
OnWire(s, T) ==
    [s EXCEPT !.any_sent = 0,
              !.idle = IF T \subseteq {"REQUEST_FAILURE", "UNIMPLEMENTED",
                                       "IGNORE"}
                       THEN @ ELSE 0,
              !.wire = @ \cup T]

\* encrypt_packet()
EncryptPacket(s, t) ==
    IF ~DataAllowed(s) /\ (t \notin KexType \/ t = "KEXINIT")
    THEN [s EXCEPT !.held = @ \cup {t}]
    ELSE OnWire(s, {t})

\* maybe_flush_reply_queue()
MaybeFlushReplyQueue(s) ==
    IF ~DataAllowed(s) \/ s.held = {} THEN s
    ELSE OnWire([s EXCEPT !.held = {}], s.held)

---------------------------------------------------------------------------
(* common-session.c *)

\* send_msg_kexinit()
SendKexinit(s) == [EncryptPacket(s, "KEXINIT") EXCEPT !.kex = "sent"]

\* send_msg_keepalive(): the idle time stays what it was.
\* Mutant: it is reset, like by any other packet.
SendKeepaliveBusy(s) ==
    [EncryptPacket(s, IF s.chan THEN "CHANNEL_REQUEST" ELSE "GLOBAL_REQUEST")
       EXCEPT !.keepalive_sent = 0]
SendKeepalive(s) ==
    [EncryptPacket(s, IF s.chan THEN "CHANNEL_REQUEST" ELSE "GLOBAL_REQUEST")
       EXCEPT !.keepalive_sent = 0, !.idle = s.idle]

\* checktimeouts(), its four tests in their order
Rekey(s) ==
    IF ~SentKexinit(s) /\ (s.lastkex >= KEX_REKEY_TIMEOUT \/ s.datadue)
    THEN SendKexinit(s) ELSE s
KeepaliveIfQuiet(s) ==
    IF s.any_sent >= KEEPALIVE THEN SendKeepalive(s) ELSE s
KeepaliveIfSilent(s) ==
    IF s.keepalive_recv >= KEEPALIVE /\ s.keepalive_sent >= KEEPALIVE
    THEN SendKeepalive(s) ELSE s
\* Mutant: the peer is given up after one keepalive interval.
GiveUpEarly(s) ==
    IF s.keepalive_recv >= KEEPALIVE
    THEN [s EXCEPT !.exited = "Keepalive timeout"] ELSE s
GiveUp(s) ==
    IF s.keepalive_recv >= KEEPALIVE * KEEPALIVE_LIMIT
    THEN [s EXCEPT !.exited = "Keepalive timeout"] ELSE s
Keepalives(s) ==
    IF KEEPALIVE > 0 /\ s.authdone
    THEN GiveUp(KeepaliveIfSilent(KeepaliveIfQuiet(s))) ELSE s
Idle(s) ==
    IF IDLE_TIMEOUT > 0 /\ s.idle >= IDLE_TIMEOUT /\ s.exited = "no"
    THEN [s EXCEPT !.exited = "Idle timeout"] ELSE s
CheckTimeouts(s) ==
    IF s.remoteident # "read" THEN s ELSE Idle(Keepalives(Rekey(s)))

\* select_timeout(): the whole of the shortest interval, every time.  An
\* interval of 0 is none.
LeastOn(interval, ret) == IF interval > 0 THEN Least(interval, ret) ELSE ret
\* Mutant: the keepalive interval is left out of it.
SelectTimeoutNoKeepalive(s) ==
    LET ret == IF s.authdone THEN KEX_REKEY_TIMEOUT
               ELSE Least(AUTH_TIMEOUT, KEX_REKEY_TIMEOUT)
    IN  LeastOn(IDLE_TIMEOUT, ret)
SelectTimeout(s) ==
    LET ret == IF s.authdone THEN KEX_REKEY_TIMEOUT
               ELSE Least(AUTH_TIMEOUT, KEX_REKEY_TIMEOUT)
    IN  LeastOn(IDLE_TIMEOUT, LeastOn(KEEPALIVE, ret))

---------------------------------------------------------------------------
(* process-packet.c *)

\* The packets a client may send: those of a key exchange in their order,
\* nothing else from its KEXINIT to its NEWKEYS, and only requests to
\* authenticate before it is let in.
MaySend(s, t) ==
    \/ t \in {"IGNORE", "UNIMPLEMENTED"}
    \/ t = "KEXINIT"    /\ s.kex \in {"none", "sent"}
    \/ t = "KEXDH_INIT" /\ s.kex = "both"
    \/ t = "NEWKEYS"    /\ s.kex = "newkeys"
    \/ /\ s.kex \in {"none", "sent"} /\ s.keyed
       /\ \/ t = "USERAUTH_REQUEST" /\ ~s.authdone
          \/ t \in {"CHANNEL_OPEN", "GLOBAL_REQUEST", "REQUEST_FAILURE"}
             /\ s.authdone
          \/ t \in {"CHANNEL_DATA", "CHANNEL_CLOSE", "CHANNEL_REQUEST",
                    "CHANNEL_FAILURE"}
             /\ s.authdone /\ s.chan

\* process_packet(), before the handler is called
\* Mutant: what arrives is not activity, only what is sent.
NoteNothing(s, t) == [s EXCEPT !.keepalive_recv = 0]
Note(s, t) ==
    [s EXCEPT !.keepalive_recv = 0,
              !.idle = IF t \in {"IGNORE", "UNIMPLEMENTED", "GLOBAL_REQUEST",
                                 "REQUEST_FAILURE"}
                       THEN @ ELSE 0]

\* The handlers' effect, with what they send.  An authentication request may
\* succeed; a CHANNEL_CLOSE may leave other channels behind.
Handled(s, t) ==
    CASE t = "KEXINIT" ->
            {[(IF SentKexinit(s) THEN s ELSE SendKexinit(s)) EXCEPT !.kex = "both"]}
      [] t = "KEXDH_INIT" ->
            {[EncryptPacket(EncryptPacket(s, "KEXDH_REPLY"), "NEWKEYS")
                EXCEPT !.kex = "newkeys", !.keyed = TRUE]}
      [] t = "NEWKEYS" -> {[s EXCEPT !.kex = "none", !.lastkex = 0, !.datadue = FALSE]}
      [] t = "USERAUTH_REQUEST" ->
            {EncryptPacket(s, "USERAUTH_FAILURE"),
             [EncryptPacket(s, "USERAUTH_SUCCESS")
                EXCEPT !.authdone = TRUE, !.connect = 0]}
      [] t = "CHANNEL_OPEN" ->
            {[EncryptPacket(s, "CHANNEL_OPEN_CONFIRMATION") EXCEPT !.chan = TRUE]}
      [] t = "CHANNEL_CLOSE" ->
            {[EncryptPacket(s, "CHANNEL_CLOSE") EXCEPT !.chan = c] : c \in BOOLEAN}
      [] t = "GLOBAL_REQUEST"  -> {EncryptPacket(s, "REQUEST_FAILURE")}
      [] t = "CHANNEL_REQUEST" -> {EncryptPacket(s, "CHANNEL_FAILURE")}
      [] OTHER -> {s}

Incoming == {"IGNORE", "UNIMPLEMENTED", "KEXINIT", "KEXDH_INIT", "NEWKEYS",
             "USERAUTH_REQUEST", "CHANNEL_OPEN", "CHANNEL_CLOSE",
             "CHANNEL_DATA", "CHANNEL_REQUEST", "CHANNEL_FAILURE",
             "GLOBAL_REQUEST", "REQUEST_FAILURE"}

---------------------------------------------------------------------------
(* session_loop() *)

\* svr_sessionloop(): connect_time is 0 once authdone is set.
\* Mutant: every packet the client sends gives it more time.
SvrSessionloopRestarts(s) ==
    IF ~s.authdone /\ s.keepalive_recv >= AUTH_TIMEOUT /\ s.exited = "no"
    THEN [s EXCEPT !.exited = "Timeout before auth"] ELSE s
SvrSessionloop(s) ==
    IF ~s.authdone /\ s.connect >= AUTH_TIMEOUT /\ s.exited = "no"
    THEN [s EXCEPT !.exited = "Timeout before auth"] ELSE s

\* What the history makes of a turn, of which ses.wire holds the types it put
\* on the wire: "sent" and "traffic" are what went over the wire, "owed" how
\* long the peer has had something to answer (a keepalive or its part of a
\* key exchange), or NotOwed.
NotOwed == -1
Observed(s, received) ==
    LET all    == s.wire \cup received
        before == IF received # {} THEN NotOwed ELSE real.owed
        asks   == SentKexinit(s) \/ s.wire \cap Request # {}
    IN  [sent    |-> IF s.wire # {} THEN 0 ELSE real.sent,
         traffic |-> IF all \ KeepaliveTraffic # {} THEN 0 ELSE real.traffic,
         owed    |-> IF before = NotOwed /\ asks THEN 0 ELSE before]

\* ses.datadue, datarecv + datatrans >= KEX_REKEY_DATA: the packets of any
\* turn may get there.  The count begins again after the peer's NEWKEYS.
DataDue(s, received) ==
    IF s.wire \cup (received \ {"NEWKEYS"}) = {} THEN {s.datadue}
    ELSE {s.datadue, TRUE}

\* The end of a turn that received the given packets, and the next select().
EndTurn(s, received) ==
    LET h == SvrSessionloop(s)
    IN  /\ \E d \in DataDue(h, received) :
             ses' = [h EXCEPT !.wire = {}, !.datadue = d]
        /\ real' = Observed(h, received)
        /\ left' = SelectTimeout(h)

InSelect == ses.exited = "no" /\ ses.remoteident # "reading"

\* A turn with nothing to read: select() timed out, or was interrupted.
NoPacket ==
    /\ InSelect
    /\ EndTurn(IF CheckTimeouts(ses).exited = "no"
               THEN MaybeFlushReplyQueue(CheckTimeouts(ses))
               ELSE CheckTimeouts(ses), {})

\* A packet arrives; the timeouts are checked before it is read.
ReadPacket ==
    \E t \in Incoming :
        /\ InSelect /\ ses.remoteident = "read"
        /\ MaySend(ses, t)
        /\ LET s == CheckTimeouts(ses)
           IN  IF s.exited # "no" THEN EndTurn(s, {})
               ELSE \E h \in Handled(Note(s, t), t) :
                        EndTurn(MaybeFlushReplyQueue(h), {t})

\* channelio(): a channel's process has written something.
Output ==
    /\ InSelect /\ ses.chan /\ DataAllowed(ses)
    /\ LET s == CheckTimeouts(ses)
       IN  IF s.exited # "no" THEN EndTurn(s, {})
           ELSE EndTurn(EncryptPacket(MaybeFlushReplyQueue(s), "CHANNEL_DATA"),
                        {})

\* The first byte of the peer's identification line: ident_readln() waits
\* for the rest of the line and looks at nothing else.
StartIdent ==
    /\ InSelect /\ ses.remoteident = "none"
    /\ ses' = [ses EXCEPT !.remoteident = "reading"]
    /\ UNCHANGED <<left, real>>

\* The line is complete and the turn goes on.
IdentRead ==
    /\ ses.exited = "no" /\ ses.remoteident = "reading"
    /\ EndTurn(MaybeFlushReplyQueue([ses EXCEPT !.remoteident = "read"]), {})

\* A read error, the end of the file, or too long a line: remoteclosed().
IdentFails ==
    /\ ses.exited = "no" /\ ses.remoteident = "reading"
    /\ ses' = [ses EXCEPT !.exited = "remote closed"]
    /\ UNCHANGED <<left, real>>

---------------------------------------------------------------------------
(* Time *)

\* The ages up to which something may depend on them.
Slack == LeastOn(IDLE_TIMEOUT, LeastOn(KEEPALIVE, KEX_REKEY_TIMEOUT))
MaxAnySent == 2 * KEEPALIVE
MaxRecv    == (KEEPALIVE_LIMIT + 1) * KEEPALIVE
MaxIdle    == IDLE_TIMEOUT + Slack
MaxKex     == KEX_REKEY_TIMEOUT + Slack
MaxConnect == 2 * AUTH_TIMEOUT
MaxTraffic == 3 * IDLE_TIMEOUT

Older(age, max) == Least(age + 1, max)

Tick ==
    /\ ses.exited = "no"
    /\ left > 0 \/ ses.remoteident = "reading"
    /\ left' = IF ses.remoteident = "reading" THEN left ELSE left - 1
    /\ ses' = [ses EXCEPT
         !.any_sent = Older(@, MaxAnySent),
         !.keepalive_recv = Older(@, MaxRecv),
         !.keepalive_sent = Older(@, KEEPALIVE),
         !.idle = Older(@, MaxIdle),
         !.lastkex = Older(@, MaxKex),
         !.connect = IF ses.authdone THEN 0 ELSE Older(@, MaxConnect)]
    /\ real' = [sent |-> Older(real.sent, MaxAnySent),
                traffic |-> Older(real.traffic, MaxTraffic),
                owed |-> IF real.owed = NotOwed THEN NotOwed
                         ELSE Older(real.owed, MaxRecv)]

---------------------------------------------------------------------------

\* common_session_init(), svr_session(): the identification and the first
\* KEXINIT are on their way when the loop begins.
Init ==
    /\ ses = [any_sent |-> 0, keepalive_recv |-> 0,
              keepalive_sent |-> KEEPALIVE, idle |-> 0, lastkex |-> 0,
              connect |-> 0, kex |-> "sent", keyed |-> FALSE,
              datadue |-> FALSE, authdone |-> FALSE, chan |-> FALSE,
              held |-> {}, wire |-> {}, remoteident |-> "none",
              exited |-> "no"]
    /\ left = SelectTimeout(ses)
    /\ real = [sent |-> 0, traffic |-> 0, owed |-> 0]

Next == NoPacket \/ ReadPacket \/ Output \/ StartIdent \/ IdentRead
        \/ IdentFails \/ Tick

Spec == Init /\ [][Next]_vars

=============================================================================
