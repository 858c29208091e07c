------------------------- MODULE TimeoutsProperties -------------------------
(* What the clocks of a server's session promise. *)
EXTENDS Timeouts

HeldType == {"KEXINIT", "USERAUTH_FAILURE", "USERAUTH_SUCCESS",
             "CHANNEL_OPEN_CONFIRMATION", "CHANNEL_DATA", "CHANNEL_CLOSE",
             "GLOBAL_REQUEST", "REQUEST_FAILURE", "CHANNEL_REQUEST",
             "CHANNEL_FAILURE"}

\* Type invariant.
TypeOK ==
    /\ ses.any_sent \in 0..MaxAnySent /\ ses.keepalive_recv \in 0..MaxRecv
    /\ ses.keepalive_sent \in 0..KEEPALIVE /\ ses.idle \in 0..MaxIdle
    /\ ses.lastkex \in 0..MaxKex /\ ses.connect \in 0..MaxConnect
    /\ ses.kex \in {"none", "sent", "both", "newkeys"}
    /\ {ses.keyed, ses.datadue, ses.authdone, ses.chan} \subseteq BOOLEAN
    /\ ses.held \subseteq HeldType /\ ses.wire = {}
    /\ ses.remoteident \in {"none", "reading", "read"}
    /\ left \in 0..Slack
    /\ real.sent \in 0..MaxAnySent /\ real.traffic \in 0..MaxTraffic
    /\ real.owed \in NotOwed..MaxRecv

Live == ses.exited = "no"

(* SendGap: with keepalives on, an authenticated session is never silent    *)
(* for two intervals, whatever restarts select() with its full timeout,     *)
(* unless an exchange holds the keepalives back (common-session.c,          *)
(* checktimeouts() and select_timeout()).                                   *)
SendGap ==
    Live /\ KEEPALIVE > 0 /\ ses.authdone /\ DataAllowed(ses)
    => real.sent < 2 * KEEPALIVE

(* DeadPeerNoticed: a session whose peer has gone silent is over after      *)
(* KEEPALIVE_LIMIT + 1 intervals, also in the middle of an exchange and     *)
(* with output still being written.                                         *)
DeadPeerNoticed ==
    Live /\ KEEPALIVE > 0 /\ ses.authdone
    => ses.keepalive_recv < (KEEPALIVE_LIMIT + 1) * KEEPALIVE

(* PeerWasAsked: the peer is only given up when it has left a keepalive, or *)
(* its part of an exchange, unanswered for more than one interval: a peer   *)
(* that answers within an interval keeps its session.                       *)
PeerWasAsked ==
    ses.exited = "Keepalive timeout" => real.owed > KEEPALIVE

(* IdleNoticed: a session with no open channel and nothing but keepalives   *)
(* is closed within IDLE_TIMEOUT and one turn of the loop ("keepalives      *)
(* shouldn't update idle timeout"), once the first exchange is done.        *)
IdleNoticed ==
    Live /\ IDLE_TIMEOUT > 0 /\ ~ses.chan /\ ses.keyed
    => real.traffic < MaxIdle

(* NotIdle: a session is not closed as idle while there is traffic.         *)
NotIdle == ses.exited = "Idle timeout" => real.traffic >= IDLE_TIMEOUT

(* AuthInTime: a client that has not authenticated is gone before twice     *)
(* AUTH_TIMEOUT, unless the server waits in ident_readln().                 *)
AuthInTime ==
    Live /\ ~ses.authdone /\ ses.remoteident # "reading"
    => ses.connect < 2 * AUTH_TIMEOUT

(* RekeyInTime: keys are not used for longer than KEX_REKEY_TIMEOUT and the *)
(* time select() may sleep before another exchange begins.                  *)
RekeyInTime ==
    Live /\ ses.authdone /\ ses.kex = "none" => ses.lastkex < MaxKex

---------------------------------------------------------------------------
(* What the documentation says, and the code does not keep. *)

(* KeepalivesDoNotCount: "Ignore these packet types so that keepalives      *)
(* don't interfere with idle detection" (process-packet.c), for every       *)
(* authenticated session: it does not stay open three times IDLE_TIMEOUT    *)
(* with nothing but keepalives.                                             *)
KeepalivesDoNotCount ==
    Live /\ IDLE_TIMEOUT > 0 /\ ses.authdone => real.traffic < MaxTraffic

=============================================================================
