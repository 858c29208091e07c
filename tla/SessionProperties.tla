------------------------- MODULE SessionProperties -------------------------
(* What a session between dbclient and the server promises. *)
EXTENDS Session

\* Everything under way from end e, the packets that still lie in its write
\* queue last.
Wire(e) == net[Peer(e)] \o ses[e].writequeue

IsUpper(p) == p.t \in UpperType

(* KeysAgree: a packet that is next to be read was sealed with the keys the *)
(* reader has (common-kex.c, switch_keys() at each end), however rekeying,  *)
(* guesses and traffic cross on the wire.                                   *)
KeysAgree ==
    \A e \in End : Running(e) /\ net[e] # <<>> => Readable(ses[e], Head(net[e]))

(* CompressionAgrees: with zlib@openssh.com the reader inflates exactly the *)
(* packets that were deflated: both ends change over between the same two   *)
(* packets ("authdone must be set after encrypt_packet()", svr-auth.c).     *)
CompressionAgrees ==
    \A e \in End :
        Running(e) /\ net[e] # <<>> => Inflatable(ses[e], Head(net[e]))

(* NoProtocolExit: two dropbears do not make each other die of the          *)
(* protocol: an unexpected packet or answer, a key exchange out of order, a *)
(* bad signature or an integrity error.  A session ends early only for want *)
(* of a method, after too many tries, or because the other end has gone.    *)
NoProtocolExit ==
    \A e \in End : ses[e].exited \in {"no", "max auth tries",
                                      "no auth methods", "remote closed"}

(* InOrder: what an end gave encrypt_packet() to send and the peer has not  *)
(* read is on the wire or in the reply queue (packet.c,                     *)
(* enqueue_reply_packet()), each once and in that order.                    *)
InOrder ==
    \A e \in End :
        LET w  == Wire(e) \o ses[e].replyq
            up == {i \in 1..Len(w) : IsUpper(w[i])}
        IN  /\ {w[i].n : i \in up} = got[Peer(e)] + 1..ses[e].handed
            /\ \A i, j \in up : i < j => w[i].n < w[j].n

(* QuietExchange: between an end's KEXINIT and its NEWKEYS it sends nothing *)
(* of the layers above (RFC 4253 7.1; ses.dataallowed).                     *)
QuietExchange ==
    \A e \in End :
        LET w == Wire(e)
        IN  \A i, j \in 1..Len(w) :
                i < j /\ w[i].t = "KEXINIT" /\ IsUpper(w[j])
                => \E k \in i..j : w[k].t = "NEWKEYS"

(* FreshKeys: keys that an exchange puts in place, in either direction, are *)
(* made from values neither end has used in an earlier exchange: also the   *)
(* client's, which it keeps for the second packet of a wrong guess          *)
(* (cli_ses.dh_param) and must throw away after the reply.                  *)
Fresher(k, old) ==
    old = NoKeys \/ \A f \in {"c", "s", "x", "y"} : k[f] > old[f]
FreshKeys ==
    [][\A e \in End : \A d \in {"trans", "recv"} :
         ses'[e].keys[d] # ses[e].keys[d]
         => Fresher(ses'[e].keys[d], ses[e].keys[d])]_vars

(* AuthenticatedByProof: the server accepts a client in no step but one in *)
(* which it reads the user's password or a signature by an authorized key.  *)
Proven(b) ==
    /\ b.user \in ValidUsers
    /\ \/ b.method = "password" /\ b.right
       \/ b.method = "sign" /\ b.key \in Authorized
AuthenticatedByProof ==
    [][ses'["S"].authdone /\ ~ses["S"].authdone => Proven(Body("S"))]_vars

(* ExchangeCompletes: an exchange that an end has begun comes to its end,   *)
(* or the session does (requirenext, ignorenext and the client's kex_state  *)
(* never leave the two ends waiting for each other).                        *)
ExchangeCompletes ==
    \A e \in End : ses[e].sentkexinit ~> ~ses[e].sentkexinit \/ ~Running(e)

(* NeverStandsStill: neither end is in an exchange, or holds a reply back,  *)
(* with nothing left that would end it: a packet of the exchange is on its  *)
(* way or in a write queue, or the client's loop is about to send its value *)
(* (cli_sessionloop(), KEX_NOTHING after a KEXINIT).                        *)
UnderWay(types) == \E e \in End : \E i \in 1..Len(Wire(e)) : Wire(e)[i].t \in types
ValueIsDue == pc["C"] \in {"io", "handler"} /\ StartsKexdh(ses["C"])
NeverStandsStill ==
    \A e \in End :
        ses[e].sentkexinit \/ (Running(e) /\ ses[e].replyq # <<>>)
        => UnderWay(KexType) \/ ValueIsDue

(* AllDelivered: whatever an end has been given to send arrives, also what  *)
(* was held back by an exchange, unless the session ends.                   *)
AllDelivered ==
    \A e \in End : (ses[e].handed > got[Peer(e)])
        ~> (ses[e].handed = got[Peer(e)] \/ \E f \in End : ~Running(f))

(* AuthEnds: the client's session runs in the end or is closed: it does not *)
(* offer a refused key for ever, nor wait for an answer that never comes.   *)
AuthEnds == <>(cli.state = "SESSION_RUNNING" \/ ~Running("C"))

=============================================================================
