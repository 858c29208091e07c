----------------------------- MODULE Transport -----------------------------
(***************************************************************************)
(* The transport layer of dropbear: common-kex.c, cli-kex.c, svr-kex.c,    *)
(* packet.c and process-packet.c as operators on one end's struct          *)
(* sshsession, the record s.  Module Session runs them at both ends.       *)
(*                                                                         *)
(* Random values are numbered: s.drawn counts those an end has drawn, for  *)
(* its KEXINIT cookies and its Diffie-Hellman values.  The secret of an    *)
(* exchange is the record of the four values it is computed from, so two   *)
(* ends have the same keys exactly when they computed them from the same.  *)
(***************************************************************************)
EXTENDS Integers, Sequences

CONSTANTS
    NoKeys,    \* the "none" cipher and MAC a session starts with
    NoContext, \* a NULL ses.newkeys
    NoParam,   \* a NULL cli_ses.dh_param
    Compress   \* whether the ends agree on zlib@openssh.com

ASSUME TransportAssumption == Compress \in BOOLEAN
\* No exchange agrees on the "none" keys.
ASSUME NoKeysAssumption == NoKeys \notin [c : Nat, s : Nat, x : Nat, y : Nat]

\* "C" is dbclient, "S" the dropbear server.
End == {"C", "S"}
Peer(e) == IF e = "C" THEN "S" ELSE "C"

KexType  == {"KEXINIT", "KEXDH_INIT", "KEXDH_REPLY", "NEWKEYS"}
ServiceType == {"SERVICE_REQUEST", "SERVICE_ACCEPT"}
AuthType == {"USERAUTH_REQUEST", "USERAUTH_FAILURE", "USERAUTH_SUCCESS",
             "USERAUTH_PK_OK"}
\* The types above MAX_UNAUTH_PACKET_TYPE.
ConnectionType == {"GLOBAL_REQUEST", "REQUEST_FAILURE", "CHANNEL_OPEN",
                   "CHANNEL_OPEN_CONFIRMATION", "CHANNEL_REQUEST",
                   "CHANNEL_SUCCESS"}
\* What a key exchange holds back.
UpperType  == ServiceType \cup AuthType \cup ConnectionType
PacketType == KexType \cup UpperType \cup {"UNIMPLEMENTED"}

(* Algorithms: "first" is the one an end guesses, the first of its list.   *)
(* A guess can be wrong because the ends agree on another kex algorithm,   *)
(* or on another host key algorithm with the guessed kex algorithm.        *)
Agreement == {"guessed", "otherkex", "otherhostkey"}
AgreedAlgo(agreed) == IF agreed = "otherkex" THEN "other" ELSE "first"

Exit(s, why) == [s EXCEPT !.exited = why]

---------------------------------------------------------------------------
(* packet.c *)

\* packet_is_okay_kex()
PacketIsOkayKex(t) == t \notin UpperType /\ t # "KEXINIT"

\* is_compress_trans(), is_compress_recv()
IsCompressTrans(s) == Compress /\ s.authdone /\ s.keys.trans # NoKeys
IsCompressRecv(s)  == Compress /\ s.authdone /\ s.keys.recv # NoKeys

\* A packet as it goes out, sealed with the keys in use.
Sealed(s, p) == [t |-> p.t, b |-> p.b, n |-> p.n,
                 key |-> s.keys.trans, z |-> IsCompressTrans(s)]

\* encrypt_packet(): to the write queue, or to the reply queue during a key
\* exchange.  handed numbers what it was given to send, apart from the
\* packets of the exchange itself.
EncryptPacket(s, t, b) ==
    LET p  == [t |-> t, b |-> b, n |-> s.handed + 1]
        s1 == IF t \in UpperType THEN [s EXCEPT !.handed = @ + 1] ELSE s
    IN  IF ~s.dataallowed /\ ~PacketIsOkayKex(t)
        THEN [s1 EXCEPT !.replyq = Append(@, p)]
        ELSE [s1 EXCEPT !.writequeue = Append(@, Sealed(s, p))]

\* maybe_flush_reply_queue()
\* Mutant: the queue is taken from its end.
FlushFromTail(s) ==
    LET k == Len(s.replyq)
    IN  IF ~s.dataallowed THEN s
        ELSE [s EXCEPT !.replyq = <<>>,
                       !.writequeue = @ \o
                           [i \in 1..k |-> Sealed(s, s.replyq[k + 1 - i])]]
\* Mutant: replies that were held back stay in the queue.
FlushNever(s) == s
MaybeFlushReplyQueue(s) ==
    IF ~s.dataallowed THEN s
    ELSE [s EXCEPT !.replyq = <<>>,
                   !.writequeue = @ \o
                       [i \in 1..Len(s.replyq) |-> Sealed(s, s.replyq[i])]]

---------------------------------------------------------------------------
(* common-kex.c, cli-kex.c, svr-kex.c *)

NewContext(algo) == [algo |-> algo, trans |-> NoKeys, recv |-> NoKeys]

\* kexinitialise()
KexInitialise(s) ==
    [s EXCEPT !.sentkexinit = FALSE, !.recvkexinit = FALSE,
              !.sentnewkeys = FALSE, !.recvnewkeys = FALSE,
              !.our_first_follows_matches = FALSE]

\* send_msg_kexdh_init(): a value drawn for the same algorithm is used again.
SendKexdhInit(s) ==
    LET fresh == s.param = NoParam \/ s.param.algo # s.newkeys.algo
        x     == IF fresh THEN s.drawn + 1 ELSE s.param.x
        s1    == [s EXCEPT !.drawn = IF fresh THEN @ + 1 ELSE @,
                           !.param = [algo |-> s.newkeys.algo, x |-> x]]
    IN  EncryptPacket(s1, "KEXDH_INIT", [algo |-> s.newkeys.algo, x |-> x])

\* send_msg_kexinit(), with the client's guess behind it
\* (USE_KEX_FIRST_FOLLOWS).
\* Mutant: other packets are not held back.
SendKexinitOpen(e, s) ==
    LET cookie == s.drawn + 1
        s1 == EncryptPacket([s EXCEPT !.drawn = cookie], "KEXINIT",
                            [cookie |-> cookie, first_follows |-> e = "C"])
        s2 == [s1 EXCEPT !.transkexinit = cookie, !.sentkexinit = TRUE,
                         !.newkeys = NewContext("first")]
    IN  IF e = "C" THEN SendKexdhInit(s2) ELSE s2
SendKexinit(e, s) ==
    LET cookie == s.drawn + 1
        s1 == EncryptPacket([s EXCEPT !.drawn = cookie], "KEXINIT",
                            [cookie |-> cookie, first_follows |-> e = "C"])
        s2 == [s1 EXCEPT !.transkexinit = cookie, !.dataallowed = FALSE,
                         !.sentkexinit = TRUE,
                         !.newkeys = NewContext("first")]
    IN  IF e = "C" THEN SendKexdhInit(s2) ELSE s2

\* read_kex_algos(): only the client guesses, and it is right or wrong at
\* both ends alike.
ReadKexAlgos(e, s, b, agreed) ==
    [s EXCEPT !.newkeys = NewContext(AgreedAlgo(agreed)),
              !.ignorenext = @ \/ (b.first_follows /\ agreed # "guessed"),
              !.our_first_follows_matches =
                  @ \/ (e = "C" /\ agreed = "guessed")]

\* recv_msg_kexinit()
RecvKexinit(e, s, b, agreed) ==
    LET s1 == IF s.sentkexinit THEN s ELSE SendKexinit(e, s)
        s2 == ReadKexAlgos(e, s1, b, agreed)
    IN  [s2 EXCEPT
           !.kexhash = IF e = "C" THEN [c |-> s1.transkexinit, s |-> b.cookie]
                                  ELSE [c |-> b.cookie, s |-> s1.transkexinit],
           !.requirenext = IF e = "C" THEN "KEXDH_REPLY" ELSE "KEXDH_INIT",
           !.transkexinit = 0, !.recvkexinit = TRUE]

\* gen_new_keys()
GenNewKeys(s, secret) ==
    [s EXCEPT !.newkeys.trans = secret, !.newkeys.recv = secret]

\* switch_keys(): keys change in the direction whose NEWKEYS has passed, and
\* the exchange ends when both have.
\* Mutant: both directions change with the NEWKEYS that is sent.
SwitchKeysBoth(s) ==
    LET s1 == [s EXCEPT
                 !.keys.recv = IF s.newkeys.recv # NoKeys
                               THEN s.newkeys.recv ELSE @,
                 !.newkeys.recv = NoKeys,
                 !.keys.trans = IF s.sentnewkeys /\ s.newkeys.trans # NoKeys
                                THEN s.newkeys.trans ELSE @,
                 !.newkeys.trans = IF s.sentnewkeys THEN NoKeys ELSE @]
    IN  IF s.sentnewkeys /\ s.recvnewkeys
        THEN KexInitialise([s1 EXCEPT !.newkeys = NoContext])
        ELSE s1
SwitchKeys(s) ==
    LET s1 == [s EXCEPT
                 !.keys.recv = IF s.recvnewkeys /\ s.newkeys.recv # NoKeys
                               THEN s.newkeys.recv ELSE @,
                 !.newkeys.recv = IF s.recvnewkeys THEN NoKeys ELSE @,
                 !.keys.trans = IF s.sentnewkeys /\ s.newkeys.trans # NoKeys
                                THEN s.newkeys.trans ELSE @,
                 !.newkeys.trans = IF s.sentnewkeys THEN NoKeys ELSE @]
    IN  IF ~(s.sentkexinit /\ s.recvkexinit)
        THEN Exit(s, "unexpected newkeys")
        ELSE IF s.sentnewkeys /\ s.recvnewkeys
        THEN KexInitialise([s1 EXCEPT !.newkeys = NoContext])
        ELSE s1

\* send_msg_newkeys()
SendNewkeys(s, secret) ==
    LET s1 == EncryptPacket(s, "NEWKEYS", 0)
        s2 == [s1 EXCEPT !.sentnewkeys = TRUE, !.donefirstkex = TRUE,
                         !.dataallowed = TRUE]
    IN  SwitchKeys(GenNewKeys(s2, secret))

\* recv_msg_newkeys()
RecvNewkeys(s) == SwitchKeys([s EXCEPT !.recvnewkeys = TRUE])

\* recv_msg_kexdh_init(), send_msg_kexdh_reply(): the server draws its own
\* value; a value made for another algorithm is a "Bad kex value".  Its
\* signature is over the hash of everything it computed the secret from.
RecvKexdhInit(s, b) ==
    LET y      == s.drawn + 1
        secret == [c |-> s.kexhash.c, s |-> s.kexhash.s, x |-> b.x, y |-> y]
        s1     == EncryptPacket([s EXCEPT !.drawn = y], "KEXDH_REPLY",
                                [y |-> y, signed |-> secret])
    IN  IF ~s.recvkexinit THEN Exit(s, "premature kexdh_init")
        ELSE IF b.algo # s.newkeys.algo THEN Exit(s, "bad kex value")
        ELSE [SendNewkeys(s1, secret) EXCEPT !.requirenext = "NEWKEYS"]

\* recv_msg_kexdh_reply()
\* Mutant: the value is kept, and used again in the next exchange.
RecvKexdhReplyKeeps(s, b) ==
    LET secret == [c |-> s.kexhash.c, s |-> s.kexhash.s,
                   x |-> s.param.x, y |-> b.y]
    IN  [SendNewkeys(s, secret) EXCEPT !.requirenext = "NEWKEYS"]
RecvKexdhReply(s, b) ==
    LET secret == [c |-> s.kexhash.c, s |-> s.kexhash.s,
                   x |-> s.param.x, y |-> b.y]
        s1     == [s EXCEPT !.param = NoParam]
    IN  IF s.kex_state # "KEXDH_INIT_SENT" THEN Exit(s, "out-of-order kexdh_reply")
        ELSE IF b.signed # secret THEN Exit(s1, "bad hostkey signature")
        ELSE [SendNewkeys(s1, secret) EXCEPT !.requirenext = "NEWKEYS"]

---------------------------------------------------------------------------
(* process-packet.c *)

\* What process_packet() has done when it calls the handler.
Noted(s, t) == [s EXCEPT !.lastpacket = t]
ForHandler(s, t) ==
    [s EXCEPT !.lastpacket = t,
              !.requirenext = IF @ = t THEN "none" ELSE @]

\* process_packet() for a packet of type t; h is the state its handler leaves.
\* Mutant: the packet of a wrong guess meets its handler.
ProcessPacketNoIgnore(s, t, h) ==
    IF t = "UNIMPLEMENTED" THEN Noted(s, t)
    ELSE IF s.requirenext \notin {"none", t}
    THEN IF t \in KexType \ {"KEXINIT"}
         THEN EncryptPacket(Noted(s, t), "UNIMPLEMENTED", 0)
         ELSE Exit(s, "unexpected packet")
    ELSE IF ~s.authdone /\ t \in ConnectionType
    THEN Exit(s, "packet before userauth")
    ELSE h
ProcessPacket(s, t, h) ==
    IF t = "UNIMPLEMENTED" THEN Noted(s, t)
    ELSE IF s.requirenext \notin {"none", t}
    THEN IF t \in KexType \ {"KEXINIT"}
         THEN EncryptPacket(Noted(s, t), "UNIMPLEMENTED", 0)
         ELSE Exit(s, "unexpected packet")
    ELSE IF s.ignorenext
    THEN [Noted(s, t) EXCEPT !.ignorenext = FALSE]
    ELSE IF ~s.authdone /\ t \in ConnectionType
    THEN Exit(s, "packet before userauth")
    ELSE h

\* read_packet() and decrypt_packet(): a packet sealed with other keys fails
\* the integrity check, one compressed unexpectedly cannot be inflated.
Readable(s, p) == p.key = s.keys.recv
Inflatable(s, p) == p.z = IsCompressRecv(s)
Read(s, p, r) ==
    IF ~Readable(s, p) THEN Exit(s, "integrity error")
    ELSE IF ~Inflatable(s, p) THEN Exit(s, "bad packet")
    ELSE r

\* common_session_init(), kexfirstinitialise(), then send_msg_kexinit() in
\* cli_session() and svr_session()
InitialSession ==
    [sentkexinit |-> FALSE, recvkexinit |-> FALSE,
     sentnewkeys |-> FALSE, recvnewkeys |-> FALSE, donefirstkex |-> FALSE,
     our_first_follows_matches |-> FALSE,
     dataallowed |-> TRUE, ignorenext |-> FALSE,
     requirenext |-> "KEXINIT", lastpacket |-> "none",
     transkexinit |-> 0, kexhash |-> [c |-> 0, s |-> 0],
     newkeys |-> NoContext, keys |-> [trans |-> NoKeys, recv |-> NoKeys],
     writequeue |-> <<>>, replyq |-> <<>>, authdone |-> FALSE,
     kex_state |-> "KEX_NOTHING", param |-> NoParam,
     chancount |-> 0, drawn |-> 0, handed |-> 0, exited |-> "no"]

=============================================================================
