------------------------------ MODULE Session ------------------------------
(***************************************************************************)
(* A dbclient and a dropbear server over one connection: session_loop() at *)
(* both ends, the key exchanges of Transport, authentication               *)
(* (svr-auth.c, svr-authpubkey.c, svr-authpasswd.c, cli-auth.c,            *)
(* cli-authpubkey.c), the client's state machine (cli-session.c), and the  *)
(* requests and replies of the connection layer as numbered traffic.       *)
(*                                                                         *)
(* A turn of session_loop() is four steps, after each of which the other   *)
(* end may move: checktimeouts(), one packet (with the reply queue flushed *)
(* behind it), channelio() and write_packet(), the loop handler.           *)
(***************************************************************************)
EXTENDS Transport

CONSTANTS
    PrivKeys,       \* the client's keys, in the order it tries them
    Authorized,     \* the keys in the user's authorized_keys
    PasswordAuth,   \* not svr_opts.noauthpass
    Users,          \* names the client's user may try; dbclient uses one
    ValidUsers,     \* those checkusername() accepts
    MAX_AUTH_TRIES,
    MaxRekey,       \* bounds, for each end: the exchanges it starts after the
    MaxRequests     \* first, and its requests once authenticated

ASSUME SessionAssumption ==
    /\ PasswordAuth \in BOOLEAN
    /\ Users # {} /\ ValidUsers \subseteq Users
    /\ MAX_AUTH_TRIES \in Nat \ {0}
    /\ MaxRekey \in [End -> Nat] /\ MaxRequests \in [End -> Nat]

VARIABLES
    ses,     \* struct sshsession of each end
    cli,     \* cli_ses and the client's authstate
    svr,     \* the server's authstate
    net,     \* packets written and not yet read by each end
    pc,      \* the next step of each end's session_loop()
    agreed,  \* how the algorithm lists of the two ends compare
    spent,   \* how much of each bound is used
    got      \* history: the last numbered packet each end has read

vars == <<ses, cli, svr, net, pc, agreed, spent, got>>

Running(e) == ses[e].exited = "no"
At(e, step) == Running(e) /\ pc[e] = step

---------------------------------------------------------------------------
(* checktimeouts() *)

\* Rekeying after KEX_REKEY_TIMEOUT or KEX_REKEY_DATA.  Both are far beyond
\* AUTH_TIMEOUT, so it does not happen before authentication.
MayRekey(e) ==
    /\ ses[e].authdone /\ ~ses[e].sentkexinit
    /\ spent[e].rekeys < MaxRekey[e]
MayRequest(e) == ses[e].authdone /\ spent[e].requests < MaxRequests[e]

\* send_msg_keepalive(): a channel request if there is a channel.
KeepaliveType(s) ==
    IF s.chancount > 0 THEN "CHANNEL_REQUEST" ELSE "GLOBAL_REQUEST"

CheckTimeouts(e) ==
    \E rekey, keepalive \in BOOLEAN :
        /\ At(e, "timeouts")
        /\ rekey => MayRekey(e)
        /\ keepalive => MayRequest(e)
        /\ LET s1 == IF rekey THEN SendKexinit(e, ses[e]) ELSE ses[e]
               s2 == IF keepalive
                     THEN EncryptPacket(s1, KeepaliveType(s1), 0) ELSE s1
           IN  ses' = [ses EXCEPT ![e] = s2]
        /\ spent' = [spent EXCEPT
                       ![e].rekeys = @ + (IF rekey THEN 1 ELSE 0),
                       ![e].requests = @ + (IF keepalive THEN 1 ELSE 0)]
        /\ pc' = [pc EXCEPT ![e] = "packet"]
        /\ UNCHANGED <<cli, svr, net, agreed, got>>

---------------------------------------------------------------------------
(* read_packet(), process_packet(), maybe_flush_reply_queue() *)

Arrives(e, t) == At(e, "packet") /\ net[e] # <<>> /\ Head(net[e]).t = t
Body(e) == Head(net[e]).b

\* Whether process_packet() calls the handler for the packet at the head.
Dispatched(e) ==
    LET s == ses[e]  p == Head(net[e])
    IN  /\ Readable(s, p) /\ Inflatable(s, p)
        /\ s.requirenext \in {"none", p.t} /\ ~s.ignorenext
        /\ s.authdone \/ p.t \notin ConnectionType

\* The packet at the head is read; h is the session its handler leaves.
Process(e, h) ==
    LET p == Head(net[e])
    IN  /\ ses' = [ses EXCEPT ![e] =
             MaybeFlushReplyQueue(Read(@, p, ProcessPacket(@, p.t, h)))]
        /\ net' = [net EXCEPT ![e] = Tail(@)]
        /\ got' = [got EXCEPT ![e] = IF p.t \in UpperType THEN p.n ELSE @]
        /\ pc'  = [pc EXCEPT ![e] = "io"]

Incoming(e) == ForHandler(ses[e], Head(net[e]).t)
Others == <<agreed, spent>>

\* select() timed out, was interrupted, or reported something else.
NoPacket(e) ==
    /\ At(e, "packet")
    /\ ses' = [ses EXCEPT ![e] = MaybeFlushReplyQueue(@)]
    /\ pc' = [pc EXCEPT ![e] = "io"]
    /\ UNCHANGED <<cli, svr, net, got, Others>>

\* The peer has exited and all it wrote is read: remoteclosed().
RemoteClosed(e) ==
    /\ At(e, "packet") /\ net[e] = <<>> /\ ~Running(Peer(e))
    /\ ses' = [ses EXCEPT ![e] = Exit(@, "remote closed")]
    /\ UNCHANGED <<cli, svr, net, pc, got, Others>>

Kexinit(e) ==
    /\ Arrives(e, "KEXINIT")
    /\ Process(e, RecvKexinit(e, Incoming(e), Body(e), agreed))
    /\ UNCHANGED <<cli, svr, Others>>

KexdhInit ==
    /\ Arrives("S", "KEXDH_INIT")
    /\ Process("S", RecvKexdhInit(Incoming("S"), Body("S")))
    /\ UNCHANGED <<cli, svr, Others>>

KexdhReply ==
    /\ Arrives("C", "KEXDH_REPLY")
    /\ Process("C", RecvKexdhReply(Incoming("C"), Body("C")))
    /\ UNCHANGED <<cli, svr, Others>>

Newkeys(e) ==
    /\ Arrives(e, "NEWKEYS")
    /\ Process(e, RecvNewkeys(Incoming(e)))
    /\ UNCHANGED <<cli, svr, Others>>

\* recv_msg_service_request() for ssh-userauth, and the client's answer to
\* the answer, which does nothing.
ServiceRequest ==
    /\ Arrives("S", "SERVICE_REQUEST")
    /\ Process("S", EncryptPacket(Incoming("S"), "SERVICE_ACCEPT", 0))
    /\ UNCHANGED <<cli, svr, Others>>

ServiceAccept ==
    /\ Arrives("C", "SERVICE_ACCEPT")
    /\ Process("C", Incoming("C"))
    /\ UNCHANGED <<cli, svr, Others>>

---------------------------------------------------------------------------
(* svr-auth.c *)

\* authclear(): the whole struct is set to zero.
AuthClear(v) == [user |-> "none", failcount |-> 0]

\* checkusername(), as far as it changes the state.
CheckUsername(v, user) ==
    IF v.user = user THEN v ELSE [AuthClear(v) EXCEPT !.user = user]

\* What recv_msg_userauth_request() answers: "failure" is
\* send_msg_userauth_failure(0, 0), "counted" is (0, 1).
\* Mutant: a key that was only asked about authenticates.
OutcomeNoSignature(b) ==
    LET valid == b.user \in ValidUsers
    IN  CASE b.method = "none" -> "failure"
          [] b.method = "password" ->
                IF ~PasswordAuth \/ ~valid \/ ~b.right THEN "counted"
                ELSE "success"
          [] b.method \in {"query", "sign"} ->
                IF ~valid \/ b.key \notin Authorized THEN "failure"
                ELSE "success"
Outcome(b) ==
    LET valid == b.user \in ValidUsers
    IN  CASE b.method = "none" -> "failure"
          [] b.method = "password" ->
                IF ~PasswordAuth \/ ~valid \/ ~b.right THEN "counted"
                ELSE "success"
          [] b.method = "query" ->
                IF ~valid \/ b.key \notin Authorized THEN "failure"
                ELSE "pk_ok"
          [] b.method = "sign" ->
                IF ~valid \/ b.key \notin Authorized THEN "failure"
                ELSE "success"

\* ses.authstate.authtypes, as sent in a failure.
AuthTypes == {"pubkey"} \cup (IF PasswordAuth THEN {"password"} ELSE {})

\* send_msg_userauth_failure(), count being failcount afterwards.
SendFailure(s, count) ==
    LET s1 == EncryptPacket(s, "USERAUTH_FAILURE", AuthTypes)
    IN  IF count >= MAX_AUTH_TRIES THEN Exit(s1, "max auth tries") ELSE s1

\* send_msg_userauth_success(): authdone is set after encrypt_packet().
\* Mutant: authdone is set first, so that the success itself is compressed.
SendSuccessCompressed(s) ==
    EncryptPacket([s EXCEPT !.authdone = TRUE], "USERAUTH_SUCCESS", 0)
SendSuccess(s) ==
    [EncryptPacket(s, "USERAUTH_SUCCESS", 0) EXCEPT !.authdone = TRUE]

UserauthRequest ==
    /\ Arrives("S", "USERAUTH_REQUEST")
    /\ LET s     == Incoming("S")
           b     == Body("S")
           known == CheckUsername(svr, b.user)
           out   == IF s.authdone THEN "ignored" ELSE Outcome(b)
           count == known.failcount + (IF out = "counted" THEN 1 ELSE 0)
           h     == CASE out = "ignored" -> s
                      [] out \in {"failure", "counted"} -> SendFailure(s, count)
                      [] out = "pk_ok" ->
                            EncryptPacket(s, "USERAUTH_PK_OK", b.key)
                      [] out = "success" -> SendSuccess(s)
       IN  /\ Process("S", h)
           /\ svr' = IF Dispatched("S") /\ out # "ignored"
                     THEN [known EXCEPT !.failcount = count] ELSE svr
    /\ UNCHANGED <<cli, Others>>

---------------------------------------------------------------------------
(* cli-auth.c, cli-authpubkey.c *)

Request(user, method, key, right) ==
    [user |-> user, method |-> method, key |-> key, right |-> right]

\* cli_pubkeyfail(): the key that was tried is taken off the list.
PubkeyFail(c) ==
    [c EXCEPT !.privkeys = SelectSeq(@, LAMBDA k : k # c.lastprivkey),
              !.lastprivkey = "none"]

\* recv_msg_userauth_failure()
UserauthFailure ==
    /\ Arrives("C", "USERAUTH_FAILURE")
    /\ LET s == Incoming("C")
           c == IF cli.lastauthtype = "pubkey" THEN PubkeyFail(cli) ELSE cli
           expected == cli.state = "USERAUTH_REQ_SENT"
       IN  /\ Process("C", IF s.authdone \/ expected THEN s
                           ELSE Exit(s, "unexpected userauth failure"))
           /\ cli' = IF Dispatched("C") /\ ~s.authdone /\ expected
                     THEN [c EXCEPT !.state = "USERAUTH_FAIL_RCVD",
                                    !.lastauthtype = "none",
                                    !.authtypes = Body("C")]
                     ELSE cli
    /\ UNCHANGED <<svr, Others>>

\* recv_msg_userauth_success()
UserauthSuccess ==
    /\ Arrives("C", "USERAUTH_SUCCESS")
    /\ Process("C", [Incoming("C") EXCEPT !.authdone = TRUE])
    /\ cli' = IF Dispatched("C")
              THEN [cli EXCEPT !.state = "USERAUTH_SUCCESS_RCVD",
                               !.lastauthtype = "none", !.privkeys = <<>>]
              ELSE cli
    /\ UNCHANGED <<svr, Others>>

\* recv_msg_userauth_specific_60(), recv_msg_userauth_pk_ok()
UserauthPkOk ==
    /\ Arrives("C", "USERAUTH_PK_OK")
    /\ \E user \in Users :
          LET s == Incoming("C")
              k == Body("C")
              mine == \E i \in 1..Len(cli.privkeys) : cli.privkeys[i] = k
              h == CASE cli.lastauthtype = "password" ->
                           Exit(s, "password expired")
                     [] cli.lastauthtype = "none" ->
                           Exit(s, "unexpected userauth packet")
                     [] cli.lastauthtype = "pubkey" /\ mine ->
                           EncryptPacket(s, "USERAUTH_REQUEST",
                                         Request(user, "sign", k, TRUE))
                     [] OTHER -> s
          IN  Process("C", h)
    /\ UNCHANGED <<cli, svr, Others>>

---------------------------------------------------------------------------
(* Requests of the connection layer and their replies *)

\* recv_msg_channel_open() at the server, recv_msg_channel_request(),
\* recv_msg_global_request_remotetcp(): each is answered.
Answer(t) == CASE t = "CHANNEL_OPEN"    -> "CHANNEL_OPEN_CONFIRMATION"
               [] t = "CHANNEL_REQUEST" -> "CHANNEL_SUCCESS"
               [] t = "GLOBAL_REQUEST"  -> "REQUEST_FAILURE"

ConnectionRequest(e) ==
    \E t \in {"CHANNEL_OPEN", "CHANNEL_REQUEST", "GLOBAL_REQUEST"} :
        /\ Arrives(e, t)
        /\ LET s == Incoming(e)
           IN  Process(e, EncryptPacket(
                   [s EXCEPT !.chancount = IF t = "CHANNEL_OPEN" THEN @ + 1
                                           ELSE @], Answer(t), 0))
        /\ UNCHANGED <<cli, svr, Others>>

\* recv_msg_channel_open_confirmation(), ignore_recv_response()
ConnectionReply(e) ==
    \E t \in {"CHANNEL_OPEN_CONFIRMATION", "CHANNEL_SUCCESS",
              "REQUEST_FAILURE"} :
        /\ Arrives(e, t)
        /\ Process(e, Incoming(e))
        /\ UNCHANGED <<cli, svr, Others>>

---------------------------------------------------------------------------
(* channelio(), write_packet() and the loop handlers *)

\* A channel with something to say, then the write queue goes out.
ChannelIO(e) ==
    \E data \in BOOLEAN :
        /\ At(e, "io")
        /\ data => MayRequest(e) /\ ses[e].chancount > 0
        /\ LET s == IF data THEN EncryptPacket(ses[e], "CHANNEL_REQUEST", 0)
                    ELSE ses[e]
           IN  /\ ses' = [ses EXCEPT ![e] = [s EXCEPT !.writequeue = <<>>]]
               /\ net' = [net EXCEPT ![Peer(e)] = @ \o s.writequeue]
        /\ spent' = [spent EXCEPT
                       ![e].requests = @ + (IF data THEN 1 ELSE 0)]
        /\ pc' = [pc EXCEPT ![e] = "handler"]
        /\ UNCHANGED <<cli, svr, agreed, got>>

\* svr_sessionloop(): its timeout is a matter of module Timeouts.
ServerLoop ==
    /\ At("S", "handler")
    /\ pc' = [pc EXCEPT !["S"] = "timeouts"]
    /\ UNCHANGED <<ses, cli, svr, net, got, Others>>

\* cli_sessionloop(), in the order of its tests.
\* Mutant: a guess is trusted without looking at what the peer agreed to.
KexdhOfKexinitTrusting(s) == s
KexdhOfKexinit(s) ==
    IF s.our_first_follows_matches THEN s ELSE SendKexdhInit(s)
StartsKexdh(s) == s.lastpacket = "KEXINIT" /\ s.kex_state = "KEX_NOTHING"
\* Mutant: the state stays when the exchange is over.
KexDoneKeeps(s) == s
KexDone(s) ==
    IF s.sentnewkeys THEN [s EXCEPT !.kex_state = "KEX_NOTHING"] ELSE s

\* cli_auth_try(): a key if one is left, or else a password.
TriesKey(c) == "pubkey" \in c.authtypes /\ c.privkeys # <<>>
TriesPassword(c) == ~TriesKey(c) /\ "password" \in c.authtypes

\* One step of the switch on cli_ses.state; s is the session.
StateMachine(s) ==
    \/ /\ cli.state = "STATE_NOTHING"
       /\ \E user \in Users :
             ses' = [ses EXCEPT !["C"] =
                 EncryptPacket(EncryptPacket(s, "SERVICE_REQUEST", 0),
                               "USERAUTH_REQUEST",
                               Request(user, "none", "none", FALSE))]
       /\ cli' = [cli EXCEPT !.state = "USERAUTH_REQ_SENT"]
    \/ /\ cli.state = "USERAUTH_FAIL_RCVD"
       /\ \E user \in Users, right \in BOOLEAN :
             ses' = [ses EXCEPT !["C"] =
               IF TriesKey(cli)
               THEN EncryptPacket(s, "USERAUTH_REQUEST",
                      Request(user, "query", Head(cli.privkeys), FALSE))
               ELSE IF TriesPassword(cli)
               THEN EncryptPacket(s, "USERAUTH_REQUEST",
                      Request(user, "password", "none", right))
               ELSE Exit(s, "no auth methods")]
       /\ cli' = [cli EXCEPT
                    !.state = "USERAUTH_REQ_SENT",
                    !.lastauthtype = IF TriesPassword(cli) THEN "password"
                                     ELSE IF "pubkey" \in cli.authtypes
                                     THEN "pubkey" ELSE @,
                    !.lastprivkey = IF TriesKey(cli)
                                    THEN Head(cli.privkeys) ELSE @]
    \/ /\ cli.state = "USERAUTH_SUCCESS_RCVD"
       /\ ses' = [ses EXCEPT !["C"] =
             EncryptPacket([s EXCEPT !.chancount = @ + 1], "CHANNEL_OPEN", 0)]
       /\ cli' = [cli EXCEPT !.state = "SESSION_RUNNING"]
    \/ /\ cli.state \in {"USERAUTH_REQ_SENT", "SESSION_RUNNING"}
       /\ ses' = [ses EXCEPT !["C"] = s]
       /\ UNCHANGED cli

ClientLoop ==
    /\ At("C", "handler")
    /\ LET s == KexDone(ses["C"])
       IN  IF ses["C"].lastpacket = "none" THEN UNCHANGED <<ses, cli>>
           ELSE IF StartsKexdh(ses["C"])
           THEN /\ ses' = [ses EXCEPT !["C"] = [KexdhOfKexinit(@) EXCEPT
                                                  !.kex_state = "KEXDH_INIT_SENT"]]
                /\ UNCHANGED cli
           ELSE IF s.kex_state # "KEX_NOTHING" \/ ~s.donefirstkex
           THEN ses' = [ses EXCEPT !["C"] = s] /\ UNCHANGED cli
           ELSE StateMachine(s)
    /\ pc' = [pc EXCEPT !["C"] = "timeouts"]
    /\ UNCHANGED <<svr, net, got, Others>>

---------------------------------------------------------------------------

\* cli_session_init(), svr_authinitialise()
Init ==
    /\ ses = [e \in End |-> SendKexinit(e, InitialSession)]
    /\ cli = [state |-> "STATE_NOTHING", lastauthtype |-> "none",
              privkeys |-> PrivKeys, lastprivkey |-> "none",
              authtypes |-> {}]
    /\ svr = [user |-> "none", failcount |-> 0]
    /\ net = [e \in End |-> <<>>]
    /\ pc = [e \in End |-> "timeouts"]
    /\ agreed \in Agreement
    /\ spent = [e \in End |-> [rekeys |-> 0, requests |-> 0]]
    /\ got = [e \in End |-> 0]

\* process_packet() calls one of these.
RecvPacket(e) ==
    \/ Kexinit(e) \/ Newkeys(e) \/ ConnectionRequest(e) \/ ConnectionReply(e)
    \/ e = "S" /\ KexdhInit
    \/ e = "S" /\ ServiceRequest
    \/ e = "S" /\ UserauthRequest
    \/ e = "C" /\ KexdhReply
    \/ e = "C" /\ ServiceAccept
    \/ e = "C" /\ UserauthFailure
    \/ e = "C" /\ UserauthSuccess
    \/ e = "C" /\ UserauthPkOk

\* A step of the loop that needs nothing from the peer.
LoopStep(e) ==
    \/ CheckTimeouts(e)
    \/ NoPacket(e)
    \/ ChannelIO(e)
    \/ e = "S" /\ ServerLoop
    \/ e = "C" /\ ClientLoop

Next == \E e \in End : RecvPacket(e) \/ LoopStep(e) \/ RemoteClosed(e)

Spec == Init /\ [][Next]_vars

\* The kernel runs both processes, and select() reports a socket with a
\* packet in it, or one the peer has closed, in the end.
Fairness == \A e \in End : /\ WF_vars(LoopStep(e))
                           /\ SF_vars(RecvPacket(e) \/ RemoteClosed(e))
FairSpec == Spec /\ Fairness

=============================================================================
