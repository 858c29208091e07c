------------------------- MODULE SessionInvariants -------------------------
(***************************************************************************)
(* The inductive invariants of the two ends of a session.                  *)
(*                                                                         *)
(* IInv looks at one end at a time: what is on its wire and in its reply   *)
(* queue.  KInv adds what the two ends know of each other.  It is a list   *)
(* of the phases two peers can be in together, each with the very words of *)
(* a key exchange that are still under way in either direction (Talk), and *)
(* the same for authentication (Dialog).  A wire also carries packets of   *)
(* the other layers between those words: Line says how the packets on it   *)
(* are sealed and deflated, and what may not come before what.  VInv says  *)
(* how old the values are that keys were made from.                        *)
(***************************************************************************)
EXTENDS SessionProperties

---------------------------------------------------------------------------
(* A wire: the packets from one end that the other has not read *)

IsSeq(q) == \E S : q \in Seq(S)

\* The methods the server knows are all the client sends.
Sane(p) ==
    p.t = "USERAUTH_REQUEST" =>
      p.b.method \in {"none", "password", "query", "sign"}

\* The packets of the upper layers are those numbered lo + 1 to hi.
Numbered(w, lo, hi) ==
    /\ \A i \in 1..Len(w) : IsUpper(w[i]) => w[i].n \in lo + 1..hi
    /\ \A i, j \in 1..Len(w) :
         i < j /\ IsUpper(w[i]) /\ IsUpper(w[j]) => w[i].n < w[j].n
    /\ \A n \in lo + 1..hi :
         \E i \in 1..Len(w) : IsUpper(w[i]) /\ w[i].n = n

Quiet(w) ==
    \A i, j \in 1..Len(w) :
      i < j /\ w[i].t = "KEXINIT" /\ IsUpper(w[j])
      => \E k \in i..j : w[k].t = "NEWKEYS"

\* Every exchange that was begun on it has had its NEWKEYS.
Settled(w) ==
    \A i \in 1..Len(w) :
      w[i].t = "KEXINIT" => \E k \in i..Len(w) : w[k].t = "NEWKEYS"

Good(w, lo, hi) ==
    /\ IsSeq(w) /\ lo \in Nat /\ hi \in Nat /\ lo <= hi
    /\ Numbered(w, lo, hi) /\ Quiet(w)
    /\ \A i \in 1..Len(w) : Sane(w[i])

---------------------------------------------------------------------------
(* One end, whose packets under way are N, the last one read being lo *)

Control == {"exited", "dataallowed", "sentkexinit", "sentnewkeys", "authdone"}
Queues  == {"handed", "replyq", "writequeue"}
Fields  == Control \cup Queues

\* Session x is s but for other fields.
Same(s, x, fields) == Fields \subseteq DOMAIN x /\ \A g \in fields : x[g] = s[g]

\* Packet i of the reply queue is the last but that many handed over.
Held(s) ==
    \A i \in 1..Len(s.replyq) :
       /\ IsUpper(s.replyq[i]) /\ Sane(s.replyq[i])
       /\ s.replyq[i].n = s.handed - Len(s.replyq) + i

Sender(s, N, lo) ==
    /\ Fields \subseteq DOMAIN s /\ s.dataallowed \in BOOLEAN
    /\ s.handed \in Nat /\ Len(s.replyq) <= s.handed
    /\ IsSeq(s.writequeue) /\ IsSeq(s.replyq) /\ IsSeq(N)
    /\ Good(N \o s.writequeue, lo, s.handed - Len(s.replyq))
    /\ s.dataallowed => Settled(N \o s.writequeue)
    /\ Held(s)

Flushed(s) == s.dataallowed => s.replyq = <<>>

\* dataallowed and the state of the exchange.
Exchanging(s) ==
    /\ s.sentkexinit \in BOOLEAN /\ s.sentnewkeys \in BOOLEAN
    /\ s.exited = "no" =>
         /\ s.sentnewkeys => s.dataallowed
         /\ ~s.sentkexinit => s.dataallowed /\ ~s.sentnewkeys

Steady(s, N, lo) == Sender(s, N, lo) /\ Flushed(s) /\ Exchanging(s)

\* Both ends, each by itself.
IInv ==
    /\ DOMAIN ses = End /\ DOMAIN net = End /\ DOMAIN got = End
    /\ \A e \in End : Steady(ses[e], net[Peer(e)], got[Peer(e)])

---------------------------------------------------------------------------
(* The two ends together: the words of a key exchange, and of               *)
(* authentication, that are under way between them                          *)

\* What a packet says.
Plain(p) == [t |-> p.t, b |-> p.b]

\* The packets on w of types T say, in this order, what ks says.
Word(T, w, ks) ==
    \E f \in [1..Len(ks) -> 1..Len(w)] :
      /\ \A i, j \in 1..Len(ks) : i < j => f[i] < f[j]
      /\ \A i \in 1..Len(ks) : ks[i] = Plain(w[f[i]])
      /\ \A n \in 1..Len(w) : w[n].t \in T <=> \E i \in 1..Len(ks) : f[i] = n

Dialogue == ServiceType \cup AuthType
Has(w, t) == \E i \in 1..Len(w) : w[i].t = t
Before(w, t, i) == \E j \in 1..i - 1 : w[j].t = t
SUCCESS == "USERAUTH_SUCCESS"

\* A wire from an end with session s to one with session r: how its packets
\* are sealed, and in which order they come.
Line(w, ks, us, s, r) ==
    /\ Word(KexType, w, ks) /\ Word(Dialogue, w, us)
    /\ \A i \in 1..Len(w) : w[i].t \in KexType \cup UpperType
    /\ \A i \in 1..Len(w) :
         w[i].key = IF Before(w, "NEWKEYS", i) THEN s.keys.trans ELSE r.keys.recv
    /\ ~Has(w, "NEWKEYS") => s.keys.trans = r.keys.recv
    /\ r.requirenext # "none" =>
         \A i \in 1..Len(w) : w[i].t \in UpperType => Before(w, "NEWKEYS", i)
    /\ \A i \in 1..Len(w) : w[i].z \in BOOLEAN
    /\ \A i \in 1..Len(w) :
         w[i].z <=> /\ Compress /\ s.authdone
                    /\ r.authdone \/ Before(w, SUCCESS, i)
    /\ s.authdone => r.authdone \/ Has(w, SUCCESS)
    /\ ~s.authdone =>
         \A i \in 1..Len(w) : w[i].t \notin ConnectionType \cup {SUCCESS}
    /\ ~r.authdone =>
         \A i \in 1..Len(w) : w[i].t \in ConnectionType => Before(w, SUCCESS, i)
    /\ ~r.authdone /\ r.donefirstkex =>
         \A i \in 1..Len(w) : w[i].t = "KEXINIT" => Before(w, SUCCESS, i)

---------------------------------------------------------------------------
(* Where an end is in a key exchange *)

Names == {"sentkexinit", "recvkexinit", "sentnewkeys", "recvnewkeys",
          "donefirstkex", "our_first_follows_matches", "dataallowed",
          "ignorenext", "requirenext", "lastpacket", "transkexinit", "kexhash",
          "newkeys", "keys", "writequeue", "replyq", "authdone", "kex_state",
          "param", "chancount", "drawn", "handed", "exited"}
Secrets == [c : Nat, s : Nat, x : Nat, y : Nat]
Params  == [algo : {"first", "other"}, x : Nat]
Keyed(s) == s.keys.trans # NoKeys /\ s.keys.recv # NoKeys

Formed(s) ==
    /\ DOMAIN s = Names
    /\ s.keys = [trans |-> s.keys.trans, recv |-> s.keys.recv]
    /\ s.drawn \in Nat /\ s.authdone \in BOOLEAN /\ s.donefirstkex \in BOOLEAN
    /\ s.kex_state \in {"KEX_NOTHING", "KEXDH_INIT_SENT"}
    /\ s.recvnewkeys = FALSE

\* No exchange is going on.
Idle(e, s) ==
    /\ Formed(s) /\ Keyed(s)
    /\ s.sentkexinit = FALSE /\ s.recvkexinit = FALSE /\ s.sentnewkeys = FALSE
    /\ s.dataallowed = TRUE /\ s.donefirstkex = TRUE /\ s.requirenext = "none"
    /\ s.newkeys = NoContext /\ s.ignorenext = FALSE
    /\ s.our_first_follows_matches = FALSE
    /\ e = "C" => s.param = NoParam /\ s.kex_state = "KEX_NOTHING"
\* It has sent its KEXINIT, the client its guess behind it.
Begun(e, s) ==
    /\ Formed(s) /\ s.donefirstkex = s.authdone /\ (s.authdone => Keyed(s))
    /\ s.sentkexinit = TRUE /\ s.recvkexinit = FALSE /\ s.sentnewkeys = FALSE
    /\ s.dataallowed = FALSE
    /\ s.requirenext = IF s.donefirstkex THEN "none" ELSE "KEXINIT"
    /\ s.newkeys = NewContext("first") /\ s.ignorenext = FALSE
    /\ s.our_first_follows_matches = FALSE /\ s.transkexinit \in Nat
    /\ e = "C" => /\ s.param \in Params /\ s.param.algo = "first"
                  /\ s.kex_state = "KEX_NOTHING"
\* It has read the peer's KEXINIT too.
Wrong(g) == g # "guessed"
Met(g, e, s) ==
    /\ Formed(s) /\ s.donefirstkex = s.authdone /\ (s.authdone => Keyed(s))
    /\ s.sentkexinit = TRUE /\ s.recvkexinit = TRUE /\ s.sentnewkeys = FALSE
    /\ s.dataallowed = FALSE
    /\ s.requirenext = IF e = "C" THEN "KEXDH_REPLY" ELSE "KEXDH_INIT"
    /\ s.newkeys = NewContext(AgreedAlgo(g))
    /\ s.kexhash \in [c : Nat, s : Nat]
    /\ s.ignorenext \in BOOLEAN /\ (s.ignorenext => e = "S" /\ Wrong(g))
    /\ s.our_first_follows_matches = (e = "C" /\ ~Wrong(g))
    /\ e = "C" => /\ s.param \in Params
                  /\ s.param.algo = IF s.kex_state = "KEX_NOTHING" THEN "first"
                                    ELSE AgreedAlgo(g)
\* It has sent its NEWKEYS.
Switched(e, s) ==
    /\ Formed(s) /\ s.donefirstkex = TRUE /\ (s.authdone => Keyed(s))
    /\ s.sentkexinit = TRUE /\ s.recvkexinit = TRUE /\ s.sentnewkeys = TRUE
    /\ s.dataallowed = TRUE /\ s.requirenext = "NEWKEYS"
    /\ s.keys.trans \in Secrets /\ s.ignorenext = FALSE
    /\ s.newkeys = [algo |-> s.newkeys.algo, trans |-> NoKeys,
                    recv |-> s.keys.trans]
    /\ s.our_first_follows_matches \in BOOLEAN
    /\ e = "C" => s.param = NoParam

KI(e, cookie) ==
    [t |-> "KEXINIT", b |-> [cookie |-> cookie, first_follows |-> e = "C"]]
KD(algo, x) == [t |-> "KEXDH_INIT", b |-> [algo |-> algo, x |-> x]]
KR(k) == [t |-> "KEXDH_REPLY", b |-> [y |-> k.y, signed |-> k]]
KN == [t |-> "NEWKEYS", b |-> 0]

\* Of the client's values the first is unread while it may be a guess the
\* server has to ignore, or the one it waits for; there is a second one when
\* the guess was wrong and the client has seen it.
Unread(g, s) == s.ignorenext \/ ~Wrong(g)
Again(g, c) == Wrong(g) /\ c.kex_state # "KEX_NOTHING"
First(c) == KD("first", c.param.x)
Second(g, c) == KD(AgreedAlgo(g), c.param.x)

\* The phases of an exchange between the client with session c and the server
\* with session s, what they have sent of it and the other has not read being
\* ka and kb.
Resting(c, s, ka, kb) == Idle("C", c) /\ Idle("S", s) /\ ka = <<>> /\ kb = <<>>
ClientOpens(c, s, ka, kb) ==
    /\ Begun("C", c) /\ c.donefirstkex /\ Idle("S", s)
    /\ ka = <<KI("C", c.transkexinit), First(c)>> /\ kb = <<>>
ServerOpens(c, s, ka, kb) ==
    /\ Idle("C", c) /\ Begun("S", s) /\ s.donefirstkex
    /\ ka = <<>> /\ kb = <<KI("S", s.transkexinit)>>
BothOpen(c, s, ka, kb) ==
    /\ Begun("C", c) /\ Begun("S", s)
    /\ ka = <<KI("C", c.transkexinit), First(c)>>
    /\ kb = <<KI("S", s.transkexinit)>>
ServerMet(g, c, s, ka, kb) ==
    /\ Begun("C", c) /\ Met(g, "S", s) /\ s.kexhash.c = c.transkexinit
    /\ ka = (IF Unread(g, s) THEN <<First(c)>> ELSE <<>>)
    /\ kb = <<KI("S", s.kexhash.s)>>
ClientMet(g, c, s, ka, kb) ==
    /\ Met(g, "C", c) /\ Begun("S", s) /\ c.kexhash.s = s.transkexinit
    /\ \E x \in Nat :
         /\ ~Wrong(g) => x = c.param.x
         /\ ka = IF Again(g, c)
                 THEN <<KI("C", c.kexhash.c), KD("first", x), Second(g, c)>>
                 ELSE <<KI("C", c.kexhash.c), KD("first", x)>>
    /\ kb = <<>>
BothMet(g, c, s, ka, kb) ==
    /\ Met(g, "C", c) /\ Met(g, "S", s) /\ c.kexhash = s.kexhash
    /\ \E x \in Nat :
         /\ ~Wrong(g) => x = c.param.x
         /\ ka = IF Unread(g, s)
                 THEN IF Again(g, c) THEN <<KD("first", x), Second(g, c)>>
                      ELSE <<KD("first", x)>>
                 ELSE IF Again(g, c) THEN <<Second(g, c)>> ELSE <<>>
    /\ kb = <<>>
ServerAhead(g, c, s, ka, kb) ==
    /\ Begun("C", c) /\ Switched("S", s) /\ ~Wrong(g)
    /\ s.keys.trans.c = c.transkexinit /\ s.keys.trans.x = c.param.x
    /\ ka = <<>>
    /\ kb = <<KI("S", s.keys.trans.s), KR(s.keys.trans), KN>>
Replied(g, c, s, ka, kb) ==
    /\ Met(g, "C", c) /\ Switched("S", s)
    /\ Wrong(g) => c.kex_state # "KEX_NOTHING"
    /\ s.keys.trans.c = c.kexhash.c /\ s.keys.trans.s = c.kexhash.s
    /\ s.keys.trans.x = c.param.x
    /\ ka = <<>> /\ kb = <<KR(s.keys.trans), KN>>
Paired(c, s) == c.keys.trans = s.keys.trans
BothSwitched(c, s, ka, kb) ==
    /\ Switched("C", c) /\ Switched("S", s) /\ Paired(c, s)
    /\ ka = <<KN>> /\ kb = <<KN>>
ClientDone(c, s, ka, kb) ==
    /\ Idle("C", c) /\ Switched("S", s) /\ Paired(c, s)
    /\ ka = <<KN>> /\ kb = <<>>
ServerDone(c, s, ka, kb) ==
    /\ Switched("C", c) /\ Idle("S", s) /\ Paired(c, s)
    /\ ka = <<>> /\ kb = <<KN>>
ClientReopens(c, s, ka, kb) ==
    /\ Begun("C", c) /\ c.donefirstkex /\ Switched("S", s) /\ Paired(c, s)
    /\ ka = <<KN, KI("C", c.transkexinit), First(c)>> /\ kb = <<>>
ServerReopens(c, s, ka, kb) ==
    /\ Switched("C", c) /\ Begun("S", s) /\ s.donefirstkex /\ Paired(c, s)
    /\ ka = <<>> /\ kb = <<KN, KI("S", s.transkexinit)>>

Talk(g, c, s, ka, kb) ==
    \/ Resting(c, s, ka, kb)
    \/ ClientOpens(c, s, ka, kb) \/ ServerOpens(c, s, ka, kb)
    \/ BothOpen(c, s, ka, kb)
    \/ ServerMet(g, c, s, ka, kb) \/ ClientMet(g, c, s, ka, kb)
    \/ BothMet(g, c, s, ka, kb)
    \/ ServerAhead(g, c, s, ka, kb) \/ Replied(g, c, s, ka, kb)
    \/ BothSwitched(c, s, ka, kb)
    \/ ClientDone(c, s, ka, kb) \/ ServerDone(c, s, ka, kb)
    \/ ClientReopens(c, s, ka, kb) \/ ServerReopens(c, s, ka, kb)

\* How far the client's loop is with the exchange.
Turn(g, c, step) ==
    /\ Met(g, "C", c) /\ c.kex_state = "KEX_NOTHING" =>
         c.lastpacket = "KEXINIT" /\ step \in {"io", "handler"}
    /\ Switched("C", c) /\ c.kex_state # "KEX_NOTHING" =>
         step \in {"io", "handler"}
    /\ c.lastpacket = "KEXINIT" => Met(g, "C", c)
    /\ Switched("C", c) => c.lastpacket # "none"

---------------------------------------------------------------------------
(* Authentication *)

SR == [t |-> "SERVICE_REQUEST", b |-> 0]
SA == [t |-> "SERVICE_ACCEPT", b |-> 0]
RQ(b) == [t |-> "USERAUTH_REQUEST", b |-> b]
Methods == {"none", "password", "query", "sign"}
AnswerType == {"USERAUTH_FAILURE", SUCCESS, "USERAUTH_PK_OK"}

\* The client's state machine, whether the server has accepted, and what the
\* other has not read.
Dialog(m, accepted, ua, ub) ==
    \/ m.state = "STATE_NOTHING" /\ ~accepted /\ ua = <<>> /\ ub = <<>>
    \/ /\ m.state = "USERAUTH_REQ_SENT" /\ ~accepted
       /\ \E b : /\ b.method \in Methods
                 /\ b.method = "query" => m.lastauthtype = "pubkey"
                 /\ \/ ua = <<SR, RQ(b)>> /\ ub = <<>>
                    \/ ua = <<RQ(b)>> /\ ub \in {<<>>, <<SA>>}
    \/ /\ m.state = "USERAUTH_REQ_SENT" /\ ua = <<>>
       /\ \E a : /\ a.t \in AnswerType /\ (accepted <=> a.t = SUCCESS)
                 /\ a.t = "USERAUTH_PK_OK" => m.lastauthtype = "pubkey"
                 /\ ub \in {<<a>>, <<SA, a>>}
    \/ m.state = "USERAUTH_REQ_SENT" /\ ~accepted /\ ua = <<>> /\ ub = <<>>
    \/ m.state = "USERAUTH_FAIL_RCVD" /\ ~accepted /\ ua = <<>> /\ ub = <<>>
    \/ /\ m.state \in {"USERAUTH_SUCCESS_RCVD", "SESSION_RUNNING"}
       /\ accepted /\ ua = <<>> /\ ub = <<>>

Fine == {"no", "max auth tries", "no auth methods", "remote closed"}

\* Replies wait only after authentication.
Waiting(s) ==
    /\ s.replyq # <<>> => s.authdone
    /\ \A i \in 1..Len(s.replyq) : s.replyq[i].t \in ConnectionType
    /\ s.exited \in Fine

Both(c, s, m, a) ==
    /\ c.authdone <=> m.state \in {"USERAUTH_SUCCESS_RCVD", "SESSION_RUNNING"}
    /\ c.authdone => s.authdone
    /\ m.state # "STATE_NOTHING" => c.donefirstkex
    /\ s.authdone /\ ~c.authdone => a = <<>>
    /\ Waiting(c) /\ Waiting(s)

---------------------------------------------------------------------------
(* All of it *)

Queued(s) == IsSeq(s.writequeue) /\ IsSeq(s.replyq)

\* What the queues of the two ends and the wires between them, a from the
\* client and b from the server, hold: the words ka and kb of an exchange,
\* ua and ub of authentication.
Joined(g, c, s, a, b, m, ka, kb, ua, ub) ==
    /\ Queued(c) /\ Queued(s) /\ IsSeq(a) /\ IsSeq(b) /\ Both(c, s, m, a)
    /\ Talk(g, c, s, ka, kb) /\ Dialog(m, s.authdone, ua, ub)
    /\ Line(a, ka, ua, c, s) /\ Line(b, kb, ub, s, c)
Linked(g, c, s, a, b, m) ==
    \E ka, kb, ua, ub : Joined(g, c, s, a, b, m, ka, kb, ua, ub)

\* What has left the write queues is na and nb.
Together(g, c, s, na, nb, m) ==
    /\ IsSeq(na) /\ IsSeq(nb)
    /\ Linked(g, c, s, na \o c.writequeue, nb \o s.writequeue, m)

CliNames == {"state", "lastauthtype", "privkeys", "lastprivkey", "authtypes"}

\* The client's loop has come to step.
Coupling(g, c, s, na, nb, m, step) ==
    /\ Together(g, c, s, na, nb, m) /\ Turn(g, c, step) /\ DOMAIN m = CliNames

Coupled ==
    /\ DOMAIN pc = End
    /\ Coupling(agreed, ses["C"], ses["S"], net["S"], net["C"], cli, pc["C"])

KInv == IInv /\ Coupled

---------------------------------------------------------------------------
(* How old the values are that keys are made from *)

\* The keys k were made from values drawn so far.
Known(k, c, s) ==
    k = NoKeys \/ /\ k \in Secrets
                  /\ k.c <= c.drawn /\ k.x <= c.drawn
                  /\ k.s <= s.drawn /\ k.y <= s.drawn

\* An exchange in which the end has not switched to its new keys; the cookie
\* it has sent in it.
Engaged(s) == s.sentkexinit /\ ~s.sentnewkeys
ClientCookie(c) == IF c.recvkexinit THEN c.kexhash.c ELSE c.transkexinit
ServerCookie(s) == IF s.recvkexinit THEN s.kexhash.s ELSE s.transkexinit

\* The keys k were made before the client, or the server, drew its values.
BehindClient(k, c) == k = NoKeys \/ (k.c < ClientCookie(c) /\ k.x < c.param.x)
BehindServer(k, s) == k = NoKeys \/ k.s < ServerCookie(s)

Values(c, s) ==
    /\ \A k \in {c.keys.trans, c.keys.recv, s.keys.trans, s.keys.recv} :
         Known(k, c, s)
    /\ Engaged(c) =>
         /\ ClientCookie(c) \in Nat /\ ClientCookie(c) <= c.drawn
         /\ c.param.x \in Nat /\ c.param.x <= c.drawn
         /\ \A k \in {c.keys.trans, c.keys.recv, s.keys.recv} : BehindClient(k, c)
         /\ ~s.sentnewkeys => BehindClient(s.keys.trans, c)
    /\ Engaged(s) =>
         /\ ServerCookie(s) \in Nat /\ ServerCookie(s) <= s.drawn
         /\ \A k \in {s.keys.trans, s.keys.recv, c.keys.recv} : BehindServer(k, s)
         /\ ~c.sentnewkeys => BehindServer(c.keys.trans, s)
    /\ c.sentnewkeys => Fresher(c.keys.trans, c.keys.recv)
    /\ s.sentnewkeys => Fresher(s.keys.trans, s.keys.recv)
    /\ s.sentnewkeys /\ ~Paired(c, s) =>
         Fresher(s.keys.trans, c.keys.trans) /\ Fresher(s.keys.trans, c.keys.recv)

VInv == Values(ses["C"], ses["S"])

=============================================================================
