----------------------------- MODULE KeysProofs -----------------------------
(***************************************************************************)
(* The two ends of a session always agree on keys and compression, find    *)
(* nothing wrong with what the other sends, and renew all values in every  *)
(* exchange: for any number of keys, users, exchanges and requests.        *)
(*                                                                         *)
(* A step is one of four things to the two ends together: the reader takes *)
(* a word off the head of a wire and the two are in the next phase; an end *)
(* puts a word behind a wire; the same for a packet of another layer,      *)
(* which is in no word; or a word is ignored as a wrong guess.  What that  *)
(* does to words and lines, and what each operator of Transport leaves in  *)
(* the fields of a session, is the end of SessionProofs.  Here the first   *)
(* part shows what the operators do to the phases, the second goes through *)
(* the actions, and the third is about the values keys are made from.      *)
(***************************************************************************)
EXTENDS SessionProofs

---------------------------------------------------------------------------
(* What the phases of an exchange have in common *)

LEMMA SameSeq ==
    ASSUME NEW q, NEW r, NEW n, IsSeq(q), IsSeq(r), Len(q) = n, Len(r) = n,
           \A i \in 1..n : q[i] = r[i]
    PROVE  q = r
<1>. PICK S : q \in Seq(S)
  BY DEF IsSeq
<1>. PICK T : r \in Seq(T)
  BY DEF IsSeq
<1>1. q \in Seq(S \cup T) /\ r \in Seq(S \cup T)
  BY SeqMonotonic
<1>. QED  BY <1>1, SeqEqual

LEMMA Upto ==
    /\ 1..0 = {} /\ 1 \in 1..1 /\ 1 \in 1..2 /\ 2 \in 1..2
    /\ \A i \in 1..1 : i = 1
    /\ \A i \in 1..2 : i = 1 \/ i = 2
    /\ \A i \in 1..3 : i = 1 \/ i = 2 \/ i = 3
OBVIOUS

LEMMA AppendTo ==
    ASSUME NEW q, NEW p, NEW n \in Nat, IsSeq(q), Len(q) = n
    PROVE  /\ IsSeq(Append(q, p)) /\ Len(Append(q, p)) = n + 1
           /\ \A i \in 1..n : Append(q, p)[i] = q[i]
           /\ Append(q, p)[n + 1] = p
BY AppendOne

LEMMA AppendSecond ==
    ASSUME NEW q, NEW p, IsSeq(q), Len(q) = 1
    PROVE  /\ IsSeq(Append(q, p)) /\ Len(Append(q, p)) = 2
           /\ Append(q, p)[1] = q[1] /\ Append(q, p)[2] = p
<1>1. PICK w : w = Append(q, p)
  OBVIOUS
<1>2. IsSeq(w) /\ Len(w) = Len(q) + 1
  BY <1>1, AppendOne
<1>3. w[1] = q[1]
  BY ONLY <1>1, AppendOne, IsSeq(q), Len(q) = 1
<1>4. w[2] = p
  <2>1. PICK m : m = Len(q) + 1
    OBVIOUS
  <2>2. w[m] = p
    BY ONLY <1>1, <2>1, AppendOne, IsSeq(q)
  <2>3. m = 2
    BY <2>1
  <2>. QED  BY ONLY <2>2, <2>3
<1>5. Len(w) = 2
  BY <1>2
<1>. QED  BY ONLY <1>1, <1>2, <1>3, <1>4, <1>5

LEMMA Tuple1 ==
    ASSUME NEW a
    PROVE  /\ IsSeq(<<a>>) /\ Len(<<a>>) = 1 /\ <<a>>[1] = a /\ <<a>> # <<>>
           /\ Head(<<a>>) = a /\ Tail(<<a>>) = <<>> /\ Append(<<>>, a) = <<a>>
<1>1. <<a>> \in Seq({a}) /\ Len(<<a>>) = 1 /\ <<a>>[1] = a /\ <<a>> # <<>>
  OBVIOUS
<1>2. IsSeq(<<a>>)
  BY <1>1 DEF IsSeq
<1>. DEFINE w == <<a>>
<1>3. IsSeq(w) /\ Len(w) = 1 /\ w # <<>> /\ w[1] = a
  BY <1>1, <1>2
<1>. HIDE DEF w
<1>4. Head(w) = a /\ IsSeq(Tail(w)) /\ Len(Tail(w)) = 0
  BY <1>3, Rest
<1>5. Tail(w) = <<>>
  BY <1>4, Nonempty
<1>6. Append(<<>>, a) = w
  <2>1. /\ IsSeq(Append(<<>>, a)) /\ Len(Append(<<>>, a)) = 1
        /\ Append(<<>>, a)[1] = a
    <3>. PICK n : n = 0
      OBVIOUS
    <3>1. n \in Nat /\ n + 1 = 1
      OBVIOUS
    <3>0. IsSeq(<<>>) /\ Len(<<>>) = n
      BY Empty
    <3>2. /\ IsSeq(Append(<<>>, a)) /\ Len(Append(<<>>, a)) = n + 1
          /\ Append(<<>>, a)[n + 1] = a
      BY <3>0, <3>1, AppendTo
    <3>. QED  BY <3>1, <3>2
  <2>. QED  BY <2>1, <1>3, SameSeq, Upto
<1>. QED  BY <1>1, <1>3, <1>4, <1>5, <1>6 DEF w

LEMMA Tuple2 ==
    ASSUME NEW a, NEW b
    PROVE  /\ IsSeq(<<a, b>>) /\ Len(<<a, b>>) = 2
           /\ <<a, b>>[1] = a /\ <<a, b>>[2] = b /\ <<a, b>> # <<>>
           /\ Head(<<a, b>>) = a /\ Tail(<<a, b>>) = <<b>>
           /\ Append(<<a>>, b) = <<a, b>>
<1>. DEFINE w == <<a, b>>
            u == <<a>>
            v == <<b>>
<1>1. /\ w \in Seq({a, b}) /\ Len(w) = 2
      /\ w[1] = a /\ w[2] = b /\ w # <<>>
  OBVIOUS
<1>2. /\ IsSeq(u) /\ Len(u) = 1 /\ u[1] = a
      /\ IsSeq(v) /\ Len(v) = 1 /\ v[1] = b
  BY Tuple1
<1>. HIDE DEF w, u, v
<1>3. IsSeq(w)
  BY <1>1 DEF IsSeq
<1>4. Append(u, b) = w
  <2>1. /\ IsSeq(Append(u, b)) /\ Len(Append(u, b)) = 2
        /\ Append(u, b)[1] = a /\ Append(u, b)[2] = b
    BY ONLY <1>2, AppendSecond
  <2>2. \A i \in 1..2 : Append(u, b)[i] = w[i]
    BY <2>1, <1>1, Upto
  <2>. QED  BY <2>1, <2>2, <1>1, <1>3, SameSeq
<1>5. Head(w) = a /\ Tail(w) = v
  <2>1. /\ IsSeq(Tail(w)) /\ Len(Tail(w)) = 1 /\ Head(w) = a
        /\ Tail(w)[1] = b
    BY <1>1, <1>3, Rest, Upto
  <2>2. \A i \in 1..1 : Tail(w)[i] = v[i]
    BY <2>1, <1>2, Upto
  <2>. QED  BY <2>1, <2>2, <1>2, SameSeq
<1>. QED  BY <1>1, <1>3, <1>4, <1>5 DEF w, u, v

LEMMA Third == \A a, b, c : Append(<<a, b>>, c) = <<a, b, c>>
<1>. SUFFICES ASSUME NEW a, NEW b, NEW c
              PROVE  Append(<<a, b>>, c) = <<a, b, c>>
  OBVIOUS
<1>. DEFINE w == <<a, b, c>>
            u == <<a, b>>
<1>1. /\ w \in Seq({a, b, c}) /\ Len(w) = 3
      /\ w[1] = a /\ w[2] = b /\ w[3] = c
  OBVIOUS
<1>2. IsSeq(u) /\ Len(u) = 2 /\ u[1] = a /\ u[2] = b
  BY Tuple2
<1>. HIDE DEF w, u
<1>3. IsSeq(w)
  BY <1>1 DEF IsSeq
<1>4. Append(u, c) = w
  <2>1. /\ IsSeq(Append(u, c)) /\ Len(Append(u, c)) = 3
        /\ Append(u, c)[1] = a /\ Append(u, c)[2] = b /\ Append(u, c)[3] = c
    <3>. PICK n : n = 2
      OBVIOUS
    <3>1. n \in Nat /\ n + 1 = 3
      OBVIOUS
    <3>0. IsSeq(u) /\ Len(u) = n
      BY <1>2
    <3>2. /\ IsSeq(Append(u, c)) /\ Len(Append(u, c)) = n + 1
          /\ \A i \in 1..n : Append(u, c)[i] = u[i]
          /\ Append(u, c)[n + 1] = c
      BY <3>0, <3>1, AppendTo
    <3>. QED  BY <3>1, <3>2, <1>2, Upto
  <2>2. \A i \in 1..3 : Append(u, c)[i] = w[i]
    BY <2>1, <1>1, Upto
  <2>. QED  BY <2>1, <2>2, <1>1, <1>3, SameSeq
<1>. QED  BY <1>4 DEF w, u

LEMMA Tuple3 ==
    ASSUME NEW a, NEW b, NEW c
    PROVE  /\ IsSeq(<<a, b, c>>) /\ Len(<<a, b, c>>) = 3 /\ <<a, b, c>> # <<>>
           /\ <<a, b, c>>[1] = a /\ <<a, b, c>>[2] = b /\ <<a, b, c>>[3] = c
           /\ Head(<<a, b, c>>) = a /\ Tail(<<a, b, c>>) = <<b, c>>
<1>. DEFINE w == <<a, b, c>>
            v == <<b, c>>
<1>1. /\ w \in Seq({a, b, c}) /\ Len(w) = 3 /\ w # <<>>
      /\ w[1] = a /\ w[2] = b /\ w[3] = c
  OBVIOUS
<1>2. IsSeq(v) /\ Len(v) = 2 /\ v[1] = b /\ v[2] = c
  BY Tuple2
<1>. HIDE DEF w, v
<1>3. IsSeq(w)
  BY <1>1 DEF IsSeq
<1>5. Head(w) = a /\ Tail(w) = v
  <2>1. /\ IsSeq(Tail(w)) /\ Len(Tail(w)) = 2 /\ Head(w) = a
        /\ Tail(w)[1] = b /\ Tail(w)[2] = c
    BY <1>1, <1>3, Rest, Upto
  <2>2. \A i \in 1..2 : Tail(w)[i] = v[i]
    BY <2>1, <1>2, Upto
  <2>. QED  BY <2>1, <2>2, <1>2, SameSeq
<1>. QED  BY <1>1, <1>3, <1>5 DEF w, v

\* The fields that do not matter for where an end is in an exchange.
Loose == {"writequeue", "replyq", "handed", "chancount", "lastpacket", "exited"}
Alike(s, x) == But(s, x, Loose)

LEMMA AlikeFields ==
    ASSUME NEW s, NEW x, Alike(s, x)
    PROVE  /\ DOMAIN x = Names
           /\ x.sentkexinit = s.sentkexinit /\ x.recvkexinit = s.recvkexinit
           /\ x.sentnewkeys = s.sentnewkeys /\ x.recvnewkeys = s.recvnewkeys
           /\ x.donefirstkex = s.donefirstkex
           /\ x.our_first_follows_matches = s.our_first_follows_matches
           /\ x.dataallowed = s.dataallowed /\ x.ignorenext = s.ignorenext
           /\ x.requirenext = s.requirenext /\ x.transkexinit = s.transkexinit
           /\ x.kexhash = s.kexhash /\ x.newkeys = s.newkeys
           /\ x.keys = s.keys /\ x.authdone = s.authdone
           /\ x.kex_state = s.kex_state /\ x.param = s.param
           /\ x.drawn = s.drawn
BY DEF Alike, But, Names, Loose

LEMMA PhaseSame ==
    ASSUME NEW g, NEW e, NEW s, NEW x, Alike(s, x)
    PROVE  /\ Idle(e, s) => Idle(e, x)
           /\ Begun(e, s) => Begun(e, x)
           /\ Met(g, e, s) => Met(g, e, x)
           /\ Switched(e, s) => Switched(e, x)
<1>1. Formed(s) => Formed(x)
  BY AlikeFields DEF Formed
<1>2. Keyed(s) => Keyed(x)
  BY AlikeFields DEF Keyed
<1>3. Idle(e, s) => Idle(e, x)
  BY <1>1, <1>2, AlikeFields DEF Idle
<1>4. Begun(e, s) => Begun(e, x)
  BY <1>1, <1>2, AlikeFields DEF Begun
<1>5. Met(g, e, s) => Met(g, e, x)
  BY <1>1, <1>2, AlikeFields DEF Met
<1>6. Switched(e, s) => Switched(e, x)
  BY <1>1, <1>2, AlikeFields DEF Switched
<1>. QED  BY <1>3, <1>4, <1>5, <1>6

LEMMA TalkSame ==
    ASSUME NEW g, NEW c, NEW s, NEW x, NEW y, NEW ka, NEW kb,
           Talk(g, c, s, ka, kb), Alike(c, x), Alike(s, y)
    PROVE  Talk(g, x, y, ka, kb)
<1>1. /\ Idle("C", c) => Idle("C", x)
      /\ Begun("C", c) => Begun("C", x)
      /\ Met(g, "C", c) => Met(g, "C", x)
      /\ Switched("C", c) => Switched("C", x)
  BY PhaseSame
<1>2. /\ Idle("S", s) => Idle("S", y)
      /\ Begun("S", s) => Begun("S", y)
      /\ Met(g, "S", s) => Met(g, "S", y)
      /\ Switched("S", s) => Switched("S", y)
  BY PhaseSame
<1>3. /\ x.donefirstkex = c.donefirstkex /\ x.transkexinit = c.transkexinit
      /\ x.kexhash = c.kexhash /\ x.keys = c.keys /\ x.param = c.param
      /\ x.kex_state = c.kex_state /\ First(x) = First(c)
      /\ Second(g, x) = Second(g, c) /\ Again(g, x) = Again(g, c)
  BY AlikeFields DEF First, Second, Again
<1>4. /\ y.donefirstkex = s.donefirstkex /\ y.transkexinit = s.transkexinit
      /\ y.kexhash = s.kexhash /\ y.keys = s.keys
      /\ Unread(g, y) = Unread(g, s)
  BY AlikeFields DEF Unread
<1>5. Paired(c, s) => Paired(x, y)
  BY <1>3, <1>4 DEF Paired
<1>6. Resting(c, s, ka, kb) => Resting(x, y, ka, kb)
  BY <1>1, <1>2 DEF Resting
<1>7. ClientOpens(c, s, ka, kb) => ClientOpens(x, y, ka, kb)
  BY <1>1, <1>2, <1>3 DEF ClientOpens
<1>8. ServerOpens(c, s, ka, kb) => ServerOpens(x, y, ka, kb)
  BY <1>1, <1>2, <1>4 DEF ServerOpens
<1>9. BothOpen(c, s, ka, kb) => BothOpen(x, y, ka, kb)
  BY <1>1, <1>2, <1>3, <1>4 DEF BothOpen
<1>10. ServerMet(g, c, s, ka, kb) => ServerMet(g, x, y, ka, kb)
  BY <1>1, <1>2, <1>3, <1>4 DEF ServerMet
<1>11. ClientMet(g, c, s, ka, kb) => ClientMet(g, x, y, ka, kb)
  BY <1>1, <1>2, <1>3, <1>4 DEF ClientMet
<1>12. BothMet(g, c, s, ka, kb) => BothMet(g, x, y, ka, kb)
  BY <1>1, <1>2, <1>3, <1>4 DEF BothMet
<1>13. ServerAhead(g, c, s, ka, kb) => ServerAhead(g, x, y, ka, kb)
  BY <1>1, <1>2, <1>3, <1>4 DEF ServerAhead
<1>14. Replied(g, c, s, ka, kb) => Replied(g, x, y, ka, kb)
  BY <1>1, <1>2, <1>3, <1>4 DEF Replied
<1>15. BothSwitched(c, s, ka, kb) => BothSwitched(x, y, ka, kb)
  BY <1>1, <1>2, <1>5 DEF BothSwitched
<1>16. ClientDone(c, s, ka, kb) => ClientDone(x, y, ka, kb)
  BY <1>1, <1>2, <1>5 DEF ClientDone
<1>17. ServerDone(c, s, ka, kb) => ServerDone(x, y, ka, kb)
  BY <1>1, <1>2, <1>5 DEF ServerDone
<1>18. ClientReopens(c, s, ka, kb) => ClientReopens(x, y, ka, kb)
  BY <1>1, <1>2, <1>3, <1>5 DEF ClientReopens
<1>19. ServerReopens(c, s, ka, kb) => ServerReopens(x, y, ka, kb)
  BY <1>1, <1>2, <1>4, <1>5 DEF ServerReopens
<1>. QED  BY <1>6, <1>7, <1>8, <1>9, <1>10, <1>11, <1>12, <1>13, <1>14, <1>15,
             <1>16, <1>17, <1>18, <1>19 DEF Talk

---------------------------------------------------------------------------

Stands(g, e, s) ==
    Idle(e, s) \/ Begun(e, s) \/ Met(g, e, s) \/ Switched(e, s)

LEMMA StandFacts ==
    ASSUME NEW g, NEW e, NEW s, Stands(g, e, s)
    PROVE  /\ Formed(s) /\ DOMAIN s = Names /\ s.authdone \in BOOLEAN
           /\ s.authdone => Keyed(s)
           /\ s.dataallowed \in BOOLEAN
           /\ s.dataallowed <=> Idle(e, s) \/ Switched(e, s)
           /\ s.requirenext # "none" =>
                \/ Begun(e, s) /\ s.requirenext = "KEXINIT"
                \/ Met(g, e, s) /\ e = "C" /\ s.requirenext = "KEXDH_REPLY"
                \/ Met(g, e, s) /\ e # "C" /\ s.requirenext = "KEXDH_INIT"
                \/ Switched(e, s) /\ s.requirenext = "NEWKEYS"
           /\ s.ignorenext \in BOOLEAN /\ (s.ignorenext => Met(g, e, s) /\ e = "S")
           /\ s.sentkexinit = FALSE <=> Idle(e, s)
           /\ ~s.donefirstkex => ~s.authdone
           /\ s.dataallowed => s.donefirstkex
<1>1. CASE Idle(e, s)
  BY <1>1 DEF Idle, Formed, Begun, Met, Switched, Keyed
<1>2. CASE Begun(e, s)
  BY <1>2 DEF Idle, Formed, Begun, Met, Switched
<1>3. CASE Met(g, e, s)
  BY <1>3 DEF Idle, Formed, Begun, Met, Switched
<1>4. CASE Switched(e, s)
  BY <1>4 DEF Idle, Formed, Begun, Met, Switched
<1>. QED  BY <1>1, <1>2, <1>3, <1>4 DEF Stands

LEMMA Saying ==
    /\ \A e, c : KI(e, c).t = "KEXINIT"
    /\ \A a, x : KD(a, x).t = "KEXDH_INIT"
    /\ \A k : KR(k).t = "KEXDH_REPLY"
    /\ KN.t = "NEWKEYS"
    /\ \A c : First(c).t = "KEXDH_INIT"
    /\ \A g, c : Second(g, c).t = "KEXDH_INIT"
BY DEF KI, KD, KR, KN, First, Second

\* Whoever may send what the other does not expect has its NEWKEYS under way.
Covered(s, r, ks) ==
    s.dataallowed /\ r.requirenext # "none" =>
      \E j \in 1..Len(ks) : ks[j].t = "NEWKEYS"

LEMMA Covers ==
    \A s, r :
      /\ \A p : Covered(s, r, <<p, KN>>) /\ Covered(s, r, <<KN, p>>)
      /\ \A p, q : Covered(s, r, <<p, q, KN>>) /\ Covered(s, r, <<KN, p, q>>)
      /\ Covered(s, r, <<KN>>)
<1>. TAKE s, r
<1>1. \A p : Covered(s, r, <<p, KN>>) /\ Covered(s, r, <<KN, p>>)
  <2>. TAKE p
  <2>1. /\ Len(<<p, KN>>) = 2 /\ <<p, KN>>[2] = KN
        /\ Len(<<KN, p>>) = 2 /\ <<KN, p>>[1] = KN
    BY Tuple2
  <2>. QED  BY <2>1, Upto, Saying DEF Covered
<1>2. \A p, q : Covered(s, r, <<p, q, KN>>) /\ Covered(s, r, <<KN, p, q>>)
  <2>. TAKE p, q
  <2>1. /\ Len(<<p, q, KN>>) = 3 /\ <<p, q, KN>>[3] = KN
        /\ Len(<<KN, p, q>>) = 3 /\ <<KN, p, q>>[1] = KN
    BY Tuple3
  <2>2. 1 \in 1..3 /\ 3 \in 1..3
    OBVIOUS
  <2>. QED  BY <2>1, <2>2, Saying DEF Covered
<1>3. Covered(s, r, <<KN>>)
  <2>1. Len(<<KN>>) = 1 /\ <<KN>>[1] = KN
    BY Tuple1
  <2>. QED  BY <2>1, Upto, Saying DEF Covered
<1>. QED  BY <1>1, <1>2, <1>3

Talking(g, c, s, ka, kb) ==
    /\ Stands(g, "C", c) /\ Stands(g, "S", s)
    /\ IsSeq(ka) /\ IsSeq(kb)
    /\ Covered(c, s, ka) /\ Covered(s, c, kb)

LEMMA TalkFacts ==
    ASSUME NEW g, NEW c, NEW s, NEW ka, NEW kb, Talk(g, c, s, ka, kb)
    PROVE  Talking(g, c, s, ka, kb)
<1>1. /\ Idle("C", c) => Stands(g, "C", c) /\ c.requirenext = "none"
      /\ Idle("S", s) => Stands(g, "S", s) /\ s.requirenext = "none"
      /\ Begun("C", c) => Stands(g, "C", c) /\ c.dataallowed = FALSE
      /\ Begun("S", s) => Stands(g, "S", s) /\ s.dataallowed = FALSE
      /\ Begun("C", c) /\ c.donefirstkex => c.requirenext = "none"
      /\ Begun("S", s) /\ s.donefirstkex => s.requirenext = "none"
      /\ Met(g, "C", c) => Stands(g, "C", c) /\ c.dataallowed = FALSE
      /\ Met(g, "S", s) => Stands(g, "S", s) /\ s.dataallowed = FALSE
      /\ Switched("C", c) => Stands(g, "C", c)
      /\ Switched("S", s) => Stands(g, "S", s)
  BY DEF Stands, Idle, Begun, Met, Switched
<1>2. /\ \A p, q : IsSeq(<<p, q>>) /\ IsSeq(<<p>>)
      /\ \A p, q, r : IsSeq(<<p, q, r>>)
      /\ IsSeq(<<>>)
  BY Empty, Tuple1, Tuple2, Tuple3
<1>3. /\ s.requirenext = "none" => Covered(c, s, ka)
      /\ c.requirenext = "none" => Covered(s, c, kb)
      /\ c.dataallowed = FALSE => Covered(c, s, ka)
      /\ s.dataallowed = FALSE => Covered(s, c, kb)
  BY DEF Covered
<1>4. CASE Resting(c, s, ka, kb)
  BY <1>1, <1>2, <1>3, <1>4 DEF Resting, Talking
<1>5. CASE ClientOpens(c, s, ka, kb)
  BY <1>1, <1>2, <1>3, <1>5 DEF ClientOpens, Talking
<1>6. CASE ServerOpens(c, s, ka, kb)
  BY <1>1, <1>2, <1>3, <1>6 DEF ServerOpens, Talking
<1>7. CASE BothOpen(c, s, ka, kb)
  BY <1>1, <1>2, <1>3, <1>7 DEF BothOpen, Talking
<1>8. CASE ServerMet(g, c, s, ka, kb)
  BY <1>1, <1>2, <1>3, <1>8 DEF ServerMet, Talking
<1>9. CASE ClientMet(g, c, s, ka, kb)
  BY <1>1, <1>2, <1>3, <1>9 DEF ClientMet, Talking
<1>10. CASE BothMet(g, c, s, ka, kb)
  BY <1>1, <1>2, <1>3, <1>10 DEF BothMet, Talking
<1>11. CASE ServerAhead(g, c, s, ka, kb)
  BY <1>1, <1>2, <1>3, <1>11, Covers DEF ServerAhead, Talking
<1>12. CASE Replied(g, c, s, ka, kb)
  BY <1>1, <1>2, <1>3, <1>12, Covers DEF Replied, Talking
<1>13. CASE BothSwitched(c, s, ka, kb)
  BY <1>1, <1>2, <1>3, <1>13, Covers DEF BothSwitched, Talking
<1>14. CASE ClientDone(c, s, ka, kb)
  BY <1>1, <1>2, <1>3, <1>14, Covers DEF ClientDone, Talking
<1>15. CASE ServerDone(c, s, ka, kb)
  BY <1>1, <1>2, <1>3, <1>15, Covers DEF ServerDone, Talking
<1>16. CASE ClientReopens(c, s, ka, kb)
  BY <1>1, <1>2, <1>3, <1>16, Covers DEF ClientReopens, Talking
<1>17. CASE ServerReopens(c, s, ka, kb)
  BY <1>1, <1>2, <1>3, <1>17, Covers DEF ServerReopens, Talking
<1>. QED  BY <1>4, <1>5, <1>6, <1>7, <1>8, <1>9, <1>10, <1>11, <1>12, <1>13,
             <1>14, <1>15, <1>16, <1>17 DEF Talk

\* In which phases there is something to read, and what.
LEMMA TalkHeads ==
    ASSUME NEW g, NEW c, NEW s, NEW ka, NEW kb, Talk(g, c, s, ka, kb)
    PROVE  /\ ka # <<>> =>
                \/ /\ Head(ka).t = "KEXINIT"
                   /\ \/ ClientOpens(c, s, ka, kb) \/ BothOpen(c, s, ka, kb)
                      \/ ClientMet(g, c, s, ka, kb)
                \/ /\ Head(ka).t = "KEXDH_INIT"
                   /\ ServerMet(g, c, s, ka, kb) \/ BothMet(g, c, s, ka, kb)
                \/ /\ Head(ka).t = "NEWKEYS"
                   /\ \/ BothSwitched(c, s, ka, kb) \/ ClientDone(c, s, ka, kb)
                      \/ ClientReopens(c, s, ka, kb)
           /\ kb # <<>> =>
                \/ /\ Head(kb).t = "KEXINIT"
                   /\ \/ ServerOpens(c, s, ka, kb) \/ BothOpen(c, s, ka, kb)
                      \/ ServerMet(g, c, s, ka, kb)
                      \/ ServerAhead(g, c, s, ka, kb)
                \/ Head(kb).t = "KEXDH_REPLY" /\ Replied(g, c, s, ka, kb)
                \/ /\ Head(kb).t = "NEWKEYS"
                   /\ \/ BothSwitched(c, s, ka, kb) \/ ServerDone(c, s, ka, kb)
                      \/ ServerReopens(c, s, ka, kb)
<1>1. /\ \A p, q : Head(<<p, q>>) = p
      /\ \A p : Head(<<p>>) = p
      /\ \A p, q, r : Head(<<p, q, r>>) = p
  BY Tuple1, Tuple2, Tuple3
<1>4. CASE Resting(c, s, ka, kb)
  BY <1>4 DEF Resting
<1>5. CASE ClientOpens(c, s, ka, kb)
  BY <1>1, <1>5, Saying DEF ClientOpens
<1>6. CASE ServerOpens(c, s, ka, kb)
  BY <1>1, <1>6, Saying DEF ServerOpens
<1>7. CASE BothOpen(c, s, ka, kb)
  BY <1>1, <1>7, Saying DEF BothOpen
<1>8. CASE ServerMet(g, c, s, ka, kb)
  BY <1>1, <1>8, Saying DEF ServerMet
<1>9. CASE ClientMet(g, c, s, ka, kb)
  <2>1. PICK x : ka = IF Again(g, c)
                   THEN <<KI("C", c.kexhash.c), KD("first", x), Second(g, c)>>
                   ELSE <<KI("C", c.kexhash.c), KD("first", x)>>
    BY <1>9 DEF ClientMet
  <2>2. PICK p, q, r : /\ p.t = "KEXINIT"
                       /\ ka = <<p, q, r>> \/ ka = <<p, q>>
    BY <2>1, Saying
  <2>3. Head(ka) = p
    BY <2>2, <1>1
  <2>4. kb = <<>>
    BY <1>9 DEF ClientMet
  <2>. QED  BY <2>2, <2>3, <2>4, <1>9
<1>10. CASE BothMet(g, c, s, ka, kb)
  BY <1>1, <1>10, Saying DEF BothMet
<1>11. CASE ServerAhead(g, c, s, ka, kb)
  BY <1>1, <1>11, Saying DEF ServerAhead
<1>12. CASE Replied(g, c, s, ka, kb)
  BY <1>1, <1>12, Saying DEF Replied
<1>13. CASE BothSwitched(c, s, ka, kb)
  BY <1>1, <1>13, Saying DEF BothSwitched
<1>14. CASE ClientDone(c, s, ka, kb)
  BY <1>1, <1>14, Saying DEF ClientDone
<1>15. CASE ServerDone(c, s, ka, kb)
  BY <1>1, <1>15, Saying DEF ServerDone
<1>16. CASE ClientReopens(c, s, ka, kb)
  BY <1>1, <1>16, Saying DEF ClientReopens
<1>17. CASE ServerReopens(c, s, ka, kb)
  BY <1>1, <1>17, Saying DEF ServerReopens
<1>. QED  BY <1>4, <1>5, <1>6, <1>7, <1>8, <1>9, <1>10, <1>11, <1>12, <1>13,
             <1>14, <1>15, <1>16, <1>17 DEF Talk

LEMMA DialogSeq ==
    ASSUME NEW m, NEW accepted, NEW ua, NEW ub, Dialog(m, accepted, ua, ub)
    PROVE  IsSeq(ua) /\ IsSeq(ub)
<1>1. /\ \A p, q : IsSeq(<<p, q>>) /\ IsSeq(<<p>>)
      /\ IsSeq(<<>>)
  BY Empty, Tuple1, Tuple2
<1>. QED  BY <1>1 DEF Dialog

---------------------------------------------------------------------------
(* What an end puts on its wire, whichever end it is *)

\* An end whose session is s, behind the wire w to one whose session is r.
Writer(w, ks, us, s, r) ==
    /\ IsSeq(w) /\ IsSeq(ks) /\ IsSeq(us) /\ Line(w, ks, us, s, r)
    /\ DOMAIN s = Names /\ IsSeq(s.writequeue) /\ IsSeq(s.replyq)
    /\ Covered(s, r, ks) /\ (s.authdone => Keyed(s))

LEMMA AlikeSender ==
    ASSUME NEW s, NEW x, Alike(s, x)
    PROVE  AsSender(s, x) /\ AsReader(s, x)
BY AlikeFields DEF AsSender, AsReader

LEMMA ReaderSame == \A r : AsReader(r, r) /\ AsSender(r, r)
BY DEF AsReader, AsSender

LEMMA QueuesAlike ==
    ASSUME NEW s, NEW x,
           But(s, x, Queues) \/ But(s, x, {"replyq", "writequeue"})
    PROVE  Alike(s, x) /\ x.exited = s.exited /\ x.lastpacket = s.lastpacket
           /\ x.chancount = s.chancount
BY DEF But, Names, Queues, Loose, Alike

LEMMA LineSent ==
    ASSUME NEW w, NEW ks, NEW us, NEW s, NEW r, NEW t \in UpperType \ {SUCCESS},
           NEW b, Writer(w, ks, us, s, r), s.dataallowed,
           t \in ConnectionType => s.authdone
    PROVE  LET x == EncryptPacket(s, t, b)
           IN  /\ But(s, x, Queues) /\ x.replyq = s.replyq
               /\ \E p : /\ x.writequeue = Append(s.writequeue, p)
                         /\ Line(Append(w, p), ks,
                                 IF t \in Dialogue
                                 THEN Append(us, [t |-> t, b |-> b]) ELSE us, x, r)
<1>. DEFINE x == EncryptPacket(s, t, b)
<1>1. /\ But(s, x, Queues) /\ x.replyq = s.replyq
      /\ \E p : Stamped(p, s, t, b) /\ x.writequeue = Append(s.writequeue, p)
  BY EncryptForm DEF Writer
<1>. HIDE DEF x
<1>2. PICK p : Stamped(p, s, t, b) /\ x.writequeue = Append(s.writequeue, p)
  BY <1>1
<1>3. /\ Plain(p) = [t |-> t, b |-> b] /\ p.t = t /\ p.key = s.keys.trans
      /\ p.z \in BOOLEAN
      /\ p.z <=> Compress /\ s.authdone /\ s.keys.trans # NoKeys
  <2>1. /\ Plain(p) = [t |-> t, b |-> b] /\ p.key = s.keys.trans
        /\ p.z \in BOOLEAN
        /\ p.z <=> Compress /\ s.authdone /\ s.keys.trans # NoKeys
    BY <1>2 DEF Stamped
  <2>2. p.t = t
    <3>1. Plain(p).t = p.t
      BY PlainType
    <3>. QED  BY <2>1, <3>1
  <2>. QED  BY <2>1, <2>2
<1>4. x.keys = s.keys /\ x.authdone = s.authdone
  BY <1>1, QueuesAlike, AlikeFields
<1>5. r.requirenext # "none" => Has(w, "NEWKEYS")
  <2>1. ASSUME r.requirenext # "none" PROVE Has(w, "NEWKEYS")
    <3>1. PICK j \in 1..Len(ks) : ks[j].t = "NEWKEYS"
      BY <2>1 DEF Writer, Covered
    <3>2. IsSeq(w) /\ IsSeq(ks) /\ Word(KexType, w, ks)
      BY DEF Writer, Line
    <3>3. Has(w, ks[j].t)
      BY <3>2, WordMembers
    <3>. QED  BY <3>1, <3>3
  <2>. QED  BY <2>1
<1>6. t \notin KexType /\ t # "NEWKEYS" /\ t # "KEXINIT" /\ t # SUCCESS
  BY Types
<1>7. s.authdone => s.keys.trans # NoKeys
  BY DEF Writer, Keyed
<1>8. Line(Append(w, p), ks,
           IF p.t \in Dialogue THEN Append(us, Plain(p)) ELSE us, x, r)
  <2>1. /\ IsSeq(w) /\ IsSeq(ks) /\ IsSeq(us) /\ Line(w, ks, us, s, r)
    BY DEF Writer
  <2>2. Line(Append(w, p), IF p.t \in KexType THEN Append(ks, Plain(p)) ELSE ks,
             IF p.t \in Dialogue THEN Append(us, Plain(p)) ELSE us, x, r)
    BY <2>1, <1>3, <1>4, <1>5, <1>6, <1>7, LineAppended
  <2>. QED  BY <2>2, <1>3, <1>6
<1>. QED  BY <1>1, <1>2, <1>3, <1>8 DEF x

LEMMA LineHeld ==
    ASSUME NEW w, NEW ks, NEW us, NEW s, NEW r, NEW t \in UpperType,
           NEW b, Writer(w, ks, us, s, r), ~s.dataallowed
    PROVE  LET x == EncryptPacket(s, t, b)
           IN  /\ But(s, x, Queues) /\ x.writequeue = s.writequeue
               /\ \E p : p.t = t /\ x.replyq = Append(s.replyq, p)
               /\ Line(w, ks, us, x, r)
<1>. DEFINE x == EncryptPacket(s, t, b)
<1>1. /\ But(s, x, Queues) /\ x.writequeue = s.writequeue
      /\ \E p : p.t = t /\ x.replyq = Append(s.replyq, p)
  BY EncryptForm DEF Writer
<1>. HIDE DEF x
<1>2. AsSender(s, x)
  BY <1>1, QueuesAlike, AlikeSender
<1>3. Line(w, ks, us, x, r)
  BY <1>2, ReaderSame, LineSame DEF Writer
<1>. QED  BY <1>1, <1>3 DEF x

LEMMA LineFlushed ==
    ASSUME NEW w, NEW ks, NEW us, NEW s, NEW r, Writer(w, ks, us, s, r),
           s.dataallowed, Waiting(s)
    PROVE  LET x == MaybeFlushReplyQueue(s)
           IN  /\ But(s, x, {"replyq", "writequeue"}) /\ x.replyq = <<>>
               /\ \E q : /\ IsSeq(q) /\ (q # <<>> => s.authdone)
                         /\ x.writequeue = s.writequeue \o q
                         /\ Line(w \o q, ks, us, x, r)
<1>. DEFINE x == MaybeFlushReplyQueue(s)
<1>1. /\ But(s, x, {"replyq", "writequeue"}) /\ x.replyq = <<>>
      /\ \E q : /\ IsSeq(q) /\ Len(q) = Len(s.replyq)
                /\ \A i \in 1..Len(q) :
                     Stamped(q[i], s, s.replyq[i].t, s.replyq[i].b)
                /\ x.writequeue = s.writequeue \o q
  BY FlushForm DEF Writer
<1>. HIDE DEF x
<1>2. PICK q : /\ IsSeq(q) /\ Len(q) = Len(s.replyq)
               /\ \A i \in 1..Len(q) :
                    Stamped(q[i], s, s.replyq[i].t, s.replyq[i].b)
               /\ x.writequeue = s.writequeue \o q
  BY <1>1
<1>3. /\ IsSeq(w) /\ IsSeq(ks) /\ IsSeq(us) /\ Line(w, ks, us, s, r)
      /\ IsSeq(s.replyq) /\ (s.authdone => Keyed(s))
  BY DEF Writer
<1>4. AsSender(s, x)
  BY <1>1, QueuesAlike, AlikeSender
<1>5. CASE s.replyq = <<>>
  <2>1. Len(s.replyq) = 0
    BY <1>5
  <2>2. q = <<>>
    BY <2>1, <1>2, Nonempty
  <2>3. w \o q = w
    BY <2>2, <1>3, Empty, Concat
  <2>4. Line(w \o q, ks, us, x, r)
    BY <2>3, <1>3, <1>4, ReaderSame, LineSame
  <2>. QED  BY <2>2, <2>4, <1>1, <1>2 DEF x
<1>6. CASE s.replyq # <<>>
  <2>1. s.authdone /\ s.keys.trans # NoKeys
    BY <1>3, <1>6 DEF Waiting, Keyed
  <2>2. r.requirenext # "none" => Has(w, "NEWKEYS")
    <3>1. ASSUME r.requirenext # "none" PROVE Has(w, "NEWKEYS")
      <4>1. PICK j \in 1..Len(ks) : ks[j].t = "NEWKEYS"
        BY <3>1 DEF Writer, Covered
      <4>2. Word(KexType, w, ks)
        BY <1>3 DEF Line
      <4>3. Has(w, ks[j].t)
        BY <4>2, <1>3, WordMembers
      <4>. QED  BY <4>1, <4>3
    <3>. QED  BY <3>1
  <2>3. \A i \in 1..Len(q) : /\ q[i].t \in ConnectionType
                             /\ q[i].key = s.keys.trans
                             /\ q[i].z \in BOOLEAN
                             /\ q[i].z <=> Compress
    <3>1. TAKE i \in 1..Len(q)
    <3>2. Stamped(q[i], s, s.replyq[i].t, s.replyq[i].b)
      BY <1>2
    <3>3. s.replyq[i].t \in ConnectionType
      BY <1>2 DEF Waiting
    <3>4. /\ Plain(q[i]) = [t |-> s.replyq[i].t, b |-> s.replyq[i].b]
          /\ q[i].key = s.keys.trans /\ q[i].z \in BOOLEAN
          /\ q[i].z <=> Compress /\ s.authdone /\ s.keys.trans # NoKeys
      BY <3>2 DEF Stamped
    <3>5. q[i].t = s.replyq[i].t
      <4>1. Plain(q[i]).t = q[i].t
        BY PlainType
      <4>. QED  BY <3>4, <4>1
    <3>. QED  BY <3>3, <3>4, <3>5, <2>1
  <2>4. Line(w \o q, ks, us, s, r)
    BY <1>2, <1>3, <2>1, <2>2, <2>3, LineFollowed
  <2>5. Line(w \o q, ks, us, x, r)
    BY <2>4, <1>4, ReaderSame, LineSame
  <2>. QED  BY <2>1, <2>5, <1>1, <1>2 DEF x
<1>. QED  BY <1>5, <1>6

---------------------------------------------------------------------------
(* Both ends: what leaves them as they are in the exchange *)

\* The client becomes x, its write queue from q on being what it has added
\* to the wire a.  The server likewise.
ClientAdds(q, g, x, s, a, b, m) ==
    \E r : IsSeq(r) /\ x.writequeue = q \o r /\ Linked(g, x, s, a \o r, b, m)
ServerAdds(q, g, c, x, a, b, m) ==
    \E r : IsSeq(r) /\ x.writequeue = q \o r /\ Linked(g, c, x, a, b \o r, m)

LEMMA JoinedFacts ==
    ASSUME NEW g, NEW c, NEW s, NEW a, NEW b, NEW m, NEW ka, NEW kb, NEW ua,
           NEW ub, Joined(g, c, s, a, b, m, ka, kb, ua, ub)
    PROVE  /\ Talking(g, c, s, ka, kb) /\ IsSeq(ua) /\ IsSeq(ub)
           /\ Writer(a, ka, ua, c, s) /\ Writer(b, kb, ub, s, c)
           /\ DOMAIN c = Names /\ DOMAIN s = Names
           /\ Waiting(c) /\ Waiting(s)
<1>1. Talking(g, c, s, ka, kb)
  BY TalkFacts DEF Joined
<1>2. /\ DOMAIN c = Names /\ (c.authdone => Keyed(c))
      /\ DOMAIN s = Names /\ (s.authdone => Keyed(s))
      /\ IsSeq(ka) /\ IsSeq(kb) /\ Covered(c, s, ka) /\ Covered(s, c, kb)
  BY <1>1, StandFacts DEF Talking
<1>3. IsSeq(ua) /\ IsSeq(ub)
  BY DialogSeq DEF Joined
<1>. QED  BY <1>1, <1>2, <1>3 DEF Joined, Queued, Writer, Both

LEMMA OneMore ==
    ASSUME NEW q, NEW p, IsSeq(q)
    PROVE  Append(q, p) = q \o <<p>> /\ IsSeq(<<p>>)
<1>1. IsSeq(<<p>>)
  BY Tuple1
<1>2. q \o Append(<<>>, p) = Append(q \o <<>>, p)
  BY Empty, Regroup
<1>. QED  BY <1>1, <1>2, Empty, Concat, Tuple1

LEMMA WaitingMore ==
    ASSUME NEW s, NEW x, NEW p, Queued(s), Waiting(s), x.authdone,
           x.exited = s.exited, x.replyq = Append(s.replyq, p),
           p.t \in ConnectionType
    PROVE  Waiting(x)
<1>1. PICK q : q = s.replyq
  OBVIOUS
<1>2. IsSeq(q) /\ \A i \in 1..Len(q) : q[i].t \in ConnectionType
  BY <1>1 DEF Queued, Waiting
<1>3. PICK n : n = Len(q) /\ n \in Nat
  BY <1>2, Length
<1>4. /\ Len(Append(q, p)) = n + 1 /\ \A i \in 1..n : Append(q, p)[i] = q[i]
      /\ Append(q, p)[n + 1] = p
  BY <1>2, <1>3, AppendOne
<1>5. ASSUME NEW i \in 1..n + 1
      PROVE  Append(q, p)[i].t \in ConnectionType
  <2>1. i \in 1..n \/ i = n + 1
    BY <1>3
  <2>. QED  BY <2>1, <1>2, <1>3, <1>4
<1>6. \A i \in 1..Len(x.replyq) : x.replyq[i].t \in ConnectionType
  BY <1>1, <1>4, <1>5
<1>. QED  BY <1>6 DEF Waiting

\* Fields that neither the exchange nor the queues depend on.
LEMMA ClientAlike ==
    ASSUME NEW g, NEW c, NEW s, NEW a, NEW b, NEW m, NEW x,
           Linked(g, c, s, a, b, m), Alike(c, x),
           x.writequeue = c.writequeue \/ x.writequeue = <<>>,
           x.replyq = c.replyq, x.exited \in Fine
    PROVE  Linked(g, x, s, a, b, m)
<1>. PICK ka, kb, ua, ub : Joined(g, c, s, a, b, m, ka, kb, ua, ub)
  BY DEF Linked
<1>1. DOMAIN s = Names
  BY JoinedFacts
<1>2. Alike(s, s)
  BY <1>1 DEF Alike, But
<1>3. Talk(g, x, s, ka, kb)
  BY <1>2, TalkSame DEF Joined
<1>4. Line(a, ka, ua, x, s) /\ Line(b, kb, ub, s, x)
  BY AlikeSender, ReaderSame, LineSame DEF Joined
<1>5. x.authdone = c.authdone /\ x.donefirstkex = c.donefirstkex
  BY AlikeFields
<1>6. Both(x, s, m, a) /\ Queued(x)
  BY <1>5, Empty DEF Joined, Both, Waiting, Queued
<1>. QED  BY <1>3, <1>4, <1>6 DEF Joined, Linked

LEMMA ServerAlike ==
    ASSUME NEW g, NEW c, NEW s, NEW a, NEW b, NEW m, NEW x,
           Linked(g, c, s, a, b, m), Alike(s, x),
           x.writequeue = s.writequeue \/ x.writequeue = <<>>,
           x.replyq = s.replyq, x.exited \in Fine
    PROVE  Linked(g, c, x, a, b, m)
<1>. PICK ka, kb, ua, ub : Joined(g, c, s, a, b, m, ka, kb, ua, ub)
  BY DEF Linked
<1>1. DOMAIN c = Names
  BY JoinedFacts
<1>2. Alike(c, c)
  BY <1>1 DEF Alike, But
<1>3. Talk(g, c, x, ka, kb)
  BY <1>2, TalkSame DEF Joined
<1>4. Line(a, ka, ua, c, x) /\ Line(b, kb, ub, x, c)
  BY AlikeSender, ReaderSame, LineSame DEF Joined
<1>5. x.authdone = s.authdone
  BY AlikeFields
<1>6. Both(c, x, m, a) /\ Queued(x)
  BY <1>5, Empty DEF Joined, Both, Waiting, Queued
<1>. QED  BY <1>3, <1>4, <1>5, <1>6 DEF Joined, Linked

LEMMA NothingAdded ==
    ASSUME NEW g, NEW c, NEW s, NEW a, NEW b, NEW m, Linked(g, c, s, a, b, m)
    PROVE  /\ \A q : IsSeq(q) /\ c.writequeue = q => ClientAdds(q, g, c, s, a, b, m)
           /\ \A q : IsSeq(q) /\ s.writequeue = q => ServerAdds(q, g, c, s, a, b, m)
<1>1. IsSeq(a) /\ IsSeq(b)
  BY DEF Linked, Joined
<1>2. a \o <<>> = a /\ b \o <<>> = b
  BY <1>1, Empty, Concat
<1>3. \A q : IsSeq(q) => q \o <<>> = q
  BY Empty, Concat
<1>. QED  BY <1>2, <1>3, Empty DEF ClientAdds, ServerAdds

\* A packet of the connection layer is sent, or held back.
LEMMA ClientConnection ==
    ASSUME NEW g, NEW c, NEW s, NEW a, NEW b, NEW m, NEW t \in ConnectionType,
           NEW v, Linked(g, c, s, a, b, m), c.authdone
    PROVE  ClientAdds(c.writequeue, g, EncryptPacket(c, t, v), s, a, b, m)
<1>. DEFINE x == EncryptPacket(c, t, v)
<1>. PICK ka, kb, ua, ub : Joined(g, c, s, a, b, m, ka, kb, ua, ub)
  BY DEF Linked
<1>1. /\ Writer(a, ka, ua, c, s) /\ DOMAIN s = Names /\ Waiting(c)
      /\ Queued(c) /\ IsSeq(a)
  BY JoinedFacts DEF Joined
<1>2. t \in UpperType \ {SUCCESS} /\ t \notin Dialogue
  BY Types
<1>3. Alike(s, s)
  BY <1>1 DEF Alike, But
<1>. HIDE DEF x
<1>4. ASSUME Alike(c, x), x.exited = c.exited, Queued(x), Waiting(x),
             NEW r, IsSeq(r), Line(a \o r, ka, ua, x, s)
      PROVE  Linked(g, x, s, a \o r, b, m)
  <2>1. Talk(g, x, s, ka, kb)
    BY <1>3, <1>4, TalkSame DEF Joined
  <2>2. Line(b, kb, ub, s, x)
    BY <1>4, AlikeSender, ReaderSame, LineSame DEF Joined
  <2>3. x.authdone = c.authdone /\ x.donefirstkex = c.donefirstkex
    BY <1>4, AlikeFields
  <2>4. Both(x, s, m, a \o r)
    BY <2>3, <1>4 DEF Joined, Both
  <2>5. IsSeq(a \o r)
    BY <1>1, <1>4, Concat
  <2>. QED  BY <2>1, <2>2, <2>4, <2>5, <1>4 DEF Joined, Linked
<1>5. CASE c.dataallowed
  <2>1. /\ But(c, x, Queues) /\ x.replyq = c.replyq
        /\ \E p : /\ x.writequeue = Append(c.writequeue, p)
                  /\ Line(Append(a, p), ka, ua, x, s)
    <3>1. /\ But(c, x, Queues) /\ x.replyq = c.replyq
          /\ \E p : /\ x.writequeue = Append(c.writequeue, p)
                    /\ Line(Append(a, p), ka,
                            IF t \in Dialogue
                            THEN Append(ua, [t |-> t, b |-> v]) ELSE ua,
                            x, s)
      BY <1>1, <1>2, <1>5, LineSent DEF x
    <3>2. (IF t \in Dialogue THEN Append(ua, [t |-> t, b |-> v]) ELSE ua) = ua
      BY <1>2
    <3>. QED  BY <3>1, <3>2
  <2>2. PICK p : /\ x.writequeue = Append(c.writequeue, p)
                 /\ Line(Append(a, p), ka, ua, x, s)
    BY <2>1
  <2>3. /\ x.writequeue = c.writequeue \o <<p>> /\ IsSeq(<<p>>)
        /\ Append(a, p) = a \o <<p>>
    BY <2>2, <1>1, OneMore DEF Queued
  <2>4. Alike(c, x) /\ x.exited = c.exited /\ x.authdone = c.authdone
    BY <2>1, QueuesAlike, AlikeFields
  <2>5. Queued(x) /\ Waiting(x)
    BY <2>1, <2>2, <2>4, <1>1, AppendOne DEF Queued, Waiting
  <2>6. Linked(g, x, s, a \o <<p>>, b, m)
    BY <2>2, <2>3, <2>4, <2>5, <1>4
  <2>. QED  BY <2>3, <2>6 DEF ClientAdds, x
<1>6. CASE ~c.dataallowed
  <2>1. /\ But(c, x, Queues) /\ x.writequeue = c.writequeue
        /\ \E p : p.t = t /\ x.replyq = Append(c.replyq, p)
        /\ Line(a, ka, ua, x, s)
    BY <1>1, <1>2, <1>6, LineHeld DEF x
  <2>2. PICK p : p.t = t /\ x.replyq = Append(c.replyq, p)
    BY <2>1
  <2>3. Alike(c, x) /\ x.exited = c.exited /\ x.authdone = c.authdone
    BY <2>1, QueuesAlike, AlikeFields
  <2>4. Queued(x) /\ Waiting(x)
    <3>1. Queued(x)
      BY <2>1, <2>2, <1>1, AppendOne DEF Queued
    <3>2. x.authdone
      BY <2>3
    <3>3. Waiting(x)
      BY <2>2, <2>3, <3>2, <1>1, WaitingMore
    <3>. QED  BY <3>1, <3>3
  <2>5. a \o <<>> = a /\ c.writequeue \o <<>> = c.writequeue
    BY <1>1, Empty, Concat DEF Queued
  <2>6. Linked(g, x, s, a \o <<>>, b, m)
    BY <2>1, <2>3, <2>4, <2>5, <1>4, Empty
  <2>. QED  BY <2>1, <2>5, <2>6, Empty DEF ClientAdds, x
<1>. QED  BY <1>5, <1>6

LEMMA ServerConnection ==
    ASSUME NEW g, NEW c, NEW s, NEW a, NEW b, NEW m, NEW t \in ConnectionType,
           NEW v, Linked(g, c, s, a, b, m), s.authdone
    PROVE  ServerAdds(s.writequeue, g, c, EncryptPacket(s, t, v), a, b, m)
<1>. DEFINE x == EncryptPacket(s, t, v)
<1>. PICK ka, kb, ua, ub : Joined(g, c, s, a, b, m, ka, kb, ua, ub)
  BY DEF Linked
<1>1. /\ Writer(b, kb, ub, s, c) /\ DOMAIN c = Names /\ Waiting(s)
      /\ Queued(s) /\ IsSeq(b)
  BY JoinedFacts DEF Joined
<1>2. t \in UpperType \ {SUCCESS} /\ t \notin Dialogue
  BY Types
<1>3. Alike(c, c)
  BY <1>1 DEF Alike, But
<1>. HIDE DEF x
<1>4. ASSUME Alike(s, x), x.exited = s.exited, Queued(x), Waiting(x),
             NEW r, IsSeq(r), Line(b \o r, kb, ub, x, c)
      PROVE  Linked(g, c, x, a, b \o r, m)
  <2>1. Talk(g, c, x, ka, kb)
    BY <1>3, <1>4, TalkSame DEF Joined
  <2>2. Line(a, ka, ua, c, x)
    BY <1>4, AlikeSender, ReaderSame, LineSame DEF Joined
  <2>3. x.authdone = s.authdone
    BY <1>4, AlikeFields
  <2>4. Both(c, x, m, a)
    BY <2>3, <1>4 DEF Joined, Both
  <2>5. IsSeq(b \o r)
    BY <1>1, <1>4, Concat
  <2>. QED  BY <2>1, <2>2, <2>3, <2>4, <2>5, <1>4 DEF Joined, Linked
<1>5. CASE s.dataallowed
  <2>1. /\ But(s, x, Queues) /\ x.replyq = s.replyq
        /\ \E p : /\ x.writequeue = Append(s.writequeue, p)
                  /\ Line(Append(b, p), kb, ub, x, c)
    <3>1. /\ But(s, x, Queues) /\ x.replyq = s.replyq
          /\ \E p : /\ x.writequeue = Append(s.writequeue, p)
                    /\ Line(Append(b, p), kb,
                            IF t \in Dialogue
                            THEN Append(ub, [t |-> t, b |-> v]) ELSE ub,
                            x, c)
      BY <1>1, <1>2, <1>5, LineSent DEF x
    <3>2. (IF t \in Dialogue THEN Append(ub, [t |-> t, b |-> v]) ELSE ub) = ub
      BY <1>2
    <3>. QED  BY <3>1, <3>2
  <2>2. PICK p : /\ x.writequeue = Append(s.writequeue, p)
                 /\ Line(Append(b, p), kb, ub, x, c)
    BY <2>1
  <2>3. /\ x.writequeue = s.writequeue \o <<p>> /\ IsSeq(<<p>>)
        /\ Append(b, p) = b \o <<p>>
    BY <2>2, <1>1, OneMore DEF Queued
  <2>4. Alike(s, x) /\ x.exited = s.exited /\ x.authdone = s.authdone
    BY <2>1, QueuesAlike, AlikeFields
  <2>5. Queued(x) /\ Waiting(x)
    BY <2>1, <2>2, <2>4, <1>1, AppendOne DEF Queued, Waiting
  <2>6. Linked(g, c, x, a, b \o <<p>>, m)
    BY <2>2, <2>3, <2>4, <2>5, <1>4
  <2>. QED  BY <2>3, <2>6 DEF ServerAdds, x
<1>6. CASE ~s.dataallowed
  <2>1. /\ But(s, x, Queues) /\ x.writequeue = s.writequeue
        /\ \E p : p.t = t /\ x.replyq = Append(s.replyq, p)
        /\ Line(b, kb, ub, x, c)
    BY <1>1, <1>2, <1>6, LineHeld DEF x
  <2>2. PICK p : p.t = t /\ x.replyq = Append(s.replyq, p)
    BY <2>1
  <2>3. Alike(s, x) /\ x.exited = s.exited /\ x.authdone = s.authdone
    BY <2>1, QueuesAlike, AlikeFields
  <2>4. Queued(x) /\ Waiting(x)
    <3>1. Queued(x)
      BY <2>1, <2>2, <1>1, AppendOne DEF Queued
    <3>2. x.authdone
      BY <2>3
    <3>3. Waiting(x)
      BY <2>2, <2>3, <3>2, <1>1, WaitingMore
    <3>. QED  BY <3>1, <3>3
  <2>5. b \o <<>> = b /\ s.writequeue \o <<>> = s.writequeue
    BY <1>1, Empty, Concat DEF Queued
  <2>6. Linked(g, c, x, a, b \o <<>>, m)
    BY <2>1, <2>3, <2>4, <2>5, <1>4, Empty
  <2>. QED  BY <2>1, <2>5, <2>6, Empty DEF ServerAdds, x
<1>. QED  BY <1>5, <1>6

\* maybe_flush_reply_queue()
LEMMA ClientFlushes ==
    ASSUME NEW g, NEW c, NEW s, NEW a, NEW b, NEW m, Linked(g, c, s, a, b, m)
    PROVE  ClientAdds(c.writequeue, g, MaybeFlushReplyQueue(c), s, a, b, m)
<1>. DEFINE x == MaybeFlushReplyQueue(c)
<1>. PICK ka, kb, ua, ub : Joined(g, c, s, a, b, m, ka, kb, ua, ub)
  BY DEF Linked
<1>1. /\ Writer(a, ka, ua, c, s) /\ DOMAIN s = Names /\ Waiting(c)
      /\ Queued(c) /\ IsSeq(a)
  BY JoinedFacts DEF Joined
<1>2. CASE ~c.dataallowed
  <2>1. x = c
    BY <1>2 DEF MaybeFlushReplyQueue
  <2>. QED  BY <2>1, <1>1, NothingAdded DEF Queued
<1>3. CASE c.dataallowed
  <2>. HIDE DEF x
  <2>1. /\ But(c, x, {"replyq", "writequeue"}) /\ x.replyq = <<>>
        /\ \E q : /\ IsSeq(q) /\ (q # <<>> => c.authdone)
                  /\ x.writequeue = c.writequeue \o q
                  /\ Line(a \o q, ka, ua, x, s)
    BY <1>1, <1>3, LineFlushed DEF x
  <2>2. PICK q : /\ IsSeq(q) /\ (q # <<>> => c.authdone)
                 /\ x.writequeue = c.writequeue \o q
                 /\ Line(a \o q, ka, ua, x, s)
    BY <2>1
  <2>3. Alike(c, x) /\ x.exited = c.exited
    BY <2>1, QueuesAlike
  <2>4. x.authdone = c.authdone /\ x.donefirstkex = c.donefirstkex
    BY <2>3, AlikeFields
  <2>5. Alike(s, s)
    BY <1>1 DEF Alike, But
  <2>6. Talk(g, x, s, ka, kb)
    BY <2>3, <2>5, TalkSame DEF Joined
  <2>7. Line(b, kb, ub, s, x)
    BY <2>3, AlikeSender, ReaderSame, LineSame DEF Joined
  <2>8. Queued(x) /\ IsSeq(a \o q)
    BY <2>1, <2>2, <1>1, Concat, Empty DEF Queued
  <2>9. q = <<>> => a \o q = a
    BY <1>1, Empty, Concat
  <2>10. \A i \in 1..Len(x.replyq) : x.replyq[i].t \in ConnectionType
    BY <2>1, Empty, Upto
  <2>11. Both(x, s, m, a \o q)
    BY <2>1, <2>2, <2>3, <2>4, <2>9, <2>10 DEF Joined, Both, Waiting
  <2>12. Linked(g, x, s, a \o q, b, m)
    BY <2>2, <2>6, <2>7, <2>8, <2>11 DEF Joined, Linked
  <2>. QED  BY <2>2, <2>12 DEF ClientAdds, x
<1>. QED  BY <1>2, <1>3

LEMMA ServerFlushes ==
    ASSUME NEW g, NEW c, NEW s, NEW a, NEW b, NEW m, Linked(g, c, s, a, b, m)
    PROVE  ServerAdds(s.writequeue, g, c, MaybeFlushReplyQueue(s), a, b, m)
<1>. DEFINE x == MaybeFlushReplyQueue(s)
<1>. PICK ka, kb, ua, ub : Joined(g, c, s, a, b, m, ka, kb, ua, ub)
  BY DEF Linked
<1>1. /\ Writer(b, kb, ub, s, c) /\ DOMAIN c = Names /\ Waiting(s)
      /\ Queued(s) /\ IsSeq(b)
  BY JoinedFacts DEF Joined
<1>2. CASE ~s.dataallowed
  <2>1. x = s
    BY <1>2 DEF MaybeFlushReplyQueue
  <2>. QED  BY <2>1, <1>1, NothingAdded DEF Queued
<1>3. CASE s.dataallowed
  <2>. HIDE DEF x
  <2>1. /\ But(s, x, {"replyq", "writequeue"}) /\ x.replyq = <<>>
        /\ \E q : /\ IsSeq(q) /\ (q # <<>> => s.authdone)
                  /\ x.writequeue = s.writequeue \o q
                  /\ Line(b \o q, kb, ub, x, c)
    BY <1>1, <1>3, LineFlushed DEF x
  <2>2. PICK q : /\ IsSeq(q) /\ x.writequeue = s.writequeue \o q
                 /\ Line(b \o q, kb, ub, x, c)
    BY <2>1
  <2>3. Alike(s, x) /\ x.exited = s.exited
    BY <2>1, QueuesAlike
  <2>4. x.authdone = s.authdone
    BY <2>3, AlikeFields
  <2>5. Alike(c, c)
    BY <1>1 DEF Alike, But
  <2>6. Talk(g, c, x, ka, kb)
    BY <2>3, <2>5, TalkSame DEF Joined
  <2>7. Line(a, ka, ua, c, x)
    BY <2>3, AlikeSender, ReaderSame, LineSame DEF Joined
  <2>8. Queued(x) /\ IsSeq(b \o q)
    BY <2>1, <2>2, <1>1, Concat, Empty DEF Queued
  <2>10. \A i \in 1..Len(x.replyq) : x.replyq[i].t \in ConnectionType
    BY <2>1, Empty, Upto
  <2>11. Both(c, x, m, a)
    BY <2>1, <2>3, <2>4, <2>10 DEF Joined, Both, Waiting
  <2>12. Linked(g, c, x, a, b \o q, m)
    BY <2>2, <2>4, <2>6, <2>7, <2>8, <2>11 DEF Joined, Linked
  <2>. QED  BY <2>2, <2>12 DEF ServerAdds, x
<1>. QED  BY <1>2, <1>3

---------------------------------------------------------------------------
(* An end begins an exchange *)

NoNewkeys(ks) == ~\E j \in 1..Len(ks) : ks[j].t = "NEWKEYS"

LEMMA LineKexSent ==
    ASSUME NEW w, NEW ks, NEW us, NEW s, NEW r, NEW x, NEW p,
           NEW t \in KexType, NEW v, Writer(w, ks, us, s, r),
           Stamped(p, s, t, v), t = "KEXINIT" => s.authdone,
           x.authdone = s.authdone,
           t # "NEWKEYS" => x.keys.trans = s.keys.trans,
           t = "NEWKEYS" => NoNewkeys(ks)
    PROVE  Line(Append(w, p), Append(ks, [t |-> t, b |-> v]), us, x, r)
<1>1. /\ Plain(p) = [t |-> t, b |-> v] /\ p.t = t /\ p.key = s.keys.trans
      /\ p.z \in BOOLEAN
      /\ p.z <=> Compress /\ s.authdone /\ s.keys.trans # NoKeys
  <2>1. /\ Plain(p) = [t |-> t, b |-> v] /\ p.key = s.keys.trans
        /\ p.z \in BOOLEAN
        /\ p.z <=> Compress /\ s.authdone /\ s.keys.trans # NoKeys
    BY DEF Stamped
  <2>2. p.t = t
    <3>1. Plain(p).t = p.t
      BY PlainType
    <3>. QED  BY <2>1, <3>1
  <2>. QED  BY <2>1, <2>2
<1>2. /\ IsSeq(w) /\ IsSeq(ks) /\ IsSeq(us) /\ Line(w, ks, us, s, r)
      /\ s.authdone => s.keys.trans # NoKeys
  BY DEF Writer, Keyed
<1>3. /\ t \notin UpperType /\ t # SUCCESS /\ t \notin Dialogue
      /\ t \notin ConnectionType
  BY Types
<1>4. t = "NEWKEYS" => ~Has(w, "NEWKEYS")
  <2>1. ASSUME t = "NEWKEYS", Has(w, "NEWKEYS") PROVE FALSE
    <3>1. PICK i \in 1..Len(w) : w[i].t = "NEWKEYS"
      BY <2>1 DEF Has
    <3>2. Word(KexType, w, ks) /\ "NEWKEYS" \in KexType
      BY <1>2, Types DEF Line
    <3>3. \E j \in 1..Len(ks) : ks[j].t = w[i].t
      BY <3>1, <3>2, <1>2, WordMembers
    <3>. QED  BY <3>1, <3>3, <2>1 DEF NoNewkeys
  <2>. QED  BY <2>1
<1>5. Line(Append(w, p), IF p.t \in KexType THEN Append(ks, Plain(p)) ELSE ks,
           IF p.t \in Dialogue THEN Append(us, Plain(p)) ELSE us, x, r)
  BY <1>1, <1>2, <1>3, <1>4, LineAppended
<1>. QED  BY <1>1, <1>3, <1>5

LEMMA Grown ==
    /\ \A p, q : Append(Append(<<>>, p), q) = <<p, q>>
    /\ \A p : Append(<<>>, p) = <<p>>
    /\ \A p, q : Append(<<p>>, q) = <<p, q>>
    /\ \A r, p, q : Append(Append(<<r>>, p), q) = <<r, p, q>>
<1>1. \A p : Append(<<>>, p) = <<p>>
  BY Tuple1, Zenon
<1>2. \A p, q : Append(<<p>>, q) = <<p, q>>
  BY Tuple2, Zenon
<1>3. \A r, p, q : Append(<<r, p>>, q) = <<r, p, q>>
  <2>. SUFFICES ASSUME NEW r, NEW p, NEW q
                PROVE  Append(<<r, p>>, q) = <<r, p, q>>
    OBVIOUS
  <2>. QED  BY Third, Zenon
<1>4. \A p, q : Append(Append(<<>>, p), q) = <<p, q>>
  BY <1>1, <1>2, Zenon
<1>5. \A r, p, q : Append(Append(<<r>>, p), q) = <<r, p, q>>
  <2>. SUFFICES ASSUME NEW r, NEW p, NEW q
                PROVE  Append(Append(<<r>>, p), q) = <<r, p, q>>
    OBVIOUS
  <2>1. Append(<<r>>, p) = <<r, p>>
    BY <1>2, Zenon
  <2>2. Append(<<r, p>>, q) = <<r, p, q>>
    BY Third, Zenon
  <2>. QED  BY <2>1, <2>2, Zenon
<1>. QED  BY <1>1, <1>2, <1>4, <1>5, Zenon

LEMMA TwoMore ==
    ASSUME NEW w, NEW p, NEW q, IsSeq(w)
    PROVE  /\ Append(Append(w, p), q) = w \o (<<p>> \o <<q>>)
           /\ IsSeq(<<p>> \o <<q>>) /\ IsSeq(Append(Append(w, p), q))
<1>1. IsSeq(<<p>>) /\ IsSeq(<<q>>) /\ Append(w, p) = w \o <<p>>
  BY OneMore
<1>2. IsSeq(w \o <<p>>) /\ IsSeq(<<p>> \o <<q>>)
  BY <1>1, Concat
<1>3. Append(w \o <<p>>, q) = (w \o <<p>>) \o <<q>>
  BY <1>2, OneMore
<1>4. (w \o <<p>>) \o <<q>> = w \o (<<p>> \o <<q>>)
  BY <1>1, Associates
<1>5. IsSeq(Append(w \o <<p>>, q))
  BY <1>2, AppendOne
<1>. QED  BY <1>1, <1>2, <1>3, <1>4, <1>5

LEMMA KexPackets ==
    /\ \A e, c : KI(e, c) = [t |-> "KEXINIT", b |-> KI(e, c).b]
    /\ \A a, x : KD(a, x) = [t |-> "KEXDH_INIT", b |-> KD(a, x).b]
    /\ \A k : KR(k) = [t |-> "KEXDH_REPLY", b |-> KR(k).b]
    /\ KN = [t |-> "NEWKEYS", b |-> 0]
    /\ \A c : First(c) = [t |-> "KEXDH_INIT", b |-> First(c).b]
    /\ \A g, c : Second(g, c) = [t |-> "KEXDH_INIT", b |-> Second(g, c).b]
    /\ {"KEXINIT", "KEXDH_INIT", "KEXDH_REPLY", "NEWKEYS"} = KexType
BY DEF KI, KD, KR, KN, First, Second, KexType

LEMMA Distinct ==
    ASSUME NEW g, NEW e, NEW s
    PROVE  /\ Idle(e, s) => s.sentkexinit = FALSE /\ s.recvkexinit = FALSE
                            /\ s.sentnewkeys = FALSE
           /\ Begun(e, s) => s.sentkexinit = TRUE /\ s.recvkexinit = FALSE
                             /\ s.sentnewkeys = FALSE
           /\ Met(g, e, s) => s.sentkexinit = TRUE /\ s.recvkexinit = TRUE
                              /\ s.sentnewkeys = FALSE
           /\ Switched(e, s) => s.sentkexinit = TRUE /\ s.recvkexinit = TRUE
                                /\ s.sentnewkeys = TRUE
BY DEF Idle, Begun, Met, Switched

\* The client's part of an exchange it begins.
LEMMA TalkClientBegins ==
    ASSUME NEW g, NEW c, NEW s, NEW ka, NEW kb, NEW x, Talk(g, c, s, ka, kb),
           Idle("C", c), c.authdone, Begun("C", x), x.keys = c.keys,
           x.donefirstkex = c.donefirstkex
    PROVE  Talk(g, x, s, Append(Append(ka, KI("C", x.transkexinit)), First(x)), kb)
<1>. DEFINE p == KI("C", x.transkexinit)
            q == First(x)
            w == Append(Append(ka, p), q)
<1>1. c.donefirstkex = TRUE /\ c.sentkexinit = FALSE
  BY DEF Idle
<1>2. /\ Begun("C", c) => FALSE
      /\ Met(g, "C", c) => FALSE
      /\ Switched("C", c) => FALSE
  BY <1>1, Distinct
<1>3. /\ Append(Append(<<>>, p), q) = <<p, q>>
      /\ \A r : Append(Append(<<r>>, p), q) = <<r, p, q>>
  BY Grown
<1>4. ASSUME Resting(c, s, ka, kb) PROVE Talk(g, x, s, w, kb)
  <2>1. ClientOpens(x, s, w, kb)
    BY <1>1, <1>3, <1>4 DEF Resting, ClientOpens
  <2>. QED  BY <2>1 DEF Talk
<1>5. ASSUME ServerOpens(c, s, ka, kb) PROVE Talk(g, x, s, w, kb)
  <2>1. BothOpen(x, s, w, kb)
    BY <1>1, <1>3, <1>5 DEF ServerOpens, BothOpen
  <2>. QED  BY <2>1 DEF Talk
<1>6. ASSUME ClientDone(c, s, ka, kb) PROVE Talk(g, x, s, w, kb)
  <2>1. ClientReopens(x, s, w, kb)
    BY <1>1, <1>3, <1>6 DEF ClientDone, ClientReopens, Paired
  <2>. QED  BY <2>1 DEF Talk
<1>7. \/ Resting(c, s, ka, kb) \/ ServerOpens(c, s, ka, kb)
      \/ ClientDone(c, s, ka, kb)
  BY <1>2 DEF Talk, ClientOpens, BothOpen, ServerMet, ClientMet, BothMet,
       ServerAhead, Replied, BothSwitched, ServerDone, ClientReopens, ServerReopens
<1>. HIDE DEF w
<1>8. Talk(g, x, s, w, kb)
  BY <1>4, <1>5, <1>6, <1>7
<1>. QED  BY <1>8 DEF w

LEMMA TalkServerBegins ==
    ASSUME NEW g, NEW c, NEW s, NEW ka, NEW kb, NEW x, Talk(g, c, s, ka, kb),
           Idle("S", s), s.authdone, Begun("S", x), x.keys = s.keys,
           x.donefirstkex = s.donefirstkex
    PROVE  Talk(g, c, x, ka, Append(kb, KI("S", x.transkexinit)))
<1>. DEFINE p == KI("S", x.transkexinit)
            w == Append(kb, p)
<1>1. s.donefirstkex = TRUE /\ s.sentkexinit = FALSE
  BY DEF Idle
<1>2. /\ Begun("S", s) => FALSE
      /\ Met(g, "S", s) => FALSE
      /\ Switched("S", s) => FALSE
  BY <1>1, Distinct
<1>3. /\ Append(<<>>, p) = <<p>>
      /\ \A r : Append(<<r>>, p) = <<r, p>>
  BY Grown
<1>4. ASSUME Resting(c, s, ka, kb) PROVE Talk(g, c, x, ka, w)
  <2>1. ServerOpens(c, x, ka, w)
    BY <1>1, <1>3, <1>4 DEF Resting, ServerOpens
  <2>. QED  BY <2>1 DEF Talk
<1>5. ASSUME ClientOpens(c, s, ka, kb) PROVE Talk(g, c, x, ka, w)
  <2>1. BothOpen(c, x, ka, w)
    BY <1>1, <1>3, <1>5 DEF ClientOpens, BothOpen
  <2>. QED  BY <2>1 DEF Talk
<1>6. ASSUME ServerDone(c, s, ka, kb) PROVE Talk(g, c, x, ka, w)
  <2>1. ServerReopens(c, x, ka, w)
    BY <1>1, <1>3, <1>6 DEF ServerDone, ServerReopens, Paired
  <2>. QED  BY <2>1 DEF Talk
<1>7. \/ Resting(c, s, ka, kb) \/ ClientOpens(c, s, ka, kb)
      \/ ServerDone(c, s, ka, kb)
  BY <1>2 DEF Talk, ServerOpens, BothOpen, ServerMet, ClientMet, BothMet,
       ServerAhead, Replied, BothSwitched, ClientDone, ClientReopens, ServerReopens
<1>. HIDE DEF w
<1>8. Talk(g, c, x, ka, w)
  BY <1>4, <1>5, <1>6, <1>7
<1>. QED  BY <1>8 DEF w

LEMMA BegunSender ==
    ASSUME NEW s, NEW x,
           But(s, x, Queues \cup {"drawn", "transkexinit", "dataallowed",
                                  "sentkexinit", "newkeys", "param"})
    PROVE  /\ x.keys = s.keys /\ x.authdone = s.authdone
           /\ x.donefirstkex = s.donefirstkex /\ x.exited = s.exited
           /\ x.requirenext = s.requirenext /\ x.lastpacket = s.lastpacket
           /\ AsSender(s, x) /\ AsReader(s, x)
BY DEF But, Names, Queues, AsSender, AsReader

LEMMA ClientBegins ==
    ASSUME NEW g, NEW c, NEW s, NEW a, NEW b, NEW m,
           Linked(g, c, s, a, b, m), Idle("C", c), c.authdone
    PROVE  /\ ClientAdds(c.writequeue, g, SendKexinit("C", c), s, a, b, m)
           /\ Begun("C", SendKexinit("C", c))
<1>. DEFINE x == SendKexinit("C", c)
<1>. PICK ka, kb, ua, ub : Joined(g, c, s, a, b, m, ka, kb, ua, ub)
  BY DEF Linked
<1>1. /\ Writer(a, ka, ua, c, s) /\ Queued(c) /\ IsSeq(a)
  BY JoinedFacts DEF Joined
<1>2. /\ But(c, x, Queues \cup {"drawn", "transkexinit", "dataallowed",
                                "sentkexinit", "newkeys", "param"})
      /\ Begun("C", x) /\ x.replyq = c.replyq
      /\ \E p : /\ Stamped(p, c, "KEXINIT", KI("C", x.transkexinit).b)
                /\ \E q : /\ Stamped(q, c, "KEXDH_INIT", First(x).b)
                          /\ x.writequeue = Append(Append(c.writequeue, p), q)
  <2>1. "C" \in End
    BY DEF End
  <2>. QED  BY <2>1, KexinitForm
<1>. HIDE DEF x
<1>3. PICK p, q : /\ Stamped(p, c, "KEXINIT", KI("C", x.transkexinit).b)
                  /\ Stamped(q, c, "KEXDH_INIT", First(x).b)
                  /\ x.writequeue = Append(Append(c.writequeue, p), q)
  BY <1>2
<1>. DEFINE k1 == KI("C", x.transkexinit)
            k2 == First(x)
            la == Append(Append(ka, k1), k2)
            wa == Append(Append(a, p), q)
            r  == <<p>> \o <<q>>
<1>4. /\ x.keys = c.keys /\ x.authdone = c.authdone /\ x.exited = c.exited
      /\ x.donefirstkex = c.donefirstkex /\ AsSender(c, x) /\ AsReader(c, x)
  BY <1>2, BegunSender
<1>5. Talk(g, x, s, la, kb)
  BY <1>2, <1>4, TalkClientBegins DEF Joined
<1>6. Line(wa, la, ua, x, s)
  <2>1. Line(Append(a, p), Append(ka, k1), ua, c, s)
    BY <1>1, <1>3, KexPackets, LineKexSent
  <2>2. Writer(Append(a, p), Append(ka, k1), ua, c, s)
    <3>1. IsSeq(Append(a, p)) /\ IsSeq(Append(ka, k1))
      BY <1>1, AppendOne DEF Writer
    <3>2. Covered(c, s, Append(ka, k1))
      <4>1. \/ s.requirenext = "none"
            \/ NoNewkeys(ka) = FALSE
        BY <1>1 DEF Writer, Covered, NoNewkeys, Idle
      <4>2. IsSeq(ka)
        BY <1>1 DEF Writer
      <4>3. PICK n : n = Len(ka) /\ n \in Nat
        BY <4>2, Length
      <4>4. /\ Len(Append(ka, k1)) = n + 1
            /\ \A i \in 1..n : Append(ka, k1)[i] = ka[i]
        BY <4>2, <4>3, AppendOne
      <4>5. 1..n \subseteq 1..n + 1
        BY <4>3
      <4>. QED  BY <4>1, <4>3, <4>4, <4>5 DEF Covered, NoNewkeys
    <3>. QED  BY <2>1, <3>1, <3>2, <1>1 DEF Writer
  <2>3. x.keys.trans = c.keys.trans
    BY <1>4
  <2>. QED  BY <2>2, <2>3, <1>3, <1>4, KexPackets, LineKexSent
<1>7. Line(b, kb, ub, s, x)
  BY <1>4, ReaderSame, LineSame DEF Joined
<1>8. /\ IsSeq(r) /\ wa = a \o r /\ x.writequeue = c.writequeue \o r
      /\ IsSeq(wa) /\ Queued(x)
  <2>1. /\ wa = a \o r /\ IsSeq(r) /\ IsSeq(wa)
    BY <1>1, TwoMore
  <2>2. PICK w : w = c.writequeue
    OBVIOUS
  <2>3. IsSeq(w) /\ x.writequeue = Append(Append(w, p), q)
    BY <2>2, <1>1, <1>3 DEF Queued
  <2>4. x.writequeue = w \o r /\ IsSeq(x.writequeue)
    BY <2>3, TwoMore
  <2>. QED  BY <2>1, <2>2, <2>4, <1>1, <1>2 DEF Queued
<1>. HIDE DEF la, wa, r
<1>9. Both(x, s, m, wa)
  BY <1>2, <1>4 DEF Joined, Both, Waiting
<1>10. Linked(g, x, s, wa, b, m)
  BY <1>5, <1>6, <1>7, <1>8, <1>9 DEF Joined, Linked
<1>. QED  BY <1>2, <1>8, <1>10 DEF ClientAdds, x

LEMMA ServerBegins ==
    ASSUME NEW g, NEW c, NEW s, NEW a, NEW b, NEW m,
           Linked(g, c, s, a, b, m), Idle("S", s), s.authdone
    PROVE  /\ ServerAdds(s.writequeue, g, c, SendKexinit("S", s), a, b, m)
           /\ Begun("S", SendKexinit("S", s))
<1>. DEFINE x == SendKexinit("S", s)
<1>. PICK ka, kb, ua, ub : Joined(g, c, s, a, b, m, ka, kb, ua, ub)
  BY DEF Linked
<1>1. /\ Writer(b, kb, ub, s, c) /\ Queued(s) /\ IsSeq(b)
  BY JoinedFacts DEF Joined
<1>2. /\ But(s, x, Queues \cup {"drawn", "transkexinit", "dataallowed",
                                "sentkexinit", "newkeys", "param"})
      /\ Begun("S", x) /\ x.replyq = s.replyq
      /\ \E p : /\ Stamped(p, s, "KEXINIT", KI("S", x.transkexinit).b)
                /\ x.writequeue = Append(s.writequeue, p)
  <2>1. "S" \in End
    BY DEF End
  <2>. QED  BY <2>1, KexinitForm
<1>. HIDE DEF x
<1>3. PICK p : /\ Stamped(p, s, "KEXINIT", KI("S", x.transkexinit).b)
               /\ x.writequeue = Append(s.writequeue, p)
  BY <1>2
<1>. DEFINE k1 == KI("S", x.transkexinit)
            lb == Append(kb, k1)
            wb == Append(b, p)
<1>4. /\ x.keys = s.keys /\ x.authdone = s.authdone /\ x.exited = s.exited
      /\ x.donefirstkex = s.donefirstkex /\ AsSender(s, x) /\ AsReader(s, x)
  BY <1>2, BegunSender
<1>5. Talk(g, c, x, ka, lb)
  BY <1>2, <1>4, TalkServerBegins DEF Joined
<1>6. Line(wb, lb, ub, x, c)
  <2>1. x.keys.trans = s.keys.trans
    BY <1>4
  <2>2. k1 = [t |-> "KEXINIT", b |-> k1.b] /\ "KEXINIT" \in KexType
    BY KexPackets
  <2>3. Stamped(p, s, "KEXINIT", k1.b)
    BY <1>3
  <2>. HIDE DEF k1
  <2>4. Line(Append(b, p), Append(kb, [t |-> "KEXINIT", b |-> k1.b]), ub, x, c)
    BY <2>1, <2>2, <2>3, <1>1, <1>4, LineKexSent
  <2>. QED  BY <2>2, <2>4
<1>7. Line(a, ka, ua, c, x)
  BY <1>4, ReaderSame, LineSame DEF Joined
<1>8. /\ IsSeq(<<p>>) /\ wb = b \o <<p>> /\ x.writequeue = s.writequeue \o <<p>>
      /\ IsSeq(wb) /\ Queued(x)
  <2>1. PICK w : w = s.writequeue
    OBVIOUS
  <2>2. IsSeq(w) /\ x.writequeue = Append(w, p)
    BY <2>1, <1>1, <1>3 DEF Queued
  <2>3. x.writequeue = w \o <<p>> /\ IsSeq(x.writequeue) /\ IsSeq(<<p>>)
    BY <2>2, OneMore, AppendOne
  <2>4. wb = b \o <<p>> /\ IsSeq(wb)
    BY <1>1, OneMore, AppendOne
  <2>. QED  BY <2>1, <2>3, <2>4, <1>1, <1>2 DEF Queued
<1>. HIDE DEF lb, wb
<1>9. Both(c, x, m, a)
  BY <1>2, <1>4 DEF Joined, Both, Waiting
<1>10. Dialog(m, x.authdone, ua, ub)
  BY <1>4 DEF Joined
<1>11. Linked(g, c, x, a, wb, m)
  BY <1>5, <1>6, <1>7, <1>8, <1>9, <1>10 DEF Joined, Linked
<1>. QED  BY <1>2, <1>8, <1>11 DEF ServerAdds, x

---------------------------------------------------------------------------
(* A packet of the exchange is read *)

LEMMA HeadSays ==
    ASSUME NEW g, NEW c, NEW s, NEW a, NEW b, NEW m, NEW ka, NEW kb, NEW ua,
           NEW ub, Joined(g, c, s, a, b, m, ka, kb, ua, ub)
    PROVE  /\ a # <<>> /\ Head(a).t \in KexType =>
                /\ ka # <<>> /\ Head(ka).t = Head(a).t
                /\ Head(ka).b = Head(a).b
           /\ b # <<>> /\ Head(b).t \in KexType =>
                /\ kb # <<>> /\ Head(kb).t = Head(b).t
                /\ Head(kb).b = Head(b).b
           /\ a # <<>> /\ Head(a).t \in Dialogue =>
                ua # <<>> /\ Head(ua) = Plain(Head(a))
           /\ b # <<>> /\ Head(b).t \in Dialogue =>
                ub # <<>> /\ Head(ub) = Plain(Head(b))
<1>1. /\ IsSeq(a) /\ IsSeq(b) /\ IsSeq(ka) /\ IsSeq(kb)
      /\ IsSeq(ua) /\ IsSeq(ub)
  BY JoinedFacts DEF Joined, Talking
<1>2. /\ Word(KexType, a, ka) /\ Word(KexType, b, kb)
      /\ Word(Dialogue, a, ua) /\ Word(Dialogue, b, ub)
  BY DEF Joined, Line
<1>3. a # <<>> /\ Head(a).t \in KexType => ka # <<>> /\ Head(ka) = Plain(Head(a))
  BY <1>1, <1>2, WordRead
<1>4. b # <<>> /\ Head(b).t \in KexType => kb # <<>> /\ Head(kb) = Plain(Head(b))
  BY <1>1, <1>2, WordRead
<1>5. a # <<>> /\ Head(a).t \in Dialogue => ua # <<>> /\ Head(ua) = Plain(Head(a))
  BY <1>1, <1>2, WordRead
<1>6. b # <<>> /\ Head(b).t \in Dialogue => ub # <<>> /\ Head(ub) = Plain(Head(b))
  BY <1>1, <1>2, WordRead
<1>7. /\ Plain(Head(a)).t = Head(a).t /\ Plain(Head(a)).b = Head(a).b
      /\ Plain(Head(b)).t = Head(b).t /\ Plain(Head(b)).b = Head(b).b
  BY PlainType
<1>. QED  BY <1>3, <1>4, <1>5, <1>6, <1>7

\* Behind a KEXINIT there is nothing of the layers above but behind a NEWKEYS.
LEMMA QuietTail ==
    ASSUME NEW w, IsSeq(w), w # <<>>, Quiet(w), Head(w).t = "KEXINIT"
    PROVE  \A i \in 1..Len(Tail(w)) :
             Tail(w)[i].t \in UpperType => Before(Tail(w), "NEWKEYS", i)
<1>. DEFINE v == Tail(w)
<1>1. PICK n : n = Len(v) /\ n \in Nat
  BY Rest, Length
<1>2. /\ Len(w) = n + 1 /\ w[1].t = "KEXINIT"
      /\ \A i \in 1..n : v[i] = w[i + 1]
  <2>1. /\ Len(v) = Len(w) - 1 /\ Head(w) = w[1]
        /\ \A i \in 1..Len(v) : v[i] = w[i + 1]
    BY Rest
  <2>2. Len(w) \in Nat
    BY Length
  <2>. QED  BY <2>1, <2>2, <1>1
<1>. HIDE DEF v
<1>3. ASSUME NEW i \in 1..n, v[i].t \in UpperType
      PROVE  Before(v, "NEWKEYS", i)
  <2>1. i + 1 \in 1..n + 1 /\ 1 \in 1..n + 1 /\ 1 < i + 1
    BY <1>1
  <2>2. IsUpper(w[i + 1])
    BY <1>2, <1>3 DEF IsUpper
  <2>3. PICK k \in 1..i + 1 : w[k].t = "NEWKEYS"
    BY <2>1, <2>2, <1>2 DEF Quiet
  <2>4. k # 1 /\ k # i + 1
    BY <2>2, <2>3, <1>2, Types DEF IsUpper
  <2>5. PICK j : j = k - 1
    OBVIOUS
  <2>6. j \in 1..i - 1 /\ j \in 1..n /\ j + 1 = k
    BY <2>4, <2>5, <1>1
  <2>7. v[j].t = "NEWKEYS"
    BY <2>3, <2>6, <1>2
  <2>. QED  BY <2>6, <2>7 DEF Before
<1>. QED  BY <1>1, <1>3 DEF v

NoKexinit(ks) == \A j \in 1..Len(ks) : ks[j].t # "KEXINIT"

LEMMA WordLacks ==
    ASSUME NEW v, NEW l, IsSeq(v), IsSeq(l), Word(KexType, v, l)
    PROVE  /\ NoNewkeys(l) => ~Has(v, "NEWKEYS")
           /\ NoKexinit(l) => ~Has(v, "KEXINIT")
<1>1. \A i \in 1..Len(v) : v[i].t \in KexType =>
        \E j \in 1..Len(l) : l[j].t = v[i].t
  BY WordMembers
<1>2. "NEWKEYS" \in KexType /\ "KEXINIT" \in KexType
  BY Types
<1>. QED  BY <1>1, <1>2 DEF NoNewkeys, NoKexinit, Has

\* LineRead for a packet of the exchange.
LEMMA LineKexRead ==
    ASSUME NEW w, NEW ks, NEW us, NEW s, NEW r, NEW x,
           IsSeq(w), IsSeq(ks), IsSeq(us), Line(w, ks, us, s, r), w # <<>>,
           NEW t \in KexType, Head(w).t = t, x.authdone = r.authdone,
           \/ t # "NEWKEYS" /\ x.keys.recv = r.keys.recv
           \/ x.keys.recv = s.keys.trans /\ NoNewkeys(Tail(ks)),
           \/ x.requirenext = "none"
           \/ r.requirenext # "none" /\ t # "NEWKEYS"
           \/ t = "KEXINIT" /\ Quiet(w),
           \/ x.donefirstkex => r.donefirstkex
           \/ NoKexinit(Tail(ks))
    PROVE  Line(Tail(w), Tail(ks), us, s, x)
<1>1. /\ t \notin Dialogue /\ t # SUCCESS /\ "NEWKEYS" \in KexType
      /\ "KEXINIT" \in KexType
  BY Types
<1>2. Word(KexType, Tail(w), Tail(ks)) /\ ks # <<>>
  BY WordRead DEF Line
<1>3. IsSeq(Tail(w)) /\ IsSeq(Tail(ks))
  BY <1>2, Rest
<1>4. Word(KexType, Tail(w), Tail(ks))
  BY <1>2
<1>5. NoNewkeys(Tail(ks)) => ~Has(Tail(w), "NEWKEYS")
  BY <1>3, <1>4, WordLacks
<1>6. NoKexinit(Tail(ks)) => ~Has(Tail(w), "KEXINIT")
  BY <1>3, <1>4, WordLacks
<1>7. t = "KEXINIT" /\ Quiet(w) =>
        \A i \in 1..Len(Tail(w)) :
          Tail(w)[i].t \in UpperType => Before(Tail(w), "NEWKEYS", i)
  BY QuietTail
<1>8. Line(Tail(w), IF Head(w).t \in KexType THEN Tail(ks) ELSE ks,
           IF Head(w).t \in Dialogue THEN Tail(us) ELSE us, s, x)
  <2>. DEFINE p == Head(w)
  <2>1. p.t = t
    OBVIOUS
  <2>2. p.t # "NEWKEYS" => x.keys.recv = r.keys.recv \/ x.keys.recv = s.keys.trans
    BY <2>1
  <2>3. CASE t # "NEWKEYS"
    <3>1. ~Has(w, "NEWKEYS") => s.keys.trans = r.keys.recv
      BY DEF Line
    <3>2. Has(w, "NEWKEYS") <=> Has(Tail(w), "NEWKEYS") \/ t = "NEWKEYS"
      BY ReadBefore
    <3>3. x.keys.recv = r.keys.recv
      BY <3>1, <3>2, <2>3, <1>5
    <3>. QED  BY <3>3, <2>3, <1>1, <1>6, <1>7, LineRead
  <2>4. CASE t = "NEWKEYS"
    <3>1. x.keys.recv = s.keys.trans /\ ~Has(Tail(w), "NEWKEYS")
      BY <2>4, <1>5
    <3>. QED  BY <3>1, <2>4, <1>1, <1>6, <1>7, LineRead
  <2>. QED  BY <2>3, <2>4
<1>. QED  BY <1>1, <1>8

LEMMA NatRecords ==
    ASSUME NEW h \in [c : Nat, s : Nat], NEW k, NEW n, h.c = k, h.s = n
    PROVE  /\ h = [c |-> k, s |-> n] /\ k \in Nat /\ n \in Nat
OBVIOUS

LEMMA Tails ==
    /\ \A p : Tail(<<p>>) = <<>>
    /\ \A p, q : Tail(<<p, q>>) = <<q>>
    /\ \A p, q, r : Tail(<<p, q, r>>) = <<q, r>>
    /\ \A p : Head(<<p>>) = p
    /\ \A p, q : Head(<<p, q>>) = p
    /\ \A p, q, r : Head(<<p, q, r>>) = p
BY Tuple1, Tuple2, Tuple3

\* What recv_msg_kexinit() leaves alone.
LEMMA MetFields ==
    ASSUME NEW s, NEW z, NEW y, But(s, z, {"requirenext", "lastpacket"}),
           But(z, y, {"newkeys", "ignorenext", "our_first_follows_matches",
                      "kexhash", "requirenext", "transkexinit", "recvkexinit"})
    PROVE  /\ AsSender(s, y) /\ y.keys = s.keys /\ y.authdone = s.authdone
           /\ y.donefirstkex = s.donefirstkex /\ y.exited = s.exited
           /\ y.replyq = s.replyq /\ y.writequeue = s.writequeue
           /\ y.param = s.param /\ y.kex_state = s.kex_state
           /\ y.sentnewkeys = s.sentnewkeys
BY DEF But, Names, AsSender

\* KexinitMet as one formula.
MetBy(g, e, s, z, y, k) ==
    /\ But(z, y, {"newkeys", "ignorenext", "our_first_follows_matches",
                  "kexhash", "requirenext", "transkexinit", "recvkexinit"})
    /\ Met(g, e, y) /\ y.ignorenext = (e = "S" /\ Wrong(g))
    /\ y.kexhash = IF e = "C" THEN [c |-> s.transkexinit, s |-> k]
                   ELSE [c |-> k, s |-> s.transkexinit]

LEMMA KexinitMets ==
    ASSUME NEW e \in End, NEW g, NEW s, NEW z, NEW k \in Nat, Begun(e, s),
           But(s, z, {"requirenext", "lastpacket"})
    PROVE  MetBy(g, e, s, z, RecvKexinit(e, z, KI(Peer(e), k).b, g), k)
BY KexinitMet DEF MetBy

LEMMA TalkServerMeets ==
    ASSUME NEW g, NEW c, NEW s, NEW ka, NEW kb, NEW y,
           \/ BothOpen(c, s, ka, kb)
           \/ ClientMet(g, c, s, ka, kb)
    PROVE  \E k \in Nat :
             /\ ka # <<>> /\ Head(ka) = KI("C", k)
             /\ Met(g, "S", y) /\ y.ignorenext = Wrong(g)
                /\ y.kexhash = [c |-> k, s |-> s.transkexinit]
                  => Talk(g, c, y, Tail(ka), kb)
<1>1. CASE BothOpen(c, s, ka, kb)
  <2>. DEFINE k == c.transkexinit
  <2>1. /\ k \in Nat /\ ka = <<KI("C", k), First(c)>> /\ Begun("C", c)
        /\ kb = <<KI("S", s.transkexinit)>>
    BY <1>1 DEF BothOpen, Begun
  <2>2. ka # <<>> /\ Head(ka) = KI("C", k) /\ Tail(ka) = <<First(c)>>
    BY <2>1, Tails
  <2>. HIDE DEF k
  <2>3. ASSUME Met(g, "S", y), y.ignorenext = Wrong(g),
               y.kexhash = [c |-> k, s |-> s.transkexinit]
        PROVE  Talk(g, c, y, Tail(ka), kb)
    <3>1. Unread(g, y) /\ y.kexhash.c = k /\ y.kexhash.s = s.transkexinit
      BY <2>3 DEF Unread
    <3>2. ServerMet(g, c, y, Tail(ka), kb)
      BY <2>1, <2>2, <2>3, <3>1 DEF ServerMet, k
    <3>. QED  BY <3>2 DEF Talk
  <2>. QED  BY <2>1, <2>2, <2>3
<1>2. CASE ClientMet(g, c, s, ka, kb)
  <2>. DEFINE k == c.kexhash.c
  <2>1. PICK x \in Nat :
         /\ ~Wrong(g) => x = c.param.x
         /\ ka = IF Again(g, c)
                 THEN <<KI("C", k), KD("first", x), Second(g, c)>>
                 ELSE <<KI("C", k), KD("first", x)>>
    BY <1>2 DEF ClientMet
  <2>2. /\ Met(g, "C", c) /\ c.kexhash.s = s.transkexinit /\ kb = <<>>
        /\ c.kexhash \in [c : Nat, s : Nat]
    BY <1>2 DEF ClientMet, Met
  <2>. HIDE DEF k
  <2>3. k \in Nat /\ c.kexhash = [c |-> k, s |-> s.transkexinit]
    BY <2>2, NatRecords DEF k
  <2>4. /\ ka # <<>> /\ Head(ka) = KI("C", k)
        /\ Tail(ka) = IF Again(g, c) THEN <<KD("first", x), Second(g, c)>>
                      ELSE <<KD("first", x)>>
    <3>. PICK p, q, r : p = KI("C", k) /\ q = KD("first", x) /\ r = Second(g, c)
      OBVIOUS
    <3>1. ka = IF Again(g, c) THEN <<p, q, r>> ELSE <<p, q>>
      BY <2>1
    <3>2. CASE Again(g, c)
      BY <3>1, <3>2, Tails
    <3>3. CASE ~Again(g, c)
      BY <3>1, <3>3, Tails
    <3>. QED  BY <3>2, <3>3
  <2>5. ASSUME Met(g, "S", y), y.ignorenext = Wrong(g),
               y.kexhash = [c |-> k, s |-> s.transkexinit]
        PROVE  Talk(g, c, y, Tail(ka), kb)
    <3>1. Unread(g, y) /\ c.kexhash = y.kexhash
      BY <2>3, <2>5 DEF Unread
    <3>2. BothMet(g, c, y, Tail(ka), kb)
      BY <2>1, <2>2, <2>4, <2>5, <3>1 DEF BothMet
    <3>. QED  BY <3>2 DEF Talk
  <2>. QED  BY <2>3, <2>4, <2>5
<1>. QED  BY <1>1, <1>2

LEMMA ServerMeets ==
    ASSUME NEW g, NEW c, NEW s, NEW a, NEW b, NEW m, NEW z,
           Linked(g, c, s, a, b, m), Begun("S", s),
           But(s, z, {"requirenext", "lastpacket"}),
           a # <<>>, Head(a).t = "KEXINIT", Quiet(a)
    PROVE  LET y == RecvKexinit("S", z, Head(a).b, g)
           IN  /\ Linked(g, c, y, Tail(a), b, m)
               /\ y.writequeue = s.writequeue /\ y.exited = s.exited
<1>. PICK ka, kb, ua, ub : Joined(g, c, s, a, b, m, ka, kb, ua, ub)
  BY DEF Linked
<1>1. /\ Writer(a, ka, ua, c, s) /\ Writer(b, kb, ub, s, c)
      /\ Queued(c) /\ Queued(s) /\ IsSeq(a) /\ IsSeq(b)
  BY JoinedFacts DEF Joined
<1>2. "KEXINIT" \in KexType
  BY Types
<1>3. ka # <<>> /\ Head(ka).t = "KEXINIT" /\ Head(ka).b = Head(a).b
  BY <1>2, HeadSays
<1>4. BothOpen(c, s, ka, kb) \/ ClientMet(g, c, s, ka, kb)
  <2>1. \/ ClientOpens(c, s, ka, kb) \/ BothOpen(c, s, ka, kb)
        \/ ClientMet(g, c, s, ka, kb)
    BY <1>3, TalkHeads DEF Joined
  <2>2. ~ClientOpens(c, s, ka, kb)
    BY Distinct DEF ClientOpens
  <2>. QED  BY <2>1, <2>2
<1>. DEFINE y == RecvKexinit("S", z, Head(a).b, g)
<1>5. PICK k \in Nat :
             /\ ka # <<>> /\ Head(ka) = KI("C", k)
             /\ Met(g, "S", y) /\ y.ignorenext = Wrong(g)
                /\ y.kexhash = [c |-> k, s |-> s.transkexinit]
                  => Talk(g, c, y, Tail(ka), kb)
  BY <1>4, TalkServerMeets
<1>6. Head(a).b = KI("C", k).b /\ "S" \in End /\ Peer("S") = "C"
  BY <1>3, <1>5 DEF End, Peer
<1>7. /\ But(z, y, {"newkeys", "ignorenext", "our_first_follows_matches",
                    "kexhash", "requirenext", "transkexinit", "recvkexinit"})
      /\ Met(g, "S", y) /\ y.ignorenext = Wrong(g)
      /\ y.kexhash = [c |-> k, s |-> s.transkexinit]
  <2>1. Head(a).b = KI(Peer("S"), k).b
    BY <1>6
  <2>2. MetBy(g, "S", s, z, RecvKexinit("S", z, KI(Peer("S"), k).b, g), k)
    BY <1>6, KexinitMets
  <2>3. MetBy(g, "S", s, z, y, k)
    BY <2>1, <2>2
  <2>4. ("S" = "S" /\ Wrong(g)) = Wrong(g) /\ "S" # "C"
    BY DEF Wrong
  <2>. HIDE DEF y
  <2>. QED  BY <2>3, <2>4 DEF MetBy
<1>. HIDE DEF y
<1>8. Talk(g, c, y, Tail(ka), kb)
  BY <1>5, <1>7
<1>9. /\ AsSender(s, y) /\ y.keys = s.keys /\ y.authdone = s.authdone
      /\ y.donefirstkex = s.donefirstkex /\ y.exited = s.exited
      /\ y.replyq = s.replyq /\ y.writequeue = s.writequeue
  BY <1>7, MetFields
<1>10. Line(Tail(a), Tail(ka), ua, c, y)
  BY <1>1, <1>2, <1>9, LineKexRead DEF Writer
<1>11. Line(b, kb, ub, y, c)
  BY <1>9, ReaderSame, LineSame DEF Joined
<1>12. Both(c, y, m, Tail(a)) /\ Queued(y)
  <2>1. s.authdone /\ ~c.authdone => FALSE
    BY DEF Joined, Both
  <2>. QED  BY <2>1, <1>1, <1>9 DEF Joined, Both, Waiting, Queued
<1>13. IsSeq(Tail(a))
  BY <1>1, Rest
<1>14. Dialog(m, y.authdone, ua, ub)
  BY <1>9 DEF Joined
<1>15. Linked(g, c, y, Tail(a), b, m)
  BY <1>1, <1>8, <1>10, <1>11, <1>12, <1>13, <1>14 DEF Joined, Linked
<1>. QED  BY <1>9, <1>15 DEF y

---------------------------------------------------------------------------
(* What the server does with the client's value, and with its NEWKEYS *)

LEMMA AcceptedLate ==
    ASSUME NEW g, NEW c, NEW s, NEW a, NEW b, NEW m, NEW ka, NEW kb, NEW ua,
           NEW ub, Joined(g, c, s, a, b, m, ka, kb, ua, ub), s.authdone
    PROVE  c.donefirstkex
<1>1. Dialog(m, s.authdone, ua, ub) /\ Both(c, s, m, a)
  BY DEF Joined
<1>2. m.state # "STATE_NOTHING"
  BY <1>1 DEF Dialog
<1>. QED  BY <1>1, <1>2 DEF Both

\* An end reads a packet of the exchange, and adds r to what it has written.
LEMMA ServerReadsKex ==
    ASSUME NEW g, NEW c, NEW s, NEW a, NEW b, NEW m, NEW ka, NEW kb, NEW ua,
           NEW ub, Joined(g, c, s, a, b, m, ka, kb, ua, ub), a # <<>>,
           NEW y, NEW r, NEW lb, IsSeq(r), Talk(g, c, y, Tail(ka), lb),
           Line(Tail(a), Tail(ka), ua, c, y), Line(b \o r, lb, ub, y, c),
           y.authdone = s.authdone, y.exited = s.exited, y.replyq = s.replyq,
           y.writequeue = s.writequeue \o r
    PROVE  ServerAdds(s.writequeue, g, c, y, Tail(a), b, m)
<1>1. /\ Queued(c) /\ Queued(s) /\ IsSeq(a) /\ IsSeq(b) /\ Both(c, s, m, a)
      /\ Dialog(m, y.authdone, ua, ub)
  BY DEF Joined
<1>2. IsSeq(Tail(a)) /\ IsSeq(b \o r)
  BY <1>1, Rest, Concat
<1>3. Queued(y)
  <2>1. PICK q : q = s.writequeue
    OBVIOUS
  <2>2. IsSeq(q \o r)
    BY <2>1, <1>1, Concat DEF Queued
  <2>. QED  BY <2>1, <2>2, <1>1 DEF Queued
<1>4. Both(c, y, m, Tail(a))
  <2>1. ~(s.authdone /\ ~c.authdone)
    BY <1>1 DEF Both
  <2>2. Waiting(y) /\ Waiting(c)
    BY <1>1 DEF Both, Waiting
  <2>. QED  BY <2>1, <2>2, <1>1 DEF Both
<1>5. Linked(g, c, y, Tail(a), b \o r, m)
  BY <1>1, <1>2, <1>3, <1>4 DEF Joined, Linked
<1>. QED  BY <1>5 DEF ServerAdds

LEMMA ClientReadsKex ==
    ASSUME NEW g, NEW c, NEW s, NEW a, NEW b, NEW m, NEW ka, NEW kb, NEW ua,
           NEW ub, Joined(g, c, s, a, b, m, ka, kb, ua, ub), b # <<>>,
           NEW y, NEW r, NEW la, IsSeq(r), Talk(g, y, s, la, Tail(kb)),
           Line(Tail(b), Tail(kb), ub, s, y), Line(a \o r, la, ua, y, s),
           y.authdone = c.authdone, y.exited = c.exited, y.replyq = c.replyq,
           c.donefirstkex => y.donefirstkex,
           s.authdone /\ ~c.authdone => r = <<>>,
           y.writequeue = c.writequeue \o r
    PROVE  ClientAdds(c.writequeue, g, y, s, a, Tail(b), m)
<1>1. /\ Queued(c) /\ Queued(s) /\ IsSeq(a) /\ IsSeq(b) /\ Both(c, s, m, a)
      /\ Dialog(m, s.authdone, ua, ub)
  BY DEF Joined
<1>2. IsSeq(Tail(b)) /\ IsSeq(a \o r)
  BY <1>1, Rest, Concat
<1>3. Queued(y)
  <2>1. PICK q : q = c.writequeue
    OBVIOUS
  <2>2. IsSeq(q \o r)
    BY <2>1, <1>1, Concat DEF Queued
  <2>. QED  BY <2>1, <2>2, <1>1 DEF Queued
<1>4. Both(y, s, m, a \o r)
  <2>1. s.authdone /\ ~c.authdone => a \o r = <<>>
    <3>1. s.authdone /\ ~c.authdone => a = <<>> /\ r = <<>>
      BY <1>1 DEF Both
    <3>2. <<>> \o <<>> = <<>>
      BY Empty, Concat
    <3>. QED  BY <3>1, <3>2
  <2>2. Waiting(y) /\ Waiting(s)
    BY <1>1 DEF Both, Waiting
  <2>. QED  BY <2>1, <2>2, <1>1 DEF Both
<1>5. Linked(g, y, s, a \o r, Tail(b), m)
  BY <1>1, <1>2, <1>3, <1>4 DEF Joined, Linked
<1>. QED  BY <1>5 DEF ClientAdds

---------------------------------------------------------------------------

LEMMA MetIgnoring ==
    ASSUME NEW g, NEW s, NEW y, Met(g, "S", s), y.ignorenext = FALSE,
           But(s, y, {"lastpacket", "ignorenext"})
    PROVE  /\ Met(g, "S", y) /\ y.kexhash = s.kexhash /\ y.keys = s.keys
           /\ y.authdone = s.authdone /\ y.exited = s.exited
           /\ y.replyq = s.replyq /\ y.writequeue = s.writequeue
           /\ y.donefirstkex = s.donefirstkex /\ AsSender(s, y) /\ AsReader(s, y)
<1>1. /\ DOMAIN y = Names
      /\ y.sentkexinit = s.sentkexinit /\ y.recvkexinit = s.recvkexinit
      /\ y.sentnewkeys = s.sentnewkeys /\ y.recvnewkeys = s.recvnewkeys
      /\ y.donefirstkex = s.donefirstkex /\ y.authdone = s.authdone
      /\ y.our_first_follows_matches = s.our_first_follows_matches
      /\ y.dataallowed = s.dataallowed /\ y.requirenext = s.requirenext
      /\ y.kexhash = s.kexhash /\ y.newkeys = s.newkeys
      /\ y.keys = s.keys /\ y.kex_state = s.kex_state /\ y.drawn = s.drawn
      /\ y.exited = s.exited /\ y.replyq = s.replyq
      /\ y.writequeue = s.writequeue
  BY DEF But, Names
<1>2. Met(g, "S", y)
  BY <1>1 DEF Met, Formed, Keyed
<1>. QED  BY <1>1, <1>2 DEF AsSender, AsReader

LEMMA TalkServerIgnores ==
    ASSUME NEW g, NEW c, NEW s, NEW ka, NEW kb, NEW y,
           ServerMet(g, c, s, ka, kb) \/ BothMet(g, c, s, ka, kb),
           s.ignorenext, y.ignorenext = FALSE, Met(g, "S", y),
           y.kexhash = s.kexhash
    PROVE  Talk(g, c, y, Tail(ka), kb)
<1>1. Met(g, "S", s) /\ Wrong(g) /\ Unread(g, s) /\ ~Unread(g, y)
  BY DEF ServerMet, BothMet, Met, Unread
<1>2. CASE ServerMet(g, c, s, ka, kb)
  <2>1. ka = <<First(c)>>
    BY <1>1, <1>2 DEF ServerMet
  <2>2. Tail(ka) = <<>>
    BY <2>1, Tails
  <2>3. ServerMet(g, c, y, Tail(ka), kb)
    BY <2>2, <1>1, <1>2 DEF ServerMet
  <2>. QED  BY <2>3 DEF Talk
<1>3. CASE BothMet(g, c, s, ka, kb)
  <2>1. PICK x \in Nat :
          ka = IF Again(g, c) THEN <<KD("first", x), Second(g, c)>>
               ELSE <<KD("first", x)>>
    BY <1>1, <1>3 DEF BothMet
  <2>2. Tail(ka) = IF Again(g, c) THEN <<Second(g, c)>> ELSE <<>>
    <3>. PICK p, q : p = KD("first", x) /\ q = Second(g, c)
      OBVIOUS
    <3>1. ka = IF Again(g, c) THEN <<p, q>> ELSE <<p>>
      BY <2>1
    <3>. QED  BY <3>1, Tails
  <2>3. BothMet(g, c, y, Tail(ka), kb)
    BY <2>2, <1>1, <1>3 DEF BothMet
  <2>. QED  BY <2>3 DEF Talk
<1>. QED  BY <1>2, <1>3

LEMMA ServerIgnores ==
    ASSUME NEW g, NEW c, NEW s, NEW a, NEW b, NEW m, NEW y,
           Linked(g, c, s, a, b, m), Met(g, "S", s), s.ignorenext,
           But(s, y, {"lastpacket", "ignorenext"}), y.ignorenext = FALSE,
           a # <<>>, Head(a).t = "KEXDH_INIT"
    PROVE  ServerAdds(s.writequeue, g, c, y, Tail(a), b, m)
<1>. PICK ka, kb, ua, ub : Joined(g, c, s, a, b, m, ka, kb, ua, ub)
  BY DEF Linked
<1>1. /\ Writer(a, ka, ua, c, s) /\ IsSeq(a) /\ IsSeq(b)
      /\ Queued(s)
  BY JoinedFacts DEF Joined
<1>2. "KEXDH_INIT" \in KexType
  BY KexPackets
<1>3. ka # <<>> /\ Head(ka).t = "KEXDH_INIT"
  BY <1>2, HeadSays
<1>4. ServerMet(g, c, s, ka, kb) \/ BothMet(g, c, s, ka, kb)
  BY <1>3, TalkHeads DEF Joined
<1>5. /\ Met(g, "S", y) /\ y.kexhash = s.kexhash /\ y.keys = s.keys
      /\ y.authdone = s.authdone /\ y.exited = s.exited
      /\ y.replyq = s.replyq /\ y.writequeue = s.writequeue
      /\ y.donefirstkex = s.donefirstkex /\ AsSender(s, y) /\ AsReader(s, y)
  BY MetIgnoring
<1>6. Talk(g, c, y, Tail(ka), kb)
  BY <1>4, <1>5, TalkServerIgnores
<1>7. Line(Tail(a), Tail(ka), ua, c, y)
  <2>1. s.requirenext # "none"
    BY DEF Met
  <2>. QED  BY <2>1, <1>1, <1>2, <1>5, LineKexRead DEF Writer
<1>8. Line(b, kb, ub, y, c)
  BY <1>5, ReaderSame, LineSame DEF Joined
<1>9. b \o <<>> = b /\ s.writequeue \o <<>> = s.writequeue /\ IsSeq(<<>>)
  BY <1>1, Empty, Concat DEF Queued
<1>. QED  BY <1>5, <1>6, <1>7, <1>8, <1>9, ServerReadsKex

---------------------------------------------------------------------------

LEMMA NoKexInits ==
    /\ NoKexinit(<<>>) /\ NoNewkeys(<<>>)
    /\ \A p : p.t # "KEXINIT" => NoKexinit(<<p>>)
    /\ \A p : p.t # "NEWKEYS" => NoNewkeys(<<p>>)
    /\ \A p, q : p.t # "NEWKEYS" /\ q.t # "NEWKEYS" => NoNewkeys(<<p, q>>)
<1>1. NoKexinit(<<>>) /\ NoNewkeys(<<>>)
  BY Empty, Upto DEF NoKexinit, NoNewkeys
<1>2. \A p : p.t # "KEXINIT" => NoKexinit(<<p>>)
  BY Tuple1, Upto DEF NoKexinit
<1>3. \A p : p.t # "NEWKEYS" => NoNewkeys(<<p>>)
  BY Tuple1, Upto DEF NoNewkeys
<1>4. \A p, q : p.t # "NEWKEYS" /\ q.t # "NEWKEYS" => NoNewkeys(<<p, q>>)
  BY Tuple2, Upto DEF NoNewkeys
<1>. QED  BY <1>1, <1>2, <1>3, <1>4

\* The client's value that the server takes, and where its answer leads.
Took(g, s, y, v) ==
    /\ Switched("S", y)
    /\ y.keys.trans = [c |-> s.kexhash.c, s |-> s.kexhash.s, x |-> v,
                       y |-> y.drawn]

LEMMA TalkServerReplies ==
    ASSUME NEW g, NEW c, NEW s, NEW ka, NEW kb, NEW y, ka # <<>>,
           ServerMet(g, c, s, ka, kb) \/ BothMet(g, c, s, ka, kb),
           ~s.ignorenext
    PROVE  /\ Tail(ka) = <<>> /\ NoNewkeys(Append(kb, KR(y.keys.trans)))
           /\ \E v \in Nat :
                /\ Head(ka) = KD(AgreedAlgo(g), v)
                /\ Took(g, s, y, v) =>
                     Talk(g, c, y, <<>>, Append(Append(kb, KR(y.keys.trans)), KN))
<1>. DEFINE p == KR(y.keys.trans)
            lb == Append(Append(kb, p), KN)
<1>1. /\ ~Wrong(g) => AgreedAlgo(g) = "first"
      /\ Unread(g, s) = ~Wrong(g)
  BY DEF AgreedAlgo, Wrong, Unread
<1>2. p.t # "NEWKEYS" /\ \A k : KI("S", k).t # "NEWKEYS"
  BY Saying
<1>3. CASE ServerMet(g, c, s, ka, kb)
  <2>1. /\ Begun("C", c) /\ Met(g, "S", s) /\ s.kexhash.c = c.transkexinit
        /\ ka = (IF Unread(g, s) THEN <<First(c)>> ELSE <<>>)
        /\ kb = <<KI("S", s.kexhash.s)>>
    BY <1>3 DEF ServerMet
  <2>2. ~Wrong(g) /\ ka = <<First(c)>>
    BY <2>1, <1>1
  <2>3. Tail(ka) = <<>> /\ Head(ka) = First(c)
    BY <2>2, Tails
  <2>4. c.param.x \in Nat /\ First(c) = KD(AgreedAlgo(g), c.param.x)
    BY <2>1, <2>2, <1>1 DEF Begun, Params, First
  <2>5. /\ Append(kb, p) = <<KI("S", s.kexhash.s), p>>
        /\ lb = <<KI("S", s.kexhash.s), p, KN>>
    <3>. PICK i : i = KI("S", s.kexhash.s)
      OBVIOUS
    <3>. QED  BY <2>1, Grown, Zenon
  <2>6. NoNewkeys(Append(kb, p))
    <3>. HIDE DEF p, lb
    <3>. QED  BY <2>5, <1>2, NoKexInits
  <2>7. ASSUME Took(g, s, y, c.param.x) PROVE Talk(g, c, y, <<>>, lb)
    <3>1. /\ Switched("S", y) /\ y.keys.trans.c = s.kexhash.c
          /\ y.keys.trans.s = s.kexhash.s /\ y.keys.trans.x = c.param.x
      BY <2>7 DEF Took
    <3>. HIDE DEF lb
    <3>2. ServerAhead(g, c, y, <<>>, lb)
      BY <3>1, <2>1, <2>2, <2>5 DEF ServerAhead
    <3>. QED  BY <3>2 DEF Talk
  <2>. QED  BY <2>3, <2>4, <2>6, <2>7
<1>4. CASE BothMet(g, c, s, ka, kb)
  <2>1. PICK x \in Nat :
         /\ ~Wrong(g) => x = c.param.x
         /\ ka = IF Unread(g, s)
                 THEN IF Again(g, c) THEN <<KD("first", x), Second(g, c)>>
                      ELSE <<KD("first", x)>>
                 ELSE IF Again(g, c) THEN <<Second(g, c)>> ELSE <<>>
    BY <1>4 DEF BothMet
  <2>2. /\ Met(g, "C", c) /\ Met(g, "S", s) /\ c.kexhash = s.kexhash
        /\ kb = <<>>
    BY <1>4 DEF BothMet
  <2>3. /\ ka = <<KD(AgreedAlgo(g), c.param.x)>>
        /\ Wrong(g) => c.kex_state # "KEX_NOTHING"
    <3>1. CASE Wrong(g)
      BY <3>1, <2>1, <1>1 DEF Again, Second
    <3>2. CASE ~Wrong(g)
      BY <3>2, <2>1, <1>1 DEF Again
    <3>. QED  BY <3>1, <3>2
  <2>4. Tail(ka) = <<>> /\ Head(ka) = KD(AgreedAlgo(g), c.param.x)
    BY <2>3, Tails
  <2>5. c.param.x \in Nat
    BY <2>2 DEF Met, Params
  <2>6. Append(kb, p) = <<p>> /\ lb = <<p, KN>>
    BY <2>2, Grown, Zenon
  <2>7. NoNewkeys(Append(kb, p))
    <3>. HIDE DEF p, lb
    <3>. QED  BY <2>6, <1>2, NoKexInits
  <2>8. ASSUME Took(g, s, y, c.param.x) PROVE Talk(g, c, y, <<>>, lb)
    <3>1. /\ Switched("S", y) /\ y.keys.trans.c = s.kexhash.c
          /\ y.keys.trans.s = s.kexhash.s /\ y.keys.trans.x = c.param.x
      BY <2>8 DEF Took
    <3>. HIDE DEF lb
    <3>2. Replied(g, c, y, <<>>, lb)
      BY <3>1, <2>2, <2>3, <2>6 DEF Replied
    <3>. QED  BY <3>2 DEF Talk
  <2>. QED  BY <2>4, <2>5, <2>7, <2>8
<1>. QED  BY <1>3, <1>4

LEMMA AnsweredFields ==
    ASSUME NEW s, NEW y, NEW v, Answered(s, y, v)
    PROVE  /\ y.keys.recv = s.keys.recv /\ y.authdone = s.authdone
           /\ y.exited = s.exited /\ y.replyq = s.replyq
           /\ y.requirenext # "none"
<1>1. But(s, y, Queues \cup Ending \cup {"drawn", "lastpacket"})
      /\ Switched("S", y) /\ y.keys.recv = s.keys.recv /\ y.replyq = s.replyq
  BY DEF Answered
<1>2. y.authdone = s.authdone /\ y.exited = s.exited
  BY <1>1 DEF But, Names, Queues, Ending
<1>3. y.requirenext = "NEWKEYS"
  BY <1>1 DEF Switched
<1>. QED  BY <1>1, <1>2, <1>3

LEMMA ServerReplies ==
    ASSUME NEW g, NEW c, NEW s, NEW a, NEW b, NEW m, NEW z,
           Linked(g, c, s, a, b, m), Met(g, "S", s), s.ignorenext = FALSE,
           But(s, z, {"requirenext", "lastpacket"}),
           a # <<>>, Head(a).t = "KEXDH_INIT"
    PROVE  ServerAdds(s.writequeue, g, c, RecvKexdhInit(z, Head(a).b), Tail(a), b, m)
<1>. DEFINE y == RecvKexdhInit(z, Head(a).b)
<1>. PICK ka, kb, ua, ub : Joined(g, c, s, a, b, m, ka, kb, ua, ub)
  BY DEF Linked
<1>1. /\ Writer(a, ka, ua, c, s) /\ Writer(b, kb, ub, s, c) /\ Queued(s)
      /\ IsSeq(a) /\ IsSeq(b)
  BY JoinedFacts DEF Joined
<1>2. "KEXDH_INIT" \in KexType
  BY KexPackets
<1>3. ka # <<>> /\ Head(ka).t = "KEXDH_INIT" /\ Head(ka).b = Head(a).b
  BY <1>2, HeadSays
<1>4. ServerMet(g, c, s, ka, kb) \/ BothMet(g, c, s, ka, kb)
  BY <1>3, TalkHeads DEF Joined
<1>. DEFINE k1 == KR(y.keys.trans)
            lb == Append(Append(kb, k1), KN)
<1>. HIDE DEF y
<1>5. /\ Tail(ka) = <<>> /\ NoNewkeys(Append(kb, k1))
      /\ \E v \in Nat : /\ Head(ka) = KD(AgreedAlgo(g), v)
                        /\ Took(g, s, y, v) => Talk(g, c, y, <<>>, lb)
  BY <1>3, <1>4, TalkServerReplies
<1>. HIDE DEF k1, lb
<1>6. PICK v \in Nat : /\ Head(ka) = KD(AgreedAlgo(g), v)
                       /\ Took(g, s, y, v) => Talk(g, c, y, <<>>, lb)
  BY <1>5
<1>7. Answered(s, y, v)
  <2>1. Answered(s, RecvKexdhInit(z, KD(AgreedAlgo(g), v).b), v)
    BY KexdhInitAnswered
  <2>2. Head(a).b = KD(AgreedAlgo(g), v).b
    BY <1>3, <1>6
  <2>. QED  BY <2>1, <2>2 DEF y
<1>8. Talk(g, c, y, Tail(ka), lb)
  BY <1>5, <1>6, <1>7 DEF Answered, Took
<1>9. /\ y.keys.recv = s.keys.recv /\ y.authdone = s.authdone
      /\ y.exited = s.exited /\ y.replyq = s.replyq /\ y.requirenext # "none"
  BY <1>7, AnsweredFields
<1>10. PICK p, q : /\ Stamped(p, s, "KEXDH_REPLY", KR(y.keys.trans).b)
                   /\ Stamped(q, s, "NEWKEYS", 0)
                   /\ y.writequeue = Append(Append(s.writequeue, p), q)
  BY <1>7 DEF Answered
<1>11. Line(Tail(a), Tail(ka), ua, c, y)
  <2>1. s.requirenext # "none"
    BY DEF Met
  <2>2. NoKexinit(Tail(ka))
    BY <1>5, NoKexInits
  <2>. QED  BY <2>1, <2>2, <1>1, <1>2, <1>9, LineKexRead DEF Writer
<1>12. Line(Append(Append(b, p), q), lb, ub, y, c)
  <2>1. /\ k1 = [t |-> "KEXDH_REPLY", b |-> k1.b] /\ "KEXDH_REPLY" \in KexType
        /\ KN = [t |-> "NEWKEYS", b |-> 0] /\ "NEWKEYS" \in KexType
    BY KexPackets DEF k1
  <2>2. Stamped(p, s, "KEXDH_REPLY", k1.b)
    BY <1>10 DEF k1
  <2>3. Line(Append(b, p), Append(kb, k1), ub, s, c)
    <3>1. Line(Append(b, p), Append(kb, [t |-> "KEXDH_REPLY", b |-> k1.b]), ub, s, c)
      BY <2>1, <2>2, <1>1, LineKexSent
    <3>. QED  BY <2>1, <3>1
  <2>4. Writer(Append(b, p), Append(kb, k1), ub, s, c)
    <3>1. IsSeq(Append(b, p)) /\ IsSeq(Append(kb, k1))
      BY <1>1, AppendOne DEF Writer
    <3>2. Covered(s, c, Append(kb, k1))
      BY DEF Met, Covered
    <3>. QED  BY <2>3, <3>1, <3>2, <1>1 DEF Writer
  <2>5. Line(Append(Append(b, p), q), Append(Append(kb, k1), [t |-> "NEWKEYS", b |-> 0]), ub, y, c)
    BY <2>1, <2>4, <1>5, <1>9, <1>10, LineKexSent
  <2>. QED  BY <2>1, <2>5 DEF lb
<1>. DEFINE r  == <<p>> \o <<q>>
<1>13. /\ IsSeq(r) /\ Append(Append(b, p), q) = b \o r
       /\ y.writequeue = s.writequeue \o r
  <2>1. PICK w : w = s.writequeue
    OBVIOUS
  <2>2. IsSeq(w) /\ y.writequeue = Append(Append(w, p), q)
    BY <2>1, <1>1, <1>10 DEF Queued
  <2>3. y.writequeue = w \o r /\ IsSeq(r)
    BY <2>2, TwoMore
  <2>4. Append(Append(b, p), q) = b \o r
    BY <1>1, TwoMore
  <2>. QED  BY <2>1, <2>3, <2>4
<1>. HIDE DEF r
<1>14. Line(b \o r, lb, ub, y, c)
  BY <1>12, <1>13
<1>15. ServerAdds(s.writequeue, g, c, y, Tail(a), b, m)
  BY <1>8, <1>9, <1>11, <1>13, <1>14, ServerReadsKex
<1>. QED  BY <1>15 DEF y

---------------------------------------------------------------------------

LEMMA TalkServerEnds ==
    ASSUME NEW g, NEW c, NEW s, NEW ka, NEW kb, NEW y,
           \/ BothSwitched(c, s, ka, kb) \/ ClientDone(c, s, ka, kb)
           \/ ClientReopens(c, s, ka, kb)
    PROVE  /\ Switched("S", s) /\ c.keys.trans = s.keys.trans
           /\ NoNewkeys(Tail(ka))
           /\ Finished("S", s, y) => Talk(g, c, y, Tail(ka), kb)
<1>1. /\ Finished("S", s, y) => Idle("S", y) /\ y.keys.trans = s.keys.trans
      /\ Tail(<<KN>>) = <<>>
  BY Tails DEF Finished
<1>2. CASE BothSwitched(c, s, ka, kb)
  <2>1. /\ Switched("C", c) /\ Switched("S", s) /\ Paired(c, s)
        /\ Tail(ka) = <<>> /\ kb = <<KN>>
    BY <1>1, <1>2 DEF BothSwitched
  <2>2. Finished("S", s, y) => ServerDone(c, y, Tail(ka), kb)
    BY <1>1, <2>1 DEF ServerDone, Paired
  <2>. QED  BY <2>1, <2>2, NoKexInits DEF Talk, Paired
<1>3. CASE ClientDone(c, s, ka, kb)
  <2>1. /\ Idle("C", c) /\ Switched("S", s) /\ Paired(c, s)
        /\ Tail(ka) = <<>> /\ kb = <<>>
    BY <1>1, <1>3 DEF ClientDone
  <2>2. Finished("S", s, y) => Resting(c, y, Tail(ka), kb)
    BY <1>1, <2>1 DEF Resting
  <2>. QED  BY <2>1, <2>2, NoKexInits DEF Talk, Paired
<1>4. CASE ClientReopens(c, s, ka, kb)
  <2>1. /\ Begun("C", c) /\ c.donefirstkex /\ Switched("S", s) /\ Paired(c, s)
        /\ ka = <<KN, KI("C", c.transkexinit), First(c)>> /\ kb = <<>>
    BY <1>4 DEF ClientReopens
  <2>2. PICK p, q : p = KI("C", c.transkexinit) /\ q = First(c)
    OBVIOUS
  <2>3. p.t # "NEWKEYS" /\ q.t # "NEWKEYS"
    BY <2>2, Saying
  <2>4. Tail(ka) = <<p, q>>
    <3>1. ka = <<KN, p, q>>
      BY <2>1, <2>2
    <3>. QED  BY <3>1, Tails
  <2>5. NoNewkeys(Tail(ka))
    BY <2>3, <2>4, NoKexInits
  <2>6. Finished("S", s, y) => ClientOpens(c, y, Tail(ka), kb)
    BY <1>1, <2>1, <2>2, <2>4 DEF ClientOpens
  <2>. QED  BY <2>1, <2>5, <2>6 DEF Talk, Paired
<1>. QED  BY <1>2, <1>3, <1>4

LEMMA FinishedFields ==
    ASSUME NEW e, NEW s, NEW y, Finished(e, s, y), Switched(e, s)
    PROVE  /\ y.keys.recv = s.keys.trans /\ y.keys.trans = s.keys.trans
           /\ y.authdone = s.authdone /\ y.requirenext = "none"
           /\ y.exited = s.exited /\ y.replyq = s.replyq
           /\ y.writequeue = s.writequeue
           /\ y.donefirstkex = s.donefirstkex /\ s.donefirstkex
           /\ AsSender(s, y)
<1>1. /\ y.keys.recv = s.keys.trans /\ y.keys.trans = s.keys.trans
      /\ y.requirenext = "none" /\ s.donefirstkex
  BY DEF Finished, Idle, Switched
<1>2. /\ y.authdone = s.authdone /\ y.exited = s.exited /\ y.replyq = s.replyq
      /\ y.writequeue = s.writequeue /\ y.donefirstkex = s.donefirstkex
  BY DEF Finished, But, Names, Flags
<1>. QED  BY <1>1, <1>2 DEF AsSender

LEMMA ServerEnds ==
    ASSUME NEW g, NEW c, NEW s, NEW a, NEW b, NEW m, NEW z,
           Linked(g, c, s, a, b, m), But(s, z, {"requirenext", "lastpacket"}),
           z.requirenext = "none", a # <<>>, Head(a).t = "NEWKEYS"
    PROVE  ServerAdds(s.writequeue, g, c, RecvNewkeys(z), Tail(a), b, m)
<1>. DEFINE y == RecvNewkeys(z)
<1>. PICK ka, kb, ua, ub : Joined(g, c, s, a, b, m, ka, kb, ua, ub)
  BY DEF Linked
<1>1. /\ Writer(a, ka, ua, c, s) /\ IsSeq(a) /\ IsSeq(b) /\ Queued(s)
  BY JoinedFacts DEF Joined
<1>2. "NEWKEYS" \in KexType
  BY KexPackets
<1>3. ka # <<>> /\ Head(ka).t = "NEWKEYS"
  BY <1>2, HeadSays
<1>4. \/ BothSwitched(c, s, ka, kb) \/ ClientDone(c, s, ka, kb)
      \/ ClientReopens(c, s, ka, kb)
  BY <1>3, TalkHeads DEF Joined
<1>. HIDE DEF y
<1>5. /\ Switched("S", s) /\ c.keys.trans = s.keys.trans
      /\ NoNewkeys(Tail(ka))
      /\ Finished("S", s, y) => Talk(g, c, y, Tail(ka), kb)
  BY <1>4, TalkServerEnds
<1>6. Finished("S", s, y)
  BY <1>5, NewkeysEnd DEF y
<1>7. /\ y.keys.recv = s.keys.trans
      /\ y.authdone = s.authdone /\ y.requirenext = "none"
      /\ y.exited = s.exited /\ y.replyq = s.replyq
      /\ y.writequeue = s.writequeue
      /\ y.donefirstkex = s.donefirstkex
      /\ AsSender(s, y)
  BY <1>5, <1>6, FinishedFields
<1>8. Line(Tail(a), Tail(ka), ua, c, y)
  <2>1. y.keys.recv = c.keys.trans
    BY <1>5, <1>7
  <2>. QED  BY <2>1, <1>1, <1>2, <1>5, <1>7, LineKexRead DEF Writer
<1>9. Line(b, kb, ub, y, c)
  BY <1>7, ReaderSame, LineSame DEF Joined
<1>10. b \o <<>> = b /\ s.writequeue \o <<>> = s.writequeue /\ IsSeq(<<>>)
  BY <1>1, Empty, Concat DEF Queued
<1>11. ServerAdds(s.writequeue, g, c, y, Tail(a), b, m)
  BY <1>5, <1>6, <1>7, <1>8, <1>9, <1>10, ServerReadsKex
<1>. QED  BY <1>11 DEF y

---------------------------------------------------------------------------
(* What the client reads of an exchange *)

LEMMA TalkClientMeets ==
    ASSUME NEW g, NEW c, NEW s, NEW ka, NEW kb, NEW y,
           \/ BothOpen(c, s, ka, kb) \/ ServerMet(g, c, s, ka, kb)
           \/ ServerAhead(g, c, s, ka, kb)
    PROVE  \E k \in Nat :
             /\ kb # <<>> /\ Head(kb) = KI("S", k)
             /\ Met(g, "C", y) /\ y.param = c.param /\ y.kex_state = c.kex_state
                /\ y.kexhash = [c |-> c.transkexinit, s |-> k]
                  => Talk(g, y, s, ka, Tail(kb))
<1>1. /\ Begun("C", c) /\ c.param \in Params /\ c.kex_state = "KEX_NOTHING"
      /\ c.param.x \in Nat /\ c.transkexinit \in Nat
  BY DEF BothOpen, ServerMet, ServerAhead, Begun, Params
<1>2. y.param = c.param /\ y.kex_state = c.kex_state =>
        ~Again(g, y) /\ First(c) = KD("first", y.param.x)
  BY <1>1 DEF Again, First
<1>3. CASE BothOpen(c, s, ka, kb)
  <2>. DEFINE k == s.transkexinit
  <2>1. /\ k \in Nat /\ kb = <<KI("S", k)>> /\ Begun("S", s)
        /\ ka = <<KI("C", c.transkexinit), First(c)>>
    BY <1>3 DEF BothOpen, Begun
  <2>2. kb # <<>> /\ Head(kb) = KI("S", k) /\ Tail(kb) = <<>>
    BY <2>1, Tails
  <2>. HIDE DEF k
  <2>3. ASSUME Met(g, "C", y), y.param = c.param, y.kex_state = c.kex_state,
               y.kexhash = [c |-> c.transkexinit, s |-> k]
        PROVE  Talk(g, y, s, ka, Tail(kb))
    <3>1. /\ y.kexhash.c = c.transkexinit /\ y.kexhash.s = k
          /\ ~Again(g, y) /\ First(c) = KD("first", c.param.x)
          /\ y.param.x = c.param.x
      BY <2>3, <1>2
    <3>2. ClientMet(g, y, s, ka, Tail(kb))
      BY <2>1, <2>2, <2>3, <3>1, <1>1 DEF ClientMet, k
    <3>. QED  BY <3>2 DEF Talk
  <2>. QED  BY <2>1, <2>2, <2>3
<1>4. CASE ServerMet(g, c, s, ka, kb)
  <2>. DEFINE k == s.kexhash.s
  <2>1. /\ Met(g, "S", s) /\ s.kexhash.c = c.transkexinit
        /\ ka = (IF Unread(g, s) THEN <<First(c)>> ELSE <<>>)
        /\ kb = <<KI("S", k)>> /\ s.kexhash \in [c : Nat, s : Nat]
    BY <1>4 DEF ServerMet, Met
  <2>2. kb # <<>> /\ Head(kb) = KI("S", k) /\ Tail(kb) = <<>>
    BY <2>1, Tails
  <2>. HIDE DEF k
  <2>3. k \in Nat /\ s.kexhash = [c |-> c.transkexinit, s |-> k]
    BY <2>1, NatRecords DEF k
  <2>4. ASSUME Met(g, "C", y), y.param = c.param, y.kex_state = c.kex_state,
               y.kexhash = [c |-> c.transkexinit, s |-> k]
        PROVE  Talk(g, y, s, ka, Tail(kb))
    <3>1. /\ y.kexhash = s.kexhash
          /\ ~Again(g, y) /\ First(c) = KD("first", y.param.x)
          /\ y.param.x \in Nat
      BY <2>3, <2>4, <1>1, <1>2
    <3>2. \E x \in Nat :
         /\ ~Wrong(g) => x = y.param.x
         /\ ka = IF Unread(g, s)
                 THEN IF Again(g, y) THEN <<KD("first", x), Second(g, y)>>
                      ELSE <<KD("first", x)>>
                 ELSE IF Again(g, y) THEN <<Second(g, y)>> ELSE <<>>
      BY <3>1, <2>1
    <3>3. BothMet(g, y, s, ka, Tail(kb))
      BY <2>1, <2>2, <2>4, <3>1, <3>2 DEF BothMet
    <3>. QED  BY <3>3 DEF Talk
  <2>. QED  BY <2>2, <2>3, <2>4
<1>5. CASE ServerAhead(g, c, s, ka, kb)
  <2>. DEFINE k == s.keys.trans.s
  <2>1. /\ Switched("S", s) /\ ~Wrong(g) /\ s.keys.trans.c = c.transkexinit
        /\ s.keys.trans.x = c.param.x /\ ka = <<>>
        /\ kb = <<KI("S", k), KR(s.keys.trans), KN>> /\ k \in Nat
    BY <1>5 DEF ServerAhead, Switched, Secrets
  <2>2. kb # <<>> /\ Head(kb) = KI("S", k) /\ Tail(kb) = <<KR(s.keys.trans), KN>>
    <3>. PICK p, q : p = KI("S", k) /\ q = KR(s.keys.trans)
      OBVIOUS
    <3>1. kb = <<p, q, KN>>
      BY <2>1
    <3>. QED  BY <3>1, Tails
  <2>. HIDE DEF k
  <2>3. ASSUME Met(g, "C", y), y.param = c.param,
               y.kexhash = [c |-> c.transkexinit, s |-> k]
        PROVE  Talk(g, y, s, ka, Tail(kb))
    <3>1. y.kexhash.c = c.transkexinit /\ y.kexhash.s = k
      BY <2>3
    <3>2. Replied(g, y, s, ka, Tail(kb))
      BY <2>1, <2>2, <2>3, <3>1 DEF Replied, k
    <3>. QED  BY <3>2 DEF Talk
  <2>. QED  BY <2>1, <2>2, <2>3
<1>. QED  BY <1>3, <1>4, <1>5

LEMMA ClientMeets ==
    ASSUME NEW g, NEW c, NEW s, NEW a, NEW b, NEW m, NEW z,
           Linked(g, c, s, a, b, m), Begun("C", c),
           But(c, z, {"requirenext", "lastpacket"}),
           b # <<>>, Head(b).t = "KEXINIT", Quiet(b)
    PROVE  LET y == RecvKexinit("C", z, Head(b).b, g)
           IN  /\ Linked(g, y, s, a, Tail(b), m)
               /\ y.writequeue = c.writequeue /\ y.exited = c.exited
<1>. PICK ka, kb, ua, ub : Joined(g, c, s, a, b, m, ka, kb, ua, ub)
  BY DEF Linked
<1>1. /\ Writer(a, ka, ua, c, s) /\ Writer(b, kb, ub, s, c)
      /\ Queued(c) /\ Queued(s) /\ IsSeq(a) /\ IsSeq(b)
  BY JoinedFacts DEF Joined
<1>2. "KEXINIT" \in KexType
  BY Types
<1>3. kb # <<>> /\ Head(kb).t = "KEXINIT" /\ Head(kb).b = Head(b).b
  BY <1>2, HeadSays
<1>4. \/ BothOpen(c, s, ka, kb) \/ ServerMet(g, c, s, ka, kb)
      \/ ServerAhead(g, c, s, ka, kb)
  <2>1. \/ ServerOpens(c, s, ka, kb) \/ BothOpen(c, s, ka, kb)
        \/ ServerMet(g, c, s, ka, kb) \/ ServerAhead(g, c, s, ka, kb)
    BY <1>3, TalkHeads DEF Joined
  <2>2. ~ServerOpens(c, s, ka, kb)
    BY Distinct DEF ServerOpens
  <2>. QED  BY <2>1, <2>2
<1>. DEFINE y == RecvKexinit("C", z, Head(b).b, g)
<1>5. PICK k \in Nat :
             /\ kb # <<>> /\ Head(kb) = KI("S", k)
             /\ Met(g, "C", y) /\ y.param = c.param /\ y.kex_state = c.kex_state
                /\ y.kexhash = [c |-> c.transkexinit, s |-> k]
                  => Talk(g, y, s, ka, Tail(kb))
  BY <1>4, TalkClientMeets
<1>6. Head(b).b = KI("S", k).b /\ "C" \in End /\ Peer("C") = "S"
  BY <1>3, <1>5 DEF End, Peer
<1>7. /\ But(z, y, {"newkeys", "ignorenext", "our_first_follows_matches",
                    "kexhash", "requirenext", "transkexinit", "recvkexinit"})
      /\ Met(g, "C", y)
      /\ y.kexhash = [c |-> c.transkexinit, s |-> k]
  <2>1. Head(b).b = KI(Peer("C"), k).b
    BY <1>6
  <2>2. MetBy(g, "C", c, z, RecvKexinit("C", z, KI(Peer("C"), k).b, g), k)
    BY <1>6, KexinitMets
  <2>3. MetBy(g, "C", c, z, y, k)
    BY <2>1, <2>2
  <2>. HIDE DEF y
  <2>. QED  BY <2>3 DEF MetBy
<1>. HIDE DEF y
<1>9. /\ AsSender(c, y) /\ y.keys = c.keys /\ y.authdone = c.authdone
      /\ y.donefirstkex = c.donefirstkex /\ y.exited = c.exited
      /\ y.replyq = c.replyq /\ y.writequeue = c.writequeue
      /\ y.param = c.param /\ y.kex_state = c.kex_state
  BY <1>7, MetFields
<1>8. Talk(g, y, s, ka, Tail(kb))
  BY <1>5, <1>7, <1>9
<1>10. Line(Tail(b), Tail(kb), ub, s, y)
  BY <1>1, <1>2, <1>9, LineKexRead DEF Writer
<1>11. Line(a, ka, ua, y, s)
  BY <1>9, ReaderSame, LineSame DEF Joined
<1>12. Both(y, s, m, a) /\ Queued(y)
  BY <1>1, <1>9 DEF Joined, Both, Waiting, Queued
<1>13. IsSeq(Tail(b))
  BY <1>1, Rest
<1>15. Linked(g, y, s, a, Tail(b), m)
  BY <1>1, <1>8, <1>10, <1>11, <1>12, <1>13 DEF Joined, Linked
<1>. QED  BY <1>9, <1>15 DEF y

---------------------------------------------------------------------------

LEMMA TakenFields ==
    ASSUME NEW g, NEW s, NEW y, NEW k, Taken(s, y, k), Met(g, "C", s)
    PROVE  /\ y.keys.recv = s.keys.recv /\ y.authdone = s.authdone
           /\ y.exited = s.exited /\ y.replyq = s.replyq
           /\ y.donefirstkex
<1>1. But(s, y, Queues \cup Ending \cup {"param", "lastpacket"})
      /\ Switched("C", y) /\ y.keys.recv = s.keys.recv /\ y.replyq = s.replyq
  BY DEF Taken
<1>2. y.authdone = s.authdone /\ y.exited = s.exited
  BY <1>1 DEF But, Names, Queues, Ending
<1>3. y.donefirstkex
  BY <1>1 DEF Switched
<1>. QED  BY <1>1, <1>2, <1>3

LEMMA ClientTakes ==
    ASSUME NEW g, NEW c, NEW s, NEW a, NEW b, NEW m, NEW z,
           Linked(g, c, s, a, b, m),
           Met(g, "C", c) => c.kex_state = "KEXDH_INIT_SENT",
           But(c, z, {"requirenext", "lastpacket"}),
           b # <<>>, Head(b).t = "KEXDH_REPLY"
    PROVE  ClientAdds(c.writequeue, g, RecvKexdhReply(z, Head(b).b), s, a, Tail(b), m)
<1>. DEFINE y == RecvKexdhReply(z, Head(b).b)
            k == s.keys.trans
<1>. PICK ka, kb, ua, ub : Joined(g, c, s, a, b, m, ka, kb, ua, ub)
  BY DEF Linked
<1>1. /\ Writer(a, ka, ua, c, s) /\ Writer(b, kb, ub, s, c) /\ Queued(c)
      /\ IsSeq(a) /\ IsSeq(b)
  BY JoinedFacts DEF Joined
<1>2. "KEXDH_REPLY" \in KexType
  BY KexPackets
<1>3. kb # <<>> /\ Head(kb).t = "KEXDH_REPLY" /\ Head(kb).b = Head(b).b
  BY <1>2, HeadSays
<1>4. Replied(g, c, s, ka, kb)
  BY <1>3, TalkHeads DEF Joined
<1>5. /\ Met(g, "C", c) /\ Switched("S", s) /\ ka = <<>>
      /\ k.c = c.kexhash.c /\ k.s = c.kexhash.s
      /\ k.x = c.param.x /\ k \in Secrets
  BY <1>4 DEF Replied, Switched
<1>6. Head(kb) = KR(k) /\ Tail(kb) = <<KN>>
  <2>. PICK p : p = KR(k)
    OBVIOUS
  <2>1. kb = <<p, KN>>
    BY <1>4 DEF Replied
  <2>. QED  BY <2>1, Tails
<1>. HIDE DEF y, k
<1>7. Taken(c, y, k)
  <2>1. Taken(c, RecvKexdhReply(z, KR(k).b), k)
    BY <1>5, KexdhReplyTaken
  <2>2. Head(b).b = KR(k).b
    BY <1>3, <1>6
  <2>. QED  BY <2>1, <2>2 DEF y
<1>8. /\ y.keys.recv = c.keys.recv /\ y.authdone = c.authdone
      /\ y.exited = c.exited /\ y.replyq = c.replyq /\ y.donefirstkex
  BY <1>5, <1>7, TakenFields
<1>9. PICK p : /\ Stamped(p, c, "NEWKEYS", 0)
               /\ y.writequeue = Append(c.writequeue, p)
  BY <1>7 DEF Taken
<1>10. Talk(g, y, s, <<KN>>, Tail(kb))
  <2>1. Paired(y, s)
    BY <1>7 DEF Taken, Paired, k
  <2>2. BothSwitched(y, s, <<KN>>, Tail(kb))
    BY <2>1, <1>5, <1>6, <1>7 DEF BothSwitched, Taken
  <2>. QED  BY <2>2 DEF Talk
<1>11. Line(Tail(b), Tail(kb), ub, s, y)
  <2>1. c.requirenext # "none"
    BY <1>5 DEF Met
  <2>2. NoKexinit(Tail(kb))
    <3>1. KN.t # "KEXINIT"
      BY Saying
    <3>. QED  BY <3>1, <1>6, NoKexInits
  <2>. QED  BY <2>1, <2>2, <1>1, <1>2, <1>8, LineKexRead DEF Writer
<1>12. Line(Append(a, p), <<KN>>, ua, y, s)
  <2>1. KN = [t |-> "NEWKEYS", b |-> 0] /\ "NEWKEYS" \in KexType
    BY KexPackets
  <2>2. Line(Append(a, p), Append(ka, [t |-> "NEWKEYS", b |-> 0]), ua, y, s)
    BY <2>1, <1>1, <1>5, <1>8, <1>9, NoKexInits, LineKexSent
  <2>3. Append(ka, KN) = <<KN>>
    BY <1>5, Grown, Zenon
  <2>. QED  BY <2>1, <2>2, <2>3
<1>13. /\ IsSeq(<<p>>) /\ Append(a, p) = a \o <<p>>
       /\ y.writequeue = c.writequeue \o <<p>>
  <2>1. PICK w : w = c.writequeue
    OBVIOUS
  <2>2. IsSeq(w) /\ y.writequeue = Append(w, p)
    BY <2>1, <1>1, <1>9 DEF Queued
  <2>. QED  BY <2>1, <2>2, <1>1, OneMore
<1>14. ~(s.authdone /\ ~c.authdone)
  <2>1. c.donefirstkex = c.authdone
    BY <1>5 DEF Met
  <2>. QED  BY <2>1, AcceptedLate
<1>15. Line(a \o <<p>>, <<KN>>, ua, y, s)
  BY <1>12, <1>13
<1>16. ClientAdds(c.writequeue, g, y, s, a, Tail(b), m)
  <2>. PICK r : r = <<p>>
    OBVIOUS
  <2>1. IsSeq(r) /\ Line(a \o r, <<KN>>, ua, y, s) /\ y.writequeue = c.writequeue \o r
    BY <1>13, <1>15
  <2>. QED  BY <2>1, <1>8, <1>10, <1>11, <1>14, ClientReadsKex
<1>. QED  BY <1>16 DEF y

---------------------------------------------------------------------------

LEMMA TalkClientEnds ==
    ASSUME NEW g, NEW c, NEW s, NEW ka, NEW kb, NEW y,
           \/ BothSwitched(c, s, ka, kb) \/ ServerDone(c, s, ka, kb)
           \/ ServerReopens(c, s, ka, kb)
    PROVE  /\ Switched("C", c) /\ s.keys.trans = c.keys.trans
           /\ NoNewkeys(Tail(kb))
           /\ Finished("C", c, y) => Talk(g, y, s, ka, Tail(kb))
<1>1. /\ Finished("C", c, y) => Idle("C", y) /\ y.keys.trans = c.keys.trans
      /\ Tail(<<KN>>) = <<>>
  BY Tails DEF Finished
<1>2. CASE BothSwitched(c, s, ka, kb)
  <2>1. /\ Switched("C", c) /\ Switched("S", s) /\ Paired(c, s)
        /\ Tail(kb) = <<>> /\ ka = <<KN>>
    BY <1>1, <1>2 DEF BothSwitched
  <2>2. Finished("C", c, y) => ClientDone(y, s, ka, Tail(kb))
    BY <1>1, <2>1 DEF ClientDone, Paired
  <2>. QED  BY <2>1, <2>2, NoKexInits DEF Talk, Paired
<1>3. CASE ServerDone(c, s, ka, kb)
  <2>1. /\ Switched("C", c) /\ Idle("S", s) /\ Paired(c, s)
        /\ Tail(kb) = <<>> /\ ka = <<>>
    BY <1>1, <1>3 DEF ServerDone
  <2>2. Finished("C", c, y) => Resting(y, s, ka, Tail(kb))
    BY <1>1, <2>1 DEF Resting
  <2>. QED  BY <2>1, <2>2, NoKexInits DEF Talk, Paired
<1>4. CASE ServerReopens(c, s, ka, kb)
  <2>1. /\ Switched("C", c) /\ Begun("S", s) /\ s.donefirstkex /\ Paired(c, s)
        /\ ka = <<>> /\ kb = <<KN, KI("S", s.transkexinit)>>
    BY <1>4 DEF ServerReopens
  <2>2. PICK p : p = KI("S", s.transkexinit)
    OBVIOUS
  <2>3. p.t # "NEWKEYS"
    BY <2>2, Saying
  <2>4. Tail(kb) = <<p>>
    <3>1. kb = <<KN, p>>
      BY <2>1, <2>2
    <3>. QED  BY <3>1, Tails
  <2>5. NoNewkeys(Tail(kb))
    BY <2>3, <2>4, NoKexInits
  <2>6. Finished("C", c, y) => ServerOpens(y, s, ka, Tail(kb))
    BY <1>1, <2>1, <2>2, <2>4 DEF ServerOpens
  <2>. QED  BY <2>1, <2>5, <2>6 DEF Talk, Paired
<1>. QED  BY <1>2, <1>3, <1>4

LEMMA ClientEnds ==
    ASSUME NEW g, NEW c, NEW s, NEW a, NEW b, NEW m, NEW z,
           Linked(g, c, s, a, b, m), But(c, z, {"requirenext", "lastpacket"}),
           Switched("C", c) => c.kex_state = "KEX_NOTHING",
           z.requirenext = "none", b # <<>>, Head(b).t = "NEWKEYS"
    PROVE  ClientAdds(c.writequeue, g, RecvNewkeys(z), s, a, Tail(b), m)
<1>. DEFINE y == RecvNewkeys(z)
<1>. PICK ka, kb, ua, ub : Joined(g, c, s, a, b, m, ka, kb, ua, ub)
  BY DEF Linked
<1>1. /\ Writer(b, kb, ub, s, c) /\ IsSeq(a) /\ IsSeq(b) /\ Queued(c)
  BY JoinedFacts DEF Joined
<1>2. "NEWKEYS" \in KexType
  BY KexPackets
<1>3. kb # <<>> /\ Head(kb).t = "NEWKEYS"
  BY <1>2, HeadSays
<1>4. \/ BothSwitched(c, s, ka, kb) \/ ServerDone(c, s, ka, kb)
      \/ ServerReopens(c, s, ka, kb)
  BY <1>3, TalkHeads DEF Joined
<1>. HIDE DEF y
<1>5. /\ Switched("C", c) /\ s.keys.trans = c.keys.trans
      /\ NoNewkeys(Tail(kb))
      /\ Finished("C", c, y) => Talk(g, y, s, ka, Tail(kb))
  BY <1>4, TalkClientEnds
<1>6. Finished("C", c, y)
  BY <1>5, NewkeysEnd DEF y
<1>7. /\ y.keys.recv = c.keys.trans
      /\ y.authdone = c.authdone /\ y.requirenext = "none"
      /\ y.exited = c.exited /\ y.replyq = c.replyq
      /\ y.writequeue = c.writequeue
      /\ y.donefirstkex = c.donefirstkex
      /\ AsSender(c, y)
  BY <1>5, <1>6, FinishedFields
<1>8. Line(Tail(b), Tail(kb), ub, s, y)
  <2>1. y.keys.recv = s.keys.trans
    BY <1>5, <1>7
  <2>. QED  BY <2>1, <1>1, <1>2, <1>5, <1>7, LineKexRead DEF Writer
<1>9. Line(a, ka, ua, y, s)
  BY <1>7, ReaderSame, LineSame DEF Joined
<1>10. a \o <<>> = a /\ c.writequeue \o <<>> = c.writequeue /\ IsSeq(<<>>)
  BY <1>1, Empty, Concat DEF Queued
<1>11. ClientAdds(c.writequeue, g, y, s, a, Tail(b), m)
  BY <1>5, <1>6, <1>7, <1>8, <1>9, <1>10, ClientReadsKex
<1>. QED  BY <1>11 DEF y

---------------------------------------------------------------------------
(* A KEXINIT at an end that may have to answer with its own *)

\* Before it is accepted an end is in its first exchange.
LEMMA KexinitLate ==
    ASSUME NEW w, NEW ks, NEW us, NEW s, NEW r, Line(w, ks, us, s, r), IsSeq(w),
           w # <<>>, Head(w).t = "KEXINIT", r.donefirstkex,
           r.authdone \in BOOLEAN
    PROVE  r.authdone
<1>1. ~Before(w, SUCCESS, 1) /\ 1 \in 1..Len(w) /\ w[1].t = "KEXINIT"
  BY ReadBefore
<1>. QED  BY <1>1 DEF Line

\* The handler's session of an end that is in no exchange.
LEMMA IdleArrived ==
    ASSUME NEW e, NEW s, NEW z, Idle(e, s), But(s, z, {"requirenext", "lastpacket"}),
           z.requirenext = "none"
    PROVE  /\ Alike(s, z) /\ z.writequeue = s.writequeue
           /\ z.replyq = s.replyq /\ z.exited = s.exited
           /\ z.authdone = s.authdone
<1>1. z.requirenext = s.requirenext
  BY DEF Idle
<1>. QED  BY <1>1 DEF Alike, But, Loose, Names

LEMMA ItselfBut == \A s, F : DOMAIN s = Names => But(s, s, F)
  BY DEF But

LEMMA ClientReadsKexinit ==
    ASSUME NEW g, NEW c, NEW s, NEW a, NEW b, NEW m, NEW z,
           Linked(g, c, s, a, b, m), But(c, z, {"requirenext", "lastpacket"}),
           z.requirenext = "none", b # <<>>, Head(b).t = "KEXINIT", Quiet(b)
    PROVE  ClientAdds(c.writequeue, g, RecvKexinit("C", z, Head(b).b, g), s, a,
                      Tail(b), m)
<1>. PICK ka, kb, ua, ub : Joined(g, c, s, a, b, m, ka, kb, ua, ub)
  BY DEF Linked
<1>1. /\ IsSeq(b) /\ Queued(c) /\ IsSeq(c.writequeue) /\ Talking(g, c, s, ka, kb)
  BY JoinedFacts DEF Joined, Queued
<1>2. "KEXINIT" \in KexType /\ "C" \in End
  BY KexPackets DEF End
<1>3. kb # <<>> /\ Head(kb).t = "KEXINIT"
  BY <1>2, HeadSays
<1>4. Idle("C", c) \/ Begun("C", c)
  <2>1. \/ ServerOpens(c, s, ka, kb) \/ BothOpen(c, s, ka, kb)
        \/ ServerMet(g, c, s, ka, kb) \/ ServerAhead(g, c, s, ka, kb)
    BY <1>3, TalkHeads DEF Joined
  <2>. QED  BY <2>1 DEF ServerOpens, BothOpen, ServerMet, ServerAhead
<1>5. ASSUME Begun("C", c)
      PROVE  ClientAdds(c.writequeue, g, RecvKexinit("C", z, Head(b).b, g), s, a,
                        Tail(b), m)
  <2>. DEFINE y == RecvKexinit("C", z, Head(b).b, g)
  <2>1. Linked(g, y, s, a, Tail(b), m) /\ y.writequeue = c.writequeue
    BY <1>5, ClientMeets
  <2>. HIDE DEF y
  <2>2. ClientAdds(c.writequeue, g, y, s, a, Tail(b), m)
    BY <1>1, <2>1, NothingAdded
  <2>. QED  BY <2>2 DEF y
<1>6. ASSUME Idle("C", c)
      PROVE  ClientAdds(c.writequeue, g, RecvKexinit("C", z, Head(b).b, g), s, a,
                        Tail(b), m)
  <2>1. c.authdone
    <3>1. c.donefirstkex /\ c.authdone \in BOOLEAN
      BY <1>6 DEF Idle, Formed
    <3>2. Line(b, kb, ub, s, c)
      BY DEF Joined
    <3>. QED  BY <3>1, <3>2, <1>1, KexinitLate
  <2>2. /\ Alike(c, z) /\ z.writequeue = c.writequeue
        /\ z.replyq = c.replyq /\ z.exited = c.exited
        /\ z.authdone = c.authdone
    BY <1>6, IdleArrived
  <2>3. c.exited \in Fine
    BY JoinedFacts DEF Waiting
  <2>4. Linked(g, z, s, a, b, m)
    BY <2>2, <2>3, ClientAlike
  <2>5. Idle("C", z) /\ z.authdone
    BY <1>6, <2>1, <2>2, PhaseSame
  <2>. DEFINE x == SendKexinit("C", z)
              y == RecvKexinit("C", x, Head(b).b, g)
  <2>6. /\ ClientAdds(z.writequeue, g, x, s, a, b, m) /\ Begun("C", x)
    BY <2>4, <2>5, ClientBegins
  <2>7. RecvKexinit("C", z, Head(b).b, g) = y
    BY <2>5, <1>2, KexinitAnswered
  <2>. HIDE DEF x
  <2>8. PICK r : IsSeq(r) /\ x.writequeue = z.writequeue \o r /\ Linked(g, x, s, a \o r, b, m)
    BY <2>6 DEF ClientAdds
  <2>9. DOMAIN x = Names
    BY <2>6 DEF Begun, Formed
  <2>10. But(x, x, {"requirenext", "lastpacket"})
    BY <2>9, ItselfBut
  <2>11. Linked(g, y, s, a \o r, Tail(b), m) /\ y.writequeue = x.writequeue
    BY <2>6, <2>8, <2>10, ClientMeets
  <2>. HIDE DEF y
  <2>12. ClientAdds(c.writequeue, g, y, s, a, Tail(b), m)
    BY <2>2, <2>8, <2>11 DEF ClientAdds
  <2>. QED  BY <2>7, <2>12
<1>. QED  BY <1>4, <1>5, <1>6

LEMMA ServerReadsKexinit ==
    ASSUME NEW g, NEW c, NEW s, NEW a, NEW b, NEW m, NEW z,
           Linked(g, c, s, a, b, m), But(s, z, {"requirenext", "lastpacket"}),
           z.requirenext = "none", a # <<>>, Head(a).t = "KEXINIT", Quiet(a)
    PROVE  ServerAdds(s.writequeue, g, c, RecvKexinit("S", z, Head(a).b, g),
                      Tail(a), b, m)
<1>. PICK ka, kb, ua, ub : Joined(g, c, s, a, b, m, ka, kb, ua, ub)
  BY DEF Linked
<1>1. /\ IsSeq(a) /\ Queued(s) /\ IsSeq(s.writequeue) /\ Talking(g, c, s, ka, kb)
  BY JoinedFacts DEF Joined, Queued
<1>2. "KEXINIT" \in KexType /\ "S" \in End
  BY KexPackets DEF End
<1>3. ka # <<>> /\ Head(ka).t = "KEXINIT"
  BY <1>2, HeadSays
<1>4. Idle("S", s) \/ Begun("S", s)
  <2>1. \/ ClientOpens(c, s, ka, kb) \/ BothOpen(c, s, ka, kb)
        \/ ClientMet(g, c, s, ka, kb)
    BY <1>3, TalkHeads DEF Joined
  <2>. QED  BY <2>1 DEF ClientOpens, BothOpen, ClientMet
<1>5. ASSUME Begun("S", s)
      PROVE  ServerAdds(s.writequeue, g, c, RecvKexinit("S", z, Head(a).b, g),
                        Tail(a), b, m)
  <2>. DEFINE y == RecvKexinit("S", z, Head(a).b, g)
  <2>1. Linked(g, c, y, Tail(a), b, m) /\ y.writequeue = s.writequeue
    BY <1>5, ServerMeets
  <2>. HIDE DEF y
  <2>2. ServerAdds(s.writequeue, g, c, y, Tail(a), b, m)
    BY <1>1, <2>1, NothingAdded
  <2>. QED  BY <2>2 DEF y
<1>6. ASSUME Idle("S", s)
      PROVE  ServerAdds(s.writequeue, g, c, RecvKexinit("S", z, Head(a).b, g),
                        Tail(a), b, m)
  <2>1. s.authdone
    <3>1. s.donefirstkex /\ s.authdone \in BOOLEAN
      BY <1>6 DEF Idle, Formed
    <3>2. Line(a, ka, ua, c, s)
      BY DEF Joined
    <3>. QED  BY <3>1, <3>2, <1>1, KexinitLate
  <2>2. /\ Alike(s, z) /\ z.writequeue = s.writequeue
        /\ z.replyq = s.replyq /\ z.exited = s.exited
        /\ z.authdone = s.authdone
    BY <1>6, IdleArrived
  <2>3. s.exited \in Fine
    BY JoinedFacts DEF Waiting
  <2>4. Linked(g, c, z, a, b, m)
    BY <2>2, <2>3, ServerAlike
  <2>5. Idle("S", z) /\ z.authdone
    BY <1>6, <2>1, <2>2, PhaseSame
  <2>. DEFINE x == SendKexinit("S", z)
              y == RecvKexinit("S", x, Head(a).b, g)
  <2>6. /\ ServerAdds(z.writequeue, g, c, x, a, b, m) /\ Begun("S", x)
    BY <2>4, <2>5, ServerBegins
  <2>7. RecvKexinit("S", z, Head(a).b, g) = y
    BY <2>5, <1>2, KexinitAnswered
  <2>. HIDE DEF x
  <2>8. PICK r : IsSeq(r) /\ x.writequeue = z.writequeue \o r /\ Linked(g, c, x, a, b \o r, m)
    BY <2>6 DEF ServerAdds
  <2>9. DOMAIN x = Names
    BY <2>6 DEF Begun, Formed
  <2>10. But(x, x, {"requirenext", "lastpacket"})
    BY <2>9, ItselfBut
  <2>11. Linked(g, c, y, Tail(a), b \o r, m) /\ y.writequeue = x.writequeue
    BY <2>6, <2>8, <2>10, ServerMeets
  <2>. HIDE DEF y
  <2>12. ServerAdds(s.writequeue, g, c, y, Tail(a), b, m)
    BY <2>2, <2>8, <2>11 DEF ServerAdds
  <2>. QED  BY <2>7, <2>12
<1>. QED  BY <1>4, <1>5, <1>6

---------------------------------------------------------------------------
(* The exchange in cli_sessionloop() *)

\* The client adds r to what it has written, and reads nothing.
LEMMA ClientSendsKex ==
    ASSUME NEW g, NEW c, NEW s, NEW a, NEW b, NEW m, NEW ka, NEW kb, NEW ua,
           NEW ub, Joined(g, c, s, a, b, m, ka, kb, ua, ub),
           NEW y, NEW r, NEW la, IsSeq(r), Talk(g, y, s, la, kb),
           Line(b, kb, ub, s, y), Line(a \o r, la, ua, y, s),
           y.authdone = c.authdone, y.exited = c.exited, y.replyq = c.replyq,
           c.donefirstkex => y.donefirstkex,
           s.authdone /\ ~c.authdone => r = <<>>,
           y.writequeue = c.writequeue \o r
    PROVE  ClientAdds(c.writequeue, g, y, s, a, b, m)
<1>1. /\ Queued(c) /\ Queued(s) /\ IsSeq(a) /\ IsSeq(b) /\ Both(c, s, m, a)
      /\ Dialog(m, s.authdone, ua, ub)
  BY DEF Joined
<1>2. IsSeq(a \o r)
  BY <1>1, Concat
<1>3. Queued(y)
  <2>1. PICK q : q = c.writequeue
    OBVIOUS
  <2>2. IsSeq(q \o r)
    BY <2>1, <1>1, Concat DEF Queued
  <2>. QED  BY <2>1, <2>2, <1>1 DEF Queued
<1>4. Both(y, s, m, a \o r)
  <2>1. s.authdone /\ ~c.authdone => a \o r = <<>>
    <3>1. s.authdone /\ ~c.authdone => a = <<>> /\ r = <<>>
      BY <1>1 DEF Both
    <3>2. <<>> \o <<>> = <<>>
      BY Empty, Concat
    <3>. QED  BY <3>1, <3>2
  <2>2. Waiting(y) /\ Waiting(s)
    BY <1>1 DEF Both, Waiting
  <2>. QED  BY <2>1, <2>2, <1>1 DEF Both
<1>5. Linked(g, y, s, a \o r, b, m)
  BY <1>1, <1>2, <1>3, <1>4 DEF Joined, Linked
<1>. QED  BY <1>5 DEF ClientAdds
---------------------------------------------------------------------------

LEMMA DoneFields ==
    ASSUME NEW c, NEW x, Switched("C", c), But(c, x, {"kex_state"}),
           x.kex_state = "KEX_NOTHING"
    PROVE  /\ Switched("C", x) /\ x.keys = c.keys /\ x.authdone = c.authdone
           /\ x.exited = c.exited /\ x.replyq = c.replyq
           /\ x.writequeue = c.writequeue /\ x.donefirstkex = c.donefirstkex
           /\ AsSender(c, x) /\ AsReader(c, x)
<1>1. /\ DOMAIN x = Names
      /\ x.sentkexinit = c.sentkexinit /\ x.recvkexinit = c.recvkexinit
      /\ x.sentnewkeys = c.sentnewkeys /\ x.recvnewkeys = c.recvnewkeys
      /\ x.donefirstkex = c.donefirstkex
      /\ x.our_first_follows_matches = c.our_first_follows_matches
      /\ x.dataallowed = c.dataallowed /\ x.ignorenext = c.ignorenext
      /\ x.requirenext = c.requirenext /\ x.transkexinit = c.transkexinit
      /\ x.kexhash = c.kexhash /\ x.newkeys = c.newkeys
      /\ x.keys = c.keys /\ x.authdone = c.authdone
      /\ x.param = c.param /\ x.drawn = c.drawn
      /\ x.exited = c.exited /\ x.replyq = c.replyq
      /\ x.writequeue = c.writequeue
  BY DEF But, Names
<1>. QED  BY <1>1 DEF Switched, Formed, Keyed, AsSender, AsReader

LEMMA TalkClientDone ==
    ASSUME NEW g, NEW c, NEW s, NEW ka, NEW kb, NEW x, Talk(g, c, s, ka, kb),
           Switched("C", c), Switched("C", x), x.keys = c.keys
    PROVE  Talk(g, x, s, ka, kb)
<1>1. /\ Idle("C", c) => FALSE
      /\ Begun("C", c) => FALSE
      /\ Met(g, "C", c) => FALSE
  BY Distinct
<1>2. \/ BothSwitched(c, s, ka, kb) \/ ServerDone(c, s, ka, kb)
      \/ ServerReopens(c, s, ka, kb)
  BY <1>1 DEF Talk, Resting, ClientOpens, ServerOpens, BothOpen, ServerMet,
     ClientMet, BothMet, ServerAhead, Replied, ClientDone, ClientReopens
<1>3. \/ BothSwitched(x, s, ka, kb) \/ ServerDone(x, s, ka, kb)
      \/ ServerReopens(x, s, ka, kb)
  BY <1>2 DEF BothSwitched, ServerDone, ServerReopens, Paired
<1>. QED  BY <1>3 DEF Talk

LEMMA ClientKexDone ==
    ASSUME NEW g, NEW c, NEW s, NEW a, NEW b, NEW m, Linked(g, c, s, a, b, m)
    PROVE  /\ Linked(g, KexDone(c), s, a, b, m)
           /\ KexDone(c).writequeue = c.writequeue
           /\ KexDone(c).exited = c.exited /\ KexDone(c).lastpacket = c.lastpacket
           /\ KexDone(c).authdone = c.authdone
           /\ KexDone(c).donefirstkex = c.donefirstkex
           /\ Switched("C", c) =>
                Switched("C", KexDone(c)) /\ KexDone(c).kex_state = "KEX_NOTHING"
           /\ ~Switched("C", c) => KexDone(c) = c
<1>. PICK ka, kb, ua, ub : Joined(g, c, s, a, b, m, ka, kb, ua, ub)
  BY DEF Linked
<1>1. DOMAIN c = Names /\ Talking(g, c, s, ka, kb)
  BY JoinedFacts
<1>2. Switched("C", c) <=> c.sentnewkeys
  BY <1>1, Distinct DEF Talking, Stands
<1>3. CASE ~Switched("C", c)
  <2>1. KexDone(c) = c
    BY <1>2, <1>3 DEF KexDone
  <2>. QED  BY <2>1, <1>3
<1>4. CASE Switched("C", c)
  <2>. DEFINE x == KexDone(c)
  <2>1. But(c, x, {"kex_state"}) /\ x.kex_state = "KEX_NOTHING"
    BY <1>1, <1>2, <1>4 DEF KexDone, But, Names
  <2>. HIDE DEF x
  <2>2. /\ Switched("C", x) /\ x.keys = c.keys /\ x.authdone = c.authdone
        /\ x.exited = c.exited /\ x.replyq = c.replyq
        /\ x.writequeue = c.writequeue /\ x.donefirstkex = c.donefirstkex
        /\ AsSender(c, x) /\ AsReader(c, x)
    BY <1>4, <2>1, DoneFields
  <2>3. Talk(g, x, s, ka, kb)
    BY <1>4, <2>2, TalkClientDone DEF Joined
  <2>4. Line(a, ka, ua, x, s) /\ Line(b, kb, ub, s, x)
    BY <2>2, ReaderSame, LineSame DEF Joined
  <2>5. Both(x, s, m, a) /\ Queued(x)
    BY <2>2 DEF Joined, Both, Waiting, Queued
  <2>6. Linked(g, x, s, a, b, m)
    BY <2>3, <2>4, <2>5 DEF Joined, Linked
  <2>7. x.lastpacket = c.lastpacket
    BY <2>1 DEF But, Names
  <2>. QED  BY <1>4, <2>1, <2>2, <2>6, <2>7 DEF x
<1>. QED  BY <1>3, <1>4
---------------------------------------------------------------------------

LEMMA TalkClientStarts ==
    ASSUME NEW g, NEW c, NEW s, NEW ka, NEW kb, NEW x, Talk(g, c, s, ka, kb),
           Met(g, "C", c), c.kex_state = "KEX_NOTHING", Met(g, "C", x),
           x.kex_state = "KEXDH_INIT_SENT", x.kexhash = c.kexhash,
           ~Wrong(g) => x.param = c.param
    PROVE  /\ ~Wrong(g) => Talk(g, x, s, ka, kb)
           /\ Wrong(g) => Talk(g, x, s, Append(ka, Second(g, x)), kb)
<1>1. /\ Idle("C", c) => FALSE
      /\ Begun("C", c) => FALSE
      /\ Switched("C", c) => FALSE
  BY Distinct
<1>2. \/ ClientMet(g, c, s, ka, kb) \/ BothMet(g, c, s, ka, kb)
      \/ Replied(g, c, s, ka, kb)
  BY <1>1 DEF Talk, Resting, ClientOpens, ServerOpens, BothOpen, ServerMet,
     ServerAhead, BothSwitched, ClientDone, ServerDone, ClientReopens, ServerReopens
<1>3. ~Again(g, c) /\ (Again(g, x) <=> Wrong(g))
  BY DEF Again
<1>4. PICK q : q = Second(g, x)
  OBVIOUS
<1>5. ASSUME ClientMet(g, c, s, ka, kb)
      PROVE  /\ ~Wrong(g) => ClientMet(g, x, s, ka, kb)
             /\ Wrong(g) => ClientMet(g, x, s, Append(ka, q), kb)
  <2>1. /\ Begun("S", s) /\ c.kexhash.s = s.transkexinit /\ kb = <<>>
        /\ \E v \in Nat : /\ ~Wrong(g) => v = c.param.x
                          /\ ka = <<KI("C", c.kexhash.c), KD("first", v)>>
    BY <1>3, <1>5 DEF ClientMet
  <2>2. PICK v \in Nat : /\ ~Wrong(g) => v = c.param.x
                         /\ ka = <<KI("C", c.kexhash.c), KD("first", v)>>
    BY <2>1
  <2>3. PICK n, p : n = KI("C", c.kexhash.c) /\ p = KD("first", v)
    OBVIOUS
  <2>4. Append(ka, q) = <<n, p, q>>
    <3>1. ka = <<n, p>>
      BY <2>2, <2>3
    <3>. QED  BY <3>1, Third, Zenon
  <2>5. ~Wrong(g) => ClientMet(g, x, s, ka, kb)
    BY <2>1, <2>2, <1>3 DEF ClientMet
  <2>6. Wrong(g) => ClientMet(g, x, s, Append(ka, q), kb)
    <3>1. Append(ka, q) = <<KI("C", x.kexhash.c), KD("first", v), Second(g, x)>>
      BY <2>3, <2>4, <1>4
    <3>. QED  BY <3>1, <2>1, <2>2, <1>3 DEF ClientMet
  <2>. QED  BY <2>5, <2>6
<1>6. ASSUME BothMet(g, c, s, ka, kb)
      PROVE  /\ ~Wrong(g) => BothMet(g, x, s, ka, kb)
             /\ Wrong(g) => BothMet(g, x, s, Append(ka, q), kb)
  <2>1. /\ Met(g, "S", s) /\ c.kexhash = s.kexhash /\ kb = <<>>
        /\ \E v \in Nat : /\ ~Wrong(g) => v = c.param.x
                          /\ ka = IF Unread(g, s) THEN <<KD("first", v)>> ELSE <<>>
    BY <1>3, <1>6 DEF BothMet
  <2>2. PICK v \in Nat :
             /\ ~Wrong(g) => v = c.param.x
             /\ ka = IF Unread(g, s) THEN <<KD("first", v)>> ELSE <<>>
    BY <2>1
  <2>3. PICK p : p = KD("first", v)
    OBVIOUS
  <2>4. Append(ka, q) = IF Unread(g, s) THEN <<p, q>> ELSE <<q>>
    <3>1. Unread(g, s) => ka = <<p>>
      BY <2>2, <2>3
    <3>2. ~Unread(g, s) => ka = <<>>
      BY <2>2
    <3>3. Append(<<p>>, q) = <<p, q>> /\ Append(<<>>, q) = <<q>>
      BY Grown, Zenon
    <3>. QED  BY <3>1, <3>2, <3>3
  <2>5. ~Wrong(g) => BothMet(g, x, s, ka, kb)
    BY <2>1, <2>2, <1>3 DEF BothMet
  <2>6. Wrong(g) => BothMet(g, x, s, Append(ka, q), kb)
    <3>1. Append(ka, q) = IF Unread(g, s) THEN <<KD("first", v), Second(g, x)>>
                          ELSE <<Second(g, x)>>
      BY <2>3, <2>4, <1>4
    <3>. QED  BY <3>1, <2>1, <2>2, <1>3 DEF BothMet
  <2>. QED  BY <2>5, <2>6
<1>7. ASSUME Replied(g, c, s, ka, kb)
      PROVE  ~Wrong(g) /\ Replied(g, x, s, ka, kb)
  BY <1>7 DEF Replied
<1>. QED  BY <1>2, <1>4, <1>5, <1>6, <1>7 DEF Talk

LEMMA StartedFields ==
    ASSUME NEW g, NEW c, NEW x, Started(g, c, x)
    PROVE  /\ x.keys = c.keys /\ x.authdone = c.authdone /\ x.exited = c.exited
           /\ x.donefirstkex = c.donefirstkex /\ x.replyq = c.replyq
           /\ x.kexhash = c.kexhash /\ x.lastpacket = c.lastpacket
           /\ AsSender(c, x) /\ AsReader(c, x)
<1>1. /\ x.keys = c.keys /\ x.authdone = c.authdone /\ x.exited = c.exited
      /\ x.donefirstkex = c.donefirstkex /\ x.requirenext = c.requirenext
      /\ x.kexhash = c.kexhash /\ x.lastpacket = c.lastpacket
  BY DEF Started, But, Names, Queues
<1>. QED  BY <1>1 DEF Started, AsSender, AsReader

LEMMA ClientStarts ==
    ASSUME NEW g, NEW c, NEW s, NEW a, NEW b, NEW m, NEW x,
           Linked(g, c, s, a, b, m), Met(g, "C", c),
           c.kex_state = "KEX_NOTHING", Started(g, c, x)
    PROVE  ClientAdds(c.writequeue, g, x, s, a, b, m)
<1>. PICK ka, kb, ua, ub : Joined(g, c, s, a, b, m, ka, kb, ua, ub)
  BY DEF Linked
<1>1. /\ Writer(a, ka, ua, c, s) /\ IsSeq(a) /\ IsSeq(b) /\ Queued(c)
  BY JoinedFacts DEF Joined
<1>2. /\ x.keys = c.keys /\ x.authdone = c.authdone /\ x.exited = c.exited
      /\ x.donefirstkex = c.donefirstkex /\ x.replyq = c.replyq
      /\ x.kexhash = c.kexhash /\ x.lastpacket = c.lastpacket
      /\ AsSender(c, x) /\ AsReader(c, x)
  BY StartedFields
<1>3. /\ ~Wrong(g) => Talk(g, x, s, ka, kb)
      /\ Wrong(g) => Talk(g, x, s, Append(ka, Second(g, x)), kb)
  BY <1>2, TalkClientStarts DEF Started, Joined
<1>4. Line(b, kb, ub, s, x) /\ Line(a, ka, ua, x, s)
  BY <1>2, ReaderSame, LineSame DEF Joined
<1>5. ~(s.authdone /\ ~c.authdone)
  <2>1. c.donefirstkex = c.authdone
    BY DEF Met
  <2>. QED  BY <2>1, AcceptedLate
<1>6. CASE ~Wrong(g)
  <2>1. a \o <<>> = a /\ c.writequeue \o <<>> = c.writequeue /\ IsSeq(<<>>)
    BY <1>1, Empty, Concat DEF Queued
  <2>2. x.writequeue = c.writequeue
    BY <1>6 DEF Started
  <2>. QED  BY <2>1, <2>2, <1>2, <1>3, <1>4, <1>6, ClientSendsKex
<1>7. CASE Wrong(g)
  <2>1. PICK p : /\ Stamped(p, c, "KEXDH_INIT", Second(g, x).b)
                 /\ x.writequeue = Append(c.writequeue, p)
    BY <1>7 DEF Started
  <2>2. Second(g, x) = [t |-> "KEXDH_INIT", b |-> Second(g, x).b] /\ "KEXDH_INIT" \in KexType
    BY KexPackets
  <2>3. PICK n : n = Second(g, x)
    OBVIOUS
  <2>4. Line(Append(a, p), Append(ka, n), ua, x, s)
    <3>1. Line(Append(a, p), Append(ka, [t |-> "KEXDH_INIT", b |-> n.b]), ua, x, s)
      BY <2>1, <2>2, <2>3, <1>1, <1>2, LineKexSent
    <3>. QED  BY <3>1, <2>2, <2>3
  <2>5. /\ IsSeq(<<p>>) /\ Append(a, p) = a \o <<p>>
        /\ x.writequeue = c.writequeue \o <<p>>
    <3>1. PICK w : w = c.writequeue
      OBVIOUS
    <3>2. IsSeq(w) /\ x.writequeue = Append(w, p)
      BY <3>1, <1>1, <2>1 DEF Queued
    <3>. QED  BY <3>1, <3>2, <1>1, OneMore
  <2>6. PICK r : r = <<p>>
    OBVIOUS
  <2>7. /\ IsSeq(r) /\ Line(a \o r, Append(ka, n), ua, x, s)
        /\ x.writequeue = c.writequeue \o r
    BY <2>4, <2>5, <2>6
  <2>8. Talk(g, x, s, Append(ka, n), kb)
    BY <1>3, <1>7, <2>3
  <2>. QED  BY <2>7, <2>8, <1>2, <1>4, <1>5, ClientSendsKex
<1>. QED  BY <1>6, <1>7

---------------------------------------------------------------------------
(* process_packet() finds nothing wrong with what it reads *)

Accepts(r, p) ==
    /\ Readable(r, p) /\ Inflatable(r, p) /\ p.t \in KexType \cup UpperType
    /\ r.requirenext \in {"none", p.t}
    /\ r.authdone \/ p.t \notin ConnectionType
    /\ p.t \in UpperType => r.requirenext = "none" /\ r.ignorenext = FALSE
    /\ DOMAIN r = Names /\ r.ignorenext \in BOOLEAN

LEMMA HeadAccepted ==
    ASSUME NEW g, NEW e, NEW w, NEW ks, NEW us, NEW s, NEW r, IsSeq(w),
           w # <<>>, Line(w, ks, us, s, r), Stands(g, e, r),
           s.authdone \in BOOLEAN,
           r.authdone => s.authdone,
           Head(w).t \in KexType => r.requirenext \in {"none", Head(w).t}
    PROVE  Accepts(r, Head(w))
<1>. PICK p : p = w[1]
  OBVIOUS
<1>1. /\ ~Before(w, SUCCESS, 1) /\ ~Before(w, "NEWKEYS", 1)
      /\ 1 \in 1..Len(w) /\ Head(w) = p
  BY ReadBefore
<1>2. /\ DOMAIN r = Names /\ r.authdone \in BOOLEAN
      /\ r.authdone => Keyed(r)
      /\ r.ignorenext \in BOOLEAN /\ (r.ignorenext => Met(g, e, r))
  BY StandFacts
<1>3. p.t \in KexType \cup UpperType /\ Readable(r, p)
  BY <1>1 DEF Line, Readable
<1>4. Inflatable(r, p)
  <2>1. p.z \in BOOLEAN /\ (p.z <=> Compress /\ s.authdone /\ r.authdone)
    BY <1>1 DEF Line
  <2>2. r.authdone => r.keys.recv # NoKeys
    BY <1>2 DEF Keyed
  <2>. QED  BY <2>1, <2>2, <1>2, TransportAssumption DEF Inflatable, IsCompressRecv
<1>5. p.t \in UpperType => r.requirenext = "none"
  BY <1>1 DEF Line
<1>6. p.t \in UpperType => r.ignorenext = FALSE
  <2>1. Met(g, e, r) => r.requirenext # "none"
    BY DEF Met
  <2>. QED  BY <2>1, <1>2, <1>5
<1>7. r.authdone \/ p.t \notin ConnectionType
  BY <1>1, <1>2 DEF Line
<1>. QED  BY <1>1, <1>2, <1>3, <1>4, <1>5, <1>6, <1>7 DEF Accepts

\* What an accepted packet of type t becomes.
LEMMA Dispatches ==
    ASSUME NEW r, NEW p, NEW h, Accepts(r, p)
    PROVE  /\ ~r.ignorenext => Read(r, p, ProcessPacket(r, p.t, h)) = h
           /\ r.ignorenext => Read(r, p, ProcessPacket(r, p.t, h))
                              = [Noted(r, p.t) EXCEPT !.ignorenext = FALSE]
<1>1. p.t # "UNIMPLEMENTED"
  BY DEF Accepts, KexType, UpperType, ServiceType, AuthType, ConnectionType
<1>. QED  BY <1>1 DEF Accepts, Read, ProcessPacket

LEMMA Noting ==
    ASSUME NEW r, NEW t, DOMAIN r = Names, r.requirenext \in {"none", t}
    PROVE  /\ But(r, ForHandler(r, t), {"requirenext", "lastpacket"})
           /\ ForHandler(r, t).requirenext = "none"
           /\ ForHandler(r, t).lastpacket = t
           /\ But(r, [Noted(r, t) EXCEPT !.ignorenext = FALSE],
                  {"lastpacket", "ignorenext"})
           /\ [Noted(r, t) EXCEPT !.ignorenext = FALSE].ignorenext = FALSE
           /\ [Noted(r, t) EXCEPT !.ignorenext = FALSE].lastpacket = t
BY DEF But, Names, ForHandler, Noted
---------------------------------------------------------------------------

LEMMA ClientAccepts ==
    ASSUME NEW g, NEW c, NEW s, NEW a, NEW b, NEW m, Linked(g, c, s, a, b, m),
           b # <<>>
    PROVE  Accepts(c, Head(b)) /\ c.ignorenext = FALSE
<1>. PICK ka, kb, ua, ub : Joined(g, c, s, a, b, m, ka, kb, ua, ub)
  BY DEF Linked
<1>1. /\ IsSeq(b) /\ Talking(g, c, s, ka, kb) /\ Line(b, kb, ub, s, c)
      /\ Talk(g, c, s, ka, kb)
  BY JoinedFacts DEF Joined
<1>2. Stands(g, "C", c) /\ Stands(g, "S", s)
  BY <1>1 DEF Talking
<1>3. s.authdone \in BOOLEAN /\ c.authdone \in BOOLEAN
  BY <1>2, StandFacts
<1>4. c.authdone => s.authdone
  BY DEF Joined, Both
<1>5. c.ignorenext = FALSE
  <2>1. c.ignorenext \in BOOLEAN /\ (c.ignorenext => "C" = "S")
    BY <1>2, StandFacts
  <2>. QED  BY <2>1
<1>6. Head(b).t \in KexType => c.requirenext \in {"none", Head(b).t}
  <2>. HAVE Head(b).t \in KexType
  <2>1. kb # <<>> /\ Head(kb).t = Head(b).t
    BY HeadSays
  <2>2. CASE /\ Head(kb).t = "KEXINIT"
             /\ \/ ServerOpens(c, s, ka, kb) \/ BothOpen(c, s, ka, kb)
                \/ ServerMet(g, c, s, ka, kb)
                \/ ServerAhead(g, c, s, ka, kb)
    <3>1. Idle("C", c) \/ Begun("C", c)
      BY <2>2 DEF ServerOpens, BothOpen, ServerMet, ServerAhead
    <3>. QED  BY <3>1, <2>1, <2>2 DEF Idle, Begun
  <2>3. CASE Head(kb).t = "KEXDH_REPLY" /\ Replied(g, c, s, ka, kb)
    BY <2>1, <2>3 DEF Replied, Met
  <2>4. CASE /\ Head(kb).t = "NEWKEYS"
             /\ \/ BothSwitched(c, s, ka, kb) \/ ServerDone(c, s, ka, kb)
                \/ ServerReopens(c, s, ka, kb)
    <3>1. Switched("C", c)
      BY <2>4 DEF BothSwitched, ServerDone, ServerReopens
    <3>. QED  BY <3>1, <2>1, <2>4 DEF Switched
  <2>. QED  BY <2>1, <2>2, <2>3, <2>4, <1>1, TalkHeads
<1>7. Accepts(c, Head(b))
  BY <1>1, <1>2, <1>3, <1>4, <1>6, HeadAccepted
<1>. QED  BY <1>5, <1>7

LEMMA ServerAccepts ==
    ASSUME NEW g, NEW c, NEW s, NEW a, NEW b, NEW m, Linked(g, c, s, a, b, m),
           a # <<>>
    PROVE  /\ Accepts(s, Head(a))
           /\ s.ignorenext => Head(a).t = "KEXDH_INIT" /\ Met(g, "S", s)
           /\ Head(a).t = "KEXDH_INIT" => Met(g, "S", s)
           /\ s.authdone => c.authdone
<1>. PICK ka, kb, ua, ub : Joined(g, c, s, a, b, m, ka, kb, ua, ub)
  BY DEF Linked
<1>1. /\ IsSeq(a) /\ Talking(g, c, s, ka, kb) /\ Line(a, ka, ua, c, s)
      /\ Talk(g, c, s, ka, kb)
  BY JoinedFacts DEF Joined
<1>2. Stands(g, "C", c) /\ Stands(g, "S", s)
  BY <1>1 DEF Talking
<1>3. s.authdone \in BOOLEAN /\ c.authdone \in BOOLEAN
  BY <1>2, StandFacts
<1>4. s.authdone => c.authdone
  BY <1>3 DEF Joined, Both
<1>5. Head(a).t \in KexType =>
        /\ s.requirenext \in {"none", Head(a).t}
        /\ Head(a).t = "KEXDH_INIT" => Met(g, "S", s)
  <2>. HAVE Head(a).t \in KexType
  <2>1. ka # <<>> /\ Head(ka).t = Head(a).t
    BY HeadSays
  <2>2. CASE /\ Head(ka).t = "KEXINIT"
             /\ \/ ClientOpens(c, s, ka, kb) \/ BothOpen(c, s, ka, kb)
                \/ ClientMet(g, c, s, ka, kb)
    <3>1. Idle("S", s) \/ Begun("S", s)
      BY <2>2 DEF ClientOpens, BothOpen, ClientMet
    <3>. QED  BY <3>1, <2>1, <2>2 DEF Idle, Begun
  <2>3. CASE /\ Head(ka).t = "KEXDH_INIT"
             /\ ServerMet(g, c, s, ka, kb) \/ BothMet(g, c, s, ka, kb)
    <3>1. Met(g, "S", s)
      BY <2>3 DEF ServerMet, BothMet
    <3>. QED  BY <3>1, <2>1, <2>3 DEF Met
  <2>4. CASE /\ Head(ka).t = "NEWKEYS"
             /\ \/ BothSwitched(c, s, ka, kb) \/ ClientDone(c, s, ka, kb)
                \/ ClientReopens(c, s, ka, kb)
    <3>1. Switched("S", s)
      BY <2>4 DEF BothSwitched, ClientDone, ClientReopens
    <3>. QED  BY <3>1, <2>1, <2>4 DEF Switched
  <2>. QED  BY <2>1, <2>2, <2>3, <2>4, <1>1, TalkHeads
<1>6. Accepts(s, Head(a))
  BY <1>1, <1>2, <1>3, <1>4, <1>5, HeadAccepted
<1>7. s.ignorenext => Head(a).t = "KEXDH_INIT" /\ Met(g, "S", s)
  <2>. HAVE s.ignorenext
  <2>1. Met(g, "S", s)
    BY <1>2, StandFacts
  <2>2. s.requirenext = "KEXDH_INIT"
    BY <2>1 DEF Met
  <2>. QED  BY <2>1, <2>2, <1>6 DEF Accepts
<1>8. Head(a).t = "KEXDH_INIT" => Met(g, "S", s)
  BY <1>5, KexPackets
<1>. QED  BY <1>4, <1>6, <1>7, <1>8

---------------------------------------------------------------------------
(* A packet of the layers above is read *)

\* The session x has read the packet at the head of a, and nothing else has
\* changed; va is what is left of the dialogue.
ServerRead(g, c, s, x, a, b, m, ka, kb, va, ub) ==
    /\ Alike(s, x) /\ Talk(g, c, x, ka, kb) /\ IsSeq(va)
    /\ Line(Tail(a), ka, va, c, x) /\ Line(b, kb, ub, x, c)
    /\ Writer(b, kb, ub, x, c)
    /\ x.writequeue = s.writequeue /\ x.replyq = s.replyq
    /\ x.exited = s.exited /\ x.authdone = s.authdone
    /\ Queued(x) /\ Both(c, x, m, Tail(a)) /\ IsSeq(Tail(a))
ClientRead(g, c, s, x, a, b, m, ka, kb, ua, vb) ==
    /\ Alike(c, x) /\ Talk(g, x, s, ka, kb) /\ IsSeq(vb)
    /\ Line(Tail(b), kb, vb, s, x) /\ Line(a, ka, ua, x, s)
    /\ Writer(a, ka, ua, x, s)
    /\ x.writequeue = c.writequeue /\ x.replyq = c.replyq
    /\ x.exited = c.exited /\ x.authdone = c.authdone
    /\ Queued(x) /\ Both(x, s, m, a) /\ IsSeq(Tail(b))

LEMMA UpperArrived ==
    ASSUME NEW s, NEW t \in UpperType, NEW p, Accepts(s, p), p.t = t
    PROVE  LET x == ForHandler(s, t)
           IN  /\ Alike(s, x) /\ x.writequeue = s.writequeue
               /\ x.replyq = s.replyq /\ x.exited = s.exited
               /\ x.authdone = s.authdone /\ x.keys = s.keys
               /\ x.requirenext = "none" /\ s.requirenext = "none"
               /\ x.donefirstkex = s.donefirstkex /\ x.lastpacket = t
<1>. DEFINE x == ForHandler(s, t)
<1>1. DOMAIN s = Names /\ s.requirenext = "none"
  BY DEF Accepts
<1>2. /\ But(s, x, {"requirenext", "lastpacket"})
      /\ x.requirenext = "none" /\ x.lastpacket = t
  <2>1. s.requirenext \in {"none", t}
    BY <1>1
  <2>2. /\ But(s, ForHandler(s, t), {"requirenext", "lastpacket"})
        /\ ForHandler(s, t).requirenext = "none"
        /\ ForHandler(s, t).lastpacket = t
    BY <1>1, <2>1 DEF But, Names, ForHandler
  <2>. QED  BY <2>2
<1>. HIDE DEF x
<1>3. Alike(s, x)
  BY <1>1, <1>2 DEF Alike, But, Loose, Names
<1>4. /\ x.writequeue = s.writequeue
      /\ x.replyq = s.replyq /\ x.exited = s.exited
      /\ x.authdone = s.authdone /\ x.keys = s.keys
      /\ x.donefirstkex = s.donefirstkex
  BY <1>2 DEF But, Names
<1>. QED  BY <1>1, <1>2, <1>3, <1>4 DEF x

\* LineRead for such a packet.
LEMMA LineUpperRead ==
    ASSUME NEW w, NEW ks, NEW us, NEW s, NEW r, NEW x, IsSeq(w), IsSeq(ks),
           IsSeq(us), Line(w, ks, us, s, r), w # <<>>,
           NEW t \in UpperType \ {SUCCESS}, Head(w).t = t,
           x.keys = r.keys, x.authdone = r.authdone, x.requirenext = "none",
           x.donefirstkex = r.donefirstkex
    PROVE  Line(Tail(w), ks, IF t \in Dialogue THEN Tail(us) ELSE us, s, x)
<1>. PICK p : p = Head(w)
  OBVIOUS
<1>1. p.t = t /\ p.t # SUCCESS /\ p.t # "NEWKEYS" /\ p.t \notin KexType
  BY Types
<1>2. Line(Tail(w), IF p.t \in KexType THEN Tail(ks) ELSE ks,
           IF p.t \in Dialogue THEN Tail(us) ELSE us, s, x)
  BY <1>1, LineRead
<1>. QED  BY <1>1, <1>2

LEMMA ServerUpperRead ==
    ASSUME NEW g, NEW c, NEW s, NEW a, NEW b, NEW m, NEW ka, NEW kb, NEW ua,
           NEW ub, Joined(g, c, s, a, b, m, ka, kb, ua, ub), a # <<>>,
           NEW t \in UpperType \ {SUCCESS}, Head(a).t = t,
           t \in Dialogue => ua # <<>>
    PROVE  ServerRead(g, c, s, ForHandler(s, t), a, b, m, ka, kb,
                      IF t \in Dialogue THEN Tail(ua) ELSE ua, ub)
<1>. DEFINE x == ForHandler(s, t)
            va == IF t \in Dialogue THEN Tail(ua) ELSE ua
<1>1. Accepts(s, Head(a)) /\ (s.authdone => c.authdone)
  BY ServerAccepts DEF Linked
<1>2. /\ Alike(s, x) /\ x.writequeue = s.writequeue
      /\ x.replyq = s.replyq /\ x.exited = s.exited
      /\ x.authdone = s.authdone /\ x.keys = s.keys
      /\ x.requirenext = "none" /\ s.requirenext = "none"
      /\ x.donefirstkex = s.donefirstkex
  <2>. PICK p : p = Head(a)
    OBVIOUS
  <2>1. p.t = t /\ Accepts(s, p) /\ t \in UpperType
    BY <1>1
  <2>. QED  BY <2>1, UpperArrived
<1>. HIDE DEF x
<1>3. /\ Writer(a, ka, ua, c, s) /\ Writer(b, kb, ub, s, c) /\ DOMAIN c = Names
  BY JoinedFacts
<1>4. Talk(g, c, x, ka, kb)
  <2>1. Alike(c, c)
    BY <1>3 DEF Alike, But
  <2>. QED  BY <2>1, <1>2, TalkSame DEF Joined
<1>5. Line(b, kb, ub, x, c)
  BY <1>2, AlikeSender, ReaderSame, LineSame DEF Joined
<1>6. Writer(b, kb, ub, x, c)
  <2>1. DOMAIN x = Names /\ x.dataallowed = s.dataallowed
    BY <1>2, AlikeFields
  <2>. QED  BY <2>1, <1>2, <1>3, <1>5 DEF Writer, Covered, Keyed
<1>7. Line(Tail(a), ka, va, c, x)
  BY <1>2, <1>3, LineUpperRead DEF Writer
<1>8. IsSeq(va) /\ IsSeq(Tail(a))
  BY <1>3, Rest DEF Writer
<1>9. Queued(x) /\ Both(c, x, m, Tail(a))
  <2>1. ~(s.authdone /\ ~c.authdone)
    BY <1>1
  <2>. QED  BY <2>1, <1>2 DEF Joined, Both, Waiting, Queued
<1>10. ServerRead(g, c, s, x, a, b, m, ka, kb, va, ub)
  BY <1>2, <1>4, <1>5, <1>6, <1>7, <1>8, <1>9 DEF ServerRead
<1>. QED  BY <1>10 DEF x

LEMMA ClientUpperRead ==
    ASSUME NEW g, NEW c, NEW s, NEW a, NEW b, NEW m, NEW ka, NEW kb, NEW ua,
           NEW ub, Joined(g, c, s, a, b, m, ka, kb, ua, ub), b # <<>>,
           NEW t \in UpperType \ {SUCCESS}, Head(b).t = t,
           t \in Dialogue => ub # <<>>
    PROVE  ClientRead(g, c, s, ForHandler(c, t), a, b, m, ka, kb, ua,
                      IF t \in Dialogue THEN Tail(ub) ELSE ub)
<1>. DEFINE x == ForHandler(c, t)
            vb == IF t \in Dialogue THEN Tail(ub) ELSE ub
<1>1. Accepts(c, Head(b))
  BY ClientAccepts DEF Linked
<1>2. /\ Alike(c, x) /\ x.writequeue = c.writequeue
      /\ x.replyq = c.replyq /\ x.exited = c.exited
      /\ x.authdone = c.authdone /\ x.keys = c.keys
      /\ x.requirenext = "none" /\ c.requirenext = "none"
      /\ x.donefirstkex = c.donefirstkex
  <2>. PICK p : p = Head(b)
    OBVIOUS
  <2>1. p.t = t /\ Accepts(c, p) /\ t \in UpperType
    BY <1>1
  <2>. QED  BY <2>1, UpperArrived
<1>. HIDE DEF x
<1>3. /\ Writer(a, ka, ua, c, s) /\ Writer(b, kb, ub, s, c) /\ DOMAIN s = Names
  BY JoinedFacts
<1>4. Talk(g, x, s, ka, kb)
  <2>1. Alike(s, s)
    BY <1>3 DEF Alike, But
  <2>. QED  BY <2>1, <1>2, TalkSame DEF Joined
<1>5. Line(a, ka, ua, x, s)
  BY <1>2, AlikeSender, ReaderSame, LineSame DEF Joined
<1>6. Writer(a, ka, ua, x, s)
  <2>1. DOMAIN x = Names /\ x.dataallowed = c.dataallowed
    BY <1>2, AlikeFields
  <2>. QED  BY <2>1, <1>2, <1>3, <1>5 DEF Writer, Covered, Keyed
<1>7. Line(Tail(b), kb, vb, s, x)
  BY <1>2, <1>3, LineUpperRead DEF Writer
<1>8. IsSeq(vb) /\ IsSeq(Tail(b))
  BY <1>3, Rest DEF Writer
<1>9. Queued(x) /\ Both(x, s, m, a)
  BY <1>2 DEF Joined, Both, Waiting, Queued
<1>10. ClientRead(g, c, s, x, a, b, m, ka, kb, ua, vb)
  BY <1>2, <1>4, <1>5, <1>6, <1>7, <1>8, <1>9 DEF ClientRead
<1>. QED  BY <1>10 DEF x
---------------------------------------------------------------------------

\* Requests and replies of the connection layer.
LEMMA ServerConnectionRead ==
    ASSUME NEW g, NEW c, NEW s, NEW a, NEW b, NEW m, Linked(g, c, s, a, b, m),
           a # <<>>, NEW t \in ConnectionType, Head(a).t = t
    PROVE  LET x == ForHandler(s, t)
           IN  /\ Linked(g, c, x, Tail(a), b, m) /\ x.writequeue = s.writequeue
               /\ x.authdone /\ x.exited \in Fine /\ IsSeq(s.writequeue)
<1>. DEFINE x == ForHandler(s, t)
<1>. PICK ka, kb, ua, ub : Joined(g, c, s, a, b, m, ka, kb, ua, ub)
  BY DEF Linked
<1>1. t \in UpperType \ {SUCCESS} /\ t \notin Dialogue
  BY Types
<1>2. ServerRead(g, c, s, x, a, b, m, ka, kb,
                 IF t \in Dialogue THEN Tail(ua) ELSE ua, ub)
  BY <1>1, ServerUpperRead
<1>3. Accepts(s, Head(a))
  BY ServerAccepts
<1>. HIDE DEF x
<1>4. ServerRead(g, c, s, x, a, b, m, ka, kb, ua, ub)
  BY <1>1, <1>2
<1>5. Linked(g, c, x, Tail(a), b, m)
  BY <1>4 DEF ServerRead, Joined, Linked
<1>6. x.authdone
  BY <1>3, <1>4 DEF Accepts, ServerRead
<1>7. x.exited \in Fine /\ x.writequeue = s.writequeue /\ IsSeq(s.writequeue)
  BY <1>4 DEF ServerRead, Joined, Both, Waiting, Queued
<1>. QED  BY <1>5, <1>6, <1>7 DEF x

LEMMA ClientConnectionRead ==
    ASSUME NEW g, NEW c, NEW s, NEW a, NEW b, NEW m, Linked(g, c, s, a, b, m),
           b # <<>>, NEW t \in ConnectionType, Head(b).t = t
    PROVE  LET x == ForHandler(c, t)
           IN  /\ Linked(g, x, s, a, Tail(b), m) /\ x.writequeue = c.writequeue
               /\ x.authdone /\ x.exited \in Fine /\ IsSeq(c.writequeue)
<1>. DEFINE x == ForHandler(c, t)
<1>. PICK ka, kb, ua, ub : Joined(g, c, s, a, b, m, ka, kb, ua, ub)
  BY DEF Linked
<1>1. t \in UpperType \ {SUCCESS} /\ t \notin Dialogue
  BY Types
<1>2. ClientRead(g, c, s, x, a, b, m, ka, kb, ua,
                 IF t \in Dialogue THEN Tail(ub) ELSE ub)
  BY <1>1, ClientUpperRead
<1>3. Accepts(c, Head(b))
  BY ClientAccepts
<1>. HIDE DEF x
<1>4. ClientRead(g, c, s, x, a, b, m, ka, kb, ua, ub)
  BY <1>1, <1>2
<1>5. Linked(g, x, s, a, Tail(b), m)
  BY <1>4 DEF ClientRead, Joined, Linked
<1>6. x.authdone
  BY <1>3, <1>4 DEF Accepts, ClientRead
<1>7. x.exited \in Fine /\ x.writequeue = c.writequeue /\ IsSeq(c.writequeue)
  BY <1>4 DEF ClientRead, Joined, Both, Waiting, Queued
<1>. QED  BY <1>5, <1>6, <1>7 DEF x

---------------------------------------------------------------------------
(* Authentication *)

\* Joined but for what the dialogue is about.
Bare(g, c, s, a, b, ka, kb, ua, ub) ==
    /\ Queued(c) /\ Queued(s) /\ IsSeq(a) /\ IsSeq(b) /\ IsSeq(ua) /\ IsSeq(ub)
    /\ Talk(g, c, s, ka, kb) /\ Line(a, ka, ua, c, s) /\ Line(b, kb, ub, s, c)

LEMMA BareJoined ==
    ASSUME NEW g, NEW c, NEW s, NEW a, NEW b, NEW m, NEW ka, NEW kb, NEW ua,
           NEW ub
    PROVE  /\ Joined(g, c, s, a, b, m, ka, kb, ua, ub) =>
                /\ Bare(g, c, s, a, b, ka, kb, ua, ub) /\ Both(c, s, m, a)
                /\ Dialog(m, s.authdone, ua, ub)
           /\ Bare(g, c, s, a, b, ka, kb, ua, ub) /\ Both(c, s, m, a)
              /\ Dialog(m, s.authdone, ua, ub) => Linked(g, c, s, a, b, m)
BY DialogSeq DEF Joined, Bare, Linked

LEMMA BareFacts ==
    ASSUME NEW g, NEW c, NEW s, NEW a, NEW b, NEW ka, NEW kb, NEW ua,
           NEW ub, Bare(g, c, s, a, b, ka, kb, ua, ub)
    PROVE  /\ Writer(a, ka, ua, c, s) /\ Writer(b, kb, ub, s, c)
           /\ Stands(g, "C", c) /\ Stands(g, "S", s)
           /\ Alike(c, c) /\ Alike(s, s) /\ IsSeq(ka) /\ IsSeq(kb)
<1>1. Talking(g, c, s, ka, kb)
  BY TalkFacts DEF Bare
<1>2. Stands(g, "C", c) /\ Stands(g, "S", s)
  BY <1>1 DEF Talking
<1>3. /\ DOMAIN c = Names /\ (c.authdone => Keyed(c))
      /\ DOMAIN s = Names /\ (s.authdone => Keyed(s))
  BY <1>2, StandFacts
<1>4. Alike(c, c) /\ Alike(s, s)
  BY <1>3 DEF Alike, But
<1>. QED  BY <1>1, <1>2, <1>3, <1>4 DEF Talking, Writer, Bare, Queued

\* An end that may send puts a word of the dialogue on the wire.
Said(s, y, q, t) ==
    /\ Alike(s, y) /\ y.exited = s.exited /\ y.lastpacket = s.lastpacket
    /\ y.chancount = s.chancount /\ y.replyq = s.replyq
    /\ IsSeq(q) /\ q # <<>> /\ y.writequeue = s.writequeue \o q

LEMMA ServerSays ==
    ASSUME NEW g, NEW c, NEW s, NEW a, NEW b, NEW ka, NEW kb, NEW ua, NEW ub,
           Bare(g, c, s, a, b, ka, kb, ua, ub), s.dataallowed,
           NEW t \in Dialogue \ {SUCCESS}, NEW v
    PROVE  LET y == EncryptPacket(s, t, v)
           IN  \E q : /\ Said(s, y, q, t)
                      /\ Bare(g, c, y, a, b \o q, ka, kb, ua,
                              Append(ub, [t |-> t, b |-> v]))
<1>. DEFINE y == EncryptPacket(s, t, v)
<1>1. /\ Writer(b, kb, ub, s, c) /\ Alike(c, c)
      /\ IsSeq(b) /\ IsSeq(ub) /\ Queued(s)
  BY BareFacts DEF Bare
<1>2. t \in UpperType \ {SUCCESS} /\ t \in Dialogue /\ t \notin ConnectionType
  BY Types
<1>3. /\ But(s, y, Queues) /\ y.replyq = s.replyq
      /\ \E p : /\ y.writequeue = Append(s.writequeue, p)
                /\ Line(Append(b, p), kb,
                        IF t \in Dialogue
                        THEN Append(ub, [t |-> t, b |-> v]) ELSE ub, y, c)
  BY <1>1, <1>2, LineSent
<1>. HIDE DEF y
<1>4. PICK p : /\ y.writequeue = Append(s.writequeue, p)
               /\ Line(Append(b, p), kb,
                        IF t \in Dialogue
                        THEN Append(ub, [t |-> t, b |-> v]) ELSE ub, y, c)
  BY <1>3
<1>5. Line(Append(b, p), kb, Append(ub, [t |-> t, b |-> v]), y, c)
  BY <1>2, <1>4
<1>6. PICK q : q = <<p>>
  OBVIOUS
<1>7. /\ IsSeq(q) /\ q # <<>> /\ Append(b, p) = b \o q
      /\ y.writequeue = s.writequeue \o q
      /\ IsSeq(b \o q) /\ IsSeq(y.writequeue)
  <2>1. PICK w : w = s.writequeue
    OBVIOUS
  <2>2. IsSeq(w) /\ y.writequeue = Append(w, p)
    BY <2>1, <1>1, <1>4 DEF Queued
  <2>3. /\ IsSeq(q) /\ Append(b, p) = b \o q /\ Append(w, p) = w \o q
    BY <2>2, <1>1, <1>6, OneMore
  <2>4. q # <<>>
    BY <1>6, Tuple1
  <2>. QED  BY <2>1, <2>2, <2>3, <2>4, <1>1, Concat
<1>8. /\ Alike(s, y) /\ y.exited = s.exited /\ y.lastpacket = s.lastpacket
      /\ y.chancount = s.chancount
  BY <1>3, QueuesAlike
<1>9. Said(s, y, q, t)
  BY <1>3, <1>7, <1>8 DEF Said
<1>10. Talk(g, c, y, ka, kb)
  BY <1>1, <1>8, TalkSame DEF Bare
<1>11. Line(a, ka, ua, c, y)
  BY <1>8, AlikeSender, ReaderSame, LineSame DEF Bare
<1>12. IsSeq(Append(ub, [t |-> t, b |-> v]))
  BY <1>1, AppendOne
<1>13. Line(b \o q, kb, Append(ub, [t |-> t, b |-> v]), y, c)
  BY <1>5, <1>7
<1>14. Queued(y)
  BY <1>1, <1>3, <1>7 DEF Queued
<1>15. Bare(g, c, y, a, b \o q, ka, kb, ua, Append(ub, [t |-> t, b |-> v]))
  BY <1>7, <1>10, <1>11, <1>12, <1>13, <1>14 DEF Bare
<1>. QED  BY <1>9, <1>15 DEF y

LEMMA ClientSays ==
    ASSUME NEW g, NEW c, NEW s, NEW a, NEW b, NEW ka, NEW kb, NEW ua, NEW ub,
           Bare(g, c, s, a, b, ka, kb, ua, ub), c.dataallowed,
           NEW t \in Dialogue \ {SUCCESS}, NEW v
    PROVE  LET y == EncryptPacket(c, t, v)
           IN  \E q : /\ Said(c, y, q, t)
                      /\ Bare(g, y, s, a \o q, b, ka, kb,
                              Append(ua, [t |-> t, b |-> v]), ub)
<1>. DEFINE y == EncryptPacket(c, t, v)
<1>1. /\ Writer(a, ka, ua, c, s) /\ Alike(s, s)
      /\ IsSeq(a) /\ IsSeq(ua) /\ Queued(c)
  BY BareFacts DEF Bare
<1>2. t \in UpperType \ {SUCCESS} /\ t \in Dialogue /\ t \notin ConnectionType
  BY Types
<1>3. /\ But(c, y, Queues) /\ y.replyq = c.replyq
      /\ \E p : /\ y.writequeue = Append(c.writequeue, p)
                /\ Line(Append(a, p), ka,
                        IF t \in Dialogue
                        THEN Append(ua, [t |-> t, b |-> v]) ELSE ua, y, s)
  BY <1>1, <1>2, LineSent
<1>. HIDE DEF y
<1>4. PICK p : /\ y.writequeue = Append(c.writequeue, p)
               /\ Line(Append(a, p), ka,
                        IF t \in Dialogue
                        THEN Append(ua, [t |-> t, b |-> v]) ELSE ua, y, s)
  BY <1>3
<1>5. Line(Append(a, p), ka, Append(ua, [t |-> t, b |-> v]), y, s)
  BY <1>2, <1>4
<1>6. PICK q : q = <<p>>
  OBVIOUS
<1>7. /\ IsSeq(q) /\ q # <<>> /\ Append(a, p) = a \o q
      /\ y.writequeue = c.writequeue \o q
      /\ IsSeq(a \o q) /\ IsSeq(y.writequeue)
  <2>1. PICK w : w = c.writequeue
    OBVIOUS
  <2>2. IsSeq(w) /\ y.writequeue = Append(w, p)
    BY <2>1, <1>1, <1>4 DEF Queued
  <2>3. /\ IsSeq(q) /\ Append(a, p) = a \o q /\ Append(w, p) = w \o q
    BY <2>2, <1>1, <1>6, OneMore
  <2>4. q # <<>>
    BY <1>6, Tuple1
  <2>. QED  BY <2>1, <2>2, <2>3, <2>4, <1>1, Concat
<1>8. /\ Alike(c, y) /\ y.exited = c.exited /\ y.lastpacket = c.lastpacket
      /\ y.chancount = c.chancount
  BY <1>3, QueuesAlike
<1>9. Said(c, y, q, t)
  BY <1>3, <1>7, <1>8 DEF Said
<1>10. Talk(g, y, s, ka, kb)
  BY <1>1, <1>8, TalkSame DEF Bare
<1>11. Line(b, kb, ub, s, y)
  BY <1>8, AlikeSender, ReaderSame, LineSame DEF Bare
<1>12. IsSeq(Append(ua, [t |-> t, b |-> v]))
  BY <1>1, AppendOne
<1>13. Line(a \o q, ka, Append(ua, [t |-> t, b |-> v]), y, s)
  BY <1>5, <1>7
<1>14. Queued(y)
  BY <1>1, <1>3, <1>7 DEF Queued
<1>15. Bare(g, y, s, a \o q, b, ka, kb, Append(ua, [t |-> t, b |-> v]), ub)
  BY <1>7, <1>10, <1>11, <1>12, <1>13, <1>14 DEF Bare
<1>. QED  BY <1>9, <1>15 DEF y
---------------------------------------------------------------------------
(* What the server reads of the dialogue *)

\* Until the client is accepted the two ends do not begin an exchange.
LEMMA TalkResting ==
    ASSUME NEW g, NEW c, NEW s, NEW ka, NEW kb, Talk(g, c, s, ka, kb)
    PROVE  /\ Idle("S", s) /\ (Idle("C", c) \/ Switched("C", c)) => ka = <<>>
           /\ \A x : Idle("S", s) /\ Idle("S", x) /\ x.keys = s.keys
                => Talk(g, c, x, ka, kb)
           /\ \A x : Idle("C", c) /\ Idle("C", x) /\ x.keys = c.keys
                => Talk(g, x, s, ka, kb)
<1>1. /\ Idle("S", s) => ~Begun("S", s) /\ ~Met(g, "S", s) /\ ~Switched("S", s)
      /\ Idle("C", c) => ~Begun("C", c) /\ ~Met(g, "C", c) /\ ~Switched("C", c)
      /\ Switched("C", c) => ~Begun("C", c)
  BY Distinct
<1>2. Idle("S", s) => \/ Resting(c, s, ka, kb) \/ ClientOpens(c, s, ka, kb)
                      \/ ServerDone(c, s, ka, kb)
  BY <1>1 DEF Talk, ServerOpens, BothOpen, ServerMet,
     ClientMet, BothMet, ServerAhead, Replied, BothSwitched, ClientDone,
     ClientReopens, ServerReopens
<1>3. Idle("C", c) => \/ Resting(c, s, ka, kb) \/ ServerOpens(c, s, ka, kb)
                      \/ ClientDone(c, s, ka, kb)
  BY <1>1 DEF Talk, ClientOpens, BothOpen, ServerMet,
     ClientMet, BothMet, ServerAhead, Replied, BothSwitched, ServerDone,
     ClientReopens, ServerReopens
<1>4. Idle("S", s) /\ (Idle("C", c) \/ Switched("C", c)) => ka = <<>>
  BY <1>1, <1>2 DEF Resting, ClientOpens, ServerDone
<1>5. ASSUME NEW x, Idle("S", s), Idle("S", x), x.keys = s.keys
      PROVE  Talk(g, c, x, ka, kb)
  <2>1. \/ Resting(c, x, ka, kb) \/ ClientOpens(c, x, ka, kb)
        \/ ServerDone(c, x, ka, kb)
    BY <1>2, <1>5 DEF Resting, ClientOpens, ServerDone, Paired
  <2>. QED  BY <2>1 DEF Talk
<1>6. ASSUME NEW x, Idle("C", c), Idle("C", x), x.keys = c.keys
      PROVE  Talk(g, x, s, ka, kb)
  <2>1. \/ Resting(x, s, ka, kb) \/ ServerOpens(x, s, ka, kb)
        \/ ClientDone(x, s, ka, kb)
    BY <1>3, <1>6 DEF Resting, ServerOpens, ClientDone, Paired
  <2>. QED  BY <2>1 DEF Talk
<1>. QED  BY <1>4, <1>5, <1>6

Asks(m, p, ua, ub, b) ==
    /\ b.method \in Methods /\ (b.method = "query" => m.lastauthtype = "pubkey")
    /\ \/ /\ p.t = "SERVICE_REQUEST" /\ ub = <<>> /\ Tail(ua) = <<RQ(b)>>
       \/ /\ p.t = "USERAUTH_REQUEST" /\ p.b = b /\ ub \in {<<>>, <<SA>>}
          /\ Tail(ua) = <<>>

LEMMA DialogAsks ==
    ASSUME NEW m, NEW accepted, NEW ua, NEW ub, NEW p,
           Dialog(m, accepted, ua, ub), ua # <<>>, Head(ua) = Plain(p)
    PROVE  /\ ~accepted /\ m.state = "USERAUTH_REQ_SENT"
           /\ \E b : Asks(m, p, ua, ub, b)
<1>1. PICK b : /\ m.state = "USERAUTH_REQ_SENT" /\ ~accepted
               /\ b.method \in Methods
               /\ b.method = "query" => m.lastauthtype = "pubkey"
               /\ \/ ua = <<SR, RQ(b)>> /\ ub = <<>>
                  \/ ua = <<RQ(b)>> /\ ub \in {<<>>, <<SA>>}
  BY DEF Dialog
<1>2. PICK u, v : u = SR /\ v = RQ(b)
  OBVIOUS
<1>3. p.t = Head(ua).t /\ p.b = Head(ua).b
  BY PlainType
<1>4. SR.t = "SERVICE_REQUEST" /\ RQ(b).t = "USERAUTH_REQUEST" /\ RQ(b).b = b
  BY DEF SR, RQ
<1>5. CASE ua = <<SR, RQ(b)>> /\ ub = <<>>
  <2>1. ua = <<u, v>>
    BY <1>2, <1>5
  <2>2. Head(ua) = u /\ Tail(ua) = <<v>>
    BY <2>1, Tails
  <2>3. Asks(m, p, ua, ub, b)
    BY <2>2, <1>1, <1>2, <1>3, <1>4, <1>5 DEF Asks
  <2>. QED  BY <2>3, <1>1
<1>6. CASE ua = <<RQ(b)>> /\ ub \in {<<>>, <<SA>>}
  <2>1. ua = <<v>>
    BY <1>2, <1>6
  <2>2. Head(ua) = v /\ Tail(ua) = <<>>
    BY <2>1, Tails
  <2>3. Asks(m, p, ua, ub, b)
    BY <2>2, <1>1, <1>2, <1>3, <1>4, <1>6 DEF Asks
  <2>. QED  BY <2>3, <1>1
<1>. QED  BY <1>1, <1>5, <1>6

\* The two ends when the server reads one.
LEMMA ServerAsked ==
    ASSUME NEW g, NEW c, NEW s, NEW a, NEW b, NEW m, NEW ka, NEW kb, NEW ua,
           NEW ub, Joined(g, c, s, a, b, m, ka, kb, ua, ub), a # <<>>,
           Head(a).t \in Dialogue
    PROVE  /\ ~s.authdone /\ ~c.authdone /\ Idle("S", s) /\ s.dataallowed
           /\ ka = <<>> /\ m.state = "USERAUTH_REQ_SENT" /\ ua # <<>>
           /\ \E d : Asks(m, Head(a), ua, ub, d)
           /\ s.ignorenext = FALSE
<1>1. ua # <<>> /\ Head(ua) = Plain(Head(a))
  BY HeadSays
<1>2. /\ ~s.authdone /\ m.state = "USERAUTH_REQ_SENT"
      /\ \E d : Asks(m, Head(a), ua, ub, d)
  BY <1>1, DialogAsks DEF Joined
<1>3. Accepts(s, Head(a)) /\ Head(a).t \in UpperType
  BY ServerAccepts, Types DEF Linked
<1>4. s.requirenext = "none" /\ s.ignorenext = FALSE
  BY <1>3 DEF Accepts
<1>5. Stands(g, "C", c) /\ Stands(g, "S", s) /\ Talk(g, c, s, ka, kb)
  BY JoinedFacts DEF Talking, Joined
<1>6. Idle("S", s)
  <2>1. Begun("S", s) => s.requirenext # "none"
    BY <1>2 DEF Begun
  <2>2. Met(g, "S", s) => s.requirenext # "none"
    BY DEF Met
  <2>3. Switched("S", s) => s.requirenext # "none"
    BY DEF Switched
  <2>. QED  BY <2>1, <2>2, <2>3, <1>4, <1>5 DEF Stands
<1>7. ~c.authdone /\ c.donefirstkex
  BY <1>2 DEF Joined, Both
<1>8. Idle("C", c) \/ Switched("C", c)
  <2>1. ~Begun("C", c) /\ ~Met(g, "C", c)
    BY <1>7 DEF Begun, Met
  <2>. QED  BY <2>1, <1>5 DEF Stands
<1>9. ka = <<>>
  BY <1>5, <1>6, <1>8, TalkResting
<1>10. s.dataallowed
  BY <1>6 DEF Idle
<1>. QED  BY <1>1, <1>2, <1>4, <1>6, <1>7, <1>9, <1>10

\* Nothing else is under way from a client that has not been accepted.
LEMMA NothingElse ==
    ASSUME NEW w, NEW s, NEW r, IsSeq(w), Line(w, <<>>, <<>>, s, r), ~s.authdone
    PROVE  w = <<>>
<1>1. IsSeq(<<>>) /\ Len(<<>>) = 0
  BY Empty
<1>2. /\ \A i \in 1..Len(w) : w[i].t \notin KexType
      /\ \A i \in 1..Len(w) : w[i].t \notin Dialogue
  <2>1. /\ Word(KexType, w, <<>>) /\ Word(Dialogue, w, <<>>)
    BY DEF Line
  <2>. QED  BY <1>1, <2>1, WordMembers
<1>3. \A i \in 1..Len(w) : w[i].t \notin ConnectionType
  BY DEF Line
<1>4. \A i \in 1..Len(w) : w[i].t \in KexType \cup UpperType
  BY DEF Line
<1>5. \A i \in 1..Len(w) : FALSE
  BY <1>2, <1>3, <1>4, Types
<1>6. Len(w) \in Nat
  BY Length
<1>7. Len(w) = 0
  BY <1>5, <1>6
<1>. QED  BY <1>7, Nonempty
---------------------------------------------------------------------------

\* The session with which its handler begins.
ServerBare(g, c, s, x, a, b, ka, kb, va, ub) ==
    /\ Bare(g, c, x, a, b, ka, kb, va, ub) /\ Idle("S", x) /\ x.dataallowed
    /\ x.writequeue = s.writequeue /\ x.authdone = FALSE /\ x.exited \in Fine
    /\ ka = <<>> /\ ~c.authdone

LEMMA ServerReadsAsk ==
    ASSUME NEW g, NEW c, NEW s, NEW a, NEW b, NEW m, Linked(g, c, s, a, b, m),
           a # <<>>, NEW t \in {"SERVICE_REQUEST", "USERAUTH_REQUEST"},
           Head(a).t = t
    PROVE  LET x == ForHandler(s, t)
           IN  /\ Both(c, x, m, Tail(a)) /\ m.state = "USERAUTH_REQ_SENT"
               /\ \E ka, kb, ua, ub :
                    /\ ServerBare(g, c, s, x, Tail(a), b, ka, kb, Tail(ua), ub)
                    /\ \E d : Asks(m, Head(a), ua, ub, d)
<1>. DEFINE x == ForHandler(s, t)
<1>. PICK ka, kb, ua, ub : Joined(g, c, s, a, b, m, ka, kb, ua, ub)
  BY DEF Linked
<1>1. t \in Dialogue /\ t \in UpperType \ {SUCCESS}
  <2>1. t \in Dialogue /\ t # SUCCESS
    BY DEF Dialogue, ServiceType, AuthType, SUCCESS
  <2>. QED  BY <2>1, Types
<1>2. /\ ~s.authdone /\ ~c.authdone /\ Idle("S", s) /\ s.dataallowed
      /\ ka = <<>> /\ m.state = "USERAUTH_REQ_SENT" /\ ua # <<>>
      /\ \E d : Asks(m, Head(a), ua, ub, d)
  BY <1>1, ServerAsked
<1>3. ServerRead(g, c, s, x, a, b, m, ka, kb,
                 IF t \in Dialogue THEN Tail(ua) ELSE ua, ub)
  BY <1>1, <1>2, ServerUpperRead
<1>. HIDE DEF x
<1>4. ServerRead(g, c, s, x, a, b, m, ka, kb, Tail(ua), ub)
  BY <1>1, <1>3
<1>5. /\ Bare(g, c, x, Tail(a), b, ka, kb, Tail(ua), ub)
      /\ Both(c, x, m, Tail(a)) /\ Alike(s, x) /\ x.writequeue = s.writequeue
      /\ x.authdone = s.authdone
  <2>1. Bare(g, c, s, a, b, ka, kb, ua, ub)
    BY BareJoined
  <2>. QED  BY <2>1, <1>4 DEF ServerRead, Bare
<1>6. Idle("S", x) /\ x.dataallowed = s.dataallowed
  BY <1>2, <1>5, PhaseSame, AlikeFields
<1>7. x.authdone = FALSE
  BY <1>2, <1>5, <1>6 DEF Idle, Formed
<1>8. x.exited \in Fine
  BY <1>5 DEF Both, Waiting
<1>9. ServerBare(g, c, s, x, Tail(a), b, ka, kb, Tail(ua), ub)
  BY <1>2, <1>5, <1>6, <1>7, <1>8 DEF ServerBare
<1>. QED  BY <1>2, <1>5, <1>9 DEF x

LEMMA ServerAnswersDialogue ==
    ASSUME NEW g, NEW c, NEW s, NEW x, NEW a, NEW b, NEW m, NEW ka, NEW kb,
           NEW va, NEW ub, ServerBare(g, c, s, x, a, b, ka, kb, va, ub),
           Both(c, x, m, a), NEW t \in Dialogue \ {SUCCESS}, NEW v,
           Dialog(m, FALSE, va, Append(ub, [t |-> t, b |-> v]))
    PROVE  ServerAdds(s.writequeue, g, c, EncryptPacket(x, t, v), a, b, m)
<1>. DEFINE y == EncryptPacket(x, t, v)
<1>1. Bare(g, c, x, a, b, ka, kb, va, ub) /\ x.dataallowed
  BY DEF ServerBare
<1>2. \E q : /\ Said(x, y, q, t)
             /\ Bare(g, c, y, a, b \o q, ka, kb, va,
                     Append(ub, [t |-> t, b |-> v]))
  BY <1>1, ServerSays
<1>. HIDE DEF y
<1>3. PICK q : /\ Said(x, y, q, t)
               /\ Bare(g, c, y, a, b \o q, ka, kb, va,
                       Append(ub, [t |-> t, b |-> v]))
  BY <1>2
<1>4. /\ y.authdone = x.authdone /\ y.exited = x.exited /\ y.replyq = x.replyq
      /\ y.donefirstkex = x.donefirstkex
  BY <1>3, AlikeFields DEF Said
<1>5. Both(c, y, m, a)
  BY <1>4 DEF Both, Waiting
<1>6. y.authdone = FALSE
  BY <1>4 DEF ServerBare
<1>7. Linked(g, c, y, a, b \o q, m)
  <2>1. PICK vb, w : vb = Append(ub, [t |-> t, b |-> v]) /\ w = b \o q
    OBVIOUS
  <2>2. Bare(g, c, y, a, w, ka, kb, va, vb) /\ Dialog(m, y.authdone, va, vb)
    BY <2>1, <1>3, <1>6
  <2>3. Linked(g, c, y, a, w, m)
    BY <2>2, <1>5, BareJoined
  <2>. QED  BY <2>1, <2>3
<1>8. IsSeq(q) /\ y.writequeue = s.writequeue \o q
  BY <1>3 DEF Said, ServerBare
<1>9. ServerAdds(s.writequeue, g, c, y, a, b, m)
  BY <1>7, <1>8 DEF ServerAdds
<1>. QED  BY <1>9 DEF y

\* The session may close behind it.
LEMMA ServerCloses ==
    ASSUME NEW g, NEW c, NEW x, NEW a, NEW b, NEW m, NEW q, NEW why \in Fine,
           ServerAdds(q, g, c, x, a, b, m)
    PROVE  ServerAdds(q, g, c, Exit(x, why), a, b, m)
<1>. DEFINE y == Exit(x, why)
<1>1. PICK r : IsSeq(r) /\ x.writequeue = q \o r /\ Linked(g, c, x, a, b \o r, m)
  BY DEF ServerAdds
<1>2. DOMAIN x = Names
  BY <1>1, JoinedFacts DEF Linked
<1>3. /\ Alike(x, y) /\ y.writequeue = x.writequeue /\ y.replyq = x.replyq
      /\ y.exited = why
  BY <1>2 DEF Alike, But, Loose, Names, Exit
<1>. HIDE DEF y
<1>4. Linked(g, c, y, a, b \o r, m)
  BY <1>1, <1>3, ServerAlike
<1>5. ServerAdds(q, g, c, y, a, b, m)
  BY <1>1, <1>3, <1>4 DEF ServerAdds
<1>. QED  BY <1>5 DEF y

LEMMA DialogAnswered ==
    ASSUME NEW m, NEW accepted \in BOOLEAN, NEW ub, NEW t \in AnswerType, NEW v,
           m.state = "USERAUTH_REQ_SENT", ub \in {<<>>, <<SA>>},
           t = "USERAUTH_PK_OK" => m.lastauthtype = "pubkey",
           accepted <=> t = SUCCESS
    PROVE  Dialog(m, accepted, <<>>, Append(ub, [t |-> t, b |-> v]))
<1>0. PICK n : n = [t |-> t, b |-> v]
  OBVIOUS
<1>1. n = [t |-> t, b |-> v] /\ n.t = t
  BY <1>0
<1>2. Append(ub, n) \in {<<n>>, <<SA, n>>}
  <2>1. PICK u : u = SA
    OBVIOUS
  <2>2. Append(<<>>, n) = <<n>> /\ Append(<<u>>, n) = <<u, n>>
    BY Grown, Zenon
  <2>. QED  BY <2>1, <2>2
<1>3. PICK w : w = Append(ub, n)
  OBVIOUS
<1>4. Dialog(m, accepted, <<>>, w)
  BY <1>1, <1>2, <1>3 DEF Dialog
<1>. QED  BY <1>1, <1>3, <1>4

LEMMA SuccessForm ==
    ASSUME NEW x, DOMAIN x = Names, x.dataallowed
    PROVE  LET y == SendSuccess(x)
           IN  /\ But(x, y, Queues \cup {"authdone"}) /\ y.authdone = TRUE
               /\ y.replyq = x.replyq
               /\ \E p : /\ Stamped(p, x, SUCCESS, 0)
                         /\ y.writequeue = Append(x.writequeue, p)
<1>. DEFINE z == EncryptPacket(x, "USERAUTH_SUCCESS", 0)
<1>1. /\ But(x, z, Queues) /\ z.replyq = x.replyq
      /\ \E p : /\ Stamped(p, x, SUCCESS, 0)
                /\ z.writequeue = Append(x.writequeue, p)
  <2>1. PICK t : t = "USERAUTH_SUCCESS"
    OBVIOUS
  <2>2. /\ But(x, EncryptPacket(x, t, 0), Queues)
        /\ EncryptPacket(x, t, 0).replyq = x.replyq
        /\ \E p : /\ Stamped(p, x, t, 0)
                  /\ EncryptPacket(x, t, 0).writequeue = Append(x.writequeue, p)
    BY EncryptForm
  <2>. QED  BY <2>1, <2>2 DEF SUCCESS
<1>. HIDE DEF z
<1>. DEFINE y == [z EXCEPT !.authdone = TRUE]
<1>2. DOMAIN z = Names
  BY <1>1 DEF But
<1>3. /\ DOMAIN y = Names /\ y.authdone = TRUE /\ y.replyq = z.replyq
      /\ y.writequeue = z.writequeue
      /\ \A f \in Names \ {"authdone"} : y[f] = z[f]
  BY <1>2 DEF Names
<1>. HIDE DEF y
<1>4. But(x, y, Queues \cup {"authdone"})
  BY <1>1, <1>3 DEF But
<1>5. SendSuccess(x) = y
  BY DEF SendSuccess, y, z
<1>. QED  BY <1>1, <1>3, <1>4, <1>5

LEMMA SuccessFields ==
    ASSUME NEW e, NEW x, NEW y, But(x, y, Queues \cup {"authdone"}),
           y.authdone = TRUE, Idle(e, x)
    PROVE  /\ Idle(e, y) /\ y.keys = x.keys /\ y.exited = x.exited
           /\ y.requirenext = "none" /\ y.donefirstkex = x.donefirstkex
<1>1. /\ DOMAIN y = Names
      /\ y.sentkexinit = x.sentkexinit /\ y.recvkexinit = x.recvkexinit
      /\ y.sentnewkeys = x.sentnewkeys /\ y.recvnewkeys = x.recvnewkeys
      /\ y.donefirstkex = x.donefirstkex
      /\ y.our_first_follows_matches = x.our_first_follows_matches
      /\ y.dataallowed = x.dataallowed /\ y.ignorenext = x.ignorenext
      /\ y.requirenext = x.requirenext /\ y.transkexinit = x.transkexinit
      /\ y.kexhash = x.kexhash /\ y.newkeys = x.newkeys
      /\ y.keys = x.keys /\ y.kex_state = x.kex_state
      /\ y.param = x.param /\ y.drawn = x.drawn /\ y.exited = x.exited
  BY DEF But, Names, Queues
<1>. QED  BY <1>1 DEF Idle, Formed, Keyed

LEMMA ServerSucceeds ==
    ASSUME NEW g, NEW c, NEW s, NEW x, NEW a, NEW b, NEW m, NEW ka, NEW kb,
           NEW ub, ServerBare(g, c, s, x, a, b, ka, kb, <<>>, ub),
           Both(c, x, m, a),
           m.state = "USERAUTH_REQ_SENT", ub \in {<<>>, <<SA>>}
    PROVE  ServerAdds(s.writequeue, g, c, SendSuccess(x), a, b, m)
<1>. DEFINE y == SendSuccess(x)
<1>1. /\ Bare(g, c, x, a, b, ka, kb, <<>>, ub) /\ Idle("S", x) /\ x.dataallowed
      /\ x.writequeue = s.writequeue /\ ~x.authdone /\ ~c.authdone /\ ka = <<>>
  BY DEF ServerBare
<1>2. /\ Writer(b, kb, ub, x, c) /\ Alike(c, c) /\ IsSeq(b) /\ IsSeq(ub) /\ IsSeq(kb)
      /\ Queued(x) /\ DOMAIN x = Names
  <2>1. Bare(g, c, x, a, b, ka, kb, <<>>, ub)
    BY <1>1
  <2>2. DOMAIN x = Names
    BY <1>1 DEF Idle, Formed
  <2>. QED  BY <2>1, <2>2, BareFacts DEF Bare
<1>3. a = <<>>
  <2>1. Line(a, <<>>, <<>>, c, x) /\ IsSeq(a)
    BY <1>1 DEF Bare
  <2>. QED  BY <2>1, <1>1, NothingElse
<1>4. /\ But(x, y, Queues \cup {"authdone"}) /\ y.authdone = TRUE
      /\ y.replyq = x.replyq
      /\ \E p : /\ Stamped(p, x, SUCCESS, 0)
                /\ y.writequeue = Append(x.writequeue, p)
  BY <1>1, <1>2, SuccessForm
<1>. HIDE DEF y
<1>5. PICK p : /\ Stamped(p, x, SUCCESS, 0)
               /\ y.writequeue = Append(x.writequeue, p)
  BY <1>4
<1>6. /\ Idle("S", y) /\ y.keys = x.keys /\ y.exited = x.exited
      /\ y.requirenext = "none" /\ y.donefirstkex = x.donefirstkex
  BY <1>1, <1>4, SuccessFields
<1>7. Talk(g, c, y, ka, kb)
  <2>1. Talk(g, c, x, ka, kb)
    BY <1>1 DEF Bare
  <2>. QED  BY <2>1, <1>1, <1>6, TalkResting
<1>8. Line(a, ka, <<>>, c, y)
  <2>1. Line(<<>>, ka, <<>>, c, x)
    BY <1>1, <1>3 DEF Bare
  <2>2. Line(<<>>, ka, <<>>, c, y)
    BY <2>1, <1>4, <1>6, LineAccepted
  <2>. QED  BY <2>2, <1>3
<1>9. PICK n : n = [t |-> SUCCESS, b |-> 0]
  OBVIOUS
<1>10. Line(Append(b, p), kb, Append(ub, n), y, c)
  <2>1. /\ Plain(p) = n /\ p.t = SUCCESS /\ p.key = x.keys.trans
        /\ p.z \in BOOLEAN
        /\ p.z <=> Compress /\ x.authdone /\ x.keys.trans # NoKeys
    <3>1. /\ Plain(p) = n /\ p.key = x.keys.trans
          /\ p.z \in BOOLEAN
          /\ p.z <=> Compress /\ x.authdone /\ x.keys.trans # NoKeys
      BY <1>5, <1>9 DEF Stamped
    <3>2. Plain(p).t = p.t /\ n.t = SUCCESS
      BY <1>9, PlainType
    <3>. QED  BY <3>1, <3>2
  <2>2. c.requirenext # "none" => Has(b, "NEWKEYS")
    <3>1. ASSUME c.requirenext # "none" PROVE Has(b, "NEWKEYS")
      <4>1. PICK j \in 1..Len(kb) : kb[j].t = "NEWKEYS"
        BY <3>1, <1>1, <1>2 DEF Writer, Covered
      <4>2. Word(KexType, b, kb)
        BY <1>2 DEF Writer, Line
      <4>3. Has(b, kb[j].t)
        BY <4>2, <1>2, WordMembers
      <4>. QED  BY <4>1, <4>3
    <3>. QED  BY <3>1
  <2>3. /\ SUCCESS \in UpperType /\ SUCCESS \notin ConnectionType
        /\ SUCCESS \in Dialogue /\ SUCCESS \notin KexType
        /\ SUCCESS # "KEXINIT" /\ SUCCESS # "NEWKEYS"
    BY Types DEF SUCCESS
  <2>4. Line(Append(b, p), IF p.t \in KexType THEN Append(kb, Plain(p)) ELSE kb,
             IF p.t \in Dialogue THEN Append(ub, Plain(p)) ELSE ub, y, c)
    <3>1. Line(b, kb, ub, x, c)
      BY <1>2 DEF Writer
    <3>2. p.t \in KexType \cup UpperType /\ p.t \notin ConnectionType \cup {"KEXINIT"}
      BY <2>1, <2>3
    <3>. QED  BY <3>1, <3>2, <2>1, <2>2, <2>3, <1>1, <1>2, <1>4, <1>6, LineAppended
  <2>. QED  BY <2>1, <2>3, <2>4
<1>11. PICK q : q = <<p>>
  OBVIOUS
<1>12. /\ IsSeq(q) /\ Append(b, p) = b \o q
       /\ y.writequeue = x.writequeue \o q
       /\ IsSeq(b \o q) /\ IsSeq(y.writequeue)
  <2>1. PICK w : w = x.writequeue
    OBVIOUS
  <2>2. IsSeq(w) /\ y.writequeue = Append(w, p)
    BY <2>1, <1>2, <1>5 DEF Queued
  <2>3. /\ IsSeq(q) /\ Append(b, p) = b \o q /\ Append(w, p) = w \o q
    BY <2>2, <1>2, <1>11, OneMore
  <2>. QED  BY <2>1, <2>2, <2>3, <1>2, Concat
<1>13. Queued(y) /\ Queued(c) /\ IsSeq(a)
  BY <1>1, <1>2, <1>4, <1>12 DEF Queued, Bare
<1>14. IsSeq(Append(ub, n)) /\ IsSeq(<<>>)
  BY <1>2, AppendOne, Empty
<1>15. Bare(g, c, y, a, b \o q, ka, kb, <<>>, Append(ub, n))
  BY <1>7, <1>8, <1>10, <1>12, <1>13, <1>14 DEF Bare
<1>16. Dialog(m, y.authdone, <<>>, Append(ub, n))
  <2>1. SUCCESS \in AnswerType /\ SUCCESS # "USERAUTH_PK_OK" /\ TRUE \in BOOLEAN
    BY DEF AnswerType, SUCCESS
  <2>2. Dialog(m, TRUE, <<>>, Append(ub, [t |-> SUCCESS, b |-> 0]))
    BY <2>1, DialogAnswered
  <2>. QED  BY <2>2, <1>4, <1>9
<1>17. Both(c, y, m, a)
  BY <1>1, <1>3, <1>4, <1>6 DEF Both, Waiting
<1>18. Linked(g, c, y, a, b \o q, m)
  <2>1. PICK w, vb : w = b \o q /\ vb = Append(ub, n)
    OBVIOUS
  <2>2. Linked(g, c, y, a, w, m)
    BY <2>1, <1>15, <1>16, <1>17, BareJoined
  <2>. QED  BY <2>1, <2>2
<1>19. ServerAdds(s.writequeue, g, c, y, a, b, m)
  BY <1>1, <1>12, <1>18 DEF ServerAdds
<1>. QED  BY <1>19 DEF y
---------------------------------------------------------------------------

LEMMA OutcomeQuery ==
    ASSUME NEW b, b.method \in Methods
    PROVE  /\ Outcome(b) \in {"failure", "counted", "pk_ok", "success"}
           /\ Outcome(b) = "pk_ok" => b.method = "query"
BY DEF Outcome, Methods

\* recv_msg_service_request()
LEMMA ServerServiceRequest ==
    ASSUME NEW g, NEW c, NEW s, NEW a, NEW b, NEW m, Linked(g, c, s, a, b, m),
           a # <<>>, Head(a).t = "SERVICE_REQUEST"
    PROVE  ServerAdds(s.writequeue, g, c,
                      EncryptPacket(ForHandler(s, "SERVICE_REQUEST"),
                                    "SERVICE_ACCEPT", 0), Tail(a), b, m)
<1>. DEFINE x == ForHandler(s, "SERVICE_REQUEST")
<1>1. /\ Both(c, x, m, Tail(a)) /\ m.state = "USERAUTH_REQ_SENT"
      /\ \E ka, kb, ua, ub :
           /\ ServerBare(g, c, s, x, Tail(a), b, ka, kb, Tail(ua), ub)
           /\ \E d : Asks(m, Head(a), ua, ub, d)
  BY ServerReadsAsk
<1>. HIDE DEF x
<1>2. PICK ka, kb, ua, ub, d :
           /\ ServerBare(g, c, s, x, Tail(a), b, ka, kb, Tail(ua), ub)
           /\ Asks(m, Head(a), ua, ub, d)
  BY <1>1
<1>3. /\ ub = <<>> /\ Tail(ua) = <<RQ(d)>> /\ d.method \in Methods
      /\ d.method = "query" => m.lastauthtype = "pubkey"
  BY <1>2 DEF Asks
<1>4. Dialog(m, FALSE, Tail(ua), Append(ub, [t |-> "SERVICE_ACCEPT", b |-> 0]))
  <2>1. PICK n : n = SA
    OBVIOUS
  <2>2. Append(<<>>, n) = <<n>>
    BY Grown, Zenon
  <2>3. Append(ub, [t |-> "SERVICE_ACCEPT", b |-> 0]) = <<SA>>
    BY <2>1, <2>2, <1>3 DEF SA
  <2>4. PICK w : w = <<SA>>
    OBVIOUS
  <2>5. Dialog(m, FALSE, Tail(ua), w)
    BY <2>4, <1>1, <1>3 DEF Dialog
  <2>. QED  BY <2>3, <2>4, <2>5
<1>5. "SERVICE_ACCEPT" \in Dialogue \ {SUCCESS}
  BY DEF Dialogue, ServiceType, SUCCESS
<1>6. ServerAdds(s.writequeue, g, c, EncryptPacket(x, "SERVICE_ACCEPT", 0), Tail(a), b, m)
  BY <1>1, <1>2, <1>4, <1>5, ServerAnswersDialogue
<1>. QED  BY <1>6 DEF x

\* recv_msg_userauth_request()
LEMMA ServerUserauthRequest ==
    ASSUME NEW g, NEW c, NEW s, NEW a, NEW b, NEW m, Linked(g, c, s, a, b, m),
           a # <<>>, Head(a).t = "USERAUTH_REQUEST"
    PROVE  LET x == ForHandler(s, "USERAUTH_REQUEST")
               out == Outcome(Head(a).b)
           IN  /\ x.authdone = FALSE
               /\ out \in {"failure", "counted", "pk_ok", "success"}
               /\ \A n : ServerAdds(s.writequeue, g, c, SendFailure(x, n), Tail(a), b, m)
               /\ out = "pk_ok" => \A v :
                    ServerAdds(s.writequeue, g, c,
                               EncryptPacket(x, "USERAUTH_PK_OK", v), Tail(a), b, m)
               /\ ServerAdds(s.writequeue, g, c, SendSuccess(x), Tail(a), b, m)
<1>. DEFINE x == ForHandler(s, "USERAUTH_REQUEST")
            out == Outcome(Head(a).b)
<1>1. /\ Both(c, x, m, Tail(a)) /\ m.state = "USERAUTH_REQ_SENT"
      /\ \E ka, kb, ua, ub :
           /\ ServerBare(g, c, s, x, Tail(a), b, ka, kb, Tail(ua), ub)
           /\ \E d : Asks(m, Head(a), ua, ub, d)
  BY ServerReadsAsk
<1>. HIDE DEF x
<1>2. PICK ka, kb, ua, ub, d :
           /\ ServerBare(g, c, s, x, Tail(a), b, ka, kb, Tail(ua), ub)
           /\ Asks(m, Head(a), ua, ub, d)
  BY <1>1
<1>3. /\ ub \in {<<>>, <<SA>>} /\ Tail(ua) = <<>> /\ d.method \in Methods
      /\ d.method = "query" => m.lastauthtype = "pubkey"
      /\ Head(a).b = d
  BY <1>2 DEF Asks
<1>4. /\ out \in {"failure", "counted", "pk_ok", "success"}
      /\ out = "pk_ok" => m.lastauthtype = "pubkey"
  BY <1>3, OutcomeQuery
<1>. HIDE DEF out
<1>5. ServerBare(g, c, s, x, Tail(a), b, ka, kb, <<>>, ub)
  BY <1>2, <1>3
<1>6. x.authdone = FALSE
  BY <1>2 DEF ServerBare
<1>7. ASSUME NEW t \in {"USERAUTH_FAILURE", "USERAUTH_PK_OK"}, NEW v,
             t = "USERAUTH_PK_OK" => m.lastauthtype = "pubkey"
      PROVE  ServerAdds(s.writequeue, g, c, EncryptPacket(x, t, v), Tail(a), b, m)
  <2>1. t \in AnswerType /\ t # SUCCESS /\ t \in Dialogue \ {SUCCESS}
    BY DEF AnswerType, SUCCESS, Dialogue, AuthType
  <2>2. Dialog(m, FALSE, <<>>, Append(ub, [t |-> t, b |-> v]))
    <3>1. FALSE \in BOOLEAN /\ (FALSE <=> t = SUCCESS)
      BY <2>1
    <3>. QED  BY <3>1, <2>1, <1>1, <1>3, <1>7, DialogAnswered
  <2>. QED  BY <2>1, <2>2, <1>1, <1>5, ServerAnswersDialogue
<1>8. ASSUME NEW n
      PROVE  ServerAdds(s.writequeue, g, c, SendFailure(x, n), Tail(a), b, m)
  <2>1. ServerAdds(s.writequeue, g, c,
                   EncryptPacket(x, "USERAUTH_FAILURE", AuthTypes), Tail(a), b, m)
    BY <1>7
  <2>2. PICK y : y = EncryptPacket(x, "USERAUTH_FAILURE", AuthTypes)
    OBVIOUS
  <2>3. "max auth tries" \in Fine
    BY DEF Fine
  <2>4. ServerAdds(s.writequeue, g, c, Exit(y, "max auth tries"), Tail(a), b, m)
    BY <2>1, <2>2, <2>3, ServerCloses
  <2>5. SendFailure(x, n) = y \/ SendFailure(x, n) = Exit(y, "max auth tries")
    BY <2>2 DEF SendFailure
  <2>. QED  BY <2>1, <2>2, <2>4, <2>5
<1>9. out = "pk_ok" => \A v :
        ServerAdds(s.writequeue, g, c, EncryptPacket(x, "USERAUTH_PK_OK", v), Tail(a), b, m)
  BY <1>4, <1>7
<1>10. ServerAdds(s.writequeue, g, c, SendSuccess(x), Tail(a), b, m)
  BY <1>1, <1>3, <1>5, ServerSucceeds
<1>. QED  BY <1>4, <1>6, <1>8, <1>9, <1>10 DEF x, out

---------------------------------------------------------------------------
(* What the client reads of the dialogue *)

Told(m, accepted, p, ua, ub) ==
    \/ p.t = "SERVICE_ACCEPT" /\ Dialog(m, accepted, ua, Tail(ub))
    \/ /\ p.t \in AnswerType /\ (accepted <=> p.t = SUCCESS)
       /\ p.t = "USERAUTH_PK_OK" => m.lastauthtype = "pubkey"
       /\ ua = <<>> /\ Tail(ub) = <<>>

LEMMA DialogTells ==
    ASSUME NEW m, NEW accepted, NEW ua, NEW ub, NEW p,
           Dialog(m, accepted, ua, ub), ub # <<>>, Head(ub) = Plain(p)
    PROVE  m.state = "USERAUTH_REQ_SENT" /\ Told(m, accepted, p, ua, ub)
<1>1. p.t = Head(ub).t /\ SA.t = "SERVICE_ACCEPT"
  BY PlainType DEF SA
<1>2. PICK u : u = SA
  OBVIOUS
<1>3. m.state = "USERAUTH_REQ_SENT"
  BY DEF Dialog
<1>4. ASSUME NEW b, ~accepted, b.method \in Methods,
             b.method = "query" => m.lastauthtype = "pubkey",
             ua = <<RQ(b)>>, ub = <<SA>>
      PROVE  Told(m, accepted, p, ua, ub)
  <2>1. ub = <<u>>
    BY <1>2, <1>4
  <2>2. Head(ub) = u /\ Tail(ub) = <<>>
    BY <2>1, Tails
  <2>3. Dialog(m, accepted, ua, <<>>)
    BY <1>3, <1>4 DEF Dialog
  <2>. QED  BY <2>2, <2>3, <1>1, <1>2 DEF Told
<1>5. ASSUME ua = <<>>, NEW n, n.t \in AnswerType, accepted <=> n.t = SUCCESS,
             n.t = "USERAUTH_PK_OK" => m.lastauthtype = "pubkey",
             ub \in {<<n>>, <<SA, n>>}
      PROVE  Told(m, accepted, p, ua, ub)
  <2>1. CASE ub = <<n>>
    <3>1. Head(ub) = n /\ Tail(ub) = <<>>
      BY <2>1, Tails
    <3>. QED  BY <3>1, <1>1, <1>5 DEF Told
  <2>2. CASE ub = <<SA, n>>
    <3>1. ub = <<u, n>>
      BY <1>2, <2>2
    <3>2. Head(ub) = u /\ Tail(ub) = <<n>>
      BY <3>1, Tails
    <3>3. PICK w : w = <<n>>
      OBVIOUS
    <3>4. Dialog(m, accepted, ua, w)
      BY <1>3, <1>5, <3>3 DEF Dialog
    <3>. QED  BY <3>2, <3>3, <3>4, <1>1, <1>2 DEF Told
  <2>. QED  BY <2>1, <2>2, <1>5
<1>6. \/ \E b : /\ ~accepted /\ b.method \in Methods
                /\ b.method = "query" => m.lastauthtype = "pubkey"
                /\ ua = <<RQ(b)>> /\ ub = <<SA>>
      \/ /\ ua = <<>>
         /\ \E n : /\ n.t \in AnswerType /\ (accepted <=> n.t = SUCCESS)
                   /\ n.t = "USERAUTH_PK_OK" => m.lastauthtype = "pubkey"
                   /\ ub \in {<<n>>, <<SA, n>>}
  BY DEF Dialog
<1>. QED  BY <1>3, <1>4, <1>5, <1>6

LEMMA ClientTold ==
    ASSUME NEW g, NEW c, NEW s, NEW a, NEW b, NEW m, NEW ka, NEW kb, NEW ua,
           NEW ub, Joined(g, c, s, a, b, m, ka, kb, ua, ub), b # <<>>,
           Head(b).t \in Dialogue
    PROVE  /\ ~c.authdone /\ Idle("C", c) /\ c.dataallowed
           /\ m.state = "USERAUTH_REQ_SENT" /\ ub # <<>>
           /\ Told(m, s.authdone, Head(b), ua, ub)
<1>1. ub # <<>> /\ Head(ub) = Plain(Head(b))
  BY HeadSays
<1>2. /\ m.state = "USERAUTH_REQ_SENT"
      /\ Told(m, s.authdone, Head(b), ua, ub)
  BY <1>1, DialogTells DEF Joined
<1>3. Accepts(c, Head(b)) /\ Head(b).t \in UpperType
  BY ClientAccepts, Types DEF Linked
<1>4. c.requirenext = "none"
  BY <1>3 DEF Accepts
<1>5. Stands(g, "C", c)
  BY JoinedFacts DEF Talking
<1>6. ~c.authdone
  BY <1>2 DEF Joined, Both
<1>7. Idle("C", c)
  <2>1. Begun("C", c) => c.requirenext # "none"
    BY <1>6 DEF Begun
  <2>2. Met(g, "C", c) => c.requirenext # "none"
    BY DEF Met
  <2>3. Switched("C", c) => c.requirenext # "none"
    BY DEF Switched
  <2>. QED  BY <2>1, <2>2, <2>3, <1>4, <1>5 DEF Stands
<1>8. c.dataallowed
  BY <1>7 DEF Idle
<1>. QED  BY <1>1, <1>2, <1>6, <1>7, <1>8

\* The session with which its handler begins.
ClientBare(g, c, s, x, a, b, ka, kb, ua, vb) ==
    /\ Bare(g, x, s, a, b, ka, kb, ua, vb) /\ Idle("C", x) /\ x.dataallowed
    /\ x.writequeue = c.writequeue /\ ~x.authdone /\ x.exited \in Fine

LEMMA ClientReadsAnswer ==
    ASSUME NEW g, NEW c, NEW s, NEW a, NEW b, NEW m, Linked(g, c, s, a, b, m),
           b # <<>>, NEW t \in {"SERVICE_ACCEPT", "USERAUTH_FAILURE", "USERAUTH_PK_OK"},
           Head(b).t = t
    PROVE  LET x == ForHandler(c, t)
           IN  /\ Both(x, s, m, a) /\ m.state = "USERAUTH_REQ_SENT"
               /\ \E ka, kb, ua, ub :
                    /\ ClientBare(g, c, s, x, a, Tail(b), ka, kb, ua, Tail(ub))
                    /\ Told(m, s.authdone, Head(b), ua, ub)
<1>. DEFINE x == ForHandler(c, t)
<1>. PICK ka, kb, ua, ub : Joined(g, c, s, a, b, m, ka, kb, ua, ub)
  BY DEF Linked
<1>1. t \in Dialogue /\ t \in UpperType \ {SUCCESS}
  <2>1. t \in Dialogue /\ t # SUCCESS
    BY DEF Dialogue, ServiceType, AuthType, SUCCESS
  <2>. QED  BY <2>1, Types
<1>2. /\ ~c.authdone /\ Idle("C", c) /\ c.dataallowed
      /\ m.state = "USERAUTH_REQ_SENT" /\ ub # <<>>
      /\ Told(m, s.authdone, Head(b), ua, ub)
  BY <1>1, ClientTold
<1>3. ClientRead(g, c, s, x, a, b, m, ka, kb, ua,
                 IF t \in Dialogue THEN Tail(ub) ELSE ub)
  BY <1>1, <1>2, ClientUpperRead
<1>. HIDE DEF x
<1>4. ClientRead(g, c, s, x, a, b, m, ka, kb, ua, Tail(ub))
  BY <1>1, <1>3
<1>5. /\ Bare(g, x, s, a, Tail(b), ka, kb, ua, Tail(ub))
      /\ Both(x, s, m, a) /\ Alike(c, x) /\ x.writequeue = c.writequeue
      /\ x.authdone = c.authdone
  <2>1. Bare(g, c, s, a, b, ka, kb, ua, ub)
    BY BareJoined
  <2>. QED  BY <2>1, <1>4 DEF ClientRead, Bare
<1>6. Idle("C", x) /\ x.dataallowed = c.dataallowed
  BY <1>2, <1>5, PhaseSame, AlikeFields
<1>7. x.exited \in Fine
  BY <1>5 DEF Both, Waiting
<1>8. ClientBare(g, c, s, x, a, Tail(b), ka, kb, ua, Tail(ub))
  BY <1>2, <1>5, <1>6, <1>7 DEF ClientBare
<1>. QED  BY <1>2, <1>5, <1>8 DEF x

\* The client's state machine in a state of authentication that has not ended.
Asking(m) == m.state \notin {"USERAUTH_SUCCESS_RCVD", "SESSION_RUNNING"}

LEMMA ClientNothing ==
    ASSUME NEW g, NEW c, NEW s, NEW x, NEW a, NEW b, NEW m, NEW n, NEW ka,
           NEW kb, NEW ua, NEW vb, ClientBare(g, c, s, x, a, b, ka, kb, ua, vb),
           Both(x, s, m, a), IsSeq(c.writequeue), Asking(n),
           m.state # "STATE_NOTHING" \/ n.state = m.state,
           Dialog(n, s.authdone, ua, vb)
    PROVE  ClientAdds(c.writequeue, g, x, s, a, b, n)
<1>1. Both(x, s, n, a)
  <2>1. x.authdone = FALSE
    BY DEF ClientBare, Idle, Formed
  <2>. QED  BY <2>1 DEF Both, Asking
<1>2. Linked(g, x, s, a, b, n)
  BY <1>1, BareJoined DEF ClientBare
<1>. QED  BY <1>2, NothingAdded DEF ClientBare

LEMMA ClientAnswers ==
    ASSUME NEW g, NEW c, NEW s, NEW x, NEW a, NEW b, NEW m, NEW n, NEW ka,
           NEW kb, NEW ua, NEW vb, ClientBare(g, c, s, x, a, b, ka, kb, ua, vb),
           Both(x, s, m, a), Asking(n), x.donefirstkex, ~s.authdone,
           NEW t \in Dialogue \ {SUCCESS}, NEW v,
           Dialog(n, s.authdone, Append(ua, [t |-> t, b |-> v]), vb)
    PROVE  ClientAdds(c.writequeue, g, EncryptPacket(x, t, v), s, a, b, n)
<1>. DEFINE y == EncryptPacket(x, t, v)
<1>1. Bare(g, x, s, a, b, ka, kb, ua, vb) /\ x.dataallowed
  BY DEF ClientBare
<1>2. \E q : /\ Said(x, y, q, t)
             /\ Bare(g, y, s, a \o q, b, ka, kb,
                     Append(ua, [t |-> t, b |-> v]), vb)
  BY <1>1, ClientSays
<1>. HIDE DEF y
<1>3. PICK q : /\ Said(x, y, q, t)
               /\ Bare(g, y, s, a \o q, b, ka, kb,
                       Append(ua, [t |-> t, b |-> v]), vb)
  BY <1>2
<1>4. /\ y.authdone = x.authdone /\ y.exited = x.exited /\ y.replyq = x.replyq
      /\ y.donefirstkex = x.donefirstkex
  BY <1>3, AlikeFields DEF Said
<1>5. Both(y, s, n, a \o q)
  <2>1. x.authdone = FALSE
    BY DEF ClientBare, Idle, Formed
  <2>. QED  BY <2>1, <1>4 DEF Both, Asking, Waiting
<1>6. Linked(g, y, s, a \o q, b, n)
  <2>1. PICK w, va : w = a \o q /\ va = Append(ua, [t |-> t, b |-> v])
    OBVIOUS
  <2>2. Bare(g, y, s, w, b, ka, kb, va, vb) /\ Dialog(n, s.authdone, va, vb)
        /\ Both(y, s, n, w)
    BY <2>1, <1>3, <1>5
  <2>3. Linked(g, y, s, w, b, n)
    BY <2>2, BareJoined
  <2>. QED  BY <2>1, <2>3
<1>7. IsSeq(q) /\ y.writequeue = c.writequeue \o q
  BY <1>3 DEF Said, ClientBare
<1>8. ClientAdds(c.writequeue, g, y, s, a, b, n)
  BY <1>6, <1>7 DEF ClientAdds
<1>. QED  BY <1>8 DEF y
---------------------------------------------------------------------------

\* recv_msg_service_accept()
LEMMA ClientServiceAccept ==
    ASSUME NEW g, NEW c, NEW s, NEW a, NEW b, NEW m, Linked(g, c, s, a, b, m),
           b # <<>>, Head(b).t = "SERVICE_ACCEPT"
    PROVE  ClientAdds(c.writequeue, g, ForHandler(c, "SERVICE_ACCEPT"), s, a,
                      Tail(b), m)
<1>. DEFINE x == ForHandler(c, "SERVICE_ACCEPT")
<1>1. /\ Both(x, s, m, a) /\ m.state = "USERAUTH_REQ_SENT"
      /\ \E ka, kb, ua, ub :
           /\ ClientBare(g, c, s, x, a, Tail(b), ka, kb, ua, Tail(ub))
           /\ Told(m, s.authdone, Head(b), ua, ub)
  BY ClientReadsAnswer
<1>2. IsSeq(c.writequeue)
  BY DEF Linked, Joined, Queued
<1>. HIDE DEF x
<1>3. PICK ka, kb, ua, ub :
           /\ ClientBare(g, c, s, x, a, Tail(b), ka, kb, ua, Tail(ub))
           /\ Told(m, s.authdone, Head(b), ua, ub)
  BY <1>1
<1>4. Dialog(m, s.authdone, ua, Tail(ub))
  BY <1>3 DEF Told, AnswerType, SUCCESS
<1>5. ClientAdds(c.writequeue, g, x, s, a, Tail(b), m)
  BY <1>1, <1>2, <1>3, <1>4, ClientNothing DEF Asking
<1>. QED  BY <1>5 DEF x

\* recv_msg_userauth_failure()
LEMMA ClientFailure ==
    ASSUME NEW g, NEW c, NEW s, NEW a, NEW b, NEW m, NEW n, Linked(g, c, s, a, b, m),
           b # <<>>, Head(b).t = "USERAUTH_FAILURE",
           n.state = "USERAUTH_FAIL_RCVD"
    PROVE  LET x == ForHandler(c, "USERAUTH_FAILURE")
           IN  /\ ClientAdds(c.writequeue, g, x, s, a, Tail(b), n)
               /\ ~x.authdone /\ m.state = "USERAUTH_REQ_SENT"
<1>. DEFINE x == ForHandler(c, "USERAUTH_FAILURE")
<1>1. /\ Both(x, s, m, a) /\ m.state = "USERAUTH_REQ_SENT"
      /\ \E ka, kb, ua, ub :
           /\ ClientBare(g, c, s, x, a, Tail(b), ka, kb, ua, Tail(ub))
           /\ Told(m, s.authdone, Head(b), ua, ub)
  BY ClientReadsAnswer
<1>2. IsSeq(c.writequeue)
  BY DEF Linked, Joined, Queued
<1>. HIDE DEF x
<1>3. PICK ka, kb, ua, ub :
           /\ ClientBare(g, c, s, x, a, Tail(b), ka, kb, ua, Tail(ub))
           /\ Told(m, s.authdone, Head(b), ua, ub)
  BY <1>1
<1>4. ~s.authdone /\ ua = <<>> /\ Tail(ub) = <<>>
  BY <1>3 DEF Told, SUCCESS
<1>5. Dialog(n, s.authdone, ua, Tail(ub))
  BY <1>4 DEF Dialog
<1>6. ClientAdds(c.writequeue, g, x, s, a, Tail(b), n)
  BY <1>1, <1>2, <1>3, <1>5, ClientNothing DEF Asking
<1>. QED  BY <1>1, <1>3, <1>6 DEF x, ClientBare

\* recv_msg_userauth_pk_ok()
LEMMA ClientPkOk ==
    ASSUME NEW g, NEW c, NEW s, NEW a, NEW b, NEW m, Linked(g, c, s, a, b, m),
           b # <<>>, Head(b).t = "USERAUTH_PK_OK"
    PROVE  LET x == ForHandler(c, "USERAUTH_PK_OK")
           IN  /\ m.lastauthtype = "pubkey"
               /\ ClientAdds(c.writequeue, g, x, s, a, Tail(b), m)
               /\ \A v : v.method = "sign" =>
                    ClientAdds(c.writequeue, g, EncryptPacket(x, "USERAUTH_REQUEST", v),
                               s, a, Tail(b), m)
<1>. DEFINE x == ForHandler(c, "USERAUTH_PK_OK")
<1>1. /\ Both(x, s, m, a) /\ m.state = "USERAUTH_REQ_SENT"
      /\ \E ka, kb, ua, ub :
           /\ ClientBare(g, c, s, x, a, Tail(b), ka, kb, ua, Tail(ub))
           /\ Told(m, s.authdone, Head(b), ua, ub)
  BY ClientReadsAnswer
<1>2. IsSeq(c.writequeue)
  BY DEF Linked, Joined, Queued
<1>. HIDE DEF x
<1>3. PICK ka, kb, ua, ub :
           /\ ClientBare(g, c, s, x, a, Tail(b), ka, kb, ua, Tail(ub))
           /\ Told(m, s.authdone, Head(b), ua, ub)
  BY <1>1
<1>4. /\ ~s.authdone /\ ua = <<>> /\ Tail(ub) = <<>> /\ m.lastauthtype = "pubkey"
  BY <1>3 DEF Told, SUCCESS
<1>5. Dialog(m, s.authdone, ua, Tail(ub))
  BY <1>1, <1>4 DEF Dialog
<1>6. ClientAdds(c.writequeue, g, x, s, a, Tail(b), m)
  BY <1>1, <1>2, <1>3, <1>5, ClientNothing DEF Asking
<1>7. x.donefirstkex
  BY <1>3 DEF ClientBare, Idle
<1>8. ASSUME NEW v, v.method = "sign"
      PROVE  ClientAdds(c.writequeue, g, EncryptPacket(x, "USERAUTH_REQUEST", v),
                        s, a, Tail(b), m)
  <2>1. "USERAUTH_REQUEST" \in Dialogue \ {SUCCESS}
    BY DEF Dialogue, AuthType, SUCCESS
  <2>2. PICK r : r = RQ(v)
    OBVIOUS
  <2>3. Append(<<>>, r) = <<r>>
    BY Grown, Zenon
  <2>4. Append(ua, [t |-> "USERAUTH_REQUEST", b |-> v]) = <<RQ(v)>>
    BY <2>2, <2>3, <1>4 DEF RQ
  <2>5. Dialog(m, s.authdone, <<RQ(v)>>, Tail(ub))
    <3>1. "sign" \in Methods /\ v.method # "query"
      BY <1>8 DEF Methods
    <3>2. PICK w : w = <<RQ(v)>>
      OBVIOUS
    <3>3. Dialog(m, s.authdone, w, Tail(ub))
      BY <3>1, <3>2, <1>1, <1>4, <1>8 DEF Dialog
    <3>. QED  BY <3>2, <3>3
  <2>6. Dialog(m, s.authdone, Append(ua, [t |-> "USERAUTH_REQUEST", b |-> v]), Tail(ub))
    BY <2>4, <2>5
  <2>. QED  BY <2>1, <2>6, <1>1, <1>3, <1>4, <1>7, ClientAnswers DEF Asking
<1>. QED  BY <1>4, <1>6, <1>8 DEF x

\* A client that is accepted has nothing under way.
LEMMA LineEmptied ==
    ASSUME NEW ks, NEW us, NEW s, NEW r, NEW x, Line(<<>>, ks, us, s, r),
           x.keys.trans = s.keys.trans, r.authdone
    PROVE  Line(<<>>, ks, us, x, r)
<1>1. Len(<<>>) = 0 /\ 1..0 = {}
  BY Empty
<1>2. \A i \in 1..Len(<<>>) : FALSE
  BY <1>1
<1>. QED  BY <1>2 DEF Line

\* recv_msg_userauth_success()
LEMMA ClientSuccess ==
    ASSUME NEW g, NEW c, NEW s, NEW a, NEW b, NEW m, NEW n, Linked(g, c, s, a, b, m),
           b # <<>>, Head(b).t = "USERAUTH_SUCCESS",
           n.state = "USERAUTH_SUCCESS_RCVD"
    PROVE  ClientAdds(c.writequeue, g,
                      [ForHandler(c, "USERAUTH_SUCCESS") EXCEPT !.authdone = TRUE],
                      s, a, Tail(b), n)
<1>. DEFINE x == ForHandler(c, "USERAUTH_SUCCESS")
            y == [x EXCEPT !.authdone = TRUE]
<1>. PICK ka, kb, ua, ub : Joined(g, c, s, a, b, m, ka, kb, ua, ub)
  BY DEF Linked
<1>1. SUCCESS \in Dialogue /\ SUCCESS \in UpperType /\ SUCCESS = "USERAUTH_SUCCESS"
  BY Types DEF SUCCESS
<1>2. /\ ~c.authdone /\ Idle("C", c) /\ c.dataallowed
      /\ m.state = "USERAUTH_REQ_SENT" /\ ub # <<>>
      /\ Told(m, s.authdone, Head(b), ua, ub)
  BY <1>1, ClientTold
<1>3. s.authdone /\ ua = <<>> /\ Tail(ub) = <<>>
  BY <1>1, <1>2 DEF Told, AnswerType
<1>4. Accepts(c, Head(b))
  BY ClientAccepts
<1>5. /\ Alike(c, x) /\ x.writequeue = c.writequeue
      /\ x.replyq = c.replyq /\ x.exited = c.exited
      /\ x.authdone = c.authdone /\ x.keys = c.keys
      /\ x.requirenext = "none" /\ c.requirenext = "none"
      /\ x.donefirstkex = c.donefirstkex
  <2>1. PICK p : p = Head(b)
    OBVIOUS
  <2>2. p.t = SUCCESS /\ Accepts(c, p)
    BY <2>1, <1>1, <1>4
  <2>. QED  BY <2>2, <1>1, UpperArrived
<1>. HIDE DEF x
<1>6. Idle("C", x) /\ DOMAIN x = Names
  BY <1>2, <1>5, PhaseSame, AlikeFields
<1>7. /\ But(x, y, {"authdone"}) /\ y.authdone = TRUE
      /\ y.writequeue = x.writequeue /\ y.replyq = x.replyq
  BY <1>6 DEF But, Names
<1>. HIDE DEF y
<1>8. /\ Idle("C", y) /\ y.keys = x.keys /\ y.exited = x.exited
      /\ y.requirenext = "none" /\ y.donefirstkex = x.donefirstkex
  <2>1. But(x, y, Queues \cup {"authdone"})
    BY <1>7 DEF But
  <2>. QED  BY <2>1, <1>6, <1>7, SuccessFields
<1>9. a = <<>>
  BY <1>2, <1>3 DEF Joined, Both
<1>10. Talk(g, y, s, ka, kb)
  <2>1. Talk(g, c, s, ka, kb) /\ y.keys = c.keys
    BY <1>5, <1>8 DEF Joined
  <2>. QED  BY <2>1, <1>2, <1>8, TalkResting
<1>11. Line(a, ka, ua, y, s)
  <2>1. Line(<<>>, ka, ua, c, s) /\ y.keys.trans = c.keys.trans
    BY <1>5, <1>8, <1>9 DEF Joined
  <2>2. Line(<<>>, ka, ua, y, s)
    BY <2>1, <1>3, LineEmptied
  <2>. QED  BY <2>2, <1>9
<1>12. IsSeq(b) /\ IsSeq(kb) /\ IsSeq(ub) /\ Line(b, kb, ub, s, c) /\ IsSeq(a)
       /\ Queued(c) /\ Queued(s)
  BY JoinedFacts DEF Joined, Talking
<1>13. Line(Tail(b), kb, Tail(ub), s, y)
  <2>1. PICK p : p = Head(b)
    OBVIOUS
  <2>2. p.t = SUCCESS /\ p.t # "NEWKEYS" /\ p.t \notin KexType /\ p.t \in Dialogue
    BY <2>1, <1>1, Types
  <2>3. y.keys.recv = c.keys.recv /\ y.donefirstkex = c.donefirstkex
    BY <1>5, <1>8
  <2>4. Line(Tail(b), IF p.t \in KexType THEN Tail(kb) ELSE kb,
             IF p.t \in Dialogue THEN Tail(ub) ELSE ub, s, y)
    BY <2>1, <2>2, <2>3, <1>7, <1>8, <1>12, LineRead
  <2>. QED  BY <2>2, <2>4
<1>14. Queued(y) /\ IsSeq(Tail(b)) /\ IsSeq(Tail(ub)) /\ IsSeq(ua)
  BY <1>2, <1>5, <1>7, <1>12, JoinedFacts, Rest DEF Queued
<1>15. Bare(g, y, s, a, Tail(b), ka, kb, ua, Tail(ub))
  BY <1>10, <1>11, <1>12, <1>13, <1>14 DEF Bare
<1>16. Both(y, s, n, a)
  <2>1. Both(c, s, m, a) /\ c.donefirstkex
    BY <1>2 DEF Joined, Idle
  <2>. QED  BY <2>1, <1>3, <1>5, <1>7, <1>8 DEF Both, Waiting
<1>17. Dialog(n, s.authdone, ua, Tail(ub))
  BY <1>3 DEF Dialog
<1>18. Linked(g, y, s, a, Tail(b), n)
  <2>1. PICK w, vb : w = Tail(b) /\ vb = Tail(ub)
    OBVIOUS
  <2>2. Linked(g, y, s, a, w, n)
    BY <2>1, <1>15, <1>16, <1>17, BareJoined
  <2>. QED  BY <2>1, <2>2
<1>19. y.writequeue = c.writequeue /\ IsSeq(c.writequeue)
  BY <1>5, <1>7, <1>12 DEF Queued
<1>20. ClientAdds(c.writequeue, g, y, s, a, Tail(b), n)
  BY <1>18, <1>19, NothingAdded
<1>. QED  BY <1>20 DEF x, y
---------------------------------------------------------------------------
(* The switch in cli_sessionloop() *)

LEMMA ClientMayAsk ==
    ASSUME NEW g, NEW c, NEW s, NEW a, NEW b, NEW m, NEW ka, NEW kb, NEW ua,
           NEW ub, Joined(g, c, s, a, b, m, ka, kb, ua, ub), Asking(m),
           c.donefirstkex
    PROVE  c.authdone = FALSE /\ c.dataallowed
<1>1. Stands(g, "C", c)
  BY JoinedFacts DEF Talking
<1>2. c.authdone \in BOOLEAN /\ (c.dataallowed <=> Idle("C", c) \/ Switched("C", c))
      /\ c.dataallowed \in BOOLEAN
  BY <1>1, StandFacts
<1>3. ~c.authdone
  BY DEF Joined, Both, Asking
<1>4. ~Begun("C", c) /\ ~Met(g, "C", c)
  BY <1>3 DEF Begun, Met
<1>. QED  BY <1>1, <1>2, <1>3, <1>4 DEF Stands

SpokeTwice(s, y, q, r) ==
    IsSeq(q \o r) /\ y.writequeue = s.writequeue \o (q \o r)

LEMMA SaidTwice ==
    ASSUME NEW s, NEW x, NEW y, NEW q, NEW r, NEW t, NEW u, Said(s, x, q, t),
           Said(x, y, r, u), IsSeq(s.writequeue)
    PROVE  SpokeTwice(s, y, q, r)
<1>1. PICK w : w = s.writequeue
  OBVIOUS
<1>2. IsSeq(q) /\ IsSeq(r) /\ IsSeq(w) /\ y.writequeue = (w \o q) \o r
  BY <1>1 DEF Said
<1>3. (w \o q) \o r = w \o (q \o r) /\ IsSeq(q \o r)
  BY <1>2, Associates, Concat
<1>. QED  BY <1>1, <1>2, <1>3 DEF SpokeTwice

LEMMA ClientSpeaks ==
    ASSUME NEW g, NEW c, NEW s, NEW a, NEW b, NEW m, NEW n, Linked(g, c, s, a, b, m),
           c.donefirstkex, m.state = "STATE_NOTHING",
           n.state = "USERAUTH_REQ_SENT", NEW v, v.method = "none"
    PROVE  ClientAdds(c.writequeue, g,
                      EncryptPacket(EncryptPacket(c, "SERVICE_REQUEST", 0),
                                    "USERAUTH_REQUEST", v), s, a, b, n)
<1>. DEFINE x == EncryptPacket(c, "SERVICE_REQUEST", 0)
            y == EncryptPacket(x, "USERAUTH_REQUEST", v)
<1>. PICK ka, kb, ua, ub : Joined(g, c, s, a, b, m, ka, kb, ua, ub)
  BY DEF Linked
<1>1. /\ Bare(g, c, s, a, b, ka, kb, ua, ub) /\ Both(c, s, m, a)
      /\ Dialog(m, s.authdone, ua, ub)
  BY BareJoined
<1>2. c.authdone = FALSE /\ c.dataallowed
  BY ClientMayAsk DEF Asking
<1>3. ~s.authdone /\ ua = <<>> /\ ub = <<>>
  BY <1>1 DEF Dialog
<1>4. "SERVICE_REQUEST" \in Dialogue \ {SUCCESS} /\ "USERAUTH_REQUEST" \in Dialogue \ {SUCCESS}
  BY DEF Dialogue, ServiceType, AuthType, SUCCESS
<1>5. \E q : /\ Said(c, x, q, "SERVICE_REQUEST")
             /\ Bare(g, x, s, a \o q, b, ka, kb,
                     Append(ua, [t |-> "SERVICE_REQUEST", b |-> 0]), ub)
  BY <1>1, <1>2, <1>4, ClientSays
<1>6. PICK p1, p2 : /\ p1 = [t |-> "SERVICE_REQUEST", b |-> 0]
                    /\ p2 = [t |-> "USERAUTH_REQUEST", b |-> v]
  OBVIOUS
<1>. HIDE DEF x
<1>7. PICK q : /\ Said(c, x, q, "SERVICE_REQUEST")
               /\ Bare(g, x, s, a \o q, b, ka, kb, Append(ua, p1), ub)
  BY <1>5, <1>6
<1>8. x.dataallowed
  BY <1>2, <1>7, AlikeFields DEF Said
<1>9. PICK w, va : w = a \o q /\ va = Append(ua, p1)
  OBVIOUS
<1>10. Bare(g, x, s, w, b, ka, kb, va, ub)
  BY <1>7, <1>9
<1>11. \E r : /\ Said(x, y, r, "USERAUTH_REQUEST")
              /\ Bare(g, y, s, w \o r, b, ka, kb,
                      Append(va, [t |-> "USERAUTH_REQUEST", b |-> v]), ub)
  BY <1>4, <1>8, <1>10, ClientSays
<1>. HIDE DEF y
<1>12. PICK r : /\ Said(x, y, r, "USERAUTH_REQUEST")
                /\ Bare(g, y, s, w \o r, b, ka, kb, Append(va, p2), ub)
  BY <1>6, <1>11
<1>13. /\ IsSeq(q) /\ IsSeq(r) /\ IsSeq(a) /\ IsSeq(c.writequeue)
  BY <1>1, <1>7, <1>12 DEF Said, Bare, Queued
<1>14. w \o r = a \o (q \o r)
  BY <1>9, <1>13, Associates
<1>15. IsSeq(q \o r) /\ y.writequeue = c.writequeue \o (q \o r)
  <2>1. SpokeTwice(c, y, q, r)
    BY <1>7, <1>12, <1>13, SaidTwice
  <2>. QED  BY <2>1 DEF SpokeTwice
<1>16. /\ y.authdone = c.authdone /\ y.donefirstkex = c.donefirstkex
       /\ y.exited = c.exited /\ y.replyq = c.replyq
  <2>1. /\ x.authdone = c.authdone /\ x.donefirstkex = c.donefirstkex
        /\ x.exited = c.exited /\ x.replyq = c.replyq
    BY <1>7, AlikeFields DEF Said
  <2>2. /\ y.authdone = x.authdone /\ y.donefirstkex = x.donefirstkex
        /\ y.exited = x.exited /\ y.replyq = x.replyq
    BY <1>12, AlikeFields DEF Said
  <2>. QED  BY <2>1, <2>2
<1>17. Both(y, s, n, w \o r)
  BY <1>1, <1>2, <1>3, <1>16 DEF Both, Waiting
<1>18. Append(va, p2) = <<SR, RQ(v)>>
  <2>1. Append(Append(<<>>, p1), p2) = <<p1, p2>>
    BY Grown, Zenon
  <2>. QED  BY <2>1, <1>3, <1>6, <1>9 DEF SR, RQ
<1>19. Dialog(n, s.authdone, Append(va, p2), ub)
  <2>1. "none" \in Methods /\ v.method # "query"
    BY DEF Methods
  <2>2. PICK u : u = <<SR, RQ(v)>>
    OBVIOUS
  <2>3. Dialog(n, s.authdone, u, ub)
    BY <2>1, <2>2, <1>3 DEF Dialog
  <2>. QED  BY <2>2, <2>3, <1>18
<1>20. Linked(g, y, s, w \o r, b, n)
  <2>1. PICK u, vv : u = Append(va, p2) /\ vv = w \o r
    OBVIOUS
  <2>2. Linked(g, y, s, vv, b, n)
    BY <2>1, <1>12, <1>17, <1>19, BareJoined
  <2>. QED  BY <2>1, <2>2
<1>21. ClientAdds(c.writequeue, g, y, s, a, b, n)
  <2>1. PICK u : u = q \o r
    OBVIOUS
  <2>2. IsSeq(u) /\ y.writequeue = c.writequeue \o u /\ Linked(g, y, s, a \o u, b, n)
    BY <2>1, <1>14, <1>15, <1>20
  <2>. QED  BY <2>2 DEF ClientAdds
<1>. QED  BY <1>21 DEF x, y

\* cli_auth_try()
LEMMA ClientTries ==
    ASSUME NEW g, NEW c, NEW s, NEW a, NEW b, NEW m, NEW n, Linked(g, c, s, a, b, m),
           c.donefirstkex, m.state = "USERAUTH_FAIL_RCVD",
           n.state = "USERAUTH_REQ_SENT"
    PROVE  /\ \A v : v.method \in Methods
                     /\ (v.method = "query" => n.lastauthtype = "pubkey") =>
                ClientAdds(c.writequeue, g,
                           EncryptPacket(c, "USERAUTH_REQUEST", v), s, a, b, n)
           /\ ClientAdds(c.writequeue, g, Exit(c, "no auth methods"), s, a, b, n)
<1>. PICK ka, kb, ua, ub : Joined(g, c, s, a, b, m, ka, kb, ua, ub)
  BY DEF Linked
<1>1. /\ Bare(g, c, s, a, b, ka, kb, ua, ub) /\ Both(c, s, m, a)
      /\ Dialog(m, s.authdone, ua, ub)
  BY BareJoined
<1>2. c.authdone = FALSE /\ c.dataallowed
  BY ClientMayAsk DEF Asking
<1>3. ~s.authdone /\ ua = <<>> /\ ub = <<>>
  BY <1>1 DEF Dialog
<1>4. ASSUME NEW v, v.method \in Methods,
             v.method = "query" => n.lastauthtype = "pubkey"
      PROVE  ClientAdds(c.writequeue, g,
                        EncryptPacket(c, "USERAUTH_REQUEST", v), s, a, b, n)
  <2>. DEFINE y == EncryptPacket(c, "USERAUTH_REQUEST", v)
  <2>1. "USERAUTH_REQUEST" \in Dialogue \ {SUCCESS}
    BY DEF Dialogue, AuthType, SUCCESS
  <2>2. \E q : /\ Said(c, y, q, "USERAUTH_REQUEST")
               /\ Bare(g, y, s, a \o q, b, ka, kb,
                       Append(ua, [t |-> "USERAUTH_REQUEST", b |-> v]), ub)
    BY <2>1, <1>1, <1>2, ClientSays
  <2>. HIDE DEF y
  <2>3. PICK p : p = RQ(v)
    OBVIOUS
  <2>4. PICK q : /\ Said(c, y, q, "USERAUTH_REQUEST")
                 /\ Bare(g, y, s, a \o q, b, ka, kb, Append(ua, p), ub)
    BY <2>2, <2>3 DEF RQ
  <2>5. /\ y.authdone = c.authdone /\ y.donefirstkex = c.donefirstkex
        /\ y.exited = c.exited /\ y.replyq = c.replyq
    BY <2>4, AlikeFields DEF Said
  <2>6. Both(y, s, n, a \o q)
    BY <1>1, <1>2, <1>3, <2>5 DEF Both, Waiting
  <2>7. Append(ua, p) = <<RQ(v)>>
    <3>1. Append(<<>>, p) = <<p>>
      BY Grown, Zenon
    <3>. QED  BY <3>1, <2>3, <1>3
  <2>8. Dialog(n, s.authdone, Append(ua, p), ub)
    <3>1. PICK u : u = <<RQ(v)>>
      OBVIOUS
    <3>2. Dialog(n, s.authdone, u, ub)
      BY <3>1, <1>3, <1>4 DEF Dialog
    <3>. QED  BY <3>1, <3>2, <2>7
  <2>9. Linked(g, y, s, a \o q, b, n)
    <3>1. PICK u, vv : u = Append(ua, p) /\ vv = a \o q
      OBVIOUS
    <3>2. Linked(g, y, s, vv, b, n)
      BY <3>1, <2>4, <2>6, <2>8, BareJoined
    <3>. QED  BY <3>1, <3>2
  <2>10. ClientAdds(c.writequeue, g, y, s, a, b, n)
    BY <2>4, <2>9 DEF ClientAdds, Said
  <2>. QED  BY <2>10 DEF y
<1>5. ClientAdds(c.writequeue, g, Exit(c, "no auth methods"), s, a, b, n)
  <2>. DEFINE y == Exit(c, "no auth methods")
  <2>1. /\ Both(c, s, n, a) /\ Dialog(n, s.authdone, ua, ub)
    BY <1>1, <1>2, <1>3 DEF Both, Dialog
  <2>2. Linked(g, c, s, a, b, n)
    BY <2>1, <1>1, BareJoined
  <2>3. DOMAIN c = Names /\ IsSeq(c.writequeue)
    BY JoinedFacts DEF Joined, Queued
  <2>4. /\ Alike(c, y) /\ y.writequeue = c.writequeue /\ y.replyq = c.replyq
        /\ y.exited \in Fine
    BY <2>3 DEF Alike, But, Loose, Names, Exit, Fine
  <2>. HIDE DEF y
  <2>5. Linked(g, y, s, a, b, n)
    BY <2>2, <2>4, ClientAlike
  <2>6. ClientAdds(c.writequeue, g, y, s, a, b, n)
    BY <2>3, <2>4, <2>5, NothingAdded
  <2>. QED  BY <2>6 DEF y
<1>. QED  BY <1>4, <1>5

\* The channel that is opened when authentication has succeeded.
LEMMA ClientOpensChannel ==
    ASSUME NEW g, NEW c, NEW s, NEW a, NEW b, NEW m, NEW n, Linked(g, c, s, a, b, m),
           m.state = "USERAUTH_SUCCESS_RCVD", n.state = "SESSION_RUNNING"
    PROVE  ClientAdds(c.writequeue, g,
                      EncryptPacket([c EXCEPT !.chancount = @ + 1],
                                    "CHANNEL_OPEN", 0), s, a, b, n)
<1>. DEFINE x == [c EXCEPT !.chancount = @ + 1]
<1>. PICK ka, kb, ua, ub : Joined(g, c, s, a, b, m, ka, kb, ua, ub)
  BY DEF Linked
<1>1. DOMAIN c = Names /\ c.exited \in Fine
  BY JoinedFacts DEF Waiting
<1>2. /\ Alike(c, x) /\ x.writequeue = c.writequeue /\ x.replyq = c.replyq
      /\ x.exited \in Fine
  BY <1>1 DEF Alike, But, Loose, Names
<1>. HIDE DEF x
<1>3. Linked(g, c, s, a, b, n)
  <2>1. Bare(g, c, s, a, b, ka, kb, ua, ub) /\ Both(c, s, m, a)
        /\ Dialog(m, s.authdone, ua, ub)
    BY BareJoined
  <2>2. Both(c, s, n, a) /\ Dialog(n, s.authdone, ua, ub)
    BY <2>1 DEF Both, Dialog
  <2>. QED  BY <2>1, <2>2, BareJoined
<1>4. Linked(g, x, s, a, b, n) /\ x.authdone
  <2>1. c.authdone
    BY DEF Joined, Both
  <2>. QED  BY <2>1, <1>2, <1>3, ClientAlike, AlikeFields
<1>5. "CHANNEL_OPEN" \in ConnectionType
  BY DEF ConnectionType
<1>6. ClientAdds(c.writequeue, g, EncryptPacket(x, "CHANNEL_OPEN", 0), s, a, b, n)
  BY <1>2, <1>4, <1>5, ClientConnection
<1>. QED  BY <1>6 DEF x

---------------------------------------------------------------------------
(* What has left the write queues, and what is still there                  *)

LEMMA TogetherFacts ==
    ASSUME NEW g, NEW c, NEW s, NEW na, NEW nb, NEW m, Together(g, c, s, na, nb, m)
    PROVE  /\ IsSeq(c.writequeue) /\ IsSeq(s.writequeue)
           /\ Stands(g, "C", c) /\ Stands(g, "S", s)
           /\ DOMAIN c = Names /\ DOMAIN s = Names
           /\ c.exited \in Fine /\ s.exited \in Fine
           /\ c.authdone => s.authdone
<1>. PICK a, b : a = na \o c.writequeue /\ b = nb \o s.writequeue
  OBVIOUS
<1>1. Linked(g, c, s, a, b, m)
  BY DEF Together
<1>2. PICK ka, kb, ua, ub : Joined(g, c, s, a, b, m, ka, kb, ua, ub)
  BY <1>1 DEF Linked
<1>3. /\ Talking(g, c, s, ka, kb) /\ DOMAIN c = Names /\ DOMAIN s = Names
      /\ Waiting(c) /\ Waiting(s)
  BY <1>2, JoinedFacts
<1>. QED  BY <1>2, <1>3 DEF Joined, Queued, Talking, Waiting, Both

\* What is added behind the write queue is added behind the wire.
LEMMA AddedBehind ==
    ASSUME NEW n, NEW q, NEW r, IsSeq(n), IsSeq(q), IsSeq(r)
    PROVE  n \o (q \o r) = (n \o q) \o r
BY Associates

LEMMA ClientAddsTogether ==
    ASSUME NEW g, NEW x, NEW s, NEW na, NEW nb, NEW m, NEW q, IsSeq(q),
           IsSeq(na), IsSeq(nb),
           ClientAdds(q, g, x, s, na \o q, nb \o s.writequeue, m)
    PROVE  Together(g, x, s, na, nb, m)
<1>. PICK a, b : a = na \o q /\ b = nb \o s.writequeue
  OBVIOUS
<1>1. ClientAdds(q, g, x, s, a, b, m)
  OBVIOUS
<1>2. PICK r : IsSeq(r) /\ x.writequeue = q \o r /\ Linked(g, x, s, a \o r, b, m)
  BY <1>1 DEF ClientAdds
<1>3. a \o r = na \o x.writequeue
  BY <1>2, AddedBehind
<1>. QED  BY <1>2, <1>3 DEF Together

LEMMA ServerAddsTogether ==
    ASSUME NEW g, NEW c, NEW x, NEW na, NEW nb, NEW m, NEW q, IsSeq(q),
           IsSeq(na), IsSeq(nb),
           ServerAdds(q, g, c, x, na \o c.writequeue, nb \o q, m)
    PROVE  Together(g, c, x, na, nb, m)
<1>. PICK a, b : a = na \o c.writequeue /\ b = nb \o q
  OBVIOUS
<1>1. ServerAdds(q, g, c, x, a, b, m)
  OBVIOUS
<1>2. PICK r : IsSeq(r) /\ x.writequeue = q \o r /\ Linked(g, c, x, a, b \o r, m)
  BY <1>1 DEF ServerAdds
<1>3. b \o r = nb \o x.writequeue
  BY <1>2, AddedBehind
<1>. QED  BY <1>2, <1>3 DEF Together

LEMMA TogetherFlushed ==
    ASSUME NEW g, NEW c, NEW s, NEW na, NEW nb, NEW m, Together(g, c, s, na, nb, m)
    PROVE  /\ Together(g, MaybeFlushReplyQueue(c), s, na, nb, m)
           /\ Together(g, c, MaybeFlushReplyQueue(s), na, nb, m)
<1>1. /\ IsSeq(na) /\ IsSeq(nb) /\ IsSeq(c.writequeue) /\ IsSeq(s.writequeue)
      /\ Linked(g, c, s, na \o c.writequeue, nb \o s.writequeue, m)
  BY TogetherFacts DEF Together
<1>. PICK a, b, p, q : /\ a = na \o p /\ b = nb \o q
                       /\ p = c.writequeue /\ q = s.writequeue
  OBVIOUS
<1>2. Linked(g, c, s, a, b, m)
  BY <1>1
<1>3. ClientAdds(p, g, MaybeFlushReplyQueue(c), s, a, b, m)
  BY <1>2, ClientFlushes
<1>4. ServerAdds(q, g, c, MaybeFlushReplyQueue(s), a, b, m)
  BY <1>2, ServerFlushes
<1>5. PICK x, y : x = MaybeFlushReplyQueue(c) /\ y = MaybeFlushReplyQueue(s)
  OBVIOUS
<1>6. Together(g, x, s, na, nb, m)
  BY <1>1, <1>3, <1>5, ClientAddsTogether
<1>7. Together(g, c, y, na, nb, m)
  BY <1>1, <1>4, <1>5, ServerAddsTogether
<1>. QED  BY <1>5, <1>6, <1>7

---------------------------------------------------------------------------
(* An end reads the packet at the head of what has arrived *)

Arrived(r, p, h) == MaybeFlushReplyQueue(Read(r, p, ProcessPacket(r, p.t, h)))

LEMMA ClientReads ==
    ASSUME NEW g, NEW c, NEW s, NEW na, NEW nb, NEW m, NEW n, NEW h,
           Together(g, c, s, na, nb, m), nb # <<>>,
           \A a, b : /\ a = na \o c.writequeue /\ b = nb \o s.writequeue
                     /\ Linked(g, c, s, a, b, m) /\ b # <<>> /\ Head(b) = Head(nb)
                     => ClientAdds(c.writequeue, g, h, s, a, Tail(b), n)
    PROVE  Together(g, Arrived(c, Head(nb), h), s, na, Tail(nb), n)
<1>1. /\ IsSeq(na) /\ IsSeq(nb) /\ IsSeq(c.writequeue) /\ IsSeq(s.writequeue)
      /\ Linked(g, c, s, na \o c.writequeue, nb \o s.writequeue, m)
  BY TogetherFacts DEF Together
<1>. PICK a, b, p, q : /\ a = na \o p /\ b = nb \o q
                       /\ p = c.writequeue /\ q = s.writequeue
  OBVIOUS
<1>2. b # <<>> /\ Head(b) = Head(nb) /\ Tail(b) = Tail(nb) \o q
  BY <1>1, ReadFromNet
<1>3. Linked(g, c, s, a, b, m)
  BY <1>1
<1>4. Accepts(c, Head(nb)) /\ c.ignorenext = FALSE
  BY <1>2, <1>3, ClientAccepts
<1>5. Arrived(c, Head(nb), h) = MaybeFlushReplyQueue(h)
  BY <1>4, Dispatches DEF Arrived
<1>6. ClientAdds(p, g, h, s, a, Tail(b), n)
  BY <1>2, <1>3
<1>7. IsSeq(Tail(nb))
  BY <1>1, Rest
<1>8. PICK v : v = Tail(nb)
  OBVIOUS
<1>9. ClientAdds(p, g, h, s, na \o p, v \o s.writequeue, n)
  BY <1>2, <1>6, <1>8
<1>10. Together(g, h, s, na, v, n)
  BY <1>1, <1>7, <1>8, <1>9, ClientAddsTogether
<1>11. Together(g, MaybeFlushReplyQueue(h), s, na, v, n)
  BY <1>10, TogetherFlushed
<1>. QED  BY <1>5, <1>8, <1>11

LEMMA ServerReads ==
    ASSUME NEW g, NEW c, NEW s, NEW na, NEW nb, NEW m, NEW h,
           Together(g, c, s, na, nb, m), na # <<>>,
           \A a, b : /\ a = na \o c.writequeue /\ b = nb \o s.writequeue
                     /\ Linked(g, c, s, a, b, m) /\ a # <<>> /\ Head(a) = Head(na)
                     /\ s.ignorenext = FALSE
                     => ServerAdds(s.writequeue, g, c, h, Tail(a), b, m)
    PROVE  Together(g, c, Arrived(s, Head(na), h), Tail(na), nb, m)
<1>1. /\ IsSeq(na) /\ IsSeq(nb) /\ IsSeq(c.writequeue) /\ IsSeq(s.writequeue)
      /\ Linked(g, c, s, na \o c.writequeue, nb \o s.writequeue, m)
  BY TogetherFacts DEF Together
<1>. PICK a, b, p, q : /\ a = na \o p /\ b = nb \o q
                       /\ p = c.writequeue /\ q = s.writequeue
  OBVIOUS
<1>2. a # <<>> /\ Head(a) = Head(na) /\ Tail(a) = Tail(na) \o p
  BY <1>1, ReadFromNet
<1>3. Linked(g, c, s, a, b, m)
  BY <1>1
<1>4. /\ Accepts(s, Head(na)) /\ s.ignorenext \in BOOLEAN
      /\ s.ignorenext => Head(na).t = "KEXDH_INIT" /\ Met(g, "S", s)
  <2>1. /\ Accepts(s, Head(a))
        /\ s.ignorenext => Head(a).t = "KEXDH_INIT" /\ Met(g, "S", s)
    BY <1>2, <1>3, ServerAccepts
  <2>2. PICK p1 : p1 = Head(na)
    OBVIOUS
  <2>3. Accepts(s, p1) /\ (s.ignorenext => p1.t = "KEXDH_INIT" /\ Met(g, "S", s))
    BY <2>1, <2>2, <1>2
  <2>4. s.ignorenext \in BOOLEAN
    BY <2>3 DEF Accepts
  <2>. QED  BY <2>2, <2>3, <2>4
<1>5. PICK y : y = Read(s, Head(na), ProcessPacket(s, Head(na).t, h))
  OBVIOUS
<1>6. ServerAdds(q, g, c, y, Tail(a), b, m)
  <2>1. ASSUME s.ignorenext = FALSE  PROVE ServerAdds(q, g, c, y, Tail(a), b, m)
    <3>1. y = h
      BY <1>4, <1>5, <2>1, Dispatches
    <3>2. ServerAdds(q, g, c, h, Tail(a), b, m)
      BY <1>2, <1>3, <2>1
    <3>. QED  BY <3>1, <3>2
  <2>2. ASSUME s.ignorenext = TRUE  PROVE ServerAdds(q, g, c, y, Tail(a), b, m)
    <3>1. y = [Noted(s, Head(na).t) EXCEPT !.ignorenext = FALSE]
      BY <1>4, <1>5, <2>2, Dispatches
    <3>2. DOMAIN s = Names
      BY <1>4 DEF Accepts
    <3>3. But(s, y, {"lastpacket", "ignorenext"}) /\ y.ignorenext = FALSE
      BY <3>1, <3>2 DEF But, Noted, Names
    <3>. QED  BY <1>2, <1>3, <1>4, <2>2, <3>3, ServerIgnores
  <2>. QED  BY <1>4, <2>1, <2>2
<1>7. IsSeq(Tail(na))
  BY <1>1, Rest
<1>8. PICK v : v = Tail(na)
  OBVIOUS
<1>9. ServerAdds(q, g, c, y, v \o c.writequeue, nb \o q, m)
  BY <1>2, <1>6, <1>8
<1>10. Together(g, c, y, v, nb, m)
  BY <1>1, <1>7, <1>8, <1>9, ServerAddsTogether
<1>11. Together(g, c, MaybeFlushReplyQueue(y), v, nb, m)
  BY <1>10, TogetherFlushed
<1>. QED  BY <1>5, <1>8, <1>11 DEF Arrived
---------------------------------------------------------------------------
(* How far the client's loop is *)

\* The sessions s and x are in the same place of an exchange.
Level(s, x) == Alike(s, x) /\ Alike(x, s) /\ x.lastpacket = s.lastpacket

LEMMA AlikeBack ==
    ASSUME NEW s, NEW x, DOMAIN s = Names, Alike(s, x)
    PROVE  Alike(x, s)
BY DEF Alike, But

LEMMA Levels ==
    ASSUME NEW s, DOMAIN s = Names
    PROVE  /\ \A t, b : Level(s, EncryptPacket(s, t, b))
           /\ \A why : Level(s, Exit(s, why))
           /\ \A n : Level(s, [s EXCEPT !.chancount = n])
<1>1. ASSUME NEW t, NEW b  PROVE Level(s, EncryptPacket(s, t, b))
  <2>. DEFINE x == EncryptPacket(s, t, b)
  <2>1. But(s, x, Queues)
    BY EncryptForm
  <2>. HIDE DEF x
  <2>2. Alike(s, x) /\ x.lastpacket = s.lastpacket
    BY <2>1, QueuesAlike
  <2>3. Level(s, x)
    BY <2>2, AlikeBack DEF Level
  <2>. QED  BY <2>3 DEF x
<1>2. ASSUME NEW why  PROVE Level(s, Exit(s, why))
  BY DEF Level, Alike, But, Loose, Names, Exit
<1>3. ASSUME NEW n  PROVE Level(s, [s EXCEPT !.chancount = n])
  BY DEF Level, Alike, But, Loose, Names
<1>. QED  BY <1>1, <1>2, <1>3

LEMMA LevelFlush ==
    ASSUME NEW s, DOMAIN s = Names
    PROVE  Level(s, MaybeFlushReplyQueue(s))
<1>. DEFINE x == MaybeFlushReplyQueue(s)
<1>1. /\ But(s, x, Loose) /\ But(x, s, Loose) /\ x.lastpacket = s.lastpacket
  <2>1. CASE ~s.dataallowed
    BY <2>1 DEF But, Names, MaybeFlushReplyQueue
  <2>2. CASE s.dataallowed
    BY <2>2 DEF But, Names, MaybeFlushReplyQueue, Loose
  <2>. QED  BY <2>1, <2>2
<1>. QED  BY <1>1 DEF Level, Alike

LEMMA LevelFields ==
    ASSUME NEW s, NEW x, Level(s, x)
    PROVE  /\ DOMAIN s = Names /\ DOMAIN x = Names
           /\ x.requirenext = s.requirenext /\ x.lastpacket = s.lastpacket
           /\ x.authdone = s.authdone /\ x.donefirstkex = s.donefirstkex
           /\ x.kex_state = s.kex_state
<1>1. DOMAIN s = Names
  BY DEF Level, Alike, But
<1>. QED  BY <1>1, AlikeFields DEF Level

LEMMA LevelTrans ==
    ASSUME NEW s, NEW x, NEW y, Level(s, x), Level(x, y)
    PROVE  Level(s, y)
BY DEF Level, Alike, But

LEMMA TurnSame ==
    ASSUME NEW g, NEW c, NEW x, NEW step, NEW next, Turn(g, c, step), Level(c, x),
           step \in {"io", "handler"} => next \in {"io", "handler"}
    PROVE  Turn(g, x, next)
<1>1. /\ Met(g, "C", x) => Met(g, "C", c)
      /\ Switched("C", x) => Switched("C", c)
      /\ Met(g, "C", c) => Met(g, "C", x)
  BY PhaseSame DEF Level
<1>2. x.kex_state = c.kex_state /\ x.lastpacket = c.lastpacket
  BY LevelFields
<1>. QED  BY <1>1, <1>2 DEF Turn

\* A packet of type t has been read.
LEMMA TurnRead ==
    ASSUME NEW g, NEW x, NEW t, Stands(g, "C", x), x.lastpacket = t, t # "none",
           t = "KEXINIT" => x.requirenext = "KEXDH_REPLY",
           t # "KEXINIT" => x.requirenext # "KEXDH_REPLY"
    PROVE  Turn(g, x, "io")
<1>1. x.requirenext = "KEXDH_REPLY" => Met(g, "C", x)
  BY StandFacts
<1>2. Met(g, "C", x) => x.requirenext = "KEXDH_REPLY"
  BY DEF Met
<1>. QED  BY <1>1, <1>2 DEF Turn

\* cli_sessionloop() behind an exchange.
LEMMA TurnDone ==
    ASSUME NEW g, NEW c, NEW x, Turn(g, c, "handler"), ~StartsKexdh(c),
           x.lastpacket = c.lastpacket,
           Switched("C", c) => Switched("C", x) /\ x.kex_state = "KEX_NOTHING",
           ~Switched("C", c) => x = c
    PROVE  Turn(g, x, "timeouts")
<1>1. ASSUME Switched("C", c)  PROVE Turn(g, x, "timeouts")
  <2>1. Switched("C", x) /\ ~Met(g, "C", x) /\ ~Met(g, "C", c)
    BY <1>1, Distinct
  <2>. QED  BY <1>1, <2>1 DEF Turn
<1>2. ASSUME ~Switched("C", c)  PROVE Turn(g, x, "timeouts")
  BY <1>2 DEF Turn, StartsKexdh
<1>. QED  BY <1>1, <1>2

\* The handlers leave the type that process_packet() has noted.
LEMMA Leave ==
    ASSUME NEW e \in End, NEW z, NEW b, NEW g, DOMAIN z = Names
    PROVE  /\ RecvKexinit(e, z, b, g).lastpacket = z.lastpacket
           /\ e = "C" => RecvKexinit(e, z, b, g).requirenext = "KEXDH_REPLY"
           /\ RecvNewkeys(z).lastpacket = z.lastpacket
           /\ RecvNewkeys(z).requirenext = z.requirenext
           /\ RecvKexdhReply(z, b).lastpacket = z.lastpacket
           /\ RecvKexdhReply(z, b).requirenext \in {z.requirenext, "NEWKEYS"}
<1>. DEFINE Plainly(s, x) == /\ DOMAIN x = Names /\ DOMAIN s = Names
                             /\ x.lastpacket = s.lastpacket
                             /\ x.requirenext = s.requirenext
<1>1. ASSUME NEW s, NEW t, NEW v, DOMAIN s = Names
      PROVE  Plainly(s, EncryptPacket(s, t, v))
  BY <1>1, Levels, LevelFields
<1>2. ASSUME NEW s, DOMAIN s = Names  PROVE Plainly(s, SwitchKeys(s))
  BY <1>2 DEF SwitchKeys, KexInitialise, Exit, Names
<1>3. ASSUME NEW s, DOMAIN s = Names  PROVE Plainly(s, SendKexdhInit(s))
  <2>1. ASSUME NEW n, NEW p  PROVE Plainly(s, [s EXCEPT !.drawn = n, !.param = p])
    BY <1>3 DEF Names
  <2>. HIDE DEF Plainly
  <2>2. PICK n, p, v : SendKexdhInit(s) =
              EncryptPacket([s EXCEPT !.drawn = n, !.param = p], "KEXDH_INIT", v)
    BY DEF SendKexdhInit
  <2>3. PICK y : y = [s EXCEPT !.drawn = n, !.param = p]
    OBVIOUS
  <2>4. Plainly(s, y) /\ SendKexdhInit(s) = EncryptPacket(y, "KEXDH_INIT", v)
    BY <2>1, <2>2, <2>3
  <2>. QED  BY <2>4, <1>1 DEF Plainly
<1>4. ASSUME NEW s, DOMAIN s = Names  PROVE Plainly(s, SendKexinit(e, s))
  <2>1. PICK y, v : /\ y = [s EXCEPT !.drawn = s.drawn + 1]
                    /\ v = [cookie |-> s.drawn + 1, first_follows |-> e = "C"]
    OBVIOUS
  <2>2. PICK w : w = EncryptPacket(y, "KEXINIT", v)
    OBVIOUS
  <2>3. PICK u : u = [w EXCEPT !.transkexinit = s.drawn + 1, !.dataallowed = FALSE,
                               !.sentkexinit = TRUE,
                               !.newkeys = NewContext("first")]
    OBVIOUS
  <2>4. Plainly(s, y)
    BY <1>4, <2>1 DEF Names
  <2>5. Plainly(y, w)
    BY <2>2, <2>4, <1>1
  <2>6. Plainly(w, u)
    BY <2>3, <2>5 DEF Names
  <2>7. Plainly(u, SendKexdhInit(u))
    BY <2>6, <1>3
  <2>8. SendKexinit(e, s) = IF e = "C" THEN SendKexdhInit(u) ELSE u
    BY <2>1, <2>2, <2>3 DEF SendKexinit
  <2>. QED  BY <2>4, <2>5, <2>6, <2>7, <2>8
<1>5. ASSUME NEW s, NEW k, DOMAIN s = Names  PROVE Plainly(s, SendNewkeys(s, k))
  <2>1. PICK w : w = EncryptPacket(s, "NEWKEYS", 0)
    OBVIOUS
  <2>2. PICK u : u = [w EXCEPT !.sentnewkeys = TRUE, !.donefirstkex = TRUE,
                               !.dataallowed = TRUE]
    OBVIOUS
  <2>3. PICK v : v = GenNewKeys(u, k)
    OBVIOUS
  <2>4. Plainly(s, w)
    BY <1>5, <2>1, <1>1
  <2>5. Plainly(w, u)
    BY <2>2, <2>4 DEF Names
  <2>6. Plainly(u, v)
    BY <2>3, <2>5 DEF GenNewKeys, Names
  <2>7. Plainly(v, SwitchKeys(v))
    BY <2>6, <1>2
  <2>8. SendNewkeys(s, k) = SwitchKeys(v)
    BY <2>1, <2>2, <2>3 DEF SendNewkeys
  <2>. QED  BY <2>4, <2>5, <2>6, <2>7, <2>8
<1>6. /\ RecvKexinit(e, z, b, g).lastpacket = z.lastpacket
      /\ e = "C" => RecvKexinit(e, z, b, g).requirenext = "KEXDH_REPLY"
  <2>1. PICK y : y = IF z.sentkexinit THEN z ELSE SendKexinit(e, z)
    OBVIOUS
  <2>2. Plainly(z, y)
    BY <2>1, <1>4
  <2>3. PICK w : w = ReadKexAlgos(e, y, b, g)
    OBVIOUS
  <2>4. Plainly(y, w)
    BY <2>2, <2>3 DEF ReadKexAlgos, Names
  <2>5. PICK kh : kh = IF e = "C" THEN [c |-> y.transkexinit, s |-> b.cookie]
                       ELSE [c |-> b.cookie, s |-> y.transkexinit]
    OBVIOUS
  <2>6. PICK rn : rn = IF e = "C" THEN "KEXDH_REPLY" ELSE "KEXDH_INIT"
    OBVIOUS
  <2>7. RecvKexinit(e, z, b, g) =
          [w EXCEPT !.kexhash = kh, !.requirenext = rn, !.transkexinit = 0,
                    !.recvkexinit = TRUE]
    BY <2>1, <2>3, <2>5, <2>6 DEF RecvKexinit
  <2>. QED  BY <2>2, <2>4, <2>6, <2>7 DEF Names
<1>7. /\ RecvNewkeys(z).lastpacket = z.lastpacket
      /\ RecvNewkeys(z).requirenext = z.requirenext
  <2>1. PICK y : y = [z EXCEPT !.recvnewkeys = TRUE]
    OBVIOUS
  <2>2. Plainly(z, y)
    BY <2>1 DEF Names
  <2>3. Plainly(y, SwitchKeys(y)) /\ RecvNewkeys(z) = SwitchKeys(y)
    BY <2>1, <2>2, <1>2 DEF RecvNewkeys
  <2>. QED  BY <2>2, <2>3
<1>8. /\ RecvKexdhReply(z, b).lastpacket = z.lastpacket
      /\ RecvKexdhReply(z, b).requirenext \in {z.requirenext, "NEWKEYS"}
  <2>1. PICK k, y : /\ k = [c |-> z.kexhash.c, s |-> z.kexhash.s,
                            x |-> z.param.x, y |-> b.y]
                    /\ y = [z EXCEPT !.param = NoParam]
    OBVIOUS
  <2>2. Plainly(z, y)
    BY <2>1 DEF Names
  <2>3. PICK w : w = SendNewkeys(y, k)
    OBVIOUS
  <2>4. Plainly(y, w)
    BY <2>2, <2>3, <1>5
  <2>5. \/ RecvKexdhReply(z, b) = Exit(z, "out-of-order kexdh_reply")
        \/ RecvKexdhReply(z, b) = Exit(y, "bad hostkey signature")
        \/ RecvKexdhReply(z, b) = [w EXCEPT !.requirenext = "NEWKEYS"]
    BY <2>1, <2>3 DEF RecvKexdhReply
  <2>. QED  BY <2>2, <2>4, <2>5 DEF Exit, Names
<1>. QED  BY <1>6, <1>7, <1>8

---------------------------------------------------------------------------
(* What the two ends do between packets *)

LEMMA TogetherAlike ==
    ASSUME NEW g, NEW c, NEW s, NEW na, NEW nb, NEW m, Together(g, c, s, na, nb, m),
           NEW x, x.exited \in Fine
    PROVE  /\ Alike(c, x) /\ x.writequeue = c.writequeue /\ x.replyq = c.replyq
              => Together(g, x, s, na, nb, m)
           /\ Alike(s, x) /\ x.writequeue = s.writequeue /\ x.replyq = s.replyq
              => Together(g, c, x, na, nb, m)
<1>. PICK a, b : a = na \o c.writequeue /\ b = nb \o s.writequeue
  OBVIOUS
<1>1. Linked(g, c, s, a, b, m) /\ IsSeq(na) /\ IsSeq(nb)
  BY DEF Together
<1>2. Alike(c, x) /\ x.writequeue = c.writequeue /\ x.replyq = c.replyq
      => Linked(g, x, s, a, b, m)
  BY <1>1, ClientAlike
<1>3. Alike(s, x) /\ x.writequeue = s.writequeue /\ x.replyq = s.replyq
      => Linked(g, c, x, a, b, m)
  BY <1>1, ServerAlike
<1>. QED  BY <1>1, <1>2, <1>3 DEF Together

\* write_packet(): what was in the queue is on the wire.
LEMMA TogetherWritten ==
    ASSUME NEW g, NEW c, NEW s, NEW na, NEW nb, NEW m, Together(g, c, s, na, nb, m)
    PROVE  /\ Together(g, [c EXCEPT !.writequeue = <<>>], s, na \o c.writequeue, nb, m)
           /\ Together(g, c, [s EXCEPT !.writequeue = <<>>], na, nb \o s.writequeue, m)
<1>. PICK a, b, x, y : /\ a = na \o c.writequeue /\ b = nb \o s.writequeue
                       /\ x = [c EXCEPT !.writequeue = <<>>]
                       /\ y = [s EXCEPT !.writequeue = <<>>]
  OBVIOUS
<1>1. /\ Linked(g, c, s, a, b, m) /\ IsSeq(na) /\ IsSeq(nb)
      /\ DOMAIN c = Names /\ DOMAIN s = Names
      /\ IsSeq(c.writequeue) /\ IsSeq(s.writequeue)
      /\ c.exited \in Fine /\ s.exited \in Fine
  BY TogetherFacts DEF Together
<1>2. /\ Alike(c, x) /\ x.writequeue = <<>> /\ x.replyq = c.replyq
      /\ x.exited \in Fine
  BY <1>1 DEF Alike, But, Loose, Names
<1>3. /\ Alike(s, y) /\ y.writequeue = <<>> /\ y.replyq = s.replyq
      /\ y.exited \in Fine
  BY <1>1 DEF Alike, But, Loose, Names
<1>4. Linked(g, x, s, a, b, m) /\ Linked(g, c, y, a, b, m)
  BY <1>1, <1>2, <1>3, ClientAlike, ServerAlike
<1>5. IsSeq(a) /\ IsSeq(b) /\ a \o <<>> = a /\ b \o <<>> = b
  BY <1>1, Concat, Empty
<1>6. Together(g, x, s, a, nb, m)
  BY <1>1, <1>2, <1>4, <1>5 DEF Together
<1>7. Together(g, c, y, na, b, m)
  BY <1>1, <1>3, <1>4, <1>5 DEF Together
<1>. QED  BY <1>6, <1>7

\* A packet of the connection layer from an end that has been accepted.
LEMMA TogetherConnection ==
    ASSUME NEW g, NEW c, NEW s, NEW na, NEW nb, NEW m, Together(g, c, s, na, nb, m),
           NEW t \in ConnectionType, NEW v
    PROVE  /\ c.authdone => Together(g, EncryptPacket(c, t, v), s, na, nb, m)
           /\ s.authdone => Together(g, c, EncryptPacket(s, t, v), na, nb, m)
<1>. PICK a, b, p, q : /\ a = na \o p /\ b = nb \o q
                       /\ p = c.writequeue /\ q = s.writequeue
  OBVIOUS
<1>1. /\ Linked(g, c, s, a, b, m) /\ IsSeq(na) /\ IsSeq(nb)
      /\ IsSeq(p) /\ IsSeq(q)
  BY TogetherFacts DEF Together
<1>2. c.authdone => ClientAdds(p, g, EncryptPacket(c, t, v), s, a, b, m)
  BY <1>1, ClientConnection
<1>3. s.authdone => ServerAdds(q, g, c, EncryptPacket(s, t, v), a, b, m)
  BY <1>1, ServerConnection
<1>4. PICK x, y : x = EncryptPacket(c, t, v) /\ y = EncryptPacket(s, t, v)
  OBVIOUS
<1>5. c.authdone => Together(g, x, s, na, nb, m)
  BY <1>1, <1>2, <1>4, ClientAddsTogether
<1>6. s.authdone => Together(g, c, y, na, nb, m)
  BY <1>1, <1>3, <1>4, ServerAddsTogether
<1>. QED  BY <1>4, <1>5, <1>6

LEMMA TogetherBegins ==
    ASSUME NEW g, NEW c, NEW s, NEW na, NEW nb, NEW m, Together(g, c, s, na, nb, m)
    PROVE  /\ c.authdone /\ Idle("C", c) =>
                /\ Together(g, SendKexinit("C", c), s, na, nb, m)
                /\ Begun("C", SendKexinit("C", c))
           /\ s.authdone /\ Idle("S", s) =>
                Together(g, c, SendKexinit("S", s), na, nb, m)
<1>. PICK a, b, p, q : /\ a = na \o p /\ b = nb \o q
                       /\ p = c.writequeue /\ q = s.writequeue
  OBVIOUS
<1>1. /\ Linked(g, c, s, a, b, m) /\ IsSeq(na) /\ IsSeq(nb)
      /\ IsSeq(p) /\ IsSeq(q)
  BY TogetherFacts DEF Together
<1>2. c.authdone /\ Idle("C", c) =>
        /\ ClientAdds(p, g, SendKexinit("C", c), s, a, b, m)
        /\ Begun("C", SendKexinit("C", c))
  BY <1>1, ClientBegins
<1>3. s.authdone /\ Idle("S", s) =>
        ServerAdds(q, g, c, SendKexinit("S", s), a, b, m)
  BY <1>1, ServerBegins
<1>4. PICK x, y : x = SendKexinit("C", c) /\ y = SendKexinit("S", s)
  OBVIOUS
<1>5. c.authdone /\ Idle("C", c) => Together(g, x, s, na, nb, m)
  BY <1>1, <1>2, <1>4, ClientAddsTogether
<1>6. s.authdone /\ Idle("S", s) => Together(g, c, y, na, nb, m)
  BY <1>1, <1>3, <1>4, ServerAddsTogether
<1>. QED  BY <1>2, <1>4, <1>5, <1>6

LEMMA RekeyKeeps ==
    ASSUME NEW e \in End, NEW s, Idle(e, s), s.authdone
    PROVE  /\ SendKexinit(e, s).authdone
           /\ SendKexinit(e, s).lastpacket = s.lastpacket
<1>. DEFINE x == SendKexinit(e, s)
<1>1. But(s, x, Queues \cup {"drawn", "transkexinit", "dataallowed",
                             "sentkexinit", "newkeys", "param"})
  BY KexinitForm
<1>. HIDE DEF x
<1>2. x.authdone = s.authdone /\ x.lastpacket = s.lastpacket
  BY <1>1, BegunSender
<1>3. x.authdone /\ x.lastpacket = s.lastpacket
  BY <1>2
<1>. QED  BY <1>3 DEF x

LEMMA TurnBegun ==
    ASSUME NEW g, NEW c, NEW x, NEW step, NEW next, Turn(g, c, step), Idle("C", c),
           Begun("C", x), x.lastpacket = c.lastpacket
    PROVE  Turn(g, x, next)
<1>1. ~Met(g, "C", c) /\ ~Met(g, "C", x) /\ ~Switched("C", x)
  BY Distinct
<1>. QED  BY <1>1 DEF Turn

---------------------------------------------------------------------------
(* checktimeouts() *)

Rekeyed(e, s, rekey) == IF rekey THEN SendKexinit(e, s) ELSE s
KeptAlive(s, keepalive) ==
    IF keepalive THEN EncryptPacket(s, KeepaliveType(s), 0) ELSE s

LEMMA StandsIdle ==
    ASSUME NEW g, NEW e, NEW s, Stands(g, e, s), ~s.sentkexinit
    PROVE  Idle(e, s)
BY DEF Stands, Begun, Met, Switched

LEMMA ClientTimeouts ==
    ASSUME NEW g, NEW c, NEW s, NEW na, NEW nb, NEW m, Together(g, c, s, na, nb, m),
           Turn(g, c, "timeouts"), NEW rekey \in BOOLEAN, NEW keepalive \in BOOLEAN,
           rekey => c.authdone /\ ~c.sentkexinit, keepalive => c.authdone
    PROVE  LET x == KeptAlive(Rekeyed("C", c, rekey), keepalive)
           IN  Together(g, x, s, na, nb, m) /\ Turn(g, x, "packet")
<1>. DEFINE z == Rekeyed("C", c, rekey)
            x == KeptAlive(z, keepalive)
<1>1. Stands(g, "C", c) /\ DOMAIN c = Names
  BY TogetherFacts
<1>2. /\ Together(g, z, s, na, nb, m) /\ Turn(g, z, "timeouts")
      /\ keepalive => z.authdone
  <2>1. ASSUME rekey
        PROVE  /\ Together(g, z, s, na, nb, m) /\ Turn(g, z, "timeouts")
               /\ keepalive => z.authdone
    <3>1. Idle("C", c) /\ c.authdone
      BY <1>1, <2>1, StandsIdle
    <3>2. z = SendKexinit("C", c)
      BY <2>1 DEF Rekeyed
    <3>. HIDE DEF z
    <3>3. "C" \in End
      BY DEF End
    <3>4. z.authdone /\ z.lastpacket = c.lastpacket
      BY <3>1, <3>2, <3>3, RekeyKeeps
    <3>5. Together(g, z, s, na, nb, m) /\ Begun("C", z)
      BY <3>1, <3>2, TogetherBegins
    <3>6. Turn(g, z, "timeouts")
      BY <3>1, <3>4, <3>5, TurnBegun
    <3>. QED  BY <3>4, <3>5, <3>6
  <2>2. ASSUME ~rekey
        PROVE  /\ Together(g, z, s, na, nb, m) /\ Turn(g, z, "timeouts")
               /\ keepalive => z.authdone
    BY <2>2 DEF Rekeyed
  <2>. QED  BY <2>1, <2>2
<1>. HIDE DEF z
<1>3. DOMAIN z = Names /\ KeepaliveType(z) \in ConnectionType
  BY <1>2, TogetherFacts DEF KeepaliveType, ConnectionType
<1>4. PICK t : t = KeepaliveType(z)
  OBVIOUS
<1>5. ASSUME keepalive  PROVE Together(g, x, s, na, nb, m) /\ Turn(g, x, "packet")
  <2>1. x = EncryptPacket(z, t, 0)
    BY <1>4, <1>5 DEF KeptAlive
  <2>. HIDE DEF x
  <2>2. Together(g, x, s, na, nb, m)
    BY <1>2, <1>3, <1>4, <1>5, <2>1, TogetherConnection
  <2>3. Level(z, x)
    BY <1>3, <2>1, Levels
  <2>. QED  BY <1>2, <2>2, <2>3, TurnSame
<1>6. ASSUME ~keepalive  PROVE Together(g, x, s, na, nb, m) /\ Turn(g, x, "packet")
  <2>1. x = z
    BY <1>6 DEF KeptAlive
  <2>2. Turn(g, z, "packet")
    BY <1>2 DEF Turn
  <2>. QED  BY <1>2, <2>1, <2>2
<1>. QED  BY <1>5, <1>6 DEF z

LEMMA ServerTimeouts ==
    ASSUME NEW g, NEW c, NEW s, NEW na, NEW nb, NEW m, Together(g, c, s, na, nb, m),
           NEW rekey \in BOOLEAN, NEW keepalive \in BOOLEAN,
           rekey => s.authdone /\ ~s.sentkexinit, keepalive => s.authdone
    PROVE  Together(g, c, KeptAlive(Rekeyed("S", s, rekey), keepalive), na, nb, m)
<1>. DEFINE z == Rekeyed("S", s, rekey)
            x == KeptAlive(z, keepalive)
<1>1. Stands(g, "S", s) /\ DOMAIN s = Names
  BY TogetherFacts
<1>2. Together(g, c, z, na, nb, m) /\ (keepalive => z.authdone)
  <2>1. ASSUME rekey
        PROVE  Together(g, c, z, na, nb, m) /\ (keepalive => z.authdone)
    <3>1. Idle("S", s) /\ s.authdone
      BY <1>1, <2>1, StandsIdle
    <3>2. z = SendKexinit("S", s)
      BY <2>1 DEF Rekeyed
    <3>. HIDE DEF z
    <3>3. "S" \in End
      BY DEF End
    <3>4. z.authdone
      BY <3>1, <3>2, <3>3, RekeyKeeps
    <3>5. Together(g, c, z, na, nb, m)
      BY <3>1, <3>2, TogetherBegins
    <3>. QED  BY <3>4, <3>5
  <2>2. ASSUME ~rekey
        PROVE  Together(g, c, z, na, nb, m) /\ (keepalive => z.authdone)
    BY <2>2 DEF Rekeyed
  <2>. QED  BY <2>1, <2>2
<1>. HIDE DEF z
<1>3. KeepaliveType(z) \in ConnectionType
  BY DEF KeepaliveType, ConnectionType
<1>4. PICK t : t = KeepaliveType(z)
  OBVIOUS
<1>5. ASSUME keepalive  PROVE Together(g, c, x, na, nb, m)
  <2>1. x = EncryptPacket(z, t, 0)
    BY <1>4, <1>5 DEF KeptAlive
  <2>. HIDE DEF x
  <2>. QED  BY <1>2, <1>3, <1>4, <1>5, <2>1, TogetherConnection
<1>6. ASSUME ~keepalive  PROVE Together(g, c, x, na, nb, m)
  BY <1>2, <1>6 DEF KeptAlive
<1>7. Together(g, c, x, na, nb, m)
  BY <1>5, <1>6
<1>. QED  BY <1>7 DEF z
---------------------------------------------------------------------------
(* channelio() and write_packet(), the end having data for a channel or not *)

WithData(s, data) == IF data THEN EncryptPacket(s, "CHANNEL_REQUEST", 0) ELSE s
Emptied(s) == [s EXCEPT !.writequeue = <<>>]

LEMMA LevelEmptied ==
    ASSUME NEW s, DOMAIN s = Names
    PROVE  Level(s, Emptied(s))
BY DEF Level, Alike, But, Loose, Names, Emptied

LEMMA ClientWrites ==
    ASSUME NEW g, NEW c, NEW s, NEW na, NEW nb, NEW m, Together(g, c, s, na, nb, m),
           Turn(g, c, "io"), NEW data \in BOOLEAN, data => c.authdone
    PROVE  LET x == WithData(c, data)
           IN  /\ Together(g, Emptied(x), s, na \o x.writequeue, nb, m)
               /\ Turn(g, Emptied(x), "handler")
<1>. DEFINE x == WithData(c, data)
<1>1. "CHANNEL_REQUEST" \in ConnectionType /\ DOMAIN c = Names
  BY TogetherFacts DEF ConnectionType
<1>2. Together(g, x, s, na, nb, m) /\ Turn(g, x, "io") /\ DOMAIN x = Names
  <2>1. ASSUME data
        PROVE  Together(g, x, s, na, nb, m) /\ Turn(g, x, "io") /\ DOMAIN x = Names
    <3>1. x = EncryptPacket(c, "CHANNEL_REQUEST", 0)
      BY <2>1 DEF WithData
    <3>. HIDE DEF x
    <3>2. Together(g, x, s, na, nb, m)
      BY <1>1, <2>1, <3>1, TogetherConnection
    <3>3. Level(c, x)
      BY <1>1, <3>1, Levels
    <3>. QED  BY <3>2, <3>3, TurnSame, LevelFields
  <2>2. ASSUME ~data
        PROVE  Together(g, x, s, na, nb, m) /\ Turn(g, x, "io") /\ DOMAIN x = Names
    BY <1>1, <2>2 DEF WithData
  <2>. QED  BY <2>1, <2>2
<1>. HIDE DEF x
<1>3. Together(g, Emptied(x), s, na \o x.writequeue, nb, m)
  BY <1>2, TogetherWritten DEF Emptied
<1>4. Turn(g, Emptied(x), "handler")
  BY <1>2, LevelEmptied, TurnSame
<1>. QED  BY <1>3, <1>4 DEF x

LEMMA ServerWrites ==
    ASSUME NEW g, NEW c, NEW s, NEW na, NEW nb, NEW m, Together(g, c, s, na, nb, m),
           NEW data \in BOOLEAN, data => s.authdone
    PROVE  LET x == WithData(s, data)
           IN  Together(g, c, Emptied(x), na, nb \o x.writequeue, m)
<1>. DEFINE x == WithData(s, data)
<1>1. "CHANNEL_REQUEST" \in ConnectionType
  BY DEF ConnectionType
<1>2. Together(g, c, x, na, nb, m)
  <2>1. ASSUME data  PROVE Together(g, c, x, na, nb, m)
    BY <1>1, <2>1, TogetherConnection DEF WithData
  <2>2. ASSUME ~data  PROVE Together(g, c, x, na, nb, m)
    BY <2>2 DEF WithData
  <2>. QED  BY <2>1, <2>2
<1>. HIDE DEF x
<1>3. Together(g, c, Emptied(x), na, nb \o x.writequeue, m)
  BY <1>2, TogetherWritten DEF Emptied
<1>. QED  BY <1>3 DEF x

---------------------------------------------------------------------------
(* The step of an end *)

LEMMA Ends ==
    /\ "C" \in End /\ "S" \in End /\ Peer("C") = "S" /\ Peer("S") = "C"
    /\ \A e \in End : e = "C" \/ e = "S"
BY DEF End, Peer

\* The session of end e has become x, and its loop has come to step.
Becomes(e, x) == \/ ses' = [ses EXCEPT ![e] = x]
                 \/ ses' = ses /\ x = ses[e]
PcBecomes(e, step) == \/ pc' = [pc EXCEPT ![e] = step]
                      \/ pc' = pc /\ step = pc[e]

LEMMA ClientMoved ==
    ASSUME KInv, NEW x, NEW step, Becomes("C", x),
           PcBecomes("C", step),
           agreed' = agreed, DOMAIN net' = End,
           Coupling(agreed, x, ses["S"], net'["S"], net'["C"], cli', step)
    PROVE  Coupled'
<1>1. DOMAIN ses = End /\ DOMAIN pc = End
  BY DEF KInv, IInv, Coupled
<1>2. ses'["C"] = x /\ ses'["S"] = ses["S"] /\ pc'["C"] = step /\ DOMAIN pc' = End
  BY <1>1, Ends DEF Becomes, PcBecomes
<1>. QED  BY <1>2 DEF Coupled

LEMMA ServerMoved ==
    ASSUME KInv, NEW x, NEW step, Becomes("S", x),
           PcBecomes("S", step),
           agreed' = agreed, cli' = cli,
           Together(agreed, ses["C"], x, net'["S"], net'["C"], cli)
    PROVE  Coupled'
<1>1. DOMAIN ses = End /\ DOMAIN pc = End
  BY DEF KInv, IInv, Coupled
<1>2. ses'["S"] = x /\ ses'["C"] = ses["C"] /\ pc'["C"] = pc["C"] /\ DOMAIN pc' = End
  BY <1>1, Ends DEF Becomes, PcBecomes
<1>3. Turn(agreed, ses["C"], pc["C"]) /\ DOMAIN cli = CliNames
  BY DEF KInv, Coupled, Coupling
<1>4. Coupling(agreed, ses["C"], x, net'["S"], net'["C"], cli, pc["C"])
  BY <1>3 DEF Coupling
<1>. QED  BY <1>2, <1>4 DEF Coupled

---------------------------------------------------------------------------
(* The steps that read nothing *)

LEMMA TimeoutsCouple ==
    ASSUME KInv, NEW e \in End, CheckTimeouts(e)
    PROVE  Coupled'
<1>. PICK rekey \in BOOLEAN, keepalive \in BOOLEAN :
        /\ At(e, "timeouts")
        /\ rekey => MayRekey(e)
        /\ keepalive => MayRequest(e)
        /\ ses' = [ses EXCEPT ![e] = KeptAlive(Rekeyed(e, ses[e], rekey), keepalive)]
        /\ pc' = [pc EXCEPT ![e] = "packet"]
        /\ UNCHANGED <<cli, svr, net, agreed, got>>
  BY DEF CheckTimeouts, KeptAlive, Rekeyed
<1>1. /\ Together(agreed, ses["C"], ses["S"], net["S"], net["C"], cli)
      /\ Turn(agreed, ses["C"], pc["C"]) /\ DOMAIN cli = CliNames
      /\ DOMAIN net = End
  BY DEF KInv, Coupled, Coupling, IInv
<1>2. /\ rekey => ses[e].authdone /\ ~ses[e].sentkexinit
      /\ keepalive => ses[e].authdone /\ pc[e] = "timeouts"
  BY DEF MayRekey, MayRequest, At
<1>3. CASE e = "C"
  <2>1. pc["C"] = "timeouts"
    BY <1>3 DEF At
  <2>2. PICK x : x = KeptAlive(Rekeyed("C", ses["C"], rekey), keepalive)
    OBVIOUS
  <2>3. /\ Together(agreed, x, ses["S"], net["S"], net["C"], cli)
        /\ Turn(agreed, x, "packet")
    BY <1>1, <1>2, <1>3, <2>1, <2>2, ClientTimeouts
  <2>4. Coupling(agreed, x, ses["S"], net'["S"], net'["C"], cli', "packet")
    BY <1>1, <2>3 DEF Coupling
  <2>. QED  BY <1>1, <1>3, <2>2, <2>4, ClientMoved DEF Becomes, PcBecomes
<1>4. CASE e = "S"
  <2>1. PICK x : x = KeptAlive(Rekeyed("S", ses["S"], rekey), keepalive)
    OBVIOUS
  <2>2. Together(agreed, ses["C"], x, net["S"], net["C"], cli)
    BY <1>1, <1>2, <1>4, <2>1, ServerTimeouts
  <2>. QED  BY <1>4, <2>1, <2>2, ServerMoved DEF Becomes, PcBecomes
<1>. QED  BY <1>3, <1>4, Ends

LEMMA NoPacketCouples ==
    ASSUME KInv, NEW e \in End, NoPacket(e)
    PROVE  Coupled'
<1>1. /\ Together(agreed, ses["C"], ses["S"], net["S"], net["C"], cli)
      /\ Turn(agreed, ses["C"], pc["C"]) /\ DOMAIN cli = CliNames
      /\ DOMAIN net = End
  BY DEF KInv, Coupled, Coupling, IInv
<1>2. /\ At(e, "packet") /\ ses' = [ses EXCEPT ![e] = MaybeFlushReplyQueue(ses[e])]
      /\ pc' = [pc EXCEPT ![e] = "io"]
      /\ cli' = cli /\ net' = net /\ agreed' = agreed
  BY DEF NoPacket, Others
<1>3. CASE e = "C"
  <2>1. PICK x : x = MaybeFlushReplyQueue(ses["C"])
    OBVIOUS
  <2>2. Together(agreed, x, ses["S"], net["S"], net["C"], cli)
    BY <1>1, <2>1, TogetherFlushed
  <2>3. Level(ses["C"], x)
    BY <1>1, <2>1, TogetherFacts, LevelFlush
  <2>4. Turn(agreed, x, "io")
    BY <1>1, <2>3, TurnSame
  <2>5. Coupling(agreed, x, ses["S"], net'["S"], net'["C"], cli', "io")
    BY <1>1, <1>2, <2>2, <2>4 DEF Coupling
  <2>. QED  BY <1>1, <1>2, <1>3, <2>1, <2>5, ClientMoved DEF Becomes, PcBecomes
<1>4. CASE e = "S"
  <2>1. PICK x : x = MaybeFlushReplyQueue(ses["S"])
    OBVIOUS
  <2>2. Together(agreed, ses["C"], x, net["S"], net["C"], cli)
    BY <1>1, <2>1, TogetherFlushed
  <2>. QED  BY <1>2, <1>4, <2>1, <2>2, ServerMoved DEF Becomes, PcBecomes
<1>. QED  BY <1>3, <1>4, Ends

LEMMA Closed ==
    ASSUME NEW s, DOMAIN s = Names, NEW why \in Fine
    PROVE  LET x == Exit(s, why)
           IN  /\ Alike(s, x) /\ x.writequeue = s.writequeue
               /\ x.replyq = s.replyq /\ x.exited \in Fine
BY DEF Alike, But, Loose, Names, Exit

LEMMA RemoteClosedCouples ==
    ASSUME KInv, NEW e \in End, RemoteClosed(e)
    PROVE  Coupled'
<1>1. /\ Together(agreed, ses["C"], ses["S"], net["S"], net["C"], cli)
      /\ Turn(agreed, ses["C"], pc["C"]) /\ DOMAIN cli = CliNames
      /\ DOMAIN net = End /\ DOMAIN ses = End /\ DOMAIN pc = End
  BY DEF KInv, Coupled, Coupling, IInv
<1>2. /\ ses' = [ses EXCEPT ![e] = Exit(ses[e], "remote closed")]
      /\ pc' = pc /\ cli' = cli /\ net' = net /\ agreed' = agreed
  BY DEF RemoteClosed, Others
<1>3. DOMAIN ses["C"] = Names /\ DOMAIN ses["S"] = Names /\ "remote closed" \in Fine
  BY <1>1, TogetherFacts DEF Fine
<1>4. PcBecomes(e, pc[e])
  BY <1>2 DEF PcBecomes
<1>5. CASE e = "C"
  <2>1. PICK x : x = Exit(ses["C"], "remote closed")
    OBVIOUS
  <2>2. /\ Alike(ses["C"], x) /\ x.writequeue = ses["C"].writequeue
        /\ x.replyq = ses["C"].replyq /\ x.exited \in Fine
    BY <1>3, <2>1, Closed
  <2>3. Together(agreed, x, ses["S"], net["S"], net["C"], cli)
    BY <1>1, <2>2, TogetherAlike
  <2>4. Level(ses["C"], x)
    BY <1>3, <2>1, Levels
  <2>5. Turn(agreed, x, pc["C"])
    BY <1>1, <2>4, TurnSame
  <2>6. Coupling(agreed, x, ses["S"], net'["S"], net'["C"], cli', pc["C"])
    BY <1>1, <1>2, <2>3, <2>5 DEF Coupling
  <2>. QED  BY <1>1, <1>2, <1>4, <1>5, <2>1, <2>6, ClientMoved DEF Becomes
<1>6. CASE e = "S"
  <2>1. PICK x : x = Exit(ses["S"], "remote closed")
    OBVIOUS
  <2>2. /\ Alike(ses["S"], x) /\ x.writequeue = ses["S"].writequeue
        /\ x.replyq = ses["S"].replyq /\ x.exited \in Fine
    BY <1>3, <2>1, Closed
  <2>3. Together(agreed, ses["C"], x, net["S"], net["C"], cli)
    BY <1>1, <2>2, TogetherAlike
  <2>. QED  BY <1>2, <1>4, <1>6, <2>1, <2>3, ServerMoved DEF Becomes
<1>. QED  BY <1>5, <1>6, Ends

LEMMA ChannelIOCouples ==
    ASSUME KInv, NEW e \in End, ChannelIO(e)
    PROVE  Coupled'
<1>. PICK data \in BOOLEAN :
        /\ At(e, "io") /\ (data => MayRequest(e))
        /\ ses' = [ses EXCEPT ![e] = Emptied(WithData(ses[e], data))]
        /\ net' = [net EXCEPT ![Peer(e)] =
                     net[Peer(e)] \o WithData(ses[e], data).writequeue]
        /\ pc' = [pc EXCEPT ![e] = "handler"]
        /\ UNCHANGED <<cli, svr, agreed, got>>
  BY DEF ChannelIO, Emptied, WithData
<1>1. /\ Together(agreed, ses["C"], ses["S"], net["S"], net["C"], cli)
      /\ Turn(agreed, ses["C"], pc["C"]) /\ DOMAIN cli = CliNames
      /\ DOMAIN net = End /\ DOMAIN ses = End /\ DOMAIN pc = End
  BY DEF KInv, Coupled, Coupling, IInv
<1>2. data => ses[e].authdone
  BY DEF MayRequest
<1>3. CASE e = "C"
  <2>1. PICK x, y : x = WithData(ses["C"], data) /\ y = Emptied(x)
    OBVIOUS
  <2>2. pc["C"] = "io"
    BY <1>3 DEF At
  <2>3. /\ Together(agreed, y, ses["S"], net["S"] \o x.writequeue, net["C"], cli)
        /\ Turn(agreed, y, "handler")
    BY <1>1, <1>2, <1>3, <2>1, <2>2, ClientWrites
  <2>4. net'["S"] = net["S"] \o x.writequeue /\ net'["C"] = net["C"]
    BY <1>1, <1>3, <2>1, Ends
  <2>5. Coupling(agreed, y, ses["S"], net'["S"], net'["C"], cli', "handler")
    BY <1>1, <2>3, <2>4 DEF Coupling
  <2>. QED  BY <1>1, <1>3, <2>1, <2>5, ClientMoved DEF Becomes, PcBecomes
<1>4. CASE e = "S"
  <2>1. PICK x, y : x = WithData(ses["S"], data) /\ y = Emptied(x)
    OBVIOUS
  <2>2. Together(agreed, ses["C"], y, net["S"], net["C"] \o x.writequeue, cli)
    BY <1>1, <1>2, <1>4, <2>1, ServerWrites
  <2>3. net'["C"] = net["C"] \o x.writequeue /\ net'["S"] = net["S"]
    BY <1>1, <1>4, <2>1, Ends
  <2>. QED  BY <1>4, <2>1, <2>2, <2>3, ServerMoved DEF Becomes, PcBecomes
<1>. QED  BY <1>3, <1>4, Ends

LEMMA ServerLoopCouples ==
    ASSUME KInv, ServerLoop
    PROVE  Coupled'
<1>1. DOMAIN ses = End /\ DOMAIN pc = End
  BY DEF KInv, IInv, Coupled
<1>2. /\ ses' = ses /\ cli' = cli /\ net' = net /\ agreed' = agreed
      /\ pc' = [pc EXCEPT !["S"] = "timeouts"]
  BY DEF ServerLoop, Others
<1>3. Becomes("S", ses["S"])
  BY <1>2 DEF Becomes
<1>4. Together(agreed, ses["C"], ses["S"], net'["S"], net'["C"], cli)
  BY <1>2 DEF KInv, Coupled, Coupling
<1>. QED  BY <1>2, <1>3, <1>4, ServerMoved DEF PcBecomes
---------------------------------------------------------------------------
(* cli_sessionloop() *)

\* The client adds to its wire, and its state machine becomes n.
LEMMA ClientProceeds ==
    ASSUME NEW g, NEW c, NEW s, NEW na, NEW nb, NEW m, NEW n, NEW x,
           Together(g, c, s, na, nb, m),
           \A a, b : Linked(g, c, s, a, b, m)
                     => ClientAdds(c.writequeue, g, x, s, a, b, n)
    PROVE  Together(g, x, s, na, nb, n)
<1>. PICK a, b, p : /\ a = na \o p /\ b = nb \o s.writequeue /\ p = c.writequeue
  OBVIOUS
<1>1. Linked(g, c, s, a, b, m) /\ IsSeq(na) /\ IsSeq(nb) /\ IsSeq(p)
  BY TogetherFacts DEF Together
<1>2. ClientAdds(p, g, x, s, a, b, n)
  BY <1>1
<1>. QED  BY <1>1, <1>2, ClientAddsTogether

LEMMA StateMachineCouples ==
    ASSUME NEW d, DOMAIN cli = CliNames, d.donefirstkex,
           Together(agreed, d, ses["S"], net["S"], net["C"], cli),
           Turn(agreed, d, "timeouts"), StateMachine(d)
    PROVE  \E x : /\ ses' = [ses EXCEPT !["C"] = x]
                  /\ Together(agreed, x, ses["S"], net["S"], net["C"], cli')
                  /\ Turn(agreed, x, "timeouts") /\ DOMAIN cli' = CliNames
<1>. PICK g, s, na, nb : /\ g = agreed /\ s = ses["S"]
                         /\ na = net["S"] /\ nb = net["C"]
  OBVIOUS
<1>. DEFINE Does(x) == /\ ses' = [ses EXCEPT !["C"] = x]
                       /\ Together(g, x, s, na, nb, cli')
                       /\ Turn(g, x, "timeouts") /\ DOMAIN cli' = CliNames
<1>0. DOMAIN d = Names /\ Together(g, d, s, na, nb, cli) /\ Turn(g, d, "timeouts")
  BY TogetherFacts
<1>1. ASSUME cli.state = "STATE_NOTHING", NEW user,
             ses' = [ses EXCEPT !["C"] =
                 EncryptPacket(EncryptPacket(d, "SERVICE_REQUEST", 0),
                               "USERAUTH_REQUEST",
                               Request(user, "none", "none", FALSE))],
             cli' = [cli EXCEPT !.state = "USERAUTH_REQ_SENT"]
      PROVE  \E x : Does(x)
  <2>1. PICK v, y, x : /\ v = Request(user, "none", "none", FALSE)
                       /\ y = EncryptPacket(d, "SERVICE_REQUEST", 0)
                       /\ x = EncryptPacket(y, "USERAUTH_REQUEST", v)
    OBVIOUS
  <2>2. cli'.state = "USERAUTH_REQ_SENT" /\ DOMAIN cli' = CliNames
    BY <1>1 DEF CliNames
  <2>3. v.method = "none"
    BY <2>1 DEF Request
  <2>4. PICK n : n = cli'
    OBVIOUS
  <2>5. \A a, b : Linked(g, d, s, a, b, cli)
                  => ClientAdds(d.writequeue, g, x, s, a, b, n)
    BY <1>1, <2>1, <2>2, <2>3, <2>4, ClientSpeaks
  <2>6. Together(g, x, s, na, nb, n)
    BY <1>0, <2>5, ClientProceeds
  <2>7. Level(d, y) /\ DOMAIN y = Names
    BY <1>0, <2>1, Levels, LevelFields
  <2>8. Level(y, x)
    BY <2>1, <2>7, Levels
  <2>9. Turn(g, x, "timeouts")
    BY <1>0, <2>7, <2>8, LevelTrans, TurnSame
  <2>. QED  BY <1>1, <2>1, <2>2, <2>4, <2>6, <2>9
<1>2. ASSUME cli.state = "USERAUTH_FAIL_RCVD", NEW user, NEW right \in BOOLEAN,
             ses' = [ses EXCEPT !["C"] =
               IF TriesKey(cli)
               THEN EncryptPacket(d, "USERAUTH_REQUEST",
                      Request(user, "query", Head(cli.privkeys), FALSE))
               ELSE IF TriesPassword(cli)
               THEN EncryptPacket(d, "USERAUTH_REQUEST",
                      Request(user, "password", "none", right))
               ELSE Exit(d, "no auth methods")],
             cli' = [cli EXCEPT
                    !.state = "USERAUTH_REQ_SENT",
                    !.lastauthtype = IF TriesPassword(cli) THEN "password"
                                     ELSE IF "pubkey" \in cli.authtypes
                                     THEN "pubkey" ELSE @,
                    !.lastprivkey = IF TriesKey(cli)
                                    THEN Head(cli.privkeys) ELSE @]
      PROVE  \E x : Does(x)
  <2>1. /\ cli'.state = "USERAUTH_REQ_SENT" /\ DOMAIN cli' = CliNames
        /\ TriesKey(cli) => cli'.lastauthtype = "pubkey"
    BY <1>2 DEF CliNames, TriesKey, TriesPassword
  <2>2. PICK n : n = cli'
    OBVIOUS
  <2>3. PICK x : x = IF TriesKey(cli)
               THEN EncryptPacket(d, "USERAUTH_REQUEST",
                      Request(user, "query", Head(cli.privkeys), FALSE))
               ELSE IF TriesPassword(cli)
               THEN EncryptPacket(d, "USERAUTH_REQUEST",
                      Request(user, "password", "none", right))
               ELSE Exit(d, "no auth methods")
    OBVIOUS
  <2>4. \/ \E v : /\ v.method \in Methods
                  /\ v.method = "query" => n.lastauthtype = "pubkey"
                  /\ x = EncryptPacket(d, "USERAUTH_REQUEST", v)
        \/ x = Exit(d, "no auth methods")
    <3>1. "query" \in Methods /\ "password" \in Methods
      BY DEF Methods
    <3>2. ASSUME TriesKey(cli)
          PROVE  \E v : /\ v.method \in Methods
                        /\ v.method = "query" => n.lastauthtype = "pubkey"
                        /\ x = EncryptPacket(d, "USERAUTH_REQUEST", v)
      <4>1. PICK v : v = Request(user, "query", Head(cli.privkeys), FALSE)
        OBVIOUS
      <4>2. v.method = "query"
        BY <4>1 DEF Request
      <4>. QED  BY <2>1, <2>2, <2>3, <3>1, <3>2, <4>1, <4>2
    <3>3. ASSUME ~TriesKey(cli), TriesPassword(cli)
          PROVE  \E v : /\ v.method \in Methods
                        /\ v.method = "query" => n.lastauthtype = "pubkey"
                        /\ x = EncryptPacket(d, "USERAUTH_REQUEST", v)
      <4>1. PICK v : v = Request(user, "password", "none", right)
        OBVIOUS
      <4>2. v.method = "password"
        BY <4>1 DEF Request
      <4>. QED  BY <2>3, <3>1, <3>3, <4>1, <4>2
    <3>. QED  BY <2>3, <3>2, <3>3
  <2>5. \A a, b : Linked(g, d, s, a, b, cli)
                  => ClientAdds(d.writequeue, g, x, s, a, b, n)
    <3>1. n.state = "USERAUTH_REQ_SENT"
      BY <2>1, <2>2
    <3>2. ASSUME NEW a, NEW b, Linked(g, d, s, a, b, cli)
          PROVE  ClientAdds(d.writequeue, g, x, s, a, b, n)
      <4>1. /\ \A v : v.method \in Methods
                      /\ (v.method = "query" => n.lastauthtype = "pubkey") =>
                 ClientAdds(d.writequeue, g,
                            EncryptPacket(d, "USERAUTH_REQUEST", v), s, a, b, n)
            /\ ClientAdds(d.writequeue, g, Exit(d, "no auth methods"), s, a, b, n)
        BY <1>2, <3>1, <3>2, ClientTries
      <4>. QED  BY <2>4, <4>1
    <3>. QED  BY <3>2
  <2>6. Together(g, x, s, na, nb, n)
    BY <1>0, <2>5, ClientProceeds
  <2>7. Level(d, x)
    BY <1>0, <2>4, Levels
  <2>8. Turn(g, x, "timeouts")
    BY <1>0, <2>7, TurnSame
  <2>. QED  BY <1>2, <2>1, <2>2, <2>3, <2>6, <2>8
<1>3. ASSUME cli.state = "USERAUTH_SUCCESS_RCVD",
             ses' = [ses EXCEPT !["C"] =
               EncryptPacket([d EXCEPT !.chancount = @ + 1], "CHANNEL_OPEN", 0)],
             cli' = [cli EXCEPT !.state = "SESSION_RUNNING"]
      PROVE  \E x : Does(x)
  <2>1. PICK y, x : /\ y = [d EXCEPT !.chancount = @ + 1]
                    /\ x = EncryptPacket(y, "CHANNEL_OPEN", 0)
    OBVIOUS
  <2>2. cli'.state = "SESSION_RUNNING" /\ DOMAIN cli' = CliNames
    BY <1>3 DEF CliNames
  <2>3. PICK n : n = cli'
    OBVIOUS
  <2>4. \A a, b : Linked(g, d, s, a, b, cli)
                  => ClientAdds(d.writequeue, g, x, s, a, b, n)
    BY <1>3, <2>1, <2>2, <2>3, ClientOpensChannel
  <2>5. Together(g, x, s, na, nb, n)
    BY <1>0, <2>4, ClientProceeds
  <2>6. Level(d, y) /\ DOMAIN y = Names
    BY <1>0, <2>1, Levels, LevelFields
  <2>7. Level(y, x)
    BY <2>1, <2>6, Levels
  <2>8. Turn(g, x, "timeouts")
    BY <1>0, <2>6, <2>7, LevelTrans, TurnSame
  <2>. QED  BY <1>3, <2>1, <2>2, <2>3, <2>5, <2>8
<1>4. ASSUME ses' = [ses EXCEPT !["C"] = d], cli' = cli
      PROVE  \E x : Does(x)
  BY <1>0, <1>4
<1>5. \E x : Does(x)
  <2>. HIDE DEF Does
  <2>. QED  BY <1>1, <1>2, <1>3, <1>4 DEF StateMachine
<1>. QED  BY <1>5

LEMMA ClientLoopCouples ==
    ASSUME KInv, ClientLoop
    PROVE  Coupled'
<1>. PICK c, d, g, s, na, nb : /\ c = ses["C"] /\ d = KexDone(ses["C"])
                               /\ g = agreed /\ s = ses["S"]
                               /\ na = net["S"] /\ nb = net["C"]
  OBVIOUS
<1>1. /\ Together(g, c, s, na, nb, cli) /\ Turn(g, c, "handler")
      /\ DOMAIN cli = CliNames
      /\ DOMAIN net = End /\ DOMAIN ses = End
  BY DEF KInv, Coupled, Coupling, IInv, ClientLoop, At
<1>2. /\ pc' = [pc EXCEPT !["C"] = "timeouts"]
      /\ net' = net /\ agreed' = agreed
  BY DEF ClientLoop, Others
<1>3. SUFFICES \E x : /\ Becomes("C", x)
                      /\ Together(g, x, s, na, nb, cli')
                      /\ Turn(g, x, "timeouts") /\ DOMAIN cli' = CliNames
  <2>1. PICK x : /\ Becomes("C", x)
                 /\ Together(g, x, s, na, nb, cli')
                 /\ Turn(g, x, "timeouts") /\ DOMAIN cli' = CliNames
    BY <1>3
  <2>2. Coupling(agreed, x, ses["S"], net'["S"], net'["C"], cli', "timeouts")
    BY <1>2, <2>1 DEF Coupling
  <2>. QED  BY <1>1, <1>2, <2>1, <2>2, ClientMoved DEF PcBecomes
<1>4. CASE c.lastpacket = "none"
  <2>1. ses' = ses /\ cli' = cli
    BY <1>4 DEF ClientLoop
  <2>2. Becomes("C", c)
    BY <2>1 DEF Becomes
  <2>3. Turn(g, c, "timeouts")
    BY <1>1, <1>4 DEF Turn
  <2>. QED  BY <1>1, <2>1, <2>2, <2>3
<1>5. CASE c.lastpacket # "none" /\ StartsKexdh(c)
  <2>1. /\ ses' = [ses EXCEPT !["C"] =
                     [KexdhOfKexinit(c) EXCEPT !.kex_state = "KEXDH_INIT_SENT"]]
        /\ cli' = cli
    BY <1>5 DEF ClientLoop
  <2>2. PICK x : x = [KexdhOfKexinit(c) EXCEPT !.kex_state = "KEXDH_INIT_SENT"]
    OBVIOUS
  <2>3. Met(g, "C", c) /\ c.kex_state = "KEX_NOTHING" /\ c.lastpacket = "KEXINIT"
    BY <1>1, <1>5 DEF Turn, StartsKexdh
  <2>4. Started(g, c, x)
    BY <2>2, <2>3, KexdhStarted
  <2>5. \A a, b : Linked(g, c, s, a, b, cli)
                  => ClientAdds(c.writequeue, g, x, s, a, b, cli)
    BY <2>3, <2>4, ClientStarts
  <2>6. Together(g, x, s, na, nb, cli)
    BY <1>1, <2>5, ClientProceeds
  <2>7. Met(g, "C", x) /\ x.kex_state = "KEXDH_INIT_SENT" /\ ~Switched("C", x)
    BY <2>4, Distinct DEF Started
  <2>8. Turn(g, x, "timeouts")
    BY <2>7 DEF Turn
  <2>. QED  BY <1>1, <2>1, <2>2, <2>6, <2>8 DEF Becomes
<1>6. CASE c.lastpacket # "none" /\ ~StartsKexdh(c)
  <2>1. /\ Together(g, d, s, na, nb, cli) /\ d.lastpacket = c.lastpacket
        /\ Switched("C", c) => Switched("C", d) /\ d.kex_state = "KEX_NOTHING"
        /\ ~Switched("C", c) => d = c
    <3>1. PICK a, b : a = na \o c.writequeue /\ b = nb \o s.writequeue
      OBVIOUS
    <3>2. Linked(g, c, s, a, b, cli)
      BY <1>1, <3>1 DEF Together
    <3>3. /\ Linked(g, d, s, a, b, cli) /\ d.writequeue = c.writequeue
          /\ d.lastpacket = c.lastpacket
          /\ Switched("C", c) => Switched("C", d) /\ d.kex_state = "KEX_NOTHING"
          /\ ~Switched("C", c) => d = c
      BY <3>2, ClientKexDone
    <3>. QED  BY <1>1, <3>1, <3>3 DEF Together
  <2>2. Turn(g, d, "timeouts")
    BY <1>1, <1>6, <2>1, TurnDone
  <2>3. CASE d.kex_state # "KEX_NOTHING" \/ ~d.donefirstkex
    <3>1. ses' = [ses EXCEPT !["C"] = d] /\ cli' = cli
      BY <1>6, <2>3 DEF ClientLoop
    <3>. QED  BY <1>1, <2>1, <2>2, <3>1 DEF Becomes
  <2>4. CASE ~(d.kex_state # "KEX_NOTHING" \/ ~d.donefirstkex)
    <3>1. StateMachine(d)
      BY <1>6, <2>4 DEF ClientLoop
    <3>2. d.donefirstkex
      BY <2>4
    <3>3. /\ Together(agreed, d, ses["S"], net["S"], net["C"], cli)
          /\ Turn(agreed, d, "timeouts")
      BY <2>1, <2>2
    <3>4. \E x : /\ ses' = [ses EXCEPT !["C"] = x]
                 /\ Together(agreed, x, ses["S"], net["S"], net["C"], cli')
                 /\ Turn(agreed, x, "timeouts") /\ DOMAIN cli' = CliNames
      BY <1>1, <3>1, <3>2, <3>3, StateMachineCouples
    <3>. QED  BY <3>4 DEF Becomes
  <2>. QED  BY <2>3, <2>4
<1>. QED  BY <1>4, <1>5, <1>6

---------------------------------------------------------------------------
(* The steps that read a packet *)

LEMMA QuietWires ==
    ASSUME KInv
    PROVE  /\ Quiet(net["S"] \o ses["C"].writequeue)
           /\ Quiet(net["C"] \o ses["S"].writequeue)
<1>1. /\ Steady(ses["C"], net["S"], got["S"])
      /\ Steady(ses["S"], net["C"], got["C"])
  BY Ends DEF KInv, IInv
<1>. QED  BY <1>1 DEF Steady, Sender, Good

LEMMA CoupledNow ==
    ASSUME KInv
    PROVE  /\ Together(agreed, ses["C"], ses["S"], net["S"], net["C"], cli)
           /\ Turn(agreed, ses["C"], pc["C"]) /\ DOMAIN cli = CliNames
           /\ DOMAIN net = End /\ DOMAIN ses = End /\ DOMAIN pc = End
           /\ DOMAIN ses["C"] = Names /\ DOMAIN ses["S"] = Names
<1>1. /\ Together(agreed, ses["C"], ses["S"], net["S"], net["C"], cli)
      /\ Turn(agreed, ses["C"], pc["C"]) /\ DOMAIN cli = CliNames
      /\ DOMAIN net = End /\ DOMAIN ses = End /\ DOMAIN pc = End
  BY DEF KInv, Coupled, Coupling, IInv
<1>2. DOMAIN ses["C"] = Names /\ DOMAIN ses["S"] = Names
  BY <1>1, TogetherFacts
<1>. QED  BY <1>1, <1>2

LEMMA HeadsAccepted ==
    ASSUME NEW g, NEW c, NEW s, NEW na, NEW nb, NEW m, Together(g, c, s, na, nb, m)
    PROVE  /\ nb # <<>> => Accepts(c, Head(nb)) /\ c.ignorenext = FALSE
           /\ na # <<>> => Accepts(s, Head(na))
                           /\ (Head(na).t = "KEXDH_INIT" => Met(g, "S", s))
<1>1. /\ IsSeq(na) /\ IsSeq(nb) /\ IsSeq(c.writequeue) /\ IsSeq(s.writequeue)
      /\ Linked(g, c, s, na \o c.writequeue, nb \o s.writequeue, m)
  BY TogetherFacts DEF Together
<1>. PICK a, b, p, q : /\ a = na \o p /\ b = nb \o q
                       /\ p = c.writequeue /\ q = s.writequeue
  OBVIOUS
<1>2. /\ nb # <<>> => b # <<>> /\ Head(b) = Head(nb)
      /\ na # <<>> => a # <<>> /\ Head(a) = Head(na)
  BY <1>1, ReadFromNet
<1>3. Linked(g, c, s, a, b, m)
  BY <1>1
<1>4. b # <<>> => Accepts(c, Head(b)) /\ c.ignorenext = FALSE
  BY <1>3, ClientAccepts
<1>5. a # <<>> => Accepts(s, Head(a)) /\ (Head(a).t = "KEXDH_INIT" => Met(g, "S", s))
  BY <1>3, ServerAccepts
<1>6. PICK u, v : u = Head(na) /\ v = Head(nb)
  OBVIOUS
<1>7. nb # <<>> => Accepts(c, v) /\ c.ignorenext = FALSE
  BY <1>2, <1>4, <1>6
<1>8. na # <<>> => Accepts(s, u) /\ (u.t = "KEXDH_INIT" => Met(g, "S", s))
  BY <1>2, <1>5, <1>6
<1>. QED  BY <1>6, <1>7, <1>8

LEMMA HandlerForm ==
    ASSUME NEW r, NEW p, NEW t, Accepts(r, p), p.t = t
    PROVE  /\ But(r, ForHandler(r, t), {"requirenext", "lastpacket"})
           /\ ForHandler(r, t).requirenext = "none"
           /\ ForHandler(r, t).lastpacket = t
           /\ DOMAIN ForHandler(r, t) = Names
<1>1. DOMAIN r = Names /\ r.requirenext \in {"none", t}
  BY DEF Accepts
<1>. QED  BY <1>1 DEF But, ForHandler, Names

LEMMA ClientArrives ==
    ASSUME KInv, NEW t, Arrives("C", t)
    PROVE  /\ Incoming("C") = ForHandler(ses["C"], t)
           /\ net["C"] # <<>> /\ Head(net["C"]).t = t
           /\ But(ses["C"], Incoming("C"), {"requirenext", "lastpacket"})
           /\ Incoming("C").requirenext = "none" /\ Incoming("C").lastpacket = t
           /\ DOMAIN Incoming("C") = Names
           /\ Dispatched("C") /\ Turn(agreed, ses["C"], "packet")
<1>1. net["C"] # <<>> /\ Head(net["C"]).t = t /\ pc["C"] = "packet"
  BY DEF Arrives, At
<1>2. PICK p, c : p = Head(net["C"]) /\ c = ses["C"]
  OBVIOUS
<1>3. Accepts(c, p) /\ c.ignorenext = FALSE /\ p.t = t
  BY <1>1, <1>2, CoupledNow, HeadsAccepted
<1>4. Incoming("C") = ForHandler(c, t)
  BY <1>1, <1>2 DEF Incoming
<1>5. Dispatched("C")
  BY <1>2, <1>3 DEF Dispatched, Accepts
<1>6. Turn(agreed, ses["C"], "packet")
  BY <1>1, CoupledNow
<1>7. /\ But(c, ForHandler(c, t), {"requirenext", "lastpacket"})
      /\ ForHandler(c, t).requirenext = "none"
      /\ ForHandler(c, t).lastpacket = t
      /\ DOMAIN ForHandler(c, t) = Names
  BY <1>3, HandlerForm
<1>. QED  BY <1>1, <1>2, <1>4, <1>5, <1>6, <1>7

LEMMA ServerArrives ==
    ASSUME KInv, NEW t, Arrives("S", t)
    PROVE  /\ Incoming("S") = ForHandler(ses["S"], t)
           /\ net["S"] # <<>> /\ Head(net["S"]).t = t
           /\ But(ses["S"], Incoming("S"), {"requirenext", "lastpacket"})
           /\ Incoming("S").requirenext = "none"
           /\ t = "KEXDH_INIT" => Met(agreed, "S", ses["S"])
<1>1. net["S"] # <<>> /\ Head(net["S"]).t = t
  BY DEF Arrives
<1>2. PICK p, s : p = Head(net["S"]) /\ s = ses["S"]
  OBVIOUS
<1>3. Accepts(s, p) /\ p.t = t /\ (t = "KEXDH_INIT" => Met(agreed, "S", s))
  BY <1>1, <1>2, CoupledNow, HeadsAccepted
<1>4. Incoming("S") = ForHandler(s, t)
  BY <1>1, <1>2 DEF Incoming
<1>5. /\ But(s, ForHandler(s, t), {"requirenext", "lastpacket"})
      /\ ForHandler(s, t).requirenext = "none"
  BY <1>3, HandlerForm
<1>. QED  BY <1>1, <1>2, <1>3, <1>4, <1>5

\* The client handles a packet of type t, and its state machine becomes n.
LEMMA ClientProcesses ==
    ASSUME KInv, NEW t, Arrives("C", t), NEW h, Process("C", h), agreed' = agreed,
           DOMAIN cli' = CliNames, h.lastpacket = t, t # "none",
           t = "KEXINIT" => h.requirenext = "KEXDH_REPLY",
           t # "KEXINIT" => h.requirenext # "KEXDH_REPLY",
           NEW n, n = cli',
           \A a, b : /\ a = net["S"] \o ses["C"].writequeue
                     /\ b = net["C"] \o ses["S"].writequeue
                     /\ Linked(agreed, ses["C"], ses["S"], a, b, cli)
                     /\ b # <<>> /\ Head(b) = Head(net["C"])
                     => ClientAdds(ses["C"].writequeue, agreed, h, ses["S"], a,
                                   Tail(b), n)
    PROVE  Coupled'
<1>1. /\ Together(agreed, ses["C"], ses["S"], net["S"], net["C"], cli)
      /\ DOMAIN net = End /\ DOMAIN ses = End /\ DOMAIN pc = End
  BY CoupledNow
<1>2. net["C"] # <<>>
  BY DEF Arrives
<1>3. PICK x : x = Arrived(ses["C"], Head(net["C"]), h)
  OBVIOUS
<1>4. /\ Together(agreed, x, ses["S"], net["S"], Tail(net["C"]), n)
      /\ x = MaybeFlushReplyQueue(h)
  <2>1. Together(agreed, x, ses["S"], net["S"], Tail(net["C"]), n)
    BY <1>1, <1>2, <1>3, ClientReads
  <2>2. PICK p, c : p = Head(net["C"]) /\ c = ses["C"]
    OBVIOUS
  <2>3. Accepts(c, p) /\ c.ignorenext = FALSE
    BY <1>1, <1>2, <2>2, HeadsAccepted
  <2>4. x = MaybeFlushReplyQueue(h)
    BY <1>3, <2>2, <2>3, Dispatches DEF Arrived
  <2>. QED  BY <2>1, <2>4
<1>5. DOMAIN h = Names /\ Stands(agreed, "C", x)
  <2>1. DOMAIN x = Names /\ Stands(agreed, "C", x)
    BY <1>4, TogetherFacts
  <2>2. DOMAIN h = DOMAIN x
    BY <1>4 DEF MaybeFlushReplyQueue
  <2>. QED  BY <2>1, <2>2
<1>6. x.lastpacket = h.lastpacket /\ x.requirenext = h.requirenext
  BY <1>4, <1>5, LevelFlush, LevelFields
<1>7. Turn(agreed, x, "io")
  BY <1>5, <1>6, TurnRead
<1>8. /\ ses' = [ses EXCEPT !["C"] = x] /\ pc' = [pc EXCEPT !["C"] = "io"]
      /\ net' = [net EXCEPT !["C"] = Tail(net["C"])]
  BY <1>3 DEF Process, Arrived
<1>9. net'["C"] = Tail(net["C"]) /\ net'["S"] = net["S"] /\ DOMAIN net' = End
  BY <1>1, <1>8, Ends
<1>10. Coupling(agreed, x, ses["S"], net'["S"], net'["C"], cli', "io")
  BY <1>4, <1>7, <1>9 DEF Coupling
<1>. QED  BY <1>8, <1>9, <1>10, ClientMoved DEF Becomes, PcBecomes

LEMMA ServerProcesses ==
    ASSUME KInv, NEW t, Arrives("S", t), NEW h, Process("S", h), agreed' = agreed,
           cli' = cli,
           \A a, b : /\ a = net["S"] \o ses["C"].writequeue
                     /\ b = net["C"] \o ses["S"].writequeue
                     /\ Linked(agreed, ses["C"], ses["S"], a, b, cli)
                     /\ a # <<>> /\ Head(a) = Head(net["S"])
                     /\ ses["S"].ignorenext = FALSE
                     => ServerAdds(ses["S"].writequeue, agreed, ses["C"], h,
                                   Tail(a), b, cli)
    PROVE  Coupled'
<1>1. /\ Together(agreed, ses["C"], ses["S"], net["S"], net["C"], cli)
      /\ DOMAIN net = End /\ DOMAIN ses = End /\ DOMAIN pc = End
  BY CoupledNow
<1>2. net["S"] # <<>>
  BY DEF Arrives
<1>3. PICK x : x = Arrived(ses["S"], Head(net["S"]), h)
  OBVIOUS
<1>4. Together(agreed, ses["C"], x, Tail(net["S"]), net["C"], cli)
  BY <1>1, <1>2, <1>3, ServerReads
<1>5. /\ ses' = [ses EXCEPT !["S"] = x] /\ pc' = [pc EXCEPT !["S"] = "io"]
      /\ net' = [net EXCEPT !["S"] = Tail(net["S"])]
  BY <1>3 DEF Process, Arrived
<1>6. net'["S"] = Tail(net["S"]) /\ net'["C"] = net["C"]
  BY <1>1, <1>5, Ends
<1>7. Together(agreed, ses["C"], x, net'["S"], net'["C"], cli)
  BY <1>4, <1>6
<1>. QED  BY <1>5, <1>7, ServerMoved DEF Becomes, PcBecomes
---------------------------------------------------------------------------
(* The key exchange *)

LEMMA KexinitCouples ==
    ASSUME KInv, NEW e \in End, Kexinit(e)
    PROVE  Coupled'
<1>1. agreed' = agreed /\ cli' = cli /\ Arrives(e, "KEXINIT")
  BY DEF Kexinit, Others
<1>2. CASE e = "C"
  <2>1. PICK z, v, h : /\ z = Incoming("C") /\ v = Head(net["C"]).b
                       /\ h = RecvKexinit("C", z, v, agreed)
    OBVIOUS
  <2>2. Process("C", h)
    BY <1>2, <2>1 DEF Kexinit, Body
  <2>3. /\ But(ses["C"], z, {"requirenext", "lastpacket"})
        /\ z.requirenext = "none" /\ z.lastpacket = "KEXINIT" /\ DOMAIN z = Names
        /\ Head(net["C"]).t = "KEXINIT"
    BY <1>1, <1>2, <2>1, ClientArrives
  <2>4. h.lastpacket = "KEXINIT" /\ h.requirenext = "KEXDH_REPLY"
    BY <2>1, <2>3, Ends, Leave
  <2>5. ASSUME NEW a, NEW b, b = net["C"] \o ses["S"].writequeue,
               Linked(agreed, ses["C"], ses["S"], a, b, cli),
               b # <<>>, Head(b) = Head(net["C"])
        PROVE  ClientAdds(ses["C"].writequeue, agreed, h, ses["S"], a, Tail(b), cli)
    <3>1. Quiet(b) /\ Head(b).t = "KEXINIT" /\ h = RecvKexinit("C", z, Head(b).b, agreed)
      BY <2>1, <2>3, <2>5, QuietWires
    <3>. QED  BY <2>3, <2>5, <3>1, ClientReadsKexinit
  <2>. QED  BY <1>1, <1>2, <2>2, <2>4, <2>5, CoupledNow, ClientProcesses
<1>3. CASE e = "S"
  <2>1. PICK z, v, h : /\ z = Incoming("S") /\ v = Head(net["S"]).b
                       /\ h = RecvKexinit("S", z, v, agreed)
    OBVIOUS
  <2>2. Process("S", h)
    BY <1>3, <2>1 DEF Kexinit, Body
  <2>3. /\ But(ses["S"], z, {"requirenext", "lastpacket"})
        /\ z.requirenext = "none" /\ Head(net["S"]).t = "KEXINIT"
    BY <1>1, <1>3, <2>1, ServerArrives
  <2>4. ASSUME NEW a, NEW b, a = net["S"] \o ses["C"].writequeue,
               Linked(agreed, ses["C"], ses["S"], a, b, cli),
               a # <<>>, Head(a) = Head(net["S"])
        PROVE  ServerAdds(ses["S"].writequeue, agreed, ses["C"], h, Tail(a), b, cli)
    <3>1. Quiet(a) /\ Head(a).t = "KEXINIT" /\ h = RecvKexinit("S", z, Head(a).b, agreed)
      BY <2>1, <2>3, <2>4, QuietWires
    <3>. QED  BY <2>3, <2>4, <3>1, ServerReadsKexinit
  <2>. QED  BY <1>1, <1>3, <2>2, <2>4, ServerProcesses
<1>. QED  BY <1>2, <1>3, Ends

LEMMA NewkeysCouples ==
    ASSUME KInv, NEW e \in End, Newkeys(e)
    PROVE  Coupled'
<1>1. agreed' = agreed /\ cli' = cli /\ Arrives(e, "NEWKEYS")
  BY DEF Newkeys, Others
<1>2. CASE e = "C"
  <2>1. PICK z, h : z = Incoming("C") /\ h = RecvNewkeys(z)
    OBVIOUS
  <2>2. Process("C", h)
    BY <1>2, <2>1 DEF Newkeys
  <2>3. /\ But(ses["C"], z, {"requirenext", "lastpacket"})
        /\ z.requirenext = "none" /\ z.lastpacket = "NEWKEYS" /\ DOMAIN z = Names
        /\ Head(net["C"]).t = "NEWKEYS" /\ Turn(agreed, ses["C"], "packet")
    BY <1>1, <1>2, <2>1, ClientArrives
  <2>4. h.lastpacket = "NEWKEYS" /\ h.requirenext = "none"
    BY <2>1, <2>3, Ends, Leave
  <2>5. Switched("C", ses["C"]) => ses["C"].kex_state = "KEX_NOTHING"
    BY <2>3 DEF Turn
  <2>6. ASSUME NEW a, NEW b, Linked(agreed, ses["C"], ses["S"], a, b, cli),
               b # <<>>, Head(b) = Head(net["C"])
        PROVE  ClientAdds(ses["C"].writequeue, agreed, h, ses["S"], a, Tail(b), cli)
    BY <2>1, <2>3, <2>5, <2>6, ClientEnds
  <2>. QED  BY <1>1, <1>2, <2>2, <2>4, <2>6, CoupledNow, ClientProcesses
<1>3. CASE e = "S"
  <2>1. PICK z, h : z = Incoming("S") /\ h = RecvNewkeys(z)
    OBVIOUS
  <2>2. Process("S", h)
    BY <1>3, <2>1 DEF Newkeys
  <2>3. /\ But(ses["S"], z, {"requirenext", "lastpacket"})
        /\ z.requirenext = "none" /\ Head(net["S"]).t = "NEWKEYS"
    BY <1>1, <1>3, <2>1, ServerArrives
  <2>4. ASSUME NEW a, NEW b, Linked(agreed, ses["C"], ses["S"], a, b, cli),
               a # <<>>, Head(a) = Head(net["S"])
        PROVE  ServerAdds(ses["S"].writequeue, agreed, ses["C"], h, Tail(a), b, cli)
    BY <2>1, <2>3, <2>4, ServerEnds
  <2>. QED  BY <1>1, <1>3, <2>2, <2>4, ServerProcesses
<1>. QED  BY <1>2, <1>3, Ends

LEMMA KexdhInitCouples ==
    ASSUME KInv, KexdhInit
    PROVE  Coupled'
<1>1. agreed' = agreed /\ cli' = cli /\ Arrives("S", "KEXDH_INIT")
  BY DEF KexdhInit, Others
<1>2. PICK z, v, h : /\ z = Incoming("S") /\ v = Head(net["S"]).b
                     /\ h = RecvKexdhInit(z, v)
  OBVIOUS
<1>3. Process("S", h)
  BY <1>2 DEF KexdhInit, Body
<1>4. /\ But(ses["S"], z, {"requirenext", "lastpacket"})
      /\ Head(net["S"]).t = "KEXDH_INIT" /\ Met(agreed, "S", ses["S"])
  BY <1>1, <1>2, ServerArrives
<1>5. ASSUME NEW a, NEW b, Linked(agreed, ses["C"], ses["S"], a, b, cli),
             a # <<>>, Head(a) = Head(net["S"]), ses["S"].ignorenext = FALSE
      PROVE  ServerAdds(ses["S"].writequeue, agreed, ses["C"], h, Tail(a), b, cli)
  <2>1. Head(a).t = "KEXDH_INIT" /\ h = RecvKexdhInit(z, Head(a).b)
    BY <1>2, <1>4, <1>5
  <2>. QED  BY <1>4, <1>5, <2>1, ServerReplies
<1>. QED  BY <1>1, <1>3, <1>5, ServerProcesses

LEMMA KexdhReplyCouples ==
    ASSUME KInv, KexdhReply
    PROVE  Coupled'
<1>1. agreed' = agreed /\ cli' = cli /\ Arrives("C", "KEXDH_REPLY")
  BY DEF KexdhReply, Others
<1>2. PICK z, v, h : /\ z = Incoming("C") /\ v = Head(net["C"]).b
                     /\ h = RecvKexdhReply(z, v)
  OBVIOUS
<1>3. Process("C", h)
  BY <1>2 DEF KexdhReply, Body
<1>4. /\ But(ses["C"], z, {"requirenext", "lastpacket"})
      /\ z.requirenext = "none" /\ z.lastpacket = "KEXDH_REPLY" /\ DOMAIN z = Names
      /\ Head(net["C"]).t = "KEXDH_REPLY" /\ Turn(agreed, ses["C"], "packet")
  BY <1>1, <1>2, ClientArrives
<1>5. h.lastpacket = "KEXDH_REPLY" /\ h.requirenext # "KEXDH_REPLY"
  BY <1>2, <1>4, Ends, Leave
<1>6. Met(agreed, "C", ses["C"]) => ses["C"].kex_state = "KEXDH_INIT_SENT"
  BY <1>4 DEF Turn, Met, Formed
<1>7. ASSUME NEW a, NEW b, Linked(agreed, ses["C"], ses["S"], a, b, cli),
             b # <<>>, Head(b) = Head(net["C"])
      PROVE  ClientAdds(ses["C"].writequeue, agreed, h, ses["S"], a, Tail(b), cli)
  <2>1. Head(b).t = "KEXDH_REPLY" /\ h = RecvKexdhReply(z, Head(b).b)
    BY <1>2, <1>4, <1>7
  <2>. QED  BY <1>4, <1>6, <1>7, <2>1, ClientTakes
<1>. QED  BY <1>1, <1>3, <1>5, <1>7, CoupledNow, ClientProcesses

---------------------------------------------------------------------------
(* Authentication *)

LEMMA ServiceRequestCouples ==
    ASSUME KInv, ServiceRequest
    PROVE  Coupled'
<1>1. agreed' = agreed /\ cli' = cli /\ Arrives("S", "SERVICE_REQUEST")
  BY DEF ServiceRequest, Others
<1>2. PICK h : h = EncryptPacket(Incoming("S"), "SERVICE_ACCEPT", 0)
  OBVIOUS
<1>3. Process("S", h)
  BY <1>2 DEF ServiceRequest
<1>4. /\ Incoming("S") = ForHandler(ses["S"], "SERVICE_REQUEST")
      /\ Head(net["S"]).t = "SERVICE_REQUEST"
  BY <1>1, ServerArrives
<1>5. ASSUME NEW a, NEW b, Linked(agreed, ses["C"], ses["S"], a, b, cli),
             a # <<>>, Head(a) = Head(net["S"])
      PROVE  ServerAdds(ses["S"].writequeue, agreed, ses["C"], h, Tail(a), b, cli)
  BY <1>2, <1>4, <1>5, ServerServiceRequest
<1>. QED  BY <1>1, <1>3, <1>5, ServerProcesses

LEMMA UserauthRequestCouples ==
    ASSUME KInv, UserauthRequest
    PROVE  Coupled'
<1>. DEFINE s == Incoming("S")
            out == IF s.authdone THEN "ignored" ELSE Outcome(Body("S"))
            n == CheckUsername(svr, Body("S").user).failcount
                   + (IF out = "counted" THEN 1 ELSE 0)
<1>1. agreed' = agreed /\ cli' = cli /\ Arrives("S", "USERAUTH_REQUEST")
  BY DEF UserauthRequest, Others
<1>2. PICK h : /\ Process("S", h)
               /\ h = CASE out = "ignored" -> s
                        [] out \in {"failure", "counted"} -> SendFailure(s, n)
                        [] out = "pk_ok" ->
                              EncryptPacket(s, "USERAUTH_PK_OK", Body("S").key)
                        [] out = "success" -> SendSuccess(s)
  BY DEF UserauthRequest
<1>3. /\ s = ForHandler(ses["S"], "USERAUTH_REQUEST")
      /\ Head(net["S"]).t = "USERAUTH_REQUEST"
  BY <1>1, ServerArrives
<1>4. ASSUME NEW a, NEW b, Linked(agreed, ses["C"], ses["S"], a, b, cli),
             a # <<>>, Head(a) = Head(net["S"])
      PROVE  ServerAdds(ses["S"].writequeue, agreed, ses["C"], h, Tail(a), b, cli)
  <2>. DEFINE Adds(x) == ServerAdds(ses["S"].writequeue, agreed, ses["C"], x,
                                    Tail(a), b, cli)
  <2>1. Head(a).t = "USERAUTH_REQUEST"
    BY <1>3, <1>4
  <2>2. PICK x : x = ForHandler(ses["S"], "USERAUTH_REQUEST")
    OBVIOUS
  <2>3. /\ x.authdone = FALSE
        /\ Outcome(Head(a).b) \in {"failure", "counted", "pk_ok", "success"}
        /\ \A i : Adds(SendFailure(x, i))
        /\ Outcome(Head(a).b) = "pk_ok" =>
             \A v : Adds(EncryptPacket(x, "USERAUTH_PK_OK", v))
        /\ Adds(SendSuccess(x))
    BY <1>4, <2>1, <2>2, ServerUserauthRequest
  <2>4. x = s /\ out = Outcome(Head(a).b)
    BY <1>3, <1>4, <2>2, <2>3 DEF Body
  <2>5. PICK v : v = Body("S").key
    OBVIOUS
  <2>6. PICK i : i = n
    OBVIOUS
  <2>. HIDE DEF s, out, n, Adds
  <2>7. h = CASE out = "ignored" -> x
              [] out \in {"failure", "counted"} -> SendFailure(x, i)
              [] out = "pk_ok" -> EncryptPacket(x, "USERAUTH_PK_OK", v)
              [] out = "success" -> SendSuccess(x)
    BY <1>2, <2>4, <2>5, <2>6
  <2>8. CASE out \in {"failure", "counted"}
    <3>1. h = SendFailure(x, i)
      BY <2>7, <2>8
    <3>. QED  BY <2>3, <3>1 DEF Adds
  <2>9. CASE out = "pk_ok"
    <3>1. h = EncryptPacket(x, "USERAUTH_PK_OK", v)
      BY <2>7, <2>9
    <3>2. Adds(EncryptPacket(x, "USERAUTH_PK_OK", v))
      BY <2>3, <2>4, <2>9
    <3>. QED  BY <3>1, <3>2 DEF Adds
  <2>10. CASE out = "success"
    <3>1. h = SendSuccess(x)
      BY <2>7, <2>10
    <3>. QED  BY <2>3, <3>1 DEF Adds
  <2>. QED  BY <2>3, <2>4, <2>8, <2>9, <2>10
<1>. QED  BY <1>1, <1>2, <1>4, ServerProcesses

LEMMA ServiceAcceptCouples ==
    ASSUME KInv, ServiceAccept
    PROVE  Coupled'
<1>1. agreed' = agreed /\ cli' = cli /\ Arrives("C", "SERVICE_ACCEPT")
  BY DEF ServiceAccept, Others
<1>2. PICK h : h = Incoming("C")
  OBVIOUS
<1>3. Process("C", h)
  BY <1>2 DEF ServiceAccept
<1>4. /\ h = ForHandler(ses["C"], "SERVICE_ACCEPT")
      /\ h.requirenext = "none" /\ h.lastpacket = "SERVICE_ACCEPT"
      /\ Head(net["C"]).t = "SERVICE_ACCEPT"
  BY <1>1, <1>2, ClientArrives
<1>5. ASSUME NEW a, NEW b, Linked(agreed, ses["C"], ses["S"], a, b, cli),
             b # <<>>, Head(b) = Head(net["C"])
      PROVE  ClientAdds(ses["C"].writequeue, agreed, h, ses["S"], a, Tail(b), cli)
  BY <1>4, <1>5, ClientServiceAccept
<1>. QED  BY <1>1, <1>3, <1>4, <1>5, CoupledNow, ClientProcesses

\* Something is linked with the packet at the head in front.
LEMMA HeadLinked ==
    ASSUME KInv, net["C"] # <<>>
    PROVE  \E a, b : /\ Linked(agreed, ses["C"], ses["S"], a, b, cli)
                     /\ b # <<>> /\ Head(b) = Head(net["C"])
<1>1. /\ Together(agreed, ses["C"], ses["S"], net["S"], net["C"], cli)
      /\ IsSeq(net["C"]) /\ IsSeq(ses["S"].writequeue)
  BY CoupledNow, TogetherFacts DEF Together
<1>2. PICK a, b, n, q : /\ a = net["S"] \o ses["C"].writequeue /\ b = n \o q
                        /\ n = net["C"] /\ q = ses["S"].writequeue
  OBVIOUS
<1>3. b # <<>> /\ Head(b) = Head(n)
  BY <1>1, <1>2, ReadFromNet
<1>4. Linked(agreed, ses["C"], ses["S"], a, b, cli)
  BY <1>1, <1>2 DEF Together
<1>. QED  BY <1>2, <1>3, <1>4

LEMMA UserauthFailureCouples ==
    ASSUME KInv, UserauthFailure
    PROVE  Coupled'
<1>1. agreed' = agreed /\ Arrives("C", "USERAUTH_FAILURE")
  BY DEF UserauthFailure, Others
<1>2. PICK s : s = Incoming("C")
  OBVIOUS
<1>3. /\ s = ForHandler(ses["C"], "USERAUTH_FAILURE")
      /\ s.requirenext = "none" /\ s.lastpacket = "USERAUTH_FAILURE"
      /\ net["C"] # <<>> /\ Head(net["C"]).t = "USERAUTH_FAILURE"
      /\ Dispatched("C") /\ DOMAIN cli = CliNames
  BY <1>1, <1>2, ClientArrives, CoupledNow
<1>4. ~s.authdone /\ cli.state = "USERAUTH_REQ_SENT"
  <2>1. PICK a, b : /\ Linked(agreed, ses["C"], ses["S"], a, b, cli)
                    /\ b # <<>> /\ Head(b) = Head(net["C"])
    BY <1>3, HeadLinked
  <2>2. PICK n : n = [state |-> "USERAUTH_FAIL_RCVD"]
    OBVIOUS
  <2>3. n.state = "USERAUTH_FAIL_RCVD" /\ Head(b).t = "USERAUTH_FAILURE"
    BY <1>3, <2>1, <2>2
  <2>. QED  BY <1>3, <2>1, <2>3, ClientFailure
<1>5. Process("C", s)
  BY <1>2, <1>4 DEF UserauthFailure
<1>6. cli'.state = "USERAUTH_FAIL_RCVD" /\ DOMAIN cli' = CliNames
  BY <1>2, <1>3, <1>4 DEF UserauthFailure, PubkeyFail, CliNames
<1>7. PICK n : n = cli'
  OBVIOUS
<1>8. ASSUME NEW a, NEW b, Linked(agreed, ses["C"], ses["S"], a, b, cli),
             b # <<>>, Head(b) = Head(net["C"])
      PROVE  ClientAdds(ses["C"].writequeue, agreed, s, ses["S"], a, Tail(b), n)
  <2>1. n.state = "USERAUTH_FAIL_RCVD" /\ Head(b).t = "USERAUTH_FAILURE"
    BY <1>3, <1>6, <1>7, <1>8
  <2>. QED  BY <1>3, <1>8, <2>1, ClientFailure
<1>. QED  BY <1>1, <1>3, <1>5, <1>6, <1>7, <1>8, ClientProcesses

LEMMA UserauthSuccessCouples ==
    ASSUME KInv, UserauthSuccess
    PROVE  Coupled'
<1>1. agreed' = agreed /\ Arrives("C", "USERAUTH_SUCCESS")
  BY DEF UserauthSuccess, Others
<1>2. PICK s, h : s = Incoming("C") /\ h = [s EXCEPT !.authdone = TRUE]
  OBVIOUS
<1>3. /\ s = ForHandler(ses["C"], "USERAUTH_SUCCESS") /\ DOMAIN s = Names
      /\ s.requirenext = "none" /\ s.lastpacket = "USERAUTH_SUCCESS"
      /\ Head(net["C"]).t = "USERAUTH_SUCCESS"
      /\ Dispatched("C") /\ DOMAIN cli = CliNames
  BY <1>1, <1>2, ClientArrives, CoupledNow
<1>4. h.requirenext = "none" /\ h.lastpacket = "USERAUTH_SUCCESS"
  BY <1>2, <1>3 DEF Names
<1>5. Process("C", h)
  BY <1>2 DEF UserauthSuccess
<1>6. cli'.state = "USERAUTH_SUCCESS_RCVD" /\ DOMAIN cli' = CliNames
  BY <1>3 DEF UserauthSuccess, CliNames
<1>7. PICK n : n = cli'
  OBVIOUS
<1>8. ASSUME NEW a, NEW b, Linked(agreed, ses["C"], ses["S"], a, b, cli),
             b # <<>>, Head(b) = Head(net["C"])
      PROVE  ClientAdds(ses["C"].writequeue, agreed, h, ses["S"], a, Tail(b), n)
  <2>1. n.state = "USERAUTH_SUCCESS_RCVD" /\ Head(b).t = "USERAUTH_SUCCESS"
    BY <1>3, <1>6, <1>7, <1>8
  <2>. QED  BY <1>2, <1>3, <1>8, <2>1, ClientSuccess
<1>. QED  BY <1>1, <1>4, <1>5, <1>6, <1>7, <1>8, ClientProcesses

LEMMA UserauthPkOkCouples ==
    ASSUME KInv, UserauthPkOk
    PROVE  Coupled'
<1>1. agreed' = agreed /\ cli' = cli /\ Arrives("C", "USERAUTH_PK_OK")
  BY DEF UserauthPkOk, Others
<1>2. PICK s : s = Incoming("C")
  OBVIOUS
<1>3. /\ s = ForHandler(ses["C"], "USERAUTH_PK_OK") /\ DOMAIN s = Names
      /\ s.requirenext = "none" /\ s.lastpacket = "USERAUTH_PK_OK"
      /\ net["C"] # <<>> /\ Head(net["C"]).t = "USERAUTH_PK_OK"
  BY <1>1, <1>2, ClientArrives
<1>4. cli.lastauthtype = "pubkey"
  <2>1. PICK a, b : /\ Linked(agreed, ses["C"], ses["S"], a, b, cli)
                    /\ b # <<>> /\ Head(b) = Head(net["C"])
    BY <1>3, HeadLinked
  <2>2. Head(b).t = "USERAUTH_PK_OK"
    BY <1>3, <2>1
  <2>. QED  BY <2>1, <2>2, ClientPkOk
<1>5. PICK h : /\ Process("C", h)
               /\ \/ h = s
                  \/ \E v : /\ v.method = "sign"
                            /\ h = EncryptPacket(s, "USERAUTH_REQUEST", v)
  <2>1. PICK user, k, mine, h :
          /\ Process("C", h)
          /\ h = CASE cli.lastauthtype = "password" ->
                           Exit(s, "password expired")
                   [] cli.lastauthtype = "none" ->
                           Exit(s, "unexpected userauth packet")
                   [] cli.lastauthtype = "pubkey" /\ mine ->
                           EncryptPacket(s, "USERAUTH_REQUEST",
                                         Request(user, "sign", k, TRUE))
                   [] OTHER -> s
    BY <1>2 DEF UserauthPkOk
  <2>2. PICK v : v = Request(user, "sign", k, TRUE)
    OBVIOUS
  <2>3. v.method = "sign"
    BY <2>2 DEF Request
  <2>4. h = s \/ h = EncryptPacket(s, "USERAUTH_REQUEST", v)
    BY <1>4, <2>1, <2>2
  <2>. QED  BY <2>1, <2>3, <2>4
<1>6. h.requirenext = "none" /\ h.lastpacket = "USERAUTH_PK_OK"
  <2>1. \A v : /\ EncryptPacket(s, "USERAUTH_REQUEST", v).requirenext = "none"
               /\ EncryptPacket(s, "USERAUTH_REQUEST", v).lastpacket
                    = "USERAUTH_PK_OK"
    <3>. TAKE v
    <3>1. PICK y : y = EncryptPacket(s, "USERAUTH_REQUEST", v)
      OBVIOUS
    <3>2. Level(s, y)
      BY <1>3, <3>1, Levels
    <3>. QED  BY <1>3, <3>1, <3>2, LevelFields
  <2>. QED  BY <1>3, <1>5, <2>1
<1>7. ASSUME NEW a, NEW b, Linked(agreed, ses["C"], ses["S"], a, b, cli),
             b # <<>>, Head(b) = Head(net["C"])
      PROVE  ClientAdds(ses["C"].writequeue, agreed, h, ses["S"], a, Tail(b), cli)
  <2>1. Head(b).t = "USERAUTH_PK_OK"
    BY <1>3, <1>7
  <2>2. /\ ClientAdds(ses["C"].writequeue, agreed, s, ses["S"], a, Tail(b), cli)
        /\ \A v : v.method = "sign" =>
             ClientAdds(ses["C"].writequeue, agreed,
                        EncryptPacket(s, "USERAUTH_REQUEST", v), ses["S"], a,
                        Tail(b), cli)
    BY <1>3, <1>7, <2>1, ClientPkOk
  <2>. QED  BY <1>5, <2>2
<1>. QED  BY <1>1, <1>5, <1>6, <1>7, CoupledNow, ClientProcesses

---------------------------------------------------------------------------
(* The connection layer *)

LEMMA AnswerTypes ==
    ASSUME NEW t, t \in {"CHANNEL_OPEN", "CHANNEL_REQUEST", "GLOBAL_REQUEST"}
    PROVE  t \in ConnectionType /\ Answer(t) \in ConnectionType
<1>1. t = "CHANNEL_OPEN" \/ t = "CHANNEL_REQUEST" \/ t = "GLOBAL_REQUEST"
  OBVIOUS
<1>2. t \in ConnectionType
  BY <1>1 DEF ConnectionType
<1>3. Answer(t) \in ConnectionType
  BY <1>1, SMT DEF ConnectionType, Answer
<1>. QED  BY <1>2, <1>3

LEMMA Counted ==
    ASSUME NEW s, DOMAIN s = Names, NEW n, s.exited \in Fine
    PROVE  LET x == [s EXCEPT !.chancount = n]
           IN  /\ Alike(s, x) /\ x.writequeue = s.writequeue
               /\ x.replyq = s.replyq /\ x.exited \in Fine
               /\ x.authdone = s.authdone
               /\ x.lastpacket = s.lastpacket /\ x.requirenext = s.requirenext
BY DEF Alike, But, Loose, Names

LEMMA ConnectionRequestCouples ==
    ASSUME KInv, NEW e \in End, ConnectionRequest(e)
    PROVE  Coupled'
<1>1. PICK t \in {"CHANNEL_OPEN", "CHANNEL_REQUEST", "GLOBAL_REQUEST"} :
        /\ Arrives(e, t) /\ agreed' = agreed /\ cli' = cli
        /\ Process(e, EncryptPacket(
             [Incoming(e) EXCEPT !.chancount = IF t = "CHANNEL_OPEN" THEN @ + 1
                                               ELSE @], Answer(t), 0))
  BY DEF ConnectionRequest, Others
<1>2. t \in ConnectionType /\ Answer(t) \in ConnectionType
  BY AnswerTypes
<1>. PICK u \in ConnectionType : u = Answer(t)
  BY <1>2
<1>3. PICK z, n, d, h :
        /\ z = Incoming(e) /\ d = [z EXCEPT !.chancount = n]
        /\ h = EncryptPacket(d, u, 0) /\ Process(e, h)
  <2>1. PICK z : z = Incoming(e)
    OBVIOUS
  <2>2. PICK n : n = IF t = "CHANNEL_OPEN" THEN z.chancount + 1 ELSE z.chancount
    OBVIOUS
  <2>3. Process(e, EncryptPacket([z EXCEPT !.chancount = n], u, 0))
    BY <1>1, <2>1, <2>2
  <2>. QED  BY <2>1, <2>3
<1>4. CASE e = "C"
  <2>1. /\ z = ForHandler(ses["C"], t) /\ DOMAIN z = Names
        /\ z.requirenext = "none" /\ z.lastpacket = t
        /\ Head(net["C"]).t = t
    BY <1>1, <1>3, <1>4, ClientArrives
  <2>2. ASSUME NEW a, NEW b, Linked(agreed, ses["C"], ses["S"], a, b, cli),
               b # <<>>, Head(b) = Head(net["C"])
        PROVE  ClientAdds(ses["C"].writequeue, agreed, h, ses["S"], a, Tail(b), cli)
    <3>1. /\ Linked(agreed, z, ses["S"], a, Tail(b), cli)
          /\ z.writequeue = ses["C"].writequeue /\ z.authdone /\ z.exited \in Fine
      BY <1>2, <2>1, <2>2, ClientConnectionRead
    <3>2. PICK v : v = Tail(b)
      OBVIOUS
    <3>3. /\ Alike(z, d) /\ d.writequeue = z.writequeue /\ d.replyq = z.replyq
          /\ d.exited \in Fine /\ d.authdone = z.authdone
      BY <1>3, <2>1, <3>1, Counted
    <3>4. Linked(agreed, d, ses["S"], a, v, cli)
      BY <3>1, <3>2, <3>3, ClientAlike
    <3>5. ClientAdds(d.writequeue, agreed, h, ses["S"], a, v, cli)
      BY <1>3, <3>1, <3>3, <3>4, ClientConnection
    <3>. QED  BY <3>1, <3>2, <3>3, <3>5
  <2>3. h.lastpacket = t /\ h.requirenext = "none"
    <3>1. Level(z, d)
      BY <1>3, <2>1, Levels
    <3>2. Level(d, h)
      BY <1>3, <3>1, Levels, LevelFields
    <3>. QED  BY <2>1, <3>1, <3>2, LevelFields
  <2>. QED  BY <1>1, <1>3, <1>4, <2>2, <2>3, CoupledNow, ClientProcesses
<1>5. CASE e = "S"
  <2>1. /\ z = ForHandler(ses["S"], t) /\ Head(net["S"]).t = t
        /\ DOMAIN z = Names
    <3>1. /\ z = ForHandler(ses["S"], t) /\ Head(net["S"]).t = t
          /\ But(ses["S"], z, {"requirenext", "lastpacket"})
      BY <1>1, <1>3, <1>5, ServerArrives
    <3>. QED  BY <3>1 DEF But
  <2>2. ASSUME NEW a, NEW b, Linked(agreed, ses["C"], ses["S"], a, b, cli),
               a # <<>>, Head(a) = Head(net["S"])
        PROVE  ServerAdds(ses["S"].writequeue, agreed, ses["C"], h, Tail(a), b, cli)
    <3>1. /\ Linked(agreed, ses["C"], z, Tail(a), b, cli)
          /\ z.writequeue = ses["S"].writequeue /\ z.authdone /\ z.exited \in Fine
      BY <1>2, <2>1, <2>2, ServerConnectionRead
    <3>2. PICK v : v = Tail(a)
      OBVIOUS
    <3>3. /\ Alike(z, d) /\ d.writequeue = z.writequeue /\ d.replyq = z.replyq
          /\ d.exited \in Fine /\ d.authdone = z.authdone
      BY <1>3, <2>1, <3>1, Counted
    <3>4. Linked(agreed, ses["C"], d, v, b, cli)
      BY <3>1, <3>2, <3>3, ServerAlike
    <3>5. ServerAdds(d.writequeue, agreed, ses["C"], h, v, b, cli)
      BY <1>3, <3>1, <3>3, <3>4, ServerConnection
    <3>. QED  BY <3>1, <3>2, <3>3, <3>5
  <2>. QED  BY <1>1, <1>3, <1>5, <2>2, ServerProcesses
<1>. QED  BY <1>4, <1>5, Ends

LEMMA ConnectionReplyCouples ==
    ASSUME KInv, NEW e \in End, ConnectionReply(e)
    PROVE  Coupled'
<1>1. PICK t \in {"CHANNEL_OPEN_CONFIRMATION", "CHANNEL_SUCCESS",
                  "REQUEST_FAILURE"} :
        /\ Arrives(e, t) /\ agreed' = agreed /\ cli' = cli
        /\ Process(e, Incoming(e))
  BY DEF ConnectionReply, Others
<1>2. t \in ConnectionType
  BY DEF ConnectionType
<1>3. PICK h : h = Incoming(e) /\ Process(e, h)
  BY <1>1
<1>4. CASE e = "C"
  <2>1. /\ h = ForHandler(ses["C"], t)
        /\ h.requirenext = "none" /\ h.lastpacket = t /\ Head(net["C"]).t = t
    BY <1>1, <1>3, <1>4, ClientArrives
  <2>2. ASSUME NEW a, NEW b, Linked(agreed, ses["C"], ses["S"], a, b, cli),
               b # <<>>, Head(b) = Head(net["C"])
        PROVE  ClientAdds(ses["C"].writequeue, agreed, h, ses["S"], a, Tail(b), cli)
    <3>1. /\ Linked(agreed, h, ses["S"], a, Tail(b), cli)
          /\ h.writequeue = ses["C"].writequeue /\ IsSeq(ses["C"].writequeue)
      BY <1>2, <2>1, <2>2, ClientConnectionRead
    <3>2. PICK v : v = Tail(b)
      OBVIOUS
    <3>. QED  BY <3>1, <3>2, NothingAdded
  <2>. QED  BY <1>1, <1>3, <1>4, <2>1, <2>2, CoupledNow, ClientProcesses
<1>5. CASE e = "S"
  <2>1. h = ForHandler(ses["S"], t) /\ Head(net["S"]).t = t
    BY <1>1, <1>3, <1>5, ServerArrives
  <2>2. ASSUME NEW a, NEW b, Linked(agreed, ses["C"], ses["S"], a, b, cli),
               a # <<>>, Head(a) = Head(net["S"])
        PROVE  ServerAdds(ses["S"].writequeue, agreed, ses["C"], h, Tail(a), b, cli)
    <3>1. /\ Linked(agreed, ses["C"], h, Tail(a), b, cli)
          /\ h.writequeue = ses["S"].writequeue /\ IsSeq(ses["S"].writequeue)
      BY <1>2, <2>1, <2>2, ServerConnectionRead
    <3>2. PICK v : v = Tail(a)
      OBVIOUS
    <3>. QED  BY <3>1, <3>2, NothingAdded
  <2>. QED  BY <1>1, <1>3, <1>5, <2>2, ServerProcesses
<1>. QED  BY <1>4, <1>5, Ends

---------------------------------------------------------------------------
(* The two ends when the connection has been made *)

\* The session x is what an end has sent its first KEXINIT with.
Opening(e, x) ==
    /\ Begun(e, x) /\ x.authdone = FALSE /\ x.donefirstkex = FALSE
    /\ x.keys.trans = NoKeys /\ x.keys.recv = NoKeys
    /\ x.replyq = <<>> /\ x.exited = "no" /\ x.lastpacket = "none"
Unsealed(p, k) == Plain(p) = k /\ p.key = NoKeys /\ p.z = FALSE

LEMMA FirstKexinit ==
    ASSUME NEW e \in End
    PROVE  LET x == SendKexinit(e, InitialSession)
           IN  /\ Opening(e, x)
               /\ \E p : /\ Unsealed(p, KI(e, x.transkexinit))
                         /\ e = "S" => x.writequeue = Append(<<>>, p)
                         /\ e = "C" => \E q : /\ Unsealed(q, First(x))
                                              /\ x.writequeue = Append(Append(<<>>, p), q)
<1>. DEFINE s == InitialSession
            c == s.drawn + 1
            s0 == [s EXCEPT !.drawn = c]
            b == [cookie |-> c, first_follows |-> e = "C"]
            s1 == EncryptPacket(s0, "KEXINIT", b)
            s2 == [s1 EXCEPT !.transkexinit = c, !.dataallowed = FALSE,
                             !.sentkexinit = TRUE,
                             !.newkeys = NewContext("first")]
            x == SendKexinit(e, s)
<1>1. x = IF e = "C" THEN SendKexdhInit(s2) ELSE s2
  BY DEF SendKexinit
<1>2. /\ DOMAIN s = Names /\ s.drawn = 0 /\ s.dataallowed = TRUE
      /\ s.sentkexinit = FALSE /\ s.recvkexinit = FALSE /\ s.sentnewkeys = FALSE
      /\ s.donefirstkex = FALSE /\ s.requirenext = "KEXINIT"
      /\ s.ignorenext = FALSE /\ s.our_first_follows_matches = FALSE
      /\ s.param = NoParam /\ s.kex_state = "KEX_NOTHING"
      /\ s.keys = [trans |-> NoKeys, recv |-> NoKeys]
      /\ s.authdone = FALSE /\ s.recvnewkeys = FALSE
      /\ s.replyq = <<>> /\ s.writequeue = <<>>
      /\ s.exited = "no" /\ s.lastpacket = "none"
  BY DEF InitialSession, Names
<1>3. b = KI(e, c).b /\ c \in Nat
  BY <1>2 DEF KI
<1>. HIDE DEF s
<1>4. But(s, s0, {"drawn"}) /\ s0.drawn = c
  BY <1>2 DEF But, Names
<1>. HIDE DEF b, s0, x, c
<1>5. /\ But(s0, s1, Queues) /\ s1.replyq = s0.replyq
      /\ \E p : Stamped(p, s0, "KEXINIT", b) /\ s1.writequeue = Append(s0.writequeue, p)
  <2>1. DOMAIN s0 = Names /\ s0.dataallowed
    BY <1>2, <1>4 DEF But, Names
  <2>. QED  BY <2>1, EncryptForm
<1>. HIDE DEF s1
<1>6. /\ But(s, s2, Queues \cup {"drawn", "transkexinit", "dataallowed",
                               "sentkexinit", "newkeys"})
      /\ s2.drawn = c /\ s2.transkexinit = c /\ s2.dataallowed = FALSE
      /\ s2.sentkexinit = TRUE /\ s2.newkeys = NewContext("first")
      /\ s2.replyq = s.replyq
  BY <1>4, <1>5 DEF But, Names, Queues
<1>7. PICK p : Unsealed(p, KI(e, c)) /\ s2.writequeue = Append(<<>>, p)
  <2>1. PICK p : Stamped(p, s0, "KEXINIT", b)
                 /\ s1.writequeue = Append(s0.writequeue, p)
    BY <1>5
  <2>2. s0.keys = s.keys /\ s0.authdone = FALSE /\ s0.writequeue = <<>>
    BY <1>2, <1>4 DEF But, Names
  <2>3. s2.writequeue = s1.writequeue
    BY <1>4, <1>5 DEF But, Names
  <2>4. Plain(p) = KI(e, c)
    BY <1>3, <2>1 DEF Stamped, KI
  <2>5. p.key = NoKeys /\ p.z = FALSE
    BY <1>2, <2>1, <2>2 DEF Stamped
  <2>. QED  BY <2>1, <2>2, <2>3, <2>4, <2>5 DEF Unsealed
<1>. HIDE DEF s2
<1>8. ASSUME But(s, x, Queues \cup {"drawn", "transkexinit", "dataallowed",
                                    "sentkexinit", "newkeys", "param"}),
             x.drawn \in Nat, x.transkexinit = c, x.dataallowed = FALSE,
             x.sentkexinit = TRUE, x.newkeys = NewContext("first"),
             x.replyq = s.replyq,
             e = "C" => x.param \in Params /\ x.param.algo = "first"
      PROVE  Opening(e, x)
  <2>1. /\ x.authdone = FALSE /\ x.donefirstkex = FALSE /\ x.recvkexinit = FALSE
        /\ x.sentnewkeys = FALSE /\ x.recvnewkeys = FALSE
        /\ x.requirenext = "KEXINIT" /\ x.ignorenext = FALSE
        /\ x.our_first_follows_matches = FALSE /\ x.kex_state = "KEX_NOTHING"
        /\ x.keys = [trans |-> NoKeys, recv |-> NoKeys]
        /\ x.exited = "no" /\ x.lastpacket = "none" /\ DOMAIN x = Names
    BY <1>2, <1>8 DEF But, Names, Queues
  <2>2. x.keys.trans = NoKeys /\ x.keys.recv = NoKeys
    BY <2>1
  <2>3. Begun(e, x)
    BY <1>3, <1>8, <2>1, <2>2 DEF Begun, Formed
  <2>. QED  BY <1>2, <1>8, <2>1, <2>2, <2>3 DEF Opening
<1>9. CASE e = "S"
  <2>1. x = s2
    BY <1>1, <1>9
  <2>2. But(s, x, Queues \cup {"drawn", "transkexinit", "dataallowed",
                               "sentkexinit", "newkeys", "param"})
    BY <2>1, <1>6 DEF But
  <2>3. Opening(e, x)
    BY <2>1, <2>2, <1>3, <1>6, <1>8, <1>9
  <2>. QED  BY <2>1, <2>3, <1>6, <1>7, <1>9 DEF x, s
<1>10. CASE e = "C"
  <2>1. x = SendKexdhInit(s2)
    BY <1>1, <1>10
  <2>2. /\ DOMAIN s2 = Names /\ s2.drawn \in Nat /\ s2.param = NoParam
        /\ s2.newkeys.algo = "first"
    BY <1>2, <1>3, <1>6, <1>10 DEF But, Names, Queues, NewContext
  <2>3. /\ But(s2, x, Queues \cup {"drawn", "param"})
        /\ x.drawn \in Nat /\ x.param \in Params /\ x.param.algo = "first"
        /\ x.replyq = s2.replyq
        /\ \E q : /\ Stamped(q, s2, "KEXDH_INIT", KD("first", x.param.x).b)
                  /\ x.writequeue = Append(s2.writequeue, q)
    BY <2>1, <2>2, KexdhInitForm
  <2>4. But(s, x, Queues \cup {"drawn", "transkexinit", "dataallowed",
                               "sentkexinit", "newkeys", "param"})
    BY <2>3, <1>6 DEF But, Queues
  <2>5. /\ x.transkexinit = c /\ x.dataallowed = FALSE /\ x.sentkexinit = TRUE
        /\ x.newkeys = NewContext("first") /\ x.replyq = s.replyq
    BY <2>3, <1>6 DEF But, Names, Queues
  <2>6. Opening(e, x)
    BY <2>3, <2>4, <2>5, <1>8
  <2>7. \E q : Unsealed(q, First(x)) /\ x.writequeue = Append(Append(<<>>, p), q)
    <3>1. PICK q : /\ Stamped(q, s2, "KEXDH_INIT", KD("first", x.param.x).b)
                   /\ x.writequeue = Append(s2.writequeue, q)
      BY <2>3
    <3>2. s2.keys = s.keys /\ s2.authdone = FALSE
      BY <1>2, <1>6 DEF But, Names, Queues
    <3>3. Plain(q) = First(x)
      BY <3>1 DEF Stamped, First, KD
    <3>4. q.key = NoKeys /\ q.z = FALSE
      BY <1>2, <3>1, <3>2 DEF Stamped
    <3>. QED  BY <3>1, <3>3, <3>4, <1>7 DEF Unsealed
  <2>. QED  BY <2>5, <2>6, <2>7, <1>7, <1>10 DEF x, s
<1>. QED  BY <1>9, <1>10 DEF End

\* What is under way before there are keys.
LEMMA FirstLine ==
    ASSUME NEW w, NEW ks, NEW s, NEW r, IsSeq(w), Word(KexType, w, ks),
           Word(Dialogue, w, <<>>),
           \A i \in 1..Len(w) : /\ w[i].t \in {"KEXINIT", "KEXDH_INIT"}
                                /\ w[i].key = NoKeys /\ w[i].z = FALSE,
           s.keys.trans = NoKeys, r.keys.recv = NoKeys, s.authdone = FALSE,
           r.authdone = FALSE, r.donefirstkex = FALSE
    PROVE  Line(w, ks, <<>>, s, r)
<1>1. \A t \in {"KEXINIT", "KEXDH_INIT"} :
        /\ t \in KexType /\ t \notin UpperType /\ t \notin ConnectionType
        /\ t # SUCCESS /\ t # "NEWKEYS"
  BY DEF KexType, UpperType, ServiceType, AuthType, ConnectionType, SUCCESS
<1>2. PICK n \in Nat : n = Len(w)
  BY Length
<1>3. ~Has(w, "NEWKEYS") /\ \A i \in 1..n : ~Before(w, "NEWKEYS", i)
  BY <1>1, <1>2 DEF Has, Before
<1>. QED  BY <1>1, <1>2, <1>3 DEF Line

FirstPackets(w, ks) ==
    /\ IsSeq(w) /\ Word(KexType, w, ks) /\ Word(Dialogue, w, <<>>)
    /\ \A i \in 1..Len(w) : /\ w[i].t \in {"KEXINIT", "KEXDH_INIT"}
                            /\ w[i].key = NoKeys /\ w[i].z = FALSE

LEMMA FirstWords ==
    ASSUME NEW p, NEW q, NEW c, NEW k, Unsealed(p, KI(c, k)), NEW d, NEW v,
           Unsealed(q, KD(d, v))
    PROVE  /\ FirstPackets(Append(<<>>, p), <<KI(c, k)>>)
           /\ FirstPackets(Append(Append(<<>>, p), q), <<KI(c, k), KD(d, v)>>)
<1>1. /\ p.t = "KEXINIT" /\ p.key = NoKeys /\ p.z = FALSE
      /\ q.t = "KEXDH_INIT" /\ q.key = NoKeys /\ q.z = FALSE
  BY PlainType, Saying DEF Unsealed
<1>2. /\ p.t \in KexType /\ p.t \notin Dialogue /\ q.t \in KexType
      /\ q.t \notin Dialogue
  BY <1>1 DEF KexType, Dialogue, ServiceType, AuthType
<1>3. PICK w : w = Append(<<>>, p)
  OBVIOUS
<1>4. PICK u : u = Append(w, q)
  OBVIOUS
<1>5. PICK x, y : x = Plain(p) /\ y = Plain(q)
  OBVIOUS
<1>6. PICK ks, ls : ks = Append(<<>>, x) /\ ls = Append(ks, y)
  OBVIOUS
<1>7. /\ IsSeq(w) /\ Len(w) = 1 /\ w[1] = p
      /\ IsSeq(u) /\ Len(u) = 2 /\ u[1] = p /\ u[2] = q
  <2>1. IsSeq(w) /\ Len(w) = 1 /\ w[1] = p
    <3>1. PICK o : o = <<p>>
      OBVIOUS
    <3>2. IsSeq(o) /\ Len(o) = 1 /\ o[1] = p
      BY <3>1, Tuple1
    <3>3. w = o
      BY <1>3, <3>1, Tuple1
    <3>. QED  BY <3>2, <3>3
  <2>2. IsSeq(u) /\ Len(u) = 2 /\ u[1] = w[1] /\ u[2] = q
    BY ONLY <1>4, <2>1, AppendSecond
  <2>. QED  BY ONLY <2>1, <2>2
<1>8. /\ Word(KexType, w, ks) /\ Word(Dialogue, w, <<>>) /\ IsSeq(ks)
  BY <1>2, <1>3, <1>5, <1>6, Empty, WordNone, WordAppended, AppendOne
<1>9. Word(KexType, u, ls) /\ Word(Dialogue, u, <<>>)
  BY <1>2, <1>4, <1>5, <1>6, <1>7, <1>8, Empty, WordAppended
<1>10. ks = <<KI(c, k)>> /\ ls = <<KI(c, k), KD(d, v)>>
  <2>1. x = KI(c, k) /\ y = KD(d, v)
    BY <1>5 DEF Unsealed
  <2>2. ks = <<x>>
    BY <1>6, Tuple1
  <2>3. ls = <<x, y>>
    BY <1>6, <2>2, Tuple2
  <2>. QED  BY <2>1, <2>2, <2>3
<1>11. \A i \in 1..Len(w) : /\ w[i].t \in {"KEXINIT", "KEXDH_INIT"}
                            /\ w[i].key = NoKeys /\ w[i].z = FALSE
  BY <1>1, <1>7, Upto
<1>12. \A i \in 1..Len(u) : /\ u[i].t \in {"KEXINIT", "KEXDH_INIT"}
                            /\ u[i].key = NoKeys /\ u[i].z = FALSE
  BY <1>1, <1>7, Upto
<1>13. FirstPackets(w, ks) /\ FirstPackets(u, ls)
  BY <1>7, <1>8, <1>9, <1>11, <1>12 DEF FirstPackets
<1>. QED  BY <1>3, <1>4, <1>10, <1>13

LEMMA Nought ==
    ASSUME NEW q, IsSeq(q)
    PROVE  <<>> \o q = q
<1>. PICK S : q \in Seq(S)
  BY DEF IsSeq
<1>. QED  BY ConcatEmptySeq

LEMMA OpeningLinked ==
    ASSUME NEW g, NEW c, NEW s, NEW m, NEW p, NEW q, NEW r, Opening("C", c),
           Opening("S", s), m.state = "STATE_NOTHING",
           Unsealed(p, KI("C", c.transkexinit)), Unsealed(q, First(c)),
           Unsealed(r, KI("S", s.transkexinit)),
           c.writequeue = Append(Append(<<>>, p), q),
           s.writequeue = Append(<<>>, r)
    PROVE  /\ Linked(g, c, s, c.writequeue, s.writequeue, m)
           /\ Turn(g, c, "timeouts") /\ IsSeq(c.writequeue) /\ IsSeq(s.writequeue)
<1>. PICK a, b : a = c.writequeue /\ b = s.writequeue
  OBVIOUS
<1>. PICK ka, kb : /\ ka = <<KI("C", c.transkexinit), KD("first", c.param.x)>>
                   /\ kb = <<KI("S", s.transkexinit)>>
  OBVIOUS
<1>1. FirstPackets(a, ka) /\ FirstPackets(b, kb)
  <2>1. Unsealed(q, KD("first", c.param.x))
    BY DEF First
  <2>2. FirstPackets(a, ka)
    BY <2>1, FirstWords
  <2>3. FirstPackets(b, kb)
    BY <2>1, FirstWords
  <2>. QED  BY <2>2, <2>3
<1>2. IsSeq(a) /\ IsSeq(b)
  BY <1>1 DEF FirstPackets
<1>3. Line(a, ka, <<>>, c, s) /\ Line(b, kb, <<>>, s, c)
  BY <1>1, FirstLine DEF Opening, FirstPackets
<1>4. Talk(g, c, s, ka, kb)
  <2>1. BothOpen(c, s, ka, kb)
    BY DEF BothOpen, Opening, First
  <2>. QED  BY <2>1 DEF Talk
<1>5. Dialog(m, s.authdone, <<>>, <<>>)
  BY DEF Dialog, Opening
<1>6. Waiting(c) /\ Waiting(s)
  <2>1. \A i : ~(i \in 1..0)
    OBVIOUS
  <2>. QED  BY <2>1, Empty DEF Waiting, Opening, Fine
<1>7. Both(c, s, m, a)
  BY <1>6 DEF Both, Opening
<1>8. Queued(c) /\ Queued(s)
  BY <1>2, Empty DEF Queued, Opening
<1>9. Joined(g, c, s, a, b, m, ka, kb, <<>>, <<>>)
  BY <1>2, <1>3, <1>4, <1>5, <1>7, <1>8 DEF Joined
<1>10. Turn(g, c, "timeouts")
  BY DEF Turn, Opening, Begun, Met, Switched
<1>. QED  BY <1>2, <1>9, <1>10 DEF Linked

LEMMA InitCoupled ==
    ASSUME Init
    PROVE  KInv
<1>1. PICK c, s : /\ c = SendKexinit("C", InitialSession)
                  /\ s = SendKexinit("S", InitialSession)
  OBVIOUS
<1>2. ses["C"] = c /\ ses["S"] = s
  BY <1>1, Ends DEF Init
<1>3. PICK p, q : /\ Unsealed(p, KI("C", c.transkexinit)) /\ Unsealed(q, First(c))
                  /\ c.writequeue = Append(Append(<<>>, p), q)
                  /\ Opening("C", c)
  BY <1>1, Ends, FirstKexinit
<1>4. PICK r : /\ Unsealed(r, KI("S", s.transkexinit))
               /\ s.writequeue = Append(<<>>, r) /\ Opening("S", s)
  BY <1>1, Ends, FirstKexinit
<1>5. /\ cli.state = "STATE_NOTHING" /\ DOMAIN cli = CliNames
      /\ DOMAIN pc = End /\ pc["C"] = "timeouts"
      /\ net["C"] = <<>> /\ net["S"] = <<>>
  BY Ends DEF Init, CliNames
<1>6. /\ Linked(agreed, c, s, c.writequeue, s.writequeue, cli)
      /\ Turn(agreed, c, "timeouts") /\ IsSeq(c.writequeue) /\ IsSeq(s.writequeue)
  BY <1>3, <1>4, <1>5, OpeningLinked
<1>7. Together(agreed, c, s, <<>>, <<>>, cli)
  <2>1. <<>> \o c.writequeue = c.writequeue /\ <<>> \o s.writequeue = s.writequeue
    BY <1>6, Nought
  <2>. QED  BY <1>6, <2>1, Empty DEF Together
<1>8. Coupled
  BY <1>2, <1>5, <1>6, <1>7 DEF Coupled, Coupling
<1>. QED  BY <1>8, InitKept DEF KInv
---------------------------------------------------------------------------

LEMMA StepCouples ==
    ASSUME KInv, [Next]_vars
    PROVE  KInv'
<1>1. IInv'
  BY StepKept DEF KInv, Kept
<1>2. CASE UNCHANGED vars
  BY <1>2 DEF vars, KInv, Coupled, IInv
<1>3. ASSUME NEW e \in End, RecvPacket(e)
      PROVE  Coupled'
  BY <1>3, KexinitCouples, NewkeysCouples, KexdhInitCouples, KexdhReplyCouples,
     ServiceRequestCouples, ServiceAcceptCouples, UserauthRequestCouples,
     UserauthFailureCouples, UserauthSuccessCouples, UserauthPkOkCouples,
     ConnectionRequestCouples, ConnectionReplyCouples DEF RecvPacket
<1>4. ASSUME NEW e \in End, LoopStep(e)
      PROVE  Coupled'
  BY <1>4, TimeoutsCouple, NoPacketCouples, ChannelIOCouples, ServerLoopCouples,
     ClientLoopCouples DEF LoopStep
<1>5. ASSUME NEW e \in End, RemoteClosed(e)
      PROVE  Coupled'
  BY <1>5, RemoteClosedCouples
<1>. QED  BY <1>1, <1>2, <1>3, <1>4, <1>5 DEF Next, KInv

LEMMA InvariantCouples == Spec => []KInv
<1>1. KInv /\ [Next]_vars => KInv'
  BY StepCouples
<1>2. Init => KInv
  BY InitCoupled
<1>. QED  BY <1>1, <1>2, PTL DEF Spec

LEMMA CoupledAccepts ==
    ASSUME KInv, NEW e \in End, net[e] # <<>>
    PROVE  Accepts(ses[e], Head(net[e]))
BY CoupledNow, HeadsAccepted, Ends

(* KeysHold: the packet that is next was sealed with the keys that its      *)
(* reader has by then: switch_keys() at the two ends keeps step with the    *)
(* NEWKEYS packets on the wires between them.                               *)
THEOREM KeysHold == Spec => []KeysAgree
<1>1. KInv => KeysAgree
  BY CoupledAccepts DEF KeysAgree, Accepts
<1>. QED  BY <1>1, InvariantCouples, PTL

(* CompressionHolds: nor do the two ends ever differ on whether it is       *)
(* deflated.                                                                *)
THEOREM CompressionHolds == Spec => []CompressionAgrees
<1>1. KInv => CompressionAgrees
  BY CoupledAccepts DEF CompressionAgrees, Accepts
<1>. QED  BY <1>1, InvariantCouples, PTL

(* NoProtocolExitHolds: process_packet() and the handlers find no fault     *)
(* with what the other end sends: no dropbear_exit() of theirs is reached.  *)
THEOREM NoProtocolExitHolds == Spec => []NoProtocolExit
<1>1. KInv => NoProtocolExit
  <2>. SUFFICES ASSUME KInv
                PROVE  NoProtocolExit
    OBVIOUS
  <2>1. ses["C"].exited \in Fine /\ ses["S"].exited \in Fine
    BY CoupledNow, TogetherFacts
  <2>. QED  BY <2>1, Ends DEF NoProtocolExit, Fine
<1>. QED  BY <1>1, InvariantCouples, PTL

\* In an exchange a packet of it is under way, unless the server has ignored
\* the client's wrong guess and the client has yet to send the right value.
LEMMA TalkGoesOn ==
    ASSUME NEW g, NEW c, NEW s, NEW ka, NEW kb, Talk(g, c, s, ka, kb),
           c.sentkexinit \/ s.sentkexinit, ka = <<>>, kb = <<>>
    PROVE  Met(g, "C", c) /\ c.kex_state = "KEX_NOTHING"
<1>1. /\ \A p : <<p>> # <<>>
      /\ \A p, q : <<p, q>> # <<>>
      /\ \A p, q, r : <<p, q, r>> # <<>>
  OBVIOUS
<1>2. ~Resting(c, s, ka, kb)
  BY DEF Resting, Idle
<1>3. BothMet(g, c, s, ka, kb)
  <2>1. ~ClientOpens(c, s, ka, kb) /\ ~ServerOpens(c, s, ka, kb) /\ ~BothOpen(c, s, ka, kb)
    BY <1>1 DEF ClientOpens, ServerOpens, BothOpen
  <2>2. ~ServerMet(g, c, s, ka, kb) /\ ~ClientMet(g, c, s, ka, kb)
    BY <1>1 DEF ServerMet, ClientMet
  <2>3. ~ServerAhead(g, c, s, ka, kb) /\ ~Replied(g, c, s, ka, kb)
    BY <1>1 DEF ServerAhead, Replied
  <2>4. /\ ~BothSwitched(c, s, ka, kb)
        /\ ~ClientDone(c, s, ka, kb) /\ ~ServerDone(c, s, ka, kb)
    BY <1>1 DEF BothSwitched, ClientDone, ServerDone
  <2>5. ~ClientReopens(c, s, ka, kb) /\ ~ServerReopens(c, s, ka, kb)
    BY <1>1 DEF ClientReopens, ServerReopens
  <2>. QED  BY <1>2, <2>1, <2>2, <2>3, <2>4, <2>5 DEF Talk
<1>4. Met(g, "C", c) /\ ~Unread(g, s) /\ ~Again(g, c)
  BY <1>1, <1>3 DEF BothMet
<1>. QED  BY <1>4 DEF Unread, Again

\* A word that says something is a packet of its types on the wire.
LEMMA WordSpoken ==
    ASSUME NEW T, NEW w, NEW ks, IsSeq(w), IsSeq(ks), Word(T, w, ks), ks # <<>>
    PROVE  \E i \in 1..Len(w) : w[i].t \in T
<1>1. 1 \in 1..Len(ks)
  <2>1. PICK n : n = Len(ks) /\ n \in Nat
    BY Length
  <2>2. n > 0
    BY <2>1, Rest
  <2>. QED  BY <2>1, <2>2
<1>2. ks[1].t \in T /\ Has(w, ks[1].t)
  BY <1>1, WordMembers
<1>. QED  BY <1>2 DEF Has

(* ExchangeGoesOn: requirenext, ignorenext and kex_state never leave the    *)
(* two ends waiting for each other, and replies are held back by nothing    *)
(* but an exchange.                                                         *)
THEOREM ExchangeGoesOn == Spec => []NeverStandsStill
<1>1. KInv => NeverStandsStill
  <2>. SUFFICES ASSUME KInv, NEW e \in End,
                       ses[e].sentkexinit \/ (Running(e) /\ ses[e].replyq # <<>>)
                PROVE  UnderWay(KexType) \/ ValueIsDue
    BY DEF NeverStandsStill
  <2>1. ses[e].sentkexinit
    <3>1. Flushed(ses[e]) /\ Exchanging(ses[e])
      BY DEF KInv, IInv, Steady
    <3>2. ses[e].sentkexinit \in BOOLEAN
      BY <3>1 DEF Exchanging
    <3>3. Running(e) /\ ses[e].replyq # <<>> => ses[e].sentkexinit
      BY <3>1 DEF Flushed, Exchanging, Running
    <3>. QED  BY <3>3
  <2>2. PICK c, s, a, b :
          /\ c = ses["C"] /\ s = ses["S"]
          /\ a = net["S"] \o c.writequeue /\ b = net["C"] \o s.writequeue
    OBVIOUS
  <2>3. Linked(agreed, c, s, a, b, cli) /\ Turn(agreed, c, pc["C"])
    BY <2>2, CoupledNow DEF Together
  <2>4. PICK ka, kb, ua, ub : Joined(agreed, c, s, a, b, cli, ka, kb, ua, ub)
    BY <2>3 DEF Linked
  <2>5. IsSeq(a) /\ IsSeq(b) /\ IsSeq(ka) /\ IsSeq(kb)
    BY <2>4, JoinedFacts DEF Joined, Talking
  <2>6. /\ Talk(agreed, c, s, ka, kb)
        /\ Word(KexType, a, ka) /\ Word(KexType, b, kb)
    BY <2>4 DEF Joined, Line
  <2>7. c.sentkexinit \/ s.sentkexinit
    BY <2>1, <2>2, Ends
  <2>8. a = Wire("C") /\ b = Wire("S")
    BY <2>2, Ends DEF Wire
  <2>9. ka # <<>> => UnderWay(KexType)
    BY <2>5, <2>6, <2>8, WordSpoken, Ends DEF UnderWay
  <2>10. kb # <<>> => UnderWay(KexType)
    BY <2>5, <2>6, <2>8, WordSpoken, Ends DEF UnderWay
  <2>11. CASE ka = <<>> /\ kb = <<>>
    <3>1. Met(agreed, "C", c) /\ c.kex_state = "KEX_NOTHING"
      BY <2>6, <2>7, <2>11, TalkGoesOn
    <3>2. c.lastpacket = "KEXINIT" /\ pc["C"] \in {"io", "handler"}
      BY <2>3, <3>1 DEF Turn
    <3>. QED  BY <2>2, <3>1, <3>2 DEF ValueIsDue, StartsKexdh
  <2>. QED  BY <2>9, <2>10, <2>11
<1>. QED  BY <1>1, InvariantCouples, PTL

---------------------------------------------------------------------------
(* The values of an exchange *)

\* The keys an end has put in place are fresh.
Renewed(s, y) ==
    \A d \in {"trans", "recv"} :
      y.keys[d] # s.keys[d] => Fresher(y.keys[d], s.keys[d])
Drawn(c, s) == c.drawn \in Nat /\ s.drawn \in Nat

---------------------------------------------------------------------------
(* What each step of an exchange does to them *)

\* Nothing that they depend on changes.
Still(s, x) ==
    /\ x.drawn = s.drawn /\ x.keys = s.keys /\ x.transkexinit = s.transkexinit
    /\ x.kexhash = s.kexhash /\ x.param = s.param
    /\ x.sentkexinit = s.sentkexinit /\ x.recvkexinit = s.recvkexinit
    /\ x.sentnewkeys = s.sentnewkeys

LEMMA StillValues ==
    ASSUME NEW c, NEW s, NEW x, NEW y, Values(c, s), Still(c, x), Still(s, y)
    PROVE  Values(x, y)
<1>1. /\ ClientCookie(x) = ClientCookie(c) /\ ServerCookie(y) = ServerCookie(s)
      /\ Engaged(x) = Engaged(c) /\ Engaged(y) = Engaged(s)
      /\ Paired(x, y) = Paired(c, s)
  BY DEF Still, ClientCookie, ServerCookie, Engaged, Paired
<1>2. \A k : /\ Known(k, x, y) = Known(k, c, s)
             /\ BehindClient(k, x) = BehindClient(k, c)
             /\ BehindServer(k, y) = BehindServer(k, s)
  BY <1>1 DEF Still, Known, BehindClient, BehindServer
<1>. QED  BY <1>1, <1>2 DEF Values, Still

LEMMA StillRenewed ==
    ASSUME NEW s, NEW x, NEW y, Still(x, y)
    PROVE  /\ Renewed(s, x) => Renewed(s, y)
           /\ Still(s, x) => Still(s, y)
           /\ Renewed(x, y)
BY DEF Still, Renewed

\* An end begins an exchange: its values are new.
Draws(e, s, x) ==
    /\ x.keys = s.keys /\ x.transkexinit = s.drawn + 1
    /\ x.sentkexinit = TRUE /\ x.recvkexinit = FALSE /\ x.sentnewkeys = FALSE
    /\ e = "C" => x.param.x = s.drawn + 2 /\ x.drawn = s.drawn + 2
    /\ e = "S" => x.drawn = s.drawn + 1

LEMMA ClientBeginsValues ==
    ASSUME NEW c, NEW s, NEW x, Values(c, s), Drawn(c, s),
           c.sentnewkeys = FALSE, Draws("C", c, x)
    PROVE  Values(x, s)
<1>1. /\ Engaged(x) /\ ClientCookie(x) = c.drawn + 1 /\ x.drawn = c.drawn + 2
      /\ x.param.x = c.drawn + 2 /\ x.keys = c.keys /\ x.sentnewkeys = FALSE
      /\ Paired(x, s) = Paired(c, s)
  BY DEF Draws, Engaged, ClientCookie, Paired
<1>2. \A k : Known(k, c, s) => Known(k, x, s) /\ BehindClient(k, x)
  BY <1>1 DEF Known, BehindClient, Drawn, Secrets
<1>3. /\ ClientCookie(x) \in Nat /\ ClientCookie(x) <= x.drawn
      /\ x.param.x \in Nat /\ x.param.x <= x.drawn
  BY <1>1 DEF Drawn
<1>. QED  BY <1>1, <1>2, <1>3 DEF Values

LEMMA ServerBeginsValues ==
    ASSUME NEW c, NEW s, NEW x, Values(c, s), Drawn(c, s),
           s.sentnewkeys = FALSE, Draws("S", s, x)
    PROVE  Values(c, x)
<1>1. /\ Engaged(x) /\ ServerCookie(x) = s.drawn + 1 /\ x.drawn = s.drawn + 1
      /\ x.keys = s.keys /\ x.sentnewkeys = FALSE
      /\ Paired(c, x) = Paired(c, s)
  BY DEF Draws, Engaged, ServerCookie, Paired
<1>2. \A k : Known(k, c, s) => Known(k, c, x) /\ BehindServer(k, x)
  BY <1>1 DEF Known, BehindServer, Drawn, Secrets
<1>3. ServerCookie(x) \in Nat /\ ServerCookie(x) <= x.drawn
  BY <1>1 DEF Drawn
<1>. QED  BY <1>1, <1>2, <1>3 DEF Values

\* It has read the peer's KEXINIT: its own cookie is in the hash.
Meets(e, s, x) ==
    /\ x.keys = s.keys /\ x.drawn = s.drawn /\ x.param = s.param
    /\ s.sentkexinit = TRUE /\ s.sentnewkeys = FALSE /\ s.recvkexinit = FALSE
    /\ x.sentkexinit = TRUE /\ x.sentnewkeys = FALSE /\ x.recvkexinit = TRUE
    /\ e = "C" => x.kexhash.c = s.transkexinit
    /\ e = "S" => x.kexhash.s = s.transkexinit

LEMMA MeetsValues ==
    ASSUME NEW c, NEW s, NEW x, Values(c, s)
    PROVE  /\ Meets("C", c, x) => Values(x, s)
           /\ Meets("S", s, x) => Values(c, x)
<1>1. ASSUME Meets("C", c, x)
      PROVE  Values(x, s)
  <2>1. /\ ClientCookie(x) = ClientCookie(c) /\ Engaged(x) = Engaged(c)
        /\ Paired(x, s) = Paired(c, s) /\ x.sentnewkeys = c.sentnewkeys
        /\ x.keys = c.keys /\ x.drawn = c.drawn /\ x.param = c.param
    BY <1>1 DEF Meets, ClientCookie, Engaged, Paired
  <2>2. \A k : /\ Known(k, x, s) = Known(k, c, s)
               /\ BehindClient(k, x) = BehindClient(k, c)
    BY <2>1 DEF Known, BehindClient
  <2>. QED  BY <2>1, <2>2 DEF Values
<1>2. ASSUME Meets("S", s, x)
      PROVE  Values(c, x)
  <2>1. /\ ServerCookie(x) = ServerCookie(s) /\ Engaged(x) = Engaged(s)
        /\ Paired(c, x) = Paired(c, s) /\ x.sentnewkeys = s.sentnewkeys
        /\ x.keys = s.keys /\ x.drawn = s.drawn
    BY <1>2 DEF Meets, ServerCookie, Engaged, Paired
  <2>2. \A k : /\ Known(k, c, x) = Known(k, c, s)
               /\ BehindServer(k, x) = BehindServer(k, s)
    BY <2>1 DEF Known, BehindServer
  <2>. QED  BY <2>1, <2>2 DEF Values
<1>. QED  BY <1>1, <1>2

\* The client sends its value behind the server's KEXINIT: the one it has
\* guessed with, or a new one.
Restarts(c, x) ==
    /\ x.keys = c.keys /\ x.kexhash = c.kexhash
    /\ c.sentkexinit = TRUE /\ c.sentnewkeys = FALSE /\ c.recvkexinit = TRUE
    /\ x.sentkexinit = TRUE /\ x.sentnewkeys = FALSE /\ x.recvkexinit = TRUE
    /\ \/ x.drawn = c.drawn /\ x.param.x = c.param.x
       \/ x.drawn = c.drawn + 1 /\ x.param.x = c.drawn + 1

LEMMA RestartsValues ==
    ASSUME NEW c, NEW s, NEW x, Values(c, s), Drawn(c, s), Restarts(c, x)
    PROVE  Values(x, s)
<1>1. /\ ClientCookie(x) = ClientCookie(c) /\ Engaged(x) /\ Engaged(c)
      /\ Paired(x, s) = Paired(c, s) /\ x.sentnewkeys = c.sentnewkeys
      /\ x.keys = c.keys /\ c.sentnewkeys = FALSE
      /\ \/ x.drawn = c.drawn /\ x.param.x = c.param.x
         \/ x.drawn = c.drawn + 1 /\ x.param.x = c.drawn + 1
  BY DEF Restarts, ClientCookie, Engaged, Paired
<1>2. /\ ClientCookie(c) \in Nat /\ ClientCookie(c) <= c.drawn
      /\ c.param.x \in Nat /\ c.param.x <= c.drawn
  BY <1>1 DEF Values
<1>3. /\ ClientCookie(x) \in Nat /\ ClientCookie(x) <= x.drawn
      /\ x.param.x \in Nat /\ x.param.x <= x.drawn
  BY <1>1, <1>2 DEF Drawn
<1>4. \A k : Known(k, c, s) =>
         Known(k, x, s) /\ (BehindClient(k, c) => BehindClient(k, x))
  BY <1>1, <1>2 DEF Known, BehindClient, Drawn, Secrets
<1>. QED  BY <1>1, <1>3, <1>4 DEF Values

\* The server answers: its secret has a value it has just drawn.
Replies(s, x) ==
    /\ s.sentkexinit = TRUE /\ s.recvkexinit = TRUE /\ s.sentnewkeys = FALSE
    /\ x.sentnewkeys = TRUE /\ x.drawn = s.drawn + 1
    /\ x.keys.recv = s.keys.recv /\ x.keys.trans \in Secrets
    /\ x.keys.trans.s = s.kexhash.s /\ x.keys.trans.y = s.drawn + 1

\* The client's part of the secret is what the client has sent last.
LEMMA ServerRepliesFor ==
    ASSUME NEW g, NEW c, NEW s, NEW x, NEW ka, NEW kb, NEW la, NEW lb,
           Values(c, s), Drawn(c, s), Replies(s, x),
           Met(g, "S", s), Talk(g, c, s, ka, kb),
           Switched("S", x), Talk(g, c, x, la, lb)
    PROVE  /\ Engaged(c) /\ c.sentnewkeys = FALSE
           /\ x.keys.trans.c = ClientCookie(c) /\ x.keys.trans.x = c.param.x
<1>1. ServerMet(g, c, s, ka, kb) \/ BothMet(g, c, s, ka, kb)
  BY Distinct DEF Talk, Resting, ClientOpens, ServerOpens, BothOpen, ServerMet,
                  ClientMet, BothMet, ServerAhead, Replied, BothSwitched,
                  ClientDone, ServerDone, ClientReopens, ServerReopens
<1>2. Begun("C", c) \/ Met(g, "C", c)
  BY <1>1 DEF ServerMet, BothMet
<1>3. c.sentkexinit = TRUE /\ c.sentnewkeys = FALSE
  BY <1>2, Distinct
<1>4. \/ ServerAhead(g, c, x, la, lb) \/ Replied(g, c, x, la, lb)
      \/ ClientReopens(c, x, la, lb)
  BY <1>3, Distinct DEF Talk, Resting, ClientOpens, ServerOpens, BothOpen, ServerMet,
                  ClientMet, BothMet, ServerAhead, Replied, BothSwitched,
                  ClientDone, ServerDone, ClientReopens, ServerReopens
<1>5. ~Paired(c, x)
  <2>1. Known(c.keys.trans, c, s)
    BY DEF Values
  <2>2. c.keys.trans = NoKeys \/ c.keys.trans.y <= s.drawn
    BY <2>1 DEF Known
  <2>. QED  BY <2>2, SecretKeys DEF Paired, Replies, Drawn
<1>6. CASE ServerAhead(g, c, x, la, lb)
  BY <1>3, <1>6, Distinct DEF ServerAhead, ClientCookie, Engaged
<1>7. CASE Replied(g, c, x, la, lb)
  BY <1>3, <1>7, Distinct DEF Replied, ClientCookie, Engaged
<1>. QED  BY <1>4, <1>5, <1>6, <1>7 DEF ClientReopens

LEMMA RepliesValues ==
    ASSUME NEW c, NEW s, NEW x, Values(c, s), Drawn(c, s), Replies(s, x),
           Engaged(c), c.sentnewkeys = FALSE,
           x.keys.trans.c = ClientCookie(c), x.keys.trans.x = c.param.x
    PROVE  Values(c, x) /\ Renewed(s, x)
<1>. DEFINE k == x.keys.trans
<1>1. /\ Engaged(s) /\ ServerCookie(s) = s.kexhash.s /\ ~Engaged(x)
      /\ x.drawn = s.drawn + 1 /\ x.keys.recv = s.keys.recv /\ s.sentnewkeys = FALSE
      /\ x.sentnewkeys = TRUE
      /\ k \in Secrets /\ k.s = ServerCookie(s) /\ k.y = s.drawn + 1
      /\ k.c = ClientCookie(c) /\ k.x = c.param.x
  BY DEF Replies, Engaged, ServerCookie
<1>. HIDE DEF k
<1>2. /\ ClientCookie(c) \in Nat /\ ClientCookie(c) <= c.drawn
      /\ c.param.x \in Nat /\ c.param.x <= c.drawn
      /\ ServerCookie(s) \in Nat /\ ServerCookie(s) <= s.drawn
  BY <1>1 DEF Values
<1>3. \A h : Known(h, c, s) => Known(h, c, x)
  BY <1>1 DEF Known, Drawn, Secrets
<1>4. Known(k, c, x)
  BY <1>1, <1>2 DEF Known, Drawn
<1>5. \A h : Known(h, c, s) /\ BehindClient(h, c) /\ BehindServer(h, s)
             => Fresher(k, h)
  BY <1>1, <1>2 DEF Known, Drawn, Secrets, BehindClient, BehindServer, Fresher
<1>6. \A h \in {c.keys.trans, c.keys.recv, s.keys.trans, s.keys.recv} :
         Known(h, c, s) /\ BehindClient(h, c) /\ BehindServer(h, s)
  BY <1>1 DEF Values
<1>7. \A h \in {c.keys.trans, c.keys.recv, s.keys.trans, s.keys.recv} : Fresher(k, h)
  BY <1>5, <1>6
<1>8. Values(c, x)
  BY <1>1, <1>2, <1>3, <1>4, <1>6, <1>7 DEF Values, k
<1>9. Renewed(s, x)
  BY <1>1, <1>7 DEF Renewed, k
<1>. QED  BY <1>8, <1>9

\* The client takes the server's value: the two have the same keys.
Takes(c, x) ==
    /\ c.sentkexinit = TRUE /\ c.recvkexinit = TRUE /\ c.sentnewkeys = FALSE
    /\ x.sentnewkeys = TRUE /\ x.drawn = c.drawn
    /\ x.keys.recv = c.keys.recv /\ x.keys.trans \in Secrets
    /\ x.keys.trans.c = c.kexhash.c

LEMMA TakesValues ==
    ASSUME NEW g, NEW c, NEW s, NEW x, NEW ka, NEW kb, Values(c, s),
           Takes(c, x), Switched("C", x), Talk(g, x, s, ka, kb)
    PROVE  Values(x, s) /\ Renewed(c, x)
<1>1. Paired(x, s) /\ (Switched("S", s) \/ Idle("S", s) \/ Begun("S", s))
  BY Distinct DEF Talk, Resting, ClientOpens, ServerOpens, BothOpen, ServerMet,
                  ClientMet, BothMet, ServerAhead, Replied, BothSwitched,
                  ClientDone, ServerDone, ClientReopens, ServerReopens
<1>2. /\ Engaged(c) /\ ClientCookie(c) = c.kexhash.c /\ ~Engaged(x)
      /\ s.keys.trans = x.keys.trans /\ s.keys.trans # NoKeys
      /\ s.keys.trans.c = ClientCookie(c) /\ ClientCookie(c) \in Nat
  BY <1>1, SecretKeys DEF Takes, Engaged, ClientCookie, Paired, Values
<1>3. ~BehindClient(s.keys.trans, c)
  BY <1>2 DEF BehindClient
<1>4. s.sentnewkeys = TRUE
  <2>1. ~(~s.sentnewkeys)
    BY <1>2, <1>3 DEF Values
  <2>. QED  BY <1>1, <2>1, Distinct
<1>5. ~Paired(c, s)
  <2>1. BehindClient(c.keys.trans, c)
    BY <1>2 DEF Values
  <2>. QED  BY <2>1, <1>3 DEF Paired
<1>6. Fresher(s.keys.trans, c.keys.trans) /\ Fresher(s.keys.trans, c.keys.recv)
  BY <1>4, <1>5 DEF Values
<1>7. \A h : Known(h, c, s) => Known(h, x, s)
  BY DEF Known, Takes
<1>8. ~Engaged(s)
  BY <1>4 DEF Engaged
<1>9. Values(x, s)
  BY <1>1, <1>2, <1>4, <1>6, <1>7, <1>8 DEF Values, Takes
<1>10. Renewed(c, x)
  BY <1>2, <1>6 DEF Renewed, Takes
<1>. QED  BY <1>9, <1>10

\* An end reads the peer's NEWKEYS behind its own.
Finishes(s, x) ==
    /\ s.sentnewkeys = TRUE /\ x.sentnewkeys = FALSE /\ x.sentkexinit = FALSE
    /\ x.drawn = s.drawn
    /\ x.keys.trans = s.keys.trans /\ x.keys.recv = s.keys.trans

LEMMA FinishesValues ==
    ASSUME NEW c, NEW s, NEW x, Values(c, s), Paired(c, s)
    PROVE  /\ Finishes(c, x) => Values(x, s) /\ Renewed(c, x)
           /\ Finishes(s, x) => Values(c, x) /\ Renewed(s, x)
<1>1. ASSUME Finishes(c, x)
      PROVE  Values(x, s) /\ Renewed(c, x)
  <2>1. \A h : Known(h, c, s) => Known(h, x, s)
    BY <1>1 DEF Known, Finishes
  <2>2. ~Engaged(x) /\ Paired(x, s) /\ x.sentnewkeys = FALSE
        /\ x.keys.trans = s.keys.trans /\ x.keys.recv = s.keys.trans
        /\ c.keys.trans = s.keys.trans /\ c.sentnewkeys = TRUE
    BY <1>1 DEF Engaged, Finishes, Paired
  <2>3. Values(x, s)
    BY <2>1, <2>2 DEF Values
  <2>4. Fresher(c.keys.trans, c.keys.recv)
    BY <2>2 DEF Values
  <2>. QED  BY <1>1, <2>2, <2>3, <2>4 DEF Renewed, Finishes
<1>2. ASSUME Finishes(s, x)
      PROVE  Values(c, x) /\ Renewed(s, x)
  <2>1. \A h : Known(h, c, s) => Known(h, c, x)
    BY <1>2 DEF Known, Finishes
  <2>2. ~Engaged(x) /\ Paired(c, x) /\ x.sentnewkeys = FALSE
        /\ x.keys.trans = c.keys.trans /\ x.keys.recv = c.keys.trans
        /\ c.keys.trans = s.keys.trans /\ s.sentnewkeys = TRUE
    BY <1>2 DEF Engaged, Finishes, Paired
  <2>3. Values(c, x)
    BY <2>1, <2>2 DEF Values
  <2>4. Fresher(s.keys.trans, s.keys.recv)
    BY <2>2 DEF Values
  <2>. QED  BY <1>2, <2>2, <2>3, <2>4 DEF Renewed, Finishes
<1>. QED  BY <1>1, <1>2

---------------------------------------------------------------------------
(* Which of these the operators of Transport are *)

\* The client, or the server, becomes x.
ClientFresh(c, s, x) == Values(x, s) /\ Renewed(c, x)
ServerFresh(c, s, x) == Values(c, x) /\ Renewed(s, x)

LEMMA FreshStill ==
    ASSUME NEW c, NEW s, NEW x, NEW y, Still(x, y)
    PROVE  /\ ClientFresh(c, s, x) => ClientFresh(c, s, y)
           /\ ServerFresh(c, s, x) => ServerFresh(c, s, y)
<1>1. Still(c, c) /\ Still(s, s)
  BY DEF Still
<1>. QED  BY <1>1, StillValues, StillRenewed DEF ClientFresh, ServerFresh

LEMMA StillFresh ==
    ASSUME NEW c, NEW s, NEW x, Values(c, s)
    PROVE  /\ Still(c, x) => ClientFresh(c, s, x)
           /\ Still(s, x) => ServerFresh(c, s, x)
<1>1. Still(c, c) /\ Still(s, s)
  BY DEF Still
<1>. QED  BY <1>1, StillValues, StillRenewed DEF ClientFresh, ServerFresh

LEMMA AlikeStill ==
    ASSUME NEW s, NEW x, Alike(s, x)
    PROVE  Still(s, x)
BY AlikeFields DEF Still

\* The fields that may change besides.
Calm == {"recvnewkeys", "donefirstkex", "our_first_follows_matches",
         "dataallowed", "ignorenext", "requirenext", "lastpacket", "newkeys",
         "authdone", "kex_state"} \cup Loose

LEMMA ButStill ==
    ASSUME NEW s, NEW x, NEW F \in SUBSET Calm, But(s, x, F)
    PROVE  Still(s, x)
BY DEF But, Names, Calm, Loose, Still

LEMMA KexdhInitDraws ==
    ASSUME NEW s, DOMAIN s = Names, s.drawn \in Nat
    PROVE  LET x == SendKexdhInit(s)
           IN  /\ But(s, x, Queues \cup {"drawn", "param"})
               /\ \/ /\ x.drawn = s.drawn + 1 /\ x.param.x = s.drawn + 1
                  \/ /\ s.param # NoParam
                     /\ x.drawn = s.drawn /\ x.param.x = s.param.x
<1>. DEFINE fresh == s.param = NoParam \/ s.param.algo # s.newkeys.algo
            c == IF fresh THEN s.drawn + 1 ELSE s.param.x
            d == IF fresh THEN s.drawn + 1 ELSE s.drawn
            m == [algo |-> s.newkeys.algo, x |-> c]
            s1 == [s EXCEPT !.drawn = IF fresh THEN @ + 1 ELSE @,
                            !.param = [algo |-> s.newkeys.algo, x |-> c]]
            x == SendKexdhInit(s)
<1>1. x = EncryptPacket(s1, "KEXDH_INIT", m)
  BY DEF SendKexdhInit
<1>2. But(s, s1, {"drawn", "param"}) /\ s1.drawn = d /\ s1.param = m
  BY DEF But, Names
<1>3. \/ d = s.drawn + 1 /\ m.x = s.drawn + 1
      \/ s.param # NoParam /\ d = s.drawn /\ m.x = s.param.x
  OBVIOUS
<1>. HIDE DEF s1, m, c, d, x, fresh
<1>4. But(s1, x, Queues)
  BY <1>1, <1>2, EncryptForm DEF But
<1>5. x.drawn = d /\ x.param = m /\ But(s, x, Queues \cup {"drawn", "param"})
  BY <1>2, <1>4 DEF But, Names, Queues
<1>. QED  BY <1>3, <1>5 DEF x

LEMMA KexinitBegins ==
    ASSUME NEW e \in End, NEW s, Idle(e, s)
    PROVE  Draws(e, s, SendKexinit(e, s)) /\ DOMAIN SendKexinit(e, s) = Names
<1>. DEFINE c == s.drawn + 1
            s0 == [s EXCEPT !.drawn = c]
            b == [cookie |-> c, first_follows |-> e = "C"]
            s1 == EncryptPacket(s0, "KEXINIT", b)
            s2 == [s1 EXCEPT !.transkexinit = c, !.dataallowed = FALSE,
                             !.sentkexinit = TRUE,
                             !.newkeys = NewContext("first")]
            x == SendKexinit(e, s)
<1>1. x = IF e = "C" THEN SendKexdhInit(s2) ELSE s2
  BY DEF SendKexinit
<1>2. /\ DOMAIN s = Names /\ s.drawn \in Nat /\ s.recvkexinit = FALSE
      /\ s.sentnewkeys = FALSE /\ (e = "C" => s.param = NoParam)
  BY DEF Idle, Formed
<1>3. But(s, s0, {"drawn"}) /\ s0.drawn = c
  BY <1>2 DEF But, Names
<1>. HIDE DEF b, s0, x, c
<1>4. But(s0, s1, Queues)
  BY <1>3, EncryptForm DEF But
<1>. HIDE DEF s1
<1>5. /\ DOMAIN s2 = Names /\ s2.keys = s.keys /\ s2.transkexinit = c
      /\ s2.sentkexinit = TRUE /\ s2.recvkexinit = FALSE /\ s2.sentnewkeys = FALSE
      /\ s2.drawn = c /\ s2.param = s.param
  BY <1>2, <1>3, <1>4 DEF But, Names, Queues
<1>. HIDE DEF s2
<1>6. CASE e = "S"
  BY <1>1, <1>5, <1>6 DEF Draws, x, c
<1>7. CASE e = "C"
  <2>1. x = SendKexdhInit(s2) /\ s2.param = NoParam /\ s2.drawn \in Nat
    BY <1>1, <1>2, <1>5, <1>7 DEF c
  <2>2. /\ But(s2, x, Queues \cup {"drawn", "param"})
        /\ x.drawn = c + 1 /\ x.param.x = c + 1
    BY <2>1, <1>5, KexdhInitDraws
  <2>3. /\ DOMAIN x = Names /\ x.keys = s.keys /\ x.transkexinit = c
        /\ x.sentkexinit = TRUE /\ x.recvkexinit = FALSE /\ x.sentnewkeys = FALSE
    BY <1>5, <2>2 DEF But, Names, Queues
  <2>4. c + 1 = s.drawn + 2
    BY <1>2 DEF c
  <2>. QED  BY <2>2, <2>3, <2>4, <1>7 DEF Draws, x, c
<1>. QED  BY <1>6, <1>7 DEF End

LEMMA KexinitMeets ==
    ASSUME NEW e \in End, NEW g, NEW b, NEW s, DOMAIN s = Names,
           s.sentkexinit = TRUE, s.recvkexinit = FALSE, s.sentnewkeys = FALSE
    PROVE  Meets(e, s, RecvKexinit(e, s, b, g))
<1>. DEFINE s2 == ReadKexAlgos(e, s, b, g)
            h == IF e = "C" THEN [c |-> s.transkexinit, s |-> b.cookie]
                 ELSE [c |-> b.cookie, s |-> s.transkexinit]
            q == IF e = "C" THEN "KEXDH_REPLY" ELSE "KEXDH_INIT"
            x == [s2 EXCEPT !.kexhash = h, !.requirenext = q,
                            !.transkexinit = 0, !.recvkexinit = TRUE]
<1>1. RecvKexinit(e, s, b, g) = x
  BY DEF RecvKexinit
<1>2. But(s, s2, {"newkeys", "ignorenext", "our_first_follows_matches"})
  BY DEF ReadKexAlgos, But, Names
<1>3. (e = "C" => h.c = s.transkexinit) /\ (e = "S" => h.s = s.transkexinit)
  OBVIOUS
<1>. HIDE DEF s2, h, q
<1>4. /\ x.kexhash = h /\ x.recvkexinit = TRUE /\ x.keys = s.keys
      /\ x.drawn = s.drawn /\ x.param = s.param
      /\ x.sentkexinit = TRUE /\ x.sentnewkeys = FALSE
  BY <1>2 DEF But, Names
<1>. HIDE DEF x
<1>. QED  BY <1>1, <1>3, <1>4 DEF Meets

\* It has sent its KEXINIT and waits for the peer's.
Poised(z) ==
    /\ DOMAIN z = Names /\ z.sentkexinit = TRUE /\ z.recvkexinit = FALSE
    /\ z.sentnewkeys = FALSE

\* recv_msg_kexinit()
LEMMA KexinitFresh ==
    ASSUME NEW e \in End, NEW c, NEW s, NEW z, NEW b, NEW g,
           Values(c, s), Drawn(c, s)
    PROVE  /\ Idle(e, z) \/ Poised(z) => DOMAIN z = Names
           /\ e = "C" /\ Still(c, z) /\ (Idle(e, z) \/ Poised(z)) =>
                ClientFresh(c, s, RecvKexinit(e, z, b, g))
           /\ e = "S" /\ Still(s, z) /\ (Idle(e, z) \/ Poised(z)) =>
                ServerFresh(c, s, RecvKexinit(e, z, b, g))
<1>1. Idle(e, z) \/ Poised(z) => DOMAIN z = Names
  BY DEF Idle, Poised, Formed
<1>. DEFINE x == RecvKexinit(e, z, b, g)
            w == SendKexinit(e, z)
<1>2. Poised(z) => Meets(e, z, x)
  BY KexinitMeets DEF x, Poised
<1>3. Idle(e, z) => /\ Draws(e, z, w) /\ Meets(e, w, x) /\ z.sentnewkeys = FALSE
  <2>. SUFFICES ASSUME Idle(e, z)
                PROVE  Draws(e, z, w) /\ Meets(e, w, x) /\ z.sentnewkeys = FALSE
    OBVIOUS
  <2>1. Draws(e, z, w) /\ DOMAIN w = Names
    BY KexinitBegins
  <2>2. z.sentkexinit = FALSE /\ z.sentnewkeys = FALSE
    BY Distinct
  <2>3. w.sentkexinit = TRUE /\ w.recvkexinit = FALSE /\ w.sentnewkeys = FALSE
    BY <2>1 DEF Draws
  <2>4. x = RecvKexinit(e, w, b, g)
    BY <2>2, <2>3 DEF RecvKexinit
  <2>. QED  BY <2>1, <2>2, <2>3, <2>4, KexinitMeets
<1>. HIDE DEF x, w
<1>4. ASSUME e = "C", Still(c, z), Idle(e, z) \/ Poised(z)
      PROVE  ClientFresh(c, s, x)
  <2>1. Still(s, s) /\ z.keys = c.keys /\ z.drawn = c.drawn
    BY <1>4 DEF Still
  <2>2. Values(z, s) /\ Drawn(z, s)
    BY <1>4, <2>1, StillValues DEF Drawn
  <2>3. CASE Poised(z)
    <3>1. Meets("C", z, x)
      BY <1>2, <1>4, <2>3
    <3>2. Values(x, s)
      BY <2>2, <3>1, MeetsValues
    <3>3. x.keys = c.keys
      BY <2>1, <3>1 DEF Meets
    <3>. QED  BY <3>2, <3>3 DEF ClientFresh, Renewed
  <2>4. CASE Idle(e, z)
    <3>1. Draws("C", z, w) /\ Meets("C", w, x) /\ z.sentnewkeys = FALSE
      BY <1>3, <1>4, <2>4
    <3>2. Values(w, s)
      BY <2>2, <3>1, ClientBeginsValues
    <3>3. Values(x, s)
      BY <3>1, <3>2, MeetsValues
    <3>4. x.keys = c.keys
      BY <2>1, <3>1 DEF Meets, Draws
    <3>. QED  BY <3>3, <3>4 DEF ClientFresh, Renewed
  <2>. QED  BY <1>4, <2>3, <2>4
<1>5. ASSUME e = "S", Still(s, z), Idle(e, z) \/ Poised(z)
      PROVE  ServerFresh(c, s, x)
  <2>1. Still(c, c) /\ z.keys = s.keys /\ z.drawn = s.drawn
    BY <1>5 DEF Still
  <2>2. Values(c, z) /\ Drawn(c, z)
    BY <1>5, <2>1, StillValues DEF Drawn
  <2>3. CASE Poised(z)
    <3>1. Meets("S", z, x)
      BY <1>2, <1>5, <2>3
    <3>2. Values(c, x)
      BY <2>2, <3>1, MeetsValues
    <3>3. x.keys = s.keys
      BY <2>1, <3>1 DEF Meets
    <3>. QED  BY <3>2, <3>3 DEF ServerFresh, Renewed
  <2>4. CASE Idle(e, z)
    <3>1. Draws("S", z, w) /\ Meets("S", w, x) /\ z.sentnewkeys = FALSE
      BY <1>3, <1>5, <2>4
    <3>2. Values(c, w)
      BY <2>2, <3>1, ServerBeginsValues
    <3>3. Values(c, x)
      BY <3>1, <3>2, MeetsValues
    <3>4. x.keys = s.keys
      BY <2>1, <3>1 DEF Meets, Draws
    <3>. QED  BY <3>3, <3>4 DEF ServerFresh, Renewed
  <2>. QED  BY <1>5, <2>3, <2>4
<1>. QED  BY <1>1, <1>4, <1>5 DEF x

\* recv_msg_kexdh_init()
LEMMA ServerRepliesFresh ==
    ASSUME NEW g, NEW c, NEW s, NEW a, NEW b, NEW m, NEW z,
           Linked(g, c, s, a, b, m), Met(g, "S", s), s.ignorenext = FALSE,
           But(s, z, {"requirenext", "lastpacket"}),
           a # <<>>, Head(a).t = "KEXDH_INIT", Values(c, s), Drawn(c, s)
    PROVE  ServerFresh(c, s, RecvKexdhInit(z, Head(a).b))
<1>. DEFINE y == RecvKexdhInit(z, Head(a).b)
<1>. PICK ka, kb, ua, ub : Joined(g, c, s, a, b, m, ka, kb, ua, ub)
  BY DEF Linked
<1>1. "KEXDH_INIT" \in KexType
  BY KexPackets
<1>2. ka # <<>> /\ Head(ka).t = "KEXDH_INIT" /\ Head(ka).b = Head(a).b
      /\ Talk(g, c, s, ka, kb)
  BY <1>1, HeadSays DEF Joined
<1>3. ServerMet(g, c, s, ka, kb) \/ BothMet(g, c, s, ka, kb)
  BY <1>2, TalkHeads
<1>. HIDE DEF y
<1>. PICK lb : lb = Append(Append(kb, KR(y.keys.trans)), KN)
  OBVIOUS
<1>4. PICK v \in Nat : /\ Head(ka) = KD(AgreedAlgo(g), v)
                       /\ Took(g, s, y, v) => Talk(g, c, y, <<>>, lb)
  BY <1>2, <1>3, TalkServerReplies
<1>5. Answered(s, y, v)
  <2>1. Answered(s, RecvKexdhInit(z, KD(AgreedAlgo(g), v).b), v)
    BY KexdhInitAnswered
  <2>2. Head(a).b = KD(AgreedAlgo(g), v).b
    BY <1>2, <1>4
  <2>. QED  BY <2>1, <2>2 DEF y
<1>6. Talk(g, c, y, <<>>, lb) /\ Switched("S", y)
  BY <1>4, <1>5 DEF Answered, Took
<1>7. Replies(s, y)
  <2>1. s.sentkexinit = TRUE /\ s.recvkexinit = TRUE /\ s.sentnewkeys = FALSE
    BY Distinct
  <2>2. y.sentnewkeys = TRUE /\ y.keys.trans \in Secrets
    BY <1>6 DEF Switched
  <2>. QED  BY <2>1, <2>2, <1>5 DEF Answered, Replies
<1>8. /\ Engaged(c) /\ c.sentnewkeys = FALSE
      /\ y.keys.trans.c = ClientCookie(c) /\ y.keys.trans.x = c.param.x
  BY <1>2, <1>6, <1>7, ServerRepliesFor
<1>9. ServerFresh(c, s, y)
  BY <1>7, <1>8, RepliesValues DEF ServerFresh
<1>. QED  BY <1>9 DEF y

\* recv_msg_kexdh_reply()
LEMMA ClientTakesFresh ==
    ASSUME NEW g, NEW c, NEW s, NEW a, NEW b, NEW m, NEW z,
           Linked(g, c, s, a, b, m),
           Met(g, "C", c) => c.kex_state = "KEXDH_INIT_SENT",
           But(c, z, {"requirenext", "lastpacket"}),
           b # <<>>, Head(b).t = "KEXDH_REPLY", Values(c, s)
    PROVE  ClientFresh(c, s, RecvKexdhReply(z, Head(b).b))
<1>. DEFINE y == RecvKexdhReply(z, Head(b).b)
            k == s.keys.trans
<1>. PICK ka, kb, ua, ub : Joined(g, c, s, a, b, m, ka, kb, ua, ub)
  BY DEF Linked
<1>1. "KEXDH_REPLY" \in KexType
  BY KexPackets
<1>2. kb # <<>> /\ Head(kb).t = "KEXDH_REPLY" /\ Head(kb).b = Head(b).b
  BY <1>1, HeadSays
<1>3. Replied(g, c, s, ka, kb)
  BY <1>2, TalkHeads DEF Joined
<1>4. /\ Met(g, "C", c) /\ Switched("S", s)
      /\ k.c = c.kexhash.c /\ k.s = c.kexhash.s
      /\ k.x = c.param.x /\ k \in Secrets
  BY <1>3 DEF Replied, Switched
<1>5. Head(kb) = KR(k) /\ Tail(kb) = <<KN>>
  <2>. PICK p : p = KR(k)
    OBVIOUS
  <2>1. kb = <<p, KN>>
    BY <1>3 DEF Replied
  <2>. QED  BY <2>1, Tails
<1>. HIDE DEF y, k
<1>6. Taken(c, y, k)
  <2>1. Taken(c, RecvKexdhReply(z, KR(k).b), k)
    BY <1>4, KexdhReplyTaken
  <2>2. Head(b).b = KR(k).b
    BY <1>2, <1>5
  <2>. QED  BY <2>1, <2>2 DEF y
<1>7. Talk(g, y, s, <<KN>>, <<KN>>) /\ Switched("C", y)
  <2>1. Paired(y, s)
    BY <1>6 DEF Taken, Paired, k
  <2>2. BothSwitched(y, s, <<KN>>, <<KN>>)
    BY <2>1, <1>4, <1>6 DEF BothSwitched, Taken
  <2>. QED  BY <2>2 DEF Talk, BothSwitched
<1>8. Takes(c, y)
  <2>1. c.sentkexinit = TRUE /\ c.recvkexinit = TRUE /\ c.sentnewkeys = FALSE
    BY <1>4, Distinct
  <2>2. y.sentnewkeys = TRUE /\ y.keys.trans \in Secrets
    BY <1>7 DEF Switched
  <2>3. y.drawn = c.drawn
    BY <1>6 DEF Taken, But, Names, Queues, Ending
  <2>4. y.keys.recv = c.keys.recv /\ y.keys.trans = k
    BY <1>6 DEF Taken
  <2>. QED  BY <2>1, <2>2, <2>3, <2>4, <1>4 DEF Takes
<1>9. ClientFresh(c, s, y)
  BY <1>7, <1>8, TakesValues DEF ClientFresh
<1>. QED  BY <1>9 DEF y

\* recv_msg_newkeys()
LEMMA FinishedFinishes ==
    ASSUME NEW e, NEW s, NEW y, Switched(e, s), Finished(e, s, y)
    PROVE  Finishes(s, y)
<1>1. s.sentnewkeys = TRUE /\ y.sentnewkeys = FALSE /\ y.sentkexinit = FALSE
  BY Distinct DEF Finished
<1>2. y.drawn = s.drawn
  BY DEF Finished, But, Names, Flags
<1>3. y.keys.trans = s.keys.trans /\ y.keys.recv = s.keys.trans
  BY DEF Finished
<1>. QED  BY <1>1, <1>2, <1>3 DEF Finishes

LEMMA ClientEndsFresh ==
    ASSUME NEW g, NEW c, NEW s, NEW a, NEW b, NEW m, NEW z,
           Linked(g, c, s, a, b, m), But(c, z, {"requirenext", "lastpacket"}),
           Switched("C", c) => c.kex_state = "KEX_NOTHING",
           z.requirenext = "none", b # <<>>, Head(b).t = "NEWKEYS", Values(c, s)
    PROVE  ClientFresh(c, s, RecvNewkeys(z))
<1>. DEFINE y == RecvNewkeys(z)
<1>. PICK ka, kb, ua, ub : Joined(g, c, s, a, b, m, ka, kb, ua, ub)
  BY DEF Linked
<1>1. kb # <<>> /\ Head(kb).t = "NEWKEYS"
  BY KexPackets, HeadSays
<1>2. \/ BothSwitched(c, s, ka, kb) \/ ServerDone(c, s, ka, kb)
      \/ ServerReopens(c, s, ka, kb)
  BY <1>1, TalkHeads DEF Joined
<1>. HIDE DEF y
<1>3. Switched("C", c) /\ s.keys.trans = c.keys.trans
  BY <1>2, TalkClientEnds
<1>4. Finished("C", c, y)
  BY <1>3, NewkeysEnd DEF y
<1>5. Finishes(c, y) /\ Paired(c, s)
  BY <1>3, <1>4, FinishedFinishes DEF Paired
<1>. QED  BY <1>5, FinishesValues DEF ClientFresh, y

LEMMA ServerEndsFresh ==
    ASSUME NEW g, NEW c, NEW s, NEW a, NEW b, NEW m, NEW z,
           Linked(g, c, s, a, b, m), But(s, z, {"requirenext", "lastpacket"}),
           z.requirenext = "none", a # <<>>, Head(a).t = "NEWKEYS", Values(c, s)
    PROVE  ServerFresh(c, s, RecvNewkeys(z))
<1>. DEFINE y == RecvNewkeys(z)
<1>. PICK ka, kb, ua, ub : Joined(g, c, s, a, b, m, ka, kb, ua, ub)
  BY DEF Linked
<1>1. ka # <<>> /\ Head(ka).t = "NEWKEYS"
  BY KexPackets, HeadSays
<1>2. \/ BothSwitched(c, s, ka, kb) \/ ClientDone(c, s, ka, kb)
      \/ ClientReopens(c, s, ka, kb)
  BY <1>1, TalkHeads DEF Joined
<1>. HIDE DEF y
<1>3. Switched("S", s) /\ c.keys.trans = s.keys.trans
  BY <1>2, TalkServerEnds
<1>4. Finished("S", s, y)
  BY <1>3, NewkeysEnd DEF y
<1>5. Finishes(s, y) /\ Paired(c, s)
  BY <1>3, <1>4, FinishedFinishes DEF Paired
<1>. QED  BY <1>5, FinishesValues DEF ServerFresh, y

\* cli_sessionloop() when it has read the server's KEXINIT.
LEMMA ClientStartsFresh ==
    ASSUME NEW g, NEW c, NEW s, Met(g, "C", c), Values(c, s), Drawn(c, s)
    PROVE  ClientFresh(c, s, [KexdhOfKexinit(c) EXCEPT
                                !.kex_state = "KEXDH_INIT_SENT"])
<1>. PICK y : y = KexdhOfKexinit(c)
  OBVIOUS
<1>. PICK x : x = [y EXCEPT !.kex_state = "KEXDH_INIT_SENT"]
  OBVIOUS
<1>1. /\ DOMAIN c = Names /\ c.drawn \in Nat
      /\ c.sentkexinit = TRUE /\ c.recvkexinit = TRUE /\ c.sentnewkeys = FALSE
  BY DEF Met, Formed
<1>2. CASE y = c
  <2>1. But(c, x, {"kex_state"})
    BY <1>1, <1>2 DEF But, Names
  <2>2. {"kex_state"} \in SUBSET Calm
    BY DEF Calm
  <2>. QED  BY <2>1, <2>2, ButStill, StillFresh
<1>3. CASE y = SendKexdhInit(c)
  <2>1. /\ But(c, y, Queues \cup {"drawn", "param"})
        /\ \/ y.drawn = c.drawn + 1 /\ y.param.x = c.drawn + 1
           \/ y.drawn = c.drawn /\ y.param.x = c.param.x
    BY <1>1, <1>3, KexdhInitDraws
  <2>2. But(y, x, {"kex_state"})
    BY <2>1 DEF But, Names
  <2>3. /\ x.keys = c.keys /\ x.kexhash = c.kexhash
        /\ x.sentkexinit = TRUE /\ x.sentnewkeys = FALSE /\ x.recvkexinit = TRUE
        /\ x.drawn = y.drawn /\ x.param = y.param
    BY <1>1, <2>1, <2>2 DEF But, Names, Queues
  <2>4. Restarts(c, x)
    <3>1. \/ x.drawn = c.drawn + 1 /\ x.param.x = c.drawn + 1
          \/ x.drawn = c.drawn /\ x.param.x = c.param.x
      BY <2>1, <2>3
    <3>. QED  BY <1>1, <2>1, <2>3, <3>1 DEF Restarts
  <2>5. Values(x, s)
    BY <2>4, RestartsValues
  <2>6. Renewed(c, x)
    BY <2>3 DEF Renewed
  <2>. QED  BY <2>5, <2>6 DEF ClientFresh
<1>4. y = c \/ y = SendKexdhInit(c)
  BY DEF KexdhOfKexinit
<1>5. ClientFresh(c, s, x)
  BY <1>2, <1>3, <1>4
<1>. QED  BY <1>5

---------------------------------------------------------------------------
(* Every step *)

\* What a step has to do.
Fresh == VInv' /\ \A e \in End : Renewed(ses[e], ses'[e])

LEMMA ValuesNow ==
    ASSUME KInv
    PROVE  /\ DOMAIN ses = End /\ Drawn(ses["C"], ses["S"])
           /\ Stands(agreed, "C", ses["C"]) /\ Stands(agreed, "S", ses["S"])
           /\ \A e \in End : DOMAIN ses[e] = Names
<1>1. /\ Together(agreed, ses["C"], ses["S"], net["S"], net["C"], cli)
      /\ DOMAIN ses = End
  BY CoupledNow
<1>2. /\ Stands(agreed, "C", ses["C"]) /\ Stands(agreed, "S", ses["S"])
      /\ DOMAIN ses["C"] = Names /\ DOMAIN ses["S"] = Names
  BY <1>1, TogetherFacts
<1>3. ses["C"].drawn \in Nat /\ ses["S"].drawn \in Nat
  BY <1>2, StandFacts DEF Formed
<1>. QED  BY <1>1, <1>2, <1>3, Ends DEF Drawn

LEMMA FreshStep ==
    ASSUME KInv, VInv, NEW e \in End, NEW x, Becomes(e, x),
           e = "C" => ClientFresh(ses["C"], ses["S"], x),
           e = "S" => ServerFresh(ses["C"], ses["S"], x)
    PROVE  Fresh
<1>. PICK c, s : c = ses["C"] /\ s = ses["S"]
  OBVIOUS
<1>1. /\ ses'[e] = x /\ \A f \in End : f # e => ses'[f] = ses[f]
  BY ValuesNow DEF Becomes
<1>2. Renewed(c, c) /\ Renewed(s, s)
  BY DEF Renewed
<1>3. CASE e = "C"
  <2>1. ses'["C"] = x /\ ses'["S"] = s
    BY <1>1, <1>3, Ends
  <2>2. Values(x, s) /\ Renewed(c, x)
    BY <1>3 DEF ClientFresh
  <2>3. VInv'
    BY <2>1, <2>2 DEF VInv
  <2>. QED  BY <1>2, <2>1, <2>2, <2>3, Ends DEF Fresh
<1>4. CASE e = "S"
  <2>1. ses'["S"] = x /\ ses'["C"] = c
    BY <1>1, <1>4, Ends
  <2>2. Values(c, x) /\ Renewed(s, x)
    BY <1>4 DEF ServerFresh
  <2>3. VInv'
    BY <2>1, <2>2 DEF VInv
  <2>. QED  BY <1>2, <2>1, <2>2, <2>3, Ends DEF Fresh
<1>. QED  BY <1>3, <1>4, Ends

\* The session has become x, and nothing of an exchange is changed by it.
Calmly(s, x) == Still(s, x) /\ DOMAIN x = Names

LEMMA CalmTrans ==
    ASSUME NEW s, NEW x, NEW y, Calmly(s, x), Calmly(x, y)
    PROVE  Calmly(s, y)
BY DEF Calmly, Still

LEMMA LevelCalm ==
    ASSUME NEW s, NEW x, Level(s, x)
    PROVE  Calmly(s, x)
BY AlikeStill, LevelFields DEF Level, Calmly

LEMMA Calms ==
    ASSUME NEW s, DOMAIN s = Names
    PROVE  /\ Calmly(s, s) /\ Calmly(s, MaybeFlushReplyQueue(s))
           /\ Calmly(s, Emptied(s))
           /\ \A t, b : Calmly(s, EncryptPacket(s, t, b))
           /\ \A why : Calmly(s, Exit(s, why))
           /\ \A n : Calmly(s, [s EXCEPT !.chancount = n])
           /\ Calmly(s, [s EXCEPT !.authdone = TRUE])
           /\ Calmly(s, KexDone(s))
<1>1. /\ Calmly(s, MaybeFlushReplyQueue(s)) /\ Calmly(s, Emptied(s))
      /\ \A t, b : Calmly(s, EncryptPacket(s, t, b))
      /\ \A why : Calmly(s, Exit(s, why))
      /\ \A n : Calmly(s, [s EXCEPT !.chancount = n])
  BY Levels, LevelFlush, LevelEmptied, LevelCalm
<1>2. Calmly(s, s)
  BY DEF Calmly, Still
<1>3. Calmly(s, [s EXCEPT !.authdone = TRUE]) /\ Calmly(s, [s EXCEPT !.kex_state = "KEX_NOTHING"])
  BY DEF Calmly, Still, Names
<1>4. Calmly(s, KexDone(s))
  BY <1>2, <1>3 DEF KexDone
<1>. QED  BY <1>1, <1>2, <1>3, <1>4

LEMMA CalmStep ==
    ASSUME KInv, VInv, NEW e \in End, NEW x, Becomes(e, x), Calmly(ses[e], x)
    PROVE  Fresh
<1>1. /\ e = "C" => ClientFresh(ses["C"], ses["S"], x)
      /\ e = "S" => ServerFresh(ses["C"], ses["S"], x)
  BY StillFresh DEF Calmly, VInv
<1>. QED  BY <1>1, FreshStep

\* The packet at the head is read, and its handler leaves h.
LEMMA FreshRead ==
    ASSUME KInv, VInv, NEW e \in End, NEW t, Arrives(e, t), NEW h, Process(e, h),
           e = "C" => DOMAIN h = Names /\ ClientFresh(ses["C"], ses["S"], h),
           e = "S" /\ ses["S"].ignorenext = FALSE =>
             DOMAIN h = Names /\ ServerFresh(ses["C"], ses["S"], h)
    PROVE  Fresh
<1>. PICK c, s, r, p, y, x :
        /\ c = ses["C"] /\ s = ses["S"] /\ r = ses[e] /\ p = Head(net[e])
        /\ y = Read(r, p, ProcessPacket(r, p.t, h))
        /\ x = MaybeFlushReplyQueue(y)
  OBVIOUS
<1>1. Becomes(e, x)
  BY DEF Process, Becomes
<1>2. /\ Accepts(r, p) /\ DOMAIN r = Names /\ r.ignorenext \in BOOLEAN
      /\ e = "C" => r.ignorenext = FALSE
  <2>1. net[e] # <<>> /\ Together(agreed, c, s, net["S"], net["C"], cli)
    BY CoupledNow DEF Arrives
  <2>2. Accepts(r, p) /\ (e = "C" => r.ignorenext = FALSE)
    BY <2>1, HeadsAccepted, Ends
  <2>. QED  BY <2>2 DEF Accepts
<1>3. CASE r.ignorenext = FALSE
  <2>1. y = h
    BY <1>2, <1>3, Dispatches
  <2>2. DOMAIN h = Names
    BY <1>3, Ends
  <2>3. Still(h, x)
    BY <2>1, <2>2, Calms DEF Calmly
  <2>4. e = "C" => ClientFresh(c, s, x)
    BY <2>3, FreshStill
  <2>5. e = "S" => ServerFresh(c, s, x)
    BY <1>3, <2>3, FreshStill
  <2>. QED  BY <1>1, <2>4, <2>5, FreshStep
<1>4. CASE r.ignorenext = TRUE
  <2>1. y = [Noted(r, p.t) EXCEPT !.ignorenext = FALSE]
    BY <1>2, <1>4, Dispatches
  <2>2. Calmly(r, y)
    BY <1>2, <2>1 DEF Noted, Calmly, Still, Names
  <2>3. Calmly(y, x)
    BY <2>2, Calms DEF Calmly
  <2>4. Calmly(ses[e], x)
    BY <2>2, <2>3, CalmTrans
  <2>. QED  BY <1>1, <2>4, CalmStep
<1>. QED  BY <1>2, <1>3, <1>4

\* With what the handler begins.
LEMMA IncomingCalm ==
    ASSUME KInv, NEW e \in End, NEW t, Arrives(e, t)
    PROVE  /\ Calmly(ses[e], Incoming(e))
           /\ But(ses[e], Incoming(e), {"requirenext", "lastpacket"})
           /\ Incoming(e).requirenext = "none"
<1>1. /\ But(ses[e], Incoming(e), {"requirenext", "lastpacket"})
      /\ Incoming(e).requirenext = "none"
  BY ClientArrives, ServerArrives, Ends
<1>2. {"requirenext", "lastpacket"} \in SUBSET Calm
  BY DEF Calm, Loose
<1>3. Still(ses[e], Incoming(e)) /\ DOMAIN Incoming(e) = Names
  BY <1>1, <1>2, ButStill DEF But
<1>. QED  BY <1>1, <1>3 DEF Calmly

\* A handler that has nothing to do with the exchange.
LEMMA CalmRead ==
    ASSUME KInv, VInv, NEW e \in End, NEW t, Arrives(e, t), NEW h, Process(e, h),
           Calmly(Incoming(e), h)
    PROVE  Fresh
<1>1. Calmly(ses[e], h)
  BY IncomingCalm, CalmTrans
<1>2. DOMAIN h = Names
  BY <1>1 DEF Calmly
<1>3. /\ e = "C" => ClientFresh(ses["C"], ses["S"], h)
      /\ e = "S" => ServerFresh(ses["C"], ses["S"], h)
  BY <1>1, StillFresh DEF Calmly, VInv
<1>. QED  BY <1>2, <1>3, FreshRead

LEMMA ServerHeadLinked ==
    ASSUME KInv, net["S"] # <<>>
    PROVE  \E a, b : /\ Linked(agreed, ses["C"], ses["S"], a, b, cli)
                     /\ a # <<>> /\ Head(a) = Head(net["S"])
<1>1. /\ Together(agreed, ses["C"], ses["S"], net["S"], net["C"], cli)
      /\ IsSeq(net["S"]) /\ IsSeq(ses["C"].writequeue)
  BY CoupledNow, TogetherFacts DEF Together
<1>2. PICK a, b, n, q : /\ a = n \o q /\ b = net["C"] \o ses["S"].writequeue
                        /\ n = net["S"] /\ q = ses["C"].writequeue
  OBVIOUS
<1>3. a # <<>> /\ Head(a) = Head(n)
  BY <1>1, <1>2, ReadFromNet
<1>4. Linked(agreed, ses["C"], ses["S"], a, b, cli)
  BY <1>1, <1>2 DEF Together
<1>. QED  BY <1>2, <1>3, <1>4

\* Where an end that is sent a KEXINIT is.
LEMMA KexinitFinds ==
    ASSUME KInv, NEW e \in End, Arrives(e, "KEXINIT")
    PROVE  Idle(e, Incoming(e)) \/ Poised(Incoming(e))
<1>. PICK s, z : s = ses[e] /\ z = Incoming(e)
  OBVIOUS
<1>1. But(s, z, {"requirenext", "lastpacket"}) /\ z.requirenext = "none"
  BY IncomingCalm
<1>2. Stands(agreed, e, s)
  BY ValuesNow, Ends
<1>3. s.requirenext \in {"none", "KEXINIT"}
  <2>1. net[e] # <<>> /\ Head(net[e]).t = "KEXINIT"
    BY DEF Arrives
  <2>2. PICK p : p = Head(net[e]) /\ p.t = "KEXINIT"
    BY <2>1
  <2>3. Accepts(s, p)
    BY <2>1, <2>2, CoupledAccepts
  <2>. QED  BY <2>2, <2>3 DEF Accepts
<1>4. Idle(e, s) \/ Begun(e, s)
  BY <1>2, <1>3 DEF Stands, Met, Switched
<1>5. ASSUME Idle(e, s)  PROVE Idle(e, z)
  <2>1. /\ DOMAIN z = Names /\ z.keys = s.keys /\ z.drawn = s.drawn
        /\ z.authdone = s.authdone /\ z.donefirstkex = s.donefirstkex
        /\ z.kex_state = s.kex_state /\ z.recvnewkeys = s.recvnewkeys
        /\ z.sentkexinit = s.sentkexinit /\ z.recvkexinit = s.recvkexinit
        /\ z.sentnewkeys = s.sentnewkeys /\ z.dataallowed = s.dataallowed
        /\ z.newkeys = s.newkeys /\ z.ignorenext = s.ignorenext
        /\ z.our_first_follows_matches = s.our_first_follows_matches
        /\ z.param = s.param
    BY <1>1 DEF But, Names
  <2>. QED  BY <1>1, <1>5, <2>1 DEF Idle, Formed, Keyed
<1>6. ASSUME Begun(e, s)  PROVE Poised(z)
  <2>1. /\ DOMAIN z = Names
        /\ z.sentkexinit = s.sentkexinit /\ z.recvkexinit = s.recvkexinit
        /\ z.sentnewkeys = s.sentnewkeys
    BY <1>1 DEF But, Names
  <2>. QED  BY <1>6, <2>1, Distinct DEF Poised
<1>. QED  BY <1>4, <1>5, <1>6

LEMMA KexDomains ==
    ASSUME NEW e \in End, NEW z, NEW b, NEW g, DOMAIN z = Names
    PROVE  /\ DOMAIN RecvKexinit(e, z, b, g) = Names
           /\ DOMAIN RecvKexdhInit(z, b) = Names
           /\ DOMAIN RecvKexdhReply(z, b) = Names
           /\ DOMAIN RecvNewkeys(z) = Names
<1>1. \A s, t, v : DOMAIN s = Names => DOMAIN EncryptPacket(s, t, v) = Names
  BY Calms DEF Calmly
<1>2. \A s : DOMAIN s = Names => DOMAIN SendKexdhInit(s) = Names
  BY <1>1 DEF SendKexdhInit
<1>3. \A s : DOMAIN s = Names => DOMAIN SendKexinit(e, s) = Names
  BY <1>1, <1>2 DEF SendKexinit
<1>4. \A s : DOMAIN s = Names => DOMAIN SwitchKeys(s) = Names
  BY DEF SwitchKeys, KexInitialise, Exit
<1>5. \A s, k : DOMAIN s = Names => DOMAIN SendNewkeys(s, k) = Names
  BY <1>1, <1>4 DEF SendNewkeys, GenNewKeys
<1>6. DOMAIN RecvKexinit(e, z, b, g) = Names
  BY <1>3 DEF RecvKexinit, ReadKexAlgos
<1>7. DOMAIN RecvKexdhInit(z, b) = Names
  BY <1>1, <1>5 DEF RecvKexdhInit, Exit
<1>8. DOMAIN RecvKexdhReply(z, b) = Names
  BY <1>1, <1>5 DEF RecvKexdhReply, Exit
<1>9. DOMAIN RecvNewkeys(z) = Names
  BY <1>4 DEF RecvNewkeys
<1>. QED  BY <1>6, <1>7, <1>8, <1>9

LEMMA KexinitRenews ==
    ASSUME KInv, VInv, NEW e \in End, Kexinit(e)
    PROVE  Fresh
<1>1. Arrives(e, "KEXINIT")
  BY DEF Kexinit
<1>. PICK c, s, z, v, h : /\ c = ses["C"] /\ s = ses["S"] /\ z = Incoming(e)
                          /\ v = Body(e) /\ h = RecvKexinit(e, z, v, agreed)
  OBVIOUS
<1>2. Process(e, h)
  BY DEF Kexinit
<1>3. (Idle(e, z) \/ Poised(z)) /\ Calmly(ses[e], z)
  BY <1>1, KexinitFinds, IncomingCalm
<1>4. DOMAIN h = Names
  BY <1>3, KexDomains DEF Calmly
<1>5. Values(c, s) /\ Drawn(c, s)
  BY ValuesNow DEF VInv
<1>6. /\ e = "C" => ClientFresh(c, s, h)
      /\ e = "S" => ServerFresh(c, s, h)
  BY <1>3, <1>5, KexinitFresh DEF Calmly
<1>. QED  BY <1>1, <1>2, <1>4, <1>6, FreshRead

LEMMA KexdhInitRenews ==
    ASSUME KInv, VInv, KexdhInit
    PROVE  Fresh
<1>1. Arrives("S", "KEXDH_INIT")
  BY DEF KexdhInit
<1>. PICK c, s, z, v, h : /\ c = ses["C"] /\ s = ses["S"] /\ z = Incoming("S")
                          /\ v = Head(net["S"]).b /\ h = RecvKexdhInit(z, v)
  OBVIOUS
<1>2. Process("S", h)
  BY DEF KexdhInit, Body
<1>3. /\ But(s, z, {"requirenext", "lastpacket"}) /\ Met(agreed, "S", s)
      /\ net["S"] # <<>> /\ Head(net["S"]).t = "KEXDH_INIT"
  BY <1>1, ServerArrives
<1>4. PICK a, b : /\ Linked(agreed, c, s, a, b, cli)
                  /\ a # <<>> /\ Head(a) = Head(net["S"])
  BY <1>3, ServerHeadLinked
<1>5. Values(c, s) /\ Drawn(c, s)
  BY ValuesNow DEF VInv
<1>6. ASSUME s.ignorenext = FALSE  PROVE ServerFresh(c, s, h)
  <2>1. Head(a).t = "KEXDH_INIT" /\ h = RecvKexdhInit(z, Head(a).b)
    BY <1>3, <1>4
  <2>. QED  BY <1>3, <1>4, <1>5, <1>6, <2>1, ServerRepliesFresh
<1>7. DOMAIN h = Names
  BY <1>3, KexDomains, Ends DEF But
<1>. QED  BY <1>1, <1>2, <1>6, <1>7, Ends, FreshRead

LEMMA KexdhReplyRenews ==
    ASSUME KInv, VInv, KexdhReply
    PROVE  Fresh
<1>1. Arrives("C", "KEXDH_REPLY")
  BY DEF KexdhReply
<1>. PICK c, s, z, v, h : /\ c = ses["C"] /\ s = ses["S"] /\ z = Incoming("C")
                          /\ v = Head(net["C"]).b /\ h = RecvKexdhReply(z, v)
  OBVIOUS
<1>2. Process("C", h)
  BY DEF KexdhReply, Body
<1>3. /\ But(c, z, {"requirenext", "lastpacket"}) /\ Turn(agreed, c, "packet")
      /\ net["C"] # <<>> /\ Head(net["C"]).t = "KEXDH_REPLY"
  BY <1>1, ClientArrives
<1>4. PICK a, b : /\ Linked(agreed, c, s, a, b, cli)
                  /\ b # <<>> /\ Head(b) = Head(net["C"])
  BY <1>3, HeadLinked
<1>5. Met(agreed, "C", c) => c.kex_state = "KEXDH_INIT_SENT"
  BY <1>3 DEF Turn, Met, Formed
<1>6. Head(b).t = "KEXDH_REPLY" /\ h = RecvKexdhReply(z, Head(b).b)
  BY <1>3, <1>4
<1>7. ClientFresh(c, s, h)
  BY <1>3, <1>4, <1>5, <1>6, ClientTakesFresh DEF VInv
<1>8. DOMAIN h = Names
  BY <1>3, KexDomains, Ends DEF But
<1>. QED  BY <1>1, <1>2, <1>7, <1>8, Ends, FreshRead

LEMMA NewkeysRenews ==
    ASSUME KInv, VInv, NEW e \in End, Newkeys(e)
    PROVE  Fresh
<1>1. Arrives(e, "NEWKEYS")
  BY DEF Newkeys
<1>. PICK c, s, z, h : /\ c = ses["C"] /\ s = ses["S"] /\ z = Incoming(e)
                       /\ h = RecvNewkeys(z)
  OBVIOUS
<1>2. Process(e, h)
  BY DEF Newkeys
<1>3. /\ But(ses[e], z, {"requirenext", "lastpacket"}) /\ z.requirenext = "none"
      /\ net[e] # <<>> /\ Head(net[e]).t = "NEWKEYS"
  BY <1>1, IncomingCalm DEF Arrives
<1>4. DOMAIN h = Names
  BY <1>3, KexDomains DEF But
<1>5. ASSUME e = "C"  PROVE ClientFresh(c, s, h)
  <2>1. PICK a, b : /\ Linked(agreed, c, s, a, b, cli)
                    /\ b # <<>> /\ Head(b) = Head(net["C"])
    BY <1>3, <1>5, HeadLinked
  <2>2. Turn(agreed, c, "packet") /\ Head(b).t = "NEWKEYS"
    BY <1>1, <1>3, <1>5, <2>1, ClientArrives
  <2>3. Switched("C", c) => c.kex_state = "KEX_NOTHING"
    BY <2>2 DEF Turn
  <2>. QED  BY <1>3, <1>5, <2>1, <2>2, <2>3, ClientEndsFresh DEF VInv
<1>6. ASSUME e = "S"  PROVE ServerFresh(c, s, h)
  <2>1. PICK a, b : /\ Linked(agreed, c, s, a, b, cli)
                    /\ a # <<>> /\ Head(a) = Head(net["S"])
    BY <1>3, <1>6, ServerHeadLinked
  <2>. QED  BY <1>3, <1>6, <2>1, ServerEndsFresh DEF VInv
<1>. QED  BY <1>1, <1>2, <1>4, <1>5, <1>6, FreshRead

LEMMA ServiceRenews ==
    ASSUME KInv, VInv, ServiceRequest \/ ServiceAccept
    PROVE  Fresh
<1>1. CASE ServiceRequest
  <2>1. Arrives("S", "SERVICE_REQUEST")
    BY <1>1 DEF ServiceRequest
  <2>2. PICK h : /\ h = EncryptPacket(Incoming("S"), "SERVICE_ACCEPT", 0)
                 /\ Process("S", h)
    BY <1>1 DEF ServiceRequest
  <2>3. Calmly(Incoming("S"), h)
    BY <2>1, <2>2, IncomingCalm, Calms, Ends DEF Calmly
  <2>. QED  BY <2>1, <2>2, <2>3, CalmRead, Ends
<1>2. CASE ServiceAccept
  <2>1. Arrives("C", "SERVICE_ACCEPT")
    BY <1>2 DEF ServiceAccept
  <2>2. PICK h : h = Incoming("C") /\ Process("C", h)
    BY <1>2 DEF ServiceAccept
  <2>3. Calmly(Incoming("C"), h)
    BY <2>1, <2>2, IncomingCalm, Calms, Ends DEF Calmly
  <2>. QED  BY <2>1, <2>2, <2>3, CalmRead, Ends
<1>. QED  BY <1>1, <1>2

LEMMA CalmFailure ==
    ASSUME NEW s, NEW n, DOMAIN s = Names
    PROVE  Calmly(s, SendFailure(s, n))
<1>. PICK x, y : /\ x = EncryptPacket(s, "USERAUTH_FAILURE", AuthTypes)
                 /\ y = Exit(x, "max auth tries")
  OBVIOUS
<1>1. Calmly(s, x)
  BY Calms
<1>2. DOMAIN x = Names
  BY <1>1 DEF Calmly
<1>3. Calmly(x, y)
  BY <1>2, Calms
<1>4. Calmly(s, y)
  BY <1>1, <1>3, CalmTrans
<1>5. SendFailure(s, n) = x \/ SendFailure(s, n) = y
  BY DEF SendFailure
<1>. QED  BY <1>1, <1>4, <1>5

LEMMA CalmSuccess ==
    ASSUME NEW s, DOMAIN s = Names
    PROVE  Calmly(s, SendSuccess(s))
<1>. PICK x, y : /\ x = EncryptPacket(s, "USERAUTH_SUCCESS", 0)
                 /\ y = [x EXCEPT !.authdone = TRUE]
  OBVIOUS
<1>1. Calmly(s, x)
  BY Calms
<1>2. DOMAIN x = Names
  BY <1>1 DEF Calmly
<1>3. Calmly(x, y)
  BY <1>2, Calms
<1>4. Calmly(s, y)
  BY <1>1, <1>3, CalmTrans
<1>. QED  BY <1>4 DEF SendSuccess

LEMMA UserauthRequestRenews ==
    ASSUME KInv, VInv, UserauthRequest
    PROVE  Fresh
<1>1. Arrives("S", "USERAUTH_REQUEST")
  BY DEF UserauthRequest
<1>. PICK s, b : s = Incoming("S") /\ b = Body("S")
  OBVIOUS
<1>2. DOMAIN s = Names
  BY <1>1, IncomingCalm, Ends DEF Calmly
<1>. PICK out : out = IF s.authdone THEN "ignored" ELSE Outcome(b)
  OBVIOUS
<1>3. out \in {"ignored", "failure", "counted", "pk_ok", "success"}
  <2>1. b.method \in Methods
    <3>1. PICK p : p = Head(net["S"])
      OBVIOUS
    <3>2. PICK x, y : /\ Linked(agreed, ses["C"], ses["S"], x, y, cli)
                      /\ x # <<>> /\ Head(x) = p
      BY <1>1, <3>1, ServerHeadLinked DEF Arrives
    <3>3. Head(x).t = "USERAUTH_REQUEST"
      BY <1>1, <3>1, <3>2 DEF Arrives
    <3>4. \E ka, kb, ua, ub, d : Asks(cli, Head(x), ua, ub, d)
      BY <3>2, <3>3, ServerReadsAsk
    <3>. QED  BY <3>1, <3>2, <3>3, <3>4 DEF Asks, Body
  <2>. QED  BY <2>1, OutcomeQuery
<1>4. PICK h, n : /\ Process("S", h)
                  /\ h = CASE out = "ignored" -> s
                      [] out \in {"failure", "counted"} -> SendFailure(s, n)
                      [] out = "pk_ok" ->
                            EncryptPacket(s, "USERAUTH_PK_OK", b.key)
                      [] out = "success" -> SendSuccess(s)
  BY DEF UserauthRequest
<1>5. /\ Calmly(s, s) /\ Calmly(s, SendFailure(s, n)) /\ Calmly(s, SendSuccess(s))
      /\ Calmly(s, EncryptPacket(s, "USERAUTH_PK_OK", b.key))
  BY <1>2, Calms, CalmFailure, CalmSuccess
<1>6. \/ h = s \/ h = SendFailure(s, n) \/ h = SendSuccess(s)
      \/ h = EncryptPacket(s, "USERAUTH_PK_OK", b.key)
  BY <1>3, <1>4
<1>7. Calmly(Incoming("S"), h)
  BY <1>5, <1>6
<1>. QED  BY <1>1, <1>4, <1>7, CalmRead, Ends

LEMMA UserauthAnswerRenews ==
    ASSUME KInv, VInv, UserauthFailure \/ UserauthSuccess \/ UserauthPkOk
    PROVE  Fresh
<1>. PICK s : s = Incoming("C")
  OBVIOUS
<1>1. ASSUME NEW t, Arrives("C", t)
      PROVE  /\ Calmly(s, s) /\ Calmly(s, [s EXCEPT !.authdone = TRUE])
             /\ \A why : Calmly(s, Exit(s, why))
             /\ \A b : Calmly(s, EncryptPacket(s, "USERAUTH_REQUEST", b))
  <2>1. DOMAIN s = Names
    BY <1>1, IncomingCalm, Ends DEF Calmly
  <2>. QED  BY <2>1, Calms
<1>2. CASE UserauthFailure
  <2>1. Arrives("C", "USERAUTH_FAILURE")
    BY <1>2 DEF UserauthFailure
  <2>2. PICK h : /\ Process("C", h)
                 /\ h = s \/ h = Exit(s, "unexpected userauth failure")
    <3>1. Process("C", IF s.authdone \/ cli.state = "USERAUTH_REQ_SENT" THEN s
                       ELSE Exit(s, "unexpected userauth failure"))
      BY <1>2 DEF UserauthFailure
    <3>. QED  BY <3>1
  <2>3. Calmly(s, h)
    BY <1>1, <2>1, <2>2
  <2>. QED  BY <2>1, <2>2, <2>3, CalmRead, Ends
<1>3. CASE UserauthSuccess
  <2>1. Arrives("C", "USERAUTH_SUCCESS")
    BY <1>3 DEF UserauthSuccess
  <2>2. PICK h : Process("C", h) /\ h = [s EXCEPT !.authdone = TRUE]
    BY <1>3 DEF UserauthSuccess
  <2>3. Calmly(s, h)
    BY <1>1, <2>1, <2>2
  <2>. QED  BY <2>1, <2>2, <2>3, CalmRead, Ends
<1>4. CASE UserauthPkOk
  <2>1. Arrives("C", "USERAUTH_PK_OK")
    BY <1>4 DEF UserauthPkOk
  <2>2. PICK h, user, k :
          /\ Process("C", h)
          /\ \/ h = s \/ h = Exit(s, "password expired")
             \/ h = Exit(s, "unexpected userauth packet")
             \/ h = EncryptPacket(s, "USERAUTH_REQUEST",
                                  Request(user, "sign", k, TRUE))
    <3>1. PICK user \in Users :
            LET k == Body("C")
                mine == \E i \in 1..Len(cli.privkeys) : cli.privkeys[i] = k
                h == CASE cli.lastauthtype = "password" ->
                           Exit(s, "password expired")
                     [] cli.lastauthtype = "none" ->
                           Exit(s, "unexpected userauth packet")
                     [] cli.lastauthtype = "pubkey" /\ mine ->
                           EncryptPacket(s, "USERAUTH_REQUEST",
                                         Request(user, "sign", k, TRUE))
                     [] OTHER -> s
            IN  Process("C", h)
      BY <1>4 DEF UserauthPkOk
    <3>2. PICK k, mine, h :
            /\ Process("C", h)
            /\ mine \in BOOLEAN
            /\ h = CASE cli.lastauthtype = "password" ->
                           Exit(s, "password expired")
                     [] cli.lastauthtype = "none" ->
                           Exit(s, "unexpected userauth packet")
                     [] cli.lastauthtype = "pubkey" /\ mine ->
                           EncryptPacket(s, "USERAUTH_REQUEST",
                                         Request(user, "sign", k, TRUE))
                     [] OTHER -> s
      BY <3>1
    <3>3. \/ h = s \/ h = Exit(s, "password expired")
          \/ h = Exit(s, "unexpected userauth packet")
          \/ h = EncryptPacket(s, "USERAUTH_REQUEST",
                               Request(user, "sign", k, TRUE))
      BY <3>2
    <3>. QED  BY <3>2, <3>3
  <2>3. Calmly(s, h)
    BY <1>1, <2>1, <2>2
  <2>. QED  BY <2>1, <2>2, <2>3, CalmRead, Ends
<1>. QED  BY <1>2, <1>3, <1>4

LEMMA ConnectionRenews ==
    ASSUME KInv, VInv, NEW e \in End, ConnectionRequest(e) \/ ConnectionReply(e)
    PROVE  Fresh
<1>. PICK s : s = Incoming(e)
  OBVIOUS
<1>1. CASE ConnectionRequest(e)
  <2>1. PICK t, n, x, h :
          /\ Arrives(e, t) /\ Process(e, h)
          /\ x = [s EXCEPT !.chancount = n] /\ h = EncryptPacket(x, Answer(t), 0)
    <3>1. PICK t \in {"CHANNEL_OPEN", "CHANNEL_REQUEST", "GLOBAL_REQUEST"} :
            /\ Arrives(e, t)
            /\ Process(e, EncryptPacket(
                 [s EXCEPT !.chancount = IF t = "CHANNEL_OPEN" THEN @ + 1
                                         ELSE @], Answer(t), 0))
      BY <1>1 DEF ConnectionRequest
    <3>2. PICK n : n = IF t = "CHANNEL_OPEN" THEN s.chancount + 1 ELSE s.chancount
      OBVIOUS
    <3>3. Process(e, EncryptPacket([s EXCEPT !.chancount = n], Answer(t), 0))
      BY <3>1, <3>2
    <3>. QED  BY <3>1, <3>3
  <2>2. DOMAIN s = Names
    BY <2>1, IncomingCalm DEF Calmly
  <2>3. Calmly(s, x)
    BY <2>1, <2>2, Calms
  <2>4. Calmly(x, h)
    BY <2>1, <2>3, Calms DEF Calmly
  <2>5. Calmly(s, h)
    BY <2>3, <2>4, CalmTrans
  <2>. QED  BY <2>1, <2>5, CalmRead
<1>2. CASE ConnectionReply(e)
  <2>1. PICK t, h : Arrives(e, t) /\ Process(e, h) /\ h = s
    BY <1>2 DEF ConnectionReply
  <2>2. DOMAIN s = Names
    BY <2>1, IncomingCalm DEF Calmly
  <2>3. Calmly(s, h)
    BY <2>1, <2>2, Calms
  <2>. QED  BY <2>1, <2>3, CalmRead
<1>. QED  BY <1>1, <1>2

LEMMA TimeoutsRenew ==
    ASSUME KInv, VInv, NEW e \in End, CheckTimeouts(e)
    PROVE  Fresh
<1>. PICK rekey \in BOOLEAN, keepalive \in BOOLEAN :
        /\ rekey => MayRekey(e)
        /\ ses' = [ses EXCEPT ![e] = KeptAlive(Rekeyed(e, ses[e], rekey), keepalive)]
  BY DEF CheckTimeouts, KeptAlive, Rekeyed
<1>. PICK c, s, r, y, x :
        /\ c = ses["C"] /\ s = ses["S"] /\ r = ses[e]
        /\ y = Rekeyed(e, r, rekey) /\ x = KeptAlive(y, keepalive)
  OBVIOUS
<1>1. Becomes(e, x)
  BY DEF Becomes
<1>2. /\ DOMAIN r = Names /\ Drawn(c, s) /\ Values(c, s)
      /\ Stands(agreed, e, r)
  BY ValuesNow, Ends DEF VInv
<1>3. CASE rekey = FALSE
  <2>1. y = r
    BY <1>3 DEF Rekeyed
  <2>2. Calmly(r, x)
    BY <1>2, <2>1, Calms DEF KeptAlive
  <2>. QED  BY <1>1, <2>2, CalmStep
<1>4. CASE rekey = TRUE
  <2>1. Idle(e, r) /\ y = SendKexinit(e, r)
    BY <1>2, <1>4, StandsIdle DEF MayRekey, Rekeyed
  <2>2. Draws(e, r, y) /\ DOMAIN y = Names /\ r.sentnewkeys = FALSE
    BY <2>1, KexinitBegins, Distinct
  <2>3. Still(y, x)
    BY <2>2, Calms DEF KeptAlive, Calmly
  <2>4. ASSUME e = "C"  PROVE ClientFresh(c, s, x)
    <3>1. Values(y, s)
      BY <1>2, <2>2, <2>4, ClientBeginsValues
    <3>2. Renewed(c, y)
      BY <2>2, <2>4 DEF Draws, Renewed
    <3>. QED  BY <2>3, <3>1, <3>2, FreshStill DEF ClientFresh
  <2>5. ASSUME e = "S"  PROVE ServerFresh(c, s, x)
    <3>1. Values(c, y)
      BY <1>2, <2>2, <2>5, ServerBeginsValues
    <3>2. Renewed(s, y)
      BY <2>2, <2>5 DEF Draws, Renewed
    <3>. QED  BY <2>3, <3>1, <3>2, FreshStill DEF ServerFresh
  <2>. QED  BY <1>1, <2>4, <2>5, FreshStep
<1>. QED  BY <1>3, <1>4

LEMMA QuietRenews ==
    ASSUME KInv, VInv, NEW e \in End, NoPacket(e) \/ RemoteClosed(e) \/ ServerLoop
    PROVE  Fresh
<1>1. DOMAIN ses[e] = Names /\ DOMAIN ses["S"] = Names
  BY ValuesNow, Ends
<1>2. CASE NoPacket(e)
  <2>1. PICK x : Becomes(e, x) /\ x = MaybeFlushReplyQueue(ses[e])
    BY <1>2 DEF NoPacket, Becomes
  <2>. QED  BY <1>1, <2>1, Calms, CalmStep
<1>3. CASE RemoteClosed(e)
  <2>1. PICK x : Becomes(e, x) /\ x = Exit(ses[e], "remote closed")
    BY <1>3 DEF RemoteClosed, Becomes
  <2>. QED  BY <1>1, <2>1, Calms, CalmStep
<1>4. CASE ServerLoop
  <2>1. PICK x : Becomes("S", x) /\ x = ses["S"]
    BY <1>4 DEF ServerLoop, Becomes
  <2>. QED  BY <1>1, <2>1, Calms, CalmStep, Ends
<1>. QED  BY <1>2, <1>3, <1>4

LEMMA ChannelIORenews ==
    ASSUME KInv, VInv, NEW e \in End, ChannelIO(e)
    PROVE  Fresh
<1>1. PICK data \in BOOLEAN :
        ses' = [ses EXCEPT ![e] = Emptied(WithData(ses[e], data))]
  BY DEF ChannelIO, WithData, Emptied
<1>2. PICK r, y, x :
        /\ r = ses[e] /\ y = WithData(r, data) /\ x = Emptied(y)
        /\ ses' = [ses EXCEPT ![e] = x]
  BY <1>1
<1>3. DOMAIN r = Names
  BY <1>2, ValuesNow
<1>4. Calmly(r, y)
  BY <1>2, <1>3, Calms DEF WithData
<1>5. Calmly(y, x)
  BY <1>2, <1>4, Calms DEF Calmly
<1>6. Calmly(ses[e], x)
  BY <1>2, <1>4, <1>5, CalmTrans
<1>. QED  BY <1>2, <1>6, CalmStep DEF Becomes

LEMMA StateMachineRenews ==
    ASSUME KInv, VInv, NEW d, Calmly(ses["C"], d), StateMachine(d)
    PROVE  Fresh
<1>1. DOMAIN d = Names
  BY DEF Calmly
<1>2. ASSUME NEW x, Calmly(d, x), ses' = [ses EXCEPT !["C"] = x]
      PROVE  Fresh
  <2>1. Calmly(ses["C"], x) /\ Becomes("C", x)
    BY <1>2, CalmTrans DEF Becomes
  <2>. QED  BY <2>1, CalmStep, Ends
<1>3. ASSUME NEW user,
             ses' = [ses EXCEPT !["C"] =
                 EncryptPacket(EncryptPacket(d, "SERVICE_REQUEST", 0),
                               "USERAUTH_REQUEST",
                               Request(user, "none", "none", FALSE))]
      PROVE  Fresh
  <2>1. PICK y, x : /\ y = EncryptPacket(d, "SERVICE_REQUEST", 0)
                    /\ x = EncryptPacket(y, "USERAUTH_REQUEST",
                                         Request(user, "none", "none", FALSE))
    OBVIOUS
  <2>2. Calmly(d, y)
    BY <1>1, <2>1, Calms
  <2>3. Calmly(y, x)
    <3>1. DOMAIN y = Names
      BY ONLY <2>2 DEF Calmly
    <3>2. \A t, b : Calmly(y, EncryptPacket(y, t, b))
      BY ONLY <3>1, Calms
    <3>. QED  BY ONLY <2>1, <3>2
  <2>4. Calmly(d, x)
    BY <2>2, <2>3, CalmTrans
  <2>. QED  BY <1>2, <1>3, <2>1, <2>4
<1>4. ASSUME NEW user, NEW right,
             ses' = [ses EXCEPT !["C"] =
               IF TriesKey(cli)
               THEN EncryptPacket(d, "USERAUTH_REQUEST",
                      Request(user, "query", Head(cli.privkeys), FALSE))
               ELSE IF TriesPassword(cli)
               THEN EncryptPacket(d, "USERAUTH_REQUEST",
                      Request(user, "password", "none", right))
               ELSE Exit(d, "no auth methods")]
      PROVE  Fresh
  <2>1. PICK u, v, w : /\ u = Request(user, "query", Head(cli.privkeys), FALSE)
                       /\ v = Request(user, "password", "none", right)
                       /\ w = "USERAUTH_REQUEST"
    OBVIOUS
  <2>2. PICK x : /\ ses' = [ses EXCEPT !["C"] = x]
                 /\ \/ x = EncryptPacket(d, w, u) \/ x = EncryptPacket(d, w, v)
                    \/ x = Exit(d, "no auth methods")
    BY <1>4, <2>1
  <2>3. /\ Calmly(d, EncryptPacket(d, w, u)) /\ Calmly(d, EncryptPacket(d, w, v))
        /\ Calmly(d, Exit(d, "no auth methods"))
    BY <1>1, Calms
  <2>4. Calmly(d, x)
    BY <2>2, <2>3
  <2>. QED  BY <1>2, <2>2, <2>4
<1>5. ASSUME ses' = [ses EXCEPT !["C"] =
               EncryptPacket([d EXCEPT !.chancount = @ + 1], "CHANNEL_OPEN", 0)]
      PROVE  Fresh
  <2>1. PICK n, y, x : /\ n = d.chancount + 1 /\ y = [d EXCEPT !.chancount = n]
                       /\ x = EncryptPacket(y, "CHANNEL_OPEN", 0)
                       /\ ses' = [ses EXCEPT !["C"] = x]
    BY <1>5
  <2>2. Calmly(d, y)
    BY <1>1, <2>1, Calms
  <2>3. Calmly(y, x)
    BY <2>1, <2>2, Calms DEF Calmly
  <2>4. Calmly(d, x)
    BY <2>2, <2>3, CalmTrans
  <2>. QED  BY <1>2, <2>1, <2>4
<1>6. ASSUME ses' = [ses EXCEPT !["C"] = d]
      PROVE  Fresh
  BY <1>1, <1>2, <1>6, Calms
<1>. QED  BY <1>3, <1>4, <1>5, <1>6 DEF StateMachine

LEMMA ClientLoopRenews ==
    ASSUME KInv, VInv, ClientLoop
    PROVE  Fresh
<1>. PICK c, d, s : c = ses["C"] /\ d = KexDone(c) /\ s = ses["S"]
  OBVIOUS
<1>1. /\ DOMAIN c = Names /\ Drawn(c, s) /\ Values(c, s)
      /\ Turn(agreed, c, "handler")
  BY ValuesNow, CoupledNow, Ends DEF VInv, ClientLoop, At
<1>2. Calmly(c, c) /\ Calmly(c, d)
  BY <1>1, Calms
<1>3. CASE c.lastpacket = "none"
  <2>1. Becomes("C", c)
    BY <1>3 DEF ClientLoop, Becomes
  <2>. QED  BY <1>2, <2>1, CalmStep, Ends
<1>4. CASE c.lastpacket # "none" /\ StartsKexdh(c)
  <2>1. PICK x : /\ x = [KexdhOfKexinit(c) EXCEPT !.kex_state = "KEXDH_INIT_SENT"]
                 /\ ses' = [ses EXCEPT !["C"] = x]
    BY <1>4 DEF ClientLoop
  <2>2. Met(agreed, "C", c)
    BY <1>1, <1>4 DEF Turn, StartsKexdh
  <2>3. ClientFresh(c, s, x)
    BY <1>1, <2>1, <2>2, ClientStartsFresh
  <2>. QED  BY <2>1, <2>3, FreshStep, Ends DEF Becomes
<1>5. CASE c.lastpacket # "none" /\ ~StartsKexdh(c)
  <2>1. ses' = [ses EXCEPT !["C"] = d] \/ StateMachine(d)
    BY <1>5 DEF ClientLoop
  <2>2. CASE ses' = [ses EXCEPT !["C"] = d]
    BY <1>2, <2>2, CalmStep, Ends DEF Becomes
  <2>3. CASE StateMachine(d)
    BY <1>2, <2>3, StateMachineRenews
  <2>. QED  BY <2>1, <2>2, <2>3
<1>. QED  BY <1>3, <1>4, <1>5
---------------------------------------------------------------------------

LEMMA StepRenews ==
    ASSUME KInv, VInv, [Next]_vars
    PROVE  Fresh
<1>1. CASE UNCHANGED vars
  <2>1. ses' = ses
    BY <1>1 DEF vars
  <2>. QED  BY <2>1 DEF Fresh, VInv, Renewed
<1>2. ASSUME NEW e \in End, RecvPacket(e)
      PROVE  Fresh
  BY <1>2, KexinitRenews, NewkeysRenews, KexdhInitRenews, KexdhReplyRenews,
     ServiceRenews, UserauthRequestRenews, UserauthAnswerRenews,
     ConnectionRenews DEF RecvPacket
<1>3. ASSUME NEW e \in End, LoopStep(e)
      PROVE  Fresh
  BY <1>3, TimeoutsRenew, QuietRenews, ChannelIORenews, ClientLoopRenews
     DEF LoopStep
<1>4. ASSUME NEW e \in End, RemoteClosed(e)
      PROVE  Fresh
  BY <1>4, QuietRenews
<1>. QED  BY <1>1, <1>2, <1>3, <1>4 DEF Next

\* The first exchange.
Newborn(e, x) ==
    /\ x.sentkexinit = TRUE /\ x.recvkexinit = FALSE
    /\ x.sentnewkeys = FALSE /\ x.transkexinit = 1
    /\ x.keys = [trans |-> NoKeys, recv |-> NoKeys]
    /\ e = "C" => x.param.x = 2 /\ x.drawn = 2
    /\ e = "S" => x.drawn = 1

LEMMA FirstValues ==
    ASSUME NEW e \in End
    PROVE  Newborn(e, SendKexinit(e, InitialSession))
<1>. PICK z : z = InitialSession
  OBVIOUS
<1>. PICK x : x = SendKexinit(e, z)
  OBVIOUS
<1>1. /\ DOMAIN z = Names /\ z.drawn = 0 /\ z.param = NoParam
      /\ z.keys = [trans |-> NoKeys, recv |-> NoKeys]
      /\ z.sentnewkeys = FALSE /\ z.recvkexinit = FALSE
  BY DEF InitialSession, Names
<1>2. PICK k, y, w, v :
        /\ k = z.drawn + 1 /\ y = [z EXCEPT !.drawn = k]
        /\ w = EncryptPacket(y, "KEXINIT", [cookie |-> k, first_follows |-> e = "C"])
        /\ v = [w EXCEPT !.transkexinit = k, !.dataallowed = FALSE,
                         !.sentkexinit = TRUE, !.newkeys = NewContext("first")]
  OBVIOUS
<1>3. x = (IF e = "C" THEN SendKexdhInit(v) ELSE v) /\ k = 1
  BY <1>1, <1>2 DEF SendKexinit
<1>4. DOMAIN y = Names /\ Calmly(y, w)
  BY <1>1, <1>2, Calms DEF Names
<1>5. /\ DOMAIN v = Names /\ v.drawn = 1 /\ v.param = NoParam
      /\ v.keys = z.keys /\ v.sentkexinit = TRUE /\ v.recvkexinit = FALSE
      /\ v.sentnewkeys = FALSE /\ v.transkexinit = 1
  BY <1>1, <1>2, <1>3, <1>4 DEF Calmly, Still, Names
<1>6. CASE e = "C"
  <2>1. PICK u : u = SendKexdhInit(v) /\ x = u
    BY <1>3, <1>6
  <2>2. v.drawn \in Nat /\ v.drawn + 1 = 2
    BY <1>5
  <2>3. /\ But(v, u, Queues \cup {"drawn", "param"})
        /\ u.drawn = 2 /\ u.param.x = 2
    BY <1>5, <2>2, <2>1, KexdhInitDraws
  <2>4. /\ u.keys = v.keys /\ u.sentkexinit = v.sentkexinit
        /\ u.recvkexinit = v.recvkexinit /\ u.sentnewkeys = v.sentnewkeys
        /\ u.transkexinit = v.transkexinit
    BY <2>3 DEF But, Names, Queues
  <2>. QED  BY <1>1, <1>5, <1>6, <2>1, <2>3, <2>4 DEF Newborn
<1>7. CASE e = "S"
  BY <1>1, <1>3, <1>5, <1>7 DEF Newborn
<1>. QED  BY <1>6, <1>7, Ends

LEMMA InitValues ==
    ASSUME Init
    PROVE  VInv
<1>. PICK c, s : /\ c = SendKexinit("C", InitialSession)
                 /\ s = SendKexinit("S", InitialSession)
  OBVIOUS
<1>1. ses["C"] = c /\ ses["S"] = s
  BY Ends DEF Init
<1>2. Newborn("C", c) /\ Newborn("S", s)
  BY FirstValues, Ends
<1>3. /\ c.sentkexinit = TRUE /\ c.recvkexinit = FALSE
      /\ c.sentnewkeys = FALSE /\ c.transkexinit = 1
      /\ c.keys.trans = NoKeys /\ c.keys.recv = NoKeys
      /\ c.param.x = 2 /\ c.drawn = 2
  BY <1>2 DEF Newborn
<1>4. /\ s.sentkexinit = TRUE /\ s.recvkexinit = FALSE
      /\ s.sentnewkeys = FALSE /\ s.transkexinit = 1
      /\ s.keys.trans = NoKeys /\ s.keys.recv = NoKeys
      /\ s.drawn = 1
  BY <1>2 DEF Newborn
<1>5. Values(c, s)
  BY <1>3, <1>4 DEF Values, Known, Engaged, ClientCookie, ServerCookie,
     BehindClient, BehindServer
<1>. QED  BY <1>1, <1>5 DEF VInv

(* FreshKeysHold: every exchange puts keys in place whose values are newer  *)
(* than those of the keys they replace.  Values says how old the keys and   *)
(* the values of an exchange are that the two ends have: it holds together  *)
(* with the phases of KInv.                                                 *)
THEOREM FreshKeysHold == Spec => FreshKeys
<1>1. Init => KInv /\ VInv
  BY InitCoupled, InitValues
<1>2. (KInv /\ VInv) /\ [Next]_vars => (KInv /\ VInv)'
  BY StepCouples, StepRenews DEF Fresh
<1>3. (KInv /\ VInv) /\ [Next]_vars =>
        [\A e \in End : \A d \in {"trans", "recv"} :
           ses'[e].keys[d] # ses[e].keys[d]
           => Fresher(ses'[e].keys[d], ses[e].keys[d])]_vars
  BY StepRenews DEF Fresh, Renewed
<1>. QED  BY <1>1, <1>2, <1>3, PTL DEF Spec, FreshKeys

=============================================================================
