--------------------------- MODULE SessionProofs ---------------------------
(***************************************************************************)
(* What an end sends reaches the wire in order, and quietly during an      *)
(* exchange; and the server accepts nobody without a proof: for all keys,  *)
(* users, numbers of tries, exchanges and requests.                        *)
(*                                                                         *)
(* The argument is about one end at a time: what is on its wire and in its *)
(* reply queue (Sender).  Each operator of Transport keeps that; a handler *)
(* is a composition of them, and process_packet() ends by flushing the     *)
(* reply queue.                                                            *)
(*                                                                         *)
(* After the results come the facts that KeysProofs rests on, where the    *)
(* two ends are looked at together: what a packet more or less does to the *)
(* words on a wire and to how its packets are sealed, and which fields of  *)
(* a session each operator of Transport writes.                            *)
(***************************************************************************)
EXTENDS SessionInvariants, SequenceTheorems, TLAPS

---------------------------------------------------------------------------
(* Sequences of packets *)

LEMMA Empty == IsSeq(<<>>) /\ Len(<<>>) = 0
BY EmptySeq DEF IsSeq

LEMMA Length == ASSUME NEW q, IsSeq(q) PROVE Len(q) \in Nat
BY LenProperties DEF IsSeq

LEMMA Nonempty ==
    ASSUME NEW q, IsSeq(q)
    PROVE  /\ q # <<>> <=> Len(q) > 0
           /\ q = <<>> <=> Len(q) = 0
<1>. PICK S : q \in Seq(S)
  BY DEF IsSeq
<1>. QED  BY EmptySeq, LenProperties

LEMMA AppendOne ==
    ASSUME NEW q, NEW p, IsSeq(q)
    PROVE  /\ IsSeq(Append(q, p)) /\ Len(Append(q, p)) = Len(q) + 1
           /\ \A i \in 1..Len(q) : Append(q, p)[i] = q[i]
           /\ Append(q, p)[Len(q) + 1] = p
<1>. PICK S : q \in Seq(S)
  BY DEF IsSeq
<1>1. q \in Seq(S \cup {p})
  BY SeqMonotonic
<1>. QED  BY <1>1, AppendProperties, p \in S \cup {p} DEF IsSeq

LEMMA Concat ==
    ASSUME NEW q, NEW r, IsSeq(q), IsSeq(r)
    PROVE  /\ IsSeq(q \o r) /\ Len(q \o r) = Len(q) + Len(r)
           /\ \A i \in 1..Len(q) : (q \o r)[i] = q[i]
           /\ \A i \in 1..Len(r) : (q \o r)[Len(q) + i] = r[i]
           /\ q \o <<>> = q
<1>. PICK S : q \in Seq(S)
  BY DEF IsSeq
<1>. PICK T : r \in Seq(T)
  BY DEF IsSeq
<1>1. q \in Seq(S \cup T) /\ r \in Seq(S \cup T)
  BY SeqMonotonic
<1>2. Len(q) \in Nat /\ Len(r) \in Nat
  BY Length
<1>3. \A i \in 1..Len(q) + Len(r) :
         (q \o r)[i] = IF i <= Len(q) THEN q[i] ELSE r[i - Len(q)]
  BY <1>1, ConcatProperties
<1>4. IsSeq(q \o r) /\ Len(q \o r) = Len(q) + Len(r) /\ q \o <<>> = q
  BY <1>1, ConcatProperties, ConcatEmptySeq DEF IsSeq
<1>5. ASSUME NEW i \in 1..Len(q)
      PROVE  (q \o r)[i] = q[i]
  BY <1>2, <1>3
<1>6. ASSUME NEW i \in 1..Len(r)
      PROVE  (q \o r)[Len(q) + i] = r[i]
  <2>1. Len(q) + i \in 1..Len(q) + Len(r) /\ ~(Len(q) + i <= Len(q))
        /\ Len(q) + i - Len(q) = i
    BY <1>2
  <2>. QED  BY <2>1, <1>3
<1>. QED  BY <1>4, <1>5, <1>6

\* Where a queue follows, or a packet is appended, behind q.
LEMMA Associates ==
    ASSUME NEW q, NEW r, NEW s, IsSeq(q), IsSeq(r), IsSeq(s)
    PROVE  (q \o r) \o s = q \o (r \o s)
<1>. PICK S : q \in Seq(S)
  BY DEF IsSeq
<1>. PICK T : r \in Seq(T)
  BY DEF IsSeq
<1>. PICK U : s \in Seq(U)
  BY DEF IsSeq
<1>. DEFINE V == S \cup T \cup U
<1>1. S \subseteq V /\ T \subseteq V /\ U \subseteq V
  OBVIOUS
<1>. HIDE DEF V
<1>2. q \in Seq(V) /\ r \in Seq(V) /\ s \in Seq(V)
  BY <1>1, SeqMonotonic
<1>. QED  BY <1>2, SMT

LEMMA Single == \A p : <<p>> \in Seq({p})
OBVIOUS

LEMMA Regroup ==
    ASSUME NEW q, NEW r, NEW p, IsSeq(q), IsSeq(r)
    PROVE  q \o Append(r, p) = Append(q \o r, p)
<1>1. Append(r, p) = r \o <<p>>
  <2>. PICK T : r \in Seq(T)
    BY DEF IsSeq
  <2>1. r \in Seq(T \cup {p})
    BY SeqMonotonic
  <2>. QED  BY <2>1, AppendIsConcat, p \in T \cup {p}
<1>2. Append(q \o r, p) = (q \o r) \o <<p>>
  <2>. PICK T : q \o r \in Seq(T)
    BY Concat DEF IsSeq
  <2>1. q \o r \in Seq(T \cup {p})
    BY SeqMonotonic
  <2>. QED  BY <2>1, AppendIsConcat, p \in T \cup {p}
<1>3. IsSeq(<<p>>)
  BY Single DEF IsSeq
<1>. QED  BY <1>1, <1>2, <1>3, Associates

LEMMA Rest ==
    ASSUME NEW q, IsSeq(q), q # <<>>
    PROVE  /\ IsSeq(Tail(q)) /\ Len(Tail(q)) = Len(q) - 1 /\ Len(q) > 0
           /\ Head(q) = q[1]
           /\ \A i \in 1..Len(Tail(q)) : Tail(q)[i] = q[i + 1]
<1>. PICK S : q \in Seq(S)
  BY DEF IsSeq
<1>1. /\ Tail(q) \in Seq(S) /\ Len(Tail(q)) = Len(q) - 1
      /\ \A i \in 1..Len(Tail(q)) : Tail(q)[i] = q[i + 1]
  BY HeadTailProperties
<1>2. Len(q) > 0 /\ Head(q) = q[1]
  BY EmptySeq
<1>. QED  BY <1>1, <1>2 DEF IsSeq

---------------------------------------------------------------------------
(* A wire: the packets from one end that the other has not read *)

LEMMA KexIsLower ==
    /\ "KEXINIT" \notin UpperType /\ "NEWKEYS" \notin UpperType
    /\ "KEXDH_INIT" \notin UpperType /\ "KEXDH_REPLY" \notin UpperType
    /\ "UNIMPLEMENTED" \notin UpperType
BY DEF UpperType, ServiceType, AuthType, ConnectionType

\* Another packet of the exchange.
LEMMA LowerAppended ==
    ASSUME NEW w, NEW lo, NEW hi, NEW p, Good(w, lo, hi), p.t \notin UpperType
    PROVE  /\ Good(Append(w, p), lo, hi)
           /\ Settled(w) /\ p.t # "KEXINIT" => Settled(Append(w, p))
           /\ p.t = "NEWKEYS" => Settled(Append(w, p))
<1>. DEFINE v == Append(w, p)
<1>1. /\ IsSeq(w) /\ lo \in Nat /\ hi \in Nat /\ lo <= hi
      /\ Numbered(w, lo, hi) /\ Quiet(w)
      /\ \A i \in 1..Len(w) : Sane(w[i])
  BY DEF Good
<1>2. /\ IsSeq(v) /\ Len(v) = Len(w) + 1 /\ v[Len(w) + 1] = p
      /\ \A i \in 1..Len(w) : v[i] = w[i]
      /\ Len(w) \in Nat
  BY <1>1, AppendOne, Length
<1>. HIDE DEF v
<1>3. ~IsUpper(p) /\ Sane(p)
  BY DEF IsUpper, Sane, UpperType, AuthType
<1>4. Numbered(v, lo, hi)
  <2>1. \A i \in 1..Len(v) : IsUpper(v[i]) => i \in 1..Len(w)
    BY <1>2, <1>3
  <2>2. \A i \in 1..Len(v) : IsUpper(v[i]) => v[i].n \in lo + 1..hi
    BY <2>1, <1>1, <1>2 DEF Numbered
  <2>3. \A i, j \in 1..Len(v) :
          i < j /\ IsUpper(v[i]) /\ IsUpper(v[j]) => v[i].n < v[j].n
    BY <2>1, <1>1, <1>2 DEF Numbered
  <2>4. ASSUME NEW n \in lo + 1..hi
        PROVE  \E i \in 1..Len(v) : IsUpper(v[i]) /\ v[i].n = n
    <3>1. PICK i \in 1..Len(w) : IsUpper(w[i]) /\ w[i].n = n
      BY <1>1 DEF Numbered
    <3>. QED  BY <3>1, <1>2
  <2>. QED  BY <2>2, <2>3, <2>4 DEF Numbered
<1>5. Quiet(v)
  <2>. SUFFICES ASSUME NEW i \in 1..Len(v), NEW j \in 1..Len(v), i < j,
                       v[i].t = "KEXINIT", IsUpper(v[j])
                PROVE  \E k \in i..j : v[k].t = "NEWKEYS"
    BY DEF Quiet
  <2>1. j \in 1..Len(w) /\ i \in 1..Len(w)
    BY <1>2, <1>3
  <2>2. PICK k \in i..j : w[k].t = "NEWKEYS"
    BY <2>1, <1>1, <1>2 DEF Quiet
  <2>. QED  BY <2>1, <2>2, <1>2
<1>6. \A i \in 1..Len(v) : Sane(v[i])
  BY <1>1, <1>2, <1>3
<1>7. ASSUME Settled(w), p.t # "KEXINIT"
      PROVE  Settled(v)
  <2>. SUFFICES ASSUME NEW i \in 1..Len(v), v[i].t = "KEXINIT"
                PROVE  \E k \in i..Len(v) : v[k].t = "NEWKEYS"
    BY DEF Settled
  <2>1. i \in 1..Len(w)
    BY <1>2, <1>7
  <2>2. PICK k \in i..Len(w) : w[k].t = "NEWKEYS"
    BY <2>1, <1>2, <1>7 DEF Settled
  <2>. QED  BY <2>1, <2>2, <1>2
<1>8. p.t = "NEWKEYS" => Settled(v)
  BY <1>2 DEF Settled
<1>. QED  BY <1>1, <1>2, <1>4, <1>5, <1>6, <1>7, <1>8 DEF Good, v

\* The next packet of the upper layers, when no exchange is going on.
LEMMA UpperAppended ==
    ASSUME NEW w, NEW lo, NEW hi, NEW p, Good(w, lo, hi), Settled(w),
           p.t \in UpperType, p.n = hi + 1, Sane(p)
    PROVE  Good(Append(w, p), lo, hi + 1) /\ Settled(Append(w, p))
<1>. DEFINE v == Append(w, p)
<1>1. /\ IsSeq(w) /\ lo \in Nat /\ hi \in Nat /\ lo <= hi
      /\ Numbered(w, lo, hi) /\ Quiet(w)
      /\ \A i \in 1..Len(w) : Sane(w[i])
  BY DEF Good
<1>2. /\ IsSeq(v) /\ Len(v) = Len(w) + 1 /\ v[Len(w) + 1] = p
      /\ \A i \in 1..Len(w) : v[i] = w[i]
      /\ Len(w) \in Nat
  BY <1>1, AppendOne, Length
<1>. HIDE DEF v
<1>3. IsUpper(p) /\ p.t # "KEXINIT"
  BY KexIsLower DEF IsUpper
<1>4. Numbered(v, lo, hi + 1)
  <2>1. \A i \in 1..Len(v) : IsUpper(v[i]) => v[i].n \in lo + 1..hi + 1
    BY <1>1, <1>2 DEF Numbered
  <2>2. ASSUME NEW i \in 1..Len(v), NEW j \in 1..Len(v), i < j,
               IsUpper(v[i]), IsUpper(v[j])
        PROVE  v[i].n < v[j].n
    <3>1. i \in 1..Len(w)
      BY <1>2, <2>2
    <3>2. CASE j \in 1..Len(w)
      BY <3>1, <3>2, <1>1, <1>2, <2>2 DEF Numbered
    <3>3. CASE j = Len(w) + 1
      <4>1. w[i].n \in lo + 1..hi
        BY <3>1, <1>1, <1>2, <2>2 DEF Numbered
      <4>. QED  BY <3>1, <3>3, <4>1, <1>1, <1>2
    <3>. QED  BY <3>2, <3>3, <1>2
  <2>3. ASSUME NEW n \in lo + 1..hi + 1
        PROVE  \E i \in 1..Len(v) : IsUpper(v[i]) /\ v[i].n = n
    <3>1. CASE n = hi + 1
      BY <3>1, <1>2, <1>3
    <3>2. CASE n \in lo + 1..hi
      <4>1. PICK i \in 1..Len(w) : IsUpper(w[i]) /\ w[i].n = n
        BY <3>2, <1>1 DEF Numbered
      <4>. QED  BY <4>1, <1>2
    <3>. QED  BY <3>1, <3>2, <1>1
  <2>. QED  BY <2>1, <2>2, <2>3 DEF Numbered
<1>5. Settled(v)
  <2>. SUFFICES ASSUME NEW i \in 1..Len(v), v[i].t = "KEXINIT"
                PROVE  \E k \in i..Len(v) : v[k].t = "NEWKEYS"
    BY DEF Settled
  <2>1. i \in 1..Len(w)
    BY <1>2, <1>3
  <2>2. PICK k \in i..Len(w) : w[k].t = "NEWKEYS"
    BY <2>1, <1>2 DEF Settled
  <2>. QED  BY <2>1, <2>2, <1>2
<1>6. Quiet(v)
  <2>. SUFFICES ASSUME NEW i \in 1..Len(v), NEW j \in 1..Len(v), i < j,
                       v[i].t = "KEXINIT", IsUpper(v[j])
                PROVE  \E k \in i..j : v[k].t = "NEWKEYS"
    BY DEF Quiet
  <2>1. i \in 1..Len(w)
    BY <1>2
  <2>2. CASE j \in 1..Len(w)
    <3>1. PICK k \in i..j : w[k].t = "NEWKEYS"
      BY <2>1, <2>2, <1>1, <1>2 DEF Quiet
    <3>. QED  BY <2>1, <2>2, <3>1, <1>2
  <2>3. CASE j = Len(w) + 1
    <3>1. PICK k \in i..Len(w) : w[k].t = "NEWKEYS"
      BY <2>1, <1>2 DEF Settled
    <3>. QED  BY <2>1, <2>3, <3>1, <1>2
  <2>. QED  BY <2>2, <2>3, <1>2
<1>7. \A i \in 1..Len(v) : Sane(v[i])
  BY <1>1, <1>2
<1>. QED  BY <1>1, <1>2, <1>4, <1>5, <1>6, <1>7 DEF Good, v

\* The replies in the queue are numbered behind what is on the wire.
LEMMA QueueNumbered ==
    ASSUME NEW w, NEW lo, NEW hi, NEW r, Good(w, lo, hi), IsSeq(r),
           \A i \in 1..Len(r) : IsUpper(r[i]) /\ r[i].n = hi + i /\ Sane(r[i])
    PROVE  Numbered(w \o r, lo, hi + Len(r))
<1>. DEFINE v == w \o r
<1>1. /\ IsSeq(w) /\ lo \in Nat /\ hi \in Nat /\ lo <= hi
      /\ Numbered(w, lo, hi) /\ Quiet(w)
      /\ \A i \in 1..Len(w) : Sane(w[i])
  BY DEF Good
<1>2. /\ IsSeq(v) /\ Len(v) = Len(w) + Len(r)
      /\ \A i \in 1..Len(w) : v[i] = w[i]
      /\ \A i \in 1..Len(r) : v[Len(w) + i] = r[i]
      /\ Len(w) \in Nat /\ Len(r) \in Nat
  BY <1>1, Concat, Length
<1>. HIDE DEF v
<1>3. ASSUME NEW j \in 1..Len(v), j \notin 1..Len(w)
      PROVE  IsUpper(v[j]) /\ v[j].n = hi + (j - Len(w)) /\ Sane(v[j])
  <2>1. j - Len(w) \in 1..Len(r) /\ Len(w) + (j - Len(w)) = j
    BY <1>2, <1>3
  <2>2. v[j] = r[j - Len(w)]
    BY <2>1, <1>2
  <2>. QED  BY <2>1, <2>2
<1>4. Numbered(v, lo, hi + Len(r))
  <2>1. ASSUME NEW j \in 1..Len(v), IsUpper(v[j])
        PROVE  v[j].n \in lo + 1..hi + Len(r)
    <3>1. CASE j \in 1..Len(w)
      <4>1. v[j].n \in lo + 1..hi
        BY <3>1, <2>1, <1>1, <1>2 DEF Numbered
      <4>. QED  BY <4>1, <1>1, <1>2
    <3>2. CASE j \notin 1..Len(w)
      BY <3>2, <1>1, <1>2, <1>3
    <3>. QED  BY <3>1, <3>2
  <2>2. ASSUME NEW i \in 1..Len(v), NEW j \in 1..Len(v), i < j,
               IsUpper(v[i]), IsUpper(v[j])
        PROVE  v[i].n < v[j].n
    <3>1. CASE j \in 1..Len(w)
      <4>1. i \in 1..Len(w) /\ v[i] = w[i] /\ v[j] = w[j]
        BY <3>1, <2>2, <1>2
      <4>. QED  BY <4>1, <3>1, <2>2, <1>1 DEF Numbered
    <3>2. CASE j \notin 1..Len(w) /\ i \in 1..Len(w)
      <4>1. v[i].n \in lo + 1..hi
        BY <3>2, <2>2, <1>1, <1>2 DEF Numbered
      <4>. QED  BY <4>1, <3>2, <1>1, <1>2, <1>3
    <3>3. CASE j \notin 1..Len(w) /\ i \notin 1..Len(w)
      BY <3>3, <2>2, <1>1, <1>2, <1>3
    <3>. QED  BY <3>1, <3>2, <3>3
  <2>3. ASSUME NEW n \in lo + 1..hi + Len(r)
        PROVE  \E i \in 1..Len(v) : IsUpper(v[i]) /\ v[i].n = n
    <3>1. CASE n \in lo + 1..hi
      <4>1. PICK i \in 1..Len(w) : IsUpper(w[i]) /\ w[i].n = n
        BY <3>1, <1>1 DEF Numbered
      <4>. QED  BY <4>1, <1>2
    <3>2. CASE n \notin lo + 1..hi
      <4>1. Len(w) + (n - hi) \in 1..Len(v) /\ ~(Len(w) + (n - hi) \in 1..Len(w))
        BY <3>2, <1>1, <1>2
      <4>2. hi + ((Len(w) + (n - hi)) - Len(w)) = n
        BY <1>1, <1>2
      <4>. QED  BY <4>1, <4>2, <1>3
    <3>. QED  BY <3>1, <3>2
  <2>. QED  BY <2>1, <2>2, <2>3 DEF Numbered
<1>. QED  BY <1>4 DEF v

\* A reply queue that is flushed.
LEMMA QueueAppended ==
    ASSUME NEW w, NEW lo, NEW hi, NEW r, Good(w, lo, hi), Settled(w), IsSeq(r),
           \A i \in 1..Len(r) : IsUpper(r[i]) /\ r[i].n = hi + i /\ Sane(r[i])
    PROVE  Good(w \o r, lo, hi + Len(r)) /\ Settled(w \o r)
<1>. DEFINE v == w \o r
<1>1. /\ IsSeq(w) /\ lo \in Nat /\ hi \in Nat /\ lo <= hi
      /\ Numbered(w, lo, hi) /\ Quiet(w)
      /\ \A i \in 1..Len(w) : Sane(w[i])
  BY DEF Good
<1>2. /\ IsSeq(v) /\ Len(v) = Len(w) + Len(r)
      /\ \A i \in 1..Len(w) : v[i] = w[i]
      /\ \A i \in 1..Len(r) : v[Len(w) + i] = r[i]
      /\ Len(w) \in Nat /\ Len(r) \in Nat
  BY <1>1, Concat, Length
<1>. HIDE DEF v
<1>3. ASSUME NEW j \in 1..Len(v), j \notin 1..Len(w)
      PROVE  IsUpper(v[j]) /\ v[j].n = hi + (j - Len(w)) /\ Sane(v[j])
  <2>1. j - Len(w) \in 1..Len(r) /\ Len(w) + (j - Len(w)) = j
    BY <1>2, <1>3
  <2>2. v[j] = r[j - Len(w)]
    BY <2>1, <1>2
  <2>. QED  BY <2>1, <2>2
<1>4. Numbered(v, lo, hi + Len(r))
  BY QueueNumbered DEF v
<1>5. ASSUME NEW i \in 1..Len(v), v[i].t = "KEXINIT"
      PROVE  i \in 1..Len(w) /\ \E k \in i..Len(w) : v[k].t = "NEWKEYS"
  <2>1. i \in 1..Len(w)
    BY <1>3, <1>5, KexIsLower DEF IsUpper
  <2>2. PICK k \in i..Len(w) : w[k].t = "NEWKEYS"
    BY <2>1, <1>2, <1>5 DEF Settled
  <2>. QED  BY <2>1, <2>2, <1>2
<1>6. Settled(v)
  <2>. SUFFICES ASSUME NEW i \in 1..Len(v), v[i].t = "KEXINIT"
                PROVE  \E k \in i..Len(v) : v[k].t = "NEWKEYS"
    BY DEF Settled
  <2>1. PICK k \in i..Len(w) : v[k].t = "NEWKEYS"
    BY <1>5
  <2>. QED  BY <2>1, <1>2
<1>7. Quiet(v)
  <2>. SUFFICES ASSUME NEW i \in 1..Len(v), NEW j \in 1..Len(v), i < j,
                       v[i].t = "KEXINIT", IsUpper(v[j])
                PROVE  \E k \in i..j : v[k].t = "NEWKEYS"
    BY DEF Quiet
  <2>1. PICK k \in i..Len(w) : v[k].t = "NEWKEYS"
    BY <1>5
  <2>2. i \in 1..Len(w)
    BY <1>5
  <2>3. CASE j \in 1..Len(w)
    <3>1. PICK l \in i..j : w[l].t = "NEWKEYS"
      BY <2>2, <2>3, <1>1, <1>2 DEF Quiet
    <3>2. l \in 1..Len(w) /\ v[l] = w[l]
      BY <2>2, <2>3, <3>1, <1>2
    <3>. QED  BY <3>1, <3>2
  <2>4. CASE j \notin 1..Len(w)
    BY <2>1, <2>2, <2>4, <1>2
  <2>. QED  BY <2>3, <2>4
<1>8. \A i \in 1..Len(v) : Sane(v[i])
  BY <1>1, <1>2, <1>3
<1>. QED  BY <1>1, <1>2, <1>4, <1>6, <1>7, <1>8 DEF Good, v

\* A packet that is read.
LEMMA HeadRead ==
    ASSUME NEW w, NEW lo, NEW hi, Good(w, lo, hi), w # <<>>
    PROVE  /\ Good(Tail(w), IF IsUpper(Head(w)) THEN Head(w).n ELSE lo, hi)
           /\ Settled(w) => Settled(Tail(w))
           /\ Sane(Head(w))
<1>. DEFINE v == Tail(w)
            p == Head(w)
            low == IF IsUpper(p) THEN p.n ELSE lo
<1>1. /\ IsSeq(w) /\ lo \in Nat /\ hi \in Nat /\ lo <= hi
      /\ Numbered(w, lo, hi) /\ Quiet(w)
      /\ \A i \in 1..Len(w) : Sane(w[i])
  BY DEF Good
<1>2. /\ IsSeq(v) /\ Len(v) = Len(w) - 1 /\ p = w[1]
      /\ \A i \in 1..Len(v) : v[i] = w[i + 1]
      /\ Len(w) \in Nat /\ Len(w) > 0
  BY <1>1, Rest, Length
<1>. HIDE DEF v, p
<1>3. /\ \A i \in 1..Len(v) : i + 1 \in 1..Len(w)
      /\ \A i \in 2..Len(w) : i - 1 \in 1..Len(v) /\ v[i - 1] = w[i]
      /\ 1 \in 1..Len(w)
  BY <1>2
<1>4. IsUpper(p) => p.n = lo + 1 /\ lo < hi
  <2>. SUFFICES ASSUME IsUpper(p)
                PROVE  p.n = lo + 1 /\ lo < hi
    OBVIOUS
  <2>1. p.n \in lo + 1..hi
    BY <1>1, <1>2, <1>3 DEF Numbered
  <2>2. PICK i \in 1..Len(w) : IsUpper(w[i]) /\ w[i].n = lo + 1
    BY <2>1, <1>1 DEF Numbered
  <2>3. i # 1 => p.n < lo + 1
    BY <2>2, <1>1, <1>2, <1>3 DEF Numbered
  <2>. QED  BY <2>1, <2>2, <2>3, <1>1, <1>2
<1>5. /\ low \in Nat /\ low <= hi /\ lo <= low
      /\ low = IF IsUpper(p) THEN lo + 1 ELSE lo
  BY <1>1, <1>4
<1>. HIDE DEF low
<1>6. Numbered(v, low, hi)
  <2>1. ASSUME NEW j \in 1..Len(v), IsUpper(v[j])
        PROVE  v[j].n \in low + 1..hi
    <3>1. IsUpper(w[j + 1]) /\ j + 1 \in 1..Len(w) /\ v[j] = w[j + 1]
      BY <2>1, <1>2, <1>3
    <3>2. w[j + 1].n \in lo + 1..hi
      BY <3>1, <1>1 DEF Numbered
    <3>3. IsUpper(p) => p.n < w[j + 1].n
      BY <3>1, <1>1, <1>2, <1>3 DEF Numbered
    <3>. QED  BY <3>1, <3>2, <3>3, <1>1, <1>4, <1>5
  <2>2. ASSUME NEW i \in 1..Len(v), NEW j \in 1..Len(v), i < j,
               IsUpper(v[i]), IsUpper(v[j])
        PROVE  v[i].n < v[j].n
    <3>1. /\ i + 1 \in 1..Len(w) /\ j + 1 \in 1..Len(w) /\ i + 1 < j + 1
          /\ v[i] = w[i + 1] /\ v[j] = w[j + 1]
      BY <2>2, <1>2, <1>3
    <3>. QED  BY <3>1, <2>2, <1>1 DEF Numbered
  <2>3. ASSUME NEW n \in low + 1..hi
        PROVE  \E i \in 1..Len(v) : IsUpper(v[i]) /\ v[i].n = n
    <3>1. PICK i \in 1..Len(w) : IsUpper(w[i]) /\ w[i].n = n
      <4>1. n \in lo + 1..hi
        BY <1>1, <1>5
      <4>. QED  BY <4>1, <1>1 DEF Numbered
    <3>2. i # 1
      BY <3>1, <1>1, <1>2, <1>4, <1>5
    <3>. QED  BY <3>1, <3>2, <1>2, <1>3
  <2>. QED  BY <2>1, <2>2, <2>3 DEF Numbered
<1>7. Quiet(v)
  <2>. SUFFICES ASSUME NEW i \in 1..Len(v), NEW j \in 1..Len(v), i < j,
                       v[i].t = "KEXINIT", IsUpper(v[j])
                PROVE  \E k \in i..j : v[k].t = "NEWKEYS"
    BY DEF Quiet
  <2>1. /\ i + 1 \in 1..Len(w) /\ j + 1 \in 1..Len(w) /\ i + 1 < j + 1
        /\ v[i] = w[i + 1] /\ v[j] = w[j + 1]
    BY <1>2, <1>3
  <2>2. PICK k \in i + 1..j + 1 : w[k].t = "NEWKEYS"
    BY <2>1, <1>1 DEF Quiet
  <2>3. k - 1 \in i..j /\ k \in 2..Len(w)
    BY <2>1, <2>2, <1>2
  <2>. QED  BY <2>2, <2>3, <1>3
<1>8. Settled(w) => Settled(v)
  <2>. SUFFICES ASSUME Settled(w), NEW i \in 1..Len(v), v[i].t = "KEXINIT"
                PROVE  \E k \in i..Len(v) : v[k].t = "NEWKEYS"
    BY DEF Settled
  <2>1. i + 1 \in 1..Len(w) /\ v[i] = w[i + 1]
    BY <1>2, <1>3
  <2>2. PICK k \in i + 1..Len(w) : w[k].t = "NEWKEYS"
    BY <2>1 DEF Settled
  <2>3. k - 1 \in i..Len(v) /\ k \in 2..Len(w)
    BY <2>1, <2>2, <1>2
  <2>. QED  BY <2>2, <2>3, <1>3
<1>9. Sane(p) /\ \A i \in 1..Len(v) : Sane(v[i])
  BY <1>1, <1>2, <1>3
<1>10. Good(v, low, hi)
  BY <1>1, <1>2, <1>5, <1>6, <1>7, <1>9 DEF Good
<1>. QED  BY <1>8, <1>9, <1>10 DEF low, v, p

\* What is read from one end of a wire.
LEMMA ReadFromNet ==
    ASSUME NEW q, NEW r, IsSeq(q), IsSeq(r), q # <<>>
    PROVE  /\ q \o r # <<>> /\ Head(q \o r) = Head(q)
           /\ Tail(q \o r) = Tail(q) \o r
<1>. PICK S : q \in Seq(S)
  BY DEF IsSeq
<1>. PICK T : r \in Seq(T)
  BY DEF IsSeq
<1>1. q \in Seq(S \cup T) /\ r \in Seq(S \cup T)
  BY SeqMonotonic
<1>. DEFINE V == S \cup T
<1>2. q \in Seq(V) /\ r \in Seq(V)
  BY <1>1
<1>. HIDE DEF V
<1>. QED  BY <1>2

---------------------------------------------------------------------------
(* One end, whose packets under way are N, the last one read being lo *)

LEMMA SameFacts ==
    ASSUME NEW s, NEW x
    PROVE  /\ Same(s, x, Fields) <=>
                Fields \subseteq DOMAIN x /\ Same(s, x, Control) /\ Same(s, x, Queues)
           /\ Same(s, x, Control) =>
                /\ x.exited = s.exited /\ x.dataallowed = s.dataallowed
                /\ x.sentkexinit = s.sentkexinit
                /\ x.sentnewkeys = s.sentnewkeys /\ x.authdone = s.authdone
           /\ Same(s, x, Queues) =>
                /\ x.handed = s.handed /\ x.replyq = s.replyq
                /\ x.writequeue = s.writequeue
BY DEF Same, Fields, Control, Queues

LEMMA SenderSame ==
    ASSUME NEW s, NEW x, NEW N, NEW lo, Sender(s, N, lo), Same(s, x, Queues),
           x.dataallowed = s.dataallowed
    PROVE  Sender(x, N, lo) /\ (Flushed(s) => Flushed(x))
<1>1. /\ Fields \subseteq DOMAIN x /\ x.handed = s.handed
      /\ x.replyq = s.replyq /\ x.writequeue = s.writequeue
  BY SameFacts DEF Same
<1>. QED  BY <1>1 DEF Sender, Held, Flushed

LEMMA SteadySame ==
    ASSUME NEW s, NEW x, NEW N, NEW lo, Steady(s, N, lo), Same(s, x, Fields)
    PROVE  Steady(x, N, lo) /\ x.authdone = s.authdone /\ x.exited = s.exited
<1>1. /\ Same(s, x, Queues) /\ x.dataallowed = s.dataallowed
      /\ x.exited = s.exited /\ x.sentkexinit = s.sentkexinit
      /\ x.sentnewkeys = s.sentnewkeys /\ x.authdone = s.authdone
  BY SameFacts
<1>. QED  BY <1>1, SenderSame DEF Steady, Exchanging

\* encrypt_packet() of anything but a KEXINIT.
LEMMA Encrypted ==
    ASSUME NEW s, NEW t, NEW b, NEW N, NEW lo, Sender(s, N, lo),
           t # "KEXINIT", t \in UpperType => Flushed(s),
           Sane([t |-> t, b |-> b])
    PROVE  /\ Sender(EncryptPacket(s, t, b), N, lo)
           /\ Same(s, EncryptPacket(s, t, b), Control)
           /\ Flushed(s) => Flushed(EncryptPacket(s, t, b))
           /\ t = "NEWKEYS" =>
                Settled(N \o EncryptPacket(s, t, b).writequeue)
<1>. DEFINE p == [t |-> t, b |-> b, n |-> s.handed + 1]
            q == Sealed(s, p)
            w == N \o s.writequeue
            x == EncryptPacket(s, t, b)
<1>1. /\ Fields \subseteq DOMAIN s /\ s.dataallowed \in BOOLEAN
      /\ s.handed \in Nat /\ Len(s.replyq) <= s.handed
      /\ IsSeq(s.writequeue) /\ IsSeq(s.replyq) /\ IsSeq(N)
      /\ Good(w, lo, s.handed - Len(s.replyq))
      /\ s.dataallowed => Settled(w)
      /\ Held(s)
  BY DEF Sender
<1>2. /\ p.t = t /\ p.n = s.handed + 1 /\ Sane(p)
      /\ q.t = t /\ q.n = s.handed + 1 /\ Sane(q)
  BY DEF Sane, Sealed
<1>3. /\ N \o Append(s.writequeue, q) = Append(w, q)
      /\ IsSeq(Append(s.writequeue, q))
  BY <1>1, Regroup, AppendOne
<1>4. Len(s.replyq) \in Nat
  BY <1>1, Length
<1>. HIDE DEF p, q, w
<1>5. x = IF ~s.dataallowed /\ ~PacketIsOkayKex(t)
          THEN [(IF t \in UpperType THEN [s EXCEPT !.handed = @ + 1] ELSE s)
                  EXCEPT !.replyq = Append(@, p)]
          ELSE [(IF t \in UpperType THEN [s EXCEPT !.handed = @ + 1] ELSE s)
                  EXCEPT !.writequeue = Append(@, q)]
  BY DEF EncryptPacket, p, q
<1>. HIDE DEF x
<1>6. CASE ~s.dataallowed /\ ~PacketIsOkayKex(t)
  <2>1. t \in UpperType
    BY <1>6 DEF PacketIsOkayKex
  <2>2. /\ x.handed = s.handed + 1 /\ x.replyq = Append(s.replyq, p)
        /\ x.writequeue = s.writequeue /\ Same(s, x, Control)
    BY <2>1, <1>1, <1>5, <1>6 DEF Same, Fields, Control, Queues
  <2>3. x.dataallowed = s.dataallowed /\ Fields \subseteq DOMAIN x
    BY <2>2, SameFacts DEF Same
  <2>4. /\ IsSeq(x.replyq) /\ Len(x.replyq) = Len(s.replyq) + 1
        /\ \A i \in 1..Len(s.replyq) : x.replyq[i] = s.replyq[i]
        /\ x.replyq[Len(s.replyq) + 1] = p
    BY <2>2, <1>1, AppendOne
  <2>5. Held(x)
    <3>. SUFFICES ASSUME NEW i \in 1..Len(x.replyq)
                  PROVE  /\ IsUpper(x.replyq[i]) /\ Sane(x.replyq[i])
                         /\ x.replyq[i].n = x.handed - Len(x.replyq) + i
      BY DEF Held
    <3>1. CASE i \in 1..Len(s.replyq)
      <4>1. /\ IsUpper(s.replyq[i]) /\ Sane(s.replyq[i])
            /\ s.replyq[i].n = s.handed - Len(s.replyq) + i
        BY <3>1, <1>1 DEF Held
      <4>. QED  BY <4>1, <3>1, <2>2, <2>4, <1>1, <1>4
    <3>2. CASE i = Len(s.replyq) + 1
      <4>1. x.replyq[i] = p
        BY <3>2, <2>4
      <4>. QED  BY <4>1, <3>2, <2>1, <2>2, <2>4, <1>1, <1>2, <1>4 DEF IsUpper
    <3>. QED  BY <3>1, <3>2, <2>4, <1>4
  <2>6. x.handed - Len(x.replyq) = s.handed - Len(s.replyq)
    BY <2>2, <2>4, <1>1, <1>4
  <2>7. Sender(x, N, lo)
    BY <2>2, <2>3, <2>4, <2>5, <2>6, <1>1, <1>4, <1>6 DEF Sender, w
  <2>8. ~x.dataallowed /\ t # "NEWKEYS"
    BY <2>1, <2>3, <1>6, KexIsLower
  <2>. QED  BY <2>2, <2>7, <2>8 DEF Flushed, x
<1>7. CASE s.dataallowed /\ t \in UpperType
  <2>1. /\ x.handed = s.handed + 1 /\ x.replyq = s.replyq
        /\ x.writequeue = Append(s.writequeue, q) /\ Same(s, x, Control)
    BY <1>1, <1>5, <1>7 DEF Same, Fields, Control, Queues
  <2>2. x.dataallowed = s.dataallowed /\ Fields \subseteq DOMAIN x
    BY <2>1, SameFacts DEF Same
  <2>3. s.replyq = <<>> /\ Len(s.replyq) = 0
    BY <1>7, Empty DEF Flushed
  <2>4. Good(Append(w, q), lo, s.handed + 1) /\ Settled(Append(w, q))
    <3>1. Good(w, lo, s.handed)
      BY <2>3, <1>1
    <3>. QED  BY <3>1, <1>1, <1>2, <1>7, UpperAppended
  <2>5. x.handed - Len(x.replyq) = s.handed + 1
    BY <2>1, <2>3, <1>1
  <2>6. Held(x)
    BY <2>1, <2>3 DEF Held
  <2>7. Sender(x, N, lo)
    BY <2>1, <2>2, <2>3, <2>4, <2>5, <2>6, <1>1, <1>3 DEF Sender
  <2>. QED  BY <2>1, <2>3, <2>4, <2>7, <1>3 DEF Flushed, x
<1>8. CASE t \notin UpperType
  <2>1. PacketIsOkayKex(t)
    BY <1>8 DEF PacketIsOkayKex
  <2>2. /\ x.handed = s.handed /\ x.replyq = s.replyq
        /\ x.writequeue = Append(s.writequeue, q) /\ Same(s, x, Control)
    BY <2>1, <1>1, <1>5, <1>8 DEF Same, Fields, Control, Queues
  <2>3. x.dataallowed = s.dataallowed /\ Fields \subseteq DOMAIN x
    BY <2>2, SameFacts DEF Same
  <2>4. /\ Good(Append(w, q), lo, s.handed - Len(s.replyq))
        /\ s.dataallowed => Settled(Append(w, q))
        /\ t = "NEWKEYS" => Settled(Append(w, q))
    BY <1>1, <1>2, <1>8, LowerAppended
  <2>5. Held(x)
    BY <2>2, <1>1 DEF Held
  <2>6. Sender(x, N, lo)
    BY <2>2, <2>3, <2>4, <2>5, <1>1, <1>3 DEF Sender
  <2>. QED  BY <2>2, <2>3, <2>4, <2>6, <1>3 DEF Flushed, x
<1>. QED  BY <1>1, <1>6, <1>7, <1>8 DEF PacketIsOkayKex

LEMMA SenderForm ==
    ASSUME NEW s, NEW N, NEW lo, Sender(s, N, lo)
    PROVE  Fields \subseteq DOMAIN s
BY DEF Sender

\* The same for an end that may be before or behind a flush.
LEMMA EncryptedSteady ==
    ASSUME NEW s, NEW t, NEW b, NEW N, NEW lo, Steady(s, N, lo),
           t # "KEXINIT", Sane([t |-> t, b |-> b])
    PROVE  /\ Steady(EncryptPacket(s, t, b), N, lo)
           /\ EncryptPacket(s, t, b).authdone = s.authdone
<1>. DEFINE x == EncryptPacket(s, t, b)
<1>1. Sender(x, N, lo) /\ Same(s, x, Control) /\ Flushed(x)
  BY Encrypted DEF Steady
<1>. HIDE DEF x
<1>2. /\ x.exited = s.exited /\ x.dataallowed = s.dataallowed
      /\ x.sentkexinit = s.sentkexinit
      /\ x.sentnewkeys = s.sentnewkeys /\ x.authdone = s.authdone
  BY <1>1, SameFacts
<1>3. Exchanging(x)
  BY <1>2 DEF Steady, Exchanging
<1>. QED  BY <1>1, <1>2, <1>3 DEF Steady, x

LEMMA Exited ==
    ASSUME NEW s, NEW why, NEW N, NEW lo, Sender(s, N, lo), why # "no",
           s.sentkexinit \in BOOLEAN, s.sentnewkeys \in BOOLEAN
    PROVE  /\ Sender(Exit(s, why), N, lo) /\ Exchanging(Exit(s, why))
           /\ Flushed(s) => Flushed(Exit(s, why))
           /\ Exit(s, why).authdone = s.authdone
<1>. DEFINE x == Exit(s, why)
<1>1. /\ Same(s, x, Queues) /\ x.dataallowed = s.dataallowed
      /\ x.exited = why /\ x.sentkexinit = s.sentkexinit
      /\ x.sentnewkeys = s.sentnewkeys /\ x.authdone = s.authdone
  BY SenderForm DEF Exit, Same, Fields, Queues, Control
<1>. HIDE DEF x
<1>2. Sender(x, N, lo) /\ (Flushed(s) => Flushed(x))
  BY <1>1, SenderSame
<1>3. Exchanging(x)
  BY <1>1 DEF Exchanging
<1>. QED  BY <1>1, <1>2, <1>3 DEF x

\* maybe_flush_reply_queue()
LEMMA FlushedReplies ==
    ASSUME NEW s, NEW N, NEW lo, Sender(s, N, lo), Exchanging(s)
    PROVE  /\ Steady(MaybeFlushReplyQueue(s), N, lo)
           /\ MaybeFlushReplyQueue(s).authdone = s.authdone
<1>. DEFINE rs == [i \in 1..Len(s.replyq) |-> Sealed(s, s.replyq[i])]
            x == MaybeFlushReplyQueue(s)
            w == N \o s.writequeue
<1>1. /\ Fields \subseteq DOMAIN s /\ s.dataallowed \in BOOLEAN
      /\ s.handed \in Nat /\ Len(s.replyq) <= s.handed
      /\ IsSeq(s.writequeue) /\ IsSeq(s.replyq) /\ IsSeq(N)
      /\ Good(w, lo, s.handed - Len(s.replyq))
      /\ s.dataallowed => Settled(w)
      /\ Held(s)
  BY DEF Sender
<1>2. CASE ~s.dataallowed
  <2>1. x = s
    BY <1>2 DEF MaybeFlushReplyQueue
  <2>. QED  BY <2>1, <1>2 DEF Steady, Flushed
<1>3. CASE s.dataallowed
  <2>1. Len(s.replyq) \in Nat
    BY <1>1, Length
  <2>2. IsSeq(rs) /\ Len(rs) = Len(s.replyq)
    <3>1. rs \in [1..Len(s.replyq) -> {rs[i] : i \in 1..Len(s.replyq)}]
      OBVIOUS
    <3>2. rs \in Seq({rs[i] : i \in 1..Len(s.replyq)})
      BY <3>1, <2>1, SeqDef
    <3>3. DOMAIN rs = 1..Len(s.replyq)
      OBVIOUS
    <3>. HIDE DEF rs
    <3>. QED  BY <3>2, <3>3, <2>1, LenProperties DEF IsSeq
  <2>3. ASSUME NEW i \in 1..Len(rs)
        PROVE  /\ IsUpper(rs[i]) /\ Sane(rs[i])
               /\ rs[i].n = (s.handed - Len(s.replyq)) + i
    <3>1. i \in 1..Len(s.replyq)
      BY <2>2
    <3>2. /\ rs[i].t = s.replyq[i].t /\ rs[i].b = s.replyq[i].b
          /\ rs[i].n = s.replyq[i].n
      BY <3>1 DEF Sealed
    <3>3. /\ IsUpper(s.replyq[i]) /\ Sane(s.replyq[i])
          /\ s.replyq[i].n = s.handed - Len(s.replyq) + i
      BY <3>1, <1>1 DEF Held
    <3>. HIDE DEF rs
    <3>. QED  BY <3>2, <3>3, <2>1, <1>1 DEF IsUpper, Sane
  <2>4. x = [s EXCEPT !.replyq = <<>>, !.writequeue = @ \o rs]
    BY <1>3 DEF MaybeFlushReplyQueue
  <2>. HIDE DEF rs, x
  <2>5. /\ Same(s, x, Control) /\ x.handed = s.handed /\ x.replyq = <<>>
        /\ x.writequeue = s.writequeue \o rs
    BY <2>4, <1>1 DEF Same, Fields, Control, Queues
  <2>. HIDE DEF w
  <2>6. N \o x.writequeue = w \o rs /\ IsSeq(x.writequeue)
    <3>1. (N \o s.writequeue) \o rs = N \o (s.writequeue \o rs)
      <4>1. PICK q : q = s.writequeue
        OBVIOUS
      <4>2. PICK r : r = rs
        OBVIOUS
      <4>3. IsSeq(N) /\ IsSeq(q) /\ IsSeq(r)
        BY <2>2, <1>1, <4>1, <4>2
      <4>4. (N \o q) \o r = N \o (q \o r)
        BY ONLY <4>3, Associates
      <4>. QED  BY <4>1, <4>2, <4>4
    <3>2. IsSeq(s.writequeue \o rs)
      BY <2>2, <1>1, Concat
    <3>. QED  BY <3>1, <3>2, <2>5 DEF w
  <2>7. /\ Good(w \o rs, lo, (s.handed - Len(s.replyq)) + Len(rs))
        /\ Settled(w \o rs)
    BY <2>2, <2>3, <1>1, <1>3, QueueAppended
  <2>8. (s.handed - Len(s.replyq)) + Len(rs) = x.handed - Len(x.replyq)
    BY <2>1, <2>2, <2>5, <1>1, Empty
  <2>9. Sender(x, N, lo) /\ Flushed(x)
    <3>1. Held(x) /\ IsSeq(x.replyq) /\ Len(x.replyq) <= x.handed
      BY <2>5, <1>1, Empty DEF Held
    <3>2. Fields \subseteq DOMAIN x /\ x.dataallowed = s.dataallowed
      BY <2>5, SameFacts DEF Same
    <3>. QED  BY <3>1, <3>2, <2>5, <2>6, <2>7, <2>8, <1>1 DEF Sender, Flushed, w
  <2>10. /\ x.exited = s.exited /\ x.dataallowed = s.dataallowed
         /\ x.sentkexinit = s.sentkexinit
         /\ x.sentnewkeys = s.sentnewkeys /\ x.authdone = s.authdone
    BY <2>5, SameFacts
  <2>11. Exchanging(x)
    BY <2>10 DEF Exchanging
  <2>. QED  BY <2>9, <2>10, <2>11 DEF Steady, x
<1>. QED  BY <1>1, <1>2, <1>3

LEMMA KexdhInitSent ==
    ASSUME NEW s, NEW N, NEW lo, Steady(s, N, lo)
    PROVE  /\ Steady(SendKexdhInit(s), N, lo)
           /\ SendKexdhInit(s).authdone = s.authdone
<1>. DEFINE fresh == s.param = NoParam \/ s.param.algo # s.newkeys.algo
            c == IF fresh THEN s.drawn + 1 ELSE s.param.x
            s1 == [s EXCEPT !.drawn = IF fresh THEN @ + 1 ELSE @,
                            !.param = [algo |-> s.newkeys.algo, x |-> c]]
            b == [algo |-> s.newkeys.algo, x |-> c]
<1>1. SendKexdhInit(s) = EncryptPacket(s1, "KEXDH_INIT", b)
  BY DEF SendKexdhInit
<1>2. Same(s, s1, Fields)
  BY SenderForm DEF Steady, Same, Fields, Control, Queues
<1>3. Sane([t |-> "KEXDH_INIT", b |-> b])
  BY DEF Sane
<1>. HIDE DEF s1, b
<1>4. Steady(s1, N, lo) /\ s1.authdone = s.authdone
  BY <1>2, SteadySame
<1>. QED  BY <1>1, <1>3, <1>4, EncryptedSteady

\* send_msg_kexinit(), while no exchange is going on.
LEMMA KexinitSent ==
    ASSUME NEW s, NEW e, NEW N, NEW lo, Steady(s, N, lo), s.dataallowed,
           ~s.sentnewkeys
    PROVE  /\ Steady(SendKexinit(e, s), N, lo)
           /\ SendKexinit(e, s).authdone = s.authdone
<1>. DEFINE c == s.drawn + 1
            s0 == [s EXCEPT !.drawn = c]
            b == [cookie |-> c, first_follows |-> e = "C"]
            s1 == EncryptPacket(s0, "KEXINIT", b)
            s2 == [s1 EXCEPT !.transkexinit = c, !.dataallowed = FALSE,
                             !.sentkexinit = TRUE,
                             !.newkeys = NewContext("first")]
            p == [t |-> "KEXINIT", b |-> b, n |-> s.handed + 1]
            q == Sealed(s0, p)
            w == N \o s.writequeue
<1>1. SendKexinit(e, s) = IF e = "C" THEN SendKexdhInit(s2) ELSE s2
  BY DEF SendKexinit
<1>2. /\ Fields \subseteq DOMAIN s /\ s.replyq = <<>>
      /\ s.handed \in Nat /\ IsSeq(s.writequeue) /\ IsSeq(N)
      /\ Good(w, lo, s.handed - Len(s.replyq))
  BY DEF Steady, Sender, Flushed
<1>3. s1 = [s0 EXCEPT !.writequeue = Append(@, q)]
  <2>1. Same(s, s0, Fields)
    BY <1>2 DEF Same, Fields, Control, Queues
  <2>2. s0.dataallowed /\ s0.handed = s.handed
    BY <2>1 DEF Same, Fields, Control, Queues
  <2>. HIDE DEF s0
  <2>. QED  BY <2>2, KexIsLower DEF EncryptPacket
<1>4. /\ s2.writequeue = Append(s.writequeue, q) /\ s2.handed = s.handed
      /\ s2.replyq = <<>> /\ s2.dataallowed = FALSE /\ s2.sentkexinit = TRUE
      /\ s2.sentnewkeys = s.sentnewkeys /\ s2.authdone = s.authdone
      /\ Fields \subseteq DOMAIN s2
  <2>. HIDE DEF q
  <2>. QED  BY <1>2, <1>3 DEF Fields, Control, Queues
<1>5. q.t = "KEXINIT"
  BY DEF Sealed
<1>. HIDE DEF s2, q, w
<1>6. N \o s2.writequeue = Append(w, q) /\ IsSeq(s2.writequeue)
  BY <1>2, <1>4, Regroup, AppendOne DEF w
<1>7. Good(Append(w, q), lo, s2.handed - Len(s2.replyq))
  BY <1>2, <1>4, <1>5, LowerAppended, KexIsLower
<1>8. Sender(s2, N, lo) /\ Flushed(s2)
  <2>1. Held(s2) /\ IsSeq(s2.replyq) /\ Len(s2.replyq) <= s2.handed
    BY <1>2, <1>4, Empty DEF Held
  <2>. QED  BY <2>1, <1>2, <1>4, <1>6, <1>7 DEF Sender, Flushed
<1>9. Exchanging(s2)
  BY <1>4 DEF Steady, Exchanging
<1>10. Steady(s2, N, lo)
  BY <1>8, <1>9 DEF Steady
<1>. QED  BY <1>1, <1>4, <1>10, KexdhInitSent

---------------------------------------------------------------------------
(* Handlers: what they make of a session s before the queue is flushed *)

Handled(s, x, N, lo) ==
    Sender(x, N, lo) /\ Exchanging(x) /\ x.authdone = s.authdone

LEMMA SteadyHandled ==
    ASSUME NEW s, NEW x, NEW N, NEW lo, Steady(x, N, lo),
           x.authdone = s.authdone
    PROVE  Handled(s, x, N, lo)
BY DEF Handled, Steady

LEMMA KexinitReceived ==
    ASSUME NEW s, NEW e, NEW b, NEW a, NEW N, NEW lo, Steady(s, N, lo),
           s.exited = "no"
    PROVE  Handled(s, RecvKexinit(e, s, b, a), N, lo)
<1>. DEFINE s1 == IF s.sentkexinit THEN s ELSE SendKexinit(e, s)
            s2 == ReadKexAlgos(e, s1, b, a)
            x == RecvKexinit(e, s, b, a)
<1>1. Steady(s1, N, lo) /\ s1.authdone = s.authdone
  BY KexinitSent DEF Steady, Exchanging
<1>2. x = [s2 EXCEPT
           !.kexhash = IF e = "C" THEN [c |-> s1.transkexinit, s |-> b.cookie]
                                  ELSE [c |-> b.cookie, s |-> s1.transkexinit],
           !.requirenext = IF e = "C" THEN "KEXDH_REPLY" ELSE "KEXDH_INIT",
           !.transkexinit = 0, !.recvkexinit = TRUE]
  BY DEF RecvKexinit
<1>. HIDE DEF s1, x
<1>3. Fields \subseteq DOMAIN s1
  BY <1>1, SenderForm DEF Steady
<1>4. Same(s1, s2, Fields)
  BY <1>3 DEF ReadKexAlgos, Same, Fields, Control, Queues
<1>. HIDE DEF s2
<1>5. Same(s1, x, Fields)
  BY <1>2, <1>4 DEF Same, Fields, Control, Queues
<1>6. Steady(x, N, lo) /\ x.authdone = s.authdone
  BY <1>1, <1>5, SteadySame
<1>. QED  BY <1>6, SteadyHandled DEF x

\* switch_keys(), with or without replies that wait for the end of the
\* exchange.
LEMMA KeysSwitched ==
    ASSUME NEW s, NEW N, NEW lo, Sender(s, N, lo), s.sentkexinit \in BOOLEAN,
           s.sentnewkeys \in BOOLEAN, s.sentnewkeys => s.dataallowed
    PROVE  Handled(s, SwitchKeys(s), N, lo)
<1>. DEFINE s1 == [s EXCEPT
                 !.keys.recv = IF s.recvnewkeys /\ s.newkeys.recv # NoKeys
                               THEN s.newkeys.recv ELSE @,
                 !.newkeys.recv = IF s.recvnewkeys THEN NoKeys ELSE @,
                 !.keys.trans = IF s.sentnewkeys /\ s.newkeys.trans # NoKeys
                                THEN s.newkeys.trans ELSE @,
                 !.newkeys.trans = IF s.sentnewkeys THEN NoKeys ELSE @]
            s2 == [s1 EXCEPT !.newkeys = NoContext]
            x == SwitchKeys(s)
<1>1. x = IF ~(s.sentkexinit /\ s.recvkexinit)
          THEN Exit(s, "unexpected newkeys")
          ELSE IF s.sentnewkeys /\ s.recvnewkeys THEN KexInitialise(s2)
          ELSE s1
  BY DEF SwitchKeys
<1>2. Same(s, s1, Fields)
  BY SenderForm DEF Same, Fields, Control, Queues
<1>3. Same(s, s2, Fields)
  <2>. HIDE DEF s1
  <2>. QED  BY <1>2 DEF Same, Fields, Control, Queues
<1>. HIDE DEF s1, s2, x
<1>4. CASE ~(s.sentkexinit /\ s.recvkexinit)
  <2>1. x = Exit(s, "unexpected newkeys")
    BY <1>1, <1>4
  <2>2. /\ Sender(Exit(s, "unexpected newkeys"), N, lo)
        /\ Exchanging(Exit(s, "unexpected newkeys"))
        /\ Exit(s, "unexpected newkeys").authdone = s.authdone
    BY Exited
  <2>. QED  BY <2>1, <2>2 DEF Handled, x
<1>5. CASE /\ s.sentkexinit /\ s.recvkexinit
           /\ s.sentnewkeys /\ s.recvnewkeys
  <2>1. x = KexInitialise(s2)
    BY <1>1, <1>5
  <2>2. /\ Same(s, x, Queues) /\ x.dataallowed = s.dataallowed
        /\ x.sentkexinit = FALSE /\ x.sentnewkeys = FALSE
        /\ x.authdone = s.authdone
    BY <2>1, <1>3 DEF KexInitialise, Same, Fields, Control, Queues
  <2>3. Sender(x, N, lo)
    BY <2>2, SenderSame
  <2>. QED  BY <2>2, <2>3, <1>5 DEF Handled, Exchanging, x
<1>6. CASE /\ s.sentkexinit /\ s.recvkexinit
           /\ ~(s.sentnewkeys /\ s.recvnewkeys)
  <2>1. x = s1
    BY <1>1, <1>6
  <2>2. /\ Same(s, x, Queues) /\ x.dataallowed = s.dataallowed
        /\ x.sentkexinit = s.sentkexinit /\ x.sentnewkeys = s.sentnewkeys
        /\ x.authdone = s.authdone
    BY <2>1, <1>2, SameFacts
  <2>3. Sender(x, N, lo)
    BY <2>2, SenderSame
  <2>. QED  BY <2>2, <2>3, <1>6 DEF Handled, Exchanging, x
<1>. QED  BY <1>4, <1>5, <1>6

LEMMA NewkeysReceived ==
    ASSUME NEW s, NEW N, NEW lo, Steady(s, N, lo), s.exited = "no"
    PROVE  Handled(s, RecvNewkeys(s), N, lo)
<1>. DEFINE x == [s EXCEPT !.recvnewkeys = TRUE]
<1>1. Same(s, x, Fields)
  BY SenderForm DEF Steady, Same, Fields, Control, Queues
<1>. HIDE DEF x
<1>2. Steady(x, N, lo) /\ x.authdone = s.authdone /\ x.exited = "no"
  BY <1>1, SteadySame
<1>3. Handled(x, SwitchKeys(x), N, lo)
  BY <1>2, KeysSwitched DEF Steady, Exchanging
<1>. QED  BY <1>2, <1>3 DEF Handled, RecvNewkeys, x

LEMMA NewkeysSent ==
    ASSUME NEW s, NEW k, NEW N, NEW lo, Steady(s, N, lo)
    PROVE  Handled(s, SendNewkeys(s, k), N, lo)
<1>. DEFINE s1 == EncryptPacket(s, "NEWKEYS", 0)
            s2 == [s1 EXCEPT !.sentnewkeys = TRUE, !.donefirstkex = TRUE,
                             !.dataallowed = TRUE]
            s3 == GenNewKeys(s2, k)
<1>1. SendNewkeys(s, k) = SwitchKeys(s3)
  BY DEF SendNewkeys
<1>2. /\ Sender(s1, N, lo) /\ Settled(N \o s1.writequeue)
      /\ s1.authdone = s.authdone /\ s1.sentkexinit = s.sentkexinit
  <2>1. Sane([t |-> "NEWKEYS", b |-> 0])
    BY DEF Sane
  <2>. HIDE DEF s1
  <2>2. Sender(s1, N, lo) /\ Settled(N \o s1.writequeue) /\ Same(s, s1, Control)
    BY <2>1, Encrypted, KexIsLower DEF Steady, s1
  <2>. QED  BY <2>2, SameFacts
<1>. HIDE DEF s1
<1>3. /\ Same(s1, s3, Queues) /\ s3.dataallowed = TRUE /\ s3.sentnewkeys = TRUE
      /\ s3.authdone = s.authdone /\ s3.sentkexinit = s.sentkexinit
  BY <1>2, SenderForm DEF GenNewKeys, Same, Fields, Control, Queues
<1>. HIDE DEF s3
<1>4. Sender(s3, N, lo)
  <2>1. /\ s3.handed = s1.handed /\ s3.replyq = s1.replyq
        /\ s3.writequeue = s1.writequeue /\ Fields \subseteq DOMAIN s3
    BY <1>3, SameFacts DEF Same
  <2>. QED  BY <2>1, <1>2, <1>3 DEF Sender, Held
<1>5. Handled(s3, SwitchKeys(s3), N, lo)
  BY <1>3, <1>4, KeysSwitched DEF Steady, Exchanging
<1>. QED  BY <1>1, <1>3, <1>5 DEF Handled

LEMMA HandledRequires ==
    ASSUME NEW s, NEW x, NEW r, NEW N, NEW lo, Handled(s, x, N, lo)
    PROVE  Handled(s, [x EXCEPT !.requirenext = r], N, lo)
<1>. DEFINE y == [x EXCEPT !.requirenext = r]
<1>1. Same(x, y, Fields)
  BY SenderForm DEF Handled, Same, Fields, Control, Queues
<1>. HIDE DEF y
<1>2. /\ Same(x, y, Queues) /\ y.dataallowed = x.dataallowed
      /\ y.exited = x.exited /\ y.sentkexinit = x.sentkexinit
      /\ y.sentnewkeys = x.sentnewkeys /\ y.authdone = x.authdone
  BY <1>1, SameFacts
<1>. QED  BY <1>2, SenderSame DEF Handled, Exchanging, y

LEMMA ExitHandled ==
    ASSUME NEW s, NEW why, NEW N, NEW lo, Steady(s, N, lo), why # "no"
    PROVE  Handled(s, Exit(s, why), N, lo) /\ Steady(Exit(s, why), N, lo)
BY Exited DEF Steady, Exchanging, Handled

LEMMA KexdhInitReceived ==
    ASSUME NEW s, NEW b, NEW N, NEW lo, Steady(s, N, lo)
    PROVE  Handled(s, RecvKexdhInit(s, b), N, lo)
<1>. DEFINE y == s.drawn + 1
            secret == [c |-> s.kexhash.c, s |-> s.kexhash.s, x |-> b.x, y |-> y]
            s0 == [s EXCEPT !.drawn = y]
            d == [y |-> y, signed |-> secret]
            s1 == EncryptPacket(s0, "KEXDH_REPLY", d)
            s2 == SendNewkeys(s1, secret)
<1>1. RecvKexdhInit(s, b) =
        IF ~s.recvkexinit THEN Exit(s, "premature kexdh_init")
        ELSE IF b.algo # s.newkeys.algo THEN Exit(s, "bad kex value")
        ELSE [s2 EXCEPT !.requirenext = "NEWKEYS"]
  BY DEF RecvKexdhInit
<1>2. Same(s, s0, Fields)
  BY SenderForm DEF Steady, Same, Fields, Control, Queues
<1>. HIDE DEF s0, d, secret
<1>3. Steady(s0, N, lo) /\ s0.authdone = s.authdone
  BY <1>2, SteadySame
<1>4. Steady(s1, N, lo) /\ s1.authdone = s.authdone
  BY <1>3, EncryptedSteady DEF Sane
<1>. HIDE DEF s1
<1>5. Handled(s, s2, N, lo)
  BY <1>4, NewkeysSent DEF Handled
<1>. HIDE DEF s2
<1>6. Handled(s, [s2 EXCEPT !.requirenext = "NEWKEYS"], N, lo)
  BY <1>5, HandledRequires
<1>. QED  BY <1>1, <1>6, ExitHandled

LEMMA KexdhReplyReceived ==
    ASSUME NEW s, NEW b, NEW N, NEW lo, Steady(s, N, lo)
    PROVE  Handled(s, RecvKexdhReply(s, b), N, lo)
<1>. DEFINE secret == [c |-> s.kexhash.c, s |-> s.kexhash.s,
                       x |-> s.param.x, y |-> b.y]
            s1 == [s EXCEPT !.param = NoParam]
            s2 == SendNewkeys(s1, secret)
<1>1. RecvKexdhReply(s, b) =
        IF s.kex_state # "KEXDH_INIT_SENT"
        THEN Exit(s, "out-of-order kexdh_reply")
        ELSE IF b.signed # secret THEN Exit(s1, "bad hostkey signature")
        ELSE [s2 EXCEPT !.requirenext = "NEWKEYS"]
  BY DEF RecvKexdhReply
<1>2. Same(s, s1, Fields)
  BY SenderForm DEF Steady, Same, Fields, Control, Queues
<1>. HIDE DEF s1, secret
<1>3. Steady(s1, N, lo) /\ s1.authdone = s.authdone
  BY <1>2, SteadySame
<1>4. Handled(s, Exit(s1, "bad hostkey signature"), N, lo)
  BY <1>3, ExitHandled DEF Handled
<1>5. Handled(s, s2, N, lo)
  BY <1>3, NewkeysSent DEF Handled
<1>. HIDE DEF s2
<1>6. Handled(s, [s2 EXCEPT !.requirenext = "NEWKEYS"], N, lo)
  BY <1>5, HandledRequires
<1>. QED  BY <1>1, <1>4, <1>6, ExitHandled

---------------------------------------------------------------------------
(* process_packet() and the invariant *)

LEMMA Arriving ==
    ASSUME NEW s, NEW t, NEW N, NEW lo, Steady(s, N, lo)
    PROVE  /\ Steady(ForHandler(s, t), N, lo) /\ Steady(Noted(s, t), N, lo)
           /\ ForHandler(s, t).authdone = s.authdone
           /\ ForHandler(s, t).exited = s.exited
           /\ Noted(s, t).authdone = s.authdone
<1>1. Same(s, ForHandler(s, t), Fields) /\ Same(s, Noted(s, t), Fields)
  BY SenderForm DEF Steady, ForHandler, Noted, Same, Fields, Control, Queues
<1>. QED  BY <1>1, SteadySame

\* Whatever becomes of a packet, the flush behind it leaves a steady session.
LEMMA Processed ==
    ASSUME NEW s, NEW h, NEW p, NEW N, NEW lo, Steady(s, N, lo),
           Sender(h, N, lo), Exchanging(h)
    PROVE  LET x == MaybeFlushReplyQueue(Read(s, p, ProcessPacket(s, p.t, h)))
           IN  /\ Steady(x, N, lo)
               /\ x.authdone = s.authdone \/ x.authdone = h.authdone
<1>. DEFINE OK(y) == /\ Sender(y, N, lo) /\ Exchanging(y)
                     /\ y.authdone = s.authdone \/ y.authdone = h.authdone
            g == ProcessPacket(s, p.t, h)
            r == Read(s, p, g)
<1>1. \A why : why # "no" => OK(Exit(s, why))
  BY ExitHandled DEF Handled
<1>2. OK(Noted(s, p.t))
  BY Arriving DEF Steady
<1>3. OK(EncryptPacket(Noted(s, p.t), "UNIMPLEMENTED", 0))
  <2>1. Sane([t |-> "UNIMPLEMENTED", b |-> 0])
    BY DEF Sane
  <2>2. Steady(Noted(s, p.t), N, lo) /\ Noted(s, p.t).authdone = s.authdone
    BY Arriving
  <2>. QED  BY <2>1, <2>2, EncryptedSteady DEF Steady
<1>4. OK([Noted(s, p.t) EXCEPT !.ignorenext = FALSE])
  <2>1. Steady(Noted(s, p.t), N, lo) /\ Noted(s, p.t).authdone = s.authdone
    BY Arriving
  <2>2. Same(Noted(s, p.t), [Noted(s, p.t) EXCEPT !.ignorenext = FALSE], Fields)
    BY <2>1, SenderForm DEF Steady, Same, Fields, Control, Queues
  <2>. QED  BY <2>1, <2>2, SteadySame DEF Steady
<1>5. OK(h)
  OBVIOUS
<1>. HIDE DEF OK
<1>6. OK(g)
  BY <1>1, <1>2, <1>3, <1>4, <1>5 DEF ProcessPacket
<1>. HIDE DEF g
<1>7. OK(r)
  BY <1>1, <1>6 DEF Read
<1>. HIDE DEF r
<1>8. Steady(MaybeFlushReplyQueue(r), N, lo)
      /\ MaybeFlushReplyQueue(r).authdone = r.authdone
  BY <1>7, FlushedReplies DEF OK
<1>. QED  BY <1>7, <1>8 DEF OK, r, g

\* What each step is shown to do.
Kept ==
    /\ IInv'
    /\ ses'["S"].authdone => ses["S"].authdone \/ Proven(Body("S"))

LEMMA PeerFacts ==
    ASSUME NEW e \in End
    PROVE  /\ Peer(e) \in End /\ Peer(e) # e /\ Peer(Peer(e)) = e
           /\ \A f \in End : f = e \/ f = Peer(e)
BY DEF End, Peer

\* A step that reads nothing.
LEMMA Moves ==
    ASSUME IInv, NEW e \in End, NEW x,
           Steady(x, net[Peer(e)], got[Peer(e)]),
           x.authdone = ses[e].authdone,
           ses' = [ses EXCEPT ![e] = x], UNCHANGED <<net, got>>
    PROVE  Kept
<1>1. /\ DOMAIN ses' = End /\ ses'[e] = x
      /\ \A f \in End : f # e => ses'[f] = ses[f]
  BY DEF IInv
<1>2. \A f \in End : Steady(ses'[f], net'[Peer(f)], got'[Peer(f)])
  BY <1>1 DEF IInv
<1>3. "S" \in End
  BY DEF End
<1>. QED  BY <1>1, <1>2, <1>3 DEF IInv, Kept

\* A step that reads a packet.
LEMMA Processes ==
    ASSUME IInv, NEW e \in End, NEW h, net[e] # <<>>, Process(e, h),
           Sender(h, net[Peer(e)], got[Peer(e)]), Exchanging(h),
           e = "S" /\ h.authdone => ses[e].authdone \/ Proven(Body("S"))
    PROVE  Kept
<1>. DEFINE f == Peer(e)
            p == Head(net[e])
            x == MaybeFlushReplyQueue(
                   Read(ses[e], p, ProcessPacket(ses[e], p.t, h)))
<1>1. /\ ses' = [ses EXCEPT ![e] = x]
      /\ net' = [net EXCEPT ![e] = Tail(@)]
      /\ got' = [got EXCEPT ![e] = IF p.t \in UpperType THEN p.n ELSE @]
  BY DEF Process
<1>2. /\ Steady(x, net[f], got[f])
      /\ x.authdone = ses[e].authdone \/ x.authdone = h.authdone
  <2>1. PICK s, n, l : s = ses[e] /\ n = net[f] /\ l = got[f]
    OBVIOUS
  <2>2. Steady(ses[e], net[Peer(e)], got[Peer(e)])
    BY DEF IInv
  <2>3. Steady(s, n, l) /\ Sender(h, n, l) /\ Exchanging(h)
    BY <2>1, <2>2
  <2>. DEFINE y == MaybeFlushReplyQueue(Read(s, p, ProcessPacket(s, p.t, h)))
  <2>. HIDE DEF p
  <2>4. Steady(y, n, l) /\ (y.authdone = s.authdone \/ y.authdone = h.authdone)
    BY <2>3, Processed
  <2>5. x = y
    BY <2>1
  <2>. QED  BY <2>1, <2>4, <2>5
<1>. HIDE DEF x
<1>3. f \in End /\ f # e /\ Peer(f) = e /\ \A d \in End : d = e \/ d = f
  BY PeerFacts
<1>4. /\ DOMAIN ses' = End /\ DOMAIN net' = End /\ DOMAIN got' = End
      /\ ses'[e] = x /\ net'[f] = net[f] /\ got'[f] = got[f]
      /\ ses'[f] = ses[f] /\ net'[e] = Tail(net[e])
      /\ got'[e] = IF IsUpper(p) THEN p.n ELSE got[e]
  <2>1. DOMAIN ses = End /\ DOMAIN net = End /\ DOMAIN got = End
    BY DEF IInv
  <2>2. /\ DOMAIN ses' = End /\ ses'[e] = x /\ ses'[f] = ses[f]
    BY <2>1, <1>1, <1>3
  <2>3. /\ DOMAIN net' = End /\ net'[e] = Tail(net[e]) /\ net'[f] = net[f]
    BY <2>1, <1>1, <1>3
  <2>4. /\ DOMAIN got' = End /\ got'[f] = got[f]
        /\ got'[e] = IF IsUpper(p) THEN p.n ELSE got[e]
    BY <2>1, <1>1, <1>3 DEF IsUpper
  <2>. QED  BY <2>2, <2>3, <2>4
<1>5. Steady(ses[f], net[e], got[e])
  BY <1>3 DEF IInv
<1>6. Steady(ses[f], net'[e], got'[e])
  <2>. DEFINE s == ses[f]
              n == net[e]
              w == n \o s.writequeue
              v == Tail(n) \o s.writequeue
              hi == s.handed - Len(s.replyq)
  <2>1. /\ Fields \subseteq DOMAIN s /\ s.dataallowed \in BOOLEAN
        /\ s.handed \in Nat /\ Len(s.replyq) <= s.handed
        /\ IsSeq(s.writequeue) /\ IsSeq(s.replyq) /\ IsSeq(n)
        /\ Good(w, got[e], hi)
        /\ s.dataallowed => Settled(w)
        /\ Held(s)
    BY <1>5 DEF Steady, Sender
  <2>2. w # <<>> /\ Head(w) = p /\ Tail(w) = v /\ IsSeq(Tail(n))
    <3>1. PICK q : q = s.writequeue
      OBVIOUS
    <3>2. PICK m : m = net[e]
      OBVIOUS
    <3>3. IsSeq(m) /\ IsSeq(q) /\ m # <<>>
      BY <2>1, <3>1, <3>2
    <3>4. /\ m \o q # <<>> /\ Head(m \o q) = Head(m)
          /\ Tail(m \o q) = Tail(m) \o q /\ IsSeq(Tail(m))
      BY <3>3, ReadFromNet, Rest
    <3>. QED  BY <3>1, <3>2, <3>4
  <2>. HIDE DEF w, v, hi
  <2>3. /\ Good(Tail(w), IF IsUpper(Head(w)) THEN Head(w).n ELSE got[e], hi)
        /\ Settled(w) => Settled(Tail(w))
    BY <2>1, <2>2, HeadRead
  <2>. HIDE DEF p
  <2>4. /\ Good(v, got'[e], hi)
        /\ Settled(w) => Settled(v)
    BY <2>2, <2>3, <1>4
  <2>5. Sender(s, net'[e], got'[e])
    BY <2>1, <2>2, <2>4, <1>4 DEF Sender, v, hi
  <2>. QED  BY <2>5, <1>5 DEF Steady
<1>7. \A d \in End : Steady(ses'[d], net'[Peer(d)], got'[Peer(d)])
  <2>1. Steady(ses'[e], net'[Peer(e)], got'[Peer(e)])
    BY <1>2, <1>4
  <2>2. Steady(ses'[f], net'[Peer(f)], got'[Peer(f)])
    BY <1>3, <1>4, <1>6
  <2>. QED  BY <2>1, <2>2, <1>3
<1>8. ses'["S"].authdone => ses["S"].authdone \/ Proven(Body("S"))
  <2>1. CASE e = "S"
    BY <2>1, <1>2, <1>4
  <2>2. CASE f = "S"
    BY <2>2, <1>4
  <2>. QED  BY <2>1, <2>2, <1>3 DEF End
<1>. QED  BY <1>4, <1>7, <1>8 DEF IInv, Kept

\* The session a handler begins with.
LEMMA Begins ==
    ASSUME IInv, NEW e \in End, NEW t, Arrives(e, t)
    PROVE  /\ net[e] # <<>>
           /\ Steady(Incoming(e), net[Peer(e)], got[Peer(e)])
           /\ Incoming(e).authdone = ses[e].authdone
           /\ Incoming(e).exited = "no"
<1>1. net[e] # <<>> /\ ses[e].exited = "no"
  BY DEF Arrives, At, Running
<1>2. Steady(ses[e], net[Peer(e)], got[Peer(e)])
  BY DEF IInv
<1>. QED  BY <1>1, <1>2, Arriving DEF Incoming

\* A handler that has no part in authentication.
LEMMA Handles ==
    ASSUME IInv, NEW e \in End, NEW t, Arrives(e, t), NEW h, Process(e, h),
           Handled(Incoming(e), h, net[Peer(e)], got[Peer(e)])
    PROVE  Kept
<1>1. /\ Sender(h, net[Peer(e)], got[Peer(e)]) /\ Exchanging(h)
      /\ h.authdone = ses[e].authdone
  BY Begins DEF Handled
<1>. QED  BY <1>1, Begins, Processes

---------------------------------------------------------------------------
(* The actions of session_loop() that read nothing *)

LEMMA CheckTimeoutsKeeps ==
    ASSUME IInv, NEW e \in End, CheckTimeouts(e)
    PROVE  Kept
<1>. PICK rekey \in BOOLEAN, keepalive \in BOOLEAN :
        /\ At(e, "timeouts")
        /\ rekey => MayRekey(e)
        /\ LET s1 == IF rekey THEN SendKexinit(e, ses[e]) ELSE ses[e]
               s2 == IF keepalive
                     THEN EncryptPacket(s1, KeepaliveType(s1), 0) ELSE s1
           IN  ses' = [ses EXCEPT ![e] = s2]
        /\ UNCHANGED <<net, got>>
  BY DEF CheckTimeouts
<1>. DEFINE s1 == IF rekey THEN SendKexinit(e, ses[e]) ELSE ses[e]
            s2 == IF keepalive
                  THEN EncryptPacket(s1, KeepaliveType(s1), 0) ELSE s1
            N == net[Peer(e)]
            lo == got[Peer(e)]
<1>1. Steady(ses[e], N, lo) /\ ses[e].exited = "no"
  BY DEF IInv, At, Running
<1>2. Steady(s1, N, lo) /\ s1.authdone = ses[e].authdone
  <2>1. CASE rekey
    <3>1. ses[e].dataallowed /\ ~ses[e].sentnewkeys
      BY <2>1, <1>1 DEF MayRekey, Steady, Exchanging
    <3>. QED  BY <2>1, <3>1, <1>1, KexinitSent
  <2>2. CASE ~rekey
    BY <2>2, <1>1
  <2>. QED  BY <2>1, <2>2
<1>. HIDE DEF s1
<1>3. Steady(s2, N, lo) /\ s2.authdone = ses[e].authdone
  <2>1. KeepaliveType(s1) \in {"CHANNEL_REQUEST", "GLOBAL_REQUEST"}
    BY DEF KeepaliveType
  <2>2. /\ KeepaliveType(s1) # "KEXINIT"
        /\ Sane([t |-> KeepaliveType(s1), b |-> 0])
    BY <2>1 DEF Sane
  <2>. QED  BY <2>2, <1>2, EncryptedSteady
<1>4. ses' = [ses EXCEPT ![e] = s2]
  BY DEF s1
<1>. HIDE DEF s2
<1>. QED  BY <1>3, <1>4, Moves

LEMMA NoPacketKeeps ==
    ASSUME IInv, NEW e \in End, NoPacket(e)
    PROVE  Kept
<1>. DEFINE x == MaybeFlushReplyQueue(ses[e])
<1>1. ses' = [ses EXCEPT ![e] = x] /\ UNCHANGED <<net, got>>
  BY DEF NoPacket
<1>2. Steady(ses[e], net[Peer(e)], got[Peer(e)])
  BY DEF IInv
<1>3. /\ Steady(x, net[Peer(e)], got[Peer(e)])
      /\ x.authdone = ses[e].authdone
  BY <1>2, FlushedReplies DEF Steady
<1>. HIDE DEF x
<1>. QED  BY <1>1, <1>3, Moves

LEMMA RemoteClosedKeeps ==
    ASSUME IInv, NEW e \in End, RemoteClosed(e)
    PROVE  Kept
<1>. DEFINE x == Exit(ses[e], "remote closed")
<1>1. ses' = [ses EXCEPT ![e] = x] /\ UNCHANGED <<net, got>>
  BY DEF RemoteClosed
<1>2. Steady(ses[e], net[Peer(e)], got[Peer(e)])
  BY DEF IInv
<1>3. /\ Steady(x, net[Peer(e)], got[Peer(e)])
      /\ x.authdone = ses[e].authdone
  BY <1>2, ExitHandled DEF Handled
<1>. HIDE DEF x
<1>. QED  BY <1>1, <1>3, Moves

\* What is written has left the queue for the net: the wire is the same.
LEMMA Written ==
    ASSUME NEW s, NEW x, NEW N, NEW lo, Steady(s, N, lo),
           x = [s EXCEPT !.writequeue = <<>>]
    PROVE  Steady(x, N \o s.writequeue, lo) /\ x.authdone = s.authdone
<1>. PICK q : q = s.writequeue
  OBVIOUS
<1>1. /\ Fields \subseteq DOMAIN s /\ s.dataallowed \in BOOLEAN
      /\ s.handed \in Nat /\ Len(s.replyq) <= s.handed
      /\ IsSeq(q) /\ IsSeq(s.replyq) /\ IsSeq(N)
      /\ Good(N \o q, lo, s.handed - Len(s.replyq))
      /\ s.dataallowed => Settled(N \o q)
      /\ Held(s)
  BY DEF Steady, Sender
<1>2. /\ Same(s, x, Control) /\ x.handed = s.handed /\ x.replyq = s.replyq
      /\ x.writequeue = <<>>
  BY <1>1 DEF Same, Fields, Control, Queues
<1>3. /\ x.exited = s.exited /\ x.dataallowed = s.dataallowed
      /\ x.sentkexinit = s.sentkexinit /\ x.sentnewkeys = s.sentnewkeys
      /\ x.authdone = s.authdone /\ Fields \subseteq DOMAIN x
  BY <1>2, SameFacts DEF Same
<1>4. IsSeq(N \o q) /\ (N \o q) \o <<>> = N \o q /\ IsSeq(<<>>)
  <2>1. PICK w : w = N \o q
    OBVIOUS
  <2>2. IsSeq(w)
    BY <2>1, <1>1, Concat
  <2>3. w \o <<>> = w /\ IsSeq(<<>>)
    BY <2>2, Concat, Empty
  <2>. QED  BY <2>1, <2>2, <2>3
<1>5. Sender(x, N \o q, lo)
  <2>1. (N \o q) \o x.writequeue = N \o q /\ IsSeq(x.writequeue)
    BY <1>2, <1>4
  <2>2. Held(x)
    BY <1>1, <1>2 DEF Held
  <2>. QED  BY <2>1, <2>2, <1>1, <1>2, <1>3, <1>4 DEF Sender
<1>6. Flushed(x) /\ Exchanging(x)
  BY <1>2, <1>3 DEF Steady, Flushed, Exchanging
<1>. QED  BY <1>3, <1>5, <1>6 DEF Steady

LEMMA ChannelIOKeeps ==
    ASSUME IInv, NEW e \in End, ChannelIO(e)
    PROVE  Kept
<1>. PICK data \in BOOLEAN :
        LET s == IF data THEN EncryptPacket(ses[e], "CHANNEL_REQUEST", 0)
                 ELSE ses[e]
        IN  /\ ses' = [ses EXCEPT ![e] = [s EXCEPT !.writequeue = <<>>]]
            /\ net' = [net EXCEPT ![Peer(e)] = @ \o s.writequeue]
            /\ UNCHANGED got
  BY DEF ChannelIO
<1>. DEFINE s == IF data THEN EncryptPacket(ses[e], "CHANNEL_REQUEST", 0)
                 ELSE ses[e]
            x == [s EXCEPT !.writequeue = <<>>]
            f == Peer(e)
<1>1. Steady(ses[e], net[f], got[f])
  BY DEF IInv
<1>2. Steady(s, net[f], got[f]) /\ s.authdone = ses[e].authdone
  BY <1>1, EncryptedSteady DEF Sane
<1>3. /\ ses' = [ses EXCEPT ![e] = x] /\ got' = got
      /\ net' = [net EXCEPT ![f] = @ \o s.writequeue]
  OBVIOUS
<1>. HIDE DEF s
<1>4. Steady(x, net[f] \o s.writequeue, got[f]) /\ x.authdone = s.authdone
  BY <1>2, Written
<1>. HIDE DEF x
<1>5. f \in End /\ f # e /\ Peer(f) = e /\ \A d \in End : d = e \/ d = f
  BY PeerFacts
<1>6. /\ DOMAIN ses' = End /\ DOMAIN net' = End /\ DOMAIN got' = End
      /\ ses'[e] = x /\ ses'[f] = ses[f] /\ net'[e] = net[e]
      /\ net'[f] = net[f] \o s.writequeue
  BY <1>3, <1>5 DEF IInv
<1>7. \A d \in End : Steady(ses'[d], net'[Peer(d)], got'[Peer(d)])
  <2>1. Steady(ses'[e], net'[Peer(e)], got'[Peer(e)])
    BY <1>3, <1>4, <1>6
  <2>2. Steady(ses[f], net[e], got[e])
    BY <1>5 DEF IInv
  <2>3. Steady(ses'[f], net'[Peer(f)], got'[Peer(f)])
    BY <2>2, <1>3, <1>5, <1>6
  <2>. QED  BY <2>1, <2>3, <1>5
<1>8. ses'["S"].authdone => ses["S"].authdone
  <2>1. \A d \in End : ses'[d].authdone = ses[d].authdone
    BY <1>2, <1>4, <1>5, <1>6
  <2>. QED  BY <2>1 DEF End
<1>. QED  BY <1>6, <1>7, <1>8 DEF IInv, Kept

LEMMA ServerLoopKeeps ==
    ASSUME IInv, ServerLoop
    PROVE  Kept
BY DEF ServerLoop, IInv, Kept

\* One step of the switch, from the session s that cli_sessionloop() tests.
LEMMA StateMachineKeeps ==
    ASSUME IInv, NEW s, Steady(s, net["S"], got["S"]),
           s.authdone = ses["C"].authdone,
           StateMachine(s), UNCHANGED <<net, got>>
    PROVE  Kept
<1>. DEFINE N == net["S"]
            lo == got["S"]
            OK(x) == Steady(x, N, lo) /\ x.authdone = ses["C"].authdone
<1>1. "C" \in End /\ Peer("C") = "S"
  BY DEF End, Peer
<1>2. \A x : OK(x) /\ ses' = [ses EXCEPT !["C"] = x] => Kept
  BY <1>1, Moves
<1>3. ASSUME NEW x, NEW t, NEW b, OK(x), t # "KEXINIT",
             Sane([t |-> t, b |-> b])
      PROVE  OK(EncryptPacket(x, t, b))
  BY <1>3, EncryptedSteady
<1>4. OK(s)
  OBVIOUS
<1>5. \A why : why # "no" => OK(Exit(s, why))
  BY ExitHandled DEF Handled
<1>6. OK([s EXCEPT !.chancount = @ + 1])
  <2>1. Same(s, [s EXCEPT !.chancount = @ + 1], Fields)
    BY SenderForm DEF Steady, Same, Fields, Control, Queues
  <2>. QED  BY <2>1, <1>4, SteadySame
<1>. HIDE DEF OK
<1>7. ASSUME NEW x, OK(x)
      PROVE  /\ OK(EncryptPacket(x, "SERVICE_REQUEST", 0))
             /\ OK(EncryptPacket(x, "CHANNEL_OPEN", 0))
  <2>1. /\ Sane([t |-> "SERVICE_REQUEST", b |-> 0])
        /\ Sane([t |-> "CHANNEL_OPEN", b |-> 0])
    BY DEF Sane
  <2>. QED  BY <2>1, <1>3, <1>7
<1>8. ASSUME NEW x, OK(x), NEW user, NEW key, NEW right,
             NEW method \in {"none", "query", "password"}
      PROVE  OK(EncryptPacket(x, "USERAUTH_REQUEST",
                              Request(user, method, key, right)))
  <2>1. Sane([t |-> "USERAUTH_REQUEST", b |-> Request(user, method, key, right)])
    BY DEF Sane, Request
  <2>. QED  BY <2>1, <1>3, <1>8
<1>9. CASE cli.state = "STATE_NOTHING"
  <2>. PICK user :
         ses' = [ses EXCEPT !["C"] =
                   EncryptPacket(EncryptPacket(s, "SERVICE_REQUEST", 0),
                                 "USERAUTH_REQUEST",
                                 Request(user, "none", "none", FALSE))]
    BY <1>9 DEF StateMachine
  <2>1. OK(EncryptPacket(s, "SERVICE_REQUEST", 0))
    BY <1>4, <1>7
  <2>2. OK(EncryptPacket(EncryptPacket(s, "SERVICE_REQUEST", 0),
             "USERAUTH_REQUEST", Request(user, "none", "none", FALSE)))
    BY <2>1, <1>8
  <2>. QED  BY <2>2, <1>2
<1>10. CASE cli.state = "USERAUTH_FAIL_RCVD"
  <2>. DEFINE X(user, right) ==
         IF TriesKey(cli)
         THEN EncryptPacket(s, "USERAUTH_REQUEST",
                Request(user, "query", Head(cli.privkeys), FALSE))
         ELSE IF TriesPassword(cli)
         THEN EncryptPacket(s, "USERAUTH_REQUEST",
                Request(user, "password", "none", right))
         ELSE Exit(s, "no auth methods")
  <2>. PICK user, right : ses' = [ses EXCEPT !["C"] = X(user, right)]
    BY <1>10 DEF StateMachine
  <2>1. /\ OK(EncryptPacket(s, "USERAUTH_REQUEST",
                  Request(user, "query", Head(cli.privkeys), FALSE)))
        /\ OK(EncryptPacket(s, "USERAUTH_REQUEST",
                  Request(user, "password", "none", right)))
    BY <1>4, <1>8
  <2>2. OK(X(user, right))
    BY <2>1, <1>5
  <2>. HIDE DEF X
  <2>. QED  BY <2>2, <1>2
<1>11. CASE cli.state = "USERAUTH_SUCCESS_RCVD"
  <2>1. ses' = [ses EXCEPT !["C"] =
          EncryptPacket([s EXCEPT !.chancount = @ + 1], "CHANNEL_OPEN", 0)]
    BY <1>11 DEF StateMachine
  <2>2. OK(EncryptPacket([s EXCEPT !.chancount = @ + 1], "CHANNEL_OPEN", 0))
    BY <1>6, <1>7
  <2>. QED  BY <2>1, <2>2, <1>2
<1>12. CASE cli.state \in {"USERAUTH_REQ_SENT", "SESSION_RUNNING"}
  <2>1. ses' = [ses EXCEPT !["C"] = s]
    BY <1>12 DEF StateMachine
  <2>. QED  BY <2>1, <1>2, <1>4
<1>. QED  BY <1>9, <1>10, <1>11, <1>12 DEF StateMachine

LEMMA ClientLoopKeeps ==
    ASSUME IInv, ClientLoop
    PROVE  Kept
<1>. DEFINE c == ses["C"]
            N == net["S"]
            lo == got["S"]
            k == [KexdhOfKexinit(c) EXCEPT !.kex_state = "KEXDH_INIT_SENT"]
            s == KexDone(c)
<1>1. "C" \in End /\ Peer("C") = "S"
  BY DEF End, Peer
<1>2. Steady(c, N, lo)
  BY <1>1 DEF IInv
<1>3. Steady(s, N, lo) /\ s.authdone = c.authdone
  <2>1. Same(c, s, Fields)
    BY <1>2, SenderForm DEF Steady, KexDone, Same, Fields, Control, Queues
  <2>. QED  BY <2>1, <1>2, SteadySame
<1>4. Steady(k, N, lo) /\ k.authdone = c.authdone
  <2>. DEFINE d == KexdhOfKexinit(c)
  <2>1. Steady(d, N, lo) /\ d.authdone = c.authdone
    BY <1>2, KexdhInitSent DEF KexdhOfKexinit
  <2>. HIDE DEF d
  <2>2. Same(d, [d EXCEPT !.kex_state = "KEXDH_INIT_SENT"], Fields)
    BY <2>1, SenderForm DEF Steady, Same, Fields, Control, Queues
  <2>3. /\ Steady([d EXCEPT !.kex_state = "KEXDH_INIT_SENT"], N, lo)
        /\ [d EXCEPT !.kex_state = "KEXDH_INIT_SENT"].authdone = d.authdone
    BY <2>1, <2>2, SteadySame
  <2>. QED  BY <2>1, <2>3 DEF d
<1>5. UNCHANGED <<net, got>>
  BY DEF ClientLoop
<1>6. \/ UNCHANGED ses
      \/ ses' = [ses EXCEPT !["C"] = k]
      \/ ses' = [ses EXCEPT !["C"] = s]
      \/ StateMachine(s)
  <2>1. ses' = [ses EXCEPT !["C"] = [KexdhOfKexinit(@) EXCEPT
                                        !.kex_state = "KEXDH_INIT_SENT"]]
        => ses' = [ses EXCEPT !["C"] = k]
    BY <1>1 DEF IInv
  <2>. HIDE DEF s, k
  <2>. QED  BY <2>1 DEF ClientLoop, s
<1>. HIDE DEF s, k
<1>7. CASE UNCHANGED ses
  BY <1>5, <1>7 DEF IInv, Kept
<1>8. CASE ses' = [ses EXCEPT !["C"] = k]
  BY <1>1, <1>4, <1>5, <1>8, Moves
<1>9. CASE ses' = [ses EXCEPT !["C"] = s]
  BY <1>1, <1>3, <1>5, <1>9, Moves
<1>10. CASE StateMachine(s)
  BY <1>3, <1>5, <1>10, StateMachineKeeps
<1>. QED  BY <1>6, <1>7, <1>8, <1>9, <1>10

---------------------------------------------------------------------------
(* The packets *)

LEMMA KeyExchangeKeeps ==
    ASSUME IInv, NEW e \in End,
           Kexinit(e) \/ Newkeys(e) \/ KexdhInit \/ KexdhReply
    PROVE  Kept
<1>1. CASE Kexinit(e)
  <2>. DEFINE h == RecvKexinit(e, Incoming(e), Body(e), agreed)
  <2>1. Arrives(e, "KEXINIT") /\ Process(e, h)
    BY <1>1 DEF Kexinit
  <2>2. Handled(Incoming(e), h, net[Peer(e)], got[Peer(e)])
    BY <2>1, Begins, KexinitReceived
  <2>. HIDE DEF h
  <2>. QED  BY <2>1, <2>2, Handles
<1>2. CASE Newkeys(e)
  <2>. DEFINE h == RecvNewkeys(Incoming(e))
  <2>1. Arrives(e, "NEWKEYS") /\ Process(e, h)
    BY <1>2 DEF Newkeys
  <2>2. Handled(Incoming(e), h, net[Peer(e)], got[Peer(e)])
    BY <2>1, Begins, NewkeysReceived
  <2>. HIDE DEF h
  <2>. QED  BY <2>1, <2>2, Handles
<1>3. CASE KexdhInit
  <2>. DEFINE h == RecvKexdhInit(Incoming("S"), Body("S"))
  <2>1. "S" \in End /\ Arrives("S", "KEXDH_INIT") /\ Process("S", h)
    BY <1>3 DEF KexdhInit, End
  <2>2. Handled(Incoming("S"), h, net[Peer("S")], got[Peer("S")])
    BY <2>1, Begins, KexdhInitReceived
  <2>. HIDE DEF h
  <2>. QED  BY <2>1, <2>2, Handles
<1>4. CASE KexdhReply
  <2>. DEFINE h == RecvKexdhReply(Incoming("C"), Body("C"))
  <2>1. "C" \in End /\ Arrives("C", "KEXDH_REPLY") /\ Process("C", h)
    BY <1>4 DEF KexdhReply, End
  <2>2. Handled(Incoming("C"), h, net[Peer("C")], got[Peer("C")])
    BY <2>1, Begins, KexdhReplyReceived
  <2>. HIDE DEF h
  <2>. QED  BY <2>1, <2>2, Handles
<1>. QED  BY <1>1, <1>2, <1>3, <1>4

\* A handler that answers with one packet, or with none.
LEMMA Answers ==
    ASSUME IInv, NEW e \in End, NEW t, Arrives(e, t), NEW a, NEW b,
           a # "KEXINIT", Sane([t |-> a, b |-> b])
    PROVE  LET s == Incoming(e)
           IN  /\ Handled(s, s, net[Peer(e)], got[Peer(e)])
               /\ Steady(EncryptPacket(s, a, b), net[Peer(e)], got[Peer(e)])
               /\ Handled(s, EncryptPacket(s, a, b), net[Peer(e)], got[Peer(e)])
BY Begins, EncryptedSteady, SteadyHandled

LEMMA ServiceKeeps ==
    ASSUME IInv, ServiceRequest \/ ServiceAccept
    PROVE  Kept
<1>1. CASE ServiceRequest
  <2>. DEFINE h == EncryptPacket(Incoming("S"), "SERVICE_ACCEPT", 0)
  <2>1. "S" \in End /\ Arrives("S", "SERVICE_REQUEST") /\ Process("S", h)
    BY <1>1 DEF ServiceRequest, End
  <2>2. Handled(Incoming("S"), h, net[Peer("S")], got[Peer("S")])
    BY <2>1, Answers DEF Sane
  <2>. HIDE DEF h
  <2>. QED  BY <2>1, <2>2, Handles
<1>2. CASE ServiceAccept
  <2>1. /\ "C" \in End /\ Arrives("C", "SERVICE_ACCEPT")
        /\ Process("C", Incoming("C"))
    BY <1>2 DEF ServiceAccept, End
  <2>2. Handled(Incoming("C"), Incoming("C"), net[Peer("C")], got[Peer("C")])
    BY <2>1, Begins, SteadyHandled
  <2>. QED  BY <2>1, <2>2, Handles
<1>. QED  BY <1>1, <1>2

LEMMA ConnectionKeeps ==
    ASSUME IInv, NEW e \in End, ConnectionRequest(e) \/ ConnectionReply(e)
    PROVE  Kept
<1>1. CASE ConnectionRequest(e)
  <2>1. PICK t \in {"CHANNEL_OPEN", "CHANNEL_REQUEST", "GLOBAL_REQUEST"} :
          /\ Arrives(e, t)
          /\ Process(e, EncryptPacket(
               [Incoming(e) EXCEPT !.chancount =
                  IF t = "CHANNEL_OPEN" THEN @ + 1 ELSE @], Answer(t), 0))
    BY <1>1 DEF ConnectionRequest
  <2>. DEFINE s == Incoming(e)
              x == [s EXCEPT !.chancount =
                      IF t = "CHANNEL_OPEN" THEN @ + 1 ELSE @]
              h == EncryptPacket(x, Answer(t), 0)
              N == net[Peer(e)]
              lo == got[Peer(e)]
  <2>2. Steady(s, N, lo)
    BY <2>1, Begins
  <2>. HIDE DEF s
  <2>3. Same(s, x, Fields)
    BY <2>2, SenderForm DEF Steady, Same, Fields, Control, Queues
  <2>. HIDE DEF x
  <2>4. Steady(x, N, lo) /\ x.authdone = s.authdone
    BY <2>2, <2>3, SteadySame
  <2>5. Answer(t) # "KEXINIT" /\ Sane([t |-> Answer(t), b |-> 0])
    BY DEF Answer, Sane
  <2>6. Handled(s, h, N, lo)
    BY <2>4, <2>5, EncryptedSteady, SteadyHandled
  <2>. HIDE DEF h
  <2>7. Process(e, h)
    BY <2>1 DEF h, x, s
  <2>. QED  BY <2>1, <2>6, <2>7, Handles DEF s
<1>2. CASE ConnectionReply(e)
  <2>1. PICK t : Arrives(e, t) /\ Process(e, Incoming(e))
    BY <1>2 DEF ConnectionReply
  <2>2. Handled(Incoming(e), Incoming(e), net[Peer(e)], got[Peer(e)])
    BY <2>1, Begins, SteadyHandled
  <2>. QED  BY <2>1, <2>2, Handles
<1>. QED  BY <1>1, <1>2

\* What the server reads is sane.
LEMMA SaneBody ==
    ASSUME IInv, NEW e \in End, net[e] # <<>>
    PROVE  Sane(Head(net[e]))
<1>. DEFINE f == Peer(e)
            hi == ses[f].handed - Len(ses[f].replyq)
<1>. PICK q : q = ses[f].writequeue
  OBVIOUS
<1>. PICK n : n = net[e]
  OBVIOUS
<1>1. f \in End /\ Peer(f) = e
  BY PeerFacts
<1>2. IsSeq(n) /\ IsSeq(q) /\ n # <<>> /\ Good(n \o q, got[e], hi)
  BY <1>1 DEF IInv, Steady, Sender
<1>. HIDE DEF hi
<1>3. n \o q # <<>> /\ Head(n \o q) = Head(n)
  BY <1>2, ReadFromNet
<1>4. PICK w : w = n \o q
  OBVIOUS
<1>5. Sane(Head(w))
  BY <1>2, <1>3, <1>4, HeadRead
<1>. QED  BY <1>3, <1>4, <1>5

\* Success takes a proof.
LEMMA OutcomeProven ==
    ASSUME NEW b, b.method \in {"none", "password", "query", "sign"}
    PROVE  /\ Outcome(b) \in {"failure", "counted", "pk_ok", "success"}
           /\ Outcome(b) = "success" => Proven(b)
<1>. DEFINE valid == b.user \in ValidUsers
<1>1. CASE b.method = "none"
  BY <1>1 DEF Outcome
<1>2. CASE b.method = "password"
  <2>1. Outcome(b) = IF ~PasswordAuth \/ ~valid \/ ~b.right THEN "counted"
                     ELSE "success"
    BY <1>2 DEF Outcome
  <2>. QED  BY <2>1, <1>2 DEF Proven
<1>3. CASE b.method = "query"
  BY <1>3 DEF Outcome
<1>4. CASE b.method = "sign"
  <2>1. Outcome(b) = IF ~valid \/ b.key \notin Authorized THEN "failure"
                     ELSE "success"
    BY <1>4 DEF Outcome
  <2>. QED  BY <2>1, <1>4 DEF Proven
<1>. QED  BY <1>1, <1>2, <1>3, <1>4

LEMMA FailureSent ==
    ASSUME NEW s, NEW count, NEW N, NEW lo, Steady(s, N, lo)
    PROVE  Handled(s, SendFailure(s, count), N, lo)
<1>. DEFINE s1 == EncryptPacket(s, "USERAUTH_FAILURE", AuthTypes)
<1>1. Sane([t |-> "USERAUTH_FAILURE", b |-> AuthTypes])
  BY DEF Sane
<1>2. Steady(s1, N, lo) /\ s1.authdone = s.authdone
  BY <1>1, EncryptedSteady
<1>. HIDE DEF s1
<1>3. Handled(s, s1, N, lo) /\ Handled(s, Exit(s1, "max auth tries"), N, lo)
  BY <1>2, SteadyHandled, ExitHandled DEF Handled
<1>. QED  BY <1>3 DEF SendFailure, s1

LEMMA SuccessSent ==
    ASSUME NEW s, NEW N, NEW lo, Steady(s, N, lo)
    PROVE  Steady(SendSuccess(s), N, lo)
<1>. DEFINE s1 == EncryptPacket(s, "USERAUTH_SUCCESS", 0)
            x == [s1 EXCEPT !.authdone = TRUE]
<1>1. Sane([t |-> "USERAUTH_SUCCESS", b |-> 0])
  BY DEF Sane
<1>2. Steady(s1, N, lo)
  BY <1>1, EncryptedSteady
<1>. HIDE DEF s1
<1>3. /\ Same(s1, x, Queues) /\ x.dataallowed = s1.dataallowed
      /\ x.exited = s1.exited /\ x.sentkexinit = s1.sentkexinit
      /\ x.sentnewkeys = s1.sentnewkeys
  BY <1>2, SenderForm DEF Steady, Same, Fields, Control, Queues
<1>. HIDE DEF x
<1>4. Steady(x, N, lo)
  BY <1>2, <1>3, SenderSame DEF Steady, Exchanging
<1>. QED  BY <1>4 DEF SendSuccess, x, s1

LEMMA UserauthRequestKeeps ==
    ASSUME IInv, UserauthRequest
    PROVE  Kept
<1>. DEFINE s == Incoming("S")
            b == Body("S")
            known == CheckUsername(svr, b.user)
            out == IF s.authdone THEN "ignored" ELSE Outcome(b)
            count == known.failcount + (IF out = "counted" THEN 1 ELSE 0)
            h == CASE out = "ignored" -> s
                   [] out \in {"failure", "counted"} -> SendFailure(s, count)
                   [] out = "pk_ok" ->
                         EncryptPacket(s, "USERAUTH_PK_OK", b.key)
                   [] out = "success" -> SendSuccess(s)
            N == net[Peer("S")]
            lo == got[Peer("S")]
<1>1. "S" \in End /\ Arrives("S", "USERAUTH_REQUEST") /\ Process("S", h)
  BY DEF UserauthRequest, End
<1>2. net["S"] # <<>> /\ Steady(s, N, lo) /\ s.authdone = ses["S"].authdone
  BY <1>1, Begins
<1>3. b.method \in {"none", "password", "query", "sign"}
  BY <1>1, <1>2, SaneBody DEF Sane, Arrives, Body
<1>4. /\ out \in {"ignored", "failure", "counted", "pk_ok", "success"}
      /\ out = "success" => Proven(b)
  BY <1>3, OutcomeProven
<1>. HIDE DEF s, b, out, count
<1>5. /\ Sender(h, N, lo) /\ Exchanging(h)
      /\ h.authdone = s.authdone \/ Proven(b)
  <2>1. CASE out = "ignored"
    <3>1. h = s
      BY <2>1
    <3>. QED  BY <3>1, <1>2 DEF Steady
  <2>2. CASE out \in {"failure", "counted"}
    <3>1. h = SendFailure(s, count)
      BY <2>2
    <3>. QED  BY <3>1, <1>2, FailureSent DEF Handled
  <2>3. CASE out = "pk_ok"
    <3>1. h = EncryptPacket(s, "USERAUTH_PK_OK", b.key)
      BY <2>3
    <3>2. Sane([t |-> "USERAUTH_PK_OK", b |-> b.key])
      BY DEF Sane
    <3>. DEFINE x == EncryptPacket(s, "USERAUTH_PK_OK", b.key)
    <3>3. Steady(x, N, lo) /\ x.authdone = s.authdone
      BY <3>2, <1>2, EncryptedSteady
    <3>. HIDE DEF x, h
    <3>. QED  BY <3>1, <3>3 DEF Steady, x
  <2>4. CASE out = "success"
    <3>1. h = SendSuccess(s)
      BY <2>4
    <3>. QED  BY <3>1, <2>4, <1>2, <1>4, SuccessSent DEF Steady
  <2>. QED  BY <2>1, <2>2, <2>3, <2>4, <1>4
<1>. HIDE DEF h
<1>. QED  BY <1>1, <1>2, <1>5, Processes DEF b

LEMMA UserauthAnswerKeeps ==
    ASSUME IInv, UserauthFailure \/ UserauthSuccess \/ UserauthPkOk
    PROVE  Kept
<1>. DEFINE s == Incoming("C")
            N == net[Peer("C")]
            lo == got[Peer("C")]
<1>1. "C" \in End
  BY DEF End
<1>2. CASE UserauthFailure
  <2>1. PICK h \in {s, Exit(s, "unexpected userauth failure")} :
           Arrives("C", "USERAUTH_FAILURE") /\ Process("C", h)
    BY <1>2 DEF UserauthFailure
  <2>2. Steady(s, N, lo)
    BY <2>1, <1>1, Begins
  <2>3. Handled(s, h, N, lo)
    BY <2>1, <2>2, SteadyHandled, ExitHandled
  <2>. QED  BY <2>1, <2>3, <1>1, Handles
<1>3. CASE UserauthSuccess
  <2>. DEFINE h == [s EXCEPT !.authdone = TRUE]
  <2>1. Arrives("C", "USERAUTH_SUCCESS") /\ Process("C", h)
    BY <1>3 DEF UserauthSuccess
  <2>2. net["C"] # <<>> /\ Steady(s, N, lo)
    BY <2>1, <1>1, Begins
  <2>. HIDE DEF s
  <2>3. /\ Same(s, h, Queues) /\ h.dataallowed = s.dataallowed
        /\ h.exited = s.exited /\ h.sentkexinit = s.sentkexinit
        /\ h.sentnewkeys = s.sentnewkeys
    BY <2>2, SenderForm DEF Steady, Same, Fields, Control, Queues
  <2>. HIDE DEF h
  <2>4. Sender(h, N, lo) /\ Exchanging(h)
    BY <2>2, <2>3, SenderSame DEF Steady, Exchanging
  <2>. QED  BY <2>1, <2>2, <2>4, <1>1, Processes
<1>4. CASE UserauthPkOk
  <2>1. PICK user : \E h :
          /\ Arrives("C", "USERAUTH_PK_OK") /\ Process("C", h)
          /\ \/ h = Exit(s, "password expired")
             \/ h = Exit(s, "unexpected userauth packet")
             \/ h = EncryptPacket(s, "USERAUTH_REQUEST",
                                  Request(user, "sign", Body("C"), TRUE))
             \/ h = s
    <3>. DEFINE k == Body("C")
                mine == \E i \in 1..Len(cli.privkeys) : cli.privkeys[i] = k
                X(user) ==
                  CASE cli.lastauthtype = "password" ->
                           Exit(s, "password expired")
                    [] cli.lastauthtype = "none" ->
                           Exit(s, "unexpected userauth packet")
                    [] cli.lastauthtype = "pubkey" /\ mine ->
                           EncryptPacket(s, "USERAUTH_REQUEST",
                                         Request(user, "sign", k, TRUE))
                    [] OTHER -> s
    <3>1. PICK user : Arrives("C", "USERAUTH_PK_OK") /\ Process("C", X(user))
      BY <1>4 DEF UserauthPkOk
    <3>. HIDE DEF s, k, mine
    <3>2. \/ X(user) = Exit(s, "password expired")
          \/ X(user) = Exit(s, "unexpected userauth packet")
          \/ X(user) = EncryptPacket(s, "USERAUTH_REQUEST",
                                     Request(user, "sign", k, TRUE))
          \/ X(user) = s
      OBVIOUS
    <3>. HIDE DEF X
    <3>. QED  BY <3>1, <3>2 DEF k
  <2>2. PICK h :
          /\ Arrives("C", "USERAUTH_PK_OK") /\ Process("C", h)
          /\ \/ h = Exit(s, "password expired")
             \/ h = Exit(s, "unexpected userauth packet")
             \/ h = EncryptPacket(s, "USERAUTH_REQUEST",
                                  Request(user, "sign", Body("C"), TRUE))
             \/ h = s
    BY <2>1
  <2>3. Steady(s, N, lo)
    BY <2>2, <1>1, Begins
  <2>. DEFINE b == Request(user, "sign", Body("C"), TRUE)
  <2>4. Sane([t |-> "USERAUTH_REQUEST", b |-> b])
    BY DEF Sane, Request
  <2>. HIDE DEF b
  <2>5. Handled(s, EncryptPacket(s, "USERAUTH_REQUEST", b), N, lo)
    BY <2>3, <2>4, EncryptedSteady, SteadyHandled
  <2>6. Handled(s, h, N, lo)
    BY <2>2, <2>3, <2>5, SteadyHandled, ExitHandled DEF b
  <2>. QED  BY <2>2, <2>6, <1>1, Handles
<1>. QED  BY <1>2, <1>3, <1>4

---------------------------------------------------------------------------
(* The invariant holds *)

LEMMA InitKept == Init => IInv
<1>. SUFFICES ASSUME Init
              PROVE  IInv
  OBVIOUS
<1>. DEFINE s == InitialSession
<1>1. /\ s.dataallowed = TRUE /\ s.sentkexinit = FALSE
      /\ s.sentnewkeys = FALSE /\ s.handed = 0 /\ s.replyq = <<>>
      /\ s.writequeue = <<>> /\ Fields \subseteq DOMAIN s
  BY DEF InitialSession, Fields, Control, Queues
<1>. HIDE DEF s
<1>2. IsSeq(<<>>) /\ <<>> \o <<>> = <<>> /\ Len(<<>>) = 0
  BY Empty, Concat
<1>3. \A i : ~(i \in 1..0)
  OBVIOUS
<1>4. Good(<<>>, 0, 0) /\ Settled(<<>>)
  <2>1. Numbered(<<>>, 0, 0) /\ Quiet(<<>>) /\ Settled(<<>>)
    BY <1>2, <1>3 DEF Numbered, Quiet, Settled
  <2>. QED  BY <2>1, <1>2, <1>3 DEF Good
<1>5. Sender(s, <<>>, 0)
  <2>1. Held(s)
    BY <1>1, <1>2, <1>3 DEF Held
  <2>2. /\ s.handed \in Nat /\ Len(s.replyq) <= s.handed
        /\ s.handed - Len(s.replyq) = 0
    <3>1. s.handed = 0
      BY <1>1
    <3>2. Len(s.replyq) = 0
      BY <1>1, Empty
    <3>. QED  BY <3>1, <3>2
  <2>3. /\ Good(<<>> \o s.writequeue, 0, s.handed - Len(s.replyq))
        /\ Settled(<<>> \o s.writequeue)
    <3>1. PICK w : w = <<>> \o s.writequeue
      OBVIOUS
    <3>2. w = <<>>
      BY <3>1, <1>1, <1>2
    <3>3. Good(w, 0, 0) /\ Settled(w)
      BY <3>2, <1>4
    <3>. QED  BY <3>1, <3>3, <2>2
  <2>. QED  BY <2>1, <2>2, <2>3, <1>1, <1>2 DEF Sender
<1>6. Steady(s, <<>>, 0)
  BY <1>1, <1>5 DEF Steady, Flushed, Exchanging
<1>7. \A e : Steady(SendKexinit(e, s), <<>>, 0)
  BY <1>1, <1>6, KexinitSent
<1>8. /\ ses = [e \in End |-> SendKexinit(e, s)]
      /\ net = [e \in End |-> <<>>] /\ got = [e \in End |-> 0]
  BY DEF Init, s
<1>. QED  BY <1>7, <1>8, PeerFacts DEF IInv

LEMMA StepKept ==
    ASSUME IInv, [Next]_vars
    PROVE  Kept
<1>1. CASE UNCHANGED vars
  BY <1>1 DEF vars, IInv, Kept
<1>2. ASSUME NEW e \in End, RecvPacket(e)
      PROVE  Kept
  BY <1>2, KeyExchangeKeeps, ServiceKeeps, ConnectionKeeps,
     UserauthRequestKeeps, UserauthAnswerKeeps DEF RecvPacket
<1>3. ASSUME NEW e \in End, LoopStep(e)
      PROVE  Kept
  BY <1>3, CheckTimeoutsKeeps, NoPacketKeeps, ChannelIOKeeps,
     ServerLoopKeeps, ClientLoopKeeps DEF LoopStep
<1>4. ASSUME NEW e \in End, RemoteClosed(e)
      PROVE  Kept
  BY <1>4, RemoteClosedKeeps
<1>. QED  BY <1>1, <1>2, <1>3, <1>4 DEF Next

LEMMA InvariantHolds == Spec => []IInv
<1>1. IInv /\ [Next]_vars => IInv'
  BY StepKept DEF Kept
<1>. QED  BY <1>1, InitKept, PTL DEF Spec

LEMMA QueuesInOrder == IInv => InOrder
<1>. SUFFICES ASSUME IInv, NEW e \in End
              PROVE  LET w  == Wire(e) \o ses[e].replyq
                         up == {i \in 1..Len(w) : IsUpper(w[i])}
                     IN  /\ {w[i].n : i \in up} = got[Peer(e)] + 1..ses[e].handed
                         /\ \A i, j \in up : i < j => w[i].n < w[j].n
  BY DEF InOrder
<1>. DEFINE s == ses[e]
            lo == got[Peer(e)]
            hi == s.handed - Len(s.replyq)
<1>1. PICK r : r = s.replyq
  OBVIOUS
<1>2. PICK q : q = Wire(e)
  OBVIOUS
<1>3. /\ s.handed \in Nat /\ IsSeq(r) /\ Good(q, lo, hi) /\ Held(s)
  BY <1>1, <1>2 DEF IInv, Steady, Sender, Wire
<1>4. Len(r) \in Nat /\ Len(s.replyq) = Len(r)
  BY <1>1, <1>3, Length
<1>5. hi \in Nat /\ hi + Len(r) = s.handed
  BY <1>3, <1>4 DEF Good
<1>6. \A i \in 1..Len(r) : IsUpper(r[i]) /\ r[i].n = hi + i /\ Sane(r[i])
  BY <1>1, <1>3, <1>4 DEF Held
<1>. HIDE DEF hi, s
<1>7. Numbered(q \o r, lo, s.handed)
  <2>1. Numbered(q \o r, lo, hi + Len(r))
    BY <1>3, <1>6, QueueNumbered
  <2>. QED  BY <2>1, <1>5
<1>8. PICK w : w = Wire(e) \o ses[e].replyq
  OBVIOUS
<1>9. w = q \o r
  BY <1>1, <1>2, <1>8 DEF s
<1>10. Numbered(w, lo, s.handed)
  BY <1>7, <1>9
<1>11. {w[i].n : i \in {j \in 1..Len(w) : IsUpper(w[j])}} = lo + 1..s.handed
  BY <1>10 DEF Numbered
<1>12. \A i, j \in {k \in 1..Len(w) : IsUpper(w[k])} : i < j => w[i].n < w[j].n
  BY <1>10 DEF Numbered
<1>. QED  BY <1>8, <1>11, <1>12 DEF s

LEMMA WiresQuiet == IInv => QuietExchange
<1>1. ASSUME IInv, NEW e \in End
      PROVE  Quiet(Wire(e))
  BY <1>1 DEF IInv, Steady, Sender, Good, Wire
<1>. QED  BY <1>1 DEF QuietExchange, Quiet

---------------------------------------------------------------------------

\* Whatever the two ends exchange, negotiate and ask for, everything an end
\* gave encrypt_packet() and the peer has not read is on the wire or in the
\* reply queue, each packet once and in the order it was given (packet.c,
\* enqueue_reply_packet() and maybe_flush_reply_queue()).
THEOREM SentInOrder == Spec => []InOrder
BY InvariantHolds, QueuesInOrder, PTL

\* However often and from whichever side the keys are exchanged, no packet
\* of the layers above lies between an end's KEXINIT and its NEWKEYS
\* (ses.dataallowed, cleared in send_msg_kexinit() and set in
\* send_msg_newkeys()).
THEOREM ExchangeQuiet == Spec => []QuietExchange
BY InvariantHolds, WiresQuiet, PTL

\* For every set of users, keys and tries: authdone becomes true at the
\* server only in a step that reads a right password or a signature by an
\* authorized key (recv_msg_userauth_request()).
THEOREM AcceptedByProof == Spec => AuthenticatedByProof
<1>1. IInv /\ [Next]_vars
      => [ses'["S"].authdone /\ ~ses["S"].authdone => Proven(Body("S"))]_vars
  BY StepKept DEF Kept
<1>. QED  BY <1>1, InvariantHolds, PTL DEF Spec, AuthenticatedByProof

---------------------------------------------------------------------------
(* Words *)

LEMMA PlainType == \A p : Plain(p).t = p.t /\ Plain(p).b = p.b
BY DEF Plain

LEMMA WordNone == \A T : Word(T, <<>>, <<>>)
<1>. TAKE T
<1>. DEFINE f == [i \in 1..0 |-> i]
<1>1. Len(<<>>) = 0 /\ 1..0 = {}
  OBVIOUS
<1>2. f \in [1..Len(<<>>) -> 1..Len(<<>>)]
  BY <1>1
<1>. QED  BY <1>1, <1>2 DEF Word

\* The packets of a word, and those of its types on the wire.
LEMMA WordMembers ==
    ASSUME NEW T, NEW w, NEW ks, IsSeq(w), IsSeq(ks), Word(T, w, ks)
    PROVE  /\ \A i \in 1..Len(w) : w[i].t \in T =>
                \E j \in 1..Len(ks) : ks[j].t = w[i].t
           /\ \A j \in 1..Len(ks) : ks[j].t \in T /\ Has(w, ks[j].t)
<1>1. PICK f \in [1..Len(ks) -> 1..Len(w)] :
         /\ \A i \in 1..Len(ks) : ks[i] = Plain(w[f[i]])
         /\ \A n \in 1..Len(w) : w[n].t \in T <=> \E i \in 1..Len(ks) : f[i] = n
  BY DEF Word
<1>2. \A i \in 1..Len(ks) : ks[i].t = w[f[i]].t /\ f[i] \in 1..Len(w)
  BY <1>1, PlainType
<1>. QED  BY <1>1, <1>2 DEF Has

LEMMA WordAppended ==
    ASSUME NEW T, NEW w, NEW ks, NEW p, IsSeq(w), IsSeq(ks), Word(T, w, ks)
    PROVE  /\ p.t \in T =>
                Word(T, Append(w, p), Append(ks, Plain(p)))
           /\ p.t \notin T => Word(T, Append(w, p), ks)
<1>. DEFINE v == Append(w, p)
            ls == Append(ks, Plain(p))
<1>1. PICK f \in [1..Len(ks) -> 1..Len(w)] :
         /\ \A i, j \in 1..Len(ks) : i < j => f[i] < f[j]
         /\ \A i \in 1..Len(ks) : ks[i] = Plain(w[f[i]])
         /\ \A n \in 1..Len(w) : w[n].t \in T <=> \E i \in 1..Len(ks) : f[i] = n
  BY DEF Word
<1>2. PICK m : m = Len(w) /\ m \in Nat
  BY Length
<1>3. PICK k : k = Len(ks) /\ k \in Nat
  BY Length
<1>4. /\ Len(v) = m + 1 /\ v[m + 1] = p
      /\ \A i \in 1..m : v[i] = w[i]
  BY <1>2, AppendOne
<1>5. /\ Len(ls) = k + 1 /\ ls[k + 1] = Plain(p)
      /\ \A i \in 1..k : ls[i] = ks[i]
  BY <1>3, AppendOne
<1>6. /\ f \in [1..k -> 1..m]
      /\ \A i, j \in 1..k : i < j => f[i] < f[j]
      /\ \A i \in 1..k : ks[i] = Plain(w[f[i]])
      /\ \A n \in 1..m : w[n].t \in T <=> \E i \in 1..k : f[i] = n
  BY <1>1, <1>2, <1>3
<1>. HIDE DEF v, ls
<1>7. ASSUME p.t \in T
      PROVE  Word(T, v, ls)
  <2>. DEFINE g == [i \in 1..k + 1 |-> IF i = k + 1 THEN m + 1 ELSE f[i]]
  <2>1. /\ \A i \in 1..k : g[i] = f[i] /\ f[i] \in 1..m
        /\ g[k + 1] = m + 1
    BY <1>3, <1>6
  <2>2. g \in [1..Len(ls) -> 1..Len(v)]
    BY <1>2, <1>3, <1>4, <1>5, <1>6
  <2>. HIDE DEF g
  <2>3. \A i, j \in 1..k + 1 : i < j => g[i] < g[j]
    <3>. SUFFICES ASSUME NEW i \in 1..k + 1, NEW j \in 1..k + 1, i < j
                  PROVE  g[i] < g[j]
      OBVIOUS
    <3>1. i \in 1..k
      BY <1>3
    <3>2. CASE j = k + 1
      BY <3>1, <3>2, <2>1, <1>2
    <3>3. CASE j \in 1..k
      BY <3>1, <3>3, <2>1, <1>6
    <3>. QED  BY <3>2, <3>3, <1>3
  <2>4. \A i \in 1..k + 1 : ls[i] = Plain(v[g[i]])
    <3>. SUFFICES ASSUME NEW i \in 1..k + 1
                  PROVE  ls[i] = Plain(v[g[i]])
      OBVIOUS
    <3>1. CASE i = k + 1
      BY <3>1, <2>1, <1>4, <1>5
    <3>2. CASE i \in 1..k
      <4>1. v[g[i]] = w[f[i]] /\ ls[i] = ks[i]
        BY <3>2, <2>1, <1>4, <1>5
      <4>. QED  BY <4>1, <3>2, <1>6
    <3>. QED  BY <3>1, <3>2, <1>3
  <2>5. \A n \in 1..m + 1 : v[n].t \in T <=> \E i \in 1..k + 1 : g[i] = n
    <3>. SUFFICES ASSUME NEW n \in 1..m + 1
                  PROVE  v[n].t \in T <=> \E i \in 1..k + 1 : g[i] = n
      OBVIOUS
    <3>0. k + 1 \in 1..k + 1 /\ \A i \in 1..k + 1 : i = k + 1 \/ i \in 1..k
      BY <1>3
    <3>1. CASE n = m + 1
      BY <3>0, <3>1, <2>1, <1>4, <1>7
    <3>2. CASE n \in 1..m
      <4>1. v[n].t \in T <=> \E i \in 1..k : f[i] = n
        BY <3>2, <1>4, <1>6
      <4>2. \A i \in 1..k : i \in 1..k + 1 /\ g[i] = f[i]
        BY <2>1, <1>3
      <4>3. g[k + 1] # n
        BY <3>2, <2>1, <1>2
      <4>. QED  BY <4>1, <4>2, <4>3, <3>0
    <3>. QED  BY <3>1, <3>2, <1>2
  <2>6. /\ \A i, j \in 1..Len(ls) : i < j => g[i] < g[j]
        /\ \A i \in 1..Len(ls) : ls[i] = Plain(v[g[i]])
        /\ \A n \in 1..Len(v) :
             v[n].t \in T <=> \E i \in 1..Len(ls) : g[i] = n
    <3>1. \A i, j \in 1..Len(ls) : i < j => g[i] < g[j]
      BY <2>3, <1>5
    <3>2. \A i \in 1..Len(ls) : ls[i] = Plain(v[g[i]])
      BY <2>4, <1>5
    <3>3. \A n \in 1..Len(v) :
            v[n].t \in T <=> \E i \in 1..Len(ls) : g[i] = n
      BY <2>5, <1>4, <1>5
    <3>. QED  BY <3>1, <3>2, <3>3
  <2>. QED  BY <2>2, <2>6 DEF Word
<1>8. ASSUME p.t \notin T
      PROVE  Word(T, v, ks)
  <2>1. f \in [1..Len(ks) -> 1..Len(v)]
    BY <1>2, <1>3, <1>4, <1>6
  <2>2. \A i \in 1..k : ks[i] = Plain(v[f[i]])
    <3>. SUFFICES ASSUME NEW i \in 1..k
                  PROVE  ks[i] = Plain(v[f[i]])
      OBVIOUS
    <3>1. f[i] \in 1..m
      BY <1>6
    <3>2. v[f[i]] = w[f[i]]
      BY <3>1, <1>4
    <3>. QED  BY <3>2, <1>6
  <2>3. \A n \in 1..m + 1 : v[n].t \in T <=> \E i \in 1..k : f[i] = n
    <3>. SUFFICES ASSUME NEW n \in 1..m + 1
                  PROVE  v[n].t \in T <=> \E i \in 1..k : f[i] = n
      OBVIOUS
    <3>1. CASE n = m + 1
      <4>1. \A i \in 1..k : f[i] \in 1..m
        BY <1>6
      <4>2. \A i \in 1..k : f[i] # n
        BY <3>1, <4>1, <1>2
      <4>. QED  BY <3>1, <4>2, <1>4, <1>8
    <3>2. CASE n \in 1..m
      BY <3>2, <1>4, <1>6
    <3>. QED  BY <3>1, <3>2, <1>2
  <2>. QED  BY <2>1, <2>2, <2>3, <1>3, <1>4, <1>6 DEF Word
<1>. QED  BY <1>7, <1>8 DEF v, ls

\* Packets of other types behind the word.
LEMMA WordFollowed ==
    ASSUME NEW T, NEW w, NEW ks, NEW r, IsSeq(w), IsSeq(ks), IsSeq(r),
           Word(T, w, ks), \A i \in 1..Len(r) : r[i].t \notin T
    PROVE  Word(T, w \o r, ks)
<1>. DEFINE v == w \o r
<1>1. PICK f \in [1..Len(ks) -> 1..Len(w)] :
         /\ \A i, j \in 1..Len(ks) : i < j => f[i] < f[j]
         /\ \A i \in 1..Len(ks) : ks[i] = Plain(w[f[i]])
         /\ \A n \in 1..Len(w) : w[n].t \in T <=> \E i \in 1..Len(ks) : f[i] = n
  BY DEF Word
<1>2. PICK m : m = Len(w) /\ m \in Nat
  BY Length
<1>3. PICK l : l = Len(r) /\ l \in Nat
  BY Length
<1>4. /\ Len(v) = m + l /\ \A i \in 1..m : v[i] = w[i]
      /\ \A i \in 1..l : v[m + i] = r[i]
  BY <1>2, <1>3, Concat
<1>. HIDE DEF v
<1>5. f \in [1..Len(ks) -> 1..Len(v)]
  BY <1>1, <1>2, <1>3, <1>4
<1>6. \A i \in 1..Len(ks) : ks[i] = Plain(v[f[i]])
  <2>. SUFFICES ASSUME NEW i \in 1..Len(ks)
                PROVE  ks[i] = Plain(v[f[i]])
    OBVIOUS
  <2>1. f[i] \in 1..m
    BY <1>1, <1>2
  <2>2. v[f[i]] = w[f[i]]
    BY <2>1, <1>4
  <2>. QED  BY <2>2, <1>1
<1>7. \A n \in 1..m + l : v[n].t \in T <=> \E i \in 1..Len(ks) : f[i] = n
  <2>. SUFFICES ASSUME NEW n \in 1..m + l
                PROVE  v[n].t \in T <=> \E i \in 1..Len(ks) : f[i] = n
    OBVIOUS
  <2>1. CASE n \in 1..m
    BY <2>1, <1>1, <1>2, <1>4
  <2>2. CASE n \notin 1..m
    <3>1. n - m \in 1..l /\ m + (n - m) = n
      BY <2>2, <1>2, <1>3
    <3>2. v[n].t \notin T
      BY <3>1, <1>3, <1>4
    <3>3. \A i \in 1..Len(ks) : f[i] # n
      BY <2>2, <1>1, <1>2
    <3>. QED  BY <3>2, <3>3
  <2>. QED  BY <2>1, <2>2
<1>8. \A n \in 1..Len(v) : v[n].t \in T <=> \E i \in 1..Len(ks) : f[i] = n
  BY <1>4, <1>7
<1>. QED  BY <1>1, <1>5, <1>6, <1>8 DEF Word, v

\* The packet that is read.
LEMMA WordRead ==
    ASSUME NEW T, NEW w, NEW ks, IsSeq(w), IsSeq(ks), w # <<>>, Word(T, w, ks)
    PROVE  /\ Head(w).t \in T =>
                /\ ks # <<>> /\ Word(T, Tail(w), Tail(ks))
                /\ Head(ks) = Plain(Head(w))
           /\ Head(w).t \notin T => Word(T, Tail(w), ks)
<1>. DEFINE v == Tail(w)
            ls == Tail(ks)
<1>1. PICK f \in [1..Len(ks) -> 1..Len(w)] :
         /\ \A i, j \in 1..Len(ks) : i < j => f[i] < f[j]
         /\ \A i \in 1..Len(ks) : ks[i] = Plain(w[f[i]])
         /\ \A n \in 1..Len(w) : w[n].t \in T <=> \E i \in 1..Len(ks) : f[i] = n
  BY DEF Word
<1>2. PICK m : m = Len(w) /\ m \in Nat
  BY Length
<1>3. PICK k : k = Len(ks) /\ k \in Nat
  BY Length
<1>4. /\ m > 0 /\ Head(w) = w[1] /\ Len(v) = m - 1
      /\ \A i \in 1..m - 1 : v[i] = w[i + 1]
  BY <1>2, Rest
<1>. HIDE DEF v
<1>6. /\ f \in [1..k -> 1..m]
      /\ \A i, j \in 1..k : i < j => f[i] < f[j]
      /\ \A i \in 1..k : ks[i] = Plain(w[f[i]])
      /\ \A n \in 1..m : w[n].t \in T <=> \E i \in 1..k : f[i] = n
  BY <1>1, <1>2, <1>3
<1>7. ASSUME w[1].t \in T
      PROVE  /\ ks # <<>> /\ Word(T, v, ls)
             /\ Head(ks) = Plain(w[1])
  <2>1. PICK i0 \in 1..k : f[i0] = 1
    BY <1>2, <1>4, <1>6, <1>7
  <2>2. k > 0 /\ ks # <<>> /\ f[1] = 1
    <3>1. k > 0 /\ 1 \in 1..k
      BY <1>3
    <3>2. f[1] \in 1..m
      BY <3>1, <1>6
    <3>3. i0 = 1 \/ f[1] < f[i0]
      BY <3>1, <1>6, <1>3
    <3>. QED  BY <3>1, <3>2, <3>3, <2>1, <1>2, <1>3, Nonempty
  <2>3. /\ Head(ks) = ks[1] /\ Len(ls) = k - 1
        /\ \A i \in 1..k - 1 : ls[i] = ks[i + 1]
    BY <2>2, <1>3, Rest
  <2>. HIDE DEF ls
  <2>. DEFINE g == [i \in 1..k - 1 |-> f[i + 1] - 1]
  <2>4. \A i \in 1..k - 1 : i + 1 \in 1..k /\ f[i + 1] \in 2..m
    <3>. SUFFICES ASSUME NEW i \in 1..k - 1
                  PROVE  i + 1 \in 1..k /\ f[i + 1] \in 2..m
      OBVIOUS
    <3>1. i + 1 \in 1..k /\ 1 \in 1..k /\ 1 < i + 1
      BY <1>3
    <3>2. f[1] < f[i + 1] /\ f[i + 1] \in 1..m
      BY <3>1, <1>6
    <3>. QED  BY <3>1, <3>2, <2>2, <1>2
  <2>5. \A i \in 1..k - 1 : g[i] = f[i + 1] - 1 /\ g[i] \in 1..m - 1
    BY <2>4, <1>2
  <2>6. g \in [1..Len(ls) -> 1..Len(v)]
    BY <2>3, <2>5, <1>4
  <2>. HIDE DEF g
  <2>7. \A i, j \in 1..k - 1 : i < j => g[i] < g[j]
    <3>. SUFFICES ASSUME NEW i \in 1..k - 1, NEW j \in 1..k - 1, i < j
                  PROVE  g[i] < g[j]
      OBVIOUS
    <3>1. i + 1 < j + 1 /\ i + 1 \in 1..k /\ j + 1 \in 1..k
      BY <2>4
    <3>2. f[i + 1] < f[j + 1]
      BY <3>1, <1>6
    <3>. QED  BY <3>2, <2>4, <2>5, <1>2
  <2>8. \A i \in 1..k - 1 : ls[i] = Plain(v[g[i]])
    <3>. SUFFICES ASSUME NEW i \in 1..k - 1
                  PROVE  ls[i] = Plain(v[g[i]])
      OBVIOUS
    <3>1. f[i + 1] \in 2..m /\ i + 1 \in 1..k
      BY <2>4
    <3>2. g[i] \in 1..m - 1 /\ g[i] + 1 = f[i + 1]
      BY <3>1, <2>5, <1>2
    <3>3. v[g[i]] = w[f[i + 1]]
      BY <3>2, <1>4
    <3>. QED  BY <3>1, <3>3, <2>3, <1>6
  <2>9. \A n \in 1..m - 1 : v[n].t \in T <=> \E i \in 1..k - 1 : g[i] = n
    <3>. SUFFICES ASSUME NEW n \in 1..m - 1
                  PROVE  v[n].t \in T <=> \E i \in 1..k - 1 : g[i] = n
      OBVIOUS
    <3>1. n + 1 \in 1..m /\ v[n] = w[n + 1] /\ n + 1 # 1
      BY <1>2, <1>4
    <3>2. v[n].t \in T <=> \E i \in 1..k : f[i] = n + 1
      BY <3>1, <1>6
    <3>3. ASSUME NEW i \in 1..k, f[i] = n + 1
          PROVE  \E j \in 1..k - 1 : g[j] = n
      <4>1. i # 1
        BY <3>1, <3>3, <2>2
      <4>2. i - 1 \in 1..k - 1 /\ (i - 1) + 1 = i
        BY <4>1, <1>3
      <4>3. g[i - 1] = n
        BY <4>2, <3>3, <2>5, <1>2
      <4>. QED  BY <4>2, <4>3
    <3>4. ASSUME NEW j \in 1..k - 1, g[j] = n
          PROVE  \E i \in 1..k : f[i] = n + 1
      <4>1. j + 1 \in 1..k /\ f[j + 1] \in 2..m
        BY <2>4
      <4>2. f[j + 1] = n + 1
        BY <4>1, <3>4, <2>5, <1>2
      <4>. QED  BY <4>1, <4>2
    <3>. QED  BY <3>2, <3>3, <3>4
  <2>10. Word(T, v, ls)
    <3>1. /\ \A i, j \in 1..Len(ls) : i < j => g[i] < g[j]
          /\ \A i \in 1..Len(ls) : ls[i] = Plain(v[g[i]])
      BY <2>3, <2>7, <2>8
    <3>2. \A n \in 1..Len(v) : v[n].t \in T <=> \E i \in 1..Len(ls) : g[i] = n
      BY <2>3, <2>9, <1>4
    <3>. QED  BY <3>1, <3>2, <2>6 DEF Word
  <2>11. Head(ks) = Plain(w[1])
    <3>1. 1 \in 1..k
      BY <2>2, <1>3
    <3>2. ks[1] = Plain(w[f[1]])
      BY <3>1, <1>6
    <3>. QED  BY <3>2, <2>2, <2>3
  <2>. QED  BY <2>2, <2>10, <2>11 DEF ls
<1>8. ASSUME w[1].t \notin T
      PROVE  Word(T, v, ks)
  <2>. DEFINE g == [i \in 1..k |-> f[i] - 1]
  <2>1. \A i \in 1..k : f[i] \in 2..m
    <3>. SUFFICES ASSUME NEW i \in 1..k
                  PROVE  f[i] \in 2..m
      OBVIOUS
    <3>1. f[i] \in 1..m /\ f[i] # 1
      BY <1>2, <1>4, <1>6, <1>8
    <3>. QED  BY <3>1, <1>2
  <2>2. \A i \in 1..k : g[i] = f[i] - 1 /\ g[i] \in 1..m - 1
    BY <2>1, <1>2
  <2>3. g \in [1..Len(ks) -> 1..Len(v)]
    BY <2>2, <1>3, <1>4
  <2>. HIDE DEF g
  <2>4. \A i, j \in 1..k : i < j => g[i] < g[j]
    <3>. SUFFICES ASSUME NEW i \in 1..k, NEW j \in 1..k, i < j
                  PROVE  g[i] < g[j]
      OBVIOUS
    <3>1. f[i] < f[j]
      BY <1>6
    <3>. QED  BY <3>1, <2>1, <2>2, <1>2
  <2>5. \A i \in 1..k : ks[i] = Plain(v[g[i]])
    <3>. SUFFICES ASSUME NEW i \in 1..k
                  PROVE  ks[i] = Plain(v[g[i]])
      OBVIOUS
    <3>1. g[i] \in 1..m - 1 /\ g[i] + 1 = f[i]
      BY <2>1, <2>2, <1>2
    <3>2. v[g[i]] = w[f[i]]
      BY <3>1, <1>4
    <3>. QED  BY <3>2, <1>6
  <2>6. \A n \in 1..m - 1 : v[n].t \in T <=> \E i \in 1..k : g[i] = n
    <3>. SUFFICES ASSUME NEW n \in 1..m - 1
                  PROVE  v[n].t \in T <=> \E i \in 1..k : g[i] = n
      OBVIOUS
    <3>1. n + 1 \in 1..m /\ v[n] = w[n + 1]
      BY <1>2, <1>4
    <3>2. v[n].t \in T <=> \E i \in 1..k : f[i] = n + 1
      BY <3>1, <1>6
    <3>3. \A i \in 1..k : f[i] = n + 1 <=> g[i] = n
      BY <2>1, <2>2, <1>2
    <3>. QED  BY <3>2, <3>3
  <2>. QED  BY <2>3, <2>4, <2>5, <2>6, <1>3, <1>4 DEF Word
<1>. QED  BY <1>4, <1>7, <1>8 DEF v, ls

---------------------------------------------------------------------------
(* Lines *)

LEMMA Types ==
    /\ "NEWKEYS" \in KexType /\ "KEXINIT" \in KexType
    /\ SUCCESS \in UpperType /\ SUCCESS \notin ConnectionType
    /\ SUCCESS \in Dialogue
    /\ ConnectionType \subseteq UpperType /\ Dialogue \subseteq UpperType
    /\ \A t \in KexType : t \notin UpperType
    /\ \A t \in UpperType : t \in Dialogue <=> t \notin ConnectionType
BY DEF KexType, UpperType, ServiceType, AuthType, ConnectionType, Dialogue, SUCCESS

LEMMA AppendedBefore ==
    ASSUME NEW w, NEW p, NEW t, IsSeq(w)
    PROVE  /\ Has(Append(w, p), t) <=> Has(w, t) \/ p.t = t
           /\ \A i \in 1..Len(w) : Before(Append(w, p), t, i) <=> Before(w, t, i)
           /\ Before(Append(w, p), t, Len(w) + 1) <=> Has(w, t)
           /\ \A i \in 1..Len(w) : Before(w, t, i) => Has(w, t)
<1>. DEFINE v == Append(w, p)
<1>1. PICK m : m = Len(w) /\ m \in Nat
  BY Length
<1>2. /\ Len(v) = m + 1 /\ v[m + 1] = p
      /\ \A i \in 1..m : v[i] = w[i]
  BY <1>1, AppendOne
<1>. HIDE DEF v
<1>3. \A i \in 1..m + 1 : Before(v, t, i) <=> \E j \in 1..i - 1 : w[j].t = t
  <2>. SUFFICES ASSUME NEW i \in 1..m + 1
                PROVE  Before(v, t, i) <=> \E j \in 1..i - 1 : w[j].t = t
    OBVIOUS
  <2>1. \A j \in 1..i - 1 : j \in 1..m
    BY <1>1
  <2>. QED  BY <2>1, <1>2 DEF Before
<1>4. Has(v, t) <=> Has(w, t) \/ p.t = t
  <2>1. \A i \in 1..m + 1 : i \in 1..m \/ i = m + 1
    BY <1>1
  <2>2. \A i \in 1..m : i \in 1..m + 1
    BY <1>1
  <2>3. m + 1 \in 1..m + 1
    BY <1>1
  <2>. QED  BY <2>1, <2>2, <2>3, <1>1, <1>2 DEF Has
<1>5. \A i \in 1..m : Before(v, t, i) <=> Before(w, t, i)
  BY <1>1, <1>3 DEF Before
<1>6. Before(v, t, m + 1) <=> Has(w, t)
  <2>1. m + 1 \in 1..m + 1 /\ (m + 1) - 1 = m
    BY <1>1
  <2>. QED  BY <2>1, <1>1, <1>3 DEF Has
<1>7. \A i \in 1..m : Before(w, t, i) => Has(w, t)
  <2>1. \A i \in 1..m : \A j \in 1..i - 1 : j \in 1..m
    BY <1>1
  <2>. QED  BY <2>1, <1>1 DEF Before, Has
<1>. QED  BY <1>1, <1>4, <1>5, <1>6, <1>7 DEF v

LEMMA FollowedBefore ==
    ASSUME NEW w, NEW q, NEW t, IsSeq(w), IsSeq(q)
    PROVE  /\ Has(w \o q, t) <=> Has(w, t) \/ Has(q, t)
           /\ \A i \in 1..Len(w) : Before(w \o q, t, i) <=> Before(w, t, i)
           /\ Has(w, t) => \A i \in 1..Len(q) : Before(w \o q, t, Len(w) + i)
           /\ ~Has(w, t) /\ ~Has(q, t) =>
                \A i \in 1..Len(q) : ~Before(w \o q, t, Len(w) + i)
<1>. DEFINE v == w \o q
<1>1. PICK m : m = Len(w) /\ m \in Nat
  BY Length
<1>2. PICK l : l = Len(q) /\ l \in Nat
  BY Length
<1>3. /\ Len(v) = m + l /\ \A i \in 1..m : v[i] = w[i]
      /\ \A i \in 1..l : v[m + i] = q[i]
  BY <1>1, <1>2, Concat
<1>. HIDE DEF v
<1>4. \A i \in 1..m + l : i \in 1..m \/ (i - m \in 1..l /\ m + (i - m) = i)
  BY <1>1, <1>2
<1>5. \A i \in 1..m : i \in 1..m + l
  BY <1>1, <1>2
<1>6. \A i \in 1..l : m + i \in 1..m + l
  BY <1>1, <1>2
<1>7. Has(v, t) <=> Has(w, t) \/ Has(q, t)
  <2>1. ASSUME NEW i \in 1..m + l, v[i].t = t
        PROVE  Has(w, t) \/ Has(q, t)
    <3>1. CASE i \in 1..m
      BY <3>1, <2>1, <1>1, <1>3 DEF Has
    <3>2. CASE i - m \in 1..l /\ m + (i - m) = i
      <4>1. q[i - m].t = t
        BY <3>2, <2>1, <1>3
      <4>. QED  BY <4>1, <3>2, <1>2 DEF Has
    <3>. QED  BY <3>1, <3>2, <1>4
  <2>2. ASSUME NEW i \in 1..m, w[i].t = t
        PROVE  Has(v, t)
    BY <2>2, <1>3, <1>5 DEF Has
  <2>3. ASSUME NEW i \in 1..l, q[i].t = t
        PROVE  Has(v, t)
    BY <2>3, <1>3, <1>6 DEF Has
  <2>. QED  BY <2>1, <2>2, <2>3, <1>1, <1>2, <1>3 DEF Has
<1>8. \A i \in 1..m : Before(v, t, i) <=> Before(w, t, i)
  <2>1. \A i \in 1..m : \A j \in 1..i - 1 : j \in 1..m
    BY <1>1
  <2>. QED  BY <2>1, <1>3 DEF Before
<1>9. ASSUME Has(w, t), NEW i \in 1..l
      PROVE  Before(v, t, m + i)
  <2>1. PICK j \in 1..m : w[j].t = t
    BY <1>1, <1>9 DEF Has
  <2>2. j \in 1..(m + i) - 1 /\ v[j].t = t
    BY <2>1, <1>1, <1>2, <1>3
  <2>. QED  BY <2>2 DEF Before
<1>10. ASSUME ~Has(w, t), ~Has(q, t), NEW i \in 1..l
       PROVE  ~Before(v, t, m + i)
  <2>1. \A j \in 1..(m + i) - 1 : j \in 1..m + l
    BY <1>1, <1>2
  <2>2. \A j \in 1..m + l : v[j].t # t
    BY <1>3, <1>7, <1>10 DEF Has
  <2>. QED  BY <2>1, <2>2 DEF Before
<1>. QED  BY <1>1, <1>2, <1>7, <1>8, <1>9, <1>10 DEF v

LEMMA ReadBefore ==
    ASSUME NEW w, NEW t, IsSeq(w), w # <<>>
    PROVE  /\ Has(w, t) <=> Has(Tail(w), t) \/ Head(w).t = t
           /\ \A i \in 1..Len(Tail(w)) :
                Before(w, t, i + 1) <=> Before(Tail(w), t, i) \/ Head(w).t = t
           /\ ~Before(w, t, 1) /\ 1 \in 1..Len(w) /\ Head(w) = w[1]
<1>. DEFINE v == Tail(w)
<1>1. PICK m : m = Len(w) /\ m \in Nat
  BY Length
<1>2. /\ m > 0 /\ Head(w) = w[1] /\ Len(v) = m - 1
      /\ \A i \in 1..m - 1 : v[i] = w[i + 1]
  BY <1>1, Rest
<1>. HIDE DEF v
<1>3. \A i \in 1..m : i = 1 \/ (i - 1 \in 1..m - 1 /\ (i - 1) + 1 = i)
  BY <1>1
<1>4. \A i \in 1..m - 1 : i + 1 \in 1..m
  BY <1>1
<1>5. 1 \in 1..m
  BY <1>1, <1>2
<1>6. Has(w, t) <=> Has(v, t) \/ w[1].t = t
  <2>1. ASSUME NEW i \in 1..m, w[i].t = t
        PROVE  Has(v, t) \/ w[1].t = t
    <3>1. CASE i # 1
      <4>1. i - 1 \in 1..m - 1 /\ v[i - 1] = w[i]
        BY <3>1, <1>2, <1>3
      <4>. QED  BY <4>1, <2>1, <1>2 DEF Has
    <3>. QED  BY <3>1, <2>1
  <2>2. ASSUME NEW i \in 1..m - 1, v[i].t = t
        PROVE  Has(w, t)
    BY <2>2, <1>1, <1>2, <1>4 DEF Has
  <2>3. w[1].t = t => Has(w, t)
    BY <1>1, <1>5 DEF Has
  <2>. QED  BY <2>1, <2>2, <2>3, <1>1, <1>2 DEF Has
<1>7. ASSUME NEW i \in 1..m - 1
      PROVE  Before(w, t, i + 1) <=> Before(v, t, i) \/ w[1].t = t
  <2>1. ASSUME NEW j \in 1..(i + 1) - 1, w[j].t = t
        PROVE  Before(v, t, i) \/ w[1].t = t
    <3>1. CASE j # 1
      <4>1. j - 1 \in 1..i - 1 /\ j - 1 \in 1..m - 1 /\ (j - 1) + 1 = j
        BY <3>1, <1>1
      <4>2. v[j - 1] = w[j]
        BY <4>1, <1>2
      <4>. QED  BY <4>1, <4>2, <2>1 DEF Before
    <3>. QED  BY <3>1, <2>1
  <2>2. ASSUME NEW j \in 1..i - 1, v[j].t = t
        PROVE  Before(w, t, i + 1)
    <3>1. j \in 1..m - 1 /\ j + 1 \in 1..(i + 1) - 1
      BY <1>1
    <3>. QED  BY <3>1, <2>2, <1>2 DEF Before
  <2>3. 1 \in 1..(i + 1) - 1
    BY <1>1
  <2>. QED  BY <2>1, <2>2, <2>3 DEF Before
<1>8. ~Before(w, t, 1)
  <2>1. 1..1 - 1 = {}
    OBVIOUS
  <2>. QED  BY <2>1 DEF Before
<1>. QED  BY <1>1, <1>2, <1>5, <1>6, <1>7, <1>8 DEF v

\* The sender, and the reader, have not changed in what a line depends on.
AsSender(s, x) == x.keys.trans = s.keys.trans /\ x.authdone = s.authdone
AsReader(r, x) ==
    /\ x.keys.recv = r.keys.recv /\ x.authdone = r.authdone
    /\ x.requirenext # "none" => r.requirenext # "none"
    /\ x.donefirstkex => r.donefirstkex

LEMMA LineSame ==
    ASSUME NEW w, NEW ks, NEW us, NEW s, NEW r, NEW x, NEW y,
           Line(w, ks, us, s, r), AsSender(s, x), AsReader(r, y)
    PROVE  Line(w, ks, us, x, y)
<1>1. /\ x.keys.trans = s.keys.trans /\ x.authdone = s.authdone
      /\ y.keys.recv = r.keys.recv /\ y.authdone = r.authdone
      /\ y.requirenext # "none" => r.requirenext # "none"
      /\ y.donefirstkex => r.donefirstkex
  BY DEF AsSender, AsReader
<1>. QED  BY <1>1 DEF Line

\* The packet p is put on the wire by an end that becomes x: as it is, or
\* with its new keys behind a NEWKEYS, or accepting behind a SUCCESS.
LEMMA LineAppended ==
    ASSUME NEW w, NEW ks, NEW us, NEW s, NEW r, NEW x, NEW p,
           IsSeq(w), IsSeq(ks), IsSeq(us), Line(w, ks, us, s, r),
           p.t \in KexType \cup UpperType, p.key = s.keys.trans,
           p.z \in BOOLEAN,
           p.z <=> Compress /\ s.authdone /\ s.keys.trans # NoKeys,
           s.authdone => s.keys.trans # NoKeys,
           p.t \in UpperType /\ r.requirenext # "none" => Has(w, "NEWKEYS"),
           p.t \in ConnectionType \cup {"KEXINIT"} => s.authdone,
           p.t # "NEWKEYS" => x.keys.trans = s.keys.trans,
           p.t = "NEWKEYS" => ~Has(w, "NEWKEYS"),
           p.t # SUCCESS => x.authdone = s.authdone,
           p.t = SUCCESS => ~s.authdone /\ ~r.authdone /\ x.authdone
    PROVE  Line(Append(w, p), IF p.t \in KexType THEN Append(ks, Plain(p)) ELSE ks,
                IF p.t \in Dialogue THEN Append(us, Plain(p)) ELSE us, x, r)
<1>. DEFINE v == Append(w, p)
            ls == IF p.t \in KexType THEN Append(ks, Plain(p)) ELSE ks
            ws == IF p.t \in Dialogue THEN Append(us, Plain(p)) ELSE us
<1>1. PICK m : m = Len(w) /\ m \in Nat
  BY Length
<1>2. /\ Len(v) = m + 1 /\ v[m + 1] = p
      /\ \A i \in 1..m : v[i] = w[i]
  BY <1>1, AppendOne
<1>3. \A t : /\ Has(v, t) <=> Has(w, t) \/ p.t = t
             /\ \A i \in 1..m : Before(v, t, i) <=> Before(w, t, i)
             /\ Before(v, t, m + 1) <=> Has(w, t)
             /\ \A i \in 1..m : Before(w, t, i) => Has(w, t)
  BY <1>1, AppendedBefore
<1>4. Word(KexType, v, ls) /\ Word(Dialogue, v, ws)
  BY WordAppended DEF Line
<1>. HIDE DEF v, ls, ws
<1>5. /\ \A i \in 1..m : w[i].t \in KexType \cup UpperType
      /\ \A i \in 1..m : w[i].key = IF Before(w, "NEWKEYS", i)
                                    THEN s.keys.trans ELSE r.keys.recv
      /\ ~Has(w, "NEWKEYS") => s.keys.trans = r.keys.recv
      /\ r.requirenext # "none" =>
           \A i \in 1..m : w[i].t \in UpperType => Before(w, "NEWKEYS", i)
      /\ \A i \in 1..m : w[i].z \in BOOLEAN
      /\ \A i \in 1..m :
           w[i].z <=> /\ Compress /\ s.authdone
                      /\ r.authdone \/ Before(w, SUCCESS, i)
      /\ s.authdone => r.authdone \/ Has(w, SUCCESS)
      /\ ~s.authdone =>
           \A i \in 1..m : w[i].t \notin ConnectionType \cup {SUCCESS}
      /\ ~r.authdone =>
           \A i \in 1..m : w[i].t \in ConnectionType => Before(w, SUCCESS, i)
      /\ ~r.authdone /\ r.donefirstkex =>
           \A i \in 1..m : w[i].t = "KEXINIT" => Before(w, SUCCESS, i)
  BY <1>1 DEF Line
<1>6. \A i \in 1..m + 1 : i \in 1..m \/ i = m + 1
  BY <1>1
<1>7. \A i \in 1..m + 1 : v[i].t \in KexType \cup UpperType
  BY <1>2, <1>5, <1>6
<1>8. \A i \in 1..m + 1 : v[i].key = IF Before(v, "NEWKEYS", i)
                                     THEN x.keys.trans ELSE r.keys.recv
  <2>. SUFFICES ASSUME NEW i \in 1..m + 1
                PROVE  v[i].key = IF Before(v, "NEWKEYS", i)
                                  THEN x.keys.trans ELSE r.keys.recv
    OBVIOUS
  <2>1. CASE i \in 1..m
    <3>1. v[i] = w[i] /\ (Before(v, "NEWKEYS", i) <=> Before(w, "NEWKEYS", i))
      BY <2>1, <1>2, <1>3
    <3>2. Before(w, "NEWKEYS", i) => Has(w, "NEWKEYS")
      BY <2>1, <1>3
    <3>. QED  BY <2>1, <3>1, <3>2, <1>5
  <2>2. CASE i = m + 1
    <3>1. v[i] = p /\ (Before(v, "NEWKEYS", i) <=> Has(w, "NEWKEYS"))
      BY <2>2, <1>2, <1>3
    <3>. QED  BY <3>1, <1>5
  <2>. QED  BY <2>1, <2>2, <1>6
<1>9. ~Has(v, "NEWKEYS") => x.keys.trans = r.keys.recv
  BY <1>3, <1>5
<1>10. ASSUME r.requirenext # "none", NEW i \in 1..m + 1, v[i].t \in UpperType
       PROVE  Before(v, "NEWKEYS", i)
  <2>1. CASE i \in 1..m
    BY <2>1, <1>2, <1>3, <1>5, <1>10
  <2>2. CASE i = m + 1
    BY <2>2, <1>2, <1>3, <1>10
  <2>. QED  BY <2>1, <2>2, <1>6
<1>11. SUCCESS \notin ConnectionType
  BY Types
<1>12. ASSUME p.t = SUCCESS
       PROVE  ~Has(w, SUCCESS) /\ \A i \in 1..m : ~Before(w, SUCCESS, i)
  <2>1. \A i \in 1..m : w[i].t # SUCCESS
    BY <1>5, <1>12
  <2>2. ~Has(w, SUCCESS)
    BY <2>1, <1>1 DEF Has
  <2>. QED  BY <2>2, <1>3
<1>13. \A i \in 1..m + 1 :
         v[i].z <=> /\ Compress /\ x.authdone
                    /\ r.authdone \/ Before(v, SUCCESS, i)
  <2>. SUFFICES ASSUME NEW i \in 1..m + 1
                PROVE  v[i].z <=> /\ Compress /\ x.authdone
                                  /\ r.authdone \/ Before(v, SUCCESS, i)
    OBVIOUS
  <2>1. CASE i \in 1..m
    <3>1. v[i] = w[i] /\ (Before(v, SUCCESS, i) <=> Before(w, SUCCESS, i))
      BY <2>1, <1>2, <1>3
    <3>2. w[i].z <=> /\ Compress /\ s.authdone
                     /\ r.authdone \/ Before(w, SUCCESS, i)
      BY <2>1, <1>5
    <3>3. p.t = SUCCESS => ~Before(w, SUCCESS, i)
      BY <2>1, <1>12
    <3>. QED  BY <3>1, <3>2, <3>3
  <2>2. CASE i = m + 1
    <3>1. v[i] = p /\ (Before(v, SUCCESS, i) <=> Has(w, SUCCESS))
      BY <2>2, <1>2, <1>3
    <3>2. p.t = SUCCESS => ~Has(w, SUCCESS)
      BY <1>12
    <3>. QED  BY <3>1, <3>2, <1>5
  <2>. QED  BY <2>1, <2>2, <1>6
<1>14. x.authdone => r.authdone \/ Has(v, SUCCESS)
  BY <1>3, <1>5
<1>15. ASSUME ~x.authdone, NEW i \in 1..m + 1
       PROVE  v[i].t \notin ConnectionType \cup {SUCCESS}
  BY <1>2, <1>5, <1>6, <1>15
<1>16. ASSUME ~r.authdone, NEW i \in 1..m + 1, v[i].t \in ConnectionType
       PROVE  Before(v, SUCCESS, i)
  BY <1>2, <1>3, <1>5, <1>6, <1>16
<1>17. ASSUME ~r.authdone, r.donefirstkex, NEW i \in 1..m + 1, v[i].t = "KEXINIT"
       PROVE  Before(v, SUCCESS, i)
  BY <1>2, <1>3, <1>5, <1>6, <1>17
<1>19. \A i \in 1..m + 1 : v[i].z \in BOOLEAN
  BY <1>2, <1>5, <1>6
<1>18. Line(v, ls, ws, x, r)
  BY <1>2, <1>4, <1>7, <1>8, <1>9, <1>10, <1>13, <1>14, <1>15, <1>16, <1>17, <1>19
  DEF Line
<1>. QED  BY <1>18 DEF v, ls, ws

\* The reply queue is flushed.
LEMMA LineFollowed ==
    ASSUME NEW w, NEW ks, NEW us, NEW s, NEW r, NEW q,
           IsSeq(w), IsSeq(ks), IsSeq(us), IsSeq(q), Line(w, ks, us, s, r),
           s.authdone /\ s.keys.trans # NoKeys,
           r.requirenext # "none" => Has(w, "NEWKEYS"),
           \A i \in 1..Len(q) : /\ q[i].t \in ConnectionType
                                /\ q[i].key = s.keys.trans
                                /\ q[i].z \in BOOLEAN
                                /\ q[i].z <=> Compress
    PROVE  Line(w \o q, ks, us, s, r)
<1>. DEFINE v == w \o q
<1>1. PICK m : m = Len(w) /\ m \in Nat
  BY Length
<1>2. PICK l : l = Len(q) /\ l \in Nat
  BY Length
<1>3. /\ Len(v) = m + l /\ \A i \in 1..m : v[i] = w[i]
      /\ \A i \in 1..l : v[m + i] = q[i]
  BY <1>1, <1>2, Concat
<1>4. \A i \in 1..l : q[i].t \in UpperType /\ q[i].t \notin KexType \cup Dialogue
                      /\ q[i].t # "NEWKEYS" /\ q[i].t # SUCCESS
  BY <1>2, Types
<1>5. ~Has(q, "NEWKEYS") /\ ~Has(q, SUCCESS)
  BY <1>2, <1>4 DEF Has
<1>6. \A t : /\ Has(v, t) <=> Has(w, t) \/ Has(q, t)
             /\ \A i \in 1..m : Before(v, t, i) <=> Before(w, t, i)
             /\ Has(w, t) => \A i \in 1..l : Before(v, t, m + i)
             /\ ~Has(w, t) /\ ~Has(q, t) =>
                  \A i \in 1..l : ~Before(v, t, m + i)
  BY <1>1, <1>2, FollowedBefore
<1>7. Word(KexType, v, ks) /\ Word(Dialogue, v, us)
  BY <1>2, <1>4, WordFollowed DEF Line
<1>. HIDE DEF v
<1>8. /\ \A i \in 1..m : w[i].t \in KexType \cup UpperType
      /\ \A i \in 1..m : w[i].key = IF Before(w, "NEWKEYS", i)
                                    THEN s.keys.trans ELSE r.keys.recv
      /\ ~Has(w, "NEWKEYS") => s.keys.trans = r.keys.recv
      /\ r.requirenext # "none" =>
           \A i \in 1..m : w[i].t \in UpperType => Before(w, "NEWKEYS", i)
      /\ \A i \in 1..m : w[i].z \in BOOLEAN
      /\ \A i \in 1..m :
           w[i].z <=> /\ Compress /\ s.authdone
                      /\ r.authdone \/ Before(w, SUCCESS, i)
      /\ r.authdone \/ Has(w, SUCCESS)
      /\ ~r.authdone =>
           \A i \in 1..m : w[i].t \in ConnectionType => Before(w, SUCCESS, i)
      /\ ~r.authdone /\ r.donefirstkex =>
           \A i \in 1..m : w[i].t = "KEXINIT" => Before(w, SUCCESS, i)
  BY <1>1 DEF Line
<1>9. \A i \in 1..m + l : i \in 1..m \/ \E j \in 1..l : i = m + j
  <2>. SUFFICES ASSUME NEW i \in 1..m + l, i \notin 1..m
                PROVE  \E j \in 1..l : i = m + j
    OBVIOUS
  <2>1. i - m \in 1..l /\ i = m + (i - m)
    BY <1>1, <1>2
  <2>. QED  BY <2>1
<1>10. \A i \in 1..m + l : v[i].t \in KexType \cup UpperType
  <2>. SUFFICES ASSUME NEW i \in 1..m + l
                PROVE  v[i].t \in KexType \cup UpperType
    OBVIOUS
  <2>1. CASE i \in 1..m
    BY <2>1, <1>3, <1>8
  <2>2. ASSUME NEW j \in 1..l, i = m + j
        PROVE  v[i].t \in KexType \cup UpperType
    BY <2>2, <1>3, <1>4
  <2>. QED  BY <2>1, <2>2, <1>9
<1>11. \A i \in 1..m + l : v[i].key = IF Before(v, "NEWKEYS", i)
                                      THEN s.keys.trans ELSE r.keys.recv
  <2>. SUFFICES ASSUME NEW i \in 1..m + l
                PROVE  v[i].key = IF Before(v, "NEWKEYS", i)
                                  THEN s.keys.trans ELSE r.keys.recv
    OBVIOUS
  <2>1. CASE i \in 1..m
    BY <2>1, <1>3, <1>6, <1>8
  <2>2. ASSUME NEW j \in 1..l, i = m + j
        PROVE  v[i].key = IF Before(v, "NEWKEYS", i)
                          THEN s.keys.trans ELSE r.keys.recv
    <3>1. v[i].key = s.keys.trans
      BY <2>2, <1>2, <1>3
    <3>2. CASE Has(w, "NEWKEYS")
      <4>1. Before(v, "NEWKEYS", i)
        BY <2>2, <3>2, <1>6
      <4>. QED  BY <3>1, <4>1
    <3>3. CASE ~Has(w, "NEWKEYS")
      BY <3>1, <3>3, <1>8
    <3>. QED  BY <3>2, <3>3
  <2>. QED  BY <2>1, <2>2, <1>9
<1>12. ~Has(v, "NEWKEYS") => s.keys.trans = r.keys.recv
  BY <1>6, <1>8
<1>13. ASSUME r.requirenext # "none", NEW i \in 1..m + l, v[i].t \in UpperType
       PROVE  Before(v, "NEWKEYS", i)
  <2>1. CASE i \in 1..m
    BY <2>1, <1>3, <1>6, <1>8, <1>13
  <2>2. ASSUME NEW j \in 1..l, i = m + j
        PROVE  Before(v, "NEWKEYS", i)
    BY <2>2, <1>6, <1>13
  <2>. QED  BY <2>1, <2>2, <1>9
<1>14. \A i \in 1..m + l :
         v[i].z <=> /\ Compress /\ s.authdone
                    /\ r.authdone \/ Before(v, SUCCESS, i)
  <2>. SUFFICES ASSUME NEW i \in 1..m + l
                PROVE  v[i].z <=> /\ Compress /\ s.authdone
                                  /\ r.authdone \/ Before(v, SUCCESS, i)
    OBVIOUS
  <2>1. CASE i \in 1..m
    BY <2>1, <1>3, <1>6, <1>8
  <2>2. ASSUME NEW j \in 1..l, i = m + j
        PROVE  v[i].z <=> /\ Compress /\ s.authdone
                          /\ r.authdone \/ Before(v, SUCCESS, i)
    <3>1. v[i].z <=> Compress
      BY <2>2, <1>2, <1>3
    <3>2. Has(w, SUCCESS) => Before(v, SUCCESS, i)
      BY <2>2, <1>6
    <3>. QED  BY <3>1, <3>2, <1>8
  <2>. QED  BY <2>1, <2>2, <1>9
<1>15. r.authdone \/ Has(v, SUCCESS)
  BY <1>6, <1>8
<1>16. ASSUME ~r.authdone, NEW i \in 1..m + l, v[i].t \in ConnectionType
       PROVE  Before(v, SUCCESS, i)
  <2>1. CASE i \in 1..m
    BY <2>1, <1>3, <1>6, <1>8, <1>16
  <2>2. ASSUME NEW j \in 1..l, i = m + j
        PROVE  Before(v, SUCCESS, i)
    BY <2>2, <1>6, <1>8, <1>16
  <2>. QED  BY <2>1, <2>2, <1>9
<1>17. ASSUME ~r.authdone, r.donefirstkex, NEW i \in 1..m + l, v[i].t = "KEXINIT"
       PROVE  Before(v, SUCCESS, i)
  <2>1. CASE i \in 1..m
    BY <2>1, <1>3, <1>6, <1>8, <1>17
  <2>2. ASSUME NEW j \in 1..l, i = m + j
        PROVE  Before(v, SUCCESS, i)
    BY <2>2, <1>6, <1>8, <1>17
  <2>. QED  BY <2>1, <2>2, <1>9
<1>19. \A i \in 1..m + l : v[i].z \in BOOLEAN
  <2>. SUFFICES ASSUME NEW i \in 1..m + l
                PROVE  v[i].z \in BOOLEAN
    OBVIOUS
  <2>1. CASE i \in 1..m
    BY <2>1, <1>3, <1>8
  <2>2. ASSUME NEW j \in 1..l, i = m + j
        PROVE  v[i].z \in BOOLEAN
    BY <2>2, <1>2, <1>3
  <2>. QED  BY <2>1, <2>2, <1>9
<1>18. Line(v, ks, us, s, r)
  BY <1>3, <1>7, <1>10, <1>11, <1>12, <1>13, <1>14, <1>15, <1>16, <1>17, <1>19
  DEF Line
<1>. QED  BY <1>18 DEF v

\* The first packet p is read by an end that becomes x.
LEMMA LineRead ==
    ASSUME NEW w, NEW ks, NEW us, NEW s, NEW r, NEW x, NEW p,
           IsSeq(w), IsSeq(ks), IsSeq(us), Line(w, ks, us, s, r),
           w # <<>>, p = Head(w),
           p.t # "NEWKEYS" => x.keys.recv = r.keys.recv,
           p.t = "NEWKEYS" =>
             x.keys.recv = s.keys.trans /\ ~Has(Tail(w), "NEWKEYS"),
           p.t # SUCCESS => x.authdone = r.authdone,
           p.t = SUCCESS => x.authdone,
           \/ x.requirenext = "none"
           \/ r.requirenext # "none" /\ p.t # "NEWKEYS"
           \/ \A i \in 1..Len(Tail(w)) :
                Tail(w)[i].t \in UpperType => Before(Tail(w), "NEWKEYS", i),
           \/ x.donefirstkex => r.donefirstkex
           \/ ~Has(Tail(w), "KEXINIT")
    PROVE  Line(Tail(w), IF p.t \in KexType THEN Tail(ks) ELSE ks,
                IF p.t \in Dialogue THEN Tail(us) ELSE us, s, x)
<1>. DEFINE v == Tail(w)
            ls == IF p.t \in KexType THEN Tail(ks) ELSE ks
            ws == IF p.t \in Dialogue THEN Tail(us) ELSE us
<1>1. PICK m : m = Len(w) /\ m \in Nat
  BY Length
<1>2. /\ m > 0 /\ p = w[1] /\ Len(v) = m - 1
      /\ \A i \in 1..m - 1 : v[i] = w[i + 1]
  BY <1>1, Rest
<1>3. \A t : /\ Has(w, t) <=> Has(v, t) \/ p.t = t
             /\ \A i \in 1..m - 1 :
                  Before(w, t, i + 1) <=> Before(v, t, i) \/ p.t = t
             /\ ~Before(w, t, 1)
  BY <1>2, ReadBefore
<1>4. Word(KexType, v, ls) /\ Word(Dialogue, v, ws)
  BY WordRead DEF Line
<1>. HIDE DEF v, ls, ws
<1>5. /\ \A i \in 1..m : w[i].t \in KexType \cup UpperType
      /\ \A i \in 1..m : w[i].key = IF Before(w, "NEWKEYS", i)
                                    THEN s.keys.trans ELSE r.keys.recv
      /\ ~Has(w, "NEWKEYS") => s.keys.trans = r.keys.recv
      /\ r.requirenext # "none" =>
           \A i \in 1..m : w[i].t \in UpperType => Before(w, "NEWKEYS", i)
      /\ \A i \in 1..m : w[i].z \in BOOLEAN
      /\ \A i \in 1..m :
           w[i].z <=> /\ Compress /\ s.authdone
                      /\ r.authdone \/ Before(w, SUCCESS, i)
      /\ s.authdone => r.authdone \/ Has(w, SUCCESS)
      /\ ~s.authdone =>
           \A i \in 1..m : w[i].t \notin ConnectionType \cup {SUCCESS}
      /\ ~r.authdone =>
           \A i \in 1..m : w[i].t \in ConnectionType => Before(w, SUCCESS, i)
      /\ ~r.authdone /\ r.donefirstkex =>
           \A i \in 1..m : w[i].t = "KEXINIT" => Before(w, SUCCESS, i)
  BY <1>1 DEF Line
<1>6. \A i \in 1..m - 1 : i + 1 \in 1..m
  BY <1>1
<1>7. \A i \in 1..m - 1 : v[i].t \in KexType \cup UpperType
  BY <1>2, <1>5, <1>6
<1>8. \A i \in 1..m - 1 : v[i].key = IF Before(v, "NEWKEYS", i)
                                     THEN s.keys.trans ELSE x.keys.recv
  <2>. SUFFICES ASSUME NEW i \in 1..m - 1
                PROVE  v[i].key = IF Before(v, "NEWKEYS", i)
                                  THEN s.keys.trans ELSE x.keys.recv
    OBVIOUS
  <2>1. v[i].key = IF Before(w, "NEWKEYS", i + 1)
                   THEN s.keys.trans ELSE r.keys.recv
    BY <1>2, <1>5, <1>6
  <2>2. Before(w, "NEWKEYS", i + 1) <=> Before(v, "NEWKEYS", i) \/ p.t = "NEWKEYS"
    BY <1>3
  <2>. QED  BY <2>1, <2>2
<1>9. ~Has(v, "NEWKEYS") => s.keys.trans = x.keys.recv
  <2>1. CASE p.t = "NEWKEYS"
    BY <2>1
  <2>2. CASE p.t # "NEWKEYS"
    BY <2>2, <1>3, <1>5
  <2>. QED  BY <2>1, <2>2
<1>10. ASSUME x.requirenext # "none", NEW i \in 1..m - 1, v[i].t \in UpperType
       PROVE  Before(v, "NEWKEYS", i)
  <2>1. CASE r.requirenext # "none" /\ p.t # "NEWKEYS"
    <3>1. Before(w, "NEWKEYS", i + 1)
      BY <2>1, <1>2, <1>5, <1>6, <1>10
    <3>. QED  BY <2>1, <3>1, <1>3
  <2>2. CASE \A j \in 1..m - 1 : v[j].t \in UpperType => Before(v, "NEWKEYS", j)
    BY <2>2, <1>10
  <2>. QED  BY <2>1, <2>2, <1>2, <1>10 DEF v
<1>11. \A i \in 1..m - 1 :
         v[i].z <=> /\ Compress /\ s.authdone
                    /\ x.authdone \/ Before(v, SUCCESS, i)
  <2>. SUFFICES ASSUME NEW i \in 1..m - 1
                PROVE  v[i].z <=> /\ Compress /\ s.authdone
                                  /\ x.authdone \/ Before(v, SUCCESS, i)
    OBVIOUS
  <2>1. v[i].z <=> /\ Compress /\ s.authdone
                   /\ r.authdone \/ Before(w, SUCCESS, i + 1)
    BY <1>2, <1>5, <1>6
  <2>2. Before(w, SUCCESS, i + 1) <=> Before(v, SUCCESS, i) \/ p.t = SUCCESS
    BY <1>3
  <2>. QED  BY <2>1, <2>2
<1>12. s.authdone => x.authdone \/ Has(v, SUCCESS)
  BY <1>3, <1>5
<1>13. ASSUME ~s.authdone, NEW i \in 1..m - 1
       PROVE  v[i].t \notin ConnectionType \cup {SUCCESS}
  BY <1>2, <1>5, <1>6, <1>13
<1>14. ASSUME ~x.authdone, NEW i \in 1..m - 1, v[i].t \in ConnectionType
       PROVE  Before(v, SUCCESS, i)
  <2>1. Before(w, SUCCESS, i + 1) /\ p.t # SUCCESS
    BY <1>2, <1>5, <1>6, <1>14
  <2>. QED  BY <2>1, <1>3
<1>15. ASSUME ~x.authdone, x.donefirstkex, NEW i \in 1..m - 1, v[i].t = "KEXINIT"
       PROVE  Before(v, SUCCESS, i)
  <2>1. p.t # SUCCESS /\ ~r.authdone
    BY <1>15
  <2>2. CASE ~Has(v, "KEXINIT")
    BY <2>2, <1>2, <1>15 DEF Has
  <2>3. CASE r.donefirstkex
    <3>1. Before(w, SUCCESS, i + 1)
      BY <2>1, <2>3, <1>2, <1>5, <1>6, <1>15
    <3>. QED  BY <2>1, <3>1, <1>3
  <2>. QED  BY <2>2, <2>3, <1>15 DEF v
<1>17. \A i \in 1..m - 1 : v[i].z \in BOOLEAN
  BY <1>2, <1>5, <1>6
<1>16. Line(v, ls, ws, s, x)
  BY <1>2, <1>4, <1>7, <1>8, <1>9, <1>10, <1>11, <1>12, <1>13, <1>14, <1>15, <1>17
  DEF Line
<1>. QED  BY <1>16 DEF v, ls, ws

\* The server accepts the client when nothing more is under way from it.
LEMMA LineAccepted ==
    ASSUME NEW ks, NEW us, NEW s, NEW r, NEW x, Line(<<>>, ks, us, s, r),
           x.keys.recv = r.keys.recv, x.authdone
    PROVE  Line(<<>>, ks, us, s, x)
<1>1. Len(<<>>) = 0 /\ 1..0 = {}
  OBVIOUS
<1>. QED  BY <1>1 DEF Line

---------------------------------------------------------------------------
(* What the operators of Transport leave in the fields of a session *)

\* Session x is s but for the fields of F.
But(s, x, F) == DOMAIN x = Names /\ \A f \in Names \ F : x[f] = s[f]

\* The packet p as an end with session s seals it.
Stamped(p, s, t, b) ==
    /\ Plain(p) = [t |-> t, b |-> b] /\ p.key = s.keys.trans
    /\ p.z \in BOOLEAN
    /\ p.z <=> Compress /\ s.authdone /\ s.keys.trans # NoKeys

LEMMA SealedStamped ==
    ASSUME NEW s, NEW p
    PROVE  Stamped(Sealed(s, p), s, p.t, p.b)
<1>1. /\ Sealed(s, p).t = p.t /\ Sealed(s, p).b = p.b
      /\ Sealed(s, p).key = s.keys.trans /\ Sealed(s, p).z = IsCompressTrans(s)
  BY DEF Sealed
<1>2. /\ IsCompressTrans(s) \in BOOLEAN
      /\ IsCompressTrans(s) <=> Compress /\ s.authdone /\ s.keys.trans # NoKeys
  BY DEF IsCompressTrans
<1>. QED  BY <1>1, <1>2 DEF Stamped, Plain

LEMMA EncryptForm ==
    ASSUME NEW s, NEW t, NEW b, DOMAIN s = Names
    PROVE  /\ But(s, EncryptPacket(s, t, b), Queues)
           /\ s.dataallowed \/ t \notin UpperType \cup {"KEXINIT"} =>
                /\ EncryptPacket(s, t, b).replyq = s.replyq
                /\ \E p : /\ Stamped(p, s, t, b)
                          /\ EncryptPacket(s, t, b).writequeue
                               = Append(s.writequeue, p)
           /\ ~s.dataallowed /\ t \in UpperType =>
                /\ EncryptPacket(s, t, b).writequeue = s.writequeue
                /\ \E p : /\ p.t = t
                          /\ EncryptPacket(s, t, b).replyq = Append(s.replyq, p)
<1>. DEFINE p == [t |-> t, b |-> b, n |-> s.handed + 1]
            s1 == IF t \in UpperType THEN [s EXCEPT !.handed = @ + 1] ELSE s
            q == Sealed(s1, p)
            x == EncryptPacket(s, t, b)
<1>1. p.t = t /\ p.b = b
  OBVIOUS
<1>2. x = IF ~s.dataallowed /\ ~PacketIsOkayKex(t)
          THEN [s1 EXCEPT !.replyq = Append(@, p)]
          ELSE [s1 EXCEPT !.writequeue = Append(@, Sealed(s, p))]
  BY DEF EncryptPacket
<1>3. But(s, s1, {"handed"})
  BY DEF But, Names
<1>. HIDE DEF p, s1
<1>4. /\ DOMAIN s1 = Names /\ s1.replyq = s.replyq
      /\ s1.writequeue = s.writequeue /\ \A f \in Names \ Queues : s1[f] = s[f]
  BY <1>3 DEF But, Names, Queues
<1>5. Stamped(Sealed(s, p), s, t, b)
  BY <1>1, SealedStamped
<1>. HIDE DEF x
<1>6. But(s, x, Queues)
  BY <1>2, <1>4 DEF But, Names, Queues
<1>7. ASSUME s.dataallowed \/ t \notin UpperType \cup {"KEXINIT"}
      PROVE  /\ x.replyq = s.replyq
             /\ x.writequeue = Append(s.writequeue, Sealed(s, p))
  BY <1>2, <1>4, <1>7 DEF PacketIsOkayKex, Names
<1>8. ASSUME ~s.dataallowed, t \in UpperType
      PROVE  x.replyq = Append(s.replyq, p) /\ x.writequeue = s.writequeue
  BY <1>2, <1>4, <1>8 DEF PacketIsOkayKex, Names
<1>. QED  BY <1>1, <1>5, <1>6, <1>7, <1>8 DEF x

\* maybe_flush_reply_queue(), the sealed replies being q.
LEMMA FlushForm ==
    ASSUME NEW s, DOMAIN s = Names, IsSeq(s.replyq), IsSeq(s.writequeue)
    PROVE  /\ But(s, MaybeFlushReplyQueue(s), {"replyq", "writequeue"})
           /\ ~s.dataallowed => MaybeFlushReplyQueue(s) = s
           /\ s.dataallowed =>
                /\ MaybeFlushReplyQueue(s).replyq = <<>>
                /\ \E q : /\ IsSeq(q) /\ Len(q) = Len(s.replyq)
                          /\ \A i \in 1..Len(q) :
                               Stamped(q[i], s, s.replyq[i].t, s.replyq[i].b)
                          /\ MaybeFlushReplyQueue(s).writequeue
                               = s.writequeue \o q
<1>. DEFINE rs == [i \in 1..Len(s.replyq) |-> Sealed(s, s.replyq[i])]
            x == MaybeFlushReplyQueue(s)
<1>1. CASE ~s.dataallowed
  BY <1>1 DEF MaybeFlushReplyQueue, But
<1>2. CASE s.dataallowed
  <2>1. Len(s.replyq) \in Nat
    BY Length
  <2>2. IsSeq(rs) /\ Len(rs) = Len(s.replyq)
    <3>1. rs \in [1..Len(s.replyq) -> {rs[i] : i \in 1..Len(s.replyq)}]
      OBVIOUS
    <3>2. rs \in Seq({rs[i] : i \in 1..Len(s.replyq)})
      BY <3>1, <2>1, SeqDef
    <3>3. DOMAIN rs = 1..Len(s.replyq)
      OBVIOUS
    <3>. HIDE DEF rs
    <3>. QED  BY <3>2, <3>3, <2>1, LenProperties DEF IsSeq
  <2>3. \A i \in 1..Len(rs) : Stamped(rs[i], s, s.replyq[i].t, s.replyq[i].b)
    BY <2>2, SealedStamped
  <2>4. x = [s EXCEPT !.replyq = <<>>, !.writequeue = @ \o rs]
    BY <1>2 DEF MaybeFlushReplyQueue
  <2>. HIDE DEF rs, x
  <2>5. /\ But(s, x, {"replyq", "writequeue"})
        /\ x.replyq = <<>> /\ x.writequeue = s.writequeue \o rs
    BY <2>4 DEF But, Names
  <2>. QED  BY <2>2, <2>3, <2>5, <1>2 DEF x
<1>. QED  BY <1>1, <1>2

\* send_msg_kexdh_init() while the queue is closed to others.
LEMMA KexdhInitForm ==
    ASSUME NEW s, DOMAIN s = Names, s.drawn \in Nat, s.param # NoParam =>
             s.param \in Params,
           s.newkeys.algo \in {"first", "other"}
    PROVE  /\ But(s, SendKexdhInit(s), Queues \cup {"drawn", "param"})
           /\ SendKexdhInit(s).drawn \in Nat
           /\ SendKexdhInit(s).param \in Params
           /\ SendKexdhInit(s).param.algo = s.newkeys.algo
           /\ s.param # NoParam /\ s.param.algo = s.newkeys.algo =>
                SendKexdhInit(s).param = s.param
           /\ SendKexdhInit(s).replyq = s.replyq
           /\ \E p : /\ Stamped(p, s, "KEXDH_INIT",
                                KD(s.newkeys.algo, SendKexdhInit(s).param.x).b)
                     /\ SendKexdhInit(s).writequeue = Append(s.writequeue, p)
<1>. DEFINE fresh == s.param = NoParam \/ s.param.algo # s.newkeys.algo
            c == IF fresh THEN s.drawn + 1 ELSE s.param.x
            d == IF fresh THEN s.drawn + 1 ELSE s.drawn
            m == [algo |-> s.newkeys.algo, x |-> c]
            s1 == [s EXCEPT !.drawn = IF fresh THEN @ + 1 ELSE @,
                            !.param = [algo |-> s.newkeys.algo, x |-> c]]
            x == SendKexdhInit(s)
<1>1. x = EncryptPacket(s1, "KEXDH_INIT", m)
  BY DEF SendKexdhInit
<1>2. c \in Nat /\ d \in Nat
  BY DEF Params
<1>3. m \in Params /\ m.algo = s.newkeys.algo /\ m.x = c
  BY <1>2 DEF Params
<1>4. s.param # NoParam /\ s.param.algo = s.newkeys.algo => m = s.param
  BY DEF Params
<1>5. But(s, s1, {"drawn", "param"}) /\ s1.drawn = d /\ s1.param = m
  BY DEF But, Names
<1>6. m = KD(s.newkeys.algo, c).b
  BY DEF KD
<1>. HIDE DEF s1, m, c, d, x
<1>7. DOMAIN s1 = Names /\ s1.replyq = s.replyq /\ s1.writequeue = s.writequeue
      /\ s1.keys = s.keys /\ s1.authdone = s.authdone
  BY <1>5 DEF But, Names
<1>8. "KEXDH_INIT" \notin UpperType \cup {"KEXINIT"}
  BY KexIsLower, Types DEF KexType
<1>9. /\ But(s1, x, Queues) /\ x.replyq = s1.replyq
      /\ \E p : Stamped(p, s1, "KEXDH_INIT", m)
                /\ x.writequeue = Append(s1.writequeue, p)
  BY <1>1, <1>7, <1>8, EncryptForm
<1>10. /\ But(s, x, Queues \cup {"drawn", "param"})
       /\ x.drawn = d /\ x.param = m
  BY <1>5, <1>9 DEF But, Names, Queues
<1>11. \A p : Stamped(p, s1, "KEXDH_INIT", m) => Stamped(p, s, "KEXDH_INIT", m)
  BY <1>7 DEF Stamped
<1>. QED  BY <1>2, <1>3, <1>4, <1>6, <1>7, <1>9, <1>10, <1>11 DEF x

Flags == {"sentkexinit", "recvkexinit", "sentnewkeys", "recvnewkeys",
          "our_first_follows_matches"}

LEMMA SecretKeys == \A k \in Secrets : k # NoKeys
BY NoKeysAssumption DEF Secrets

\* send_msg_kexinit() by an end that is in no exchange.
LEMMA KexinitForm ==
    ASSUME NEW e \in End, NEW s, Idle(e, s), s.authdone
    PROVE  /\ But(s, SendKexinit(e, s),
                  Queues \cup {"drawn", "transkexinit", "dataallowed",
                               "sentkexinit", "newkeys", "param"})
           /\ Begun(e, SendKexinit(e, s))
           /\ SendKexinit(e, s).replyq = s.replyq
           /\ \E p : /\ Stamped(p, s, "KEXINIT",
                                KI(e, SendKexinit(e, s).transkexinit).b)
                     /\ e = "S" => SendKexinit(e, s).writequeue
                                     = Append(s.writequeue, p)
                     /\ e = "C" => \E q :
                          /\ Stamped(q, s, "KEXDH_INIT",
                                     First(SendKexinit(e, s)).b)
                          /\ SendKexinit(e, s).writequeue
                               = Append(Append(s.writequeue, p), q)
<1>. DEFINE c == s.drawn + 1
            s0 == [s EXCEPT !.drawn = c]
            b == [cookie |-> c, first_follows |-> e = "C"]
            s1 == EncryptPacket(s0, "KEXINIT", b)
            s2 == [s1 EXCEPT !.transkexinit = c, !.dataallowed = FALSE,
                             !.sentkexinit = TRUE,
                             !.newkeys = NewContext("first")]
            x == SendKexinit(e, s)
<1>1. x = IF e = "C" THEN SendKexdhInit(s2) ELSE s2
  BY DEF SendKexinit
<1>2. /\ DOMAIN s = Names /\ s.drawn \in Nat /\ s.dataallowed = TRUE
      /\ s.sentkexinit = FALSE /\ s.recvkexinit = FALSE /\ s.sentnewkeys = FALSE
      /\ s.donefirstkex = TRUE /\ s.requirenext = "none" /\ Keyed(s)
      /\ s.ignorenext = FALSE /\ s.our_first_follows_matches = FALSE
      /\ e = "C" => s.param = NoParam /\ s.kex_state = "KEX_NOTHING"
      /\ s.keys = [trans |-> s.keys.trans, recv |-> s.keys.recv]
      /\ s.authdone = TRUE /\ s.recvnewkeys = FALSE
      /\ s.kex_state \in {"KEX_NOTHING", "KEXDH_INIT_SENT"}
  BY DEF Idle, Formed
<1>3. b = KI(e, c).b /\ c \in Nat
  BY <1>2 DEF KI
<1>4. But(s, s0, {"drawn"}) /\ s0.drawn = c
  BY <1>2 DEF But, Names
<1>. HIDE DEF b, s0, x, c
<1>5. /\ But(s0, s1, Queues) /\ s1.replyq = s0.replyq
      /\ \E p : Stamped(p, s0, "KEXINIT", b) /\ s1.writequeue = Append(s0.writequeue, p)
  <2>1. DOMAIN s0 = Names /\ s0.dataallowed
    BY <1>2, <1>4 DEF But, Names
  <2>. QED  BY <2>1, EncryptForm
<1>. HIDE DEF s1
<1>6. /\ But(s, s2, Queues \cup {"drawn", "transkexinit", "dataallowed",
                               "sentkexinit", "newkeys"})
      /\ s2.drawn = c /\ s2.transkexinit = c /\ s2.dataallowed = FALSE
      /\ s2.sentkexinit = TRUE /\ s2.newkeys = NewContext("first")
      /\ s2.replyq = s.replyq
  BY <1>4, <1>5 DEF But, Names, Queues
<1>7. PICK p : Stamped(p, s, "KEXINIT", b) /\ s2.writequeue = Append(s.writequeue, p)
  <2>1. PICK p : Stamped(p, s0, "KEXINIT", b)
                 /\ s1.writequeue = Append(s0.writequeue, p)
    BY <1>5
  <2>2. s0.keys = s.keys /\ s0.authdone = s.authdone /\ s0.writequeue = s.writequeue
    BY <1>4 DEF But, Names
  <2>3. s2.writequeue = s1.writequeue
    BY <1>4, <1>5 DEF But, Names
  <2>4. Stamped(p, s, "KEXINIT", b)
    BY <2>1, <2>2 DEF Stamped
  <2>. QED  BY <2>1, <2>2, <2>3, <2>4
<1>. HIDE DEF s2
<1>8. CASE e = "S"
  <2>1. x = s2
    BY <1>1, <1>8
  <2>4. /\ x.authdone = TRUE /\ x.donefirstkex = TRUE /\ x.recvkexinit = FALSE
        /\ x.sentnewkeys = FALSE /\ x.recvnewkeys = FALSE
        /\ x.requirenext = "none" /\ x.ignorenext = FALSE
        /\ x.our_first_follows_matches = FALSE
        /\ x.keys = s.keys /\ x.kex_state = s.kex_state /\ DOMAIN x = Names
        /\ x.drawn \in Nat /\ x.transkexinit \in Nat /\ x.dataallowed = FALSE
        /\ x.sentkexinit = TRUE /\ x.newkeys = NewContext("first")
    BY <2>1, <1>2, <1>3, <1>6 DEF But, Names, Queues
  <2>2. Begun(e, x)
    BY <2>4, <1>2, <1>8 DEF Begun, Formed, Keyed
  <2>3. But(s, x, Queues \cup {"drawn", "transkexinit", "dataallowed",
                               "sentkexinit", "newkeys", "param"})
    BY <2>1, <1>6 DEF But
  <2>. QED  BY <2>1, <2>2, <2>3, <1>3, <1>6, <1>7, <1>8 DEF x
<1>9. CASE e = "C"
  <2>1. x = SendKexdhInit(s2)
    BY <1>1, <1>9
  <2>2. /\ DOMAIN s2 = Names /\ s2.drawn \in Nat /\ s2.param = NoParam
        /\ s2.newkeys.algo = "first"
    BY <1>2, <1>3, <1>6, <1>9 DEF But, Names, Queues, NewContext
  <2>3. /\ But(s2, x, Queues \cup {"drawn", "param"})
        /\ x.drawn \in Nat /\ x.param \in Params /\ x.param.algo = "first"
        /\ x.replyq = s2.replyq
        /\ \E q : /\ Stamped(q, s2, "KEXDH_INIT", KD("first", x.param.x).b)
                  /\ x.writequeue = Append(s2.writequeue, q)
    BY <2>1, <2>2, KexdhInitForm
  <2>4. But(s, x, Queues \cup {"drawn", "transkexinit", "dataallowed",
                               "sentkexinit", "newkeys", "param"})
    BY <2>3, <1>6 DEF But, Queues
  <2>5. /\ x.transkexinit = c /\ x.dataallowed = FALSE /\ x.sentkexinit = TRUE
        /\ x.newkeys = NewContext("first") /\ x.replyq = s.replyq
    BY <2>3, <1>6 DEF But, Names, Queues
  <2>8. /\ x.authdone = TRUE /\ x.donefirstkex = TRUE /\ x.recvkexinit = FALSE
        /\ x.sentnewkeys = FALSE /\ x.recvnewkeys = FALSE
        /\ x.requirenext = "none" /\ x.ignorenext = FALSE
        /\ x.our_first_follows_matches = FALSE
        /\ x.keys = s.keys /\ x.kex_state = s.kex_state /\ DOMAIN x = Names
    BY <2>4, <1>2 DEF But, Names, Queues
  <2>6. Begun(e, x)
    BY <2>3, <2>5, <2>8, <1>2, <1>3, <1>9 DEF Begun, Formed, Keyed
  <2>7. \E q : /\ Stamped(q, s, "KEXDH_INIT", First(x).b)
               /\ x.writequeue = Append(Append(s.writequeue, p), q)
    <3>1. PICK q : /\ Stamped(q, s2, "KEXDH_INIT", KD("first", x.param.x).b)
                   /\ x.writequeue = Append(s2.writequeue, q)
      BY <2>3
    <3>2. s2.keys = s.keys /\ s2.authdone = s.authdone
      BY <1>6 DEF But, Names, Queues
    <3>3. Stamped(q, s, "KEXDH_INIT", First(x).b)
      BY <3>1, <3>2 DEF Stamped, First
    <3>. QED  BY <3>1, <3>3, <1>7
  <2>. QED  BY <2>4, <2>5, <2>6, <2>7, <1>3, <1>7, <1>9 DEF x
<1>. QED  BY <1>8, <1>9 DEF End

\* recv_msg_kexinit() at an end that has sent its own.
LEMMA KexinitMet ==
    ASSUME NEW e \in End, NEW g, NEW s, NEW z, NEW k \in Nat, Begun(e, s),
           But(s, z, {"requirenext", "lastpacket"})
    PROVE  LET y == RecvKexinit(e, z, KI(Peer(e), k).b, g)
           IN  /\ But(z, y, {"newkeys", "ignorenext", "our_first_follows_matches",
                             "kexhash", "requirenext", "transkexinit",
                             "recvkexinit"})
               /\ Met(g, e, y) /\ y.ignorenext = (e = "S" /\ Wrong(g))
               /\ y.kexhash = IF e = "C" THEN [c |-> s.transkexinit, s |-> k]
                              ELSE [c |-> k, s |-> s.transkexinit]
<1>. DEFINE b == KI(Peer(e), k).b
            z2 == ReadKexAlgos(e, z, b, g)
            y == RecvKexinit(e, z, b, g)
            hash == IF e = "C" THEN [c |-> s.transkexinit, s |-> k]
                    ELSE [c |-> k, s |-> s.transkexinit]
<1>1. /\ b.cookie = k /\ b.first_follows = (e = "S")
  BY DEF KI, Peer, End
<1>2. /\ DOMAIN s = Names /\ s.sentkexinit = TRUE /\ s.transkexinit \in Nat
      /\ s.ignorenext = FALSE /\ s.our_first_follows_matches = FALSE
  BY DEF Begun, Formed
<1>3. /\ z.sentkexinit = TRUE /\ z.transkexinit = s.transkexinit
      /\ z.ignorenext = FALSE /\ z.our_first_follows_matches = FALSE
      /\ DOMAIN z = Names
  BY <1>2 DEF But, Names
<1>4. y = [z2 EXCEPT
           !.kexhash = IF e = "C" THEN [c |-> z.transkexinit, s |-> b.cookie]
                                  ELSE [c |-> b.cookie, s |-> z.transkexinit],
           !.requirenext = IF e = "C" THEN "KEXDH_REPLY" ELSE "KEXDH_INIT",
           !.transkexinit = 0, !.recvkexinit = TRUE]
  BY <1>3 DEF RecvKexinit
<1>5. /\ But(z, z2, {"newkeys", "ignorenext", "our_first_follows_matches"})
      /\ z2.newkeys = NewContext(AgreedAlgo(g))
      /\ z2.ignorenext = (e = "S" /\ Wrong(g))
      /\ z2.our_first_follows_matches = (e = "C" /\ ~Wrong(g))
  BY <1>1, <1>3 DEF ReadKexAlgos, But, Names, Wrong
<1>. HIDE DEF z2, y, b
<1>6. /\ But(z, y, {"newkeys", "ignorenext", "our_first_follows_matches",
                    "kexhash", "requirenext", "transkexinit", "recvkexinit"})
      /\ y.newkeys = NewContext(AgreedAlgo(g))
      /\ y.ignorenext = (e = "S" /\ Wrong(g))
      /\ y.our_first_follows_matches = (e = "C" /\ ~Wrong(g))
      /\ y.requirenext = IF e = "C" THEN "KEXDH_REPLY" ELSE "KEXDH_INIT"
      /\ y.recvkexinit = TRUE
  BY <1>4, <1>5 DEF But, Names
<1>7. y.kexhash = hash
  BY <1>1, <1>3, <1>4, <1>5 DEF But, Names
<1>8. hash \in [c : Nat, s : Nat]
  BY <1>2
<1>. HIDE DEF hash
<1>9. Met(g, e, y)
  <2>1. /\ Formed(s) /\ s.donefirstkex = s.authdone /\ (s.authdone => Keyed(s))
        /\ s.sentnewkeys = FALSE /\ s.dataallowed = FALSE
        /\ e = "C" => /\ s.param \in Params /\ s.param.algo = "first"
                      /\ s.kex_state = "KEX_NOTHING"
    BY DEF Begun
  <2>2. /\ y.donefirstkex = s.donefirstkex /\ y.authdone = s.authdone
        /\ y.keys = s.keys /\ y.sentnewkeys = FALSE /\ y.dataallowed = FALSE
        /\ y.param = s.param /\ y.kex_state = s.kex_state
        /\ y.sentkexinit = TRUE /\ y.drawn = s.drawn
        /\ y.recvnewkeys = s.recvnewkeys /\ DOMAIN y = Names
    BY <2>1, <1>2, <1>6 DEF But, Names
  <2>3. Formed(y)
    BY <2>1, <2>2 DEF Formed
  <2>. QED  BY <2>1, <2>2, <2>3, <1>6, <1>7, <1>8 DEF Met, Keyed
<1>. QED  BY <1>6, <1>7, <1>9 DEF y, b, hash

\* At an end that answers with its own.
LEMMA KexinitAnswered ==
    ASSUME NEW e \in End, NEW s, NEW b, NEW g, Idle(e, s), s.authdone
    PROVE  RecvKexinit(e, s, b, g) = RecvKexinit(e, SendKexinit(e, s), b, g)
<1>1. ~s.sentkexinit /\ SendKexinit(e, s).sentkexinit
  BY KexinitForm DEF Begun, Idle
<1>. QED  BY <1>1 DEF RecvKexinit

\* Both directions of a key context change.
LEMMA InContext ==
    ASSUME NEW a, NEW t, NEW r, NEW k, NEW q, NEW n, NEW m,
           n = [algo |-> a, trans |-> t, recv |-> r],
           \/ m = [n EXCEPT !.trans = k, !.recv = q]
           \/ m = [n EXCEPT !.recv = q, !.trans = k]
    PROVE  m = [algo |-> a, trans |-> k, recv |-> q]
<1>1. /\ m.algo = a /\ m.trans = k /\ m.recv = q
      /\ m = [f \in {"algo", "trans", "recv"} |-> m[f]]
  OBVIOUS
<1>. QED  BY <1>1

LEMMA InKeys ==
    ASSUME NEW t, NEW r, NEW k, NEW q, NEW n, NEW m,
           n = [trans |-> t, recv |-> r], m = [n EXCEPT !.recv = q, !.trans = k]
    PROVE  m = [trans |-> k, recv |-> q]
<1>1. /\ m.trans = k /\ m.recv = q
      /\ m = [f \in {"trans", "recv"} |-> m[f]]
  OBVIOUS
<1>. QED  BY <1>1

\* GenNewKeys
LEMMA Generated ==
    ASSUME NEW s, NEW k, NEW algo, DOMAIN s = Names,
           s.newkeys = [algo |-> algo, trans |-> NoKeys, recv |-> NoKeys]
    PROVE  /\ But(s, GenNewKeys(s, k), {"newkeys"})
           /\ GenNewKeys(s, k).newkeys = [algo |-> algo, trans |-> k, recv |-> k]
<1>. DEFINE x == GenNewKeys(s, k)
<1>1. PICK n : n = s.newkeys
  OBVIOUS
<1>2. x = [s EXCEPT !.newkeys.trans = k, !.newkeys.recv = k]
  BY DEF GenNewKeys
<1>. HIDE DEF x
<1>3. PICK n2 : n2 = x.newkeys
  OBVIOUS
<1>4. But(s, x, {"newkeys"}) /\ n2 = [n EXCEPT !.trans = k, !.recv = k]
  BY <1>1, <1>2, <1>3 DEF But, Names
<1>5. n = [algo |-> algo, trans |-> NoKeys, recv |-> NoKeys]
  BY <1>1
<1>6. n2 = [algo |-> algo, trans |-> k, recv |-> k]
  BY <1>4, <1>5, InContext
<1>. QED  BY <1>3, <1>4, <1>6 DEF x

\* switch_keys(), kt and kr being the keys afterwards.
KeyPair(t, r) == [trans |-> t, recv |-> r]
Context(algo, t, r) == [algo |-> algo, trans |-> t, recv |-> r]
Changed(s, kr, mr, kt, mt) ==
    [s EXCEPT !.keys.recv = kr, !.newkeys.recv = mr,
              !.keys.trans = kt, !.newkeys.trans = mt]

LEMMA Switching ==
    ASSUME NEW s, NEW x, NEW t, NEW r, NEW nt, NEW nr, NEW algo,
           NEW kt, NEW kr, NEW mt, NEW mr, DOMAIN s = Names,
           s.keys = KeyPair(t, r), s.newkeys = Context(algo, nt, nr),
           x = Changed(s, kr, mr, kt, mt)
    PROVE  /\ But(s, x, {"keys", "newkeys"})
           /\ x.keys = KeyPair(kt, kr) /\ x.newkeys = Context(algo, mt, mr)
<1>1. PICK n : n = s.newkeys
  OBVIOUS
<1>2. PICK m : m = s.keys
  OBVIOUS
<1>3. PICK n2 : n2 = x.newkeys
  OBVIOUS
<1>4. PICK m2 : m2 = x.keys
  OBVIOUS
<1>5. /\ But(s, x, {"keys", "newkeys"})
      /\ n2 = [n EXCEPT !.recv = mr, !.trans = mt]
      /\ m2 = [m EXCEPT !.recv = kr, !.trans = kt]
  BY <1>1, <1>2, <1>3, <1>4 DEF But, Names, Changed
<1>6. m2 = [trans |-> kt, recv |-> kr]
  BY <1>2, <1>5, InKeys DEF KeyPair
<1>7. n2 = [algo |-> algo, trans |-> mt, recv |-> mr]
  <2>1. n = [algo |-> algo, trans |-> nt, recv |-> nr]
    BY <1>1 DEF Context
  <2>2. n2 = [n EXCEPT !.recv = mr, !.trans = mt]
    BY <1>5
  <2>. QED  BY <2>1, <2>2, InContext
<1>. QED  BY <1>3, <1>4, <1>5, <1>6, <1>7 DEF KeyPair, Context
\* send_msg_newkeys()
LEMMA NewkeysForm ==
    ASSUME NEW s, NEW k \in Secrets, DOMAIN s = Names, s.sentkexinit = TRUE,
           s.recvkexinit = TRUE, s.recvnewkeys = FALSE,
           s.keys = [trans |-> s.keys.trans, recv |-> s.keys.recv],
           NEW algo, s.newkeys = NewContext(algo)
    PROVE  LET x == SendNewkeys(s, k)
           IN  /\ But(s, x, Queues \cup {"sentnewkeys", "donefirstkex",
                                         "dataallowed", "newkeys", "keys"})
               /\ x.sentnewkeys = TRUE /\ x.donefirstkex = TRUE
               /\ x.dataallowed = TRUE
               /\ x.newkeys = [algo |-> algo, trans |-> NoKeys, recv |-> k]
               /\ x.keys = [trans |-> k, recv |-> s.keys.recv]
               /\ x.replyq = s.replyq
               /\ \E p : /\ Stamped(p, s, "NEWKEYS", 0)
                         /\ x.writequeue = Append(s.writequeue, p)
<1>. DEFINE s1 == EncryptPacket(s, "NEWKEYS", 0)
            s2 == [s1 EXCEPT !.sentnewkeys = TRUE, !.donefirstkex = TRUE,
                             !.dataallowed = TRUE]
            s3 == GenNewKeys(s2, k)
            x == SendNewkeys(s, k)
<1>1. x = SwitchKeys(s3)
  BY DEF SendNewkeys
<1>2. /\ But(s, s1, Queues) /\ s1.replyq = s.replyq
      /\ \E p : Stamped(p, s, "NEWKEYS", 0) /\ s1.writequeue = Append(s.writequeue, p)
  BY EncryptForm, KexIsLower
<1>3. s.newkeys = [algo |-> algo, trans |-> NoKeys, recv |-> NoKeys]
  BY DEF NewContext
<1>. HIDE DEF s1, x
<1>4. /\ But(s1, s2, {"sentnewkeys", "donefirstkex", "dataallowed"})
      /\ s2.sentnewkeys = TRUE /\ s2.donefirstkex = TRUE /\ s2.dataallowed = TRUE
  BY <1>2 DEF But, Names
<1>. HIDE DEF s2
<1>5. /\ DOMAIN s2 = Names
      /\ s2.newkeys = [algo |-> algo, trans |-> NoKeys, recv |-> NoKeys]
      /\ s2.keys = [trans |-> s.keys.trans, recv |-> s.keys.recv]
  BY <1>2, <1>3, <1>4 DEF But, Names, Queues
<1>6. /\ s3.newkeys = [algo |-> algo, trans |-> k, recv |-> k]
      /\ But(s2, s3, {"newkeys"})
  BY <1>5, Generated
<1>. HIDE DEF s3
<1>7. /\ s3.sentkexinit = TRUE /\ s3.recvkexinit = TRUE
      /\ s3.sentnewkeys = TRUE /\ s3.recvnewkeys = FALSE
      /\ DOMAIN s3 = Names
      /\ s3.keys = [trans |-> s.keys.trans, recv |-> s.keys.recv]
  BY <1>2, <1>4, <1>5, <1>6 DEF But, Names, Queues
<1>8. k # NoKeys
  BY SecretKeys
<1>9. x = [s3 EXCEPT !.keys.recv = s.keys.recv, !.newkeys.recv = k,
                     !.keys.trans = k, !.newkeys.trans = NoKeys]
  <2>1. x = [s3 EXCEPT !.keys.recv = s3.keys.recv,
                       !.newkeys.recv = s3.newkeys.recv,
                       !.keys.trans = s3.newkeys.trans, !.newkeys.trans = NoKeys]
    <3>1. s3.newkeys.trans # NoKeys
      BY <1>6, <1>8
    <3>. QED  BY <3>1, <1>1, <1>7 DEF SwitchKeys
  <2>2. /\ s3.keys.recv = s.keys.recv /\ s3.newkeys.recv = k
        /\ s3.newkeys.trans = k
    BY <1>6, <1>7
  <2>. QED  BY <2>1, <2>2
<1>10. /\ But(s3, x, {"newkeys", "keys"})
       /\ x.newkeys = [algo |-> algo, trans |-> NoKeys, recv |-> k]
       /\ x.keys = [trans |-> k, recv |-> s.keys.recv]
  <2>1. PICK r : r = s.keys.recv
    OBVIOUS
  <2>2. PICK t : t = s.keys.trans
    OBVIOUS
  <2>3. /\ s3.keys = KeyPair(t, r) /\ s3.newkeys = Context(algo, k, k)
        /\ x = Changed(s3, r, k, k, NoKeys) /\ DOMAIN s3 = Names
    BY <2>1, <2>2, <1>6, <1>7, <1>9 DEF KeyPair, Context, Changed
  <2>4. /\ But(s3, x, {"keys", "newkeys"})
        /\ x.keys = KeyPair(k, r) /\ x.newkeys = Context(algo, NoKeys, k)
    BY <2>3, Switching
  <2>5. But(s3, x, {"newkeys", "keys"})
    BY <2>4 DEF But
  <2>. QED  BY <2>1, <2>4, <2>5 DEF KeyPair, Context
<1>11. But(s1, x, {"sentnewkeys", "donefirstkex", "dataallowed", "newkeys", "keys"})
  BY <1>4, <1>6, <1>10 DEF But
<1>12. But(s, x, Queues \cup {"sentnewkeys", "donefirstkex", "dataallowed",
                              "newkeys", "keys"})
  BY <1>2, <1>11 DEF But
<1>13. /\ x.sentnewkeys = TRUE /\ x.donefirstkex = TRUE /\ x.dataallowed = TRUE
       /\ x.replyq = s.replyq /\ x.writequeue = s1.writequeue
  BY <1>2, <1>4, <1>6, <1>10 DEF But, Names
<1>. QED  BY <1>2, <1>10, <1>12, <1>13 DEF x

\* recv_msg_newkeys() at an end that has sent its own.
Finished(e, s, x) ==
    /\ But(s, x, Flags \cup {"newkeys", "keys", "requirenext", "lastpacket"})
    /\ Idle(e, x)
    /\ x.keys = [trans |-> s.keys.trans, recv |-> s.keys.trans]

LEMMA NewkeysEnd ==
    ASSUME NEW e, NEW s, NEW z, Switched(e, s), z.requirenext = "none",
           But(s, z, {"requirenext", "lastpacket"}),
           e = "C" => s.kex_state = "KEX_NOTHING"
    PROVE  Finished(e, s, RecvNewkeys(z))
<1>. DEFINE z1 == [z EXCEPT !.recvnewkeys = TRUE]
            z2 == [z1 EXCEPT
                     !.keys.recv = z1.newkeys.recv, !.newkeys.recv = NoKeys,
                     !.keys.trans = z1.keys.trans, !.newkeys.trans = NoKeys]
            z3 == [z2 EXCEPT !.newkeys = NoContext]
            x == RecvNewkeys(z)
<1>1. /\ Formed(s) /\ s.donefirstkex = TRUE
      /\ s.sentkexinit = TRUE /\ s.recvkexinit = TRUE /\ s.sentnewkeys = TRUE
      /\ s.dataallowed = TRUE /\ s.ignorenext = FALSE
      /\ s.keys.trans \in Secrets
      /\ s.newkeys = [algo |-> s.newkeys.algo, trans |-> NoKeys,
                      recv |-> s.keys.trans]
      /\ e = "C" => s.param = NoParam
  BY DEF Switched
<1>2. /\ DOMAIN s = Names /\ s.drawn \in Nat /\ s.authdone \in BOOLEAN
      /\ s.keys = [trans |-> s.keys.trans, recv |-> s.keys.recv]
      /\ s.kex_state \in {"KEX_NOTHING", "KEXDH_INIT_SENT"}
  BY <1>1 DEF Formed
<1>15. PICK k : k = s.keys.trans
  OBVIOUS
<1>16. PICK r : r = s.keys.recv
  OBVIOUS
<1>17. PICK algo : algo = s.newkeys.algo
  OBVIOUS
<1>3. /\ s.keys = [trans |-> k, recv |-> r]
      /\ s.newkeys = [algo |-> algo, trans |-> NoKeys, recv |-> k]
      /\ k \in Secrets
  BY <1>1, <1>2, <1>15, <1>16, <1>17
<1>4. k # NoKeys
  BY <1>3, SecretKeys
<1>5. /\ But(z, z1, {"recvnewkeys"}) /\ z1.recvnewkeys = TRUE
      /\ DOMAIN z = Names
  BY DEF But, Names
<1>. HIDE DEF z1
<1>6. /\ z1.sentkexinit = TRUE /\ z1.recvkexinit = TRUE
      /\ z1.sentnewkeys = TRUE /\ DOMAIN z1 = Names
      /\ z1.keys = [trans |-> k, recv |-> r]
      /\ z1.newkeys = [algo |-> algo, trans |-> NoKeys, recv |-> k]
  BY <1>1, <1>3, <1>5 DEF But, Names
<1>7. x = KexInitialise(z3)
  <2>1. x = SwitchKeys(z1)
    BY DEF RecvNewkeys, z1
  <2>2. z1.newkeys.recv # NoKeys /\ z1.newkeys.trans = NoKeys
    BY <1>4, <1>6
  <2>. HIDE DEF x
  <2>. QED  BY <2>1, <2>2, <1>5, <1>6 DEF SwitchKeys
<1>8. /\ But(z1, z2, {"keys", "newkeys"})
      /\ z2.keys = [trans |-> k, recv |-> k]
  <2>1. z1.newkeys.recv = k /\ z1.keys.trans = k
    BY <1>6
  <2>2. z2 = Changed(z1, k, NoKeys, k, NoKeys)
    BY <2>1 DEF Changed
  <2>3. /\ z1.keys = KeyPair(k, r) /\ z1.newkeys = Context(algo, NoKeys, k)
        /\ DOMAIN z1 = Names
    BY <1>6 DEF KeyPair, Context
  <2>. HIDE DEF z2
  <2>. QED  BY <2>2, <2>3, Switching DEF KeyPair
<1>. HIDE DEF z2
<1>9. But(z2, z3, {"newkeys"}) /\ z3.newkeys = NoContext
  BY <1>8 DEF But, Names
<1>. HIDE DEF z3, x
<1>10. /\ But(z3, x, Flags) /\ x.sentkexinit = FALSE /\ x.recvkexinit = FALSE
       /\ x.sentnewkeys = FALSE /\ x.recvnewkeys = FALSE
       /\ x.our_first_follows_matches = FALSE
  BY <1>7, <1>9 DEF KexInitialise, But, Names, Flags
<1>11. But(z, x, Flags \cup {"newkeys", "keys"})
  BY <1>5, <1>8, <1>9, <1>10 DEF But, Flags
<1>12. x.newkeys = NoContext /\ x.keys = [trans |-> k, recv |-> k]
  BY <1>8, <1>9, <1>10 DEF But, Names, Flags
<1>13. /\ x.dataallowed = TRUE /\ x.donefirstkex = TRUE
       /\ x.requirenext = "none" /\ x.ignorenext = FALSE
       /\ x.param = s.param /\ x.kex_state = s.kex_state
       /\ x.drawn \in Nat /\ x.authdone \in BOOLEAN /\ DOMAIN x = Names
  BY <1>1, <1>2, <1>11 DEF But, Names, Flags
<1>14. Idle(e, x)
  <2>1. /\ x.keys.trans = k /\ x.keys.recv = k
        /\ x.keys = [trans |-> x.keys.trans, recv |-> x.keys.recv]
    BY <1>12
  <2>2. Formed(x) /\ Keyed(x)
    BY <2>1, <1>2, <1>4, <1>10, <1>13 DEF Formed, Keyed
  <2>. QED  BY <2>2, <1>1, <1>10, <1>12, <1>13 DEF Idle
<1>18. But(s, x, Flags \cup {"newkeys", "keys", "requirenext", "lastpacket"})
  BY <1>11 DEF But
<1>19. Finished(e, s, x)
  BY <1>12, <1>14, <1>15, <1>18 DEF Finished
<1>. QED  BY <1>19 DEF x

\* What an end that has sent its NEWKEYS has become.
LEMMA SwitchedForm ==
    ASSUME NEW g, NEW e, NEW s, NEW z, NEW x, NEW k \in Secrets,
           Met(g, e, s), s.ignorenext = FALSE,
           But(s, z, Queues \cup {"requirenext", "lastpacket", "drawn", "param"}),
           But(z, x, Queues \cup {"sentnewkeys", "donefirstkex", "dataallowed",
                                  "newkeys", "keys", "requirenext"}),
           x.drawn \in Nat, e = "C" => x.param = NoParam,
           x.sentnewkeys = TRUE, x.donefirstkex = TRUE, x.dataallowed = TRUE,
           x.newkeys = [algo |-> AgreedAlgo(g), trans |-> NoKeys, recv |-> k],
           x.keys = [trans |-> k, recv |-> s.keys.recv],
           x.requirenext = "NEWKEYS"
    PROVE  Switched(e, x)
<1>1. /\ Formed(s) /\ (s.authdone => Keyed(s))
      /\ s.sentkexinit = TRUE /\ s.recvkexinit = TRUE
      /\ s.our_first_follows_matches \in BOOLEAN
  BY DEF Met
<1>2. k # NoKeys
  BY SecretKeys
<1>3. /\ x.authdone = s.authdone /\ x.sentkexinit = TRUE /\ x.recvkexinit = TRUE
      /\ x.ignorenext = FALSE /\ x.recvnewkeys = s.recvnewkeys
      /\ x.our_first_follows_matches = s.our_first_follows_matches
      /\ x.kex_state = s.kex_state /\ DOMAIN x = Names
  BY <1>1 DEF But, Names, Queues
<1>4. Formed(x)
  BY <1>1, <1>3 DEF Formed
<1>. QED  BY <1>1, <1>2, <1>3, <1>4 DEF Switched, Keyed

Ending == {"sentnewkeys", "donefirstkex", "dataallowed", "newkeys", "keys",
           "requirenext"}

\* NewkeysForm with its hypotheses and its conclusion as one formula each.
Ready(s, algo) ==
    /\ DOMAIN s = Names /\ s.sentkexinit = TRUE
    /\ s.recvkexinit = TRUE /\ s.recvnewkeys = FALSE
    /\ s.keys = [trans |-> s.keys.trans, recv |-> s.keys.recv]
    /\ s.newkeys = NewContext(algo)
Ended(s, x, k, algo) ==
    /\ But(s, x, Queues \cup {"sentnewkeys", "donefirstkex",
                              "dataallowed", "newkeys", "keys"})
    /\ x.sentnewkeys = TRUE /\ x.donefirstkex = TRUE
    /\ x.dataallowed = TRUE
    /\ x.newkeys = [algo |-> algo, trans |-> NoKeys, recv |-> k]
    /\ x.keys = [trans |-> k, recv |-> s.keys.recv]
    /\ x.replyq = s.replyq
    /\ \E p : /\ Stamped(p, s, "NEWKEYS", 0)
              /\ x.writequeue = Append(s.writequeue, p)

LEMMA NewkeysEnded ==
    ASSUME NEW s, NEW k \in Secrets, NEW algo, Ready(s, algo)
    PROVE  Ended(s, SendNewkeys(s, k), k, algo)
<1>1. /\ DOMAIN s = Names /\ s.sentkexinit = TRUE
      /\ s.recvkexinit = TRUE /\ s.recvnewkeys = FALSE
      /\ s.keys = [trans |-> s.keys.trans, recv |-> s.keys.recv]
      /\ s.newkeys = NewContext(algo)
  BY DEF Ready
<1>. QED  BY <1>1, NewkeysForm DEF Ended

\* recv_msg_kexdh_init() with the value that was agreed on.
Answered(s, x, v) ==
    /\ But(s, x, Queues \cup Ending \cup {"drawn", "lastpacket"})
    /\ Switched("S", x) /\ x.keys.recv = s.keys.recv
    /\ x.keys.trans = [c |-> s.kexhash.c, s |-> s.kexhash.s, x |-> v,
                       y |-> x.drawn]
    /\ x.drawn = s.drawn + 1 /\ x.replyq = s.replyq
    /\ \E p, q : /\ Stamped(p, s, "KEXDH_REPLY", KR(x.keys.trans).b)
                 /\ Stamped(q, s, "NEWKEYS", 0)
                 /\ x.writequeue = Append(Append(s.writequeue, p), q)

LEMMA KexdhInitAnswered ==
    ASSUME NEW g, NEW s, NEW z, NEW v \in Nat, Met(g, "S", s),
           s.ignorenext = FALSE, But(s, z, {"requirenext", "lastpacket"})
    PROVE  Answered(s, RecvKexdhInit(z, KD(AgreedAlgo(g), v).b), v)
<1>. DEFINE b == KD(AgreedAlgo(g), v).b
            y == z.drawn + 1
            k == [c |-> z.kexhash.c, s |-> z.kexhash.s, x |-> b.x, y |-> y]
            z0 == [z EXCEPT !.drawn = y]
            z1 == EncryptPacket(z0, "KEXDH_REPLY", [y |-> y, signed |-> k])
            z2 == SendNewkeys(z1, k)
            x == RecvKexdhInit(z, b)
<1>1. /\ Formed(s) /\ s.sentkexinit = TRUE /\ s.recvkexinit = TRUE
      /\ s.newkeys = NewContext(AgreedAlgo(g))
      /\ s.kexhash \in [c : Nat, s : Nat]
  BY DEF Met
<1>2. /\ DOMAIN z = Names /\ z.recvkexinit = TRUE /\ z.sentkexinit = TRUE
      /\ z.newkeys = NewContext(AgreedAlgo(g)) /\ z.kexhash = s.kexhash
      /\ z.drawn = s.drawn /\ z.keys = s.keys /\ z.authdone = s.authdone
      /\ z.replyq = s.replyq /\ z.writequeue = s.writequeue
      /\ z.recvnewkeys = FALSE /\ s.drawn \in Nat
      /\ s.keys = [trans |-> s.keys.trans, recv |-> s.keys.recv]
  BY <1>1 DEF Formed, But, Names
<1>3. b.algo = AgreedAlgo(g) /\ b.x = v
  BY DEF KD
<1>4. x = [z2 EXCEPT !.requirenext = "NEWKEYS"]
  <2>1. z.newkeys.algo = AgreedAlgo(g)
    BY <1>2 DEF NewContext
  <2>. HIDE DEF b
  <2>2. b.algo = z.newkeys.algo /\ z.recvkexinit = TRUE
    BY <1>2, <1>3, <2>1
  <2>. QED  BY <2>2 DEF RecvKexdhInit
<1>5. /\ k = [c |-> s.kexhash.c, s |-> s.kexhash.s, x |-> v, y |-> y]
      /\ k \in Secrets /\ y = s.drawn + 1 /\ y \in Nat
  <2>1. s.kexhash.c \in Nat /\ s.kexhash.s \in Nat
    BY <1>1
  <2>2. y = s.drawn + 1 /\ y \in Nat
    BY <1>2
  <2>. HIDE DEF y
  <2>3. k = [c |-> s.kexhash.c, s |-> s.kexhash.s, x |-> v, y |-> y]
    BY <1>2, <1>3
  <2>. QED  BY <2>1, <2>2, <2>3 DEF Secrets
<1>6. KR(k).b = [y |-> y, signed |-> k]
  BY DEF KR
<1>. HIDE DEF x, b, k, y
<1>7. But(z, z0, {"drawn"}) /\ z0.drawn = y
  BY <1>2 DEF But, Names
<1>. HIDE DEF z0
<1>8. /\ DOMAIN z0 = Names /\ z0.sentkexinit = TRUE /\ z0.recvkexinit = TRUE
      /\ z0.recvnewkeys = FALSE /\ z0.keys = s.keys
      /\ z0.authdone = s.authdone /\ z0.newkeys = NewContext(AgreedAlgo(g))
      /\ z0.replyq = s.replyq /\ z0.writequeue = s.writequeue
  BY <1>2, <1>7 DEF But, Names
<1>9. /\ But(z0, z1, Queues) /\ z1.replyq = z0.replyq
      /\ \E p : /\ Stamped(p, z0, "KEXDH_REPLY", [y |-> y, signed |-> k])
                /\ z1.writequeue = Append(z0.writequeue, p)
  <2>1. "KEXDH_REPLY" \notin UpperType \cup {"KEXINIT"}
    BY KexIsLower
  <2>. QED  BY <2>1, <1>8, EncryptForm
<1>. HIDE DEF z1
<1>10. /\ DOMAIN z1 = Names /\ z1.sentkexinit = TRUE /\ z1.recvkexinit = TRUE
       /\ z1.recvnewkeys = FALSE /\ z1.keys = s.keys
       /\ z1.authdone = s.authdone /\ z1.newkeys = NewContext(AgreedAlgo(g))
       /\ z1.replyq = s.replyq /\ z1.drawn = y
  BY <1>7, <1>8, <1>9 DEF But, Names, Queues
<1>11. /\ But(z1, z2, Queues \cup (Ending \ {"requirenext"}))
       /\ z2.sentnewkeys = TRUE /\ z2.donefirstkex = TRUE
       /\ z2.dataallowed = TRUE
       /\ z2.newkeys = [algo |-> AgreedAlgo(g), trans |-> NoKeys, recv |-> k]
       /\ z2.keys = [trans |-> k, recv |-> s.keys.recv]
       /\ z2.replyq = z1.replyq
       /\ \E q : /\ Stamped(q, z1, "NEWKEYS", 0)
                 /\ z2.writequeue = Append(z1.writequeue, q)
  <2>1. z1.keys = [trans |-> z1.keys.trans, recv |-> z1.keys.recv]
    BY <1>2, <1>10
  <2>2. But(z1, z2, Queues \cup {"sentnewkeys", "donefirstkex",
                                 "dataallowed", "newkeys", "keys"})
        /\ z2.sentnewkeys = TRUE /\ z2.donefirstkex = TRUE
        /\ z2.dataallowed = TRUE
        /\ z2.newkeys = [algo |-> AgreedAlgo(g), trans |-> NoKeys, recv |-> k]
        /\ z2.keys = [trans |-> k, recv |-> z1.keys.recv]
        /\ z2.replyq = z1.replyq
        /\ \E q : /\ Stamped(q, z1, "NEWKEYS", 0)
                  /\ z2.writequeue = Append(z1.writequeue, q)
    <3>1. Ready(z1, AgreedAlgo(g)) /\ k \in Secrets
      BY <2>1, <1>5, <1>10 DEF Ready
    <3>2. Ended(z1, z2, k, AgreedAlgo(g))
      BY <3>1, NewkeysEnded
    <3>. QED  BY <3>2 DEF Ended
  <2>. HIDE DEF z2
  <2>3. But(z1, z2, Queues \cup (Ending \ {"requirenext"}))
    BY <2>2 DEF But, Ending
  <2>. QED  BY <2>2, <2>3, <1>10
<1>. HIDE DEF z2
<1>12. /\ But(z1, x, Queues \cup Ending) /\ x.requirenext = "NEWKEYS"
       /\ \A f \in Names : f # "requirenext" => x[f] = z2[f]
  BY <1>4, <1>11 DEF But, Names, Queues, Ending
<1>13. But(z, x, Queues \cup Ending \cup {"drawn"})
  BY <1>7, <1>9, <1>12 DEF But
<1>14. /\ x.sentnewkeys = TRUE /\ x.donefirstkex = TRUE /\ x.dataallowed = TRUE
       /\ x.newkeys = [algo |-> AgreedAlgo(g), trans |-> NoKeys, recv |-> k]
       /\ x.keys = [trans |-> k, recv |-> s.keys.recv]
       /\ x.replyq = s.replyq /\ x.writequeue = z2.writequeue
  BY <1>10, <1>11, <1>12 DEF Names
<1>15. x.drawn = y
  BY <1>10, <1>12 DEF But, Names, Queues, Ending
<1>16. Switched("S", x)
  <2>1. But(s, z0, Queues \cup {"requirenext", "lastpacket", "drawn", "param"})
    BY <1>7 DEF But
  <2>2. But(z0, x, Queues \cup {"sentnewkeys", "donefirstkex", "dataallowed",
                                "newkeys", "keys", "requirenext"})
    BY <1>9, <1>12 DEF But, Ending
  <2>. QED  BY <2>1, <2>2, <1>5, <1>12, <1>14, <1>15, SwitchedForm
<1>17. PICK p : /\ Stamped(p, z0, "KEXDH_REPLY", [y |-> y, signed |-> k])
                /\ z1.writequeue = Append(z0.writequeue, p)
  BY <1>9
<1>18. PICK q : /\ Stamped(q, z1, "NEWKEYS", 0)
                /\ z2.writequeue = Append(z1.writequeue, q)
  BY <1>11
<1>19. /\ Stamped(p, s, "KEXDH_REPLY", KR(x.keys.trans).b)
       /\ Stamped(q, s, "NEWKEYS", 0)
       /\ x.writequeue = Append(Append(s.writequeue, p), q)
  BY <1>6, <1>8, <1>10, <1>14, <1>17, <1>18 DEF Stamped
<1>20. x.keys.recv = s.keys.recv /\ x.keys.trans = k
  BY <1>14
<1>21. x.keys.trans = [c |-> s.kexhash.c, s |-> s.kexhash.s,
                       x |-> v, y |-> x.drawn]
  BY <1>5, <1>15, <1>20
<1>22. x.drawn = s.drawn + 1 /\ x.replyq = s.replyq
  BY <1>5, <1>14, <1>15
<1>23. But(s, x, Queues \cup Ending \cup {"drawn", "lastpacket"})
  BY <1>13 DEF But, Ending
<1>24. Answered(s, x, v)
  BY <1>16, <1>19, <1>20, <1>21, <1>22, <1>23 DEF Answered
<1>. QED  BY <1>24 DEF x, b

\* recv_msg_kexdh_reply() with a signature over what the client has.
Taken(s, x, k) ==
    /\ But(s, x, Queues \cup Ending \cup {"param", "lastpacket"})
    /\ Switched("C", x) /\ x.keys.recv = s.keys.recv
    /\ x.keys.trans = k /\ x.replyq = s.replyq
    /\ \E p : /\ Stamped(p, s, "NEWKEYS", 0)
              /\ x.writequeue = Append(s.writequeue, p)

LEMMA KexdhReplyTaken ==
    ASSUME NEW g, NEW s, NEW z, NEW k \in Secrets, Met(g, "C", s),
           s.kex_state = "KEXDH_INIT_SENT",
           But(s, z, {"requirenext", "lastpacket"}),
           k.c = s.kexhash.c, k.s = s.kexhash.s, k.x = s.param.x
    PROVE  Taken(s, RecvKexdhReply(z, KR(k).b), k)
<1>. DEFINE b == KR(k).b
            m == [c |-> z.kexhash.c, s |-> z.kexhash.s,
                  x |-> z.param.x, y |-> b.y]
            z1 == [z EXCEPT !.param = NoParam]
            z2 == SendNewkeys(z1, m)
            x == RecvKexdhReply(z, b)
<1>1. /\ Formed(s) /\ s.sentkexinit = TRUE /\ s.recvkexinit = TRUE
      /\ s.newkeys = NewContext(AgreedAlgo(g)) /\ s.ignorenext = FALSE
  BY DEF Met
<1>2. /\ DOMAIN z = Names /\ z.recvkexinit = TRUE /\ z.sentkexinit = TRUE
      /\ z.newkeys = NewContext(AgreedAlgo(g)) /\ z.kexhash = s.kexhash
      /\ z.drawn = s.drawn /\ z.keys = s.keys /\ z.authdone = s.authdone
      /\ z.replyq = s.replyq /\ z.writequeue = s.writequeue
      /\ z.recvnewkeys = FALSE /\ s.drawn \in Nat /\ z.param = s.param
      /\ z.kex_state = "KEXDH_INIT_SENT"
      /\ s.keys = [trans |-> s.keys.trans, recv |-> s.keys.recv]
  BY <1>1 DEF Formed, But, Names
<1>3. b.y = k.y /\ b.signed = k
  BY DEF KR
<1>4. m = k
  BY <1>2, <1>3 DEF Secrets
<1>5. x = [z2 EXCEPT !.requirenext = "NEWKEYS"]
  BY <1>2, <1>3, <1>4 DEF RecvKexdhReply
<1>. HIDE DEF x, b, m
<1>6. But(z, z1, {"param"}) /\ z1.param = NoParam
  BY <1>2 DEF But, Names
<1>. HIDE DEF z1
<1>7. /\ DOMAIN z1 = Names /\ z1.sentkexinit = TRUE /\ z1.recvkexinit = TRUE
      /\ z1.recvnewkeys = FALSE /\ z1.keys = s.keys
      /\ z1.authdone = s.authdone /\ z1.newkeys = NewContext(AgreedAlgo(g))
      /\ z1.replyq = s.replyq /\ z1.writequeue = s.writequeue
      /\ z1.drawn = s.drawn
  BY <1>2, <1>6 DEF But, Names
<1>8. /\ But(z1, z2, Queues \cup (Ending \ {"requirenext"}))
      /\ z2.sentnewkeys = TRUE /\ z2.donefirstkex = TRUE
      /\ z2.dataallowed = TRUE
      /\ z2.newkeys = [algo |-> AgreedAlgo(g), trans |-> NoKeys, recv |-> k]
      /\ z2.keys = [trans |-> k, recv |-> s.keys.recv]
      /\ z2.replyq = z1.replyq
      /\ \E q : /\ Stamped(q, z1, "NEWKEYS", 0)
                /\ z2.writequeue = Append(z1.writequeue, q)
  <2>1. z1.keys = [trans |-> z1.keys.trans, recv |-> z1.keys.recv]
    BY <1>2, <1>7
  <2>2. But(z1, z2, Queues \cup {"sentnewkeys", "donefirstkex",
                                 "dataallowed", "newkeys", "keys"})
        /\ z2.sentnewkeys = TRUE /\ z2.donefirstkex = TRUE
        /\ z2.dataallowed = TRUE
        /\ z2.newkeys = [algo |-> AgreedAlgo(g), trans |-> NoKeys, recv |-> k]
        /\ z2.keys = [trans |-> k, recv |-> z1.keys.recv]
        /\ z2.replyq = z1.replyq
        /\ \E q : /\ Stamped(q, z1, "NEWKEYS", 0)
                  /\ z2.writequeue = Append(z1.writequeue, q)
    <3>1. z2 = SendNewkeys(z1, k)
      BY <1>4
    <3>2. Ready(z1, AgreedAlgo(g))
      BY <2>1, <1>7 DEF Ready
    <3>. HIDE DEF z2
    <3>3. Ended(z1, z2, k, AgreedAlgo(g))
      BY <3>1, <3>2, NewkeysEnded
    <3>. QED  BY <3>3 DEF Ended
  <2>. HIDE DEF z2
  <2>3. But(z1, z2, Queues \cup (Ending \ {"requirenext"}))
    BY <2>2 DEF But, Ending
  <2>. QED  BY <2>2, <2>3, <1>7
<1>. HIDE DEF z2
<1>9. /\ But(z1, x, Queues \cup Ending) /\ x.requirenext = "NEWKEYS"
      /\ \A f \in Names : f # "requirenext" => x[f] = z2[f]
  BY <1>5, <1>8 DEF But, Names, Queues, Ending
<1>10. But(z, x, Queues \cup Ending \cup {"param"})
  BY <1>6, <1>9 DEF But
<1>11. /\ x.sentnewkeys = TRUE /\ x.donefirstkex = TRUE /\ x.dataallowed = TRUE
       /\ x.newkeys = [algo |-> AgreedAlgo(g), trans |-> NoKeys, recv |-> k]
       /\ x.keys = [trans |-> k, recv |-> s.keys.recv]
       /\ x.replyq = s.replyq /\ x.writequeue = z2.writequeue
  BY <1>7, <1>8, <1>9 DEF Names
<1>12. x.param = NoParam /\ x.drawn \in Nat
  BY <1>2, <1>6, <1>7, <1>9 DEF But, Names, Queues, Ending
<1>13. Switched("C", x)
  <2>1. But(s, z1, Queues \cup {"requirenext", "lastpacket", "drawn", "param"})
    BY <1>6 DEF But
  <2>2. But(z1, x, Queues \cup {"sentnewkeys", "donefirstkex", "dataallowed",
                                "newkeys", "keys", "requirenext"})
    BY <1>9 DEF But, Ending
  <2>. QED  BY <2>1, <2>2, <1>1, <1>9, <1>11, <1>12, SwitchedForm
<1>14. PICK q : /\ Stamped(q, z1, "NEWKEYS", 0)
                /\ z2.writequeue = Append(z1.writequeue, q)
  BY <1>8
<1>15. Stamped(q, s, "NEWKEYS", 0) /\ x.writequeue = Append(s.writequeue, q)
  BY <1>7, <1>11, <1>14 DEF Stamped
<1>16. But(s, x, Queues \cup Ending \cup {"param", "lastpacket"})
  BY <1>10 DEF But, Ending
<1>17. x.keys.trans = k /\ x.keys.recv = s.keys.recv
  BY <1>11
<1>18. Taken(s, x, k)
  BY <1>11, <1>13, <1>15, <1>16, <1>17 DEF Taken
<1>. QED  BY <1>18 DEF x, b

\* cli_sessionloop() when the peer's KEXINIT has been read.
Started(g, s, x) ==
    /\ But(s, x, Queues \cup {"drawn", "param", "kex_state"})
    /\ Met(g, "C", x) /\ x.kex_state = "KEXDH_INIT_SENT"
    /\ x.replyq = s.replyq
    /\ ~Wrong(g) => x.param = s.param /\ x.writequeue = s.writequeue
    /\ Wrong(g) => \E p : /\ Stamped(p, s, "KEXDH_INIT", Second(g, x).b)
                          /\ x.writequeue = Append(s.writequeue, p)

LEMMA KexdhStarted ==
    ASSUME NEW g, NEW s, Met(g, "C", s), s.kex_state = "KEX_NOTHING"
    PROVE  Started(g, s, [KexdhOfKexinit(s) EXCEPT !.kex_state = "KEXDH_INIT_SENT"])
<1>. DEFINE y == KexdhOfKexinit(s)
            x == [y EXCEPT !.kex_state = "KEXDH_INIT_SENT"]
<1>1. /\ Formed(s) /\ s.our_first_follows_matches = ~Wrong(g)
      /\ s.newkeys = NewContext(AgreedAlgo(g))
      /\ s.param \in Params /\ s.param.algo = "first"
  BY DEF Met
<1>2. /\ DOMAIN s = Names /\ s.drawn \in Nat
      /\ s.newkeys.algo = AgreedAlgo(g)
      /\ AgreedAlgo(g) \in {"first", "other"}
      /\ ~Wrong(g) => AgreedAlgo(g) = "first"
  BY <1>1 DEF Formed, NewContext, AgreedAlgo, Wrong
<1>3. CASE ~Wrong(g)
  <2>1. y = s
    BY <1>1, <1>3 DEF KexdhOfKexinit
  <2>2. But(s, x, {"kex_state"}) /\ x.kex_state = "KEXDH_INIT_SENT"
    BY <2>1, <1>2 DEF But, Names
  <2>. HIDE DEF x
  <2>3. x.param = s.param /\ x.writequeue = s.writequeue /\ x.replyq = s.replyq
    BY <2>2 DEF But, Names
  <2>4. Met(g, "C", x)
    <3>1. /\ DOMAIN x = Names /\ x.keys = s.keys /\ x.drawn = s.drawn
          /\ x.authdone = s.authdone /\ x.donefirstkex = s.donefirstkex
          /\ x.sentkexinit = s.sentkexinit /\ x.recvkexinit = s.recvkexinit
          /\ x.sentnewkeys = s.sentnewkeys /\ x.recvnewkeys = s.recvnewkeys
          /\ x.dataallowed = s.dataallowed /\ x.requirenext = s.requirenext
          /\ x.newkeys = s.newkeys /\ x.kexhash = s.kexhash
          /\ x.ignorenext = s.ignorenext
          /\ x.our_first_follows_matches = s.our_first_follows_matches
      BY <2>2 DEF But, Names
    <3>. QED  BY <3>1, <2>2, <2>3, <1>1, <1>2, <1>3 DEF Met, Formed, Keyed
  <2>5. But(s, x, Queues \cup {"drawn", "param", "kex_state"})
    BY <2>2 DEF But
  <2>6. Started(g, s, x)
    BY <2>2, <2>3, <2>4, <2>5, <1>3 DEF Started
  <2>. QED  BY <2>6 DEF x
<1>4. CASE Wrong(g)
  <2>1. y = SendKexdhInit(s)
    BY <1>1, <1>4 DEF KexdhOfKexinit
  <2>. HIDE DEF y
  <2>2. /\ But(s, y, Queues \cup {"drawn", "param"})
        /\ y.drawn \in Nat /\ y.param \in Params
        /\ y.param.algo = AgreedAlgo(g) /\ y.replyq = s.replyq
        /\ \E p : /\ Stamped(p, s, "KEXDH_INIT",
                             KD(AgreedAlgo(g), y.param.x).b)
                  /\ y.writequeue = Append(s.writequeue, p)
    BY <2>1, <1>1, <1>2, KexdhInitForm
  <2>3. But(y, x, {"kex_state"}) /\ x.kex_state = "KEXDH_INIT_SENT"
    BY <2>2 DEF But, Names
  <2>. HIDE DEF x
  <2>4. /\ x.param = y.param /\ x.writequeue = y.writequeue
        /\ x.replyq = y.replyq /\ x.drawn = y.drawn
        /\ But(s, x, Queues \cup {"drawn", "param", "kex_state"})
    BY <2>2, <2>3 DEF But, Names
  <2>5. Met(g, "C", x)
    <3>1. /\ DOMAIN x = Names /\ x.keys = s.keys
          /\ x.authdone = s.authdone /\ x.donefirstkex = s.donefirstkex
          /\ x.sentkexinit = s.sentkexinit /\ x.recvkexinit = s.recvkexinit
          /\ x.sentnewkeys = s.sentnewkeys /\ x.recvnewkeys = s.recvnewkeys
          /\ x.dataallowed = s.dataallowed /\ x.requirenext = s.requirenext
          /\ x.newkeys = s.newkeys /\ x.kexhash = s.kexhash
          /\ x.ignorenext = s.ignorenext
          /\ x.our_first_follows_matches = s.our_first_follows_matches
      BY <2>4 DEF But, Names, Queues
    <3>2. x.kex_state # "KEX_NOTHING"
      BY <2>3
    <3>. QED  BY <3>1, <3>2, <2>2, <2>3, <2>4 DEF Met, Formed, Keyed
  <2>6. \E p : /\ Stamped(p, s, "KEXDH_INIT", Second(g, x).b)
               /\ x.writequeue = Append(s.writequeue, p)
    BY <2>2, <2>4 DEF Second
  <2>7. Started(g, s, x)
    BY <2>2, <2>3, <2>4, <2>5, <2>6, <1>4 DEF Started
  <2>. QED  BY <2>7 DEF x, y
<1>. QED  BY <1>3, <1>4

=============================================================================
