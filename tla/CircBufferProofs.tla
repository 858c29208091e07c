-------------------------- MODULE CircBufferProofs --------------------------
(***************************************************************************)
(* Proofs about the ring buffer, for every size and every payload.         *)
(*                                                                         *)
(* AssertionsHold is not inductive: that the bytes in use are those of the *)
(* payloads (and so out \in Seq(Byte)) needs Filled, and the assertions    *)
(* speak of the positions modulo the size, which leaves open where they    *)
(* are.  The inductive invariant says it without the modulus, in Ring.     *)
(***************************************************************************)
EXTENDS CircBuffer, SequenceTheorems, TLAPS

\* writepos is used bytes ahead of readpos, or Size less after a wrap
Ring == writepos = readpos + used \/ writepos = readpos + used - Size

\* The bytes in use have been written
Filled == \A i \in 0 .. used - 1 : data[(readpos + i) % Size] \in Byte

IInv == TypeOK /\ Ring /\ Filled /\ Len(todo) <= Avail

---------------------------------------------------------------------------
(* Arithmetic of the positions *)

\* The size is a positive natural number (SizeAssumption without its bound).
LEMMA SizeNat == Size \in Nat \ {0}
BY SizeAssumption

\* A position moved on, reduced as circbuffer.c reduces it
LEMMA WrapSum ==
    ASSUME NEW p \in Position, NEW n \in 0 .. Size
    PROVE  (p + n) % Size = IF p + n < Size THEN p + n ELSE p + n - Size
BY SizeNat DEF Position

\* The contiguous parts are non-empty when there is something to read or room
\* to write, lie within the buffer, and are no larger than they may be.
LEMMA Contiguous ==
    ASSUME TypeOK, Ring
    PROVE  /\ WriteLen \in 0 .. Avail /\ writepos + WriteLen <= Size
           /\ Avail > 0 => WriteLen > 0
           /\ ReadLen \in 0 .. used /\ readpos + ReadLen <= Size
           /\ used > 0 => ReadLen > 0
BY SizeNat DEF TypeOK, Ring, WriteLen, ReadLen, Avail, Position

\* The positions that hold bytes in use are not among those written next.
LEMMA FreeIsFree ==
    ASSUME TypeOK, Ring, NEW i \in 0 .. used - 1
    PROVE  /\ (readpos + i) % Size \in Position
           /\ (readpos + i) % Size \notin writepos .. writepos + WriteLen - 1
<1>1. (readpos + i) % Size = IF readpos + i < Size THEN readpos + i
                                                   ELSE readpos + i - Size
  <2>1. readpos \in Position /\ i \in 0 .. Size
    BY SizeNat DEF TypeOK
  <2>2. QED
    BY <2>1, WrapSum
<1>2. CASE readpos + i < Size
  <2>1. (readpos + i) % Size = readpos + i
    BY <1>1, <1>2
  <2>2. QED
    BY <1>2, <2>1, SizeNat DEF TypeOK, Ring, WriteLen, Position
<1>3. CASE ~(readpos + i < Size)
  <2>1. (readpos + i) % Size = readpos + i - Size
    BY <1>1, <1>3
  <2>2. QED
    BY <1>3, <2>1, SizeNat DEF TypeOK, Ring, WriteLen, Position
<1>4. QED
  BY <1>2, <1>3

\* The position k bytes after the last one in use
LEMMA NextFree ==
    ASSUME TypeOK, Ring, NEW k \in 0 .. WriteLen - 1
    PROVE  (readpos + (used + k)) % Size = writepos + k
<1>1. readpos \in Position /\ used + k \in 0 .. Size
  BY SizeNat DEF TypeOK, Ring, WriteLen, Position
<1>2. (readpos + (used + k)) % Size =
         IF readpos + (used + k) < Size THEN readpos + (used + k)
                                        ELSE readpos + (used + k) - Size
  BY <1>1, WrapSum
<1>3. CASE readpos + (used + k) < Size
  <2>1. (readpos + (used + k)) % Size = readpos + (used + k)
    BY <1>2, <1>3
  <2>2. QED
    BY <1>3, <2>1, SizeNat DEF TypeOK, Ring, WriteLen, Position
<1>4. CASE ~(readpos + (used + k) < Size)
  <2>1. (readpos + (used + k)) % Size = readpos + (used + k) - Size
    BY <1>2, <1>4
  <2>2. QED
    BY <1>4, <2>1, SizeNat DEF TypeOK, Ring, WriteLen, Position
<1>5. QED
  BY <1>3, <1>4

---------------------------------------------------------------------------
(* What the two loops do to the bytes in use *)

\* The part of the payload one turn copies
CopyLen == IF WriteLen < Len(todo) THEN WriteLen ELSE Len(todo)

\* A turn of the copying loop makes progress and stays within the payload, the
\* room left and the memory.
LEMMA CopyLenBounds ==
    ASSUME IInv, todo # <<>>
    PROVE  /\ CopyLen \in 1 .. WriteLen /\ CopyLen \in 1 .. Len(todo)
           /\ CopyLen <= Avail /\ writepos + CopyLen <= Size
<1>1. Len(todo) \in Nat \ {0}
  BY EmptySeq DEF IInv, TypeOK
<1>2. Avail > 0
  BY <1>1, SizeNat DEF IInv, TypeOK, Avail
<1>3. /\ WriteLen \in 0 .. Avail /\ writepos + WriteLen <= Size
      /\ WriteLen > 0
  BY <1>2, Contiguous DEF IInv
<1>4. Avail \in Nat /\ writepos \in Nat
  BY SizeNat DEF IInv, TypeOK, Avail, Position
<1>5. QED
  BY <1>1, <1>3, <1>4, SizeNat DEF IInv, CopyLen

\* A turn leaves the bytes in use alone and puts the payload's after them.
LEMMA CopyContents ==
    ASSUME IInv, Copy, NEW i \in 0 .. used' - 1
    PROVE  data'[(readpos + i) % Size] =
             IF i < used THEN data[(readpos + i) % Size] ELSE todo[i - used + 1]
<1>1. /\ used' = used + CopyLen
      /\ data' = [p \in Position |->
                    IF p \in writepos .. writepos + CopyLen - 1
                    THEN todo[p - writepos + 1] ELSE data[p]]
  BY DEF Copy, CopyLen, Advance
<1>2. /\ CopyLen \in 1 .. WriteLen /\ WriteLen \in Int
      /\ writepos + CopyLen <= Size
  BY CopyLenBounds, Contiguous, SizeNat DEF Copy, IInv, TypeOK, Avail
<1>3. used \in 0 .. Size /\ writepos \in 0 .. Size - 1
  BY DEF IInv, TypeOK, Position
<1>4. CASE i < used
  <2>1. i \in 0 .. used - 1
    BY <1>3, <1>4
  <2>2. /\ (readpos + i) % Size \in Position
        /\ (readpos + i) % Size \notin writepos .. writepos + WriteLen - 1
    BY <2>1, FreeIsFree DEF IInv
  <2>3. (readpos + i) % Size \notin writepos .. writepos + CopyLen - 1
    BY <1>2, <1>3, <2>2
  <2>4. QED
    BY <1>1, <1>4, <2>2, <2>3
<1>5. CASE ~(i < used)
  <2> DEFINE k == i - used
  <2>1. k \in 0 .. CopyLen - 1 /\ k \in 0 .. WriteLen - 1 /\ i = used + k
    BY <1>1, <1>2, <1>3, <1>5
  <2>2. (readpos + (used + k)) % Size = writepos + k
    BY <2>1, NextFree DEF IInv
  <2>3. (readpos + i) % Size = writepos + k
    BY <2>1, <2>2
  <2>4. /\ writepos + k \in Position
        /\ writepos + k \in writepos .. writepos + CopyLen - 1
        /\ (writepos + k) - writepos + 1 = i - used + 1
    BY <1>2, <1>3, <2>1, SizeNat DEF Position
  <2>5. data'[writepos + k] = todo[i - used + 1]
    BY <1>1, <2>4
  <2>6. QED
    BY <1>5, <2>3, <2>5
<1>6. QED
  BY <1>4, <1>5

\* What write() takes is the start of the bytes in use, and the others follow
\* the new readpos.
LEMMA WritePositions ==
    ASSUME TypeOK, Ring, NEW len \in 1 .. ReadLen
    PROVE  /\ \A i \in 0 .. len - 1 : (readpos + i) % Size = readpos + i
           /\ \A i \in 0 .. used - len - 1 :
                (((readpos + len) % Size) + i) % Size = (readpos + (len + i)) % Size
           /\ (readpos + len) % Size = IF readpos + len < Size THEN readpos + len
                                                              ELSE 0
<1>1. /\ readpos \in 0 .. Size - 1 /\ used \in 0 .. Size /\ len \in 1 .. used
      /\ readpos + len <= Size
  BY Contiguous, SizeNat DEF TypeOK, Position, Avail
<1>2. /\ readpos \in Position
      /\ \A n \in 0 .. Size : (readpos + n) % Size =
            IF readpos + n < Size THEN readpos + n ELSE readpos + n - Size
  BY <1>1, WrapSum DEF Position
<1>3. \A i \in 0 .. len - 1 : (readpos + i) % Size = readpos + i
  <2> SUFFICES ASSUME NEW i \in 0 .. len - 1
               PROVE  (readpos + i) % Size = readpos + i
    OBVIOUS
  <2>1. i \in 0 .. Size /\ readpos + i < Size
    BY <1>1, SizeNat
  <2>2. QED
    BY <1>2, <2>1
<1>4. (readpos + len) % Size = IF readpos + len < Size THEN readpos + len ELSE 0
  <2>1. len \in 0 .. Size
    BY <1>1, SizeNat
  <2>2. readpos + len < Size \/ readpos + len - Size = 0
    BY <1>1, SizeNat
  <2>3. QED
    BY <1>2, <2>1, <2>2
<1>5. ASSUME NEW i \in 0 .. used - len - 1
      PROVE  (((readpos + len) % Size) + i) % Size = (readpos + (len + i)) % Size
  <2>1. len + i \in 0 .. Size /\ i \in 0 .. Size
    BY <1>1, SizeNat
  <2>2. CASE readpos + len < Size
    <3>1. ((readpos + len) % Size) + i = readpos + (len + i)
      BY <1>1, <1>4, <2>1, <2>2
    <3>2. QED
      BY <3>1
  <2>3. CASE ~(readpos + len < Size)
    <3>1. readpos + len = Size
      BY <1>1, <2>3, SizeNat
    <3>2. ((readpos + len) % Size) + i = i /\ readpos + (len + i) - Size = i
      BY <1>1, <1>4, <2>1, <2>3, <3>1, SizeNat
    <3>3. (readpos + (len + i)) % Size = i
      <4>1. ~(readpos + (len + i) < Size)
        BY <1>1, <2>1, <3>1, SizeNat
      <4>2. QED
        BY <1>2, <2>1, <3>2, <4>1
    <3>4. i % Size = i
      BY <1>1, SizeNat
    <3>5. QED
      BY <3>2, <3>3, <3>4
  <2>4. QED
    BY <2>2, <2>3
<1>6. QED
  BY <1>3, <1>4, <1>5

---------------------------------------------------------------------------
(* The inductive invariant *)

\* cbuf_new() establishes the inductive invariant.
LEMMA InitIInv == Init => IInv
BY SizeNat, EmptySeq
   DEF Init, IInv, TypeOK, Ring, Filled, Avail, Position

\* A packet that fits keeps it.
LEMMA ReceiveIInv == IInv /\ Receive => IInv'
<1> SUFFICES ASSUME IInv, Receive
             PROVE  IInv'
  OBVIOUS
<1>1. UNCHANGED buffer /\ out' = <<>>
  BY DEF Receive
<1>2. PICK n \in 1 .. Avail : todo' \in [1 .. n -> Byte]
  BY DEF Receive
<1>3. n \in Nat
  BY <1>2, SizeNat DEF IInv, TypeOK, Avail
<1>4. todo' \in Seq(Byte) /\ Len(todo') = n
  BY <1>2, <1>3, LenProperties
<1>5. n <= Avail'
  BY <1>1, <1>2, SizeNat DEF IInv, TypeOK, Avail, buffer
<1>6. out' \in Seq(Byte)
  BY <1>1, EmptySeq
<1>7. QED
  BY <1>1, <1>4, <1>5, <1>6 DEF IInv, TypeOK, Ring, Filled, buffer

\* A turn of the loop in common_recv_msg_channel_data() keeps it.
LEMMA CopyIInv == IInv /\ Copy => IInv'
<1> SUFFICES ASSUME IInv, Copy
             PROVE  IInv'
  OBVIOUS
<1>1. /\ todo # <<>>
      /\ used' = used + CopyLen
      /\ writepos' = (writepos + CopyLen) % Size
      /\ todo' = SubSeq(todo, CopyLen + 1, Len(todo))
      /\ data' = [p \in Position |->
                    IF p \in writepos .. writepos + CopyLen - 1
                    THEN todo[p - writepos + 1] ELSE data[p]]
      /\ readpos' = readpos /\ out' = out
  BY DEF Copy, CopyLen, Advance
<1>2. /\ CopyLen \in 1 .. Len(todo) /\ CopyLen <= Avail
      /\ writepos + CopyLen <= Size
  BY <1>1, CopyLenBounds
<1>3. /\ used \in 0 .. Size /\ writepos \in 0 .. Size - 1
      /\ todo \in Seq(Byte) /\ Len(todo) \in Nat /\ Len(todo) <= Avail
      /\ readpos \in 0 .. Size - 1
  BY LenProperties DEF IInv, TypeOK, Position
<1>4. todo' \in Seq(Byte) /\ Len(todo') = Len(todo) - CopyLen
  BY <1>1, <1>2, <1>3
<1>5. used' \in 0 .. Size /\ Len(todo') <= Avail'
  BY <1>1, <1>2, <1>3, <1>4, SizeNat DEF Avail
<1>6. writepos' = IF writepos + CopyLen < Size THEN writepos + CopyLen ELSE 0
  <2>1. writepos \in Position /\ CopyLen \in 0 .. Size
    BY <1>2, <1>3, SizeNat DEF Position
  <2>2. writepos + CopyLen < Size \/ writepos + CopyLen - Size = 0
    BY <1>2, <1>3, SizeNat
  <2>3. QED
    BY <1>1, <2>1, <2>2, WrapSum
<1>7. writepos' \in Position
  BY <1>2, <1>3, <1>6, SizeNat DEF Position
<1>8. data' \in [Position -> Byte \cup {NoByte}]
  <2> SUFFICES ASSUME NEW p \in Position
               PROVE  (IF p \in writepos .. writepos + CopyLen - 1
                       THEN todo[p - writepos + 1] ELSE data[p])
                        \in Byte \cup {NoByte}
    BY <1>1
  <2>1. CASE p \in writepos .. writepos + CopyLen - 1
    <3>1. p - writepos + 1 \in 1 .. Len(todo)
      BY <1>2, <1>3, <2>1
    <3>2. todo[p - writepos + 1] \in Byte
      BY <1>3, <3>1, ElementOfSeq
    <3>3. QED
      BY <2>1, <3>2
  <2>2. QED
    BY <2>1 DEF IInv, TypeOK
<1>9. Ring'
  <2>1. CASE writepos + CopyLen < Size
    <3>1. /\ writepos' = writepos + CopyLen /\ used' = used + CopyLen
          /\ readpos' = readpos
      BY <1>1, <1>6, <2>1
    <3>2. CASE writepos = readpos + used
      BY <1>2, <1>3, <3>1, <3>2, SizeNat DEF Ring
    <3>3. CASE writepos = readpos + used - Size
      BY <1>2, <1>3, <3>1, <3>3, SizeNat DEF Ring
    <3>4. QED
      BY <3>2, <3>3 DEF IInv, Ring
  <2>2. CASE ~(writepos + CopyLen < Size)
    <3>1. /\ writepos' = 0 /\ writepos + CopyLen = Size
          /\ used' = used + CopyLen /\ readpos' = readpos
      BY <1>1, <1>2, <1>3, <1>6, <2>2, SizeNat
    <3>2. writepos = readpos + used
      BY <1>2, <1>3, <3>1, SizeNat DEF IInv, Ring, Avail
    <3>3. QED
      BY <1>2, <1>3, <3>1, <3>2, SizeNat DEF Ring
  <2>3. QED
    BY <2>1, <2>2
<1>10. Filled'
  <2> SUFFICES ASSUME NEW i \in 0 .. used' - 1
               PROVE  data'[(readpos + i) % Size] \in Byte
    BY <1>1 DEF Filled
  <2>1. data'[(readpos + i) % Size] =
          IF i < used THEN data[(readpos + i) % Size] ELSE todo[i - used + 1]
    BY CopyContents
  <2>2. CASE i < used
    <3>1. i \in 0 .. used - 1
      BY <1>3, <2>2
    <3>2. QED
      BY <2>1, <2>2, <3>1 DEF IInv, Filled
  <2>3. CASE ~(i < used)
    <3>1. i - used + 1 \in 1 .. Len(todo)
      BY <1>1, <1>2, <1>3, <2>3
    <3>2. todo[i - used + 1] \in Byte
      BY <1>3, <3>1, ElementOfSeq
    <3>3. QED
      BY <2>1, <2>3, <3>2
  <2>4. QED
    BY <2>2, <2>3
<1>11. QED
  BY <1>1, <1>4, <1>5, <1>7, <1>8, <1>9, <1>10 DEF IInv, TypeOK

\* writechannel() keeps it, however much write() takes.
LEMMA WriteIInv == IInv /\ Write => IInv'
<1> SUFFICES ASSUME IInv, Write
             PROVE  IInv'
  OBVIOUS
<1>1. /\ todo = <<>>
      /\ UNCHANGED <<data, writepos, todo>>
  BY DEF Write, Chunk, Advance
<1>2. PICK len \in 1 .. ReadLen :
         /\ out' = [i \in 1 .. len |-> data[readpos + i - 1]]
         /\ used' = used - len
         /\ readpos' = (readpos + len) % Size
  BY DEF Write, Chunk, Advance
<1>3. /\ len \in 1 .. used /\ readpos + len <= Size
      /\ readpos \in 0 .. Size - 1 /\ used \in 0 .. Size
  BY <1>2, Contiguous, SizeNat DEF IInv, TypeOK, Position, Avail
<1>4. /\ \A i \in 0 .. len - 1 : (readpos + i) % Size = readpos + i
      /\ \A i \in 0 .. used - len - 1 :
           (readpos' + i) % Size = (readpos + (len + i)) % Size
      /\ readpos' = IF readpos + len < Size THEN readpos + len ELSE 0
  BY <1>2, WritePositions DEF IInv
<1>5. \A i \in 0 .. used - 1 : data[(readpos + i) % Size] \in Byte
  BY DEF IInv, Filled
<1>6. out' \in Seq(Byte)
  <2>1. ASSUME NEW i \in 1 .. len
        PROVE  data[readpos + i - 1] \in Byte
    <3>1. i - 1 \in 0 .. len - 1 /\ i - 1 \in 0 .. used - 1
      BY <1>3
    <3>2. (readpos + (i - 1)) % Size = readpos + (i - 1)
      BY <1>4, <3>1
    <3>3. readpos + (i - 1) = readpos + i - 1
      BY <1>3
    <3>4. QED
      BY <1>5, <3>1, <3>2, <3>3
  <2>2. [i \in 1 .. len |-> data[readpos + i - 1]] \in [1 .. len -> Byte]
    BY <2>1
  <2>3. out' \in [1 .. len -> Byte]
    BY <1>2, <2>2
  <2>4. len \in Nat
    BY <1>3
  <2>5. QED
    BY <2>3, <2>4, SeqDef
<1>7. used' \in 0 .. Size /\ Len(todo') <= Avail'
  BY <1>1, <1>2, <1>3, SizeNat, EmptySeq DEF IInv, Avail
<1>8. readpos' \in Position
  BY <1>3, <1>4, SizeNat DEF Position
<1>9. Ring'
  <2>1. writepos \in 0 .. Size - 1
    BY DEF IInv, TypeOK, Position
  <2>2. CASE readpos + len < Size
    <3>1. readpos' = readpos + len /\ used' = used - len /\ writepos' = writepos
      BY <1>1, <1>2, <1>4, <2>2
    <3>2. QED
      BY <1>3, <2>1, <3>1, SizeNat DEF IInv, Ring
  <2>3. CASE ~(readpos + len < Size)
    <3>1. readpos' = 0 /\ used' = used - len /\ writepos' = writepos
      BY <1>1, <1>2, <1>4, <2>3
    <3>2. readpos + len = Size
      BY <1>3, <2>3, SizeNat
    <3>3. writepos = readpos + used - Size
      BY <1>3, <2>1, <3>2, SizeNat DEF IInv, Ring
    <3>4. QED
      BY <1>3, <2>1, <3>1, <3>2, <3>3, SizeNat DEF Ring
  <2>4. QED
    BY <2>2, <2>3
<1>10. Filled'
  <2> SUFFICES ASSUME NEW i \in 0 .. used' - 1
               PROVE  data[(readpos' + i) % Size] \in Byte
    BY <1>1 DEF Filled
  <2>1. i \in 0 .. used - len - 1 /\ len + i \in 0 .. used - 1
    BY <1>2, <1>3
  <2>2. QED
    BY <1>4, <1>5, <2>1
<1>11. QED
  BY <1>1, <1>6, <1>7, <1>8, <1>9, <1>10 DEF IInv, TypeOK

\* Every step keeps it.
LEMMA NextIInv == IInv /\ [Next]_vars => IInv'
<1>1. IInv /\ UNCHANGED vars => IInv'
  BY DEF IInv, TypeOK, Ring, Filled, Avail, vars, buffer
<1>2. QED
  BY <1>1, ReceiveIInv, CopyIInv, WriteIInv DEF Next

---------------------------------------------------------------------------
(* Safety *)

\* The inductive invariant holds of every state.
THEOREM Invariance == Spec => []IInv
BY InitIInv, NextIInv, PTL DEF Spec

\* Every variable of the ring buffer keeps its type; in particular readpos and
\* writepos stay within cbuf->data and write() is given no unwritten memory.
THEOREM TypeCorrect == Spec => []TypeOK
<1>1. IInv => TypeOK
  BY DEF IInv
<1>2. QED
  BY <1>1, Invariance, PTL

\* The assertions compare differences of the positions modulo the size.
LEMMA IInvAssertions == IInv => AssertionsHold
<1> SUFFICES ASSUME IInv
             PROVE  AssertionsHold
  OBVIOUS
<1>0. Len(todo) <= Size - used
  BY DEF IInv, Avail
<1>1. /\ used \in 0 .. Size /\ readpos \in 0 .. Size - 1
      /\ writepos \in 0 .. Size - 1
  BY DEF IInv, TypeOK, Position
<1>2. CASE writepos = readpos + used
  <2>1. /\ 2 * Size + writepos - readpos = used + 2 * Size
        /\ 2 * Size + readpos - writepos = (Size - used) + Size
    BY <1>1, <1>2, SizeNat
  <2>2. /\ (used + 2 * Size) % Size = used % Size
        /\ ((Size - used) + Size) % Size = (Size - used) % Size
    BY <1>1, SizeNat
  <2>3. QED
    BY <1>1, <2>1, <2>2, <1>0, SizeNat DEF IInv, AssertionsHold, Assertions
<1>3. CASE writepos = readpos + used - Size
  <2>1. /\ 2 * Size + writepos - readpos = used + Size
        /\ 2 * Size + readpos - writepos = (Size - used) + 2 * Size
    BY <1>1, <1>3, SizeNat
  <2>2. /\ (used + Size) % Size = used % Size
        /\ ((Size - used) + 2 * Size) % Size = (Size - used) % Size
    BY <1>1, SizeNat
  <2>3. QED
    BY <1>1, <2>1, <2>2, <1>0, SizeNat DEF IInv, AssertionsHold, Assertions
<1>4. QED
  BY <1>2, <1>3 DEF IInv, Ring

\* No dropbear_assert() of circbuffer.c fails, whatever its size, the sizes of
\* the packets and what write() takes.
THEOREM AssertionsAlwaysHold == Spec => []AssertionsHold
BY IInvAssertions, Invariance, PTL

\* The loop of common_recv_msg_channel_data() needs a second turn only from
\* the start of the memory, and never a third.
THEOREM TwoTurnsSuffice == Spec => TwoTurns
<1>1. ASSUME IInv, Copy, todo' # <<>>
      PROVE  writepos # 0 /\ writepos' = 0
  <2>1. /\ todo # <<>> /\ writepos' = (writepos + CopyLen) % Size
        /\ todo' = SubSeq(todo, CopyLen + 1, Len(todo))
    BY <1>1 DEF Copy, CopyLen, Advance
  <2>2. /\ used \in 0 .. Size /\ writepos \in 0 .. Size - 1
        /\ readpos \in 0 .. Size - 1
        /\ todo \in Seq(Byte) /\ Len(todo) \in Nat /\ Len(todo) <= Size - used
    BY <1>1, LenProperties DEF IInv, TypeOK, Position, Avail
  <2>3. CopyLen \in 1 .. WriteLen /\ CopyLen \in 1 .. Len(todo)
    BY <1>1, <2>1, CopyLenBounds
  <2>4. CopyLen # Len(todo)
    <3>1. SUFFICES ASSUME CopyLen = Len(todo) PROVE FALSE
      OBVIOUS
    <3>2. SubSeq(todo, CopyLen + 1, Len(todo)) = <<>>
      BY <2>2, <3>1, SubSeqEmpty
    <3>3. QED
      BY <1>1, <2>1, <3>2
  <2>5. CopyLen = WriteLen /\ WriteLen < Len(todo)
    BY <2>4 DEF CopyLen
  <2>6. ~(writepos < readpos)
    BY <1>1, <2>2, <2>5, SizeNat DEF IInv, Ring, WriteLen
  <2>7. WriteLen = Size - writepos
    BY <2>2, <2>3, <2>6, SizeNat DEF WriteLen
  <2>8. (writepos + CopyLen) % Size = 0
    <3>1. writepos + CopyLen = Size
      BY <2>2, <2>5, <2>7, SizeNat
    <3>2. Size % Size = 0
      BY SizeNat
    <3>3. QED
      BY <3>1, <3>2
  <2>9. writepos # 0
    BY <2>2, <2>5, <2>7, SizeNat
  <2>10. QED
    BY <2>1, <2>8, <2>9
<1>2. IInv /\ [Next]_vars =>
        [Copy /\ todo' # <<>> => writepos # 0 /\ writepos' = 0]_vars
  BY <1>1
<1>3. QED
  BY <1>2, Invariance, PTL DEF Spec, TwoTurns

---------------------------------------------------------------------------
(* The ring buffer implements a queue *)

\* The queue the buffer stands for, byte by byte
Bytewise ==
    /\ Contents \in Seq(Byte) /\ Len(Contents) = used
    /\ \A i \in 1 .. used : Contents[i] = data[(readpos + (i - 1)) % Size]
    /\ Contents \o todo \in Seq(Byte)
    /\ Len(Contents \o todo) = used + Len(todo)
    /\ \A i \in 1 .. used + Len(todo) : (Contents \o todo)[i] =
          IF i <= used THEN data[(readpos + (i - 1)) % Size]
                       ELSE todo[i - used]

\* The queue the buffer stands for, byte by byte.
LEMMA ContentsSeq == IInv => Bytewise
<1> SUFFICES ASSUME IInv
             PROVE  Bytewise
  OBVIOUS
<1>1. used \in Nat /\ todo \in Seq(Byte) /\ Len(todo) \in Nat
  BY SizeNat, LenProperties DEF IInv, TypeOK
<1>2. \A i \in 1 .. used : data[(readpos + (i - 1)) % Size] \in Byte
  <2> SUFFICES ASSUME NEW i \in 1 .. used
               PROVE  data[(readpos + (i - 1)) % Size] \in Byte
    OBVIOUS
  <2>1. i - 1 \in 0 .. used - 1
    BY <1>1
  <2>2. QED
    BY <2>1 DEF IInv, Filled
<1>3. Contents \in [1 .. used -> Byte]
  BY <1>2 DEF Contents
<1>4. Contents \in Seq(Byte) /\ Len(Contents) = used
  BY <1>1, <1>3, SeqDef, LenProperties
<1>5. \A i \in 1 .. used : Contents[i] = data[(readpos + (i - 1)) % Size]
  BY DEF Contents
<1>6. /\ Contents \o todo \in Seq(Byte)
      /\ Len(Contents \o todo) = used + Len(todo)
      /\ \A i \in 1 .. used + Len(todo) : (Contents \o todo)[i] =
            IF i <= used THEN Contents[i] ELSE todo[i - used]
  BY <1>1, <1>4, ConcatProperties
<1>7. ASSUME NEW i \in 1 .. used + Len(todo)
      PROVE  (Contents \o todo)[i] =
                IF i <= used THEN data[(readpos + (i - 1)) % Size]
                             ELSE todo[i - used]
  <2>1. i <= used => i \in 1 .. used
    BY <1>1
  <2>2. QED
    BY <1>5, <1>6, <2>1
<1>8. QED
  BY <1>4, <1>5, <1>6, <1>7 DEF Bytewise

\* A new buffer is an empty queue.
LEMMA InitImplements == Init => Queue!Init
<1> SUFFICES ASSUME Init
             PROVE  Contents \o todo = <<>> /\ out = <<>>
  BY DEF Queue!Init
<1>1. IInv /\ used = 0 /\ todo = <<>> /\ out = <<>>
  BY InitIInv DEF Init
<1>2. /\ Contents \o todo \in Seq(Byte)
      /\ Len(Contents \o todo) = used + Len(todo)
  BY <1>1, ContentsSeq DEF Bytewise
<1>3. Len(todo) = 0
  BY <1>1, EmptySeq
<1>4. Len(Contents \o todo) = 0
  BY <1>1, <1>2, <1>3
<1>5. QED
  BY <1>1, <1>2, <1>4, EmptySeq

\* A packet is put in the queue as a whole, when its copying starts.
LEMMA ReceiveImplements == IInv /\ Receive => Queue!Put
<1> SUFFICES ASSUME IInv, Receive
             PROVE  Queue!Put
  OBVIOUS
<1>1. todo = <<>> /\ out' = <<>> /\ Contents' = Contents
  BY DEF Receive, Contents, buffer
<1>2. PICK n \in 1 .. Avail : todo' \in [1 .. n -> Byte]
  BY DEF Receive
<1>3. Contents \in Seq(Byte) /\ Len(Contents) = used
  BY ContentsSeq DEF Bytewise
<1>4. Contents \o todo = Contents
  BY <1>1, <1>3, ConcatEmptySeq
<1>5. n \in 1 .. Size - Len(Contents \o todo)
  BY <1>2, <1>3, <1>4 DEF Avail
<1>6. (Contents \o todo)' = (Contents \o todo) \o todo'
  BY <1>1, <1>4
<1>7. QED
  BY <1>1, <1>2, <1>5, <1>6 DEF Queue!Put

\* Copying it moves bytes within the queue's implementation, no more.
LEMMA CopyImplements ==
    IInv /\ Copy => UNCHANGED <<Contents \o todo, out>>
<1> SUFFICES ASSUME IInv, Copy
             PROVE  (Contents \o todo)' = Contents \o todo /\ out' = out
  OBVIOUS
<1>1. /\ todo # <<>> /\ out' = out /\ readpos' = readpos
      /\ used' = used + CopyLen
      /\ todo' = SubSeq(todo, CopyLen + 1, Len(todo))
  BY DEF Copy, CopyLen, Advance
<1>2. IInv'
  BY CopyIInv
<1>3. /\ used \in Nat /\ todo \in Seq(Byte) /\ Len(todo) \in Nat
      /\ CopyLen \in 1 .. Len(todo)
  BY <1>1, CopyLenBounds, LenProperties, SizeNat DEF IInv, TypeOK
<1>4. /\ Len(todo') = Len(todo) - CopyLen
      /\ \A i \in 1 .. Len(todo) - CopyLen : todo'[i] = todo[CopyLen + i]
  BY <1>1, <1>3
<1> DEFINE n == used + Len(todo)
<1>5. /\ Contents \o todo \in Seq(Byte) /\ Len(Contents \o todo) = n
      /\ \A i \in 1 .. n : (Contents \o todo)[i] =
            IF i <= used THEN data[(readpos + (i - 1)) % Size]
                         ELSE todo[i - used]
  BY ContentsSeq DEF Bytewise
<1>5a. Bytewise'
  BY <1>2, ContentsSeq, PTL
<1>6. /\ (Contents \o todo)' \in Seq(Byte)
      /\ Len((Contents \o todo)') = used' + Len(todo')
      /\ \A i \in 1 .. used' + Len(todo') : (Contents \o todo)'[i] =
            IF i <= used' THEN data'[(readpos' + (i - 1)) % Size]
                          ELSE todo'[i - used']
  BY <1>5a DEF Bytewise
<1>7. used' + Len(todo') = n
  <2>1. used' = used + CopyLen /\ Len(todo') = Len(todo) - CopyLen
    BY <1>1, <1>4
  <2>2. QED
    BY <1>3, <2>1
<1>8. ASSUME NEW i \in 1 .. n
      PROVE  (Contents \o todo)'[i] = (Contents \o todo)[i]
  <2>1. CASE i <= used'
    <3>1. i - 1 \in 0 .. used' - 1 /\ (i - 1 < used <=> i <= used)
          /\ (i - 1) - used + 1 = i - used
      BY <1>1, <1>3, <2>1
    <3>2. (Contents \o todo)'[i] = data'[(readpos + (i - 1)) % Size]
      BY <1>1, <1>6, <1>7, <2>1
    <3>3. data'[(readpos + (i - 1)) % Size] =
            IF i - 1 < used THEN data[(readpos + (i - 1)) % Size]
                            ELSE todo[(i - 1) - used + 1]
      BY <3>1, CopyContents
    <3>4. QED
      BY <1>5, <3>1, <3>2, <3>3
  <2>2. CASE ~(i <= used')
    <3>1. /\ i - used' \in 1 .. Len(todo) - CopyLen
          /\ CopyLen + (i - used') = i - used /\ ~(i <= used)
      BY <1>1, <1>3, <2>2
    <3>2. (Contents \o todo)'[i] = todo'[i - used']
      BY <1>6, <1>7, <2>2
    <3>3. todo'[i - used'] = todo[i - used]
      BY <1>4, <3>1
    <3>4. QED
      BY <1>5, <3>1, <3>2, <3>3
  <2>3. QED
    BY <2>1, <2>2
<1>9. QED
  BY <1>1, <1>5, <1>6, <1>7, <1>8, SeqEqual

\* write() takes the first bytes of the queue.
LEMMA WriteImplements == IInv /\ Write => Queue!Get
<1> SUFFICES ASSUME IInv, Write
             PROVE  Queue!Get
  OBVIOUS
<1>1. todo = <<>> /\ todo' = <<>> /\ data' = data
  BY DEF Write, Chunk, Advance
<1>2. PICK len \in 1 .. ReadLen :
         /\ out' = [i \in 1 .. len |-> data[readpos + i - 1]]
         /\ used' = used - len
         /\ readpos' = (readpos + len) % Size
  BY DEF Write, Chunk, Advance
<1>3. /\ len \in 1 .. used /\ readpos \in 0 .. Size - 1 /\ used \in 0 .. Size
  BY <1>2, Contiguous, SizeNat DEF IInv, TypeOK, Position, Avail
<1>4. /\ \A i \in 0 .. len - 1 : (readpos + i) % Size = readpos + i
      /\ \A i \in 0 .. used - len - 1 :
           (readpos' + i) % Size = (readpos + (len + i)) % Size
  BY <1>2, WritePositions DEF IInv
<1>5. Bytewise /\ Bytewise'
  <2>1. IInv'
    BY WriteIInv
  <2>2. QED
    BY <2>1, ContentsSeq, PTL
<1>6. Contents \o todo = Contents /\ (Contents \o todo)' = Contents'
  BY <1>1, <1>5, ConcatEmptySeq DEF Bytewise
<1>7. /\ Contents \in Seq(Byte) /\ Len(Contents) = used
      /\ \A i \in 1 .. used : Contents[i] = data[(readpos + (i - 1)) % Size]
  BY <1>5 DEF Bytewise
<1>8. /\ Contents' \in Seq(Byte) /\ Len(Contents') = used - len
      /\ \A i \in 1 .. used - len :
           Contents'[i] = data[(readpos' + (i - 1)) % Size]
  BY <1>1, <1>2, <1>5 DEF Bytewise
<1>9. out' = SubSeq(Contents, 1, len)
  <2>1. /\ SubSeq(Contents, 1, len) \in Seq(Byte)
        /\ Len(SubSeq(Contents, 1, len)) = len
        /\ \A i \in 1 .. len : SubSeq(Contents, 1, len)[i] = Contents[i]
    BY <1>3, <1>7
  <2>2. ASSUME NEW i \in 1 .. len
        PROVE  Contents[i] = data[readpos + i - 1]
    <3>1. i - 1 \in 0 .. len - 1 /\ i \in 1 .. used
          /\ readpos + (i - 1) = readpos + i - 1
      BY <1>3
    <3>2. (readpos + (i - 1)) % Size = readpos + (i - 1)
      BY <1>4, <3>1
    <3>3. QED
      BY <1>7, <3>1, <3>2
  <2>3. out' \in Seq(Byte) /\ Len(out') = len
    <3>1. out' \in Seq(Byte)
      BY WriteIInv DEF IInv, TypeOK
    <3>2. len \in Nat
      BY <1>3
    <3>3. DOMAIN out' = 1 .. len
      BY <1>2
    <3>4. QED
      BY <3>1, <3>2, <3>3
  <2>4. \A i \in 1 .. len : out'[i] = SubSeq(Contents, 1, len)[i]
    BY <1>2, <2>1, <2>2
  <2>5. QED
    BY <2>1, <2>3, <2>4, SeqEqual
<1>10. Contents' = SubSeq(Contents, len + 1, Len(Contents))
  <2> DEFINE rest == SubSeq(Contents, len + 1, used)
  <2>1. /\ rest \in Seq(Byte) /\ Len(rest) = used - len
        /\ \A i \in 1 .. used - len : rest[i] = Contents[len + i]
    BY <1>3, <1>7
  <2>2. ASSUME NEW i \in 1 .. used - len
        PROVE  Contents'[i] = rest[i]
    <3>1. /\ i - 1 \in 0 .. used - len - 1 /\ len + i \in 1 .. used
          /\ len + (i - 1) = (len + i) - 1
      BY <1>3
    <3>2. (readpos' + (i - 1)) % Size = (readpos + ((len + i) - 1)) % Size
      BY <1>4, <3>1
    <3>3. Contents'[i] = data[(readpos + ((len + i) - 1)) % Size]
      BY <1>8, <3>2
    <3>4. QED
      BY <1>7, <2>1, <3>1, <3>3
  <2>3. Contents' = rest
    BY <1>8, <2>1, <2>2, SeqEqual
  <2>4. QED
    BY <1>7, <2>3
<1>11. QED
  BY <1>3, <1>6, <1>7, <1>9, <1>10 DEF Queue!Get

\* The ring buffer of circbuffer.c implements a bounded first-in first-out
\* queue of bytes, whatever its size.
THEOREM ImplementsQueue == Spec => IsQueue
<1>1. IInv /\ [Next]_vars => [Queue!Next]_<<Contents \o todo, out>>
  <2>1. IInv /\ Receive => Queue!Next
    BY ReceiveImplements DEF Queue!Next
  <2>2. IInv /\ Copy => UNCHANGED <<Contents \o todo, out>>
    BY CopyImplements
  <2>3. IInv /\ Write => Queue!Next
    BY WriteImplements DEF Queue!Next
  <2>4. UNCHANGED vars => UNCHANGED <<Contents \o todo, out>>
    BY DEF vars, buffer, Contents
  <2>5. QED
    BY <2>1, <2>2, <2>3, <2>4 DEF Next
<1>2. QED
  BY <1>1, InitImplements, Invariance, PTL DEF Spec, IsQueue, Queue!Spec

=============================================================================
