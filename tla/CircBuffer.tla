----------------------------- MODULE CircBuffer -----------------------------
(***************************************************************************)
(* The ring buffer of circbuffer.c, driven as common-channel.c drives it:  *)
(* common_recv_msg_channel_data() copies the payload of a packet into it,  *)
(* a contiguous part at a time, and writechannel() hands the contiguous    *)
(* part at readpos to write(), which takes some of it.                     *)
(***************************************************************************)
EXTENDS Integers, Sequences

CONSTANTS
    Size,     \* cbuf->size, opts.recv_window
    Byte,     \* the values a byte takes
    NoByte    \* what the memory holds before it is written

MAX_CBUF_SIZE == 100000000

ASSUME SizeAssumption == Size \in Nat \ {0} /\ Size <= MAX_CBUF_SIZE

Position == 0 .. Size - 1

VARIABLES
    data, used, readpos, writepos,  \* circbuffer
    todo,  \* the bytes of a payload that are not copied yet
    out    \* the bytes the last write() took

buffer == <<data, used, readpos, writepos>>
vars   == <<buffer, todo, out>>

\* cbuf_new()
Init ==
    /\ data = [p \in Position |-> NoByte]
    /\ used = 0 /\ readpos = 0 /\ writepos = 0
    /\ todo = <<>> /\ out = <<>>

\* cbuf_getavail()
\* Mutant: off by one.  (Mutants are no part of the model: each is a bug the
\* properties are tested against.)
AvailOffByOne == Size - used + 1
Avail == Size - used

\* cbuf_readlen(): the bytes that can be read without wrapping around
ReadLen ==
    IF used = 0 THEN 0
    ELSE IF readpos < writepos THEN writepos - readpos
    ELSE Size - readpos

\* cbuf_writelen(): the bytes that can be written without wrapping around
\* Mutant: the last position is never used.
WriteLenShort ==
    IF used = Size THEN 0
    ELSE IF writepos < readpos THEN readpos - writepos
    ELSE Size - writepos - 1
WriteLen ==
    IF used = Size THEN 0
    ELSE IF writepos < readpos THEN readpos - writepos
    ELSE Size - writepos

\* The assertions of cbuf_readlen() and cbuf_writelen(), which every reader
\* and writer of the buffer calls first
Assertions ==
    /\ used <= Size
    /\ (2 * Size + writepos - readpos) % Size = used % Size
    /\ (2 * Size + readpos - writepos) % Size = (Size - used) % Size

\* cbuf_incrwrite() and cbuf_incrread() move a position
\* Mutant: without wrapping around.
AdvanceStraight(pos, len) == pos + len
Advance(pos, len) == (pos + len) % Size

\* The len bytes at cbuf_readptr()
\* Mutant: from the start of the memory.
ChunkFromStart(len) == [i \in 1 .. len |-> data[i - 1]]
Chunk(len) == [i \in 1 .. len |-> data[readpos + i - 1]]

\* common_recv_msg_channel_data() with a packet that fits (one that does not
\* is fatal to the session)
Receive ==
    /\ todo = <<>>
    /\ \E n \in 1 .. Avail : todo' \in [1 .. n -> Byte]
    /\ out' = <<>>
    /\ UNCHANGED buffer

\* One turn of its loop: cbuf_writeptr(), memcpy(), cbuf_incrwrite()
Copy ==
    /\ todo # <<>>
    /\ LET len == IF WriteLen < Len(todo) THEN WriteLen ELSE Len(todo)
       IN  /\ data' = [p \in Position |->
                         IF p \in writepos .. writepos + len - 1
                         THEN todo[p - writepos + 1] ELSE data[p]]
           /\ used' = used + len
           /\ writepos' = Advance(writepos, len)
           /\ todo' = SubSeq(todo, len + 1, Len(todo))
    /\ UNCHANGED <<readpos, out>>

\* writechannel(): write() takes len of the ReadLen bytes at cbuf_readptr(),
\* then cbuf_incrread()
Write ==
    /\ todo = <<>>
    /\ \E len \in 1 .. ReadLen :
         /\ out' = Chunk(len)
         /\ used' = used - len
         /\ readpos' = Advance(readpos, len)
    /\ UNCHANGED <<data, writepos, todo>>

Next == Receive \/ Copy \/ Write

Spec == Init /\ [][Next]_vars

---------------------------------------------------------------------------
(* Properties *)

TypeOK ==
    /\ data \in [Position -> Byte \cup {NoByte}]
    /\ used \in 0 .. Size
    /\ readpos \in Position
    /\ writepos \in Position
    /\ todo \in Seq(Byte)
    /\ out \in Seq(Byte)

\* No assertion of circbuffer.c fails, and the payload being copied fits.
AssertionsHold == Assertions /\ Len(todo) <= Size - used

\* The loop of common_recv_msg_channel_data() "may have to run through twice,
\* if the buffer wraps around": what its first turn leaves starts at position
\* 0, and no third turn is needed.
TwoTurns == [][Copy /\ todo' # <<>> => writepos # 0 /\ writepos' = 0]_vars

\* The bytes in the buffer, in order, and those on their way into it
Contents == [i \in 1 .. used |-> data[(readpos + (i - 1)) % Size]]
Queue == INSTANCE ByteQueue WITH queue <- Contents \o todo

\* The buffer is a first-in first-out queue: what write() is given is what
\* came in the packets, in order, without loss, repetition or stale memory,
\* wherever the positions wrap around.
IsQueue == Queue!Spec

=============================================================================
