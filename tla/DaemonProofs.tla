---------------------------- MODULE DaemonProofs ----------------------------
(***************************************************************************)
(* The daemon's limits hold for any number of connections, addresses,      *)
(* listening sockets and slots.  The argument: every child that may still  *)
(* be unauthenticated has a slot of its own, except the one that has been  *)
(* forked and not yet recorded, for which a free slot and room under both  *)
(* limits were found before the fork; and nothing but a fork adds one.     *)
(***************************************************************************)
EXTENDS DaemonProperties, FiniteSetTheorems, FunctionTheorems,
        SequenceTheorems, TLAPS

Served == {"pre", "authed", "gone"}

\* A connection in a backlog is there once, and nobody has it yet.
BacklogSound ==
    /\ \A l \in Listener : \A j \in DOMAIN backlog[l] :
         status[backlog[l][j]] = "backlog"
    /\ \A l, m \in Listener :
         \A j \in DOMAIN backlog[l], k \in DOMAIN backlog[m] :
           backlog[l][j] = backlog[m][k] => l = m /\ j = k

\* The connection the parent has accepted and not yet recorded.
InHand ==
    pc \in {"fork", "record"} =>
      /\ accepted.conn \in Conn
      /\ accepted.idx \notin Used
      /\ pc = "fork" => status[accepted.conn] = "held"
      /\ pc = "record" => /\ status[accepted.conn] \in Served
                          /\ \A s \in Used : childpipes[s] # accepted.conn
      /\ Cardinality(UsedBy(from[accepted.conn])) < MAX_UNAUTH_PER_IP

\* Slots stay under the limit of each address.
WithinLimits == \A a \in Addr : Cardinality(UsedBy(a)) <= MAX_UNAUTH_PER_IP

\* While the parent goes through the sockets it is at one of them.
AtListener == pc \in {"accept", "fork", "record"} => i \in Listener

\* What select() has found is still so: the pipes until they are closed, the
\* sockets until their turn.
StillReady ==
    /\ pc = "close" => fds.slots \subseteq Readable.slots
    /\ \A l \in fds.listeners :
         \/ pc = "close"
         \/ pc = "accept" /\ l >= i
         \/ pc \in {"fork", "record"} /\ l > i
         => backlog[l] # <<>>

\* Slots of children that were done when select() returned are free, or will
\* be when they are closed.
Counted ==
    /\ IsFiniteSet(unauth)
    /\ pc = "close" => \A s \in Used \ fds.slots : childpipes[s] \in unauth
    /\ pc \in {"accept", "fork", "record"} =>
         \A s \in Used : childpipes[s] \in unauth
    /\ pc = "record" => accepted.conn \in unauth

IInv == /\ TypeOK /\ BacklogSound /\ SlotsExact /\ InHand /\ WithinLimits
        /\ AtListener /\ StillReady /\ Counted

USE DaemonAssumption

---------------------------------------------------------------------------
(* Counting slots *)

\* The slots in use, and those of one address, are finitely many; all of them
\* are at most MAX_UNAUTH_CLIENTS.
LEMMA UsedFinite ==
    /\ IsFiniteSet(Used) /\ Cardinality(Used) \in Nat
    /\ IsFiniteSet(Slot) /\ Cardinality(Slot) = MAX_UNAUTH_CLIENTS
    /\ \A a : /\ IsFiniteSet(UsedBy(a)) /\ Cardinality(UsedBy(a)) \in Nat
<1>1. IsFiniteSet(Slot) /\ Cardinality(Slot) = MAX_UNAUTH_CLIENTS
  BY FS_Interval DEF Slot
<1>2. Used \in SUBSET Slot /\ \A a : UsedBy(a) \in SUBSET Used
  BY DEF Used, UsedBy
<1>3. IsFiniteSet(Used)
  BY <1>1, <1>2, FS_Subset
<1>4. \A a : IsFiniteSet(UsedBy(a))
  BY <1>2, <1>3, FS_Subset
<1>5. QED
  BY <1>1, <1>3, <1>4, FS_CardinalityType

\* A set of connections that each have a slot in S, a finite set of slots.
LEMMA Covered ==
    ASSUME NEW S, IsFiniteSet(S), NEW C, NEW f,
           \A c \in C : \E s \in S : f[s] = c
    PROVE  IsFiniteSet(C) /\ Cardinality(C) <= Cardinality(S)
<1> DEFINE R == {s \in S : f[s] \in C}
           g == [s \in R |-> f[s]]
<1>1. IsFiniteSet(R) /\ Cardinality(R) <= Cardinality(S)
  <2>1. R \in SUBSET S
    OBVIOUS
  <2>2. QED
    BY <2>1, FS_Subset
<1>2. g \in Surjection(R, C)
  <2>1. g \in [R -> C]
    OBVIOUS
  <2>2. \A c \in C : \E s \in R : g[s] = c
    OBVIOUS
  <2>3. QED
    BY <2>1, <2>2 DEF Surjection
<1>3. IsFiniteSet(C) /\ Cardinality(C) <= Cardinality(R)
  BY <1>1, <1>2, FS_Surjection
<1>4. Cardinality(C) \in Nat /\ Cardinality(R) \in Nat /\ Cardinality(S) \in Nat
  BY <1>1, <1>3, FS_CardinalityType
<1>5. QED
  BY <1>1, <1>3, <1>4

\* Slots that stand for different connections of a finite set C.
LEMMA Spread ==
    ASSUME NEW S, NEW C, IsFiniteSet(C), NEW f,
           \A s \in S : f[s] \in C,
           \A s, t \in S : f[s] = f[t] => s = t
    PROVE  Cardinality(S) <= Cardinality(C)
<1> DEFINE g == [s \in S |-> f[s]]
<1>1. g \in Injection(S, C)
  BY DEF Injection, IsInjective
<1>2. QED
  BY <1>1, FS_Injection

\* A slot that is freed or kept does not bring an address over its limit.
LEMMA FewerSlots ==
    ASSUME NEW S, NEW T, IsFiniteSet(S), T \subseteq S, NEW n \in Nat,
           Cardinality(S) <= n
    PROVE  Cardinality(T) <= n
<1>1. IsFiniteSet(T) /\ Cardinality(T) <= Cardinality(S)
  BY FS_Subset
<1>2. Cardinality(T) \in Nat /\ Cardinality(S) \in Nat
  BY <1>1, FS_CardinalityType
<1>3. QED
  BY <1>1, <1>2
---------------------------------------------------------------------------
(* Types *)

\* The parent passes a listening socket by, also when accept() fails and
\* leaves the connection where it is.
Skips == \/ SkipListener
         \/ AcceptFails /\ UNCHANGED <<status, backlog>>

\* A connection leaves its backlog.
Takes == \/ Accept
         \/ AcceptFails /\ ~UNCHANGED <<status, backlog>>

\* accept() finds a connection, of which the parent takes the first.
LEMMA AcceptHead ==
    ASSUME TypeOK, StillReady, Takes
    PROVE  /\ i \in Listener
           /\ backlog[i] \in Seq(Conn) /\ backlog[i] # <<>>
           /\ Head(backlog[i]) \in Conn /\ Tail(backlog[i]) \in Seq(Conn)
<1>1. i \in Listener /\ backlog[i] # <<>>
  BY DEF Takes, Accept, AcceptFails, StillReady, TypeOK, Listener
<1>2. backlog[i] \in Seq(Conn)
  BY <1>1 DEF TypeOK
<1>3. QED
  BY <1>1, <1>2, HeadTailProperties

\* What accept() does with it.
AcceptDone(c) ==
    \/ /\ OverLimit(from[c])
       /\ status' = [status EXCEPT ![c] = "refused"]
       /\ NextListener /\ UNCHANGED accepted
    \/ /\ status' = [status EXCEPT ![c] = "failed"]
       /\ NextListener \/ (pc' = "exited" /\ UNCHANGED i)
       /\ UNCHANGED accepted
    \/ /\ ~OverLimit(from[c])
       /\ status' = [status EXCEPT ![c] = "held"]
       /\ \E s \in LastFree : accepted' = [conn |-> c, idx |-> s]
       /\ pc' = "fork" /\ UNCHANGED i

LEMMA AcceptCases ==
    ASSUME TypeOK, StillReady, Takes
    PROVE  /\ AcceptDone(Head(backlog[i]))
           /\ backlog' = [backlog EXCEPT ![i] = Tail(@)]
BY DEF Takes, Accept, AcceptFails, AcceptDone

\* The parent goes on to another listening socket, or to select().
LEMMA NextType ==
    ASSUME i \in Listener, NextListener
    PROVE  /\ i' \in 2 .. Listeners + 1 /\ i' > i
           /\ pc' \in {"enter", "accept"}
           /\ pc' = "accept" => i' \in Listener
BY DEF NextListener, Listener

LEMMA AcceptType ==
    ASSUME NEW c \in Conn, i \in Listener, AcceptDone(c),
           status \in [Conn -> Status],
           accepted \in [conn : Conn \cup {NoPipe}, idx : Slot]
    PROVE  /\ status' \in [Conn -> Status]
           /\ accepted' \in [conn : Conn \cup {NoPipe}, idx : Slot]
           /\ i' \in 1 .. Listeners + 1
           /\ pc' \in {"enter", "accept", "fork", "exited"}
<1>1. CASE /\ NextListener /\ UNCHANGED accepted
           /\ \E x \in {"refused", "failed"} :
                status' = [status EXCEPT ![c] = x]
  BY <1>1, NextType DEF Status
<1>2. CASE /\ status' = [status EXCEPT ![c] = "failed"]
           /\ pc' = "exited" /\ UNCHANGED <<i, accepted>>
  BY <1>2 DEF Status, Listener
<1>3. ASSUME NEW s \in LastFree, accepted' = [conn |-> c, idx |-> s],
             pc' = "fork", UNCHANGED i, status' = [status EXCEPT ![c] = "held"]
      PROVE  /\ status' \in [Conn -> Status]
             /\ accepted' \in [conn : Conn \cup {NoPipe}, idx : Slot]
             /\ i' \in 1 .. Listeners + 1 /\ pc' = "fork"
  BY <1>3 DEF LastFree, Status, Listener
<1>4. QED
  BY <1>1, <1>2, <1>3 DEF AcceptDone

\* Every step keeps the types.
LEMMA TypeStep ==
    ASSUME TypeOK, AtListener, StillReady, InHand, [Next]_vars
    PROVE  TypeOK'
<1> USE DEF TypeOK, Status, Slot, Listener
<1>1. ASSUME NEW c \in Conn, NEW a \in Addr, NEW l \in Listener,
             Connect(c, a, l)
      PROVE  TypeOK'
  <2>1. backlog[l] \in Seq(Conn)
    OBVIOUS
  <2>2. Append(backlog[l], c) \in Seq(Conn)
    BY <2>1, AppendProperties
  <2>3. QED
    BY <1>1, <2>2 DEF Connect, parent
<1>2. ASSUME NEW c \in Conn, Authenticate(c) PROVE TypeOK'
  BY <1>2 DEF Authenticate, parent
<1>3. ASSUME NEW c \in Conn, ChildExit(c) PROVE TypeOK'
  BY <1>3 DEF ChildExit, parent
<1>4. CASE Terminate
  BY <1>4 DEF Terminate, parent
<1>5. CASE EnterSelect
  BY <1>5 DEF EnterSelect
<1>6. CASE Interrupted
  BY <1>6 DEF Interrupted
<1>7. CASE SelectReturns
  <2>1. Readable \in [listeners : SUBSET Listener, slots : SUBSET Slot]
    BY DEF Readable, Used
  <2>2. QED
    BY <1>7, <2>1 DEF SelectReturns
<1>8. CASE CloseFds
  BY <1>8 DEF CloseFds
<1>9. CASE Skips
  <2>1. i \in Listener /\ NextListener
    BY <1>9 DEF Skips, SkipListener, AcceptFails, AtListener
  <2>2. i' \in 1 .. Listeners + 1 /\ pc' \in {"enter", "accept"}
    BY <2>1, NextType
  <2>3. UNCHANGED <<from, childpipes, preauth_addrs, fds, accepted, lost,
                    exitflag, interrupted, unauth>>
    BY <1>9 DEF Skips, SkipListener, AcceptFails
  <2>4. status' \in [Conn -> Status]
    BY <1>9 DEF Skips, SkipListener, AcceptFails
  <2>5. backlog' \in [Listener -> Seq(Conn)]
    <3>1. CASE backlog' = backlog
      BY <3>1
    <3>2. CASE /\ backlog[i] # <<>>
               /\ backlog' = [backlog EXCEPT ![i] = Tail(backlog[i])]
      BY <2>1, <3>2, HeadTailProperties
    <3>3. QED
      BY <1>9, <3>1, <3>2 DEF Skips, SkipListener, AcceptFails, StillReady
  <2>6. QED
    BY <2>2, <2>3, <2>4, <2>5
<1>10. CASE Takes
  <2>1. AcceptDone(Head(backlog[i]))
    BY <1>10, AcceptCases
  <2>2. /\ status' \in [Conn -> Status]
        /\ accepted' \in [conn : Conn \cup {NoPipe}, idx : Slot]
        /\ i' \in 1 .. Listeners + 1
        /\ pc' \in {"enter", "accept", "fork", "exited"}
    BY <1>10, <2>1, AcceptHead, AcceptType
  <2>3. backlog' \in [Listener -> Seq(Conn)]
    BY <1>10, AcceptCases, AcceptHead
  <2>4. QED
    BY <1>10, <2>2, <2>3 DEF Takes, Accept, AcceptFails
<1>11. CASE Fork
  BY <1>11 DEF Fork
<1>12. CASE ForkFails
  <2>1. accepted.conn \in Conn /\ i \in Listener
    BY <1>12 DEF ForkFails, InHand, AtListener
  <2>2. i' \in 1 .. Listeners + 1 /\ pc' \in {"enter", "accept"}
    BY <1>12, <2>1, NextType DEF ForkFails
  <2>3. QED
    BY <1>12, <2>1, <2>2 DEF ForkFails
<1>13. CASE Record
  <2>1. accepted.conn \in Conn /\ i \in Listener
    BY <1>13 DEF Record, InHand, AtListener
  <2>2. i' \in 1 .. Listeners + 1 /\ pc' \in {"enter", "accept"}
    BY <1>13, <2>1, NextType DEF Record
  <2>3. QED
    BY <1>13, <2>1, <2>2 DEF Record
<1>14. CASE UNCHANGED vars
  BY <1>14 DEF vars, parent
<1>15. QED
  BY <1>1, <1>2, <1>3, <1>4, <1>5, <1>6, <1>7, <1>8, <1>9, <1>10, <1>11, <1>12,
     <1>13, <1>14 DEF Next, ParentStep, Skips, Takes, Environment
---------------------------------------------------------------------------
(* Backlogs and listening sockets *)

\* A connection is put in one backlog when it is made and taken out when it
\* is accepted; until then nothing happens to it.
LEMMA BacklogStep ==
    ASSUME TypeOK, InHand, StillReady, BacklogSound, [Next]_vars
    PROVE  BacklogSound'
<1>1. ASSUME NEW c \in Conn, NEW a \in Addr, NEW l \in Listener,
             Connect(c, a, l)
      PROVE  BacklogSound'
  <2>1. /\ status[c] = "none"
        /\ status' = [status EXCEPT ![c] = "backlog"]
        /\ backlog' = [backlog EXCEPT ![l] = Append(@, c)]
    BY <1>1 DEF Connect
  <2>2. \A m \in Listener : backlog[m] \in Seq(Conn)
    BY DEF TypeOK
  <2>3. \A m \in Listener : \A j \in DOMAIN backlog[m] :
          backlog[m][j] \in Conn /\ backlog[m][j] # c
    BY <2>1, <2>2 DEF BacklogSound
  <2>4. \A m \in Listener : \A j \in DOMAIN backlog'[m] :
          \/ j \in DOMAIN backlog[m] /\ backlog'[m][j] = backlog[m][j]
          \/ m = l /\ j = Len(backlog[l]) + 1 /\ backlog'[m][j] = c
    BY <2>1, <2>2 DEF TypeOK
  <2>5. status \in [Conn -> Status]
    BY DEF TypeOK
  <2>6. QED
    BY <2>1, <2>3, <2>4, <2>5 DEF BacklogSound
<1>2. CASE Takes
  <2> DEFINE c == Head(backlog[i])
  <2>1. /\ i \in Listener /\ c \in Conn
        /\ backlog' = [backlog EXCEPT ![i] = Tail(@)]
        /\ backlog[i] \in Seq(Conn) /\ backlog[i] # <<>>
    BY <1>2, AcceptHead, AcceptCases
  <2>2. \A m \in Listener : backlog[m] \in Seq(Conn)
    BY DEF TypeOK
  <2>3. \A x \in Conn \ {c} : status'[x] = status[x]
    <3>1. AcceptDone(c)
      BY <1>2, AcceptCases
    <3>2. \E x \in Status : status' = [status EXCEPT ![c] = x]
      BY <3>1 DEF AcceptDone, Status
    <3>3. QED
      BY <2>1, <3>2 DEF TypeOK
  <2>4. DOMAIN backlog' = Listener
    BY <2>1 DEF TypeOK
  <2>5. \A j \in DOMAIN backlog'[i] :
          /\ j \in Nat /\ j + 1 \in DOMAIN backlog[i]
          /\ backlog'[i][j] = backlog[i][j + 1]
    BY <2>1, <2>2 DEF TypeOK
  <2>6. \A m \in Listener \ {i} : backlog'[m] = backlog[m]
    BY <2>1 DEF TypeOK
  <2>7. 1 \in DOMAIN backlog[i] /\ backlog[i][1] = c
    BY <2>1
  <2>8. \A m \in Listener : \A j \in DOMAIN backlog'[m] :
          backlog'[m][j] \in Conn \ {c} /\ status[backlog'[m][j]] = "backlog"
    <3>1. SUFFICES ASSUME NEW m \in Listener, NEW j \in DOMAIN backlog'[m]
                   PROVE  /\ backlog'[m][j] \in Conn \ {c}
                          /\ status[backlog'[m][j]] = "backlog"
      OBVIOUS
    <3>2. CASE m = i
      <4>1. j + 1 \in DOMAIN backlog[i] /\ backlog'[m][j] = backlog[i][j + 1]
            /\ j + 1 # 1
        BY <2>5, <3>2, <2>1
      <4>2. QED
        BY <4>1, <2>1, <2>7 DEF BacklogSound
    <3>3. CASE m # i
      <4>1. j \in DOMAIN backlog[m] /\ backlog'[m][j] = backlog[m][j]
        BY <2>6, <3>3
      <4>2. QED
        BY <4>1, <2>1, <2>2, <2>7, <3>3 DEF BacklogSound
    <3>4. QED
      BY <3>2, <3>3
  <2>9. \A l, m \in Listener :
          \A j \in DOMAIN backlog'[l], k \in DOMAIN backlog'[m] :
            backlog'[l][j] = backlog'[m][k] => l = m /\ j = k
    <3>1. SUFFICES ASSUME NEW l \in Listener, NEW m \in Listener,
                          NEW j \in DOMAIN backlog'[l],
                          NEW k \in DOMAIN backlog'[m],
                          backlog'[l][j] = backlog'[m][k]
                   PROVE  l = m /\ j = k
      OBVIOUS
    <3>2. CASE l = i /\ m = i
      BY <2>1, <2>5, <3>1, <3>2 DEF BacklogSound
    <3>3. CASE l = i /\ m # i
      BY <2>1, <2>5, <2>6, <3>1, <3>3 DEF BacklogSound
    <3>4. CASE l # i /\ m = i
      BY <2>1, <2>5, <2>6, <3>1, <3>4 DEF BacklogSound
    <3>5. CASE l # i /\ m # i
      BY <2>6, <3>1, <3>5 DEF BacklogSound
    <3>6. QED
      BY <3>2, <3>3, <3>4, <3>5
  <2>10. QED
    BY <2>3, <2>8, <2>9 DEF BacklogSound
<1>3. ASSUME backlog' = backlog,
             \A x \in Conn : status[x] = "backlog" => status'[x] = "backlog"
      PROVE  BacklogSound'
  <2>1. \A l \in Listener : \A j \in DOMAIN backlog[l] : backlog[l][j] \in Conn
    BY DEF TypeOK
  <2>2. \A l \in Listener : \A j \in DOMAIN backlog[l] :
          status'[backlog[l][j]] = "backlog"
    BY <1>3, <2>1 DEF BacklogSound
  <2>3. \A l \in Listener : \A j \in DOMAIN backlog'[l] :
          status'[backlog'[l][j]] = "backlog"
    BY <1>3, <2>2
  <2>4. \A l, m \in Listener :
          \A j \in DOMAIN backlog'[l], k \in DOMAIN backlog'[m] :
            backlog'[l][j] = backlog'[m][k] => l = m /\ j = k
    BY <1>3 DEF BacklogSound
  <2>5. QED
    BY <2>3, <2>4 DEF BacklogSound
<1>4. ASSUME NEW c \in Conn, Authenticate(c) \/ ChildExit(c)
      PROVE  BacklogSound'
  BY <1>3, <1>4 DEF Authenticate, ChildExit, TypeOK
<1>5. CASE Terminate \/ EnterSelect \/ Interrupted \/ SelectReturns
           \/ CloseFds \/ Skips \/ Record \/ UNCHANGED vars
  BY <1>3, <1>5 DEF Terminate, EnterSelect, Interrupted, SelectReturns,
     CloseFds, Skips, SkipListener, AcceptFails, Record, vars
<1>6. CASE Fork \/ ForkFails
  <2>1. accepted.conn \in Conn /\ status[accepted.conn] = "held"
    BY <1>6 DEF Fork, ForkFails, InHand
  <2>2. \E x : status' = [status EXCEPT ![accepted.conn] = x]
    BY <1>6 DEF Fork, ForkFails
  <2>3. backlog' = backlog
    BY <1>6 DEF Fork, ForkFails
  <2>4. QED
    BY <1>3, <2>1, <2>2, <2>3 DEF TypeOK
<1>7. QED
  BY <1>1, <1>2, <1>4, <1>5, <1>6
  DEF Next, ParentStep, Skips, Takes, Environment

\* What a step may do to a connection: a child that is done stays done, and
\* only a fork makes one that is not.
Ages ==
    /\ \A c \in Conn : status[c] \in Served => status'[c] \in Served
    /\ \A c \in Conn : status[c] \in {"authed", "gone"} => status'[c] # "pre"
    /\ \A c \in Conn : status'[c] = "pre" =>
         \/ status[c] = "pre"
         \/ pc = "fork" /\ pc' = "record" /\ c = accepted.conn

LEMMA AgesStep ==
    ASSUME TypeOK, InHand, StillReady, BacklogSound, [Next]_vars
    PROVE  Ages
<1> USE DEF Ages, Served
<1>1. ASSUME NEW c \in Conn, NEW a \in Addr, NEW l \in Listener,
             Connect(c, a, l)
      PROVE  Ages
  BY <1>1 DEF Connect, TypeOK
<1>2. ASSUME NEW c \in Conn, Authenticate(c) \/ ChildExit(c)
      PROVE  Ages
  BY <1>2 DEF Authenticate, ChildExit, TypeOK
<1>3. CASE Takes
  <2> DEFINE c == Head(backlog[i])
  <2>1. i \in Listener /\ c \in Conn /\ 1 \in DOMAIN backlog[i]
        /\ backlog[i][1] = c
    BY <1>3, AcceptHead
  <2>2. status[c] = "backlog"
    BY <2>1 DEF BacklogSound
  <2>3. AcceptDone(c)
    BY <1>3, AcceptCases
  <2>4. \E x \in {"refused", "failed", "held"} :
          status' = [status EXCEPT ![c] = x]
    BY <2>3 DEF AcceptDone
  <2>5. QED
    BY <2>1, <2>2, <2>4 DEF TypeOK
<1>4. CASE Fork \/ ForkFails
  <2>1. accepted.conn \in Conn /\ status[accepted.conn] = "held" /\ pc = "fork"
    BY <1>4 DEF Fork, ForkFails, InHand
  <2>2. CASE Fork
    BY <2>1, <2>2 DEF Fork, TypeOK
  <2>3. CASE ForkFails
    BY <2>1, <2>3 DEF ForkFails, TypeOK
  <2>4. QED
    BY <1>4, <2>2, <2>3
<1>5. CASE Terminate \/ EnterSelect \/ Interrupted \/ SelectReturns
           \/ CloseFds \/ Skips \/ Record \/ UNCHANGED vars
  BY <1>5 DEF Terminate, EnterSelect, Interrupted, SelectReturns,
     CloseFds, Skips, SkipListener, AcceptFails, Record, vars
<1>6. QED
  BY <1>1, <1>2, <1>3, <1>4, <1>5
  DEF Next, ParentStep, Skips, Takes, Environment

\* select() leaves the parent's loop with pipes and sockets that stay ready.
LEMMA ReadyStep ==
    ASSUME TypeOK, InHand, AtListener, StillReady, BacklogSound, [Next]_vars
    PROVE  AtListener' /\ StillReady'
<1>1. Readable.slots = {s \in Used : status[childpipes[s]] # "pre"}
      /\ Readable.listeners = {l \in Listener : backlog[l] # <<>>}
      /\ Readable'.slots = {s \in Used' : status'[childpipes'[s]] # "pre"}
  BY DEF Readable
<1>2. \A s \in Used : childpipes[s] \in Conn
  BY DEF Used, TypeOK
<1>3. fds.listeners \subseteq Listener
  BY DEF TypeOK
<1>4. ASSUME UNCHANGED <<childpipes, fds, i, accepted>>, pc' = pc,
             \A l \in Listener : backlog[l] # <<>> => backlog'[l] # <<>>
      PROVE  AtListener' /\ StillReady'
  <2>1. Used' = Used
    BY <1>4 DEF Used
  <2>2. pc = "close" => Readable.slots \subseteq Readable'.slots
    BY <1>1, <1>2, <1>4, <2>1, AgesStep DEF Ages, TypeOK, Status
  <2>3. pc' = "close" => fds'.slots \subseteq Readable'.slots
    BY <1>4, <2>2 DEF StillReady
  <2>4. QED
    BY <1>3, <1>4, <2>3 DEF AtListener, StillReady
<1>5. ASSUME NEW c \in Conn, NEW a \in Addr, NEW l \in Listener,
             Connect(c, a, l)
      PROVE  AtListener' /\ StillReady'
  <2>1. backlog[l] \in Seq(Conn)
    BY DEF TypeOK
  <2>2. Append(backlog[l], c) # <<>>
    BY <2>1
  <2>3. QED
    BY <1>4, <1>5, <2>2 DEF Connect, parent, TypeOK
<1>6. ASSUME NEW c \in Conn, Authenticate(c) \/ ChildExit(c)
      PROVE  AtListener' /\ StillReady'
  BY <1>4, <1>6 DEF Authenticate, ChildExit, parent
<1>7. CASE Terminate \/ UNCHANGED vars
  BY <1>4, <1>7 DEF Terminate, vars, parent
<1>8. CASE EnterSelect \/ Interrupted
  BY <1>8 DEF EnterSelect, Interrupted, AtListener, StillReady
<1>9. CASE SelectReturns
  <2>1. pc' = "exited" \/ (pc' = "close" /\ fds' = Readable)
    BY <1>9 DEF SelectReturns
  <2>2. Readable'.slots = Readable.slots /\ backlog' = backlog
    BY <1>1, <1>9 DEF SelectReturns, Used
  <2>3. QED
    BY <1>1, <2>1, <2>2 DEF AtListener, StillReady
<1>10. CASE CloseFds
  BY <1>3, <1>10 DEF CloseFds, AtListener, StillReady, Listener, TypeOK
<1>11. ASSUME i \in Listener, NextListener, UNCHANGED fds,
              pc \in {"accept", "fork", "record"},
              \A l \in Listener : l > i => backlog'[l] = backlog[l]
       PROVE  AtListener' /\ StillReady'
  <2>1. pc' \in {"enter", "accept"} /\ (pc' = "accept" => i' \in Listener)
    BY <1>11, NextType
  <2>2. i' = i + 1 /\ i \in Nat
    BY <1>11 DEF NextListener, Listener
  <2>3. ASSUME NEW l \in fds'.listeners, pc' = "accept", l >= i'
        PROVE  backlog'[l] # <<>>
    <3>1. l \in Listener /\ l \in Nat /\ l > i
      BY <1>3, <1>11, <2>2, <2>3 DEF Listener
    <3>2. backlog[l] # <<>>
      BY <1>11, <2>3, <3>1, <2>2 DEF StillReady
    <3>3. QED
      BY <1>11, <3>1, <3>2
  <2>4. QED
    BY <2>1, <2>3 DEF AtListener, StillReady
<1>12. CASE Skips
  BY <1>11, <1>12 DEF Skips, SkipListener, AcceptFails, AtListener
<1>13. CASE Takes
  <2>1. /\ i \in Listener /\ pc = "accept" /\ fds' = fds
        /\ \A l \in Listener : l > i => backlog'[l] = backlog[l]
    <3>1. pc = "accept" /\ fds' = fds
      BY <1>13 DEF Takes, Accept, AcceptFails
    <3>2. i \in Listener /\ backlog' = [backlog EXCEPT ![i] = Tail(@)]
      BY <1>13, AcceptHead, AcceptCases
    <3>3. QED
      BY <3>1, <3>2 DEF TypeOK, Listener
  <2>2. AcceptDone(Head(backlog[i]))
    BY <1>13, AcceptCases
  <2>3. CASE NextListener
    BY <1>11, <2>1, <2>3
  <2>4. CASE pc' = "fork" /\ i' = i
    <3>1. \A l \in fds'.listeners : l > i => backlog'[l] # <<>>
      BY <1>3, <2>1 DEF StillReady, Listener
    <3>2. QED
      BY <2>1, <2>4, <3>1 DEF AtListener, StillReady
  <2>5. CASE pc' = "exited"
    BY <2>5 DEF AtListener, StillReady
  <2>6. QED
    BY <2>2, <2>3, <2>4, <2>5 DEF AcceptDone
<1>14. CASE Fork
  BY <1>14 DEF Fork, AtListener, StillReady
<1>15. CASE ForkFails \/ Record
  BY <1>11, <1>15 DEF ForkFails, Record, AtListener
<1>16. QED
  BY <1>5, <1>6, <1>7, <1>8, <1>9, <1>10, <1>12, <1>13, <1>14, <1>15
  DEF Next, ParentStep, Skips, Takes, Environment
---------------------------------------------------------------------------
(* Slots *)

\* A connection's address is set once, when it is made.
LEMMA FromKept ==
    ASSUME TypeOK, [Next]_vars
    PROVE  \A c \in Conn : status[c] # "none" => from'[c] = from[c]
<1>1. ASSUME NEW c \in Conn, NEW a \in Addr, NEW l \in Listener,
             Connect(c, a, l)
      PROVE  \A d \in Conn : status[d] # "none" => from'[d] = from[d]
  BY <1>1 DEF Connect, TypeOK
<1>2. \/ from' = from
      \/ \E c \in Conn, a \in Addr, l \in Listener : Connect(c, a, l)
  BY DEF Next, ParentStep, Environment, vars, Authenticate, ChildExit,
     Terminate, EnterSelect, Interrupted, SelectReturns, CloseFds,
     Skips, Takes, SkipListener, AcceptFails, Accept, Fork, ForkFails, Record
<1>3. QED
  BY <1>1, <1>2

\* Which actions touch the slots, or the connection in the parent's hands.
LEMMA SlotCases ==
    ASSUME [Next]_vars
    PROVE  \/ /\ UNCHANGED <<childpipes, preauth_addrs, accepted>>
              /\ pc = "record" <=> pc' = "record"
              /\ pc = "fork" <=> pc' = "fork"
           \/ CloseFds \/ Takes \/ Fork \/ ForkFails \/ Record
<1>1. ASSUME NEW c \in Conn, NEW a \in Addr, NEW l \in Listener,
             Connect(c, a, l)
      PROVE  UNCHANGED <<childpipes, preauth_addrs, accepted, pc>>
  BY <1>1 DEF Connect, parent
<1>2. ASSUME NEW c \in Conn, Authenticate(c) \/ ChildExit(c)
      PROVE  UNCHANGED <<childpipes, preauth_addrs, accepted, pc>>
  BY <1>2 DEF Authenticate, ChildExit, parent
<1>3. CASE Terminate \/ UNCHANGED vars
  BY <1>3 DEF Terminate, vars, parent
<1>4. CASE EnterSelect \/ Interrupted \/ SelectReturns
  BY <1>4 DEF EnterSelect, Interrupted, SelectReturns
<1>5. CASE Skips
  BY <1>5 DEF Skips, SkipListener, AcceptFails, NextListener
<1>6. QED
  BY <1>1, <1>2, <1>3, <1>4, <1>5
  DEF Next, ParentStep, Skips, Takes, Environment

\* The slots in use after a turn of the loop has closed pipes.
LEMMA ClosedSlots ==
    ASSUME TypeOK, CloseFds
    PROVE  /\ Used' = Used \ fds.slots
           /\ \A s \in Used' : /\ childpipes'[s] = childpipes[s]
                               /\ preauth_addrs'[s] = preauth_addrs[s]
           /\ \A a : UsedBy(a)' \subseteq UsedBy(a)
<1>1. /\ childpipes' = [s \in Slot |-> IF s \in fds.slots THEN NoPipe
                                       ELSE childpipes[s]]
      /\ preauth_addrs' = [s \in Slot |-> IF s \in fds.slots THEN NoAddr
                                          ELSE preauth_addrs[s]]
  BY DEF CloseFds
<1>2. Used' = Used \ fds.slots
  BY <1>1 DEF Used
<1>3. \A s \in Used' : /\ s \in Slot /\ s \notin fds.slots /\ s \in Used
  BY <1>2 DEF Used
<1>4. QED
  BY <1>1, <1>2, <1>3 DEF UsedBy

\* The slots in use after a child has been recorded.
LEMMA RecordedSlots ==
    ASSUME TypeOK, InHand, Record
    PROVE  /\ accepted.idx \in Slot
           /\ Used' = Used \cup {accepted.idx}
           /\ \A s \in Used : /\ childpipes'[s] = childpipes[s]
                              /\ preauth_addrs'[s] = preauth_addrs[s]
           /\ childpipes'[accepted.idx] = accepted.conn
           /\ preauth_addrs'[accepted.idx] = from[accepted.conn]
           /\ \A a : UsedBy(a)' = IF a = from[accepted.conn]
                                  THEN UsedBy(a) \cup {accepted.idx}
                                  ELSE UsedBy(a)
<1>1. /\ accepted.idx \in Slot /\ accepted.idx \notin Used
      /\ accepted.conn \in Conn /\ accepted.conn # NoPipe
      /\ childpipes \in [Slot -> Conn \cup {NoPipe}]
      /\ preauth_addrs \in [Slot -> Addr \cup {NoAddr}]
  BY DEF TypeOK, InHand, Record
<1>2. /\ childpipes' = [childpipes EXCEPT ![accepted.idx] = accepted.conn]
      /\ preauth_addrs' = [preauth_addrs EXCEPT
                             ![accepted.idx] = from[accepted.conn]]
  BY DEF Record
<1>3. Used' = Used \cup {accepted.idx}
  BY <1>1, <1>2 DEF Used
<1>4. \A s \in Used : s \in Slot /\ s # accepted.idx
  BY <1>1 DEF Used
<1>5. /\ \A s \in Used : /\ childpipes'[s] = childpipes[s]
                         /\ preauth_addrs'[s] = preauth_addrs[s]
      /\ childpipes'[accepted.idx] = accepted.conn
      /\ preauth_addrs'[accepted.idx] = from[accepted.conn]
  BY <1>1, <1>2, <1>4
<1>6. \A a : UsedBy(a)' = IF a = from[accepted.conn]
                          THEN UsedBy(a) \cup {accepted.idx} ELSE UsedBy(a)
  BY <1>3, <1>4, <1>5 DEF UsedBy
<1>7. QED
  BY <1>1, <1>3, <1>5, <1>6

\* The slots, the connection in hand and the limits before a step.
Slots == /\ TypeOK /\ BacklogSound /\ SlotsExact /\ InHand /\ WithinLimits
         /\ StillReady

\* Facts every case needs: the connection of a slot or in hand has its address
\* for good.
LEMMA SlotConn ==
    ASSUME Slots, [Next]_vars
    PROVE  /\ \A s \in Used :
                /\ s \in Slot /\ childpipes[s] \in Conn
                /\ status[childpipes[s]] \in Served
                /\ preauth_addrs[s] = from[childpipes[s]]
                /\ from'[childpipes[s]] = from[childpipes[s]]
           /\ pc \in {"fork", "record"} =>
                from'[accepted.conn] = from[accepted.conn]
<1>1. \A s \in Used : /\ s \in Slot /\ childpipes[s] \in Conn
                      /\ status[childpipes[s]] \in Served
                      /\ preauth_addrs[s] = from[childpipes[s]]
  BY DEF Slots, TypeOK, Used, SlotsExact, Served
<1>2. pc \in {"fork", "record"} => /\ accepted.conn \in Conn
                                   /\ status[accepted.conn] # "none"
  BY DEF Slots, InHand, Served
<1>3. \A c \in Conn : status[c] # "none" => from'[c] = from[c]
  BY FromKept DEF Slots
<1>4. QED
  BY <1>1, <1>2, <1>3 DEF Served

\* Every child that may be unauthenticated keeps its slot to itself.
LEMMA SlotsStep ==
    ASSUME Slots, [Next]_vars
    PROVE  SlotsExact'
<1>1. Ages
  BY AgesStep DEF Slots
<1>2. /\ \A c \in PreAuth : \/ pc = "record" /\ accepted.conn = c
                            \/ \E s \in Used : childpipes[s] = c
      /\ \A s, t \in Used : childpipes[s] = childpipes[t] => s = t
  <2>1. \A c \in Conn : c # NoPipe
    BY DEF Slots
  <2>2. QED
    BY <2>1 DEF Slots, SlotsExact, PreAuth, Used
<1>3. SUFFICES
        /\ \A c \in PreAuth' : \/ pc' = "record" /\ accepted'.conn = c
                               \/ \E s \in Used' : childpipes'[s] = c
        /\ \A s, t \in Used' : childpipes'[s] = childpipes'[t] => s = t
        /\ \A s \in Used' : /\ status'[childpipes'[s]] \in Served
                            /\ preauth_addrs'[s] = from'[childpipes'[s]]
  <2>1. \A s \in Used' : s \in Slot
    BY DEF Used
  <2>2. QED
    BY <2>1 DEF SlotsExact, Served
<1>4. CASE /\ UNCHANGED <<childpipes, preauth_addrs, accepted>>
           /\ pc = "record" <=> pc' = "record"
           /\ pc = "fork" <=> pc' = "fork"
  <2>1. Used' = Used
    BY <1>4 DEF Used
  <2>2. \A c \in PreAuth' : c \in PreAuth
    BY <1>1, <1>4 DEF Ages, PreAuth
  <2>3. QED
    BY <1>1, <1>2, <1>4, <2>1, <2>2, SlotConn DEF Ages
<1>5. CASE CloseFds
  <2>1. pc = "close" /\ pc' # "record" /\ status' = status /\ from' = from
    BY <1>5 DEF CloseFds
  <2>2. fds.slots \subseteq {s \in Used : status[childpipes[s]] # "pre"}
    BY <2>1 DEF Slots, StillReady, Readable
  <2>3. \A c \in PreAuth : \E s \in Used \ fds.slots : childpipes[s] = c
    BY <1>2, <2>1, <2>2 DEF PreAuth
  <2>4. PreAuth' = PreAuth
    BY <2>1 DEF PreAuth
  <2>5. /\ Used' = Used \ fds.slots
        /\ \A s \in Used' : /\ childpipes'[s] = childpipes[s]
                            /\ preauth_addrs'[s] = preauth_addrs[s]
    BY <1>5, ClosedSlots DEF Slots
  <2>6. QED
    BY <1>2, <2>1, <2>3, <2>4, <2>5, SlotConn
<1>6. CASE Takes \/ Fork \/ ForkFails
  <2>1. /\ Used' = Used /\ childpipes' = childpipes
        /\ preauth_addrs' = preauth_addrs /\ pc # "record"
    BY <1>6 DEF Takes, Accept, AcceptFails, Fork, ForkFails, Used
  <2>2. \A c \in PreAuth' : \/ c \in PreAuth
                            \/ pc' = "record" /\ accepted.conn = c
    BY <1>1 DEF Ages, PreAuth
  <2>3. pc' = "record" => accepted' = accepted
    BY <1>6 DEF Takes, Accept, AcceptFails, NextListener, Fork, ForkFails
  <2>4. QED
    BY <1>1, <1>2, <2>1, <2>2, <2>3, SlotConn DEF Ages
<1>7. CASE Record
  <2>1. /\ pc = "record" /\ pc' # "record" /\ status' = status /\ from' = from
    BY <1>7 DEF Record, NextListener
  <2>2. PreAuth' = PreAuth
    BY <2>1 DEF PreAuth
  <2>3. /\ Used' = Used \cup {accepted.idx}
        /\ \A s \in Used : /\ childpipes'[s] = childpipes[s]
                           /\ preauth_addrs'[s] = preauth_addrs[s]
        /\ childpipes'[accepted.idx] = accepted.conn
        /\ preauth_addrs'[accepted.idx] = from[accepted.conn]
    BY <1>7, RecordedSlots DEF Slots
  <2>4. /\ status[accepted.conn] \in Served
        /\ \A s \in Used : childpipes[s] # accepted.conn
    BY <2>1 DEF Slots, InHand
  <2>5. \A c \in PreAuth' : \E s \in Used' : childpipes'[s] = c
    BY <1>2, <2>2, <2>3
  <2>6. \A s, t \in Used' : childpipes'[s] = childpipes'[t] => s = t
    BY <1>2, <2>3, <2>4
  <2>7. \A s \in Used' : /\ status'[childpipes'[s]] \in Served
                         /\ preauth_addrs'[s] = from'[childpipes'[s]]
    BY <2>1, <2>3, <2>4, SlotConn
  <2>8. QED
    BY <2>5, <2>6, <2>7
<1>8. QED
  BY <1>4, <1>5, <1>6, <1>7, SlotCases

\* Until the fork nothing happens to the connection in hand.
LEMMA InHandStatus ==
    ASSUME TypeOK, InHand, StillReady, BacklogSound, [Next]_vars,
           pc = "fork", pc' = "fork"
    PROVE  status'[accepted.conn] = "held"
<1>1. accepted.conn \in Conn /\ status[accepted.conn] = "held"
  BY DEF InHand
<1>2. ASSUME NEW c \in Conn, NEW a \in Addr, NEW l \in Listener,
             Connect(c, a, l)
      PROVE  status'[accepted.conn] = "held"
  BY <1>1, <1>2 DEF Connect, TypeOK
<1>3. ASSUME NEW c \in Conn, Authenticate(c) \/ ChildExit(c)
      PROVE  status'[accepted.conn] = "held"
  BY <1>1, <1>3 DEF Authenticate, ChildExit, TypeOK
<1>4. CASE Terminate \/ UNCHANGED vars
  BY <1>1, <1>4 DEF Terminate, vars
<1>5. CASE ParentStep
  BY <1>5 DEF ParentStep, EnterSelect, Interrupted, SelectReturns, CloseFds,
     Skips, Takes, SkipListener, AcceptFails, Accept, Fork, ForkFails, Record,
     NextListener
<1>6. QED
  BY <1>2, <1>3, <1>4, <1>5 DEF Next, Environment

\* The connection in hand has a free slot, and room under the limit of its
\* address, until it is recorded.
LEMMA InHandStep ==
    ASSUME Slots, [Next]_vars
    PROVE  InHand'
<1>1. Ages
  BY AgesStep DEF Slots
<1>2. CASE /\ UNCHANGED <<childpipes, preauth_addrs, accepted>>
           /\ pc = "record" <=> pc' = "record"
           /\ pc = "fork" <=> pc' = "fork"
  <2>1. SUFFICES ASSUME pc' \in {"fork", "record"} PROVE InHand'
    BY DEF InHand
  <2>2. pc \in {"fork", "record"} /\ accepted' = accepted /\ Used' = Used
    BY <1>2, <2>1 DEF Used
  <2>3. from'[accepted.conn] = from[accepted.conn]
    BY <2>2, SlotConn
  <2>4. UsedBy(from[accepted.conn])' = UsedBy(from[accepted.conn])
    BY <1>2, <2>2, <2>3 DEF UsedBy
  <2>5. pc' = "fork" => status'[accepted.conn] = "held"
    BY <1>2, <2>1, InHandStatus DEF Slots
  <2>6. pc' = "record" => status'[accepted.conn] \in Served
    BY <1>1, <1>2, <2>2 DEF Slots, InHand, Ages
  <2>7. accepted.conn \in Conn /\ accepted.idx \notin Used
    BY <2>2 DEF Slots, InHand
  <2>8. pc' = "record" => \A s \in Used : childpipes[s] # accepted.conn
    BY <1>2 DEF Slots, InHand
  <2>9. Cardinality(UsedBy(from[accepted.conn])) < MAX_UNAUTH_PER_IP
    BY <2>2 DEF Slots, InHand
  <2>10. QED
    BY <1>2, <2>2, <2>3, <2>4, <2>5, <2>6, <2>7, <2>8, <2>9 DEF InHand
<1>3. CASE CloseFds \/ ForkFails \/ Record
  BY <1>3 DEF CloseFds, ForkFails, Record, NextListener, InHand
<1>4. CASE Takes
  <2> DEFINE c == Head(backlog[i])
  <2>1. SUFFICES ASSUME pc' \in {"fork", "record"} PROVE InHand'
    BY DEF InHand
  <2>2. c \in Conn /\ AcceptDone(c)
    BY <1>4, AcceptHead, AcceptCases DEF Slots
  <2>3. /\ ~OverLimit(from[c]) /\ pc' = "fork"
        /\ status' = [status EXCEPT ![c] = "held"]
        /\ \E s \in LastFree : accepted' = [conn |-> c, idx |-> s]
    BY <2>1, <2>2 DEF AcceptDone, NextListener
  <2>4. /\ Used' = Used /\ from' = from /\ childpipes' = childpipes
        /\ preauth_addrs' = preauth_addrs
    BY <1>4 DEF Takes, Accept, AcceptFails, Used
  <2>5. accepted'.conn = c /\ accepted'.idx \notin Used
    BY <2>3 DEF LastFree
  <2>6. status'[c] = "held"
    BY <2>2, <2>3 DEF Slots, TypeOK
  <2>7. Cardinality(UsedBy(from[c])) < MAX_UNAUTH_PER_IP
    BY <2>3, UsedFinite DEF OverLimit
  <2>8. UsedBy(from[accepted.conn])' = UsedBy(from[c])
    BY <2>4, <2>5 DEF UsedBy
  <2>9. /\ (accepted.conn)' \in Conn /\ (accepted.idx)' \notin Used'
        /\ (status[accepted.conn])' = "held"
        /\ Cardinality(UsedBy(from[accepted.conn]))' < MAX_UNAUTH_PER_IP
    BY <2>2, <2>4, <2>5, <2>6, <2>7, <2>8
  <2>10. QED
    BY <2>3, <2>9 DEF InHand
<1>5. CASE Fork
  <2>1. /\ pc = "fork" /\ pc' = "record" /\ accepted' = accepted
        /\ status' = [status EXCEPT ![accepted.conn] = "pre"]
        /\ from' = from /\ childpipes' = childpipes
        /\ preauth_addrs' = preauth_addrs
    BY <1>5 DEF Fork
  <2>2. /\ accepted.conn \in Conn /\ accepted.idx \notin Used
        /\ status[accepted.conn] = "held"
        /\ Cardinality(UsedBy(from[accepted.conn])) < MAX_UNAUTH_PER_IP
    BY <2>1 DEF Slots, InHand
  <2>3. \A s \in Used : childpipes[s] # accepted.conn
    BY <2>2, SlotConn DEF Served
  <2>4. status'[accepted.conn] = "pre"
    BY <2>1, <2>2 DEF Slots, TypeOK
  <2>5. /\ Used' = Used
        /\ UsedBy(from[accepted.conn])' = UsedBy(from[accepted.conn])
    BY <2>1 DEF Used, UsedBy
  <2>6. QED
    BY <2>1, <2>2, <2>3, <2>4, <2>5 DEF InHand, Served
<1>6. QED
  BY <1>2, <1>3, <1>4, <1>5, SlotCases

\* No address gets more slots than its limit.
LEMMA LimitsStep ==
    ASSUME Slots, [Next]_vars
    PROVE  WithinLimits'
<1>1. SUFFICES ASSUME NEW a \in Addr
               PROVE  Cardinality(UsedBy(a)') <= MAX_UNAUTH_PER_IP
  BY DEF WithinLimits
<1>2. Cardinality(UsedBy(a)) <= MAX_UNAUTH_PER_IP
  BY DEF Slots, WithinLimits
<1>3. IsFiniteSet(UsedBy(a)) /\ Cardinality(UsedBy(a)) \in Nat
  BY UsedFinite
<1>4. CASE CloseFds
  <2>1. UsedBy(a)' \subseteq UsedBy(a)
    BY <1>4, ClosedSlots DEF Slots
  <2>2. QED
    BY <1>2, <1>3, <2>1, FewerSlots
<1>5. CASE Record
  <2>1. UsedBy(a)' = IF a = from[accepted.conn]
                     THEN UsedBy(a) \cup {accepted.idx} ELSE UsedBy(a)
    BY <1>5, RecordedSlots DEF Slots
  <2>2. CASE a = from[accepted.conn]
    <3>1. Cardinality(UsedBy(a)) < MAX_UNAUTH_PER_IP
      BY <1>5, <2>2 DEF Slots, InHand, Record
    <3>2. Cardinality(UsedBy(a) \cup {accepted.idx})
            <= Cardinality(UsedBy(a)) + 1
      <4>1. PICK S : S = UsedBy(a)
        OBVIOUS
      <4>2. IsFiniteSet(S)
        BY <1>3, <4>1
      <4>3. Cardinality(S) \in Nat
        BY ONLY <4>2, FS_CardinalityType
      <4>4. Cardinality(S \cup {accepted.idx}) <= Cardinality(S) + 1
        BY ONLY <4>2, <4>3, FS_AddElement
      <4>. QED  BY ONLY <4>1, <4>4
    <3>3. QED
      <4>1. UsedBy(a)' = UsedBy(a) \cup {accepted.idx}
        BY <2>1, <2>2
      <4>2. Cardinality(UsedBy(a) \cup {accepted.idx}) \in Nat
        BY <1>3, FS_AddElement, FS_CardinalityType
      <4>3. QED
        BY <1>3, <3>1, <3>2, <4>1, <4>2
  <2>3. CASE a # from[accepted.conn]
    BY <1>2, <2>1, <2>3
  <2>4. QED
    BY <2>2, <2>3
<1>6. CASE ~CloseFds /\ ~Record
  <2>1. childpipes' = childpipes /\ preauth_addrs' = preauth_addrs
    BY <1>6, SlotCases DEF Takes, Accept, AcceptFails, Fork, ForkFails
  <2>2. UsedBy(a)' = UsedBy(a)
    BY <2>1 DEF UsedBy, Used
  <2>3. QED
    BY <1>2, <2>2
<1>7. QED
  BY <1>4, <1>5, <1>6

\* The unauthenticated children are finitely many: each has a slot, or is in
\* the parent's hands.
LEMMA PreAuthCovered ==
    ASSUME TypeOK, SlotsExact
    PROVE  /\ IsFiniteSet(PreAuth)
           /\ pc # "record" => Cardinality(PreAuth) <= Cardinality(Used)
<1>1. \A c \in PreAuth : c # NoPipe
  BY DEF PreAuth
<1>2. IsFiniteSet(Used)
  BY UsedFinite
<1> DEFINE In == {c \in PreAuth : \E s \in Used : childpipes[s] = c}
<1>3. IsFiniteSet(In) /\ Cardinality(In) <= Cardinality(Used)
  <2>1. \A c \in In : \E s \in Used : childpipes[s] = c
    OBVIOUS
  <2>2. QED
    BY <1>2, <2>1, Covered
<1>4. PreAuth \subseteq In \cup {accepted.conn}
      /\ (pc # "record" => PreAuth = In)
  BY <1>1 DEF SlotsExact, Used
<1>5. IsFiniteSet(In \cup {accepted.conn})
  BY <1>3, FS_AddElement
<1>6. QED
  BY <1>3, <1>4, <1>5, FS_Subset

\* Slots in use after the pipes of finished children have been closed belong
\* to children that had not authenticated when select() returned.
LEMMA CountedStep ==
    ASSUME Slots, Counted, [Next]_vars
    PROVE  Counted'
<1>1. CASE SelectReturns
  <2>1. /\ unauth' = PreAuth /\ pc # "record" /\ UNCHANGED childpipes
        /\ \/ pc' = "exited"
           \/ pc' = "close" /\ fds' = Readable
    BY <1>1 DEF SelectReturns, PreAuth
  <2>2. IsFiniteSet(PreAuth)
    BY PreAuthCovered DEF Slots
  <2>3. \A s \in Used \ Readable.slots : childpipes[s] \in PreAuth
    BY SlotConn DEF Readable, PreAuth
  <2>4. Used' = Used
    BY <2>1 DEF Used
  <2>5. QED
    BY <2>1, <2>2, <2>3, <2>4 DEF Counted
<1>2. CASE CloseFds
  <2>1. pc = "close" /\ pc' = "accept" /\ unauth' = unauth
    BY <1>2 DEF CloseFds
  <2>2. /\ Used' = Used \ fds.slots
        /\ \A s \in Used' : childpipes'[s] = childpipes[s]
    BY <1>2, ClosedSlots DEF Slots
  <2>3. QED
    BY <2>1, <2>2 DEF Counted
<1>3. CASE Fork
  <2>1. /\ pc = "fork" /\ pc' = "record" /\ accepted' = accepted
        /\ unauth' = unauth \cup {accepted.conn} /\ childpipes' = childpipes
    BY <1>3 DEF Fork
  <2>2. Used' = Used
    BY <2>1 DEF Used
  <2>3. IsFiniteSet(unauth')
    BY <2>1, FS_AddElement DEF Counted
  <2>4. QED
    BY <2>1, <2>2, <2>3 DEF Counted
<1>4. CASE Record
  <2>1. /\ pc = "record" /\ pc' \in {"accept", "enter"} /\ unauth' = unauth
    BY <1>4 DEF Record, NextListener
  <2>2. /\ Used' = Used \cup {accepted.idx}
        /\ \A s \in Used : childpipes'[s] = childpipes[s]
        /\ childpipes'[accepted.idx] = accepted.conn
    BY <1>4, RecordedSlots DEF Slots
  <2>3. QED
    BY <2>1, <2>2 DEF Counted
<1>5. CASE Takes \/ ForkFails \/ Skips
  <2>1. /\ pc \in {"accept", "fork"}
        /\ pc' \in {"accept", "enter", "fork", "exited"}
        /\ unauth' = unauth /\ childpipes' = childpipes
    <3>1. CASE Takes
      <4>1. AcceptDone(Head(backlog[i])) /\ pc = "accept"
        BY <3>1, AcceptCases DEF Slots, Takes, Accept, AcceptFails
      <4>2. pc' \in {"accept", "enter", "fork", "exited"}
        BY <4>1 DEF AcceptDone, NextListener
      <4>. QED  BY <3>1, <4>1, <4>2 DEF Takes, Accept, AcceptFails
    <3>2. CASE ForkFails \/ Skips
      BY <3>2 DEF ForkFails, Skips, SkipListener, AcceptFails, NextListener
    <3>. QED  BY <1>5, <3>1, <3>2
  <2>2. Used' = Used
    BY <2>1 DEF Used
  <2>3. QED
    BY <2>1, <2>2 DEF Counted
<1>6. CASE EnterSelect \/ Interrupted
  BY <1>6 DEF EnterSelect, Interrupted, Counted
<1>7. ASSUME UNCHANGED <<childpipes, pc, fds, accepted, unauth>>
      PROVE  Counted'
  <2>1. Used' = Used
    BY <1>7 DEF Used
  <2>2. QED
    BY <1>7, <2>1 DEF Counted
<1>8. ASSUME NEW c \in Conn, NEW a \in Addr, NEW l \in Listener,
             Connect(c, a, l)
      PROVE  Counted'
  BY <1>7, <1>8 DEF Connect, parent
<1>9. ASSUME NEW c \in Conn, Authenticate(c) \/ ChildExit(c)
      PROVE  Counted'
  BY <1>7, <1>9 DEF Authenticate, ChildExit, parent
<1>10. CASE Terminate \/ UNCHANGED vars
  BY <1>7, <1>10 DEF Terminate, vars, parent
<1>11. QED
  BY <1>1, <1>2, <1>3, <1>4, <1>5, <1>6, <1>8, <1>9, <1>10
  DEF Next, ParentStep, Skips, Takes, Environment

---------------------------------------------------------------------------
(* The invariant *)

LEMMA Initially == Init => IInv
<1> SUFFICES ASSUME Init PROVE IInv
  OBVIOUS
<1>1. TypeOK
  <2>1. \A l \in Listener : backlog[l] \in Seq(Conn)
    BY DEF Init
  <2>2. 0 \in Slot /\ 1 \in 1 .. Listeners + 1
    BY DEF Slot
  <2>3. Nothing \in [listeners : SUBSET Listener, slots : SUBSET Slot]
    BY DEF Nothing
  <2>4. QED
    BY <2>1, <2>2, <2>3 DEF Init, TypeOK, Status
<1>2. Used = {}
  BY DEF Init, Used
<1>3. \A a : UsedBy(a) = {}
  BY <1>2 DEF UsedBy
<1>4. WithinLimits
  BY <1>3, FS_EmptySet DEF WithinLimits
<1>5. BacklogSound
  BY DEF Init, BacklogSound
<1>6. SlotsExact
  BY <1>2 DEF Init, SlotsExact, PreAuth
<1>7. InHand /\ AtListener /\ StillReady
  BY DEF Init, InHand, AtListener, StillReady, Nothing
<1>8. Counted
  BY FS_EmptySet DEF Init, Counted
<1>9. QED
  BY <1>1, <1>4, <1>5, <1>6, <1>7, <1>8 DEF IInv

LEMMA Inductive == IInv /\ [Next]_vars => IInv'
<1> SUFFICES ASSUME IInv, [Next]_vars PROVE IInv'
  OBVIOUS
<1>1. Slots
  BY DEF IInv, Slots
<1>2. QED
  BY <1>1, TypeStep, BacklogStep, SlotsStep, InHandStep, LimitsStep, ReadyStep,
     CountedStep DEF IInv

THEOREM Invariance == Spec => []IInv
BY Initially, Inductive, PTL DEF Spec

---------------------------------------------------------------------------
(* What follows for every number of connections, addresses, listening     *)
(* sockets and slots.                                                      *)

\* Types.
THEOREM TypeCorrect == Spec => []TypeOK
<1>1. IInv => TypeOK
  BY DEF IInv
<1>2. QED
  BY <1>1, Invariance, PTL

\* No slot is lost, overwritten or shared, whatever children do while the
\* parent is on its way round its loop.
THEOREM SlotsCorrect == Spec => []SlotsExact
<1>1. IInv => SlotsExact
  BY DEF IInv
<1>2. QED
  BY <1>1, Invariance, PTL

\* What the parent acts on has not changed since select() reported it.
THEOREM ReadyCorrect == Spec => []ReadyStaysReady
<1>1. IInv => ReadyStaysReady
  BY DEF IInv, ReadyStaysReady, StillReady, AtListener, InHand, Listener
<1>2. QED
  BY <1>1, Invariance, PTL

\* The limits on unauthenticated clients, in all and from one address.
THEOREM LimitsKept == Spec => []UnauthBounded
<1>1. ASSUME IInv PROVE UnauthBounded
  <2>1. TypeOK /\ SlotsExact /\ InHand /\ WithinLimits
    BY <1>1 DEF IInv
  <2>2. /\ Used \subseteq Slot
        /\ \A s \in Used : childpipes[s] # NoPipe
                           /\ preauth_addrs[s] = from[childpipes[s]]
    BY <2>1 DEF Used, SlotsExact
  <2>3. \A c \in PreAuth : c # NoPipe /\ c \in Conn
    BY DEF PreAuth
  <2>4. \A c \in PreAuth : \/ pc = "record" /\ accepted.conn = c
                           \/ \E s \in Used : childpipes[s] = c
    BY <2>1, <2>3 DEF SlotsExact, Used
  <2>5. pc = "record" => accepted.idx \in Slot \ Used
    BY <2>1 DEF TypeOK, InHand
  <2> DEFINE idx  == accepted.idx
             held == IF pc = "record"
                     THEN [childpipes EXCEPT ![idx] = accepted.conn]
                     ELSE childpipes
             here == IF pc = "record" THEN {idx} ELSE {}
  <2>6. \A c \in PreAuth : \E s \in Used \cup here : held[s] = c
    BY <2>1, <2>2, <2>4, <2>5 DEF TypeOK
  <2>7. Cardinality(PreAuth) <= MAX_UNAUTH_CLIENTS
    <3>1. Used \cup here \subseteq Slot
      BY <2>2, <2>5
    <3>2. IsFiniteSet(Used \cup here)
          /\ Cardinality(Used \cup here) <= MAX_UNAUTH_CLIENTS
      BY <3>1, UsedFinite, FS_Subset
    <3>3. IsFiniteSet(PreAuth)
          /\ Cardinality(PreAuth) <= Cardinality(Used \cup here)
      <4> HIDE DEF held, here
      <4>1. QED
        BY <2>6, <3>2, Covered
    <3>4. Cardinality(PreAuth) \in Nat /\ Cardinality(Used \cup here) \in Nat
      BY <3>2, <3>3, FS_CardinalityType
    <3>5. QED
      BY <3>2, <3>3, <3>4
  <2>8. ASSUME NEW a \in Addr
        PROVE  Cardinality({c \in PreAuth : from[c] = a}) <= MAX_UNAUTH_PER_IP
    <3> DEFINE C == {c \in PreAuth : from[c] = a}
               S == IF pc = "record" /\ from[accepted.conn] = a
                    THEN UsedBy(a) \cup {idx} ELSE UsedBy(a)
    <3>1. IsFiniteSet(UsedBy(a)) /\ Cardinality(UsedBy(a)) \in Nat
      BY UsedFinite
    <3>2. IsFiniteSet(S) /\ Cardinality(S) <= MAX_UNAUTH_PER_IP
      <4>1. CASE pc = "record" /\ from[accepted.conn] = a
        <5>1. Cardinality(UsedBy(a)) < MAX_UNAUTH_PER_IP
          BY <2>1, <4>1 DEF InHand
        <5>2. S = UsedBy(a) \cup {idx}
          BY <4>1
        <5>3. IsFiniteSet(S) /\ Cardinality(S) <= Cardinality(UsedBy(a)) + 1
          BY <3>1, <5>2, FS_AddElement
        <5>4. Cardinality(S) \in Nat
          BY <5>3, FS_CardinalityType
        <5>5. QED
          BY <3>1, <5>1, <5>3, <5>4
      <4>2. CASE ~(pc = "record" /\ from[accepted.conn] = a)
        BY <2>1, <3>1, <4>2 DEF WithinLimits
      <4>3. QED
        BY <4>1, <4>2
    <3>3. \A c \in C : \E s \in S : held[s] = c
      <4>1. SUFFICES ASSUME NEW c \in C PROVE \E s \in S : held[s] = c
        OBVIOUS
      <4>2. CASE pc = "record" /\ accepted.conn = c
        BY <2>1, <2>5, <4>2 DEF TypeOK
      <4>3. CASE \E s \in Used : childpipes[s] = c
        <5>1. PICK s \in Used : childpipes[s] = c
          BY <4>3
        <5>2. s \in UsedBy(a)
          BY <2>2, <5>1 DEF UsedBy
        <5>3. CASE pc = "record"
          BY <2>1, <2>2, <2>5, <5>1, <5>2, <5>3 DEF TypeOK
        <5>4. CASE pc # "record"
          BY <5>1, <5>2, <5>4
        <5>5. QED
          BY <5>3, <5>4
      <4>4. QED
        BY <2>4, <4>2, <4>3
    <3>4. IsFiniteSet(C) /\ Cardinality(C) <= Cardinality(S)
      <4> HIDE DEF held, C, S
      <4>1. QED
        BY <3>2, <3>3, Covered
    <3>5. Cardinality(C) \in Nat /\ Cardinality(S) \in Nat
      BY <3>2, <3>4, FS_CardinalityType
    <3>6. QED
      BY <3>2, <3>4, <3>5
  <2>9. QED
    BY <2>7, <2>8 DEF UnauthBounded
<1>2. QED
  BY <1>1, Invariance, PTL

\* Only accept() turns a client away, and only over a limit.
LEMMA RefusedByAccept ==
    ASSUME IInv, [Next]_vars, NEW c \in Conn,
           status'[c] = "refused", status[c] # "refused"
    PROVE  Takes /\ OverLimit(from[c])
<1>1. ASSUME NEW d \in Conn, NEW a \in Addr, NEW l \in Listener,
             Connect(d, a, l)
      PROVE  FALSE
  BY <1>1 DEF Connect, IInv, TypeOK
<1>2. ASSUME NEW d \in Conn, Authenticate(d) \/ ChildExit(d)
      PROVE  FALSE
  BY <1>2 DEF Authenticate, ChildExit, IInv, TypeOK
<1>3. ASSUME Fork \/ ForkFails PROVE FALSE
  <2>1. accepted.conn \in Conn
    BY <1>3 DEF Fork, ForkFails, IInv, InHand
  <2>2. QED
    BY <1>3, <2>1 DEF Fork, ForkFails, IInv, TypeOK
<1>4. ASSUME status' = status PROVE FALSE
  BY <1>4
<1>5. Takes
  BY <1>1, <1>2, <1>3, <1>4
  DEF Next, ParentStep, Skips, Takes, Environment, Terminate,
     EnterSelect, Interrupted, SelectReturns, CloseFds, Skips, SkipListener,
     AcceptFails, Record, vars
<1>6. OverLimit(from[c])
  <2> DEFINE d == Head(backlog[i])
  <2>1. d \in Conn /\ AcceptDone(d)
    BY <1>5, AcceptHead, AcceptCases DEF IInv
  <2>2. \A x : x # "refused" /\ status' = [status EXCEPT ![d] = x] => FALSE
    BY <2>1 DEF IInv, TypeOK
  <2>3. OverLimit(from[d]) /\ status' = [status EXCEPT ![d] = "refused"]
    BY <2>1, <2>2 DEF AcceptDone
  <2>4. d = c
    BY <2>1, <2>3 DEF IInv, TypeOK
  <2>5. QED
    BY <2>3, <2>4
<1>7. QED
  BY <1>5, <1>6

\* Slots are not kept for children that are done: whoever is turned away met
\* as many clients that had not authenticated.
THEOREM RefusedRightly == Spec => RefusedOnlyAtLimit
<1>1. ASSUME IInv, [Next]_vars, NEW c \in Conn,
             status'[c] = "refused", status[c] # "refused"
      PROVE  \/ Cardinality(unauth) >= MAX_UNAUTH_CLIENTS
             \/ Cardinality({d \in unauth : from[d] = from[c]})
                     >= MAX_UNAUTH_PER_IP
  <2>1. pc = "accept" /\ OverLimit(from[c])
    BY <1>1, RefusedByAccept DEF Takes, Accept, AcceptFails
  <2>2. /\ \A s \in Used : childpipes[s] \in unauth
        /\ \A s \in Used : preauth_addrs[s] = from[childpipes[s]]
        /\ \A s, t \in Used : childpipes[s] = childpipes[t] => s = t
        /\ IsFiniteSet(unauth)
    BY <1>1, <2>1 DEF IInv, Counted, SlotsExact
  <2> DEFINE C == {d \in unauth : from[d] = from[c]}
             S == UsedBy(from[c])
  <2>3. Cardinality(Used) <= Cardinality(unauth)
    BY <2>2, Spread
  <2>4. IsFiniteSet(C)
    BY <2>2, FS_Subset
  <2>5. Cardinality(S) <= Cardinality(C)
    <3>1. /\ \A s \in S : childpipes[s] \in C
          /\ \A s, t \in S : childpipes[s] = childpipes[t] => s = t
      BY <2>2 DEF UsedBy
    <3> HIDE DEF S, C
    <3>2. QED
      BY <2>4, <3>1, Spread
  <2>6. /\ Cardinality(Used) \in Nat /\ Cardinality(S) \in Nat
        /\ Cardinality(unauth) \in Nat /\ Cardinality(C) \in Nat
    BY <2>2, <2>4, UsedFinite, FS_CardinalityType
  <2>7. \/ Cardinality(Used) >= MAX_UNAUTH_CLIENTS
        \/ Cardinality(S) >= MAX_UNAUTH_PER_IP
    BY <2>1 DEF OverLimit
  <2> HIDE DEF S, C
  <2>8. \/ Cardinality(unauth) >= MAX_UNAUTH_CLIENTS
        \/ Cardinality(C) >= MAX_UNAUTH_PER_IP
    BY <2>3, <2>5, <2>6, <2>7
  <2>9. QED
    BY <2>8 DEF C
<1>2. IInv /\ [Next]_vars =>
        [\A c \in Conn :
           status'[c] = "refused" /\ status[c] # "refused"
           => \/ Cardinality(unauth) >= MAX_UNAUTH_CLIENTS
              \/ Cardinality({d \in unauth : from[d] = from[c]})
                      >= MAX_UNAUTH_PER_IP]_vars
  BY <1>1
<1>3. QED
  BY <1>2, Invariance, PTL DEF Spec, RefusedOnlyAtLimit

---------------------------------------------------------------------------
(* Descriptors *)

\* How many of the pipes' ends are open in the parent.
Ends == Cardinality(Used) + Cardinality(LostEnds)

\* There is room for both ends of the pipe that is being made, and else for
\* the next connection.
Room == /\ IsFiniteSet(lost)
        /\ pc \in {"fork", "record"} => Ends + 3 <= Descriptors
        /\ Descriptors > 0 => Ends + 1 <= Descriptors

LEMMA EndsCounted ==
    ASSUME NEW L, IsFiniteSet(L)
    PROVE  /\ Cardinality(L) \in Nat
           /\ Cardinality(L \X {"reading", "writing"}) = 2 * Cardinality(L)
<1>1. IsFiniteSet({"reading"}) /\ Cardinality({"reading"}) = 1
  BY FS_Singleton
<1>2. {"reading", "writing"} = {"reading"} \cup {"writing"}
      /\ "writing" \notin {"reading"}
  OBVIOUS
<1>3. /\ IsFiniteSet({"reading", "writing"})
      /\ Cardinality({"reading", "writing"}) = 2
  <2>1. PICK S, T : /\ S = {"reading"}
                    /\ T = {"reading", "writing"} /\ T = S \cup {"writing"}
                    /\ IsFiniteSet(S) /\ Cardinality(S) = 1
                    /\ "writing" \notin S
    BY <1>1, <1>2
  <2>2. IsFiniteSet(T) /\ Cardinality(T) = 2
    BY ONLY <2>1, FS_AddElement
  <2>3. QED
    BY <2>1, <2>2
<1>4. Cardinality(L) \in Nat
  BY FS_CardinalityType
<1>5. Cardinality(L \X {"reading", "writing"}) = Cardinality(L) * 2
  BY <1>3, FS_Product
<1>6. QED
  BY <1>4, <1>5

LEMMA EndsInitially == Init => Room
<1> SUFFICES ASSUME Init PROVE Room
  OBVIOUS
<1>1. lost = {} /\ Used = {} /\ pc = "enter"
  BY DEF Init, Used
<1>2. IsFiniteSet(lost) /\ Cardinality(lost) = 0 /\ Cardinality(Used) = 0
  BY <1>1, FS_EmptySet
<1>3. Ends = 0
  BY <1>2, EndsCounted DEF Ends, LostEnds
<1>4. QED
  BY <1>1, <1>2, <1>3 DEF Room

\* A failed fork leaves both ends open, a child takes one of them away; and
\* no pipe is made unless there is room for two.
LEMMA RoomStep ==
    ASSUME IInv, Room, [Next]_vars
    PROVE  Room'
<1>1. PICK u \in Nat, n \in Nat :
        /\ u = Cardinality(Used) /\ n = Cardinality(lost)
        /\ Ends = u + 2 * n
  BY UsedFinite, EndsCounted DEF Room, Ends, LostEnds
<1>2. CASE UNCHANGED <<childpipes, lost>>
  <2>1. Ends' = Ends /\ lost' = lost
    BY <1>2 DEF Ends, LostEnds, Used
  <2>2. pc' \in {"fork", "record"} =>
          pc \in {"fork", "record"} \/ (Accept /\ ~NoFile(3))
    BY DEF Next, ParentStep, Environment, vars, parent, Connect, Authenticate,
       ChildExit, Terminate, EnterSelect, Interrupted, SelectReturns, CloseFds,
       SkipListener, AcceptFails, Accept, NextListener, Fork, ForkFails, Record
  <2>3. ~NoFile(3) => Ends + 3 <= Descriptors
    BY <1>1 DEF NoFile, Ends
  <2>4. QED
    BY <2>1, <2>2, <2>3 DEF Room
<1>3. CASE CloseFds
  <2>1. Used' \subseteq Used /\ lost' = lost /\ pc' = "accept"
    BY <1>3, ClosedSlots DEF CloseFds, IInv
  <2>2. PICK v \in Nat : v = Cardinality(Used') /\ v <= u
    <3>1. PICK S, T : /\ S = Used /\ T = Used' /\ T \subseteq S
                      /\ IsFiniteSet(S) /\ Cardinality(S) = u
      BY <1>1, <2>1, UsedFinite
    <3>2. /\ IsFiniteSet(T) /\ Cardinality(T) <= Cardinality(S)
          /\ Cardinality(T) \in Nat
      BY ONLY <3>1, FS_Subset, FS_CardinalityType
    <3>3. QED
      BY <3>1, <3>2
  <2>3. Ends' = v + 2 * n
    BY <1>1, <2>1, <2>2, EndsCounted DEF Room, Ends, LostEnds
  <2>4. QED
    BY <1>1, <2>1, <2>2, <2>3 DEF Room
<1>4. CASE Record
  <2>1. /\ Used' = Used \cup {accepted.idx} /\ lost' = lost
        /\ pc = "record" /\ pc' \in {"enter", "accept"}
    BY <1>4, RecordedSlots DEF Record, NextListener, IInv
  <2>2. PICK v \in Nat : v = Cardinality(Used') /\ v <= u + 1
    <3>1. PICK S, T, x : /\ S = Used /\ T = Used' /\ T = S \cup {x}
                         /\ IsFiniteSet(S) /\ Cardinality(S) = u
      BY <1>1, <2>1, UsedFinite
    <3>2. Cardinality(T) = u \/ Cardinality(T) = u + 1
      BY ONLY <3>1, FS_AddElement
    <3>3. Cardinality(T) \in Nat /\ Cardinality(T) <= u + 1
      BY ONLY <3>2, u \in Nat
    <3>4. QED
      BY <3>1, <3>3
  <2>3. Ends' = v + 2 * n
    BY <1>1, <2>1, <2>2, EndsCounted DEF Room, Ends, LostEnds
  <2>4. QED
    BY <1>1, <2>1, <2>2, <2>3 DEF Room
<1>5. CASE ForkFails
  <2>1. /\ lost' = lost \cup {accepted.conn} /\ Used' = Used
        /\ pc = "fork" /\ pc' \in {"enter", "accept"}
    BY <1>5 DEF ForkFails, NextListener, Used
  <2>2. PICK L, M, x : /\ L = lost /\ M = lost' /\ M = L \cup {x}
                       /\ IsFiniteSet(L) /\ Cardinality(L) = n
    BY <1>1, <2>1 DEF Room
  <2>3. PICK m \in Nat : /\ IsFiniteSet(lost')
                         /\ m = Cardinality(lost') /\ m <= n + 1
    <3>1. /\ IsFiniteSet(M)
          /\ Cardinality(M) = n \/ Cardinality(M) = n + 1
      BY ONLY <2>2, FS_AddElement
    <3>2. Cardinality(M) \in Nat /\ Cardinality(M) <= n + 1
      BY ONLY <3>1, n \in Nat
    <3>3. QED
      BY <2>2, <3>1, <3>2
  <2>4. Ends' = u + 2 * m
    BY <1>1, <2>1, <2>2, <2>3, EndsCounted DEF Ends, LostEnds
  <2>5. QED
    BY <1>1, <2>1, <2>2, <2>3, <2>4 DEF Room
<1>6. QED
  BY <1>2, <1>3, <1>4, <1>5 DEF Next, ParentStep, Environment, vars, parent,
     Connect, Authenticate, ChildExit, Terminate, EnterSelect, Interrupted,
     SelectReturns, SkipListener, AcceptFails, Accept, Fork

\* accept() has a descriptor, however many forks have failed.
THEOREM DescriptorKept == Spec => []DescriptorLeft
<1>1. IInv /\ Room => DescriptorLeft
  BY UsedFinite, EndsCounted DEF Room, Ends, DescriptorLeft, NoFile, LostEnds
<1>2. IInv /\ Room /\ [Next]_vars => Room'
  BY RoomStep
<1>3. QED
  BY <1>1, <1>2, EndsInitially, Invariance, PTL DEF Spec
=============================================================================
