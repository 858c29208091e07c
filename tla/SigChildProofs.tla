--------------------------- MODULE SigChildProofs ---------------------------
(***************************************************************************)
(* Proofs about the SIGCHLD handler and the table of children, for any     *)
(* number of sessions.                                                     *)
(***************************************************************************)
EXTENDS SigChild, SequenceTheorems, FiniteSetTheorems,
        WellFoundedInduction, TLAPS

Free == [pid |-> None, chansess |-> None]
Entry(s) == [pid |-> s, chansess |-> s]

Starting == {"fork", "addchildpid", "setpid", "setchansess", "compare", "copy",
             "reset", "started"}
\* The labels at which addchildpid() is done but its caller is not
Added == {"compare", "copy", "reset", "started"}
\* The labels at which an exit may be kept in lastexit alone
Uncompared == {"addchildpid", "setpid", "setchansess", "compare", "copy"}

Types ==
    /\ proc \in [Session -> {"none", "running", "zombie", "reaped"}]
    /\ output \in [Session -> {"open", "eof", "read"}]
    /\ chan \in [Session -> {"new", "starting", "running", "closed"}]
    /\ childpids \in Seq([pid : 0 .. N, chansess : 0 .. N])
    /\ exit \in [Session -> 0 .. N]
    /\ lastexit \in 0 .. N
    /\ pending \in BOOLEAN /\ pipe \in BOOLEAN /\ sigchld \in BOOLEAN
    /\ handler \in BOOLEAN /\ bad \in BOOLEAN /\ check \in BOOLEAN
    /\ pc \in Label
    /\ cur \in 1 .. N + 1
    /\ slot \in Nat \ {0}
    /\ events \subseteq Session

\* Where the loop is agrees with the state of the sessions.
LoopInv ==
    /\ \A s \in Session : chan[s] = "starting" <=> pc \in Starting /\ cur = s
    /\ pc \in Starting \cup {"test", "clear", "close"} => cur \in Session
    /\ \A s \in Session :
         proc[s] = "none" <=> chan[s] = "new" \/ (pc = "fork" /\ cur = s)

HasEntry(s) == chan[s] = "running" \/ (chan[s] = "starting" /\ pc \in Added)

\* The table holds one entry for each session that should have one, unused
\* entries, and the one addchildpid() is filling in.
TableInv ==
    /\ \A i \in DOMAIN childpids :
         \/ childpids[i] = Free
         \/ \E s \in Session : childpids[i] = Entry(s) /\ HasEntry(s)
         \/ /\ i = slot /\ pc = "setchansess"
            /\ childpids[i] = [pid |-> cur, chansess |-> None]
    /\ \A s \in Session :
         HasEntry(s) => \E i \in DOMAIN childpids : childpids[i] = Entry(s)
    /\ \A i, j \in DOMAIN childpids :
         childpids[i].pid = childpids[j].pid => i = j \/ childpids[i].pid = None
    /\ Len(childpids) <= N
    /\ pc = "setpid" => slot \in DOMAIN childpids /\ childpids[slot] = Free
    /\ pc = "setchansess" =>
         /\ slot \in DOMAIN childpids
         /\ childpids[slot] = [pid |-> cur, chansess |-> None]

\* What is recorded of an exit is right ...
ExitInv ==
    /\ \A s \in Session :
         /\ exit[s] \in {None, s}
         /\ exit[s] = s => proc[s] = "reaped"
         /\ chan[s] = "closed" => exit[s] = s
    /\ lastexit # None => proc[lastexit] = "reaped"
    /\ pc = "copy" => /\ lastexit # None
                      /\ slot \in DOMAIN childpids
                      /\ childpids[slot] = Entry(lastexit)

\* ... and, but for sessions with a pty, which ptycommand() starts without
\* looking at lastexit, it is recorded in the session or will be.
KeptInv ==
    \A s \in Session \ PtySessions :
       proc[s] = "reaped" =>
         \/ exit[s] = s
         \/ bad
         \/ s = cur /\ lastexit = s /\ pc \in Uncompared

IInv == Types /\ LoopInv /\ TableInv /\ ExitInv

---------------------------------------------------------------------------
(* Types *)

\* TypeOK puts the Boolean variables in one tuple.
LEMMA TypesTypeOK == Types <=> TypeOK
BY DEF Types, TypeOK

\* The constants are those of a server with at least one session.
LEMMA NNat == N \in Nat \ {0} /\ PtySessions \subseteq Session /\ None \notin Session
BY SessionAssumption DEF Session, None

\* An entry that matches a pid is found, and is an entry of the table.
LEMMA FirstMatch ==
    ASSUME Types, NEW pid, Matches(pid) # {}
    PROVE  /\ FirstOf(Matches(pid)) \in DOMAIN childpids
           /\ childpids[FirstOf(Matches(pid))].pid = pid
<1>1. Matches(pid) \in SUBSET Nat
  BY DEF Types, Matches
<1>2. \E i \in Matches(pid) :
         \A j \in Matches(pid) : ~(<<j, i>> \in OpToRel(<, Nat))
  BY <1>1, NatLessThanWellFounded, WFMin
<1>3. PICK i \in Matches(pid) : \A j \in Matches(pid) : ~(j < i)
  BY <1>1, <1>2 DEF OpToRel
<1>9. QED
  BY <1>1, <1>3 DEF FirstOf, Matches

---------------------------------------------------------------------------
(* The steps that change the table or the records of exits *)

\* Assigning one entry of the table changes no other and not its length.
LEMMA Assigned ==
    ASSUME Types, NEW i \in DOMAIN childpids,
           NEW r \in [pid : 0 .. N, chansess : 0 .. N],
           childpids' = [childpids EXCEPT ![i] = r]
    PROVE  /\ childpids' \in Seq([pid : 0 .. N, chansess : 0 .. N])
           /\ Len(childpids') = Len(childpids)
           /\ DOMAIN childpids' = DOMAIN childpids
           /\ \A j \in DOMAIN childpids :
                childpids'[j] = IF j = i THEN r ELSE childpids[j]
<1>1. /\ childpids \in Seq([pid : 0 .. N, chansess : 0 .. N])
      /\ i \in 1 .. Len(childpids)
  BY DEF Types
<1>2. QED
  BY <1>1, ExceptSeq

\* A zombie whose pid is not in the table is the one being started, and no
\* entry holds the pid of another session than its own.
LEMMA WhoMatches ==
    ASSUME IInv, NEW pid \in Session, proc[pid] = "zombie"
    PROVE  /\ Matches(pid) = {} => chan[pid] = "starting" /\ pc \notin Added
           /\ \A i \in Matches(pid) :
                \/ childpids[i].chansess = pid
                \/ childpids[i].chansess = None /\ pc = "setchansess" /\ cur = pid
<1>1. chan[pid] # "new" /\ chan[pid] # "closed"
  BY NNat DEF IInv, Types, LoopInv, ExitInv
<1>2. ASSUME Matches(pid) = {} PROVE chan[pid] = "starting" /\ pc \notin Added
  BY <1>1, <1>2 DEF IInv, Types, TableInv, HasEntry, Entry, Matches, Added
<1>3. ASSUME NEW i \in Matches(pid)
      PROVE  \/ childpids[i].chansess = pid
             \/ childpids[i].chansess = None /\ pc = "setchansess" /\ cur = pid
  BY NNat DEF IInv, TableInv, Matches, Free, Entry
<1>4. QED
  BY <1>2, <1>3

\* waitpid(): the exit goes to the session of the pid, or to lastexit.
LEMMA ReapIInv == ASSUME IInv, NEW pid \in Session, Reap(pid) PROVE IInv'
<1> DEFINE first == FirstOf(Matches(pid))
<1>1. /\ proc[pid] = "zombie" /\ ~bad
      /\ proc' = [proc EXCEPT ![pid] = "reaped"] /\ pipe' = TRUE
      /\ UNCHANGED <<output, childpids, pending, sigchld, handler, loop, chan>>
  BY DEF Reap
<1>2. \/ /\ Matches(pid) = {} /\ lastexit' = pid /\ exit' = exit /\ bad' = bad
      \/ /\ Matches(pid) # {} /\ childpids[first].chansess = None
         /\ lastexit' = lastexit /\ exit' = exit /\ bad' = TRUE
      \/ /\ Matches(pid) # {} /\ childpids[first].chansess = pid
         /\ lastexit' = lastexit /\ exit' = [exit EXCEPT ![pid] = pid] /\ bad' = bad
  <2>1. CASE Matches(pid) = {}
    BY <2>1 DEF Reap
  <2>2. CASE Matches(pid) # {}
    <3>1. first \in Matches(pid)
      BY <2>2, FirstMatch DEF IInv, Matches
    <3>2. childpids[first].chansess \in {None, pid}
      BY <1>1, <3>1, WhoMatches
    <3>3. QED
      BY <2>2, <3>2, NNat DEF Reap
  <2>3. QED
    BY <2>1, <2>2
<1>3. Types'
  <2>1. pid \in 0 .. N
    BY NNat DEF Session
  <2>2. exit' \in [Session -> 0 .. N] /\ lastexit' \in 0 .. N
    BY <1>2, <2>1 DEF IInv, Types
  <2>3. bad' \in BOOLEAN
    <3>1. bad' = TRUE \/ bad' = bad
      BY <1>2
    <3>2. bad \in BOOLEAN
      BY DEF IInv, Types
    <3>3. QED
      BY <3>1, <3>2
  <2>4. QED
    BY <1>1, <2>2, <2>3 DEF IInv, Types, loop
<1>4. LoopInv' /\ TableInv'
  BY <1>1 DEF IInv, Types, LoopInv, TableInv, HasEntry, loop
<1>5. Matches(pid) = {} => pc # "copy"
  BY <1>1, WhoMatches DEF Added
<1>6. ExitInv'
  <2>1. /\ \A s \in Session : exit'[s] = exit[s] \/ (s = pid /\ exit'[s] = pid)
        /\ \A s \in Session : s # pid => proc'[s] = proc[s]
        /\ proc'[pid] = "reaped"
    BY <1>1, <1>2 DEF IInv, Types
  <2>2. \A s \in Session :
          /\ exit'[s] \in {None, s}
          /\ exit'[s] = s => proc'[s] = "reaped"
          /\ chan'[s] = "closed" => exit'[s] = s
    BY <1>1, <2>1 DEF IInv, ExitInv
  <2>3. lastexit' # None => proc'[lastexit'] = "reaped"
    <3>1. lastexit' = lastexit \/ lastexit' = pid
      BY <1>2
    <3>2. lastexit # None => lastexit \in Session
      BY NNat DEF IInv, Types, Session, None
    <3>3. QED
      BY <2>1, <3>1, <3>2 DEF IInv, ExitInv
  <2>4. pc = "copy" => lastexit' = lastexit
    BY <1>2, <1>5
  <2>5. QED
    BY <1>1, <2>2, <2>3, <2>4 DEF IInv, ExitInv, loop
<1>7. QED
  BY <1>3, <1>4, <1>6 DEF IInv

\* select() returns
LEMMA WakeIInv ==
    ASSUME IInv, NEW request \in SUBSET Session, NEW interrupted \in BOOLEAN,
           Wake(request, interrupted)
    PROVE  IInv'
<1>1. /\ pc = "select" /\ events' \subseteq Session
      /\ pipe' \in BOOLEAN
      /\ UNCHANGED <<childpids, exit, lastexit, pending, slot, check, procs, signal>>
  BY DEF Wake, At
<1>2. \/ pc' = "io" /\ cur' = 1 /\ chan' = chan
      \/ \E s \in Session : /\ chan[s] = "new"
                            /\ chan' = [chan EXCEPT ![s] = "starting"]
                            /\ pc' = "fork" /\ cur' = s
  BY DEF Wake
<1>3. Types'
  <2>1. chan' \in [Session -> {"new", "starting", "running", "closed"}]
    <3>1. chan \in [Session -> {"new", "starting", "running", "closed"}]
      BY DEF IInv, Types
    <3>2. QED
      BY <1>2, <3>1
  <2>2. cur' \in 1 .. N + 1 /\ pc' \in Label
    BY <1>2, NNat DEF Label, Session
  <2>3. QED
    BY <1>1, <2>1, <2>2 DEF IInv, Types, procs, signal
<1>4. LoopInv'
  BY <1>1, <1>2, NNat DEF IInv, Types, LoopInv, Session, Starting, procs
<1>5. \A s \in Session : /\ HasEntry(s)' <=> HasEntry(s)
                         /\ chan'[s] = "closed" <=> chan[s] = "closed"
  BY <1>1, <1>2 DEF IInv, Types, HasEntry, Added
<1>6. pc' \in {"io", "fork"}
  BY <1>2
<1>7. TableInv'
  BY <1>1, <1>5, <1>6 DEF IInv, TableInv
<1>8. ExitInv'
  BY <1>1, <1>5, <1>6 DEF IInv, ExitInv, procs
<1>9. QED
  BY <1>3, <1>4, <1>7, <1>8 DEF IInv

\* addchildpid() enters the pid.
LEMMA SetPidIInv == ASSUME IInv, SetPid PROVE IInv'
<1> DEFINE r == [pid |-> cur, chansess |-> None]
<1>1. /\ pc = "setpid" /\ pc' = "setchansess" /\ cur \in Session
      /\ slot \in DOMAIN childpids /\ childpids[slot] = Free
      /\ UNCHANGED <<exit, lastexit, pending, pipe, cur, slot, events, check, procs,
                     signal, chan>>
  BY DEF IInv, LoopInv, TableInv, Starting, SetPid, At
<1>2. childpids' = [childpids EXCEPT ![slot] = r]
  <2>1. [Free EXCEPT !.pid = cur] = r
    BY DEF Free
  <2>2. QED
    BY <1>1, <2>1 DEF SetPid
<1>3. r \in [pid : 0 .. N, chansess : 0 .. N]
  BY <1>1, NNat DEF Session, None
<1>4. /\ childpids' \in Seq([pid : 0 .. N, chansess : 0 .. N])
      /\ Len(childpids') = Len(childpids)
      /\ DOMAIN childpids' = DOMAIN childpids
      /\ \A j \in DOMAIN childpids :
           childpids'[j] = IF j = slot THEN r ELSE childpids[j]
  BY <1>1, <1>2, <1>3, Assigned DEF IInv
<1>5. Types'
  BY <1>1, <1>4 DEF IInv, Types, Label, procs, signal
<1>6. LoopInv'
  BY <1>1 DEF IInv, Types, LoopInv, Starting, procs
<1>7. chan[cur] = "starting"
  BY <1>1 DEF IInv, LoopInv, Starting
<1>8. \A s \in Session : HasEntry(s)' <=> HasEntry(s)
  BY <1>1 DEF HasEntry, Added
<1>9. \A i \in DOMAIN childpids : childpids[i].pid # cur
  BY <1>1, <1>7, NNat DEF IInv, TableInv, HasEntry, Entry, Free, Added
<1>10. TableInv'
  <2>1. \A i \in DOMAIN childpids' :
         \/ childpids'[i] = Free
         \/ \E s \in Session : childpids'[i] = Entry(s) /\ HasEntry(s)'
         \/ i = slot /\ childpids'[i] = r
    BY <1>1, <1>4, <1>8 DEF IInv, TableInv
  <2>2. \A s \in Session :
         HasEntry(s)' => \E i \in DOMAIN childpids' : childpids'[i] = Entry(s)
    BY <1>1, <1>4, <1>8, NNat DEF IInv, TableInv, Free, Entry
  <2>3. \A i, j \in DOMAIN childpids' :
         childpids'[i].pid = childpids'[j].pid => i = j \/ childpids'[i].pid = None
    BY <1>4, <1>9 DEF IInv, TableInv
  <2>4. QED
    BY <1>1, <1>4, <2>1, <2>2, <2>3 DEF IInv, TableInv
<1>11. ExitInv'
  BY <1>1 DEF IInv, ExitInv, procs
<1>12. QED
  BY <1>5, <1>6, <1>10, <1>11 DEF IInv

\* addchildpid() enters the session.
LEMMA SetChansessIInv == ASSUME IInv, SetChansess PROVE IInv'
<1>1. /\ pc = "setchansess" /\ pc' \in {"started", "compare"} /\ cur \in Session
      /\ slot \in DOMAIN childpids
      /\ childpids[slot] = [pid |-> cur, chansess |-> None]
      /\ UNCHANGED <<exit, lastexit, pending, pipe, cur, slot, events, check, procs,
                     signal, chan>>
  BY DEF IInv, LoopInv, TableInv, Starting, SetChansess, At
<1>2. childpids' = [childpids EXCEPT ![slot] = Entry(cur)]
  <2>1. [[pid |-> cur, chansess |-> None] EXCEPT !.chansess = cur] = Entry(cur)
    BY DEF Entry
  <2>2. QED
    BY <1>1, <2>1 DEF SetChansess
<1>3. Entry(cur) \in [pid : 0 .. N, chansess : 0 .. N]
  BY <1>1, NNat DEF Session, Entry
<1>4. /\ childpids' \in Seq([pid : 0 .. N, chansess : 0 .. N])
      /\ Len(childpids') = Len(childpids)
      /\ DOMAIN childpids' = DOMAIN childpids
      /\ \A j \in DOMAIN childpids :
           childpids'[j] = IF j = slot THEN Entry(cur) ELSE childpids[j]
  BY <1>1, <1>2, <1>3, Assigned DEF IInv
<1>5. Types'
  BY <1>1, <1>4 DEF IInv, Types, Label, procs, signal
<1>6. LoopInv'
  BY <1>1 DEF IInv, Types, LoopInv, Starting, procs
<1>7. chan[cur] = "starting"
  BY <1>1 DEF IInv, LoopInv, Starting
<1>8. \A s \in Session : HasEntry(s)' <=> HasEntry(s) \/ s = cur
  BY <1>1, <1>7 DEF IInv, LoopInv, HasEntry, Added
<1>9. TableInv'
  <2>1. \A i \in DOMAIN childpids' :
         \/ childpids'[i] = Free
         \/ \E s \in Session : childpids'[i] = Entry(s) /\ HasEntry(s)'
    BY <1>1, <1>4, <1>8 DEF IInv, TableInv
  <2>2. \A s \in Session :
         HasEntry(s)' => \E i \in DOMAIN childpids' : childpids'[i] = Entry(s)
    BY <1>1, <1>4, <1>8, NNat DEF IInv, TableInv, Entry
  <2>3. \A i, j \in DOMAIN childpids' :
         childpids'[i].pid = childpids'[j].pid => i = j \/ childpids'[i].pid = None
    BY <1>1, <1>4 DEF IInv, TableInv, Entry
  <2>4. QED
    BY <1>1, <1>4, <2>1, <2>2, <2>3 DEF IInv, TableInv
<1>10. ExitInv'
  BY <1>1 DEF IInv, ExitInv, procs
<1>11. QED
  BY <1>5, <1>6, <1>9, <1>10 DEF IInv

\* noptycommand() compares lastexit with the table.
LEMMA CompareIInv == ASSUME IInv, CompareLastExit PROVE IInv'
<1> DEFINE first == FirstOf(Matches(lastexit))
<1>1. /\ pc = "compare"
      /\ \/ /\ lastexit # None /\ Matches(lastexit) # {}
            /\ pc' = "copy" /\ slot' = first
         \/ pc' = "started" /\ slot' = slot
      /\ UNCHANGED <<shared, cur, events, check, procs, signal, chan>>
  BY DEF CompareLastExit, At
<1>2. Matches(lastexit) # {} =>
        first \in DOMAIN childpids /\ childpids[first].pid = lastexit
  BY FirstMatch DEF IInv
<1>3. lastexit # None /\ Matches(lastexit) # {} => childpids[first] = Entry(lastexit)
  BY <1>1, <1>2, NNat DEF IInv, TableInv, Free, Entry
<1>4. Types'
  <2>1. slot' \in Nat \ {0}
    BY <1>1, <1>2 DEF IInv, Types
  <2>2. QED
    BY <1>1, <2>1 DEF IInv, Types, Label, shared, procs, signal
<1>5. LoopInv'
  BY <1>1 DEF IInv, LoopInv, Starting, procs
<1>6. TableInv'
  BY <1>1 DEF IInv, TableInv, HasEntry, Added, shared
<1>7. ExitInv'
  BY <1>1, <1>2, <1>3 DEF IInv, ExitInv, shared, procs
<1>8. QED
  BY <1>4, <1>5, <1>6, <1>7 DEF IInv

\* check_close() of a session whose exit is recorded
LEMMA CheckCloseIInv == ASSUME IInv, CheckClose PROVE IInv'
<1>1. /\ pc = "close" /\ pc' = "io" /\ cur \in Session /\ cur' = cur + 1
      /\ check' = FALSE
      /\ UNCHANGED <<exit, lastexit, pending, pipe, slot, events, procs, signal>>
  BY DEF IInv, LoopInv, CheckClose, At
<1>2. CASE UNCHANGED <<chan, childpids>>
  <2>1. Types'
    <3>1. cur' \in 1 .. N + 1 /\ pc' \in Label
      BY <1>1, NNat DEF Label, Session
    <3>2. QED
      BY <1>1, <1>2, <3>1 DEF IInv, Types, procs, signal
  <2>2. LoopInv'
    BY <1>1, <1>2, NNat DEF IInv, Types, LoopInv, Starting, Session, procs
  <2>3. TableInv' /\ ExitInv'
    BY <1>1, <1>2 DEF IInv, TableInv, ExitInv, HasEntry, Added, procs
  <2>4. QED
    BY <2>1, <2>2, <2>3 DEF IInv
<1>3. CASE /\ exit[cur] # None
           /\ chan' = [chan EXCEPT ![cur] = "closed"]
           /\ childpids' = ClearEntries(cur)
  <2>1. exit[cur] = cur /\ proc[cur] = "reaped" /\ chan[cur] \in {"running", "closed"}
    BY <1>1, <1>3, NNat DEF IInv, Types, LoopInv, ExitInv, Starting
  <2>2. Free \in [pid : 0 .. N, chansess : 0 .. N]
    BY NNat DEF Free, None
  <2>3. /\ childpids' \in Seq([pid : 0 .. N, chansess : 0 .. N])
        /\ Len(childpids') = Len(childpids)
        /\ DOMAIN childpids' = DOMAIN childpids
        /\ \A i \in DOMAIN childpids :
             childpids'[i] = IF childpids[i].chansess = cur THEN Free ELSE childpids[i]
    <3>1. childpids' = [i \in 1 .. Len(childpids) |->
                         IF childpids[i].chansess = cur THEN Free ELSE childpids[i]]
      BY <1>3 DEF IInv, Types, ClearEntries, Free
    <3>2. /\ childpids \in Seq([pid : 0 .. N, chansess : 0 .. N])
          /\ Len(childpids) \in Nat
          /\ \A i \in 1 .. Len(childpids) :
               childpids[i] \in [pid : 0 .. N, chansess : 0 .. N]
      BY ElementOfSeq, LenProperties DEF IInv, Types
    <3>3. childpids' \in [1 .. Len(childpids) -> [pid : 0 .. N, chansess : 0 .. N]]
      BY <2>2, <3>1, <3>2
    <3>4. childpids' \in Seq([pid : 0 .. N, chansess : 0 .. N])
      <4>1. DEFINE n == Len(childpids)
                   R == [pid : 0 .. N, chansess : 0 .. N]
      <4>2. n \in Nat /\ childpids' \in [1 .. n -> R]
        BY <3>2, <3>3
      <4>3. HIDE DEF n, R
      <4>4. childpids' \in Seq(R)
        BY <4>2, SeqDef
      <4>5. QED
        BY <4>4 DEF R
    <3>5. QED
      BY <3>1, <3>2, <3>3, <3>4, LenProperties
  <2>4. Types'
    <3>1. cur' \in 1 .. N + 1 /\ pc' \in Label
      BY <1>1, NNat DEF Label, Session
    <3>2. chan' \in [Session -> {"new", "starting", "running", "closed"}]
      BY <1>3 DEF IInv, Types
    <3>3. QED
      BY <1>1, <2>3, <3>1, <3>2 DEF IInv, Types, procs, signal
  <2>5. LoopInv'
    BY <1>1, <1>3, <2>1, NNat DEF IInv, Types, LoopInv, Starting, Session, procs
  <2>6. \A s \in Session : HasEntry(s)' <=> HasEntry(s) /\ s # cur
    BY <1>1, <1>3, <2>1 DEF IInv, Types, LoopInv, HasEntry, Added
  <2>7. TableInv'
    <3>1. \A i \in DOMAIN childpids' :
           \/ childpids'[i] = Free
           \/ \E s \in Session : childpids'[i] = Entry(s) /\ HasEntry(s)'
      BY <1>1, <2>3, <2>6 DEF IInv, TableInv, Entry
    <3>2. \A s \in Session :
           HasEntry(s)' => \E i \in DOMAIN childpids' : childpids'[i] = Entry(s)
      BY <1>1, <2>3, <2>6 DEF IInv, TableInv, Entry
    <3>3. \A i, j \in DOMAIN childpids' :
           childpids'[i].pid = childpids'[j].pid => i = j \/ childpids'[i].pid = None
      <4>1. Free.pid = None
        BY DEF Free
      <4>2. QED
        BY <2>3, <4>1 DEF IInv, TableInv
    <3>4. QED
      BY <1>1, <2>3, <3>1, <3>2, <3>3 DEF IInv, TableInv
  <2>8. ExitInv'
    BY <1>1, <1>3, <2>1 DEF IInv, Types, ExitInv, procs
  <2>9. QED
    BY <2>4, <2>5, <2>7, <2>8 DEF IInv
<1>4. QED
  BY <1>2, <1>3 DEF CheckClose

\* A new entry is made only when every entry is in use, by another session.
LEMMA RoomForOne ==
    ASSUME IInv, pc = "addchildpid", Matches(None) = {}
    PROVE  Len(childpids) + 1 <= N
<1> DEFINE f == [i \in 1 .. Len(childpids) |-> childpids[i].pid]
           Others == Session \ {cur}
<1>1. cur \in Session /\ chan[cur] = "starting"
  BY DEF IInv, LoopInv, Starting
<1>2. Len(childpids) \in Nat /\ DOMAIN childpids = 1 .. Len(childpids)
  BY DEF IInv, Types
<1>3. \A i \in 1 .. Len(childpids) :
        \E s \in Session : childpids[i] = Entry(s) /\ HasEntry(s)
  BY <1>2 DEF IInv, TableInv, Matches, Free
<1>4. \A i \in 1 .. Len(childpids) : childpids[i].pid \in Others
  <2>1. TAKE i \in 1 .. Len(childpids)
  <2>2. PICK s \in Session : childpids[i] = Entry(s) /\ HasEntry(s)
    BY <1>3
  <2>3. childpids[i].pid = s
    BY <2>2 DEF Entry
  <2>4. s # cur
    BY <1>1, <2>2 DEF HasEntry, Added
  <2>5. QED
    BY <2>3, <2>4
<1>5. \A i, j \in 1 .. Len(childpids) :
        childpids[i].pid = childpids[j].pid => i = j
  BY <1>2, <1>4, NNat DEF IInv, TableInv
<1>6. f \in Injection(1 .. Len(childpids), Others)
  BY <1>4, <1>5 DEF Injection, IsInjective
<1>7. IsFiniteSet(Session) /\ Cardinality(Session) = N
  BY NNat, FS_Interval DEF Session
<1>8. IsFiniteSet(Others) /\ Cardinality(Others) = N - 1
  BY <1>1, <1>7, FS_RemoveElement
<1>9. Cardinality(1 .. Len(childpids)) <= N - 1
  BY <1>6, <1>8, FS_Injection
<1>10. Cardinality(1 .. Len(childpids)) = Len(childpids)
  <2>1. Cardinality(1 .. Len(childpids)) =
          IF 1 > Len(childpids) THEN 0 ELSE Len(childpids) - 1 + 1
    BY <1>2, FS_Interval
  <2>2. QED
    BY <1>2, <2>1
<1>11. QED
  BY <1>2, <1>9, <1>10, NNat

\* addchildpid() finds an entry.
LEMMA FindEntryIInv == ASSUME IInv, FindEntry PROVE IInv'
<1> DEFINE R == [pid : 0 .. N, chansess : 0 .. N]
<1>1. /\ pc = "addchildpid" /\ pc' = "setpid" /\ cur \in Session
      /\ UNCHANGED <<exit, lastexit, pending, pipe, cur, events, check, procs,
                     signal, chan>>
  BY DEF IInv, LoopInv, Starting, FindEntry, At
<1>2. childpids \in Seq(R) /\ Len(childpids) \in Nat
      /\ DOMAIN childpids = 1 .. Len(childpids)
  BY DEF IInv, Types
<1>3. Free \in R
  BY NNat DEF Free, None
<1>4. /\ childpids' \in Seq(R) /\ Len(childpids') \in Nat
      /\ DOMAIN childpids' = 1 .. Len(childpids')
      /\ Len(childpids) <= Len(childpids') /\ Len(childpids') <= N
      /\ \A i \in 1 .. Len(childpids) : childpids'[i] = childpids[i]
      /\ \A i \in 1 .. Len(childpids') : i > Len(childpids) => childpids'[i] = Free
      /\ slot' \in 1 .. Len(childpids') /\ childpids'[slot'] = Free
  <2>1. CASE Matches(None) # {}
    <3>1. slot' = FirstOf(Matches(None)) /\ childpids' = childpids
      BY <2>1 DEF FindEntry
    <3>2. slot' \in DOMAIN childpids /\ childpids[slot'].pid = None
      BY <2>1, <3>1, FirstMatch DEF IInv
    <3>3. childpids[slot'] = Free
      BY <1>1, <3>2, NNat DEF IInv, TableInv, Entry
    <3>4. Len(childpids) <= N
      BY DEF IInv, TableInv
    <3>5. QED
      BY <1>2, <3>1, <3>2, <3>3, <3>4
  <2>2. CASE Matches(None) = {}
    <3>1. slot' = Len(childpids) + 1 /\ childpids' = Append(childpids, Free)
      BY <2>2 DEF FindEntry, Free
    <3>2. Len(childpids) + 1 <= N
      BY <1>1, <2>2, RoomForOne
    <3>3. /\ childpids' \in Seq(R) /\ Len(childpids') = Len(childpids) + 1
          /\ \A i \in 1 .. Len(childpids) : childpids'[i] = childpids[i]
          /\ childpids'[Len(childpids) + 1] = Free
      BY <1>2, <1>3, <3>1, AppendProperties
    <3>4. DOMAIN childpids' = 1 .. Len(childpids')
      BY <3>3, LenProperties
    <3>5. QED
      BY <1>2, <3>1, <3>2, <3>3, <3>4
  <2>3. QED
    BY <2>1, <2>2
<1>5. Types'
  <2>1. slot' \in Nat \ {0} /\ pc' \in Label
    BY <1>1, <1>4 DEF Label
  <2>2. QED
    BY <1>1, <1>4, <2>1 DEF IInv, Types, procs, signal
<1>6. LoopInv'
  BY <1>1 DEF IInv, Types, LoopInv, Starting, procs
<1>7. \A s \in Session : HasEntry(s)' <=> HasEntry(s)
  BY <1>1 DEF HasEntry, Added
<1>8. TableInv'
  <2>1. \A i \in DOMAIN childpids' :
          \/ childpids'[i] = Free
          \/ \E s \in Session : childpids'[i] = Entry(s) /\ HasEntry(s)'
    <3>1. TAKE i \in DOMAIN childpids'
    <3>2. CASE i <= Len(childpids)
      <4>1. i \in DOMAIN childpids /\ childpids'[i] = childpids[i]
        BY <1>2, <1>4, <3>2
      <4>2. childpids[i] = Free \/ \E s \in Session : childpids[i] = Entry(s) /\ HasEntry(s)
        BY <1>1, <4>1 DEF IInv, TableInv
      <4>3. QED
        BY <1>7, <4>1, <4>2
    <3>3. CASE i > Len(childpids)
      BY <1>4, <3>3
    <3>4. QED
      BY <1>2, <1>4, <3>2, <3>3
  <2>2. \A s \in Session :
          HasEntry(s)' => \E i \in DOMAIN childpids' : childpids'[i] = Entry(s)
    <3>1. TAKE s \in Session
    <3>2. HAVE HasEntry(s)'
    <3>3. PICK i \in DOMAIN childpids : childpids[i] = Entry(s)
      BY <1>7, <3>2 DEF IInv, TableInv
    <3>4. i \in DOMAIN childpids' /\ childpids'[i] = childpids[i]
      <4> DEFINE n == Len(childpids)
                 m == Len(childpids')
      <4>1. /\ n \in Nat /\ DOMAIN childpids = 1 .. n
            /\ m \in Nat /\ DOMAIN childpids' = 1 .. m /\ n <= m
            /\ \A j \in 1 .. n : childpids'[j] = childpids[j]
        BY <1>2, <1>4
      <4> HIDE DEF n, m
      <4>2. QED
        BY <4>1
    <3>5. QED
      BY <3>3, <3>4
  <2>3. Free.pid = None
    BY DEF Free
  <2>4. \A i, j \in DOMAIN childpids' :
          childpids'[i].pid = childpids'[j].pid => i = j \/ childpids'[i].pid = None
    <3>1. \A i \in DOMAIN childpids' : i > Len(childpids) => childpids'[i].pid = None
      BY <1>4, <2>3
    <3>2. \A i \in DOMAIN childpids' :
            ~(i > Len(childpids)) => i \in DOMAIN childpids /\ childpids'[i] = childpids[i]
      <4> DEFINE n == Len(childpids)
                 m == Len(childpids')
      <4>1. /\ n \in Nat /\ DOMAIN childpids = 1 .. n
            /\ m \in Nat /\ DOMAIN childpids' = 1 .. m
            /\ \A i \in 1 .. n : childpids'[i] = childpids[i]
        BY <1>2, <1>4
      <4> HIDE DEF n, m
      <4>2. \A i \in 1 .. m : ~(i > n) => i \in 1 .. n
        BY <4>1
      <4>3. \A i \in DOMAIN childpids' :
              ~(i > n) => i \in DOMAIN childpids /\ childpids'[i] = childpids[i]
        BY <4>1, <4>2
      <4>4. QED
        BY <4>3 DEF n
    <3>3. \A i, j \in DOMAIN childpids :
            childpids[i].pid = childpids[j].pid => i = j \/ childpids[i].pid = None
      BY DEF IInv, TableInv
    <3>4. QED
      BY <3>1, <3>2, <3>3
  <2>5. QED
    BY <1>1, <1>4, <2>1, <2>2, <2>4 DEF TableInv
<1>9. ExitInv'
  BY <1>1 DEF IInv, ExitInv, procs
<1>10. QED
  BY <1>5, <1>6, <1>8, <1>9 DEF IInv

---------------------------------------------------------------------------
(* The inductive invariant *)

\* A session begins with no shell, no exit and one unused entry.
LEMMA InitIInv == Init => IInv
<1> SUFFICES ASSUME Init PROVE IInv
  OBVIOUS
<1>1. /\ childpids = <<Free>> /\ Free \in [pid : 0 .. N, chansess : 0 .. N]
  BY NNat DEF Init, Free, None
<1>2. /\ childpids \in Seq([pid : 0 .. N, chansess : 0 .. N])
      /\ Len(childpids) = 1 /\ DOMAIN childpids = {1} /\ childpids[1] = Free
  BY <1>1
<1>3. Types
  <2>1. /\ proc \in [Session -> {"none", "running", "zombie", "reaped"}]
        /\ output \in [Session -> {"open", "eof", "read"}]
        /\ chan \in [Session -> {"new", "starting", "running", "closed"}]
        /\ exit \in [Session -> 0 .. N] /\ lastexit \in 0 .. N
    BY NNat DEF Init, None
  <2>2. /\ pending \in BOOLEAN /\ pipe \in BOOLEAN /\ sigchld \in BOOLEAN
        /\ handler \in BOOLEAN /\ bad \in BOOLEAN /\ check \in BOOLEAN
    BY DEF Init
  <2>3. /\ pc \in Label /\ cur \in 1 .. N + 1 /\ slot \in Nat \ {0}
        /\ events \subseteq Session
    BY NNat DEF Init, Label
  <2>4. QED
    BY <1>2, <2>1, <2>2, <2>3 DEF Types
<1>4. LoopInv
  BY DEF Init, LoopInv, Starting
<1>5. TableInv
  BY <1>2, NNat DEF Init, TableInv, HasEntry
<1>6. ExitInv
  BY NNat DEF Init, ExitInv, None
<1>7. QED
  BY <1>3, <1>4, <1>5, <1>6 DEF IInv

\* noptycommand() copies lastexit into the session it belongs to.
LEMMA CopyLastExitIInv == ASSUME IInv, CopyLastExit PROVE IInv'
<1>1. /\ pc = "copy" /\ pc' = "reset"
      /\ exit' = [exit EXCEPT ![childpids[slot].chansess] = lastexit]
      /\ UNCHANGED <<childpids, lastexit, cur, slot, procs, chan>>
      /\ UNCHANGED <<pending, pipe, events, check, signal>>
  BY DEF CopyLastExit, At
<1>2. /\ childpids[slot].chansess = lastexit /\ lastexit \in Session
      /\ proc[lastexit] = "reaped"
  BY <1>1, NNat DEF IInv, Types, ExitInv, Entry, Session, None
<1>3. exit' = [exit EXCEPT ![lastexit] = lastexit] /\ exit \in [Session -> 0 .. N]
  BY <1>1, <1>2 DEF IInv, Types
<1>4. Types'
  <2>1. exit' \in [Session -> 0 .. N] /\ pc' \in Label
    <3>1. lastexit \in 0 .. N
      BY DEF IInv, Types
    <3>2. QED
      BY <1>1, <1>3, <3>1 DEF Label
  <2>2. QED
    BY <1>1, <2>1 DEF IInv, Types, procs, signal
<1>5. LoopInv'
  BY <1>1 DEF IInv, LoopInv, Starting, procs
<1>6. \A s \in Session : HasEntry(s)' <=> HasEntry(s)
  BY <1>1 DEF HasEntry, Added
<1>7. TableInv'
  BY <1>1, <1>6 DEF IInv, TableInv
<1>8. ExitInv'
  <2>1. ASSUME NEW s \in Session
        PROVE  /\ exit'[s] \in {None, s}
               /\ exit'[s] = s => proc'[s] = "reaped"
               /\ chan'[s] = "closed" => exit'[s] = s
    <3>1. /\ exit[s] \in {None, s}
          /\ exit[s] = s => proc[s] = "reaped"
          /\ chan[s] = "closed" => exit[s] = s
      BY DEF IInv, ExitInv
    <3>2. exit'[s] = IF s = lastexit THEN s ELSE exit[s]
      BY <1>3
    <3>3. QED
      BY <1>1, <1>2, <3>1, <3>2 DEF procs
  <2>2. lastexit' # None => proc'[lastexit'] = "reaped"
    BY <1>1, <1>2 DEF procs
  <2>3. QED
    BY <1>1, <2>1, <2>2 DEF ExitInv
<1>9. QED
  BY <1>4, <1>5, <1>7, <1>8 DEF IInv

\* With its shell started a session waits for nothing but events.
LEMMA StartedIInv == ASSUME IInv, Started PROVE IInv'
<1>1. /\ pc = "started" /\ pc' = "io" /\ cur' = 1
      /\ chan' = [chan EXCEPT ![cur] = "running"]
      /\ UNCHANGED <<childpids, exit, lastexit, slot, proc>>
      /\ UNCHANGED <<output, pending, pipe, events, check, signal>>
  BY DEF Started, At, shared, procs
<1>2. /\ cur \in Session /\ chan[cur] = "starting"
      /\ chan \in [Session -> {"new", "starting", "running", "closed"}]
  BY <1>1 DEF IInv, Types, LoopInv, Starting
<1>3. \A s \in Session : chan'[s] = IF s = cur THEN "running" ELSE chan[s]
  BY <1>1, <1>2
<1>4. \A s \in Session : s # cur => chan[s] # "starting"
  BY <1>1 DEF IInv, LoopInv
<1>5. Types'
  <2>1. chan' \in [Session -> {"new", "starting", "running", "closed"}]
    BY <1>1, <1>2
  <2>2. cur' \in 1 .. N + 1 /\ pc' \in Label
    BY <1>1, NNat DEF Label
  <2>3. QED
    BY <1>1, <2>1, <2>2 DEF IInv, Types, signal
<1>6. LoopInv'
  <2>1. \A s \in Session : chan'[s] # "starting"
    BY <1>3, <1>4
  <2>2. \A s \in Session : proc[s] = "none" <=> chan[s] = "new"
    BY <1>1 DEF IInv, LoopInv
  <2>3. QED
    BY <1>1, <1>2, <1>3, <2>1, <2>2 DEF LoopInv, Starting
<1>7. \A s \in Session : HasEntry(s)' <=> HasEntry(s)
  BY <1>1, <1>2, <1>3, <1>4 DEF HasEntry, Added
<1>8. TableInv'
  BY <1>1, <1>7 DEF IInv, TableInv
<1>9. ExitInv'
  BY <1>1, <1>2, <1>3 DEF IInv, ExitInv
<1>10. QED
  BY <1>5, <1>6, <1>8, <1>9 DEF IInv

\* A shell's output is of no interest to the handler.
LEMMA CloseOutputIInv ==
    ASSUME IInv, NEW s \in Session, CloseOutput(s) PROVE IInv'
<1>1. /\ output' = [output EXCEPT ![s] = "eof"]
      /\ UNCHANGED <<proc, childpids, exit, lastexit, pending, pipe, pc, cur,
                     slot, events, check, sigchld, handler, bad, chan>>
  BY DEF CloseOutput, shared, loop, signal
<1>2. Types'
  <2>1. output' \in [Session -> {"open", "eof", "read"}]
    BY <1>1 DEF IInv, Types
  <2>2. QED
    BY <1>1, <2>1 DEF IInv, Types
<1>3. LoopInv'
  BY <1>1 DEF IInv, LoopInv
<1>4. TableInv'
  BY <1>1 DEF IInv, TableInv, HasEntry
<1>5. ExitInv'
  BY <1>1 DEF IInv, ExitInv
<1>6. QED
  BY <1>2, <1>3, <1>4, <1>5 DEF IInv

\* Every step of the handler, the loop and the shells keeps it.
LEMMA NextIInv == IInv /\ [Next]_vars => IInv'
<1> SUFFICES ASSUME IInv, [Next]_vars PROVE IInv'
  OBVIOUS
<1> USE NNat DEF Types, LoopInv, TableInv, HasEntry, Entry, Free, Starting, Added,
                 ExitInv, Session, None
<1>1. ASSUME NEW s \in Session, CloseOutput(s) PROVE IInv'
  BY <1>1, CloseOutputIInv
<1>2. ASSUME NEW s \in Session, ExitShell(s) PROVE IInv'
  BY <1>2 DEF IInv, ExitShell, shared, loop
<1>3. CASE EnterHandler \/ LeaveHandler
  <2>1. /\ sigchld' \in BOOLEAN /\ handler' \in BOOLEAN /\ pending' \in BOOLEAN
        /\ UNCHANGED <<childpids, exit, lastexit, pipe, bad, loop, procs, chan>>
    BY <1>3 DEF IInv, EnterHandler, LeaveHandler, shared
  <2>2. QED
    BY <2>1 DEF IInv, loop, procs
<1>4. ASSUME NEW pid \in Session, Reap(pid) PROVE IInv'
  BY <1>4, ReapIInv
<1>5. ASSUME NEW request \in SUBSET Session, NEW interrupted \in BOOLEAN,
             Wake(request, interrupted)
      PROVE  IInv'
  BY <1>5, WakeIInv
<1>6. CASE Fork
  BY <1>6 DEF IInv, Label, Fork, At, shared, signal
<1>7. CASE FindEntry
  BY <1>7, FindEntryIInv
<1>8. CASE SetPid
  BY <1>8, SetPidIInv
<1>9. CASE SetChansess
  BY <1>9, SetChansessIInv
<1>10. CASE CompareLastExit
  BY <1>10, CompareIInv
<1>11. CASE CopyLastExit
  BY <1>11, CopyLastExitIInv
<1>12. CASE ResetLastExit
  BY <1>12 DEF IInv, Label, ResetLastExit, At, procs, signal
<1>13. CASE Started
  BY <1>13, StartedIInv
<1>14. CASE IORead
  BY <1>14 DEF IInv, Label, IORead, At, shared, signal
<1>15. CASE IOSkip \/ IODone
  <2>1. CASE IOSkip
    BY <2>1 DEF IInv, Label, IOSkip, At, shared, procs, signal
  <2>2. CASE IODone
    BY <2>2 DEF IInv, Label, IODone, At, shared, procs, signal
  <2>3. QED
    BY <1>15, <2>1, <2>2
<1>16. CASE TestPending
  BY <1>16 DEF IInv, Label, TestPending, At, shared, procs, signal
<1>17. CASE ClearPending
  <2>1. /\ pc = "clear" /\ pc' = "close" /\ pc' \in Label
        /\ check' \in BOOLEAN /\ pending' \in BOOLEAN
        /\ UNCHANGED <<childpids, exit, lastexit, pipe, cur, slot, events, procs,
                       signal, chan>>
    BY <1>17 DEF ClearPending, At, Label
  <2>2. QED
    BY <2>1 DEF IInv, procs, signal
<1>18. CASE CheckClose
  BY <1>18, CheckCloseIInv
<1>19. CASE UNCHANGED vars
  BY <1>19 DEF IInv, vars, shared, loop, procs, signal
<1>20. QED
  BY <1>1, <1>2, <1>3, <1>4, <1>5, <1>6, <1>7, <1>8, <1>9, <1>10, <1>11, <1>12,
     <1>13, <1>14, <1>15, <1>16, <1>17, <1>18, <1>19
     DEF Next, Handler, WakeSome, StartShell, ChannelIO

\* No step loses the exit of a shell without a pty.
LEMMA NextKept ==
    ASSUME IInv, KeptInv, [Next]_vars
    PROVE  KeptInv'
<1>1. ASSUME NEW pid \in Session, Reap(pid) PROVE KeptInv'
  <2>1. /\ proc[pid] = "zombie" /\ proc' = [proc EXCEPT ![pid] = "reaped"]
        /\ UNCHANGED <<childpids, pc, cur, chan>>
    BY <1>1 DEF Reap, loop
  <2>2. CASE Matches(pid) = {}
    <3>1. cur = pid /\ pc \in Uncompared
      BY <2>1, <2>2, WhoMatches, NNat
         DEF IInv, Types, LoopInv, Starting, Added, Uncompared
    <3>2. QED
      BY <1>1, <2>1, <2>2, <3>1 DEF IInv, Types, KeptInv, Reap
  <2>3. CASE Matches(pid) # {}
    <3>1. FirstOf(Matches(pid)) \in Matches(pid)
      BY <2>3, FirstMatch DEF IInv, Matches
    <3>2. childpids[FirstOf(Matches(pid))].chansess \in {None, pid}
      BY <2>1, <3>1, WhoMatches
    <3>3. /\ lastexit' = lastexit
          /\ bad' \/ (bad' = bad /\ exit' = [exit EXCEPT ![pid] = pid])
      BY <1>1, <2>3, <3>2 DEF Reap
    <3>4. /\ exit \in [Session -> 0 .. N]
          /\ proc \in [Session -> {"none", "running", "zombie", "reaped"}]
      BY DEF IInv, Types
    <3>5. ASSUME NEW s \in Session \ PtySessions, proc'[s] = "reaped"
          PROVE  \/ exit'[s] = s
                 \/ bad'
                 \/ s = cur' /\ lastexit' = s /\ pc' \in Uncompared
      <4>1. CASE s = pid
        BY <3>3, <3>4, <4>1
      <4>2. CASE s # pid
        <5>1. proc[s] = "reaped"
          BY <2>1, <3>4, <3>5, <4>2
        <5>2. exit[s] = s \/ bad \/ (s = cur /\ lastexit = s /\ pc \in Uncompared)
          BY <5>1 DEF KeptInv
        <5>3. bad' \/ (bad' = bad /\ exit'[s] = exit[s])
          BY <3>3, <3>4, <4>2
        <5>4. QED
          BY <2>1, <3>3, <5>2, <5>3
      <4>3. QED
        BY <4>1, <4>2
    <3>6. QED
      BY <3>5 DEF KeptInv
  <2>4. QED
    BY <2>2, <2>3
<1>2. CASE FindEntry \/ SetPid \/ SetChansess
  BY <1>2 DEF KeptInv, FindEntry, SetPid, SetChansess, At, procs, signal, Uncompared
<1>3. CASE CompareLastExit
  <2>1. /\ pc = "compare" /\ UNCHANGED <<shared, cur, procs, signal>>
        /\ lastexit # None /\ Matches(lastexit) # {} => pc' = "copy"
    BY <1>3 DEF CompareLastExit, At
  <2>2. cur \in Session /\ Matches(cur) # {}
    BY <2>1 DEF IInv, LoopInv, TableInv, HasEntry, Starting, Added, Matches, Entry
  <2>3. QED
    BY <2>1, <2>2, NNat DEF KeptInv, Uncompared, shared, procs, signal
<1>4. CASE CopyLastExit
  <2>1. /\ exit' = [exit EXCEPT ![lastexit] = lastexit] /\ lastexit \in Session
        /\ pc = "copy" /\ UNCHANGED <<procs, signal>>
    <3>1. /\ pc = "copy" /\ UNCHANGED <<procs, signal>>
          /\ exit' = [exit EXCEPT ![childpids[slot].chansess] = lastexit]
      BY <1>4 DEF CopyLastExit, At
    <3>2. childpids[slot].chansess = lastexit
      BY <3>1 DEF IInv, ExitInv, Entry
    <3>3. lastexit \in Session
      BY <3>1, NNat DEF IInv, Types, ExitInv, Session, None
    <3>4. QED
      BY <3>1, <3>2, <3>3
  <2>2. QED
    BY <2>1 DEF IInv, Types, KeptInv, procs, signal
<1>5. CASE \/ Fork \/ ResetLastExit \/ Started \/ ChannelIO
  <2>1. /\ pc \notin Uncompared /\ UNCHANGED <<exit, signal>>
        /\ \A s \in Session : proc'[s] = "reaped" => proc[s] = "reaped"
    BY <1>5 DEF IInv, Types, Fork, ResetLastExit, Started, ChannelIO, IORead, IOSkip,
                IODone, TestPending, ClearPending, CheckClose, At, Uncompared,
                shared, procs
  <2>2. QED
    BY <2>1 DEF KeptInv, signal
<1>6. ASSUME NEW request \in SUBSET Session, NEW interrupted \in BOOLEAN,
             Wake(request, interrupted)
      PROVE  KeptInv'
  BY <1>6 DEF KeptInv, Wake, At, Uncompared, procs, signal
<1>7. ASSUME NEW s \in Session, CloseOutput(s) \/ ExitShell(s) PROVE KeptInv'
  <2>1. /\ UNCHANGED <<exit, lastexit, bad, cur, pc>>
        /\ \A t \in Session : proc'[t] = "reaped" => proc[t] = "reaped"
    BY <1>7 DEF IInv, Types, CloseOutput, ExitShell, shared, loop, signal
  <2>2. QED
    BY <2>1 DEF KeptInv
<1>8. CASE EnterHandler \/ LeaveHandler \/ UNCHANGED vars
  <2>1. UNCHANGED <<proc, exit, lastexit, bad, cur, pc>>
    BY <1>8 DEF EnterHandler, LeaveHandler, vars, shared, loop, procs, signal
  <2>2. QED
    BY <2>1 DEF KeptInv
<1>9. QED
  BY <1>1, <1>2, <1>3, <1>4, <1>5, <1>6, <1>7, <1>8
     DEF Next, Handler, WakeSome, StartShell

---------------------------------------------------------------------------
(* Safety *)

\* The inductive invariant holds of every state.
THEOREM Invariance == Spec => []IInv
BY InitIInv, NextIInv, PTL DEF Spec

\* The variables keep their types, with any number of sessions, with a pty or
\* without.
THEOREM TypeCorrect == Spec => []TypeOK
<1>1. IInv => TypeOK
  BY TypesTypeOK DEF IInv
<1>2. QED
  BY <1>1, Invariance, PTL

\* The table of the inductive invariant is exact while the loop waits.
LEMMA IInvTable == IInv => TableExact
<1> SUFFICES ASSUME IInv, At("select") PROVE TableExact
  BY DEF TableExact
<1>1. \A s \in Session : HasEntry(s) <=> chan[s] = "running"
  BY DEF IInv, LoopInv, HasEntry, Starting, At
<1>2. ASSUME NEW s \in Session, NEW i \in DOMAIN childpids, childpids[i] = Entry(s)
      PROVE  chan[s] = "running"
  <2>1. childpids[i].pid = s /\ s # None
    BY <1>2, NNat DEF Entry
  <2>2. childpids[i] # Free
    BY <2>1 DEF Free
  <2>3. PICK t \in Session : childpids[i] = Entry(t) /\ HasEntry(t)
    BY <2>2 DEF IInv, TableInv, At
  <2>4. t = s
    BY <2>1, <2>3 DEF Entry
  <2>5. QED
    BY <1>1, <2>3, <2>4
<1>3. \A s \in Session :
        chan[s] = "running" <=> \E i \in DOMAIN childpids : childpids[i] = Entry(s)
  BY <1>1, <1>2 DEF IInv, TableInv
<1>4. QED
  BY <1>3 DEF IInv, TableInv, TableExact, Entry

\* Whenever the loop waits svr_ses.childpids holds exactly the shells of the
\* live sessions and has not grown beyond their number: addchildpid() and
\* closechansess() keep it so however SIGCHLD interleaves.
THEOREM TableAlwaysExact == Spec => []TableExact
BY IInvTable, Invariance, PTL

\* With the exits kept, those of started sessions without a pty are recorded.
LEMMA KeptExit == IInv /\ KeptInv => PlainExitNotLost
<1> SUFFICES ASSUME IInv, KeptInv, NEW s \in Session \ PtySessions
             PROVE  ExitRecorded(s)
  BY DEF PlainExitNotLost
<1>1. exit[s] \in {None, s}
  BY DEF IInv, ExitInv
<1>2. ASSUME chan[s] \in {"running", "closed"}, proc[s] = "reaped", ~bad
      PROVE  exit[s] = s
  <2>1. ~(s = cur /\ pc \in Uncompared)
    BY <1>2 DEF IInv, LoopInv, Starting, Uncompared
  <2>2. QED
    BY <1>2, <2>1 DEF KeptInv
<1>3. QED
  BY <1>1, <1>2 DEF ExitRecorded

LEMMA ExitsKept == Spec => [](IInv /\ KeptInv)
<1>1. Init => KeptInv
  BY DEF Init, KeptInv
<1>2. IInv /\ KeptInv /\ [Next]_vars => KeptInv'
  BY NextKept
<1>3. QED
  BY <1>1, <1>2, Invariance, PTL DEF Spec

\* The exit of a shell without a pty is not lost, with any number of sessions
\* with a pty and without, and wherever SIGCHLD strikes: the comparison with
\* lastexit in noptycommand() suffices, for more than the "single shell
\* spawned" its comment claims, and no exit that ptycommand() leaves in
\* lastexit gets in its way.
THEOREM PlainExitsKept == Spec => []PlainExitNotLost
BY ExitsKept, KeptExit, PTL

\* When no session has a pty that is every shell there is.
THEOREM NoExitLost == ASSUME PtySessions = {} PROVE Spec => []ExitNotLost
<1>1. PlainExitNotLost => ExitNotLost
  BY DEF PlainExitNotLost, ExitNotLost
<1>2. QED
  BY <1>1, PlainExitsKept, PTL

=============================================================================
