------------------------------ MODULE SigChild ------------------------------
(***************************************************************************)
(* How a dropbear server learns that the shells of its sessions have       *)
(* exited: the SIGCHLD handler of svr-chansession.c, interleaved at every  *)
(* statement that shares data with the code that starts a shell and with   *)
(* channelio() of the main loop.                                           *)
(*                                                                         *)
(* The handler shares with the loop the table svr_ses.childpids, the exit  *)
(* records of the sessions, svr_ses.lastexit, ses.channel_signal_pending   *)
(* and the signal pipe.  Session s runs one shell, whose pid is s; the     *)
(* channel of session s is ses.channels[s].                                *)
(***************************************************************************)
EXTENDS Integers, Sequences, FiniteSets

CONSTANTS
    N,        \* sessions, each in the channel slot of its number
    PtySessions  \* those whose client asked for a pty

Session == 1 .. N
None == 0     \* exitpid -1, pid -1 in childpids, and a NULL chansess

ASSUME SessionAssumption == N \in Nat \ {0} /\ PtySessions \subseteq Session

VARIABLES
    proc,      \* each shell: "none", "running", "zombie" or "reaped"
    output,    \* the shell's output: "open", end of file, or "read"
    chan,      \* each session: "new", "starting", "running" or "closed"
    childpids, \* svr_ses.childpids: pairs of pid and session
    exit,      \* chansess->exit.exitpid of each session
    lastexit,  \* svr_ses.lastexit.exitpid
    pending,   \* ses.channel_signal_pending
    pipe,      \* whether the signal pipe holds a byte
    sigchld,   \* whether a SIGCHLD is waiting to be delivered
    handler,   \* whether sesssigchild_handler() is running
    bad,       \* whether the handler has followed a NULL chansess
    pc,        \* the statement the main loop is at
    cur,       \* the session whose shell it starts, or channel it looks at
    slot,      \* the entry addchildpid() found
    events,    \* channels whose readfd select() reported
    check      \* do_check_close

shared == <<childpids, exit, lastexit, pending, pipe>>
loop   == <<pc, cur, slot, events, check>>
procs  == <<proc, output>>
signal == <<sigchld, handler, bad>>
vars   == <<shared, loop, procs, signal, chan>>

Init ==
    /\ proc = [s \in Session |-> "none"]
    /\ output = [s \in Session |-> "open"]
    /\ chan = [s \in Session |-> "new"]
    /\ childpids = <<[pid |-> None, chansess |-> None]>>
    /\ exit = [s \in Session |-> None]
    /\ lastexit = None
    /\ pending = FALSE /\ pipe = FALSE
    /\ sigchld = FALSE /\ handler = FALSE /\ bad = FALSE
    /\ pc = "select" /\ cur = 1 /\ slot = 1
    /\ events = {} /\ check = FALSE

---------------------------------------------------------------------------
(* The shells *)

\* A shell, and whatever it started, closes its output.
CloseOutput(s) ==
    /\ proc[s] # "none" /\ output[s] = "open"
    /\ output' = [output EXCEPT ![s] = "eof"]
    /\ UNCHANGED <<proc, shared, loop, signal, chan>>

ExitShell(s) ==
    /\ proc[s] = "running"
    /\ proc' = [proc EXCEPT ![s] = "zombie"]
    /\ sigchld' = TRUE
    /\ UNCHANGED <<output, shared, loop, handler, bad, chan>>

---------------------------------------------------------------------------
(* sesssigchild_handler().  While it runs the main loop does not, and      *)
(* SIGCHLD is blocked.                                                     *)

EnterHandler ==
    /\ sigchld /\ ~handler /\ ~bad
    /\ sigchld' = FALSE /\ handler' = TRUE
    /\ pending' = TRUE
    /\ UNCHANGED <<childpids, exit, lastexit, pipe, bad, loop, procs, chan>>

\* The entry of childpids that holds pid, the first one if there are several
Matches(pid) == {i \in DOMAIN childpids : childpids[i].pid = pid}
FirstOf(S) == CHOOSE i \in S : \A j \in S : i <= j

\* One turn of its loop: waitpid() has returned pid
Reap(pid) ==
    /\ handler /\ ~bad /\ proc[pid] = "zombie"
    /\ proc' = [proc EXCEPT ![pid] = "reaped"]
    /\ IF Matches(pid) = {}
       THEN lastexit' = pid /\ UNCHANGED <<exit, bad>>
       ELSE LET s == childpids[FirstOf(Matches(pid))].chansess
            IN  /\ IF s = None THEN bad' = TRUE /\ exit' = exit
                   ELSE bad' = bad /\ exit' = [exit EXCEPT ![s] = pid]
                /\ UNCHANGED lastexit
    /\ pipe' = TRUE
    /\ UNCHANGED <<output, childpids, pending, sigchld, handler, loop, chan>>

LeaveHandler ==
    /\ handler /\ ~bad /\ \A s \in Session : proc[s] # "zombie"
    /\ handler' = FALSE
    /\ UNCHANGED <<sigchld, bad, shared, loop, procs, chan>>

---------------------------------------------------------------------------
(* The main loop: select(), a packet, channelio() *)

At(label) == pc = label /\ ~handler /\ ~bad

\* select() returns, for a packet that asks for the shell of session s, for
\* the end of some output, or for the signal pipe, which it then empties;
\* interrupted by a signal it reports nothing, and the pipe stays full.
Wake(request, interrupted) ==
    /\ At("select")
    /\ LET eof == {s \in Session : chan[s] = "running" /\ output[s] = "eof"}
       IN  /\ request # {} \/ eof # {} \/ pipe
           /\ interrupted => pipe /\ request = {}
           /\ events' = IF interrupted THEN {} ELSE eof
    /\ pipe' = (pipe /\ interrupted)
    /\ IF request = {} THEN pc' = "io" /\ cur' = 1 /\ chan' = chan
       ELSE \E s \in request : /\ chan[s] = "new"
                               /\ chan' = [chan EXCEPT ![s] = "starting"]
                               /\ pc' = "fork" /\ cur' = s
    /\ UNCHANGED <<childpids, exit, lastexit, pending, slot, check, procs, signal>>

\* noptycommand() by spawn_command(), and ptycommand(): fork()
Fork ==
    /\ At("fork") /\ pc' = "addchildpid"
    /\ proc' = [proc EXCEPT ![cur] = "running"]
    /\ UNCHANGED <<output, shared, cur, slot, events, check, signal, chan>>

\* addchildpid(): an unused entry, or a new one.  What a new entry holds before
\* it is assigned is not the pid of a live child.
FindEntry ==
    /\ At("addchildpid") /\ pc' = "setpid"
    /\ IF Matches(None) # {}
       THEN slot' = FirstOf(Matches(None)) /\ UNCHANGED childpids
       ELSE /\ slot' = Len(childpids) + 1
            /\ childpids' = Append(childpids, [pid |-> None, chansess |-> None])
    /\ UNCHANGED <<exit, lastexit, pending, pipe, cur, events, check, procs,
                   signal, chan>>
SetPid ==
    /\ At("setpid") /\ pc' = "setchansess"
    /\ childpids' = [childpids EXCEPT ![slot].pid = cur]
    /\ UNCHANGED <<exit, lastexit, pending, pipe, cur, slot, events, check, procs,
                   signal, chan>>
SetChansess ==
    /\ At("setchansess")
    /\ pc' = IF cur \in PtySessions THEN "started" ELSE "compare"
    /\ childpids' = [childpids EXCEPT ![slot].chansess = cur]
    /\ UNCHANGED <<exit, lastexit, pending, pipe, cur, slot, events, check, procs,
                   signal, chan>>

\* Mutant: lastexit is not looked at.  (Mutants are no part of the model: each
\* is a bug the properties are tested against.)
NoCompare ==
    /\ At("compare") /\ pc' = "started"
    /\ UNCHANGED <<shared, cur, slot, events, check, procs, signal, chan>>
\* Mutant: the index is that of the entry before.
CompareOffByOne ==
    /\ At("compare")
    /\ pc' = IF lastexit # None /\ Matches(lastexit) # {}
             THEN "copy" ELSE "started"
    /\ slot' = IF lastexit # None /\ Matches(lastexit) # {}
               THEN FirstOf(Matches(lastexit)) - 1 ELSE slot
    /\ UNCHANGED <<shared, cur, events, check, procs, signal, chan>>
\* noptycommand(): did the child exit before addchildpid() knew it?
CompareLastExit ==
    /\ At("compare")
    /\ pc' = IF lastexit # None /\ Matches(lastexit) # {}
             THEN "copy" ELSE "started"
    /\ slot' = IF lastexit # None /\ Matches(lastexit) # {}
               THEN FirstOf(Matches(lastexit)) ELSE slot
    /\ UNCHANGED <<shared, cur, events, check, procs, signal, chan>>
CopyLastExit ==
    /\ At("copy") /\ pc' = "reset"
    /\ exit' = [exit EXCEPT ![childpids[slot].chansess] = lastexit]
    /\ UNCHANGED <<childpids, lastexit, pending, pipe, cur, slot, events, check,
                   procs, signal, chan>>
ResetLastExit ==
    /\ At("reset") /\ pc' = "started"
    /\ lastexit' = None
    /\ UNCHANGED <<childpids, exit, pending, pipe, cur, slot, events, check,
                   procs, signal, chan>>

Started ==
    /\ At("started") /\ pc' = "io"
    /\ chan' = [chan EXCEPT ![cur] = "running"]
    /\ cur' = 1
    /\ UNCHANGED <<shared, slot, events, check, procs, signal>>

\* channelio(), one channel after the other.  A session whose shell has not
\* started has a channel too, but no descriptors.
IORead ==
    /\ At("io") /\ cur \in Session /\ chan[cur] # "closed"
    /\ pc' = "test"
    /\ check' = (cur \in events)
    /\ output' = IF cur \in events THEN [output EXCEPT ![cur] = "read"] ELSE output
    /\ UNCHANGED <<proc, shared, cur, slot, events, signal, chan>>
IOSkip ==
    /\ At("io") /\ cur \in Session /\ chan[cur] = "closed"
    /\ cur' = cur + 1
    /\ UNCHANGED <<pc, slot, events, check, shared, procs, signal, chan>>
IODone ==
    /\ At("io") /\ cur \notin Session
    /\ pc' = "select" /\ cur' = 1 /\ events' = {}
    /\ UNCHANGED <<slot, check, shared, procs, signal, chan>>
TestPending ==
    /\ At("test")
    /\ pc' = IF pending THEN "clear" ELSE "close"
    /\ UNCHANGED <<cur, slot, events, check, shared, procs, signal, chan>>
ClearPending ==
    /\ At("clear") /\ pc' = "close"
    /\ check' = TRUE
    /\ pending' = FALSE
    /\ UNCHANGED <<childpids, exit, lastexit, pipe, cur, slot, events, procs,
                   signal, chan>>

\* check_close(): with the exit recorded the channel is closed, and
\* closechansess() frees the entries of the session.
\* Mutant: they are left.
KeepEntries(s) == childpids
ClearEntries(s) ==
    [i \in DOMAIN childpids |->
       IF childpids[i].chansess = s THEN [pid |-> None, chansess |-> None]
                                    ELSE childpids[i]]
CheckClose ==
    /\ At("close") /\ pc' = "io" /\ cur' = cur + 1 /\ check' = FALSE
    /\ IF check /\ exit[cur] # None
       THEN /\ chan' = [chan EXCEPT ![cur] = "closed"]
            /\ childpids' = ClearEntries(cur)
       ELSE UNCHANGED <<chan, childpids>>
    /\ UNCHANGED <<exit, lastexit, pending, pipe, slot, events, procs, signal>>

StartShell ==
    Fork \/ FindEntry \/ SetPid \/ SetChansess
      \/ CompareLastExit \/ CopyLastExit \/ ResetLastExit \/ Started
ChannelIO ==
    IORead \/ IOSkip \/ IODone \/ TestPending \/ ClearPending \/ CheckClose
Handler == EnterHandler \/ LeaveHandler \/ \E pid \in Session : Reap(pid)
WakeSome ==
    \E s \in Session, interrupted \in BOOLEAN :
       Wake({s}, FALSE) \/ Wake({}, interrupted)

Next ==
    \/ Handler \/ WakeSome \/ StartShell \/ ChannelIO
    \/ \E s \in Session : CloseOutput(s) \/ ExitShell(s)

Spec == Init /\ [][Next]_vars

---------------------------------------------------------------------------
(* Properties *)

Label == {"select", "fork", "addchildpid", "setpid", "setchansess", "compare",
          "copy", "reset", "started", "io", "test", "clear", "close"}

TypeOK ==
    /\ proc \in [Session -> {"none", "running", "zombie", "reaped"}]
    /\ output \in [Session -> {"open", "eof", "read"}]
    /\ chan \in [Session -> {"new", "starting", "running", "closed"}]
    /\ childpids \in Seq([pid : 0 .. N, chansess : 0 .. N])
    /\ exit \in [Session -> 0 .. N]
    /\ lastexit \in 0 .. N
    /\ <<pending, pipe, sigchld, handler, bad, check>> \in
         BOOLEAN \X BOOLEAN \X BOOLEAN \X BOOLEAN \X BOOLEAN \X BOOLEAN
    /\ pc \in Label
    /\ cur \in 1 .. N + 1
    /\ slot \in Nat \ {0}
    /\ events \subseteq Session

\* Once session s has been started, a shell of it the handler has reaped is
\* recorded, and nowhere but in its own session.
ExitRecorded(s) ==
    /\ exit[s] \in {None, s}
    /\ chan[s] \in {"running", "closed"} /\ proc[s] = "reaped" /\ ~bad
         => exit[s] = s

\* The exit of a shell is not lost, also when it exited before addchildpid()
\* had entered it (svr_ses.lastexit).
ExitNotLost == \A s \in Session : ExitRecorded(s)

\* That of a shell without a pty is not lost, whatever the shells of other
\* sessions, with a pty or without, leave in svr_ses.lastexit:
\* noptycommand() compares it after addchildpid().
PlainExitNotLost == \A s \in Session \ PtySessions : ExitRecorded(s)

\* The table of children is exact whenever the loop waits: a live session has
\* one entry, of its own pid, and no entry outlives its session.
TableExact ==
    At("select") =>
      /\ \A s \in Session :
           chan[s] = "running" <=>
             \E i \in DOMAIN childpids : childpids[i] = [pid |-> s, chansess |-> s]
      /\ \A i, j \in DOMAIN childpids :
           childpids[i].pid = childpids[j].pid => i = j \/ childpids[i].pid = None
      /\ Len(childpids) <= N

=============================================================================
