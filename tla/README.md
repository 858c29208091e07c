# dropbear: a verification of its sessions

The repository packs programs for a Kobo e-reader: dropbear (the SSH server and
client through which everything else on the device is reached), busybox, a boot
loader and a number of vendored libraries and tools. Most of its files are third
party code or binaries. The part with a protocol, concurrent processes and state
that lives long enough to go wrong is `src/dropbear`; this project is about it.
It models the **daemon** that accepts connections, the **transport and
authentication** of a session between `dbclient` and the server, the **channels**
that run in it, one by one and as the tables in which their numbers are used again,
the **clocks** that end it, the buffer between a packet and a
descriptor, and the way a server learns that a shell has exited.

Paths below are relative to `src/dropbear/` unless they begin with `src/`.

## 1. The system

| Component (files) | State | Operations | Hard behaviours | Correct when |
|---|---|---|---|---|
| **Channels** (`common-channel.c`, `channel.h`) | `ses.channels[]`: flags `sent_eof`, `recv_eof`, `sent_close`, `recv_close`, `flushing`, `await_open`, `initconn`; three descriptors; windows; `writebuf`, `extrabuf` | open, confirm, data, window adjust, EOF, CLOSE from the peer; `channelio()` after `select()`; `check_close()`, `remove_channel()` | two ends run concurrently; closing is a distributed protocol with four flags and three descriptors; results of `select()` are used after a packet changed the channel | no end makes the other exit; no bytes are lost; credit is conserved; every closed channel is removed |
| **Table of channels** (`common-channel.c`) | `ses.channels`, `ses.chansize`, the peer's number of each channel | `newchannel()`, `getchannel()`, `remove_channel()`, keepalives on the first ready channel | the two ends number channels for themselves and use a number again at once; packets of the old channel may be under way | a packet meets the channel it was sent for, every slot comes free |
| **Ring buffer** (`circbuffer.c`) | `data`, `used`, `readpos`, `writepos` | `cbuf_writeptr`/`incrwrite`, `cbuf_readptr`/`incrread` | wrap-around, empty against full | it is a bounded FIFO |
| **Server sessions** (`svr-chansession.c`) | `ChanSess`, `svr_ses.childpids`, `svr_ses.lastexit`, `ses.channel_signal_pending` | start a shell with or without a pty, SIGCHLD handler, `sesscheckclose()`, `closechansess()` | the handler shares its tables with the code it interrupts | no exit is lost; the status precedes the CLOSE |
| **Client sessions** (`cli-chansession.c`) | the terminal's mode, `cli_ses.winchange` | shell request, exit status, window change | requests from the loop handler on a closing channel | nothing is sent after a CLOSE |
| **Forwarding channels** (`svr-tcpfwd.c`, `cli-tcpfwd.c`, agent and X11) | the channel types; in-progress connects | open, connect, confirm or fail | `connect()` finishes later than the open | as channels |
| **Session loop** (`common-session.c`) | the times of the last packets, `ses.channel_signal_pending` | `select()`, one packet, `channelio()`, loop handler | everything above is driven from it; timeouts | it never waits while something can be done |
| **Key exchange** (`common-kex.c`, `cli-kex.c`, `svr-kex.c`) | `ses.kexstate`, `ses.newkeys`, `dataallowed` | KEXINIT, NEWKEYS, switch of keys | rekeying during traffic, a wrong first guess | both sides switch keys at the same packet |
| **Packets** (`packet.c`, `process-packet.c`, `queue.c`) | `writequeue`, reply queue, sequence numbers | partial reads and writes, queue and flush replies | replies held back during a key exchange | nothing lost or reordered |
| **Authentication** (`svr-auth.c`, `cli-auth.c`) | `ses.authstate` | requests, failures, success | number of failures, order of methods | success only after a successful method |
| **Daemon** (`svr-main.c`) | `childpipes`, `preauth_addrs` | accept, fork, authenticated, child's end | counts kept by pipes across processes | limits hold and entries do not leak |
| **Listeners** (`listener.c`, `tcp-accept.c`) | `ses.listeners` | add, accept, remove | a channel opened for each accepted socket | a cancelled listener is gone |
| **Client state** (`cli-session.c`) | `cli_ses.state` | driven by kex, service and auth results | packets in an unexpected order | every state reached in order |

How they interact: `session_loop()` waits in `select()` for the socket, every
channel's descriptors and the signal pipe, handles at most one packet, sends
queued replies, lets `channelio()` move bytes between descriptors and channels,
writes to the socket and runs the loop handler (on a client the window change).
Channel types hook into the channel code through `struct ChanType`
(`inithandler`, `check_close`, `reqhandler`, `closehandler`). The SIGCHLD
handler may run between any two statements and tells the loop through
`ses.channel_signal_pending` and a pipe. `main_noinetd()` forks a process for
each session and hears of it only through a pipe, which the child closes when
its client has authenticated or when it exits.

`PROJECT.json` lists the other parts of the repository with the reason why each
is not modelled (vendored, straight-line boot code, build files).

## 2. The modules

| Module | What it is |
|---|---|
| `Daemon`, `DaemonProperties` | `main_noinetd()`: the parent process, its children, the limits on clients that have not authenticated |
| `MCDaemon`, `DaemonProofs` | its instance for TLC; its proofs |
| `Transport` | key exchange, packet queue and `process_packet()` of one end, as operators on `struct sshsession` |
| `Session`, `SessionProperties` | both ends over one connection: `session_loop()`, key exchanges, authentication, the client's state machine, requests and replies; composes `Transport` with itself |
| `MCSession`, `SessionInvariants` | its instances for TLC; its inductive invariants (definitions only) |
| `SessionProofs`, `KeysProofs` | its proofs: each end by itself, then the two ends together |
| `Timeouts`, `TimeoutsProperties` | the clocks of a server's session |
| `MCTimeouts`, `TimeoutsProofs` | its instance for TLC; its proofs |
| `Channel` | one channel between two dropbear processes: `common-channel.c` at both ends with its channel types, two session loops, the packets between them, the programs behind the descriptors |
| `ChannelProperties` | what it promises; the fairness |
| `MCChannel`, `ChannelProofs` | its instances for TLC; its proofs, in five parts: the window account, the order of packets, credit across both ends and the wire (no end makes the other exit), what is given up with a descriptor, that `check_close()` passes nothing over |
| `ChannelTable`, `ChannelTableProperties` | the tables of channels at both ends, several channels at once, the numbers in packets |
| `Conversations` | the abstract specification of what the tables are for: a private connection for each forwarded one |
| `MCChannelTable`, `ChannelTableProofs` | its instance for TLC; its proofs |
| `SigChild` | the SIGCHLD handler against `addchildpid()`, `noptycommand()`, `ptycommand()` and `channelio()`, statement by statement, for N sessions, with its properties |
| `MCSigChild`, `SigChildProofs` | its instances for TLC; its proofs |
| `ByteQueue` | the abstract specification of a bounded FIFO of bytes |
| `CircBuffer` | `circbuffer.c` as `common-channel.c` drives it; implements `ByteQueue` |
| `MCCircBuffer`, `CircBufferProofs` | the instance for TLC; its proofs, the refinement among them |

The layers meet where one relies on the other. `Session` treats what channels
send as numbered requests and replies and shows that they arrive once and in order
(`InOrder`, `AllDelivered`); `Channel` and `ChannelTable` start from a FIFO of packets,
which is that result. `Channel` follows one channel with its bytes, windows and programs; that its packets meet it, and
not another channel of the same slot, is `OwnChannel` of `ChannelTable`. `Session` leaves time out, so a rekey or a keepalive may happen at any
turn of the loop; `Timeouts` says when they do. `Daemon` takes a child to authenticate
its client or to exit at any moment, which `Session` and `Timeouts` bound.

A definition whose comment begins with *Mutant* is not part of the model: it is a
plausible bug in one definition, kept to show that a property notices it
(`PROJECT.json`, "mutants").

### Daemon

`childpipes` and `preauth_addrs` are the arrays of `main_noinetd()`; a connection, the
child that serves it and the child's pipe share a name, and `status` says how far
it has come. `pc` is where the parent is, `i` the listening socket it is at, `fds`
what the last `select()` found readable, `accepted` the locals `childsock`, `conn_idx`
and `remote_host`.

| Action | Code |
|---|---|
| `EnterSelect`, `SelectReturns`, `Interrupted` | the head of the loop; `exitflag` is looked at only after `select()` |
| `CloseFds` | closing the pipes that reached their end, and freeing their slots |
| `SkipListener`, `Accept` | the loop over listening sockets; `Accept` recomputes both limits, and refuses, or takes the last free slot; `seedrandom()`, which ends the daemon (`dbrandom.c:196`), or `pipe()` may fail |
| `AcceptFails` | `accept()` fails and the loop goes on: the connection stays in the backlog (EMFILE, ENFILE), or its client has given it up (ECONNABORTED) |
| `Fork`, `ForkFails`, `Record` | `fork()`, and the parent's part after it |
| `Connect`, `Authenticate`, `ChildExit`, `Terminate` | clients, children and the signal handlers, between any two of the above |

`lost` holds pipes left open by a failed `fork()`; `unauth` is history. `Descriptors` are what the process may open beside its
listening sockets: the parent holds one for every slot in use, both ends of what is lost, and `childsock`. `NoFile(n)` says that n more are
too many; `accept()` needs one, `seedrandom()` another for the time of a read, `pipe()` two. `Failing` names the calls that may fail for other reasons too.

### Transport and Session

`ses[e]` is `struct sshsession` at the client (`C`) or the server (`S`), with the key
exchange state of `ses.kexstate` flattened into it; `cli` is `cli_ses` with the
client's `authstate`, `svr` the server's. `net[e]` are packets written and not yet read.
A packet carries the keys it was sealed with and whether it was compressed;
`Readable` and `Inflatable` compare that with the reader's. Random values are numbered in the order
an end draws them, and the secret of an exchange is the record of the four values
that go into it: two ends have the same keys exactly if they used the same
values. Which algorithms the two lists agree on is an input (`agreed`): the
client's guess is right, wrong in the key exchange, or wrong in the host key.

A turn of `session_loop()` is four steps, `pc[e]`: `checktimeouts()`, one packet
with `maybe_flush_reply_queue()` behind it, `channelio()` with `write_packet()`, the loop
handler. `RecvPacket` has one action for each handler of `process_packet()`; the tests
that come before the handler are `ProcessPacket`, in the order of the code. `ClientLoop` is
`cli_sessionloop()`, which looks at the type of the last packet and at two state
variables, in that order. Authentication is `none`, public key (a question first, then
a signature) and password; a refused key leaves the client's list.

Abstracted: channels are counted and their messages are numbered requests and
replies; keyboard-interactive, banners and options in `authorized_keys` are left out;
a packet is read or written as a whole (TCP keeps the bytes of a partial one in
place).

### Timeouts

Each time stamp of `struct sshsession` is kept as its age, capped where nothing depends
on it any more. `left` is what remains of the timeout given to `select()`; `Tick` is a second in
it. A turn of `session_loop()` is one step: `NoPacket`, `ReadPacket` (any packet a client that
follows the protocol may send, `MaySend`) or `Output`; `checktimeouts()` comes first in
each, with its four tests in their order. Data is not counted: `datadue` says that what was sent and received since the last exchange
reaches `KEX_REKEY_DATA`, which the packets of any turn may bring about (`DataDue`), and `Rekey` looks at it beside the clock. `StartIdent`, `IdentRead`, `IdentFails` are
`ident_readln()`, during which nothing else is looked at. `held` are the packets in the reply
queue. `real` is history: when something was really sent, when something other than keepalives
was on the wire, and how long the peer has owed an answer.

### Channel: state and actions against the code

Ends are `I`, which opens the channel, and `A`, which accepts it. `ch[e]` is the
`struct Channel` of an end or `NoChannel` for a NULL slot. `net[e]` holds the
decrypted packets that have not reached `e`. `pc[e]` is where `session_loop()`
stands: `select` before `select()`, `packet` between it and
`process_packet()`, `io` before `channelio()`. `sel[e]` is what `select()`
reported (`r` readfd, `e` errfd to read, `w` writefd, `x` errfd to write), kept
while the packet is handled, as the code keeps the `fd_set`. `src[e]` counts
bytes in the pipes behind readfd and errfd; `child` is the shell; `sigp` is
`channel_signal_pending`; `broken[e]` are descriptors whose `write()` fails.
`fatal[e]` records why an end called `dropbear_exit()`; the system stops then.
`dropped` and `delivered` count bytes, and `status` is the exit status at `I`:
these three are history that the properties refer to.

Each C function that changes a channel is an operator on a *world* (the channel,
its sources, the packets it queues, the bytes it writes, and whether an
assertion failed). Composing them in the order of the code gives each action.

| Action | Code |
|---|---|
| `SendOpen` | `send_msg_channel_open_init()` |
| `Select` | `select()` in `session_loop()`: reports every readable descriptor, or none (interrupted, or `dataallowed` is 0 during a key exchange), any of the writable ones |
| `RecvOpen` (`InitHandler`) | `recv_msg_channel_open()` with the type's `inithandler` |
| `RecvConfirmation`, `RecvFailure` | the handlers of the answer, with `cli_initchansess()` (`InitStdpipe`) |
| `RecvData` | `common_recv_msg_channel_data()` for data and stderr |
| `RecvAdjust`, `RecvEof`, `RecvClose` | their handlers, the last two with `check_close()` |
| `RecvShell`, `RecvWindowChange`, `RecvExitStatus` | `chansessionrequest()`, `cli_chansessreq()` |
| `UnknownChannel` | `getchannel()` on a NULL slot |
| `ChannelIO`, `ConnectIO`, `NoChannelIO` | `channelio()`: both reads, both writes, `check_in_progress()`, `check_close()` |
| `WindowChange` | `cli_chansess_winchange()` from the loop handler |
| `ChildExit`, and `exits` in `ChannelIO` and `RecvEofOrClose` | SIGCHLD between two handlers, and between the two calls of `type->check_close` within one `check_close()` |
| `Produce`, `ProduceErr`, `CloseSource`, `CloseErrSource`, `SinkBreaks` | the programs behind the descriptors |

Channel types are constants. `stdpipes` is the client's session, `pipes` and
`pty` the server's; `tcp` is a forwarded connection (an in-progress connect and
separate directions, `sepfds`), `sock` a socket without them (agent, X11).

Abstracted: payloads are counted, not named (their order is `CircBuffer`'s
matter); a write on a descriptor that is not broken takes between one byte and
all; requests that change nothing of a channel (environment, signals) are left
out; the transport is a FIFO, as TCP and the packet layer below make it.

### ChannelTable

`channels[e]` is `ses.channels` of an end, `NoChan` a NULL slot or one beyond `chansize[e]`.
A channel has its peer's number (`remotechan`, 0 until the confirmation comes, as in
the code), the flags of `struct Channel`, its two descriptors (`reads`, `writes`) and whether bytes wait in its buffer
(`pending`). The code knows a channel by the two numbers; the conversation
it serves, in slots and in packets, is history, and so are `begun`, `sent` and `rcvd`.

| Action | Code |
|---|---|
| `Open` | `tcp_acceptor()` and `send_msg_channel_open_init()`; the connection is closed again when `newchannel()` finds no slot |
| `RecvOpen` | `recv_msg_channel_open()` with `newtcpdirect()`: connected, connecting, failed, or no slot; `send_msg_channel_open_failure()` |
| `CheckInProgress` | `check_in_progress()` |
| `RecvConfirmation`, `RecvFailure` | their handlers, with the test of `await_open` |
| `RecvData`, `RecvEof`, `RecvClose`, `RecvRequest`, `RecvReply` | `getchannel()`, the handler, `check_close()` |
| `SendData`, `ReadEnds`, `Write` | `channelio()`, each with the `check_close()` behind it |
| `Keepalive` | `send_msg_keepalive()` on `get_any_ready_channel()` |

`NewIndex` is the choice of `newchannel()`: the first free slot, or the first that is added while
`chansize` is below `MAX_CHANNELS`. `Found` is `getchannel()`, which exits (`exited`) for a slot that is
free. `AfterCheck` and `CheckPackets` are `check_close()`. Abstracted: windows, buffers and standard error are the matter of
`Channel`; a turn of `channelio()` that both reads and writes is taken
as two steps, between which its own end may do nothing that the code could not do in
the next turn.

### SigChild

One action for each statement that shares data with the handler: `Fork`,
`FindEntry`, `SetPid`, `SetChansess` (the parts of `addchildpid()`),
`CompareLastExit`, `CopyLastExit`, `ResetLastExit` (the code after it in
`noptycommand()`), and in `channelio()` `TestPending` and `ClearPending`. The handler
(`EnterHandler`, `Reap`, `LeaveHandler`) starts between any two of them and
runs while the loop stands still, one `Reap` for each pid `waitpid()` returns.
What an entry of `childpids` holds before it is assigned is taken to be no pid.
That the handler may walk the table while `m_realloc()` moves it is not modelled.

### CircBuffer

`Receive`, `Copy` and `Write` are `common_recv_msg_channel_data()`, one turn of
its copying loop, and `writechannel()`. `data` holds real bytes and starts with
`NoByte`, so bytes that nobody wrote would be seen.

## 3. What the runs check

All checks are exhaustive for their constants. `CHECK_DEADLOCK` is off where the
system rightly stops: a conversation is over (channel gone, or an end has exited), every
bound is used up, or the daemon has ended. The liveness properties say that it does not stop too early.

| Run | Instance | Shows |
|---|---|---|
| `daemon` | four connections from two addresses, two slots, one per address, five descriptors; `accept()`, `seedrandom()`, `pipe()` and `fork()` may fail | `UnauthBounded`, `SlotsExact`, `RefusedOnlyAtLimit`, `SlotFreed`, `Answered` |
| `session` | two keys of which the second is authorized, a password, zlib@openssh.com; each end rekeys once and sends two requests at any time | `KeysAgree`, `CompressionAgrees`, `NoProtocolExit`, `InOrder`, `QuietExchange`, `FreshKeys`, `AuthenticatedByProof` |
| `session_live` | the same without an authorized key or requests, under fairness | `ExchangeCompletes`, `AllDelivered`, `AuthEnds` |
| `timeouts` | keepalives every 2 s, up to 3; idle limit 5 s, authentication 4 s, rekeying after 9 s or any amount of data | `SendGap`, `DeadPeerNoticed`, `PeerWasAsked`, `IdleNoticed`, `NotIdle`, `AuthInTime` |
| `ch_session` | a client's session and a shell without pty; windows 1 and 2, packets of 2, up to 1 byte of input, 2 of output and 1 of stderr | `NoFatalExit`, `OutputFlushed`, `InputDrained`, and `SessionEnds` |
| `ch_pty` | a session on a pty, window changes, a shell that may fail to start; 6 bytes of output through a window of 6, packets of 4, adjust threshold 2 | `StatusBeforeClose`, `NothingAfterClose`, `WindowAccounted`, `SenderNotStarved` |
| `ch_tcp` | a forwarded connection, failing connects, broken readers, 1 byte from the end that opened the channel and 2 from the other | `CreditConserved`, `HalfClose`, `EofDelivered`, `ClosedIsRemoved` |
| `channel_table` | three forwarded connections, two accepted by the client and one by the server, tables of two slots, a `connect()` of the server that may fail, one packet of data, one keepalive | `OwnChannel`, `SlotsReturn` and the refinement `IsConversations` |
| `sig_mixed` | two sessions without pty and one on a pty | `PlainExitNotLost`, `TableExact` |
| `cbuf` | 4 bytes of two values | `AssertionsHold` and the refinement `IsQueue` |
| `sig_pty` | one session on a pty | **violates** `ExitNotLost` |
| `idle_keepalive` | an open channel, keepalives shorter than the idle limit | **violates** `KeepalivesDoNotCount` |

The properties:

- `UnauthBounded`: the limits of `options.h` hold at every step of the parent, also
  between `fork()` and the entry in the table.
- `SlotsExact`: each unauthenticated child has one slot, with its address; no slot is shared or
  stands for a connection without a child.
- `RefusedOnlyAtLimit`: nobody is turned away for the sake of children that were
  already done when `select()` returned.
- `SlotFreed`, `Answered`: slots come free again, and every client gets a child or
  is turned away, unless the daemon terminates or `accept()` goes on failing for a reason other than the descriptors the daemon itself has
  open (`FailsOtherwise`): the code only tries again, so nothing can be promised then. The pipes it leaks are no such reason: they take descriptors from `pipe()`, which turns the client
  away, and from `seedrandom()`, which ends the daemon, but the last one is never taken from `accept()`, as a new pipe is made only where three are free
  (`DescriptorLeft`, a theorem).
- `KeysAgree`, `CompressionAgrees`: each packet meets the keys and the compression it was
  sealed with, however exchanges and traffic of both directions cross.
- `NoProtocolExit`: two dropbears never make each other exit over the protocol.
- `InOrder`, `QuietExchange`: everything handed to `encrypt_packet()` is on the wire or held back, once and
  in order, and nothing of the upper layers is between an end's KEXINIT and NEWKEYS.
- `FreshKeys`: keys of an exchange use no value of an earlier one.
- `AuthenticatedByProof`: the server accepts a client only on reading a
  password or an authorized signature.
- `ExchangeCompletes`, `AllDelivered`, `AuthEnds`: exchanges end, what they held back
  arrives, and authentication comes to a result.
- `SendGap`, `DeadPeerNoticed`, `PeerWasAsked`: keepalives go out in less than two intervals, a
  silent peer is given up in time, and only one that had something to answer.
- `IdleNoticed`, `NotIdle`: without channels a session that exchanges only keepalives is
  closed; one with traffic is not.
- `AuthInTime`: who does not authenticate is gone before twice `AUTH_TIMEOUT`.
- `NoFatalExit`: neither end makes the other call `dropbear_exit()`, by a packet
  for a removed channel, data after EOF, more than fits, an unexpected answer or a
  failed assertion.
- `WindowAccounted`: at one end, the window offered, what waits in the two
  buffers and what was written out but not given back add up to
  `opts.recv_window`.
- `CreditConserved`: the same across both ends and the wire. The one leak is
  data dropped after a failed write (`dropped`), which is part of the sum.
- `SenderNotStarved`: with nothing under way or buffered a sender has window. This
  is why the threshold `RECV_WINDOWEXTEND` must be at most the window.
- `NothingAfterClose`: order of EOF, data and CLOSE on the wire and against what
  the receiver has seen. Only the client's window change, which a timer sends, may follow its CLOSE.
- `StatusBeforeClose`: a server's CLOSE follows the exit status.
- `OutputFlushed`, `InputDrained`: descriptors are given up only when what they
  carry is delivered, or the cause is one that cannot be helped (the peer's CLOSE,
  a broken reader, the exit of the shell).
- `HalfClose`: EOF in one direction leaves the other open. It, `OutputFlushed` and `InputDrained` speak of
  the ends in `OwnEnd`: a server's pty and an agent's socket are one descriptor for both directions, which cannot be half closed.
- `SessionEnds`, `EofDelivered`: both ends let go of a session
  whose shell has exited, and the end of a stream arrives together with all its bytes.
- `ClosedIsRemoved`: once CLOSE has been said a channel goes away at both ends. One that has read it may stay for bytes not yet written, and the last
  of them, or the failure to write them, must let it go; one that has sent it waits for the peer's answer, which may be as late. It is run for a
  forwarded connection, where both happen at both ends; a server's session does not keep it (section 4).
- `OwnChannel`: every packet under way names a slot in use for the conversation it was sent in, so no end
  exits and no channel gets what was meant for another.
- `IsConversations`: numbers and slots are not seen: each forwarded connection goes on as if it had a session of its own.
- `SlotsReturn`: an open is answered, and a channel one end has closed goes away at both.
- `ExitNotLost`, `PlainExitNotLost` (the same of the sessions without pty), `TableExact`: see `SigChild`.
- `AssertionsHold`, `IsQueue`: the buffer's assertions, and that it is a queue.

**Bounds.** `RecvWindow` is one to three bytes where closing matters and six where the window
does: a window of one fills and empties with every byte, two splits a
payload, and six with threshold 2 lets adjusts be late, several at once, or
crossing data. `MaxOut` and `MaxErr` bound what the programs write: more than
the window in `ch_session`, exactly the window, in packets of less, in `ch_pty`; in `ch_tcp`, where it
is less (two bytes of which one may be written before CLOSE is read, and one is left to be written after it), the order of closes and failures is the subject.
`WindowChange` keeps one request under way. Both ends of `net` are otherwise
unbounded; windows bound the data in it. Two sessions are enough for an exit to
be mistaken for another's, and for one channel to come before another in
`channelio()`. Four bytes of buffer let a payload wrap with every split.

In `ChannelTable` three connections on two slots use every slot again, one is refused for want of room while the others
close, and an open of each end crosses one of the other; data and the keepalive cross closing.

In `Session`, `MaxRekey` and `MaxRequests` bound what each end starts by itself; one
exchange and two requests of each end can meet at every step, exchanges from both ends at once included,
and the first exchange precedes them. Two keys give the client one
refusal before a success. In `Timeouts` the intervals are small, and different enough that every limit can be met in
the middle of every other. In `Daemon` four connections against two slots and
one per address reach both limits, and a slot is used by two connections in turn; of five descriptors two failed forks leave
one, for which `seedrandom()` fails, and one failed fork beside a child leaves two, for which `pipe()` does.

**Fairness.** `FairSpec` of `Channel` assumes one thing: while an end has a
packet to read or a ready descriptor, some loop takes a step (`LoopStep` under
weak fairness). That is what the kernel's scheduler gives, and less than
fairness to each process. No program is assumed to write, read, close or exit:
the liveness properties begin with "it has exited" or "it has closed its
output". In `LoopStep` `select()` reports what is ready (`SelectAll`): a descriptor
that stays ready is reported in the end. In `SigChild` the handler and the
loop each run (weak fairness), and a signal does not interrupt `select()` every time it
is called (strong fairness of `Wake({}, FALSE)`).

In `Session` each process runs (`WF` of `LoopStep(e)`), and `select()` reports a socket that
holds a packet, or has been closed, in the end (`SF` of
`RecvPacket(e) \/ RemoteClosed(e)`: it is not enabled during the other three steps of a
turn). In `ChannelTable` each process reads its packets, an in-progress connect ends, and
bytes for a local program are written or fail (`WF` of `RecvPacket(e)`, of some `CheckInProgress`, of some
`Write`); nobody has to send or to close. In `Daemon` only the parent is assumed to run (`WF` of `ParentStep`); no client has to
connect, authenticate or leave. That `accept()` does not fail for ever is no fairness of the specification but a hypothesis of `Answered`, its first disjunct. `Timeouts` needs no fairness: what must happen in time is an
invariant over clocks, and `Tick` cannot pass the end of `select()`'s timeout.

## 4. What the code does not keep

Runs marked *violates* check a property that a comment of the source states;
`PROJECT.json` ("findings") quotes it.

1. `sig_pty`: `ptycommand()` does not look at `lastexit` after `addchildpid()`, so the exit of a
   shell that ends at once is lost (`svr-chansession.c:845`).
2. `idle_keepalive`: with a channel open the keepalive is a channel request, which, like its answer,
   counts as activity (`process-packet.c:81`): the session never becomes idle.

Seen while modelling, and allowed for in the properties rather than run on their own:

- *Channels.* `check_close()` closes writefd before it flushes readfd
  (`common-channel.c:335`); on a pty they are one descriptor, and the last output of the shell
  is lost. If the client's CLOSE arrives while input is pending, the server answers when the
  shell has exited and may not look at the channel again (`common-channel.c:369`), which then stays in its
  slot. `cli_chansess_winchange()` does not look at `sent_close` (`cli-chansession.c:261`); the server
  may have removed the channel, and exits. A client that has sent its CLOSE ignores the
  exit status that comes after it (`common-channel.c:621`). After a failed write the peer is
  told nothing and its credit is gone (`common-channel.c:763`). A flush that stops at an empty
  window is not resumed by the window adjust (`common-channel.c:803`) but by the next event on the
  descriptor.
- *SIGCHLD.* `addchildpid()` stores the pid before the session (`svr-chansession.c:884`), so the handler may find a NULL
  session. `channel_signal_pending` is cleared inside the loop over channels
  (`common-channel.c:265`), so only the first of several is checked.
- *Authentication.* `authclear()` resets the count of failures together with the user name
  (`svr-auth.c:58`), against the comment above it ("don't reset the failcount"); each name has
  `MAX_AUTH_TRIES` of its own.
- *Listeners.* `get_listener()` does not advance the pointer it compares (`listener.c:141`): it looks at
  slot 0 only, which may be NULL, so a forwarding in another slot is never found when it is cancelled.
- *Clocks.* `select()` sleeps its whole interval again after every wake-up, so the gap between
  keepalives may be almost twice the interval (`options.h:307`), and a peer is given up after
  fewer unanswered keepalives than `DEFAULT_KEEPALIVE_LIMIT` (`options.h:311`), or after none that
  went out when an exchange holds them back; `PeerWasAsked` therefore speaks of
  what the peer owed, and fails for a limit of 1 or 2. A peer that stops in the middle of its identification line
  is not timed out (`common-session.c:438`); `AuthInTime` leaves that time out.
- *Daemon.* A signal just before `select()` does not wake it (`svr-main.c:190`). When `fork()`
  fails both ends of the pipe stay open (`svr-main.c:275`). Enough of them leave the daemon unable to make another pipe, and every further
  client is turned away, or, when a single descriptor is left, unable to open its random device, and the next client
  it does not refuse ends the daemon (`dbrandom.c:196`). When `accept()` fails the loop goes on (`svr-main.c:236`); its socket stays readable,
  so it spins while the failure lasts, and the client waits.

## 5. What is proved

`tlapm` checks every proof; no statement is assumed but the `ASSUME`s on the constants,
which TLC evaluates in each run.

**CircBufferProofs**, for every size up to `MAX_CBUF_SIZE` and every set of byte
values: `TypeCorrect`, `AssertionsAlwaysHold`, `TwoTurnsSuffice` and
`ImplementsQueue` (`Spec => IsQueue`). `TypeOK` is not inductive: it does not relate
the positions to `used`, and does not say that bytes in use were written. The
invariant adds `Ring` (writepos is readpos plus used, wrapped), `Filled` (the bytes in
use are bytes) and that what is left of a payload fits. The refinement then shows
that `Copy` is a stutter (bytes move from `todo` to the buffer and the queue,
which is both, is the same), `Receive` a `Put` and `Write` a `Get`. The arithmetic is
about `%`, of which the solver knows little; the first lemmas reduce it to one
comparison and subtraction.

**SigChildProofs**, for every number of sessions: `TypeCorrect`, `TableAlwaysExact`
(`Spec => []TableExact`), and `PlainExitsKept` (`Spec => []PlainExitNotLost`: no session without a
pty loses its exit, with any number of others on a pty beside it), of which
`NoExitLost` (`PtySessions = {}` implies `Spec => []ExitNotLost`; with a pty it is false,
`sig_pty`) is a corollary. The invariant says where the
loop is relative to the session it starts (`LoopInv`); that each entry of the
table is free, belongs to a session that should have one, or is the one
`addchildpid()` is filling in (`TableInv`); that exits are recorded in their own
session (`ExitInv`); and for `PlainExitsKept` that an exit of a session without pty not yet recorded is in
`lastexit` while the loop is still to compare it (`KeptInv`). That a table of N entries
suffices uses cardinality: distinct sessions, distinct entries.

**ChannelProofs**, for every pair of channel types, all windows, packet sizes and
faults: `TypeCorrect` and `CreditAccounted` (`Spec => []WindowAccounted`). `TypeOK` alone
is not inductive, since `recvwindow - n` or `wbuf - len` might leave the
naturals; the invariant adds the account of every live channel (a channel still
connecting offers nothing) and that a packet being handled exists. Each operator
on a world has a lemma that it keeps a world well formed, each action one that
it applies such operators; `DoneIInv` carries a well-formed world into the next state.

Its second part proves, for the same constants, `StatusFirst`
(`Spec => []StatusBeforeClose`), `QuietAfterClose` (`Spec => []NothingAfterClose`) and, if the user's window keeps its
size (`"winch"` is no member of `Faults`), `LastIsClose` (a CLOSE is the last packet of its end; with window changes that is
false, section 4). None says enough of the wire to be inductive. `OInv` links what is under way with the channels at both
ends (`Link`): its order, that a receiver which has seen EOF or CLOSE has nothing of the kind left to read, and that what a
sender has not said is not there. What the functions of an end say is followed through a world as before:
`Speaks` relates the packets a world has queued to the flags it began with and those it has now; each function of
`common-channel.c` keeps it, and `DoneOrder` carries it into the next state. `Opening` is the account of the open, its
answer and the request for a shell, before which neither end has anything to say, and `Reported` that a CLOSE of a session has its
exit status before it on the wire, or at the client.

The third part is about flow control: `CreditKept` (`Spec => []CreditConserved`), `NeverStarved` (`Spec => []SenderNotStarved`), `NoExit` (if `"winch"` is no
member of `Faults`, `Spec => []NoFatalExit`) and `OneExit` (whatever `Faults` are, the only exit there is is the server's,
for a window change on a channel it has removed). The two counting properties speak of two ends that are both ready, and say nothing of how the
channel comes to be or ends, so they are not inductive, and neither is the absence of exits: data longer than the buffer
is a question of credit. `FInv` is `OInv` and `Flow`: what an end may still send, with the credit and the data under
way and what was thrown away, is what its peer offers (`Credit`), where an "open" or a confirmation under way counts as credit; what is
owed to the peer is less than `writechannel()` waits for (`Owed`); and an end without a channel has nothing to read but an
open or a window change, because its peer is still asking or has sent CLOSE (`Deaf`). What the functions of an end cost is followed
through a world next to what they say (`Paid` beside `Speaks`). Bytes on the wire are a finite set, a pair of packet and place
for each byte, and not a fold: that they add up when sequences are joined is a fact about cardinalities, where the fold would need an induction.

The fourth part proves the three action properties, `EofClosesOneDirection` (`Spec => HalfClose`), `OutputReadToItsEnd`
(`Spec => OutputFlushed`) and `InputWrittenOut` (`Spec => InputDrained`), without a hypothesis, each for every end in `OwnEnd`: an
end that is neither a socket nor a pty. That bound is needed. The others read and write through one
descriptor that is closed whole (`sepfds` is 0), so an EOF for one direction takes the other with it, and TLC finds each of the three
violated there. What remains are forwarded TCP connections, netcat mode, sessions without a pty and the client of any session, whatever type
the other end is (a client's own descriptors are safe from a server's pty), for all windows,
programs, moments of SIGCHLD and faults. The invariant is `AInv`: `OInv` and that the descriptors of such an end are distinct once the
channel is open, or its directions are closed one by one (`Apart`), by which `close_chan_fd()` closes the one it is asked to and no other (`CloseApart`).
An action property speaks of the channel before and after a whole handler or turn of `channelio()`, and what is given up there
is given up in one of a dozen calls. `Tidy` therefore says of a world on the way, against the channel it began with, that each descriptor given up so
far had its reason, and that what is written out and what is still buffered are no less than what was buffered; it
is kept by each function (`SendDataTidy`, `WriteChannelTidy`, `SendCloseTidy`, `CheckCloseTidy`), and `EndsCareful` reads the property off it.

The fifth part proves `NothingPassedOver` (`Spec => []NothingOverlooked`), the safety half of `SessionEnds` and of `ClosedIsRemoved`. `channelio()`
calls `check_close()` only after an event on a descriptor or a SIGCHLD, so a decision that becomes due between two calls would wait for an event that
need not come. None does: once the exit of a session's child has been noticed its input is closed and its output is being
flushed, an end with nothing more to say and nothing to write has said CLOSE, and a channel that has read the peer's CLOSE is there only
for what is still to be written. `Checked` does not ask that a session's channel be removed, which the server may forget (section 4). It is inductive
on top of `OInv` once a type without `check_close` is known never to flush and a connecting end to have a descriptor
(`WInv`): what `check_close()` leaves behind satisfies it (`CheckCloseSees`), a handler that does not call it changes nothing it looks at
(`StillChecked`), and a turn of `channelio()` without an event changes nothing at all (`ChannelIOSays`). TLC finds it
violated if a SIGCHLD or a write is no reason to check (`DoCheckCloseOnIO`, `HadEventNoWrite`).

**DaemonProofs**, for any number of connections, addresses, listening sockets and
slots: `TypeCorrect`, `SlotsCorrect`, `ReadyCorrect`, `LimitsKept` (`Spec => []UnauthBounded`)
and `RefusedRightly` (`Spec => RefusedOnlyAtLimit`). The limits are not inductive, since they speak of children
and the code counts slots. The invariant adds that connections in a backlog are there
once and nobody's (`BacklogSound`), that the accepted connection has a free slot and room under both
limits (`InHand`), that slots respect the limit of each address (`WithinLimits`), where
the parent is (`AtListener`), and that what `select()` reported is still so (`StillReady`). Children
without authentication then map injectively into slots, plus the one in hand. `Counted`
relates slots to the children alive when `select()` returned, for `RefusedRightly`.

`DescriptorKept` (`Spec => []DescriptorLeft`) is what `Answered` rests on: with at least one descriptor `accept()` always has one, however many forks have failed. The invariant is `Room`: slots in use and twice the
lost pipes are fewer than `Descriptors`, and by at least three between `pipe()` and the parent's entry. A failed fork adds two and a child one, both within
those three; nothing else adds any.

**TimeoutsProofs**, for all values of the five intervals: `TypeCorrect`, `SendGapKept`, `DeadPeerGone`,
`BusyNotIdle`, `AuthLimited`, `RekeyStarted`, `IdleSeen` (`Spec => []IdleNoticed`) and `AskedFirst` (for a keepalive limit of at
least 3, `Spec => []PeerWasAsked`; the code's is 3, and with 2 TLC finds a peer given up after one interval). The invariant says that the clocks the
code keeps are honest about what was sent and received (`Honest`), and that while the session
runs each clock was below its limit when `checktimeouts()` last looked, and that
its age since then together with what is left of `select()`'s timeout still
is (`InTime`). Each limit follows by adding one sleep of `select()`. `DInv` adds what the last two need (`Due`): between turns
the reply queue holds nothing that may go out, the idle time is at least as old as the last real traffic and was below its limit at the last
turn; and a peer that owes nothing has been silent for less than two intervals, as the age of the last
keepalive is not below that of what was last received. That each function of a turn keeps the idle time unless it sends real traffic,
and puts a keepalive on the wire unless an exchange holds it back, is `Spared`.

**ChannelTableProofs**, for any number of connections and packets and any size of the
tables: `TypeCorrect` and `OwnChannelAlways` (`Spec => []OwnChannel`). `OwnChannel` speaks of packets under way, so the
invariant must say what may be under way. It does so for one conversation at a time
(`ConvInv`): what the two ends and the packets of one conversation know of each other fits together,
for instance that a slot waiting for an answer has the open or its answer under way, and that each end names the
other's slot unless the other is gone, when a CLOSE is. The order of packets enters only through what may follow what
(`Ordered`: nothing follows a CLOSE, no data an EOF); all else is about the set of packets. A step changes
one conversation, so the others carry over (`Frame`); a handler is followed through the table and mail it has made before
`check_close()` to those after. Which slot `newchannel()` takes matters only in that it is free.

`ImplementsConversations` (`Spec => IsConversations`) is the refinement: every step of the tables is, for one conversation, a step of `Conversations`,
and for all others a stutter (`Faithful`). `RInv` adds to the invariant what the abstract guards ask for: that what one end has sent is what
the other has received and what is under way (`Counted`, a cardinality of places on the wire), and that an end is known to the other
when it is used (`Heard`). The step that matters is the last CLOSE, where the mapping says that both are done: `Finished` shows that the other
end has closed then and nothing it sent is left.

`AnswersUnderWay` (`Spec => []NobodyWaitsInVain`) is the safety half of `SlotsReturn`: an end that waits for an answer or for
a CLOSE always waits for a packet under way or for a peer with something to finish, so no state of a slot is a dead end.
The invariant gives it but for one case: both ends could be asking for the same conversation. That
they are not follows from the refinement (`NotBothAsk`): in `Conversations` who asks finds the other end in "none", and the other can only take or refuse.

**SessionProofs**, for all users, keys, tries, exchanges and requests: `SentInOrder`, `ExchangeQuiet` and `AcceptedByProof`
(`InOrder`, `QuietExchange`, `AuthenticatedByProof` from `Spec`). The argument is about one end: its wire (what it has
written and the peer has not read, then its write queue) and its reply queue are numbered without a gap, nothing
of the upper layers is between a KEXINIT and the next NEWKEYS on it, and while `dataallowed` every KEXINIT
on it has had its NEWKEYS (`Sender`). Each operator of `Transport` keeps this. Between turns the reply queue is empty while data is allowed (`Flushed`), which holds
only because `process_packet()` is followed by the flush, and outside an exchange data is allowed (`Exchanging`), without which a KEXINIT
could overtake a reply. A handler need only leave `Sender` and `Exchanging`; `Processed` says that what surrounds it does the rest.

**KeysProofs**, for the same constants: `KeysHold` (`Spec => []KeysAgree`), `CompressionHolds`
(`Spec => []CompressionAgrees`), `NoProtocolExitHolds` (`Spec => []NoProtocolExit`) and `FreshKeysHold` (`Spec => FreshKeys`). The first two speak of
the packet that is read next, the third of what a handler is about to find, so none is inductive: the invariant `KInv` has to say
what may be on both wires and in all queues. It does so with words. What is under way of an exchange, told apart from all other
packets, is a word for each direction (`Word`), and `Talk` lists the phases of an exchange: who has sent KEXINIT, who has
read it, whether the client's guess is to be ignored, who has switched keys, who has already begun the next exchange. In each it says which fields the two
ends have and which words are under way. `Dialog` does the same for authentication, against the client's
state machine and `Turn`, how far `cli_sessionloop()` is behind the packet just read. `Line` says how the
packets of one direction are sealed and deflated: those before a NEWKEYS with the reader's keys, those after it with the keys
the reader will have, and that compression begins behind USERAUTH_SUCCESS. A step then takes a word off a wire, puts one behind it, moves a packet that
is in no word, or ignores a wrong guess; the end of `SessionProofs` has what each of the four does to words and lines. For `FreshKeys` the
invariant `VInv` adds the age of values: keys were made from values drawn before those of the
exchange that is going on. The definitions are in `SessionInvariants`. TLC finds
`KInv` and `VInv` true of all 2.6 million states of run `session`'s instance, with
the quantifiers it cannot enumerate (over all sequences, naturals and messages)
bounded by what the state holds.

`ExchangeGoesOn` (`Spec => []NeverStandsStill`) is the safety half of `ExchangeCompletes`: while an end is in an exchange, or
holds a reply back, a packet of the exchange is under way or the client's loop is about to send its value. Of the phases
of `Talk` only one has both words empty, the one where both have read the KEXINIT, and there `Turn` says that
the client's loop has not yet run. A reply held back is a sign of an exchange by `Flushed` and `Exchanging`.

**Proved and not run**: the type invariants, `TwoTurns` of the
buffer, `ReadyStaysReady` and `DescriptorLeft` of the daemon, `RekeyInTime` of the clocks, `NeverStandsStill` of `Session`, `NothingOverlooked` of `Channel` and `NobodyWaitsInVain` of
`ChannelTable` have held in runs of the
same instances and are stated as theorems for every value of the constants.

**Only model-checked**: everything under fairness, as the prover has no liveness: `AuthEnds`, `AllDelivered`, `ExchangeCompletes` of
`Session`, `SessionEnds`, `EofDelivered`, `ClosedIsRemoved` of `Channel`, `SlotsReturn` of `ChannelTable`, `Answered` and
`SlotFreed` of the daemon. Of four of them the safety half is proved, that nobody waits for what is not coming (`NeverStandsStill`,
`NobodyWaitsInVain`, and `NothingOverlooked` for `SessionEnds` and `ClosedIsRemoved`; `DescriptorLeft` is a part of `Answered`); what is left to TLC there is that the steps are taken and that they end. All invariants and action properties of the passing runs are theorems, some under a
hypothesis that is necessary and named above (no window change for `NoFatalExit`, a keepalive limit of 3 for `PeerWasAsked`).

## 6. Not modelled, and the plan

Not modelled: cryptography, key files and randomness (computation without
interleaving), terminal modes, login records and environment, the table of listeners (see
section 4), and all of the
repository outside `src/dropbear` but for the inventory. The repository's size is
that of the vendored programs it packs; measured against it the models cover little.

Next, in this order:

1. `Listeners`: `accept()` to an open channel, forwarding requests, removal by key.
