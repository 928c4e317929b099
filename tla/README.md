# TheNetNode in TLA+

TLA+ models, model-checking runs and machine-checked proofs for TheNetNode
(TNN 1.79), the packet-radio network node in this repository. Every definition
is translated from the C source; `PROJECT.json` names, for each definition, the
lines it stands for.

1. [The system](#1-the-system)
2. [The models](#2-the-models)
3. [The runs](#3-the-runs)
4. [Disagreements between the code and its comments](#4-disagreements-between-the-code-and-its-comments)
5. [The proofs](#5-the-proofs)
6. [What is not modelled](#6-what-is-not-modelled)
7. [Plan](#7-plan)

Checking a run, and checking the proofs:

    tlc -workers 2 -config L2Delivery.cfg MCL2Link.tla
    tlapm L2LinkProofs.tla
    tlapm L2TimerProofs.tla
    tlapm L3Proofs.tla
    tlapm L4Proofs.tla
    tlapm L4WorldProofs.tla
    tlapm L4PipeProofs.tla
    tlapm L7Proofs.tla
    tlapm ConversProofs.tla

## 1. The system

TheNetNode is one single-threaded process. `main()` (src/src/main.c) loops for
ever: it lets the drivers exchange frames with the radio modems, and then runs
every level once, `l2()`, `l3rx()`/`l3tx()`, the level 4 timers, level 7 and
the servers. No handler is ever interrupted by another one of the same node.
What makes the system hard is elsewhere: two nodes that run this code
interleave freely, the radio loses frames, timers race with answers that are
still under way, and a request of a user or of a higher level may meet a link
in any state.

| Component | State | Operations | Hard behaviour | What makes it correct |
|---|---|---|---|---|
| **Level 2 state machine** (l2stma.c, l2.h) | the state 0..15 of a link block | `l2stma(table)`: transmit, change the state, report | 23 tables of 16 rows; function and message run before and after the change of state | a wait for an answer is always timed; busy and ready alternate |
| **Level 2 frames and timers** (l2rx.c, l2tx.c, l2timer.c, l2misc.c) | per link: V(S), V(R), last N(R) sent and received, T1, T2, T3, retries, flags, send and receive lists, maxframe, bitmask (EAX.25) | `l2rx`, `l2tx`, `l2timr`, `newlnk`, `dsclnk`, `itolnk`, `i2tolx`, `clrstfl` | loss, repetition, retransmission after a poll, mutual busy, restart of a peer, fallback from EAX.25 | messages arrive in order, once, without a gap; progress when losses stop; both ends agree on the mode |
| **Digipeating, hop-to-hop** (l2rx.c, l2misc.c) | a pair of link blocks, one in L2SHTH | `L2FACKHTH`, `L2FREJHTH` | the second link answers for the first | the caller learns what became of the second hop |
| **DAMA master** (l2dama.c) | per port: round, priorities, poll counters | `timDAMA`, polls | priorities and forbidden polls | every station is polled |
| **Level 4 circuits** (l4.c) | per circuit: V(S), V(R), window, per-frame countdowns, list of frames out of order, choke flags | `l4rx`, `trasrv`, `l4rest`, `itocir`, `newcir`, `discir` | datagrams overtake one another; selective repeat; choke; retries of CONREQ/DISREQ | a circuit is an ordered pipe; both ends learn of its end |
| **Buffer pool** (buffer.c) | free list, `nmbfre` | `allocb`, `dealoc` | running out stops the program | thresholds keep a reserve |
| **Level 3 tables** (l3tab.c, l3nbr.c) | nodes (hash table), peers, a route per peer and node | `add_node`, `del_node`, `update_route`, ... | counts kept beside the tables | counts agree; a node without a route goes |
| **Level 3 NET/ROM** (l3netrom.c, l3misc.c) | lists of received datagrams, slices of broadcasts | `netrom_rx`, `rx_ui_broadcast`, `brosrv` | loops, time to live, fast learning | a datagram dies out; routes converge |
| **Level 3 INP, TheNet, FlexNet, RTT** (l3inp.c, l3thenet.c, l3vc.c, l3rtt.c) | as above, with transport times | broadcasts of changes, RTT frames | counting to infinity | routes converge |
| **Level 7** (l7.c, l7conn.c, l7utils.c, l7host.c) | users and patch cords that join two links or circuits | `l2tol7`, `fmlink`, `itousr`, `connect` | both ends change at once | whoever loses a partner is told once |
| **Convers** (cvs_*.c) | hosts, users, channels | commands, link protocol | a distributed user list | lists agree after a split |
| **IP, TCP, sockets; gateways; PacSat; displays; configuration; drivers** | see PROJECT.json | | mostly I/O and text | |

The levels interact by calls in both directions. Level 7 and level 3 ask level
2 for a link with `newlnk()`, hand it messages with `itolnk()` and end it with
`dsclnk()`; level 2 reports `CONNT`, `DISCF`, `BUSYF`, `FAILW`, `LRESF`,
`LREST`, `FRMRF` and `FRMRT` with `l2tolx()` and offers what it received with
`i2tolx()`, which may be refused. Level 2 and a driver share two lists: the
driver takes frames from `txl2fl`, returns each to `stfl` when it is on the air
(there `clrstfl()` starts T1), and appends to `rxfl`. All levels share the
buffer pool and read `nmbfre`.

Level 4 hands datagrams to level 3 (`l3txl`), which sends them over level 2 or
whatever else leads to the node; level 3 calls `l4rx()` for those that arrive,
and tells level 4 of a node that it deletes (`l3tol4()`, from `destot()`).
Level 2 tells level 3 what becomes of the links to neighbours (`l2tol3()`).
Level 7 uses a circuit as it uses a link: `newcir()`, `itocir()`, `discir()`
one way, `l2tol7()` and `fmlink()` the other. A convers server uses level 7: it
connects to other hosts with `connect_cvshost()`, and its lines come from
`l7rx()` through the user block of the connection.

`PROJECT.json` lists 40 hazards, each at its line: the places where a wrong
order, a loss, a limit or a stale value would do harm that a test would hardly
reach. The properties below were chosen from that list.

## 2. The models

| Module | What it is |
|---|---|
| `L2Tables` | the 23 state tables of l2stma.c, column by column |
| `L2Link` | level 2: one link between two nodes, from both users' requests down to the air |
| `L2Pipe` | what level 2 promises to the levels above: two reliable pipes |
| `MCL2Link` | values of the constants for TLC |
| `L4Circuit` | level 4: the circuits between two nodes and the datagrams of level 3 |
| `L4Pipe` | what level 4 promises to level 7: circuits that are ordered pipes |
| `MCL4` | values of the constants for TLC |
| `L3Tables` | level 3: the node, segment and route tables and what INP does to them, as operators |
| `L3Net` | a network of nodes with those tables: links that come and go, measurements, reports, datagrams |
| `MCL3` | networks of two and three nodes, cold or running |
| `L7Patch` | level 7: users, patch cords, calls, CQ, console channels, driven by the lower levels and the main loop |
| `L7Board` | what level 7 promises to those who use the node |
| `MCL7` | two stations, a circuit, a console channel |
| `ConversTables` | convers: the tables of the hosts and what commands and lines do to them, as operators |
| `Convers` | a network of convers hosts over streams of lines |
| `MCConvers` | two or three hosts, cold or connected |
| `L2LinkProofs`, `L2TimerProofs` | theorems about `L2Link`, proved with TLAPS |
| `L3Proofs`, `L4Proofs` | theorems about `L3Net` and `L4Circuit` |
| `L4WorldProofs`, `L4PipeProofs` | that `L4Circuit` implements `L4Pipe` over an ordered network: its inductive invariant and what the handlers do; the actions and the theorems |
| `L7Proofs` | theorems about `L7Patch`, and that it implements `L7Board` |
| `ConversProofs` | theorems about `Convers` |

### L2Tables

A C table has a row `{ function, new state, message }` for each state. The
module writes the three columns as three rows, which shows at a glance what a
table does, and makes of them a function from the state. Names of functions and
messages are strings; `L2Link` says what they do (`Func` for the transmit
functions, `Message` for `mftb[]`).

### L2Link

**State.** `lk[n]` is the link block of node *n* with the fields of `LNKBLK`
that the control of a link depends on. A timer is a Boolean: it runs or it does
not. `sendil` is the list of messages to send, `rcvd` the number of messages
received and not yet fetched. `txq[n]` and `rxq[n]` are the lists between level
2 and the driver. Two fields are history and not in the code: `got`, the
messages this node accepted, and `last`, the last of them since the link was
reset. `used` counts what the bounds limit.

**Handlers are functions of a context.** The code of level 2 works on globals:
`lnkpoi`, the link; `txfPF`, the poll bit that an answer repeats; and the list
of frames to send. An operator such as `RxI`, `Sdoi` or `L2timr` maps a record
of these three to a new one, so that a handler that calls another one is the
composition of two operators, in the order of the code.

| Action | Code |
|---|---|
| `Connect(n)` | `connect()` in l7conn.c with `newlnk()` and table 19 |
| `Disconnect(n)` | `dsclnk()` |
| `Queue(n)` | `itolnk()`, guarded by congestion control as in `fmlink()`/`itousr()` |
| `Transmit(n)`, `Lose(n)` | the driver sends the next frame, the air delivers or loses it; `clrstfl()` starts T1 |
| `Receive(n)` | one turn of the loop of `l2rx()` |
| `L2(n)` | the rest of `l2()`: `l2tx()`, and `l2timr()` if the clock has ticked, with any set of timers that may expire, any amount of free buffers (below 30, between, above 62), any number of messages fetched by the higher levels and the port busy or not |
| `Restart(n)` | the program of *n* starts anew (`l2init()`) |

`L2(n)` is one action because nothing can come between `l2tx()` and `l2timr()`.
`Receive(n)` is one frame of the loop of `l2rx()` rather than the whole of it,
so that the driver of the *other* node may send between two frames; `L2(n)`
needs `rxq[n]` to be empty, as after the loop.

**What the receiver reads.** The position and width of N(R) and N(S) depend on
the mode of the link (AX.25 or EAX.25). A frame carries the mode it was built
in (`x`); `RxNR` and `RxNS` compute what a receiver in the same or in the other
mode reads from those octets. Two ends that disagree about the mode therefore
misread each other as the code does.

**Abstractions.** `ModStd` stands for the 8 sequence numbers of AX.25 (the code
takes `& bitmask`); the runs use 3 or 4. Messages are numbers in the order they
are queued. A message is either always shorter than `ipoll_paclen` or never
(`ShortFrames`). The address fields, the splitting of messages into fragments
and the values of RTT and SRTT are left out: no property is about them.

### L2Pipe

The abstract specification of level 2. Each node offers numbered messages; its
peer takes them in order, without gap or duplicate, until a link is reset;
a message is confirmed to its sender only after the peer took it; only a link
that goes down drops what is pending, and then all of it. `L2Link!PipeSpec` is
`L2Pipe!Spec` under the refinement mapping `offered <- used.msg`, `pending <-
sendil`, `taken <- got`, `last <- last`, `up <- state # L2SDSCED`, and TLC
checks that every step of level 2 is a step of the pipe or a stutter.

That a message may be taken again *after a reset* is deliberate. AX.25 resets
both sequence numbers without any exchange about what had arrived, and
`reslnk()` starts again from the front of `sendil`. The pipe says exactly how
much is promised: order and completeness between two resets.

### L4Circuit

**State.** `cir[n][i]` is entry *i* of the circuit table of node *n* (`CIRBLK`),
`net[n]` the datagrams on their way to *n*. The list of messages out of order,
`mbhdos`, is a function from the offset to the message, which is what the code
makes of it: sorted by `l4seq`, at most one of each. A message of `mbhdtx`
carries its number of tries; that it has a number `l4seq` follows from its
place. Timers run or do not run. `got[s]` is history: what circuit *s*
accepted. Circuits are named by the order in which they were opened, and that
name stands for the random number `ideige`.

| Action | Code |
|---|---|
| `Connect(n)` | `conl4()` with `newcir()` |
| `Disconnect(n, i)` | `discir()` with `bsycir()` |
| `Queue(n, i)` | `itocir()`, with the cut of an overfull list |
| `Receive(n)` | `l4rx()` for the next datagram |
| `Rest(n, i, ...)` | `l4rest()` for one circuit: level 7 fetches any number of messages, buffers are short, enough or plenty |
| `Tx(n, i)` | `l4tx()` for one circuit |
| `Second(n, i, ...)` | `trasrv()` for one circuit, with any set of timers that may run out and at most one message to repeat |
| `Lose`, `Duplicate`, `Swap` | what level 3 and the nodes between may do to a datagram |
| `Restart(n)` | the program of *n* starts anew (`initl4()`) |

The loops of `l4rest()`, `l4tx()` and `trasrv()` over all circuits are split
into one step per circuit: circuits share nothing but the free entries. In
`trasrv()` two messages that run out in the same second are two steps.

**Abstractions.** `Mod` stands for the 128 sequence numbers. Fragments
(`morflg`, `fragme`) are left out, a message is one datagram; so are the call
signs of a CONREQ, PID-Change, circuits to a node behind this one and the
measured times. A message that `takfrm()` throws away because its user has left
counts as accepted. The random number of a new circuit is one that no other
circuit has had.

### L4Pipe

The abstract specification of level 4. A circuit opens once and ends for good.
Its partner takes its messages in order, each one once, from the first to the
last it takes; a message is confirmed only when it was taken; only a circuit
that ends drops what is pending. Unlike `L2Pipe` there are no resets: a circuit
has a number, and a new connection is a new circuit. `L4Circuit!PipeSpec` maps
an entry of the table to the circuit it holds (`Where`).

### L3Tables and L3Net

**State.** `router[n]` holds the tables of node *n*: `known`, the nodes of its
node table, and for each segment (`PEER`) its type, the state of its link, the
measured times and a route to each node with the quality that the neighbour
reported, the quality that was reported to it, a timeout and the hops. A quality
is a transport time in 10 ms, 0 means no way, 60000 is the horizon. `chan[n][m]`
are the frames from *n* to *m*, in order: those under way and those that wait in
the link block of *n*; `txl[n]` is `l3txl`; `circuit[n]` the nodes level 4 has
circuits with.

`L3Tables` has the operations on the tables of one node as functions of `r`
(`AddRoute`, `ResetPeer`, `AgeSegment`, `InformPeer`, `RxReport`, ...), each
with the calls the code makes in it; `L3Net` has the actions.

| Action | Code |
|---|---|
| `Connect`, `Accept`, `Fail`, `Busy`, `Notice`, `Reset` | `connbr()`, and `l2tol3()`/`netrom_status()` for CONNT, DISCF/FAILW, BUSYF, LRESF and LREST at the end where they arrive |
| `Measure`, `Remeasure` | `l3rtt_service()` |
| `Broadcast(n, m, jam)` | `brosrv10()` with `inform_peer()`; *jam*: more than 7 frames wait on the link |
| `Minute`, `AnHour`, `Drop` | `brosrv60()`, `brosrv360()`, `drop_unreachable_nodes()` |
| `Receive(n, m)` | one turn of `l3rx()`: `rx_l3rtt_frame()`, `rx_inp_broadcast()`, `netrom_rx()`, or the UA of a setup |
| `Originate`, `L3tx` | level 4 opens a circuit; `l3tx()` |
| `ToggleLocal`, `Restart` | `register_neigb()`, `unregister_neigb()`; `l3init()` |

The two ends of a link learn of its end separately. Between `Fail(n, m)` and
`Notice(m, n)` node *m* goes on sending into the void and believes the routes
it has, as in the code. `toneig()` throws a frame away when *n* has no link; with
one the frame waits in the link block, whatever the partner has. What waits is
lost when *n* loses the link (`Lost`, `clrlnk()`), and kept when the link is set
up anew (`Accept`, `Reset`; `reslnk()` leaves `sendil` alone): then old reports
come after the answer to the new setup (`UA`), which each end reads with tables
that have forgotten.

**Abstractions.** A node's index in the hash table is its name, the table is
never full. Aliases, IP addresses and options of nodes, hidden proxies and
several segments to one neighbour are left out; so are FlexNet and TheNet
segments and NET/ROM broadcasts with UI frames. An INP report carries all
changes in one frame. The arithmetic of the filters in `inform_peer()`, of
`smooth()` and of the horizon is that of the code, with `UWORD` as 16 bits. Of
level 2 the model knows what level 3 sees of it: what *m* has read counts as
confirmed, so a reset repeats nothing; a first part of what waits may be lost
with a setup, since it arrived for the old link (`From` in `Accept`); no frame is
read while its reader sets the link up; resets by a frame reject are left out.

### L7Patch and L7Board

**State.** `ptc[u]` is the entry of the patch cord table of uid *u*: the
partner, the status of the user block (`"no"` when there is none) and the flags
`local` and `recflg`. `link[u]` is what the lower level knows of the link,
circuit or channel. `hstatl` and `cq_statl` are the lists of reports that level
7 reads in another turn of the main loop, `userhd` the users of whom a line
waits for `l7rx()`, `turn` the part of the main loop that runs. That part
matters: a line that level 2 hands over cannot be overtaken by an event of the
same link, since `l7rx()` runs before level 2 does again.

| Action | Code |
|---|---|
| `Incoming`, `Established`, `Down` | `l2tol7()` with CONNT, BUSYF, FAILW, DISCF |
| `AnswerHth` | `l2timr()` for `L2FACKHTH`, `L2FREJHTH` |
| `HostConnect`, `HostDisconnect`, `HostMessage` | `hstcon()`, `hstdis()`, `hostsv()` |
| `Input`, `Line`, `DropLine` | `fmlink()` with `itoccp()`; `l7rx()` with `ccpcon()`, `ccpcq()`, `ccpquit()` or any other command |
| `Gateway` | `l7tx()`: `gateway()` for a connect that is not for this node |
| `JoinCq` | `timsrv()`: an answered CQ |
| `Pass` | `main()` goes on to the next part |

**L7Board** is the abstract specification: stations come and go, two may be
patched through to each other, only if neither has a partner, and the patch
lasts until one of them goes. The mapping takes the stations whose link is up,
and as patches the pairs of users that are each other's partner, have left the
prompt and are up.

**Abstractions.** The text of a line is its effect: another command, quit, a
call, a CQ. Data through a patch cord, convers and file states, TCP users,
passwords (a user may be refused) and idle timeouts are left out. `Frmr`, a link
that level 2 sets up anew after a FRMR, is in `FrmrSpec` only.

### ConversTables and Convers

**State.** For each host: the type of the `CONNECTION` of each stream, its
`PERMLINK`s, `DESTINATION`s, users of its own and of other hosts, and channels;
for each stream, the ends that are still connected and the lines under way to
each. `heard` counts, for each user, how often the text arrived.

| Action | Code |
|---|---|
| `Established`, `NotEstablished`, `Fail`, `Lost` | `l2tol7()` for a stream that `connect_cvshost()` set up; `clrccp()` with `bye_command2()` |
| `ConversLine`, `HostLine`, `DestLine`, `UserLine`, `AwayLine`, `CmsgLine`, `LoopedLine`, `Dropped` | one line in `convers_input()` |
| `Conversd(n, late, due)` | `conversd()`: `free_closed_connections()`, then `connect_permlinks()`, in one step as in the code |
| `Links` | `links_command()`: an operator resets a link |
| `Login`, `Join`, `Leave`, `Quit`, `Away`, `Say` | the commands of users |

**Abstractions.** The times of the retry timers are left out: a link may be
due at once, and a locked link may be tried again (it is counted as a fault,
since that is an hour in the code). A pair connects again only when both ends
have swept up the old connection. Every time that a host measures is 1. Modes of
channels, topics, operators, nicknames, private messages, invitations, PING and
ROUT are left out, and so are hosts that no one configured.

## 3. The runs

### Level 2

The runs of level 2 use `MCL2Link`: two nodes, `east` and `west`, `Retry = 2`,
`IpollRetry = 2`.

| Run (cfg) | Question | Distinct states |
|---|---|---|
| `l2_delivery` (L2Delivery) | Is a transfer sound while sequence numbers wrap, a frame is lost and buffers run short? | 251,419 |
| `l2_sessions` (L2Sessions) | Is what survives from one session to the next harmless, whoever connects, disconnects, restarts or overfills its list, while maxframe adapts? | 426,837 |
| `l2_eax` (L2Eax) | Do both ends agree on EAX.25, whatever two lost frames, a restart, a disconnect and a second connect do? | 291,713 |
| `l2_progress` (L2Progress) | Does every transfer, every wait and every half-open link end, also when frames are rejected and ends are busy? | 101,941 |

The properties:

- `TypeOK`: types, and the sequence numbers of an established link stay within
  its bitmask (`Masked`).
- `WindowInQueue`: never more frames outstanding than `sendil` holds. `sdi()`
  and `srxdNR()` walk the list by that number without looking at its end.
- `NoReject`: two nodes that run this code never send FRMR to each other: no
  sequence of losses, polls and repetitions makes one see an invalid N(R).
- `Supervised`: an established link has T1 or T3 running, or a frame with the
  driver that will start T1.
- `AwaitingTimed`: the same for a link that waits for an answer, with T1 only.
- `PipeSpec`: level 2 implements `L2Pipe`.
- `SameMode`: both ends of an established link are in the same mode, and every
  I or S frame on its way is read in the mode it was built in.
- `Delivers` (liveness): messages are delivered or the link goes down, however
  rejects, shortages of buffers and lost announcements of readiness mix. There
  is one exception, `StaleBusy`: the peer is in a busy state that a reset of the
  link has left behind. Nothing ends that state (`L2BusyStuck.cfg`, section 4).
- `Answered`, `NoHalfOpen` (liveness): each wait for an answer ends; a node whose
  peer lost the link notices.

**Bounds, and why they are enough.** A window of 2 among 3 sequence numbers
(`l2_delivery`) is the tightest legal relation between maxframe and modulus, as
7 of 8 is in the code; with 3 messages the numbers wrap and a repeated frame
carries a number the receiver will expect again. One lost frame reaches every
retransmission path: a lost I frame (REJ, T1), a lost RR or final (poll,
IPOLL), a lost UA or SABM (repeated setup). `Retry = 2` makes the retry counter
run out after one repetition, so both ends of the counter are seen. `TxMax`
bounds the frames a node holds for the driver; a handler whose answer does not
fit waits, as if the driver had been quicker. `RxMax = 1` makes no difference
to what can happen, since frames wait in `txq` instead. `MaxLow` bounds how
often buffers run short, not for how long.
`l2_progress` has the bounds of four mixtures of disturbances, each the
beginning of its behaviours (`Beginnings` in `MCL2Link`): two messages and a lost
frame, which is rejected (REJ) or repeated; a lost frame and a shortage, so that
the announcement of readiness is lost, or the UA before a shortage; two
shortages, so that both ends are busy at once; a lost frame, a restart and a
second connect. All of them at once have too many states. `Conctl = 2` makes an
end busy when two messages wait to be fetched, and ready again when none does.
In `l2_sessions` messages come from level 3, which ignores congestion control,
and `TosendMax` is 1 instead of 150: the cut of an overfull link is part of
every question asked there. `l2_sessions` and `l2_progress` have the port flag
for dynamic maxframe set. Deadlock is not checked: when the bounds are used up
and all is delivered and disconnected, the model stops.

**Patience.** With `Patient = TRUE`, T1 and T3 expire only when no frame is
under way, and a user does not connect again before the frames of the previous
link are gone (crossing a connect of the peer is allowed). This is what the
code aims for: T1 is derived from the measured round-trip time, T3 is three
minutes, the radio channel is half duplex. It is an assumption all the same,
and `PipeSpec` needs it: AX.25 has no session number, so a SABM that is delayed
beyond its own repetition resets a link that already transfers. The theorems of
section 5 do not need it.

**One caller.** `l2_delivery` and `l2_progress` let only `east` connect.
`Supervised` and `NoHalfOpen` do not hold otherwise: when both users connect at
once, the UA that answers a crossed SABM arrives in information transfer,
`l2rx()` has stopped T3 by then, and no table starts it again for an idle link;
if the peer restarts, nobody notices. `l2_sessions` has two callers, and all it
checks holds for crossed connects as well.

**Fairness** (`Fairness`, in the `ProgressSpec` of `l2_progress`). `main()`
loops for ever, so the driver sends what waits (weak fairness of `Transmit`),
`l2rx()` takes what arrived, and the clock ticks. `Tick` is the turn of `l2()`
in which every timer that is due expires, memory is ample, the higher levels
fetch what arrived and the port is free. It is strongly fair: it is disabled
while a frame waits in `rxq`, but each call of `l2()` reaches `l2tx()` and
`l2timr()` after `l2rx()`, however often there was something to receive.
Losses, restarts, shortages and users' requests are bounded by their counters
and under no fairness. The three formulas write ENABLED out (`CanTick`,
`CanReceive`), which TLC evaluates much faster.

### Level 4

The runs of level 4 use `MCL4`: the nodes `east` and `west`, a circuit table of
one entry, T-Window 2, `Retry = 2` (`L4_RETRY` is 3).

| Run (cfg) | Question | Distinct states |
|---|---|---|
| `l4_choke` (L4Choke) | Does a choke lose, double or misplace a message when datagrams are repeated and overtake one another? | 124,554 |
| `l4_sessions` (L4Sessions) | Does a message reach a circuit it was not meant for, whoever connects, disconnects or restarts? | 151,518 |
| `l4_progress` (L4Progress) | Does every setup, transfer, choke and disconnect end? | 33,416 |

The properties:

- `TypeOK`: types; the sequence numbers stay below `Mod`.
- `WindowInList`: the open messages are within the list of messages to send and
  within the window. `l4tx()`, `trasrv()` and `chksts()` walk the list by that
  number without looking at its end.
- `WaitTimed`: whoever waits for an answer or for the end of a choke has
  `traout` running.
- `PipeSpec`: level 4 implements `L4Pipe`.
- `WaitEnds`, `Delivers`, `LeavingEnds`, `ChokeEnds` (liveness): a setup or
  disconnect ends; messages are delivered or the circuit ends; the circuit of a
  user who left ends; a choke is released.

**Bounds, and why they are enough.** The window of 2 is the smallest at which a
message can come too early, and half of `Mod = 4`, the limit of the protocol
(64 of 128); at a window of 1 the code never releases a choke
(`numrx < window / 2`), but T-Window is at least 4. With four messages the
numbers wrap. `l4_choke` takes `Mod = 6`: a datagram that is repeated or
overtaken by one other must still be told from the next round of numbers. The
code has no defence against datagrams delayed by a whole round, and the runs do
not ask for one. `Retry = 2` has one repetition and the end of the retries.
`TxCut = 3` in `l4_progress` stands for the 150 messages that cut a circuit.
`NetMax` bounds the datagrams on their way; in `l4_progress` it never blocks a
step. Deadlock is not checked, as above.

**Patience** as above: `traout` and the countdowns of the messages run out when
no datagram and no delayed acknowledgement is under way. `l4setT1()` has at
least 30 seconds for the round trip.

**No repeated CONREQ across sessions.** `l4_sessions` loses datagrams but
neither repeats nor swaps them. A message names the circuit of its receiver
only. If a CONREQ is repeated by the network and the circuit it opened has
ended in between, the callee opens a second circuit with the caller, and the
caller accepts its messages as its partner's: `PipeSpec` does not hold then.

**No-activity timeout.** Only `l4_progress` has it (`MaxIdle`). `l4DiscInfo()`
sends its notice with the number `l4vs` but does not put it into `mbhdtx`.
After a choke, `l4vs` is the number of a message the partner has not accepted:
the partner takes the notice in its place and hands on what follows. `PipeSpec`
does not hold then.

**Fairness** (`FairSpec` of `L4Circuit`, used by `l4_progress`). Datagrams are
received, `l4rest()` runs with enough buffers and a level 7 that fetches
everything, `l4tx()` sends: weak fairness. The clock ticks: strong fairness of
the step in which what is due runs out, since `Patient` disables it while
datagrams are under way. Nothing obliges users, losses or the no-activity
timeout.

### Level 3

| Run (cfg) | Question | Distinct states |
|---|---|---|
| `l3_routing` (L3Routing) | Do routes end up right and free of loops when a LOCAL goes away and a line gets slower, in any order with the reports under way? | 316,804 |
| `l3_links` (L3Links) | Do failures, resets and restarts leave the tables consistent, and does the network settle? | 211,452 |

- `SettledRight`: when nothing is under way or due, each node knows exactly the
  nodes it may know of, and its next hop is nearer to the goal. No loops, and no
  node that everybody believes somebody else reaches.
- `WorseIsTold`: once *n* has said everything to *m*, *m* does not believe *n*
  to be nearer to a goal than it is.
- `NumRoutesAgree`: `num_routes` is the number of routes.
- `CircuitsReachable`: when a node has told its neighbours all there is to tell
  and no node is due to be deleted, its datagrams have a way to the partner of
  every circuit of level 4. Level 4 hears of a node that cannot be reached only
  from `del_node()`, that is called only by `drop_unreachable_nodes()`, and that
  finds a node only when every route is gone and every report taken back: the
  property fails when any path leaves a route or a report behind.
- `Withdrawable`: a route without a time limit is remembered by the neighbour
  that reported it, or something under way withdraws it.
- `Converges` (liveness): the network settles for good.

**Bounds.** `l3_routing` starts from a network that runs (`Warm`, computed by
the operations of the code): a triangle of nodes *a*, *b*, *c*, the alias of
*c* hidden, and the station *d*, a LOCAL of *a*. A triangle is the smallest
network in which a lost node may be heard of again from a third one; two
disturbances let *d* go away and the line be measured anew while either is still
being told. That *d* comes back is left out: `L3LocalBack.cfg` (section 4) is
the reason. `Rtt` lets
the line of *b* to *a* become 20 times slower, enough to turn routes around.
`l3_links` starts cold with two nodes, where all of setup, measurement and
change to INP happens, and has two disturbances out of seven kinds. A node starts
to send only when nothing of its waits (`ChanMax = 1`); answers make up to three
frames of it. One setup may
find frames that were kept (`MaxKept`), but no report behind a measurement
(`MaxUntidy = 0`; `L3KeptReport.cfg` shows what else happens). `MaxLt`
ends counting up by hops. Minutes that expire a route are not counted,
others are bounded by `MaxMinutes`. Deadlock is not checked: a settled network
with its bounds used up stops.

**Fairness.** `WF_vars(Work)`: the main loop does something as long as there is
something to do. No fairness for any single action is needed: no order of the
work goes on for ever. Disturbances are under no fairness.

### Level 7

| Run (cfg) | Question | Distinct states |
|---|---|---|
| `l7_cords` (L7Cords) | Do calls, CQs, disconnects and console channels, in any order, leave the patch cords in order? | 105,760 |
| `l7_calls` (L7Calls) | Does every call end, and is everyone answered who waits hop to hop? | 24,758 |

- `NoGhost`: no user block outlives its user.
- `CordsAgree`: the partner of my partner is me.
- `NobodyAlone`: whoever is up and not about to be disconnected is at the
  prompt or has a partner.
- `CallHasPartner`: when a line of a caller is read, the partner it gives up
  exists (`ptctab[NO_UID]` is outside the table).
- `BoardSpec`: level 7 implements `L7Board`.
- `HthAnswered`, `CallEnds` (liveness).

**Bounds.** Two stations and one console channel, one of which may be the third
for the other two; the stations are symmetric in `l7_cords`. `l7_calls` has a
link and a circuit. Deadlock is checked. Five constants bound what level 7 does
not survive, each a different way:
`MaxCq = 2` callers at a time (`clrccp()` looks at the first entry only),
`MaxReuse` (a channel connected again before its DISCF is read), `MaxFrmr` (a
link that is set up anew reports CONNT with a partner: the patch is cut and the
other side disconnected), `MaxImpatient` (lines of two users who have just been
joined by CQ are read before `timsrv()` runs), `MaxGatewayCq` (a connect that is
passed on reaches a CQ caller). `l7_cords` has the first at 1 and the
others at 0; with any of them one higher TLC finds its properties violated.
`l7_calls` keeps its two properties with `MaxImpatient` and `MaxGatewayCq` at 1.

**Fairness.** The main loop runs (weak). `hostsv()` is due every 10 ms, not in
each turn: strong. A link or circuit that is being set up or taken down is
settled by the retry counters of level 2 and 4, in turns in which its lines do
not hold it up: strong. Users are under no fairness.

### Convers

| Run (cfg) | Question | Distinct states |
|---|---|---|
| `convers_hosts` (ConversHosts) | Do the user lists of the hosts agree after joins, aways, quits, a text and a fault, and does loop detection cut loops and nothing else? | 61,097 |

- `ChannelsExist`: a channel that somebody is on exists.
- `WaysOpen`: a user's `via` and the link of a reached destination are open
  connections.
- `AwayKnown`: an AWAY that is read is about a known user.
- `HeardOnce`: nobody gets a text twice.
- `NoFalseAlarm`: in a tree of configured links none is locked for a loop.
- `Converges` (liveness): in a tree, the lists of users agree in the end.
- `LoopCut` (liveness): a ring of links does not stay closed.

**Bounds.** The run has five beginnings, each with a share of the bounds left:
a pair with three commands of a user and a fault; a cold line of three hosts
with one user, a command and a fault; the same with a user at each end, a text
and a fault; a line that is connected, with a command, a text and a fault; and a
connected line that is closed to a ring and left alone. A fault is a stream that
fails or is refused, a timeout that comes early, an operator's reset or a
locked link that is tried again. Deadlock is not checked: a quiet network stops.

**Fairness.** `WF_vars(Progress)`: the main loops run and a connect is answered.
Faults and users are under no fairness.

### All runs

**Mutants.** For each property `PROJECT.json` names a definition and a mutant
of it: a sum without its bitmask, a lower window edge that is not moved, an
off-by-one in the test of N(R), a T1 that is stopped without starting T3, and
so on. With the mutant in place TLC finds the property violated under the same
configuration.

## 4. Disagreements between the code and its comments

Places where the code does not do what a comment or a caller of it relies on.
Each has a configuration of its own; TLC finds the property violated. They are
not among the runs of `PROJECT.json`, which ask what does hold.

| Configuration, module, property | The comment says | What happens |
|---|---|---|
| `L2BusyStuck.cfg`, `MCL2Link`, `BusyClears` | with buffers free and little to fetch, busy is dissolved (l2timer.c:176) | SABM, UA lost, buffers short, SABM again: `reslnk()` (l2misc.c:600) clears `L2FBUSY`, table 8 keeps `L2SDBS`; nothing leaves that state, the peer is answered with RNR for ever |
| `L2StaleMessages.cfg`, `MCL2Link`, `FreeBlockEmpty` | `getlnk()` delivers an empty block (l2misc.c:661, 710) | message queued during setup, disconnect: table 20 (l2stma.c:530) frees the block with the message still in `sendil` |
| `L4Window.cfg`, `MCL4`, `NotKeptAgain` | a message that has come already is thrown away (l4.c:598) | T-Window 127 (allowed by global.c:253): the acknowledgement is lost, the first message is repeated, its offset 126 is within the window (l4.c:564) and it is kept to be handed on again |
| `L4LateConack.cfg`, `MCL4`, `MarkedEnds` | `discir()` sets a flag, and `l4rest()` reports and ends the circuit (l4.c:825, l4.h:87) | the user gives up, CONACK arrives first: `clrcir()` (l4.c:520) drops the flag, the circuit is connected |
| `L3Hourly.cfg`, `MCL3`, `WorseIsTold` | changes for the worse must always be sent at once (l3netrom.c:842) | `brosrv360()` (l3misc.c:523) marks a route as not reported; what gets worse than half the horizon before it is reported again counts as not worth reporting, and the neighbour keeps the old value |
| `L3KeptReport.cfg`, `MCL3`, `WorseIsTold` | the same | a link is reset while a measurement and, behind it, a report wait in the link block: `reset_peer()` (l3tab.c:598) forgets what was reported, `reslnk()` (l2misc.c:588) keeps the frames; the neighbour reads the measurement, becomes an INP segment, and takes the old report for good. When that node is gone, nobody tells it |
| `L3LocalBack.cfg`, `MCL3`, `WorseIsTold` | the same | LOCAL *d* of *a* goes away, *b* tells *a* of a detour over *c*, which goes away too, *d* comes back, and *b* withdraws the detour: *a* ignores reports about its own stations (l3inp.c:349), and keeps a way to *d* over *b* that does not exist |
| `L7CqGhost.cfg`, `MCL7`, `NoGhost` | `clrccp()` searches the list of CQ callers (l7.c:407) | its loop ends with an unconditional break after the first entry: the second caller's entry stays when he goes, and later his channel is connected to whoever answers it |

`L4Delivery.cfg` (module `MCL4`) is one more check that passes: while the numbers
of a transfer both ways wrap and a datagram is lost, each message that came too
early is kept in its place (`StoredInPlace`).

Seen while modelling levels 3 and 7 and convers, and not the subject of a
configuration:

- `l3tx()` uses index -1 for a node that is not known any more (l3misc.c:282);
  `find_node_ssid_range()` compares the first letter of a call sign with TRUE
  (l3tab.c:163) and finds nothing; the first value of `smooth()` is three times
  the measured one; a datagram that arrives with a time to live of 0 leaves with
  255 (l3netrom.c:192); `unregister_neigb()` frees the link data of a segment
  that `l2tol3()` goes on using for an automatic route; the other side's
  measured time is not reset when a link fails; `check_destot()` is called only
  after a failed setup and by FlexNet (l3misc.c:627, l3vc.c:270), while its
  comment asks for a call after each change of a quality (l3tab.c:827): a circuit
  whose ways have all become 0 keeps trying until the report that withdraws them
  is out (`CircuitsReachable`).
- `numhsts` is counted down twice when level 7 disconnects a channel that the
  console disconnects too (l7host.c:899, 528, 1198; `MaxMiscount`), after which
  more channels may be connected to than Ypar allows; `is_cq()` deletes the
  entry of a CQ caller even when the connect is refused afterwards
  (l7conn.c:178, 1193); lines wait for `l7rx()` under the number of a uid, not
  of a session (l7ccp.c:204).
- `h_away_command()` (cvs_cmds.c:3323), `process_input()` and
  `send_msg_to_channel()` do not test the pointers they use; `AwayKnown` and
  `ChannelsExist` say why that is harmless between hosts that run this code.
  Crossed connects of two hosts throw each other off, and both try again. In a
  ring a host that has moved looks like a loop: a good link may be locked
  for an hour and the ring be partitioned for that time. `ccpcvs()` stops
  looking for a permitted host at the first empty slot (cvs_serv.c:588).

## 5. The proofs

| Theorem | Module | Statement |
|---|---|---|
| `TypeCorrect` | `L2LinkProofs` | `Spec => []TypeOK` |
| `WindowAlwaysInQueue` | `L2LinkProofs` | `Spec => []WindowInQueue` |
| `AwaitingAlwaysTimed` | `L2TimerProofs` | `Spec => []AwaitingTimed` |
| `RoutesCounted` | `L3Proofs` | `Spec => []NumRoutesAgree` |
| `CircuitsAlwaysReachable` | `L3Proofs` | `Spec => []CircuitsReachable` |
| `AlwaysWithdrawable` | `L3Proofs` | `Spec /\ [][Calm]_vars => []Withdrawable` |
| `WorseAlwaysTold` | `L3Proofs` | `Spec /\ [][Calm]_vars => []WorseIsTold` |
| `TypeCorrect` | `L4Proofs` | `Spec => []TypeOK` |
| `WindowAlwaysInList` | `L4Proofs` | `Spec => []WindowInList` |
| `WaitAlwaysTimed` | `L4Proofs` | `Spec => []WaitTimed` |
| `ImplementsPipe` | `L4PipeProofs` | `OrderedNetwork => (Spec => PipeSpec)` |
| `StoredAlwaysInPlace` | `L4PipeProofs` | `OrderedNetwork => (Spec => []StoredInPlace)` |
| `CordsAlwaysAgree` | `L7Proofs` | `Limits => (Spec => []CordsAgree)` |
| `NobodyEverAlone` | `L7Proofs` | `Limits => (Spec => []NobodyAlone)` |
| `NoUserBlockLeft` | `L7Proofs` | `Limits => (Spec => []NoGhost)` |
| `CallsHavePartners` | `L7Proofs` | `Limits => (Spec => []CallHasPartner)` |
| `ImplementsBoard` | `L7Proofs` | `Limits => (Spec => BoardSpec)` |
| `ChannelsAlwaysExist` | `ConversProofs` | `Spec => []ChannelsExist` |
| `WaysAlwaysOpen` | `ConversProofs` | `Spec => []WaysOpen` |

The first three hold for all values of the constants that satisfy the four
assumptions of `L2Link` (two nodes; `ModStd` between 2 and 128; maxframe between
1 and 127; `eax_behaviour` 0..3; the counters natural numbers): patient or not,
with any number of losses, restarts and callers, any retry counts and any window.

**TypeCorrect, WindowAlwaysInQueue.** Both follow from one inductive invariant,
`IInv`: `TypeOK` and, of each link block, `Sound`. A block is sound when V(S),
V(R) and both N(R) of an established link lie within its modulus (`Masked`),
although the modulus changes during a link's life, and when the outstanding
frames, V(S) - N(R) modulo the bitmask, are no more than the send list `sendil`
holds. A mode change happens only where every established link is reset in the
same step (SABM, SABME) or in a state in which the numbers do not count (setup).
Three lemmas of arithmetic modulo *M* carry the window: the distance of two
numbers grows by one with V(S) (`Advance`), shrinks by as much as N(R) moves
(`Approach`), and determines the number (`Distance`). So `srxdNR()` may remove
messages from the list only after `BadNR` has been tested, and `sdi()` may move
V(S) on only when the list is longer than the window that is open: the proof
fails where a handler does the one without the other. It follows the handlers:
each operator maps a well-formed context (`Handled`) to a well-formed one, lemma
by lemma, from the timers and `SendS` through `Stma` to `L2rx` and `L2timr`; the
actions then only put the context back into the variables. The tables enter by
one lemma, `TablesOK`: each is a function from the 16 states to entries with a
known function, state and message.

**AwaitingAlwaysTimed.** `AwaitingTimed` is not inductive: a received final
stops T1 of a waiting link, and the step keeps the property only because a
final is an S or U response, never an I frame; that depends on what the peer
put on the air. The inductive invariant `TimerInv` adds to `TypeOK` and the
property that in every `txq` and `rxq` only commands carry messages
(`Commands`). Two facts about the tables carry the proof. `WaitsAll`: every
entry of every table leads to a state that does not wait, or transmits a frame
that starts T1, or was in a waiting state and reports nothing that clears the
link. `StartsAll`: the tables that are run with T1 stopped (connect, local
stop, T1 and N2, a final, a frame reject) have no entry of the last kind. The
rest is one lemma per handler, stated for contexts (`Timed`).

**RoutesCounted, CircuitsAlwaysReachable.** For every network of routers and LOCAL
stations, every measurement and every bound, under the assumptions of `L3Net`.
Both follow from one inductive invariant, `Kept`. It says of the tables of each
node that they are records of the right fields, that the known nodes are nodes
of the network, and that `num_routes` of each segment is the number of its
entries with a quality other than 0; of each channel, that a report names nodes
of the network only, with qualities that are numbers, and that a datagram comes
from a router; of level 4, that it has circuits with known routers only. One
lemma carries the count: `UpdateRoutesCounted` says that `update_route()`, for
any set of nodes and whatever the new qualities, counts the routes that are lost
and won (`CardinalityOfChange`). Ageing, reports and the end of a link either go
through it or leave alone which qualities are 0.

For the circuits, `Kept` says where a segment may lead (`Ways`): one without a
link has neither routes nor reports (`Bare`), nobody is told of himself, a LOCAL
leads to no router, and the quality of a segment is what was measured. Most
operations take routes and reports away and change no type for the worse
(`Less`), and `Ways` survives that at once; `AddRoutes` and the reports add some,
to a segment with a link. A known node that is not due to be deleted then has a
route or a report over some segment with a link. If there is no route at all,
the way that is announced there is 0 (`WholeBest`), which differs from what was
reported, so a report is due: a contradiction. If there is a route, its segment
has been measured, or it could not report, and so leads to the node (`WholeWay`).
What the invariant has to survive are the paths on which routes go: the end of a
link, a reset, a timeout, too many hops, a report of the horizon. A path that
clears a link's state and not its routes breaks `Bare`.

**AlwaysWithdrawable, WorseAlwaysTold.** Both speak of what a node believes and
what its neighbour remembers having told it, and neither is inductive: an old
report under way can bring a belief back. The inductive invariant `Linked` adds
to `Kept` the `Web`: the tables of each node are `Sound`, and for each ordered
pair of neighbours `LinkInv` relates the segment *p* of *n* to *m*, the segment
*q* of *m* to *n*, and the frames *c* and *b* both ways. `Sound` says that a
registered LOCAL leads to its station and is the only way to it, that no segment
has a route to its own node, and that nothing is remembered of unknown nodes.
`LinkInv` has four parts. `FramesOf`: where a UA may stand and whose
measurements are on the link. `EndOf`: an end without a link has no routes and
nothing waiting, and while the answer to a call is under way the routes at the
other end have a time limit. `LastWord`: as long as what *n* sends will be read
before *n* forgets, a route of *m* without a limit has the quality that *n*
remembers, or a report about it is under way; and the last report about each
node says what *n* remembers, unless it is `Harmless`, that is read by a segment
that is not (yet) an INP segment, so that it gets a limit. `AllHarmless`: as
long as *p* itself is not an INP segment, everything under way is of that
kind. The lemmas go along what can happen to a link: a frame is
appended, read or lost with others (`Longer`, `Shorter`, `Rest`, `LastPart`),
one end calls, is answered or reset, or loses the link (`LinkCalls`,
`LinkAnswered`, `LinkRenews`, `LinkLost`), a route is learnt, gets a limit or
ages (`LinkHears`, `Softer`). `WorseAlwaysTold` then
needs the filters of `inform_peer()`: when nothing is left to announce, the best
way is no worse than what was reported (`SilentAnnounce`).

`Calm` excludes three steps, each because TLC found that the property does not
survive it, in the code as in the model (section 4): the hourly repetition
`AnHour` (`L3Hourly.cfg`), a setup that finds a report waiting behind a
measurement (`L3KeptReport.cfg`), and a LOCAL that is registered while its node
has another way to it (`L3LocalBack.cfg`). It is a restriction on the steps that
happen, not on the network: losses, resets, restarts, refusals, jams, new
measurements and every other change of a LOCAL are in, for every number of
nodes and lines, and for every bound. TLC checked `LinkInv` for all pairs on 24
million states of a running pair of nodes before it was proved.

**TypeCorrect, WindowAlwaysInList, WaitAlwaysTimed (level 4).** For every
window, modulus up to 128, retry count, number of circuits and bound; the
network may do anything, the timers need not be patient. One inductive
invariant, `Inv`, carries all three. A circuit is `Good`: it has its type, its
open messages (V(S) - the lower edge, modulo `Mod`) are no more than its list or
its window holds, the timer runs where it waits, and a circuit in use has a
number. The last is needed because a message is numbered by its circuit. `Inv`
also says of every datagram on its way that it is a `Frame`: a CONACK and a
DISACK carry an index and a number that fit into the tables, and a window that
is offered or granted is not 0. Without that a CONACK from the network would
set up a circuit with window 0 or a partner outside the table. That
`WindowInList` survives an acknowledgement and a burst rests on one lemma of
arithmetic, `Distance`: the difference of two numbers modulo *M* grows by *k*
when the first moves on by *k*, as long as it stays below *M*, and shrinks by
*k* when the second does. The notice of `l4DiscInfo()` breaks it for a moment
(V(S) moves on without a message in the list); the proof goes through because
`endcir()` follows in the same handler and clears the numbers.

**ImplementsPipe (level 4).** The whole claim of level 4 to its users: for every
window up to half of the sequence numbers, every number of circuits, messages
and retries, with callers on both sides, losses, restarts, disconnects at any
moment, chokes and short buffers, what a circuit hands on is what its partner
was given, in order, once and without a gap, and what a sender forgets has been
handed on. The hypothesis `OrderedNetwork` is `Patient /\ MaxDup = 0 /\ MaxSwap =
0 /\ MaxIdle = 0` and `2 * Trawir[n] <= Mod`; `l4_sessions` and `L4Delivery.cfg`
satisfy it. Section 3 says why each part is there: a CONREQ that the network
repeats opens a second circuit with the caller; the notice of the no-activity
timeout takes the number of a message; `L4Window.cfg` shows what a larger window
does. Datagrams that are swapped are not excluded by a counterexample but by the
numbers: one that is late by a whole round is taken for a new one, and how many
messages may pass it depends on window, modulus and the bound on swaps
(`l4_choke` checks one such instance).

The inductive invariant `IInv` (in `L4WorldProofs`) is `Inv` of `L4Proofs` and
`\E h : Registered /\ World`. The registry `h` says of each circuit, by its
number, at which node and index it was opened, who its partner is and which
window they agreed on; circuits are then spoken of as `K[s]`, wherever the table
holds them. `World` is a conjunction over circuits: who has whom as partner and
that nobody else has (`Agreed`, `Partner`); the messages taken are the first ones
of the partner (`InOrder`); the list holds exactly those not yet confirmed, and
the partner is at most a window ahead (`Listed`); V(S), V(R) and each early
message are where the true, unbounded counts put them (`Placed`); and of what is
under way to a circuit that will still read it, acknowledgements confirm only
what was taken and never less than an earlier one (`Confirms`), and messages lie
within a window of what is awaited (`Arrives`). The last two are where the order
of the network and half of the numbers are used: a number modulo `Mod` then
determines the message (`Congruent`, `ModMod`). A CONREQ or CONACK under way is a
token that at most one circuit owns (`Once`). `L4WorldProofs` proves for each
thing a handler does to a circuit (confirm, take, keep, send, open, end) that
`World` survives it; `L4PipeProofs` puts the handlers and actions together
(`NextWorld`) and shows that each step changes the circuits in one of the five
ways that `L4Pipe` has (`Step`: `Opening`, `Meeting`, `Offering`, `Working`,
`Ending`).

**StoredAlwaysInPlace.** `Placed` with one more invariant, `AllSwept`: a circuit
that is not connected keeps no early messages, since `clrcir()` runs whenever a
connection begins or ends.

**CordsAlwaysAgree, NobodyEverAlone, NoUserBlockLeft, CallsHavePartners (level
7).** For any number of links, circuits and console channels, any number of
connects and any order of events. None of the four is inductive, since a user's
entry is right or wrong only together with what is still to be read: an answered
CQ that `timsrv()` has not seen, a status message of a channel, a line for
`l7rx()`. The inductive invariant `IInv` adds to the types what an entry looks
like in each state of its link (`LinkInv`), who may be the partner of whom in
each status of the user block (`CordInv`), that both ends of an answered CQ
stand still until they are told (`CqInv`), and that a CONNT message is the first
about its channel and one that its channel has outlived is followed by another
(`HostInv`). TLC checked `IInv` on four instances (two stations with a channel; a
station, a circuit and a channel; two stations and a circuit; a station and two
channels; up to 351,020 states) before it was proved. The proof has one lemma
for each operator on the tables, which says what it may change (`Within`) and
what it leaves behind (a `Post` condition), and one for each action.

The hypothesis `Limits` is `MaxCq <= 1 /\ MaxGatewayCq = 0 /\ MaxImpatient = 0 /\
MaxReuse = 0`, the values of `l7_cords`. It is as weak as these constants allow.
With one of them higher TLC finds `CordsAgree`, `CallHasPartner` and `BoardSpec`
violated, and, with two CQ callers or a CQ answered through a gateway,
`NoGhost` and `NobodyAlone` too (an impatient line violates `NobodyAlone`).
These are defects of the code, not of the proof: section 3 names them.
`MaxMiscount` and `MaxFrmr` are not limited; `Frmr` is not a step of `Spec`.

**ImplementsBoard.** Every step of level 7 is a step of the board or a stutter.
A user is `Quiet` in a step when what matters of his entry stays, or when he
talks to nobody before or after it; the pairs of quiet users do not change
(`QuietTalk`). So a step in which all are quiet is a stutter, one that makes a
user come or go is `Come` or `Go` (`ComeStep`, `GoStep`: with a user who goes
his patch ends, because cords agree), and the one that answers a call joins two
users of whom neither talked to a third (`MeetStep`).

**ChannelsAlwaysExist, WaysAlwaysOpen (convers).** For every set of hosts,
streams, users and channels, any number of faults and any order of lines; two
hosts may have a stream in either direction. The inductive invariant `IInv`,
`Good(World)`, is a conjunction over the hosts (`HostOK`), and no operator
touches the tables of another host (`LocalStep`). It speaks of nothing that is
under way: a host checks what a line says when it reads it. To the two
properties it adds what they depend on (`LinksOK`): a `PERMLINK`'s connection is
one with its host, and a connection of type host is that of its `PERMLINK`. So
`Bye` of a connection, which clears the destinations behind its *peer*, clears
all those that are reached by the connection itself. Where a new connection
takes a link over, `HHost` and `Ccpcvs` throw the old one off first; that one
`Bye` is enough rests on there being two streams between a pair at most
(`TwoBetween`, `TakeOver`), as many as `connect_cvshost()` sets up. The sweep
needs that only connections that are closed or late are freed, and that a link
is due only without a connection (`LinksStep`). TLC checked `IInv` on 3 million states
of three hosts that set up a ring, with a command and a fault, before it was
proved. The lists are filtered with `Those` of `ConversTables`, since the
provers know nothing of `SelectSeq`.

**Model-checked only.** Liveness, which the provers cannot reach; `SettledRight`
of level 3, which speaks of the whole network at once (that no circle of nodes
believes in itself follows from qualities that grow along the way, over paths of
any length: induction over data); `WorseIsTold` and `Withdrawable` outside calm
behaviours do not hold;
`PipeSpec` of level 4 when datagrams are repeated or overtake one another;
`AwayKnown`, `HeardOnce` and `NoFalseAlarm` of convers,
which depend on the order of the lines under way, and those are put together by
folds over the tables, out of reach of the provers; and, of level 2, `PipeSpec`,
`NoReject`, `Supervised` and `SameMode`. The last three do not hold for all constants: they
need patience, one caller, or a port that does not try EAX.25 first.

## 6. What is not modelled

Inside level 2: UI frames, digipeating and hop-to-hop connects (`L2SHTH`), the
DAMA master, the no-activity timeout of level 7 (`noatou`), frames of wrong
length and the FRMR they cause, `USERMAXCON`, and the computation of SRTT. One
link stands for up to 400 link blocks; blocks share nothing but the buffer
pool, whose shortage is an input of `L2(n)`. The other components are in the
table of section 1 and, with reasons, in `PROJECT.json`.

Seen while modelling and not the subject of a run: `LINKBUSY` (l2rx.c:58) is
always true for a busy link because of the precedence of `>=` and `?:`
(modelled as it computes); `sdipoll()` builds a single control octet on EAX.25
links too (l2tx.c:951; modelled, but `l2_eax` sets `ShortFrames = FALSE`);
crossed SABM and SABME of two callers leave the ends in different modes;
`setT1()` falls back to AX.25 when the second SABME has been sent, so that its
UA leaves the ends in different modes (l2timer.c:344); a SABM on an EAX.25 link
keeps the maxframe of EAX.25 (l2rx.c:495).

Inside level 4: fragments, PID-Change, circuits to a node behind this one
(`l4istome()`, `ackcir()`), `KillL4()` and `l3tol4()`. Seen and not the subject
of a run: an unknown circuit's messages and DISREQ are never answered
(`!(l4opco & L4DISREQ)`, l4.c:367, is false for opcodes 3, 5 and 6); a repeated
CONREQ is not answered either (l4.c:472), so that a lost CONACK leaves the
callee connected to nobody; `trasrv()` tests the state before the second began
(`actsts`), so that a circuit freed by its last retry comes back as a
disconnect request when the no-activity timeout runs out with it.

Inside level 3: the hash table and its limit, aliases, IP addresses and options
of nodes, several segments to one neighbour, automatic routes, FlexNet, TheNet
and NET/ROM broadcasts. Inside level 7: the data of a patch cord, files,
passwords, idle timeouts, TCP users and everything about the text of commands.
Inside convers: see its abstractions in section 2. Reasons for the components
that have no model are in `PROJECT.json`: they are drivers, displays, files and
text protocols, or protocols of their own (IP and TCP, PacSat) next to the node.


## 7. Plan

Done:

1. **Level 2 link**: `L2Tables`, `L2Link`, `L2Pipe`; `TypeCorrect`,
   `WindowAlwaysInQueue`, `AwaitingAlwaysTimed`.
2. **Level 4 circuit**: `L4Circuit`, `L4Pipe`; `TypeCorrect`,
   `WindowAlwaysInList`, `WaitAlwaysTimed`, `ImplementsPipe`, `StoredAlwaysInPlace`.
3. **Level 3 tables, INP and datagrams**: `L3Tables`, `L3Net`; `RoutesCounted`,
   `CircuitsAlwaysReachable`, `AlwaysWithdrawable`, `WorseAlwaysTold`.
4. **Level 7 patch cords**: `L7Patch`, `L7Board`; `CordsAlwaysAgree`,
   `NobodyEverAlone`, `NoUserBlockLeft`, `CallsHavePartners`, `ImplementsBoard`.
5. **Convers**: `ConversTables`, `Convers`; `ChannelsAlwaysExist`, `WaysAlwaysOpen`.

Left:

1. **Theorems**: `NoReject`, `Supervised`, `SameMode` and `PipeSpec` of level 2 under
   patience and with one caller, along the lines of `World` of level 4;
   the part of `SettledRight` of level 3 that concerns two neighbours.
2. **DAMA master**: priorities, forbidden polls, every station is polled.
3. **Digipeating and hop-to-hop**: the link block in `L2SHTH`, composed with
   `L7Patch`.
4. **FlexNet and TheNet segments**, and the hash table of nodes.
5. **Buffer pool**: `allocb`/`dealoc` against the thresholds of the levels.
