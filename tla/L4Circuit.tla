----------------------------- MODULE L4Circuit ------------------------------
(***************************************************************************)
(* The level 4 circuits of TheNetNode (l4.c): connections with a window    *)
(* over the datagrams of level 3, which may be lost, repeated or arrive    *)
(* out of order.  Both nodes run this code; each has a circuit table, and  *)
(* net[n] holds the datagrams that are on their way to n.                  *)
(*                                                                         *)
(* main() calls l4rx, trasrv (each second), l4rest and l4tx in turn and    *)
(* level 7 in between.  Each is an action on one circuit, so that the      *)
(* actions of all circuits and both nodes interleave freely.  A handler    *)
(* maps a context (the circuit cirpoi points at, the datagrams it sends,   *)
(* the messages it accepts) to a context.                                  *)
(***************************************************************************)
EXTENDS Integers, Sequences, FiniteSets

CONSTANTS
  Node,           \* the two nodes
  NumCir,         \* NUMCIR: circuits of a table
  Mod,            \* sequence numbers, 0x7f + 1 (128)
  Trawir,         \* parameter T-Window, per node
  Retry,          \* L4_RETRY
  TxCut,          \* this many messages to send cut the circuit (150)
  \* Bounds of the state space.
  Callers,        \* nodes whose users connect
  MaxId,          \* circuits ever opened
  MaxMsg,         \* messages queued on each circuit
  NetMax,         \* datagrams on their way to a node
  MaxConnects, MaxDisconnects, MaxLoss, MaxDup, MaxSwap, MaxRestarts,
  MaxLow,         \* how often a node finds that few buffers are free
  MaxIdle,        \* no-activity timeouts
  Patient         \* do the timers outlast the datagrams under way?

ASSUME NodeAssumption == IsFiniteSet(Node) /\ Cardinality(Node) = 2
ASSUME TableAssumption == NumCir \in Nat \ {0}
ASSUME WindowAssumption == Mod \in 2 .. 128 /\ Trawir \in [Node -> 1 .. Mod - 1]
ASSUME RetryAssumption == Retry \in 1 .. 127 /\ TxCut \in Nat /\ Patient \in BOOLEAN
ASSUME BoundAssumption ==
  /\ Callers \subseteq Node
  /\ MaxMsg \in [1 .. MaxId -> Nat]
  /\ {MaxId, NetMax, MaxConnects, MaxDisconnects, MaxLoss,
      MaxDup, MaxSwap, MaxRestarts, MaxLow, MaxIdle} \subseteq Nat

VARIABLES
  cir,    \* cir[n][i]: entry i of the circuit table of n
  net,    \* net[n]: datagrams on their way to n
  got,    \* got[s]: the messages circuit s accepted (history)
  used    \* how much of each bound is used up

vars == <<cir, net, got, used>>

Index == 1 .. NumCir
Id == 1 .. MaxId
Peer(n) == CHOOSE m \in Node : m # n
Least(a, b) == IF a <= b THEN a ELSE b

L4SDSCED == "disconnected"
L4SLKSUP == "link setup"
L4SIXFER == "information transfer"
L4SDSCRQ == "disconnect request"

Flags == {"PBUSY", "BUSY", "DSLE", "DIMM"}

Opcode == [CONREQ |-> 1, CONACK |-> 2, DISREQ |-> 3, DISACK |-> 4,
           INFTRA |-> 5, INFACK |-> 6]

(* A message names the circuit it was queued on and its place there.       *)
Message == [from : 0 .. MaxId, no : Nat]
NoMessage == [from |-> 0, no |-> 0]

(* The text that l4DiscInfo sends on circuit s.                            *)
Notice(s) == [from |-> s, no |-> 0]

Datagram == [op : DOMAIN Opcode,
             idx : 0 .. NumCir, id : 0 .. MaxId,  \* l4hdr0, l4hdr1
             a : Nat, b : Nat,                    \* l4hdr2, l4hdr3
             choke : BOOLEAN, nak : BOOLEAN,
             win : 0 .. Mod - 1,                  \* window of CONREQ, CONACK
             m : Message]

Circuit == [st : {L4SDSCED, L4SLKSUP, L4SIXFER, L4SDSCRQ},
            ideige : 0 .. MaxId,
            idxpar : 0 .. NumCir, idpart : 0 .. MaxId,
            window : 1 .. Mod - 1,
            l4vs : 0 .. Mod - 1, l4rxvs : 0 .. Mod - 1, l4vr : 0 .. Mod - 1,
            ll4txNR : 0 .. Mod - 1,
            l4rs : 0 .. 2,         \* answer: ACK, NAK, NAK sent
            l4try : 0 .. 127,
            l4flag : SUBSET Flags,
            traout : BOOLEAN,      \* does the transport timer run?
            acktim : BOOLEAN,      \* does the acknowledge timer run?
            numrx : Nat,           \* messages for level 7
            mbhdtx : Seq([m : Message, l4trie : 0 .. 127]),
            mbhdos : [1 .. Mod - 1 -> Message]]  \* by offset from l4vr

Blank ==
  [st |-> L4SDSCED, ideige |-> 0, idxpar |-> 0, idpart |-> 0, window |-> 1,
   l4vs |-> 0, l4rxvs |-> 0, l4vr |-> 0, ll4txNR |-> 0, l4rs |-> 0,
   l4try |-> 0, l4flag |-> {}, traout |-> FALSE, acktim |-> FALSE, numrx |-> 0,
   mbhdtx |-> <<>>, mbhdos |-> [o \in 1 .. Mod - 1 |-> NoMessage]]

Fropen(c) == (c.l4vs - c.l4rxvs) % Mod

-----------------------------------------------------------------------------
(* Circuit entries.                                                        *)

ClrCir(c) ==
  [c EXCEPT !.mbhdos = [o \in 1 .. Mod - 1 |-> NoMessage], !.l4rxvs = 0,
            !.l4vs = 0, !.l4vr = 0, !.l4rs = 0, !.l4try = 0, !.ll4txNR = 0,
            !.l4flag = {}, !.acktim = FALSE, !.traout = FALSE]

(* l4nsta: the circuit ends, and level 7 learns of it.                     *)
L4nsta(c) ==
  [ClrCir(c) EXCEPT !.st = L4SDSCED, !.mbhdtx = <<>>, !.numrx = 0]

-----------------------------------------------------------------------------
(* Datagrams.  x.c is the circuit, number x.i of node x.n; x.out the       *)
(* datagrams sent, x.acc the messages accepted.                            *)

Send(x, f) == [x EXCEPT !.out = Append(@, f)]

Header(op, idx, id) ==
  [op |-> op, idx |-> idx, id |-> id, a |-> 0, b |-> 0, choke |-> FALSE,
   nak |-> FALSE, win |-> 0, m |-> NoMessage]

ToPartner(c, op) == Header(op, c.idxpar, c.idpart)

(* ackhdr: the acknowledgement every INFTRA and INFACK carries.            *)
WithAck(c, f) ==
  [f EXCEPT !.b = c.l4vr, !.choke = "BUSY" \in c.l4flag,
            !.nak = "BUSY" \notin c.l4flag /\ c.l4rs = 1]

AckSent(c) ==
  [c EXCEPT !.ll4txNR = c.l4vr, !.acktim = FALSE,
            !.l4rs = IF "BUSY" \notin c.l4flag /\ @ = 1 THEN 2 ELSE @]

SndFrm(x, seq, m) ==
  Send([x EXCEPT !.c = AckSent(x.c)],
       [WithAck(x.c, ToPartner(x.c, "INFTRA")) EXCEPT !.a = seq, !.m = m])

SndAck(x) ==
  Send([x EXCEPT !.c = AckSent(x.c)], WithAck(x.c, ToPartner(x.c, "INFACK")))

SConrq(x) ==
  Send([x EXCEPT !.c.traout = TRUE],
       [Header("CONREQ", x.i, x.c.ideige) EXCEPT !.win = Trawir[x.n]])

SDisrq(x) ==
  Send([x EXCEPT !.c.traout = TRUE], ToPartner(x.c, "DISREQ"))

ConAck(x) ==
  [ToPartner(x.c, "CONACK") EXCEPT !.a = x.i, !.b = x.c.ideige,
                                   !.win = x.c.window]

(* Mutant: endcir without l4newstate.                                      *)
EndCir_KeepsState(x) == SDisrq([x EXCEPT !.c = ClrCir(x.c)])

EndCir(x) ==
  LET y == SDisrq([x EXCEPT !.c = ClrCir(x.c)])
  IN  [y EXCEPT !.c.st = L4SDSCRQ]

-----------------------------------------------------------------------------
(* l4rx.                                                                   *)

(* Mutant: an acknowledgement is not compared with the open messages.      *)
Acknowledged_Unchecked(c, f) ==
  LET k == (f.b - c.l4rxvs) % Mod
  IN  [c EXCEPT !.mbhdtx = SubSeq(@, k + 1, Len(@)),
                !.l4rxvs = (@ + k) % Mod]

(* Mutant: one message too many leaves the list.                           *)
Acknowledged_OneMore(c, f) ==
  LET ofs == (f.b - c.l4rxvs) % Mod
      k   == IF ofs \in 1 .. Fropen(c) THEN Least(ofs + 1, Fropen(c)) ELSE 0
  IN  [c EXCEPT !.mbhdtx = SubSeq(@, k + 1, Len(@)),
                !.l4rxvs = (@ + k) % Mod]

(* chksts: what f acknowledges leaves the list.                            *)
Acknowledged(c, f) ==
  LET ofs == (f.b - c.l4rxvs) % Mod
      k   == IF ofs <= Fropen(c) THEN ofs ELSE 0
  IN  [c EXCEPT !.mbhdtx = SubSeq(@, k + 1, Len(@)),
                !.l4rxvs = (@ + k) % Mod]

(* A choked partner is left alone; what it has not acknowledged will be    *)
(* sent again.  Mutant: without l4setT3.                                   *)
Choked_NoTimer(c) ==
  [c EXCEPT !.l4flag = @ \cup {"PBUSY"}, !.l4vs = c.l4rxvs]

Choked(c) ==
  [c EXCEPT !.l4flag = @ \cup {"PBUSY"}, !.l4vs = c.l4rxvs, !.traout = TRUE]

Chksts(x, f) ==
  LET c == Acknowledged(x.c, f)
      y == [x EXCEPT !.c = [c EXCEPT !.l4flag = @ \ {"PBUSY"}, !.traout = FALSE]]
  IN  IF f.choke
        THEN [x EXCEPT !.c = Choked(c)]
      ELSE IF f.nak /\ Fropen(c) # 0
        THEN SndFrm(y, c.l4rxvs, Head(c.mbhdtx).m)
      ELSE y

(* When m messages are taken the others in mbhdos are nearer by m.         *)
Early(c, m) ==
  [c EXCEPT !.mbhdos = [o \in 1 .. Mod - 1 |->
                          IF o + m < Mod THEN @[o + m] ELSE NoMessage]]

(* takfrm for the message that was expected and the k after it that had    *)
(* come too early.  If the user has gone they are thrown away.             *)
(* Mutant: l4vr is not kept below 128.                                     *)
Takfrm_Unmasked(x, f, k) ==
  [x EXCEPT !.c = [Early(x.c, k + 1) EXCEPT !.l4vr = @ + k + 1,
                                            !.numrx = @ + k + 1],
            !.acc = <<f.m>> \o SubSeq(x.c.mbhdos, 1, k)]

Takfrm(x, f, k) ==
  LET c == Early(x.c, k + 1)
  IN  [x EXCEPT
         !.c = [c EXCEPT !.l4vr = (@ + k + 1) % Mod,
                         !.numrx = IF "DSLE" \in c.l4flag THEN @ ELSE @ + k + 1,
                         !.l4rs = 0, !.acktim = TRUE],
         !.acc = <<f.m>> \o SubSeq(x.c.mbhdos, 1, k)]

(* How many messages wait without a gap behind the expected one.           *)
InRow(c) ==
  CHOOSE k \in 0 .. Mod - 1 :
    /\ \A o \in 1 .. k : c.mbhdos[o] # NoMessage
    /\ k < Mod - 1 => c.mbhdos[k + 1] = NoMessage

(* Does a message belong into the window?                                  *)
Passes(c, ofs) == ofs < c.window /\ "BUSY" \notin c.l4flag

RxInftra(x, f) ==
  LET y   == Chksts(x, f)
      c   == y.c
      ofs == (f.a - c.l4vr) % Mod
  IN  IF x.c.st # L4SIXFER THEN x
      ELSE IF ~Passes(c, ofs) THEN [y EXCEPT !.c.acktim = TRUE]
      ELSE IF ofs = 0 THEN Takfrm(y, f, InRow(c))
      ELSE [y EXCEPT !.c = [c EXCEPT
              !.mbhdos[ofs] = IF @ = NoMessage THEN f.m ELSE @,
              !.l4rs = IF @ = 0 THEN 1 ELSE @,
              !.acktim = @ \/ c.l4rs = 0]]

RxConack(x, f) ==
  LET c == [ClrCir(x.c) EXCEPT !.window = f.win, !.idpart = f.b,
                               !.idxpar = f.a, !.st = L4SIXFER]
  IN  IF x.c.st # L4SLKSUP THEN x
      ELSE [x EXCEPT !.c = IF f.choke THEN L4nsta(x.c) ELSE c]

RxKnown(x, f) ==
  CASE f.op = "CONACK" -> RxConack(x, f)
    [] f.op = "DISREQ" -> [Send(x, ToPartner(x.c, "DISACK"))
                             EXCEPT !.c = L4nsta(x.c)]
    [] f.op = "DISACK" -> IF x.c.st = L4SDSCRQ
                            THEN [x EXCEPT !.c = L4nsta(x.c)] ELSE x
    [] f.op = "INFTRA" -> RxInftra(x, f)
    [] f.op = "INFACK" -> IF x.c.st = L4SIXFER THEN Chksts(x, f) ELSE x

(* A CONREQ for a new circuit: window, numbers and state are set afresh.   *)
RxConreq(x, f, id) ==
  LET c == [ClrCir(x.c) EXCEPT !.idxpar = f.idx, !.idpart = f.id,
              !.ideige = id, !.window = Least(f.win, Trawir[x.n]),
              !.st = L4SIXFER]
      y == [x EXCEPT !.c = c]
  IN  Send(y, ConAck(y))

(* To a circuit it does not have a node answers with DISREQ or not at all. *)
Unknown(f) ==
  IF f.op # "CONACK" /\ ~f.choke /\ Opcode[f.op] % 4 = 0
    THEN <<Header("DISREQ", f.a, f.b)>> ELSE <<>>

-----------------------------------------------------------------------------
(* l4rest, trasrv and l4tx.                                                *)

RxUnack(c) == (c.l4vr - c.ll4txNR) % Mod

(* clr4rx: level 7 takes k of the messages.                                *)
Clr4rx(c, k) == [c EXCEPT !.numrx = @ - k]

(* Has level 7 fetched enough?  Mutant: off by one.                        *)
Room_Less(c) == c.numrx + 1 < c.window \div 2

Room(c) == c.numrx < c.window \div 2

(* With mem the free buffers; early: the acknowledge timer is not at 1.    *)
L4rest(x, k, mem, early) ==
  LET c    == Clr4rx(x.c, k)
      y    == [x EXCEPT !.c = c]
      busy == [y EXCEPT !.c = [c EXCEPT !.l4flag = @ \cup {"BUSY"}, !.l4rs = 0]]
      free == [y EXCEPT !.c = [c EXCEPT !.l4flag = @ \ {"BUSY"}]]
  IN  IF "DIMM" \in x.c.l4flag THEN [x EXCEPT !.c = L4nsta(x.c)]
      ELSE IF x.c.st # L4SIXFER THEN x
      ELSE IF "DSLE" \in x.c.l4flag /\ x.c.mbhdtx = <<>> THEN EndCir(x)
      ELSE IF "BUSY" \in c.l4flag
        THEN IF mem = "high" /\ Room(c) THEN SndAck(free) ELSE y
      ELSE IF mem = "low" THEN SndAck(busy)
      ELSE IF c.acktim /\ early /\ RxUnack(c) >= c.window \div 2 /\ Room(c)
        THEN SndAck(y)
      ELSE y

(* traout has run out.  A partner that choked us may have announced its    *)
(* readiness in vain.  Mutant: it is not asked again.                      *)
Unchoked_Not(c) == c

Unchoked(c) == [c EXCEPT !.l4flag = @ \ {"PBUSY"}]

(* Mutant: the tries are not counted.                                      *)
Tries_Uncounted(c) == c.l4try

Tries(c) == c.l4try + 1

Timeout(x) ==
  LET c == [x.c EXCEPT !.traout = FALSE]
      y == [x EXCEPT !.c = [c EXCEPT !.l4try = Tries(c)]]
  IN  IF c.st = L4SIXFER THEN [x EXCEPT !.c = Unchoked(c)]
      ELSE IF Tries(c) >= Retry THEN [x EXCEPT !.c = L4nsta(c)]
      ELSE IF c.st = L4SLKSUP THEN SConrq(y)
      ELSE SDisrq(y)

(* The countdown of the j-th open message has run out.                     *)
Repeat(x, j) ==
  LET tries == x.c.mbhdtx[j].l4trie + 1
      y     == [x EXCEPT !.c.mbhdtx[j].l4trie = tries]
  IN  IF tries >= Retry THEN [x EXCEPT !.c = L4nsta(x.c)]
      ELSE SndFrm(y, (x.c.l4rxvs + j - 1) % Mod, x.c.mbhdtx[j].m)

(* The acknowledge timer has run out; level 7 may be too slow.             *)
AckDue(x) ==
  LET slow == /\ x.c.numrx > x.c.window \div 2
              /\ RxUnack(x.c) >= x.c.window
      c    == [x.c EXCEPT !.l4flag = @ \cup {"BUSY"}, !.l4rs = 0]
  IN  SndAck(IF slow THEN [x EXCEPT !.c = c] ELSE x)

(* Nothing has happened for a long time.  What l4DiscInfo sends is not in  *)
(* mbhdtx; endcir forgets its number.                                      *)
NoActivity(x) ==
  EndCir(SndFrm([x EXCEPT !.c.l4vs = (@ + 1) % Mod], x.c.l4vs,
                Notice(x.c.ideige)))

(* One second: t is what has run out, at most one open message.  The C     *)
(* code tests the state as it was before (actsts).                         *)
Trasrv(x, t) ==
  LET up    == x.c.st = L4SIXFER
      afterT == IF "traout" \in t.due /\ x.c.traout THEN Timeout(x)
                ELSE IF up /\ ~x.c.traout /\ t.open # 0 THEN Repeat(x, t.open)
                ELSE x
      afterA == IF up /\ "acktim" \in t.due /\ afterT.c.acktim THEN AckDue(afterT)
                ELSE afterT
  IN  IF up /\ "tranoa" \in t.due THEN NoActivity(afterA) ELSE afterA

(* All that the window allows; nothing while the partner is choked.        *)
CanSend(c) ==
  LET n == Least(Len(c.mbhdtx), c.window) - Fropen(c)
  IN  IF c.st # L4SIXFER \/ "PBUSY" \in c.l4flag \/ n < 0 THEN 0 ELSE n

L4tx(x) ==
  LET c == x.c
      open == Fropen(c)
      n    == CanSend(c)
      frame(j) ==
        [WithAck(IF j = 1 THEN c ELSE AckSent(c), ToPartner(c, "INFTRA"))
           EXCEPT !.a = (c.l4vs + j - 1) % Mod, !.m = c.mbhdtx[open + j].m]
      new(j) == j \in open + 1 .. open + n
  IN  IF n = 0 THEN x
      ELSE [x EXCEPT
              !.out = [j \in 1 .. n |-> frame(j)],
              !.c = [AckSent(c) EXCEPT
                !.l4vs = (@ + n) % Mod,
                !.mbhdtx = [j \in 1 .. Len(c.mbhdtx) |->
                  [c.mbhdtx[j] EXCEPT !.l4trie = IF new(j) THEN 0 ELSE @]]]]

-----------------------------------------------------------------------------
(* The two nodes and the network.                                          *)

Context(n, i) ==
  [n |-> n, i |-> i, c |-> cir[n][i], out |-> <<>>, acc |-> <<>>]

Fits(x) == Len(net[Peer(x.n)]) + Len(x.out) <= NetMax

(* Circuit and datagrams of x, while rest is what n has still to receive.  *)
Became(x, rest) ==
  /\ Fits(x)
  /\ cir' = [cir EXCEPT ![x.n][x.i] = x.c]
  /\ net' = [net EXCEPT ![x.n] = rest, ![Peer(x.n)] = @ \o x.out]
  /\ got' = IF x.acc = <<>> THEN got
            ELSE [got EXCEPT ![x.c.ideige] = @ \o x.acc]

Done(x) == Became(x, net[x.n])

(* The same for a handler that found something to do.                      *)
Acts(x) == x # Context(x.n, x.i) /\ Fits(x)
Acted(x) == Acts(x) /\ Done(x)

Use(what) == used' = [used EXCEPT ![what] = @ + 1]

Init ==
  /\ cir = [n \in Node |-> [i \in Index |-> Blank]]
  /\ net = [n \in Node |-> <<>>]
  /\ got = [s \in Id |-> <<>>]
  /\ used = [id |-> 0, connect |-> 0, disconnect |-> 0, loss |-> 0, dup |-> 0,
             swap |-> 0, restart |-> 0, low |-> 0, idle |-> 0,
             msg |-> [s \in Id |-> 0]]

Free(n) == {i \in Index : cir[n][i].st = L4SDSCED}
FirstFree(n) == CHOOSE i \in Free(n) : \A j \in Free(n) : i <= j

(* conl4 with newcir.  The random number rand() % 256 of a circuit is      *)
(* taken to differ from the numbers of all earlier circuits.               *)
Connect(n) ==
  /\ n \in Callers
  /\ Free(n) # {}
  /\ used.connect < MaxConnects /\ used.id < MaxId
  /\ LET i == FirstFree(n)
         c == [ClrCir(cir[n][i]) EXCEPT !.ideige = used.id + 1, !.st = L4SLKSUP]
     IN  Done(SConrq([Context(n, i) EXCEPT !.c = c]))
  /\ used' = [used EXCEPT !.connect = @ + 1, !.id = @ + 1]

(* discir: a circuit that transfers sends its messages first; for any      *)
(* other one l4rest has to tell level 7, and the partner hears at once     *)
(* that we are busy.                                                       *)
Disconnect(n, i) ==
  /\ cir[n][i].st # L4SDSCED
  /\ used.disconnect < MaxDisconnects
  /\ LET x == Context(n, i)
         Flagged(f) == [x EXCEPT !.c.l4flag = @ \cup {f}]
     IN  Done(IF x.c.st = L4SIXFER
                THEN [Flagged("DSLE") EXCEPT !.c.numrx = 0]
                ELSE Send(Flagged("DIMM"), [ConAck(x) EXCEPT !.choke = TRUE]))
  /\ Use("disconnect")

(* itocir: level 7 may ignore conctl (cflg); too many messages cut the     *)
(* circuit.                                                                *)
Queue(n, i) ==
  LET c == cir[n][i]
      s == c.ideige
      tx == Append(c.mbhdtx, [m |-> [from |-> s, no |-> used.msg[s] + 1],
                              l4trie |-> 0])
      flag == IF Len(tx) >= TxCut THEN c.l4flag \cup {"DIMM"} ELSE c.l4flag
  IN  /\ c.st # L4SDSCED
      /\ "DIMM" \notin c.l4flag
      /\ used.msg[s] < MaxMsg[s]
      /\ Done([Context(n, i) EXCEPT !.c = [c EXCEPT !.mbhdtx = tx,
                                                    !.l4flag = flag]])
      /\ used' = [used EXCEPT !.msg[s] = @ + 1]

(* l4rx: a datagram belongs to a circuit by index and number, a CONREQ by  *)
(* those of the caller.  One that is known already is not answered.        *)
(* Mutant: the number is not compared.                                     *)
Known_AnyId(n, f) == {i \in Index : cir[n][i].st # L4SDSCED /\ i = f.idx}

Known(n, f) == {i \in Index : /\ cir[n][i].st # L4SDSCED
                              /\ i = f.idx /\ cir[n][i].ideige = f.id}

CalledBy(n, f) == {i \in Index : /\ cir[n][i].st # L4SDSCED
                                 /\ cir[n][i].idxpar = f.idx
                                 /\ cir[n][i].idpart = f.id}

New(n, f) == f.op = "CONREQ" /\ CalledBy(n, f) = {} /\ Free(n) # {}

Busy(f) == [Header("CONACK", f.idx, f.id) EXCEPT !.choke = TRUE]

L4rx(n, f) ==
  LET none == Context(n, 1)
  IN  IF New(n, f) THEN RxConreq(Context(n, FirstFree(n)), f, used.id + 1)
      ELSE IF f.op = "CONREQ"
        THEN IF CalledBy(n, f) # {} THEN none ELSE Send(none, Busy(f))
      ELSE IF Known(n, f) = {} THEN [none EXCEPT !.out = Unknown(f)]
      ELSE RxKnown(Context(n, f.idx), f)

CanReceive(n) ==
  /\ net[n] # <<>>
  /\ New(n, Head(net[n])) => used.id < MaxId
  /\ Fits(L4rx(n, Head(net[n])))

Receive(n) ==
  /\ CanReceive(n)
  /\ Became(L4rx(n, Head(net[n])), Tail(net[n]))
  /\ IF New(n, Head(net[n])) THEN Use("id") ELSE UNCHANGED used

Memory == {"high"} \cup (IF MaxLow > 0 THEN {"middle"} ELSE {})
                   \cup (IF used.low < MaxLow THEN {"low"} ELSE {})

Rest(n, i, k, mem, early) ==
  /\ cir[n][i].st # L4SDSCED
  /\ Acted(L4rest(Context(n, i), k, mem, early))
  /\ IF mem = "low" THEN Use("low") ELSE UNCHANGED used

Tx(n, i) ==
  /\ CanSend(cir[n][i]) > 0
  /\ Done(L4tx(Context(n, i)))
  /\ UNCHANGED used

(* What may run out.  A patient timer leaves time for all that is under    *)
(* way and for the answers that are delayed on purpose.                    *)
Quiet ==
  \A n \in Node : net[n] = <<>> /\ \A i \in Index : ~cir[n][i].acktim

Due(n, i) ==
  {t \in {"traout", "acktim", "tranoa"} :
     /\ t = "traout" => cir[n][i].traout /\ (Patient => Quiet)
     /\ t = "acktim" => cir[n][i].acktim
     /\ t = "tranoa" => /\ cir[n][i].st = L4SIXFER
                        /\ used.idle < MaxIdle
                        /\ Patient => Quiet}

Open(n, i) ==
  IF cir[n][i].st = L4SIXFER /\ ~cir[n][i].traout /\ (Patient => Quiet)
    THEN 0 .. Fropen(cir[n][i]) ELSE {0}

Second(n, i, due, open) ==
  /\ cir[n][i].st # L4SDSCED
  /\ Acted(Trasrv(Context(n, i), [due |-> due, open |-> open]))
  /\ IF "tranoa" \in due THEN Use("idle") ELSE UNCHANGED used

(* The network loses a datagram, delivers it once more later, or delivers  *)
(* the one after it first.                                                 *)
Lose(n) ==
  /\ net[n] # <<>>
  /\ used.loss < MaxLoss
  /\ net' = [net EXCEPT ![n] = Tail(@)]
  /\ Use("loss")
  /\ UNCHANGED <<cir, got>>

Duplicate(n) ==
  /\ net[n] # <<>> /\ Len(net[n]) < NetMax
  /\ used.dup < MaxDup
  /\ net' = [net EXCEPT ![n] = Append(@, Head(@))]
  /\ Use("dup")
  /\ UNCHANGED <<cir, got>>

Swap(n) ==
  /\ Len(net[n]) > 1
  /\ used.swap < MaxSwap
  /\ net' = [net EXCEPT ![n][1] = net[n][2], ![n][2] = net[n][1]]
  /\ Use("swap")
  /\ UNCHANGED <<cir, got>>

(* The program of n is restarted; nothing of level 4 is kept.              *)
Restart(n) ==
  /\ used.restart < MaxRestarts
  /\ cir' = [cir EXCEPT ![n] = [i \in Index |-> Blank]]
  /\ Use("restart")
  /\ UNCHANGED <<net, got>>

L4(n, i) ==
  \/ \E k \in 0 .. cir[n][i].numrx, mem \in Memory,
        early \in {TRUE, ~cir[n][i].acktim} : Rest(n, i, k, mem, early)
  \/ Tx(n, i)
  \/ \E due \in SUBSET Due(n, i), open \in Open(n, i) : Second(n, i, due, open)

Next ==
  \E n \in Node :
    \/ Connect(n) \/ Receive(n)
    \/ Lose(n) \/ Duplicate(n) \/ Swap(n) \/ Restart(n)
    \/ \E i \in Index : Disconnect(n, i) \/ Queue(n, i) \/ L4(n, i)

Spec == Init /\ [][Next]_vars

(* main() loops for ever: datagrams are received, l4rest and l4tx are      *)
(* called with enough buffers and a level 7 that fetches everything, and   *)
(* the clock ticks.  What is due runs out in the end although trasrv is    *)
(* not called while datagrams wait, so that it is strongly fair.  Nothing  *)
(* obliges the no-activity timeout.  ENABLED is written out: TLC is slow   *)
(* at it.                                                                  *)
Ready(n, i) == L4rest(Context(n, i), cir[n][i].numrx, "high", TRUE)
Sending(n, i) == L4tx(Context(n, i))

Over(n, i) ==
  [due |-> Due(n, i) \ {"tranoa"}, open |-> IF 1 \in Open(n, i) THEN 1 ELSE 0]

Ticked(n, i) == Trasrv(Context(n, i), Over(n, i))

Fairness ==
  \A n \in Node :
    /\ []<>~CanReceive(n) \/ []<><<Receive(n)>>_vars
    /\ \A i \in Index :
         /\ \/ []<>~Acts(Ready(n, i))
            \/ []<><<Rest(n, i, cir[n][i].numrx, "high", TRUE)>>_vars
         /\ \/ []<>~Acts(Sending(n, i))
            \/ []<><<Tx(n, i)>>_vars
         /\ \/ <>[]~Acts(Ticked(n, i))
            \/ []<><<Second(n, i, Over(n, i).due, Over(n, i).open)>>_vars

FairSpec == Spec /\ Fairness

-----------------------------------------------------------------------------
(* Properties.                                                             *)

Used == [id : 0 .. MaxId, connect : Nat, disconnect : Nat, loss : Nat,
         dup : Nat, swap : Nat, restart : Nat, low : Nat, idle : Nat,
         msg : [Id -> Nat]]

(* Every variable keeps its type; the numbers of a circuit stay below 128. *)
TypeOK ==
  /\ cir \in [Node -> [Index -> Circuit]]
  /\ net \in [Node -> Seq(Datagram)]
  /\ got \in [Id -> Seq(Message)]
  /\ used \in Used

(* l4tx, trasrv and chksts walk mbhdtx by the number of open messages      *)
(* without looking at its end: it never exceeds the list or the window.    *)
WindowInList ==
  \A n \in Node, i \in Index :
    LET c == cir[n][i]
    IN  c.st # L4SDSCED => Fropen(c) <= Len(c.mbhdtx) /\ Fropen(c) <= c.window

(* Whoever waits has a timer: a circuit that sets up or ends a connection, *)
(* and one whose partner is choked, has traout running.                    *)
WaitTimed ==
  \A n \in Node, i \in Index :
    LET c == cir[n][i]
    IN  c.st \in {L4SLKSUP, L4SDSCRQ} \/ "PBUSY" \in c.l4flag => c.traout

(* A message kept because it came too early is the one that will be        *)
(* expected that many messages later, for all that came in between.        *)
StoredInPlace ==
  \A n \in Node, i \in Index, o \in 1 .. Mod - 1 :
    LET c == cir[n][i]
    IN  c.mbhdos[o] # NoMessage =>
          c.mbhdos[o] = [from |-> c.idpart, no |-> Len(got[c.ideige]) + o + 1]

(* Level 4 implements L4Pipe: whatever the network loses, repeats or       *)
(* delivers out of order, and whenever circuits end or nodes restart, no   *)
(* message is left out, taken twice or out of order, none leaves its       *)
(* sender's list before its partner took it, and none reaches another      *)
(* circuit than the one it was meant for.                                  *)
Where(s) ==
  {e \in Node \X Index : LET c == cir[e[1]][e[2]]
                         IN  c.ideige = s /\ c.st # L4SDSCED}

EntryOf(s) == LET e == CHOOSE e \in Where(s) : TRUE IN cir[e[1]][e[2]]

Stages ==
  [s \in Id |-> IF s > used.id THEN "new"
               ELSE IF Where(s) = {} THEN "ended" ELSE "open"]

Partners ==
  [s \in Id |-> IF Where(s) = {} \/ EntryOf(s).st = L4SLKSUP THEN 0
               ELSE EntryOf(s).idpart]

ToConfirm(c) == [j \in 1 .. Len(c.mbhdtx) |-> c.mbhdtx[j].m]

Unconfirmed ==
  [s \in Id |-> IF Where(s) = {} THEN <<>> ELSE ToConfirm(EntryOf(s))]

Pipe ==
  INSTANCE L4Pipe WITH stage <- Stages, peer <- Partners, offered <- used.msg,
                       pending <- Unconfirmed, taken <- got

PipeSpec == Pipe!Spec

(* Every setup and every disconnect comes to an end.                       *)
WaitEnds ==
  \A n \in Node, i \in Index :
    cir[n][i].st \in {L4SLKSUP, L4SDSCRQ}
      ~> cir[n][i].st \in {L4SDSCED, L4SIXFER}

(* A connected circuit delivers what it has to send or ends, whether its   *)
(* partner chokes it, forgets it or answers too late.                      *)
Delivers ==
  \A n \in Node, i \in Index :
    cir[n][i].st = L4SIXFER /\ cir[n][i].mbhdtx # <<>>
      ~> cir[n][i].mbhdtx = <<>> \/ cir[n][i].st = L4SDSCED

(* A circuit whose user has left ends.                                     *)
LeavingEnds ==
  \A n \in Node, i \in Index :
    "DSLE" \in cir[n][i].l4flag ~> cir[n][i].st = L4SDSCED

(* A circuit does not choke its partner for ever.                          *)
ChokeEnds ==
  \A n \in Node, i \in Index :
    "BUSY" \in cir[n][i].l4flag ~> "BUSY" \notin cir[n][i].l4flag

-----------------------------------------------------------------------------
(* What the comments of the source say, and the code does not do.          *)

(* l4rx: a message that has come already is thrown away, not kept.         *)
NotKeptAgain ==
  \A n \in Node, i \in Index, o \in 1 .. Mod - 1 :
    LET c == cir[n][i]
    IN  c.mbhdos[o] # NoMessage =>
          \A k \in 1 .. Len(got[c.ideige]) : got[c.ideige][k] # c.mbhdos[o]

(* discir, l4.h: a circuit marked for immediate disconnect is reported to  *)
(* level 7 by l4rest, and ends.                                            *)
MarkedEnds ==
  [][\A n \in Node, i \in Index :
       "DIMM" \in cir[n][i].l4flag /\ "DIMM" \notin cir'[n][i].l4flag
         => cir'[n][i].st = L4SDSCED]_vars
=============================================================================
