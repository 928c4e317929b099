------------------------------ MODULE L4Proofs ------------------------------
(***************************************************************************)
(* Proofs about L4Circuit, for every value of its constants: any window,   *)
(* modulus, retry count and number of circuits, a network that loses,      *)
(* repeats and reorders, users and restarts at any time, patient timers    *)
(* or not.                                                                 *)
(*                                                                         *)
(* The invariant Inv has a part for each variable.  A circuit is Good: it  *)
(* has its shape, its open messages lie in its list and its window, and    *)
(* whatever it waits for is timed.  A datagram on its way is a Frame: one  *)
(* that the code can have sent, so that what a handler takes from it fits  *)
(* into a circuit.  Each handler maps a context with a sound circuit to    *)
(* one with a sound circuit (Result).                                      *)
(***************************************************************************)
EXTENDS L4Circuit, SequenceTheorems, WellFoundedInduction, TLAPS

-----------------------------------------------------------------------------
(* Arithmetic.                                                             *)

LEMMA ModSmall ==
  ASSUME NEW M \in Nat \ {0}, NEW v \in 0 .. M - 1
  PROVE  v % M = v
OBVIOUS

LEMMA ModNeg ==
  ASSUME NEW M \in Nat \ {0}, NEW v \in Int, -M <= v, v < 0
  PROVE  v % M = v + M
OBVIOUS

LEMMA ModBig ==
  ASSUME NEW M \in Nat \ {0}, NEW v \in Int, M <= v, v < 2 * M
  PROVE  v % M = v - M
OBVIOUS

LEMMA ModRange ==
  ASSUME NEW M \in Nat \ {0}, NEW v \in Int
  PROVE  v % M \in 0 .. M - 1
OBVIOUS

(* The distance of two numbers modulo M, when one of them moves.           *)
LEMMA Distance ==
  ASSUME NEW M \in Nat \ {0}, NEW a \in 0 .. M - 1, NEW b \in 0 .. M - 1, NEW k \in Nat
  PROVE  /\ (a - b) % M \in 0 .. M - 1
         /\ ((a - b) % M) + k < M => (((a + k) % M) - b) % M = ((a - b) % M) + k
         /\ k <= (a - b) % M => (a - ((b + k) % M)) % M = ((a - b) % M) - k
<1>1. CASE a >= b
  <2>1. (a - b) % M = a - b BY <1>1, ModSmall
  <2>2. ASSUME a - b + k < M
        PROVE  (((a + k) % M) - b) % M = a - b + k
    <3>1. CASE a + k < M
      <4>1. (a + k) % M = a + k BY <3>1, ModSmall
      <4> QED BY <1>1, <2>2, <4>1, ModSmall
    <3>2. CASE a + k >= M
      <4>0. a + k \in Int /\ M <= a + k /\ a + k < 2 * M BY <2>2, <3>2
      <4>1. (a + k) % M = a + k - M BY <4>0
      <4>2. a + k - M - b \in Int /\ -M <= a + k - M - b /\ a + k - M - b < 0
        BY <1>1, <2>2, <3>2
      <4>3. (a + k - M - b) % M = a + k - M - b + M BY <4>2, ModNeg
      <4> QED BY <4>1, <4>3
    <3> QED BY <3>1, <3>2
  <2>3. ASSUME k <= a - b
        PROVE  (a - ((b + k) % M)) % M = a - b - k
    <3>1. (b + k) % M = b + k BY <1>1, <2>3, ModSmall
    <3> QED BY <1>1, <2>3, <3>1, ModSmall
  <2> QED BY <1>1, <2>1, <2>2, <2>3
<1>2. CASE a < b
  <2>1. (a - b) % M = a - b + M BY <1>2, ModNeg
  <2>2. ASSUME a - b + M + k < M
        PROVE  (((a + k) % M) - b) % M = a - b + M + k
    <3>1. (a + k) % M = a + k BY <1>2, <2>2, ModSmall
    <3>2. a + k - b \in Int /\ -M <= a + k - b /\ a + k - b < 0 BY <1>2, <2>2
    <3>3. (a + k - b) % M = a + k - b + M BY <3>2, ModNeg
    <3> QED BY <3>1, <3>3
  <2>3. ASSUME k <= a - b + M
        PROVE  (a - ((b + k) % M)) % M = a - b + M - k
    <3>1. CASE b + k < M
      <4>1. (b + k) % M = b + k BY <3>1, ModSmall
      <4>2. a - (b + k) \in Int /\ -M <= a - (b + k) /\ a - (b + k) < 0 BY <1>2, <2>3, <3>1
      <4>3. (a - (b + k)) % M = a - (b + k) + M BY <4>2, ModNeg
      <4> QED BY <4>1, <4>3
    <3>2. CASE b + k >= M
      <4>0. b + k \in Int /\ M <= b + k /\ b + k < 2 * M BY <1>2, <2>3, <3>2
      <4>1. (b + k) % M = b + k - M BY <4>0, ModBig
      <4>2. a - (b + k - M) \in 0 .. M - 1 BY <1>2, <2>3, <3>2
      <4> QED BY <4>1, <4>2, ModSmall
    <3> QED BY <3>1, <3>2
  <2> QED BY <1>2, <2>1, <2>2, <2>3
<1> QED BY <1>1, <1>2

-----------------------------------------------------------------------------
(* Circuits.                                                               *)

(* r is a record with these fields.                                        *)
IsRec(r, fields) == r = [f \in fields |-> r[f]]

CircuitFields ==
  {"st", "ideige", "idxpar", "idpart", "window", "l4vs", "l4rxvs", "l4vr", "ll4txNR",
   "l4rs", "l4try", "l4flag", "traout", "acktim", "numrx", "mbhdtx", "mbhdos"}

Entry == [m : Message, l4trie : 0 .. 127]

States == {L4SDSCED, L4SLKSUP, L4SIXFER, L4SDSCRQ}

Typed(c) ==
  /\ c.st \in States /\ c.ideige \in 0 .. MaxId
  /\ c.idxpar \in 0 .. NumCir /\ c.idpart \in 0 .. MaxId
  /\ c.window \in 1 .. Mod - 1
  /\ c.l4vs \in 0 .. Mod - 1 /\ c.l4rxvs \in 0 .. Mod - 1 /\ c.l4vr \in 0 .. Mod - 1
  /\ c.ll4txNR \in 0 .. Mod - 1 /\ c.l4rs \in 0 .. 2 /\ c.l4try \in 0 .. 127
  /\ c.l4flag \in SUBSET Flags /\ c.traout \in BOOLEAN /\ c.acktim \in BOOLEAN
  /\ c.numrx \in Nat /\ c.mbhdtx \in Seq(Entry)
  /\ c.mbhdos \in [1 .. Mod - 1 -> Message]

Shaped(c) == IsRec(c, CircuitFields) /\ Typed(c)

(* WindowInList and WaitTimed for one circuit.                             *)
Windowed(c) ==
  c.st # L4SDSCED => Fropen(c) <= Len(c.mbhdtx) /\ Fropen(c) <= c.window

Timed(c) == c.st \in {L4SLKSUP, L4SDSCRQ} \/ "PBUSY" \in c.l4flag => c.traout

Sound(c) == Shaped(c) /\ Windowed(c) /\ Timed(c)

LEMMA CircuitShaped == ASSUME NEW c \in Circuit PROVE Shaped(c)
BY DEF Circuit, Shaped, IsRec, CircuitFields, Typed, States, Entry

LEMMA ShapedCircuit == ASSUME NEW c, Shaped(c) PROVE c \in Circuit
<1>1. c = [st |-> c.st, ideige |-> c.ideige, idxpar |-> c.idxpar, idpart |-> c.idpart,
           window |-> c.window, l4vs |-> c.l4vs, l4rxvs |-> c.l4rxvs, l4vr |-> c.l4vr,
           ll4txNR |-> c.ll4txNR, l4rs |-> c.l4rs, l4try |-> c.l4try, l4flag |-> c.l4flag,
           traout |-> c.traout, acktim |-> c.acktim, numrx |-> c.numrx,
           mbhdtx |-> c.mbhdtx, mbhdos |-> c.mbhdos]
  BY DEF Shaped, IsRec, CircuitFields
<1> QED BY <1>1 DEF Shaped, Typed, States, Entry, Circuit

LEMMA ModType == Mod \in Nat \ {0} /\ Mod >= 2 /\ Mod <= 128
BY WindowAssumption

LEMMA NoMessageType == NoMessage \in Message
BY BoundAssumption DEF NoMessage, Message

LEMMA BlankSound == Sound(Blank)
<1>1. IsRec(Blank, CircuitFields) BY DEF Blank, IsRec, CircuitFields
<1>2. MaxId \in Nat /\ NumCir \in Nat BY TableAssumption, BoundAssumption
<1>3. Blank.mbhdos \in [1 .. Mod - 1 -> Message] BY NoMessageType DEF Blank
<1>4. Blank.mbhdtx \in Seq(Entry) BY DEF Blank
<1>5. Typed(Blank) BY <1>2, <1>3, <1>4, ModType DEF Blank, Typed, States
<1> QED BY <1>1, <1>5 DEF Shaped, Sound, Windowed, Timed, Blank, L4SDSCED, L4SLKSUP, L4SDSCRQ

LEMMA FropenType == ASSUME NEW c, Shaped(c) PROVE Fropen(c) \in 0 .. Mod - 1
<1>1. c.l4vs - c.l4rxvs \in Int BY ModType DEF Shaped, Typed
<1> QED BY <1>1, ModType, ModRange DEF Fropen

LEMMA ClrCirShaped ==
  ASSUME NEW c, Shaped(c)
  PROVE  /\ Shaped(ClrCir(c))
         /\ Fropen(ClrCir(c)) = 0 /\ ClrCir(c).l4flag = {} /\ ClrCir(c).traout = FALSE
         /\ ClrCir(c).st = c.st /\ ClrCir(c).mbhdtx = c.mbhdtx /\ ClrCir(c).ideige = c.ideige
<1>1. IsRec(c, CircuitFields) /\ Typed(c) BY DEF Shaped
<1>2. IsRec(ClrCir(c), CircuitFields) BY <1>1 DEF ClrCir, IsRec
<1>3. Typed(ClrCir(c)) BY <1>1, ModType, NoMessageType DEF ClrCir, IsRec, CircuitFields, Typed
<1>4. /\ ClrCir(c).l4vs = 0 /\ ClrCir(c).l4rxvs = 0
      /\ ClrCir(c).l4flag = {} /\ ClrCir(c).traout = FALSE
      /\ ClrCir(c).st = c.st /\ ClrCir(c).mbhdtx = c.mbhdtx /\ ClrCir(c).ideige = c.ideige
  BY <1>1 DEF ClrCir, IsRec, CircuitFields
<1>5. Fropen(ClrCir(c)) = 0 BY <1>4, ModType, ModSmall DEF Fropen
<1> QED BY <1>2, <1>3, <1>4, <1>5 DEF Shaped

LEMMA L4nstaSound ==
  ASSUME NEW c, Shaped(c)
  PROVE  /\ Sound(L4nsta(c)) /\ L4nsta(c).st = L4SDSCED /\ L4nsta(c).l4flag = {}
         /\ L4nsta(c).traout = FALSE /\ L4nsta(c).ideige = c.ideige
<1> DEFINE d == ClrCir(c)
<1> DEFINE e == L4nsta(c)
<1>1. IsRec(d, CircuitFields) /\ Typed(d) /\ d.l4flag = {} /\ d.traout = FALSE
      /\ d.ideige = c.ideige
  BY ClrCirShaped DEF Shaped
<1>2. e = [d EXCEPT !.st = L4SDSCED, !.mbhdtx = <<>>, !.numrx = 0] BY DEF L4nsta
<1> HIDE DEF d, e
<1>3. IsRec(e, CircuitFields) BY <1>1, <1>2 DEF IsRec
<1>4. Typed(e) BY <1>1, <1>2 DEF IsRec, CircuitFields, Typed, States
<1>5. e.st = L4SDSCED /\ e.l4flag = {} /\ e.traout = FALSE /\ e.ideige = c.ideige
  BY <1>1, <1>2 DEF IsRec, CircuitFields
<1>6. Sound(e) BY <1>3, <1>4, <1>5 DEF Sound, Shaped, Windowed, Timed, L4SDSCED, L4SLKSUP, L4SDSCRQ
<1> QED BY <1>5, <1>6 DEF e

-----------------------------------------------------------------------------
(* Datagrams and contexts.                                                 *)

(* A datagram that the code can send: a confirmation names a circuit, and  *)
(* who offers or grants a window grants at least 1.                        *)
Frame ==
  {f \in Datagram :
     /\ f.op \in {"CONACK", "DISACK"} => f.a \in 0 .. NumCir /\ f.b \in 0 .. MaxId
     /\ f.op = "CONREQ" \/ (f.op = "CONACK" /\ ~f.choke) => f.win # 0}

LEMMA BoundTypes == MaxId \in Nat /\ NumCir \in Nat \ {0}
BY TableAssumption, BoundAssumption

LEMMA HeaderType ==
  ASSUME NEW op \in DOMAIN Opcode, NEW idx \in 0 .. NumCir, NEW id \in 0 .. MaxId
  PROVE  /\ Header(op, idx, id) \in Datagram
         /\ op \notin {"CONREQ", "CONACK"} => Header(op, idx, id) \in Frame
         /\ op = "CONACK" => [Header(op, idx, id) EXCEPT !.choke = TRUE] \in Frame
<1> DEFINE h == Header(op, idx, id)
<1>1. h \in Datagram BY ModType, NoMessageType DEF Header, Datagram
<1>2. h.op = op /\ h.a = 0 /\ h.b = 0 BY DEF Header
<1>3. [h EXCEPT !.choke = TRUE] \in Datagram /\ [h EXCEPT !.choke = TRUE].op = op
      /\ [h EXCEPT !.choke = TRUE].choke = TRUE
      /\ [h EXCEPT !.choke = TRUE].a = 0 /\ [h EXCEPT !.choke = TRUE].b = 0
  BY <1>1, <1>2 DEF Datagram
<1> HIDE DEF h
<1>4. op \notin {"CONREQ", "CONACK"} => h \in Frame BY <1>1, <1>2, BoundTypes DEF Frame
<1> DEFINE b == [h EXCEPT !.choke = TRUE]
<1>5. b \in Datagram /\ b.op = op /\ b.choke = TRUE /\ b.a = 0 /\ b.b = 0 BY <1>3
<1> HIDE DEF b
<1>6. op = "CONACK" => b \in Frame BY <1>5, BoundTypes DEF Frame
<1> QED BY <1>1, <1>4, <1>6 DEF h, b

LEMMA ToPartnerType ==
  ASSUME NEW c, Shaped(c), NEW op \in DOMAIN Opcode
  PROVE  /\ ToPartner(c, op) \in Datagram /\ ToPartner(c, op).op = op
         /\ op \notin {"CONREQ", "CONACK"} => ToPartner(c, op) \in Frame
<1>1. c.idxpar \in 0 .. NumCir /\ c.idpart \in 0 .. MaxId BY DEF Shaped, Typed
<1> QED BY <1>1, HeaderType DEF ToPartner, Header

LEMMA WithAckType ==
  ASSUME NEW c, Shaped(c), NEW d, Shaped(d), NEW op \in {"INFTRA", "INFACK"}
  PROVE  /\ WithAck(d, ToPartner(c, op)) \in Frame
         /\ \A seq \in Nat, m \in Message :
              [WithAck(d, ToPartner(c, op)) EXCEPT !.a = seq, !.m = m] \in Frame
<1> DEFINE t == ToPartner(c, op)
<1> DEFINE f == WithAck(d, t)
<1>1. t \in Datagram /\ t.op = op BY ToPartnerType DEF Opcode
<1>2. d.l4vr \in Nat BY DEF Shaped, Typed
<1> DEFINE choke == "BUSY" \in d.l4flag
<1> DEFINE nak == "BUSY" \notin d.l4flag /\ d.l4rs = 1
<1> HIDE DEF t
<1>3. f = [t EXCEPT !.b = d.l4vr, !.choke = choke, !.nak = nak] BY DEF WithAck
<1>4. choke \in BOOLEAN /\ nak \in BOOLEAN OBVIOUS
<1> HIDE DEF f, choke, nak
<1>5. f \in Datagram /\ f.op = op BY <1>1, <1>2, <1>3, <1>4 DEF Datagram
<1>6. ASSUME NEW seq \in Nat, NEW m \in Message
      PROVE  [f EXCEPT !.a = seq, !.m = m] \in Datagram /\ [f EXCEPT !.a = seq, !.m = m].op = op
  BY <1>5 DEF Datagram
<1> QED BY <1>5, <1>6 DEF Frame, f, t

(* d is c with other values where it does not matter to Sound.             *)
Alike(c, d) ==
  /\ Shaped(d) /\ d.st = c.st /\ d.ideige = c.ideige
  /\ d.l4vs = c.l4vs /\ d.l4rxvs = c.l4rxvs
  /\ Len(d.mbhdtx) = Len(c.mbhdtx) /\ d.window = c.window
  /\ d.traout = c.traout /\ ("PBUSY" \in d.l4flag => "PBUSY" \in c.l4flag)

LEMMA AlikeSound ==
  ASSUME NEW c, Sound(c), NEW d, Alike(c, d)
  PROVE  Sound(d)
BY DEF Alike, Sound, Windowed, Timed, Fropen

LEMMA AckSentAlike == ASSUME NEW c, Shaped(c) PROVE Alike(c, AckSent(c))
<1>1. IsRec(c, CircuitFields) /\ Typed(c) BY DEF Shaped
<1>2. IsRec(AckSent(c), CircuitFields) BY <1>1 DEF AckSent, IsRec
<1>3. Typed(AckSent(c)) BY <1>1 DEF AckSent, IsRec, CircuitFields, Typed
<1> QED BY <1>1, <1>2, <1>3 DEF Alike, Shaped, AckSent, IsRec, CircuitFields

ContextFields == {"n", "i", "c", "out", "acc"}

Ctx(x) ==
  /\ IsRec(x, ContextFields) /\ x.n \in Node /\ x.i \in Index
  /\ Shaped(x.c) /\ x.out \in Seq(Frame) /\ x.acc \in Seq(Message)

(* y is what a handler makes of x.                                         *)
Result(x, y) ==
  Ctx(y) /\ Sound(y.c) /\ y.n = x.n /\ y.i = x.i /\ y.c.ideige = x.c.ideige

LEMMA SetCircuit ==
  ASSUME NEW x, Ctx(x), NEW c, Shaped(c)
  PROVE  LET y == [x EXCEPT !.c = c]
         IN  Ctx(y) /\ y.c = c /\ y.n = x.n /\ y.i = x.i /\ y.out = x.out /\ y.acc = x.acc
BY DEF Ctx, IsRec, ContextFields

LEMMA SetAcc ==
  ASSUME NEW x, Ctx(x), NEW acc \in Seq(Message)
  PROVE  LET y == [x EXCEPT !.acc = acc]
         IN  Ctx(y) /\ y.c = x.c /\ y.n = x.n /\ y.i = x.i
BY DEF Ctx, IsRec, ContextFields

LEMMA SendType ==
  ASSUME NEW x, Ctx(x), NEW f \in Frame
  PROVE  Ctx(Send(x, f)) /\ Send(x, f).c = x.c /\ Send(x, f).n = x.n /\ Send(x, f).i = x.i
<1>1. Append(x.out, f) \in Seq(Frame) BY DEF Ctx
<1> QED BY <1>1 DEF Send, Ctx, IsRec, ContextFields

LEMMA SndFrmType ==
  ASSUME NEW x, Ctx(x), NEW seq \in Nat, NEW m \in Message
  PROVE  LET y == SndFrm(x, seq, m)
         IN  Ctx(y) /\ y.c = AckSent(x.c) /\ y.n = x.n /\ y.i = x.i
<1>1. Shaped(x.c) BY DEF Ctx
<1>2. Shaped(AckSent(x.c)) BY <1>1, AckSentAlike DEF Alike
<1> DEFINE x1 == [x EXCEPT !.c = AckSent(x.c)]
<1> DEFINE f == [WithAck(x.c, ToPartner(x.c, "INFTRA")) EXCEPT !.a = seq, !.m = m]
<1>3. Ctx(x1) /\ x1.c = AckSent(x.c) /\ x1.n = x.n /\ x1.i = x.i BY <1>2, SetCircuit
<1>4. f \in Frame BY <1>1, WithAckType
<1>5. SndFrm(x, seq, m) = Send(x1, f) BY DEF SndFrm
<1> HIDE DEF x1, f
<1> QED BY <1>3, <1>4, <1>5, SendType

LEMMA SndAckType ==
  ASSUME NEW x, Ctx(x)
  PROVE  LET y == SndAck(x)
         IN  Ctx(y) /\ y.c = AckSent(x.c) /\ y.n = x.n /\ y.i = x.i
<1>1. Shaped(x.c) BY DEF Ctx
<1>2. Shaped(AckSent(x.c)) BY <1>1, AckSentAlike DEF Alike
<1> DEFINE x1 == [x EXCEPT !.c = AckSent(x.c)]
<1> DEFINE f == WithAck(x.c, ToPartner(x.c, "INFACK"))
<1>3. Ctx(x1) /\ x1.c = AckSent(x.c) /\ x1.n = x.n /\ x1.i = x.i BY <1>2, SetCircuit
<1>4. f \in Frame BY <1>1, WithAckType
<1>5. SndAck(x) = Send(x1, f) BY DEF SndAck
<1> HIDE DEF x1, f
<1> QED BY <1>3, <1>4, <1>5, SendType

(* An acknowledgement goes out: nothing else changes.                      *)
LEMMA SndAckSound ==
  ASSUME NEW x, Ctx(x), Sound(x.c)
  PROVE  Result(x, SndAck(x))
<1>1. Shaped(x.c) BY DEF Ctx
<1>2. Sound(AckSent(x.c)) /\ AckSent(x.c).ideige = x.c.ideige
  BY <1>1, AckSentAlike, AlikeSound DEF Alike
<1> QED BY <1>2, SndAckType DEF Result

(* The circuit c with its transport timer started.                         *)
LEMMA TimerType ==
  ASSUME NEW c, Shaped(c), NEW v \in BOOLEAN
  PROVE  LET d == [c EXCEPT !.traout = v]
         IN  /\ Shaped(d) /\ d.traout = v /\ d.st = c.st /\ d.l4flag = c.l4flag
             /\ d.l4vs = c.l4vs /\ d.l4rxvs = c.l4rxvs /\ d.mbhdtx = c.mbhdtx
             /\ d.window = c.window /\ d.ideige = c.ideige
<1>1. IsRec(c, CircuitFields) /\ Typed(c) BY DEF Shaped
<1> DEFINE d == [c EXCEPT !.traout = v]
<1>2. IsRec(d, CircuitFields) BY <1>1 DEF IsRec
<1>3. Typed(d) BY <1>1 DEF IsRec, CircuitFields, Typed
<1> QED BY <1>1, <1>2, <1>3 DEF Shaped, IsRec, CircuitFields

LEMMA SConrqType ==
  ASSUME NEW x, Ctx(x)
  PROVE  LET y == SConrq(x)
         IN  Ctx(y) /\ y.c = [x.c EXCEPT !.traout = TRUE] /\ y.n = x.n /\ y.i = x.i
<1> DEFINE e == [x.c EXCEPT !.traout = TRUE]
<1> DEFINE x1 == [x EXCEPT !.c = e]
<1> DEFINE h == Header("CONREQ", x.i, x.c.ideige)
<1> DEFINE f == [h EXCEPT !.win = Trawir[x.n]]
<1>1. SConrq(x) = Send(x1, f) BY DEF SConrq
<1>2. Shaped(x.c) /\ x.i \in 0 .. NumCir /\ x.c.ideige \in 0 .. MaxId
  BY DEF Ctx, Shaped, Typed, Index
<1>3. Shaped(e) BY <1>2, TimerType
<1>4. h \in Datagram /\ h.op = "CONREQ" BY <1>2, HeaderType DEF Opcode, Header
<1>5. Trawir[x.n] \in 1 .. Mod - 1 BY WindowAssumption DEF Ctx
<1> HIDE DEF h, e
<1>6. f \in Frame BY <1>4, <1>5 DEF Frame, Datagram
<1>7. Ctx(x1) /\ x1.c = e /\ x1.n = x.n /\ x1.i = x.i BY <1>3, SetCircuit
<1> HIDE DEF x1, f
<1> QED BY <1>1, <1>6, <1>7, SendType DEF e

LEMMA SDisrqType ==
  ASSUME NEW x, Ctx(x)
  PROVE  LET y == SDisrq(x)
         IN  Ctx(y) /\ y.c = [x.c EXCEPT !.traout = TRUE] /\ y.n = x.n /\ y.i = x.i
<1> DEFINE e == [x.c EXCEPT !.traout = TRUE]
<1> DEFINE x1 == [x EXCEPT !.c = e]
<1> DEFINE f == ToPartner(x.c, "DISREQ")
<1>1. SDisrq(x) = Send(x1, f) BY DEF SDisrq
<1>2. Shaped(x.c) BY DEF Ctx
<1>3. Shaped(e) BY <1>2, TimerType
<1>4. f \in Frame BY <1>2, ToPartnerType DEF Opcode
<1> HIDE DEF e
<1>5. Ctx(x1) /\ x1.c = e /\ x1.n = x.n /\ x1.i = x.i BY <1>3, SetCircuit
<1> HIDE DEF x1, f
<1> QED BY <1>1, <1>4, <1>5, SendType DEF e

-----------------------------------------------------------------------------
(* Receiving.                                                              *)

LEMMA EndCirSound == ASSUME NEW x, Ctx(x) PROVE Result(x, EndCir(x))
<1> DEFINE c == ClrCir(x.c)
<1> DEFINE x1 == [x EXCEPT !.c = c]
<1> DEFINE y == SDisrq(x1)
<1> DEFINE d == [c EXCEPT !.traout = TRUE]
<1> DEFINE e == [d EXCEPT !.st = L4SDSCRQ]
<1>1. Shaped(c) /\ Fropen(c) = 0 /\ c.l4flag = {} /\ c.ideige = x.c.ideige
  BY ClrCirShaped DEF Ctx
<1>2. EndCir(x) = [y EXCEPT !.c.st = L4SDSCRQ] BY DEF EndCir
<1> HIDE DEF c
<1>3. Ctx(x1) /\ x1.c = c /\ x1.n = x.n /\ x1.i = x.i BY <1>1, SetCircuit
<1> HIDE DEF x1
<1>4. Ctx(y) /\ y.c = d /\ y.n = x.n /\ y.i = x.i BY <1>3, SDisrqType
<1>5. /\ Shaped(d) /\ d.traout = TRUE /\ d.l4vs = c.l4vs /\ d.l4rxvs = c.l4rxvs
      /\ IsRec(d, CircuitFields) /\ Typed(d) /\ d.ideige = x.c.ideige
  BY <1>1, TimerType DEF Shaped
<1> HIDE DEF y, d
<1>6. IsRec(e, CircuitFields) BY <1>5 DEF IsRec
<1>7. Typed(e) BY <1>5 DEF IsRec, CircuitFields, Typed, States
<1>8. e.traout = TRUE /\ e.l4vs = d.l4vs /\ e.l4rxvs = d.l4rxvs /\ e.ideige = x.c.ideige
  BY <1>5 DEF IsRec, CircuitFields
<1> HIDE DEF e
<1>9. Fropen(e) = 0 BY <1>1, <1>5, <1>8 DEF Fropen
<1>10. Windowed(e) BY <1>7, <1>9, ModType, LenProperties DEF Windowed, Typed
<1>11. Sound(e) BY <1>6, <1>7, <1>8, <1>10 DEF Sound, Shaped, Timed
<1>12. EndCir(x) = [y EXCEPT !.c = e] BY <1>2, <1>4 DEF e
<1> QED BY <1>4, <1>8, <1>11, <1>12, SetCircuit DEF Result, Sound

(* chksts: messages leave the list and the window together.                *)
LEMMA AcknowledgedSound ==
  ASSUME NEW c, Sound(c), c.st # L4SDSCED, NEW f \in Frame
  PROVE  LET d == Acknowledged(c, f)
         IN  Sound(d) /\ d.st = c.st /\ d.ideige = c.ideige
<1> DEFINE ofs == (f.b - c.l4rxvs) % Mod
<1> DEFINE k == IF ofs <= Fropen(c) THEN ofs ELSE 0
<1> DEFINE tx == SubSeq(c.mbhdtx, k + 1, Len(c.mbhdtx))
<1> DEFINE vs == (c.l4rxvs + k) % Mod
<1> DEFINE d == [c EXCEPT !.mbhdtx = tx, !.l4rxvs = vs]
<1>1. Acknowledged(c, f) = d BY DEF Acknowledged
<1>2. IsRec(c, CircuitFields) /\ Typed(c) /\ Shaped(c) BY DEF Sound, Shaped
<1>3. f.b \in Nat BY DEF Frame, Datagram
<1>4. ofs \in 0 .. Mod - 1
  <2>1. f.b - c.l4rxvs \in Int BY <1>2, <1>3, ModType DEF Typed
  <2> QED BY <2>1, ModType, ModRange
<1>5. Fropen(c) \in 0 .. Mod - 1 BY <1>2, FropenType
<1> HIDE DEF ofs
<1>6. k \in 0 .. Mod - 1 /\ k <= Fropen(c)
  <2>1. CASE ofs <= Fropen(c) BY <2>1, <1>4
  <2>2. CASE ~(ofs <= Fropen(c))
    <3>1. k = 0 BY <2>2
    <3> HIDE DEF k
    <3> QED BY <3>1, <1>5, ModType
  <2> QED BY <2>1, <2>2
<1> HIDE DEF k
<1>7. Fropen(c) <= Len(c.mbhdtx) /\ Fropen(c) <= c.window BY DEF Sound, Windowed
<1>8. c.mbhdtx \in Seq(Entry) /\ Len(c.mbhdtx) \in Nat
  BY <1>2, LenProperties DEF Typed
<1>9. tx \in Seq(Entry) /\ Len(tx) = Len(c.mbhdtx) - k
  <2>1. \A i \in k + 1 .. Len(c.mbhdtx) : c.mbhdtx[i] \in Entry BY <1>6, <1>8, ElementOfSeq, ModType
  <2>2. k + 1 \in Int /\ Len(c.mbhdtx) \in Int BY <1>6, <1>8, ModType
  <2>3. /\ tx \in Seq(Entry)
        /\ Len(tx) = IF k + 1 <= Len(c.mbhdtx) THEN Len(c.mbhdtx) - (k + 1) + 1 ELSE 0
    BY <2>1, <2>2, SubSeqProperties
  <2> HIDE DEF tx
  <2> QED BY <2>3, <1>5, <1>6, <1>7, <1>8, ModType
<1> HIDE DEF tx
<1>10. vs \in 0 .. Mod - 1
  <2>1. c.l4rxvs + k \in Int BY <1>2, <1>6, ModType DEF Typed
  <2> QED BY <2>1, ModType, ModRange
<1>11. (c.l4vs - ((c.l4rxvs + k) % Mod)) % Mod = Fropen(c) - k
  <2>1. c.l4vs \in 0 .. Mod - 1 /\ c.l4rxvs \in 0 .. Mod - 1 BY <1>2 DEF Typed
  <2>2. k \in Nat BY <1>6, ModType
  <2>3. k <= (c.l4vs - c.l4rxvs) % Mod BY <1>6 DEF Fropen
  <2>4. (c.l4vs - ((c.l4rxvs + k) % Mod)) % Mod = ((c.l4vs - c.l4rxvs) % Mod) - k
    BY <2>1, <2>2, <2>3, ModType, Distance
  <2> QED BY <2>4 DEF Fropen
<1>12. IsRec(d, CircuitFields) BY <1>2 DEF IsRec
<1>13. /\ d.mbhdtx = tx /\ d.l4rxvs = (c.l4rxvs + k) % Mod /\ d.l4vs = c.l4vs /\ d.st = c.st
       /\ d.l4flag = c.l4flag /\ d.traout = c.traout /\ d.window = c.window
       /\ d.ideige = c.ideige
  BY <1>2 DEF IsRec, CircuitFields
<1>14. Typed(d) BY <1>2, <1>9, <1>10 DEF IsRec, CircuitFields, Typed
<1> HIDE DEF d
<1>15. Fropen(d) = Fropen(c) - k
  <2>1. Fropen(d) = (d.l4vs - d.l4rxvs) % Mod BY DEF Fropen
  <2> QED BY <2>1, <1>11, <1>13
<1>16. Windowed(d)
  <2>1. Len(d.mbhdtx) = Len(c.mbhdtx) - k BY <1>9, <1>13
  <2>2. c.window \in Nat /\ Fropen(c) \in Nat /\ k \in Nat
    BY <1>2, <1>5, <1>6, ModType DEF Typed
  <2>3. Fropen(d) <= Len(d.mbhdtx) /\ Fropen(d) <= d.window
    BY <1>7, <1>8, <1>13, <1>15, <2>1, <2>2
  <2> QED BY <2>3 DEF Windowed
<1>17. Timed(d) BY <1>13 DEF Sound, Timed
<1> QED BY <1>1, <1>5, <1>6, <1>12, <1>13, <1>14, <1>15, <1>16, <1>17, ModType DEF Sound, Shaped

(* A choked partner: nothing is open, and traout runs.                     *)
LEMMA ChokedSound ==
  ASSUME NEW c, Sound(c)
  PROVE  Sound(Choked(c)) /\ Choked(c).st = c.st /\ Choked(c).ideige = c.ideige
<1> DEFINE d == [c EXCEPT !.l4flag = c.l4flag \cup {"PBUSY"}, !.l4vs = c.l4rxvs, !.traout = TRUE]
<1>1. IsRec(c, CircuitFields) /\ Typed(c) BY DEF Sound, Shaped
<1>2. Choked(c) = d BY DEF Choked
<1>3. IsRec(d, CircuitFields) BY <1>1 DEF IsRec
<1>4. Typed(d) BY <1>1 DEF IsRec, CircuitFields, Typed, Flags
<1>5. d.l4vs = d.l4rxvs /\ d.traout = TRUE /\ d.st = c.st /\ d.ideige = c.ideige
  BY <1>1 DEF IsRec, CircuitFields
<1> HIDE DEF d
<1>6. Fropen(d) = 0
  <2>1. d.l4vs - d.l4rxvs = 0 BY <1>4, <1>5, ModType DEF Typed
  <2> QED BY <2>1, ModType, ModSmall DEF Fropen
<1>7. Windowed(d) BY <1>4, <1>6, ModType, LenProperties DEF Windowed, Typed
<1> QED BY <1>2, <1>3, <1>4, <1>5, <1>7 DEF Sound, Shaped, Timed

LEMMA UnchokedSound ==
  ASSUME NEW c, Sound(c), c.st = L4SIXFER
  PROVE  LET d == [c EXCEPT !.l4flag = c.l4flag \ {"PBUSY"}, !.traout = FALSE]
         IN  Sound(d) /\ d.st = c.st /\ d.ideige = c.ideige
<1> DEFINE d == [c EXCEPT !.l4flag = c.l4flag \ {"PBUSY"}, !.traout = FALSE]
<1>1. IsRec(c, CircuitFields) /\ Typed(c) BY DEF Sound, Shaped
<1>2. IsRec(d, CircuitFields) BY <1>1 DEF IsRec
<1>3. Typed(d) BY <1>1 DEF IsRec, CircuitFields, Typed
<1>4. /\ d.l4vs = c.l4vs /\ d.l4rxvs = c.l4rxvs /\ d.st = c.st /\ "PBUSY" \notin d.l4flag
      /\ d.mbhdtx = c.mbhdtx /\ d.window = c.window /\ d.ideige = c.ideige
  BY <1>1 DEF IsRec, CircuitFields
<1> HIDE DEF d
<1>5. Windowed(d) BY <1>4 DEF Sound, Windowed, Fropen
<1>6. Timed(d) BY <1>4 DEF Timed, L4SLKSUP, L4SIXFER, L4SDSCRQ
<1> QED BY <1>2, <1>3, <1>4, <1>5, <1>6 DEF Sound, Shaped, d

LEMMA ChkstsSound ==
  ASSUME NEW x, Ctx(x), Sound(x.c), x.c.st = L4SIXFER, NEW f \in Frame
  PROVE  Result(x, Chksts(x, f)) /\ Chksts(x, f).c.st = L4SIXFER
<1> DEFINE c == Acknowledged(x.c, f)
<1> DEFINE d == [c EXCEPT !.l4flag = c.l4flag \ {"PBUSY"}, !.traout = FALSE]
<1> DEFINE y == [x EXCEPT !.c = d]
<1>1. Sound(c) /\ c.st = L4SIXFER /\ c.ideige = x.c.ideige
  BY AcknowledgedSound DEF L4SDSCED, L4SIXFER
<1>2. Chksts(x, f) = IF f.choke THEN [x EXCEPT !.c = Choked(c)]
                     ELSE IF f.nak /\ Fropen(c) # 0 THEN SndFrm(y, c.l4rxvs, Head(c.mbhdtx).m)
                     ELSE y
  BY DEF Chksts
<1> HIDE DEF c
<1>3. Sound(d) /\ d.st = L4SIXFER /\ d.ideige = x.c.ideige BY <1>1, UnchokedSound
<1> HIDE DEF d
<1>4. Ctx(y) /\ y.c = d /\ y.n = x.n /\ y.i = x.i BY <1>3, SetCircuit DEF Sound
<1> HIDE DEF y
<1>5. CASE f.choke
  <2>1. Sound(Choked(c)) /\ Choked(c).st = L4SIXFER /\ Choked(c).ideige = x.c.ideige
    BY <1>1, ChokedSound
  <2> QED BY <1>2, <1>5, <2>1, SetCircuit DEF Result, Sound
<1>6. CASE ~f.choke /\ f.nak /\ Fropen(c) # 0
  <2>1. c.mbhdtx \in Seq(Entry) /\ c.l4rxvs \in Nat /\ Fropen(c) <= Len(c.mbhdtx)
        /\ Fropen(c) \in 0 .. Mod - 1
    <3>1. Shaped(c) BY <1>1 DEF Sound
    <3>2. c.mbhdtx \in Seq(Entry) /\ c.l4rxvs \in 0 .. Mod - 1 BY <3>1 DEF Shaped, Typed
    <3>3. Fropen(c) <= Len(c.mbhdtx) BY <1>1 DEF Sound, Windowed, L4SIXFER, L4SDSCED
    <3>4. c.l4rxvs \in Nat BY <3>2, ModType
    <3> QED BY <3>1, <3>2, <3>3, <3>4, FropenType
  <2>2. c.mbhdtx # <<>>
    <3>1. Len(c.mbhdtx) # 0 BY <1>6, <2>1, ModType
    <3> QED BY <3>1, EmptySeq
  <2>3. Head(c.mbhdtx) \in Entry BY <2>1, <2>2, HeadTailProperties
  <2>4. Head(c.mbhdtx).m \in Message BY <2>3 DEF Entry
  <2> DEFINE z == SndFrm(y, c.l4rxvs, Head(c.mbhdtx).m)
  <2>5. Ctx(z) /\ z.c = AckSent(d) /\ z.n = x.n /\ z.i = x.i BY <1>4, <2>1, <2>4, SndFrmType
  <2>6. Sound(AckSent(d)) /\ AckSent(d).st = L4SIXFER /\ AckSent(d).ideige = x.c.ideige
    BY <1>3, AckSentAlike, AlikeSound DEF Sound, Alike
  <2> HIDE DEF z
  <2>7. Chksts(x, f) = z BY <1>2, <1>6 DEF z
  <2> QED BY <2>5, <2>6, <2>7 DEF Result
<1>7. CASE ~f.choke /\ ~(f.nak /\ Fropen(c) # 0)
  BY <1>2, <1>3, <1>4, <1>7 DEF Result
<1> QED BY <1>5, <1>6, <1>7

(* Messages that came too early.                                           *)
LEMMA EarlyAlike ==
  ASSUME NEW c, Shaped(c), NEW m \in Nat
  PROVE  Alike(c, Early(c, m))
<1> DEFINE os == [o \in 1 .. Mod - 1 |-> IF o + m < Mod THEN c.mbhdos[o + m] ELSE NoMessage]
<1>1. IsRec(c, CircuitFields) /\ Typed(c) BY DEF Shaped
<1>2. Early(c, m) = [c EXCEPT !.mbhdos = os] BY DEF Early
<1>3. os \in [1 .. Mod - 1 -> Message]
  <2>1. ASSUME NEW o \in 1 .. Mod - 1
        PROVE  (IF o + m < Mod THEN c.mbhdos[o + m] ELSE NoMessage) \in Message
    <3>1. o + m < Mod => o + m \in 1 .. Mod - 1 BY ModType
    <3>2. c.mbhdos \in [1 .. Mod - 1 -> Message] BY <1>1 DEF Typed
    <3> QED BY <3>1, <3>2, NoMessageType
  <2> QED BY <2>1
<1> HIDE DEF os
<1>4. IsRec(Early(c, m), CircuitFields) BY <1>1, <1>2 DEF IsRec
<1> DEFINE d == [c EXCEPT !.mbhdos = os]
<1>5. Typed(Early(c, m))
  <2>1. Typed(d) BY <1>1, <1>3 DEF IsRec, CircuitFields, Typed
  <2> QED BY <1>2, <2>1
<1>6. /\ Early(c, m).st = c.st /\ Early(c, m).l4vs = c.l4vs /\ Early(c, m).l4rxvs = c.l4rxvs
      /\ Early(c, m).mbhdtx = c.mbhdtx /\ Early(c, m).window = c.window
      /\ Early(c, m).traout = c.traout /\ Early(c, m).l4flag = c.l4flag
      /\ Early(c, m).ideige = c.ideige
  BY <1>1, <1>2 DEF IsRec, CircuitFields
<1> QED BY <1>4, <1>5, <1>6 DEF Alike, Shaped

LEMMA MinExists ==
  ASSUME NEW S, S \subseteq Nat, S # {}
  PROVE  \E m \in S : \A n \in S : m <= n
<1>1. OpToRel(<, Nat) = {ss \in Nat \X Nat : ss[1] < ss[2]} BY DEF OpToRel
<1>2. PICK m \in S : \A n \in S : ~ (<<n, m>> \in OpToRel(<, Nat))
  BY NatLessThanWellFounded, WFMin
<1>3. \A n \in S : ~ (<<n, m>> \in {ss \in Nat \X Nat : ss[1] < ss[2]})
  BY <1>1, <1>2
<1>4. m \in Nat BY <1>2
<1>5. ASSUME NEW n \in S PROVE m <= n
  <2>1. n \in Nat /\ <<n, m>> \in Nat \X Nat BY <1>4
  <2>2. ~ (n < m) BY <1>3, <2>1
  <2> QED BY <1>4, <2>1, <2>2
<1> QED BY <1>2, <1>5

(* The first gap behind the expected message, or the end of mbhdos.        *)
LEMMA InRowType == ASSUME NEW c PROVE InRow(c) \in 0 .. Mod - 1
<1> DEFINE Gap(j) == j < Mod - 1 => c.mbhdos[j + 1] = NoMessage
<1> DEFINE S == {j \in 0 .. Mod - 1 : Gap(j)}
<1>1. Mod - 1 \in S /\ S \subseteq Nat BY ModType
<1>2. PICK m \in S : \A n \in S : m <= n BY <1>1, MinExists
<1>3. m \in 0 .. Mod - 1 /\ Gap(m) BY <1>2
<1>4. ASSUME NEW o \in 1 .. m PROVE c.mbhdos[o] # NoMessage
  <2>1. o - 1 \in 0 .. Mod - 1 /\ o - 1 < m /\ o - 1 < Mod - 1 BY <1>3, ModType
  <2>2. o - 1 \notin S BY <1>2, <1>3, <2>1, ModType
  <2>3. ~Gap(o - 1) BY <2>1, <2>2
  <2>4. (o - 1) + 1 = o BY <1>3
  <2> QED BY <2>3, <2>4
<1> QED BY <1>3, <1>4 DEF InRow

LEMMA TakfrmSound ==
  ASSUME NEW x, Ctx(x), Sound(x.c), NEW f \in Frame, NEW k \in 0 .. Mod - 1
  PROVE  Result(x, Takfrm(x, f, k)) /\ Takfrm(x, f, k).c.st = x.c.st
<1> DEFINE c == Early(x.c, k + 1)
<1> DEFINE vr == (c.l4vr + k + 1) % Mod
<1> DEFINE rx == IF "DSLE" \in c.l4flag THEN c.numrx ELSE c.numrx + k + 1
<1> DEFINE d == [c EXCEPT !.l4vr = vr, !.numrx = rx, !.l4rs = 0, !.acktim = TRUE]
<1> DEFINE acc == <<f.m>> \o SubSeq(x.c.mbhdos, 1, k)
<1>1. Takfrm(x, f, k) = [x EXCEPT !.c = d, !.acc = acc] BY DEF Takfrm
<1>2. k \in Nat BY ModType
<1>3. Shaped(x.c) BY DEF Ctx
<1>4. Alike(x.c, c) BY <1>2, <1>3, EarlyAlike
<1>5. acc \in Seq(Message)
  <2>1. f.m \in Message BY DEF Frame, Datagram
  <2>2. <<f.m>> \in Seq(Message) BY <2>1
  <2>3. \A i \in 1 .. k : x.c.mbhdos[i] \in Message
    <3>1. x.c.mbhdos \in [1 .. Mod - 1 -> Message] BY <1>3 DEF Shaped, Typed
    <3> QED BY <3>1, ModType
  <2>4. SubSeq(x.c.mbhdos, 1, k) \in Seq(Message) BY <1>2, <2>3, SubSeqProperties
  <2> QED BY <2>2, <2>4, ConcatProperties
<1> HIDE DEF c, acc
<1>6. IsRec(c, CircuitFields) /\ Typed(c) BY <1>4 DEF Alike, Shaped
<1>7. vr \in 0 .. Mod - 1
  <2>1. c.l4vr + k + 1 \in Int BY <1>2, <1>6, ModType DEF Typed
  <2> QED BY <2>1, ModType, ModRange
<1>8. rx \in Nat BY <1>2, <1>6 DEF Typed
<1> HIDE DEF vr, rx
<1>9. IsRec(d, CircuitFields) BY <1>6 DEF IsRec
<1>10. Typed(d) BY <1>6, <1>7, <1>8 DEF IsRec, CircuitFields, Typed
<1>11. /\ d.st = c.st /\ d.l4vs = c.l4vs /\ d.l4rxvs = c.l4rxvs /\ d.mbhdtx = c.mbhdtx
       /\ d.window = c.window /\ d.traout = c.traout /\ d.l4flag = c.l4flag
       /\ d.ideige = c.ideige
  BY <1>6 DEF IsRec, CircuitFields
<1> HIDE DEF d
<1>12. Alike(x.c, d) BY <1>4, <1>9, <1>10, <1>11 DEF Alike, Shaped
<1>13. Sound(d) /\ d.st = x.c.st /\ d.ideige = x.c.ideige
  BY <1>12, AlikeSound DEF Alike
<1> DEFINE y == [x EXCEPT !.c = d]
<1>14. Ctx(y) /\ y.c = d /\ y.n = x.n /\ y.i = x.i BY <1>13, SetCircuit DEF Sound
<1>15. Takfrm(x, f, k) = [y EXCEPT !.acc = acc] BY <1>1
<1> HIDE DEF y
<1> QED BY <1>5, <1>13, <1>14, <1>15, SetAcc DEF Result

LEMMA AcktimAlike ==
  ASSUME NEW c, Shaped(c)
  PROVE  Alike(c, [c EXCEPT !.acktim = TRUE])
<1> DEFINE d == [c EXCEPT !.acktim = TRUE]
<1>1. IsRec(c, CircuitFields) /\ Typed(c) BY DEF Shaped
<1>2. IsRec(d, CircuitFields) BY <1>1 DEF IsRec
<1>3. Typed(d) BY <1>1 DEF IsRec, CircuitFields, Typed
<1> QED BY <1>1, <1>2, <1>3 DEF Alike, Shaped, IsRec, CircuitFields

(* The message is kept until those before it have come.                    *)
LEMMA KeptAlike ==
  ASSUME NEW c, Shaped(c), NEW o \in 1 .. Mod - 1, NEW m \in Message
  PROVE  Alike(c, [c EXCEPT !.mbhdos[o] = IF @ = NoMessage THEN m ELSE @,
                            !.l4rs = IF @ = 0 THEN 1 ELSE @,
                            !.acktim = @ \/ c.l4rs = 0])
<1> DEFINE os == [c.mbhdos EXCEPT ![o] = IF c.mbhdos[o] = NoMessage THEN m ELSE c.mbhdos[o]]
<1> DEFINE rs == IF c.l4rs = 0 THEN 1 ELSE c.l4rs
<1> DEFINE tim == c.acktim \/ c.l4rs = 0
<1> DEFINE d == [c EXCEPT !.mbhdos = os, !.l4rs = rs, !.acktim = tim]
<1>1. IsRec(c, CircuitFields) /\ Typed(c) BY DEF Shaped
<1>2. d = [c EXCEPT !.mbhdos[o] = IF @ = NoMessage THEN m ELSE @,
                    !.l4rs = IF @ = 0 THEN 1 ELSE @,
                    !.acktim = @ \/ c.l4rs = 0]
  BY <1>1 DEF IsRec, CircuitFields
<1>3. os \in [1 .. Mod - 1 -> Message]
  <2>1. c.mbhdos \in [1 .. Mod - 1 -> Message] BY <1>1 DEF Typed
  <2> QED BY <2>1
<1>4. rs \in 0 .. 2 BY <1>1 DEF Typed
<1>5. tim \in BOOLEAN BY <1>1 DEF Typed
<1> HIDE DEF os, rs, tim
<1>6. IsRec(d, CircuitFields) BY <1>1 DEF IsRec
<1>7. Typed(d) BY <1>1, <1>3, <1>4, <1>5 DEF IsRec, CircuitFields, Typed
<1>8. Alike(c, d) BY <1>1, <1>6, <1>7 DEF Alike, Shaped, IsRec, CircuitFields
<1> QED BY <1>2, <1>8

LEMMA RxInftraSound ==
  ASSUME NEW x, Ctx(x), Sound(x.c), NEW f \in Frame
  PROVE  Result(x, RxInftra(x, f))
<1> DEFINE y == Chksts(x, f)
<1> DEFINE ofs == (f.a - y.c.l4vr) % Mod
<1> DEFINE z == [y.c EXCEPT !.acktim = TRUE]
<1> DEFINE kept == [y.c EXCEPT !.mbhdos[ofs] = IF @ = NoMessage THEN f.m ELSE @,
                               !.l4rs = IF @ = 0 THEN 1 ELSE @,
                               !.acktim = @ \/ y.c.l4rs = 0]
<1>1. RxInftra(x, f) = IF x.c.st # L4SIXFER THEN x
                       ELSE IF ~Passes(y.c, ofs) THEN [y EXCEPT !.c.acktim = TRUE]
                       ELSE IF ofs = 0 THEN Takfrm(y, f, InRow(y.c))
                       ELSE [y EXCEPT !.c = kept]
  BY DEF RxInftra
<1>2. CASE x.c.st # L4SIXFER BY <1>1, <1>2 DEF Result
<1>3. CASE x.c.st = L4SIXFER
  <2>1. Ctx(y) /\ Sound(y.c) /\ y.n = x.n /\ y.i = x.i /\ y.c.ideige = x.c.ideige
    BY <1>3, ChkstsSound DEF Result
  <2>2. [y EXCEPT !.c.acktim = TRUE] = [y EXCEPT !.c = z] BY <2>1 DEF Ctx, IsRec, ContextFields
  <2>3. IsRec(y.c, CircuitFields) /\ Typed(y.c) /\ Shaped(y.c) BY <2>1 DEF Sound, Shaped
  <2>4. ofs \in 0 .. Mod - 1
    <3>1. f.a \in Nat BY DEF Frame, Datagram
    <3>2. f.a - y.c.l4vr \in Int BY <2>3, <3>1, ModType DEF Typed
    <3> QED BY <3>2, ModType, ModRange
  <2>5. f.m \in Message BY DEF Frame, Datagram
  <2> HIDE DEF y, ofs
  <2>6. CASE ~Passes(y.c, ofs)
    <3>1. Sound(z) /\ z.ideige = y.c.ideige
      BY <2>1, <2>3, AcktimAlike, AlikeSound DEF Alike
    <3> HIDE DEF z
    <3>2. Result(y, [y EXCEPT !.c = z]) BY <2>1, <3>1, SetCircuit DEF Result, Sound
    <3> QED BY <1>1, <1>3, <2>1, <2>2, <2>6, <3>2 DEF Result
  <2>7. CASE Passes(y.c, ofs) /\ ofs = 0
    <3>1. Result(y, Takfrm(y, f, InRow(y.c))) BY <2>1, InRowType, TakfrmSound
    <3> QED BY <1>1, <1>3, <2>1, <2>7, <3>1 DEF Result
  <2>8. CASE Passes(y.c, ofs) /\ ofs # 0
    <3>1. ofs \in 1 .. Mod - 1 BY <2>4, <2>8, ModType
    <3>2. Sound(kept) /\ kept.ideige = y.c.ideige
      <4>1. Alike(y.c, kept) BY <2>3, <2>5, <3>1, KeptAlike
      <4> HIDE DEF kept
      <4> QED BY <2>1, <4>1, AlikeSound DEF Alike
    <3> HIDE DEF kept
    <3>3. Result(y, [y EXCEPT !.c = kept]) BY <2>1, <3>2, SetCircuit DEF Result, Sound
    <3> QED BY <1>1, <1>3, <2>1, <2>8, <3>3 DEF Result
  <2> QED BY <2>6, <2>7, <2>8
<1> QED BY <1>2, <1>3

(* A circuit that is set up afresh: nothing is open.                       *)
LEMMA FreshSound ==
  ASSUME NEW c, Shaped(c), NEW idx \in 0 .. NumCir, NEW id \in 0 .. MaxId,
         NEW w \in 1 .. Mod - 1
  PROVE  LET d == [ClrCir(c) EXCEPT !.window = w, !.idpart = id, !.idxpar = idx,
                                    !.st = L4SIXFER]
         IN  /\ Sound(d) /\ d.ideige = c.ideige
             /\ \A e \in 0 .. MaxId : Sound([d EXCEPT !.ideige = e])
<1> DEFINE c1 == ClrCir(c)
<1> DEFINE d == [c1 EXCEPT !.window = w, !.idpart = id, !.idxpar = idx, !.st = L4SIXFER]
<1>1. /\ IsRec(c1, CircuitFields) /\ Typed(c1) /\ Fropen(c1) = 0
      /\ c1.l4flag = {} /\ c1.ideige = c.ideige
  BY ClrCirShaped DEF Shaped
<1> HIDE DEF c1
<1>2. IsRec(d, CircuitFields) BY <1>1 DEF IsRec
<1>3. Typed(d) BY <1>1 DEF IsRec, CircuitFields, Typed, States
<1>4. /\ d.l4vs = c1.l4vs /\ d.l4rxvs = c1.l4rxvs /\ d.l4flag = {}
      /\ d.st = L4SIXFER /\ d.ideige = c.ideige
  BY <1>1 DEF IsRec, CircuitFields
<1> HIDE DEF d
<1>5. Fropen(d) = 0 BY <1>1, <1>4 DEF Fropen
<1>6. ASSUME NEW e, Shaped(e), Fropen(e) = 0, e.l4flag = {}, e.st = L4SIXFER
      PROVE  Sound(e)
  <2>1. Windowed(e)
    <3>1. e.mbhdtx \in Seq(Entry) /\ e.window \in 1 .. Mod - 1
      BY <1>6 DEF Shaped, Typed
    <3>2. Len(e.mbhdtx) \in Nat /\ e.window \in Nat BY <3>1, LenProperties, ModType
    <3> QED BY <1>6, <3>2 DEF Windowed
  <2> QED BY <1>6, <2>1 DEF Sound, Timed, L4SIXFER, L4SLKSUP, L4SDSCRQ
<1>7. ASSUME NEW e \in 0 .. MaxId PROVE Sound([d EXCEPT !.ideige = e])
  <2> DEFINE g == [d EXCEPT !.ideige = e]
  <2>1. IsRec(g, CircuitFields) BY <1>2 DEF IsRec
  <2>2. Typed(g) BY <1>2, <1>3 DEF IsRec, CircuitFields, Typed
  <2>3. g.l4vs = d.l4vs /\ g.l4rxvs = d.l4rxvs /\ g.l4flag = d.l4flag /\ g.st = d.st
    BY <1>2 DEF IsRec, CircuitFields
  <2> HIDE DEF g
  <2>4. Fropen(g) = 0 BY <1>5, <2>3 DEF Fropen
  <2>5. Sound(g) BY <1>4, <1>6, <2>1, <2>2, <2>3, <2>4 DEF Shaped
  <2> QED BY <2>5 DEF g
<1>8. Sound(d) BY <1>2, <1>3, <1>4, <1>5, <1>6 DEF Shaped
<1> QED BY <1>4, <1>7, <1>8 DEF d, c1

LEMMA RxConackSound ==
  ASSUME NEW x, Ctx(x), Sound(x.c), NEW f \in Frame, f.op = "CONACK"
  PROVE  Result(x, RxConack(x, f))
<1> DEFINE c == [ClrCir(x.c) EXCEPT !.window = f.win, !.idpart = f.b,
                                    !.idxpar = f.a, !.st = L4SIXFER]
<1> DEFINE y == [x EXCEPT !.c = IF f.choke THEN L4nsta(x.c) ELSE c]
<1>1. RxConack(x, f) = IF x.c.st # L4SLKSUP THEN x ELSE y BY DEF RxConack
<1>2. Shaped(x.c) BY DEF Ctx
<1>3. ASSUME ~f.choke PROVE Sound(c) /\ c.ideige = x.c.ideige
  <2>1. f.a \in 0 .. NumCir /\ f.b \in 0 .. MaxId /\ f.win \in 0 .. Mod - 1 /\ f.win # 0
    BY <1>3 DEF Frame, Datagram
  <2>2. f.win \in 1 .. Mod - 1 BY <2>1, ModType
  <2>3. \A idx \in 0 .. NumCir, id \in 0 .. MaxId, w \in 1 .. Mod - 1 :
          LET d == [ClrCir(x.c) EXCEPT !.window = w, !.idpart = id, !.idxpar = idx,
                                       !.st = L4SIXFER]
          IN  Sound(d) /\ d.ideige = x.c.ideige
    BY <1>2, FreshSound
  <2> QED BY <2>1, <2>2, <2>3, Zenon
<1>4. Sound(L4nsta(x.c)) /\ L4nsta(x.c).ideige = x.c.ideige BY <1>2, L4nstaSound
<1> HIDE DEF c
<1>5. f.choke => Result(x, y) BY <1>4, SetCircuit DEF Result, Sound
<1>6. ~f.choke => Result(x, y) BY <1>3, SetCircuit DEF Result, Sound
<1> HIDE DEF y
<1> QED BY <1>1, <1>5, <1>6 DEF Result

LEMMA SetEnded ==
  ASSUME NEW x, Ctx(x), NEW c, Shaped(c), c.ideige = x.c.ideige
  PROVE  Result(x, [x EXCEPT !.c = L4nsta(c)])
<1>1. Sound(L4nsta(c)) /\ L4nsta(c).ideige = x.c.ideige BY L4nstaSound
<1> QED BY <1>1, SetCircuit DEF Result, Sound

LEMMA RxKnownSound ==
  ASSUME NEW x, Ctx(x), Sound(x.c), NEW f \in Frame, f.op # "CONREQ"
  PROVE  Result(x, RxKnown(x, f))
<1>1. f.op \in {"CONACK", "DISREQ", "DISACK", "INFTRA", "INFACK"}
  BY DEF Frame, Datagram, Opcode
<1>2. Shaped(x.c) BY DEF Ctx
<1>3. Result(x, x) BY DEF Result
<1>4. CASE f.op = "CONACK" BY <1>4, RxConackSound DEF RxKnown
<1>5. CASE f.op = "DISREQ"
  <2> DEFINE y == Send(x, ToPartner(x.c, "DISACK"))
  <2>1. ToPartner(x.c, "DISACK") \in Frame BY <1>2, ToPartnerType DEF Opcode
  <2>2. Ctx(y) /\ y.n = x.n /\ y.i = x.i /\ y.c = x.c BY <2>1, SendType
  <2>3. RxKnown(x, f) = [y EXCEPT !.c = L4nsta(x.c)] BY <1>5 DEF RxKnown
  <2> HIDE DEF y
  <2> QED BY <1>2, <2>2, <2>3, SetEnded DEF Result
<1>6. CASE f.op = "DISACK"
  BY <1>2, <1>3, <1>6, SetEnded DEF RxKnown
<1>7. CASE f.op = "INFTRA" BY <1>7, RxInftraSound DEF RxKnown
<1>8. CASE f.op = "INFACK" BY <1>3, <1>8, ChkstsSound DEF RxKnown
<1> QED BY <1>1, <1>4, <1>5, <1>6, <1>7, <1>8

LEMMA ConAckType ==
  ASSUME NEW x, Ctx(x)
  PROVE  /\ ConAck(x) \in Frame
         /\ [ConAck(x) EXCEPT !.choke = TRUE] \in Frame
<1> DEFINE t == ToPartner(x.c, "CONACK")
<1>1. t \in Datagram /\ t.op = "CONACK" BY ToPartnerType DEF Opcode, Ctx
<1>2. x.i \in 0 .. NumCir /\ x.c.ideige \in 0 .. MaxId /\ x.c.window \in 1 .. Mod - 1
  BY DEF Ctx, Shaped, Typed, Index
<1>3. ConAck(x) = [t EXCEPT !.a = x.i, !.b = x.c.ideige, !.win = x.c.window] BY DEF ConAck
<1> HIDE DEF t
<1>4. ConAck(x) \in Datagram
  <2>1. x.i \in Nat /\ x.c.ideige \in Nat /\ x.c.window \in 0 .. Mod - 1
    BY <1>2, BoundTypes, ModType
  <2> QED BY <1>1, <1>3, <2>1 DEF Datagram
<1>5. /\ ConAck(x).op = "CONACK" /\ ConAck(x).a = x.i /\ ConAck(x).b = x.c.ideige
      /\ ConAck(x).win # 0
  BY <1>1, <1>2, <1>3, ModType DEF Datagram
<1> DEFINE g == [ConAck(x) EXCEPT !.choke = TRUE]
<1>6. g \in Datagram /\ g.op = "CONACK" /\ g.a = x.i /\ g.b = x.c.ideige /\ g.win # 0
  BY <1>4, <1>5 DEF Datagram
<1> HIDE DEF g
<1>7. g \in Frame BY <1>2, <1>6 DEF Frame
<1> QED BY <1>2, <1>4, <1>5, <1>7 DEF Frame, g

LEMMA RxConreqSound ==
  ASSUME NEW x, Ctx(x), NEW f \in Frame, f.op = "CONREQ", NEW id \in 0 .. MaxId
  PROVE  LET y == RxConreq(x, f, id)
         IN  /\ Ctx(y) /\ Sound(y.c) /\ y.n = x.n /\ y.i = x.i
             /\ y.c.ideige = id /\ y.acc = x.acc
<1> DEFINE w == Least(f.win, Trawir[x.n])
<1> DEFINE d == [ClrCir(x.c) EXCEPT !.window = w, !.idpart = f.id, !.idxpar = f.idx,
                                    !.st = L4SIXFER]
<1> DEFINE c == [d EXCEPT !.ideige = id]
<1> DEFINE y == [x EXCEPT !.c = c]
<1>1. Shaped(x.c) /\ IsRec(ClrCir(x.c), CircuitFields)
  BY ClrCirShaped DEF Ctx, Shaped
<1>2. RxConreq(x, f, id) = Send(y, ConAck(y))
  <2>1. [ClrCir(x.c) EXCEPT !.idxpar = f.idx, !.idpart = f.id, !.ideige = id,
                            !.window = w, !.st = L4SIXFER] = c
    <3> HIDE DEF w
    <3> QED BY <1>1 DEF IsRec, CircuitFields
  <2> QED BY <2>1 DEF RxConreq
<1>3. w \in 1 .. Mod - 1
  <2>1. f.win \in 0 .. Mod - 1 /\ f.win # 0 BY DEF Frame, Datagram
  <2>2. Trawir[x.n] \in 1 .. Mod - 1 BY WindowAssumption DEF Ctx
  <2> QED BY <2>1, <2>2, ModType DEF Least
<1>4. f.idx \in 0 .. NumCir /\ f.id \in 0 .. MaxId BY DEF Frame, Datagram
<1> HIDE DEF w
<1>5. Sound(c) /\ c.ideige = id
  <2>1. Sound(c) BY <1>1, <1>3, <1>4, FreshSound
  <2>2. c.ideige = id BY <1>1 DEF IsRec, CircuitFields
  <2> QED BY <2>1, <2>2
<1> HIDE DEF c
<1>6. Ctx(y) /\ y.c = c /\ y.n = x.n /\ y.i = x.i /\ y.acc = x.acc
  BY <1>5, SetCircuit DEF Sound
<1> HIDE DEF y
<1>7. ConAck(y) \in Frame BY <1>6, ConAckType
<1>8. Send(y, ConAck(y)).acc = y.acc BY <1>6 DEF Send, Ctx, IsRec, ContextFields
<1> QED BY <1>2, <1>5, <1>6, <1>7, <1>8, SendType

LEMMA UnknownType ==
  ASSUME NEW f \in Frame, f.op # "CONREQ"
  PROVE  Unknown(f) \in Seq(Frame)
<1>1. f.op \in {"CONACK", "DISREQ", "DISACK", "INFTRA", "INFACK"}
  BY DEF Frame, Datagram, Opcode
<1>2. CASE f.op = "DISACK"
  <2>1. f.a \in 0 .. NumCir /\ f.b \in 0 .. MaxId BY <1>2 DEF Frame
  <2>2. Header("DISREQ", f.a, f.b) \in Frame BY <2>1, HeaderType DEF Opcode
  <2>3. <<Header("DISREQ", f.a, f.b)>> \in Seq(Frame) BY <2>2
  <2> QED BY <2>3, EmptySeq DEF Unknown
<1>3. CASE f.op \in {"CONACK", "DISREQ", "INFTRA", "INFACK"}
  <2>1. f.op = "CONACK" \/ Opcode[f.op] % 4 # 0
    <3>1. Opcode["DISREQ"] = 3 /\ Opcode["INFTRA"] = 5 /\ Opcode["INFACK"] = 6
      BY DEF Opcode
    <3>2. 3 % 4 # 0 /\ 5 % 4 # 0 /\ 6 % 4 # 0 OBVIOUS
    <3> QED BY <1>3, <3>1, <3>2
  <2>2. Unknown(f) = <<>> BY <2>1 DEF Unknown
  <2> QED BY <2>2
<1> QED BY <1>1, <1>2, <1>3

-----------------------------------------------------------------------------
(* l4rest, trasrv and l4tx.                                                *)

(* A circuit whose flags differ in BUSY, answer pending and messages for   *)
(* level 7 only.                                                           *)
LEMMA BusyAlike ==
  ASSUME NEW c, Shaped(c), NEW flag \in SUBSET Flags,
         "PBUSY" \in flag => "PBUSY" \in c.l4flag
  PROVE  /\ Alike(c, [c EXCEPT !.l4flag = flag])
         /\ Alike(c, [c EXCEPT !.l4flag = flag, !.l4rs = 0])
         /\ Alike(c, [c EXCEPT !.l4flag = flag, !.numrx = 0])
<1>1. IsRec(c, CircuitFields) /\ Typed(c) BY DEF Shaped
<1> DEFINE d == [c EXCEPT !.l4flag = flag]
<1> DEFINE e == [c EXCEPT !.l4flag = flag, !.l4rs = 0]
<1> DEFINE g == [c EXCEPT !.l4flag = flag, !.numrx = 0]
<1>2. IsRec(d, CircuitFields) /\ IsRec(e, CircuitFields) /\ IsRec(g, CircuitFields)
  BY <1>1 DEF IsRec
<1>3. Typed(d) /\ Typed(e) /\ Typed(g) BY <1>1 DEF IsRec, CircuitFields, Typed
<1> QED BY <1>1, <1>2, <1>3 DEF Alike, Shaped, IsRec, CircuitFields

LEMMA TakenAlike ==
  ASSUME NEW c, Shaped(c), NEW k \in 0 .. c.numrx
  PROVE  Alike(c, Clr4rx(c, k))
<1> DEFINE d == [c EXCEPT !.numrx = c.numrx - k]
<1>1. IsRec(c, CircuitFields) /\ Typed(c) BY DEF Shaped
<1>2. IsRec(d, CircuitFields) BY <1>1 DEF IsRec
<1>3. c.numrx - k \in Nat BY <1>1 DEF Typed
<1>4. Typed(d) BY <1>1, <1>3 DEF IsRec, CircuitFields, Typed
<1>5. Alike(c, d) BY <1>1, <1>2, <1>4 DEF Alike, Shaped, IsRec, CircuitFields
<1> QED BY <1>5 DEF Clr4rx

LEMMA SetSound ==
  ASSUME NEW x, Ctx(x), NEW c, Sound(c), c.ideige = x.c.ideige
  PROVE  Result(x, [x EXCEPT !.c = c])
BY SetCircuit DEF Result, Sound

LEMMA L4restSound ==
  ASSUME NEW x, Ctx(x), Sound(x.c), NEW k \in 0 .. x.c.numrx, NEW mem,
         NEW early
  PROVE  Result(x, L4rest(x, k, mem, early))
<1> DEFINE c == Clr4rx(x.c, k)
<1> DEFINE y == [x EXCEPT !.c = c]
<1> DEFINE cb == [c EXCEPT !.l4flag = c.l4flag \cup {"BUSY"}, !.l4rs = 0]
<1> DEFINE cf == [c EXCEPT !.l4flag = c.l4flag \ {"BUSY"}]
<1> DEFINE busy == [y EXCEPT !.c = cb]
<1> DEFINE free == [y EXCEPT !.c = cf]
<1>1. Shaped(x.c) BY DEF Ctx
<1>2. Sound(c) /\ c.ideige = x.c.ideige BY <1>1, TakenAlike, AlikeSound DEF Alike
<1> HIDE DEF c
<1>3. Result(x, y) /\ y.c = c BY <1>2, SetSound, SetCircuit DEF Sound
<1>4. Sound(cb) /\ Sound(cf) /\ cb.ideige = c.ideige /\ cf.ideige = c.ideige
  <2>1. c.l4flag \in SUBSET Flags /\ Shaped(c) BY <1>2 DEF Sound, Shaped, Typed
  <2>2. c.l4flag \cup {"BUSY"} \in SUBSET Flags /\ c.l4flag \ {"BUSY"} \in SUBSET Flags
    BY <2>1 DEF Flags
  <2>3. "PBUSY" \in c.l4flag \cup {"BUSY"} => "PBUSY" \in c.l4flag OBVIOUS
  <2>4. "PBUSY" \in c.l4flag \ {"BUSY"} => "PBUSY" \in c.l4flag OBVIOUS
  <2>5. Alike(c, cb) BY <2>1, <2>2, <2>3, BusyAlike
  <2>6. Alike(c, cf) BY <2>1, <2>2, <2>4, BusyAlike
  <2> HIDE DEF cb, cf
  <2> QED BY <1>2, <2>5, <2>6, AlikeSound DEF Alike
<1>5. L4rest(x, k, mem, early) =
        IF "DIMM" \in x.c.l4flag THEN [x EXCEPT !.c = L4nsta(x.c)]
        ELSE IF x.c.st # L4SIXFER THEN x
        ELSE IF "DSLE" \in x.c.l4flag /\ x.c.mbhdtx = <<>> THEN EndCir(x)
        ELSE IF "BUSY" \in c.l4flag
          THEN IF mem = "high" /\ Room(c) THEN SndAck(free) ELSE y
        ELSE IF mem = "low" THEN SndAck(busy)
        ELSE IF c.acktim /\ early /\ RxUnack(c) >= c.window \div 2 /\ Room(c)
          THEN SndAck(y)
        ELSE y
  BY DEF L4rest, c
<1> HIDE DEF cb, cf
<1>6. Ctx(y) /\ y.n = x.n /\ y.i = x.i /\ Sound(y.c) /\ y.c.ideige = x.c.ideige /\ y.c = c
  BY <1>3 DEF Result
<1> HIDE DEF y
<1>7. Result(y, busy) /\ Result(y, free) BY <1>4, <1>6, SetSound
<1> HIDE DEF busy, free
<1>8. Result(y, SndAck(busy)) /\ Result(y, SndAck(free)) /\ Result(y, SndAck(y))
  BY <1>6, <1>7, SndAckSound DEF Result
<1>9. Result(x, SndAck(busy)) /\ Result(x, SndAck(free)) /\ Result(x, SndAck(y))
  BY <1>6, <1>8 DEF Result
<1>10. Result(x, [x EXCEPT !.c = L4nsta(x.c)]) BY <1>1, SetEnded
<1>11. Result(x, EndCir(x)) /\ Result(x, x) BY EndCirSound DEF Result
<1> QED BY <1>3, <1>5, <1>9, <1>10, <1>11

LEMMA TimeoutSound ==
  ASSUME NEW x, Ctx(x), Sound(x.c)
  PROVE  Result(x, Timeout(x))
<1> DEFINE c == [x.c EXCEPT !.traout = FALSE]
<1> DEFINE d == [c EXCEPT !.l4try = Tries(c)]
<1> DEFINE y == [x EXCEPT !.c = d]
<1>1. IsRec(x.c, CircuitFields) /\ Typed(x.c) /\ Shaped(x.c) BY DEF Sound, Shaped
<1>2. /\ Shaped(c) /\ IsRec(c, CircuitFields) /\ Typed(c) /\ c.st = x.c.st
      /\ c.l4try = x.c.l4try /\ c.l4vs = x.c.l4vs /\ c.l4rxvs = x.c.l4rxvs
      /\ c.mbhdtx = x.c.mbhdtx /\ c.window = x.c.window /\ c.ideige = x.c.ideige
  <2>1. Shaped(c) /\ c.st = x.c.st BY <1>1, TimerType
  <2> QED BY <1>1, <2>1 DEF Shaped, IsRec, CircuitFields
<1>3. Timeout(x) = IF c.st = L4SIXFER THEN [x EXCEPT !.c = Unchoked(c)]
                   ELSE IF Tries(c) >= Retry THEN [x EXCEPT !.c = L4nsta(c)]
                   ELSE IF c.st = L4SLKSUP THEN SConrq(y) ELSE SDisrq(y)
  BY DEF Timeout
<1>4. CASE x.c.st = L4SIXFER
  <2> DEFINE e == [x.c EXCEPT !.l4flag = x.c.l4flag \ {"PBUSY"}, !.traout = FALSE]
  <2>1. Unchoked(c) = e BY <1>1 DEF Unchoked, IsRec, CircuitFields
  <2>2. Sound(e) /\ e.ideige = x.c.ideige BY <1>4, UnchokedSound
  <2> HIDE DEF e
  <2> QED BY <1>2, <1>3, <1>4, <2>1, <2>2, SetSound
<1>5. CASE x.c.st # L4SIXFER /\ Tries(c) >= Retry
  <2> HIDE DEF c
  <2> QED BY <1>2, <1>3, <1>5, SetEnded
<1>6. CASE x.c.st # L4SIXFER /\ ~(Tries(c) >= Retry)
  <2> HIDE DEF c
  <2>1. Tries(c) \in 0 .. 127
    <3>1. c.l4try \in 0 .. 127 BY <1>2 DEF Typed
    <3> QED BY <1>6, <3>1, RetryAssumption DEF Tries
  <2>2. IsRec(d, CircuitFields) BY <1>2 DEF IsRec
  <2>3. Typed(d) BY <1>2, <2>1 DEF IsRec, CircuitFields, Typed
  <2> DEFINE e == [d EXCEPT !.traout = TRUE]
  <2>4. Shaped(e) BY <2>2, <2>3, TimerType DEF Shaped
  <2>5. /\ e.traout = TRUE /\ e.st = x.c.st /\ e.l4vs = x.c.l4vs /\ e.l4rxvs = x.c.l4rxvs
        /\ e.mbhdtx = x.c.mbhdtx /\ e.window = x.c.window /\ e.ideige = x.c.ideige
    BY <1>2 DEF IsRec, CircuitFields
  <2> HIDE DEF d
  <2>6. Ctx(y) /\ y.c = d /\ y.n = x.n /\ y.i = x.i BY <2>2, <2>3, SetCircuit DEF Shaped
  <2> HIDE DEF y
  <2>7. Ctx(SConrq(y)) /\ SConrq(y).c = e /\ SConrq(y).n = x.n /\ SConrq(y).i = x.i
    BY <2>6, SConrqType
  <2>8. Ctx(SDisrq(y)) /\ SDisrq(y).c = e /\ SDisrq(y).n = x.n /\ SDisrq(y).i = x.i
    BY <2>6, SDisrqType
  <2> HIDE DEF e
  <2>9. Sound(e) BY <2>4, <2>5 DEF Sound, Windowed, Timed, Fropen
  <2> QED BY <1>2, <1>3, <1>6, <2>5, <2>7, <2>8, <2>9 DEF Result
<1> QED BY <1>4, <1>5, <1>6

LEMMA RepeatSound ==
  ASSUME NEW x, Ctx(x), Sound(x.c), x.c.st = L4SIXFER, NEW j \in 1 .. Fropen(x.c)
  PROVE  Result(x, Repeat(x, j))
<1> DEFINE tries == x.c.mbhdtx[j].l4trie + 1
<1> DEFINE entry == [x.c.mbhdtx[j] EXCEPT !.l4trie = tries]
<1> DEFINE tx == [x.c.mbhdtx EXCEPT ![j] = entry]
<1> DEFINE d == [x.c EXCEPT !.mbhdtx = tx]
<1> DEFINE y == [x EXCEPT !.c = d]
<1> DEFINE seq == (x.c.l4rxvs + j - 1) % Mod
<1>1. IsRec(x.c, CircuitFields) /\ Typed(x.c) /\ Shaped(x.c) BY DEF Sound, Shaped
<1>2. [x EXCEPT !.c.mbhdtx[j].l4trie = tries] = y
  <2> HIDE DEF tries
  <2> QED BY <1>1 DEF Ctx, IsRec, CircuitFields, ContextFields
<1>3. Repeat(x, j) = IF tries >= Retry THEN [x EXCEPT !.c = L4nsta(x.c)]
                     ELSE SndFrm(y, seq, x.c.mbhdtx[j].m)
  BY <1>2 DEF Repeat
<1>4. x.c.mbhdtx \in Seq(Entry) /\ j \in 1 .. Len(x.c.mbhdtx) /\ j \in Nat
  <2>1. x.c.mbhdtx \in Seq(Entry) BY <1>1 DEF Typed
  <2>2. Fropen(x.c) <= Len(x.c.mbhdtx) BY DEF Sound, Windowed, L4SIXFER, L4SDSCED
  <2>3. Fropen(x.c) \in 0 .. Mod - 1 BY <1>1, FropenType
  <2>4. Len(x.c.mbhdtx) \in Nat BY <2>1, LenProperties
  <2> QED BY <2>1, <2>2, <2>3, <2>4, ModType
<1>5. x.c.mbhdtx[j] \in Entry BY <1>4, ElementOfSeq
<1>6. x.c.mbhdtx[j].m \in Message /\ x.c.mbhdtx[j].l4trie \in 0 .. 127 BY <1>5 DEF Entry
<1>7. seq \in Nat
  <2>1. x.c.l4rxvs + j - 1 \in Int BY <1>1, <1>4, ModType DEF Typed
  <2>2. seq \in 0 .. Mod - 1 BY <2>1, ModType, ModRange
  <2> QED BY <2>2, ModType
<1> HIDE DEF seq
<1>8. CASE tries >= Retry BY <1>1, <1>3, <1>8, SetEnded
<1>9. CASE ~(tries >= Retry)
  <2>1. tries \in 0 .. 127 BY <1>6, <1>9, RetryAssumption
  <2> HIDE DEF tries
  <2>2. entry \in Entry BY <1>5, <2>1 DEF Entry
  <2> HIDE DEF entry
  <2>3. tx \in Seq(Entry) /\ Len(tx) = Len(x.c.mbhdtx) BY <1>4, <2>2, ExceptSeq
  <2> HIDE DEF tx
  <2>4. IsRec(d, CircuitFields) BY <1>1 DEF IsRec
  <2>5. Typed(d) BY <1>1, <2>3 DEF IsRec, CircuitFields, Typed
  <2>6. Alike(x.c, d) BY <1>1, <2>3, <2>4, <2>5 DEF Alike, Shaped, IsRec, CircuitFields
  <2>7. Sound(d) /\ d.ideige = x.c.ideige BY <2>6, AlikeSound DEF Alike
  <2> HIDE DEF d
  <2>8. Ctx(y) /\ y.c = d /\ y.n = x.n /\ y.i = x.i BY <2>7, SetCircuit DEF Sound
  <2> HIDE DEF y
  <2>9. Sound(AckSent(d)) /\ AckSent(d).ideige = x.c.ideige
    BY <2>7, AckSentAlike, AlikeSound DEF Sound, Alike
  <2> DEFINE z == SndFrm(y, seq, x.c.mbhdtx[j].m)
  <2>10. Ctx(z) /\ z.c = AckSent(d) /\ z.n = x.n /\ z.i = x.i
    BY <1>6, <1>7, <2>8, SndFrmType
  <2>11. Repeat(x, j) = z BY <1>3, <1>9 DEF tries
  <2> HIDE DEF z
  <2> QED BY <2>9, <2>10, <2>11 DEF Result
<1> QED BY <1>8, <1>9

LEMMA AckDueSound ==
  ASSUME NEW x, Ctx(x), Sound(x.c)
  PROVE  Result(x, AckDue(x))
<1> DEFINE slow == x.c.numrx > x.c.window \div 2 /\ RxUnack(x.c) >= x.c.window
<1> DEFINE d == [x.c EXCEPT !.l4flag = x.c.l4flag \cup {"BUSY"}, !.l4rs = 0]
<1> DEFINE y == [x EXCEPT !.c = d]
<1>1. AckDue(x) = SndAck(IF slow THEN y ELSE x) BY DEF AckDue
<1> HIDE DEF slow
<1>2. Sound(d) /\ d.ideige = x.c.ideige
  <2>1. Shaped(x.c) /\ x.c.l4flag \in SUBSET Flags BY DEF Sound, Shaped, Typed
  <2>2. x.c.l4flag \cup {"BUSY"} \in SUBSET Flags BY <2>1 DEF Flags
  <2>3. "PBUSY" \in x.c.l4flag \cup {"BUSY"} => "PBUSY" \in x.c.l4flag OBVIOUS
  <2>4. Alike(x.c, d) BY <2>1, <2>2, <2>3, BusyAlike
  <2> QED BY <2>4, AlikeSound DEF Alike
<1> HIDE DEF d
<1>3. Result(x, y) BY <1>2, SetSound
<1> HIDE DEF y
<1>4. Result(y, SndAck(y)) /\ Result(x, SndAck(x)) BY <1>3, SndAckSound DEF Result
<1> QED BY <1>1, <1>3, <1>4 DEF Result

LEMMA NoActivitySound ==
  ASSUME NEW x, Ctx(x)
  PROVE  Result(x, NoActivity(x))
<1> DEFINE vs == (x.c.l4vs + 1) % Mod
<1> DEFINE d == [x.c EXCEPT !.l4vs = vs]
<1> DEFINE y == [x EXCEPT !.c = d]
<1> DEFINE z == SndFrm(y, x.c.l4vs, Notice(x.c.ideige))
<1>1. IsRec(x, ContextFields) /\ IsRec(x.c, CircuitFields) /\ Typed(x.c)
  BY DEF Ctx, Shaped
<1>2. NoActivity(x) = EndCir(z)
  <2>1. [x EXCEPT !.c.l4vs = (@ + 1) % Mod] = y BY <1>1 DEF IsRec, ContextFields, CircuitFields
  <2> QED BY <2>1 DEF NoActivity
<1>3. vs \in 0 .. Mod - 1 /\ x.c.l4vs \in Nat
  <2>1. x.c.l4vs \in Nat BY <1>1, ModType DEF Typed
  <2>2. x.c.l4vs + 1 \in Int BY <2>1
  <2> QED BY <2>1, <2>2, ModType, ModRange
<1>4. Notice(x.c.ideige) \in Message BY <1>1 DEF Notice, Message, Typed
<1> HIDE DEF vs
<1>5. Shaped(d) /\ d.ideige = x.c.ideige
  <2>1. IsRec(d, CircuitFields) /\ d.ideige = x.c.ideige BY <1>1 DEF IsRec, CircuitFields
  <2>2. Typed(d) BY <1>1, <1>3 DEF IsRec, CircuitFields, Typed
  <2> QED BY <2>1, <2>2 DEF Shaped
<1> HIDE DEF d
<1>6. Ctx(y) /\ y.n = x.n /\ y.i = x.i /\ y.c.ideige = x.c.ideige /\ Shaped(y.c)
  BY <1>5, SetCircuit
<1> HIDE DEF y
<1>7. Ctx(z) /\ z.n = x.n /\ z.i = x.i /\ z.c.ideige = x.c.ideige
  <2>1. AckSent(y.c).ideige = y.c.ideige BY <1>6, AckSentAlike DEF Alike
  <2> QED BY <1>3, <1>4, <1>6, <2>1, SndFrmType
<1> HIDE DEF z
<1> QED BY <1>2, <1>7, EndCirSound DEF Result

LEMMA TrasrvSound ==
  ASSUME NEW x, Ctx(x), Sound(x.c), NEW t,
         x.c.st = L4SIXFER /\ t.open # 0 => t.open \in 1 .. Fropen(x.c)
  PROVE  Result(x, Trasrv(x, t))
<1> DEFINE up == x.c.st = L4SIXFER
<1> DEFINE afterT == IF "traout" \in t.due /\ x.c.traout THEN Timeout(x)
                     ELSE IF up /\ ~x.c.traout /\ t.open # 0 THEN Repeat(x, t.open)
                     ELSE x
<1> DEFINE afterA == IF up /\ "acktim" \in t.due /\ afterT.c.acktim THEN AckDue(afterT)
                     ELSE afterT
<1>1. Trasrv(x, t) = IF up /\ "tranoa" \in t.due THEN NoActivity(afterA) ELSE afterA
  BY DEF Trasrv
<1>2. Result(x, Timeout(x)) /\ Result(x, x) BY TimeoutSound DEF Result
<1>3. up /\ t.open # 0 => Result(x, Repeat(x, t.open)) BY RepeatSound
<1>4. Result(x, afterT) BY <1>2, <1>3
<1> HIDE DEF afterT
<1>5. Result(afterT, AckDue(afterT)) BY <1>4, AckDueSound DEF Result
<1>6. Result(x, afterA) BY <1>4, <1>5 DEF Result
<1> HIDE DEF afterA
<1>7. Result(afterA, NoActivity(afterA)) BY <1>6, NoActivitySound DEF Result
<1> QED BY <1>1, <1>6, <1>7 DEF Result

(* A function on the first n numbers is a sequence of n elements.          *)
LEMMA FunctionSeq ==
  ASSUME NEW n \in Nat, NEW S, NEW s \in [1 .. n -> S]
  PROVE  s \in Seq(S) /\ Len(s) = n
<1>1. s \in Seq(S) BY SeqDef
<1>2. Len(s) \in Nat /\ 1 .. Len(s) = 1 .. n BY <1>1, LenProperties
<1>3. ~ (Len(s) < n)
  <2>1. Len(s) < n => n \in 1 .. n /\ n \notin 1 .. Len(s) BY <1>2
  <2> QED BY <1>2, <2>1
<1>4. ~ (n < Len(s))
  <2>1. n < Len(s) => Len(s) \in 1 .. Len(s) /\ Len(s) \notin 1 .. n BY <1>2
  <2> QED BY <1>2, <2>1
<1> QED BY <1>1, <1>2, <1>3, <1>4

LEMMA L4txSound ==
  ASSUME NEW x, Ctx(x), Sound(x.c), x.c.st # L4SDSCED
  PROVE  Result(x, L4tx(x)) /\ L4tx(x).acc = x.acc
<1> DEFINE c == x.c
<1> DEFINE open == Fropen(c)
<1> DEFINE n == CanSend(c)
<1> DEFINE frame(j) ==
      [WithAck(IF j = 1 THEN c ELSE AckSent(c), ToPartner(c, "INFTRA"))
         EXCEPT !.a = (c.l4vs + j - 1) % Mod, !.m = c.mbhdtx[open + j].m]
<1> DEFINE out == [j \in 1 .. n |-> frame(j)]
<1> DEFINE new(j) == j \in open + 1 .. open + n
<1> DEFINE entry(j) == [c.mbhdtx[j] EXCEPT !.l4trie = IF new(j) THEN 0 ELSE c.mbhdtx[j].l4trie]
<1> DEFINE tx == [j \in 1 .. Len(c.mbhdtx) |-> entry(j)]
<1> DEFINE vs == (c.l4vs + n) % Mod
<1> DEFINE d == [AckSent(c) EXCEPT !.l4vs = vs, !.mbhdtx = tx]
<1>1. IsRec(c, CircuitFields) /\ Typed(c) /\ Shaped(c) /\ IsRec(x, ContextFields)
  BY DEF Sound, Shaped, Ctx
<1>2. L4tx(x) = IF n = 0 THEN x ELSE [x EXCEPT !.out = out, !.c = d]
  <2>1. AckSent(c).l4vs = c.l4vs BY <1>1 DEF AckSent, IsRec, CircuitFields
  <2>2. tx = [j \in 1 .. Len(c.mbhdtx) |->
                [c.mbhdtx[j] EXCEPT !.l4trie = IF new(j) THEN 0 ELSE @]]
    OBVIOUS
  <2> QED BY <2>1, <2>2 DEF L4tx
<1>3. /\ c.mbhdtx \in Seq(Entry) /\ Len(c.mbhdtx) \in Nat /\ c.window \in 1 .. Mod - 1
      /\ c.window \in Nat /\ open \in Nat /\ open \in 0 .. Mod - 1
      /\ open <= Len(c.mbhdtx) /\ open <= c.window
  <2>1. c.mbhdtx \in Seq(Entry) /\ c.window \in 1 .. Mod - 1 BY <1>1 DEF Typed
  <2>2. open \in 0 .. Mod - 1 BY <1>1, FropenType
  <2> QED BY <2>1, <2>2, LenProperties, ModType DEF Sound, Windowed
<1>4. /\ n \in Nat
      /\ open + n <= Len(c.mbhdtx) /\ open + n <= c.window
      /\ n # 0 => c.st = L4SIXFER /\ "PBUSY" \notin c.l4flag
  <2> DEFINE k == Least(Len(c.mbhdtx), c.window) - open
  <2>1. k \in Int /\ open + k <= Len(c.mbhdtx) /\ open + k <= c.window
    BY <1>3 DEF Least
  <2>2. n = IF c.st # L4SIXFER \/ "PBUSY" \in c.l4flag \/ k < 0 THEN 0 ELSE k BY DEF CanSend
  <2> HIDE DEF k, n, open
  <2> QED BY <1>3, <2>1, <2>2
<1> HIDE DEF n
<1>5. CASE n = 0 BY <1>2, <1>5 DEF Result
<1>6. CASE n # 0
  <2>1. ASSUME NEW j \in 1 .. n PROVE frame(j) \in Frame
    <3>1. Shaped(IF j = 1 THEN c ELSE AckSent(c)) BY <1>1, AckSentAlike DEF Alike
    <3>2. (c.l4vs + j - 1) % Mod \in Nat
      <4>0. c.l4vs \in Int /\ j \in Int BY <1>1, <1>4, ModType DEF Typed
      <4> HIDE DEF c
      <4>1. c.l4vs + j - 1 \in Int BY <4>0
      <4>2. (c.l4vs + j - 1) % Mod \in 0 .. Mod - 1 BY <4>1, ModType, ModRange
      <4> QED BY <4>2, ModType
    <3>3. open + j \in 1 .. Len(c.mbhdtx) BY <1>3, <1>4
    <3> HIDE DEF open
    <3>4. c.mbhdtx[open + j] \in Entry BY <1>3, <3>3, ElementOfSeq
    <3>5. c.mbhdtx[open + j].m \in Message BY <3>4 DEF Entry
    <3> QED BY <1>1, <3>1, <3>2, <3>5, WithAckType
  <2>2. out \in Seq(Frame)
    <3> HIDE DEF frame
    <3>1. out \in [1 .. n -> Frame] BY <2>1
    <3> QED BY <1>4, <3>1, FunctionSeq
  <2> HIDE DEF out
  <2>3. tx \in Seq(Entry) /\ Len(tx) = Len(c.mbhdtx)
    <3>1. ASSUME NEW j \in 1 .. Len(c.mbhdtx) PROVE entry(j) \in Entry
      <4>1. c.mbhdtx[j] \in Entry BY <1>3, ElementOfSeq
      <4> DEFINE g == c.mbhdtx[j]
      <4> DEFINE tries == IF new(j) THEN 0 ELSE g.l4trie
      <4>2. g \in Entry /\ entry(j) = [g EXCEPT !.l4trie = tries] BY <4>1
      <4> HIDE DEF g, entry, new
      <4>3. tries \in 0 .. 127 BY <4>2 DEF Entry
      <4> HIDE DEF tries
      <4> QED BY <4>2, <4>3 DEF Entry
    <3> HIDE DEF entry
    <3>2. tx \in [1 .. Len(c.mbhdtx) -> Entry] BY <3>1
    <3> HIDE DEF tx
    <3> QED BY <1>3, <3>2, FunctionSeq
  <2> HIDE DEF tx
  <2>4. vs \in 0 .. Mod - 1
    <3>1. c.l4vs + n \in Int BY <1>1, <1>4, ModType DEF Typed
    <3> QED BY <3>1, ModType, ModRange
  <2> DEFINE ack == AckSent(c)
  <2>5. /\ IsRec(ack, CircuitFields) /\ Typed(ack) /\ ack.l4rxvs = c.l4rxvs
        /\ ack.window = c.window /\ ack.l4flag = c.l4flag /\ ack.st = c.st
        /\ ack.ideige = c.ideige
    <3>1. Alike(c, ack) BY <1>1, AckSentAlike
    <3>2. ack.l4flag = c.l4flag BY <1>1 DEF AckSent, IsRec, CircuitFields
    <3> QED BY <3>1, <3>2 DEF Alike, Shaped
  <2>6. (((c.l4vs + n) % Mod) - c.l4rxvs) % Mod = open + n
    <3>1. c.l4vs \in 0 .. Mod - 1 /\ c.l4rxvs \in 0 .. Mod - 1 BY <1>1 DEF Typed
    <3>2. ((c.l4vs - c.l4rxvs) % Mod) + n < Mod BY <1>3, <1>4, ModType DEF Fropen
    <3>3. (((c.l4vs + n) % Mod) - c.l4rxvs) % Mod = ((c.l4vs - c.l4rxvs) % Mod) + n
      BY <1>4, <3>1, <3>2, ModType, Distance
    <3> QED BY <3>3 DEF Fropen
  <2> DEFINE e == [ack EXCEPT !.l4vs = vs, !.mbhdtx = tx]
  <2>7. d = e OBVIOUS
  <2> HIDE DEF d, ack
  <2>8. IsRec(e, CircuitFields) BY <2>5 DEF IsRec
  <2> HIDE DEF vs
  <2>9. Typed(e) BY <2>3, <2>4, <2>5 DEF IsRec, CircuitFields, Typed
  <2>10. /\ e.l4vs = vs /\ e.mbhdtx = tx /\ e.l4rxvs = c.l4rxvs /\ e.window = c.window
         /\ e.l4flag = c.l4flag /\ e.st = c.st /\ e.ideige = c.ideige
    BY <2>5 DEF IsRec, CircuitFields
  <2> HIDE DEF e
  <2>11. Fropen(e) = open + n BY <2>6, <2>10 DEF Fropen, vs
  <2> HIDE DEF open, c
  <2>12. Windowed(e) BY <1>4, <2>3, <2>10, <2>11 DEF Windowed
  <2>13. Timed(e) BY <1>4, <1>6, <2>10 DEF Timed, L4SIXFER, L4SLKSUP, L4SDSCRQ
  <2>14. Sound(e) BY <2>8, <2>9, <2>12, <2>13 DEF Sound, Shaped
  <2> DEFINE y == [x EXCEPT !.out = out, !.c = e]
  <2>15. L4tx(x) = y BY <1>2, <1>6, <2>7
  <2>16. Ctx(y) /\ y.c = e /\ y.n = x.n /\ y.i = x.i /\ y.acc = x.acc
    BY <1>1, <2>2, <2>14 DEF Ctx, IsRec, ContextFields, Sound
  <2> HIDE DEF y
  <2> QED BY <2>10, <2>14, <2>15, <2>16 DEF Result, c
<1> QED BY <1>5, <1>6

-----------------------------------------------------------------------------
(* The inductive invariant.                                                *)

(* A circuit in use has a number.                                          *)
Named(c) == c.st # L4SDSCED => c.ideige # 0

Good == {c \in Circuit : Sound(c) /\ Named(c)}

Circuits == cir \in [Node -> [Index -> Good]]
Nets == net \in [Node -> Seq(Frame)]
Histories == got \in [Id -> Seq(Message)]

Inv == Circuits /\ Nets /\ Histories /\ used \in Used

LEMMA GoodCircuit ==
  ASSUME NEW c, Sound(c), Named(c)
  PROVE  c \in Good
BY ShapedCircuit DEF Good, Sound

LEMMA InvImplies == Inv => TypeOK /\ WindowInList /\ WaitTimed
<1> SUFFICES ASSUME Inv PROVE TypeOK /\ WindowInList /\ WaitTimed OBVIOUS
<1>1. \A n \in Node, i \in Index : cir[n][i] \in Good BY DEF Inv, Circuits
<1>2. WindowInList BY <1>1 DEF WindowInList, Good, Sound, Windowed
<1>3. WaitTimed BY <1>1 DEF WaitTimed, Good, Sound, Timed
<1>4. cir \in [Node -> [Index -> Circuit]]
  <2>1. Good \subseteq Circuit BY DEF Good
  <2> QED BY <2>1 DEF Inv, Circuits
<1>5. net \in [Node -> Seq(Datagram)]
  <2>1. Frame \subseteq Datagram BY DEF Frame
  <2>2. \A n \in Node : net[n] \in Seq(Datagram) BY <2>1, SeqMonotonic DEF Inv, Nets
  <2> QED BY <2>2 DEF Inv, Nets
<1> QED BY <1>2, <1>3, <1>4, <1>5 DEF TypeOK, Inv, Histories

LEMMA InitInv == Init => Inv
<1> SUFFICES ASSUME Init PROVE Inv OBVIOUS
<1>1. Named(Blank) BY DEF Named, Blank
<1>2. Blank \in Good BY <1>1, BlankSound, GoodCircuit
<1>3. Circuits BY <1>2 DEF Init, Circuits
<1>4. Nets /\ Histories BY EmptySeq DEF Init, Nets, Histories
<1>5. used \in Used BY BoundTypes DEF Init, Used
<1> QED BY <1>3, <1>4, <1>5 DEF Inv

LEMMA BecameKeeps ==
  ASSUME Inv, NEW x, Ctx(x), Sound(x.c), Named(x.c), NEW rest \in Seq(Frame),
         Became(x, rest)
  PROVE  Circuits' /\ Nets' /\ Histories'
<1>1. x.n \in Node /\ x.i \in Index /\ x.out \in Seq(Frame) /\ x.acc \in Seq(Message)
  BY DEF Ctx
<1>2. x.c \in Good BY GoodCircuit
<1>3. Circuits'
  <2>1. cir' = [cir EXCEPT ![x.n][x.i] = x.c] BY DEF Became
  <2> QED BY <1>1, <1>2, <2>1 DEF Inv, Circuits
<1>4. Nets'
  <2>1. net' = [net EXCEPT ![x.n] = rest, ![Peer(x.n)] = @ \o x.out] BY DEF Became
  <2>2. rest \o x.out \in Seq(Frame) BY <1>1, ConcatProperties
  <2>3. \A n \in Node : net[n] \in Seq(Frame) /\ net[n] \o x.out \in Seq(Frame)
    BY <1>1, ConcatProperties DEF Inv, Nets
  <2> QED BY <1>1, <2>1, <2>2, <2>3 DEF Inv, Nets
<1>5. Histories'
  <2>1. got' = IF x.acc = <<>> THEN got
               ELSE [got EXCEPT ![x.c.ideige] = got[x.c.ideige] \o x.acc]
    BY DEF Became
  <2>2. \A s \in Id : got[s] \o x.acc \in Seq(Message)
    BY <1>1, ConcatProperties DEF Inv, Histories
  <2> QED BY <2>1, <2>2 DEF Inv, Histories
<1> QED BY <1>3, <1>4, <1>5

LEMMA DoneKeeps ==
  ASSUME Inv, NEW x, Ctx(x), Sound(x.c), Named(x.c), Done(x)
  PROVE  Circuits' /\ Nets' /\ Histories'
<1>1. net[x.n] \in Seq(Frame) BY DEF Inv, Nets, Ctx
<1> QED BY <1>1, BecameKeeps DEF Done

LEMMA ContextType ==
  ASSUME Inv, NEW n \in Node, NEW i \in Index
  PROVE  LET x == Context(n, i)
         IN  /\ Ctx(x) /\ Sound(x.c) /\ Named(x.c) /\ Shaped(x.c)
             /\ x.c = cir[n][i] /\ x.n = n /\ x.i = i /\ x.acc = <<>>
<1>1. cir[n][i] \in Good BY DEF Inv, Circuits
<1>2. Sound(cir[n][i]) /\ Named(cir[n][i]) /\ Shaped(cir[n][i]) BY <1>1 DEF Good, Sound
<1> QED BY <1>2, EmptySeq DEF Context, Ctx, IsRec, ContextFields

(* A handler keeps the number of the circuit.                              *)
LEMMA ResultKeeps ==
  ASSUME Inv, NEW n \in Node, NEW i \in Index, cir[n][i].st # L4SDSCED,
         NEW y, Result(Context(n, i), y), Done(y)
  PROVE  Circuits' /\ Nets' /\ Histories'
<1>1. cir[n][i].ideige # 0 BY ContextType DEF Named
<1>2. y.c.ideige # 0 BY <1>1, ContextType DEF Result
<1>3. Named(y.c) BY <1>2 DEF Named
<1> QED BY <1>3, DoneKeeps DEF Result

LEMMA UseKeeps ==
  ASSUME used \in Used,
         NEW what \in {"connect", "disconnect", "loss", "dup", "swap", "restart",
                       "low", "idle"},
         Use(what)
  PROVE  used' \in Used
BY DEF Use, Used

LEMMA UseId ==
  ASSUME used \in Used, used.id < MaxId
  PROVE  /\ [used EXCEPT !.id = @ + 1] \in Used
         /\ [used EXCEPT !.connect = @ + 1, !.id = @ + 1] \in Used
         /\ used.id + 1 \in 0 .. MaxId /\ used.id + 1 # 0
<1>1. used.id \in 0 .. MaxId BY DEF Used
<1>2. used.id + 1 \in 0 .. MaxId /\ used.id + 1 # 0 BY <1>1, BoundTypes
<1>3. [used EXCEPT !.id = @ + 1] \in Used BY <1>2 DEF Used
<1>4. used.connect + 1 \in Nat BY DEF Used
<1>5. [used EXCEPT !.connect = used.connect + 1, !.id = used.id + 1] \in Used
  BY <1>2, <1>4 DEF Used
<1> QED BY <1>2, <1>3, <1>5

-----------------------------------------------------------------------------
(* The actions.                                                            *)

LEMMA FirstFreeType ==
  ASSUME NEW n, Free(n) # {}
  PROVE  FirstFree(n) \in Index
<1>1. Free(n) \subseteq Nat BY DEF Free, Index
<1>2. \E i \in Free(n) : \A j \in Free(n) : i <= j BY <1>1, MinExists
<1>3. FirstFree(n) \in Free(n) BY <1>2 DEF FirstFree
<1> QED BY <1>3 DEF Free

LEMMA ConnectKeeps == ASSUME Inv, NEW n \in Node, Connect(n) PROVE Inv'
<1> DEFINE i == FirstFree(n)
<1> DEFINE c0 == ClrCir(cir[n][i])
<1> DEFINE d == [c0 EXCEPT !.ideige = used.id + 1, !.st = L4SLKSUP]
<1> DEFINE x == [Context(n, i) EXCEPT !.c = d]
<1> DEFINE e == [d EXCEPT !.traout = TRUE]
<1>1. Free(n) # {} /\ used.id < MaxId /\ Done(SConrq(x))
      /\ used' = [used EXCEPT !.connect = @ + 1, !.id = @ + 1]
  BY DEF Connect
<1>2. i \in Index BY <1>1, FirstFreeType
<1> HIDE DEF i
<1>3. used.id + 1 \in 0 .. MaxId /\ used.id + 1 # 0 /\ used' \in Used
  BY <1>1, UseId DEF Inv
<1>4. Ctx(Context(n, i)) /\ Shaped(cir[n][i]) BY <1>2, ContextType
<1>5. IsRec(c0, CircuitFields) /\ Typed(c0) /\ Fropen(c0) = 0
  BY <1>4, ClrCirShaped DEF Shaped
<1> HIDE DEF c0
<1>6. IsRec(d, CircuitFields) BY <1>5 DEF IsRec
<1>7. Typed(d) BY <1>3, <1>5 DEF IsRec, CircuitFields, Typed, States
<1>8. d.l4vs = c0.l4vs /\ d.l4rxvs = c0.l4rxvs /\ d.ideige = used.id + 1
  BY <1>5 DEF IsRec, CircuitFields
<1> HIDE DEF d
<1>9. Ctx(x) /\ x.c = d BY <1>4, <1>6, <1>7, SetCircuit DEF Shaped
<1> HIDE DEF x
<1>10. Ctx(SConrq(x)) /\ SConrq(x).c = e BY <1>9, SConrqType
<1>11. /\ Shaped(e) /\ e.traout = TRUE /\ e.l4vs = d.l4vs /\ e.l4rxvs = d.l4rxvs
       /\ e.ideige = d.ideige
  BY <1>6, <1>7, TimerType DEF Shaped
<1> HIDE DEF e
<1>12. Fropen(e) = 0 BY <1>5, <1>8, <1>11 DEF Fropen
<1>13. Windowed(e)
  <2>1. e.mbhdtx \in Seq(Entry) /\ e.window \in 1 .. Mod - 1 BY <1>11 DEF Shaped, Typed
  <2>2. Len(e.mbhdtx) \in Nat /\ e.window \in Nat BY <2>1, LenProperties, ModType
  <2> QED BY <1>12, <2>2 DEF Windowed
<1>14. Sound(e) /\ Named(e) BY <1>3, <1>8, <1>11, <1>13 DEF Sound, Timed, Named
<1> QED BY <1>1, <1>3, <1>10, <1>14, DoneKeeps DEF Inv

LEMMA DisconnectKeeps ==
  ASSUME Inv, NEW n \in Node, NEW i \in Index, Disconnect(n, i)
  PROVE  Inv'
<1> DEFINE x == Context(n, i)
<1> DEFINE dsle == [x.c EXCEPT !.l4flag = x.c.l4flag \cup {"DSLE"}, !.numrx = 0]
<1> DEFINE dimm == [x.c EXCEPT !.l4flag = x.c.l4flag \cup {"DIMM"}]
<1> DEFINE p == [x EXCEPT !.c = dsle]
<1> DEFINE q == [x EXCEPT !.c = dimm]
<1> DEFINE f == [ConAck(x) EXCEPT !.choke = TRUE]
<1>1. Ctx(x) /\ Sound(x.c) /\ Shaped(x.c) /\ x.c = cir[n][i] BY ContextType
<1>2. /\ cir[n][i].st # L4SDSCED
      /\ Done(IF x.c.st = L4SIXFER THEN p ELSE Send(q, f))
      /\ Use("disconnect")
  <2>1. [[x EXCEPT !.c.l4flag = @ \cup {"DSLE"}] EXCEPT !.c.numrx = 0] = p
    BY <1>1 DEF Ctx, Shaped, IsRec, ContextFields, CircuitFields
  <2>2. [x EXCEPT !.c.l4flag = @ \cup {"DIMM"}] = q
    BY <1>1 DEF Ctx, Shaped, IsRec, ContextFields, CircuitFields
  <2> QED BY <2>1, <2>2 DEF Disconnect
<1> HIDE DEF x
<1>3. x.c.l4flag \in SUBSET Flags BY <1>1 DEF Shaped, Typed
<1>4. Alike(x.c, dsle)
  <2>1. x.c.l4flag \cup {"DSLE"} \in SUBSET Flags BY <1>3 DEF Flags
  <2>2. "PBUSY" \in x.c.l4flag \cup {"DSLE"} => "PBUSY" \in x.c.l4flag OBVIOUS
  <2> QED BY <1>1, <2>1, <2>2, BusyAlike
<1>5. Alike(x.c, dimm)
  <2>1. x.c.l4flag \cup {"DIMM"} \in SUBSET Flags BY <1>3 DEF Flags
  <2>2. "PBUSY" \in x.c.l4flag \cup {"DIMM"} => "PBUSY" \in x.c.l4flag OBVIOUS
  <2> QED BY <1>1, <2>1, <2>2, BusyAlike
<1> HIDE DEF dsle, dimm
<1>6. Result(x, p)
  <2>1. Sound(dsle) /\ dsle.ideige = x.c.ideige BY <1>1, <1>4, AlikeSound DEF Alike
  <2> QED BY <1>1, <2>1, SetSound
<1>7. Result(x, q)
  <2>1. Sound(dimm) /\ dimm.ideige = x.c.ideige BY <1>1, <1>5, AlikeSound DEF Alike
  <2> QED BY <1>1, <2>1, SetSound
<1>8. f \in Frame BY <1>1, ConAckType
<1> HIDE DEF p, q, f
<1>9. Result(x, Send(q, f)) BY <1>7, <1>8, SendType DEF Result
<1>10. Circuits' /\ Nets' /\ Histories' BY <1>2, <1>6, <1>9, ResultKeeps DEF x
<1>11. used' \in Used BY <1>2, UseKeeps DEF Inv
<1> QED BY <1>10, <1>11 DEF Inv

LEMMA QueueKeeps ==
  ASSUME Inv, NEW n \in Node, NEW i \in Index, Queue(n, i)
  PROVE  Inv'
<1> DEFINE x == Context(n, i)
<1> DEFINE e == [m |-> [from |-> x.c.ideige, no |-> used.msg[x.c.ideige] + 1], l4trie |-> 0]
<1> DEFINE tx == Append(x.c.mbhdtx, e)
<1> DEFINE flag == IF Len(tx) >= TxCut THEN x.c.l4flag \cup {"DIMM"} ELSE x.c.l4flag
<1> DEFINE d == [x.c EXCEPT !.mbhdtx = tx, !.l4flag = flag]
<1> DEFINE y == [x EXCEPT !.c = d]
<1>1. Ctx(x) /\ Sound(x.c) /\ Shaped(x.c) /\ Named(x.c) /\ x.c = cir[n][i] BY ContextType
<1>2. IsRec(x.c, CircuitFields) /\ Typed(x.c) BY <1>1 DEF Shaped
<1>3. /\ x.c.st # L4SDSCED /\ Done(y)
      /\ used' = [used EXCEPT !.msg[x.c.ideige] = @ + 1]
  BY <1>1 DEF Queue
<1> HIDE DEF x
<1>4. x.c.ideige \in Id BY <1>1, <1>2, <1>3, BoundTypes DEF Named, Typed, Id
<1>5. used.msg \in [Id -> Nat] BY DEF Inv, Used
<1>6. e \in Entry
  <2>1. used.msg[x.c.ideige] + 1 \in Nat /\ x.c.ideige \in 0 .. MaxId
    BY <1>2, <1>4, <1>5 DEF Typed
  <2> QED BY <2>1 DEF Entry, Message
<1> HIDE DEF e
<1>7. /\ x.c.mbhdtx \in Seq(Entry) /\ Len(x.c.mbhdtx) \in Nat
      /\ tx \in Seq(Entry) /\ Len(tx) = Len(x.c.mbhdtx) + 1
  <2>1. x.c.mbhdtx \in Seq(Entry) BY <1>2 DEF Typed
  <2> QED BY <1>6, <2>1, AppendProperties, LenProperties
<1> HIDE DEF tx
<1>8. flag \in SUBSET Flags /\ ("PBUSY" \in flag => "PBUSY" \in x.c.l4flag)
  BY <1>2 DEF Typed, Flags
<1> HIDE DEF flag
<1>9. IsRec(d, CircuitFields) BY <1>2 DEF IsRec
<1>10. Typed(d) BY <1>2, <1>7, <1>8 DEF IsRec, CircuitFields, Typed
<1>11. /\ d.st = x.c.st /\ d.ideige = x.c.ideige /\ d.l4vs = x.c.l4vs
       /\ d.l4rxvs = x.c.l4rxvs /\ d.mbhdtx = tx /\ d.window = x.c.window
       /\ d.traout = x.c.traout /\ d.l4flag = flag
  BY <1>2 DEF IsRec, CircuitFields
<1> HIDE DEF d
<1>12. Fropen(d) = Fropen(x.c) /\ Fropen(x.c) \in Nat
  <2>1. Fropen(x.c) \in 0 .. Mod - 1 BY <1>1, FropenType
  <2> QED BY <1>11, <2>1, ModType DEF Fropen
<1>13. Windowed(d) BY <1>1, <1>7, <1>11, <1>12 DEF Windowed, Sound
<1>14. Timed(d) BY <1>1, <1>8, <1>11 DEF Timed, Sound
<1>15. Result(x, y) BY <1>1, <1>9, <1>10, <1>11, <1>13, <1>14, SetSound DEF Sound, Shaped
<1> HIDE DEF y
<1>16. Circuits' /\ Nets' /\ Histories' BY <1>1, <1>3, <1>15, ResultKeeps DEF x
<1>17. used' \in Used
  <2>1. [used.msg EXCEPT ![x.c.ideige] = used.msg[x.c.ideige] + 1] \in [Id -> Nat]
    BY <1>4, <1>5
  <2>2. used' = [used EXCEPT !.msg = [used.msg EXCEPT ![x.c.ideige] = used.msg[x.c.ideige] + 1]]
    BY <1>3 DEF Inv, Used
  <2> QED BY <2>1, <2>2 DEF Inv, Used
<1> QED BY <1>16, <1>17 DEF Inv

LEMMA L4rxSound ==
  ASSUME Inv, NEW n \in Node, NEW f \in Frame, New(n, f) => used.id < MaxId
  PROVE  LET y == L4rx(n, f)
         IN  Ctx(y) /\ Sound(y.c) /\ Named(y.c) /\ y.n = n
<1> DEFINE none == Context(n, 1)
<1>1. 1 \in Index BY TableAssumption DEF Index
<1>2. Ctx(none) /\ Sound(none.c) /\ Named(none.c) /\ none.n = n BY <1>1, ContextType
<1>3. CASE New(n, f)
  <2>1. f.op = "CONREQ" /\ Free(n) # {} BY <1>3 DEF New
  <2>2. FirstFree(n) \in Index BY <2>1, FirstFreeType
  <2>3. used.id + 1 \in 0 .. MaxId /\ used.id + 1 # 0 BY <1>3, UseId DEF Inv
  <2> DEFINE x == Context(n, FirstFree(n))
  <2> DEFINE y == RxConreq(x, f, used.id + 1)
  <2>4. Ctx(x) /\ x.n = n BY <2>2, ContextType
  <2> HIDE DEF x
  <2>5. Ctx(y) /\ Sound(y.c) /\ y.n = n /\ y.c.ideige # 0
    BY <2>1, <2>3, <2>4, RxConreqSound
  <2>6. L4rx(n, f) = y BY <1>3 DEF L4rx, x
  <2> HIDE DEF y
  <2> QED BY <2>5, <2>6 DEF Named
<1>4. CASE ~New(n, f) /\ f.op = "CONREQ"
  <2>1. Busy(f) \in Frame
    <3>1. f.idx \in 0 .. NumCir /\ f.id \in 0 .. MaxId BY DEF Frame, Datagram
    <3> QED BY <3>1, HeaderType DEF Busy, Opcode
  <2>2. L4rx(n, f) = none \/ L4rx(n, f) = Send(none, Busy(f)) BY <1>4 DEF L4rx
  <2> HIDE DEF none
  <2> QED BY <1>2, <2>1, <2>2, SendType
<1>5. CASE ~New(n, f) /\ f.op # "CONREQ" /\ Known(n, f) = {}
  <2> DEFINE y == [none EXCEPT !.out = Unknown(f)]
  <2>1. L4rx(n, f) = y BY <1>5 DEF L4rx
  <2>2. Unknown(f) \in Seq(Frame) BY <1>5, UnknownType
  <2> HIDE DEF none
  <2>3. Ctx(y) /\ y.c = none.c /\ y.n = n BY <1>2, <2>2 DEF Ctx, IsRec, ContextFields
  <2> HIDE DEF y
  <2> QED BY <1>2, <2>1, <2>3
<1>6. CASE ~New(n, f) /\ f.op # "CONREQ" /\ Known(n, f) # {}
  <2> DEFINE x == Context(n, f.idx)
  <2>1. f.idx \in Index /\ cir[n][f.idx].st # L4SDSCED BY <1>6 DEF Known
  <2>2. Ctx(x) /\ Sound(x.c) /\ Named(x.c) /\ x.c = cir[n][f.idx] /\ x.n = n
    BY <2>1, ContextType
  <2>3. L4rx(n, f) = RxKnown(x, f) BY <1>6 DEF L4rx
  <2> HIDE DEF x
  <2>4. Result(x, RxKnown(x, f)) BY <1>6, <2>2, RxKnownSound
  <2> QED BY <2>1, <2>2, <2>3, <2>4 DEF Result, Named
<1> QED BY <1>3, <1>4, <1>5, <1>6

LEMMA HeadTailType ==
  ASSUME Inv, NEW n \in Node, net[n] # <<>>
  PROVE  Head(net[n]) \in Frame /\ Tail(net[n]) \in Seq(Frame)
<1>1. net[n] \in Seq(Frame) BY DEF Inv, Nets
<1> QED BY <1>1, HeadTailProperties

LEMMA ReceiveKeeps == ASSUME Inv, NEW n \in Node, Receive(n) PROVE Inv'
<1> DEFINE f == Head(net[n])
<1> DEFINE y == L4rx(n, f)
<1>1. /\ net[n] # <<>> /\ (New(n, f) => used.id < MaxId)
      /\ Became(y, Tail(net[n]))
      /\ IF New(n, f) THEN Use("id") ELSE UNCHANGED used
  BY DEF Receive, CanReceive
<1>2. f \in Frame /\ Tail(net[n]) \in Seq(Frame) BY <1>1, HeadTailType
<1> HIDE DEF f
<1>3. Ctx(y) /\ Sound(y.c) /\ Named(y.c) BY <1>1, <1>2, L4rxSound
<1> HIDE DEF y
<1>4. Circuits' /\ Nets' /\ Histories' BY <1>1, <1>2, <1>3, BecameKeeps
<1>5. used' \in Used
  <2>1. CASE New(n, f)
    <3>1. used' = [used EXCEPT !.id = @ + 1]
      <4>1. used' = [used EXCEPT !["id"] = @ + 1] BY <1>1, <2>1 DEF Use
      <4> QED BY <4>1
    <3> QED BY <1>1, <2>1, <3>1, UseId DEF Inv
  <2>2. CASE ~New(n, f) BY <1>1, <2>2 DEF Inv
  <2> QED BY <2>1, <2>2
<1> QED BY <1>4, <1>5 DEF Inv

LEMMA RestKeeps ==
  ASSUME Inv, NEW n \in Node, NEW i \in Index, NEW k \in 0 .. cir[n][i].numrx,
         NEW mem, NEW early, Rest(n, i, k, mem, early)
  PROVE  Inv'
<1> DEFINE x == Context(n, i)
<1> DEFINE y == L4rest(x, k, mem, early)
<1>1. /\ cir[n][i].st # L4SDSCED /\ Done(y)
      /\ IF mem = "low" THEN Use("low") ELSE UNCHANGED used
  BY DEF Rest, Acted
<1>2. Ctx(x) /\ Sound(x.c) /\ x.c = cir[n][i] BY ContextType
<1> HIDE DEF x
<1>3. Result(x, y) BY <1>2, L4restSound
<1> HIDE DEF y
<1>4. Circuits' /\ Nets' /\ Histories' BY <1>1, <1>3, ResultKeeps DEF x
<1>5. used' \in Used BY <1>1, UseKeeps DEF Inv
<1> QED BY <1>4, <1>5 DEF Inv

LEMMA TxKeeps ==
  ASSUME Inv, NEW n \in Node, NEW i \in Index, Tx(n, i)
  PROVE  Inv'
<1> DEFINE x == Context(n, i)
<1> DEFINE y == L4tx(x)
<1>1. Ctx(x) /\ Sound(x.c) /\ x.c = cir[n][i] BY ContextType
<1>2. CanSend(x.c) > 0 /\ Done(y) /\ used' = used BY <1>1 DEF Tx
<1> HIDE DEF x
<1>3. x.c.st # L4SDSCED
  <2>1. x.c.st = L4SDSCED => CanSend(x.c) = 0 BY DEF CanSend, L4SDSCED, L4SIXFER
  <2> QED BY <1>2, <2>1
<1>4. Result(x, y) BY <1>1, <1>3, L4txSound
<1> HIDE DEF y
<1>5. Circuits' /\ Nets' /\ Histories' BY <1>1, <1>2, <1>3, <1>4, ResultKeeps DEF x
<1> QED BY <1>2, <1>5 DEF Inv

LEMMA SecondKeeps ==
  ASSUME Inv, NEW n \in Node, NEW i \in Index, NEW due, NEW open \in Open(n, i),
         Second(n, i, due, open)
  PROVE  Inv'
<1> DEFINE x == Context(n, i)
<1> DEFINE t == [due |-> due, open |-> open]
<1> DEFINE y == Trasrv(x, t)
<1>1. /\ cir[n][i].st # L4SDSCED /\ Done(y)
      /\ IF "tranoa" \in due THEN Use("idle") ELSE UNCHANGED used
  BY DEF Second, Acted
<1>2. Ctx(x) /\ Sound(x.c) /\ Shaped(x.c) /\ x.c = cir[n][i] BY ContextType
<1>3. t.open # 0 => t.open \in 1 .. Fropen(x.c)
  <2>1. Fropen(x.c) \in 0 .. Mod - 1 BY <1>2, FropenType
  <2>2. t.open \in 0 .. Fropen(x.c) \/ t.open = 0 BY <1>2 DEF Open
  <2> QED BY <2>1, <2>2, ModType
<1> HIDE DEF x, t
<1>4. Result(x, y) BY <1>2, <1>3, TrasrvSound
<1> HIDE DEF y
<1>5. Circuits' /\ Nets' /\ Histories' BY <1>1, <1>4, ResultKeeps DEF x
<1>6. used' \in Used BY <1>1, UseKeeps DEF Inv
<1> QED BY <1>5, <1>6 DEF Inv

(* The network handles datagrams, it does not make any.                    *)
LEMMA NetworkKeeps ==
  ASSUME Inv, NEW n \in Node, Lose(n) \/ Duplicate(n) \/ Swap(n)
  PROVE  Inv'
<1>1. net \in [Node -> Seq(Frame)] BY DEF Inv, Nets
<1>2. CASE Lose(n)
  <2>1. Tail(net[n]) \in Seq(Frame) BY <1>2, HeadTailType DEF Lose
  <2>2. Nets' BY <1>1, <1>2, <2>1 DEF Lose, Nets
  <2>3. used' \in Used BY <1>2, UseKeeps DEF Lose, Inv
  <2> QED BY <1>2, <2>2, <2>3 DEF Lose, Inv, Circuits, Histories
<1>3. CASE Duplicate(n)
  <2>1. Head(net[n]) \in Frame BY <1>3, HeadTailType DEF Duplicate
  <2>2. Append(net[n], Head(net[n])) \in Seq(Frame) BY <1>1, <2>1, AppendProperties
  <2>3. Nets' BY <1>1, <1>3, <2>2 DEF Duplicate, Nets
  <2>4. used' \in Used BY <1>3, UseKeeps DEF Duplicate, Inv
  <2> QED BY <1>3, <2>3, <2>4 DEF Duplicate, Inv, Circuits, Histories
<1>4. CASE Swap(n)
  <2> DEFINE s == net[n]
  <2> DEFINE s1 == [s EXCEPT ![1] = s[2]]
  <2> DEFINE s2 == [s1 EXCEPT ![2] = s[1]]
  <2>1. s \in Seq(Frame) /\ Len(s) \in Nat /\ Len(s) > 1
    BY <1>1, <1>4, LenProperties DEF Swap
  <2>2. net' = [net EXCEPT ![n] = s2]
    <3>1. net' = [net EXCEPT ![n][1] = net[n][2], ![n][2] = net[n][1]] BY <1>4 DEF Swap
    <3> QED BY <1>1, <3>1
  <2> HIDE DEF s
  <2>3. s[1] \in Frame /\ s[2] \in Frame BY <2>1, ElementOfSeq
  <2>4. s1 \in Seq(Frame) /\ Len(s1) = Len(s) BY <2>1, <2>3, ExceptSeq
  <2> HIDE DEF s1
  <2>5. s2 \in Seq(Frame) BY <2>1, <2>3, <2>4, ExceptSeq
  <2> HIDE DEF s2
  <2>6. Nets' BY <1>1, <2>2, <2>5 DEF Nets
  <2>7. used' \in Used BY <1>4, UseKeeps DEF Swap, Inv
  <2> QED BY <1>4, <2>6, <2>7 DEF Swap, Inv, Circuits, Histories
<1> QED BY <1>2, <1>3, <1>4

LEMMA RestartKeeps == ASSUME Inv, NEW n \in Node, Restart(n) PROVE Inv'
<1>1. Blank \in Good
  <2>1. Named(Blank) BY DEF Named, Blank
  <2> QED BY <2>1, BlankSound, GoodCircuit
<1>2. Circuits' BY <1>1 DEF Restart, Inv, Circuits
<1>3. used' \in Used BY UseKeeps DEF Restart, Inv
<1> QED BY <1>2, <1>3 DEF Restart, Inv, Nets, Histories

LEMMA NextInv == Inv /\ [Next]_vars => Inv'
<1>1. ASSUME Inv, Next PROVE Inv'
  <2> PICK n \in Node :
        \/ Connect(n) \/ Receive(n)
        \/ Lose(n) \/ Duplicate(n) \/ Swap(n) \/ Restart(n)
        \/ \E i \in Index : Disconnect(n, i) \/ Queue(n, i) \/ L4(n, i)
    BY <1>1 DEF Next
  <2>1. CASE Connect(n) BY <1>1, <2>1, ConnectKeeps
  <2>2. CASE Receive(n) BY <1>1, <2>2, ReceiveKeeps
  <2>3. CASE Lose(n) \/ Duplicate(n) \/ Swap(n) BY <1>1, <2>3, NetworkKeeps
  <2>4. CASE Restart(n) BY <1>1, <2>4, RestartKeeps
  <2>5. ASSUME NEW i \in Index, Disconnect(n, i) PROVE Inv'
    BY <1>1, <2>5, DisconnectKeeps
  <2>6. ASSUME NEW i \in Index, Queue(n, i) PROVE Inv' BY <1>1, <2>6, QueueKeeps
  <2>7. ASSUME NEW i \in Index, L4(n, i) PROVE Inv'
    <3>1. CASE \E k \in 0 .. cir[n][i].numrx, mem \in Memory,
                  early \in {TRUE, ~cir[n][i].acktim} : Rest(n, i, k, mem, early)
      BY <1>1, <2>7, <3>1, RestKeeps
    <3>2. CASE Tx(n, i) BY <1>1, <2>7, <3>2, TxKeeps
    <3>3. CASE \E due \in SUBSET Due(n, i), open \in Open(n, i) : Second(n, i, due, open)
      BY <1>1, <2>7, <3>3, SecondKeeps
    <3> QED BY <2>7, <3>1, <3>2, <3>3 DEF L4
  <2> QED BY <2>1, <2>2, <2>3, <2>4, <2>5, <2>6, <2>7
<1>2. Inv /\ UNCHANGED vars => Inv'
  BY DEF vars, Inv, Circuits, Nets, Histories
<1> QED BY <1>1, <1>2

LEMMA AlwaysInv == Spec => []Inv
BY InitInv, NextInv, PTL DEF Spec

(* Every variable keeps its type: the numbers of a circuit stay below Mod, *)
(* however it is set up, choked, restarted or ended (l4.c).                *)
THEOREM TypeCorrect == Spec => []TypeOK
BY AlwaysInv, InvImplies, PTL

(* The open messages of a circuit are in its list and in its window, so    *)
(* that chksts(), trasrv() and l4tx() never walk beyond the end of mbhdtx. *)
THEOREM WindowAlwaysInList == Spec => []WindowInList
BY AlwaysInv, InvImplies, PTL

(* No circuit waits for its partner without the transport timer.           *)
THEOREM WaitAlwaysTimed == Spec => []WaitTimed
BY AlwaysInv, InvImplies, PTL
=============================================================================
